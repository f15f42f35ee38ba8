------------------------------ MODULE MCRpcWorker ------------------------------
EXTENDS RpcWorker, TLC

Symmetry == Permutations(Calls)
================================================================================
