------------------------------- MODULE MCRpcCall -------------------------------
EXTENDS RpcCall
================================================================================
