---------------------------------- MODULE Routes ----------------------------------
(***************************************************************************)
(* Routes and patterns (domains/routes.rs), as sequences of segments after *)
(* the scheme: the validation of registration patterns and of stream       *)
(* selectors, and route_matches_pattern, a loop over two cursors that      *)
(* returns to the last ** when it is stuck.  Patterns come from the        *)
(* application and are validated before use; the routes matched against    *)
(* them come from the broker and are not.                                  *)
(*                                                                         *)
(* A definition X_Y stated before X is a faulty variant of X: it is what   *)
(* the properties are tried against, and no specification uses it.         *)
(***************************************************************************)
EXTENDS Integers, Sequences, FiniteSets

CONSTANTS
    Literals,     \* segments without a wildcard
    MaxSegments,  \* bound on the length of routes and patterns
    Depths        \* required_segments of the domains, 0 for a flexible depth

ASSUME RoutesAssumption ==
    /\ MaxSegments \in Nat /\ Depths \subseteq Nat
    /\ Literals \cap {"*", "**", "", "partly*"} = {}
    /\ \E a, b \in Literals : a # b

Paths(segments) == UNION {[1..n -> segments] : n \in 1..MaxSegments}
Patterns == Paths(Literals \cup {"*", "**", "", "partly*"})
BrokerRoutes == Paths(Literals \cup {""})

VARIABLES
    checking,   \* "idle"; "pattern" or "selector" when validated, "match" in the loop
    pattern, route,
    depth,      \* the required depth, -1 when no pattern was validated
    verdict,    \* "none", "refused", "accepted" or a scope; "matches" or "differs"
    atRoute, atPattern,   \* the two cursors of the loop
    afterDouble,          \* last_double_wildcard, 0 for None
    doubleMatch           \* last_double_match

routesVars == <<checking, pattern, route, depth, verdict, atRoute, atPattern,
                afterDouble, doubleMatch>>
cursors == <<atRoute, atPattern, afterDouble, doubleMatch>>

RoutesInit ==
    /\ checking = "idle"
    /\ pattern = <<>> /\ route = <<>>
    /\ depth = -1
    /\ verdict = "none"
    /\ atRoute = 1 /\ atPattern = 1 /\ afterDouble = 0 /\ doubleMatch = 1

-----------------------------------------------------------------------------
(* Validation. *)

DoubleWildcards(p) == {i \in DOMAIN p : p[i] = "**"}

\* scan(): no empty segment, no adjacent **, and a wildcard is a whole segment.
Scans(p) ==
    /\ \A i \in DOMAIN p : p[i] \notin {"", "partly*"}
    /\ \A i \in DoubleWildcards(p) : i + 1 \notin DoubleWildcards(p)

Fits_CountsDoubles(p, n) ==
    IF DoubleWildcards(p) = {} THEN Len(p) = n ELSE Len(p) <= n

\* The pattern can match a route of n segments.
Fits(p, n) ==
    IF DoubleWildcards(p) = {}
    THEN Len(p) = n
    ELSE Len(p) - Cardinality(DoubleWildcards(p)) <= n

BeginCheck(p) ==
    /\ checking = "idle"
    /\ pattern' = p
    /\ UNCHANGED <<route, cursors>>

\* validate_registration_pattern()
ValidatePattern(p, n) ==
    /\ BeginCheck(p)
    /\ checking' = "pattern" /\ depth' = n
    /\ verdict' = IF Scans(p) /\ (n = 0 \/ Fits(p, n)) THEN "accepted" ELSE "refused"

\* classify_stream_selector()
Classify(p) ==
    LET plain(i) == p[i] \in Literals \cup {"*"} IN
    CASE p = <<"**">> -> "global"
      [] p # <<"**">> /\ ~Scans(p) -> "refused"
      [] OTHER ->
           IF Len(p) = 2 /\ p[2] = "**" /\ p[1] \in Literals THEN "realm"
           ELSE IF Len(p) # 3 \/ \E i \in 1..3 : ~plain(i) THEN "refused"
           ELSE IF p[1] = "*" THEN "global"
           ELSE IF p[2] = "*" THEN "realm"
           ELSE IF p[3] = "*" THEN "area"
           ELSE "resource"

ValidateSelector(p) ==
    /\ BeginCheck(p)
    /\ checking' = "selector" /\ verdict' = Classify(p)
    /\ UNCHANGED depth

-----------------------------------------------------------------------------
(* route_matches_pattern(r, p): schemes are equal and both paths are not empty. *)

\* next_segment() does not see an empty segment at the end of a path.
Visible(path) ==
    IF path[Len(path)] = "" THEN SubSeq(path, 1, Len(path) - 1) ELSE path

StartMatch(r, p) ==
    /\ checking = "idle"
    /\ r # <<"">>
    /\ checking' = "match"
    /\ pattern' = p /\ route' = Visible(r)
    /\ UNCHANGED <<depth, verdict, cursors>>

InLoop == checking = "match" /\ verdict = "none" /\ atRoute <= Len(route)

Same == atPattern <= Len(pattern) /\ pattern[atPattern] \in {"*", route[atRoute]}
Double == atPattern <= Len(pattern) /\ pattern[atPattern] = "**"

\* Both cursors move on.
MatchOne ==
    /\ InLoop /\ Same
    /\ atRoute' = atRoute + 1 /\ atPattern' = atPattern + 1
    /\ UNCHANGED <<checking, pattern, route, depth, verdict, afterDouble, doubleMatch>>

\* A ** first matches nothing, and the loop remembers where it was.
MatchDouble ==
    /\ InLoop /\ ~Same /\ Double
    /\ afterDouble' = atPattern + 1
    /\ doubleMatch' = atRoute
    /\ atPattern' = atPattern + 1
    /\ UNCHANGED <<checking, pattern, route, depth, verdict, atRoute>>

Backtrack_FromHere ==
    /\ InLoop /\ ~Same /\ ~Double
    /\ IF afterDouble = 0
       THEN verdict' = "differs" /\ UNCHANGED cursors
       ELSE /\ doubleMatch' = atRoute + 1
            /\ atRoute' = atRoute + 1
            /\ atPattern' = afterDouble
            /\ UNCHANGED <<verdict, afterDouble>>
    /\ UNCHANGED <<checking, pattern, route, depth>>

\* Stuck: the last ** takes one more segment, if there was one.
Backtrack ==
    /\ InLoop /\ ~Same /\ ~Double
    /\ IF afterDouble = 0
       THEN verdict' = "differs" /\ UNCHANGED cursors
       ELSE /\ doubleMatch' = doubleMatch + 1
            /\ atRoute' = doubleMatch + 1
            /\ atPattern' = afterDouble
            /\ UNCHANGED <<verdict, afterDouble>>
    /\ UNCHANGED <<checking, pattern, route, depth>>

\* The route is used up: what is left of the pattern must be **.
FinishMatch ==
    /\ checking = "match" /\ verdict = "none" /\ atRoute > Len(route)
    /\ verdict' = IF \A i \in atPattern..Len(pattern) : pattern[i] = "**"
                  THEN "matches" ELSE "differs"
    /\ UNCHANGED <<checking, pattern, route, depth, cursors>>

\* The patterns there are to check, and those a route is matched against.
Unchecked == IF checking = "idle" THEN Patterns ELSE {}
Matchable == {p \in Unchecked : Scans(p)}

RoutesNext ==
    \/ \E p \in Unchecked, n \in Depths : ValidatePattern(p, n)
    \/ \E p \in Unchecked : ValidateSelector(p)
    \/ \E p \in Matchable, r \in BrokerRoutes : StartMatch(r, p)
    \/ MatchOne \/ MatchDouble \/ Backtrack \/ FinishMatch

RoutesSpec == RoutesInit /\ [][RoutesNext]_routesVars

-----------------------------------------------------------------------------
(* The meaning of a pattern. *)

\* The segments of a route that the first i segments of a pattern use, of the number
\* used by each.
UsedBy(used, i) == IF i = 0 THEN 0 ELSE used[i]

\* A segment of the pattern takes one of the route that it equals or that * stands for,
\* and ** takes any number; together they take all.
Takes(p, r, used, i) ==
    IF p[i] = "**"
    THEN UsedBy(used, i - 1) <= used[i]
    ELSE used[i] = UsedBy(used, i - 1) + 1 /\ p[i] \in {"*", r[used[i]]}

Aligns(p, r, used) == used[Len(p)] = Len(r) /\ \A i \in 1..Len(p) : Takes(p, r, used, i)

Covers(p, r) == \E used \in [1..Len(p) -> 0..Len(r)] : Aligns(p, r, used)

\* The routes of n segments that a pattern covers.
Extent(p, n) == {r \in [1..n -> Literals] : Covers(p, r)}

\* route_matches_pattern never loses or invents a match, however often it has to come
\* back to a **: RPC workers and schedule listings accept exactly the routes of their
\* pattern.
MatchIsExact ==
    checking = "match" /\ verdict # "none" => (verdict = "matches" <=> Covers(pattern, route))

\* A registration pattern is accepted exactly if it is well formed and some route of
\* the domain's depth can match it.
AcceptedCanMatch ==
    checking = "pattern" =>
        (verdict = "accepted" <=>
            Scans(pattern) /\ (depth = 0 \/ Extent(pattern, depth) # {}))

\* The scope given to a stream selector is the extent of the streams it covers: READ
\* answers carry routes only for a global selector.
ScopeIsExtent ==
    LET streams == Extent(pattern, 3)
        several(n) == \E q, r \in streams : \E i \in 1..n : q[i] # r[i]
    IN  checking = "selector" /\ verdict # "refused" =>
           verdict = (CASE several(1) -> "global"
                        [] ~several(1) /\ several(2) -> "realm"
                        [] ~several(2) /\ several(3) -> "area"
                        [] OTHER -> "resource")

\* Validation agrees with what patterns match.
ValidationIsExact == AcceptedCanMatch /\ ScopeIsExtent
================================================================================
