------------------------------ MODULE ScheduleListing ------------------------------
(***************************************************************************)
(* ScheduleClient::list_by_selector: the schedules are read page by page   *)
(* and matched against the selector, while other clients create and cancel *)
(* schedules.  A page request is replayed when its session is lost.  A     *)
(* schedule is a number, the order of its route in the broker's listing;   *)
(* route_matches_pattern is the matter of module Routes.  The broker is    *)
(* external: a continuation stands for the last route of its page.         *)
(*                                                                         *)
(* A definition X_Y stated before X is a faulty variant of X: it is what   *)
(* the properties are tried against, and no specification uses it.         *)
(***************************************************************************)
EXTENDS Integers, FiniteSets

CONSTANTS
    Schedules,   \* an interval 1..n
    Selected,    \* the ones whose route matches the selector
    PageSize,    \* entries of a page (100 in the code)
    MaxTries,    \* attempts at one page: RetryOptions::maximum_attempts
    MaxChanges   \* bound on schedules created and cancelled during the listing

ASSUME ListingAssumption ==
    /\ Schedules \subseteq Nat \ {0} /\ Selected \subseteq Schedules
    /\ PageSize \in Nat \ {0} /\ MaxTries \in Nat \ {0} /\ MaxChanges \in Nat

VARIABLES
    stored,      \* external: the schedules of the broker
    listing,     \* "new", "asking", "answered", "done" or "failed"
    position,    \* the continuation to ask for, 0 for None
    answer,      \* external: the page in transit
    found,       \* how often each schedule is in matches
    tries,       \* attempts at this page
    changes,     \* schedules created and cancelled so far
    \* history
    throughout,  \* schedules stored all the time since the listing began
    sometime     \* schedules stored at some time since

listingVars == <<stored, listing, position, answer, found, tries, changes,
                 throughout, sometime>>

Page(entries, more, continuation) ==
    [entries |-> entries, more |-> more, continuation |-> continuation]
NoPage == Page({}, FALSE, 0)

ListingInit ==
    /\ stored = {}
    /\ listing = "new"
    /\ position = 0 /\ answer = NoPage
    /\ found = [s \in Schedules |-> 0]
    /\ tries = 0 /\ changes = 0
    /\ throughout = {} /\ sometime = {}

-----------------------------------------------------------------------------
(* Other clients. *)

\* The changes after the listing began are bounded.
Changing(n) ==
    /\ listing \in {"asking", "answered"} => changes + n <= MaxChanges
    /\ changes' = IF listing = "new" THEN 0 ELSE changes + n
    /\ listing \notin {"done", "failed"}

\* create() and create_batch(): one request, applied as a whole.
CreateSchedules(new) ==
    /\ Changing(Cardinality(new))
    /\ new # {} /\ new \cap stored = {}
    /\ stored' = stored \cup new
    /\ sometime' = sometime \cup new
    /\ throughout' = IF listing = "new" THEN throughout \cup new ELSE throughout
    /\ UNCHANGED <<listing, position, answer, found, tries>>

\* cancel()
CancelSchedule(s) ==
    /\ Changing(1)
    /\ s \in stored
    /\ stored' = stored \ {s}
    /\ throughout' = throughout \ {s}
    /\ sometime' = IF listing = "new" THEN sometime \ {s} ELSE sometime
    /\ UNCHANGED <<listing, position, answer, found, tries>>

-----------------------------------------------------------------------------
(* The listing. *)

\* The selector is valid: the first page is asked for.
StartListing ==
    /\ listing = "new"
    /\ listing' = "asking" /\ tries' = 1
    /\ UNCHANGED <<stored, position, answer, found, changes, throughout, sometime>>

\* external: the page after the continuation, which is the last of its entries when
\* there are more.
PagesAfter(after) ==
    LET rest == {s \in stored : s > after}
        entries == {s \in rest : Cardinality({r \in rest : r <= s}) <= PageSize}
        ends == {s \in entries : \A r \in entries : r <= s}
    IN  IF entries = rest
        THEN {Page(rest, FALSE, 0)}
        ELSE {Page(entries, TRUE, s) : s \in ends}

\* The request of list_v2() is answered, now and then by a page that cannot be
\* continued.
BrokerAnswers ==
    /\ listing = "asking"
    /\ listing' = "answered"
    /\ answer' \in PagesAfter(position) \cup {Page({}, TRUE, position)}
                  \cup {[page EXCEPT !.continuation = 0] : page \in PagesAfter(position)}
    /\ UNCHANGED <<stored, position, found, tries, changes, throughout, sometime>>

\* request_replayable(): a lost session, a timeout or a refusal before any effect
\* repeats the same page.  It also ends the listing when it is not to be repeated.
Replay ==
    /\ listing \in {"asking", "answered"}
    /\ answer' = NoPage
    /\ \/ tries < MaxTries /\ tries' = tries + 1 /\ listing' = "asking"
       \/ listing' = "failed" /\ UNCHANGED tries
    /\ UNCHANGED <<stored, position, found, changes, throughout, sometime>>

\* decode_cursor_page() refuses the payload, for its version, a flag, a delivery mode
\* or trailing bytes.
Undecodable ==
    /\ listing = "answered"
    /\ listing' = "failed" /\ answer' = NoPage
    /\ UNCHANGED <<stored, position, found, tries, changes, throughout, sometime>>

Stuck(page) == page.more /\ (page.entries = {} \/ page.continuation = 0)

\* matches with the entries that the selector covers.
Matched(entries) ==
    [s \in Schedules |-> IF s \in entries \cap Selected THEN found[s] + 1 ELSE found[s]]

TakePage_EndsEarly ==
    /\ listing = "answered"
    /\ found' = Matched(answer.entries)
    /\ answer' = NoPage
    /\ IF Stuck(answer)
       THEN listing' = "done" /\ UNCHANGED <<position, tries>>
       ELSE IF answer.more
       THEN listing' = "asking" /\ position' = answer.continuation /\ tries' = 1
       ELSE listing' = "done" /\ UNCHANGED <<position, tries>>
    /\ UNCHANGED <<stored, changes, throughout, sometime>>

\* The body of the loop: the entries that match are kept, and the next page is asked
\* for until the broker says there is none.
TakePage ==
    /\ listing = "answered"
    /\ found' = Matched(answer.entries)
    /\ answer' = NoPage
    /\ IF Stuck(answer)
       THEN listing' = "failed" /\ UNCHANGED <<position, tries>>
       ELSE IF answer.more
       THEN listing' = "asking" /\ position' = answer.continuation /\ tries' = 1
       ELSE listing' = "done" /\ UNCHANGED <<position, tries>>
    /\ UNCHANGED <<stored, changes, throughout, sometime>>

ListingNext ==
    \/ \E new \in SUBSET Schedules : CreateSchedules(new)
    \/ \E s \in Schedules : CancelSchedule(s)
    \/ StartListing \/ BrokerAnswers \/ Replay \/ Undecodable \/ TakePage

ListingSpec == ListingInit /\ [][ListingNext]_listingVars

-----------------------------------------------------------------------------
\* A listing that succeeds holds every selected schedule that was there all the time,
\* and nothing twice or from before it began, whatever is created, cancelled or
\* replayed between its pages; a page that cannot be continued fails the listing
\* instead of ending it early.
ListingComplete ==
    listing = "done" => \A s \in Schedules :
        /\ s \in throughout \cap Selected => found[s] = 1
        /\ found[s] > 0 => found[s] = 1 /\ s \in sometime \cap Selected
================================================================================
