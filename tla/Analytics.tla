------------------------------ MODULE Analytics ------------------------------
(***************************************************************************)
(* The statistics of the last N requests (analytics.Analytics): a ring of  *)
(* outcomes with two running counters. Success and Failure are called by   *)
(* the goroutines of all requests and hold the mutex throughout.           *)
(***************************************************************************)
EXTENDS Integers, FiniteSets

CONSTANT N      \* totalRequests: 50 for both uses in the program

ASSUME AnalyticsAssumption == N \in Nat \ {0}

VARIABLES
    success, failures,  \* the counters
    lastRequest,        \* index of the next slot to write
    lastRequests        \* the ring

vars == <<success, failures, lastRequest, lastRequests>>

Slots == 0..(N - 1)

Init ==
    /\ success = 0 /\ failures = 0
    /\ lastRequest = 0
    /\ lastRequests = [i \in Slots |-> FALSE]

One(b) == IF b THEN 1 ELSE 0

\* Mutant: the oldest outcome is pushed off one request too late.
bump_Late(outcome) ==
    LET full == success + failures > N
        oldest == lastRequests[lastRequest]
    IN  /\ success' = success + One(outcome) - One(full /\ oldest)
        /\ failures' = failures + One(~outcome) - One(full /\ ~oldest)
        /\ lastRequests' = [lastRequests EXCEPT ![lastRequest] = outcome]
        /\ lastRequest' = (lastRequest + 1) % N

\* Mutant: the slot is written before the outcome it held is taken off.
bump_WriteFirst(outcome) ==
    LET full == success + failures >= N
    IN  /\ success' = success + One(outcome) - One(full /\ outcome)
        /\ failures' = failures + One(~outcome) - One(full /\ ~outcome)
        /\ lastRequests' = [lastRequests EXCEPT ![lastRequest] = outcome]
        /\ lastRequest' = (lastRequest + 1) % N

\* Once N outcomes are counted, the one in the slot to be written is pushed
\* off. CountersExact rules out the code's panics on a negative counter.
bump(outcome) ==
    LET full == success + failures >= N
        oldest == lastRequests[lastRequest]
    IN  /\ success' = success + One(outcome) - One(full /\ oldest)
        /\ failures' = failures + One(~outcome) - One(full /\ ~oldest)
        /\ lastRequests' = [lastRequests EXCEPT ![lastRequest] = outcome]
        /\ lastRequest' = (lastRequest + 1) % N

Success == bump(TRUE)
Failure == bump(FALSE)

Next == Success \/ Failure

Spec == Init /\ [][Next]_vars
-----------------------------------------------------------------------------
Counted == success + failures

\* GetSuccessRate below the bound num/den: with fewer than N outcomes the
\* rate is 1.
RateBelow(num, den) ==
    IF Counted # N THEN den < num ELSE success * den < num * N
-----------------------------------------------------------------------------
\* Type invariant of the statistics.
TypeOK ==
    /\ success \in Int /\ failures \in Int
    /\ lastRequest \in Slots
    /\ lastRequests \in [Slots -> BOOLEAN]

\* The slots that hold an outcome: all of them once N requests were counted,
\* the first ones before that.
Filled == IF Counted < N THEN 0..(Counted - 1) ELSE Slots

\* The counters are the number of successes and failures in the ring, however
\* often it has wrapped: the rate health checks read never drifts, and bump's
\* panics on a negative counter are unreachable.
CountersExact ==
    /\ success = Cardinality({i \in Filled : lastRequests[i]})
    /\ failures = Cardinality({i \in Filled : ~lastRequests[i]})

\* The ring read from its oldest slot is the sliding window.
Window == INSTANCE SlidingWindow
    WITH window <- [i \in 1..Counted |-> lastRequests[(lastRequest - Counted + i - 1) % N]]
ImplementsWindow == Window!Spec
=============================================================================
