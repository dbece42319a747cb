----------------------------- MODULE ClientCache -----------------------------
(***************************************************************************)
(* The response cache of the Revo client (revo/client_cache.go), with the  *)
(* concurrent calls of RequestWithContext that read and fill it and the    *)
(* goroutines that flush its entries. A call is for a cachable method; its *)
(* method and parameters together are a key.                               *)
(***************************************************************************)
EXTENDS Naturals

CONSTANTS
    Lookups,     \* calls of RequestWithContext
    Keys,        \* cachable (method, params) pairs
    ClientCtx,   \* the client's own context, never cancelled while it runs
    NoCtx,       \* the nil context
    MaxVersion   \* bound: times the node's answers change

Absent == 0

ASSUME CacheAssumption ==
    /\ ClientCtx \notin Lookups /\ NoCtx \notin Lookups /\ ClientCtx # NoCtx
    /\ MaxVersion \in Nat \ {0}

\* A call made for an incoming HTTP request carries that request's context.
Contexts == Lookups \cup {ClientCtx}
Versions == 1..MaxVersion

VARIABLES
    phase,       \* per call: control point of RequestWithContext
    key, ctx,    \* per call: its key and its context
    answer,      \* per call: the version of the answer it has, Absent if none
    cancelled,   \* contexts of HTTP requests that have ended
    version,     \* per key: version of what the node answers
    cached,      \* per key: version in clientCache.methods, Absent if none
    timer,       \* per key: control point of its flush goroutine
    cacheCtx     \* clientCache.ctx

requestVars == <<phase, key, ctx, answer>>
cacheVars == <<requestVars, cancelled, version, cached, timer, cacheCtx>>

CachePC == {"idle", "context", "lookup", "call", "store", "done"}
TimerPC == {"none", "waiting", "timeout", "cancelled"}

CacheInit ==
    /\ phase = [r \in Lookups |-> "idle"]
    /\ key \in [Lookups -> Keys]
    /\ ctx \in [Lookups -> Contexts]
    /\ \A r \in Lookups : ctx[r] \in {r, ClientCtx}
    /\ answer = [r \in Lookups |-> Absent]
    /\ cancelled = {}
    /\ version = [k \in Keys |-> 1]
    /\ cached = [k \in Keys |-> Absent]
    /\ timer = [k \in Keys |-> "none"]
    /\ cacheCtx = NoCtx

Enter(r, p) == phase' = [phase EXCEPT ![r] = p]
-----------------------------------------------------------------------------
(* RequestWithContext                                                        *)

RequestWithContext(r) ==
    /\ phase[r] = "idle"
    /\ Enter(r, "context")
    /\ UNCHANGED <<key, ctx, answer, cancelled, version, cached, timer, cacheCtx>>

\* Only the first context a cachable call brings is kept.
setContext(r) ==
    /\ phase[r] = "context"
    /\ cacheCtx' = IF cacheCtx = NoCtx THEN ctx[r] ELSE cacheCtx
    /\ Enter(r, "lookup")
    /\ UNCHANGED <<key, ctx, answer, cancelled, version, cached, timer>>

\* A hit is the call's answer, a miss goes to the node.
getResponse(r) ==
    /\ phase[r] = "lookup"
    /\ answer' = [answer EXCEPT ![r] = cached[key[r]]]
    /\ Enter(r, IF cached[key[r]] = Absent THEN "call" ELSE "done")
    /\ UNCHANGED <<key, ctx, cancelled, version, cached, timer, cacheCtx>>

\* The node answers.
Answered(r) ==
    /\ phase[r] = "call"
    /\ answer' = [answer EXCEPT ![r] = version[key[r]]]
    /\ Enter(r, "store")
    /\ UNCHANGED <<key, ctx, cancelled, version, cached, timer, cacheCtx>>

\* The call gives up, or its answer cannot be decoded: nothing is stored.
CallFails(r) ==
    /\ phase[r] \in {"call", "store"}
    /\ answer' = [answer EXCEPT ![r] = Absent]
    /\ Enter(r, "done")
    /\ UNCHANGED <<key, ctx, cancelled, version, cached, timer, cacheCtx>>

\* Mutant: the answer is stored without a timer.
storeResponse_NoTimer(r) ==
    LET k == key[r] IN
    /\ phase[r] = "store"
    /\ cached' = [cached EXCEPT ![k] = IF @ = Absent THEN answer[r] ELSE @]
    /\ Enter(r, "done")
    /\ UNCHANGED <<key, ctx, answer, cancelled, version, timer, cacheCtx>>

\* The answer is stored if no other call stored one meanwhile, and then a
\* flush goroutine is started for it.
storeResponse(r) ==
    LET k == key[r] IN
    /\ phase[r] = "store"
    /\ cached' = [cached EXCEPT ![k] = IF @ = Absent THEN answer[r] ELSE @]
    /\ timer' = [timer EXCEPT ![k] = IF cached[k] = Absent THEN "waiting" ELSE @]
    /\ Enter(r, "done")
    /\ UNCHANGED <<key, ctx, answer, cancelled, version, cacheCtx>>

\* The HTTP request a call was made for ends some time after the call, or
\* its client goes away before.
CancelContext(r) ==
    /\ r \notin cancelled
    /\ phase[r] # "idle"
    /\ cancelled' = cancelled \cup {r}
    /\ UNCHANGED <<requestVars, version, cached, timer, cacheCtx>>
-----------------------------------------------------------------------------
(* setFlushResponseTimer                                                     *)

\* CACHABLE_METHOD_CACHE_TIMEOUT has passed since the entry was stored.
TimeoutElapses(k) ==
    /\ timer[k] = "waiting"
    /\ timer' = [timer EXCEPT ![k] = "timeout"]
    /\ UNCHANGED <<requestVars, cancelled, version, cached, cacheCtx>>

\* The cache's context is done.
ContextDone(k) ==
    /\ timer[k] = "waiting"
    /\ cacheCtx \in cancelled
    /\ timer' = [timer EXCEPT ![k] = "cancelled"]
    /\ UNCHANGED <<requestVars, cancelled, version, cached, cacheCtx>>

\* Mutant: the goroutine ends without deleting the entry.
Flush_KeepsEntry(k) ==
    /\ timer[k] \in {"timeout", "cancelled"}
    /\ timer' = [timer EXCEPT ![k] = "none"]
    /\ UNCHANGED <<requestVars, cancelled, version, cached, cacheCtx>>

Flush(k) ==
    /\ timer[k] \in {"timeout", "cancelled"}
    /\ cached' = [cached EXCEPT ![k] = Absent]
    /\ timer' = [timer EXCEPT ![k] = "none"]
    /\ UNCHANGED <<requestVars, cancelled, version, cacheCtx>>
-----------------------------------------------------------------------------
\* The node's answer for a key changes (a transaction is confirmed or spent).
AnswerChanges(k) ==
    /\ version[k] < MaxVersion
    /\ version' = [version EXCEPT ![k] = @ + 1]
    /\ UNCHANGED <<requestVars, cancelled, cached, timer, cacheCtx>>

RequestStep(r) ==
    \/ RequestWithContext(r) \/ setContext(r) \/ getResponse(r) \/ Answered(r) \/ CallFails(r)
    \/ storeResponse(r)

TimerStep(k) == TimeoutElapses(k) \/ ContextDone(k) \/ Flush(k)

CacheNext ==
    \/ \E r \in Lookups : RequestStep(r) \/ CancelContext(r)
    \/ \E k \in Keys : TimerStep(k) \/ AnswerChanges(k)

CacheSpec == CacheInit /\ [][CacheNext]_cacheVars

\* Time passes, and a goroutine that can run does run.
FairCacheSpec == CacheSpec /\ \A k \in Keys : WF_cacheVars(TimerStep(k))
-----------------------------------------------------------------------------
\* Type invariant of the cache and its callers; a call that is about to
\* store has an answer.
CacheTypeOK ==
    /\ phase \in [Lookups -> CachePC]
    /\ key \in [Lookups -> Keys] /\ ctx \in [Lookups -> Contexts]
    /\ answer \in [Lookups -> {Absent} \cup Versions]
    /\ cancelled \subseteq Lookups
    /\ version \in [Keys -> Versions]
    /\ cached \in [Keys -> {Absent} \cup Versions]
    /\ timer \in [Keys -> TimerPC]
    /\ cacheCtx \in Contexts \cup {NoCtx}
    /\ \A r \in Lookups : phase[r] = "store" => answer[r] # Absent

\* Every entry has exactly one flush goroutine and every flush goroutine an
\* entry: no entry stays for ever, and no goroutine deletes a later entry
\* before its time, whichever calls for the same key race.
TimerPerEntry == \A k \in Keys : cached[k] # Absent <=> timer[k] # "none"

\* An entry is never replaced while it lives, so its age is that of the
\* answer every hit returns.
NeverReplaced ==
    [][\A k \in Keys : cached[k] # Absent => cached'[k] \in {cached[k], Absent}]_cacheVars

\* A cached response is flushed some time.
EntryFlushed == \A k \in Keys : (cached[k] # Absent) ~> (cached[k] = Absent)
=============================================================================
