-------------------------- MODULE ClientCache_proofs --------------------------
(***************************************************************************)
(* Proofs about ClientCache for any calls, keys and number of versions:    *)
(* entries and their flush goroutines come and go together, and an entry   *)
(* is never replaced.                                                      *)
(***************************************************************************)
EXTENDS ClientCache, TLAPS

USE DEF Absent

\* The type invariant: a call that is about to store has an answer, whatever
\* other calls and goroutines did meanwhile.
THEOREM TypeCorrect == CacheSpec => []CacheTypeOK
<1> USE CacheAssumption DEF CacheTypeOK, CachePC, TimerPC, Contexts, Versions, Enter, requestVars
<1>1. CacheInit => CacheTypeOK
  BY DEF CacheInit
<1>2. CacheTypeOK /\ [CacheNext]_cacheVars => CacheTypeOK'
  <2> SUFFICES ASSUME CacheTypeOK, [CacheNext]_cacheVars PROVE CacheTypeOK'
    OBVIOUS
  <2>1. ASSUME NEW r \in Lookups, RequestWithContext(r) PROVE CacheTypeOK'
    BY <2>1 DEF RequestWithContext
  <2>2. ASSUME NEW r \in Lookups, setContext(r) PROVE CacheTypeOK'
    BY <2>2 DEF setContext
  <2>3. ASSUME NEW r \in Lookups, getResponse(r) PROVE CacheTypeOK'
    BY <2>3 DEF getResponse
  <2>4. ASSUME NEW r \in Lookups, Answered(r) PROVE CacheTypeOK'
    BY <2>4 DEF Answered
  <2>5. ASSUME NEW r \in Lookups, CallFails(r) PROVE CacheTypeOK'
    BY <2>5 DEF CallFails
  <2>6. ASSUME NEW r \in Lookups, storeResponse(r) PROVE CacheTypeOK'
    BY <2>6 DEF storeResponse
  <2>7. ASSUME NEW r \in Lookups, CancelContext(r) PROVE CacheTypeOK'
    BY <2>7 DEF CancelContext
  <2>8. ASSUME NEW k \in Keys, TimeoutElapses(k) \/ ContextDone(k) \/ Flush(k) PROVE CacheTypeOK'
    BY <2>8 DEF TimeoutElapses, ContextDone, Flush
  <2>9. ASSUME NEW k \in Keys, AnswerChanges(k) PROVE CacheTypeOK'
    BY <2>9 DEF AnswerChanges
  <2>10. CASE UNCHANGED cacheVars
    BY <2>10 DEF cacheVars
  <2> QED
    BY <2>1, <2>2, <2>3, <2>4, <2>5, <2>6, <2>7, <2>8, <2>9, <2>10 DEF CacheNext, RequestStep, TimerStep
<1> QED BY <1>1, <1>2, PTL DEF CacheSpec

\* What a step does to entries and goroutines: it leaves them alone, stores one
\* where there is none and starts its goroutine, lets a goroutine go on, or
\* ends one with its entry.
LEMMA EntrySteps ==
  ASSUME CacheTypeOK, [CacheNext]_cacheVars
  PROVE  \/ UNCHANGED <<cached, timer>>
         \/ \E r \in Lookups :
              /\ cached[key[r]] = Absent /\ answer[r] # Absent
              /\ cached' = [cached EXCEPT ![key[r]] = answer[r]]
              /\ timer' = [timer EXCEPT ![key[r]] = "waiting"]
         \/ \E k \in Keys : /\ timer[k] # "none" /\ UNCHANGED cached
                            /\ \E t \in TimerPC \ {"none"} : timer' = [timer EXCEPT ![k] = t]
         \/ \E k \in Keys : /\ cached' = [cached EXCEPT ![k] = Absent]
                            /\ timer' = [timer EXCEPT ![k] = "none"]
<1>1. ASSUME NEW r \in Lookups, storeResponse(r), cached[key[r]] = Absent
      PROVE  /\ answer[r] # Absent
             /\ cached' = [cached EXCEPT ![key[r]] = answer[r]]
             /\ timer' = [timer EXCEPT ![key[r]] = "waiting"]
  BY <1>1 DEF storeResponse, CacheTypeOK
<1>2. ASSUME NEW r \in Lookups, storeResponse(r), cached[key[r]] # Absent
      PROVE  UNCHANGED <<cached, timer>>
  BY <1>2 DEF storeResponse, CacheTypeOK
<1>3. ASSUME NEW r \in Lookups,
             RequestWithContext(r) \/ setContext(r) \/ getResponse(r) \/ Answered(r) \/ CallFails(r) \/ CancelContext(r)
      PROVE  UNCHANGED <<cached, timer>>
  BY <1>3 DEF RequestWithContext, setContext, getResponse, Answered, CallFails, CancelContext
<1>4. ASSUME NEW k \in Keys, TimeoutElapses(k) \/ ContextDone(k)
      PROVE  /\ timer[k] # "none" /\ UNCHANGED cached
             /\ \E t \in TimerPC \ {"none"} : timer' = [timer EXCEPT ![k] = t]
  BY <1>4 DEF TimeoutElapses, ContextDone, TimerPC
<1>5. ASSUME NEW k \in Keys, Flush(k)
      PROVE  /\ cached' = [cached EXCEPT ![k] = Absent]
             /\ timer' = [timer EXCEPT ![k] = "none"]
  BY <1>5 DEF Flush
<1>6. ASSUME NEW k \in Keys, AnswerChanges(k) PROVE UNCHANGED <<cached, timer>>
  BY <1>6 DEF AnswerChanges
<1>7. UNCHANGED cacheVars => UNCHANGED <<cached, timer>>
  BY DEF cacheVars
<1> QED
  BY <1>1, <1>2, <1>3, <1>4, <1>5, <1>6, <1>7 DEF CacheNext, RequestStep, TimerStep

\* Every entry has exactly one flush goroutine and every goroutine an entry,
\* however many calls miss the same key at once (storeResponse looks again under
\* the lock, and Flush deletes under it).
THEOREM GoroutinePerEntry == CacheSpec => []TimerPerEntry
<1>1. CacheInit => TimerPerEntry
  BY DEF CacheInit, TimerPerEntry
<1>2. CacheTypeOK /\ TimerPerEntry /\ [CacheNext]_cacheVars => TimerPerEntry'
  <2> SUFFICES ASSUME CacheTypeOK, TimerPerEntry, [CacheNext]_cacheVars, NEW q \in Keys
               PROVE  (cached[q] # Absent <=> timer[q] # "none")'
    BY DEF TimerPerEntry
  <2> USE DEF CacheTypeOK, TimerPerEntry
  <2>1. CASE UNCHANGED <<cached, timer>>
    BY <2>1
  <2>2. ASSUME NEW r \in Lookups, cached[key[r]] = Absent, answer[r] # Absent,
               cached' = [cached EXCEPT ![key[r]] = answer[r]],
               timer' = [timer EXCEPT ![key[r]] = "waiting"]
        PROVE  (cached[q] # Absent <=> timer[q] # "none")'
    BY <2>2
  <2>3. ASSUME NEW k \in Keys, timer[k] # "none", UNCHANGED cached,
               NEW t \in TimerPC \ {"none"}, timer' = [timer EXCEPT ![k] = t]
        PROVE  (cached[q] # Absent <=> timer[q] # "none")'
    BY <2>3
  <2>4. ASSUME NEW k \in Keys, cached' = [cached EXCEPT ![k] = Absent],
               timer' = [timer EXCEPT ![k] = "none"]
        PROVE  (cached[q] # Absent <=> timer[q] # "none")'
    BY <2>4
  <2> QED BY <2>1, <2>2, <2>3, <2>4, EntrySteps
<1> QED BY <1>1, <1>2, TypeCorrect, PTL DEF CacheSpec

\* An entry is never replaced while it lives: the age limit counts from the
\* answer that every hit returns.
THEOREM EntriesStay == CacheSpec => NeverReplaced
<1>1. CacheTypeOK /\ [CacheNext]_cacheVars =>
        [\A k \in Keys : cached[k] # Absent => cached'[k] \in {cached[k], Absent}]_cacheVars
  <2> SUFFICES ASSUME CacheTypeOK, [CacheNext]_cacheVars, NEW q \in Keys, cached[q] # Absent
               PROVE  cached'[q] \in {cached[q], Absent}
    OBVIOUS
  <2> USE DEF CacheTypeOK
  <2> QED BY EntrySteps
<1> QED BY <1>1, TypeCorrect, PTL DEF CacheSpec, NeverReplaced
=============================================================================
