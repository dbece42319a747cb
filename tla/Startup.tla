-------------------------------- MODULE Startup --------------------------------
(***************************************************************************)
(* What the program learns after it has started to answer: the chain       *)
(* (revo/revo.go) is detected in a goroutine that asks until the node      *)
(* answers, and the chain id goes from there to the block hash service     *)
(* (blockhash/blockhash.go), which keeps a lock until it has it. Requests  *)
(* and health checks ask for both meanwhile.                               *)
(***************************************************************************)
EXTENDS Integers, FiniteSets

CONSTANTS
    Requests,    \* eth_getBlockByHash requests that look up a hash
    Probes,      \* health checks of the connection
    MaxFailures, \* bound: times the node does not answer
    Chains       \* chains the node may be on

ChainAuto == "auto"
NoId == 0

ASSUME StartAssumption ==
    Chains \subseteq {"main", "test", "regtest"} /\ MaxFailures \in Nat

VARIABLES
    chain,       \* the chain, or ChainAuto
    querying,    \* queryingChain, while queryingComplete is open
    detector,    \* the goroutine of detectingChain
    failed,      \* times the node did not answer
    done,        \* the context has ended
    service,     \* Start of the block hash service and its goroutine
    revoDB, chainId, chainIdChan,
    locked,      \* chainIdMutex is held for writing
    lookup,      \* per request: where it is in GetRevoBlockHashContext
    probe,       \* per health check: where testConnectionToRevod is
    sender       \* per health check: the goroutine that asks for the chain

startVars == <<chain, querying, detector, failed, done, service, revoDB, chainId, chainIdChan, locked,
          lookup, probe, sender>>
chainVars == <<chain, querying, detector, failed>>
serviceVars == <<service, revoDB, chainId, chainIdChan, locked>>

\* New: the chain of the option, or one that is detected.
StartInit ==
    /\ chain \in Chains \cup {ChainAuto}
    /\ querying = (chain = ChainAuto) /\ detector = IF chain = ChainAuto THEN "asking" ELSE "none"
    /\ failed = 0 /\ done = FALSE
    /\ service = "new" /\ revoDB = FALSE /\ chainId = NoId /\ chainIdChan = NoId /\ locked = FALSE
    /\ lookup = [r \in Requests |-> "idle"]
    /\ probe = [p \in Probes |-> "idle"] /\ sender = [p \in Probes |-> "none"]
-----------------------------------------------------------------------------
(* revo.go                                                                   *)

\* Mutant: those who wait are not told.
Detected_Untold ==
    /\ detector = "asking"
    /\ \E c \in Chains : chain' = c
    /\ detector' = "none"
    /\ UNCHANGED <<querying, failed, done, serviceVars, lookup, probe, sender>>

Detected ==
    /\ detector = "asking"
    /\ \E c \in Chains : chain' = c
    /\ querying' = FALSE /\ detector' = "none"
    /\ UNCHANGED <<failed, done, serviceVars, lookup, probe, sender>>

\* The pause after a failure ends with the context, and so does the goroutine.
DetectionFails ==
    /\ detector = "asking" /\ failed < MaxFailures
    /\ failed' = failed + 1 /\ detector' = "pausing"
    /\ UNCHANGED <<chain, querying, done, serviceVars, lookup, probe, sender>>
PauseEnds ==
    /\ detector = "pausing"
    /\ \/ detector' = "asking"
       \/ done /\ detector' = "none"
    /\ UNCHANGED <<chain, querying, failed, done, serviceVars, lookup, probe, sender>>

\* Mutant: who asks is answered once the first attempt has ended.
ChainReturns_AfterFailure == ~querying \/ done \/ detector # "asking"

\* Chain() returns when the chain is detected or the context has ended.
ChainReturns == ~querying \/ done

ChainIdOf(c) == IF c = "main" THEN 81 ELSE IF c = "test" THEN 8889 ELSE 8890
-----------------------------------------------------------------------------
(* The block hash service                                                    *)

\* Server.Start: the lock is taken before the database is connected, and
\* without a database given back at once.
StartService ==
    /\ service = "new"
    /\ \/ service' = "waiting" /\ revoDB' = TRUE /\ locked' = TRUE
       \/ service' = "failed" /\ UNCHANGED <<revoDB, locked>>
    /\ UNCHANGED <<chainVars, done, chainId, chainIdChan, lookup, probe, sender>>

\* The goroutine of Server.Start that passes the chain id on.
SendChainId ==
    /\ service # "new" /\ chainIdChan = NoId /\ chainId = NoId /\ service # "received"
    /\ ChainReturns
    /\ chainIdChan' = ChainIdOf(chain)
    /\ UNCHANGED <<chainVars, done, service, revoDB, chainId, locked, lookup, probe, sender>>

\* The lock is given back when the chain id has arrived, before it is written.
ReceiveChainId ==
    /\ service = "waiting" /\ chainIdChan # NoId
    /\ service' = "received" /\ locked' = FALSE
    /\ UNCHANGED <<chainVars, done, revoDB, chainId, chainIdChan, lookup, probe, sender>>
WriteChainId ==
    /\ service = "received"
    /\ chainId' = chainIdChan /\ service' = "running"
    /\ UNCHANGED <<chainVars, done, revoDB, chainIdChan, locked, lookup, probe, sender>>
ServiceStops ==
    /\ service = "waiting" /\ done
    /\ service' = "stopped" /\ locked' = FALSE
    /\ UNCHANGED <<chainVars, done, revoDB, chainId, chainIdChan, lookup, probe, sender>>

\* The dispatcher is done with all blocks.
ServiceEnds ==
    /\ service = "running"
    /\ service' = "ended" /\ revoDB' = FALSE
    /\ UNCHANGED <<chainVars, done, chainId, chainIdChan, locked, lookup, probe, sender>>

\* GetRevoBlockHashContext looks for the database, and then for the chain id.
LookUpHash(r) ==
    /\ lookup[r] = "idle"
    /\ lookup' = [lookup EXCEPT ![r] = IF revoDB THEN "chainId" ELSE "notConfigured"]
    /\ UNCHANGED <<chainVars, done, serviceVars, probe, sender>>
LookUpChainId(r) ==
    /\ lookup[r] = "chainId" /\ ~locked
    /\ lookup' = [lookup EXCEPT ![r] = IF chainId = NoId THEN "panic" ELSE "found"]
    /\ UNCHANGED <<chainVars, done, serviceVars, probe, sender>>
-----------------------------------------------------------------------------
(* testConnectionToRevod                                                     *)

\* GetNetworkInfo answers or fails; then a goroutine asks for the chain.
AskNetwork(p) ==
    /\ probe[p] = "idle"
    /\ \/ probe' = [probe EXCEPT ![p] = "error"] /\ UNCHANGED sender
       \/ \E n \in {"connections", "noConnections"} :
            probe' = [probe EXCEPT ![p] = n] /\ sender' = [sender EXCEPT ![p] = "asking"]
    /\ UNCHANGED <<chainVars, done, serviceVars, lookup>>

AskChain(p) ==
    /\ sender[p] = "asking" /\ ChainReturns
    /\ sender' = [sender EXCEPT ![p] = chain]
    /\ UNCHANGED <<chainVars, done, serviceVars, lookup, probe>>

\* The chain is handed over; without a receiver its goroutine stays.
TakeChain(p) ==
    /\ probe[p] \in {"connections", "noConnections"} /\ sender[p] \notin {"none", "asking"}
    /\ probe' = [probe EXCEPT ![p] =
                   IF probe[p] = "connections" \/ sender[p] = "regtest" THEN "healthy" ELSE "noPeers"]
    /\ sender' = [sender EXCEPT ![p] = "none"]
    /\ UNCHANGED <<chainVars, done, serviceVars, lookup>>

\* Ten seconds have passed.
ProbeTimesOut(p) ==
    /\ probe[p] \in {"connections", "noConnections"}
    /\ probe' = [probe EXCEPT ![p] = "timedOut"]
    /\ UNCHANGED <<chainVars, done, serviceVars, lookup, sender>>
-----------------------------------------------------------------------------
\* The context of the program ends.
Shutdown == ~done /\ done' = TRUE /\ UNCHANGED <<chainVars, serviceVars, lookup, probe, sender>>

Detect == Detected \/ DetectionFails \/ PauseEnds
Serve == StartService \/ SendChainId \/ ReceiveChainId \/ WriteChainId \/ ServiceStops
Ask(r) == LookUpHash(r) \/ LookUpChainId(r)
TestConnection(p) == AskNetwork(p) \/ AskChain(p) \/ TakeChain(p) \/ ProbeTimesOut(p)

StartNext ==
    \/ Detect \/ Serve \/ ServiceEnds \/ Shutdown
    \/ \E r \in Requests : Ask(r)
    \/ \E p \in Probes : TestConnection(p)

StartSpec == StartInit /\ [][StartNext]_startVars

\* Goroutines go on, and a node that failed MaxFailures times answers.
Fairness ==
    /\ WF_startVars(Detect) /\ WF_startVars(SendChainId \/ ReceiveChainId \/ WriteChainId \/ ServiceStops)
    /\ \A r \in Requests : WF_startVars(LookUpChainId(r))
    /\ \A p \in Probes : WF_startVars(AskChain(p))
-----------------------------------------------------------------------------
(* Properties                                                                *)

\* A health check, and who asks for the chain id, gets a chain that was detected
\* unless the program is ending: before, they wait.
ChainKnown ==
    ~done =>
        /\ \A p \in Probes : sender[p] # ChainAuto
        /\ chainIdChan # NoId => chain # ChainAuto /\ chainIdChan = ChainIdOf(chain)

\* GetRevoBlockHashContext takes an invalid chain id for impossible: as long as
\* the program runs no request meets one.
ValidChainId == ~done => \A r \in Requests : lookup[r] # "panic"

\* A request meets an invalid chain id only in the gap between the unlock and
\* the write, or when the service has stopped without an id.
PanicInGap ==
    [][\A r \in Requests : lookup[r] # "panic" /\ lookup'[r] = "panic"
           => service \in {"received", "stopped"}]_startVars

\* Nobody waits for the chain or its id for ever, whether the node answers late,
\* the chain is detected or the program ends first.
AskersReturn ==
    /\ \A r \in Requests : lookup[r] = "chainId" ~> lookup[r] # "chainId"
    /\ \A p \in Probes : sender[p] = "asking" ~> sender[p] # "asking"
=============================================================================
