------------------------------- MODULE MCServer -------------------------------
(***************************************************************************)
(* The parts of the server and its client that share no state in the       *)
(* model: the requests with their statistics, the health check of the      *)
(* blocks, what is learnt after the start, the response cache, and the     *)
(* repair of wallets. Each runs alone, and every state of each is reached. *)
(***************************************************************************)
EXTENDS Server, BlockSync, Startup, ClientCache, MCWalletRecovery

MCPause == [ok |-> 3, stalled |-> 1, lostLots |-> 2, lostFew |-> 1]

VARIABLE part   \* the part that runs

Others == <<syncVars, startVars, cacheVars, walletVars>>
allVars == <<part, serverVars, Others>>

\* The parts that do not run have one of their initial states.
MCInit ==
    /\ part \in {"server", "sync", "startup", "cache", "wallet"}
    /\ ServerInit /\ SyncInit /\ StartInit /\ CacheInit /\ WalletInit
    /\ part # "sync" => height = 0
    /\ part # "startup" => chain = ChainAuto
    /\ part # "cache" => key = [r \in Lookups |-> CHOOSE k \in Keys : TRUE] /\ ctx = [r \in Lookups |-> ClientCtx]
    /\ part # "wallet" => directory = <<>> /\ loadable = AllWallets
    \* With a wallet that has a password nothing else goes wrong.
    /\ troubles = IF loadable = AllWallets THEN 0 ELSE MaxTroubles

MCNext ==
    /\ UNCHANGED part
    /\ \/ part = "server" /\ ServerNext /\ UNCHANGED Others
       \/ part = "sync" /\ SyncNext /\ UNCHANGED <<serverVars, startVars, cacheVars, walletVars>>
       \/ part = "startup" /\ StartNext /\ UNCHANGED <<serverVars, syncVars, cacheVars, walletVars>>
       \/ part = "cache" /\ CacheNext /\ UNCHANGED <<serverVars, syncVars, startVars, walletVars>>
       \/ part = "wallet" /\ WalletNext /\ UNCHANGED <<serverVars, syncVars, startVars, cacheVars>>

MCSpec == MCInit /\ [][MCNext]_allVars

\* The fairness of the parts, for those that need it.
MCFairness ==
    /\ WF_startVars(part = "startup" /\ Detect)
    /\ WF_startVars(part = "startup" /\ (SendChainId \/ ReceiveChainId \/ WriteChainId \/ ServiceStops))
    /\ \A r \in Requests : WF_startVars(part = "startup" /\ LookUpChainId(r))
    /\ \A p \in Probes : WF_startVars(part = "startup" /\ AskChain(p))
    /\ \A k \in Keys : WF_cacheVars(part = "cache" /\ TimerStep(k))
    /\ \A c \in Calls : WF_walletVars(part = "wallet" /\ CallStep(c))

MCFairSpec == MCSpec /\ MCFairness
=============================================================================
