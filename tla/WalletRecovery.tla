--------------------------- MODULE WalletRecovery ---------------------------
(***************************************************************************)
(* Calls of the Revo client that need a wallet, and the repair they start  *)
(* when the node has no wallet loaded, or more than one: the loop of tries *)
(* in Client.RequestWithContext, the error handler that New installs, and  *)
(* errWalletNotFoundHandler with loadWallets, which run in the goroutine   *)
(* of the call and share an errorState with the repairs of other calls.    *)
(*                                                                         *)
(* The calls a repair makes are themselves calls of RequestWithContext;    *)
(* each is one step here, in which the node answers or the call fails for  *)
(* good. Wallets are listed by their directory entries, in order.          *)
(***************************************************************************)
EXTENDS Integers, Sequences, FiniteSets

CONSTANTS
    Calls,        \* goroutines that make calls
    Wallets,      \* wallets that may lie in the node's wallet directory
    Fresh,        \* the wallet that createwallet makes
    Directories,  \* the orders in which listwalletdir may name wallets at first
    Locked,       \* the sets of wallets that may have a password
    MaxTries,     \* `max`, 5 with the code's constants
    MaxTroubles   \* bound: calls that fail for another reason, and wallets
                  \* that somebody else loads or unloads

ASSUME WalletAssumption ==
    /\ Fresh \notin Wallets
    /\ Directories \subseteq Seq(Wallets)
    /\ \A d \in Directories : \A i, j \in DOMAIN d : d[i] = d[j] => i = j
    /\ Locked \subseteq SUBSET Wallets
    /\ MaxTries \in Nat \ {0} /\ MaxTroubles \in Nat

VARIABLES
    point,     \* per call: its control point
    try,       \* per call: i, the number of the try
    err, herr, \* per call: error of the try, error of the error handler
    handled,   \* per call: handledErrors
    listed,    \* per call: wallets listed as loaded and still to be unloaded
    seen,      \* per call: the directory entries listed
    first,     \* per call: loadWalletIndex
    created,   \* errorState["createwallet"]
    running,   \* errorState["createwalletRunning"], TRUE or nil
    index,     \* errorState["loadwallet"], Nil if absent
    expiry,    \* the goroutine that lets "createwallet" expire is asleep
    cleaners,  \* goroutines that clear "loadwallet": their index and point
    directory, \* the node's wallet directory
    loadable,  \* wallets the node can load without a password
    loaded,    \* wallets loaded in the node
    troubles   \* failed calls and moves of others so far

callVars == <<point, try, err, herr, handled, listed, seen, first>>
repairVars == <<listed, seen, first>>
stateVars == <<created, running, index, expiry, cleaners>>
nodeVars == <<directory, loadable, loaded>>
walletVars == <<callVars, stateVars, nodeVars, troubles>>

Nil == -1
Repairing == {"mark", "list", "unload", "dir", "create", "created",
              "index", "load", "failed", "leave"}
CallPC == {"idle", "send", "check", "guard", "decide", "backoff"} \cup Repairing
NodeErrors == {"notFound", "notSpecified"}
Errors == NodeErrors \cup {"none", "busy", "failed"}

AllWallets == Wallets \cup {Fresh}
Entries == {directory[i] : i \in DOMAIN directory}

WalletInit ==
    /\ point = [c \in Calls |-> "idle"]
    /\ try = [c \in Calls |-> 0]
    /\ err = [c \in Calls |-> "none"] /\ herr = [c \in Calls |-> "none"]
    /\ handled = [c \in Calls |-> {}]
    /\ listed = [c \in Calls |-> {}]
    /\ seen = [c \in Calls |-> <<>>]
    /\ first = [c \in Calls |-> Nil]
    /\ created = "nil" /\ running = FALSE /\ index = Nil
    /\ expiry = FALSE /\ cleaners = {}
    /\ directory \in Directories
    /\ loadable \in {AllWallets \ S : S \in Locked}
    /\ loaded \in SUBSET Entries
    /\ troubles \in 0..MaxTroubles

GoTo(c, p) == point' = [point EXCEPT ![c] = p]

\* Something goes wrong that has nothing to do with the calls themselves.
Trouble == troubles < MaxTroubles /\ troubles' = troubles + 1
Quietly == UNCHANGED troubles
-----------------------------------------------------------------------------
(* RequestWithContext: tries, the error handler, pauses                      *)

\* What the goroutine of a call remembers goes with the call.
Finish(c) ==
    /\ GoTo(c, "idle")
    /\ try' = [try EXCEPT ![c] = 0]
    /\ err' = [err EXCEPT ![c] = "none"]
    /\ herr' = [herr EXCEPT ![c] = "none"]
    /\ handled' = [handled EXCEPT ![c] = {}]

Call(c) ==
    /\ point[c] = "idle"
    /\ GoTo(c, "send")
    /\ UNCHANGED <<try, err, herr, handled, repairVars, stateVars, nodeVars, troubles>>

\* Do fails with error e, and the error handler looks at it: only the two
\* wallet errors have a handler.
DoFails(c, e) ==
    /\ err' = [err EXCEPT ![c] = e]
    /\ herr' = [herr EXCEPT ![c] = "none"]
    /\ GoTo(c, IF e \in NodeErrors THEN "check" ELSE "decide")
    /\ UNCHANGED <<try, handled>>

\* Do: the node answers a call that needs a wallet if it has exactly one.
Do(c) ==
    /\ point[c] = "send"
    /\ \/ Cardinality(loaded) = 1 /\ Finish(c) /\ Quietly
       \/ loaded = {} /\ DoFails(c, "notFound") /\ Quietly
       \/ Cardinality(loaded) > 1 /\ DoFails(c, "notSpecified") /\ Quietly
       \/ Trouble /\ \E e \in {"busy", "failed"} : DoFails(c, e)
    /\ UNCHANGED <<repairVars, stateVars, nodeVars>>

Retry(c) == herr[c] # "none" /\ herr[c] \notin handled[c]

LastTry(c) == try[c] = MaxTries - 1

\* A try whose handler failed is repeated, and so is one that found the node
\* busy; one whose handler repaired the node is not. handledErrors is filled
\* with the node's errors and asked for the handler's.
Decide(c) ==
    /\ point[c] = "decide"
    /\ IF ~LastTry(c) /\ (Retry(c) \/ err[c] = "busy")
       THEN /\ GoTo(c, "backoff")
            /\ handled' = [handled EXCEPT ![c] = IF Retry(c) THEN @ \cup {err[c]} ELSE @]
            /\ UNCHANGED <<try, err, herr>>
       ELSE Finish(c)
    /\ UNCHANGED <<repairVars, stateVars, nodeVars, troubles>>

\* Mutant: a try that waits is not counted.
Backoff_NoCount(c) ==
    /\ point[c] = "backoff"
    /\ GoTo(c, "send")
    /\ UNCHANGED <<try, err, herr, handled, repairVars, stateVars, nodeVars, troubles>>

\* The pause is over. (It also ends when the program shuts down, which is not
\* modelled.)
Backoff(c) ==
    /\ point[c] = "backoff"
    /\ GoTo(c, "send")
    /\ try' = [try EXCEPT ![c] = @ + 1]
    /\ err' = [err EXCEPT ![c] = "none"]
    /\ herr' = [herr EXCEPT ![c] = "none"]
    /\ UNCHANGED <<handled, repairVars, stateVars, nodeVars, troubles>>
-----------------------------------------------------------------------------
(* errWalletNotFoundHandler                                                  *)

tryVars == <<try, err, handled>>

Refuse(c, e) == herr' = [herr EXCEPT ![c] = e] /\ GoTo(c, "decide")

\* A repair is refused once a wallet was created: the mark is only compared
\* with nil.
CheckCreated(c) ==
    /\ point[c] = "check"
    /\ IF created # "nil" THEN Refuse(c, "failed") ELSE GoTo(c, "guard") /\ UNCHANGED herr
    /\ UNCHANGED <<tryVars, repairVars, stateVars, nodeVars, troubles>>

\* A repair is refused while another runs.
CheckRunning(c) ==
    /\ point[c] = "guard"
    /\ IF running THEN Refuse(c, "running") ELSE GoTo(c, "mark") /\ UNCHANGED herr
    /\ UNCHANGED <<tryVars, repairVars, stateVars, nodeVars, troubles>>

MarkRunning(c) ==
    /\ point[c] = "mark"
    /\ running' = TRUE
    /\ GoTo(c, "list")
    /\ UNCHANGED <<tryVars, herr, repairVars, created, index, expiry, cleaners, nodeVars, troubles>>

\* The repair ends with error e; the mark is taken back by the deferred call.
Ends(c, e) ==
    /\ herr' = [herr EXCEPT ![c] = e]
    /\ listed' = [listed EXCEPT ![c] = {}]
    /\ seen' = [seen EXCEPT ![c] = <<>>]
    /\ first' = [first EXCEPT ![c] = Nil]
    /\ GoTo(c, "leave")

\* It goes on at p, where the wallets in s are to be unloaded.
GoesOn(c, p, s) ==
    /\ listed' = [listed EXCEPT ![c] = s]
    /\ GoTo(c, p)
    /\ UNCHANGED <<herr, seen, first>>

\* Mutant: a failed call returns past the deferred one.
ListWallets_KeepsMark(c) ==
    /\ point[c] = "list"
    /\ \/ Trouble /\ Refuse(c, "other") /\ UNCHANGED <<repairVars>>
       \/ Cardinality(loaded) = 1 /\ Ends(c, "none") /\ Quietly
       \/ loaded = {} /\ GoesOn(c, "dir", {}) /\ Quietly
       \/ Cardinality(loaded) > 1 /\ GoesOn(c, "unload", loaded) /\ Quietly
    /\ UNCHANGED <<tryVars, stateVars, nodeVars>>

\* One wallet loaded is taken for the work of another node.
ListWallets(c) ==
    /\ point[c] = "list"
    /\ \/ Trouble /\ Ends(c, "other")
       \/ Cardinality(loaded) = 1 /\ Ends(c, "none") /\ Quietly
       \/ loaded = {} /\ GoesOn(c, "dir", {}) /\ Quietly
       \/ Cardinality(loaded) > 1 /\ GoesOn(c, "unload", loaded) /\ Quietly
    /\ UNCHANGED <<tryVars, stateVars, nodeVars>>

\* The wallets listed are unloaded one by one; failures are only logged.
UnloadWallet(c) ==
    /\ point[c] = "unload"
    /\ \E w \in listed[c] :
          /\ GoesOn(c, "unload", listed[c] \ {w})
          /\ \/ Trouble /\ UNCHANGED loaded
             \/ Quietly /\ loaded' = loaded \ {w}
    /\ UNCHANGED <<tryVars, stateVars, directory, loadable>>

\* The second ListWallets.
RelistWallets(c) ==
    /\ point[c] = "unload"
    /\ listed[c] = {}
    /\ \/ Trouble /\ Ends(c, "other")
       \/ Cardinality(loaded) = 1 /\ Ends(c, "none") /\ Quietly
       \/ loaded = {} /\ GoesOn(c, "dir", {}) /\ Quietly
       \/ Cardinality(loaded) > 1 /\ Ends(c, "other") /\ Quietly
    /\ UNCHANGED <<tryVars, stateVars, nodeVars>>

Leave(c) ==
    /\ point[c] = "leave"
    /\ running' = FALSE
    /\ GoTo(c, "decide")
    /\ UNCHANGED <<tryVars, herr, repairVars, created, index, expiry, cleaners, nodeVars, troubles>>
-----------------------------------------------------------------------------
(* loadWallets                                                               *)

ListWalletDir(c) ==
    /\ point[c] = "dir"
    /\ \/ Trouble /\ Ends(c, "other")
       \/ /\ Quietly
          /\ seen' = [seen EXCEPT ![c] = directory]
          /\ GoTo(c, IF directory = <<>> THEN "create" ELSE "index")
          /\ UNCHANGED <<herr, listed, first>>
    /\ UNCHANGED <<tryVars, stateVars, nodeVars>>

\* An empty directory: a wallet is made, and the node loads it. The call fails
\* if another repair has made it; its error goes nowhere.
CreateWallet(c) ==
    /\ point[c] = "create"
    /\ \/ /\ Trouble
          /\ GoTo(c, "index") /\ UNCHANGED nodeVars
       \/ /\ Fresh \in Entries
          /\ GoTo(c, "index") /\ Quietly /\ UNCHANGED nodeVars
       \/ /\ Fresh \notin Entries
          /\ directory' = Append(directory, Fresh)
          /\ loaded' = loaded \cup {Fresh}
          /\ GoTo(c, "created")
          /\ Quietly /\ UNCHANGED loadable
    /\ UNCHANGED <<tryVars, herr, repairVars, stateVars>>

MarkCreated(c) ==
    /\ point[c] = "created"
    /\ created' = "true"
    /\ expiry' = TRUE
    /\ GoTo(c, "index")
    /\ UNCHANGED <<tryVars, herr, repairVars, running, index, cleaners, nodeVars, troubles>>

\* Mutant: the wallet that failed last time is passed over.
LoadWalletIndex_After(c) ==
    /\ point[c] = "index"
    /\ first' = [first EXCEPT ![c] = IF index > Len(seen[c]) \/ index = Nil THEN Nil ELSE index + 1]
    /\ GoTo(c, "load")
    /\ UNCHANGED <<tryVars, herr, listed, seen, stateVars, nodeVars, troubles>>

\* loadWalletIndex, counted from 0 as the code does.
LoadWalletIndex(c) ==
    /\ point[c] = "index"
    /\ first' = [first EXCEPT ![c] = IF index > Len(seen[c]) THEN Nil ELSE index]
    /\ GoTo(c, "load")
    /\ UNCHANGED <<tryVars, herr, listed, seen, stateVars, nodeVars, troubles>>

\* The entry the loop gets to: it leaves after one wallet, loaded or not.
Candidates(c) == {i \in DOMAIN seen[c] : first[c] <= i - 1}
Candidate(c) == CHOOSE i \in Candidates(c) : \A j \in Candidates(c) : i <= j

LoadWallet(c) ==
    /\ point[c] = "load"
    /\ \/ /\ Candidates(c) = {}
          /\ Ends(c, "none") /\ Quietly /\ UNCHANGED loaded
       \/ \E w \in {seen[c][Candidate(c)] : i \in Candidates(c)} :
             \/ /\ w \in loadable \ loaded
                /\ loaded' = loaded \cup {w}
                /\ Ends(c, "none") /\ Quietly
             \/ /\ w \notin loadable \ loaded
                /\ GoesOn(c, "failed", {}) /\ Quietly /\ UNCHANGED loaded
             \/ /\ Trouble
                /\ GoesOn(c, "failed", {}) /\ UNCHANGED loaded
    /\ UNCHANGED <<tryVars, stateVars, directory, loadable>>

\* The place in the list is kept, and a goroutine will clear it.
LoadFailed(c) ==
    /\ point[c] = "failed"
    /\ index' = Candidate(c) - 1
    /\ cleaners' = cleaners \cup {<<Candidate(c) - 1, "asleep">>}
    /\ Ends(c, "none")
    /\ UNCHANGED <<tryVars, created, running, expiry, nodeVars, troubles>>
-----------------------------------------------------------------------------
(* The goroutines that repairs start, and whoever else uses the node         *)

\* After a minute; the mark becomes false, not nil.
CreatedExpires ==
    /\ expiry
    /\ expiry' = FALSE
    /\ created' = "false"
    /\ UNCHANGED <<callVars, running, index, cleaners, nodeVars, troubles>>

\* After 30 seconds a cleaner looks; several may sleep for the same index.
CleanerLooks(i) ==
    /\ <<i, "asleep">> \in cleaners
    /\ \E rest \in {cleaners, cleaners \ {<<i, "asleep">>}} :
           cleaners' = IF index = i THEN rest \cup {<<i, "clear">>} ELSE rest
    /\ UNCHANGED <<callVars, created, running, index, expiry, nodeVars, troubles>>

CleanerClears(i) ==
    /\ <<i, "clear">> \in cleaners
    /\ index' = Nil
    /\ \E rest \in {cleaners, cleaners \ {<<i, "clear">>}} : cleaners' = rest
    /\ UNCHANGED <<callVars, created, running, expiry, nodeVars, troubles>>

ForeignLoad(w) ==
    /\ Trouble
    /\ w \in Entries \ loaded
    /\ loaded' = loaded \cup {w}
    /\ UNCHANGED <<callVars, stateVars, directory, loadable>>

ForeignUnload(w) ==
    /\ Trouble
    /\ w \in loaded
    /\ loaded' = loaded \ {w}
    /\ UNCHANGED <<callVars, stateVars, directory, loadable>>
-----------------------------------------------------------------------------
Repair(c) ==
    \/ CheckCreated(c) \/ CheckRunning(c) \/ MarkRunning(c)
    \/ ListWallets(c) \/ UnloadWallet(c) \/ RelistWallets(c)
    \/ ListWalletDir(c) \/ CreateWallet(c) \/ MarkCreated(c)
    \/ LoadWalletIndex(c) \/ LoadWallet(c) \/ LoadFailed(c) \/ Leave(c)

CallStep(c) == Do(c) \/ Decide(c) \/ Backoff(c) \/ Repair(c)

WalletNext ==
    \/ \E c \in Calls : Call(c) \/ CallStep(c)
    \/ \E m \in cleaners : CleanerLooks(m[1]) \/ CleanerClears(m[1])
    \/ \E w \in AllWallets : ForeignLoad(w) \/ ForeignUnload(w)
    \/ CreatedExpires

WalletSpec == WalletInit /\ [][WalletNext]_walletVars

\* The goroutine of a call runs, and the node answers or the call times out.
FairWalletSpec == WalletSpec /\ \A c \in Calls : WF_walletVars(CallStep(c))
-----------------------------------------------------------------------------
(* Properties                                                                *)

\* Types: the number of a try stays below max, and what is loaded is in the
\* directory.
PCType == point \in [Calls -> CallPC]
TryType ==
    /\ try \in [Calls -> 0..(MaxTries - 1)]
    /\ err \in [Calls -> Errors]
    /\ herr \in [Calls -> {"none", "failed", "running", "other"}]
    /\ handled \in [Calls -> SUBSET Errors]
RepairType ==
    /\ listed \in [Calls -> SUBSET AllWallets]
    /\ seen \in [Calls -> Seq(AllWallets)]
    /\ first \in [Calls -> Nat \cup {Nil}]
StateType ==
    /\ created \in {"nil", "true", "false"} /\ running \in BOOLEAN /\ expiry \in BOOLEAN
    /\ index \in Nat \cup {Nil}
    /\ cleaners \subseteq Nat \X {"asleep", "clear"}
NodeType ==
    /\ directory \in Seq(AllWallets)
    /\ loadable \subseteq AllWallets /\ loaded \subseteq Entries
    /\ troubles \in 0..MaxTroubles
WalletTypeOK == PCType /\ TryType /\ RepairType /\ StateType /\ NodeType

\* The mark that keeps other calls from repairing does not outlive the repairs:
\* while it is set some repair is under way that will take it back.
NoStaleMark == running => \E c \in Calls : point[c] \in Repairing \ {"mark"}

\* A call returns, whatever the node and the repairs of other calls do.
CallsReturn == \A c \in Calls : point[c] # "idle" ~> point[c] = "idle"

\* Once nothing fails and nobody else moves wallets any more, a repair that
\* begins leaves the node with one wallet, even while others repair it too. A
\* first wallet that cannot be loaded is left to RepairsGetThrough.
Quiet == troubles = MaxTroubles
FirstLoads == directory # <<>> => Head(directory) \in loadable
RepairsWork ==
    \A c \in Calls : (Quiet /\ FirstLoads /\ point[c] = "mark") ~> Cardinality(loaded) = 1

\* loadWallets is to load the wallets each until requests go through, as some may
\* have a password: with one in the directory that can be loaded repairs come to
\* an end, where nothing else fails.
RepairsGetThrough ==
    Entries \cap loadable # {} => <>[](\A c \in Calls : point[c] # "mark")

\* The wallet a repair tries to load is the first of the directory, whatever
\* repairs failed to load before and however they overlap.
OnlyFirstTried ==
    \A c \in Calls : point[c] \in {"load", "failed"} /\ Candidates(c) # {}
        => seen[c][Candidate(c)] = Head(directory)
=============================================================================
