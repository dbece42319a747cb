----------------------- MODULE WalletRecovery_proofs -----------------------
(* Theorems about WalletRecovery, for any number of calls, wallets and tries. *)
EXTENDS WalletRecovery, TLAPS

(***************************************************************************)
(* Why no repair gets past the first wallet: the directory changes only     *)
(* when it was empty, so that any list of it a repair holds is empty or     *)
(* still right; the index that repairs leave for each other never passes    *)
(* the first entry; and so all of them try the first entry.                 *)
(***************************************************************************)

ListsAreRight == \A c \in Calls : seen[c] = <<>> \/ seen[c] = directory

OnlyFromEmpty == \A c \in Calls : point[c] = "create" => directory \in {<<>>, <<Fresh>>}

FailedEntry == \A c \in Calls : point[c] = "failed" => seen[c] # <<>>

TriesLeft == \A c \in Calls : point[c] = "backoff" => try[c] < MaxTries - 1

IndexIsFirst == index \in {Nil, 0} /\ \A c \in Calls : first[c] \in {Nil, 0}

IInv ==
    /\ WalletTypeOK /\ TriesLeft
    /\ ListsAreRight /\ OnlyFromEmpty /\ FailedEntry /\ IndexIsFirst

USE DEF Nil
-----------------------------------------------------------------------------
\* The loop of loadWallets gets to the first entry of a list that is not empty.
LEMMA FirstCandidate ==
  ASSUME NEW c \in Calls, WalletTypeOK, first[c] \in {Nil, 0}
  PROVE  /\ seen[c] = <<>> => Candidates(c) = {}
         /\ seen[c] # <<>> => /\ Candidates(c) # {} /\ Candidate(c) = 1
                              /\ seen[c][1] \in AllWallets
<1>1. seen[c] \in Seq(AllWallets)
  BY DEF WalletTypeOK, RepairType
<1>2. Candidates(c) = 1..Len(seen[c])
  BY <1>1 DEF Candidates
<1>3. CASE seen[c] = <<>>
  BY <1>2, <1>3
<1>4. CASE seen[c] # <<>>
  <2>1. Len(seen[c]) \in Nat \ {0} /\ seen[c][1] \in AllWallets
    BY <1>1, <1>4
  <2>2. 1 \in Candidates(c) /\ \A j \in Candidates(c) : 1 <= j
    BY <1>2, <2>1
  <2>3. Candidate(c) = 1
    <3>1. \A i \in Candidates(c) : (\A j \in Candidates(c) : i <= j) => i = 1
      BY <1>2, <2>1, <2>2
    <3> QED BY <2>2, <3>1 DEF Candidate
  <2> QED BY <1>4, <2>1, <2>2, <2>3
<1> QED BY <1>3, <1>4

\* What is in the directory stays in it when a wallet is made.
LEMMA FirstWallet ==
  ASSUME directory = <<>>, directory' = Append(directory, Fresh)
  PROVE  directory' = <<Fresh>> /\ Entries' = {Fresh} /\ directory'[1] = Fresh
BY DEF Entries
-----------------------------------------------------------------------------
LEMMA InitInv == WalletInit => IInv
<1> SUFFICES ASSUME WalletInit PROVE IInv
  OBVIOUS
<1> USE WalletAssumption DEF WalletAssumption, WalletInit
<1>1. directory \in Seq(Wallets) /\ directory \in Seq(AllWallets)
  <2>1. directory \in Seq(Wallets)
    OBVIOUS
  <2> QED BY <2>1 DEF AllWallets
<1>2. loadable \subseteq AllWallets
  OBVIOUS
<1>3. WalletTypeOK
  <2>1. /\ point \in [Calls -> CallPC] /\ try \in [Calls -> 0..(MaxTries - 1)]
    BY DEF CallPC
  <2>2. /\ err \in [Calls -> Errors]
        /\ herr \in [Calls -> {"none", "failed", "running", "other"}]
        /\ handled \in [Calls -> SUBSET Errors]
        /\ listed \in [Calls -> SUBSET AllWallets]
    BY DEF Errors
  <2>3. seen \in [Calls -> Seq(AllWallets)] /\ first \in [Calls -> Nat \cup {Nil}]
    OBVIOUS
  <2>4. running \in BOOLEAN /\ expiry \in BOOLEAN
    BY Zenon
  <2>5. PCType /\ TryType /\ RepairType
    BY <2>1, <2>2, <2>3 DEF PCType, TryType, RepairType
  <2>6. StateType
    BY <2>4 DEF StateType
  <2>7. NodeType
    BY <1>1, <1>2 DEF NodeType
  <2> QED BY <2>5, <2>6, <2>7 DEF WalletTypeOK
<1> QED BY <1>3 DEF IInv, TriesLeft, ListsAreRight, OnlyFromEmpty, FailedEntry, IndexIsFirst
-----------------------------------------------------------------------------
(* Types                                                                     *)

LEMMA GoToType ==
  ASSUME PCType, NEW c \in Calls, NEW p \in CallPC, GoTo(c, p)
  PROVE  PCType'
BY DEF PCType, GoTo

\* The steps several actions share keep the types of what they touch.
LEMMA ReturnType ==
  ASSUME PCType, TryType, NEW c \in Calls, Finish(c)
  PROVE  PCType' /\ TryType'
<1>1. PCType'
  BY GoToType DEF Finish, CallPC
<1> QED BY <1>1, WalletAssumption DEF WalletAssumption, TryType, Finish, Errors

LEMMA DoFailsType ==
  ASSUME PCType, TryType, NEW c \in Calls,
         NEW e \in Errors, DoFails(c, e)
  PROVE  PCType' /\ TryType'
<1>1. "check" \in CallPC /\ "decide" \in CallPC
  BY DEF CallPC
<1>2. PCType'
  BY <1>1, GoToType DEF DoFails
<1> QED BY <1>2 DEF TryType, DoFails

LEMMA RefuseType ==
  ASSUME PCType, TryType, NEW c \in Calls, NEW e \in {"failed", "running", "other"},
         Refuse(c, e), UNCHANGED tryVars
  PROVE  PCType' /\ TryType'
<1>1. PCType'
  BY GoToType DEF Refuse, CallPC
<1> QED BY <1>1 DEF TryType, Refuse, tryVars

LEMMA EndsType ==
  ASSUME PCType, TryType, RepairType, NEW c \in Calls, NEW e \in {"none", "other"},
         Ends(c, e), UNCHANGED tryVars
  PROVE  PCType' /\ TryType' /\ RepairType'
<1>1. PCType'
  BY GoToType DEF Ends, CallPC, Repairing
<1>2. TryType'
  BY DEF TryType, Ends, tryVars
<1>3. RepairType'
  BY DEF RepairType, Ends
<1> QED BY <1>1, <1>2, <1>3

LEMMA GoesOnType ==
  ASSUME PCType, TryType, RepairType, NEW c \in Calls, NEW p \in CallPC,
         NEW S \in SUBSET AllWallets, GoesOn(c, p, S), UNCHANGED tryVars
  PROVE  PCType' /\ TryType' /\ RepairType'
<1>1. PCType'
  BY GoToType DEF GoesOn
<1> QED BY <1>1 DEF TryType, RepairType, GoesOn, tryVars

\* The goroutine moves, and keeps what it remembers.
LEMMA MoveType ==
  ASSUME PCType, TryType, RepairType, NEW c \in Calls, NEW p \in CallPC, GoTo(c, p),
         UNCHANGED <<tryVars, herr, repairVars>>
  PROVE  PCType' /\ TryType' /\ RepairType'
<1>1. PCType'
  BY GoToType
<1> QED BY <1>1 DEF TryType, RepairType, tryVars, repairVars

LEMMA NodeKept ==
  ASSUME NodeType, UNCHANGED nodeVars, Trouble \/ Quietly
  PROVE  NodeType'
BY WalletAssumption DEF WalletAssumption, NodeType, nodeVars, Entries, Trouble, Quietly

LEMMA StateKept ==
  ASSUME StateType, UNCHANGED stateVars
  PROVE  StateType'
BY DEF StateType, stateVars

LEMMA LocalsKept ==
  ASSUME PCType, TryType, RepairType, UNCHANGED callVars
  PROVE  PCType' /\ TryType' /\ RepairType'
BY DEF PCType, TryType, RepairType, callVars

\* All wallets the node knows have a place in the directory.
LEMMA LoadedWallets ==
  ASSUME NodeType
  PROVE  Entries \subseteq AllWallets /\ loaded \in SUBSET AllWallets
BY DEF NodeType, Entries
-----------------------------------------------------------------------------
\* Types survive every step; the other parts of the invariant are needed where
\* a wallet is loaded or made.
LEMMA NextType == IInv /\ [WalletNext]_walletVars => WalletTypeOK'
<1> SUFFICES ASSUME IInv, [WalletNext]_walletVars PROVE WalletTypeOK'
  OBVIOUS
<1>0. PCType /\ TryType /\ RepairType /\ StateType /\ NodeType
  BY DEF IInv, WalletTypeOK
<1> USE <1>0
<1>p. CallPC = {"idle", "send", "check", "guard", "decide", "backoff", "mark", "list",
                "unload", "dir", "create", "created", "index", "load", "failed", "leave"}
  BY DEF CallPC, Repairing
<1>1. ASSUME NEW c \in Calls, Call(c) PROVE WalletTypeOK'
  <2>1. PCType' /\ TryType' /\ RepairType'
    BY <1>1, <1>p, MoveType DEF Call, tryVars
  <2> QED BY <1>1, <2>1, NodeKept, StateKept DEF Call, WalletTypeOK, Quietly
<1>2. ASSUME NEW c \in Calls, Do(c) PROVE WalletTypeOK'
  <2>1. PCType' /\ TryType'
    <3>1. CASE Finish(c) BY <3>1, ReturnType
    <3>2. ASSUME NEW e \in Errors, DoFails(c, e)
          PROVE  PCType' /\ TryType'
      BY <3>2, DoFailsType
    <3> QED BY <1>2, <3>1, <3>2 DEF Do, Errors, NodeErrors
  <2>2. RepairType'
    BY <1>2 DEF Do, RepairType, repairVars
  <2> QED BY <1>2, <2>1, <2>2, NodeKept, StateKept DEF Do, WalletTypeOK
<1>3. ASSUME NEW c \in Calls, Decide(c) PROVE WalletTypeOK'
  <2>1. PCType' /\ TryType'
    <3>1. CASE Finish(c) BY <3>1, ReturnType
    <3>2. CASE ~LastTry(c) /\ (Retry(c) \/ err[c] = "busy")
      <4>1. PCType'
        BY <1>3, <1>p, <3>2, GoToType DEF Decide
      <4>2. handled' \in [Calls -> SUBSET Errors]
        BY <1>3, <3>2 DEF Decide, TryType
      <4> QED BY <1>3, <3>2, <4>1, <4>2 DEF Decide, TryType
    <3> QED BY <1>3, <3>1, <3>2 DEF Decide
  <2>2. RepairType'
    BY <1>3 DEF Decide, RepairType, repairVars
  <2> QED BY <1>3, <2>1, <2>2, NodeKept, StateKept DEF Decide, WalletTypeOK, Quietly
<1>4. ASSUME NEW c \in Calls, Backoff(c) PROVE WalletTypeOK'
  <2>1. PCType'
    BY <1>4, <1>p, GoToType DEF Backoff
  <2>2. TryType'
    <3>1. try[c] + 1 \in 0..(MaxTries - 1)
      BY <1>4, WalletAssumption DEF Backoff, IInv, TriesLeft, TryType, WalletAssumption
    <3> QED BY <1>4, <3>1 DEF Backoff, TryType, Errors
  <2>3. RepairType'
    BY <1>4 DEF Backoff, RepairType, repairVars
  <2> QED BY <1>4, <2>1, <2>2, <2>3, NodeKept, StateKept DEF Backoff, WalletTypeOK, Quietly
<1>5. ASSUME NEW c \in Calls, Repair(c) PROVE WalletTypeOK'
  <2>1. CASE CheckCreated(c) \/ CheckRunning(c)
    <3>1. /\ UNCHANGED <<tryVars, repairVars, stateVars, nodeVars, troubles>>
          /\ \/ \E e \in {"failed", "running", "other"} : Refuse(c, e)
             \/ \E p \in CallPC : GoTo(c, p) /\ UNCHANGED herr
      BY <1>p, <2>1 DEF CheckCreated, CheckRunning
    <3>2. PCType' /\ TryType'
      BY <3>1, RefuseType, MoveType
    <3>3. RepairType'
      BY <3>1 DEF RepairType, repairVars
    <3> QED BY <3>1, <3>2, <3>3, NodeKept, StateKept DEF WalletTypeOK, Quietly
  <2>2. CASE MarkRunning(c)
    <3>1. PCType' /\ TryType' /\ RepairType'
      BY <1>p, <2>2, MoveType DEF MarkRunning
    <3>2. StateType'
      BY <2>2 DEF MarkRunning, StateType
    <3> QED BY <2>2, <3>1, <3>2, NodeKept DEF MarkRunning, WalletTypeOK, Quietly
  <2>3. CASE ListWallets(c) \/ RelistWallets(c)
    <3>1. /\ UNCHANGED <<tryVars, stateVars, nodeVars>>
          /\ Trouble \/ Quietly
          /\ \/ \E e \in {"none", "other"} : Ends(c, e)
             \/ \E p \in CallPC, S \in SUBSET AllWallets : GoesOn(c, p, S)
      BY <1>p, <2>3, LoadedWallets DEF ListWallets, RelistWallets
    <3>2. PCType' /\ TryType' /\ RepairType'
      BY <3>1, EndsType, GoesOnType
    <3> QED BY <3>1, <3>2, NodeKept, StateKept DEF WalletTypeOK
  <2>4. CASE UnloadWallet(c)
    <3>1. PICK w \in listed[c] :
              /\ GoesOn(c, "unload", listed[c] \ {w})
              /\ \/ Trouble /\ UNCHANGED loaded
                 \/ Quietly /\ loaded' = loaded \ {w}
      BY <2>4 DEF UnloadWallet
    <3>2. listed[c] \ {w} \in SUBSET AllWallets
      BY DEF RepairType
    <3>3. PCType' /\ TryType' /\ RepairType'
      BY <1>p, <2>4, <3>1, <3>2, GoesOnType DEF UnloadWallet
    <3>4. NodeType'
      BY <2>4, <3>1, WalletAssumption
         DEF UnloadWallet, NodeType, Entries, Trouble, Quietly, WalletAssumption
    <3> QED BY <2>4, <3>3, <3>4, StateKept DEF UnloadWallet, WalletTypeOK
  <2>5. CASE ListWalletDir(c)
    <3>1. CASE Ends(c, "other") /\ Trouble
      <4>1. PCType' /\ TryType' /\ RepairType'
        BY <2>5, <3>1, EndsType DEF ListWalletDir
      <4> QED BY <2>5, <3>1, <4>1, NodeKept, StateKept DEF ListWalletDir, WalletTypeOK
    <3>2. CASE /\ Quietly /\ seen' = [seen EXCEPT ![c] = directory]
               /\ GoTo(c, IF directory = <<>> THEN "create" ELSE "index")
               /\ UNCHANGED <<herr, listed, first>>
      <4>1. PCType'
        BY <1>p, <3>2, GoToType
      <4>2. TryType' /\ RepairType'
        BY <2>5, <3>2 DEF ListWalletDir, TryType, RepairType, NodeType, tryVars
      <4> QED BY <2>5, <3>2, <4>1, <4>2, NodeKept, StateKept DEF ListWalletDir, WalletTypeOK
    <3> QED BY <2>5, <3>1, <3>2 DEF ListWalletDir
  <2>6. CASE CreateWallet(c)
    <3>1. PCType' /\ TryType' /\ RepairType'
      BY <1>p, <2>6, MoveType DEF CreateWallet
    <3>2. NodeType'
      <4>1. CASE UNCHANGED nodeVars /\ (Trouble \/ Quietly)
        BY <4>1, NodeKept
      <4>2. CASE /\ directory' = Append(directory, Fresh) /\ loaded' = loaded \cup {Fresh}
                 /\ Fresh \notin Entries /\ Quietly /\ UNCHANGED loadable
        <5>1. directory = <<>>
          BY <2>6, <4>2 DEF CreateWallet, IInv, OnlyFromEmpty, Entries
        <5>2. directory' = <<Fresh>> /\ Entries' = {Fresh} /\ loaded = {}
          BY <4>2, <5>1, FirstWallet DEF NodeType, Entries
        <5>3. directory' \in Seq(AllWallets)
          BY <5>2 DEF AllWallets
        <5> QED BY <4>2, <5>2, <5>3 DEF NodeType, Quietly
      <4> QED BY <2>6, <4>1, <4>2 DEF CreateWallet
    <3> QED BY <2>6, <3>1, <3>2, StateKept DEF CreateWallet, WalletTypeOK
  <2>7. CASE MarkCreated(c)
    <3>1. PCType' /\ TryType' /\ RepairType'
      BY <1>p, <2>7, MoveType DEF MarkCreated
    <3>2. StateType'
      BY <2>7 DEF MarkCreated, StateType
    <3> QED BY <2>7, <3>1, <3>2, NodeKept DEF MarkCreated, WalletTypeOK, Quietly
  <2>8. CASE LoadWalletIndex(c)
    <3>1. PCType'
      BY <1>p, <2>8, GoToType DEF LoadWalletIndex
    <3>2. TryType'
      BY <2>8 DEF LoadWalletIndex, TryType, tryVars
    <3>3. RepairType'
      BY <2>8 DEF LoadWalletIndex, RepairType, StateType
    <3> QED BY <2>8, <3>1, <3>2, <3>3, NodeKept, StateKept DEF LoadWalletIndex, WalletTypeOK, Quietly
  <2>9. CASE LoadWallet(c)
    <3>1. /\ UNCHANGED <<tryVars, stateVars, directory, loadable>>
          /\ Trouble \/ Quietly
          /\ \/ Ends(c, "none") \/ GoesOn(c, "failed", {})
          /\ \/ UNCHANGED loaded
             \/ Candidates(c) # {} /\ loaded' = loaded \cup {seen[c][Candidate(c)]}
      BY <2>9 DEF LoadWallet
    <3>2. PCType' /\ TryType' /\ RepairType'
      BY <1>p, <3>1, EndsType, GoesOnType
    <3>3. Candidates(c) # {} => seen[c][Candidate(c)] \in Entries
      <4>1. first[c] \in {Nil, 0} /\ (seen[c] = <<>> \/ seen[c] = directory) /\ WalletTypeOK
        BY DEF IInv, IndexIsFirst, ListsAreRight
      <4>2. Candidates(c) # {} => Candidate(c) = 1 /\ seen[c] = directory /\ seen[c] # <<>>
        BY <4>1, FirstCandidate
      <4>3. directory # <<>> => directory[1] \in Entries
        BY DEF NodeType, Entries
      <4> QED BY <4>2, <4>3
    <3>4. NodeType'
      BY <3>1, <3>3, WalletAssumption
         DEF NodeType, Entries, Trouble, Quietly, WalletAssumption
    <3> QED BY <3>1, <3>2, <3>4, StateKept DEF WalletTypeOK
  <2>10. CASE LoadFailed(c)
    <3>1. PCType' /\ TryType' /\ RepairType'
      BY <2>10, EndsType DEF LoadFailed
    <3>2. Candidate(c) = 1
      BY <2>10, FirstCandidate DEF LoadFailed, IInv, IndexIsFirst, FailedEntry
    <3>3. StateType'
      BY <2>10, <3>2 DEF LoadFailed, StateType
    <3> QED BY <2>10, <3>1, <3>3, NodeKept DEF LoadFailed, WalletTypeOK, Quietly
  <2>11. CASE Leave(c)
    <3>1. PCType' /\ TryType' /\ RepairType'
      BY <1>p, <2>11, MoveType DEF Leave
    <3>2. StateType'
      BY <2>11 DEF Leave, StateType
    <3> QED BY <2>11, <3>1, <3>2, NodeKept DEF Leave, WalletTypeOK, Quietly
  <2> QED BY <1>5, <2>1, <2>2, <2>3, <2>4, <2>5, <2>6, <2>7, <2>8, <2>9, <2>10, <2>11
          DEF Repair
<1>6. ASSUME NEW m \in cleaners, CleanerLooks(m[1]) \/ CleanerClears(m[1]) PROVE WalletTypeOK'
  <2>1. PCType' /\ TryType' /\ RepairType' /\ NodeType'
    BY <1>6, LocalsKept, NodeKept DEF CleanerLooks, CleanerClears, Quietly
  <2>2. StateType'
    BY <1>6 DEF CleanerLooks, CleanerClears, StateType
  <2> QED BY <2>1, <2>2 DEF WalletTypeOK
<1>7. ASSUME NEW w \in AllWallets, ForeignLoad(w) \/ ForeignUnload(w) PROVE WalletTypeOK'
  <2>1. PCType' /\ TryType' /\ RepairType' /\ StateType'
    BY <1>7, LocalsKept, StateKept DEF ForeignLoad, ForeignUnload
  <2>2. NodeType'
    BY <1>7, WalletAssumption
       DEF ForeignLoad, ForeignUnload, NodeType, Entries, Trouble, WalletAssumption
  <2> QED BY <2>1, <2>2 DEF WalletTypeOK
<1>8. CASE CreatedExpires
  <2>1. PCType' /\ TryType' /\ RepairType' /\ NodeType'
    BY <1>8, LocalsKept, NodeKept DEF CreatedExpires, Quietly
  <2>2. StateType'
    BY <1>8 DEF CreatedExpires, StateType
  <2> QED BY <2>1, <2>2 DEF WalletTypeOK
<1>9. CASE UNCHANGED walletVars
  <2>1. PCType' /\ TryType' /\ RepairType' /\ NodeType' /\ StateType'
    BY <1>9, LocalsKept, NodeKept, StateKept DEF walletVars, Quietly
  <2> QED BY <2>1 DEF WalletTypeOK
<1> QED BY <1>1, <1>2, <1>3, <1>4, <1>5, <1>6, <1>7, <1>8, <1>9 DEF WalletNext, CallStep
-----------------------------------------------------------------------------
(* The other parts of the invariant                                          *)

Choice == ListsAreRight /\ OnlyFromEmpty /\ FailedEntry /\ IndexIsFirst

\* Steps of the tries do not touch what repairs remember.
LEMMA TriesKeepChoice ==
  ASSUME IInv, NEW c \in Calls, NEW p \in CallPC \ {"create", "failed"}, GoTo(c, p),
         UNCHANGED <<repairVars, stateVars, nodeVars>>
  PROVE  Choice'
BY DEF IInv, Choice, WalletTypeOK, PCType, GoTo, repairVars, stateVars, nodeVars,
       ListsAreRight, OnlyFromEmpty, FailedEntry, IndexIsFirst

\* A repair that ends or goes on to a step without a condition of its own keeps
\* the choice.
LEMMA EndsKeepChoice ==
  ASSUME IInv, NEW c \in Calls, NEW e, Ends(c, e), index' \in {Nil, 0},
         directory' = directory
  PROVE  Choice'
BY DEF IInv, Choice, WalletTypeOK, PCType, RepairType, GoTo, Ends,
       ListsAreRight, OnlyFromEmpty, FailedEntry, IndexIsFirst

LEMMA GoesOnKeepsChoice ==
  ASSUME IInv, NEW c \in Calls, NEW p \in CallPC \ {"create", "failed"}, NEW S,
         GoesOn(c, p, S), index' = index, directory' = directory
  PROVE  Choice'
BY DEF IInv, Choice, WalletTypeOK, PCType, RepairType, GoTo, GoesOn,
       ListsAreRight, OnlyFromEmpty, FailedEntry, IndexIsFirst

\* Steps outside the calls: a cleaner may forget the index, others may load
\* and unload wallets.
LEMMA OthersKeepChoice ==
  ASSUME IInv, UNCHANGED callVars, index' \in {index, Nil}, directory' = directory
  PROVE  Choice'
BY DEF IInv, Choice, callVars,
       ListsAreRight, OnlyFromEmpty, FailedEntry, IndexIsFirst

LEMMA RepairKeepsChoice ==
  ASSUME IInv, NEW c \in Calls, Repair(c)
  PROVE  Choice'
<1>p. CallPC \ {"create", "failed"} =
         {"idle", "send", "check", "guard", "decide", "backoff", "mark", "list",
          "unload", "dir", "created", "index", "load", "leave"}
  BY DEF CallPC, Repairing
<1>i. index \in {Nil, 0}
  BY DEF IInv, IndexIsFirst
<1>1. CASE CheckCreated(c) \/ CheckRunning(c)
  BY <1>1, <1>p, TriesKeepChoice DEF CheckCreated, CheckRunning, Refuse
<1>2. CASE MarkRunning(c) \/ Leave(c) \/ MarkCreated(c)
  <2>1. /\ UNCHANGED <<repairVars, nodeVars, index>>
        /\ \E p \in CallPC \ {"create", "failed"} : GoTo(c, p)
    BY <1>2, <1>p DEF MarkRunning, Leave, MarkCreated
  <2> QED BY <2>1 DEF IInv, Choice, WalletTypeOK, PCType, GoTo, repairVars, nodeVars,
             ListsAreRight, OnlyFromEmpty, FailedEntry, IndexIsFirst
<1>3. CASE ListWallets(c) \/ RelistWallets(c)
  <2>1. /\ UNCHANGED <<stateVars, nodeVars>>
        /\ \/ \E e \in {"none", "other"} : Ends(c, e)
           \/ \E p \in CallPC \ {"create", "failed"}, S \in {{}, loaded} : GoesOn(c, p, S)
    BY <1>3, <1>p DEF ListWallets, RelistWallets
  <2> QED BY <1>i, <2>1, EndsKeepChoice, GoesOnKeepsChoice DEF stateVars, nodeVars
<1>4. CASE UnloadWallet(c)
  <2>1. PICK w \in listed[c] :
            /\ GoesOn(c, "unload", listed[c] \ {w})
            /\ \/ UNCHANGED loaded
               \/ loaded' = loaded \ {w}
    BY <1>4 DEF UnloadWallet
  <2> QED BY <1>4, <1>p, <2>1, GoesOnKeepsChoice DEF UnloadWallet, stateVars
<1>5. CASE ListWalletDir(c)
  <2>1. CASE Ends(c, "other")
    BY <1>5, <1>i, <2>1, EndsKeepChoice DEF ListWalletDir, stateVars, nodeVars
  <2>2. CASE /\ seen' = [seen EXCEPT ![c] = directory]
             /\ GoTo(c, IF directory = <<>> THEN "create" ELSE "index")
             /\ UNCHANGED <<herr, listed, first>>
    BY <1>5, <2>2 DEF ListWalletDir, stateVars, nodeVars, IInv, Choice, WalletTypeOK, PCType,
       RepairType, GoTo, ListsAreRight, OnlyFromEmpty, FailedEntry, IndexIsFirst
  <2> QED BY <1>5, <2>1, <2>2 DEF ListWalletDir
<1>6. CASE CreateWallet(c)
  <2>1. CASE GoTo(c, "index") /\ UNCHANGED nodeVars
    BY <1>6, <1>p, <2>1, TriesKeepChoice DEF CreateWallet
  <2>2. CASE /\ Fresh \notin Entries /\ GoTo(c, "created")
             /\ directory' = Append(directory, Fresh) /\ loaded' = loaded \cup {Fresh}
             /\ UNCHANGED loadable
    <3>1. directory = <<>>
      BY <1>6, <2>2 DEF CreateWallet, IInv, OnlyFromEmpty, Entries
    <3>2. directory' = <<Fresh>> /\ directory'[1] = Fresh /\ loaded = {}
      BY <2>2, <3>1, FirstWallet DEF IInv, WalletTypeOK, NodeType, Entries
    <3>3. \A d \in Calls : seen[d] = <<>>
      BY <3>1 DEF IInv, ListsAreRight
    <3> QED BY <1>6, <2>2, <3>2, <3>3
            DEF CreateWallet, repairVars, stateVars, IInv, Choice, WalletTypeOK, PCType, GoTo,
                ListsAreRight, OnlyFromEmpty, FailedEntry, IndexIsFirst
  <2> QED BY <1>6, <2>1, <2>2 DEF CreateWallet
<1>7. CASE LoadWalletIndex(c)
  <2>1. first'[c] \in {Nil, 0}
    BY <1>7, <1>i DEF LoadWalletIndex, IInv, WalletTypeOK, RepairType
  <2> QED BY <1>7, <2>1 DEF LoadWalletIndex, stateVars, nodeVars, IInv, Choice, WalletTypeOK, PCType,
          RepairType, GoTo, ListsAreRight, OnlyFromEmpty, FailedEntry, IndexIsFirst
<1>8. CASE LoadWallet(c)
  <2>1. /\ first[c] \in {Nil, 0} /\ WalletTypeOK
        /\ seen[c] = <<>> \/ seen[c] = directory
    BY DEF IInv, IndexIsFirst, ListsAreRight
  <2>2. CASE Ends(c, "none") /\ UNCHANGED loaded
    BY <1>8, <1>i, <2>2, EndsKeepChoice DEF LoadWallet, stateVars
  <2>3. CASE /\ Ends(c, "none") /\ Candidates(c) # {}
             /\ loaded' = loaded \cup {seen[c][Candidate(c)]}
    <3>1. seen[c][Candidate(c)] = directory[1]
      BY <2>1, <2>3, FirstCandidate
    <3> QED BY <1>8, <2>3, <3>1 DEF LoadWallet, Ends, stateVars, IInv, Choice, WalletTypeOK, PCType,
          RepairType, GoTo, ListsAreRight, OnlyFromEmpty, FailedEntry, IndexIsFirst
  <2>4. CASE GoesOn(c, "failed", {}) /\ Candidates(c) # {} /\ UNCHANGED loaded
    <3>1. seen[c] # <<>>
      BY <2>1, <2>4, FirstCandidate
    <3> QED BY <1>8, <2>4, <3>1 DEF LoadWallet, GoesOn, stateVars, IInv, Choice, WalletTypeOK, PCType,
          RepairType, GoTo, ListsAreRight, OnlyFromEmpty, FailedEntry, IndexIsFirst
  <2> QED BY <1>8, <2>2, <2>3, <2>4 DEF LoadWallet
<1>9. CASE LoadFailed(c)
  <2>1. Candidate(c) = 1
    BY <1>9, FirstCandidate DEF LoadFailed, IInv, IndexIsFirst, FailedEntry
  <2> QED BY <1>9, <2>1, EndsKeepChoice DEF LoadFailed, nodeVars
<1> QED BY <1>1, <1>2, <1>3, <1>4, <1>5, <1>6, <1>7, <1>8, <1>9 DEF Repair

LEMMA NextChoice == IInv /\ [WalletNext]_walletVars => Choice'
<1> SUFFICES ASSUME IInv, [WalletNext]_walletVars PROVE Choice'
  OBVIOUS
<1>p. {"idle", "send", "check", "decide", "backoff"} \subseteq CallPC \ {"create", "failed"}
  BY DEF CallPC, Repairing
<1>1. ASSUME NEW c \in Calls, Call(c) \/ Do(c) \/ Decide(c) \/ Backoff(c) PROVE Choice'
  <2>1. /\ UNCHANGED <<repairVars, stateVars, nodeVars>>
        /\ \E p \in CallPC \ {"create", "failed"} : GoTo(c, p)
    BY <1>1, <1>p DEF Call, Do, Decide, Backoff, Finish, DoFails
  <2> QED BY <2>1, TriesKeepChoice
<1>2. ASSUME NEW c \in Calls, Repair(c) PROVE Choice'
  BY <1>2, RepairKeepsChoice
<1>3. ASSUME NEW m \in cleaners, CleanerLooks(m[1]) \/ CleanerClears(m[1]) PROVE Choice'
  BY <1>3, OthersKeepChoice DEF CleanerLooks, CleanerClears, nodeVars
<1>4. ASSUME NEW w \in AllWallets, ForeignLoad(w) \/ ForeignUnload(w) PROVE Choice'
  BY <1>4, OthersKeepChoice DEF ForeignLoad, ForeignUnload, stateVars
<1>5. CASE CreatedExpires
  BY <1>5, OthersKeepChoice DEF CreatedExpires, nodeVars
<1>6. CASE UNCHANGED walletVars
  BY <1>6, OthersKeepChoice DEF walletVars, stateVars, nodeVars
<1> QED BY <1>1, <1>2, <1>3, <1>4, <1>5, <1>6 DEF WalletNext, CallStep

\* A call pauses only when another try is left.
LEMMA NextTriesLeft == IInv /\ [WalletNext]_walletVars => TriesLeft'
<1> SUFFICES ASSUME IInv, [WalletNext]_walletVars PROVE TriesLeft'
  OBVIOUS
<1> USE DEF IInv, WalletTypeOK, PCType, TriesLeft
<1>1. ASSUME NEW c \in Calls, NEW p, p # "backoff", GoTo(c, p),
             \A d \in Calls \ {c} : try'[d] = try[d]
      PROVE  TriesLeft'
  BY <1>1 DEF GoTo
<1>2. ASSUME NEW c \in Calls, Call(c) \/ Do(c) \/ Backoff(c) PROVE TriesLeft'
  <2>1. /\ \A d \in Calls \ {c} : try'[d] = try[d]
        /\ \E p \in {"idle", "send", "check", "decide"} : GoTo(c, p)
    BY <1>2 DEF Call, Do, Backoff, Finish, DoFails, TryType
  <2> QED BY <1>1, <2>1
<1>3. ASSUME NEW c \in Calls, Decide(c) PROVE TriesLeft'
  <2>1. CASE Finish(c)
    BY <1>1, <2>1 DEF Finish, TryType
  <2>2. CASE ~LastTry(c) /\ GoTo(c, "backoff") /\ UNCHANGED try
    <3>1. try[c] < MaxTries - 1
      BY <2>2, WalletAssumption DEF LastTry, TryType, WalletAssumption
    <3> QED BY <2>2, <3>1 DEF GoTo
  <2> QED BY <1>3, <2>1, <2>2 DEF Decide
<1>4. ASSUME NEW c \in Calls, Repair(c) PROVE TriesLeft'
  <2>1. /\ UNCHANGED try
        /\ \E p \in Repairing \cup {"guard", "decide"} : GoTo(c, p)
    BY <1>4 DEF Repair, CheckCreated, CheckRunning, MarkRunning, ListWallets, UnloadWallet,
       RelistWallets, ListWalletDir, CreateWallet, MarkCreated, LoadWalletIndex, LoadWallet,
       LoadFailed, Leave, Refuse, Ends, GoesOn, tryVars, Repairing
  <2> QED BY <1>1, <2>1 DEF Repairing
<1>5. CASE UNCHANGED callVars
  BY <1>5 DEF callVars
<1> QED BY <1>2, <1>3, <1>4, <1>5
        DEF WalletNext, CallStep, CleanerLooks, CleanerClears, ForeignLoad, ForeignUnload,
            CreatedExpires, walletVars

LEMMA InvInductive == IInv /\ [WalletNext]_walletVars => IInv'
BY NextType, NextChoice, NextTriesLeft DEF IInv, Choice

LEMMA InvHolds == WalletSpec => []IInv
BY InitInv, InvInductive, PTL DEF WalletSpec
-----------------------------------------------------------------------------
(* The theorems                                                              *)

\* The locals of the calls, the marks and the node keep their types; the
\* number of a try stays below the maximum.
THEOREM TypeCorrect == WalletSpec => []WalletTypeOK
<1>1. IInv => WalletTypeOK
  BY DEF IInv
<1> QED BY <1>1, InvHolds, PTL

\* loadWallets keeps the index of the wallet that failed, and leaves its loop
\* after one wallet: no repair ever tries another than the first, which is what
\* the counterexample to RepairsGetThrough rests on.
THEOREM OthersAreNeverTried == WalletSpec => []OnlyFirstTried
<1>1. IInv => OnlyFirstTried
  <2> SUFFICES ASSUME IInv, NEW c \in Calls, Candidates(c) # {}
               PROVE  seen[c][Candidate(c)] = Head(directory)
    BY DEF OnlyFirstTried
  <2>1. first[c] \in {Nil, 0} /\ WalletTypeOK /\ (seen[c] = <<>> \/ seen[c] = directory)
    BY DEF IInv, IndexIsFirst, ListsAreRight
  <2>2. seen[c] # <<>> /\ Candidate(c) = 1
    BY <2>1, FirstCandidate
  <2>3. seen[c] = directory /\ directory \in Seq(AllWallets)
    BY <2>1, <2>2 DEF WalletTypeOK, NodeType
  <2> QED BY <2>2, <2>3
<1> QED BY <1>1, InvHolds, PTL

\* The mark of a running repair does not outlive the repairs.
THEOREM MarksAreTakenBack == WalletSpec => []NoStaleMark
<1>1. WalletInit => NoStaleMark
  BY DEF WalletInit, NoStaleMark
<1>2. WalletTypeOK /\ NoStaleMark /\ [WalletNext]_walletVars => NoStaleMark'
  <2> SUFFICES ASSUME WalletTypeOK, NoStaleMark, [WalletNext]_walletVars PROVE NoStaleMark'
    OBVIOUS
  <2> USE DEF WalletTypeOK, PCType, NoStaleMark
  <2>1. ASSUME NEW c \in Calls, UNCHANGED running, point[c] \notin Repairing \ {"mark"},
               \E p : GoTo(c, p)
        PROVE  NoStaleMark'
    BY <2>1 DEF GoTo
  <2>2. ASSUME NEW c \in Calls, NEW p \in Repairing \ {"mark"}, GoTo(c, p)
        PROVE  NoStaleMark'
    BY <2>2 DEF GoTo
  <2>3. ASSUME NEW c \in Calls, Call(c) \/ Do(c) \/ Decide(c) \/ Backoff(c)
        PROVE  NoStaleMark'
    <3>1. UNCHANGED running /\ point[c] \notin Repairing \ {"mark"} /\ \E p : GoTo(c, p)
      BY <2>3 DEF Call, Do, Decide, Backoff, Finish, DoFails, stateVars, Repairing
    <3> QED BY <2>1, <3>1
  <2>4. ASSUME NEW c \in Calls, CheckCreated(c) \/ CheckRunning(c) PROVE NoStaleMark'
    <3>1. UNCHANGED running /\ point[c] \notin Repairing \ {"mark"} /\ \E p : GoTo(c, p)
      BY <2>4 DEF CheckCreated, CheckRunning, Refuse, stateVars, Repairing
    <3> QED BY <2>1, <3>1
  <2>5. ASSUME NEW c \in Calls, Repair(c), ~CheckCreated(c), ~CheckRunning(c), ~Leave(c)
        PROVE  NoStaleMark'
    <3>1. \E p \in Repairing \ {"mark"} : GoTo(c, p)
      BY <2>5 DEF Repair, MarkRunning, ListWallets, UnloadWallet, RelistWallets,
         ListWalletDir, CreateWallet, MarkCreated, LoadWalletIndex, LoadWallet, LoadFailed,
         Ends, GoesOn, Repairing
    <3> QED BY <2>2, <3>1
  <2>6. ASSUME NEW c \in Calls, Leave(c) PROVE NoStaleMark'
    BY <2>6 DEF Leave
  <2>7. CASE UNCHANGED callVars /\ UNCHANGED running
    BY <2>7 DEF callVars
  <2> QED BY <2>3, <2>4, <2>5, <2>6, <2>7
          DEF WalletNext, CallStep, CleanerLooks, CleanerClears, ForeignLoad, ForeignUnload,
              CreatedExpires, walletVars, stateVars
<1> QED BY <1>1, <1>2, TypeCorrect, PTL DEF WalletSpec
=============================================================================
