------------------------------ MODULE Calls_proofs ------------------------------
(***************************************************************************)
(* Proofs about the calls of charon for any tree of blocks, any wallets,   *)
(* parameters and amounts, and any number of changes of the chain and      *)
(* failures of the node during a call.                                     *)
(***************************************************************************)
EXTENDS Calls, FiniteSetTheorems, SequenceTheorems, WellFoundedInduction, TLAPS

-----------------------------------------------------------------------------
(* The tree of blocks                                                        *)

\* What holds of the genesis block and, with the block before it, of every
\* other one, holds of all blocks.
LEMMA BlockInduction ==
  ASSUME NEW S \in SUBSET Blocks, Genesis \in S,
         \A b \in Blocks \ {Genesis} : parent[b] \in S => b \in S
  PROVE  S = Blocks
<1>1. Blocks \ S \in SUBSET (Blocks \ {Genesis})
  OBVIOUS
<1>2. SUFFICES ASSUME Blocks \ S # {} PROVE FALSE
  OBVIOUS
<1>3. PICK b \in Blocks \ S : parent[b] \notin Blocks \ S
  BY <1>1, <1>2, ChainAssumption
<1> QED BY <1>3, NodeAssumption

\* A function on blocks may be defined by its value for the genesis block and
\* a step from each block to the next.
IsRecursive(D, f, base, step) ==
    \A b \in D : IF b = Genesis THEN f[b] = base
                 ELSE parent[b] \in D /\ f[b] = step[<<b, f[parent[b]]>>]

\* The form of such a definition.
IsDefinedBy(f, base, step) ==
    f = [b \in Blocks |-> IF b = Genesis THEN base ELSE step[<<b, f[parent[b]]>>]]

LEMMA RecursionIsUnique ==
  ASSUME NEW D \in SUBSET Blocks, NEW E \in SUBSET Blocks, NEW f, NEW g, NEW base, NEW step,
         IsRecursive(D, f, base, step), IsRecursive(E, g, base, step)
  PROVE  \A b \in D \cap E : f[b] = g[b]
<1> DEFINE S == {b \in Blocks : b \in D \cap E => f[b] = g[b]}
<1>1. Genesis \in S
  BY NodeAssumption DEF IsRecursive
<1>2. ASSUME NEW b \in Blocks \ {Genesis}, parent[b] \in S PROVE b \in S
  BY <1>2 DEF IsRecursive
<1> HIDE DEF S
<1>3. S \in SUBSET Blocks
  BY DEF S
<1>4. S = Blocks
  BY <1>1, <1>2, <1>3, BlockInduction
<1> QED BY <1>4 DEF S

LEMMA RecursionExists ==
  ASSUME NEW V, NEW base \in V, NEW step \in [Blocks \X V -> V]
  PROVE  \E f \in [Blocks -> V] : IsDefinedBy(f, base, step)
<1> DEFINE Part(D, f) == D \in SUBSET Blocks /\ f \in [D -> V] /\ IsRecursive(D, f, base, step)
           S == {b \in Blocks : \E D, f : b \in D /\ Part(D, f)}
<1>1. Genesis \in S
  <2> DEFINE f == [b \in {Genesis} |-> base]
  <2>1. f \in [{Genesis} -> V] /\ {Genesis} \in SUBSET Blocks /\ IsRecursive({Genesis}, f, base, step)
    BY NodeAssumption DEF IsRecursive
  <2>2. Part({Genesis}, f) /\ Genesis \in {Genesis}
    BY <2>1
  <2> HIDE DEF f, Part
  <2> QED BY <2>2, NodeAssumption
<1>2. ASSUME NEW b \in Blocks \ {Genesis}, parent[b] \in S PROVE b \in S
  <2>1. PICK D, f : parent[b] \in D /\ Part(D, f)
    BY <1>2
  <2> DEFINE E == D \cup {b}
             v == step[<<b, f[parent[b]]>>]
             g == [c \in E |-> IF c \in D THEN f[c] ELSE v]
  <2>2. v \in V
    BY <2>1
  <2>3. g \in [E -> V] /\ E \in SUBSET Blocks
    BY <2>1, <2>2
  <2>4. \A c \in D : g[c] = f[c]
    OBVIOUS
  <2>5. b \notin D => g[b] = v
    OBVIOUS
  <2> HIDE DEF g
  <2>6. IsRecursive(E, g, base, step)
    BY <2>1, <2>4, <2>5 DEF IsRecursive
  <2>7. Part(E, g) /\ b \in E
    BY <2>3, <2>6
  <2> HIDE DEF Part, E
  <2> QED BY <2>7
<1>3. S = Blocks
  <2> HIDE DEF S
  <2>1. S \in SUBSET Blocks
    BY DEF S
  <2> QED BY <1>1, <1>2, <2>1, BlockInduction
<1> DEFINE Is(b, v) == \E D, f : b \in D /\ Part(D, f) /\ v = f[b]
           F == [b \in Blocks |-> CHOOSE v \in V : Is(b, v)]
<1>4. ASSUME NEW b \in Blocks PROVE F[b] \in V /\ Is(b, F[b])
  <2>1. \E v \in V : Is(b, v)
    <3>1. PICK D, f : b \in D /\ Part(D, f)
      BY <1>3
    <3>2. f[b] \in V /\ Is(b, f[b])
      BY <3>1
    <3> QED BY <3>2
  <2> HIDE DEF Is
  <2> QED BY <2>1
<1>5. ASSUME NEW b \in Blocks, NEW D, NEW f, b \in D, Part(D, f)
      PROVE  F[b] = f[b]
  <2>1. PICK E, g : b \in E /\ Part(E, g) /\ F[b] = g[b]
    BY <1>4
  <2> HIDE DEF F
  <2> QED BY <1>5, <2>1, RecursionIsUnique
<1>6. ASSUME NEW b \in Blocks
      PROVE  F[b] = IF b = Genesis THEN base ELSE step[<<b, F[parent[b]]>>]
  <2>1. PICK D, f : b \in D /\ Part(D, f) /\ F[b] = f[b]
    BY <1>4
  <2>2. b # Genesis => parent[b] \in D /\ parent[b] \in Blocks
    BY <2>1, NodeAssumption DEF IsRecursive
  <2>3. b # Genesis => F[parent[b]] = f[parent[b]]
    <3>1. D \in SUBSET Blocks /\ f \in [D -> V]
      BY <2>1
    <3> HIDE DEF F, Part
    <3> QED BY <1>5, <2>1, <2>2, <3>1
  <2> HIDE DEF F
  <2> QED BY <2>1, <2>2, <2>3 DEF IsRecursive
<1>7. F \in [Blocks -> V]
  BY <1>4
<1>8. IsDefinedBy(F, base, step)
  <2> HIDE DEF F
  <2> QED BY <1>6, <1>7 DEF IsDefinedBy
<1> HIDE DEF F
<1> QED BY <1>7, <1>8

LEMMA HeightDef ==
  /\ height \in [Blocks -> Nat]
  /\ height[Genesis] = 0
  /\ \A b \in Blocks \ {Genesis} : height[b] = height[parent[b]] + 1
<1> DEFINE step == [p \in Blocks \X Nat |-> p[2] + 1]
<1>1. step \in [Blocks \X Nat -> Nat]
  OBVIOUS
<1>2. \A b \in Blocks, n \in Nat : step[<<b, n>>] = n + 1
  OBVIOUS
<1> HIDE DEF step
<1>3. PICK f \in [Blocks -> Nat] :
        IsDefinedBy(f, 0, step)
  BY <1>1, RecursionExists
<1>4. f = [b \in Blocks |-> IF b = Genesis THEN 0 ELSE f[parent[b]] + 1]
  BY <1>2, <1>3, NodeAssumption DEF IsDefinedBy
<1>5. height = [b \in Blocks |-> IF b = Genesis THEN 0 ELSE height[parent[b]] + 1]
  BY <1>4 DEF height
<1> DEFINE S == {b \in Blocks : height[b] \in Nat}
<1>6. S = Blocks
  <2>1. Genesis \in S
    BY <1>5, NodeAssumption
  <2>2. ASSUME NEW b \in Blocks \ {Genesis}, parent[b] \in S PROVE b \in S
    BY <1>5, <2>2
  <2>3. S \in SUBSET Blocks
    OBVIOUS
  <2> HIDE DEF S
  <2> QED BY <2>1, <2>2, <2>3, BlockInduction
<1> QED BY <1>5, <1>6, NodeAssumption

LEMMA BranchDef ==
  /\ branch \in [Blocks -> SUBSET Blocks]
  /\ branch[Genesis] = {Genesis}
  /\ \A b \in Blocks \ {Genesis} : branch[b] = branch[parent[b]] \cup {b}
<1> DEFINE step == [p \in Blocks \X SUBSET Blocks |-> p[2] \cup {p[1]}]
<1>1. step \in [Blocks \X SUBSET Blocks -> SUBSET Blocks]
  OBVIOUS
<1>2. \A b \in Blocks, n \in SUBSET Blocks : step[<<b, n>>] = n \cup {b}
  OBVIOUS
<1> HIDE DEF step
<1>3. PICK f \in [Blocks -> SUBSET Blocks] :
        IsDefinedBy(f, {Genesis}, step)
  <2>1. {Genesis} \in SUBSET Blocks
    BY NodeAssumption
  <2> QED BY <1>1, <2>1, RecursionExists
<1>4. f = [b \in Blocks |-> IF b = Genesis THEN {b} ELSE f[parent[b]] \cup {b}]
  BY <1>2, <1>3, NodeAssumption DEF IsDefinedBy
<1>5. branch = [b \in Blocks |-> IF b = Genesis THEN {b} ELSE branch[parent[b]] \cup {b}]
  BY <1>4 DEF branch
<1> DEFINE S == {b \in Blocks : branch[b] \in SUBSET Blocks}
<1>6. S = Blocks
  <2>1. Genesis \in S
    BY <1>5, NodeAssumption
  <2>2. ASSUME NEW b \in Blocks \ {Genesis}, parent[b] \in S PROVE b \in S
    BY <1>5, <2>2
  <2>3. S \in SUBSET Blocks
    OBVIOUS
  <2> HIDE DEF S
  <2> QED BY <2>1, <2>2, <2>3, BlockInduction
<1>7. branch \in [Blocks -> SUBSET Blocks]
  BY <1>5, <1>6
<1>8. \A b \in Blocks \ {Genesis} : branch[b] = branch[parent[b]] \cup {b}
  BY <1>5
<1>9. branch[Genesis] = {Genesis}
  BY <1>5, NodeAssumption
<1> QED BY <1>7, <1>8, <1>9

\* Only the genesis block has height 0, and a branch has a block for each
\* height up to that of its last one.
LEMMA Heights ==
  /\ \A b \in Blocks : height[b] = 0 <=> b = Genesis
  /\ \A b \in Blocks : Genesis \in branch[b] /\ b \in branch[b]
  /\ \A b \in Blocks : \A n \in 0..height[b] : \E c \in branch[b] : height[c] = n
<1>1. ASSUME NEW b \in Blocks PROVE height[b] = 0 <=> b = Genesis
  <2>1. b # Genesis => height[b] = height[parent[b]] + 1 /\ height[parent[b]] \in Nat
    BY HeightDef, NodeAssumption
  <2> QED BY <2>1, HeightDef
<1> DEFINE S == {b \in Blocks : Genesis \in branch[b] /\ b \in branch[b]
                              /\ \A n \in 0..height[b] : \E c \in branch[b] : height[c] = n}
<1>2. Genesis \in S
  BY HeightDef, BranchDef, NodeAssumption
<1>3. ASSUME NEW b \in Blocks \ {Genesis}, parent[b] \in S PROVE b \in S
  <2>1. height[b] = height[parent[b]] + 1 /\ branch[b] = branch[parent[b]] \cup {b}
        /\ height[parent[b]] \in Nat
    BY HeightDef, BranchDef, NodeAssumption
  <2>2. ASSUME NEW n \in 0..height[b] PROVE \E c \in branch[b] : height[c] = n
    <3>1. CASE n = height[b]
      BY <2>1, <3>1
    <3>2. CASE n # height[b]
      <4>1. n \in 0..height[parent[b]]
        BY <2>1, <3>2
      <4> QED BY <1>3, <2>1, <4>1
    <3> QED BY <3>1, <3>2
  <2> QED BY <1>3, <2>1, <2>2
<1>4. S \in SUBSET Blocks
  OBVIOUS
<1> HIDE DEF S
<1>5. S = Blocks
  BY <1>2, <1>3, <1>4, BlockInduction
<1> QED BY <1>1, <1>5 DEF S
-----------------------------------------------------------------------------
(* Invariants                                                                *)

BlockOps == {"getBlockByNumber", "byIndex", "getBlockByHash"}

\* A transaction is being read, and of it something is known.
Reading == {"reward", "rewardIndex", "rewardNumber", "rewardOut", "raw", "decode", "number", "sender",
            "receiptRaw", "receiptDecode"}
Found == {"rewardIndex", "rewardNumber", "rewardOut", "decode", "number", "sender", "receiptRaw",
          "receiptDecode"}
TxPcs == Reading \cup {"gettransaction", "receipt", "returned"}

\* A call that has not begun left nothing behind.
AtRest ==
    op = NoOp =>
        /\ pc = [t \in Threads |-> "idle"] /\ view = [t \in Threads |-> NoView]
        /\ block = [t \in Threads |-> NoBlock] /\ chans = NoChans /\ waiter = "none"
        /\ result = [t \in Threads |-> NoResult]
        /\ reply = NoReplyYet /\ coins = <<>> /\ tips = {tip} /\ failures = 0

\* With the answer all work ends.
Replied == reply # NoReplyYet => waiter = "none" /\ \A t \in Threads : pc[t] = "idle"

\* The calls that make a call to the node, those about blocks and transactions
\* left aside.
Serves(p, name) ==
    /\ p \in {"from", "to", "search"} => name = "logs"
    /\ p \in {"storagelatest", "getstorage"} => name = "storage"
    /\ p \in {"callcontract", "getcode", "accountinfo", "addressbalance"} =>
         name \in {"call", "estimateGas", "code", "balance"}
    /\ p = "count" => name = "blockNumber"
    /\ p \in {"utxos", "createraw", "signraw"} => name = "sign"
    /\ p = "send" => name = "send"
    /\ p \in {"sendraw", "decoderaw"} => name = "sendRaw"
    /\ p = "generate" => name = "generate"
    /\ p \in {"listcoins", "coincount"} => name = "utxos"

\* Where a thread is tells what call it works for.
WorksFor(t) ==
    /\ pc[t] \in {"latest", "hash"} =>
         op.name \in {"getBlockByNumber", "byIndex"} /\ op.asked \in BlockParams
    /\ pc[t] \in {"header", "block"} => op.name \in BlockOps
    /\ pc[t] \in TxPcs => op.name \in {"tx", "receipt"} \/ (op.name \in BlockOps /\ Full)
    /\ pc[t] \in {"receipt", "receiptRaw", "receiptDecode"} => op.name = "receipt"
    /\ pc[t] \in {"gettransaction", "raw", "decode", "number", "sender"} => op.name # "receipt"
    /\ pc[t] \in {"block"} \cup TxPcs /\ op.name \in BlockOps => block[t].hash \in Blocks
    /\ Serves(pc[t], op.name)
    /\ pc[t] = "lookup" \/ (t = "backup" /\ pc[t] # "idle") => IsByHash
    /\ IsByHash => pc[t] \in {"idle", "lookup", "header", "block"} \cup TxPcs

\* What is known of a transaction is of the one that is read.
ViewFits(t) ==
    /\ pc[t] \notin Reading => view[t] = NoView
    /\ view[t].place \in Blocks => tx[t] \in Range(body[view[t].place])
    /\ pc[t] \in {"rewardIndex", "rewardNumber", "rewardOut", "number", "receiptRaw", "receiptDecode"} =>
         view[t].place \in Blocks
    /\ pc[t] \in {"decode", "sender"} => view[t].place # Unknown

\* What the cache answers was true once.
CacheWasTrue ==
    \A x \in Txs : rawCache[x] \in {Absent} \cup {Place(x, b) : b \in Blocks}

Control ==
    /\ AtRest /\ Replied /\ CacheWasTrue
    /\ \A t \in Threads : WorksFor(t) /\ ViewFits(t)
    /\ waiter # "none" => IsByHash

-----------------------------------------------------------------------------
(* What the node answers                                                     *)

LEMMA PlaceOf ==
  ASSUME NEW x, NEW b \in Blocks
  PROVE  /\ Place(x, b) \in Spots
         /\ Place(x, b) \in Blocks =>
              /\ x \in Txs /\ x \in Range(body[Place(x, b)]) /\ Place(x, b) \in branch[b]
              /\ x \notin Range(body[Genesis])
         /\ x \notin Txs \/ x \in Range(body[Genesis]) => Place(x, b) = Unknown
<1> DEFINE in == {c \in branch[b] : x \in Range(body[c])}
<1>1. in \subseteq Blocks
  BY BranchDef
<1>2. in # {} => (CHOOSE c \in in : TRUE) \in in
  OBVIOUS
<1> HIDE DEF in
<1>3. Place(x, b) = IF x \notin Txs \/ x \in Range(body[Genesis]) THEN Unknown
                    ELSE IF in # {} THEN CHOOSE c \in in : TRUE
                    ELSE IF x \in Coinbases THEN Unknown ELSE Pending
  BY DEF Place, in
<1>4. Unknown \notin Blocks /\ Pending \notin Blocks
  BY NodeAssumption
<1>5. \A c \in in : c \in branch[b] /\ x \in Range(body[c])
  BY DEF in
<1> QED BY <1>1, <1>2, <1>3, <1>4, <1>5 DEF Spots

LEMMA Bodies ==
  ASSUME NEW b \in Blocks
  PROVE  /\ body[b] \in Seq(Txs)
         /\ \A x \in Range(body[b]) : \E i \in DOMAIN body[b] : body[b][i] = x
         /\ \A i \in DOMAIN body[b] : body[b][i] \in Range(body[b]) /\ body[b][i] \in Txs
         /\ DOMAIN body[b] = 1..Len(body[b]) /\ Len(body[b]) \in Nat
BY NodeAssumption DEF Range

LEMMA IndexOf ==
  ASSUME NEW b \in Blocks, NEW i \in DOMAIN body[b]
  PROVE  Index(body[b][i], b) = i - 1
<1>1. \A j \in DOMAIN body[b] : body[b][j] = body[b][i] => j = i
  BY ChainAssumption
<1>2. (CHOOSE j \in DOMAIN body[b] : body[b][j] = body[b][i]) = i
  BY <1>1
<1> QED BY <1>2 DEF Index

LEMMA IndexIsInt ==
  ASSUME NEW b \in Blocks, NEW x \in Range(body[b])
  PROVE  Index(x, b) \in Int
<1>1. PICK i \in DOMAIN body[b] : body[b][i] = x
  BY Bodies
<1>2. i \in Int
  BY Bodies
<1> QED BY <1>1, <1>2, IndexOf

\* How the node and the cache may change while a call goes on.
NodeGoesOn ==
    /\ tip' = tip /\ tips' = tips
    /\ failures' \in Nat /\ failures <= failures' /\ failures' <= MaxFailures
    /\ rawCache' \in [Txs -> Blocks \cup {Pending, Absent}] /\ CacheWasTrue'

LEMMA NodeAnswers ==
  ASSUME TypeOK, CacheWasTrue, NEW x \in Txs \cup {Unknown}
  PROVE  /\ GetTransaction(x) \in Spots
         /\ GetTransaction(x) \in Blocks => x \in Range(body[GetTransaction(x)])
         /\ GetTransaction(x) = Unknown <=> x \notin Wallet
         /\ GetRawTransaction(x) \in {Place(x, b) : b \in Blocks}
         /\ GetRawTransaction(x) \in Spots
         /\ GetRawTransaction(x) \in Blocks => x \in Range(body[GetRawTransaction(x)])
         /\ GetTransactionReceipt(x) \in Blocks \cup {Unknown}
         /\ GetTransactionReceipt(x) \in Blocks =>
              x \in Range(body[GetTransactionReceipt(x)]) /\ GetTransactionReceipt(x) = Place(x, tip)
         /\ GetTransactionReceipt(x) = Unknown => x \notin Contracts \/ Place(x, tip) \notin Blocks
<1>1. tip \in Blocks
  BY DEF TypeOK
<1>2. GetRawTransaction(x) \in {Place(x, b) : b \in Blocks}
  BY <1>1, NodeAssumption DEF GetRawTransaction, CacheWasTrue, TypeOK
<1>3. /\ GetRawTransaction(x) \in Spots
      /\ GetRawTransaction(x) \in Blocks => x \in Range(body[GetRawTransaction(x)])
  BY <1>2, PlaceOf
<1>4. /\ GetTransaction(x) \in Spots
      /\ GetTransaction(x) \in Blocks => x \in Range(body[GetTransaction(x)])
      /\ GetTransaction(x) = Unknown <=> x \notin Wallet
  BY <1>1, PlaceOf, NodeAssumption DEF GetTransaction, Spots
<1>5. /\ GetTransactionReceipt(x) \in Blocks \cup {Unknown}
      /\ GetTransactionReceipt(x) \in Blocks =>
           x \in Range(body[GetTransactionReceipt(x)]) /\ GetTransactionReceipt(x) = Place(x, tip)
      /\ GetTransactionReceipt(x) = Unknown => x \notin Contracts \/ Place(x, tip) \notin Blocks
  BY <1>1, PlaceOf, NodeAssumption DEF GetTransactionReceipt, Spots
<1> QED BY <1>2, <1>3, <1>4, <1>5

LEMMA NodeSteps ==
  ASSUME TypeOK, CacheWasTrue, NEW x \in Txs \cup {Unknown},
         \/ UNCHANGED nodeVars
         \/ StoreRaw(x)
         \/ CallFails
  PROVE  NodeGoesOn
<1> USE DEF NodeGoesOn
<1>1. CASE UNCHANGED nodeVars
  BY <1>1, NodeAssumption DEF nodeVars, TypeOK, CacheWasTrue
<1>2. CASE StoreRaw(x)
  <2>1. CASE GetRawTransaction(x) = Unknown
    BY <1>2, <2>1, NodeAssumption DEF StoreRaw, TypeOK, CacheWasTrue
  <2>2. CASE GetRawTransaction(x) # Unknown
    <3> DEFINE p == GetRawTransaction(x)
    <3>1. p \in Spots /\ p \in {Place(x, b) : b \in Blocks}
      BY NodeAnswers
    <3>2. x \in Txs
      BY <2>2, <3>1, PlaceOf
    <3>3. rawCache' = [rawCache EXCEPT ![x] = p] /\ UNCHANGED <<tip, tips, failures>>
      BY <1>2, <2>2 DEF StoreRaw
    <3> HIDE DEF p
    <3>4. p \in Blocks \cup {Pending}
      BY <2>2, <3>1 DEF Spots, p
    <3>5. rawCache' \in [Txs -> Blocks \cup {Pending, Absent}]
      BY <3>3, <3>4 DEF TypeOK
    <3>6. CacheWasTrue'
      BY <3>1, <3>2, <3>3 DEF TypeOK, CacheWasTrue, Place
    <3> QED BY <3>3, <3>5, <3>6, NodeAssumption DEF TypeOK
  <2> QED BY <2>1, <2>2
<1>3. CASE CallFails
  BY <1>3, NodeAssumption DEF CallFails, TypeOK, CacheWasTrue
<1> QED BY <1>1, <1>2, <1>3
-----------------------------------------------------------------------------
(* The steps of a translation                                                *)

Results == {NoResult, Null, Error} \cup Translated

\* What every step that reads a transaction does to the two threads.
Others(t) ==
    \A u \in Threads \ {t} : pc'[u] = pc[u] /\ view'[u] = view[u] /\ result'[u] = result[u]
StepTypes ==
    pc' \in [Threads -> Pcs] /\ view' \in [Threads -> Views] /\ result' \in [Threads -> Results]

LEMMA Sorts ==
  /\ NoView \in Views /\ NoView.place = Unknown
  /\ Null \in Results /\ Error \in Results /\ NoResult \in Results
  /\ \A v \in Views, x \in Txs \cup {Unknown}, s \in {"none", "script", "input", "receipt"} :
        /\ TxAnswer(v, x, s) \in Results /\ TxAnswer(v, x, s) \in Translated
        /\ TxAnswer(v, x, s).kind = "tx" /\ TxAnswer(v, x, s).tx = x
        /\ TxAnswer(v, x, s).place = v.place /\ TxAnswer(v, x, s).index = v.index
        /\ TxAnswer(v, x, s).number = v.number /\ TxAnswer(v, x, s).path = v.path
        /\ TxAnswer(v, x, s).outdated = v.outdated /\ TxAnswer(v, x, s).sender = s
  /\ Null.kind = "null" /\ Error.kind = "error" /\ NoResult.kind = "none"
  /\ \A r \in Translated : r.kind = "tx"
BY DEF NoView, Views, Null, Error, NoResult, Results, TxAnswer, Translated, Spots, Paths

LEMMA GoesTo ==
  ASSUME TypeOK, NEW t \in Threads, NEW p \in Pcs, NEW v \in Views, Goes(t, p, v)
  PROVE  StepTypes /\ Others(t) /\ pc'[t] = p /\ view'[t] = v /\ result' = result
BY DEF Goes, GoTo, Sees, TypeOK, StepTypes, Others, Results

LEMMA ReturnsWith ==
  ASSUME TypeOK, NEW t \in Threads, NEW r \in Results, Returns(t, r)
  PROVE  StepTypes /\ Others(t) /\ pc'[t] = "returned" /\ view'[t] = NoView /\ result'[t] = r
BY Sorts DEF Returns, GoTo, TypeOK, StepTypes, Others, Results, Pcs

\* What a step that reads a transaction comes to.
TxGoesOn(t) ==
    /\ NodeGoesOn /\ StepTypes /\ Others(t) /\ UNCHANGED <<op, tx>>
    /\ pc[t] \in TxPcs /\ pc'[t] \in Reading \cup {"returned"}
    /\ pc'[t] \in {"receiptRaw", "receiptDecode"} => op.name = "receipt"
    /\ pc'[t] \in {"raw", "decode", "number", "sender"} => op.name # "receipt"
    /\ ViewFits(t)'

LEMMA Arrives ==
  ASSUME TypeOK, Control, NEW t \in Threads, UNCHANGED <<op, tx>>,
         NodeGoesOn, pc[t] \in TxPcs,
         NEW p \in Reading, NEW v \in Views, Goes(t, p, v),
         p \in {"receiptRaw", "receiptDecode"} => op.name = "receipt",
         p \in {"raw", "decode", "number", "sender"} => op.name # "receipt",
         v.place \in Blocks => tx[t] \in Range(body[v.place]),
         p \in {"rewardIndex", "rewardNumber", "rewardOut", "number", "receiptRaw", "receiptDecode"} =>
           v.place \in Blocks,
         p \in {"decode", "sender"} => v.place # Unknown
  PROVE  TxGoesOn(t)
<1>1. p \in Pcs
  BY DEF Reading, Pcs
<1>2. StepTypes /\ Others(t) /\ pc'[t] = p /\ view'[t] = v
  BY <1>1, GoesTo
<1>3. tx'[t] = tx[t]
  OBVIOUS
<1>4. ViewFits(t)'
  BY <1>2, <1>3 DEF ViewFits
<1> QED BY <1>2, <1>4 DEF TxGoesOn

LEMMA Comes ==
  ASSUME TypeOK, Control, NEW t \in Threads, UNCHANGED <<op, tx>>,
         NodeGoesOn, pc[t] \in TxPcs, NEW r \in Results, Returns(t, r)
  PROVE  TxGoesOn(t)
<1>1. StepTypes /\ Others(t) /\ pc'[t] = "returned" /\ view'[t] = NoView
  BY ReturnsWith
<1>2. NoView.place \notin Blocks
  BY Sorts, NodeAssumption
<1>3. ViewFits(t)'
  BY <1>1, <1>2 DEF ViewFits, Reading
<1> QED BY <1>1, <1>3 DEF TxGoesOn

LEMMA RewardFailsGoesOn ==
  ASSUME TypeOK, Control, NEW t \in Threads, UNCHANGED <<op, tx>>,
         NodeGoesOn, pc[t] \in TxPcs, RewardFails(t)
  PROVE  TxGoesOn(t)
<1>1. CASE IsReceipt
  <2>1. PICK r \in {Null, Error} : Returns(t, r)
    BY <1>1 DEF RewardFails
  <2> QED BY <2>1, Comes, Sorts
<1>2. CASE ~IsReceipt
  <2>1. Goes(t, "raw", NoView) /\ "raw" \in Reading
    BY <1>2 DEF RewardFails, Reading
  <2>2. NoView.place \notin Blocks
    BY Sorts, NodeAssumption
  <2> QED BY <1>2, <2>1, <2>2, Arrives, Sorts DEF IsReceipt
<1> QED BY <1>1, <1>2

LEMMA SenderFailsGoesOn ==
  ASSUME TypeOK, Control, NEW t \in Threads, UNCHANGED <<op, tx>>,
         NodeGoesOn, pc[t] \in TxPcs, SenderFails(t)
  PROVE  TxGoesOn(t)
<1>1. PICK r \in {Error, TxAnswer(view[t], tx[t], "none")} : Returns(t, r)
  BY DEF SenderFails
<1>2. r \in Results
  BY <1>1, Sorts DEF TypeOK
<1> QED BY <1>1, <1>2, Comes

LEMMA TransactionGoesOn ==
  ASSUME TypeOK, Control, NEW t \in Threads, TransactionStep(t)
  PROVE  TxGoesOn(t)
<1> DEFINE x == tx[t]
<1>0. /\ x \in Txs \cup {Unknown} /\ view[t] \in Views /\ WorksFor(t) /\ ViewFits(t)
      /\ CacheWasTrue /\ tip \in Blocks
  BY DEF TypeOK, Control
<1>a. (UNCHANGED nodeVars \/ StoreRaw(x) \/ CallFails) => NodeGoesOn
  BY <1>0, NodeSteps
<1>b. Unknown \notin Blocks /\ Pending \notin Blocks /\ Pending # Unknown
  BY NodeAssumption
<1> HIDE DEF x
<1>1. CASE GetWalletTransaction(t)
  <2> DEFINE p == GetTransaction(x)
             v == [NoView EXCEPT !.place = p, !.path = "wallet",
                                 !.index = IF p = Pending THEN 0 ELSE Index(x, p)]
  <2>1. /\ At(t, "gettransaction")
        /\ \/ p # Unknown /\ Goes(t, "decode", v) /\ UNCHANGED nodeVars
           \/ p = Unknown /\ Goes(t, "reward", NoView) /\ UNCHANGED nodeVars
           \/ CallFails /\ Returns(t, Error)
    BY <1>1 DEF GetWalletTransaction, x
  <2>2. pc[t] \in TxPcs /\ op.name # "receipt" /\ UNCHANGED <<op, tx>>
    BY <1>0, <2>1 DEF At, TxPcs, WorksFor
  <2>3. p \in Spots /\ (p \in Blocks => x \in Range(body[p]))
    BY <1>0, NodeAnswers
  <2>4. (p # Unknown) => v \in Views /\ v.place = p
    <3>1. p # Unknown => (IF p = Pending THEN 0 ELSE Index(x, p)) \in Int
      BY <2>3, IndexIsInt DEF Spots
    <3> QED BY <2>3, <3>1 DEF NoView, Views, Paths
  <2>5. CASE p # Unknown /\ Goes(t, "decode", v) /\ UNCHANGED nodeVars
    <3> HIDE DEF v, p
    <3>1. "decode" \in Reading
      BY DEF Reading
    <3> QED BY <1>a, <2>2, <2>3, <2>4, <2>5, <3>1, Arrives DEF x
  <2>6. CASE Goes(t, "reward", NoView) /\ UNCHANGED nodeVars
    <3>1. "reward" \in Reading
      BY DEF Reading
    <3> QED BY <1>a, <1>b, <2>2, <2>6, <3>1, Arrives, Sorts
  <2>7. CASE CallFails /\ Returns(t, Error)
    BY <1>a, <2>2, <2>7, Comes, Sorts
  <2> QED BY <2>1, <2>5, <2>6, <2>7
<1>2. CASE GetRewardTransaction(t)
  <2> DEFINE p == GetRawTransaction(x)
             v == FromReward(t, p)
  <2>1. /\ At(t, "reward")
        /\ \/ p = Unknown /\ (IF IsReceipt THEN RewardFails(t) ELSE Returns(t, Null)) /\ UNCHANGED nodeVars
           \/ p = Pending /\ StoreRaw(x) /\ (IF IsReceipt THEN Returns(t, Null) ELSE Goes(t, "decode", v))
           \/ p \in Blocks /\ Goes(t, "rewardIndex", v) /\ StoreRaw(x)
           \/ CallFails /\ RewardFails(t)
    BY <1>2 DEF GetRewardTransaction, RawCallFails, x
  <2>2. pc[t] \in TxPcs /\ UNCHANGED <<op, tx>> /\ "decode" \in Reading /\ "rewardIndex" \in Reading
    BY <1>0, <2>1 DEF At, TxPcs, Reading
  <2>3. p \in Spots /\ (p \in Blocks => x \in Range(body[p]))
    BY <1>0, NodeAnswers
  <2>4. v \in Views /\ v.place = p
    BY <1>0, <2>3 DEF FromReward, Views, Paths, Outdated
  <2> HIDE DEF v, p
  <2>5. CASE p = Unknown /\ (IF IsReceipt THEN RewardFails(t) ELSE Returns(t, Null)) /\ UNCHANGED nodeVars
    BY <1>a, <2>2, <2>5, RewardFailsGoesOn, Comes, Sorts
  <2>6. CASE p = Pending /\ StoreRaw(x) /\ (IF IsReceipt THEN Returns(t, Null) ELSE Goes(t, "decode", v))
    BY <1>a, <1>b, <2>2, <2>3, <2>4, <2>6, Arrives, Comes, Sorts DEF x, IsReceipt
  <2>7. CASE p \in Blocks /\ Goes(t, "rewardIndex", v) /\ StoreRaw(x)
    BY <1>a, <1>b, <2>2, <2>3, <2>4, <2>7, Arrives DEF x
  <2>8. CASE CallFails /\ RewardFails(t)
    BY <1>a, <2>2, <2>8, RewardFailsGoesOn
  <2> QED BY <2>1, <2>5, <2>6, <2>7, <2>8
<1>3. CASE GetRewardIndex(t)
  <2> DEFINE v == [view[t] EXCEPT !.index = Index(x, view[t].place)]
  <2>1. /\ At(t, "rewardIndex")
        /\ (Goes(t, "rewardNumber", v) /\ UNCHANGED nodeVars) \/ (CallFails /\ RewardFails(t))
    BY <1>3 DEF GetRewardIndex, getTransactionIndexInBlock, x
  <2>2. pc[t] \in TxPcs /\ UNCHANGED <<op, tx>> /\ "rewardNumber" \in Reading
    BY <2>1 DEF At, TxPcs, Reading
  <2>3. view[t].place \in Blocks /\ x \in Range(body[view[t].place])
    BY <1>0, <2>1 DEF At, ViewFits, x
  <2>4. v \in Views /\ v.place = view[t].place
    BY <1>0, <2>3, IndexIsInt DEF Views
  <2> HIDE DEF v
  <2>5. CASE Goes(t, "rewardNumber", v) /\ UNCHANGED nodeVars
    BY <1>a, <2>2, <2>3, <2>4, <2>5, Arrives DEF x
  <2>6. CASE CallFails /\ RewardFails(t)
    BY <1>a, <2>2, <2>6, RewardFailsGoesOn
  <2> QED BY <2>1, <2>5, <2>6
<1>4. CASE GetRewardNumber(t)
  <2> DEFINE v == [view[t] EXCEPT !.number = height[view[t].place]]
  <2>1. /\ At(t, "rewardNumber")
        /\ (Goes(t, "rewardOut", v) /\ UNCHANGED nodeVars) \/ (CallFails /\ RewardFails(t))
    BY <1>4 DEF GetRewardNumber, getBlockNumberByHash, GetBlock
  <2>2. pc[t] \in TxPcs /\ UNCHANGED <<op, tx>> /\ "rewardOut" \in Reading
    BY <2>1 DEF At, TxPcs, Reading
  <2>3. view[t].place \in Blocks /\ x \in Range(body[view[t].place])
    BY <1>0, <2>1 DEF At, ViewFits, x
  <2>4. v \in Views /\ v.place = view[t].place
    BY <1>0, <2>3, HeightDef DEF Views
  <2> HIDE DEF v
  <2>5. CASE Goes(t, "rewardOut", v) /\ UNCHANGED nodeVars
    BY <1>a, <2>2, <2>3, <2>4, <2>5, Arrives DEF x
  <2>6. CASE CallFails /\ RewardFails(t)
    BY <1>a, <2>2, <2>6, RewardFailsGoesOn
  <2> QED BY <2>1, <2>5, <2>6
<1>5. CASE GetRewardOutputs(t)
  <2>1. /\ At(t, "rewardOut")
        /\ \/ (IF IsReceipt THEN Returns(t, TxAnswer(view[t], tx[t], "none")) ELSE Goes(t, "decode", view[t]))
              /\ UNCHANGED nodeVars
           \/ CallFails /\ RewardFails(t)
    BY <1>5 DEF GetRewardOutputs
  <2>2. pc[t] \in TxPcs /\ UNCHANGED <<op, tx>> /\ "decode" \in Reading
    BY <2>1 DEF At, TxPcs, Reading
  <2>3. view[t].place \in Blocks /\ x \in Range(body[view[t].place])
    BY <1>0, <2>1 DEF At, ViewFits, x
  <2>4. TxAnswer(view[t], tx[t], "none") \in Results
    BY <1>0, Sorts DEF x
  <2>5. CASE IsReceipt /\ Returns(t, TxAnswer(view[t], tx[t], "none")) /\ UNCHANGED nodeVars
    BY <1>a, <2>2, <2>4, <2>5, Comes
  <2>6. CASE ~IsReceipt /\ Goes(t, "decode", view[t]) /\ UNCHANGED nodeVars
    BY <1>0, <1>a, <1>b, <2>2, <2>3, <2>6, Arrives DEF x, IsReceipt
  <2>7. CASE CallFails /\ RewardFails(t)
    BY <1>a, <2>2, <2>7, RewardFailsGoesOn
  <2> QED BY <2>1, <2>5, <2>6, <2>7
<1>6. CASE GetRaw(t)
  <2> DEFINE p == GetRawTransaction(x)
             v == [NoView EXCEPT !.place = p, !.path = "raw", !.index = RawIndex, !.outdated = Outdated(x)]
  <2>1. /\ At(t, "raw")
        /\ \/ p = Unknown /\ Returns(t, Null) /\ UNCHANGED nodeVars
           \/ p # Unknown /\ Goes(t, "decode", v) /\ StoreRaw(x)
           \/ CallFails /\ Returns(t, Error)
    BY <1>6 DEF GetRaw, RawCallFails, x
  <2>2. pc[t] \in TxPcs /\ op.name # "receipt" /\ UNCHANGED <<op, tx>> /\ "decode" \in Reading
    BY <1>0, <2>1 DEF At, TxPcs, WorksFor, Reading
  <2>3. p \in Spots /\ (p \in Blocks => x \in Range(body[p]))
    BY <1>0, NodeAnswers
  <2>4. v \in Views /\ v.place = p
    <3>1. RawIndex \in Int /\ Outdated(x) \in BOOLEAN
      BY DEF RawIndex, Outdated
    <3> QED BY <2>3, <3>1 DEF NoView, Views, Paths
  <2> HIDE DEF v, p
  <2>5. CASE Returns(t, Null) /\ UNCHANGED nodeVars
    BY <1>a, <2>2, <2>5, Comes, Sorts
  <2>6. CASE p # Unknown /\ Goes(t, "decode", v) /\ StoreRaw(x)
    BY <1>a, <2>2, <2>3, <2>4, <2>6, Arrives DEF x
  <2>7. CASE CallFails /\ Returns(t, Error)
    BY <1>a, <2>2, <2>7, Comes, Sorts
  <2> QED BY <2>1, <2>5, <2>6, <2>7
<1>7. CASE Decode(t)
  <2> DEFINE p == IF view[t].place = Pending THEN "sender" ELSE "number"
  <2>1. /\ At(t, "decode")
        /\ (Goes(t, p, view[t]) /\ UNCHANGED nodeVars) \/ (CallFails /\ Returns(t, Error))
    BY <1>7 DEF Decode
  <2>2. pc[t] \in TxPcs /\ op.name # "receipt" /\ UNCHANGED <<op, tx>> /\ p \in Reading
    BY <1>0, <2>1 DEF At, TxPcs, WorksFor, Reading
  <2>3. /\ view[t].place \in Blocks \cup {Pending}
        /\ view[t].place \in Blocks => x \in Range(body[view[t].place])
    BY <1>0, <2>1 DEF At, ViewFits, x, Views, Spots
  <2>4. CASE Goes(t, p, view[t]) /\ UNCHANGED nodeVars
    BY <1>0, <1>a, <1>b, <2>2, <2>3, <2>4, Arrives DEF x
  <2>5. CASE CallFails /\ Returns(t, Error)
    BY <1>a, <2>2, <2>5, Comes, Sorts
  <2> QED BY <2>1, <2>4, <2>5
<1>8. CASE GetNumber(t)
  <2> DEFINE v == [view[t] EXCEPT !.number = height[view[t].place]]
  <2>1. /\ At(t, "number")
        /\ (Goes(t, "sender", v) /\ UNCHANGED nodeVars) \/ (CallFails /\ Returns(t, Error))
    BY <1>8 DEF GetNumber, getBlockNumberByHash, GetBlock
  <2>2. pc[t] \in TxPcs /\ op.name # "receipt" /\ UNCHANGED <<op, tx>> /\ "sender" \in Reading
    BY <1>0, <2>1 DEF At, TxPcs, WorksFor, Reading
  <2>3. view[t].place \in Blocks /\ x \in Range(body[view[t].place])
    BY <1>0, <2>1 DEF At, ViewFits, x
  <2>4. v \in Views /\ v.place = view[t].place
    BY <1>0, <2>3, HeightDef DEF Views
  <2> HIDE DEF v
  <2>5. CASE Goes(t, "sender", v) /\ UNCHANGED nodeVars
    BY <1>a, <1>b, <2>2, <2>3, <2>4, <2>5, Arrives DEF x
  <2>6. CASE CallFails /\ Returns(t, Error)
    BY <1>a, <2>2, <2>6, Comes, Sorts
  <2> QED BY <2>1, <2>5, <2>6
<1>9. CASE GetSender(t)
  <2>1. /\ At(t, "sender")
        /\ \/ Returns(t, TxAnswer(view[t], tx[t], "script")) /\ UNCHANGED nodeVars
           \/ Returns(t, TxAnswer(view[t], tx[t], "input")) /\ StoreRaw(x)
           \/ SenderFails(t) /\ (StoreRaw(x) \/ UNCHANGED nodeVars \/ CallFails)
    BY <1>9 DEF GetSender, RawCallFails, x
  <2>2. pc[t] \in TxPcs /\ UNCHANGED <<op, tx>>
    BY <2>1 DEF At, TxPcs, Reading
  <2>3. \A s \in {"script", "input"} : TxAnswer(view[t], tx[t], s) \in Results
    BY <1>0, Sorts DEF x
  <2> QED BY <1>a, <2>1, <2>2, <2>3, Comes, SenderFailsGoesOn
<1>10. CASE GetReceipt(t)
  <2> DEFINE p == GetTransactionReceipt(x)
             v == [NoView EXCEPT !.place = p, !.number = height[p], !.index = Index(x, p), !.path = "receipt"]
             e == [NoView EXCEPT !.cause = "empty"]
             f == [NoView EXCEPT !.cause = "failed"]
  <2>1. /\ At(t, "receipt")
        /\ \/ p # Unknown /\ Goes(t, "receiptRaw", v) /\ UNCHANGED nodeVars
           \/ Goes(t, "reward", e) /\ UNCHANGED nodeVars
           \/ Goes(t, "reward", f) /\ CallFails
    BY <1>10 DEF GetReceipt, x
  <2>2. /\ pc[t] \in TxPcs /\ op.name = "receipt" /\ UNCHANGED <<op, tx>>
        /\ "receiptRaw" \in Reading /\ "reward" \in Reading
    BY <1>0, <2>1 DEF At, TxPcs, WorksFor, Reading
  <2>3. p # Unknown => p \in Blocks /\ x \in Range(body[p])
    BY <1>0, NodeAnswers
  <2>4. p # Unknown => v \in Views /\ v.place = p
    <3>1. p # Unknown => height[p] \in Nat /\ Index(x, p) \in Int /\ p \in Spots
      BY <2>3, IndexIsInt, HeightDef DEF Spots
    <3> DEFINE i == Index(x, p)
               n == height[p]
    <3>2. v = [NoView EXCEPT !.place = p, !.number = n, !.index = i, !.path = "receipt"]
      OBVIOUS
    <3> HIDE DEF p, v, i, n
    <3>3. v = [place |-> p, index |-> i, number |-> n, path |-> "receipt", cause |-> "none",
               outdated |-> FALSE]
      BY <3>2 DEF NoView
    <3>4. p # Unknown => n \in Nat /\ i \in Int /\ p \in Spots
      BY <3>1 DEF i, n
    <3> QED BY <3>3, <3>4 DEF Views, Paths
  <2> HIDE DEF v, p
  <2>5. e \in Views /\ e.place = Unknown /\ f \in Views /\ f.place = Unknown
    BY Sorts DEF Views
  <2> HIDE DEF e, f
  <2>6. CASE p # Unknown /\ Goes(t, "receiptRaw", v) /\ UNCHANGED nodeVars
    BY <1>a, <2>2, <2>3, <2>4, <2>6, Arrives DEF x
  <2>7. CASE Goes(t, "reward", e) /\ UNCHANGED nodeVars
    BY <1>a, <1>b, <2>2, <2>5, <2>7, Arrives
  <2>8. CASE Goes(t, "reward", f) /\ CallFails
    BY <1>a, <1>b, <2>2, <2>5, <2>8, Arrives
  <2> QED BY <2>1, <2>6, <2>7, <2>8
<1>11. CASE GetReceiptRaw(t)
  <2>1. /\ At(t, "receiptRaw")
        /\ \/ Goes(t, "receiptDecode", view[t]) /\ StoreRaw(x)
           \/ Returns(t, Error) /\ (UNCHANGED nodeVars \/ CallFails)
    BY <1>11 DEF GetReceiptRaw, RawCallFails, x
  <2>2. pc[t] \in TxPcs /\ op.name = "receipt" /\ UNCHANGED <<op, tx>> /\ "receiptDecode" \in Reading
    BY <1>0, <2>1 DEF At, TxPcs, WorksFor, Reading
  <2>3. view[t].place \in Blocks /\ x \in Range(body[view[t].place])
    BY <1>0, <2>1 DEF At, ViewFits, x
  <2>4. CASE Goes(t, "receiptDecode", view[t]) /\ StoreRaw(x)
    BY <1>0, <1>a, <1>b, <2>2, <2>3, <2>4, Arrives DEF x
  <2>5. CASE Returns(t, Error) /\ (UNCHANGED nodeVars \/ CallFails)
    BY <1>a, <2>2, <2>5, Comes, Sorts
  <2> QED BY <2>1, <2>4, <2>5
<1>12. CASE DecodeReceipt(t)
  <2>1. /\ At(t, "receiptDecode")
        /\ \/ Returns(t, TxAnswer(view[t], tx[t], "receipt")) /\ UNCHANGED nodeVars
           \/ Returns(t, Error) /\ CallFails
    BY <1>12 DEF DecodeReceipt
  <2>2. pc[t] \in TxPcs /\ UNCHANGED <<op, tx>>
    BY <2>1 DEF At, TxPcs, Reading
  <2>3. TxAnswer(view[t], tx[t], "receipt") \in Results
    BY <1>0, Sorts DEF x
  <2> QED BY <1>a, <2>1, <2>2, <2>3, Comes, Sorts
<1> QED
  BY <1>1, <1>2, <1>3, <1>4, <1>5, <1>6, <1>7, <1>8, <1>9, <1>10, <1>11, <1>12 DEF TransactionStep
-----------------------------------------------------------------------------
(* A call                                                                    *)

\* The fields of a call are those of its name.
LEMMA OpSorts ==
  ASSUME NEW o \in Ops
  PROVE  /\ o.name = "getBlockByNumber" => o \in NumberOps
         /\ o.name = "byIndex" => IF o.asked \in BlockParams THEN o \in PositionOps ELSE o \in HashPositionOps
         /\ o.name = "getBlockByHash" => o \in HashOps
         /\ o.name = "logs" => o \in LogOps
         /\ o.name = "storage" => o \in StorageOps
         /\ o.name = "blockNumber" => o \in CountOps
         /\ o.name \in {"sign", "send"} => o \in PaymentCalls
         /\ o.name = "none" => o = NoOp
<1>1. NoOp.name = "none"
  BY DEF NoOp
<1>2. \A q \in ReadOps : q.name \in {"tx", "receipt"}
  BY DEF ReadOps
<1>3. \A q \in NumberOps : q.name = "getBlockByNumber"
  BY DEF NumberOps
<1>4. \A q \in PositionOps : q.name = "byIndex" /\ q.asked \in BlockParams
  BY DEF PositionOps
<1>5. \A q \in HashPositionOps : q.name = "byIndex" /\ q.asked \notin BlockParams
  <2>1. BlockParams \subseteq Int
    BY CallsAssumption DEF BlockParams, Latest
  <2>2. \A h \in Hashes : h \notin Int
    BY CallsAssumption
  <2>3. \A h \in Hashes : h \notin BlockParams
    BY <2>1, <2>2
  <2> QED BY <2>3 DEF HashPositionOps
<1>6. \A q \in HashOps : q.name = "getBlockByHash"
  BY DEF HashOps
<1>7. \A q \in LogOps : q.name = "logs"
  BY DEF LogOps
<1>8. \A q \in AccountOps : q.name \in {"balance", "code", "estimateGas", "call"}
  BY DEF AccountOps
<1>9. \A q \in StorageOps : q.name = "storage"
  BY DEF StorageOps
<1>10. \A q \in CountOps : q.name = "blockNumber"
  BY DEF CountOps
<1>11. \A q \in PaymentCalls : q.name \in {"sign", "send"}
  BY DEF PaymentCalls
<1>12. \A q \in RawOps : q.name \in {"sendRaw", "generate", "utxos"}
  BY DEF RawOps
<1> QED
  BY <1>1, <1>2, <1>3, <1>4, <1>5, <1>6, <1>7, <1>8, <1>9, <1>10, <1>11, <1>12 DEF Ops

\* A call keeps its name and what it was asked when a parameter is resolved.
LEMMA OpMoves ==
  ASSUME NEW o \in Ops, NEW n \in Nat
  PROVE  /\ o.name \in {"getBlockByNumber", "byIndex"} /\ o.asked \in BlockParams =>
              LET q == [o EXCEPT !.number = n] IN
              /\ q \in Ops /\ q.name = o.name /\ q.asked = o.asked /\ q.number = n
              /\ IF o.name = "byIndex" THEN q.index = o.index ELSE q.full = o.full
         /\ o.name = "logs" =>
              LET q == [o EXCEPT !["from"] = n] IN q \in Ops /\ q.name = o.name
         /\ o.name = "logs" =>
              LET q == [o EXCEPT !["to"] = n] IN q \in Ops /\ q.name = o.name
         /\ o.name = "storage" =>
              LET q == [o EXCEPT !.number = n] IN q \in Ops /\ q.name = o.name
         /\ o.name = "blockNumber" =>
              LET q == [o EXCEPT !.retries = n] IN q \in Ops /\ q.name = o.name
<1>1. ASSUME o \in NumberOps
      PROVE  LET q == [o EXCEPT !.number = n] IN
             q \in NumberOps /\ q.name = o.name /\ q.asked = o.asked /\ q.full = o.full /\ q.number = n
  BY <1>1 DEF NumberOps, Resolved
<1>2. ASSUME o \in PositionOps
      PROVE  LET q == [o EXCEPT !.number = n] IN
             q \in PositionOps /\ q.name = o.name /\ q.asked = o.asked /\ q.index = o.index /\ q.number = n
  BY <1>2 DEF PositionOps, Resolved
<1>3. ASSUME o \in LogOps
      PROVE  /\ LET q == [o EXCEPT !["from"] = n] IN q \in LogOps /\ q.name = o.name
             /\ LET q == [o EXCEPT !["to"] = n] IN q \in LogOps /\ q.name = o.name
  BY <1>3 DEF LogOps, Resolved
<1>4. ASSUME o \in StorageOps
      PROVE  LET q == [o EXCEPT !.number = n] IN q \in StorageOps /\ q.name = o.name
  BY <1>4 DEF StorageOps, Resolved
<1>5. ASSUME o \in CountOps
      PROVE  LET q == [o EXCEPT !.retries = n] IN q \in CountOps /\ q.name = o.name
  BY <1>5 DEF CountOps
<1> QED BY <1>1, <1>2, <1>3, <1>4, <1>5, OpSorts DEF Ops

\* A thread on which nothing changes still works for the call.
LEMMA Frame ==
  ASSUME NEW u \in Threads, WorksFor(u), ViewFits(u), op' = op, pc'[u] = pc[u], view'[u] = view[u],
         tx'[u] = tx[u], block'[u] = block[u]
  PROVE  WorksFor(u)' /\ ViewFits(u)'
BY DEF WorksFor, ViewFits, IsByHash, Full

\* While a thread works there is a call, and no answer yet.
LEMMA Working ==
  ASSUME TypeOK, Control, NEW t \in Threads, pc[t] # "idle"
  PROVE  /\ op # NoOp /\ reply = NoReplyYet /\ WorksFor(t) /\ ViewFits(t)
         /\ ~IsByHash => t = "main" /\ pc["backup"] = "idle" /\ waiter = "none"
BY DEF Control, AtRest, Replied, Threads, WorksFor

LEMMA TransactionKeeps ==
  ASSUME TypeOK, Control, NEW t \in Threads, TransactionStep(t), UNCHANGED <<blockVars, reply, coins>>
  PROVE  (TypeOK /\ Control)'
<1>1. TxGoesOn(t)
  BY TransactionGoesOn
<1>2. pc[t] # "idle" /\ pc[t] \in TxPcs
  BY <1>1 DEF TxGoesOn, TxPcs, Reading
<1>3. op # NoOp /\ reply = NoReplyYet /\ WorksFor(t)
  BY <1>2, Working
<1>4. TypeOK'
  BY <1>1, NodeAssumption DEF TxGoesOn, NodeGoesOn, StepTypes, TypeOK, Results, blockVars
<1>5. AtRest' /\ Replied' /\ CacheWasTrue'
  BY <1>1, <1>3 DEF AtRest, Replied, TxGoesOn, NodeGoesOn
<1>6. WorksFor(t)' /\ ViewFits(t)'
  <2>1. /\ op' = op /\ block' = block /\ pc'[t] \in Reading \cup {"returned"}
        /\ pc'[t] \in {"receiptRaw", "receiptDecode"} => op.name = "receipt"
        /\ pc'[t] \in {"raw", "decode", "number", "sender"} => op.name # "receipt"
        /\ ViewFits(t)'
    BY <1>1 DEF TxGoesOn, blockVars
  <2>2. WorksFor(t)'
    BY <1>2, <1>3, <2>1 DEF WorksFor, Serves, Reading, TxPcs, IsByHash, Full, BlockOps
  <2> QED BY <2>1, <2>2
<1>7. ASSUME NEW u \in Threads, u # t PROVE WorksFor(u)' /\ ViewFits(u)'
  BY <1>1, <1>7, Frame DEF TxGoesOn, Others, blockVars, Control
<1>8. (waiter # "none" => IsByHash)'
  BY <1>1 DEF TxGoesOn, blockVars, Control, IsByHash
<1> QED BY <1>4, <1>5, <1>6, <1>7, <1>8 DEF Control
-----------------------------------------------------------------------------
(* The steps of a block                                                      *)

\* There is exactly one block, of the active branch, for every height up to
\* that of the tip.
LEMMA BlockAt ==
  ASSUME NEW n, tip \in Blocks
  PROVE  IF n \in 0..height[tip]
         THEN GetBlockHash(n) \in branch[tip] /\ GetBlockHash(n) \in Blocks /\ height[GetBlockHash(n)] = n
         ELSE GetBlockHash(n) = Unknown
<1>1. n \in 0..height[tip] => \E b \in branch[tip] : height[b] = n
  BY Heights
<1>2. branch[tip] \subseteq Blocks
  BY BranchDef
<1> QED BY <1>1, <1>2 DEF GetBlockHash

Answered == {Null, Error} \cup BlockAnswers

\* An index that is an int is itself, and any other negative.
LEMMA IntOf ==
  ASSUME NEW i \in Indexes
  PROVE  i \in Nat /\ IF i <= MaxInt THEN Int64(i) = i ELSE Int64(i) \in Int /\ Int64(i) < 0
<1>1. MaxInt \in Nat /\ i \in 0..(2 * MaxInt + 1)
  BY BlocksAssumption, CallsAssumption DEF Uint64s
<1> QED BY <1>1 DEF Int64

\* The element at an index is one of the block, nothing, or a panic when the
\* index is no int.
LEMMA Indexed ==
  ASSUME TypeOK, op.name = "byIndex", NEW r \in Answered
  PROVE  /\ op.index \in Nat
         /\ \/ r.kind # "block" /\ AtIndex(r) = r
            \/ AtIndex(r) = Null
            \/ AtIndex(r) = [kind |-> "panic"] /\ op.index > MaxInt
            \/ r.kind = "block" /\ op.index < Len(r.txs) /\ AtIndex(r) = r.txs[op.index + 1]
<1>1. op.index \in Indexes
  BY OpSorts DEF TypeOK, PositionOps, HashPositionOps
<1>2. r.kind = "block" => Len(r.txs) \in Nat
  BY DEF Answered, BlockAnswers, Null, Error
<1>3. MaxInt \in Nat
  BY BlocksAssumption
<1> DEFINE i == op.index
           j == Int64(i)
<1>4. i \in Nat /\ IF i <= MaxInt THEN j = i ELSE j \in Int /\ j < 0
  BY <1>1, IntOf
<1>5. AtIndex(r) = IF r.kind # "block" THEN r
                   ELSE IF Len(r.txs) <= j THEN Null
                   ELSE IF j < 0 THEN [kind |-> "panic"] ELSE r.txs[j + 1]
  BY DEF AtIndex
<1> HIDE DEF i, j
<1>6. CASE i <= MaxInt
  BY <1>2, <1>3, <1>4, <1>5, <1>6 DEF i
<1>7. CASE ~(i <= MaxInt)
  BY <1>2, <1>3, <1>4, <1>5, <1>7 DEF i
<1> QED BY <1>6, <1>7

\* What sending or answering does to the channels and to the other variables.
LEMMA Sends ==
  ASSUME TypeOK, NEW t \in Threads, NEW r \in Answered, Done(t, r)
  PROVE  /\ pc' = [pc EXCEPT ![t] = "idle"] /\ view' = view /\ result' = result /\ waiter' = waiter
         /\ block' = [block EXCEPT ![t] = NoBlock]
         /\ chans' \in [result : Seq({Null} \cup BlockAnswers), error : BOOLEAN, backupError : BOOLEAN]
         /\ IF IsByHash THEN reply' = reply
            ELSE chans' = chans /\ reply' = IF op.name = "byIndex" THEN AtIndex(r) ELSE r
         /\ IsByHash =>
              IF r.kind # "error"
              THEN /\ chans'.result = Append(chans.result, r)
                   /\ chans'.error = chans.error /\ chans'.backupError = chans.backupError
              ELSE /\ chans'.result = chans.result
                   /\ chans'.error = (chans.error \/ t = "main")
                   /\ chans'.backupError = (chans.backupError \/ t = "backup")
<1>1. r.kind # "error" => r \in {Null} \cup BlockAnswers
  BY DEF Answered, Error
<1>2. chans.result \in Seq({Null} \cup BlockAnswers) /\ chans.error \in BOOLEAN /\ chans.backupError \in BOOLEAN
      /\ chans \in [result : Seq({Null} \cup BlockAnswers), error : BOOLEAN, backupError : BOOLEAN]
  BY DEF TypeOK
<1>3. r.kind # "error" => Append(chans.result, r) \in Seq({Null} \cup BlockAnswers)
  BY <1>1, <1>2
<1> HIDE DEF Answered, TypeOK
<1>4. /\ pc' = [pc EXCEPT ![t] = "idle"] /\ view' = view /\ result' = result /\ waiter' = waiter
      /\ block' = [block EXCEPT ![t] = NoBlock]
      /\ IF IsByHash THEN reply' = reply
         ELSE chans' = chans /\ reply' = IF op.name = "byIndex" THEN AtIndex(r) ELSE r
      /\ IsByHash =>
           chans' = IF r.kind # "error" THEN [chans EXCEPT !.result = Append(chans.result, r)]
                    ELSE IF t = "main" THEN [chans EXCEPT !.error = TRUE]
                    ELSE [chans EXCEPT !.backupError = TRUE]
  BY DEF Done, Idle, GoTo, Replies, NoReply
<1>5. CASE ~IsByHash
  BY <1>2, <1>4, <1>5
<1>6. CASE IsByHash /\ r.kind # "error"
  BY <1>2, <1>3, <1>4, <1>6
<1>7. CASE IsByHash /\ r.kind = "error" /\ t = "main"
  BY <1>2, <1>4, <1>7
<1>8. CASE IsByHash /\ r.kind = "error" /\ t = "backup"
  BY <1>2, <1>4, <1>8
<1> QED BY <1>5, <1>6, <1>7, <1>8 DEF Threads

\* The header is read, the block is next.
Opens(t) ==
    /\ pc[t] = "header" /\ block[t].hash \in Blocks /\ op.name \in BlockOps
    /\ pc' = [pc EXCEPT ![t] = "block"]
    /\ UNCHANGED <<op, tx, nodeVars, view, result, blockVars, reply>>

\* The thread is done with its block.
Gives(t, r) ==
    /\ Done(t, r) /\ pc[t] \in {"header", "block", "returned"} /\ op.name \in BlockOps
    /\ UNCHANGED <<op, tx>>
    /\ UNCHANGED nodeVars \/ CallFails

\* The next transaction of b is read.
Takes(t, b) ==
    /\ pc[t] \in {"block", "returned"} /\ op.name \in BlockOps /\ Full
    /\ b.rest # <<>> /\ b.hash = block[t].hash
    /\ block' = [block EXCEPT ![t] = [b EXCEPT !.rest = Tail(b.rest)]]
    /\ tx' = [tx EXCEPT ![t] = Head(b.rest)]
    /\ pc' = [pc EXCEPT ![t] = "gettransaction"]
    /\ UNCHANGED <<op, nodeVars, view, result, chans, waiter, reply>>

\* What the thread has of its block when it looks for the next transaction.
Gains(t, b) ==
    /\ b.hash = block[t].hash /\ b.hash \in Blocks /\ Full
    /\ \/ pc[t] = "block" /\ b.rest = body[b.hash] /\ b.txs = block[t].txs
       \/ /\ pc[t] = "returned" /\ b.rest = block[t].rest
          /\ \/ /\ result[t].kind = "tx" /\ result[t] \in Translated
                /\ b.txs = Append(block[t].txs, result[t])
             \/ SkipsTx(t) /\ b.txs = block[t].txs

\* What a thread may be done with.
Earned(t, r) ==
    \/ r = Error
    \/ r = Null /\ pc[t] = "header" /\ block[t].hash \notin Blocks /\ ~Prefixed
    \/ /\ ~Full /\ pc[t] = "block" /\ block[t].hash \in Blocks
       /\ r = [kind |-> "block", hash |-> block[t].hash, number |-> height[block[t].hash],
               txs |-> body[block[t].hash]]
    \/ \E b \in PartialBlocks : Gains(t, b) /\ b.rest = <<>> /\ r = BlockAnswer(b)

\* Every step about a block is one of these.
BlockCase(t) ==
    \/ GetLatest(t) \/ GetHash(t) \/ Opens(t)
    \/ \E r \in Answered : Gives(t, r) /\ Earned(t, r)
    \/ \E b \in PartialBlocks : Takes(t, b) /\ Gains(t, b)

LEMMA BlockCases ==
  ASSUME TypeOK, Control, NEW t \in Threads, BlockStep(t)
  PROVE  BlockCase(t)
<1>1. /\ pc[t] # "idle" => WorksFor(t)
      /\ block[t] \in PartialBlocks /\ result[t] \in Results
      /\ Null \in Answered /\ Error \in Answered
  BY Working DEF TypeOK, Results, Answered
<1>2. ASSUME NEW b \in PartialBlocks, Gains(t, b), NextTx(t, b), UNCHANGED <<op, nodeVars>>,
             op.name \in BlockOps, pc[t] \in {"block", "returned"}
      PROVE  BlockCase(t)
  <2>1. CASE b.rest = <<>>
    <3>1. BlockAnswer(b) \in Answered
      BY <1>2, HeightDef DEF Gains, BlockAnswer, Answered, BlockAnswers, PartialBlocks
    <3>2. Gives(t, BlockAnswer(b))
      BY <1>2, <2>1 DEF NextTx, Gives
    <3>3. Earned(t, BlockAnswer(b))
      BY <1>2, <2>1 DEF Earned
    <3> QED BY <3>1, <3>2, <3>3 DEF BlockCase
  <2>2. CASE b.rest # <<>>
    <3>1. Takes(t, b)
      BY <1>2, <2>2 DEF NextTx, Takes, Gains, GoTo, NoReply
    <3> QED BY <1>2, <3>1 DEF BlockCase
  <2> QED BY <2>1, <2>2
<1>3. CASE GetHeader(t)
  <2>1. pc[t] = "header" /\ op.name \in BlockOps /\ UNCHANGED <<op, tx>>
    BY <1>1, <1>3 DEF GetHeader, At, WorksFor
  <2>2. CASE GoTo(t, "block") /\ block[t].hash \in Blocks /\ NoReply /\ UNCHANGED <<nodeVars, view, result, blockVars>>
    BY <2>1, <2>2 DEF BlockCase, Opens, GoTo, NoReply
  <2>3. CASE Done(t, Null) /\ ~Prefixed /\ block[t].hash \notin Blocks /\ UNCHANGED nodeVars
    <3>1. Gives(t, Null) /\ Earned(t, Null)
      BY <2>1, <2>3 DEF Gives, Earned
    <3> QED BY <1>1, <3>1 DEF BlockCase
  <2>4. CASE Done(t, Error) /\ (UNCHANGED nodeVars \/ CallFails)
    <3>1. Gives(t, Error) /\ Earned(t, Error)
      BY <2>1, <2>4 DEF Gives, Earned
    <3> QED BY <1>1, <3>1 DEF BlockCase
  <2> QED BY <1>3, <2>2, <2>3, <2>4, NodeAssumption DEF GetHeader, GetBlockHeader
<1>4. CASE GetBody(t)
  <2> DEFINE txs == body[block[t].hash]
             b == [block[t] EXCEPT !.rest = txs]
             c == [block[t] EXCEPT !.txs = txs]
  <2>1. pc[t] = "block" /\ op.name \in BlockOps /\ UNCHANGED op /\ block[t].hash \in Blocks
    BY <1>1, <1>4 DEF GetBody, WorksFor
  <2>2. txs \in Seq(Txs)
    BY <2>1, Bodies
  <2>3. \/ Full /\ NextTx(t, b) /\ UNCHANGED nodeVars
        \/ ~Full /\ Done(t, BlockAnswer(c)) /\ UNCHANGED <<nodeVars, tx>>
        \/ CallFails /\ Done(t, Error) /\ UNCHANGED tx
    BY <1>4 DEF GetBody, GetBlock
  <2>4. /\ b \in PartialBlocks /\ b.hash = block[t].hash /\ b.rest = txs /\ b.txs = block[t].txs
        /\ c.hash = block[t].hash /\ c.txs = txs
    BY <1>1, <2>2 DEF PartialBlocks
  <2> HIDE DEF b, c
  <2>5. CASE Full /\ NextTx(t, b) /\ UNCHANGED nodeVars
    <3>1. Gains(t, b)
      BY <2>1, <2>4, <2>5 DEF Gains
    <3> QED BY <1>2, <2>1, <2>4, <2>5, <3>1
  <2>6. CASE ~Full /\ Done(t, BlockAnswer(c)) /\ UNCHANGED <<nodeVars, tx>>
    <3>1. BlockAnswer(c) = [kind |-> "block", hash |-> block[t].hash, number |-> height[block[t].hash],
                            txs |-> txs]
      BY <2>4 DEF BlockAnswer
    <3>2. BlockAnswer(c) \in Answered
      BY <2>1, <2>2, <3>1, HeightDef DEF Answered, BlockAnswers
    <3>3. Gives(t, BlockAnswer(c)) /\ Earned(t, BlockAnswer(c))
      BY <2>1, <2>6, <3>1 DEF Gives, Earned
    <3> QED BY <3>2, <3>3 DEF BlockCase
  <2>7. CASE CallFails /\ Done(t, Error) /\ UNCHANGED tx
    <3>1. Gives(t, Error) /\ Earned(t, Error)
      BY <2>1, <2>7 DEF Gives, Earned
    <3> QED BY <1>1, <3>1 DEF BlockCase
  <2> QED BY <2>3, <2>5, <2>6, <2>7
<1>5. CASE AddTransaction(t)
  <2> DEFINE more == Append(block[t].txs, result[t])
             b == [block[t] EXCEPT !.txs = more]
  <2>1. /\ pc[t] = "returned" /\ op.name \in BlockOps /\ Full /\ UNCHANGED <<op, nodeVars>>
        /\ block[t].hash \in Blocks
    BY <1>1, <1>5 DEF AddTransaction, WorksFor, TxPcs
  <2>2. \/ result[t].kind = "tx" /\ NextTx(t, b)
        \/ SkipsTx(t) /\ NextTx(t, block[t])
        \/ Done(t, Error) /\ UNCHANGED tx
    BY <1>5 DEF AddTransaction
  <2> HIDE DEF b
  <2>3. CASE result[t].kind = "tx" /\ NextTx(t, b)
    <3>1. result[t] \in Translated
      BY <1>1, <2>3, Sorts DEF Results
    <3>2. more \in Seq(Translated)
      BY <1>1, <3>1 DEF PartialBlocks
    <3> HIDE DEF more
    <3>3. b \in PartialBlocks /\ b.hash = block[t].hash /\ b.rest = block[t].rest /\ b.txs = more
      BY <1>1, <3>2 DEF PartialBlocks, b
    <3>4. Gains(t, b)
      BY <2>1, <2>3, <3>1, <3>3 DEF Gains, more
    <3> QED BY <1>2, <2>1, <2>3, <3>3, <3>4
  <2>4. CASE SkipsTx(t) /\ NextTx(t, block[t])
    <3>1. Gains(t, block[t])
      BY <2>1, <2>4 DEF Gains
    <3> QED BY <1>1, <1>2, <2>1, <2>4, <3>1
  <2>5. CASE Done(t, Error) /\ UNCHANGED tx
    <3>1. Gives(t, Error) /\ Earned(t, Error)
      BY <2>1, <2>5 DEF Gives, Earned
    <3> QED BY <1>1, <3>1 DEF BlockCase
  <2> QED BY <2>2, <2>3, <2>4, <2>5
<1> QED BY <1>3, <1>4, <1>5 DEF BlockStep, BlockCase

LEMMA GivesKeeps ==
  ASSUME TypeOK, Control, NEW t \in Threads, NEW r \in Answered, Gives(t, r), UNCHANGED coins
  PROVE  (TypeOK /\ Control)'
<1>1. /\ pc' = [pc EXCEPT ![t] = "idle"] /\ view' = view /\ result' = result /\ waiter' = waiter
      /\ block' = [block EXCEPT ![t] = NoBlock]
      /\ chans' \in [result : Seq({Null} \cup BlockAnswers), error : BOOLEAN, backupError : BOOLEAN]
      /\ IsByHash => reply' = reply
  BY Sends DEF Gives
<1>2. /\ op # NoOp /\ reply = NoReplyYet /\ WorksFor(t) /\ ViewFits(t)
      /\ ~IsByHash => t = "main" /\ pc["backup"] = "idle" /\ waiter = "none"
  BY Working DEF Gives
<1>a. NodeGoesOn /\ UNCHANGED <<op, tx>> /\ pc[t] \in {"header", "block", "returned"} /\ op.name \in BlockOps
  BY NodeSteps DEF Gives, Control
<1>3. view[t] = NoView
  BY <1>a, <1>2 DEF ViewFits, Reading
<1>4. TypeOK'
  <2>1. NoBlock \in PartialBlocks /\ "idle" \in Pcs
    BY DEF NoBlock, PartialBlocks, Hashes, Pcs
  <2> QED BY <1>a, <1>1, <2>1, NodeAssumption DEF TypeOK, NodeGoesOn
<1>5. AtRest' /\ CacheWasTrue'
  BY <1>a, <1>2 DEF AtRest, NodeGoesOn
<1>6. Replied'
  BY <1>1, <1>2 DEF Replied, Threads, TypeOK
<1>7. WorksFor(t)' /\ ViewFits(t)'
  <2>1. pc'[t] = "idle" /\ op' = op /\ view'[t] = NoView
    BY <1>a, <1>1, <1>3 DEF TypeOK
  <2>2. NoView.place \notin Blocks
    BY Sorts, NodeAssumption
  <2> QED BY <2>1, <2>2 DEF WorksFor, Serves, ViewFits, TxPcs, Reading, IsByHash
<1>8. ASSUME NEW u \in Threads, u # t PROVE WorksFor(u)' /\ ViewFits(u)'
  BY <1>a, <1>1, <1>8, Frame DEF TypeOK, Control
<1>9. (waiter # "none" => IsByHash)'
  BY <1>a, <1>1 DEF Control, IsByHash
<1> QED BY <1>4, <1>5, <1>6, <1>7, <1>8, <1>9 DEF Control

LEMMA TakesKeeps ==
  ASSUME TypeOK, Control, NEW t \in Threads, NEW b \in PartialBlocks, Takes(t, b), UNCHANGED coins
  PROVE  (TypeOK /\ Control)'
<1>1. /\ block' = [block EXCEPT ![t] = [b EXCEPT !.rest = Tail(b.rest)]]
      /\ tx' = [tx EXCEPT ![t] = Head(b.rest)]
      /\ pc' = [pc EXCEPT ![t] = "gettransaction"]
      /\ UNCHANGED <<op, nodeVars, view, result, chans, waiter, reply, coins>>
      /\ pc[t] \in {"block", "returned"} /\ op.name \in BlockOps /\ Full
      /\ b.rest # <<>> /\ b.hash = block[t].hash
  BY DEF Takes
<1>2. /\ op # NoOp /\ reply = NoReplyYet /\ WorksFor(t) /\ ViewFits(t)
      /\ ~IsByHash => t = "main" /\ pc["backup"] = "idle" /\ waiter = "none"
  BY <1>1, Working
<1>3. [b EXCEPT !.rest = Tail(b.rest)] \in PartialBlocks
      /\ [b EXCEPT !.rest = Tail(b.rest)].hash = b.hash
      /\ Head(b.rest) \in Txs
  <2>1. b.rest \in Seq(Txs)
    BY DEF PartialBlocks
  <2>2. Tail(b.rest) \in Seq(Txs) /\ Head(b.rest) \in Txs
    BY <1>1, <2>1
  <2> QED BY <2>2 DEF PartialBlocks
<1>4. view[t] = NoView /\ b.hash \in Blocks
  BY <1>1, <1>2 DEF ViewFits, Reading, WorksFor, TxPcs
<1>5. NodeGoesOn
  BY <1>1, NodeSteps DEF Control
<1>6. TypeOK'
  BY <1>1, <1>3, <1>5, NodeAssumption DEF TypeOK, NodeGoesOn, Pcs
<1>7. AtRest' /\ CacheWasTrue' /\ Replied'
  BY <1>1, <1>2, <1>5 DEF AtRest, Replied, NodeGoesOn
<1>8. WorksFor(t)' /\ ViewFits(t)'
  <2>1. pc'[t] = "gettransaction" /\ op' = op /\ view'[t] = NoView /\ block'[t].hash \in Blocks
    BY <1>1, <1>3, <1>4 DEF TypeOK
  <2>2. NoView.place \notin Blocks
    BY Sorts, NodeAssumption
  <2>3. WorksFor(t)'
    BY <1>1, <1>2, <2>1 DEF WorksFor, Serves, TxPcs, Reading, IsByHash, BlockOps, Full
  <2>4. ViewFits(t)'
    BY <2>1, <2>2 DEF ViewFits, Reading
  <2> QED BY <2>3, <2>4
<1>9. ASSUME NEW u \in Threads, u # t PROVE WorksFor(u)' /\ ViewFits(u)'
  BY <1>1, <1>9, Frame DEF TypeOK, Control
<1>10. (waiter # "none" => IsByHash)'
  BY <1>1 DEF Control, IsByHash
<1> QED BY <1>6, <1>7, <1>8, <1>9, <1>10 DEF Control

LEMMA BlockKeeps ==
  ASSUME TypeOK, Control, NEW t \in Threads, BlockStep(t), UNCHANGED coins
  PROVE  (TypeOK /\ Control)'
<1>1. tip \in Blocks /\ height[tip] \in Nat /\ block[t] \in PartialBlocks /\ op \in Ops /\ CacheWasTrue
  BY HeightDef DEF TypeOK, Control
<1>2. pc[t] # "idle" => /\ op # NoOp /\ reply = NoReplyYet /\ WorksFor(t) /\ ViewFits(t)
                        /\ ~IsByHash => t = "main" /\ pc["backup"] = "idle" /\ waiter = "none"
  BY Working
<1>3. UNCHANGED nodeVars \/ CallFails => NodeGoesOn
  BY <1>1, NodeSteps
<1>4. NoView.place \notin Blocks
  BY Sorts, NodeAssumption
<1>7. CASE GetLatest(t)
  <2>1. /\ pc[t] = "latest" /\ op.name \in {"getBlockByNumber", "byIndex"} /\ op.asked \in BlockParams
        /\ ~IsByHash /\ t = "main" /\ view[t] = NoView
    BY <1>2, <1>7 DEF GetLatest, WorksFor, IsByHash, ViewFits, Reading
  <2>2. CASE /\ op' = [op EXCEPT !.number = height[tip]] /\ pc' = [pc EXCEPT ![t] = "hash"]
             /\ UNCHANGED <<tx, view, result, blockVars, reply, nodeVars>>
    <3>1. op' \in Ops /\ op'.name = op.name /\ op'.asked = op.asked
      BY <1>1, <2>1, <2>2, OpMoves
    <3>2. TypeOK'
      BY <1>3, <2>2, <3>1, NodeAssumption DEF TypeOK, NodeGoesOn, blockVars, Pcs
    <3>3. AtRest' /\ CacheWasTrue' /\ Replied'
      BY <1>2, <1>3, <2>1, <2>2, <3>1 DEF AtRest, Replied, NodeGoesOn, NoOp
    <3>4. pc'["main"] = "hash" /\ pc'["backup"] = "idle" /\ ~IsByHash'
      BY <1>2, <2>1, <2>2, <3>1 DEF TypeOK, Threads, IsByHash
    <3>5. WorksFor("main")' /\ WorksFor("backup")'
      BY <2>1, <3>1, <3>4 DEF WorksFor, Serves, TxPcs, Reading, IsByHash
    <3>6. \A u \in Threads : ViewFits(u)'
      BY <2>1, <2>2, <3>4 DEF ViewFits, Control, Reading, Threads
    <3>7. waiter' = "none"
      BY <1>2, <2>1, <2>2 DEF blockVars
    <3> QED BY <3>2, <3>3, <3>5, <3>6, <3>7 DEF Control, Threads
  <2>3. CASE CallFails /\ pc' = [pc EXCEPT ![t] = "idle"] /\ UNCHANGED <<op, tx, view, result, blockVars>>
    <3>1. TypeOK'
      BY <1>3, <2>3, NodeAssumption DEF TypeOK, NodeGoesOn, blockVars, Pcs
    <3>2. pc'["main"] = "idle" /\ pc'["backup"] = "idle" /\ ~IsByHash' /\ waiter' = "none"
      BY <1>2, <2>1, <2>3 DEF TypeOK, Threads, IsByHash, blockVars
    <3>3. AtRest' /\ CacheWasTrue' /\ Replied'
      BY <1>2, <1>3, <2>1, <2>3, <3>2 DEF AtRest, Replied, NodeGoesOn, Threads
    <3>4. \A u \in Threads : WorksFor(u)' /\ ViewFits(u)'
      BY <2>1, <2>3, <3>2 DEF ViewFits, Control, Reading, Threads, WorksFor, TxPcs
    <3> QED BY <3>1, <3>2, <3>3, <3>4 DEF Control
  <2> QED BY <1>7, <2>2, <2>3 DEF GetLatest, GoTo, NoReply, GetBlockChainInfo
<1>8. CASE GetHash(t)
  <2> DEFINE h == GetBlockHash(op.number)
  <2>1. /\ pc[t] = "hash" /\ op.name \in {"getBlockByNumber", "byIndex"} /\ op.asked \in BlockParams
        /\ ~IsByHash /\ t = "main" /\ view[t] = NoView
    BY <1>2, <1>8 DEF GetHash, At, WorksFor, IsByHash, ViewFits, Reading
  <2>2. h \in Blocks \cup {Unknown}
    BY <1>1, BlockAt
  <2> HIDE DEF h
  <2>3. CASE /\ h # Unknown /\ block' = [block EXCEPT ![t].hash = h] /\ pc' = [pc EXCEPT ![t] = "header"]
             /\ UNCHANGED <<op, tx, view, result, chans, waiter, reply, nodeVars>>
    <3>1. block' \in [Threads -> PartialBlocks]
      <4>1. [block[t] EXCEPT !.hash = h] \in PartialBlocks
        BY <1>1, <2>2 DEF PartialBlocks, Hashes
      <4> QED BY <2>3, <4>1 DEF TypeOK
    <3>2. TypeOK'
      BY <1>3, <2>3, <3>1, NodeAssumption DEF TypeOK, NodeGoesOn, Pcs
    <3>3. AtRest' /\ CacheWasTrue' /\ Replied'
      BY <1>2, <1>3, <2>1, <2>3 DEF AtRest, Replied, NodeGoesOn, NoOp
    <3>4. pc'["main"] = "header" /\ pc'["backup"] = "idle" /\ ~IsByHash'
      BY <1>2, <2>1, <2>3 DEF TypeOK, Threads, IsByHash
    <3>5. WorksFor("main")' /\ WorksFor("backup")'
      BY <2>1, <2>3, <3>4 DEF WorksFor, Serves, TxPcs, Reading, IsByHash, BlockOps
    <3>6. \A u \in Threads : ViewFits(u)'
      BY <2>1, <2>3, <3>4 DEF ViewFits, Control, Reading, Threads
    <3>7. waiter' = "none"
      BY <1>2, <2>1, <2>3
    <3> QED BY <3>2, <3>3, <3>5, <3>6, <3>7 DEF Control, Threads
  <2>4. CASE /\ (UNCHANGED nodeVars \/ CallFails) /\ pc' = [pc EXCEPT ![t] = "idle"]
             /\ UNCHANGED <<op, tx, view, result, blockVars>>
    <3>1. TypeOK'
      BY <1>3, <2>4, NodeAssumption DEF TypeOK, NodeGoesOn, blockVars, Pcs
    <3>2. pc'["main"] = "idle" /\ pc'["backup"] = "idle" /\ ~IsByHash' /\ waiter' = "none"
      BY <1>2, <2>1, <2>4 DEF TypeOK, Threads, IsByHash, blockVars
    <3>3. AtRest' /\ CacheWasTrue' /\ Replied'
      BY <1>2, <1>3, <2>1, <2>4, <3>2 DEF AtRest, Replied, NodeGoesOn, Threads
    <3>4. \A u \in Threads : WorksFor(u)' /\ ViewFits(u)'
      BY <2>1, <2>4, <3>2 DEF ViewFits, Control, Reading, Threads, WorksFor, TxPcs
    <3> QED BY <3>1, <3>2, <3>3, <3>4 DEF Control
  <2> QED BY <1>8, <2>3, <2>4 DEF GetHash, At, GoTo, NoReply, h, blockVars
<1>9. CASE Opens(t)
  <2>1. /\ pc[t] = "header" /\ op.name \in BlockOps /\ view[t] = NoView /\ block[t].hash \in Blocks
        /\ pc' = [pc EXCEPT ![t] = "block"]
        /\ UNCHANGED <<op, tx, nodeVars, view, result, blockVars, reply>>
    BY <1>2, <1>9 DEF Opens, ViewFits, Reading
  <2>2. TypeOK'
    BY <1>3, <2>1, NodeAssumption DEF TypeOK, NodeGoesOn, blockVars, Pcs
  <2>3. AtRest' /\ CacheWasTrue' /\ Replied'
    BY <1>2, <1>3, <2>1 DEF AtRest, Replied, NodeGoesOn, NoOp
  <2>4. pc'[t] = "block"
    BY <2>1 DEF TypeOK
  <2>5. WorksFor(t)'
    BY <1>2, <2>1, <2>4 DEF WorksFor, Serves, TxPcs, Reading, IsByHash, blockVars, BlockOps, Full
  <2>6. ViewFits(t)'
    BY <1>4, <2>1, <2>4 DEF ViewFits, Reading
  <2>7. ASSUME NEW u \in Threads, u # t PROVE WorksFor(u)' /\ ViewFits(u)'
    BY <2>1, <2>7, Frame DEF TypeOK, Control, blockVars
  <2>8. (waiter # "none" => IsByHash)'
    BY <2>1 DEF Control, IsByHash, blockVars
  <2> QED BY <2>2, <2>3, <2>5, <2>6, <2>7, <2>8 DEF Control
<1> QED BY <1>7, <1>8, <1>9, BlockCases, GivesKeeps, TakesKeeps DEF BlockCase

LEMMA LookUpKeeps ==
  ASSUME TypeOK, Control, LookUp, UNCHANGED coins
  PROVE  (TypeOK /\ Control)'
<1>1. pc["backup"] = "lookup" /\ UNCHANGED <<op, tx, reply, view, result, waiter>> /\ "backup" \in Threads
  BY DEF LookUp, At, NoReply, Threads
<1>2. op # NoOp /\ reply = NoReplyYet /\ IsByHash /\ view["backup"] = NoView
  BY <1>1, Working DEF WorksFor, ViewFits, Reading
<1>3. CacheWasTrue /\ \A u \in Threads : WorksFor(u) /\ ViewFits(u)
  BY DEF Control
<1>4. UNCHANGED nodeVars => NodeGoesOn
  BY <1>3, NodeSteps
<1>5. NoView.place \notin Blocks
  BY Sorts, NodeAssumption
<1>6. UNCHANGED nodeVars
  BY DEF LookUp
<1>7. AtRest' /\ CacheWasTrue' /\ Replied'
  BY <1>1, <1>2, <1>4, <1>6 DEF AtRest, Replied, NodeGoesOn
<1>8. IsByHash' /\ ViewFits("main")' /\ WorksFor("main")'
      /\ pc'["backup"] \in {"header", "idle"}
  <2>1. pc'["main"] = pc["main"] /\ block'["main"] = block["main"] /\ pc'["backup"] \in {"header", "idle"}
        /\ "main" \in Threads
    BY DEF LookUp, GoTo, TypeOK, Threads
  <2>2. ViewFits("main")' /\ WorksFor("main")'
    BY <1>1, <1>3, <2>1, Frame
  <2> QED BY <1>1, <1>2, <2>1, <2>2 DEF IsByHash
<1>9. ViewFits("backup")' /\ WorksFor("backup")'
  BY <1>1, <1>2, <1>5, <1>8 DEF ViewFits, WorksFor, Serves, TxPcs, Reading, BlockOps, IsByHash
<1>10. TypeOK'
  <2>1. CASE /\ pc' = [pc EXCEPT !["backup"] = "header"] /\ UNCHANGED chans
             /\ \E h \in Hashes : block' = [block EXCEPT !["backup"].hash = h]
    <3>1. block' \in [Threads -> PartialBlocks]
      <4>1. PICK h \in Hashes : block' = [block EXCEPT !["backup"].hash = h]
        BY <2>1
      <4>2. [block["backup"] EXCEPT !.hash = h] \in PartialBlocks
        BY <1>1 DEF PartialBlocks, TypeOK
      <4> QED BY <4>1, <4>2 DEF TypeOK
    <3> QED BY <1>1, <1>4, <1>6, <2>1, <3>1, NodeAssumption DEF TypeOK, NodeGoesOn, Pcs
  <2>2. CASE /\ pc' = [pc EXCEPT !["backup"] = "idle"] /\ UNCHANGED block
             /\ chans' = [chans EXCEPT !.backupError = TRUE]
    <3>1. chans' \in [result : Seq({Null} \cup BlockAnswers), error : BOOLEAN, backupError : BOOLEAN]
      BY <2>2 DEF TypeOK
    <3> QED BY <1>1, <1>4, <1>6, <2>2, <3>1, NodeAssumption DEF TypeOK, NodeGoesOn, Pcs
  <2> QED BY <2>1, <2>2 DEF LookUp, GoTo, Hashes
<1> QED BY <1>7, <1>8, <1>9, <1>10 DEF Control, Threads

LEMMA ReceiveKeeps ==
  ASSUME TypeOK, Control, Receive, UNCHANGED coins
  PROVE  (TypeOK /\ Control)'
<1>1. UNCHANGED nodeVars /\ UNCHANGED <<op, tx>> /\ waiter # "none"
  BY DEF Receive, ReceiveFirst, ReceiveError, ReceiveSecond
<1>2. IsByHash /\ op # NoOp /\ CacheWasTrue
  BY <1>1 DEF Control, AtRest
<1>3. NodeGoesOn
  BY <1>1, <1>2, NodeSteps
<1>4. NoView.place \notin Blocks
  BY Sorts, NodeAssumption
<1>5. AtRest' /\ CacheWasTrue' /\ IsByHash'
  BY <1>1, <1>2, <1>3 DEF AtRest, NodeGoesOn, IsByHash
<1>6. ASSUME NEW r, Answers(r) PROVE (TypeOK /\ Control)'
  <2>1. NoView \in Views /\ NoResult \in Results /\ NoBlock \in PartialBlocks /\ "idle" \in Pcs
        /\ chans' \in [result : Seq({Null} \cup BlockAnswers), error : BOOLEAN, backupError : BOOLEAN]
    BY <1>6, Sorts DEF NoBlock, PartialBlocks, Hashes, Pcs, Answers, NoChans
  <2>2. TypeOK'
    BY <1>1, <1>3, <1>6, <2>1, NodeAssumption DEF TypeOK, Answers, NodeGoesOn, Results
  <2>3. \A u \in Threads : WorksFor(u)' /\ ViewFits(u)'
    BY <1>4, <1>6 DEF Answers, WorksFor, Serves, ViewFits, TxPcs, Reading
  <2>4. Replied' /\ waiter' = "none"
    BY <1>6 DEF Replied, Answers
  <2> QED BY <1>5, <2>2, <2>3, <2>4 DEF Control
<1>7. ASSUME NEW w \in {"afterNull", "afterError"}, NEW c, WaitsAgain(w, c),
             c \in [result : Seq({Null} \cup BlockAnswers), error : BOOLEAN, backupError : BOOLEAN]
      PROVE  (TypeOK /\ Control)'
  <2>1. TypeOK'
    BY <1>1, <1>3, <1>7, NodeAssumption DEF TypeOK, WaitsAgain, NodeGoesOn
  <2>2. \A u \in Threads : WorksFor(u)' /\ ViewFits(u)'
    BY <1>1, <1>7, Frame DEF WaitsAgain, Control
  <2>3. reply = NoReplyYet
    BY <1>1 DEF Control, Replied
  <2>4. Replied'
    BY <1>7, <2>3 DEF Replied, WaitsAgain, NoReply
  <2> QED BY <1>5, <2>1, <2>2, <2>4 DEF Control
<1>8. chans.result # <<>> =>
        RestOfChans \in [result : Seq({Null} \cup BlockAnswers), error : BOOLEAN, backupError : BOOLEAN]
  <2>1. chans.result \in Seq({Null} \cup BlockAnswers)
        /\ chans \in [result : Seq({Null} \cup BlockAnswers), error : BOOLEAN, backupError : BOOLEAN]
    BY DEF TypeOK
  <2>2. chans.result # <<>> => Tail(chans.result) \in Seq({Null} \cup BlockAnswers)
    BY <2>1
  <2> QED BY <2>1, <2>2 DEF RestOfChans
<1>9. [chans EXCEPT !.error = FALSE]
        \in [result : Seq({Null} \cup BlockAnswers), error : BOOLEAN, backupError : BOOLEAN]
  BY DEF TypeOK
<1>10. CASE ReceiveFirst
  BY <1>6, <1>7, <1>8, <1>10 DEF ReceiveFirst
<1>11. CASE ReceiveError
  BY <1>7, <1>9, <1>11 DEF ReceiveError
<1>12. CASE ReceiveSecond
  BY <1>6, <1>12 DEF ReceiveSecond
<1> QED BY <1>10, <1>11, <1>12 DEF Receive
-----------------------------------------------------------------------------
(* The other calls                                                           *)

OtherPcs ==
    {"from", "to", "search", "callcontract", "getcode", "storagelatest", "getstorage", "accountinfo",
     "addressbalance", "count", "utxos", "createraw", "signraw", "send", "sendraw", "decoderaw", "generate",
     "listcoins", "coincount"}
OtherOps ==
    {"logs", "balance", "code", "estimateGas", "call", "storage", "blockNumber", "sign", "send", "sendRaw",
     "generate", "utxos"}

LEMMA Least ==
  ASSUME NEW S \in SUBSET Nat, S # {}
  PROVE  \E n \in S : \A k \in S : n <= k
<1> DEFINE R == {ss \in Nat \X Nat : ss[1] < ss[2]}
<1>1. R = OpToRel(<, Nat)
  BY DEF OpToRel
<1>2. IsWellFoundedOn(R, Nat)
  BY <1>1, NatLessThanWellFounded, Zenon
<1>3. \A a, b \in Nat : a < b => <<a, b>> \in R
  OBVIOUS
<1> HIDE DEF R
<1>4. \E n \in S : \A k \in S : ~(<<k, n>> \in R)
  <2>1. \E n \in S : \A k \in Nat : <<k, n>> \in R => k \notin S
    BY <1>2, WFMin, Zenon
  <2> QED BY <2>1
<1>5. PICK n \in S : \A k \in S : ~(<<k, n>> \in R)
  BY <1>4
<1>6. ASSUME NEW k \in S PROVE n <= k
  <2>1. n \in Nat /\ k \in Nat
    OBVIOUS
  <2>2. ~(k < n)
    BY <1>3, <1>5, <2>1
  <2> QED BY <2>1, <2>2
<1> QED BY <1>6

\* The outputs that are chosen reach what is needed, and without the last one
\* they do not.
LEMMA RequiredUtxos ==
  ASSUME NEW list \in Seq(Coins), NEW needed
  PROVE  LET r == getRequiredUtxos(list, needed) IN
         /\ r \in Seq(Coins)
         /\ r # <<>> => Reaches(Total(r), needed)
         /\ Len(r) > 1 => ~Reaches(Total(SubSeq(r, 1, Len(r) - 1)), needed)
<1> DEFINE enough == {n \in 1..Len(list) : Reaches(Total(SubSeq(list, 1, n)), needed)}
           n == CHOOSE m \in enough : \A k \in enough : m <= k
           r == getRequiredUtxos(list, needed)
<1>1. \A m : m \in enough <=> m \in 1..Len(list) /\ Reaches(Total(SubSeq(list, 1, m)), needed)
  OBVIOUS
<1>2. r = IF enough = {} THEN <<>> ELSE SubSeq(list, 1, n)
  BY DEF getRequiredUtxos
<1>3. enough # {} => n \in enough /\ \A k \in enough : n <= k
  <2>1. enough \in SUBSET Nat
    OBVIOUS
  <2> HIDE DEF enough
  <2>2. enough # {} => \E m \in enough : \A k \in enough : m <= k
    BY <2>1, Least
  <2> QED BY <2>2
<1> HIDE DEF enough, n, r
<1>4. CASE enough = {}
  <2>1. r = <<>>
    BY <1>2, <1>4
  <2> QED BY <2>1 DEF r
<1>5. CASE enough # {}
  <2>1. n \in 1..Len(list) /\ Reaches(Total(SubSeq(list, 1, n)), needed) /\ r = SubSeq(list, 1, n)
    BY <1>1, <1>2, <1>3, <1>5
  <2>2. r \in Seq(Coins) /\ Len(r) = n
    BY <2>1
  <2>3. Len(r) > 1 => SubSeq(r, 1, Len(r) - 1) = SubSeq(list, 1, n - 1)
    BY <2>1, <2>2
  <2>4. n - 1 \notin enough
    BY <1>3, <1>5, <2>1
  <2>5. n > 1 => ~Reaches(Total(SubSeq(list, 1, n - 1)), needed)
    BY <1>1, <2>1, <2>4
  <2>6. Len(r) > 1 => ~Reaches(Total(SubSeq(r, 1, Len(r) - 1)), needed)
    BY <2>1, <2>2, <2>3, <2>5
  <2>7. Reaches(Total(r), needed)
    BY <2>1
  <2> QED BY <2>2, <2>6, <2>7 DEF r
<1> QED BY <1>4, <1>5

\* What a step of the other calls comes to.
OtherStep ==
    /\ NodeGoesOn /\ UNCHANGED <<tx, view, result, blockVars>>
    /\ pc["main"] \in OtherPcs
    /\ \E p \in OtherPcs \cup {"idle"} :
         /\ pc' = [pc EXCEPT !["main"] = p]
         /\ p # "idle" => reply' = reply /\ Serves(p, op.name)
    /\ op' \in Ops /\ op'.name = op.name
    /\ reply'.kind \notin {"block", "tx", "null"}
    /\ coins' \in Seq(Coins)

LEMMA OtherCalls ==
  ASSUME TypeOK, Control, pc["main"] \in OtherPcs
  PROVE  /\ op.name \in OtherOps /\ op # NoOp /\ reply = NoReplyYet /\ Serves(pc["main"], op.name)
         /\ ~IsByHash /\ pc["backup"] = "idle" /\ waiter = "none"
         /\ view["main"] = NoView /\ NoReplyYet.kind = "none"
<1>1. pc["main"] # "idle" /\ pc["main"] \notin Reading /\ "main" \in Threads
  BY DEF OtherPcs, Reading, Threads
<1>2. op # NoOp /\ reply = NoReplyYet /\ WorksFor("main") /\ ViewFits("main")
  BY <1>1, Working
<1>3. op.name \in OtherOps /\ Serves(pc["main"], op.name)
  BY <1>2 DEF WorksFor, Serves, OtherPcs, OtherOps
<1>4. ~IsByHash
  BY <1>3 DEF IsByHash, OtherOps
<1> QED BY <1>1, <1>2, <1>3, <1>4, Working DEF ViewFits, NoReplyYet

LEMMA OtherKeeps ==
  ASSUME TypeOK, Control, OtherStep
  PROVE  (TypeOK /\ Control)'
<1>1. /\ op.name \in OtherOps /\ op # NoOp /\ reply = NoReplyYet /\ Serves(pc["main"], op.name)
      /\ ~IsByHash /\ pc["backup"] = "idle" /\ waiter = "none" /\ view["main"] = NoView
  BY OtherCalls DEF OtherStep
<1>2. PICK p \in OtherPcs \cup {"idle"} :
        /\ pc' = [pc EXCEPT !["main"] = p]
        /\ p # "idle" => reply' = reply /\ Serves(p, op.name)
  BY DEF OtherStep
<1>3. pc'["main"] = p /\ pc'["backup"] = "idle" /\ p \in Pcs /\ p \notin Reading /\ p \notin TxPcs
      /\ p \notin {"latest", "hash", "header", "block", "lookup"}
  BY <1>1, <1>2 DEF TypeOK, OtherPcs, Pcs, Threads, Reading, TxPcs
<1>a. /\ NodeGoesOn /\ UNCHANGED <<tx, view, result, blockVars>>
      /\ op' \in Ops /\ op'.name = op.name /\ coins' \in Seq(Coins)
  BY DEF OtherStep
<1>4. TypeOK'
  <2>1. pc' \in [Threads -> Pcs]
    BY <1>2, <1>3 DEF TypeOK
  <2>2. tip' \in tips' /\ tips' \subseteq Blocks /\ failures' \in 0..MaxFailures
        /\ rawCache' \in [Txs -> Blocks \cup {Pending, Absent}]
    BY <1>a, NodeAssumption DEF TypeOK, NodeGoesOn
  <2> QED BY <1>a, <2>1, <2>2 DEF TypeOK, blockVars
<1>5. op' # NoOp /\ ~IsByHash' /\ waiter' = "none"
  BY <1>1 DEF OtherStep, OtherOps, NoOp, IsByHash, blockVars
<1>6. AtRest' /\ Replied' /\ CacheWasTrue'
  BY <1>1, <1>2, <1>3, <1>5 DEF AtRest, Replied, OtherStep, NodeGoesOn, Threads
<1>7. WorksFor("main")'
  <2>1. Serves(p, op'.name)
    BY <1>a, <1>2 DEF Serves
  <2> QED BY <1>3, <1>5, <2>1 DEF WorksFor, TxPcs, Reading
<1>8. WorksFor("backup")'
  BY <1>3, <1>5 DEF WorksFor, TxPcs, Reading, Serves
<1>9. view'["main"] = NoView /\ view'["backup"] = NoView
  BY <1>1, <1>2 DEF OtherStep, Control, ViewFits, Threads, Reading
<1>10. \A u \in Threads : ViewFits(u)'
  BY <1>3, <1>9, Sorts, NodeAssumption DEF Threads, ViewFits, TxPcs, Reading
<1> QED BY <1>4, <1>5, <1>6, <1>7, <1>8, <1>10 DEF Control, Threads

LEMMA OtherEnds ==
  ASSUME TypeOK, Control, NEW r, r.kind \notin {"block", "tx", "null"}, Ends(r), pc["main"] \in OtherPcs,
         UNCHANGED nodeVars \/ CallFails, UNCHANGED <<tx, view, result, blockVars>>,
         op' \in Ops, op'.name = op.name, coins' \in Seq(Coins)
  PROVE  OtherStep
BY NodeSteps DEF OtherStep, Ends, GoTo, Replies, Control

LEMMA OtherMoves ==
  ASSUME TypeOK, Control, NEW p \in OtherPcs, pc' = [pc EXCEPT !["main"] = p], UNCHANGED reply,
         pc["main"] \in OtherPcs, Serves(p, op.name),
         UNCHANGED nodeVars \/ CallFails, UNCHANGED <<tx, view, result, blockVars>>,
         op' \in Ops, op'.name = op.name, coins' \in Seq(Coins)
  PROVE  OtherStep
BY NodeSteps, OtherCalls DEF OtherStep, Control

LEMMA LogsGoOn ==
  ASSUME TypeOK, Control, GetLogsStep, UNCHANGED coins
  PROVE  OtherStep
<1>1. tip \in Blocks /\ height[tip] \in Nat /\ op \in Ops /\ coins' \in Seq(Coins)
  BY HeightDef DEF TypeOK
<1>2. ASSUME NEW p \in {"from", "to"}, NEW next \in {"to", "search"}, ResolveEnd(p, p, next)
      PROVE  OtherStep
  <2>1. pc["main"] \in OtherPcs /\ p \in OtherPcs /\ next \in OtherPcs
        /\ UNCHANGED <<tx, view, result, blockVars>>
    BY <1>2 DEF ResolveEnd, OtherPcs
  <2>2. op.name = "logs"
    BY <1>2, <2>1, OtherCalls DEF ResolveEnd, Serves
  <2>3. Serves(next, op.name)
    BY <2>2 DEF Serves
  <2>4. LET q == [op EXCEPT ![p] = height[tip]] IN q \in Ops /\ q.name = op.name
    <3>1. LET q == [op EXCEPT !["from"] = height[tip]] IN q \in Ops /\ q.name = op.name
      BY <1>1, <2>2, OpMoves
    <3>2. LET q == [op EXCEPT !["to"] = height[tip]] IN q \in Ops /\ q.name = op.name
      BY <1>1, <2>2, OpMoves
    <3> QED BY <3>1, <3>2
  <2>5. CASE /\ UNCHANGED nodeVars /\ UNCHANGED reply /\ pc' = [pc EXCEPT !["main"] = next]
             /\ op' \in {op, [op EXCEPT ![p] = height[tip]]}
    BY <1>1, <2>1, <2>3, <2>4, <2>5, OtherMoves
  <2>6. CASE CallFails /\ Ends(Error) /\ UNCHANGED op
    BY <1>1, <2>1, <2>6, OtherEnds, Sorts
  <2> QED BY <1>2, <2>5, <2>6 DEF ResolveEnd, GoTo, NoReply, GetBlockChainInfo, Ends
<1>3. CASE ResolveFrom
  BY <1>2, <1>3 DEF ResolveFrom
<1>4. CASE ResolveTo
  BY <1>2, <1>4 DEF ResolveTo
<1>5. CASE SearchLogs
  <2>1. /\ pc["main"] \in OtherPcs /\ UNCHANGED <<op, tx, view, result, blockVars>>
        /\ \E r : Ends(r) /\ r.kind \in {"logs", "error"}
        /\ UNCHANGED nodeVars \/ CallFails
    <3>1. Error.kind = "error"
      BY Sorts
    <3>2. \A a, l : [kind |-> "logs", all |-> a, logs |-> l].kind = "logs"
      OBVIOUS
    <3> QED BY <1>5, <3>1, <3>2 DEF SearchLogs, At, OtherPcs, Ends
  <2> QED BY <1>1, <2>1, OtherEnds
<1> QED BY <1>3, <1>4, <1>5 DEF GetLogsStep

LEMMA QueryGoesOn ==
  ASSUME TypeOK, Control, QueryStep, UNCHANGED coins
  PROVE  OtherStep
<1>1. tip \in Blocks /\ height[tip] \in Nat /\ op \in Ops /\ coins' \in Seq(Coins)
  BY HeightDef DEF TypeOK
<1>2. Error.kind = "error" /\ \A k, v : Answer(k, v).kind = k
  BY Sorts DEF Answer
<1>3. ASSUME NEW p \in OtherPcs, pc["main"] = p, UNCHANGED <<tx, view, result, blockVars>>, UNCHANGED op,
             NEW r, r.kind \in {"data", "value", "gas", "code", "storage", "balance", "number", "error"},
             Ends(r), UNCHANGED nodeVars \/ CallFails
      PROVE  OtherStep
  BY <1>1, <1>3, OtherEnds
<1>4. CASE CallContract
  BY <1>2, <1>3, <1>4 DEF CallContract, Asks, At, Fails, OtherPcs
<1>5. CASE EstimateGas
  BY <1>2, <1>3, <1>5 DEF EstimateGas, Asks, At, Fails, OtherPcs
<1>6. CASE GetCode
  BY <1>2, <1>3, <1>6 DEF GetCode, Asks, At, Fails, OtherPcs
<1>7. CASE GetStorage
  BY <1>2, <1>3, <1>7 DEF GetStorage, Asks, At, Fails, OtherPcs
<1>8. CASE GetAddressBalance
  BY <1>2, <1>3, <1>8 DEF GetAddressBalance, Asks, At, Fails, OtherPcs
<1>9. CASE GetStorageLatest
  <2>1. /\ pc["main"] = "storagelatest" /\ UNCHANGED <<tx, view, result, blockVars>>
        /\ "storagelatest" \in OtherPcs /\ "getstorage" \in OtherPcs
    BY <1>9 DEF GetStorageLatest, OtherPcs
  <2>2. op.name = "storage" /\ Serves("getstorage", op.name)
    BY <2>1, OtherCalls DEF Serves
  <2>3. LET q == [op EXCEPT !.number = height[tip]] IN q \in Ops /\ q.name = op.name
    BY <1>1, <2>2, OpMoves
  <2>4. CASE /\ op' = [op EXCEPT !.number = height[tip]] /\ pc' = [pc EXCEPT !["main"] = "getstorage"]
             /\ UNCHANGED reply /\ UNCHANGED nodeVars
    BY <1>1, <2>1, <2>2, <2>3, <2>4, OtherMoves
  <2>5. CASE Ends(Error) /\ CallFails /\ UNCHANGED op
    BY <1>2, <1>3, <2>1, <2>5
  <2> QED BY <1>9, <2>4, <2>5 DEF GetStorageLatest, Fails, GoTo, NoReply, GetBlockChainInfo
<1>10. CASE GetAccountInfo
  <2>1. /\ pc["main"] = "accountinfo" /\ UNCHANGED <<op, tx, view, result, blockVars>>
        /\ "accountinfo" \in OtherPcs /\ "addressbalance" \in OtherPcs
    BY <1>10 DEF GetAccountInfo, Asks, At, OtherPcs
  <2>2. Serves("addressbalance", op.name)
    BY <2>1, OtherCalls DEF Serves
  <2>3. CASE /\ pc' = [pc EXCEPT !["main"] = "addressbalance"] /\ UNCHANGED reply
             /\ UNCHANGED nodeVars \/ CallFails
    BY <1>1, <2>1, <2>2, <2>3, OtherMoves
  <2>4. CASE Ends(Answer("balance", "contract")) /\ UNCHANGED nodeVars
    BY <1>2, <1>3, <2>1, <2>4
  <2> QED BY <1>10, <2>3, <2>4 DEF GetAccountInfo, GoTo, NoReply
<1>11. CASE GetCount
  <2>1. /\ pc["main"] = "count" /\ UNCHANGED <<tx, view, result, blockVars>> /\ "count" \in OtherPcs
    BY <1>11 DEF GetCount, OtherPcs
  <2>2. op.name = "blockNumber" /\ Serves("count", op.name)
    BY <2>1, OtherCalls DEF Serves
  <2>3. CASE CallFails /\ op' = [op EXCEPT !.retries = op.retries + 1] /\ UNCHANGED pc /\ UNCHANGED reply
    <3>1. op.retries + 1 \in Nat
      BY <1>1, <2>2, OpSorts DEF CountOps
    <3>2. op' \in Ops /\ op'.name = op.name
      BY <1>1, <2>2, <2>3, <3>1, OpMoves
    <3>3. pc' = [pc EXCEPT !["main"] = "count"]
      BY <2>1, <2>3 DEF TypeOK
    <3> QED BY <1>1, <2>1, <2>2, <2>3, <3>2, <3>3, OtherMoves
  <2>4. CASE Ends(Answer("number", GetBlockCount)) /\ UNCHANGED <<nodeVars, op>>
    BY <1>2, <1>3, <2>1, <2>4
  <2>5. CASE Ends(Error) /\ CallFails /\ UNCHANGED op
    BY <1>2, <1>3, <2>1, <2>5
  <2> QED BY <1>11, <2>3, <2>4, <2>5 DEF GetCount, Fails, NoReply
<1> QED
  BY <1>4, <1>5, <1>6, <1>7, <1>8, <1>9, <1>10, <1>11 DEF QueryStep

LEMMA SignGoesOn ==
  ASSUME TypeOK, Control, NEW needed, NEW refused \in BOOLEAN, Signs(needed, refused)
  PROVE  OtherStep
<1>1. op \in Ops /\ coins \in Seq(Coins) /\ <<>> \in Seq(Coins) /\ Error.kind = "error"
      /\ \A k, i, n, c : [kind |-> k, inputs |-> i, needed |-> n, change |-> c].kind = k
  BY Sorts DEF TypeOK
<1>2. CASE SelectInputs(needed, refused)
  <2>1. /\ pc["main"] = "utxos" /\ UNCHANGED <<op, tx, view, result, blockVars>>
        /\ "utxos" \in OtherPcs /\ "createraw" \in OtherPcs
    BY <1>2 DEF SelectInputs, Asks, At, OtherPcs
  <2>2. Serves("createraw", op.name)
    BY <2>1, OtherCalls DEF Serves
  <2>3. ASSUME NEW list \in CoinLists, coins' = getRequiredUtxos(list, needed), UNCHANGED nodeVars,
               \/ Ends(Error)
               \/ pc' = [pc EXCEPT !["main"] = "createraw"] /\ UNCHANGED reply
        PROVE  OtherStep
    <3>1. list \in Seq(Coins)
      BY PaymentsAssumption
    <3>2. coins' \in Seq(Coins)
      BY <2>3, <3>1, RequiredUtxos
    <3>3. CASE Ends(Error)
      BY <1>1, <2>1, <2>3, <3>2, <3>3, OtherEnds
    <3>4. CASE pc' = [pc EXCEPT !["main"] = "createraw"] /\ UNCHANGED reply
      BY <1>1, <2>1, <2>2, <2>3, <3>2, <3>4, OtherMoves
    <3> QED BY <2>3, <3>3, <3>4
  <2>4. CASE Ends(Error) /\ CallFails /\ UNCHANGED coins
    BY <1>1, <2>1, <2>4, OtherEnds
  <2> QED BY <1>2, <2>3, <2>4 DEF SelectInputs, Fails, GoTo, NoReply
<1>3. CASE CreateRaw
  <2>1. /\ pc["main"] = "createraw" /\ UNCHANGED <<op, tx, view, result, blockVars>> /\ UNCHANGED coins
        /\ "createraw" \in OtherPcs /\ "signraw" \in OtherPcs
    BY <1>3 DEF CreateRaw, Asks, At, OtherPcs
  <2>2. Serves("signraw", op.name)
    BY <2>1, OtherCalls DEF Serves
  <2>3. CASE pc' = [pc EXCEPT !["main"] = "signraw"] /\ UNCHANGED reply /\ UNCHANGED nodeVars
    BY <1>1, <2>1, <2>2, <2>3, OtherMoves
  <2>4. CASE Ends(Error) /\ CallFails
    BY <1>1, <2>1, <2>4, OtherEnds
  <2> QED BY <1>3, <2>3, <2>4 DEF CreateRaw, Fails, GoTo, NoReply
<1>4. CASE SignRaw(needed)
  <2>1. /\ pc["main"] = "signraw" /\ UNCHANGED <<op, tx, view, result, blockVars>> /\ coins' = <<>>
        /\ "signraw" \in OtherPcs
        /\ \E r : Ends(r) /\ r.kind \in {"signed", "error"}
        /\ UNCHANGED nodeVars \/ CallFails
    BY <1>1, <1>4 DEF SignRaw, Asks, At, OtherPcs, Fails
  <2> QED BY <1>1, <2>1, OtherEnds
<1> QED BY <1>2, <1>3, <1>4 DEF Signs

LEMMA PaymentGoesOn ==
  ASSUME TypeOK, Control, PaymentStep
  PROVE  OtherStep
<1>1. op \in Ops /\ coins \in Seq(Coins) /\ <<>> \in Seq(Coins) /\ tip \in Blocks /\ height[tip] \in Nat
  BY HeightDef DEF TypeOK
<1>2. /\ Error.kind = "error" /\ \A k, v : Answer(k, v).kind = k
      /\ \A i : Sent(i).kind = "txid" /\ [Sent(i) EXCEPT !.generates = FALSE].kind = "txid"
  BY Sorts DEF Answer, Sent
<1>3. ASSUME NEW p \in OtherPcs, pc["main"] = p, UNCHANGED <<op, tx, view, result, blockVars>>,
             coins' \in Seq(Coins), NEW r, r.kind \in {"error", "txid", "blocks", "panic", "utxos"},
             Ends(r), UNCHANGED nodeVars \/ CallFails
      PROVE  OtherStep
  BY <1>1, <1>3, OtherEnds
<1>4. CASE requestSendToContract
  <2>1. Signs(NeededWithGas(amount), ~op.known) /\ op.name = "sign"
    BY <1>4 DEF requestSendToContract
  <2>2. op.known \in BOOLEAN
    BY <1>1, <2>1, OpSorts DEF PaymentCalls
  <2> QED BY <2>1, <2>2, SignGoesOn
<1>5. CASE requestSendToAddress
  BY <1>5, SignGoesOn DEF requestSendToAddress
<1>6. CASE requestCreateContract
  BY <1>6, SignGoesOn DEF requestCreateContract
<1>7. CASE SignRefused
  BY <1>1, <1>2, <1>3, <1>7 DEF SignRefused, Asks, At, OtherPcs
<1>8. CASE Send
  <2>1. [kind |-> "error", generates |-> Regtest].kind = "error"
    OBVIOUS
  <2> QED BY <1>1, <1>2, <1>3, <1>8, <2>1 DEF Send, Asks, At, OtherPcs
<1>9. CASE SendRaw
  <2>1. /\ pc["main"] = "sendraw" /\ UNCHANGED <<op, tx, view, result, blockVars>> /\ UNCHANGED coins
        /\ "sendraw" \in OtherPcs /\ "decoderaw" \in OtherPcs
    BY <1>9 DEF SendRaw, Asks, At, OtherPcs
  <2>2. Serves("decoderaw", op.name)
    BY <2>1, OtherCalls DEF Serves
  <2>3. CASE pc' = [pc EXCEPT !["main"] = "decoderaw"] /\ UNCHANGED reply /\ UNCHANGED nodeVars
    BY <1>1, <2>1, <2>2, <2>3, OtherMoves
  <2>4. CASE Ends(Sent("txid")) /\ UNCHANGED nodeVars
    BY <1>1, <1>2, <1>3, <2>1, <2>4
  <2>5. CASE Ends(Error) /\ CallFails
    BY <1>1, <1>2, <1>3, <2>1, <2>5
  <2> QED BY <1>9, <2>3, <2>4, <2>5 DEF SendRaw, Fails, GoTo, NoReply
<1>10. CASE DecodeRaw
  <2>1. /\ pc["main"] = "decoderaw" /\ UNCHANGED <<op, tx, view, result, blockVars>> /\ UNCHANGED coins
        /\ "decoderaw" \in OtherPcs
        /\ UNCHANGED nodeVars \/ CallFails
    BY <1>10 DEF DecodeRaw, Asks, At, OtherPcs, Fails
  <2>2. \E r : Ends(r) /\ r.kind \in {"txid", "error"}
    BY <1>2, <1>10 DEF DecodeRaw, Fails
  <2> QED BY <1>1, <1>3, <2>1, <2>2
<1>11. CASE Generate
  BY <1>1, <1>2, <1>3, <1>11 DEF Generate, Asks, At, OtherPcs, Fails
<1>12. CASE ListCoins
  <2>1. /\ pc["main"] = "listcoins" /\ UNCHANGED <<op, tx, view, result, blockVars>>
        /\ "listcoins" \in OtherPcs /\ "coincount" \in OtherPcs
    BY <1>12 DEF ListCoins, Asks, At, OtherPcs
  <2>2. Serves("coincount", op.name)
    BY <2>1, OtherCalls DEF Serves
  <2>3. CASE /\ \E list \in CoinLists : coins' = list
             /\ pc' = [pc EXCEPT !["main"] = "coincount"] /\ UNCHANGED reply /\ UNCHANGED nodeVars
    <3>1. coins' \in Seq(Coins)
      BY <2>3, PaymentsAssumption
    <3> QED BY <1>1, <2>1, <2>2, <2>3, <3>1, OtherMoves
  <2>4. CASE Ends(Error) /\ CallFails /\ UNCHANGED coins
    BY <1>1, <1>2, <1>3, <2>1, <2>4
  <2> QED BY <1>12, <2>3, <2>4 DEF ListCoins, Fails, GoTo, NoReply
<1>13. CASE CountBlocks
  <2>1. UtxosTaken.kind \in {"panic", "error", "utxos"}
    <3>1. /\ [kind |-> "panic"].kind = "panic"
          /\ \A a, b : [kind |-> "utxos", taken |-> a, safe |-> b].kind = "utxos"
      OBVIOUS
    <3> QED BY <1>2, <3>1 DEF UtxosTaken
  <2> QED BY <1>1, <1>2, <1>3, <1>13, <2>1 DEF CountBlocks, Asks, At, OtherPcs, Fails
<1> QED
  BY <1>4, <1>5, <1>6, <1>7, <1>8, <1>9, <1>10, <1>11, <1>12, <1>13 DEF PaymentStep
-----------------------------------------------------------------------------
(* Requests and answers                                                      *)

\* Before a call begins nothing is left of the last one.
LEMMA Fresh ==
  ASSUME TypeOK, Control, op = NoOp
  PROVE  /\ \A t \in Threads : pc[t] = "idle" /\ view[t] = NoView /\ block[t] = NoBlock /\ result[t] = NoResult
         /\ chans = NoChans /\ waiter = "none" /\ reply = NoReplyYet /\ coins = <<>>
         /\ tips = {tip} /\ failures = 0
BY DEF Control, AtRest

LEMMA AskKeeps ==
  ASSUME TypeOK, Control, op = NoOp, NEW o \in Ops, op' = o, o.name \notin {"none", "getBlockByHash"},
         NEW p \in Pcs \ Reading, pc' = [pc EXCEPT !["main"] = p],
         UNCHANGED <<nodeVars, view, result, reply, coins, chans, waiter>>,
         tx' \in [Threads -> Txs \cup {Unknown}],
         block' \in [Threads -> PartialBlocks],
         \/ p \in {"latest", "hash"} /\ o.name \in {"getBlockByNumber", "byIndex"} /\ o.asked \in BlockParams
         \/ p = "header" /\ o.name = "byIndex"
         \/ p = "gettransaction" /\ o.name = "tx"
         \/ p = "receipt" /\ o.name = "receipt"
         \/ p \in OtherPcs /\ o.name \in OtherOps /\ Serves(p, o.name)
  PROVE  (TypeOK /\ Control)'
<1>1. /\ \A t \in Threads : pc[t] = "idle" /\ view[t] = NoView
      /\ waiter = "none" /\ reply = NoReplyYet
  BY Fresh
<1>2. NodeGoesOn
  BY NodeSteps DEF Control
<1>3. TypeOK'
  <2>1. pc' \in [Threads -> Pcs]
    BY DEF TypeOK
  <2>2. tip' \in tips' /\ tips' \subseteq Blocks /\ failures' \in 0..MaxFailures
        /\ rawCache' \in [Txs -> Blocks \cup {Pending, Absent}]
    BY DEF TypeOK, nodeVars
  <2> QED BY <2>1, <2>2 DEF TypeOK
<1>4. op' # NoOp /\ ~IsByHash'
  BY DEF NoOp, IsByHash
<1>5. AtRest' /\ Replied' /\ CacheWasTrue'
  BY <1>1, <1>2, <1>4 DEF AtRest, Replied, NodeGoesOn
<1>6. pc'["main"] = p /\ pc'["backup"] = "idle"
  BY <1>1 DEF TypeOK, Threads
<1>7. WorksFor("main")'
  BY <1>4, <1>6 DEF WorksFor, Serves, OtherPcs, TxPcs, Reading, BlockOps
<1>8. WorksFor("backup")'
  BY <1>4, <1>6 DEF WorksFor, Serves, TxPcs, Reading
<1>9. \A t \in Threads : ViewFits(t)'
  BY <1>1, <1>6, Sorts, NodeAssumption DEF ViewFits, Threads, Reading
<1> QED BY <1>1, <1>3, <1>4, <1>5, <1>7, <1>8, <1>9 DEF Control, Threads

LEMMA AskHashKeeps ==
  ASSUME TypeOK, Control, AskBlockByHash
  PROVE  (TypeOK /\ Control)'
<1>1. PICK h \in Hashes, full \in BOOLEAN, configured \in BOOLEAN :
        /\ op = NoOp /\ op' = [name |-> "getBlockByHash", hash |-> h, full |-> full]
        /\ pc' = [main |-> "header", backup |-> IF configured THEN "lookup" ELSE "idle"]
        /\ block' = [block EXCEPT !["main"].hash = h]
        /\ chans' = [chans EXCEPT !.backupError = ~configured]
        /\ waiter' = "first"
        /\ UNCHANGED <<nodeVars, tx, view, result, reply, coins>>
  BY DEF AskBlockByHash
<1>2. /\ \A t \in Threads : pc[t] = "idle" /\ view[t] = NoView
      /\ reply = NoReplyYet
  BY <1>1, Fresh
<1>3. NodeGoesOn
  BY <1>1, NodeSteps DEF Control
<1>4. /\ pc'["main"] = "header" /\ pc'["backup"] \in {"lookup", "idle"} /\ pc' \in [Threads -> Pcs]
  BY <1>1 DEF Threads, Pcs
<1>5. block' \in [Threads -> PartialBlocks]
  <2>1. block["main"] \in PartialBlocks
    BY DEF TypeOK, Threads
  <2>2. [block["main"] EXCEPT !.hash = h] \in PartialBlocks
    BY <2>1 DEF PartialBlocks
  <2> QED BY <1>1, <2>2 DEF TypeOK
<1>6. op' \in Ops /\ op' # NoOp /\ IsByHash'
  BY <1>1 DEF Ops, HashOps, NoOp, IsByHash
<1>7. TypeOK'
  <2>1. tip' \in tips' /\ tips' \subseteq Blocks /\ failures' \in 0..MaxFailures
        /\ rawCache' \in [Txs -> Blocks \cup {Pending, Absent}]
    BY <1>1 DEF TypeOK, nodeVars
  <2>2. chans' \in [result : Seq({Null} \cup BlockAnswers), error : BOOLEAN, backupError : BOOLEAN]
    BY <1>1 DEF TypeOK
  <2> QED BY <1>1, <1>4, <1>5, <1>6, <2>1, <2>2 DEF TypeOK
<1>8. AtRest' /\ Replied' /\ CacheWasTrue'
  BY <1>1, <1>2, <1>3, <1>6 DEF AtRest, Replied, NodeGoesOn
<1>9. \A t \in Threads : WorksFor(t)'
  BY <1>1, <1>4, <1>6 DEF WorksFor, Serves, TxPcs, Reading, BlockOps, Threads, IsByHash
<1>10. \A t \in Threads : ViewFits(t)'
  BY <1>1, <1>2, <1>4, Sorts, NodeAssumption DEF ViewFits, Threads, Reading
<1> QED BY <1>6, <1>7, <1>8, <1>9, <1>10 DEF Control

\* A call begins.
Opened(o, p) ==
    /\ op = NoOp /\ op' = o /\ pc' = [pc EXCEPT !["main"] = p]
    /\ UNCHANGED <<nodeVars, view, result, reply, coins, chans, waiter>>

\* Every call begins in one of these ways.
AskCase ==
    \/ \E x \in Txs \cup {Unknown}, n \in {"tx", "receipt"} :
         /\ Opened([name |-> n], IF n = "tx" THEN "gettransaction" ELSE "receipt")
         /\ tx' = [tx EXCEPT !["main"] = x] /\ block' = block
    \/ \E o \in Ops, p \in {"latest", "hash"} :
         /\ Opened(o, p) /\ tx' = tx /\ block' = block
         /\ o.name \in {"getBlockByNumber", "byIndex"} /\ o.asked \in BlockParams /\ o.number = o.asked
         /\ p = "latest" <=> o.asked = Latest
    \/ \E o \in Ops :
         /\ Opened(o, "header") /\ o.name = "byIndex" /\ o.asked \in Hashes /\ tx' = tx
         /\ block' = [block EXCEPT !["main"].hash = o.asked]
    \/ AskBlockByHash
    \/ \E o \in Ops, p \in OtherPcs :
         Opened(o, p) /\ o.name \in OtherOps /\ Serves(p, o.name) /\ tx' = tx /\ block' = block

LEMMA AskCases ==
  ASSUME Ask
  PROVE  AskCase
<1>1. /\ BlockParams \subseteq Resolved /\ Latest \in BlockParams
  BY CallsAssumption DEF BlockParams, Resolved
<1>3. CASE AskTransaction
  BY <1>3 DEF AskTransaction, Begins, GoTo, blockVars, AskCase, Opened
<1>4. ASSUME NEW o \in Ops, o.name \in {"getBlockByNumber", "byIndex"}, NEW n \in BlockParams, o.asked = n,
             o.number = n, NumberOp(o, n)
      PROVE  AskCase
  BY <1>4 DEF NumberOp, Asked, Begins, GoTo, blockVars, AskCase, Opened
<1>5. CASE AskBlockByNumber
  <2>1. PICK n \in BlockParams, full \in BOOLEAN :
          NumberOp([name |-> "getBlockByNumber", asked |-> n, number |-> n, full |-> full], n)
    BY <1>5 DEF AskBlockByNumber
  <2> DEFINE o == [name |-> "getBlockByNumber", asked |-> n, number |-> n, full |-> full]
  <2>2. o \in Ops /\ o.name = "getBlockByNumber" /\ o.asked = n /\ o.number = n
    BY <1>1 DEF Ops, NumberOps
  <2> HIDE DEF o
  <2>3. NumberOp(o, n)
    BY <2>1 DEF o
  <2> QED BY <1>4, <2>2, <2>3
<1>6. ASSUME NEW i \in Indexes, NEW n \in BlockParams,
             NumberOp([name |-> "byIndex", asked |-> n, number |-> n, index |-> i, prefixed |-> FALSE], n)
      PROVE  AskCase
  <2> DEFINE o == [name |-> "byIndex", asked |-> n, number |-> n, index |-> i, prefixed |-> FALSE]
  <2>2. o \in Ops /\ o.name = "byIndex" /\ o.asked = n /\ o.number = n
    BY <1>1 DEF Ops, PositionOps
  <2> HIDE DEF o
  <2>3. NumberOp(o, n)
    BY <1>6 DEF o
  <2> QED BY <1>4, <2>2, <2>3
<1>7. ASSUME NEW i \in Indexes, NEW h \in Hashes, NEW prefixed \in BOOLEAN,
             HashOp([name |-> "byIndex", asked |-> h, index |-> i, prefixed |-> prefixed], h)
      PROVE  AskCase
  <2> DEFINE o == [name |-> "byIndex", asked |-> h, index |-> i, prefixed |-> prefixed]
  <2>1. o \in Ops /\ o.name = "byIndex" /\ o.asked = h
    BY DEF Ops, HashPositionOps
  <2> HIDE DEF o
  <2>2. HashOp(o, h)
    BY <1>7 DEF o
  <2> QED BY <2>1, <2>2 DEF HashOp, Begins, GoTo, AskCase, Opened
<1>8. CASE AskByIndex
  BY <1>6, <1>7, <1>8 DEF AskByIndex
<1>9. ASSUME NEW o \in Ops, NEW p \in OtherPcs, Asked(o, p), o.name \in OtherOps, Serves(p, o.name)
      PROVE  AskCase
  BY <1>9 DEF Asked, Begins, GoTo, blockVars, AskCase, Opened
<1>10. CASE AskLogs
  <2>1. PICK from \in BlockParams, to \in BlockParams, f \in Filters :
          Asked([name |-> "logs", from |-> from, to |-> to, filter |-> f], "from")
    BY <1>10 DEF AskLogs
  <2> DEFINE o == [name |-> "logs", from |-> from, to |-> to, filter |-> f]
  <2>2. o \in Ops /\ o.name = "logs"
    BY <1>1 DEF Ops, LogOps
  <2> HIDE DEF o
  <2>3. Asked(o, "from")
    BY <2>1 DEF o
  <2> QED BY <1>9, <2>2, <2>3 DEF OtherOps, OtherPcs, Serves
<1>11. CASE AskAccount
  <2>1. PICK a \in Accounts :
          \/ Asked([name |-> "balance", account |-> a], "accountinfo")
          \/ Asked([name |-> "code", account |-> a], "getcode")
          \/ \E over \in BOOLEAN : Asked([name |-> "call", account |-> a, overCap |-> over], "callcontract")
          \/ Asked([name |-> "estimateGas", account |-> a], "callcontract")
          \/ \E n \in BlockParams :
               Asked([name |-> "storage", account |-> a, number |-> n],
                     IF n = Latest THEN "storagelatest" ELSE "getstorage")
    BY <1>11 DEF AskAccount, Accounts
  <2>2. /\ \A n \in {"balance", "code", "estimateGas"} :
             [name |-> n, account |-> a] \in Ops /\ [name |-> n, account |-> a].name = n
        /\ \A over \in BOOLEAN :
             /\ [name |-> "call", account |-> a, overCap |-> over] \in Ops
             /\ [name |-> "call", account |-> a, overCap |-> over].name = "call"
    BY DEF Ops, AccountOps
  <2>3. \A n \in BlockParams :
          /\ [name |-> "storage", account |-> a, number |-> n] \in Ops
          /\ [name |-> "storage", account |-> a, number |-> n].name = "storage"
    BY <1>1 DEF Ops, StorageOps
  <2>4. {"accountinfo", "getcode", "callcontract", "storagelatest", "getstorage"} \subseteq OtherPcs
        /\ {"balance", "code", "estimateGas", "call", "storage"} \subseteq OtherOps
    BY DEF OtherPcs, OtherOps
  <2>5. Serves("accountinfo", "balance") /\ Serves("getcode", "code") /\ Serves("callcontract", "call")
        /\ Serves("callcontract", "estimateGas") /\ Serves("storagelatest", "storage")
        /\ Serves("getstorage", "storage")
    BY DEF Serves
  <2>6. CASE Asked([name |-> "balance", account |-> a], "accountinfo")
    BY <1>9, <2>2, <2>4, <2>5, <2>6
  <2>7. CASE Asked([name |-> "code", account |-> a], "getcode")
    BY <1>9, <2>2, <2>4, <2>5, <2>7
  <2>8. ASSUME NEW over \in BOOLEAN, Asked([name |-> "call", account |-> a, overCap |-> over], "callcontract")
        PROVE  AskCase
    BY <1>9, <2>2, <2>4, <2>5, <2>8
  <2>9. CASE Asked([name |-> "estimateGas", account |-> a], "callcontract")
    BY <1>9, <2>2, <2>4, <2>5, <2>9
  <2>10. ASSUME NEW n \in BlockParams,
                Asked([name |-> "storage", account |-> a, number |-> n],
                      IF n = Latest THEN "storagelatest" ELSE "getstorage")
         PROVE  AskCase
    BY <1>9, <2>3, <2>4, <2>5, <2>10
  <2> QED BY <2>1, <2>6, <2>7, <2>8, <2>9, <2>10
<1>12. CASE AskNumber
  <2> DEFINE o == [name |-> "blockNumber", retries |-> 0]
  <2>1. o \in Ops /\ o.name = "blockNumber"
    BY DEF Ops, CountOps
  <2> HIDE DEF o
  <2>2. Asked(o, "count")
    BY <1>12 DEF AskNumber, o
  <2> QED BY <1>9, <2>1, <2>2 DEF OtherOps, OtherPcs, Serves
<1>13. CASE AskPayment
  <2>1. PICK o \in Payments_ : Asked(o, IF o.name = "sign" THEN "utxos" ELSE "send")
    BY <1>13 DEF AskPayment
  <2>2. o \in Ops /\ o.name \in {"sign", "send"}
    BY CallsAssumption DEF Ops, PaymentCalls
  <2> QED BY <1>9, <2>1, <2>2 DEF OtherOps, OtherPcs, Serves
<1>14. CASE AskRaw
  <2>1. /\ \A known, witness \in BOOLEAN :
             /\ [name |-> "sendRaw", known |-> known, witness |-> witness] \in Ops
             /\ [name |-> "sendRaw", known |-> known, witness |-> witness].name = "sendRaw"
        /\ \A n \in 0..1 : /\ [name |-> "generate", number |-> n] \in Ops
                           /\ [name |-> "generate", number |-> n].name = "generate"
        /\ \A min \in 0..3, immature \in BOOLEAN :
             /\ [name |-> "utxos", min |-> min, immature |-> immature] \in Ops
             /\ [name |-> "utxos", min |-> min, immature |-> immature].name = "utxos"
    BY DEF Ops, RawOps
  <2>2. {"sendraw", "generate", "listcoins"} \subseteq OtherPcs
        /\ {"sendRaw", "generate", "utxos"} \subseteq OtherOps
    BY DEF OtherPcs, OtherOps
  <2>3. Serves("sendraw", "sendRaw") /\ Serves("generate", "generate") /\ Serves("listcoins", "utxos")
    BY DEF Serves
  <2>4. ASSUME NEW known \in BOOLEAN, NEW witness \in BOOLEAN,
               Asked([name |-> "sendRaw", known |-> known, witness |-> witness], "sendraw")
        PROVE  AskCase
    BY <1>9, <2>1, <2>2, <2>3, <2>4
  <2>5. ASSUME NEW n \in 0..1, Asked([name |-> "generate", number |-> n], "generate")
        PROVE  AskCase
    BY <1>9, <2>1, <2>2, <2>3, <2>5
  <2>6. ASSUME NEW min \in 0..3, NEW immature \in BOOLEAN,
               Asked([name |-> "utxos", min |-> min, immature |-> immature], "listcoins")
        PROVE  AskCase
    BY <1>9, <2>1, <2>2, <2>3, <2>6
  <2> QED BY <1>14, <2>4, <2>5, <2>6 DEF AskRaw
<1>15. CASE AskBlockByHash
  BY <1>15 DEF AskCase
<1> QED
  BY <1>3, <1>5, <1>8, <1>10, <1>11, <1>12, <1>13, <1>14, <1>15 DEF Ask

LEMMA AskAllKeeps ==
  ASSUME TypeOK, Control, Ask
  PROVE  (TypeOK /\ Control)'
<1>1. tx \in [Threads -> Txs \cup {Unknown}] /\ block \in [Threads -> PartialBlocks]
  BY DEF TypeOK
<1>2. {"latest", "hash", "header", "gettransaction", "receipt"} \subseteq Pcs \ Reading
      /\ OtherPcs \subseteq Pcs \ Reading
  BY DEF Pcs, Reading, OtherPcs
<1>3. ASSUME NEW x \in Txs \cup {Unknown}, NEW n \in {"tx", "receipt"},
             Opened([name |-> n], IF n = "tx" THEN "gettransaction" ELSE "receipt"),
             tx' = [tx EXCEPT !["main"] = x], block' = block
      PROVE  (TypeOK /\ Control)'
  <2> DEFINE o == [name |-> n]
             p == IF n = "tx" THEN "gettransaction" ELSE "receipt"
  <2>1. o \in Ops /\ o.name = n /\ p \in Pcs \ Reading
    BY <1>2 DEF Ops, ReadOps
  <2>2. Opened(o, p)
    BY <1>3
  <2>3. (n = "tx" /\ p = "gettransaction") \/ (n = "receipt" /\ p = "receipt")
    BY <1>3
  <2> HIDE DEF o, p
  <2>4. tx' \in [Threads -> Txs \cup {Unknown}] /\ block' \in [Threads -> PartialBlocks]
    BY <1>1, <1>3
  <2> QED BY <2>1, <2>2, <2>3, <2>4, AskKeeps DEF Opened
<1>4. ASSUME NEW o \in Ops, NEW p \in {"latest", "hash"}, Opened(o, p), tx' = tx, block' = block,
             o.name \in {"getBlockByNumber", "byIndex"}, o.asked \in BlockParams
      PROVE  (TypeOK /\ Control)'
  BY <1>1, <1>2, <1>4, AskKeeps DEF Opened
<1>5. ASSUME NEW o \in Ops, Opened(o, "header"), o.name = "byIndex", o.asked \in Hashes, tx' = tx,
             block' = [block EXCEPT !["main"].hash = o.asked]
      PROVE  (TypeOK /\ Control)'
  <2>1. [block["main"] EXCEPT !.hash = o.asked] \in PartialBlocks
    BY <1>1, <1>5 DEF PartialBlocks, Threads
  <2>2. block' \in [Threads -> PartialBlocks] /\ tx' \in [Threads -> Txs \cup {Unknown}]
    BY <1>1, <1>5, <2>1
  <2> QED BY <1>2, <1>5, <2>2, AskKeeps DEF Opened
<1>6. ASSUME NEW o \in Ops, NEW p \in OtherPcs, Opened(o, p), o.name \in OtherOps, Serves(p, o.name),
             tx' = tx, block' = block
      PROVE  (TypeOK /\ Control)'
  <2>1. o.name \notin {"none", "getBlockByHash"}
    BY <1>6 DEF OtherOps
  <2> QED BY <1>1, <1>2, <1>6, <2>1, AskKeeps DEF Opened
<1> QED BY <1>3, <1>4, <1>5, <1>6, AskCases, AskHashKeeps DEF AskCase

LEMMA AnswerKeeps ==
  ASSUME TypeOK, Control, AnswerTransaction
  PROVE  (TypeOK /\ Control)'
<1>1. /\ pc["main"] = "returned" /\ op.name \in {"tx", "receipt"} /\ pc' = [pc EXCEPT !["main"] = "idle"]
      /\ UNCHANGED <<nodeVars, txVars, blockVars, coins>> /\ "main" \in Threads
  BY DEF AnswerTransaction, GoTo, Threads
<1>2. op # NoOp /\ ~IsByHash /\ pc["backup"] = "idle" /\ waiter = "none"
  BY <1>1, Working DEF IsByHash
<1>3. view["main"] = NoView /\ view["backup"] = NoView
  BY <1>1, <1>2 DEF Control, ViewFits, Reading, Threads
<1>4. pc'["main"] = "idle" /\ pc'["backup"] = "idle"
  BY <1>1, <1>2 DEF TypeOK, Threads
<1>5. TypeOK'
  BY <1>1 DEF TypeOK, txVars, nodeVars, blockVars, Pcs
<1>6. AtRest' /\ Replied' /\ CacheWasTrue'
  BY <1>1, <1>2, <1>4 DEF AtRest, Replied, Control, CacheWasTrue, Place, txVars, nodeVars, blockVars, Threads
<1>7. \A t \in Threads : WorksFor(t)'
  BY <1>4 DEF WorksFor, Serves, TxPcs, Reading, Threads
<1>8. \A t \in Threads : ViewFits(t)'
  BY <1>1, <1>3, <1>4, Sorts, NodeAssumption DEF ViewFits, Reading, Threads, txVars
<1>9. waiter' = "none"
  BY <1>1, <1>2 DEF blockVars
<1> QED BY <1>5, <1>6, <1>7, <1>8, <1>9 DEF Control

LEMMA FinishKeeps ==
  ASSUME TypeOK, Control, Finish
  PROVE  (TypeOK /\ Control)'
<1>1. PICK keep \in SUBSET Txs : rawCache' = [x \in Txs |-> IF x \in keep THEN rawCache[x] ELSE Absent]
  BY DEF Finish
<1>2. /\ op' = NoOp /\ reply' = NoReplyYet /\ tips' = {tip} /\ failures' = 0 /\ tip' = tip /\ coins' = <<>>
      /\ tx' = [t \in Threads |-> Unknown] /\ pc' = [t \in Threads |-> "idle"]
      /\ view' = [t \in Threads |-> NoView] /\ result' = [t \in Threads |-> NoResult]
      /\ block' = [t \in Threads |-> NoBlock] /\ chans' = NoChans /\ waiter' = "none"
  BY DEF Finish
<1>3. TypeOK'
  <2>1. NoOp \in Ops /\ NoBlock \in PartialBlocks /\ "idle" \in Pcs
    BY DEF Ops, NoBlock, PartialBlocks, Hashes, Pcs
  <2>2. NoChans \in [result : Seq({Null} \cup BlockAnswers), error : BOOLEAN, backupError : BOOLEAN]
    BY DEF NoChans
  <2>3. rawCache' \in [Txs -> Blocks \cup {Pending, Absent}]
    BY <1>1 DEF TypeOK
  <2>4. tip' \in tips' /\ tips' \subseteq Blocks /\ failures' \in 0..MaxFailures
    BY <1>2, NodeAssumption DEF TypeOK
  <2> QED BY <1>2, <2>1, <2>2, <2>3, <2>4, Sorts DEF TypeOK
<1>4. AtRest' /\ Replied'
  BY <1>2 DEF AtRest, Replied
<1>5. CacheWasTrue'
  BY <1>1 DEF Control, CacheWasTrue, Place
<1>6. \A t \in Threads : pc'[t] = "idle" /\ view'[t] = NoView /\ op'.name = "none"
  BY <1>2 DEF NoOp
<1>7. \A t \in Threads : WorksFor(t)'
  BY <1>6 DEF WorksFor, Serves, TxPcs, Reading, IsByHash
<1>8. \A t \in Threads : ViewFits(t)'
  BY <1>6, Sorts, NodeAssumption DEF ViewFits, Reading
<1> QED BY <1>2, <1>3, <1>4, <1>5, <1>7, <1>8 DEF Control

LEMMA NodeChangesKeep ==
  ASSUME TypeOK, Control, NodeChanges
  PROVE  (TypeOK /\ Control)'
<1>1. op # NoOp /\ reply = NoReplyYet /\ UNCHANGED <<txVars, pc, blockVars, reply, coins>>
  BY DEF NodeChanges
<1>2. /\ tip' \in tips' /\ tips' \subseteq Blocks /\ failures' \in 0..MaxFailures
      /\ rawCache' \in [Txs -> Blocks \cup {Pending, Absent}] /\ CacheWasTrue'
  <2>1. CASE Move
    BY <2>1 DEF Move, TypeOK, Control, CacheWasTrue, Place
  <2>2. CASE Expire
    BY <2>2 DEF Expire, TypeOK, Control, CacheWasTrue, Place
  <2> QED BY <2>1, <2>2 DEF NodeChanges
<1>3. TypeOK'
  BY <1>1, <1>2 DEF TypeOK, txVars, blockVars
<1>4. AtRest' /\ Replied'
  BY <1>1 DEF AtRest, Replied, txVars
<1>5. \A t \in Threads : WorksFor(t)' /\ ViewFits(t)'
  BY <1>1, Frame DEF Control, txVars, blockVars
<1> QED BY <1>1, <1>2, <1>3, <1>4, <1>5 DEF Control, txVars, blockVars, IsByHash

LEMMA StartsWell == Init => TypeOK /\ Control
<1> SUFFICES ASSUME Init PROVE TypeOK /\ Control
  OBVIOUS
<1>1. NoOp \in Ops /\ NoBlock \in PartialBlocks /\ "idle" \in Pcs /\ NoOp.name = "none"
      /\ NoChans \in [result : Seq({Null} \cup BlockAnswers), error : BOOLEAN, backupError : BOOLEAN]
  BY DEF Ops, NoBlock, PartialBlocks, Hashes, Pcs, NoOp, NoChans
<1>2. TypeOK
  BY <1>1, Sorts, NodeAssumption DEF Init, NodeInit, TypeOK, Results
<1>3. AtRest /\ Replied
  BY DEF AtRest, Replied, Init, NodeInit
<1>4. CacheWasTrue
  BY DEF Init, NodeInit, CacheWasTrue
<1>5. \A t \in Threads : pc[t] = "idle" /\ view[t] = NoView
  BY DEF Init
<1>6. \A t \in Threads : WorksFor(t)
  BY <1>1, <1>5 DEF WorksFor, Serves, TxPcs, Reading, IsByHash, Init
<1>7. \A t \in Threads : ViewFits(t)
  BY <1>5, Sorts, NodeAssumption DEF ViewFits, Reading
<1> QED BY <1>2, <1>3, <1>4, <1>6, <1>7 DEF Control, Init

LEMMA StepsKeep == TypeOK /\ Control /\ [Next]_vars => (TypeOK /\ Control)'
<1> SUFFICES ASSUME TypeOK, Control, [Next]_vars PROVE (TypeOK /\ Control)'
  OBVIOUS
<1>1. CASE Ask
  BY <1>1, AskAllKeeps
<1>2. CASE Translate
  <2>1. ASSUME NEW t \in Threads, TransactionStep(t), UNCHANGED <<blockVars, reply>>, UNCHANGED coins
        PROVE  (TypeOK /\ Control)'
    BY <2>1, TransactionKeeps
  <2>2. ASSUME NEW t \in Threads, BlockStep(t), UNCHANGED coins
        PROVE  (TypeOK /\ Control)'
    BY <2>2, BlockKeeps
  <2>3. CASE LookUp /\ UNCHANGED coins
    BY <2>3, LookUpKeeps
  <2>4. CASE Receive /\ UNCHANGED coins
    BY <2>4, ReceiveKeeps
  <2>5. CASE GetLogsStep /\ UNCHANGED coins
    BY <2>5, LogsGoOn, OtherKeeps
  <2>6. CASE QueryStep /\ UNCHANGED coins
    BY <2>6, QueryGoesOn, OtherKeeps
  <2> QED BY <1>2, <2>1, <2>2, <2>3, <2>4, <2>5, <2>6 DEF Translate
<1>3. CASE PaymentStep
  BY <1>3, PaymentGoesOn, OtherKeeps
<1>4. CASE AnswerTransaction
  BY <1>4, AnswerKeeps
<1>5. CASE Finish
  BY <1>5, FinishKeeps
<1>6. CASE NodeChanges
  BY <1>6, NodeChangesKeep
<1>7. CASE UNCHANGED vars
  <2>1. UNCHANGED <<tip, rawCache, tips, failures, op, tx, view, result, pc, block, chans, waiter, reply, coins>>
    BY <1>7 DEF vars, nodeVars, txVars, blockVars
  <2>2. TypeOK'
    BY <2>1 DEF TypeOK
  <2>3. AtRest' /\ Replied' /\ CacheWasTrue' /\ (waiter # "none" => IsByHash)'
    BY <2>1 DEF Control, AtRest, Replied, CacheWasTrue, Place, IsByHash
  <2>4. \A t \in Threads : WorksFor(t)' /\ ViewFits(t)'
    BY <2>1, Frame DEF Control
  <2> QED BY <2>2, <2>3, <2>4 DEF Control
<1> QED BY <1>1, <1>2, <1>3, <1>4, <1>5, <1>6, <1>7 DEF Next

\* What the variables of a call hold: a place, a position and a height for a
\* transaction, a block with those of its transactions that are done and left,
\* results in channels; and each step of the program belongs to the call that
\* is answered. Whatever the tree of blocks, however often the chain changes
\* and calls to the node fail.
THEOREM TypeCorrect == Spec => [](TypeOK /\ Control)
<1> QED BY StartsWell, StepsKeep, PTL DEF Spec
-----------------------------------------------------------------------------
(* eth_getBlockByHash                                                        *)

Ended(t) == IF pc[t] = "idle" THEN 1 ELSE 0
Failures == IF chans.error THEN 1 ELSE 0
BackupFailures == IF chans.backupError THEN 1 ELSE 0
Taken == IF waiter # "first" THEN 1 ELSE 0

\* Each goroutine of eth_getBlockByHash sends once, and what it sent is in a
\* channel until the handler takes it out.
ChannelsHold ==
    waiter # "none" =>
        /\ Ended("main") + Ended("backup") = Len(chans.result) + Failures + BackupFailures + Taken
        /\ chans.error \/ waiter = "afterError" => pc["main"] = "idle"
        /\ chans.backupError => pc["backup"] = "idle"
        /\ waiter = "afterError" => ~chans.error

LEMMA Counts ==
  /\ \A t : Ended(t) = 1 <=> pc[t] = "idle"
  /\ \A t : Ended(t) = 0 <=> pc[t] # "idle"
  /\ (Failures = 1 <=> chans.error) /\ (Failures = 0 <=> ~chans.error)
  /\ (BackupFailures = 1 <=> chans.backupError) /\ (BackupFailures = 0 <=> ~chans.backupError)
  /\ (Taken = 1 <=> waiter # "first") /\ (Taken = 0 <=> waiter = "first")
BY DEF Ended, Failures, BackupFailures, Taken

LEMMA CountsAfter ==
  /\ \A t : Ended(t)' = 1 <=> pc'[t] = "idle"
  /\ \A t : Ended(t)' = 0 <=> pc'[t] # "idle"
  /\ (Failures' = 1 <=> chans'.error) /\ (Failures' = 0 <=> ~chans'.error)
  /\ (BackupFailures' = 1 <=> chans'.backupError) /\ (BackupFailures' = 0 <=> ~chans'.backupError)
  /\ (Taken' = 1 <=> waiter' # "first") /\ (Taken' = 0 <=> waiter' = "first")
BY DEF Ended, Failures, BackupFailures, Taken

\* Steps that neither end a goroutine nor touch a channel.
LEMMA ChannelsFrame ==
  ASSUME ChannelsHold, waiter' = waiter, waiter # "none" => chans' = chans,
         waiter # "none" => \A t \in Threads : pc'[t] = "idle" <=> pc[t] = "idle"
  PROVE  ChannelsHold'
<1>1. ASSUME waiter # "none"
      PROVE  /\ Ended("main")' = Ended("main") /\ Ended("backup")' = Ended("backup")
             /\ Failures' = Failures /\ BackupFailures' = BackupFailures /\ Taken' = Taken
  BY <1>1 DEF Ended, Failures, BackupFailures, Taken, Threads
<1> QED BY <1>1 DEF ChannelsHold, Threads

LEMMA GivesHolds ==
  ASSUME TypeOK, Control, ChannelsHold, NEW t \in Threads, NEW r \in Answered, Gives(t, r)
  PROVE  ChannelsHold'
<1>1. /\ pc' = [pc EXCEPT ![t] = "idle"] /\ waiter' = waiter /\ pc[t] # "idle"
      /\ IsByHash =>
              IF r.kind # "error"
              THEN /\ chans'.result = Append(chans.result, r)
                   /\ chans'.error = chans.error /\ chans'.backupError = chans.backupError
              ELSE /\ chans'.result = chans.result
                   /\ chans'.error = (chans.error \/ t = "main")
                   /\ chans'.backupError = (chans.backupError \/ t = "backup")
  BY Sends DEF Gives
<1>2. CASE waiter = "none"
  BY <1>1, <1>2 DEF ChannelsHold
<1>3. CASE waiter # "none"
  <2>1. IsByHash /\ Len(chans.result) \in Nat /\ Len(Append(chans.result, r)) = Len(chans.result) + 1
    BY <1>3 DEF Control, TypeOK
  <2>2. chans.error \in BOOLEAN /\ chans.backupError \in BOOLEAN
    BY DEF TypeOK
  <2>5. \A n \in {Ended("main"), Ended("backup"), Failures, BackupFailures, Taken} : n \in {0, 1}
    BY DEF Ended, Failures, BackupFailures, Taken
  <2>3. CASE t = "main"
    <3>1. pc'["main"] = "idle" /\ pc'["backup"] = pc["backup"] /\ ~chans.error /\ waiter # "afterError"
      BY <1>1, <1>3, <2>3 DEF ChannelsHold, TypeOK, Threads
    <3>2. /\ Ended("backup") = Len(chans.result) + BackupFailures + Taken
          /\ chans.backupError => pc["backup"] = "idle"
      <4>1. Ended("main") = 0 /\ Failures = 0
        BY <1>1, <2>3, <3>1, Counts
      <4> QED BY <1>3, <2>1, <2>5, <4>1 DEF ChannelsHold
    <3>3. CASE r.kind # "error"
      <4>1. /\ Len(chans'.result) = Len(chans.result) + 1 /\ chans'.error = FALSE
            /\ chans'.backupError = chans.backupError
        BY <1>1, <2>1, <3>1, <3>3, <2>2
      <4>2. /\ Ended("main")' = 1 /\ Ended("backup")' = Ended("backup") /\ Taken' = Taken
            /\ Failures' = 0 /\ BackupFailures' = BackupFailures
        BY <1>1, <2>2, <2>5, <3>1, <4>1, Counts, CountsAfter
      <4> QED BY <1>1, <1>3, <2>1, <2>5, <3>1, <3>2, <4>1, <4>2 DEF ChannelsHold
    <3>4. CASE r.kind = "error"
      <4>1. /\ Len(chans'.result) = Len(chans.result) /\ chans'.error = TRUE
            /\ chans'.backupError = chans.backupError
        BY <1>1, <2>1, <2>2, <2>3, <3>1, <3>4
      <4>2. /\ Ended("main")' = 1 /\ Ended("backup")' = Ended("backup") /\ Taken' = Taken
            /\ Failures' = 1 /\ BackupFailures' = BackupFailures
        BY <1>1, <2>2, <2>5, <3>1, <4>1, Counts, CountsAfter
      <4> QED BY <1>1, <1>3, <2>1, <2>5, <3>1, <3>2, <4>1, <4>2 DEF ChannelsHold
    <3> QED BY <3>3, <3>4
  <2>4. CASE t = "backup"
    <3>1. pc'["backup"] = "idle" /\ pc'["main"] = pc["main"] /\ ~chans.backupError
      BY <1>1, <1>3, <2>4 DEF ChannelsHold, TypeOK, Threads
    <3>2. /\ Ended("main") = Len(chans.result) + Failures + Taken
          /\ chans.error \/ waiter = "afterError" => pc["main"] = "idle"
          /\ waiter = "afterError" => ~chans.error
      <4>1. Ended("backup") = 0 /\ BackupFailures = 0
        BY <1>1, <2>4, <3>1, Counts
      <4> QED BY <1>3, <2>1, <2>5, <4>1 DEF ChannelsHold
    <3>3. CASE r.kind # "error"
      <4>1. /\ Len(chans'.result) = Len(chans.result) + 1 /\ chans'.error = chans.error
            /\ chans'.backupError = FALSE
        BY <1>1, <2>1, <2>2, <3>1, <3>3
      <4>2. /\ Ended("backup")' = 1 /\ Ended("main")' = Ended("main") /\ Taken' = Taken
            /\ BackupFailures' = 0 /\ Failures' = Failures
        BY <1>1, <2>2, <2>5, <3>1, <4>1, Counts, CountsAfter
      <4> QED BY <1>1, <1>3, <2>1, <2>5, <3>1, <3>2, <4>1, <4>2 DEF ChannelsHold
    <3>4. CASE r.kind = "error"
      <4>1. /\ Len(chans'.result) = Len(chans.result) /\ chans'.backupError = TRUE
            /\ chans'.error = chans.error
        BY <1>1, <2>1, <2>2, <2>4, <3>1, <3>4
      <4>2. /\ Ended("backup")' = 1 /\ Ended("main")' = Ended("main") /\ Taken' = Taken
            /\ BackupFailures' = 1 /\ Failures' = Failures
        BY <1>1, <2>2, <2>5, <3>1, <4>1, Counts, CountsAfter
      <4> QED BY <1>1, <1>3, <2>1, <2>5, <3>1, <3>2, <4>1, <4>2 DEF ChannelsHold
    <3> QED BY <3>3, <3>4
  <2> QED BY <2>3, <2>4 DEF Threads
<1> QED BY <1>2, <1>3

LEMMA BlockHolds ==
  ASSUME TypeOK, Control, ChannelsHold, NEW t \in Threads, BlockStep(t)
  PROVE  ChannelsHold'
<1>1. pc[t] # "idle" => WorksFor(t) /\ (~IsByHash => waiter = "none")
  BY Working
<1>2. CASE GetLatest(t)
  <2>1. ~IsByHash /\ pc[t] # "idle" /\ waiter' = waiter
    BY <1>1, <1>2 DEF GetLatest, WorksFor, IsByHash, blockVars
  <2> QED BY <1>1, <2>1 DEF ChannelsHold
<1>3. CASE GetHash(t)
  <2>1. ~IsByHash /\ pc[t] # "idle" /\ waiter' = waiter
    BY <1>1, <1>3 DEF GetHash, At, WorksFor, IsByHash
  <2> QED BY <1>1, <2>1 DEF ChannelsHold
<1>4. CASE Opens(t)
  <2>1. \A u \in Threads : pc'[u] = "idle" <=> pc[u] = "idle"
    BY <1>4 DEF Opens, TypeOK
  <2> QED BY <1>4, <2>1, ChannelsFrame DEF Opens, blockVars
<1>5. ASSUME NEW b, Takes(t, b) PROVE ChannelsHold'
  <2>1. \A u \in Threads : pc'[u] = "idle" <=> pc[u] = "idle"
    BY <1>5 DEF Takes, TypeOK
  <2> QED BY <1>5, <2>1, ChannelsFrame DEF Takes
<1> QED BY <1>2, <1>3, <1>4, <1>5, BlockCases, GivesHolds DEF BlockCase

LEMMA ReceiveHolds ==
  ASSUME TypeOK, ChannelsHold, Receive
  PROVE  ChannelsHold'
<1>1. ASSUME NEW r, Answers(r) PROVE ChannelsHold'
  BY <1>1 DEF Answers, ChannelsHold
<1>2. /\ chans.result \in Seq({Null} \cup BlockAnswers) /\ Len(chans.result) \in Nat
      /\ chans \in [result : Seq({Null} \cup BlockAnswers), error : BOOLEAN, backupError : BOOLEAN]
  BY DEF TypeOK
<1>a. chans.result # <<>> => Len(Tail(chans.result)) = Len(chans.result) - 1
  BY <1>2
<1>3. \A n \in {Ended("main"), Ended("backup"), Failures, BackupFailures, Taken} : n \in {0, 1}
  BY DEF Ended, Failures, BackupFailures, Taken
<1>4. pc' = pc => Ended("main")' = Ended("main") /\ Ended("backup")' = Ended("backup")
  BY DEF Ended
<1>5. CASE waiter = "first" /\ chans.result # <<>> /\ WaitsAgain("afterNull", RestOfChans)
  <2>1. /\ pc' = pc /\ waiter' = "afterNull" /\ chans'.result = Tail(chans.result)
        /\ chans'.error = chans.error /\ chans'.backupError = chans.backupError
    BY <1>2, <1>5 DEF WaitsAgain, RestOfChans
  <2>2. Failures' = Failures /\ BackupFailures' = BackupFailures /\ Taken = 0 /\ Taken' = 1
    BY <1>5, <2>1 DEF Failures, BackupFailures, Taken
  <2> QED BY <1>2, <1>a, <1>3, <1>4, <1>5, <2>1, <2>2 DEF ChannelsHold
<1>6. CASE ReceiveError
  <2>1. /\ pc' = pc /\ waiter' = "afterError" /\ chans'.result = chans.result /\ waiter = "first" /\ chans.error
        /\ chans'.error = FALSE /\ chans'.backupError = chans.backupError
    BY <1>2, <1>6 DEF ReceiveError, WaitsAgain
  <2>2. Failures = 1 /\ Failures' = 0 /\ BackupFailures' = BackupFailures /\ Taken = 0 /\ Taken' = 1
    BY <2>1 DEF Failures, BackupFailures, Taken
  <2> QED BY <1>2, <1>3, <1>4, <2>1, <2>2 DEF ChannelsHold
<1> QED BY <1>1, <1>5, <1>6 DEF Receive, ReceiveFirst, ReceiveSecond

LEMMA LookUpHolds ==
  ASSUME TypeOK, Control, ChannelsHold, LookUp
  PROVE  ChannelsHold'
<1>1. pc["backup"] = "lookup" /\ waiter' = waiter /\ "backup" \in Threads /\ pc \in [Threads -> Pcs]
  BY DEF LookUp, At, Threads, TypeOK
<1>2. CASE GoTo("backup", "header") /\ UNCHANGED chans
  <2>1. \A t \in Threads : pc'[t] = "idle" <=> pc[t] = "idle"
    BY <1>1, <1>2 DEF GoTo
  <2> QED BY <1>1, <1>2, <2>1, ChannelsFrame
<1>3. CASE GoTo("backup", "idle") /\ chans' = [chans EXCEPT !.backupError = TRUE]
  <2>1. /\ pc'["main"] = pc["main"] /\ pc'["backup"] = "idle" /\ chans'.result = chans.result
        /\ chans'.error = chans.error /\ chans'.backupError = TRUE /\ Len(chans.result) \in Nat
    BY <1>1, <1>3 DEF GoTo, Threads, TypeOK
  <2>2. \A n \in {Ended("main"), Failures, Taken} : n \in {0, 1}
    BY DEF Ended, Failures, Taken
  <2>3. /\ Ended("main")' = Ended("main") /\ Failures' = Failures /\ Taken' = Taken
        /\ Ended("backup") = 0 /\ Ended("backup")' = 1 /\ BackupFailures' = 1
    BY <1>1, <2>1 DEF Ended, Failures, Taken, BackupFailures
  <2>4. waiter # "none" => BackupFailures = 0
    BY <1>1 DEF ChannelsHold, BackupFailures
  <2> QED BY <1>1, <2>1, <2>2, <2>3, <2>4 DEF ChannelsHold
<1> QED BY <1>2, <1>3 DEF LookUp

\* How a call begins, whatever it is.
LEMMA Begun ==
  ASSUME TypeOK, Control, Ask
  PROVE  /\ op = NoOp /\ op' # NoOp
         /\ UNCHANGED <<nodeVars, view, result, reply, coins>>
         /\ \A t \in Threads : block'[t].txs = <<>> /\ block'[t].rest = <<>>
         /\ chans'.result = <<>> /\ chans'.error = FALSE
         /\ \/ waiter' = "none" /\ pc'["backup"] = "idle"
            \/ AskBlockByHash
<1>1. op = NoOp /\ UNCHANGED <<nodeVars, view, result, reply, coins>>
      /\ op' # NoOp
  <2>1. \A o \in Ops : o.name # "none" => o # NoOp
    BY DEF NoOp
  <2>2. AskBlockByHash => op' # NoOp /\ op = NoOp /\ UNCHANGED <<nodeVars, view, result, reply, coins>>
    BY DEF AskBlockByHash, NoOp
  <2>3. \A n \in {"tx", "receipt"} : [name |-> n] # NoOp
    BY DEF NoOp
  <2>4. \A o : o.name \in OtherOps => o.name # "none"
    BY DEF OtherOps
  <2> QED BY <2>1, <2>2, <2>3, <2>4, AskCases DEF AskCase, Opened
<1>2. /\ chans = NoChans /\ NoChans.result = <<>> /\ NoChans.error = FALSE /\ waiter = "none"
      /\ pc["backup"] = "idle" /\ NoBlock.txs = <<>> /\ NoBlock.rest = <<>>
      /\ \A t \in Threads : block[t] = NoBlock
  BY <1>1, Fresh DEF NoChans, NoBlock, Threads
<1>3. AskBlockByHash => chans'.result = <<>> /\ chans'.error = FALSE
  BY <1>2 DEF AskBlockByHash, NoChans
<1>4. AskBlockByHash \/ (waiter' = "none" /\ pc'["backup"] = "idle" /\ chans' = chans)
  BY <1>2, AskCases DEF AskCase, Opened, TypeOK, Threads
<1>5. \A h : [NoBlock EXCEPT !.hash = h].txs = <<>> /\ [NoBlock EXCEPT !.hash = h].rest = <<>>
  BY DEF NoBlock
<1>6. block' = block \/ \E h : block' = [block EXCEPT !["main"].hash = h]
  BY AskCases DEF AskCase, Opened, AskBlockByHash
<1>7. \A t \in Threads : block'[t].txs = <<>> /\ block'[t].rest = <<>>
  <2>1. CASE block' = block
    BY <1>2, <2>1
  <2>2. ASSUME NEW h, block' = [block EXCEPT !["main"].hash = h], NEW t \in Threads
        PROVE  block'[t].txs = <<>> /\ block'[t].rest = <<>>
    <3>1. block'[t] = IF t = "main" THEN [NoBlock EXCEPT !.hash = h] ELSE NoBlock
      BY <1>2, <2>2 DEF TypeOK
    <3> QED BY <1>2, <1>5, <3>1
  <2> QED BY <1>6, <2>1, <2>2
<1> QED BY <1>1, <1>2, <1>3, <1>4, <1>7

LEMMA HashCallBegins ==
  ASSUME TypeOK, Control, AskBlockByHash
  PROVE  ChannelsHold'
<1>1. /\ pc["main"] = "idle" /\ chans = NoChans
  BY Fresh DEF AskBlockByHash, Threads
<1>2. PICK configured \in BOOLEAN :
        /\ pc' = [main |-> "header", backup |-> IF configured THEN "lookup" ELSE "idle"]
        /\ chans' = [chans EXCEPT !.backupError = ~configured]
        /\ waiter' = "first"
  BY DEF AskBlockByHash
<1>3. /\ chans'.result = <<>> /\ chans'.error = FALSE /\ chans'.backupError = ~configured
      /\ pc'["main"] = "header" /\ pc'["backup"] = IF configured THEN "lookup" ELSE "idle"
  BY <1>1, <1>2 DEF NoChans
<1>4. /\ Ended("main")' = 0 /\ Failures' = 0 /\ Taken' = 0 /\ Len(chans'.result) = 0
      /\ IF configured THEN Ended("backup")' = 0 /\ BackupFailures' = 0
         ELSE Ended("backup")' = 1 /\ BackupFailures' = 1
  BY <1>2, <1>3 DEF Ended, Failures, BackupFailures, Taken
<1>5. 0 + Ended("backup")' = 0 + 0 + BackupFailures' + 0
  BY <1>4
<1>6. waiter' = "first" /\ ~chans'.error /\ (chans'.backupError => pc'["backup"] = "idle")
  BY <1>2, <1>3
<1> QED BY <1>4, <1>5, <1>6 DEF ChannelsHold

LEMMA HoldsGoesOn == TypeOK /\ Control /\ ChannelsHold /\ [Next]_vars => ChannelsHold'
<1> SUFFICES ASSUME TypeOK, Control, ChannelsHold, [Next]_vars PROVE ChannelsHold'
  OBVIOUS
<1>1. CASE Ask
  BY <1>1, Begun, HashCallBegins DEF ChannelsHold
<1>2. ASSUME NEW t \in Threads, TransactionStep(t), UNCHANGED <<blockVars, reply>>
      PROVE  ChannelsHold'
  <2>1. \A u \in Threads : pc'[u] = "idle" <=> pc[u] = "idle"
    BY <1>2, TransactionGoesOn DEF TxGoesOn, Others, TxPcs, Reading
  <2> QED BY <1>2, <2>1, ChannelsFrame DEF blockVars
<1>3. ASSUME OtherStep PROVE ChannelsHold'
  BY <1>3, OtherCalls DEF OtherStep, blockVars, ChannelsHold
<1>4. CASE Translate
  BY <1>2, <1>3, <1>4, BlockHolds, LookUpHolds, ReceiveHolds, LogsGoOn, QueryGoesOn DEF Translate
<1>5. CASE PaymentStep
  BY <1>3, <1>5, PaymentGoesOn
<1>6. CASE AnswerTransaction
  <2>1. op.name \in {"tx", "receipt"} /\ pc["main"] = "returned" /\ waiter' = waiter
    BY <1>6 DEF AnswerTransaction, blockVars
  <2>2. waiter = "none"
    BY <2>1 DEF Control, IsByHash
  <2> QED BY <2>1, <2>2 DEF ChannelsHold
<1>7. CASE Finish
  BY <1>7 DEF Finish, ChannelsHold
<1>8. CASE NodeChanges \/ UNCHANGED vars
  BY <1>8, ChannelsFrame DEF NodeChanges, vars, blockVars
<1> QED BY <1>1, <1>4, <1>5, <1>6, <1>7, <1>8 DEF Next

\* eth_getBlockByHash: the handler never waits for a goroutine that has ended
\* without leaving it something to receive, except for the error of the first
\* one after the second found nothing (channel errorChan has no reader left).
THEOREM HashCallAlwaysReturns == Spec => []HashCallReturns
<1>1. Init => ChannelsHold
  BY DEF Init, ChannelsHold
<1>2. TypeOK /\ ChannelsHold => HashCallReturns
  <2> SUFFICES ASSUME TypeOK, ChannelsHold, waiter # "none", \A t \in Threads : pc[t] = "idle",
                      chans.result = <<>>
               PROVE  \/ waiter = "first" /\ chans.error
                      \/ waiter # "first" /\ chans.backupError
                      \/ waiter = "afterNull" /\ chans.error
    BY DEF HashCallReturns
  <2>1. Ended("main") = 1 /\ Ended("backup") = 1 /\ Len(chans.result) = 0
    BY DEF Ended, Threads
  <2>2. Failures + BackupFailures + Taken = 2
    <3>1. \A n \in {Failures, BackupFailures, Taken} : n \in {0, 1}
      BY DEF Failures, BackupFailures, Taken
    <3> QED BY <2>1, <3>1 DEF ChannelsHold
  <2>3. CASE waiter = "first"
    BY <2>2, <2>3 DEF Failures, BackupFailures, Taken
  <2>4. CASE waiter = "afterNull"
    BY <2>2, <2>4 DEF Failures, BackupFailures, Taken
  <2>5. CASE waiter = "afterError"
    BY <2>2, <2>5 DEF Failures, BackupFailures, Taken, ChannelsHold
  <2> QED BY <2>3, <2>4, <2>5 DEF TypeOK
<1>3. TypeOK /\ Control /\ ChannelsHold /\ [Next]_vars => (TypeOK /\ Control /\ ChannelsHold)'
  BY StepsKeep, HoldsGoesOn
<1> QED BY <1>1, <1>2, <1>3, StartsWell, PTL DEF Spec

\* eth_getBlockByHash answers with null only after both goroutines have ended:
\* no step of the handler throws away a block that one of them may still find.
THEOREM NullIsLast == Spec => NullAfterBoth
<1> DEFINE NullEnds == (waiter # "none" /\ waiter' = "none" /\ reply'.kind = "null") =>
                          \A t \in Threads : pc[t] = "idle"
<1>1. ASSUME TypeOK, Control, ChannelsHold, [Next]_vars, waiter # "none", waiter' = "none", reply'.kind = "null"
      PROVE  \A t \in Threads : pc[t] = "idle"
  <2>1. IsByHash /\ op # NoOp /\ reply = NoReplyYet
    BY <1>1 DEF Control, AtRest, Replied
  <2>2. Receive
    <3>1. ~Ask /\ ~AnswerTransaction
      BY <2>1, Begun, <1>1 DEF AnswerTransaction, IsByHash
    <3>2. ~Finish
      BY <2>1 DEF Finish
    <3>3. ~NodeChanges /\ ~UNCHANGED vars /\ ~LookUp
      BY <1>1 DEF NodeChanges, blockVars, vars, LookUp
    <3>4. ~OtherStep
      BY <1>1, OtherCalls DEF OtherStep
    <3>5. \A t \in Threads : ~(TransactionStep(t) /\ UNCHANGED <<blockVars, reply>>)
      BY <1>1 DEF blockVars
    <3>6. ASSUME NEW t \in Threads, BlockStep(t) PROVE FALSE
      <4>1. GetLatest(t) \/ GetHash(t) \/ Opens(t) => waiter' = waiter
        BY DEF GetLatest, GetHash, Opens, blockVars
      <4>2. \A r \in Answered : Gives(t, r) => waiter' = waiter
        BY <1>1, Sends DEF Gives
      <4>3. \A b : Takes(t, b) => waiter' = waiter
        BY DEF Takes
      <4> QED BY <1>1, <3>6, <4>1, <4>2, <4>3, BlockCases DEF BlockCase
    <3> QED BY <1>1, <3>1, <3>2, <3>3, <3>4, <3>5, <3>6, LogsGoOn, QueryGoesOn, PaymentGoesOn
            DEF Next, Translate
  <2>3. waiter \in {"afterNull", "afterError"} /\ (chans.result # <<>> \/ chans.backupError)
    <3>1. ~ReceiveFirst /\ ~ReceiveError
      <4>1. ReceiveFirst => (FirstResult.kind # "null" /\ reply' = FirstResult) \/ waiter' = "afterNull"
        BY DEF ReceiveFirst, Answers, Replies, WaitsAgain
      <4>2. ReceiveError => waiter' = "afterError"
        BY DEF ReceiveError, WaitsAgain
      <4> QED BY <1>1, <4>1, <4>2
    <3> QED BY <2>2, <3>1 DEF Receive, ReceiveSecond
  <2>4. Taken = 1 /\ Len(chans.result) \in Nat
    BY <1>1, <2>3 DEF Taken, TypeOK
  <2>5. Len(chans.result) + BackupFailures >= 1
    <3>1. chans.result # <<>> => Len(chans.result) >= 1
      BY <1>1 DEF TypeOK
    <3>2. BackupFailures \in {0, 1} /\ (chans.backupError => BackupFailures = 1)
      BY DEF BackupFailures
    <3> QED BY <2>3, <2>4, <3>1, <3>2
  <2>6. \A n \in {Ended("main"), Ended("backup"), Failures, BackupFailures} : n \in {0, 1}
    BY DEF Ended, Failures, BackupFailures
  <2>7. Ended("main") = 1 /\ Ended("backup") = 1
    BY <1>1, <2>4, <2>5, <2>6 DEF ChannelsHold
  <2> QED BY <2>7 DEF Ended, Threads
<1>2. TypeOK /\ Control /\ ChannelsHold /\ [Next]_vars => (TypeOK /\ Control /\ ChannelsHold)' /\ [NullEnds]_vars
  BY <1>1, StepsKeep, HoldsGoesOn
<1>3. Init => ChannelsHold
  BY DEF Init, ChannelsHold
<1> QED BY <1>2, <1>3, StartsWell, PTL DEF Spec, NullAfterBoth
-----------------------------------------------------------------------------
(* What is told of a transaction                                             *)

WasThere(x, p) == p \in {Place(x, b) : b \in tips}
Quiet == failures = 0 /\ tips = {tip}

\* What is told of the place of a transaction was so at some time of the call,
\* and in a quiet call it is so, unless the cache was asked or the transaction
\* is nowhere.
TrueAnswer(r) ==
    r.place \in Blocks =>
        /\ r.tx \in Range(body[r.place])
        /\ r.number = height[r.place]
        /\ r.index = Index(r.tx, r.place) \/ r.path = "raw"
        /\ WasThere(r.tx, r.place) \/ r.outdated
QuietPlace(x, r) ==
    Quiet =>
        /\ r.path # "raw"
        /\ r.outdated \/ r.place = Place(x, tip) \/ Place(x, tip) = Unknown
Sound(r) == TrueAnswer(r) /\ QuietPlace(r.tx, r)

\* What a thread knows while it puts the answer together.
ViewIsTrue(t) ==
    view[t].place \in Blocks =>
        /\ pc[t] \in {"rewardOut", "sender", "receiptRaw", "receiptDecode"} =>
             view[t].number = height[view[t].place]
        /\ pc[t] # "rewardIndex" => view[t].index = Index(tx[t], view[t].place) \/ view[t].path = "raw"
        /\ WasThere(tx[t], view[t].place) \/ view[t].outdated
Knows(t) ==
    /\ ViewIsTrue(t)
    /\ pc[t] \in Found => QuietPlace(tx[t], view[t])
    /\ pc[t] = "raw" => ~Quiet
    /\ result[t].kind = "tx" => Sound(result[t])

\* It stays true while the call goes on: the tips of the call only grow.
LEMMA SoundStays ==
  ASSUME TypeOK, tips \subseteq tips', failures' \in Nat, failures <= failures', tip' \in tips'
  PROVE  /\ Quiet' => Quiet /\ tip' = tip
         /\ \A x, p : WasThere(x, p) => WasThere(x, p)'
         /\ \A x, r : QuietPlace(x, r) => QuietPlace(x, r)'
         /\ \A r : Sound(r) => Sound(r)'
<1>1. Quiet' => Quiet /\ tip' = tip
  <2> SUFFICES ASSUME Quiet' PROVE Quiet /\ tip' = tip
    OBVIOUS
  <2>1. failures' = 0 /\ tips' = {tip'}
    BY DEF Quiet
  <2>2. failures = 0
    BY <2>1, NodeAssumption DEF TypeOK
  <2>3. tip = tip' /\ tips = {tip}
    BY <2>1 DEF TypeOK
  <2> QED BY <2>2, <2>3 DEF Quiet
<1>2. \A x, p : WasThere(x, p) => WasThere(x, p)'
  BY DEF WasThere, Place
<1>3. \A x, r : QuietPlace(x, r) => QuietPlace(x, r)'
  BY <1>1 DEF QuietPlace, Place
<1>4. \A r : TrueAnswer(r) => TrueAnswer(r)'
  BY <1>2 DEF TrueAnswer
<1> QED BY <1>1, <1>2, <1>3, <1>4 DEF Sound

\* A thread that learns nothing.
LEMMA KnowsStays ==
  ASSUME TypeOK, tips \subseteq tips', failures' \in Nat, failures <= failures', tip' \in tips',
         NEW t \in Threads, Knows(t), pc'[t] = pc[t], tx'[t] = tx[t], view'[t] = view[t], result'[t] = result[t]
  PROVE  Knows(t)'
<1>1. ViewIsTrue(t)'
  BY SoundStays DEF Knows, ViewIsTrue
<1>2. /\ (pc[t] \in Found => QuietPlace(tx[t], view[t]))'
      /\ (pc[t] = "raw" => ~Quiet)'
      /\ (result[t].kind = "tx" => Sound(result[t]))'
  BY SoundStays DEF Knows
<1> QED BY <1>1, <1>2 DEF Knows

\* What a step leaves in its thread.
LEMMA LeavesBehind ==
  ASSUME TypeOK, NEW t \in Threads
  PROVE  /\ \A p, v : Goes(t, p, v) => pc'[t] = p /\ view'[t] = v /\ result'[t] = result[t]
         /\ \A r : Returns(t, r) => pc'[t] = "returned" /\ view'[t] = NoView /\ result'[t] = r
BY DEF Goes, Sees, GoTo, Returns, TypeOK

\* A thread that knows of no place.
LEMMA KnowsNothing ==
  ASSUME NEW t \in Threads, view'[t].place \notin Blocks, pc'[t] \notin Found, pc'[t] = "raw" => ~Quiet',
         (result[t].kind = "tx" => Sound(result[t]))'
  PROVE  Knows(t)'
BY DEF Knows, ViewIsTrue

\* A place found now.
LEMMA FoundNow ==
  ASSUME TypeOK, Control, NEW x \in Txs \cup {Unknown}
  PROVE  /\ GetTransaction(x) \in Blocks => WasThere(x, GetTransaction(x))
         /\ GetTransaction(x) # Unknown => GetTransaction(x) = Place(x, tip) \/ Place(x, tip) = Unknown
         /\ WasThere(x, GetRawTransaction(x)) <=> ~Outdated(x)
         /\ Quiet => Outdated(x) \/ GetRawTransaction(x) = Place(x, tip)
         /\ GetTransactionReceipt(x) \in Blocks =>
              WasThere(x, GetTransactionReceipt(x)) /\ GetTransactionReceipt(x) = Place(x, tip)
<1>1. tip \in tips /\ tip \in Blocks
  BY DEF TypeOK
<1>2. WasThere(x, Place(x, tip))
  BY <1>1 DEF WasThere
<1>3. /\ GetTransaction(x) \in Blocks => GetTransaction(x) = Place(x, tip)
      /\ GetTransaction(x) # Unknown => GetTransaction(x) = Place(x, tip) \/ Place(x, tip) = Unknown
  BY NodeAssumption DEF GetTransaction
<1>4. WasThere(x, GetRawTransaction(x)) <=> ~Outdated(x)
  BY DEF WasThere, Outdated
<1>5. Quiet => Outdated(x) \/ GetRawTransaction(x) = Place(x, tip)
  BY DEF Outdated, Quiet
<1>6. GetTransactionReceipt(x) \in Blocks => GetTransactionReceipt(x) = Place(x, tip)
  BY NodeAnswers DEF Control
<1> QED BY <1>2, <1>3, <1>4, <1>5, <1>6

LEMMA KnowsMore ==
  ASSUME TypeOK, Control, NEW t \in Threads, Knows(t), TransactionStep(t)
  PROVE  Knows(t)'
<1> DEFINE x == tx[t]
<1>0. /\ x \in Txs \cup {Unknown} /\ view[t] \in Views /\ WorksFor(t) /\ ViewFits(t) /\ tip \in tips
      /\ Unknown \notin Blocks /\ Pending \notin Blocks /\ Pending # Unknown
      /\ failures \in Nat
  BY NodeAssumption DEF TypeOK, Control
<1>1. tips' = tips /\ tip' = tip /\ tx'[t] = x /\ op' = op /\ failures' \in Nat /\ failures <= failures'
  BY TransactionGoesOn DEF TxGoesOn, NodeGoesOn
<1>2. /\ Quiet' => Quiet
      /\ \A y, p : WasThere(y, p) => WasThere(y, p)'
      /\ \A y, r : QuietPlace(y, r) => QuietPlace(y, r)'
      /\ \A r : Sound(r) => Sound(r)'
  BY <1>0, <1>1, SoundStays
<1>3. CallFails => ~Quiet'
  BY <1>0 DEF CallFails, Quiet
<1>4. ASSUME NEW p \in Pcs, NEW v, Goes(t, p, v),
             v.place \in Blocks =>
               /\ p \in {"rewardOut", "sender", "receiptRaw", "receiptDecode"} => v.number = height[v.place]
               /\ p # "rewardIndex" => v.index = Index(x, v.place) \/ v.path = "raw"
               /\ WasThere(x, v.place) \/ v.outdated,
             p \in Found => QuietPlace(x, v),
             p = "raw" => ~Quiet'
      PROVE  Knows(t)'
  <2>1. pc'[t] = p /\ view'[t] = v /\ result'[t] = result[t]
    BY <1>4, LeavesBehind
  <2>2. ViewIsTrue(t)'
    BY <1>1, <1>2, <1>4, <2>1 DEF ViewIsTrue
  <2>3. (pc[t] \in Found => QuietPlace(tx[t], view[t]))'
    BY <1>1, <1>2, <1>4, <2>1
  <2> QED BY <1>2, <1>4, <2>1, <2>2, <2>3 DEF Knows
<1>5. ASSUME NEW r, Returns(t, r), r.kind = "tx" => Sound(r) PROVE Knows(t)'
  <2>1. pc'[t] = "returned" /\ view'[t] = NoView /\ result'[t] = r
    BY <1>5, LeavesBehind
  <2>2. (result[t].kind = "tx" => Sound(result[t]))'
    BY <1>2, <1>5, <2>1
  <2>3. view'[t].place \notin Blocks /\ pc'[t] \notin Found /\ pc'[t] # "raw"
    BY <1>0, <2>1, Sorts DEF Found
  <2> QED BY <2>2, <2>3, KnowsNothing
<1>6. Returns(t, Error) \/ Returns(t, Null) => Knows(t)'
  BY <1>5, Sorts
<1>7. RewardFails(t) /\ (CallFails \/ IsReceipt) => Knows(t)'
  <2>1. RewardFails(t) => Returns(t, Error) \/ Returns(t, Null) \/ (~IsReceipt /\ Goes(t, "raw", NoView))
    BY DEF RewardFails
  <2>2. Goes(t, "raw", NoView) /\ CallFails => Knows(t)'
    BY <1>0, <1>3, <1>4, Sorts DEF Found, Pcs
  <2> QED BY <1>6, <2>1, <2>2
<1>8. \A s \in {"none", "script", "input", "receipt"} :
        pc[t] \in {"rewardOut", "sender", "receiptDecode"} /\ Returns(t, TxAnswer(view[t], x, s)) => Knows(t)'
  <2> SUFFICES ASSUME NEW s \in {"none", "script", "input", "receipt"}, Returns(t, TxAnswer(view[t], x, s)),
                      pc[t] \in {"rewardOut", "sender", "receiptDecode"}
               PROVE  Knows(t)'
    OBVIOUS
  <2> DEFINE r == TxAnswer(view[t], x, s)
  <2>1. /\ r.tx = x /\ r.place = view[t].place /\ r.index = view[t].index /\ r.number = view[t].number
        /\ r.path = view[t].path /\ r.outdated = view[t].outdated
    BY <1>0, Sorts
  <2> HIDE DEF r
  <2>2. TrueAnswer(r)
    BY <1>0, <2>1 DEF TrueAnswer, Knows, ViewIsTrue, ViewFits
  <2>3. QuietPlace(r.tx, r)
    BY <2>1 DEF QuietPlace, Knows, Found
  <2>4. Returns(t, r)
    BY DEF r
  <2> QED BY <1>5, <2>2, <2>3, <2>4 DEF Sound
<1>a. \A p \in Found : p \in Pcs
  BY DEF Found, Pcs
<1> HIDE DEF x
<1>9. CASE GetWalletTransaction(t)
  <2> DEFINE p == GetTransaction(x)
             i == IF p = Pending THEN 0 ELSE Index(x, p)
             v == [NoView EXCEPT !.place = p, !.path = "wallet", !.index = i]
  <2>1. \/ p # Unknown /\ Goes(t, "decode", v)
        \/ Goes(t, "reward", NoView)
        \/ Returns(t, Error)
    BY <1>9 DEF GetWalletTransaction, x
  <2>2. /\ p \in Blocks => WasThere(x, p)
        /\ p # Unknown => p = Place(x, tip) \/ Place(x, tip) = Unknown
        /\ p # Pending => i = Index(x, p)
    BY <1>0, FoundNow
  <2> HIDE DEF p, i
  <2>3. v.place = p /\ v.path = "wallet" /\ v.index = i /\ v.outdated = FALSE
    BY DEF NoView
  <2> HIDE DEF v
  <2>4. p # Unknown => QuietPlace(x, v)
    BY <2>2, <2>3 DEF QuietPlace
  <2>5. CASE p # Unknown /\ Goes(t, "decode", v)
    BY <1>0, <1>4, <1>a, <2>2, <2>3, <2>4, <2>5 DEF Found
  <2>6. CASE Goes(t, "reward", NoView)
    BY <1>0, <1>4, <2>6, Sorts DEF Found, Pcs
  <2> QED BY <1>6, <2>1, <2>5, <2>6
<1>10. CASE GetRewardTransaction(t)
  <2> DEFINE p == GetRawTransaction(x)
             v == FromReward(t, p)
  <2>1. \/ p = Unknown /\ (IF IsReceipt THEN RewardFails(t) ELSE Returns(t, Null))
        \/ p = Pending /\ (Returns(t, Null) \/ Goes(t, "decode", v))
        \/ p \in Blocks /\ Goes(t, "rewardIndex", v)
        \/ CallFails /\ RewardFails(t)
    BY <1>10 DEF GetRewardTransaction, RawCallFails, x
  <2>2. v.place = p /\ v.path = "reward" /\ v.outdated = Outdated(x)
    BY <1>0 DEF FromReward, Views, x
  <2>3. QuietPlace(x, v)
    BY <1>0, <2>2, FoundNow DEF QuietPlace
  <2>4. WasThere(x, p) \/ Outdated(x)
    BY <1>0, FoundNow
  <2> HIDE DEF v, p
  <2>5. CASE p = Pending /\ Goes(t, "decode", v)
    BY <1>0, <1>4, <1>a, <2>2, <2>3, <2>5 DEF Found
  <2>6. CASE p \in Blocks /\ Goes(t, "rewardIndex", v)
    BY <1>0, <1>4, <1>a, <2>2, <2>3, <2>4, <2>6 DEF Found
  <2> QED BY <1>6, <1>7, <2>1, <2>5, <2>6
<1>11. CASE GetRewardIndex(t)
  <2> DEFINE v == [view[t] EXCEPT !.index = Index(x, view[t].place)]
  <2>1. /\ pc[t] = "rewardIndex"
        /\ Goes(t, "rewardNumber", v) \/ (CallFails /\ RewardFails(t))
    BY <1>11 DEF GetRewardIndex, At, getTransactionIndexInBlock, x
  <2>2. v.place = view[t].place /\ v.path = view[t].path /\ v.outdated = view[t].outdated
        /\ v.index = Index(x, v.place)
    BY <1>0 DEF Views
  <2> HIDE DEF v
  <2>3. QuietPlace(x, v)
    BY <2>1, <2>2 DEF Knows, QuietPlace, Found, x
  <2>4. v.place \in Blocks => WasThere(x, v.place) \/ v.outdated
    BY <2>2 DEF Knows, ViewIsTrue, x
  <2>5. CASE Goes(t, "rewardNumber", v)
    BY <1>4, <1>a, <2>2, <2>3, <2>4, <2>5 DEF Found
  <2> QED BY <1>7, <2>1, <2>5
<1>12. CASE GetRewardNumber(t) \/ GetNumber(t)
  <2> DEFINE v == [view[t] EXCEPT !.number = height[view[t].place]]
  <2>1. /\ pc[t] \in {"rewardNumber", "number"}
        /\ \/ Goes(t, "rewardOut", v) \/ Goes(t, "sender", v)
           \/ CallFails /\ RewardFails(t)
           \/ Returns(t, Error)
    BY <1>12 DEF GetRewardNumber, GetNumber, At, getBlockNumberByHash, GetBlock
  <2>2. v.place = view[t].place /\ v.path = view[t].path /\ v.outdated = view[t].outdated
        /\ v.index = view[t].index /\ v.number = height[v.place]
    BY <1>0 DEF Views
  <2> HIDE DEF v
  <2>3. QuietPlace(x, v)
    BY <2>1, <2>2 DEF Knows, QuietPlace, Found, x
  <2>4. v.place \in Blocks => (WasThere(x, v.place) \/ v.outdated)
                              /\ (v.index = Index(x, v.place) \/ v.path = "raw")
    BY <2>1, <2>2 DEF Knows, ViewIsTrue, x
  <2>5. CASE Goes(t, "rewardOut", v) \/ Goes(t, "sender", v)
    BY <1>4, <1>a, <2>2, <2>3, <2>4, <2>5 DEF Found
  <2> QED BY <1>6, <1>7, <2>1, <2>5
<1>13. ASSUME NEW p \in {"decode", "number", "sender", "receiptDecode"}, Goes(t, p, view[t]),
              pc[t] \in {"rewardOut", "decode", "receiptRaw"},
              p \in {"sender", "receiptDecode"} => pc[t] \in {"rewardOut", "receiptRaw"} \/ view[t].place = Pending
       PROVE  Knows(t)'
  <2>1. QuietPlace(x, view[t]) /\ p \in Pcs
    BY <1>13 DEF Knows, Found, Pcs, x
  <2>2. view[t].place \in Blocks =>
          /\ p \in {"rewardOut", "sender", "receiptRaw", "receiptDecode"} => view[t].number = height[view[t].place]
          /\ view[t].index = Index(x, view[t].place) \/ view[t].path = "raw"
          /\ WasThere(x, view[t].place) \/ view[t].outdated
    BY <1>0, <1>13 DEF Knows, ViewIsTrue, x
  <2> QED BY <1>4, <1>13, <2>1, <2>2
<1>14. CASE GetRewardOutputs(t)
  <2>1. /\ pc[t] = "rewardOut"
        /\ \/ Returns(t, TxAnswer(view[t], x, "none")) \/ Goes(t, "decode", view[t])
           \/ CallFails /\ RewardFails(t)
    BY <1>14 DEF GetRewardOutputs, At, x
  <2> QED BY <1>7, <1>8, <1>13, <2>1
<1>15. CASE GetRaw(t)
  <2> DEFINE p == GetRawTransaction(x)
             v == [NoView EXCEPT !.place = p, !.path = "raw", !.index = RawIndex, !.outdated = Outdated(x)]
  <2>1. /\ pc[t] = "raw"
        /\ Goes(t, "decode", v) \/ Returns(t, Null) \/ Returns(t, Error)
    BY <1>15 DEF GetRaw, At, x
  <2>2. v.place = p /\ v.path = "raw" /\ v.outdated = Outdated(x)
    BY DEF NoView
  <2>3. WasThere(x, p) \/ Outdated(x)
    BY <1>0, FoundNow
  <2> HIDE DEF v, p
  <2>4. QuietPlace(x, v)
    BY <2>1 DEF Knows, QuietPlace
  <2>5. CASE Goes(t, "decode", v)
    BY <1>0, <1>4, <1>a, <2>2, <2>3, <2>4, <2>5 DEF Found
  <2> QED BY <1>6, <2>1, <2>5
<1>16. CASE Decode(t)
  <2>1. /\ pc[t] = "decode"
        /\ \/ Goes(t, IF view[t].place = Pending THEN "sender" ELSE "number", view[t])
           \/ Returns(t, Error)
    BY <1>16 DEF Decode, At
  <2> QED BY <1>6, <1>13, <2>1
<1>17. CASE GetSender(t)
  <2>1. /\ pc[t] = "sender"
        /\ \/ Returns(t, TxAnswer(view[t], x, "script")) \/ Returns(t, TxAnswer(view[t], x, "input"))
           \/ Returns(t, TxAnswer(view[t], x, "none")) \/ Returns(t, Error)
    BY <1>17 DEF GetSender, At, SenderFails, x
  <2> QED BY <1>6, <1>8, <2>1
<1>18. CASE GetReceipt(t)
  <2> DEFINE p == GetTransactionReceipt(x)
             n == height[p]
             i == Index(x, p)
             v == [NoView EXCEPT !.place = p, !.number = n, !.index = i, !.path = "receipt"]
             e == [NoView EXCEPT !.cause = "empty"]
             f == [NoView EXCEPT !.cause = "failed"]
  <2>1. (p # Unknown /\ Goes(t, "receiptRaw", v)) \/ Goes(t, "reward", e) \/ Goes(t, "reward", f)
    BY <1>18 DEF GetReceipt, x
  <2>2. p # Unknown => p \in Blocks /\ WasThere(x, p) /\ p = Place(x, tip)
    BY <1>0, FoundNow, NodeAnswers DEF Control
  <2>3. n = height[p] /\ i = Index(x, p)
    OBVIOUS
  <2> HIDE DEF p, n, i
  <2>4. v.place = p /\ v.number = n /\ v.index = i /\ v.path = "receipt"
    BY DEF NoView
  <2>5. e.place = Unknown /\ f.place = Unknown
    BY DEF NoView
  <2> HIDE DEF v, e, f
  <2>6. p # Unknown => QuietPlace(x, v)
    BY <2>2, <2>4 DEF QuietPlace
  <2>7. CASE p # Unknown /\ Goes(t, "receiptRaw", v)
    BY <1>4, <1>a, <2>2, <2>3, <2>4, <2>6, <2>7 DEF Found
  <2>8. CASE Goes(t, "reward", e) \/ Goes(t, "reward", f)
    BY <1>0, <1>4, <2>5, <2>8 DEF Found, Pcs
  <2> QED BY <2>1, <2>7, <2>8
<1>19. CASE GetReceiptRaw(t)
  <2>1. pc[t] = "receiptRaw" /\ (Goes(t, "receiptDecode", view[t]) \/ Returns(t, Error))
    BY <1>19 DEF GetReceiptRaw, At
  <2> QED BY <1>6, <1>13, <2>1
<1>20. CASE DecodeReceipt(t)
  <2>1. pc[t] = "receiptDecode" /\ (Returns(t, TxAnswer(view[t], x, "receipt")) \/ Returns(t, Error))
    BY <1>20 DEF DecodeReceipt, At, x
  <2> QED BY <1>6, <1>8, <2>1
<1> QED
  BY <1>9, <1>10, <1>11, <1>12, <1>14, <1>15, <1>16, <1>17, <1>18, <1>19, <1>20 DEF TransactionStep

\* How a call goes on, the steps of one thread aside.
LEMMA NextCases ==
  ASSUME TypeOK, Control, [Next]_vars
  PROVE  \/ Ask \/ LookUp \/ Receive \/ OtherStep \/ AnswerTransaction \/ Finish \/ NodeChanges
         \/ UNCHANGED vars
         \/ \E t \in Threads : TransactionStep(t) /\ UNCHANGED <<blockVars, reply>>
         \/ \E t \in Threads : BlockCase(t)
BY BlockCases, LogsGoOn, QueryGoesOn, PaymentGoesOn DEF Next, Translate

SoundTxs(s) == \A i \in DOMAIN s : Sound(s[i])
SoundBlock(r) == r.kind = "block" /\ Full => r.txs \in Seq(Translated) /\ SoundTxs(r.txs)

\* What a thread, the channels and the answer say of transactions is true.
PlacesInv ==
    /\ \A t \in Threads : Knows(t) /\ SoundTxs(block[t].txs)
    /\ \A i \in DOMAIN chans.result : SoundBlock(chans.result[i])
    /\ ~IsByHash => chans.result = <<>>
    /\ reply.kind = "tx" => Sound(reply)
    /\ SoundBlock(reply)

\* The history of a call only grows while it goes on.
GoesOn ==
    /\ tips \subseteq tips' /\ tip' \in tips' /\ failures' \in Nat /\ failures <= failures'
    /\ Full' <=> Full

LEMMA GoesOnSoundly ==
  ASSUME TypeOK, GoesOn
  PROVE  (\A s : SoundTxs(s) => SoundTxs(s)') /\ (\A r : SoundBlock(r) => SoundBlock(r)')
<1>1. \A s : SoundTxs(s) => SoundTxs(s)'
  BY SoundStays DEF GoesOn, SoundTxs
<1> QED BY <1>1 DEF SoundBlock, GoesOn

LEMMA StepsGoOn == TypeOK /\ NodeGoesOn => tips \subseteq tips' /\ tip' \in tips' /\ failures' \in Nat /\ failures <= failures'
BY DEF NodeGoesOn, TypeOK

\* A thread that is done with a transaction, or has none.
LEMMA KnowsResult ==
  ASSUME TypeOK, GoesOn, NEW t \in Threads, Knows(t), result'[t] = result[t], view'[t].place \notin Blocks,
         pc'[t] \notin Found, pc'[t] # "raw"
  PROVE  Knows(t)'
<1>1. (result[t].kind = "tx" => Sound(result[t]))'
  BY SoundStays DEF Knows, GoesOn
<1> QED BY <1>1, KnowsNothing

LEMMA GainsSound ==
  ASSUME TypeOK, NEW t \in Threads, Knows(t), SoundTxs(block[t].txs), NEW b \in PartialBlocks, Gains(t, b)
  PROVE  SoundTxs(b.txs)
<1>1. block[t].txs \in Seq(Translated)
  BY DEF TypeOK, PartialBlocks
<1>2. CASE b.txs = block[t].txs
  BY <1>2
<1>3. CASE result[t].kind = "tx" /\ result[t] \in Translated /\ b.txs = Append(block[t].txs, result[t])
  <2>1. Sound(result[t])
    BY <1>3 DEF Knows
  <2>2. \A i \in DOMAIN b.txs : (i \in DOMAIN block[t].txs /\ b.txs[i] = block[t].txs[i]) \/ b.txs[i] = result[t]
    BY <1>1, <1>3
  <2> QED BY <2>1, <2>2 DEF SoundTxs
<1> QED BY <1>2, <1>3 DEF Gains

LEMMA EarnedSound ==
  ASSUME TypeOK, NEW t \in Threads, Knows(t), SoundTxs(block[t].txs), NEW r \in Answered, Earned(t, r)
  PROVE  SoundBlock(r) /\ r.kind \in {"null", "error", "block"}
<1>1. ASSUME NEW b \in PartialBlocks, Gains(t, b), r = BlockAnswer(b) PROVE SoundBlock(r)
  <2>1. SoundTxs(b.txs)
    BY <1>1, GainsSound
  <2>2. r.txs = b.txs /\ b.txs \in Seq(Translated)
    BY <1>1 DEF BlockAnswer, PartialBlocks
  <2> QED BY <2>1, <2>2 DEF SoundBlock
<1>2. ~Full => SoundBlock(r)
  BY DEF SoundBlock
<1>3. r \in {Null, Error} => SoundBlock(r)
  BY DEF SoundBlock, Null, Error
<1>4. r.kind \in {"null", "error", "block"}
  BY DEF Answered, BlockAnswers, Null, Error
<1> QED BY <1>1, <1>2, <1>3, <1>4 DEF Earned

LEMMA GivesSound ==
  ASSUME TypeOK, Control, PlacesInv, NEW t \in Threads, NEW r \in Answered, Gives(t, r), Earned(t, r)
  PROVE  PlacesInv'
<1>1. /\ pc' = [pc EXCEPT ![t] = "idle"] /\ view' = view /\ result' = result
      /\ block' = [block EXCEPT ![t] = NoBlock] /\ op' = op /\ tx' = tx
      /\ pc[t] \in {"header", "block", "returned"}
  BY Sends DEF Gives
<1>2. reply = NoReplyYet /\ WorksFor(t) /\ ViewFits(t)
  BY <1>1, Working
<1>3. NodeGoesOn
  BY NodeSteps DEF Gives, Control
<1>4. GoesOn /\ IsByHash' = IsByHash
  BY <1>1, <1>3, StepsGoOn DEF GoesOn, Full, IsByHash
<1>5. view'[t].place \notin Blocks
  BY <1>1, <1>2, Sorts, NodeAssumption DEF ViewFits, Reading
<1>6. Knows(t)'
  <2>1. pc'[t] = "idle"
    BY <1>1 DEF TypeOK
  <2> QED BY <1>1, <1>4, <1>5, <2>1, KnowsResult DEF PlacesInv, Found
<1>7. ASSUME NEW u \in Threads, u # t PROVE Knows(u)'
  BY <1>1, <1>4, <1>7, KnowsStays DEF PlacesInv, GoesOn, TypeOK
<1>8. ASSUME NEW u \in Threads PROVE SoundTxs(block[u].txs)'
  <2>1. CASE u = t
    <3>1. block'[u].txs = <<>>
      BY <1>1, <2>1 DEF TypeOK, NoBlock
    <3> QED BY <3>1 DEF SoundTxs
  <2>2. CASE u # t
    <3>1. block'[u] = block[u] /\ SoundTxs(block[u].txs)
      BY <1>1, <2>2 DEF TypeOK, PlacesInv
    <3> QED BY <1>4, <3>1, GoesOnSoundly
  <2> QED BY <2>1, <2>2
<1>a. SoundBlock(r) /\ r.kind \in {"null", "error", "block"}
  BY EarnedSound DEF PlacesInv
<1>b. \A q : SoundBlock(q) => SoundBlock(q)'
  BY <1>4, GoesOnSoundly
<1>9. SoundBlock(r) /\ r.kind \in {"null", "error", "block"} /\ SoundBlock(r)'
  BY <1>a, <1>b
<1>10. ASSUME NEW i \in DOMAIN chans.result, NEW q, q = chans.result[i] PROVE SoundBlock(q)'
  <2>1. SoundBlock(q)
    BY <1>10 DEF PlacesInv
  <2> QED BY <1>b, <2>1
<1>11. reply.kind # "tx" /\ reply.kind # "block"
  BY <1>2 DEF NoReplyYet
<1>12. CASE IsByHash
  <2>1. reply' = reply
    BY <1>12, Sends DEF Gives
  <2>2. chans'.result = chans.result \/ chans'.result = Append(chans.result, r)
    BY <1>12, Sends DEF Gives
  <2>3. chans.result \in Seq({Null} \cup BlockAnswers)
    BY DEF TypeOK
  <2>4. \A i \in DOMAIN chans'.result :
          (i \in DOMAIN chans.result /\ chans'.result[i] = chans.result[i]) \/ chans'.result[i] = r
    BY <2>2, <2>3
  <2>5. (\A i \in DOMAIN chans.result : SoundBlock(chans.result[i]))'
    <3> SUFFICES ASSUME NEW i \in DOMAIN chans'.result PROVE SoundBlock(chans.result[i])'
      OBVIOUS
    <3> QED BY <1>9, <1>10, <2>4
  <2>6. (reply.kind = "tx" => Sound(reply))' /\ SoundBlock(reply)'
    BY <1>11, <2>1 DEF SoundBlock
  <2> QED BY <1>4, <1>6, <1>7, <1>8, <1>12, <2>5, <2>6 DEF PlacesInv
<1>13. CASE ~IsByHash
  <2>1. chans' = chans /\ reply' = IF op.name = "byIndex" THEN AtIndex(r) ELSE r
    BY <1>13, Sends DEF Gives
  <2>2. (\A i \in DOMAIN chans.result : SoundBlock(chans.result[i]))' /\ chans'.result = <<>>
    BY <1>13, <2>1 DEF PlacesInv
  <2>3. (reply.kind = "tx" => Sound(reply))' /\ SoundBlock(reply)'
    <3>1. CASE reply' = r
      BY <1>9, <3>1
    <3>2. CASE reply' = Null
      BY <3>2 DEF Null, SoundBlock
    <3>3. CASE op.name = "byIndex" /\ r.kind = "block" /\ op.index < Len(r.txs) /\ reply' = r.txs[op.index + 1]
      <4>1. op.index \in Nat
        BY <3>3, Indexed
      <4>2. r.txs \in Seq(Translated) /\ SoundTxs(r.txs)
        BY <1>9, <3>3 DEF SoundBlock, Full
      <4>3. op.index + 1 \in DOMAIN r.txs /\ reply' \in Translated
        BY <3>3, <4>1, <4>2
      <4>4. Sound(r.txs[op.index + 1]) /\ reply'.kind = "tx"
        BY <4>2, <4>3, Sorts DEF SoundTxs
      <4>6. Sound(reply)'
        BY <3>3, <4>4, <1>4, SoundStays DEF GoesOn
      <4> QED BY <4>4, <4>6 DEF SoundBlock
    <3>4. CASE reply' = [kind |-> "panic"]
      BY <3>4 DEF SoundBlock
    <3> QED BY <2>1, <3>1, <3>2, <3>3, <3>4, Indexed
  <2> QED BY <1>6, <1>7, <1>8, <2>2, <2>3 DEF PlacesInv
<1> QED BY <1>12, <1>13

\* A step that tells nothing new.
LEMMA NothingNew ==
  ASSUME TypeOK, PlacesInv, GoesOn, \A t \in Threads : Knows(t)',
         \A t \in Threads : block'[t].txs = block[t].txs \/ block'[t].txs = <<>>,
         \A i \in DOMAIN chans'.result : \E j \in DOMAIN chans.result : chans'.result[i] = chans.result[j],
         ~IsByHash' => chans'.result = <<>>,
         reply' = reply \/ reply'.kind \notin {"tx", "block"}
  PROVE  PlacesInv'
<1>1. ASSUME NEW t \in Threads PROVE SoundTxs(block[t].txs)'
  <2>1. CASE block'[t].txs = <<>>
    BY <2>1 DEF SoundTxs
  <2>2. CASE block'[t].txs = block[t].txs
    <3>1. SoundTxs(block[t].txs)
      BY DEF PlacesInv
    <3> QED BY <2>2, <3>1, GoesOnSoundly
  <2> QED BY <2>1, <2>2
<1>2. \A q : SoundBlock(q) => SoundBlock(q)'
  BY GoesOnSoundly
<1>3. (\A i \in DOMAIN chans.result : SoundBlock(chans.result[i]))'
  <2> SUFFICES ASSUME NEW i \in DOMAIN chans'.result PROVE SoundBlock(chans.result[i])'
    OBVIOUS
  <2>1. PICK j \in DOMAIN chans.result : chans'.result[i] = chans.result[j]
    OBVIOUS
  <2>2. SoundBlock(chans.result[j])
    BY DEF PlacesInv
  <2> QED BY <1>2, <2>1, <2>2
<1>4. (reply.kind = "tx" => Sound(reply))' /\ SoundBlock(reply)'
  <2>1. CASE reply' = reply
    <3>1. \A q : Sound(q) => Sound(q)'
      BY SoundStays DEF GoesOn
    <3> QED BY <1>2, <2>1, <3>1 DEF PlacesInv
  <2>2. CASE reply'.kind \notin {"tx", "block"}
    BY <2>2 DEF SoundBlock
  <2> QED BY <2>1, <2>2
<1> QED BY <1>1, <1>3, <1>4 DEF PlacesInv

\* A thread whose step is not about a transaction.
LEMMA KnowsAsBefore ==
  ASSUME TypeOK, Control, PlacesInv, GoesOn, NEW t \in Threads, view' = view, result' = result,
         pc[t] \notin Reading, pc'[t] \notin Found, pc'[t] # "raw"
  PROVE  Knows(t)'
<1>1. view'[t].place \notin Blocks
  BY Sorts, NodeAssumption DEF Control, ViewFits
<1> QED BY <1>1, KnowsResult DEF PlacesInv

LEMMA BlocksSound ==
  ASSUME TypeOK, Control, PlacesInv, NEW t \in Threads, BlockCase(t)
  PROVE  PlacesInv'
<1>1. CASE \E r \in Answered : Gives(t, r) /\ Earned(t, r)
  BY <1>1, GivesSound
<1>2. ASSUME UNCHANGED <<view, result>>, UNCHANGED chans, NodeGoesOn, Full' <=> Full, IsByHash' = IsByHash,
             pc[t] \in {"latest", "hash", "header", "block", "returned"},
             NEW p \in {"idle", "hash", "header", "block", "gettransaction"}, pc' = [pc EXCEPT ![t] = p],
             tx' = tx \/ tx' = [tx EXCEPT ![t] = tx'[t]],
             \A u \in Threads : block'[u].txs = block[u].txs \/ block'[u].txs = <<>>,
             reply' = reply \/ reply'.kind \notin {"tx", "block"}
      PROVE  PlacesInv'
  <2>1. GoesOn
    BY <1>2, StepsGoOn DEF GoesOn
  <2>2. Knows(t)'
    BY <1>2, <2>1, KnowsAsBefore DEF TypeOK, Reading, Found
  <2>3. ASSUME NEW u \in Threads, u # t PROVE Knows(u)'
    BY <1>2, <2>1, <2>3, KnowsStays DEF PlacesInv, GoesOn, TypeOK
  <2>4. \A u \in Threads : Knows(u)'
    BY <2>2, <2>3
  <2> QED BY <1>2, <2>1, <2>4, NothingNew DEF PlacesInv
<1>3. CASE GetLatest(t)
  <2>1. /\ pc[t] = "latest" /\ UNCHANGED <<tx, view, result, blockVars>>
        /\ \/ /\ op' = [op EXCEPT !.number = height[tip]]
              /\ pc' = [pc EXCEPT ![t] = "hash"] /\ reply' = reply /\ UNCHANGED nodeVars
           \/ CallFails /\ pc' = [pc EXCEPT ![t] = "idle"] /\ reply' = Error /\ UNCHANGED op
    BY <1>3 DEF GetLatest, GetBlockChainInfo, GoTo, Replies, NoReply
  <2>2. op.name \in {"getBlockByNumber", "byIndex"} /\ op.asked \in BlockParams
    BY <2>1, Working DEF WorksFor
  <2>3. (Full' <=> Full) /\ IsByHash' = IsByHash
    <3>1. op \in Ops /\ height[tip] \in Nat
      BY HeightDef DEF TypeOK
    <3> DEFINE q == [op EXCEPT !.number = height[tip]]
    <3>2. q.name = op.name /\ (op.name # "byIndex" => q.full = op.full)
      BY <2>2, <3>1, OpMoves
    <3>3. op' = op \/ op' = q
      BY <2>1
    <3> HIDE DEF q
    <3> QED BY <2>2, <3>2, <3>3 DEF Full, IsByHash
  <2>4. NodeGoesOn /\ Error.kind = "error"
    BY <2>1, NodeSteps DEF Control, Error
  <2> QED BY <1>2, <2>1, <2>3, <2>4 DEF blockVars
<1>4. CASE GetHash(t)
  <2>1. /\ pc[t] = "hash" /\ UNCHANGED <<op, tx, view, result, chans>>
        /\ UNCHANGED nodeVars \/ CallFails
        /\ \E p \in {"idle", "header"} : pc' = [pc EXCEPT ![t] = p]
        /\ block' = block \/ \E h : block' = [block EXCEPT ![t].hash = h]
        /\ reply' \in {reply, Null, Error}
    BY <1>4 DEF GetHash, At, GoTo, Replies, NoReply
  <2>2. \A u \in Threads : block'[u].txs = block[u].txs
    <3>1. ASSUME NEW h, block' = [block EXCEPT ![t].hash = h], NEW u \in Threads
          PROVE  block'[u].txs = block[u].txs
      BY <3>1 DEF TypeOK, PartialBlocks
    <3> QED BY <2>1, <3>1
  <2>3. NodeGoesOn /\ Error.kind = "error" /\ Null.kind = "null" /\ (Full' <=> Full) /\ IsByHash' = IsByHash
    BY <2>1, NodeSteps DEF Control, Error, Null, Full, IsByHash
  <2> QED BY <1>2, <2>1, <2>2, <2>3
<1>5. CASE Opens(t)
  <2>1. NodeGoesOn /\ (Full' <=> Full) /\ IsByHash' = IsByHash
    BY <1>5, NodeSteps DEF Opens, Control, Full, IsByHash
  <2> QED BY <1>2, <1>5, <2>1 DEF Opens, blockVars
<1>6. ASSUME NEW b \in PartialBlocks, Takes(t, b), Gains(t, b)
      PROVE  PlacesInv'
  <2>1. NodeGoesOn /\ (Full' <=> Full) /\ IsByHash' = IsByHash /\ reply = NoReplyYet
    BY <1>6, NodeSteps, Working DEF Takes, Control, Full, IsByHash
  <2>2. GoesOn
    BY <2>1, StepsGoOn DEF GoesOn
  <2>3. Knows(t)'
    BY <1>6, <2>2, KnowsAsBefore DEF Takes, TypeOK, Reading, Found
  <2>4. ASSUME NEW u \in Threads, u # t PROVE Knows(u)'
    BY <1>6, <2>2, <2>4, KnowsStays DEF Takes, PlacesInv, GoesOn, TypeOK
  <2>5. \A q : SoundBlock(q) => SoundBlock(q)'
    BY <2>2, GoesOnSoundly
  <2>6. SoundTxs(b.txs)
    BY <1>6, GainsSound DEF PlacesInv
  <2>7. ASSUME NEW u \in Threads PROVE SoundTxs(block[u].txs)'
    <3>1. CASE u = t
      <4>1. block'[t].txs = b.txs
        BY <1>6 DEF Takes, TypeOK, PartialBlocks
      <4> QED BY <2>2, <2>6, <3>1, <4>1, GoesOnSoundly
    <3>2. CASE u # t
      <4>1. block'[u] = block[u] /\ SoundTxs(block[u].txs)
        BY <1>6, <3>2 DEF Takes, TypeOK, PlacesInv
      <4> QED BY <2>2, <4>1, GoesOnSoundly
    <3> QED BY <3>1, <3>2
  <2>8. (\A i \in DOMAIN chans.result : SoundBlock(chans.result[i]))' /\ (~IsByHash => chans.result = <<>>)'
    BY <1>6, <2>1, <2>5 DEF Takes, PlacesInv
  <2>9. (reply.kind = "tx" => Sound(reply))' /\ SoundBlock(reply)'
    BY <1>6, <2>1 DEF Takes, NoReplyYet, SoundBlock
  <2> QED BY <2>3, <2>4, <2>7, <2>8, <2>9 DEF PlacesInv
<1> QED BY <1>1, <1>3, <1>4, <1>5, <1>6 DEF BlockCase

LEMMA ReceiveSound ==
  ASSUME TypeOK, Control, PlacesInv, Receive
  PROVE  PlacesInv'
<1>1. UNCHANGED nodeVars /\ op' = op /\ tx' = tx /\ chans.result \in Seq({Null} \cup BlockAnswers) /\ reply = NoReplyYet
  BY DEF Receive, ReceiveFirst, ReceiveError, ReceiveSecond, TypeOK, Control, Replied
<1>2. GoesOn
  BY <1>1, NodeSteps, StepsGoOn DEF Control, GoesOn, Full
<1>3. ASSUME NEW r, Answers(r), SoundBlock(r), r.kind # "tx" PROVE PlacesInv'
  <2>1. /\ reply' = r /\ chans'.result = <<>>
        /\ \A t \in Threads : /\ pc'[t] = "idle" /\ block'[t] = NoBlock /\ view'[t] = NoView
                              /\ result'[t] = NoResult
    BY <1>3 DEF Answers, Replies, NoChans
  <2>2. \A t \in Threads : Knows(t)'
    <3>1. NoResult.kind # "tx" /\ NoView.place \notin Blocks
      BY Sorts, NodeAssumption
    <3> QED BY <2>1, <3>1, KnowsNothing DEF Found
  <2>3. \A t \in Threads : SoundTxs(block[t].txs)'
    BY <2>1 DEF NoBlock, SoundTxs
  <2>4. SoundBlock(r)'
    BY <1>2, <1>3, GoesOnSoundly
  <2> QED BY <1>3, <2>1, <2>2, <2>3, <2>4 DEF PlacesInv
<1>4. ASSUME NEW w, NEW c, WaitsAgain(w, c), c.result \in {chans.result, Tail(chans.result)},
             c.result # chans.result => chans.result # <<>>
      PROVE  PlacesInv'
  <2>1. UNCHANGED <<pc, view, result, block, reply>> /\ chans' = c
    BY <1>4 DEF WaitsAgain, NoReply
  <2>2. \A t \in Threads : Knows(t)'
    BY <1>1, <1>2, <2>1, KnowsStays DEF PlacesInv, GoesOn
  <2>3. \A i \in DOMAIN chans'.result : \E j \in DOMAIN chans.result : chans'.result[i] = chans.result[j]
    <3>1. CASE c.result = chans.result
      BY <2>1, <3>1
    <3>2. CASE c.result = Tail(chans.result) /\ chans.result # <<>>
      <4>1. \A i \in DOMAIN Tail(chans.result) :
              i + 1 \in DOMAIN chans.result /\ Tail(chans.result)[i] = chans.result[i + 1]
        BY <1>1, <3>2
      <4> QED BY <2>1, <3>2, <4>1
    <3> QED BY <1>4, <3>1, <3>2
  <2>4. IsByHash'
    BY <1>1 DEF Control, IsByHash, Receive, ReceiveFirst, ReceiveError, ReceiveSecond
  <2> QED BY <1>2, <2>1, <2>2, <2>3, <2>4, NothingNew
<1>5. chans.result # <<>> => SoundBlock(FirstResult) /\ FirstResult.kind # "tx"
  <2>1. chans.result # <<>> => 1 \in DOMAIN chans.result /\ FirstResult = chans.result[1]
                               /\ FirstResult \in {Null} \cup BlockAnswers
    BY <1>1 DEF FirstResult
  <2> QED BY <2>1 DEF PlacesInv, BlockAnswers, Null
<1>6. CASE ReceiveFirst
  <2>1. RestOfChans.result = Tail(chans.result)
    BY DEF RestOfChans, TypeOK
  <2> QED BY <1>3, <1>4, <1>5, <1>6, <2>1 DEF ReceiveFirst
<1>7. CASE ReceiveError
  <2>1. [chans EXCEPT !.error = FALSE].result = chans.result
    BY DEF TypeOK
  <2> QED BY <1>4, <1>7, <2>1 DEF ReceiveError
<1>8. CASE ReceiveSecond
  <2>1. SoundBlock(Null) /\ SoundBlock(Error) /\ Null.kind # "tx" /\ Error.kind # "tx"
    BY DEF SoundBlock, Null, Error
  <2> QED BY <1>3, <1>5, <1>8, <2>1 DEF ReceiveSecond
<1> QED BY <1>6, <1>7, <1>8 DEF Receive

LEMMA AnswerSound ==
  ASSUME TypeOK, Control, PlacesInv, AnswerTransaction
  PROVE  PlacesInv'
<1>1. /\ pc["main"] = "returned" /\ op.name \in {"tx", "receipt"} /\ pc' = [pc EXCEPT !["main"] = "idle"]
      /\ UNCHANGED <<nodeVars, txVars, blockVars, coins>> /\ "main" \in Threads
  BY DEF AnswerTransaction, GoTo, Threads
<1>2. GoesOn /\ IsByHash' = IsByHash
  BY <1>1, NodeSteps, StepsGoOn DEF Control, GoesOn, Full, IsByHash, txVars
<1>3. ASSUME NEW t \in Threads PROVE Knows(t)'
  <2>1. CASE t = "main"
    BY <1>1, <1>2, <2>1, KnowsAsBefore DEF txVars, TypeOK, Reading, Found
  <2>2. CASE t # "main"
    BY <1>1, <1>2, <2>2, KnowsStays DEF PlacesInv, GoesOn, TypeOK, txVars
  <2> QED BY <2>1, <2>2
<1> DEFINE r == result["main"]
<1>4. r \in Results /\ (r.kind = "tx" => Sound(r))
  BY <1>1 DEF TypeOK, Results, PlacesInv, Knows
<1>5. r \in Translated => r.kind = "tx"
  BY Sorts
<1>6. (reply.kind = "tx" => Sound(reply))' /\ SoundBlock(reply)'
  <2>1. CASE reply' = r
    <3>1. reply'.kind # "block"
      BY <1>4, <1>5, <2>1, Sorts DEF Results
    <3>2. \A q : Sound(q) => Sound(q)'
      BY <1>2, SoundStays DEF GoesOn
    <3> QED BY <1>4, <2>1, <3>1, <3>2 DEF SoundBlock
  <2>2. ASSUME NEW s, r.kind = "tx",
               reply' = WithAmounts(r, s)
        PROVE  (reply.kind = "tx" => Sound(reply))' /\ SoundBlock(reply)'
    <3>1. r \in Translated
      BY <1>4, <2>2, Sorts DEF Results
    <3>2. /\ reply'.kind = "tx" /\ reply'.tx = r.tx /\ reply'.place = r.place /\ reply'.index = r.index
          /\ reply'.number = r.number /\ reply'.path = r.path /\ reply'.outdated = r.outdated
      <4> DEFINE more == [shape |-> s, value |-> Value(r, s), gas |-> Info(s).gas, gasPrice |-> Info(s).gasPrice]
      <4>1. reply' = [k \in DOMAIN r \cup DOMAIN more |-> IF k \in DOMAIN r THEN r[k] ELSE more[k]]
        BY <2>2 DEF WithAmounts
      <4>2. {"kind", "tx", "place", "index", "number", "path", "outdated"} \subseteq DOMAIN r
        BY <3>1 DEF Translated
      <4> HIDE DEF more
      <4>3. \A k \in {"kind", "tx", "place", "index", "number", "path", "outdated"} : reply'[k] = r[k]
        BY <4>1, <4>2
      <4> QED BY <2>2, <4>3
    <3>3. Sound(r)'
      <4>1. \A q : Sound(q) => Sound(q)'
        BY <1>2, SoundStays DEF GoesOn
      <4> QED BY <1>1, <1>4, <2>2, <4>1 DEF txVars
    <3>4. Sound(reply)'
      BY <1>1, <3>2, <3>3 DEF Sound, TrueAnswer, QuietPlace, txVars
    <3> QED BY <3>2, <3>4 DEF SoundBlock
  <2> QED BY <2>1, <2>2 DEF AnswerTransaction, Replies
<1>7. \A t \in Threads : SoundTxs(block[t].txs)'
  BY <1>1, <1>2, GoesOnSoundly DEF PlacesInv, blockVars
<1>8. (\A i \in DOMAIN chans.result : SoundBlock(chans.result[i]))' /\ (~IsByHash => chans.result = <<>>)'
  BY <1>1, <1>2, GoesOnSoundly DEF PlacesInv, blockVars
<1> QED BY <1>3, <1>6, <1>7, <1>8 DEF PlacesInv

\* At the end, and at the beginning of a call, nothing is told yet.
LEMMA NothingTold ==
  ASSUME \A t \in Threads : pc'[t] \notin Found \cup {"raw"} /\ view'[t].place \notin Blocks
                            /\ result'[t].kind # "tx" /\ block'[t].txs = <<>>,
         chans'.result = <<>>, reply'.kind \notin {"tx", "block"}
  PROVE  PlacesInv'
<1>1. \A t \in Threads : Knows(t)'
  BY KnowsNothing
<1>2. \A t \in Threads : SoundTxs(block[t].txs)'
  BY DEF SoundTxs
<1> QED BY <1>1, <1>2 DEF PlacesInv, SoundBlock

LEMMA PlacesGoOn == TypeOK /\ Control /\ PlacesInv /\ [Next]_vars => PlacesInv'
<1> SUFFICES ASSUME TypeOK, Control, PlacesInv, [Next]_vars PROVE PlacesInv'
  OBVIOUS
<1>0. NoView.place \notin Blocks /\ NoResult.kind = "none" /\ NoReplyYet.kind = "none"
  BY Sorts, NodeAssumption DEF NoReplyYet
<1>1. CASE Ask
  <2>1. /\ op = NoOp /\ UNCHANGED <<view, result, reply>> /\ chans'.result = <<>>
        /\ \A t \in Threads : block'[t].txs = <<>>
    BY <1>1, Begun
  <2>2. reply = NoReplyYet /\ \A t \in Threads : view[t] = NoView /\ result[t] = NoResult /\ pc[t] = "idle"
    BY <2>1, Fresh
  <2>3. \A t \in Threads : pc'[t] \notin Found \cup {"raw"}
    <3>1. {"latest", "hash", "header", "gettransaction", "receipt", "lookup", "idle"} \cap (Found \cup {"raw"}) = {}
          /\ OtherPcs \cap (Found \cup {"raw"}) = {}
      BY DEF Found, OtherPcs
    <3>2. AskBlockByHash => \A t \in Threads : pc'[t] \in {"header", "lookup", "idle"}
      BY DEF AskBlockByHash, Threads
    <3>3. \A o, p : Opened(o, p) => \A t \in Threads : pc'[t] \in {p, "idle"}
      BY <2>2 DEF Opened, TypeOK
    <3>4. AskBlockByHash \/ \E o, p : /\ Opened(o, p)
                                       /\ p \in {"latest", "hash", "header", "gettransaction", "receipt"} \cup OtherPcs
      BY <1>1, AskCases DEF AskCase
    <3> QED BY <3>1, <3>2, <3>3, <3>4
  <2> QED BY <1>0, <2>1, <2>2, <2>3, NothingTold
<1>2. ASSUME NEW t \in Threads, TransactionStep(t), UNCHANGED <<blockVars, reply>>
      PROVE  PlacesInv'
  <2>1. TxGoesOn(t)
    BY <1>2, TransactionGoesOn
  <2>2. GoesOn /\ IsByHash' = IsByHash
    BY <2>1, StepsGoOn DEF TxGoesOn, GoesOn, Full, IsByHash
  <2>3. Knows(t)'
    BY <1>2, KnowsMore DEF PlacesInv
  <2>4. \A u \in Threads \ {t} : Knows(u)'
    BY <2>1, <2>2, KnowsStays DEF PlacesInv, GoesOn, TxGoesOn, Others
  <2>5. \A u \in Threads : Knows(u)'
    BY <2>3, <2>4
  <2> QED BY <1>2, <2>2, <2>5, NothingNew DEF blockVars, PlacesInv
<1>3. CASE LookUp
  <2>1. /\ pc["backup"] = "lookup" /\ UNCHANGED <<op, tx, reply, view, result>> /\ UNCHANGED nodeVars
        /\ "backup" \in Threads
        /\ \E p \in {"header", "idle"} : pc' = [pc EXCEPT !["backup"] = p]
        /\ block' = block \/ \E h : block' = [block EXCEPT !["backup"].hash = h]
        /\ chans' = chans \/ chans' = [chans EXCEPT !.backupError = TRUE]
    BY <1>3 DEF LookUp, At, NoReply, GoTo, Threads
  <2>2. GoesOn /\ IsByHash' = IsByHash
    BY <2>1, NodeSteps, StepsGoOn DEF Control, GoesOn, Full, IsByHash
  <2>3. Knows("backup")'
    BY <2>1, <2>2, KnowsAsBefore DEF TypeOK, Reading, Found
  <2>4. Knows("main")'
    BY <2>1, <2>2, KnowsStays DEF PlacesInv, GoesOn, TypeOK, Threads
  <2>5. chans'.result = chans.result
    BY <2>1 DEF TypeOK
  <2>6. \A u \in Threads : block'[u].txs = block[u].txs
    <3>1. ASSUME NEW h, block' = [block EXCEPT !["backup"].hash = h], NEW u \in Threads
          PROVE  block'[u].txs = block[u].txs
      BY <3>1 DEF TypeOK, PartialBlocks
    <3> QED BY <2>1, <3>1
  <2>7. \A u \in Threads : Knows(u)'
    BY <2>3, <2>4 DEF Threads
  <2> QED BY <2>1, <2>2, <2>5, <2>6, <2>7, NothingNew DEF PlacesInv
<1>4. CASE OtherStep
  <2>1. /\ pc["main"] \in OtherPcs /\ ~IsByHash /\ ~IsByHash' /\ pc["backup"] = "idle"
        /\ UNCHANGED <<tx, view, result, blockVars>> /\ NodeGoesOn
        /\ \E p \in OtherPcs \cup {"idle"} : pc' = [pc EXCEPT !["main"] = p]
        /\ reply'.kind \notin {"tx", "block"} /\ view["main"] = NoView
    BY <1>4, OtherCalls DEF OtherStep, IsByHash
  <2>2. chans'.result = <<>>
    BY <2>1 DEF PlacesInv, blockVars
  <2>3. tips \subseteq tips' /\ tip' \in tips' /\ failures' \in Nat /\ failures <= failures'
    BY <2>1, StepsGoOn
  <2>4. \A q : Sound(q) => Sound(q)'
    BY <2>3, SoundStays
  <2>5. Knows("main")'
    <3>1. pc'["main"] \in OtherPcs \cup {"idle"} /\ "main" \in Threads
      BY <2>1 DEF TypeOK, Threads
    <3>2. (result["main"].kind = "tx" => Sound(result["main"]))'
      BY <2>1, <2>4, <3>1 DEF PlacesInv, Knows
    <3> QED BY <1>0, <2>1, <3>1, <3>2, KnowsNothing DEF OtherPcs, Found
  <2>6. Knows("backup")'
    BY <2>1, <2>3, KnowsStays DEF PlacesInv, TypeOK, Threads
  <2>7. \A t \in Threads : SoundTxs(block[t].txs)'
    BY <2>1, <2>4 DEF PlacesInv, SoundTxs, blockVars
  <2> QED BY <2>1, <2>2, <2>5, <2>6, <2>7 DEF PlacesInv, SoundBlock, Threads
<1>5. CASE Finish
  BY <1>0, <1>5, NothingTold DEF Finish, NoBlock, NoChans, Found
<1>6. CASE NodeChanges \/ UNCHANGED vars
  <2>1. UNCHANGED <<op, tx, view, result, pc, block, chans, reply>>
    BY <1>6 DEF NodeChanges, txVars, blockVars, vars
  <2>2. tips \subseteq tips' /\ tip' \in tips' /\ failures' = failures /\ failures \in Nat
    <3>1. tip \in tips /\ failures \in Nat
      BY NodeAssumption DEF TypeOK
    <3>2. (Move \/ Expire \/ UNCHANGED vars) => tips \subseteq tips' /\ tip' \in tips' /\ failures' = failures
      BY <3>1 DEF Move, Expire, vars, nodeVars
    <3> QED BY <1>6, <3>1, <3>2 DEF NodeChanges
  <2>3. GoesOn /\ IsByHash' = IsByHash
    BY <2>1, <2>2 DEF GoesOn, Full, IsByHash
  <2>4. \A t \in Threads : Knows(t)'
    BY <2>1, <2>3, KnowsStays DEF PlacesInv, GoesOn
  <2> QED BY <2>1, <2>3, <2>4, NothingNew DEF PlacesInv
<1> QED
  BY <1>1, <1>2, <1>3, <1>4, <1>5, <1>6, BlocksSound, ReceiveSound, AnswerSound, NextCases

LEMMA PlacesBegin == Init => PlacesInv
<1> SUFFICES ASSUME Init PROVE PlacesInv
  OBVIOUS
<1>1. \A t \in Threads : pc[t] = "idle" /\ view[t] = NoView /\ result[t] = NoResult /\ block[t] = NoBlock
  BY DEF Init
<1>2. \A t \in Threads : Knows(t) /\ SoundTxs(block[t].txs)
  BY <1>1, Sorts, NodeAssumption DEF Knows, ViewIsTrue, Found, SoundTxs, NoBlock
<1> QED BY <1>2 DEF Init, PlacesInv, SoundBlock, NoChans, NoReplyYet

\* eth_getTransactionByHash, eth_getTransactionReceipt, and the blocks with full
\* transactions: block, height and position of a transaction fit together in
\* every answer, though each is asked of the node for itself and the chain may
\* change in between.
THEOREM PlacesAlwaysTrue == Spec => []PlacesAreTrue
<1>1. TypeOK /\ PlacesInv => PlacesAreTrue
  <2> SUFFICES ASSUME TypeOK, PlacesInv, NEW r \in TxAnswers, r.place \in Blocks
               PROVE  /\ r.tx \in Range(body[r.place])
                      /\ r.number = height[r.place]
                      /\ r.index = Index(r.tx, r.place) \/ r.path = "raw"
                      /\ r.place \in {Place(r.tx, t) : t \in tips} \/ r.outdated
    BY DEF PlacesAreTrue
  <2>1. Sound(r)
    <3>1. CASE reply.kind = "tx"
      BY <3>1 DEF TxAnswers, PlacesInv
    <3>2. CASE reply.kind # "tx"
      <4>1. reply.kind = "block" /\ Full /\ r \in Range(reply.txs)
        BY <3>2 DEF TxAnswers
      <4> QED BY <4>1 DEF PlacesInv, SoundBlock, SoundTxs, Range
    <3> QED BY <3>1, <3>2
  <2> QED BY <2>1 DEF Sound, TrueAnswer, WasThere
<1>2. TypeOK /\ Control /\ PlacesInv /\ [Next]_vars => (TypeOK /\ Control /\ PlacesInv)'
  BY StepsKeep, PlacesGoOn
<1> QED BY <1>1, <1>2, StartsWell, PlacesBegin, PTL DEF Spec
-----------------------------------------------------------------------------
(* Full blocks                                                               *)

\* What a thread has of a block: the transactions that are translated, and
\* those that are left. Of the genesis block nothing can be translated.
InOrder(b) ==
    LET all == body[b.hash]
        n == Len(b.txs)
    IN  IF b.hash = Genesis THEN b.txs = <<>> /\ \A i \in DOMAIN b.rest : b.rest[i] \in Range(all)
        ELSE /\ n + Len(b.rest) = Len(all)
             /\ \A i \in 1..n : b.txs[i].tx = all[i]
             /\ \A i \in 1..Len(b.rest) : b.rest[i] = all[n + i]

\* The same while one transaction is being translated.
Aligned(t) ==
    LET b == block[t]
        all == body[b.hash]
        n == Len(b.txs)
    IN  op.name \in BlockOps /\ pc[t] \in TxPcs =>
          IF b.hash = Genesis
          THEN /\ b.txs = <<>> /\ tx[t] \in Range(all) /\ \A i \in DOMAIN b.rest : b.rest[i] \in Range(all)
               /\ pc[t] \notin Found /\ (pc[t] = "returned" => result[t].kind # "tx")
          ELSE /\ n + 1 + Len(b.rest) = Len(all) /\ tx[t] = all[n + 1]
               /\ \A i \in 1..n : b.txs[i].tx = all[i]
               /\ \A i \in 1..Len(b.rest) : b.rest[i] = all[n + 1 + i]
               /\ pc[t] = "returned" /\ result[t].kind = "tx" => result[t].tx = tx[t]
Unbegun(t) == pc[t] \in {"latest", "hash", "lookup", "header", "block"} => block[t].txs = <<>>

WholeBlock(r) ==
    r.kind = "block" =>
        /\ r \in BlockAnswers /\ r.number = height[r.hash]
        /\ Full => /\ Len(r.txs) = IF r.hash = Genesis THEN 0 ELSE Len(body[r.hash])
                   /\ \A i \in DOMAIN r.txs : r.txs[i].tx = body[r.hash][i]

WholeInv ==
    /\ \A t \in Threads : Aligned(t) /\ Unbegun(t)
    /\ \A i \in DOMAIN chans.result : WholeBlock(chans.result[i])
    /\ WholeBlock(reply)

\* How the step of a translation ends.
LEMMA TxEnds ==
  ASSUME TypeOK, Control, NEW t \in Threads, TransactionStep(t)
  PROVE  \/ pc'[t] # "returned" /\ result'[t] = result[t]
         \/ pc'[t] = "returned" /\ result'[t] \in {Null, Error}
         \/ /\ pc[t] \in {"rewardOut", "sender", "receiptDecode"} /\ pc'[t] = "returned"
            /\ \E s \in {"none", "script", "input", "receipt"} : result'[t] = TxAnswer(view[t], tx[t], s)
<1> DEFINE Ended0 == \/ pc'[t] # "returned" /\ result'[t] = result[t]
                     \/ pc'[t] = "returned" /\ result'[t] \in {Null, Error}
                     \/ /\ pc[t] \in {"rewardOut", "sender", "receiptDecode"} /\ pc'[t] = "returned"
                        /\ \E s \in {"none", "script", "input", "receipt"} : result'[t] = TxAnswer(view[t], tx[t], s)
<1>1. \A p, v : Goes(t, p, v) /\ p # "returned" => Ended0
  BY LeavesBehind
<1>2. Returns(t, Null) \/ Returns(t, Error) => Ended0
  BY LeavesBehind
<1>3. \A s \in {"none", "script", "input", "receipt"} :
        pc[t] \in {"rewardOut", "sender", "receiptDecode"} /\ Returns(t, TxAnswer(view[t], tx[t], s)) => Ended0
  BY LeavesBehind
<1> HIDE DEF Ended0
<1>4. RewardFails(t) => Ended0
  BY <1>1, <1>2 DEF RewardFails
<1>5. GetWalletTransaction(t) => Ended0
  BY <1>1, <1>2 DEF GetWalletTransaction
<1>6. GetRewardTransaction(t) \/ GetRewardIndex(t) \/ GetRewardNumber(t) => Ended0
  BY <1>1, <1>2, <1>4 DEF GetRewardTransaction, GetRewardIndex, GetRewardNumber
<1>7. GetRewardOutputs(t) => Ended0
  BY <1>1, <1>3, <1>4 DEF GetRewardOutputs, At
<1>8. GetRaw(t) \/ Decode(t) \/ GetNumber(t) => Ended0
  BY <1>1, <1>2 DEF GetRaw, Decode, GetNumber
<1>9. GetSender(t) => Ended0
  <2>1. pc[t] = "sender" /\ SenderFails(t) => Ended0
    BY <1>2, <1>3 DEF SenderFails
  <2> QED BY <1>3, <2>1 DEF GetSender, At
<1>10. GetReceipt(t) \/ GetReceiptRaw(t) => Ended0
  BY <1>1, <1>2 DEF GetReceipt, GetReceiptRaw
<1>11. DecodeReceipt(t) => Ended0
  BY <1>2, <1>3 DEF DecodeReceipt, At
<1>12. Ended0
  BY <1>5, <1>6, <1>7, <1>8, <1>9, <1>10, <1>11 DEF TransactionStep
<1> QED BY <1>12 DEF Ended0

\* The coinbase of the genesis block is never found.
LEMMA GenesisUnknown ==
  ASSUME TypeOK, Control, NEW t \in Threads, TransactionStep(t), tx[t] \in Range(body[Genesis]),
         pc[t] \notin Found, op.name # "receipt"
  PROVE  pc'[t] \notin Found /\ (pc'[t] = "returned" => result'[t].kind # "tx")
<1> DEFINE x == tx[t]
<1>1. x \in Txs \cup {Unknown} /\ WorksFor(t) /\ tip \in Blocks
  BY DEF TypeOK, Control
<1>2. GetTransaction(x) = Unknown
  BY ChainAssumption DEF GetTransaction
<1>3. GetRawTransaction(x) = Unknown
  BY <1>1, NodeAnswers, PlaceOf DEF Control
<1>4. pc[t] \in {"gettransaction", "reward", "raw"}
  <2>1. pc[t] \in TxPcs /\ pc[t] # "returned"
    BY DEF TransactionStep, At, TxPcs, Reading, GetWalletTransaction, GetRewardTransaction, GetRewardIndex, GetRewardNumber,
           GetRewardOutputs, GetRaw, Decode, GetNumber, GetSender, GetReceipt, GetReceiptRaw, DecodeReceipt
  <2> QED BY <1>1, <2>1 DEF WorksFor, TxPcs, Reading, Found
<1>5. CASE Goes(t, "reward", NoView) \/ Goes(t, "raw", NoView)
  BY <1>5, LeavesBehind DEF Found
<1>6. CASE Returns(t, Null) \/ Returns(t, Error)
  BY <1>6, LeavesBehind, Sorts DEF Found
<1>7. CASE GetWalletTransaction(t)
  BY <1>2, <1>5, <1>6, <1>7 DEF GetWalletTransaction
<1>8. CASE GetRewardTransaction(t)
  BY <1>3, <1>5, <1>6, <1>8, NodeAssumption DEF GetRewardTransaction, RewardFails, IsReceipt
<1>9. CASE GetRaw(t)
  BY <1>3, <1>6, <1>9 DEF GetRaw
<1> QED
  BY <1>4, <1>7, <1>8, <1>9 DEF TransactionStep, At, GetRewardIndex, GetRewardNumber, GetRewardOutputs, Decode,
     GetNumber, GetSender, GetReceipt, GetReceiptRaw, DecodeReceipt

\* What a thread has when it looks for the next transaction.
LEMMA GainsInOrder ==
  ASSUME IgnoreUnknownTx = FALSE, TypeOK, NEW t \in Threads, Aligned(t), Unbegun(t), op.name \in BlockOps,
         NEW b \in PartialBlocks, Gains(t, b)
  PROVE  InOrder(b)
<1> DEFINE all == body[b.hash]
           old == block[t].txs
           n == Len(old)
<1>1. /\ b.hash \in Blocks /\ b.hash = block[t].hash
      /\ all \in Seq(Txs) /\ b.rest \in Seq(Txs) /\ b.txs \in Seq(Translated)
      /\ old \in Seq(Translated) /\ n \in Nat
  BY Bodies DEF Gains, TypeOK, PartialBlocks
<1>2. \A i \in DOMAIN all : all[i] \in Range(all)
  BY <1>1, Bodies
<1>3. CASE pc[t] = "block" /\ b.rest = all /\ b.txs = old
  <2>1. b.txs = <<>>
    BY <1>3 DEF Unbegun
  <2> HIDE DEF all, old
  <2>2. Len(b.txs) = 0 /\ \A i \in 1..Len(b.rest) : 0 + i = i
    BY <1>1, <2>1
  <2> QED BY <1>1, <1>2, <1>3, <2>1, <2>2 DEF InOrder, all
<1>4. CASE pc[t] = "returned" /\ b.rest = block[t].rest
  <2>1. pc[t] \in TxPcs
    BY <1>4 DEF TxPcs
  <2>2. CASE b.hash = Genesis
    <3>1. /\ old = <<>> /\ \A i \in DOMAIN b.rest : b.rest[i] \in Range(all)
          /\ result[t].kind # "tx"
      BY <1>1, <1>4, <2>1, <2>2 DEF Aligned
    <3>2. b.txs = old
      BY <1>4, <3>1 DEF Gains
    <3> QED BY <2>2, <3>1, <3>2 DEF InOrder
  <2>3. CASE b.hash # Genesis
    <3>1. ~SkipsTx(t)
      BY <1>1, <2>3, Heights DEF SkipsTx
    <3>2. result[t].kind = "tx" /\ b.txs = Append(old, result[t]) /\ result[t] \in Translated
      BY <1>4, <3>1 DEF Gains
    <3>3. /\ n + 1 + Len(b.rest) = Len(all) /\ tx[t] = all[n + 1]
          /\ \A i \in 1..n : old[i].tx = all[i]
          /\ \A i \in 1..Len(b.rest) : b.rest[i] = all[n + 1 + i]
          /\ result[t].tx = tx[t]
      BY <1>1, <1>4, <2>1, <2>3, <3>2 DEF Aligned
    <3> HIDE DEF all, old
    <3>4. /\ Len(b.txs) = n + 1 /\ b.txs[n + 1] = result[t]
          /\ \A i \in 1..n : b.txs[i] = old[i]
      BY <1>1, <3>2
    <3>5. \A i \in 1..Len(b.txs) : b.txs[i].tx = all[i]
      <4> SUFFICES ASSUME NEW i \in 1..Len(b.txs) PROVE b.txs[i].tx = all[i]
        OBVIOUS
      <4>1. i = n + 1 \/ i \in 1..n
        BY <1>1, <3>4
      <4> QED BY <3>3, <3>4, <4>1
    <3> QED BY <2>3, <3>3, <3>4, <3>5 DEF InOrder, all
  <2> QED BY <2>2, <2>3
<1> QED BY <1>3, <1>4 DEF Gains

LEMMA EarnedWhole ==
  ASSUME IgnoreUnknownTx = FALSE, TypeOK, NEW t \in Threads, Aligned(t), Unbegun(t), op.name \in BlockOps,
         NEW r \in Answered, Earned(t, r)
  PROVE  WholeBlock(r)
<1>1. ASSUME NEW b \in PartialBlocks, Gains(t, b), b.rest = <<>>, r = BlockAnswer(b) PROVE WholeBlock(r)
  <2>1. InOrder(b) /\ b.hash \in Blocks
    BY <1>1, GainsInOrder DEF Gains
  <2>2. r.hash = b.hash /\ r.number = height[b.hash] /\ r.txs = b.txs /\ r.kind = "block"
    BY <1>1 DEF BlockAnswer
  <2>3. r \in BlockAnswers
    BY <2>2, Sorts DEF Answered, Null, Error
  <2>4. b.txs \in Seq(Translated) /\ Len(b.rest) = 0 /\ Len(b.txs) \in Nat /\ DOMAIN b.txs = 1..Len(b.txs)
    BY <1>1 DEF PartialBlocks
  <2>5. CASE b.hash = Genesis
    <3>1. b.txs = <<>>
      BY <2>1, <2>5 DEF InOrder
    <3> QED BY <2>2, <2>3, <2>5, <3>1 DEF WholeBlock
  <2>6. CASE b.hash # Genesis
    <3>1. Len(b.txs) + 0 = Len(body[b.hash]) /\ \A i \in 1..Len(b.txs) : b.txs[i].tx = body[b.hash][i]
      BY <2>1, <2>4, <2>6 DEF InOrder
    <3>2. Len(b.txs) = Len(body[b.hash])
      BY <2>4, <3>1
    <3> QED BY <2>2, <2>3, <2>4, <2>6, <3>1, <3>2 DEF WholeBlock
  <2> QED BY <2>5, <2>6
<1>2. ASSUME ~Full, block[t].hash \in Blocks,
             r = [kind |-> "block", hash |-> block[t].hash, number |-> height[block[t].hash],
                  txs |-> body[block[t].hash]]
      PROVE  WholeBlock(r)
  <2>1. r \in BlockAnswers
    BY <1>2, Sorts DEF Answered, Null, Error
  <2> QED BY <1>2, <2>1 DEF WholeBlock
<1>3. r \in {Null, Error} => WholeBlock(r)
  BY DEF WholeBlock, Null, Error
<1> QED BY <1>1, <1>2, <1>3 DEF Earned

\* A step that leaves a thread at its transaction, or brings it none.
LEMMA AlignedStays ==
  ASSUME NEW t \in Threads, Aligned(t), Unbegun(t), op'.name = op.name, block'[t].txs = block[t].txs,
         block'[t] = block[t] \/ pc'[t] \notin TxPcs,
         \/ pc'[t] = pc[t] /\ tx'[t] = tx[t] /\ result'[t] = result[t]
         \/ pc'[t] \notin TxPcs /\ pc[t] \in {"latest", "hash", "lookup", "header", "block"}
  PROVE  (Aligned(t) /\ Unbegun(t))'
<1>1. Aligned(t)'
  BY DEF Aligned
<1>2. Unbegun(t)'
  BY DEF Unbegun
<1> QED BY <1>1, <1>2

\* A step that answers no block.
LEMMA WholeStays ==
  ASSUME WholeInv, Full' <=> Full, \A t \in Threads : (Aligned(t) /\ Unbegun(t))',
         \A i \in DOMAIN chans'.result : \E j \in DOMAIN chans.result : chans'.result[i] = chans.result[j],
         \/ reply' = reply \/ reply'.kind # "block"
         \/ \E j \in DOMAIN chans.result : reply' = chans.result[j]
  PROVE  WholeInv'
<1>1. \A q : WholeBlock(q) => WholeBlock(q)'
  BY DEF WholeBlock
<1>2. (\A i \in DOMAIN chans.result : WholeBlock(chans.result[i]))'
  <2> SUFFICES ASSUME NEW i \in DOMAIN chans'.result PROVE WholeBlock(chans.result[i])'
    OBVIOUS
  <2>1. PICK j \in DOMAIN chans.result : chans'.result[i] = chans.result[j]
    OBVIOUS
  <2>2. WholeBlock(chans.result[j])
    BY DEF WholeInv
  <2> QED BY <1>1, <2>1, <2>2
<1>3. WholeBlock(reply)'
  <2>1. CASE reply'.kind # "block"
    BY <2>1 DEF WholeBlock
  <2>2. CASE reply' = reply
    BY <1>1, <2>2 DEF WholeInv
  <2>3. ASSUME NEW j \in DOMAIN chans.result, reply' = chans.result[j] PROVE WholeBlock(reply)'
    <3>1. WholeBlock(chans.result[j])
      BY DEF WholeInv
    <3> QED BY <1>1, <2>3, <3>1
  <2> QED BY <2>1, <2>2, <2>3
<1> QED BY <1>2, <1>3 DEF WholeInv

LEMMA GivesWhole ==
  ASSUME IgnoreUnknownTx = FALSE, TypeOK, Control, WholeInv,
         NEW t \in Threads, NEW r \in Answered, Gives(t, r), Earned(t, r)
  PROVE  WholeInv'
<1>1. /\ pc' = [pc EXCEPT ![t] = "idle"] /\ view' = view /\ result' = result
      /\ block' = [block EXCEPT ![t] = NoBlock] /\ op' = op /\ tx' = tx
      /\ op.name \in BlockOps /\ pc[t] \in {"header", "block", "returned"}
  BY Sends DEF Gives
<1>2. reply = NoReplyYet
  BY <1>1, Working
<1>3. Full' <=> Full
  BY <1>1 DEF Full
<1>4. (Aligned(t) /\ Unbegun(t))'
  <2>1. pc'[t] = "idle"
    BY <1>1 DEF TypeOK
  <2> QED BY <2>1 DEF Aligned, Unbegun, TxPcs, Reading
<1>5. ASSUME NEW u \in Threads, u # t PROVE (Aligned(u) /\ Unbegun(u))'
  BY <1>1, <1>5, AlignedStays DEF WholeInv, TypeOK
<1>6. WholeBlock(r)
  BY <1>1, EarnedWhole DEF WholeInv
<1>7. \A q : WholeBlock(q) => WholeBlock(q)'
  BY <1>3 DEF WholeBlock
<1>8. CASE IsByHash
  <2>1. reply'.kind # "block"
    BY <1>2, <1>8, Sends DEF Gives, NoReplyYet
  <2>2. chans'.result = chans.result \/ chans'.result = Append(chans.result, r)
    BY <1>8, Sends DEF Gives
  <2>3. chans.result \in Seq({Null} \cup BlockAnswers)
    BY DEF TypeOK
  <2>4. \A i \in DOMAIN chans'.result :
          (i \in DOMAIN chans.result /\ chans'.result[i] = chans.result[i]) \/ chans'.result[i] = r
    BY <2>2, <2>3
  <2>5. \A i \in DOMAIN chans.result : \A q : q = chans.result[i] => WholeBlock(q)'
    BY <1>7 DEF WholeInv
  <2>6. (\A i \in DOMAIN chans.result : WholeBlock(chans.result[i]))'
    BY <1>6, <1>7, <2>4, <2>5
  <2> QED BY <1>4, <1>5, <2>1, <2>6 DEF WholeInv, WholeBlock
<1>9. CASE ~IsByHash
  <2>1. chans' = chans /\ reply' = IF op.name = "byIndex" THEN AtIndex(r) ELSE r
    BY <1>9, Sends DEF Gives
  <2>2. (\A i \in DOMAIN chans.result : WholeBlock(chans.result[i]))'
    BY <1>7, <2>1 DEF WholeInv
  <2>3. WholeBlock(reply)'
    <3>1. CASE reply' = r
      BY <1>6, <1>7, <3>1
    <3>2. CASE reply' = Null
      BY <3>2 DEF Null, WholeBlock
    <3>3. CASE op.name = "byIndex" /\ r.kind = "block" /\ op.index < Len(r.txs) /\ reply' = r.txs[op.index + 1]
      <4>1. op.index \in Nat
        BY <3>3, Indexed
      <4>2. PICK b \in PartialBlocks : r = BlockAnswer(b)
        BY <3>3 DEF Earned, Full, Null, Error
      <4>3. r.txs \in Seq(Translated)
        BY <4>2 DEF BlockAnswer, PartialBlocks
      <4>4. reply' \in Translated
        BY <3>3, <4>1, <4>3
      <4> QED BY <4>4, Sorts DEF WholeBlock
    <3>4. CASE reply' = [kind |-> "panic"]
      BY <3>4 DEF WholeBlock
    <3> QED BY <2>1, <3>1, <3>2, <3>3, <3>4, Indexed
  <2> QED BY <1>4, <1>5, <2>2, <2>3 DEF WholeInv
<1> QED BY <1>8, <1>9

LEMMA TakesWhole ==
  ASSUME IgnoreUnknownTx = FALSE, TypeOK, Control, WholeInv,
         NEW t \in Threads, NEW b \in PartialBlocks, Takes(t, b), Gains(t, b)
  PROVE  WholeInv'
<1> DEFINE all == body[b.hash]
           n == Len(b.txs)
<1>1. /\ op' = op /\ chans' = chans /\ reply' = reply /\ result' = result
      /\ pc'[t] = "gettransaction" /\ tx'[t] = Head(b.rest) /\ block'[t] = [b EXCEPT !.rest = Tail(b.rest)]
      /\ b.rest # <<>> /\ op.name \in BlockOps
      /\ \A u \in Threads : u # t => pc'[u] = pc[u] /\ tx'[u] = tx[u] /\ block'[u] = block[u]
  BY DEF Takes, TypeOK
<1>2. InOrder(b)
  BY <1>1, GainsInOrder DEF WholeInv
<1>3. b.rest \in Seq(Txs) /\ b.txs \in Seq(Translated) /\ n \in Nat /\ b.hash \in Blocks /\ Len(all) \in Nat
  BY Bodies DEF PartialBlocks, Gains
<1>4. /\ block'[t].hash = b.hash /\ block'[t].txs = b.txs /\ block'[t].rest = Tail(b.rest)
      /\ Len(Tail(b.rest)) = Len(b.rest) - 1 /\ Len(b.rest) \in Nat \ {0}
      /\ tx'[t] = b.rest[1] /\ \A i \in 1..(Len(b.rest) - 1) : Tail(b.rest)[i] = b.rest[i + 1]
  BY <1>1, <1>3 DEF PartialBlocks
<1>5. Aligned(t)'
  <2>1. pc'[t] \notin Found /\ pc'[t] # "returned"
    BY <1>1 DEF Found
  <2> HIDE DEF all, n
  <2>2. CASE b.hash = Genesis
    <3>1. b.txs = <<>> /\ \A i \in 1..Len(b.rest) : b.rest[i] \in Range(all)
      BY <1>2, <1>3, <2>2 DEF InOrder, all
    <3>2. tx'[t] \in Range(all) /\ \A i \in 1..Len(Tail(b.rest)) : Tail(b.rest)[i] \in Range(all)
      BY <1>4, <3>1
    <3>3. DOMAIN Tail(b.rest) = 1..Len(Tail(b.rest))
      BY <1>1, <1>3
    <3> QED BY <1>4, <2>1, <2>2, <3>1, <3>2, <3>3 DEF Aligned, all
  <2>3. CASE b.hash # Genesis
    <3>1. /\ n + Len(b.rest) = Len(all) /\ \A i \in 1..n : b.txs[i].tx = all[i]
          /\ \A i \in 1..Len(b.rest) : b.rest[i] = all[n + i]
      BY <1>2, <2>3 DEF InOrder, all, n
    <3>2. n + 1 + Len(Tail(b.rest)) = Len(all) /\ tx'[t] = all[n + 1]
      <4>1. n + 1 + Len(Tail(b.rest)) = Len(all)
        <5> DEFINE k == Len(b.rest)
                   l == Len(Tail(b.rest))
        <5>1. n \in Nat /\ k \in Nat /\ l = k - 1 /\ n + k = Len(all)
          BY <1>3, <1>4, <3>1
        <5> HIDE DEF k, l
        <5>2. n + 1 + l = n + k
          BY <5>1
        <5> QED BY <5>1, <5>2 DEF l
      <4>2. 1 \in 1..Len(b.rest)
        BY <1>4
      <4> QED BY <1>4, <3>1, <4>1, <4>2
    <3>3. \A i \in 1..Len(Tail(b.rest)) : Tail(b.rest)[i] = all[n + 1 + i]
      <4> SUFFICES ASSUME NEW i \in 1..Len(Tail(b.rest)) PROVE Tail(b.rest)[i] = all[n + 1 + i]
        OBVIOUS
      <4>1. Tail(b.rest)[i] = b.rest[i + 1] /\ i + 1 \in 1..Len(b.rest) /\ n + (i + 1) = n + 1 + i
        BY <1>3, <1>4
      <4> QED BY <3>1, <4>1
    <3> QED BY <1>4, <2>1, <2>3, <3>1, <3>2, <3>3 DEF Aligned, all, n
  <2> QED BY <2>2, <2>3
<1>6. Unbegun(t)'
  BY <1>1 DEF Unbegun
<1>7. ASSUME NEW u \in Threads, u # t PROVE (Aligned(u) /\ Unbegun(u))'
  BY <1>1, <1>7, AlignedStays DEF WholeInv
<1>8. Full' <=> Full
  BY <1>1 DEF Full
<1> QED BY <1>1, <1>5, <1>6, <1>7, <1>8, WholeStays

LEMMA BlocksWhole ==
  ASSUME IgnoreUnknownTx = FALSE, TypeOK, Control, WholeInv, NEW t \in Threads, BlockCase(t)
  PROVE  WholeInv'
<1>1. ASSUME UNCHANGED <<tx, result, chans>>, Full' <=> Full, op'.name = op.name,
             pc[t] \in {"latest", "hash", "header"},
             NEW p \in {"idle", "hash", "header", "block"}, pc' = [pc EXCEPT ![t] = p],
             \A u \in Threads : u # t => block'[u] = block[u],
             block'[t].txs = block[t].txs, reply' = reply \/ reply'.kind # "block"
      PROVE  WholeInv'
  <2>1. pc'[t] = p /\ p \notin TxPcs
    BY <1>1 DEF TypeOK, TxPcs, Reading
  <2>2. (Aligned(t) /\ Unbegun(t))'
    BY <1>1, <2>1, AlignedStays DEF WholeInv
  <2>3. ASSUME NEW u \in Threads, u # t PROVE (Aligned(u) /\ Unbegun(u))'
    BY <1>1, <2>3, AlignedStays DEF WholeInv, TypeOK
  <2> QED BY <1>1, <2>2, <2>3, WholeStays
<1>2. CASE GetLatest(t)
  <2>1. /\ pc[t] = "latest" /\ UNCHANGED <<tx, result, chans, block>>
        /\ \/ /\ op' = [op EXCEPT !.number = height[tip]]
              /\ pc' = [pc EXCEPT ![t] = "hash"] /\ reply' = reply
           \/ pc' = [pc EXCEPT ![t] = "idle"] /\ reply' = Error /\ UNCHANGED op
    BY <1>2 DEF GetLatest, GetBlockChainInfo, GoTo, Replies, NoReply, blockVars
  <2>2. op.name \in {"getBlockByNumber", "byIndex"} /\ op.asked \in BlockParams
    BY <2>1, Working DEF WorksFor
  <2>3. (Full' <=> Full) /\ op'.name = op.name
    <3>1. op \in Ops /\ height[tip] \in Nat
      BY HeightDef DEF TypeOK
    <3> DEFINE q == [op EXCEPT !.number = height[tip]]
    <3>2. q.name = op.name /\ (op.name # "byIndex" => q.full = op.full)
      BY <2>2, <3>1, OpMoves
    <3>3. op' = op \/ op' = q
      BY <2>1
    <3> HIDE DEF q
    <3> QED BY <2>2, <3>2, <3>3 DEF Full
  <2> QED BY <1>1, <2>1, <2>3 DEF Error
<1>3. CASE GetHash(t)
  <2>1. /\ pc[t] = "hash" /\ UNCHANGED <<op, tx, result, chans>>
        /\ \E p \in {"idle", "header"} : pc' = [pc EXCEPT ![t] = p]
        /\ block' = block \/ \E h : block' = [block EXCEPT ![t].hash = h]
        /\ reply' \in {reply, Null, Error}
    BY <1>3 DEF GetHash, At, GoTo, Replies, NoReply
  <2>2. block'[t].txs = block[t].txs /\ \A u \in Threads : u # t => block'[u] = block[u]
    <3>1. ASSUME NEW h, block' = [block EXCEPT ![t].hash = h]
          PROVE  block'[t].txs = block[t].txs /\ \A u \in Threads : u # t => block'[u] = block[u]
      BY <3>1 DEF TypeOK, PartialBlocks
    <3> QED BY <2>1, <3>1
  <2>3. (Full' <=> Full) /\ Null.kind # "block" /\ Error.kind # "block"
    BY <2>1 DEF Full, Null, Error
  <2> QED BY <1>1, <2>1, <2>2, <2>3
<1>4. CASE Opens(t)
  BY <1>1, <1>4 DEF Opens, blockVars, Full
<1> QED BY <1>2, <1>3, <1>4, GivesWhole, TakesWhole DEF BlockCase

LEMMA TransactionsWhole ==
  ASSUME TypeOK, Control, WholeInv, NEW t \in Threads, TransactionStep(t), UNCHANGED <<blockVars, reply>>
  PROVE  WholeInv'
<1>1. TxGoesOn(t)
  BY TransactionGoesOn
<1>2. /\ op' = op /\ tx' = tx /\ block' = block /\ chans' = chans /\ reply' = reply /\ (Full' <=> Full)
      /\ pc[t] \in TxPcs /\ pc'[t] \in Reading \cup {"returned"} /\ Aligned(t)
  BY <1>1 DEF TxGoesOn, blockVars, Full, WholeInv
<1>3. Unbegun(t)'
  BY <1>2 DEF Unbegun, Reading
<1>4. Aligned(t)'
  <2> SUFFICES ASSUME op.name \in BlockOps PROVE Aligned(t)'
    BY <1>2 DEF Aligned
  <2>1. CASE block[t].hash = Genesis
    <3>1. tx[t] \in Range(body[Genesis]) /\ pc[t] \notin Found
      BY <1>2, <2>1 DEF Aligned
    <3>2. pc'[t] \notin Found /\ (pc'[t] = "returned" => result'[t].kind # "tx")
      BY <3>1, GenesisUnknown DEF BlockOps
    <3> QED BY <1>2, <2>1, <3>2 DEF Aligned
  <2>2. CASE block[t].hash # Genesis
    <3>1. pc'[t] = "returned" /\ result'[t].kind = "tx" => result'[t].tx = tx[t]
      <4>1. view[t] \in Views /\ tx[t] \in Txs \cup {Unknown}
        BY DEF TypeOK
      <4> QED BY <4>1, TxEnds, Sorts
    <3> QED BY <1>2, <2>2, <3>1 DEF Aligned
  <2> QED BY <2>1, <2>2
<1>5. ASSUME NEW u \in Threads, u # t PROVE (Aligned(u) /\ Unbegun(u))'
  <2>1. pc'[u] = pc[u] /\ tx'[u] = tx[u] /\ result'[u] = result[u]
    BY <1>1, <1>5 DEF TxGoesOn, Others
  <2> QED BY <1>2, <2>1, AlignedStays DEF WholeInv
<1> QED BY <1>2, <1>3, <1>4, <1>5, WholeStays

\* What the answer of a transaction has from its translation.
LEMMA AnswerTells ==
  ASSUME TypeOK, AnswerTransaction
  PROVE  /\ reply'.kind = result["main"].kind /\ result["main"] \in Results
         /\ result["main"].kind = "tx" =>
              reply'.sender = result["main"].sender /\ reply'.outdated = result["main"].outdated
<1> DEFINE r == result["main"]
<1>1. r \in Results
  BY DEF TypeOK, Results, Threads
<1>2. ASSUME NEW s, r.kind = "tx", reply' = WithAmounts(r, s)
      PROVE  reply'.kind = r.kind /\ reply'.sender = r.sender /\ reply'.outdated = r.outdated
  <2> DEFINE more == [shape |-> s, value |-> Value(r, s), gas |-> Info(s).gas, gasPrice |-> Info(s).gasPrice]
  <2>1. reply' = [k \in DOMAIN r \cup DOMAIN more |-> IF k \in DOMAIN r THEN r[k] ELSE more[k]]
    BY <1>2 DEF WithAmounts
  <2>2. {"kind", "sender", "outdated"} \subseteq DOMAIN r
    BY <1>1, <1>2, Sorts DEF Results, Translated
  <2> HIDE DEF more
  <2>3. \A k \in {"kind", "sender", "outdated"} : reply'[k] = r[k]
    BY <2>1, <2>2
  <2> QED BY <1>2, <2>3
<1> HIDE DEF r
<1>3. reply' = r \/ \E s : r.kind = "tx" /\ reply' = WithAmounts(r, s)
  BY DEF AnswerTransaction, Replies, r
<1>4. reply'.kind = r.kind /\ (r.kind = "tx" => reply'.sender = r.sender /\ reply'.outdated = r.outdated)
  BY <1>2, <1>3
<1> QED BY <1>1, <1>4 DEF r

\* A step after which nothing of a block is left.
LEMMA NothingLeft ==
  ASSUME \A t \in Threads : pc'[t] \notin TxPcs \/ op'.name \notin BlockOps,
         \A t \in Threads : Unbegun(t)', chans'.result = <<>>, reply'.kind # "block"
  PROVE  WholeInv'
<1>1. \A t \in Threads : Aligned(t)'
  BY DEF Aligned
<1> QED BY <1>1 DEF WholeInv, WholeBlock

LEMMA ReceiveWhole ==
  ASSUME TypeOK, Control, WholeInv, Receive
  PROVE  WholeInv'
<1>1. op' = op /\ tx' = tx /\ chans.result \in Seq({Null} \cup BlockAnswers) /\ (Full' <=> Full)
  BY DEF Receive, ReceiveFirst, ReceiveError, ReceiveSecond, TypeOK, Full
<1>2. ASSUME NEW r, Answers(r), r.kind # "block" \/ \E j \in DOMAIN chans.result : r = chans.result[j]
      PROVE  WholeInv'
  <2>1. /\ reply' = r /\ chans'.result = <<>>
        /\ \A t \in Threads : pc'[t] = "idle"
    BY <1>2 DEF Answers, Replies, NoChans
  <2>2. \A t \in Threads : (Aligned(t) /\ Unbegun(t))'
    BY <2>1 DEF Aligned, Unbegun, TxPcs, Reading
  <2> QED BY <1>1, <1>2, <2>1, <2>2, WholeStays
<1>3. ASSUME NEW w, NEW c, WaitsAgain(w, c), c.result \in {chans.result, Tail(chans.result)},
             c.result # chans.result => chans.result # <<>>
      PROVE  WholeInv'
  <2>1. UNCHANGED <<pc, view, result, block, reply>> /\ chans' = c
    BY <1>3 DEF WaitsAgain, NoReply
  <2>2. \A t \in Threads : (Aligned(t) /\ Unbegun(t))'
    BY <1>1, <2>1, AlignedStays DEF WholeInv
  <2>3. \A i \in DOMAIN chans'.result : \E j \in DOMAIN chans.result : chans'.result[i] = chans.result[j]
    <3>1. CASE c.result = chans.result
      BY <2>1, <3>1
    <3>2. CASE c.result = Tail(chans.result) /\ chans.result # <<>>
      <4>1. \A i \in DOMAIN Tail(chans.result) :
              i + 1 \in DOMAIN chans.result /\ Tail(chans.result)[i] = chans.result[i + 1]
        BY <1>1, <3>2
      <4> QED BY <2>1, <3>2, <4>1
    <3> QED BY <1>3, <3>1, <3>2
  <2> QED BY <1>1, <2>1, <2>2, <2>3, WholeStays
<1>4. chans.result # <<>> => \E j \in DOMAIN chans.result : FirstResult = chans.result[j]
  <2>1. chans.result # <<>> => 1 \in DOMAIN chans.result /\ FirstResult = chans.result[1]
    BY <1>1 DEF FirstResult
  <2> QED BY <2>1
<1>5. CASE ReceiveFirst
  <2>1. RestOfChans.result = Tail(chans.result)
    BY DEF RestOfChans, TypeOK
  <2> QED BY <1>2, <1>3, <1>4, <1>5, <2>1 DEF ReceiveFirst
<1>6. CASE ReceiveError
  <2>1. [chans EXCEPT !.error = FALSE].result = chans.result
    BY DEF TypeOK
  <2> QED BY <1>3, <1>6, <2>1 DEF ReceiveError
<1>7. CASE ReceiveSecond
  <2>1. Null.kind # "block" /\ Error.kind # "block"
    BY DEF Null, Error
  <2> QED BY <1>2, <1>4, <1>7, <2>1 DEF ReceiveSecond
<1> QED BY <1>5, <1>6, <1>7 DEF Receive

\* Where the threads are when a call has begun.
LEMMA BegunAt ==
  ASSUME TypeOK, Control, Ask
  PROVE  /\ \A t \in Threads : pc'[t] \in {"latest", "hash", "header", "gettransaction", "receipt", "lookup", "idle"}
                                          \cup OtherPcs
         /\ \A t \in Threads : pc'[t] \in {"gettransaction", "receipt"} => op'.name \in {"tx", "receipt"}
<1>1. \A t \in Threads : pc[t] = "idle"
  BY Begun, Fresh
<1>2. AskBlockByHash => \A t \in Threads : pc'[t] \in {"header", "lookup", "idle"}
  BY DEF AskBlockByHash, Threads
<1>3. \A o, p : Opened(o, p) => op' = o /\ \A t \in Threads : pc'[t] \in {p, "idle"}
  BY <1>1 DEF Opened, TypeOK
<1>4. \A n \in {"tx", "receipt"} : [name |-> n].name = n
  OBVIOUS
<1>5. OtherPcs \cap {"gettransaction", "receipt"} = {}
  BY DEF OtherPcs
<1> QED BY <1>2, <1>3, <1>4, <1>5, AskCases DEF AskCase

LEMMA WholeGoesOn ==
  ASSUME IgnoreUnknownTx = FALSE
  PROVE  TypeOK /\ Control /\ PlacesInv /\ WholeInv /\ [Next]_vars => WholeInv'
<1> SUFFICES ASSUME TypeOK, Control, PlacesInv, WholeInv, [Next]_vars PROVE WholeInv'
  OBVIOUS
<1>1. CASE Ask
  <2>1. /\ op = NoOp /\ UNCHANGED reply /\ chans'.result = <<>>
        /\ \A t \in Threads : block'[t].txs = <<>>
    BY <1>1, Begun
  <2>2. reply'.kind # "block"
    BY <2>1, Fresh DEF NoReplyYet
  <2>3. \A t \in Threads : pc'[t] \notin TxPcs \/ op'.name \notin BlockOps
    <3>1. OtherPcs \cap TxPcs = {} /\ {"latest", "hash", "header", "lookup", "idle"} \cap TxPcs = {}
      BY DEF OtherPcs, TxPcs, Reading
    <3> QED BY <1>1, <3>1, BegunAt DEF BlockOps
  <2> QED BY <2>1, <2>2, <2>3, NothingLeft DEF Unbegun
<1>2. CASE LookUp
  <2>1. /\ pc["backup"] = "lookup" /\ UNCHANGED <<op, tx, reply, result>> /\ "backup" \in Threads
        /\ \E p \in {"header", "idle"} : pc' = [pc EXCEPT !["backup"] = p]
        /\ block' = block \/ \E h : block' = [block EXCEPT !["backup"].hash = h]
        /\ chans' = chans \/ chans' = [chans EXCEPT !.backupError = TRUE]
    BY <1>2 DEF LookUp, At, NoReply, GoTo, Threads
  <2>2. block'["backup"].txs = block["backup"].txs /\ block'["main"] = block["main"]
    <3>1. ASSUME NEW h, block' = [block EXCEPT !["backup"].hash = h]
          PROVE  block'["backup"].txs = block["backup"].txs /\ block'["main"] = block["main"]
      BY <3>1 DEF TypeOK, PartialBlocks, Threads
    <3> QED BY <2>1, <3>1
  <2>3. pc'["backup"] \notin TxPcs /\ pc'["main"] = pc["main"] /\ "main" \in Threads
    BY <2>1 DEF TypeOK, Threads, TxPcs, Reading
  <2>4. (Aligned("backup") /\ Unbegun("backup"))' /\ (Aligned("main") /\ Unbegun("main"))'
    BY <2>1, <2>2, <2>3, AlignedStays DEF WholeInv
  <2>5. chans'.result = chans.result /\ (Full' <=> Full)
    BY <2>1 DEF TypeOK, Full
  <2> QED BY <2>1, <2>4, <2>5, WholeStays DEF Threads
<1>3. CASE OtherStep
  <2>1. /\ pc["main"] \in OtherPcs /\ ~IsByHash /\ pc["backup"] = "idle"
        /\ UNCHANGED <<tx, view, result, blockVars>>
        /\ \E p \in OtherPcs \cup {"idle"} : pc' = [pc EXCEPT !["main"] = p]
        /\ reply'.kind \notin {"tx", "block"}
    BY <1>3, OtherCalls DEF OtherStep
  <2>2. chans'.result = <<>>
    BY <2>1 DEF PlacesInv, blockVars
  <2>3. \A t \in Threads : pc'[t] \in OtherPcs \cup {"idle"}
    BY <2>1 DEF TypeOK, Threads
  <2>4. \A t \in Threads : pc'[t] \notin TxPcs /\ Unbegun(t)'
    BY <2>3 DEF OtherPcs, TxPcs, Reading, Unbegun
  <2> QED BY <2>1, <2>2, <2>4, NothingLeft
<1>4. CASE AnswerTransaction
  <2>1. /\ op' = op /\ op.name \in {"tx", "receipt"} /\ UNCHANGED <<block, chans>>
        /\ pc' = [pc EXCEPT !["main"] = "idle"]
    BY <1>4 DEF AnswerTransaction, GoTo, txVars, blockVars
  <2>2. chans'.result = <<>>
    BY <2>1 DEF PlacesInv, IsByHash
  <2>3. reply'.kind # "block"
    BY <1>4, AnswerTells, Sorts DEF Results
  <2>4. \A t \in Threads : Unbegun(t)'
    BY <2>1 DEF TypeOK, Unbegun, WholeInv
  <2> QED BY <2>1, <2>2, <2>3, <2>4, NothingLeft DEF BlockOps
<1>5. CASE Finish
  BY <1>5, NothingLeft DEF Finish, NoChans, NoReplyYet, Unbegun, TxPcs, Reading
<1>6. CASE NodeChanges \/ UNCHANGED vars
  <2>1. UNCHANGED <<op, tx, result, pc, block, chans, reply>>
    BY <1>6 DEF NodeChanges, txVars, blockVars, vars
  <2> QED BY <2>1, AlignedStays, WholeStays DEF WholeInv, Full
<1> QED
  BY <1>1, <1>2, <1>3, <1>4, <1>5, <1>6, TransactionsWhole, BlocksWhole, ReceiveWhole, NextCases

LEMMA WholeBegins == Init => WholeInv
<1> SUFFICES ASSUME Init PROVE WholeInv
  OBVIOUS
<1>1. \A t \in Threads : Aligned(t) /\ Unbegun(t)
  BY DEF Init, Aligned, Unbegun, TxPcs, Reading
<1> QED BY <1>1 DEF Init, WholeInv, WholeBlock, NoChans, NoReplyYet

\* A transaction is in one block of a branch.
LEMMA PlaceIs ==
  ASSUME NEW b \in Blocks, NEW c \in branch[b], c # Genesis, NEW i \in DOMAIN body[c]
  PROVE  Place(body[c][i], b) = c
<1> DEFINE x == body[c][i]
           in == {d \in branch[b] : x \in Range(body[d])}
<1>1. c \in Blocks /\ Genesis \in branch[b]
  BY BranchDef, Heights
<1>2. x \in Range(body[c]) /\ x \in Txs
  BY <1>1, Bodies
<1>3. \A d \in branch[b] : x \in Range(body[d]) => d = c
  <2>1. \A d \in branch[b] : x \in Range(body[d]) => Range(body[d]) \cap Range(body[c]) # {}
    BY <1>2
  <2> QED BY <2>1, ChainAssumption
<1>4. x \notin Range(body[Genesis])
  BY <1>1, <1>3
<1>5. in = {c}
  BY <1>2, <1>3
<1>6. (CHOOSE d \in in : TRUE) = c /\ in # {}
  BY <1>5
<1> HIDE DEF x, in
<1>7. Place(x, b) = c
  BY <1>2, <1>4, <1>6 DEF Place, in
<1> QED BY <1>7 DEF x

\* eth_getBlockByHash, eth_getBlockByNumber with full transactions: a block is
\* answered with all its transactions in their order, whatever fails or moves
\* while they are read one by one, unless the flag ignoreTransactions says that
\* unknown ones are left out; and when nothing fails or moves, each one names
\* the block and its position there.
THEOREM FullBlocksAgree ==
  ASSUME IgnoreUnknownTx = FALSE
  PROVE  Spec => []FullBlockAgrees
<1>1. TypeOK /\ PlacesInv /\ WholeInv => FullBlockAgrees
  <2> SUFFICES ASSUME TypeOK, PlacesInv, WholeInv, reply.kind = "block", Full PROVE FullBlockAgrees
    BY DEF FullBlockAgrees
  <2> DEFINE b == reply.hash
  <2>1. /\ reply \in BlockAnswers /\ reply.number = height[b]
        /\ Len(reply.txs) = IF b = Genesis THEN 0 ELSE Len(body[b])
        /\ \A i \in DOMAIN reply.txs : reply.txs[i].tx = body[b][i]
        /\ reply.txs \in Seq(Translated) /\ \A i \in DOMAIN reply.txs : Sound(reply.txs[i])
    BY DEF WholeInv, WholeBlock, PlacesInv, SoundBlock, SoundTxs
  <2>2. b \in Blocks
    BY <2>1 DEF BlockAnswers
  <2> HIDE DEF b
  <2>3. ASSUME NEW i \in DOMAIN reply.txs, NEW r, r = reply.txs[i], Quiet, b \in branch[tip], ~r.outdated
        PROVE  r.place = b /\ r.number = reply.number /\ r.index = i - 1
    <3>1. tip \in Blocks
      BY DEF TypeOK
    <3>2. b # Genesis /\ i \in DOMAIN body[b] /\ r.tx = body[b][i]
      BY <2>1, <2>2, <2>3, Bodies
    <3>3. Place(r.tx, tip) = b
      BY <2>3, <3>1, <3>2, PlaceIs
    <3>4. r.place = b /\ r.path # "raw"
      BY <2>1, <2>2, <2>3, <3>3, NodeAssumption DEF Sound, QuietPlace
    <3>5. r.number = height[b] /\ r.index = Index(r.tx, b)
      BY <2>1, <2>2, <2>3, <3>4 DEF Sound, TrueAnswer
    <3> QED BY <2>1, <2>2, <3>2, <3>4, <3>5, IndexOf
  <2> QED BY <2>1, <2>3 DEF FullBlockAgrees, Quiet, b
<1>2. TypeOK /\ Control /\ PlacesInv /\ WholeInv /\ [Next]_vars => (TypeOK /\ Control /\ PlacesInv /\ WholeInv)'
  BY StepsKeep, PlacesGoOn, WholeGoesOn
<1> QED BY <1>1, <1>2, StartsWell, PlacesBegin, WholeBegins, PTL DEF Spec

-----------------------------------------------------------------------------
(* Answers that there is nothing                                             *)

Nowhere(x) == \E b \in tips : Place(x, b) \notin Blocks

\* Why a transaction is looked for as a reward.
Reasoned(x, p, v) ==
    /\ op.name = "tx" /\ p \in Reading \ {"decode", "number", "sender"} => x \notin Wallet
    /\ op.name = "receipt" /\ p \in Reading \ {"receiptRaw", "receiptDecode"} =>
         /\ v.cause = "empty" /\ x \in Contracts => Nowhere(x)
         /\ v.cause = "failed" => failures > 0
         /\ v.cause # "none"
    /\ op.name = "receipt" /\ p \in {"rewardIndex", "rewardNumber", "rewardOut"} /\ x \in Contracts /\ Quiet =>
         v.outdated

\* What null, or a receipt without logs, says of the node.
SaysWhy(x, r) ==
    /\ op.name = "tx" /\ r.kind = "null" => x \notin Wallet /\ WasThere(x, Unknown)
    /\ op.name = "receipt" /\ r.kind = "null" /\ failures = 0 /\ x \in Contracts => Nowhere(x)
    /\ op.name = "receipt" /\ r.kind = "tx" /\ x \in Contracts /\ Quiet => r.sender = "receipt" \/ r.outdated

NullInv ==
    op.name \in {"tx", "receipt"} =>
        /\ Reasoned(tx["main"], pc["main"], view["main"])
        /\ SaysWhy(tx["main"], result["main"]) /\ SaysWhy(tx["main"], reply)

LEMMA ReasonsStay ==
  ASSUME TypeOK, tips \subseteq tips', tip' \in tips', failures' \in Nat, failures <= failures', op' = op
  PROVE  /\ \A x, p, v : Reasoned(x, p, v) => Reasoned(x, p, v)'
         /\ \A x, r : SaysWhy(x, r) => SaysWhy(x, r)'
         /\ Quiet' => Quiet
         /\ \A x : WasThere(x, Unknown) => WasThere(x, Unknown)'
         /\ \A x : Nowhere(x) => Nowhere(x)'
<1>1. /\ Quiet' => Quiet
      /\ \A x : WasThere(x, Unknown) => WasThere(x, Unknown)'
      /\ \A x : Nowhere(x) => Nowhere(x)'
  BY SoundStays DEF Nowhere, Place
<1>2. /\ failures \in Nat
      /\ failures' = 0 => failures = 0
      /\ failures > 0 => failures' > 0
  BY NodeAssumption DEF TypeOK
<1>3. \A x, p, v : Reasoned(x, p, v) => Reasoned(x, p, v)'
  BY <1>1, <1>2 DEF Reasoned
<1>4. \A x, r : SaysWhy(x, r) => SaysWhy(x, r)'
  BY <1>1, <1>2 DEF SaysWhy
<1> QED BY <1>1, <1>3, <1>4

LEMMA TransactionReasoned ==
  ASSUME TypeOK, Control, NullInv, op.name \in {"tx", "receipt"}, TransactionStep("main"),
         UNCHANGED <<blockVars, reply>>, NEW x, x = tx["main"], NEW v, v = view["main"]
  PROVE  NullInv'
<1> DEFINE n == op.name
<1>1. TxGoesOn("main") /\ "main" \in Threads
  BY TransactionGoesOn DEF Threads
<1>2. /\ op' = op /\ tx' = tx /\ NodeGoesOn /\ pc["main"] \in TxPcs
      /\ x \in Txs \cup {Unknown} /\ v \in Views /\ tip \in tips /\ tip \in Blocks
      /\ failures \in Nat /\ failures' \in Nat /\ failures <= failures'
  BY <1>1, NodeAssumption DEF TxGoesOn, NodeGoesOn, TypeOK
<1>3. /\ \A y, r : SaysWhy(y, r) => SaysWhy(y, r)'
      /\ Quiet' => Quiet
      /\ \A y : WasThere(y, Unknown) => WasThere(y, Unknown)'
      /\ \A y : Nowhere(y) => Nowhere(y)'
  BY <1>2, StepsGoOn, ReasonsStay
<1>4. WorksFor("main") /\ Reasoned(x, pc["main"], v)
  BY <1>1 DEF NullInv, Control
<1>5. /\ \A r : r = result["main"] => SaysWhy(x, r)'
      /\ SaysWhy(x, reply)'
  <2>1. \A r : r = result["main"] => SaysWhy(x, r)'
    BY <1>3 DEF NullInv
  <2>2. \A r : r = reply => SaysWhy(x, r)'
    BY <1>3 DEF NullInv
  <2>3. SaysWhy(x, reply)'
    BY <2>2
  <2> QED BY <2>1, <2>3
<1>6. ASSUME NEW p, NEW w, Goes("main", p, w),
             op.name = "tx" /\ p \in Reading \ {"decode", "number", "sender"} => x \notin Wallet,
             op.name = "receipt" /\ p \in Reading \ {"receiptRaw", "receiptDecode"} =>
               /\ w.cause = "empty" /\ x \in Contracts => Nowhere(x)
               /\ w.cause = "failed" => failures' > 0
               /\ w.cause # "none",
             op.name = "receipt" /\ p \in {"rewardIndex", "rewardNumber", "rewardOut"} /\ x \in Contracts /\ Quiet =>
               w.outdated
      PROVE  NullInv'
  <2>1. pc'["main"] = p /\ view'["main"] = w /\ result'["main"] = result["main"]
    BY <1>1, <1>6, LeavesBehind
  <2>2. Reasoned(tx["main"], pc["main"], view["main"])'
    BY <1>2, <1>3, <1>6, <2>1 DEF Reasoned
  <2>3. SaysWhy(tx["main"], result["main"])'
    BY <1>2, <1>5, <2>1
  <2>4. SaysWhy(tx["main"], reply)'
    BY <1>2, <1>5
  <2> QED BY <2>2, <2>3, <2>4 DEF NullInv
<1>7. ASSUME NEW r, Returns("main", r),
             op.name = "tx" /\ r.kind = "null" => x \notin Wallet /\ WasThere(x, Unknown),
             op.name = "receipt" /\ r.kind = "null" /\ failures' = 0 /\ x \in Contracts => Nowhere(x),
             op.name = "receipt" /\ r.kind = "tx" /\ x \in Contracts /\ Quiet => r.sender = "receipt" \/ r.outdated
      PROVE  NullInv'
  <2>1. pc'["main"] = "returned" /\ view'["main"] = NoView /\ result'["main"] = r
    BY <1>1, <1>7, LeavesBehind
  <2>2. Reasoned(tx["main"], pc["main"], view["main"])'
    BY <2>1 DEF Reasoned, Reading
  <2>3. SaysWhy(tx["main"], result["main"])'
    BY <1>2, <1>3, <1>7, <2>1 DEF SaysWhy
  <2>4. SaysWhy(tx["main"], reply)'
    BY <1>2, <1>5
  <2> QED BY <2>2, <2>3, <2>4 DEF NullInv
<1>8. Returns("main", Error) => NullInv'
  BY <1>7, Sorts
<1>9. ASSUME op.name = "tx", NEW s \in {"none", "script", "input", "receipt"}, Returns("main", TxAnswer(v, x, s))
      PROVE  NullInv'
  <2>1. TxAnswer(v, x, s).kind = "tx"
    BY <1>2, Sorts
  <2> QED BY <1>7, <1>9, <2>1
<1>10. CallFails => failures' > 0
  BY <1>2 DEF CallFails
<1>11. GetRawTransaction(x) = Unknown => WasThere(x, Unknown)
  <2>1. x \in Txs => rawCache[x] \in Blocks \cup {Pending, Absent}
    BY DEF TypeOK
  <2> QED BY <1>2, <2>1, NodeAssumption DEF GetRawTransaction, WasThere
<1>12. /\ NoView.cause = "none" /\ [NoView EXCEPT !.cause = "empty"].cause = "empty"
       /\ [NoView EXCEPT !.cause = "failed"].cause = "failed" /\ v.cause \in {"none", "empty", "failed"}
  BY <1>2 DEF NoView, Views
<1>13. /\ op.name = "tx" /\ pc["main"] \in {"reward", "rewardIndex", "rewardNumber", "rewardOut", "raw"} =>
            x \notin Wallet
       /\ op.name = "receipt" /\ pc["main"] \in {"reward", "rewardIndex", "rewardNumber", "rewardOut"} =>
            /\ v.cause = "empty" /\ x \in Contracts => Nowhere(x)
            /\ v.cause = "failed" => failures > 0
            /\ v.cause # "none"
       /\ op.name = "receipt" /\ pc["main"] \in {"rewardIndex", "rewardNumber", "rewardOut"} /\ x \in Contracts /\ Quiet =>
            v.outdated
  BY <1>4 DEF Reasoned, Reading
<1>14. ASSUME RewardFails("main"), pc["main"] \in {"reward", "rewardIndex", "rewardNumber", "rewardOut"}
       PROVE  NullInv'
  <2>1. CASE op.name = "tx"
    BY <1>6, <1>13, <1>14, <2>1 DEF RewardFails, IsReceipt
  <2>2. CASE op.name = "receipt"
    BY <1>7, <1>8, <1>13, <1>14, <2>2, Sorts DEF RewardFails, IsReceipt
  <2> QED BY <2>1, <2>2
<1>15. CASE GetWalletTransaction("main")
  <2>1. op.name = "tx" /\ (GetTransaction(x) = Unknown => x \notin Wallet)
    <3>1. pc["main"] = "gettransaction"
      BY <1>15 DEF GetWalletTransaction, At
    <3> QED BY <1>2, <1>4, <3>1, NodeAnswers DEF WorksFor, Control
  <2> QED BY <1>6, <1>8, <1>15, <2>1 DEF GetWalletTransaction
<1>16. CASE GetRewardTransaction("main")
  <2>1. pc["main"] = "reward"
    BY <1>16 DEF GetRewardTransaction, At
  <2> DEFINE p == GetRawTransaction(x)
             w == FromReward("main", p)
  <2>2. w.cause = v.cause /\ w.outdated = Outdated(x)
    BY <1>2 DEF FromReward, Views
  <2>3. CASE p = Unknown /\ op.name = "tx" /\ Returns("main", Null)
    BY <1>7, <1>11, <1>13, <2>1, <2>3
  <2>4. CASE p = Pending /\ op.name = "receipt" /\ Returns("main", Null)
    <3>1. failures' = 0 => failures = 0
      BY <1>2
    <3>2. failures = 0 => ~(failures > 0)
      OBVIOUS
    <3>3. failures' = 0 /\ x \in Contracts => Nowhere(x)
      BY <1>12, <1>13, <2>1, <2>4, <3>1, <3>2
    <3> QED BY <1>7, <2>4, <3>3, Sorts
  <2>5. CASE op.name = "tx" /\ Goes("main", "decode", w)
    BY <1>6, <2>5
  <2>6. CASE p \in Blocks /\ Goes("main", "rewardIndex", w)
    <3>1. x \in Contracts /\ Quiet /\ op.name = "receipt" => Outdated(x)
      <4> SUFFICES ASSUME x \in Contracts, Quiet, op.name = "receipt" PROVE Outdated(x)
        OBVIOUS
      <4>1. failures = 0 /\ tips = {tip} /\ ~(failures > 0)
        BY DEF Quiet
      <4>2. Nowhere(x)
        BY <1>12, <1>13, <2>1, <4>1
      <4>3. Place(x, tip) \notin Blocks
        BY <4>1, <4>2 DEF Nowhere
      <4> QED BY <2>6, <4>1, <4>3 DEF Outdated
    <3>2. failures > 0 => failures' > 0
      BY <1>2
    <3> QED BY <1>6, <1>13, <2>1, <2>2, <2>6, <3>1, <3>2
  <2>7. CASE RewardFails("main")
    BY <1>14, <2>1, <2>7
  <2> QED BY <1>16, <2>3, <2>4, <2>5, <2>6, <2>7 DEF GetRewardTransaction, IsReceipt
<1>17. failures > 0 => failures' > 0
  BY <1>2
<1>18. CASE GetRewardIndex("main")
  <2>1. pc["main"] = "rewardIndex"
    BY <1>18 DEF GetRewardIndex, At
  <2>2. \A i : [v EXCEPT !.index = i].cause = v.cause /\ [v EXCEPT !.index = i].outdated = v.outdated
    BY <1>2 DEF Views
  <2>3. RewardFails("main") \/ \E i : Goes("main", "rewardNumber", [v EXCEPT !.index = i])
    BY <1>18 DEF GetRewardIndex
  <2>4. ASSUME NEW i, Goes("main", "rewardNumber", [v EXCEPT !.index = i]) PROVE NullInv'
    BY <1>6, <1>13, <1>17, <2>1, <2>2, <2>4
  <2> QED BY <1>14, <2>1, <2>3, <2>4
<1>19. CASE GetRewardNumber("main")
  <2>1. pc["main"] = "rewardNumber"
    BY <1>19 DEF GetRewardNumber, At
  <2>2. \A i : [v EXCEPT !.number = i].cause = v.cause /\ [v EXCEPT !.number = i].outdated = v.outdated
    BY <1>2 DEF Views
  <2>3. RewardFails("main") \/ \E i : Goes("main", "rewardOut", [v EXCEPT !.number = i])
    BY <1>19 DEF GetRewardNumber
  <2>4. ASSUME NEW i, Goes("main", "rewardOut", [v EXCEPT !.number = i]) PROVE NullInv'
    BY <1>6, <1>13, <1>17, <2>1, <2>2, <2>4
  <2> QED BY <1>14, <2>1, <2>3, <2>4
<1>20. CASE GetRewardOutputs("main")
  <2>1. pc["main"] = "rewardOut"
    BY <1>20 DEF GetRewardOutputs, At
  <2>2. ASSUME op.name = "receipt", Returns("main", TxAnswer(v, x, "none")) PROVE NullInv'
    <3>1. TxAnswer(v, x, "none").kind = "tx" /\ TxAnswer(v, x, "none").outdated = v.outdated
      BY <1>2, Sorts
    <3> QED BY <1>7, <1>13, <2>1, <2>2, <3>1
  <2>3. ASSUME op.name = "tx", Goes("main", "decode", v) PROVE NullInv'
    BY <1>6, <2>3
  <2> QED BY <1>14, <1>20, <2>1, <2>2, <2>3 DEF GetRewardOutputs, IsReceipt
<1>21. CASE GetRaw("main")
  <2>1. pc["main"] = "raw" /\ op.name = "tx"
    <3>1. pc["main"] = "raw"
      BY <1>21 DEF GetRaw, At
    <3> QED BY <1>4, <3>1 DEF WorksFor
  <2>2. Returns("main", Null) /\ GetRawTransaction(x) = Unknown => NullInv'
    BY <1>7, <1>11, <1>13, <2>1
  <2>3. \A w : Goes("main", "decode", w) => NullInv'
    BY <1>6, <2>1
  <2> QED BY <1>8, <1>21, <2>2, <2>3 DEF GetRaw
<1>22. CASE Decode("main") \/ GetNumber("main") \/ GetSender("main")
  <2>1. pc["main"] \in {"decode", "number", "sender"}
    BY <1>22 DEF Decode, GetNumber, GetSender, At
  <2>2. op.name = "tx"
    BY <1>4, <2>1 DEF WorksFor
  <2>3. \A p \in {"number", "sender"} : \A w : Goes("main", p, w) => NullInv'
    BY <1>6, <2>2
  <2>4. \A s \in {"none", "script", "input", "receipt"} : Returns("main", TxAnswer(v, x, s)) => NullInv'
    BY <1>9, <2>2
  <2>5. SenderFails("main") => NullInv'
    BY <1>8, <2>4 DEF SenderFails
  <2>6. Decode("main") => NullInv'
    BY <1>8, <2>3 DEF Decode
  <2>7. GetNumber("main") => NullInv'
    BY <1>8, <2>3 DEF GetNumber
  <2>8. GetSender("main") => NullInv'
    BY <2>4, <2>5 DEF GetSender
  <2> QED BY <1>22, <2>6, <2>7, <2>8
<1>23. CASE GetReceipt("main") \/ GetReceiptRaw("main") \/ DecodeReceipt("main")
  <2>1. pc["main"] \in {"receipt", "receiptRaw", "receiptDecode"}
    BY <1>23 DEF GetReceipt, GetReceiptRaw, DecodeReceipt, At
  <2>2. op.name = "receipt"
    BY <1>4, <2>1 DEF WorksFor
  <2>3. \A p \in {"receiptRaw", "receiptDecode"} : \A w : Goes("main", p, w) => NullInv'
    BY <1>6, <2>2
  <2>4. GetReceipt("main") => NullInv'
    <3>1. ASSUME GetTransactionReceipt(x) = Unknown, Goes("main", "reward", [NoView EXCEPT !.cause = "empty"])
          PROVE  NullInv'
      <4>1. x \in Contracts => Nowhere(x)
        BY <1>2, <3>1, NodeAnswers DEF Control, Nowhere
      <4> QED BY <1>6, <1>12, <2>2, <3>1, <4>1
    <3>2. ASSUME CallFails, Goes("main", "reward", [NoView EXCEPT !.cause = "failed"])
          PROVE  NullInv'
      BY <1>6, <1>10, <1>12, <2>2, <3>2
    <3> QED BY <2>3, <3>1, <3>2 DEF GetReceipt
  <2>5. GetReceiptRaw("main") => NullInv'
    BY <1>8, <2>3 DEF GetReceiptRaw
  <2>6. DecodeReceipt("main") => NullInv'
    <3>1. TxAnswer(v, x, "receipt").kind = "tx" /\ TxAnswer(v, x, "receipt").sender = "receipt"
      BY <1>2, Sorts
    <3>2. Returns("main", TxAnswer(v, x, "receipt")) => NullInv'
      BY <1>7, <2>2, <3>1
    <3> QED BY <1>8, <3>2 DEF DecodeReceipt
  <2> QED BY <1>23, <2>4, <2>5, <2>6
<1> QED BY <1>15, <1>16, <1>18, <1>19, <1>20, <1>21, <1>22, <1>23 DEF TransactionStep

\* A step about a block is one of a call about blocks.
LEMMA BlockCallsStay ==
  ASSUME TypeOK, Control, NEW t \in Threads, BlockCase(t)
  PROVE  op.name \in BlockOps /\ op'.name = op.name
<1>1. CASE GetLatest(t)
  <2>1. op.name \in {"getBlockByNumber", "byIndex"} /\ op.asked \in BlockParams
    BY <1>1, Working DEF GetLatest, WorksFor
  <2>2. op \in Ops /\ height[tip] \in Nat
    BY HeightDef DEF TypeOK
  <2> DEFINE q == [op EXCEPT !.number = height[tip]]
  <2>3. q.name = op.name
    BY <2>1, <2>2, OpMoves
  <2>4. op' = op \/ op' = q
    BY <1>1 DEF GetLatest, GetBlockChainInfo
  <2> HIDE DEF q
  <2> QED BY <2>1, <2>3, <2>4 DEF BlockOps
<1>2. CASE GetHash(t)
  BY <1>2, Working DEF GetHash, At, WorksFor, BlockOps
<1> QED BY <1>1, <1>2 DEF BlockCase, Opens, Gives, Takes

LEMMA NullGoesOn == TypeOK /\ Control /\ NullInv /\ [Next]_vars => NullInv'
<1> SUFFICES ASSUME TypeOK, Control, NullInv, [Next]_vars PROVE NullInv'
  OBVIOUS
<1>0. op'.name \notin {"tx", "receipt"} => NullInv'
  BY DEF NullInv
<1>1. CASE Ask
  <2>1. /\ \A t \in Threads : result[t] = NoResult
        /\ reply = NoReplyYet /\ UNCHANGED <<view, result, reply>> /\ "main" \in Threads
    BY <1>1, Begun, Fresh DEF Threads
  <2>2. pc'["main"] \notin Reading
    <3>1. OtherPcs \cap Reading = {}
      BY DEF OtherPcs, Reading
    <3> QED BY <1>1, <2>1, <3>1, BegunAt DEF Reading
  <2>3. Reasoned(tx["main"], pc["main"], view["main"])'
    BY <2>2 DEF Reasoned, Reading
  <2>4. result'["main"].kind = "none" /\ reply'.kind = "none"
    BY <2>1, Sorts DEF NoReplyYet
  <2>5. SaysWhy(tx["main"], result["main"])' /\ SaysWhy(tx["main"], reply)'
    BY <2>4 DEF SaysWhy
  <2> QED BY <2>3, <2>5 DEF NullInv
<1>2. ASSUME NEW t \in Threads, TransactionStep(t), UNCHANGED <<blockVars, reply>>
      PROVE  NullInv'
  <2>1. TxGoesOn(t)
    BY <1>2, TransactionGoesOn
  <2>2. op' = op /\ pc[t] # "idle"
    BY <2>1 DEF TxGoesOn, TxPcs, Reading
  <2>3. op.name \in {"tx", "receipt"} => t = "main"
    BY <2>2, Working DEF IsByHash
  <2> QED BY <1>0, <1>2, <2>2, <2>3, TransactionReasoned
<1>3. ASSUME NEW t \in Threads, BlockCase(t) PROVE NullInv'
  BY <1>0, <1>3, BlockCallsStay DEF BlockOps
<1>4. CASE LookUp \/ Receive
  <2>1. op' = op /\ IsByHash
    BY <1>4 DEF LookUp, At, Receive, ReceiveFirst, ReceiveError, ReceiveSecond, Control, WorksFor, Threads
  <2> QED BY <1>0, <2>1 DEF IsByHash
<1>5. CASE OtherStep
  BY <1>0, <1>5, OtherCalls DEF OtherStep, OtherOps
<1>6. CASE AnswerTransaction
  <2>1. /\ UNCHANGED <<op, tx, view, result, tips, tip, failures>> /\ "main" \in Threads
        /\ pc' = [pc EXCEPT !["main"] = "idle"] /\ op.name \in {"tx", "receipt"}
    BY <1>6 DEF AnswerTransaction, GoTo, txVars, nodeVars, Threads
  <2>2. tip \in tips /\ failures \in Nat /\ pc'["main"] = "idle"
    BY <2>1, NodeAssumption DEF TypeOK
  <2>3. Reasoned(tx["main"], pc["main"], view["main"])'
    BY <2>2 DEF Reasoned, Reading
  <2>4. \A x, r : SaysWhy(x, r) => SaysWhy(x, r)'
    BY <2>1, <2>2, ReasonsStay
  <2>5. SaysWhy(tx["main"], result["main"])
    BY <2>1 DEF NullInv
  <2>6. SaysWhy(tx["main"], reply')
    BY <1>6, <2>5, AnswerTells DEF SaysWhy
  <2>7. SaysWhy(tx["main"], reply)'
    BY <2>1, <2>6 DEF SaysWhy, WasThere, Nowhere, Place, Quiet
  <2>8. SaysWhy(tx["main"], result["main"])'
    BY <2>1, <2>5 DEF SaysWhy, WasThere, Nowhere, Place, Quiet
  <2> QED BY <2>3, <2>7, <2>8 DEF NullInv
<1>7. CASE Finish
  BY <1>0, <1>7 DEF Finish, NoOp
<1>8. CASE NodeChanges \/ UNCHANGED vars
  <2>1. UNCHANGED <<op, tx, view, result, pc, reply>>
    BY <1>8 DEF NodeChanges, txVars, blockVars, vars
  <2>2. tips \subseteq tips' /\ tip' \in tips' /\ failures' = failures /\ failures \in Nat
    <3>1. tip \in tips /\ failures \in Nat
      BY NodeAssumption DEF TypeOK
    <3>2. (Move \/ Expire \/ UNCHANGED vars) => tips \subseteq tips' /\ tip' \in tips' /\ failures' = failures
      BY <3>1 DEF Move, Expire, vars, nodeVars
    <3> QED BY <1>8, <3>1, <3>2 DEF NodeChanges
  <2>3. /\ \A x, p, v : Reasoned(x, p, v) => Reasoned(x, p, v)'
        /\ \A x, r : SaysWhy(x, r) => SaysWhy(x, r)'
    BY <2>1, <2>2, ReasonsStay
  <2> QED BY <2>1, <2>3 DEF NullInv
<1> QED
  BY <1>1, <1>2, <1>3, <1>4, <1>5, <1>6, <1>7, <1>8, NextCases

\* eth_getTransactionByHash, eth_getTransactionReceipt: null is answered only
\* of what the node did not have at some time of the call, and a receipt leaves
\* out what a contract did only after a failure, a change of the chain or an
\* outdated answer of the cache (getTransactionByHash, getRewardTransactionByHash
\* and what eth_getTransactionReceipt falls back to).
THEOREM NullAlwaysMeansUnknown == Spec => []NullMeansUnknown
<1>1. NullInv => NullMeansUnknown
  BY DEF NullInv, SaysWhy, NullMeansUnknown, WasThere, Nowhere, Quiet
<1>2. Init => NullInv
  BY DEF Init, NullInv, NoOp
<1>3. TypeOK /\ Control /\ NullInv /\ [Next]_vars => (TypeOK /\ Control /\ NullInv)'
  BY StepsKeep, NullGoesOn
<1> QED BY <1>1, <1>2, <1>3, StartsWell, PTL DEF Spec

-----------------------------------------------------------------------------
(* Blocks by their number                                                    *)

NumberCalls == {"getBlockByNumber", "byIndex"}
TipHeights == {height[t] : t \in tips}

\* The block that is read is the one that was asked for.
Named(p, h) ==
    /\ op.asked \in BlockParams =>
         /\ p \in {"header", "block"} \cup TxPcs => h \in Meant(op.number)
         /\ op.asked = Latest /\ p \in {"hash", "header", "block"} \cup TxPcs => op.number \in TipHeights
         /\ p = "hash" => op.number \in Nat
    /\ op.name = "byIndex" /\ op.asked \in Hashes /\ p \in {"header", "block"} \cup TxPcs => h = op.asked

AsAsked(r) ==
    /\ op.name = "getBlockByNumber" /\ r.kind = "block" =>
         /\ r.number = height[r.hash] /\ r.hash \in Meant(op.number)
         /\ op.asked = Latest => op.number \in TipHeights
    /\ op.name = "getBlockByNumber" /\ r.kind = "null" => \E t \in tips : height[t] < op.number
    /\ op.name = "byIndex" /\ op.asked \notin Hashes /\ r.kind = "tx" =>
         \E b \in Meant(op.number) : op.index < Len(body[b]) /\ r.tx = body[b][op.index + 1]
    /\ op.name = "byIndex" /\ op.asked \in Blocks /\ r.kind = "tx" => r.tx = body[op.asked][op.index + 1]
    /\ op.name = "byIndex" /\ r.kind = "panic" => op.index > MaxInt

NumberInv == op.name \in NumberCalls => Named(pc["main"], block["main"].hash) /\ AsAsked(reply)

LEMMA NumbersStay ==
  ASSUME tips \subseteq tips', op' = op
  PROVE  /\ \A p, h : Named(p, h) => Named(p, h)'
         /\ \A r : AsAsked(r) => AsAsked(r)'
<1>1. (\A n : Meant(n) \subseteq Meant(n)') /\ TipHeights \subseteq TipHeights'
  BY DEF Meant, SeenBlocks, TipHeights
<1>2. \A p, h : Named(p, h) => Named(p, h)'
  BY <1>1 DEF Named
<1>3. \A r : AsAsked(r) => AsAsked(r)'
  BY <1>1 DEF AsAsked
<1> QED BY <1>2, <1>3

\* A block is asked for by its number, or by a hash.
LEMMA NumberSorts ==
  ASSUME TypeOK, op.name \in NumberCalls
  PROVE  /\ op.name = "getBlockByNumber" => op.asked \in BlockParams
         /\ op.asked \in BlockParams \cup Hashes
         /\ op.name = "byIndex" => op.index \in Nat
         /\ op.asked \in BlockParams => op.asked \notin Hashes
<1>1. op \in Ops
  BY DEF TypeOK
<1>2. \A h \in Hashes : h \notin BlockParams
  <2>1. BlockParams \subseteq Int
    BY CallsAssumption DEF BlockParams, Latest
  <2> QED BY <2>1, CallsAssumption
<1>3. \A i \in Indexes : i \in Nat
  BY IntOf
<1> QED BY <1>1, <1>2, <1>3, OpSorts DEF NumberCalls, NumberOps, PositionOps, HashPositionOps

\* The answer about the block that was read.
LEMMA GivesAsAsked ==
  ASSUME IgnoreUnknownTx = FALSE, TypeOK, Control, WholeInv, NumberInv, op.name \in NumberCalls,
         NEW t \in Threads, NEW r \in Answered, Gives(t, r), Earned(t, r)
  PROVE  NumberInv'
<1>1. /\ pc' = [pc EXCEPT ![t] = "idle"] /\ op' = op /\ NodeGoesOn
      /\ pc[t] \in {"header", "block", "returned"} /\ ~IsByHash
  BY Sends, NodeSteps DEF Gives, Control, IsByHash, NumberCalls
<1>2. t = "main" /\ pc'["main"] = "idle"
  BY <1>1, Working DEF TypeOK
<1>3. Named("idle", block'["main"].hash)
  BY DEF Named, TxPcs, Reading
<1>4. pc["main"] \in {"header", "block"} \cup TxPcs
  BY <1>1, <1>2 DEF TxPcs
<1>5. Named(pc["main"], block["main"].hash)
  BY DEF NumberInv
<1>6. reply' = IF op.name = "byIndex" THEN AtIndex(r) ELSE r
  BY <1>1, Sends DEF Gives
<1>7. WholeBlock(r)
  BY EarnedWhole DEF WholeInv, NumberCalls, BlockOps
<1> DEFINE h == block["main"].hash
<1>8. r.kind = "block" => r.hash = h
  BY <1>2 DEF Earned, Gains, BlockAnswer, Null, Error
<1>9. op.asked \in BlockParams => h \in Meant(op.number) /\ h \in Blocks /\ (op.asked = Latest => op.number \in TipHeights)
  <2>1. op.asked \in BlockParams => h \in Meant(op.number) /\ (op.asked = Latest => op.number \in TipHeights)
    BY <1>4, <1>5 DEF Named
  <2>2. Meant(op.number) \subseteq Blocks
    BY BranchDef DEF Meant, SeenBlocks, TypeOK
  <2> QED BY <2>1, <2>2
<1>10. op.name = "byIndex" /\ op.asked \in Hashes => h = op.asked
  BY <1>4, <1>5 DEF Named
<1> HIDE DEF h
<1>11. CASE op.name = "getBlockByNumber"
  <2>1. op.asked \in BlockParams /\ reply' = r
    BY <1>6, <1>11, NumberSorts
  <2>2. r.kind = "block" => r.number = height[r.hash] /\ r.hash \in Meant(op.number)
                            /\ (op.asked = Latest => op.number \in TipHeights)
    BY <1>7, <1>8, <1>9, <2>1 DEF WholeBlock
  <2>3. r.kind # "null"
    <3>1. r # Null
      BY <1>2, <1>9, <2>1 DEF Earned, Null, Error, BlockAnswer, h
    <3> QED BY <3>1 DEF Answered, Error, BlockAnswers
  <2>4. AsAsked(reply')
    BY <1>11, <2>1, <2>2, <2>3 DEF AsAsked
  <2> QED BY <1>1, <1>2, <1>3, <2>4, NumbersStay DEF NumberInv, NodeGoesOn
<1>12. CASE op.name = "byIndex"
  <2>1. op.index \in Nat /\ op.asked \in BlockParams \cup Hashes
    BY <1>12, NumberSorts
  <2>2. ASSUME r.kind = "block", op.index < Len(r.txs)
        PROVE  /\ op.index < Len(body[h]) /\ r.txs[op.index + 1].tx = body[h][op.index + 1]
    <3>1. r \in BlockAnswers /\ Full /\ r.hash = h /\ h \in Blocks
      BY <1>7, <1>8, <1>12, <2>2 DEF WholeBlock, Full, BlockAnswers
    <3>2. Len(r.txs) = (IF h = Genesis THEN 0 ELSE Len(body[h])) /\ \A i \in DOMAIN r.txs : r.txs[i].tx = body[h][i]
      BY <1>7, <2>2, <3>1 DEF WholeBlock
    <3>3. Len(r.txs) \in Nat /\ DOMAIN r.txs = 1..Len(r.txs)
      BY <3>1 DEF BlockAnswers
    <3> QED BY <2>1, <2>2, <3>2, <3>3
  <2>3. \/ reply'.kind \notin {"tx", "panic"}
        \/ reply'.kind = "panic" /\ op.index > MaxInt
        \/ r.kind = "block" /\ op.index < Len(r.txs) /\ reply' = r.txs[op.index + 1]
    <3>1. reply' = AtIndex(r)
      BY <1>6, <1>12
    <3>2. r.kind # "block" => r.kind \notin {"tx", "panic"}
      BY DEF Answered, Null, Error, BlockAnswers
    <3>3. Null.kind \notin {"tx", "panic"} /\ [kind |-> "panic"].kind = "panic"
      BY DEF Null
    <3> QED BY <1>12, <3>1, <3>2, <3>3, Indexed
  <2>4. ASSUME reply'.kind \notin {"tx", "panic"} \/ (reply'.kind = "panic" /\ op.index > MaxInt)
        PROVE  AsAsked(reply')
    BY <1>12, <2>4 DEF AsAsked
  <2>5. ASSUME r.kind = "block", op.index < Len(r.txs), reply' = r.txs[op.index + 1]
        PROVE  AsAsked(reply')
    <3>1. reply'.kind = "tx"
      <4>1. r.txs \in Seq(Translated)
        <5>1. PICK b \in PartialBlocks : r = BlockAnswer(b)
          BY <1>12, <2>5 DEF Earned, Full, Null, Error
        <5> QED BY <5>1 DEF BlockAnswer, PartialBlocks
      <4>2. op.index + 1 \in DOMAIN r.txs
        BY <2>1, <2>5, <4>1
      <4>3. r.txs[op.index + 1] \in Translated
        BY <4>1, <4>2
      <4> QED BY <2>5, <4>3, Sorts DEF Translated
    <3> QED BY <1>9, <1>10, <1>12, <2>1, <2>2, <2>5, <3>1 DEF AsAsked, Hashes
  <2>6. AsAsked(reply')
    BY <2>3, <2>4, <2>5
  <2> QED BY <1>1, <1>2, <1>3, <2>6, NumbersStay DEF NumberInv, NodeGoesOn
<1> QED BY <1>11, <1>12 DEF NumberCalls

LEMMA BlocksAsAsked ==
  ASSUME IgnoreUnknownTx = FALSE, TypeOK, Control, WholeInv, NumberInv, op.name \in NumberCalls,
         NEW t \in Threads, BlockCase(t)
  PROVE  NumberInv'
<1>1. pc[t] # "idle" /\ ~IsByHash
  BY DEF BlockCase, GetLatest, GetHash, At, Opens, Gives, Takes, IsByHash, NumberCalls
<1>2. /\ t = "main" /\ reply = NoReplyYet /\ WorksFor("main")
      /\ Named(pc["main"], block["main"].hash)
  BY <1>1, Working DEF NumberInv
<1>3. AsAsked(reply) /\ AsAsked(Error)
  BY DEF NumberInv, AsAsked, Error
<1>4. \A p, h : UNCHANGED <<op, tips>> /\ Named(p, h) => Named(p, h)'
  BY NumbersStay
<1>5. \A r : UNCHANGED <<op, tips>> /\ AsAsked(r) => AsAsked(r)'
  BY NumbersStay
<1>6. \A h : Named("idle", h) /\ Named("idle", h)'
  BY DEF Named, TxPcs, Reading
<1>7. CASE GetLatest(t)
  <2>1. op.name \in NumberCalls /\ op.asked \in BlockParams
    BY <1>2, <1>7 DEF GetLatest, WorksFor, NumberCalls
  <2>2. op \in Ops /\ height[tip] \in Nat /\ tip \in tips
    BY HeightDef DEF TypeOK
  <2>3. CASE CallFails /\ pc' = [pc EXCEPT ![t] = "idle"] /\ reply' = Error /\ UNCHANGED op
    <3>1. pc'["main"] = "idle" /\ UNCHANGED <<op, tips>>
      BY <1>2, <2>3 DEF CallFails, TypeOK
    <3> QED BY <1>3, <1>5, <1>6, <2>3, <3>1 DEF NumberInv
  <2>4. CASE op' = [op EXCEPT !.number = height[tip]] /\ pc' = [pc EXCEPT ![t] = "hash"] /\ reply' = reply
             /\ UNCHANGED nodeVars
    <3>1. pc'["main"] = "hash" /\ tips' = tips
      BY <1>2, <2>4 DEF nodeVars, TypeOK
    <3> DEFINE q == [op EXCEPT !.number = height[tip]]
    <3>2. q.name = op.name /\ q.asked = op.asked /\ q.number = height[tip]
      BY <2>1, <2>2, OpMoves DEF NumberCalls
    <3>3. op' = q
      BY <2>4
    <3> HIDE DEF q
    <3>4. height[tip] \in TipHeights /\ TipHeights' = TipHeights
      BY <2>2, <3>1 DEF TipHeights
    <3>5. \A h : Named("hash", h)'
      BY <2>1, <2>2, <3>2, <3>3, <3>4, NumberSorts DEF Named, TxPcs, Reading
    <3>6. reply'.kind = "none"
      BY <1>2, <2>4 DEF NoReplyYet
    <3>7. AsAsked(reply)'
      BY <3>6 DEF AsAsked
    <3> QED BY <3>1, <3>5, <3>7 DEF NumberInv
  <2> QED BY <1>7, <2>3, <2>4 DEF GetLatest, GetBlockChainInfo, GoTo, Replies, NoReply
<1>8. CASE GetHash(t)
  <2> DEFINE h == GetBlockHash(op.number)
  <2>1. pc["main"] = "hash" /\ UNCHANGED <<op, tips>> /\ op.asked \in BlockParams
    BY <1>2, <1>8 DEF GetHash, At, CallFails, nodeVars, WorksFor
  <2>2. op.number \in Nat /\ (op.asked = Latest => op.number \in TipHeights)
    BY <1>2, <2>1 DEF Named
  <2>3. tip \in tips /\ tip \in Blocks /\ height[tip] \in Nat
    BY HeightDef DEF TypeOK
  <2>4. CASE h # Unknown /\ block' = [block EXCEPT ![t].hash = h] /\ pc' = [pc EXCEPT ![t] = "header"] /\ reply' = reply
    <3>1. pc'["main"] = "header" /\ block'["main"].hash = h
      BY <1>2, <2>4 DEF TypeOK, PartialBlocks
    <3>2. h \in branch[tip] /\ h \in Blocks /\ height[h] = op.number
      BY <2>3, <2>4, BlockAt
    <3>3. h \in Meant(op.number)
      BY <2>3, <3>2 DEF Meant, SeenBlocks
    <3> HIDE DEF h
    <3>4. Named("header", h)
      BY <2>1, <2>2, <3>3, NumberSorts DEF Named
    <3> QED BY <1>3, <1>4, <1>5, <2>1, <2>4, <3>1, <3>4 DEF NumberInv
  <2>5. CASE h = Unknown /\ pc' = [pc EXCEPT ![t] = "idle"] /\ reply' = Null
    <3>1. pc'["main"] = "idle"
      BY <1>2, <2>5 DEF TypeOK
    <3>2. op.number \notin 0..height[tip]
      BY <2>3, <2>5, BlockAt, NodeAssumption
    <3>3. height[tip] < op.number
      BY <2>2, <2>3, <3>2
    <3>4. AsAsked(Null)
      BY <2>3, <3>3 DEF AsAsked, Null
    <3> QED BY <1>5, <1>6, <2>1, <2>5, <3>1, <3>4 DEF NumberInv
  <2>6. CASE pc' = [pc EXCEPT ![t] = "idle"] /\ reply' = Error
    <3>1. pc'["main"] = "idle"
      BY <1>2, <2>6 DEF TypeOK
    <3> QED BY <1>3, <1>5, <1>6, <2>1, <2>6, <3>1 DEF NumberInv
  <2> QED BY <1>8, <2>4, <2>5, <2>6 DEF GetHash, GoTo, Replies, NoReply
<1>9. CASE Opens(t)
  <2>1. UNCHANGED <<op, tips, block, reply>> /\ pc["main"] = "header" /\ pc'["main"] = "block"
    BY <1>2, <1>9 DEF Opens, nodeVars, blockVars, TypeOK
  <2>2. Named("block", block["main"].hash)
    BY <1>2, <2>1 DEF Named
  <2> QED BY <1>3, <1>4, <1>5, <2>1, <2>2 DEF NumberInv
<1>10. ASSUME NEW b \in PartialBlocks, Takes(t, b), Gains(t, b) PROVE NumberInv'
  <2>1. /\ UNCHANGED <<op, tips, reply>> /\ pc["main"] \in {"block", "returned"} /\ pc'["main"] = "gettransaction"
        /\ block'["main"].hash = block["main"].hash
    BY <1>2, <1>10 DEF Takes, nodeVars, TypeOK, PartialBlocks
  <2>2. Named("gettransaction", block["main"].hash)
    BY <1>2, <2>1 DEF Named, TxPcs
  <2> QED BY <1>3, <1>4, <1>5, <2>1, <2>2 DEF NumberInv
<1> QED BY <1>7, <1>8, <1>9, <1>10, GivesAsAsked DEF BlockCase

LEMMA NumberGoesOn ==
  ASSUME IgnoreUnknownTx = FALSE
  PROVE  TypeOK /\ Control /\ WholeInv /\ NumberInv /\ [Next]_vars => NumberInv'
<1> SUFFICES ASSUME TypeOK, Control, WholeInv, NumberInv, [Next]_vars PROVE NumberInv'
  OBVIOUS
<1>0. op'.name \notin NumberCalls => NumberInv'
  BY DEF NumberInv
<1>1. CASE Ask
  <2>1. /\ op = NoOp /\ reply' = NoReplyYet /\ "main" \in Threads
        /\ pc["main"] = "idle" /\ block["main"] = NoBlock
    BY <1>1, Begun, Fresh DEF Threads
  <2>2. AsAsked(reply)'
    BY <2>1 DEF AsAsked, NoReplyYet
  <2>3. ASSUME NEW o \in Ops, NEW p \in {"latest", "hash"}, Opened(o, p), o.name \in NumberCalls,
               o.asked \in BlockParams, o.number = o.asked, p = "latest" <=> o.asked = Latest
        PROVE  NumberInv'
    <3>1. pc'["main"] = p /\ op' = o
      BY <2>1, <2>3 DEF Opened, TypeOK
    <3>2. p = "hash" => o.number \in Nat
      BY <2>3, CallsAssumption DEF BlockParams
    <3>3. \A h : Named(p, h)'
      BY <2>3, <3>1, <3>2 DEF Named, TxPcs, Reading
    <3> QED BY <2>2, <3>1, <3>3 DEF NumberInv
  <2>4. ASSUME NEW o \in Ops, Opened(o, "header"), o.name = "byIndex", o.asked \in Hashes,
               block' = [block EXCEPT !["main"].hash = o.asked]
        PROVE  NumberInv'
    <3>1. pc'["main"] = "header" /\ op' = o /\ block'["main"].hash = o.asked
      BY <2>1, <2>4 DEF Opened, TypeOK, NoBlock, PartialBlocks
    <3>2. o.asked \notin BlockParams
      BY <2>4, CallsAssumption DEF BlockParams, Latest
    <3>3. Named(pc["main"], block["main"].hash)'
      BY <3>1, <3>2 DEF Named
    <3> QED BY <2>2, <3>3 DEF NumberInv
  <2>5. AskBlockByHash => op'.name = "getBlockByHash"
    BY DEF AskBlockByHash
  <2>6. \A n \in {"tx", "receipt"} : [name |-> n].name \notin NumberCalls
    BY DEF NumberCalls
  <2>7. OtherOps \cap NumberCalls = {}
    BY DEF OtherOps, NumberCalls
  <2>8. \A o, p : Opened(o, p) => op' = o
    BY DEF Opened
  <2>9. CASE \E x \in Txs \cup {Unknown}, n \in {"tx", "receipt"} :
               /\ Opened([name |-> n], IF n = "tx" THEN "gettransaction" ELSE "receipt")
               /\ tx' = [tx EXCEPT !["main"] = x] /\ block' = block
    BY <1>0, <2>6, <2>8, <2>9
  <2>10. CASE \E o \in Ops, p \in OtherPcs :
               Opened(o, p) /\ o.name \in OtherOps /\ Serves(p, o.name) /\ tx' = tx /\ block' = block
    BY <1>0, <2>7, <2>8, <2>10
  <2> QED BY <1>0, <1>1, <2>3, <2>4, <2>5, <2>9, <2>10, AskCases DEF AskCase, NumberCalls
<1>2. ASSUME NEW t \in Threads, TransactionStep(t), UNCHANGED <<blockVars, reply>>
      PROVE  NumberInv'
  <2>1. TxGoesOn(t)
    BY <1>2, TransactionGoesOn
  <2>2. UNCHANGED <<op, tips, reply, block>> /\ pc[t] \in TxPcs /\ pc'[t] \in TxPcs
    BY <1>2, <2>1 DEF TxGoesOn, NodeGoesOn, blockVars, TxPcs
  <2>3. pc'["main"] = pc["main"] \/ (pc["main"] \in TxPcs /\ pc'["main"] \in TxPcs)
    BY <2>1, <2>2 DEF TxGoesOn, Others, Threads
  <2>4. ASSUME op.name \in NumberCalls PROVE Named(pc'["main"], block["main"].hash)
    <3>1. Named(pc["main"], block["main"].hash)
      BY <2>4 DEF NumberInv
    <3> QED BY <2>3, <3>1 DEF Named, TxPcs, Reading
  <2> QED BY <2>2, <2>4, NumbersStay DEF NumberInv
<1>3. ASSUME NEW t \in Threads, BlockCase(t) PROVE NumberInv'
  BY <1>0, <1>3, BlockCallsStay, BlocksAsAsked
<1>4. CASE LookUp \/ Receive
  <2>1. op' = op /\ IsByHash
    BY <1>4 DEF LookUp, At, Receive, ReceiveFirst, ReceiveError, ReceiveSecond, Control, WorksFor, Threads
  <2> QED BY <1>0, <2>1 DEF IsByHash, NumberCalls
<1>5. CASE OtherStep
  BY <1>0, <1>5, OtherCalls DEF OtherStep, OtherOps, NumberCalls
<1>6. CASE AnswerTransaction
  BY <1>0, <1>6 DEF AnswerTransaction, txVars, NumberCalls
<1>7. CASE Finish
  BY <1>0, <1>7 DEF Finish, NoOp, NumberCalls
<1>8. CASE NodeChanges \/ UNCHANGED vars
  <2>1. UNCHANGED <<op, pc, block, reply>>
    BY <1>8 DEF NodeChanges, txVars, blockVars, vars
  <2>2. tips \subseteq tips'
    BY <1>8 DEF NodeChanges, Move, Expire, vars, nodeVars
  <2> QED BY <2>1, <2>2, NumbersStay DEF NumberInv
<1> QED
  BY <1>1, <1>2, <1>3, <1>4, <1>5, <1>6, <1>7, <1>8, NextCases

\* eth_getBlockByNumber, eth_getTransactionByBlock...AndIndex: the answer is the
\* block of the height that was asked for on a branch that was active, or its
\* transaction at the position, though the chain may change between the answers
\* with its height, its hash and its contents; and only an index that is no int
\* makes the handler panic. With the flag ignoreTransactions positions would
\* shift.
THEOREM BlocksAlwaysAsAsked ==
  ASSUME IgnoreUnknownTx = FALSE
  PROVE  Spec => []BlockAsAsked
<1>1. TypeOK /\ NumberInv => BlockAsAsked
  BY DEF NumberInv, AsAsked, BlockAsAsked, NumberCalls, TipHeights
<1>2. Init => NumberInv
  BY DEF Init, NumberInv, NoOp, NumberCalls
<1>3. /\ TypeOK /\ Control /\ PlacesInv /\ WholeInv /\ NumberInv /\ [Next]_vars
      => (TypeOK /\ Control /\ PlacesInv /\ WholeInv /\ NumberInv)'
  BY StepsKeep, PlacesGoOn, WholeGoesOn, NumberGoesOn
<1> QED BY <1>1, <1>2, <1>3, StartsWell, PlacesBegin, WholeBegins, PTL DEF Spec

-----------------------------------------------------------------------------
(* Sums                                                                      *)

LEMMA SetInduction ==
  ASSUME NEW I, IsFiniteSet(I), NEW Good \in SUBSET SUBSET I,
         \A s \in SUBSET I : (\A r \in SUBSET s : r # s => r \in Good) => s \in Good
  PROVE  Good = SUBSET I
<1> DEFINE Bad == (SUBSET I) \ Good
           Sizes == {Cardinality(s) : s \in Bad}
<1>1. \A s \in SUBSET I : IsFiniteSet(s) /\ Cardinality(s) \in Nat
  BY FS_Subset, FS_CardinalityType
<1>2. ASSUME NEW s \in SUBSET I, NEW r \in SUBSET s, r # s
      PROVE  r \in SUBSET I /\ Cardinality(r) \in Nat /\ Cardinality(r) < Cardinality(s)
  <2>1. IsFiniteSet(s) /\ Cardinality(s) \in Nat /\ Cardinality(r) \in Nat
    BY <1>1
  <2>2. Cardinality(r) <= Cardinality(s) /\ Cardinality(s) # Cardinality(r)
    BY <1>2, <2>1, FS_Subset
  <2> QED BY <2>1, <2>2
<1>3. Sizes = {}
  <2> SUFFICES ASSUME Sizes # {} PROVE FALSE
    OBVIOUS
  <2>1. Sizes \in SUBSET Nat
    BY <1>1
  <2> HIDE DEF Sizes
  <2>2. PICK k \in Sizes : \A j \in Sizes : k <= j
    BY <2>1, Least
  <2>3. PICK s \in Bad : Cardinality(s) = k
    BY <2>2 DEF Sizes
  <2>4. ASSUME NEW r \in SUBSET s, r # s PROVE r \in Good
    <3>1. r \in SUBSET I /\ Cardinality(r) \in Nat /\ Cardinality(r) < k
      BY <1>2, <2>3, <2>4
    <3>2. r \in Bad => Cardinality(r) \in Sizes
      BY DEF Sizes
    <3>3. k \in Nat
      BY <2>1
    <3> QED BY <2>2, <3>1, <3>2, <3>3
  <2> QED BY <2>3, <2>4
<1> QED BY <1>3

\* A fold over the subsets of a finite set, whose elements are picked in any
\* fixed order: sums, where m is one, and numbers from their digits.
IsFold(I, m, w, pick, f) ==
    /\ f \in [SUBSET I -> Nat]
    /\ \A s \in SUBSET I : f[s] = IF s = {} THEN 0 ELSE w[pick[s]] + m * f[s \ {pick[s]}]

LEMMA FoldExists ==
  ASSUME NEW I, IsFiniteSet(I), NEW m \in Nat, NEW w, \A x \in I : w[x] \in Nat,
         NEW pick, \A s \in SUBSET I : s # {} => pick[s] \in s
  PROVE  \E f : IsFold(I, m, w, pick, f)
<1> DEFINE Size(k) == {s \in SUBSET I : Cardinality(s) <= k}
           Value0(f, s) == IF s = {} THEN 0 ELSE w[pick[s]] + m * f[s \ {pick[s]}]
           Part(k, f) == f \in [Size(k) -> Nat] /\ \A s \in Size(k) : f[s] = Value0(f, s)
           S == {k \in Nat : ~\E f : Part(k, f)}
<1>1. \A s \in SUBSET I : Cardinality(s) \in Nat /\ Cardinality(s) <= Cardinality(I)
  BY FS_Subset, FS_CardinalityType
<1>2. ASSUME NEW s \in SUBSET I, s # {}
      PROVE  /\ w[pick[s]] \in Nat /\ s \ {pick[s]} \in SUBSET I
             /\ Cardinality(s \ {pick[s]}) = Cardinality(s) - 1
  <2>1. IsFiniteSet(s) /\ pick[s] \in s
    BY <1>2, FS_Subset
  <2> QED BY <2>1, FS_RemoveElement
<1>3. ASSUME NEW k \in Nat, NEW s \in Size(k), s # {}
      PROVE  s \ {pick[s]} \in Size(k) /\ s \ {pick[s]} \in Size(k - 1) /\ k # 0
  <2>1. s \in SUBSET I /\ Cardinality(s) <= k
    OBVIOUS
  <2>2. Cardinality(s) \in Nat /\ s \ {pick[s]} \in SUBSET I
    BY <1>1, <1>2, <1>3, <2>1
  <2>3. Cardinality(s \ {pick[s]}) = Cardinality(s) - 1 /\ Cardinality(s \ {pick[s]}) \in Nat
    BY <1>1, <1>2, <1>3, <2>1, <2>2
  <2>4. k # 0 /\ Cardinality(s \ {pick[s]}) <= k - 1 /\ Cardinality(s \ {pick[s]}) <= k
    BY <2>1, <2>2, <2>3
  <2> QED BY <2>2, <2>4
<1>4. ASSUME NEW s \in SUBSET I, NEW f, s # {} => f[s \ {pick[s]}] \in Nat
      PROVE  Value0(f, s) \in Nat
  <2>1. s # {} => w[pick[s]] \in Nat
    BY <1>2
  <2>2. \A a, b \in Nat : a + m * b \in Nat
    OBVIOUS
  <2> QED BY <1>4, <2>1, <2>2
<1>5. S = {}
  <2> SUFFICES ASSUME S # {} PROVE FALSE
    OBVIOUS
  <2>1. S \in SUBSET Nat
    OBVIOUS
  <2> HIDE DEF S
  <2>2. PICK k \in S : \A j \in S : k <= j
    BY <2>1, Least
  <2>3. k \in Nat
    BY <2>1
  <2>4. CASE k = 0
    <3> DEFINE f == [s \in Size(0) |-> 0]
    <3>1. \A s \in Size(0) : s = {}
      BY <1>3
    <3>2. f \in [Size(0) -> Nat] /\ \A s \in Size(0) : f[s] = Value0(f, s)
      BY <3>1
    <3> HIDE DEF f
    <3>3. Part(0, f)
      BY <3>2
    <3> QED BY <2>4, <3>3 DEF S
  <2>5. CASE k # 0
    <3>1. k - 1 \in Nat /\ k - 1 \notin S
      BY <2>2, <2>3, <2>5
    <3>2. PICK f : Part(k - 1, f)
      BY <3>1 DEF S
    <3> DEFINE g == [s \in Size(k) |-> Value0(f, s)]
    <3>3. \A s \in Size(k) : s # {} => f[s \ {pick[s]}] \in Nat
      BY <1>3, <2>3, <2>5, <3>2
    <3>4. g \in [Size(k) -> Nat]
      <4>1. ASSUME NEW s \in Size(k) PROVE Value0(f, s) \in Nat
        BY <1>4, <3>3
      <4> HIDE DEF Value0
      <4> QED BY <4>1
    <3>5. \A s \in Size(k - 1) : s \in Size(k) /\ g[s] = f[s]
      <4> SUFFICES ASSUME NEW s \in Size(k - 1) PROVE s \in Size(k) /\ g[s] = f[s]
        OBVIOUS
      <4>1. s \in SUBSET I /\ Cardinality(s) <= k - 1
        OBVIOUS
      <4>2. Cardinality(s) \in Nat
        BY <1>1, <4>1
      <4>3. s \in Size(k)
        BY <2>3, <4>1, <4>2
      <4>4. f[s] = Value0(f, s)
        BY <3>2
      <4> HIDE DEF Size, Value0
      <4> QED BY <4>3, <4>4
    <3>6. \A s \in Size(k) : s # {} => g[s \ {pick[s]}] = f[s \ {pick[s]}]
      BY <1>3, <2>3, <2>5, <3>5
    <3>7. \A s \in Size(k) : g[s] = Value0(f, s)
      OBVIOUS
    <3> HIDE DEF g
    <3>8. \A s \in Size(k) : g[s] = Value0(g, s)
      BY <3>6, <3>7
    <3>9. Part(k, g)
      BY <3>4, <3>8
    <3> HIDE DEF Part
    <3> QED BY <2>2, <2>3, <3>9 DEF S
  <2> QED BY <2>4, <2>5
<1>6. Cardinality(I) \in Nat
  BY FS_CardinalityType
<1>7. PICK f : Part(Cardinality(I), f)
  BY <1>5, <1>6
<1>8. Size(Cardinality(I)) = SUBSET I
  BY <1>1
<1> HIDE DEF Size
<1> QED BY <1>7, <1>8 DEF IsFold

\* The function by which SumAt adds.
IsSum(c, I, f) ==
    f = [s \in SUBSET I |->
           IF s = {} THEN 0
           ELSE c[CHOOSE x \in s : TRUE].amount + f[s \ {CHOOSE x \in s : TRUE}]]

\* Amounts add up to a number, whichever is taken first.
LEMMA Sums ==
  ASSUME NEW c, IsFiniteSet(DOMAIN c), \A x \in DOMAIN c : c[x].amount \in Nat
  PROVE  \E g \in [SUBSET DOMAIN c -> Nat] :
           \A s \in SUBSET DOMAIN c :
             /\ SumAt(c, s) = g[s]
             /\ s = {} => g[s] = 0
             /\ \A x \in s : g[s] = c[x].amount + g[s \ {x}]
<1> DEFINE J == DOMAIN c
           pick == [s \in SUBSET J |-> CHOOSE x \in s : TRUE]
           w == [x \in J |-> c[x].amount]
<1>1. \A s \in SUBSET J : s # {} => pick[s] \in s /\ pick[s] = CHOOSE x \in s : TRUE
  OBVIOUS
<1>2. PICK g \in [SUBSET J -> Nat] :
        \A s \in SUBSET J : g[s] = IF s = {} THEN 0 ELSE w[pick[s]] + 1 * g[s \ {pick[s]}]
  <2>1. \A s \in SUBSET J : s # {} => pick[s] \in s
    BY <1>1
  <2>2. \A x \in J : w[x] \in Nat
    OBVIOUS
  <2>3. 1 \in Nat /\ IsFiniteSet(J)
    OBVIOUS
  <2> HIDE DEF J, pick, w
  <2>4. \E f : IsFold(J, 1, w, pick, f)
    BY <2>1, <2>2, <2>3, FoldExists
  <2> QED BY <2>4 DEF IsFold
<1>3. \A s \in SUBSET J : s # {} =>
        /\ pick[s] \in s /\ s \ {pick[s]} \in SUBSET J /\ c[pick[s]].amount \in Nat
        /\ g[s] = c[pick[s]].amount + g[s \ {pick[s]}]
  <2> SUFFICES ASSUME NEW s \in SUBSET J, s # {}
               PROVE  /\ pick[s] \in s /\ s \ {pick[s]} \in SUBSET J /\ c[pick[s]].amount \in Nat
                      /\ g[s] = c[pick[s]].amount + g[s \ {pick[s]}]
    OBVIOUS
  <2>1. pick[s] \in s /\ pick[s] \in J /\ s \ {pick[s]} \in SUBSET J
    BY <1>1
  <2>2. w[pick[s]] = c[pick[s]].amount /\ w[pick[s]] \in Nat
    BY <2>1
  <2>3. g[s \ {pick[s]}] \in Nat
    BY <2>1
  <2> HIDE DEF pick, w, J
  <2> QED BY <1>2, <2>1, <2>2, <2>3
<1>4. g[{}] = 0
  BY <1>2
<1>5. ASSUME NEW I \in SUBSET J PROVE SumAt(c, I) = g[I]
  <2> DEFINE h == [s \in SUBSET I |-> g[s]]
             f == CHOOSE k : IsSum(c, I, k)
             Good == {s \in SUBSET I : f[s] = g[s]}
  <2>1. IsSum(c, I, h)
    <3>1. ASSUME NEW s \in SUBSET I
          PROVE  h[s] = IF s = {} THEN 0
                        ELSE c[CHOOSE x \in s : TRUE].amount + h[s \ {CHOOSE x \in s : TRUE}]
      <4>1. CASE s = {}
        BY <1>4, <4>1
      <4>2. CASE s # {}
        <5>1. s \in SUBSET J
          OBVIOUS
        <5>2. pick[s] = CHOOSE x \in s : TRUE
          BY <1>1, <4>2, <5>1
        <5>3. g[s] = c[pick[s]].amount + g[s \ {pick[s]}] /\ s \ {pick[s]} \in SUBSET I
          BY <1>3, <4>2, <5>1
        <5> HIDE DEF pick
        <5> QED BY <4>2, <5>2, <5>3
      <4> QED BY <4>1, <4>2
    <3> QED BY <3>1 DEF IsSum
  <2>2. IsSum(c, I, f)
    BY <2>1
  <2>3. SumAt(c, I) = f[I]
    BY DEF SumAt, FoldFunctionOnSet, MapThenFoldSet, IsSum
  <2> HIDE DEF f
  <2>4. ASSUME NEW s \in SUBSET I, \A r \in SUBSET s : r # s => r \in Good
        PROVE  s \in Good
    <3>1. f[s] = IF s = {} THEN 0 ELSE c[CHOOSE x \in s : TRUE].amount + f[s \ {CHOOSE x \in s : TRUE}]
      BY <2>2 DEF IsSum
    <3>2. CASE s = {}
      BY <1>4, <3>1, <3>2
    <3>3. CASE s # {}
      <4>1. /\ pick[s] = CHOOSE x \in s : TRUE
            /\ pick[s] \in s /\ g[s] = c[pick[s]].amount + g[s \ {pick[s]}]
        BY <1>1, <1>3, <3>3
      <4> HIDE DEF pick
      <4>2. s \ {pick[s]} \in Good
        BY <2>4, <4>1
      <4> QED BY <3>1, <3>3, <4>1, <4>2
    <3> QED BY <3>2, <3>3
  <2>5. IsFiniteSet(I) /\ Good \in SUBSET SUBSET I
    BY FS_Subset
  <2> HIDE DEF Good
  <2>6. Good = SUBSET I
    BY <2>4, <2>5, SetInduction
  <2> QED BY <2>3, <2>6 DEF Good
<1> DEFINE Freely == {s \in SUBSET J : \A x \in s : g[s] = c[x].amount + g[s \ {x}]}
<1>6. ASSUME NEW s \in SUBSET J, \A r \in SUBSET s : r # s => r \in Freely
      PROVE  s \in Freely
  <2> SUFFICES ASSUME NEW x \in s PROVE g[s] = c[x].amount + g[s \ {x}]
    OBVIOUS
  <2>1. PICK y \in s : g[s] = c[y].amount + g[s \ {y}]
    BY <1>3
  <2>2. CASE x = y
    BY <2>1, <2>2
  <2>3. CASE x # y
    <3>1. s \ {y} \in Freely /\ x \in s \ {y} /\ s \ {x} \in Freely /\ y \in s \ {x}
      BY <1>6, <2>3
    <3>2. g[s \ {y}] = c[x].amount + g[(s \ {y}) \ {x}] /\ g[s \ {x}] = c[y].amount + g[(s \ {x}) \ {y}]
      BY <3>1
    <3>3. (s \ {y}) \ {x} = (s \ {x}) \ {y} /\ (s \ {x}) \ {y} \in SUBSET J
      OBVIOUS
    <3>4. c[x].amount \in Nat /\ c[y].amount \in Nat /\ g[(s \ {x}) \ {y}] \in Nat
      BY <3>3
    <3>5. g[(s \ {y}) \ {x}] = g[(s \ {x}) \ {y}]
      BY <3>3
    <3> HIDE DEF J
    <3> QED BY <2>1, <3>2, <3>4, <3>5
  <2> QED BY <2>2, <2>3
<1>7. Freely = SUBSET J
  <2>1. Freely \in SUBSET SUBSET J
    OBVIOUS
  <2> HIDE DEF Freely
  <2> QED BY <1>6, <2>1, SetInduction
<1>8. \A s \in SUBSET J : \A x \in s : g[s] = c[x].amount + g[s \ {x}]
  BY <1>7
<1> QED BY <1>4, <1>5, <1>8

\* More coins are worth no less.
LEMMA SumsGrow ==
  ASSUME NEW c, IsFiniteSet(DOMAIN c), \A x \in DOMAIN c : c[x].amount \in Nat
  PROVE  \A t \in SUBSET DOMAIN c :
           SumAt(c, t) \in Nat /\ \A s \in SUBSET t : SumAt(c, s) <= SumAt(c, t)
<1> DEFINE J == DOMAIN c
<1>1. PICK g \in [SUBSET J -> Nat] :
        \A s \in SUBSET J : /\ SumAt(c, s) = g[s]
                            /\ s = {} => g[s] = 0
                            /\ \A x \in s : g[s] = c[x].amount + g[s \ {x}]
  BY Sums
<1> DEFINE Good == {t \in SUBSET J : \A s \in SUBSET t : g[s] <= g[t]}
<1>2. ASSUME NEW t \in SUBSET J, \A r \in SUBSET t : r # t => r \in Good
      PROVE  t \in Good
  <2> SUFFICES ASSUME NEW s \in SUBSET t PROVE g[s] <= g[t]
    OBVIOUS
  <2>1. s \in SUBSET J /\ g[s] \in Nat /\ g[t] \in Nat
    OBVIOUS
  <2>2. CASE s = t
    BY <2>1, <2>2
  <2>3. CASE s # t
    <3>1. PICK x \in t : x \notin s
      BY <2>3
    <3>2. t \ {x} \in Good /\ s \in SUBSET (t \ {x}) /\ t \ {x} \in SUBSET J
      BY <1>2, <3>1
    <3>3. g[s] <= g[t \ {x}] /\ g[t] = c[x].amount + g[t \ {x}]
      BY <1>1, <3>2
    <3>4. c[x].amount \in Nat /\ g[t \ {x}] \in Nat
      BY <3>2
    <3> QED BY <2>1, <3>3, <3>4
  <2> QED BY <2>2, <2>3
<1>3. Good = SUBSET J
  <2>1. Good \in SUBSET SUBSET J
    OBVIOUS
  <2> HIDE DEF Good
  <2> QED BY <1>2, <2>1, SetInduction
<1>4. \A t \in SUBSET J : \A s \in SUBSET t : g[s] <= g[t]
  BY <1>3
<1> HIDE DEF Good
<1> QED BY <1>1, <1>4

-----------------------------------------------------------------------------
(* What is spent                                                             *)

\* The coins a call works with are what it needs, and none is newer than the
\* chain was when they were listed.
SpentInv ==
    /\ op.name = "sign" /\ pc["main"] \in {"createraw", "signraw"} => Exact(coins)
    /\ op.name = "utxos" /\ pc["main"] = "coincount" =>
         \E t \in tips : \A i \in DOMAIN coins : coins[i].height <= height[t]
    /\ CoinsSuffice

SpendPcs == {"idle", "utxos", "createraw", "signraw", "listcoins", "coincount"}

\* What a call that is about coins may be doing, and no other does it.
LEMMA SpendsOnly ==
  ASSUME TypeOK, Control, op.name \in {"sign", "utxos"}
  PROVE  /\ op # NoOp /\ ~Translate /\ ~AnswerTransaction
         /\ op.name = "sign" => /\ op \in PaymentCalls
                                /\ PaymentStep => requestSendToContract \/ requestSendToAddress
                                                  \/ requestCreateContract \/ SignRefused
         /\ op.name = "utxos" /\ PaymentStep => ListCoins \/ CountBlocks
<1>1. op # NoOp /\ ~IsByHash /\ (op.name = "sign" => op \in PaymentCalls)
  BY OpSorts DEF TypeOK, NoOp, IsByHash
<1>2. pc["main"] \in SpendPcs /\ Serves(pc["main"], op.name)
  <2>1. pc["main"] \in Pcs /\ WorksFor("main") /\ Serves(pc["main"], op.name)
    BY DEF TypeOK, Control, WorksFor, Threads
  <2>2. pc["main"] \notin TxPcs \cup {"latest", "hash", "header", "block", "lookup"}
    BY <1>1, <2>1 DEF WorksFor, BlockOps
  <2> QED BY <2>1, <2>2 DEF Serves, Pcs, SpendPcs, TxPcs, Reading
<1>3. pc["backup"] = "idle" /\ waiter = "none"
  BY <1>1 DEF Control, WorksFor, Threads
<1>4. \A t \in Threads : pc[t] \in SpendPcs
  BY <1>2, <1>3 DEF Threads, SpendPcs
<1>5. ASSUME NEW t \in Threads PROVE ~TransactionStep(t) /\ ~BlockStep(t)
  <2>1. TransactionStep(t) => pc[t] \in TxPcs
    BY TransactionGoesOn DEF TxGoesOn
  <2>2. pc[t] \notin TxPcs
    BY <1>4 DEF SpendPcs, TxPcs, Reading
  <2>3. ~BlockStep(t)
    BY BlockCases, BlockCallsStay DEF BlockOps
  <2> QED BY <2>1, <2>2, <2>3
<1>6. ~LookUp /\ ~Receive
  BY <1>3 DEF LookUp, Receive, ReceiveFirst, ReceiveError, ReceiveSecond, At
<1>7. ~GetLogsStep
  BY <1>2 DEF GetLogsStep, ResolveFrom, ResolveTo, ResolveEnd, SearchLogs, At, SpendPcs
<1>8. ~QueryStep
  BY <1>2 DEF QueryStep, CallContract, EstimateGas, GetCode, GetStorageLatest, GetStorage, GetAccountInfo,
              GetAddressBalance, GetCount, Asks, At, SpendPcs
<1>9. ~Send /\ ~SendRaw /\ ~DecodeRaw /\ ~Generate
  BY <1>2 DEF Send, SendRaw, DecodeRaw, Generate, Asks, At, SpendPcs
<1>10. op.name = "sign" => ~ListCoins /\ ~CountBlocks
  BY <1>2 DEF ListCoins, CountBlocks, Asks, At, Serves
<1>11. requestSendToContract \/ requestSendToAddress \/ requestCreateContract \/ SignRefused => op.name = "sign"
  BY DEF requestSendToContract, requestSendToAddress, requestCreateContract, SignRefused
<1> QED
  BY <1>1, <1>5, <1>6, <1>7, <1>8, <1>9, <1>10, <1>11 DEF Translate, PaymentStep, AnswerTransaction

\* What the code looks for is what the call costs.
LEMMA CostIs ==
  ASSUME op \in PaymentCalls
  PROVE  /\ Kind = "call" => NeededWithGas(amount) = Cost
         /\ Kind = "send" => amount = Cost
         /\ Kind = "create" => NeededWithGas(0) = Cost
<1>1. op.gas \in Nat /\ op.gasPrice \in Nat /\ op.wei \in Nat /\ MinimumGas \in Nat
  BY AmountsAssumption DEF PaymentCalls
<1>2. op.gasPrice \div WeiPerTenth \in Int /\ op.wei \div WeiPerTenth \in Int
  BY <1>1, AmountsAssumption
<1>3. EthGasToRevo(op.gasPrice) \in Int
      /\ EthGasToRevo(op.gasPrice) = IF op.gasPrice \div WeiPerTenth < MinimumGas THEN MinimumGas
                                     ELSE op.gasPrice \div WeiPerTenth
  BY <1>1, <1>2 DEF EthGasToRevo, EthDecimalValueToRevoAmount
<1>4. op.gas * EthGasToRevo(op.gasPrice) \in Int
  BY <1>1, <1>3
<1>5. amount \in Int /\ amount = IF op.value THEN op.wei \div WeiPerTenth ELSE 0
  BY <1>2 DEF amount, EthDecimalValueToRevoAmount
<1>6. Cost = (IF Kind # "create" THEN amount ELSE 0)
             + (IF Kind = "send" THEN 0 ELSE op.gas * EthGasToRevo(op.gasPrice))
  BY <1>3, <1>5 DEF Cost
<1> HIDE DEF amount, EthGasToRevo, Kind, Cost
<1>7. CASE Kind = "call"
  BY <1>4, <1>5, <1>6, <1>7 DEF NeededWithGas, calculateNeededAmount
<1>8. CASE Kind = "send"
  BY <1>5, <1>6, <1>8
<1>9. CASE Kind = "create"
  BY <1>4, <1>6, <1>9 DEF NeededWithGas, calculateNeededAmount
<1> QED BY <1>7, <1>8, <1>9

\* One step of the signing.
LEMMA SignSuffices ==
  ASSUME TypeOK, Control, SpentInv, op.name = "sign", NEW needed, needed = Cost, NEW refused \in BOOLEAN,
         Signs(needed, refused)
  PROVE  SpentInv'
<1>0. /\ Error.kind = "error" /\ NoReplyYet.kind = "none"
      /\ \A k, i, n, c : LET r == [kind |-> k, inputs |-> i, needed |-> n, change |-> c]
                         IN  r.kind = k /\ r.inputs = i
  BY Sorts DEF NoReplyYet
<1>1. /\ UNCHANGED op /\ Cost' = Cost /\ pc \in [Threads -> Pcs] /\ "main" \in Threads
      /\ \A c : Suffices(c) => Suffices(c)'
      /\ \A c : ~Suffices(c) => ~Suffices(c)'
  <2>1. UNCHANGED op
    BY DEF Signs, SelectInputs, CreateRaw, SignRaw, Asks, At
  <2>2. Cost' = Cost
    BY <2>1 DEF Cost, Kind
  <2> HIDE DEF Cost
  <2>3. pc \in [Threads -> Pcs] /\ "main" \in Threads
    BY DEF TypeOK, Threads
  <2> QED BY <2>1, <2>2, <2>3 DEF Suffices
<1>2. \A c : Exact(c) => Exact(c)'
  BY <1>1 DEF Exact
<1>3. pc["main"] \in {"utxos", "createraw", "signraw"} /\ reply = NoReplyYet
  <2>1. pc["main"] \in {"utxos", "createraw", "signraw"}
    BY DEF Signs, SelectInputs, CreateRaw, SignRaw, Asks, At
  <2> QED BY <1>1, <2>1, Working
<1>4. ASSUME NEW r, Ends(r), r.kind = "signed" => Exact(r.inputs)
      PROVE  SpentInv'
  <2>1. pc'["main"] = "idle" /\ reply' = r /\ op'.name = "sign"
    BY <1>1, <1>4 DEF Ends, GoTo, Replies
  <2>2. \A q : Exact(q) => Exact(q)'
    BY <1>2
  <2>3. r.kind = "signed" => Exact(reply.inputs)'
    BY <1>4, <2>1, <2>2
  <2> QED BY <2>1, <2>3 DEF SpentInv, CoinsSuffice
<1>5. ASSUME NEW p \in {"createraw", "signraw"}, pc' = [pc EXCEPT !["main"] = p], UNCHANGED reply,
             Exact(coins')
      PROVE  SpentInv'
  <2>1. reply'.kind = "none" /\ op'.name = "sign"
    BY <1>0, <1>1, <1>3, <1>5
  <2>2. Exact(coins)'
    BY <1>2, <1>5
  <2> QED BY <2>1, <2>2 DEF SpentInv, CoinsSuffice
<1>6. Ends(Error) => SpentInv'
  BY <1>0, <1>4
<1>7. CASE SelectInputs(needed, refused)
  <2>1. Ends(Error) \/ \E list \in CoinLists :
          /\ coins' = getRequiredUtxos(list, needed) /\ coins' # <<>>
          /\ pc' = [pc EXCEPT !["main"] = "createraw"] /\ UNCHANGED reply
    BY <1>7 DEF SelectInputs, Fails, GoTo, NoReply
  <2>2. ASSUME NEW list \in CoinLists, coins' = getRequiredUtxos(list, needed), coins' # <<>>
        PROVE  Exact(coins')
    <3>1. list \in Seq(Coins)
      BY PaymentsAssumption
    <3>2. /\ Reaches(Total(coins'), needed)
          /\ Len(coins') > 1 => ~Reaches(Total(SubSeq(coins', 1, Len(coins') - 1)), needed)
      BY <2>2, <3>1, RequiredUtxos
    <3> QED BY <3>2 DEF Exact, Reaches, Suffices
  <2> QED BY <1>5, <1>6, <2>1, <2>2
<1>8. CASE CreateRaw
  <2>1. Exact(coins)
    BY <1>8 DEF SpentInv, CreateRaw, Asks, At
  <2>2. coins' = coins
    BY <1>8 DEF CreateRaw
  <2> QED BY <1>5, <1>6, <1>8, <2>1, <2>2 DEF CreateRaw, Fails, GoTo, NoReply
<1>9. CASE SignRaw(needed)
  <2>1. Exact(coins)
    BY <1>9 DEF SpentInv, SignRaw, Asks, At
  <2> DEFINE r == [kind |-> "signed", inputs |-> coins, needed |-> needed,
                   change |-> calculateChange(Total(coins), needed)]
  <2>2. Ends(r) \/ Ends(Error)
    BY <1>9 DEF SignRaw, Fails
  <2>3. r.inputs = coins
    BY <1>0
  <2> HIDE DEF r
  <2> QED BY <1>4, <1>6, <2>1, <2>2, <2>3
<1> QED BY <1>7, <1>8, <1>9 DEF Signs

\* No call begins in the middle of spending or searching.
InTheMiddle == {"createraw", "signraw", "coincount", "to", "search"}

LEMMA AskIsFirst ==
  ASSUME TypeOK, Ask
  PROVE  pc'["main"] \notin InTheMiddle /\ op = NoOp /\ reply' = reply
<1>1. ASSUME NEW o, NEW p, Begins(o, p), p \notin InTheMiddle
      PROVE  pc'["main"] \notin InTheMiddle /\ op = NoOp /\ reply' = reply
  BY <1>1 DEF Begins, GoTo, TypeOK, Threads
<1>2. CASE AskTransaction
  BY <1>1, <1>2 DEF InTheMiddle, AskTransaction
<1>3. CASE AskBlockByNumber
  BY <1>1, <1>3 DEF InTheMiddle, AskBlockByNumber, NumberOp, Asked
<1>4. CASE AskByIndex
  <2>1. \A o, n : NumberOp(o, n) => \E p \in {"latest", "hash"} : Begins(o, p)
    BY DEF NumberOp, Asked
  <2>2. \A o, h : HashOp(o, h) => Begins(o, "header")
    BY DEF HashOp
  <2>3. \E o : \E p \in {"latest", "hash", "header"} : Begins(o, p)
    BY <1>4, <2>1, <2>2 DEF AskByIndex
  <2> QED BY <1>1, <2>3 DEF InTheMiddle
<1>5. CASE AskBlockByHash
  BY <1>5 DEF InTheMiddle, AskBlockByHash
<1>6. CASE AskLogs
  BY <1>1, <1>6 DEF InTheMiddle, AskLogs, Asked
<1>7. CASE AskAccount
  <2>1. \E o : \E p \in {"accountinfo", "getcode", "callcontract", "storagelatest", "getstorage"} : Begins(o, p)
    BY <1>7 DEF AskAccount, Asked
  <2> QED BY <1>1, <2>1 DEF InTheMiddle
<1>8. CASE AskNumber
  BY <1>1, <1>8 DEF InTheMiddle, AskNumber, Asked
<1>9. CASE AskPayment
  BY <1>1, <1>9 DEF InTheMiddle, AskPayment, Asked
<1>10. CASE AskRaw
  <2>1. \E o : \E p \in {"sendraw", "generate", "listcoins"} : Begins(o, p)
    BY <1>10 DEF AskRaw, Asked
  <2> QED BY <1>1, <2>1 DEF InTheMiddle
<1> QED BY <1>2, <1>3, <1>4, <1>5, <1>6, <1>7, <1>8, <1>9, <1>10 DEF Ask

\* No step but those of a new call makes it another call.
LEMMA NameStays ==
  ASSUME TypeOK, Control, Translate \/ PaymentStep \/ AnswerTransaction
  PROVE  op'.name = op.name
<1>1. OtherStep => op'.name = op.name
  BY DEF OtherStep
<1>2. \A t \in Threads : TransactionStep(t) => op' = op
  BY TransactionGoesOn DEF TxGoesOn
<1>3. \A t \in Threads : BlockStep(t) => op'.name = op.name
  BY BlockCases, BlockCallsStay
<1>4. LookUp \/ Receive => op' = op
  BY DEF LookUp, Receive, At
<1>5. AnswerTransaction => op' = op
  BY DEF AnswerTransaction, txVars
<1> QED BY <1>1, <1>2, <1>3, <1>4, <1>5, LogsGoOn, QueryGoesOn, PaymentGoesOn DEF Translate

\* The mature outputs that are taken reach the minimum, and one above the tip is
\* met only when the tip is no longer what it was.
LEMMA TakenSuffice ==
  ASSUME TypeOK, NEW t \in tips, \A i \in DOMAIN coins : coins[i].height <= height[t], op.min \in Nat
  PROVE  /\ UtxosTaken.kind = "panic" => tips # {tip}
         /\ UtxosTaken.kind = "utxos" /\ op.min > 0 => UtxosTaken.safe >= op.min
         /\ UtxosTaken.kind # "signed"
<1> DEFINE asked == {i \in DOMAIN coins : op.immature \/ Mature(coins[i])}
           Safe(n) == SumAt(coins, {i \in asked : i <= n /\ Mature(coins[i])})
           enough == {n \in asked : op.min > 0 /\ Safe(n) >= op.min}
           last == IF enough = {} THEN Len(coins) ELSE Min(enough)
           panics == \E i \in asked : i <= last /\ coins[i].height > GetBlockCount
           listed == [kind |-> "utxos", last |-> last, safe |-> Safe(last)]
<1>1. UtxosTaken = IF panics THEN [kind |-> "panic"]
                   ELSE IF op.min > 0 /\ enough = {} THEN Error ELSE listed
  BY DEF UtxosTaken
<1>2. panics => tips # {tip}
  <2> SUFFICES ASSUME NEW i \in DOMAIN coins, coins[i].height > height[tip], tips = {tip}
               PROVE  FALSE
    BY DEF GetBlockCount
  <2>1. coins[i].height <= height[tip]
    OBVIOUS
  <2>2. coins \in Seq(Coins) /\ tip \in Blocks
    BY DEF TypeOK
  <2>3. coins[i] \in Coins
    BY <2>2
  <2>4. coins[i].height \in Nat
    BY <2>3 DEF Coins
  <2>5. height[tip] \in Nat
    BY <2>2, HeightDef
  <2> QED BY <2>1, <2>4, <2>5
<1>3. enough # {} => op.min > 0 /\ Safe(last) >= op.min
  <2>1. enough \in SUBSET Nat
    BY DEF TypeOK
  <2>2. \A n \in enough : op.min > 0 /\ Safe(n) >= op.min
    OBVIOUS
  <2>3. last = IF enough = {} THEN Len(coins) ELSE Min(enough)
    OBVIOUS
  <2> HIDE DEF enough, Safe, last
  <2>4. enough # {} => Min(enough) \in enough
    BY <2>1, Least DEF Min
  <2> QED BY <2>2, <2>3, <2>4
<1>4. listed.kind = "utxos" /\ listed.safe = Safe(last) /\ [kind |-> "panic"].kind = "panic" /\ Error.kind = "error"
  BY Sorts
<1> HIDE DEF panics, listed, Safe, enough, last
<1> QED BY <1>1, <1>2, <1>3, <1>4

LEMMA UtxoOps == \A o \in Ops : o.name = "utxos" => o \in [name : {"utxos"}, min : Nat, immature : BOOLEAN]
<1>1. /\ \A q \in ReadOps : q.name \in {"tx", "receipt"}
      /\ \A q \in NumberOps : q.name = "getBlockByNumber"
      /\ \A q \in PositionOps : q.name = "byIndex"
      /\ \A q \in HashPositionOps : q.name = "byIndex"
  BY DEF ReadOps, NumberOps, PositionOps, HashPositionOps
<1>2. /\ \A q \in HashOps : q.name = "getBlockByHash"
      /\ \A q \in LogOps : q.name = "logs"
      /\ \A q \in AccountOps : q.name \in {"balance", "code", "estimateGas", "call"}
      /\ \A q \in StorageOps : q.name = "storage"
      /\ \A q \in CountOps : q.name = "blockNumber"
      /\ \A q \in PaymentCalls : q.name \in {"sign", "send"}
      /\ NoOp.name = "none"
  BY DEF HashOps, LogOps, AccountOps, StorageOps, CountOps, PaymentCalls, NoOp
<1>3. \A q \in RawOps : q.name = "utxos" => q \in [name : {"utxos"}, min : Nat, immature : BOOLEAN]
  BY DEF RawOps
<1> QED BY <1>1, <1>2, <1>3 DEF Ops

LEMMA SpendingGoesOn == TypeOK /\ Control /\ SpentInv /\ [Next]_vars => SpentInv'
<1> SUFFICES ASSUME TypeOK, Control, SpentInv, [Next]_vars PROVE SpentInv'
  OBVIOUS
<1>0. NoReplyYet.kind = "none" /\ NoOp.name = "none" /\ Error.kind = "error" /\ "main" \in Threads
  BY Sorts DEF NoReplyYet, NoOp, Threads
<1>1. CASE Ask
  <2>1. pc'["main"] \notin {"createraw", "signraw", "coincount"} /\ reply'.kind = "none"
    BY <1>0, <1>1, AskIsFirst, Fresh DEF InTheMiddle
  <2> QED BY <2>1 DEF SpentInv, CoinsSuffice
<1>2. CASE Finish
  BY <1>0, <1>2 DEF Finish, SpentInv, CoinsSuffice
<1>3. CASE NodeChanges \/ UNCHANGED vars
  <2>1. UNCHANGED <<op, pc, reply, coins>>
    BY <1>3 DEF NodeChanges, txVars, blockVars, vars
  <2>2. Cost' = Cost
    BY <2>1 DEF Cost, Kind
  <2>3. tips \subseteq tips' /\ (reply.kind = "panic" => tips' = tips /\ tip' = tip)
    <3>1. Move \/ Expire \/ UNCHANGED vars => tips \subseteq tips'
      BY DEF Move, Expire, vars, nodeVars
    <3>2. reply.kind = "panic" => UNCHANGED vars
      BY <1>0, <1>3 DEF NodeChanges
    <3> QED BY <1>3, <3>1, <3>2 DEF NodeChanges, vars, nodeVars
  <2> HIDE DEF Cost
  <2>4. \A c : Exact(c) => Exact(c)'
    BY <2>2 DEF Exact, Suffices
  <2> QED BY <2>1, <2>3, <2>4 DEF SpentInv, CoinsSuffice
<1>4. CASE Translate \/ PaymentStep \/ AnswerTransaction
  <2>1. CASE op.name = "sign"
    <3>1. op \in PaymentCalls /\ op.known \in BOOLEAN
          /\ (requestSendToContract \/ requestSendToAddress \/ requestCreateContract \/ SignRefused)
      BY <1>4, <2>1, SpendsOnly DEF PaymentCalls
    <3>2. CASE requestSendToContract
      BY <2>1, <3>1, <3>2, CostIs, SignSuffices DEF requestSendToContract
    <3>3. CASE requestSendToAddress
      BY <2>1, <3>1, <3>3, CostIs, SignSuffices DEF requestSendToAddress
    <3>4. CASE requestCreateContract
      BY <2>1, <3>1, <3>4, CostIs, SignSuffices DEF requestCreateContract
    <3>5. CASE SignRefused
      <4>1. pc'["main"] = "idle" /\ reply'.kind = "error" /\ op' = op
        BY <1>0, <3>5 DEF SignRefused, Asks, At, Ends, GoTo, Replies, TypeOK
      <4> QED BY <2>1, <4>1 DEF SpentInv, CoinsSuffice
    <3> QED BY <3>1, <3>2, <3>3, <3>4, <3>5
  <2>2. CASE op.name = "utxos"
    <3>1. op.min \in Nat /\ (ListCoins \/ CountBlocks) /\ op' = op
      <4>1. op \in [name : {"utxos"}, min : Nat, immature : BOOLEAN]
        BY <2>2, UtxoOps DEF TypeOK
      <4> QED BY <1>4, <2>2, <4>1, SpendsOnly DEF ListCoins, CountBlocks, Asks, At
    <3>2. CASE ListCoins
      <4>1. CASE /\ \A i \in DOMAIN coins' : coins'[i].height <= height[tip]
                 /\ UNCHANGED reply /\ UNCHANGED nodeVars
        <5>1. reply = NoReplyYet
          BY <1>0, <3>2, Working DEF ListCoins, Asks, At
        <5>2. tip' \in tips' /\ tip' = tip
          BY <4>1 DEF TypeOK, nodeVars
        <5> QED BY <1>0, <2>2, <3>1, <4>1, <5>1, <5>2 DEF SpentInv, CoinsSuffice
      <4>2. CASE Ends(Error)
        <5>1. pc'["main"] = "idle" /\ reply'.kind = "error"
          BY <1>0, <4>2 DEF Ends, GoTo, Replies, TypeOK
        <5> QED BY <2>2, <3>1, <5>1 DEF SpentInv, CoinsSuffice
      <4> QED BY <3>2, <4>1, <4>2 DEF ListCoins, Fails, NoReply
    <3>3. CASE CountBlocks
      <4>1. PICK r : Ends(r) /\ (r = Error \/ (r = UtxosTaken /\ UNCHANGED nodeVars))
        BY <3>3 DEF CountBlocks, Fails
      <4>2. pc'["main"] = "idle" /\ reply' = r
        BY <1>0, <4>1 DEF Ends, GoTo, Replies, TypeOK
      <4>3. PICK t \in tips : \A i \in DOMAIN coins : coins[i].height <= height[t]
        BY <2>2, <3>3 DEF SpentInv, CountBlocks, Asks, At
      <4>4. /\ UtxosTaken.kind = "panic" => tips # {tip}
            /\ UtxosTaken.kind = "utxos" /\ op.min > 0 => UtxosTaken.safe >= op.min
        BY <3>1, <4>3, TakenSuffice
      <4> QED BY <1>0, <2>2, <3>1, <4>1, <4>2, <4>4 DEF SpentInv, CoinsSuffice, nodeVars
    <3> QED BY <3>1, <3>2, <3>3
  <2>3. CASE op.name \notin {"sign", "utxos"}
    <3>1. op'.name = op.name
      BY <1>4, NameStays
    <3> QED BY <2>3, <3>1 DEF SpentInv, CoinsSuffice
  <2> QED BY <2>1, <2>2, <2>3
<1> QED BY <1>1, <1>2, <1>3, <1>4 DEF Next

\* eth_signTransaction: what it spends pays for the amount and the gas, and
\* without its last output it would not; the outputs are still those when the
\* transaction is made and signed. revo_getUTXOs: what counts towards the minimum
\* is mature, and the code panics only when the chain got shorter between the
\* list of outputs and the count of blocks.
THEOREM CoinsAlwaysSuffice == Spec => []CoinsSuffice
<1>1. Init => SpentInv
  BY DEF Init, NoOp, SpentInv, CoinsSuffice
<1>2. TypeOK /\ Control /\ SpentInv => CoinsSuffice
  BY DEF SpentInv, CoinsSuffice
<1>3. TypeOK /\ Control /\ SpentInv /\ [Next]_vars => (TypeOK /\ Control /\ SpentInv)'
  BY StepsKeep, SpendingGoesOn
<1> QED BY <1>1, <1>2, <1>3, StartsWell, PTL DEF Spec

-----------------------------------------------------------------------------
(* Numbers from bytes                                                        *)

LEMMA Extremes ==
  ASSUME NEW n \in Nat, NEW S \in SUBSET (1..n), S # {}
  PROVE  Min(S) \in S /\ Max(S) \in S
<1>1. \E x \in S : \A y \in S : x <= y
  BY Least
<1>2. \E x \in S : \A y \in S : x >= y
  <2> DEFINE R == {n - x : x \in S}
  <2>1. R \in SUBSET Nat /\ R # {}
    <3>1. \A x \in S : n - x \in Nat
      OBVIOUS
    <3>2. PICK x \in S : TRUE
      OBVIOUS
    <3>3. n - x \in R
      OBVIOUS
    <3> QED BY <3>1, <3>3
  <2>2. \A x \in S : n - x \in R
    OBVIOUS
  <2>3. \A r \in R : \E x \in S : r = n - x
    OBVIOUS
  <2> HIDE DEF R
  <2>4. PICK r \in R : \A q \in R : r <= q
    BY <2>1, Least
  <2>5. PICK x \in S : r = n - x
    BY <2>3
  <2>6. ASSUME NEW y \in S PROVE x >= y
    BY <2>2, <2>4, <2>5
  <2> QED BY <2>6
<1> QED BY <1>1, <1>2 DEF Min, Max

\* The functions by which Number and LittleEndian read their digits.
IsLeft(e, f) ==
    f = [s \in SUBSET DOMAIN e |-> IF s = {} THEN 0 ELSE f[s \ {Max(s)}] * Base + e[Max(s)]]
IsRight(d, f) ==
    f = [s \in SUBSET DOMAIN d |-> IF s = {} THEN 0 ELSE f[s \ {Min(s)}] * Base + d[Min(s)]]

LEMMA ReadersExist ==
  ASSUME NEW d \in Seq(Nat)
  PROVE  (\E f : IsLeft(d, f)) /\ (\E f : IsRight(d, f))
<1> DEFINE J == DOMAIN d
<1>1. Len(d) \in Nat /\ J = 1..Len(d) /\ \A x \in J : d[x] \in Nat
  OBVIOUS
<1>2. IsFiniteSet(J) /\ Base \in Nat
  BY <1>1, FS_Interval, AmountsAssumption
<1>3. \A s \in SUBSET J : s # {} => Max(s) \in s /\ Min(s) \in s
  BY <1>1, Extremes
<1>4. ASSUME NEW f, NEW pick, IsFold(J, Base, d, pick, f), NEW s \in SUBSET J, s # {}, pick[s] \in s
      PROVE  f[s] = f[s \ {pick[s]}] * Base + d[pick[s]]
  <2>1. s \ {pick[s]} \in SUBSET J /\ pick[s] \in J
    BY <1>4
  <2>2. f[s \ {pick[s]}] \in Nat /\ d[pick[s]] \in Nat /\ f[s] = d[pick[s]] + Base * f[s \ {pick[s]}]
    BY <1>1, <1>4, <2>1 DEF IsFold
  <2>3. \A a, b \in Nat : a + Base * b = b * Base + a
    BY <1>2
  <2> QED BY <2>2, <2>3
<1>5. \E f : IsLeft(d, f)
  <2> DEFINE pick == [s \in SUBSET J |-> Max(s)]
  <2>1. \A s \in SUBSET J : s # {} => pick[s] \in s
    BY <1>3
  <2>2. \A s \in SUBSET J : pick[s] = Max(s)
    OBVIOUS
  <2> HIDE DEF pick, J
  <2>3. PICK f : IsFold(J, Base, d, pick, f)
    BY <1>1, <1>2, <2>1, FoldExists
  <2>4. ASSUME NEW s \in SUBSET J
        PROVE  f[s] = IF s = {} THEN 0 ELSE f[s \ {Max(s)}] * Base + d[Max(s)]
    <3>1. s = {} => f[s] = 0
      BY <2>3 DEF IsFold
    <3>2. s # {} => f[s] = f[s \ {pick[s]}] * Base + d[pick[s]]
      BY <1>4, <2>1, <2>3
    <3> QED BY <2>2, <3>1, <3>2
  <2>5. f = [s \in SUBSET J |-> f[s]]
    BY <2>3 DEF IsFold
  <2> QED BY <2>4, <2>5 DEF IsLeft, J
<1>6. \E f : IsRight(d, f)
  <2> DEFINE pick == [s \in SUBSET J |-> Min(s)]
  <2>1. \A s \in SUBSET J : s # {} => pick[s] \in s
    BY <1>3
  <2>2. \A s \in SUBSET J : pick[s] = Min(s)
    OBVIOUS
  <2> HIDE DEF pick, J
  <2>3. PICK f : IsFold(J, Base, d, pick, f)
    BY <1>1, <1>2, <2>1, FoldExists
  <2>4. ASSUME NEW s \in SUBSET J
        PROVE  f[s] = IF s = {} THEN 0 ELSE f[s \ {Min(s)}] * Base + d[Min(s)]
    <3>1. s = {} => f[s] = 0
      BY <2>3 DEF IsFold
    <3>2. s # {} => f[s] = f[s \ {pick[s]}] * Base + d[pick[s]]
      BY <1>4, <2>1, <2>3
    <3> QED BY <2>2, <3>1, <3>2
  <2>5. f = [s \in SUBSET J |-> f[s]]
    BY <2>3 DEF IsFold
  <2> QED BY <2>4, <2>5 DEF IsRight, J
<1> QED BY <1>5, <1>6

\* convertToBigEndian turns the bytes of a script around, and read from the left
\* they are the number that they were from the right.
LEMMA Endian ==
  ASSUME NEW d \in Seq(Nat)
  PROVE  Number(convertToBigEndian(d)) = LittleEndian(d) /\ LittleEndian(d) \in Nat
<1> DEFINE n == Len(d)
           e == convertToBigEndian(d)
           F == CHOOSE f : IsLeft(e, f)
           G == CHOOSE f : IsRight(d, f)
<1>1. n \in Nat /\ DOMAIN d = 1..n /\ \A i \in 1..n : d[i] \in Nat
  OBVIOUS
<1>2. e \in Seq(Nat) /\ DOMAIN e = 1..n /\ \A i \in 1..n : e[i] = d[(n - i) + 1]
  BY DEF convertToBigEndian, Reverse
<1>3. IsLeft(e, F) /\ IsRight(d, G)
  BY <1>2, ReadersExist
<1>4. Number(e) = F[DOMAIN e]
  BY DEF Number, FoldLeft, MapThenFoldSet, IsLeft
<1>5. LittleEndian(d) = G[DOMAIN d]
  BY DEF LittleEndian, FoldRight, MapThenFoldSet, IsRight
<1> HIDE DEF F, G, e, n
<1>6. F[{}] = 0 /\ G[{}] = 0
  BY <1>3 DEF IsLeft, IsRight
<1>7. ASSUME NEW k \in 1..n
      PROVE  /\ F[1..k] = F[1..(k - 1)] * Base + d[(n - k) + 1]
             /\ G[((n - k) + 1)..n] = G[((n - (k - 1)) + 1)..n] * Base + d[(n - k) + 1]
  <2> DEFINE l == 1..k
             r == ((n - k) + 1)..n
             i == (n - k) + 1
  <2>1. l \in SUBSET (1..n) /\ l # {} /\ r \in SUBSET (1..n) /\ r # {} /\ i \in 1..n
    <3>1. i \in 1..n /\ i \in Int /\ k \in Int
      BY <1>1
    <3>2. k \in l /\ \A y \in l : y \in 1..n
      BY <1>1
    <3>3. i \in r /\ \A y \in r : y \in 1..n
      BY <1>1
    <3> QED BY <3>1, <3>2, <3>3
  <2>2. Max(l) = k
    <3>1. Max(l) \in l /\ \A y \in l : Max(l) >= y
      <4>1. k \in l /\ \A y \in l : k >= y
        BY <1>1
      <4> HIDE DEF l
      <4> QED BY <4>1 DEF Max
    <3> QED BY <1>1, <3>1
  <2>3. Min(r) = i
    <3>1. Min(r) \in r /\ \A y \in r : Min(r) <= y
      <4>1. i \in r /\ \A y \in r : i <= y
        BY <1>1
      <4> HIDE DEF r, i
      <4> QED BY <4>1 DEF Min
    <3> QED BY <1>1, <3>1
  <2>4. l \ {k} = 1..(k - 1) /\ r \ {i} = ((n - (k - 1)) + 1)..n
    <3>1. l \ {k} = 1..(k - 1)
      BY <1>1
    <3>2. r \ {i} = (i + 1)..n
      <4>1. i \in Int
        BY <1>1
      <4> HIDE DEF i
      <4>2. i..n \ {i} = (i + 1)..n
        BY <1>1, <4>1
      <4> QED BY <4>2 DEF i
    <3>3. i + 1 = (n - (k - 1)) + 1
      BY <1>1
    <3> QED BY <3>1, <3>2, <3>3
  <2>5. F[l] = F[l \ {Max(l)}] * Base + e[Max(l)]
    BY <1>2, <1>3, <2>1 DEF IsLeft
  <2>6. G[r] = G[r \ {Min(r)}] * Base + d[Min(r)]
    BY <1>1, <1>3, <2>1 DEF IsRight
  <2> HIDE DEF l, r
  <2>7. F[l] = F[1..(k - 1)] * Base + e[k]
    BY <2>2, <2>4, <2>5
  <2>8. G[r] = G[((n - (k - 1)) + 1)..n] * Base + d[i]
    BY <2>3, <2>4, <2>6
  <2> QED BY <1>2, <2>7, <2>8 DEF l, r
<1> DEFINE S == {k \in 0..n : ~(F[1..k] \in Nat /\ F[1..k] = G[((n - k) + 1)..n])}
<1>8. S = {}
  <2> SUFFICES ASSUME S # {} PROVE FALSE
    OBVIOUS
  <2>1. S \in SUBSET Nat
    OBVIOUS
  <2> HIDE DEF S
  <2>2. PICK k \in S : \A j \in S : k <= j
    BY <2>1, Least
  <2>3. k \in 0..n /\ ~(F[1..k] \in Nat /\ F[1..k] = G[((n - k) + 1)..n])
    BY DEF S
  <2>4. CASE k = 0
    <3>1. 1..k = {} /\ ((n - k) + 1)..n = {}
      BY <1>1, <2>4
    <3>2. F[1..k] = F[{}] /\ G[((n - k) + 1)..n] = G[{}]
      BY <3>1
    <3>3. F[1..k] = 0 /\ G[((n - k) + 1)..n] = 0
      BY <1>6, <3>2
    <3> QED BY <2>3, <3>3
  <2>5. CASE k # 0
    <3>1. k \in 1..n /\ k - 1 \in 0..n /\ k - 1 \notin S
      BY <1>1, <2>2, <2>3, <2>5
    <3>2. F[1..(k - 1)] \in Nat /\ F[1..(k - 1)] = G[((n - (k - 1)) + 1)..n]
      BY <3>1 DEF S
    <3>3. F[1..k] = G[((n - k) + 1)..n]
      BY <1>7, <3>1, <3>2
    <3>4. F[1..k] \in Nat
      <4>1. d[(n - k) + 1] \in Nat /\ Base \in Nat
        BY <1>1, <3>1, AmountsAssumption
      <4>2. \A a, b \in Nat : a * Base + b \in Nat
        BY <4>1
      <4>3. F[1..k] = F[1..(k - 1)] * Base + d[(n - k) + 1]
        BY <1>7, <3>1
      <4> QED BY <3>2, <4>1, <4>2, <4>3
    <3> QED BY <2>3, <3>3, <3>4
  <2> QED BY <2>4, <2>5
<1>9. F[1..n] \in Nat /\ F[1..n] = G[((n - n) + 1)..n] /\ (n - n) + 1 = 1
  BY <1>1, <1>8
<1> QED BY <1>1, <1>2, <1>4, <1>5, <1>9 DEF e

-----------------------------------------------------------------------------
(* Amounts                                                                   *)

LEMMA Products ==
  ASSUME NEW a \in Nat, NEW b \in Nat, a <= b, NEW m \in Nat
  PROVE  a * m <= b * m /\ a * m \in Nat
<1>1. PICK c \in Nat : b = a + c
  <2>1. b - a \in Nat /\ b = a + (b - a)
    OBVIOUS
  <2> QED BY <2>1
<1>2. a * m \in Nat /\ c * m \in Nat /\ b * m = a * m + c * m
  BY <1>1
<1> QED BY <1>2

LEMMA Remainders ==
  ASSUME NEW a \in Nat, NEW m \in Nat \ {0}
  PROVE  a % m \in Nat /\ a % m <= a
<1>1. a \div m \in Nat /\ a % m \in Nat /\ a = m * (a \div m) + (a % m)
  OBVIOUS
<1>2. \A q \in Nat : m * q \in Nat
  OBVIOUS
<1>3. m * (a \div m) \in Nat
  BY <1>1, <1>2
<1> QED BY <1>1, <1>3

\* A difference of amounts is a number of 64 bits, whatever its sign.
LEMMA LowBits ==
  ASSUME NEW x \in Int, NEW a \in Nat, x <= a, NEW b \in Nat, -x <= b, NEW m \in Nat
  PROVE  Uint64(x * m) \in Nat /\ (Uint64(x * m) <= a * m \/ Uint64(x * m) <= b * m)
<1>1. Word \in Nat \ {0}
  BY AmountsAssumption
<1>2. CASE x >= 0
  <2>1. x \in Nat /\ x * m <= a * m /\ x * m \in Nat
    BY <1>2, Products
  <2>2. Uint64(x * m) = (x * m) % Word
    BY <2>1 DEF Uint64
  <2>3. (x * m) % Word \in Nat /\ (x * m) % Word <= x * m /\ a * m \in Nat
    BY <1>1, <2>1, Remainders
  <2> QED BY <2>1, <2>2, <2>3
<1>3. CASE x < 0
  <2> DEFINE y == -x
  <2>1. y \in Nat /\ y <= b /\ x * m = -(y * m)
    BY <1>3
  <2> HIDE DEF y
  <2>2. y * m <= b * m /\ y * m \in Nat /\ b * m \in Nat
    BY <2>1, Products
  <2>3. Uint64(x * m) = (y * m) % Word
    BY <2>1, <2>2 DEF Uint64
  <2>4. (y * m) % Word \in Nat /\ (y * m) % Word <= y * m
    BY <1>1, <2>2, Remainders
  <2> QED BY <2>2, <2>3, <2>4
<1> QED BY <1>2, <1>3

Worth(value, ins, outs) ==
    value \in Nat /\ \E through \in {Total(ins), Total(outs)} : value <= through * WeiPerSatoshi

\* The value is no more than what went in or what came out, although the fee may
\* be more than what was sent, and Uint64 drops the sign.
LEMMA ValuesAreWorth ==
  ASSUME NEW ins, NEW outs, IsCoins(ins), IsCoins(outs)
  PROVE  Worth(RewardValue(ins, outs), ins, outs) /\ Worth(WalletValue(outs), ins, outs)
<1>1. ASSUME NEW c, IsCoins(c), NEW s \in SUBSET DOMAIN c
      PROVE  SumAt(c, s) \in Nat /\ Total(c) \in Nat /\ SumAt(c, s) <= Total(c)
  <2>1. IsFiniteSet(DOMAIN c) /\ \A x \in DOMAIN c : c[x].amount \in Nat
    <3>1. DOMAIN c = 1..Len(c) /\ Len(c) \in Nat /\ \A x \in DOMAIN c : c[x].amount \in Nat
      BY <1>1 DEF IsCoins
    <3> QED BY <3>1, FS_Interval
  <2>2. SumAt(c, s) \in Nat /\ SumAt(c, DOMAIN c) \in Nat /\ SumAt(c, s) <= SumAt(c, DOMAIN c)
    BY <2>1, SumsGrow
  <2> QED BY <2>2 DEF Total
<1>2. WeiPerSatoshi \in Nat
  BY AmountsAssumption DEF WeiPerSatoshi
<1>3. Total(ins) \in Nat /\ Total(outs) \in Nat
  BY <1>1
<1>4. Worth(WalletValue(outs), ins, outs)
  <2>1. Total(outs) * WeiPerSatoshi \in Nat
    BY <1>2, <1>3
  <2> QED BY <2>1 DEF WalletValue, Worth
<1>5. sentTo(ins, outs) \in Int /\ sentTo(ins, outs) <= Total(outs) /\ -sentTo(ins, outs) <= Total(ins)
  <2> DEFINE from == IF ins = <<>> THEN NoAddress ELSE ins[1].address
             named == {i \in DOMAIN outs : outs[i].address # NoAddress}
             change == {i \in named : outs[i].address = from}
             others == named \ change
             first == {i \in others : outs[i].address = outs[Min(others)].address}
             toFirst == SumAt(outs, first)
             refund == SumAt(outs, change)
             sent == Total(outs) - refund
             fee == IF Total(ins) > Total(outs) THEN Total(ins) - Total(outs) ELSE 0
  <2>1. sentTo(ins, outs) = IF refund = 0 /\ sent # 0 THEN toFirst - fee ELSE toFirst
    BY DEF sentTo
  <2>2. first \in SUBSET DOMAIN outs
    OBVIOUS
  <2> HIDE DEF first
  <2>3. toFirst \in Nat /\ toFirst <= Total(outs)
    BY <1>1, <2>2
  <2>4. fee \in Nat /\ fee <= Total(ins)
    BY <1>3
  <2>5. sentTo(ins, outs) \in {toFirst - fee, toFirst}
    BY <2>1
  <2> HIDE DEF toFirst, fee
  <2> QED BY <1>3, <2>3, <2>4, <2>5
<1>6. Worth(RewardValue(ins, outs), ins, outs)
  <2> DEFINE x == sentTo(ins, outs)
             v == Uint64(x * WeiPerSatoshi)
  <2>1. Worth(0, ins, outs)
    <3>1. 0 <= Total(ins) * WeiPerSatoshi
      BY <1>2, <1>3, Products
    <3> QED BY <3>1 DEF Worth
  <2>2. v \in Nat /\ (v <= Total(outs) * WeiPerSatoshi \/ v <= Total(ins) * WeiPerSatoshi)
    <3> HIDE DEF x
    <3>1. x \in Int /\ x <= Total(outs) /\ -x <= Total(ins)
      BY <1>5 DEF x
    <3> QED BY <1>2, <1>3, <3>1, LowBits
  <2>3. Worth(v, ins, outs)
    BY <2>2 DEF Worth
  <2> QED BY <2>1, <2>3 DEF RewardValue
<1> QED BY <1>4, <1>6

\* The first script that is a contract's, and what its gas limit is.
LEMMA GasIsRead ==
  ASSUME NEW scripts, IsScripts(scripts), ExtractContractInfo(scripts).gas # 0
  PROVE  \E i \in DOMAIN scripts :
           /\ scripts[i].op # "other" /\ \A j \in 1..(i - 1) : scripts[j].op = "other"
           /\ ExtractContractInfo(scripts).gas = LittleEndian(scripts[i].limit)
<1> DEFINE special == {i \in DOMAIN scripts : scripts[i].op # "other"}
           m == Min(special)
           s == scripts[m]
<1>1. Len(scripts) \in Nat /\ DOMAIN scripts = 1..Len(scripts)
  BY DEF IsScripts
<1>2. NotAContract.gas = 0 /\ [NotAContract EXCEPT !.contract = TRUE].gas = 0
  BY DEF NotAContract
<1>3. special # {} /\ ExtractContractInfo(scripts).gas = ParsedScript(s).gas
  BY <1>2 DEF ExtractContractInfo
<1>4. m \in special /\ \A k \in special : m <= k
  <2>1. special \in SUBSET Nat
    BY <1>1
  <2> HIDE DEF special
  <2>2. \E x \in special : \A k \in special : x <= k
    BY <1>3, <2>1, Least
  <2> QED BY <2>2 DEF Min
<1>5. m \in DOMAIN scripts /\ s.op # "other"
  BY <1>4
<1>6. \A j \in 1..(m - 1) : scripts[j].op = "other"
  <2> SUFFICES ASSUME NEW j \in 1..(m - 1), scripts[j].op # "other" PROVE FALSE
    OBVIOUS
  <2> HIDE DEF m
  <2>1. j \in DOMAIN scripts /\ ~(m <= j)
    BY <1>1, <1>5
  <2>2. j \in special
    BY <2>1
  <2> QED BY <1>4, <2>1, <2>2
<1> HIDE DEF special, m
<1>7. ParsedScript(s).gas = LittleEndian(s.limit)
  <2>1. s.limit \in Seq(Nat)
    <3>1. s.limit \in Seq(0..(Base - 1)) /\ 0..(Base - 1) \subseteq Nat
      BY <1>5, AmountsAssumption DEF IsScripts
    <3> HIDE DEF s
    <3> QED BY <3>1, SeqMonotonic
  <2>2. s.complete
    BY <1>2, <1>3 DEF ParsedScript
  <2>3. ParsedScript(s).gas = Number(convertToBigEndian(s.limit))
    BY <2>2 DEF ParsedScript
  <2> QED BY <2>1, <2>3, Endian
<1> QED BY <1>3, <1>5, <1>6, <1>7

\* What the answer of a transaction has beside its translation.
LEMMA AnswerAmounts ==
  ASSUME TypeOK, AnswerTransaction, op.name = "tx", result["main"].kind = "tx"
  PROVE  \E s \in Shapes :
           /\ reply'.shape = s /\ reply'.value = Value(result["main"], s) /\ reply'.gas = Info(s).gas
<1> DEFINE r == result["main"]
           more(s) == [shape |-> s, value |-> Value(r, s), gas |-> Info(s).gas, gasPrice |-> Info(s).gasPrice]
<1>1. PICK s \in Shapes : reply' = WithAmounts(r, s)
  BY DEF AnswerTransaction, Replies
<1>2. r \in Translated
  <2>1. r \in {NoResult, Null, Error} \cup Translated
    BY DEF TypeOK, Threads
  <2> QED BY <2>1, Sorts
<1>3. {"shape", "value", "gas"} \cap DOMAIN r = {}
  BY <1>2 DEF Translated
<1>4. {"shape", "value", "gas"} \subseteq DOMAIN more(s)
  OBVIOUS
<1> HIDE DEF r, more
<1>5. \A k \in {"shape", "value", "gas"} : reply'[k] = more(s)[k]
  <2>1. reply' = [k \in DOMAIN r \cup DOMAIN more(s) |-> IF k \in DOMAIN r THEN r[k] ELSE more(s)[k]]
    BY <1>1 DEF WithAmounts, more
  <2> QED BY <1>3, <1>4, <2>1
<1>6. more(s).shape = s /\ more(s).value = Value(r, s) /\ more(s).gas = Info(s).gas
  BY DEF more
<1> QED BY <1>5, <1>6 DEF r

LEMMA AmountsGoOn == TypeOK /\ Control /\ AmountsAreTrue /\ [Next]_vars => AmountsAreTrue'
<1> SUFFICES ASSUME TypeOK, Control, AmountsAreTrue, [Next]_vars PROVE AmountsAreTrue'
  OBVIOUS
<1>0. NoReplyYet.kind = "none"
  BY DEF NoReplyYet
<1>1. ASSUME op'.name # "tx" \/ reply'.kind # "tx" PROVE AmountsAreTrue'
  BY <1>1 DEF AmountsAreTrue
<1>2. ASSUME UNCHANGED <<op, reply>> PROVE AmountsAreTrue'
  BY <1>2 DEF AmountsAreTrue
<1>3. CASE Ask
  BY <1>0, <1>1, <1>3, AskIsFirst, Fresh
<1>4. ASSUME NEW t \in Threads, TransactionStep(t), UNCHANGED <<blockVars, reply>>
      PROVE  AmountsAreTrue'
  BY <1>2, <1>4, TransactionGoesOn DEF TxGoesOn
<1>5. ASSUME NEW t \in Threads, BlockCase(t) PROVE AmountsAreTrue'
  BY <1>1, <1>5, BlockCallsStay DEF BlockOps
<1>6. CASE LookUp \/ Receive
  <2>1. op' = op /\ IsByHash
    BY <1>6 DEF LookUp, At, Receive, ReceiveFirst, ReceiveError, ReceiveSecond, Control, WorksFor, Threads
  <2> QED BY <1>1, <2>1 DEF IsByHash
<1>7. CASE OtherStep
  BY <1>1, <1>7, OtherCalls DEF OtherStep, OtherOps
<1>8. CASE Finish
  BY <1>0, <1>1, <1>8 DEF Finish
<1>9. CASE NodeChanges \/ UNCHANGED vars
  BY <1>2, <1>9 DEF NodeChanges, txVars, blockVars, vars
<1>10. CASE AnswerTransaction
  <2> SUFFICES ASSUME op.name = "tx", reply'.kind = "tx" PROVE AmountsAreTrue'
    BY <1>1, <1>10 DEF AnswerTransaction, txVars
  <2>1. result["main"].kind = "tx"
    BY <1>10, AnswerTells
  <2>2. PICK s \in Shapes :
          reply'.shape = s /\ reply'.value = Value(result["main"], s) /\ reply'.gas = Info(s).gas
    BY <1>10, <2>1, AnswerAmounts
  <2>3. IsCoins(s.ins) /\ IsCoins(s.outs) /\ IsScripts(s.scripts)
    BY CallsAssumption
  <2>4. Worth(reply'.value, s.ins, s.outs)
    BY <2>2, <2>3, ValuesAreWorth DEF Value
  <2>5. reply'.value >= 0 /\ \E through \in {Total(s.ins), Total(s.outs)} : reply'.value <= through * WeiPerSatoshi
    BY <2>4 DEF Worth
  <2>6. reply'.gas # 0 => \E i \in DOMAIN s.scripts :
          /\ s.scripts[i].op # "other" /\ \A j \in 1..(i - 1) : s.scripts[j].op = "other"
          /\ reply'.gas = LittleEndian(s.scripts[i].limit)
    BY <2>2, <2>3, GasIsRead DEF Info
  <2> QED BY <2>2, <2>5, <2>6 DEF AmountsAreTrue
<1> QED
  BY <1>3, <1>4, <1>5, <1>6, <1>7, <1>8, <1>9, <1>10, NextCases

\* eth_getTransactionByHash: the value is no more than what went in or came out,
\* although getRewardTransactionByHash takes the fee off what may be less and
\* Uint64 drops the sign; and the gas limit is the number whose bytes, the lowest
\* first, are in the first script that is a contract's (ExtractContractInfo,
\* convertToBigEndian).
THEOREM AmountsAlwaysTrue == Spec => []AmountsAreTrue
<1>1. Init => AmountsAreTrue
  BY DEF Init, NoOp, AmountsAreTrue
<1>2. TypeOK /\ Control /\ AmountsAreTrue /\ [Next]_vars => (TypeOK /\ Control /\ AmountsAreTrue)'
  BY StepsKeep, AmountsGoOn
<1> QED BY <1>1, <1>2, StartsWell, PTL DEF Spec

-----------------------------------------------------------------------------
(* Lists of lists                                                            *)

\* The beginnings of the list that FlattenSeq puts together from s.
Joins(s, T, p) ==
    /\ p \in [0..Len(s) -> Seq(T)] /\ p[0] = <<>>
    /\ \A k \in 1..Len(s) : p[k] = p[k - 1] \o s[k]

\* The function by which FlattenSeq does it.
IsFlatten(s, f) == f = [i \in 1..Len(s) |-> IF i = 1 THEN s[i] ELSE f[i - 1] \o s[i]]

LEMMA JoinsExist ==
  ASSUME NEW T, NEW s \in Seq(Seq(T))
  PROVE  \E p : Joins(s, T, p)
<1> DEFINE n == Len(s)
           Part(k, p) == /\ p \in [0..k -> Seq(T)] /\ p[0] = <<>>
                         /\ \A j \in 1..k : p[j] = p[j - 1] \o s[j]
           S == {k \in 0..n : ~\E p : Part(k, p)}
<1>1. n \in Nat /\ \A k \in 1..n : s[k] \in Seq(T)
  OBVIOUS
<1>2. S = {}
  <2> SUFFICES ASSUME S # {} PROVE FALSE
    OBVIOUS
  <2>1. S \in SUBSET Nat
    <3> HIDE DEF Part
    <3> QED BY <1>1
  <2> HIDE DEF S, n
  <2>2. PICK k \in S : \A j \in S : k <= j
    BY <2>1, Least
  <2>3. k \in 0..n /\ ~\E p : Part(k, p)
    BY DEF S
  <2>4. CASE k = 0
    <3> DEFINE p == [j \in 0..0 |-> <<>>]
    <3>1. p \in [0..0 -> Seq(T)] /\ p[0] = <<>> /\ 1..0 = {}
      OBVIOUS
    <3> HIDE DEF p
    <3>2. Part(0, p)
      BY <3>1
    <3> QED BY <2>3, <2>4, <3>2
  <2>5. CASE k # 0
    <3>1. k \in 1..n /\ k - 1 \in 0..n /\ k - 1 \notin S
      BY <1>1, <2>2, <2>3, <2>5
    <3>2. PICK p : Part(k - 1, p)
      BY <3>1 DEF S
    <3> DEFINE q == [j \in 0..k |-> IF j = k THEN p[k - 1] \o s[k] ELSE p[j]]
    <3>3. k - 1 \in 0..(k - 1) /\ p[k - 1] \in Seq(T) /\ s[k] \in Seq(T)
      BY <1>1, <3>1, <3>2
    <3>4. \A j \in 0..k : j # k => j \in 0..(k - 1)
      BY <1>1, <3>1
    <3>5. q \in [0..k -> Seq(T)]
      BY <3>2, <3>3, <3>4
    <3>6. q[0] = <<>>
      <4>1. 0 \in 0..k /\ 0 # k
        BY <1>1, <3>1
      <4>2. p[0] = <<>>
        BY <3>2
      <4> QED BY <4>1, <4>2
    <3>7. ASSUME NEW j \in 1..k PROVE q[j] = q[j - 1] \o s[j]
      <4>1. j - 1 \in 0..k /\ j - 1 # k /\ j \in 0..k
        BY <1>1, <3>1
      <4>2. q[j - 1] = p[j - 1]
        BY <4>1
      <4>3. CASE j = k
        BY <4>1, <4>2, <4>3
      <4>4. CASE j # k
        <5>1. j \in 1..(k - 1)
          BY <1>1, <3>1, <4>4
        <5>2. p[j] = p[j - 1] \o s[j]
          BY <3>2, <5>1
        <5> QED BY <4>1, <4>2, <4>4, <5>2
      <4> QED BY <4>3, <4>4
    <3> HIDE DEF q
    <3>8. Part(k, q)
      BY <3>5, <3>6, <3>7
    <3> QED BY <2>3, <3>8
  <2> QED BY <2>4, <2>5
<1>3. n \in 0..n
  BY <1>1
<1>4. PICK p : Part(n, p)
  BY <1>2, <1>3
<1> QED BY <1>4 DEF Joins

\* FlattenSeq joins, and there is only one way to.
LEMMA Flattens ==
  ASSUME NEW T, NEW s \in Seq(Seq(T)), NEW p, Joins(s, T, p)
  PROVE  FlattenSeq(s) = p[Len(s)] /\ FlattenSeq(s) \in Seq(T)
<1> DEFINE n == Len(s)
           f == CHOOSE g : IsFlatten(s, g)
<1>1. n \in Nat /\ n \in 0..n /\ p[n] \in Seq(T)
  BY DEF Joins
<1>2. CASE n = 0
  <2>1. s = <<>> /\ FlattenSeq(s) = s
    BY <1>2 DEF FlattenSeq
  <2> QED BY <1>1, <1>2, <2>1 DEF Joins
<1>3. CASE n # 0
  <2>1. FlattenSeq(s) = f[n]
    BY <1>3 DEF FlattenSeq, IsFlatten
  <2> DEFINE g == [i \in 1..n |-> p[i]]
  <2>2. IsFlatten(s, g)
    <3>1. ASSUME NEW i \in 1..n PROVE g[i] = IF i = 1 THEN s[i] ELSE g[i - 1] \o s[i]
      <4>1. p[i] = p[i - 1] \o s[i] /\ g[i] = p[i] /\ s[i] \in Seq(T)
        BY DEF Joins
      <4>2. CASE i = 1
        <5>1. p[0] = <<>> /\ <<>> \o s[i] = s[i]
          BY <4>1 DEF Joins
        <5>2. p[i - 1] = p[0]
          BY <4>2
        <5>3. p[i] = s[i]
          BY <4>1, <5>1, <5>2
        <5> HIDE DEF g
        <5> QED BY <4>1, <4>2, <5>3
      <4>3. CASE i # 1
        <5>1. i - 1 \in 1..n
          BY <1>1, <4>3
        <5>2. g[i - 1] = p[i - 1]
          BY <5>1
        <5> QED BY <4>1, <4>3, <5>2
      <4> QED BY <4>2, <4>3
    <3> QED BY <3>1 DEF IsFlatten
  <2>3. IsFlatten(s, f)
    BY <2>2
  <2> HIDE DEF f
  <2> DEFINE S == {k \in 1..n : f[k] # p[k]}
  <2>4. S = {}
    <3> SUFFICES ASSUME S # {} PROVE FALSE
      OBVIOUS
    <3>1. S \in SUBSET Nat
      OBVIOUS
    <3> HIDE DEF S
    <3>2. PICK k \in S : \A j \in S : k <= j
      BY <3>1, Least
    <3>3. k \in 1..n /\ f[k] # p[k]
      BY DEF S
    <3>4. f[k] = IF k = 1 THEN s[k] ELSE f[k - 1] \o s[k]
      BY <2>3, <3>3 DEF IsFlatten
    <3>5. p[k] = IF k = 1 THEN s[k] ELSE p[k - 1] \o s[k]
      <4>1. g[k] = p[k] /\ (k # 1 => g[k - 1] = p[k - 1])
        <5>1. k # 1 => k - 1 \in 1..n
          BY <1>1, <3>3
        <5> QED BY <3>3, <5>1
      <4>2. g[k] = IF k = 1 THEN s[k] ELSE g[k - 1] \o s[k]
        BY <2>2, <3>3 DEF IsFlatten
      <4> HIDE DEF g
      <4> QED BY <4>1, <4>2
    <3>6. k # 1 => k - 1 \in 1..n /\ k - 1 \notin S
      BY <1>1, <3>2, <3>3
    <3>7. k # 1 => f[k - 1] = p[k - 1]
      BY <3>6 DEF S
    <3> QED BY <3>3, <3>4, <3>5, <3>7
  <2>5. f[n] = p[n]
    BY <1>1, <1>3, <2>4
  <2> QED BY <1>1, <2>1, <2>5
<1> QED BY <1>2, <1>3

LEMMA FlattenIsSeq ==
  ASSUME NEW T, NEW s \in Seq(Seq(T))
  PROVE  FlattenSeq(s) \in Seq(T)
BY JoinsExist, Flattens

\* A function on each element of a list.
Each(m, list) == [i \in DOMAIN list |-> m[list[i]]]

LEMMA EachIsSeq ==
  ASSUME NEW T, NEW U, NEW m, \A x \in T : m[x] \in U
  PROVE  \A a \in Seq(T) : Each(m, a) \in Seq(U)
BY DEF Each

LEMMA EachJoins ==
  ASSUME NEW T, NEW m, NEW a \in Seq(T), NEW b \in Seq(T)
  PROVE  Each(m, a \o b) = Each(m, a) \o Each(m, b)
<1> DEFINE U == {m[x] : x \in T}
<1>1. /\ Len(a) \in Nat /\ Len(b) \in Nat /\ DOMAIN a = 1..Len(a) /\ DOMAIN b = 1..Len(b)
      /\ \A i \in 1..Len(a) : a[i] \in T
      /\ \A i \in 1..Len(b) : b[i] \in T
  OBVIOUS
<1>2. Each(m, a) \in Seq(U) /\ Len(Each(m, a)) = Len(a) /\ \A i \in 1..Len(a) : Each(m, a)[i] = m[a[i]]
  <2>1. \A x \in T : m[x] \in U
    OBVIOUS
  <2> HIDE DEF U
  <2> QED BY <1>1, <2>1 DEF Each
<1>3. Each(m, b) \in Seq(U) /\ Len(Each(m, b)) = Len(b) /\ \A i \in 1..Len(b) : Each(m, b)[i] = m[b[i]]
  <2>1. \A x \in T : m[x] \in U
    OBVIOUS
  <2> HIDE DEF U
  <2> QED BY <1>1, <2>1 DEF Each
<1> HIDE DEF U
<1>4. /\ a \o b \in Seq(T) /\ Len(a \o b) = Len(a) + Len(b) /\ DOMAIN (a \o b) = 1..(Len(a) + Len(b))
      /\ \A i \in 1..(Len(a) + Len(b)) : (a \o b)[i] = IF i <= Len(a) THEN a[i] ELSE b[i - Len(a)]
  BY <1>1
<1> DEFINE l == Each(m, a \o b)
           r == Each(m, a) \o Each(m, b)
<1>5. /\ l = [i \in 1..(Len(a) + Len(b)) |-> l[i]]
      /\ \A i \in 1..(Len(a) + Len(b)) : l[i] = m[IF i <= Len(a) THEN a[i] ELSE b[i - Len(a)]]
  BY <1>4 DEF Each
<1>6. /\ r = [i \in 1..(Len(a) + Len(b)) |-> r[i]]
      /\ \A i \in 1..(Len(a) + Len(b)) :
           r[i] = IF i <= Len(a) THEN Each(m, a)[i] ELSE Each(m, b)[i - Len(a)]
  <2> DEFINE c == Each(m, a)
             d == Each(m, b)
  <2>1. /\ c \in Seq(U) /\ d \in Seq(U) /\ Len(c) = Len(a) /\ Len(d) = Len(b)
        /\ Len(c) \in Nat /\ Len(d) \in Nat
    BY <1>1, <1>2, <1>3
  <2> HIDE DEF c, d
  <2>2. c \o d \in Seq(U) /\ Len(c \o d) = Len(a) + Len(b)
    <3>1. c \in Seq(U) /\ d \in Seq(U)
      BY <2>1
    <3>2. c \o d \in Seq(U) /\ Len(c \o d) = Len(c) + Len(d)
      BY <3>1, ConcatProperties
    <3> QED BY <2>1, <3>2
  <2>3. DOMAIN (c \o d) = 1..(Len(a) + Len(b))
    BY <2>2
  <2>4. c \o d = [i \in 1..(Len(a) + Len(b)) |-> (c \o d)[i]]
    <3>1. c \o d \in [1..Len(c \o d) -> U]
      BY <2>2, LenProperties
    <3> DEFINE e == c \o d
    <3> HIDE DEF e
    <3>2. e \in [1..(Len(a) + Len(b)) -> U]
      BY <2>2, <3>1 DEF e
    <3> QED BY <3>2 DEF e
  <2>5. \A i \in 1..(Len(a) + Len(b)) : (c \o d)[i] = IF i <= Len(a) THEN c[i] ELSE d[i - Len(a)]
    BY <2>1
  <2> QED BY <2>4, <2>5 DEF c, d
<1> HIDE DEF l, r
<1>7. ASSUME NEW i \in 1..(Len(a) + Len(b)) PROVE l[i] = r[i]
  <2>1. CASE i <= Len(a)
    <3>1. i \in 1..Len(a)
      BY <1>1, <2>1
    <3> QED BY <1>2, <1>5, <1>6, <2>1, <3>1
  <2>2. CASE ~(i <= Len(a))
    <3>1. i - Len(a) \in 1..Len(b)
      BY <1>1, <2>2
    <3> QED BY <1>3, <1>5, <1>6, <2>2, <3>1
  <2> QED BY <2>1, <2>2
<1>8. l = r
  BY <1>5, <1>6, <1>7
<1> QED BY <1>8 DEF l, r

\* It does not matter whether lists are joined first or their elements changed.
LEMMA FlattenEach ==
  ASSUME NEW T, NEW U, NEW m \in [T -> U], NEW s \in Seq(Seq(T))
  PROVE  FlattenSeq([k \in DOMAIN s |-> Each(m, s[k])]) = Each(m, FlattenSeq(s))
<1> DEFINE n == Len(s)
           t == [k \in DOMAIN s |-> Each(m, s[k])]
<1>1. n \in Nat /\ DOMAIN s = 1..n /\ \A k \in 1..n : s[k] \in Seq(T)
  OBVIOUS
<1>2. t \in Seq(Seq(U)) /\ Len(t) = n /\ \A k \in 1..n : t[k] = Each(m, s[k])
  <2>1. \A k \in 1..n : Each(m, s[k]) \in Seq(U)
    BY <1>1, EachIsSeq
  <2> QED BY <1>1, <2>1
<1>3. PICK p : Joins(s, T, p)
  BY JoinsExist
<1>4. /\ p \in [0..n -> Seq(T)] /\ p[0] = <<>>
      /\ \A k \in 1..n : p[k] = p[k - 1] \o s[k]
  BY <1>3 DEF Joins
<1> DEFINE q == [k \in 0..n |-> Each(m, p[k])]
<1> HIDE DEF t, n
<1>0. /\ \A a \in Seq(T) : Each(m, a) \in Seq(U)
      /\ \A a, b \in Seq(T) : Each(m, a \o b) = Each(m, a) \o Each(m, b)
  BY EachJoins, EachIsSeq
<1>5. q \in [0..n -> Seq(U)]
  <2>1. \A k \in 0..n : Each(m, p[k]) \in Seq(U)
    BY <1>0, <1>4
  <2> QED BY <2>1
<1>6. q[0] = <<>>
  BY <1>1, <1>4 DEF Each
<1>7. ASSUME NEW k \in 1..n PROVE q[k] = q[k - 1] \o t[k]
  <2>1. k \in 0..n /\ k - 1 \in 0..n
    BY <1>1
  <2>2. p[k - 1] \in Seq(T) /\ s[k] \in Seq(T) /\ p[k] = p[k - 1] \o s[k]
    BY <1>1, <1>4, <2>1
  <2>3. Each(m, p[k]) = Each(m, p[k - 1]) \o Each(m, s[k])
    BY <1>0, <2>2
  <2> QED BY <1>2, <2>1, <2>3
<1>8. Joins(t, U, q)
  <2> HIDE DEF q
  <2> QED BY <1>2, <1>5, <1>6, <1>7 DEF Joins
<1>9. FlattenSeq(t) = q[n] /\ FlattenSeq(s) = p[n]
  BY <1>2, <1>3, <1>8, Flattens DEF n
<1>10. q[n] = Each(m, p[n])
  BY <1>1
<1> QED BY <1>9, <1>10 DEF t

LEMMA FlattenAppend ==
  ASSUME NEW T, NEW s \in Seq(Seq(T)), NEW y \in Seq(T)
  PROVE  FlattenSeq(Append(s, y)) = FlattenSeq(s) \o y
<1> DEFINE n == Len(s)
           t == Append(s, y)
<1>1. n \in Nat /\ t \in Seq(Seq(T)) /\ Len(t) = n + 1 /\ t[n + 1] = y /\ \A k \in 1..n : t[k] = s[k]
  OBVIOUS
<1>2. PICK p : Joins(s, T, p)
  BY JoinsExist
<1>3. p \in [0..n -> Seq(T)] /\ p[0] = <<>> /\ \A k \in 1..n : p[k] = p[k - 1] \o s[k]
  BY <1>2 DEF Joins
<1> DEFINE q == [k \in 0..(n + 1) |-> IF k = n + 1 THEN p[n] \o y ELSE p[k]]
<1> HIDE DEF t, n
<1>4. q \in [0..(n + 1) -> Seq(T)]
  <2>1. p[n] \o y \in Seq(T) /\ \A k \in 0..(n + 1) : k # n + 1 => p[k] \in Seq(T)
    BY <1>1, <1>3
  <2> QED BY <2>1
<1>5. q[0] = <<>> /\ q[n + 1] = p[n] \o y
  <2>1. 0 \in 0..(n + 1) /\ n + 1 \in 0..(n + 1) /\ 0 # n + 1
    BY <1>1
  <2>2. p[0] = <<>>
    BY <1>3
  <2> QED BY <2>1, <2>2
<1>6. ASSUME NEW k \in 1..(n + 1) PROVE q[k] = q[k - 1] \o t[k]
  <2>1. k - 1 \in 0..(n + 1) /\ k - 1 # n + 1 /\ q[k - 1] = p[k - 1]
    BY <1>1
  <2>2. CASE k = n + 1
    <3>1. k - 1 = n
      BY <1>1, <2>2
    <3> HIDE DEF q
    <3> QED BY <1>1, <1>5, <2>1, <2>2, <3>1
  <2>3. CASE k # n + 1
    <3>1. k \in 1..n /\ q[k] = p[k]
      BY <1>1, <2>3
    <3> HIDE DEF q
    <3> QED BY <1>1, <1>3, <2>1, <3>1
  <2> QED BY <2>2, <2>3
<1> HIDE DEF q
<1>7. Joins(t, T, q)
  BY <1>1, <1>4, <1>5, <1>6 DEF Joins
<1>8. FlattenSeq(t) = q[n + 1] /\ FlattenSeq(s) = p[n]
  BY <1>1, <1>2, <1>7, Flattens DEF n
<1> QED BY <1>5, <1>8 DEF t

LEMMA ElementsAreThose ==
  ASSUME NEW S, NEW T, NEW list \in Seq(S), NEW I, \A i \in DOMAIN list : i \in I => list[i] \in T
  PROVE  ElementsAt(list, I) \in Seq(T)
<1> DEFINE s == [i \in DOMAIN list |-> IF i \in I THEN <<list[i]>> ELSE <<>>]
<1>1. DOMAIN list = 1..Len(list) /\ Len(list) \in Nat
  OBVIOUS
<1>2. \A i \in 1..Len(list) : (IF i \in I THEN <<list[i]>> ELSE <<>>) \in Seq(T)
  BY <1>1
<1>3. s \in Seq(Seq(T))
  BY <1>1, <1>2
<1> HIDE DEF s
<1> QED BY <1>3, FlattenIsSeq DEF ElementsAt, s

LEMMA NothingKept ==
  ASSUME NEW S, NEW list \in Seq(S), NEW I, \A i \in DOMAIN list : i \notin I
  PROVE  ElementsAt(list, I) = <<>>
<1>1. ElementsAt(list, I) \in Seq({})
  BY ElementsAreThose
<1>2. \A q \in Seq({}) : q = <<>>
  OBVIOUS
<1> QED BY <1>1, <1>2

\* Lists for some elements, joined: what is left out adds nothing.
LEMMA FlattenSome ==
  ASSUME NEW T, NEW U, NEW list \in Seq(T), NEW I, NEW g \in [T -> Seq(U)]
  PROVE  FlattenSeq(Each(g, ElementsAt(list, I)))
           = FlattenSeq([k \in DOMAIN list |-> IF k \in I THEN g[list[k]] ELSE <<>>])
<1> DEFINE n == Len(list)
           s == [k \in DOMAIN list |-> IF k \in I THEN <<list[k]>> ELSE <<>>]
           r == [k \in DOMAIN list |-> IF k \in I THEN g[list[k]] ELSE <<>>]
<1>1. n \in Nat /\ DOMAIN list = 1..n /\ \A k \in 1..n : list[k] \in T /\ g[list[k]] \in Seq(U)
  OBVIOUS
<1>2. s \in Seq(Seq(T)) /\ Len(s) = n
  <2>1. \A k \in 1..n : (IF k \in I THEN <<list[k]>> ELSE <<>>) \in Seq(T)
    BY <1>1
  <2> QED BY <1>1, <2>1
<1>3. r \in Seq(Seq(U)) /\ Len(r) = n
  <2>1. \A k \in 1..n : (IF k \in I THEN g[list[k]] ELSE <<>>) \in Seq(U)
    BY <1>1
  <2> QED BY <1>1, <2>1
<1>4. \A k \in 1..n : (k \in I => s[k] = <<list[k]>> /\ r[k] = g[list[k]]) /\ (k \notin I => s[k] = <<>> /\ r[k] = <<>>)
  BY <1>1
<1>5. PICK p : Joins(s, T, p)
  BY <1>2, JoinsExist
<1> HIDE DEF n, s, r
<1>6. p \in [0..n -> Seq(T)] /\ p[0] = <<>> /\ \A k \in 1..n : p[k] = p[k - 1] \o s[k]
  BY <1>2, <1>5 DEF Joins
<1> DEFINE q == [k \in 0..n |-> FlattenSeq(Each(g, p[k]))]
<1>0. /\ \A a \in Seq(T) : Each(g, a) \in Seq(Seq(U)) /\ a \o <<>> = a
      /\ \A a, b \in Seq(T) : Each(g, a \o b) = Each(g, a) \o Each(g, b)
  <2>1. \A a \in Seq(T) : Each(g, a) \in Seq(Seq(U))
    BY EachIsSeq
  <2>2. \A a, b \in Seq(T) : Each(g, a \o b) = Each(g, a) \o Each(g, b)
    BY EachJoins
  <2>3. \A a \in Seq(T) : a \o <<>> = a
    OBVIOUS
  <2> QED BY <2>1, <2>2, <2>3
<1>7. \A k \in 0..n : Each(g, p[k]) \in Seq(Seq(U))
  BY <1>0, <1>6
<1>8. q \in [0..n -> Seq(U)]
  BY <1>7, FlattenIsSeq
<1>9. q[0] = <<>>
  <2>1. Each(g, <<>>) = <<>> /\ 0 \in 0..n
    BY <1>1 DEF Each
  <2>2. FlattenSeq(<<>>) = <<>>
    BY DEF FlattenSeq
  <2> QED BY <1>6, <2>1, <2>2
<1>10. ASSUME NEW k \in 1..n PROVE q[k] = q[k - 1] \o r[k]
  <2>1. k \in 0..n /\ k - 1 \in 0..n
    BY <1>1
  <2>2. p[k - 1] \in Seq(T) /\ p[k] = p[k - 1] \o s[k] /\ q[k - 1] \in Seq(U)
    <3>1. p[k - 1] \in Seq(T) /\ p[k] = p[k - 1] \o s[k]
      BY <1>6, <2>1
    <3> HIDE DEF q
    <3>2. q[k - 1] \in Seq(U)
      BY <1>8, <2>1
    <3> QED BY <3>1, <3>2
  <2>3. CASE k \in I
    <3> DEFINE x == list[k]
    <3>1. s[k] = <<x>> /\ r[k] = g[x] /\ x \in T /\ g[x] \in Seq(U) /\ <<x>> \in Seq(T)
      BY <1>1, <1>4, <2>3
    <3>2. Each(g, <<x>>) = <<g[x]>>
      BY DEF Each
    <3> HIDE DEF x
    <3>3. Each(g, p[k]) = Each(g, p[k - 1]) \o <<g[x]>>
      <4>1. p[k] = p[k - 1] \o <<x>>
        BY <2>2, <3>1
      <4>2. Each(g, p[k - 1] \o <<x>>) = Each(g, p[k - 1]) \o Each(g, <<x>>)
        BY <1>0, <2>2, <3>1
      <4> QED BY <3>2, <4>1, <4>2
    <3>4. Each(g, p[k - 1]) \o <<g[x]>> = Append(Each(g, p[k - 1]), g[x])
      BY <1>7, <2>1, <3>1
    <3>5. FlattenSeq(Each(g, p[k])) = FlattenSeq(Each(g, p[k - 1])) \o g[x]
      BY <1>7, <2>1, <3>1, <3>3, <3>4, FlattenAppend
    <3> QED BY <2>1, <3>1, <3>5
  <2>4. CASE k \notin I
    <3>1. p[k] = p[k - 1] /\ r[k] = <<>>
      BY <1>0, <1>4, <2>2, <2>4
    <3>2. q[k] = q[k - 1]
      BY <2>1, <3>1
    <3> HIDE DEF q
    <3> QED BY <2>2, <3>1, <3>2
  <2> QED BY <2>3, <2>4
<1>11. Joins(r, U, q)
  <2> HIDE DEF q
  <2> QED BY <1>3, <1>8, <1>9, <1>10 DEF Joins
<1>12. FlattenSeq(r) = q[n] /\ FlattenSeq(s) = p[n]
  BY <1>2, <1>3, <1>5, <1>11, Flattens
<1>13. q[n] = FlattenSeq(Each(g, p[n])) /\ ElementsAt(list, I) = FlattenSeq(s)
  BY <1>1 DEF ElementsAt, s
<1> QED BY <1>12, <1>13 DEF r

-----------------------------------------------------------------------------
(* Logs                                                                      *)

LEMMA InRangeIsSeq ==
  ASSUME tip \in Blocks, NEW from \in Nat, NEW to \in Nat, from <= to
  PROVE  InRange(from, to) \in Seq(Contracts)
<1> DEFINE h(k) == GetBlockHash(from + k - 1)
           e(k) == IF h(k) = Unknown THEN <<>>
                   ELSE ElementsAt(body[h(k)], {i \in DOMAIN body[h(k)] : body[h(k)][i] \in Contracts})
<1>1. ASSUME NEW k \in 1..(to - from + 1) PROVE e(k) \in Seq(Contracts)
  <2>1. h(k) = Unknown \/ h(k) \in Blocks
    BY BlockAt
  <2> HIDE DEF h
  <2>2. CASE h(k) = Unknown
    BY <2>2
  <2>3. CASE h(k) # Unknown
    <3> DEFINE I == {i \in DOMAIN body[h(k)] : body[h(k)][i] \in Contracts}
    <3>1. body[h(k)] \in Seq(Txs)
      BY <2>1, <2>3, Bodies
    <3>2. \A i \in DOMAIN body[h(k)] : i \in I => body[h(k)][i] \in Contracts
      OBVIOUS
    <3> HIDE DEF I
    <3>3. ElementsAt(body[h(k)], I) \in Seq(Contracts)
      BY <3>1, <3>2, ElementsAreThose
    <3> QED BY <2>3, <3>3 DEF I
  <2> QED BY <2>2, <2>3
<1>2. InRange(from, to) = FlattenSeq([k \in 1..(to - from + 1) |-> e(k)])
  BY DEF InRange
<1> HIDE DEF e
<1>3. to - from + 1 \in Nat
  OBVIOUS
<1>4. [k \in 1..(to - from + 1) |-> e(k)] \in Seq(Seq(Contracts))
  BY <1>1, <1>3
<1> QED BY <1>2, <1>4, FlattenIsSeq

\* What DoFiltersMatch lets through: all that the filter selects and, where the
\* log has the positions of the filter, nothing else.
LEMMA PassesTheSelected ==
  ASSUME NEW f, NEW log
  PROVE  /\ Selects(f, log) => Unfiltered(f) \/ Passes(f, log)
         /\ (Unfiltered(f) \/ Passes(f, log)) /\ DOMAIN f.topics \subseteq DOMAIN log.topics => Selects(f, log)
         /\ Unfiltered(f) \/ Passes(f, log) => f.addresses = {} \/ log.address \in f.addresses
BY DEF Selects, Unfiltered, Passes, DoFiltersMatch

KeptOf(x) ==
    {i \in DOMAIN logsOf[x] : Unfiltered(op.filter) \/ Passes(op.filter, logsOf[x][i])}
Noted ==
    {u \in [tx : Contracts, log : Nat \ {0}, index : Int] : Unfiltered(op.filter) \/ u.index = u.log - 1}
Names == [u \in Noted |-> <<u.tx, u.log>>]

\* Of a transaction the logs that are kept are noted.
LEMMA NumberedLogs ==
  ASSUME NEW x \in Contracts
  PROVE  /\ Numbered(x, KeptOf(x)) \in Seq(Noted)
         /\ Each(Names, Numbered(x, KeptOf(x)))
              = [j \in DOMAIN LogsAt(x, KeptOf(x)) |-> <<x, LogsAt(x, KeptOf(x))[j]>>]
         /\ LogsAt(x, {}) = <<>>
<1> DEFINE list == [i \in DOMAIN logsOf[x] |-> i]
           kept == ElementsAt(list, KeptOf(x))
           note(i) == [tx |-> x, log |-> i, index |-> IF Unfiltered(op.filter) THEN 0 ELSE i - 1]
           n == Len(kept)
<1>1. /\ Len(logsOf[x]) \in Nat /\ DOMAIN logsOf[x] = 1..Len(logsOf[x])
  <2>1. logsOf[x] \in Seq(Range(logsOf[x]))
    BY LogSearchAssumption
  <2> QED BY <2>1
<1>2. list \in Seq(Nat \ {0}) /\ DOMAIN list = DOMAIN logsOf[x]
  BY <1>1
<1>4. LogsAt(x, KeptOf(x)) = kept /\ LogsAt(x, {}) = ElementsAt(list, {})
  BY DEF LogsAt
<1>5. Numbered(x, KeptOf(x)) = [k \in DOMAIN kept |-> note(kept[k])]
  BY DEF Numbered
<1> HIDE DEF list
<1>3. kept \in Seq(Nat \ {0})
  <2>1. \A i \in DOMAIN list : i \in KeptOf(x) => list[i] \in Nat \ {0}
    BY <1>2
  <2> QED BY <1>2, <2>1, ElementsAreThose
<1>6. \A i \in Nat \ {0} : note(i) \in Noted /\ Names[note(i)] = <<x, i>>
  <2> SUFFICES ASSUME NEW i \in Nat \ {0} PROVE note(i) \in Noted /\ Names[note(i)] = <<x, i>>
    OBVIOUS
  <2>1. (IF Unfiltered(op.filter) THEN 0 ELSE i - 1) \in Int
    OBVIOUS
  <2>2. Unfiltered(op.filter) \/ note(i).index = note(i).log - 1
    OBVIOUS
  <2>3. note(i) \in [tx : Contracts, log : Nat \ {0}, index : Int]
    BY <2>1
  <2>4. note(i).tx = x /\ note(i).log = i
    OBVIOUS
  <2> HIDE DEF note
  <2>5. note(i) \in Noted
    BY <2>2, <2>3 DEF Noted
  <2> QED BY <2>4, <2>5 DEF Names
<1> HIDE DEF note, kept
<1>7. n \in Nat /\ DOMAIN kept = 1..n /\ \A k \in 1..n : kept[k] \in Nat \ {0}
  BY <1>3
<1>8. Numbered(x, KeptOf(x)) \in Seq(Noted)
  <2>1. \A k \in 1..n : note(kept[k]) \in Noted
    BY <1>6, <1>7
  <2> HIDE DEF n
  <2> QED BY <1>5, <1>7, <2>1
<1>9. Each(Names, Numbered(x, KeptOf(x))) = [j \in DOMAIN kept |-> <<x, kept[j]>>]
  <2>1. \A k \in DOMAIN kept : Names[note(kept[k])] = <<x, kept[k]>>
    BY <1>6, <1>7
  <2> QED BY <1>5, <2>1 DEF Each
<1>10. ElementsAt(list, {}) = <<>>
  <2>1. \A i \in DOMAIN list : i \notin {}
    OBVIOUS
  <2> QED BY <1>2, <2>1, NothingKept
<1> QED BY <1>4, <1>8, <1>9, <1>10

\* What LogsAreExact says of an answer, for the logs that are kept of each
\* transaction.
AreExact(f, all, logs, kept) ==
    /\ [k \in DOMAIN logs |-> <<logs[k].tx, logs[k].log>>]
         = FlattenSeq([k \in DOMAIN all |->
             LET x == all[k]
                 there == LogsAt(x, kept[x])
             IN  [j \in DOMAIN there |-> <<x, there[j]>>]])
    /\ \A x \in Range(all) : \A i \in DOMAIN logsOf[x] :
         LET log == logsOf[x][i]
             whole == DOMAIN f.topics \subseteq DOMAIN log.topics
         IN  /\ Selects(f, log) => i \in kept[x]
             /\ i \in kept[x] /\ whole => Selects(f, log)
             /\ i \in kept[x] => f.addresses = {} \/ log.address \in f.addresses
    /\ Unfiltered(f) \/ \A k, l \in DOMAIN logs :
         logs[k].tx = logs[l].tx => logs[k].index - logs[l].index = logs[k].log - logs[l].log

ExactAnswer(f, r) ==
    \E kept \in [Range(r.all) -> SUBSET LogPositions] : AreExact(f, r.all, r.logs, kept)

LEMMA ExactIff ==
  /\ LogsAreExact <=> (AnsweredLogs => ExactAnswer(op.filter, reply))
  /\ LogsAreExact' <=> (AnsweredLogs' => ExactAnswer(op'.filter, reply'))
<1>1. LogsAreExact <=> (AnsweredLogs => ExactAnswer(op.filter, reply))
  BY DEF LogsAreExact, ExactAnswer, AreExact
<1>2. LogsAreExact' <=> (AnsweredLogs' => ExactAnswer(op'.filter, reply'))
  BY DEF LogsAreExact, ExactAnswer, AreExact, Unfiltered, Selects, LogsAt
<1> QED BY <1>1, <1>2

\* What is kept when the node leaves some transactions out.
KeptBut(all, out) == [x \in Range(all) |-> IF x \in out THEN {} ELSE KeptOf(x)]

\* The logs are those of all transactions in the range; what the node leaves out
\* has none that is selected.
LEMMA SearchIsExact ==
  ASSUME NEW all \in Seq(Contracts), NEW out \in SUBSET Needless, NEW logs,
         logs = SearchLogsAndFilterExtraTopics(ElementsAt(all, {k \in DOMAIN all : all[k] \notin out}))
  PROVE  /\ KeptBut(all, out) \in [Range(all) -> SUBSET LogPositions]
         /\ AreExact(op.filter, all, logs, KeptBut(all, out))
<1> DEFINE g == [x \in Contracts |-> Numbered(x, KeptOf(x))]
           I == {k \in DOMAIN all : all[k] \notin out}
           receipts == ElementsAt(all, I)
           s == [k \in DOMAIN all |-> IF k \in I THEN g[all[k]] ELSE <<>>]
           K == KeptBut(all, out)
           listed(x) == [j \in DOMAIN LogsAt(x, K[x]) |-> <<x, LogsAt(x, K[x])[j]>>]
           expected == [k \in DOMAIN all |-> listed(all[k])]
           named(u) == <<u.tx, u.log>>
<1>1. /\ g \in [Contracts -> Seq(Noted)]
      /\ \A x \in Contracts : g[x] = Numbered(x, KeptOf(x))
      /\ \A x \in Contracts : Each(Names, g[x])
           = [j \in DOMAIN LogsAt(x, KeptOf(x)) |-> <<x, LogsAt(x, KeptOf(x))[j]>>]
  BY NumberedLogs
<1>2. \A k \in DOMAIN all : all[k] \in Contracts /\ all[k] \in Range(all)
  BY DEF Range
<1>a. \A x \in Range(all) : x \in Contracts /\ K[x] = IF x \in out THEN {} ELSE KeptOf(x)
  BY DEF Range, KeptBut
<1>3. receipts \in Seq(Contracts)
  BY <1>2, ElementsAreThose
<1>4. logs = FlattenSeq(Each(g, receipts))
  <2>1. logs = FlattenSeq([k \in DOMAIN receipts |-> Numbered(receipts[k], KeptOf(receipts[k]))])
    BY DEF SearchLogsAndFilterExtraTopics, KeptOf
  <2> HIDE DEF g, receipts
  <2>2. \A k \in DOMAIN receipts : receipts[k] \in Contracts
    BY <1>3
  <2>3. \A k \in DOMAIN receipts : g[receipts[k]] = Numbered(receipts[k], KeptOf(receipts[k]))
    BY <1>1, <2>2
  <2> QED BY <2>1, <2>3 DEF Each
<1>5. logs = FlattenSeq(s)
  <2> HIDE DEF g, I
  <2> QED BY <1>1, <1>4, FlattenSome
<1>6. s \in Seq(Seq(Noted)) /\ DOMAIN s = DOMAIN all
  <2> HIDE DEF g, I
  <2>1. \A k \in DOMAIN all : (IF k \in I THEN g[all[k]] ELSE <<>>) \in Seq(Noted)
    BY <1>1, <1>2
  <2>2. DOMAIN all = 1..Len(all) /\ Len(all) \in Nat
    OBVIOUS
  <2> QED BY <2>1, <2>2
<1>7. logs \in Seq(Noted)
  <2> HIDE DEF s
  <2> QED BY <1>5, <1>6, FlattenIsSeq
<1>8. [k \in DOMAIN logs |-> named(logs[k])] = Each(Names, logs)
  <2>1. \A k \in DOMAIN logs : logs[k] \in Noted
    BY <1>7
  <2> QED BY <2>1 DEF Each, Names
<1>9. Each(Names, FlattenSeq(s)) = FlattenSeq([k \in DOMAIN s |-> Each(Names, s[k])])
  <2> DEFINE U == {named(u) : u \in Noted}
  <2>1. Names \in [Noted -> U]
    BY DEF Names
  <2> HIDE DEF s, U
  <2> QED BY <1>6, <2>1, FlattenEach
<1>10. [k \in DOMAIN s |-> Each(Names, s[k])] = expected
  <2> HIDE DEF g, K
  <2>1. ASSUME NEW k \in DOMAIN all, all[k] \notin out PROVE Each(Names, s[k]) = listed(all[k])
    <3>1. s[k] = g[all[k]] /\ all[k] \in Contracts /\ K[all[k]] = KeptOf(all[k])
      BY <1>2, <1>a, <2>1
    <3> QED BY <1>1, <3>1
  <2>2. ASSUME NEW k \in DOMAIN all, all[k] \in out PROVE Each(Names, s[k]) = listed(all[k])
    <3>1. s[k] = <<>> /\ all[k] \in Contracts /\ K[all[k]] = {}
      BY <1>2, <1>a, <2>2
    <3>2. LogsAt(all[k], K[all[k]]) = <<>>
      BY <3>1, NumberedLogs
    <3>3. Each(Names, <<>>) = <<>>
      BY DEF Each
    <3>4. listed(all[k]) = <<>>
      BY <3>2
    <3> QED BY <3>1, <3>3, <3>4
  <2> HIDE DEF s, listed
  <2> QED BY <1>6, <2>1, <2>2
<1>11. [k \in DOMAIN logs |-> named(logs[k])] = FlattenSeq(expected)
  <2> HIDE DEF s, expected, named
  <2> QED BY <1>5, <1>8, <1>9, <1>10
<1>12. Unfiltered(op.filter) \/ \A k, l \in DOMAIN logs :
         logs[k].index - logs[l].index = logs[k].log - logs[l].log
  <2>1. \A k \in DOMAIN logs : logs[k] \in Noted
    BY <1>7
  <2>2. \A k \in DOMAIN logs : /\ logs[k].log \in Nat /\ logs[k].index \in Int
                               /\ Unfiltered(op.filter) \/ logs[k].index = logs[k].log - 1
    BY <2>1 DEF Noted
  <2>3. ASSUME ~Unfiltered(op.filter), NEW k \in DOMAIN logs, NEW l \in DOMAIN logs
        PROVE  logs[k].index - logs[l].index = logs[k].log - logs[l].log
    <3>1. /\ logs[k].log \in Nat /\ logs[k].index = logs[k].log - 1
          /\ logs[l].log \in Nat /\ logs[l].index = logs[l].log - 1
      BY <2>2, <2>3
    <3> QED BY <3>1
  <2> QED BY <2>3
<1>13. ASSUME NEW x \in Range(all), NEW i \in DOMAIN logsOf[x]
       PROVE  LET log == logsOf[x][i]
              IN  /\ Selects(op.filter, log) => i \in K[x]
                  /\ i \in K[x] /\ DOMAIN op.filter.topics \subseteq DOMAIN log.topics => Selects(op.filter, log)
                  /\ i \in K[x] => op.filter.addresses = {} \/ log.address \in op.filter.addresses
  <2> DEFINE log == logsOf[x][i]
  <2>1. x \in out => ~Selects(op.filter, log)
    BY DEF Needless
  <2>2. i \in KeptOf(x) <=> Unfiltered(op.filter) \/ Passes(op.filter, log)
    BY DEF KeptOf
  <2>3. i \in K[x] <=> x \notin out /\ i \in KeptOf(x)
    BY <1>a
  <2> HIDE DEF K, log
  <2>4. i \in K[x] /\ DOMAIN op.filter.topics \subseteq DOMAIN log.topics => Selects(op.filter, log)
    BY <2>2, <2>3, PassesTheSelected
  <2>5. Selects(op.filter, log) => i \in K[x]
    BY <2>1, <2>2, <2>3, PassesTheSelected
  <2>6. i \in K[x] => op.filter.addresses = {} \/ log.address \in op.filter.addresses
    BY <2>2, <2>3, PassesTheSelected
  <2> QED BY <2>4, <2>5, <2>6 DEF log
<1>14. K \in [Range(all) -> SUBSET LogPositions]
  <2>1. \A x \in Contracts : KeptOf(x) \subseteq LogPositions
    BY DEF KeptOf, LogPositions
  <2> QED BY <1>a, <2>1 DEF KeptBut
<1> HIDE DEF K
<1>15. AreExact(op.filter, all, logs, K)
  <2> HIDE DEF named
  <2>1. [k \in DOMAIN logs |-> named(logs[k])]
         = FlattenSeq([k \in DOMAIN all |->
             LET x == all[k]
                 there == LogsAt(x, K[x])
             IN  [j \in DOMAIN there |-> <<x, there[j]>>]])
    BY <1>11
  <2> QED BY <1>12, <1>13, <2>1 DEF AreExact, named
<1> QED BY <1>14, <1>15 DEF K

LogInv ==
    /\ op.name = "logs" /\ pc["main"] \in {"to", "search"} => op.from \in Nat
    /\ op.name = "logs" /\ pc["main"] = "search" => op.to \in Nat
    /\ LogsAreExact

\* What a call that is about logs may be doing.
LEMMA LogsOnly ==
  ASSUME TypeOK, Control, op.name = "logs", Translate \/ PaymentStep \/ AnswerTransaction
  PROVE  GetLogsStep
<1>1. op # NoOp /\ ~IsByHash
  BY DEF NoOp, IsByHash
<1>2. pc["main"] \in {"idle", "from", "to", "search"}
  <2>1. pc["main"] \in Pcs /\ WorksFor("main") /\ Serves(pc["main"], op.name)
    BY DEF TypeOK, Control, WorksFor, Threads
  <2>2. pc["main"] \notin TxPcs \cup {"latest", "hash", "header", "block", "lookup"}
    BY <1>1, <2>1 DEF WorksFor, BlockOps
  <2> QED BY <2>1, <2>2 DEF Serves, Pcs, TxPcs, Reading
<1>3. pc["backup"] = "idle" /\ waiter = "none"
  BY <1>1 DEF Control, WorksFor, Threads
<1>4. ASSUME NEW t \in Threads PROVE ~TransactionStep(t) /\ ~BlockStep(t)
  <2>1. TransactionStep(t) => pc[t] \in TxPcs
    BY TransactionGoesOn DEF TxGoesOn
  <2>2. pc[t] \notin TxPcs
    BY <1>2, <1>3 DEF Threads, TxPcs, Reading
  <2>3. ~BlockStep(t)
    BY BlockCases, BlockCallsStay DEF BlockOps
  <2> QED BY <2>1, <2>2, <2>3
<1>5. ~LookUp /\ ~Receive
  BY <1>3 DEF LookUp, Receive, ReceiveFirst, ReceiveError, ReceiveSecond, At
<1>6. ~QueryStep
  BY <1>2 DEF QueryStep, CallContract, EstimateGas, GetCode, GetStorageLatest, GetStorage, GetAccountInfo,
              GetAddressBalance, GetCount, Asks, At
<1>7. ~Send /\ ~SendRaw /\ ~DecodeRaw /\ ~Generate /\ ~ListCoins /\ ~CountBlocks
  BY <1>2 DEF Send, SendRaw, DecodeRaw, Generate, ListCoins, CountBlocks, Asks, At
<1>8. ~(requestSendToContract \/ requestSendToAddress \/ requestCreateContract \/ SignRefused)
  BY DEF requestSendToContract, requestSendToAddress, requestCreateContract, SignRefused
<1> QED BY <1>4, <1>5, <1>6, <1>7, <1>8 DEF Translate, PaymentStep, AnswerTransaction

\* A search is begun with two numbers, and answers with what is in their range.
LEMMA SearchGoesOn ==
  ASSUME TypeOK, Control, LogInv, op.name = "logs", GetLogsStep
  PROVE  LogInv'
<1>0. /\ op \in LogOps /\ tip \in Blocks /\ height[tip] \in Nat /\ "main" \in Threads
      /\ pc \in [Threads -> Pcs]
  BY OpSorts, HeightDef DEF TypeOK, Threads
<1>1. op.from \in Nat \cup {Latest} /\ op.to \in Nat \cup {Latest}
  BY <1>0 DEF LogOps, Resolved
<1>2. NoReplyYet.kind = "none" /\ Error.kind = "error"
  BY Sorts DEF NoReplyYet
<1>3. pc["main"] # "idle" /\ reply = NoReplyYet
  <2>1. pc["main"] \in {"from", "to", "search"}
    BY DEF GetLogsStep, ResolveFrom, ResolveTo, ResolveEnd, SearchLogs, At
  <2> QED BY <1>0, <2>1, Working
<1>4. ASSUME pc'["main"] = "idle", reply' = Error PROVE LogInv'
  BY <1>2, <1>4 DEF LogInv, LogsAreExact, AnsweredLogs
<1>5. CASE ResolveFrom
  <2>1. CASE pc' = [pc EXCEPT !["main"] = "to"] /\ reply' = reply
             /\ ((op.from # Latest /\ op' = op) \/ op' = [op EXCEPT !["from"] = height[tip]])
    <3>1. op'.from \in Nat
      <4>1. [op EXCEPT !["from"] = height[tip]].from = height[tip]
        BY <1>0 DEF LogOps
      <4> QED BY <1>0, <1>1, <2>1, <4>1
    <3>2. pc'["main"] = "to"
      BY <1>0, <2>1
    <3> QED BY <1>2, <1>3, <2>1, <3>1, <3>2 DEF LogInv, LogsAreExact, AnsweredLogs
  <2> QED BY <1>0, <1>4, <1>5, <2>1 DEF ResolveFrom, ResolveEnd, GoTo, NoReply, Replies, GetBlockChainInfo
<1>6. CASE ResolveTo
  <2>1. CASE pc' = [pc EXCEPT !["main"] = "search"] /\ reply' = reply /\ pc["main"] = "to"
             /\ ((op.to # Latest /\ op' = op) \/ op' = [op EXCEPT !["to"] = height[tip]])
    <3>1. op'.to \in Nat /\ op'.from = op.from
      <4>1. /\ [op EXCEPT !["to"] = height[tip]].to = height[tip]
            /\ [op EXCEPT !["to"] = height[tip]].from = op.from
        BY <1>0 DEF LogOps
      <4> QED BY <1>0, <1>1, <2>1, <4>1
    <3>2. op.from \in Nat
      BY <2>1 DEF LogInv
    <3>3. pc'["main"] = "search"
      BY <1>0, <2>1
    <3> QED BY <1>2, <1>3, <2>1, <3>1, <3>2, <3>3 DEF LogInv, LogsAreExact, AnsweredLogs
  <2> QED BY <1>0, <1>4, <1>6, <2>1 DEF ResolveTo, ResolveEnd, GoTo, NoReply, Replies, GetBlockChainInfo
<1>7. CASE SearchLogs
  <2>1. op.from \in Nat /\ op.to \in Nat /\ op' = op /\ pc'["main"] = "idle"
    BY <1>0, <1>7 DEF LogInv, SearchLogs, At, GoTo
  <2>2. ASSUME op.from <= op.to, NEW out \in SUBSET Needless,
               LET all == InRange(op.from, op.to)
                   receipts == ElementsAt(all, {k \in DOMAIN all : all[k] \notin out})
               IN  reply' = [kind |-> "logs", all |-> all, logs |-> SearchLogsAndFilterExtraTopics(receipts)]
        PROVE  LogsAreExact'
    <3> DEFINE all == InRange(op.from, op.to)
               logs == SearchLogsAndFilterExtraTopics(ElementsAt(all, {k \in DOMAIN all : all[k] \notin out}))
    <3>1. all \in Seq(Contracts)
      BY <1>0, <2>1, <2>2, InRangeIsSeq
    <3>2. reply'.all = all /\ reply'.logs = logs
      BY <2>2
    <3> HIDE DEF all
    <3>a. out \in SUBSET Needless
      BY <2>2
    <3>b. logs = SearchLogsAndFilterExtraTopics(ElementsAt(all, {k \in DOMAIN all : all[k] \notin out}))
      OBVIOUS
    <3> HIDE DEF logs
    <3> DEFINE kept == KeptBut(all, out)
    <3>3. kept \in [Range(all) -> SUBSET LogPositions] /\ AreExact(op.filter, all, logs, kept)
      BY <3>1, <3>a, <3>b, SearchIsExact
    <3> HIDE DEF kept
    <3>4. ExactAnswer(op'.filter, reply')
      BY <2>1, <3>2, <3>3 DEF ExactAnswer
    <3> QED BY <3>4, ExactIff
  <2>3. LogsAreExact' \/ reply' = Error
    BY <1>7, <2>2 DEF SearchLogs, Replies
  <2> QED BY <1>4, <2>1, <2>3 DEF LogInv
<1> QED BY <1>5, <1>6, <1>7 DEF GetLogsStep

LEMMA LoggingGoesOn == TypeOK /\ Control /\ LogInv /\ [Next]_vars => LogInv'
<1> SUFFICES ASSUME TypeOK, Control, LogInv, [Next]_vars PROVE LogInv'
  OBVIOUS
<1>0. NoReplyYet.kind = "none" /\ NoOp.name = "none"
  BY DEF NoReplyYet, NoOp
<1>1. CASE Ask
  <2>1. pc'["main"] \notin {"to", "search"} /\ reply'.kind = "none"
    BY <1>0, <1>1, AskIsFirst, Fresh DEF InTheMiddle
  <2> QED BY <2>1 DEF LogInv, LogsAreExact, AnsweredLogs
<1>2. CASE Finish
  BY <1>0, <1>2 DEF Finish, LogInv, LogsAreExact, AnsweredLogs
<1>3. CASE NodeChanges \/ UNCHANGED vars
  <2>1. UNCHANGED <<op, pc, reply>>
    BY <1>3 DEF NodeChanges, txVars, blockVars, vars
  <2>2. LogsAreExact => LogsAreExact'
    BY <2>1, ExactIff DEF AnsweredLogs
  <2> QED BY <2>1, <2>2 DEF LogInv
<1>4. CASE Translate \/ PaymentStep \/ AnswerTransaction
  <2>1. CASE op.name = "logs"
    BY <1>4, <2>1, LogsOnly, SearchGoesOn
  <2>2. CASE op.name # "logs"
    BY <1>4, <2>2, NameStays DEF LogInv, LogsAreExact, AnsweredLogs
  <2> QED BY <2>1, <2>2
<1> QED BY <1>1, <1>2, <1>3, <1>4 DEF Next

\* eth_getLogs: whatever the node returns too much and leaves out, every log of
\* the range that the filter selects is answered, in order and once each, none
\* that has the positions of the filter without being selected, and with a filter
\* the numbers of a transaction's logs are as far apart as they are
\* (SearchLogsAndFilterExtraTopics, DoFiltersMatch).
THEOREM LogsAlwaysExact == Spec => []LogsAreExact
<1>1. Init => LogInv
  BY DEF Init, NoOp, LogInv, LogsAreExact, AnsweredLogs
<1>2. LogInv => LogsAreExact
  BY DEF LogInv
<1>3. TypeOK /\ Control /\ LogInv /\ [Next]_vars => (TypeOK /\ Control /\ LogInv)'
  BY StepsKeep, LoggingGoesOn
<1> QED BY <1>1, <1>2, <1>3, StartsWell, PTL DEF Spec
===============================================================================
