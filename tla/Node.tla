--------------------------------- MODULE Node ---------------------------------
(***************************************************************************)
(* The Revo node as the calls of charon see it, through the wrappers of    *)
(* revo/method.go and the response cache of the client. The node knows a   *)
(* tree of blocks, of which the branch that ends in tip is active; the     *)
(* blocks and their transactions never change, which block is the tip      *)
(* does. Of the cached answers (client_cache.go, module ClientCache) only  *)
(* that of getrawtransaction depends on the tip: it names the block a      *)
(* transaction is in.                                                      *)
(***************************************************************************)
EXTENDS Integers, Sequences, FiniteSets, Functions

CONSTANTS
    Blocks,      \* the blocks the node knows
    Genesis,
    parent,      \* per block: the one before it
    body,        \* per block: its transactions, in order
    Wallet,      \* transactions of the node's wallet
    Coinbases,   \* transactions that exist in their block only
    Contracts,   \* transactions that have a receipt
    Pending,     \* the place of a transaction outside the active branch
    Unknown,     \* a hash or transaction the node does not know
    MaxTips,     \* bound: tips of the chain during one call
    MaxFailures  \* bound: calls to the node that fail during one call

Txs == UNION {Range(body[b]) : b \in Blocks}

Absent == "absent"

ASSUME NodeAssumption ==
    /\ Genesis \in Blocks
    /\ parent \in [Blocks -> Blocks] /\ body \in [Blocks -> Seq(Txs)]
    /\ Wallet \subseteq Txs /\ Coinbases \subseteq Txs /\ Contracts \subseteq Txs
    /\ Pending \notin Blocks /\ Unknown \notin Blocks \cup Txs /\ Pending # Unknown
    /\ Absent \notin Blocks \cup {Pending, Unknown}
    /\ MaxTips \in Nat \ {0} /\ MaxFailures \in Nat

VARIABLES
    tip,         \* last block of the active branch
    rawCache,    \* per transaction: the cached answer of getrawtransaction, or Absent
    tips,        \* history: tips there were during the running call
    failures     \* calls to the node that failed during the running call

nodeVars == <<tip, rawCache, tips, failures>>

NodeInit ==
    /\ tip \in Blocks
    /\ rawCache = [x \in Txs |-> Absent]
    /\ tips = {tip} /\ failures = 0

height[b \in Blocks] == IF b = Genesis THEN 0 ELSE height[parent[b]] + 1
branch[b \in Blocks] == IF b = Genesis THEN {b} ELSE branch[parent[b]] \cup {b}

\* Every block has the genesis block behind it. A transaction is in one block
\* of a branch, once, and the coinbase of the genesis block is in no wallet.
ASSUME ChainAssumption ==
    /\ \A S \in SUBSET (Blocks \ {Genesis}) : S # {} => \E b \in S : parent[b] \notin S
    /\ \A t \in Blocks : \A b, c \in branch[t] : Range(body[b]) \cap Range(body[c]) # {} => b = c
    /\ \A b \in Blocks : \A i, j \in DOMAIN body[b] : body[b][i] = body[b][j] => i = j
    /\ Range(body[Genesis]) \cap Wallet = {}

Index(x, b) == (CHOOSE i \in DOMAIN body[b] : body[b][i] = x) - 1

\* Blocks that were active at some time of the running call.
SeenBlocks == UNION {branch[b] : b \in tips}
-----------------------------------------------------------------------------
(* What the node answers                                                     *)

GetBlockCount == height[tip]
GetBlockChainInfo == height[tip]

\* The block of the active branch at height n; there is none above the tip.
GetBlockHash(n) ==
    IF n \in 0..height[tip] THEN CHOOSE b \in branch[tip] : height[b] = n ELSE Unknown

\* The node answers for every block it knows, active or not.
GetBlockHeader(h) == IF h \in Blocks THEN h ELSE Unknown
GetBlock(h) == [height |-> height[h], txs |-> body[h]]

\* The coinbase of the genesis block is no transaction to the node, and a
\* coinbase goes with its block; other transactions return to the mempool.
Place(x, t) ==
    LET in == {b \in branch[t] : x \in Range(body[b])}
    IN  IF x \notin Txs \/ x \in Range(body[Genesis]) THEN Unknown
        ELSE IF in # {} THEN CHOOSE b \in in : TRUE
        ELSE IF x \in Coinbases THEN Unknown ELSE Pending

\* gettransaction is answered for the wallet's transactions, which the wallet
\* keeps when their block is left.
GetTransaction(x) ==
    IF x \notin Wallet THEN Unknown
    ELSE LET p == Place(x, tip) IN IF p = Unknown THEN Pending ELSE p

\* A cached answer is given without asking the node.
GetRawTransaction(x) ==
    IF x \in Txs /\ rawCache[x] # Absent THEN rawCache[x] ELSE Place(x, tip)

\* A cached answer that was true at no time of the call.
Outdated(x) == GetRawTransaction(x) \notin {Place(x, t) : t \in tips}

\* RequestWithContext stores the answer of a call that did not fail.
StoreRaw(x) ==
    /\ rawCache' = IF GetRawTransaction(x) = Unknown THEN rawCache
                   ELSE [rawCache EXCEPT ![x] = GetRawTransaction(x)]
    /\ UNCHANGED <<tip, tips, failures>>

\* The receipt of a contract transaction that is in a block; else the answer
\* is empty.
GetTransactionReceipt(x) ==
    IF x \in Contracts /\ Place(x, tip) \in Blocks THEN Place(x, tip) ELSE Unknown

\* A call fails for another reason than what it asks for. A cached answer
\* cannot fail, which only matters for getrawtransaction.
CallFails ==
    /\ failures < MaxFailures
    /\ failures' = failures + 1
    /\ UNCHANGED <<tip, rawCache, tips>>
RawCallFails(x) == (x \in Txs => rawCache[x] = Absent) /\ CallFails
-----------------------------------------------------------------------------
(* What changes under a call                                                 *)

\* The tip moves, up or down its branch or to another one, but never back to a
\* chain of nothing.
Move ==
    \E b \in Blocks \ {tip, Genesis} :
        /\ Cardinality(tips \cup {b}) <= MaxTips
        /\ tip' = b /\ tips' = tips \cup {b}
        /\ UNCHANGED <<rawCache, failures>>

\* The flush goroutine of a cached answer.
Expire ==
    \E x \in {y \in Txs : rawCache[y] # Absent} :
        /\ rawCache' = [rawCache EXCEPT ![x] = Absent]
        /\ UNCHANGED <<tip, tips, failures>>
=============================================================================
