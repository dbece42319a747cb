--------------------------------- MODULE Calls ---------------------------------
(***************************************************************************)
(* One call after another is answered, while the chain of the node changes *)
(* and its calls may fail: the composition of the modules above. The       *)
(* parameters of a call are what its request comes to when it is decoded.  *)
(***************************************************************************)
EXTENDS Payments

CONSTANTS
    Numbers,     \* block numbers a call may name
    Indexes,     \* positions in a block a call may name
    Shapes,      \* inputs, outputs and scripts a transaction may have
    Filters,     \* filters of eth_getLogs
    MaxCached,   \* bound: cached answers of getrawtransaction that outlive a call
    Payments_    \* calls of eth_signTransaction and eth_sendTransaction

Hashes == Blocks \cup {Unknown}
BlockParams == Numbers \cup {Latest}

PaymentCalls ==
    [name : {"sign", "send"}, to : BOOLEAN, data : BOOLEAN, value : BOOLEAN, wei : Nat, gas : Nat,
     gasPrice : Nat, known : BOOLEAN]

IsCoins(c) == c \in Seq(Range(c)) /\ \A i \in DOMAIN c : c[i].amount \in Nat
IsScripts(c) == c \in Seq(Range(c)) /\ \A i \in DOMAIN c : c[i].limit \in Seq(0..(Base - 1))

ASSUME CallsAssumption ==
    /\ Numbers \subseteq Nat /\ Indexes \subseteq Uint64s /\ \A h \in Hashes : h \notin Int
    /\ Payments_ \subseteq PaymentCalls
    /\ \A s \in Shapes : IsCoins(s.ins) /\ IsCoins(s.outs) /\ IsScripts(s.scripts)

vars == <<nodeVars, txVars, pc, blockVars, reply, coins>>

NoReplyYet == [kind |-> "none"]
NoOp == [name |-> "none"]

Init ==
    /\ NodeInit
    /\ op = NoOp /\ tx = [t \in Threads |-> Unknown]
    /\ pc = [t \in Threads |-> "idle"]
    /\ view = [t \in Threads |-> NoView] /\ result = [t \in Threads |-> NoResult]
    /\ block = [t \in Threads |-> NoBlock] /\ chans = NoChans /\ waiter = "none"
    /\ reply = NoReplyYet /\ coins = <<>>
-----------------------------------------------------------------------------
(* Types                                                                     *)

Accounts == {"contract", "plain", "invalid"}
Resolved == Nat \cup {Latest}

\* The calls, by what they carry.
ReadOps == [name : {"tx", "receipt"}]
NumberOps == [name : {"getBlockByNumber"}, asked : BlockParams, number : Resolved, full : BOOLEAN]
PositionOps ==
    [name : {"byIndex"}, asked : BlockParams, number : Resolved, index : Indexes, prefixed : {FALSE}]
HashPositionOps == [name : {"byIndex"}, asked : Hashes, index : Indexes, prefixed : BOOLEAN]
HashOps == [name : {"getBlockByHash"}, hash : Hashes, full : BOOLEAN]
LogOps == [name : {"logs"}, from : Resolved, to : Resolved, filter : Filters]
AccountOps ==
    [name : {"balance", "code", "estimateGas"}, account : Accounts]
    \cup [name : {"call"}, account : Accounts, overCap : BOOLEAN]
StorageOps == [name : {"storage"}, account : Accounts, number : Resolved]
CountOps == [name : {"blockNumber"}, retries : Nat]
RawOps ==
    [name : {"sendRaw"}, known : BOOLEAN, witness : BOOLEAN] \cup [name : {"generate"}, number : Nat]
    \cup [name : {"utxos"}, min : Nat, immature : BOOLEAN]
Ops ==
    {NoOp} \cup ReadOps \cup NumberOps \cup PositionOps \cup HashPositionOps \cup HashOps \cup LogOps
    \cup AccountOps \cup StorageOps \cup CountOps \cup PaymentCalls \cup RawOps

Spots == Blocks \cup {Pending, Unknown}
Paths == {"none", "wallet", "reward", "raw", "receipt"}
Views ==
    [place : Spots, index : Int, number : Nat, path : Paths, cause : {"none", "empty", "failed"},
     outdated : BOOLEAN]
Translated ==
    [kind : {"tx"}, tx : Txs \cup {Unknown}, place : Spots, index : Int, number : Nat, path : Paths,
     outdated : BOOLEAN, sender : {"none", "script", "input", "receipt"}]
PartialBlocks == [hash : Hashes, rest : Seq(Txs), txs : Seq(Translated)]
BlockAnswers == [kind : {"block"}, hash : Blocks, number : Nat, txs : Seq(Translated) \cup Seq(Txs)]

\* Names of calls to the node, and where a thread is between two calls.
Pcs ==
    {"idle", "gettransaction", "reward", "rewardIndex", "rewardNumber", "rewardOut", "raw", "decode",
     "number", "sender", "returned", "receipt", "receiptRaw", "receiptDecode", "latest", "hash", "header",
     "block", "lookup", "from", "to", "search", "callcontract", "getcode", "storagelatest", "getstorage",
     "accountinfo", "addressbalance", "count", "utxos", "createraw", "signraw", "send", "sendraw",
     "decoderaw", "generate", "listcoins", "coincount"}

\* What the variables of a call hold, whatever the node answers and when.
TypeOK ==
    /\ tip \in tips /\ tips \subseteq Blocks /\ failures \in 0..MaxFailures
    /\ rawCache \in [Txs -> Blocks \cup {Pending, Absent}]
    /\ op \in Ops /\ pc \in [Threads -> Pcs] /\ tx \in [Threads -> Txs \cup {Unknown}]
    /\ view \in [Threads -> Views] /\ result \in [Threads -> {NoResult, Null, Error} \cup Translated]
    /\ block \in [Threads -> PartialBlocks]
    /\ chans \in [result : Seq({Null} \cup BlockAnswers), error : BOOLEAN, backupError : BOOLEAN]
    /\ waiter \in {"none", "first", "afterNull", "afterError"}
    /\ coins \in Seq(Coins)
-----------------------------------------------------------------------------
(* Requests                                                                  *)

Begins(o, p) ==
    /\ op = NoOp /\ op' = o
    /\ GoTo("main", p)
    /\ UNCHANGED <<nodeVars, view, result, reply, coins>>
Asked(o, p) == Begins(o, p) /\ UNCHANGED <<tx, blockVars>>

AskTransaction ==
    \E x \in Txs \cup {Unknown}, n \in {"tx", "receipt"} :
        /\ Begins([name |-> n], IF n = "tx" THEN "gettransaction" ELSE "receipt")
        /\ tx' = [tx EXCEPT !["main"] = x] /\ UNCHANGED blockVars

NumberOp(o, n) == Asked(o, IF n = Latest THEN "latest" ELSE "hash")
HashOp(o, h) ==
    /\ Begins(o, "header") /\ UNCHANGED <<tx, chans, waiter>>
    /\ block' = [block EXCEPT !["main"].hash = h]

AskBlockByNumber ==
    \E n \in BlockParams, full \in BOOLEAN :
        NumberOp([name |-> "getBlockByNumber", asked |-> n, number |-> n, full |-> full], n)

AskByIndex ==
    \E i \in Indexes :
        \/ \E n \in BlockParams :
             NumberOp([name |-> "byIndex", asked |-> n, number |-> n, index |-> i, prefixed |-> FALSE], n)
        \/ \E h \in Hashes, prefixed \in BOOLEAN :
             HashOp([name |-> "byIndex", asked |-> h, index |-> i, prefixed |-> prefixed], h)

\* The second goroutine is started when the database is configured.
AskBlockByHash ==
    \E h \in Hashes, full \in BOOLEAN, configured \in BOOLEAN :
        /\ op = NoOp /\ op' = [name |-> "getBlockByHash", hash |-> h, full |-> full]
        /\ pc' = [main |-> "header", backup |-> IF configured THEN "lookup" ELSE "idle"]
        /\ block' = [block EXCEPT !["main"].hash = h]
        /\ chans' = [chans EXCEPT !.backupError = ~configured]
        /\ waiter' = "first"
        /\ UNCHANGED <<nodeVars, tx, view, result, reply, coins>>

AskLogs ==
    \E from \in BlockParams, to \in BlockParams, f \in Filters :
        Asked([name |-> "logs", from |-> from, to |-> to, filter |-> f], "from")

AskAccount ==
    \E a \in {"contract", "plain", "invalid"} :
        \/ Asked([name |-> "balance", account |-> a], "accountinfo")
        \/ Asked([name |-> "code", account |-> a], "getcode")
        \/ \E over \in BOOLEAN :
             Asked([name |-> "call", account |-> a, overCap |-> over], "callcontract")
        \/ Asked([name |-> "estimateGas", account |-> a], "callcontract")
        \/ \E n \in BlockParams :
             Asked([name |-> "storage", account |-> a, number |-> n],
                   IF n = Latest THEN "storagelatest" ELSE "getstorage")

AskNumber == Asked([name |-> "blockNumber", retries |-> 0], "count")

AskPayment ==
    \E p \in Payments_ : Asked(p, IF p.name = "sign" THEN "utxos" ELSE "send")

AskRaw ==
    \/ \E known, witness \in BOOLEAN :
         Asked([name |-> "sendRaw", known |-> known, witness |-> witness], "sendraw")
    \/ \E n \in 0..1 : Asked([name |-> "generate", number |-> n], "generate")
    \/ \E min \in 0..3, immature \in BOOLEAN :
         Asked([name |-> "utxos", min |-> min, immature |-> immature], "listcoins")

Ask ==
    \/ AskTransaction \/ AskBlockByNumber \/ AskByIndex \/ AskBlockByHash \/ AskLogs
    \/ AskAccount \/ AskNumber \/ AskPayment \/ AskRaw
-----------------------------------------------------------------------------
(* Answers                                                                   *)

Info(s) == ExtractContractInfo(s.scripts)

\* Coins are made in coinbases only, and a contract's script is in contracts'
\* transactions only.
Fits(s, r) ==
    /\ Info(s).contract = (r.tx \in Contracts)
    /\ r.tx \in Contracts => Info(s).sender = (r.sender = "script")
    /\ IF r.tx \in Coinbases THEN Total(s.ins) = 0 ELSE Total(s.ins) >= Total(s.outs)

Value(r, s) ==
    IF r.path = "reward" /\ r.place # Pending THEN RewardValue(s.ins, s.outs)
    ELSE WalletValue(s.outs)

WithAmounts(r, s) ==
    LET more == [shape |-> s, value |-> Value(r, s), gas |-> Info(s).gas, gasPrice |-> Info(s).gasPrice]
    IN  [f \in DOMAIN r \cup DOMAIN more |-> IF f \in DOMAIN r THEN r[f] ELSE more[f]]

AnswerTransaction ==
    /\ pc["main"] = "returned" /\ op.name \in {"tx", "receipt"}
    /\ LET r == result["main"] IN
       IF op.name = "tx" /\ r.kind = "tx"
       THEN \E s \in {z \in Shapes : Fits(z, r)} :
              Replies(WithAmounts(r, s))
       ELSE Replies(r)
    /\ GoTo("main", "idle")
    /\ UNCHANGED <<nodeVars, txVars, blockVars, coins>>

\* The answer is sent; what expires in the cache until the next call begins
\* expires now.
Finish ==
    /\ reply # NoReplyYet
    /\ reply' = NoReplyYet /\ op' = NoOp
    /\ tips' = {tip} /\ failures' = 0
    /\ tx' = [t \in Threads |-> Unknown] /\ pc' = [t \in Threads |-> "idle"]
    /\ view' = [t \in Threads |-> NoView] /\ result' = [t \in Threads |-> NoResult]
    /\ block' = [t \in Threads |-> NoBlock] /\ chans' = NoChans /\ waiter' = "none"
    /\ coins' = <<>>
    /\ \E keep \in {k \in SUBSET Txs : Cardinality(k) <= MaxCached} :
         rawCache' = [x \in Txs |-> IF x \in keep THEN rawCache[x] ELSE Absent]
    /\ UNCHANGED tip

Translate ==
    /\ UNCHANGED coins
    /\ \/ \E t \in Threads :
            \/ TransactionStep(t) /\ UNCHANGED <<blockVars, reply>>
            \/ BlockStep(t)
       \/ LookUp \/ Receive \/ GetLogsStep \/ QueryStep

\* What changes between two calls is taken to change at the end of the first.
NodeChanges ==
    /\ op # NoOp /\ reply = NoReplyYet
    /\ Move \/ Expire
    /\ UNCHANGED <<txVars, pc, blockVars, reply, coins>>

Next == Ask \/ Translate \/ PaymentStep \/ AnswerTransaction \/ Finish \/ NodeChanges

Spec == Init /\ [][Next]_vars
-----------------------------------------------------------------------------
(* Properties                                                                *)

TxAnswers ==
    IF reply.kind = "tx" THEN {reply}
    ELSE IF reply.kind = "block" /\ Full THEN Range(reply.txs) ELSE {}

\* The fields of an answered transaction were read at different times, and yet
\* fit together: it is in the block that is named, at the height and the
\* position that are named, and the block was its place at some time of the
\* call. A cached answer may be outdated, and the second look of
\* getRewardTransactionByHash knows no position.
PlacesAreTrue ==
    \A r \in TxAnswers : r.place \in Blocks =>
        /\ r.tx \in Range(body[r.place])
        /\ r.number = height[r.place]
        /\ r.index = Index(r.tx, r.place) \/ r.path = "raw"
        /\ r.place \in {Place(r.tx, t) : t \in tips} \/ r.outdated

\* eth_getBlockBy... with full transactions: none is lost but the coinbase of
\* the genesis block, whatever fails or moves; and with a chain that stands
\* still, a node that answers and no outdated answer in the cache, each one
\* names the block it is listed in and its position there.
FullBlockAgrees ==
    (reply.kind = "block" /\ Full) =>
        LET b == reply.hash
            quiet == tips = {tip} /\ failures = 0 /\ b \in branch[tip]
        IN  /\ Len(reply.txs) = IF b = Genesis THEN 0 ELSE Len(body[b])
            /\ \A i \in DOMAIN reply.txs : LET r == reply.txs[i] IN
                 /\ r.tx = body[b][i]
                 /\ quiet /\ ~r.outdated => r.place = b /\ r.number = reply.number /\ r.index = i - 1

\* Blocks that a number could mean at some time of the call.
Meant(n) == {b \in SeenBlocks : height[b] = n}

\* eth_getBlockByNumber, eth_getTransactionByBlock...AndIndex: the answer is the
\* block of that height on a branch that was active, or its transaction at that
\* position, although number, hash and contents are asked for one by one. The
\* tip may become a lower one between two answers; only then is there no latest
\* block, or one the node never had for its tip at that height. Nothing but an
\* index that is no int makes the handler panic.
BlockAsAsked ==
    /\ (op.name = "getBlockByNumber" /\ reply.kind = "block") =>
         /\ reply.number = height[reply.hash]
         /\ reply.hash \in Meant(op.number)
         /\ op.asked = Latest => op.number \in {height[t] : t \in tips}
    /\ (op.name = "getBlockByNumber" /\ reply.kind = "null") =>
         \E t \in tips : height[t] < op.number
    /\ (op.name = "byIndex" /\ op.asked \notin Hashes /\ reply.kind = "tx") =>
         \E b \in Meant(op.number) : op.index < Len(body[b]) /\ reply.tx = body[b][op.index + 1]
    /\ (op.name = "byIndex" /\ op.asked \in Blocks /\ reply.kind = "tx") =>
         reply.tx = body[op.asked][op.index + 1]
    /\ (op.name = "byIndex" /\ reply.kind = "panic") => op.index > MaxInt

\* A transaction is answered with null only when the node did not know it at
\* some time of the call, and never one of the wallet; a receipt only when there
\* was none or a call failed. What a contract did is left out of its receipt
\* only after a failure, a change of the chain or an outdated answer.
NullMeansUnknown ==
    LET x == tx["main"]
        quiet == failures = 0 /\ tips = {tip}
    IN  /\ (op.name = "tx" /\ reply.kind = "null") =>
             x \notin Wallet /\ \E t \in tips : Place(x, t) = Unknown
        /\ (op.name = "receipt" /\ reply.kind = "null" /\ failures = 0 /\ x \in Contracts) =>
             \E t \in tips : Place(x, t) \notin Blocks
        /\ (op.name = "receipt" /\ reply.kind = "tx" /\ x \in Contracts /\ quiet) =>
             reply.sender = "receipt" \/ reply.outdated

LogPositions == UNION {DOMAIN logsOf[x] : x \in Contracts}
LogsAt(x, I) == ElementsAt([i \in DOMAIN logsOf[x] |-> i], I)
AnsweredLogs == op.name = "logs" /\ reply.kind = "logs"

\* eth_getLogs: of the transactions in the range every log that the filter
\* selects is answered, although the node returns whole transactions and may
\* leave out or return those in which it selects none; no log twice, those of a
\* transaction together and all in the order of the chain. An answered log is of
\* one of the addresses and, if it has the positions of the filter, is selected;
\* with a filter two logs of a transaction are numbered as far apart as they are.
LogsAreExact ==
    AnsweredLogs =>
        \E kept \in [Range(reply.all) -> SUBSET LogPositions] :
          /\ [k \in DOMAIN reply.logs |-> <<reply.logs[k].tx, reply.logs[k].log>>]
               = FlattenSeq([k \in DOMAIN reply.all |->
                   LET x == reply.all[k]
                       there == LogsAt(x, kept[x])
                   IN  [j \in DOMAIN there |-> <<x, there[j]>>]])
          /\ \A x \in Range(reply.all) : \A i \in DOMAIN logsOf[x] :
               LET log == logsOf[x][i]
                   whole == DOMAIN op.filter.topics \subseteq DOMAIN log.topics
               IN  /\ Selects(op.filter, log) => i \in kept[x]
                   /\ i \in kept[x] /\ whole => Selects(op.filter, log)
                   /\ i \in kept[x] => op.filter.addresses = {} \/ log.address \in op.filter.addresses
          /\ Unfiltered(op.filter) \/ \A k, l \in DOMAIN reply.logs :
               reply.logs[k].tx = reply.logs[l].tx =>
                 reply.logs[k].index - reply.logs[l].index = reply.logs[k].log - reply.logs[l].log

\* TranslateTopics: "[null, B] anything in first position AND B in second
\* position (and anything after)", so what is answered has the topics.
TopicsAsDocumented ==
    AnsweredLogs => \A k \in DOMAIN reply.logs :
        Selects(op.filter, logsOf[reply.logs[k].tx][reply.logs[k].log])

LogsBefore(x, b) ==
    LET earlier == {i \in 1..Index(x, b) : body[b][i] \in Contracts}
    IN  FoldFunctionOnSet(LAMBDA n, sum : n + sum, 0, [i \in earlier |-> Len(logsOf[body[b][i]])], earlier)

\* Log: logIndex is the "integer of the log index position in the block", a
\* block that was active during the call.
LogIndexes ==
    AnsweredLogs => \A k \in DOMAIN reply.logs : LET u == reply.logs[k] IN
        \E b \in SeenBlocks :
            u.tx \in Range(body[b]) /\ u.index = LogsBefore(u.tx, b) + u.log - 1

\* What eth_getLogs answers is what the code's own documentation says of topics
\* and of log positions.
LogsAsDocumented == TopicsAsDocumented /\ LogIndexes

\* Bytes of a script, the lowest first.
LittleEndian(digits) == FoldRight(LAMBDA d, n : n * Base + d, digits, 0)

\* The value of a transaction is never more than what went through it, though
\* the fee taken off may exceed what was sent and the difference be negative;
\* and the gas limit is what the first contract script says.
AmountsAreTrue ==
    (op.name = "tx" /\ reply.kind = "tx") =>
        LET s == reply.shape
        IN  /\ reply.value >= 0
            /\ \E through \in {Total(s.ins), Total(s.outs)} : reply.value <= through * WeiPerSatoshi
            /\ reply.gas # 0 => \E i \in DOMAIN s.scripts :
                 /\ s.scripts[i].op # "other" /\ \A j \in 1..(i - 1) : s.scripts[j].op = "other"
                 /\ reply.gas = LittleEndian(s.scripts[i].limit)

Cost ==
    LET price == op.gasPrice \div WeiPerTenth
    IN  (IF Kind # "create" /\ op.value THEN op.wei \div WeiPerTenth ELSE 0)
        + (IF Kind = "send" THEN 0 ELSE op.gas * (IF price < MinimumGas THEN MinimumGas ELSE price))

Suffices(c) == Total(c) * TenthsPerSatoshi >= Cost

Exact(c) == Suffices(c) /\ (Len(c) > 1 => ~Suffices(SubSeq(c, 1, Len(c) - 1)))

\* eth_signTransaction spends enough for what is sent and the gas, and not an
\* output more than it takes, though coins, transaction and signature are three
\* calls; revo_getUTXOs answers with mature outputs that reach the minimum, and
\* panics only when the tip moved down under it.
CoinsSuffice ==
    /\ op.name = "sign" /\ reply.kind = "signed" => Exact(reply.inputs)
    /\ op.name = "utxos" /\ reply.kind = "utxos" /\ op.min > 0 => reply.safe >= op.min
    /\ op.name = "utxos" /\ reply.kind = "panic" => tips # {tip}

\* eth_getBlockByHash: once both goroutines have ended the handler has something
\* to receive, except when the second found nothing first and the first failed
\* after it: then nobody reads its error.
HashCallReturns ==
    (waiter # "none" /\ \A t \in Threads : pc[t] = "idle") =>
        \/ chans.result # <<>>
        \/ waiter = "first" /\ chans.error
        \/ waiter # "first" /\ chans.backupError
        \/ waiter = "afterNull" /\ chans.error

\* eth_getBlockByHash answers that there is no such block only when neither
\* goroutine may still find it.
NullAfterBoth ==
    [][(waiter # "none" /\ waiter' = "none" /\ reply'.kind = "null") =>
         \A t \in Threads : pc[t] = "idle"]_vars
=============================================================================
