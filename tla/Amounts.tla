-------------------------------- MODULE Amounts --------------------------------
(***************************************************************************)
(* How amounts and contract scripts are read and written: the value of a   *)
(* transaction that is not the wallet's, the contract call in an output    *)
(* script, the amounts of a transaction to be signed. An amount of REVO is *)
(* counted in tenths of a satoshi, the precision the code keeps.           *)
(***************************************************************************)
EXTENDS Integers, Sequences, SequencesExt

CONSTANTS
    TenthsPerSatoshi, \* 10
    SatoshiPerRevo,   \* 10^8
    WeiPerTenth,      \* 10^9
    Word,             \* 2^64
    Base,             \* 256, the values of a byte of a script
    MinimumGas,       \* the least gas price, 400 tenths
    NoAddress         \* an input or output without an address

ASSUME AmountsAssumption ==
    {TenthsPerSatoshi, SatoshiPerRevo, WeiPerTenth, Word, Base, MinimumGas} \subseteq Nat \ {0}

TenthsPerRevo == TenthsPerSatoshi * SatoshiPerRevo
WeiPerSatoshi == TenthsPerSatoshi * WeiPerTenth

\* The amounts at some indices of a list, and all of them.
SumAt(coins, I) == FoldFunctionOnSet(LAMBDA c, sum : c.amount + sum, 0, coins, I)
Total(coins) == SumAt(coins, DOMAIN coins)

\* Mutant: a negative amount wraps around.
Uint64_Wraps(n) == n % Word

\* Uint64 of a big.Int keeps the lowest 64 bits of its absolute value.
Uint64(n) == (IF n < 0 THEN -n ELSE n) % Word
-----------------------------------------------------------------------------
(* getRewardTransactionByHash: coins are records of an address and an amount *)
(* in satoshi; what goes back to the address of the first input is change.   *)

sentTo(ins, outs) ==
    LET from == IF ins = <<>> THEN NoAddress ELSE ins[1].address
        named == {i \in DOMAIN outs : outs[i].address # NoAddress}
        change == {i \in named : outs[i].address = from}
        others == named \ change
        toFirst == SumAt(outs, {i \in others : outs[i].address = outs[Min(others)].address})
        refund == SumAt(outs, change)
        sent == Total(outs) - refund
        fee == IF Total(ins) > Total(outs) THEN Total(ins) - Total(outs) ELSE 0
    IN  IF refund = 0 /\ sent # 0 THEN toFirst - fee ELSE toFirst

\* With fewer than two outputs the value stays zero.
RewardValue(ins, outs) ==
    IF Len(outs) < 2 THEN 0 ELSE Uint64(sentTo(ins, outs) * WeiPerSatoshi)

\* CalcAmount and formatRevoAmount: any other transaction is worth all its
\* outputs, the change too.
WalletValue(outs) == Total(outs) * WeiPerSatoshi
-----------------------------------------------------------------------------
(* ExtractContractInfo: a script is a record of its last operation, whether  *)
(* it has the number of parts that operation needs, whether it has an        *)
(* OP_SENDER, and its gas limit and price, lowest byte first.                *)

Number(digits) == FoldLeft(LAMBDA n, d : n * Base + d, 0, digits)
convertToBigEndian(digits) == Reverse(digits)

NotAContract == [contract |-> FALSE, sender |-> FALSE, gas |-> 0, gasPrice |-> 0]

\* ParseCallASM, ParseCreateASM and those with an OP_SENDER. The gas price is
\* taken as it is, and trimmed of zeros.
ParsedScript(s) ==
    IF ~s.complete THEN NotAContract
    ELSE [contract |-> TRUE, sender |-> s.sender, gas |-> Number(convertToBigEndian(s.limit)),
          gasPrice |-> Number(s.price) * WeiPerSatoshi]

\* The first output that is a contract's decides. OP_SPEND is a contract
\* transaction of which nothing is read.
ExtractContractInfo(scripts) ==
    LET special == {i \in DOMAIN scripts : scripts[i].op # "other"}
    IN  IF special = {} THEN NotAContract
        ELSE LET s == scripts[Min(special)] IN
             IF s.op = "OP_SPEND" THEN [NotAContract EXCEPT !.contract = TRUE]
             ELSE IF s.op = "undecodable" THEN NotAContract ELSE ParsedScript(s)
-----------------------------------------------------------------------------
(* eth_signTransaction                                                       *)

\* Precision below a tenth of a satoshi is dropped.
EthDecimalValueToRevoAmount(wei) == wei \div WeiPerTenth

EthGasToRevo(price) ==
    LET p == EthDecimalValueToRevoAmount(price) IN IF p < MinimumGas THEN MinimumGas ELSE p

calculateNeededAmount(value, gasLimit, gasPrice) == value + gasLimit * gasPrice

\* Mutant: the amount in REVO is not converted to satoshi.
Reaches_Unconverted(sum, needed) == sum * TenthsPerRevo >= needed

Reaches(sum, needed) == sum * TenthsPerSatoshi >= needed

\* getRequiredUtxos: the first outputs that reach the amount, or none.
getRequiredUtxos(utxos, needed) ==
    LET enough == {n \in 1..Len(utxos) :
                     Reaches(Total(SubSeq(utxos, 1, n)), needed)}
    IN  IF enough = {} THEN <<>>
        ELSE SubSeq(utxos, 1, CHOOSE n \in enough : \A k \in enough : n <= k)

\* calculateChange: the balance is a number of satoshi, the amount a number of
\* REVO, and the difference is sent as REVO.
calculateChange(balance, needed) == balance * TenthsPerRevo - needed
=============================================================================
