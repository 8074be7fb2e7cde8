------------------------------ MODULE MCScript ------------------------------
(***************************************************************************)
(* Families of small programs for Script: every nest of conditionals,      *)
(* every pair of stack operations on every depth, every pair of short      *)
(* numbers, orders of signatures, script hashes and changed transactions.  *)
(***************************************************************************)
EXTENDS Script

Op(code) == [code |-> code, data |-> Empty]
PushOp(item) == [code |-> "special", data |-> item]
Ops(codes) == [i \in DOMAIN codes |-> Op(codes[i])]
Pushes(items) == [i \in DOMAIN items |-> PushOp(items[i])]
UpTo(S, n) == UNION { [1..k -> S] : k \in 0..n }

In(i) == [prev |-> i, sequence |-> 1]
Tx == [inputs |-> <<In("a"), In("b")>>,
       outputs |-> <<[value |-> 1, script |-> "x"], [value |-> 2, script |-> "y"]>>]
Case(input, output, bip16) ==
    [input |-> input, output |-> output, bip16 |-> bip16, tx |-> Tx, index |-> 1,
     signed |-> <<>>]
Plain(input, output) == Case(input, output, FALSE)

Conditionals ==
    { Plain(Ops(input), Ops(output)) :
        input \in {<<"zero", "op_1">>, <<"op_1", "op_1">>, <<"op_1", "zero">>},
        output \in [1..5 -> {"if_", "notif", "else_", "endif", "op_1"}] }

\* Limits and operations that fail although skipped.
Limits ==
    { Plain(<<Op("zero")>>, Ops(<<"if_", code, "endif", "op_1">>)) :
        code \in {"verif", "mul", "return_", "op_2drop", "codeseparator"} }
    \cup { Plain(<<>>, [i \in 1..n |-> Op(IF i = 1 THEN "op_1" ELSE "nop")]) :
            n \in {MaxOps + 1, MaxOps + 2} }
    \cup { Plain(<<PushOp(<<"blob", n>>)>>, Ops(<<"size">>)) :
            n \in {MaxItem, MaxItem + 1} }
    \cup { Plain(Pushes([i \in 1..n |-> <<"blob", MaxItem>>]), <<>>) : n \in {3, 4} }
    \cup { Plain(Ops(<<"op_1", "if_">>), Ops(<<"op_1">>)) }

StackCodes == DOMAIN DoubleItems \cup DOMAIN SingleItems
    \cup {"pick", "roll", "op_1", "negative_1", "zero", "toaltstack", "fromaltstack"}
Stacks ==
    { Plain(Ops(SubSeq(OpX, 1, n)), Ops(output)) :
        n \in 0..7, output \in [1..2 -> StackCodes] }
    \cup { Plain(Ops(<<"op_1", "zero", "op_3">>), Ops(<<n, code, other>>)) :
            n \in {"zero", "op_1", "negative_1", "op_2", "op_3"},
            code \in {"pick", "roll"}, other \in {"ifdup", "verify", "depth"} }

Bytes == UpTo(0..(Radix - 1), NumberBytes) \cup {<<1, 0, 0>>, <<0, 0, Radix \div 2>>}
Numbers == { <<"bytes", b>> : b \in Bytes }
Arithmetic ==
    { Plain(Pushes(<<a, b>>), Ops(<<code>>)) :
        a \in Numbers, b \in Numbers, code \in {"add", "sub", "min"} }
    \cup { Plain(Pushes(<<Data(i), Data(j)>>), Ops(<<code>>)) :
            i \in -2..2, j \in -2..2,
            code \in BinaryCodes \cup {"numequalverify", "equal", "equalverify"} }
    \cup { Plain(Pushes(<<a>>), Ops(<<code, second>>)) :
            a \in Numbers, code \in UnaryCodes, second \in {"op_1add", "not_"} }
    \cup { Plain(Pushes([i \in 1..n |-> Data(f[i])]), Ops(<<"within">>)) :
            n \in 2..3, f \in [1..3 -> -1..1] }

Key(k) == <<"key", k>>
All == [kind |-> "all", alone |-> FALSE]
Sign(k, code) == <<"sig", k, All, SigHash(Tx, 1, code, All)>>

MultisigOutput(need, keys, code) ==
    <<Op(need)>> \o Pushes([i \in DOMAIN keys |-> Key(keys[i])])
        \o <<Op((<<"zero">> \o OpX)[Len(keys) + 1]), Op(code)>>
Multisigs ==
    UNION { LET output == MultisigOutput(need, keys, code)
            IN  { Plain(Pushes([i \in DOMAIN by |-> Sign(by[i], output)]), output) :
                    by \in UpTo({"k1", "k2", "k3"}, 3) } :
            need \in {"zero", "op_1", "op_2", "op_3"},
            keys \in {<<>>, <<"k1", "k2">>, <<"k3", "k1", "k2">>},
            code \in {"checkmultisig", "checkmultisigverify"} }

RedeemNames == {"two", "owner"}
MCRedeem == [two |-> Ops(<<"op_2", "equal">>),
             owner |-> <<PushOp(Key("k1")), Op("checksig")>>]
ScriptHash(item) == <<Op("hash160"), PushOp(<<"hash", "hash160", item>>), Op("equal")>>
ScriptHashes ==
    { Case(prefix \o <<PushOp(argument), PushOp(<<"script", shown>>)>>,
           ScriptHash(<<"script", paid>>), bip16) :
        prefix \in {<<>>, <<Op("nop")>>},
        argument \in {Data(2), Data(3), Sign("k1", MCRedeem["owner"]),
                      Sign("k2", MCRedeem["owner"])},
        shown \in RedeemNames, paid \in RedeemNames, bip16 \in BOOLEAN }

\* Payments to a key and to its hash, signed for Tx and shown in another.
Types == [kind : {"all", "none", "single"}, alone : BOOLEAN]
Shown ==
    { [Tx EXCEPT !.inputs = i, !.outputs = o] :
        i \in {Tx.inputs, <<In("a"), In("c")>>, <<In("b"), In("a")>>, <<In("a")>>,
               <<In("a"), [In("b") EXCEPT !.sequence = 2]>>,
               <<[In("a") EXCEPT !.sequence = 2], In("b")>>},
        o \in {Tx.outputs, <<Tx.outputs[1]>>, <<Tx.outputs[2], Tx.outputs[1]>>,
               <<[Tx.outputs[1] EXCEPT !.value = 3], Tx.outputs[2]>>} }
KeyOutput == <<PushOp(Key("k1")), Op("checksig")>>
KeyHashOutput ==
    <<Op("dup"), Op("hash160"), PushOp(<<"hash", "hash160", Key("k1")>>),
      Op("equalverify"), Op("checksig")>>
Payments ==
    { [input |-> Pushes(<<(<<"sig", "k1", type, SigHash(Tx, index, KeyOutput, type)>>)>>),
       output |-> KeyOutput, bip16 |-> TRUE, tx |-> tx, index |-> shown,
       signed |-> <<[tx |-> Tx, index |-> index, type |-> type]>>] :
        type \in Types, index \in 1..2, tx \in Shown, shown \in 1..2 }
    \cup { Case(Pushes(items), KeyHashOutput, TRUE) :
            items \in UpTo({Key("k1"), Key("k2"), Sign("k1", KeyHashOutput),
                            Sign("k2", KeyHashOutput), Sign("k1", KeyOutput), Empty}, 2) }
    \cup { Plain(Pushes(<<sig>>), separator \o KeyOutput) :
            separator \in {<<Op("codeseparator")>>, <<Op("nop"), Op("codeseparator")>>},
            sig \in {Sign("k1", KeyOutput), Sign("k1", <<Op("nop")>> \o KeyOutput)} }

MCSpends == Conditionals \cup Limits \cup Stacks \cup Arithmetic \cup Multisigs
    \cup ScriptHashes \cup Payments
=============================================================================
