------------------------------- MODULE Script -------------------------------
(***************************************************************************)
(* script.cpp: the interpreter that decides whether an input may spend an  *)
(* output.  One action executes one operation.  The input script runs on   *)
(* an empty stack, the output script on the stack it leaves, and for a     *)
(* script hash output the script in the last item of the input's stack     *)
(* runs on the rest of it.                                                 *)
(*                                                                         *)
(* A stack item is a tagged tuple: <<"bytes", b>> with bytes below Radix,  *)
(* <<"blob", n>> for n bytes nothing is computed from, <<"hash", f, item>> *)
(* for what a hash function returns, <<"key", k>>, <<"sig", k, t, d>> for  *)
(* key k's signature of digest d under hash type t, and <<"script", s>>    *)
(* for the saved form of Redeem[s].  Hash functions are injective and      *)
(* signatures cannot be forged.  Reading below the bottom of a stack is    *)
(* undefined behaviour: the run ends as "undefined" and nothing is claimed *)
(* of it.                                                                  *)
(***************************************************************************)
EXTENDS Integers, Sequences, FiniteSets, SequencesExt

CONSTANTS
    Spends,      \* records [input, output, bip16, tx, index, signed]: two
                 \* programs, is bip16 on, the transaction and the input that
                 \* spend, and what the signatures in them were made for
    Redeem,      \* name -> program that a "script" item parses to
    Radix,       \* values of a byte (256)
    NumberBytes, \* bytes of an arithmetic operand (4)
    MaxItem,     \* bytes an operation may push (520)
    MaxStack,    \* items on both stacks (1000)
    MaxOps,      \* operations of a script that do not push (201)
    MaxSize      \* bytes of a script (10000)

Big == INSTANCE BlockRules WITH Dense <- 10, Subsidy <- 50, Halving <- 210000

VARIABLES
    spend,     \* the spend being judged
    phase,     \* the script that runs: "input", "output" or "eval"
    pc,        \* the next operation, 0 before run's own checks
    m,         \* the machine [status, stack, alt, cond, begin]
    saved,     \* the stack the input script left
    verdict,   \* "none", "accept", "reject" or "undefined"
    executed,  \* positions of the current script that took effect
    tested     \* position of an if_ or notif -> the value it popped

vars == <<spend, phase, pc, m, saved, verdict, executed, tested>>

-----------------------------------------------------------------------------
\* Data

Empty == <<"bytes", <<>> >>
True == <<"bytes", <<1>> >>
Flag(b) == IF b THEN True ELSE Empty
Abs(n) == IF n < 0 THEN -n ELSE n

\* big_number::data: minimal, little endian, the sign in the last byte.
Data(n) ==
    LET mpi == Big!BnToMpi(Abs(n))
    IN  <<"bytes", Reverse(IF n < 0 THEN [mpi EXCEPT ![1] = @ + Radix \div 2]
                                    ELSE mpi)>>

\* data_chunk::size; of a script only that it may be pushed.
Size(item) ==
    CASE item[1] = "bytes" -> Len(item[2])
      [] item[1] = "blob" -> item[2]
      [] item[1] = "hash" -> IF item[2] \in {"sha256", "hash256"} THEN 32 ELSE 20
      [] item[1] = "key" -> 33
      [] OTHER -> 72

\* cast_to_big_number: can it be read as a number, and which.
IsNumber(item) == item[1] = "bytes" /\ Size(item) <= NumberBytes
Number(item) == Big!MpiToBn(Reverse(item[2]))

\* cast_to_bool: some byte is not zero, other than the sign of negative zero.
CastToBool(item) ==
    item[1] = "bytes" =>
        \E i \in DOMAIN item[2] :
            /\ item[2][i] # 0
            /\ i = Len(item[2]) => item[2][i] # Radix \div 2

-----------------------------------------------------------------------------
\* Programs: sequences of operations [code, data]; an operation that pushes no
\* data of its own has Empty.

OpX == <<"op_1", "op_2", "op_3", "op_4", "op_5", "op_6", "op_7", "op_8", "op_9",
         "op_10", "op_11", "op_12", "op_13", "op_14", "op_15", "op_16">>
PushData == {"special", "pushdata1", "pushdata2", "pushdata4"}

IsPush(code) == code \in PushData \cup Range(OpX) \cup {"zero", "negative_1"}
CountNonPush(program) == Len(SelectSeq(program, LAMBDA op : ~ IsPush(op.code)))
IsPushOnly(program) == CountNonPush(program) = 0

OpSize(op) ==
    Size(op.data) + (CASE op.code = "pushdata1" -> 2 [] op.code = "pushdata2" -> 3
                       [] op.code = "pushdata4" -> 5 [] OTHER -> 1)
ScriptSize(program) == FoldLeft(LAMBDA sum, op : sum + OpSize(op), 0, program)

\* type()
Codes(program) == [i \in DOMAIN program |-> program[i].code]
IsPubkey(program) == Codes(program) = <<"special", "checksig">>
IsPubkeyHash(program) ==
    /\ Codes(program) = <<"dup", "hash160", "special", "equalverify", "checksig">>
    /\ Size(program[3].data) = 20
IsScriptHash(program) ==
    /\ Codes(program) = <<"hash160", "special", "equal">>
    /\ Size(program[2].data) = 20

Disabled ==
    {"cat", "substr", "left", "right", "invert", "and_", "or_", "xor_", "op_2mul",
     "op_2div", "mul", "div", "mod", "lshift", "rshift", "verif", "vernotif"}

\* parse_script of the item, for the items that are offered as scripts.
Parsed(item) == IF item[1] = "script" THEN Redeem[item[2]] ELSE <<>>

Program ==
    CASE phase = "input" -> spend.input
      [] phase = "output" -> spend.output
      [] phase = "eval" -> Parsed(Last(saved))

-----------------------------------------------------------------------------
\* The machine.

Fail(s) == [s EXCEPT !.status = "fail"]
Undefined(s) == [s EXCEPT !.status = "undefined"]
With(s, stack) == [s EXCEPT !.stack = stack]
Push(s, item) == With(s, Append(s.stack, item))

Top(stack, k) == stack[Len(stack) - k + 1]
Pop(stack, k) == SubSeq(stack, 1, Len(stack) - k)
StackSwap(stack, i, j) ==
    [stack EXCEPT ![Len(stack) - i + 1] = Top(stack, j),
                  ![Len(stack) - j + 1] = Top(stack, i)]

HasFailedBranches(s) == FALSE \in Range(s.cond)

\* if_, and notif, which inverts what if_ opens; under a failed branch neither
\* pops.
OpIf(s, invert) ==
    IF HasFailedBranches(s) THEN [s EXCEPT !.cond = Append(@, invert)]
    ELSE IF s.stack = <<>> THEN Fail(s)
    ELSE [s EXCEPT !.stack = Pop(@, 1),
                   !.cond = Append(@, CastToBool(Top(s.stack, 1)) # invert)]

OpElseFault(s) ==
    IF s.cond = <<>> THEN Fail(s) ELSE [s EXCEPT !.cond = Append(Front(@), FALSE)]

OpElse(s) ==
    IF s.cond = <<>> THEN Fail(s) ELSE [s EXCEPT !.cond = Append(Front(@), ~ Last(@))]

OpEndif(s) == IF s.cond = <<>> THEN Fail(s) ELSE [s EXCEPT !.cond = Front(@)]

OpVerify(s) ==
    IF s.stack = <<>> \/ ~ CastToBool(Top(s.stack, 1)) THEN Fail(s)
    ELSE With(s, Pop(s.stack, 1))

OpToAltStack(s) ==
    IF s.stack = <<>> THEN Fail(s)
    ELSE [s EXCEPT !.stack = Pop(@, 1), !.alt = Append(@, Top(s.stack, 1))]

OpFromAltStack(s) ==
    IF s.alt = <<>> THEN Fail(s)
    ELSE [s EXCEPT !.alt = Front(@), !.stack = Append(@, Last(s.alt))]

-----------------------------------------------------------------------------
\* Stack operations, and how many items each needs.

DoubleItems == ("op_2drop" :> 2) @@ ("op_2dup" :> 2) @@ ("op_3dup" :> 3)
    @@ ("op_2over" :> 4) @@ ("op_2rot" :> 6) @@ ("op_2swap" :> 4)
SingleItems == ("ifdup" :> 1) @@ ("drop" :> 1) @@ ("dup" :> 1) @@ ("nip" :> 2)
    @@ ("over" :> 2) @@ ("rot" :> 3) @@ ("swap" :> 2) @@ ("tuck" :> 2)

CopyItemOver(stack, k) == Append(stack, Top(stack, k))

DoubleOp(code, stack) ==
    LET n == Len(stack)
    IN  CASE code = "op_2drop" -> Pop(stack, 2)
          [] code = "op_2dup" -> stack \o <<Top(stack, 2), Top(stack, 1)>>
          [] code = "op_3dup" -> stack \o <<Top(stack, 3), Top(stack, 2), Top(stack, 1)>>
          [] code = "op_2over" -> CopyItemOver(CopyItemOver(stack, 4), 4)
          [] code = "op_2rot" -> Pop(stack, 6) \o SubSeq(stack, n - 3, n)
                                    \o <<Top(stack, 6), Top(stack, 5)>>
          [] code = "op_2swap" -> StackSwap(StackSwap(stack, 4, 2), 3, 1)

SingleOp(code, stack) ==
    CASE code = "ifdup" -> IF CastToBool(Top(stack, 1)) THEN CopyItemOver(stack, 1)
                           ELSE stack
      [] code = "drop" -> Pop(stack, 1)
      [] code = "dup" -> CopyItemOver(stack, 1)
      [] code = "nip" -> RemoveAt(stack, Len(stack) - 1)
      [] code = "over" -> CopyItemOver(stack, 2)
      [] code = "swap" -> StackSwap(stack, 2, 1)
      [] code = "tuck" -> InsertAt(stack, Len(stack) - 1, Top(stack, 1))
      [] code = "rot" -> StackSwap(StackSwap(stack, 3, 2), 2, 1)

\* The item n below the top.
SliceFault(stack, n) == n + 1
Slice(stack, n) == Len(stack) - n

\* pick and roll; uint32 reads the magnitude of the number.
PickRoll(s, isRoll) ==
    LET rest == Pop(s.stack, 1)
        n == Abs(Number(Top(s.stack, 1)))
        at == Slice(rest, n)
    IN  IF Len(s.stack) < 2 \/ ~ IsNumber(Top(s.stack, 1)) THEN Fail(s)
        ELSE IF n >= Len(rest) THEN Fail(s)
        ELSE With(s, Append(IF isRoll THEN RemoveAt(rest, at) ELSE rest, rest[at]))

\* equal and equalverify
OpEqual(s, verify) ==
    LET same == Top(s.stack, 1) = Top(s.stack, 2)
        rest == With(s, Pop(s.stack, 2))
    IN  CASE Len(s.stack) < 2 -> Fail(s)
          [] Len(s.stack) >= 2 /\ verify -> IF same THEN rest ELSE Fail(s)
          [] OTHER -> Push(rest, Flag(same))

-----------------------------------------------------------------------------
\* Arithmetic: operands are limited to NumberBytes, results are not.

Bit(b) == IF b THEN 1 ELSE 0

UnaryCodes == {"op_1add", "op_1sub", "negate", "abs", "not_", "op_0notequal"}
Unary(code, n) ==
    CASE code = "op_1add" -> n + 1
      [] code = "op_1sub" -> n - 1
      [] code = "negate" -> -n
      [] code = "abs" -> Abs(n)
      [] code = "not_" -> Bit(n = 0)
      [] code = "op_0notequal" -> Bit(n # 0)

OpUnary(s, code) ==
    IF s.stack = <<>> THEN Fail(s)
    ELSE IF ~ IsNumber(Top(s.stack, 1)) THEN Fail(s)
    ELSE Push(With(s, Pop(s.stack, 1)), Data(Unary(code, Number(Top(s.stack, 1)))))

BinaryCodes == {"add", "sub", "booland", "boolor", "numequal", "numnotequal",
    "lessthan", "greaterthan", "lessthanorequal", "greaterthanorequal", "min", "max"}
Binary(code, a, b) ==
    CASE code = "add" -> a + b
      [] code = "sub" -> a - b
      [] code = "booland" -> Bit(a # 0 /\ b # 0)
      [] code = "boolor" -> Bit(a # 0 \/ b # 0)
      [] code = "numequal" -> Bit(a = b)
      [] code = "numnotequal" -> Bit(a # b)
      [] code = "lessthan" -> Bit(a < b)
      [] code = "greaterthan" -> Bit(a > b)
      [] code = "lessthanorequal" -> Bit(a <= b)
      [] code = "greaterthanorequal" -> Bit(a >= b)
      [] code = "min" -> IF a < b THEN a ELSE b
      [] code = "max" -> IF a < b THEN b ELSE a

\* arithmetic_start
ArithmeticStarts(s) ==
    Len(s.stack) >= 2 /\ IsNumber(Top(s.stack, 1)) /\ IsNumber(Top(s.stack, 2))

OpBinary(s, code) ==
    IF ~ ArithmeticStarts(s) THEN Fail(s)
    ELSE Push(With(s, Pop(s.stack, 2)),
              Data(Binary(code, Number(Top(s.stack, 2)), Number(Top(s.stack, 1)))))

OpNumEqualVerify(s) ==
    IF ~ ArithmeticStarts(s) THEN Fail(s)
    ELSE IF Number(Top(s.stack, 2)) # Number(Top(s.stack, 1)) THEN Fail(s)
    ELSE With(s, Pop(s.stack, 2))

\* within pops three items and does not ask whether they are there.
OpWithin(s) ==
    LET held == Min({3, Len(s.stack)})
        n(k) == Number(Top(s.stack, k))
    IN  IF \E k \in 1..held : ~ IsNumber(Top(s.stack, k)) THEN Fail(s)
        ELSE IF held < 3 THEN Undefined(s)
        ELSE Push(With(s, Pop(s.stack, 3)), Flag(n(2) <= n(3) /\ n(3) < n(1)))

HashCodes == {"ripemd160", "sha1", "sha256", "hash160", "hash256"}
OpHash(s, code) ==
    IF s.stack = <<>> THEN Fail(s)
    ELSE Push(With(s, Pop(s.stack, 1)), <<"hash", code, Top(s.stack, 1)>>)

-----------------------------------------------------------------------------
\* Signatures.  A hash type is [kind, alone]: "all", "none" or "single", and
\* anyone_can_pay.

\* nullify_input_sequences
NullifySequences(inputs, except) ==
    [i \in DOMAIN inputs |-> IF i = except THEN inputs[i]
                             ELSE [inputs[i] EXCEPT !.sequence = 0]]

Blank == [value |-> "max", script |-> "none"]

\* The outputs that are hashed; "single" keeps the one of the input's index.
SignedOutputsFault(tx, index, type) ==
    CASE type.kind = "none" -> <<>>
      [] type.kind = "single" -> [i \in 1..index |-> Blank]
      [] OTHER -> tx.outputs

SignedOutputs(tx, index, type) ==
    CASE type.kind = "none" -> <<>>
      [] type.kind = "single" ->
            [i \in 1..index |-> IF i = index THEN tx.outputs[i] ELSE Blank]
      [] OTHER -> tx.outputs

\* generate_signature_hash: <<>> is null_hash, <<d>> the hash of what d shows.
SigHash(tx, index, code, type) ==
    LET blanked == [i \in DOMAIN tx.inputs |->
            [prev |-> tx.inputs[i].prev, sequence |-> tx.inputs[i].sequence,
             script |-> IF i = index THEN code ELSE <<>>]]
        inputs == IF type.kind = "all" THEN blanked ELSE NullifySequences(blanked, index)
    IN  IF index > Len(tx.inputs) \/ (type.kind = "single" /\ index > Len(tx.outputs))
        THEN <<>>
        ELSE << [inputs |-> IF type.alone THEN <<inputs[index]>> ELSE inputs,
                 outputs |-> SignedOutputs(tx, index, type), type |-> type] >>

\* What the signature of an operation commits to: the script from the last
\* codeseparator, without separators and without the signatures themselves.
ScriptCode(program, begin, signatures) ==
    SelectSeq(SubSeq(program, begin, Len(program)),
              LAMBDA op : op.code # "codeseparator" /\ op.data \notin signatures)

\* check_signature: taking the hash type off an empty signature is undefined.
CheckUndefined(sig, key) == key[1] = "key" /\ Size(sig) = 0
CheckSignature(sig, key, code) ==
    /\ key[1] = "key" /\ sig[1] = "sig" /\ sig[2] = key[2]
    /\ sig[4] # <<>> /\ sig[4] = SigHash(spend.tx, spend.index, code, sig[3])

\* A verifying operation returns [ok, s]; the one without verify pushes ok.
Verified(s, ok) == [ok |-> ok, s |-> s]
Checked(v, verify) ==
    CASE v.s.status = "undefined" -> v.s
      [] v.s.status # "undefined" /\ verify -> IF v.ok THEN v.s ELSE Fail(v.s)
      [] OTHER -> Push(v.s, Flag(v.ok))

OpCheckSigVerify(s, program) ==
    LET key == Top(s.stack, 1)
        sig == Top(s.stack, 2)
        rest == With(s, Pop(s.stack, 2))
    IN  IF Len(s.stack) < 2 THEN Verified(s, FALSE)
        ELSE IF CheckUndefined(sig, key) THEN Verified(Undefined(s), FALSE)
        ELSE Verified(rest, CheckSignature(sig, key, ScriptCode(program, s.begin, {sig})))

\* read_section: [ok, section, s]; the section in the order it is popped.
ReadSection(s) ==
    LET rest == Pop(s.stack, 1)
        count == Abs(Number(Top(s.stack, 1)))
    IN  IF s.stack = <<>> THEN [ok |-> FALSE, section |-> <<>>, s |-> s]
        ELSE IF ~ IsNumber(Top(s.stack, 1)) \/ Len(rest) < count
        THEN [ok |-> FALSE, section |-> <<>>, s |-> With(s, rest)]
        ELSE [ok |-> TRUE, section |-> [k \in 1..count |-> Top(rest, k)],
              s |-> With(s, Pop(rest, count))]

\* The keys the next signature is tried with.
Candidates(keys, current) == current..Len(keys)

\* The loop over the signatures: the key each one stops at, 0 when the keys run
\* out, -1 when an operation is undefined.  The next signature starts with the
\* key of the last.
MatchKeys(signatures, keys, code) ==
    LET Advance(current, sig) ==
            LET hits == { i \in Candidates(keys, current) :
                            CheckSignature(sig, keys[i], code) }
            IN  IF current <= 0 THEN current
                ELSE IF \E i \in current..Len(keys) : CheckUndefined(sig, keys[i])
                     THEN -1
                ELSE IF hits = {} THEN 0 ELSE Min(hits)
    IN  IF keys = <<>> /\ signatures # <<>> THEN -1
        ELSE FoldLeft(Advance, 1, signatures)

OpCheckMultisigVerify(s, program) ==
    LET keys == ReadSection(s)
        sigs == ReadSection(keys.s)
        code == ScriptCode(program, s.begin, Range(sigs.section))
        last == MatchKeys(sigs.section, keys.section, code)
    IN  IF ~ keys.ok THEN Verified(keys.s, FALSE)
        ELSE IF ~ sigs.ok THEN Verified(sigs.s, FALSE)
        ELSE IF last = -1 THEN Verified(Undefined(s), FALSE)
        ELSE Verified(sigs.s, last > 0)

-----------------------------------------------------------------------------
\* run_operation; what it does not name (reserved, ver, return_, raw_data and
\* bytes that are no operation) fails.

Nops == {"nop", "op_nop1", "op_nop2", "op_nop3", "op_nop4", "op_nop5", "op_nop6",
         "op_nop7", "op_nop8", "op_nop9", "op_nop10"}

RunFlow(s, code) ==
    CASE code = "negative_1" -> Push(s, Data(-1))
      [] code \in Range(OpX) -> Push(s, Data(CHOOSE n \in 1..16 : OpX[n] = code))
      [] code \in Nops -> s
      [] code = "if_" -> OpIf(s, FALSE)
      [] code = "notif" -> OpIf(s, TRUE)
      [] code = "else_" -> OpElse(s)
      [] code = "endif" -> OpEndif(s)
      [] code = "verify" -> OpVerify(s)
      [] code = "toaltstack" -> OpToAltStack(s)
      [] code = "fromaltstack" -> OpFromAltStack(s)
      [] OTHER -> Fail(s)

RunStack(s, code) ==
    CASE code \in DOMAIN DoubleItems -> IF Len(s.stack) < DoubleItems[code] THEN Fail(s)
                                        ELSE With(s, DoubleOp(code, s.stack))
      [] code \in DOMAIN SingleItems -> IF Len(s.stack) < SingleItems[code] THEN Fail(s)
                                        ELSE With(s, SingleOp(code, s.stack))
      [] code = "depth" -> Push(s, Data(Len(s.stack)))
      [] code = "pick" -> PickRoll(s, FALSE)
      [] code = "roll" -> PickRoll(s, TRUE)
      [] code = "size" -> IF s.stack = <<>> THEN Fail(s)
                          ELSE Push(s, Data(Size(Top(s.stack, 1))))
      [] code = "equal" -> OpEqual(s, FALSE)
      [] code = "equalverify" -> OpEqual(s, TRUE)
      [] OTHER -> RunFlow(s, code)

RunOperation(s, code, program) ==
    CASE code \in UnaryCodes -> OpUnary(s, code)
      [] code \in BinaryCodes -> OpBinary(s, code)
      [] code = "numequalverify" -> OpNumEqualVerify(s)
      [] code = "within" -> OpWithin(s)
      [] code \in HashCodes -> OpHash(s, code)
      [] code = "checksig" -> Checked(OpCheckSigVerify(s, program), FALSE)
      [] code = "checksigverify" -> Checked(OpCheckSigVerify(s, program), TRUE)
      [] code = "checkmultisig" -> Checked(OpCheckMultisigVerify(s, program), FALSE)
      [] code = "checkmultisigverify" -> Checked(OpCheckMultisigVerify(s, program), TRUE)
      [] OTHER -> RunStack(s, code)

-----------------------------------------------------------------------------
\* The run.

Conditions == {"if_", "notif", "else_", "endif"}

\* next_step for the operation at i.
NextStep(s, program, i) ==
    LET op == program[i]
        after == CASE op.code = "zero" -> Push(s, Empty)
                   [] op.code \in PushData -> Push(s, op.data)
                   [] op.code = "codeseparator" -> [s EXCEPT !.begin = i]
                   [] OTHER -> RunOperation(s, op.code, program)
    IN  IF Size(op.data) > MaxItem \/ op.code \in Disabled THEN Fail(s)
        ELSE IF HasFailedBranches(s) /\ op.code \notin Conditions THEN s
        ELSE IF after.status = "ok" /\ Len(after.stack) + Len(after.alt) > MaxStack
             THEN Fail(after)
        ELSE after

Machine(stack) == [status |-> "ok", stack |-> stack, alt |-> <<>>, cond |-> <<>>,
                   begin |-> 1]

Init ==
    /\ spend \in Spends
    /\ phase = "input" /\ pc = 0 /\ m = Machine(<<>>) /\ saved = <<>>
    /\ verdict = "none" /\ executed = {} /\ tested = <<>>

\* The checks before the loop of run.
Begin ==
    /\ verdict = "none" /\ pc = 0
    /\ \/ /\ ScriptSize(Program) <= MaxSize /\ CountNonPush(Program) <= MaxOps
          /\ pc' = 1
          /\ m' = Machine(m.stack)
          /\ executed' = {} /\ tested' = <<>>
          /\ UNCHANGED verdict
       \/ /\ ScriptSize(Program) > MaxSize \/ CountNonPush(Program) > MaxOps
          /\ verdict' = "reject"
          /\ UNCHANGED <<pc, m, executed, tested>>
    /\ UNCHANGED <<spend, phase, saved>>

Step ==
    /\ verdict = "none" /\ pc \in DOMAIN Program
    /\ LET code == Program[pc].code
           runs == ~ HasFailedBranches(m)
       IN  /\ m' = NextStep(m, Program, pc)
           /\ \/ /\ m'.status = "ok"
                 /\ pc' = pc + 1
                 /\ executed' = IF runs THEN executed \cup {pc} ELSE executed
                 /\ tested' = IF runs /\ code \in {"if_", "notif"}
                              THEN tested @@ (pc :> CastToBool(Top(m.stack, 1)))
                              ELSE tested
                 /\ UNCHANGED verdict
              \/ /\ m'.status # "ok"
                 /\ verdict' = IF m'.status = "fail" THEN "reject" ELSE "undefined"
                 /\ UNCHANGED <<pc, executed, tested>>
    /\ UNCHANGED <<spend, phase, saved>>

\* The end of a script's run, with what its caller does next.
Ended == verdict = "none" /\ pc = Len(Program) + 1
TopTrue(stack) == stack # <<>> /\ CastToBool(Top(stack, 1))
Verdict(v) == verdict' = v /\ UNCHANGED <<phase, pc, m, saved>>

InputEnds ==
    /\ Ended /\ phase = "input"
    /\ \/ /\ m.cond # <<>> /\ Verdict("reject")
       \/ /\ m.cond = <<>>
          /\ saved' = m.stack /\ phase' = "output" /\ pc' = 0
          /\ UNCHANGED <<m, verdict>>
    /\ UNCHANGED <<spend, executed, tested>>

OutputEnds ==
    /\ Ended /\ phase = "output"
    /\ \/ /\ ~ (m.cond = <<>> /\ TopTrue(m.stack)) /\ Verdict("reject")
       \/ /\ m.cond = <<>> /\ TopTrue(m.stack)
          /\ \/ ~ (spend.bip16 /\ IsScriptHash(spend.output)) /\ Verdict("accept")
             \/ /\ spend.bip16 /\ IsScriptHash(spend.output)
                /\ \/ ~ IsPushOnly(spend.input) /\ Verdict("reject")
                   \/ /\ IsPushOnly(spend.input)
                      /\ phase' = "eval" /\ pc' = 0 /\ m' = Machine(Front(saved))
                      /\ UNCHANGED <<saved, verdict>>
    /\ UNCHANGED <<spend, executed, tested>>

EvalEnds ==
    /\ Ended /\ phase = "eval"
    /\ Verdict(IF m.cond = <<>> /\ TopTrue(m.stack) THEN "accept" ELSE "reject")
    /\ UNCHANGED <<spend, executed, tested>>

Next == Begin \/ Step \/ InputEnds \/ OutputEnds \/ EvalEnds

Spec == Init /\ [][Next]_vars

-----------------------------------------------------------------------------
\* Properties

IsItem(item) ==
    \/ item[1] = "bytes" /\ \A i \in DOMAIN item[2] : item[2][i] \in 0..(Radix - 1)
    \/ item[1] \in {"blob", "hash", "key", "sig", "script"}

\* The machine keeps stacks of items whose bytes are bytes, and the position
\* the signed code begins at stays inside the running script.
TypeOK ==
    /\ phase \in {"input", "output", "eval"}
    /\ pc \in 0..(Len(Program) + 1)
    /\ verdict \in {"none", "accept", "reject", "undefined"}
    /\ \A i \in DOMAIN m.stack : IsItem(m.stack[i])
    /\ \A i \in DOMAIN m.alt : IsItem(m.alt[i])
    /\ \A i \in DOMAIN m.cond : m.cond[i] \in BOOLEAN
    /\ pc > 0 => m.begin \in {1} \cup DOMAIN Program /\ executed \subseteq DOMAIN Program

\* Positions j..k open this many more conditionals than they close.
Nest(program, j, k) ==
    Cardinality({ i \in j..k : program[i].code \in {"if_", "notif"} })
    - Cardinality({ i \in j..k : program[i].code = "endif" })

\* The branch of the conditional at j that holds i is the one its value chose.
InTakenBranch(program, j, i) ==
    LET elses == { k \in j + 1..i - 1 :
                    program[k].code = "else_" /\ Nest(program, j, k) = 1 }
    IN  j \in DOMAIN tested /\
            ((tested[j] # (program[j].code = "notif"))
                <=> Cardinality(elses) % 2 = 0)

\* conditional_stack: an operation takes effect exactly when every conditional
\* around it chose the branch it is in, however if_, notif and else_ nest and
\* however often else_ comes, also for conditionals opened in a branch that is
\* skipped, which pop nothing.
ConditionalsExact ==
    TypeOK /\ \A i \in 1..(pc - 1) :
        i \in executed <=>
            \A j \in 1..(i - 1) :
                /\ Program[j].code \in {"if_", "notif"}
                /\ \A k \in j..(i - 1) : Nest(Program, j, k) > 0
                => InTakenBranch(Program, j, i)

\* The operation a step executes with effect and success.
Executes(code) ==
    /\ verdict = "none" /\ pc \in DOMAIN Program /\ ~ HasFailedBranches(m)
    /\ Program[pc].code = code /\ m'.status = "ok" /\ pc' = pc + 1

\* The items an operation takes, deepest first, and the indexes of those it
\* leaves in their place.
Effect == ("op_2drop" :> <<2, <<>> >>) @@ ("op_2dup" :> <<2, <<1, 2, 1, 2>> >>)
    @@ ("op_3dup" :> <<3, <<1, 2, 3, 1, 2, 3>> >>)
    @@ ("op_2over" :> <<4, <<1, 2, 3, 4, 1, 2>> >>)
    @@ ("op_2rot" :> <<6, <<3, 4, 5, 6, 1, 2>> >>)
    @@ ("op_2swap" :> <<4, <<3, 4, 1, 2>> >>)
    @@ ("drop" :> <<1, <<>> >>) @@ ("dup" :> <<1, <<1, 1>> >>)
    @@ ("nip" :> <<2, <<2>> >>) @@ ("over" :> <<2, <<1, 2, 1>> >>)
    @@ ("rot" :> <<3, <<2, 3, 1>> >>) @@ ("swap" :> <<2, <<2, 1>> >>)
    @@ ("tuck" :> <<2, <<2, 1, 2>> >>)

\* Every operation on the stack rearranges the items it names and nothing else:
\* swaps, insertions and erasures at distances from the end that change under
\* them come out as the documented permutation, also when the stack is exactly
\* as deep as the operation needs.
StackEffects ==
    /\ \A code \in DOMAIN Effect : Executes(code) =>
        LET n == Effect[code][1]
            left == Effect[code][2]
            old == SubSeq(m.stack, Len(m.stack) - n + 1, Len(m.stack))
        IN  m'.stack = SubSeq(m.stack, 1, Len(m.stack) - n)
                        \o [k \in DOMAIN left |-> old[left[k]]]
    /\ \A code \in {"pick", "roll"} : Executes(code) =>
        LET rest == Front(m.stack)
            chosen == Len(rest) - Abs(Number(Last(m.stack)))
            kept == [k \in 1..(Len(rest) - 1) |->
                        rest[IF k < chosen THEN k ELSE k + 1]]
        IN  /\ Last(m'.stack) = rest[chosen]
            /\ Front(m'.stack) = IF code = "pick" THEN rest ELSE kept

\* The number bytes stand for, least significant first.
LittleEndian(bytes) ==
    LET n == Len(bytes)
        negative == n > 0 /\ bytes[n] >= Radix \div 2
        plain == IF negative THEN [bytes EXCEPT ![n] = @ - Radix \div 2] ELSE bytes
        sum == FoldLeft(LAMBDA acc, i : acc + plain[i] * Radix ^ (i - 1), 0,
                        [i \in 1..n |-> i])
    IN  IF negative THEN -sum ELSE sum

Shortest(bytes) ==
    LET n == Len(bytes)
    IN  n > 0 /\ bytes[n] \in {0, Radix \div 2} =>
            n > 1 /\ bytes[n - 1] >= Radix \div 2

\* Arithmetic goes through the sign-and-magnitude bytes of big_number twice and
\* still computes the integer operation; a result is the shortest form of its
\* value (negative zero is never left), so that equal and numequal agree on
\* results, and is at most one byte longer than an operand may be.
NumbersExact ==
    \A code \in UnaryCodes \cup BinaryCodes : Executes(code) =>
        LET n(k) == LittleEndian(Top(m.stack, k)[2])
            bytes == Last(m'.stack)[2]
        IN  /\ LittleEndian(bytes) = IF code \in UnaryCodes THEN Unary(code, n(1))
                                     ELSE Binary(code, n(2), n(1))
            /\ Shortest(bytes) /\ Len(bytes) <= NumberBytes + 1

\* The keys and signatures a multisig step finds, and its outcome.
MultisigStep(Wanted(_, _, _)) ==
    \A code \in {"checkmultisig", "checkmultisigverify"} :
        LET keys == ReadSection(m)
            sigs == ReadSection(keys.s)
            signed == ScriptCode(Program, m.begin, Range(sigs.section))
        IN  Executes(code) /\ keys.ok /\ sigs.ok =>
                ((code = "checkmultisig" => Last(m'.stack) = True)
                    <=> Wanted(keys.section, sigs.section, signed))

\* Each signature is by one of the keys, in the order of the keys.
SignedInOrder(keys, sigs, signed) ==
    \E by \in [DOMAIN sigs -> DOMAIN keys] :
        /\ \A i \in DOMAIN sigs : CheckSignature(sigs[i], keys[by[i]], signed)
        /\ \A i, j \in DOMAIN sigs : i < j => by[i] <= by[j]

\* The same with a key of its own for each signature.
SignedByDistinct(keys, sigs, signed) ==
    \E by \in [DOMAIN sigs -> DOMAIN keys] :
        /\ \A i \in DOMAIN sigs : CheckSignature(sigs[i], keys[by[i]], signed)
        /\ \A i, j \in DOMAIN sigs : i < j => by[i] < by[j]

\* op_checkmultisigverify's greedy search finds keys for the signatures exactly
\* when some assignment in the order of the keys exists: taking the first key
\* that fits never loses a later signature.
MultisigExact == MultisigStep(SignedInOrder)

\* The comment on the search: "we always advance forwards until we either run
\* out of pubkeys (fail) or finish with our signatures (pass)".  A key that
\* accepted one signature would not be asked for the next.
MultisigAdvances == [][ MultisigStep(SignedByDistinct) ]_vars

\* KeySigned: the whole output script is what is signed for.
KeySigned(sig, key) == CheckSignature(sig, key, ScriptCode(spend.output, 1, {sig}))

PaidToKey == saved # <<>> /\ KeySigned(Last(saved), spend.output[1].data)
PaidToKeyHash ==
    /\ Len(saved) > 1
    /\ <<"hash", "hash160", Last(saved)>> = spend.output[3].data
    /\ KeySigned(Top(saved, 2), Last(saved))

\* run for the payment types type() tells apart.  A payment to a key or a key's
\* hash is spent by the owner's signature and by nothing else; a payment to a
\* script hash under bip16 only with the script that was committed to, pushed
\* by an input that only pushes, and only if that script itself ends true on the
\* rest of the input's stack.
PaymentsExact ==
    /\ verdict \in {"accept", "reject"} /\ phase # "input" /\ Len(saved) < MaxStack =>
        /\ IsPubkey(spend.output) => (verdict = "accept" <=> PaidToKey)
        /\ IsPubkeyHash(spend.output) => (verdict = "accept" <=> PaidToKeyHash)
    /\ verdict = "accept" =>
        /\ phase # "input" /\ m.cond = <<>> /\ TopTrue(m.stack)
        /\ spend.bip16 /\ IsScriptHash(spend.output) =>
            /\ phase = "eval" /\ pc > Len(Redeem[Last(saved)[2]])
            /\ <<"hash", "hash160", Last(saved)>> = spend.output[2].data
            /\ \A i \in DOMAIN spend.input : IsPush(spend.input[i].code)

\* generate_signature_hash leaves out of the hash exactly what the hash type
\* lets others change: a spend accepted on a signature agrees with what was
\* signed on the input, on all inputs unless anyone_can_pay, on all outputs for
\* "all" and on the output of the same index for "single".
SignatureCovers ==
    verdict = "accept" /\ spend.signed # <<>> =>
        LET signed == Head(spend.signed)
            Previous(tx) == [i \in DOMAIN tx.inputs |-> tx.inputs[i].prev]
        IN  /\ spend.tx.inputs[spend.index] = signed.tx.inputs[signed.index]
            /\ signed.type.alone \/ Previous(spend.tx) = Previous(signed.tx)
            /\ signed.type.kind = "all" =>
                /\ spend.tx.outputs = signed.tx.outputs
                /\ signed.type.alone \/ spend.tx.inputs = signed.tx.inputs
            /\ signed.type.kind = "single" =>
                /\ spend.index = signed.index
                /\ spend.tx.outputs[spend.index] = signed.tx.outputs[signed.index]

\* Each operation does what its name says: every step of the interpreter has
\* StackEffects, NumbersExact and MultisigExact.
OperationsExact == [][ StackEffects /\ NumbersExact /\ MultisigExact ]_vars

\* What is accepted was authorised by the owner of the output, for this
\* transaction: PaymentsExact and SignatureCovers.
SpendAuthorised == PaymentsExact /\ SignatureCovers
=============================================================================
