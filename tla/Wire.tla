-------------------------------- MODULE Wire --------------------------------
(***************************************************************************)
(* The wire format: the serializer and deserializer                        *)
(* (src/utility/serializer.cpp), the satoshi_save, satoshi_load and        *)
(* satoshi_raw_size of every message (satoshi_serialize.hpp and .cpp) and  *)
(* the raw form of scripts (script.cpp).                                   *)
(*                                                                         *)
(* A stream is a sequence of bytes; lengths are the code's.  The number of *)
(* values of a byte, the sizes of direct pushes and the bytes of the       *)
(* opcodes that carry data are parameters: with a small byte the longest   *)
(* forms of a number come within reach.                                    *)
(***************************************************************************)
EXTENDS Integers, Sequences, SequencesExt

CONSTANTS
    Base,         \* values of a byte (256)
    MaxSpecial,   \* longest direct push (75); the next three bytes are
                  \* pushdata1, pushdata2 and pushdata4
    RawData       \* the value of opcode::raw_data (187)

-----------------------------------------------------------------------------
\* serializer

Shift(v, n) ==
    LET by[i \in 0..n] == IF i = 0 THEN v ELSE by[i - 1] \div Base IN by[n]

\* uncast_type: n bytes, the least significant one first.
Write(v, n) == [i \in 1..n |-> Shift(v, i - 1) % Base]

Fits(v, n) == Shift(v, n) = 0


WriteVariable(v) ==
    IF v < Base - 3 THEN <<v>>
    ELSE IF Fits(v, 2) THEN <<Base - 3>> \o Write(v, 2)
    ELSE IF Fits(v, 4) THEN <<Base - 2>> \o Write(v, 4)
    ELSE <<Base - 1>> \o Write(v, 8)

WriteHash(hash) == Reverse(hash)

\* The port is written with its bytes reversed.
WriteAddress(a) == Write(a.services, 8) \o a.ip \o Reverse(Write(a.port, 2))

WriteFixedString(text, size) ==
    [i \in 1..size |-> IF i <= Len(text) THEN text[i] ELSE 0]

WriteString(text) ==
    WriteVariable(Len(text)) \o WriteFixedString(text, Len(text))

VariableSize(v) ==
    IF v < Base - 3 THEN 1
    ELSE IF Fits(v, 2) THEN 3
    ELSE IF Fits(v, 4) THEN 5
    ELSE 9

-----------------------------------------------------------------------------
\* deserializer: what is left of the stream and the values read so far; an
\* end_of_stream is thrown once and for all.

Cursor(stream) == [left |-> stream, out |-> <<>>, ok |-> TRUE]
EndOfStream == [left |-> <<>>, out |-> <<>>, ok |-> FALSE]

\* cast_chunk
Number(bytes) ==
    LET from[i \in 1..(Len(bytes) + 1)] ==
            IF i > Len(bytes) THEN 0 ELSE from[i + 1] * Base + bytes[i]
    IN  from[1]

\* check_distance, then n bytes.
ReadData(c, n) ==
    IF ~c.ok \/ Len(c.left) < n THEN EndOfStream
    ELSE [c EXCEPT !.left = SubSeq(c.left, n + 1, Len(c.left)),
                   !.out = Append(c.out, SubSeq(c.left, 1, n))]

\* The bytes just read as a value.
Cast(c, Value(_)) ==
    IF c.ok THEN [c EXCEPT !.out = Append(Front(@), Value(Last(@)))] ELSE c

ReadNumber(c, n) == Cast(ReadData(c, n), Number)

ReadHash(c) == Cast(ReadData(c, 32), Reverse)

\* A composite value is made of the values that Reader reads.
ReadGroup(c, Reader(_), Make(_)) ==
    LET d == Reader([c EXCEPT !.out = <<>>])
    IN  IF d.ok THEN [d EXCEPT !.out = Append(c.out, Make(d.out))] ELSE d

ReadVariable(c) ==
    LET d == ReadNumber(c, 1)
        length == Last(d.out)
        Wide(n) == ReadNumber([d EXCEPT !.out = c.out], n)
    IN  IF ~d.ok \/ length < Base - 3 THEN d
        ELSE IF length = Base - 3 THEN Wide(2)
        ELSE IF length = Base - 2 THEN Wide(4)
        ELSE Wide(8)

ReadAddress(c) ==
    LET Reader(d) ==
            Cast(ReadData(ReadData(ReadNumber(d, 8), 16), 2),
                 LAMBDA b : Number(Reverse(b)))
    IN  ReadGroup(c, Reader,
            LAMBDA v : [services |-> v[1], ip |-> v[2], port |-> v[3],
                        timestamp |-> 0])

\* c_str() ends a string at its first zero.
CString(bytes) ==
    LET zeros == { i \in DOMAIN bytes : bytes[i] = 0 }
    IN  IF zeros = {} THEN bytes ELSE SubSeq(bytes, 1, Min(zeros) - 1)

ReadFixedString(c, n) == Cast(ReadData(c, n), CString)

\* A length, then as many bytes.
ReadRawScript(c) ==
    LET d == ReadVariable(c)
    IN  IF d.ok THEN ReadData([d EXCEPT !.out = c.out], Last(d.out)) ELSE d

ReadString(c) == Cast(ReadRawScript(c), CString)

\* A count, then as many elements, as one sequence.
ReadList(c, Reader(_)) ==
    LET d == ReadVariable(c)
        Reads(e) ==
            LET upTo[i \in 0..Last(d.out)] ==
                    IF i = 0 THEN e
                    ELSE LET before == upTo[i - 1]
                         IN  IF before.ok THEN Reader(before) ELSE before
            IN  upTo[Last(d.out)]
    IN  IF d.ok THEN ReadGroup([d EXCEPT !.out = c.out], Reads, LAMBDA v : v) ELSE d

-----------------------------------------------------------------------------
\* The raw form of scripts.  A direct push has the code Special whatever its
\* length.

Zero == 0
Special == 1
Width == (MaxSpecial + 1 :> 1) @@ (MaxSpecial + 2 :> 2) @@ (MaxSpecial + 3 :> 4)

\* read_back_from_iterator, number_of_bytes_from_opcode: the bytes of the
\* length, and the length of the data after it.
LengthBytes(byte) == IF byte \in DOMAIN Width THEN Width[byte] ELSE 0

DataLength(raw, at) ==
    IF raw[at] <= MaxSpecial THEN raw[at]
    ELSE Number(SubSeq(raw, at + 1, at + LengthBytes(raw[at])))

\* read_push_data fails if the data runs past the end; the script is then empty.
\* (For a length that itself runs past the end the code reads what lies behind
\* the buffer: see Readable.)
ParseScript(raw) ==
    LET Byte(code) == IF code \in 1..MaxSpecial THEN Special ELSE code
        from[at \in 1..(Len(raw) + 1)] ==
            IF at = Len(raw) + 1 THEN [ok |-> TRUE, ops |-> <<>>]
            ELSE LET start == at + LengthBytes(raw[at])
                     stop == IF start > Len(raw) THEN start
                             ELSE start + DataLength(raw, at)
                 IN  IF stop > Len(raw) \/ ~from[stop + 1].ok
                     THEN [ok |-> FALSE, ops |-> <<>>]
                     ELSE [ok |-> TRUE,
                           ops |-> <<[code |-> Byte(raw[at]),
                                      data |-> SubSeq(raw, start + 1, stop)]>>
                                   \o from[stop + 1].ops]
    IN  from[1].ops

CoinbaseScript(raw) == <<[code |-> RawData, data |-> raw]>>

\* A direct push is written with the number of Special.
OperationByteFault(op) == op.code
OperationByte(op) == IF op.code = Special THEN Len(op.data) ELSE op.code

SaveScript(ops) ==
    LET Add(raw, op) ==
            raw \o <<OperationByte(op)>>
                \o Write(Len(op.data), LengthBytes(op.code)) \o op.data
    IN  IF ops = <<>> THEN <<>>
        ELSE IF ops[1].code = RawData THEN ops[1].data
        ELSE FoldLeft(Add, <<>>, ops)

ScriptSize(ops) ==
    LET Add(size, op) == size + 1 + LengthBytes(op.code) + Len(op.data)
    IN  IF ops = <<>> THEN 0
        ELSE IF ops[1].code = RawData THEN Len(ops[1].data)
        ELSE FoldLeft(Add, 0, ops)

-----------------------------------------------------------------------------
\* satoshi_save

Concat(Save(_), list) == FoldLeft(LAMBDA raw, x : raw \o Save(x), <<>>, list)

SaveHeader(head) ==
    Write(head.magic, 4) \o WriteFixedString(head.command, 12)
    \o Write(head.payload_length, 4)
    \o (IF head.checksum # 0 THEN Write(head.checksum, 4) ELSE <<>>)

SaveVersion(m) ==
    Write(m.version, 4) \o Write(m.services, 8) \o Write(m.timestamp, 8)
    \o WriteAddress(m.address_me) \o WriteAddress(m.address_you)
    \o Write(m.nonce, 8) \o WriteString(m.user_agent) \o Write(m.start_depth, 4)

SaveAddress(m) ==
    WriteVariable(Len(m.addresses))
    \o Concat(LAMBDA a : Write(a.timestamp, 4) \o WriteAddress(a), m.addresses)

InventoryTypeToNumber(type) ==
    IF type = "transaction" THEN 1 ELSE IF type = "block" THEN 2 ELSE 0

SaveInventory(m) ==
    WriteVariable(Len(m.inventories))
    \o Concat(LAMBDA v : Write(InventoryTypeToNumber(v.type), 4)
                         \o WriteHash(v.hash), m.inventories)

\* protocol_version stands in front and is not part of the message.
ProtocolVersion == 60000

SaveGetBlocks(m) ==
    Write(ProtocolVersion, 4) \o WriteVariable(Len(m.start_hashes))
    \o Concat(WriteHash, m.start_hashes) \o WriteHash(m.hash_stop)

SaveInput(input) ==
    LET raw == SaveScript(input.script)
    IN  WriteHash(input.hash) \o Write(input.index, 4)
        \o WriteVariable(Len(raw)) \o raw \o Write(input.sequence, 4)

SaveOutput(output) ==
    LET raw == SaveScript(output.script)
    IN  Write(output.value, 8) \o WriteVariable(Len(raw)) \o raw

SaveTransaction(m) ==
    Write(m.version, 4)
    \o WriteVariable(Len(m.inputs)) \o Concat(SaveInput, m.inputs)
    \o WriteVariable(Len(m.outputs)) \o Concat(SaveOutput, m.outputs)
    \o Write(m.locktime, 4)

SaveBlock(m) ==
    Write(m.version, 4)
    \o WriteHash(m.previous_block_hash) \o WriteHash(m.merkle)
    \o Write(m.timestamp, 4) \o Write(m.bits, 4) \o Write(m.nonce, 4)
    \o WriteVariable(Len(m.transactions))
    \o Concat(SaveTransaction, m.transactions)

\* What hash_block_header hashes.
HeaderPreimage(m) ==
    Write(m.version, 4)
    \o WriteHash(m.previous_block_hash) \o WriteHash(m.merkle)
    \o Write(m.timestamp, 4) \o Write(m.bits, 4) \o Write(m.nonce, 4)

Save(m) ==
    CASE m.kind = "version" -> SaveVersion(m)
      [] m.kind \in {"verack", "getaddr"} -> <<>>
      [] m.kind = "addr" -> SaveAddress(m)
      [] m.kind \in {"inv", "getdata"} -> SaveInventory(m)
      [] m.kind = "getblocks" -> SaveGetBlocks(m)
      [] m.kind = "tx" -> SaveTransaction(m)
      [] m.kind = "block" -> SaveBlock(m)
      [] m.kind \in {"ping", "pong"} -> Write(m.nonce, 8)

-----------------------------------------------------------------------------
\* satoshi_raw_size

Total(Size(_), list) == FoldLeft(LAMBDA sum, x : sum + Size(x), 0, list)

HeaderSize(head) == 20 + (IF head.checksum = 0 THEN 0 ELSE 4)

ScriptBytes(script) ==
    LET size == Len(SaveScript(script)) IN VariableSize(size) + size

TransactionSize(m) ==
    8 + VariableSize(Len(m.inputs))
    + Total(LAMBDA input : 40 + ScriptBytes(input.script), m.inputs)
    + VariableSize(Len(m.outputs))
    + Total(LAMBDA output : 8 + ScriptBytes(output.script), m.outputs)

RawSize(m) ==
    CASE m.kind = "version" ->
            84 + VariableSize(Len(m.user_agent)) + Len(m.user_agent)
      [] m.kind \in {"verack", "getaddr"} -> 0
      [] m.kind = "addr" ->
            VariableSize(Len(m.addresses)) + 30 * Len(m.addresses)
      [] m.kind \in {"inv", "getdata"} ->
            VariableSize(Len(m.inventories)) + 36 * Len(m.inventories)
      [] m.kind = "getblocks" ->
            36 + VariableSize(Len(m.start_hashes)) + 32 * Len(m.start_hashes)
      [] m.kind = "tx" -> TransactionSize(m)
      [] m.kind = "block" ->
            80 + VariableSize(Len(m.transactions))
            + Total(TransactionSize, m.transactions)
      [] m.kind \in {"ping", "pong"} -> 8

-----------------------------------------------------------------------------
\* satoshi_load: the message, or EndOfStream (attempt_load then reports
\* bad_stream).  What is left of the stream is ignored.

Loaded(c, Make(_)) == IF c.ok THEN Make(c.out) ELSE EndOfStream

\* header: the checksum is read separately.
LoadHeader(stream) ==
    Loaded(ReadNumber(ReadFixedString(ReadNumber(Cursor(stream), 4), 12), 4),
           LAMBDA v : [magic |-> v[1], command |-> v[2],
                       payload_length |-> v[3], checksum |-> 0])

\* Peers before 106 and before 209 send less; the fields after are not set.
LoadVersion(stream) ==
    LET first == ReadAddress(ReadNumber(ReadNumber(ReadNumber(
                     Cursor(stream), 4), 8), 8))
        second == ReadString(ReadNumber(ReadAddress(first), 8))
        number == first.out[1]
        whole == IF ~first.ok \/ number < 106 THEN first
                 ELSE IF ~second.ok \/ number < 209 THEN second
                 ELSE ReadNumber(second, 4)
        Field(v, i) == IF i <= Len(v) THEN v[i] ELSE "unset"
    IN  Loaded(whole,
            LAMBDA v : [kind |-> "version", version |-> v[1], services |-> v[2],
                        timestamp |-> v[3], address_me |-> v[4],
                        address_you |-> Field(v, 5), nonce |-> Field(v, 6),
                        user_agent |-> IF Len(v) < 7 THEN <<>> ELSE v[7],
                        start_depth |-> Field(v, 8)])

LoadAddress(stream) ==
    LET Reader(c) ==
            ReadGroup(c, LAMBDA d : ReadAddress(ReadNumber(d, 4)),
                LAMBDA v : [v[2] EXCEPT !.timestamp = v[1]])
    IN  Loaded(ReadList(Cursor(stream), Reader),
               LAMBDA v : [kind |-> "addr", addresses |-> v[1]])

InventoryTypeFromNumber(n) ==
    CASE n = 0 -> "error" [] n = 1 -> "transaction" [] n = 2 -> "block"
      [] OTHER -> "none"

LoadInventory(stream, command) ==
    LET Reader(c) ==
            ReadGroup(c, LAMBDA d : ReadHash(ReadNumber(d, 4)),
                LAMBDA v : [type |-> InventoryTypeFromNumber(v[1]),
                            hash |-> v[2]])
    IN  Loaded(ReadList(Cursor(stream), Reader),
               LAMBDA v : [kind |-> command, inventories |-> v[1]])

LoadGetBlocks(stream) ==
    Loaded(ReadHash(ReadList(ReadNumber(Cursor(stream), 4), ReadHash)),
           LAMBDA v : [kind |-> "getblocks", start_hashes |-> v[2],
                       hash_stop |-> v[3]])

\* previous_output_is_null
NullHash == [i \in 1..32 |-> 0]
NullPoint(hash, index) ==
    hash = NullHash /\ \A i \in 1..4 : Write(index, 4)[i] = Base - 1

\* The script of a coinbase is not parsed.
ReadInput(c) ==
    LET Reader(d) ==
            ReadNumber(ReadRawScript(ReadNumber(ReadHash(d), 4)), 4)
        Make(v) == [hash |-> v[1], index |-> v[2], sequence |-> v[4],
                    script |-> IF NullPoint(v[1], v[2])
                               THEN CoinbaseScript(v[3]) ELSE ParseScript(v[3])]
    IN  ReadGroup(c, Reader, Make)

ReadOutput(c) ==
    ReadGroup(c, LAMBDA d : ReadRawScript(ReadNumber(d, 8)),
        LAMBDA v : [value |-> v[1], script |-> ParseScript(v[2])])

ReadTransaction(c) ==
    ReadGroup(c,
        LAMBDA d : ReadNumber(ReadList(ReadList(ReadNumber(d, 4), ReadInput),
                                       ReadOutput), 4),
        LAMBDA v : [kind |-> "tx", version |-> v[1], inputs |-> v[2],
                    outputs |-> v[3], locktime |-> v[4]])

LoadBlock(stream) ==
    LET head == ReadHash(ReadHash(ReadNumber(Cursor(stream), 4)))
    IN  Loaded(ReadList(ReadNumber(ReadNumber(ReadNumber(head, 4), 4), 4),
                        ReadTransaction),
            LAMBDA v : [kind |-> "block", version |-> v[1],
                        previous_block_hash |-> v[2], merkle |-> v[3],
                        timestamp |-> v[4], bits |-> v[5], nonce |-> v[6],
                        transactions |-> v[7]])

\* load_lookup: the loader of the command in the header.
Load(command, stream) ==
    CASE command = "version" -> LoadVersion(stream)
      [] command \in {"verack", "getaddr"} -> [kind |-> command]
      [] command = "addr" -> LoadAddress(stream)
      [] command \in {"inv", "getdata"} -> LoadInventory(stream, command)
      [] command = "getblocks" -> LoadGetBlocks(stream)
      [] command = "tx" ->
            Loaded(ReadTransaction(Cursor(stream)), LAMBDA v : v[1])
      [] command = "block" -> LoadBlock(stream)
      [] command \in {"ping", "pong"} ->
            Loaded(ReadNumber(Cursor(stream), 8),
                   LAMBDA v : [kind |-> command, nonce |-> v[1]])

\* create_raw_message
RawMessage(m, magic, command, checksum) ==
    SaveHeader([magic |-> magic, command |-> command,
                payload_length |-> RawSize(m), checksum |-> checksum])
    \o Save(m)

-----------------------------------------------------------------------------
\* What the format promises, for inputs a run enumerates.

\* A number of variable length comes back as it was written, whatever follows
\* it, has the size that variable_uint_size says, and no part of it reads as a
\* number.
VariableExact(v) ==
    LET raw == WriteVariable(v)
        back == ReadVariable(Cursor(raw \o <<1, 2>>))
    IN  /\ Len(raw) = VariableSize(v)
        /\ back.ok /\ back.out = <<v>> /\ back.left = <<1, 2>>
        /\ \A k \in 0..(Len(raw) - 1) :
              ~ReadVariable(Cursor(SubSeq(raw, 1, k))).ok

\* The message as the receiver knows it: addresses in a version have no time,
\* old peers are believed less, and an unknown kind of inventory is an error.
Received(m) ==
    CASE m.kind = "version" ->
            [m EXCEPT !.address_me.timestamp = 0,
                      !.address_you = IF m.version < 106 THEN "unset"
                                      ELSE [@ EXCEPT !.timestamp = 0],
                      !.nonce = IF m.version < 106 THEN "unset" ELSE @,
                      !.user_agent =
                          IF m.version < 106 THEN <<>> ELSE CString(@),
                      !.start_depth = IF m.version < 209 THEN "unset" ELSE @]
      [] m.kind \in {"inv", "getdata"} ->
            [m EXCEPT !.inventories = [i \in DOMAIN @ |->
                IF @[i].type = "none" THEN [@[i] EXCEPT !.type = "error"]
                ELSE @[i]]]
      [] OTHER -> m

\* BITCOIN_ASSERT(satoshi_raw_size(packet) == raw_data.size()) holds for every
\* message, and what a peer loads is what was saved, up to Received; the hash of
\* a block covers exactly the header that is sent.
MessageExact(m) ==
    /\ m.kind = "block" => SubSeq(Save(m), 1, 80) = HeaderPreimage(m)
    /\ Len(Save(m)) = RawSize(m)
    /\ Load(m.kind, Save(m)) = Received(m)

\* A payload that is cut off anywhere is a bad_stream, never another message.
TruncationRefused(m) ==
    \A k \in 0..(Len(Save(m)) - 1) :
        \/ m.kind = "version" /\ m.version < 209
        \/ Load(m.kind, SubSeq(Save(m), 1, k)) = EndOfStream

\* The header that a peer reads tells where the payload starts and ends and
\* which loader to use, but only when the checksum is not zero: a zero one is
\* not written, and the receiver would take the payload's first bytes for it.
HeaderExact(m, magic, command, checksum) ==
    LET raw == RawMessage(m, magic, command, checksum)
        head == LoadHeader(SubSeq(raw, 1, 20))
    IN  checksum # 0 =>
            /\ head = [magic |-> magic, command |-> command,
                       payload_length |-> Len(raw) - 24, checksum |-> 0]
            /\ Number(SubSeq(raw, 21, 24)) = checksum
            /\ SubSeq(raw, 25, Len(raw)) = Save(m)

\* The bytes that a script's own lengths account for: parse_script reads inside
\* the buffer only if each length lies in it.
Readable(raw) ==
    LET from[at \in 1..(Len(raw) + 1)] ==
            \/ at = Len(raw) + 1
            \/ LET start == at + LengthBytes(raw[at]) IN
               /\ start <= Len(raw)
               /\ \/ start + DataLength(raw, at) > Len(raw)
                  \/ from[start + DataLength(raw, at) + 1]
    IN  from[1]

\* "raw_script == save_script(parse_script(raw_script))" (read_script): a script
\* is saved as the bytes it was parsed from, so that hashes and signatures
\* cover those, and script_size is their number.  The code does so unless a push
\* runs past the end, which makes the script empty, or the first byte is the
\* number of raw_data.
ScriptExact(raw) ==
    LET ops == ParseScript(raw)
    IN  Readable(raw) =>
            /\ ScriptSize(ops) = Len(SaveScript(ops))
            /\ ops # <<>> /\ raw[1] # RawData => SaveScript(ops) = raw
=============================================================================
