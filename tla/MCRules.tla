------------------------------ MODULE MCRules ------------------------------
(***************************************************************************)
(* The functions of BlockRules and Wire on many inputs: a number that      *)
(* counts up, and a script that arrives byte by byte.                      *)
(***************************************************************************)
EXTENDS BlockRules, Wire

CONSTANTS
    MaxNumber,    \* bound on the number
    MaxRaw        \* bound on the length of the script

VARIABLES n, raw
vars == <<n, raw>>

\* The bytes of a script: a push of nothing, direct pushes, the three pushdata,
\* an ordinary opcode and raw_data.
ScriptBytesUsed == (0..(MaxSpecial + 4)) \cup {RawData}

Init == n = 0 /\ raw = <<>>

Count == raw = <<>> /\ n < MaxNumber /\ n' = n + 1 /\ UNCHANGED raw

Extend ==
    /\ n = 0
    /\ Len(raw) < MaxRaw
    /\ \E byte \in ScriptBytesUsed : raw' = Append(raw, byte)
    /\ UNCHANGED n

Spec == Init /\ [][Count \/ Extend]_vars

-----------------------------------------------------------------------------
\* Messages, from empty ones to a block of two transactions.

Hash(seed) == [i \in 1..32 |-> (seed + i) % Base]
Address(seed) ==
    [services |-> seed, ip |-> [i \in 1..16 |-> (i * seed) % Base],
     port |-> 18 + seed, timestamp |-> 500 + seed]
Text(size) == [i \in 1..size |-> 1 + (i % 6)]

Version(number, agent) ==
    [kind |-> "version", version |-> number, services |-> 1,
     timestamp |-> 70000, address_me |-> Address(1),
     address_you |-> Address(2), nonce |-> 99999, user_agent |-> agent,
     start_depth |-> 300]

Push(data) == [code |-> Special, data |-> data]
Push1(data) == [code |-> MaxSpecial + 1, data |-> data]
Push2(data) == [code |-> MaxSpecial + 2, data |-> data]
Plain(code) == [code |-> code, data |-> <<>>]

Input(seed, script) ==
    [hash |-> Hash(seed), index |-> seed, sequence |-> 7, script |-> script]
NullInput(script) ==
    [hash |-> NullHash, index |-> Base ^ 4 - 1, sequence |-> 7,
     script |-> script]
Output(value, script) == [value |-> value, script |-> script]
Transaction(inputs, outputs) ==
    [kind |-> "tx", version |-> 1, inputs |-> inputs, outputs |-> outputs,
     locktime |-> 400]

Minted ==
    Transaction(<<NullInput(CoinbaseScript(<<MaxSpecial, 1>>))>>,
                <<Output(50000, <<Push(<<1, 2>>), Plain(MaxSpecial + 4)>>)>>)
Paid ==
    Transaction(<<Input(3, <<Push1(Text(6)), Plain(Zero)>>), Input(4, <<>>)>>,
                <<Output(1, <<Push2(Text(20))>>), Output(70000, <<>>)>>)

Inventories(command, size) ==
    [kind |-> command, inventories |-> [i \in 1..size |->
        [type |-> <<"transaction", "block", "none", "error">>[1 + (i % 4)],
         hash |-> Hash(i)]]]

Messages ==
    << Version(105, Text(3)), Version(106, Text(3)), Version(208, Text(0)),
       Version(209, Text(3)), Version(2000, Text(20)),
       Version(2000, <<1, 0, 2>>),
       [kind |-> "verack"], [kind |-> "getaddr"],
       [kind |-> "addr", addresses |-> <<>>],
       [kind |-> "addr", addresses |-> [i \in 1..2 |-> Address(i)]],
       [kind |-> "addr", addresses |-> [i \in 1..6 |-> Address(i)]],
       Inventories("inv", 0), Inventories("inv", 5), Inventories("getdata", 6),
       [kind |-> "getblocks", start_hashes |-> <<>>, hash_stop |-> NullHash],
       [kind |-> "getblocks", start_hashes |-> <<Hash(1), Hash(2)>>,
        hash_stop |-> Hash(3)],
       [kind |-> "ping", nonce |-> 123456], [kind |-> "pong", nonce |-> 7],
       Minted, Paid, Transaction(<<>>, <<>>),
       [kind |-> "block", version |-> 1, previous_block_hash |-> Hash(8),
        merkle |-> Hash(9), timestamp |-> 4001, bits |-> 3000, nonce |-> 3,
        transactions |-> <<Minted, Paid>>] >>

\* The n-th message, counted from zero.
Message == Messages[n + 1]
HasMessage == n + 1 \in DOMAIN Messages

\* Lists of up to five transactions, none twice.
Lists == UNION { { list \in [1..k -> 1..5] : Cardinality(Range(list)) = k } :
                 k \in 0..5 }
Listed == [i \in 1..(n % 6) |-> 1 + ((i * (1 + (n % 4))) % 5)]

-----------------------------------------------------------------------------
\* block_locator_indexes for a chain of every length (LocatorShape), block_value
\* at every depth (SupplyBounded), big_number::compact and set_compact on every
\* target (CompactSound, CompactMonotone) and generate_merkle_root on lists of
\* transactions (MerkleBinds).
BlockRulesSound ==
    raw = <<>> =>
        /\ LocatorShape(n)
        /\ n < 40 => SupplyBounded(n)
        /\ CompactSound(n) /\ CompactMonotone(n)
        /\ n < 24 /\ Listed \in Lists =>
                \A other \in Lists : MerkleBinds(Listed, other)


\* parse_script, save_script and script_size on every script: see ScriptExact.
ScriptsReturn == ScriptExact(raw)
=============================================================================
