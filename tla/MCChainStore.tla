---------------------------- MODULE MCChainStore ----------------------------
(***************************************************************************)
(* A tree of blocks for ChainStore.  Branch a and branch h share           *)
(* transactions; b and c double-spend what a spends; z forks at the        *)
(* genesis block with more blocks and less work each; the others break one *)
(* rule each.  c4 repeats a coinbase at an exempted depth.                 *)
(***************************************************************************)
EXTENDS ChainStore

Out(value, address) == [value |-> value, address |-> address, sigops |-> 1]
Pay(inputs, outputs) ==
    [coinbase |-> FALSE, inputs |-> inputs, outputs |-> outputs,
     lock |-> 0, final |-> FALSE, sigops |-> 0]
Mint(value) ==
    [Pay(<< <<"null", 0>> >>, <<Out(value, "A")>>) EXCEPT !.coinbase = TRUE]

MCTx ==
    [t \in {"cg", "cb2", "cc3", "ch2", "cz1", "cz2", "cz3", "ck2", "cw2"} |->
        Mint(8)]
    @@ [t \in {"ca1", "ca3", "cv3", "cy3", "cx4", "ca4"} |-> Mint(4)]
    @@ ("ca2" :> Mint(9)) @@ ("cf2" :> Mint(16)) @@ ("cc4" :> Mint(4))
    @@ ("s1" :> Pay(<< <<"cg", 1>> >>, <<Out(5, "A"), Out(2, "B")>>))
    @@ ("s2" :> Pay(<< <<"s1", 1>>, <<"s1", 2>> >>, <<Out(7, "B")>>))
    @@ ("s3" :> Pay(<< <<"s2", 1>> >>, <<Out(7, "none")>>))
    @@ ("d1" :> Pay(<< <<"cg", 1>> >>, <<Out(8, "B")>>))
    @@ ("d2" :> Pay(<< <<"d1", 1>> >>, <<Out(8, "A")>>))
    @@ ("young" :> Pay(<< <<"ca1", 1>> >>, <<Out(4, "B")>>))
    @@ ("again" :> Pay(<< <<"s1", 1>> >>, <<Out(5, "A")>>))
    @@ ("more" :> Pay(<< <<"s1", 1>> >>, <<Out(6, "A")>>))
    @@ ("forged" :> Pay(<< <<"cg", 1>> >>, <<Out(3, "B")>>))
    @@ ("late" :> [Pay(<< <<"s1", 2>> >>, <<Out(2, "A")>>) EXCEPT !.lock = 3])

Put(prev, txs, bits, time) ==
    [prev |-> prev, txs |-> txs, bits |-> bits, time |-> time]

MCBlock ==
    ("g" :> Put("g", <<"cg">>, 16, 0))
    @@ ("a1" :> Put("g", <<"ca1">>, 16, 2))
    @@ ("a2" :> Put("a1", <<"ca2", "s1">>, 8, 4))
    @@ ("a3" :> Put("a2", <<"ca3", "s2", "s3">>, 8, 6))
    @@ ("b2" :> Put("a1", <<"cb2", "d1">>, 8, 4))
    @@ ("b3" :> Put("b2", <<"ca3", "s1">>, 8, 6))
    @@ ("c3" :> Put("b2", <<"ca3", "d2">>, 8, 8))
    @@ ("c4" :> Put("c3", <<"ca1">>, 8, 9))
    @@ ("h2" :> Put("a1", <<"ch2", "s1">>, 8, 5))
    @@ ("h3" :> Put("h2", <<"cv3", "s2">>, 8, 6))
    @@ ("z1" :> Put("g", <<"cz1">>, 16, 9))
    @@ ("z2" :> Put("z1", <<"cz2", "s1">>, 16, 10))
    @@ ("z3" :> Put("z2", <<"ca3", "again">>, 16, 11))
    @@ ("w2" :> Put("z1", <<"cw2">>, 8, 10))
    @@ ("e2" :> Put("a1", <<"ch2", "young">>, 8, 4))
    @@ ("f2" :> Put("a1", <<"cf2", "s1">>, 8, 4))
    @@ ("k2" :> Put("a1", <<"cg">>, 8, 4))
    @@ ("v3" :> Put("a2", <<"cv3">>, 8, 2))
    @@ ("m3" :> Put("a2", <<"cv3", "more">>, 8, 6))
    @@ ("y3" :> Put("a2", <<"cy3", "late">>, 8, 6))
    @@ ("x4" :> Put("a3", <<"cx4", "again">>, 4, 7))
    @@ ("bad2" :> Put("a1", <<"cb2">>, 8, 4))
    @@ ("i2" :> Put("a1", <<"cb2", "forged">>, 8, 4))
    @@ ("u2" :> Put("z1", <<"cz2", "d1", "s1">>, 16, 10))

MCBadScripts == { <<"forged", 1>> }
MCCheckpoints == 4 :> "c4"
=============================================================================
