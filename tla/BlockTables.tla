---------------------------- MODULE BlockTables ----------------------------
(***************************************************************************)
(* The Berkeley DB tables behind the block chain: db_blocks_ (with its     *)
(* secondary index db_blocks_hash_), db_txs_, db_spends_ and db_address_,  *)
(* and the operations of bdb_common and bdb_chain_keeper that write them.  *)
(*                                                                         *)
(* A table state is one record db:                                         *)
(*   blocks   the main chain, db.blocks[d + 1] being the block at depth d; *)
(*   txs      transaction -> sequence of its parents [depth, index];       *)
(*   spends   spent output point -> the input point that spends it;        *)
(*   address  the (address, output point) pairs.                           *)
(* Hashes are identifiers.  A write that several statements make returns   *)
(* [ok, db]: ok is the C++ result, and db keeps what was written before    *)
(* the failure, as the open Berkeley DB transaction does.                  *)
(* Positions inside a transaction are counted from 1.                      *)
(***************************************************************************)
EXTENDS Integers, Sequences, FiniteSets, TLC, SequencesExt

CONSTANTS
    Block,    \* block id -> [prev, txs, bits, time]
    Tx,       \* transaction id -> [coinbase, inputs, outputs, lock, final, sigops]
    Genesis   \* the block of block.cpp's genesis_block()

\* An output script from which extract() finds no address.
NoAddress == "none"

ASSUME UniverseAssumption ==
    /\ Genesis \in DOMAIN Block
    /\ \A b \in DOMAIN Block :
        /\ Len(Block[b].txs) > 0
        /\ \A i \in DOMAIN Block[b].txs : Block[b].txs[i] \in DOMAIN Tx
    \* Reading an output that a transaction does not have is undefined.
    /\ \A t \in DOMAIN Tx : \A i \in DOMAIN Tx[t].inputs :
        LET point == Tx[t].inputs[i]
        IN  point[1] \in DOMAIN Tx =>
                point[2] \in DOMAIN Tx[point[1]].outputs

Drop(f, S) == [x \in DOMAIN f \ S |-> f[x]]
Written(d) == [ok |-> TRUE, db |-> d]
Failed(d) == [ok |-> FALSE, db |-> d]

\* Apply Op to every position of seq until one application fails.
UntilFailure(Op(_, _), d, seq) ==
    FoldLeftDomain(LAMBDA done, i : IF done.ok THEN Op(done.db, i) ELSE done,
                   Written(d), seq)

-----------------------------------------------------------------------------
\* Reading.

\* find_last_block_depth: the uint32_t maximum (here -1, its value modulo
\* 2^32) stands for an empty table, so that + 1 is depth 0.
LastDepth(db) == Len(db.blocks) - 1

BlockAt(db, depth) == db.blocks[depth + 1]

\* bdb_chain_keeper::find_index through the secondary index on the hash.
FindIndex(db, b) ==
    IF \E d \in DOMAIN db.blocks : db.blocks[d] = b
    THEN (CHOOSE d \in DOMAIN db.blocks : db.blocks[d] = b) - 1
    ELSE -1

\* reconstruct_block succeeds when every transaction record is found.
Reconstructs(db, b) == Range(Block[b].txs) \subseteq DOMAIN db.txs

\* Coinbase inputs spend nothing.
SpentBy(t) == IF Tx[t].coinbase THEN <<>> ELSE Tx[t].inputs

\* The pairs add_address writes for a transaction.
AddressPairs(t) ==
    { <<Tx[t].outputs[n].address, <<t, n>> >> :
        n \in { m \in DOMAIN Tx[t].outputs :
                  Tx[t].outputs[m].address # NoAddress } }

-----------------------------------------------------------------------------
\* Writing: bdb_common.

\* dupli_save: a transaction that is already stored gets one more parent.
DupliSave(db, t, depth, i) ==
    Written([db EXCEPT !.txs[t] = Append(@, [depth |-> depth, index |-> i])])

\* mark_spent_outputs: DB_NOOVERWRITE refuses an output that is spent already.
MarkSpentOutput(db, t, n) ==
    LET point == Tx[t].inputs[n]
    IN  IF point \in DOMAIN db.spends
        THEN Failed(db)
        ELSE Written([db EXCEPT !.spends = (point :> <<t, n>>) @@ @])

SaveTransaction(db, depth, i, t) ==
    IF t \in DOMAIN db.txs
    THEN DupliSave(db, t, depth, i)
    ELSE LET recorded == [db EXCEPT !.txs =
                            (t :> << [depth |-> depth, index |-> i] >>) @@ @]
             marked == UntilFailure(LAMBDA d, n : MarkSpentOutput(d, t, n),
                                    recorded, SpentBy(t))
         IN  IF marked.ok
             THEN Written([marked.db EXCEPT !.address = @ \cup AddressPairs(t)])
             ELSE marked

SaveBlock(db, depth, b) ==
    LET saved == UntilFailure(
                    LAMBDA d, i : SaveTransaction(d, depth, i, Block[b].txs[i]),
                    db, Block[b].txs)
    IN  IF saved.ok
        THEN Written([saved.db EXCEPT !.blocks = Append(@, b)])
        ELSE saved

\* bdb_chain_keeper::add ignores a failure, beyond logging it.
KeeperAdd(db, b) == SaveBlock(db, LastDepth(db) + 1, b).db

\* bdb_blockchain::setup: truncate every table and save the genesis block.
Setup ==
    SaveBlock([blocks |-> <<>>, txs |-> <<>>, spends |-> <<>>, address |-> {}],
              0, Genesis).db

-----------------------------------------------------------------------------
\* Writing: bdb_chain_keeper.


\* remove_spend accepts that the spend is not found.
RemoveSpends(db, t) == [db EXCEPT !.spends = Drop(@, Range(SpentBy(t)))]

\* remove_address fails when the pair is not there.
RemoveAddress(db, t, n) ==
    LET pair == <<Tx[t].outputs[n].address, <<t, n>> >>
    IN  IF pair[1] # NoAddress /\ pair \notin db.address
        THEN Failed(db)
        ELSE Written([db EXCEPT !.address = @ \ {pair}])

\* clear_transaction_data deletes the record whole, whatever parents it has.
ClearTransaction(db, t) ==
    IF t \in DOMAIN db.txs
    THEN UntilFailure(LAMBDA d, n : RemoveAddress(d, t, n),
                      RemoveSpends([db EXCEPT !.txs = Drop(@, {t})], t),
                      Tx[t].outputs)
    ELSE Failed(db)

\* One turn of end_slice's loop, at the first block after the fork.
SliceBlock(db, fork) ==
    LET b == db.blocks[fork + 2]
    IN  IF Reconstructs(db, b)
        THEN UntilFailure(LAMBDA d, i : ClearTransaction(d, Block[b].txs[i]),
                          [db EXCEPT !.blocks = RemoveAt(@, fork + 2)],
                          Block[b].txs)
        ELSE Failed(db)

\* end_slice(fork + 1): take off every block above the fork, lowest first.
EndSlice(db, fork) ==
    UntilFailure(LAMBDA d, i : SliceBlock(d, fork), db,
                 SubSeq(db.blocks, fork + 2, Len(db.blocks)))

-----------------------------------------------------------------------------
\* Asking: the fetch operations of bdb_blockchain.  Each is one step on the
\* strand do_store runs on, so it sees the tables between two stores.

\* An answer is the sequence of what was found: empty stands for an error.
Found(db, b) == IF FindIndex(db, b) = -1 THEN <<>> ELSE <<b>>

FetchBlockHeaderByDepth(db, depth) ==
    IF depth \in 0..LastDepth(db) THEN <<BlockAt(db, depth)>> ELSE <<>>

FetchBlockHeaderByHash(db, b) == Found(db, b)

\* fetch_blk_tx_hashes_impl, for a header found by depth or by hash.
FetchBlockTransactionHashes(db, b) ==
    IF Found(db, b) = <<>> THEN <<>> ELSE Block[b].txs

FetchBlockDepth(db, b) ==
    IF FindIndex(db, b) = -1 THEN <<>> ELSE <<FindIndex(db, b)>>

FetchLastDepth(db) == IF LastDepth(db) = -1 THEN <<>> ELSE <<LastDepth(db)>>

FetchTransaction(db, t) == IF t \in DOMAIN db.txs THEN <<Tx[t]>> ELSE <<>>

\* The parent with the greatest depth; depth 0, index 0 when there is none
\* deeper than the genesis block.
FetchTransactionIndex(db, t) ==
    IF t \in DOMAIN db.txs
    THEN << FoldLeft(LAMBDA best, p : IF p.depth > best.depth THEN p ELSE best,
                     [depth |-> 0, index |-> 1], db.txs[t]) >>
    ELSE <<>>

FetchSpend(db, point) ==
    IF point \in DOMAIN db.spends THEN db.spends[point] ELSE <<>>

FetchOutputs(db, address) ==
    { pair[2] : pair \in { p \in db.address : p[1] = address } }

-----------------------------------------------------------------------------
\* The tables a chain of blocks ought to have, defined from the chain alone.

\* Every transaction of the chain with the places it occurs at.
Places(chain, t) ==
    { p \in { [depth |-> d - 1, index |-> i] : d \in DOMAIN chain,
                i \in UNION { DOMAIN Block[chain[e]].txs : e \in DOMAIN chain } } :
        /\ p.index \in DOMAIN Block[chain[p.depth + 1]].txs
        /\ Block[chain[p.depth + 1]].txs[p.index] = t }

TxsOf(chain) == UNION { Range(Block[chain[d]].txs) : d \in DOMAIN chain }

\* The input points of a chain, as <<transaction, input, spent output point>>.
SpendsOf(chain) ==
    UNION { { <<t, n, Tx[t].inputs[n]>> : n \in DOMAIN SpentBy(t) } :
              t \in TxsOf(chain) }

Exact(db) ==
    /\ DOMAIN db.txs = TxsOf(db.blocks)
    /\ \A t \in DOMAIN db.txs : ToSet(db.txs[t]) = Places(db.blocks, t)
    /\ { <<db.spends[p][1], db.spends[p][2], p>> : p \in DOMAIN db.spends }
         = SpendsOf(db.blocks)
    /\ db.address = UNION { AddressPairs(t) : t \in TxsOf(db.blocks) }
=============================================================================
