----------------------------- MODULE Organizer -----------------------------
(***************************************************************************)
(* How blocks enter the main chain: bdb_blockchain::do_store, the orphan   *)
(* pool, the organizer that moves the heaviest valid branch from the pool  *)
(* to the chain, and the database transaction around it.                   *)
(*                                                                         *)
(* Everything here runs on the blockchain's strand (async_strand::queue),  *)
(* one do_store at a time.  Each iteration of the code's loops is one step *)
(* so that a process crash can fall between any two of them.  The steps of *)
(* another do_store never interleave: they need pc = "idle".               *)
(*                                                                         *)
(* A block is a model value standing for its header (the pool compares     *)
(* headers, the database header hashes; SHA-256 is taken as injective).    *)
(* Database operations are taken to succeed.                               *)
(***************************************************************************)
EXTENDS Integers, Sequences, Functions

CONSTANTS
    Blocks,         \* every block that is ever handed to store()
    Genesis,        \* genesis_block(), saved at depth 0 by setup()
    Parent,         \* previous_block_hash: a block, or NullHash
    NullHash,       \* stands for every previous hash that is no block
    Work,           \* block_work(bits) of a block
    CumWork,        \* total work from a block's root up to the block
    Height,         \* number of ancestors of a block
    Bad,            \* blocks validate_block rejects wherever they connect
    Early,          \* blocks whose timestamp is initially too far ahead
    PoolSize,       \* capacity of orphans_pool (20 in the code)
    FlushInterval,  \* stores between two checkpoints (2000 in the code)
    MaxBoots        \* bound on the number of restarts

\* Blocks form a forest; its roots are Genesis and the children of unknown
\* blocks.
ASSUME ForestAssumption ==
    /\ Genesis \in Blocks
    /\ NullHash \notin Blocks
    /\ Parent \in [Blocks -> Blocks \cup {NullHash}]
    /\ Parent[Genesis] = NullHash
    /\ Height \in [Blocks -> Nat]
    /\ Height[Genesis] = 0
    /\ \A b \in Blocks :
          Parent[b] \in Blocks => Height[b] = Height[Parent[b]] + 1

ASSUME WorkAssumption ==
    /\ Work \in [Blocks -> Nat]
    /\ CumWork \in [Blocks -> Nat]
    /\ \A b \in Blocks :
          Parent[b] \in Blocks => CumWork[b] = CumWork[Parent[b]] + Work[b]

ASSUME BoundsAssumption ==
    /\ Bad \subseteq Blocks \ {Genesis}
    /\ Early \subseteq Blocks \ {Genesis}
    /\ PoolSize \in Nat \ {0}
    /\ FlushInterval \in Nat \ {0}
    /\ MaxBoots \in Nat

VARIABLES
    pc,             \* where the strand is in do_store / organizer::start
    chain,          \* db_blocks_ as the open transaction sees it; the block
                    \* at depth d is chain[d + 1]
    committed,      \* db_blocks_ as of the last committed transaction
    recoverable,    \* the committed states a crash may fall back to: commits
                    \* are not synced (DB_TXN_NOSYNC) until a checkpoint
    pool,           \* orphans_pool::pool_, oldest first
    unprocessed,    \* blocks whose detail in the pool has processed_ = false
    process_queue,  \* organizer::process_queue_
    stored,         \* the block do_store was called with
    detail,         \* errc() and info() of its stored_detail
    replies,        \* the calls of handle_store made by this do_store
    process_block,  \* local of organizer::start
    orphan_chain,   \* local of organizer::process
    fork_index,     \* local of organizer::process
    iter,           \* the position of the loop that is running
    orphan_work,    \* local of replace_chain
    main_work,      \* local of replace_chain
    replaced_slice, \* local of replace_chain
    flush_counter,  \* static local of do_store
    early,          \* blocks whose timestamp is still too far in the future
    weighed,        \* history: blocks whose branch was compared by work
    boots           \* history: number of restarts so far

db == <<chain, committed, recoverable>>
orphans == <<pool, unprocessed, process_queue>>
call == <<stored, detail, replies>>
locals == <<process_block, orphan_chain, fork_index, iter,
            orphan_work, main_work, replaced_slice>>
others == <<flush_counter, early, weighed, boots>>
vars == <<pc, db, orphans, call, locals, others>>

Info(ec, status, depth) == [ec |-> ec, status |-> status, depth |-> depth]

Codes == {"success", "duplicate", "invalid_block", "futuristic_timestamp",
          "previous_block_invalid"}
Statuses == {"orphan", "confirmed", "rejected"}

Last(s) == s[Len(s)]

\* circular_buffer::erase and vector::erase.
RemoveAt(s, i) == SubSeq(s, 1, i - 1) \o SubSeq(s, i + 1, Len(s))

\* Operators whose name ends in "Fault" are slips that the code could have
\* made.  They are used nowhere in the specification: each stands before the
\* definition it would take the place of, to show that the properties tell the
\* two apart.

\* circular_buffer::push_back: the oldest element makes room.
PushBack(p, b) == Append(IF Len(p) < PoolSize THEN p ELSE Tail(p), b)

\* The part of the main chain up to the fork at depth f ...
Kept(c, f) == SubSeq(c, 1, f + 1)

\* ... and the part that end_slice returns, in the order of the cursor.
Sliced(c, f) == SubSeq(c, f + 2, Len(c))

\* The locals of start(), process() and replace_chain() before they are set
\* and after the functions have returned.
NoLocals ==
    /\ process_block' = Genesis
    /\ orphan_chain' = <<>>
    /\ fork_index' = 0
    /\ iter' = 0
    /\ orphan_work' = 0
    /\ main_work' = 0
    /\ replaced_slice' = <<>>

-----------------------------------------------------------------------------
\* setup() has saved the genesis block; initialize() has made an empty pool.
Init ==
    /\ pc = "idle"
    /\ chain = <<Genesis>>
    /\ committed = <<Genesis>>
    /\ recoverable = {<<Genesis>>}
    /\ pool = <<>>
    /\ unprocessed = {}
    /\ process_queue = {}
    /\ stored = Genesis
    /\ detail = Info("success", "orphan", 0)
    /\ replies = <<>>
    /\ process_block = Genesis
    /\ orphan_chain = <<>>
    /\ fork_index = 0
    /\ iter = 0
    /\ orphan_work = 0
    /\ main_work = 0
    /\ replaced_slice = <<>>
    /\ flush_counter = 0
    /\ early = Early
    /\ weighed = {}
    /\ boots = 0

\* do_store of a block that find_index finds in the main chain: one reply and
\* an early return.
StoreConfirmed(b) ==
    /\ pc = "idle"
    /\ \E i \in DOMAIN chain :
          /\ chain[i] = b
          /\ replies' = <<Info("duplicate", "confirmed", i - 1)>>
    /\ stored' = b
    /\ detail' = Info("success", "orphan", 0)
    /\ UNCHANGED <<pc, db, orphans, locals, others>>

\* do_store of a block that is in the pool already: orphans_pool::add fails,
\* handle_store is called, and do_store goes on to organizer::start.
StoreDuplicateOrphan(b) ==
    /\ pc = "idle"
    /\ b \notin Range(chain)
    /\ b \in Range(pool)
    /\ replies' = <<Info("duplicate", "orphan", 0)>>
    /\ stored' = b
    /\ detail' = Info("success", "orphan", 0)
    /\ process_queue' = unprocessed \cap Range(pool)
    /\ pc' = "start"
    /\ UNCHANGED <<db, pool, unprocessed, locals, others>>

\* do_store of a new block up to the first line of organizer::start.
StoreNew(b) ==
    /\ pc = "idle"
    /\ b \notin Range(chain)
    /\ b \notin Range(pool)
    /\ pool' = PushBack(pool, b)
    /\ unprocessed' = unprocessed \cup {b}
    /\ process_queue' = unprocessed' \cap Range(pool')
    /\ replies' = <<>>
    /\ stored' = b
    /\ detail' = Info("success", "orphan", 0)
    /\ weighed' = weighed \ {b}
    /\ pc' = "start"
    /\ UNCHANGED <<db, locals, flush_counter, early, boots>>

DoStore(b) == StoreConfirmed(b) \/ StoreDuplicateOrphan(b) \/ StoreNew(b)

-----------------------------------------------------------------------------
\* organizer::start takes the unprocessed block that came into the pool first
\* and begins tracing its branch.
NextUnprocessed ==
    /\ pc = "start"
    /\ \E i \in DOMAIN pool :
          /\ pool[i] \in process_queue
          /\ \A j \in 1 .. i - 1 : pool[j] \notin process_queue
          /\ process_block' = pool[i]
          /\ orphan_chain' = <<pool[i]>>
          /\ process_queue' = process_queue \ {pool[i]}
    /\ pc' = "trace"
    /\ UNCHANGED <<db, pool, unprocessed, call, fork_index, iter,
                   orphan_work, main_work, replaced_slice, others>>

\* A loop that does not move on to the parent it has found.
TraceBackFault ==
    /\ pc = "trace"
    /\ Parent[Head(orphan_chain)] \in Range(pool)
    /\ UNCHANGED vars

\* One turn of the loop of orphans_pool::trace: the parent is in the pool.
TraceBack ==
    /\ pc = "trace"
    /\ Parent[Head(orphan_chain)] \in Range(pool)
    /\ orphan_chain' = <<Parent[Head(orphan_chain)]>> \o orphan_chain
    /\ UNCHANGED <<pc, db, orphans, call, process_block, fork_index, iter,
                   orphan_work, main_work, replaced_slice, others>>

\* The end of process(): mark_processed, the transaction is closed, locals go.
Processed ==
    /\ unprocessed' = unprocessed \ {process_block}
    /\ pc' = "start"
    /\ NoLocals

\* A block that does not connect is queued again.
\* trace() is at its end and its branch does not connect to the main chain.
TraceDisconnected ==
    /\ pc = "trace"
    /\ Parent[Head(orphan_chain)] \notin Range(pool)
    /\ Parent[Head(orphan_chain)] \notin Range(chain)
    /\ Processed
    /\ UNCHANGED <<db, pool, process_queue, call, others>>

\* trace() is at its end and find_index finds where its branch forks off.
TraceConnected ==
    /\ pc = "trace"
    /\ Parent[Head(orphan_chain)] \notin Range(pool)
    /\ \E i \in DOMAIN chain :
          /\ chain[i] = Parent[Head(orphan_chain)]
          /\ fork_index' = i - 1
    /\ iter' = 0
    /\ orphan_work' = 0
    /\ pc' = "verify"
    /\ UNCHANGED <<db, orphans, call, process_block, orphan_chain, main_work,
                   replaced_slice, others>>

-----------------------------------------------------------------------------
\* validate_block::start: the timestamp is the part of a block's validity that
\* changes with time (check_block's futuristic_timestamp).
Valid(b) == b \notin Bad /\ b \notin early

\* replace_chain's loop: the next block of the branch verifies.
VerifyPass ==
    /\ pc = "verify"
    /\ iter < Len(orphan_chain)
    /\ Valid(orphan_chain[iter + 1])
    /\ orphan_work' = orphan_work + Work[orphan_chain[iter + 1]]
    /\ iter' = iter + 1
    /\ UNCHANGED <<pc, db, orphans, call, process_block, orphan_chain,
                   fork_index, main_work, replaced_slice, others>>

\* What clip_orphans does to one block of the branch (the one at iter): out of
\* the pool, out of the queue, out of the branch.
Clip(b, ec) ==
    /\ \E i \in DOMAIN pool : pool[i] = b /\ pool' = RemoveAt(pool, i)
    /\ process_queue' = process_queue \ {b}
    /\ unprocessed' = unprocessed \ {b}
    /\ detail' = IF b = stored THEN Info(ec, "rejected", 0) ELSE detail
    /\ orphan_chain' = RemoveAt(orphan_chain, iter + 1)
    /\ UNCHANGED <<db, stored, replies, process_block, fork_index, iter,
                   orphan_work, main_work, replaced_slice, others>>

\* The next block does not verify: it is clipped with the reason it failed.
VerifyFail ==
    /\ pc = "verify"
    /\ iter < Len(orphan_chain)
    /\ LET b == orphan_chain[iter + 1]
       IN  /\ ~Valid(b)
           /\ Clip(b, IF b \in Bad THEN "invalid_block"
                                   ELSE "futuristic_timestamp")
    /\ pc' = "clip"

\* Every block after it in the branch is clipped too.
ClipOrphan ==
    /\ pc = "clip"
    /\ iter < Len(orphan_chain)
    /\ Clip(orphan_chain[iter + 1], "previous_block_invalid")
    /\ UNCHANGED pc

\* The loop over the branch has ended, or was broken off after clipping; iter
\* becomes the cursor of end_slice_difficulty, the depth before the next block
\* that it reads.
VerifyDone ==
    /\ pc \in {"verify", "clip"}
    /\ iter = Len(orphan_chain)
    /\ iter' = fork_index
    /\ main_work' = 0
    /\ pc' = "weigh"
    /\ UNCHANGED <<db, orphans, call, process_block, orphan_chain, fork_index,
                   orphan_work, replaced_slice, others>>

-----------------------------------------------------------------------------
\* One turn of the loop of end_slice_difficulty.
WeighMain ==
    /\ pc = "weigh"
    /\ iter + 1 < Len(chain)
    /\ main_work' = main_work + Work[chain[iter + 2]]
    /\ iter' = iter + 1
    /\ UNCHANGED <<pc, db, orphans, call, process_block, orphan_chain,
                   fork_index, orphan_work, replaced_slice, others>>

LongestFault == Len(orphan_chain) <= Len(chain) - fork_index - 1

\* The comparison of the two sides of the fork.
NotHeavier == orphan_work <= main_work

\* replace_chain returns: the branch is not heavier than what it would replace.
KeepMain ==
    /\ pc = "weigh"
    /\ iter + 1 = Len(chain)
    /\ NotHeavier
    /\ weighed' = weighed \cup Range(orphan_chain)
    /\ Processed
    /\ UNCHANGED <<db, pool, process_queue, call, flush_counter, early, boots>>

\* The blocks being replaced go back to the pool first.
EndSliceFault ==
    /\ pc = "weigh"
    /\ iter + 1 = Len(chain)
    /\ ~NotHeavier
    /\ replaced_slice' = Sliced(chain, fork_index)
    /\ chain' = Kept(chain, fork_index)
    /\ LET joined == pool \o Sliced(chain, fork_index)
           excess == Len(joined) - PoolSize
       IN  pool' = SubSeq(joined, IF excess > 0 THEN excess + 1 ELSE 1,
                          Len(joined))
    /\ iter' = 0
    /\ pc' = "arrive"
    /\ UNCHANGED <<committed, recoverable, unprocessed, process_queue, call,
                   process_block, orphan_chain, fork_index, orphan_work,
                   main_work, others>>

\* end_slice: the blocks above the fork leave the main chain; they are new
\* details, not processed yet.
EndSlice ==
    /\ pc = "weigh"
    /\ iter + 1 = Len(chain)
    /\ ~NotHeavier
    /\ replaced_slice' = Sliced(chain, fork_index)
    /\ chain' = Kept(chain, fork_index)
    /\ unprocessed' = unprocessed \cup Range(Sliced(chain, fork_index))
    /\ iter' = 0
    /\ weighed' = weighed \cup Range(orphan_chain)
                          \cup Range(Sliced(chain, fork_index))
    /\ pc' = "arrive"
    /\ UNCHANGED <<committed, recoverable, pool, process_queue, call,
                   process_block, orphan_chain, fork_index, orphan_work,
                   main_work, flush_counter, early, boots>>

ArrivalDepthFault == fork_index + iter

\* arrival_index after its increment.
ArrivalDepth == fork_index + iter + 1

\* One arrival block moves from the pool to the end of the main chain.
Arrive ==
    /\ pc = "arrive"
    /\ iter < Len(orphan_chain)
    /\ LET b == orphan_chain[iter + 1]
       IN  /\ \E i \in DOMAIN pool : pool[i] = b /\ pool' = RemoveAt(pool, i)
           /\ detail' = IF b = stored
                        THEN Info(detail.ec, "confirmed", ArrivalDepth)
                        ELSE detail
           /\ chain' = Append(chain, b)
    /\ iter' = iter + 1
    /\ UNCHANGED <<pc, committed, recoverable, unprocessed, process_queue,
                   stored, replies, process_block, orphan_chain, fork_index,
                   orphan_work, main_work, replaced_slice, others>>

ArriveDone ==
    /\ pc = "arrive"
    /\ iter = Len(orphan_chain)
    /\ iter' = 0
    /\ pc' = "restore"
    /\ UNCHANGED <<db, orphans, call, process_block, orphan_chain, fork_index,
                   orphan_work, main_work, replaced_slice, others>>

\* The loop stops one block short.
RestoreFault ==
    /\ pc = "restore"
    /\ iter < Len(replaced_slice)
    /\ LET b == replaced_slice[iter + 1]
       IN  /\ pool' = IF b \in Range(pool) \/ iter + 1 = Len(replaced_slice)
                      THEN pool ELSE PushBack(pool, b)
           /\ unprocessed' = unprocessed \ {b}
    /\ iter' = iter + 1
    /\ UNCHANGED <<pc, db, process_queue, call, process_block, orphan_chain,
                   fork_index, orphan_work, main_work, replaced_slice, others>>

\* One replaced block goes back to the pool, already processed.
Restore ==
    /\ pc = "restore"
    /\ iter < Len(replaced_slice)
    /\ LET b == replaced_slice[iter + 1]
       IN  /\ pool' = IF b \in Range(pool) THEN pool ELSE PushBack(pool, b)
           /\ unprocessed' = unprocessed \ {b}
    /\ iter' = iter + 1
    /\ UNCHANGED <<pc, db, process_queue, call, process_block, orphan_chain,
                   fork_index, orphan_work, main_work, replaced_slice, others>>

\* Subscribers are told, but nothing is committed until the next checkpoint.
CommitAndNotifyFault ==
    /\ pc = "restore"
    /\ iter = Len(replaced_slice)
    /\ committed' = chain
    /\ Processed
    /\ UNCHANGED <<chain, recoverable, pool, process_queue, call, others>>

\* chain_->stop() commits, then subscribers are told of the reorganisation.
CommitAndNotify ==
    /\ pc = "restore"
    /\ iter = Len(replaced_slice)
    /\ committed' = chain
    /\ recoverable' = recoverable \cup {chain}
    /\ Processed
    /\ UNCHANGED <<chain, pool, process_queue, call, others>>

-----------------------------------------------------------------------------
\* ++flush_counter == 2000
FlushDue == flush_counter + 1 = FlushInterval

\* The queue is empty: do_store replies and checkpoints the database every
\* FlushInterval stores.
Reply ==
    /\ pc = "start"
    /\ process_queue = {}
    /\ replies' = Append(replies, detail)
    /\ IF FlushDue
       THEN flush_counter' = 0 /\ recoverable' = {committed}
       ELSE flush_counter' = flush_counter + 1 /\ UNCHANGED recoverable
    /\ pc' = "idle"
    /\ UNCHANGED <<chain, committed, orphans, stored, detail, locals, early,
                   weighed, boots>>

\* The process starts anew on database state c: initialize() opens it with
\* DB_RECOVER and makes an empty pool.  Whatever was in memory is gone.
Boot(c) ==
    /\ boots < MaxBoots
    /\ boots' = boots + 1
    /\ pc' = "idle"
    /\ chain' = c
    /\ committed' = c
    /\ recoverable' = {c}
    /\ pool' = <<>>
    /\ unprocessed' = {}
    /\ process_queue' = {}
    /\ stored' = Genesis
    /\ detail' = Info("success", "orphan", 0)
    /\ replies' = <<>>
    /\ NoLocals
    /\ flush_counter' = 0
    /\ weighed' = {}
    /\ UNCHANGED early

\* The process dies at any point; the uncommitted transaction is rolled back
\* and unsynced commits may be lost, the latest first.  A stop() between two
\* stores followed by start() is the case c = committed, pc = "idle": closing
\* the databases flushes them.
Crash == \E c \in recoverable : Boot(c)

\* Time passes and a block's timestamp comes within two hours of the clock.
Tick ==
    /\ \E b \in early : early' = early \ {b}
    /\ UNCHANGED <<pc, db, orphans, call, locals, flush_counter, weighed,
                   boots>>

\* The code of do_store once it has been entered.
Step ==
    \/ NextUnprocessed \/ TraceBack \/ TraceDisconnected \/ TraceConnected
    \/ VerifyPass \/ VerifyFail \/ ClipOrphan \/ VerifyDone
    \/ WeighMain \/ KeepMain \/ EndSlice
    \/ Arrive \/ ArriveDone \/ Restore \/ CommitAndNotify
    \/ Reply

Next ==
    \/ \E b \in Blocks : DoStore(b)
    \/ Step
    \/ Crash
    \/ Tick

Spec == Init /\ [][Next]_vars

\* The thread that runs the strand keeps running it.
FairSpec == Spec /\ WF_vars(Step)

-----------------------------------------------------------------------------
(***************************************************************************)
(* Properties                                                              *)
(***************************************************************************)
PCs == {"idle", "start", "trace", "verify", "clip", "weigh", "arrive",
        "restore"}

InfoType == [ec : Codes, status : Statuses, depth : Nat]

\* Every variable has its type; indices and sums of work are natural numbers
\* (the code keeps depths in int and uint32_t).
TypeOK ==
    /\ pc \in PCs
    /\ chain \in Seq(Blocks)
    /\ committed \in Seq(Blocks)
    /\ recoverable \subseteq Seq(Blocks)
    /\ pool \in Seq(Blocks)
    /\ unprocessed \subseteq Blocks
    /\ process_queue \subseteq Blocks
    /\ stored \in Blocks
    /\ detail \in InfoType
    /\ replies \in Seq(InfoType)
    /\ process_block \in Blocks
    /\ orphan_chain \in Seq(Blocks)
    /\ fork_index \in Nat
    /\ iter \in Nat
    /\ orphan_work \in Nat
    /\ main_work \in Nat
    /\ replaced_slice \in Seq(Blocks)
    /\ flush_counter \in 0 .. FlushInterval - 1
    /\ early \subseteq Early
    /\ weighed \subseteq Blocks
    /\ boots \in 0 .. MaxBoots

\* A sequence of blocks that starts at genesis, each naming the one before it.
IsMainChain(c) ==
    /\ Len(c) > 0
    /\ c[1] = Genesis
    /\ \A i \in 1 .. Len(c) - 1 : Parent[c[i + 1]] = c[i]

\* Whatever a crash falls back to, however far a reorganisation had come, is a
\* whole main chain without an invalid block: replace_chain commits only once
\* every arrival block has been added, and adds only blocks that verified.
DurableChainsWhole ==
    \A c \in recoverable : IsMainChain(c) /\ Range(c) \cap Bad = {}

\* The chain never grows by a block that does not name the tip it is put on,
\* in the middle of a reorganisation either.
ChainLinked == IsMainChain(chain)

NoDuplicates(s) == \A i, j \in DOMAIN s : s[i] = s[j] => i = j

\* The pool keeps its capacity, holds no block twice and none that is on the
\* main chain: replace_chain takes arrivals out before it puts them on the
\* chain, and end_slice's blocks are off the chain when they come back.
PoolSound ==
    /\ Len(pool) <= PoolSize
    /\ NoDuplicates(pool)
    /\ Range(pool) \cap Range(chain) = {}

\* orphans_pool::remove asserts that it finds the block.  It is called for
\* every block of the branch, by clip_orphans or by replace_chain: none of them
\* has been pushed off the circular buffer or removed before.
RemoveFinds ==
    pc \in {"trace", "verify", "clip", "weigh", "arrive"} =>
        \A k \in DOMAIN orphan_chain :
            \/ pc = "arrive" /\ k <= iter
            \/ orphan_chain[k] \in Range(pool)

\* Only the block being stored is ever waiting to be processed, and none is
\* once the store has been answered, so start() never leaves work behind.
OnlyStoredUnprocessed ==
    /\ unprocessed \cap Range(pool) \subseteq {stored}
    /\ pc = "idle" => unprocessed \cap Range(pool) = {}

\* The reorganisation handed to subscribers is exact: taking replaced_slice off
\* the last chain they knew of and putting the arrivals on gives the new one.
NotificationExact ==
    pc = "restore" =>
        LET common == SubSeq(committed, 1, fork_index + 1)
        IN  /\ committed = common \o replaced_slice
            /\ chain = common \o orphan_chain

\* The last answer to a store is true when it is given: a confirmed block is
\* on the main chain at the depth reported, an orphan is in the pool, a
\* rejected block is nowhere.
AnswerTrue ==
    pc = "idle" /\ replies # <<>> =>
        LET r == Last(replies)
        IN  CASE r.status = "confirmed" ->
                    /\ r.depth + 1 \in DOMAIN committed
                    /\ committed[r.depth + 1] = stored
              [] r.status = "orphan" -> stored \in Range(pool)
              [] r.status = "rejected" ->
                    stored \notin Range(pool) \cup Range(committed)

\* Fork choice: no orphan that was ever weighed against the main chain is
\* heavier than the chain's tip, whatever was replaced or clipped since.
NoHeavierWeighedOrphan ==
    pc = "idle" =>
        \A b \in weighed \cap Range(pool) : CumWork[b] <= CumWork[Last(committed)]

\* Except by a crash, the committed chain only changes to one with strictly
\* more total work: orphan_work and main_work are the exact weights of the two
\* sides of the fork when replace_chain compares them.
WorkGrows ==
    [][boots' = boots /\ committed' # committed
          => CumWork[Last(committed')] > CumWork[Last(committed)]]_vars

\* Every store that was begun is finished (or cut short by a crash): the loops
\* of trace, replace_chain, clip_orphans and start all end.
StoreEnds == pc # "idle" ~> pc = "idle"

\* "Blocks added to the blockchain are taken out of the orphan's pool, and
\* returned back to the pool when removed from the blockchain."
\* (doc/organize/index.html): when replace_chain is done every replaced block is
\* an orphan again, unless the pool has no room for all of them.
ReplacedReturnToPool ==
    pc = "restore" /\ iter = Len(replaced_slice) /\ iter <= PoolSize =>
        Range(replaced_slice) \subseteq Range(pool)

\* The chain, the pool, the queue and what is told of them agree at every step
\* of do_store and after every crash: ChainLinked, DurableChainsWhole,
\* PoolSound, RemoveFinds, OnlyStoredUnprocessed and NotificationExact.
OrganizerConsistent ==
    /\ TypeOK /\ ChainLinked /\ DurableChainsWhole
    /\ PoolSound /\ RemoveFinds /\ OnlyStoredUnprocessed
    /\ NotificationExact
=============================================================================
