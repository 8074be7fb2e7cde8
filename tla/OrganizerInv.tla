---------------------------- MODULE OrganizerInv ----------------------------
(***************************************************************************)
(* The inductive invariant of Organizer, in named parts: what holds        *)
(* between any two steps of do_store and makes its safety properties hold. *)
(***************************************************************************)
EXTENDS Organizer

Branching == {"verify", "clip", "weigh", "arrive", "restore"}
Swapping == {"arrive", "restore"}

\* A main chain without an invalid block; the block at depth d has height d, so
\* no block is on it twice.
GoodChain(c) ==
    /\ IsMainChain(c)
    /\ \A i \in 1 .. Len(c) : Height[c[i]] = i - 1 /\ c[i] \notin Bad

\* Outside a swap the transaction has changed nothing.
ChainPart ==
    /\ GoodChain(chain)
    /\ GoodChain(committed)
    /\ committed \in recoverable
    /\ \A c \in recoverable : GoodChain(c)
    /\ pc \notin Swapping => chain = committed

\* Until replaced blocks come back, the pool is also disjoint from the chain
\* that is being replaced.
PoolPart ==
    /\ PoolSound
    /\ pc # "restore" => Range(pool) \cap Range(committed) = {}

\* The only detail that is not processed is the stored one, or one that
\* end_slice has made and that is yet to go back to the pool.
QueuePart ==
    /\ pc = "idle" => unprocessed = {} /\ process_queue = {}
    /\ pc = "start" =>
          /\ unprocessed = process_queue
          /\ \/ process_queue = {}
             \/ process_queue = {stored} /\ stored \in Range(pool)
    /\ pc \notin {"idle", "start"} =>
          /\ process_queue = {}
          /\ process_block = stored
    /\ \A b \in unprocessed :
          \/ b = stored
          \/ pc = "arrive" /\ b \in Range(replaced_slice)
          \/ pc = "restore" /\ \E k \in iter + 1 .. Len(replaced_slice) :
                                  replaced_slice[k] = b

\* How much of orphan_chain is still a connected branch: what is left above
\* iter while it is being clipped has lost its parent.
Connected == IF pc = "clip" THEN iter ELSE Len(orphan_chain)

\* How much of it verify() has accepted.
Verified == IF pc \in {"verify", "clip"} THEN iter ELSE Len(orphan_chain)

\* The traced branch: distinct blocks of the pool, each the parent of the next.
TracePart ==
    pc \in {"trace"} \cup Branching =>
        /\ pc = "trace" => Len(orphan_chain) > 0
        /\ pc = "trace" =>
              \A k \in 1 .. Len(orphan_chain) :
                 Height[orphan_chain[k]] = Height[orphan_chain[1]] + k - 1
        /\ NoDuplicates(orphan_chain)
        /\ \A k \in 1 .. Connected - 1 :
              Parent[orphan_chain[k + 1]] = orphan_chain[k]
        /\ \A k \in 1 .. Len(orphan_chain) :
              pc \notin Swapping \/ (pc = "arrive" /\ k > iter) =>
                 orphan_chain[k] \in Range(pool)

\* The branch forks off the committed chain at depth fork_index and what has
\* been verified of it is valid.
ForkPart ==
    pc \in Branching =>
        /\ fork_index + 1 <= Len(committed)
        /\ Verified <= Len(orphan_chain)
        /\ \A k \in 1 .. Verified : orphan_chain[k] \notin Bad
        /\ \A k \in 1 .. Connected : Height[orphan_chain[k]] = fork_index + k
        /\ Connected > 0 => Parent[orphan_chain[1]] = committed[fork_index + 1]

\* Total work of the first k blocks of the branch.
BranchWork(k) ==
    IF k = 0 THEN 0
    ELSE CumWork[orphan_chain[k]] - CumWork[committed[fork_index + 1]]

\* The two sums replace_chain compares are those of the two sides of the fork.
WorkPart ==
    /\ pc \in {"verify", "clip"} => orphan_work = BranchWork(iter)
    /\ pc = "weigh" =>
          /\ orphan_work = BranchWork(Len(orphan_chain))
          /\ fork_index <= iter
          /\ iter + 1 <= Len(committed)
          /\ main_work = CumWork[committed[iter + 1]]
                           - CumWork[committed[fork_index + 1]]

\* During a swap the chain is the common part and the arrivals so far, and
\* replaced_slice is what was above the fork.
SwapPart ==
    pc \in Swapping =>
        /\ Len(orphan_chain) > 0
        /\ CumWork[Last(orphan_chain)] > CumWork[Last(committed)]
        /\ pc = "arrive" => iter <= Len(orphan_chain)
        /\ pc = "restore" => iter <= Len(replaced_slice)
        /\ Len(chain) = fork_index + 1 +
                          (IF pc = "arrive" THEN iter ELSE Len(orphan_chain))
        /\ \A i \in 1 .. fork_index + 1 : chain[i] = committed[i]
        /\ \A k \in 1 .. Len(chain) - fork_index - 1 :
              chain[fork_index + 1 + k] = orphan_chain[k]
        /\ Len(replaced_slice) = Len(committed) - fork_index - 1
        /\ \A k \in 1 .. Len(replaced_slice) :
              /\ replaced_slice[k] = committed[fork_index + 1 + k]
              /\ replaced_slice[k] \notin Range(chain)
              /\ pc = "restore" /\ k > iter =>
                    replaced_slice[k] \notin Range(pool)

\* All parts together: what every step of do_store keeps.
IndInv ==
    /\ TypeOK
    /\ ChainPart
    /\ PoolPart
    /\ QueuePart
    /\ TracePart
    /\ ForkPart
    /\ WorkPart
    /\ SwapPart

-----------------------------------------------------------------------------
(***************************************************************************)
(* What do_store tells its caller, and what becomes of the blocks that were*)
(* weighed or replaced: a second invariant that rests on the first.        *)
(***************************************************************************)

\* Total work does not fall along a sequence of blocks.
Rising(s) == \A i, j \in 1 .. Len(s) : i <= j => CumWork[s[i]] <= CumWork[s[j]]

RisingPart ==
    /\ Rising(chain)
    /\ Rising(orphan_chain)
    /\ \A c \in recoverable : Rising(c)

\* No orphan that was weighed is heavier than the tip, or than the one that is
\* about to take its place.
WeighedPart ==
    /\ pc \notin Swapping =>
          \A b \in weighed \cap Range(pool) : CumWork[b] <= CumWork[Last(committed)]
    /\ pc \in Swapping =>
          \A b \in weighed \cap (Range(pool) \cup Range(replaced_slice)) :
             CumWork[b] <= CumWork[Last(orphan_chain)]

\* The replaced blocks that are back are the last ones of the pool, in order.
RestoredPart ==
    pc = "restore" =>
        /\ iter <= Len(pool) \/ Len(pool) = PoolSize
        /\ \A k \in 1 .. iter :
              Len(pool) - iter + k > 0 => pool[Len(pool) - iter + k] = replaced_slice[k]

\* What the detail of the stored block says is where the block is.
DetailPart ==
    pc # "idle" =>
        /\ detail.status = "orphan" =>
              /\ pc # "restore"
              /\ stored \in Range(pool)
              /\ pc # "start" => stored \in Range(orphan_chain)
        /\ detail.status = "rejected" =>
              /\ stored \notin Range(pool) \cup Range(chain) \cup Range(committed)
              /\ pc # "start" => stored \notin Range(orphan_chain)
        /\ detail.status = "confirmed" =>
              /\ pc \in {"start"} \cup Swapping
              /\ detail.depth + 1 \in 1 .. Len(chain)
              /\ chain[detail.depth + 1] = stored

OutcomeInv ==
    /\ RisingPart
    /\ WeighedPart
    /\ RestoredPart
    /\ DetailPart
    /\ AnswerTrue

-----------------------------------------------------------------------------
Promised == INSTANCE ChainPromise WITH main <- committed, durable <- recoverable

\* do_store, the pool, the organizer and the crashes implement ChainPromise:
\* readers of the database see one whole chain give way to a heavier one in
\* one step, and a restart goes back to a chain they have seen.
KeepsPromise == Promised!Promise
=============================================================================
