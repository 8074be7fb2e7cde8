--------------------------- MODULE OrganizerSteps ---------------------------
(***************************************************************************)
(* IndInv is inductive: from verify() to the comparison of the two sides   *)
(* of the fork, then the exchange of the main chain's end for the branch.  *)
(* One lemma for each action, under it one step for each part that the     *)
(* action can disturb.                                                     *)
(***************************************************************************)
EXTENDS OrganizerTypes

\* Work of the next block of the branch, as a difference of total work.
LEMMA NextWork ==
    ASSUME IndInv, pc = "verify", iter < Len(orphan_chain)
    PROVE  BranchWork(iter + 1) = BranchWork(iter) + Work[orphan_chain[iter + 1]]
<1> DEFINE b == orphan_chain[iter + 1]
           f == committed[fork_index + 1]
<1>0. /\ iter \in Nat /\ orphan_chain \in Seq(Blocks)
      /\ committed \in Seq(Blocks) /\ fork_index \in Nat
      /\ fork_index + 1 <= Len(committed)
  BY DEF IndInv, TypeOK, ForkPart, Branching
<1>1. b \in Blocks /\ f \in Blocks
  BY <1>0
<1>2. CumWork \in [Blocks -> Nat] /\ Work \in [Blocks -> Nat]
  BY WorkAssumption
<1>3. CASE iter = 0
  <2>1. Parent[b] = f
    BY <1>0, <1>3 DEF IndInv, ForkPart, Branching, Connected
  <2>2. CumWork[b] = CumWork[f] + Work[b]
    BY <1>1, <2>1, WorkAssumption
  <2>3. BranchWork(iter) = 0 /\ BranchWork(iter + 1) = CumWork[b] - CumWork[f]
    BY <1>3 DEF BranchWork
  <2>4. CumWork[f] \in Nat /\ Work[b] \in Nat
    BY <1>1, <1>2
  <2> QED BY <2>2, <2>3, <2>4
<1>4. CASE iter # 0
  <2> DEFINE a == orphan_chain[iter]
  <2>1. a \in Blocks
    BY <1>0, <1>4
  <2>2. Parent[b] = a
    BY <1>0, <1>4 DEF IndInv, TracePart, Branching, Connected
  <2>3. CumWork[b] = CumWork[a] + Work[b]
    BY <1>1, <2>1, <2>2, WorkAssumption
  <2>4. /\ BranchWork(iter) = CumWork[a] - CumWork[f]
        /\ BranchWork(iter + 1) = CumWork[b] - CumWork[f]
    BY <1>0, <1>4 DEF BranchWork
  <2>5. CumWork[a] \in Nat /\ CumWork[f] \in Nat /\ Work[b] \in Nat
    BY <1>1, <1>2, <2>1
  <2> QED BY <2>3, <2>4, <2>5, SMTT(30)
<1> QED BY <1>3, <1>4

\* A block that verifies extends the verified part of the branch.
LEMMA VerifyPassInv ==
    ASSUME IndInv, TypeOK', VerifyPass
    PROVE  IndInv'
<1>0. /\ pc = "verify" /\ pc' = "verify" /\ iter' = iter + 1 /\ iter \in Nat
      /\ iter < Len(orphan_chain) /\ orphan_chain[iter + 1] \notin Bad
      /\ orphan_work' = orphan_work + Work[orphan_chain[iter + 1]]
      /\ UNCHANGED <<chain, committed, recoverable, pool, unprocessed,
                     process_queue, stored, process_block, orphan_chain,
                     fork_index, replaced_slice>>
  BY DEF VerifyPass, Valid, db, orphans, call, IndInv, TypeOK
<1>1. orphan_work = BranchWork(iter)
  BY <1>0 DEF IndInv, WorkPart
<1>2. BranchWork(iter + 1) = BranchWork(iter) + Work[orphan_chain[iter + 1]]
  BY <1>0, NextWork
<1>3. BranchWork(iter)' = BranchWork(iter + 1)
  BY <1>0 DEF BranchWork
<1>4. WorkPart' /\ SwapPart'
  BY <1>0, <1>1, <1>2, <1>3, SwapVacuous DEF WorkPart, Swapping
<1>5. ForkPart'
  <2>1. Len(orphan_chain) \in Nat
    BY DEF IndInv, TypeOK
  <2>2. \A k \in 1 .. iter + 1 : orphan_chain[k] \notin Bad
    BY <1>0, SMTT(20) DEF IndInv, ForkPart, Verified, Branching
  <2> QED BY <1>0, <2>1, <2>2 DEF IndInv, ForkPart, Verified, Connected, Branching
<1>6. TracePart'
  BY <1>0, TraceKept DEF IndInv, Branching, Swapping
<1>7. ChainPart' /\ PoolPart' /\ QueuePart'
  BY <1>0, ChainKept, PoolKept, QueueKept DEF IndInv, Swapping
<1> QED BY <1>4, <1>5, <1>6, <1>7 DEF IndInv

\* What is left of the branch is connected and verified to its end.
LEMMA VerifyDoneInv ==
    ASSUME IndInv, TypeOK', VerifyDone
    PROVE  IndInv'
<1>0. /\ pc \in {"verify", "clip"} /\ pc' = "weigh" /\ iter = Len(orphan_chain)
      /\ iter' = fork_index /\ main_work' = 0
      /\ UNCHANGED <<chain, committed, recoverable, pool, unprocessed,
                     process_queue, stored, process_block, orphan_chain,
                     fork_index, orphan_work, replaced_slice>>
  BY DEF VerifyDone, db, orphans, call
<1>1. fork_index \in Nat /\ committed \in Seq(Blocks)
  BY DEF IndInv, TypeOK
<1>2. TracePart'
  BY <1>0, Zenon DEF IndInv, TracePart, Connected, Branching, Swapping
<1>3. ForkPart'
  BY <1>0 DEF IndInv, ForkPart, Verified, Connected, Branching
<1>4. WorkPart'
  <2>1. fork_index + 1 <= Len(committed)
    BY <1>0 DEF IndInv, ForkPart, Branching
  <2>2. CumWork[committed[fork_index + 1]] \in Nat
    BY <1>1, <2>1, WorkAssumption
  <2>3. orphan_work = BranchWork(Len(orphan_chain))
    BY <1>0 DEF IndInv, WorkPart
  <2>4. BranchWork(Len(orphan_chain))' = BranchWork(Len(orphan_chain))
    BY <1>0 DEF BranchWork
  <2> QED BY <1>0, <1>1, <2>1, <2>2, <2>3, <2>4 DEF WorkPart
<1>5. ChainPart' /\ PoolPart' /\ QueuePart' /\ SwapPart'
  BY <1>0, ChainKept, PoolKept, QueueKept, SwapVacuous DEF IndInv, Swapping
<1> QED BY <1>2, <1>3, <1>4, <1>5 DEF IndInv

\* clip_orphans takes one block out of the pool, the queue and the branch.
LEMMA ClipInv ==
    ASSUME IndInv, TypeOK', pc \in {"verify", "clip"}, pc' = "clip",
           iter < Len(orphan_chain), NEW e, Clip(orphan_chain[iter + 1], e)
    PROVE  IndInv'
<1> DEFINE oc == orphan_chain
           b == orphan_chain[iter + 1]
<1>0. /\ iter \in Nat /\ oc \in Seq(Blocks) /\ pool \in Seq(Blocks)
      /\ iter + 1 \in 1 .. Len(oc)
      /\ process_queue' = process_queue \ {b}
      /\ unprocessed' = unprocessed \ {b}
      /\ oc' = RemoveAt(oc, iter + 1)
      /\ UNCHANGED <<chain, committed, recoverable, stored, process_block,
                     fork_index, iter, orphan_work, replaced_slice>>
  <2>1. iter \in Nat /\ oc \in Seq(Blocks) /\ pool \in Seq(Blocks)
    BY Zenon DEF IndInv, TypeOK
  <2>2. iter + 1 \in 1 .. Len(oc)
    BY <2>1
  <2> QED BY <2>1, <2>2 DEF Clip, db
<1>1. NoDuplicates(oc) /\ NoDuplicates(pool)
  BY DEF IndInv, TracePart, Branching, PoolPart, PoolSound
<1>2. PICK i \in 1 .. Len(pool) : pool[i] = b /\ pool' = RemoveAt(pool, i)
  <2>1. DOMAIN pool = 1 .. Len(pool)
    BY <1>0, DomainLen
  <2> QED BY <2>1 DEF Clip
<1>3. /\ NoDuplicates(pool')
      /\ Range(pool') = Range(pool) \ {b}
      /\ Len(pool') = Len(pool) - 1
  <2>1. /\ NoDuplicates(RemoveAt(pool, i))
        /\ Range(RemoveAt(pool, i)) = Range(pool) \ {pool[i]}
    BY <1>0, <1>1, RemoveAtPool
  <2>2. Len(RemoveAt(pool, i)) = Len(pool) - 1
    BY <1>0, RemoveAtElements
  <2> QED BY <1>2, <2>1, <2>2
<1>4. /\ NoDuplicates(oc')
      /\ Range(oc') = Range(oc) \ {b}
      /\ oc' \in Seq(Blocks)
      /\ Len(oc') = Len(oc) - 1
      /\ \A j \in 1 .. Len(oc) - 1 : oc'[j] = IF j < iter + 1 THEN oc[j] ELSE oc[j + 1]
  <2>1. /\ NoDuplicates(RemoveAt(oc, iter + 1))
        /\ Range(RemoveAt(oc, iter + 1)) = Range(oc) \ {oc[iter + 1]}
    BY <1>0, <1>1, RemoveAtPool
  <2>2. /\ RemoveAt(oc, iter + 1) \in Seq(Blocks)
        /\ Len(RemoveAt(oc, iter + 1)) = Len(oc) - 1
        /\ \A j \in 1 .. Len(oc) - 1 :
              RemoveAt(oc, iter + 1)[j] = IF j < iter + 1 THEN oc[j]
                                                       ELSE oc[j + 1]
    BY <1>0, RemoveAtElements, Zenon
  <2>3. oc' = RemoveAt(oc, iter + 1)
    BY <1>0, Zenon
  <2> QED BY <2>1, <2>2, <2>3, Zenon
<1>5. \A j \in 1 .. iter : j \in 1 .. Len(oc) /\ oc'[j] = oc[j]
  <2> SUFFICES ASSUME NEW j \in 1 .. iter
               PROVE  j \in 1 .. Len(oc) /\ oc'[j] = oc[j]
    OBVIOUS
  <2>1. j \in 1 .. Len(oc) - 1 /\ j < iter + 1 /\ j \in 1 .. Len(oc)
    BY <1>0
  <2> QED BY <1>4, <2>1
<1>6. Range(oc) \subseteq Range(pool)
  <2>1. \A k \in 1 .. Len(oc) : oc[k] \in Range(pool)
    BY DEF IndInv, TracePart, Branching, Swapping
  <2> QED BY <1>0, <2>1, RangeIndex
<1>7. \A k \in 1 .. Len(oc') : oc'[k] \in Range(pool')
  BY <1>3, <1>4, <1>6, InRange
<1>8. TracePart'
  <2>1. \A k \in 1 .. iter - 1 : Parent[oc'[k + 1]] = oc'[k]
    <3>1. \A k \in 1 .. iter - 1 : Parent[oc[k + 1]] = oc[k]
      <4>1. \A k \in 1 .. Connected - 1 : Parent[oc[k + 1]] = oc[k]
        BY Zenon DEF IndInv, TracePart, Branching
      <4>2. iter \in Nat /\ Len(oc) \in Nat /\ iter <= Len(oc)
        BY <1>0
      <4>3. Connected \in Nat /\ iter <= Connected
        BY <4>2 DEF Connected
      <4>4. \A k \in 1 .. iter - 1 : k \in 1 .. Connected - 1
        BY <4>2, <4>3
      <4> QED BY <4>1, <4>4, Zenon
    <3>2. iter \in Nat
      BY <1>0, Zenon
    <3>3. \A k \in 1 .. iter - 1 : k \in 1 .. iter /\ k + 1 \in 1 .. iter
      BY <3>2
    <3> QED BY <1>5, <3>1, <3>3, Zenon
  <2> QED BY <1>0, <1>4, <1>7, <2>1, Zenon DEF TracePart, Connected, Branching, Swapping
<1>9. ForkPart'
  <2>1. /\ fork_index + 1 <= Len(committed)
        /\ \A k \in 1 .. iter : oc[k] \notin Bad /\ Height[oc[k]] = fork_index + k
        /\ iter > 0 => Parent[oc[1]] = committed[fork_index + 1]
    BY <1>0, SMTT(20) DEF IndInv, ForkPart, Branching, Connected, Verified
  <2>2. iter <= Len(oc')
    BY <1>0, <1>4
  <2>3. \A k \in 1 .. iter : oc'[k] \notin Bad /\ Height[oc'[k]] = fork_index + k
    BY <1>5, <2>1, Zenon
  <2>4. iter > 0 => Parent[oc'[1]] = committed[fork_index + 1]
    <3>1. iter > 0 => 1 \in 1 .. iter
      BY <1>0
    <3> QED BY <1>5, <2>1, <3>1, Zenon
  <2>5. iter' = iter /\ fork_index' = fork_index /\ committed' = committed
    BY <1>0, Zenon
  <2>6. Connected' = iter /\ Verified' = iter
    BY <2>5, Zenon DEF Connected, Verified
  <2> QED BY <2>1, <2>2, <2>3, <2>4, <2>5, <2>6, Zenon DEF ForkPart
<1>10. WorkPart'
  <2>1. orphan_work = BranchWork(iter)
    BY DEF IndInv, WorkPart
  <2>2. BranchWork(iter)' = BranchWork(iter)
    BY <1>0, <1>5 DEF BranchWork
  <2> QED BY <1>0, <2>1, <2>2 DEF WorkPart
<1>11. PoolPart'
  <2>1. Len(pool') <= PoolSize
    BY <1>0, <1>3, ConstantTypes, SMTT(20) DEF IndInv, PoolPart, PoolSound
  <2> QED BY <1>0, <1>3, <2>1 DEF IndInv, PoolPart, PoolSound
<1>12. QueuePart'
  BY <1>0, SMTT(30) DEF IndInv, QueuePart
<1>13. ChainPart' /\ SwapPart'
  BY <1>0, ChainKept, SwapVacuous DEF IndInv, Swapping
<1> QED BY <1>8, <1>9, <1>10, <1>11, <1>12, <1>13 DEF IndInv

\* clip_orphans on the block that failed to verify ...
LEMMA VerifyFailInv ==
    ASSUME IndInv, TypeOK', VerifyFail
    PROVE  IndInv'
BY ClipInv DEF VerifyFail

\* ... and on each block after it.
LEMMA ClipOrphanInv ==
    ASSUME IndInv, TypeOK', ClipOrphan
    PROVE  IndInv'
BY ClipInv DEF ClipOrphan

\* end_slice_difficulty's sum is a difference of total work.
LEMMA WeighMainInv ==
    ASSUME IndInv, TypeOK', WeighMain
    PROVE  IndInv'
<1> DEFINE a == committed[iter + 1]
           b == committed[iter + 2]
           f == committed[fork_index + 1]
<1>0. /\ pc = "weigh" /\ pc' = "weigh" /\ iter' = iter + 1
      /\ UNCHANGED <<chain, committed, recoverable, pool, unprocessed,
                     process_queue, stored, process_block, orphan_chain,
                     fork_index, orphan_work, replaced_slice>>
      /\ iter + 1 < Len(committed)
      /\ main_work' = main_work + Work[b]
      /\ iter \in Nat /\ fork_index \in Nat /\ committed \in Seq(Blocks)
      /\ fork_index <= iter
      /\ main_work = CumWork[a] - CumWork[f]
      /\ orphan_work = BranchWork(Len(orphan_chain))
  <2>1. /\ pc = "weigh" /\ pc' = "weigh" /\ iter' = iter + 1
        /\ UNCHANGED <<chain, committed, recoverable, pool, unprocessed,
                       process_queue, stored, process_block, orphan_chain,
                       fork_index, orphan_work, replaced_slice>>
        /\ iter + 1 < Len(chain) /\ main_work' = main_work + Work[chain[iter + 2]]
    BY DEF WeighMain, db, orphans, call
  <2>2. chain = committed
    BY <2>1 DEF IndInv, ChainPart, Swapping
  <2>3. iter \in Nat /\ fork_index \in Nat /\ committed \in Seq(Blocks)
    BY DEF IndInv, TypeOK
  <2>4. /\ fork_index <= iter /\ main_work = CumWork[a] - CumWork[f]
        /\ orphan_work = BranchWork(Len(orphan_chain))
    BY <2>1 DEF IndInv, WorkPart
  <2> QED BY <2>1, <2>2, <2>3, <2>4
<1>1. a \in Blocks /\ b \in Blocks /\ f \in Blocks
  BY <1>0, SMTT(20)
<1>2. Parent[b] = a
  <2>1. iter + 1 \in 1 .. Len(committed) - 1
    BY <1>0
  <2>2. Parent[committed[(iter + 1) + 1]] = committed[iter + 1]
    BY <2>1, Zenon DEF IndInv, ChainPart, GoodChain, IsMainChain
  <2>3. (iter + 1) + 1 = iter + 2
    BY <1>0
  <2> QED BY <2>2, <2>3
<1>3. CumWork[b] = CumWork[a] + Work[b]
  BY <1>1, <1>2, WorkAssumption
<1>4. CumWork[a] \in Nat /\ CumWork[f] \in Nat /\ Work[b] \in Nat
  BY <1>1, WorkAssumption
<1>5. main_work' = CumWork[b] - CumWork[f]
  <2> HIDE DEF a, b, f
  <2> QED BY <1>0, <1>3, <1>4, SMTT(30)
<1>6. WorkPart'
  <2>1. iter' + 1 = iter + 2 /\ fork_index' <= iter' /\ iter' + 1 <= Len(committed')
    BY <1>0
  <2>2. BranchWork(Len(orphan_chain))' = BranchWork(Len(orphan_chain))
    BY <1>0 DEF BranchWork
  <2>3. main_work' = CumWork[committed'[iter' + 1]]
                       - CumWork[committed'[fork_index' + 1]]
    BY <1>0, <1>5, <2>1, Zenon
  <2>4. orphan_work' = BranchWork(Len(orphan_chain))'
    BY <1>0, <2>2, SMTT(30)
  <2> QED BY <1>0, <2>1, <2>3, <2>4, Zenon DEF WorkPart
<1>7. TracePart' /\ ForkPart'
  BY <1>0, TraceKept, ForkKept DEF IndInv, Branching, Swapping
<1>8. ChainPart' /\ PoolPart' /\ QueuePart' /\ SwapPart'
  BY <1>0, ChainKept, PoolKept, QueueKept, SwapVacuous, Zenon DEF IndInv, Swapping
<1> QED BY <1>6, <1>7, <1>8 DEF IndInv

-----------------------------------------------------------------------------
(* The exchange, from end_slice to the last arrival.                       *)

\* end_slice leaves the common part; replace_chain only gets here with a branch
\* that is heavier, hence not empty.
LEMMA EndSliceInv ==
    ASSUME IndInv, TypeOK', EndSlice
    PROVE  IndInv'
<1> DEFINE oc == orphan_chain
           f == committed[fork_index + 1]
<1>0. /\ pc = "weigh" /\ pc' = "arrive" /\ iter' = 0
      /\ chain = committed /\ iter + 1 = Len(committed)
      /\ chain' = Kept(committed, fork_index)
      /\ replaced_slice' = Sliced(committed, fork_index)
      /\ unprocessed' = unprocessed \cup Range(replaced_slice')
      /\ UNCHANGED <<committed, recoverable, pool, process_queue, stored,
                     process_block, orphan_chain, fork_index>>
  BY DEF EndSlice, call, IndInv, ChainPart, Swapping
<1>1. /\ committed \in Seq(Blocks) /\ fork_index \in Nat /\ iter \in Nat
      /\ oc \in Seq(Blocks) /\ main_work \in Nat /\ orphan_work \in Nat
      /\ fork_index + 1 <= Len(committed) /\ GoodChain(committed)
  <2>1. /\ committed \in Seq(Blocks) /\ fork_index \in Nat /\ iter \in Nat
        /\ oc \in Seq(Blocks) /\ main_work \in Nat /\ orphan_work \in Nat
    BY Zenon DEF IndInv, TypeOK
  <2>2. fork_index + 1 <= Len(committed) /\ GoodChain(committed)
    BY <1>0, Zenon DEF IndInv, ForkPart, Branching, ChainPart
  <2> QED BY <2>1, <2>2
<1>2. /\ Len(chain') = fork_index + 1
      /\ \A i \in 1 .. fork_index + 1 : chain'[i] = committed[i]
  BY <1>0, <1>1, KeptElements, Zenon
<1>3. /\ Len(replaced_slice') = Len(committed) - fork_index - 1
      /\ \A k \in 1 .. Len(replaced_slice') :
            replaced_slice'[k] = committed[fork_index + 1 + k]
  <2>1. /\ Len(Sliced(committed, fork_index)) = Len(committed) - fork_index - 1
        /\ \A k \in 1 .. Len(committed) - fork_index - 1 :
              Sliced(committed, fork_index)[k] = committed[fork_index + 1 + k]
    BY <1>1, SlicedElements, ZenonT(30)
  <2> QED BY <1>0, <2>1
<1>4. GoodChain(chain')
  <2>1. \A i \in 1 .. Len(chain') : i \in 1 .. Len(committed) /\ chain'[i] = committed[i]
    BY <1>1, <1>2
  <2>2. \A i \in 1 .. Len(chain') - 1 :
            /\ i \in 1 .. Len(committed) - 1
            /\ chain'[i] = committed[i] /\ chain'[i + 1] = committed[i + 1]
    BY <1>1, <1>2
  <2>3. Len(chain') > 0 /\ chain'[1] = committed[1]
    BY <1>1, <1>2
  <2> QED BY <1>1, <2>1, <2>2, <2>3, Zenon DEF GoodChain, IsMainChain
<1>5. Len(oc) > 0 /\ CumWork[Last(oc)] > CumWork[Last(committed)]
  <2>0. /\ orphan_work = BranchWork(Len(oc))
        /\ main_work = CumWork[committed[iter + 1]] - CumWork[f]
    BY <1>0, Zenon DEF IndInv, WorkPart
  <2>1. /\ orphan_work > main_work
        /\ orphan_work = BranchWork(Len(oc))
        /\ main_work = CumWork[committed[iter + 1]] - CumWork[f]
    <3>1. orphan_work > main_work
      BY <1>1 DEF EndSlice, NotHeavier
    <3> QED BY <2>0, <3>1, Zenon
  <2>2. Len(oc) > 0
    BY <1>1, <2>1 DEF BranchWork
  <2>3. f \in Blocks /\ Last(oc) \in Blocks /\ Last(committed) \in Blocks
    BY <1>1, <2>2 DEF Last
  <2>4. orphan_work = CumWork[Last(oc)] - CumWork[f]
    BY <1>1, <2>1, <2>2 DEF BranchWork, Last
  <2>5. main_work = CumWork[Last(committed)] - CumWork[f]
    BY <1>0, <2>1 DEF Last
  <2>6. /\ CumWork[f] \in Nat /\ CumWork[Last(oc)] \in Nat
        /\ CumWork[Last(committed)] \in Nat
    BY <2>3, WorkAssumption
  <2> QED BY <2>1, <2>2, <2>4, <2>5, <2>6
<1>6. Range(chain') \subseteq Range(committed)
  <2> SUFFICES ASSUME NEW x \in Range(chain') PROVE x \in Range(committed)
    OBVIOUS
  <2>0. chain' \in Seq(Blocks)
    BY Zenon DEF TypeOK
  <2>1. PICK i \in 1 .. Len(chain') : chain'[i] = x
    BY <2>0, RangeIndex
  <2>2. i \in 1 .. Len(committed) /\ committed[i] = x
    BY <1>1, <1>2, <2>1
  <2> QED BY <1>1, <2>2, InRange
<1>7. \A k \in 1 .. Len(replaced_slice') : replaced_slice'[k] \notin Range(chain')
  <2> SUFFICES ASSUME NEW k \in 1 .. Len(replaced_slice'),
                      replaced_slice'[k] \in Range(chain')
               PROVE  FALSE
    OBVIOUS
  <2>0. chain' \in Seq(Blocks)
    BY Zenon DEF TypeOK
  <2>1. PICK i \in 1 .. Len(chain') : chain'[i] = replaced_slice'[k]
    BY <2>0, RangeIndex
  <2>2. /\ i \in 1 .. Len(committed) /\ fork_index + 1 + k \in 1 .. Len(committed)
        /\ committed[i] = committed[fork_index + 1 + k]
        /\ i <= fork_index + 1
    <3>1. i \in 1 .. Len(committed) /\ i <= fork_index + 1 /\ chain'[i] = committed[i]
      BY <1>1, <1>2, <2>1
    <3>2. replaced_slice'[k] = committed[fork_index + 1 + k]
      BY <1>3
    <3>3. fork_index + 1 + k \in 1 .. Len(committed)
      BY <1>1, <1>3, SliceIndex
    <3> QED BY <2>1, <3>1, <3>2, <3>3
  <2>3. i - 1 = (fork_index + 1 + k) - 1
    <3>1. Height[committed[i]] = i - 1 /\ Height[committed[fork_index + 1 + k]] = (fork_index + 1 + k) - 1
      BY <1>1, <2>2, Zenon DEF GoodChain
    <3> QED BY <2>2, <3>1, Zenon
  <2> QED BY <1>1, <2>2, <2>3
<1>8. SwapPart'
  BY <1>0, <1>1, <1>2, <1>3, <1>5, <1>7 DEF SwapPart, Swapping
<1>9. ChainPart'
  BY <1>0, <1>4 DEF IndInv, ChainPart, Swapping
<1>10. PoolPart'
  BY <1>0, <1>6, Zenon DEF IndInv, PoolPart, PoolSound
<1>11. QueuePart'
  BY <1>0 DEF IndInv, QueuePart
<1>12. TracePart' /\ ForkPart' /\ WorkPart'
  BY <1>0, TraceKept, ForkKept, WorkVacuous DEF IndInv, Branching, Swapping
<1> QED BY <1>8, <1>9, <1>10, <1>11, <1>12 DEF IndInv

\* An arrival block leaves the pool for the end of the chain, its parent.
LEMMA ArriveInv ==
    ASSUME IndInv, TypeOK', Arrive
    PROVE  IndInv'
<1> DEFINE oc == orphan_chain
           b == orphan_chain[iter + 1]
<1>0. /\ pc = "arrive" /\ pc' = "arrive" /\ iter' = iter + 1
      /\ iter \in Nat /\ oc \in Seq(Blocks) /\ iter + 1 \in 1 .. Len(oc)
      /\ pool \in Seq(Blocks) /\ chain \in Seq(Blocks)
      /\ fork_index \in Nat /\ b \in Blocks
      /\ chain' = Append(chain, b)
      /\ UNCHANGED <<committed, recoverable, unprocessed, process_queue, stored,
                     process_block, orphan_chain, fork_index, replaced_slice>>
  <2>1. /\ iter \in Nat /\ oc \in Seq(Blocks) /\ pool \in Seq(Blocks) /\ chain \in Seq(Blocks)
        /\ fork_index \in Nat
    BY Zenon DEF IndInv, TypeOK
  <2>2. iter < Len(oc)
    BY DEF Arrive
  <2>3. iter + 1 \in 1 .. Len(oc) /\ b \in Blocks
    BY <2>1, <2>2
  <2> QED BY <2>1, <2>3 DEF Arrive
<1>1. PICK i \in 1 .. Len(pool) : pool[i] = b /\ pool' = RemoveAt(pool, i)
  <2>1. DOMAIN pool = 1 .. Len(pool)
    BY <1>0, DomainLen
  <2> QED BY <2>1 DEF Arrive
<1>2. NoDuplicates(oc) /\ NoDuplicates(pool) /\ Len(pool) <= PoolSize
  BY <1>0 DEF IndInv, TracePart, Branching, PoolPart, PoolSound
<1>3. /\ NoDuplicates(pool')
      /\ Range(pool') = Range(pool) \ {b}
      /\ Len(pool') <= PoolSize
  <2>1. /\ NoDuplicates(RemoveAt(pool, i))
        /\ Range(RemoveAt(pool, i)) = Range(pool) \ {pool[i]}
    BY <1>0, <1>2, RemoveAtPool
  <2>2. Len(RemoveAt(pool, i)) = Len(pool) - 1
    BY <1>0, RemoveAtElements
  <2>3. Len(pool') <= PoolSize
    BY <1>0, <1>1, <1>2, <2>2, ConstantTypes
  <2> QED BY <1>1, <2>1, <2>3
<1>4. /\ Len(chain') = Len(chain) + 1
      /\ \A j \in 1 .. Len(chain) : chain'[j] = chain[j]
      /\ chain'[Len(chain) + 1] = b
  BY <1>0
<1>5. /\ Len(chain) = fork_index + 1 + iter
      /\ \A j \in 1 .. fork_index + 1 : chain[j] = committed[j]
      /\ \A k \in 1 .. iter : chain[fork_index + 1 + k] = oc[k]
  <2>1. Len(chain) = fork_index + 1 + iter
    BY <1>0 DEF IndInv, SwapPart, Swapping
  <2>2. Len(chain) - fork_index - 1 = iter
    BY <1>0, <2>1
  <2> QED BY <1>0, <2>1, <2>2, Zenon DEF IndInv, SwapPart, Swapping
<1>6. Parent[b] = chain[Len(chain)] /\ Height[b] = Len(chain) /\ b \notin Bad
  <2>1. Height[b] = fork_index + (iter + 1) /\ b \notin Bad
    BY <1>0 DEF IndInv, ForkPart, Branching, Connected, Verified
  <2>2. CASE iter = 0
    <3>1. Parent[oc[1]] = committed[fork_index + 1]
      BY <1>0 DEF IndInv, ForkPart, Branching, Connected
    <3> QED BY <1>0, <1>5, <2>1, <2>2, <3>1
  <2>3. CASE iter # 0
    <3>1. Parent[b] = oc[iter]
      BY <1>0, <2>3 DEF IndInv, TracePart, Branching, Connected
    <3>2. chain[Len(chain)] = oc[iter]
      <4>1. iter \in 1 .. iter
        BY <1>0, <2>3
      <4>2. chain[fork_index + 1 + iter] = oc[iter]
        BY <1>5, <4>1
      <4> QED BY <1>5, <4>2
    <3> QED BY <1>0, <1>5, <2>1, <3>1, <3>2
  <2> QED BY <2>2, <2>3
<1>7. GoodChain(chain')
  <2>1. GoodChain(chain) /\ Len(chain) > 0
    BY DEF IndInv, ChainPart, GoodChain, IsMainChain
  <2>2. \A j \in 1 .. Len(chain') - 1 : Parent[chain'[j + 1]] = chain'[j]
    <3> SUFFICES ASSUME NEW j \in 1 .. Len(chain)
                 PROVE  Parent[chain'[j + 1]] = chain'[j]
      BY <1>0, <1>4
    <3>1. CASE j = Len(chain)
      BY <1>0, <1>4, <1>6, <3>1
    <3>2. CASE j # Len(chain)
      BY <1>0, <1>4, <2>1, <3>2 DEF GoodChain, IsMainChain
    <3> QED BY <3>1, <3>2
  <2>3. \A j \in 1 .. Len(chain') : Height[chain'[j]] = j - 1 /\ chain'[j] \notin Bad
    <3> SUFFICES ASSUME NEW j \in 1 .. Len(chain')
                 PROVE  Height[chain'[j]] = j - 1 /\ chain'[j] \notin Bad
      OBVIOUS
    <3>1. CASE j = Len(chain) + 1
      BY <1>0, <1>4, <1>6, <3>1
    <3>2. CASE j # Len(chain) + 1
      <4>1. j \in 1 .. Len(chain) /\ chain'[j] = chain[j]
        BY <1>0, <1>4, <3>2, SMTT(20)
      <4> QED BY <2>1, <4>1, Zenon DEF GoodChain
    <3> QED BY <3>1, <3>2
  <2>4. Len(chain') > 0 /\ chain'[1] = Genesis
    BY <1>0, <1>4, <2>1 DEF GoodChain, IsMainChain
  <2> QED BY <2>2, <2>3, <2>4, Zenon DEF GoodChain, IsMainChain
<1>8. ChainPart'
  BY <1>0, <1>7 DEF IndInv, ChainPart, Swapping
<1>9. Range(chain') \subseteq Range(chain) \cup {b}
  <2> SUFFICES ASSUME NEW x \in Range(chain') PROVE x \in Range(chain) \cup {b}
    OBVIOUS
  <2>0. chain' \in Seq(Blocks)
    BY Zenon DEF TypeOK
  <2>1. PICK j \in 1 .. Len(chain') : chain'[j] = x
    BY <2>0, RangeIndex
  <2>2. CASE j = Len(chain) + 1
    BY <1>4, <2>1, <2>2
  <2>3. CASE j # Len(chain) + 1
    <3>1. j \in 1 .. Len(chain) /\ chain[j] = x
      BY <1>0, <1>4, <2>1, <2>3
    <3> QED BY <1>0, <3>1, InRange
  <2> QED BY <2>2, <2>3
<1>10. PoolPart'
  BY <1>0, <1>3, <1>9, Zenon DEF IndInv, PoolPart, PoolSound
<1>11. b \in Range(pool)
  BY <1>0, <1>1, InRange
<1>12. TracePart'
  <2>1. \A k \in 1 .. Len(oc) : k > iter + 1 => oc[k] \in Range(pool')
    <3> SUFFICES ASSUME NEW k \in 1 .. Len(oc), k > iter + 1
                 PROVE  oc[k] \in Range(pool')
      OBVIOUS
    <3>1. oc[k] # b
      <4>1. k \in DOMAIN oc /\ iter + 1 \in DOMAIN oc /\ k # iter + 1
        BY <1>0
      <4> QED BY <1>2, <4>1 DEF NoDuplicates
    <3>2. oc[k] \in Range(pool)
      BY <1>0 DEF IndInv, TracePart, Branching
    <3> QED BY <1>3, <3>1, <3>2
  <2> QED BY <1>0, <2>1, Zenon DEF IndInv, TracePart, Connected, Branching, Swapping
<1>13. ForkPart' /\ WorkPart' /\ QueuePart'
  <2>1. ForkPart' /\ WorkPart'
    BY <1>0, ForkKept, WorkVacuous DEF IndInv
  <2>2. QueuePart'
    BY <1>0 DEF IndInv, QueuePart
  <2> QED BY <2>1, <2>2
<1>14. SwapPart'
  <2>1. \A k \in 1 .. Len(replaced_slice) :
            /\ replaced_slice[k] = committed[fork_index + 1 + k]
            /\ replaced_slice[k] \notin Range(chain')
    <3> SUFFICES ASSUME NEW k \in 1 .. Len(replaced_slice)
                 PROVE  /\ replaced_slice[k] = committed[fork_index + 1 + k]
                        /\ replaced_slice[k] \notin Range(chain')
      OBVIOUS
    <3>1. /\ replaced_slice[k] = committed[fork_index + 1 + k]
          /\ replaced_slice[k] \notin Range(chain)
          /\ Len(replaced_slice) = Len(committed) - fork_index - 1
      BY <1>0, Zenon DEF IndInv, SwapPart, Swapping
    <3>2. committed \in Seq(Blocks) /\ fork_index + 1 + k \in 1 .. Len(committed)
      <4>1. committed \in Seq(Blocks)
        BY Zenon DEF IndInv, TypeOK
      <4>2. fork_index \in Nat /\ Len(committed) \in Nat /\ Len(replaced_slice) \in Nat
        <5>1. replaced_slice \in Seq(Blocks) /\ fork_index \in Nat
          BY Zenon DEF IndInv, TypeOK
        <5> QED BY <4>1, <5>1
      <4> QED BY <3>1, <4>1, <4>2, SliceIndex
    <3>3. committed[fork_index + 1 + k] \in Range(committed)
      BY <3>2, InRange
    <3>4. b \notin Range(committed)
      BY <1>0, <1>11 DEF IndInv, PoolPart
    <3> QED BY <1>9, <3>1, <3>3, <3>4
  <2>2. Len(chain') = fork_index + 1 + (iter + 1)
    BY <1>0, <1>4, <1>5
  <2>3. \A j \in 1 .. fork_index + 1 : chain'[j] = committed[j]
    BY <1>0, <1>4, <1>5, SMTT(30)
  <2>4. \A k \in 1 .. iter + 1 : chain'[fork_index + 1 + k] = oc[k]
    <3> SUFFICES ASSUME NEW k \in 1 .. iter + 1
                 PROVE  chain'[fork_index + 1 + k] = oc[k]
      OBVIOUS
    <3>1. CASE k = iter + 1
      BY <1>0, <1>4, <1>5, <3>1
    <3>2. CASE k # iter + 1
      <4>1. k \in 1 .. iter /\ fork_index + 1 + k \in 1 .. Len(chain)
        BY <1>0, <1>5, <3>2
      <4> QED BY <1>4, <1>5, <4>1
    <3> QED BY <3>1, <3>2
  <2>5. Len(chain') - fork_index - 1 = iter + 1
    BY <1>0, <2>2
  <2>6. /\ Len(oc) > 0 /\ CumWork[Last(oc)] > CumWork[Last(committed)]
        /\ Len(replaced_slice) = Len(committed) - fork_index - 1
    BY <1>0, Zenon DEF IndInv, SwapPart, Swapping
  <2>7. iter' <= Len(oc)
    BY <1>0
  <2>8. /\ \A k \in 1 .. Len(chain') - fork_index - 1 :
              chain'[fork_index + 1 + k] = oc[k]
        /\ Len(chain') = fork_index + 1 + iter'
    BY <1>0, <2>2, <2>4, <2>5, Zenon
  <2> QED BY <1>0, <2>1, <2>3, <2>6, <2>7, <2>8, Zenon DEF SwapPart, Swapping
<1> QED BY <1>8, <1>10, <1>12, <1>13, <1>14 DEF IndInv

\* The whole branch is on the chain: replaced blocks are next.
LEMMA ArriveDoneInv ==
    ASSUME IndInv, TypeOK', ArriveDone
    PROVE  IndInv'
<1>0. /\ pc = "arrive" /\ pc' = "restore" /\ iter = Len(orphan_chain) /\ iter' = 0
      /\ UNCHANGED <<chain, committed, recoverable, pool, unprocessed,
                     process_queue, stored, process_block, orphan_chain,
                     fork_index, replaced_slice>>
      /\ replaced_slice \in Seq(Blocks) /\ committed \in Seq(Blocks)
      /\ fork_index \in Nat
  <2>1. /\ replaced_slice \in Seq(Blocks) /\ committed \in Seq(Blocks)
        /\ fork_index \in Nat
    BY Zenon DEF IndInv, TypeOK
  <2> QED BY <2>1 DEF ArriveDone, db, orphans, call
<1>1. ChainPart' /\ PoolPart'
  BY <1>0, ChainKept, PoolKept DEF IndInv, Swapping
<1>2. TracePart' /\ ForkPart' /\ WorkPart'
  BY <1>0, TraceKept, ForkKept, WorkVacuous DEF IndInv, Branching, Swapping
<1>3. QueuePart'
  <2>1. \A b \in unprocessed : b = stored \/ b \in Range(replaced_slice)
    BY <1>0 DEF IndInv, QueuePart
  <2>2. \A b \in Range(replaced_slice) :
            \E k \in 0 + 1 .. Len(replaced_slice) : replaced_slice[k] = b
    BY <1>0, RangeIndex
  <2>3. process_queue = {} /\ process_block = stored
    BY <1>0 DEF IndInv, QueuePart
  <2> QED BY <1>0, <2>1, <2>2, <2>3 DEF QueuePart
<1>4. SwapPart'
  <2>1. /\ SwapPart /\ Len(replaced_slice) \in Nat
        /\ fork_index + 1 <= Len(committed)
    BY <1>0 DEF IndInv, ForkPart, Branching
  <2>2. \A k \in 1 .. Len(replaced_slice) : replaced_slice[k] \notin Range(pool)
    <3> SUFFICES ASSUME NEW k \in 1 .. Len(replaced_slice)
                 PROVE  replaced_slice[k] \notin Range(pool)
      BY Zenon
    <3>1. /\ replaced_slice[k] = committed[fork_index + 1 + k]
          /\ Len(replaced_slice) = Len(committed) - fork_index - 1
      BY <1>0, <2>1, Zenon DEF SwapPart, Swapping
    <3>2. fork_index + 1 + k \in 1 .. Len(committed)
      <4>1. fork_index \in Nat /\ Len(committed) \in Nat
        BY <1>0
      <4> QED BY <2>1, <3>1, <4>1, SliceIndex, Zenon
    <3>3. replaced_slice[k] \in Range(committed)
      BY <1>0, <3>1, <3>2, InRange
    <3> QED BY <1>0, <3>3 DEF IndInv, PoolPart
  <2> QED BY <1>0, <2>1, <2>2 DEF SwapPart, Swapping
<1> QED BY <1>1, <1>2, <1>3, <1>4 DEF IndInv
=============================================================================
