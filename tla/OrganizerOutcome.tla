-------------------------- MODULE OrganizerOutcome --------------------------
(***************************************************************************)
(* How do_store ends.  IndInv is kept from the return of replaced blocks   *)
(* to the pool to the answer, and by a crash; and OutcomeInv, what becomes *)
(* of weighed and replaced blocks, is kept wherever IndInv is.             *)
(***************************************************************************)
EXTENDS OrganizerTypes

-----------------------------------------------------------------------------
(* The end of do_store.                                                    *)

\* A replaced block goes back to the pool: it is not in it, and not on the
\* chain any more.
LEMMA RestoreInv ==
    ASSUME IndInv, TypeOK', Restore
    PROVE  IndInv'
<1> DEFINE rs == replaced_slice
           b == replaced_slice[iter + 1]
<1>0. /\ pc = "restore" /\ pc' = "restore" /\ iter' = iter + 1
      /\ iter \in Nat /\ rs \in Seq(Blocks) /\ iter + 1 \in 1 .. Len(rs)
      /\ pool \in Seq(Blocks) /\ b \in Blocks /\ fork_index \in Nat
      /\ pool' = (IF b \in Range(pool) THEN pool ELSE PushBack(pool, b))
      /\ unprocessed' = unprocessed \ {b}
      /\ UNCHANGED <<chain, committed, recoverable, process_queue, stored,
                     process_block, orphan_chain, fork_index, replaced_slice>>
  <2>1. iter \in Nat /\ rs \in Seq(Blocks) /\ pool \in Seq(Blocks) /\ fork_index \in Nat
    BY Zenon DEF IndInv, TypeOK
  <2>2. iter < Len(rs)
    BY DEF Restore
  <2>3. iter + 1 \in 1 .. Len(rs) /\ b \in Blocks
    BY <2>1, <2>2
  <2> QED BY <2>1, <2>3 DEF Restore, db, call
<1>1. /\ SwapPart /\ b \notin Range(pool) /\ b \notin Range(chain)
  <2>1. SwapPart /\ pc \in Swapping /\ iter + 1 > iter
    BY <1>0 DEF IndInv, Swapping
  <2> QED BY <1>0, <2>1, Zenon DEF SwapPart
<1>2. /\ Len(pool') <= PoolSize
      /\ NoDuplicates(pool')
      /\ Range(pool') \subseteq Range(pool) \cup {b}
  <2>1. Len(pool) <= PoolSize /\ NoDuplicates(pool)
    BY DEF IndInv, PoolPart, PoolSound
  <2>2. /\ Len(PushBack(pool, b)) <= PoolSize
        /\ NoDuplicates(PushBack(pool, b))
        /\ Range(PushBack(pool, b)) \subseteq Range(pool) \cup {b}
    BY <1>0, <1>1, <2>1, PushBackPool
  <2> QED BY <1>0, <1>1, <2>2
<1>3. PoolPart'
  BY <1>0, <1>1, <1>2 DEF IndInv, PoolPart, PoolSound
<1>4. \A k \in 1 .. Len(rs) : k > iter + 1 => rs[k] \notin Range(pool')
  <2> SUFFICES ASSUME NEW k \in 1 .. Len(rs), k > iter + 1
               PROVE  rs[k] \notin Range(pool')
    OBVIOUS
  <2>1. rs[k] \notin Range(pool)
    BY <1>0, <1>1 DEF SwapPart, Swapping
  <2>2. rs[k] # b
    <3>1. /\ rs[k] = committed[fork_index + 1 + k]
          /\ b = committed[fork_index + 1 + (iter + 1)]
          /\ Len(rs) = Len(committed) - fork_index - 1
      BY <1>0, <1>1, SMTT(30) DEF SwapPart, Swapping
    <3>2. /\ committed \in Seq(Blocks)
          /\ fork_index + 1 + k \in 1 .. Len(committed)
          /\ fork_index + 1 + (iter + 1) \in 1 .. Len(committed)
      <4>1. /\ committed \in Seq(Blocks) /\ rs \in Seq(Blocks) /\ fork_index \in Nat /\ iter \in Nat
            /\ iter + 1 \in 1 .. Len(rs)
        BY <1>0, Zenon DEF IndInv, TypeOK
      <4>2. Len(committed) \in Nat /\ Len(rs) \in Nat
        BY <4>1, LenProperties
      <4> QED BY <3>1, <4>1, <4>2
    <3>3. /\ Height[rs[k]] = (fork_index + 1 + k) - 1
          /\ Height[b] = (fork_index + 1 + (iter + 1)) - 1
      BY <3>1, <3>2, Zenon DEF IndInv, ChainPart, GoodChain
    <3>4. (fork_index + 1 + k) - 1 # (fork_index + 1 + (iter + 1)) - 1
      BY <1>0
    <3> QED BY <3>3, <3>4
  <2> QED BY <1>2, <2>1, <2>2
<1>5. SwapPart'
  <2>1. iter' <= Len(rs)
    BY <1>0
  <2> QED BY <1>0, <1>1, <1>4, <2>1, Zenon DEF SwapPart, Swapping
<1>6. QueuePart'
  <2>1. process_queue = {} /\ process_block = stored
    BY <1>0 DEF IndInv, QueuePart
  <2>2. ASSUME NEW x \in unprocessed, x # b, x # stored
        PROVE  \E k \in iter' + 1 .. Len(rs) : rs[k] = x
    <3>1. PICK k \in iter + 1 .. Len(rs) : rs[k] = x
      BY <1>0, <2>2 DEF IndInv, QueuePart
    <3>2. k \in iter' + 1 .. Len(rs)
      BY <1>0, <2>2, <3>1, SMTT(30)
    <3> QED BY <3>1, <3>2
  <2> QED BY <1>0, <2>1, <2>2 DEF QueuePart
<1>7. ChainPart' /\ TracePart' /\ ForkPart' /\ WorkPart'
  BY <1>0, ChainKept, TraceKept, ForkKept, WorkVacuous DEF IndInv, Branching, Swapping
<1> QED BY <1>3, <1>5, <1>6, <1>7 DEF IndInv

\* The swap is complete when it is committed.
LEMMA CommitInv ==
    ASSUME IndInv, TypeOK', CommitAndNotify
    PROVE  IndInv'
<1>0. /\ pc = "restore" /\ pc' = "start" /\ iter = Len(replaced_slice)
      /\ committed' = chain /\ chain' = chain
      /\ recoverable' = recoverable \cup {chain}
      /\ unprocessed' = unprocessed \ {process_block}
      /\ UNCHANGED <<pool, process_queue, stored>>
      /\ replaced_slice \in Seq(Blocks)
  <2>1. replaced_slice \in Seq(Blocks)
    BY Zenon DEF IndInv, TypeOK
  <2> QED BY <2>1 DEF CommitAndNotify, Processed, call
<1>1. InnerParts'
  BY <1>0, InnerVacuousNext
<1>2. ChainPart'
  BY <1>0 DEF IndInv, ChainPart
<1>3. PoolPart'
  BY <1>0 DEF IndInv, PoolPart, PoolSound
<1>4. QueuePart'
  <2>1. \A k \in iter + 1 .. Len(replaced_slice) : FALSE
    BY <1>0
  <2>2. unprocessed' = {} /\ process_queue' = {}
    BY <1>0, <2>1 DEF IndInv, QueuePart
  <2> QED BY <1>0, <2>2 DEF QueuePart
<1> QED BY <1>1, <1>2, <1>3, <1>4 DEF IndInv, InnerParts

\* Answering a store, with or without a checkpoint, moves no block.
LEMMA ReplyInv ==
    ASSUME IndInv, TypeOK', Reply
    PROVE  IndInv'
<1>0. /\ pc = "start" /\ pc' = "idle" /\ process_queue = {}
      /\ recoverable' = {committed} \/ recoverable' = recoverable
      /\ UNCHANGED <<chain, committed, pool, unprocessed, process_queue, stored>>
  BY DEF Reply, orphans
<1>1. InnerParts'
  BY <1>0, InnerVacuousNext
<1>2. PoolPart' /\ QueuePart'
  BY <1>0, PoolKept DEF IndInv, QueuePart
<1>3. ChainPart'
  BY <1>0 DEF IndInv, ChainPart, Swapping
<1> QED BY <1>1, <1>2, <1>3 DEF IndInv, InnerParts

\* Coming back on a recoverable chain with an empty pool.
LEMMA CrashInv ==
    ASSUME IndInv, TypeOK', Crash
    PROVE  IndInv'
<1>1. PICK c \in recoverable : Boot(c)
  BY DEF Crash
<1>2. /\ pc' = "idle" /\ chain' = c /\ committed' = c /\ recoverable' = {c}
      /\ pool' = <<>> /\ unprocessed' = {} /\ process_queue' = {}
  BY <1>1 DEF Boot
<1>3. InnerParts'
  BY <1>2, InnerVacuousNext
<1>4. ChainPart' /\ QueuePart'
  BY <1>1, <1>2 DEF IndInv, ChainPart, QueuePart
<1>5. PoolPart'
  BY <1>2, EmptyRange, ConstantTypes, SMTT(30) DEF PoolPart, PoolSound, NoDuplicates
<1> QED BY <1>3, <1>4, <1>5 DEF IndInv, InnerParts

\* The clock touches only the blocks from the future.
LEMMA IdleInv ==
    ASSUME IndInv, TypeOK', UNCHANGED <<pc, db, orphans, call, locals>>
    PROVE  IndInv'
<1>1. /\ UNCHANGED <<pc, chain, committed, recoverable, pool, unprocessed, process_queue, stored>>
      /\ UNCHANGED <<process_block, orphan_chain, fork_index, iter, orphan_work, main_work, replaced_slice>>
  BY DEF db, orphans, call, locals
<1>2. ChainPart' /\ PoolPart'
  BY <1>1, ChainKept, PoolKept DEF IndInv
<1>3. QueuePart'
  BY <1>1, Zenon DEF IndInv, QueuePart
<1>4. TracePart'
  BY <1>1, Zenon DEF IndInv, TracePart, Connected
<1>5. ForkPart'
  BY <1>1, Zenon DEF IndInv, ForkPart, Connected, Verified
<1>6. WorkPart'
  BY <1>1, Zenon DEF IndInv, WorkPart, BranchWork
<1>7. SwapPart'
  BY <1>1, Zenon DEF IndInv, SwapPart, Last
<1> QED BY <1>2, <1>3, <1>4, <1>5, <1>6, <1>7 DEF IndInv

-----------------------------------------------------------------------------
(* Total work along a sequence of blocks.                                  *)

\* A block's total work is no less than its parent's.
LEMMA WorkOfChild ==
    ASSUME NEW b \in Blocks, Parent[b] \in Blocks
    PROVE  CumWork[Parent[b]] <= CumWork[b]
BY WorkAssumption

\* The total work of a block is a number.
LEMMA WorkType == \A b \in Blocks : CumWork[b] \in Nat
BY WorkAssumption

\* Work rises along the empty branch ...
LEMMA RisingEmpty == Rising(<<>>)
BY DEF Rising

\* ... and along a branch of one block.
LEMMA RisingSingle == ASSUME NEW b \in Blocks PROVE Rising(<<b>>)
<1>1. CumWork[b] \in Nat
  BY WorkType
<1> QED BY <1>1 DEF Rising

\* It rises along the part of a chain up to the fork.
LEMMA RisingKept ==
    ASSUME NEW c \in Seq(Blocks), Rising(c), NEW f \in Nat, f + 1 <= Len(c)
    PROVE  Rising(Kept(c, f))
<1>1. /\ Len(Kept(c, f)) = f + 1 /\ Len(c) \in Nat
      /\ \A i \in 1 .. f + 1 : Kept(c, f)[i] = c[i]
  BY KeptElements, LenProperties, Zenon
<1>2. 1 .. f + 1 \subseteq 1 .. Len(c)
  BY <1>1
<1> DEFINE d == Kept(c, f)
<1> HIDE DEF d
<1>3. \A i, j \in 1 .. f + 1 : i <= j => CumWork[d[i]] <= CumWork[d[j]]
  BY <1>1, <1>2 DEF Rising, d
<1>4. Rising(d)
  BY <1>1, <1>3, Zenon DEF Rising, d
<1> QED BY <1>4 DEF d

\* It rises along a chain that a child of its last block joins.
LEMMA RisingAppend ==
    ASSUME NEW c \in Seq(Blocks), Rising(c), NEW b \in Blocks,
           Len(c) > 0, Parent[b] = c[Len(c)]
    PROVE  Rising(Append(c, b))
<1> DEFINE d == Append(c, b)
<1>1. /\ Len(c) \in Nat /\ Len(d) = Len(c) + 1 /\ d[Len(c) + 1] = b
      /\ \A i \in 1 .. Len(c) : d[i] = c[i] /\ c[i] \in Blocks
  BY AppendProperties, LenProperties, ElementOfSeq
<1> HIDE DEF d
<1>2. CumWork[c[Len(c)]] <= CumWork[b]
  <2>1. c[Len(c)] \in Blocks
    BY <1>1
  <2> QED BY <2>1, WorkOfChild
<1>3. ASSUME NEW i \in 1 .. Len(c) PROVE CumWork[c[i]] <= CumWork[b]
  <2>1. Len(c) \in 1 .. Len(c) /\ i <= Len(c)
    BY <1>1
  <2>2. CumWork[c[i]] <= CumWork[c[Len(c)]]
    BY <2>1, Zenon DEF Rising
  <2>3. CumWork[c[i]] \in Nat /\ CumWork[c[Len(c)]] \in Nat /\ CumWork[b] \in Nat
    BY <1>1, <2>1, WorkType
  <2> QED BY <1>2, <2>2, <2>3
<1>4. ASSUME NEW i \in 1 .. Len(d), NEW j \in 1 .. Len(d), i <= j
      PROVE  CumWork[d[i]] <= CumWork[d[j]]
  <2>1. CASE j = Len(c) + 1 /\ i = j
    BY <1>1, <2>1, WorkType
  <2>2. CASE j = Len(c) + 1 /\ i # j
    <3>1. i \in 1 .. Len(c)
      BY <1>1, <2>2
    <3> QED BY <1>1, <1>3, <2>2, <3>1, Zenon
  <2>3. CASE j # Len(c) + 1
    <3>1. i \in 1 .. Len(c) /\ j \in 1 .. Len(c)
      BY <1>1, <1>4, <2>3
    <3> QED BY <1>1, <1>4, <3>1, Zenon DEF Rising
  <2> QED BY <2>1, <2>2, <2>3
<1>5. Rising(d)
  BY <1>4, Zenon DEF Rising
<1> QED BY <1>5 DEF d

\* It rises along a branch that trace() has extended to the parent of its first.
LEMMA RisingCons ==
    ASSUME NEW c \in Seq(Blocks), Rising(c), Len(c) > 0, Parent[c[1]] \in Blocks
    PROVE  Rising(<<Parent[c[1]]>> \o c)
<1> DEFINE b == Parent[c[1]]
           d == <<b>> \o c
<1>1. /\ Len(c) \in Nat /\ Len(d) = Len(c) + 1 /\ d[1] = b
      /\ \A i \in 1 .. Len(c) : d[i + 1] = c[i] /\ c[i] \in Blocks
  BY LenProperties, ElementOfSeq, ConcatProperties
<1> HIDE DEF d
<1>2. CumWork[b] <= CumWork[c[1]] /\ 1 \in 1 .. Len(c) /\ c[1] \in Blocks
  <2>1. 1 \in 1 .. Len(c) /\ c[1] \in Blocks
    BY <1>1
  <2> QED BY <2>1, WorkOfChild
<1>3. ASSUME NEW i \in 1 .. Len(c) PROVE CumWork[b] <= CumWork[c[i]]
  <2>1. 1 <= i
    OBVIOUS
  <2>2. CumWork[c[1]] <= CumWork[c[i]]
    BY <1>2, <2>1, Zenon DEF Rising
  <2>3. CumWork[c[i]] \in Nat /\ CumWork[c[1]] \in Nat /\ CumWork[b] \in Nat
    BY <1>1, <1>2, WorkType
  <2> QED BY <1>2, <2>2, <2>3
<1>4. ASSUME NEW i \in 1 .. Len(d), NEW j \in 1 .. Len(d), i <= j
      PROVE  CumWork[d[i]] <= CumWork[d[j]]
  <2>1. CASE i = 1 /\ j = 1
    BY <1>1, <2>1, WorkType
  <2>2. CASE i = 1 /\ j # 1
    <3>1. PICK l \in 1 .. Len(c) : j = l + 1
      <4>1. j - 1 \in 1 .. Len(c) /\ j = (j - 1) + 1
        BY <1>1, <2>2
      <4> QED BY <4>1
    <3> QED BY <1>1, <1>3, <2>2, <3>1, Zenon
  <2>3. CASE i # 1
    <3>1. PICK k \in 1 .. Len(c), l \in 1 .. Len(c) : i = k + 1 /\ j = l + 1 /\ k <= l
      <4>1. /\ j - 1 \in 1 .. Len(c) /\ j = (j - 1) + 1 /\ i - 1 \in 1 .. Len(c)
            /\ i = (i - 1) + 1 /\ i - 1 <= j - 1
        BY <1>1, <1>4, <2>3
      <4> QED BY <4>1
    <3> QED BY <1>1, <3>1, Zenon DEF Rising
  <2> QED BY <2>1, <2>2, <2>3
<1>5. Rising(d)
  BY <1>4, Zenon DEF Rising
<1> QED BY <1>5 DEF d

\* It rises along a branch that clip_orphans has taken a block from.
LEMMA RisingRemove ==
    ASSUME NEW c \in Seq(Blocks), Rising(c), NEW n \in 1 .. Len(c)
    PROVE  Rising(RemoveAt(c, n))
<1> DEFINE d == RemoveAt(c, n)
           from(k) == IF k < n THEN k ELSE k + 1
<1>1. /\ Len(c) \in Nat /\ Len(d) = Len(c) - 1
      /\ \A k \in 1 .. Len(c) - 1 : d[k] = c[from(k)]
  BY RemoveAtElements, LenProperties
<1> HIDE DEF d
<1>2. \A k \in 1 .. Len(d) : from(k) \in 1 .. Len(c)
  BY <1>1
<1>3. \A k, l \in 1 .. Len(d) : k <= l => from(k) <= from(l)
  BY <1>1
<1> HIDE DEF from
<1>4. Rising(d)
  BY <1>1, <1>2, <1>3, Zenon DEF Rising
<1> QED BY <1>4 DEF d

-----------------------------------------------------------------------------
(* The chains and the branch.                                              *)

\* Every step of do_store, and a restart, leaves work rising along the main chain,
\* the chains a crash can leave and the branch.
LEMMA RisingStep ==
    ASSUME IndInv, IndInv', RisingPart, Next
    PROVE  RisingPart'
<1> USE DEF IndInv
<1>1. /\ chain \in Seq(Blocks) /\ orphan_chain \in Seq(Blocks) /\ pool \in Seq(Blocks)
      /\ committed \in Seq(Blocks) /\ fork_index \in Nat /\ iter \in Nat
      /\ recoverable \subseteq Seq(Blocks)
  BY DEF TypeOK
<1>2. Rising(committed)
  BY DEF RisingPart, ChainPart
<1>3. ASSUME NEW b \in Blocks, DoStore(b) PROVE RisingPart'
  <2>1. UNCHANGED <<chain, orphan_chain, recoverable>>
    BY <1>3, Zenon DEF DoStore, StoreConfirmed, StoreDuplicateOrphan, StoreNew, db, locals
  <2> QED BY <2>1, Zenon DEF RisingPart, Rising
<1>4. CASE NextUnprocessed
  <2>1. PICK i \in DOMAIN pool : orphan_chain' = <<pool[i]>>
    BY <1>4 DEF NextUnprocessed
  <2>2. pool[i] \in Blocks
    BY <1>1
  <2>3. Rising(orphan_chain')
    BY <2>1, <2>2, RisingSingle
  <2>4. UNCHANGED <<chain, recoverable>>
    BY <1>4 DEF NextUnprocessed, db
  <2> QED BY <2>3, <2>4, Zenon DEF RisingPart, Rising
<1>5. CASE TraceBack
  <2>1. /\ UNCHANGED <<chain, recoverable>> /\ orphan_chain' = <<Parent[Head(orphan_chain)]>> \o orphan_chain
        /\ Parent[Head(orphan_chain)] \in Range(pool)
        /\ Len(orphan_chain) > 0
    BY <1>5, Zenon DEF TraceBack, db, TracePart
  <2>2. Head(orphan_chain) = orphan_chain[1]
    BY <1>1, <2>1
  <2>3. Range(pool) \subseteq Blocks
    BY <1>1, SequenceTypes
  <2>4. Rising(orphan_chain')
    BY <1>1, <2>1, <2>2, <2>3, RisingCons DEF RisingPart
  <2> QED BY <2>1, <2>4, Zenon DEF RisingPart, Rising
<1>6. CASE TraceDisconnected \/ KeepMain
  <2>1. UNCHANGED <<chain, recoverable>> /\ orphan_chain' = <<>>
    BY <1>6 DEF TraceDisconnected, KeepMain, db, Processed, NoLocals
  <2> QED BY <2>1, RisingEmpty, Zenon DEF RisingPart, Rising
<1>7. CASE TraceConnected \/ VerifyPass \/ VerifyDone \/ WeighMain \/ ArriveDone \/ Restore
  <2>1. UNCHANGED <<chain, recoverable, orphan_chain>>
    <3>1. CASE TraceConnected \/ VerifyPass \/ VerifyDone
      BY <3>1 DEF TraceConnected, VerifyPass, VerifyDone, db
    <3>2. CASE WeighMain \/ ArriveDone \/ Restore
      BY <3>2 DEF WeighMain, ArriveDone, Restore, db
    <3> QED BY <1>7, <3>1, <3>2, Zenon
  <2> QED BY <2>1, Zenon DEF RisingPart, Rising
<1>8. CASE VerifyFail \/ ClipOrphan
  <2>1. /\ UNCHANGED <<chain, recoverable>> /\ iter < Len(orphan_chain)
        /\ orphan_chain' = RemoveAt(orphan_chain, iter + 1)
    BY <1>8, Zenon DEF VerifyFail, ClipOrphan, Clip, db
  <2>2. iter + 1 \in 1 .. Len(orphan_chain)
    BY <1>1, <2>1, LenProperties
  <2>3. Rising(orphan_chain')
    BY <1>1, <2>1, <2>2, RisingRemove DEF RisingPart
  <2> QED BY <2>1, <2>3, Zenon DEF RisingPart, Rising
<1>9. CASE EndSlice
  <2>1. UNCHANGED <<orphan_chain, recoverable>> /\ chain' = Kept(committed, fork_index)
        /\ fork_index + 1 <= Len(committed)
    BY <1>9, Zenon DEF EndSlice, ChainPart, Swapping, ForkPart, Branching
  <2>2. Rising(chain')
    BY <1>1, <1>2, <2>1, RisingKept
  <2> QED BY <2>1, <2>2, Zenon DEF RisingPart, Rising
<1>10. CASE Arrive
  <2>1. PICK b : b = orphan_chain[iter + 1] /\ chain' = Append(chain, b)
    BY <1>10, Zenon DEF Arrive
  <2>2. UNCHANGED <<orphan_chain, recoverable>>
    BY <1>10 DEF Arrive
  <2>3. IsMainChain(chain) /\ IsMainChain(chain')
    BY DEF ChainPart, GoodChain
  <2>4. iter + 1 \in 1 .. Len(orphan_chain) /\ b = orphan_chain[iter + 1]
    <3>1. iter < Len(orphan_chain)
      BY <1>10 DEF Arrive
    <3> QED BY <1>1, <2>1, <3>1, LenProperties
  <2>5. b \in Blocks
    BY <1>1, <2>4, ElementOfSeq
  <2>6. /\ Len(chain) \in Nat /\ Len(chain) > 0 /\ Len(chain') = Len(chain) + 1
        /\ chain'[Len(chain) + 1] = b /\ chain'[Len(chain)] = chain[Len(chain)]
    BY <1>1, <2>1, <2>3, <2>5, AppendProperties, LenProperties DEF IsMainChain
  <2>7. Len(chain) \in 1 .. Len(chain') - 1
    BY <2>6
  <2>8. Parent[b] = chain[Len(chain)]
    BY <2>3, <2>6, <2>7 DEF IsMainChain
  <2>9. Rising(chain')
    BY <1>1, <2>1, <2>5, <2>6, <2>8, RisingAppend, Zenon DEF RisingPart
  <2> QED BY <2>2, <2>9, Zenon DEF RisingPart, Rising
<1>11. CASE CommitAndNotify
  <2>1. UNCHANGED chain /\ orphan_chain' = <<>> /\ recoverable' = recoverable \cup {chain}
    BY <1>11 DEF CommitAndNotify, Processed, NoLocals
  <2> QED BY <2>1, RisingEmpty, Zenon DEF RisingPart, Rising
<1>12. CASE Reply
  <2>1. /\ UNCHANGED <<chain, orphan_chain>>
        /\ recoverable' = recoverable \/ recoverable' = {committed}
    BY <1>12 DEF Reply, locals
  <2> QED BY <1>2, <2>1, Zenon DEF RisingPart, Rising
<1>13. CASE Crash
  <2>1. PICK c \in recoverable : chain' = c /\ recoverable' = {c} /\ orphan_chain' = <<>>
    BY <1>13 DEF Crash, Boot, NoLocals
  <2> QED BY <2>1, RisingEmpty, Zenon DEF RisingPart, Rising
<1>14. CASE Tick
  <2>1. UNCHANGED <<chain, recoverable, orphan_chain>>
    BY <1>14 DEF Tick, db, locals
  <2> QED BY <2>1, Zenon DEF RisingPart, Rising
<1> QED BY <1>3, <1>4, <1>5, <1>6, <1>7, <1>8, <1>9, <1>10, <1>11, <1>12, <1>13, <1>14, Zenon
        DEF Next, Step

-----------------------------------------------------------------------------
(* The replaced blocks.                                                    *)

\* q is p with b at the end: an element of p stays where it is or, when p is
\* full, moves one place to the front as the first one leaves.
Pushed(p, q, b) ==
    /\ q[Len(q)] = b
    /\ Len(p) < PoolSize => Len(q) = Len(p) + 1 /\ \A i \in 1 .. Len(p) : q[i] = p[i]
    /\ ~(Len(p) < PoolSize) => Len(q) = Len(p) /\ \A i \in 1 .. Len(p) - 1 : q[i] = p[i + 1]

\* push_back leaves what it has: every element is as far from the end as before,
\* or one further.
LEMMA PushBackElements ==
    ASSUME NEW S, NEW p \in Seq(S), NEW b \in S, Len(p) <= PoolSize, NEW q, q = PushBack(p, b)
    PROVE  Pushed(p, q, b)
<1> USE DEF Pushed
<1>1. PoolSize \in Nat \ {0} /\ Len(p) \in Nat
  BY BoundsAssumption, LenProperties
<1>2. CASE Len(p) < PoolSize
  <2>1. q = Append(p, b)
    BY <1>2 DEF PushBack
  <2> QED BY <1>1, <1>2, <2>1, AppendProperties
<1>3. CASE ~(Len(p) < PoolSize)
  <2>1. q = Append(Tail(p), b) /\ Len(p) = PoolSize /\ p # <<>>
    BY <1>1, <1>3 DEF PushBack
  <2>2. /\ Tail(p) \in Seq(S) /\ Len(Tail(p)) = Len(p) - 1
        /\ \A i \in 1 .. Len(p) - 1 : Tail(p)[i] = p[i + 1]
    BY <2>1, HeadTailProperties
  <2>3. /\ Len(q) = Len(Tail(p)) + 1 /\ q[Len(q)] = b
        /\ \A i \in 1 .. Len(Tail(p)) : q[i] = Tail(p)[i]
    BY <2>1, <2>2, AppendProperties
  <2> QED BY <1>1, <2>1, <2>2, <2>3, SMTT(30)
<1> QED BY <1>2, <1>3

\* Every step leaves the replaced blocks that are back at the end of the pool.
LEMMA RestoredStep ==
    ASSUME IndInv, RestoredPart, Next
    PROVE  RestoredPart'
<1> USE DEF IndInv
<1> SUFFICES ASSUME pc' = "restore"
             PROVE  /\ iter' <= Len(pool') \/ Len(pool') = PoolSize
                    /\ \A k \in 1 .. iter' : Len(pool') - iter' + k > 0 =>
                          pool'[Len(pool') - iter' + k] = replaced_slice'[k]
  BY DEF RestoredPart
<1>1. pool \in Seq(Blocks) /\ Len(pool) \in Nat /\ iter \in Nat /\ replaced_slice \in Seq(Blocks)
  BY LenProperties DEF TypeOK
<1>2. \/ ArriveDone \/ Restore
      \/ pc = "restore" /\ UNCHANGED <<pool, iter, replaced_slice>>
  BY ZenonT(30) DEF Next, DoStore, StoreConfirmed, StoreDuplicateOrphan, StoreNew, Step, NextUnprocessed,
         TraceBack, TraceDisconnected, TraceConnected, VerifyPass, VerifyFail, ClipOrphan, Clip,
         VerifyDone, WeighMain, KeepMain, EndSlice, Arrive, CommitAndNotify, Processed, Reply, Crash,
         Boot, Tick, orphans, locals, vars
<1>3. CASE ArriveDone
  BY <1>1, <1>3 DEF ArriveDone, orphans
<1>4. CASE Restore
  <2>1. /\ pc = "restore" /\ iter < Len(replaced_slice) /\ iter' = iter + 1
        /\ replaced_slice' = replaced_slice
        /\ pool' = IF replaced_slice[iter + 1] \in Range(pool) THEN pool
                   ELSE PushBack(pool, replaced_slice[iter + 1])
    BY <1>4 DEF Restore
  <2>2. PICK b \in Blocks : b = replaced_slice[iter + 1]
    <3>1. iter + 1 \in 1 .. Len(replaced_slice)
      BY <1>1, <2>1, LenProperties
    <3> QED BY <1>1, <3>1, ElementOfSeq
  <2>3. b \notin Range(pool)
    <3>1. iter + 1 \in 1 .. Len(replaced_slice) /\ iter + 1 > iter
      BY <1>1, <2>1, LenProperties
    <3> QED BY <2>1, <2>2, <3>1, Zenon DEF SwapPart, Swapping
  <2>4. pool' = PushBack(pool, b) /\ Len(pool) <= PoolSize
    BY <2>1, <2>2, <2>3 DEF PoolPart, PoolSound
  <2>5. /\ pool'[Len(pool')] = b
        /\ Len(pool) < PoolSize =>
              Len(pool') = Len(pool) + 1 /\ \A i \in 1 .. Len(pool) : pool'[i] = pool[i]
        /\ ~(Len(pool) < PoolSize) =>
              Len(pool') = Len(pool) /\ \A i \in 1 .. Len(pool) - 1 : pool'[i] = pool[i + 1]
    <3> HIDE DEF IndInv
    <3>1. PICK q : q = PushBack(pool, b)
      BY Zenon
    <3>2. Pushed(pool, q, b)
      BY <1>1, <2>4, <3>1, PushBackElements, Zenon
    <3>3. pool' = q
      BY <2>4, <3>1, Zenon
    <3> QED BY <3>2, <3>3, Zenon DEF Pushed
  <2>6. PoolSize \in Nat
    BY BoundsAssumption
  <2>7. /\ iter <= Len(pool) \/ Len(pool) = PoolSize
        /\ \A k \in 1 .. iter : Len(pool) - iter + k > 0 => pool[Len(pool) - iter + k] = replaced_slice[k]
    BY <2>1 DEF RestoredPart
  <2>8. iter' <= Len(pool') \/ Len(pool') = PoolSize
    <3>1. \/ Len(pool) < PoolSize /\ Len(pool') = Len(pool) + 1
          \/ Len(pool) = PoolSize /\ Len(pool') = Len(pool)
      BY <1>1, <2>4, <2>5, <2>6
    <3> QED BY <1>1, <2>1, <2>6, <2>7, <3>1
  <2>9. ASSUME NEW k \in 1 .. iter', Len(pool') - iter' + k > 0
        PROVE  pool'[Len(pool') - iter' + k] = replaced_slice'[k]
    <3>1. CASE k = iter + 1
      <4>0. Len(pool') \in Nat /\ iter' = k
        BY <1>1, <2>1, <2>5, <3>1
      <4>1. Len(pool') - iter' + k = Len(pool')
        BY <1>1, <3>1, <4>0
      <4> QED BY <2>1, <2>2, <2>5, <3>1, <4>1, Zenon
    <3>2. CASE k # iter + 1 /\ Len(pool) < PoolSize
      <4>1. k \in 1 .. iter /\ Len(pool') - iter' + k = Len(pool) - iter + k
            /\ Len(pool) - iter + k \in 1 .. Len(pool)
        <5>1. Len(pool') = Len(pool) + 1 /\ iter' = iter + 1
          BY <2>1, <2>5, <3>2, Zenon
        <5> QED BY <1>1, <2>9, <3>2, <5>1
      <4>2. Len(pool) - iter + k > 0
        BY <4>1
      <4>3. pool'[Len(pool) - iter + k] = pool[Len(pool) - iter + k]
        BY <2>5, <2>6, <3>2, <4>1
      <4> QED BY <2>1, <2>7, <4>1, <4>2, <4>3, Zenon
    <3>3. CASE k # iter + 1 /\ ~(Len(pool) < PoolSize)
      <4> DEFINE m == Len(pool) - iter + k - 1
      <4>1. /\ k \in 1 .. iter /\ Len(pool') - iter' + k = m /\ m + 1 = Len(pool) - iter + k
            /\ m \in 1 .. Len(pool) - 1 /\ Len(pool) - iter + k > 0
        <5>1. Len(pool') = Len(pool) /\ iter' = iter + 1
          BY <2>1, <2>5, <3>3, Zenon
        <5> QED BY <1>1, <2>9, <3>3, <5>1
      <4> HIDE DEF m
      <4>2. pool'[m] = pool[m + 1]
        BY <2>5, <3>3, <4>1
      <4> QED BY <2>1, <2>7, <4>1, <4>2, Zenon
    <3> QED BY <3>1, <3>2, <3>3
  <2> QED BY <2>8, <2>9
<1>5. CASE pc = "restore" /\ UNCHANGED <<pool, iter, replaced_slice>>
  BY <1>5, Zenon DEF RestoredPart
<1> QED BY <1>2, <1>3, <1>4, <1>5

-----------------------------------------------------------------------------
(* The blocks that were weighed.                                           *)

\* What becomes of the pool: only a stored block or a replaced one comes in.
LEMMA PoolGains ==
    ASSUME IndInv, NEW b \in Blocks
    PROVE  /\ b \notin Range(pool) =>
                 b \in Range(PushBack(pool, b)) /\ Range(PushBack(pool, b)) \subseteq Range(pool) \cup {b}
           /\ \A i \in DOMAIN pool : Range(RemoveAt(pool, i)) = Range(pool) \ {pool[i]}
<1>1. /\ pool \in Seq(Blocks) /\ Len(pool) <= PoolSize /\ NoDuplicates(pool)
      /\ DOMAIN pool = 1 .. Len(pool)
  BY DEF IndInv, TypeOK, PoolPart, PoolSound
<1> QED BY <1>1, PushBackPool, RemoveAtPool

\* Two branches compare above their fork as they do from the first block.
LEMMA SidesCompared ==
    ASSUME NEW x \in Nat, NEW y \in Nat, NEW fork \in Nat
    PROVE  x - fork <= y - fork <=> x <= y
OBVIOUS

\* The last block of a rising sequence has the most work.
LEMMA RisingLast ==
    ASSUME NEW c \in Seq(Blocks), Rising(c), NEW b \in Range(c)
    PROVE  CumWork[b] <= CumWork[Last(c)]
<1>1. PICK i \in 1 .. Len(c) : c[i] = b
  BY RangeIndex
<1>2. Len(c) \in 1 .. Len(c) /\ i <= Len(c)
  BY LenProperties
<1> QED BY <1>1, <1>2, Zenon DEF Rising, Last

\* No step leaves in the pool a block that was weighed and is heavier than the tip,
\* or than the tip-to-be during the exchange.
LEMMA WeighedStep ==
    ASSUME IndInv, RisingPart, WeighedPart, Next
    PROVE  WeighedPart'
<1> USE DEF IndInv
<1> DEFINE Light(b) == CumWork[b] <= CumWork[Last(committed)]
<1>1. /\ chain \in Seq(Blocks) /\ orphan_chain \in Seq(Blocks) /\ pool \in Seq(Blocks)
      /\ committed \in Seq(Blocks) /\ fork_index \in Nat /\ iter \in Nat
      /\ replaced_slice \in Seq(Blocks) /\ weighed \subseteq Blocks
  BY DEF TypeOK
<1>2. Rising(committed) /\ Rising(orphan_chain)
  BY DEF RisingPart, ChainPart
<1>3. ASSUME NEW b \in Blocks, DoStore(b) PROVE WeighedPart'
  <2>1. /\ pc \notin Swapping /\ pc' \notin Swapping /\ UNCHANGED committed
        /\ weighed' \cap Range(pool') \subseteq weighed \cap Range(pool)
    <3>1. CASE StoreNew(b)
      <4>1. /\ pc = "idle" /\ pc' = "start" /\ UNCHANGED committed /\ pool' = PushBack(pool, b)
            /\ weighed' = weighed \ {b} /\ b \notin Range(pool)
        BY <3>1 DEF StoreNew, db
      <4>2. Range(pool') \subseteq Range(pool) \cup {b}
        BY <4>1, PoolGains
      <4> QED BY <4>1, <4>2 DEF Swapping
    <3>2. CASE StoreConfirmed(b) \/ StoreDuplicateOrphan(b)
      <4>1. /\ pc = "idle" /\ pc' \in {"idle", "start"} /\ UNCHANGED <<committed, pool, weighed>>
        BY <3>2 DEF StoreConfirmed, StoreDuplicateOrphan, db, orphans, others
      <4> QED BY <4>1 DEF Swapping
    <3> QED BY <1>3, <3>1, <3>2 DEF DoStore
  <2> QED BY <2>1, Zenon DEF WeighedPart
<1>4. CASE \/ NextUnprocessed \/ TraceBack \/ TraceDisconnected \/ TraceConnected \/ VerifyPass
           \/ VerifyDone \/ WeighMain \/ Reply
  <2>1. /\ pc \notin Swapping /\ pc' \notin Swapping /\ UNCHANGED <<committed, pool, weighed>>
    <3>1. CASE NextUnprocessed \/ TraceBack
      BY <3>1 DEF NextUnprocessed, TraceBack, db, orphans, others, Swapping
    <3>2. CASE TraceDisconnected \/ TraceConnected
      BY <3>2 DEF TraceDisconnected, TraceConnected, db, orphans, others, Processed, Swapping
    <3>3. CASE VerifyPass \/ VerifyDone
      BY <3>3 DEF VerifyPass, VerifyDone, db, orphans, others, Swapping
    <3>4. CASE WeighMain \/ Reply
      BY <3>4 DEF WeighMain, Reply, db, orphans, others, Swapping
    <3> QED BY <1>4, <3>1, <3>2, <3>3, <3>4, Zenon
  <2> QED BY <2>1, Zenon DEF WeighedPart
<1>5. CASE VerifyFail \/ ClipOrphan
  <2>1. /\ pc \notin Swapping /\ pc' \notin Swapping /\ UNCHANGED <<committed, weighed>>
        /\ \E i \in DOMAIN pool : pool' = RemoveAt(pool, i)
    BY <1>5, Zenon DEF VerifyFail, ClipOrphan, Clip, db, others, Swapping
  <2>2. Range(pool') \subseteq Range(pool)
    BY <2>1, PoolGains, ConstantTypes
  <2> QED BY <2>1, <2>2, Zenon DEF WeighedPart
<1>6. CASE KeepMain
  <2>1. /\ pc = "weigh" /\ pc' = "start" /\ UNCHANGED <<committed, pool>> /\ NotHeavier
        /\ iter + 1 = Len(committed) /\ weighed' = weighed \cup Range(orphan_chain)
    BY <1>6 DEF KeepMain, Processed, db, ChainPart, Swapping
  <2>2. ASSUME NEW b \in Range(orphan_chain) PROVE Light(b)
    <3>1. Len(orphan_chain) \in Nat \ {0}
      BY <1>1, <2>2, LenProperties, RangeIndex
    <3>2. CumWork[b] <= CumWork[Last(orphan_chain)]
      BY <1>1, <1>2, <2>2, RisingLast
    <3>3. /\ orphan_work = CumWork[Last(orphan_chain)] - CumWork[committed[fork_index + 1]]
          /\ main_work = CumWork[Last(committed)] - CumWork[committed[fork_index + 1]]
      BY <2>1, <3>1, Zenon DEF WorkPart, BranchWork, Last
    <3>4. /\ b \in Blocks /\ Last(orphan_chain) \in Blocks /\ Last(committed) \in Blocks
          /\ committed[fork_index + 1] \in Blocks
      <4>1. b \in Blocks
        BY <1>1, <2>2, RangeIndex
      <4>2. Last(orphan_chain) \in Blocks
        BY <1>1, <3>1, ElementOfSeq DEF Last
      <4>3. Len(committed) \in Nat \ {0} /\ fork_index + 1 \in 1 .. Len(committed)
        BY <1>1, <2>1, LenProperties DEF ForkPart, Branching
      <4>4. Last(committed) \in Blocks /\ committed[fork_index + 1] \in Blocks
        BY <1>1, <4>3, ElementOfSeq DEF Last
      <4> QED BY <4>1, <4>2, <4>4
    <3>5. /\ CumWork[b] \in Nat /\ CumWork[Last(orphan_chain)] \in Nat
          /\ CumWork[Last(committed)] \in Nat /\ CumWork[committed[fork_index + 1]] \in Nat
      BY <3>4, WorkType
    <3>6. CumWork[Last(orphan_chain)] <= CumWork[Last(committed)]
      BY <2>1, <3>3, <3>5, SidesCompared, Zenon DEF NotHeavier
    <3> QED BY <3>2, <3>5, <3>6
  <2>3. \A b \in weighed \cap Range(pool) : Light(b)
    BY <2>1, Zenon DEF WeighedPart, Swapping
  <2>4. "start" \notin Swapping
    BY DEF Swapping
  <2> QED BY <2>1, <2>2, <2>3, <2>4, Zenon DEF WeighedPart
<1>7. CASE EndSlice
  <2>1. /\ pc = "weigh" /\ pc' = "arrive" /\ UNCHANGED <<committed, pool, orphan_chain>> /\ ~NotHeavier
        /\ iter + 1 = Len(committed) /\ fork_index + 1 <= Len(committed)
        /\ replaced_slice' = Sliced(committed, fork_index)
        /\ weighed' = weighed \cup Range(orphan_chain) \cup Range(Sliced(committed, fork_index))
    BY <1>7 DEF EndSlice, ChainPart, Swapping, ForkPart, Branching
  <2>2. Len(committed) \in Nat \ {0} /\ Len(orphan_chain) \in Nat
    BY <1>1, <2>1, LenProperties
  <2>3. Last(committed) \in Blocks /\ committed[fork_index + 1] \in Blocks
    <3>1. fork_index + 1 \in 1 .. Len(committed) /\ Len(committed) \in 1 .. Len(committed)
      BY <1>1, <2>1, <2>2
    <3> QED BY <1>1, <3>1, ElementOfSeq DEF Last
  <2>4. Len(orphan_chain) # 0 /\ CumWork[Last(committed)] < CumWork[Last(orphan_chain)]
    <3>1. main_work = CumWork[Last(committed)] - CumWork[committed[fork_index + 1]]
      BY <2>1 DEF WorkPart, Last
    <3>2. Rising(committed) /\ fork_index + 1 \in 1 .. Len(committed)
      BY <1>1, <1>2, <2>1, <2>2, SMTT(30)
    <3>3. CumWork[committed[fork_index + 1]] <= CumWork[Last(committed)]
      BY <1>1, <3>2, RisingLast, InRange, Zenon
    <3>4. CumWork[Last(committed)] \in Nat /\ CumWork[committed[fork_index + 1]] \in Nat
      BY <2>3, WorkType
    <3>5. main_work >= 0
      BY <3>1, <3>3, <3>4
    <3>6. CASE Len(orphan_chain) = 0
      <4>1. orphan_work = 0
        BY <2>1, <3>6, Zenon DEF WorkPart, BranchWork
      <4> QED BY <2>1, <3>5, <4>1 DEF NotHeavier
    <3>7. CASE Len(orphan_chain) # 0
      <4>1. orphan_work = CumWork[Last(orphan_chain)] - CumWork[committed[fork_index + 1]]
        BY <2>1, <3>7, Zenon DEF WorkPart, BranchWork, Last
      <4>2. Last(orphan_chain) \in Blocks
        BY <1>1, <2>2, <3>7, ElementOfSeq DEF Last
      <4>3. CumWork[Last(orphan_chain)] \in Nat
        BY <4>2, WorkType
      <4>4. ~(CumWork[Last(orphan_chain)] <= CumWork[Last(committed)])
        BY <2>1, <3>1, <3>4, <4>1, <4>3, SidesCompared, Zenon DEF NotHeavier
      <4> QED BY <3>4, <3>7, <4>3, <4>4
    <3> QED BY <3>6, <3>7, Zenon
  <2>5. ASSUME NEW b \in Blocks, Light(b) PROVE CumWork[b] <= CumWork[Last(orphan_chain)]
    <3>1. Last(orphan_chain) \in Blocks
      BY <1>1, <2>2, <2>4, ElementOfSeq DEF Last
    <3>2. CumWork[b] \in Nat /\ CumWork[Last(committed)] \in Nat /\ CumWork[Last(orphan_chain)] \in Nat
      BY <2>3, <3>1, WorkType
    <3> QED BY <2>4, <2>5, <3>2
  <2>6. ASSUME NEW b \in Range(Sliced(committed, fork_index)) PROVE b \in Blocks /\ Light(b)
    <3>1. PICK s \in Seq(Blocks) : s = Sliced(committed, fork_index)
      BY <1>1, <2>1, SlicedElements
    <3>2. PICK i \in 1 .. Len(s) : s[i] = b
      BY <2>6, <3>1, RangeIndex
    <3>0. /\ Len(s) = Len(committed) - fork_index - 1
          /\ \A j \in 1 .. Len(committed) - fork_index - 1 : s[j] = committed[fork_index + 1 + j]
      <4>1. PICK c \in Seq(Blocks) : c = committed
        BY <1>1
      <4>2. PICK f \in Nat : f = fork_index /\ f + 1 <= Len(c)
        BY <1>1, <2>1, <4>1
      <4>3. /\ Len(Sliced(c, f)) = Len(c) - f - 1
            /\ \A j \in 1 .. Len(c) - f - 1 : Sliced(c, f)[j] = c[f + 1 + j]
        BY <4>1, <4>2, SlicedElements, SMTT(20)
      <4> QED BY <3>1, <4>1, <4>2, <4>3, Zenon
    <3>3. Len(s) = Len(committed) - fork_index - 1 /\ s[i] = committed[fork_index + 1 + i]
      BY <3>0, <3>2
    <3>4. fork_index + 1 + i \in 1 .. Len(committed)
      BY <1>1, <2>2, <3>2, <3>3
    <3>5. b \in Range(committed) /\ b \in Blocks
      BY <1>1, <3>2, <3>3, <3>4, InRange, ElementOfSeq, Zenon
    <3> QED BY <1>1, <1>2, <3>5, RisingLast, Zenon
  <2>7. \A b \in weighed \cap Range(pool) : b \in Blocks /\ Light(b)
    BY <1>1, <2>1, Zenon DEF WeighedPart, Swapping
  <2>8. ASSUME NEW b \in weighed', b \in Range(pool) \cup Range(replaced_slice')
        PROVE  CumWork[b] <= CumWork[Last(orphan_chain)]
    <3>1. CASE b \in Range(orphan_chain)
      BY <1>1, <1>2, <3>1, RisingLast
    <3>2. CASE b \notin Range(orphan_chain)
      BY <2>1, <2>5, <2>6, <2>7, <2>8, <3>2, Zenon
    <3> QED BY <3>1, <3>2
  <2>9. "arrive" \in Swapping
    BY DEF Swapping
  <2> QED BY <2>1, <2>8, <2>9, ZenonT(30) DEF WeighedPart
<1>8. CASE Arrive \/ ArriveDone
  <2>1. /\ pc \in Swapping /\ pc' \in Swapping /\ UNCHANGED <<weighed, orphan_chain, replaced_slice>>
        /\ UNCHANGED pool \/ \E i \in DOMAIN pool : pool' = RemoveAt(pool, i)
    <3>1. CASE Arrive
      BY <3>1 DEF Arrive, orphans, others, Swapping
    <3>2. CASE ArriveDone
      BY <3>2 DEF ArriveDone, orphans, others, Swapping
    <3> QED BY <1>8, <3>1, <3>2
  <2>2. Range(pool') \subseteq Range(pool)
    BY <2>1, PoolGains, ConstantTypes
  <2> QED BY <2>1, <2>2, Zenon DEF WeighedPart
<1>9. CASE Restore
  <2>1. /\ pc = "restore" /\ pc' = "restore" /\ UNCHANGED <<weighed, orphan_chain, replaced_slice>>
        /\ iter < Len(replaced_slice)
        /\ pool' = IF replaced_slice[iter + 1] \in Range(pool) THEN pool
                   ELSE PushBack(pool, replaced_slice[iter + 1])
    BY <1>9 DEF Restore, others
  <2>2. iter + 1 \in 1 .. Len(replaced_slice)
    BY <1>1, <2>1, LenProperties
  <2>3. PICK b \in Blocks : b = replaced_slice[iter + 1] /\ b \in Range(replaced_slice)
    BY <1>1, <2>2, ElementOfSeq, InRange
  <2>4. Range(pool') \subseteq Range(pool) \cup Range(replaced_slice)
    <3>1. pool' = IF b \in Range(pool) THEN pool ELSE PushBack(pool, b)
      BY <2>1, <2>3
    <3>2. b \notin Range(pool) => Range(PushBack(pool, b)) \subseteq Range(pool) \cup {b}
      BY PoolGains
    <3> QED BY <2>3, <3>1, <3>2
  <2>5. "restore" \in Swapping
    BY DEF Swapping
  <2> QED BY <2>1, <2>4, <2>5, Zenon DEF WeighedPart
<1>10. CASE CommitAndNotify
  <2>1. /\ pc = "restore" /\ pc' = "start" /\ committed' = chain /\ UNCHANGED <<pool, weighed>>
    BY <1>10 DEF CommitAndNotify, Processed, others
  <2>2. Last(chain) = Last(orphan_chain)
    <3>1. Len(chain) = fork_index + 1 + Len(orphan_chain) /\ Len(orphan_chain) > 0
          /\ \A k \in 1 .. Len(chain) - fork_index - 1 : chain[fork_index + 1 + k] = orphan_chain[k]
      BY <2>1 DEF SwapPart, Swapping
    <3>2. Len(orphan_chain) \in 1 .. Len(chain) - fork_index - 1
      BY <1>1, <3>1, LenProperties
    <3> QED BY <3>1, <3>2 DEF Last
  <2>3. "restore" \in Swapping /\ "start" \notin Swapping
    BY DEF Swapping
  <2> QED BY <2>1, <2>2, <2>3, Zenon DEF WeighedPart, Last
<1>11. CASE Crash
  <2>1. pc' = "idle" /\ weighed' = {}
    BY <1>11 DEF Crash, Boot
  <2> QED BY <2>1 DEF WeighedPart, Swapping
<1>12. CASE Tick
  <2>1. UNCHANGED <<pc, committed, pool, weighed, orphan_chain, replaced_slice>>
    BY <1>12 DEF Tick, db, orphans, locals
  <2> QED BY <2>1, Zenon DEF WeighedPart, Last
<1> QED BY <1>3, <1>4, <1>5, <1>6, <1>7, <1>8, <1>9, <1>10, <1>11, <1>12, ZenonT(30) DEF Next, Step
=============================================================================
