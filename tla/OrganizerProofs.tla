-------------------------- MODULE OrganizerProofs ---------------------------
(***************************************************************************)
(* The safety properties of Organizer, for every block forest and every    *)
(* value of the constants.  The argument rests on two invariants: IndInv,  *)
(* which the steps of do_store keep, and OutcomeInv, which they keep where *)
(* IndInv holds; its last part, the detail of the block, is shown here.    *)
(***************************************************************************)
EXTENDS OrganizerSteps, OrganizerOutcome

-----------------------------------------------------------------------------
(* The detail of the stored block.                                         *)

\* The branch that trace() has put a block in front of.
LEMMA ConsRange ==
    ASSUME NEW p \in Blocks, NEW c \in Seq(Blocks)
    PROVE  Range(<<p>> \o c) = {p} \cup Range(c)
<1> DEFINE d == <<p>> \o c
<1>1. /\ Len(c) \in Nat /\ d \in Seq(Blocks) /\ Len(d) = Len(c) + 1 /\ d[1] = p
      /\ \A k \in 1 .. Len(c) : d[k + 1] = c[k]
  OBVIOUS
<1> HIDE DEF d
<1>2. ASSUME NEW x \in Range(c) PROVE x \in Range(d)
  <2>1. PICK k \in 1 .. Len(c) : c[k] = x
    BY RangeIndex
  <2>2. k + 1 \in 1 .. Len(d) /\ d[k + 1] = x
    BY <1>1, <2>1
  <2> QED BY <1>1, <2>2, InRange
<1>3. p \in Range(d)
  <2>1. 1 \in 1 .. Len(d)
    BY <1>1
  <2> QED BY <1>1, <2>1, InRange
<1>4. ASSUME NEW x \in Range(d) PROVE x \in {p} \cup Range(c)
  <2>1. PICK k \in 1 .. Len(d) : d[k] = x
    BY <1>1, RangeIndex
  <2>2. CASE k = 1
    BY <1>1, <2>1, <2>2
  <2>3. CASE k # 1
    <3>1. k - 1 \in 1 .. Len(c) /\ k - 1 + 1 = k
      BY <1>1, <2>3
    <3>2. d[k] = c[k - 1]
      BY <1>1, <3>1
    <3> QED BY <2>1, <3>1, <3>2, InRange
  <2> QED BY <2>2, <2>3
<1> QED BY <1>2, <1>3, <1>4 DEF d

\* Every step keeps the detail of the stored block true of where the block is.
LEMMA DetailStep ==
    ASSUME IndInv, DetailPart, Next
    PROVE  DetailPart'
<1> USE DEF IndInv
<1> DEFINE Waits == /\ pc' # "restore" /\ stored' \in Range(pool')
                    /\ pc' # "start" => stored' \in Range(orphan_chain')
           Out == /\ stored' \notin Range(pool') \cup Range(chain') \cup Range(committed')
                  /\ pc' # "start" => stored' \notin Range(orphan_chain')
           In == /\ pc' \in {"start"} \cup Swapping
                 /\ detail'.depth + 1 \in 1 .. Len(chain')
                 /\ chain'[detail'.depth + 1] = stored'
<1>0. ASSUME /\ detail'.status = "orphan" => Waits
             /\ detail'.status = "rejected" => Out
             /\ detail'.status = "confirmed" => In
      PROVE  DetailPart'
  BY <1>0, Zenon DEF DetailPart
<1>1. /\ chain \in Seq(Blocks) /\ orphan_chain \in Seq(Blocks) /\ pool \in Seq(Blocks)
      /\ committed \in Seq(Blocks) /\ fork_index \in Nat /\ iter \in Nat
      /\ replaced_slice \in Seq(Blocks) /\ stored \in Blocks
      /\ detail.status \in Statuses /\ detail.depth \in Nat
  BY DEF TypeOK, InfoType
<1>2. Range(pool) \cap Range(chain) = {} /\ DOMAIN pool = 1 .. Len(pool) /\ NoDuplicates(pool)
  BY <1>1 DEF PoolPart, PoolSound
<1> HIDE DEF Waits, Out, In, IndInv
<1>3. ASSUME NEW b \in Blocks, DoStore(b) PROVE DetailPart'
  <2>1. CASE StoreConfirmed(b)
    BY <2>1 DEF StoreConfirmed, DetailPart
  <2>2. CASE StoreDuplicateOrphan(b)
    <3>1. /\ pc' = "start" /\ stored' = b /\ pool' = pool /\ b \in Range(pool)
          /\ detail' = Info("success", "orphan", 0)
      BY <2>2 DEF StoreDuplicateOrphan
    <3>2. detail'.status = "orphan"
      BY <3>1 DEF Info
    <3> QED BY <1>0, <3>1, <3>2 DEF Waits
  <2>3. CASE StoreNew(b)
    <3>1. /\ pc' = "start" /\ stored' = b /\ pool' = PushBack(pool, b) /\ b \notin Range(pool)
          /\ detail' = Info("success", "orphan", 0)
      BY <2>3 DEF StoreNew
    <3>2. detail'.status = "orphan" /\ b \in Range(pool')
      BY <3>1, PoolGains DEF Info
    <3> QED BY <1>0, <3>1, <3>2 DEF Waits
  <2> QED BY <1>3, <2>1, <2>2, <2>3, Zenon DEF DoStore
<1>4. CASE NextUnprocessed
  <2>1. PICK i \in DOMAIN pool : pool[i] \in process_queue /\ orphan_chain' = <<pool[i]>>
    BY <1>4 DEF NextUnprocessed
  <2>2. pc = "start" /\ pc' = "trace" /\ UNCHANGED <<db, pool, call>>
    BY <1>4 DEF NextUnprocessed
  <2>3. pool[i] = stored /\ stored \in Range(pool)
    BY <2>1, <2>2 DEF QueuePart, IndInv
  <2>4. detail.status = "orphan"
    <3>1. detail.status # "rejected"
      BY <2>2, <2>3 DEF DetailPart
    <3>2. detail.status = "confirmed" => stored \in Range(chain)
      BY <1>1, <2>2, InRange DEF DetailPart
    <3> QED BY <1>1, <1>2, <2>3, <3>1, <3>2 DEF Statuses
  <2>5. stored \in Range(orphan_chain')
    BY <2>1, <2>3 DEF Range
  <2> QED BY <1>0, <2>2, <2>3, <2>4, <2>5 DEF Waits, db, call
<1>5. CASE TraceBack
  <2>1. /\ pc = "trace" /\ pc' = "trace" /\ UNCHANGED <<chain, committed, pool, stored, detail>>
        /\ Parent[Head(orphan_chain)] \in Range(pool)
        /\ orphan_chain' = <<Parent[Head(orphan_chain)]>> \o orphan_chain
    BY <1>5 DEF TraceBack, db, orphans, call
  <2>2. Range(orphan_chain') = {Parent[Head(orphan_chain)]} \cup Range(orphan_chain)
    <3>1. PICK p \in Blocks : p = Parent[Head(orphan_chain)]
      BY <1>1, <2>1, RangeIndex
    <3>2. orphan_chain' = <<p>> \o orphan_chain
      BY <2>1, <3>1
    <3> QED BY <1>1, <3>1, <3>2, ConsRange
  <2>3. "trace" \notin {"start"} \cup Swapping
    BY DEF Swapping
  <2> QED BY <1>0, <2>1, <2>2, <2>3, Zenon DEF Waits, Out, DetailPart
<1>6. CASE TraceDisconnected \/ KeepMain
  <2>1. /\ pc \in {"trace", "weigh"} /\ pc' = "start" /\ UNCHANGED <<chain, committed, pool, stored, detail>>
    BY <1>6 DEF TraceDisconnected, KeepMain, Processed, db, call
  <2>2. detail.status # "confirmed"
    BY <2>1 DEF DetailPart, Swapping
  <2> QED BY <1>0, <2>1, <2>2, Zenon DEF Waits, Out, DetailPart
<1>7. CASE TraceConnected \/ VerifyPass \/ VerifyDone \/ WeighMain
  <2>1. /\ pc \in {"trace", "verify", "clip", "weigh"} /\ pc' \in {"verify", "weigh"}
        /\ UNCHANGED <<chain, committed, pool, stored, detail, orphan_chain>>
    BY <1>7, Zenon DEF TraceConnected, VerifyPass, VerifyDone, WeighMain, db, orphans, call
  <2>2. detail.status # "confirmed"
    BY <2>1 DEF DetailPart, Swapping
  <2> QED BY <1>0, <2>1, <2>2, Zenon DEF Waits, Out, DetailPart
<1>8. CASE VerifyFail \/ ClipOrphan
  <2>1. PICK ec : Clip(orphan_chain[iter + 1], ec)
    BY <1>8, Zenon DEF VerifyFail, ClipOrphan
  <2>2. /\ pc \in {"verify", "clip"} /\ pc' = "clip" /\ iter + 1 \in 1 .. Len(orphan_chain)
    BY <1>1, <1>8, LenProperties, SMTT(20) DEF VerifyFail, ClipOrphan
  <2>3. PICK b \in Blocks : b = orphan_chain[iter + 1] /\ b \in Range(orphan_chain)
    BY <1>1, <2>2, ElementOfSeq, InRange
  <2>4. PICK i \in DOMAIN pool : pool[i] = b /\ pool' = RemoveAt(pool, i)
    BY <2>1, <2>3 DEF Clip
  <2>5. /\ detail' = (IF b = stored THEN Info(ec, "rejected", 0) ELSE detail)
        /\ orphan_chain' = RemoveAt(orphan_chain, iter + 1)
        /\ UNCHANGED <<chain, committed, stored>>
    BY <2>1, <2>3 DEF Clip, db
  <2>6. Range(pool') = Range(pool) \ {b} /\ b \in Range(pool)
    BY <1>1, <1>2, <2>4, PoolGains, InRange
  <2>7. Range(orphan_chain') = Range(orphan_chain) \ {b}
    <3>1. NoDuplicates(orphan_chain)
      BY <2>2 DEF IndInv, TracePart, Branching
    <3>2. PICK k \in 1 .. Len(orphan_chain) : k = iter + 1
      BY <2>2
    <3>3. Range(RemoveAt(orphan_chain, k)) = Range(orphan_chain) \ {orphan_chain[k]}
      BY <1>1, <3>1, <3>2, RemoveAtPool
    <3> QED BY <2>3, <2>5, <3>2, <3>3, Zenon
  <2>8. CASE b = stored
    <3>1. detail'.status = "rejected"
      BY <2>5, <2>8 DEF Info
    <3>2. b \notin Range(chain) \cup Range(committed)
      BY <1>2, <2>2, <2>6 DEF IndInv, PoolPart
    <3> QED BY <1>0, <2>2, <2>5, <2>6, <2>7, <2>8, <3>1, <3>2, ZenonT(40) DEF Out
  <2>9. CASE b # stored
    <3>1. detail' = detail
      BY <2>5, <2>9
    <3>2. detail.status # "confirmed"
      BY <2>2 DEF DetailPart, Swapping
    <3>3. detail.status = "orphan" => Waits
      BY <2>2, <2>5, <2>6, <2>7, <2>9, ZenonT(40) DEF Waits, DetailPart
    <3>4. detail.status = "rejected" => Out
      BY <2>2, <2>5, <2>6, <2>7, Zenon DEF Out, DetailPart
    <3> QED BY <1>0, <3>1, <3>2, <3>3, <3>4
  <2> QED BY <2>8, <2>9
<1>9. CASE EndSlice
  <2>1. /\ pc = "weigh" /\ pc' = "arrive" /\ UNCHANGED <<committed, pool, stored, detail, orphan_chain>>
        /\ chain' = Kept(chain, fork_index)
    BY <1>9 DEF EndSlice, call
  <2>2. detail.status # "confirmed"
    BY <2>1, Zenon DEF DetailPart, Swapping
  <2>3. chain = committed /\ fork_index + 1 <= Len(chain)
    BY <2>1 DEF IndInv, ChainPart, ForkPart, Branching, Swapping
  <2>4. ASSUME NEW x \in Range(chain') PROVE x \in Range(chain)
    <3>1. PICK f \in Nat : f = fork_index
      BY <1>1
    <3>2. /\ Kept(chain, f) \in Seq(Blocks) /\ Len(Kept(chain, f)) = f + 1
          /\ \A k \in 1 .. f + 1 : Kept(chain, f)[k] = chain[k]
      BY <1>1, <2>3, <3>1, KeptElements
    <3>3. PICK k \in 1 .. f + 1 : Kept(chain, f)[k] = x
      BY <2>1, <2>4, <3>1, <3>2, RangeIndex
    <3>4. k \in 1 .. Len(chain) /\ chain[k] = x
      BY <1>1, <2>3, <3>1, <3>2, <3>3, LenProperties
    <3> QED BY <1>1, <3>4, InRange
  <2> QED BY <1>0, <2>1, <2>2, <2>4, Zenon DEF Waits, Out, DetailPart
<1>10. CASE Arrive
  <2>1. iter + 1 \in 1 .. Len(orphan_chain)
    BY <1>1, <1>10, LenProperties, SMTT(30) DEF Arrive
  <2>2. PICK b \in Blocks : b = orphan_chain[iter + 1]
    BY <1>1, <2>1, ElementOfSeq
  <2>3. PICK i \in DOMAIN pool : pool[i] = b /\ pool' = RemoveAt(pool, i)
    BY <1>10, <2>2 DEF Arrive
  <2>4. /\ pc = "arrive" /\ pc' = "arrive" /\ UNCHANGED <<committed, stored, orphan_chain>>
        /\ detail' = (IF b = stored THEN Info(detail.ec, "confirmed", fork_index + iter + 1) ELSE detail)
        /\ chain' = Append(chain, b)
    BY <1>10, <2>2 DEF Arrive, ArrivalDepth
  <2>5. Range(pool') = Range(pool) \ {b} /\ b \in Range(pool)
    BY <1>1, <1>2, <2>3, PoolGains, InRange
  <2>6. /\ Len(chain) = fork_index + iter + 1 /\ chain' \in Seq(Blocks) /\ Len(chain') = Len(chain) + 1
        /\ chain'[Len(chain) + 1] = b /\ \A k \in 1 .. Len(chain) : chain'[k] = chain[k]
    <3>1. chain \in Seq(Blocks)
      BY <1>1, Zenon
    <3>2. Len(chain) = fork_index + 1 + iter /\ fork_index \in Nat /\ iter \in Nat
      BY <1>1, <2>4, Zenon DEF IndInv, SwapPart, Swapping
    <3>3. chain' = Append(chain, b)
      BY <2>4, Zenon
    <3>4. Len(chain) = fork_index + iter + 1
      BY <3>2
    <3>5. /\ Append(chain, b) \in Seq(Blocks) /\ Len(Append(chain, b)) = Len(chain) + 1
          /\ Append(chain, b)[Len(chain) + 1] = b
          /\ \A k \in 1 .. Len(chain) : Append(chain, b)[k] = chain[k]
      BY <3>1, AppendProperties
    <3> QED BY <3>3, <3>4, <3>5, Zenon
  <2>7. "arrive" \in Swapping
    BY DEF Swapping
  <2>8. CASE b = stored
    <3>1. detail'.status = "confirmed" /\ detail'.depth + 1 = Len(chain) + 1
      BY <1>1, <2>4, <2>6, <2>8, Zenon DEF Info
    <3>2. Len(chain) + 1 \in 1 .. Len(chain')
      BY <1>1, <2>6, LenProperties
    <3>3. detail'.depth + 1 \in 1 .. Len(chain') /\ chain'[detail'.depth + 1] = stored'
      BY <2>4, <2>6, <2>8, <3>1, <3>2, Zenon
    <3>4. In
      BY <2>4, <2>7, <3>3, Zenon DEF In
    <3> QED BY <1>0, <3>1, <3>4
  <2>9. CASE b # stored
    <3>1. detail' = detail
      BY <2>4, <2>9
    <3>2. detail.status = "orphan" => Waits
      BY <2>4, <2>5, <2>9, <3>1, Zenon DEF Waits, DetailPart
    <3>3. ASSUME NEW x \in Range(chain') PROVE x \in Range(chain) \cup {b}
      <4>1. PICK k \in 1 .. Len(chain') : chain'[k] = x
        BY <2>6, RangeIndex
      <4>2. k \in 1 .. Len(chain) \/ k = Len(chain) + 1
        BY <1>1, <2>6, LenProperties, SMTT(30)
      <4> QED BY <1>1, <2>6, <4>1, <4>2, InRange, ZenonT(30)
    <3>4. detail.status = "rejected" => Out
      BY <2>4, <2>5, <2>9, <3>1, <3>3, Zenon DEF Out, DetailPart
    <3>5. detail.status = "confirmed" => In
      <4>1. SUFFICES ASSUME detail.status = "confirmed" PROVE In
        OBVIOUS
      <4>2. detail.depth + 1 \in 1 .. Len(chain) /\ chain[detail.depth + 1] = stored
        BY <2>4, <4>1 DEF DetailPart
      <4>3. detail.depth + 1 \in 1 .. Len(chain') /\ chain'[detail.depth + 1] = stored
        <5>1. chain \in Seq(Blocks)
          BY <1>1, Zenon
        <5>2. Len(chain) \in Nat
          BY <5>1, LenProperties, Zenon
        <5>3. \A k \in 1 .. Len(chain) : k \in 1 .. Len(chain) + 1
          BY <5>2
        <5> QED BY <2>6, <4>2, <5>3, Zenon
      <4> QED BY <2>4, <2>7, <3>1, <4>3, Zenon DEF In
    <3> QED BY <1>0, <3>1, <3>2, <3>4, <3>5, SMTT(30)
  <2> QED BY <2>8, <2>9
<1>11. CASE ArriveDone
  <2>1. /\ pc = "arrive" /\ pc' = "restore" /\ iter = Len(orphan_chain)
        /\ UNCHANGED <<chain, committed, pool, stored, detail, orphan_chain>>
    BY <1>11 DEF ArriveDone, db, orphans, call
  <2>2. detail.status # "orphan"
    <3>1. SUFFICES ASSUME detail.status = "orphan" PROVE FALSE
      OBVIOUS
    <3>2. stored \in Range(pool) /\ stored \in Range(orphan_chain)
      BY <2>1, <3>1 DEF DetailPart
    <3>3. PICK k \in 1 .. Len(orphan_chain) : orphan_chain[k] = stored
      BY <1>1, <3>2, RangeIndex
    <3>4. /\ Len(chain) = fork_index + 1 + Len(orphan_chain)
          /\ \A j \in 1 .. Len(chain) - fork_index - 1 : chain[fork_index + 1 + j] = orphan_chain[j]
      BY <2>1, Zenon DEF IndInv, SwapPart, Swapping
    <3>5. k \in 1 .. Len(chain) - fork_index - 1 /\ fork_index + 1 + k \in 1 .. Len(chain)
      BY <1>1, <3>3, <3>4, LenProperties
    <3>6. chain[fork_index + 1 + k] = stored
      BY <3>3, <3>4, <3>5
    <3> QED BY <1>1, <1>2, <3>2, <3>5, <3>6, InRange, Zenon
  <2>3. "restore" \in Swapping
    BY DEF Swapping
  <2> QED BY <1>0, <2>1, <2>2, <2>3, Zenon DEF Out, In, DetailPart
<1>12. CASE Restore
  <2>1. /\ pc = "restore" /\ pc' = "restore" /\ iter < Len(replaced_slice)
        /\ pool' = IF replaced_slice[iter + 1] \in Range(pool) THEN pool
                   ELSE PushBack(pool, replaced_slice[iter + 1])
        /\ UNCHANGED <<chain, committed, stored, detail, orphan_chain>>
    BY <1>12 DEF Restore, db, call
  <2>2. iter + 1 \in 1 .. Len(replaced_slice)
    BY <1>1, <2>1, LenProperties
  <2>3. PICK b \in Blocks : b = replaced_slice[iter + 1] /\ b \in Range(committed)
    <3>1. /\ Len(replaced_slice) = Len(committed) - fork_index - 1
          /\ replaced_slice[iter + 1] = committed[fork_index + 1 + (iter + 1)]
      BY <2>1, <2>2, ZenonT(40) DEF IndInv, SwapPart, Swapping
    <3>2. fork_index + 1 + (iter + 1) \in 1 .. Len(committed)
      BY <1>1, <2>2, <3>1, LenProperties
    <3> QED BY <1>1, <3>1, <3>2, InRange, ElementOfSeq
  <2>4. Range(pool') \subseteq Range(pool) \cup {b}
    <3>1. pool' = IF b \in Range(pool) THEN pool ELSE PushBack(pool, b)
      BY <2>1, <2>3
    <3>2. b \notin Range(pool) => Range(PushBack(pool, b)) \subseteq Range(pool) \cup {b}
      BY PoolGains
    <3> QED BY <3>1, <3>2
  <2>5. detail.status # "orphan"
    BY <2>1 DEF DetailPart
  <2>6. detail.status = "rejected" => Out
    BY <2>1, <2>3, <2>4, Zenon DEF Out, DetailPart
  <2>7. detail.status = "confirmed" => In
    BY <2>1 DEF In, DetailPart
  <2> QED BY <1>0, <2>1, <2>5, <2>6, <2>7
<1>13. CASE CommitAndNotify
  <2>1. /\ pc = "restore" /\ pc' = "start" /\ committed' = chain
        /\ UNCHANGED <<chain, pool, stored, detail>>
    BY <1>13 DEF CommitAndNotify, Processed, call
  <2> QED BY <1>0, <2>1, Zenon DEF Out, In, DetailPart
<1>14. CASE Reply \/ Crash
  <2>1. pc' = "idle"
    BY <1>14 DEF Reply, Crash, Boot
  <2> QED BY <2>1 DEF DetailPart
<1>15. CASE Tick
  <2>1. UNCHANGED <<pc, chain, committed, pool, stored, detail, orphan_chain>>
    BY <1>15 DEF Tick, db, orphans, call, locals
  <2> QED BY <2>1, Zenon DEF DetailPart
<1> QED BY <1>3, <1>4, <1>5, <1>6, <1>7, <1>8, <1>9, <1>10, <1>11, <1>12, <1>13, <1>14, <1>15, ZenonT(30)
        DEF Next, Step

-----------------------------------------------------------------------------
(* The answer.                                                             *)

\* What do_store answers is true when it answers.
LEMMA AnswerStep ==
    ASSUME IndInv, DetailPart, AnswerTrue, Next
    PROVE  AnswerTrue'
<1>1. /\ chain \in Seq(Blocks) /\ committed \in Seq(Blocks) /\ pool \in Seq(Blocks)
      /\ detail.status \in Statuses /\ detail.depth \in Nat /\ replies \in Seq(InfoType)
      /\ detail \in InfoType
  BY DEF IndInv, TypeOK, InfoType
<1>2. pc \notin Swapping => chain = committed
  BY DEF IndInv, ChainPart
<1>3. CASE pc' # "idle"
  BY <1>3 DEF AnswerTrue
<1>4. ASSUME NEW b \in Blocks, StoreConfirmed(b) PROVE AnswerTrue'
  <2>1. PICK i \in DOMAIN chain : chain[i] = b /\ replies' = <<Info("duplicate", "confirmed", i - 1)>>
    BY <1>4 DEF StoreConfirmed
  <2>2. pc = "idle" /\ stored' = b /\ committed' = committed
    BY <1>4 DEF StoreConfirmed, db
  <2>3. committed = chain /\ i \in Nat
    BY <1>1, <1>2, <2>2 DEF Swapping
  <2>4. Last(replies') = Info("duplicate", "confirmed", i - 1)
    BY <2>1 DEF Last
  <2>5. Last(replies').status = "confirmed" /\ Last(replies').depth + 1 = i
    BY <2>3, <2>4 DEF Info
  <2>6. i \in DOMAIN committed' /\ committed'[i] = stored'
    BY <2>1, <2>2, <2>3
  <2> QED BY <2>5, <2>6 DEF AnswerTrue
<1>5. CASE Reply
  <2>1. /\ pc = "start" /\ replies' = Append(replies, detail)
        /\ UNCHANGED <<chain, committed, pool, stored>>
    BY <1>5 DEF Reply, orphans
  <2>2. Last(replies') = detail /\ chain = committed
    BY <1>1, <1>2, <2>1 DEF Last, Swapping
  <2>3. CASE detail.status = "orphan"
    <3>1. stored' \in Range(pool')
      BY <2>1, <2>3 DEF DetailPart
    <3> QED BY <2>2, <2>3, <3>1 DEF AnswerTrue
  <2>4. CASE detail.status = "rejected"
    <3>1. stored' \notin Range(pool') \cup Range(committed')
      BY <2>1, <2>4 DEF DetailPart
    <3> QED BY <2>2, <2>4, <3>1 DEF AnswerTrue
  <2>5. CASE detail.status = "confirmed"
    <3>1. detail.depth + 1 \in 1 .. Len(committed) /\ committed[detail.depth + 1] = stored
      BY <2>1, <2>2, <2>5 DEF DetailPart
    <3>2. detail.depth + 1 \in DOMAIN committed' /\ committed'[detail.depth + 1] = stored'
      BY <1>1, <2>1, <3>1
    <3> QED BY <2>2, <2>5, <3>2 DEF AnswerTrue
  <2> QED BY <1>1, <2>3, <2>4, <2>5 DEF Statuses
<1>6. CASE Crash
  <2>1. replies' = <<>>
    BY <1>6 DEF Crash, Boot
  <2> QED BY <2>1 DEF AnswerTrue
<1>7. CASE Tick
  <2>1. UNCHANGED <<pc, replies, committed, pool, stored>>
    BY <1>7 DEF Tick, db, orphans, call
  <2> QED BY <2>1, Zenon DEF AnswerTrue, Last
<1>8. CASE Step /\ ~Reply
  <2>1. CASE NextUnprocessed \/ TraceBack \/ TraceDisconnected \/ TraceConnected
    BY <1>3, <2>1, Zenon DEF NextUnprocessed, TraceBack, TraceDisconnected, TraceConnected, Processed
  <2>2. CASE VerifyPass \/ VerifyFail \/ ClipOrphan \/ VerifyDone
    BY <1>3, <2>2 DEF VerifyPass, VerifyFail, ClipOrphan, VerifyDone, Processed
  <2>3. CASE WeighMain \/ KeepMain \/ EndSlice
    BY <1>3, <2>3 DEF WeighMain, KeepMain, EndSlice, Processed
  <2>4. CASE Arrive \/ ArriveDone
    BY <1>3, <2>4 DEF Arrive, ArriveDone
  <2>5. CASE Restore \/ CommitAndNotify
    BY <1>3, <2>5 DEF Restore, CommitAndNotify, Processed
  <2> QED BY <1>8, <2>1, <2>2, <2>3, <2>4, <2>5, Zenon DEF Step
<1>9. ASSUME NEW b \in Blocks, StoreDuplicateOrphan(b) \/ StoreNew(b) PROVE AnswerTrue'
  <2>1. pc' = "start"
    BY <1>9 DEF StoreDuplicateOrphan, StoreNew
  <2> QED BY <1>3, <2>1
<1> QED BY <1>4, <1>5, <1>6, <1>7, <1>8, <1>9, ZenonT(40) DEF Next, DoStore

-----------------------------------------------------------------------------
\* An organizer that starts has nothing weighed, replaced or answered.
LEMMA OutcomeInit == Init => OutcomeInv
<1> SUFFICES ASSUME Init PROVE OutcomeInv
  OBVIOUS
<1>1. RisingPart
  <2>1. Rising(<<Genesis>>) /\ Rising(<<>>)
    BY RisingSingle, RisingEmpty, ConstantTypes
  <2> QED BY <2>1 DEF Init, RisingPart
<1>2. WeighedPart /\ RestoredPart /\ DetailPart
  BY DEF Init, WeighedPart, RestoredPart, DetailPart, Swapping
<1>3. AnswerTrue
  BY DEF Init, AnswerTrue
<1> QED BY <1>1, <1>2, <1>3 DEF OutcomeInv

\* OutcomeInv is kept by every step between states of IndInv.
LEMMA OutcomeStep == IndInv /\ IndInv' /\ OutcomeInv /\ [Next]_vars => OutcomeInv'
<1> SUFFICES ASSUME IndInv, IndInv', OutcomeInv, [Next]_vars PROVE OutcomeInv'
  OBVIOUS
<1>1. RisingPart /\ WeighedPart /\ RestoredPart /\ DetailPart /\ AnswerTrue
  BY DEF OutcomeInv
<1>2. CASE Next
  <2>1. RisingPart' /\ WeighedPart'
    BY <1>1, <1>2, RisingStep, WeighedStep
  <2>2. RestoredPart' /\ DetailPart' /\ AnswerTrue'
    BY <1>1, <1>2, RestoredStep, DetailStep, AnswerStep
  <2> QED BY <2>1, <2>2 DEF OutcomeInv
<1>3. CASE UNCHANGED vars
  <2>1. UNCHANGED <<pc, chain, committed, recoverable, pool, stored, detail, replies, orphan_chain, iter,
                    replaced_slice, weighed>>
    BY <1>3 DEF vars, db, orphans, call, locals, others
  <2>2. RisingPart' /\ WeighedPart'
    BY <1>1, <2>1, Zenon DEF RisingPart, WeighedPart
  <2>3. RestoredPart'
    BY <1>1, <2>1, Zenon DEF RestoredPart
  <2>4. DetailPart' /\ AnswerTrue'
    BY <1>1, <2>1, Zenon DEF DetailPart, AnswerTrue
  <2> QED BY <2>2, <2>3, <2>4 DEF OutcomeInv
<1> QED BY <1>2, <1>3

-----------------------------------------------------------------------------
\* The invariant is inductive.
LEMMA NextInv == IndInv /\ [Next]_vars => IndInv'
<1> SUFFICES ASSUME IndInv, [Next]_vars PROVE IndInv'
  OBVIOUS
<1>0. TypeOK'
  BY NextType
<1>1. CASE \E b \in Blocks : DoStore(b)
  BY <1>0, <1>1, StoreInv
<1>2. CASE Step
  BY <1>0, <1>2, NextUnprocessedInv, TraceBackInv, TraceDisconnectedInv,
     TraceConnectedInv, VerifyPassInv, VerifyFailInv, ClipOrphanInv,
     VerifyDoneInv, WeighMainInv, KeepMainInv, EndSliceInv, ArriveInv,
     ArriveDoneInv, RestoreInv, CommitInv, ReplyInv, Zenon DEF Step
<1>3. CASE Crash
  BY <1>0, <1>3, CrashInv
<1>4. CASE Tick
  BY <1>0, <1>4, IdleInv DEF Tick
<1>5. CASE UNCHANGED vars
  BY <1>0, <1>5, IdleInv DEF vars
<1> QED BY <1>1, <1>2, <1>3, <1>4, <1>5 DEF Next

-----------------------------------------------------------------------------
(***************************************************************************)
(* The theorems.                                                           *)
(***************************************************************************)

\* Every reachable state of do_store, the organizer and the pool, whatever
\* blocks arrive and wherever the process crashes, satisfies IndInv.
THEOREM Invariance == Spec => []IndInv
BY InitInv, NextInv, PTL DEF Spec

\* The types the proofs below use.
LEMMA LocalTypes ==
    ASSUME IndInv
    PROVE  /\ committed \in Seq(Blocks) /\ chain \in Seq(Blocks) /\ fork_index \in Nat
           /\ orphan_chain \in Seq(Blocks) /\ replaced_slice \in Seq(Blocks)
           /\ iter \in Nat /\ boots \in Nat
<1>1. /\ committed \in Seq(Blocks) /\ chain \in Seq(Blocks) /\ fork_index \in Nat
      /\ orphan_chain \in Seq(Blocks) /\ replaced_slice \in Seq(Blocks) /\ iter \in Nat
  BY Zenon DEF IndInv, TypeOK
<1>2. boots \in 0 .. MaxBoots
  BY Zenon DEF IndInv, TypeOK
<1> QED BY <1>1, <1>2

\* Type correctness of do_store and all it calls.
THEOREM TypeCorrect == Spec => []TypeOK
<1>1. IndInv => TypeOK
  BY DEF IndInv
<1> QED BY <1>1, Invariance, PTL

\* Whatever instant the process dies at, the database comes back as a whole,
\* valid main chain.
THEOREM CrashSafe == Spec => []DurableChainsWhole
<1>1. IndInv => DurableChainsWhole
  <2> SUFFICES ASSUME IndInv, NEW c \in recoverable
               PROVE  IsMainChain(c) /\ Range(c) \cap Bad = {}
    BY Zenon DEF DurableChainsWhole
  <2>1. GoodChain(c) /\ c \in Seq(Blocks)
    BY DEF IndInv, ChainPart, TypeOK
  <2> QED BY <2>1, RangeIndex DEF GoodChain
<1> QED BY <1>1, Invariance, PTL

\* The main chain is linked from genesis to its tip at every step of a swap.
THEOREM AlwaysLinked == Spec => []ChainLinked
<1>1. IndInv => ChainLinked
  BY DEF IndInv, ChainPart, GoodChain, ChainLinked
<1> QED BY <1>1, Invariance, PTL

\* The orphan pool holds no block twice, none of the main chain's, and no more
\* than its capacity.
THEOREM PoolIsSound == Spec => []PoolSound
<1>1. IndInv => PoolSound
  BY Zenon DEF IndInv, PoolPart
<1> QED BY <1>1, Invariance, PTL

\* The assertion in orphans_pool::remove never fails.
THEOREM RemoveNeverFails == Spec => []RemoveFinds
<1>1. IndInv => RemoveFinds
  <2> SUFFICES ASSUME IndInv,
                      pc \in {"trace", "verify", "clip", "weigh", "arrive"},
                      NEW k \in DOMAIN orphan_chain
               PROVE  \/ pc = "arrive" /\ k <= iter
                      \/ orphan_chain[k] \in Range(pool)
    BY DEF RemoveFinds
  <2>1. k \in 1 .. Len(orphan_chain) /\ iter \in Nat
    BY DomainLen, LocalTypes, Zenon
  <2> QED BY <2>1 DEF IndInv, TracePart, Branching, Swapping
<1> QED BY <1>1, Invariance, PTL

\* organizer::start never finds, and never leaves, an unprocessed block other
\* than the one being stored.
THEOREM NothingLeftUnprocessed == Spec => []OnlyStoredUnprocessed
<1>1. IndInv => OnlyStoredUnprocessed
  <2> SUFFICES ASSUME IndInv, NEW b \in unprocessed, b \in Range(pool)
               PROVE  b = stored /\ pc # "idle"
    BY DEF OnlyStoredUnprocessed
  <2>1. pc # "idle"
    BY DEF IndInv, QueuePart
  <2>2. CASE b = stored
    BY <2>1, <2>2
  <2>3. CASE pc = "arrive" /\ b \in Range(replaced_slice)
    <3>1. PICK k \in 1 .. Len(replaced_slice) : replaced_slice[k] = b
      BY <2>3, RangeIndex, LocalTypes
    <3>2. /\ b = committed[fork_index + 1 + k]
          /\ Len(replaced_slice) = Len(committed) - fork_index - 1
          /\ fork_index \in Nat /\ committed \in Seq(Blocks)
      BY <2>3, <3>1, LocalTypes, ZenonT(40) DEF IndInv, SwapPart, Swapping
    <3>3. fork_index + 1 + k \in 1 .. Len(committed)
      BY <3>2
    <3>4. b \in Range(committed)
      BY <3>2, <3>3, InRange
    <3> QED BY <2>3, <3>4 DEF IndInv, PoolPart
  <2>4. CASE pc = "restore" /\ \E k \in iter + 1 .. Len(replaced_slice) :
                                  replaced_slice[k] = b
    <3>1. PICK k \in iter + 1 .. Len(replaced_slice) : replaced_slice[k] = b
      BY <2>4
    <3>2. k \in 1 .. Len(replaced_slice) /\ k > iter
      BY <3>1, LocalTypes
    <3> QED BY <2>4, <3>1, <3>2, ZenonT(40) DEF IndInv, SwapPart, Swapping
  <2> QED BY <2>2, <2>3, <2>4 DEF IndInv, QueuePart
<1> QED BY <1>1, Invariance, PTL

\* The blocks that subscribers of subscribe_reorganize are handed turn the
\* chain they knew into the new one.
THEOREM NotifiesExactly == Spec => []NotificationExact
<1>1. IndInv => NotificationExact
  <2> SUFFICES ASSUME IndInv, pc = "restore"
               PROVE  LET common == SubSeq(committed, 1, fork_index + 1)
                      IN  /\ committed = common \o replaced_slice
                          /\ chain = common \o orphan_chain
    BY Zenon DEF NotificationExact
  <2> DEFINE common == Kept(committed, fork_index)
  <2>0. /\ committed \in Seq(Blocks) /\ chain \in Seq(Blocks)
        /\ fork_index \in Nat /\ orphan_chain \in Seq(Blocks)
        /\ replaced_slice \in Seq(Blocks)
        /\ fork_index + 1 <= Len(committed)
    BY LocalTypes DEF IndInv, ForkPart, Branching
  <2>1. /\ common \in Seq(Blocks)
        /\ Len(common) = fork_index + 1
        /\ \A i \in 1 .. fork_index + 1 : common[i] = committed[i]
    BY <2>0, KeptElements
  <2>2. /\ Len(chain) = fork_index + 1 + Len(orphan_chain)
        /\ \A i \in 1 .. fork_index + 1 : chain[i] = committed[i]
        /\ \A k \in 1 .. Len(chain) - fork_index - 1 :
              chain[fork_index + 1 + k] = orphan_chain[k]
        /\ Len(replaced_slice) = Len(committed) - fork_index - 1
        /\ \A k \in 1 .. Len(replaced_slice) :
              replaced_slice[k] = committed[fork_index + 1 + k]
    BY Zenon DEF IndInv, SwapPart, Swapping
  <2> HIDE DEF common
  <2>3. ASSUME NEW s \in Seq(Blocks), NEW t \in Seq(Blocks),
               Len(t) = fork_index + 1 + Len(s),
               \A i \in 1 .. fork_index + 1 : t[i] = committed[i],
               \A k \in 1 .. Len(s) : t[fork_index + 1 + k] = s[k]
        PROVE  t = common \o s
    <3>1. /\ common \o s \in Seq(Blocks)
          /\ Len(common \o s) = Len(t)
          /\ \A i \in 1 .. Len(t) :
                (common \o s)[i] = IF i <= fork_index + 1 THEN common[i]
                                   ELSE s[i - (fork_index + 1)]
      <4>1. /\ common \o s \in Seq(Blocks)
            /\ Len(common \o s) = Len(common) + Len(s)
            /\ \A i \in 1 .. Len(common) + Len(s) :
                  (common \o s)[i] = IF i <= Len(common) THEN common[i]
                                     ELSE s[i - Len(common)]
        BY <2>1, <2>3, ConcatProperties, Zenon
      <4> QED BY <2>0, <2>1, <2>3, <4>1, Zenon
    <3>2. \A i \in 1 .. Len(t) : t[i] = (common \o s)[i]
      <4> SUFFICES ASSUME NEW i \in 1 .. Len(t) PROVE t[i] = (common \o s)[i]
        BY Zenon
      <4>1. CASE i <= fork_index + 1
        BY <2>0, <2>1, <2>3, <3>1, <4>1, SMTT(30)
      <4>2. CASE ~(i <= fork_index + 1)
        <5> DEFINE k == i - (fork_index + 1)
        <5>1. k \in 1 .. Len(s) /\ i = fork_index + 1 + k
          BY <2>0, <2>3, <4>2
        <5>2. t[i] = s[k]
          BY <2>3, <5>1
        <5>3. (common \o s)[i] = s[k]
          BY <3>1, <4>2, Zenon
        <5> QED BY <5>2, <5>3
      <4> QED BY <4>1, <4>2, Zenon
    <3> QED BY <2>3, <3>1, <3>2, SeqEqual, Zenon
  <2>4. committed = common \o replaced_slice
    <3>1. Len(committed) = fork_index + 1 + Len(replaced_slice)
      BY <2>0, <2>2
    <3> QED BY <2>0, <2>2, <2>3, <3>1, Zenon
  <2>5. chain = common \o orphan_chain
    <3>1. Len(chain) - fork_index - 1 = Len(orphan_chain)
      BY <2>0, <2>2
    <3> QED BY <2>0, <2>2, <2>3, <3>1, Zenon
  <2> QED BY <2>4, <2>5, Zenon DEF common, Kept
<1> QED BY <1>1, Invariance, PTL

\* When a swap commits, the new tip has more total work than the old one.
LEMMA SwapGains ==
    ASSUME IndInv, pc = "restore"
    PROVE  CumWork[Last(chain)] > CumWork[Last(committed)]
<1>1. /\ Len(orphan_chain) > 0 /\ fork_index \in Nat /\ orphan_chain \in Seq(Blocks)
      /\ CumWork[Last(orphan_chain)] > CumWork[Last(committed)]
      /\ Len(chain) = fork_index + 1 + Len(orphan_chain)
      /\ \A k \in 1 .. Len(chain) - fork_index - 1 :
            chain[fork_index + 1 + k] = orphan_chain[k]
  BY LocalTypes, Zenon DEF IndInv, SwapPart, Swapping
<1>2. Len(orphan_chain) \in 1 .. Len(chain) - fork_index - 1
  BY <1>1
<1>3. chain[fork_index + 1 + Len(orphan_chain)] = orphan_chain[Len(orphan_chain)]
  BY <1>1, <1>2
<1>4. Last(chain) = Last(orphan_chain)
  BY <1>1, <1>3 DEF Last
<1> QED BY <1>1, <1>4

\* Which steps touch the committed chain and what a crash can come back to.
LEMMA CommittedChanges ==
    ASSUME [Next]_vars
    PROVE  \/ CommitAndNotify
           \/ Crash
           \/ Reply
           \/ UNCHANGED <<committed, recoverable>>
<1>1. CASE \E b \in Blocks : DoStore(b)
  BY <1>1 DEF DoStore, StoreConfirmed, StoreDuplicateOrphan, StoreNew, db
<1>2. CASE Step
  <2>1. CASE NextUnprocessed \/ TraceBack \/ TraceDisconnected \/ TraceConnected
    BY <2>1, Zenon DEF NextUnprocessed, TraceBack, TraceDisconnected, TraceConnected, db
  <2>2. CASE VerifyPass \/ VerifyFail \/ ClipOrphan \/ VerifyDone
    BY <2>2, Zenon DEF VerifyPass, VerifyFail, ClipOrphan, Clip, VerifyDone, db
  <2>3. CASE WeighMain \/ KeepMain \/ EndSlice
    BY <2>3, Zenon DEF WeighMain, KeepMain, EndSlice, db
  <2>4. CASE Arrive \/ ArriveDone \/ Restore
    BY <2>4, Zenon DEF Arrive, ArriveDone, Restore, db
  <2> QED BY <1>2, <2>1, <2>2, <2>3, <2>4, Zenon DEF Step
<1>3. CASE Tick
  BY <1>3 DEF Tick, db
<1>4. CASE UNCHANGED vars
  BY <1>4 DEF vars, db
<1> QED BY <1>1, <1>2, <1>3, <1>4, Zenon DEF Next

\* All of the above: what TLC checks on a tree holds on every one.
THEOREM AlwaysConsistent == Spec => []OrganizerConsistent
BY TypeCorrect, AlwaysLinked, CrashSafe, PoolIsSound, RemoveNeverFails,
   NothingLeftUnprocessed, NotifiesExactly, PTL DEF OrganizerConsistent

\* replace_chain only ever commits a chain with strictly more total work.
THEOREM WorkOnlyGrows == Spec => WorkGrows
<1>1. IndInv /\ [Next]_vars =>
        [boots' = boots /\ committed' # committed
            => CumWork[Last(committed')] > CumWork[Last(committed)]]_vars
  <2> SUFFICES ASSUME IndInv, [Next]_vars, boots' = boots, committed' # committed
               PROVE  CumWork[Last(committed')] > CumWork[Last(committed)]
    OBVIOUS
  <2>1. CASE CommitAndNotify
    BY <2>1, SwapGains DEF CommitAndNotify
  <2>2. CASE Crash
    <3>1. boots \in Nat
      BY LocalTypes
    <3>2. boots' = boots + 1
      BY <2>2, Zenon DEF Crash, Boot
    <3> QED BY <3>1, <3>2
  <2>3. CASE Reply
    BY <2>3 DEF Reply
  <2> QED BY <2>1, <2>2, <2>3, CommittedChanges
<1> QED BY <1>1, Invariance, PTL DEF Spec, WorkGrows

\* The organizer implements the abstract blockchain: every step is an Adopt, a
\* Checkpoint, a Recover or nothing to a reader of the database.
THEOREM Refinement == Spec => KeepsPromise
<1>1. Init => Promised!Start
  BY DEF Init, Promised!Start
<1>2. IndInv /\ [Next]_vars =>
        [Promised!Adopt \/ Promised!Checkpoint \/ Promised!Recover]_
           <<committed, recoverable>>
  <2> SUFFICES ASSUME IndInv, [Next]_vars
               PROVE  \/ Promised!Adopt \/ Promised!Checkpoint
                      \/ Promised!Recover
                      \/ UNCHANGED <<committed, recoverable>>
    BY DEF Promised!Adopt, Promised!Checkpoint, Promised!Recover
  <2>1. CASE CommitAndNotify
    <3>1. /\ committed' = chain /\ pc = "restore"
          /\ recoverable' = recoverable \cup {committed'}
      BY <2>1 DEF CommitAndNotify
    <3>2. GoodChain(chain) /\ chain \in Seq(Blocks)
      BY DEF IndInv, ChainPart, TypeOK
    <3>3. Range(chain) \cap Bad = {}
      BY <3>2, RangeIndex DEF GoodChain
    <3>4. Promised!Whole(chain)
      <4>1. Promised!Range(chain) = Range(chain)
        BY DEF Promised!Range, Range
      <4> QED BY <3>2, <3>3, <4>1 DEF GoodChain, IsMainChain, Promised!Whole
    <3>5. CumWork[Last(chain)] > CumWork[Last(committed)]
      BY <3>1, SwapGains, Zenon
    <3>6. Promised!Adopt
      BY <3>1, <3>4, <3>5 DEF Promised!Adopt, Promised!Tip, Last
    <3> QED BY <3>6
  <2>2. CASE Crash
    BY <2>2 DEF Crash, Boot, Promised!Recover
  <2>3. CASE Reply
    BY <2>3 DEF Reply, Promised!Checkpoint
  <2> QED BY <2>1, <2>2, <2>3, CommittedChanges
<1> QED BY <1>1, <1>2, Invariance, PTL DEF Spec, KeepsPromise, Promised!Promise
-----------------------------------------------------------------------------
(***************************************************************************)
(* What rests on OutcomeInv as well.                                       *)
(***************************************************************************)

\* In every reachable state what the organizer has told and weighed and put
\* back agrees with the chain and the pool.
THEOREM OutcomeInvariance == Spec => []OutcomeInv
BY Invariance, OutcomeInit, OutcomeStep, PTL DEF Spec

\* handle_store is told the truth: a block it hears is confirmed is on the main
\* chain at the depth it is given, an orphan is in the pool, and a rejected
\* block is in neither.
THEOREM AnswersTrue == Spec => []AnswerTrue
<1>1. OutcomeInv => AnswerTrue
  BY DEF OutcomeInv
<1> QED BY <1>1, OutcomeInvariance, PTL

\* No orphan whose branch replace_chain has ever weighed is heavier than the
\* tip of the main chain when a store is over.
THEOREM NoHeavierLeft == Spec => []NoHeavierWeighedOrphan
<1>1. OutcomeInv => NoHeavierWeighedOrphan
  <2> SUFFICES ASSUME OutcomeInv, pc = "idle"
               PROVE  \A b \in weighed \cap Range(pool) : CumWork[b] <= CumWork[Last(committed)]
    BY DEF NoHeavierWeighedOrphan
  <2>1. pc \notin Swapping
    BY DEF Swapping
  <2> QED BY <2>1, Zenon DEF OutcomeInv, WeighedPart
<1> QED BY <1>1, OutcomeInvariance, PTL

\* Every replaced block is in the pool again when replace_chain commits, unless
\* there are more of them than the pool has room for.
THEOREM ReplacedAreKept == Spec => []ReplacedReturnToPool
<1>1. IndInv /\ OutcomeInv => ReplacedReturnToPool
  <2> SUFFICES ASSUME IndInv, OutcomeInv, pc = "restore", iter = Len(replaced_slice), iter <= PoolSize,
                      NEW b \in Range(replaced_slice)
               PROVE  b \in Range(pool)
    BY DEF ReplacedReturnToPool
  <2>1. /\ pool \in Seq(Blocks) /\ replaced_slice \in Seq(Blocks) /\ iter \in Nat /\ Len(pool) \in Nat
    BY LenProperties, ZenonT(40) DEF IndInv, TypeOK
  <2>2. iter <= Len(pool)
    BY <2>1 DEF OutcomeInv, RestoredPart
  <2>3. PICK k \in 1 .. Len(replaced_slice) : replaced_slice[k] = b
    BY <2>1, RangeIndex
  <2>4. Len(pool) - iter + k \in 1 .. Len(pool)
    BY <2>1, <2>2, <2>3
  <2>5. pool[Len(pool) - iter + k] = b
    BY <2>3, <2>4 DEF OutcomeInv, RestoredPart
  <2> QED BY <2>1, <2>4, <2>5, InRange, SMTT(30)
<1> QED BY <1>1, Invariance, OutcomeInvariance, PTL
=============================================================================
