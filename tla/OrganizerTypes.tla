--------------------------- MODULE OrganizerTypes ---------------------------
(***************************************************************************)
(* Facts about the sequence operators Organizer is built from, that its    *)
(* steps keep every variable in its type, and that IndInv is kept from     *)
(* do_store's entry to the end of trace().                                 *)
(***************************************************************************)
EXTENDS OrganizerInv, SequenceTheorems, TLAPS

-----------------------------------------------------------------------------
(***************************************************************************)
(* The sequence operators the specification is built from.                 *)
(***************************************************************************)

\* An element of a sequence is in its range.
LEMMA InRange ==
    ASSUME NEW S, NEW p \in Seq(S), NEW j \in 1 .. Len(p)
    PROVE  p[j] \in Range(p)
BY DEF Range

\* Whatever is in the range of a sequence has an index in it.
LEMMA RangeIndex ==
    ASSUME NEW S, NEW p \in Seq(S), NEW x \in Range(p)
    PROVE  x \in S /\ \E j \in 1 .. Len(p) : p[j] = x
BY DEF Range

\* Where the k-th replaced block was on the chain of n blocks.
LEMMA SliceIndex ==
    ASSUME NEW n \in Nat, NEW f \in Nat, NEW r \in Nat, r = n - f - 1, NEW k \in 1 .. r
    PROVE  f + 1 + k \in 1 .. n
OBVIOUS

\* The empty pool and the empty branch hold no block.
LEMMA EmptyRange == Range(<<>>) = {}
BY DEF Range

\* The indices of a sequence are 1 to its length.
LEMMA DomainLen ==
    ASSUME NEW S, NEW p \in Seq(S)
    PROVE  DOMAIN p = 1 .. Len(p) /\ Len(p) \in Nat
OBVIOUS

\* circular_buffer::erase closes the gap and keeps the order.
LEMMA RemoveAtElements ==
    ASSUME NEW S, NEW p \in Seq(S), NEW i \in 1 .. Len(p)
    PROVE  /\ RemoveAt(p, i) \in Seq(S)
           /\ Len(RemoveAt(p, i)) = Len(p) - 1
           /\ \A j \in 1 .. Len(p) - 1 :
                 RemoveAt(p, i)[j] = IF j < i THEN p[j] ELSE p[j + 1]
<1> DEFINE u == SubSeq(p, 1, i - 1)
           v == SubSeq(p, i + 1, Len(p))
<1>1. /\ u \in Seq(S)
      /\ Len(u) = i - 1
      /\ \A j \in 1 .. i - 1 : u[j] = p[j]
  BY SubSeqProperties
<1>2. /\ v \in Seq(S)
      /\ Len(v) = Len(p) - i
      /\ \A j \in 1 .. Len(p) - i : v[j] = p[i + j]
  BY SubSeqProperties
<1>3. RemoveAt(p, i) = u \o v
  BY DEF RemoveAt
<1> HIDE DEF u, v
<1>4. /\ u \o v \in Seq(S)
      /\ Len(u \o v) = Len(u) + Len(v)
      /\ \A j \in 1 .. Len(u) + Len(v) :
            (u \o v)[j] = IF j <= Len(u) THEN u[j] ELSE v[j - Len(u)]
  BY <1>1, <1>2, ConcatProperties, Zenon
<1> QED BY <1>1, <1>2, <1>3, <1>4, SMTT(30)

\* Erasing a block from a pool without duplicates removes just that block.
LEMMA RemoveAtPool ==
    ASSUME NEW S, NEW p \in Seq(S), NEW i \in 1 .. Len(p), NoDuplicates(p)
    PROVE  /\ NoDuplicates(RemoveAt(p, i))
           /\ Range(RemoveAt(p, i)) = Range(p) \ {p[i]}
<1> DEFINE q == RemoveAt(p, i)
<1>1. /\ q \in Seq(S)
      /\ Len(q) = Len(p) - 1
      /\ \A j \in 1 .. Len(p) - 1 : q[j] = IF j < i THEN p[j] ELSE p[j + 1]
  BY RemoveAtElements
<1> HIDE DEF q
<1>2. NoDuplicates(q)
  <2> SUFFICES ASSUME NEW j \in 1 .. Len(q), NEW k \in 1 .. Len(q), q[j] = q[k]
               PROVE  j = k
    BY <1>1 DEF NoDuplicates
  <2> DEFINE at(n) == IF n < i THEN n ELSE n + 1
  <2>1. q[j] = p[at(j)] /\ q[k] = p[at(k)]
    BY <1>1
  <2>2. at(j) \in DOMAIN p /\ at(k) \in DOMAIN p
    BY <1>1
  <2>3. at(j) = at(k)
    BY <2>1, <2>2, Zenon DEF NoDuplicates
  <2> QED BY <2>3
<1>3. ASSUME NEW x \in Range(q) PROVE x \in Range(p) \ {p[i]}
  BY <1>1, <1>3, SMTT(20) DEF NoDuplicates, Range
<1>4. ASSUME NEW x \in Range(p) \ {p[i]} PROVE x \in Range(q)
  <2>1. PICK j \in 1 .. Len(p) : x = p[j]
    BY <1>4 DEF Range
  <2>2. CASE j < i
    BY <1>1, <2>1, <2>2 DEF Range
  <2>3. CASE j > i
    <3>1. j - 1 \in 1 .. Len(q) /\ q[j - 1] = x
      BY <1>1, <2>1, <2>3
    <3> QED BY <1>1, <3>1 DEF Range
  <2> QED BY <1>4, <2>1, <2>2, <2>3
<1> QED BY <1>2, <1>3, <1>4 DEF q

\* push_back keeps the capacity and puts the new block in; what else is in the
\* pool was in it before.
LEMMA PushBackPool ==
    ASSUME NEW S, NEW p \in Seq(S), NEW b \in S,
           Len(p) <= PoolSize, NoDuplicates(p), b \notin Range(p)
    PROVE  /\ PushBack(p, b) \in Seq(S)
           /\ Len(PushBack(p, b)) <= PoolSize
           /\ NoDuplicates(PushBack(p, b))
           /\ b \in Range(PushBack(p, b))
           /\ Range(PushBack(p, b)) \subseteq Range(p) \cup {b}
<1> DEFINE r == IF Len(p) < PoolSize THEN p ELSE Tail(p)
<1>0. PoolSize \in Nat \ {0}
  BY BoundsAssumption
<1>1. /\ r \in Seq(S)
      /\ Len(r) < PoolSize
      /\ NoDuplicates(r)
      /\ Range(r) \subseteq Range(p)
  <2>1. CASE Len(p) < PoolSize
    BY <2>1
  <2>2. CASE Len(p) >= PoolSize
    <3>1. /\ Tail(p) \in Seq(S)
          /\ Len(Tail(p)) = Len(p) - 1
          /\ \A j \in 1 .. Len(p) - 1 : Tail(p)[j] = p[j + 1]
      BY <1>0, <2>2
    <3>2. r = Tail(p)
      BY <1>0, <2>2
    <3> HIDE DEF r
    <3> QED BY <1>0, <2>2, <3>1, <3>2 DEF NoDuplicates, Range
  <2> QED BY <1>0, <2>1, <2>2
<1>2. PushBack(p, b) = Append(r, b)
  BY DEF PushBack
<1> HIDE DEF r
<1>3. /\ Append(r, b) \in Seq(S)
      /\ Len(Append(r, b)) = Len(r) + 1
      /\ \A j \in 1 .. Len(r) : Append(r, b)[j] = r[j]
      /\ Append(r, b)[Len(r) + 1] = b
  BY <1>1, AppendProperties
<1> DEFINE q == Append(r, b)
<1> HIDE DEF q
<1>4. NoDuplicates(q) /\ b \in Range(q) /\ Range(q) \subseteq Range(r) \cup {b}
  <2>0. /\ q \in Seq(S) /\ Len(q) = Len(r) + 1
        /\ \A j \in 1 .. Len(r) : q[j] = r[j]
        /\ q[Len(r) + 1] = b
    BY <1>3 DEF q
  <2>1. \A j \in 1 .. Len(r) : r[j] # b
    BY <1>1, InRange
  <2>2. NoDuplicates(q)
    BY <1>1, <2>0, <2>1 DEF NoDuplicates
  <2>3. b \in Range(q)
    BY <1>1, <2>0, InRange, Len(r) + 1 \in 1 .. Len(q)
  <2>4. ASSUME NEW j \in 1 .. Len(q) PROVE q[j] \in Range(r) \cup {b}
    <3>1. CASE j = Len(r) + 1
      BY <2>0, <3>1
    <3>2. CASE j # Len(r) + 1
      <4>1. j \in 1 .. Len(r) /\ q[j] = r[j]
        BY <1>1, <2>0, <3>2
      <4> QED BY <1>1, <4>1 DEF Range
    <3> QED BY <3>1, <3>2
  <2>5. Range(q) \subseteq Range(r) \cup {b}
    BY <2>0, <2>4 DEF Range
  <2> QED BY <2>2, <2>3, <2>5
<1> QED BY <1>0, <1>1, <1>2, <1>3, <1>4 DEF q

\* Kept is the main chain up to and including the fork, element by element.
LEMMA KeptElements ==
    ASSUME NEW S, NEW c \in Seq(S), NEW f \in Nat, f + 1 <= Len(c)
    PROVE  /\ Kept(c, f) \in Seq(S)
           /\ Len(Kept(c, f)) = f + 1
           /\ \A i \in 1 .. f + 1 : Kept(c, f)[i] = c[i]
BY SubSeqProperties DEF Kept

\* Sliced is the main chain above the fork, element by element.
LEMMA SlicedElements ==
    ASSUME NEW S, NEW c \in Seq(S), NEW f \in Nat, f + 1 <= Len(c)
    PROVE  /\ Sliced(c, f) \in Seq(S)
           /\ Len(Sliced(c, f)) = Len(c) - f - 1
           /\ \A i \in 1 .. Len(c) - f - 1 : Sliced(c, f)[i] = c[f + 1 + i]
BY SubSeqProperties DEF Sliced

-----------------------------------------------------------------------------
(***************************************************************************)
(* Type correctness.                                                       *)
(***************************************************************************)

\* What the assumptions say of the constants' types.
LEMMA ConstantTypes ==
    /\ Genesis \in Blocks
    /\ Parent \in [Blocks -> Blocks \cup {NullHash}]
    /\ Work \in [Blocks -> Nat] /\ CumWork \in [Blocks -> Nat]
    /\ Height \in [Blocks -> Nat]
    /\ FlushInterval \in Nat \ {0} /\ MaxBoots \in Nat
    /\ PoolSize \in Nat \ {0}
BY ForestAssumption, WorkAssumption, BoundsAssumption

\* The details and answers that do_store builds have their type.
LEMMA InfoTypes ==
    ASSUME NEW d \in Nat, NEW e \in Codes, NEW t \in Statuses
    PROVE  Info(e, t, d) \in InfoType
BY DEF Info, InfoType

\* The sequence helpers of the model keep the type of their argument.
LEMMA SequenceTypes ==
    ASSUME NEW S, NEW p \in Seq(S)
    PROVE  /\ Range(p) \subseteq S
           /\ \A b \in S : Append(p, b) \in Seq(S) /\ <<b>> \o p \in Seq(S)
           /\ \A b \in S : PushBack(p, b) \in Seq(S)
           /\ \A i \in 1 .. Len(p) : RemoveAt(p, i) \in Seq(S)
<1>1. Range(p) \subseteq S
  BY RangeIndex
<1>2. \A b \in S : PushBack(p, b) \in Seq(S)
  <2> SUFFICES ASSUME NEW b \in S PROVE PushBack(p, b) \in Seq(S)
    OBVIOUS
  <2>1. CASE Len(p) < PoolSize
    BY <2>1 DEF PushBack
  <2>2. CASE ~(Len(p) < PoolSize)
    <3>1. p # <<>>
      BY <2>2, ConstantTypes
    <3>2. Tail(p) \in Seq(S)
      BY <3>1
    <3> QED BY <2>2, <3>2 DEF PushBack
  <2> QED BY <2>1, <2>2
<1>3. \A b \in S : Append(p, b) \in Seq(S) /\ <<b>> \o p \in Seq(S)
  OBVIOUS
<1>4. \A i \in 1 .. Len(p) : RemoveAt(p, i) \in Seq(S)
  BY RemoveAtElements
<1> QED BY <1>1, <1>2, <1>3, <1>4

\* The starting state has the type.
LEMMA InitType == Init => TypeOK
<1> SUFFICES ASSUME Init PROVE TypeOK
  OBVIOUS
<1>1. detail \in InfoType
  BY InfoTypes DEF Init, Codes, Statuses
<1>2. <<Genesis>> \in Seq(Blocks)
  BY ConstantTypes
<1> QED BY <1>1, <1>2, ConstantTypes DEF Init, TypeOK, PCs

\* Every step of the code, of the clock and of a crash keeps the type.
LEMMA StoreType ==
    ASSUME IndInv, NEW b \in Blocks, DoStore(b)
    PROVE  TypeOK'
<1> USE ConstantTypes
<1>0. TypeOK
  BY DEF IndInv
<1>1. CASE StoreConfirmed(b)
  <2>1. PICK i \in 1 .. Len(chain) :
            replies' = <<Info("duplicate", "confirmed", i - 1)>>
    <3>1. DOMAIN chain = 1 .. Len(chain)
      BY <1>0 DEF TypeOK
    <3> QED BY <1>1, <3>1 DEF StoreConfirmed
  <2>a. Info("duplicate", "confirmed", i - 1) \in InfoType
    <3>1. i - 1 \in Nat
      BY <1>0 DEF TypeOK
    <3> QED BY <3>1, InfoTypes DEF Codes, Statuses
  <2>2. replies' \in Seq(InfoType)
    BY <2>1, <2>a
  <2>3. detail' \in InfoType
    BY <1>1, InfoTypes DEF StoreConfirmed, Codes, Statuses
  <2> QED BY <1>0, <1>1, <2>2, <2>3, Zenon
        DEF TypeOK, StoreConfirmed, db, orphans, locals, others
<1>2. CASE StoreDuplicateOrphan(b)
  <2>1. replies' \in Seq(InfoType) /\ detail' \in InfoType
    BY <1>2, InfoTypes DEF StoreDuplicateOrphan, Codes, Statuses
  <2> QED BY <1>0, <1>2, <2>1, Zenon
        DEF TypeOK, StoreDuplicateOrphan, db, locals, others, PCs
<1>3. CASE StoreNew(b)
  <2>1. replies' \in Seq(InfoType) /\ detail' \in InfoType
    BY <1>3, InfoTypes DEF StoreNew, Codes, Statuses
  <2>2. pool' \in Seq(Blocks)
    BY <1>0, <1>3, SequenceTypes DEF StoreNew, TypeOK
  <2> QED BY <1>0, <1>3, <2>1, <2>2, Zenon DEF TypeOK, StoreNew, db, locals, PCs
<1> QED BY <1>1, <1>2, <1>3 DEF DoStore

\* Every step of do_store after its entry keeps the type invariant.
LEMMA StepType ==
    ASSUME IndInv, Step
    PROVE  TypeOK'
<1>0. TypeOK
  BY DEF IndInv
<1>a. /\ chain \in Seq(Blocks) /\ pool \in Seq(Blocks) /\ orphan_chain \in Seq(Blocks)
      /\ replaced_slice \in Seq(Blocks) /\ unprocessed \subseteq Blocks /\ weighed \subseteq Blocks
      /\ iter \in Nat /\ fork_index \in Nat /\ orphan_work \in Nat /\ main_work \in Nat
  BY <1>0, Zenon DEF TypeOK
<1>b. <<>> \in Seq(Blocks) /\ 0 \in Nat /\ Genesis \in Blocks
  BY ConstantTypes
<1>1. CASE NextUnprocessed
  BY <1>0, <1>1 DEF TypeOK, NextUnprocessed, db, call, others, PCs
<1>2. CASE TraceBack
  <2>1. Range(pool) \subseteq Blocks
    BY <1>a, SequenceTypes
  <2>2. orphan_chain' \in Seq(Blocks)
    BY <1>a, <1>2, <2>1 DEF TraceBack
  <2> QED BY <1>0, <1>2, <2>2, Zenon
        DEF TypeOK, TraceBack, db, orphans, call, others, PCs
<1>3. CASE TraceDisconnected
  <2>1. unprocessed' \subseteq Blocks
    BY <1>a, <1>3 DEF TraceDisconnected, Processed
  <2> QED BY <1>0, <1>b, <1>3, <2>1, Zenon
        DEF TypeOK, TraceDisconnected, Processed, NoLocals, db, call, others, PCs
<1>4. CASE TraceConnected
  <2>1. fork_index' \in Nat /\ iter' \in Nat /\ orphan_work' \in Nat
    BY <1>a, <1>4 DEF TraceConnected
  <2> QED BY <1>0, <1>4, <2>1, Zenon DEF TypeOK, TraceConnected, db, orphans, call, others, PCs
<1>5. CASE VerifyPass
  <2>1. orphan_work' \in Nat /\ iter' \in Nat
    <3>1. orphan_chain[iter + 1] \in Blocks
      BY <1>a, <1>5 DEF VerifyPass
    <3>2. Work[orphan_chain[iter + 1]] \in Nat
      BY <3>1, ConstantTypes
    <3>3. /\ orphan_work' = orphan_work + Work[orphan_chain[iter + 1]]
          /\ iter' = iter + 1
      BY <1>5 DEF VerifyPass
    <3>4. orphan_work \in Nat /\ iter \in Nat
      BY <1>a
    <3> QED BY <3>2, <3>3, <3>4
  <2> QED BY <1>0, <1>5, <2>1, Zenon DEF TypeOK, VerifyPass, db, orphans, call, others
<1>6. ASSUME NEW b \in Blocks, NEW e \in Codes, Clip(b, e),
             iter < Len(orphan_chain), pc' = "clip"
      PROVE  TypeOK'
  <2>1. pool' \in Seq(Blocks)
    BY <1>a, <1>6, RemoveAtElements DEF Clip
  <2>2. orphan_chain' \in Seq(Blocks)
    <3>1. iter + 1 \in 1 .. Len(orphan_chain)
      BY <1>a, <1>6
    <3>2. orphan_chain' = RemoveAt(orphan_chain, iter + 1)
      BY <1>6 DEF Clip
    <3> QED BY <1>a, <3>1, <3>2, RemoveAtElements, Zenon
  <2>3. detail' \in InfoType
    <3>1. Info(e, "rejected", 0) \in InfoType
      BY InfoTypes DEF Statuses
    <3> QED BY <1>0, <1>6, <3>1 DEF TypeOK, Clip
  <2>4. process_queue' \subseteq Blocks /\ unprocessed' \subseteq Blocks
    BY <1>0, <1>6, Zenon DEF TypeOK, Clip
  <2> QED BY <1>0, <1>6, <2>1, <2>2, <2>3, <2>4, Zenon DEF TypeOK, Clip, db, others, PCs
<1>7. CASE VerifyFail
  <2> DEFINE b == orphan_chain[iter + 1]
             e == IF b \in Bad THEN "invalid_block" ELSE "futuristic_timestamp"
  <2>1. b \in Blocks /\ e \in Codes
    BY <1>a, <1>7 DEF VerifyFail, Codes
  <2>2. Clip(b, e) /\ iter < Len(orphan_chain) /\ pc' = "clip"
    BY <1>7 DEF VerifyFail
  <2> QED BY <1>6, <2>1, <2>2
<1>8. CASE ClipOrphan
  <2>1. orphan_chain[iter + 1] \in Blocks /\ "previous_block_invalid" \in Codes
    BY <1>a, <1>8 DEF ClipOrphan, Codes
  <2>2. /\ Clip(orphan_chain[iter + 1], "previous_block_invalid")
        /\ iter < Len(orphan_chain) /\ pc' = "clip"
    BY <1>8 DEF ClipOrphan
  <2> QED BY <1>6, <2>1, <2>2
<1>9. CASE VerifyDone
  BY <1>0, <1>9 DEF TypeOK, VerifyDone, db, orphans, call, others, PCs
<1>10. CASE WeighMain
  <2>1. main_work' \in Nat /\ iter' \in Nat
    <3>1. chain[iter + 2] \in Blocks
      BY <1>a, <1>10 DEF WeighMain
    <3>2. Work[chain[iter + 2]] \in Nat
      BY <3>1, ConstantTypes
    <3>3. main_work' = main_work + Work[chain[iter + 2]] /\ iter' = iter + 1
      BY <1>10 DEF WeighMain
    <3>4. main_work \in Nat /\ iter \in Nat
      BY <1>a
    <3> QED BY <3>2, <3>3, <3>4
  <2> QED BY <1>0, <1>10, <2>1, Zenon DEF TypeOK, WeighMain, db, orphans, call, others
<1>11. CASE KeepMain
  <2>1. Range(orphan_chain) \subseteq Blocks
    BY <1>a, SequenceTypes
  <2>2. weighed' \subseteq Blocks
    BY <1>a, <1>11, <2>1 DEF KeepMain
  <2>3. unprocessed' \subseteq Blocks
    BY <1>a, <1>11 DEF KeepMain, Processed
  <2>4. /\ pc' = "start" /\ process_block' = Genesis /\ orphan_chain' = <<>> /\ replaced_slice' = <<>>
        /\ fork_index' = 0 /\ iter' = 0 /\ orphan_work' = 0 /\ main_work' = 0
        /\ UNCHANGED <<chain, committed, recoverable, pool, process_queue, stored, detail, replies,
                       flush_counter, early, boots>>
    BY <1>11 DEF KeepMain, Processed, NoLocals, db, call
  <2> QED BY <1>0, <1>b, <2>2, <2>3, <2>4, Zenon DEF TypeOK, PCs
<1>12. CASE EndSlice
  <2>0. fork_index \in Nat /\ fork_index + 1 <= Len(chain)
    BY <1>a, <1>12 DEF IndInv, ForkPart, ChainPart, Branching, Swapping, EndSlice
  <2>1. chain' \in Seq(Blocks)
    BY <1>a, <1>12, <2>0, KeptElements DEF EndSlice
  <2>2. replaced_slice' \in Seq(Blocks)
    BY <1>a, <1>12, <2>0, SlicedElements DEF EndSlice
  <2>3. Range(orphan_chain) \subseteq Blocks /\ Range(replaced_slice') \subseteq Blocks
    BY <1>a, <2>2, SequenceTypes, Zenon
  <2>4. unprocessed' \subseteq Blocks /\ weighed' \subseteq Blocks
    BY <1>a, <1>12, <2>3 DEF EndSlice
  <2> QED BY <1>0, <1>b, <1>12, <2>1, <2>2, <2>4, Zenon DEF TypeOK, EndSlice, call, PCs
<1>13. CASE Arrive
  <2>0. orphan_chain[iter + 1] \in Blocks
    BY <1>a, <1>13 DEF Arrive
  <2>1. pool' \in Seq(Blocks)
    BY <1>a, <1>13, RemoveAtElements DEF Arrive
  <2>2. chain' \in Seq(Blocks)
    BY <1>a, <1>13, <2>0 DEF Arrive
  <2>3. detail' \in InfoType
    <3>1. detail.ec \in Codes
      BY <1>0 DEF TypeOK, InfoType
    <3>2. ArrivalDepth \in Nat
      BY <1>a DEF ArrivalDepth
    <3>3. Info(detail.ec, "confirmed", ArrivalDepth) \in InfoType
      BY <3>1, <3>2, InfoTypes DEF Statuses
    <3> QED BY <1>0, <1>13, <3>3 DEF TypeOK, Arrive
  <2>4. iter' \in Nat /\ unprocessed' \subseteq Blocks
    BY <1>a, <1>13 DEF Arrive
  <2> QED BY <1>0, <1>13, <2>1, <2>2, <2>3, <2>4, Zenon DEF TypeOK, Arrive, others
<1>14. CASE ArriveDone
  BY <1>0, <1>14 DEF TypeOK, ArriveDone, db, orphans, call, others, PCs
<1>15. CASE Restore
  <2>0. replaced_slice[iter + 1] \in Blocks
    BY <1>a, <1>15 DEF Restore
  <2>1. pool' \in Seq(Blocks)
    BY <1>a, <1>15, <2>0, SequenceTypes, Zenon DEF Restore
  <2>2. iter' \in Nat /\ unprocessed' \subseteq Blocks
    BY <1>a, <1>15 DEF Restore
  <2> QED BY <1>0, <1>15, <2>1, <2>2, Zenon DEF TypeOK, Restore, db, call, others
<1>16. CASE CommitAndNotify
  <2>1. /\ unprocessed' \subseteq Blocks /\ committed' \in Seq(Blocks) /\ recoverable' \subseteq Seq(Blocks)
    BY <1>0, <1>a, <1>16 DEF TypeOK, CommitAndNotify, Processed
  <2> QED BY <1>0, <1>b, <1>16, <2>1, Zenon
        DEF TypeOK, CommitAndNotify, Processed, NoLocals, call, others, PCs
<1>17. CASE Reply
  <2>1. replies' \in Seq(InfoType)
    BY <1>0, <1>17 DEF TypeOK, Reply
  <2>2. flush_counter' \in 0 .. FlushInterval - 1
    <3>1. \/ FlushDue /\ flush_counter' = 0
          \/ ~FlushDue /\ flush_counter' = flush_counter + 1
      BY <1>17 DEF Reply
    <3>2. flush_counter \in 0 .. FlushInterval - 1
      BY <1>0 DEF TypeOK
    <3> QED BY <3>1, <3>2, ConstantTypes DEF FlushDue
  <2>3. recoverable' \subseteq Seq(Blocks)
    BY <1>0, <1>17 DEF TypeOK, Reply
  <2> QED BY <1>0, <1>17, <2>1, <2>2, <2>3, Zenon DEF TypeOK, Reply, orphans, locals, PCs
<1> QED BY <1>1, <1>2, <1>3, <1>4, <1>5, <1>7, <1>8, <1>9, <1>10, <1>11,
           <1>12, <1>13, <1>14, <1>15, <1>16, <1>17 DEF Step

\* So does every step of the specification.
LEMMA NextType == IndInv /\ [Next]_vars => TypeOK'
<1> SUFFICES ASSUME IndInv, [Next]_vars PROVE TypeOK'
  OBVIOUS
<1>0. TypeOK
  BY DEF IndInv
<1>1. CASE \E b \in Blocks : DoStore(b)
  BY <1>1, StoreType
<1>2. CASE Step
  BY <1>2, StepType
<1>3. CASE Crash
  <2>1. PICK c \in recoverable : Boot(c)
    BY <1>3 DEF Crash
  <2>2. detail' \in InfoType
    BY <2>1, InfoTypes DEF Boot, Codes, Statuses
  <2> QED BY <1>0, <2>1, <2>2, ConstantTypes DEF TypeOK, Boot, NoLocals, PCs
<1>4. CASE Tick
  BY <1>0, <1>4 DEF TypeOK, Tick, db, orphans, call, locals
<1>5. CASE UNCHANGED vars
  BY <1>0, <1>5 DEF TypeOK, vars, db, orphans, call, locals, others
<1> QED BY <1>1, <1>2, <1>3, <1>4, <1>5 DEF Next

-----------------------------------------------------------------------------
(* IndInv from do_store's entry to the end of trace.                       *)

\* The parts that only constrain the inside of process() and replace_chain().
InnerParts == TracePart /\ ForkPart /\ WorkPart /\ SwapPart

\* Outside process() the parts about its locals say nothing.
LEMMA InnerVacuous == pc \in {"idle", "start"} => InnerParts
BY DEF InnerParts, TracePart, ForkPart, WorkPart, SwapPart, Branching, Swapping

LEMMA InnerVacuousNext == pc' \in {"idle", "start"} => InnerParts'
BY DEF InnerParts, TracePart, ForkPart, WorkPart, SwapPart, Branching, Swapping

\* The part about the swap says nothing outside it, the one about the sums only
\* concerns verify() and the two loops after it.
LEMMA SwapVacuous == pc' \notin Swapping => SwapPart'
BY Zenon DEF SwapPart

LEMMA WorkVacuous == pc' \notin {"verify", "clip", "weigh"} => WorkPart'
BY Zenon DEF WorkPart

\* A step that leaves the tables alone leaves the chains as they were.
LEMMA ChainKept ==
    ASSUME ChainPart, UNCHANGED <<chain, committed, recoverable>>,
           pc \notin Swapping \/ pc' \in Swapping
    PROVE  ChainPart'
BY Zenon DEF ChainPart

\* One that leaves the pool and the chains alone leaves them disjoint.
LEMMA PoolKept ==
    ASSUME PoolPart, UNCHANGED <<chain, committed, pool>>,
           pc # "restore" \/ pc' = "restore"
    PROVE  PoolPart'
BY Zenon DEF PoolPart, PoolSound

\* A step of process() before the swap that processes no block.
LEMMA QueueKept ==
    ASSUME QueuePart, pc \in {"trace", "verify", "clip", "weigh"},
           pc' \in {"trace", "verify", "clip", "weigh"},
           UNCHANGED <<unprocessed, process_queue, stored, process_block>>
    PROVE  QueuePart'
BY DEF QueuePart

\* A step that leaves the branch alone, while none of it is being clipped.
LEMMA TraceKept ==
    ASSUME TracePart, pc \in {"trace"} \cup Branching, pc' \in Branching,
           pc # "clip", pc' # "clip", UNCHANGED orphan_chain,
           pc' = "restore" \/ (pc \notin Swapping /\ UNCHANGED pool)
    PROVE  TracePart'
<1>1. Connected = Len(orphan_chain) /\ Connected' = Len(orphan_chain)
  BY Zenon DEF Connected
<1>2. pc' # "trace" /\ (pc' = "restore" => pc' \in Swapping)
  BY DEF Branching, Swapping
<1> QED BY <1>1, <1>2, Zenon DEF TracePart

\* One that leaves the branch alone once it is verified.
LEMMA ForkKept ==
    ASSUME ForkPart, pc \in {"weigh", "arrive", "restore"},
           pc' \in {"weigh", "arrive", "restore"},
           UNCHANGED <<orphan_chain, committed, fork_index>>
    PROVE  ForkPart'
<1>1. /\ Connected = Len(orphan_chain) /\ Connected' = Len(orphan_chain)
      /\ Verified = Len(orphan_chain) /\ Verified' = Len(orphan_chain)
  BY DEF Connected, Verified
<1>2. pc \in Branching
  BY DEF Branching
<1> QED BY <1>1, <1>2, Zenon DEF ForkPart

\* The state that setup() and initialize() leave satisfies the invariant.
LEMMA InitInv == Init => IndInv
<1> SUFFICES ASSUME Init PROVE IndInv
  OBVIOUS
<1>1. TypeOK
  BY InitType
<1>2. GoodChain(<<Genesis>>)
  BY ForestAssumption, BoundsAssumption DEF GoodChain, IsMainChain
<1>3. ChainPart
  BY <1>2 DEF Init, ChainPart
<1>4. Range(pool) = {}
  BY EmptyRange DEF Init
<1>5. PoolPart
  BY <1>4, ConstantTypes DEF Init, PoolPart, PoolSound, NoDuplicates
<1>6. QueuePart
  BY DEF Init, QueuePart
<1>7. InnerParts
  BY InnerVacuous DEF Init
<1> QED BY <1>1, <1>3, <1>5, <1>6, <1>7 DEF IndInv, InnerParts

\* do_store up to the first line of organizer::start.
LEMMA StoreInv ==
    ASSUME IndInv, TypeOK', NEW b \in Blocks, DoStore(b)
    PROVE  IndInv'
<1>1. CASE StoreConfirmed(b)
  <2>0. /\ pc = "idle" /\ pc' = "idle"
        /\ UNCHANGED <<chain, committed, recoverable, pool, unprocessed, process_queue>>
    BY <1>1 DEF StoreConfirmed, db, orphans
  <2>1. InnerParts'
    BY <2>0, InnerVacuousNext
  <2>2. ChainPart' /\ PoolPart'
    BY <2>0, ChainKept, PoolKept DEF IndInv, Swapping
  <2>3. QueuePart'
    BY <2>0 DEF IndInv, QueuePart
  <2> QED BY <2>1, <2>2, <2>3 DEF IndInv, InnerParts
<1>2. CASE StoreDuplicateOrphan(b)
  <2>0. pc = "idle" /\ pc' = "start" /\ UNCHANGED <<chain, committed, recoverable, pool>>
    BY <1>2 DEF StoreDuplicateOrphan, db
  <2>1. InnerParts'
    BY <2>0, InnerVacuousNext
  <2>2. ChainPart' /\ PoolPart'
    BY <2>0, ChainKept, PoolKept DEF IndInv, Swapping
  <2>3. QueuePart'
    BY <1>2 DEF StoreDuplicateOrphan, IndInv, QueuePart
  <2> QED BY <2>1, <2>2, <2>3 DEF IndInv, InnerParts
<1>3. CASE StoreNew(b)
  <2>0. /\ pc = "idle" /\ pc' = "start" /\ UNCHANGED <<chain, committed, recoverable>>
        /\ b \notin Range(chain)
    BY <1>3 DEF StoreNew, db
  <2>1. InnerParts'
    BY <2>0, InnerVacuousNext
  <2>2. ChainPart'
    BY <2>0, ChainKept DEF IndInv, Swapping
  <2>3. /\ Len(pool') <= PoolSize
        /\ NoDuplicates(pool')
        /\ b \in Range(pool')
        /\ Range(pool') \subseteq Range(pool) \cup {b}
    BY <1>3, PushBackPool, Zenon DEF StoreNew, IndInv, TypeOK, PoolPart, PoolSound
  <2>4. PoolPart'
    BY <2>0, <2>3, Zenon DEF IndInv, ChainPart, PoolPart, PoolSound, Swapping
  <2>5. QueuePart'
    BY <1>3, <2>3 DEF StoreNew, IndInv, QueuePart
  <2> QED BY <2>1, <2>2, <2>4, <2>5 DEF IndInv, InnerParts
<1> QED BY <1>1, <1>2, <1>3 DEF DoStore

\* organizer::start takes the stored block, which is still in the pool.
LEMMA NextUnprocessedInv ==
    ASSUME IndInv, TypeOK', NextUnprocessed
    PROVE  IndInv'
<1>1. PICK i \in 1 .. Len(pool) :
          /\ pool[i] \in process_queue
          /\ process_block' = pool[i]
          /\ orphan_chain' = <<pool[i]>>
          /\ process_queue' = process_queue \ {pool[i]}
  <2>1. DOMAIN pool = 1 .. Len(pool)
    BY DomainLen DEF IndInv, TypeOK
  <2> QED BY <2>1 DEF NextUnprocessed
<1>2. process_queue = {stored} /\ pool[i] = stored /\ stored \in Range(pool)
  BY <1>1 DEF NextUnprocessed, IndInv, QueuePart
<1>0. /\ pc = "start" /\ pc' = "trace"
      /\ UNCHANGED <<chain, committed, recoverable, pool, stored, unprocessed>>
  BY DEF NextUnprocessed, db, call
<1>3. ChainPart' /\ PoolPart'
  BY <1>0, ChainKept, PoolKept DEF IndInv, Swapping
<1>4. QueuePart'
  <2>1. /\ pc' = "trace" /\ process_queue' = {}
        /\ process_block' = stored' /\ stored' = stored
        /\ unprocessed' = unprocessed /\ unprocessed = process_queue
    BY <1>0, <1>1, <1>2 DEF IndInv, QueuePart
  <2> QED BY <1>2, <2>1 DEF QueuePart
<1>5. TracePart'
  <2>1. /\ pc' = "trace" /\ pool' = pool
        /\ orphan_chain' = <<stored>>
        /\ Len(orphan_chain') = 1 /\ orphan_chain'[1] = stored
        /\ DOMAIN orphan_chain' = 1 .. 1
    BY <1>0, <1>1, <1>2
  <2>2. Height[stored] \in Nat
    <3>1. stored \in Blocks
      BY Zenon DEF IndInv, TypeOK
    <3> QED BY <3>1, ForestAssumption
  <2>3. NoDuplicates(orphan_chain')
    BY <2>1 DEF NoDuplicates
  <2> QED BY <1>2, <2>1, <2>2, <2>3 DEF TracePart, Connected, Branching, Swapping
<1>6. ForkPart' /\ WorkPart' /\ SwapPart'
  BY <1>0, WorkVacuous, SwapVacuous DEF ForkPart, Branching, Swapping
<1> QED BY <1>3, <1>4, <1>5, <1>6 DEF IndInv

\* trace() prepends the parent, which is in the pool and, being lower than all
\* of the branch, not yet in it.
LEMMA TraceBackInv ==
    ASSUME IndInv, TypeOK', TraceBack
    PROVE  IndInv'
<1> DEFINE oc == orphan_chain
           p == Parent[Head(orphan_chain)]
<1>0. TypeOK /\ TracePart /\ pc = "trace" /\ Len(oc) > 0 /\ oc \in Seq(Blocks)
  BY Zenon DEF IndInv, TraceBack, TracePart, TypeOK
<1>1. p \in Range(pool) /\ p \in Blocks /\ p = Parent[oc[1]] /\ oc[1] \in Blocks
  <2>1. Range(pool) \subseteq Blocks
    <3>1. pool \in Seq(Blocks)
      BY <1>0, Zenon DEF TypeOK
    <3> QED BY <3>1, SequenceTypes
  <2> QED BY <1>0, <2>1 DEF TraceBack
<1>2. /\ oc' = <<p>> \o oc
      /\ oc' \in Seq(Blocks)
      /\ Len(oc') = Len(oc) + 1
      /\ oc'[1] = p
      /\ \A k \in 2 .. Len(oc) + 1 : oc'[k] = oc[k - 1]
  <2>1. oc' = <<p>> \o oc
    BY DEF TraceBack
  <2> QED BY <1>0, <1>1, <2>1
<1>3. Height[oc[1]] = Height[p] + 1 /\ Height \in [Blocks -> Nat]
  BY <1>1, ForestAssumption
<1>4. \A k \in 1 .. Len(oc) : Height[oc[k]] = Height[oc[1]] + k - 1
  BY <1>0 DEF TracePart
<1>5. \A k \in 1 .. Len(oc') : Height[oc'[k]] = Height[p] + k - 1
  <2> SUFFICES ASSUME NEW k \in 1 .. Len(oc')
               PROVE  Height[oc'[k]] = Height[p] + k - 1
    OBVIOUS
  <2>1. CASE k = 1
    BY <1>1, <1>2, <1>3, <2>1
  <2>2. CASE k # 1
    <3>1. k - 1 \in 1 .. Len(oc) /\ oc'[k] = oc[k - 1]
      BY <1>0, <1>2, <2>2
    <3>2. Height[oc[k - 1]] = Height[oc[1]] + (k - 1) - 1
      BY <1>4, <3>1
    <3>3. Height[p] \in Int /\ k \in Int
      BY <1>1, <1>3
    <3>4. Height[oc'[k]] = Height[oc[1]] + (k - 1) - 1
      BY <3>1, <3>2, Zenon
    <3>5. Height[oc[1]] = Height[p] + 1
      BY <1>3, Zenon
    <3> HIDE DEF p, oc
    <3> QED BY <3>3, <3>4, <3>5, SMTT(30)
  <2> QED BY <2>1, <2>2
<1>6. NoDuplicates(oc')
  <2> SUFFICES ASSUME NEW j \in 1 .. Len(oc'), NEW k \in 1 .. Len(oc'),
                      oc'[j] = oc'[k]
               PROVE  j = k
    BY <1>2 DEF NoDuplicates
  <2>1. Height[p] + j - 1 = Height[p] + k - 1
    BY <1>5
  <2> QED BY <1>1, <1>3, <2>1
<1>7. \A k \in 1 .. Len(oc') - 1 : Parent[oc'[k + 1]] = oc'[k]
  <2> SUFFICES ASSUME NEW k \in 1 .. Len(oc') - 1
               PROVE  Parent[oc'[k + 1]] = oc'[k]
    BY Zenon
  <2>1. CASE k = 1
    BY <1>0, <1>1, <1>2, <2>1
  <2>2. CASE k # 1
    <3>1. /\ k - 1 \in 1 .. Len(oc) - 1
          /\ oc'[k + 1] = oc[(k - 1) + 1] /\ oc'[k] = oc[k - 1]
      BY <1>0, <1>2, <2>2
    <3>2. \A n \in 1 .. Len(oc) - 1 : Parent[oc[n + 1]] = oc[n]
      BY <1>0 DEF TracePart, Connected
    <3> QED BY <3>1, <3>2
  <2> QED BY <2>1, <2>2
<1>8. \A k \in 1 .. Len(oc') : oc'[k] \in Range(pool)
  <2>1. \A k \in 1 .. Len(oc) : oc[k] \in Range(pool)
    BY <1>0 DEF TracePart, Swapping
  <2> QED BY <1>0, <1>1, <1>2, <2>1
<1>9. pc' = "trace" /\ pool' = pool
  BY <1>0 DEF TraceBack, orphans
<1>10. TracePart'
  <2>1. Len(oc') > 0 /\ Connected' = Len(oc')
    BY <1>0, <1>2, <1>9 DEF Connected
  <2>2. \A k \in 1 .. Len(oc') : Height[oc'[k]] = Height[oc'[1]] + k - 1
    BY <1>2, <1>5
  <2> QED BY <1>6, <1>7, <1>8, <1>9, <2>1, <2>2, Zenon DEF TracePart
<1>11. ChainPart' /\ PoolPart' /\ QueuePart'
  <2>1. /\ pc = "trace" /\ pc' = "trace"
        /\ UNCHANGED <<chain, committed, recoverable, pool, unprocessed, process_queue,
                       stored, process_block>>
    BY DEF TraceBack, db, orphans, call
  <2> QED BY <2>1, ChainKept, PoolKept, QueueKept DEF IndInv, Swapping
<1>12. ForkPart' /\ WorkPart' /\ SwapPart'
  BY <1>9, WorkVacuous, SwapVacuous DEF ForkPart, Branching, Swapping
<1> QED BY <1>10, <1>11, <1>12 DEF IndInv

\* What process() leaves behind when it returns without a swap.
LEMMA ProcessedInv ==
    ASSUME IndInv, Processed, pc \in {"trace", "weigh"},
           UNCHANGED <<db, pool, process_queue, stored>>, TypeOK'
    PROVE  IndInv'
<1>0. pc' = "start" /\ UNCHANGED <<chain, committed, recoverable, pool>>
  BY DEF Processed, db
<1>1. InnerParts'
  BY <1>0, InnerVacuousNext
<1>2. ChainPart' /\ PoolPart'
  BY <1>0, ChainKept, PoolKept DEF IndInv, Swapping
<1>3. unprocessed' = {} /\ process_queue' = {} /\ pc' = "start"
  BY <1>0 DEF Processed, IndInv, QueuePart
<1>4. QueuePart'
  BY <1>3 DEF QueuePart
<1> QED BY <1>1, <1>2, <1>4 DEF IndInv, InnerParts

\* A branch that does not connect leaves chain and pool as they are.
LEMMA TraceDisconnectedInv ==
    ASSUME IndInv, TypeOK', TraceDisconnected
    PROVE  IndInv'
BY ProcessedInv DEF TraceDisconnected, call

\* So does a branch that is not heavier.
LEMMA KeepMainInv ==
    ASSUME IndInv, TypeOK', KeepMain
    PROVE  IndInv'
BY ProcessedInv DEF KeepMain, call

\* find_index gives the fork; the branch continues the chain there.
LEMMA TraceConnectedInv ==
    ASSUME IndInv, TypeOK', TraceConnected
    PROVE  IndInv'
<1> DEFINE oc == orphan_chain
<1>0. /\ TypeOK /\ TracePart /\ pc = "trace" /\ Len(oc) > 0
      /\ oc \in Seq(Blocks) /\ chain = committed /\ GoodChain(committed)
      /\ committed \in Seq(Blocks)
  BY Zenon DEF IndInv, TraceConnected, TracePart, TypeOK, ChainPart, Swapping
<1>1. PICK i \in 1 .. Len(committed) :
          committed[i] = Parent[oc[1]] /\ fork_index' = i - 1
  <2>1. DOMAIN chain = 1 .. Len(committed)
    BY <1>0, DomainLen
  <2>2. Head(oc) = oc[1]
    BY <1>0
  <2> QED BY <1>0, <2>1, <2>2 DEF TraceConnected
<1>2. /\ pc' = "verify" /\ iter' = 0 /\ orphan_work' = 0
      /\ UNCHANGED <<chain, committed, recoverable, pool, unprocessed,
                     process_queue, stored, process_block, orphan_chain>>
  BY DEF TraceConnected, db, orphans, call
<1>3. \A k \in 1 .. Len(oc) : Height[oc[k]] = fork_index' + k
  <2>1. Height[oc[1]] = (i - 1) + 1
    <3>1. Height[committed[i]] = i - 1
      BY <1>0 DEF GoodChain
    <3>2. oc[1] \in Blocks /\ Parent[oc[1]] \in Blocks
      BY <1>0, <1>1
    <3>3. Height[oc[1]] = Height[Parent[oc[1]]] + 1
      BY <3>2, ForestAssumption
    <3> QED BY <1>1, <3>1, <3>3
  <2>2. \A k \in 1 .. Len(oc) : Height[oc[k]] = Height[oc[1]] + k - 1
    BY <1>0 DEF TracePart
  <2> QED BY <1>0, <1>1, <2>1, <2>2
<1>4. ForkPart'
  BY <1>0, <1>1, <1>2, <1>3 DEF ForkPart, Verified, Connected, Branching
<1>5. WorkPart' /\ SwapPart'
  BY <1>2, SwapVacuous DEF WorkPart, BranchWork, Swapping
<1>6. TracePart'
  BY <1>0, <1>2, TraceKept DEF Branching, Swapping
<1>7. ChainPart' /\ PoolPart' /\ QueuePart'
  BY <1>0, <1>2, ChainKept, PoolKept, QueueKept DEF IndInv, Swapping
<1> QED BY <1>4, <1>5, <1>6, <1>7 DEF IndInv
=============================================================================
