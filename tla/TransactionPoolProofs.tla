----------------------- MODULE TransactionPoolProofs ------------------------
(***************************************************************************)
(* The safety properties of the memory pool, for every tree of blocks,     *)
(* every set of transactions and of calls of store(), and every capacity.  *)
(***************************************************************************)
EXTENDS TransactionPool, SequenceTheorems, TLAPS

-----------------------------------------------------------------------------
(* The inductive invariant.                                                *)

\* The handler i of the strand belongs to the validation of c.
Owned(i, c) == strand[i].step # "reorganize" /\ strand[i].call = c
Waits(c) == \E i \in 1..Len(strand) : Owned(i, c)
Once(c) == \A i, j \in 1..Len(strand) : Owned(i, c) /\ Owned(j, c) => i = j
Flying(c) == asks[c] # "nothing" \/ Waits(c)

Pooled(c) == \E i \in 1..Len(pool) : pool[i] = c

\* handle_store has been called once, with or without success.
Accepted(c) == Len(stores[c]) = 1 /\ stores[c][1].ec = "success"
Refused(c) == Len(stores[c]) = 1 /\ stores[c][1].ec # "success"

\* Where a call of store() is, and what it has been answered so far.
PlaceInv(c) ==
    \/ /\ c \notin asked /\ ~Flying(c) /\ ~Pooled(c) /\ c \notin evicted /\ c \notin resubmitted
       /\ stores[c] = <<>> /\ confirms[c] = <<>>
    \/ /\ c \in asked /\ Flying(c) /\ ~Pooled(c) /\ c \notin evicted
       /\ confirms[c] = <<>>
       /\ \/ c \in resubmitted /\ Accepted(c)
          \/ c \notin resubmitted /\ stores[c] = <<>>
    \/ /\ c \in asked /\ ~Flying(c) /\ Accepted(c)
       /\ \/ Pooled(c) /\ c \notin evicted /\ confirms[c] = <<>>
          \/ ~Pooled(c) /\ c \in evicted /\ confirms[c] = <<>>
          \/ ~Pooled(c) /\ c \notin evicted /\ Len(confirms[c]) = 1
    \/ /\ c \in asked /\ ~Flying(c) /\ ~Pooled(c) /\ c \notin evicted /\ c \notin resubmitted
       /\ confirms[c] = <<>> /\ Refused(c)

\* A validation has one handler or one question.
StepInv(c) == Once(c) /\ (asks[c] # "nothing" => ~Waits(c))

\* The inputs that connect_input has passed, and how far a validation is.
Good(c, n) ==
    /\ <<Tx[c], n>> \notin BadInputs
    /\ Inputs[Tx[c]][n][2] < Outputs[Inputs[Tx[c]][n][1]]
Sane(c) == Tx[c] \notin Malformed /\ Tx[c] \notin Coinbases
OnStrand(c, step) == \E i \in 1..Len(strand) : Owned(i, c) /\ strand[i].step = step
Stage(c, step) == asks[c] = step \/ OnStrand(c, step)
ValidInv(c) ==
    /\ Sane(c) => validator[c].input \in 1..Len(Inputs[Tx[c]])
    /\ \A n \in 1..validator[c].input - 1 : Good(c, n)
    /\ \A step \in Reads : Stage(c, step) => Sane(c)
    /\ Stage(c, "spend") => Good(c, validator[c].input)
    /\ Accepted(c) => Sane(c) /\ \A n \in 1..Len(Inputs[Tx[c]]) : Good(c, n)

CallInv(c) == PlaceInv(c) /\ StepInv(c) /\ ValidInv(c)

\* The subscription of the pool to changes of the chain.
Subscribes(i) == relays[i].step = "do_subscribe"
Notified(i) == strand[i].step = "reorganize"
NoSubscribe == \A i \in 1..Len(relays) : ~Subscribes(i)
OneSubscribe == \E i \in 1..Len(relays) :
    Subscribes(i) /\ \A j \in 1..Len(relays) : Subscribes(j) => j = i
NoNotice == \A i \in 1..Len(strand) : ~Notified(i)
OneNotice == \E i \in 1..Len(strand) :
    Notified(i) /\ \A j \in 1..Len(strand) : Notified(j) => j = i
SubscriptionInv ==
    \/ registry = 1 /\ NoSubscribe /\ NoNotice
    \/ registry = 0 /\ OneSubscribe /\ NoNotice
    \/ registry = 0 /\ NoSubscribe /\ OneNotice

Unique == \A i, j \in 1..Len(pool) : Tx[pool[i]] = Tx[pool[j]] => i = j

PoolInv ==
    /\ TypeOK
    /\ Unique
    /\ \A c \in Calls : CallInv(c)
    /\ SubscriptionInv

-----------------------------------------------------------------------------
(* Handlers and sequences of them.                                         *)

\* What a handler on the strand carries.
LEMMA JobFacts ==
  ASSUME NEW j \in Jobs
  PROVE  /\ j.step \in {"do_store", "reorganize"} \cup Reads
         /\ j.step # "reorganize" => j.call \in Calls
         /\ j.step \in Reads => j.depth \in Nat
BY DEF Jobs, Reads

\* store posts a do_store of its call.
LEMMA StoreJob ==
  ASSUME NEW c \in Calls
  PROVE  LET j == [step |-> "do_store", call |-> c]
         IN  j \in Jobs /\ j.step = "do_store" /\ j.call = c
BY DEF Jobs

\* The chain's answer to a read is posted as the handler of that read.
LEMMA ReadJob ==
  ASSUME NEW q \in Reads, NEW c \in Calls,
         NEW e \in {"success", "not_found", "unspent_output"}, NEW d \in Nat
  PROVE  LET j == [step |-> q, call |-> c, ec |-> e, depth |-> d]
         IN  j \in Jobs /\ j.step = q /\ j.call = c
BY DEF Jobs

\* A notice on the subscriber's strand becomes one on the pool's.
LEMMA NoticeJob ==
  ASSUME NEW n \in Notices, n.step = "do_relay"
  PROVE  LET j == [n EXCEPT !.step = "reorganize"]
         IN  j \in Jobs /\ j.step = "reorganize"
<1>1. n \in [step : {"do_relay"}, new : SUBSET Txs, replaced : SUBSET Blocks]
  BY DEF Notices
<1>2. [n EXCEPT !.step = "reorganize"]
        \in [step : {"reorganize"}, new : SUBSET Txs, replaced : SUBSET Blocks]
  BY <1>1
<1> QED BY <1>2 DEF Jobs

\* A transaction of the notice has been taken out.
LEMMA NoticeLess ==
  ASSUME NEW j \in Jobs, j.step = "reorganize", NEW t
  PROVE  LET k == [j EXCEPT !.new = @ \ {t}]
         IN  k \in Jobs /\ k.step = "reorganize"
<1>1. j \in [step : {"reorganize"}, new : SUBSET Txs, replaced : SUBSET Blocks]
  BY DEF Jobs, Reads
<1>2. [j EXCEPT !.new = @ \ {t}]
        \in [step : {"reorganize"}, new : SUBSET Txs, replaced : SUBSET Blocks]
  BY <1>1
<1> QED BY <1>2 DEF Jobs

\* Posting to the end of a queue leaves the others in their places.
LEMMA AppendElements ==
  ASSUME NEW S, NEW s \in Seq(S), NEW x \in S
  PROVE  /\ Append(s, x) \in Seq(S) /\ Len(s) \in Nat /\ Len(Append(s, x)) = Len(s) + 1
         /\ \A i \in 1..Len(s) : Append(s, x)[i] = s[i]
         /\ Append(s, x)[Len(s) + 1] = x
         /\ 1..Len(s) + 1 = (1..Len(s)) \cup {Len(s) + 1} /\ Len(s) + 1 \notin 1..Len(s)
BY AppendProperties, LenProperties

\* Running the first handler moves each of the others one place ahead.
LEMMA TailElements ==
  ASSUME NEW S, NEW s \in Seq(S), s # <<>>
  PROVE  /\ Tail(s) \in Seq(S) /\ Len(s) \in Nat /\ Len(Tail(s)) = Len(s) - 1
         /\ \A i \in 1..Len(s) - 1 : Tail(s)[i] = s[i + 1] /\ i + 1 \in 1..Len(s) /\ i + 1 # 1
         /\ Head(s) = s[1] /\ s[1] \in S /\ 1 \in 1..Len(s)
         /\ \A i \in 1..Len(s) : i = 1 \/ \E k \in 1..Len(s) - 1 : i = k + 1
<1>1. /\ Tail(s) \in Seq(S) /\ Len(Tail(s)) = Len(s) - 1 /\ Head(s) = s[1]
      /\ Len(s) \in Nat /\ Len(s) # 0
      /\ \A i \in 1..Len(s) - 1 : Tail(s)[i] = s[i + 1]
  BY HeadTailProperties, EmptySeq, LenProperties
<1>2. s[1] \in S /\ 1 \in 1..Len(s)
  BY <1>1, ElementOfSeq
<1>3. \A i \in 1..Len(s) - 1 : i + 1 \in 1..Len(s) /\ i + 1 # 1
  BY <1>1
<1>4. ASSUME NEW i \in 1..Len(s), i # 1 PROVE \E k \in 1..Len(s) - 1 : i = k + 1
  <2>1. i - 1 \in 1..Len(s) - 1 /\ i = (i - 1) + 1
    BY <1>1, <1>4
  <2> QED BY <2>1
<1> QED BY <1>1, <1>2, <1>3, <1>4

\* Posting several handlers leaves those that wait in their places.
LEMMA ConcatElements ==
  ASSUME NEW S, NEW s \in Seq(S), NEW n \in Nat, NEW f \in [1..n -> S]
  PROVE  /\ s \o f \in Seq(S) /\ Len(s) \in Nat /\ Len(s \o f) = Len(s) + n
         /\ \A i \in 1..Len(s) : (s \o f)[i] = s[i]
         /\ \A i \in 1..n : (s \o f)[Len(s) + i] = f[i]
<1>1. f \in Seq(S) /\ Len(f) = n /\ Len(s) \in Nat
  BY LenProperties
<1>2. /\ s \o f \in Seq(S) /\ Len(s \o f) = Len(s) + Len(f)
      /\ \A i \in 1..Len(s) + Len(f) : (s \o f)[i] = IF i <= Len(s) THEN s[i] ELSE f[i - Len(s)]
  BY <1>1, ConcatProperties, Zenon
<1>3. ASSUME NEW i \in 1..n PROVE (s \o f)[Len(s) + i] = f[i]
  <2>1. Len(s) + i \in 1..Len(s) + Len(f) /\ ~(Len(s) + i <= Len(s)) /\ (Len(s) + i) - Len(s) = i
    BY <1>1
  <2> QED BY <1>2, <2>1, Zenon
<1>4. ASSUME NEW i \in 1..Len(s) PROVE (s \o f)[i] = s[i]
  <2>1. i \in 1..Len(s) + Len(f) /\ i <= Len(s)
    BY <1>1
  <2> QED BY <1>2, <2>1, Zenon
<1> QED BY <1>1, <1>2, <1>3, <1>4

-----------------------------------------------------------------------------
(* What the operations on the strand do to the handlers of a call.         *)

\* A step does not concern the handlers of d.
HandlersKept(d) ==
    /\ Waits(d)' <=> Waits(d)
    /\ Once(d) => Once(d)'
    /\ \A step \in Reads : OnStrand(d, step)' => OnStrand(d, step)

NoticesKept == (NoNotice => NoNotice') /\ (OneNotice => OneNotice')

\* A handler of c is posted.
LEMMA Posted ==
  ASSUME strand \in Seq(Jobs), NEW c \in Calls, NEW j \in Jobs,
         j.step # "reorganize", j.call = c, ~Waits(c), strand' = Append(strand, j)
  PROVE  /\ strand' \in Seq(Jobs)
         /\ Waits(c)' /\ Once(c)'
         /\ \A step \in Reads : OnStrand(c, step)' => step = j.step
         /\ \A d \in Calls : d # c => HandlersKept(d)
         /\ NoticesKept
<1>1. /\ strand' \in Seq(Jobs) /\ Len(strand) \in Nat /\ Len(strand') = Len(strand) + 1
      /\ \A i \in 1..Len(strand) : strand'[i] = strand[i]
      /\ strand'[Len(strand')] = j
      /\ 1..Len(strand') = (1..Len(strand)) \cup {Len(strand')} /\ Len(strand') \notin 1..Len(strand)
  BY AppendElements
<1> DEFINE new == Len(strand')
<1>2. new \in 1..Len(strand') /\ 1..Len(strand) \subseteq 1..Len(strand')
      /\ \A i \in 1..Len(strand') : i \in 1..Len(strand) \/ i = new
  BY <1>1
<1>3. ASSUME NEW d PROVE \A i \in 1..Len(strand) : Owned(i, d)' <=> Owned(i, d)
  BY <1>1, Zenon DEF Owned
<1>4. ASSUME NEW d PROVE strand'[new].step # "reorganize" /\ (strand'[new].call = d <=> d = c)
  BY <1>1, Zenon
<1>5. Waits(c)'
  BY <1>2, <1>4, Zenon DEF Waits, Owned
<1>6. ASSUME NEW i \in 1..Len(strand'), Owned(i, c)' PROVE i = new
  BY <1>2, <1>3, <1>6, Zenon DEF Waits
<1>7. Once(c)'
  BY <1>6, Zenon DEF Once
<1>8. \A step \in Reads : OnStrand(c, step)' => step = j.step
  BY <1>1, <1>6, Zenon DEF OnStrand
<1>9. ASSUME NEW d \in Calls, d # c PROVE HandlersKept(d)
  <2>1. ASSUME NEW i \in 1..Len(strand'), Owned(i, d)' PROVE i \in 1..Len(strand) /\ Owned(i, d)
    <3>1. i # new
      BY <1>4, <1>9, <2>1, Zenon DEF Owned
    <3> QED BY <1>2, <1>3, <2>1, <3>1, Zenon
  <2>2. Waits(d)' <=> Waits(d)
    BY <1>2, <1>3, <2>1, Zenon DEF Waits
  <2>3. Once(d) => Once(d)'
    BY <2>1, Zenon DEF Once
  <2>4. \A step \in Reads : OnStrand(d, step)' => OnStrand(d, step)
    BY <1>1, <2>1, Zenon DEF OnStrand
  <2> QED BY <2>2, <2>3, <2>4, Zenon DEF HandlersKept
<1>10. NoticesKept
  <2>1. \A i \in 1..Len(strand') : Notified(i)' => i \in 1..Len(strand) /\ Notified(i)
    BY <1>1, <1>2, Zenon DEF Notified
  <2>2. \A i \in 1..Len(strand) : Notified(i) => i \in 1..Len(strand') /\ Notified(i)'
    BY <1>1, <1>2, Zenon DEF Notified
  <2> QED BY <2>1, <2>2, Zenon DEF NoticesKept, NoNotice, OneNotice
<1> QED BY <1>1, <1>5, <1>7, <1>8, <1>9, <1>10

\* The handler that runs leaves the strand.
LEMMA Ran ==
  ASSUME strand \in Seq(Jobs), strand # <<>>, NEW c \in Calls, strand[1].step # "reorganize",
         strand[1].call = c, Once(c), strand' = Tail(strand)
  PROVE  /\ strand' \in Seq(Jobs) /\ ~Waits(c)' /\ Once(c)' /\ Waits(c)
         /\ \A d \in Calls : d # c => HandlersKept(d)
         /\ NoticesKept
<1>1. /\ strand' \in Seq(Jobs) /\ Len(strand) \in Nat /\ Len(strand') = Len(strand) - 1
      /\ \A i \in 1..Len(strand') : strand'[i] = strand[i + 1] /\ i + 1 \in 1..Len(strand) /\ i + 1 # 1
      /\ 1 \in 1..Len(strand)
      /\ \A i \in 1..Len(strand) : i = 1 \/ \E k \in 1..Len(strand') : i = k + 1
  BY TailElements
<1>2. ASSUME NEW d PROVE \A i \in 1..Len(strand') : Owned(i, d)' <=> Owned(i + 1, d)
  BY <1>1, Zenon DEF Owned
<1>3. Owned(1, c) /\ \A d : Owned(1, d) => d = c
  BY Zenon DEF Owned
<1>4. Waits(c)
  BY <1>1, <1>3, Zenon DEF Waits
<1>5. ASSUME NEW i \in 1..Len(strand'), Owned(i, c)' PROVE FALSE
  BY <1>1, <1>2, <1>3, <1>5, Zenon DEF Once
<1>6. ~Waits(c)' /\ Once(c)'
  BY <1>5, Zenon DEF Waits, Once
<1>7. ASSUME NEW d \in Calls, d # c PROVE HandlersKept(d)
  <2>1. \A i \in 1..Len(strand) : Owned(i, d) => \E k \in 1..Len(strand') : i = k + 1 /\ Owned(k, d)'
    BY <1>1, <1>2, <1>3, <1>7, Zenon
  <2>2. \A i \in 1..Len(strand') : Owned(i, d)' => i + 1 \in 1..Len(strand) /\ Owned(i + 1, d)
    BY <1>1, <1>2, Zenon
  <2>3. Waits(d)' <=> Waits(d)
    BY <2>1, <2>2, Zenon DEF Waits
  <2>4. Once(d) => Once(d)'
    <3>1. \A i, k \in 1..Len(strand') : i + 1 = k + 1 => i = k
      BY <1>1
    <3> QED BY <2>2, <3>1, ZenonT(30) DEF Once
  <2>5. \A step \in Reads : OnStrand(d, step)' => OnStrand(d, step)
    BY <1>1, <2>2, ZenonT(30) DEF OnStrand
  <2> QED BY <2>3, <2>4, <2>5, Zenon DEF HandlersKept
<1>8. NoticesKept
  <2>1. \A i \in 1..Len(strand') : Notified(i)' => i + 1 \in 1..Len(strand) /\ Notified(i + 1)
    BY <1>1, Zenon DEF Notified
  <2>2. \A i \in 1..Len(strand) : Notified(i) => \E k \in 1..Len(strand') : i = k + 1 /\ Notified(k)'
    <3>1. ~Notified(1) /\ \A k \in 1..Len(strand') : Notified(k)' <=> Notified(k + 1)
      BY <1>1, Zenon DEF Notified
    <3> QED BY <1>1, <3>1, Zenon
  <2>3. \A i, k \in 1..Len(strand') : i + 1 = k + 1 => i = k
    BY <1>1
  <2> QED BY <2>1, <2>2, <2>3, Zenon DEF NoticesKept, NoNotice, OneNotice
<1> QED BY <1>1, <1>4, <1>6, <1>7, <1>8

-----------------------------------------------------------------------------
(* A step and the calls that it does not concern.                          *)

Kept(d) ==
    /\ asks'[d] = asks[d] /\ validator'[d] = validator[d]
    /\ stores'[d] = stores[d] /\ confirms'[d] = confirms[d]
    /\ d \in asked' <=> d \in asked
    /\ d \in resubmitted' <=> d \in resubmitted
    /\ d \in evicted' <=> d \in evicted
    /\ Pooled(d)' <=> Pooled(d)

\* A step that does not concern a call leaves what is known of it.
LEMMA CallKept ==
  ASSUME NEW d \in Calls, CallInv(d), Kept(d), HandlersKept(d)
  PROVE  CallInv(d)'
<1>1. (Flying(d)' <=> Flying(d)) /\ (Accepted(d)' <=> Accepted(d)) /\ (Refused(d)' <=> Refused(d))
  BY Zenon DEF Kept, HandlersKept, Flying, Accepted, Refused
<1>2. PlaceInv(d)'
  BY <1>1, Zenon DEF CallInv, PlaceInv, Kept
<1>3. StepInv(d)'
  BY Zenon DEF CallInv, StepInv, Kept, HandlersKept
<1>4. \A step \in Reads : Stage(d, step)' => Stage(d, step)
  BY Zenon DEF Stage, Kept, HandlersKept
<1>5. "spend" \in Reads
  BY DEF Reads
<1>6. ValidInv(d)'
  BY <1>1, <1>4, <1>5, Zenon DEF CallInv, ValidInv, Kept, Good, Sane
<1> QED BY <1>2, <1>3, <1>6 DEF CallInv

\* The same strand has the same handlers ...
LEMMA SameHandlers == ASSUME UNCHANGED strand, NEW d PROVE HandlersKept(d) /\ NoticesKept
BY Zenon DEF HandlersKept, NoticesKept, Waits, Once, OnStrand, Owned, NoNotice, OneNotice, Notified

\* ... and the same pool holds the same transactions.
LEMMA SamePool == ASSUME UNCHANGED pool PROVE (Unique => Unique') /\ \A d : Pooled(d)' <=> Pooled(d)
BY Zenon DEF Unique, Pooled

\* The subscription when nothing happens to it.
LEMMA SubscriptionKept ==
  ASSUME SubscriptionInv, NoticesKept, UNCHANGED <<registry, relays>>
  PROVE  SubscriptionInv'
BY Zenon DEF SubscriptionInv, NoticesKept, NoSubscribe, OneSubscribe, Subscribes

-----------------------------------------------------------------------------
(* A client and the blockchain.                                            *)

\* store() keeps the invariant.
LEMMA StoreInv == ASSUME PoolInv, NEW c \in Calls, Store(c) PROVE PoolInv'
<1> USE DEF PoolInv
<1>1. /\ c \notin asked /\ asked' = asked \cup {c}
      /\ strand' = Append(strand, [step |-> "do_store", call |-> c])
      /\ UNCHANGED <<tip, pool, validator, asks, resubmitted, registry, relays, stores, confirms,
                     evicted>>
  BY DEF Store, chain, subscription, answers
<1> DEFINE j == [step |-> "do_store", call |-> c]
<1>2. j \in Jobs /\ j.step = "do_store" /\ j.call = c /\ j.step # "reorganize"
  BY StoreJob
<1> HIDE DEF j
<1>3. strand \in Seq(Jobs) /\ CallInv(c)
  BY DEF TypeOK
<1>4. ~Flying(c) /\ ~Pooled(c) /\ c \notin evicted /\ c \notin resubmitted
      /\ stores[c] = <<>> /\ confirms[c] = <<>>
  BY <1>1, <1>3, Zenon DEF CallInv, PlaceInv
<1>5. ~Waits(c) /\ asks[c] = "nothing"
  BY <1>4, Zenon DEF Flying
<1>6. /\ strand' \in Seq(Jobs)
      /\ Waits(c)' /\ Once(c)'
      /\ \A step \in Reads : OnStrand(c, step)' => step = j.step
      /\ \A d \in Calls : d # c => HandlersKept(d)
      /\ NoticesKept
  BY <1>1, <1>2, <1>3, <1>5, Posted, Zenon DEF j
<1>7. Unique' /\ \A d : Pooled(d)' <=> Pooled(d)
  BY <1>1, SamePool, Zenon
<1>8. ASSUME NEW d \in Calls, d # c PROVE CallInv(d)'
  <2>1. Kept(d)
    BY <1>1, <1>7, <1>8 DEF Kept
  <2> QED BY <1>6, <1>8, <2>1, CallKept, Zenon
<1>9. CallInv(c)'
  <2>1. PlaceInv(c)'
    BY <1>1, <1>4, <1>6, <1>7, Zenon DEF PlaceInv, Flying
  <2>2. StepInv(c)'
    BY <1>1, <1>5, <1>6, Zenon DEF StepInv
  <2>3. \A step \in Reads : ~Stage(c, step)'
    <3>1. "nothing" \notin Reads /\ "do_store" \notin Reads
      BY DEF Reads
    <3> QED BY <1>1, <1>2, <1>5, <1>6, <3>1, Zenon DEF Stage
  <2>4. ~Accepted(c)'
    BY <1>1, <1>4 DEF Accepted
  <2>5. ValidInv(c)'
    <3>1. "spend" \in Reads
      BY DEF Reads
    <3> QED BY <1>1, <1>3, <2>3, <2>4, <3>1, Zenon DEF CallInv, ValidInv, Sane, Good
  <2> QED BY <2>1, <2>2, <2>5 DEF CallInv
<1>10. TypeOK'
  BY <1>1, <1>6, ZenonT(30) DEF TypeOK
<1> QED BY <1>1, <1>6, <1>7, <1>8, <1>9, <1>10, SubscriptionKept, Zenon

\* The blocks from the first to b are blocks.
LEMMA PathBlocks == ASSUME NEW b \in Blocks PROVE Path[b] \subseteq Blocks
BY DEF Path

\* A confirmed transaction has a depth.
LEMMA DepthType == ASSUME tip \in Blocks, NEW t \in Confirmed PROVE DepthOf(t) \in Nat
<1>1. \E b \in Path[tip] : t \in BlockTxs[b]
  BY DEF Confirmed, TxsOf
<1>2. (CHOOSE b \in Path[tip] : t \in BlockTxs[b]) \in Path[tip]
  BY <1>1, Zenon
<1>3. (CHOOSE b \in Path[tip] : t \in BlockTxs[b]) \in Blocks
  BY <1>2, PathBlocks
<1> HIDE DEF Path
<1> QED BY <1>3, TreeAssumption DEF DepthOf

\* What the chain answers a read with.
LEMMA FetchedType ==
  ASSUME TypeOK, NEW c \in Calls, asks[c] \in Reads
  PROVE  Fetched(c)[1] \in {"success", "not_found", "unspent_output"} /\ Fetched(c)[2] \in Nat
<1> DEFINE found(t) == IF t \in Confirmed THEN "success" ELSE "not_found"
           prev == PreviousOutput(c)
           depth == IF prev[1] \in Confirmed THEN DepthOf(prev[1]) ELSE 0
           spent == IF \E t \in Confirmed : prev \in Outpoints(t) THEN "success" ELSE "unspent_output"
<1>1. tip \in Blocks /\ Height[tip] \in Nat
  BY TreeAssumption DEF TypeOK
<1>2. depth \in Nat
  BY <1>1, DepthType
<1>3. \A t : found(t) \in {"success", "not_found", "unspent_output"}
  OBVIOUS
<1>4. spent \in {"success", "not_found", "unspent_output"}
  OBVIOUS
<1>5. /\ asks[c] = "duplicate" => Fetched(c) = <<found(Tx[c]), 0>>
      /\ asks[c] = "last_depth" => Fetched(c) = <<"success", Height[tip]>>
      /\ asks[c] = "index" => Fetched(c) = <<found(prev[1]), depth>>
      /\ asks[c] = "previous" => Fetched(c) = <<found(prev[1]), 0>>
      /\ asks[c] = "spend" => Fetched(c) = <<spent, 0>>
  BY Zenon DEF Fetched
<1> HIDE DEF found, prev, depth, spent
<1> QED BY <1>1, <1>2, <1>3, <1>4, <1>5 DEF Reads

\* The chain's answer to a read keeps the invariant.
LEMMA FetchInv == ASSUME PoolInv, NEW c \in Calls, Fetch(c) PROVE PoolInv'
<1> USE DEF PoolInv
<1> DEFINE j == [step |-> asks[c], call |-> c, ec |-> Fetched(c)[1], depth |-> Fetched(c)[2]]
<1>1. /\ asks[c] # "nothing" /\ strand' = Append(strand, j)
      /\ asks' = [asks EXCEPT ![c] = "nothing"]
      /\ UNCHANGED <<tip, pool, validator, resubmitted, registry, relays, asked, stores, confirms,
                     evicted>>
  BY DEF Fetch, chain, subscription, answers
<1>2. asks[c] \in Reads /\ asks \in [Calls -> Reads \cup {"nothing"}]
  BY <1>1 DEF TypeOK
<1>3. j \in Jobs /\ j.step = asks[c] /\ j.call = c
  BY <1>2, FetchedType, ReadJob, ZenonT(30)
<1> HIDE DEF j
<1>4. "reorganize" \notin Reads /\ "nothing" \notin Reads /\ "spend" \in Reads
  BY DEF Reads
<1>5. strand \in Seq(Jobs) /\ CallInv(c)
  BY DEF TypeOK
<1>6. ~Waits(c) /\ Flying(c)
  BY <1>1, <1>5, Zenon DEF CallInv, StepInv, Flying
<1>7. /\ strand' \in Seq(Jobs)
      /\ Waits(c)' /\ Once(c)'
      /\ \A step \in Reads : OnStrand(c, step)' => step = j.step
      /\ \A d \in Calls : d # c => HandlersKept(d)
      /\ NoticesKept
  BY <1>1, <1>2, <1>3, <1>4, <1>5, <1>6, Posted, Zenon
<1>8. Unique' /\ \A d : Pooled(d)' <=> Pooled(d)
  BY <1>1, SamePool, Zenon
<1>9. ASSUME NEW d \in Calls, d # c PROVE CallInv(d)'
  <2>1. asks'[d] = asks[d]
    BY <1>1, <1>2, <1>9
  <2>2. Kept(d)
    BY <1>1, <1>8, <2>1, Zenon DEF Kept
  <2> QED BY <1>7, <1>9, <2>2, CallKept, Zenon
<1>10. asks'[c] = "nothing" /\ asks' \in [Calls -> Reads \cup {"nothing"}]
  BY <1>1, <1>2
<1>11. CallInv(c)'
  <2>0. Flying(c)' /\ (Accepted(c)' <=> Accepted(c))
    BY <1>1, <1>7, Zenon DEF Flying, Accepted
  <2>1. PlaceInv(c)'
    BY <1>1, <1>5, <1>6, <1>8, <2>0, Zenon DEF CallInv, PlaceInv
  <2>2. StepInv(c)'
    BY <1>7, <1>10, Zenon DEF StepInv
  <2>3. \A step \in Reads : Stage(c, step)' => Stage(c, step)
    BY <1>3, <1>4, <1>7, <1>10, Zenon DEF Stage
  <2>4. ValidInv(c)'
    BY <1>1, <1>4, <1>5, <2>0, <2>3, Zenon DEF CallInv, ValidInv, Sane, Good
  <2> QED BY <2>1, <2>2, <2>4 DEF CallInv
<1>12. TypeOK'
  BY <1>1, <1>7, <1>10, ZenonT(30) DEF TypeOK
<1> QED BY <1>1, <1>7, <1>8, <1>9, <1>11, <1>12, SubscriptionKept, Zenon

-----------------------------------------------------------------------------
(* The subscription.                                                       *)

\* The calls when nothing but the subscription and its notices change.
LEMMA CallsKept ==
  ASSUME PoolInv, \A d \in Calls : HandlersKept(d),
         UNCHANGED <<pool, validator, asks, resubmitted, asked, stores, confirms, evicted>>
  PROVE  Unique' /\ \A d \in Calls : CallInv(d)'
<1>1. Unique' /\ \A d : Pooled(d)' <=> Pooled(d)
  BY SamePool, Zenon DEF PoolInv
<1>2. ASSUME NEW d \in Calls PROVE CallInv(d)'
  <2>1. Kept(d)
    BY <1>1, Zenon DEF Kept
  <2> QED BY <2>1, CallKept, Zenon DEF PoolInv
<1> QED BY <1>1, <1>2

\* A reorganisation of the chain keeps the invariant.
LEMMA ReorganiseInv == ASSUME PoolInv, NEW b \in Blocks, Reorganise(b) PROVE PoolInv'
<1> USE DEF PoolInv
<1> DEFINE n == [step |-> "do_relay", new |-> TxsOf(Path[b] \ Path[tip]),
                 replaced |-> Path[tip] \ Path[b]]
<1>1. /\ tip' = b /\ relays' = Append(relays, n)
      /\ UNCHANGED <<pool, strand, validator, asks, resubmitted, registry, asked, stores, confirms,
                     evicted>>
  BY DEF Reorganise, answers
<1>2. n \in Notices /\ n.step = "do_relay"
  <2>1. Path[tip] \in SUBSET Blocks /\ Path[b] \in SUBSET Blocks
    BY PathBlocks DEF TypeOK
  <2> HIDE DEF Path
  <2>2. TxsOf(Path[b] \ Path[tip]) \in SUBSET Txs
    BY <2>1, TreeAssumption DEF TxsOf
  <2> QED BY <2>1, <2>2 DEF Notices
<1> HIDE DEF n
<1>3. /\ relays' \in Seq(Notices) /\ Len(relays) \in Nat /\ Len(relays') = Len(relays) + 1
      /\ \A i \in 1..Len(relays) : relays'[i] = relays[i]
      /\ relays'[Len(relays')] = n
      /\ 1..Len(relays') = (1..Len(relays)) \cup {Len(relays')}
  <2>1. relays \in Seq(Notices)
    BY DEF TypeOK
  <2> QED BY <1>1, <1>2, <2>1, AppendElements
<1>4. \A i \in 1..Len(relays') : Subscribes(i)' => i \in 1..Len(relays) /\ Subscribes(i)
  BY <1>2, <1>3 DEF Subscribes
<1>5. \A i \in 1..Len(relays) : Subscribes(i) => i \in 1..Len(relays') /\ Subscribes(i)'
  BY <1>3 DEF Subscribes
<1>6. (NoSubscribe => NoSubscribe') /\ (OneSubscribe => OneSubscribe')
  BY <1>4, <1>5, Zenon DEF NoSubscribe, OneSubscribe
<1>7. SubscriptionInv'
  BY <1>1, <1>6, SameHandlers, Zenon DEF SubscriptionInv, NoticesKept
<1>8. Unique' /\ \A d \in Calls : CallInv(d)'
  BY <1>1, SameHandlers, CallsKept, Zenon
<1>9. TypeOK'
  BY <1>1, <1>3, ZenonT(30) DEF TypeOK
<1> QED BY <1>7, <1>8, <1>9

\* The first handler of the subscriber's strand has run.
LEMMA RelaysTail ==
  ASSUME relays \in Seq(Notices), relays # <<>>, relays' = Tail(relays)
  PROVE  /\ relays' \in Seq(Notices) /\ relays[1] \in Notices /\ Head(relays) = relays[1]
         /\ Subscribes(1) => (OneSubscribe => NoSubscribe') /\ ~NoSubscribe
         /\ ~Subscribes(1) => (NoSubscribe => NoSubscribe') /\ (OneSubscribe => OneSubscribe')
<1>1. /\ relays' \in Seq(Notices) /\ Len(relays) \in Nat /\ Len(relays') = Len(relays) - 1
      /\ \A i \in 1..Len(relays') : relays'[i] = relays[i + 1] /\ i + 1 \in 1..Len(relays) /\ i + 1 # 1
      /\ 1 \in 1..Len(relays) /\ relays[1] \in Notices /\ Head(relays) = relays[1]
      /\ \A i \in 1..Len(relays) : i = 1 \/ \E k \in 1..Len(relays') : i = k + 1
  BY TailElements
<1>2. \A i \in 1..Len(relays') : Subscribes(i)' <=> Subscribes(i + 1)
  BY <1>1, Zenon DEF Subscribes
<1>3. \A i, k \in 1..Len(relays') : i + 1 = k + 1 => i = k
  BY <1>1
<1>4. ASSUME Subscribes(1) PROVE (OneSubscribe => NoSubscribe') /\ ~NoSubscribe
  BY <1>1, <1>2, <1>4, Zenon DEF OneSubscribe, NoSubscribe
<1>5. ASSUME ~Subscribes(1)
      PROVE (NoSubscribe => NoSubscribe') /\ (OneSubscribe => OneSubscribe')
  <2>1. NoSubscribe => NoSubscribe'
    BY <1>1, <1>2, Zenon DEF NoSubscribe
  <2>2. ASSUME OneSubscribe PROVE OneSubscribe'
    <3>1. PICK i \in 1..Len(relays) :
            Subscribes(i) /\ \A j \in 1..Len(relays) : Subscribes(j) => j = i
      BY <2>2, Zenon DEF OneSubscribe
    <3>2. PICK k \in 1..Len(relays') : i = k + 1
      BY <1>1, <1>5, <3>1, Zenon
    <3>3. Subscribes(k)'
      BY <1>2, <3>1, <3>2, Zenon
    <3>4. \A j \in 1..Len(relays') : Subscribes(j)' => j = k
      BY <1>1, <1>2, <1>3, <3>1, <3>2, Zenon
    <3> QED BY <3>3, <3>4, ZenonT(30) DEF OneSubscribe
  <2> QED BY <2>1, <2>2
<1> QED BY <1>1, <1>4, <1>5

\* The pool subscribes again.
LEMMA Resubscribed ==
  ASSUME relays \in Seq(Notices), Resubscribe
  PROVE  relays' \in Seq(Notices) /\ (NoSubscribe => OneSubscribe')
<1> DEFINE n == [step |-> "do_subscribe"]
<1>1. n \in Notices /\ n.step = "do_subscribe"
  BY DEF Notices
<1>2. relays' = Append(relays, n)
  BY DEF Resubscribe
<1> HIDE DEF n
<1>3. /\ relays' \in Seq(Notices) /\ Len(relays) \in Nat
      /\ \A i \in 1..Len(relays) : relays'[i] = relays[i]
      /\ relays'[Len(relays')] = n
      /\ 1..Len(relays') = (1..Len(relays)) \cup {Len(relays')}
  BY <1>1, <1>2, AppendElements
<1>4. ASSUME NoSubscribe PROVE OneSubscribe'
  <2>2. PICK k : k = Len(relays')
    BY SMTT(30)
  <2>3. k \in 1..Len(relays') /\ Subscribes(k)'
    BY <1>1, <1>3, <2>2 DEF Subscribes
  <2>4. \A j \in 1..Len(relays') : Subscribes(j)' => j = k
    BY <1>3, <1>4, <2>2 DEF Subscribes, NoSubscribe
  <2> QED BY <2>3, <2>4, Zenon DEF OneSubscribe
<1> QED BY <1>3, <1>4

\* do_subscribe keeps the invariant.
LEMMA DoSubscribeInv == ASSUME PoolInv, DoSubscribe PROVE PoolInv'
<1> USE DEF PoolInv
<1>1. /\ relays # <<>> /\ Head(relays).step = "do_subscribe"
      /\ registry' = registry + 1 /\ relays' = Tail(relays)
      /\ UNCHANGED <<tip, pool, strand, validator, asks, resubmitted, asked, stores, confirms,
                     evicted>>
  BY DEF DoSubscribe, chain, answers
<1>2. relays \in Seq(Notices)
  BY DEF TypeOK
<1>3. relays' \in Seq(Notices) /\ (OneSubscribe => NoSubscribe') /\ ~NoSubscribe
  BY <1>1, <1>2, RelaysTail DEF Subscribes
<1>4. registry = 0 /\ OneSubscribe /\ NoNotice
  BY <1>3, Zenon DEF SubscriptionInv
<1>5. registry' = 1
  BY <1>1, <1>4
<1>6. SubscriptionInv'
  BY <1>1, <1>3, <1>4, <1>5, SameHandlers, Zenon DEF SubscriptionInv, NoticesKept
<1>7. Unique' /\ \A d \in Calls : CallInv(d)'
  BY <1>1, SameHandlers, CallsKept, Zenon
<1>8. TypeOK'
  <2>1. registry' \in Nat
    BY <1>5
  <2> QED BY <1>1, <1>3, <2>1, Zenon DEF TypeOK
<1> QED BY <1>6, <1>7, <1>8

\* Handlers that belong to no call are posted.
LEMMA DoRelayInv == ASSUME PoolInv, DoRelay PROVE PoolInv'
<1> USE DEF PoolInv
<1> DEFINE j == [Head(relays) EXCEPT !.step = "reorganize"]
           f == [i \in 1..registry |-> j]
<1>1. /\ relays # <<>> /\ Head(relays).step = "do_relay"
      /\ strand' = strand \o f /\ registry' = 0 /\ relays' = Tail(relays)
      /\ UNCHANGED <<tip, pool, validator, asks, resubmitted, asked, stores, confirms, evicted>>
  BY DEF DoRelay, chain, answers
<1>2. relays \in Seq(Notices) /\ strand \in Seq(Jobs) /\ registry \in Nat
  BY DEF TypeOK
<1>3. Head(relays) = relays[1] /\ relays[1] \in Notices /\ ~Subscribes(1)
  BY <1>1, <1>2, RelaysTail DEF Subscribes
<1>4. /\ relays' \in Seq(Notices)
      /\ (NoSubscribe => NoSubscribe') /\ (OneSubscribe => OneSubscribe')
  BY <1>1, <1>2, <1>3, RelaysTail, Zenon
<1>5. j \in Jobs /\ j.step = "reorganize"
  BY <1>1, <1>3, NoticeJob, Zenon
<1> HIDE DEF j
<1>6. f \in [1..registry -> Jobs] /\ \A i \in 1..registry : f[i] = j
  BY <1>5
<1> HIDE DEF f
<1>7. /\ strand' \in Seq(Jobs) /\ Len(strand) \in Nat /\ Len(strand') = Len(strand) + registry
      /\ \A i \in 1..Len(strand) : strand'[i] = strand[i]
      /\ \A i \in 1..registry : strand'[Len(strand) + i] = j
  BY <1>1, <1>2, <1>6, ConcatElements, SMTT(30)
<1>8. ASSUME NEW i \in 1..Len(strand'), i \notin 1..Len(strand)
      PROVE  strand'[i] = j
  <2>1. PICK k \in 1..registry : Len(strand) + k = i
    <3>1. i - Len(strand) \in 1..registry /\ Len(strand) + (i - Len(strand)) = i
      BY <1>2, <1>7, <1>8
    <3> QED BY <3>1
  <2> QED BY <1>7, <2>1, Zenon
<1>9. 1..Len(strand) \subseteq 1..Len(strand')
  BY <1>2, <1>7
<1>10. ASSUME NEW d \in Calls PROVE HandlersKept(d)
  <2>1. \A i \in 1..Len(strand') : Owned(i, d)' => i \in 1..Len(strand) /\ Owned(i, d)
    BY <1>5, <1>7, <1>8, Zenon DEF Owned
  <2>2. \A i \in 1..Len(strand) : Owned(i, d) => i \in 1..Len(strand') /\ Owned(i, d)'
    BY <1>7, <1>9, Zenon DEF Owned
  <2>3. (Waits(d)' <=> Waits(d)) /\ (Once(d) => Once(d)')
    BY <2>1, <2>2, Zenon DEF Waits, Once
  <2>4. \A step \in Reads : OnStrand(d, step)' => OnStrand(d, step)
    BY <1>7, <2>1, Zenon DEF OnStrand
  <2> QED BY <2>3, <2>4, Zenon DEF HandlersKept
<1>11. SubscriptionInv'
  <2>1. CASE registry = 1 /\ NoSubscribe /\ NoNotice
    <3>1. PICK k : k = Len(strand) + 1
      OBVIOUS
    <3>2. k \in 1..Len(strand') /\ 1 \in 1..registry /\ 1..Len(strand') = (1..Len(strand)) \cup {k}
      BY <1>7, <2>1, <3>1
    <3>3. Notified(k)'
      BY <1>5, <1>7, <3>1, <3>2, Zenon DEF Notified
    <3>4. \A i \in 1..Len(strand') : Notified(i)' => i = k
      BY <1>7, <2>1, <3>2 DEF Notified, NoNotice
    <3>5. OneNotice'
      BY <3>2, <3>3, <3>4, Zenon DEF OneNotice
    <3> QED BY <1>1, <1>4, <2>1, <3>5, Zenon DEF SubscriptionInv
  <2>2. CASE registry = 0
    <3>1. Len(strand') = Len(strand)
      BY <1>7, <2>2
    <3>2. \A i : Notified(i)' /\ i \in 1..Len(strand') <=> Notified(i) /\ i \in 1..Len(strand)
      BY <1>7, <3>1, Zenon DEF Notified
    <3>3. (NoNotice => NoNotice') /\ (OneNotice => OneNotice')
      BY <3>2, Zenon DEF NoNotice, OneNotice
    <3> QED BY <1>1, <1>4, <2>2, <3>3, Zenon DEF SubscriptionInv
  <2> QED BY <2>1, <2>2, Zenon DEF SubscriptionInv
<1>12. Unique' /\ \A d \in Calls : CallInv(d)'
  BY <1>1, <1>10, CallsKept, Zenon
<1>13. TypeOK'
  BY <1>1, <1>4, <1>7, ZenonT(30) DEF TypeOK
<1> QED BY <1>11, <1>12, <1>13

-----------------------------------------------------------------------------
(* The steps of a validation.                                              *)

\* A validation asks the blockchain its next question.
LEMMA AskInv ==
  ASSUME PoolInv, NEW c \in Calls, strand # <<>>, strand[1].step # "reorganize", strand[1].call = c,
         NEW q \in Reads,
         NEW v \in [input : Nat, unconfirmed : Seq(Nat), last_depth : Nat, parent_depth : Nat],
         Ask(c, q, v), Sane(c), v.input \in 1..Len(Inputs[Tx[c]]),
         \A n \in 1..v.input - 1 : Good(c, n), q = "spend" => Good(c, v.input)
  PROVE  PoolInv'
<1> USE DEF PoolInv
<1>1. /\ asks' = [asks EXCEPT ![c] = q] /\ validator' = [validator EXCEPT ![c] = v]
      /\ strand' = Tail(strand)
      /\ UNCHANGED <<tip, pool, resubmitted, registry, relays, asked, stores, confirms, evicted>>
  BY DEF Ask, chain, subscription, answers
<1>2. /\ asks \in [Calls -> Reads \cup {"nothing"}] /\ strand \in Seq(Jobs)
      /\ validator \in [Calls -> [input : Nat, unconfirmed : Seq(Nat),
                                  last_depth : Nat, parent_depth : Nat]]
  BY Zenon DEF TypeOK
<1>3. /\ asks' \in [Calls -> Reads \cup {"nothing"}]
      /\ asks'[c] = q /\ \A d \in Calls \ {c} : asks'[d] = asks[d]
      /\ validator'[c] = v /\ \A d \in Calls \ {c} : validator'[d] = validator[d]
  BY <1>1, <1>2
<1>4. validator' \in [Calls -> [input : Nat, unconfirmed : Seq(Nat),
                                last_depth : Nat, parent_depth : Nat]]
  BY <1>1, <1>2
<1>5. CallInv(c) /\ Once(c)
  BY DEF CallInv, StepInv
<1>6. /\ strand' \in Seq(Jobs) /\ ~Waits(c)' /\ Once(c)' /\ Waits(c)
      /\ \A d \in Calls : d # c => HandlersKept(d)
      /\ NoticesKept
  BY <1>1, <1>2, <1>5, Ran, Zenon
<1>7. Unique' /\ \A d : Pooled(d)' <=> Pooled(d)
  BY <1>1, SamePool, Zenon
<1>8. ASSUME NEW d \in Calls, d # c PROVE CallInv(d)'
  <2>1. asks'[d] = asks[d] /\ validator'[d] = validator[d]
    BY <1>3, <1>8
  <2>2. Kept(d)
    BY <1>1, <1>7, <2>1, Zenon DEF Kept
  <2> QED BY <1>6, <1>8, <2>2, CallKept, Zenon
<1>9. "nothing" \notin Reads /\ "spend" \in Reads
  BY DEF Reads
<1>10. CallInv(c)'
  <2>1. Flying(c) /\ Flying(c)' /\ (Accepted(c)' <=> Accepted(c))
    BY <1>1, <1>3, <1>6, <1>9, Zenon DEF Flying, Accepted
  <2>2. PlaceInv(c)'
    BY <1>1, <1>5, <1>7, <2>1, Zenon DEF CallInv, PlaceInv
  <2>3. StepInv(c)'
    BY <1>6, Zenon DEF StepInv
  <2>4. \A step \in Reads : Stage(c, step)' => step = q
    BY <1>3, <1>6, Zenon DEF Stage, OnStrand, Waits
  <2>5. ValidInv(c)'
    BY <1>1, <1>3, <1>5, <1>9, <2>1, <2>4, ZenonT(30) DEF CallInv, ValidInv, Sane, Good
  <2> QED BY <2>2, <2>3, <2>5 DEF CallInv
<1>11. TypeOK'
  BY <1>1, <1>3, <1>4, <1>6, Zenon DEF TypeOK
<1> QED BY <1>1, <1>6, <1>7, <1>8, <1>10, <1>11, SubscriptionKept, Zenon

\* circular_buffer::push_back: the entry is last; the first one leaves a full pool.
LEMMA PushedBack ==
  ASSUME TypeOK, NEW c \in Calls, PushBack(c)
  PROVE  /\ pool' \in Seq(Calls) /\ Len(pool') <= Capacity /\ Pooled(c)'
         /\ Unique /\ ~tx_exists(Tx[c]) => Unique'
         /\ \/ evicted' = evicted /\ \A d \in Calls : d # c => (Pooled(d)' <=> Pooled(d))
            \/ \E e \in Calls : /\ Pooled(e) /\ evicted' = evicted \cup {e}
                                /\ Unique /\ e # c => ~Pooled(e)'
                                /\ \A d \in Calls : d # c /\ d # e => (Pooled(d)' <=> Pooled(d))
<1>1. pool \in Seq(Calls) /\ Len(pool) \in Nat /\ Len(pool) <= Capacity /\ Capacity \in Nat \ {0}
  BY PoolAssumption, LenProperties DEF TypeOK
<1>2. \A t : tx_exists(t) <=> \E i \in 1..Len(pool) : Tx[pool[i]] = t
  BY <1>1 DEF tx_exists
<1>3. CASE Len(pool) < Capacity
  <2>1. pool' = Append(pool, c) /\ evicted' = evicted
    BY <1>3, Zenon DEF PushBack
  <2>2. /\ pool' \in Seq(Calls) /\ Len(pool') = Len(pool) + 1
        /\ \A i \in 1..Len(pool) : pool'[i] = pool[i]
        /\ pool'[Len(pool')] = c
        /\ 1..Len(pool') = (1..Len(pool)) \cup {Len(pool')}
    BY <1>1, <2>1, AppendElements
  <2>3. Len(pool') <= Capacity
    BY <1>1, <1>3, <2>2
  <2>4. Pooled(c)' /\ \A d \in Calls : d # c => (Pooled(d)' <=> Pooled(d))
    BY <2>2 DEF Pooled
  <2>5. ASSUME Unique, ~tx_exists(Tx[c]) PROVE Unique'
    BY <1>2, <2>2, <2>5 DEF Unique
  <2> QED BY <2>1, <2>2, <2>3, <2>4, <2>5, Zenon
<1>4. CASE ~(Len(pool) < Capacity)
  <2>1. pool' = Append(Tail(pool), c) /\ evicted' = evicted \cup {Head(pool)}
    BY <1>4, Zenon DEF PushBack
  <2>2. pool # <<>> /\ Len(pool) = Capacity
    BY <1>1, <1>4
  <2>3. /\ Tail(pool) \in Seq(Calls) /\ Len(Tail(pool)) = Len(pool) - 1
        /\ \A i \in 1..Len(pool) - 1 : Tail(pool)[i] = pool[i + 1] /\ i + 1 \in 1..Len(pool) /\ i + 1 # 1
        /\ Head(pool) = pool[1] /\ pool[1] \in Calls /\ 1 \in 1..Len(pool)
        /\ \A i \in 1..Len(pool) : i = 1 \/ \E k \in 1..Len(pool) - 1 : i = k + 1
    BY <1>1, <2>2, TailElements, SMTT(30)
  <2>4. /\ pool' \in Seq(Calls) /\ Len(pool') = Len(Tail(pool)) + 1
        /\ \A i \in 1..Len(Tail(pool)) : pool'[i] = Tail(pool)[i]
        /\ pool'[Len(pool')] = c
        /\ 1..Len(pool') = (1..Len(Tail(pool))) \cup {Len(pool')}
    BY <2>1, <2>3, AppendElements
  <2>5. /\ Len(pool') = Len(pool) /\ \A i \in 1..Len(pool) - 1 : pool'[i] = pool[i + 1]
        /\ 1..Len(pool') = (1..Len(pool) - 1) \cup {Len(pool')}
    BY <1>1, <2>3, <2>4
  <2>6. PICK e \in Calls : e = pool[1]
    BY <2>3
  <2>7. Pooled(e) /\ Pooled(c)' /\ evicted' = evicted \cup {e}
    BY <2>1, <2>3, <2>4, <2>5, <2>6, ZenonT(30) DEF Pooled
  <2>8. ASSUME NEW d \in Calls, d # c, d # e PROVE Pooled(d)' <=> Pooled(d)
    <3>1. \A i \in 1..Len(pool') : pool'[i] = d => i + 1 \in 1..Len(pool) /\ pool[i + 1] = d
      BY <2>3, <2>4, <2>5, <2>8, Zenon
    <3>2. ASSUME NEW i \in 1..Len(pool), pool[i] = d PROVE \E k \in 1..Len(pool') : pool'[k] = d
      <4>1. PICK k \in 1..Len(pool) - 1 : i = k + 1
        BY <2>3, <2>6, <2>8, <3>2, Zenon
      <4>2. k \in 1..Len(pool') /\ pool'[k] = d
        BY <2>5, <3>2, <4>1, Zenon
      <4> QED BY <4>2, Zenon
    <3> QED BY <3>1, <3>2, Zenon DEF Pooled
  <2>9. ASSUME Unique, e # c PROVE ~Pooled(e)'
    <3>1. ASSUME NEW i \in 1..Len(pool'), pool'[i] = e PROVE FALSE
      <4>1. i \in 1..Len(pool) - 1 /\ pool[i + 1] = e
        BY <2>4, <2>5, <2>9, <3>1, Zenon
      <4> QED BY <2>3, <2>6, <2>9, <4>1, Zenon DEF Unique
    <3> QED BY <3>1, Zenon DEF Pooled
  <2>10. ASSUME Unique, ~tx_exists(Tx[c]) PROVE Unique'
    <3> SUFFICES ASSUME NEW i \in 1..Len(pool'), NEW j \in 1..Len(pool'), Tx[pool'[i]] = Tx[pool'[j]]
                 PROVE  i = j
      BY Zenon DEF Unique
    <3>1. ASSUME NEW k \in 1..Len(pool) - 1 PROVE Tx[pool'[k]] # Tx[c]
      <4>1. k + 1 \in 1..Len(pool) /\ pool'[k] = pool[k + 1]
        BY <2>3, <2>5, Zenon
      <4> QED BY <1>2, <2>10, <4>1, Zenon
    <3>2. ASSUME NEW k \in 1..Len(pool) - 1, NEW l \in 1..Len(pool) - 1, Tx[pool'[k]] = Tx[pool'[l]]
          PROVE  k + 1 = l + 1
      <4>1. /\ k + 1 \in 1..Len(pool) /\ pool'[k] = pool[k + 1]
            /\ l + 1 \in 1..Len(pool) /\ pool'[l] = pool[l + 1]
        BY <2>3, <2>5, Zenon
      <4>2. Tx[pool[k + 1]] = Tx[pool[l + 1]]
        BY <3>2, <4>1, Zenon
      <4> QED BY <2>10, <4>1, <4>2, Zenon DEF Unique
    <3>3. \A k, l \in 1..Len(pool) - 1 : k + 1 = l + 1 => k = l
      BY <1>1
    <3> QED BY <2>4, <2>5, <3>1, <3>2, <3>3, ZenonT(30)
  <2>11. Len(pool') <= Capacity
    BY <1>1, <2>5
  <2> QED BY <2>4, <2>7, <2>8, <2>9, <2>10, <2>11, ZenonT(30)
<1> QED BY <1>3, <1>4

\* handle_store is called: the client's, or handle_resubmit.
LEMMA HandledStore ==
  ASSUME TypeOK, NEW c \in Calls, NEW ec \in Codes, NEW u \in Seq(Nat), HandleStore(c, ec, u)
  PROVE  /\ stores' \in [Calls -> Seq([ec : Codes, unconfirmed : Seq(Nat)])]
         /\ confirms' \in [Calls -> Seq(Codes)]
         /\ \A d \in Calls : d # c => stores'[d] = stores[d] /\ confirms'[d] = confirms[d]
         /\ c \in resubmitted => /\ stores'[c] = stores[c]
                                 /\ ec = "success" => confirms'[c] = confirms[c]
                                 /\ ec # "success" /\ confirms[c] = <<>> => Len(confirms'[c]) = 1
         /\ c \notin resubmitted => /\ confirms'[c] = confirms[c]
                                    /\ stores[c] = <<>> => /\ Len(stores'[c]) = 1
                                                           /\ stores'[c][1].ec = ec
<1> DEFINE R == [ec : Codes, unconfirmed : Seq(Nat)]
           r == [ec |-> ec, unconfirmed |-> u]
<1>1. r \in R /\ r.ec = ec
  OBVIOUS
<1>2. stores \in [Calls -> Seq(R)] /\ confirms \in [Calls -> Seq(Codes)]
  BY ZenonT(30) DEF TypeOK
<1>3. CASE c \in resubmitted
  <2>1. UNCHANGED stores /\ confirms' = IF ec = "success" THEN confirms
                                        ELSE [confirms EXCEPT ![c] = Append(confirms[c], ec)]
    BY <1>3 DEF HandleStore
  <2>2. CASE ec = "success"
    BY <1>2, <1>3, <2>1, <2>2, Zenon
  <2>3. CASE ec # "success"
    <3>1. confirms' = [confirms EXCEPT ![c] = Append(confirms[c], ec)]
      BY <2>1, <2>3, Zenon
    <3>2. confirms[c] \in Seq(Codes) /\ Append(confirms[c], ec) \in Seq(Codes)
      BY <1>2, AppendElements
    <3>3. /\ confirms' \in [Calls -> Seq(Codes)] /\ confirms'[c] = Append(confirms[c], ec)
          /\ \A d \in Calls : d # c => confirms'[d] = confirms[d]
      BY <1>2, <3>1, <3>2
    <3>4. confirms[c] = <<>> => Len(confirms'[c]) = 1
      BY <3>3
    <3> QED BY <1>2, <1>3, <2>1, <2>3, <3>3, <3>4, ZenonT(30)
  <2> QED BY <2>2, <2>3, ZenonT(30)
<1>4. CASE c \notin resubmitted
  <2>1. UNCHANGED confirms /\ stores' = [stores EXCEPT ![c] = Append(stores[c], r)]
    BY <1>4 DEF HandleStore
  <2> HIDE DEF R, r
  <2>2. stores[c] \in Seq(R) /\ Append(stores[c], r) \in Seq(R)
    BY <1>1, <1>2, AppendElements
  <2>3. /\ stores' \in [Calls -> Seq(R)] /\ stores'[c] = Append(stores[c], r)
        /\ \A d \in Calls : d # c => stores'[d] = stores[d]
    BY <1>2, <2>1, <2>2
  <2>4. stores[c] = <<>> => Len(stores'[c]) = 1 /\ stores'[c][1] = r
    BY <2>3
  <2>5. stores[c] = <<>> => Len(stores'[c]) = 1 /\ stores'[c][1].ec = ec
    BY <1>1, <2>4, Zenon
  <2> QED BY <1>2, <1>4, <2>1, <2>3, <2>5, Zenon DEF R
<1> QED BY <1>3, <1>4, ZenonT(30)

\* Where the other calls are after handle_delegate: one of them may be evicted.
LEMMA DelegatedOthers ==
  ASSUME PoolInv, NEW c \in Calls, NEW d \in Calls, d # c, HandlersKept(d),
         UNCHANGED <<asks, resubmitted, asked>>, validator'[d] = validator[d],
         stores'[d] = stores[d], confirms'[d] = confirms[d],
         \/ (Pooled(d)' <=> Pooled(d)) /\ (d \in evicted' <=> d \in evicted)
         \/ Pooled(d) /\ ~Pooled(d)' /\ d \in evicted'
  PROVE  CallInv(d)'
<1>1. CallInv(d)
  BY DEF PoolInv
<1>2. CASE (Pooled(d)' <=> Pooled(d)) /\ (d \in evicted' <=> d \in evicted)
  <2>1. Kept(d)
    BY <1>2, Zenon DEF Kept
  <2> QED BY <1>1, <2>1, CallKept, Zenon
<1>3. CASE Pooled(d) /\ ~Pooled(d)' /\ d \in evicted'
  <2>1. (Flying(d)' <=> Flying(d)) /\ (Accepted(d)' <=> Accepted(d))
    BY Zenon DEF HandlersKept, Flying, Accepted
  <2>2. d \in asked /\ ~Flying(d) /\ Accepted(d) /\ confirms[d] = <<>>
    BY <1>1, <1>3, Zenon DEF CallInv, PlaceInv
  <2>3. PlaceInv(d)'
    BY <1>3, <2>1, <2>2, Zenon DEF PlaceInv
  <2>4. StepInv(d)'
    BY <1>1, Zenon DEF CallInv, StepInv, HandlersKept
  <2>5. \A step \in Reads : Stage(d, step)' => Stage(d, step)
    BY Zenon DEF Stage, HandlersKept
  <2>6. "spend" \in Reads
    BY DEF Reads
  <2>7. ValidInv(d)'
    BY <1>1, <2>1, <2>5, <2>6, Zenon DEF CallInv, ValidInv, Good, Sane
  <2> QED BY <2>3, <2>4, <2>7 DEF CallInv
<1> QED BY <1>2, <1>3

\* A validation ends.
LEMMA FinishInv ==
  ASSUME PoolInv, NEW c \in Calls, strand # <<>>, strand[1].step # "reorganize", strand[1].call = c,
         asks[c] = "nothing",
         NEW ec \in Codes, NEW u \in Seq(Nat), Finish(c, ec, u),
         ec = "success" => Sane(c) /\ \A n \in 1..Len(Inputs[Tx[c]]) : Good(c, n)
  PROVE  PoolInv'
<1> USE DEF PoolInv
<1> DEFINE code == IF ec = "success" /\ tx_exists(Tx[c]) THEN "duplicate" ELSE ec
           w == IF code \in {"success", "input_not_found"} THEN u ELSE <<>>
<1>1. /\ HandleStore(c, code, w) /\ validator' = [validator EXCEPT ![c] = Fresh]
      /\ strand' = Tail(strand)
      /\ UNCHANGED <<tip, asks, resubmitted, registry, relays, asked>>
      /\ IF code = "success" THEN PushBack(c) ELSE UNCHANGED <<pool, evicted>>
  BY DEF Finish, handle_delegate, chain, subscription
<1>2. /\ code \in Codes /\ w \in Seq(Nat)
      /\ code = "success" => ~tx_exists(Tx[c]) /\ ec = "success"
  <2>1. "duplicate" \in Codes /\ "duplicate" # "success"
    BY DEF Codes
  <2>2. code \in Codes /\ (code = "success" => ~tx_exists(Tx[c]) /\ ec = "success")
    BY <2>1, Zenon
  <2>3. <<>> \in Seq(Nat)
    OBVIOUS
  <2> QED BY <2>2, <2>3, Zenon
<1> HIDE DEF code, w
<1>3. CallInv(c) /\ Once(c) /\ strand \in Seq(Jobs)
  BY DEF CallInv, StepInv, TypeOK
<1>4. /\ strand' \in Seq(Jobs) /\ ~Waits(c)' /\ Once(c)' /\ Waits(c)
      /\ \A d \in Calls : d # c => HandlersKept(d)
      /\ NoticesKept
  BY <1>1, <1>3, Ran, Zenon
<1>5. /\ stores' \in [Calls -> Seq([ec : Codes, unconfirmed : Seq(Nat)])]
      /\ confirms' \in [Calls -> Seq(Codes)]
      /\ \A d \in Calls : d # c => stores'[d] = stores[d] /\ confirms'[d] = confirms[d]
      /\ c \in resubmitted => /\ stores'[c] = stores[c]
                              /\ code = "success" => confirms'[c] = confirms[c]
                              /\ code # "success" /\ confirms[c] = <<>> => Len(confirms'[c]) = 1
      /\ c \notin resubmitted => /\ confirms'[c] = confirms[c]
                                 /\ stores[c] = <<>> => /\ Len(stores'[c]) = 1
                                                        /\ stores'[c][1].ec = code
  BY <1>1, <1>2, HandledStore, Zenon
<1>6. /\ validator' \in [Calls -> [input : Nat, unconfirmed : Seq(Nat),
                                   last_depth : Nat, parent_depth : Nat]]
      /\ validator'[c].input = 1 /\ \A d \in Calls : d # c => validator'[d] = validator[d]
  <2>1. Fresh \in [input : Nat, unconfirmed : Seq(Nat), last_depth : Nat, parent_depth : Nat]
        /\ Fresh.input = 1
    BY DEF Fresh
  <2> QED BY <1>1, <2>1 DEF TypeOK
<1>7. /\ c \in asked /\ ~Pooled(c) /\ c \notin evicted /\ confirms[c] = <<>>
      /\ \/ c \in resubmitted /\ Accepted(c)
         \/ c \notin resubmitted /\ stores[c] = <<>>
      /\ ~Flying(c)'
  BY <1>1, <1>3, <1>4, Zenon DEF CallInv, PlaceInv, Flying
<1>8. /\ pool' \in Seq(Calls) /\ Len(pool') <= Capacity /\ evicted' \subseteq Calls /\ Unique'
      /\ Pooled(c)' <=> code = "success"
      /\ c \notin evicted'
      /\ \A d \in Calls : d # c =>
            \/ (Pooled(d)' <=> Pooled(d)) /\ (d \in evicted' <=> d \in evicted)
            \/ Pooled(d) /\ ~Pooled(d)' /\ d \in evicted'
  <2>1. CASE code = "success"
    <3>1. PushBack(c)
      BY <1>1, <2>1, Zenon
    <3>2. /\ pool' \in Seq(Calls) /\ Len(pool') <= Capacity /\ Pooled(c)'
          /\ Unique /\ ~tx_exists(Tx[c]) => Unique'
          /\ \/ evicted' = evicted /\ \A d \in Calls : d # c => (Pooled(d)' <=> Pooled(d))
             \/ \E e \in Calls : /\ Pooled(e) /\ evicted' = evicted \cup {e}
                                 /\ Unique /\ e # c => ~Pooled(e)'
                                 /\ \A d \in Calls : d # c /\ d # e => (Pooled(d)' <=> Pooled(d))
      BY <3>1, PushedBack, Zenon
    <3>3. Unique' /\ evicted \subseteq Calls
      BY <1>2, <2>1, <3>2, Zenon DEF TypeOK
    <3>4. CASE evicted' = evicted /\ \A d \in Calls : d # c => (Pooled(d)' <=> Pooled(d))
      BY <1>7, <2>1, <3>2, <3>3, <3>4, Zenon
    <3>5. ASSUME NEW e \in Calls, Pooled(e), evicted' = evicted \cup {e},
                 e # c => ~Pooled(e)',
                 \A d \in Calls : d # c /\ d # e => (Pooled(d)' <=> Pooled(d))
          PROVE  /\ evicted' \subseteq Calls /\ c \notin evicted'
                 /\ \A d \in Calls : d # c =>
                       \/ (Pooled(d)' <=> Pooled(d)) /\ (d \in evicted' <=> d \in evicted)
                       \/ Pooled(d) /\ ~Pooled(d)' /\ d \in evicted'
      <4>1. e # c
        BY <1>7, <3>5, Zenon
      <4> QED BY <1>7, <3>3, <3>5, <4>1, Zenon
    <3> QED BY <2>1, <3>2, <3>3, <3>4, <3>5, Zenon
  <2>2. CASE code # "success"
    <3>1. UNCHANGED pool /\ UNCHANGED evicted
      BY <1>1, <2>2, Zenon
    <3>2. Unique' /\ \A d : Pooled(d)' <=> Pooled(d)
      BY <3>1, SamePool, Zenon
    <3> QED BY <1>7, <2>2, <3>1, <3>2, Zenon DEF TypeOK
  <2> QED BY <2>1, <2>2
<1>9. ASSUME NEW d \in Calls, d # c PROVE CallInv(d)'
  BY <1>1, <1>4, <1>5, <1>6, <1>8, <1>9, DelegatedOthers, Zenon
<1>10. CallInv(c)'
  <2>1. PlaceInv(c)'
    <3>1. CASE c \in resubmitted
      <4>1. Accepted(c)' /\ c \in asked' /\ c \in resubmitted'
        BY <1>1, <1>5, <1>7, <3>1, Zenon DEF Accepted
      <4>2. \/ Pooled(c)' /\ confirms'[c] = <<>>
            \/ ~Pooled(c)' /\ Len(confirms'[c]) = 1
        BY <1>5, <1>7, <1>8, <3>1, Zenon
      <4> QED BY <1>7, <1>8, <4>1, <4>2, Zenon DEF PlaceInv
    <3>2. CASE c \notin resubmitted
      <4>1. /\ confirms'[c] = <<>> /\ c \in asked' /\ c \notin resubmitted'
            /\ Len(stores'[c]) = 1 /\ stores'[c][1].ec = code
        BY <1>1, <1>5, <1>7, <3>2, Zenon
      <4>2. \/ Pooled(c)' /\ Accepted(c)'
            \/ ~Pooled(c)' /\ Refused(c)'
        BY <1>8, <4>1, Zenon DEF Accepted, Refused
      <4> QED BY <1>7, <1>8, <4>1, <4>2, Zenon DEF PlaceInv
    <3> QED BY <3>1, <3>2
  <2>2. StepInv(c)'
    BY <1>4, Zenon DEF StepInv
  <2>3. \A step \in Reads : ~Stage(c, step)'
    <3>1. "nothing" \notin Reads
      BY DEF Reads
    <3>2. \A step : ~OnStrand(c, step)'
      BY <1>4, Zenon DEF OnStrand, Waits
    <3> QED BY <1>1, <3>1, <3>2, Zenon DEF Stage
  <2>4. Accepted(c)' => Sane(c) /\ \A n \in 1..Len(Inputs[Tx[c]]) : Good(c, n)
    <3>1. CASE c \in resubmitted
      BY <1>3, <1>7, <3>1, Zenon DEF CallInv, ValidInv
    <3>2. CASE c \notin resubmitted
      BY <1>2, <1>5, <1>7, <3>2, Zenon DEF Accepted
    <3> QED BY <3>1, <3>2
  <2>5. ValidInv(c)'
    <3>1. "spend" \in Reads /\ 1..0 = {} /\ 1 - 1 = 0
      BY DEF Reads
    <3>2. Sane(c) => 1 \in 1..Len(Inputs[Tx[c]])
      <4>1. Tx[c] \in Txs
        BY PoolAssumption
      <4> QED BY <4>1, TxAssumption, LenProperties DEF Sane
    <3>3. /\ Sane(c)' <=> Sane(c)
          /\ \A n : Good(c, n)' <=> Good(c, n)
      BY Zenon DEF Sane, Good
    <3>4. Sane(c)' => validator'[c].input \in 1..Len(Inputs[Tx[c]])
      BY <1>6, <3>2, <3>3, Zenon
    <3>5. \A n \in 1..validator'[c].input - 1 : Good(c, n)'
      BY <1>6, <3>1
    <3>6. Accepted(c)' => Sane(c)' /\ \A n \in 1..Len(Inputs[Tx[c]]) : Good(c, n)'
      BY <2>4, <3>3, Zenon
    <3> QED BY <2>3, <3>1, <3>4, <3>5, <3>6, Zenon DEF ValidInv
  <2> QED BY <2>1, <2>2, <2>5 DEF CallInv
<1>11. TypeOK'
  BY <1>1, <1>4, <1>5, <1>6, <1>8, Zenon DEF TypeOK
<1> QED BY <1>1, <1>4, <1>8, <1>9, <1>10, <1>11, SubscriptionKept, Zenon

-----------------------------------------------------------------------------
(* The handlers of a validation.                                           *)

Validators == [input : Nat, unconfirmed : Seq(Nat), last_depth : Nat, parent_depth : Nat]

\* The handler of a call that runs.
Runs(c, step) ==
    /\ strand # <<>> /\ strand[1].step # "reorganize" /\ strand[1].call = c /\ Head(strand) = strand[1]
    /\ asks[c] = "nothing" /\ validator[c] \in Validators
    /\ step \in Reads => /\ strand[1].depth \in Nat /\ Sane(c)
                         /\ validator[c].input \in 1..Len(Inputs[Tx[c]])
                         /\ \A n \in 1..validator[c].input - 1 : Good(c, n)
    /\ step = "spend" => Good(c, validator[c].input)

\* A handler that runs is that of one call, which waits for it.
LEMMA RunsCall ==
  ASSUME PoolInv, NEW step \in {"do_store"} \cup Reads, Running(step)
  PROVE  \E c \in Calls : c = Head(strand).call /\ Runs(c, step)
<1> USE DEF PoolInv
<1>1. strand # <<>> /\ Head(strand).step = step /\ strand \in Seq(Jobs)
  BY DEF Running, TypeOK
<1>2. Head(strand) = strand[1] /\ strand[1] \in Jobs /\ 1 \in 1..Len(strand)
  BY <1>1, TailElements
<1>3. "reorganize" \notin Reads /\ "spend" \in Reads /\ step # "reorganize"
  BY DEF Reads
<1>4. strand[1].call \in Calls /\ (step \in Reads => strand[1].depth \in Nat)
  BY <1>1, <1>2, <1>3, JobFacts, Zenon
<1>5. PICK c \in Calls : c = strand[1].call
  BY <1>4
<1>6. CallInv(c) /\ validator[c] \in Validators
  BY DEF TypeOK, Validators
<1>7. Owned(1, c) /\ Waits(c) /\ OnStrand(c, step)
  BY <1>1, <1>2, <1>3, <1>5, Zenon DEF Owned, Waits, OnStrand
<1>8. asks[c] = "nothing"
  BY <1>6, <1>7, Zenon DEF CallInv, StepInv
<1>9. ASSUME step \in Reads
      PROVE  /\ Sane(c) /\ validator[c].input \in 1..Len(Inputs[Tx[c]])
             /\ \A n \in 1..validator[c].input - 1 : Good(c, n)
  BY <1>6, <1>7, <1>9, Zenon DEF CallInv, ValidInv, Stage
<1>10. ASSUME step = "spend" PROVE Good(c, validator[c].input)
  BY <1>6, <1>7, <1>10, Zenon DEF CallInv, ValidInv, Stage
<1>11. /\ strand # <<>> /\ strand[1].step # "reorganize" /\ strand[1].call = c
       /\ Head(strand) = strand[1]
  BY <1>1, <1>2, <1>3, <1>5, Zenon
<1>12. step \in Reads => /\ strand[1].depth \in Nat /\ Sane(c)
                         /\ validator[c].input \in 1..Len(Inputs[Tx[c]])
                         /\ \A n \in 1..validator[c].input - 1 : Good(c, n)
  BY <1>4, <1>9, Zenon
<1>13. Runs(c, step)
  BY <1>6, <1>8, <1>10, <1>11, <1>12 DEF Runs
<1> QED BY <1>2, <1>5, <1>13, Zenon

\* A validation is refused.
LEMMA RefuseInv ==
  ASSUME PoolInv, NEW c \in Calls, NEW step, Runs(c, step),
         NEW ec \in Codes \ {"success"}, NEW u \in Seq(Nat), Finish(c, ec, u)
  PROVE  PoolInv'
BY FinishInv, Zenon DEF Runs

\* do_store keeps the invariant.
LEMMA DoStoreInv == ASSUME PoolInv, DoStore PROVE PoolInv'
<1>1. PICK c \in Calls : c = Head(strand).call /\ Runs(c, "do_store")
  BY RunsCall, Zenon DEF DoStore
<1>2. IF BasicChecks(Tx[c]) # "success" THEN Finish(c, BasicChecks(Tx[c]), <<>>)
      ELSE Ask(c, "duplicate", Fresh)
  BY <1>1 DEF DoStore
<1>3. /\ BasicChecks(Tx[c]) \in Codes
      /\ BasicChecks(Tx[c]) = "success" => Sane(c)
  BY DEF BasicChecks, check_transaction, Codes, Sane
<1>4. CASE BasicChecks(Tx[c]) # "success"
  <2>1. <<>> \in Seq(Nat)
    OBVIOUS
  <2> QED BY <1>1, <1>2, <1>3, <1>4, <2>1, RefuseInv, Zenon
<1>5. CASE BasicChecks(Tx[c]) = "success"
  <2>1. Fresh \in Validators /\ Fresh.input = 1 /\ 1..Fresh.input - 1 = {}
    BY DEF Fresh, Validators
  <2>2. "duplicate" \in Reads /\ "duplicate" # "spend"
    BY DEF Reads
  <2>3. Fresh.input \in 1..Len(Inputs[Tx[c]])
    <3>1. Tx[c] \in Txs
      BY PoolAssumption
    <3> QED BY <1>3, <1>5, <2>1, <3>1, TxAssumption, LenProperties DEF Sane
  <2>4. \A n \in 1..Fresh.input - 1 : Good(c, n)
    BY <2>1
  <2>5. Ask(c, "duplicate", Fresh)
    BY <1>2, <1>5, Zenon
  <2>6. strand # <<>> /\ strand[1].step # "reorganize" /\ strand[1].call = c
    BY <1>1, Zenon DEF Runs
  <2> QED BY <1>3, <1>5, <2>1, <2>2, <2>3, <2>4, <2>5, <2>6, AskInv, Zenon DEF Validators
<1> QED BY <1>4, <1>5

\* The next question about the same input.
LEMMA AskSameInput ==
  ASSUME PoolInv, NEW c \in Calls, NEW step \in Reads, Runs(c, step),
         NEW q \in Reads, NEW v \in Validators, v.input = validator[c].input, Ask(c, q, v),
         q = "spend" => Good(c, v.input)
  PROVE  PoolInv'
<1>1. /\ strand # <<>> /\ strand[1].step # "reorganize" /\ strand[1].call = c /\ Sane(c)
      /\ v.input \in 1..Len(Inputs[Tx[c]]) /\ \A n \in 1..v.input - 1 : Good(c, n)
  BY Zenon DEF Runs
<1> QED BY <1>1, AskInv, Zenon DEF Validators

\* handle_duplicate_check keeps the invariant.
LEMMA HandleDuplicateCheckInv == ASSUME PoolInv, HandleDuplicateCheck PROVE PoolInv'
<1>1. "duplicate" \in Reads /\ "last_depth" \in Reads /\ "last_depth" # "spend"
  BY DEF Reads
<1>2. PICK c \in Calls : c = Head(strand).call /\ Runs(c, "duplicate")
  BY <1>1, RunsCall, Zenon DEF HandleDuplicateCheck
<1>3. \/ Finish(c, "duplicate", <<>>)
      \/ Finish(c, "double_spend", <<>>)
      \/ Ask(c, "last_depth", validator[c])
  BY <1>2, Zenon DEF HandleDuplicateCheck
<1>4. {"duplicate", "double_spend"} \subseteq Codes \ {"success"} /\ <<>> \in Seq(Nat)
  BY DEF Codes
<1>5. CASE Finish(c, "duplicate", <<>>)
  BY <1>2, <1>4, <1>5, RefuseInv, ZenonT(30)
<1>6. CASE Finish(c, "double_spend", <<>>)
  BY <1>2, <1>4, <1>6, RefuseInv, ZenonT(30)
<1>7. CASE Ask(c, "last_depth", validator[c])
  <2>1. validator[c] \in Validators
    BY <1>2 DEF Runs
  <2> QED BY <1>1, <1>2, <1>7, <2>1, AskSameInput, Zenon
<1> QED BY <1>3, <1>5, <1>6, <1>7

\* set_last_depth keeps the invariant.
LEMMA SetLastDepthInv == ASSUME PoolInv, SetLastDepth PROVE PoolInv'
<1>1. "last_depth" \in Reads /\ "index" \in Reads /\ "index" # "spend"
  BY DEF Reads
<1>2. PICK c \in Calls : c = Head(strand).call /\ Runs(c, "last_depth")
  BY <1>1, RunsCall, Zenon DEF SetLastDepth
<1> DEFINE v == [validator[c] EXCEPT !.last_depth = Head(strand).depth]
<1>3. Ask(c, "index", v)
  BY <1>2 DEF SetLastDepth
<1>4. v \in Validators /\ v.input = validator[c].input
  <2>1. validator[c] \in Validators /\ Head(strand).depth \in Nat
    BY <1>1, <1>2, Zenon DEF Runs
  <2> QED BY <2>1, ZenonT(30) DEF Validators
<1> HIDE DEF v
<1> QED BY <1>1, <1>2, <1>3, <1>4, AskSameInput, Zenon

\* An input that connects spends an output that is there, and is not bad itself.
LEMMA Connected ==
  ASSUME NEW c, NEW v, NEW depth, connect_input(c, v, depth)
  PROVE  Good(c, v.input)
BY Zenon DEF connect_input, Good

\* previous_tx_index keeps the invariant.
LEMMA PreviousTxIndexInv == ASSUME PoolInv, PreviousTxIndex PROVE PoolInv'
<1>1. "index" \in Reads /\ "previous" \in Reads /\ "spend" \in Reads /\ "previous" # "spend"
  BY DEF Reads
<1>2. PICK c \in Calls : c = Head(strand).call /\ Runs(c, "index")
  BY <1>1, RunsCall, Zenon DEF PreviousTxIndex
<1> DEFINE v == validator[c]
           w == [v EXCEPT !.parent_depth = Head(strand).depth]
           x == [v EXCEPT !.unconfirmed = Append(v.unconfirmed, v.input)]
<1>3. \/ Ask(c, "previous", w)
      \/ Finish(c, "input_not_found", <<v.input>>)
      \/ Finish(c, "validate_inputs_failed", <<>>)
      \/ connect_input(c, v, 0) /\ Ask(c, "spend", x)
  BY <1>2, Zenon DEF PreviousTxIndex
<1>4. v \in Validators /\ Head(strand).depth \in Nat
  BY <1>1, <1>2, Zenon DEF Runs
<1>5. w \in Validators /\ w.input = v.input
  BY <1>4, ZenonT(30) DEF Validators
<1>6. x \in Validators /\ x.input = v.input
  <2>1. v.unconfirmed \in Seq(Nat) /\ v.input \in Nat
    BY <1>4 DEF Validators
  <2>2. Append(v.unconfirmed, v.input) \in Seq(Nat)
    BY <2>1
  <2> QED BY <1>4, <2>2, ZenonT(30) DEF Validators
<1>7. /\ {"input_not_found", "validate_inputs_failed"} \subseteq Codes \ {"success"}
      /\ <<>> \in Seq(Nat) /\ <<v.input>> \in Seq(Nat)
  BY <1>4 DEF Codes, Validators
<1> HIDE DEF w, x
<1>8. CASE Ask(c, "previous", w)
  BY <1>1, <1>2, <1>5, <1>8, AskSameInput, Zenon
<1>9. CASE Finish(c, "input_not_found", <<v.input>>)
  BY <1>2, <1>7, <1>9, RefuseInv, ZenonT(30)
<1>10. CASE Finish(c, "validate_inputs_failed", <<>>)
  BY <1>2, <1>7, <1>10, RefuseInv, ZenonT(30)
<1>11. CASE connect_input(c, v, 0) /\ Ask(c, "spend", x)
  <2>1. Good(c, x.input)
    BY <1>6, <1>11, Connected, Zenon
  <2> QED BY <1>1, <1>2, <1>6, <1>11, <2>1, AskSameInput, Zenon
<1> QED BY <1>3, <1>8, <1>9, <1>10, <1>11

\* handle_previous_tx keeps the invariant.
LEMMA HandlePreviousTxInv == ASSUME PoolInv, HandlePreviousTx PROVE PoolInv'
<1>1. "previous" \in Reads /\ "spend" \in Reads
  BY DEF Reads
<1>2. PICK c \in Calls : c = Head(strand).call /\ Runs(c, "previous")
  BY <1>1, RunsCall, Zenon DEF HandlePreviousTx
<1> DEFINE v == validator[c]
<1>3. \/ Finish(c, "input_not_found", <<v.input>>)
      \/ Finish(c, "validate_inputs_failed", <<>>)
      \/ connect_input(c, v, v.parent_depth) /\ Ask(c, "spend", v)
  BY <1>2 DEF HandlePreviousTx
<1>4. v \in Validators
  BY <1>2 DEF Runs
<1>5. /\ {"input_not_found", "validate_inputs_failed"} \subseteq Codes \ {"success"}
      /\ <<>> \in Seq(Nat) /\ <<v.input>> \in Seq(Nat)
  BY <1>4 DEF Codes, Validators
<1>6. CASE Finish(c, "input_not_found", <<v.input>>)
  BY <1>2, <1>5, <1>6, RefuseInv, ZenonT(30)
<1>7. CASE Finish(c, "validate_inputs_failed", <<>>)
  BY <1>2, <1>5, <1>7, RefuseInv, ZenonT(30)
<1>8. CASE connect_input(c, v, v.parent_depth) /\ Ask(c, "spend", v)
  <2>1. Good(c, v.input)
    BY <1>8, Connected, Zenon
  <2> QED BY <1>1, <1>2, <1>4, <1>8, <2>1, AskSameInput, Zenon
<1> QED BY <1>3, <1>6, <1>7, <1>8

\* check_double_spend keeps the invariant.
LEMMA CheckDoubleSpendInv == ASSUME PoolInv, CheckDoubleSpend PROVE PoolInv'
<1>1. "spend" \in Reads /\ "index" \in Reads /\ "index" # "spend"
  BY DEF Reads
<1>2. PICK c \in Calls : c = Head(strand).call /\ Runs(c, "spend")
  BY <1>1, RunsCall, Zenon DEF CheckDoubleSpend
<1> DEFINE v == validator[c]
           w == [v EXCEPT !.input = v.input + 1]
<1>3. \/ Finish(c, "double_spend", <<>>)
      \/ v.input = Len(Inputs[Tx[c]]) /\ Finish(c, "success", v.unconfirmed)
      \/ v.input # Len(Inputs[Tx[c]]) /\ Ask(c, "index", w)
  BY <1>2, Zenon DEF CheckDoubleSpend
<1>4. /\ v \in Validators /\ v.input \in 1..Len(Inputs[Tx[c]]) /\ Sane(c)
      /\ strand # <<>> /\ strand[1].step # "reorganize" /\ strand[1].call = c /\ asks[c] = "nothing"
  BY <1>1, <1>2, Zenon DEF Runs
<1>5. /\ \A n \in 1..v.input - 1 : Good(c, n)
      /\ Good(c, v.input)
  BY <1>1, <1>2, Zenon DEF Runs
<1>6. v.input \in Nat /\ v.unconfirmed \in Seq(Nat) /\ w \in Validators /\ w.input = v.input + 1
  <2>1. v.input \in Nat /\ v.unconfirmed \in Seq(Nat)
    BY <1>4, Zenon DEF Validators
  <2>2. v.input + 1 \in Nat
    BY <2>1
  <2> QED BY <1>4, <2>1, <2>2, ZenonT(30) DEF Validators
<1>7. Len(Inputs[Tx[c]]) \in Nat
  <2>1. Tx[c] \in Txs
    BY PoolAssumption
  <2> QED BY <2>1, TxAssumption, LenProperties
<1>8. \A n \in 1..v.input : Good(c, n)
  <2>1. \A n \in 1..v.input : n \in 1..v.input - 1 \/ n = v.input
    BY <1>6
  <2> QED BY <1>5, <2>1, Zenon
<1> HIDE DEF w
<1>9. CASE Finish(c, "double_spend", <<>>)
  <2>1. "double_spend" \in Codes \ {"success"} /\ <<>> \in Seq(Nat)
    BY DEF Codes
  <2> QED BY <1>2, <1>9, <2>1, RefuseInv, Zenon
<1>10. CASE v.input = Len(Inputs[Tx[c]]) /\ Finish(c, "success", v.unconfirmed)
  <2>1. "success" \in Codes /\ \A n \in 1..Len(Inputs[Tx[c]]) : Good(c, n)
    BY <1>8, <1>10 DEF Codes
  <2> QED BY <1>4, <1>6, <1>10, <2>1, FinishInv, Zenon
<1>11. CASE v.input # Len(Inputs[Tx[c]]) /\ Ask(c, "index", w)
  <2>1. w.input \in 1..Len(Inputs[Tx[c]]) /\ w.input - 1 = v.input
    <3>1. PICK a \in Nat : a = v.input
      BY <1>6, Zenon
    <3>2. PICK l \in Nat : l = Len(Inputs[Tx[c]])
      BY <1>7, Zenon
    <3>3. a \in 1..l /\ a # l
      BY <1>4, <1>11, <3>1, <3>2, Zenon
    <3>4. a + 1 \in 1..l /\ (a + 1) - 1 = a
      BY <3>3
    <3> QED BY <1>6, <3>1, <3>2, <3>4, Zenon
  <2>2. \A n \in 1..w.input - 1 : Good(c, n)
    BY <1>8, <2>1, Zenon
  <2> QED BY <1>1, <1>4, <1>6, <1>11, <2>1, <2>2, AskInv, Zenon DEF Validators
<1> QED BY <1>3, <1>9, <1>10, <1>11

-----------------------------------------------------------------------------
(* Changes of the main chain.                                              *)

\* circular_buffer::erase.
LEMMA RemovedAt ==
  ASSUME NEW S, NEW s \in Seq(S), NEW i \in 1..Len(s)
  PROVE  /\ RemoveAt(s, i) \in Seq(S) /\ Len(s) \in Nat /\ Len(RemoveAt(s, i)) = Len(s) - 1
         /\ \A k \in 1..Len(s) - 1 :
               /\ k < i => RemoveAt(s, i)[k] = s[k] /\ k \in 1..Len(s)
               /\ ~(k < i) => RemoveAt(s, i)[k] = s[k + 1] /\ k + 1 \in 1..Len(s)
<1> DEFINE a == SubSeq(s, 1, i - 1)
           b == SubSeq(s, i + 1, Len(s))
<1>1. Len(s) \in Nat /\ i \in Nat
  BY LenProperties
<1>2. a \in Seq(S) /\ Len(a) = i - 1 /\ \A k \in 1..i - 1 : a[k] = s[k]
  <2>1. \A k \in 1..i - 1 : k \in 1..Len(s)
    BY <1>1
  <2>2. a = [k \in 1..i - 1 |-> s[k]] /\ i - 1 \in Nat
    BY <1>1
  <2>3. \A k \in 1..i - 1 : s[k] \in S
    BY <2>1, ElementOfSeq
  <2> QED BY <2>2, <2>3
<1>3. b \in Seq(S) /\ Len(b) = Len(s) - i /\ \A k \in 1..Len(s) - i : b[k] = s[i + k]
  <2>1. \A k \in 1..Len(s) - i : i + k \in 1..Len(s)
    BY <1>1
  <2>2. b = [k \in 1..Len(s) - i |-> s[i + k]] /\ Len(s) - i \in Nat
    BY <1>1
  <2>3. \A k \in 1..Len(s) - i : s[i + k] \in S
    BY <2>1, ElementOfSeq
  <2> QED BY <2>2, <2>3
<1> HIDE DEF a, b
<1>4. /\ a \o b \in Seq(S) /\ Len(a \o b) = Len(a) + Len(b)
      /\ \A k \in 1..Len(a) + Len(b) : (a \o b)[k] = IF k <= Len(a) THEN a[k] ELSE b[k - Len(a)]
  BY <1>2, <1>3, ConcatProperties, Zenon
<1>5. RemoveAt(s, i) = a \o b /\ Len(a) + Len(b) = Len(s) - 1
  <2>1. RemoveAt(s, i) = a \o b
    BY DEF RemoveAt, a, b
  <2>2. Len(a) + Len(b) = Len(s) - 1
    BY <1>1, <1>2, <1>3
  <2> QED BY <2>1, <2>2
<1>6. ASSUME NEW k \in 1..Len(s) - 1, k < i PROVE (a \o b)[k] = s[k] /\ k \in 1..Len(s)
  <2>1. k <= Len(a) /\ k \in 1..i - 1 /\ k \in 1..Len(s) /\ k \in 1..Len(a) + Len(b)
    BY <1>1, <1>2, <1>5, <1>6
  <2> QED BY <1>2, <1>4, <2>1, Zenon
<1>7. ASSUME NEW k \in 1..Len(s) - 1, ~(k < i) PROVE (a \o b)[k] = s[k + 1] /\ k + 1 \in 1..Len(s)
  <2>1. /\ ~(k <= Len(a)) /\ k - Len(a) \in 1..Len(s) - i /\ i + (k - Len(a)) = k + 1
        /\ k + 1 \in 1..Len(s) /\ k \in 1..Len(a) + Len(b)
    BY <1>1, <1>2, <1>5, <1>7, SMTT(20)
  <2> QED BY <1>3, <1>4, <2>1, Zenon
<1> QED BY <1>1, <1>4, <1>5, <1>6, <1>7, Zenon

\* An entry of the pool is taken out.
LEMMA TakenOut ==
  ASSUME TypeOK, Unique, NEW i \in 1..Len(pool), NEW c, c = pool[i], pool' = RemoveAt(pool, i)
  PROVE  /\ pool' \in Seq(Calls) /\ Len(pool') <= Capacity /\ Unique' /\ ~Pooled(c)'
         /\ \A d : d # c => (Pooled(d)' <=> Pooled(d))
<1>1. pool \in Seq(Calls) /\ Len(pool) <= Capacity /\ Capacity \in Nat
  BY PoolAssumption DEF TypeOK
<1>2. /\ pool' \in Seq(Calls) /\ Len(pool) \in Nat /\ Len(pool') = Len(pool) - 1
      /\ \A k \in 1..Len(pool') :
            /\ k < i => pool'[k] = pool[k] /\ k \in 1..Len(pool)
            /\ ~(k < i) => pool'[k] = pool[k + 1] /\ k + 1 \in 1..Len(pool)
  <2>1. /\ pool' \in Seq(Calls) /\ Len(pool) \in Nat /\ Len(pool') = Len(pool) - 1
        /\ \A k \in 1..Len(pool) - 1 :
              /\ k < i => pool'[k] = pool[k] /\ k \in 1..Len(pool)
              /\ ~(k < i) => pool'[k] = pool[k + 1] /\ k + 1 \in 1..Len(pool)
    BY <1>1, RemovedAt, ZenonT(30)
  <2> QED BY <2>1, Zenon
<1> DEFINE from(k) == IF k < i THEN k ELSE k + 1
<1>3. ASSUME NEW k \in 1..Len(pool')
      PROVE  from(k) \in 1..Len(pool) /\ from(k) # i /\ pool'[k] = pool[from(k)]
  BY <1>2, SMTT(30)
<1>4. \A k, l \in 1..Len(pool') : from(k) = from(l) => k = l
  BY <1>2
<1>5. ASSUME NEW l \in 1..Len(pool), l # i PROVE \E k \in 1..Len(pool') : from(k) = l
  <2>1. CASE l < i
    <3>1. l \in 1..Len(pool') /\ from(l) = l
      BY <1>2, <2>1
    <3> QED BY <3>1
  <2>2. CASE ~(l < i)
    <3>1. l - 1 \in 1..Len(pool') /\ from(l - 1) = l
      BY <1>2, <1>5, <2>2
    <3> QED BY <3>1
  <2> QED BY <2>1, <2>2
<1> HIDE DEF from
<1>6. Unique'
  <2> SUFFICES ASSUME NEW k \in 1..Len(pool'), NEW l \in 1..Len(pool'), Tx[pool'[k]] = Tx[pool'[l]]
               PROVE  k = l
    BY Zenon DEF Unique
  <2>1. from(k) \in 1..Len(pool) /\ from(l) \in 1..Len(pool) /\ Tx[pool[from(k)]] = Tx[pool[from(l)]]
    BY <1>3, Zenon
  <2>2. from(k) = from(l)
    BY <2>1, Zenon DEF Unique
  <2> QED BY <1>4, <2>2, Zenon
<1>7. ~Pooled(c)'
  <2>1. ASSUME NEW k \in 1..Len(pool'), pool'[k] = c PROVE FALSE
    <3>1. from(k) \in 1..Len(pool) /\ from(k) # i /\ Tx[pool[from(k)]] = Tx[pool[i]]
      BY <1>3, <2>1, ZenonT(30)
    <3> QED BY <3>1, Zenon DEF Unique
  <2> QED BY <2>1, Zenon DEF Pooled
<1>8. ASSUME NEW d, d # c PROVE Pooled(d)' <=> Pooled(d)
  <2>1. ASSUME NEW l \in 1..Len(pool), pool[l] = d PROVE \E k \in 1..Len(pool') : pool'[k] = d
    <3>1. PICK k \in 1..Len(pool') : from(k) = l
      BY <1>5, <1>8, <2>1, Zenon
    <3> QED BY <1>3, <2>1, <3>1, ZenonT(30)
  <2>2. ASSUME NEW k \in 1..Len(pool'), pool'[k] = d PROVE \E l \in 1..Len(pool) : pool[l] = d
    BY <1>3, <2>2, Zenon
  <2> QED BY <2>1, <2>2, Zenon DEF Pooled
<1>9. Len(pool') <= Capacity
  BY <1>1, <1>2
<1> QED BY <1>2, <1>6, <1>7, <1>8, <1>9

\* The notice that is first on the strand loses a transaction.
LEMMA NoticeShrinks ==
  ASSUME strand \in Seq(Jobs), strand # <<>>, strand[1].step = "reorganize", NEW t,
         strand' = [strand EXCEPT ![1].new = @ \ {t}]
  PROVE  strand' \in Seq(Jobs) /\ NoticesKept /\ \A d : HandlersKept(d)
<1> DEFINE n == [strand[1] EXCEPT !.new = @ \ {t}]
<1>1. strand' = [strand EXCEPT ![1] = n]
  OBVIOUS
<1>2. strand[1] \in Jobs /\ 1 \in 1..Len(strand) /\ Len(strand) \in Nat
  BY TailElements
<1>3. n \in Jobs /\ n.step = "reorganize"
  BY <1>2, NoticeLess, Zenon
<1> HIDE DEF n
<1>4. /\ strand' \in Seq(Jobs) /\ Len(strand') = Len(strand) /\ strand'[1] = n
      /\ \A i \in 1..Len(strand) : i # 1 => strand'[i] = strand[i]
  <2>1. strand \in [1..Len(strand) -> Jobs]
    BY LenProperties
  <2>2. /\ strand' \in [1..Len(strand) -> Jobs] /\ strand'[1] = n
        /\ \A i \in 1..Len(strand) : i # 1 => strand'[i] = strand[i]
    BY <1>1, <1>2, <1>3, <2>1, ZenonT(30)
  <2>3. strand' \in Seq(Jobs) /\ Len(strand') = Len(strand)
    BY <1>2, <2>2
  <2> QED BY <2>2, <2>3
<1>5. \A i \in 1..Len(strand) : strand'[i].step = strand[i].step
  BY <1>3, <1>4, Zenon
<1>6. \A d : \A i \in 1..Len(strand) : Owned(i, d)' <=> Owned(i, d)
  BY <1>3, <1>4, Zenon DEF Owned
<1>7. ASSUME NEW d PROVE HandlersKept(d)
  BY <1>4, <1>5, <1>6, Zenon DEF HandlersKept, Waits, Once, OnStrand
<1>8. NoticesKept
  BY <1>4, <1>5, ZenonT(30) DEF NoticesKept, NoNotice, OneNotice, Notified
<1> QED BY <1>4, <1>7, <1>8

\* Taking a confirmed transaction out of the pool keeps the invariant.
LEMMA TakeoutConfirmedInv == ASSUME PoolInv, NEW t \in Txs, TakeoutConfirmed(t) PROVE PoolInv'
<1> USE DEF PoolInv
<1>1. /\ strand # <<>> /\ Head(strand).step = "reorganize"
      /\ strand' = [strand EXCEPT ![1].new = @ \ {t}]
      /\ UNCHANGED <<tip, validator, asks, resubmitted, registry, relays, asked, stores, evicted>>
  BY DEF TakeoutConfirmed, Running, chain, subscription
<1>2. strand \in Seq(Jobs) /\ confirms \in [Calls -> Seq(Codes)] /\ pool \in Seq(Calls)
  BY DEF TypeOK
<1>3. strand[1].step = "reorganize"
  BY <1>1, <1>2, TailElements
<1>4. strand' \in Seq(Jobs) /\ NoticesKept /\ \A d : HandlersKept(d)
  BY <1>1, <1>2, <1>3, NoticeShrinks, Zenon
<1>5. \/ UNCHANGED <<pool, confirms>>
      \/ \E i \in 1..Len(pool) : /\ pool' = RemoveAt(pool, i)
                                 /\ confirms' = [confirms EXCEPT ![pool[i]] = Append(@, "success")]
  <2>1. DOMAIN pool = 1..Len(pool)
    BY <1>2
  <2>2. \/ UNCHANGED <<pool, confirms>>
        \/ \E i \in DOMAIN pool : /\ pool' = RemoveAt(pool, i)
                                 /\ confirms' = [confirms EXCEPT ![pool[i]] = Append(@, "success")]
    BY Zenon DEF TakeoutConfirmed
  <2> QED BY <2>1, <2>2, Zenon
<1>6. CASE UNCHANGED <<pool, confirms>>
  <2>1. Unique' /\ \A d \in Calls : CallInv(d)'
    BY <1>1, <1>4, <1>6, CallsKept, Zenon
  <2>2. TypeOK'
    BY <1>1, <1>4, <1>6, Zenon DEF TypeOK
  <2> QED BY <1>1, <1>4, <2>1, <2>2, SubscriptionKept, Zenon
<1>7. ASSUME NEW i \in 1..Len(pool), pool' = RemoveAt(pool, i),
             confirms' = [confirms EXCEPT ![pool[i]] = Append(@, "success")]
      PROVE  PoolInv'
  <2>1. PICK c \in Calls : c = pool[i]
    BY <1>2, ElementOfSeq
  <2>2. /\ pool' \in Seq(Calls) /\ Len(pool') <= Capacity /\ Unique' /\ ~Pooled(c)'
        /\ \A d : d # c => (Pooled(d)' <=> Pooled(d))
    BY <1>7, <2>1, TakenOut, Zenon
  <2>3. CallInv(c) /\ Pooled(c)
    BY <2>1 DEF Pooled
  <2>4. c \in asked /\ ~Flying(c) /\ Accepted(c) /\ c \notin evicted /\ confirms[c] = <<>>
    BY <2>3, Zenon DEF CallInv, PlaceInv
  <2>5. confirms' = [confirms EXCEPT ![c] = Append(confirms[c], "success")]
        /\ Append(confirms[c], "success") \in Seq(Codes)
    <3>1. "success" \in Codes /\ confirms[c] \in Seq(Codes)
      BY <1>2 DEF Codes
    <3> QED BY <1>7, <2>1, <3>1, AppendElements, SMTT(30)
  <2>6. /\ confirms' \in [Calls -> Seq(Codes)] /\ confirms'[c] = Append(confirms[c], "success")
        /\ \A d \in Calls : d # c => confirms'[d] = confirms[d]
    BY <1>2, <2>5, Zenon
  <2>7. Len(confirms'[c]) = 1
    BY <2>4, <2>6
  <2>8. ASSUME NEW d \in Calls, d # c PROVE CallInv(d)'
    <3>1. Kept(d)
      BY <1>1, <2>2, <2>6, <2>8, Zenon DEF Kept
    <3> QED BY <1>4, <3>1, CallKept, Zenon
  <2>9. CallInv(c)'
    <3>1. /\ Flying(c)' <=> Flying(c)
          /\ Accepted(c)' <=> Accepted(c)
      BY <1>1, <1>4, Zenon DEF HandlersKept, Flying, Accepted
    <3>2. PlaceInv(c)'
      BY <1>1, <2>2, <2>4, <2>7, <3>1, ZenonT(30) DEF PlaceInv
    <3>3. StepInv(c)'
      BY <1>1, <1>4, <2>3, Zenon DEF CallInv, StepInv, HandlersKept
    <3>4. \A step \in Reads : Stage(c, step)' => Stage(c, step)
      BY <1>1, <1>4, Zenon DEF Stage, HandlersKept
    <3>5. "spend" \in Reads
      BY DEF Reads
    <3>6. ValidInv(c)'
      BY <1>1, <2>3, <3>1, <3>4, <3>5, ZenonT(30) DEF CallInv, ValidInv, Good, Sane
    <3> QED BY <3>2, <3>3, <3>6 DEF CallInv
  <2>10. TypeOK'
    BY <1>1, <1>4, <2>2, <2>6, Zenon DEF TypeOK
  <2> QED BY <1>1, <1>4, <2>2, <2>8, <2>9, <2>10, SubscriptionKept, Zenon
<1> QED BY <1>5, <1>6, <1>7, Zenon

\* The notice that is first on the strand has been dealt with: s is the rest.
NoticeGone(s) ==
    /\ s \in Seq(Jobs) /\ Len(s) \in Nat /\ 1 \in 1..Len(strand) /\ Notified(1)
    /\ \A i \in 1..Len(s) : s[i] = strand[i + 1] /\ i + 1 \in 1..Len(strand) /\ i + 1 # 1
    /\ \A i, k \in 1..Len(s) : i + 1 = k + 1 => i = k
    /\ \A i \in 1..Len(strand) : i = 1 \/ \E k \in 1..Len(s) : i = k + 1
    /\ OneNotice => \A i \in 1..Len(s) : s[i].step # "reorganize"

\* The notice that is done leaves the strand, and no other handler does.
LEMMA NoticeLeaves ==
  ASSUME strand \in Seq(Jobs), strand # <<>>, Head(strand).step = "reorganize"
  PROVE  NoticeGone(Tail(strand))
<1> DEFINE s == Tail(strand)
<1>1. /\ s \in Seq(Jobs) /\ Len(strand) \in Nat /\ Len(s) = Len(strand) - 1
      /\ \A i \in 1..Len(s) : s[i] = strand[i + 1] /\ i + 1 \in 1..Len(strand) /\ i + 1 # 1
      /\ 1 \in 1..Len(strand) /\ Head(strand) = strand[1]
      /\ \A i \in 1..Len(strand) : i = 1 \/ \E k \in 1..Len(s) : i = k + 1
  BY TailElements
<1> HIDE DEF s
<1>2. Len(s) \in Nat /\ \A i, k \in 1..Len(s) : i + 1 = k + 1 => i = k
  BY <1>1 DEF s
<1>3. Notified(1)
  BY <1>1, Zenon DEF Notified
<1>4. ASSUME OneNotice, NEW i \in 1..Len(s) PROVE s[i].step # "reorganize"
  <2>1. ~Notified(i + 1)
    BY <1>1, <1>3, <1>4, Zenon DEF OneNotice
  <2> QED BY <1>1, <2>1, Zenon DEF Notified
<1>5. NoticeGone(s)
  BY <1>1, <1>2, <1>3, <1>4 DEF NoticeGone
<1> QED BY <1>5 DEF s

\* The end of reorganize, a new subscription, keeps the invariant.
LEMMA TakeoutDoneInv == ASSUME PoolInv, TakeoutDone PROVE PoolInv'
<1> USE DEF PoolInv
<1>1. /\ strand # <<>> /\ Head(strand).step = "reorganize" /\ strand' = Tail(strand) /\ Resubscribe
      /\ UNCHANGED <<tip, pool, validator, asks, resubmitted, registry, asked, stores, confirms,
                     evicted>>
  BY DEF TakeoutDone, Running, chain, answers
<1>2. strand \in Seq(Jobs) /\ relays \in Seq(Notices)
  BY DEF TypeOK
<1>4. PICK t : t = Tail(strand) /\ NoticeGone(t)
  BY <1>1, <1>2, NoticeLeaves, Zenon
<1>5. strand' = t
  BY <1>1, <1>4, Zenon
<1>6. relays' \in Seq(Notices) /\ (NoSubscribe => OneSubscribe')
  BY <1>1, <1>2, Resubscribed, Zenon
<1>7. registry = 0 /\ NoSubscribe /\ OneNotice
  BY <1>4, Zenon DEF SubscriptionInv, NoNotice, NoticeGone
<1>8. SubscriptionInv'
  BY <1>1, <1>4, <1>5, <1>6, <1>7, Zenon DEF SubscriptionInv, NoNotice, Notified, NoticeGone
<1>9. ASSUME NEW d \in Calls PROVE HandlersKept(d)
  <2>1. \A i \in 1..Len(t) : Owned(i, d)' <=> Owned(i + 1, d)
    BY <1>4, <1>5, Zenon DEF Owned, NoticeGone
  <2>2. ~Owned(1, d)
    BY <1>4, Zenon DEF Owned, NoticeGone, Notified
  <2>3. \A i \in 1..Len(strand) : Owned(i, d) => \E k \in 1..Len(t) : i = k + 1 /\ Owned(k, d)'
    BY <1>4, <2>1, <2>2, ZenonT(30) DEF NoticeGone
  <2>4. Waits(d)' <=> Waits(d)
    BY <1>4, <1>5, <2>1, <2>3, Zenon DEF Waits, NoticeGone
  <2>5. /\ \A i \in 1..Len(strand') : i + 1 \in 1..Len(strand) /\ strand'[i] = strand[i + 1]
        /\ \A i, k \in 1..Len(strand') : i + 1 = k + 1 => i = k
        /\ \A i \in 1..Len(strand') : Owned(i, d)' => Owned(i + 1, d)
    BY <1>4, <1>5, <2>1, Zenon DEF NoticeGone
  <2>6. Once(d) => Once(d)'
    BY <2>5, Zenon DEF Once
  <2>7. \A step \in Reads : OnStrand(d, step)' => OnStrand(d, step)
    BY <2>5, Zenon DEF OnStrand
  <2> QED BY <2>4, <2>6, <2>7, Zenon DEF HandlersKept
<1>10. Unique' /\ \A d \in Calls : CallInv(d)'
  BY <1>1, <1>9, CallsKept, Zenon
<1>11. TypeOK'
  BY <1>1, <1>4, <1>5, <1>6, Zenon DEF TypeOK, NoticeGone
<1> QED BY <1>8, <1>10, <1>11

\* resubmit_all keeps the invariant.
LEMMA ResubmitAllInv == ASSUME PoolInv, ResubmitAll PROVE PoolInv'
<1> USE DEF PoolInv
<1>0. PICK n \in Nat : n = Len(pool) /\ DOMAIN pool = 1..n
  BY LenProperties DEF TypeOK
<1> DEFINE f == [i \in 1..n |-> [step |-> "do_store", call |-> pool[i]]]
<1>1. pool \in Seq(Calls) /\ strand \in Seq(Jobs) /\ relays \in Seq(Notices)
      /\ resubmitted \subseteq asked /\ asked \subseteq Calls
  BY Zenon DEF TypeOK
<1>2. /\ strand # <<>> /\ Head(strand).step = "reorganize" /\ Resubscribe /\ pool' = <<>>
      /\ UNCHANGED <<tip, validator, asks, registry, asked, stores, confirms, evicted>>
  BY DEF ResubmitAll, Running, chain, answers
<1>3. strand' = Tail(strand) \o f
  BY <1>0, Zenon DEF ResubmitAll
<1>4. \A c : c \in resubmitted' <=> c \in resubmitted \/ Pooled(c)
  <2>1. resubmitted' = resubmitted \cup {pool[i] : i \in 1..n}
    BY <1>0, Zenon DEF ResubmitAll, Range
  <2> QED BY <1>0, <2>1, Zenon DEF Pooled
<1>6. PICK s : s = Tail(strand) /\ NoticeGone(s)
  BY <1>1, <1>2, NoticeLeaves, Zenon
<1>5. s \in Seq(Jobs) /\ Len(s) \in Nat
  BY <1>6, Zenon DEF NoticeGone
<1>7. /\ f \in [1..n -> Jobs]
      /\ \A i \in 1..n : f[i].step = "do_store" /\ f[i].call = pool[i] /\ pool[i] \in Calls
  <2>1. \A i \in 1..n : pool[i] \in Calls
    BY <1>0, <1>1, ElementOfSeq
  <2> QED BY <2>1, StoreJob
<1> HIDE DEF f
<1>8. /\ strand' \in Seq(Jobs) /\ Len(strand') = Len(s) + n
      /\ \A i \in 1..Len(s) : strand'[i] = s[i]
      /\ \A i \in 1..n : strand'[Len(s) + i] = f[i]
  <2>1. strand' = s \o f
    BY <1>3, <1>6, Zenon
  <2>2. /\ s \o f \in Seq(Jobs) /\ Len(s) \in Nat /\ Len(s \o f) = Len(s) + n
        /\ \A i \in 1..Len(s) : (s \o f)[i] = s[i]
        /\ \A i \in 1..n : (s \o f)[Len(s) + i] = f[i]
    <3>1. f \in [1..n -> Jobs] /\ s \in Seq(Jobs) /\ n \in Nat
      BY <1>5, <1>7
    <3> QED BY <3>1, ConcatElements
  <2> QED BY <2>1, <2>2, Zenon
<1>9. /\ 1..Len(s) \subseteq 1..Len(strand')
      /\ \A i \in 1..n : Len(s) + i \in 1..Len(strand')
      /\ \A i \in 1..Len(strand') : i \in 1..Len(s) \/ \E k \in 1..n : i = Len(s) + k
  <2>1. ASSUME NEW i \in 1..Len(strand'), i \notin 1..Len(s) PROVE \E k \in 1..n : i = Len(s) + k
    <3>1. i - Len(s) \in 1..n /\ i = Len(s) + (i - Len(s))
      BY <1>5, <1>8, <2>1
    <3> QED BY <3>1
  <2>2. 1..Len(s) \subseteq 1..Len(strand') /\ \A i \in 1..n : Len(s) + i \in 1..Len(strand')
    BY <1>5, <1>8
  <2> QED BY <2>1, <2>2, Zenon
<1>10. relays' \in Seq(Notices) /\ (NoSubscribe => OneSubscribe')
  BY <1>1, <1>2, Resubscribed, Zenon
<1>11. registry = 0 /\ NoSubscribe /\ OneNotice
  BY <1>6, Zenon DEF SubscriptionInv, NoNotice, NoticeGone
<1>12. \A i \in 1..Len(strand') : strand'[i].step # "reorganize"
  <2>1. \A i \in 1..Len(s) : strand'[i].step # "reorganize"
    BY <1>6, <1>8, <1>11, Zenon DEF NoticeGone
  <2>2. \A i \in 1..n : strand'[Len(s) + i].step = "do_store"
    BY <1>7, <1>8, Zenon
  <2> QED BY <1>9, <2>1, <2>2, Zenon
<1>13. SubscriptionInv'
  BY <1>2, <1>10, <1>11, <1>12, Zenon DEF SubscriptionInv, NoNotice, Notified
<1>14. Unique' /\ \A d : ~Pooled(d)'
  BY <1>2 DEF Unique, Pooled
<1>15. ASSUME NEW d PROVE \A i \in 1..Len(s) : Owned(i, d)' <=> Owned(i + 1, d)
  <2>1. \A i \in 1..Len(s) : s[i] = strand[i + 1]
    BY <1>6, Zenon DEF NoticeGone
  <2>2. \A i \in 1..Len(s) : strand'[i] = strand[i + 1]
    BY <1>8, <2>1, Zenon
  <2> QED BY <2>2, Zenon DEF Owned
<1>16. ASSUME NEW d, NEW i \in 1..n
       PROVE  /\ Owned(Len(s) + i, d)' <=> pool[i] = d
              /\ strand'[Len(s) + i].step = "do_store"
  BY <1>7, <1>8, Zenon DEF Owned
<1>17. ASSUME NEW d
       PROVE  \A i \in 1..Len(strand) : Owned(i, d) => \E k \in 1..Len(s) : i = k + 1 /\ Owned(k, d)'
  <2>1. ~Owned(1, d)
    BY <1>6, Zenon DEF Owned, NoticeGone, Notified
  <2>2. \A i \in 1..Len(strand) : i = 1 \/ \E k \in 1..Len(s) : i = k + 1
    BY <1>6, Zenon DEF NoticeGone
  <2>3. \A i \in 1..Len(s) : Owned(i, d)' <=> Owned(i + 1, d)
    BY <1>15, Zenon
  <2> QED BY <2>1, <2>2, <2>3, Zenon
<1>18. "do_store" \notin Reads /\ "spend" \in Reads
  BY DEF Reads
<1>19. ASSUME NEW d \in Calls PROVE \A step \in Reads : OnStrand(d, step)' => OnStrand(d, step)
  <2>1. ASSUME NEW step \in Reads, NEW i \in 1..Len(strand'), Owned(i, d)', strand'[i].step = step
        PROVE  OnStrand(d, step)
    <3>1. i \in 1..Len(s)
      BY <1>9, <1>16, <1>18, <2>1, ZenonT(40)
    <3>2. i + 1 \in 1..Len(strand) /\ Owned(i + 1, d) /\ strand[i + 1].step = step
      BY <1>6, <1>8, <1>15, <2>1, <3>1, ZenonT(40) DEF NoticeGone
    <3> QED BY <3>2, Zenon DEF OnStrand
  <2> QED BY <2>1, Zenon DEF OnStrand
<1>20. ASSUME NEW d \in Calls, ~Pooled(d) PROVE CallInv(d)'
  <2>0. \A i \in 1..n : ~Owned(Len(s) + i, d)'
    BY <1>0, <1>16, <1>20, Zenon DEF Pooled
  <2>1. \A i \in 1..Len(strand') : Owned(i, d)' => i \in 1..Len(s) /\ Owned(i + 1, d)
    BY <1>9, <1>15, <2>0, Zenon
  <2>2. Waits(d)' <=> Waits(d)
    BY <1>6, <1>9, <1>17, <2>1, ZenonT(40) DEF Waits, NoticeGone
  <2>3. Once(d) => Once(d)'
    BY <1>6, <2>1, Zenon DEF Once, NoticeGone
  <2>4. HandlersKept(d)
    BY <1>19, <2>2, <2>3, Zenon DEF HandlersKept
  <2>5. Kept(d)
    BY <1>2, <1>4, <1>14, <1>20, Zenon DEF Kept
  <2> QED BY <2>4, <2>5, CallKept, Zenon
<1>21. ASSUME NEW d \in Calls, Pooled(d) PROVE CallInv(d)'
  <2>1. CallInv(d)
    OBVIOUS
  <2>2. d \in asked /\ ~Flying(d) /\ Accepted(d) /\ d \notin evicted /\ confirms[d] = <<>>
    BY <1>21, <2>1, Zenon DEF CallInv, PlaceInv
  <2>3. ~Waits(d) /\ asks[d] = "nothing"
    BY <2>2, Zenon DEF Flying
  <2>4. PICK k \in 1..n : pool[k] = d
    BY <1>0, <1>21, Zenon DEF Pooled
  <2>5. \A i \in 1..n : pool[i] = d => i = k
    BY <1>0, <2>4, Zenon DEF Unique
  <2>6. PICK m \in 1..Len(strand') : m = Len(s) + k
    BY <1>9, Zenon
  <2>7. \A i \in 1..Len(s) : ~Owned(i, d)'
    BY <1>6, <1>15, <2>3, Zenon DEF Waits, NoticeGone
  <2>8. ASSUME NEW i \in 1..Len(strand') PROVE Owned(i, d)' <=> i = m
    <3>1. Owned(Len(s) + k, d)' /\ \A l \in 1..n : Owned(Len(s) + l, d)' => l = k
      BY <1>16, <2>4, <2>5, Zenon
    <3> QED BY <1>9, <2>6, <2>7, <3>1, Zenon
  <2>9. Waits(d)' /\ Once(d)'
    BY <2>8, Zenon DEF Waits, Once
  <2>10. PlaceInv(d)'
    <3>1. Flying(d)' /\ Accepted(d)' /\ d \in resubmitted'
      BY <1>2, <1>4, <1>21, <2>2, <2>9, ZenonT(40) DEF Flying, Accepted
    <3> QED BY <1>2, <1>14, <2>2, <3>1, Zenon DEF PlaceInv
  <2>11. StepInv(d)'
    BY <1>2, <2>3, <2>9, Zenon DEF StepInv
  <2>12. \A step \in Reads : Stage(d, step)' => Stage(d, step)
    BY <1>2, <1>19, Zenon DEF Stage
  <2>13. Accepted(d)' <=> Accepted(d)
    BY <1>2, Zenon DEF Accepted
  <2>14. ValidInv(d)'
    BY <1>2, <1>18, <2>1, <2>12, <2>13, ZenonT(30) DEF CallInv, ValidInv, Good, Sane
  <2> QED BY <2>10, <2>11, <2>14 DEF CallInv
<1>22. TypeOK'
  <2>1. pool' \in Seq(Calls) /\ Len(pool') <= Capacity
    BY <1>2, PoolAssumption
  <2>2. resubmitted' \subseteq asked'
    <3>1. \A c : Pooled(c) => c \in Calls
      BY <1>0, <1>7, Zenon DEF Pooled
    <3>2. \A c \in Calls : Pooled(c) => c \in asked
      BY Zenon DEF CallInv, PlaceInv
    <3> QED BY <1>1, <1>2, <1>4, <3>1, <3>2, Zenon
  <2> QED BY <1>2, <1>8, <1>10, <2>1, <2>2, Zenon DEF TypeOK
<1> QED BY <1>13, <1>14, <1>20, <1>21, <1>22

-----------------------------------------------------------------------------
(* The invariant and what follows from it.                                 *)

\* A pool that starts satisfies the invariant.
LEMMA PoolInit == Init => PoolInv
<1> SUFFICES ASSUME Init PROVE PoolInv
  OBVIOUS
<1> USE DEF Init
<1>1. Len(pool) = 0 /\ Len(strand) = 0 /\ Len(relays) = 1 /\ 1..0 = {} /\ 1..1 = {1}
  OBVIOUS
<1>2. relays[1].step = "do_subscribe" /\ relays \in Seq(Notices)
  BY DEF Notices
<1>3. Fresh \in Validators /\ Fresh.input = 1 /\ 1 - 1 = 0
  BY DEF Fresh, Validators
<1>4. TypeOK
  <2>1. 0 <= Capacity
    BY PoolAssumption
  <2>2. stores \in [Calls -> Seq([ec : Codes, unconfirmed : Seq(Nat)])]
        /\ confirms \in [Calls -> Seq(Codes)]
    OBVIOUS
  <2>3. validator \in [Calls -> [input : Nat, unconfirmed : Seq(Nat),
                                 last_depth : Nat, parent_depth : Nat]]
    BY <1>3 DEF Validators
  <2>4. tip \in Blocks /\ pool \in Seq(Calls) /\ strand \in Seq(Jobs)
    BY TreeAssumption
  <2> QED BY <1>1, <1>2, <2>1, <2>2, <2>3, <2>4, Zenon DEF TypeOK
<1>5. ASSUME NEW c \in Calls PROVE CallInv(c)
  <2>1. ~Waits(c) /\ Once(c) /\ ~Flying(c) /\ ~Pooled(c) /\ asks[c] = "nothing"
        /\ \A step : ~OnStrand(c, step)
    BY <1>1 DEF Waits, Once, Flying, Pooled, OnStrand
  <2>2. stores[c] = <<>> /\ confirms[c] = <<>> /\ Len(stores[c]) # 1 /\ validator[c] = Fresh
    OBVIOUS
  <2>3. PlaceInv(c) /\ StepInv(c)
    BY <2>1, <2>2 DEF PlaceInv, StepInv
  <2>4. Sane(c) => 1 \in 1..Len(Inputs[Tx[c]])
    <3>1. Tx[c] \in Txs
      BY PoolAssumption
    <3> QED BY <3>1, TxAssumption, LenProperties DEF Sane
  <2>5. "nothing" \notin Reads /\ "spend" \in Reads
    BY DEF Reads
  <2>6. ~Accepted(c) /\ \A step \in Reads : ~Stage(c, step)
    BY <2>1, <2>2, <2>5, Zenon DEF Accepted, Stage
  <2>7. \A n \in 1..validator[c].input - 1 : Good(c, n)
    BY <1>1, <1>3, <2>2
  <2>8. ValidInv(c)
    BY <1>3, <2>2, <2>4, <2>5, <2>6, <2>7, Zenon DEF ValidInv
  <2> QED BY <2>3, <2>8, Zenon DEF CallInv
<1>6. SubscriptionInv
  <2>1. OneSubscribe
    BY <1>1, <1>2 DEF OneSubscribe, Subscribes
  <2>2. NoNotice
    BY <1>1 DEF NoNotice
  <2> QED BY <2>1, <2>2 DEF SubscriptionInv
<1>7. Unique
  BY <1>1 DEF Unique
<1> QED BY <1>4, <1>5, <1>6, <1>7 DEF PoolInv

\* A step that changes nothing keeps it ...
LEMMA PoolStutter == ASSUME PoolInv, UNCHANGED vars PROVE PoolInv'
<1>1. UNCHANGED <<tip, pool, strand, validator, asks, resubmitted, registry, relays, asked, stores,
                  confirms, evicted>>
  BY DEF vars
<1>2. Unique' /\ \A d \in Calls : CallInv(d)'
  BY <1>1, SameHandlers, CallsKept, Zenon
<1>3. SubscriptionInv'
  BY <1>1, SameHandlers, SubscriptionKept, Zenon DEF PoolInv
<1>4. TypeOK'
  BY <1>1, Zenon DEF TypeOK, PoolInv
<1> QED BY <1>2, <1>3, <1>4 DEF PoolInv

\* ... and so does every step of the pool, the chain and the callers.
LEMMA PoolStep == PoolInv /\ [Next]_vars => PoolInv'
<1> SUFFICES ASSUME PoolInv, [Next]_vars PROVE PoolInv'
  OBVIOUS
<1>1. ASSUME NEW b \in Blocks, Reorganise(b) PROVE PoolInv'
  BY <1>1, ReorganiseInv
<1>2. ASSUME NEW c \in Calls, Store(c) PROVE PoolInv'
  BY <1>2, StoreInv
<1>3. ASSUME NEW c \in Calls, Fetch(c) PROVE PoolInv'
  BY <1>3, FetchInv
<1>4. CASE DoSubscribe
  BY <1>4, DoSubscribeInv
<1>5. CASE DoRelay
  BY <1>5, DoRelayInv, Zenon
<1>6. CASE DoStore
  BY <1>6, DoStoreInv
<1>7. CASE HandleDuplicateCheck
  BY <1>7, HandleDuplicateCheckInv
<1>8. CASE SetLastDepth
  BY <1>8, SetLastDepthInv
<1>9. CASE PreviousTxIndex
  BY <1>9, PreviousTxIndexInv
<1>10. CASE HandlePreviousTx
  BY <1>10, HandlePreviousTxInv
<1>11. CASE CheckDoubleSpend
  BY <1>11, CheckDoubleSpendInv
<1>12. ASSUME NEW t \in Txs, TakeoutConfirmed(t) PROVE PoolInv'
  BY <1>12, TakeoutConfirmedInv
<1>13. CASE TakeoutDone
  BY <1>13, TakeoutDoneInv
<1>14. CASE ResubmitAll
  BY <1>14, ResubmitAllInv
<1>15. CASE UNCHANGED vars
  BY <1>15, PoolStutter
<1> QED BY <1>1, <1>2, <1>3, <1>4, <1>5, <1>6, <1>7, <1>8, <1>9, <1>10, <1>11, <1>12, <1>13, <1>14,
           <1>15, Zenon DEF Next, Relaying, Handler

\* The places of the calls, the steps of the validations and the subscription
\* keep the invariant, whatever the chain does and in whatever order the
\* strands run.
THEOREM PoolInvariance == Spec => []PoolInv
BY PoolInit, PoolStep, PTL DEF Spec

\* The pool never has a transaction twice, each validation has one handler or
\* one question, and an input to look at while it runs (handle_delegate,
\* next_previous_transaction).
THEOREM PoolAlwaysConsistent == Spec => []PoolConsistent
<1>1. PoolInv => PoolConsistent
  <2> SUFFICES ASSUME PoolInv PROVE PoolConsistent
    OBVIOUS
  <2>0. TypeOK
    BY DEF PoolInv
  <2>1. DOMAIN pool = 1..Len(pool) /\ DOMAIN strand = 1..Len(strand)
    BY <2>0 DEF TypeOK
  <2>2. PoolUnique
    BY <2>1, Zenon DEF PoolInv, PoolUnique, Unique
  <2>3. ASSUME NEW c \in Calls
        PROVE  /\ asks[c] # "nothing" => Handlers(c) = {}
               /\ \A i, j \in Handlers(c) : i = j
               /\ InFlight(c) /\ Tx[c] \notin Malformed \cup Coinbases =>
                     validator[c].input \in DOMAIN Inputs[Tx[c]]
    <3>1. CallInv(c)
      BY DEF PoolInv
    <3>2. \A i : i \in Handlers(c) <=> i \in 1..Len(strand) /\ Owned(i, c)
      BY <2>1, Zenon DEF Handlers, Owned
    <3>3. asks[c] # "nothing" => Handlers(c) = {}
      BY <3>1, <3>2, Zenon DEF CallInv, StepInv, Waits
    <3>4. \A i, j \in Handlers(c) : i = j
      BY <3>1, <3>2, Zenon DEF CallInv, StepInv, Once
    <3>5. Tx[c] \notin Malformed \cup Coinbases => validator[c].input \in DOMAIN Inputs[Tx[c]]
      <4>1. DOMAIN Inputs[Tx[c]] = 1..Len(Inputs[Tx[c]])
        <5>1. Tx[c] \in Txs
          BY PoolAssumption
        <5> QED BY <5>1, TxAssumption
      <4> QED BY <3>1, <4>1, Zenon DEF CallInv, ValidInv, Sane
    <3> QED BY <3>3, <3>4, <3>5
  <2> QED BY <2>0, <2>2, <2>3, Zenon DEF PoolConsistent, OneStepEach
<1> QED BY <1>1, PoolInvariance, PTL

\* Whatever is passed to store() is in exactly one place, and its handlers are
\* called at most once: nothing is lost or told twice by validation,
\* resubmission or confirmation.
THEOREM PoolAccounted == Spec => []Accounted
<1>1. PoolInv => Accounted
  <2> SUFFICES ASSUME PoolInv, NEW c \in Calls
               PROVE  /\ \E p \in Places : At(c, p) /\ \A q \in Places \ {p} : ~At(c, q)
                      /\ Len(stores[c]) <= 1 /\ Len(confirms[c]) <= 1
    BY DEF Accounted
  <2>1. PlaceInv(c) /\ TypeOK
    BY DEF PoolInv, CallInv
  <2>2. /\ InFlight(c) <=> Flying(c)
        /\ c \in Range(pool) <=> Pooled(c)
    <3>1. DOMAIN pool = 1..Len(pool) /\ DOMAIN strand = 1..Len(strand)
      BY <2>1 DEF TypeOK
    <3>2. InFlight(c) <=> Flying(c)
      BY <3>1, Zenon DEF InFlight, Flying, Handlers, Waits, Owned
    <3>3. c \in Range(pool) <=> Pooled(c)
      BY <3>1, Zenon DEF Range, Pooled
    <3> QED BY <3>2, <3>3
  <2>3. Len(<<>>) = 0 /\ 0 <= 1 /\ 1 <= 1 /\ 0 # 1
    OBVIOUS
  <2>4. Len(stores[c]) <= 1 /\ Len(confirms[c]) <= 1
    BY <2>1, <2>3, Zenon DEF PlaceInv, Accepted, Refused
  <2> DEFINE told == confirms[c] # <<>>
             refused == stores[c] # <<>> /\ stores[c][1].ec # "success"
  <2>5. /\ Accepted(c) => ~refused
        /\ Refused(c) => refused
        /\ Len(confirms[c]) = 1 => told
    BY <2>3, Zenon DEF Accepted, Refused
  <2>6. /\ At(c, "not stored") <=> c \notin asked
        /\ At(c, "in flight") <=> Flying(c)
        /\ At(c, "pool") <=> Pooled(c)
        /\ At(c, "confirm handled") <=> told
        /\ At(c, "refused") <=> refused
        /\ At(c, "evicted") <=> c \in evicted
    BY <2>2 DEF At
  <2> HIDE DEF told, refused
  <2>7. \/ c \notin asked /\ ~Flying(c) /\ ~Pooled(c) /\ ~told /\ ~refused /\ c \notin evicted
        \/ c \in asked /\ Flying(c) /\ ~Pooled(c) /\ ~told /\ ~refused /\ c \notin evicted
        \/ c \in asked /\ ~Flying(c) /\ Pooled(c) /\ ~told /\ ~refused /\ c \notin evicted
        \/ c \in asked /\ ~Flying(c) /\ ~Pooled(c) /\ told /\ ~refused /\ c \notin evicted
        \/ c \in asked /\ ~Flying(c) /\ ~Pooled(c) /\ ~told /\ refused /\ c \notin evicted
        \/ c \in asked /\ ~Flying(c) /\ ~Pooled(c) /\ ~told /\ ~refused /\ c \in evicted
    <3>1. /\ confirms[c] = <<>> => ~told
          /\ stores[c] = <<>> => ~refused
      BY DEF told, refused
    <3> QED BY <2>1, <2>5, <3>1, Zenon DEF PlaceInv
  <2>8. \E p \in Places : At(c, p) /\ \A q \in Places \ {p} : ~At(c, q)
    <3> HIDE DEF At
    <3> QED BY <2>6, <2>7, ZenonT(30) DEF Places
  <2> QED BY <2>4, <2>8
<1> QED BY <1>1, PoolInvariance, PTL

\* The pool has exactly one subscription at any time (start, reorganize,
\* subscriber::do_subscribe, do_relay).
THEOREM PoolOneSubscription == Spec => []OneSubscription
<1>1. PoolInv => OneSubscription
  <2> SUFFICES ASSUME PoolInv PROVE OneSubscription
    OBVIOUS
  <2> DEFINE coming == Steps(relays, "do_subscribe")
             noticed == Steps(strand, "reorganize")
  <2>1. DOMAIN relays = 1..Len(relays) /\ DOMAIN strand = 1..Len(strand) /\ SubscriptionInv
    BY DEF PoolInv, TypeOK
  <2>2. /\ \A i : i \in coming <=> i \in 1..Len(relays) /\ Subscribes(i)
        /\ \A i : i \in noticed <=> i \in 1..Len(strand) /\ Notified(i)
    BY <2>1, Zenon DEF Steps, Subscribes, Notified
  <2>3. OneSubscription <=>
          \/ registry = 1 /\ coming = {} /\ noticed = {}
          \/ registry = 0 /\ noticed = {} /\ \E i \in coming : coming = {i}
          \/ registry = 0 /\ coming = {} /\ \E i \in noticed : noticed = {i}
    BY Zenon DEF OneSubscription
  <2> HIDE DEF coming, noticed
  <2>4. (NoSubscribe => coming = {}) /\ (NoNotice => noticed = {})
    BY <2>2, Zenon DEF NoSubscribe, NoNotice
  <2>5. /\ OneSubscribe => \E i \in coming : coming = {i}
        /\ OneNotice => \E i \in noticed : noticed = {i}
    BY <2>2, Zenon DEF OneSubscribe, OneNotice
  <2> QED BY <2>1, <2>3, <2>4, <2>5, Zenon DEF SubscriptionInv
<1> QED BY <1>1, PoolInvariance, PTL

\* No transaction is accepted that could not be valid on any chain: each of its
\* inputs passed connect_input before handle_store was told of success.
THEOREM PoolAcceptedSound == Spec => []AcceptedSound
<1>1. PoolInv => AcceptedSound
  <2> SUFFICES ASSUME PoolInv, NEW c \in Calls, stores[c] # <<>>, stores[c][1].ec = "success"
               PROVE  /\ Tx[c] \notin Malformed \cup Coinbases
                      /\ \A n \in DOMAIN Inputs[Tx[c]] :
                            /\ <<Tx[c], n>> \notin BadInputs
                            /\ Inputs[Tx[c]][n][2] < Outputs[Inputs[Tx[c]][n][1]]
    BY Zenon DEF AcceptedSound
  <2>1. CallInv(c)
    BY DEF PoolInv
  <2>2. Accepted(c)
    BY <2>1, Zenon DEF CallInv, PlaceInv, Accepted, Refused
  <2>3. Sane(c) /\ \A n \in 1..Len(Inputs[Tx[c]]) : Good(c, n)
    BY <2>1, <2>2, Zenon DEF CallInv, ValidInv
  <2>4. DOMAIN Inputs[Tx[c]] = 1..Len(Inputs[Tx[c]])
    <3>1. Tx[c] \in Txs
      BY PoolAssumption
    <3> QED BY <3>1, TxAssumption, SMTT(20)
  <2> QED BY <2>3, <2>4, Zenon DEF Sane, Good
<1> QED BY <1>1, PoolInvariance, PTL
=============================================================================
