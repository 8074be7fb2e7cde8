--------------------------- MODULE ChannelProofs ----------------------------
(***************************************************************************)
(* The safety properties of a channel, and of the handshake that runs on   *)
(* it, for every set of handlers and timers, every stream of messages and  *)
(* any number of threads in stop().  The argument is the invariant         *)
(* ChannelInv of ChannelSteps: each step of a channel keeps it.            *)
(***************************************************************************)
EXTENDS ChannelSteps, Handshake

-----------------------------------------------------------------------------
(* Subscribing, sending and the end of stop() keep the invariant.          *)

\* subscribe_*: the test of stopped_, and the answer when it is set.
LEMMA SubscribeInv ==
  ASSUME NEW h \in Subs, ChannelInv, Subscribe(h)
  PROVE  ChannelInv'
<1> USE HandlerSets DEF ChannelInv
<1>1. /\ subscribed[h] = "no"
      /\ UNCHANGED <<stopped, reading, at, armed, due, pc, registry, early, sending, queue>>
      /\ subscribed' \in [Subs -> {"no", "passed", "done"}]
  <2>1. \E step \in {"passed", "done"} : subscribed' = [subscribed EXCEPT ![h] = step]
    BY DEF Subscribe
  <2> QED BY <2>1 DEF Subscribe, TypeOK
<1>2. h \notin registry /\ heard[h] = <<>>
  BY <1>1 DEF SubsUncalled
<1>3. /\ heard' \in [Handlers -> Seq(Codes)]
      /\ \A u \in Handlers : u # h => heard'[u] = heard[u]
      /\ HeardOnce' /\ SubsUncalled' /\ GivenRead'
  <2>1. CASE Call({h}, Error("service_stopped"))
             /\ subscribed' = [subscribed EXCEPT ![h] = "done"]
    <3>1. /\ {h} \in SUBSET Handlers /\ \A u \in {h} : heard[u] = <<>>
          /\ registry' = registry \ {h} /\ at' \in Nat /\ at <= at'
          /\ \A u \in Subs : IF u \in {h} THEN subscribed'[u] = "done"
                                          ELSE subscribed'[u] = subscribed[u]
      BY <1>1, <1>2, <2>1 DEF Handlers, TypeOK
    <3>2. \A u \in {h} \cap Subs : RightFor(Topic[u], Error("service_stopped"), at')
      BY ErrorCodes DEF RightFor
    <3>3. /\ heard' \in [Handlers -> Seq(Codes)]
          /\ \A u \in Handlers :
               heard'[u] = IF u \in {h} THEN <<Error("service_stopped")>> ELSE heard[u]
          /\ HeardOnce' /\ SubsUncalled' /\ GivenRead'
      BY <1>1, <2>1, <3>1, <3>2, ErrorCodes, SubsCalled, Zenon
    <3> QED BY <3>3
  <2>2. CASE UNCHANGED heard /\ subscribed' = [subscribed EXCEPT ![h] = "passed"]
    BY <1>1, <1>2, <2>2 DEF HeardOnce, SubsUncalled, GivenRead, TypeOK
  <2> QED BY <2>1, <2>2 DEF Subscribe
<1>4. TypeOK'
  BY <1>1, <1>3 DEF TypeOK
<1>5. SendsUncalled' /\ QueueUnique'
  <2>1. \A s \in Sends : heard'[s] = heard[s] /\ (pc'[s] # "idle" => pc[s] # "idle")
    BY <1>1, <1>3, Zenon DEF Handlers
  <2> QED BY <1>1, <2>1, SendsKept
<1>6. StreamSound' /\ Attended'
  BY <1>1 DEF StreamSound, Incoming, Attended
<1>7. EarlyPending'
  <2>1. \A u \in early : heard'[u] = heard[u]
    BY <1>1, <1>2, <1>3 DEF TypeOK, Handlers, EarlyPending
  <2> QED BY <1>1, <2>1, EarlyKept
<1> QED BY <1>3, <1>4, <1>5, <1>6, <1>7

\* The handler of a send that is not posted is called, and the send is done.
LEMMA SendDone ==
  ASSUME NEW s \in Sends, NEW c \in Codes, ChannelInv, sending[s] \in {"no", "writing"},
         pc[s] = "idle", sending' = [sending EXCEPT ![s] = "done"], Call({s}, c),
         UNCHANGED <<stopped, reading, at, armed, due, pc, subscribed, registry, early, queue>>
  PROVE  ChannelInv'
<1> USE HandlerSets DEF ChannelInv
<1>1. /\ {s} \in SUBSET Handlers /\ \A u \in {s} : heard[u] = <<>>
      /\ registry' = registry \ {s} /\ at' \in Nat /\ at <= at'
      /\ subscribed' \in [Subs -> {"no", "passed", "done"}]
      /\ \A u \in Subs : IF u \in {s} THEN subscribed'[u] = "done"
                                      ELSE subscribed'[u] = subscribed[u]
      /\ \A u \in {s} \cap Subs : RightFor(Topic[u], c, at')
  BY DEF Handlers, TypeOK, SendsUncalled
<1>2. /\ heard' \in [Handlers -> Seq(Codes)]
      /\ \A u \in Handlers : heard'[u] = IF u \in {s} THEN <<c>> ELSE heard[u]
      /\ HeardOnce' /\ SubsUncalled' /\ GivenRead'
  BY <1>1, SubsCalled, Zenon
<1>3. TypeOK'
  BY <1>2, SMTT(20) DEF TypeOK
<1>4. SendsUncalled' /\ QueueUnique'
  BY <1>2 DEF SendsUncalled, QueueUnique, Handlers, TypeOK
<1>5. StreamSound' /\ Attended'
  BY DEF StreamSound, Incoming, Attended
<1>6. EarlyPending'
  <2>1. \A u \in early : heard'[u] = heard[u]
    BY <1>2, SMTT(30) DEF TypeOK, Handlers
  <2> QED BY <2>1, EarlyKept
<1> QED BY <1>2, <1>3, <1>4, <1>5, <1>6

\* A user's send is refused or posted.
LEMMA SendInv ==
  ASSUME NEW s \in Sends, ChannelInv, Send(s)
  PROVE  ChannelInv'
<1> USE HandlerSets DEF ChannelInv
<1>1. /\ sending[s] = "no" /\ pc[s] = "idle"
      /\ UNCHANGED <<stopped, reading, at, armed, due, pc, subscribed, registry, early>>
  BY DEF Send, SendsUncalled
<1>2. CASE Refused
  <2>1. /\ sending' = [sending EXCEPT ![s] = "done"]
        /\ Call({s}, Error("service_stopped")) /\ UNCHANGED queue
    BY <1>2 DEF Send
  <2> QED BY <1>1, <2>1, ErrorCodes, SendDone, Zenon
<1>3. CASE ~Refused
  <2>1. Post(s) /\ UNCHANGED heard
    BY <1>3 DEF Send, Post
  <2>2. Posted'
    BY <1>1, <2>1, PostPosted DEF Posted, TypeOK
  <2>3. TypeOK' /\ QueueUnique' /\ SendsUncalled'
    BY <1>1, <2>1, <2>2 DEF Posted, TypeOK
  <2>4. HeardOnce' /\ SubsUncalled' /\ GivenRead'
    BY <1>1, <2>1 DEF HeardOnce, SubsUncalled, GivenRead
  <2>5. StreamSound' /\ EarlyPending' /\ Attended'
    BY <1>1, <2>1 DEF StreamSound, Incoming, EarlyPending, Attended
  <2> QED BY <2>3, <2>4, <2>5
<1> QED BY <1>2, <1>3

\* The length of a sequence is a number.
LEMMA LenNat ==
  ASSUME NEW S, NEW q \in Seq(S)
  PROVE  Len(q) \in Nat
OBVIOUS

\* A write's completion calls the handler.
LEMMA WrittenInv ==
  ASSUME NEW s \in Sends, ChannelInv, Written(s)
  PROVE  ChannelInv'
<1> DEFINE c == IF stopped THEN Error("service_stopped") ELSE Ok(0)
<1>1. c \in Codes
  <2>1. Len(Inbound) \in Nat
    BY ChannelAssumption, LenNat, Zenon
  <2>2. Ok(0) \in Codes
    BY <2>1 DEF Codes, Ok
  <2> QED BY <2>2, ErrorCodes
<1> HIDE DEF c
<1>2. Call({s}, c) /\ sending[s] = "writing" /\ pc[s] = "idle"
      /\ sending' = [sending EXCEPT ![s] = "done"]
      /\ UNCHANGED <<stopped, reading, at, armed, due, pc, subscribed, registry, early, queue>>
  BY DEF Written, c
<1> QED BY <1>1, <1>2, SendDone, Zenon

\* A thread leaves stop() and calls the handlers hs, and its own when it is
\* the completion of a write.
LEMMA FinishCalls ==
  ASSUME NEW t \in Threads, NEW hs \in SUBSET registry, ChannelInv, pc[t] # "idle",
         t # "strand" \/ pc[t] \in Stopping,
         Finish(t, hs), registry' = registry \ hs,
         UNCHANGED <<stopped, reading, at, armed, due, subscribed, early, queue>>
  PROVE  /\ TypeOK' /\ HeardOnce' /\ SubsUncalled' /\ GivenRead'
         /\ SendsUncalled' /\ QueueUnique' /\ StreamSound'
         /\ \A h \in Subs : IF h \in hs THEN heard'[h] # <<>> ELSE heard'[h] = heard[h]
         /\ \A u \in Threads : pc'[u] = IF u = t THEN "idle" ELSE pc[u]
<1> USE HandlerSets DEF ChannelInv
<1> DEFINE e == IF t = "timeout" THEN "channel_timeout" ELSE "service_stopped"
           all == hs \cup ({t} \cap Sends)
<1>1. Error(e) \in Codes /\ Error(e).code # "ok"
  BY ErrorCodes
<1>2. Call(all, Error(e))
  <2>1. hs \subseteq Subs /\ (t \in Subs => FALSE)
    BY DEF TypeOK, Threads
  <2>2. t \in Sends => t # "timeout"
    OBVIOUS
  <2>3. t \notin Handlers \/ t \in Sends
    BY <2>1 DEF Handlers
  <2> QED BY <2>1, <2>2, <2>3 DEF Finish, Call
<1> HIDE DEF e
<1>3. /\ all \in SUBSET Handlers /\ \A u \in all : heard[u] = <<>>
      /\ registry' = registry \ all /\ at' \in Nat /\ at <= at'
      /\ subscribed' \in [Subs -> {"no", "passed", "done"}]
      /\ \A u \in Subs : IF u \in all THEN subscribed'[u] = "done"
                                      ELSE subscribed'[u] = subscribed[u]
      /\ \A u \in all \cap Subs : RightFor(Topic[u], Error(e), at')
  BY <1>1, SMTT(30) DEF Handlers, TypeOK, SubsUncalled, SendsUncalled, RightFor
<1> HIDE DEF all
<1>4. /\ heard' \in [Handlers -> Seq(Codes)]
      /\ \A u \in Handlers : heard'[u] = IF u \in all THEN <<Error(e)>> ELSE heard[u]
      /\ HeardOnce' /\ SubsUncalled' /\ GivenRead'
  BY <1>1, <1>2, <1>3, SubsCalled, Zenon
<1>5. /\ pc' \in [Threads -> {"idle", "reset", "reset_load", "load"} \cup Stopping]
      /\ \A u \in Threads : pc'[u] = IF u = t THEN "idle" ELSE pc[u]
  BY GoMoves, Zenon DEF Finish, Go
<1>6. /\ sending' \in [Sends -> {"no", "posted", "writing", "done"}]
      /\ \A s \in Sends : sending'[s] = IF s = t THEN "done" ELSE sending[s]
      /\ t \in Sends => sending[t] = "writing"
  BY DEF Finish, TypeOK, SendsUncalled
<1>7. TypeOK'
  BY <1>4, <1>5, <1>6, SMTT(30) DEF TypeOK, Threads, Stopping
<1>8. SendsUncalled' /\ QueueUnique'
  <2>1. ASSUME NEW s \in Sends
        PROVE  /\ sending'[s] # "done" => heard'[s] = <<>>
               /\ pc'[s] # "idle" => sending'[s] = "writing"
    <3>1. CASE s = t
      BY <1>5, <1>6, <3>1
    <3>2. CASE s # t
      <4>1. s \notin all /\ s \in Handlers /\ s \in Threads
        BY <3>2 DEF all, Handlers, Threads, TypeOK
      <4>2. heard'[s] = heard[s] /\ pc'[s] = pc[s] /\ sending'[s] = sending[s]
        BY <1>4, <1>5, <1>6, <3>2, <4>1
      <4> QED BY <4>2 DEF SendsUncalled
    <3> QED BY <3>1, <3>2
  <2> QED BY <2>1, SMTT(30) DEF SendsUncalled, QueueUnique
<1>9. StreamSound'
  BY <1>5 DEF StreamSound, Incoming, Threads
<1>10. ASSUME NEW h \in Subs
       PROVE  IF h \in hs THEN heard'[h] # <<>> ELSE heard'[h] = heard[h]
  <2>1. heard'[h] = IF h \in hs THEN <<Error(e)>> ELSE heard[h]
    BY <1>4 DEF all, Handlers
  <2> QED BY <2>1, SMTT(30)
<1> QED BY <1>4, <1>5, <1>7, <1>8, <1>9, <1>10

\* stop() of a thread that finds stopped_ set returns.
LEMMA StopTestInv ==
  ASSUME NEW t \in Threads, ChannelInv, StopTest(t)
  PROVE  ChannelInv'
<1> USE HandlerSets DEF ChannelInv
<1>1. /\ pc[t] = "test"
      /\ UNCHANGED <<stopped, reading, at, armed, due, subscribed, registry, early, queue>>
  BY DEF StopTest
<1>2. CASE stopped
  <2>1. Finish(t, {}) /\ {} \in SUBSET registry /\ registry' = registry \ {}
    BY <1>1, <1>2 DEF StopTest
  <2>2. /\ TypeOK' /\ HeardOnce' /\ SubsUncalled' /\ GivenRead'
        /\ SendsUncalled' /\ QueueUnique' /\ StreamSound'
        /\ \A h \in Subs : heard'[h] = heard[h]
        /\ \A u \in Threads : pc'[u] = IF u = t THEN "idle" ELSE pc[u]
    BY <1>1, <2>1, FinishCalls, SMTT(30) DEF Stopping
  <2>3. EarlyPending'
    BY <1>1, <2>2, EarlyKept, Zenon DEF TypeOK
  <2> QED BY <1>1, <1>2, <2>2, <2>3 DEF Attended
<1>3. CASE ~stopped
  <2>1. Go(t, "shut") /\ UNCHANGED <<sending, heard>>
    BY <1>3 DEF StopTest
  <2>2. /\ pc' \in [Threads -> {"idle", "reset", "reset_load", "load"} \cup Stopping]
        /\ \A u \in Threads : pc'[u] = IF u = t THEN "shut" ELSE pc[u]
    BY <2>1, GoMoves, Zenon DEF Go, Stopping
  <2>3. TypeOK'
    BY <1>1, <2>1, <2>2, SMTT(30) DEF TypeOK, Stopping
  <2>4. HeardOnce' /\ SubsUncalled' /\ GivenRead'
    BY <1>1, <2>1 DEF HeardOnce, SubsUncalled, GivenRead
  <2>5. SendsUncalled' /\ QueueUnique' /\ StreamSound'
    BY <1>1, <2>1, <2>2, Zenon DEF SendsUncalled, QueueUnique, StreamSound, Incoming, Threads
  <2>6. EarlyPending'
    BY <1>1, <2>1, <2>2, EarlyKept
  <2>7. Attended'
    BY <2>2 DEF Attended
  <2> QED BY <2>3, <2>4, <2>5, <2>6, <2>7
<1> QED BY <1>2, <1>3

\* The handlers of the stop are called.
LEMMA StopRelayInv ==
  ASSUME NEW t \in Threads, ChannelInv, StopRelay(t)
  PROVE  ChannelInv'
<1> USE HandlerSets DEF ChannelInv
<1> DEFINE hs == {h \in registry : Topic[h] = "stop"}
<1>1. /\ pc[t] = "relay" /\ registry' = registry \ hs /\ Finish(t, hs)
      /\ UNCHANGED <<stopped, reading, at, armed, due, subscribed, early, queue>>
      /\ hs \in SUBSET registry
  BY DEF StopRelay
<1> HIDE DEF hs
<1>2. /\ TypeOK' /\ HeardOnce' /\ SubsUncalled' /\ GivenRead'
      /\ SendsUncalled' /\ QueueUnique' /\ StreamSound'
      /\ \A h \in Subs : IF h \in hs THEN heard'[h] # <<>> ELSE heard'[h] = heard[h]
      /\ \A u \in Threads : pc'[u] = IF u = t THEN "idle" ELSE pc[u]
  BY <1>1, FinishCalls DEF Stopping
<1>3. stopped
  BY <1>1 DEF EarlyPending
<1>4. EarlyPending'
  <2>1. ASSUME NEW h \in early, heard'[h] = <<>>
        PROVE  h \in registry' /\ \E u \in Threads : pc'[u] = "clear"
    <3>1. h \in Subs /\ h \notin hs /\ heard[h] = <<>>
      BY <1>2, <2>1 DEF TypeOK
    <3>2. h \in registry /\ Topic[h] # "stop"
      BY <3>1 DEF EarlyPending, hs
    <3>3. PICK u \in Threads : pc[u] = "clear"
      BY <3>1, <3>2 DEF EarlyPending
    <3>4. pc'[u] = "clear"
      BY <1>1, <1>2, <3>3
    <3> QED BY <1>1, <3>1, <3>2, <3>4
  <2> QED BY <1>1, <1>3, <2>1, Zenon DEF EarlyPending
<1> QED BY <1>1, <1>2, <1>3, <1>4 DEF Attended

-----------------------------------------------------------------------------
(* The theorems about the channel.                                         *)

\* A new channel satisfies the invariant.
LEMMA ChannelInit == Init => ChannelInv
<1> SUFFICES ASSUME Init PROVE ChannelInv
  OBVIOUS
<1> USE HandlerSets DEF Init
<1>1. TypeOK
  <2>1. queue \in Seq(Sends) /\ heard \in [Handlers -> Seq(Codes)] /\ at \in 0..Len(Inbound)
    OBVIOUS
  <2>2. \A s \in Sends : sending[s] = "posted" <=> \E i \in 1..Len(queue) : queue[i] = s
    OBVIOUS
  <2> QED BY <2>1, <2>2, Zenon DEF TypeOK, Parts, Threads
<1>2. HeardOnce /\ SubsUncalled /\ SendsUncalled /\ GivenRead
  BY DEF HeardOnce, SubsUncalled, SendsUncalled, GivenRead, Handlers, Threads
<1>3. QueueUnique /\ StreamSound /\ EarlyPending /\ Attended
  BY DEF QueueUnique, StreamSound, EarlyPending, Attended, Threads, Parts
<1> QED BY <1>1, <1>2, <1>3 DEF ChannelInv

\* Every step of a channel keeps it.
LEMMA ChannelStep == ChannelInv /\ [Next]_vars => ChannelInv'
<1> SUFFICES ASSUME ChannelInv, [Next]_vars PROVE ChannelInv'
  OBVIOUS
<1>1. CASE \E t \in Threads : StopStep(t)
  BY <1>1, StopTestInv, StopShutInv, StopClearInv, StopRelayInv DEF StopStep
<1>2. CASE \E h \in Subs : Register(h) \/ Subscribe(h)
  BY <1>2, RegisterInv, SubscribeInv
<1>3. CASE Expire \/ HandleTimeout \/ HandleHeartbeat \/ ResetTimers
  BY <1>3, ExpireInv, HandleTimeoutInv, HandleHeartbeatInv, ResetTimersInv
<1>4. CASE Load \/ ReadStopped \/ ReadFails
  BY <1>4, LoadInv, ReadStoppedInv, ReadFailsInv
<1>5. CASE HandleReadHeader \/ HandleReadChecksum \/ HandleReadPayload
  BY <1>5, HandleReadHeaderInv, HandleReadChecksumInv, HandleReadPayloadInv
<1>6. CASE DoSend \/ \E s \in Sends : Send(s) \/ Written(s) \/ WriteFails(s)
  BY <1>6, DoSendInv, SendInv, WrittenInv, WriteFailsInv
<1>7. CASE Stop
  BY <1>7, StopInv
<1>8. CASE UNCHANGED vars
  <2>1. TypeOK' /\ HeardOnce' /\ Attended'
    BY <1>8 DEF vars, ChannelInv, TypeOK, HeardOnce, Attended
  <2>2. SubsUncalled' /\ SendsUncalled' /\ QueueUnique'
    BY <1>8 DEF vars, ChannelInv, SubsUncalled, SendsUncalled, QueueUnique
  <2>3. StreamSound' /\ GivenRead' /\ EarlyPending'
    BY <1>8 DEF vars, ChannelInv, StreamSound, Incoming, GivenRead, EarlyPending
  <2> QED BY <2>1, <2>2, <2>3 DEF ChannelInv
<1> QED BY <1>1, <1>2, <1>3, <1>4, <1>5, <1>6, <1>7, <1>8 DEF Next, Obliged, Peer, Users

\* What follows from the invariant in a state.
LEMMA ChannelFacts == ChannelInv => ChannelConsistent /\ HeardRight
<1> SUFFICES ASSUME ChannelInv PROVE OnlySoundMessages
  BY DEF ChannelInv, ChannelConsistent, HeardRight
<1> SUFFICES ASSUME NEW h \in Subs, NEW n \in 1..Len(heard[h]), heard[h][n].code = "ok"
             PROVE  LET i == heard[h][n].message
                    IN  /\ Topic[h] \in {"raw", Inbound[i].command}
                        /\ \A j \in 1..i : verify_header(Inbound[j]) /\ Inbound[j].checksum
                        /\ Topic[h] = "raw" \/ Inbound[i].body
  BY Zenon DEF OnlySoundMessages
<1>1. n = 1 /\ heard[h] # <<>>
  BY DEF ChannelInv, TypeOK, HeardOnce, Handlers
<1>2. RightFor(Topic[h], heard[h][1], at)
  BY <1>1 DEF ChannelInv, GivenRead
<1>3. \A j \in 1..at : verify_header(Inbound[j]) /\ Inbound[j].checksum
  BY DEF ChannelInv, StreamSound
<1>4. at \in Nat
  BY DEF ChannelInv, TypeOK
<1> DEFINE i == heard[h][n].message
<1>5. i \in 1..at /\ Topic[h] \in {"raw", Inbound[i].command} /\ (Topic[h] = "raw" \/ Inbound[i].body)
  BY <1>1, <1>2, Zenon DEF RightFor
<1> HIDE DEF i
<1>6. \A j \in 1..i : j \in 1..at
  BY <1>4, <1>5
<1>7. \A j \in 1..i : verify_header(Inbound[j]) /\ Inbound[j].checksum
  BY <1>3, <1>6, Zenon
<1> QED BY <1>5, <1>7, Zenon DEF i

\* The inductive invariant holds throughout.
THEOREM ChannelInvariance == Spec => []ChannelInv
BY ChannelInit, ChannelStep, PTL DEF Spec

\* The channel's variables keep their types, the posted sends are the queued
\* ones, and until it is stopped it is attended (Channel, Attended).
THEOREM ChannelAlwaysConsistent == Spec => []ChannelConsistent
BY ChannelInvariance, ChannelFacts, PTL

\* Every handler is called at most once, and with a message only when the
\* message is of its kind and the stream was sound up to it (Channel, HeardRight).
THEOREM ChannelHeardRight == Spec => []HeardRight
BY ChannelInvariance, ChannelFacts, PTL

\* Stop tells everybody: when stopped_ is set and no thread is left in stop(),
\* every handler that was registered when it was set has been called.
EarlyTold ==
  stopped /\ (\A t \in Threads : pc[t] \notin Stopping) => \A h \in early : heard[h] # <<>>

\* EarlyTold, the safety that EarlyHeard rests on.
THEOREM ChannelEarlyTold == Spec => []EarlyTold
<1>1. ChannelInv => EarlyTold
  BY DEF ChannelInv, EarlyPending, EarlyTold, Stopping
<1> QED BY <1>1, ChannelInvariance, PTL

-----------------------------------------------------------------------------
(* The handshake.  Each of its steps is a step of the channel or leaves it *)
(* as it is.                                                               *)

\* What a handler has heard stays as it is.
HeardKept == \A h \in Handlers : heard[h] # <<>> => heard'[h] = heard[h]

\* A sequence that is not empty and holds at most one element holds one.
LEMMA LenOne ==
  ASSUME NEW S, NEW q \in Seq(S), q # <<>>, Len(q) <= 1
  PROVE  Len(q) = 1
<1>1. Len(q) \in Nat
  OBVIOUS
<1>2. Len(q) # 0
  OBVIOUS
<1> QED BY <1>1, <1>2

\* Handlers that have heard something are not called again.
LEMMA KeptByCall ==
  ASSUME TypeOK, HeardOnce, HeardOnce', NEW hs, NEW c, Call(hs, c)
  PROVE  HeardKept
<1> SUFFICES ASSUME NEW h \in Handlers, heard[h] # <<>>, h \in hs PROVE FALSE
  BY DEF Call, HeardKept
<1>1. heard'[h] = Append(heard[h], c)
  BY DEF Call
<1>2. heard[h] \in Seq(Codes) /\ Len(heard[h]) = 1
  <2>1. heard[h] \in Seq(Codes) /\ Len(heard[h]) <= 1
    BY DEF TypeOK, HeardOnce
  <2> QED BY <2>1, LenOne, Zenon
<1>3. Len(heard'[h]) = 2
  BY <1>1, <1>2
<1> QED BY <1>3 DEF HeardOnce

\* Nor are they when a thread leaves stop().
LEMMA KeptByFinish ==
  ASSUME TypeOK, HeardOnce, HeardOnce', NEW t, NEW hs, Finish(t, hs)
  PROVE  HeardKept
<1> SUFFICES ASSUME NEW h \in Handlers, heard[h] # <<>>, heard'[h] # heard[h] PROVE FALSE
  BY DEF HeardKept
<1>1. PICK c : heard'[h] = Append(heard[h], c)
  BY ZenonT(30) DEF Finish
<1>2. heard[h] \in Seq(Codes) /\ Len(heard[h]) = 1
  <2>1. heard[h] \in Seq(Codes) /\ Len(heard[h]) <= 1
    BY DEF TypeOK, HeardOnce
  <2> QED BY <2>1, LenOne, Zenon
<1>3. Len(heard'[h]) = 2
  BY <1>1, <1>2
<1> QED BY <1>3, SMTT(30) DEF HeardOnce

\* No step of the channel takes back or adds to what a handler has heard.
LEMMA ChannelKeepsHeard == ChannelInv /\ [Next]_vars => HeardKept
<1> SUFFICES ASSUME ChannelInv, [Next]_vars PROVE HeardKept
  OBVIOUS
<1>1. TypeOK /\ HeardOnce /\ HeardOnce'
  BY ChannelStep DEF ChannelInv
<1>2. CASE UNCHANGED heard
  BY <1>2 DEF HeardKept
<1>3. CASE \E hs, c : Call(hs, c)
  BY <1>1, <1>3, KeptByCall
<1>4. CASE \E t, hs : Finish(t, hs)
  BY <1>1, <1>4, KeptByFinish
<1>5. UNCHANGED heard \/ (\E hs, c : Call(hs, c)) \/ (\E t, hs : Finish(t, hs))
  <2>1. CASE \E t \in Threads : StopStep(t)
    BY <2>1 DEF StopStep, StopTest, StopShut, StopClear, StopRelay, Relay
  <2>2. CASE \E h \in Subs : Register(h) \/ Subscribe(h)
    BY <2>2 DEF Register, Subscribe
  <2>3. CASE Expire \/ HandleTimeout \/ HandleHeartbeat \/ ResetTimers
    BY <2>3 DEF Expire, HandleTimeout, HandleHeartbeat, ResetTimers
  <2>4. CASE Load \/ ReadStopped \/ ReadFails
    BY <2>4 DEF Load, ReadStopped, ReadFails, Relay
  <2>5. CASE HandleReadHeader \/ HandleReadChecksum \/ HandleReadPayload
    BY <2>5 DEF HandleReadHeader, HandleReadChecksum, HandleReadPayload, Relay
  <2>6. CASE DoSend \/ \E s \in Sends : Send(s) \/ Written(s) \/ WriteFails(s)
    BY <2>6, ZenonT(30) DEF DoSend, Send, Written, WriteFails
  <2>7. CASE Stop
    BY <2>7 DEF Stop
  <2>8. CASE UNCHANGED vars
    BY <2>8 DEF vars
  <2> QED BY <2>1, <2>2, <2>3, <2>4, <2>5, <2>6, <2>7, <2>8, Zenon DEF Next, Obliged, Peer, Users
<1> QED BY <1>2, <1>3, <1>4, <1>5

\* A send begins with the call of send() and with nothing else; the ping alone
\* is begun by the heartbeat.
LEMMA BegunBySend ==
  ASSUME ChannelInv, Obliged \/ Peer \/ Stop \/ (\E h \in Subs : Subscribe(h)),
         NEW s \in Sends \ {"ping"}, sending[s] = "no"
  PROVE  sending'[s] = "no"
<1> USE DEF ChannelInv
<1>1. CASE \E t \in Threads : StopStep(t)
  <2> PICK t \in Threads : StopStep(t)
    BY <1>1
  <2>1. pc[t] # "idle"
    BY DEF StopStep, StopTest, StopShut, StopClear, StopRelay
  <2>2. s # t
    BY <2>1 DEF SendsUncalled
  <2> QED BY <2>2, Zenon DEF StopStep, StopTest, StopShut, StopClear, StopRelay, Finish
<1>2. CASE DoSend
  <2>1. Head(queue) # s /\ Head(queue) \in Sends
    <3>1. queue \in Seq(Sends) /\ queue # <<>>
      BY <1>2, Zenon DEF DoSend, TypeOK
    <3>2. Head(queue) \in Sends /\ 1 \in 1..Len(queue) /\ Head(queue) = queue[1]
      BY <3>1
    <3>3. sending[s] = "posted" <=> \E i \in 1..Len(queue) : queue[i] = s
      BY Zenon DEF TypeOK
    <3> QED BY <3>2, <3>3
  <2> QED BY <1>2, <2>1 DEF DoSend, TypeOK
<1>3. CASE \E u \in Sends : Written(u)
  BY <1>3 DEF Written, TypeOK
<1>4. CASE HandleHeartbeat
  BY <1>4 DEF HandleHeartbeat, TypeOK
<1>5. CASE UNCHANGED sending
  BY <1>5
<1>6. CASE \E h \in Subs : Register(h) \/ Subscribe(h)
  BY <1>6 DEF Register, Subscribe
<1>7. CASE Expire \/ HandleTimeout \/ ResetTimers \/ Load \/ ReadStopped \/ ReadFails \/ Stop
  BY <1>7, Zenon DEF Expire, HandleTimeout, ResetTimers, Load, ReadStopped, ReadFails, Stop
<1>8. CASE HandleReadHeader \/ HandleReadChecksum \/ HandleReadPayload
           \/ \E u \in Sends : WriteFails(u)
  BY <1>8 DEF HandleReadHeader, HandleReadChecksum, HandleReadPayload, WriteFails
<1> QED BY <1>1, <1>2, <1>3, <1>4, <1>6, <1>7, <1>8 DEF Obliged, Peer

\* A handler was called with no error.
Well(h) == heard[h][1].code = "ok"

\* A counting handler that ran well counts one.
Ran(h) == IF h \in taken /\ Well(h) THEN 1 ELSE 0

\* The inductive invariant: the counter counts the counting handlers that ran
\* well; the verack is sent only once the peer's version was taken well; and
\* an error is reported only on behalf of a handler that ran with it.
HandshakeInv ==
  /\ ChannelInv
  /\ taken \subseteq Versions
  /\ \A h \in taken : heard[h] # <<>>
  /\ counter = Ran("send_version") + Ran("send_verack") + Ran("on_verack")
  /\ sending["send_verack"] # "no" =>
       "on_version" \in taken /\ Well("on_version")
  /\ outcome \in Seq({x.code : x \in Codes})
  /\ counter = ClearanceCount => outcome = <<"ok">>
  /\ counter # ClearanceCount /\ outcome # <<>> =>
       /\ \A i \in 1..Len(outcome) : outcome[i] # "ok"
       /\ \E h \in taken : ~Well(h)

\* A handshake that has not begun satisfies its invariant.
LEMMA HandshakeInit == HInit => HandshakeInv
<1> SUFFICES ASSUME HInit PROVE HandshakeInv
  OBVIOUS
<1>1. ChannelInv
  BY ChannelInit DEF HInit
<1>2. sending["send_verack"] = "no"
  BY HandshakeHandlers DEF HInit, Init
<1>3. Ran("send_version") = 0 /\ Ran("send_verack") = 0 /\ Ran("on_verack") = 0
  BY Zenon DEF HInit, Ran
<1> QED BY <1>1, <1>2, <1>3, SMTT(30) DEF HInit, HandshakeInv, ClearanceCount

\* The steps of ready() and of the channel itself.
LEMMA HandshakeOthers ==
  ASSUME HandshakeInv, UNCHANGED hvars,
         \/ Obliged \/ Peer \/ Stop
         \/ \E h \in Subs : Subscribe(h)
         \/ Send("send_version")
  PROVE  HandshakeInv'
<1> USE DEF HandshakeInv, hvars
<1>1. Next
  BY HandshakeHandlers DEF Next, Users
<1>2. ChannelInv' /\ HeardKept
  BY <1>1, ChannelStep, ChannelKeepsHeard, Zenon
<1>3. \A h \in taken : heard'[h] = heard[h]
  BY <1>2, HandshakeHandlers DEF HeardKept, Versions, Handlers
<1>4. /\ \A h \in taken : Well(h)' = Well(h)
      /\ \A h : Ran(h)' = Ran(h)
  BY <1>3, Zenon DEF Ran, Well
<1>5. sending'["send_verack"] # "no" => sending["send_verack"] # "no"
  <2>1. CASE Send("send_version")
    BY <2>1, HandshakeHandlers, SMTT(30) DEF Send, ChannelInv, TypeOK
  <2>2. CASE ~Send("send_version")
    BY <2>2, BegunBySend, HandshakeHandlers
  <2> QED BY <2>1, <2>2
<1>6. counter' = Ran("send_version")' + Ran("send_verack")' + Ran("on_verack")'
  BY <1>4
<1>7. \A h \in taken' : heard'[h] # <<>>
  BY <1>3
<1>8. counter' # ClearanceCount /\ outcome' # <<>> =>
        /\ \A i \in 1..Len(outcome') : outcome'[i] # "ok"
        /\ \E h \in taken' : ~Well(h)'
  BY <1>4
<1> QED BY <1>2, <1>4, <1>5, <1>6, <1>7, <1>8

\* A counting handler that runs: it ran for the first time, and the others
\* have not run.
LEMMA HandshakeCounted ==
  ASSUME HandshakeInv, NEW h \in {"send_version", "send_verack", "on_verack"}, Counted(h)
  PROVE  HandshakeInv'
<1> USE DEF HandshakeInv, ClearanceCount
<1>1. PICK c \in {x.code : x \in Codes} :
        /\ Runs(h, c)
        /\ IF c # "ok" THEN Complete(c) /\ UNCHANGED counter ELSE Count
        /\ UNCHANGED vars
  BY DEF Counted
<1>2. /\ UNCHANGED <<heard, sending, vars>> /\ heard[h] # <<>> /\ (Well(h) <=> c = "ok")
      /\ h \notin taken /\ taken' = taken \cup {h}
      /\ \A u : Well(u)' = Well(u)
  BY <1>1, Zenon DEF vars, Runs, Well
<1>3. ChannelInv'
  BY <1>2, ChannelStep
<1>4. taken' \subseteq Versions /\ \A u \in taken' : heard'[u] # <<>>
  BY <1>2 DEF Versions
<1>5. /\ Ran(h) = 0 /\ Ran(h)' = IF c = "ok" THEN 1 ELSE 0
      /\ \A u \in {"send_version", "send_verack", "on_verack"} :
           /\ Ran(u) \in {0, 1}
           /\ u # h => Ran(u)' = Ran(u)
  BY <1>2, SMTT(30) DEF Ran
<1>6. counter \in 0..2
  BY <1>5
<1>7. sending'["send_verack"] # "no" =>
        "on_version" \in taken' /\ Well("on_version")'
  BY <1>2
<1>8. CASE c # "ok"
  <2>1. outcome' = Append(outcome, c) /\ counter' = counter
    BY <1>1, <1>8 DEF Complete
  <2>2. outcome' \in Seq({x.code : x \in Codes})
        /\ \A i \in 1..Len(outcome') : outcome'[i] # "ok"
    BY <1>6, <1>8, <2>1, SMTT(30)
  <2>3. h \in taken' /\ ~Well(h)'
    BY <1>2, <1>8
  <2>4. counter' = Ran("send_version")' + Ran("send_verack")' + Ran("on_verack")'
    BY <1>5, <1>8, <2>1
  <2> QED BY <1>3, <1>4, <1>6, <1>7, <2>1, <2>2, <2>3, <2>4, SMTT(30)
<1>9. CASE c = "ok"
  <2>1. /\ counter' = counter + 1
        /\ IF counter' = 3 THEN outcome' = Append(outcome, "ok") ELSE outcome' = outcome
    BY <1>1, <1>9 DEF Count, Complete
  <2>2. counter' = Ran("send_version")' + Ran("send_verack")' + Ran("on_verack")'
    BY <1>5, <1>9, <2>1
  <2>3. CASE counter' # 3
    <3>1. outcome' = outcome
      BY <2>1, <2>3
    <3>2. counter' # ClearanceCount /\ outcome' # <<>> =>
            /\ \A i \in 1..Len(outcome') : outcome'[i] # "ok"
            /\ \E u \in taken' : ~Well(u)'
      BY <1>2, <1>6, <3>1, SMTT(30)
    <3> QED BY <1>3, <1>4, <1>7, <2>2, <2>3, <3>1, <3>2, SMTT(30)
  <2>4. CASE counter' = 3
    <3>1. \A u \in {"send_version", "send_verack", "on_verack"} :
            u \in taken' /\ Well(u)'
      <4>1. \A u \in {"send_version", "send_verack", "on_verack"} : Ran(u)' \in {0, 1}
        BY DEF Ran
      <4>2. \A u \in {"send_version", "send_verack", "on_verack"} : Ran(u)' = 1
        BY <2>2, <2>4, <4>1
      <4> QED BY <4>2, SMTT(30) DEF Ran
    <3>2. sending["send_verack"] # "no"
      <4>1. heard["send_verack"] # <<>>
        BY <1>2, <1>4, <3>1
      <4> QED BY <4>1, HandshakeHandlers DEF ChannelInv, SendsUncalled
    <3>3. \A u \in Versions : Well(u)
      BY <1>2, <3>1, <3>2 DEF Versions
    <3>4. outcome = <<>>
      BY <1>6, <3>3
    <3>5. outcome' = <<"ok">>
      <4>1. outcome' = Append(outcome, "ok")
        BY <2>1, <2>4
      <4>2. Append(<<>>, "ok") = <<"ok">>
        OBVIOUS
      <4> QED BY <3>4, <4>1, <4>2
    <3>6. outcome' \in Seq({x.code : x \in Codes})
      BY <1>9, <3>5
    <3> QED BY <1>3, <1>4, <1>7, <2>2, <2>4, <3>5, <3>6, SMTT(30)
  <2> QED BY <2>3, <2>4
<1> QED BY <1>8, <1>9, SMTT(30)

\* The peer's version is taken: the verack is sent, or the error is reported.
LEMMA HandshakeVersion ==
  ASSUME HandshakeInv, ReceiveVersion
  PROVE  HandshakeInv'
<1> USE DEF HandshakeInv, ClearanceCount
<1>1. PICK c \in {x.code : x \in Codes} :
        /\ Runs("on_version", c)
        /\ IF c # "ok"
           THEN Complete(c) /\ UNCHANGED <<vars, counter>>
           ELSE Send("send_verack") /\ UNCHANGED <<counter, outcome>>
  BY DEF ReceiveVersion
<1>2. /\ heard["on_version"] # <<>> /\ (Well("on_version") <=> c = "ok")
      /\ "on_version" \notin taken /\ taken' = taken \cup {"on_version"}
      /\ counter' = counter
  BY <1>1 DEF Runs, Well
<1>3. [Next]_vars
  BY <1>1, HandshakeHandlers DEF Next, Users
<1>4. ChannelInv' /\ HeardKept
  BY <1>3, ChannelStep, ChannelKeepsHeard
<1>5. \A h \in taken' : heard[h] # <<>> /\ heard'[h] = heard[h] /\ Well(h)' = Well(h)
  BY <1>2, <1>4, HandshakeHandlers DEF HeardKept, Versions, Handlers, Well
<1>6. \A h \in {"send_version", "send_verack", "on_verack"} : Ran(h)' = Ran(h)
  BY <1>2, <1>5 DEF Ran
<1>7. counter' = Ran("send_version")' + Ran("send_verack")' + Ran("on_verack")'
  BY <1>2, <1>6
<1>8. sending["send_verack"] = "no" /\ counter # 3
  <2>1. sending["send_verack"] = "no"
    BY <1>2
  <2>2. "send_verack" \notin taken
    BY <2>1, HandshakeHandlers DEF ChannelInv, SendsUncalled
  <2> QED BY <2>1, <2>2 DEF Ran
<1>9. taken' \subseteq Versions
  BY <1>2 DEF Versions
<1>10. CASE c # "ok"
  <2>1. outcome' = Append(outcome, c) /\ UNCHANGED sending
    BY <1>1, <1>10 DEF Complete, vars
  <2>2. outcome' \in Seq({x.code : x \in Codes})
        /\ \A i \in 1..Len(outcome') : outcome'[i] # "ok"
    <3>1. outcome \in Seq({x.code : x \in Codes}) /\ \A i \in 1..Len(outcome) : outcome[i] # "ok"
      BY <1>8
    <3> HIDE DEF HandshakeInv
    <3> QED BY <1>10, <2>1, <3>1
  <2>3. "on_version" \in taken' /\ ~Well("on_version")'
    BY <1>2, <1>5, <1>10
  <2> QED BY <1>2, <1>4, <1>5, <1>7, <1>8, <1>9, <2>1, <2>2, <2>3, Zenon
<1>11. CASE c = "ok"
  <2>1. UNCHANGED outcome
    BY <1>1, <1>11
  <2>2. "on_version" \in taken' /\ Well("on_version")'
    BY <1>2, <1>5, <1>11
  <2>3. outcome # <<>> =>
            /\ \A i \in 1..Len(outcome') : outcome'[i] # "ok"
            /\ \E u \in taken' : ~Well(u)'
    BY <1>2, <1>5, <1>8, <2>1
  <2> QED BY <1>2, <1>4, <1>5, <1>7, <1>8, <1>9, <2>1, <2>2, <2>3, Zenon
<1> QED BY <1>10, <1>11

\* Every step of the handshake, and of the channel under it, keeps it.
LEMMA HandshakeStep == HandshakeInv /\ [HNext]_allvars => HandshakeInv'
<1> SUFFICES ASSUME HandshakeInv, [HNext]_allvars PROVE HandshakeInv'
  OBVIOUS
<1>1. CASE UNCHANGED allvars
  <2>1. ChannelInv'
    BY <1>1, ChannelStep DEF HandshakeInv, allvars
  <2>2. UNCHANGED <<heard, sending, counter, taken, outcome>>
    BY <1>1 DEF allvars, vars, hvars
  <2> QED BY <2>1, <2>2, Zenon DEF HandshakeInv, Ran, Well
<1>2. CASE HandleMessageSent \/ ReceiveVerack
  BY <1>2, HandshakeCounted DEF HandleMessageSent, ReceiveVerack
<1>3. CASE ReceiveVersion
  BY <1>3, HandshakeVersion
<1>4. CASE ReadySend \/ ReadySubscribe \/ WatchStop
  BY <1>4, HandshakeOthers, HandshakeHandlers DEF ReadySend, ReadySubscribe, WatchStop
<1>5. CASE (Obliged \/ Peer \/ Stop) /\ UNCHANGED hvars
  BY <1>5, HandshakeOthers
<1> QED BY <1>1, <1>2, <1>3, <1>4, <1>5 DEF HNext, HObliged

\* What follows from the invariant in a state.
LEMMA HandshakeFacts == HandshakeInv => SuccessExact
<1> SUFFICES ASSUME HandshakeInv PROVE SuccessExact
  OBVIOUS
<1> USE DEF HandshakeInv, ClearanceCount
<1>1. \A u : Ran(u) \in {0, 1}
  BY DEF Ran
<1>2. HTypeOK
  BY <1>1, SMTT(30) DEF HTypeOK, ChannelInv
<1>3. ASSUME \E i \in 1..Len(outcome) : outcome[i] = "ok"
      PROVE  counter = 3 /\ outcome = <<"ok">>
  BY <1>3
<1>4. SuccessIsFinal
  BY <1>3 DEF SuccessIsFinal
<1>5. ASSUME counter = 3, NEW h \in Versions PROVE heard[h] # <<>> /\ Well(h)
  <2>1. Ran("send_version") = 1 /\ Ran("send_verack") = 1 /\ Ran("on_verack") = 1
    BY <1>1, <1>5
  <2>2. \A u \in {"send_version", "send_verack", "on_verack"} :
          u \in taken /\ heard[u] # <<>> /\ Well(u)
    BY <2>1 DEF Ran
  <2>3. sending["send_verack"] # "no"
    BY <2>2, HandshakeHandlers DEF ChannelInv, SendsUncalled
  <2> QED BY <2>2, <2>3 DEF Versions
<1>6. SuccessMeans
  BY <1>3, <1>5 DEF SuccessMeans, Well
<1> QED BY <1>2, <1>4, <1>6 DEF SuccessExact

\* The handshake's inductive invariant holds throughout.
THEOREM HandshakeInvariance == HSpec => []HandshakeInv
BY HandshakeInit, HandshakeStep, PTL DEF HSpec

\* A success is the only report of a handshake, and it means that the exchange
\* is over: both messages went out and both came in (Handshake, SuccessExact).
THEOREM HandshakeSuccessExact == HSpec => []SuccessExact
BY HandshakeInvariance, HandshakeFacts, PTL

\* The channel under a handshake is a channel: what is proved of it holds.
THEOREM HandshakeOnChannel == HSpec => [](ChannelConsistent /\ HeardRight)
<1>1. HandshakeInv => ChannelConsistent /\ HeardRight
  BY ChannelFacts DEF HandshakeInv
<1> QED BY <1>1, HandshakeInvariance, PTL
=============================================================================
