---------------------------- MODULE ChannelSteps ----------------------------
(***************************************************************************)
(* The inductive invariant of a channel, for every set of handlers and     *)
(* timers, every stream of messages and any number of threads in stop(),   *)
(* and the steps that keep it: registration, the start of stop(), the      *)
(* timers, and everything that is read, one lemma for each.                *)
(***************************************************************************)
EXTENDS Channel, TLAPS

-----------------------------------------------------------------------------
(* The inductive invariant of the channel.                                 *)

\* A handler given to subscribe_* has not been called before it is done
\* subscribing, nor while a registry holds it.
SubsUncalled ==
  \A h \in Subs :
    /\ subscribed[h] # "done" => h \notin registry /\ heard[h] = <<>>
    /\ h \in registry => heard[h] = <<>>

\* A handler given to send has not been called before its send is done, and
\* a write's thread is in stop() only on behalf of a write that failed.
SendsUncalled ==
  \A s \in Sends :
    /\ sending[s] # "done" => heard[s] = <<>>
    /\ pc[s] # "idle" => sending[s] = "writing"

\* No send is posted twice.
QueueUnique ==
  \A i, j \in 1..Len(queue) : queue[i] = queue[j] => i = j

\* What has been read whole was sound, and a part past the header is read only
\* of a message whose header was.
StreamSound ==
  /\ \A j \in 1..at : verify_header(Inbound[j]) /\ Inbound[j].checksum
  /\ reading \in {"checksum", "payload"} => at < Len(Inbound) /\ verify_header(Incoming)
  /\ pc["strand"] \in {"reset_load", "load"} => at >= 1

\* A code c about a message read is right for a handler of the topic.
RightFor(topic, c, read) ==
  c.code = "ok" => /\ c.message \in 1..read
                   /\ topic \in {"raw", Inbound[c.message].command}
                   /\ topic = "raw" \/ Inbound[c.message].body

\* A message that a handler was given has been read, is of its kind and parsed.
GivenRead ==
  \A h \in Subs : heard[h] # <<>> => RightFor(Topic[h], heard[h][1], at)

\* A thread is past the setting of stopped_ only when it is set; a handler
\* that was registered at that moment has been called, or a thread is on its
\* way to call it.
EarlyPending ==
  /\ \A t \in Threads : pc[t] \in {"clear", "relay"} => stopped
  /\ ~stopped => early = {}
  /\ \A h \in early :
       \/ heard[h] # <<>>
       \/ h \in registry /\ \E t \in Threads :
            pc[t] = "clear" \/ (pc[t] = "relay" /\ Topic[h] = "stop")

ChannelInv ==
  /\ TypeOK /\ HeardOnce /\ Attended
  /\ SubsUncalled /\ SendsUncalled /\ QueueUnique
  /\ StreamSound /\ GivenRead /\ EarlyPending

-----------------------------------------------------------------------------
(* The steps of the channel.                                               *)

\* The handlers of subscriptions and of sends are different, and none of them
\* has the name of a thread.
LEMMA HandlerSets ==
  /\ "timeout" \in Timers /\ Timers \subseteq {"timeout", "heartbeat"}
  /\ "heartbeat" \in Timers => "ping" \in Sends
  /\ Subs \cap Sends = {}
  /\ (Subs \cup Sends) \cap {"strand", "timeout", "user"} = {}
BY ChannelAssumption, Zenon

\* Calling handlers that were not called before: each of them has heard the
\* code and nothing else, the others have heard what they had.
LEMMA CallOnce ==
  ASSUME TypeOK, HeardOnce, NEW hs \in SUBSET Handlers, NEW c \in Codes,
         \A h \in hs : heard[h] = <<>>, Call(hs, c)
  PROVE  /\ heard' \in [Handlers -> Seq(Codes)]
         /\ \A h \in Handlers : heard'[h] = IF h \in hs THEN <<c>> ELSE heard[h]
         /\ HeardOnce'
<1>1. Append(<<>>, c) = <<c>> /\ <<c>> \in Seq(Codes) /\ Len(<<c>>) = 1
  OBVIOUS
<1>2. \A h \in Handlers : heard'[h] = IF h \in hs THEN <<c>> ELSE heard[h]
  <2>1. \A h \in hs : Append(heard[h], c) = <<c>>
    BY <1>1, Zenon
  <2> QED BY <2>1, Zenon DEF Call
<1>3. heard' \in [Handlers -> Seq(Codes)]
  BY <1>1, <1>2, ZenonT(30) DEF Call, TypeOK
<1>4. ASSUME NEW h \in Handlers PROVE Len(heard'[h]) <= 1
  <2>1. CASE h \in hs
    <3>1. heard'[h] = <<c>>
      BY <1>2, <2>1
    <3> QED BY <3>1
  <2>2. CASE h \notin hs
    <3>1. heard'[h] = heard[h]
      BY <1>2, <2>2
    <3> QED BY <3>1, Zenon DEF HeardOnce
  <2> QED BY <2>1, <2>2
<1> QED BY <1>2, <1>3, <1>4 DEF HeardOnce

\* What the sends rely on: the posted ones are in the queue, each once.
Posted ==
  /\ sending \in [Sends -> {"no", "posted", "writing", "done"}]
  /\ queue \in Seq(Sends)
  /\ \A s \in Sends : sending[s] = "posted" <=> \E i \in 1..Len(queue) : queue[i] = s
  /\ QueueUnique /\ SendsUncalled

\* A send that was not asked for is posted.
Post(s) == sending' = [sending EXCEPT ![s] = "posted"] /\ queue' = Append(queue, s)

\* Posting puts the send in the queue once, and calls no handler.
LEMMA PostPosted ==
  ASSUME Posted, NEW s \in Sends, sending[s] = "no", Post(s), UNCHANGED <<pc, heard>>
  PROVE  Posted'
<1>1. /\ queue' \in Seq(Sends) /\ Len(queue') = Len(queue) + 1
      /\ \A i \in 1..Len(queue) : queue'[i] = queue[i]
      /\ queue'[Len(queue) + 1] = s
  BY DEF Posted, Post
<1>2. \A i \in 1..Len(queue) : queue[i] # s
  BY DEF Posted
<1>3. QueueUnique'
  BY <1>1, <1>2 DEF Posted, QueueUnique
<1>4. /\ sending' \in [Sends -> {"no", "posted", "writing", "done"}]
      /\ SendsUncalled'
  BY DEF Posted, Post, SendsUncalled
<1>5. ASSUME NEW u \in Sends
      PROVE  sending'[u] = "posted" <=> \E i \in 1..Len(queue') : queue'[i] = u
  <2>1. CASE u = s
    BY <1>1, <2>1 DEF Post, Posted
  <2>2. CASE u # s
    <3>1. sending'[u] = sending[u]
      BY <2>2 DEF Post, Posted
    <3>2. (\E i \in 1..Len(queue') : queue'[i] = u) <=> \E i \in 1..Len(queue) : queue[i] = u
      BY <1>1, <2>2
    <3> QED BY <3>1, <3>2 DEF Posted
  <2> QED BY <2>1, <2>2
<1> QED BY <1>1, <1>3, <1>4, <1>5 DEF Posted

\* A step that posts nothing, calls no handler of a send and starts no thread
\* of one.
LEMMA SendsKept ==
  ASSUME SendsUncalled, QueueUnique, UNCHANGED <<sending, queue>>,
         \A s \in Sends : heard'[s] = heard[s] /\ (pc'[s] # "idle" => pc[s] # "idle")
  PROVE  SendsUncalled' /\ QueueUnique'
BY DEF SendsUncalled, QueueUnique

\* A thread goes from one place to another and the others stay where they are.
LEMMA GoMoves ==
  ASSUME TypeOK, NEW t \in Threads, NEW step,
         step \in {"idle", "reset", "reset_load", "load"} \cup Stopping,
         pc' = [pc EXCEPT ![t] = step]
  PROVE  /\ pc' \in [Threads -> {"idle", "reset", "reset_load", "load"} \cup Stopping]
         /\ \A u \in Threads : pc'[u] = IF u = t THEN step ELSE pc[u]
BY DEF TypeOK

\* The registration of a handler that has passed the test.
LEMMA RegisterInv ==
  ASSUME NEW h \in Subs, ChannelInv, Register(h)
  PROVE  ChannelInv'
<1> USE HandlerSets DEF ChannelInv, Register
<1>1. TypeOK'
  BY DEF TypeOK, Threads, Stopping, Parts
<1>2. HeardOnce' /\ SubsUncalled' /\ GivenRead'
  BY DEF HeardOnce, SubsUncalled, GivenRead, TypeOK
<1>3. SendsUncalled' /\ QueueUnique'
  BY DEF SendsUncalled, QueueUnique, TypeOK, Threads
<1>4. StreamSound'
  BY DEF StreamSound, Incoming, TypeOK, Threads
<1>5. EarlyPending'
  BY DEF EarlyPending, TypeOK, Threads, SubsUncalled
<1>6. Attended'
  BY DEF Attended, TypeOK, Threads
<1> QED BY <1>1, <1>2, <1>3, <1>4, <1>5, <1>6

\* A user enters stop().
LEMMA StopInv ==
  ASSUME ChannelInv, Stop
  PROVE  ChannelInv'
<1> USE HandlerSets DEF ChannelInv, Stop, EnterStop, Go
<1>1. TypeOK'
  BY DEF TypeOK, Threads, Stopping, Parts
<1>2. HeardOnce' /\ SubsUncalled' /\ GivenRead'
  BY DEF HeardOnce, SubsUncalled, GivenRead, TypeOK
<1>3. SendsUncalled' /\ QueueUnique'
  BY DEF SendsUncalled, QueueUnique, TypeOK, Threads
<1>4. StreamSound'
  BY DEF StreamSound, Incoming, TypeOK, Threads
<1>5. EarlyPending'
  BY Zenon DEF EarlyPending, TypeOK, Threads, SubsUncalled
<1>6. Attended'
  BY DEF Attended, TypeOK, Threads
<1> QED BY <1>1, <1>2, <1>3, <1>4, <1>5, <1>6

\* stopped_ is set, and the registered handlers are noted.
LEMMA StopShutInv ==
  ASSUME NEW t \in Threads, ChannelInv, StopShut(t)
  PROVE  ChannelInv'
<1> USE HandlerSets DEF ChannelInv, StopShut, Go
<1>1. TypeOK'
  BY DEF TypeOK, Threads, Stopping, Parts
<1>2. HeardOnce' /\ SubsUncalled' /\ GivenRead'
  BY DEF HeardOnce, SubsUncalled, GivenRead, TypeOK
<1>3. SendsUncalled' /\ QueueUnique'
  BY DEF SendsUncalled, QueueUnique, TypeOK, Threads
<1>4. StreamSound'
  BY DEF StreamSound, Incoming, TypeOK, Threads
<1>5. EarlyPending'
  BY DEF EarlyPending, TypeOK, Threads, SubsUncalled
<1>6. Attended'
  BY DEF Attended, TypeOK, Threads
<1> QED BY <1>1, <1>2, <1>3, <1>4, <1>5, <1>6

\* Expiry of the timeout.
LEMMA ExpireInv ==
  ASSUME ChannelInv, Expire
  PROVE  ChannelInv'
<1> USE HandlerSets DEF ChannelInv, Expire
<1>1. TypeOK'
  BY DEF TypeOK, Threads, Stopping, Parts
<1>2. HeardOnce' /\ SubsUncalled' /\ GivenRead'
  BY DEF HeardOnce, SubsUncalled, GivenRead, TypeOK
<1>3. SendsUncalled' /\ QueueUnique'
  BY DEF SendsUncalled, QueueUnique, TypeOK, Threads
<1>4. StreamSound'
  BY DEF StreamSound, Incoming, TypeOK, Threads
<1>5. EarlyPending'
  BY DEF EarlyPending, TypeOK, Threads, SubsUncalled
<1>6. Attended'
  BY DEF Attended, TypeOK, Threads
<1> QED BY <1>1, <1>2, <1>3, <1>4, <1>5, <1>6

\* The handler of the timeout enters stop().
LEMMA HandleTimeoutInv ==
  ASSUME ChannelInv, HandleTimeout
  PROVE  ChannelInv'
<1> USE HandlerSets DEF ChannelInv
<1>1. \/ stopped /\ pc' = pc
      \/ ~stopped /\ pc' = [pc EXCEPT !["timeout"] = "shut"]
  BY DEF HandleTimeout, EnterStop, Go
<1>2. pc["timeout"] = "idle" /\ due' = FALSE
      /\ UNCHANGED <<stopped, reading, at, armed, subscribed, registry, early, sending,
                     queue, heard>>
  BY DEF HandleTimeout
<1> DEFINE Places == {"idle", "reset", "reset_load", "load"} \cup Stopping
<1>9. /\ pc' \in [Threads -> Places]
      /\ \A t \in Threads \ {"timeout"} : pc'[t] = pc[t]
      /\ pc'["timeout"] = IF stopped THEN "idle" ELSE "shut"
      /\ "timeout" \in Threads
  <2>1. CASE stopped
    BY <1>1, <1>2, <2>1 DEF TypeOK, Threads
  <2>2. CASE ~stopped
    <3>1. pc' = [pc EXCEPT !["timeout"] = "shut"]
      BY <1>1, <2>2, Zenon
    <3> QED BY <2>2, <3>1, GoMoves, Zenon DEF Threads, Stopping
  <2> QED BY <2>1, <2>2
<1>3. TypeOK'
  BY <1>2, <1>9, ZenonT(40) DEF TypeOK
<1>4. HeardOnce' /\ SubsUncalled' /\ GivenRead'
  BY <1>2 DEF HeardOnce, SubsUncalled, GivenRead, TypeOK
<1>5. SendsUncalled' /\ QueueUnique'
  <2>1. \A s \in Sends : pc'[s] = pc[s]
    BY <1>9, Zenon DEF Threads
  <2>2. UNCHANGED <<sending, heard, queue>>
    BY <1>2
  <2> QED BY <2>1, <2>2 DEF SendsUncalled, QueueUnique
<1>6. StreamSound'
  BY <1>1, <1>2 DEF StreamSound, Incoming, TypeOK, Threads
<1>7. EarlyPending'
  <2>1. \A t \in Threads : pc'[t] \in {"clear", "relay"} \/ pc[t] \in {"clear", "relay"}
                             => pc'[t] = pc[t]
    BY <1>2, <1>9
  <2>2. UNCHANGED <<stopped, early, heard, registry>>
    BY <1>2
  <2> QED BY <2>1, <2>2 DEF EarlyPending
<1>8. Attended'
  BY <1>1, <1>2 DEF Attended, TypeOK, Threads
<1> QED BY <1>3, <1>4, <1>5, <1>6, <1>7, <1>8

\* The heartbeat posts its ping.
LEMMA HandleHeartbeatInv ==
  ASSUME ChannelInv, HandleHeartbeat
  PROVE  ChannelInv'
<1> USE HandlerSets DEF ChannelInv
<1>1. /\ "ping" \in Sends
      /\ armed' = [armed EXCEPT !["heartbeat"] = FALSE]
      /\ UNCHANGED <<stopped, reading, at, due, pc, subscribed, registry, early, heard>>
      /\ \/ UNCHANGED <<sending, queue>>
         \/ sending["ping"] = "no" /\ Post("ping")
  BY DEF HandleHeartbeat, Post
<1>2. Posted'
  <2>1. Posted
    BY DEF Posted, TypeOK
  <2>2. CASE UNCHANGED <<sending, queue>>
    BY <1>1, <2>1, <2>2 DEF Posted, QueueUnique, SendsUncalled
  <2>3. CASE sending["ping"] = "no" /\ Post("ping")
    BY <1>1, <2>1, <2>3, PostPosted
  <2> QED BY <1>1, <2>2, <2>3
<1>3. TypeOK' /\ QueueUnique' /\ SendsUncalled'
  BY <1>1, <1>2, Zenon DEF Posted, TypeOK
<1>4. HeardOnce' /\ SubsUncalled' /\ GivenRead'
  BY <1>1 DEF HeardOnce, SubsUncalled, GivenRead, TypeOK
<1>5. StreamSound' /\ EarlyPending' /\ Attended'
  BY <1>1 DEF StreamSound, Incoming, EarlyPending, Attended, TypeOK
<1> QED BY <1>3, <1>4, <1>5

\* The timers are set again.
LEMMA ResetTimersInv ==
  ASSUME ChannelInv, ResetTimers
  PROVE  ChannelInv'
<1> USE HandlerSets DEF ChannelInv, ResetTimers, Go
<1>1. TypeOK'
  BY DEF TypeOK, Threads, Stopping, Parts
<1>2. HeardOnce' /\ SubsUncalled' /\ GivenRead'
  BY DEF HeardOnce, SubsUncalled, GivenRead, TypeOK
<1>3. SendsUncalled' /\ QueueUnique'
  BY DEF SendsUncalled, QueueUnique, TypeOK, Threads
<1>4. StreamSound'
  BY DEF StreamSound, Incoming, TypeOK, Threads
<1>5. EarlyPending'
  BY ZenonT(30) DEF EarlyPending, TypeOK, Threads, SubsUncalled
<1>6. Attended'
  BY DEF Attended, TypeOK, Threads
<1> QED BY <1>1, <1>2, <1>3, <1>4, <1>5, <1>6

\* A read handler that finds the channel stopped.
LEMMA ReadStoppedInv ==
  ASSUME ChannelInv, ReadStopped
  PROVE  ChannelInv'
<1> USE HandlerSets DEF ChannelInv, ReadStopped
<1>1. TypeOK'
  BY DEF TypeOK, Threads, Stopping, Parts
<1>2. HeardOnce' /\ SubsUncalled' /\ GivenRead'
  BY DEF HeardOnce, SubsUncalled, GivenRead, TypeOK
<1>3. SendsUncalled' /\ QueueUnique'
  BY DEF SendsUncalled, QueueUnique, TypeOK, Threads
<1>4. StreamSound'
  BY DEF StreamSound, Incoming, TypeOK, Threads
<1>5. EarlyPending'
  BY DEF EarlyPending, TypeOK, Threads, SubsUncalled
<1>6. Attended'
  BY DEF Attended, TypeOK, Threads
<1> QED BY <1>1, <1>2, <1>3, <1>4, <1>5, <1>6

\* A read fails and its handler enters stop().
LEMMA ReadFailsInv ==
  ASSUME ChannelInv, ReadFails
  PROVE  ChannelInv'
<1> USE HandlerSets DEF ChannelInv, ReadFails, EnterStop, Go
<1>1. TypeOK'
  BY DEF TypeOK, Threads, Stopping, Parts
<1>2. HeardOnce' /\ SubsUncalled' /\ GivenRead'
  BY DEF HeardOnce, SubsUncalled, GivenRead, TypeOK
<1>3. SendsUncalled' /\ QueueUnique'
  BY DEF SendsUncalled, QueueUnique, TypeOK, Threads
<1>4. StreamSound'
  BY DEF StreamSound, Incoming, TypeOK, Threads
<1>5. EarlyPending'
  BY DEF EarlyPending, TypeOK, Threads, SubsUncalled
<1>6. Attended'
  BY DEF Attended, TypeOK, Threads
<1> QED BY <1>1, <1>2, <1>3, <1>4, <1>5, <1>6

\* A header arrives.
LEMMA HandleReadHeaderInv ==
  ASSUME ChannelInv, HandleReadHeader
  PROVE  ChannelInv'
<1> USE HandlerSets DEF ChannelInv
<1>1. /\ pc["strand"] = "idle" /\ at < Len(Inbound)
      /\ UNCHANGED <<stopped, at, armed, due, subscribed, registry, early, sending, queue,
                     heard>>
      /\ \/ /\ verify_header(Incoming)
            /\ reading' = "checksum" /\ pc' = [pc EXCEPT !["strand"] = "reset"]
         \/ reading' = "none" /\ pc' = [pc EXCEPT !["strand"] = "test"]
  BY DEF HandleReadHeader, Arrives, EnterStop, Go
<1>2. pc["strand"] = "idle" /\ reading = "header"
  BY DEF HandleReadHeader, Arrives
<1> DEFINE Places == {"idle", "reset", "reset_load", "load"} \cup Stopping
<1>9. /\ pc' \in [Threads -> Places]
      /\ \A t \in Threads \ {"strand"} : pc'[t] = pc[t]
      /\ pc'["strand"] \in {"reset", "test"}
      /\ reading' \in {"checksum", "none"}
      /\ "strand" \in Threads
  <2>1. CASE reading' = "checksum" /\ pc' = [pc EXCEPT !["strand"] = "reset"]
    BY <2>1, GoMoves, Zenon DEF Threads, Stopping
  <2>2. CASE reading' = "none" /\ pc' = [pc EXCEPT !["strand"] = "test"]
    BY <2>2, GoMoves, Zenon DEF Threads, Stopping
  <2> QED BY <1>1, <2>1, <2>2
<1>3. TypeOK'
  BY <1>1, <1>9 DEF TypeOK, Threads, Stopping, Parts
<1>4. HeardOnce' /\ SubsUncalled' /\ GivenRead'
  BY <1>1 DEF HeardOnce, SubsUncalled, GivenRead, TypeOK
<1>5. SendsUncalled' /\ QueueUnique'
  <2>1. \A s \in Sends : pc'[s] = pc[s]
    BY <1>9, Zenon DEF Threads
  <2>2. UNCHANGED <<sending, heard, queue>>
    BY <1>1
  <2> QED BY <2>1, <2>2 DEF SendsUncalled, QueueUnique
<1>6. StreamSound'
  BY <1>1 DEF StreamSound, Incoming, TypeOK, Threads
<1>7. EarlyPending'
  <2>1. \A t \in Threads : pc'[t] \in {"clear", "relay"} \/ pc[t] \in {"clear", "relay"}
                             => pc'[t] = pc[t]
    BY <1>2, <1>9
  <2>2. UNCHANGED <<stopped, early, heard, registry>>
    BY <1>1
  <2> QED BY <2>1, <2>2 DEF EarlyPending
<1>8. Attended'
  <2>1. reading \in Parts
    BY <1>2 DEF Parts
  <2> QED BY <1>1, <2>1 DEF Attended, TypeOK, Threads, Parts
<1> QED BY <1>3, <1>4, <1>5, <1>6, <1>7, <1>8

\* A checksum arrives.
LEMMA HandleReadChecksumInv ==
  ASSUME ChannelInv, HandleReadChecksum
  PROVE  ChannelInv'
<1> USE HandlerSets DEF ChannelInv, HandleReadChecksum, Go, Arrives
<1>1. TypeOK'
  BY DEF TypeOK, Threads, Stopping, Parts
<1>2. HeardOnce' /\ SubsUncalled' /\ GivenRead'
  BY DEF HeardOnce, SubsUncalled, GivenRead, TypeOK
<1>3. SendsUncalled' /\ QueueUnique'
  BY DEF SendsUncalled, QueueUnique, TypeOK, Threads
<1>4. StreamSound'
  BY DEF StreamSound, Incoming, TypeOK, Threads
<1>5. EarlyPending'
  BY DEF EarlyPending, TypeOK, Threads, SubsUncalled
<1>6. Attended'
  BY DEF Attended, TypeOK, Threads, Parts
<1> QED BY <1>1, <1>2, <1>3, <1>4, <1>5, <1>6

\* A posted send is written.
LEMMA DoSendInv ==
  ASSUME ChannelInv, DoSend
  PROVE  ChannelInv'
<1> USE HandlerSets DEF ChannelInv
<1>1. /\ UNCHANGED <<stopped, reading, at, armed, due, pc, subscribed, registry, early, heard>>
      /\ sending' = [sending EXCEPT ![Head(queue)] = "writing"]
  BY DEF DoSend
<1>2. /\ Len(queue) \in Nat \ {0}
      /\ Head(queue) = queue[1] /\ queue[1] \in Sends
      /\ queue' \in Seq(Sends) /\ Len(queue') = Len(queue) - 1
      /\ \A i \in 1..Len(queue) - 1 : queue'[i] = queue[i + 1]
  BY DEF DoSend, TypeOK
<1>3. QueueUnique'
  BY <1>2, SMTT(30) DEF QueueUnique
<1>4. sending[queue[1]] = "posted"
  BY <1>2 DEF TypeOK
<1>5. SendsUncalled'
  BY <1>1, <1>2, <1>4 DEF SendsUncalled, TypeOK
<1>6. ASSUME NEW u \in Sends
      PROVE  sending'[u] = "posted" <=> \E i \in 1..Len(queue') : queue'[i] = u
  <2>1. CASE u = queue[1]
    <3>1. \A i \in 1..Len(queue') : queue'[i] # u
      BY <1>2, <2>1 DEF QueueUnique
    <3> QED BY <1>1, <1>2, <2>1, <3>1 DEF TypeOK
  <2>2. CASE u # queue[1]
    <3>1. sending'[u] = sending[u]
      BY <1>1, <1>2, <2>2 DEF TypeOK
    <3>2. ASSUME NEW i \in 1..Len(queue), queue[i] = u
          PROVE  \E j \in 1..Len(queue') : queue'[j] = u
      <4>1. i - 1 \in 1..Len(queue') /\ queue'[i - 1] = u
        BY <1>2, <2>2, <3>2
      <4> QED BY <4>1
    <3>3. ASSUME NEW i \in 1..Len(queue'), queue'[i] = u
          PROVE  \E j \in 1..Len(queue) : queue[j] = u
      BY <1>2, <3>3
    <3> QED BY <3>1, <3>2, <3>3 DEF TypeOK
  <2> QED BY <2>1, <2>2
<1>7. TypeOK'
  BY <1>1, <1>2, <1>6 DEF TypeOK
<1>8. HeardOnce' /\ SubsUncalled' /\ GivenRead'
  BY <1>1 DEF HeardOnce, SubsUncalled, GivenRead, TypeOK
<1>9. StreamSound' /\ EarlyPending' /\ Attended'
  BY <1>1 DEF StreamSound, Incoming, EarlyPending, Attended, TypeOK
<1> QED BY <1>3, <1>5, <1>7, <1>8, <1>9

\* A write fails and its completion enters stop().
LEMMA WriteFailsInv ==
  ASSUME NEW s \in Sends, ChannelInv, WriteFails(s)
  PROVE  ChannelInv'
<1> USE HandlerSets DEF ChannelInv, WriteFails, EnterStop, Go
<1>1. TypeOK'
  BY DEF TypeOK, Threads, Stopping, Parts
<1>2. HeardOnce' /\ SubsUncalled' /\ GivenRead'
  BY DEF HeardOnce, SubsUncalled, GivenRead, TypeOK
<1>3. SendsUncalled' /\ QueueUnique'
  BY DEF SendsUncalled, QueueUnique, TypeOK, Threads
<1>4. StreamSound'
  BY DEF StreamSound, Incoming, TypeOK, Threads
<1>5. EarlyPending'
  BY DEF EarlyPending, TypeOK, Threads, SubsUncalled
<1>6. Attended'
  BY DEF Attended, TypeOK, Threads
<1> QED BY <1>1, <1>2, <1>3, <1>4, <1>5, <1>6

-----------------------------------------------------------------------------
(* The steps that call handlers.                                           *)

\* The errors are codes, and not the code of success.
LEMMA ErrorCodes ==
  ASSUME NEW e \in {"service_stopped", "channel_timeout", "bad_stream"}
  PROVE  Error(e) \in Codes /\ Error(e).code # "ok"
BY DEF Error, Codes

\* A code that was right stays right as more is read.
LEMMA RightForMore ==
  ASSUME NEW topic, NEW c, NEW r \in Nat, NEW q \in Nat, r <= q, RightFor(topic, c, r)
  PROVE  RightFor(topic, c, q)
BY DEF RightFor

\* Handlers given to subscribe_* are called for the first time, with a code
\* that is right for each, and leave the registries.
LEMMA SubsCalled ==
  ASSUME ChannelInv, NEW hs \in SUBSET Handlers, NEW c \in Codes,
         \A h \in hs : heard[h] = <<>>, Call(hs, c),
         registry' = registry \ hs,
         subscribed' \in [Subs -> {"no", "passed", "done"}],
         \A h \in Subs : IF h \in hs THEN subscribed'[h] = "done"
                                     ELSE subscribed'[h] = subscribed[h],
         at' \in Nat, at <= at',
         \A h \in hs \cap Subs : RightFor(Topic[h], c, at')
  PROVE  /\ heard' \in [Handlers -> Seq(Codes)]
         /\ \A h \in Handlers : heard'[h] = IF h \in hs THEN <<c>> ELSE heard[h]
         /\ HeardOnce' /\ SubsUncalled' /\ GivenRead'
<1> USE DEF ChannelInv
<1>1. /\ heard' \in [Handlers -> Seq(Codes)]
      /\ \A h \in Handlers : heard'[h] = IF h \in hs THEN <<c>> ELSE heard[h]
      /\ HeardOnce'
  BY CallOnce, Zenon
<1>2. SubsUncalled'
  BY <1>1 DEF SubsUncalled, TypeOK, Handlers
<1>3. GivenRead'
  <2> SUFFICES ASSUME NEW h \in Subs, heard'[h] # <<>>
               PROVE  RightFor(Topic[h], heard'[h][1], at')
    BY DEF GivenRead
  <2>1. CASE h \in hs
    <3>1. heard'[h] = <<c>>
      BY <1>1, <2>1 DEF Handlers
    <3> QED BY <2>1, <3>1
  <2>2. CASE h \notin hs
    <3>1. heard'[h] = heard[h]
      BY <1>1, <2>2 DEF Handlers
    <3>2. RightFor(Topic[h], heard[h][1], at)
      BY <3>1 DEF GivenRead
    <3>3. RightFor(Topic[h], heard[h][1], at')
      BY <3>2, RightForMore DEF TypeOK
    <3> QED BY <3>1, <3>3
  <2> QED BY <2>1, <2>2
<1> QED BY <1>1, <1>2, <1>3

\* subscriber::relay calls handlers that were not called before.
LEMMA RelayCalls ==
  ASSUME ChannelInv, NEW topics, NEW c \in Codes, Relay(topics, c),
         UNCHANGED subscribed, at' \in Nat, at <= at',
         \A h \in Subs : Topic[h] \in topics => RightFor(Topic[h], c, at')
  PROVE  /\ heard' \in [Handlers -> Seq(Codes)]
         /\ \A h \in Sends : heard'[h] = heard[h]
         /\ \A h \in Subs : heard'[h] = IF h \in registry /\ Topic[h] \in topics
                                        THEN <<c>> ELSE heard[h]
         /\ registry' = {h \in registry : Topic[h] \notin topics}
         /\ HeardOnce' /\ SubsUncalled' /\ GivenRead'
<1> USE DEF ChannelInv
<1> DEFINE hs == {h \in registry : Topic[h] \in topics}
<1>1. registry' = registry \ hs /\ Call(hs, c)
  BY DEF Relay
<1>2. /\ hs \in SUBSET Handlers
      /\ \A h \in hs : h \in Subs /\ heard[h] = <<>> /\ subscribed[h] = "done"
  BY DEF TypeOK, SubsUncalled, Handlers
<1>3. /\ \A h \in Subs : IF h \in hs THEN subscribed'[h] = "done"
                                     ELSE subscribed'[h] = subscribed[h]
      /\ subscribed' \in [Subs -> {"no", "passed", "done"}]
  BY <1>2 DEF TypeOK
<1>4. \A h \in hs \cap Subs : RightFor(Topic[h], c, at')
  OBVIOUS
<1> HIDE DEF hs
<1>5. /\ heard' \in [Handlers -> Seq(Codes)]
      /\ \A h \in Handlers : heard'[h] = IF h \in hs THEN <<c>> ELSE heard[h]
      /\ HeardOnce' /\ SubsUncalled' /\ GivenRead'
  BY <1>1, <1>2, <1>3, <1>4, SubsCalled, Zenon
<1>6. \A h \in Sends : h \notin hs
  BY <1>2, ChannelAssumption
<1> QED BY <1>1, <1>5, <1>6 DEF hs, Handlers

\* Handlers noted at the stop stay accounted for when a step takes from the
\* registries only handlers it calls and no thread leaves clear or relay.
LEMMA EarlyKept ==
  ASSUME EarlyPending, UNCHANGED <<stopped, early>>,
         \A t \in Threads : pc'[t] \in {"clear", "relay"} \/ pc[t] \in {"clear", "relay"}
                              => pc'[t] = pc[t],
         \A h \in early : \/ heard'[h] # <<>>
                          \/ heard'[h] = heard[h] /\ (h \in registry => h \in registry')
  PROVE  EarlyPending'
<1>1. \A t \in Threads : pc'[t] \in {"clear", "relay"} => stopped'
  BY DEF EarlyPending
<1>2. ASSUME NEW h \in early', heard'[h] = <<>>
      PROVE  /\ h \in registry'
             /\ \E t \in Threads : pc'[t] = "clear" \/ (pc'[t] = "relay" /\ Topic[h] = "stop")
  <2>1. heard[h] = <<>> /\ (h \in registry => h \in registry')
    BY <1>2
  <2>2. PICK t \in Threads : pc[t] = "clear" \/ (pc[t] = "relay" /\ Topic[h] = "stop")
    BY <2>1 DEF EarlyPending
  <2>3. pc'[t] = pc[t]
    BY <2>2
  <2> QED BY <2>1, <2>2, <2>3 DEF EarlyPending
<1> QED BY <1>1, <1>2 DEF EarlyPending

\* clear_subscriptions.
LEMMA StopClearInv ==
  ASSUME NEW t \in Threads, ChannelInv, StopClear(t)
  PROVE  ChannelInv'
<1> USE HandlerSets DEF ChannelInv
<1>1. /\ pc[t] = "clear"
      /\ UNCHANGED <<stopped, reading, at, armed, due, subscribed, early, sending, queue>>
  BY DEF StopClear
<1>2. /\ pc' \in [Threads -> {"idle", "reset", "reset_load", "load"} \cup Stopping]
      /\ \A u \in Threads : pc'[u] = IF u = t THEN "relay" ELSE pc[u]
  BY GoMoves, Zenon DEF StopClear, Go, Stopping
<1>3. /\ heard' \in [Handlers -> Seq(Codes)]
      /\ \A h \in Sends : heard'[h] = heard[h]
      /\ \A h \in Subs : heard'[h] =
           IF h \in registry /\ Topic[h] \in Commands \cup {"raw"}
           THEN <<Error("service_stopped")>> ELSE heard[h]
      /\ registry' = {h \in registry : Topic[h] \notin Commands \cup {"raw"}}
      /\ HeardOnce' /\ SubsUncalled' /\ GivenRead'
  <2>1. at' \in Nat /\ at <= at'
    BY <1>1 DEF TypeOK
  <2>2. \A h \in Subs : Topic[h] \in Commands \cup {"raw"}
                          => RightFor(Topic[h], Error("service_stopped"), at')
    BY ErrorCodes DEF RightFor
  <2> QED BY <1>1, <2>1, <2>2, ErrorCodes, RelayCalls DEF StopClear
<1>4. TypeOK'
  BY <1>1, <1>2, <1>3 DEF TypeOK, Threads, Stopping
<1>5. SendsUncalled' /\ QueueUnique'
  <2>1. \A s \in Sends : heard'[s] = heard[s] /\ (pc'[s] # "idle" => pc[s] # "idle")
    BY <1>1, <1>2, <1>3 DEF Threads
  <2> QED BY <1>1, <2>1, SendsKept
<1>6. StreamSound'
  BY <1>1, <1>2 DEF StreamSound, Incoming, Threads
<1>7. EarlyPending'
  <2>1. stopped /\ \A u \in Threads : pc'[u] \in {"clear", "relay"} => stopped'
    BY <1>1, <1>2 DEF EarlyPending
  <2>2. ASSUME NEW h \in early', heard'[h] = <<>>
        PROVE  h \in registry' /\ pc'[t] = "relay" /\ Topic[h] = "stop"
    <3>1. h \in Subs /\ Topic[h] \in Commands \cup {"raw", "stop"}
      BY <1>1, TopicAssumption DEF TypeOK
    <3>2. heard[h] = <<>> /\ h \in registry /\ Topic[h] \notin Commands \cup {"raw"}
      <4>1. <<Error("service_stopped")>> # <<>>
        OBVIOUS
      <4>2. heard[h] = <<>> /\ ~(h \in registry /\ Topic[h] \in Commands \cup {"raw"})
        BY <1>3, <2>2, <3>1, <4>1, Zenon
      <4>3. h \in registry
        BY <1>1, <4>2 DEF EarlyPending
      <4> QED BY <4>2, <4>3
    <3> QED BY <1>2, <1>3, <3>1, <3>2
  <2> QED BY <1>1, <2>1, <2>2 DEF EarlyPending
<1>8. Attended'
  BY <1>1, <1>2, <1>7 DEF Attended, EarlyPending
<1> QED BY <1>3, <1>4, <1>5, <1>6, <1>7, <1>8

\* The handlers of a message are called.
LEMMA LoadInv ==
  ASSUME ChannelInv, Load
  PROVE  ChannelInv'
<1> USE HandlerSets DEF ChannelInv
<1> DEFINE topics == {Inbound[at].command} \cap Commands
           c == IF Inbound[at].body THEN Ok(at) ELSE Error("bad_stream")
<1>1. /\ pc["strand"] = "load" /\ at \in 1..Len(Inbound)
      /\ UNCHANGED <<stopped, reading, at, armed, due, subscribed, early, sending, queue>>
  BY DEF Load, StreamSound, TypeOK
<1>2. /\ pc' \in [Threads -> {"idle", "reset", "reset_load", "load"} \cup Stopping]
      /\ \A u \in Threads : pc'[u] = IF u = "strand" THEN "idle" ELSE pc[u]
  BY GoMoves, Zenon DEF Load, Go, Threads
<1>3. /\ c \in Codes
      /\ \A h \in Subs : Topic[h] \in topics => RightFor(Topic[h], c, at')
  <2>1. CASE Inbound[at].body
    <3>1. c = Ok(at)
      BY <2>1
    <3>2. Ok(at) \in Codes
      BY <1>1 DEF Ok, Codes
    <3>3. ASSUME NEW h \in Subs, Topic[h] \in topics PROVE RightFor(Topic[h], Ok(at), at')
      BY <1>1, <2>1, <3>3 DEF Ok, RightFor
    <3> QED BY <3>1, <3>2, <3>3
  <2>2. CASE ~Inbound[at].body
    <3>1. c = Error("bad_stream")
      BY <2>2, Zenon
    <3> QED BY <3>1, ErrorCodes DEF RightFor
  <2> QED BY <2>1, <2>2
<1> HIDE DEF topics, c
<1>4. /\ heard' \in [Handlers -> Seq(Codes)]
      /\ \A h \in Sends : heard'[h] = heard[h]
      /\ \A h \in Subs : heard'[h] =
           IF h \in registry /\ Topic[h] \in topics THEN <<c>> ELSE heard[h]
      /\ registry' = {h \in registry : Topic[h] \notin topics}
      /\ HeardOnce' /\ SubsUncalled' /\ GivenRead'
  <2>1. Relay(topics, c)
    BY DEF Load, topics, c
  <2>2. at' \in Nat /\ at <= at'
    BY <1>1
  <2> QED BY <1>1, <1>3, <2>1, <2>2, RelayCalls, SMTT(30)
<1>5. TypeOK'
  BY <1>1, <1>2, <1>4 DEF TypeOK, Threads, Stopping
<1>6. SendsUncalled' /\ QueueUnique'
  <2>1. \A s \in Sends : heard'[s] = heard[s] /\ (pc'[s] # "idle" => pc[s] # "idle")
    BY <1>1, <1>2, <1>4 DEF Threads
  <2> QED BY <1>1, <2>1, SendsKept
<1>7. StreamSound'
  BY <1>1, <1>2 DEF StreamSound, Incoming, Threads
<1>8. EarlyPending'
  <2>1. \A t \in Threads : pc'[t] \in {"clear", "relay"} \/ pc[t] \in {"clear", "relay"}
                             => pc'[t] = pc[t]
    BY <1>1, <1>2
  <2>2. ASSUME NEW h \in early
        PROVE  \/ heard'[h] # <<>>
               \/ heard'[h] = heard[h] /\ (h \in registry => h \in registry')
    <3>1. \/ heard'[h] = <<c>>
          \/ heard'[h] = heard[h] /\ (h \in registry => h \in registry')
      BY <1>4 DEF TypeOK
    <3> QED BY <3>1, SMTT(30)
  <2> QED BY <1>1, <2>1, <2>2, EarlyKept
<1>9. Attended'
  BY <1>1, <1>2 DEF Attended, Threads
<1> QED BY <1>4, <1>5, <1>6, <1>7, <1>8, <1>9

\* A payload arrives: the raw handlers are called.
LEMMA HandleReadPayloadInv ==
  ASSUME ChannelInv, HandleReadPayload
  PROVE  ChannelInv'
<1> USE HandlerSets DEF ChannelInv
<1> DEFINE c == IF Incoming.checksum THEN Ok(at + 1) ELSE Error("bad_stream")
<1>1. /\ pc["strand"] = "idle" /\ reading = "payload" /\ ~stopped
      /\ at \in Nat /\ at + 1 <= Len(Inbound) /\ verify_header(Inbound[at + 1])
      /\ Len(Inbound) \in Nat
      /\ UNCHANGED <<stopped, armed, due, subscribed, early, sending, queue>>
  BY SMTT(30) DEF HandleReadPayload, Arrives, StreamSound, Incoming, TypeOK
<1>2. \/ /\ Inbound[at + 1].checksum /\ c = Ok(at + 1)
         /\ at' = at + 1 /\ reading' = "header" /\ Go("strand", "reset_load")
      \/ /\ c = Error("bad_stream")
         /\ at' = at /\ reading' = "none" /\ Go("strand", "test")
  <2>1. CASE Incoming.checksum
    BY <2>1 DEF HandleReadPayload, Incoming
  <2>2. CASE ~Incoming.checksum
    BY <2>2 DEF HandleReadPayload, EnterStop
  <2> QED BY <2>1, <2>2
<1>3. Relay({"raw"}, c)
  <2>1. CASE Incoming.checksum
    BY <2>1 DEF HandleReadPayload
  <2>2. CASE ~Incoming.checksum
    BY <2>2, SMTT(30) DEF HandleReadPayload
  <2> QED BY <2>1, <2>2
<1> HIDE DEF c
<1>4. /\ c \in Codes /\ at' \in Nat /\ at <= at' /\ at' <= Len(Inbound)
      /\ \A h \in Subs : Topic[h] \in {"raw"} => RightFor(Topic[h], c, at')
  <2>1. CASE c = Ok(at + 1) /\ at' = at + 1
    BY <1>1, <2>1 DEF Ok, Codes, RightFor
  <2>2. CASE c = Error("bad_stream") /\ at' = at
    BY <1>1, <2>2, ErrorCodes DEF RightFor
  <2> QED BY <1>2, <2>1, <2>2
<1>5. /\ heard' \in [Handlers -> Seq(Codes)]
      /\ \A h \in Sends : heard'[h] = heard[h]
      /\ \A h \in Subs : heard'[h] =
           IF h \in registry /\ Topic[h] \in {"raw"} THEN <<c>> ELSE heard[h]
      /\ registry' = {h \in registry : Topic[h] \notin {"raw"}}
      /\ HeardOnce' /\ SubsUncalled' /\ GivenRead'
  BY <1>1, <1>3, <1>4, RelayCalls, SMTT(30)
<1>6. /\ pc' \in [Threads -> {"idle", "reset", "reset_load", "load"} \cup Stopping]
      /\ \A u \in Threads \ {"strand"} : pc'[u] = pc[u]
      /\ pc'["strand"] \in {"reset_load", "test"} /\ "strand" \in Threads
      /\ reading' = IF pc'["strand"] = "test" THEN "none" ELSE "header"
      /\ pc'["strand"] = "reset_load" => at' = at + 1 /\ Inbound[at + 1].checksum
      /\ pc'["strand"] = "test" => at' = at
  <2>1. CASE Go("strand", "reset_load") /\ at' = at + 1 /\ reading' = "header"
             /\ Inbound[at + 1].checksum
    BY <2>1, GoMoves, Zenon DEF Go, Threads
  <2>2. CASE Go("strand", "test") /\ at' = at /\ reading' = "none"
    BY <2>2, GoMoves, Zenon DEF Go, Threads, Stopping
  <2> QED BY <1>2, <2>1, <2>2, SMTT(30)
<1>7. TypeOK'
  BY <1>1, <1>4, <1>5, <1>6, SMTT(30) DEF TypeOK, Threads, Stopping, Parts
<1>8. SendsUncalled' /\ QueueUnique'
  <2>1. \A s \in Sends : heard'[s] = heard[s] /\ (pc'[s] # "idle" => pc[s] # "idle")
    BY <1>5, <1>6 DEF Threads
  <2> QED BY <1>1, <2>1, SendsKept
<1>9. StreamSound'
  BY <1>1, <1>4, <1>6 DEF StreamSound, Incoming
<1>10. EarlyPending'
  <2>1. \A t \in Threads : pc'[t] \in {"clear", "relay"} \/ pc[t] \in {"clear", "relay"}
                             => pc'[t] = pc[t]
    BY <1>1, <1>6
  <2> QED BY <1>1, <2>1, EarlyKept, SMTT(30) DEF EarlyPending
<1>11. Attended'
  BY <1>1, <1>6, SMTT(30) DEF Attended, Parts, TypeOK
<1> QED BY <1>5, <1>7, <1>8, <1>9, <1>10, <1>11
=============================================================================
