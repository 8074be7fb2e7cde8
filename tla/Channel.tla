------------------------------ MODULE Channel ------------------------------
(***************************************************************************)
(* One connection to a peer: channel_proxy, and the channel that users     *)
(* hold (src/src/network/channel.cpp, src/include/bitcoin/network/         *)
(* channel.hpp).                                                           *)
(*                                                                         *)
(* Several threads are in the channel at once.  The read handlers and the  *)
(* posted sends run one at a time on the channel's strand; the timer       *)
(* handlers, the completions of writes and the users' calls do not.  Each  *)
(* of them may call stop(), which is four steps here: the test of          *)
(* stopped_, the setting of it with the closing of timers and socket,      *)
(* clear_subscriptions, and the relay to the stop subscribers.             *)
(*                                                                         *)
(* A subscriber's registry is changed at the moment its strand takes the   *)
(* call; the handlers it calls record the code in heard.  Handlers are     *)
(* one-shot: a user who wants the next message subscribes a new handler.   *)
(***************************************************************************)
EXTENDS Naturals, Sequences, FiniteSets

CONSTANTS
  Subs,        \* handlers given to a subscribe_* call
  Topic,       \* Topic[h]: the command h waits for, or "raw", or "stop"
  Sends,       \* handlers given to a send call; "ping" is the heartbeat's
  Inbound,     \* what the peer sends: records [magic, command, length, checksum,
               \* body]; magic, checksum and body tell whether they are right
  Timers,      \* the timers that can expire: "timeout", and "heartbeat" or not
  MaxStops     \* bound: so many threads are in stop() at the same time

ASSUME ChannelAssumption ==
  /\ "timeout" \in Timers /\ Timers \subseteq {"timeout", "heartbeat"}
  /\ "heartbeat" \in Timers => "ping" \in Sends
  /\ Subs \cap Sends = {}
  /\ (Subs \cup Sends) \cap {"strand", "timeout", "user"} = {}
  /\ Inbound \in Seq([magic : BOOLEAN, command : STRING, length : Nat,
                      checksum : BOOLEAN, body : BOOLEAN])

VARIABLES
  stopped,     \* stopped_
  reading,     \* the part of a message the outstanding async_read is for
  at,          \* messages read whole
  armed,       \* armed[t]: timer t is waiting
  due,         \* the timeout has expired and handle_timeout is queued
  pc,          \* what each thread does next
  subscribed,  \* how far the subscribe call of each handler has come
  registry,    \* the handlers in the subscribers' registries
  early,       \* history: the handlers registered when stopped_ was first set
  sending,     \* how far each send has come
  queue,       \* sends posted on the strand, in order
  heard        \* heard[h]: the codes handler h was called with

vars == <<stopped, reading, at, armed, due, pc, subscribed, registry, early,
          sending, queue, heard>>

Threads == {"strand", "timeout", "user"} \cup Sends
Handlers == Subs \cup Sends

Parts == {"header", "checksum", "payload"}
Stopping == {"test", "shut", "clear", "relay"}

\* The codes a handler can be called with: no error, with the number of the
\* message it is about, or one of three errors.
Ok(i) == [code |-> "ok", message |-> i]
Error(e) == [code |-> e, message |-> 0]
Codes == {Ok(i) : i \in 0..Len(Inbound)}
           \cup {Error(e) : e \in {"service_stopped", "channel_timeout", "bad_stream"}}

\* The commands that have a subscriber and a loader, from the constructor.
Commands == {"version", "verack", "addr", "getaddr", "inv", "getdata", "getblocks",
             "tx", "block"}

\* There is a subscribe_* call for each of them, for raw messages and for the stop.
ASSUME TopicAssumption == Topic \in [Subs -> Commands \cup {"raw", "stop"}]

\* The handlers in flight and the threads inside hold the proxy; the channel
\* that users have only a weak pointer to it.
Alive ==
  \/ reading \in Parts
  \/ due \/ \E timer \in Timers : armed[timer]
  \/ \E s \in Sends : sending[s] \in {"posted", "writing"}
  \/ \E h \in Subs : subscribed[h] = "passed"
  \/ \E t \in Threads : pc[t] # "idle"

\* A call on the channel finds the proxy gone, or stopped_ set in it.
Refused == ~Alive \/ stopped

\* Operators whose name ends in "Fault" are slips that the code could have
\* made, each before the definition it would take the place of.

-----------------------------------------------------------------------------
(* Subscribers.                                                            *)

Call(hs, c) == heard' = [h \in Handlers |-> IF h \in hs THEN Append(heard[h], c)
                                                        ELSE heard[h]]

\* subscriber::relay: every registered handler of the topics is called, and
\* the registry is empty before the first of them runs.
Relay(topics, c) ==
  LET hs == {h \in registry : Topic[h] \in topics}
  IN  /\ registry' = registry \ hs
      /\ Call(hs, c)

SubscribeFault(h) ==
  /\ subscribed[h] = "no"
  /\ subscribed' = [subscribed EXCEPT ![h] = "passed"]
  /\ IF Refused THEN Call({h}, Error("service_stopped")) ELSE UNCHANGED heard
  /\ UNCHANGED <<stopped, reading, at, armed, due, pc, registry, early, sending, queue>>

\* The subscribe_* calls: the test of stopped_ and the registration are two
\* steps of the calling thread.
Subscribe(h) ==
  /\ subscribed[h] = "no"
  /\ IF Refused
     THEN /\ Call({h}, Error("service_stopped"))
          /\ subscribed' = [subscribed EXCEPT ![h] = "done"]
     ELSE /\ subscribed' = [subscribed EXCEPT ![h] = "passed"]
          /\ UNCHANGED heard
  /\ UNCHANGED <<stopped, reading, at, armed, due, pc, registry, early, sending, queue>>

Register(h) ==
  /\ subscribed[h] = "passed"
  /\ subscribed' = [subscribed EXCEPT ![h] = "done"]
  /\ registry' = registry \cup {h}
  /\ UNCHANGED <<stopped, reading, at, armed, due, pc, early, sending, queue, heard>>

-----------------------------------------------------------------------------
(* stop(), by any thread.                                                  *)

Go(t, step) == pc' = [pc EXCEPT ![t] = step]

\* Thread t calls stop() (bounded by MaxStops).
EnterStop(t, step) ==
  /\ Cardinality({u \in Threads : pc[u] \in Stopping}) < MaxStops
  /\ Go(t, step)

\* channel::stop: the user's call, or the destructor of the last channel_ptr.
Stop ==
  /\ pc["user"] = "idle"
  /\ ~Refused
  /\ EnterStop("user", "test")
  /\ UNCHANGED <<stopped, reading, at, armed, due, subscribed, registry, early,
                 sending, queue, heard>>

\* What a thread does when its stop() returns: a write's completion still has
\* its handler to call.
Finish(t, hs) ==
  /\ Go(t, "idle")
  /\ sending' = [s \in Sends |-> IF s = t THEN "done" ELSE sending[s]]
  /\ heard' = [h \in Handlers |->
                 IF h \in hs
                 THEN Append(heard[h], Error(IF t = "timeout" THEN "channel_timeout"
                                                              ELSE "service_stopped"))
                 ELSE IF h = t THEN Append(heard[h], Error("service_stopped"))
                 ELSE heard[h]]

StopTest(t) ==
  /\ pc[t] = "test"
  /\ IF stopped
     THEN Finish(t, {})
     ELSE Go(t, "shut") /\ UNCHANGED <<sending, heard>>
  /\ UNCHANGED <<stopped, reading, at, armed, due, subscribed, registry, early, queue>>

\* stop_impl up to the closing of the socket.  A handler that is queued is
\* not aborted any more by the cancelling of its timer.
StopShut(t) ==
  /\ pc[t] = "shut"
  /\ Go(t, "clear")
  /\ stopped' = TRUE
  /\ armed' = [timer \in Timers |-> FALSE]
  /\ early' = IF stopped THEN early ELSE registry
  /\ UNCHANGED <<reading, at, due, subscribed, registry, sending, queue, heard>>

StopClearFault(t) ==
  /\ pc[t] = "clear"
  /\ Go(t, "relay")
  /\ Relay((Commands \ {"addr"}) \cup {"raw"}, Error("service_stopped"))
  /\ UNCHANGED <<stopped, reading, at, armed, due, subscribed, early, sending, queue>>

\* clear_subscriptions: every subscriber but stop_subscriber_.
StopClear(t) ==
  /\ pc[t] = "clear"
  /\ Go(t, "relay")
  /\ Relay(Commands \cup {"raw"}, Error("service_stopped"))
  /\ UNCHANGED <<stopped, reading, at, armed, due, subscribed, early, sending, queue>>

\* stop_subscriber_->relay, by stop() or by handle_timeout.
StopRelay(t) ==
  /\ pc[t] = "relay"
  /\ LET hs == {h \in registry : Topic[h] = "stop"}
     IN  registry' = registry \ hs /\ Finish(t, hs)
  /\ UNCHANGED <<stopped, reading, at, armed, due, subscribed, early, queue>>

-----------------------------------------------------------------------------
(* Timers.                                                                 *)

\* The timeout's time has come.  (Bound: it does not come again before the
\* handler it queued has run.)
Expire ==
  /\ armed["timeout"] /\ ~due
  /\ armed' = [armed EXCEPT !["timeout"] = FALSE]
  /\ due' = TRUE
  /\ UNCHANGED <<stopped, reading, at, pc, subscribed, registry, early, sending, queue, heard>>

\* handle_timeout, on a thread of its own; timer_errors has read stopped_.
HandleTimeout ==
  /\ due /\ pc["timeout"] = "idle"
  /\ due' = FALSE
  /\ IF stopped THEN UNCHANGED pc ELSE EnterStop("timeout", "shut")
  /\ UNCHANGED <<stopped, reading, at, armed, subscribed, registry, early, sending,
                 queue, heard>>

\* The heartbeat's time has come and handle_heartbeat runs: a ping is sent,
\* and the heartbeat is not set again.  (A handler that waits until the channel
\* is stopped does nothing.  Bound: the first ping of a channel is followed.)
HandleHeartbeat ==
  /\ "heartbeat" \in Timers
  /\ armed["heartbeat"]
  /\ armed' = [armed EXCEPT !["heartbeat"] = FALSE]
  /\ IF stopped \/ sending["ping"] # "no"
     THEN UNCHANGED <<sending, queue>>
     ELSE /\ sending' = [sending EXCEPT !["ping"] = "posted"]
          /\ queue' = Append(queue, "ping")
  /\ UNCHANGED <<stopped, reading, at, due, pc, subscribed, registry, early, heard>>

ResetTimersFault ==
  /\ pc["strand"] \in {"reset", "reset_load"}
  /\ Go("strand", IF pc["strand"] = "reset" THEN "idle" ELSE "load")
  /\ armed' = [timer \in Timers |-> timer = "heartbeat"]
  /\ UNCHANGED <<stopped, reading, at, due, subscribed, registry, early, sending, queue, heard>>

\* reset_timers, by a read handler after it has started the next read.
ResetTimers ==
  /\ pc["strand"] \in {"reset", "reset_load"}
  /\ Go("strand", IF pc["strand"] = "reset" THEN "idle" ELSE "load")
  /\ armed' = [timer \in Timers |-> TRUE]
  /\ UNCHANGED <<stopped, reading, at, due, subscribed, registry, early, sending, queue, heard>>

-----------------------------------------------------------------------------
(* Reads, on the strand.                                                   *)

ReadStoppedFault ==
  /\ reading \in Parts /\ pc["strand"] = "idle"
  /\ stopped
  /\ Go("strand", "reset")
  /\ UNCHANGED <<stopped, reading, at, armed, due, subscribed, registry, early, sending, queue,
                 heard>>

\* A read handler that finds stopped_ set returns and starts no other read.
ReadStopped ==
  /\ reading \in Parts /\ pc["strand"] = "idle"
  /\ stopped
  /\ reading' = "none"
  /\ UNCHANGED <<stopped, at, armed, due, pc, subscribed, registry, early, sending, queue, heard>>

\* The read failed: the peer is gone.
ReadFails ==
  /\ reading \in Parts /\ pc["strand"] = "idle"
  /\ ~stopped
  /\ reading' = "none"
  /\ EnterStop("strand", "test")
  /\ UNCHANGED <<stopped, at, armed, due, subscribed, registry, early, sending, queue, heard>>

\* A part has arrived while the channel is not stopped.
Arrives(part) ==
  /\ reading = part /\ pc["strand"] = "idle"
  /\ ~stopped
  /\ at < Len(Inbound)

Incoming == Inbound[at + 1]

\* verify_header: the magic value, and the payload length where the command
\* tells what it has to be.
verify_header(m) ==
  /\ m.magic
  /\ m.command = "version" => m.length >= 85
  /\ m.command \in {"verack", "getaddr"} => m.length = 0
  /\ m.command \in {"ping", "pong"} => m.length = 8

HandleReadHeader ==
  /\ Arrives("header")
  /\ IF verify_header(Incoming)
     THEN reading' = "checksum" /\ Go("strand", "reset")
     ELSE reading' = "none" /\ EnterStop("strand", "test")
  /\ UNCHANGED <<stopped, at, armed, due, subscribed, registry, early, sending, queue, heard>>

HandleReadChecksum ==
  /\ Arrives("checksum")
  /\ reading' = "payload"
  /\ Go("strand", "reset")
  /\ UNCHANGED <<stopped, at, armed, due, subscribed, registry, early, sending, queue, heard>>

\* handle_read_payload: the raw subscribers are told first, and the next read
\* is started before the handlers of the message are called.
HandleReadPayload ==
  /\ Arrives("payload")
  /\ IF Incoming.checksum
     THEN /\ Relay({"raw"}, Ok(at + 1))
          /\ at' = at + 1
          /\ reading' = "header"
          /\ Go("strand", "reset_load")
     ELSE /\ Relay({"raw"}, Error("bad_stream"))
          /\ reading' = "none"
          /\ EnterStop("strand", "test")
          /\ UNCHANGED at
  /\ UNCHANGED <<stopped, armed, due, subscribed, early, sending, queue>>

\* load_lookup and attempt_load: the subscribers of the command are told of
\* the message, or of its being malformed.  Other commands are passed over.
Load ==
  /\ pc["strand"] = "load"
  /\ Go("strand", "idle")
  /\ Relay({Inbound[at].command} \cap Commands,
           IF Inbound[at].body THEN Ok(at) ELSE Error("bad_stream"))
  /\ UNCHANGED <<stopped, reading, at, armed, due, subscribed, early, sending, queue>>

-----------------------------------------------------------------------------
(* Sends.                                                                  *)

Send(s) ==
  /\ sending[s] = "no"
  /\ IF Refused
     THEN /\ sending' = [sending EXCEPT ![s] = "done"]
          /\ Call({s}, Error("service_stopped"))
          /\ UNCHANGED queue
     ELSE /\ sending' = [sending EXCEPT ![s] = "posted"]
          /\ queue' = Append(queue, s)
          /\ UNCHANGED heard
  /\ UNCHANGED <<stopped, reading, at, armed, due, pc, subscribed, registry, early>>

\* do_send_common: async_write, on the strand.
DoSend ==
  /\ queue # <<>> /\ pc["strand"] = "idle"
  /\ sending' = [sending EXCEPT ![Head(queue)] = "writing"]
  /\ queue' = Tail(queue)
  /\ UNCHANGED <<stopped, reading, at, armed, due, pc, subscribed, registry, early, heard>>

\* call_handle_send when the write ended well, or stopped_ is set anyway.
Written(s) ==
  /\ sending[s] = "writing" /\ pc[s] = "idle"
  /\ sending' = [sending EXCEPT ![s] = "done"]
  /\ Call({s}, IF stopped THEN Error("service_stopped") ELSE Ok(0))
  /\ UNCHANGED <<stopped, reading, at, armed, due, pc, subscribed, registry, early, queue>>

\* call_handle_send when the write failed: stop(), then the handler.
WriteFails(s) ==
  /\ sending[s] = "writing" /\ pc[s] = "idle"
  /\ ~stopped
  /\ EnterStop(s, "test")
  /\ UNCHANGED <<stopped, reading, at, armed, due, subscribed, registry, early, sending,
                 queue, heard>>

-----------------------------------------------------------------------------
Init ==
  /\ stopped = FALSE
  /\ reading = "header"
  /\ at = 0
  /\ armed = [timer \in Timers |-> TRUE]
  /\ due = FALSE
  /\ pc = [t \in Threads |-> "idle"]
  /\ subscribed = [h \in Subs |-> "no"]
  /\ registry = {}
  /\ early = {}
  /\ sending = [s \in Sends |-> "no"]
  /\ queue = <<>>
  /\ heard = [h \in Handlers |-> <<>>]

\* What has to go on: a thread that is in a handler or a call, a timer, and a
\* read or write of a socket that is closed.
StopStep(t) == StopTest(t) \/ StopShut(t) \/ StopClear(t) \/ StopRelay(t)
Obliged ==
  \/ \E t \in Threads : StopStep(t)
  \/ \E h \in Subs : Register(h)
  \/ Expire \/ HandleTimeout
  \/ HandleHeartbeat
  \/ ResetTimers \/ Load \/ ReadStopped
  \/ DoSend
  \/ stopped /\ \E s \in Sends : Written(s)

\* What the peer and the network may do, and owe nobody: parts of messages
\* arrive, writes are taken, connections break.
Peer ==
  \/ HandleReadHeader \/ HandleReadChecksum \/ HandleReadPayload
  \/ ReadFails
  \/ ~stopped /\ \E s \in Sends : Written(s)
  \/ \E s \in Sends : WriteFails(s)

\* Users, in any order.
Users == (\E h \in Subs : Subscribe(h)) \/ (\E s \in Sends \ {"ping"} : Send(s)) \/ Stop

Next == Obliged \/ Peer \/ Users

\* The threads of the service keep running handlers that are ready.
Spec == Init /\ [][Next]_vars /\ WF_vars(Obliged)

-----------------------------------------------------------------------------
(* Properties.                                                             *)

\* Types; and the sends that are posted are the ones in the strand's queue.
TypeOK ==
  /\ stopped \in BOOLEAN
  /\ reading \in Parts \cup {"none"}
  /\ at \in 0..Len(Inbound)
  /\ armed \in [Timers -> BOOLEAN] /\ due \in BOOLEAN
  /\ pc \in [Threads -> {"idle", "reset", "reset_load", "load"} \cup Stopping]
  /\ \A t \in Threads \ {"strand"} : pc[t] \in {"idle"} \cup Stopping
  /\ subscribed \in [Subs -> {"no", "passed", "done"}]
  /\ registry \subseteq Subs /\ early \subseteq Subs
  /\ sending \in [Sends -> {"no", "posted", "writing", "done"}]
  /\ queue \in Seq(Sends)
  /\ \A s \in Sends : sending[s] = "posted" <=> \E i \in 1..Len(queue) : queue[i] = s
  /\ heard \in [Handlers -> Seq(Codes)]

\* Every handler given to subscribe_* or send is called at most once, however
\* messages, timeouts, failed writes and stop() of several threads overlap.
HeardOnce == \A h \in Handlers : Len(heard[h]) <= 1

\* A handler that is given message i waited for its type, and message i and
\* all before it had a good header and checksum: nothing is delivered past
\* the point where the stream went bad.
OnlySoundMessages ==
  \A h \in Subs : \A n \in 1..Len(heard[h]) :
    LET i == heard[h][n].message
    IN  heard[h][n].code = "ok" =>
          /\ Topic[h] \in {"raw", Inbound[i].command}
          /\ \A j \in 1..i : verify_header(Inbound[j]) /\ Inbound[j].checksum
          /\ Topic[h] = "raw" \/ Inbound[i].body

\* Until the channel is stopped it is attended: a read is outstanding and the
\* peer's silence is being timed, or a thread is on its way to stop it.
Attended ==
  \/ stopped
  \/ \E t \in Threads : pc[t] \in {"test", "shut"}
  \/ reading \in Parts /\ (armed["timeout"] \/ due)

\* A handler registered before the channel was stopped is told, in the end:
\* from some time on there is none that was not.  (early is set once and heard
\* only grows.  A handler whose thread passed the test of stopped_ and that was
\* registered after clear_subscriptions is not told, see the README.)
EarlyHeard == <>[](\A h \in early : heard[h] # <<>>)

\* Every send is answered: from some time on none is left without its answer,
\* do_send_common on a socket that has been closed since send() looked at
\* stopped_ included.  (A send that was made stays made.)
SendAnswered == <>[](\A s \in Sends : sending[s] # "no" => heard[s] # <<>>)

\* Nothing holds the proxy for ever once it is stopped, also when a read
\* handler set the timers again after stop_impl had cancelled them: in the end
\* it is let go for good.  (stopped_ is never reset.)
Released == <>[](stopped => ~Alive)

\* The state of a channel that is in use: types, and Attended.
ChannelConsistent == TypeOK /\ Attended

\* What a user's handler hears is heard once and is a sound message of the
\* kind it waited for, or an error: HeardOnce and OnlySoundMessages.
HeardRight == HeardOnce /\ OnlySoundMessages

\* Whatever the channel has taken on is answered: EarlyHeard for subscriptions
\* and SendAnswered for sends.
Told == EarlyHeard /\ SendAnswered
=============================================================================
