----------------------------- MODULE Handshake -----------------------------
(***************************************************************************)
(* The version exchange on a new channel (src/src/network/handshake.cpp),  *)
(* composed with the channel it runs on.  handshake::ready sends our       *)
(* version and subscribes to the peer's version and verack; four handlers  *)
(* then run on the handshake's strand, in any order the channel calls      *)
(* them, and three of them count up to clearance_count.                    *)
(*                                                                         *)
(* When the handshake succeeds the protocol subscribes to the channel's    *)
(* stop (protocol::setup_new_channel): the handler "on_stop".              *)
(***************************************************************************)
EXTENDS Channel

VARIABLES
  counter,     \* the atomic counter shared by the handlers
  taken,       \* handlers that have run on the strand
  outcome      \* the codes handle_handshake was called with

hvars == <<counter, taken, outcome>>
allvars == <<vars, hvars>>

ClearanceCount == 3

Versions == {"send_version", "on_version", "send_verack", "on_verack"}

ASSUME HandshakeHandlers ==
  /\ {"send_version", "send_verack"} \subseteq Sends
  /\ {"on_version", "on_verack", "on_stop"} \subseteq Subs
  /\ Topic["on_version"] = "version"
  /\ Topic["on_verack"] = "verack"
  /\ Topic["on_stop"] = "stop"

\* handshake::ready, a step for each call on the channel.
ReadySend == Send("send_version") /\ UNCHANGED hvars
ReadySubscribe ==
  /\ \/ sending["send_version"] # "no" /\ Subscribe("on_version")
     \/ subscribed["on_version"] = "done" /\ Subscribe("on_verack")
  /\ UNCHANGED hvars

\* The handler h, called by the channel with code c, runs on the strand.
Runs(h, c) ==
  /\ heard[h] # <<>> /\ h \notin taken
  /\ c = heard[h][1].code
  /\ taken' = taken \cup {h}

Complete(c) == outcome' = Append(outcome, c)

Count ==
  /\ counter' = counter + 1
  /\ IF counter + 1 = ClearanceCount THEN Complete("ok") ELSE UNCHANGED outcome

CountedFault(h) ==
  \E c \in {x.code : x \in Codes} :
    /\ Runs(h, c)
    /\ IF c # "ok" THEN Complete(c) /\ counter' = counter + 1 ELSE Count
    /\ UNCHANGED vars


\* handle_message_sent (for the version and for the verack) and receive_verack.
Counted(h) ==
  \E c \in {x.code : x \in Codes} :
    /\ Runs(h, c)
    /\ IF c # "ok" THEN Complete(c) /\ UNCHANGED counter ELSE Count
    /\ UNCHANGED vars

HandleMessageSent == \E s \in {"send_version", "send_verack"} : Counted(s)
ReceiveVerack == Counted("on_verack")

ReceiveVersion ==
  \E c \in {x.code : x \in Codes} :
    /\ Runs("on_version", c)
    /\ IF c # "ok"
       THEN Complete(c) /\ UNCHANGED <<vars, counter>>
       ELSE Send("send_verack") /\ UNCHANGED <<counter, outcome>>

\* protocol::handle_connect: a channel that passed the handshake is watched.
WatchStop ==
  /\ \E i \in 1..Len(outcome) : outcome[i] = "ok"
  /\ Subscribe("on_stop")
  /\ UNCHANGED hvars

HInit == Init /\ counter = 0 /\ taken = {} /\ outcome = <<>>

\* ready() and the handlers given to the strand run to their end.
HObliged ==
  \/ ReadySend \/ ReadySubscribe
  \/ HandleMessageSent \/ ReceiveVerack \/ ReceiveVersion \/ WatchStop
  \/ Obliged /\ UNCHANGED hvars

HNext == HObliged \/ ((Peer \/ Stop) /\ UNCHANGED hvars)

HSpec == HInit /\ [][HNext]_allvars /\ WF_allvars(HObliged)

-----------------------------------------------------------------------------
\* Types; the counter never passes clearance_count, or a success would be missed.
HTypeOK ==
  /\ TypeOK
  /\ counter \in 0..ClearanceCount
  /\ taken \subseteq Versions
  /\ \A i \in 1..Len(outcome) : outcome[i] \in {x.code : x \in Codes}

\* Success means the exchange is over: our version went out, the peer's was
\* received, our answer to it went out and the peer's verack came in.
SuccessMeans ==
  (\E i \in 1..Len(outcome) : outcome[i] = "ok") =>
    \A h \in Versions : heard[h] # <<>> /\ heard[h][1].code = "ok"

\* A handshake that reports success reports it once and nothing else, before
\* or after: the counting handlers cannot mix a success with errors.
SuccessIsFinal == (\E i \in 1..Len(outcome) : outcome[i] = "ok") => Len(outcome) = 1

\* The verack handler is registered and nobody will call it.
VerackLost == stopped /\ "on_verack" \in registry


\* A success is the only report and a true one: SuccessIsFinal and
\* SuccessMeans, with the types.
SuccessExact == HTypeOK /\ SuccessIsFinal /\ SuccessMeans
=============================================================================
