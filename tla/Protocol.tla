------------------------------ MODULE Protocol ------------------------------
(***************************************************************************)
(* The node's place in the network: protocol and its seeds                 *)
(* (src/src/network/protocol.cpp), the pool of addresses (hosts.cpp), and  *)
(* the connecting, listening and accepting they ask of network.cpp and     *)
(* handshake.cpp.                                                          *)
(*                                                                         *)
(* The handlers of protocol and of seeds run one at a time on protocol's   *)
(* strand, those of hosts on that of hosts.  hosts queues its jobs with    *)
(* async_strand::queue, which posts each to the service by itself: they do *)
(* not keep their order, and are counted here.  A handshake reports one    *)
(* success, or between one and three errors (Handshake, SuccessIsFinal).   *)
(***************************************************************************)
EXTENDS Naturals, Sequences, FiniteSets, Functions

CONSTANTS
  Addresses,    \* the network addresses there are
  Seeds,        \* dns_seeds
  MaxOutbound,  \* max_outbound_
  Capacity,     \* of the buffer of hosts
  Files,        \* what the hosts file may hold: sequences of addresses
  Packets,      \* what an address message may hold: sets of addresses
  MaxNodes,     \* bound: channels opened in a run without and with seeding
  MaxRetries    \* bound: attempts to connect that come to nothing, likewise

ASSUME ProtocolAssumption ==
  /\ MaxOutbound \in Nat \ {0} /\ Capacity \in Nat \ {0}
  /\ MaxNodes \in [BOOLEAN -> Nat] /\ MaxRetries \in [BOOLEAN -> Nat]
  /\ IsFiniteSet(Seeds) /\ Seeds # {}
  /\ Files \subseteq Seq(Addresses) /\ Packets \subseteq SUBSET Addresses

VARIABLES
  file,         \* the hosts file
  buffer,       \* hosts::buffer_
  pushes,       \* pushes[a]: queued jobs of hosts that push a
  fetches,      \* queued jobs of hosts that fetch an address
  boot,         \* how far bootstrap has come
  booted,       \* what handle_bootstrap was called with
  seed,         \* seed[s]: the calls that seed s still owes
  ended_paths, finished,        \* of seeds
  shake,        \* what handshake::start has reported
  count_paths,  \* of start()
  told,         \* what handle_complete of start() was called with
  trying,       \* calls of try_connect posted on the strand
  fetched,      \* fetched[a]: results of fetch_address on their way
  connecting,   \* connecting[a]: connections to a being made
  echoes,       \* further errors that failed handshakes may still report
  retries,      \* attempts that came to nothing (bounded)
  starved,      \* history: attempt_connect was given not_found
  listening,    \* how far listen and accept have come
  opened,       \* channels opened, numbered from 1
  closed,       \* the ones whose stop was reported
  addressed,    \* the ones whose addresses were received
  connections, accepted_channels

hostvars == <<file, buffer, pushes>>
seedvars == <<seed, ended_paths, finished>>
startvars == <<boot, booted, shake, count_paths, told>>
outvars == <<fetched, connecting, echoes, retries, starved>>
nodevars == <<opened, closed, addressed, connections, accepted_channels>>
vars == <<hostvars, seedvars, startvars, trying, fetches, outvars, listening, nodevars>>

None == "none"

\* The bounds depend on it.
Seeded == boot = "seeds"

\* Operators whose name ends in "Fault" are slips that the code could have
\* made, each before the definition it would take the place of.

-----------------------------------------------------------------------------
(* hosts.                                                                  *)

\* circular_buffer::push_back; nothing looks for duplicates.
PushBack(b, a) == Append(IF Len(b) < Capacity THEN b ELSE Tail(b), a)

Queue(addresses) ==
  pushes' = [a \in Addresses |-> pushes[a] + (IF a \in addresses THEN 1 ELSE 0)]

\* do_load: a push is queued for every line, and handle_load is called before
\* the first of them has run; load_hosts then queues the fetch_count.
DoLoad ==
  /\ boot = "load"
  /\ pushes' = [a \in Addresses |->
                  pushes[a] + Cardinality({i \in 1..Len(file) : file[i] = a})]
  /\ boot' = "count"
  /\ UNCHANGED <<file, buffer, seedvars, booted, shake, count_paths, told, trying, fetches,
                 outvars, listening, nodevars>>

\* A queued push, of do_load or of store.
DoPush(a) ==
  /\ pushes[a] > 0
  /\ pushes' = [pushes EXCEPT ![a] = @ - 1]
  /\ buffer' = PushBack(buffer, a)
  /\ UNCHANGED <<file, seedvars, startvars, trying, fetches, outvars, listening, nodevars>>

\* do_fetch_address: an address of the buffer, or not_found.
DoFetchAddress ==
  /\ fetches > 0
  /\ fetches' = fetches - 1
  /\ \E a \in IF buffer = <<>> THEN {None} ELSE Range(buffer) :
       fetched' = [fetched EXCEPT ![a] = @ + 1]
  /\ UNCHANGED <<hostvars, seedvars, startvars, trying, connecting, echoes, retries, starved,
                 listening, nodevars>>

-----------------------------------------------------------------------------
(* start(): two paths, bootstrap and the handshake service.                *)

\* handle_bootstrap and handle_start_handshake_service; run() is the first
\* try_connect, and the listening.
PathEnds(ec) ==
  IF ec = "ok"
  THEN /\ count_paths' = count_paths + 1
       /\ IF count_paths + 1 = 2
          THEN told' = Append(told, ec) /\ trying' = trying + 1 /\ listening' = "listen"
          ELSE UNCHANGED <<told, trying, listening>>
  ELSE /\ told' = Append(told, ec)
       /\ UNCHANGED <<count_paths, trying, listening>>

Bootstrapped(ec) == booted' = Append(booted, ec) /\ PathEnds(ec)

\* do_fetch_count and if_0_seed.
IfZeroSeed ==
  /\ boot = "count"
  /\ IF buffer = <<>>
     THEN /\ boot' = "seeds"
          /\ seed' = [s \in Seeds |-> [connect |-> 3, send |-> FALSE, address |-> FALSE]]
          /\ UNCHANGED <<booted, count_paths, told, trying, listening>>
     ELSE /\ boot' = "done"
          /\ Bootstrapped("ok")
          /\ UNCHANGED seed
  /\ UNCHANGED <<hostvars, ended_paths, finished, shake, fetches, outvars, nodevars>>

\* do_discover_external_ip, from the answers of those web sites that gave one.
Discovered(answers) == answers # {} /\ Cardinality(answers) = 1

HandshakeStarted ==
  /\ shake = "pending"
  /\ \E answers \in SUBSET Addresses :
       /\ Cardinality(answers) <= 2
       /\ shake' = IF Discovered(answers) THEN "ok" ELSE "error"
       /\ PathEnds(shake')
  /\ UNCHANGED <<hostvars, seedvars, boot, booted, fetches, outvars, nodevars>>

-----------------------------------------------------------------------------
(* seeds.                                                                  *)


ErrorCase ==
  IF finished
  THEN UNCHANGED <<ended_paths, finished, booted, count_paths, told, trying, listening>>
  ELSE /\ ended_paths' = ended_paths + 1
       /\ IF ended_paths + 1 = Cardinality(Seeds)
          THEN finished' = TRUE /\ Bootstrapped("error")
          ELSE UNCHANGED <<finished, booted, count_paths, told, trying, listening>>

\* request_addresses with an error; a handshake may report up to two more.
SeedRefused(s) ==
  /\ seed[s].connect > 0
  /\ \E more \in 0..(seed[s].connect - 1) : seed' = [seed EXCEPT ![s].connect = more]
  /\ ErrorCase
  /\ UNCHANGED <<hostvars, boot, shake, fetches, outvars, nodevars>>

\* request_addresses with a channel: get_address is sent and the answer
\* subscribed to.
SeedConnected(s) ==
  /\ seed[s].connect = 3
  /\ seed' = [seed EXCEPT ![s] = [connect |-> 0, send |-> TRUE, address |-> TRUE]]
  /\ UNCHANGED <<hostvars, ended_paths, finished, startvars, trying, fetches, outvars,
                 listening, nodevars>>

\* handle_send_get_address.
SeedAsked(s, ok) ==
  /\ seed[s].send
  /\ seed' = [seed EXCEPT ![s].send = FALSE]
  /\ IF ok THEN UNCHANGED <<ended_paths, finished, booted, count_paths, told, trying, listening>>
           ELSE ErrorCase
  /\ UNCHANGED <<hostvars, boot, shake, fetches, outvars, nodevars>>

SaveAddressesFault(s, packet) ==
  /\ seed[s].address
  /\ seed' = [seed EXCEPT ![s].address = FALSE]
  /\ Queue(packet)
  /\ finished' = TRUE
  /\ Bootstrapped("ok")
  /\ UNCHANGED <<file, buffer, ended_paths, boot, shake, fetches, outvars, nodevars>>

\* save_addresses: the first answer ends the bootstrap, before the addresses
\* are in the buffer.
SaveAddresses(s, packet) ==
  /\ seed[s].address
  /\ seed' = [seed EXCEPT ![s].address = FALSE]
  /\ Queue(packet)
  /\ IF finished
     THEN UNCHANGED <<ended_paths, finished, booted, count_paths, told, trying, listening>>
     ELSE /\ ended_paths' = ended_paths + 1
          /\ finished' = TRUE
          /\ Bootstrapped("ok")
  /\ UNCHANGED <<file, buffer, boot, shake, fetches, outvars, nodevars>>

SaveAddressesFails(s) ==
  /\ seed[s].address
  /\ seed' = [seed EXCEPT ![s].address = FALSE]
  /\ ErrorCase
  /\ UNCHANGED <<hostvars, boot, shake, fetches, outvars, nodevars>>

-----------------------------------------------------------------------------
(* run(): outbound connections.                                            *)

\* The addresses try_connect asks for, given so many connections.
Missing(n) == IF n >= MaxOutbound THEN 0 ELSE MaxOutbound - n

TryConnect ==
  /\ trying > 0
  /\ trying' = trying - 1
  /\ fetches' = fetches + Missing(Len(connections))
  /\ UNCHANGED <<hostvars, seedvars, startvars, outvars, listening, nodevars>>

ConnectedTo(a) == \E i \in 1..Len(connections) : connections[i].address = a

\* attempt_connect: nothing to connect to, connected already, or a connection
\* is begun.
AttemptNothing ==
  /\ fetched[None] > 0
  /\ fetched' = [fetched EXCEPT ![None] = @ - 1]
  /\ starved' = TRUE
  /\ UNCHANGED <<hostvars, seedvars, startvars, trying, fetches, connecting, echoes, retries,
                 listening, nodevars>>

AttemptRefused(a) ==
  /\ fetched[a] > 0 /\ ConnectedTo(a)
  /\ retries < MaxRetries[Seeded]
  /\ retries' = retries + 1
  /\ fetched' = [fetched EXCEPT ![a] = @ - 1]
  /\ trying' = trying + 1
  /\ UNCHANGED <<hostvars, seedvars, startvars, fetches, connecting, echoes, starved,
                 listening, nodevars>>

AttemptConnect(a) ==
  /\ fetched[a] > 0 /\ ~ConnectedTo(a)
  /\ fetched' = [fetched EXCEPT ![a] = @ - 1]
  /\ connecting' = [connecting EXCEPT ![a] = @ + 1]
  /\ UNCHANGED <<hostvars, seedvars, startvars, trying, fetches, echoes, retries, starved,
                 listening, nodevars>>

ConnectFailsFault(a) ==
  /\ connecting[a] > 0 /\ retries < MaxRetries[Seeded]
  /\ retries' = retries + 1
  /\ connecting' = [connecting EXCEPT ![a] = @ - 1]
  /\ UNCHANGED <<hostvars, seedvars, startvars, trying, fetches, fetched, echoes, starved,
                 listening, nodevars>>

\* handle_connect with an error: network::connect reports one, a handshake up
\* to three.
ConnectFails(a) ==
  /\ connecting[a] > 0 /\ retries < MaxRetries[Seeded]
  /\ retries' = retries + 1
  /\ connecting' = [connecting EXCEPT ![a] = @ - 1]
  /\ \E more \in 0..2 : echoes' = echoes + more
  /\ trying' = trying + 1
  /\ UNCHANGED <<hostvars, seedvars, startvars, fetches, fetched, starved, listening, nodevars>>

FailsAgain ==
  /\ echoes > 0 /\ retries < MaxRetries[Seeded]
  /\ retries' = retries + 1
  /\ echoes' = echoes - 1
  /\ trying' = trying + 1
  /\ UNCHANGED <<hostvars, seedvars, startvars, fetches, fetched, connecting, starved,
                 listening, nodevars>>

\* handle_connect with a channel, which setup_new_channel subscribes to.
HandleConnect(a) ==
  /\ connecting[a] > 0 /\ opened < MaxNodes[Seeded]
  /\ connecting' = [connecting EXCEPT ![a] = @ - 1]
  /\ opened' = opened + 1
  /\ connections' = Append(connections, [address |-> a, node |-> opened + 1])
  /\ UNCHANGED <<hostvars, seedvars, startvars, trying, fetches, fetched, echoes, retries, starved,
                 listening, closed, addressed, accepted_channels>>

\* handle_listen and handle_accept; accept is not asked for a second time.
HandleListen(ok) ==
  /\ listening = "listen"
  /\ listening' = IF ok THEN "accept" ELSE "none"
  /\ UNCHANGED <<hostvars, seedvars, startvars, trying, fetches, outvars, nodevars>>

HandleAccept(ok) ==
  /\ listening = "accept" /\ (ok => opened < MaxNodes[Seeded])
  /\ listening' = "none"
  /\ IF ok
     THEN opened' = opened + 1 /\ accepted_channels' = Append(accepted_channels, opened + 1)
     ELSE UNCHANGED <<opened, accepted_channels>>
  /\ UNCHANGED <<hostvars, seedvars, startvars, trying, fetches, outvars, closed, addressed,
                 connections>>

\* vector::erase of what std::find stops at: the first of the indices found.
EraseFirst(list, found) ==
  IF found = {}
  THEN list
  ELSE LET i == CHOOSE j \in found : \A k \in found : j <= k
       IN  SubSeq(list, 1, i - 1) \o SubSeq(list, i + 1, Len(list))

Outbound(n) == {i \in 1..Len(connections) : connections[i].node = n}
Inbound(n) == {i \in 1..Len(accepted_channels) : accepted_channels[i] = n}

ChannelStoppedFault(n) ==
  /\ n \notin closed
  /\ closed' = closed \cup {n}
  /\ connections' = EraseFirst(connections, Outbound(n))
  /\ fetches' = fetches + (IF Outbound(n) = {} THEN 0 ELSE Missing(Len(connections) - 1))
  /\ UNCHANGED <<hostvars, seedvars, startvars, trying, outvars, listening, opened, addressed,
                 accepted_channels>>

\* channel_stopped: the channel leaves the lists, and try_connect makes up for
\* a lost connection.
ChannelStopped(n) ==
  /\ n \notin closed
  /\ closed' = closed \cup {n}
  /\ connections' = EraseFirst(connections, Outbound(n))
  /\ fetches' = fetches + (IF Outbound(n) = {} THEN 0 ELSE Missing(Len(connections) - 1))
  /\ accepted_channels' = EraseFirst(accepted_channels, Inbound(n))
  /\ UNCHANGED <<hostvars, seedvars, startvars, trying, outvars, listening, opened, addressed>>

\* receive_address_message; the subscription is not renewed.
ReceiveAddressMessage(n, packet) ==
  /\ n \notin addressed \cup closed
  /\ addressed' = addressed \cup {n}
  /\ Queue(packet)
  /\ UNCHANGED <<file, buffer, seedvars, startvars, trying, fetches, outvars, listening, opened,
                 closed, connections, accepted_channels>>

-----------------------------------------------------------------------------
Init ==
  /\ file \in Files
  /\ buffer = <<>>
  /\ pushes = [a \in Addresses |-> 0]
  /\ boot = "load" /\ booted = <<>>
  /\ seed = [s \in Seeds |-> [connect |-> 0, send |-> FALSE, address |-> FALSE]]
  /\ ended_paths = 0 /\ finished = FALSE
  /\ shake = "pending" /\ count_paths = 0 /\ told = <<>>
  /\ trying = 0 /\ fetches = 0
  /\ fetched = [a \in Addresses \cup {None} |-> 0]
  /\ connecting = [a \in Addresses |-> 0]
  /\ echoes = 0 /\ retries = 0 /\ starved = FALSE
  /\ listening = "none"
  /\ opened = 0 /\ closed = {} /\ addressed = {}
  /\ connections = <<>> /\ accepted_channels = <<>>

\* Starting up.
SeedAnswers(s) ==
  \/ SeedRefused(s) \/ SeedConnected(s)
  \/ \E ok \in BOOLEAN : SeedAsked(s, ok)
  \/ \E packet \in Packets : SaveAddresses(s, packet)
  \/ SaveAddressesFails(s)
Starting == DoLoad \/ IfZeroSeed \/ HandshakeStarted \/ \E s \in Seeds : SeedAnswers(s)

\* Running.
Running ==
  \/ TryConnect \/ DoFetchAddress \/ AttemptNothing \/ FailsAgain
  \/ \E a \in Addresses :
       DoPush(a) \/ AttemptRefused(a) \/ AttemptConnect(a) \/ ConnectFails(a) \/ HandleConnect(a)
  \/ \E ok \in BOOLEAN : HandleListen(ok) \/ HandleAccept(ok)
  \/ \E n \in 1..opened :
       ChannelStopped(n) \/ \E packet \in Packets : ReceiveAddressMessage(n, packet)

Next == Starting \/ Running

\* The service runs what is ready, and every seed answers or fails in the end
\* (Handshake, HandshakeEnds; Channel, EarlyHeard and SendAnswered).
Spec == Init /\ [][Next]_vars /\ WF_vars(Starting)

-----------------------------------------------------------------------------
(* Properties.                                                             *)

\* The sum of a function to numbers: how many pairs <<a, k>> with k <= f[a].
Units(f) == UNION {{a} \X (1..f[a]) : a \in DOMAIN f}
Total(f) == Cardinality(Units(f))

\* Addresses asked for or being connected to.
Attempts == fetches + Total(fetched) + Total(connecting)

\* Types; the buffer of hosts keeps its capacity and the counters of the two
\* start-up phases stay within the number of paths that can end.
TypeOK ==
  /\ file \in Seq(Addresses) /\ buffer \in Seq(Addresses) /\ Len(buffer) <= Capacity
  /\ pushes \in [Addresses -> Nat] /\ connecting \in [Addresses -> Nat]
  /\ fetched \in [Addresses \cup {None} -> Nat]
  /\ {trying, fetches, echoes} \subseteq Nat /\ retries \in Nat
  /\ ended_paths \in 0..Cardinality(Seeds) /\ count_paths \in 0..2
  /\ boot \in {"load", "count", "seeds", "done"} /\ shake \in {"pending", "ok", "error"}
  /\ booted \in Seq({"ok", "error"}) /\ told \in Seq({"ok", "error"})
  /\ {finished, starved} \subseteq BOOLEAN
  /\ seed \in [Seeds -> [connect : 0..3, send : BOOLEAN, address : BOOLEAN]]
  /\ listening \in {"none", "listen", "accept"}
  /\ opened \in Nat /\ closed \cup addressed \subseteq 1..opened
  /\ connections \in Seq([address : Addresses, node : 1..opened])
  /\ accepted_channels \in Seq(1..opened)

\* handle_complete of start() hears of success at most once, and then of
\* nothing else; it means that both paths succeeded.  The seeds end the
\* bootstrap once, whatever their handlers report after that: a late answer,
\* the errors of a handshake that failed several times.
StartTold ==
  /\ Len(booted) <= 1
  /\ "ok" \in Range(told) => told = <<"ok">> /\ booted = <<"ok">> /\ shake = "ok"

\* The channels in the two lists are exactly the open ones, each in one place.
ListExact ==
  \A n \in 1..opened :
    IF n \in closed
    THEN Outbound(n) = {} /\ Inbound(n) = {}
    ELSE \/ Inbound(n) = {} /\ \E i \in 1..Len(connections) : Outbound(n) = {i}
         \/ Outbound(n) = {} /\ \E i \in 1..Len(accepted_channels) : Inbound(n) = {i}

\* A running protocol does not give up: connections and attempts under way
\* make up max_outbound_, or another try_connect is on its way.  Only finding
\* hosts empty ends an attempt for good.
KeepsTrying ==
  "ok" \in Range(told) =>
    \/ trying > 0
    \/ starved
    \/ Len(connections) + Attempts >= MaxOutbound


\* The state of a protocol at any time: types, and ListExact.
ProtocolConsistent == TypeOK /\ ListExact
=============================================================================
