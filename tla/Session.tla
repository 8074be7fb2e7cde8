------------------------------ MODULE Session ------------------------------
(***************************************************************************)
(* The session (src/session.cpp, include/bitcoin/session.hpp): start()     *)
(* wires the other parts together, new_channel() listens to every channel, *)
(* set_start_depth() follows the chain, and the inventory handlers ask for *)
(* transactions that are new.                                              *)
(*                                                                         *)
(* A subscriber runs its do_subscribe and do_relay in order on a strand of *)
(* its own; a handler that subscribes again from inside do_relay is        *)
(* registered before do_relay ends.  The strands of the session, of the    *)
(* transaction pool and of the handshake are queues.  The chain's strand   *)
(* may run the pending fetch of the last depth before or after any change  *)
(* of the chain.                                                           *)
(***************************************************************************)
EXTENDS Integers, Sequences, FiniteSets, SequencesExt

CONSTANTS
    Nodes,        \* channels the protocol may make
    Txs,          \* transaction hashes
    Packets,      \* inventories a peer may send: sequences of Txs and other types
    MaxSize,      \* size of grabbed_invs_
    FirstDepth,   \* depth of the chain when the session starts
    MaxDepth,     \* bound on the depth
    Budgets       \* bounds: how many changes of the chain, channels, packets and
                  \* changes of the pool there are, one chosen per behaviour

VARIABLES
    thread,       \* the next statement of start()
    channels,     \* strand of the protocol's channel subscriber
    listeners,    \* what it has registered: "query", "new_channel"
    state,        \* per node: "none", "made", "listening", "stopped"
    queried,      \* nodes the poller was told to query, in order
    monitored,    \* nodes the poller monitors
    posted,       \* session strand: <<transaction, node>>
    lookup, expiry, pointer,    \* grabbed_invs_
    asks,         \* transaction pool strand: <<transaction, node>>
    pool,         \* transactions in the pool
    depth,        \* last depth of the chain
    fetching,     \* do_fetch_last_depth is queued on the chain's strand
    changes,      \* strand of the chain's reorganisation subscriber
    registered,   \* set_start_depth is registered with it
    settings,     \* handshake strand: depths to set
    start_depth,  \* template_version_.start_depth
    broadcast,    \* blocks announced to all peers, in order
    made,         \* blocks that have joined the chain so far
    unheard,      \* those that did before start() subscribed to changes
    grabs,        \* transactions grabbed, in order
    offered,      \* transactions some listening node has offered
    outcome,      \* per transaction, what became of the grabs
    budget        \* what the environment may still do

wiring == <<thread, channels, listeners, state, queried, monitored>>
inventories == <<posted, lookup, expiry, pointer, asks, pool, grabs, offered,
                 outcome>>
depths == <<depth, fetching, changes, registered, settings, start_depth,
            broadcast, made, unheard>>
vars == <<wiring, inventories, depths, budget>>

Init ==
    /\ thread = "query" /\ channels = <<>> /\ listeners = {}
    /\ state = [n \in Nodes |-> "none"] /\ queried = <<>> /\ monitored = {}
    /\ posted = <<>> /\ lookup = {} /\ expiry = <<>> /\ pointer = 1
    /\ asks = <<>> /\ pool = {} /\ depth = FirstDepth /\ fetching = FALSE
    /\ changes = <<>> /\ registered = FALSE /\ settings = <<>>
    /\ start_depth = 0 /\ broadcast = <<>> /\ made = 0 /\ unheard = 0
    /\ grabs = <<>> /\ offered = {} /\ outcome = [t \in Txs |-> {}]
    /\ budget \in Budgets

-----------------------------------------------------------------------------
\* start(), statement by statement; protocol_.start() has been called.

StartQuery ==
    /\ thread = "query"
    /\ channels' = Append(channels, <<"subscribe", "query">>)
    /\ thread' = "channel"
    /\ UNCHANGED <<listeners, state, queried, monitored, inventories, depths, budget>>

StartChannel ==
    /\ thread = "channel"
    /\ channels' = Append(channels, <<"subscribe", "new_channel">>)
    /\ thread' = "fetch"
    /\ UNCHANGED <<listeners, state, queried, monitored, inventories, depths, budget>>

StartFetch ==
    /\ thread = "fetch"
    /\ fetching' = TRUE
    /\ thread' = "subscribe"
    /\ UNCHANGED <<channels, listeners, state, queried, monitored, inventories,
                   depth, changes, registered, settings, start_depth, broadcast,
                   made, unheard, budget>>

StartSubscribe ==
    /\ thread = "subscribe"
    /\ changes' = Append(changes, <<"subscribe">>)
    /\ thread' = "done"
    /\ UNCHANGED <<channels, listeners, state, queried, monitored, inventories,
                   depth, fetching, registered, settings, start_depth, broadcast,
                   made, unheard, budget>>

-----------------------------------------------------------------------------
\* The protocol makes a channel and relays it.
Connect(n) ==
    /\ state[n] = "none"
    /\ budget.channels > 0
    /\ budget' = [budget EXCEPT !.channels = @ - 1]
    /\ state' = [state EXCEPT ![n] = "made"]
    /\ channels' = Append(channels, <<"relay", n>>)
    /\ UNCHANGED <<thread, listeners, queried, monitored, inventories, depths>>

\* What is registered again when a channel has been relayed.
Renewed(called) == called \cap {"new_channel"}

\* One step of the channel subscriber.  new_channel() subscribes to the node's
\* inventories, subscribes to channels again and has the poller monitor the
\* node; the lambda of start() has the poller query it, and does not subscribe
\* again.
ChannelStep ==
    /\ channels # <<>>
    /\ channels' = Tail(channels)
    /\ LET item == Head(channels) IN
       IF item[1] = "subscribe"
       THEN /\ listeners' = listeners \cup {item[2]}
            /\ UNCHANGED <<state, queried, monitored>>
       ELSE LET n == item[2] IN
            /\ listeners' = Renewed(listeners)
            /\ state' = [state EXCEPT ![n] =
                  IF "new_channel" \in listeners /\ @ = "made" THEN "listening" ELSE @]
            /\ monitored' = IF "new_channel" \in listeners
                            THEN monitored \cup {n} ELSE monitored
            /\ queried' = IF "query" \in listeners
                          THEN Append(queried, n) ELSE queried
    /\ UNCHANGED <<thread, inventories, depths, budget>>

\* The channel stops: inventory() is called with an error and returns without
\* subscribing again; a channel that stopped before answers a subscription so.
StopChannel(n) ==
    /\ state[n] \in {"made", "listening"}
    /\ state' = [state EXCEPT ![n] = "stopped"]
    /\ UNCHANGED <<thread, channels, listeners, queried, monitored, inventories,
                   depths, budget>>

-----------------------------------------------------------------------------
\* inventory(): the transactions of a packet are posted, everything else is
\* the poller's or unknown.
Inventory(n, packet) ==
    LET transactions == SelectSeq(packet, LAMBDA hash : hash \in Txs)
    IN  /\ state[n] = "listening"
        /\ budget.packets > 0
        /\ budget' = [budget EXCEPT !.packets = @ - 1]
        /\ posted' = posted \o [i \in DOMAIN transactions |-> <<transactions[i], n>>]
        /\ offered' = offered \cup Range(transactions)
        /\ UNCHANGED <<lookup, expiry, pointer, asks, pool, grabs, outcome,
                       wiring, depths>>

\* The place after that of the entry just overwritten.
CycleFault(at) == at
Cycle(at) == IF at = MaxSize THEN 1 ELSE at + 1

\* pumpkin_buffer::store(): the oldest entry is overwritten once it is full.
Grab(tx) ==
    IF Len(expiry) < MaxSize
    THEN /\ lookup' = lookup \cup {tx}
         /\ expiry' = Append(expiry, tx)
         /\ UNCHANGED pointer
    ELSE /\ lookup' = (lookup \ {expiry[pointer]}) \cup {tx}
         /\ expiry' = [expiry EXCEPT ![pointer] = tx]
         /\ pointer' = Cycle(pointer)

\* The hash is stored before it is looked up.
NewTxInventoryFault ==
    /\ posted # <<>>
    /\ posted' = Tail(posted)
    /\ LET tx == Head(posted)[1] IN
       IF tx \in lookup
       THEN UNCHANGED <<lookup, expiry, pointer, asks, grabs>>
       ELSE /\ asks' = asks
            /\ Grab(tx)
            /\ grabs' = Append(grabs, tx)
    /\ UNCHANGED <<pool, offered, outcome, wiring, depths, budget>>

\* new_tx_inventory(): a hash not grabbed recently is looked up in the pool.
NewTxInventory ==
    /\ posted # <<>>
    /\ posted' = Tail(posted)
    /\ LET tx == Head(posted)[1] IN
       IF tx \in lookup
       THEN UNCHANGED <<lookup, expiry, pointer, asks, grabs>>
       ELSE /\ asks' = Append(asks, Head(posted))
            /\ Grab(tx)
            /\ grabs' = Append(grabs, tx)
    /\ UNCHANGED <<pool, offered, outcome, wiring, depths, budget>>

\* transaction_pool::exists() calls request_tx_data(), which sends get_data
\* unless the pool has the transaction; a stopped channel sends nothing.
RequestTxData ==
    /\ asks # <<>>
    /\ asks' = Tail(asks)
    /\ LET tx == Head(asks)[1]
           what == IF tx \in pool THEN "known"
                   ELSE IF state[Head(asks)[2]] = "stopped" THEN "unsent"
                   ELSE "sent"
       IN  outcome' = [outcome EXCEPT ![tx] = @ \cup {what}]
    /\ UNCHANGED <<posted, lookup, expiry, pointer, pool, grabs, offered, wiring,
                   depths, budget>>

\* The pool gains a transaction or loses one.
PoolChanges(tx) ==
    /\ budget.pools > 0
    /\ budget' = [budget EXCEPT !.pools = @ - 1]
    /\ pool' = IF tx \in pool THEN pool \ {tx} ELSE pool \cup {tx}
    /\ UNCHANGED <<posted, lookup, expiry, pointer, asks, grabs, offered, outcome,
                   wiring, depths>>

-----------------------------------------------------------------------------
\* The organizer replaces what is above the fork by some new blocks, and
\* relays it.
Reorganise(fork, count) ==
    /\ budget.changes > 0
    /\ budget' = [budget EXCEPT !.changes = @ - 1]
    /\ depth' = fork + count
    /\ made' = made + count
    /\ unheard' = IF thread = "done" THEN unheard ELSE made'
    /\ changes' = Append(changes, <<"relay", fork, count, made>>)
    /\ UNCHANGED <<fetching, registered, settings, start_depth, broadcast,
                   wiring, inventories>>

\* do_fetch_last_depth(), which hands the depth to handshake::set_start_depth.
FetchLastDepth ==
    /\ fetching
    /\ fetching' = FALSE
    /\ settings' = Append(settings, depth)
    /\ UNCHANGED <<depth, changes, registered, start_depth, broadcast, made,
                   unheard, wiring, inventories, budget>>

SubscribeChanges ==
    /\ changes # <<>>
    /\ Head(changes)[1] = "subscribe"
    /\ changes' = Tail(changes)
    /\ registered' = TRUE
    /\ UNCHANGED <<depth, fetching, settings, start_depth, broadcast, made, unheard,
                   wiring, inventories, budget>>

\* A change nobody has subscribed to.
RelayUnheard ==
    /\ changes # <<>>
    /\ Head(changes)[1] = "relay"
    /\ ~registered
    /\ changes' = Tail(changes)
    /\ UNCHANGED <<depth, fetching, registered, settings, start_depth, broadcast,
                   made, unheard, wiring, inventories, budget>>

\* The new depth, from the depth of the fork and the number of new blocks.
LastDepthFault(fork, count) == count
LastDepth(fork, count) == fork + count

\* The handler does not subscribe again.
SetStartDepthFault ==
    /\ changes # <<>>
    /\ Head(changes)[1] = "relay"
    /\ registered
    /\ changes' = Tail(changes)
    /\ registered' = FALSE
    /\ LET item == Head(changes) IN
       /\ settings' = Append(settings, LastDepth(item[2], item[3]))
       /\ broadcast' = broadcast \o [i \in 1..item[3] |-> item[4] + i]
    /\ UNCHANGED <<depth, fetching, start_depth, made, unheard, wiring,
                   inventories, budget>>

\* set_start_depth(): set the depth, subscribe again (at once, in the strand of
\* the subscriber) and announce the new blocks to all peers.
SetStartDepth ==
    /\ changes # <<>>
    /\ Head(changes)[1] = "relay"
    /\ registered
    /\ changes' = Tail(changes)
    /\ LET item == Head(changes) IN
       /\ settings' = Append(settings, LastDepth(item[2], item[3]))
       /\ broadcast' = broadcast \o [i \in 1..item[3] |-> item[4] + i]
    /\ UNCHANGED <<depth, fetching, registered, start_depth, made, unheard, wiring,
                   inventories, budget>>

\* handshake::do_set_start_depth()
DoSetStartDepth ==
    /\ settings # <<>>
    /\ settings' = Tail(settings)
    /\ start_depth' = Head(settings)
    /\ UNCHANGED <<depth, fetching, changes, registered, broadcast, made, unheard,
                   wiring, inventories, budget>>

-----------------------------------------------------------------------------
\* What the program's threads run.
Run ==
    \/ StartQuery \/ StartChannel \/ StartFetch \/ StartSubscribe
    \/ ChannelStep
    \/ NewTxInventory \/ RequestTxData
    \/ FetchLastDepth \/ SubscribeChanges \/ RelayUnheard \/ SetStartDepth
    \/ DoSetStartDepth

Next ==
    \/ Run
    \/ \E n \in Nodes : Connect(n) \/ StopChannel(n)
    \/ \E n \in Nodes, packet \in Packets : Inventory(n, packet)
    \/ \E tx \in Txs : PoolChanges(tx)
    \/ \E fork \in 0..depth : \E count \in 1..(MaxDepth - fork) :
          Reorganise(fork, count)

Spec == Init /\ [][Next]_vars

\* The threads of the service run whatever is posted to a strand; peers, the
\* pool and the chain may do anything or nothing.
FairSpec == Spec /\ WF_vars(Run)

-----------------------------------------------------------------------------
\* Types; grabbed_invs_ and its pointer stay within MaxSize.
TypeOK ==
    /\ thread \in {"query", "channel", "fetch", "subscribe", "done"}
    /\ listeners \subseteq {"query", "new_channel"}
    /\ state \in [Nodes -> {"none", "made", "listening", "stopped"}]
    /\ monitored \subseteq Nodes
    /\ lookup \subseteq Txs /\ expiry \in Seq(Txs) /\ Len(expiry) <= MaxSize
    /\ pointer \in 1..MaxSize
    /\ depth \in 0..MaxDepth /\ start_depth \in 0..MaxDepth
    /\ outcome \in [Txs -> SUBSET {"known", "sent", "unsent"}]

\* "make the items in this structure expire by using a circular buffer that
\* overwrites old entries" (session.hpp): grabbed_invs_ has exactly the last
\* MaxSize hashes grabbed, all different, and the set and the vector agree, so
\* that erase() in store() finds the entry it asserts.
RecentExact ==
    LET recent == SubSeq(grabs, Len(grabs) - Len(expiry) + 1, Len(grabs))
    IN  /\ Len(expiry) = IF Len(grabs) < MaxSize THEN Len(grabs) ELSE MaxSize
        /\ lookup = Range(recent)
        /\ lookup = Range(expiry)
        /\ Cardinality(lookup) = Len(expiry)

\* Whatever the order in which the chain, the session and the peers run, the
\* blocks that joined the chain after start() subscribed are announced, in the
\* order in which they joined, none twice; what is missing is still to be
\* relayed.
AnnouncesAll ==
    LET waiting == SelectSeq(changes,
                       LAMBDA item : item[1] = "relay" /\ item[4] >= unheard)
        Count(sum, item) == sum + item[3]
        announced == made - unheard - FoldLeft(Count, 0, waiting)
    IN  broadcast = [i \in 1..announced |-> unheard + i]

\* The subscription to channels survives every channel: a channel made after
\* start() subscribed is monitored once its relay has run, and the poller is
\* asked to query one channel at most.
ChannelsServed ==
    /\ Len(queried) <= 1
    /\ thread \notin {"query", "channel"} /\ channels = <<>> => "new_channel" \in listeners
    /\ \A n \in Nodes : state[n] = "listening" => n \in monitored

\* The depth the handshake tells new peers is in the end the depth of the
\* chain, although the depth that start() fetched and those that the changes
\* bring travel through different strands.  The exception is a change that came
\* before start() had subscribed and that no later one followed.
StartDepthFollows ==
    <>[](start_depth = depth \/ (made > 0 /\ made = unheard))

\* Every transaction that a peer offers is requested, or the pool had it, or
\* the peer it was to be requested from was gone, once for every grab.
\* (From some time on nothing offered is without its outcome; offered and
\* outcome only grow.)
OfferAnswered == <>[](\A t \in Txs : t \in offered => outcome[t] # {})

\* The state of a session at any time: types, RecentExact and ChannelsServed.
SessionConsistent == TypeOK /\ RecentExact /\ ChannelsServed
=============================================================================
