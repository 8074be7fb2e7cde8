-------------------------------- MODULE Sync --------------------------------
(***************************************************************************)
(* How a node downloads blocks: session attaches the poller to the         *)
(* channels, the poller asks a peer for blocks with a block locator        *)
(* (blockchain.cpp's fetch_locator), requests what the peer announces and  *)
(* stores what it sends.                                                   *)
(*                                                                         *)
(* The chain is seen as a whole: one action stores a block, with the       *)
(* outcome Organizer.tla gives in detail; every block is valid.  Handlers  *)
(* queued on the chain's strand are serialised but not ordered             *)
(* (async_strand::queue posts a wrapped handler), so every pending one may *)
(* run next.  A channel delivers in order.  The peers are external: they   *)
(* answer as the comments of session::get_blocks describe.                 *)
(***************************************************************************)
EXTENDS Integers, Sequences, FiniteSets, SequencesExt, BagsExt

CONSTANTS
    Nodes,      \* peers
    PeerChain,  \* peer -> the blocks of its chain, from the genesis block
    Work,       \* block -> its work
    InvLimit,   \* peer -> blocks it announces in one answer (500)
    Sessions,   \* the peers a session may meet, and the last block of the
                \* chain it starts with
    Dense,      \* see BlockRules
    Announcers  \* peers that announce their last block unasked, once

Rules == INSTANCE BlockRules WITH Radix <- 256, Subsidy <- 50, Halving <- 210000

VARIABLES
    chain, pool,   \* the main chain and the orphans beside it
    first,         \* the peer session's one query went to, or <<>>
    reachable,     \* the peers this session meets
    channels,      \* peers whose channel the session was told of
    listening,     \* peers whose inventories the poller is subscribed to
    inbox,         \* peer -> inventory passed to the poller's strand, or <<>>
    fetches,       \* bag of the fetch_locator objects under way
    stores,        \* bag of the blocks queued for do_store
    lastEnd,       \* last_hash_end_ with the peer and the end of that request
    lastBlock,     \* last_block_hash_, <<>> for null_hash
    fromPeer,      \* peer -> messages on their way to the node
    more,          \* peer -> the announced block after which it announces again
    announced,     \* peers that have announced their last block
    lost           \* a locator, an inventory or a request was lost for good

poller == <<reachable, first, channels, listening, inbox, lastEnd, lastBlock>>
peers == <<fromPeer, more, announced>>
vars == <<chain, pool, fetches, stores, lost, poller, peers>>

Genesis == Head(PeerChain[CHOOSE n \in Nodes : TRUE])
Blocks == UNION { Range(PeerChain[n]) : n \in Nodes }

\* The blocks from the genesis block to b.
Path(b) ==
    LET n == CHOOSE m \in Nodes : b \in Range(PeerChain[m])
    IN  SubSeq(PeerChain[n], 1, CHOOSE i \in DOMAIN PeerChain[n] :
                                    PeerChain[n][i] = b)

TotalWork(path) == FoldLeft(LAMBDA sum, b : sum + Work[b], 0, path)

LastDepth == Len(chain) - 1

-----------------------------------------------------------------------------
\* The peers (external).  A peer's chain stands still, so its answer is put in
\* fromPeer when it is asked; how long it takes is how long it lies there.

Position(n, b) == CHOOSE i \in DOMAIN PeerChain[n] : PeerChain[n][i] = b
Inv(list) == [kind |-> "inv", list |-> list]
Send(n, messages) == fromPeer' = [fromPeer EXCEPT ![n] = @ \o messages]

\* get_blocks: the blocks after the first entry of the locator that the peer
\* has, up to stop.
GetBlocks(n, locator, stop) ==
    LET shared == SelectSeq(locator, LAMBDA b : b \in Range(PeerChain[n]))
        from == Position(n, Head(shared)) + 1
        upto == IF stop # <<>> /\ stop[1] \in Range(PeerChain[n])
                THEN Position(n, stop[1]) ELSE Len(PeerChain[n])
        list == SubSeq(PeerChain[n], from, Min({upto, from + InvLimit[n] - 1}))
    IN  /\ more' = [more EXCEPT ![n] =
                IF Len(list) = InvLimit[n] THEN <<Last(list)>> ELSE <<>>]
        /\ Send(n, IF list = <<>> THEN <<>> ELSE <<Inv(list)>>)

\* get_data: the blocks, and the last block's inventory after the one that
\* ended a full announcement.
GetData(n, list) ==
    LET again == more[n] # <<>> /\ more[n][1] \in Range(list)
        tip == IF again THEN <<Inv(<<Last(PeerChain[n])>>)>> ELSE <<>>
    IN  /\ more' = [more EXCEPT ![n] = IF again THEN <<>> ELSE @]
        /\ Send(n, [k \in DOMAIN list |->
                        [kind |-> "block", list |-> <<list[k]>>]] \o tip)

PeerAnnounces(n) ==
    /\ n \in (Announcers \cap channels) \ announced
    /\ announced' = announced \cup {n}
    /\ Send(n, <<Inv(<<Last(PeerChain[n])>>)>>)
    /\ UNCHANGED <<chain, pool, fetches, stores, lost, poller, more>>

-----------------------------------------------------------------------------
\* session

\* A fetch_locator for node n, before fetch_last_depth has answered.
FetchLocator(n, stop) ==
    [node |-> n, stop |-> stop, step |-> "depth", want |-> {}, meta |-> {}]

\* Both subscriptions of session::start are called for the first channel;
\* only new_channel subscribes again.
NewChannel(n) ==
    /\ n \in reachable \ channels
    /\ channels' = channels \cup {n}
    /\ listening' = listening \cup {n}
    /\ IF first = <<>>
       THEN first' = <<n>> /\ fetches' = BagAdd(fetches, FetchLocator(n, <<>>))
       ELSE UNCHANGED <<first, fetches>>
    /\ UNCHANGED <<chain, pool, stores, lost, peers>>
    /\ UNCHANGED <<reachable, inbox, lastEnd, lastBlock>>

-----------------------------------------------------------------------------
\* fetch_locator

Becomes(f, g) == BagAdd(BagRemove(fetches, f), g)

\* populate.  The constructor leaves stopped_ uninitialised and this is its
\* first reader: when it happens to be true the handler is never called.  The
\* genesis header, the same whenever it is read, is taken at once.
Populate(f, stopped) ==
    LET indexes == Range(Rules!LocatorIndexes(LastDepth))
        asked == [f EXCEPT !.step = IF indexes = {0} THEN "ask" ELSE "headers",
                           !.want = indexes \ {0}, !.meta = {<<0, Genesis>>}]
    IN
    /\ f.step = "depth"
    /\ fetches' = IF stopped THEN BagRemove(fetches, f) ELSE Becomes(f, asked)
    /\ lost' = (lost \/ stopped)
    /\ UNCHANGED <<chain, pool, stores, poller, peers>>

AppendHeaderFault(f, depth) ==
    /\ f.step = "headers" /\ depth \in f.want
    /\ fetches' = IF depth > LastDepth THEN fetches
                  ELSE Becomes(f, [f EXCEPT !.want = @ \ {depth},
                            !.meta = @ \cup {<<depth, chain[depth + 1]>>},
                            !.step = IF f.want = {depth} THEN "ask" ELSE @])
    /\ UNCHANGED <<chain, pool, stores, lost, poller, peers>>

\* append: one header, read from whatever the chain is by now; an error ends
\* the fetch.
AppendHeader(f, depth) ==
    /\ f.step = "headers" /\ depth \in f.want
    /\ fetches' = IF depth > LastDepth THEN BagRemove(fetches, f)
                  ELSE Becomes(f, [f EXCEPT !.want = @ \ {depth},
                            !.meta = @ \cup {<<depth, chain[depth + 1]>>},
                            !.step = IF f.want = {depth} THEN "ask" ELSE @])
    /\ lost' = (lost \/ depth > LastDepth)
    /\ UNCHANGED <<chain, pool, stores, poller, peers>>


\* final: deepest first.
Final(meta) ==
    LET byDepth == SetToSortSeq(meta, LAMBDA a, b : a[1] > b[1])
    IN  [k \in DOMAIN byDepth |-> byDepth[k][2]]

-----------------------------------------------------------------------------
\* poller

\* ask_blocks on the poller's strand.  A request with the front of the last
\* one is skipped, even one for another peer or another hash_stop.
AskBlocks(f) ==
    LET locator == Final(f.meta)
        request == [hash |-> <<Head(locator)>>, node |-> f.node,
                    stop |-> f.stop]
    IN  /\ f.step = "ask"
        /\ fetches' = BagRemove(fetches, f)
        /\ IF lastEnd.hash = request.hash
           THEN /\ lost' = (lost \/ request # lastEnd)
                /\ UNCHANGED <<lastEnd, fromPeer, more>>
           ELSE /\ lastEnd' = request
                /\ GetBlocks(f.node, locator, f.stop)
                /\ UNCHANGED lost
        /\ UNCHANGED <<chain, pool, stores>>
        /\ UNCHANGED <<reachable, first, channels, listening, inbox, lastBlock>>
        /\ UNCHANGED announced

\* The channel relays an inventory.  The poller's handler goes through its
\* strand and subscribes again only there: an inventory that comes in between
\* finds no subscriber.
RelayInventory(n) ==
    /\ n \in channels /\ fromPeer[n] # <<>> /\ Head(fromPeer[n]).kind = "inv"
    /\ fromPeer' = [fromPeer EXCEPT ![n] = Tail(@)]
    /\ IF n \in listening
       THEN /\ inbox' = [inbox EXCEPT ![n] = Head(fromPeer[n]).list]
            /\ listening' = listening \ {n}
            /\ UNCHANGED lost
       ELSE /\ lost' = TRUE
            /\ UNCHANGED <<inbox, listening>>
    /\ UNCHANGED <<chain, pool, fetches, stores>>
    /\ UNCHANGED <<reachable, first, channels, lastEnd, lastBlock>>
    /\ UNCHANGED <<more, announced>>


\* The announced blocks that receive_inv requests.
Wanted(list) == SelectSeq(list, LAMBDA b : <<b>> # lastBlock)

\* receive_inv subscribes again, whether it requested anything or not.
Relisten(n) == listening \cup {n}

\* receive_inv.
ReceiveInv(n) ==
    LET wanted == Wanted(inbox[n])
    IN  /\ inbox[n] # <<>>
        /\ IF wanted = <<>>
           THEN UNCHANGED <<lastBlock, fromPeer, more>>
           ELSE lastBlock' = <<Last(wanted)>> /\ GetData(n, wanted)
        /\ inbox' = [inbox EXCEPT ![n] = <<>>]
        /\ listening' = Relisten(n)
        /\ UNCHANGED <<chain, pool, fetches, stores, lost>>
        /\ UNCHANGED <<reachable, first, channels, lastEnd>>
        /\ UNCHANGED announced

\* receive_block queues do_store and subscribes again at once.
ReceiveBlock(n) ==
    /\ n \in channels /\ fromPeer[n] # <<>> /\ Head(fromPeer[n]).kind = "block"
    /\ stores' = BagAdd(stores, [block |-> Head(fromPeer[n]).list[1],
                                 node |-> n])
    /\ fromPeer' = [fromPeer EXCEPT ![n] = Tail(@)]
    /\ UNCHANGED <<chain, pool, fetches, lost, poller>>
    /\ UNCHANGED <<more, announced>>

-----------------------------------------------------------------------------
\* The chain

\* The block joins the chain when its ancestors are all known and its path is
\* heavier: the organizer looks at the arriving block only, so blocks above it
\* that wait in the pool stay there.
Wins(b, known) ==
    /\ Range(Path(b)) \subseteq known
    /\ TotalWork(Path(b)) > TotalWork(chain)

\* replace_chain takes the blocks of the new branch out of the pool and puts
\* the replaced ones in.
PoolAfter(b) == (pool \cup Range(chain)) \ Range(Path(b))

\* do_store with poller::handle_store: an orphan starts a fetch_locator, a
\* block that is an orphan already two of them.
Store(s) ==
    LET b == s.block
        fetch == FetchLocator(s.node, <<b>>)
    IN  /\ stores' = BagRemove(stores, s)
        /\ IF b \in Range(chain)
           THEN UNCHANGED <<chain, pool, fetches>>
           ELSE IF b \in pool
           THEN /\ fetches' = BagAdd(BagAdd(fetches, fetch), fetch)
                /\ UNCHANGED <<chain, pool>>
           ELSE IF Wins(b, pool \cup Range(chain) \cup {b})
           THEN /\ chain' = Path(b)
                /\ pool' = PoolAfter(b)
                /\ UNCHANGED fetches
           ELSE /\ pool' = pool \cup {b}
                /\ fetches' = BagAdd(fetches, fetch)
                /\ UNCHANGED chain
        /\ UNCHANGED <<lost, poller, peers>>

-----------------------------------------------------------------------------
Init ==
    /\ \E s \in Sessions : reachable = s.peers /\ chain = Path(s.tip)
    /\ pool = {}
    /\ first = <<>> /\ channels = {} /\ listening = {}
    /\ inbox = [n \in Nodes |-> <<>>]
    /\ fetches = EmptyBag /\ stores = EmptyBag
    /\ lastEnd = [hash |-> <<>>, node |-> <<>>, stop |-> <<>>]
    /\ lastBlock = <<>>
    /\ fromPeer = [n \in Nodes |-> <<>>]
    /\ more = [n \in Nodes |-> <<>>] /\ announced = {}
    /\ lost = FALSE

\* What is queued on a strand or lies in a socket is dealt with in the end.
Obliged ==
    \/ \E f \in DOMAIN fetches :
        \/ AskBlocks(f)
        \/ \E stopped \in BOOLEAN : Populate(f, stopped)
        \/ \E depth \in f.want : AppendHeader(f, depth)
    \/ \E n \in Nodes :
        RelayInventory(n) \/ ReceiveInv(n) \/ ReceiveBlock(n)
    \/ \E s \in DOMAIN stores : Store(s)

Next ==
    \/ Obliged
    \/ \E n \in Nodes : NewChannel(n) \/ PeerAnnounces(n)

Spec == Init /\ [][Next]_vars /\ WF_vars(Obliged)
-----------------------------------------------------------------------------
\* Types; a locator under construction waits for headers exactly in the step that
\* collects them, and no orphan is in the chain.
TypeOK ==
    /\ Range(chain) \subseteq Blocks /\ chain[1] = Genesis
    /\ pool \subseteq Blocks \ Range(chain)
    /\ channels \subseteq Nodes /\ listening \subseteq channels
    /\ \A f \in DOMAIN fetches :
        /\ f.node \in channels /\ f.step \in {"depth", "headers", "ask"}
        /\ (f.step = "headers") = (f.want # {})
    /\ \A s \in DOMAIN stores : s.block \in Blocks /\ s.node \in channels

\* A locator that fetch_locator hands to ask_blocks leads from some block
\* down to the genesis block, each entry at a smaller depth than the one
\* before, even when the headers were read from two branches.
LocatorDescends ==
    \A f \in DOMAIN fetches : f.step = "ask" =>
        LET locator == Final(f.meta)
        IN  /\ Last(locator) = Genesis
            /\ \A k \in 1..Len(locator) - 1 :
                    Len(Path(locator[k])) > Len(Path(locator[k + 1]))

\* The poller's subscription to a peer's inventories is never lost: it is
\* registered, or receive_inv is on its way and will register it again.
PollerListens == \A n \in channels : (n \in listening) = (inbox[n] = <<>>)

Quiet ==
    /\ first # <<>>
    /\ fetches = EmptyBag /\ stores = EmptyBag
    /\ \A n \in Nodes : inbox[n] = <<>> /\ fromPeer[n] = <<>>


\* The exchange ends: whatever it is sent, the node stops asking.
Settles == first # <<>> ~> Quiet

=============================================================================
