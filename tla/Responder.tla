----------------------------- MODULE Responder ------------------------------
(***************************************************************************)
(* getx_responder answers a peer's getdata from the transaction pool and   *)
(* the chain; a block is put together by fetch_block_t: its header, its    *)
(* transaction hashes and then each transaction, one query of the chain    *)
(* each.  The queries run on the chain's strand, between the passes that   *)
(* ChainStore describes, so the chain may be reorganised between any two   *)
(* of them.  A restart ends the fetch.                                     *)
(***************************************************************************)
EXTENDS ChainStore

CONSTANTS
    Requests,  \* what peers or callers ask for, each a record [kind, key] of
               \* kind "block" (by hash), "depth" or "tx"
    Offered    \* bound: the ends of the branches offered during a fetch

VARIABLES
    request,   \* the request being served, or <<>>
    step,      \* the query it waits for; "done" after the last one
    header,    \* block_, without its transactions, or <<>>
    hashes,    \* the hashes of fetch_transactions
    body,      \* index -> the transaction stored in block_.transactions
    waiting,   \* indexes whose fetch_transaction has not answered yet
    stopped,   \* stopped_
    answers    \* what handle_ or the channel was given, in order

fetch == <<request, step, header, hashes, body, waiting, stopped, answers>>
allVars == <<vars, fetch>>

FetchInit ==
    /\ request = <<>> /\ step = "none" /\ header = <<>> /\ hashes = <<>>
    /\ body = <<>> /\ waiting = {} /\ stopped = FALSE /\ answers = <<>>

\* receive_get_data, or a call of fetch_block with a depth.
Receive(r) ==
    /\ request = <<>> /\ Last(durable.blocks) \in Offered
    /\ request' = <<r>>
    /\ step' = IF r.kind = "tx" THEN "pool" ELSE "header"
    /\ UNCHANGED <<vars, header, hashes, body, waiting, stopped, answers>>

StopOnErrorFault == stopped' = TRUE /\ UNCHANGED answers

\* A query's handler is called with an error: stop_on_error answers unless an
\* answer was given before.
StopOnError ==
    /\ answers' = IF stopped THEN answers ELSE Append(answers, <<>>)
    /\ stopped' = TRUE

FetchHeader ==
    LET r == request[1]
        found == IF r.kind = "depth" THEN FetchBlockHeaderByDepth(durable, r.key)
                 ELSE FetchBlockHeaderByHash(durable, r.key)
    IN  /\ phase = "idle" /\ step = "header"
        /\ IF found = <<>>
           THEN StopOnError /\ step' = "done" /\ UNCHANGED header
           ELSE /\ header' = found
                /\ step' = "hashes"
                /\ UNCHANGED <<answers, stopped>>
        /\ UNCHANGED <<vars, request, hashes, body, waiting>>

FetchHashes ==
    LET found == FetchBlockTransactionHashes(durable, header[1])
    IN  /\ phase = "idle" /\ step = "hashes"
        /\ IF found = <<>>
           THEN /\ StopOnError
                /\ step' = "done"
                /\ UNCHANGED <<hashes, body, waiting>>
           ELSE /\ hashes' = found
                /\ body' = [i \in DOMAIN found |-> <<>>]
                /\ waiting' = DOMAIN found
                /\ step' = "txs"
                /\ UNCHANGED <<answers, stopped>>
        /\ UNCHANGED <<vars, request, header>>

CompleteFault(filled) == filled[Len(hashes)] # <<>>

\* count_ has reached the number of hashes.
Complete(filled) ==
    Cardinality({ i \in DOMAIN filled : filled[i] # <<>> }) = Len(hashes)

\* The handler of fetch_tx, called once per index in any order.
FetchTx(i) ==
    LET found == FetchTransaction(durable, hashes[i])
        filled == [body EXCEPT ![i] = found]
    IN  /\ phase = "idle" /\ step = "txs" /\ i \in waiting
        /\ waiting' = waiting \ {i}
        /\ step' = IF waiting' = {} THEN "done" ELSE step
        /\ IF found = <<>> \/ stopped
           THEN /\ IF found = <<>> THEN StopOnError
                                   ELSE UNCHANGED <<answers, stopped>>
                /\ UNCHANGED body
           ELSE /\ body' = filled
                /\ answers' = IF Complete(filled)
                              THEN Append(answers, <<header[1], filled>>)
                              ELSE answers
                /\ UNCHANGED stopped
        /\ UNCHANGED <<vars, request, header, hashes>>

\* pool_tx: the pool has the transaction or not, then the chain is asked.
PoolTx(inPool) ==
    /\ step = "pool"
    /\ IF inPool
       THEN answers' = Append(answers, Tx[request[1].key]) /\ step' = "done"
       ELSE step' = "chain" /\ UNCHANGED answers
    /\ UNCHANGED <<vars, request, header, hashes, body, waiting, stopped>>

\* chain_tx; an error is not answered.
ChainTx ==
    /\ phase = "idle" /\ step = "chain"
    /\ answers' = answers \o FetchTransaction(durable, request[1].key)
    /\ step' = "done"
    /\ UNCHANGED <<vars, request, header, hashes, body, waiting, stopped>>

FetchStep ==
    \/ FetchHeader \/ FetchHashes \/ ChainTx
    \/ \E i \in waiting : FetchTx(i)
    \/ \E inPool \in BOOLEAN : PoolTx(inPool)

OfferedPass ==
    /\ Pass /\ UNCHANGED fetch
    /\ phase = "idle" /\ request # <<>> => Last(branch') \in Offered

Restart ==
    /\ Crash
    /\ request' = <<>> /\ step' = "none" /\ header' = <<>> /\ hashes' = <<>>
    /\ body' = <<>> /\ waiting' = {} /\ stopped' = FALSE /\ answers' = <<>>

ServeInit == Init /\ FetchInit
ServeNext ==
    \/ OfferedPass
    \/ Restart
    \/ \E r \in Requests : Receive(r)
    \/ FetchStep

\* A handler queued on the strand runs some time, however many passes of the
\* organizer come before it.
ServeSpec == ServeInit /\ [][ServeNext]_allVars /\ SF_allVars(FetchStep)

-----------------------------------------------------------------------------
\* The block that fetch_block hands over is one block of the tree, whole and in
\* order, and the one asked for when it was asked for by hash, although its
\* parts were read at different times; handle_ is called once.
ServedWhole ==
    /\ Len(answers) <= 1
    /\ \A k \in DOMAIN answers : request[1].kind # "tx" /\ answers[k] # <<>> =>
        LET block == answers[k][1]
            given == answers[k][2]
        IN  /\ request[1].kind = "block" => block = request[1].key
            /\ given = [i \in DOMAIN Block[block].txs |->
                            <<Tx[Block[block].txs[i]]>>]

\* If the organizer's passes end and the process does not restart, a fetch
\* that was begun ends too, and a fetch of a block has called handle_, with an
\* error if the block was replaced meanwhile.
Served ==
    []<>(phase = "idle") =>
        ((request # <<>>) ~>
            \/ request = <<>>
            \/ step = "done" /\ (request[1].kind # "tx" => answers # <<>>))
=============================================================================
