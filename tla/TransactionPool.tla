-------------------------- MODULE TransactionPool --------------------------
(***************************************************************************)
(* The memory pool of unconfirmed transactions: transaction_pool, the      *)
(* validate_transaction object that each store starts, and the one-shot    *)
(* subscription to changes of the main chain.                              *)
(*                                                                         *)
(* Pool and validators share one strand (a FIFO queue of handlers, one at  *)
(* a time).  A validator asks the blockchain one question at a time; the   *)
(* blockchain answers on a strand of its own and posts the answer to the   *)
(* pool's strand.  Whatever a validator has learned may be out of date when *)
(* its next handler runs.  The subscriber has a third strand.              *)
(*                                                                         *)
(* A transaction is a model value that stands for its hash.  The main      *)
(* chain is the path to its tip; it moves to heavier blocks only, as       *)
(* ChainPromise says.                                                      *)
(***************************************************************************)
EXTENDS Integers, Sequences, Functions

CONSTANTS
    Blocks, Genesis, Parent, CumWork, Height,  \* the tree of blocks
    BlockTxs,       \* the transactions in a block
    Txs,            \* every transaction
    Inputs,         \* the outpoints <<transaction, index>> a transaction spends
    Outputs,        \* the number of outputs of a transaction
    Coinbases,      \* coinbase transactions
    Malformed,      \* transactions that check_transaction refuses
    BadInputs,      \* <<transaction, input>> whose script or value fails
    Calls,          \* calls of transaction_pool::store
    Tx,             \* the transaction each call passes
    Capacity,       \* capacity of pool_ (2000 in the code)
    Maturity,       \* coinbase_maturity (100 in the code)
    SizeModulus     \* size_t arithmetic is modulo this (2^64 in the code)

\* A set of blocks that holds the parent of each, but for genesis.
Rooted(bs) == \A b \in bs \ {Genesis} : Parent[b] \in bs

\* The blocks from genesis to a block: the smallest such set that it is in.
Path[b \in Blocks] ==
    {a \in Blocks : \A bs \in SUBSET Blocks : b \in bs /\ Rooted(bs) => a \in bs}

TxsOf(bs) == UNION {BlockTxs[b] : b \in bs}

Outpoints(t) == Range(Inputs[t])

ASSUME TreeAssumption ==
    /\ Genesis \in Blocks
    /\ BlockTxs \in [Blocks -> SUBSET Txs]
    /\ CumWork \in [Blocks -> Nat] /\ Height \in [Blocks -> Nat]
    /\ \A b \in Blocks \ {Genesis} :
          /\ Parent[b] \in Blocks
          /\ Height[b] = Height[Parent[b]] + 1
          /\ CumWork[b] > CumWork[Parent[b]]

ASSUME TxAssumption ==
    /\ \A t \in Txs : Inputs[t] \in Seq(Txs \X Nat)
    /\ \A t \in Txs \ (Malformed \cup Coinbases) : Len(Inputs[t]) > 0
    /\ Outputs \in [Txs -> Nat]
    /\ Coinbases \subseteq Txs

\* What validate_block has seen to: on every path a transaction is confirmed
\* once, after the transactions it spends, and no output is spent twice.
ASSUME BlocksAreValid ==
    \A b \in Blocks :
       /\ \A c \in Path[b] \ {b} : BlockTxs[b] \cap BlockTxs[c] = {}
       /\ \A t \in BlockTxs[b] \ Coinbases :
             /\ \A o \in Outpoints(t) : o[1] \in TxsOf(Path[b])
             /\ \A u \in TxsOf(Path[b]) \ {t} :
                   Outpoints(t) \cap Outpoints(u) = {}

ASSUME PoolAssumption ==
    /\ Tx \in [Calls -> Txs]
    /\ Capacity \in Nat \ {0} /\ Maturity \in Nat /\ SizeModulus \in Nat \ {0}

VARIABLES
    tip,          \* the last block of the main chain
    pool,         \* pool_: the calls whose transaction is in the pool
    strand,       \* handlers waiting on the pool's strand, oldest first
    validator,    \* the state of the validate_transaction of a call
    asks,         \* what the validator has asked the blockchain, or "nothing"
    resubmitted,  \* calls whose handle_store is now handle_resubmit
    registry,     \* handlers of the pool in the subscriber's registry
    relays,       \* handlers waiting on the subscriber's strand
    asked,        \* history: calls of store so far
    stores,       \* history: calls of handle_store, for each call of store
    confirms,     \* history: calls of handle_confirm
    evicted       \* history: calls whose entry the full ring pushed out

chain == <<tip>>
subscription == <<registry, relays>>
answers == <<stores, confirms>>
vars == <<tip, pool, strand, validator, asks, resubmitted, registry, relays,
          asked, stores, confirms, evicted>>

\* State of a validator: current_input_, unconfirmed_, last_block_depth_ and
\* the parent_depth bound to the handler of the previous transaction.
Fresh == [input |-> 1, unconfirmed |-> <<>>, last_depth |-> 0,
          parent_depth |-> 0]

Reads == {"duplicate", "last_depth", "index", "previous", "spend"}
Codes == {"success", "duplicate", "double_spend", "input_not_found",
          "validate_inputs_failed", "coinbase_transaction", "malformed"}

Confirmed == TxsOf(Path[tip])

\* The depth of the block that has a confirmed transaction.
DepthOf(t) == Height[CHOOSE b \in Path[tip] : t \in BlockTxs[b]]

\* transaction_pool::tx_exists, and validate_transaction::fetch as a test.
tx_exists(t) == \E i \in DOMAIN pool : Tx[pool[i]] = t

\* validate_transaction::is_spent: an output is spent in the pool.
is_spent(o) == \E i \in DOMAIN pool : o \in Outpoints(Tx[pool[i]])

PreviousOutput(c) == Inputs[Tx[c]][validator[c].input]
-----------------------------------------------------------------------------
\* start() has been called: the subscription is on its way.
Init ==
    /\ tip = Genesis
    /\ pool = <<>>
    /\ strand = <<>>
    /\ validator = [c \in Calls |-> Fresh]
    /\ asks = [c \in Calls |-> "nothing"]
    /\ resubmitted = {}
    /\ registry = 0
    /\ relays = <<[step |-> "do_subscribe"]>>
    /\ asked = {}
    /\ stores = [c \in Calls |-> <<>>]
    /\ confirms = [c \in Calls |-> <<>>]
    /\ evicted = {}

-----------------------------------------------------------------------------
\* The blockchain.

\* The main chain moves to a heavier tip, and notify_reorganize relays the
\* blocks that came in and the blocks that were taken out.
Reorganise(b) ==
    /\ CumWork[b] > CumWork[tip]
    /\ tip' = b
    /\ relays' = Append(relays, [step |-> "do_relay",
                                 new |-> TxsOf(Path[b] \ Path[tip]),
                                 replaced |-> Path[tip] \ Path[b]])
    /\ UNCHANGED <<pool, strand, validator, asks, resubmitted, registry,
                   asked, answers, evicted>>

\* The error and the depth that the fetch operations answer.
Fetched(c) ==
    LET found(t) == IF t \in Confirmed THEN "success" ELSE "not_found"
        prev == PreviousOutput(c)
    IN  CASE asks[c] = "duplicate"  -> <<found(Tx[c]), 0>>
          [] asks[c] = "last_depth" -> <<"success", Height[tip]>>
          [] asks[c] = "index" ->
               <<found(prev[1]), IF prev[1] \in Confirmed THEN DepthOf(prev[1]) ELSE 0>>
          [] asks[c] = "previous" -> <<found(prev[1]), 0>>
          [] asks[c] = "spend" ->
               <<IF \E t \in Confirmed : prev \in Outpoints(t)
                   THEN "success" ELSE "unspent_output", 0>>

\* The blockchain's strand runs a fetch and posts the answer.
Fetch(c) ==
    /\ asks[c] # "nothing"
    /\ strand' = Append(strand, [step |-> asks[c], call |-> c,
                                 ec |-> Fetched(c)[1], depth |-> Fetched(c)[2]])
    /\ asks' = [asks EXCEPT ![c] = "nothing"]
    /\ UNCHANGED <<chain, pool, validator, resubmitted, subscription, asked,
                   answers, evicted>>

-----------------------------------------------------------------------------
\* The subscriber.

DoSubscribe ==
    /\ relays # <<>> /\ Head(relays).step = "do_subscribe"
    /\ registry' = registry + 1
    /\ relays' = Tail(relays)
    /\ UNCHANGED <<chain, pool, strand, validator, asks, resubmitted, asked,
                   answers, evicted>>

\* do_relay empties the registry and calls what was in it: each call is a post
\* to the pool's strand.
DoRelay ==
    /\ relays # <<>> /\ Head(relays).step = "do_relay"
    /\ strand' = strand \o [i \in 1 .. registry |->
                              [Head(relays) EXCEPT !.step = "reorganize"]]
    /\ registry' = 0
    /\ relays' = Tail(relays)
    /\ UNCHANGED <<chain, pool, validator, asks, resubmitted, asked, answers,
                   evicted>>

-----------------------------------------------------------------------------
\* store() and the end of a validation.

\* A client calls store().
Store(c) ==
    /\ c \notin asked
    /\ asked' = asked \cup {c}
    /\ strand' = Append(strand, [step |-> "do_store", call |-> c])
    /\ UNCHANGED <<chain, pool, validator, asks, resubmitted, subscription,
                   answers, evicted>>

\* Operators whose name ends in "Fault" are slips that the code could have
\* made, each before the definition it would take the place of.

\* handle_store: the client's, or handle_resubmit.
HandleStore(c, ec, unconfirmed) ==
    IF c \in resubmitted
      THEN /\ confirms' = IF ec = "success" THEN confirms
                          ELSE [confirms EXCEPT ![c] = Append(@, ec)]
           /\ UNCHANGED stores
      ELSE /\ stores' = [stores EXCEPT ![c] =
                           Append(@, [ec |-> ec, unconfirmed |-> unconfirmed])]
           /\ UNCHANGED confirms

\* circular_buffer::push_back.
PushBack(c) ==
    /\ pool' = Append(IF Len(pool) < Capacity THEN pool ELSE Tail(pool), c)
    /\ evicted' = IF Len(pool) < Capacity THEN evicted
                  ELSE evicted \cup {Head(pool)}

DelegateFault(c, ec, unconfirmed) ==
    /\ HandleStore(c, ec, unconfirmed)
    /\ IF ec = "success" THEN PushBack(c) ELSE UNCHANGED <<pool, evicted>>

\* handle_validate_ runs transaction_pool::handle_delegate at once, as both
\* are on the strand.
handle_delegate(c, ec, unconfirmed) ==
    LET code == IF ec = "success" /\ tx_exists(Tx[c]) THEN "duplicate" ELSE ec
    IN  /\ HandleStore(c, code, IF code \in {"success", "input_not_found"}
                                THEN unconfirmed ELSE <<>>)
        /\ IF code = "success" THEN PushBack(c) ELSE UNCHANGED <<pool, evicted>>

\* The handler that is first on the strand and the rest of it.
Running(step) == strand # <<>> /\ Head(strand).step = step

\* A handler that ends the validation of a call ...
Finish(c, ec, unconfirmed) ==
    /\ handle_delegate(c, ec, unconfirmed)
    /\ validator' = [validator EXCEPT ![c] = Fresh]
    /\ strand' = Tail(strand)
    /\ UNCHANGED <<chain, asks, resubmitted, subscription, asked>>

\* ... and one that leaves the validator in state v with a question asked.
Ask(c, question, v) ==
    /\ asks' = [asks EXCEPT ![c] = question]
    /\ validator' = [validator EXCEPT ![c] = v]
    /\ strand' = Tail(strand)
    /\ UNCHANGED <<chain, pool, resubmitted, subscription, asked, answers,
                   evicted>>

-----------------------------------------------------------------------------
\* The handlers of a validation, in order.

\* check_transaction, the checks that need nothing but the transaction.
check_transaction(t) == IF t \in Malformed THEN "malformed" ELSE "success"

BasicChecks(t) ==
    IF check_transaction(t) # "success" THEN check_transaction(t)
    ELSE IF t \in Coinbases THEN "coinbase_transaction"
    ELSE IF tx_exists(t) THEN "duplicate"
    ELSE "success"

\* do_store and validate_transaction::start.
DoStore ==
    /\ Running("do_store")
    /\ LET c == Head(strand).call
           ec == BasicChecks(Tx[c])
       IN  IF ec # "success" THEN Finish(c, ec, <<>>)
           ELSE Ask(c, "duplicate", Fresh)

HandleDuplicateCheck ==
    /\ Running("duplicate")
    /\ LET c == Head(strand).call
       IN  IF Head(strand).ec # "not_found" THEN Finish(c, "duplicate", <<>>)
           ELSE IF \E o \in Outpoints(Tx[c]) : is_spent(o)
             THEN Finish(c, "double_spend", <<>>)
           ELSE Ask(c, "last_depth", validator[c])

SetLastDepthFault ==
    /\ Running("last_depth")
    /\ strand' = Tail(strand)
    /\ UNCHANGED <<chain, pool, validator, asks, resubmitted, subscription,
                   asked, answers, evicted>>

SetLastDepth ==
    /\ Running("last_depth")
    /\ LET c == Head(strand).call
       IN  Ask(c, "index",
               [validator[c] EXCEPT !.last_depth = Head(strand).depth])

ConnectInputFault(c, v, parent_depth) ==
    LET prev == Inputs[Tx[c]][v.input]
    IN  /\ prev[2] <= Outputs[prev[1]]
        /\ <<Tx[c], v.input>> \notin BadInputs
        /\ prev[1] \in Coinbases =>
              (v.last_depth - parent_depth) % SizeModulus >= Maturity

\* connect_input, with the subtraction of size_t.
connect_input(c, v, parent_depth) ==
    LET prev == Inputs[Tx[c]][v.input]
    IN  /\ prev[2] < Outputs[prev[1]]
        /\ <<Tx[c], v.input>> \notin BadInputs
        /\ prev[1] \in Coinbases =>
              (v.last_depth - parent_depth) % SizeModulus >= Maturity

\* previous_tx_index, with search_pool_previous_tx if the chain does not have
\* the transaction.
PreviousTxIndex ==
    /\ Running("index")
    /\ LET c == Head(strand).call
           v == validator[c]
       IN  IF Head(strand).ec = "success"
             THEN Ask(c, "previous",
                      [v EXCEPT !.parent_depth = Head(strand).depth])
           ELSE IF ~tx_exists(PreviousOutput(c)[1])
             THEN Finish(c, "input_not_found", <<v.input>>)
           ELSE IF ~connect_input(c, v, 0)
             THEN Finish(c, "validate_inputs_failed", <<>>)
           ELSE Ask(c, "spend", [v EXCEPT !.unconfirmed = Append(@, v.input)])

HandlePreviousTx ==
    /\ Running("previous")
    /\ LET c == Head(strand).call
           v == validator[c]
       IN  IF Head(strand).ec # "success"
             THEN Finish(c, "input_not_found", <<v.input>>)
           ELSE IF ~connect_input(c, v, v.parent_depth)
             THEN Finish(c, "validate_inputs_failed", <<>>)
           ELSE Ask(c, "spend", v)

\* check_double_spend, next_previous_transaction and check_fees, which lets
\* every fee pass.
CheckDoubleSpend ==
    /\ Running("spend")
    /\ LET c == Head(strand).call
           v == validator[c]
       IN  IF Head(strand).ec # "unspent_output"
             THEN Finish(c, "double_spend", <<>>)
           ELSE IF v.input = Len(Inputs[Tx[c]])
             THEN Finish(c, "success", v.unconfirmed)
           ELSE Ask(c, "index", [v EXCEPT !.input = @ + 1])

-----------------------------------------------------------------------------
\* Changes of the main chain.

\* circular_buffer::erase.
RemoveAt(s, i) == SubSeq(s, 1, i - 1) \o SubSeq(s, i + 1, Len(s))

\* One turn of takeout_confirmed: try_delete takes out the first entry with
\* the hash of a transaction of the new blocks.
TakeoutConfirmed(t) ==
    /\ Running("reorganize")
    /\ Head(strand).replaced = {}
    /\ t \in Head(strand).new
    /\ IF tx_exists(t)
         THEN \E i \in DOMAIN pool :
                 /\ Tx[pool[i]] = t
                 /\ \A j \in 1 .. i - 1 : Tx[pool[j]] # t
                 /\ pool' = RemoveAt(pool, i)
                 /\ confirms' = [confirms EXCEPT ![pool[i]] =
                                   Append(@, "success")]
         ELSE UNCHANGED <<pool, confirms>>
    /\ strand' = [strand EXCEPT ![1].new = @ \ {t}]
    /\ UNCHANGED <<chain, validator, asks, resubmitted, subscription, asked,
                   stores, evicted>>

ResubscribeFault == UNCHANGED relays

\* The end of transaction_pool::reorganize: a new subscription.
Resubscribe == relays' = Append(relays, [step |-> "do_subscribe"])

TakeoutDone ==
    /\ Running("reorganize")
    /\ Head(strand).replaced = {}
    /\ Head(strand).new = {}
    /\ strand' = Tail(strand)
    /\ Resubscribe
    /\ UNCHANGED <<chain, pool, validator, asks, resubmitted, registry, asked,
                   answers, evicted>>

ResubmitAllFault ==
    /\ Running("reorganize")
    /\ Head(strand).replaced # {}
    /\ strand' = Tail(strand) \o [i \in DOMAIN pool |->
                                    [step |-> "do_store", call |-> pool[i]]]
    /\ resubmitted' = resubmitted \cup Range(pool)
    /\ Resubscribe
    /\ UNCHANGED <<chain, pool, validator, asks, registry, asked, answers,
                   evicted>>

\* reorganize after blocks were replaced, with resubmit_all: every entry is
\* stored again, in the pool's order.
ResubmitAll ==
    /\ Running("reorganize")
    /\ Head(strand).replaced # {}
    /\ strand' = Tail(strand) \o [i \in DOMAIN pool |->
                                    [step |-> "do_store", call |-> pool[i]]]
    /\ resubmitted' = resubmitted \cup Range(pool)
    /\ pool' = <<>>
    /\ Resubscribe
    /\ UNCHANGED <<chain, validator, asks, registry, asked, answers, evicted>>

-----------------------------------------------------------------------------
Handler ==
    \/ DoStore \/ HandleDuplicateCheck \/ SetLastDepth \/ PreviousTxIndex
    \/ HandlePreviousTx \/ CheckDoubleSpend
    \/ \E t \in Txs : TakeoutConfirmed(t)
    \/ TakeoutDone \/ ResubmitAll

Relaying == DoSubscribe \/ DoRelay

Next ==
    \/ \E b \in Blocks : Reorganise(b)
    \/ \E c \in Calls : Store(c) \/ Fetch(c)
    \/ Relaying
    \/ Handler

Spec == Init /\ [][Next]_vars

Fairness ==
    /\ WF_vars(Handler)
    /\ WF_vars(Relaying)
    /\ \A c \in Calls : WF_vars(Fetch(c))

FairSpec == Spec /\ Fairness

-----------------------------------------------------------------------------
\* Properties.

\* The handlers of a call on the strand.
Handlers(c) ==
    {i \in DOMAIN strand : strand[i].step # "reorganize" /\ strand[i].call = c}

\* A call has a handler on the strand or an unanswered question.
InFlight(c) == asks[c] # "nothing" \/ Handlers(c) # {}

\* What may wait on the strand of the pool and on that of the subscriber.
Jobs ==
    [step : {"do_store"}, call : Calls]
    \cup [step : Reads, call : Calls,
          ec : {"success", "not_found", "unspent_output"}, depth : Nat]
    \cup [step : {"reorganize"}, new : SUBSET Txs, replaced : SUBSET Blocks]
Notices ==
    [step : {"do_subscribe"}]
    \cup [step : {"do_relay"}, new : SUBSET Txs, replaced : SUBSET Blocks]

\* Type correctness.
TypeOK ==
    /\ tip \in Blocks
    /\ pool \in Seq(Calls) /\ Len(pool) <= Capacity
    /\ strand \in Seq(Jobs) /\ relays \in Seq(Notices)
    /\ stores \in [Calls -> Seq([ec : Codes, unconfirmed : Seq(Nat)])]
    /\ confirms \in [Calls -> Seq(Codes)]
    /\ validator \in [Calls -> [input : Nat, unconfirmed : Seq(Nat),
                                last_depth : Nat, parent_depth : Nat]]
    /\ asks \in [Calls -> Reads \cup {"nothing"}]
    /\ resubmitted \subseteq asked /\ asked \subseteq Calls
    /\ evicted \subseteq Calls
    /\ registry \in Nat

\* The pool never has a transaction twice, although two stores of it may be
\* validated at the same time: handle_delegate checks again.
PoolUnique ==
    \A i, j \in DOMAIN pool : Tx[pool[i]] = Tx[pool[j]] => i = j

Places == {"not stored", "in flight", "pool", "confirm handled", "refused",
           "evicted"}

At(c, p) ==
    CASE p = "not stored"      -> c \notin asked
      [] p = "in flight"       -> InFlight(c)
      [] p = "pool"            -> c \in Range(pool)
      [] p = "confirm handled" -> confirms[c] # <<>>
      [] p = "refused"         -> stores[c] # <<>> /\ stores[c][1].ec # "success"
      [] p = "evicted"         -> c \in evicted

\* Whatever is passed to store() is in exactly one place at any time: no path
\* through validation, resubmission or confirmation loses an entry, leaves it
\* in the pool after its handler was told, or tells a handler of an entry that
\* was refused.  Only the full ring drops entries unheard.  Each call is
\* answered at most once and handle_confirm is called at most once, however
\* often the entry is resubmitted.
Accounted == \A c \in Calls :
    /\ \E p \in Places : At(c, p) /\ \A q \in Places \ {p} : ~At(c, q)
    /\ Len(stores[c]) <= 1 /\ Len(confirms[c]) <= 1

\* No transaction is accepted that could not be valid on any chain: one that
\* is malformed, a coinbase, or has an input whose script fails or whose
\* output does not exist.
AcceptedSound ==
    \A c \in Calls : stores[c] # <<>> /\ stores[c][1].ec = "success" =>
       /\ Tx[c] \notin Malformed \cup Coinbases
       /\ \A n \in DOMAIN Inputs[Tx[c]] :
             /\ <<Tx[c], n>> \notin BadInputs
             /\ Inputs[Tx[c]][n][2] < Outputs[Inputs[Tx[c]][n][1]]

\* A validation runs one handler at a time: it has at most one handler on the
\* strand or question asked, and only while it has inputs left.
OneStepEach ==
    \A c \in Calls :
       /\ asks[c] # "nothing" => Handlers(c) = {}
       /\ \A i, j \in Handlers(c) : i = j
       /\ InFlight(c) /\ Tx[c] \notin Malformed \cup Coinbases =>
             validator[c].input \in DOMAIN Inputs[Tx[c]]

Steps(s, step) == {i \in DOMAIN s : s[i].step = step}

\* The pool has exactly one subscription: in the registry, on its way there,
\* or as the notification after which it subscribes again.
OneSubscription ==
    LET coming == Steps(relays, "do_subscribe")
        noticed == Steps(strand, "reorganize")
    IN  \/ registry = 1 /\ coming = {} /\ noticed = {}
        \/ registry = 0 /\ noticed = {} /\ \E i \in coming : coming = {i}
        \/ registry = 0 /\ coming = {} /\ \E i \in noticed : noticed = {i}

\* Every call of store() is answered, however the chain changes meanwhile: from
\* some time on no call that was made is without its answer.  (asked and stores
\* only grow.)
StoreAnswered == <>[](\A c \in Calls : c \in asked => stores[c] # <<>>)

\* The pool and the validations at any time: types, PoolUnique and OneStepEach.
PoolConsistent == TypeOK /\ PoolUnique /\ OneStepEach
=============================================================================
