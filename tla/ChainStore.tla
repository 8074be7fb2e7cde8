----------------------------- MODULE ChainStore -----------------------------
(***************************************************************************)
(* One organizer pass seen from the tables: validate_block and             *)
(* bdb_validate_block judge every block of an orphan branch against the    *)
(* tables cut off at the fork plus the branch, then bdb_chain_keeper       *)
(* replaces the top of the chain by the branch and commits.  Which         *)
(* branches are offered and in which order is left free: Organizer.tla     *)
(* models how the orphan pool chooses them.                                *)
(*                                                                         *)
(* Each step of the pass is an action, so that the process may stop        *)
(* between any two of them; the Berkeley DB transaction is then undone.    *)
(***************************************************************************)
EXTENDS BlockTables

CONSTANTS
    Bip30Depths,   \* the two depths connect_block exempts (91842, 91880)
    Maturity,      \* coinbase_maturity
    Window,        \* blocks whose times median_time_past reads (11)
    Interval,      \* readjustment_interval
    Timespan,      \* target_timespan
    TimeModulus,   \* timestamps are uint32_t: their difference wraps here
    MaxTarget,     \* max_target()
    WorkUnit,      \* 2^256 in block_work
    LockThreshold, \* locktime_threshold
    Reward,        \* coin_price(block_reward)
    RewardInterval,\* reward_interval
    MaxMoney,      \* max_money()
    MaxSigops,     \* max_block_script_sig_operations
    Checkpoints,   \* depth -> the only block accepted there
    BadScripts,    \* inputs <<tx, n>> whose script does not run to true
    BadBlocks      \* blocks with a bad size, hash, future time or merkle root,
                   \* or with a malformed coinbase script or null output point

VARIABLES
    db,        \* the tables as the keeper's open transaction sees them
    durable,   \* the tables as last committed
    phase,     \* idle, verify, slice or add
    fork,      \* depth of the block the branch grows from
    branch,    \* the blocks of the branch (orphan_chain)
    at         \* the position in branch of the next block to verify or add

vars == <<db, durable, phase, fork, branch, at>>

-----------------------------------------------------------------------------
\* Context-free rules: check_transaction and check_block.

Outputs(t) == [n \in DOMAIN Tx[t].outputs |-> Tx[t].outputs[n].value]
Sum(seq) == FoldLeft(LAMBDA a, b : a + b, 0, seq)
TotalOutputValue(t) == Sum(Outputs(t))

CheckTransaction(t) ==
    /\ Len(Tx[t].inputs) > 0 /\ Len(Tx[t].outputs) > 0
    /\ \A n \in DOMAIN Tx[t].outputs : Tx[t].outputs[n].value <= MaxMoney
    /\ TotalOutputValue(t) <= MaxMoney

LegacySigops(txs) == Sum([i \in DOMAIN txs |-> Tx[txs[i]].sigops])

CheckBlock(b) ==
    LET txs == Block[b].txs
    IN  /\ b \notin BadBlocks
        /\ Block[b].bits > 0 /\ Block[b].bits <= MaxTarget
        /\ Tx[txs[1]].coinbase
        /\ \A i \in 2..Len(txs) : ~ Tx[txs[i]].coinbase
        /\ \A i \in DOMAIN txs : CheckTransaction(txs[i])
        /\ IsInjective(txs)
        /\ LegacySigops(txs) <= MaxSigops

-----------------------------------------------------------------------------
\* bdb_validate_block: what the block at branch[at] sees below it.
\* c is the context [db, fork, branch, at].

Depth(c) == c.fork + c.at

FetchBlockFault(c, depth) ==
    IF depth > LastDepth(c.db) THEN c.branch[depth - c.fork]
    ELSE BlockAt(c.db, depth)

FetchBlock(c, depth) ==
    IF depth > c.fork THEN c.branch[depth - c.fork] ELSE BlockAt(c.db, depth)

PreviousBits(c) == Block[FetchBlock(c, Depth(c) - 1)].bits

ActualTimespan(c) ==
    (Block[FetchBlock(c, Depth(c) - 1)].time
        - Block[FetchBlock(c, Depth(c) - Interval)].time) % TimeModulus

MedianTimePast(c) ==
    LET first == Max({0, Depth(c) - Window})
        times == [i \in 1..(Depth(c) - first) |->
                    Block[FetchBlock(c, Depth(c) - i)].time]
    IN  SortSeq(times, LAMBDA x, y : x < y)[Len(times) \div 2 + 1]

\* tx_after_fork: one parent above the fork is enough.
TxAfterFork(c, t) == \E p \in Range(c.db.txs[t]) : p.depth > c.fork

TransactionExists(c, t) == t \in DOMAIN c.db.txs /\ ~ TxAfterFork(c, t)

\* fetch_transaction, then fetch_orphan_transaction: the depth of t, or -1.
OrphanDepths(c, t) ==
    { c.fork + i : i \in { j \in 1..c.at : t \in Range(Block[c.branch[j]].txs) } }

FetchDepth(c, t) ==
    IF TransactionExists(c, t) THEN c.db.txs[t][1].depth
    ELSE IF OrphanDepths(c, t) = {} THEN -1 ELSE Min(OrphanDepths(c, t))

\* is_output_spent(outpoint): spent in the chain at or below the fork.
SpentInChain(c, point) ==
    /\ point \in DOMAIN c.db.spends
    /\ ~ TxAfterFork(c, c.db.spends[point][1])

\* orphan_is_spent: another input of the branch spends the same output.
OrphanIsSpent(c, point, i, n) ==
    \E j \in 1..c.at : \E k \in DOMAIN Block[c.branch[j]].txs :
        LET inputs == Tx[Block[c.branch[j]].txs[k]].inputs
        IN  \E m \in DOMAIN inputs :
                inputs[m] = point /\ ~ (j = c.at /\ k = i /\ m = n)

IsOutputSpent(c, point, i, n) ==
    SpentInChain(c, point) \/ OrphanIsSpent(c, point, i, n)

-----------------------------------------------------------------------------
\* validate_block: accept_block.

RangeConstraint(value, low, high) ==
    IF value < low THEN low ELSE IF value > high THEN high ELSE value

WorkRequired(c) ==
    IF Depth(c) % Interval # 0
    THEN PreviousBits(c)
    ELSE LET actual == RangeConstraint(ActualTimespan(c),
                                       Timespan \div 4, Timespan * 4)
         IN  Min({MaxTarget, (PreviousBits(c) * actual) \div Timespan})

IsFinal(t, depth, time) ==
    \/ Tx[t].lock = 0
    \/ Tx[t].lock < (IF Tx[t].lock < LockThreshold THEN depth ELSE time)
    \/ Tx[t].final

PassesCheckpoints(b, depth) ==
    depth \in DOMAIN Checkpoints => Checkpoints[depth] = b

AcceptBlock(c, b) ==
    /\ Block[b].bits = WorkRequired(c)
    /\ Block[b].time > MedianTimePast(c)
    /\ \A t \in Range(Block[b].txs) : IsFinal(t, Depth(c), Block[b].time)
    /\ PassesCheckpoints(b, Depth(c))

-----------------------------------------------------------------------------
\* validate_block: connect_block.

BlockValue(depth) == Reward \div 2 ^ (depth \div RewardInterval)

NotDuplicateOrSpent(c, t) ==
    TransactionExists(c, t) =>
        \A n \in DOMAIN Tx[t].outputs : SpentInChain(c, <<t, n>>)

OutputOf(point) == Tx[point[1]].outputs[point[2]]

ConnectInputFault(c, i, n) ==
    LET t == Block[c.branch[c.at]].txs[i]
        point == Tx[t].inputs[n]
    IN  /\ FetchDepth(c, point[1]) # -1
        /\ <<t, n>> \notin BadScripts
        /\ ~ IsOutputSpent(c, point, i, n)

ConnectInput(c, i, n) ==
    LET t == Block[c.branch[c.at]].txs[i]
        point == Tx[t].inputs[n]
        previous == FetchDepth(c, point[1])
    IN  /\ previous # -1
        /\ OutputOf(point).value <= MaxMoney
        /\ Tx[point[1]].coinbase => Depth(c) - previous >= Maturity
        /\ <<t, n>> \notin BadScripts
        /\ ~ IsOutputSpent(c, point, i, n)

ValueIn(t) == Sum([n \in DOMAIN Tx[t].inputs |-> OutputOf(Tx[t].inputs[n]).value])

\* The signature operations of one transaction and of the scripts it redeems.
TxSigops(t) ==
    Tx[t].sigops +
        Sum([n \in DOMAIN Tx[t].inputs |-> OutputOf(Tx[t].inputs[n]).sigops])

\* tally_fees adds to the fees of the whole block and bounds them.
TallyFees(txs) ==
    Sum([i \in DOMAIN txs |-> ValueIn(txs[i]) - TotalOutputValue(txs[i])])

ConnectBlock(c, b) ==
    LET txs == Block[b].txs
        spenders == Tail(txs)
    IN  /\ Depth(c) \notin Bip30Depths =>
              \A t \in Range(txs) : NotDuplicateOrSpent(c, t)
        /\ \A i \in 2..Len(txs) :
              /\ \A n \in DOMAIN Tx[txs[i]].inputs : ConnectInput(c, i, n)
              /\ ValueIn(txs[i]) <= MaxMoney
              /\ ValueIn(txs[i]) >= TotalOutputValue(txs[i])
        /\ Sum([i \in DOMAIN spenders |-> TxSigops(spenders[i])]) <= MaxSigops
        /\ TallyFees(spenders) <= MaxMoney
        /\ TotalOutputValue(txs[1]) <= BlockValue(Depth(c)) + TallyFees(spenders)

\* validate_block::start.
Valid(c) ==
    LET b == c.branch[c.at]
    IN  CheckBlock(b) /\ AcceptBlock(c, b) /\ ConnectBlock(c, b)

-----------------------------------------------------------------------------
\* organizer::replace_chain, one step at a time.

\* The blocks from the genesis block to b.
PathTo[b \in DOMAIN Block] ==
    IF b = Genesis THEN <<b>> ELSE Append(PathTo[Block[b].prev], b)

\* The orphans under b: its path from where it leaves the chain.
BranchTo(b) == SelectSeq(PathTo[b], LAMBDA x : FindIndex(db, x) = -1)

BlockWork(b) == WorkUnit \div (Block[b].bits + 1)
Work(blocks) == Sum([i \in DOMAIN blocks |-> BlockWork(blocks[i])])

\* end_slice_difficulty(fork + 1).
EndSliceDifficulty == Work(SubSeq(db.blocks, fork + 2, Len(db.blocks)))

Context == [db |-> db, fork |-> fork, branch |-> branch, at |-> at]

Init ==
    /\ db = Setup
    /\ durable = db
    /\ phase = "idle"
    /\ fork = 0 /\ branch = <<>> /\ at = 1

\* chain_->start(); find_index gives the fork of the traced branch.
Begin(b) ==
    /\ phase = "idle"
    /\ FindIndex(db, b) = -1
    /\ branch' = BranchTo(b)
    /\ fork' = FindIndex(db, Block[branch'[1]].prev)
    /\ at' = 1
    /\ phase' = "verify"
    /\ UNCHANGED <<db, durable>>

Verify ==
    /\ phase = "verify" /\ at <= Len(branch)
    /\ IF Valid(Context)
       THEN at' = at + 1 /\ UNCHANGED branch
       ELSE branch' = SubSeq(branch, 1, at - 1) /\ UNCHANGED at
    /\ UNCHANGED <<db, durable, phase, fork>>

\* Only a branch with more work than the blocks above the fork replaces them.
Weigh ==
    /\ phase = "verify" /\ at > Len(branch)
    /\ phase' = IF Work(branch) > EndSliceDifficulty THEN "slice" ELSE "idle"
    /\ UNCHANGED <<db, durable, fork, branch, at>>

Slice ==
    /\ phase = "slice"
    /\ db' = EndSlice(db, fork).db
    /\ phase' = "add"
    /\ at' = 1
    /\ UNCHANGED <<durable, fork, branch>>

Add ==
    /\ phase = "add" /\ at <= Len(branch)
    /\ db' = KeeperAdd(db, branch[at])
    /\ at' = at + 1
    /\ UNCHANGED <<durable, phase, fork, branch>>

StopFault ==
    /\ phase = "add"
    /\ durable' = db
    /\ phase' = "idle"
    /\ UNCHANGED <<db, fork, branch, at>>

\* bdb_chain_keeper::stop commits.
Stop ==
    /\ phase = "add" /\ at > Len(branch)
    /\ durable' = db
    /\ phase' = "idle"
    /\ UNCHANGED <<db, fork, branch, at>>

\* The process ends and starts again: the open transaction is undone.
Crash ==
    /\ phase # "idle"
    /\ db' = durable
    /\ phase' = "idle"
    /\ UNCHANGED <<durable, fork, branch, at>>

Pass ==
    \/ \E b \in DOMAIN Block : Begin(b)
    \/ Verify \/ Weigh \/ Slice \/ Add \/ Stop

Next == Pass \/ Crash

Spec == Init /\ [][Next]_vars

-----------------------------------------------------------------------------
\* Types; fork and position of a pass stay inside the chain and the branch.
TypeOK ==
    /\ \A d \in {db, durable} :
        /\ Range(d.blocks) \subseteq DOMAIN Block
        /\ DOMAIN d.txs \subseteq DOMAIN Tx
    /\ phase \in {"idle", "verify", "slice", "add"}
    /\ fork \in 0..LastDepth(db)
    /\ Range(branch) \subseteq DOMAIN Block
    /\ at \in 1..(Len(branch) + 1)

\* The transaction, spend and address tables hold what the stored chain says,
\* no more and no less, at every step of a reorganisation and after a restart:
\* end_slice takes off exactly what save_block put there, also for a
\* transaction that both branches hold.
TablesExact == Exact(db) /\ Exact(durable)

\* What a commit leaves is a chain from the genesis block with more work than
\* the one committed before: a restart at any step of a reorganisation finds
\* the old chain or the new one and nothing in between.
CommitsForward ==
    [][durable' # durable =>
        /\ durable'.blocks = PathTo[Last(durable'.blocks)]
        /\ Work(durable'.blocks) > Work(durable.blocks)]_vars

\* No write of a reorganisation fails: organizer.cpp asserts that end_slice
\* succeeds, and bdb_chain_keeper::add would only log a block it could not
\* save.
WritesSucceed ==
    /\ phase = "slice" => EndSlice(db, fork).ok
    /\ phase = "add" /\ at <= Len(branch) =>
            SaveBlock(db, LastDepth(db) + 1, branch[at]).ok

\* Every input of the stored chain spends an output of the same or an earlier
\* block, no output twice, and a coinbase output only once it is mature: what
\* validation saw through tx_after_fork and the orphan branch is what the
\* chain holds afterwards.
SpendsSound ==
    LET chain == durable.blocks
        First(t) == Min({ p.depth : p \in Places(chain, t) })
    IN  \A spend \in SpendsOf(chain) :
            LET point == spend[3]
            IN  /\ point[1] \in TxsOf(chain)
                /\ First(point[1]) <= First(spend[1])
                /\ Tx[point[1]].coinbase =>
                        First(spend[1]) - First(point[1]) >= Maturity
                /\ \A other \in SpendsOf(chain) :
                        other[3] = point => other = spend

\* The fetch operations agree with one another and with the chain: a
\* transaction is reported at its latest place, the hashes stored there name
\* it, an output is reported spent by an input that really names it, and the
\* outputs of an address are those that the chain pays to it.
QueriesAgree ==
    LET d == durable
        chain == d.blocks
    IN  /\ FetchBlockHeaderByDepth(d, FetchLastDepth(d)[1]) = <<Last(chain)>>
        /\ \A b \in Range(chain) :
            /\ FetchBlockHeaderByHash(d, b) = <<b>>
            /\ FetchBlockHeaderByDepth(d, FetchBlockDepth(d, b)[1]) = <<b>>
        /\ \A t \in DOMAIN Tx \ TxsOf(chain) :
            FetchTransaction(d, t) = <<>> /\ FetchTransactionIndex(d, t) = <<>>
        /\ \A t \in TxsOf(chain) :
            LET place == FetchTransactionIndex(d, t)[1]
            IN  /\ FetchTransaction(d, t) = <<Tx[t]>>
                /\ t = FetchBlockTransactionHashes(d, chain[place.depth + 1])[place.index]
                /\ \A p \in Places(chain, t) : p.depth <= place.depth
                /\ \A n \in DOMAIN Tx[t].outputs :
                    LET spend == FetchSpend(d, <<t, n>>)
                        address == Tx[t].outputs[n].address
                    IN  /\ spend # <<>> =>
                            /\ spend[1] \in TxsOf(chain)
                            /\ Tx[spend[1]].inputs[spend[2]] = <<t, n>>
                        /\ address # NoAddress =>
                            <<t, n>> \in FetchOutputs(d, address)

\* The outputs nobody has spent are worth at most the rewards of the chain:
\* no sequence of reorganisations creates money.
MoneyBounded ==
    LET chain == durable.blocks
        points == UNION { { <<t, n>> : n \in DOMAIN Tx[t].outputs } :
                            t \in TxsOf(chain) }
        unspent == points \ { s[3] : s \in SpendsOf(chain) }
    IN  FoldSet(LAMBDA p, total : OutputOf(p).value + total, 0, unspent)
            <= Sum([d \in DOMAIN chain |-> BlockValue(d - 1)])

\* Every stored block obeys the rules on time, target, finality and
\* checkpoints when they are read off the stored chain, although it was judged
\* from a branch that forked anywhere below it.
HeadersFollow ==
    LET chain == durable.blocks
        Time(d) == Block[chain[d + 1]].time
        Bits(d) == Block[chain[d + 1]].bits
    IN  \A d \in 1..LastDepth(durable) :
            LET past == Max({0, d - Window})..(d - 1)
                span == RangeConstraint(Time(d - 1) - Time(Max({0, d - Interval})),
                                        Timespan \div 4, Timespan * 4)
            IN  /\ 2 * Cardinality({ e \in past : Time(e) < Time(d) })
                        > Cardinality(past)
                /\ Bits(d) = IF d % Interval = 0
                             THEN Min({MaxTarget, (Bits(d - 1) * span) \div Timespan})
                             ELSE Bits(d - 1)
                /\ \A t \in Range(Block[chain[d + 1]].txs) :
                        IsFinal(t, d, Time(d))
                /\ PassesCheckpoints(chain[d + 1], d)


\* The ledger that the stored chain is: SpendsSound, and MoneyBounded.
LedgerSound == SpendsSound /\ MoneyBounded
=============================================================================
