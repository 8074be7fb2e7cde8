---------------------------- MODULE ChainPromise ----------------------------
(***************************************************************************)
(* What a blockchain promises to those who read it, whatever goes on in    *)
(* the orphan pool: at any moment there is one whole main chain; it is     *)
(* replaced in one step, and only by one with more work; a restart goes    *)
(* back to a chain that was the main chain since the last checkpoint.      *)
(***************************************************************************)
EXTENDS Integers, Sequences, Functions

CONSTANTS Blocks, Genesis, Parent, CumWork, Bad

VARIABLES
    main,    \* the chain that fetches read
    durable  \* the chains that a restart may come back with

Tip(c) == c[Len(c)]

Whole(c) ==
    /\ Len(c) > 0
    /\ c[1] = Genesis
    /\ \A i \in 1 .. Len(c) - 1 : Parent[c[i + 1]] = c[i]
    /\ Range(c) \cap Bad = {}

Start == main = <<Genesis>> /\ durable = {<<Genesis>>}

\* The main chain gives way to a heavier one.
Adopt ==
    /\ Whole(main')
    /\ CumWork[Tip(main')] > CumWork[Tip(main)]
    /\ durable' = durable \cup {main'}

\* The database is checkpointed.
Checkpoint == durable' = {main} /\ UNCHANGED main

\* The program comes back after a stop or a crash.
Recover == main' \in durable /\ durable' = {main'}

Promise == Start /\ [][Adopt \/ Checkpoint \/ Recover]_<<main, durable>>
=============================================================================
