------------------------- MODULE MCTransactionPool -------------------------
(***************************************************************************)
(* Small block trees and transactions on which TLC checks TransactionPool. *)
(***************************************************************************)
EXTENDS TransactionPool

Base == {"base"}
None == {}

\* Two branches, the second the heavier one. p is stored twice and confirmed on
\* the first only; m has an input in the chain and one in the pool, and the
\* script of the second one fails.
TwiceBlocks == {"g", "a1", "b1"}
TwiceParent == [a1 |-> "g", b1 |-> "g"]
TwiceHeight == [g |-> 0, a1 |-> 1, b1 |-> 1]
TwiceCumWork == [g |-> 1, a1 |-> 3, b1 |-> 4]
TwiceBlockTxs == [g |-> Base, a1 |-> {"p"}, b1 |-> None]
TwiceTxs == {"base", "p", "m"}
TwiceInputs == [base |-> <<>>, p |-> << <<"base", 0>> >>,
                m |-> << <<"base", 1>>, <<"p", 0>> >>]
TwiceOutputs == [base |-> 2, p |-> 1, m |-> 1]
TwiceScripts == {<<"m", 2>>}
TwiceCalls == {"c1", "c2", "c3"}
TwiceTx == [c1 |-> "p", c2 |-> "p", c3 |-> "m"]

\* One new block, and a transaction that no chain could confirm: y spends in its
\* second input an output just past the end of p's. w competes with p for room
\* in the pool.
OddBlocks == {"g", "a1"}
OddParent == [a1 |-> "g"]
OddHeight == [g |-> 0, a1 |-> 1]
OddCumWork == [g |-> 1, a1 |-> 3]
OddBlockTxs == [g |-> Base, a1 |-> {"p"}]
OddTxs == {"base", "p", "w", "y"}
OddInputs == [base |-> <<>>, p |-> << <<"base", 0>> >>,
              w |-> << <<"base", 1>> >>,
              y |-> << <<"base", 2>>, <<"p", 1>> >>]
OddOutputs == [base |-> 3, p |-> 1, w |-> 1, y |-> 1]
OddCalls == {"c1", "c2", "c3"}
OddTx == [c1 |-> "p", c2 |-> "w", c3 |-> "y"]
=============================================================================
