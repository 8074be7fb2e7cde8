----------------------------- MODULE MCSession -----------------------------
(***************************************************************************)
(* Two peers, three transactions and a buffer of two hashes, for TLC.      *)
(***************************************************************************)
EXTENDS Session

MCPackets == { <<"t1">>, <<"t2", "block", "t3">> }

\* Many changes of the chain, many channels, many inventories, or some of each.
Budget(chain, nodes, sent, pooled) ==
    [changes |-> chain, channels |-> nodes, packets |-> sent, pools |-> pooled]
MCBudgets ==
    { Budget(3, 0, 0, 0), Budget(1, 2, 0, 0), Budget(0, 1, 3, 0),
      Budget(0, 2, 2, 0), Budget(1, 1, 1, 1) }
=============================================================================
