------------------------------- MODULE MCSync -------------------------------
(***************************************************************************)
(* A session meets two peers on different branches, the second one shorter *)
(* and heavier and announced unasked; it starts from the genesis block or, *)
(* after a restart, from the end of the first branch.  Another meets a     *)
(* peer whose chain does not fit in one announcement.                      *)
(***************************************************************************)
EXTENDS Sync

MCPeerChain ==
    [p |-> <<"g", "a1", "a2">>, q |-> <<"g", "b1">>,
     r |-> <<"g", "c1", "c2", "c3">>]
MCNodes == {"p", "q", "r"}
MCWork == [b \in Blocks |-> IF b = "b1" THEN 3 ELSE 1]
MCInvLimit == [p |-> 1, q |-> 1, r |-> 2]
MCSessions ==
    {[peers |-> {"p", "q"}, tip |-> "g"], [peers |-> {"r"}, tip |-> "g"],
     [peers |-> {"p", "q"}, tip |-> "a2"]}
=============================================================================
