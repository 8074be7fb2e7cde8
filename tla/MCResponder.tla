---------------------------- MODULE MCResponder -----------------------------
(***************************************************************************)
(* The tree of MCChainStore with requests for a block of one branch, for   *)
(* whatever stands at depth 2 and for a transaction of two branches.       *)
(***************************************************************************)
EXTENDS MCChainStore, Responder

MCRequests ==
    {[kind |-> "block", key |-> "a2"], [kind |-> "depth", key |-> 2],
     [kind |-> "tx", key |-> "s1"]}
MCOffered == {"a2", "a3", "b2", "c3"}
=============================================================================
