---------------------------- MODULE MCOrganizer ----------------------------
(***************************************************************************)
(* A small block tree on which TLC checks Organizer.                       *)
(***************************************************************************)
EXTENDS OrganizerInv

\* A fork at genesis: two blocks of work 2 against three lighter ones whose sum
\* overtakes them only at the third; a1 and b2 tie.  The heaviest branch of all
\* goes through the invalid x1, and b2 is from the future.
TreeBlocks == {"g", "a1", "a2", "b1", "b2", "b3", "x1", "x2"}
TreeParent == [g |-> "null", a1 |-> "g", a2 |-> "a1",
               b1 |-> "g", b2 |-> "b1", b3 |-> "b2", x1 |-> "a1", x2 |-> "x1"]
TreeWork == [g |-> 1, a1 |-> 2, a2 |-> 2, b1 |-> 1, b2 |-> 1, b3 |-> 3,
             x1 |-> 4, x2 |-> 1]
TreeCumWork == [g |-> 1, a1 |-> 3, a2 |-> 5, b1 |-> 2, b2 |-> 3, b3 |-> 6,
                x1 |-> 7, x2 |-> 8]
TreeHeight == [g |-> 0, a1 |-> 1, a2 |-> 2, b1 |-> 1, b2 |-> 2, b3 |-> 3,
               x1 |-> 2, x2 |-> 3]
TreeBad == {"x1"}
TreeEarly == {"b2"}
=============================================================================
