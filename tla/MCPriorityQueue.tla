-------------------------- MODULE MCPriorityQueue --------------------------
(***************************************************************************)
(* PriorityQueue with a handful of items: ripe at once or later, of two    *)
(* priorities, so that every clause of lessItem decides some comparison.   *)
(***************************************************************************)
EXTENDS PriorityQueue

FiveItems == { [runAt |-> 0, priority |-> 0, seq |-> 1],
               [runAt |-> 0, priority |-> 0, seq |-> 2],
               [runAt |-> 0, priority |-> 1, seq |-> 3],
               [runAt |-> 1, priority |-> 0, seq |-> 4],
               [runAt |-> 1, priority |-> 1, seq |-> 5] }
ThreeItems == { [runAt |-> 0, priority |-> 0, seq |-> 1],
                [runAt |-> 1, priority |-> 0, seq |-> 2],
                [runAt |-> 2, priority |-> 0, seq |-> 3] }
=============================================================================
