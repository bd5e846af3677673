----------------------------- MODULE DelayQueue -----------------------------
(***************************************************************************)
(* What the pool expects of its queue of delayed jobs: an item comes out   *)
(* no earlier than its time and never behind one that precedes it, the     *)
(* queue holds at most Capacity items, and closing it loses none.          *)
(* PriorityQueue.tla models the binary heap of queue/priority.go and       *)
(* implements this module.                                                 *)
(***************************************************************************)
EXTENDS Integers, FiniteSets

CONSTANTS
    Items,              \* records with a time runAt
    Before(_, _),       \* the order in which items leave
    Capacity            \* 0 is no limit

VARIABLES
    content,            \* the items in the queue
    closed,             \* Close has been called
    now                 \* the clock

vars == <<content, closed, now>>

Init ==
    /\ content = {}
    /\ closed = FALSE
    /\ now = 0

\* An item enters an open queue; on a full one it displaces the first.
Put(it, displaced) ==
    /\ ~closed
    /\ it \notin content
    /\ content' = (content \ displaced) \cup {it}
    /\ Capacity > 0 => Cardinality(content') <= Capacity
    /\ UNCHANGED <<closed, now>>

IsFirst(it) == it \in content /\ \A other \in content \ {it} : Before(it, other)

\* The first item leaves once its time has come, from a closed queue too.
Take(it) ==
    /\ IsFirst(it)
    /\ it.runAt <= now
    /\ content' = content \ {it}
    /\ UNCHANGED <<closed, now>>

Close ==
    /\ closed' = TRUE
    /\ UNCHANGED <<content, now>>

Tick ==
    /\ now' = now + 1
    /\ UNCHANGED <<content, closed>>

Next ==
    \/ \E it \in Items :
          \/ Put(it, {})
          \/ \E first \in content :
                /\ IsFirst(first)
                /\ Cardinality(content) = Capacity
                /\ Put(it, {first})
          \/ Take(it)
    \/ Close
    \/ Tick

Spec == Init /\ [][Next]_vars
=============================================================================
