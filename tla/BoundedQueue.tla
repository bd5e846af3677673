---------------------------- MODULE BoundedQueue ----------------------------
(***************************************************************************)
(* What a bounded queue shared by goroutines promises its callers: every   *)
(* call takes effect at one instant between its start and its return, an   *)
(* element leaves in the order it came in, at most Capacity elements wait, *)
(* and a call gives up only for the reason its method allows.  FIFO.tla    *)
(* models the circular buffer of queue/fifo.go and implements this module. *)
(***************************************************************************)
EXTENDS Naturals, Sequences

CONSTANTS
    Threads,    \* the goroutines that call the queue
    Values,     \* the elements they push
    Capacity,   \* the room of the queue
    None        \* no call in progress, or no element

VARIABLES
    items,      \* the elements in the queue, oldest first
    closed,     \* Close has been called
    call,       \* the call each thread is in: [op, val] or None
    res         \* what its last call returned: [ok, val] or None

vars == <<items, closed, call, res>>

PushOps == {"TryPush", "Push"}
PopOps  == {"TryPop", "Pop", "PopTimeout"}

Init ==
    /\ items = <<>>
    /\ closed = FALSE
    /\ call = [t \in Threads |-> None]
    /\ res = [t \in Threads |-> None]

Return(t, ok, v) ==
    /\ call' = [call EXCEPT ![t] = None]
    /\ res' = [res EXCEPT ![t] = [ok |-> ok, val |-> v]]

Start(t, op, v) ==
    /\ call[t] = None
    /\ call' = [call EXCEPT ![t] = [op |-> op, val |-> v]]
    /\ res' = [res EXCEPT ![t] = None]
    /\ UNCHANGED <<items, closed>>

\* A push succeeds only while the queue is open and has room.
Accept(t) ==
    /\ call[t] # None
    /\ call[t].op \in PushOps
    /\ ~closed
    /\ Len(items) < Capacity
    /\ items' = Append(items, call[t].val)
    /\ Return(t, TRUE, None)
    /\ UNCHANGED closed

\* TryPush gives up on a full queue; Push gives up on a closed one only.
Refuse(t) ==
    /\ call[t] # None
    /\ call[t].op \in PushOps
    /\ closed \/ (call[t].op = "TryPush" /\ Len(items) = Capacity)
    /\ Return(t, FALSE, None)
    /\ UNCHANGED <<items, closed>>

\* Elements can be taken from a closed queue: closing loses nothing.
Deliver(t) ==
    /\ call[t] # None
    /\ call[t].op \in PopOps
    /\ items # <<>>
    /\ items' = Tail(items)
    /\ Return(t, TRUE, Head(items))
    /\ UNCHANGED closed

\* No pop gives up while an element waits, and Pop not before the close.
GiveUp(t) ==
    /\ call[t] # None
    /\ call[t].op \in PopOps
    /\ items = <<>>
    /\ call[t].op = "Pop" => closed
    /\ Return(t, FALSE, None)
    /\ UNCHANGED <<items, closed>>

Close ==
    /\ closed' = TRUE
    /\ UNCHANGED <<items, call, res>>

Next ==
    \/ \E t \in Threads :
          \/ \E op \in PushOps, v \in Values : Start(t, op, v)
          \/ \E op \in PopOps : Start(t, op, None)
          \/ Accept(t)
          \/ Refuse(t)
          \/ Deliver(t)
          \/ GiveUp(t)
    \/ Close

Spec == Init /\ [][Next]_vars
=============================================================================
