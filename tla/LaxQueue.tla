------------------------------ MODULE LaxQueue ------------------------------
(***************************************************************************)
(* What a bounded queue without locks can promise.  As in BoundedQueue,    *)
(* a call takes effect at one instant between its start and its return,    *)
(* the elements leave in the order of those instants, each of them once,   *)
(* and at most Capacity wait.  The promise is weaker in one respect: a     *)
(* TryPush may also fail while some pop is in progress and a TryPop while  *)
(* some push is, whatever the queue holds.  Ring.tla models queue/ring.go  *)
(* and implements this module; it does not implement BoundedQueue.         *)
(***************************************************************************)
EXTENDS Naturals, Sequences

CONSTANTS
    Threads,    \* the goroutines that call the queue
    Values,     \* the elements they push
    Capacity,   \* the room of the queue
    None        \* no call in progress, or no element

VARIABLES
    items,      \* the elements in the queue, oldest first
    call,       \* the call each thread is in: [op, val, done] or None
    res         \* what its last call returned: [ok, val] or None

vars == <<items, call, res>>

Init ==
    /\ items = <<>>
    /\ call = [t \in Threads |-> None]
    /\ res = [t \in Threads |-> None]

Start(t, op, v) ==
    /\ call[t] = None
    /\ call' = [call EXCEPT ![t] = [op |-> op, val |-> v, done |-> FALSE]]
    /\ res' = [res EXCEPT ![t] = None]
    /\ UNCHANGED items

In(t, op) == call[t] # None /\ call[t].op = op
Pending(t, op) == In(t, op) /\ ~call[t].done

Return(t, ok, v) ==
    /\ call' = [call EXCEPT ![t] = None]
    /\ res' = [res EXCEPT ![t] = [ok |-> ok, val |-> v]]

Accept(t) ==
    /\ Pending(t, "TryPush")
    /\ Len(items) < Capacity
    /\ items' = Append(items, call[t].val)
    /\ call' = [call EXCEPT ![t] = [op |-> "TryPush", val |-> None, done |-> TRUE]]
    /\ UNCHANGED res

Deliver(t) ==
    /\ Pending(t, "TryPop")
    /\ items # <<>>
    /\ items' = Tail(items)
    /\ call' = [call EXCEPT ![t] = [op |-> "TryPop", val |-> Head(items), done |-> TRUE]]
    /\ UNCHANGED res

Finish(t) ==
    /\ call[t] # None /\ call[t].done
    /\ Return(t, TRUE, call[t].val)
    /\ UNCHANGED items

Refuse(t) ==
    /\ Pending(t, "TryPush")
    /\ Len(items) = Capacity \/ \E u \in Threads : In(u, "TryPop")
    /\ Return(t, FALSE, None)
    /\ UNCHANGED items

GiveUp(t) ==
    /\ Pending(t, "TryPop")
    /\ items = <<>> \/ \E u \in Threads : In(u, "TryPush")
    /\ Return(t, FALSE, None)
    /\ UNCHANGED items

Next ==
    \E t \in Threads :
        \/ \E v \in Values : Start(t, "TryPush", v)
        \/ Start(t, "TryPop", None)
        \/ Accept(t)
        \/ Deliver(t)
        \/ Finish(t)
        \/ Refuse(t)
        \/ GiveUp(t)

Spec == Init /\ [][Next]_vars
=============================================================================
