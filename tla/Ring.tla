-------------------------------- MODULE Ring --------------------------------
(***************************************************************************)
(* queue/ring.go: the lock-free ring.  A position counts the pushes (tail) *)
(* or the pops (head) so far, modulo 2^64; the sequence number of its cell *)
(* says whose turn the cell is: pos for the push, pos+1 for the pop that   *)
(* takes what it wrote, pos+Cells for the push one lap later.  A thread    *)
(* wins a position by compare-and-swap and then owns the cell until it     *)
(* stores the next sequence number.  One action is one access to an atomic *)
(* or to the value of a cell.                                              *)
(***************************************************************************)
EXTENDS Integers, Sequences, FiniteSetsExt

CONSTANTS
    Threads,    \* the goroutines that call the ring
    Values,     \* the elements they push
    None,       \* the zero value of T; no call
    Size,       \* the argument of NewRing
    Wrap        \* 2^64: positions and sequence numbers are taken modulo Wrap

\* NewRing rounds the size up to a power of two, and to two at least.
Cells == Min({n \in {2^k : k \in 1..Size} : n >= Size} \cup {2^Size})

\* What is said of Cells follows from its definition; it is stated for the proofs,
\* which cannot reason about powers, and TLC evaluates it.
ASSUME RingAssumption ==
    /\ Size \in Nat \ {0}
    /\ Cells \in Nat /\ Cells >= 2
    /\ Wrap \in Nat /\ Wrap % Cells = 0 /\ Wrap >= 4 * Cells
    /\ None \notin Values
    /\ None \notin [op : {"TryPush", "TryPop"}, val : Values \cup {None}, done : BOOLEAN]

VARIABLES
    head, tail,
    seq,        \* cells[i].seq
    val,        \* cells[i].val
    pc,         \* each thread's place in TryPush or TryPop
    op,         \* which of the two it is in
    pos,        \* its local variable pos
    arg,        \* the element it pushes, or has popped
    res         \* what its last call returned: [ok, val] or None

vars == <<head, tail, seq, val, pc, op, pos, arg, res>>
local == <<op, arg, res>>

Cell(p) == p % Cells
Plus(p, n) == (p + n) % Wrap

\* int64(a) - int64(b): the difference of two counters as a signed number.
Dif(a, b) == LET d == (a - b) % Wrap IN IF 2 * d < Wrap THEN d ELSE d - Wrap

Init ==
    /\ head = 0 /\ tail = 0
    /\ seq = [i \in 0..Cells-1 |-> i]
    /\ val = [i \in 0..Cells-1 |-> None]
    /\ pc = [t \in Threads |-> "idle"]
    /\ op = [t \in Threads |-> "TryPop"]
    /\ pos = [t \in Threads |-> 0]
    /\ arg = [t \in Threads |-> None]
    /\ res = [t \in Threads |-> None]
-----------------------------------------------------------------------------
Call(t, o, v) ==
    /\ pc[t] = "idle"
    /\ pc' = [pc EXCEPT ![t] = "load"]
    /\ op' = [op EXCEPT ![t] = o]
    /\ arg' = [arg EXCEPT ![t] = v]
    /\ res' = [res EXCEPT ![t] = None]
    /\ UNCHANGED <<head, tail, seq, val, pos>>

\* The local variables are forgotten with the call.
Return(t, ok, v) ==
    /\ pc' = [pc EXCEPT ![t] = "idle"]
    /\ op' = [op EXCEPT ![t] = "TryPop"]
    /\ pos' = [pos EXCEPT ![t] = 0]
    /\ arg' = [arg EXCEPT ![t] = None]
    /\ res' = [res EXCEPT ![t] = [ok |-> ok, val |-> v]]

Counter(t) == IF op[t] = "TryPush" THEN tail ELSE head

\* pos := r.tail.Load(), or r.head.Load().
Load(t) ==
    /\ pc[t] = "load"
    /\ pos' = [pos EXCEPT ![t] = Counter(t)]
    /\ pc' = [pc EXCEPT ![t] = "seq"]
    /\ UNCHANGED <<head, tail, seq, val, local>>

\* The sequence number at which it is this call's turn.
Turn(t) == IF op[t] = "TryPush" THEN pos[t] ELSE Plus(pos[t], 1)

\* The cell is this call's: try to win the position.
SeqReady(t) ==
    /\ pc[t] = "seq"
    /\ Dif(seq[Cell(pos[t])], Turn(t)) = 0
    /\ pc' = [pc EXCEPT ![t] = "cas"]
    /\ UNCHANGED <<head, tail, seq, val, pos, local>>

\* The position has gone to another thread: load the counter again.
SeqPassed(t) ==
    /\ pc[t] = "seq"
    /\ Dif(seq[Cell(pos[t])], Turn(t)) > 0
    /\ pc' = [pc EXCEPT ![t] = "load"]
    /\ UNCHANGED <<head, tail, seq, val, pos, local>>

\* The cell is a lap behind: full, or empty.
BugBehind(t) == Dif(seq[Cell(pos[t])], Turn(t)) # 0
Behind(t) == Dif(seq[Cell(pos[t])], Turn(t)) < 0

SeqBehind(t) ==
    /\ pc[t] = "seq"
    /\ Behind(t)
    /\ Return(t, FALSE, None)
    /\ UNCHANGED <<head, tail, seq, val>>

\* Bound of the model: no call is overtaken by about half of 2^64 others.
NotLapped(o, counter) ==
    \A u \in Threads :
        pc[u] \in {"seq", "cas"} /\ op[u] = o =>
            2 * (((counter - pos[u]) % Wrap) + Cells) < Wrap

CasWins(t) ==
    /\ pc[t] = "cas"
    /\ Counter(t) = pos[t]
    /\ NotLapped(op[t], Plus(pos[t], 1))
    /\ IF op[t] = "TryPush"
          THEN tail' = Plus(pos[t], 1) /\ UNCHANGED head
          ELSE head' = Plus(pos[t], 1) /\ UNCHANGED tail
    /\ pc' = [pc EXCEPT ![t] = "copy"]
    /\ UNCHANGED <<seq, val, pos, local>>

\* A lost race: the same position is looked at once more.
CasLoses(t) ==
    /\ pc[t] = "cas"
    /\ Counter(t) # pos[t]
    /\ pc' = [pc EXCEPT ![t] = "seq"]
    /\ UNCHANGED <<head, tail, seq, val, pos, local>>

\* cell.val = v, or v := cell.val.
Copy(t) ==
    /\ pc[t] = "copy"
    /\ IF op[t] = "TryPush"
          THEN /\ val' = [val EXCEPT ![Cell(pos[t])] = arg[t]]
               /\ pc' = [pc EXCEPT ![t] = "publish"]
               /\ UNCHANGED arg
          ELSE /\ arg' = [arg EXCEPT ![t] = val[Cell(pos[t])]]
               /\ pc' = [pc EXCEPT ![t] = "clear"]
               /\ UNCHANGED val
    /\ UNCHANGED <<head, tail, seq, op, pos, res>>

\* cell.val = zero.
Clear(t) ==
    /\ pc[t] = "clear"
    /\ val' = [val EXCEPT ![Cell(pos[t])] = None]
    /\ pc' = [pc EXCEPT ![t] = "publish"]
    /\ UNCHANGED <<head, tail, seq, pos, local>>

\* The last store of a call hands the cell over: pos+1, or pos+mask+1.
BugNextTurn(t) == IF op[t] = "TryPush" THEN Plus(pos[t], 1) ELSE Plus(pos[t], Cells - 1)
NextTurn(t) == IF op[t] = "TryPush" THEN Plus(pos[t], 1) ELSE Plus(pos[t], Cells)

Publish(t) ==
    /\ pc[t] = "publish"
    /\ seq' = [seq EXCEPT ![Cell(pos[t])] = NextTurn(t)]
    /\ Return(t, TRUE, IF op[t] = "TryPush" THEN None ELSE arg[t])
    /\ UNCHANGED <<head, tail, val>>

Step(t) ==
    \/ Load(t)
    \/ SeqReady(t)
    \/ SeqPassed(t)
    \/ SeqBehind(t)
    \/ CasWins(t)
    \/ CasLoses(t)
    \/ Copy(t)
    \/ Clear(t)
    \/ Publish(t)

Next ==
    \E t \in Threads :
        \/ \E v \in Values : Call(t, "TryPush", v)
        \/ Call(t, "TryPop", None)
        \/ Step(t)

Spec == Init /\ [][Next]_vars
-----------------------------------------------------------------------------
\* The thread that has won position p of the pushes and not yet published it.
Owner(o, p) == {t \in Threads : op[t] = o /\ pos[t] = p /\ pc[t] \in {"copy", "clear", "publish"}}

\* The element at a position between head and tail: in its cell, or still in
\* the hands of the thread that pushes it.
Element(p) ==
    LET pushing == Owner("TryPush", p)
    IN  IF pushing = {} THEN val[Cell(p)] ELSE arg[CHOOSE t \in pushing : TRUE]

\* What the abstract queue holds, and the call it sees a thread in.
Contents == [i \in 1..((tail - head) % Wrap) |-> Element(Plus(head, i - 1))]
Called(t) ==
    CASE pc[t] = "idle" -> None
      [] pc[t] \in {"load", "seq", "cas"} -> [op |-> op[t], val |-> arg[t], done |-> FALSE]
      [] OTHER -> [op |-> op[t], done |-> TRUE,
                   val |-> IF op[t] = "TryPush" THEN None
                           ELSE IF pc[t] = "copy" THEN val[Cell(pos[t])] ELSE arg[t]]

Calls == [t \in Threads |-> Called(t)]

Abstract == INSTANCE LaxQueue WITH Capacity <- Cells, items <- Contents, call <- Calls

\* The ring is a queue: each element pushed is popped once, in order, at most
\* Cells wait, and TryPush and TryPop fail for the two reasons LaxQueue gives.
Refines == Abstract!Spec

\* A TryPop is refused over an element whose push has returned only while an
\* earlier push is still between its compare-and-swap and its last store; a
\* TryPush over a free cell never.  The decision is the load of the sequence
\* number, taken on a position that may have been loaded long before.
RefusedForCause ==
    [][\A t \in Threads : pc[t] = "seq" /\ pc'[t] = "idle" =>
          /\ pos[t] = Counter(t)
          /\ \/ op[t] = "TryPush" /\ (tail - head) % Wrap = Cells
             \/ op[t] = "TryPush" /\ Owner("TryPop", (pos[t] - Cells) % Wrap) # {}
             \/ op[t] = "TryPop" /\ head = tail
             \/ op[t] = "TryPop" /\ Owner("TryPush", pos[t]) # {}]_vars

=============================================================================
