-------------------------------- MODULE FIFO --------------------------------
(***************************************************************************)
(* queue/fifo.go: the bounded queue behind Pool.basicq and Pool.fastq.  A  *)
(* fixed circular buffer under one mutex, with two condition variables.    *)
(* A critical section is one action; a thread that waits on a condition    *)
(* variable leaves its critical section and must win the mutex again when  *)
(* it is woken, so another thread may get in between (barging).            *)
(***************************************************************************)
EXTENDS Integers, Sequences, FiniteSets

CONSTANTS
    Threads,    \* the goroutines that call the queue
    Values,     \* the elements they push
    Capacity,   \* len(q.buf)
    None        \* Go's zero value in an empty slot; no call in progress

ASSUME CapacityAssumption == Capacity \in Nat \ {0}   \* NewFIFO rounds up to 1
ASSUME ThreadsAssumption == IsFiniteSet(Threads)
ASSUME NoneAssumption == None \notin Values

VARIABLES
    buf,        \* q.buf: slot -> element or None
    head,       \* q.head: the slot of the oldest element
    tail,       \* q.tail: the slot the next element goes to
    len,        \* q.len
    closed,     \* q.closed
    notFull,    \* the threads parked in q.notFull.Wait()
    notEmpty,   \* the threads parked in q.notEmpty.Wait()
    call,       \* the call each thread is in: [op, val] or None
    res         \* what its last call returned: [ok, val] or None

vars == <<buf, head, tail, len, closed, notFull, notEmpty, call, res>>
-----------------------------------------------------------------------------
Slots   == 0 .. Capacity - 1
PushOps == {"TryPush", "Push"}
PopOps  == {"TryPop", "Pop", "PopTimeout"}
Calls   == [op : PushOps, val : Values] \cup [op : PopOps, val : {None}]
Results == [ok : BOOLEAN, val : Values \cup {None}]

\* Definitions named Bug... are not part of the specification: each is the
\* definition after it with one mistake, which a property must notice.
BugAdvanceNoWrap(i) == i + 1

\* q.head++ and q.tail++ with the wrap to slot 0
Advance(i) == IF i + 1 = Capacity THEN 0 ELSE i + 1

\* the slot k places after slot i, for k up to one turn of the buffer
SlotAt(i, k) == IF i + k < Capacity THEN i + k ELSE i + k - Capacity

\* the queue's content, oldest first
Contents == [k \in 1..len |-> buf[SlotAt(head, k - 1)]]

Calling(t, ops) == call[t] # None /\ call[t].op \in ops

\* sync.Cond.Signal: wake one of the threads parked on a condition, if any.
Signal(parked, parkedNext) ==
    IF parked = {} THEN parkedNext = {}
    ELSE \E t \in parked : parkedNext = parked \ {t}

Return(t, ok, v) ==
    /\ call' = [call EXCEPT ![t] = None]
    /\ res' = [res EXCEPT ![t] = [ok |-> ok, val |-> v]]
-----------------------------------------------------------------------------
Init ==
    /\ buf = [i \in Slots |-> None]
    /\ head = 0
    /\ tail = 0
    /\ len = 0
    /\ closed = FALSE
    /\ notFull = {}
    /\ notEmpty = {}
    /\ call = [t \in Threads |-> None]
    /\ res = [t \in Threads |-> None]

\* A thread calls a method and asks for the mutex.
Start(t, op, v) ==
    /\ call[t] = None
    /\ call' = [call EXCEPT ![t] = [op |-> op, val |-> v]]
    /\ res' = [res EXCEPT ![t] = None]
    /\ UNCHANGED <<buf, head, tail, len, closed, notFull, notEmpty>>

BugRoomWhenClosed == len < Capacity
HasRoom == ~closed /\ len < Capacity

BugPushSilent(t) ==
    /\ Calling(t, PushOps) /\ t \notin notFull /\ HasRoom
    /\ buf' = [buf EXCEPT ![tail] = call[t].val]
    /\ tail' = Advance(tail)
    /\ len' = len + 1
    /\ Return(t, TRUE, None)
    /\ UNCHANGED <<head, closed, notFull, notEmpty>>

\* TryPush, and Push once its loop ends: store the element, signal a popper.
PushIn(t) ==
    /\ Calling(t, PushOps)
    /\ t \notin notFull
    /\ HasRoom
    /\ buf' = [buf EXCEPT ![tail] = call[t].val]
    /\ tail' = Advance(tail)
    /\ len' = len + 1
    /\ Signal(notEmpty, notEmpty')
    /\ Return(t, TRUE, None)
    /\ UNCHANGED <<head, closed, notFull>>

\* TryPush on a full or closed queue, Push on a closed one.
PushFails(t) ==
    /\ Calling(t, PushOps)
    /\ t \notin notFull
    /\ closed \/ (call[t].op = "TryPush" /\ len = Capacity)
    /\ Return(t, FALSE, None)
    /\ UNCHANGED <<buf, head, tail, len, closed, notFull, notEmpty>>

\* Push on a full open queue parks; a woken thread tests again.
PushParks(t) ==
    /\ Calling(t, {"Push"})
    /\ t \notin notFull
    /\ len = Capacity
    /\ ~closed
    /\ notFull' = notFull \cup {t}
    /\ UNCHANGED <<buf, head, tail, len, closed, notEmpty, call, res>>

\* popLocked: take the oldest element, clear its slot, signal a pusher.
PopOut(t) ==
    /\ Calling(t, PopOps)
    /\ t \notin notEmpty
    /\ len > 0
    /\ buf' = [buf EXCEPT ![head] = None]
    /\ head' = Advance(head)
    /\ len' = len - 1
    /\ Signal(notFull, notFull')
    /\ Return(t, TRUE, buf[head])
    /\ UNCHANGED <<tail, closed, notEmpty>>

\* TryPop on an empty queue, Pop once it is closed, PopTimeout once it is
\* closed or its deadline has passed.
PopFails(t) ==
    /\ Calling(t, PopOps)
    /\ t \notin notEmpty
    /\ len = 0
    /\ call[t].op = "Pop" => closed
    /\ Return(t, FALSE, None)
    /\ UNCHANGED <<buf, head, tail, len, closed, notFull, notEmpty>>

\* Pop on an empty open queue parks.  PopTimeout never parks: it sleeps a
\* millisecond outside the mutex and tests again, so it stays enabled here.
PopParks(t) ==
    /\ Calling(t, {"Pop"})
    /\ t \notin notEmpty
    /\ len = 0
    /\ ~closed
    /\ notEmpty' = notEmpty \cup {t}
    /\ UNCHANGED <<buf, head, tail, len, closed, notFull, call, res>>

BugCloseWakesPoppers ==
    /\ closed' = TRUE
    /\ notEmpty' = {}
    /\ UNCHANGED <<buf, head, tail, len, notFull, call, res>>

\* Close broadcasts on both conditions.
Close ==
    /\ closed' = TRUE
    /\ notFull' = {}
    /\ notEmpty' = {}
    /\ UNCHANGED <<buf, head, tail, len, call, res>>

\* What thread t does inside a call; it has no choice, so it is fair.
Step(t) ==
    \/ PushIn(t)
    \/ PushFails(t)
    \/ PushParks(t)
    \/ PopOut(t)
    \/ PopFails(t)
    \/ PopParks(t)

Next ==
    \/ \E t \in Threads :
          \/ \E op \in PushOps, v \in Values : Start(t, op, v)
          \/ \E op \in PopOps : Start(t, op, None)
          \/ Step(t)
    \/ Close

Spec == Init /\ [][Next]_vars

\* A runnable goroutine gets the mutex: Go's mutex has a starvation mode that
\* hands it to a waiter after a millisecond, and deadlines do pass.
FairSpec == Spec /\ \A t \in Threads : WF_vars(Step(t))
-----------------------------------------------------------------------------
\* Every variable has its type.
TypeOK ==
    /\ buf \in [Slots -> Values \cup {None}]
    /\ head \in Slots
    /\ tail \in Slots
    /\ len \in 0..Capacity
    /\ closed \in BOOLEAN
    /\ notFull \subseteq Threads
    /\ notEmpty \subseteq Threads
    /\ call \in [Threads -> Calls \cup {None}]
    /\ res \in [Threads -> Results \cup {None}]

\* The three counters of the circular buffer agree: tail is len slots after
\* head, exactly the slots in between hold elements, and a vacated slot is
\* cleared so that the buffer keeps no finished job alive (popLocked).
BufferConsistent ==
    /\ tail = SlotAt(head, len)
    /\ \A k \in 0 .. Capacity - 1 : buf[SlotAt(head, k)] # None <=> k < len

\* A thread parked on a condition is inside the blocking call that waits for
\* it, and nobody stays parked on a closed queue (Close broadcasts).
ParkedConsistent ==
    /\ \A t \in notFull : Calling(t, {"Push"})
    /\ \A t \in notEmpty : Calling(t, {"Pop"})
    /\ closed => notFull = {} /\ notEmpty = {}

\* The threads inside a call to one of ops that are not parked.
Awake(ops) == {t \in Threads : Calling(t, ops)} \ (notFull \cup notEmpty)

\* No wake-up is lost although each push and pop signals only one thread and
\* a woken thread may find its slot taken: while pushers are parked, every
\* free slot has an awake pusher coming for it, and while poppers are parked,
\* every element has an awake popper coming for it.
NoLostWakeup ==
    /\ notFull # {} => Capacity - len <= Cardinality(Awake({"Push"}))
    /\ notEmpty # {} => len <= Cardinality(Awake({"Pop"}))

\* The buffer promises what the abstract queue promises: calls are atomic, in
\* order, and give up only for the reasons of their method.
Queue == INSTANCE BoundedQueue WITH items <- Contents
Refines == Queue!Spec

\* Every call in progress when the queue is closed returns, and so does every
\* later one: Close releases all who are blocked in Push or Pop.
CloseReleases ==
    \A t \in Threads : (closed /\ call[t] # None) ~> call[t] = None

\* An element does not wait for ever beside a parked Pop, nor free room beside
\* a parked Push, without elements moving: a woken thread that loses its slot
\* to a barging one parks again only because the queue did move.
HandOver ==
    /\ <>[](len > 0 /\ notEmpty # {})
          => []<><<\E t \in Threads : PopOut(t)>>_vars
    /\ <>[](HasRoom /\ notFull # {})
          => []<><<\E t \in Threads : PushIn(t)>>_vars
=============================================================================
