---------------------------- MODULE PriorityQueue ----------------------------
(***************************************************************************)
(* queue/priority.go: the queue behind Pool.q.  A binary heap under one    *)
(* mutex, ordered by time, priority and sequence number, on which callers  *)
(* of Pop and PopTimeout wait in two ways: parked on a condition variable  *)
(* (Pop on an empty queue), or asleep on a timer and a wake channel of one *)
(* slot that all sleepers share.  A critical section is one action; what   *)
(* the sleepers compare with the clock is the variable now.                *)
(***************************************************************************)
EXTENDS Integers, Sequences, FiniteSets, Functions

CONSTANTS
    Threads,    \* the goroutines that call Pop and PopTimeout
    Items,      \* Item values: records [runAt, priority, seq]
    Capacity,   \* q.cap; 0 is no limit
    MaxTime,    \* bound on the clock: every runAt and deadline comes by then
    Forever     \* the deadline of Pop

ASSUME ItemsAssumption ==
    /\ MaxTime \in Nat
    /\ Items \subseteq [runAt : 0..MaxTime, priority : Int, seq : Nat]
    /\ \A x, y \in Items : x.seq = y.seq => x = y    \* p.seq counts submissions
ASSUME CapacityAssumption == Capacity \in Nat
ASSUME ForeverAssumption == Forever \in Nat /\ Forever > MaxTime
ASSUME ThreadsAssumption == IsFiniteSet(Threads)

VARIABLES
    now,        \* time.Now()
    items,      \* q.items, the array of the heap
    closed,     \* q.closed
    wake,       \* TRUE: the channel q.wake holds a token
    parked,     \* the threads in q.notEmpty.Wait()
    pc,         \* each thread: outside, about to look at the heap, or asleep
    deadline,   \* of its call: Forever in Pop
    timer       \* when the timer of a sleeping thread fires

waiting == <<pc, deadline, timer>>
vars == <<now, items, closed, wake, parked, waiting>>
-----------------------------------------------------------------------------
\* lessItem
Less(a, b) ==
    \/ a.runAt < b.runAt
    \/ a.runAt = b.runAt /\ a.priority > b.priority
    \/ a.runAt = b.runAt /\ a.priority = b.priority /\ a.seq < b.seq

\* The heap is a[1] .. a[n]; the parent of node i is i \div 2.  An array with
\* one of its nodes, the item there being on its way up or down:
Nodes == {x \in Seq(Items) \X Nat : x[2] \in 1..Len(x[1])}
Swapped(a, i, k) == [a EXCEPT ![i] = a[k], ![k] = a[i]]

\* The loop of pq.push, for the new item at node i.
SiftUp[x \in Nodes] ==
    LET a == x[1]  i == x[2]
    IN  IF i = 1 \/ ~Less(a[i], a[i \div 2]) THEN a
        ELSE SiftUp[<<Swapped(a, i, i \div 2), i \div 2>>]

\* Definitions named Bug... are not part of the specification: each is the
\* definition after it with one mistake, which a property must notice.
BugLeftChild(a, i) == 2 * i

\* The smaller child of node i, if it has any.
SmallerChild(a, i) ==
    IF 2 * i < Len(a) /\ Less(a[2 * i + 1], a[2 * i]) THEN 2 * i + 1 ELSE 2 * i

\* The loop of pq.pop, for the moved item at node i.
SiftDown[x \in Nodes] ==
    LET a == x[1]  i == x[2]  child == SmallerChild(a, i)
    IN  IF 2 * i > Len(a) \/ ~Less(a[child], a[i]) THEN a
        ELSE SiftDown[<<Swapped(a, i, child), child>>]

Pushed(a, it) == SiftUp[<<Append(a, it), Len(a) + 1>>]

\* The last node moves to the root.
Popped(a) ==
    LET rest == SubSeq(a, 1, Len(a) - 1)
    IN  IF rest = <<>> THEN rest
        ELSE SiftDown[<<[rest EXCEPT ![1] = a[Len(a)]], 1>>]

BugOneTooMany == Capacity > 0 /\ Len(items) > Capacity
Full == Capacity > 0 /\ Len(items) >= Capacity
Ripe == items # <<>> /\ items[1].runAt <= now

\* sync.Cond.Signal on notEmpty
SignalOne ==
    IF parked = {} THEN parked' = {}
    ELSE \E t \in parked : parked' = parked \ {t}
-----------------------------------------------------------------------------
Init ==
    /\ now = 0
    /\ items = <<>>
    /\ closed = FALSE
    /\ wake = FALSE
    /\ parked = {}
    /\ pc = [t \in Threads |-> "out"]
    /\ deadline = [t \in Threads |-> Forever]
    /\ timer = [t \in Threads |-> 0]

BugPushSilent(it) ==
    /\ it \notin Range(items) /\ ~closed /\ ~Full
    /\ items' = Pushed(items, it)
    /\ wake' = TRUE
    /\ UNCHANGED <<now, closed, parked, waiting>>

\* Push, and DropOldestPush on a queue with room: insert, leave a token in the
\* wake channel unless there is one, signal the condition.
Push(it) ==
    /\ it \notin Range(items)
    /\ ~closed
    /\ ~Full
    /\ items' = Pushed(items, it)
    /\ wake' = TRUE
    /\ SignalOne
    /\ UNCHANGED <<now, closed, waiting>>

\* DropOldestPush on a full queue pops the root first.
DropOldestPush(it) ==
    /\ it \notin Range(items)
    /\ ~closed
    /\ Full
    /\ items' = Pushed(Popped(items), it)
    /\ wake' = TRUE
    /\ SignalOne
    /\ UNCHANGED <<now, closed, waiting>>

TryPop ==
    /\ Ripe
    /\ items' = Popped(items)
    /\ UNCHANGED <<now, closed, wake, parked, waiting>>

BugCloseSignalsOne ==
    /\ closed' = TRUE
    /\ wake' = TRUE
    /\ SignalOne
    /\ UNCHANGED <<now, items, waiting>>

\* Close leaves one token, whoever sleeps, and wakes all who are parked.
Close ==
    /\ closed' = TRUE
    /\ wake' = TRUE
    /\ parked' = {}
    /\ UNCHANGED <<now, items, waiting>>

\* A thread calls Pop, or PopTimeout with some timeout.
Calls(t, until) ==
    /\ pc[t] = "out"
    /\ pc' = [pc EXCEPT ![t] = "look"]
    /\ deadline' = [deadline EXCEPT ![t] = until]
    /\ UNCHANGED <<now, items, closed, wake, parked, timer>>

Looking(t) == pc[t] = "look" /\ t \notin parked
Returns(t) ==
    /\ pc' = [pc EXCEPT ![t] = "out"]
    /\ deadline' = [deadline EXCEPT ![t] = Forever]
    /\ UNCHANGED timer

BugTimedOut(t) == now >= deadline[t] /\ items # <<>>
TimedOut(t) == now >= deadline[t]

\* The root is ripe: it is the thread's, unless its deadline has passed.
Takes(t) ==
    /\ Looking(t)
    /\ Ripe
    /\ ~TimedOut(t)
    /\ items' = Popped(items)
    /\ Returns(t)
    /\ UNCHANGED <<now, closed, wake, parked>>

\* Empty and closed, or out of time.
Fails(t) ==
    /\ Looking(t)
    /\ (items = <<>> /\ closed) \/ TimedOut(t)
    /\ Returns(t)
    /\ UNCHANGED <<now, items, closed, wake, parked>>

\* Pop on an empty open queue waits for the condition.
Parks(t) ==
    /\ Looking(t)
    /\ deadline[t] = Forever
    /\ items = <<>> /\ ~closed
    /\ parked' = parked \cup {t}
    /\ UNCHANGED <<now, items, closed, wake, waiting>>

\* Sleep until the root is ripe or the deadline passes; PopTimeout sleeps on
\* an empty open queue too.
Sleeps(t) ==
    /\ Looking(t)
    /\ ~TimedOut(t) /\ ~Ripe
    /\ items = <<>> => ~closed /\ deadline[t] # Forever
    /\ pc' = [pc EXCEPT ![t] = "asleep"]
    /\ timer' = [timer EXCEPT ![t] =
                   IF items = <<>> \/ items[1].runAt > deadline[t]
                      THEN deadline[t] ELSE items[1].runAt]
    /\ UNCHANGED <<now, items, closed, wake, parked, deadline>>

\* The select returns: on the timer, or with the token.
Wakes(t) ==
    /\ pc[t] = "asleep"
    /\ \/ timer[t] <= now /\ UNCHANGED wake
       \/ wake /\ wake' = FALSE
    /\ pc' = [pc EXCEPT ![t] = "look"]
    /\ timer' = [timer EXCEPT ![t] = 0]
    /\ UNCHANGED <<now, items, closed, parked, deadline>>

Tick ==
    /\ now < MaxTime
    /\ now' = now + 1
    /\ UNCHANGED <<items, closed, wake, parked, waiting>>

\* What a thread does inside a call.
Step(t) == Takes(t) \/ Fails(t) \/ Parks(t) \/ Sleeps(t) \/ Wakes(t)

Next ==
    \/ \E it \in Items : Push(it) \/ DropOldestPush(it)
    \/ TryPop
    \/ Close
    \/ \E t \in Threads :
          \/ \E until \in (now..MaxTime) \cup {Forever} : Calls(t, until)
          \/ Step(t)
    \/ Tick

Spec == Init /\ [][Next]_vars

\* Time passes, and a runnable goroutine gets the mutex.  Nobody is obliged to
\* push, to call or to close.
FairSpec == Spec /\ WF_vars(Tick) /\ \A t \in Threads : WF_vars(Step(t))
-----------------------------------------------------------------------------
\* Every variable has its type, and the array never outgrows the capacity.
TypeOK ==
    /\ now \in 0..MaxTime
    /\ items \in Seq(Items)
    /\ Capacity > 0 => Len(items) <= Capacity
    /\ closed \in BOOLEAN /\ wake \in BOOLEAN
    /\ parked \subseteq Threads
    /\ pc \in [Threads -> {"out", "look", "asleep"}]
    /\ deadline \in [Threads -> (0..MaxTime) \cup {Forever}]
    /\ timer \in [Threads -> 0..MaxTime]

\* No node of the array precedes its parent, after any sequence of pushes,
\* pops and displacements: so the root is the first item of all.
HeapOrdered == \A i \in 2..Len(items) : ~Less(items[i], items[i \div 2])

\* The callers of Pop that are awake or have set a timer.
Popping == {t \in Threads \ parked : pc[t] # "out" /\ deadline[t] = Forever}

\* One signal per push is enough for the callers of Pop: while some are parked,
\* every item has another one coming for it, whatever TryPop, PopTimeout and
\* DropOldestPush take away in between.
NoLostSignal == parked # {} => Len(items) <= Cardinality(Popping)

\* The array heap promises what the abstract queue promises: nothing leaves
\* before its time or behind an item that precedes it, and nothing vanishes.
Abstract == INSTANCE DelayQueue WITH content <- Range(items), Before <- Less
Refines == Abstract!Spec

\* Every blocked Pop and PopTimeout returns once the queue is closed (Close).
CloseReleases == \A t \in Threads : (closed /\ pc[t] # "out") ~> pc[t] = "out"

\* PopTimeout returns: its sleep ends at its deadline, and it then gives up.
TimeoutReturns ==
    \A t \in Threads :
        (pc[t] # "out" /\ deadline[t] # Forever) ~> pc[t] = "out"

\* No Pop waits for ever beside an item: tokens taken by another sleeper and
\* signals to another thread only delay it.
HandOver ==
    \A t \in Threads :
        (pc[t] # "out" /\ deadline[t] = Forever /\ items # <<>>)
            ~> (pc[t] = "out" \/ items = <<>>)

\* "The delayed queue wakes when an earlier job is submitted, so a long-delayed
\* job will not block newly submitted immediate work" (README.md:180): while an
\* item is ripe no thread sleeps on a later one, unless somebody is on his way.
EarlierJobWakes ==
    \A t \in Threads, it \in Range(items) :
        Ripe /\ pc[t] = "asleep" /\ timer[t] > now /\ it.runAt = timer[t]
            => \/ wake
               \/ \E u \in Threads : Looking(u) \/ (pc[u] = "asleep" /\ timer[u] <= now)
=============================================================================
