----------------------------- MODULE FIFOProofs -----------------------------
(***************************************************************************)
(* Theorems about FIFO for every capacity, set of threads and set of       *)
(* elements.                                                               *)
(***************************************************************************)
EXTENDS FIFO, FiniteSetTheorems, SequenceTheorems, TLAPS

USE CapacityAssumption DEF CapacityAssumption

\* SlotAt and Advance stay inside the buffer and agree with each other: the
\* index arithmetic of queue/fifo.go (q.head++, q.tail++ and their wrap).
LEMMA SlotArithmetic ==
    ASSUME NEW h \in Slots
    PROVE  /\ Advance(h) \in Slots
           /\ SlotAt(h, 0) = h
           /\ \A k \in 0..Capacity - 1 :
                 /\ SlotAt(h, k) \in Slots
                 /\ Advance(SlotAt(h, k)) = IF k + 1 = Capacity THEN h ELSE SlotAt(h, k + 1)
                 /\ k + 1 < Capacity => SlotAt(Advance(h), k) = SlotAt(h, k + 1)
           /\ SlotAt(Advance(h), Capacity - 1) = h
           /\ \A k, l \in 0..Capacity - 1 : SlotAt(h, k) = SlotAt(h, l) => k = l
  BY DEF Slots, Advance, SlotAt

\* A result record and a call record built from their parts have their type.
LEMMA RecordTypes ==
    /\ \A v \in Values \cup {None} : \A b \in BOOLEAN : [ok |-> b, val |-> v] \in Results
    /\ \A op \in PushOps, v \in Values : [op |-> op, val |-> v] \in Calls
    /\ \A op \in PopOps : [op |-> op, val |-> None] \in Calls
  BY DEF Results, Calls

\* What a call in progress carries: a push has an element, a pop has none.
LEMMA CallTypes ==
    ASSUME TypeOK, NEW t \in Threads, call[t] # None
    PROVE  /\ call[t] \in Calls
           /\ call[t].op \in PushOps => call[t].val \in Values
           /\ call[t].op \in PopOps => call[t].val = None
           /\ call[t].op \in PushOps \cup PopOps
  <1>1. call[t] \in Calls
    BY DEF TypeOK
  <1> QED
    BY <1>1 DEF Calls, PushOps, PopOps

\* Type correctness of the buffer, for every capacity (queue/fifo.go).
THEOREM TypeCorrect == Spec => []TypeOK
  <1>1. Init => TypeOK
    <2> SUFFICES ASSUME Init PROVE TypeOK
      OBVIOUS
    <2>1. 0 \in Slots /\ 0 \in 0..Capacity
      BY DEF Slots
    <2> QED
      BY <2>1 DEF Init, TypeOK
  <1>2. TypeOK /\ [Next]_vars => TypeOK'
    <2> SUFFICES ASSUME TypeOK, [Next]_vars PROVE TypeOK'
      OBVIOUS
    <2> USE DEF TypeOK
    <2>1. ASSUME NEW t \in Threads, NEW op \in PushOps, NEW v \in Values, Start(t, op, v)
          PROVE  TypeOK'
      BY <2>1, RecordTypes DEF Start
    <2>2. ASSUME NEW t \in Threads, NEW op \in PopOps, Start(t, op, None)
          PROVE  TypeOK'
      BY <2>2, RecordTypes DEF Start
    <2>3. ASSUME NEW t \in Threads, PushIn(t)
          PROVE  TypeOK'
      <3>1. call[t].val \in Values
        BY <2>3, CallTypes DEF PushIn, Calling
      <3>2. notEmpty' \subseteq Threads
        BY <2>3 DEF PushIn, Signal
      <3>3. tail' \in Slots /\ len' \in 0..Capacity
        BY <2>3, SlotArithmetic DEF PushIn, HasRoom
      <3>4. call' \in [Threads -> Calls \cup {None}] /\ res' \in [Threads -> Results \cup {None}]
        BY <2>3, RecordTypes DEF PushIn, Return
      <3> QED
        BY <2>3, <3>1, <3>2, <3>3, <3>4 DEF PushIn
    <2>4. ASSUME NEW t \in Threads, PushFails(t)
          PROVE  TypeOK'
      BY <2>4, RecordTypes DEF PushFails, Return
    <2>5. ASSUME NEW t \in Threads, PushParks(t)
          PROVE  TypeOK'
      BY <2>5 DEF PushParks
    <2>6. ASSUME NEW t \in Threads, PopOut(t)
          PROVE  TypeOK'
      <3>1. notFull' \subseteq Threads
        BY <2>6 DEF PopOut, Signal
      <3>2. head' \in Slots /\ len' \in 0..Capacity
        BY <2>6, SlotArithmetic DEF PopOut
      <3>3. call' \in [Threads -> Calls \cup {None}] /\ res' \in [Threads -> Results \cup {None}]
        BY <2>6, RecordTypes DEF PopOut, Return
      <3> QED
        BY <2>6, <3>1, <3>2, <3>3 DEF PopOut
    <2>7. ASSUME NEW t \in Threads, PopFails(t)
          PROVE  TypeOK'
      BY <2>7, RecordTypes DEF PopFails, Return
    <2>8. ASSUME NEW t \in Threads, PopParks(t)
          PROVE  TypeOK'
      BY <2>8 DEF PopParks
    <2>9. CASE Close
      BY <2>9 DEF Close
    <2>10. CASE UNCHANGED vars
      BY <2>10 DEF vars
    <2> QED
      BY <2>1, <2>2, <2>3, <2>4, <2>5, <2>6, <2>7, <2>8, <2>9, <2>10 DEF Next, Step
  <1> QED
    BY <1>1, <1>2, PTL DEF Spec

-----------------------------------------------------------------------------
\* The counters of the circular buffer stay in agreement and vacated slots
\* stay cleared through every push, pop and wrap (PushIn, popLocked).
LEMMA BufferStep ==
    TypeOK /\ BufferConsistent /\ [Next]_vars => BufferConsistent'
  <1> SUFFICES ASSUME TypeOK, BufferConsistent, [Next]_vars PROVE BufferConsistent'
    OBVIOUS
  <1>1. ASSUME NEW t \in Threads, PushIn(t)
        PROVE  BufferConsistent'
    <2>1. /\ head \in Slots /\ len \in 0..Capacity - 1 /\ head' = head /\ len' = len + 1
          /\ tail \in Slots /\ tail' = Advance(tail) /\ tail = SlotAt(head, len)
      BY <1>1 DEF PushIn, HasRoom, TypeOK, BufferConsistent
    <2>2. call[t].val \in Values
      BY <1>1, CallTypes DEF PushIn, Calling
    <2>3. tail' = SlotAt(head', len')
      BY <2>1 DEF Slots, Advance, SlotAt
    <2>4. ASSUME NEW k \in 0..Capacity - 1
          PROVE  buf'[SlotAt(head, k)] # None <=> k < len + 1
      <3>1. SlotAt(head, k) \in Slots /\ (SlotAt(head, k) = tail <=> k = len)
        BY <2>1 DEF Slots, SlotAt
      <3>2. buf[SlotAt(head, k)] # None <=> k < len
        BY DEF BufferConsistent
      <3>3. buf'[SlotAt(head, k)] = IF k = len THEN call[t].val ELSE buf[SlotAt(head, k)]
        BY <1>1, <3>1 DEF PushIn, TypeOK
      <3> QED
        BY <2>1, <2>2, <3>2, <3>3, NoneAssumption DEF NoneAssumption
    <2> QED
      BY <2>1, <2>3, <2>4 DEF BufferConsistent, SlotAt
  <1>2. ASSUME NEW t \in Threads, PopOut(t)
        PROVE  BufferConsistent'
    <2>1. /\ head \in Slots /\ len \in 1..Capacity /\ head' = Advance(head) /\ len' = len - 1
          /\ tail' = tail /\ tail = SlotAt(head, len)
      BY <1>2 DEF PopOut, TypeOK, BufferConsistent
    <2>2. tail' = SlotAt(head', len')
      BY <2>1 DEF Slots, Advance, SlotAt
    <2>3. ASSUME NEW k \in 0..Capacity - 1
          PROVE  buf'[SlotAt(Advance(head), k)] # None <=> k < len - 1
      <3>1. CASE k = Capacity - 1
        <4>1. SlotAt(Advance(head), k) = head
          BY <2>1, <3>1, SlotArithmetic
        <4>2. buf'[head] = None
          BY <1>2, <2>1 DEF PopOut, TypeOK
        <4> QED
          BY <2>1, <3>1, <4>1, <4>2
      <3>2. CASE k # Capacity - 1
        <4>1. k + 1 \in 0..Capacity - 1
          BY <3>2
        <4>2. /\ SlotAt(Advance(head), k) = SlotAt(head, k + 1)
              /\ SlotAt(head, k + 1) \in Slots
              /\ SlotAt(head, k + 1) # head
          BY <2>1, <4>1 DEF Slots, Advance, SlotAt
        <4>3. buf[SlotAt(head, k + 1)] # None <=> k + 1 < len
          BY <4>1 DEF BufferConsistent
        <4>4. buf'[SlotAt(head, k + 1)] = buf[SlotAt(head, k + 1)]
          BY <1>2, <4>2 DEF PopOut, TypeOK
        <4> QED
          BY <2>1, <4>2, <4>3, <4>4
      <3> QED
        BY <3>1, <3>2
    <2> QED
      BY <2>1, <2>2, <2>3 DEF BufferConsistent, SlotAt
  <1>3. CASE UNCHANGED <<buf, head, tail, len>>
    BY <1>3 DEF BufferConsistent, SlotAt
  <1> QED
    BY <1>1, <1>2, <1>3
    DEF Next, Step, Start, PushFails, PushParks, PopFails, PopParks, Close, vars

\* The circular buffer is consistent in every reachable state: no interleaving
\* of pushes and pops makes head, tail and len of queue/fifo.go disagree.
THEOREM BufferIsConsistent == Spec => []BufferConsistent
  <1>1. Init => BufferConsistent
    <2> SUFFICES ASSUME Init PROVE BufferConsistent
      OBVIOUS
    <2>1. \A k \in 0..Capacity - 1 : SlotAt(0, k) \in Slots
      BY DEF Slots, SlotAt
    <2>2. SlotAt(0, 0) = 0
      BY DEF SlotAt
    <2> QED
      BY <2>1, <2>2 DEF Init, BufferConsistent
  <1>2. TypeOK /\ BufferConsistent /\ [Next]_vars => BufferConsistent'
    BY BufferStep
  <1> QED
    BY <1>1, <1>2, TypeCorrect, PTL DEF Spec
-----------------------------------------------------------------------------
\* Counting the awake threads of a queue with finitely many callers.
LEMMA AwakeCount ==
    ASSUME NEW A \in SUBSET Threads, NEW B \in SUBSET Threads
    PROVE  /\ Cardinality(A) \in Nat
           /\ A \subseteq B => Cardinality(A) <= Cardinality(B)
           /\ \A x : A \subseteq B \cup {x} => Cardinality(A) <= Cardinality(B) + 1
           /\ \A x : x \notin A /\ A \cup {x} \subseteq B
                        => Cardinality(A) + 1 <= Cardinality(B)
  <1>1. IsFiniteSet(A) /\ IsFiniteSet(B)
    BY ThreadsAssumption, FS_Subset DEF ThreadsAssumption
  <1>2. Cardinality(A) \in Nat /\ Cardinality(B) \in Nat
    BY <1>1, FS_CardinalityType
  <1>3. A \subseteq B => Cardinality(A) <= Cardinality(B)
    BY <1>1, FS_Subset
  <1>4. ASSUME NEW x, A \subseteq B \cup {x}
        PROVE  Cardinality(A) <= Cardinality(B) + 1
    <2>1. /\ IsFiniteSet(B \cup {x})
          /\ Cardinality(B \cup {x}) = IF x \in B THEN Cardinality(B) ELSE Cardinality(B) + 1
      BY <1>1, FS_AddElement, Zenon
    <2>2. Cardinality(B \cup {x}) <= Cardinality(B) + 1
      BY <1>2, <2>1
    <2>3. Cardinality(A) <= Cardinality(B \cup {x}) /\ Cardinality(B \cup {x}) \in Nat
      BY <1>4, <2>1, FS_Subset, FS_CardinalityType
    <2> QED
      BY <1>2, <2>2, <2>3
  <1>5. ASSUME NEW x, x \notin A, A \cup {x} \subseteq B
        PROVE  Cardinality(A) + 1 <= Cardinality(B)
    <2>1. Cardinality(A \cup {x}) = Cardinality(A) + 1
      BY <1>1, <1>5, FS_AddElement
    <2>2. Cardinality(A \cup {x}) <= Cardinality(B)
      BY <1>1, <1>5, FS_Subset
    <2> QED
      BY <2>1, <2>2
  <1> QED
    BY <1>2, <1>3, <1>4, <1>5

\* Threads stay parked only inside the blocking call they parked in, and not
\* on a closed queue.
LEMMA ParkedStep ==
    TypeOK /\ ParkedConsistent /\ [Next]_vars => ParkedConsistent'
  <1> SUFFICES ASSUME TypeOK, ParkedConsistent, [Next]_vars PROVE ParkedConsistent'
    OBVIOUS
  <1> USE DEF ParkedConsistent, Calling, TypeOK
  <1>1. ASSUME NEW t \in Threads, NEW op, NEW v, Start(t, op, v)
        PROVE  ParkedConsistent'
    BY <1>1 DEF Start
  <1>2. ASSUME NEW t \in Threads, PushIn(t)
        PROVE  ParkedConsistent'
    <2>1. t \notin notFull' /\ t \notin notEmpty
      BY <1>2 DEF PushIn, PushOps
    <2>2. notEmpty' \subseteq notEmpty
      BY <1>2 DEF PushIn, Signal
    <2> QED
      BY <1>2, <2>1, <2>2 DEF PushIn, Return
  <1>3. ASSUME NEW t \in Threads, PushFails(t)
        PROVE  ParkedConsistent'
    <2>1. t \notin notFull' /\ t \notin notEmpty'
      BY <1>3 DEF PushFails, PushOps
    <2> QED
      BY <1>3, <2>1 DEF PushFails, Return
  <1>4. ASSUME NEW t \in Threads, PushParks(t)
        PROVE  ParkedConsistent'
    BY <1>4 DEF PushParks
  <1>5. ASSUME NEW t \in Threads, PopOut(t)
        PROVE  ParkedConsistent'
    <2>1. t \notin notFull /\ t \notin notEmpty'
      BY <1>5 DEF PopOut, PopOps
    <2>2. notFull' \subseteq notFull
      BY <1>5 DEF PopOut, Signal
    <2> QED
      BY <1>5, <2>1, <2>2 DEF PopOut, Return
  <1>6. ASSUME NEW t \in Threads, PopFails(t)
        PROVE  ParkedConsistent'
    <2>1. t \notin notFull' /\ t \notin notEmpty'
      BY <1>6 DEF PopFails, PopOps
    <2> QED
      BY <1>6, <2>1 DEF PopFails, Return
  <1>7. ASSUME NEW t \in Threads, PopParks(t)
        PROVE  ParkedConsistent'
    BY <1>7 DEF PopParks
  <1>8. CASE Close
    BY <1>8 DEF Close
  <1>9. CASE UNCHANGED vars
    BY <1>9 DEF vars
  <1> QED
    BY <1>1, <1>2, <1>3, <1>4, <1>5, <1>6, <1>7, <1>8, <1>9 DEF Next, Step

\* One signal per push and per pop is enough: each step that makes room (or
\* brings an element) while threads are parked also wakes one of them.
LEMMA WakeupStep ==
    TypeOK /\ ParkedConsistent /\ NoLostWakeup /\ [Next]_vars => NoLostWakeup'
  <1> SUFFICES ASSUME TypeOK, ParkedConsistent, NoLostWakeup, [Next]_vars
               PROVE  NoLostWakeup'
    OBVIOUS
  <1> DEFINE P == Awake({"Push"})
             Q == Awake({"Pop"})
  <1>1. P \in SUBSET Threads /\ Q \in SUBSET Threads /\ P' \in SUBSET Threads /\ Q' \in SUBSET Threads
    BY DEF Awake
  <1>2. /\ Cardinality(P) \in Nat /\ Cardinality(P') \in Nat
        /\ Cardinality(Q) \in Nat /\ Cardinality(Q') \in Nat
    BY <1>1, AwakeCount
  <1>3. len \in 0..Capacity
    BY DEF TypeOK
  <1>4. /\ notFull # {} => Capacity - len <= Cardinality(P)
        /\ notEmpty # {} => len <= Cardinality(Q)
    BY DEF NoLostWakeup
  <1>5. SUFFICES /\ notFull' # {} => Capacity - len' <= Cardinality(P')
                 /\ notEmpty' # {} => len' <= Cardinality(Q')
    BY DEF NoLostWakeup
  <1>6. \* a step that only adds awake threads and moves no element
        ASSUME P \subseteq P', Q \subseteq Q', UNCHANGED <<len, notFull, notEmpty>>
        PROVE  /\ notFull' # {} => Capacity - len' <= Cardinality(P')
               /\ notEmpty' # {} => len' <= Cardinality(Q')
    <2>1. Cardinality(P) <= Cardinality(P') /\ Cardinality(Q) <= Cardinality(Q')
      BY <1>1, <1>6, AwakeCount
    <2> QED
      BY <1>2, <1>3, <1>4, <1>6, <2>1
  <1> HIDE DEF P, Q
  <1>7. ASSUME NEW t \in Threads, NEW op, NEW v, Start(t, op, v)
        PROVE  P \subseteq P' /\ Q \subseteq Q' /\ UNCHANGED <<len, notFull, notEmpty>>
    BY <1>7 DEF Start, P, Q, Awake, Calling, TypeOK
  <1>8. ASSUME NEW t \in Threads, PushIn(t)
        PROVE  /\ notFull' # {} => Capacity - len' <= Cardinality(P')
               /\ notEmpty' # {} => len' <= Cardinality(Q')
    <2>1. /\ len' = len + 1 /\ notFull' = notFull /\ t \notin notFull
          /\ t \notin Q /\ notEmpty' \subseteq notEmpty
      BY <1>8 DEF PushIn, Q, Awake, Calling, PushOps, Signal
    <2>2. P \subseteq P' \cup {t}
      BY <1>8, <2>1 DEF PushIn, Return, P, Awake, Calling, TypeOK
    <2>3. Cardinality(P) <= Cardinality(P') + 1
      BY <1>1, <2>2, AwakeCount
    <2>4. notFull' # {} => Capacity - len' <= Cardinality(P')
      BY <1>2, <1>3, <1>4, <2>1, <2>3
    <2>5. ASSUME notEmpty' # {}
          PROVE  len' <= Cardinality(Q')
      <3>1. PICK u \in notEmpty : notEmpty' = notEmpty \ {u}
        BY <1>8, <2>5 DEF PushIn, Signal
      <3>2. u \in Threads /\ u # t /\ Calling(u, {"Pop"}) /\ u \notin notFull
        BY <1>8 DEF ParkedConsistent, PushIn, PushOps, Calling, TypeOK
      <3>3. u \notin Q /\ Q \cup {u} \subseteq Q'
        BY <1>8, <2>1, <3>1, <3>2 DEF PushIn, Return, Q, Awake, Calling, TypeOK
      <3>4. Cardinality(Q) + 1 <= Cardinality(Q')
        BY <1>1, <3>3, AwakeCount
      <3> QED
        BY <1>2, <1>3, <1>4, <2>1, <2>5, <3>1, <3>4
    <2> QED
      BY <2>4, <2>5
  <1>9. ASSUME NEW t \in Threads, PushFails(t)
        PROVE  /\ notFull' # {} => Capacity - len' <= Cardinality(P')
               /\ notEmpty' # {} => len' <= Cardinality(Q')
    <2>1. CASE closed
      BY <1>9, <2>1 DEF PushFails, ParkedConsistent
    <2>2. CASE call[t].op = "TryPush"
      BY <1>6, <1>9, <2>2 DEF PushFails, Return, P, Q, Awake, Calling, TypeOK
    <2> QED
      BY <1>9, <2>1, <2>2 DEF PushFails
  <1>10. ASSUME NEW t \in Threads, PushParks(t)
         PROVE  /\ notFull' # {} => Capacity - len' <= Cardinality(P')
                /\ notEmpty' # {} => len' <= Cardinality(Q')
    <2>1. len' = len /\ len = Capacity /\ notEmpty' = notEmpty
      BY <1>10 DEF PushParks
    <2>2. Q \subseteq Q'
      BY <1>10 DEF PushParks, Q, Awake, Calling
    <2>3. Cardinality(Q) <= Cardinality(Q')
      BY <1>1, <2>2, AwakeCount
    <2> QED
      BY <1>2, <1>3, <1>4, <2>1, <2>3
  <1>11. ASSUME NEW t \in Threads, PopOut(t)
         PROVE  /\ notFull' # {} => Capacity - len' <= Cardinality(P')
                /\ notEmpty' # {} => len' <= Cardinality(Q')
    <2>1. /\ len' = len - 1 /\ notEmpty' = notEmpty /\ t \notin notEmpty
          /\ t \notin P /\ notFull' \subseteq notFull
      BY <1>11 DEF PopOut, P, Awake, Calling, PopOps, Signal
    <2>2. Q \subseteq Q' \cup {t}
      BY <1>11, <2>1 DEF PopOut, Return, Q, Awake, Calling, TypeOK
    <2>3. Cardinality(Q) <= Cardinality(Q') + 1
      BY <1>1, <2>2, AwakeCount
    <2>4. notEmpty' # {} => len' <= Cardinality(Q')
      BY <1>2, <1>3, <1>4, <2>1, <2>3
    <2>5. ASSUME notFull' # {}
          PROVE  Capacity - len' <= Cardinality(P')
      <3>1. PICK u \in notFull : notFull' = notFull \ {u}
        BY <1>11, <2>5 DEF PopOut, Signal
      <3>2. u \in Threads /\ u # t /\ Calling(u, {"Push"}) /\ u \notin notEmpty
        BY <1>11 DEF ParkedConsistent, PopOut, PopOps, Calling, TypeOK
      <3>3. u \notin P /\ P \cup {u} \subseteq P'
        BY <1>11, <2>1, <3>1, <3>2 DEF PopOut, Return, P, Awake, Calling, TypeOK
      <3>4. Cardinality(P) + 1 <= Cardinality(P')
        BY <1>1, <3>3, AwakeCount
      <3> QED
        BY <1>2, <1>3, <1>4, <2>1, <2>5, <3>1, <3>4
    <2> QED
      BY <2>4, <2>5
  <1>12. ASSUME NEW t \in Threads, PopFails(t)
         PROVE  /\ notFull' # {} => Capacity - len' <= Cardinality(P')
                /\ notEmpty' # {} => len' <= Cardinality(Q')
    <2>1. len' = len /\ len = 0 /\ notFull' = notFull
      BY <1>12 DEF PopFails
    <2>2. P \subseteq P'
      BY <1>12 DEF PopFails, PopOps, Return, P, Awake, Calling, TypeOK
    <2>3. Cardinality(P) <= Cardinality(P')
      BY <1>1, <2>2, AwakeCount
    <2> QED
      BY <1>2, <1>3, <1>4, <2>1, <2>3
  <1>13. ASSUME NEW t \in Threads, PopParks(t)
         PROVE  /\ notFull' # {} => Capacity - len' <= Cardinality(P')
                /\ notEmpty' # {} => len' <= Cardinality(Q')
    <2>1. len' = len /\ len = 0 /\ notFull' = notFull
      BY <1>13 DEF PopParks
    <2>2. P \subseteq P'
      BY <1>13 DEF PopParks, P, Awake, Calling
    <2>3. Cardinality(P) <= Cardinality(P')
      BY <1>1, <2>2, AwakeCount
    <2> QED
      BY <1>2, <1>3, <1>4, <2>1, <2>3
  <1>14. CASE Close
    BY <1>14 DEF Close
  <1>15. CASE UNCHANGED vars
    BY <1>6, <1>15 DEF vars, P, Q, Awake, Calling
  <1> QED
    BY <1>6, <1>7, <1>8, <1>9, <1>10, <1>11, <1>12, <1>13, <1>14, <1>15 DEF Next, Step

\* Nobody sleeps through a wake-up, for any number of callers: while pushers
\* are parked each free slot has an awake pusher coming for it, and while
\* poppers are parked each element has an awake popper coming for it, although
\* queue/fifo.go signals one thread at a time and lets others barge in.
THEOREM NoWakeupIsLost == Spec => [](ParkedConsistent /\ NoLostWakeup)
  <1>1. Init => ParkedConsistent /\ NoLostWakeup
    BY DEF Init, ParkedConsistent, NoLostWakeup
  <1>2. TypeOK /\ ParkedConsistent /\ NoLostWakeup /\ [Next]_vars
           => ParkedConsistent' /\ NoLostWakeup'
    BY ParkedStep, WakeupStep
  <1> QED
    BY <1>1, <1>2, TypeCorrect, PTL DEF Spec
-----------------------------------------------------------------------------
\* The content of the buffer is a sequence of len elements.
LEMMA ContentsIsSeq ==
    ASSUME TypeOK, BufferConsistent
    PROVE  /\ Contents \in Seq(Values)
           /\ Len(Contents) = len
           /\ \A k \in 1..len : Contents[k] = buf[SlotAt(head, k - 1)]
  <1>1. len \in 0..Capacity /\ head \in Slots
    BY DEF TypeOK
  <1>2. ASSUME NEW k \in 1..len
        PROVE  buf[SlotAt(head, k - 1)] \in Values
    <2>1. k - 1 \in 0..Capacity - 1 /\ k - 1 < len
      BY <1>1
    <2>2. SlotAt(head, k - 1) \in Slots
      BY <1>1, <2>1, SlotArithmetic
    <2> QED
      BY <2>1, <2>2 DEF BufferConsistent, TypeOK
  <1>3. Contents \in [1..len -> Values]
    BY <1>2 DEF Contents
  <1>4. len \in Nat
    BY <1>1
  <1> QED
    BY <1>3, <1>4 DEF Contents

\* A push appends to the content, wherever tail is in the buffer.
LEMMA PushAppends ==
    ASSUME TypeOK, BufferConsistent, TypeOK', BufferConsistent',
           NEW t \in Threads, PushIn(t)
    PROVE  Contents' = Append(Contents, call[t].val)
  <1>1. /\ head \in Slots /\ len \in 0..Capacity - 1 /\ head' = head /\ len' = len + 1
        /\ tail \in Slots /\ tail = SlotAt(head, len)
    BY DEF PushIn, HasRoom, TypeOK, BufferConsistent
  <1>2. /\ Contents \in Seq(Values) /\ Len(Contents) = len
        /\ \A k \in 1..len : Contents[k] = buf[SlotAt(head, k - 1)]
    BY ContentsIsSeq
  <1>3. ASSUME NEW k \in 1..len + 1
        PROVE  buf'[SlotAt(head, k - 1)]
                 = IF k = len + 1 THEN call[t].val ELSE Contents[k]
    <2>1. SlotAt(head, k - 1) \in Slots /\ (SlotAt(head, k - 1) = tail <=> k = len + 1)
      BY <1>1 DEF Slots, SlotAt
    <2>2. buf'[SlotAt(head, k - 1)]
            = IF k = len + 1 THEN call[t].val ELSE buf[SlotAt(head, k - 1)]
      BY <2>1 DEF PushIn, TypeOK
    <2> QED
      BY <1>1, <1>2, <2>2
  <1>4. Contents' = [k \in 1..len + 1 |-> buf'[SlotAt(head, k - 1)]]
    BY <1>1 DEF Contents, SlotAt
  <1>5. Append(Contents, call[t].val)
          = [k \in 1..len + 1 |-> IF k = len + 1 THEN call[t].val ELSE Contents[k]]
    BY <1>1, <1>2
  <1> QED
    BY <1>3, <1>4, <1>5

\* A pop removes the oldest element and nothing else, also across the wrap.
LEMMA PopTakesHead ==
    ASSUME TypeOK, BufferConsistent, TypeOK', BufferConsistent',
           NEW t \in Threads, PopOut(t)
    PROVE  /\ Contents # <<>>
           /\ Contents' = Tail(Contents)
           /\ buf[head] = Head(Contents)
  <1>1. /\ head \in Slots /\ len \in 1..Capacity /\ head' = Advance(head) /\ len' = len - 1
    BY DEF PopOut, TypeOK
  <1>2. /\ Contents \in Seq(Values) /\ Len(Contents) = len
        /\ \A k \in 1..len : Contents[k] = buf[SlotAt(head, k - 1)]
    BY ContentsIsSeq
  <1>3. ASSUME NEW k \in 1..len - 1
        PROVE  buf'[SlotAt(Advance(head), k - 1)] = Contents[k + 1]
    <2>1. /\ SlotAt(Advance(head), k - 1) = SlotAt(head, k)
          /\ SlotAt(head, k) \in Slots
          /\ SlotAt(head, k) # head
      BY <1>1 DEF Slots, Advance, SlotAt
    <2>2. buf'[SlotAt(head, k)] = buf[SlotAt(head, k)]
      BY <2>1 DEF PopOut, TypeOK
    <2>3. k + 1 \in 1..len /\ (k + 1) - 1 = k
      BY <1>1
    <2> QED
      BY <1>2, <2>1, <2>2, <2>3
  <1>4. Contents' = [k \in 1..len - 1 |-> buf'[SlotAt(Advance(head), k - 1)]]
    BY <1>1 DEF Contents, SlotAt
  <1>5. Tail(Contents) = [k \in 1..len - 1 |-> Contents[k + 1]]
    <2>1. Contents # <<>> /\ len - 1 \in Nat
      BY <1>1, <1>2
    <2>2. /\ Tail(Contents) \in Seq(Values)
          /\ Len(Tail(Contents)) = len - 1
          /\ \A k \in 1..len - 1 : Tail(Contents)[k] = Contents[k + 1]
      BY <1>2, <2>1
    <2> DEFINE rest == [k \in 1..len - 1 |-> Contents[k + 1]]
    <2>3. rest \in Seq(Values) /\ Len(rest) = len - 1
      BY <1>1, <1>2, <2>1
    <2> QED
      BY <2>2, <2>3, SeqEqual
  <1>6. Head(Contents) = buf[SlotAt(head, 0)] /\ SlotAt(head, 0) = head
    BY <1>1, <1>2, SlotArithmetic
  <1> QED
    BY <1>1, <1>2, <1>3, <1>4, <1>5, <1>6

\* The circular buffer with its condition variables implements the abstract
\* bounded queue: every push and pop of queue/fifo.go is atomic, elements
\* leave in the order they came, and a call fails only for its own reason.
THEOREM Implementation == Spec => Refines
  <1>1. Init => Queue!Init
    BY DEF Init, Queue!Init, Contents
  <1>2. TypeOK /\ TypeOK' /\ BufferConsistent /\ BufferConsistent' /\ [Next]_vars
           => [Queue!Next]_(Queue!vars)
    <2> SUFFICES ASSUME TypeOK, TypeOK', BufferConsistent, BufferConsistent', [Next]_vars
                 PROVE  Queue!Next \/ UNCHANGED Queue!vars
      BY DEF Queue!vars
    <2>1. Len(Contents) = len /\ (Contents = <<>> <=> len = 0)
      BY ContentsIsSeq
    <2>2. ASSUME UNCHANGED <<buf, head, len>>
          PROVE  UNCHANGED Contents
      BY <2>2 DEF Contents, SlotAt
    <2>3. ASSUME NEW t \in Threads, NEW op \in PushOps, NEW v \in Values, Start(t, op, v)
          PROVE  Queue!Next
      <3>1. Queue!Start(t, op, v)
        BY <2>2, <2>3 DEF Start, Queue!Start
      <3> QED
        BY <3>1 DEF Queue!Next, Queue!PushOps, PushOps
    <2>4. ASSUME NEW t \in Threads, NEW op \in PopOps, Start(t, op, None)
          PROVE  Queue!Next
      <3>1. Queue!Start(t, op, None)
        BY <2>2, <2>4 DEF Start, Queue!Start
      <3> QED
        BY <3>1 DEF Queue!Next, Queue!PopOps, PopOps
    <2>5. ASSUME NEW t \in Threads, PushIn(t)
          PROVE  Queue!Next
      <3>1. Queue!Accept(t)
        BY <2>1, <2>5, PushAppends
        DEF PushIn, HasRoom, Return, Calling, PushOps, Queue!Accept, Queue!PushOps, Queue!Return
      <3> QED
        BY <3>1 DEF Queue!Next
    <2>6. ASSUME NEW t \in Threads, PushFails(t)
          PROVE  Queue!Next
      <3>1. Queue!Refuse(t)
        BY <2>1, <2>2, <2>6
        DEF PushFails, Return, Calling, PushOps, Queue!Refuse, Queue!PushOps, Queue!Return
      <3> QED
        BY <3>1 DEF Queue!Next
    <2>7. ASSUME NEW t \in Threads, PushParks(t)
          PROVE  UNCHANGED Queue!vars
      BY <2>2, <2>7 DEF PushParks, Queue!vars
    <2>8. ASSUME NEW t \in Threads, PopOut(t)
          PROVE  Queue!Next
      <3>1. Queue!Deliver(t)
        BY <2>8, PopTakesHead
        DEF PopOut, Return, Calling, PopOps, Queue!Deliver, Queue!PopOps, Queue!Return
      <3> QED
        BY <3>1 DEF Queue!Next
    <2>9. ASSUME NEW t \in Threads, PopFails(t)
          PROVE  Queue!Next
      <3>1. Queue!GiveUp(t)
        BY <2>1, <2>2, <2>9
        DEF PopFails, Return, Calling, PopOps, Queue!GiveUp, Queue!PopOps, Queue!Return
      <3> QED
        BY <3>1 DEF Queue!Next
    <2>10. ASSUME NEW t \in Threads, PopParks(t)
           PROVE  UNCHANGED Queue!vars
      BY <2>2, <2>10 DEF PopParks, Queue!vars
    <2>11. ASSUME Close
           PROVE  Queue!Next
      BY <2>2, <2>11 DEF Close, Queue!Close, Queue!Next
    <2>12. ASSUME UNCHANGED vars
           PROVE  UNCHANGED Queue!vars
      BY <2>2, <2>12 DEF vars, Queue!vars
    <2> QED
      BY <2>3, <2>4, <2>5, <2>6, <2>7, <2>8, <2>9, <2>10, <2>11, <2>12 DEF Next, Step
  <1> QED
    BY <1>1, <1>2, TypeCorrect, BufferIsConsistent, PTL DEF Spec, Refines, Queue!Spec
=============================================================================
