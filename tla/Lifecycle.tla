----------------------------- MODULE Lifecycle ------------------------------
(***************************************************************************)
(* lifecycle.go: the event bus of a pool.  Goroutines subscribe handlers   *)
(* and take them off again, others emit events; the first to ask for the   *)
(* bus of a pool makes it.  A handler runs on the goroutine that emits, or *)
(* on one of its own when the bus is asynchronous, without the bus's lock, *)
(* so that it may take a handler off, itself included.                     *)
(*                                                                         *)
(* A critical section of the RWMutex is one step: nothing blocks in it.    *)
(***************************************************************************)
EXTENDS Naturals, Sequences, FiniteSets, Functions

CONSTANTS
    Handlers,       \* one goroutine subscribes each
    Emitters,       \* goroutines that emit one event each
    Types,          \* the types of events
    Wants,          \* the types each handler asks for, {} for every event
    Emits,          \* the type each emitter emits
    OneShots,       \* handlers that take themselves off when called
    MaxSwitches     \* bound on the calls to SetAsync

ASSUME LifecycleAssumption ==
    /\ IsFiniteSet(Handlers)
    /\ Wants \in [Handlers -> SUBSET Types]
    /\ Emits \in [Emitters -> Types]
    /\ OneShots \subseteq Handlers
    /\ MaxSwitches \in Nat

None == 0               \* the nil pointer
Buses == 1..Cardinality(Handlers)

VARIABLES
    bus,        \* p.lifecycle
    made,       \* the buses made so far
    all, typed, \* the entries of each bus, by type in typed
    async,      \* l.async, of every bus
    switches,
    spc, sbus,  \* each subscriber, and the bus it has in hand
    epc, ebus,  \* each emitter, and the bus
    todo,       \* the copy of the handlers that it has still to call
    spawned,    \* calls of handlers on goroutines of their own
    calls,      \* history: the handlers each emission has called, in order
    before,     \* history: the handlers that were on, and those that were
    off         \*   off again, when each emission began

registry == <<bus, made, all, typed>>
mode == <<async, switches>>
subscribers == <<spc, sbus>>
emitters == <<epc, ebus, todo>>
history == <<calls, before, off>>
vars == <<registry, mode, subscribers, emitters, spawned, history>>

Init ==
    /\ bus = None /\ made = 0
    /\ all = [b \in Buses |-> <<>>]
    /\ typed = [b \in Buses |-> [t \in Types |-> <<>>]]
    /\ async \in BOOLEAN /\ switches = 0
    /\ spc = [h \in Handlers |-> "new"]
    /\ sbus = [h \in Handlers |-> None]
    /\ epc = [e \in Emitters |-> "new"]
    /\ ebus = [e \in Emitters |-> None]
    /\ todo = [e \in Emitters |-> <<>>]
    /\ spawned = {}
    /\ calls = [e \in Emitters |-> <<>>]
    /\ before = [e \in Emitters |-> {}]
    /\ off = [e \in Emitters |-> {}]
-----------------------------------------------------------------------------
(* On, and the function it returns. *)

At(h, where) == spc' = [spc EXCEPT ![h] = where]

\* Pool.Lifecycle tests p.lifecycle, stores a new bus in it, and returns what
\* p.lifecycle is by then.
Looks(h) ==
    /\ spc[h] = "new"
    /\ At(h, IF bus = None THEN "make" ELSE "load")
    /\ UNCHANGED <<registry, mode, sbus, emitters, spawned, history>>
Makes(h) ==
    /\ spc[h] = "make"
    /\ made' = made + 1
    /\ bus' = made + 1
    /\ At(h, "load")
    /\ UNCHANGED <<all, typed, mode, sbus, emitters, spawned, history>>
Loads(h) ==
    /\ spc[h] = "load"
    /\ sbus' = [sbus EXCEPT ![h] = bus]
    /\ At(h, "on")
    /\ UNCHANGED <<registry, mode, emitters, spawned, history>>

On(h) ==
    /\ spc[h] = "on"
    /\ IF Wants[h] = {}
          THEN all' = [all EXCEPT ![sbus[h]] = Append(@, h)] /\ UNCHANGED typed
          ELSE /\ typed' = [typed EXCEPT ![sbus[h]] =
                               [t \in Types |-> IF t \in Wants[h] THEN Append(@[t], h) ELSE @[t]]]
               /\ UNCHANGED all
    /\ At(h, "subscribed")
    /\ UNCHANGED <<bus, made, mode, sbus, emitters, spawned, history>>

\* removeEntry: no two entries have the same id, so at most one goes.
Without(list, h) ==
    LET at == CHOOSE i \in DOMAIN list : list[i] = h
    IN  IF h \in Range(list)
           THEN SubSeq(list, 1, at - 1) \o SubSeq(list, at + 1, Len(list))
           ELSE list

\* off: on every list of the handler's bus.
BugTakenOff(h) ==
    /\ all' = [all EXCEPT ![sbus[h]] = Without(@, h)]
    /\ UNCHANGED typed
    /\ At(h, "off")
TakenOff(h) ==
    /\ all' = [all EXCEPT ![sbus[h]] = Without(@, h)]
    /\ typed' = [typed EXCEPT ![sbus[h]] = [t \in Types |-> Without(@[t], h)]]
    /\ At(h, "off")

Off(h) ==
    /\ spc[h] = "subscribed"
    /\ TakenOff(h)
    /\ UNCHANGED <<bus, made, mode, sbus, emitters, spawned, history>>

SetAsync ==
    /\ switches < MaxSwitches
    /\ switches' = switches + 1
    /\ async' = ~async
    /\ UNCHANGED <<registry, subscribers, emitters, spawned, history>>
-----------------------------------------------------------------------------
(* emit. *)

Listed(b, t) == all[b] \o typed[b][t]
Is(where) == {h \in Handlers : spc[h] = where}

\* Pool.emit: no bus, no event.
Begins(e) ==
    /\ epc[e] = "new"
    /\ ebus' = [ebus EXCEPT ![e] = bus]
    /\ epc' = [epc EXCEPT ![e] = IF bus = None THEN "done" ELSE "copy"]
    /\ before' = [before EXCEPT ![e] = Is("subscribed")]
    /\ off' = [off EXCEPT ![e] = Is("off")]
    /\ UNCHANGED <<registry, mode, subscribers, todo, spawned, calls>>

Copies(e) ==
    /\ epc[e] = "copy"
    /\ todo' = [todo EXCEPT ![e] = Listed(ebus[e], Emits[e])]
    /\ epc' = [epc EXCEPT ![e] = "calling"]
    /\ UNCHANGED <<registry, mode, subscribers, ebus, spawned, history>>

\* What is left to call once the first has been called.
BugRest(e) ==
    LET live == Listed(ebus[e], Emits[e])
        n    == Len(calls[e]) + Cardinality({c \in spawned : c[1] = e}) + 1
    IN  IF n >= Len(live) THEN <<>> ELSE SubSeq(live, n + 1, Len(live))
Rest(e) == Tail(todo[e])

\* A handler that panics is recovered, and the next is called all the same.
Called(e, h) ==
    /\ calls' = [calls EXCEPT ![e] = Append(@, h)]
    /\ IF h \in OneShots /\ spc[h] = "subscribed"
          THEN TakenOff(h) ELSE UNCHANGED <<all, typed, spc>>
    /\ UNCHANGED <<bus, made, sbus, before, off>>

Calls(e) ==
    /\ epc[e] = "calling" /\ todo[e] # <<>>
    /\ todo' = [todo EXCEPT ![e] = Rest(e)]
    /\ IF async
          THEN /\ spawned' = spawned \cup {<<e, Head(todo[e])>>}
               /\ UNCHANGED <<registry, subscribers, history>>
          ELSE Called(e, Head(todo[e])) /\ UNCHANGED spawned
    /\ UNCHANGED <<mode, epc, ebus>>

Runs(e, h) ==
    /\ <<e, h>> \in spawned
    /\ spawned' = spawned \ {<<e, h>>}
    /\ Called(e, h)
    /\ UNCHANGED <<mode, emitters>>

Returns(e) ==
    /\ epc[e] = "calling" /\ todo[e] = <<>>
    /\ epc' = [epc EXCEPT ![e] = "done"]
    /\ UNCHANGED <<registry, mode, subscribers, ebus, todo, spawned, history>>

Next ==
    \/ \E h \in Handlers : Looks(h) \/ Makes(h) \/ Loads(h) \/ On(h) \/ Off(h)
    \/ SetAsync
    \/ \E e \in Emitters : Begins(e) \/ Copies(e) \/ Calls(e) \/ Returns(e)
    \/ \E c \in spawned : Runs(c[1], c[2])

Spec == Init /\ [][Next]_vars
-----------------------------------------------------------------------------
TypeOK ==
    /\ bus \in Buses \cup {None} /\ made \in 0..Cardinality(Handlers)
    /\ all \in [Buses -> Seq(Handlers)]
    /\ typed \in [Buses -> [Types -> Seq(Handlers)]]
    /\ async \in BOOLEAN /\ switches \in 0..MaxSwitches
    /\ spc \in [Handlers -> {"new", "make", "load", "on", "subscribed", "off"}]
    /\ sbus \in [Handlers -> Buses \cup {None}]
    /\ epc \in [Emitters -> {"new", "copy", "calling", "done"}]
    /\ ebus \in [Emitters -> Buses \cup {None}]
    /\ todo \in [Emitters -> Seq(Handlers)] /\ calls \in [Emitters -> Seq(Handlers)]
    /\ spawned \subseteq Emitters \X Handlers
    /\ before \in [Emitters -> SUBSET Handlers] /\ off \in [Emitters -> SUBSET Handlers]

Over(e) == epc[e] = "done" /\ \A c \in spawned : c[1] # e
Asked(h, t) == Wants[h] = {} \/ t \in Wants[h]

\* A handler that was on before the event was emitted and has stayed on hears
\* of it, whoever comes, goes, or takes itself off in the middle.
ReachesAll ==
    \A e \in Emitters : Over(e) =>
        \A h \in before[e] : spc[h] = "subscribed" /\ Asked(h, Emits[e]) => h \in Range(calls[e])

\* The same as long as only one bus was made: two goroutines that ask a pool
\* for its bus at the same time may each make one, and what was subscribed to
\* the one that is overwritten hears of nothing.
Reaches == made <= 1 => ReachesAll

\* No emission calls a handler twice, one that does not want its type, or one
\* that was off before it began.
CallsOnce ==
    \A e \in Emitters :
        /\ IsInjective(calls[e])
        /\ \A h \in Range(calls[e]) : Asked(h, Emits[e]) /\ h \notin off[e]
=============================================================================
