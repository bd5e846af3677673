--------------------------- MODULE LifecycleProofs ---------------------------
(***************************************************************************)
(* Theorems about Lifecycle for every set of handlers, emitters and types, *)
(* whatever the handlers want and whichever take themselves off.           *)
(***************************************************************************)
EXTENDS Lifecycle, FiniteSetTheorems, SequenceTheorems, TLAPS
-----------------------------------------------------------------------------
(* Lists without repetitions. *)

\* Appending a new element to a list without repetitions.
LEMMA AppendToList ==
    ASSUME NEW S, NEW q \in Seq(S), NEW x \in S, IsInjective(q), x \notin Range(q)
    PROVE  /\ Append(q, x) \in Seq(S)
           /\ IsInjective(Append(q, x))
           /\ Range(Append(q, x)) = Range(q) \cup {x}
  <1> DEFINE r == Append(q, x)
  <1>1. /\ r \in Seq(S) /\ Len(r) = Len(q) + 1 /\ Len(q) \in Nat
        /\ \A i \in 1..Len(q) : r[i] = q[i]
        /\ r[Len(q) + 1] = x
        /\ DOMAIN r = 1..Len(q) + 1 /\ DOMAIN q = 1..Len(q)
    OBVIOUS
  <1> HIDE DEF r
  <1>2. \A i \in 1..Len(q) : q[i] # x
    BY <1>1 DEF Range
  <1>3. IsInjective(r)
    BY <1>1, <1>2 DEF IsInjective
  <1>4. Range(r) = Range(q) \cup {x}
    BY <1>1 DEF Range
  <1> QED
    BY <1>1, <1>3, <1>4 DEF r

\* Taking the head off a list without repetitions.
LEMMA TailOfList ==
    ASSUME NEW S, NEW q \in Seq(S), q # <<>>, IsInjective(q)
    PROVE  /\ Tail(q) \in Seq(S)
           /\ IsInjective(Tail(q))
           /\ Head(q) \in S
           /\ Head(q) \in Range(q)
           /\ Range(Tail(q)) = Range(q) \ {Head(q)}
  <1> DEFINE r == Tail(q)
  <1>1. /\ r \in Seq(S) /\ Len(r) = Len(q) - 1 /\ Len(q) \in Nat \ {0}
        /\ \A i \in 1..Len(q) - 1 : r[i] = q[i + 1]
        /\ DOMAIN r = 1..Len(q) - 1 /\ DOMAIN q = 1..Len(q)
        /\ Head(q) = q[1]
    OBVIOUS
  <1> HIDE DEF r
  <1>2. IsInjective(r)
    <2>1. ASSUME NEW a \in 1..Len(q) - 1, NEW b \in 1..Len(q) - 1, r[a] = r[b]
          PROVE  a = b
      <3>1. a + 1 \in 1..Len(q) /\ b + 1 \in 1..Len(q) /\ q[a + 1] = q[b + 1]
        BY <1>1, <2>1
      <3>2. a + 1 = b + 1
        BY <1>1, <3>1 DEF IsInjective
      <3> QED
        BY <3>2
    <2> QED
      BY <1>1, <2>1 DEF IsInjective
  <1>3. Head(q) \in S /\ Head(q) \in Range(q)
    BY <1>1 DEF Range
  <1>4. Range(r) \subseteq Range(q) \ {Head(q)}
    <2>1. ASSUME NEW i \in 1..Len(q) - 1
          PROVE  r[i] \in Range(q) /\ r[i] # Head(q)
      BY <1>1 DEF Range, IsInjective
    <2> QED
      BY <1>1, <2>1 DEF Range
  <1>5. Range(q) \ {Head(q)} \subseteq Range(r)
    <2>1. ASSUME NEW i \in 1..Len(q), q[i] # q[1]
          PROVE  q[i] \in Range(r)
      <3>1. i - 1 \in 1..Len(q) - 1 /\ r[i - 1] = q[i]
        BY <1>1, <2>1
      <3> QED
        BY <1>1, <3>1 DEF Range
    <2> QED
      BY <1>1, <2>1 DEF Range
  <1> QED
    BY <1>1, <1>2, <1>3, <1>4, <1>5 DEF r

\* The empty list.
LEMMA EmptyList ==
    ASSUME NEW S
    PROVE  <<>> \in Seq(S) /\ IsInjective(<<>>) /\ Range(<<>>) = {}
  BY DEF IsInjective, Range

\* One list after another that has nothing in common with it.
LEMMA JoinLists ==
    ASSUME NEW S, NEW p \in Seq(S), NEW q \in Seq(S), IsInjective(p), IsInjective(q),
           Range(p) \cap Range(q) = {}
    PROVE  /\ p \o q \in Seq(S)
           /\ IsInjective(p \o q)
           /\ Range(p \o q) = Range(p) \cup Range(q)
  <1> DEFINE r == p \o q
  <1>1. /\ r \in Seq(S) /\ Len(r) = Len(p) + Len(q)
        /\ \A i \in 1..Len(p) + Len(q) : r[i] = IF i <= Len(p) THEN p[i] ELSE q[i - Len(p)]
    BY ConcatProperties, Zenon
  <1>2. /\ Len(p) \in Nat /\ Len(q) \in Nat
        /\ DOMAIN p = 1..Len(p) /\ DOMAIN q = 1..Len(q)
    OBVIOUS
  <1> HIDE DEF r
  <1>3. DOMAIN r = 1..Len(p) + Len(q)
    BY <1>1
  <1>4. \A i \in 1..Len(p) : i \in DOMAIN r /\ r[i] = p[i]
    BY <1>1, <1>2, <1>3
  <1>5. ASSUME NEW i \in 1..Len(q)
        PROVE  Len(p) + i \in DOMAIN r /\ r[Len(p) + i] = q[i]
    <2>1. /\ Len(p) + i \in 1..Len(p) + Len(q) /\ ~(Len(p) + i <= Len(p))
          /\ (Len(p) + i) - Len(p) = i
      BY <1>2
    <2>2. r[Len(p) + i] = q[(Len(p) + i) - Len(p)]
      BY <1>1, <2>1
    <2> QED
      BY <1>3, <2>1, <2>2
  <1>6. ASSUME NEW i \in DOMAIN r
        PROVE  \/ i \in 1..Len(p) /\ r[i] = p[i]
               \/ i - Len(p) \in 1..Len(q) /\ r[i] = q[i - Len(p)]
    BY <1>1, <1>2, <1>3
  <1>7. \A i \in 1..Len(p), k \in 1..Len(q) : p[i] # q[k]
    BY <1>2 DEF Range
  <1>8. IsInjective(r)
    <2>1. ASSUME NEW i \in DOMAIN r, NEW k \in DOMAIN r, r[i] = r[k]
          PROVE  i = k
      <3>1. CASE i \in 1..Len(p) /\ r[i] = p[i] /\ k \in 1..Len(p) /\ r[k] = p[k]
        BY <1>2, <2>1, <3>1 DEF IsInjective
      <3>2. CASE /\ i - Len(p) \in 1..Len(q) /\ r[i] = q[i - Len(p)]
                 /\ k - Len(p) \in 1..Len(q) /\ r[k] = q[k - Len(p)]
        <4>1. i - Len(p) = k - Len(p)
          BY <1>2, <2>1, <3>2 DEF IsInjective
        <4> QED
          BY <1>2, <1>3, <4>1
      <3> QED
        BY <1>6, <1>7, <2>1, <3>1, <3>2
    <2> QED
      BY <2>1 DEF IsInjective
  <1>9. Range(r) = Range(p) \cup Range(q)
    <2>1. Range(r) \subseteq Range(p) \cup Range(q)
      BY <1>2, <1>6 DEF Range
    <2>2. Range(p) \subseteq Range(r)
      BY <1>2, <1>4 DEF Range
    <2>3. Range(q) \subseteq Range(r)
      BY <1>2, <1>5 DEF Range
    <2> QED
      BY <2>1, <2>2, <2>3
  <1> QED
    BY <1>1, <1>8, <1>9 DEF r

\* Taking the element at any place out of a list without repetitions.
LEMMA CutFromList ==
    ASSUME NEW S, NEW q \in Seq(S), IsInjective(q), NEW at \in DOMAIN q
    PROVE  LET r == SubSeq(q, 1, at - 1) \o SubSeq(q, at + 1, Len(q))
           IN  /\ r \in Seq(S)
               /\ IsInjective(r)
               /\ Range(r) = Range(q) \ {q[at]}
  <1> DEFINE front == SubSeq(q, 1, at - 1)
             back  == SubSeq(q, at + 1, Len(q))
             r     == front \o back
  <1>1. /\ Len(q) \in Nat /\ DOMAIN q = 1..Len(q) /\ at \in 1..Len(q)
        /\ \A i \in 1..Len(q) : q[i] \in S
    OBVIOUS
  <1>2. /\ front \in Seq(S) /\ Len(front) = at - 1
        /\ \A i \in 1..at - 1 : front[i] = q[i]
    <2>1. \A i \in 1..at - 1 : q[i] \in S
      BY <1>1
    <2>2. /\ front \in Seq(S)
          /\ Len(front) = IF 1 <= at - 1 THEN (at - 1) - 1 + 1 ELSE 0
          /\ \A i \in 1..(at - 1) - 1 + 1 : front[i] = q[1 + i - 1]
      BY <1>1, <2>1, SubSeqProperties
    <2> HIDE DEF front
    <2> QED
      BY <1>1, <2>2
  <1>3. /\ back \in Seq(S) /\ Len(back) = Len(q) - at
        /\ \A i \in 1..Len(q) - at : back[i] = q[at + i]
    <2>1. \A i \in at + 1..Len(q) : q[i] \in S
      BY <1>1
    <2>2. /\ back \in Seq(S)
          /\ Len(back) = IF at + 1 <= Len(q) THEN Len(q) - (at + 1) + 1 ELSE 0
          /\ \A i \in 1..Len(q) - (at + 1) + 1 : back[i] = q[at + 1 + i - 1]
      BY <1>1, <2>1, SubSeqProperties
    <2> HIDE DEF front, back
    <2>3. Len(q) - (at + 1) + 1 = Len(q) - at /\ Len(back) = Len(q) - at
      BY <1>1, <2>2
    <2>4. ASSUME NEW i \in 1..Len(q) - at PROVE back[i] = q[at + i]
      <3>1. back[i] = q[at + 1 + i - 1] /\ at + 1 + i - 1 = at + i
        BY <1>1, <2>2, <2>3
      <3> QED
        BY <3>1
    <2> QED
      BY <2>2, <2>3, <2>4
  <1> HIDE DEF front, back
  <1>4. /\ r \in Seq(S) /\ Len(r) = Len(q) - 1 /\ DOMAIN r = 1..Len(q) - 1
        /\ \A i \in 1..Len(q) - 1 : r[i] = IF i < at THEN q[i] ELSE q[i + 1]
    <2>1. /\ r \in Seq(S) /\ Len(r) = (at - 1) + (Len(q) - at)
          /\ \A i \in 1..(at - 1) + (Len(q) - at) :
                 r[i] = IF i <= at - 1 THEN front[i] ELSE back[i - (at - 1)]
      <3>1. /\ r \in Seq(S) /\ Len(r) = Len(front) + Len(back)
            /\ \A i \in 1..Len(front) + Len(back) :
                   r[i] = IF i <= Len(front) THEN front[i] ELSE back[i - Len(front)]
        BY <1>2, <1>3, ConcatProperties, Zenon
      <3> HIDE DEF r
      <3> QED
        BY <1>2, <1>3, <3>1
    <2> HIDE DEF r
    <2>2. ASSUME NEW i \in 1..Len(q) - 1
          PROVE  r[i] = IF i < at THEN q[i] ELSE q[i + 1]
      <3>1. CASE i < at
        BY <1>1, <1>2, <2>1, <3>1
      <3>2. CASE ~(i < at)
        <4>1. i - (at - 1) \in 1..Len(q) - at /\ ~(i <= at - 1) /\ at + (i - (at - 1)) = i + 1
          BY <1>1, <3>2
        <4>2. r[i] = back[i - (at - 1)]
          BY <1>1, <2>1, <4>1
        <4> QED
          BY <1>3, <3>2, <4>1, <4>2
      <3> QED
        BY <3>1, <3>2
    <2> QED
      BY <1>1, <2>1, <2>2
  <1> HIDE DEF r
  <1>5. IsInjective(r)
    <2>1. ASSUME NEW i \in 1..Len(q) - 1, NEW k \in 1..Len(q) - 1, r[i] = r[k]
          PROVE  i = k
      <3> DEFINE place(n) == IF n < at THEN n ELSE n + 1
      <3>1. place(i) \in 1..Len(q) /\ place(k) \in 1..Len(q) /\ q[place(i)] = q[place(k)]
        BY <1>1, <1>4, <2>1
      <3>2. place(i) = place(k)
        BY <1>1, <3>1 DEF IsInjective
      <3> QED
        BY <1>1, <3>2
    <2> QED
      BY <1>4, <2>1 DEF IsInjective
  <1>6. Range(r) \subseteq Range(q) \ {q[at]}
    <2>1. ASSUME NEW i \in 1..Len(q) - 1
          PROVE  \E k \in 1..Len(q) : k # at /\ r[i] = q[k]
      <3>1. CASE i < at
        BY <1>1, <1>4, <3>1
      <3>2. CASE ~(i < at)
        <4>1. i + 1 \in 1..Len(q) /\ i + 1 # at /\ r[i] = q[i + 1]
          BY <1>1, <1>4, <3>2
        <4> QED
          BY <4>1
      <3> QED
        BY <3>1, <3>2
    <2>2. ASSUME NEW x \in Range(r)
          PROVE  x \in Range(q) /\ x # q[at]
      <3>1. PICK i \in 1..Len(q) - 1 : x = r[i]
        BY <1>4 DEF Range
      <3>2. PICK k \in 1..Len(q) : k # at /\ x = q[k]
        BY <2>1, <3>1
      <3> QED
        BY <1>1, <3>2 DEF Range, IsInjective
    <2> QED
      BY <2>2
  <1>7. Range(q) \ {q[at]} \subseteq Range(r)
    <2>1. ASSUME NEW k \in 1..Len(q), k # at
          PROVE  \E i \in 1..Len(q) - 1 : r[i] = q[k]
      <3>1. CASE k < at
        BY <1>1, <1>4, <3>1
      <3>2. CASE k > at
        <4>1. k - 1 \in 1..Len(q) - 1 /\ ~(k - 1 < at)
          BY <1>1, <3>2
        <4>2. r[k - 1] = q[(k - 1) + 1]
          BY <1>4, <4>1
        <4> QED
          BY <1>1, <4>1, <4>2
      <3> QED
        BY <1>1, <2>1, <3>1, <3>2
    <2>2. \A i \in 1..Len(q) - 1 : r[i] \in Range(r)
      BY <1>4 DEF Range
    <2>3. \A x \in Range(q) : \E k \in 1..Len(q) : x = q[k]
      BY <1>1 DEF Range
    <2> QED
      BY <1>1, <2>1, <2>2, <2>3
  <1> QED
    BY <1>4, <1>5, <1>6, <1>7 DEF r, front, back


\* The handlers whose entries a bus holds: in the list of every event, and in
\* the list of a type.
OnAll(b) == {h \in Handlers : spc[h] = "subscribed" /\ sbus[h] = b /\ Wants[h] = {}}
OnType(b, t) == {h \in Handlers : spc[h] = "subscribed" /\ sbus[h] = b /\ t \in Wants[h]}

\* A bus holds the entries of its subscribers, each once in a list.
Entries ==
    \A b \in Buses :
        /\ IsInjective(all[b]) /\ Range(all[b]) = OnAll(b)
        /\ \A t \in Types : IsInjective(typed[b][t]) /\ Range(typed[b][t]) = OnType(b, t)

\* The subscribers that may still make a bus; the last bus made is the pool's.
Undecided == {h \in Handlers : spc[h] \in {"new", "make"}}
Counted ==
    /\ bus = made
    /\ made + Cardinality(Undecided) <= Cardinality(Handlers)
    /\ \A h \in Handlers : spc[h] = "load" => made > 0
    /\ \A h \in Handlers : spc[h] \in {"on", "subscribed", "off"} => sbus[h] \in 1..made

\* The handlers that emission e has still to call, and all it is about.
Due(e) == Range(todo[e])
Started(e) == {h \in Handlers : <<e, h>> \in spawned}
Done(e) == Range(calls[e])

\* Each handler is in one of the three at most, ...
Once(e) ==
    /\ IsInjective(todo[e]) /\ IsInjective(calls[e])
    /\ Due(e) \cap Started(e) = {} /\ Due(e) \cap Done(e) = {} /\ Started(e) \cap Done(e) = {}

\* ... none but those it was meant for, ...
Meant(e) ==
    /\ before[e] \subseteq Is("subscribed") \cup Is("off") /\ off[e] \subseteq Is("off")
    /\ \A h \in Due(e) \cup Started(e) \cup Done(e) : Asked(h, Emits[e]) /\ h \notin off[e]

\* ... and as long as there is one bus, all of those.
Covers(e) ==
    made <= 1 /\ epc[e] \in {"calling", "done"} =>
        \A h \in before[e] : spc[h] = "subscribed" /\ Asked(h, Emits[e])
                                => h \in Due(e) \cup Started(e) \cup Done(e)

Course(e) ==
    /\ epc[e] \in {"new", "copy"} => todo[e] = <<>> /\ calls[e] = <<>> /\ Started(e) = {}
    /\ epc[e] = "copy" => ebus[e] \in 1..made
    /\ epc[e] = "done" => todo[e] = <<>>

Emission(e) == Course(e) /\ Once(e) /\ Meant(e) /\ Covers(e)
Emissions == \A e \in Emitters : Emission(e)

LifecycleInv == TypeOK /\ Counted /\ Entries /\ Emissions

\* The types of what On and off touch, and of the rest.
RegistryTypes ==
    /\ bus \in Buses \cup {None} /\ made \in 0..Cardinality(Handlers)
    /\ all \in [Buses -> Seq(Handlers)]
    /\ typed \in [Buses -> [Types -> Seq(Handlers)]]
    /\ spc \in [Handlers -> {"new", "make", "load", "on", "subscribed", "off"}]
    /\ sbus \in [Handlers -> Buses \cup {None}]
EmissionTypes ==
    /\ async \in BOOLEAN /\ switches \in 0..MaxSwitches
    /\ epc \in [Emitters -> {"new", "copy", "calling", "done"}]
    /\ ebus \in [Emitters -> Buses \cup {None}]
    /\ todo \in [Emitters -> Seq(Handlers)] /\ calls \in [Emitters -> Seq(Handlers)]
    /\ spawned \subseteq Emitters \X Handlers
    /\ before \in [Emitters -> SUBSET Handlers] /\ off \in [Emitters -> SUBSET Handlers]
Registry == RegistryTypes /\ Counted /\ Entries

LEMMA InvParts == LifecycleInv <=> Registry /\ EmissionTypes /\ Emissions
  BY DEF LifecycleInv, TypeOK, Registry, RegistryTypes, EmissionTypes

\* How a subscriber goes on, whoever takes the step.
Onward ==
    /\ made <= made'
    /\ \A h \in Handlers : spc[h] = "off" => spc'[h] = "off"
    /\ \A h \in Handlers : spc[h] = "subscribed" => spc'[h] \in {"subscribed", "off"}
    /\ \A h \in Handlers : spc'[h] = "subscribed" => spc[h] \in {"subscribed", "on"}

LEMMA HandlersFinite ==
    /\ Cardinality(Handlers) \in Nat
    /\ IsFiniteSet(Undecided) /\ Cardinality(Undecided) \in Nat
  BY LifecycleAssumption, FS_Subset, FS_CardinalityType DEF LifecycleAssumption, Undecided
-----------------------------------------------------------------------------
(* The registry. *)

\* removeEntry on a list that holds an entry once at most.
LEMMA WithoutEntry ==
    ASSUME NEW S, NEW list \in Seq(S), IsInjective(list), NEW h
    PROVE  /\ Without(list, h) \in Seq(S)
           /\ IsInjective(Without(list, h))
           /\ Range(Without(list, h)) = Range(list) \ {h}
  <1>1. CASE h \notin Range(list)
    BY <1>1 DEF Without
  <1>2. CASE h \in Range(list)
    <2> DEFINE at == CHOOSE i \in DOMAIN list : list[i] = h
    <2>1. \E i \in DOMAIN list : list[i] = h
      BY <1>2 DEF Range
    <2>2. at \in DOMAIN list /\ list[at] = h
      BY <2>1
    <2>3. Without(list, h) = SubSeq(list, 1, at - 1) \o SubSeq(list, at + 1, Len(list))
      BY <1>2 DEF Without
    <2> HIDE DEF at
    <2> QED
      BY <2>2, <2>3, CutFromList
  <1> QED
    BY <1>1, <1>2

\* A handler that is taken off leaves all the lists of its bus, and no other.
LEMMA RegistryTakenOff ==
    ASSUME Registry, NEW h \in Handlers, spc[h] = "subscribed", TakenOff(h),
           UNCHANGED <<bus, made, sbus>>
    PROVE  Registry' /\ Onward
  <1> USE DEF Registry, RegistryTypes
  <1> DEFINE b == sbus[h]
  <1>1. b \in Buses /\ spc' = [spc EXCEPT ![h] = "off"]
    BY HandlersFinite DEF Counted, Buses, TakenOff, At
  <1>2. /\ all' = [all EXCEPT ![b] = Without(all[b], h)]
        /\ typed' = [typed EXCEPT ![b] = [t \in Types |-> Without(typed[b][t], h)]]
    BY DEF TakenOff
  <1>3. /\ Without(all[b], h) \in Seq(Handlers) /\ IsInjective(Without(all[b], h))
        /\ Range(Without(all[b], h)) = Range(all[b]) \ {h}
    BY <1>1, WithoutEntry DEF Entries
  <1>4. ASSUME NEW t \in Types
        PROVE  /\ Without(typed[b][t], h) \in Seq(Handlers) /\ IsInjective(Without(typed[b][t], h))
               /\ Range(Without(typed[b][t], h)) = Range(typed[b][t]) \ {h}
    BY <1>1, WithoutEntry DEF Entries
  <1>5. RegistryTypes'
    BY <1>1, <1>2, <1>3, <1>4
  <1>6. Counted'
    <2>1. Undecided' = Undecided
      BY <1>1 DEF Undecided
    <2> QED
      BY <1>1, <2>1 DEF Counted
  <1>7. ASSUME NEW c \in Buses
        PROVE  /\ IsInjective(all'[c]) /\ Range(all'[c]) = OnAll(c)'
               /\ \A t \in Types : IsInjective(typed'[c][t]) /\ Range(typed'[c][t]) = OnType(c, t)'
    <2>1. CASE c = b
      <3>1. OnAll(c)' = OnAll(c) \ {h} /\ \A t \in Types : OnType(c, t)' = OnType(c, t) \ {h}
        BY <1>1 DEF OnAll, OnType
      <3>2. all'[c] = Without(all[b], h) /\ \A t \in Types : typed'[c][t] = Without(typed[b][t], h)
        BY <1>1, <1>2, <2>1
      <3> QED
        BY <1>3, <1>4, <2>1, <3>1, <3>2 DEF Entries
    <2>2. CASE c # b
      <3>1. OnAll(c)' = OnAll(c) /\ \A t \in Types : OnType(c, t)' = OnType(c, t)
        BY <1>1, <2>2 DEF OnAll, OnType
      <3>2. all'[c] = all[c] /\ typed'[c] = typed[c]
        BY <1>1, <1>2, <2>2
      <3> QED
        BY <3>1, <3>2 DEF Entries
    <2> QED
      BY <2>1, <2>2
  <1>8. Onward
    BY <1>1 DEF Onward
  <1> QED
    BY <1>5, <1>6, <1>7, <1>8 DEF Entries

\* A handler that is put on enters the list of every event, or those of its types.
LEMMA RegistryOn ==
    ASSUME Registry, NEW h \in Handlers, On(h)
    PROVE  Registry' /\ Onward
  <1> USE DEF Registry, RegistryTypes
  <1> DEFINE b == sbus[h]
  <1>1. /\ b \in Buses /\ spc[h] = "on" /\ spc' = [spc EXCEPT ![h] = "subscribed"]
        /\ UNCHANGED <<bus, made, sbus>>
    BY HandlersFinite DEF Counted, Buses, On, At
  <1>2. /\ h \notin Range(all[b])
        /\ \A t \in Types : h \notin Range(typed[b][t])
    BY <1>1 DEF Entries, OnAll, OnType
  <1>3. /\ Append(all[b], h) \in Seq(Handlers) /\ IsInjective(Append(all[b], h))
        /\ Range(Append(all[b], h)) = Range(all[b]) \cup {h}
    BY <1>1, <1>2, AppendToList DEF Entries
  <1>4. ASSUME NEW t \in Types
        PROVE  /\ Append(typed[b][t], h) \in Seq(Handlers) /\ IsInjective(Append(typed[b][t], h))
               /\ Range(Append(typed[b][t], h)) = Range(typed[b][t]) \cup {h}
    BY <1>1, <1>2, AppendToList DEF Entries
  <1>5. Counted'
    <2>1. Undecided' = Undecided
      BY <1>1 DEF Undecided
    <2> QED
      BY <1>1, <2>1 DEF Counted
  <1>6. Onward
    BY <1>1 DEF Onward
  <1>7. CASE Wants[h] = {}
    <2>1. all' = [all EXCEPT ![b] = Append(all[b], h)] /\ typed' = typed
      BY <1>7 DEF On
    <2>2. RegistryTypes'
      BY <1>1, <1>3, <2>1
    <2>3. /\ OnAll(b)' = OnAll(b) \cup {h}
          /\ \A c \in Buses \ {b} : OnAll(c)' = OnAll(c)
          /\ \A c \in Buses, t \in Types : OnType(c, t)' = OnType(c, t)
      BY <1>1, <1>7 DEF OnAll, OnType
    <2>4. all'[b] = Append(all[b], h) /\ \A c \in Buses \ {b} : all'[c] = all[c]
      BY <1>1, <2>1
    <2>5. ASSUME NEW c \in Buses
          PROVE  IsInjective(all'[c]) /\ Range(all'[c]) = OnAll(c)'
      <3>1. CASE c = b
        BY <1>1, <1>3, <2>3, <2>4, <3>1 DEF Entries
      <3>2. CASE c # b
        BY <2>3, <2>4, <3>2 DEF Entries
      <3> QED
        BY <3>1, <3>2
    <2>6. ASSUME NEW c \in Buses, NEW t \in Types
          PROVE  IsInjective(typed'[c][t]) /\ Range(typed'[c][t]) = OnType(c, t)'
      BY <2>1, <2>3 DEF Entries
    <2> QED
      BY <1>5, <1>6, <2>2, <2>5, <2>6 DEF Entries
  <1>8. CASE Wants[h] # {}
    <2> DEFINE lists == [t \in Types |-> IF t \in Wants[h] THEN Append(typed[b][t], h) ELSE typed[b][t]]
    <2>1. typed' = [typed EXCEPT ![b] = lists] /\ all' = all
      BY <1>8 DEF On
    <2>2. RegistryTypes'
      BY <1>1, <1>4, <2>1
    <2>3. /\ \A c \in Buses : OnAll(c)' = OnAll(c)
          /\ \A c \in Buses \ {b}, t \in Types : OnType(c, t)' = OnType(c, t)
          /\ \A t \in Types : OnType(b, t)' = IF t \in Wants[h] THEN OnType(b, t) \cup {h} ELSE OnType(b, t)
      BY <1>1, <1>8 DEF OnAll, OnType
    <2>4. typed'[b] = lists /\ \A c \in Buses \ {b} : typed'[c] = typed[c]
      BY <1>1, <2>1
    <2>5. ASSUME NEW t \in Types
          PROVE  IsInjective(typed'[b][t]) /\ Range(typed'[b][t]) = OnType(b, t)'
      <3>0. typed'[b][t] = IF t \in Wants[h] THEN Append(typed[b][t], h) ELSE typed[b][t]
        BY <2>4
      <3>1. IsInjective(typed[b][t]) /\ Range(typed[b][t]) = OnType(b, t)
        BY <1>1 DEF Entries
      <3>2. CASE t \in Wants[h]
        BY <1>4, <2>3, <3>0, <3>1, <3>2
      <3>3. CASE t \notin Wants[h]
        BY <2>3, <3>0, <3>1, <3>3
      <3> QED
        BY <3>2, <3>3
    <2>6. ASSUME NEW c \in Buses, NEW t \in Types
          PROVE  IsInjective(typed'[c][t]) /\ Range(typed'[c][t]) = OnType(c, t)'
      <3>1. CASE c = b
        BY <1>1, <2>5, <3>1 DEF OnType
      <3>2. CASE c # b
        BY <2>3, <2>4, <3>2 DEF Entries
      <3> QED
        BY <3>1, <3>2
    <2>7. ASSUME NEW c \in Buses
          PROVE  IsInjective(all'[c]) /\ Range(all'[c]) = OnAll(c)'
      BY <2>1, <2>3 DEF Entries
    <2> QED
      BY <1>5, <1>6, <2>2, <2>6, <2>7 DEF Entries
  <1> QED
    BY <1>7, <1>8

\* The way of a subscriber to a bus.
LEMMA RegistryLooks ==
    ASSUME Registry, NEW h \in Handlers, Looks(h) \/ Makes(h) \/ Loads(h)
    PROVE  Registry' /\ Onward
  <1> USE DEF Registry, RegistryTypes
  <1>1. /\ UNCHANGED <<all, typed>> /\ spc[h] \in {"new", "make", "load"}
        /\ spc'[h] \in {"make", "load", "on"}
        /\ \E pc \in {"make", "load", "on"} : spc' = [spc EXCEPT ![h] = pc]
        /\ \A g \in Handlers \ {h} : spc'[g] = spc[g] /\ sbus'[g] = sbus[g]
    BY DEF Looks, Makes, Loads, At, registry
  <1>2. Entries'
    <2>1. \A c \in Buses : OnAll(c)' = OnAll(c) /\ \A t \in Types : OnType(c, t)' = OnType(c, t)
      BY <1>1 DEF OnAll, OnType
    <2> QED
      BY <1>1, <2>1 DEF Entries
  <1>3. Counted' /\ made <= made'
    <2>1. CASE Looks(h)
      <3>1. Undecided' \subseteq Undecided
        BY <1>1, <2>1 DEF Undecided, Looks
      <3>2. Cardinality(Undecided') <= Cardinality(Undecided) /\ Cardinality(Undecided') \in Nat
        BY <3>1, HandlersFinite, FS_Subset, FS_CardinalityType
      <3> QED
        BY <2>1, <3>2, HandlersFinite DEF Looks, Counted, At, registry, None, Buses
    <2>2. CASE Makes(h)
      <3>1. Undecided' = Undecided \ {h} /\ h \in Undecided
        BY <1>1, <2>2 DEF Undecided, Makes, At
      <3>2. Cardinality(Undecided') = Cardinality(Undecided) - 1
        BY <3>1, HandlersFinite, FS_RemoveElement
      <3> QED
        BY <2>2, <3>2, HandlersFinite DEF Makes, Counted, At
    <2>3. CASE Loads(h)
      <3>1. Undecided' = Undecided /\ sbus' = [sbus EXCEPT ![h] = bus] /\ UNCHANGED <<bus, made>>
        BY <1>1, <2>3 DEF Undecided, Loads, At, registry
      <3> QED
        BY <2>3, <3>1, HandlersFinite DEF Loads, Counted, At
    <2> QED
      BY <2>1, <2>2, <2>3
  <1>4. RegistryTypes'
    <2>1. made' \in 0..Cardinality(Handlers) /\ bus' = made'
      <3>1. Cardinality(Undecided') \in Nat
        BY LifecycleAssumption, FS_Subset, FS_CardinalityType DEF LifecycleAssumption, Undecided
      <3> QED
        BY <1>3, <3>1, HandlersFinite DEF Counted, Looks, Makes, Loads, registry
    <2>2. sbus' \in [Handlers -> Buses \cup {None}]
      BY DEF Looks, Makes, Loads
    <2>3. bus' \in Buses \cup {None}
      BY <2>1, HandlersFinite DEF Buses, None
    <2> QED
      BY <1>1, <2>1, <2>2, <2>3
  <1>5. Onward
    BY <1>1, <1>3 DEF Onward
  <1> QED
    BY <1>2, <1>3, <1>4, <1>5

\* Steps that do not touch the registry.
LEMMA RegistryIdle ==
    ASSUME Registry, UNCHANGED <<registry, subscribers>>
    PROVE  Registry' /\ Onward
  <1> USE DEF Registry, RegistryTypes, registry, subscribers
  <1>1. Undecided' = Undecided
    BY DEF Undecided
  <1>2. \A c \in Buses : OnAll(c)' = OnAll(c) /\ \A t \in Types : OnType(c, t)' = OnType(c, t)
    BY DEF OnAll, OnType
  <1>3. made <= made'
    BY HandlersFinite
  <1> QED
    BY <1>1, <1>2, <1>3 DEF Counted, Entries, Onward
-----------------------------------------------------------------------------
(* The emissions. *)

\* Of an emission that calls, what matters is that none is called twice and
\* none forgotten; what the subscribers do meanwhile changes nothing in that.
LEMMA EmissionGoesOn ==
    ASSUME Registry, Registry', EmissionTypes, Emissions, Onward, NEW e \in Emitters,
           epc'[e] = epc[e], before'[e] = before[e], off'[e] = off[e],
           (Due(e) \cup Started(e) \cup Done(e))' = Due(e) \cup Started(e) \cup Done(e),
           Course(e)', Once(e)'
    PROVE  Emission(e)'
  <1>1. Emission(e)
    BY DEF Emissions
  <1>2. Meant(e)'
    BY <1>1 DEF Emission, Meant, Is, Onward, Asked, EmissionTypes
  <1>3. Covers(e)'
    <2>1. ASSUME NEW h \in before[e], spc'[h] = "subscribed"
          PROVE  spc[h] = "subscribed"
      <3>1. h \in Handlers /\ spc[h] \in {"subscribed", "off"}
        BY <1>1 DEF Emission, Meant, Is
      <3> QED
        BY <2>1, <3>1 DEF Onward
    <2>2. made' <= 1 => made <= 1
      BY HandlersFinite DEF Onward, Registry, RegistryTypes
    <2> QED
      BY <1>1, <2>1, <2>2 DEF Emission, Covers, Asked
  <1> QED
    BY <1>2, <1>3 DEF Emission

\* An emission that takes no step.
LEMMA Bystander ==
    ASSUME Registry, Registry', EmissionTypes, Emissions, Onward, NEW e \in Emitters,
           epc'[e] = epc[e], ebus'[e] = ebus[e], todo'[e] = todo[e], calls'[e] = calls[e],
           Started(e)' = Started(e), before'[e] = before[e], off'[e] = off[e]
    PROVE  Emission(e)'
  <1>1. Course(e) /\ Once(e)
    BY DEF Emissions, Emission
  <1>2. Due(e)' = Due(e) /\ Done(e)' = Done(e)
    BY DEF Due, Done
  <1>3. made <= made' /\ made \in Nat /\ made' \in Nat
    BY HandlersFinite DEF Onward, Registry, RegistryTypes
  <1>4. Course(e)'
    BY <1>1, <1>3 DEF Course
  <1>5. Once(e)'
    BY <1>1, <1>2 DEF Once
  <1> QED
    BY <1>2, <1>4, <1>5, EmissionGoesOn

LEMMA EmissionsIdle ==
    ASSUME Registry, Registry', EmissionTypes, Emissions, Onward,
           UNCHANGED <<emitters, spawned, history>>
    PROVE  Emissions'
  <1>1. ASSUME NEW e \in Emitters
        PROVE  Emission(e)'
    <2>1. Started(e)' = Started(e)
      BY DEF Started
    <2> QED
      BY <2>1, Bystander DEF emitters, history
  <1> QED
    BY <1>1 DEF Emissions

LEMMA EmissionBegins ==
    ASSUME Registry, EmissionTypes, Emissions, NEW e \in Emitters, Begins(e)
    PROVE  Registry' /\ EmissionTypes' /\ Emissions'
  <1>1. Registry' /\ Onward
    BY RegistryIdle DEF Begins
  <1>2. UNCHANGED <<bus, made, spc, sbus, todo, spawned, calls>> /\ epc[e] = "new"
    BY DEF Begins, registry, subscribers
  <1>3. /\ epc'[e] = IF bus = None THEN "done" ELSE "copy"
        /\ ebus'[e] = bus /\ before'[e] = Is("subscribed") /\ off'[e] = Is("off")
    BY DEF Begins, EmissionTypes
  <1>4. todo[e] = <<>> /\ calls[e] = <<>> /\ Started(e) = {}
    BY <1>2 DEF Emissions, Emission, Course
  <1>5. Due(e)' = {} /\ Done(e)' = {} /\ Started(e)' = {}
    BY <1>2, <1>4, EmptyList DEF Due, Done, Started
  <1>6. Course(e)'
    BY <1>2, <1>3, <1>4, <1>5, HandlersFinite
    DEF Course, Registry, RegistryTypes, Counted, None, Buses
  <1>7. Once(e)'
    BY <1>2, <1>4, <1>5, EmptyList DEF Once
  <1>8. Meant(e)'
    BY <1>2, <1>3, <1>5 DEF Meant, Is
  <1>9. Covers(e)'
    <2>1. bus = None => \A h \in Handlers : spc[h] # "subscribed"
      BY DEF Registry, Counted, None
    <2> QED
      BY <1>2, <1>3, <2>1 DEF Covers, Is
  <1>10. ASSUME NEW d \in Emitters \ {e}
         PROVE  Emission(d)'
    <2>1. /\ epc'[d] = epc[d] /\ ebus'[d] = ebus[d] /\ before'[d] = before[d] /\ off'[d] = off[d]
          /\ Started(d)' = Started(d)
      BY <1>2 DEF Begins, EmissionTypes, Started
    <2> QED
      BY <1>1, <1>2, <2>1, Bystander
  <1>11. EmissionTypes'
    <2>1. Is("subscribed") \subseteq Handlers /\ Is("off") \subseteq Handlers
      BY DEF Is
    <2> QED
      BY <1>2, <2>1 DEF Begins, EmissionTypes, mode, Registry, RegistryTypes
  <1> QED
    BY <1>1, <1>6, <1>7, <1>8, <1>9, <1>10, <1>11 DEF Emissions, Emission

\* The copy of the lists that an emission works through.
LEMMA EmissionCopies ==
    ASSUME Registry, EmissionTypes, Emissions, NEW e \in Emitters, Copies(e)
    PROVE  Registry' /\ EmissionTypes' /\ Emissions'
  <1> DEFINE b == ebus[e]
             t == Emits[e]
  <1>1. Registry' /\ Onward
    BY RegistryIdle DEF Copies
  <1>2. /\ UNCHANGED <<made, spc, sbus, spawned, calls, before, off, ebus>> /\ epc[e] = "copy"
        /\ epc'[e] = "calling" /\ todo'[e] = Listed(b, t)
    BY DEF Copies, registry, subscribers, history, EmissionTypes
  <1>3. Emission(e) /\ calls[e] = <<>> /\ Started(e) = {} /\ b \in 1..made /\ t \in Types
    BY <1>2, LifecycleAssumption DEF Emissions, Emission, Course, LifecycleAssumption
  <1>4. b \in Buses
    BY <1>3, HandlersFinite DEF Registry, RegistryTypes, Buses
  <1>5. /\ all[b] \in Seq(Handlers) /\ IsInjective(all[b]) /\ Range(all[b]) = OnAll(b)
        /\ typed[b][t] \in Seq(Handlers) /\ IsInjective(typed[b][t])
        /\ Range(typed[b][t]) = OnType(b, t)
    BY <1>3, <1>4 DEF Registry, RegistryTypes, Entries
  <1>6. /\ Listed(b, t) \in Seq(Handlers) /\ IsInjective(Listed(b, t))
        /\ Range(Listed(b, t)) = OnAll(b) \cup OnType(b, t)
    <2>1. OnAll(b) \cap OnType(b, t) = {}
      BY DEF OnAll, OnType
    <2> QED
      BY <1>5, <2>1, JoinLists DEF Listed
  <1>7. Due(e)' = OnAll(b) \cup OnType(b, t) /\ Done(e)' = {} /\ Started(e)' = {}
    BY <1>2, <1>3, <1>6, EmptyList DEF Due, Done, Started
  <1>8. Course(e)' /\ Once(e)'
    BY <1>2, <1>3, <1>6, <1>7, EmptyList DEF Course, Once
  <1>9. Meant(e)'
    BY <1>2, <1>3, <1>7 DEF Emission, Meant, Is, OnAll, OnType, Asked
  <1>10. Covers(e)'
    <2>1. ASSUME made <= 1, NEW h \in before[e], spc[h] = "subscribed", Asked(h, t)
          PROVE  h \in OnAll(b) \cup OnType(b, t)
      <3>1. h \in Handlers
        BY DEF EmissionTypes
      <3>2. sbus[h] = b
        <4>1. sbus[h] \in 1..made /\ made \in Nat
          BY <2>1, <3>1, HandlersFinite DEF Registry, RegistryTypes, Counted
        <4> QED
          BY <1>3, <2>1, <4>1
      <3> QED
        BY <2>1, <3>1, <3>2 DEF Asked, OnAll, OnType
    <2> QED
      BY <1>2, <1>7, <2>1 DEF Covers, Asked
  <1>11. ASSUME NEW d \in Emitters \ {e}
         PROVE  Emission(d)'
    <2>1. epc'[d] = epc[d] /\ todo'[d] = todo[d] /\ Started(d)' = Started(d)
      BY <1>2 DEF Copies, EmissionTypes, Started
    <2> QED
      BY <1>1, <1>2, <2>1, Bystander
  <1>12. EmissionTypes'
    BY <1>2, <1>6 DEF Copies, EmissionTypes, mode
  <1> QED
    BY <1>1, <1>8, <1>9, <1>10, <1>11, <1>12 DEF Emissions, Emission

\* A call of a handler, which may take it off.
LEMMA RegistryCalled ==
    ASSUME Registry, NEW e \in Emitters, NEW h \in Handlers, Called(e, h)
    PROVE  Registry' /\ Onward
  <1>1. CASE h \in OneShots /\ spc[h] = "subscribed"
    BY <1>1, RegistryTakenOff DEF Called
  <1>2. CASE ~(h \in OneShots /\ spc[h] = "subscribed")
    BY <1>2, RegistryIdle DEF Called, registry, subscribers
  <1> QED
    BY <1>1, <1>2

\* The next handler is called, or started on a goroutine of its own.
LEMMA EmissionCalls ==
    ASSUME Registry, EmissionTypes, Emissions, NEW e \in Emitters, Calls(e)
    PROVE  Registry' /\ EmissionTypes' /\ Emissions'
  <1> DEFINE h == Head(todo[e])
  <1>1. /\ epc[e] = "calling" /\ todo[e] # <<>> /\ todo' = [todo EXCEPT ![e] = Tail(todo[e])]
        /\ UNCHANGED <<async, switches, epc, ebus, before, off>>
    BY DEF Calls, Rest, mode, history, Called
  <1>2. Emission(e) /\ Once(e) /\ todo[e] \in Seq(Handlers) /\ calls[e] \in Seq(Handlers)
    BY DEF Emissions, Emission, EmissionTypes
  <1>3. /\ Tail(todo[e]) \in Seq(Handlers) /\ IsInjective(Tail(todo[e])) /\ h \in Handlers
        /\ h \in Due(e) /\ Range(Tail(todo[e])) = Due(e) \ {h}
    BY <1>1, <1>2, TailOfList DEF Due, Once
  <1>4. h \notin Started(e) /\ h \notin Done(e)
    BY <1>2, <1>3 DEF Once
  <1>5. todo'[e] = Tail(todo[e]) /\ Due(e)' = Due(e) \ {h}
    BY <1>1, <1>3 DEF Due, EmissionTypes
  <1> HIDE DEF h
  <1>6. CASE async
    <2>1. spawned' = spawned \cup {<<e, h>>} /\ calls' = calls /\ UNCHANGED <<registry, subscribers>>
      BY <1>6 DEF Calls, history, h
    <2>2. Registry' /\ Onward
      BY <2>1, RegistryIdle
    <2>3. Started(e)' = Started(e) \cup {h} /\ Done(e)' = Done(e)
      BY <1>3, <2>1 DEF Started, Done
    <2>4. Course(e)' /\ Once(e)'
      BY <1>1, <1>2, <1>3, <1>4, <1>5, <2>1, <2>3 DEF Course, Once
    <2>5. Emission(e)'
      BY <1>1, <1>3, <1>5, <2>2, <2>3, <2>4, EmissionGoesOn
    <2>6. ASSUME NEW d \in Emitters \ {e}
          PROVE  Emission(d)'
      <3>1. todo'[d] = todo[d] /\ Started(d)' = Started(d)
        BY <1>1, <2>1 DEF EmissionTypes, Started
      <3> QED
        BY <1>1, <2>1, <2>2, <3>1, Bystander
    <2>7. EmissionTypes'
      BY <1>1, <1>3, <2>1 DEF EmissionTypes
    <2> QED
      BY <2>2, <2>5, <2>6, <2>7 DEF Emissions
  <1>7. CASE ~async
    <2>1. Called(e, h) /\ calls' = [calls EXCEPT ![e] = Append(calls[e], h)] /\ spawned' = spawned
      BY <1>7 DEF Calls, Called, h
    <2>2. Registry' /\ Onward
      BY <1>3, <2>1, RegistryCalled
    <2>3. /\ Append(calls[e], h) \in Seq(Handlers) /\ IsInjective(Append(calls[e], h))
          /\ Range(Append(calls[e], h)) = Done(e) \cup {h}
      BY <1>2, <1>3, <1>4, AppendToList DEF Done, Once
    <2>4. /\ Started(e)' = Started(e) /\ Done(e)' = Done(e) \cup {h}
          /\ calls'[e] = Append(calls[e], h)
      BY <2>1, <2>3 DEF Started, Done, EmissionTypes
    <2>5. Course(e)' /\ Once(e)'
      BY <1>1, <1>2, <1>3, <1>4, <1>5, <2>3, <2>4 DEF Course, Once
    <2>6. Emission(e)'
      BY <1>1, <1>3, <1>5, <2>2, <2>4, <2>5, EmissionGoesOn
    <2>7. ASSUME NEW d \in Emitters \ {e}
          PROVE  Emission(d)'
      <3>1. todo'[d] = todo[d] /\ calls'[d] = calls[d] /\ Started(d)' = Started(d)
        BY <1>1, <2>1 DEF EmissionTypes, Started
      <3> QED
        BY <1>1, <2>2, <3>1, Bystander
    <2>8. EmissionTypes'
      BY <1>1, <1>3, <2>1, <2>3 DEF EmissionTypes
    <2> QED
      BY <2>2, <2>6, <2>7, <2>8 DEF Emissions
  <1> QED
    BY <1>6, <1>7

\* A handler runs on its own goroutine.
LEMMA EmissionRuns ==
    ASSUME Registry, EmissionTypes, Emissions, NEW c \in spawned, Runs(c[1], c[2])
    PROVE  Registry' /\ EmissionTypes' /\ Emissions'
  <1> DEFINE e == c[1]
             h == c[2]
  <1>1. e \in Emitters /\ h \in Handlers /\ c = <<e, h>>
    BY DEF EmissionTypes
  <1> HIDE DEF e, h
  <1>2. /\ Called(e, h) /\ spawned' = spawned \ {<<e, h>>}
        /\ calls' = [calls EXCEPT ![e] = Append(calls[e], h)]
        /\ UNCHANGED <<async, switches, epc, ebus, todo, before, off>>
    BY DEF Runs, Called, mode, emitters, e, h
  <1>3. Once(e) /\ Course(e) /\ calls[e] \in Seq(Handlers) /\ h \in Started(e)
    BY <1>1 DEF Emissions, Emission, EmissionTypes, Started
  <1>4. Registry' /\ Onward
    BY <1>1, <1>2, RegistryCalled
  <1>5. /\ Append(calls[e], h) \in Seq(Handlers) /\ IsInjective(Append(calls[e], h))
        /\ Range(Append(calls[e], h)) = Done(e) \cup {h}
    BY <1>1, <1>3, AppendToList DEF Done, Once
  <1>6. /\ Due(e)' = Due(e) /\ Started(e)' = Started(e) \ {h} /\ Done(e)' = Done(e) \cup {h}
        /\ calls'[e] = Append(calls[e], h)
    BY <1>1, <1>2, <1>5 DEF Due, Started, Done, EmissionTypes
  <1>7. Course(e)'
    BY <1>2, <1>3, <1>6 DEF Course
  <1>8. Once(e)'
    BY <1>2, <1>3, <1>5, <1>6 DEF Once
  <1>9. Emission(e)'
    BY <1>1, <1>2, <1>3, <1>4, <1>6, <1>7, <1>8, EmissionGoesOn
  <1>10. ASSUME NEW d \in Emitters \ {e}
         PROVE  Emission(d)'
    <2>1. calls'[d] = calls[d] /\ Started(d)' = Started(d)
      BY <1>2 DEF EmissionTypes, Started
    <2> QED
      BY <1>2, <1>4, <2>1, Bystander
  <1>11. EmissionTypes'
    BY <1>1, <1>2, <1>5 DEF EmissionTypes
  <1> QED
    BY <1>4, <1>9, <1>10, <1>11 DEF Emissions

LEMMA EmissionReturns ==
    ASSUME Registry, EmissionTypes, Emissions, NEW e \in Emitters, Returns(e)
    PROVE  Registry' /\ EmissionTypes' /\ Emissions'
  <1>1. Registry' /\ Onward
    BY RegistryIdle DEF Returns
  <1>2. /\ epc[e] = "calling" /\ todo[e] = <<>> /\ epc'[e] = "done"
        /\ UNCHANGED <<made, spc, ebus, todo, spawned, calls, before, off>>
    BY DEF Returns, registry, subscribers, history, EmissionTypes
  <1>3. Due(e)' = Due(e) /\ Started(e)' = Started(e) /\ Done(e)' = Done(e)
    BY <1>2 DEF Due, Started, Done
  <1>4. Emission(e)'
    BY <1>2, <1>3 DEF Emissions, Emission, Course, Once, Meant, Covers, Is, Asked
  <1>5. ASSUME NEW d \in Emitters \ {e}
        PROVE  Emission(d)'
    <2>1. epc'[d] = epc[d] /\ Started(d)' = Started(d)
      BY <1>2 DEF Returns, EmissionTypes, Started
    <2> QED
      BY <1>1, <1>2, <2>1, Bystander
  <1>6. EmissionTypes'
    BY DEF Returns, EmissionTypes, mode, history
  <1> QED
    BY <1>1, <1>4, <1>5, <1>6 DEF Emissions

LEMMA LifecycleStep == LifecycleInv /\ [Next]_vars => LifecycleInv'
  <1> SUFFICES ASSUME Registry, EmissionTypes, Emissions, [Next]_vars
               PROVE  Registry' /\ EmissionTypes' /\ Emissions'
    BY InvParts DEF LifecycleInv, TypeOK, Registry, RegistryTypes, EmissionTypes
  <1>1. ASSUME Registry', Onward, UNCHANGED <<mode, emitters, spawned, history>>
        PROVE  Registry' /\ EmissionTypes' /\ Emissions'
    BY <1>1, EmissionsIdle DEF EmissionTypes, mode, emitters, history
  <1>2. CASE UNCHANGED vars
    BY <1>1, <1>2, RegistryIdle DEF vars
  <1>3. ASSUME NEW h \in Handlers, Looks(h) \/ Makes(h) \/ Loads(h)
        PROVE  Registry' /\ EmissionTypes' /\ Emissions'
    BY <1>1, <1>3, RegistryLooks DEF Looks, Makes, Loads
  <1>4. ASSUME NEW h \in Handlers, On(h)
        PROVE  Registry' /\ EmissionTypes' /\ Emissions'
    BY <1>1, <1>4, RegistryOn DEF On
  <1>5. ASSUME NEW h \in Handlers, Off(h)
        PROVE  Registry' /\ EmissionTypes' /\ Emissions'
    BY <1>1, <1>5, RegistryTakenOff DEF Off
  <1>6. CASE SetAsync
    <2>1. Registry' /\ Onward
      BY <1>6, RegistryIdle DEF SetAsync
    <2>2. EmissionTypes'
      BY <1>6, LifecycleAssumption
      DEF SetAsync, EmissionTypes, emitters, history, LifecycleAssumption
    <2> QED
      BY <1>6, <2>1, <2>2, EmissionsIdle DEF SetAsync
  <1> QED
    BY <1>2, <1>3, <1>4, <1>5, <1>6, EmissionBegins, EmissionCopies, EmissionCalls, EmissionReturns,
       EmissionRuns DEF Next

LEMMA LifecycleStart == Init => LifecycleInv
  <1> SUFFICES ASSUME Init
               PROVE  LifecycleInv
    OBVIOUS
  <1>1. TypeOK
    BY LifecycleAssumption, HandlersFinite DEF Init, TypeOK, LifecycleAssumption
  <1>2. Counted
    <2>1. Undecided = Handlers
      BY DEF Init, Undecided
    <2> QED
      BY <2>1, HandlersFinite DEF Init, Counted, None
  <1>3. Entries
    BY EmptyList DEF Init, Entries, OnAll, OnType
  <1>4. ASSUME NEW e \in Emitters
        PROVE  Emission(e)
    BY EmptyList DEF Init, Emission, Course, Once, Meant, Covers, Due, Started, Done
  <1> QED
    BY <1>1, <1>2, <1>3, <1>4 DEF LifecycleInv, Emissions

LEMMA LifecycleHolds == Spec => []LifecycleInv
  BY LifecycleStart, LifecycleStep, PTL DEF Spec

\* No event is lost on a handler that was on before the event and has stayed
\* on, unless a second bus was made meanwhile: what is subscribed, taken off or
\* switched to goroutines in the middle of an emission does not disturb it.
THEOREM EventsReach == Spec => []Reaches
  <1>1. LifecycleInv => Reaches
    <2> SUFFICES ASSUME LifecycleInv, made <= 1, NEW e \in Emitters, Over(e),
                        NEW h \in before[e], spc[h] = "subscribed", Asked(h, Emits[e])
                 PROVE  h \in Range(calls[e])
      BY DEF Reaches, ReachesAll
    <2>1. Covers(e) /\ Course(e)
      BY DEF LifecycleInv, Emissions, Emission
    <2>2. Started(e) = {}
      BY DEF Over, Started
    <2>3. Due(e) = {}
      BY <2>1, EmptyList DEF Over, Course, Due
    <2> QED
      BY <2>1, <2>2, <2>3 DEF Covers, Over, Done
  <1> QED
    BY <1>1, LifecycleHolds, PTL

\* No emission calls a handler twice, one that did not ask for the event or one
\* that had been taken off before the event.
THEOREM HandlersCalledOnce == Spec => []CallsOnce
  <1>1. LifecycleInv => CallsOnce
    BY DEF LifecycleInv, Emissions, Emission, Once, Meant, CallsOnce, Done
  <1> QED
    BY <1>1, LifecycleHolds, PTL

\* Type correctness; a pool makes no more buses than goroutines ask for one.
THEOREM LifecycleTypes == Spec => []TypeOK
  BY LifecycleHolds, PTL DEF LifecycleInv
=============================================================================
