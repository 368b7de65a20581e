------------------------ MODULE FakeClientsetProofs ------------------------
(***************************************************************************)
(* Proofs about FakeClientset, for any names, values, variables, contents  *)
(* and number of unhandled events.                                         *)
(***************************************************************************)
EXTENDS FakeClientset, FiniteSetTheorems, TLAPS

---------------------------------------------------------------------------
(* Objects in memory that was made for one owner x.                        *)

Kinds    == {VSD, DD}
Contains == Values \cup {NoValue}

Entries(kind, x) ==
  [at : {Nowhere} \cup (IF kind = VSD THEN {x} \X Nat ELSE {}), value : Contains]

Slices(kind, x) ==
  {s \in [array : {x, Nowhere}, elems : Seq(Entries(kind, x))] :
     s.array = Nowhere => s.elems = << >>}

Objects(kind, x) == [kind : {kind}, name : Names, ref : Slices(kind, x)]

LEMMA OwnersDiffer ==
  /\ \A n, v : Tracked(n) # Var(v)
  /\ \A j, v : Event(j) # Var(v)
  /\ \A v, w : v # w => Var(w) # Var(v)
  /\ \A n : Tracked(n) # Nowhere
  /\ \A j : Event(j) # Nowhere
  /\ \A v : Var(v) # Nowhere
BY DEF Tracked, Var, Event, Nowhere

\* The entries of a slice hold values, whatever they are.
LEMMA EntryIs ==
  ASSUME NEW kind, NEW x, NEW e \in Seq(Entries(kind, x)), NEW i \in DOMAIN e
  PROVE  /\ i \in 1..Len(e)
         /\ e[i] \in Entries(kind, x)
         /\ e[i].value \in Contains
         /\ e[i] = [at |-> e[i].at, value |-> e[i].value]
         /\ e[i].at = Nowhere \/ (kind = VSD /\ e[i].at \in {x} \X Nat)
<1>1. i \in 1..Len(e) /\ e[i] \in Entries(kind, x)
  OBVIOUS
<1> DEFINE A == {Nowhere} \cup (IF kind = VSD THEN {x} \X Nat ELSE {})
<1>2. \A t \in A : t = Nowhere \/ (kind = VSD /\ t \in {x} \X Nat)
  OBVIOUS
<1>3. e[i] \in [at : A, value : Contains]
  BY <1>1 DEF Entries
<1> HIDE DEF A
<1>4. /\ e[i].value \in Contains /\ e[i].at \in A
      /\ e[i] = [at |-> e[i].at, value |-> e[i].value]
  BY <1>3
<1> QED
  BY <1>1, <1>2, <1>4

LEMMA ObjectIs ==
  ASSUME NEW kind \in Kinds, NEW x, NEW o \in Objects(kind, x)
  PROVE  /\ o # Nothing
         /\ o.kind = kind /\ o.name \in Names /\ o.ref \in Slices(kind, x)
         /\ o.ref.array \in {x, Nowhere}
         /\ o.ref.elems \in Seq(Entries(kind, x))
         /\ Owns(x, o)
         /\ Content(o.ref) \in Seq(Contains)
         /\ Reads(o) = {Content(o.ref)}
<1>1. /\ o.kind = kind /\ o.name \in Names /\ o.ref \in Slices(kind, x)
      /\ o.ref.array \in {x, Nowhere} /\ o.ref.elems \in Seq(Entries(kind, x))
  BY DEF Objects, Slices
<1>2. o # Nothing
  BY <1>1 DEF Nothing, Object, Kinds, VSD, DD
<1>3. \A i \in DOMAIN o.ref.elems : o.ref.elems[i].value \in Contains
  BY <1>1, EntryIs
<1>4. Content(o.ref) \in Seq(Contains)
  <2> DEFINE e == o.ref.elems
             c == [i \in 1..Len(e) |-> e[i].value]
  <2>1. DOMAIN e = 1..Len(e) /\ Len(e) \in Nat
    BY <1>1
  <2>2. Content(o.ref) = c
    BY <2>1 DEF Content
  <2>3. c \in [1..Len(e) -> Contains]
    BY <1>3, <2>1
  <2> HIDE DEF c, e
  <2> QED
    BY <2>1, <2>2, <2>3
<1> QED
  BY <1>1, <1>2, <1>4 DEF Owns, Reads

\* A copy for owner x lies in memory of x and reads as the original does.
LEMMA CopyIs ==
  ASSUME NEW kind \in Kinds, NEW y, NEW o \in Objects(kind, y),
         NEW x, x # Nowhere
  PROVE  /\ CopyObject(o, x) \in Objects(kind, x)
         /\ CopyObject(o, x).name = o.name
         /\ Reads(CopyObject(o, x)) = Reads(o)
<1> DEFINE s == o.ref
           e == s.elems
<1>1. /\ o = [kind |-> kind, name |-> o.name, ref |-> s] /\ o.name \in Names
      /\ s = [array |-> s.array, elems |-> e]
      /\ s.array \in {y, Nowhere} /\ e \in Seq(Entries(kind, y))
      /\ s.array = Nowhere => e = << >>
  BY DEF Objects, Slices
<1>2. DOMAIN e = 1..Len(e) /\ Len(e) \in Nat
  BY <1>1
<1>3. ASSUME NEW r \in Slices(kind, x), Content(r) = Content(s),
             CopyObject(o, x) = [o EXCEPT !.ref = r]
      PROVE  /\ CopyObject(o, x) \in Objects(kind, x)
             /\ CopyObject(o, x).name = o.name
             /\ Reads(CopyObject(o, x)) = Reads(o)
  <2>1. [o EXCEPT !.ref = r] = [kind |-> kind, name |-> o.name, ref |-> r]
    BY <1>1
  <2>2. CopyObject(o, x) \in Objects(kind, x)
    BY <1>1, <1>3, <2>1 DEF Objects
  <2>3. CopyObject(o, x).ref = r /\ CopyObject(o, x).name = o.name
    BY <1>3, <2>1
  <2>4. Reads(o) = {Content(s)}
    BY ObjectIs
  <2>5. Reads(CopyObject(o, x)) = {Content(CopyObject(o, x).ref)}
    BY <2>2, ObjectIs
  <2> QED
    BY <1>3, <2>2, <2>3, <2>4, <2>5
<1>4. Nil \in Slices(kind, x)
  BY DEF Nil, Slices
<1>5. CASE s = Nil
  <2>1. CopyObject(o, x) = [o EXCEPT !.ref = Nil]
    BY <1>1, <1>5 DEF CopyObject, CopyDelta, CopyStatus, CopyDriverDiscovery, CopyLabels
  <2> QED
    BY <1>3, <1>4, <1>5, <2>1
<1>6. CASE s # Nil /\ kind = VSD
  <2> DEFINE f == [i \in 1..Len(e) |-> IF e[i] = NilPointer THEN NilPointer
                                                           ELSE CopyEntry(e[i], x, i)]
             r == [array |-> x, elems |-> f]
  <2>1. CopyObject(o, x) = [o EXCEPT !.ref = r]
    BY <1>1, <1>2, <1>6 DEF CopyObject, CopyDelta, CopyStatus
  <2>2. ASSUME NEW i \in 1..Len(e)
        PROVE  f[i] \in Entries(kind, x) /\ f[i].value = e[i].value
    <3>1. e[i].value \in Contains
      BY <1>1, <1>2, <2>2, EntryIs
    <3>2. CASE e[i] = NilPointer
      BY <3>2 DEF NilPointer, Entries, Contains
    <3>3. CASE e[i] # NilPointer
      <4>1. f[i] = [at |-> <<x, i>>, value |-> e[i].value]
        BY <3>3 DEF CopyEntry, Pointer
      <4>2. <<x, i>> \in {x} \X Nat
        BY <1>2
      <4> HIDE DEF f
      <4> QED
        BY <1>6, <3>1, <4>1, <4>2 DEF Entries
    <3> QED
      BY <3>2, <3>3
  <2>3. DOMAIN f = 1..Len(e) /\ f \in Seq(Entries(kind, x))
    <3>1. f \in [1..Len(e) -> Entries(kind, x)]
      BY <2>2
    <3> HIDE DEF f
    <3> QED
      BY <1>2, <3>1
  <2>4. Content(r) = Content(s)
    <3> HIDE DEF f
    <3> QED
      BY <1>2, <2>2, <2>3 DEF Content
  <2>5. r \in Slices(kind, x)
    <3> HIDE DEF f
    <3> QED
      BY <2>3 DEF Slices
  <2> HIDE DEF r
  <2> QED
    BY <1>3, <2>1, <2>4, <2>5
<1>7. CASE s # Nil /\ kind = DD
  <2> DEFINE r == [array |-> x, elems |-> e]
  <2>1. CopyObject(o, x) = [o EXCEPT !.ref = r]
    BY <1>1, <1>7 DEF CopyObject, CopyDriverDiscovery, CopyLabels, VSD, DD
  <2>2. Entries(kind, x) = Entries(kind, y)
    BY <1>7 DEF Entries, VSD, DD
  <2>3. r \in Slices(kind, x) /\ Content(r) = Content(s)
    BY <1>1, <2>2 DEF Slices, Content
  <2> HIDE DEF r
  <2> QED
    BY <1>3, <2>1, <2>3
<1> QED
  BY <1>5, <1>6, <1>7 DEF Kinds

\* What is made for x is its.
LEMMA MakeIs ==
  ASSUME NEW kind \in Kinds, NEW x, x # Nowhere, NEW n \in Names,
         NEW c \in Seq(Contains)
  PROVE  /\ Object(kind, n, Make(kind, x, c)) \in Objects(kind, x)
         /\ Object(kind, n, Nil) \in Objects(kind, x)
<1> DEFINE f == [i \in 1..Len(c) |->
                   IF kind = VSD /\ c[i] # NoValue
                     THEN Pointer(x, i, c[i])
                     ELSE [NilPointer EXCEPT !.value = c[i]]]
<1>1. Make(kind, x, c) = [array |-> x, elems |-> f]
  <2>1. DOMAIN c = 1..Len(c)
    OBVIOUS
  <2> QED
    BY <2>1 DEF Make
<1>2. ASSUME NEW i \in 1..Len(c) PROVE f[i] \in Entries(kind, x)
  <2>1. c[i] \in Contains
    OBVIOUS
  <2>2. <<x, i>> \in {x} \X Nat
    OBVIOUS
  <2>3. CASE kind = VSD /\ c[i] # NoValue
    BY <2>1, <2>2, <2>3 DEF Pointer, Entries
  <2>4. CASE ~(kind = VSD /\ c[i] # NoValue)
    <3>1. f[i] = [at |-> Nowhere, value |-> c[i]]
      BY <2>4 DEF NilPointer
    <3> HIDE DEF f
    <3> QED
      BY <2>1, <3>1 DEF Entries
  <2> QED
    BY <2>3, <2>4
<1>3. f \in Seq(Entries(kind, x))
  <2>1. f \in [1..Len(c) -> Entries(kind, x)] /\ Len(c) \in Nat
    BY <1>2
  <2> HIDE DEF f
  <2> QED
    BY <2>1
<1> HIDE DEF f
<1>4. Make(kind, x, c) \in Slices(kind, x) /\ Nil \in Slices(kind, x)
  BY <1>1, <1>3 DEF Slices, Nil
<1> QED
  BY <1>4 DEF Object, Objects

\* A write through a pointer to memory of y, at <<y, j>> or to the array y,
\* keeps the objects made for y what they are, and changes no other.
LEMMA WriteEntryIs ==
  ASSUME NEW kind \in Kinds, NEW y, NEW o \in Objects(kind, y),
         NEW z, NEW e \in {z} \X Nat, NEW x \in Contains
  PROVE  /\ WriteEntry(o, e, x) \in Objects(kind, y)
         /\ z # y => WriteEntry(o, e, x) = o
<1> DEFINE s == o.ref
           d == s.elems
           f == [i \in 1..Len(d) |-> IF d[i].at = e THEN [at |-> e, value |-> x] ELSE d[i]]
           r == [array |-> s.array, elems |-> f]
<1>1. /\ o = [kind |-> kind, name |-> o.name, ref |-> s] /\ o.name \in Names
      /\ s = [array |-> s.array, elems |-> d]
      /\ s.array \in {y, Nowhere} /\ d \in Seq(Entries(kind, y))
      /\ s.array = Nowhere => d = << >>
  BY DEF Objects, Slices
<1>2. DOMAIN d = 1..Len(d) /\ Len(d) \in Nat
  BY <1>1
<1>3. WriteEntry(o, e, x) = [kind |-> kind, name |-> o.name, ref |-> r]
  <2>1. WriteEntry(o, e, x)
          = [o EXCEPT !.ref =
               [array |-> s.array,
                elems |-> [i \in DOMAIN d |->
                             IF d[i].at = e THEN [at |-> e, value |-> x] ELSE d[i]]]]
    BY Zenon DEF WriteEntry
  <2>2. WriteEntry(o, e, x) = [o EXCEPT !.ref = r]
    BY <1>2, <2>1, Zenon
  <2> HIDE DEF r
  <2> QED
    BY <1>1, <2>2
<1>4. ASSUME NEW i \in 1..Len(d)
      PROVE  f[i] \in Entries(kind, y) /\ (z # y => f[i] = d[i])
  <2>1. /\ d[i] \in Entries(kind, y)
        /\ d[i].at = Nowhere \/ (kind = VSD /\ d[i].at \in {y} \X Nat)
    BY <1>1, <1>2, <1>4, EntryIs
  <2>2. CASE d[i].at = e
    <3>1. e # Nowhere
      <4>1. PICK k \in Nat : e = <<z, k>>
        OBVIOUS
      <4> QED
        BY <4>1 DEF Nowhere
    <3>2. kind = VSD /\ e \in {y} \X Nat /\ z = y
      BY <2>1, <2>2, <3>1
    <3>3. [at |-> e, value |-> x] \in Entries(kind, y)
      BY <3>2 DEF Entries
    <3> QED
      BY <2>2, <3>2, <3>3
  <2>3. CASE d[i].at # e
    BY <2>1, <2>3
  <2> QED
    BY <2>2, <2>3
<1>5. f \in [1..Len(d) -> Entries(kind, y)]
  <2> HIDE DEF d
  <2> QED
    BY <1>4
<1>6. z # y => f = d
  <2>1. d = [i \in 1..Len(d) |-> d[i]]
    BY <1>1
  <2>2. \A i \in 1..Len(d) : z # y => f[i] = d[i]
    BY <1>4
  <2>3. f = [i \in 1..Len(d) |-> f[i]]
    OBVIOUS
  <2> HIDE DEF d, f
  <2> QED
    BY <2>1, <2>2, <2>3
<1>7. f \in Seq(Entries(kind, y)) /\ DOMAIN f = 1..Len(d)
  <2> HIDE DEF f
  <2> QED
    BY <1>2, <1>5
<1>8. d = << >> => f = << >>
  BY <1>2
<1> HIDE DEF f
<1>9. r \in Slices(kind, y)
  BY <1>1, <1>7, <1>8 DEF Slices
<1> QED
  BY <1>1, <1>3, <1>6, <1>9 DEF Objects

LEMMA WriteElementIs ==
  ASSUME NEW kind \in Kinds, NEW y, NEW o \in Objects(kind, y),
         NEW z, z # Nowhere, NEW i, NEW x \in Contains
  PROVE  /\ WriteElement(o, z, i, x) \in Objects(kind, y)
         /\ z # y => WriteElement(o, z, i, x) = o
<1> DEFINE d == o.ref.elems
           t == [at |-> Nowhere, value |-> x]
           f == [d EXCEPT ![i] = t]
           r == [array |-> z, elems |-> f]
<1>1. /\ o = [kind |-> kind, name |-> o.name, ref |-> o.ref] /\ o.name \in Names
      /\ o.ref.array \in {y, Nowhere} /\ d \in Seq(Entries(kind, y))
  BY DEF Objects, Slices
<1>2. CASE o.ref.array # z
  BY <1>2 DEF WriteElement
<1>3. CASE o.ref.array = z
  <2>1. z = y
    BY <1>1, <1>3
  <2>2. [NilPointer EXCEPT !.value = x] = t
    BY DEF NilPointer
  <2>3. WriteElement(o, z, i, x) = [kind |-> kind, name |-> o.name, ref |-> r]
    BY <1>1, <1>3, <2>2 DEF WriteElement
  <2>4. t \in Entries(kind, y)
    BY DEF Entries
  <2>5. d \in [1..Len(d) -> Entries(kind, y)] /\ Len(d) \in Nat
    BY <1>1
  <2>6. f \in [1..Len(d) -> Entries(kind, y)]
    <3> HIDE DEF d, t
    <3> QED
      BY <2>4, <2>5
  <2>7. f \in Seq(Entries(kind, y))
    <3> HIDE DEF f
    <3> QED
      BY <2>5, <2>6
  <2> HIDE DEF f
  <2>8. r \in Slices(kind, y)
    BY <2>1, <2>7 DEF Slices
  <2> QED
    BY <1>1, <2>1, <2>3, <2>8 DEF Objects
<1> QED
  BY <1>2, <1>3

\* And no pointer leads from the place of no object to anything.
LEMMA WriteNothing ==
  ASSUME NEW x, NEW z, z # Nowhere, NEW i, NEW e, e # Nowhere
  PROVE  WriteEntry(Nothing, e, x) = Nothing /\ WriteElement(Nothing, z, i, x) = Nothing
<1> DEFINE f == [k \in DOMAIN << >> |-> IF << >>[k].at = e THEN [at |-> e, value |-> x]
                                                           ELSE << >>[k]]
<1>1. Nothing = [kind |-> "none", name |-> 0, ref |-> [array |-> Nowhere, elems |-> << >>]]
  BY DEF Nothing, Object, Nil
<1>2. f = << >>
  OBVIOUS
<1>3. WriteEntry(Nothing, e, x)
        = [kind |-> "none", name |-> 0, ref |-> [array |-> Nowhere, elems |-> f]]
  BY <1>1 DEF WriteEntry
<1>4. WriteElement(Nothing, z, i, x) = Nothing
  BY <1>1 DEF WriteElement
<1> HIDE DEF f
<1> QED
  BY <1>1, <1>2, <1>3, <1>4

---------------------------------------------------------------------------
(* The inductive invariant: every object lies in memory made for the one   *)
(* that has it, and nobody has been told of less than there is to tell.    *)

Stored(kind, n)  == {Nothing} \cup {o \in Objects(kind, Tracked(n)) : o.name = n}
Pointed(kind, v) == {Nothing} \cup Objects(kind, Var(v))
Messages(kind) ==
  UNION {[no : {j}, type : Types, obj : Objects(kind, Event(j))] : j \in 1..MaxEvents}

TrackerFits ==
  /\ tracker = [n \in Names |-> tracker[n]]
  /\ \A n \in Names : tracker[n] \in Stored(resource, n)

HeldFits ==
  /\ held = [v \in Variables |-> held[v]]
  /\ \A v \in Variables : held[v] \in Pointed(resource, v)

ChannelFits ==
  /\ watching \in BOOLEAN
  /\ events \in Seq(Messages(resource))
  /\ Len(events) <= MaxEvents
  /\ ~watching => events = << >>
  /\ replica \in [Names -> SUBSET Seq(Contains)]

IInv ==
  /\ resource \in Kinds
  /\ TrackerFits
  /\ HeldFits
  /\ ChannelFits
  /\ WatchTellsAll

---------------------------------------------------------------------------
(* What follows from the invariant about what is stored, held or sent.     *)

LEMMA StoredIs ==
  ASSUME IInv, NEW n \in Names, tracker[n] # Nothing
  PROVE  tracker[n] \in Objects(resource, Tracked(n)) /\ tracker[n].name = n
BY DEF IInv, TrackerFits, Stored

LEMMA HeldIs ==
  ASSUME IInv, NEW v \in Variables, held[v] # Nothing
  PROVE  held[v] \in Objects(resource, Var(v))
BY DEF IInv, HeldFits, Pointed

LEMMA MessageIs ==
  ASSUME NEW kind, NEW e \in Messages(kind)
  PROVE  /\ e.no \in 1..MaxEvents
         /\ e.type \in Types
         /\ e.obj \in Objects(kind, Event(e.no))
         /\ e.obj.name \in Names
         /\ e = [no |-> e.no, type |-> e.type, obj |-> e.obj]
<1>1. PICK j \in 1..MaxEvents : e \in [no : {j}, type : Types, obj : Objects(kind, Event(j))]
  BY DEF Messages
<1>2. e.no = j /\ e.obj \in Objects(kind, Event(j)) /\ e.type \in Types
  BY <1>1
<1>3. e.obj.name \in Names
  BY <1>2 DEF Objects
<1> QED
  BY <1>1, <1>2, <1>3

\* There is a number for one more event, as long as there is room for one.
LEMMA FreeNoIs ==
  ASSUME IInv, Len(events) < MaxEvents
  PROVE  FreeNo \in 1..MaxEvents
<1> DEFINE S == 1..MaxEvents
           T == 1..Len(events)
           free(j) == \A i \in DOMAIN events : events[i].no # j
<1>1. MaxEvents \in Nat /\ Len(events) \in Nat /\ DOMAIN events = T
  BY MaxEventsAssumption DEF IInv, ChannelFits
<1>2. \E j \in S : free(j)
  <2> SUFFICES ASSUME \A j \in S : ~free(j) PROVE FALSE
    OBVIOUS
  <2> DEFINE f == [j \in S |-> CHOOSE i \in T : events[i].no = j]
  <2>1. \A j \in S : f[j] \in T /\ events[f[j]].no = j
    BY <1>1
  <2>2. f \in [S -> T]
    BY <2>1
  <2>3. IsFiniteSet(S) /\ IsFiniteSet(T) /\ Cardinality(T) < Cardinality(S)
    <3>1. /\ IsFiniteSet(S)
          /\ Cardinality(S) = IF 1 > MaxEvents THEN 0 ELSE MaxEvents - 1 + 1
      BY <1>1, FS_Interval
    <3>2. /\ IsFiniteSet(T)
          /\ Cardinality(T) = IF 1 > Len(events) THEN 0 ELSE Len(events) - 1 + 1
      <4> DEFINE l == Len(events)
      <4>1. l \in Int /\ 1 \in Int
        BY <1>1
      <4> HIDE DEF l
      <4>2. IsFiniteSet(1..l) /\ Cardinality(1..l) = IF 1 > l THEN 0 ELSE l - 1 + 1
        BY <4>1, FS_Interval
      <4> QED
        BY <4>2 DEF l
    <3> QED
      BY <1>1, <3>1, <3>2
  <2> HIDE DEF f, S, T
  <2>4. \E j, k \in S : j # k /\ f[j] = f[k]
    BY <2>2, <2>3, FS_PigeonHole
  <2> QED
    BY <2>1, <2>4
<1> QED
  BY <1>2, Zenon DEF FreeNo

---------------------------------------------------------------------------
(* The steps, by what they change.                                         *)

\* A test's variable is assigned an object, or none.
LEMMA Assigned ==
  ASSUME IInv, resource' = resource, NEW v \in Variables, NEW o,
         o \in Pointed(resource, v), held' = [held EXCEPT ![v] = o]
  PROVE  HeldFits'
BY DEF IInv, HeldFits

\* Nothing but the test's variables is changed.
LEMMA OnlyHeld ==
  ASSUME IInv, UNCHANGED <<resource, tracker, watching, events, replica>>, HeldFits'
  PROVE  IInv'
BY DEF IInv, TrackerFits, ChannelFits, WatchTellsAll

\* What the test has been told, and the last event, after one more.
LEMMA OneMore ==
  ASSUME IInv, NEW m \in Names, NEW e \in Messages(resource), e.obj.name = m,
         UNCHANGED <<resource, watching, replica>>,
         events' = IF watching THEN Append(events, e) ELSE events,
         \A n \in Names \ {m} : tracker'[n] = tracker[n],
         Shows(e) = Reads(tracker'[m])
  PROVE  WatchTellsAll'
<1> SUFFICES ASSUME watching, NEW n \in Names
             PROVE  LET told == {i \in DOMAIN events' : events'[i].obj.name = n} IN
                      /\ told = {} => replica[n] = Reads(tracker'[n])
                      /\ \A i \in told : (\A j \in told : j <= i) =>
                                            Shows(events'[i]) = Reads(tracker'[n])
  BY DEF WatchTellsAll
<1> DEFINE before == {i \in DOMAIN events : events[i].obj.name = n}
           told   == {i \in DOMAIN events' : events'[i].obj.name = n}
<1>1. events' = Append(events, e)
  OBVIOUS
<1>2. /\ events \in Seq(Messages(resource)) /\ Len(events) \in Nat
      /\ DOMAIN events = 1..Len(events)
      /\ DOMAIN events' = 1..(Len(events) + 1)
      /\ \A i \in 1..Len(events) : events'[i] = events[i]
      /\ events'[Len(events) + 1] = e
  BY <1>1 DEF IInv, ChannelFits
<1>3. /\ before = {} => replica[n] = Reads(tracker[n])
      /\ \A i \in before : (\A j \in before : j <= i) => Shows(events[i]) = Reads(tracker[n])
  BY DEF IInv, WatchTellsAll
<1>4. CASE n = m
  <2>1. Len(events) + 1 \in told /\ \A i \in told : i <= Len(events) + 1
    BY <1>2, <1>4
  <2> HIDE DEF told
  <2>2. \A i \in told : (\A j \in told : j <= i) => i = Len(events) + 1
    <3>1. \A i \in told : i \in Nat
      BY <1>2 DEF told
    <3> QED
      BY <1>2, <2>1, <3>1
  <2>3. told # {}
    BY <2>1
  <2> USE DEF told
  <2> QED
    BY <1>2, <1>4, <2>2, <2>3
<1>5. CASE n # m
  <2>1. told = before
    BY <1>2, <1>5
  <2>2. tracker'[n] = tracker[n]
    BY <1>5
  <2>3. \A i \in before : events'[i] = events[i]
    BY <1>2
  <2> HIDE DEF before, told
  <2>4. /\ told = {} => replica[n] = Reads(tracker'[n])
        /\ \A i \in told : (\A j \in told : j <= i) => Shows(events'[i]) = Reads(tracker'[n])
    BY <1>3, <2>1, <2>2, <2>3
  <2> USE DEF told
  <2> QED
    BY <2>4
<1> QED
  BY <1>4, <1>5

\* The tracker stores o, or deletes it, and notifies.
LEMMA StoredAndTold ==
  ASSUME IInv, NEW m \in Names, NEW type \in Types,
         NEW o \in Objects(resource, Tracked(m)), o.name = m,
         Len(events) < MaxEvents,
         UNCHANGED <<resource, watching, replica>>,
         tracker' = [tracker EXCEPT ![m] = IF type = "deleted" THEN Nothing ELSE o],
         Notify(type, o),
         HeldFits'
  PROVE  IInv'
<1> DEFINE e == [no |-> FreeNo, type |-> type, obj |-> CopyObject(o, Event(FreeNo))]
<1>1. FreeNo \in 1..MaxEvents
  BY FreeNoIs
<1>2. /\ CopyObject(o, Event(FreeNo)) \in Objects(resource, Event(FreeNo))
      /\ CopyObject(o, Event(FreeNo)).name = m
      /\ Reads(CopyObject(o, Event(FreeNo))) = Reads(o)
  <2>1. Event(FreeNo) # Nowhere /\ resource \in Kinds
    BY OwnersDiffer DEF IInv
  <2> QED
    BY <2>1, CopyIs
<1>3. e \in Messages(resource) /\ e.obj.name = m
  BY <1>1, <1>2 DEF Messages
<1>4. Shows(e) = IF type = "deleted" THEN Absent ELSE Reads(o)
  BY <1>2 DEF Shows
<1>5. events' = IF watching THEN Append(events, e) ELSE events
  BY Zenon DEF Notify
<1> HIDE DEF e
<1>6. /\ tracker'[m] = (IF type = "deleted" THEN Nothing ELSE o)
      /\ \A n \in Names \ {m} : tracker'[n] = tracker[n]
      /\ tracker' = [n \in Names |-> tracker'[n]]
  BY DEF IInv, TrackerFits
<1>7. Shows(e) = Reads(tracker'[m])
  BY <1>4, <1>6 DEF Reads
<1>8. WatchTellsAll'
  BY <1>3, <1>5, <1>6, <1>7, OneMore
<1>9. TrackerFits'
  <2>1. tracker'[m] \in Stored(resource, m)
    BY <1>6 DEF Stored
  <2> QED
    BY <1>6, <2>1 DEF IInv, TrackerFits
<1>10. ChannelFits'
  <2>1. /\ events \in Seq(Messages(resource)) /\ MaxEvents \in Nat
        /\ ~watching => events = << >>
    BY MaxEventsAssumption DEF IInv, ChannelFits
  <2>2. events' \in Seq(Messages(resource)) /\ Len(events') <= MaxEvents
    <3>1. CASE watching
      BY <1>3, <1>5, <2>1, <3>1
    <3>2. CASE ~watching
      BY <1>5, <2>1, <3>2
    <3> QED
      BY <3>1, <3>2
  <2> QED
    BY <1>5, <2>1, <2>2 DEF IInv, ChannelFits
<1> QED
  BY <1>8, <1>9, <1>10 DEF IInv

LEMMA FailsKeeps ==
  ASSUME IInv, NEW v \in Variables, Fails(v), UNCHANGED <<resource, watching, replica>>
  PROVE  IInv'
<1>1. Nothing \in Pointed(resource, v)
  BY DEF Pointed
<1>2. HeldFits'
  BY <1>1, Assigned DEF Fails
<1> QED
  BY <1>2, OnlyHeld DEF Fails

\* A copy for variable v may be assigned to it.
LEMMA CopyForVariable ==
  ASSUME IInv, NEW v \in Variables, NEW y, NEW o \in Objects(resource, y)
  PROVE  CopyObject(o, Var(v)) \in Pointed(resource, v)
<1>1. Var(v) # Nowhere /\ resource \in Kinds
  BY OwnersDiffer DEF IInv
<1> QED
  BY <1>1, CopyIs DEF Pointed

LEMMA StoreAndGetKeeps ==
  ASSUME IInv, NEW v \in Variables, NEW type \in {"added", "modified"},
         NEW n \in Names, NEW o \in Objects(resource, Tracked(n)), o.name = n,
         StoreAndGet(v, type, o), UNCHANGED <<resource, watching, replica>>
  PROVE  IInv'
<1>1. HeldFits'
  BY CopyForVariable, Assigned DEF StoreAndGet
<1>2. tracker' = [tracker EXCEPT ![n] = IF type = "deleted" THEN Nothing ELSE o]
  BY DEF StoreAndGet
<1>3. type \in Types /\ Len(events) < MaxEvents /\ Notify(type, o)
  BY DEF StoreAndGet, Types
<1> QED
  BY <1>1, <1>2, <1>3, StoredAndTold

\* What a test passes in is stored as a copy made for the tracker.
LEMMA CopyForTracker ==
  ASSUME IInv, NEW u \in Variables, held[u] # Nothing
  PROVE  /\ held[u].name \in Names
         /\ CopyObject(held[u], Tracked(held[u].name))
              \in Objects(resource, Tracked(held[u].name))
         /\ CopyObject(held[u], Tracked(held[u].name)).name = held[u].name
<1>1. held[u] \in Objects(resource, Var(u))
  BY HeldIs
<1>2. held[u].name \in Names /\ resource \in Kinds
  BY <1>1 DEF IInv, Objects
<1>3. Tracked(held[u].name) # Nowhere
  BY OwnersDiffer
<1> QED
  BY <1>1, <1>2, <1>3, CopyIs

LEMMA CreateKeeps ==
  ASSUME IInv, NEW u \in Variables, NEW v \in Variables, Create(u, v)
  PROVE  IInv'
<1> DEFINE n == held[u].name
<1>1. held[u] # Nothing /\ UNCHANGED <<resource, watching, replica>>
  BY DEF Create
<1>2. CASE Fails(v)
  BY <1>1, <1>2, FailsKeeps
<1>3. CASE StoreAndGet(v, "added", CopyObject(held[u], Tracked(n)))
  BY <1>1, <1>3, CopyForTracker, StoreAndGetKeeps
<1> QED
  BY <1>2, <1>3 DEF Create

LEMMA UpdateKeeps ==
  ASSUME IInv, NEW u \in Variables, NEW v \in Variables, Update(u, v)
  PROVE  IInv'
<1> DEFINE n == held[u].name
<1>1. held[u] # Nothing /\ UNCHANGED <<resource, watching, replica>>
  BY DEF Update
<1>2. CASE Fails(v)
  BY <1>1, <1>2, FailsKeeps
<1>3. CASE StoreAndGet(v, "modified", CopyObject(held[u], Tracked(n)))
  BY <1>1, <1>3, CopyForTracker, StoreAndGetKeeps
<1> QED
  BY <1>2, <1>3 DEF Update

LEMMA AddKeeps ==
  ASSUME IInv, NEW u \in Variables, Add(u)
  PROVE  IInv'
<1> DEFINE n == held[u].name
           o == CopyObject(held[u], Tracked(n))
<1>1. /\ held[u] # Nothing /\ Len(events) < MaxEvents
      /\ tracker' = [tracker EXCEPT ![n] = o]
      /\ Notify("added", o)
      /\ UNCHANGED <<resource, held, watching, replica>>
  BY DEF Add
<1>2. n \in Names /\ o \in Objects(resource, Tracked(n)) /\ o.name = n
  BY <1>1, CopyForTracker
<1>3. HeldFits'
  BY <1>1 DEF IInv, HeldFits
<1> HIDE DEF n, o
<1>4. "added" \in Types /\ "added" # "deleted"
  BY DEF Types
<1> QED
  BY <1>1, <1>2, <1>3, <1>4, StoredAndTold

LEMMA PatchKeeps ==
  ASSUME IInv, NEW v \in Variables, NEW n \in Names, NEW c \in Contents, Patch(v, n, c)
  PROVE  IInv'
<1> DEFINE o == Object(resource, n, Make(resource, Tracked(n), c))
<1>1. UNCHANGED <<resource, watching, replica>>
  BY DEF Patch
<1>2. CASE Fails(v)
  BY <1>1, <1>2, FailsKeeps
<1>3. CASE StoreAndGet(v, "modified", o)
  <2>1. Tracked(n) # Nowhere /\ resource \in Kinds /\ c \in Seq(Contains)
    BY OwnersDiffer, ContentsAssumption DEF IInv, Contains
  <2>2. o \in Objects(resource, Tracked(n)) /\ o.name = n
    BY <2>1, MakeIs DEF Object
  <2> HIDE DEF o
  <2> QED
    BY <1>1, <1>3, <2>2, StoreAndGetKeeps
<1> QED
  BY <1>2, <1>3 DEF Patch

LEMMA GetKeeps ==
  ASSUME IInv, NEW v \in Variables, NEW n \in Names, Get(v, n)
  PROVE  IInv'
<1>1. UNCHANGED <<resource, tracker, watching, events, replica>>
  BY DEF Get, Fails
<1>2. CASE Fails(v)
  BY <1>1, <1>2, FailsKeeps
<1>3. CASE tracker[n] # Nothing /\ held' = [held EXCEPT ![v] = CopyObject(tracker[n], Var(v))]
  <2>1. HeldFits'
    BY <1>1, <1>3, StoredIs, CopyForVariable, Assigned
  <2> QED
    BY <1>1, <2>1, OnlyHeld
<1> QED
  BY <1>2, <1>3 DEF Get

LEMMA ListKeeps ==
  ASSUME IInv, NEW v \in Variables, List(v)
  PROVE  IInv'
<1> DEFINE items == [n \in {m \in Names : tracker[m] # Nothing} |-> tracker[n]]
<1>1. PICK n \in DOMAIN items :
        held' = [held EXCEPT ![v] = CopyList(resource, items, Var(v))[n]]
  BY DEF List
<1>2. n \in Names /\ items[n] = tracker[n] /\ tracker[n] # Nothing
  OBVIOUS
<1>3. tracker[n] \in Objects(resource, Tracked(n)) /\ tracker[n].kind = resource
  BY <1>2, StoredIs DEF Objects
<1>4. CopyList(resource, items, Var(v))[n] = CopyObject(tracker[n], Var(v))
  <2> HIDE DEF items
  <2> QED
    BY <1>1, <1>2, <1>3 DEF CopyList, CopyDeltaList, CopyDriverDiscoveryList, CopyObject
<1>5. HeldFits'
  BY <1>1, <1>3, <1>4, CopyForVariable, Assigned DEF List
<1> QED
  BY <1>5, OnlyHeld DEF List

LEMMA DeleteKeeps ==
  ASSUME IInv, NEW n \in Names, Delete(n)
  PROVE  IInv'
<1>1. tracker[n] \in Objects(resource, Tracked(n)) /\ tracker[n].name = n
  BY StoredIs DEF Delete
<1>2. HeldFits'
  BY DEF IInv, HeldFits, Delete
<1>3. "deleted" \in Types
  BY DEF Types
<1> QED
  BY <1>1, <1>2, <1>3, StoredAndTold DEF Delete

LEMMA LiteralKeeps ==
  ASSUME IInv, NEW v \in Variables, NEW n \in Names, NEW c \in Contents, Literal(v, n, c)
  PROVE  IInv'
<1> DEFINE s == IF c = << >> THEN Nil ELSE Make(resource, Var(v), c)
<1>1. Var(v) # Nowhere /\ resource \in Kinds /\ c \in Seq(Contains)
  BY OwnersDiffer, ContentsAssumption DEF IInv, Contains
<1>2. Object(resource, n, s) \in Pointed(resource, v)
  BY <1>1, MakeIs DEF Pointed
<1>3. HeldFits'
  BY <1>2, Assigned DEF Literal
<1> QED
  BY <1>3, OnlyHeld DEF Literal

LEMMA WatchKeeps ==
  ASSUME IInv, Watch
  PROVE  IInv'
<1>1. events = << >> /\ UNCHANGED <<resource, tracker, held, events>> /\ watching'
  BY DEF IInv, ChannelFits, Watch
<1>2. \A n \in Names : Reads(tracker[n]) \in SUBSET Seq(Contains)
  <2> TAKE n \in Names
  <2>1. CASE tracker[n] = Nothing
    BY <2>1 DEF Reads, Absent
  <2>2. CASE tracker[n] # Nothing
    <3>1. tracker[n] \in Objects(resource, Tracked(n)) /\ resource \in Kinds
      BY <2>2, StoredIs DEF IInv
    <3> QED
      BY <3>1, ObjectIs
  <2> QED
    BY <2>1, <2>2
<1>3. replica' = [n \in Names |-> Reads(tracker[n])]
  BY DEF Watch
<1>4. ChannelFits'
  BY <1>1, <1>2, <1>3 DEF IInv, ChannelFits, Watch
<1>5. WatchTellsAll'
  <2>1. DOMAIN events' = {}
    BY <1>1
  <2> QED
    BY <1>1, <1>3, <2>1 DEF WatchTellsAll
<1> QED
  BY <1>1, <1>4, <1>5 DEF IInv, TrackerFits, HeldFits

\* The event is the first of those on their way, and tells of the name m.
LEMMA ReceiveTold ==
  ASSUME IInv, NEW v \in Variables, Receive(v)
  PROVE  WatchTellsAll'
<1> DEFINE e == Head(events)
           m == e.obj.name
<1>1. /\ events # << >> /\ events' = Tail(events)
      /\ replica' = [replica EXCEPT ![m] = Shows(e)]
      /\ UNCHANGED <<resource, tracker, watching>>
  BY DEF Receive
<1>2. /\ watching /\ events \in Seq(Messages(resource)) /\ Len(events) \in Nat \ {0}
      /\ DOMAIN events = 1..Len(events) /\ events[1] = e
      /\ DOMAIN events' = 1..(Len(events) - 1)
      /\ \A i \in 1..(Len(events) - 1) : events'[i] = events[i + 1]
      /\ replica \in [Names -> SUBSET Seq(Contains)]
  BY <1>1 DEF IInv, ChannelFits
<1>3. SUFFICES ASSUME NEW n \in Names
               PROVE  LET told == {i \in DOMAIN events' : events'[i].obj.name = n} IN
                        /\ told = {} => replica'[n] = Reads(tracker[n])
                        /\ \A i \in told : (\A j \in told : j <= i) =>
                                              Shows(events'[i]) = Reads(tracker[n])
  BY <1>1 DEF WatchTellsAll
<1> DEFINE before == {i \in DOMAIN events : events[i].obj.name = n}
           told   == {i \in DOMAIN events' : events'[i].obj.name = n}
<1>4. /\ before = {} => replica[n] = Reads(tracker[n])
      /\ \A i \in before : (\A j \in before : j <= i) => Shows(events[i]) = Reads(tracker[n])
  BY <1>2 DEF IInv, WatchTellsAll
<1>5. \A i \in before : i = 1 \/ i - 1 \in told
  BY <1>2
<1>6. \A i \in told : i \in Nat /\ i + 1 \in before /\ events'[i] = events[i + 1]
  BY <1>2
<1>7. 1 \in before <=> n = m
  BY <1>2
<1>8. \A i \in before : i \in Nat \ {0}
  BY <1>2
<1>9. replica'[n] = IF n = m THEN Shows(e) ELSE replica[n]
  BY <1>1, <1>2
<1> HIDE DEF before, told, m, e
<1>10. told = {} => replica'[n] = Reads(tracker[n])
  <2> SUFFICES ASSUME told = {} PROVE replica'[n] = Reads(tracker[n])
    OBVIOUS
  <2>1. CASE n = m
    BY <1>2, <1>4, <1>5, <1>7, <1>9, <2>1
  <2>2. CASE n # m
    BY <1>4, <1>5, <1>7, <1>9, <2>2
  <2> QED
    BY <2>1, <2>2
<1>11. ASSUME NEW i \in told, \A j \in told : j <= i
       PROVE  Shows(events'[i]) = Reads(tracker[n])
  <2>1. \A j \in before : j <= i + 1
    BY <1>5, <1>6, <1>8, <1>11
  <2> QED
    BY <1>4, <1>6, <2>1
<1> USE DEF told
<1> QED
  BY <1>10, <1>11

LEMMA ReceiveKeeps ==
  ASSUME IInv, NEW v \in Variables, Receive(v)
  PROVE  IInv'
<1> DEFINE e == Head(events)
           o == IF e.obj.ref.array = Event(e.no) THEN CopyObject(e.obj, Var(v)) ELSE e.obj
<1>1. /\ events # << >> /\ events' = Tail(events)
      /\ replica' = [replica EXCEPT ![e.obj.name] = Shows(e)]
      /\ held' = [held EXCEPT ![v] = o]
      /\ UNCHANGED <<resource, tracker, watching>>
  BY DEF Receive
<1>2. e \in Messages(resource) /\ resource \in Kinds
  BY <1>1 DEF IInv, ChannelFits
<1>3. /\ e.obj \in Objects(resource, Event(e.no)) /\ e.no \in 1..MaxEvents
      /\ e.obj.name \in Names
  BY <1>2, MessageIs
<1>4. o \in Pointed(resource, v)
  <2>1. CASE e.obj.ref.array = Event(e.no)
    BY <1>3, <2>1, CopyForVariable
  <2>2. CASE e.obj.ref.array # Event(e.no)
    <3>1. /\ e.obj = [kind |-> resource, name |-> e.obj.name, ref |-> e.obj.ref]
          /\ e.obj.ref = [array |-> Nowhere, elems |-> << >>]
      BY <1>3, <2>2 DEF Objects, Slices
    <3>2. [array |-> Nowhere, elems |-> << >>] \in Slices(resource, Var(v))
      BY DEF Slices
    <3>3. e.obj \in Objects(resource, Var(v))
      BY <1>3, <3>1, <3>2 DEF Objects
    <3> QED
      BY <2>2, <3>3 DEF Pointed
  <2> QED
    BY <2>1, <2>2
<1>5. HeldFits'
  <2> HIDE DEF o
  <2> QED
    BY <1>1, <1>4, Assigned
<1>6. Shows(e) \in SUBSET Seq(Contains)
  BY <1>2, <1>3, ObjectIs DEF Shows, Absent
<1>7. ChannelFits'
  <2>1. /\ events \in Seq(Messages(resource)) /\ Len(events) <= MaxEvents
        /\ MaxEvents \in Nat /\ watching \in BOOLEAN
        /\ ~watching => events = << >>
        /\ replica \in [Names -> SUBSET Seq(Contains)]
    BY MaxEventsAssumption DEF IInv, ChannelFits
  <2>2. events' \in Seq(Messages(resource)) /\ Len(events') <= MaxEvents
    BY <1>1, <2>1
  <2>3. replica' \in [Names -> SUBSET Seq(Contains)]
    <3> HIDE DEF e
    <3> QED
      BY <1>1, <1>6, <2>1
  <2> QED
    BY <1>1, <2>1, <2>2, <2>3 DEF ChannelFits
<1> QED
  BY <1>1, <1>5, <1>7, ReceiveTold DEF IInv, TrackerFits

---------------------------------------------------------------------------
(* What a scribble reaches: the object of variable v and no other.         *)

LEMMA ScribbleReaches ==
  ASSUME IInv, NEW v \in Variables, Scribble(v)
  PROVE  /\ UNCHANGED <<resource, tracker, watching, events, replica>>
         /\ \A w \in Variables \ {v} : held'[w] = held[w]
         /\ HeldFits'
<1> DEFINE s == held[v].ref
           z == Var(v)
<1>1. PICK i \in DOMAIN s.elems, x \in Values \cup {NoValue}, toEntry \in BOOLEAN :
        LET Written(o) == IF toEntry THEN WriteEntry(o, s.elems[i].at, x)
                                     ELSE WriteElement(o, s.array, i, x)
        IN
          /\ toEntry => s.elems[i].at # Nowhere
          /\ x = NoValue <=> resource = VSD /\ ~toEntry
          /\ tracker' = [n \in Names |-> Written(tracker[n])]
          /\ held'    = [w \in Variables |-> Written(held[w])]
          /\ events'  = [j \in DOMAIN events |->
                           [events[j] EXCEPT !.obj = Written(events[j].obj)]]
  BY Zenon DEF Scribble
<1> DEFINE e == s.elems[i].at
           W(o) == IF toEntry THEN WriteEntry(o, e, x) ELSE WriteElement(o, s.array, i, x)
<1>2. /\ toEntry => e # Nowhere
      /\ tracker' = [n \in Names |-> W(tracker[n])]
      /\ held'    = [w \in Variables |-> W(held[w])]
      /\ events'  = [j \in DOMAIN events |-> [events[j] EXCEPT !.obj = W(events[j].obj)]]
      /\ UNCHANGED <<resource, watching, replica>>
  BY <1>1, Zenon DEF Scribble
<1>3. x \in Contains /\ resource \in Kinds /\ z # Nowhere
  BY OwnersDiffer DEF IInv, Contains
<1>4. /\ s.array = z
      /\ toEntry => e \in {z} \X Nat /\ e # Nowhere
  <2>1. held[v] # Nothing
    <3> SUFFICES ASSUME held[v] = Nothing PROVE FALSE
      OBVIOUS
    <3>1. s.elems = << >>
      BY DEF Nothing, Object, Nil
    <3> QED
      BY <3>1
  <2>2. s \in Slices(resource, z)
    BY <1>3, <2>1, HeldIs, ObjectIs
  <2>3. s.elems # << >>
    OBVIOUS
  <2>4. s.array = z /\ s.elems \in Seq(Entries(resource, z))
    BY <2>2, <2>3 DEF Slices
  <2>5. e = Nowhere \/ e \in {z} \X Nat
    BY <2>4, EntryIs
  <2> QED
    BY <1>2, <2>4, <2>5
<1> HIDE DEF s, e
<1>5. W(Nothing) = Nothing
  BY <1>3, <1>4, WriteNothing
<1>6. ASSUME NEW y, NEW o \in Objects(resource, y)
      PROVE  W(o) \in Objects(resource, y) /\ (y # z => W(o) = o)
  BY <1>3, <1>4, <1>6, WriteEntryIs, WriteElementIs
<1> HIDE DEF W, z
<1>7. tracker' = tracker
  <2>1. \A n \in Names : W(tracker[n]) = tracker[n]
    BY <1>5, <1>6, StoredIs, OwnersDiffer DEF z
  <2>2. tracker = [n \in Names |-> tracker[n]]
    BY DEF IInv, TrackerFits
  <2> QED
    BY <1>2, <2>1, <2>2
<1>8. events' = events
  <2>1. events \in Seq(Messages(resource)) /\ events = [j \in DOMAIN events |-> events[j]]
    BY DEF IInv, ChannelFits
  <2>2. ASSUME NEW j \in DOMAIN events
        PROVE  [events[j] EXCEPT !.obj = W(events[j].obj)] = events[j]
    <3>1. events[j] \in Messages(resource)
      BY <2>1
    <3>2. /\ events[j] = [no |-> events[j].no, type |-> events[j].type, obj |-> events[j].obj]
          /\ events[j].obj \in Objects(resource, Event(events[j].no))
      BY <3>1, MessageIs
    <3>3. W(events[j].obj) = events[j].obj
      BY <1>6, <3>2, OwnersDiffer DEF z
    <3> QED
      BY <3>2, <3>3
  <2> QED
    BY <1>2, <2>1, <2>2
<1>9. \A w \in Variables \ {v} : held'[w] = held[w]
  <2> TAKE w \in Variables \ {v}
  <2>1. W(held[w]) = held[w]
    BY <1>5, <1>6, HeldIs, OwnersDiffer DEF z
  <2> QED
    BY <1>2, <2>1
<1>10. HeldFits'
  <2>1. \A w \in Variables : W(held[w]) \in Pointed(resource, w)
    BY <1>5, <1>6, HeldIs DEF Pointed
  <2> QED
    BY <1>2, <2>1 DEF HeldFits
<1> QED
  BY <1>2, <1>7, <1>8, <1>9, <1>10

---------------------------------------------------------------------------
(* The invariant and what follows from it.                                 *)

LEMMA IInvInit ==
  ASSUME Init PROVE IInv
<1>1. TrackerFits /\ HeldFits
  BY DEF Init, TrackerFits, HeldFits, Stored, Pointed
<1>2. ChannelFits
  <2>1. << >> \in Seq(Messages(resource)) /\ Len(<< >>) <= MaxEvents
    BY MaxEventsAssumption
  <2>2. [n \in Names |-> Absent] \in [Names -> SUBSET Seq(Contains)]
    BY DEF Absent
  <2> QED
    BY <2>1, <2>2 DEF Init, ChannelFits
<1>3. resource \in Kinds /\ WatchTellsAll
  BY DEF Init, Kinds, WatchTellsAll
<1> QED
  BY <1>1, <1>2, <1>3 DEF IInv

LEMMA IInvNext ==
  ASSUME IInv, [Next]_vars PROVE IInv'
<1>1. ASSUME NEW u \in Variables, NEW v \in Variables, Create(u, v) \/ Update(u, v)
      PROVE  IInv'
  BY <1>1, CreateKeeps, UpdateKeeps
<1>2. ASSUME NEW v \in Variables, NEW n \in Names, Get(v, n)
      PROVE  IInv'
  BY <1>2, GetKeeps
<1>3. ASSUME NEW v \in Variables, NEW n \in Names, NEW c \in Contents,
             Patch(v, n, c) \/ Literal(v, n, c)
      PROVE  IInv'
  BY <1>3, PatchKeeps, LiteralKeeps
<1>4. ASSUME NEW v \in Variables, Add(v) \/ List(v) \/ Receive(v)
      PROVE  IInv'
  BY <1>4, AddKeeps, ListKeeps, ReceiveKeeps
<1>5. ASSUME NEW v \in Variables, Scribble(v)
      PROVE  IInv'
  BY <1>5, ScribbleReaches, OnlyHeld
<1>6. ASSUME NEW n \in Names, Delete(n)
      PROVE  IInv'
  BY <1>6, DeleteKeeps
<1>7. CASE Watch
  BY <1>7, WatchKeeps
<1>8. CASE UNCHANGED vars
  BY <1>8 DEF vars, IInv, TrackerFits, HeldFits, ChannelFits, WatchTellsAll
<1> QED
  BY <1>1, <1>2, <1>3, <1>4, <1>5, <1>6, <1>7, <1>8 DEF Next

LEMMA IInvType ==
  ASSUME IInv PROVE TypeOK
<1>1. \A n \in Names :
        tracker[n] # Nothing => tracker[n].name = n /\ Owns(Tracked(n), tracker[n])
  BY StoredIs, ObjectIs DEF IInv
<1>2. \A v \in Variables :
        held[v] # Nothing => held[v].name \in Names /\ Owns(Var(v), held[v])
  BY HeldIs, ObjectIs DEF IInv
<1>3. \A i \in DOMAIN events : /\ events[i].no \in 1..MaxEvents
                               /\ events[i].type \in Types
                               /\ events[i].obj.name \in Names
                               /\ Owns(Event(events[i].no), events[i].obj)
  <2> TAKE i \in DOMAIN events
  <2>1. events[i] \in Messages(resource) /\ resource \in Kinds
    BY DEF IInv, ChannelFits
  <2> QED
    BY <2>1, MessageIs, ObjectIs
<1> QED
  BY <1>1, <1>2, <1>3 DEF IInv, ChannelFits, Kinds, Contains, TypeOK

\* The invariant holds in every state.
THEOREM IInvHolds == Spec => []IInv
<1>1. Init => IInv
  BY IInvInit
<1>2. IInv /\ [Next]_vars => IInv'
  BY IInvNext
<1> QED
  BY <1>1, <1>2, PTL DEF Spec

\* Whatever the test does, each object that the tracker stores, that a
\* variable points to or that an event carries lies in memory made for that
\* one alone (tracker.add and ObjectReaction of the fixture copy).
THEOREM TypeCorrect == Spec => []TypeOK
<1>1. IInv => TypeOK
  BY IInvType
<1> QED
  BY <1>1, IInvHolds, PTL

\* A write to an object that the test holds changes no other that is stored,
\* sent or held: the generated DeepCopyInto functions share nothing.
THEOREM ScribblesLocal == Spec => ScribblesStayLocal
<1>1. IInv => StaysLocal
  BY ScribbleReaches DEF StaysLocal
<1> QED
  BY <1>1, IInvHolds, PTL DEF ScribblesStayLocal

\* A test that watches and applies what it receives (add, update and delete
\* of the tracker) arrives at what is stored, for any names, contents and
\* number of unhandled events.
THEOREM EventsTell == Spec => []WatchTellsAll
<1>1. IInv => WatchTellsAll
  BY DEF IInv
<1> QED
  BY <1>1, IInvHolds, PTL
=============================================================================
