--------------------------- MODULE FakeClientset ---------------------------
(***************************************************************************)
(* The fake clientset (pkg/generated/cbt/clientset/versioned/fake) and its *)
(* object tracker, as a test that uses the client of one resource sees it: *)
(* it builds objects, hands them in, keeps what it is given back, lists,   *)
(* watches, and writes to everything it holds.  One namespace is enough    *)
(* here; ClientParity has the namespaces and the statuses.                 *)
(***************************************************************************)
EXTENDS DeepCopy

CONSTANTS
  Names,
  Values,       \* what an entry may hold, compared only for equality
  Variables,    \* the test's variables that point to an object
  Contents,     \* the changedBlockDeltas, or labels, the test writes down
  MaxEvents     \* bound: unhandled watch events (a hundred in the library)

ASSUME NamesAssumption    == Names \subseteq Nat \ {0}
ASSUME ValuesAssumption   == Values \subseteq Nat \ {NoValue}
ASSUME ContentsAssumption == Contents \subseteq Seq(Values \cup {NoValue})
ASSUME MaxEventsAssumption == MaxEvents \in Nat

VARIABLES
  resource,  \* the resource of the client, VSD or DD
  tracker,   \* tracker[n]: the object stored under name n
  held,      \* held[v]: what the test's variable v points to
  watching,  \* whether the test watches
  events,    \* the watcher's channel
  replica    \* what the test made of the events it received

vars == <<resource, tracker, held, watching, events, replica>>

\* Owners of memory: the tracker for a name, a variable, an event by number.
Tracked(n) == <<"tracker", n>>
Var(v)     == <<"variable", v>>
Event(j)   == <<"event", j>>

Nothing == Object("none", 0, Nil)
Absent  == {}
Types   == {"added", "modified", "deleted"}

\* What the holder of an object reads in it, as a set.
Reads(o) == IF o = Nothing THEN Absent ELSE {Content(o.ref)}

\* Memory that was made for x.
Owns(x, o) == o.ref.array \in {Nowhere, x}

TypeOK ==
  /\ resource \in {VSD, DD}
  /\ \A n \in Names :
       tracker[n] # Nothing => tracker[n].name = n /\ Owns(Tracked(n), tracker[n])
  /\ \A v \in Variables :
       held[v] # Nothing => held[v].name \in Names /\ Owns(Var(v), held[v])
  /\ watching \in BOOLEAN
  /\ Len(events) <= MaxEvents
  /\ \A i \in DOMAIN events : /\ events[i].no \in 1..MaxEvents
                              /\ events[i].type \in Types
                              /\ events[i].obj.name \in Names
                              /\ Owns(Event(events[i].no), events[i].obj)
  /\ \A n \in Names : replica[n] \subseteq Seq(Values \cup {NoValue})

Init ==
  /\ resource \in {VSD, DD}
  /\ tracker  = [n \in Names |-> Nothing]
  /\ held     = [v \in Variables |-> Nothing]
  /\ watching = FALSE
  /\ events   = << >>
  /\ replica  = [n \in Names |-> Absent]

---------------------------------------------------------------------------

\* What an event says is stored of its object.
Shows(e) == IF e.type = "deleted" THEN Absent ELSE Reads(e.obj)

\* A number no event on its way has.
FreeNo == CHOOSE j \in 1..MaxEvents : \A i \in DOMAIN events : events[i].no # j

\* The watcher, if there is one, is sent a copy.
Notify(type, o) ==
  events' = IF watching
              THEN Append(events, [no |-> FreeNo, type |-> type,
                                   obj |-> CopyObject(o, Event(FreeNo))])
              ELSE events

\* A variant that tells the watchers of no update.
StoreQuietly(v, type, o) ==
  /\ Len(events) < MaxEvents
  /\ tracker' = [tracker EXCEPT ![o.name] = o]
  /\ IF type = "added" THEN Notify(type, o) ELSE UNCHANGED events
  /\ held' = [held EXCEPT ![v] = CopyObject(o, Var(v))]

\* tracker.add stores o, which is a copy, and notifies; ObjectReaction gets a
\* copy of what is stored, which goes to variable v.
StoreAndGet(v, type, o) ==
  /\ Len(events) < MaxEvents
  /\ tracker' = [tracker EXCEPT ![o.name] = o]
  /\ Notify(type, o)
  /\ held' = [held EXCEPT ![v] = CopyObject(o, Var(v))]

\* The call returns nil and an error.
Fails(v) ==
  /\ held' = [held EXCEPT ![v] = Nothing]
  /\ UNCHANGED <<tracker, events>>

\* The object of variable u is sent; AlreadyExists if its name is taken.
Create(u, v) ==
  LET n == held[u].name IN
    /\ held[u] # Nothing
    /\ IF tracker[n] # Nothing THEN Fails(v)
       ELSE StoreAndGet(v, "added", CopyObject(held[u], Tracked(n)))
    /\ UNCHANGED <<resource, watching, replica>>

\* The kinds in the clientset's scheme; the resource the tracker guesses from
\* the name of either is the one its client uses.
KnownKinds == {VSD, DD}

\* Tracker().Add, and before anything else NewSimpleClientset, of the object
\* of variable u: nothing comes back but an error, if its name is taken.
Add(u) ==
  LET n == held[u].name
      o == CopyObject(held[u], Tracked(n))
  IN
    /\ held[u] # Nothing
    /\ held[u].kind \in KnownKinds
    /\ tracker[n] = Nothing
    /\ Len(events) < MaxEvents
    /\ tracker' = [tracker EXCEPT ![n] = o]
    /\ Notify("added", o)
    /\ UNCHANGED <<resource, held, watching, replica>>

\* NotFound if it is not.  UpdateStatus, which DriverDiscovery has not, is
\* the same call.
Update(u, v) ==
  LET n == held[u].name IN
    /\ held[u] # Nothing
    /\ IF tracker[n] = Nothing THEN Fails(v)
       ELSE StoreAndGet(v, "modified", CopyObject(held[u], Tracked(n)))
    /\ UNCHANGED <<resource, watching, replica>>

\* The patched JSON is decoded into a copy, which is stored.
Patch(v, n, content) ==
  /\ IF tracker[n] = Nothing THEN Fails(v)
     ELSE StoreAndGet(v, "modified", Object(resource, n, Make(resource, Tracked(n), content)))
  /\ UNCHANGED <<resource, watching, replica>>

Get(v, n) ==
  /\ IF tracker[n] = Nothing THEN Fails(v)
     ELSE /\ held' = [held EXCEPT ![v] = CopyObject(tracker[n], Var(v))]
          /\ UNCHANGED <<tracker, events>>
  /\ UNCHANGED <<resource, watching, replica>>

\* The test keeps one item of the list it is given, which the tracker sorted.
List(v) ==
  LET items == [n \in {m \in Names : tracker[m] # Nothing} |-> tracker[n]] IN
    /\ \E n \in DOMAIN items :
         held' = [held EXCEPT ![v] = CopyList(resource, items, Var(v))[n]]
    /\ UNCHANGED <<resource, tracker, watching, events, replica>>

Delete(n) ==
  /\ tracker[n] # Nothing
  /\ Len(events) < MaxEvents
  /\ tracker' = [tracker EXCEPT ![n] = Nothing]
  /\ Notify("deleted", tracker[n])
  /\ UNCHANGED <<resource, held, watching, replica>>

\* The test knows what is stored, and watches from there on.
Watch ==
  /\ ~watching
  /\ watching' = TRUE
  /\ replica' = [n \in Names |-> Reads(tracker[n])]
  /\ UNCHANGED <<resource, tracker, held, events>>

\* The memory of the event is the variable's from now on.
Receive(v) ==
  LET e == Head(events) IN
    /\ events # << >>
    /\ replica' = [replica EXCEPT ![e.obj.name] = Shows(e)]
    /\ held' = [held EXCEPT ![v] =
         IF e.obj.ref.array = Event(e.no) THEN CopyObject(e.obj, Var(v)) ELSE e.obj]
    /\ events' = Tail(events)
    /\ UNCHANGED <<resource, tracker, watching>>

\* What the test itself does: it writes a literal, or to what it holds.
Literal(v, n, content) ==
  /\ held' = [held EXCEPT ![v] =
       Object(resource, n, IF content = << >> THEN Nil
                                           ELSE Make(resource, Var(v), content))]
  /\ UNCHANGED <<resource, tracker, watching, events, replica>>

\* It writes x to an entry, or to an element of the slice or map itself.
Scribble(v) ==
  LET s == held[v].ref IN
    /\ \E i \in DOMAIN s.elems, x \in Values \cup {NoValue}, toEntry \in BOOLEAN :
         LET Written(o) == IF toEntry THEN WriteEntry(o, s.elems[i].at, x)
                                      ELSE WriteElement(o, s.array, i, x)
         IN
           /\ toEntry => s.elems[i].at # Nowhere
           /\ x = NoValue <=> resource = VSD /\ ~toEntry
           /\ tracker' = [n \in Names |-> Written(tracker[n])]
           /\ held'    = [w \in Variables |-> Written(held[w])]
           /\ events'  = [j \in DOMAIN events |->
                            [events[j] EXCEPT !.obj = Written(events[j].obj)]]
    /\ UNCHANGED <<resource, watching, replica>>

Next ==
  \/ \E u, v \in Variables : Create(u, v) \/ Update(u, v)
  \/ \E v \in Variables :
       \/ \E n \in Names : Get(v, n)
       \/ \E n \in Names, c \in Contents : Patch(v, n, c) \/ Literal(v, n, c)
       \/ Add(v)
       \/ List(v)
       \/ Receive(v)
       \/ Scribble(v)
  \/ \E n \in Names : Delete(n)
  \/ Watch

Spec == Init /\ [][Next]_vars

---------------------------------------------------------------------------
(* Properties.                                                             *)

\* Whatever a test writes to an object it holds, one it passed in or one it
\* was given by a call or by the watch, changes nothing that the tracker
\* stores, that is on its way to the watcher, or that another variable holds.
StaysLocal ==
  \A v \in Variables :
    Scribble(v) =>
      /\ \A n \in Names : Reads(tracker'[n]) = Reads(tracker[n])
      /\ \A i \in DOMAIN events : Reads(events'[i].obj) = Reads(events[i].obj)
      /\ \A w \in Variables \ {v} : Reads(held'[w]) = Reads(held[w])

ScribblesStayLocal == [][StaysLocal]_vars

\* A test that applies the events it receives to what was stored when it began
\* to watch arrives at what is stored now: the last event about a name on its
\* way shows what is stored under it, and if there is none the test has it
\* already, whatever the test writes meanwhile.
WatchTellsAll ==
  watching =>
    \A n \in Names :
      LET told == {i \in DOMAIN events : events[i].obj.name = n} IN
        /\ told = {} => replica[n] = Reads(tracker[n])
        /\ \A i \in told : (\A j \in told : j <= i) =>
                              Shows(events[i]) = Reads(tracker[n])
=============================================================================
