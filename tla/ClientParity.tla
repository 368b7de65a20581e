---------------------------- MODULE ClientParity ----------------------------
(***************************************************************************)
(* The same test code run against the fake clientset and against the       *)
(* servers behind the real one: the typed clients of                       *)
(* pkg/generated/cbt/clientset/versioned, the VolumeSnapshotDelta registry *)
(* of pkg/storage and the generic registry that WithResource gives         *)
(* DriverDiscovery.  The test makes any calls but those of a list of known *)
(* differences; the model says that it is then answered alike and leaves   *)
(* the same objects behind, and that each of the list would tell the two   *)
(* apart.                                                                  *)
(*                                                                         *)
(* Left out: Watch (InformerCache, FakeClientset), paged lists             *)
(* (InformerCache), dry runs, delete preconditions, timestamps, and what   *)
(* admission plugins outside this code might refuse.                       *)
(***************************************************************************)
EXTENDS Naturals, FiniteSets

CONSTANTS
  Names,
  Namespaces,  \* that a client is made for and a submitted object may name
  Labels       \* what else is in an object: a label to select it by

NoNamespace == ""    \* metadata.namespace not set; NamespaceAll in a List
NoName      == ""
NoLabel     == ""

ASSUME NamesAssumption      == NoName \notin Names
ASSUME NamespacesAssumption == NoNamespace \notin Namespaces
ASSUME LabelsAssumption     == NoLabel \notin Labels

VSD == "volumesnapshotdeltas"
DD  == "driverdiscoveries"

\* spec.mode is VolumeSnapshotDelta's; a DriverDiscovery has none to leave out.
ModeBlock   == "block"
NoMode      == ""
Body(mode, label) == [mode |-> mode, label |-> label]
NoBody      == Body(NoMode, NoLabel)
BodiesOf(res) == {Body(m, l) : m \in {ModeBlock} \cup (IF res = VSD THEN {NoMode} ELSE {}),
                             l \in Labels}

\* SetDefaultsVolumeSnapshotDeltaSpec, when the server decodes an object.
Defaulted(b) == IF b.mode = NoMode THEN Body(ModeBlock, b.label) ELSE b

VARIABLES
  tracker,  \* the fake's objects: [VSD and DD -> namespace, name -> body]
  vsd,      \* the VolumeSnapshotDelta registry: name -> state of its key
  dds,      \* the DriverDiscovery registry: name -> body
  held      \* the test's variable

vars == <<tracker, vsd, dds, held>>

AnyNamespace == Namespaces \cup {NoNamespace}

\* An object as the test holds it.  rv: whether metadata.resourceVersion,
\* which only the real server sets, is that of the stored object.  A
\* DriverDiscovery that has one has the uid its registry gave it as well.
Held == UNION {[res : {r}, ns : AnyNamespace, name : Names, body : BodiesOf(r),
                rv : {"none", "current", "stale"}] : r \in {VSD, DD}}

\* One key of the VolumeSnapshotDelta registry, by its sequential meaning.
Registry == INSTANCE RegistryOps WITH
  Namespaces <- AnyNamespace, UIDs <- {}, NoUID <- "", Calls <- {},
  Bodies <- BodiesOf(VSD),
  NoObject <- [ns |-> NoNamespace, uid |-> "", body |-> NoBody]

TypeOK ==
  /\ tracker \in [{VSD, DD} -> [AnyNamespace \X Names -> BodiesOf(VSD) \cup {NoBody}]]
  /\ vsd \in [Names -> Registry!KeyStates]
  /\ \A n \in Names : /\ vsd[n] # Registry!Absent =>
                           vsd[n].obj.ns \in Namespaces /\ vsd[n].obj.body.mode = ModeBlock
                      /\ \A ns \in Namespaces : tracker[DD][<<ns, n>>] = NoBody
  /\ dds \in [Names -> BodiesOf(DD) \cup {NoBody}]
  /\ held \in Held
  /\ held.rv = "stale"   => held.res = DD
  /\ held.rv = "current" => held.res = VSD \/ dds[held.name] # NoBody

Init ==
  /\ tracker = [r \in {VSD, DD} |-> [k \in AnyNamespace \X Names |-> NoBody]]
  /\ vsd = [n \in Names |-> Registry!Absent]
  /\ dds = [n \in Names |-> NoBody]
  /\ held \in {o \in Held : o.res = VSD /\ o.rv = "none"}

---------------------------------------------------------------------------
(* The calls of VolumeSnapshotDeltaInterface and DriverDiscoveryInterface. *)

Call(op, res, ns, name, body, label, field) ==
  [op |-> op, res |-> res, ns |-> ns, name |-> name, body |-> body,
   label |-> label, field |-> field]

\* VolumeSnapshotDeltas(ns); DriverDiscoveries() has no namespace.
Scope(res) == IF res = VSD THEN Namespaces ELSE {NoNamespace}

ObjectCalls(o) ==
  {Call(op, o.res, ns, o.name, o.body, NoLabel, NoName) :
     op \in {"create", "update"} \cup (IF o.res = VSD THEN {"updateStatus"} ELSE {}),
     ns \in Scope(o.res)}

NameCalls ==
  UNION {
    {Call(op, r, ns, n, NoBody, NoLabel, NoName) :
       op \in {"get", "delete"}, ns \in Scope(r), n \in Names}
    \cup
    {Call("patch", r, ns, n, b, NoLabel, NoName) :
       ns \in Scope(r), n \in Names, b \in BodiesOf(r)}
    : r \in {VSD, DD}}

\* A list by label, by the field metadata.name, or of everything.
CollectionCalls ==
  UNION {
    {Call("list", r, ns, NoName, NoBody, l, f) :
       ns \in Scope(r) \cup {NoNamespace}, l \in Labels \cup {NoLabel}, f \in Names \cup {NoName}}
    \cup
    {Call("deleteCollection", r, ns, NoName, NoBody, NoLabel, NoName) : ns \in Scope(r)}
    : r \in {VSD, DD}}

CallsOf(o) == ObjectCalls(o) \cup NameCalls \cup CollectionCalls

CarriesObject(c) == c.op \in {"create", "update", "updateStatus"}

\* An answer is what the caller can tell: the reason of the error, or "ok",
\* and the objects returned.
Item(ns, n, b)   == [ns |-> ns, name |-> n, body |-> b]
OK(items)        == [code |-> "ok", items |-> items]
Refused(reason)  == [code |-> reason, items |-> {}]

Selected(c, items) ==
  {i \in items : /\ c.label \in {NoLabel, i.body.label}
                 /\ c.field \in {NoName, i.name}}

---------------------------------------------------------------------------
(* The fake clientset.  A result is an answer and the tracker after it.    *)

Result(answer, after) == [answer |-> answer, after |-> after]

Put(r, k, b) == [tracker EXCEPT ![r][k] = b]

\* The namespace tracker.add stores an object under.
Propagated(o, ns) == IF o.ns = NoNamespace THEN ns ELSE o.ns

FakeStore(c, o, replace) ==
  LET k == <<c.ns, c.name>> IN
    IF Propagated(o, c.ns) # c.ns THEN Result(Refused("BadRequest"), tracker)
    ELSE IF replace # (tracker[c.res][k] # NoBody)
      THEN Result(Refused(IF replace THEN "NotFound" ELSE "AlreadyExists"), tracker)
    ELSE Result(OK({Item(c.ns, c.name, o.body)}), Put(c.res, k, o.body))

\* The tracker selects by namespace and the fake by label; neither looks at
\* the field selector.
FakeList(c) ==
  LET stored == {k \in DOMAIN tracker[c.res] : tracker[c.res][k] # NoBody}
      inScope == {k \in stored : c.ns \in {NoNamespace, k[1]}}
  IN OK(Selected([c EXCEPT !.field = NoName],
                 {Item(k[1], k[2], tracker[c.res][k]) : k \in inScope}))

\* The calls that both fakes have.  No reaction is implemented for
\* DeleteCollection, which therefore returns the default object and no error.
Invokes(c, o) ==
  LET k     == <<c.ns, c.name>>
      found == tracker[c.res][k] # NoBody
  IN
  CASE c.op = "create"           -> FakeStore(c, o, FALSE)
    [] c.op = "update"           -> FakeStore(c, o, TRUE)
    [] c.op = "list"             -> Result(FakeList(c), tracker)
    [] c.op = "deleteCollection" -> Result(OK({}), tracker)
    [] c.op \in {"get", "delete", "patch"} /\ ~found ->
         Result(Refused("NotFound"), tracker)
    [] c.op = "get" /\ found ->
         Result(OK({Item(c.ns, c.name, tracker[c.res][k])}), tracker)
    [] c.op = "delete" /\ found -> Result(OK({}), Put(c.res, k, NoBody))
    [] c.op = "patch" /\ found ->
         Result(OK({Item(c.ns, c.name, c.body)}), Put(c.res, k, c.body))

\* The tracker knows no subresources: UpdateStatus replaces the object.
Fake(c, o) == IF c.op = "updateStatus" THEN FakeStore(c, o, TRUE) ELSE Invokes(c, o)

---------------------------------------------------------------------------
(* The real clientset: a request, the route it takes, and the registry.    *)

\* The verb and the path each method of the typed clients builds, and of the
\* one with a status.
RootRequest(op) ==
  CASE op = "create"           -> <<"POST",   "collection">>
    [] op = "update"           -> <<"PUT",    "object">>
    [] op = "get"              -> <<"GET",    "object">>
    [] op = "list"             -> <<"GET",    "collection">>
    [] op = "delete"           -> <<"DELETE", "object">>
    [] op = "deleteCollection" -> <<"DELETE", "collection">>
    [] op = "patch"            -> <<"PATCH",  "object">>

Request(op) ==
  IF op = "updateStatus" THEN <<"PUT", "object/status">> ELSE RootRequest(op)

\* What the API server installs, from the interfaces the storage implements:
\* cbt is a Creater, an Updater, a GracefulDeleter, a Lister, a Watcher and a
\* Connecter for GET; the generic registry implements the rest as well.
Routes(res) ==
  {<<"POST", "collection">>, <<"GET", "collection">>,
   <<"GET", "object">>, <<"PUT", "object">>, <<"DELETE", "object">>}
  \cup IF res = VSD THEN {} ELSE {<<"DELETE", "collection">>, <<"PATCH", "object">>}

Unrouted(request) ==
  IF request[2] # "object/status"
    THEN Refused("MethodNotAllowed") ELSE Refused("NotFound")

Reason(status) ==
  CASE status \in {200, 201} -> "ok"
    [] status = 404          -> "NotFound"
    [] status = 500          -> "Unknown"

\* The call as the registry receives it: the key is the name alone and the
\* namespace that of the object, which nothing has compared with the path's.
Asked(c, o) ==
  [op |-> c.op, name |-> c.name, uid |-> "",
   obj |-> [ns |-> o.ns, uid |-> "", body |-> Defaulted(c.body)],
   rv |-> IF o.rv = "none" \/ c.op # "create" THEN 0 ELSE 1]

\* A variant that compares nothing.
NeverRefused(c, o) == FALSE

\* UpdateResource compares an object's namespace with the path's, if it has one.
NamespaceRefused(c, o) == c.op = "update" /\ o.ns \notin {NoNamespace, c.ns}

VSDKey(c, o) ==
  LET st  == vsd[c.name]
      a   == Asked(c, o)
      v   == CHOOSE x \in Registry!Verdicts \ {"denied"} : Registry!Allows(a, st, x)
      out == Registry!Outcome(a, st, v, 1)
      code == Reason(Registry!HttpStatus(c.op, out.code))
  IN
    Result([code  |-> code,
            items |-> IF code = "ok" /\ c.op # "delete"
                        THEN {Item(out.obj.ns, c.name, out.obj.body)} ELSE {}],
           IF v = "proceed" THEN [vsd EXCEPT ![c.name] = Registry!Effect(a, 1)] ELSE vsd)

\* List reads the keys of the group, whatever namespace the path names.
VSDList(c) ==
  OK(Selected(c, {Item(vsd[n].obj.ns, n, vsd[n].obj.body) :
                    n \in {m \in Names : vsd[m] # Registry!Absent}}))

RealVSD(c, o) ==
  IF Request(c.op) \notin Routes(VSD) THEN Result(Unrouted(Request(c.op)), vsd)
  ELSE IF c.op = "list"       THEN Result(VSDList(c), vsd)
  ELSE IF NamespaceRefused(c, o) THEN Result(Refused("BadRequest"), vsd)
  ELSE VSDKey(c, o)

\* A variant of DDStore without the precondition on the uid.
DDStoreByName(c, o) ==
  LET taken  == dds[c.name] # NoBody
      reason ==
        CASE c.op = "create" /\ o.rv # "none"             -> "Unknown"
          [] c.op = "create" /\ o.rv = "none" /\ taken    -> "AlreadyExists"
          [] c.op = "update" /\ ~taken                    -> "NotFound"
          [] c.op = "update" /\ taken /\ o.rv = "none"    -> "Invalid"
          [] c.op = "update" /\ taken /\ o.rv = "stale"   -> "Conflict"
          [] OTHER -> "ok"
  IN
    IF reason # "ok" THEN Result(Refused(reason), dds)
    ELSE Result(OK({Item(NoNamespace, c.name, c.body)}), [dds EXCEPT ![c.name] = c.body])

\* The generic registry, with neither AllowCreateOnUpdate nor
\* AllowUnconditionalUpdate.  It drops the namespace of the object.  A copy
\* that was returned has a uid, which an update takes for a precondition
\* before it looks whether there is anything to update.
DDStore(c, o) ==
  LET taken  == dds[c.name] # NoBody
      reason ==
        CASE c.op = "create" /\ o.rv # "none"             -> "Unknown"
          [] c.op = "create" /\ o.rv = "none" /\ taken    -> "AlreadyExists"
          [] c.op = "update" /\ o.rv = "none" /\ ~taken   -> "NotFound"
          [] c.op = "update" /\ o.rv = "none" /\ taken    -> "Invalid"
          [] c.op = "update" /\ o.rv # "none" /\ ~(taken /\ o.rv = "current")
                                                         -> "Conflict"
          [] OTHER -> "ok"
  IN
    IF reason # "ok" THEN Result(Refused(reason), dds)
    ELSE Result(OK({Item(NoNamespace, c.name, c.body)}), [dds EXCEPT ![c.name] = c.body])

RealDD(c, o) ==
  LET found  == dds[c.name] # NoBody
      stored == {n \in Names : dds[n] # NoBody}
  IN
  CASE CarriesObject(c)  -> DDStore(c, o)
    [] c.op = "list" ->
         Result(OK(Selected(c, {Item(NoNamespace, n, dds[n]) : n \in stored})), dds)
    [] c.op = "deleteCollection" -> Result(OK({}), [n \in Names |-> NoBody])
    [] c.op \in {"get", "delete", "patch"} /\ ~found -> Result(Refused("NotFound"), dds)
    [] c.op = "get" /\ found -> Result(OK({Item(NoNamespace, c.name, dds[c.name])}), dds)
    [] c.op = "delete" /\ found -> Result(OK({}), [dds EXCEPT ![c.name] = NoBody])
    [] c.op = "patch" /\ found ->
         Result(OK({Item(NoNamespace, c.name, c.body)}), [dds EXCEPT ![c.name] = c.body])

\* What a List of everything would show, of the fake and of the servers.
TrackedItems(t, res) ==
  {Item(k[1], k[2], t[res][k]) : k \in {x \in DOMAIN t[res] : t[res][x] # NoBody}}

StoredItems(v, d, res) ==
  IF res = VSD
    THEN {Item(v[n].obj.ns, n, v[n].obj.body) : n \in {m \in Names : v[m] # Registry!Absent}}
    ELSE {Item(NoNamespace, n, d[n]) : n \in {m \in Names : d[m] # NoBody}}

---------------------------------------------------------------------------
(* The known differences, by call.                                         *)

Elsewhere(c) == vsd[c.name] # Registry!Absent /\ vsd[c.name].obj.ns # c.ns
Here(c)      == tracker[c.res][<<c.ns, c.name>>] # NoBody

KnownDifference(c, o) ==
  \/ /\ c.res = VSD
     /\ \/ /\ c.op = "create"
           /\ \/ o.rv # "none"
              \/ vsd[c.name] # Registry!Absent
              \/ o.ns # c.ns
              \/ o.body.mode = NoMode
        \/ /\ c.op = "update"
           /\ \/ o.ns = NoNamespace
              \/ o.ns = c.ns /\ (~Here(c) \/ o.body.mode = NoMode)
        \/ /\ c.op = "updateStatus"
           /\ Here(c) \/ o.ns \notin {NoNamespace, c.ns}
        \/ c.op = "get" /\ Elsewhere(c)
        \/ c.op = "delete" /\ ~Here(c)
        \/ c.op \in {"patch", "deleteCollection"}
  \/ /\ c.res = DD
     /\ \/ CarriesObject(c) /\ o.ns # NoNamespace
        \/ c.op = "create" /\ o.rv # "none"
        \/ /\ c.op = "update"
           /\ o.rv # IF Here(c) THEN "current" ELSE "none"
        \/ c.op = "deleteCollection" /\ TrackedItems(tracker, DD) # {}
  \/ /\ c.op = "list"
     /\ \E i \in TrackedItems(tracker, c.res) :
          /\ c.label \in {NoLabel, i.body.label}
          /\ (c.ns \in {NoNamespace, i.ns}) # (c.field \in {NoName, i.name})

---------------------------------------------------------------------------
(* The test.                                                               *)

AfterVSD(c, o) == IF c.res = VSD THEN RealVSD(c, o).after ELSE vsd
AfterDD(c, o)  == IF c.res = DD  THEN RealDD(c, o).after  ELSE dds
Real(c, o)     == IF c.res = VSD THEN RealVSD(c, o).answer ELSE RealDD(c, o).answer

\* A variant in which a copy of a deleted DriverDiscovery stays current.
AgedByWrites(c) ==
  LET k == AfterDD(c, held)[held.name] IN
    IF held.res = DD /\ held.rv = "current" /\ k \notin {dds[held.name], NoBody}
      THEN [held EXCEPT !.rv = "stale"] ELSE held

\* A copy of a DriverDiscovery ages when its key changes.
Aged(c) ==
  LET k == AfterDD(c, held)[held.name] IN
    IF held.res = DD /\ held.rv = "current" /\ k # dds[held.name]
      THEN [held EXCEPT !.rv = "stale"] ELSE held

\* The test makes a call that is no known difference, and keeps what it had
\* or one object the server gives it.
Makes(c) ==
  /\ ~KnownDifference(c, held)
  /\ tracker' = Fake(c, held).after
  /\ vsd' = AfterVSD(c, held)
  /\ dds' = AfterDD(c, held)
  /\ \/ held' = Aged(c)
     \/ \E i \in Real(c, held).items :
          held' = [res |-> c.res, ns |-> i.ns, name |-> i.name, body |-> i.body,
                   rv |-> "current"]

\* It writes down an object.
Literal(o) ==
  /\ o.rv = "none"
  /\ held' = o
  /\ UNCHANGED <<tracker, vsd, dds>>

\* It changes the one it holds.
Edit(b) ==
  /\ held' = [held EXCEPT !.body = b]
  /\ UNCHANGED <<tracker, vsd, dds>>

Next ==
  \/ \E c \in CallsOf(held) : Makes(c)
  \/ \E o \in Held : Literal(o)
  \/ \E b \in BodiesOf(held.res) : Edit(b)

Spec == Init /\ [][Next]_vars

---------------------------------------------------------------------------
(* Properties.                                                             *)

\* Nobody can tell the fake from the servers by call c.
Alike(c, o) ==
  /\ Fake(c, o).answer = Real(c, o)
  /\ \A r \in {VSD, DD} :
       TrackedItems(Fake(c, o).after, r) = StoredItems(AfterVSD(c, o), AfterDD(c, o), r)

\* However far a test has come, the fake and the servers store the same.
SameObjects ==
  \A r \in {VSD, DD} : TrackedItems(tracker, r) = StoredItems(vsd, dds, r)

\* However far a test has come, the fake answers its next call as the servers
\* do and is left with the same objects, unless the call is one of the known
\* differences; and each of those does tell them apart.  A VolumeSnapshotDelta
\* is created anew where the fake says NotFound or AlreadyExists, is read,
\* overwritten, deleted and listed across namespaces, keeps whatever namespace
\* it was sent with, is given a mode, and has no patch, status or collection to delete; a
\* DriverDiscovery is updated only with its current resourceVersion, and with
\* the uid of one that is gone meets a conflict and not NotFound; the fake
\* ignores field selectors and DeleteCollection.
DiffersOnlyAsKnown ==
  \A c \in CallsOf(held) : KnownDifference(c, held) <=> ~Alike(c, held)
=============================================================================
