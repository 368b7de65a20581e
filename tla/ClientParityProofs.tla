------------------------- MODULE ClientParityProofs -------------------------
(***************************************************************************)
(* Proofs about ClientParity, for every set of names, namespaces and       *)
(* labels: call by call, which calls tell the two sides apart; and so that *)
(* a test which makes none of them leaves the same objects on both.        *)
(***************************************************************************)
EXTENDS ClientParity, TLAPS

TrackerType  == [{VSD, DD} -> [AnyNamespace \X Names -> BodiesOf(VSD) \cup {NoBody}]]
RegistryType == [Names -> Registry!KeyStates]
GenericType  == [Names -> BodiesOf(DD) \cup {NoBody}]

IInv == TypeOK /\ SameObjects

\* What is seen of a key of a registry by someone who looks under a namespace.
SeenDelta(st, ns) ==
  IF st # Registry!Absent /\ st.obj.ns = ns THEN st.obj.body ELSE NoBody
SeenDiscovery(b, ns) == IF ns = NoNamespace THEN b ELSE NoBody

Keys == AnyNamespace \X Names
SeenDeltas(v)      == [k \in Keys |-> SeenDelta(v[k[2]], k[1])]
SeenDiscoveries(d) == [k \in Keys |-> SeenDiscovery(d[k[2]], k[1])]

---------------------------------------------------------------------------
(* Values.                                                                 *)

LEMMA ResourcesDiffer == VSD # DD
BY DEF VSD, DD

LEMMA BodyFields ==
  ASSUME NEW m, NEW l
  PROVE  Body(m, l).mode = m /\ Body(m, l).label = l
BY DEF Body

LEMMA BodiesAre ==
  ASSUME NEW r \in {VSD, DD}, NEW b \in BodiesOf(r)
  PROVE  /\ b \in BodiesOf(VSD)
         /\ b # NoBody
         /\ b = Body(b.mode, b.label)
         /\ b.mode \in {ModeBlock, NoMode} /\ b.label \in Labels
         /\ r = DD => b.mode = ModeBlock
BY LabelsAssumption, ResourcesDiffer DEF BodiesOf, Body, NoBody

LEMMA DefaultedIs ==
  ASSUME NEW b \in BodiesOf(VSD)
  PROVE  /\ Defaulted(b) \in BodiesOf(VSD)
         /\ Defaulted(b) # NoBody
         /\ Defaulted(b).mode = ModeBlock
         /\ Defaulted(b) = b <=> b.mode # NoMode
<1>1. /\ b # NoBody
      /\ b.mode \in {ModeBlock, NoMode} /\ b.label \in Labels
  BY BodiesAre
<1>2. Defaulted(b).mode = ModeBlock /\ ModeBlock # NoMode
  BY <1>1, BodyFields DEF Defaulted, ModeBlock, NoMode
<1>3. Defaulted(b) \in BodiesOf(VSD)
  BY <1>1 DEF Defaulted, BodiesOf
<1> QED
  BY <1>1, <1>2, <1>3, BodiesAre DEF Defaulted

LEMMA ItemFields ==
  ASSUME NEW ns, NEW n, NEW b
  PROVE  /\ Item(ns, n, b).ns = ns
         /\ Item(ns, n, b).name = n
         /\ Item(ns, n, b).body = b
BY DEF Item

\* An object of the VolumeSnapshotDelta registry, and the state of its key.
LEMMA ObjectsAre ==
  /\ \A obj \in Registry!Objects :
       /\ obj.ns \in AnyNamespace /\ obj.body \in BodiesOf(VSD) /\ obj.uid = ""
       /\ obj = [ns |-> obj.ns, uid |-> "", body |-> obj.body]
  /\ \A ns \in AnyNamespace, b \in BodiesOf(VSD) :
       [ns |-> ns, uid |-> "", body |-> b] \in Registry!Objects
<1>1. Registry!Objects = [ns : AnyNamespace, uid : {""}, body : BodiesOf(VSD)]
  BY DEF Registry!Objects, Registry!UidOrNone
<1> DEFINE Bodies == BodiesOf(VSD)
<1> HIDE DEF Bodies
<1>2. ASSUME NEW obj \in [ns : AnyNamespace, uid : {""}, body : Bodies]
      PROVE  /\ obj.ns \in AnyNamespace /\ obj.body \in Bodies /\ obj.uid = ""
             /\ obj = [ns |-> obj.ns, uid |-> "", body |-> obj.body]
  <2>1. obj.ns \in AnyNamespace /\ obj.body \in Bodies /\ obj.uid \in {""}
    OBVIOUS
  <2>2. obj = [ns |-> obj.ns, uid |-> obj.uid, body |-> obj.body]
    OBVIOUS
  <2> QED
    BY <2>1, <2>2
<1>3. \A ns \in AnyNamespace, b \in Bodies :
        [ns |-> ns, uid |-> "", body |-> b] \in [ns : AnyNamespace, uid : {""}, body : Bodies]
  OBVIOUS
<1> QED
  BY <1>1, <1>2, <1>3 DEF Bodies

LEMMA KeyStatesAre ==
  ASSUME NEW st \in Registry!KeyStates
  PROVE  /\ st # Registry!Absent => st.obj \in Registry!Objects
         /\ st = Registry!Absent => st.obj = [ns |-> NoNamespace, uid |-> "", body |-> NoBody]
         /\ st.obj \in Registry!Objects => st # Registry!Absent
<1>1. Registry!Absent.obj = [ns |-> NoNamespace, uid |-> "", body |-> NoBody]
  BY DEF Registry!Absent
<1>2. Registry!Absent.obj \notin Registry!Objects
  BY <1>1, ObjectsAre, BodiesAre
<1> QED
  BY <1>1, <1>2 DEF Registry!KeyStates

\* A key that a transaction has written.
LEMMA WrittenKey ==
  ASSUME NEW obj \in Registry!Objects
  PROVE  /\ [rev |-> 1, obj |-> obj] \in Registry!KeyStates
         /\ [rev |-> 1, obj |-> obj] # Registry!Absent
<1> DEFINE st == [rev |-> 1, obj |-> obj]
<1>1. st \in Registry!KeyStates /\ st.obj = obj
  BY DEF Registry!KeyStates
<1> HIDE DEF st
<1>2. st # Registry!Absent
  BY <1>1, KeyStatesAre
<1> QED
  BY <1>1, <1>2 DEF st

---------------------------------------------------------------------------
(* The objects of the one side and of the other, key by key.               *)

ItemsOf(f) == {Item(k[1], k[2], f[k]) : k \in {x \in DOMAIN f : f[x] # NoBody}}

LEMMA InItemsOf ==
  ASSUME NEW f, DOMAIN f = Keys, NEW ns \in AnyNamespace, NEW n \in Names, NEW b
  PROVE  Item(ns, n, b) \in ItemsOf(f) <=> f[<<ns, n>>] = b /\ b # NoBody
<1>1. ASSUME Item(ns, n, b) \in ItemsOf(f)
      PROVE  f[<<ns, n>>] = b /\ b # NoBody
  <2>1. PICK k \in Keys : f[k] # NoBody /\ Item(ns, n, b) = Item(k[1], k[2], f[k])
    BY <1>1 DEF ItemsOf
  <2>2. k = <<ns, n>> /\ b = f[k]
    BY <2>1, ItemFields DEF Keys
  <2> QED
    BY <2>1, <2>2
<1>2. ASSUME f[<<ns, n>>] = b, b # NoBody
      PROVE  Item(ns, n, b) \in ItemsOf(f)
  <2>1. <<ns, n>> \in {x \in DOMAIN f : f[x] # NoBody}
    BY <1>2 DEF Keys
  <2> QED
    BY <2>1, <1>2 DEF ItemsOf
<1> QED
  BY <1>1, <1>2

LEMMA ItemsOfAreItems ==
  ASSUME NEW f, DOMAIN f = Keys, NEW i \in ItemsOf(f)
  PROVE  \E ns \in AnyNamespace, n \in Names : i = Item(ns, n, f[<<ns, n>>]) /\ f[<<ns, n>>] # NoBody
<1>1. PICK k \in Keys : f[k] # NoBody /\ i = Item(k[1], k[2], f[k])
  BY DEF ItemsOf
<1>2. k[1] \in AnyNamespace /\ k[2] \in Names /\ k = <<k[1], k[2]>>
  BY DEF Keys
<1> QED
  BY <1>1, <1>2

\* The items tell what is under each key.
LEMMA ItemsTell ==
  ASSUME NEW f, DOMAIN f = Keys, NEW g, DOMAIN g = Keys
  PROVE  ItemsOf(f) = ItemsOf(g)
           <=> \A ns \in AnyNamespace, n \in Names : f[<<ns, n>>] = g[<<ns, n>>]
<1>1. ASSUME ItemsOf(f) = ItemsOf(g), NEW ns \in AnyNamespace, NEW n \in Names
      PROVE  f[<<ns, n>>] = g[<<ns, n>>]
  <2>1. Item(ns, n, f[<<ns, n>>]) \in ItemsOf(f) <=> f[<<ns, n>>] # NoBody
    BY InItemsOf
  <2>2. Item(ns, n, f[<<ns, n>>]) \in ItemsOf(g)
          <=> g[<<ns, n>>] = f[<<ns, n>>] /\ f[<<ns, n>>] # NoBody
    BY InItemsOf
  <2>3. Item(ns, n, g[<<ns, n>>]) \in ItemsOf(g) <=> g[<<ns, n>>] # NoBody
    BY InItemsOf
  <2>4. Item(ns, n, g[<<ns, n>>]) \in ItemsOf(f)
          <=> f[<<ns, n>>] = g[<<ns, n>>] /\ g[<<ns, n>>] # NoBody
    BY InItemsOf
  <2> QED
    BY <1>1, <2>1, <2>2, <2>3, <2>4
<1>2. ASSUME \A ns \in AnyNamespace, n \in Names : f[<<ns, n>>] = g[<<ns, n>>]
      PROVE  ItemsOf(f) = ItemsOf(g)
  <2>1. ASSUME NEW i \in ItemsOf(f)
        PROVE  i \in ItemsOf(g)
    <3>1. PICK ns \in AnyNamespace, n \in Names :
            i = Item(ns, n, f[<<ns, n>>]) /\ f[<<ns, n>>] # NoBody
      BY ItemsOfAreItems
    <3> QED
      BY <1>2, <3>1, InItemsOf
  <2>2. ASSUME NEW i \in ItemsOf(g)
        PROVE  i \in ItemsOf(f)
    <3>1. PICK ns \in AnyNamespace, n \in Names :
            i = Item(ns, n, g[<<ns, n>>]) /\ g[<<ns, n>>] # NoBody
      BY ItemsOfAreItems
    <3> QED
      BY <1>2, <3>1, InItemsOf
  <2> QED
    BY <2>1, <2>2
<1> QED
  BY <1>1, <1>2

LEMMA TrackedAre ==
  ASSUME NEW t \in TrackerType, NEW r \in {VSD, DD}
  PROVE  TrackedItems(t, r) = ItemsOf(t[r]) /\ DOMAIN t[r] = Keys
BY DEF TrackedItems, ItemsOf, TrackerType, Keys

LEMMA DeltasAre ==
  ASSUME NEW v \in RegistryType, NEW d
  PROVE  StoredItems(v, d, VSD) = ItemsOf(SeenDeltas(v)) /\ DOMAIN SeenDeltas(v) = Keys
<1> DEFINE f == SeenDeltas(v)
           S == {Item(v[n].obj.ns, n, v[n].obj.body) : n \in {m \in Names : v[m] # Registry!Absent}}
<1>1. StoredItems(v, d, VSD) = S
  BY DEF StoredItems
<1>2. DOMAIN f = Keys
      /\ \A ns \in AnyNamespace, n \in Names : f[<<ns, n>>] = SeenDelta(v[n], ns)
  BY DEF SeenDeltas, Keys
<1>3. \A n \in Names : v[n] # Registry!Absent =>
        v[n].obj.ns \in AnyNamespace /\ v[n].obj.body # NoBody
  BY KeyStatesAre, ObjectsAre, BodiesAre DEF RegistryType
<1>4. ASSUME NEW i \in S
      PROVE  i \in ItemsOf(f)
  <2>1. PICK n \in Names : v[n] # Registry!Absent /\ i = Item(v[n].obj.ns, n, v[n].obj.body)
    BY <1>4
  <2>2. f[<<v[n].obj.ns, n>>] = v[n].obj.body
    BY <1>2, <1>3, <2>1 DEF SeenDelta
  <2> QED
    BY <1>2, <1>3, <2>1, <2>2, InItemsOf
<1>5. ASSUME NEW i \in ItemsOf(f)
      PROVE  i \in S
  <2>1. PICK ns \in AnyNamespace, n \in Names :
          i = Item(ns, n, f[<<ns, n>>]) /\ f[<<ns, n>>] # NoBody
    BY <1>2, ItemsOfAreItems
  <2>2. v[n] # Registry!Absent /\ v[n].obj.ns = ns /\ f[<<ns, n>>] = v[n].obj.body
    BY <1>2, <2>1 DEF SeenDelta
  <2> QED
    BY <2>1, <2>2
<1> QED
  BY <1>1, <1>2, <1>4, <1>5

LEMMA DiscoveriesAre ==
  ASSUME NEW d \in GenericType, NEW v
  PROVE  StoredItems(v, d, DD) = ItemsOf(SeenDiscoveries(d)) /\ DOMAIN SeenDiscoveries(d) = Keys
<1> DEFINE f == SeenDiscoveries(d)
           S == {Item(NoNamespace, n, d[n]) : n \in {m \in Names : d[m] # NoBody}}
<1>1. StoredItems(v, d, DD) = S
  BY ResourcesDiffer DEF StoredItems
<1>2. DOMAIN f = Keys
      /\ \A ns \in AnyNamespace, n \in Names : f[<<ns, n>>] = SeenDiscovery(d[n], ns)
  BY DEF SeenDiscoveries, Keys
<1>3. NoNamespace \in AnyNamespace
  BY DEF AnyNamespace
<1>4. ASSUME NEW i \in S
      PROVE  i \in ItemsOf(f)
  <2>1. PICK n \in Names : d[n] # NoBody /\ i = Item(NoNamespace, n, d[n])
    BY <1>4
  <2>2. f[<<NoNamespace, n>>] = d[n]
    BY <1>2, <1>3 DEF SeenDiscovery
  <2> QED
    BY <1>2, <1>3, <2>1, <2>2, InItemsOf
<1>5. ASSUME NEW i \in ItemsOf(f)
      PROVE  i \in S
  <2>1. PICK ns \in AnyNamespace, n \in Names :
          i = Item(ns, n, f[<<ns, n>>]) /\ f[<<ns, n>>] # NoBody
    BY <1>2, ItemsOfAreItems
  <2>2. ns = NoNamespace /\ f[<<ns, n>>] = d[n]
    BY <1>2, <2>1 DEF SeenDiscovery
  <2> QED
    BY <2>1, <2>2
<1> QED
  BY <1>1, <1>2, <1>4, <1>5

\* The two sides store the same exactly when each key of the tracker shows
\* what is seen of the registry's.
LEMMA SameDeltas ==
  ASSUME NEW t \in TrackerType, NEW v \in RegistryType, NEW d
  PROVE  TrackedItems(t, VSD) = StoredItems(v, d, VSD)
           <=> \A ns \in AnyNamespace, n \in Names : t[VSD][<<ns, n>>] = SeenDelta(v[n], ns)
<1>1. \A ns \in AnyNamespace, n \in Names : SeenDeltas(v)[<<ns, n>>] = SeenDelta(v[n], ns)
  BY DEF SeenDeltas, Keys
<1> QED
  BY <1>1, TrackedAre, DeltasAre, ItemsTell

LEMMA SameDiscoveries ==
  ASSUME NEW t \in TrackerType, NEW d \in GenericType, NEW v
  PROVE  TrackedItems(t, DD) = StoredItems(v, d, DD)
           <=> \A ns \in AnyNamespace, n \in Names : t[DD][<<ns, n>>] = SeenDiscovery(d[n], ns)
<1>1. \A ns \in AnyNamespace, n \in Names : SeenDiscoveries(d)[<<ns, n>>] = SeenDiscovery(d[n], ns)
  BY DEF SeenDiscoveries, Keys
<1> QED
  BY <1>1, TrackedAre, DiscoveriesAre, ItemsTell

---------------------------------------------------------------------------
(* The calls.                                                              *)

CallRecords ==
  [op : {"create", "update", "updateStatus", "get", "delete", "patch", "list", "deleteCollection"},
   res : {VSD, DD}, ns : AnyNamespace, name : Names \cup {NoName},
   body : BodiesOf(VSD) \cup {NoBody}, label : Labels \cup {NoLabel}, field : Names \cup {NoName}]

LEMMA CallFields ==
  ASSUME NEW op, NEW res, NEW ns, NEW name, NEW body, NEW label, NEW field
  PROVE  /\ Call(op, res, ns, name, body, label, field).op = op
         /\ Call(op, res, ns, name, body, label, field).res = res
         /\ Call(op, res, ns, name, body, label, field).ns = ns
         /\ Call(op, res, ns, name, body, label, field).name = name
         /\ Call(op, res, ns, name, body, label, field).body = body
         /\ Call(op, res, ns, name, body, label, field).label = label
         /\ Call(op, res, ns, name, body, label, field).field = field
BY DEF Call

LEMMA CallIsRecord ==
  ASSUME NEW op \in {"create", "update", "updateStatus", "get", "delete", "patch", "list",
                     "deleteCollection"},
         NEW res \in {VSD, DD}, NEW ns \in AnyNamespace, NEW name \in Names \cup {NoName},
         NEW body \in BodiesOf(VSD) \cup {NoBody}, NEW label \in Labels \cup {NoLabel},
         NEW field \in Names \cup {NoName}
  PROVE  Call(op, res, ns, name, body, label, field) \in CallRecords
<1> DEFINE Bodies == BodiesOf(VSD) \cup {NoBody}
<1> HIDE DEF Bodies
<1>1. CallRecords =
        [op : {"create", "update", "updateStatus", "get", "delete", "patch", "list",
               "deleteCollection"},
         res : {VSD, DD}, ns : AnyNamespace, name : Names \cup {NoName},
         body : Bodies, label : Labels \cup {NoLabel}, field : Names \cup {NoName}]
  BY DEF CallRecords, Bodies
<1>2. body \in Bodies
  BY DEF Bodies
<1> QED
  BY <1>1, <1>2 DEF Call

LEMMA HeldIs ==
  ASSUME NEW o \in Held
  PROVE  /\ o.res \in {VSD, DD} /\ o.ns \in AnyNamespace /\ o.name \in Names
         /\ o.body \in BodiesOf(o.res) /\ o.body \in BodiesOf(VSD)
         /\ o.rv \in {"none", "current", "stale"}
         /\ o = [res |-> o.res, ns |-> o.ns, name |-> o.name, body |-> o.body, rv |-> o.rv]
<1>1. PICK r \in {VSD, DD} :
        o \in [res : {r}, ns : AnyNamespace, name : Names, body : BodiesOf(r),
               rv : {"none", "current", "stale"}]
  BY DEF Held
<1> DEFINE Bodies == BodiesOf(r)
<1> HIDE DEF Bodies
<1>2. o \in [res : {r}, ns : AnyNamespace, name : Names, body : Bodies,
             rv : {"none", "current", "stale"}]
  BY <1>1 DEF Bodies
<1>3. /\ o.res = r /\ o.ns \in AnyNamespace /\ o.name \in Names /\ o.body \in Bodies
      /\ o.rv \in {"none", "current", "stale"}
      /\ o = [res |-> o.res, ns |-> o.ns, name |-> o.name, body |-> o.body, rv |-> o.rv]
  BY <1>2
<1> QED
  BY <1>3, BodiesAre DEF Bodies

LEMMA HeldMade ==
  ASSUME NEW r \in {VSD, DD}, NEW ns \in AnyNamespace, NEW n \in Names, NEW b \in BodiesOf(r),
         NEW rv \in {"none", "current", "stale"}
  PROVE  [res |-> r, ns |-> ns, name |-> n, body |-> b, rv |-> rv] \in Held
<1> DEFINE Bodies == BodiesOf(r)
<1> HIDE DEF Bodies
<1>1. [res |-> r, ns |-> ns, name |-> n, body |-> b, rv |-> rv]
        \in [res : {r}, ns : AnyNamespace, name : Names, body : Bodies,
             rv : {"none", "current", "stale"}]
  BY DEF Bodies
<1> QED
  BY <1>1 DEF Held, Bodies

LEMMA ScopesAre == Scope(VSD) = Namespaces /\ Scope(DD) = {NoNamespace}
BY ResourcesDiffer DEF Scope

\* What kind of call each is.
LEMMA CallsAre ==
  ASSUME NEW o \in Held, NEW c \in CallsOf(o)
  PROVE  /\ c \in CallRecords
         /\ c.op # "list" => c.ns \in Scope(c.res)
         /\ c.op \notin {"list", "deleteCollection"} => c.name \in Names
         /\ CarriesObject(c) => c.res = o.res /\ c.name = o.name /\ c.body = o.body
         /\ c.op = "updateStatus" => c.res = VSD
         /\ c.op = "patch" => c.body \in BodiesOf(c.res)
<1>1. \A r \in {VSD, DD} : Scope(r) \subseteq AnyNamespace
  BY ScopesAre DEF AnyNamespace
<1>2. CASE c \in ObjectCalls(o)
  <2>1. PICK op \in {"create", "update"} \cup (IF o.res = VSD THEN {"updateStatus"} ELSE {}),
             ns \in Scope(o.res) : c = Call(op, o.res, ns, o.name, o.body, NoLabel, NoName)
    BY <1>2 DEF ObjectCalls
  <2>2. c \in CallRecords
    BY <1>1, <2>1, CallIsRecord, HeldIs
  <2>3. /\ c.op = op /\ c.res = o.res /\ c.ns = ns /\ c.name = o.name /\ c.body = o.body
        /\ op \in {"create", "update", "updateStatus"}
        /\ op = "updateStatus" => o.res = VSD
    BY <2>1, CallFields
  <2> QED
    BY <2>2, <2>3, HeldIs DEF CarriesObject
<1>3. CASE c \in NameCalls
  <2>1. PICK r \in {VSD, DD} :
          \E op \in {"get", "delete", "patch"}, ns \in Scope(r), n \in Names,
             b \in BodiesOf(r) \cup {NoBody} :
            /\ c = Call(op, r, ns, n, b, NoLabel, NoName)
            /\ op = "patch" => b \in BodiesOf(r)
    BY <1>3 DEF NameCalls
  <2>5. PICK op \in {"get", "delete", "patch"}, ns \in Scope(r), n \in Names,
             b \in BodiesOf(r) \cup {NoBody} :
          /\ c = Call(op, r, ns, n, b, NoLabel, NoName)
          /\ op = "patch" => b \in BodiesOf(r)
    BY <2>1
  <2>2. b \in BodiesOf(VSD) \cup {NoBody}
    BY BodiesAre
  <2>3. c \in CallRecords
    BY <1>1, <2>5, <2>2, CallIsRecord
  <2>4. c.op = op /\ c.res = r /\ c.ns = ns /\ c.name = n /\ c.body = b
    BY <2>5, CallFields
  <2> QED
    BY <2>5, <2>3, <2>4 DEF CarriesObject
<1>4. CASE c \in CollectionCalls
  <2>5. PICK r \in {VSD, DD} :
          \E op \in {"list", "deleteCollection"}, ns \in Scope(r) \cup {NoNamespace},
             l \in Labels \cup {NoLabel}, f \in Names \cup {NoName} :
            /\ c = Call(op, r, ns, NoName, NoBody, l, f)
            /\ op # "list" => ns \in Scope(r)
    BY <1>4 DEF CollectionCalls
  <2>1. PICK op \in {"list", "deleteCollection"}, ns \in Scope(r) \cup {NoNamespace},
             l \in Labels \cup {NoLabel}, f \in Names \cup {NoName} :
          /\ c = Call(op, r, ns, NoName, NoBody, l, f)
          /\ op # "list" => ns \in Scope(r)
    BY <2>5
  <2>2. ns \in AnyNamespace
    BY <1>1, <2>1 DEF AnyNamespace
  <2>3. c \in CallRecords
    BY <2>1, <2>2, CallIsRecord
  <2>4. c.op = op /\ c.res = r /\ c.ns = ns
    BY <2>1, CallFields
  <2> QED
    BY <2>1, <2>3, <2>4 DEF CarriesObject
<1> QED
  BY <1>2, <1>3, <1>4 DEF CallsOf

---------------------------------------------------------------------------
(* The registry's key, call by call.                                       *)

\* The object as the registry is sent it.
Sent(c, o) == [ns |-> o.ns, uid |-> "", body |-> Defaulted(c.body)]

\* The registry after it is written.
VSDWith(c, o) == [vsd EXCEPT ![c.name] = [rev |-> 1, obj |-> Sent(c, o)]]

AskedVerdict(c, o) ==
  CHOOSE x \in Registry!Verdicts \ {"denied"} : Registry!Allows(Asked(c, o), vsd[c.name], x)

LEMMA SentIs ==
  ASSUME NEW o, o.ns \in AnyNamespace, NEW c, c.body \in BodiesOf(VSD)
  PROVE  /\ Sent(c, o) \in Registry!Objects
         /\ Sent(c, o).ns = o.ns /\ Sent(c, o).body = Defaulted(c.body)
<1>1. Sent(c, o).ns = o.ns /\ Sent(c, o).body = Defaulted(c.body)
  BY DEF Sent
<1> QED
  BY <1>1, DefaultedIs, ObjectsAre DEF Sent

LEMMA AskedIs ==
  ASSUME NEW c, NEW o
  PROVE  /\ Asked(c, o).op = c.op /\ Asked(c, o).uid = ""
         /\ Asked(c, o).obj = Sent(c, o) /\ Asked(c, o).obj.uid = ""
         /\ c.op # "create" => Asked(c, o).rv = 0
         /\ c.op = "create" => (Asked(c, o).rv = 0 <=> o.rv = "none")
<1>1. /\ Asked(c, o).op = c.op /\ Asked(c, o).uid = "" /\ Asked(c, o).obj = Sent(c, o)
      /\ Asked(c, o).rv = IF o.rv = "none" \/ c.op # "create" THEN 0 ELSE 1
  BY DEF Asked, Sent
<1>2. Sent(c, o).uid = ""
  BY DEF Sent
<1> DEFINE rv == Asked(c, o).rv
<1>3. rv = IF o.rv = "none" \/ c.op # "create" THEN 0 ELSE 1
  BY <1>1
<1> HIDE DEF rv
<1>4. /\ c.op # "create" => rv = 0
      /\ c.op = "create" => (rv = 0 <=> o.rv = "none")
  BY <1>3
<1> QED
  BY <1>1, <1>2, <1>4 DEF rv

\* No precondition of the typed client's calls is ever set.
LEMMA NothingToCheck ==
  ASSUME NEW c, NEW o, NEW st, c.op \in {"update", "delete"}
  PROVE  Registry!Check(Registry!Preconditions(Asked(c, o)), st)
<1>1. Registry!Preconditions(Asked(c, o)) = [uid |-> "", rv |-> 0]
  BY AskedIs DEF Registry!Preconditions
<1> DEFINE pre == Registry!Preconditions(Asked(c, o))
<1> HIDE DEF pre
<1>2. pre = [uid |-> "", rv |-> 0]
  BY <1>1 DEF pre
<1>3. Registry!Check(pre, st)
  BY <1>2 DEF Registry!Check
<1> QED
  BY <1>3 DEF pre

LEMMA VerdictIs ==
  ASSUME NEW c, NEW o, c.op \in {"create", "update", "delete", "get"}
  PROVE  AskedVerdict(c, o) =
           CASE c.op = "create" ->
                  IF o.rv # "none" THEN "rvSet"
                  ELSE IF vsd[c.name] # Registry!Absent THEN "exists" ELSE "proceed"
             [] c.op = "update" ->
                  IF vsd[c.name].obj = Sent(c, o) THEN "unchanged" ELSE "proceed"
             [] c.op = "delete" ->
                  IF vsd[c.name] = Registry!Absent THEN "notFound" ELSE "proceed"
             [] c.op = "get" ->
                  IF vsd[c.name] = Registry!Absent THEN "notFound" ELSE "found"
<1> DEFINE V == Registry!Verdicts \ {"denied"}
           st == vsd[c.name]
           a == Asked(c, o)
           P(x) == Registry!Allows(a, st, x)
<1>1. V = {"proceed", "rvSet", "exists", "notFound", "precondition", "unchanged", "found"}
  BY DEF Registry!Verdicts
<1>2. /\ a.op = c.op /\ a.obj = Sent(c, o)
      /\ c.op = "create" => (a.rv = 0 <=> o.rv = "none")
      /\ c.op \in {"update", "delete"} => Registry!Check(Registry!Preconditions(a), st)
  <2>1. ASSUME c.op \in {"update", "delete"}
        PROVE  Registry!Check(Registry!Preconditions(Asked(c, o)), vsd[c.name])
    BY <2>1, NothingToCheck
  <2>2. /\ Asked(c, o).op = c.op /\ Asked(c, o).obj = Sent(c, o)
        /\ c.op = "create" => (Asked(c, o).rv = 0 <=> o.rv = "none")
    BY AskedIs, Zenon
  <2> QED
    BY <2>1, <2>2, Zenon
<1>3. AskedVerdict(c, o) = CHOOSE x \in V : P(x)
  BY DEF AskedVerdict
<1> HIDE DEF V, st, a
<1>4. CASE c.op = "create"
  <2>1. \A x \in V : P(x) <=>
          x = IF o.rv # "none" THEN "rvSet"
              ELSE IF st # Registry!Absent THEN "exists" ELSE "proceed"
    BY <1>1, <1>2, <1>4 DEF Registry!Allows
  <2> QED
    BY <1>1, <1>3, <1>4, <2>1 DEF st
<1>5. CASE c.op = "update"
  <2>1. \A x \in V : P(x) <=> x = IF st.obj = Sent(c, o) THEN "unchanged" ELSE "proceed"
    BY <1>1, <1>2, <1>5 DEF Registry!Allows
  <2> QED
    BY <1>1, <1>3, <1>5, <2>1 DEF st
<1>6. CASE c.op = "delete"
  <2>1. \A x \in V : P(x) <=> x = IF st = Registry!Absent THEN "notFound" ELSE "proceed"
    BY <1>1, <1>2, <1>6 DEF Registry!Allows
  <2> QED
    BY <1>1, <1>3, <1>6, <2>1 DEF st
<1>7. CASE c.op = "get"
  <2>1. \A x \in V : P(x) <=> x = IF st = Registry!Absent THEN "notFound" ELSE "found"
    BY <1>1, <1>2, <1>7 DEF Registry!Allows
  <2> QED
    BY <1>1, <1>3, <1>7, <2>1 DEF st
<1> QED
  BY <1>4, <1>5, <1>6, <1>7

\* VSDKey with the outcome named.
LEMMA KeyIs ==
  ASSUME NEW c, NEW o, NEW v, v = AskedVerdict(c, o),
         NEW out, out = Registry!Outcome(Asked(c, o), vsd[c.name], v, 1),
         NEW code, code = Reason(Registry!HttpStatus(c.op, out.code))
  PROVE  /\ VSDKey(c, o).answer =
              [code  |-> code,
               items |-> IF code = "ok" /\ c.op # "delete"
                           THEN {Item(out.obj.ns, c.name, out.obj.body)} ELSE {}]
         /\ VSDKey(c, o).after =
              IF v = "proceed" THEN [vsd EXCEPT ![c.name] = Registry!Effect(Asked(c, o), 1)] ELSE vsd
BY DEF VSDKey, AskedVerdict, Result

\* A create answers with what it was sent, whether the key was free or not.
LEMMA KeyCreated ==
  ASSUME NEW c, NEW o, c.op = "create", o.rv = "none"
  PROVE  /\ VSDKey(c, o).answer = OK({Item(o.ns, c.name, Defaulted(c.body))})
         /\ VSDKey(c, o).after = IF vsd[c.name] = Registry!Absent THEN VSDWith(c, o) ELSE vsd
<1> DEFINE v == AskedVerdict(c, o)
           out == Registry!Outcome(Asked(c, o), vsd[c.name], v, 1)
           code == Reason(Registry!HttpStatus(c.op, out.code))
<1>1. v = IF vsd[c.name] = Registry!Absent THEN "proceed" ELSE "exists"
  BY VerdictIs
<1>2. out.code \in {"created", "exists"} /\ out.obj = Sent(c, o)
  BY <1>1, AskedIs DEF Registry!Outcome, Registry!Success
<1>3. Registry!Effect(Asked(c, o), 1) = [rev |-> 1, obj |-> Sent(c, o)]
  BY AskedIs DEF Registry!Effect
<1>4. code = "ok"
  BY <1>2 DEF Registry!HttpStatus, Reason
<1>5. Sent(c, o).ns = o.ns /\ Sent(c, o).body = Defaulted(c.body)
  BY DEF Sent
<1> HIDE DEF v, out, code
<1>6. /\ VSDKey(c, o).answer =
           [code  |-> code,
            items |-> IF code = "ok" /\ c.op # "delete"
                        THEN {Item(out.obj.ns, c.name, out.obj.body)} ELSE {}]
      /\ VSDKey(c, o).after =
           IF v = "proceed" THEN [vsd EXCEPT ![c.name] = Registry!Effect(Asked(c, o), 1)] ELSE vsd
  BY KeyIs DEF v, out, code
<1> QED
  BY <1>1, <1>2, <1>3, <1>4, <1>5, <1>6 DEF OK, VSDWith

\* A create with a resourceVersion is refused.
LEMMA KeyNotCreated ==
  ASSUME NEW c, NEW o, c.op = "create", o.rv # "none"
  PROVE  VSDKey(c, o).answer = Refused("Unknown") /\ VSDKey(c, o).after = vsd
<1> DEFINE v == AskedVerdict(c, o)
           out == Registry!Outcome(Asked(c, o), vsd[c.name], v, 1)
           code == Reason(Registry!HttpStatus(c.op, out.code))
<1>1. v = "rvSet"
  BY VerdictIs
<1>2. out.code = "rvSet"
  BY <1>1 DEF Registry!Outcome
<1>3. code = "Unknown"
  BY <1>2 DEF Registry!HttpStatus, Reason
<1> HIDE DEF v, out, code
<1>4. /\ VSDKey(c, o).answer =
           [code  |-> code,
            items |-> IF code = "ok" /\ c.op # "delete"
                        THEN {Item(out.obj.ns, c.name, out.obj.body)} ELSE {}]
      /\ VSDKey(c, o).after =
           IF v = "proceed" THEN [vsd EXCEPT ![c.name] = Registry!Effect(Asked(c, o), 1)] ELSE vsd
  BY KeyIs DEF v, out, code
<1> QED
  BY <1>1, <1>3, <1>4 DEF Refused

\* An update answers with what it was sent, and the key holds that.
LEMMA KeyUpdated ==
  ASSUME NEW c, NEW o, c.op = "update"
  PROVE  /\ VSDKey(c, o).answer = OK({Item(o.ns, c.name, Defaulted(c.body))})
         /\ VSDKey(c, o).after = IF vsd[c.name].obj = Sent(c, o) THEN vsd ELSE VSDWith(c, o)
<1> DEFINE v == AskedVerdict(c, o)
           out == Registry!Outcome(Asked(c, o), vsd[c.name], v, 1)
           code == Reason(Registry!HttpStatus(c.op, out.code))
<1>1. v = IF vsd[c.name].obj = Sent(c, o) THEN "unchanged" ELSE "proceed"
  BY VerdictIs
<1>2. out.code \in {"updated", "unchanged"} /\ out.obj = Sent(c, o)
  BY <1>1, AskedIs DEF Registry!Outcome, Registry!Success
<1>3. Registry!Effect(Asked(c, o), 1) = [rev |-> 1, obj |-> Sent(c, o)]
  BY AskedIs DEF Registry!Effect
<1>4. code = "ok"
  BY <1>2 DEF Registry!HttpStatus, Reason
<1>5. Sent(c, o).ns = o.ns /\ Sent(c, o).body = Defaulted(c.body)
  BY DEF Sent
<1> HIDE DEF v, out, code
<1>6. /\ VSDKey(c, o).answer =
           [code  |-> code,
            items |-> IF code = "ok" /\ c.op # "delete"
                        THEN {Item(out.obj.ns, c.name, out.obj.body)} ELSE {}]
      /\ VSDKey(c, o).after =
           IF v = "proceed" THEN [vsd EXCEPT ![c.name] = Registry!Effect(Asked(c, o), 1)] ELSE vsd
  BY KeyIs DEF v, out, code
<1> QED
  BY <1>1, <1>2, <1>3, <1>4, <1>5, <1>6 DEF OK, VSDWith

\* A delete of nothing is an internal error.
LEMMA KeyDeleted ==
  ASSUME NEW c, NEW o, c.op = "delete"
  PROVE  /\ vsd[c.name] = Registry!Absent =>
              VSDKey(c, o).answer = Refused("Unknown") /\ VSDKey(c, o).after = vsd
         /\ vsd[c.name] # Registry!Absent =>
              /\ VSDKey(c, o).answer = OK({})
              /\ VSDKey(c, o).after = [vsd EXCEPT ![c.name] = Registry!Absent]
<1> DEFINE v == AskedVerdict(c, o)
           out == Registry!Outcome(Asked(c, o), vsd[c.name], v, 1)
           code == Reason(Registry!HttpStatus(c.op, out.code))
<1>1. v = IF vsd[c.name] = Registry!Absent THEN "notFound" ELSE "proceed"
  BY VerdictIs
<1>2. out.code = IF vsd[c.name] = Registry!Absent THEN "notFound" ELSE "deleted"
  BY <1>1, AskedIs DEF Registry!Outcome
<1>3. Registry!Effect(Asked(c, o), 1) = Registry!Absent
  BY AskedIs DEF Registry!Effect
<1>4. code = IF vsd[c.name] = Registry!Absent THEN "Unknown" ELSE "ok"
  BY <1>2 DEF Registry!HttpStatus, Reason
<1> HIDE DEF v, out, code
<1>5. /\ VSDKey(c, o).answer =
           [code  |-> code,
            items |-> IF code = "ok" /\ c.op # "delete"
                        THEN {Item(out.obj.ns, c.name, out.obj.body)} ELSE {}]
      /\ VSDKey(c, o).after =
           IF v = "proceed" THEN [vsd EXCEPT ![c.name] = Registry!Effect(Asked(c, o), 1)] ELSE vsd
  BY KeyIs DEF v, out, code
<1> QED
  BY <1>1, <1>3, <1>4, <1>5 DEF OK, Refused

LEMMA KeyGot ==
  ASSUME NEW c, NEW o, c.op = "get"
  PROVE  /\ VSDKey(c, o).answer =
              IF vsd[c.name] = Registry!Absent THEN Refused("NotFound")
              ELSE OK({Item(vsd[c.name].obj.ns, c.name, vsd[c.name].obj.body)})
         /\ VSDKey(c, o).after = vsd
<1> DEFINE v == AskedVerdict(c, o)
           out == Registry!Outcome(Asked(c, o), vsd[c.name], v, 1)
           code == Reason(Registry!HttpStatus(c.op, out.code))
<1>1. v = IF vsd[c.name] = Registry!Absent THEN "notFound" ELSE "found"
  BY VerdictIs
<1>2. /\ out.code = IF vsd[c.name] = Registry!Absent THEN "notFound" ELSE "found"
      /\ vsd[c.name] # Registry!Absent => out.obj = vsd[c.name].obj
  BY <1>1, AskedIs DEF Registry!Outcome
<1>3. code = IF vsd[c.name] = Registry!Absent THEN "NotFound" ELSE "ok"
  BY <1>2 DEF Registry!HttpStatus, Reason
<1> HIDE DEF v, out, code
<1>4. /\ VSDKey(c, o).answer =
           [code  |-> code,
            items |-> IF code = "ok" /\ c.op # "delete"
                        THEN {Item(out.obj.ns, c.name, out.obj.body)} ELSE {}]
      /\ VSDKey(c, o).after =
           IF v = "proceed" THEN [vsd EXCEPT ![c.name] = Registry!Effect(Asked(c, o), 1)] ELSE vsd
  BY KeyIs DEF v, out, code
<1> QED
  BY <1>1, <1>2, <1>3, <1>4 DEF OK, Refused

---------------------------------------------------------------------------
(* The fake, call by call.                                                 *)

LEMMA FakeIs ==
  ASSUME NEW c, NEW o
  PROVE  /\ c.op = "create" => Fake(c, o) = FakeStore(c, o, FALSE)
         /\ c.op \in {"update", "updateStatus"} => Fake(c, o) = FakeStore(c, o, TRUE)
         /\ c.op = "list" => Fake(c, o) = Result(FakeList(c), tracker)
         /\ c.op = "deleteCollection" => Fake(c, o) = Result(OK({}), tracker)
         /\ c.op \in {"get", "delete", "patch"} /\ ~Here(c) =>
              Fake(c, o) = Result(Refused("NotFound"), tracker)
         /\ c.op = "get" /\ Here(c) =>
              Fake(c, o) =
                Result(OK({Item(c.ns, c.name, tracker[c.res][<<c.ns, c.name>>])}), tracker)
         /\ c.op = "delete" /\ Here(c) =>
              Fake(c, o) = Result(OK({}), Put(c.res, <<c.ns, c.name>>, NoBody))
         /\ c.op = "patch" /\ Here(c) =>
              Fake(c, o) =
                Result(OK({Item(c.ns, c.name, c.body)}), Put(c.res, <<c.ns, c.name>>, c.body))
BY DEF Fake, Invokes, Here

LEMMA StoreIs ==
  ASSUME NEW c, NEW o, NEW replace \in BOOLEAN
  PROVE  /\ o.ns \notin {NoNamespace, c.ns} =>
              FakeStore(c, o, replace) = Result(Refused("BadRequest"), tracker)
         /\ o.ns \in {NoNamespace, c.ns} /\ replace # Here(c) =>
              FakeStore(c, o, replace) =
                Result(Refused(IF replace THEN "NotFound" ELSE "AlreadyExists"), tracker)
         /\ o.ns \in {NoNamespace, c.ns} /\ replace = Here(c) =>
              FakeStore(c, o, replace) =
                Result(OK({Item(c.ns, c.name, o.body)}), Put(c.res, <<c.ns, c.name>>, o.body))
<1>1. Here(c) \in BOOLEAN /\ (Here(c) <=> tracker[c.res][<<c.ns, c.name>>] # NoBody)
  BY DEF Here
<1>2. Propagated(o, c.ns) # c.ns <=> o.ns \notin {NoNamespace, c.ns}
  BY DEF Propagated
<1> QED
  BY <1>1, <1>2 DEF FakeStore

LEMMA Results ==
  ASSUME NEW answer, NEW after
  PROVE  Result(answer, after).answer = answer /\ Result(answer, after).after = after
BY DEF Result

LEMMA FakeCreates ==
  ASSUME NEW c, NEW o, c.op = "create"
  PROVE  /\ o.ns \notin {NoNamespace, c.ns} =>
              Fake(c, o).answer = Refused("BadRequest") /\ Fake(c, o).after = tracker
         /\ o.ns \in {NoNamespace, c.ns} /\ Here(c) =>
              Fake(c, o).answer = Refused("AlreadyExists") /\ Fake(c, o).after = tracker
         /\ o.ns \in {NoNamespace, c.ns} /\ ~Here(c) =>
              /\ Fake(c, o).answer = OK({Item(c.ns, c.name, o.body)})
              /\ Fake(c, o).after = Put(c.res, <<c.ns, c.name>>, o.body)
<1>1. Fake(c, o) = FakeStore(c, o, FALSE)
  BY FakeIs
<1>2. CASE o.ns \notin {NoNamespace, c.ns}
  <2>1. Fake(c, o) = Result(Refused("BadRequest"), tracker)
    BY <1>1, <1>2, StoreIs
  <2> QED
    BY <1>2, <2>1, Results
<1>3. CASE o.ns \in {NoNamespace, c.ns} /\ Here(c)
  <2>1. FALSE # Here(c)
    BY <1>3
  <2>2. Fake(c, o) = Result(Refused("AlreadyExists"), tracker)
    BY <1>1, <1>3, <2>1, StoreIs
  <2> QED
    BY <1>3, <2>2, Results
<1>4. CASE o.ns \in {NoNamespace, c.ns} /\ ~Here(c)
  <2>1. FALSE = Here(c)
    BY <1>4 DEF Here
  <2>2. Fake(c, o) =
          Result(OK({Item(c.ns, c.name, o.body)}), Put(c.res, <<c.ns, c.name>>, o.body))
    BY <1>1, <1>4, <2>1, StoreIs
  <2> QED
    BY <1>4, <2>2, Results
<1> QED
  BY <1>2, <1>3, <1>4

LEMMA FakeReplaces ==
  ASSUME NEW c, NEW o, c.op = "update" \/ c.op = "updateStatus"
  PROVE  /\ o.ns \notin {NoNamespace, c.ns} =>
              Fake(c, o).answer = Refused("BadRequest") /\ Fake(c, o).after = tracker
         /\ o.ns \in {NoNamespace, c.ns} /\ ~Here(c) =>
              Fake(c, o).answer = Refused("NotFound") /\ Fake(c, o).after = tracker
         /\ o.ns \in {NoNamespace, c.ns} /\ Here(c) =>
              /\ Fake(c, o).answer = OK({Item(c.ns, c.name, o.body)})
              /\ Fake(c, o).after = Put(c.res, <<c.ns, c.name>>, o.body)
<1>1. Fake(c, o) = FakeStore(c, o, TRUE)
  BY FakeIs
<1>2. CASE o.ns \notin {NoNamespace, c.ns}
  <2>1. Fake(c, o) = Result(Refused("BadRequest"), tracker)
    BY <1>1, <1>2, StoreIs
  <2> QED
    BY <1>2, <2>1, Results
<1>3. CASE o.ns \in {NoNamespace, c.ns} /\ ~Here(c)
  <2>1. TRUE # Here(c)
    BY <1>3
  <2>2. Fake(c, o) = Result(Refused("NotFound"), tracker)
    BY <1>1, <1>3, <2>1, StoreIs
  <2> QED
    BY <1>3, <2>2, Results
<1>4. CASE o.ns \in {NoNamespace, c.ns} /\ Here(c)
  <2>1. TRUE = Here(c)
    BY <1>4 DEF Here
  <2>2. Fake(c, o) =
          Result(OK({Item(c.ns, c.name, o.body)}), Put(c.res, <<c.ns, c.name>>, o.body))
    BY <1>1, <1>4, <2>1, StoreIs
  <2> QED
    BY <1>4, <2>2, Results
<1> QED
  BY <1>2, <1>3, <1>4

LEMMA Answers ==
  /\ \A items : OK(items).code = "ok" /\ OK(items).items = items
  /\ \A reason : Refused(reason).code = reason /\ Refused(reason).items = {}
BY DEF OK, Refused

LEMMA PutIs ==
  ASSUME tracker \in TrackerType, NEW r \in {VSD, DD}, NEW k \in Keys,
         NEW b \in BodiesOf(VSD) \cup {NoBody}
  PROVE  /\ Put(r, k, b) \in TrackerType
         /\ \A x \in Keys : Put(r, k, b)[r][x] = IF x = k THEN b ELSE tracker[r][x]
         /\ \A q \in {VSD, DD} \ {r} : Put(r, k, b)[q] = tracker[q]
<1> DEFINE Bodies == BodiesOf(VSD) \cup {NoBody}
<1>1. TrackerType = [{VSD, DD} -> [Keys -> Bodies]] /\ b \in Bodies
  BY DEF TrackerType, Keys
<1> HIDE DEF Bodies
<1> DEFINE new == [tracker[r] EXCEPT ![k] = b]
<1>2. tracker[r] \in [Keys -> Bodies]
  BY <1>1
<1>3. /\ new \in [Keys -> Bodies]
      /\ \A x \in Keys : new[x] = IF x = k THEN b ELSE tracker[r][x]
  BY <1>1, <1>2
<1>4. Put(r, k, b) = [tracker EXCEPT ![r] = new]
  BY DEF Put
<1> HIDE DEF new
<1> QED
  BY <1>1, <1>3, <1>4

---------------------------------------------------------------------------
(* What nobody has told apart.                                             *)

LEMMA StateIs ==
  ASSUME IInv
  PROVE  /\ tracker \in TrackerType /\ vsd \in RegistryType /\ dds \in GenericType
         /\ held \in Held
         /\ \A ns \in AnyNamespace, n \in Names :
              /\ tracker[VSD][<<ns, n>>] = SeenDelta(vsd[n], ns)
              /\ tracker[DD][<<ns, n>>] = SeenDiscovery(dds[n], ns)
<1>1. /\ tracker \in TrackerType /\ vsd \in RegistryType /\ dds \in GenericType
      /\ held \in Held
  BY DEF IInv, TypeOK, TrackerType, RegistryType, GenericType
<1>2. /\ TrackedItems(tracker, VSD) = StoredItems(vsd, dds, VSD)
      /\ TrackedItems(tracker, DD) = StoredItems(vsd, dds, DD)
  BY DEF IInv, SameObjects
<1> QED
  BY <1>1, <1>2, SameDeltas, SameDiscoveries

\* What is left to compare of a call about VolumeSnapshotDeltas,
LEMMA DeltasAlike ==
  ASSUME IInv, NEW c, c.res = VSD,
         Fake(c, held).after \in TrackerType, Fake(c, held).after[DD] = tracker[DD],
         RealVSD(c, held).after \in RegistryType
  PROVE  Alike(c, held) <=>
           /\ Fake(c, held).answer = RealVSD(c, held).answer
           /\ \A ns \in AnyNamespace, n \in Names :
                Fake(c, held).after[VSD][<<ns, n>>] = SeenDelta(RealVSD(c, held).after[n], ns)
<1> DEFINE t == Fake(c, held).after
           v == RealVSD(c, held).after
<1>1. Real(c, held) = RealVSD(c, held).answer /\ AfterVSD(c, held) = v /\ AfterDD(c, held) = dds
  BY ResourcesDiffer DEF Real, AfterVSD, AfterDD
<1>2. TrackedItems(t, DD) = StoredItems(v, dds, DD)
  BY StateIs, SameDiscoveries
<1>3. TrackedItems(t, VSD) = StoredItems(v, dds, VSD)
        <=> \A ns \in AnyNamespace, n \in Names : t[VSD][<<ns, n>>] = SeenDelta(v[n], ns)
  BY SameDeltas
<1> HIDE DEF t, v
<1>4. Alike(c, held) <=>
        /\ Fake(c, held).answer = RealVSD(c, held).answer
        /\ \A r \in {VSD, DD} : TrackedItems(t, r) = StoredItems(v, dds, r)
  BY <1>1 DEF Alike, t
<1> QED
  BY <1>2, <1>3, <1>4 DEF t, v

\* and of one about DriverDiscoveries.
LEMMA DiscoveriesAlike ==
  ASSUME IInv, NEW c, c.res = DD,
         Fake(c, held).after \in TrackerType, Fake(c, held).after[VSD] = tracker[VSD],
         RealDD(c, held).after \in GenericType
  PROVE  Alike(c, held) <=>
           /\ Fake(c, held).answer = RealDD(c, held).answer
           /\ \A ns \in AnyNamespace, n \in Names :
                Fake(c, held).after[DD][<<ns, n>>] = SeenDiscovery(RealDD(c, held).after[n], ns)
<1> DEFINE t == Fake(c, held).after
           d == RealDD(c, held).after
<1>1. Real(c, held) = RealDD(c, held).answer /\ AfterVSD(c, held) = vsd /\ AfterDD(c, held) = d
  BY ResourcesDiffer DEF Real, AfterVSD, AfterDD
<1>2. TrackedItems(t, VSD) = StoredItems(vsd, d, VSD)
  BY StateIs, SameDeltas
<1>3. TrackedItems(t, DD) = StoredItems(vsd, d, DD)
        <=> \A ns \in AnyNamespace, n \in Names : t[DD][<<ns, n>>] = SeenDiscovery(d[n], ns)
  BY SameDiscoveries
<1> HIDE DEF t, d
<1>4. Alike(c, held) <=>
        /\ Fake(c, held).answer = RealDD(c, held).answer
        /\ \A r \in {VSD, DD} : TrackedItems(t, r) = StoredItems(vsd, d, r)
  BY <1>1 DEF Alike, t
<1> QED
  BY <1>2, <1>3, <1>4 DEF t, d

---------------------------------------------------------------------------
(* Calls about VolumeSnapshotDeltas.                                       *)

LEMMA VSDWithIs ==
  ASSUME vsd \in RegistryType, NEW c, NEW o,
         c.name \in Names, c.body \in BodiesOf(VSD), o.ns \in AnyNamespace
  PROVE  /\ VSDWith(c, o) \in RegistryType
         /\ VSDWith(c, o)[c.name] # Registry!Absent
         /\ VSDWith(c, o)[c.name].obj = Sent(c, o)
         /\ \A n \in Names \ {c.name} : VSDWith(c, o)[n] = vsd[n]
<1> DEFINE st == [rev |-> 1, obj |-> Sent(c, o)]
<1>1. st \in Registry!KeyStates /\ st # Registry!Absent /\ st.obj = Sent(c, o)
  BY SentIs, WrittenKey
<1>2. VSDWith(c, o) = [vsd EXCEPT ![c.name] = st]
  BY DEF VSDWith
<1> HIDE DEF st
<1> QED
  BY <1>1, <1>2 DEF RegistryType

\* A key that holds what was sent, and what is seen of it.
LEMMA SeenOfSent ==
  ASSUME NEW c, NEW o, c.body \in BodiesOf(VSD), o.ns \in AnyNamespace,
         NEW st \in Registry!KeyStates, st.obj = Sent(c, o), NEW ns
  PROVE  SeenDelta(st, ns) = IF ns = o.ns THEN Defaulted(c.body) ELSE NoBody
<1>1. st # Registry!Absent
  BY SentIs, KeyStatesAre
<1> QED
  BY <1>1, SentIs DEF SeenDelta

\* An object is found where the tracker finds it.
LEMMA HereIs ==
  ASSUME IInv, NEW c, c.res = VSD, c.ns \in AnyNamespace, c.name \in Names
  PROVE  /\ Here(c) <=> vsd[c.name] # Registry!Absent /\ vsd[c.name].obj.ns = c.ns
         /\ Here(c) => tracker[VSD][<<c.ns, c.name>>] = vsd[c.name].obj.body
<1>1. vsd[c.name] # Registry!Absent => vsd[c.name].obj.body # NoBody
  BY StateIs, KeyStatesAre, ObjectsAre, BodiesAre DEF RegistryType
<1>2. tracker[VSD][<<c.ns, c.name>>] = SeenDelta(vsd[c.name], c.ns)
  BY StateIs
<1> QED
  BY <1>1, <1>2 DEF Here, SeenDelta

\* What such a call is.
LEMMA DeltaCall ==
  ASSUME IInv, NEW c \in CallsOf(held), c.res = VSD, c.op \notin {"list", "deleteCollection"}
  PROVE  /\ c.ns \in Namespaces /\ c.ns \in AnyNamespace /\ c.ns # NoNamespace
         /\ c.name \in Names /\ <<c.ns, c.name>> \in Keys
         /\ held.ns \in AnyNamespace
         /\ CarriesObject(c) => c.body = held.body /\ c.body \in BodiesOf(VSD)
BY StateIs, CallsAre, HeldIs, ScopesAre, NamespacesAssumption DEF AnyNamespace, Keys

\* Which calls have a route.
LEMMA RoutedDeltas ==
  ASSUME NEW c, NEW o
  PROVE  /\ c.op = "updateStatus" => RealVSD(c, o) = Result(Refused("NotFound"), vsd)
         /\ c.op \in {"patch", "deleteCollection"} =>
              RealVSD(c, o) = Result(Refused("MethodNotAllowed"), vsd)
         /\ c.op = "list" => RealVSD(c, o) = Result(VSDList(c), vsd)
         /\ c.op = "update" /\ o.ns \notin {NoNamespace, c.ns} =>
              RealVSD(c, o) = Result(Refused("BadRequest"), vsd)
         /\ c.op = "update" /\ o.ns \in {NoNamespace, c.ns} => RealVSD(c, o) = VSDKey(c, o)
         /\ c.op \in {"create", "get", "delete"} => RealVSD(c, o) = VSDKey(c, o)
<1>1. Routes(VSD) = {<<"POST", "collection">>, <<"GET", "collection">>, <<"GET", "object">>,
                     <<"PUT", "object">>, <<"DELETE", "object">>}
  BY DEF Routes
<1>2. /\ c.op = "updateStatus"     => Request(c.op) = <<"PUT", "object/status">>
      /\ c.op = "patch"            => Request(c.op) = <<"PATCH", "object">>
      /\ c.op = "deleteCollection" => Request(c.op) = <<"DELETE", "collection">>
      /\ c.op = "list"             => Request(c.op) = <<"GET", "collection">>
      /\ c.op = "create"           => Request(c.op) = <<"POST", "collection">>
      /\ c.op = "update"           => Request(c.op) = <<"PUT", "object">>
      /\ c.op = "get"              => Request(c.op) = <<"GET", "object">>
      /\ c.op = "delete"           => Request(c.op) = <<"DELETE", "object">>
  BY DEF Request, RootRequest
<1>3. c.op \in {"updateStatus", "patch", "deleteCollection"} => Request(c.op) \notin Routes(VSD)
  BY <1>1, <1>2
<1>4. c.op \in {"create", "update", "get", "delete", "list"} => Request(c.op) \in Routes(VSD)
  BY <1>1, <1>2
<1>5. /\ c.op = "updateStatus" => Unrouted(Request(c.op)) = Refused("NotFound")
      /\ c.op \in {"patch", "deleteCollection"} =>
           Unrouted(Request(c.op)) = Refused("MethodNotAllowed")
  BY <1>2 DEF Unrouted
<1>6. NamespaceRefused(c, o) <=> c.op = "update" /\ o.ns \notin {NoNamespace, c.ns}
  BY DEF NamespaceRefused
<1> QED
  BY <1>3, <1>4, <1>5, <1>6 DEF RealVSD

\* What a call leaves is of the type it was.
LEMMA FakeType ==
  ASSUME IInv, NEW c \in CallsOf(held)
  PROVE  /\ Fake(c, held).after \in TrackerType
         /\ \A q \in {VSD, DD} \ {c.res} : Fake(c, held).after[q] = tracker[q]
<1> DEFINE k == <<c.ns, c.name>>
<1>1. /\ c.op \in {"create", "update", "updateStatus", "get", "delete", "patch", "list",
                   "deleteCollection"}
      /\ c.res \in {VSD, DD} /\ c.ns \in AnyNamespace
  BY StateIs, CallsAre DEF CallRecords
<1>2. /\ tracker \in TrackerType
      /\ held.body \in BodiesOf(VSD)
      /\ c.op = "patch" => c.body \in BodiesOf(VSD)
      /\ c.op \notin {"list", "deleteCollection"} => k \in Keys
  BY <1>1, StateIs, CallsAre, HeldIs, BodiesAre DEF Keys
<1>3. /\ Fake(c, held).after = tracker
      \/ /\ k \in Keys
         /\ \E b \in BodiesOf(VSD) \cup {NoBody} : Fake(c, held).after = Put(c.res, k, b)
  <2>1. CASE c.op \in {"create", "update", "updateStatus"}
    <3>1. PICK replace \in BOOLEAN : Fake(c, held) = FakeStore(c, held, replace)
      BY <2>1, FakeIs
    <3>2. FakeStore(c, held, replace).after \in {tracker, Put(c.res, k, held.body)}
      BY DEF FakeStore, Result
    <3> QED
      BY <1>2, <2>1, <3>1, <3>2
  <2>2. CASE c.op \in {"list", "deleteCollection"}
    <3>1. Fake(c, held) = Result(FakeList(c), tracker) \/ Fake(c, held) = Result(OK({}), tracker)
      BY <2>2, FakeIs
    <3> QED
      BY <3>1 DEF Result
  <2>3. CASE c.op \in {"get", "delete", "patch"}
    <3>1. /\ c.op = "get" \/ ~Here(c) => Fake(c, held).after = tracker
          /\ c.op = "delete" /\ Here(c) => Fake(c, held).after = Put(c.res, k, NoBody)
          /\ c.op = "patch" /\ Here(c) => Fake(c, held).after = Put(c.res, k, c.body)
      <4>1. CASE ~Here(c)
        <5>1. Fake(c, held) = Result(Refused("NotFound"), tracker)
          BY <2>3, <4>1, FakeIs
        <5> QED
          BY <4>1, <5>1 DEF Result
      <4>2. CASE Here(c) /\ c.op = "get"
        <5>1. Fake(c, held) =
                Result(OK({Item(c.ns, c.name, tracker[c.res][<<c.ns, c.name>>])}), tracker)
          BY <4>2, FakeIs
        <5> QED
          BY <4>2, <5>1 DEF Result
      <4>3. CASE Here(c) /\ c.op = "delete"
        <5>1. Fake(c, held) = Result(OK({}), Put(c.res, k, NoBody))
          BY <4>3, FakeIs
        <5> QED
          BY <4>3, <5>1 DEF Result
      <4>4. CASE Here(c) /\ c.op = "patch"
        <5>1. Fake(c, held) = Result(OK({Item(c.ns, c.name, c.body)}), Put(c.res, k, c.body))
          BY <4>4, FakeIs
        <5> QED
          BY <4>4, <5>1 DEF Result
      <4> QED
        BY <2>3, <4>1, <4>2, <4>3, <4>4
    <3> QED
      BY <1>2, <2>3, <3>1
  <2> QED
    BY <1>1, <2>1, <2>2, <2>3
<1> HIDE DEF k
<1> QED
  BY <1>1, <1>2, <1>3, PutIs

LEMMA RealVSDType ==
  ASSUME IInv, NEW c \in CallsOf(held), c.res = VSD
  PROVE  RealVSD(c, held).after \in RegistryType
<1>1. vsd \in RegistryType
  BY StateIs
<1>2. CASE c.op \in {"updateStatus", "patch", "deleteCollection", "list"}
  BY <1>1, <1>2, RoutedDeltas, Results
<1>3. CASE c.op \in {"create", "update"}
  <2>1. VSDWith(c, held) \in RegistryType
    BY <1>1, <1>3, DeltaCall, VSDWithIs DEF CarriesObject
  <2>2. CASE c.op = "create"
    <3>1. RealVSD(c, held) = VSDKey(c, held)
      BY <2>2, RoutedDeltas
    <3>2. VSDKey(c, held).after \in {vsd, VSDWith(c, held)}
      BY <2>2, KeyCreated, KeyNotCreated
    <3> QED
      BY <1>1, <2>1, <3>1, <3>2
  <2>3. CASE c.op = "update"
    <3>1. \/ RealVSD(c, held) = VSDKey(c, held)
          \/ RealVSD(c, held) = Result(Refused("BadRequest"), vsd)
      BY <2>3, RoutedDeltas
    <3>2. VSDKey(c, held).after \in {vsd, VSDWith(c, held)}
      BY <2>3, KeyUpdated
    <3> QED
      BY <1>1, <2>1, <3>1, <3>2, Results
  <2> QED
    BY <1>3, <2>2, <2>3
<1>4. CASE c.op = "get"
  BY <1>1, <1>4, RoutedDeltas, KeyGot
<1>5. CASE c.op = "delete"
  <2>1. Registry!Absent \in Registry!KeyStates
    BY DEF Registry!KeyStates
  <2>2. [vsd EXCEPT ![c.name] = Registry!Absent] \in RegistryType
    BY <1>1, <2>1 DEF RegistryType
  <2> QED
    BY <1>1, <1>5, <2>2, RoutedDeltas, KeyDeleted
<1> QED
  BY <1>2, <1>3, <1>4, <1>5, StateIs, CallsAre DEF CallRecords

LEMMA DeltaAlike ==
  ASSUME IInv, NEW c \in CallsOf(held), c.res = VSD
  PROVE  Alike(c, held) <=>
           /\ Fake(c, held).answer = RealVSD(c, held).answer
           /\ \A ns \in AnyNamespace, n \in Names :
                Fake(c, held).after[VSD][<<ns, n>>] = SeenDelta(RealVSD(c, held).after[n], ns)
BY DeltasAlike, FakeType, RealVSDType, ResourcesDiffer

\* Both sides leave things as they are: only the answers count.
LEMMA DeltasUntouched ==
  ASSUME IInv, NEW c \in CallsOf(held), c.res = VSD,
         Fake(c, held).after = tracker, RealVSD(c, held).after = vsd
  PROVE  Alike(c, held) <=> Fake(c, held).answer = RealVSD(c, held).answer
BY DeltaAlike, StateIs

\* What the tracker shows after it is written, next to the registry before.
LEMMA PutSeen ==
  ASSUME IInv, NEW c, c.ns \in AnyNamespace, c.name \in Names,
         NEW b \in BodiesOf(VSD) \cup {NoBody}
  PROVE  \A ns \in AnyNamespace, n \in Names :
           Put(VSD, <<c.ns, c.name>>, b)[VSD][<<ns, n>>] =
             IF n = c.name /\ ns = c.ns THEN b ELSE SeenDelta(vsd[n], ns)
<1> TAKE ns \in AnyNamespace, n \in Names
<1>1. <<c.ns, c.name>> \in Keys /\ <<ns, n>> \in Keys /\ VSD \in {VSD, DD}
  BY DEF Keys
<1>2. Put(VSD, <<c.ns, c.name>>, b)[VSD][<<ns, n>>] =
        IF <<ns, n>> = <<c.ns, c.name>> THEN b ELSE tracker[VSD][<<ns, n>>]
  BY <1>1, PutIs, StateIs
<1>3. tracker[VSD][<<ns, n>>] = SeenDelta(vsd[n], ns)
  BY StateIs
<1>4. <<ns, n>> = <<c.ns, c.name>> <=> n = c.name /\ ns = c.ns
  OBVIOUS
<1> QED
  BY <1>2, <1>3, <1>4

LEMMA OneItem ==
  ASSUME NEW ns, NEW n, NEW b, NEW ms, NEW m, NEW d
  PROVE  OK({Item(ns, n, b)}) = OK({Item(ms, m, d)}) <=> ns = ms /\ n = m /\ b = d
<1>1. OK({Item(ns, n, b)}) = OK({Item(ms, m, d)}) <=> {Item(ns, n, b)} = {Item(ms, m, d)}
  BY Answers
<1>2. {Item(ns, n, b)} = {Item(ms, m, d)} <=> Item(ns, n, b) = Item(ms, m, d)
  OBVIOUS
<1> QED
  BY <1>1, <1>2, ItemFields

LEMMA CreatesOfDeltas ==
  ASSUME IInv, NEW c \in CallsOf(held), c.res = VSD, c.op = "create"
  PROVE  KnownDifference(c, held) <=> ~Alike(c, held)
<1> DEFINE k == <<c.ns, c.name>>
<1>1. KnownDifference(c, held) <=>
        \/ held.rv # "none" \/ vsd[c.name] # Registry!Absent
        \/ held.ns # c.ns \/ held.body.mode = NoMode
  BY ResourcesDiffer DEF KnownDifference
<1>2. RealVSD(c, held) = VSDKey(c, held)
  BY RoutedDeltas
<1>3. /\ c.ns \in AnyNamespace /\ c.ns # NoNamespace /\ c.name \in Names /\ k \in Keys
      /\ held.ns \in AnyNamespace
      /\ c.body = held.body /\ c.body \in BodiesOf(VSD)
      /\ vsd \in RegistryType /\ tracker \in TrackerType
  BY DeltaCall, StateIs DEF CarriesObject
<1>4. Here(c) <=> vsd[c.name] # Registry!Absent /\ vsd[c.name].obj.ns = c.ns
  BY <1>3, HereIs
<1>5. CASE held.rv # "none"
  <2>1. RealVSD(c, held).answer.code = "Unknown"
    BY <1>2, <1>5, KeyNotCreated, Answers
  <2>2. Fake(c, held).answer.code \in {"BadRequest", "AlreadyExists", "ok"}
    <3>1. \/ Fake(c, held).answer = Refused("BadRequest")
          \/ Fake(c, held).answer = Refused("AlreadyExists")
          \/ Fake(c, held).answer = OK({Item(c.ns, c.name, held.body)})
      BY FakeCreates
    <3> QED
      BY <3>1, Answers
  <2> QED
    BY <1>1, <1>5, <2>1, <2>2, DeltaAlike
<1>6. CASE held.rv = "none" /\ (Here(c) \/ held.ns \notin {NoNamespace, c.ns})
  <2>1. RealVSD(c, held).answer.code = "ok"
    <3>1. RealVSD(c, held).answer = OK({Item(held.ns, c.name, Defaulted(c.body))})
      BY <1>2, <1>6, KeyCreated
    <3> QED
      BY <3>1, Answers
  <2>2. Fake(c, held).answer.code \in {"BadRequest", "AlreadyExists"}
    <3>1. \/ Fake(c, held).answer = Refused("BadRequest")
          \/ Fake(c, held).answer = Refused("AlreadyExists")
      BY <1>6, FakeCreates
    <3> QED
      BY <3>1, Answers
  <2> QED
    BY <1>1, <1>4, <1>6, <2>1, <2>2, DeltaAlike
<1>7. CASE held.rv = "none" /\ ~Here(c) /\ held.ns \in {NoNamespace, c.ns}
  <2>2. /\ Fake(c, held).answer = OK({Item(c.ns, c.name, held.body)})
        /\ Fake(c, held).after = Put(VSD, k, held.body)
    BY <1>7, FakeCreates
  <2>3. /\ RealVSD(c, held).answer = OK({Item(held.ns, c.name, Defaulted(c.body))})
        /\ RealVSD(c, held).after =
             IF vsd[c.name] = Registry!Absent THEN VSDWith(c, held) ELSE vsd
    BY <1>2, <1>7, KeyCreated
  <2>4. Fake(c, held).answer = RealVSD(c, held).answer
          <=> held.ns = c.ns /\ held.body.mode # NoMode
    BY <1>3, <2>2, <2>3, OneItem, DefaultedIs
  <2>5. \A ns \in AnyNamespace, n \in Names :
          Put(VSD, k, held.body)[VSD][<<ns, n>>] =
            IF n = c.name /\ ns = c.ns THEN held.body ELSE SeenDelta(vsd[n], ns)
    <3>1. held.body \in BodiesOf(VSD) \cup {NoBody}
      BY <1>3
    <3>2. c.ns \in AnyNamespace /\ c.name \in Names
      BY <1>3
    <3> QED
      BY <3>1, <3>2, PutSeen
  <2>6. CASE vsd[c.name] # Registry!Absent
    <3>1. held.body # NoBody /\ SeenDelta(vsd[c.name], c.ns) = NoBody
      BY <1>3, <1>4, <1>7, BodiesAre DEF SeenDelta
    <3> QED
      BY <1>1, <1>3, <2>2, <2>3, <2>5, <2>6, <3>1, DeltaAlike
  <2>7. CASE vsd[c.name] = Registry!Absent /\ held.ns = c.ns /\ held.body.mode # NoMode
    <3>1. ASSUME NEW ns \in AnyNamespace, NEW n \in Names
          PROVE  Put(VSD, k, held.body)[VSD][<<ns, n>>] = SeenDelta(VSDWith(c, held)[n], ns)
      <4>1. Defaulted(c.body) = held.body
        BY <1>3, <2>7, DefaultedIs
      <4>2. VSDWith(c, held)[c.name] \in Registry!KeyStates
        BY <1>3, VSDWithIs DEF RegistryType
      <4>3. SeenDelta(VSDWith(c, held)[c.name], ns) = IF ns = held.ns THEN held.body ELSE NoBody
        BY <1>3, <4>1, <4>2, VSDWithIs, SeenOfSent
      <4>4. SeenDelta(vsd[c.name], ns) = NoBody
        BY <2>7 DEF SeenDelta
      <4> QED
        BY <1>3, <2>5, <2>7, <4>3, <4>4, VSDWithIs
    <3> QED
      BY <1>1, <1>7, <2>2, <2>3, <2>4, <2>7, <3>1, DeltaAlike
  <2> QED
    BY <1>1, <2>4, <2>6, <2>7, DeltaAlike
<1> QED
  BY <1>5, <1>6, <1>7

LEMMA UpdatesOfDeltas ==
  ASSUME IInv, NEW c \in CallsOf(held), c.res = VSD, c.op = "update"
  PROVE  KnownDifference(c, held) <=> ~Alike(c, held)
<1> DEFINE k == <<c.ns, c.name>>
<1>1. KnownDifference(c, held) <=>
        \/ held.ns = NoNamespace
        \/ held.ns = c.ns /\ (~Here(c) \/ held.body.mode = NoMode)
  BY ResourcesDiffer DEF KnownDifference
<1>2. /\ c.ns \in AnyNamespace /\ c.ns # NoNamespace /\ c.name \in Names
      /\ held.ns \in AnyNamespace
      /\ c.body = held.body /\ c.body \in BodiesOf(VSD)
      /\ vsd \in RegistryType
  BY DeltaCall, StateIs DEF CarriesObject
<1>3. CASE held.ns \notin {NoNamespace, c.ns}
  <2>1. RealVSD(c, held).answer = Refused("BadRequest") /\ RealVSD(c, held).after = vsd
    <3>1. RealVSD(c, held) = Result(Refused("BadRequest"), vsd)
      BY <1>3, RoutedDeltas
    <3> QED
      BY <3>1, Results
  <2>2. Fake(c, held).answer = Refused("BadRequest") /\ Fake(c, held).after = tracker
    BY <1>3, FakeReplaces
  <2> QED
    BY <1>1, <1>3, <2>1, <2>2, DeltasUntouched
<1>4. CASE held.ns \in {NoNamespace, c.ns}
  <2>1. /\ RealVSD(c, held).answer = OK({Item(held.ns, c.name, Defaulted(c.body))})
        /\ RealVSD(c, held).after =
             IF vsd[c.name].obj = Sent(c, held) THEN vsd ELSE VSDWith(c, held)
    <3>1. RealVSD(c, held) = VSDKey(c, held)
      BY <1>4, RoutedDeltas
    <3> QED
      BY <3>1, KeyUpdated
  <2>2. CASE ~Here(c)
    <3>1. Fake(c, held).answer = Refused("NotFound")
      BY <1>4, <2>2, FakeReplaces
    <3>2. Fake(c, held).answer # RealVSD(c, held).answer
      BY <2>1, <3>1, Answers
    <3> QED
      BY <1>1, <1>4, <2>2, <3>2, DeltaAlike
  <2>3. CASE Here(c)
    <3>1. /\ Fake(c, held).answer = OK({Item(c.ns, c.name, held.body)})
          /\ Fake(c, held).after = Put(VSD, k, held.body)
      BY <1>4, <2>3, FakeReplaces
    <3>2. Fake(c, held).answer = RealVSD(c, held).answer
            <=> held.ns = c.ns /\ held.body.mode # NoMode
      BY <1>2, <2>1, <3>1, OneItem, DefaultedIs
    <3>3. ASSUME held.ns = c.ns, held.body.mode # NoMode,
                 NEW ns \in AnyNamespace, NEW n \in Names
          PROVE  Put(VSD, k, held.body)[VSD][<<ns, n>>] =
                   SeenDelta(RealVSD(c, held).after[n], ns)
      <4> DEFINE v == RealVSD(c, held).after
      <4>1. Put(VSD, k, held.body)[VSD][<<ns, n>>] =
              IF n = c.name /\ ns = c.ns THEN held.body ELSE SeenDelta(vsd[n], ns)
        <5>1. held.body \in BodiesOf(VSD) \cup {NoBody}
          BY <1>2
        <5> QED
          BY <1>2, <5>1, PutSeen
      <4>2. /\ v[c.name] \in Registry!KeyStates /\ v[c.name].obj = Sent(c, held)
            /\ n # c.name => v[n] = vsd[n]
        <5>1. CASE vsd[c.name].obj = Sent(c, held)
          BY <1>2, <2>1, <5>1 DEF RegistryType
        <5>2. CASE vsd[c.name].obj # Sent(c, held)
          BY <1>2, <2>1, <5>2, VSDWithIs DEF RegistryType
        <5> QED
          BY <5>1, <5>2
      <4>3. Defaulted(c.body) = held.body
        BY <1>2, <3>3, DefaultedIs
      <4> HIDE DEF v
      <4>4. SeenDelta(v[c.name], ns) = IF ns = c.ns THEN held.body ELSE NoBody
        BY <1>2, <3>3, <4>2, <4>3, SeenOfSent
      <4>5. vsd[c.name].obj.ns = c.ns
        BY <1>2, <2>3, HereIs
      <4>6. ns # c.ns => SeenDelta(vsd[c.name], ns) = NoBody
        BY <4>5 DEF SeenDelta
      <4> QED
        BY <4>1, <4>2, <4>4, <4>6 DEF v
    <3> QED
      BY <1>1, <1>2, <1>4, <2>3, <3>1, <3>2, <3>3, DeltaAlike
  <2> QED
    BY <2>2, <2>3
<1> QED
  BY <1>3, <1>4

\* Nothing routes a status, a patch or a delete of the collection.
LEMMA UnroutedOfDeltas ==
  ASSUME IInv, NEW c \in CallsOf(held), c.res = VSD,
         c.op \in {"updateStatus", "patch", "deleteCollection"}
  PROVE  KnownDifference(c, held) <=> ~Alike(c, held)
<1>1. CASE c.op = "updateStatus"
  <2>1. KnownDifference(c, held) <=> Here(c) \/ held.ns \notin {NoNamespace, c.ns}
    BY <1>1, ResourcesDiffer DEF KnownDifference
  <2>2. RealVSD(c, held).answer = Refused("NotFound") /\ RealVSD(c, held).after = vsd
    <3>1. RealVSD(c, held) = Result(Refused("NotFound"), vsd)
      BY <1>1, RoutedDeltas
    <3> QED
      BY <3>1, Results
  <2>3. CASE held.ns \notin {NoNamespace, c.ns}
    <3>1. Fake(c, held).answer = Refused("BadRequest")
      BY <1>1, <2>3, FakeReplaces
    <3>2. Fake(c, held).answer # RealVSD(c, held).answer
      BY <2>2, <3>1, Answers
    <3> QED
      BY <2>1, <2>3, <3>2, DeltaAlike
  <2>4. CASE held.ns \in {NoNamespace, c.ns} /\ ~Here(c)
    <3>1. Fake(c, held).answer = Refused("NotFound") /\ Fake(c, held).after = tracker
      BY <1>1, <2>4, FakeReplaces
    <3> QED
      BY <2>1, <2>2, <2>4, <3>1, DeltasUntouched
  <2>5. CASE held.ns \in {NoNamespace, c.ns} /\ Here(c)
    <3>1. Fake(c, held).answer = OK({Item(c.ns, c.name, held.body)})
      BY <1>1, <2>5, FakeReplaces
    <3>2. Fake(c, held).answer # RealVSD(c, held).answer
      BY <2>2, <3>1, Answers
    <3> QED
      BY <2>1, <2>5, <3>2, DeltaAlike
  <2> QED
    BY <2>3, <2>4, <2>5
<1>2. CASE c.op \in {"patch", "deleteCollection"}
  <2>1. KnownDifference(c, held)
    BY <1>2 DEF KnownDifference
  <2>2. RealVSD(c, held).answer.code = "MethodNotAllowed"
    <3>1. RealVSD(c, held) = Result(Refused("MethodNotAllowed"), vsd)
      BY <1>2, RoutedDeltas
    <3> QED
      BY <3>1, Results, Answers
  <2>3. Fake(c, held).answer.code \in {"NotFound", "ok"}
    <3>1. /\ c.op = "deleteCollection" => Fake(c, held) = Result(OK({}), tracker)
          /\ c.op = "patch" /\ ~Here(c) => Fake(c, held) = Result(Refused("NotFound"), tracker)
          /\ c.op = "patch" /\ Here(c) =>
               Fake(c, held) =
                 Result(OK({Item(c.ns, c.name, c.body)}), Put(c.res, <<c.ns, c.name>>, c.body))
      BY FakeIs
    <3> QED
      BY <1>2, <3>1 DEF Result, OK, Refused
  <2> QED
    BY <2>1, <2>2, <2>3, DeltaAlike
<1> QED
  BY <1>1, <1>2

LEMMA GetsOfDeltas ==
  ASSUME IInv, NEW c \in CallsOf(held), c.res = VSD, c.op = "get"
  PROVE  KnownDifference(c, held) <=> ~Alike(c, held)
<1>1. KnownDifference(c, held) <=> vsd[c.name] # Registry!Absent /\ vsd[c.name].obj.ns # c.ns
  BY ResourcesDiffer DEF KnownDifference, Elsewhere
<1>2. /\ Here(c) <=> vsd[c.name] # Registry!Absent /\ vsd[c.name].obj.ns = c.ns
      /\ Here(c) => tracker[VSD][<<c.ns, c.name>>] = vsd[c.name].obj.body
  BY DeltaCall, HereIs
<1>3. RealVSD(c, held) = VSDKey(c, held)
  BY RoutedDeltas
<1>4. CASE Here(c)
  <2>1. Fake(c, held) =
          Result(OK({Item(c.ns, c.name, tracker[c.res][<<c.ns, c.name>>])}), tracker)
    BY <1>4, FakeIs
  <2>2. /\ Fake(c, held).answer = OK({Item(c.ns, c.name, vsd[c.name].obj.body)})
        /\ Fake(c, held).after = tracker
    <3>1. tracker[c.res][<<c.ns, c.name>>] = vsd[c.name].obj.body
      BY <1>2, <1>4
    <3>2. Fake(c, held) = Result(OK({Item(c.ns, c.name, vsd[c.name].obj.body)}), tracker)
      BY <2>1, <3>1
    <3> QED
      BY <3>2, Results
  <2>3. /\ RealVSD(c, held).answer = OK({Item(c.ns, c.name, vsd[c.name].obj.body)})
        /\ RealVSD(c, held).after = vsd
    BY <1>2, <1>3, <1>4, KeyGot
  <2> QED
    BY <1>1, <1>2, <1>4, <2>2, <2>3, DeltasUntouched
<1>5. CASE ~Here(c)
  <2>1. Fake(c, held) = Result(Refused("NotFound"), tracker)
    BY <1>5, FakeIs
  <2>2. Fake(c, held).answer = Refused("NotFound") /\ Fake(c, held).after = tracker
    BY <2>1, Results
  <2>3. CASE vsd[c.name] = Registry!Absent
    <3>1. RealVSD(c, held).answer = Refused("NotFound") /\ RealVSD(c, held).after = vsd
      BY <1>3, <2>3, KeyGot
    <3> QED
      BY <1>1, <2>2, <2>3, <3>1, DeltasUntouched
  <2>4. CASE vsd[c.name] # Registry!Absent
    <3>1. RealVSD(c, held).answer =
            OK({Item(vsd[c.name].obj.ns, c.name, vsd[c.name].obj.body)})
      BY <1>3, <2>4, KeyGot
    <3>2. Fake(c, held).answer # RealVSD(c, held).answer
      BY <2>2, <3>1, Answers
    <3> QED
      BY <1>1, <1>2, <1>5, <2>4, <3>2, DeltaAlike
  <2> QED
    BY <2>3, <2>4
<1> QED
  BY <1>4, <1>5

LEMMA DeletesOfDeltas ==
  ASSUME IInv, NEW c \in CallsOf(held), c.res = VSD, c.op = "delete"
  PROVE  KnownDifference(c, held) <=> ~Alike(c, held)
<1>1. KnownDifference(c, held) <=> ~Here(c)
  BY ResourcesDiffer DEF KnownDifference
<1>2. /\ Here(c) <=> vsd[c.name] # Registry!Absent /\ vsd[c.name].obj.ns = c.ns
      /\ c.ns \in AnyNamespace /\ c.name \in Names
      /\ vsd \in RegistryType
  BY DeltaCall, HereIs, StateIs
<1>3. RealVSD(c, held) = VSDKey(c, held)
  BY RoutedDeltas
<1>4. CASE Here(c)
  <2>1. Fake(c, held) = Result(OK({}), Put(c.res, <<c.ns, c.name>>, NoBody))
    BY <1>4, FakeIs
  <2>2. /\ Fake(c, held).answer = OK({})
        /\ Fake(c, held).after = Put(VSD, <<c.ns, c.name>>, NoBody)
    BY <2>1, Results
  <2>3. /\ RealVSD(c, held).answer = OK({})
        /\ RealVSD(c, held).after = [vsd EXCEPT ![c.name] = Registry!Absent]
    BY <1>2, <1>3, <1>4, KeyDeleted
  <2>4. ASSUME NEW ns \in AnyNamespace, NEW n \in Names
        PROVE  Put(VSD, <<c.ns, c.name>>, NoBody)[VSD][<<ns, n>>] =
                 SeenDelta([vsd EXCEPT ![c.name] = Registry!Absent][n], ns)
    <3>1. Put(VSD, <<c.ns, c.name>>, NoBody)[VSD][<<ns, n>>] =
            IF n = c.name /\ ns = c.ns THEN NoBody ELSE SeenDelta(vsd[n], ns)
      <4>1. NoBody \in BodiesOf(VSD) \cup {NoBody}
        OBVIOUS
      <4> QED
        BY <1>2, <4>1, PutSeen
    <3>2. [vsd EXCEPT ![c.name] = Registry!Absent][n] =
            IF n = c.name THEN Registry!Absent ELSE vsd[n]
      BY <1>2 DEF RegistryType
    <3>3. ns # c.ns => SeenDelta(vsd[c.name], ns) = NoBody
      BY <1>2, <1>4 DEF SeenDelta
    <3>4. SeenDelta(Registry!Absent, ns) = NoBody
      BY DEF SeenDelta
    <3> QED
      BY <3>1, <3>2, <3>3, <3>4
  <2> QED
    BY <1>1, <1>4, <2>2, <2>3, <2>4, DeltaAlike
<1>5. CASE ~Here(c)
  <2>1. Fake(c, held) = Result(Refused("NotFound"), tracker)
    BY <1>5, FakeIs
  <2>2. Fake(c, held).answer.code = "NotFound"
    BY <2>1, Results, Answers
  <2>3. RealVSD(c, held).answer.code \in {"Unknown", "ok"}
    <3>1. RealVSD(c, held).answer = Refused("Unknown") \/ RealVSD(c, held).answer = OK({})
      <4>1. VSDKey(c, held).answer = Refused("Unknown") \/ VSDKey(c, held).answer = OK({})
        BY KeyDeleted, Zenon
      <4> QED
        BY <1>3, <4>1, Zenon
    <3> QED
      BY <3>1, Answers
  <2> QED
    BY <1>1, <1>5, <2>2, <2>3, DeltaAlike
<1> QED
  BY <1>4, <1>5

---------------------------------------------------------------------------
(* Lists.                                                                  *)

SelectedByLabel(c, i) == c.label \in {NoLabel, i.body.label}

LEMMA FakeLists ==
  ASSUME NEW c \in CallRecords, tracker \in TrackerType
  PROVE  FakeList(c) =
           OK({i \in TrackedItems(tracker, c.res) :
                 SelectedByLabel(c, i) /\ c.ns \in {NoNamespace, i.ns}})
<1> DEFINE f == tracker[c.res]
           d == [c EXCEPT !.field = NoName]
           stored == {k \in DOMAIN f : f[k] # NoBody}
           listed == {Item(k[1], k[2], f[k]) : k \in {x \in stored : c.ns \in {NoNamespace, x[1]}}}
           all == {Item(k[1], k[2], f[k]) : k \in stored}
<1>1. d.label = c.label /\ d.field = NoName
  BY DEF CallRecords
<1>2. FakeList(c) = OK(Selected(d, listed)) /\ TrackedItems(tracker, c.res) = all
  BY DEF FakeList, TrackedItems
<1>3. listed = {i \in all : c.ns \in {NoNamespace, i.ns}}
  BY ItemFields
<1> HIDE DEF d, listed, all
<1>4. Selected(d, listed) = {i \in listed : SelectedByLabel(c, i)}
  BY <1>1 DEF Selected, SelectedByLabel
<1>5. {i \in listed : SelectedByLabel(c, i)} =
        {i \in all : SelectedByLabel(c, i) /\ c.ns \in {NoNamespace, i.ns}}
  BY <1>3
<1> QED
  BY <1>2, <1>4, <1>5

\* Two parts of a set differ when some element is in one of them only.
LEMMA PartsDiffer ==
  ASSUME NEW c, NEW items
  PROVE  OK({i \in items : SelectedByLabel(c, i) /\ c.ns \in {NoNamespace, i.ns}})
           # OK({i \in items : SelectedByLabel(c, i) /\ c.field \in {NoName, i.name}})
         <=> \E i \in items :
               /\ c.label \in {NoLabel, i.body.label}
               /\ (c.ns \in {NoNamespace, i.ns}) # (c.field \in {NoName, i.name})
<1> DEFINE S == {i \in items : SelectedByLabel(c, i) /\ c.ns \in {NoNamespace, i.ns}}
           T == {i \in items : SelectedByLabel(c, i) /\ c.field \in {NoName, i.name}}
<1>1. \A x, y : OK(x) = OK(y) <=> x = y
  BY Answers
<1>2. S # T <=> \E i \in items : (i \in S) # (i \in T)
  OBVIOUS
<1>3. \A i \in items : (i \in S) # (i \in T) <=>
        /\ c.label \in {NoLabel, i.body.label}
        /\ (c.ns \in {NoNamespace, i.ns}) # (c.field \in {NoName, i.name})
  BY DEF SelectedByLabel
<1> HIDE DEF S, T
<1>4. OK(S) # OK(T) <=> \E i \in items :
        /\ c.label \in {NoLabel, i.body.label}
        /\ (c.ns \in {NoNamespace, i.ns}) # (c.field \in {NoName, i.name})
  BY <1>1, <1>2, <1>3
<1> QED
  BY <1>4 DEF S, T

LEMMA ListsOfDeltas ==
  ASSUME IInv, NEW c \in CallsOf(held), c.res = VSD, c.op = "list"
  PROVE  KnownDifference(c, held) <=> ~Alike(c, held)
<1> DEFINE items == TrackedItems(tracker, VSD)
<1>1. KnownDifference(c, held) <=>
        \E i \in items :
          /\ c.label \in {NoLabel, i.body.label}
          /\ (c.ns \in {NoNamespace, i.ns}) # (c.field \in {NoName, i.name})
  BY ResourcesDiffer DEF KnownDifference, CarriesObject
<1>2. /\ Fake(c, held).answer =
           OK({i \in items : SelectedByLabel(c, i) /\ c.ns \in {NoNamespace, i.ns}})
      /\ Fake(c, held).after = tracker
  <2>1. Fake(c, held) = Result(FakeList(c), tracker)
    BY FakeIs
  <2>2. c \in CallRecords /\ tracker \in TrackerType
    BY StateIs, CallsAre
  <2> QED
    BY <2>1, <2>2, FakeLists, Results
<1>3. /\ RealVSD(c, held).answer =
           OK({i \in items : SelectedByLabel(c, i) /\ c.field \in {NoName, i.name}})
      /\ RealVSD(c, held).after = vsd
  <2>1. RealVSD(c, held) = Result(VSDList(c), vsd)
    BY RoutedDeltas
  <2>2. items = StoredItems(vsd, dds, VSD)
    BY DEF IInv, SameObjects
  <2>3. VSDList(c) = OK(Selected(c, StoredItems(vsd, dds, VSD)))
    BY DEF VSDList, StoredItems
  <2>4. Selected(c, items) =
          {i \in items : SelectedByLabel(c, i) /\ c.field \in {NoName, i.name}}
    BY DEF Selected, SelectedByLabel
  <2> QED
    BY <2>1, <2>2, <2>3, <2>4, Results
<1> HIDE DEF items
<1> QED
  BY <1>1, <1>2, <1>3, PartsDiffer, DeltasUntouched

---------------------------------------------------------------------------
(* Calls about DriverDiscoveries.                                          *)

\* The registry after it is written.
DDWith(c, b) == [dds EXCEPT ![c.name] = b]

LEMMA RealDDIs ==
  ASSUME NEW c, NEW o
  PROVE  /\ c.op = "create" \/ c.op = "update" => RealDD(c, o) = DDStore(c, o)
         /\ c.op = "list" =>
              RealDD(c, o) =
                Result(OK(Selected(c, {Item(NoNamespace, n, dds[n]) :
                                         n \in {m \in Names : dds[m] # NoBody}})), dds)
         /\ c.op = "deleteCollection" => RealDD(c, o) = Result(OK({}), [n \in Names |-> NoBody])
         /\ (c.op = "get" \/ c.op = "delete" \/ c.op = "patch") /\ dds[c.name] = NoBody =>
              RealDD(c, o) = Result(Refused("NotFound"), dds)
         /\ c.op = "get" /\ dds[c.name] # NoBody =>
              RealDD(c, o) = Result(OK({Item(NoNamespace, c.name, dds[c.name])}), dds)
         /\ c.op = "delete" /\ dds[c.name] # NoBody =>
              RealDD(c, o) = Result(OK({}), DDWith(c, NoBody))
         /\ c.op = "patch" /\ dds[c.name] # NoBody =>
              RealDD(c, o) = Result(OK({Item(NoNamespace, c.name, c.body)}), DDWith(c, c.body))
BY DEF RealDD, CarriesObject, DDWith

LEMMA DDCreates ==
  ASSUME NEW c, NEW o, c.op = "create"
  PROVE  /\ o.rv # "none" =>
              RealDD(c, o).answer = Refused("Unknown") /\ RealDD(c, o).after = dds
         /\ o.rv = "none" /\ dds[c.name] # NoBody =>
              RealDD(c, o).answer = Refused("AlreadyExists") /\ RealDD(c, o).after = dds
         /\ o.rv = "none" /\ dds[c.name] = NoBody =>
              /\ RealDD(c, o).answer = OK({Item(NoNamespace, c.name, c.body)})
              /\ RealDD(c, o).after = DDWith(c, c.body)
<1>1. RealDD(c, o) = DDStore(c, o)
  BY RealDDIs
<1>2. CASE o.rv # "none"
  <2>1. DDStore(c, o) = Result(Refused("Unknown"), dds)
    BY <1>2 DEF DDStore
  <2> QED
    BY <1>1, <1>2, <2>1, Results
<1>3. CASE o.rv = "none" /\ dds[c.name] # NoBody
  <2>1. DDStore(c, o) = Result(Refused("AlreadyExists"), dds)
    BY <1>3 DEF DDStore
  <2> QED
    BY <1>1, <1>3, <2>1, Results
<1>4. CASE o.rv = "none" /\ dds[c.name] = NoBody
  <2>1. DDStore(c, o) = Result(OK({Item(NoNamespace, c.name, c.body)}), DDWith(c, c.body))
    BY <1>4 DEF DDStore, DDWith
  <2> QED
    BY <1>1, <1>4, <2>1, Results
<1> QED
  BY <1>2, <1>3, <1>4

LEMMA DDUpdates ==
  ASSUME NEW c, NEW o, c.op = "update"
  PROVE  /\ o.rv = "none" /\ dds[c.name] = NoBody =>
              RealDD(c, o).answer = Refused("NotFound") /\ RealDD(c, o).after = dds
         /\ o.rv = "none" /\ dds[c.name] # NoBody =>
              RealDD(c, o).answer = Refused("Invalid") /\ RealDD(c, o).after = dds
         /\ o.rv # "none" /\ ~(dds[c.name] # NoBody /\ o.rv = "current") =>
              RealDD(c, o).answer = Refused("Conflict") /\ RealDD(c, o).after = dds
         /\ o.rv = "current" /\ dds[c.name] # NoBody =>
              /\ RealDD(c, o).answer = OK({Item(NoNamespace, c.name, c.body)})
              /\ RealDD(c, o).after = DDWith(c, c.body)
<1>1. RealDD(c, o) = DDStore(c, o)
  BY RealDDIs
<1>2. CASE o.rv = "none" /\ dds[c.name] = NoBody
  <2>1. DDStore(c, o) = Result(Refused("NotFound"), dds)
    BY <1>2 DEF DDStore
  <2> QED
    BY <1>1, <1>2, <2>1, Results
<1>3. CASE o.rv = "none" /\ dds[c.name] # NoBody
  <2>1. DDStore(c, o) = Result(Refused("Invalid"), dds)
    BY <1>3 DEF DDStore
  <2> QED
    BY <1>1, <1>3, <2>1, Results
<1>4. CASE o.rv # "none" /\ ~(dds[c.name] # NoBody /\ o.rv = "current")
  <2>1. DDStore(c, o) = Result(Refused("Conflict"), dds)
    BY <1>4 DEF DDStore
  <2> QED
    BY <1>1, <1>4, <2>1, Results
<1>5. CASE o.rv = "current" /\ dds[c.name] # NoBody
  <2>1. DDStore(c, o) = Result(OK({Item(NoNamespace, c.name, c.body)}), DDWith(c, c.body))
    BY <1>5 DEF DDStore, DDWith
  <2> QED
    BY <1>1, <1>5, <2>1, Results
<1> QED
  BY <1>2, <1>3, <1>4, <1>5

LEMMA DDWithIs ==
  ASSUME dds \in GenericType, NEW c, c.name \in Names, NEW b \in BodiesOf(DD) \cup {NoBody}
  PROVE  /\ DDWith(c, b) \in GenericType
         /\ \A n \in Names : DDWith(c, b)[n] = IF n = c.name THEN b ELSE dds[n]
<1> DEFINE Bodies == BodiesOf(DD) \cup {NoBody}
<1>1. dds \in [Names -> Bodies] /\ GenericType = [Names -> Bodies] /\ b \in Bodies
  BY DEF GenericType
<1> HIDE DEF Bodies
<1> QED
  BY <1>1 DEF DDWith

\* What such a call is.
LEMMA DiscoveryCall ==
  ASSUME IInv, NEW c \in CallsOf(held), c.res = DD
  PROVE  /\ c.op \in {"create", "update", "get", "delete", "patch", "list", "deleteCollection"}
         /\ c.op # "list" => c.ns = NoNamespace
         /\ c.ns \in AnyNamespace
         /\ c.op \notin {"list", "deleteCollection"} => c.name \in Names
         /\ held.ns \in AnyNamespace /\ held.rv \in {"none", "current", "stale"}
         /\ CarriesObject(c) => c.body = held.body /\ c.body \in BodiesOf(DD)
         /\ c.op = "patch" => c.body \in BodiesOf(DD)
<1>1. held \in Held
  BY StateIs
<1>2. /\ c.op \in {"create", "update", "updateStatus", "get", "delete", "patch", "list",
                   "deleteCollection"}
      /\ c.ns \in AnyNamespace
      /\ c.op # "updateStatus"
      /\ c.op # "list" => c.ns \in Scope(DD)
      /\ c.op \notin {"list", "deleteCollection"} => c.name \in Names
      /\ CarriesObject(c) => held.res = DD /\ c.body = held.body
      /\ c.op = "patch" => c.body \in BodiesOf(DD)
  BY <1>1, CallsAre, ResourcesDiffer DEF CallRecords
<1> QED
  BY <1>1, <1>2, HeldIs, ScopesAre

LEMMA RealDDType ==
  ASSUME IInv, NEW c \in CallsOf(held), c.res = DD
  PROVE  RealDD(c, held).after \in GenericType
<1>1. dds \in GenericType
  BY StateIs
<1>2. [n \in Names |-> NoBody] \in GenericType
  BY DEF GenericType
<1>3. c.op \in {"create", "update", "patch"} => DDWith(c, c.body) \in GenericType
  BY <1>1, DiscoveryCall, DDWithIs DEF CarriesObject
<1>4. c.op = "delete" => DDWith(c, NoBody) \in GenericType
  BY <1>1, DiscoveryCall, DDWithIs
<1>5. \/ RealDD(c, held).after \in {dds, [n \in Names |-> NoBody]}
      \/ /\ c.op \in {"create", "update", "patch"}
         /\ RealDD(c, held).after = DDWith(c, c.body)
      \/ c.op = "delete" /\ RealDD(c, held).after = DDWith(c, NoBody)
  <2>1. CASE c.op = "create" \/ c.op = "update"
    <3>1. RealDD(c, held) = DDStore(c, held)
      BY <2>1, RealDDIs
    <3>2. DDStore(c, held).after \in {dds, DDWith(c, c.body)}
      BY DEF DDStore, Result, DDWith
    <3> QED
      BY <2>1, <3>1, <3>2
  <2>2. CASE c.op \in {"list", "get", "deleteCollection", "delete", "patch"}
    BY <2>2 DEF RealDD, CarriesObject, DDWith, Result
  <2> QED
    BY <2>1, <2>2, DiscoveryCall
<1> QED
  BY <1>1, <1>2, <1>3, <1>4, <1>5

LEMMA DiscoveryAlike ==
  ASSUME IInv, NEW c \in CallsOf(held), c.res = DD
  PROVE  Alike(c, held) <=>
           /\ Fake(c, held).answer = RealDD(c, held).answer
           /\ \A ns \in AnyNamespace, n \in Names :
                Fake(c, held).after[DD][<<ns, n>>] = SeenDiscovery(RealDD(c, held).after[n], ns)
BY DiscoveriesAlike, FakeType, RealDDType, ResourcesDiffer

\* Both sides leave things as they are: only the answers count.
LEMMA DiscoveriesUntouched ==
  ASSUME IInv, NEW c \in CallsOf(held), c.res = DD,
         Fake(c, held).after = tracker, RealDD(c, held).after = dds
  PROVE  Alike(c, held) <=> Fake(c, held).answer = RealDD(c, held).answer
BY DiscoveryAlike, StateIs

\* Both write the same: again only the answers count.
LEMMA DiscoveriesWritten ==
  ASSUME IInv, NEW c \in CallsOf(held), c.res = DD, c.ns = NoNamespace, c.name \in Names,
         NEW b \in BodiesOf(DD) \cup {NoBody},
         Fake(c, held).after = Put(DD, <<c.ns, c.name>>, b),
         RealDD(c, held).after = DDWith(c, b)
  PROVE  Alike(c, held) <=> Fake(c, held).answer = RealDD(c, held).answer
<1>1. SUFFICES ASSUME NEW ns \in AnyNamespace, NEW n \in Names
               PROVE  Put(DD, <<c.ns, c.name>>, b)[DD][<<ns, n>>] =
                        SeenDiscovery(DDWith(c, b)[n], ns)
  BY DiscoveryAlike
<1>2. <<c.ns, c.name>> \in Keys /\ <<ns, n>> \in Keys /\ DD \in {VSD, DD}
  BY DEF Keys, AnyNamespace
<1>3. b \in BodiesOf(VSD) \cup {NoBody}
  BY BodiesAre
<1>4. Put(DD, <<c.ns, c.name>>, b)[DD][<<ns, n>>] =
        IF <<ns, n>> = <<c.ns, c.name>> THEN b ELSE tracker[DD][<<ns, n>>]
  BY <1>2, <1>3, PutIs, StateIs
<1>5. tracker[DD][<<ns, n>>] = SeenDiscovery(dds[n], ns)
  BY StateIs
<1>6. DDWith(c, b)[n] = IF n = c.name THEN b ELSE dds[n]
  BY DDWithIs, StateIs
<1>7. <<ns, n>> = <<c.ns, c.name>> <=> n = c.name /\ ns = c.ns
  OBVIOUS
<1> QED
  BY <1>4, <1>5, <1>6, <1>7 DEF SeenDiscovery

\* An object is found by both or by neither.
LEMMA FoundIs ==
  ASSUME IInv, NEW c \in CallsOf(held), c.res = DD, c.op \notin {"list", "deleteCollection"}
  PROVE  /\ tracker[c.res][<<c.ns, c.name>>] = dds[c.name]
         /\ Here(c) <=> dds[c.name] # NoBody
<1>1. tracker[DD][<<NoNamespace, c.name>>] = SeenDiscovery(dds[c.name], NoNamespace)
      /\ c.ns = NoNamespace
  BY DiscoveryCall, StateIs DEF AnyNamespace
<1> QED
  BY <1>1 DEF Here, SeenDiscovery

LEMMA CreatesOfDiscoveries ==
  ASSUME IInv, NEW c \in CallsOf(held), c.res = DD, c.op = "create"
  PROVE  KnownDifference(c, held) <=> ~Alike(c, held)
<1>1. KnownDifference(c, held) <=> held.ns # NoNamespace \/ held.rv # "none"
  BY ResourcesDiffer DEF KnownDifference, CarriesObject
<1>2. /\ c.ns = NoNamespace /\ c.name \in Names
      /\ c.body = held.body /\ c.body \in BodiesOf(DD) \cup {NoBody}
      /\ Here(c) <=> dds[c.name] # NoBody
  BY DiscoveryCall, FoundIs DEF CarriesObject
<1>4. CASE held.ns # NoNamespace
  <2>1. Fake(c, held).answer = Refused("BadRequest")
    BY <1>2, <1>4, FakeCreates
  <2>2. Fake(c, held).answer.code = "BadRequest"
    BY <2>1, Answers
  <2>3. RealDD(c, held).answer.code \in {"Unknown", "AlreadyExists", "ok"}
    <3>1. \/ RealDD(c, held).answer = Refused("Unknown")
          \/ RealDD(c, held).answer = Refused("AlreadyExists")
          \/ RealDD(c, held).answer = OK({Item(NoNamespace, c.name, c.body)})
      BY DDCreates
    <3> QED
      BY <3>1, Answers
  <2> QED
    BY <1>1, <1>4, <2>2, <2>3, DiscoveryAlike
<1>5. CASE held.ns = NoNamespace /\ held.rv # "none"
  <2>1. RealDD(c, held).answer.code = "Unknown"
    <3>1. RealDD(c, held).answer = Refused("Unknown")
      BY <1>5, DDCreates
    <3> QED
      BY <3>1, Answers
  <2>2. Fake(c, held).answer.code \in {"AlreadyExists", "ok"}
    <3>1. \/ Fake(c, held).answer = Refused("AlreadyExists")
          \/ Fake(c, held).answer = OK({Item(c.ns, c.name, held.body)})
      BY <1>5, FakeCreates
    <3> QED
      BY <3>1, Answers
  <2> QED
    BY <1>1, <1>5, <2>1, <2>2, DiscoveryAlike
<1>6. CASE held.ns = NoNamespace /\ held.rv = "none" /\ Here(c)
  <2>1. Fake(c, held).answer = Refused("AlreadyExists") /\ Fake(c, held).after = tracker
    BY <1>6, FakeCreates
  <2>2. RealDD(c, held).answer = Refused("AlreadyExists") /\ RealDD(c, held).after = dds
    BY <1>2, <1>6, DDCreates
  <2> QED
    BY <1>1, <1>6, <2>1, <2>2, DiscoveriesUntouched
<1>7. CASE held.ns = NoNamespace /\ held.rv = "none" /\ ~Here(c)
  <2>1. /\ Fake(c, held).answer = OK({Item(NoNamespace, c.name, c.body)})
        /\ Fake(c, held).after = Put(DD, <<c.ns, c.name>>, c.body)
    BY <1>2, <1>7, FakeCreates
  <2>2. /\ RealDD(c, held).answer = OK({Item(NoNamespace, c.name, c.body)})
        /\ RealDD(c, held).after = DDWith(c, c.body)
    BY <1>2, <1>7, DDCreates
  <2> QED
    BY <1>1, <1>2, <1>7, <2>1, <2>2, DiscoveriesWritten
<1> QED
  BY <1>4, <1>5, <1>6, <1>7

LEMMA UpdatesOfDiscoveries ==
  ASSUME IInv, NEW c \in CallsOf(held), c.res = DD, c.op = "update"
  PROVE  KnownDifference(c, held) <=> ~Alike(c, held)
<1>1. KnownDifference(c, held) <=>
        held.ns # NoNamespace \/ held.rv # IF Here(c) THEN "current" ELSE "none"
  BY ResourcesDiffer DEF KnownDifference, CarriesObject
<1>2. /\ c.ns = NoNamespace /\ c.name \in Names
      /\ c.body = held.body /\ c.body \in BodiesOf(DD) \cup {NoBody}
      /\ Here(c) <=> dds[c.name] # NoBody
      /\ held.rv \in {"none", "current", "stale"}
  BY DiscoveryCall, FoundIs DEF CarriesObject
<1>4. CASE held.ns # NoNamespace
  <2>1. Fake(c, held).answer = Refused("BadRequest")
    BY <1>2, <1>4, FakeReplaces
  <2>2. Fake(c, held).answer.code = "BadRequest"
    BY <2>1, Answers
  <2>3. RealDD(c, held).answer.code \in {"NotFound", "Invalid", "Conflict", "ok"}
    <3>1. \/ RealDD(c, held).answer = Refused("NotFound")
          \/ RealDD(c, held).answer = Refused("Invalid")
          \/ RealDD(c, held).answer = Refused("Conflict")
          \/ RealDD(c, held).answer = OK({Item(NoNamespace, c.name, c.body)})
      BY <1>2, DDUpdates
    <3> QED
      BY <3>1, Answers
  <2> QED
    BY <1>1, <1>4, <2>2, <2>3, DiscoveryAlike
<1>5. CASE held.ns = NoNamespace /\ ~Here(c)
  <2>1. Fake(c, held).answer = Refused("NotFound") /\ Fake(c, held).after = tracker
    BY <1>5, FakeReplaces
  <2>2. CASE held.rv = "none"
    <3>1. RealDD(c, held).answer = Refused("NotFound") /\ RealDD(c, held).after = dds
      BY <1>2, <1>5, <2>2, DDUpdates
    <3> QED
      BY <1>1, <1>5, <2>1, <2>2, <3>1, DiscoveriesUntouched
  <2>3. CASE held.rv # "none"
    <3>1. RealDD(c, held).answer = Refused("Conflict")
      BY <1>2, <1>5, <2>3, DDUpdates
    <3>2. Fake(c, held).answer # RealDD(c, held).answer
      BY <2>1, <3>1, Answers
    <3> QED
      BY <1>1, <1>5, <2>3, <3>2, DiscoveryAlike
  <2> QED
    BY <2>2, <2>3
<1>6. CASE held.ns = NoNamespace /\ Here(c)
  <2>1. /\ Fake(c, held).answer = OK({Item(NoNamespace, c.name, c.body)})
        /\ Fake(c, held).after = Put(DD, <<c.ns, c.name>>, c.body)
    BY <1>2, <1>6, FakeReplaces
  <2>2. CASE held.rv # "current"
    <3>1. RealDD(c, held).answer.code \in {"Invalid", "Conflict"}
      <4>1. \/ RealDD(c, held).answer = Refused("Invalid")
            \/ RealDD(c, held).answer = Refused("Conflict")
        BY <1>2, <1>6, <2>2, DDUpdates
      <4> QED
        BY <4>1, Answers
    <3>2. Fake(c, held).answer # RealDD(c, held).answer
      BY <2>1, <3>1, Answers
    <3> QED
      BY <1>1, <1>6, <2>2, <3>2, DiscoveryAlike
  <2>3. CASE held.rv = "current"
    <3>1. /\ RealDD(c, held).answer = OK({Item(NoNamespace, c.name, c.body)})
          /\ RealDD(c, held).after = DDWith(c, c.body)
      BY <1>2, <1>6, <2>3, DDUpdates
    <3> QED
      BY <1>1, <1>2, <1>6, <2>1, <2>3, <3>1, DiscoveriesWritten
  <2> QED
    BY <2>2, <2>3
<1> QED
  BY <1>4, <1>5, <1>6

LEMMA NamesOfDiscoveries ==
  ASSUME IInv, NEW c \in CallsOf(held), c.res = DD, c.op = "get" \/ c.op = "delete" \/ c.op = "patch"
  PROVE  ~KnownDifference(c, held) /\ Alike(c, held)
<1>1. ~KnownDifference(c, held)
  BY ResourcesDiffer DEF KnownDifference, CarriesObject
<1>2. /\ c.ns = NoNamespace /\ c.name \in Names
      /\ c.op = "patch" => c.body \in BodiesOf(DD) \cup {NoBody}
      /\ tracker[c.res][<<c.ns, c.name>>] = dds[c.name]
      /\ Here(c) <=> dds[c.name] # NoBody
      /\ NoBody \in BodiesOf(DD) \cup {NoBody}
  BY DiscoveryCall, FoundIs
<1>3. CASE ~Here(c)
  <2>1. Fake(c, held) = Result(Refused("NotFound"), tracker)
    BY <1>3, FakeIs
  <2>2. RealDD(c, held) = Result(Refused("NotFound"), dds)
    BY <1>2, <1>3, RealDDIs
  <2> QED
    BY <1>1, <2>1, <2>2, Results, DiscoveriesUntouched
<1>4. CASE Here(c) /\ c.op = "get"
  <2>1. Fake(c, held) =
          Result(OK({Item(c.ns, c.name, tracker[c.res][<<c.ns, c.name>>])}), tracker)
    BY <1>4, FakeIs
  <2>2. Fake(c, held) = Result(OK({Item(NoNamespace, c.name, dds[c.name])}), tracker)
    BY <1>2, <2>1
  <2>3. RealDD(c, held) = Result(OK({Item(NoNamespace, c.name, dds[c.name])}), dds)
    BY <1>2, <1>4, RealDDIs
  <2> QED
    BY <1>1, <2>2, <2>3, Results, DiscoveriesUntouched
<1>5. CASE Here(c) /\ c.op = "delete"
  <2>1. Fake(c, held) = Result(OK({}), Put(DD, <<c.ns, c.name>>, NoBody))
    BY <1>5, FakeIs
  <2>2. RealDD(c, held) = Result(OK({}), DDWith(c, NoBody))
    BY <1>2, <1>5, RealDDIs
  <2> QED
    BY <1>1, <1>2, <2>1, <2>2, Results, DiscoveriesWritten
<1>6. CASE Here(c) /\ c.op = "patch"
  <2>1. Fake(c, held) =
          Result(OK({Item(NoNamespace, c.name, c.body)}), Put(DD, <<c.ns, c.name>>, c.body))
    BY <1>2, <1>6, FakeIs
  <2>2. RealDD(c, held) = Result(OK({Item(NoNamespace, c.name, c.body)}), DDWith(c, c.body))
    BY <1>2, <1>6, RealDDIs
  <2> QED
    BY <1>1, <1>2, <1>6, <2>1, <2>2, Results, DiscoveriesWritten
<1> QED
  BY <1>3, <1>4, <1>5, <1>6

LEMMA CollectionsOfDiscoveries ==
  ASSUME IInv, NEW c \in CallsOf(held), c.res = DD, c.op = "deleteCollection"
  PROVE  KnownDifference(c, held) <=> ~Alike(c, held)
<1>1. KnownDifference(c, held) <=> TrackedItems(tracker, DD) # {}
  BY ResourcesDiffer DEF KnownDifference, CarriesObject
<1> DEFINE none == [n \in Names |-> NoBody]
<1>2. Fake(c, held).answer = OK({}) /\ Fake(c, held).after = tracker
  <2>1. Fake(c, held) = Result(OK({}), tracker)
    BY FakeIs
  <2> QED
    BY <2>1, Results
<1>3. RealDD(c, held).answer = OK({}) /\ RealDD(c, held).after = none
  <2>1. RealDD(c, held) = Result(OK({}), none)
    BY RealDDIs
  <2> QED
    BY <2>1, Results
<1>4. none \in GenericType
  BY DEF GenericType
<1>5. StoredItems(vsd, none, DD) = {}
  BY ResourcesDiffer DEF StoredItems
<1>6. TrackedItems(tracker, DD) = StoredItems(vsd, none, DD)
        <=> \A ns \in AnyNamespace, n \in Names : tracker[DD][<<ns, n>>] = SeenDiscovery(none[n], ns)
  <2>1. tracker \in TrackerType
    BY StateIs
  <2> QED
    BY <1>4, <2>1, SameDiscoveries
<1> HIDE DEF none
<1> QED
  BY <1>1, <1>2, <1>3, <1>5, <1>6, DiscoveryAlike

LEMMA ListsOfDiscoveries ==
  ASSUME IInv, NEW c \in CallsOf(held), c.res = DD, c.op = "list"
  PROVE  KnownDifference(c, held) <=> ~Alike(c, held)
<1> DEFINE items == TrackedItems(tracker, DD)
<1>1. KnownDifference(c, held) <=>
        \E i \in items :
          /\ c.label \in {NoLabel, i.body.label}
          /\ (c.ns \in {NoNamespace, i.ns}) # (c.field \in {NoName, i.name})
  BY ResourcesDiffer DEF KnownDifference, CarriesObject
<1>2. /\ Fake(c, held).answer =
           OK({i \in items : SelectedByLabel(c, i) /\ c.ns \in {NoNamespace, i.ns}})
      /\ Fake(c, held).after = tracker
  <2>1. Fake(c, held) = Result(FakeList(c), tracker)
    BY FakeIs
  <2>2. c \in CallRecords /\ tracker \in TrackerType
    BY StateIs, CallsAre
  <2> QED
    BY <2>1, <2>2, FakeLists, Results
<1>3. /\ RealDD(c, held).answer =
           OK({i \in items : SelectedByLabel(c, i) /\ c.field \in {NoName, i.name}})
      /\ RealDD(c, held).after = dds
  <2> DEFINE stored == {Item(NoNamespace, n, dds[n]) : n \in {m \in Names : dds[m] # NoBody}}
  <2>1. RealDD(c, held) = Result(OK(Selected(c, stored)), dds)
    BY RealDDIs
  <2>2. items = stored
    BY ResourcesDiffer DEF IInv, SameObjects, StoredItems
  <2> HIDE DEF stored
  <2>3. Selected(c, items) =
          {i \in items : SelectedByLabel(c, i) /\ c.field \in {NoName, i.name}}
    BY DEF Selected, SelectedByLabel
  <2> QED
    BY <2>1, <2>2, <2>3, Results
<1> HIDE DEF items
<1> QED
  BY <1>1, <1>2, <1>3, PartsDiffer, DiscoveriesUntouched

---------------------------------------------------------------------------
(* Every call.                                                             *)

LEMMA CallsTellApart ==
  ASSUME IInv, NEW c \in CallsOf(held)
  PROVE  KnownDifference(c, held) <=> ~Alike(c, held)
<1>1. /\ c.op \in {"create", "update", "updateStatus", "get", "delete", "patch", "list",
                   "deleteCollection"}
      /\ c.res \in {VSD, DD}
  BY StateIs, CallsAre DEF CallRecords
<1>2. CASE c.res = VSD
  BY <1>1, <1>2, CreatesOfDeltas, UpdatesOfDeltas, UnroutedOfDeltas, GetsOfDeltas,
     DeletesOfDeltas, ListsOfDeltas
<1>3. CASE c.res = DD
  <2>1. c.op # "updateStatus"
    BY <1>3, DiscoveryCall
  <2> QED
    BY <1>1, <1>3, <2>1, CreatesOfDiscoveries, UpdatesOfDiscoveries, NamesOfDiscoveries,
       CollectionsOfDiscoveries, ListsOfDiscoveries
<1> QED
  BY <1>1, <1>2, <1>3

---------------------------------------------------------------------------
(* The invariant.                                                          *)

\* What the fake returns it stores.
LEMMA ReturnedIsStored ==
  ASSUME IInv, NEW c \in CallsOf(held), NEW i \in Fake(c, held).answer.items
  PROVE  \E ns \in AnyNamespace, n \in Names :
           /\ i = Item(ns, n, Fake(c, held).after[c.res][<<ns, n>>])
           /\ Fake(c, held).after[c.res][<<ns, n>>] # NoBody
<1> DEFINE k == <<c.ns, c.name>>
           after == Fake(c, held).after
<1>1. /\ c \in CallRecords
      /\ c.op \in {"create", "update", "updateStatus", "get", "delete", "patch", "list",
                   "deleteCollection"}
      /\ c.res \in {VSD, DD} /\ c.ns \in AnyNamespace
      /\ c.op \notin {"list", "deleteCollection"} => c.name \in Names
      /\ c.op = "patch" => c.body \in BodiesOf(VSD) /\ c.body # NoBody
      /\ held.body \in BodiesOf(VSD) /\ held.body # NoBody
      /\ tracker \in TrackerType
  BY StateIs, CallsAre, HeldIs, BodiesAre DEF CallRecords
<1>2. ASSUME NEW b \in BodiesOf(VSD), b # NoBody, after = Put(c.res, k, b),
             i = Item(c.ns, c.name, b), c.name \in Names
      PROVE  /\ i = Item(c.ns, c.name, after[c.res][<<c.ns, c.name>>])
             /\ after[c.res][<<c.ns, c.name>>] # NoBody
  <2>1. k \in Keys
    BY <1>1, <1>2 DEF Keys
  <2>2. Put(c.res, k, b)[c.res][k] = b
    BY <1>1, <2>1, PutIs
  <2> QED
    BY <1>2, <2>2
<1>3. CASE c.op \in {"create", "update", "updateStatus"}
  <2>1. \/ Fake(c, held).answer = OK({Item(c.ns, c.name, held.body)})
           /\ after = Put(c.res, k, held.body)
        \/ \E reason : Fake(c, held).answer = Refused(reason)
    <3>1. CASE c.op = "create"
      BY <3>1, FakeCreates
    <3>2. CASE c.op = "update" \/ c.op = "updateStatus"
      BY <3>2, FakeReplaces
    <3> QED
      BY <1>3, <3>1, <3>2
  <2>2. i = Item(c.ns, c.name, held.body) /\ after = Put(c.res, k, held.body)
    BY <2>1, Answers
  <2> QED
    BY <1>1, <1>2, <1>3, <2>2
<1>4. CASE c.op = "list"
  <2>1. Fake(c, held) = Result(FakeList(c), tracker)
    BY <1>4, FakeIs
  <2>2. Fake(c, held).answer = FakeList(c) /\ after = tracker
    BY <2>1, Results
  <2>3. i \in TrackedItems(tracker, c.res)
    <3> DEFINE items == TrackedItems(tracker, c.res)
               part == {j \in items : SelectedByLabel(c, j) /\ c.ns \in {NoNamespace, j.ns}}
    <3>1. Fake(c, held).answer = OK(part)
      BY <1>1, <2>2, FakeLists
    <3> HIDE DEF part
    <3>2. i \in part
      BY <3>1, Answers
    <3> QED
      BY <3>2 DEF part
  <2> QED
    BY <1>1, <2>2, <2>3, TrackedAre, ItemsOfAreItems
<1>5. CASE c.op = "deleteCollection" \/ c.op = "delete"
      \/ ((c.op = "get" \/ c.op = "patch") /\ ~Here(c))
  <2>1. \/ Fake(c, held) = Result(OK({}), tracker)
        \/ Fake(c, held) = Result(Refused("NotFound"), tracker)
        \/ Fake(c, held) = Result(OK({}), Put(c.res, <<c.ns, c.name>>, NoBody))
    BY <1>5, FakeIs
  <2>2. Fake(c, held).answer.items = {}
    BY <2>1, Results, Answers
  <2> QED
    BY <2>2
<1>6. CASE c.op = "get" /\ Here(c)
  <2>1. Fake(c, held) =
          Result(OK({Item(c.ns, c.name, tracker[c.res][<<c.ns, c.name>>])}), tracker)
    BY <1>6, FakeIs
  <2>2. /\ i = Item(c.ns, c.name, tracker[c.res][<<c.ns, c.name>>])
        /\ after = tracker
    BY <2>1, Results, Answers
  <2> QED
    BY <1>1, <1>6, <2>2 DEF Here
<1>7. CASE c.op = "patch" /\ Here(c)
  <2>1. Fake(c, held) =
          Result(OK({Item(c.ns, c.name, c.body)}), Put(c.res, <<c.ns, c.name>>, c.body))
    BY <1>7, FakeIs
  <2>2. i = Item(c.ns, c.name, c.body) /\ after = Put(c.res, k, c.body)
    BY <2>1, Results, Answers
  <2> QED
    BY <1>1, <1>2, <1>7, <2>2
<1> QED
  BY <1>1, <1>3, <1>4, <1>5, <1>6, <1>7

\* A call that both sides answer alike leaves the objects of the
\* VolumeSnapshotDelta registry in namespaces that a client is made for.
LEMMA DeltasStayPlaced ==
  ASSUME IInv, NEW c \in CallsOf(held), Alike(c, held), c.res = VSD, NEW n \in Names,
         RealVSD(c, held).after[n] # Registry!Absent
  PROVE  /\ RealVSD(c, held).after[n].obj.ns \in Namespaces
         /\ RealVSD(c, held).after[n].obj.body.mode = ModeBlock
<1> DEFINE v == RealVSD(c, held).after
<1>1. /\ vsd \in RegistryType
      /\ vsd[n] # Registry!Absent => vsd[n].obj.ns \in Namespaces /\ vsd[n].obj.body.mode = ModeBlock
  BY DEF IInv, TypeOK, RegistryType
<1>2. c.op \in {"create", "update", "updateStatus", "get", "delete", "patch", "list",
               "deleteCollection"}
  BY StateIs, CallsAre DEF CallRecords
<1>3. ~KnownDifference(c, held)
  BY CallsTellApart
<1>4. CASE v[n] = vsd[n]
  BY <1>1, <1>4
<1>5. CASE v[n] # vsd[n] /\ (c.op = "create" \/ c.op = "update")
  <2>1. v[n] = VSDWith(c, held)[n]
    <3>1. v \in {vsd, VSDWith(c, held)}
      <4>1. VSDKey(c, held).after \in {vsd, VSDWith(c, held)}
        <5>1. CASE c.op = "create"
          BY <5>1, KeyCreated, KeyNotCreated
        <5>2. CASE c.op = "update"
          BY <5>2, KeyUpdated
        <5> QED
          BY <1>5, <5>1, <5>2
      <4>2. \/ RealVSD(c, held) = VSDKey(c, held)
            \/ RealVSD(c, held) = Result(Refused("BadRequest"), vsd)
        BY <1>5, RoutedDeltas
      <4> QED
        BY <4>1, <4>2, Results
    <3> QED
      BY <1>5, <3>1
  <2>2. held.ns = c.ns
    <3>1. CASE c.op = "create"
      BY <1>3, <3>1, ResourcesDiffer DEF KnownDifference
    <3>2. CASE c.op = "update"
      <4>1. held.ns # NoNamespace
        BY <1>3, <3>2 DEF KnownDifference
      <4>2. CASE held.ns \notin {NoNamespace, c.ns}
        <5>1. RealVSD(c, held) = Result(Refused("BadRequest"), vsd)
          BY <3>2, <4>2, RoutedDeltas
        <5> QED
          BY <1>5, <5>1, Results
      <4> QED
        BY <4>1, <4>2
    <3> QED
      BY <1>5, <3>1, <3>2
  <2>3. c.ns \in Namespaces /\ held.ns \in AnyNamespace /\ c.name \in Names /\ c.body \in BodiesOf(VSD)
    BY <1>5, DeltaCall DEF CarriesObject
  <2>4. n = c.name
    BY <1>1, <1>5, <2>1, <2>3, VSDWithIs
  <2>5. v[n].obj = Sent(c, held)
    BY <1>1, <2>1, <2>3, <2>4, VSDWithIs
  <2> QED
    BY <2>2, <2>3, <2>5, SentIs, DefaultedIs
<1>6. CASE v[n] # vsd[n] /\ c.op = "delete"
  <2>1. RealVSD(c, held) = VSDKey(c, held)
    BY <1>6, RoutedDeltas
  <2>2. VSDKey(c, held).after \in {vsd, [vsd EXCEPT ![c.name] = Registry!Absent]}
    BY <1>6, KeyDeleted
  <2>3. v = [vsd EXCEPT ![c.name] = Registry!Absent]
    BY <1>6, <2>1, <2>2
  <2> QED
    BY <1>1, <1>6, <2>3 DEF RegistryType
<1>7. CASE c.op \in {"updateStatus", "get", "patch", "list", "deleteCollection"}
  <2>1. v = vsd
    <3>1. CASE c.op = "get"
      BY <3>1, RoutedDeltas, KeyGot
    <3>2. CASE c.op # "get"
      BY <1>7, <3>2, RoutedDeltas, Results
    <3> QED
      BY <3>1, <3>2
  <2> QED
    BY <1>1, <2>1
<1> QED
  BY <1>2, <1>4, <1>5, <1>6, <1>7

\* What a copy that was not replaced has become.
LEMMA AgedIs ==
  ASSUME IInv, NEW c
  PROVE  /\ Aged(c) \in Held
         /\ Aged(c).rv = "stale" => Aged(c).res = DD
         /\ Aged(c).rv = "current" =>
              Aged(c).res = VSD \/ AfterDD(c, held)[Aged(c).name] # NoBody
<1>1. /\ held \in Held
      /\ held.rv = "stale" => held.res = DD
      /\ held.rv = "current" => held.res = VSD \/ dds[held.name] # NoBody
  BY DEF IInv, TypeOK
<1>2. /\ held.res \in {VSD, DD} /\ held.ns \in AnyNamespace /\ held.name \in Names
      /\ held.body \in BodiesOf(held.res)
      /\ held = [res |-> held.res, ns |-> held.ns, name |-> held.name, body |-> held.body,
                 rv |-> held.rv]
  BY <1>1, HeldIs
<1> DEFINE k == AfterDD(c, held)[held.name]
           ages == held.res = DD /\ held.rv = "current" /\ k # dds[held.name]
           old == [held EXCEPT !.rv = "stale"]
<1>3. Aged(c) = IF ages THEN old ELSE held
  BY DEF Aged
<1>4. old \in Held /\ old.rv = "stale" /\ old.res = held.res
  <2>1. old = [res |-> held.res, ns |-> held.ns, name |-> held.name, body |-> held.body,
               rv |-> "stale"]
    BY <1>2
  <2>2. [res |-> held.res, ns |-> held.ns, name |-> held.name, body |-> held.body,
         rv |-> "stale"] \in Held
    BY <1>2, HeldMade
  <2> QED
    BY <2>1, <2>2
<1> HIDE DEF old
<1>5. CASE ages
  BY <1>3, <1>4, <1>5
<1>6. CASE ~ages
  BY <1>1, <1>2, <1>3, <1>6
<1> QED
  BY <1>5, <1>6

LEMMA MakesPreserves ==
  ASSUME IInv, NEW c \in CallsOf(held), Makes(c)
  PROVE  IInv'
<1>1. /\ Alike(c, held)
      /\ tracker' = Fake(c, held).after
      /\ vsd' = AfterVSD(c, held)
      /\ dds' = AfterDD(c, held)
      /\ \/ held' = Aged(c)
         \/ \E i \in Real(c, held).items :
              held' = [res |-> c.res, ns |-> i.ns, name |-> i.name, body |-> i.body,
                       rv |-> "current"]
  BY CallsTellApart DEF Makes
<1>2. c.res \in {VSD, DD}
  BY StateIs, CallsAre DEF CallRecords
<1>3. SameObjects'
  <2>1. \A r \in {VSD, DD} :
          TrackedItems(Fake(c, held).after, r) = StoredItems(AfterVSD(c, held), AfterDD(c, held), r)
    BY <1>1 DEF Alike
  <2>2. \A r \in {VSD, DD} : TrackedItems(tracker', r) = StoredItems(vsd', dds', r)
    BY <1>1, <2>1
  <2> QED
    BY <2>2 DEF SameObjects
<1>4. tracker' \in TrackerType
  BY <1>1, FakeType
<1>5. vsd' \in RegistryType
  BY <1>1, StateIs, RealVSDType DEF AfterVSD
<1>6. dds' \in GenericType
  BY <1>1, StateIs, RealDDType DEF AfterDD
<1>7. \A ns \in AnyNamespace, n \in Names :
        /\ tracker'[VSD][<<ns, n>>] = SeenDelta(vsd'[n], ns)
        /\ tracker'[DD][<<ns, n>>] = SeenDiscovery(dds'[n], ns)
  <2>1. /\ TrackedItems(tracker', VSD) = StoredItems(vsd', dds', VSD)
        /\ TrackedItems(tracker', DD) = StoredItems(vsd', dds', DD)
    BY <1>3 DEF SameObjects
  <2> QED
    BY <1>4, <1>5, <1>6, <2>1, SameDeltas, SameDiscoveries
<1>8. ASSUME NEW n \in Names
      PROVE  /\ vsd'[n] # Registry!Absent =>
                  vsd'[n].obj.ns \in Namespaces /\ vsd'[n].obj.body.mode = ModeBlock
             /\ \A ns \in Namespaces : tracker'[DD][<<ns, n>>] = NoBody
  <2>1. vsd'[n] # Registry!Absent =>
          vsd'[n].obj.ns \in Namespaces /\ vsd'[n].obj.body.mode = ModeBlock
    <3>1. CASE c.res = VSD
      BY <1>1, <3>1, DeltasStayPlaced DEF AfterVSD
    <3>2. CASE c.res # VSD
      <4>1. vsd' = vsd
        BY <1>1, <3>2 DEF AfterVSD
      <4> QED
        BY <4>1 DEF IInv, TypeOK
    <3> QED
      BY <3>1, <3>2
  <2>2. ASSUME NEW ns \in Namespaces
        PROVE  tracker'[DD][<<ns, n>>] = NoBody
    BY <1>7, <2>2, NamespacesAssumption DEF SeenDiscovery, AnyNamespace
  <2> QED
    BY <2>1, <2>2
<1>9. /\ held' \in Held
      /\ held'.rv = "stale" => held'.res = DD
      /\ held'.rv = "current" => held'.res = VSD \/ dds'[held'.name] # NoBody
  <2>1. CASE held' = Aged(c)
    BY <1>1, <2>1, AgedIs
  <2>2. ASSUME NEW i \in Real(c, held).items,
               held' = [res |-> c.res, ns |-> i.ns, name |-> i.name, body |-> i.body,
                        rv |-> "current"]
        PROVE  /\ held' \in Held
               /\ held'.rv = "current" /\ held'.res = c.res
               /\ c.res = DD => dds'[held'.name] # NoBody
    <3>1. i \in Fake(c, held).answer.items
      BY <1>1, <2>2 DEF Alike
    <3>2. PICK ns \in AnyNamespace, n \in Names :
            /\ i = Item(ns, n, tracker'[c.res][<<ns, n>>])
            /\ tracker'[c.res][<<ns, n>>] # NoBody
      BY <1>1, <3>1, ReturnedIsStored
    <3> DEFINE b == tracker'[c.res][<<ns, n>>]
    <3>3. i.ns = ns /\ i.name = n /\ i.body = b
      BY <3>2, ItemFields
    <3>4. b \in BodiesOf(c.res) /\ (c.res = DD => dds'[n] = b)
      <4>1. CASE c.res = VSD
        <5>1. <<ns, n>> \in AnyNamespace \X Names
          OBVIOUS
        <5>2. b \in BodiesOf(VSD) \cup {NoBody}
          BY <1>4, <4>1, <5>1 DEF TrackerType
        <5> QED
          BY <3>2, <4>1, <5>2, ResourcesDiffer
      <4>2. CASE c.res = DD
        <5>1. b = SeenDiscovery(dds'[n], ns)
          BY <1>7, <4>2
        <5>2. b = dds'[n]
          BY <3>2, <5>1 DEF SeenDiscovery
        <5>3. dds'[n] \in BodiesOf(DD) \cup {NoBody}
          BY <1>6 DEF GenericType
        <5> QED
          BY <3>2, <4>2, <5>2, <5>3
      <4> QED
        BY <1>2, <4>1, <4>2
    <3> HIDE DEF b
    <3>5. held' = [res |-> c.res, ns |-> ns, name |-> n, body |-> b, rv |-> "current"]
      BY <2>2, <3>3
    <3>6. [res |-> c.res, ns |-> ns, name |-> n, body |-> b, rv |-> "current"] \in Held
      BY <1>2, <3>4, HeldMade
    <3> QED
      BY <3>2, <3>4, <3>5, <3>6 DEF b
  <2> QED
    BY <1>1, <1>2, <2>1, <2>2
<1>10. TypeOK'
  <2>1. tracker' \in [{VSD, DD} -> [AnyNamespace \X Names -> BodiesOf(VSD) \cup {NoBody}]]
    BY <1>4 DEF TrackerType
  <2>2. vsd' \in [Names -> Registry!KeyStates] /\ dds' \in [Names -> BodiesOf(DD) \cup {NoBody}]
    BY <1>5, <1>6 DEF RegistryType, GenericType
  <2> QED
    BY <1>8, <1>9, <2>1, <2>2 DEF TypeOK
<1> QED
  BY <1>3, <1>10 DEF IInv

LEMMA InitHolds ==
  ASSUME Init
  PROVE  IInv
<1> DEFINE f == [k \in AnyNamespace \X Names |-> NoBody]
<1>1. /\ tracker = [r \in {VSD, DD} |-> f]
      /\ vsd = [n \in Names |-> Registry!Absent]
      /\ dds = [n \in Names |-> NoBody]
      /\ held \in Held /\ held.rv = "none"
  BY DEF Init
<1>2. f \in [AnyNamespace \X Names -> BodiesOf(VSD) \cup {NoBody}]
      /\ \A k \in AnyNamespace \X Names : f[k] = NoBody
  OBVIOUS
<1> HIDE DEF f
<1>3. /\ tracker \in TrackerType
      /\ \A r \in {VSD, DD}, ns \in AnyNamespace, n \in Names : tracker[r][<<ns, n>>] = NoBody
  BY <1>1, <1>2 DEF TrackerType
<1>4. vsd \in RegistryType /\ \A n \in Names : vsd[n] = Registry!Absent
  BY <1>1 DEF RegistryType, Registry!KeyStates
<1>5. dds \in GenericType /\ \A n \in Names : dds[n] = NoBody
  BY <1>1 DEF GenericType
<1>6. TypeOK
  <2>1. tracker \in [{VSD, DD} -> [AnyNamespace \X Names -> BodiesOf(VSD) \cup {NoBody}]]
    BY <1>3 DEF TrackerType
  <2>2. vsd \in [Names -> Registry!KeyStates] /\ dds \in [Names -> BodiesOf(DD) \cup {NoBody}]
    BY <1>4, <1>5 DEF RegistryType, GenericType
  <2>3. \A ns \in Namespaces, n \in Names : tracker[DD][<<ns, n>>] = NoBody
    BY <1>3 DEF AnyNamespace
  <2> QED
    BY <1>1, <1>4, <2>1, <2>2, <2>3 DEF TypeOK
<1>7. \A ns \in AnyNamespace, n \in Names :
        /\ tracker[VSD][<<ns, n>>] = SeenDelta(vsd[n], ns)
        /\ tracker[DD][<<ns, n>>] = SeenDiscovery(dds[n], ns)
  BY <1>3, <1>4, <1>5 DEF SeenDelta, SeenDiscovery
<1>8. /\ TrackedItems(tracker, VSD) = StoredItems(vsd, dds, VSD)
      /\ TrackedItems(tracker, DD) = StoredItems(vsd, dds, DD)
  BY <1>3, <1>4, <1>5, <1>7, SameDeltas, SameDiscoveries
<1> QED
  BY <1>6, <1>8 DEF IInv, SameObjects

\* What the test does by itself changes neither side.
LEMMA OwnStepsPreserve ==
  ASSUME IInv, UNCHANGED <<tracker, vsd, dds>>, held' \in Held,
         held'.rv = "none" \/ held' = [held EXCEPT !.body = held'.body]
  PROVE  IInv'
<1>1. SameObjects'
  <2>1. tracker' = tracker /\ vsd' = vsd /\ dds' = dds
    OBVIOUS
  <2>2. \A r \in {VSD, DD} : TrackedItems(tracker', r) = StoredItems(vsd', dds', r)
    BY <2>1 DEF IInv, SameObjects
  <2> QED
    BY <2>2 DEF SameObjects
<1>2. /\ held'.rv = "stale" => held'.res = DD
      /\ held'.rv = "current" => held'.res = VSD \/ dds[held'.name] # NoBody
  <2>1. CASE held'.rv = "none"
    BY <2>1
  <2>2. CASE held' = [held EXCEPT !.body = held'.body]
    <3>1. held = [res |-> held.res, ns |-> held.ns, name |-> held.name, body |-> held.body,
                  rv |-> held.rv]
      BY StateIs, HeldIs
    <3>2. held'.rv = held.rv /\ held'.res = held.res /\ held'.name = held.name
      BY <2>2, <3>1
    <3> QED
      BY <3>2 DEF IInv, TypeOK
  <2> QED
    BY <2>1, <2>2
<1>3. TypeOK'
  BY <1>2 DEF IInv, TypeOK
<1> QED
  BY <1>1, <1>3 DEF IInv

LEMMA NextPreserves ==
  ASSUME IInv, [Next]_vars
  PROVE  IInv'
<1>1. ASSUME NEW c \in CallsOf(held), Makes(c)
      PROVE  IInv'
  BY <1>1, MakesPreserves
<1>2. ASSUME NEW o \in Held, Literal(o)
      PROVE  IInv'
  BY <1>2, OwnStepsPreserve DEF Literal
<1>3. ASSUME NEW b \in BodiesOf(held.res), Edit(b)
      PROVE  IInv'
  <2>1. /\ held \in Held
        /\ held.res \in {VSD, DD} /\ held.ns \in AnyNamespace /\ held.name \in Names
        /\ held.rv \in {"none", "current", "stale"}
        /\ held = [res |-> held.res, ns |-> held.ns, name |-> held.name, body |-> held.body,
                   rv |-> held.rv]
    BY StateIs, HeldIs
  <2>2. held' = [held EXCEPT !.body = b] /\ UNCHANGED <<tracker, vsd, dds>>
    BY <1>3 DEF Edit
  <2>3. held' = [res |-> held.res, ns |-> held.ns, name |-> held.name, body |-> b, rv |-> held.rv]
    BY <2>1, <2>2
  <2>4. [res |-> held.res, ns |-> held.ns, name |-> held.name, body |-> b, rv |-> held.rv] \in Held
    BY <2>1, HeldMade
  <2>5. held'.body = b
    BY <2>3
  <2> QED
    BY <2>2, <2>3, <2>4, <2>5, OwnStepsPreserve
<1>4. CASE UNCHANGED vars
  <2>1. tracker' = tracker /\ vsd' = vsd /\ dds' = dds /\ held' = held
    BY <1>4 DEF vars
  <2> QED
    BY <2>1 DEF IInv, TypeOK, SameObjects
<1> QED
  BY <1>1, <1>2, <1>3, <1>4 DEF Next

\* The types and the same objects are one inductive invariant: the calls can be
\* compared only where the objects are the same.
LEMMA IInvHolds == Spec => []IInv
<1>1. Init => IInv
  BY InitHolds
<1>2. IInv /\ [Next]_vars => IInv'
  BY NextPreserves
<1> QED
  BY <1>1, <1>2, PTL DEF Spec

\* The types, and where the objects of either side can be.
THEOREM TypeCorrect == Spec => []TypeOK
<1>1. IInv => TypeOK
  BY DEF IInv
<1> QED
  BY <1>1, IInvHolds, PTL

\* A test that keeps clear of the known differences, whatever else it calls
\* and however often, leaves the same objects in the tracker and in the two
\* registries.
THEOREM SameStored == Spec => []SameObjects
<1>1. IInv => SameObjects
  BY DEF IInv
<1> QED
  BY <1>1, IInvHolds, PTL

\* However far it has come, the calls that tell the fake from the servers, by
\* the answer or by what is stored, are the known differences, all of them
\* and no others; the update of a DriverDiscovery that was deleted, by a copy
\* with its uid, is one of them.
THEOREM OnlyKnownDifferences == Spec => []DiffersOnlyAsKnown
<1>1. IInv => DiffersOnlyAsKnown
  BY CallsTellApart DEF DiffersOnlyAsKnown
<1> QED
  BY <1>1, IInvHolds, PTL
=============================================================================
