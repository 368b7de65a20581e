--------------------------- MODULE InformerCache ---------------------------
(***************************************************************************)
(* A client's local copy of the two resources: the generated informer      *)
(* factory, informers and listers (pkg/generated/cbt), fed by List and     *)
(* Watch of the API server.  VolumeSnapshotDeltas are listed and watched   *)
(* by pkg/storage/cbt-rest.go straight from etcd: List reads the keys      *)
(* below the group, in pages; Watch watches the group key itself.          *)
(* DriverDiscoveries go through the library's generic registry and its     *)
(* watch cache.  The reflector and the queue between it and the cache are  *)
(* client-go's.                                                            *)
(***************************************************************************)
EXTENDS Naturals, Sequences, FiniteSets, FiniteSetsExt, SequencesExt

CONSTANTS
  Resources,    \* the resources a factory is asked for
  Names,        \* object names, numbered in the order of their etcd keys
  Callers,      \* goroutines that share the factory
  Wishes,       \* which resource each of them may ask it for
  PageSize,     \* the pager's limit (500)
  MaxRevision   \* bound: how many writes etcd commits

VSD == "volumesnapshotdeltas"
DD  == "driverdiscoveries"

ASSUME ResourcesAssumption == Resources \subseteq {VSD, DD}
ASSUME WishesAssumption    == Wishes \subseteq [Callers -> Resources]
ASSUME NamesAssumption     == Names \subseteq Nat \ {0} /\ IsFiniteSet(Names)
ASSUME PageSizeAssumption  == PageSize \in Nat \ {0}
ASSUME MaxRevisionAssumption == MaxRevision \in Nat

VARIABLES
  history,     \* history[r]: the key space of etcd at revision r
  informers,   \* f.informers: the resources an informer was made for
  started,     \* f.startedInformers
  caller,      \* caller[c]: its resource, where it is, what it waits for
  reflector,   \* reflector[t]: the goroutine that lists and watches t
  fifo,        \* fifo[t]: the DeltaFIFO of t
  indexer      \* indexer[t]: the cache the listers of t read

factory == <<informers, started, caller>>
vars    == <<history, informers, started, caller, reflector, fifo, indexer>>

---------------------------------------------------------------------------
(* etcd.  An object is the revision of its last write; 0 is no object.     *)

GroupKey == 0   \* the key of an object without a name (generateName)
Slots    == Names \cup {GroupKey}
Nowhere  == [t \in Resources |-> [n \in Slots |-> 0]]

Revision == Len(history)
At(r)    == IF r = 0 THEN Nowhere ELSE history[r]

\* Create or update, and delete, of one object of a resource that somebody
\* follows.
Write(t, n) ==
  /\ Revision < MaxRevision
  /\ \E c \in Callers : caller[c].of = t
  /\ n = GroupKey => t = VSD
  /\ history' = Append(history,
                       [At(Revision) EXCEPT ![t][n] = Revision + 1])
  /\ UNCHANGED <<factory, reflector, fifo, indexer>>

Drop(t, n) ==
  /\ Revision < MaxRevision
  /\ At(Revision)[t][n] # 0
  /\ history' = Append(history, [At(Revision) EXCEPT ![t][n] = 0])
  /\ UNCHANGED <<factory, reflector, fifo, indexer>>

---------------------------------------------------------------------------
(* What the API server serves.                                             *)

\* List appends a slash to the group: the group key itself is not below it.
Listed(t) == Names

\* Watch passes the group without a slash and not WatchList: one key.  The
\* watch cache of DriverDiscoveries follows all of them.
Watched(t) == IF t = VSD THEN {GroupKey} ELSE Names

Items(t, r)     == {n \in Listed(t) : At(r)[t][n] # 0}
After(S, from)  == {n \in S : n > from}
Rank(n, S)      == Cardinality({m \in S : m <= n})
Smallest(S, k)  == {n \in S : Rank(n, S) <= k}

\* The changes of t a watch from revision r has still to deliver.
Events(t, r) ==
  {q \in (r + 1)..Revision : \E n \in Watched(t) : At(q)[t][n] # At(q - 1)[t][n]}

---------------------------------------------------------------------------
(* The reflector.  rv is lastSyncResourceVersion, gone whether the server   *)
(* has dropped it, unavailable and paged the reflector's flags.  A list    *)
(* under way: what was asked for, the revision it is read at and whether   *)
(* in the watch cache, what it has, the token's start key and whether its  *)
(* revision is gone, whether a continue token was ever received.           *)

NoList == [asked |-> "any", at |-> 0, cached |-> FALSE, has |-> {}, from |-> 0,
           gone |-> FALSE, paged |-> FALSE]
Idle   == [pc |-> "idle", rv |-> 0, synced |-> FALSE, gone |-> FALSE,
           unavailable |-> FALSE, paged |-> FALSE, list |-> NoList]
Lists  == [asked : {"any", "last", "latest"}, at : 0..MaxRevision, cached : BOOLEAN,
           has : SUBSET Names, from : Nat, gone : BOOLEAN,
           paged : BOOLEAN]
PCs    == {"idle", "list", "page", "replace", "watch", "watching"}
Reflectors == [pc : PCs, rv : 0..MaxRevision, synced : BOOLEAN, gone : BOOLEAN,
               unavailable : BOOLEAN, paged : BOOLEAN, list : Lists]

\* first is the revision of the first list, kept for a property only.
Empty  == [queue |-> << >>, items |-> [n \in Slots |-> 0],
           populated |-> FALSE, initial |-> 0, first |-> 0]
Queues == [queue : Seq(Slots), items : [Slots -> 0..MaxRevision],
           populated : BOOLEAN, initial : Nat, first : 0..MaxRevision]

TypeOK ==
  /\ history \in Seq([Resources -> [Slots -> 0..MaxRevision]])
  /\ started \subseteq informers /\ informers \subseteq Resources
  /\ caller \in [Callers -> [pc : {"new", "start", "wait", "waiting", "ready"},
                             of : Resources, waits : SUBSET Resources]]
  /\ reflector \in [Resources -> Reflectors]
  /\ indexer \in [Resources -> [Slots -> 0..MaxRevision]]
  /\ fifo \in [Resources -> Queues]
  /\ \A t \in Resources : /\ IsInjective(fifo[t].queue)
                           /\ fifo[t].initial <= Len(fifo[t].queue)
                           /\ fifo[t].first <= Revision

Init ==
  /\ history   = << >>
  /\ informers = {} /\ started = {}
  /\ \E w \in Wishes :
       caller = [c \in Callers |-> [pc |-> "new", of |-> w[c], waits |-> {}]]
  /\ reflector = [t \in Resources |-> Idle]
  /\ fifo      = [t \in Resources |-> Empty]
  /\ indexer   = Nowhere

\* relistResourceVersion: "" after an Expired error, "0" the first time.
Asks(x) == IF x.unavailable  THEN "latest"
           ELSE IF x.synced  THEN "last"
           ELSE                   "any"

\* The pager's limit; 0 is no limit.
Limit(x) == IF x.paged \/ Asks(x) # "last" THEN PageSize ELSE 0

\* The revisions at which the watch cache serves a list: only one of any
\* version, or without a limit one of the last version, than which it is then
\* no older though it may lag behind etcd.
ServedByCache(t, asked, limit) ==
  {r \in 0..Revision :
     /\ t = DD
     /\ asked = "any" \/ (asked = "last" /\ limit = 0 /\ reflector[t].rv <= r)}

\* Those at which etcd does: the last one, but a limit together with a
\* resourceVersion reads that very version.  Of DriverDiscoveries it gets the
\* lists the cache passes on, of any version while the cache is not ready.
ServedByEtcd(t, asked, limit) ==
  IF asked = "last" /\ limit > 0 THEN {reflector[t].rv}
  ELSE {r \in {Revision} : t = VSD \/ asked # "last"}

\* A variant of the watch cache that serves any list from any revision.
ServedFromTheStart(t, asked, limit, cached) == 0..Revision

ServedAt(t, asked, limit, cached) ==
  IF cached THEN ServedByCache(t, asked, limit) ELSE ServedByEtcd(t, asked, limit)

\* The very version asked for is gone.
Expired(t) ==
  LET x == reflector[t] IN
    x.pc = "list" /\ Asks(x) = "last" /\ Limit(x) > 0 /\ x.gone

\* The watch cache waits three seconds to be as new as the version asked for,
\* by the first request or by the one that starts over.
TooLarge(t) ==
  LET x == reflector[t] IN
    /\ t = DD
    /\ \/ x.pc = "list" /\ Asks(x) = "last" /\ Limit(x) = 0
       \/ x.pc = "page" /\ x.list.asked = "last" /\ x.list.gone

\* The list under way once items S of it, of which some may be left behind a
\* token, were to be read.  The watch cache knows no pages.
Continue(t, l, S, limit) ==
  LET page == IF limit = 0 \/ l.cached THEN S ELSE Smallest(S, limit)
      more == page # S
  IN [reflector[t] EXCEPT
        !.pc   = IF more THEN "page" ELSE "replace",
        !.list = [l EXCEPT !.has = @ \cup page, !.paged = @ \/ more,
                           !.from = IF more THEN Max(page) ELSE 0]]

\* A list that has nothing yet.
StartList(asked, cached, r) ==
  [NoList EXCEPT !.asked = asked, !.cached = cached, !.at = r]

FirstPage(t) ==
  LET x == reflector[t] IN
    /\ x.pc = "list"
    /\ ~Expired(t)
    /\ \E cached \in BOOLEAN : \E r \in ServedAt(t, Asks(x), Limit(x), cached) :
         reflector' = [reflector EXCEPT ![t] =
           Continue(t, StartList(Asks(x), cached, r), Items(t, r), Limit(x))]
    /\ UNCHANGED <<history, factory, fifo, indexer>>

\* A variant of the Expired error that only tries again.
VersionRetried(t) ==
  /\ Expired(t)
  /\ UNCHANGED vars

\* The reflector marks its version unavailable and lists the latest one at
\* once, with the same page size, which may fail like any list.
VersionUnavailable(t) ==
  LET x     == reflector[t]
      retry == Continue(t, StartList("latest", FALSE, Revision),
                        Items(t, Revision), Limit(x))
      fails == [x EXCEPT !.pc = "list", !.list = NoList]
  IN
    /\ Expired(t) \/ TooLarge(t)
    /\ \E y \in {retry, fails} :
         reflector' = [reflector EXCEPT ![t] = [y EXCEPT !.unavailable = TRUE]]
    /\ UNCHANGED <<history, factory, fifo, indexer>>

\* A variant of the continue token without a revision.
TokenVersionLatest(l) == Revision

\* The revision in the continue token.
TokenVersion(l) == l.at

NextPage(t) ==
  LET l == reflector[t].list IN
    /\ reflector[t].pc = "page"
    /\ ~l.gone
    /\ reflector' = [reflector EXCEPT ![t] =
         Continue(t, l, After(Items(t, TokenVersion(l)), l.from), PageSize)]
    /\ UNCHANGED <<history, factory, fifo, indexer>>

\* The token's revision was compacted: the pager starts over with the full
\* list, as it was asked for but without a limit.
NextPageExpired(t) ==
  LET l == reflector[t].list IN
    /\ reflector[t].pc = "page"
    /\ l.gone
    /\ \E cached \in BOOLEAN : \E r \in ServedAt(t, l.asked, 0, cached) :
         reflector' = [reflector EXCEPT ![t] =
           Continue(t, [StartList(l.asked, cached, r) EXCEPT !.paged = l.paged],
                    Items(t, r), 0)]
    /\ UNCHANGED <<history, factory, fifo, indexer>>

\* Any other error ends ListAndWatch; BackoffUntil calls it again.
ListFails(t) ==
  /\ reflector[t].pc \in {"list", "page"}
  /\ reflector' = [reflector EXCEPT ![t].pc = "list", ![t].list = NoList]
  /\ UNCHANGED <<history, factory, fifo, indexer>>

\* The names of a list come in their order.
InOrder(S) == [i \in 1..Cardinality(S) |-> CHOOSE n \in S : Rank(n, S) = i]

\* A variant that queues a name for each of its changes.
EnqueuedAgain(q, S) == q \o InOrder(S)

\* queueActionLocked: a name not queued yet goes to the end of the queue.
Enqueued(q, S) == q \o InOrder(S \ Range(q))

\* syncWith: DeltaFIFO.Replace queues every listed object, and a deletion of
\* every cached one that is not listed.  What is queued but neither cached
\* nor listed stays queued as it is.
Replace(t) ==
  LET x       == reflector[t]
      f       == fifo[t]
      dropped == {n \in Slots : indexer[t][n] # 0} \ x.list.has
      told    == x.list.has \cup dropped
  IN
    /\ x.pc = "replace"
    /\ fifo' = [fifo EXCEPT ![t] =
         [queue     |-> Enqueued(f.queue, told),
          items     |-> [n \in Slots |->
                           IF n \in x.list.has   THEN At(x.list.at)[t][n]
                           ELSE IF n \in dropped THEN 0
                           ELSE                       f.items[n]],
          populated |-> TRUE,
          initial   |-> IF f.populated THEN f.initial ELSE Cardinality(told),
          first     |-> IF f.populated THEN f.first ELSE x.list.at]]
    /\ reflector' = [reflector EXCEPT ![t] =
         [Idle EXCEPT !.pc = "watch", !.rv = x.list.at, !.synced = TRUE,
                      !.gone = x.list.gone,
                      !.paged = x.paged \/ (x.list.asked = "any" /\ x.list.paged)]]
    /\ UNCHANGED <<history, factory, indexer>>

OpenWatch(t) ==
  /\ reflector[t].pc = "watch"
  /\ ~reflector[t].gone
  /\ reflector' = [reflector EXCEPT ![t].pc = "watching"]
  /\ UNCHANGED <<history, factory, fifo, indexer>>

\* 410 when rv is gone, or another error than a refused connection:
\* ListAndWatch returns and is called again.
WatchRefused(t) ==
  /\ reflector[t].pc = "watch"
  /\ reflector' = [reflector EXCEPT ![t].pc = "list"]
  /\ UNCHANGED <<history, factory, fifo, indexer>>

\* The watch hands over its next event, and watchHandler queues it.  A
\* deletion of what is neither cached nor queued is skipped.
Deliver(t) ==
  LET x == reflector[t]
      f == fifo[t]
      r == Min(Events(t, x.rv))
      n == CHOOSE m \in Watched(t) : At(r)[t][m] # At(r - 1)[t][m]
      new  == At(r)[t][n]
      skip == new = 0 /\ indexer[t][n] = 0 /\ n \notin Range(f.queue)
  IN
    /\ x.pc = "watching"
    /\ Events(t, x.rv) # {}
    /\ reflector' = [reflector EXCEPT ![t] = [x EXCEPT !.rv = r, !.gone = FALSE]]
    /\ fifo' = [fifo EXCEPT ![t] =
         [f EXCEPT !.items = [@ EXCEPT ![n] = new],
                   !.queue = IF skip THEN @ ELSE Enqueued(@, {n})]]
    /\ UNCHANGED <<history, factory, indexer>>

\* The server's time limit closes the watch: it is opened again at rv.
CloseWatch(t) ==
  /\ reflector[t].pc = "watching"
  /\ reflector' = [reflector EXCEPT ![t].pc = "watch"]
  /\ UNCHANGED <<history, factory, fifo, indexer>>

\* It breaks: an error event, or closed within a second and without one.
BreakWatch(t) ==
  /\ reflector[t].pc = "watching"
  /\ reflector' = [reflector EXCEPT ![t].pc = "list"]
  /\ UNCHANGED <<history, factory, fifo, indexer>>

\* etcd is compacted every five minutes up to where it was five minutes ago,
\* and the watch cache forgets old events.  Writes elsewhere, the compactor's
\* own among them, make any revision old.
Compact(t) ==
  LET x == reflector[t]
      l == [x.list EXCEPT !.gone = x.pc \in {"page", "replace"}]
  IN
    /\ x.pc # "idle"
    /\ reflector' = [reflector EXCEPT
         ![t] = [x EXCEPT !.gone = x.synced, !.list = l]]
    /\ UNCHANGED <<history, factory, fifo, indexer>>

\* Pop and HandleDeltas: the oldest queued name goes to the cache.
Pop(t) ==
  LET f == fifo[t]
      n == Head(f.queue)
  IN
    /\ f.queue # << >>
    /\ indexer' = [indexer EXCEPT ![t] = [@ EXCEPT ![n] = f.items[n]]]
    /\ fifo' = [fifo EXCEPT ![t] =
         [f EXCEPT !.queue   = Tail(@),
                   !.items   = [@ EXCEPT ![n] = 0],
                   !.initial = IF @ > 0 THEN @ - 1 ELSE 0]]
    /\ UNCHANGED <<history, factory, reflector>>

\* A variant that is content with the first list being queued.
Populated(t) == fifo[t].populated

HasSynced(t) == fifo[t].populated /\ fifo[t].initial = 0

\* Get of the two listers, of one namespace the one: it reads the cache, and
\* 0 is its NotFound.
VolumeSnapshotDeltaLister(n) == indexer[VSD][n]
DriverDiscoveryLister(n)     == indexer[DD][n]

Lister(t, n) == IF t = VSD THEN VolumeSnapshotDeltaLister(n)
                           ELSE DriverDiscoveryLister(n)

---------------------------------------------------------------------------
(* The factory, whose lock each of these steps holds, and its callers.     *)

\* InformerFor makes an informer unless there is one for the resource.
InformerFor(t) == informers \cup {t}

\* Informer or Lister of the resource's accessor: both make the informer.
Informer(c) ==
  /\ caller[c].pc = "new"
  /\ informers' = InformerFor(caller[c].of)
  /\ caller' = [caller EXCEPT ![c].pc = "start"]
  /\ UNCHANGED <<history, started, reflector, fifo, indexer>>

\* Start may be called many times.
Start(c) ==
  /\ caller[c].pc # "new"
  /\ started' = informers
  /\ reflector' = [t \in Resources |->
       IF t \in informers \ started THEN [Idle EXCEPT !.pc = "list"]
                                    ELSE reflector[t]]
  /\ caller' = [caller EXCEPT ![c].pc = IF @ = "start" THEN "wait" ELSE @]
  /\ UNCHANGED <<history, informers, fifo, indexer>>

\* WaitForCacheSync looks under the lock which informers are started, and
\* polls those without it.
WaitForCacheSync(c) ==
  /\ caller[c].pc = "wait"
  /\ caller' = [caller EXCEPT ![c].pc = "waiting", ![c].waits = started]
  /\ UNCHANGED <<history, informers, started, reflector, fifo, indexer>>

Synced(c) ==
  /\ caller[c].pc = "waiting"
  /\ \A t \in caller[c].waits : HasSynced(t)
  /\ caller' = [caller EXCEPT ![c].pc = "ready"]
  /\ UNCHANGED <<history, informers, started, reflector, fifo, indexer>>

Next ==
  \/ \E t \in Resources, n \in Slots : Write(t, n) \/ Drop(t, n)
  \/ \E t \in Resources :
       \/ FirstPage(t)
       \/ VersionUnavailable(t)
       \/ NextPage(t)
       \/ NextPageExpired(t)
       \/ ListFails(t)
       \/ Replace(t)
       \/ OpenWatch(t)
       \/ WatchRefused(t)
       \/ Deliver(t)
       \/ CloseWatch(t)
       \/ BreakWatch(t)
       \/ Compact(t)
       \/ Pop(t)
  \/ \E c \in Callers :
       \/ Informer(c)
       \/ Start(c)
       \/ WaitForCacheSync(c)
       \/ Synced(c)

Spec == Init /\ [][Next]_vars

\* The goroutines run, a list that is tried again and again succeeds, a watch
\* is closed by its time limit, and etcd goes on being compacted.  Nothing
\* else has to happen: no write, no broken watch, no caller.
FairSpec ==
  /\ Spec
  /\ \A t \in Resources :
       /\ SF_vars(FirstPage(t))
       /\ WF_vars(VersionUnavailable(t) /\ Expired(t))
       /\ SF_vars(NextPage(t) \/ NextPageExpired(t))
       /\ WF_vars(Replace(t))
       /\ WF_vars(OpenWatch(t) \/ WatchRefused(t))
       /\ WF_vars(Deliver(t))
       /\ WF_vars(CloseWatch(t) \/ BreakWatch(t))
       /\ WF_vars(Pop(t))
       /\ t = VSD => WF_vars(Compact(t))

---------------------------------------------------------------------------
(* Properties.                                                             *)

\* What the pages of a list add up to is the state at one revision: no
\* object is missed, or listed beside one that replaced it later, whatever is
\* written between the pages and though the token may expire half way.
ListIsSnapshot ==
  \A t \in Resources :
    LET x == reflector[t] IN
      x.pc = "replace" => x.list.has = Items(t, x.list.at)

\* The cache never goes back to an older version of an object it holds, and
\* the version the reflector asks for never falls, however often it lists
\* again, from whichever of etcd and the watch cache.
MovesForward ==
  \A t \in Resources :
    /\ reflector[t].rv <= reflector'[t].rv
    /\ \A n \in Slots : \/ indexer'[t][n] = 0
                         \/ indexer[t][n] <= indexer'[t][n]

CacheMovesForward == [][MovesForward]_vars

\* A caller whose WaitForCacheSync returned finds in its lister every object
\* of the first list, as it was then or as it is later, unless the object
\* was deleted in between, though queue and cache fill behind its back.
ReadySeesList ==
  \A c \in Callers :
    caller[c].pc = "ready" =>
      LET t     == caller[c].of
          first == fifo[t].first
      IN \A n \in Items(t, first) :
           \/ Lister(t, n) >= At(first)[t][n]
           \/ \E r \in first..Revision : At(r)[t][n] = 0

\* Once the writes stop the cache of VolumeSnapshotDeltas comes to hold what
\* etcd holds, though no watch ever tells of a change: the compaction that
\* makes the watch's version too old forces the list.
Converges ==
  VSD \in Resources =>
    <>[](VSD \in started =>
           \A n \in Listed(VSD) : VolumeSnapshotDeltaLister(n) = At(Revision)[VSD][n])

---------------------------------------------------------------------------
(* What the comments say, and the code does not do.                        *)

\* clientset volumesnapshotdelta.go:96: a watch watches the requested
\* VolumeSnapshotDeltas.  So a cache whose watch is open and has nothing left
\* to deliver holds what List would return.
WatchComplete ==
  \A t \in started :
    (/\ reflector[t].pc = "watching"
     /\ Events(t, reflector[t].rv) = {}
     /\ fifo[t].queue = << >>)
    => \A n \in Listed(t) : Lister(t, n) = At(Revision)[t][n]
=============================================================================
