# A verification project for cbt-aggapi

TLA+ models of the changed-block-tracking aggregated API server, their TLC
configurations, and proofs checked by TLAPS. Paths below are relative to the
repository (`src/` is its root).

## 1. Inventory

Who talks to whom:

    backup client --HTTPS--> kube-apiserver --> aggregated API server
                                                  |        |        \
                                              etcd (txn)  DriverDiscovery  http.Get
                                                                            |
                                     CSI driver <--gRPC, unix socket-- CBT sidecar

| Part | Code | State it keeps | Operations |
|---|---|---|---|
| Registry of VolumeSnapshotDeltas | `pkg/storage/cbt-rest.go` over `vendor/k8s.io/apiserver/pkg/storage/etcd3/store.go` | one etcd key per object name, with its ModRevision | Create, Update, Delete, Connect (GET), List, Watch |
| Changed-block fetch | `Connect`, `invokeCBTService` of `cbt-rest.go`; `handle` of `cmd/mock/http/main.go`; `pkg/grpc/server/server.go` | none but the goroutines of the requests | GET with `fetchcbd`, `limit`, `offset` |
| Backup client, start-up | `cmd/mock/client/main.go` | goroutines, an error channel, a context | `doCreate` |
| Backup client, HTTP handler | `handle` of `cmd/mock/client/main.go` | none | list, normal and extended GET |
| CBT sidecar | `cmd/mock/http/main.go` | registration loop, driver connection, listener | register, connect, serve, shut down |
| CSI driver (mock) | `cmd/mock/grpc`, `pkg/grpc/server` | none | ListVolumeSnapshotDeltas |
| DriverDiscovery | `pkg/apis/cbt/v1alpha1/driverdiscovery_types.go`, generic registry of the library | one object per driver | every verb of the generic registry |
| Types, defaults, options | `pkg/apis/cbt/v1alpha1` | none | ConvertFromUrlValues, SetDefaults |
| API server bootstrap | `cmd/apiserver/main.go` | none after start | wiring: which storage serves which routes |
| gRPC and protobuf messages | `pkg/grpc/cbt.pb.go`, `cbt_grpc.pb.go` | none | messages, getters, the call and its wire |
| Typed clientset | `pkg/generated/cbt/clientset/versioned` | none | a request per method |
| Fake clientset, deep copies | `.../fake`, `zz_generated.deepcopy.go` | an object tracker, watchers | the same methods, on memory |
| Informers, listers | `pkg/generated/cbt/informers`, `listers` | informers made and started; caches | Start, WaitForCacheSync, Get, List |
| OpenAPI tables; manifests, images, build | `zz_generated.openapi.go`, `yaml`, `Makefile` | none | none |

What is hard, and where it is checked:

* **Registry.** Handlers run concurrently and have no lock; the only
  synchronisation is the ModRevision comparison of an etcd transaction and the
  loop around it. A client may be cut off with its transaction on the way.
  Correct means: no acknowledged write is lost or applied twice, preconditions
  hold on what is really replaced, and the whole looks like one atomic step
  per call.
* **Fetch.** One GET crosses five processes. The object changes meanwhile;
  the sidecar and the driver come and go; the API server's timeout filter
  answers after 60 seconds while the handler goes on. Correct means: no failure
  looks like "no changes", the object shown is one that existed during the
  request, and no goroutine is left behind.
* **Backup client.** Three goroutines, one unbuffered channel with one
  receive, a shared context, a wait group. Correct means: start-up ends, and
  what failed is known.
* **Backup client's handler.** It stands between its callers and the API server
  with a deadline of its own. Correct means: every caller is answered, and a
  200 without blocks means that the driver named none.
* **Sidecar.** Registration is retried over an unreliable channel and is not
  idempotent in what it registers; the process leaves in four ways.
* **List, Watch and informers.** Pages are read while objects are written and
  etcd forgets; a queue, a cache and a factory shared by goroutines follow.
  Correct means: a list is one revision's state, nothing cached goes back, a
  cache that says it is synced holds the first list, and it converges.
* **Formats.** Blocks pass through protobuf, Go types and JSON, each with its
  own times. Correct means: the same blocks, and no token made to live longer.
* **Fake and real clientset.** Tests are written against the fake. Correct
  means: it answers as the servers do, and shares no memory with the test.

`PROJECT.json` lists the hazards line by line.

## 2. Modules

| Module | What it is |
|---|---|
| `RegistryOps` | the sequential meaning of a call: which verdicts the code may reach on a key's state (`Allows`), what a transaction writes (`Effect`), what is returned (`Outcome`), which status the client sees (`HttpStatus`) |
| `AtomicRegistry` | the abstract specification: each call is one step, at most once, possibly after its client gave up |
| `CbtStorage` | the handlers over etcd, step by step; implements `AtomicRegistry` |
| `ClientConfig` | how the programs come by a clientset, or do not |
| `BackupClient` | start-up of `cmd/mock/client` |
| `CbtSidecar` | life of `cmd/mock/http` |
| `SnapshotOptions` | the query parameters and their conversion |
| `CbtProto` | the protobuf messages, their getters, and what a message is after the wire |
| `DeltaCodec` | the forms of a list of changed blocks: protobuf, API types, JSON |
| `DeltaFetch` | a GET from the API server to the driver and back |
| `BackupService` | the backup client's handler in front of `DeltaFetch`; the composition that is checked |
| `InformerCache` | informer factory, reflector, queue and cache, over `List` and `Watch` of the two registries and etcd's history |
| `DeepCopy` | the generated deep copies, on a memory with pointers |
| `FakeClientset` | the fake clientset and its tracker as one test uses them |
| `ClientParity` | the same test against the fake and against the two registries (`RegistryOps` for one of them) |
| `MC...` | the instances TLC checks; each `.cfg` is one run |
| `...Proofs` | the theorems about the module of that name (section 5) |

    RegistryOps <- AtomicRegistry <= CbtStorage
         ^
         +-- ClientParity            ClientConfig <- BackupClient, CbtSidecar
    CbtProto <- DeltaCodec <- DeltaFetch <- BackupService
                SnapshotOptions <--+
    DeepCopy <- FakeClientset        InformerCache

    DeltaFetchProofs <- BackupServiceProofs

(`<-` extends or instantiates, `<=` is refined by.)

### CbtStorage

`etcd[n]` is the key of name `n`: value and ModRevision (`Absent` has revision
0, as etcd reports it). The namespace is a field of the object and not of the
key, as in `keyPath`. An object is a namespace, a uid and a body; bodies are
compared for equality only (that is what `bytes.Equal` of `GuaranteedUpdate`
and etcd do with them).

A request goes `idle -> start -> txn -> decided -> answered`. `GetState` is
the read that begins an update, a delete or a GET; `CreateBegin` the beginning
of a create, which reads nothing; `Decide` the part of the loop between two
calls to etcd (preconditions, validation, short-circuit on equal content);
`Commit` and `Conflict` the two outcomes of the transaction; `Respond` is
`finishRequest`. An etcd transaction is atomic, a handler is not. `Abandon`
stands for every way of being cut off; a transaction already sent becomes an
`orphan`, which etcd may still commit (`OrphanCommit`) or not (`OrphanDrop`).

### BackupClient

`worker[w]` is a goroutine of `doCreate`: in `Create`, sending on `errChan`, or
done. The channel has no buffer, so `SendError` is the send and the receive;
`CancelAll` is what the receiver does next before it ends. `DoCreateErr` is the
value `doCreate` returns: the outer `err`, which nothing assigns to. A process
that gets no clientset (`NoClientset`) ends in `klog.Fatal`.

### CbtSidecar

`SendCreate`, `CreateAnswered`, `CreateErrors`, `RegDeadline` and
`RegisterReturns` are the loop of `registerDriver` in `wait.BackoffUntil`. The
registry keeps the first DriverDiscovery (`Registered`). A Create that was given
up or whose process died stays in `late`, and `LateCreate` may register its
endpoint at any later time, in another life of the sidecar too. The process
leaves by `RegisterReturns` (Fatal), `ListenReturns` after an interrupt,
`ConnectionLost` (`ExitOnConnectionLoss`) or `Kill`. A restarted process may be
configured with another endpoint.

`conn` is the gRPC connection: `DriverDown` closes it, which makes it idle
(`vendor/google.golang.org/grpc/clientconn.go:1256`) and does no more. The next
call's pick redials (`Pick`, `pickfirst.go:139` and `172`), and only the dialer
of that redial takes the connection for lost (`connection.go:128`), whether or
not the driver is up again.

### DeltaFetch, CbtProto, DeltaCodec, BackupService

`pc[r]` is the handler goroutine of GET `r`, `wire[r]` its HTTP exchange with
the sidecar, `client[r]` what the client was told. They are separate because
they end separately: `RequestTimeout` answers the client while the handler
runs on, `SidecarDown` cuts an exchange under the handler, `GrpcFails` (which
includes the sidecar's 180 seconds) ends it with an error text. The object is
its version and the blocks stored in its status, which another client may have
put there (`ObjectChanges`): `since[r]` is the version when the request arrived,
`result[r]` the version read, `said[r]` the driver's answer.

`CbtProto` has the messages with their optional fields, the getters, and
`EncodeResponse` and `DecodeResponse`: on the wire a message is its fields by
number and a field its occurrences, so what is zero or nil does not occur and a
nil entry arrives as an empty one. `MockResponse` is the mock driver's answer.

`DeltaCodec` has one operator per further hop: `Converted` is the loop of the
sidecar's `handle` with the getters, `AsTime` and `AsDuration`; `Marshal` and
`Unmarshal` are the JSON of `metav1.Time` (a whole second) and `metav1.Duration`
(exact). `ReadBody` applies the second pair twice: sidecar to API server, API
server to client. Time is counted in ticks, of which a second has several.

`asked[r]` and `answer[r]` of `BackupService` are a caller of the backup client
and what it was answered. `HandleGet` makes the GET, `GetReturns` answers,
`TimesOut` is the handler's own 180 seconds, `Restart` the pod's. A list is one
request that waits for nobody.

### InformerCache

`history[r]` is etcd's key space at revision `r`; an object is the revision of
its last write. `reflector[t]` is the goroutine of `ListAndWatch`: `FirstPage`
and `NextPage` are a call of `List` each, with the revision it is read at
(`ServedAt`) and its continue token. `ServedByEtcd` is `store.List`;
`ServedByCache` the watch cache in front of it, which DriverDiscoveries have and
which passes on to etcd what it does not serve, lists of any version among them
while it is not ready. `VersionUnavailable` is the reflector's immediate retry
at the latest version. `Deliver`, `CloseWatch` and
`BreakWatch` are the watch. `Watched` is what the key handed to `Watch` covers:
`cbt-rest.go` passes the group key, which no named object has. `Compact` makes
old revisions unreadable. `Replace` and `Pop` are the DeltaFIFO, `indexer` the
cache, the two `...Lister` operators its readers. `Informer`, `Start`,
`WaitForCacheSync` and `Synced` are the factory's callers.

### FakeClientset, DeepCopy

Memory is named after its owner: the tracker for a name, a variable of the
test, an event on its way. An object has the one field that is reached by
pointer: the slice of pointers in a VolumeSnapshotDelta's status, a map of
labels in a DriverDiscovery. Each client method is an action with the copies
that the tracker and `ObjectReaction` make; `Scribble` is the test writing to
what it holds, which reaches every place that shares the memory. `Add` is
`Tracker().Add`, and `NewSimpleClientset` a sequence of them; `List` copies
every item, and the test keeps one of them; `Receive` is the test
taking an event from the channel and applying it, where `Shows` is what an event
says is stored of its object.

### ClientParity

State is the fake's tracker, the two registries and one variable of the test.
`Fake` and `Real` say what each side answers to a call and is left with.
`KnownDifference` names the calls that tell them apart, and `Makes` is a call
that is none of them. That both sides answer such a call alike and store the
same objects after it is not in its guard: it is what the run and the proofs
show. What a test was returned (`rv` is not "none") has a uid as well, which an
update of a DriverDiscovery takes for a precondition. `RootRequest` and
`Request` are the verb and path of the typed client's methods, `Routes` the
routes the API server installs from the interfaces a storage implements.

## 3. Runs

Bounds: TLC explores every interleaving within them.

| Run | Instance | Shows |
|---|---|---|
| `CbtStorage_contended` | 4 requests, 1 name, 5 calls (create, put with and without uid, delete with and without preconditions) | `RevisionPinsState`, `ChainOfWrites`, `PreconditionsHonoured`. Four requests are needed to delete and re-create a key between another's read and its transaction |
| `CbtStorage_atomic` | 3 requests, 2 names, 2 namespaces, 7 calls (a create with a resourceVersion, a GET), fair | `Linearizable`, the refinement of `AtomicRegistry`; `EveryCallEnds`; the inductive invariant `IInv`, before and beside its proof |
| `BackupClient_startup` | the code's three goroutines, 1 restart, fair | `OneErrorDelivered`, `ServingLacksAtMostOne`, `ServesUnlessTwoFail` |
| `CbtSidecar_life` | 2 endpoints, 2 requests, 1 restart, fair | `ServingIsRegistered`, `HandledWhereRegistered`, `RegistrationEnds`, `NextRequestEnds`. One restart is enough to come back under another endpoint |
| `DeltaFetch_gets` | a caller of the backup client and a direct client; 3 queries (plain, extended as `cmd/mock/client` writes it, malformed); a driver's answer of 6 blocks, four of them with what is optional left out or too long, and an answer without a list; the object changes once, the sidecar and the driver without bound; fair | `DeltasFromTheDriver`, `TokensDoNotOutlive`, `ReadIsCurrent`, `CallersSeeTheDriver`, `HandlersEnd`, `CallersEnd` |
| `InformerCache_follow` | either resource, 2 names, pages of 1, 3 writes, fair | `ListIsSnapshot`, `ReadySeesList`, `CacheMovesForward`, `Converges` |
| `FakeClientset_isolated` | either resource, 1 name, 2 variables, 2 values, 3 unread events | `ScribblesStayLocal`, `WatchTellsAll`, and `TypeOK`, which says whose memory an object lies in |
| `ClientParity_agree` | 2 names, 2 namespaces, 2 labels | `SameObjects`, `DiffersOnlyAsKnown` |

`CbtStorage_contended` uses symmetry in the requests; no run with a temporal
property does.
`CHECK_DEADLOCK FALSE` is set everywhere: a finite set of requests or writes is
used up, and a client whose goroutines are stuck or a sidecar out of restarts
stops.

Why the bounds are enough:

* `DeltaFetch_gets`: GETs share nothing but the object, so two (one to be shown
  blocks, one to store them and be asked about) meet in every way they can. One
  change of the object distinguishes the version at arrival from the one read,
  and the one read from the last. Two ticks a second leave one instant that is
  no whole second, which is all that rounding can see. `HandlersEnd` and
  `CallersEnd` say that there comes a time when no handler runs and nobody
  waits; since a request is made once, each of them has ended by then.
* `InformerCache_follow`: two names and pages of one give a list with a token;
  three writes let an object be created, be replaced or deleted between the
  pages, and another appear. Lists, watches and compactions are not bounded.
  One caller starts the factory as often as it likes and waits for it while the
  informer's goroutines run; two callers with two writes hold the same
  properties, two with three writes are too many states for a run.
* `FakeClientset_isolated`: sharing takes two holders, which are any two of
  tracker, event and two variables. Events of different names do not meet, and
  three of one name are enough to create, change and delete it before the first
  is read. The proof is for any number of names; with two of them and one unread
  event the run holds the same properties. `Notify` makes a write wait while
  `MaxEvents` events are unread; the library's channel holds 100 and panics
  beyond them, which no test of the model comes near.
* `ClientParity_agree`: a namespace can be wrong in two ways, another one and
  none; tests are of any length.

### Disagreements between the code and what it says

Each of these runs ends in a counterexample; the lines quoted are in
`PROJECT.json` under "findings".

| Run | What the code does |
|---|---|
| `CbtStorage_CreatedIsStored` | a create that lost the race is answered 201 with content stored nowhere |
| `CbtStorage_StalePutRefused` | a PUT with the resourceVersion of a version that has been replaced since is answered 200 and replaces the newer object |
| `BackupClient_StartupEnds` | two failures and `wg.Wait` waits for ever |
| `InformerCache_WatchComplete` | a watch of VolumeSnapshotDeltas follows the group key and tells of none of them |

Seen in the code while modelling, and too plain for a run: an update that
creates is answered 200 (`created` is always false, `cbt-rest.go:283`, against
its comment at 244); a delete of nothing is answered 500 (against the comment at
290); dry runs are committed; the offset is stored in the limit
(`volumesnapshotdeltaoption_types.go:75`); the sidecar drops the driver's
`next_token`; the mock driver lists deltas for a request without a target
(against `proto/cbt.proto:22`); neither limit nor offset goes anywhere after its
conversion; the key of an object drops its namespace, so that objects of one
name in two namespaces are one (the differences of `ClientParity`); `doCreate`'s
`err` is shadowed in its goroutines (`cmd/mock/client/main.go:110`), so `main`
serves after a failed Create; AlreadyExists with another endpoint counts as
registered (`cmd/mock/http/main.go:104`); the listener is gone before the
requests it accepted are answered (`ListenReturns`); `ExitOnConnectionLoss`
acts only when gRPC dials again, which it does for the next call
(`connection.go:83` and `128`), so a sidecar that lost its driver and is sent
nothing lives on; updating a DriverDiscovery from a copy held since its deletion
is 409 Conflict on the server, for the copy's uid, and NotFound on the fake.

## 4. Fairness

* `CbtStorage`: weak fairness of a handler's own steps and of its answer. The
  Go runtime schedules goroutines; etcd answers what it is asked. Nothing makes
  a client call, a deadline pass or a server fail. `EveryCallEnds` needs no
  deadline.
* `BackupClient`: goroutines run and the 180 seconds pass. The API server owes
  no answer: a Create is only bound to return once its context is done. A
  process that starts gets a clientset or ends.
  No restart is owed, so a stuck client stays stuck.
* `CbtSidecar`: the same, with five minutes. The registry owes no success and
  the driver no socket: a sidecar may wait in `connection.Connect` for ever. The
  API server owes no request, so a connection that was closed may stay idle for
  ever, and the process with it. A call that began ends, by the 180 seconds of
  its context if by nothing else (`Pick`, `Handle`); once it has made gRPC dial,
  the goroutine that dials runs (`ConnectionLost`). Hence `NextRequestEnds` is
  about a sidecar that has accepted a request.
* `DeltaFetch`: the timeout filter fires, the two reads (etcd, DriverDiscovery)
  end once the request's context is done, the dial ends (the default
  transport's 30 seconds), and the sidecar's gRPC call ends after its 180
  seconds, which is the only thing that bounds `http.Get`. The driver owes
  nothing. That a broken connection is noticed is the kernel's keep-alive and
  is part of `SidecarDown`. `BackupService` adds one condition, that the
  handler's 180 seconds pass; nothing is assumed of `GetReturns`.
* `InformerCache`: goroutines run; a list that is tried again and again
  succeeds at some time (strong fairness, since an error may always come
  first); the server's time limit closes a watch; etcd is compacted every five
  minutes (`compact.go`), which it does whether or not anybody writes. No write,
  no broken watch and no caller is owed. `Converges` rests on the compaction:
  since the watch tells nothing, only a version that is gone makes the
  reflector list again.

## 5. Proofs

Every safety property that a passing run checks is a theorem as well: it holds
for every value of the constants, where the runs show it for small ones. Each
proof module extends the module it is about and has an inductive invariant
(`IInv`, `SInv`), whose conjuncts are named; one lemma for each action, or
group of actions that change the same things (in `ClientParity` for each kind
of call), shows that it is kept; the theorems say what follows.

| Module | Theorem | States |
|---|---|---|
| `CbtStorageProofs` | `TypeCorrect`, `IInvHolds`, `RevisionPins`, `PreconditionsHold`, `WritesChain` | `TypeOK`, `IInv`, `RevisionPinsState`, `PreconditionsHonoured`, `ChainOfWrites` |
| | `Implements` | `Spec => Linearizable`, that is `Registry!Spec` |
| `DeltaFetchProofs` | `HopsKeepBlocks` | what the client reads has the driver's blocks, one for one |
| | `HopsKeepLives` | a token's expiry loses less than a second and gains nothing |
| | `TypeCorrect`, `CurrentRead`, `DriversDeltas`, `TokensLive` | `TypeOK`, `ReadIsCurrent`, `DeltasFromTheDriver`, `TokensDoNotOutlive` |
| `BackupServiceProofs` | `ServiceIsFetch` | `ServiceSpec => Spec`: the service over `DeltaFetch` is one of its behaviours |
| | `ServiceTypeCorrect`, `CallersSee` | `ServiceTypeOK`, `CallersSeeTheDriver` |
| `BackupClientProofs` | `TypeCorrect`, `OneErrorLeaves`, `LacksAtMostOne` | `TypeOK`, `OneErrorDelivered`, `ServingLacksAtMostOne` |
| `CbtSidecarProofs` | `TypeCorrect`, `RegisteredWhenServing`, `RegisteredWhenHandling` | `TypeOK`, `ServingIsRegistered`, `HandledWhereRegistered` |
| `InformerCacheProofs` | `IInvHolds`, `TypeCorrect`, `ListsAreSnapshots`, `ReadyHasList` | `IInv`, `TypeOK`, `ListIsSnapshot`, `ReadySeesList` |
| | `CacheForward` | the action property `CacheMovesForward` |
| `FakeClientsetProofs` | `IInvHolds`, `TypeCorrect`, `EventsTell` | `IInv`, `TypeOK`, `WatchTellsAll` |
| | `ScribblesLocal` | the action property `ScribblesStayLocal` |
| `ClientParityProofs` | `TypeCorrect`, `SameStored`, `OnlyKnownDifferences` | `TypeOK`, `SameObjects`, `DiffersOnlyAsKnown` |

### Assumptions

Only those about constants, which the modules declare and TLC evaluates:

* a "none" value is none of the values (`NoUIDAssumption`, `NoObjectAssumption`,
  `NoCallAssumption`, `NoOutcomeAssumption`, `EndpointsAssumption`,
  `ValuesAssumption`; `NilAssumption`: a nil pointer is none of the messages,
  numbers or strings it could point to; in `ClientParity` the empty name,
  namespace and label, `NamesAssumption`, `NamespacesAssumption` and
  `LabelsAssumption`);
* calls, queries, answers, wishes and contents are of their types
  (`CallsAssumption`, `QueriesAssumption`, `AnswersAssumption`,
  `WishesAssumption`, `ContentsAssumption`; `ResourcesAssumption`), and the two
  queries the backup client sends are among them (`SentAssumption`);
* bounds and sizes are numbers, pages are not empty, a second has a tick
  (`MaxRestartsAssumption`, `MaxVersionAssumption`, `MaxRevisionAssumption`,
  `MaxEventsAssumption`, `PageSizeAssumption`, `ClockAssumption`);
* names are numbers, because keys are ordered, and there are finitely many of
  them (`NamesAssumption` of `InformerCache`); a process has finitely many goroutines
  (`WorkersAssumption`).

The bounds stay in the theorems as constants that may be any number: no theorem
depends on how large one is.

### The arguments

**CbtStorage.** `RevisionPinsState` says that if the transaction's comparison
would succeed, the key holds what the handler read. It is not inductive alone:
a step of another request could give the key the same revision again. So `IInv`
adds `RevisionsBounded` (no key and no handler holds a revision etcd has not
reached, so a new revision is fresh), `TxnJustified` (a transaction is under
way only if the loop decided for it on the state it read) and `OutcomesFit`
(what is recorded of a committed request fits the state it replaced). The
actions that decide go through `DecidePreserves`, the two that commit through
`WritePreserves`, the rest through `MovePreserves`. `ChainOfWrites` is proved on
top of `IInv`: `ChainKept` for the steps that commit nothing, `ChainExtended`
for those that do, where the freshness of the new revision shows that the
committing request is the only one to have overwritten its predecessor.
`Implements` maps each step: a decision without a write (`DecideRefines`) and a
commit (`WriteRefines`) are `Perform` or `PerformLate`, the other steps change
at most the status or stutter.

**DeltaCodec**, the first part of `DeltaFetchProofs`. A lemma for each hop: `EntriesReceived` (the wire),
`ConvertedReceived`, `JsonRoundTrip`. The first pass through JSON rounds a time
down (`FormatTimeRoundsDown`); the second is exact (`SecondHopIsExact`), since
whole seconds stay. Together they give the list the client sees as a function
of the message the driver sent.

**DeltaFetch.** Neither `DeltasFromTheDriver` nor `ReadIsCurrent` is inductive.
What is on the wire is tied to what the driver said (`WireIsSaid`), and the
client's list to the same (`ClientIsSaid`); the version read lies between the
one at arrival and the present one for as long as the handler holds it
(`ResultIsCurrent`). `OnlyTimeouts` says that nobody but the timeout filter
answers a client whose handler still runs, so no reply is overwritten.

**BackupService.** `ServiceStep` maps each step of the service to one of
`DeltaFetch` or to a stutter, so the invariant of the one holds in the other.
`AnswerIsReply` and `ExtendedFetches` then tie a caller's answer to the reply of
its own GET.

**BackupClient.** `WorkersFit` accounts for each goroutine: its error is on its
way or delivered, or its object is stored. `Rendezvous` is `OneErrorDelivered`
without counting: nobody's error was taken while the receiver waits, exactly
one goroutine's afterwards. A client serves only after all goroutines are done
(`ServingWaited`), so whoever failed has sent its error and had it taken: that
is at most one, and everybody else stored its object.

**CbtSidecar.** The error that decides is that of an attempt (`DoneIsTried`): the
deadline finds a call under way or one that has been answered. A nil error means
that a DriverDiscovery exists (`NilIsRegistered`), and only a nil error leads
out of the loop to the driver (`LeftIsNil`). `HandledWhereRegistered` is
inductive with these: a request is accepted where the DriverDiscovery and the
process's endpoint agree, no Create, however late, replaces a DriverDiscovery
that exists (`RegisteredIsKept`), and what ends the process drops its requests
before another endpoint can be configured.

**InformerCache.** `ReflectorFits`: the items of the pages so far are the objects
up to the token's key at the token's revision, in the order of the keys, and the
reflector's revision is no later than etcd's. Only a list made before the first
one was stored asks for any version, so no list is read behind the reflector's
revision (`ServedAtIsNew`). `QueueFits`: what is queued for a
name is a version the reflector has seen, the later the newer, and newer than
what the cache has (`Fresh`), and one name is queued once. The properties follow
from the two: a last page completes a snapshot; `Pop` puts newer versions in the
place of older ones; the first list leaves the queue only for the cache
(`CallersFit`). A page is the initial part of a sorted set, which takes a
small theory of `Min`, `Max`, `Rank` and `InOrder`. It has no induction: least
elements come from the well-foundedness of strict inclusion among finite sets
(`FS_StrictSubsetOrderingWellFounded`, `WFMin`), the rest from cardinalities.

**FakeClientset.** `Objects(kind, x)` are the objects in memory made for `x`, and
`TrackerFits`, `HeldFits` and `ChannelFits` say that everything the tracker
stores, a variable points to or an event carries is one for its owner. `CopyIs`
is the lemma about the generated `DeepCopyInto` functions: a copy lies in the
memory of its new owner and reads as the original. `WriteEntryIs` and
`WriteElementIs` are about a write through a pointer into memory of `z`: it
keeps that memory's objects what they are and changes no other. With
`ScribbleReaches` the action property follows. `WatchTellsAll` is inductive
next to them: `OneMore` for an event that is sent, `ReceiveTold` for one that is
received. That there is a number for one more event (`FreeNoIs`) is the
pigeonhole principle.

**ClientParity.** The invariant is `SameObjects`, that the two sides list the
same items of either resource, with `TypeOK`. A test makes any call that is no
known difference; that such a call leaves the same objects on both sides is the
better half of the proof (`CallsTellApart`, `MakesPreserves`).
`SameDeltas` and `SameDiscoveries` turn equal lists into equal keys: the tracker
has under a namespace and a name what is seen of the registry's one key there.
`VerdictIs` and its companions (`KeyCreated`, `KeyUpdated`, `KeyDeleted`,
`KeyGot`) say which verdict of `RegistryOps` is left to a call that runs alone.
A lemma for each kind of call and resource (`CreatesOfDeltas` to
`ListsOfDiscoveries`) then compares answers and objects; `CallsTellApart` puts
them together, in both directions: what is no known difference is answered
alike, and each known difference tells the two apart. `TypeOK` needs that what a
call returns is what is stored (`ReturnedIsStored`), and that a
VolumeSnapshotDelta of the registry lies in a real namespace
(`DeltasStayPlaced`): those created or updated in any other are told apart.

### Only model-checked

* The liveness properties (`EveryCallEnds`, `ServesUnlessTwoFail`,
  `RegistrationEnds`, `NextRequestEnds`, `HandlersEnd`, `CallersEnd`, `Converges`): the
  provers do not reach fairness and ENABLED.
* The four properties that the code violates.

## 6. Not modelled

* OpenAPI definitions (`zz_generated.openapi.go`): tables of schemas without
  state, which no program of the repository installs or reads. Manifests,
  images and build likewise have no run-time state; what the kubelet does with
  them is the restarts of the models.
* Flags, certificates and the rest of the API server's builder; of the
  bootstrap, the shared storage and the routes are modelled.
* Encryption and codecs of the store (`transformer`, `runtime.Encode`): their
  errors end a call without a write, which `Abandon` covers for the client.
* TTLs (always 0).
* What another server would answer if one listened at the discovered endpoint:
  `HttpGetFails` takes it for a failed GET, with which the handler answers 500.
* The cached-object path of `GuaranteedUpdate` and `conditionalDelete`
  (`origStateIsCurrent` false): `cbt-rest.go` passes nil, it cannot run.
* Authentication, authorisation, admission (admission may refuse a delete:
  verdict "denied").
* How protobuf builds the reflection tables of its messages: it is done once,
  before `main`, and keeps no state.
* Of the clientset: its rate limiter, which delays calls. Of the fake: reactors
  that a test adds.
* Of the informers: resync (no informer is made with one), bookmarks, namespaced
  and tweaked factories, a stop channel that is closed. No program of the
  repository uses an informer yet. `Converges` is stated for
  VolumeSnapshotDeltas only: `DeltaFIFO.Replace` leaves alone what is queued but
  neither cached nor listed, so a DriverDiscovery whose deletion is missed while
  it is queued stays until the next list, and after the last write none is owed.

## 7. Plan

Done: the modules of section 2 and the proofs of section 5. What is left:

* `InformerCache` for two callers and a stop channel that is closed, once a
  program of the repository uses an informer.
