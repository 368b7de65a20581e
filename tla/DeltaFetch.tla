----------------------------- MODULE DeltaFetch -----------------------------
(***************************************************************************)
(* A GET on a VolumeSnapshotDelta, from the API server to the driver and   *)
(* back: Connect of pkg/storage/cbt-rest.go reads the object from etcd     *)
(* and, if fetchcbd is set, discovers the driver's sidecar, sends it an    *)
(* HTTP request and puts the entries it answers in the object's status.    *)
(* The sidecar (cmd/mock/http/main.go, handle) makes one gRPC call to the  *)
(* driver (pkg/grpc/server/server.go).  The object changes, the sidecar    *)
(* and the driver fail and the client's time runs out at any point.        *)
(* DeltaCodec says what becomes of the entries at each hop.                *)
(***************************************************************************)
EXTENDS SnapshotOptions, DeltaCodec

CONSTANTS
  Requests,     \* the GETs the clients make
  Queries,      \* the query parameters they may carry
  Answers(_),   \* what the driver may answer to what it is asked
  MaxVersion    \* bound: how often the object changes

\* The sidecar asks every driver the same.
Responses == Answers(Asked)

ASSUME MaxVersionAssumption == MaxVersion \in Nat
ASSUME QueriesAssumption    == Queries \subseteq QueryType
ASSUME AnswersAssumption    == Responses \subseteq ResponseType

VARIABLES
  object,     \* the VolumeSnapshotDelta: its version, present or not, and
              \* the changedBlockDeltas in its stored status
  discovery,  \* whether the driver's DriverDiscovery exists
  sidecar,    \* up or down
  driver,     \* up or down
  pc,         \* pc[r]: where the handler of r is
  opts,       \* opts[r]: the options the query was converted to
  since,      \* since[r]: the object's version when r arrived
  result,     \* result[r]: the version Connect read
  wire,       \* wire[r]: the HTTP exchange of r with the sidecar
  said,       \* said[r]: what the driver answered to the sidecar for r
  client      \* client[r]: what the client of r was told

external == <<object, discovery, sidecar, driver>>
vars     == <<object, discovery, sidecar, driver, pc, opts, since, result,
              wire, said, client>>

\* idle      not made yet
\* get       Connect reads the object
\* discover  invokeCBTService reads the DriverDiscovery
\* dial      invokeCBTService sends the HTTP request
\* read      io.ReadAll waits for the body
\* done      the handler returned
PCs == {"idle", "get", "discover", "dial", "read", "done"}

\* A body is the JSON list of the driver's entries or the text of an error;
\* else the exchange is not begun, waits for the sidecar, or was cut.
JsonList(json) == [kind |-> "list", json |-> json]
Nothing(kind)  == [kind |-> kind, json |-> << >>]

Waiting == [code |-> 0, version |-> 0, deltas |-> << >>]
Reply(code, v, deltas) == [code |-> code, version |-> v, deltas |-> deltas]

\* What the sidecar writes when the driver answers m.
Body(m) == Marshal(Converted(Received(m)))

\* The lists of changed blocks there can be, on their first and later hops.
Bodies == {Body(m) : m \in Responses}
Lists  == {Unmarshal(b) : b \in Bodies} \cup {<< >>}

TypeOK ==
  /\ object \in [version : 0..MaxVersion, present : BOOLEAN, status : Lists]
  /\ discovery \in BOOLEAN
  /\ sidecar \in {"up", "down"}
  /\ driver \in {"up", "down"}
  /\ pc \in [Requests -> PCs]
  /\ opts \in [Requests -> OptionType]
  /\ since \in [Requests -> 0..MaxVersion]
  /\ result \in [Requests -> 0..MaxVersion]
  /\ wire \in [Requests -> [kind : {"none", "asked", "list", "text", "cut"},
                            json : Bodies \cup {<< >>}]]
  /\ said \in [Requests -> Responses \cup {Nil}]
  /\ client \in [Requests -> [code : {0, 200, 404, 500, 504},
                              version : 0..MaxVersion, deltas : Lists]]
  /\ \A r \in Requests : /\ pc[r] = "done" => client[r] # Waiting
                         /\ wire[r].kind = "asked" => pc[r] = "read"

Init ==
  /\ object \in [version : {0}, present : BOOLEAN, status : {<< >>}]
  /\ discovery \in BOOLEAN
  /\ sidecar = "down"
  /\ driver = "down"
  /\ pc     = [r \in Requests |-> "idle"]
  /\ opts   = [r \in Requests |->
                 [fetchCBD |-> FALSE, limit |-> 0, offset |-> 0]]
  /\ since  = [r \in Requests |-> 0]
  /\ result = [r \in Requests |-> 0]
  /\ wire   = [r \in Requests |-> Nothing("none")]
  /\ said   = [r \in Requests |-> Nil]
  /\ client = [r \in Requests |-> Waiting]

---------------------------------------------------------------------------
(* The handler.                                                            *)

\* ConnectResource converts the query and runs the handler.
Arrive(r, q) ==
  /\ pc[r] = "idle"
  /\ pc'    = [pc EXCEPT ![r] = "get"]
  /\ opts'  = [opts EXCEPT ![r] = ConvertFromUrlValues(q)]
  /\ since' = [since EXCEPT ![r] = object.version]
  /\ UNCHANGED <<external, result, wire, said, client>>

\* The handler writes its reply and returns.  A reply that comes after the
\* timeout filter answered goes nowhere.
Finish(r, reply) ==
  /\ pc' = [pc EXCEPT ![r] = "done"]
  /\ client' = IF client[r] = Waiting
                 THEN [client EXCEPT ![r] = reply] ELSE client

Continue(r, where) ==
  /\ pc' = [pc EXCEPT ![r] = where]
  /\ UNCHANGED client

\* A variant that reads from a cache, which may lag behind.
CachedVersion == 0..object.version

\* The versions a read of the object may return: etcd's reads are quorum
\* reads, which return the last one.
ReadVersion == {object.version}

GetObject(r) ==
  /\ pc[r] = "get"
  /\ \E v \in ReadVersion :
       /\ result' = [result EXCEPT ![r] = v]
       /\ IF ~object.present         THEN Finish(r, Reply(404, v, << >>))
          ELSE IF ~opts[r].fetchCBD  THEN Finish(r, Reply(200, v, object.status))
          ELSE                            Continue(r, "discover")
  /\ UNCHANGED <<external, opts, since, wire, said>>

GetFails(r) ==
  /\ pc[r] = "get"
  /\ Finish(r, Reply(500, 0, << >>))
  /\ UNCHANGED <<external, opts, since, result, wire, said>>

Discover(r) ==
  /\ pc[r] = "discover"
  /\ discovery
  /\ Continue(r, "dial")
  /\ UNCHANGED <<external, opts, since, result, wire, said>>

\* A variant that returns without http.Error.
DiscoverFailsSilently(r) ==
  /\ pc[r] = "discover"
  /\ pc' = [pc EXCEPT ![r] = "done"]
  /\ UNCHANGED <<external, opts, since, result, wire, said, client>>

\* No such DriverDiscovery, or its read fails.
DiscoverFails(r) ==
  /\ pc[r] = "discover"
  /\ Finish(r, Reply(500, 0, << >>))
  /\ UNCHANGED <<external, opts, since, result, wire, said>>

\* http.Get: the request carries no parameter and not the handler's context.
HttpGet(r) ==
  /\ pc[r] = "dial"
  /\ sidecar = "up"
  /\ wire' = [wire EXCEPT ![r] = Nothing("asked")]
  /\ Continue(r, "read")
  /\ UNCHANGED <<external, opts, since, result, said>>

\* Nobody listens at the endpoint, or not the sidecar any more.
HttpGetFails(r) ==
  /\ pc[r] = "dial"
  /\ Finish(r, Reply(500, 0, << >>))
  /\ UNCHANGED <<external, opts, since, result, wire, said>>

\* Whether io.ReadAll and json.Unmarshal succeed: the HTTP status is not
\* looked at, but the text of an error is no JSON list.
Decodes(r) == wire[r].kind = "list"

\* A variant that leaves a stored list where the driver lists nothing.
StatusUnlessEmpty(deltas) == IF deltas = << >> THEN object.status ELSE deltas

\* The status of the object that was read is replaced as a whole.
StatusOf(deltas) == deltas

\* The body is there, or the connection broke.  The reply is JSON again.
ReadBody(r) ==
  /\ pc[r] = "read"
  /\ wire[r].kind \in {"list", "text", "cut"}
  /\ Finish(r, IF Decodes(r) THEN Reply(200, result[r],
                                   Unmarshal(Marshal(StatusOf(Unmarshal(wire[r].json)))))
                             ELSE Reply(500, 0, << >>))
  /\ UNCHANGED <<external, opts, since, result, wire, said>>

\* The timeout filter answers when the request's 60 seconds are over; the
\* handler goroutine runs on.
RequestTimeout(r) ==
  /\ pc[r] \notin {"idle", "done"}
  /\ client[r] = Waiting
  /\ client' = [client EXCEPT ![r] = Reply(504, 0, << >>)]
  /\ UNCHANGED <<external, pc, opts, since, result, wire, said>>

---------------------------------------------------------------------------
(* The sidecar and the driver.                                             *)

\* handle of the sidecar, answered by the driver.  The request it sends is
\* empty, so the driver has no snapshot, page or limit to look at.
SidecarAnswers(r) ==
  /\ wire[r].kind = "asked"
  /\ driver = "up"
  /\ \E m \in Responses :
       /\ said' = [said EXCEPT ![r] = m]
       /\ wire' = [wire EXCEPT ![r] = JsonList(Body(m))]
  /\ UNCHANGED <<external, pc, opts, since, result, client>>

\* A variant of the sidecar whose gRPC call has no deadline.
GrpcNoDeadline(r) == FALSE /\ UNCHANGED vars

\* handle, when the gRPC call fails or its 180 seconds are over.
GrpcFails(r) ==
  /\ wire[r].kind = "asked"
  /\ wire' = [wire EXCEPT ![r] = Nothing("text")]
  /\ UNCHANGED <<external, pc, opts, since, result, said, client>>

\* The sidecar goes down and with it every exchange it has not answered; an
\* answer the handler has not read may be cut too.
SidecarDown ==
  /\ sidecar = "up"
  /\ sidecar' = "down"
  /\ \E kept \in SUBSET {r \in Requests : wire[r].kind \in {"list", "text"}} :
       wire' = [r \in Requests |->
                  IF pc[r] = "read" /\ r \notin kept THEN Nothing("cut")
                                                     ELSE wire[r]]
  /\ UNCHANGED <<object, discovery, driver, pc, opts, since, result,
                 said, client>>

\* It comes up with its driver discovered (see CbtSidecar).
SidecarUp ==
  /\ sidecar = "down"
  /\ sidecar' = "up"
  /\ discovery' = TRUE
  /\ UNCHANGED <<object, driver, pc, opts, since, result, wire, said, client>>

DriverChanges ==
  /\ driver' = IF driver = "up" THEN "down" ELSE "up"
  /\ UNCHANGED <<object, discovery, sidecar, pc, opts, since, result,
                 wire, said, client>>

\* Another client creates, replaces or deletes the object.  It may send an
\* object as it was shown it, with the blocks it was told, which are stored.
ObjectChanges ==
  /\ object.version < MaxVersion
  /\ \/ \E deltas \in {<< >>} \cup {client[r].deltas : r \in Requests} :
          object' = [version |-> object.version + 1, present |-> TRUE,
                     status |-> deltas]
     \/ /\ object.present
        /\ object' = [version |-> object.version + 1, present |-> FALSE,
                      status |-> << >>]
  /\ UNCHANGED <<discovery, sidecar, driver, pc, opts, since, result,
                 wire, said, client>>

Next ==
  \/ \E r \in Requests :
       \/ \E q \in Queries : Arrive(r, q)
       \/ GetObject(r)
       \/ GetFails(r)
       \/ Discover(r)
       \/ DiscoverFails(r)
       \/ HttpGet(r)
       \/ HttpGetFails(r)
       \/ ReadBody(r)
       \/ RequestTimeout(r)
       \/ SidecarAnswers(r)
       \/ GrpcFails(r)
  \/ SidecarDown
  \/ SidecarUp
  \/ DriverChanges
  \/ ObjectChanges

Spec == Init /\ [][Next]_vars

\* Time passes, so the filter answers and the sidecar's gRPC call ends; the
\* two reads end once the request's context is done, and the dial has a
\* deadline of its own.  Nothing else is owed.
Bounded(r, A) == client[r] # Waiting /\ A

BackendFairness ==
  \A r \in Requests :
    /\ WF_vars(RequestTimeout(r))
    /\ WF_vars(Bounded(r, GetObject(r) \/ GetFails(r)))
    /\ WF_vars(Bounded(r, Discover(r) \/ DiscoverFails(r)))
    /\ WF_vars(HttpGet(r) \/ HttpGetFails(r))
    /\ WF_vars(GrpcFails(r))
    /\ WF_vars(ReadBody(r))

FairSpec == Spec /\ BackendFairness

---------------------------------------------------------------------------
(* Properties.                                                             *)

\* The blocks in a reply to a fetch are those the driver answered to this
\* request, all of them and in its order: a sidecar that failed, timed out or
\* went down half way never looks like a driver without changes, blocks that
\* somebody stored in the object are not shown as the driver's, and no driver
\* is asked unless fetchcbd is true.
DeltasFromTheDriver ==
  \A r \in Requests :
    client[r].code = 200 =>
      IF opts[r].fetchCBD
        THEN said[r] # Nil /\ SameBlocks(client[r].deltas, said[r])
        ELSE said[r] = Nil

\* Whatever the formats in between drop, nobody is told that a data token is
\* good for longer than the driver said, or for a second less.
TokensDoNotOutlive ==
  \A r \in Requests :
    client[r].code = 200 /\ opts[r].fetchCBD => SameLives(client[r].deltas, said[r])

\* The object a client is shown was the current one at some instant between
\* its request and the reply, and so was the absence a 404 reports, however
\* long the driver took.
ReadIsCurrent ==
  \A r \in Requests :
    client[r].code \in {200, 404} =>
      since[r] <= client[r].version /\ client[r].version <= object.version

\* No handler goroutine is left behind, and there comes a time when none runs:
\* one whose client was answered by the timeout filter ends too, since the
\* sidecar's own deadline ends the call that no context of the handler bounds.
HandlersEnd == []<>(\A r \in Requests : pc[r] \in {"idle", "done"})

=============================================================================
