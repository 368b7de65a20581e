----------------------------- MODULE CbtStorage -----------------------------
(***************************************************************************)
(* The registry as it is built: concurrent handlers of the aggregated API  *)
(* server (pkg/storage/cbt-rest.go), each a goroutine that talks to etcd   *)
(* through the etcd3 store.  An update or a delete reads its key, decides, *)
(* and commits with a transaction that compares the key's ModRevision with *)
(* the one it read; when the comparison fails it decides again on the      *)
(* state the transaction returned.  Any handler may be cut off at any      *)
(* point: its deadline passes, etcd's answer is lost, the server dies.     *)
(***************************************************************************)
EXTENDS RegistryOps

CONSTANTS
  Requests,   \* the requests the clients make, one call each
  NoCall,     \* the call of a request not yet made
  NoOutcome   \* the outcome of a request nothing was decided about

ASSUME NoCallAssumption    == NoCall \notin Calls
ASSUME NoOutcomeAssumption == NoOutcome \notin Outcomes

VARIABLES
  etcd,       \* etcd[n]: the key of name n
  revision,   \* etcd's revision, incremented by every committed write
  call,       \* call[r]: what request r asks
  pc,         \* pc[r]: where the handler of r is
  orig,       \* orig[r]: origState, the key as the handler last read it
  outcome     \* outcome[r]: what the storage method decided

vars == <<etcd, revision, call, pc, orig, outcome>>

\* idle      not made yet
\* start     handler running, nothing sent to etcd or the Get under way
\* txn       transaction sent to etcd, comparing with orig[r]
\* decided   the storage method returned outcome[r] to FinishRequest
\* answered  the client was sent outcome[r]
\* orphan    the client was cut off, the transaction may still reach etcd
\* lost      the client was cut off and nothing of r is left in flight
PCs == {"idle", "start", "txn", "decided", "answered", "orphan", "lost"}

TypeOK ==
  /\ etcd \in [Names -> KeyStates]
  /\ revision \in Nat
  /\ call \in [Requests -> Calls \cup {NoCall}]
  /\ pc \in [Requests -> PCs]
  /\ orig \in [Requests -> KeyStates]
  /\ outcome \in [Requests -> Outcomes \cup {NoOutcome}]
  /\ \A r \in Requests : pc[r] # "idle" => call[r] \in Calls

Init ==
  /\ etcd     = [n \in Names |-> Absent]
  /\ revision = 0
  /\ call     = [r \in Requests |-> NoCall]
  /\ pc       = [r \in Requests |-> "idle"]
  /\ orig     = [r \in Requests |-> Absent]
  /\ outcome  = [r \in Requests |-> NoOutcome]

Key(r) == call[r].name

---------------------------------------------------------------------------
(* Steps of a handler.                                                     *)

\* The transport delivers call c to a new handler goroutine.
Send(r, c) ==
  /\ pc[r] = "idle"
  /\ call' = [call EXCEPT ![r] = c]
  /\ pc'   = [pc EXCEPT ![r] = "start"]
  /\ UNCHANGED <<etcd, revision, orig, outcome>>

\* The part of the retry loop between two calls to etcd: from the state st
\* just read, end the call or prepare the transaction.
Decide(r, st) ==
  \E v \in Verdicts :
    /\ Allows(call[r], st, v)
    /\ orig' = [orig EXCEPT ![r] = st]
    /\ IF v = "proceed"
         THEN /\ pc' = [pc EXCEPT ![r] = "txn"]
              /\ UNCHANGED outcome
         ELSE /\ pc' = [pc EXCEPT ![r] = "decided"]
              /\ outcome' = [outcome EXCEPT ![r] = Outcome(call[r], st, v, 0)]

\* Create sends its transaction (the key must not exist) without a read.
CreateBegin(r) ==
  /\ pc[r] = "start"
  /\ call[r].op = "create"
  /\ Decide(r, Absent)
  /\ UNCHANGED <<etcd, revision, call>>

\* getCurrentState of an update or a delete, or the Get of Connect.
GetState(r) ==
  /\ pc[r] = "start"
  /\ call[r].op # "create"
  /\ Decide(r, etcd[Key(r)])
  /\ UNCHANGED <<etcd, revision, call>>

\* A variant of the comparison: the key exists or not as it did when read.
CompareExistence(r) == (etcd[Key(r)] = Absent) <=> (orig[r] = Absent)

\* The If of the transaction, evaluated by etcd.
CompareModRevision(r) == etcd[Key(r)].rev = orig[r].rev

\* A variant that counts the changes of each key (etcd's Version) and so
\* starts again for a key that was deleted.
NewVersion(r) == etcd[Key(r)].rev + 1

\* The revision etcd stamps on the write.
NewRevision(r) == revision + 1

\* The Then of the transaction.
Write(r) ==
  /\ CompareModRevision(r)
  /\ etcd'     = [etcd EXCEPT ![Key(r)] = Effect(call[r], NewRevision(r))]
  /\ revision' = revision + 1
  /\ outcome'  = [outcome EXCEPT ![r] =
                    Outcome(call[r], orig[r], "proceed", NewRevision(r))]
  /\ UNCHANGED <<call, orig>>

Commit(r) ==
  /\ pc[r] = "txn"
  /\ Write(r)
  /\ pc' = [pc EXCEPT ![r] = "decided"]

\* Variants of Conflict: the loop goes round on the state of the first read;
\* it goes straight back to the transaction without deciding again.
ConflictWithoutReread(r) ==
  /\ pc[r] = "txn"
  /\ ~CompareModRevision(r)
  /\ Decide(r, IF call[r].op = "create" THEN etcd[Key(r)] ELSE orig[r])
  /\ UNCHANGED <<etcd, revision, call>>

ConflictWithoutRecheck(r) ==
  /\ pc[r] = "txn"
  /\ ~CompareModRevision(r)
  /\ call[r].op # "create"
  /\ orig' = [orig EXCEPT ![r] = etcd[Key(r)]]
  /\ UNCHANGED <<etcd, revision, call, pc, outcome>>

\* The Else: a create gives up, the others go round the loop.
Conflict(r) ==
  /\ pc[r] = "txn"
  /\ ~CompareModRevision(r)
  /\ Decide(r, etcd[Key(r)])
  /\ UNCHANGED <<etcd, revision, call>>

\* FinishRequest takes the result from resultCh and the client is answered.
Respond(r) ==
  /\ pc[r] = "decided"
  /\ pc' = [pc EXCEPT ![r] = "answered"]
  /\ UNCHANGED <<etcd, revision, call, orig, outcome>>

---------------------------------------------------------------------------
(* Failures.                                                               *)

\* The context is done, the etcd client fails, or the server dies.  No retry
\* follows (every later etcd call has the same context), but a transaction
\* already sent is out of the handler's reach.
Abandon(r) ==
  /\ pc[r] \in {"start", "txn", "decided"}
  /\ pc' = [pc EXCEPT ![r] = IF pc[r] = "txn" THEN "orphan" ELSE "lost"]
  /\ UNCHANGED <<etcd, revision, call, orig, outcome>>

\* etcd commits a transaction whose handler no longer waits for it ...
OrphanCommit(r) ==
  /\ pc[r] = "orphan"
  /\ Write(r)
  /\ pc' = [pc EXCEPT ![r] = "lost"]

\* ... or refuses it, or never gets it.
OrphanDrop(r) ==
  /\ pc[r] = "orphan"
  /\ pc' = [pc EXCEPT ![r] = "lost"]
  /\ UNCHANGED <<etcd, revision, call, orig, outcome>>

---------------------------------------------------------------------------

Step(r) ==
  \/ CreateBegin(r)
  \/ GetState(r)
  \/ Commit(r)
  \/ Conflict(r)

Next ==
  \E r \in Requests :
    \/ \E c \in Calls : Send(r, c)
    \/ CreateBegin(r)
    \/ GetState(r)
    \/ Commit(r)
    \/ Conflict(r)
    \/ Respond(r)
    \/ Abandon(r)
    \/ OrphanCommit(r)
    \/ OrphanDrop(r)

Spec == Init /\ [][Next]_vars

\* Handlers are goroutines the runtime schedules and etcd answers what it is
\* asked.  Nothing forces a client to call, a deadline to pass or a server
\* to fail.
Fairness == \A r \in Requests : WF_vars(Step(r)) /\ WF_vars(Respond(r))

FairSpec == Spec /\ Fairness

---------------------------------------------------------------------------
(* Properties.                                                             *)

Committed(r) == outcome[r] # NoOutcome /\ outcome[r].code \in Written

\* Request q committed over what request r wrote.
Overwrote(q, r) ==
  Committed(q) /\ Key(q) = Key(r) /\ orig[q].rev = outcome[r].rev

\* A handler about to commit over the revision it read would commit over the
\* very state it read, deleted and created again in between or not: what
\* makes the ModRevision comparison of store.go:285 and :430 sufficient.
RevisionPinsState ==
  \A r \in Requests :
    pc[r] \in {"txn", "orphan"} /\ CompareModRevision(r)
      => etcd[Key(r)] = orig[r]

\* What r wrote is live in etcd, or one request replaced or removed it.
Accounted(r) ==
  \/ /\ etcd[Key(r)].rev = outcome[r].rev
     /\ etcd[Key(r)].obj = outcome[r].obj
     /\ \A q \in Requests : ~Overwrote(q, r)
  \/ /\ etcd[Key(r)].rev # outcome[r].rev
     /\ \E q \in Requests \ {r} :
          /\ Overwrote(q, r)
          /\ orig[q].obj = outcome[r].obj
          /\ \A p \in Requests \ {q} : ~Overwrote(p, r)

\* No acknowledged write is lost and none is applied twice: what a create or
\* an update wrote is in etcd until exactly one other request, which had read
\* precisely that, replaced or removed it.
ChainOfWrites ==
  \A r \in Requests : Committed(r) /\ call[r].op # "delete" => Accounted(r)

\* A write that took effect met its preconditions on the state it replaced,
\* however often the loop went round: a delete conditional on a uid or a
\* resourceVersion removes nothing else, a PUT with a uid replaces no object
\* of another uid.
PreconditionsHonoured ==
  \A r \in Requests :
    Committed(r) => Check(Preconditions(call[r]), orig[r])

\* Every handler is one atomic step of the registry, taken between the call
\* and the answer; a client cut off knows nothing, and its call takes effect
\* at most once.
AbstractStatus(p) ==
  CASE p = "idle"             -> "idle"
    [] p \in {"start", "txn"} -> "pending"
    [] p = "decided"          -> "done"
    [] p = "answered"         -> "answered"
    [] p = "orphan"           -> "unknown"
    [] p = "lost"             -> "lost"

Registry == INSTANCE AtomicRegistry WITH
  reg    <- etcd,
  status <- [r \in Requests |-> AbstractStatus(pc[r])],
  result <- outcome

Linearizable == Registry!Spec

\* No call is retried for ever: under contention each conflict is some other
\* request's commit, so every handler ends even if no deadline ever passes.
EveryCallEnds ==
  \A r \in Requests :
    pc[r] = "start" ~> pc[r] \in {"answered", "orphan", "lost"}

---------------------------------------------------------------------------
(* The inductive invariant behind the properties above.                    *)

\* A transaction is under way only if the loop decided for it on orig.
TxnJustified ==
  \A r \in Requests :
    pc[r] \in {"txn", "orphan"} => Allows(call[r], orig[r], "proceed")

\* No key and no handler has seen a revision etcd has not reached.
RevisionsBounded ==
  /\ \A n \in Names : etcd[n].rev <= revision
  /\ \A r \in Requests : orig[r].rev <= revision

\* Nothing is decided about a handler that still runs; a committed write had
\* its transaction justified, and a create or an update has a revision of its
\* own.
OutcomesFit ==
  \A r \in Requests :
    /\ pc[r] \in {"idle", "start", "txn", "orphan"} => outcome[r] = NoOutcome
    /\ Committed(r) =>
         /\ Allows(call[r], orig[r], "proceed")
         /\ call[r].op # "delete" => /\ outcome[r].rev \in 1..revision
                                     /\ outcome[r].obj \in Objects

IInv == /\ TypeOK
        /\ TxnJustified
        /\ RevisionsBounded
        /\ RevisionPinsState
        /\ OutcomesFit

---------------------------------------------------------------------------
(* What comments and API documentation say, and the code does not do.      *)

\* cbt-rest.go:216: Create creates a new version of a resource; here, a 201
\* is sent for an object that is in etcd or was.
CreatedIsStored ==
  \A r \in Requests :
    pc[r] = "answered" /\ HttpStatus(call[r].op, outcome[r].code) = 201
      => \E q \in Requests : Committed(q) /\ Key(q) = Key(r)
                             /\ call[q].obj = outcome[r].obj

\* The PUTs with the resourceVersion that a create or a GET q was answered
\* with, which replaced another version of its object.
StalePuts(q) ==
  {r \in Requests :
     /\ pc[q] = "answered" /\ call[q].op \in {"create", "get"}
     /\ Committed(r)
     /\ call[r].op = "update" /\ Key(r) = Key(q)
     /\ call[r].rv # 0 /\ call[r].rv = outcome[q].rev
     /\ orig[r] # Absent /\ orig[r].rev # call[r].rv}

\* metadata.resourceVersion may be used for optimistic concurrency: a PUT
\* sent with the resourceVersion of an earlier answer replaces no newer object.
StalePutRefused ==
  \A q, r \in Requests :
    [](pc[q] = "answered" /\ pc[r] = "idle" => [](r \notin StalePuts(q)))
=============================================================================
