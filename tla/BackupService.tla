--------------------------- MODULE BackupService ---------------------------
(***************************************************************************)
(* The HTTP server of the backup client (cmd/mock/client/main.go, handle)  *)
(* in front of the API server of DeltaFetch: a caller asks for the list of *)
(* VolumeSnapshotDeltas, for one ("normal"), or for one with its changed   *)
(* blocks ("extended"); the handler makes one request to the API server    *)
(* and answers.  Its context has its own 180 seconds and is not the        *)
(* caller's.  Other clients make their GETs directly.  The service may be  *)
(* killed and started again at any time; it keeps nothing.                 *)
(***************************************************************************)
EXTENDS DeltaFetch

CONSTANTS
  Calls,            \* the GETs made for callers of the service
  Plain, Extended   \* the two queries the handler sends

ASSUME CallsAssumption == Calls \subseteq Requests
ASSUME SentAssumption  == /\ {Plain, Extended} \subseteq Queries
                          /\ Extended.fetchcbd = TRUE

VARIABLES
  asked,    \* asked[r]: what the caller behind GET r asks for
  answer    \* answer[r]: what that caller was answered

serviceVars == <<vars, asked, answer>>

\* "direct" is a GET of another client, which no caller is behind.
Kinds == {"none", "direct", "normal", "extended", "list"}

\* 0: not answered; -1: the connection broke with the service.
NoAnswer  == [status |-> 0, deltas |-> << >>]
Cut       == [status |-> -1, deltas |-> << >>]
Failed    == [status |-> 500, deltas |-> << >>]
OKWith(d) == [status |-> 200, deltas |-> d]

\* The callers whose handler has not answered.
Open == {r \in Requests : asked[r] \notin {"none", "direct"} /\ answer[r] = NoAnswer}

ServiceTypeOK ==
  /\ TypeOK
  /\ asked \in [Requests -> Kinds]
  /\ answer \in [Requests -> [status : {200, 500}, deltas : Lists] \cup {NoAnswer, Cut}]
  /\ \A r \in Requests :
       /\ answer[r] # NoAnswer => asked[r] \notin {"none", "direct"}
       /\ asked[r] \in {"none", "list"} <=> pc[r] = "idle"

ServiceInit ==
  /\ Init
  /\ asked  = [r \in Requests |-> "none"]
  /\ answer = [r \in Requests |-> NoAnswer]

---------------------------------------------------------------------------

Direct(r) ==
  /\ r \notin Calls
  /\ asked[r] = "none"
  /\ \E q \in Queries : Arrive(r, q)
  /\ asked' = [asked EXCEPT ![r] = "direct"]
  /\ UNCHANGED answer

\* The last part of the path decides which GET it is.
HandleGet(r) ==
  /\ r \in Calls
  /\ asked[r] = "none"
  /\ \/ asked' = [asked EXCEPT ![r] = "normal"]   /\ Arrive(r, Plain)
     \/ asked' = [asked EXCEPT ![r] = "extended"] /\ Arrive(r, Extended)
  /\ UNCHANGED answer

\* No resource name: one LIST, which waits for nobody but the API server.
HandleList(r) ==
  /\ r \in Calls
  /\ asked[r] = "none"
  /\ asked' = [asked EXCEPT ![r] = "list"]
  /\ UNCHANGED <<vars, answer>>

ListReturns(r) ==
  /\ r \in Open
  /\ asked[r] = "list"
  /\ \/ answer' = [answer EXCEPT ![r] = OKWith(IF object.present THEN object.status ELSE << >>)]
     \/ answer' = [answer EXCEPT ![r] = Failed]
  /\ UNCHANGED <<vars, asked>>

\* A variant that looks at no error of the extended GET.
AnswerOfIgnoringErrors(r) == OKWith(client[r].deltas)

\* Every error of the client is a 500 to the caller, a 404 too.
AnswerOf(r) == IF client[r].code = 200 THEN OKWith(client[r].deltas) ELSE Failed

GetReturns(r) ==
  /\ r \in Open
  /\ client[r] # Waiting
  /\ answer' = [answer EXCEPT ![r] = AnswerOf(r)]
  /\ UNCHANGED <<vars, asked>>

\* A variant whose handler has no deadline.
TimesOutNever(r) == FALSE /\ UNCHANGED serviceVars

\* The handler's 180 seconds are over before a reply is read.
TimesOut(r) ==
  /\ r \in Open
  /\ answer' = [answer EXCEPT ![r] = Failed]
  /\ UNCHANGED <<vars, asked>>

\* The process ends and comes back (BackupClient has its start-up): its
\* callers lose their connections, the API server goes on with its requests.
Restart ==
  /\ Open # {}
  /\ answer' = [r \in Requests |-> IF r \in Open THEN Cut ELSE answer[r]]
  /\ UNCHANGED <<vars, asked>>

\* What the API server, the sidecar, the driver and other clients do.
Backend ==
  /\ \/ \E r \in Requests :
          \/ GetObject(r)
          \/ GetFails(r)
          \/ Discover(r)
          \/ DiscoverFails(r)
          \/ HttpGet(r)
          \/ HttpGetFails(r)
          \/ ReadBody(r)
          \/ RequestTimeout(r)
          \/ SidecarAnswers(r)
          \/ GrpcFails(r)
     \/ SidecarDown
     \/ SidecarUp
     \/ DriverChanges
     \/ ObjectChanges
  /\ UNCHANGED <<asked, answer>>

ServiceNext ==
  \/ \E r \in Requests :
       \/ Direct(r)
       \/ HandleGet(r)
       \/ HandleList(r)
       \/ ListReturns(r)
       \/ GetReturns(r)
       \/ TimesOut(r)
  \/ Restart
  \/ Backend

\* Time passes: the handler's deadline comes, whatever the API server does.
ServiceSpec ==
  /\ ServiceInit
  /\ [][ServiceNext]_serviceVars
  /\ BackendFairness
  /\ \A r \in Requests : WF_serviceVars(TimesOut(r))

---------------------------------------------------------------------------
(* Properties.                                                             *)

\* Blocks an extended call is answered with are the driver's answer to this
\* very call: after every hop, deadline and failure on the way, a 200 with no
\* blocks means that the driver named none.
CallersSeeTheDriver ==
  \A r \in Requests :
    asked[r] = "extended" /\ answer[r].status = 200 =>
      said[r] # Nil /\ SameBlocks(answer[r].deltas, said[r])

\* Every caller is answered, or learns from its broken connection that it
\* will not be, even when the GET it waits for outlives the handler: there
\* comes a time when nobody waits.
CallersEnd == []<>(Open = {})
=============================================================================
