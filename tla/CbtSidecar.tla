----------------------------- MODULE CbtSidecar -----------------------------
(***************************************************************************)
(* The life of the CBT HTTP sidecar (cmd/mock/http/main.go): it registers  *)
(* the endpoint of its driver as a DriverDiscovery, retrying for up to     *)
(* five minutes, connects to the driver's socket, and serves the requests  *)
(* the aggregated API server sends to the endpoint it discovered.  It ends *)
(* on an interrupt, with its pod, or on the loss of the driver connection, *)
(* which it learns when a request makes gRPC dial again; the kubelet       *)
(* starts it again, with the endpoint then configured.                     *)
(***************************************************************************)
EXTENDS ClientConfig

CONSTANTS
  Endpoints,    \* what SVC_NAME, SVC_NAMESPACE and SVC_PORT may be set to
  NoEndpoint,   \* no DriverDiscovery of the driver exists
  Requests,     \* requests of the API server to the discovered endpoint
  MaxRestarts   \* bound: how often the container is started again

ASSUME EndpointsAssumption   == Endpoints # {} /\ NoEndpoint \notin Endpoints
ASSUME MaxRestartsAssumption == MaxRestarts \in Nat

VARIABLES
  main,       \* the main goroutine
  config,     \* the endpoint this process is configured with
  discovery,  \* the endpoint in the DriverDiscovery, or NoEndpoint
  attempt,    \* the registration call: idle (waiting 5s) or inflight
  regErr,     \* registerDriver's err: untried, error or nil
  regCtx,     \* its five-minute context: live or done
  socket,     \* the driver's gRPC socket: up or down
  conn,       \* the gRPC connection to it: none, up, idle (closed by the
              \* other side) or dialing (again)
  shutdown,   \* the goroutine of notifyShutdown: unarmed, armed or closing
  request,    \* request[q]: new, accepted, calling (the driver), answered,
              \* refused or dropped
  late,       \* what Creates whose caller gave up or died may yet register
  restarts

vars == <<main, config, discovery, attempt, regErr, regCtx, socket, conn,
          shutdown, request, late, restarts>>

registration == <<attempt, regErr, regCtx>>
process      == <<config, restarts>>
Progress     == {"new", "accepted", "calling", "answered", "refused", "dropped"}

TypeOK ==
  /\ main \in {"registering", "connecting", "listening", "exited"}
  /\ config \in Endpoints
  /\ discovery \in Endpoints \cup {NoEndpoint}
  /\ attempt \in {"idle", "inflight"}
  /\ regErr \in {"untried", "error", "nil"}
  /\ regCtx \in {"live", "done"}
  /\ socket \in {"up", "down"}
  /\ conn \in {"none", "up", "idle", "dialing"}
  /\ shutdown \in {"unarmed", "armed", "closing"}
  /\ request \in [Requests -> Progress]
  /\ late \subseteq Endpoints
  /\ restarts \in 0..MaxRestarts
  /\ main # "registering" => attempt = "idle"
  /\ conn # "none" => main = "listening"

Init ==
  /\ main = "registering"
  /\ config \in Endpoints
  /\ discovery = NoEndpoint
  /\ attempt = "idle" /\ regErr = "untried" /\ regCtx = "live"
  /\ socket \in {"up", "down"}
  /\ conn = "none"
  /\ shutdown = "unarmed"
  /\ request = [q \in Requests |-> "new"]
  /\ late = {}
  /\ restarts = 0

---------------------------------------------------------------------------
(* registerDriver.                                                         *)

\* No clientset: registerDriver returns the error before its first attempt.
NoClientset ==
  /\ main = "registering"
  /\ attempt = "idle" /\ regErr = "untried"
  /\ "error" \in Clientsets
  /\ main' = "exited"
  /\ UNCHANGED <<discovery, registration, socket, conn, shutdown, request,
                 late, process>>

\* The loop of UntilWithContext calls Create.
SendCreate ==
  /\ main = "registering"
  /\ attempt = "idle"
  /\ regCtx = "live"
  /\ "client" \in Clientsets
  /\ attempt' = "inflight"
  /\ UNCHANGED <<main, discovery, regErr, regCtx, socket, conn, shutdown,
                 request, late, process>>

\* A variant in which the registration replaces what is there.
Overwrite(e) == e

\* What a Create of endpoint e leaves in the registry: an existing object is
\* kept.
Registered(e) == IF discovery = NoEndpoint THEN e ELSE discovery

\* The registry answers: created, or AlreadyExists, which counts as success.
CreateAnswered ==
  /\ attempt = "inflight"
  /\ discovery' = Registered(config)
  /\ attempt' = "idle"
  /\ regErr' = "nil"
  /\ regCtx' = "done"
  /\ UNCHANGED <<main, socket, conn, shutdown, request, late, process>>

\* The call fails, the registry's answer is lost, or the context is done
\* first: the registry may still create the object, at any later time.
CreateErrors ==
  /\ attempt = "inflight"
  /\ late' \in {late, late \cup {config}}
  /\ attempt' = "idle"
  /\ regErr' = "error"
  /\ UNCHANGED <<main, discovery, regCtx, socket, conn, shutdown, request,
                 process>>

\* A Create that nobody waits for reaches etcd, in this life or a later one.
LateCreate(e) ==
  /\ e \in late
  /\ late' = late \ {e}
  /\ discovery' = Registered(e)
  /\ UNCHANGED <<main, registration, socket, conn, shutdown, request, process>>

\* A variant of the deadline: none.
RegNoDeadline == FALSE /\ UNCHANGED vars

\* Five minutes pass; the first attempt is made long before.
RegDeadline ==
  /\ main = "registering"
  /\ regCtx = "live"
  /\ regErr # "untried" \/ attempt = "inflight"
  /\ regCtx' = "done"
  /\ UNCHANGED <<main, discovery, attempt, regErr, socket, conn, shutdown,
                 request, late, process>>

\* A variant that goes on whatever the last attempt returned.
RegisterFailsNever == FALSE

RegisterFails == regErr = "error"

\* A variant that does not wait for the call under way.
RegisterReturnsEarly ==
  /\ main = "registering"
  /\ regCtx = "done"
  /\ main' = IF RegisterFails THEN "exited" ELSE "connecting"
  /\ UNCHANGED <<discovery, registration, socket, conn, shutdown, request,
                 late, process>>

\* The loop sees its context done, and main goes on or ends with Fatal.
RegisterReturns ==
  /\ main = "registering"
  /\ attempt = "idle"
  /\ regCtx = "done"
  /\ main' = IF RegisterFails THEN "exited" ELSE "connecting"
  /\ UNCHANGED <<discovery, registration, socket, conn, shutdown, request,
                 late, process>>

---------------------------------------------------------------------------
(* newServer, notifyShutdown, ListenAndServe.                              *)

\* connection.Connect blocks until the driver's socket answers.
ConnectDriver ==
  /\ main = "connecting"
  /\ socket = "up"
  /\ conn' = "up"
  /\ shutdown' = "armed"
  /\ main' = "listening"
  /\ UNCHANGED <<discovery, registration, socket, request, late, process>>

\* The API server discovers the endpoint and connects to it, which succeeds
\* only if this very process listens there.
Arrive(q) ==
  /\ request[q] = "new"
  /\ discovery # NoEndpoint
  /\ request' = [request EXCEPT ![q] =
       IF main = "listening" /\ shutdown = "armed" /\ discovery = config
         THEN "accepted" ELSE "refused"]
  /\ UNCHANGED <<main, discovery, registration, socket, conn, shutdown,
                 late, process>>

\* handle calls the driver.  A connection that was closed is idle: the next
\* pick of pickfirst, by a new call or by one that is tried again because the
\* driver had not begun it, makes the channel dial.
Pick(q) ==
  /\ main = "listening"
  /\ \/ request[q] = "accepted"
     \/ /\ request[q] = "calling"
        /\ conn = "idle"
  /\ request' = [request EXCEPT ![q] = "calling"]
  /\ conn' = IF conn = "idle" THEN "dialing" ELSE conn
  /\ UNCHANGED <<main, discovery, registration, socket, shutdown, late, process>>

\* The call ends, with the driver's answer, broken off, or after the 180
\* seconds of its context, and handle answers: deltas or a 500.
Handle(q) ==
  /\ main = "listening"
  /\ request[q] = "calling"
  /\ request' = [request EXCEPT ![q] = "answered"]
  /\ UNCHANGED <<main, discovery, registration, socket, conn, shutdown, late,
                 process>>

\* The process ends, and with it the requests it had accepted.
Dropped == [q \in Requests |->
              IF request[q] \in {"accepted", "calling"} THEN "dropped" ELSE request[q]]

Exit ==
  /\ main' = "exited"
  /\ conn' = "none"
  /\ shutdown' = "unarmed"
  /\ request' = Dropped
  /\ UNCHANGED <<discovery, registration, socket, late, process>>

\* The signal goroutine gets os.Interrupt: Shutdown closes the listener.
Interrupt ==
  /\ main = "listening"
  /\ shutdown = "armed"
  /\ shutdown' = "closing"
  /\ UNCHANGED <<main, discovery, registration, socket, conn, request,
                 late, process>>

\* ListenAndServe returns ErrServerClosed as soon as the listener is closed,
\* and main returns with it, Shutdown still waiting for the handlers.
ListenReturns ==
  /\ main = "listening"
  /\ shutdown = "closing"
  /\ Exit

\* The driver goes down, which closes the connection and makes it idle ...
DriverDown ==
  /\ socket = "up"
  /\ socket' = "down"
  /\ conn' = IF conn = "up" THEN "idle" ELSE conn
  /\ UNCHANGED <<main, discovery, registration, shutdown, request, late, process>>

\* ... or comes up.
DriverUp ==
  /\ socket = "down"
  /\ socket' = "up"
  /\ UNCHANGED <<main, discovery, registration, conn, shutdown, request, late,
                 process>>

\* A variant that stays if the driver came back in the meantime.
ConnectionLostForGood ==
  /\ main = "listening"
  /\ conn = "dialing"
  /\ socket = "down"
  /\ Exit

\* The dialer, called a second time, takes the connection for lost, and
\* ExitOnConnectionLoss ends the process, even if the driver is up again.
ConnectionLost ==
  /\ main = "listening"
  /\ conn = "dialing"
  /\ Exit

\* The pod is deleted (SIGTERM is not handled) or the process dies.  A Create
\* under way may still reach the registry.
Kill ==
  /\ main # "exited"
  /\ main' = "exited"
  /\ conn' = "none"
  /\ shutdown' = "unarmed"
  /\ attempt' = "idle"
  /\ request' = Dropped
  /\ late' \in IF attempt = "inflight" THEN {late, late \cup {config}} ELSE {late}
  /\ UNCHANGED <<discovery, regErr, regCtx, socket, process>>

Restart ==
  /\ main = "exited"
  /\ restarts < MaxRestarts
  /\ restarts' = restarts + 1
  /\ config' \in Endpoints
  /\ main' = "registering"
  /\ regErr' = "untried" /\ regCtx' = "live"
  /\ UNCHANGED <<discovery, attempt, socket, conn, shutdown, request, late>>

Next ==
  \/ NoClientset
  \/ SendCreate
  \/ CreateAnswered
  \/ CreateErrors
  \/ RegDeadline
  \/ RegisterReturns
  \/ ConnectDriver
  \/ \E e \in Endpoints : LateCreate(e)
  \/ \E q \in Requests : Arrive(q) \/ Pick(q) \/ Handle(q)
  \/ Interrupt
  \/ ListenReturns
  \/ DriverDown
  \/ DriverUp
  \/ ConnectionLost
  \/ Kill
  \/ Restart

Spec == Init /\ [][Next]_vars

\* The process is scheduled and time passes; a call ends at the latest when
\* its context is done.  The registry owes no success, the driver no socket,
\* the API server no request: a connection may stay idle for ever.
FairSpec ==
  /\ Spec
  /\ WF_vars(SendCreate)
  /\ WF_vars(regCtx = "done" /\ (CreateAnswered \/ CreateErrors))
  /\ WF_vars(RegDeadline)
  /\ WF_vars(RegisterReturns)
  /\ WF_vars(ConnectDriver)
  /\ WF_vars(ListenReturns)
  /\ WF_vars(ConnectionLost)
  /\ \A q \in Requests : WF_vars(Pick(q)) /\ WF_vars(Handle(q))

---------------------------------------------------------------------------
(* Properties.                                                             *)

\* A sidecar that left registration is in the registry, through every lost
\* answer and retry, and stays there when it is gone.
ServingIsRegistered ==
  main \in {"connecting", "listening"} => discovery # NoEndpoint

\* A request is handled only by a process that listens where the registry
\* says, and goes on saying: no Create of an earlier life that arrives late
\* and no registration under another endpoint moves the driver while it
\* serves, and a sidecar that found another endpoint registered handles none.
HandledWhereRegistered ==
  (\E q \in Requests : request[q] \in {"accepted", "calling"})
    => main = "listening" /\ discovery = config

\* Registration ends within its deadline, done or given up, whatever the
\* registry answers.
RegistrationEnds == main = "registering" ~> main # "registering"

\* A process that was told to stop ends; one that lost its driver ends with
\* the next request it is sent, whether or not the driver is back by then.
\* (One that is sent none stays.)
NextRequestEnds ==
  (/\ main = "listening"
   /\ \/ shutdown = "closing"
      \/ /\ conn = "idle"
         /\ \E q \in Requests : request[q] = "accepted")
    ~> main = "exited"
=============================================================================
