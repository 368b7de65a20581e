-------------------------- MODULE CbtSidecarProofs --------------------------
(***************************************************************************)
(* Proofs about CbtSidecar, for every set of endpoints and requests and    *)
(* any number of restarts.                                                 *)
(***************************************************************************)
EXTENDS CbtSidecar, TLAPS

\* A Create that was answered without an error left a DriverDiscovery behind.
NilIsRegistered == regErr = "nil" => discovery # NoEndpoint

\* registerDriver is left, but by Fatal, with a nil error.
LeftIsNil == main \in {"connecting", "listening"} => regErr = "nil"

\* The context ends before the first answer only with a call under way, so
\* the error that decides is that of an attempt.
DoneIsTried ==
  main = "registering" /\ regCtx = "done" /\ attempt = "idle" =>
    regErr \in {"error", "nil"}

IInv == /\ TypeOK
        /\ NilIsRegistered
        /\ LeftIsNil
        /\ DoneIsTried
        /\ HandledWhereRegistered

---------------------------------------------------------------------------

\* What a Create may leave is an endpoint; an existing one it keeps.
LEMMA RegisteredIsKept ==
  ASSUME TypeOK, NEW e \in Endpoints
  PROVE  /\ Registered(e) \in Endpoints
         /\ Registered(e) # NoEndpoint
         /\ discovery # NoEndpoint => Registered(e) = discovery
BY EndpointsAssumption DEF TypeOK, Registered

\* Nobody handles a request before the driver is registered.
LEMMA HandledIsRegistered ==
  ASSUME TypeOK, HandledWhereRegistered, NEW q \in Requests,
         request[q] \in {"accepted", "calling"}
  PROVE  discovery # NoEndpoint
BY EndpointsAssumption DEF TypeOK, HandledWhereRegistered

LEMMA IInvInit == Init => IInv
BY MaxRestartsAssumption
DEF Init, IInv, TypeOK, Progress, NilIsRegistered, LeftIsNil, DoneIsTried,
    HandledWhereRegistered

\* The steps of registerDriver, and a Create it no longer waits for.
LEMMA RegistrationKeeps ==
  ASSUME IInv, \/ NoClientset \/ SendCreate \/ CreateAnswered \/ CreateErrors
               \/ RegDeadline \/ RegisterReturns
               \/ \E e \in Endpoints : LateCreate(e)
  PROVE  IInv'
<1> USE EndpointsAssumption
    DEF IInv, TypeOK, NilIsRegistered, LeftIsNil, DoneIsTried,
        HandledWhereRegistered, process, registration
<1>1. CASE NoClientset
  BY <1>1 DEF NoClientset
<1>2. CASE SendCreate
  BY <1>2 DEF SendCreate
<1>3. CASE CreateAnswered
  BY <1>3, RegisteredIsKept, HandledIsRegistered DEF CreateAnswered
<1>4. CASE CreateErrors
  BY <1>4 DEF CreateErrors
<1>5. CASE RegDeadline
  BY <1>5 DEF RegDeadline
<1>6. CASE RegisterReturns
  BY <1>6 DEF RegisterReturns, RegisterFails
<1>7. CASE \E e \in Endpoints : LateCreate(e)
  BY <1>7, RegisteredIsKept, HandledIsRegistered DEF LateCreate
<1> QED
  BY <1>1, <1>2, <1>3, <1>4, <1>5, <1>6, <1>7

\* Dropping the requests under way leaves none.
LEMMA DroppedIs ==
  ASSUME TypeOK
  PROVE  /\ Dropped \in [Requests -> Progress]
         /\ \A q \in Requests : Dropped[q] \notin {"accepted", "calling"}
BY DEF TypeOK, Dropped, Progress

\* Serving, the ways the process ends, the driver, and the next life.
LEMMA ServingKeeps ==
  ASSUME IInv, \/ ConnectDriver \/ Interrupt \/ ListenReturns
               \/ DriverDown \/ DriverUp \/ ConnectionLost \/ Kill \/ Restart
               \/ \E q \in Requests : Arrive(q) \/ Pick(q) \/ Handle(q)
  PROVE  IInv'
<1> USE EndpointsAssumption
    DEF IInv, TypeOK, NilIsRegistered, LeftIsNil, DoneIsTried,
        HandledWhereRegistered, process, registration
<1>1. CASE ConnectDriver
  BY <1>1 DEF ConnectDriver
<1>2. CASE Interrupt
  BY <1>2 DEF Interrupt
<1>3. CASE ListenReturns \/ ConnectionLost
  BY <1>3, DroppedIs DEF ListenReturns, ConnectionLost, Exit
<1>4. CASE DriverDown \/ DriverUp
  BY <1>4 DEF DriverDown, DriverUp
<1>5. CASE Kill
  BY <1>5, DroppedIs DEF Kill
<1>6. CASE Restart
  BY <1>6, MaxRestartsAssumption DEF Restart
<1>7. ASSUME NEW q \in Requests, Arrive(q) \/ Pick(q) \/ Handle(q)
      PROVE  IInv'
  BY <1>7 DEF Arrive, Pick, Handle, Progress
<1> QED
  BY <1>1, <1>2, <1>3, <1>4, <1>5, <1>6, <1>7

\* The invariant is inductive.
LEMMA IInvHolds == Spec => []IInv
<1>1. IInv /\ [Next]_vars => IInv'
  <2> SUFFICES ASSUME IInv, [Next]_vars PROVE IInv'
    OBVIOUS
  <2>1. CASE Next
    BY <2>1, RegistrationKeeps, ServingKeeps DEF Next
  <2>2. CASE UNCHANGED vars
    BY <2>2 DEF vars, IInv, TypeOK, NilIsRegistered, LeftIsNil, DoneIsTried,
                HandledWhereRegistered
  <2> QED
    BY <2>1, <2>2
<1> QED
  BY <1>1, IInvInit, PTL DEF Spec

---------------------------------------------------------------------------
(* What follows.                                                           *)

\* Every state of the sidecar's lives is well typed.
THEOREM TypeCorrect == Spec => []TypeOK
BY IInvHolds, PTL DEF IInv

\* A sidecar that connects or serves is in the registry, whatever became of
\* the answers to its Creates and of its deadline.
THEOREM RegisteredWhenServing == Spec => []ServingIsRegistered
<1>1. IInv => ServingIsRegistered
  BY DEF IInv, NilIsRegistered, LeftIsNil, ServingIsRegistered
<1> QED
  BY <1>1, IInvHolds, PTL

\* Whatever Creates of earlier lives arrive late and whatever endpoint the
\* present one has, a request under way is at the process that is registered.
THEOREM RegisteredWhenHandling == Spec => []HandledWhereRegistered
BY IInvHolds, PTL DEF IInv
=============================================================================
