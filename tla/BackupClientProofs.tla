------------------------- MODULE BackupClientProofs -------------------------
(***************************************************************************)
(* Proofs about BackupClient, for any number of goroutines and restarts.   *)
(***************************************************************************)
EXTENDS BackupClient, FiniteSetTheorems, TLAPS

\* The goroutines whose error the receiver took.
Delivered == {w \in failed : worker[w] = "done"}

\* The goroutines run from BeginCreate on.
NotBegun ==
  main \in {"starting", "fatal"} =>
    failed = {} /\ \A w \in Workers : worker[w] = "none"

\* What a goroutine has behind it: an error on its way or delivered, or its
\* object stored.
WorkersFit ==
  \A w \in Workers :
    /\ worker[w] = "send" => w \in failed
    /\ w \in failed => worker[w] \in {"send", "done"}
    /\ worker[w] = "done" => w \in failed \cup stored

\* OneErrorDelivered without counting.
Rendezvous ==
  IF receiver = "waiting" THEN Delivered = {}
                          ELSE \E w \in Workers : Delivered = {w}

ServingWaited == main = "serving" => AllDone

IInv == TypeOK /\ NotBegun /\ WorkersFit /\ Rendezvous /\ ServingWaited

---------------------------------------------------------------------------

LEMMA IInvInit == Init => IInv
<1> SUFFICES ASSUME Init PROVE IInv
  OBVIOUS
<1>1. TypeOK /\ NotBegun /\ WorkersFit /\ ServingWaited
  BY MaxRestartsAssumption
  DEF Init, Start, TypeOK, NotBegun, WorkersFit, ServingWaited
<1>2. Rendezvous
  BY DEF Init, Start, Rendezvous, Delivered
<1> QED
  BY <1>1, <1>2 DEF IInv

\* A goroutine whose Create returned moves on.
LEMMA CreateKeeps ==
  ASSUME IInv, NEW w \in Workers, CreateSucceeds(w) \/ CreateFails(w)
  PROVE  IInv'
<1> USE DEF IInv
<1>1. worker[w] = "create" /\ w \notin failed
  BY DEF CreateSucceeds, CreateFails, TypeOK, WorkersFit
<1>2. main \notin {"starting", "fatal", "serving"}
  BY <1>1 DEF NotBegun, ServingWaited, AllDone
<1>3. TypeOK'
  BY DEF CreateSucceeds, CreateFails, TypeOK
<1>4. NotBegun' /\ ServingWaited'
  BY <1>2 DEF CreateSucceeds, CreateFails, NotBegun, ServingWaited
<1>5. WorkersFit'
  BY DEF CreateSucceeds, CreateFails, TypeOK, WorkersFit
<1>6. Delivered' = Delivered
  BY <1>1 DEF CreateSucceeds, CreateFails, TypeOK, Delivered
<1>7. Rendezvous'
  BY <1>6 DEF CreateSucceeds, CreateFails, Rendezvous
<1> QED
  BY <1>3, <1>4, <1>5, <1>7

\* An error is handed over.
LEMMA SendKeeps ==
  ASSUME IInv, NEW w \in Workers, SendError(w)
  PROVE  IInv'
<1> USE DEF IInv, SendError
<1>1. w \in failed
  BY DEF WorkersFit
<1>2. main \notin {"starting", "fatal", "serving"}
  BY DEF NotBegun, ServingWaited, AllDone
<1>3. TypeOK'
  BY DEF TypeOK
<1>4. NotBegun' /\ ServingWaited'
  BY <1>2 DEF NotBegun, ServingWaited
<1>5. WorkersFit'
  BY <1>1 DEF TypeOK, WorkersFit
<1>6. Delivered' = {w}
  BY <1>1 DEF TypeOK, Rendezvous, Delivered
<1>7. Rendezvous'
  BY <1>6 DEF Rendezvous
<1> QED
  BY <1>3, <1>4, <1>5, <1>7

\* The steps of main, of the receiver and of time.
LEMMA MainKeeps ==
  ASSUME IInv, BeginCreate \/ NoClientset \/ CancelAll \/ Deadline
                 \/ DoCreateReturns \/ Restart
  PROVE  IInv'
<1> USE DEF IInv
<1>1. CASE BeginCreate
  <2>1. failed' = {} /\ \A w \in Workers : worker'[w] = "create"
    BY <1>1 DEF BeginCreate, NotBegun
  <2>2. Delivered' = {} /\ Delivered = {}
    BY <1>1, <2>1 DEF BeginCreate, Delivered
  <2>3. Rendezvous'
    BY <1>1, <2>2 DEF BeginCreate, Rendezvous
  <2> QED
    BY <1>1, <2>1, <2>3
    DEF BeginCreate, TypeOK, NotBegun, WorkersFit, ServingWaited
<1>2. CASE NoClientset
  BY <1>2 DEF NoClientset, TypeOK, NotBegun, WorkersFit, ServingWaited,
              Rendezvous, Delivered
<1>3. CASE CancelAll
  BY <1>3 DEF CancelAll, TypeOK, NotBegun, WorkersFit, ServingWaited,
              AllDone, Rendezvous, Delivered
<1>4. CASE Deadline
  BY <1>4 DEF Deadline, TypeOK, NotBegun, WorkersFit, ServingWaited,
              AllDone, Rendezvous, Delivered
<1>5. CASE DoCreateReturns
  BY <1>5 DEF DoCreateReturns, DoCreateErr, TypeOK, NotBegun, WorkersFit,
              ServingWaited, AllDone, Rendezvous, Delivered
<1>6. CASE Restart
  <2>1. Delivered' = {}
    BY <1>6 DEF Restart, Start, Delivered
  <2>2. restarts' \in 0..MaxRestarts
    BY <1>6, MaxRestartsAssumption DEF Restart, TypeOK
  <2>3. Rendezvous'
    BY <1>6, <2>1 DEF Restart, Start, Rendezvous
  <2> QED
    BY <1>6, <2>2, <2>3
    DEF Restart, Start, TypeOK, NotBegun, WorkersFit, ServingWaited
<1> QED
  BY <1>1, <1>2, <1>3, <1>4, <1>5, <1>6

\* The invariant is inductive.
LEMMA IInvHolds == Spec => []IInv
<1>1. IInv /\ [Next]_vars => IInv'
  <2> SUFFICES ASSUME IInv, [Next]_vars PROVE IInv'
    OBVIOUS
  <2>1. CASE Next
    BY <2>1, CreateKeeps, SendKeeps, MainKeeps DEF Next
  <2>2. CASE UNCHANGED vars
    BY <2>2 DEF vars, IInv, TypeOK, NotBegun, WorkersFit, ServingWaited,
                AllDone, Rendezvous, Delivered
  <2> QED
    BY <2>1, <2>2
<1> QED
  BY <1>1, IInvInit, PTL DEF Spec

---------------------------------------------------------------------------
(* What follows.                                                           *)

\* Every state of the client's start-up is well typed.
THEOREM TypeCorrect == Spec => []TypeOK
BY IInvHolds, PTL DEF IInv

\* However many Creates fail, the receiver of main.go:68 takes one error and
\* no other leaves its goroutine.
THEOREM OneErrorLeaves == Spec => []OneErrorDelivered
<1>1. IInv => OneErrorDelivered
  <2> SUFFICES ASSUME IInv PROVE OneErrorDelivered
    OBVIOUS
  <2>1. Cardinality(Delivered) = IF receiver = "waiting" THEN 0 ELSE 1
    BY FS_EmptySet, FS_Singleton DEF IInv, Rendezvous
  <2> QED
    BY <2>1 DEF OneErrorDelivered, Delivered
<1> QED
  BY <1>1, IInvHolds, PTL

\* A client that serves lacks at most the one object whose error was
\* delivered, restarted or not, for any number of goroutines.
THEOREM LacksAtMostOne == Spec => []ServingLacksAtMostOne
<1>1. IInv => ServingLacksAtMostOne
  <2> SUFFICES ASSUME IInv, main = "serving"
               PROVE  /\ Cardinality(Workers \ stored) <= 1
                      /\ Workers \ stored \subseteq failed
    BY DEF ServingLacksAtMostOne
  <2>1. \A w \in Workers : worker[w] = "done"
    BY DEF IInv, ServingWaited, AllDone
  <2>2. Workers \ stored \subseteq failed
    BY <2>1 DEF IInv, WorkersFit
  <2>3. Delivered = failed
    BY <2>1 DEF IInv, TypeOK, Delivered
  <2>4. \/ Workers \ stored = {}
        \/ \E w \in Workers : Workers \ stored = {w}
    BY <2>2, <2>3 DEF IInv, Rendezvous
  <2>5. Cardinality(Workers \ stored) <= 1
    <3>1. CASE Workers \ stored = {}
      <4>1. Cardinality(Workers \ stored) = 0
        BY <3>1, FS_EmptySet
      <4> QED
        BY <4>1
    <3>2. ASSUME NEW w \in Workers, Workers \ stored = {w}
          PROVE  Cardinality(Workers \ stored) <= 1
      <4>1. Cardinality(Workers \ stored) = 1
        BY <3>2, FS_Singleton
      <4> QED
        BY <4>1
    <3> QED
      BY <2>4, <3>1, <3>2
  <2> QED
    BY <2>2, <2>5
<1> QED
  BY <1>1, IInvHolds, PTL
=============================================================================
