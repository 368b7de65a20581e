---------------------------- MODULE BackupClient ----------------------------
(***************************************************************************)
(* Start-up of the backup client (cmd/mock/client/main.go).  doCreate runs *)
(* one goroutine per VolumeSnapshotDelta; a goroutine whose Create fails   *)
(* sends the error on errChan, which is unbuffered and which one receiver  *)
(* goroutine reads once before it cancels the context all share.  main     *)
(* waits for the goroutines and then serves HTTP; one that gets no         *)
(* clientset in the first place ends.  The pod may be killed and restarted *)
(* at any time; what it stored at the API server stays.                    *)
(***************************************************************************)
EXTENDS ClientConfig, FiniteSets

CONSTANTS
  Workers,      \* the goroutines of doCreate, one per object created
  MaxRestarts   \* bound: how often the pod is killed and restarted

ASSUME WorkersAssumption == IsFiniteSet(Workers)
ASSUME MaxRestartsAssumption == MaxRestarts \in Nat

VARIABLES
  main,      \* the main goroutine: starting, creating (in doCreate), serving
             \* or fatal
  worker,    \* worker[w]: none, create (call under way), send (on errChan),
             \* done
  failed,    \* the workers whose Create returned an error
  receiver,  \* the reader of errChan: waiting, holding an error, or gone
  ctx,       \* doCreate's context: live or done
  stored,    \* the objects at the API server, named by their worker
  restarts   \* restarts so far

vars == <<main, worker, failed, receiver, ctx, stored, restarts>>

TypeOK ==
  /\ main \in {"starting", "creating", "serving", "fatal"}
  /\ worker \in [Workers -> {"none", "create", "send", "done"}]
  /\ failed \subseteq Workers
  /\ receiver \in {"waiting", "holding", "gone"}
  /\ ctx \in {"live", "done"}
  /\ stored \subseteq Workers
  /\ restarts \in 0..MaxRestarts
  /\ main = "serving" => ctx = "done"

Start ==
  [main |-> "starting", worker |-> [w \in Workers |-> "none"],
   failed |-> {}, receiver |-> "waiting", ctx |-> "live"]

Init ==
  /\ main     = Start.main
  /\ worker   = Start.worker
  /\ failed   = Start.failed
  /\ receiver = Start.receiver
  /\ ctx      = Start.ctx
  /\ stored   = {}
  /\ restarts = 0

---------------------------------------------------------------------------

\* main calls doCreate, which starts the goroutines.
BeginCreate ==
  /\ main = "starting"
  /\ "client" \in Clientsets
  /\ main' = "creating"
  /\ worker' = [w \in Workers |-> "create"]
  /\ UNCHANGED <<failed, receiver, ctx, stored, restarts>>

\* klog.Fatal, for want of a clientset.
NoClientset ==
  /\ main = "starting"
  /\ "error" \in Clientsets
  /\ main' = "fatal"
  /\ UNCHANGED <<worker, failed, receiver, ctx, stored, restarts>>

\* The API server stores the object, or already has it: both are a success
\* to the caller (CreatedIsStored of CbtStorage says what that hides).
CreateSucceeds(w) ==
  /\ worker[w] = "create"
  /\ stored' = stored \cup {w}
  /\ worker' = [worker EXCEPT ![w] = "done"]
  /\ UNCHANGED <<main, failed, receiver, ctx, restarts>>

\* The call fails, or the context is done before its answer: the object may
\* be stored all the same.  The error is an API status and never the
\* *storage.StorageError of main.go:96, so it goes to errChan.
CreateFails(w) ==
  /\ worker[w] = "create"
  /\ stored' \in {stored, stored \cup {w}}
  /\ failed' = failed \cup {w}
  /\ worker' = [worker EXCEPT ![w] = "send"]
  /\ UNCHANGED <<main, receiver, ctx, restarts>>

\* A variant that returns from the goroutine without its wg.Done.
SendErrorNotDone(w) ==
  /\ worker[w] = "send"
  /\ receiver = "waiting"
  /\ receiver' = "holding"
  /\ UNCHANGED <<main, worker, failed, ctx, stored, restarts>>

\* A variant whose receiver reads errChan in a loop.
SendErrorToLoop(w) ==
  /\ worker[w] = "send"
  /\ receiver' = "holding"
  /\ worker' = [worker EXCEPT ![w] = "done"]
  /\ UNCHANGED <<main, failed, ctx, stored, restarts>>

\* errChan <- err: blocks until the receiver takes it.
SendError(w) ==
  /\ worker[w] = "send"
  /\ receiver = "waiting"
  /\ receiver' = "holding"
  /\ worker' = [worker EXCEPT ![w] = "done"]
  /\ UNCHANGED <<main, failed, ctx, stored, restarts>>

\* The receiver cancels the context and ends: nobody reads errChan again.
CancelAll ==
  /\ receiver = "holding"
  /\ receiver' = "gone"
  /\ ctx' = "done"
  /\ UNCHANGED <<main, worker, failed, stored, restarts>>

\* The 180 seconds of the context are over.
Deadline ==
  /\ main = "creating"
  /\ ctx = "live"
  /\ ctx' = "done"
  /\ UNCHANGED <<main, worker, failed, receiver, stored, restarts>>

\* The err that doCreate returns: the goroutines assign to variables of
\* their own that shadow it, so it is nil whatever happened.
DoCreateErr == "nil"

\* A variant of AllDone: with wg.Add inside the goroutines, Wait may find only
\* some of them counted.
SomeDone == \E w \in Workers : worker[w] = "done"

AllDone == \A w \in Workers : worker[w] = "done"

\* A variant without the deferred cancel.
DoCreateReturnsLeaking ==
  /\ main = "creating"
  /\ AllDone
  /\ main' = IF DoCreateErr = "nil" THEN "serving" ELSE "fatal"
  /\ UNCHANGED <<worker, failed, receiver, ctx, stored, restarts>>

\* wg.Wait returns, doCreate with it (and its deferred cancel), and main goes
\* on to ListenAndServe or to klog.Fatal.
DoCreateReturns ==
  /\ main = "creating"
  /\ AllDone
  /\ ctx' = "done"
  /\ main' = IF DoCreateErr = "nil" THEN "serving" ELSE "fatal"
  /\ UNCHANGED <<worker, failed, receiver, stored, restarts>>

\* The pod is killed, or died, and the kubelet starts it again.
Restart ==
  /\ restarts < MaxRestarts
  /\ main'     = Start.main
  /\ worker'   = Start.worker
  /\ failed'   = Start.failed
  /\ receiver' = Start.receiver
  /\ ctx'      = Start.ctx
  /\ restarts' = restarts + 1
  /\ UNCHANGED stored

Next ==
  \/ \E w \in Workers : \/ CreateSucceeds(w)
                        \/ CreateFails(w)
                        \/ SendError(w)
  \/ BeginCreate
  \/ NoClientset
  \/ CancelAll
  \/ Deadline
  \/ DoCreateReturns
  \/ Restart

Spec == Init /\ [][Next]_vars

\* Goroutines are scheduled and time passes.  The API server owes no answer,
\* but a Create returns once its context is done.  No restart is owed.
Returns(w) == ctx = "done" /\ (CreateSucceeds(w) \/ CreateFails(w))

FairSpec ==
  /\ Spec
  /\ \A w \in Workers : /\ WF_vars(Returns(w))
                        /\ WF_vars(SendError(w))
  /\ WF_vars(BeginCreate \/ NoClientset)
  /\ WF_vars(CancelAll)
  /\ WF_vars(Deadline)
  /\ WF_vars(DoCreateReturns)

---------------------------------------------------------------------------
(* Properties.                                                             *)

\* The channel is a rendezvous: the errors that left a goroutine are exactly
\* those the receiver took, and it takes one in its life.
OneErrorDelivered ==
  Cardinality({w \in failed : worker[w] = "done"}) =
    IF receiver = "waiting" THEN 0 ELSE 1

\* A client that serves, with whatever failures behind it that doCreate did not
\* report, lacks at most one object, and that one's Create failed: a second
\* failure would have kept it from serving.  Objects of a life cut short count.
ServingLacksAtMostOne ==
  main = "serving" =>
    /\ Cardinality(Workers \ stored) <= 1
    /\ Workers \ stored \subseteq failed

\* The client gets to serve if no life of it sees more than one failure, nor
\* ends for want of a clientset.
ServesUnlessTwoFail ==
  [](Cardinality(failed) <= 1 /\ main # "fatal") => <>(main = "serving")

---------------------------------------------------------------------------
(* What the code or the README says, and the code does not do.             *)

\* README.md:115: the pods come up.  Here: start-up ends, one way or another,
\* since main.go:65 gives all of it 180 seconds.
StartupEnds == <>(main \in {"serving", "fatal"})
=============================================================================
