--------------------------- MODULE AtomicRegistry ---------------------------
(***************************************************************************)
(* What the registry promises its clients: every call takes effect in one  *)
(* step, at most once, and is answered with what that step decided.  A     *)
(* client that is cut off (timeout, lost connection, restarted server)     *)
(* learns nothing, and its call may still take effect, once, later.        *)
(***************************************************************************)
EXTENDS RegistryOps

CONSTANTS Requests, NoCall, NoOutcome

VARIABLES
  reg,       \* reg[n]: the state of the key of name n
  revision,  \* the revision of the last change
  call,      \* call[r]: the call request r makes
  status,    \* status[r]: how far request r is
  result     \* result[r]: what was decided about request r

vars == <<reg, revision, call, status, result>>

Init ==
  /\ reg      = [n \in Names |-> Absent]
  /\ revision = 0
  /\ call     = [r \in Requests |-> NoCall]
  /\ status   = [r \in Requests |-> "idle"]
  /\ result   = [r \in Requests |-> NoOutcome]

Invoke(r, c) ==
  /\ status[r] = "idle"
  /\ call'   = [call EXCEPT ![r] = c]
  /\ status' = [status EXCEPT ![r] = "pending"]
  /\ UNCHANGED <<reg, revision, result>>

\* The whole call, decided on the state of the key at this instant.
Apply(r, v) ==
  LET c == call[r] IN
  LET n == c.name  IN
  /\ Allows(c, reg[n], v)
  /\ result' = [result EXCEPT ![r] = Outcome(c, reg[n], v, revision + 1)]
  /\ IF v = "proceed"
       THEN /\ reg'      = [reg EXCEPT ![n] = Effect(c, revision + 1)]
            /\ revision' = revision + 1
       ELSE UNCHANGED <<reg, revision>>

Perform(r) ==
  /\ status[r] = "pending"
  /\ \E v \in Verdicts : Apply(r, v)
  /\ status' = [status EXCEPT ![r] = "done"]
  /\ UNCHANGED call

Respond(r) ==
  /\ status[r] = "done"
  /\ status' = [status EXCEPT ![r] = "answered"]
  /\ UNCHANGED <<reg, revision, call, result>>

\* The client gives up on r.  A call not yet performed may still be.
Abandon(r) ==
  /\ \/ status[r] = "pending" /\ status' = [status EXCEPT ![r] = "unknown"]
     \/ status[r] \in {"pending", "done", "unknown"}
                              /\ status' = [status EXCEPT ![r] = "lost"]
  /\ UNCHANGED <<reg, revision, call, result>>

PerformLate(r) ==
  /\ status[r] = "unknown"
  /\ Apply(r, "proceed")
  /\ status' = [status EXCEPT ![r] = "lost"]
  /\ UNCHANGED call

Next ==
  \E r \in Requests :
    \/ \E c \in Calls : Invoke(r, c)
    \/ Perform(r)
    \/ Respond(r)
    \/ Abandon(r)
    \/ PerformLate(r)

Spec == Init /\ [][Next]_vars
=============================================================================
