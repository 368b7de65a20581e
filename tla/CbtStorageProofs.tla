-------------------------- MODULE CbtStorageProofs --------------------------
(***************************************************************************)
(* Proofs about CbtStorage, for every set of names, objects, calls and     *)
(* requests.                                                               *)
(***************************************************************************)
EXTENDS CbtStorage, TLAPS

---------------------------------------------------------------------------
(* Types of the operators of RegistryOps.                                  *)

\* A transaction leaves a well-formed key behind.
LEMMA EffectType ==
  ASSUME NEW c \in Calls, NEW rev \in Nat \ {0}
  PROVE  Effect(c, rev) \in KeyStates
BY CallsAssumption DEF Effect, KeyStates, CallType

\* What a storage method returns is one of the outcomes.
LEMMA OutcomeType ==
  ASSUME NEW c \in Calls, NEW st \in KeyStates, NEW v \in Verdicts,
         NEW rev \in Nat, Allows(c, st, v)
  PROVE  Outcome(c, st, v, rev) \in Outcomes
<1> c \in CallType
  BY CallsAssumption
<1> /\ c.obj \in Objects
    /\ c.op \in Ops
    /\ st.obj \in Objects \cup {NoObject}
    /\ st.rev \in Nat
  BY DEF CallType, KeyStates, Absent
<1>1. CASE v = "proceed" /\ c.op = "delete"
  BY <1>1 DEF Outcome, Outcomes, Codes
<1>2. CASE v = "proceed" /\ c.op # "delete"
  <2>1. Success(c.op) \in Codes
    BY <1>2 DEF Success, Codes, Ops, Allows
  <2> QED
    BY <1>2, <2>1 DEF Outcome, Outcomes
<1>3. CASE v # "proceed"
  BY <1>3 DEF Outcome, Outcomes, Codes, Verdicts
<1> QED
  BY <1>1, <1>2, <1>3

\* The initial state of every key is well formed.
LEMMA AbsentType == Absent \in KeyStates
BY DEF KeyStates

\* Only a create, an update or a delete commits, and it is then one of the
\* written outcomes; no other verdict is.
LEMMA WrittenOutcome ==
  ASSUME NEW c \in Calls, NEW st \in KeyStates, NEW v \in Verdicts,
         NEW rev \in Nat, Allows(c, st, v)
  PROVE  /\ Outcome(c, st, v, rev).code \in Written <=> v = "proceed"
         /\ v = "proceed" /\ c.op # "delete" =>
              /\ Outcome(c, st, v, rev).rev = rev
              /\ Outcome(c, st, v, rev).obj = c.obj
<1>1. CASE v = "proceed" /\ c.op = "delete"
  BY <1>1 DEF Outcome, Written
<1>2. CASE v = "proceed" /\ c.op # "delete"
  <2>1. Success(c.op) \in Written
    BY <1>2 DEF Success, Written, Allows
  <2> QED
    BY <1>2, <2>1 DEF Outcome
<1>3. CASE v # "proceed"
  BY <1>3 DEF Outcome, Written, Verdicts
<1> QED
  BY <1>1, <1>2, <1>3

---------------------------------------------------------------------------
(* The inductive invariant.                                                *)

LEMMA IInvInit == Init => IInv
BY AbsentType DEF Init, IInv, TypeOK, PCs, TxnJustified, RevisionsBounded,
                  RevisionPinsState, OutcomesFit, Committed, Absent

\* Reading the key and deciding, in CreateBegin, GetState and Conflict.  A
\* create decides on Absent without a read, so st need not be the key.
LEMMA DecidePreserves ==
  ASSUME IInv, NEW r \in Requests, pc[r] \in {"start", "txn"},
         NEW st \in KeyStates, st.rev <= revision,
         st = etcd[Key(r)] \/ st = Absent,
         Decide(r, st), UNCHANGED <<etcd, revision, call>>
  PROVE  IInv'
<1>1. PICK v \in Verdicts :
        /\ Allows(call[r], st, v)
        /\ orig' = [orig EXCEPT ![r] = st]
        /\ IF v = "proceed"
             THEN /\ pc' = [pc EXCEPT ![r] = "txn"]
                  /\ UNCHANGED outcome
             ELSE /\ pc' = [pc EXCEPT ![r] = "decided"]
                  /\ outcome' = [outcome EXCEPT ![r] =
                                   Outcome(call[r], st, v, 0)]
  BY DEF Decide
<1>2. call[r] \in Calls
  BY DEF IInv, TypeOK
<1>3. Key(r) \in Names
  BY <1>2, CallsAssumption DEF Key, CallType
<1>4. Outcome(call[r], st, v, 0) \in Outcomes
  BY <1>1, <1>2, OutcomeType
<1>5. v # "proceed" => Outcome(call[r], st, v, 0).code \notin Written
  BY <1>1, <1>2, WrittenOutcome
<1>6. TypeOK'
  BY <1>1, <1>2, <1>4 DEF IInv, TypeOK, PCs
<1>7. TxnJustified'
  BY <1>1 DEF IInv, TypeOK, TxnJustified
<1>8. RevisionsBounded'
  BY <1>1 DEF IInv, TypeOK, RevisionsBounded
<1>9. RevisionPinsState'
  BY <1>1, <1>3 DEF IInv, TypeOK, RevisionPinsState, CompareModRevision, Key,
                    KeyStates, Absent
<1>10. OutcomesFit'
  BY <1>1, <1>5 DEF IInv, TypeOK, OutcomesFit, Committed
<1> QED
  BY <1>6, <1>7, <1>8, <1>9, <1>10 DEF IInv

\* The commit of a transaction, whether or not its handler still waits.
LEMMA WritePreserves ==
  ASSUME IInv, NEW r \in Requests, pc[r] \in {"txn", "orphan"}, Write(r),
         NEW p \in {"decided", "lost"}, pc' = [pc EXCEPT ![r] = p]
  PROVE  IInv'
<1>1. call[r] \in Calls /\ Key(r) \in Names /\ orig[r] \in KeyStates
  BY CallsAssumption DEF IInv, TypeOK, Key, CallType
<1>2. NewRevision(r) = revision + 1 /\ revision + 1 \in Nat \ {0}
  BY DEF NewRevision, IInv, TypeOK
<1>3. Effect(call[r], revision + 1) \in KeyStates
  BY <1>1, <1>2, EffectType
<1>4. Allows(call[r], orig[r], "proceed")
  BY DEF IInv, TxnJustified
<1> DEFINE o == Outcome(call[r], orig[r], "proceed", revision + 1)
<1>5. o \in Outcomes
  BY <1>1, <1>2, <1>4, OutcomeType DEF Verdicts
<1>6. /\ o.code \in Written
      /\ call[r].op # "delete" => o.rev = revision + 1 /\ o.obj = call[r].obj
  BY <1>1, <1>2, <1>4, WrittenOutcome DEF Verdicts
<1> HIDE DEF o
<1>7. /\ etcd'     = [etcd EXCEPT ![Key(r)] = Effect(call[r], revision + 1)]
      /\ revision' = revision + 1
      /\ outcome'  = [outcome EXCEPT ![r] = o]
      /\ UNCHANGED <<call, orig>>
  BY <1>2 DEF Write, o
<1>8. TypeOK'
  BY <1>1, <1>2, <1>3, <1>5, <1>7 DEF IInv, TypeOK, PCs
<1>9. TxnJustified'
  BY <1>7 DEF IInv, TypeOK, TxnJustified
<1>10. RevisionsBounded'
  <2>1. Effect(call[r], revision + 1).rev \in {0, revision + 1}
    BY DEF Effect, Absent
  <2> QED
    BY <1>1, <1>7, <2>1 DEF IInv, TypeOK, RevisionsBounded, KeyStates, Absent
<1>11. RevisionPinsState'
  <2> SUFFICES ASSUME NEW q \in Requests, pc'[q] \in {"txn", "orphan"},
                      CompareModRevision(q)'
               PROVE  etcd'[Key(q)'] = orig'[q]
    BY DEF RevisionPinsState
  <2>1. q # r /\ pc[q] \in {"txn", "orphan"} /\ Key(q)' = Key(q)
    BY <1>7 DEF IInv, TypeOK, Key
  <2>2. CASE Key(q) # Key(r)
    BY <1>7, <2>1, <2>2 DEF IInv, TypeOK, RevisionPinsState, CompareModRevision
  <2>3. CASE Key(q) = Key(r)
    <3>1. etcd'[Key(q)] = Effect(call[r], revision + 1)
      BY <1>1, <1>7, <2>3 DEF IInv, TypeOK
    <3>2. orig'[q] = orig[q] /\ orig[q] \in KeyStates /\ orig[q].rev <= revision
      BY <1>7 DEF IInv, TypeOK, RevisionsBounded
    <3>3. orig[q].rev # revision + 1
      BY <1>2, <3>2 DEF KeyStates, Absent, IInv, TypeOK
    <3>4. Effect(call[r], revision + 1) = Absent
      BY <2>1, <3>1, <3>2, <3>3 DEF CompareModRevision, Effect
    <3> QED
      BY <2>1, <3>1, <3>2, <3>4 DEF CompareModRevision, KeyStates, Absent
  <2> QED
    BY <2>2, <2>3
<1>12. OutcomesFit'
  <2> SUFFICES ASSUME NEW q \in Requests
               PROVE  /\ pc'[q] \in {"idle", "start", "txn", "orphan"}
                            => outcome'[q] = NoOutcome
                      /\ Committed(q)' =>
                           /\ Allows(call'[q], orig'[q], "proceed")
                           /\ call'[q].op # "delete" =>
                                /\ outcome'[q].rev \in 1..revision'
                                /\ outcome'[q].obj \in Objects
    BY DEF OutcomesFit
  <2>1. CASE q = r
    <3>1. call[r].obj \in Objects
      BY <1>1, CallsAssumption DEF CallType
    <3> QED
      BY <1>2, <1>4, <1>6, <1>7, <2>1, <3>1 DEF IInv, TypeOK
  <2>2. CASE q # r
    <3>1. outcome'[q] = outcome[q] /\ pc'[q] = pc[q]
      BY <1>7, <2>2 DEF IInv, TypeOK
    <3>2. 1..revision \subseteq 1..revision'
      BY <1>2, <1>7 DEF IInv, TypeOK
    <3> QED
      BY <1>7, <3>1, <3>2 DEF IInv, OutcomesFit, Committed
  <2> QED
    BY <2>1, <2>2
<1> QED
  BY <1>8, <1>9, <1>10, <1>11, <1>12 DEF IInv

\* Steps that move a handler along without touching etcd or a decision.
LEMMA MovePreserves ==
  ASSUME IInv, NEW r \in Requests, NEW p \in PCs \ {"idle", "start", "txn"},
         pc' = [pc EXCEPT ![r] = p], pc[r] # "idle",
         p = "orphan" => pc[r] = "txn",
         UNCHANGED <<etcd, revision, call, orig, outcome>>
  PROVE  IInv'
<1>1. TypeOK'
  BY DEF IInv, TypeOK
<1>2. TxnJustified' /\ RevisionsBounded'
  BY DEF IInv, TypeOK, TxnJustified, RevisionsBounded
<1>3. RevisionPinsState'
  BY DEF IInv, TypeOK, RevisionPinsState, CompareModRevision, Key
<1>4. OutcomesFit'
  BY DEF IInv, TypeOK, OutcomesFit, Committed
<1> QED
  BY <1>1, <1>2, <1>3, <1>4 DEF IInv

\* One step per action of Next.
LEMMA IInvNext == IInv /\ [Next]_vars => IInv'
<1> SUFFICES ASSUME IInv, [Next]_vars
             PROVE  IInv'
  OBVIOUS
<1>1. ASSUME NEW r \in Requests, NEW c \in Calls, Send(r, c)
      PROVE  IInv'
  <2>1. TypeOK'
    BY <1>1 DEF IInv, TypeOK, Send, PCs
  <2>2. TxnJustified' /\ RevisionsBounded'
    BY <1>1 DEF IInv, TypeOK, TxnJustified, RevisionsBounded, Send
  <2>3. RevisionPinsState'
    BY <1>1 DEF IInv, TypeOK, RevisionPinsState, CompareModRevision, Key, Send
  <2>4. OutcomesFit'
    BY <1>1 DEF IInv, TypeOK, OutcomesFit, Committed, Send
  <2> QED
    BY <2>1, <2>2, <2>3, <2>4 DEF IInv
<1>2. ASSUME NEW r \in Requests, CreateBegin(r)
      PROVE  IInv'
  <2>1. Absent.rev <= revision
    BY DEF IInv, TypeOK, Absent
  <2> QED
    BY <1>2, <2>1, AbsentType, DecidePreserves DEF CreateBegin
<1>3. ASSUME NEW r \in Requests, pc[r] \in {"start", "txn"},
             Decide(r, etcd[Key(r)]), UNCHANGED <<etcd, revision, call>>
      PROVE  IInv'
  <2>1. Key(r) \in Names
    BY <1>3, CallsAssumption DEF IInv, TypeOK, Key, CallType
  <2>2. etcd[Key(r)] \in KeyStates /\ etcd[Key(r)].rev <= revision
    BY <2>1 DEF IInv, TypeOK, RevisionsBounded
  <2> QED
    BY <1>3, <2>2, DecidePreserves
<1>4. ASSUME NEW r \in Requests, GetState(r)
      PROVE  IInv'
  BY <1>3, <1>4 DEF GetState
<1>5. ASSUME NEW r \in Requests, Conflict(r)
      PROVE  IInv'
  BY <1>3, <1>5 DEF Conflict
<1>6. ASSUME NEW r \in Requests, Commit(r)
      PROVE  IInv'
  BY <1>6, WritePreserves DEF Commit
<1>7. ASSUME NEW r \in Requests, Respond(r)
      PROVE  IInv'
  BY <1>7, MovePreserves DEF Respond, PCs
<1>8. ASSUME NEW r \in Requests, Abandon(r)
      PROVE  IInv'
  BY <1>8, MovePreserves DEF Abandon, PCs
<1>9. ASSUME NEW r \in Requests, OrphanCommit(r)
      PROVE  IInv'
  BY <1>9, WritePreserves DEF OrphanCommit
<1>10. ASSUME NEW r \in Requests, OrphanDrop(r)
      PROVE  IInv'
  BY <1>10, MovePreserves DEF OrphanDrop, PCs
<1>11. CASE UNCHANGED vars
  BY <1>11 DEF vars, IInv, TypeOK, TxnJustified, RevisionsBounded,
               RevisionPinsState, CompareModRevision, Key, OutcomesFit, Committed
<1> QED
  BY <1>1, <1>2, <1>4, <1>5, <1>6, <1>7, <1>8, <1>9, <1>10, <1>11 DEF Next

\* What the handlers carry through their loops is true whenever etcd looks:
\* the transaction that is sent was allowed on the state it names, and no
\* revision that is held is one etcd has not given out.
THEOREM IInvHolds == Spec => []IInv
BY IInvInit, IInvNext, PTL DEF Spec

---------------------------------------------------------------------------
(* Theorems.                                                               *)

\* Every variable keeps its type, whatever the requests do: in particular a
\* key has revision 0 exactly when it holds no object.
THEOREM TypeCorrect == Spec => []TypeOK
<1>1. IInv => TypeOK
  BY DEF IInv
<1> QED
  BY <1>1, IInvHolds, PTL

\* The ModRevision comparison protects the read-decide-commit loop from every
\* interleaving of other requests, deletions and recreations included.
THEOREM RevisionPins == Spec => []RevisionPinsState
<1>1. IInv => RevisionPinsState
  BY DEF IInv
<1> QED
  BY <1>1, IInvHolds, PTL

\* No conditional update or delete takes effect on an object that does not
\* meet its preconditions.
THEOREM PreconditionsHold == Spec => []PreconditionsHonoured
<1>1. IInv => PreconditionsHonoured
  <2> SUFFICES ASSUME IInv, NEW r \in Requests, Committed(r)
               PROVE  Check(Preconditions(call[r]), orig[r])
    BY DEF PreconditionsHonoured
  <2>1. Allows(call[r], orig[r], "proceed")
    BY DEF IInv, OutcomesFit
  <2> QED
    BY <2>1 DEF Allows, Check, Preconditions
<1> QED
  BY <1>1, IInvHolds, PTL

---------------------------------------------------------------------------
(* No acknowledged write is lost, none is applied twice.                   *)

\* A step that neither writes nor changes what committed handlers hold.
LEMMA ChainKept ==
  ASSUME ChainOfWrites, UNCHANGED etcd,
         \A q \in Requests :
           /\ Committed(q)' <=> Committed(q)
           /\ Committed(q) => UNCHANGED <<orig[q], outcome[q], call[q]>>
  PROVE  ChainOfWrites'
<1> SUFFICES ASSUME NEW r \in Requests, Committed(r), call[r].op # "delete"
             PROVE  Accounted(r)'
  BY DEF ChainOfWrites
<1>1. Accounted(r)
  BY DEF ChainOfWrites
<1>2. \A q \in Requests : Overwrote(q, r)' <=> Overwrote(q, r)
  BY DEF Overwrote, Key
<1>3. Key(r)' = Key(r) /\ outcome'[r] = outcome[r]
  BY DEF Key
<1>4. \A q \in Requests : Overwrote(q, r) => orig'[q] = orig[q]
  BY DEF Overwrote
<1> QED
  BY <1>1, <1>2, <1>3, <1>4 DEF Accounted

\* A commit ends the chain it read with its own write, and extends no other.
LEMMA ChainExtended ==
  ASSUME IInv, ChainOfWrites,
         NEW r \in Requests, pc[r] \in {"txn", "orphan"}, Write(r)
  PROVE  ChainOfWrites'
<1>1. call[r] \in Calls /\ Key(r) \in Names /\ orig[r] \in KeyStates
  BY CallsAssumption DEF IInv, TypeOK, Key, CallType
<1>2. revision \in Nat /\ NewRevision(r) = revision + 1
  BY DEF IInv, TypeOK, NewRevision
<1>3. ~Committed(r) /\ etcd[Key(r)] = orig[r]
  BY DEF IInv, OutcomesFit, Committed, RevisionPinsState, Write
<1> DEFINE o == Outcome(call[r], orig[r], "proceed", revision + 1)
           e == Effect(call[r], revision + 1)
<1>4. /\ o \in Outcomes
      /\ o.code \in Written
      /\ call[r].op # "delete" => o.rev = revision + 1 /\ o.obj = call[r].obj
  BY <1>1, <1>2, OutcomeType, WrittenOutcome DEF Verdicts, IInv, TxnJustified
<1>5. /\ e.rev \in {0, revision + 1}
      /\ call[r].op # "delete" => e.rev = revision + 1 /\ e.obj = call[r].obj
  BY DEF Effect, Absent
<1> HIDE DEF o, e
<1>6. /\ etcd'    = [etcd EXCEPT ![Key(r)] = e]
      /\ outcome' = [outcome EXCEPT ![r] = o]
      /\ UNCHANGED <<call, orig>>
  BY <1>2 DEF Write, o, e
<1>7. /\ Committed(r)'
      /\ \A q \in Requests \ {r} : (Committed(q)' <=> Committed(q))
                                  /\ outcome'[q] = outcome[q]
      /\ \A q \in Requests : Key(q)' = Key(q)
  BY <1>4, <1>6, NoOutcomeAssumption DEF IInv, TypeOK, Committed, Key
<1>8. \A q \in Requests : orig[q].rev \in Nat /\ orig[q].rev <= revision
  BY DEF IInv, TypeOK, RevisionsBounded, KeyStates, Absent
<1> SUFFICES ASSUME NEW q \in Requests, Committed(q)', call[q].op # "delete"
             PROVE  Accounted(q)'
  BY <1>6 DEF ChainOfWrites
<1>9. CASE q = r
  <2>1. outcome'[q] = o /\ etcd'[Key(q)] = e
    BY <1>1, <1>6, <1>9 DEF IInv, TypeOK
  <2>2. \A p \in Requests : ~Overwrote(p, q)'
    BY <1>2, <1>4, <1>6, <1>8, <1>9, <2>1 DEF Overwrote
  <2> QED
    BY <1>4, <1>5, <1>7, <1>9, <2>1, <2>2 DEF Accounted
<1>10. CASE q # r
  <2>1. Committed(q) /\ outcome'[q] = outcome[q] /\ Accounted(q)
    BY <1>7, <1>10 DEF ChainOfWrites
  <2>2. outcome[q].rev \in 1..revision
    BY <2>1 DEF IInv, OutcomesFit
  <2>3. e.rev # outcome[q].rev
    BY <1>2, <1>5, <2>2
  <2>4. \A p \in Requests \ {r} : Overwrote(p, q)' <=> Overwrote(p, q)
    BY <1>6, <1>7, <2>1 DEF Overwrote
  <2>5. ~Overwrote(r, q)
    BY <1>3 DEF Overwrote
  <2>6. CASE Key(q) = Key(r) /\ orig[r].rev = outcome[q].rev
    <3>1. /\ etcd[Key(q)].obj = outcome[q].obj
          /\ \A p \in Requests : ~Overwrote(p, q)
      BY <1>3, <2>1, <2>6 DEF Accounted
    <3>2. Overwrote(r, q)' /\ orig'[r].obj = outcome[q].obj
      BY <1>3, <1>6, <1>7, <2>1, <2>6, <3>1 DEF Overwrote
    <3>3. etcd'[Key(q)].rev # outcome[q].rev
      BY <1>1, <1>6, <2>3, <2>6 DEF IInv, TypeOK
    <3> QED
      BY <1>7, <1>10, <2>1, <2>4, <3>1, <3>2, <3>3 DEF Accounted
  <2>7. CASE ~(Key(q) = Key(r) /\ orig[r].rev = outcome[q].rev)
    <3>1. ~Overwrote(r, q)'
      BY <1>6, <1>7, <2>1, <2>7 DEF Overwrote
    <3>2. CASE Key(q) = Key(r)
      <4>1. etcd[Key(q)].rev # outcome[q].rev /\ etcd'[Key(q)].rev # outcome[q].rev
        BY <1>1, <1>3, <1>6, <2>3, <2>7, <3>2 DEF IInv, TypeOK
      <4> QED
        BY <1>6, <1>7, <2>1, <2>4, <2>5, <3>1, <4>1 DEF Accounted
    <3>3. CASE Key(q) # Key(r)
      <4>1. etcd'[Key(q)] = etcd[Key(q)]
        BY <1>6, <3>3 DEF IInv, TypeOK
      <4> QED
        BY <1>6, <1>7, <2>1, <2>4, <2>5, <3>1, <4>1 DEF Accounted
    <3> QED
      BY <3>2, <3>3
  <2> QED
    BY <2>6, <2>7
<1> QED
  BY <1>9, <1>10

\* One step per action of Next.
LEMMA ChainNext == IInv /\ ChainOfWrites /\ [Next]_vars => ChainOfWrites'
<1> SUFFICES ASSUME IInv, ChainOfWrites, [Next]_vars
             PROVE  ChainOfWrites'
  OBVIOUS
<1>1. ASSUME NEW r \in Requests, NEW c \in Calls, Send(r, c)
      PROVE  ChainOfWrites'
  <2>1. ~Committed(r)
    BY <1>1 DEF Send, IInv, OutcomesFit, Committed
  <2> QED
    BY <1>1, <2>1, ChainKept DEF Send, Committed, IInv, TypeOK
<1>2. ASSUME NEW r \in Requests, pc[r] \in {"start", "txn"},
             NEW st \in KeyStates,
             Decide(r, st), UNCHANGED <<etcd, revision, call>>
      PROVE  ChainOfWrites'
  <2>1. ~Committed(r)
    BY <1>2 DEF IInv, OutcomesFit, Committed
  <2>2. PICK v \in Verdicts :
          /\ Allows(call[r], st, v)
          /\ orig' = [orig EXCEPT ![r] = st]
          /\ IF v = "proceed" THEN UNCHANGED outcome
                              ELSE outcome' = [outcome EXCEPT ![r] =
                                                 Outcome(call[r], st, v, 0)]
    BY <1>2 DEF Decide
  <2>3. v # "proceed" => Outcome(call[r], st, v, 0).code \notin Written
    <3>1. call[r] \in Calls
      BY <1>2 DEF IInv, TypeOK
    <3> QED
      BY <1>2, <2>2, <3>1, WrittenOutcome
  <2>4. ~Committed(r)'
    BY <2>1, <2>2, <2>3 DEF IInv, TypeOK, Committed
  <2>5. \A q \in Requests \ {r} : UNCHANGED <<orig[q], outcome[q]>>
    BY <2>2 DEF IInv, TypeOK
  <2>6. \A q \in Requests :
          /\ Committed(q)' <=> Committed(q)
          /\ Committed(q) => UNCHANGED <<orig[q], outcome[q], call[q]>>
    BY <1>2, <2>1, <2>4, <2>5 DEF Committed
  <2> QED
    BY <1>2, <2>6, ChainKept
<1>3. ASSUME NEW r \in Requests, CreateBegin(r)
      PROVE  ChainOfWrites'
  BY <1>2, <1>3, AbsentType DEF CreateBegin
<1>4. ASSUME NEW r \in Requests, GetState(r) \/ Conflict(r)
      PROVE  ChainOfWrites'
  <2>1. etcd[Key(r)] \in KeyStates
    BY <1>4, CallsAssumption
    DEF GetState, Conflict, IInv, TypeOK, Key, CallType
  <2> QED
    BY <1>2, <1>4, <2>1 DEF GetState, Conflict
<1>5. ASSUME NEW r \in Requests, Commit(r) \/ OrphanCommit(r)
      PROVE  ChainOfWrites'
  BY <1>5, ChainExtended DEF Commit, OrphanCommit
<1>6. ASSUME NEW r \in Requests, Respond(r) \/ Abandon(r) \/ OrphanDrop(r)
      PROVE  ChainOfWrites'
  BY <1>6, ChainKept DEF Respond, Abandon, OrphanDrop, Committed
<1>7. CASE UNCHANGED vars
  BY <1>7, ChainKept DEF vars, Committed
<1> QED
  BY <1>1, <1>3, <1>4, <1>5, <1>6, <1>7 DEF Next

\* What a create or an update wrote stays in etcd until exactly one other
\* request that had read it replaces or removes it: no acknowledged write is
\* lost, none is applied twice, whatever is cut off.
THEOREM WritesChain == Spec => []ChainOfWrites
<1>1. Init => ChainOfWrites
  BY DEF Init, ChainOfWrites, Committed
<1> QED
  BY <1>1, ChainNext, IInvHolds, PTL DEF Spec

---------------------------------------------------------------------------
(* CbtStorage implements AtomicRegistry.                                   *)

\* Only the revision given to a write, and for a refused create the state of
\* the key, do not matter to a verdict other than proceed.
LEMMA OutcomeWithoutWrite ==
  ASSUME NEW c, NEW st, NEW v, v # "proceed", NEW i, NEW j
  PROVE  /\ Outcome(c, st, v, i) = Outcome(c, st, v, j)
         /\ v = "rvSet" => Outcome(c, st, v, i) = Outcome(c, Absent, v, j)
BY DEF Outcome

\* The instance's operators are those of this module.
LEMMA SameOperators ==
  ASSUME NEW c, NEW st, NEW v, NEW rev
  PROVE  /\ Registry!Allows(c, st, v) <=> Allows(c, st, v)
         /\ Registry!Outcome(c, st, v, rev) = Outcome(c, st, v, rev)
         /\ Registry!Effect(c, rev) = Effect(c, rev)
         /\ Registry!Verdicts = Verdicts
BY DEF Registry!Allows, Registry!Outcome, Registry!Effect, Registry!Verdicts,
       Registry!Absent, Registry!Check, Registry!Preconditions,
       Registry!StoredUID, Registry!Success,
       Allows, Outcome, Effect, Verdicts, Absent, Check, Preconditions,
       StoredUID, Success

\* The refinement mapping of a handler that moves from one place to another.
LEMMA StatusMoves ==
  ASSUME NEW r \in Requests, NEW p \in PCs, pc \in [Requests -> PCs],
         pc' = [pc EXCEPT ![r] = p]
  PROVE  [q \in Requests |-> AbstractStatus(pc'[q])] =
         [[q \in Requests |-> AbstractStatus(pc[q])]
            EXCEPT ![r] = AbstractStatus(p)]
OBVIOUS

\* Deciding is a step of the registry when it ends the call, and invisible
\* when it leads to a transaction.
LEMMA DecideRefines ==
  ASSUME IInv, NEW r \in Requests, pc[r] \in {"start", "txn"},
         NEW st \in KeyStates, Decide(r, st),
         st = etcd[Key(r)] \/ (st = Absent /\ call[r].op = "create"
                                         /\ pc[r] = "start"),
         UNCHANGED <<etcd, revision, call>>
  PROVE  [Registry!Next]_(Registry!vars)
<1>1. PICK v \in Verdicts :
        /\ Allows(call[r], st, v)
        /\ IF v = "proceed"
             THEN pc' = [pc EXCEPT ![r] = "txn"] /\ UNCHANGED outcome
             ELSE /\ pc' = [pc EXCEPT ![r] = "decided"]
                  /\ outcome' = [outcome EXCEPT ![r] =
                                   Outcome(call[r], st, v, 0)]
  BY DEF Decide
<1> DEFINE s == [q \in Requests |-> AbstractStatus(pc[q])]
<1>2. s[r] = "pending"
  BY DEF AbstractStatus
<1>3. CASE v = "proceed"
  <2>1. s' = [s EXCEPT ![r] = AbstractStatus("txn")]
    BY <1>1, <1>3, StatusMoves DEF IInv, TypeOK, PCs
  <2>2. AbstractStatus("txn") = "pending"
    BY DEF AbstractStatus
  <2>3. s' = s
    BY <1>2, <2>1, <2>2
  <2> QED
    BY <1>1, <1>3, <2>3 DEF Registry!vars
<1>4. CASE v # "proceed"
  <2>1. s' = [s EXCEPT ![r] = AbstractStatus("decided")]
    BY <1>1, <1>4, StatusMoves DEF IInv, TypeOK, PCs
  <2>2. AbstractStatus("decided") = "done"
    BY DEF AbstractStatus
  <2>3. /\ Allows(call[r], etcd[Key(r)], v)
        /\ Outcome(call[r], st, v, 0) =
           Outcome(call[r], etcd[Key(r)], v, revision + 1)
    <3>1. CASE st = etcd[Key(r)]
      BY <1>1, <1>4, <3>1, OutcomeWithoutWrite
    <3>2. CASE st = Absent /\ call[r].op = "create"
      <4>1. v = "rvSet"
        BY <1>1, <1>4, <3>2 DEF Allows
      <4>2. Allows(call[r], etcd[Key(r)], v)
        BY <1>1, <3>2, <4>1 DEF Allows
      <4>3. Outcome(call[r], etcd[Key(r)], v, revision + 1) =
            Outcome(call[r], Absent, v, 0)
        BY <1>4, <4>1, OutcomeWithoutWrite
      <4> QED
        BY <3>2, <4>2, <4>3
    <3> QED
      BY <3>1, <3>2
  <2>4. outcome' = [outcome EXCEPT ![r] =
                     Outcome(call[r], etcd[Key(r)], v, revision + 1)]
    BY <1>1, <1>4, <2>3
  <2> HIDE DEF s
  <2>5. Registry!Apply(r, v)
    BY <1>4, <2>3, <2>4, SameOperators DEF Registry!Apply, Key
  <2>6. Registry!Perform(r)
    BY <1>1, <1>2, <2>1, <2>2, <2>5, SameOperators DEF Registry!Perform, s
  <2> QED
    BY <2>6 DEF Registry!Next
<1> QED
  BY <1>3, <1>4

\* A commit is the registry performing the call: the state it was decided on
\* is the state it replaces.
LEMMA WriteRefines ==
  ASSUME IInv, NEW r \in Requests, Commit(r) \/ OrphanCommit(r)
  PROVE  Registry!Next
<1> DEFINE s == [q \in Requests |-> AbstractStatus(pc[q])]
<1>1. Write(r) /\ pc[r] \in {"txn", "orphan"}
  BY DEF Commit, OrphanCommit
<1>2. orig[r] = etcd[Key(r)] /\ Allows(call[r], etcd[Key(r)], "proceed")
  BY <1>1 DEF IInv, RevisionPinsState, TxnJustified, Write
<1>3. /\ etcd'    = [etcd EXCEPT ![Key(r)] = Effect(call[r], revision + 1)]
      /\ outcome' = [outcome EXCEPT ![r] =
                       Outcome(call[r], etcd[Key(r)], "proceed", revision + 1)]
      /\ revision' = revision + 1
      /\ UNCHANGED call
  BY <1>1, <1>2 DEF Write, NewRevision
<1>4. Registry!Apply(r, "proceed")
  BY <1>2, <1>3, SameOperators DEF Registry!Apply, Key
<1>5. CASE Commit(r)
  <2>1. s' = [s EXCEPT ![r] = AbstractStatus("decided")]
    BY <1>5, StatusMoves DEF Commit, IInv, TypeOK, PCs
  <2>2. s[r] = "pending" /\ AbstractStatus("decided") = "done"
    BY <1>5 DEF Commit, AbstractStatus
  <2>3. "proceed" \in Registry!Verdicts
    BY SameOperators DEF Verdicts
  <2>4. Registry!Perform(r)
    BY <1>3, <1>4, <2>1, <2>2, <2>3 DEF Registry!Perform
  <2> QED
    BY <2>4 DEF Registry!Next
<1>6. CASE OrphanCommit(r)
  <2>1. s' = [s EXCEPT ![r] = AbstractStatus("lost")]
    BY <1>6, StatusMoves DEF OrphanCommit, IInv, TypeOK, PCs
  <2>2. s[r] = "unknown" /\ AbstractStatus("lost") = "lost"
    BY <1>6 DEF OrphanCommit, AbstractStatus
  <2>3. Registry!PerformLate(r)
    BY <1>3, <1>4, <2>1, <2>2 DEF Registry!PerformLate
  <2> QED
    BY <2>3 DEF Registry!Next
<1> QED
  BY <1>5, <1>6

\* One step per action of Next.
LEMMA NextRefines ==
  IInv /\ [Next]_vars => [Registry!Next]_(Registry!vars)
<1> SUFFICES ASSUME IInv, [Next]_vars
             PROVE  [Registry!Next]_(Registry!vars)
  OBVIOUS
<1> DEFINE s == [q \in Requests |-> AbstractStatus(pc[q])]
<1>1. ASSUME NEW r \in Requests, NEW c \in Calls, Send(r, c)
      PROVE  Registry!Next
  <2>1. s' = [s EXCEPT ![r] = AbstractStatus("start")]
    BY <1>1, StatusMoves DEF Send, IInv, TypeOK, PCs
  <2>2. s[r] = "idle" /\ AbstractStatus("start") = "pending"
    BY <1>1 DEF Send, AbstractStatus
  <2>3. Registry!Invoke(r, c)
    BY <1>1, <2>1, <2>2 DEF Send, Registry!Invoke
  <2> QED
    BY <2>3 DEF Registry!Next
<1>2. ASSUME NEW r \in Requests, CreateBegin(r)
      PROVE  [Registry!Next]_(Registry!vars)
  BY <1>2, AbsentType, DecideRefines DEF CreateBegin
<1>3. ASSUME NEW r \in Requests, GetState(r) \/ Conflict(r)
      PROVE  [Registry!Next]_(Registry!vars)
  <2>1. etcd[Key(r)] \in KeyStates
    BY <1>3, CallsAssumption
    DEF GetState, Conflict, IInv, TypeOK, Key, CallType
  <2> QED
    BY <1>3, <2>1, DecideRefines DEF GetState, Conflict
<1>4. ASSUME NEW r \in Requests, Commit(r) \/ OrphanCommit(r)
      PROVE  Registry!Next
  BY <1>4, WriteRefines
<1>5. ASSUME NEW r \in Requests, Respond(r)
      PROVE  Registry!Next
  <2>1. s' = [s EXCEPT ![r] = AbstractStatus("answered")]
    BY <1>5, StatusMoves DEF Respond, IInv, TypeOK, PCs
  <2>2. s[r] = "done" /\ AbstractStatus("answered") = "answered"
    BY <1>5 DEF Respond, AbstractStatus
  <2>3. Registry!Respond(r)
    BY <1>5, <2>1, <2>2 DEF Respond, Registry!Respond
  <2> QED
    BY <2>3 DEF Registry!Next
<1>6. ASSUME NEW r \in Requests, Abandon(r) \/ OrphanDrop(r)
      PROVE  Registry!Next
  <2>1. PICK p \in {"orphan", "lost"} :
          /\ pc' = [pc EXCEPT ![r] = p]
          /\ p = "orphan" => pc[r] = "txn"
          /\ p = "lost" => pc[r] \in {"start", "decided", "orphan"}
          /\ UNCHANGED <<etcd, revision, call, outcome>>
    <3>1. CASE Abandon(r) /\ pc[r] = "txn"
      BY <3>1 DEF Abandon
    <3>2. CASE Abandon(r) /\ pc[r] # "txn"
      BY <3>2 DEF Abandon
    <3>3. CASE OrphanDrop(r)
      BY <3>3 DEF OrphanDrop
    <3> QED
      BY <1>6, <3>1, <3>2, <3>3
  <2>2. s' = [s EXCEPT ![r] = AbstractStatus(p)]
    BY <2>1, StatusMoves DEF IInv, TypeOK, PCs
  <2>3. CASE p = "orphan"
    <3>1. s[r] = "pending" /\ AbstractStatus(p) = "unknown"
      BY <2>1, <2>3 DEF AbstractStatus
    <3>2. Registry!Abandon(r)
      BY <2>1, <2>2, <3>1 DEF Registry!Abandon
    <3> QED
      BY <3>2 DEF Registry!Next
  <2>4. CASE p = "lost"
    <3>1. s[r] \in {"pending", "done", "unknown"} /\ AbstractStatus(p) = "lost"
      BY <2>1, <2>4 DEF AbstractStatus
    <3>2. Registry!Abandon(r)
      BY <2>1, <2>2, <3>1 DEF Registry!Abandon
    <3> QED
      BY <3>2 DEF Registry!Next
  <2> QED
    BY <2>3, <2>4
<1>7. CASE UNCHANGED vars
  BY <1>7 DEF vars, Registry!vars
<1> QED
  BY <1>1, <1>2, <1>3, <1>4, <1>5, <1>6, <1>7 DEF Next

\* The registry is linearizable: every run of the concurrent handlers, with
\* any of them cut off anywhere, is a run of the registry that performs each
\* call in one step.
THEOREM Implements == Spec => Linearizable
<1>1. Init => Registry!Init
  BY DEF Init, Registry!Init, Registry!Absent, Absent, AbstractStatus
<1>2. IInv /\ [Next]_vars => [Registry!Next]_(Registry!vars)
  BY NextRefines
<1> QED
  BY <1>1, <1>2, IInvHolds, PTL DEF Spec, Linearizable, Registry!Spec
=============================================================================
