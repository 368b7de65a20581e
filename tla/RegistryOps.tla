---------------------------- MODULE RegistryOps ----------------------------
(***************************************************************************)
(* What one request to the VolumeSnapshotDelta registry decides when it is *)
(* given the state of the key it addresses: the sequential meaning of      *)
(* Create, Update, Delete and Connect (without fetchcbd) of                *)
(* pkg/storage/cbt-rest.go over the etcd3 store.  AtomicRegistry applies   *)
(* these operators in one step, CbtStorage over several etcd calls.        *)
(***************************************************************************)
EXTENDS Naturals

CONSTANTS
  Names,        \* object names; keyPath makes the etcd key from the name alone
  Namespaces,   \* what metadata.namespace of a submitted object may hold
  Bodies,       \* everything else an object holds, compared only for equality
  UIDs,         \* values of metadata.uid, which only clients ever set
  NoUID,        \* the empty metadata.uid
  NoObject,     \* no object: the value of an absent key
  Calls         \* the calls the clients may make

UidOrNone == UIDs \cup {NoUID}
Objects   == [ns : Namespaces, uid : UidOrNone, body : Bodies]

\* A key as etcd holds it: its value and the revision of its last change
\* (ModRevision), which is 0 for a key that does not exist.
Absent    == [rev |-> 0, obj |-> NoObject]
KeyStates == [rev : Nat \ {0}, obj : Objects] \cup {Absent}

Ops == {"create", "update", "delete", "get"}

\* uid and rv of a delete are options.Preconditions; rv of a create or an
\* update is the resourceVersion of the submitted object (0: not set).  The
\* dryRun option is left out: no method looks at it, and a dry run commits.
CallType == [op : Ops, name : Names, obj : Objects, uid : UidOrNone,
             rv : Nat]

ASSUME NoUIDAssumption    == NoUID \notin UIDs
ASSUME NoObjectAssumption == NoObject \notin Objects
ASSUME CallsAssumption    == Calls \subseteq CallType

---------------------------------------------------------------------------

StoredUID(st) == IF st = Absent THEN NoUID ELSE st.obj.uid

\* objInfo.Preconditions() carries the uid of the submitted object and never
\* its resourceVersion; a create has none.
Preconditions(c) ==
  CASE c.op = "update" -> [uid |-> c.obj.uid, rv |-> 0]
    [] c.op = "delete" -> [uid |-> c.uid,     rv |-> c.rv]
    [] OTHER           -> [uid |-> NoUID,     rv |-> 0]

Check(pre, st) ==
  /\ pre.uid # NoUID => pre.uid = StoredUID(st)
  /\ pre.rv  # 0     => pre.rv  = st.rev

Verdicts == {"proceed", "rvSet", "exists", "notFound", "precondition",
             "denied", "unchanged", "found"}

\* The verdicts the code may reach on call c when its key is in state st.
\* "proceed" is the transaction; the rest end the call without a write.
\* Whether admission denies a deletion depends on plugins outside this code.
Allows(c, st, v) ==
  \/ /\ c.op = "create"
     /\ \/ v = "rvSet"   /\ c.rv # 0
        \/ v = "exists"  /\ c.rv = 0 /\ st # Absent
        \/ v = "proceed" /\ c.rv = 0 /\ st = Absent
  \/ /\ c.op = "update"
     /\ \/ v = "precondition" /\ ~Check(Preconditions(c), st)
        \/ v = "unchanged"    /\ Check(Preconditions(c), st) /\ st.obj = c.obj
        \/ v = "proceed"      /\ Check(Preconditions(c), st) /\ st.obj # c.obj
  \/ /\ c.op = "delete"
     /\ \/ v = "notFound"     /\ st = Absent
        \/ v = "precondition" /\ st # Absent /\ ~Check(Preconditions(c), st)
        \/ v \in {"denied", "proceed"}
                              /\ st # Absent /\ Check(Preconditions(c), st)
  \/ /\ c.op = "get"
     /\ \/ v = "notFound" /\ st = Absent
        \/ v = "found"    /\ st # Absent

\* A variant of Effect in which a delete leaves the revision behind.
EffectKeepingRevision(c, rev) ==
  [rev |-> rev, obj |-> IF c.op = "delete" THEN NoObject ELSE c.obj]

\* The key after a transaction that etcd commits at revision rev.
Effect(c, rev) ==
  IF c.op = "delete" THEN Absent ELSE [rev |-> rev, obj |-> c.obj]

Codes    == {"created", "updated", "deleted"} \cup (Verdicts \ {"proceed"})
Written  == {"created", "updated", "deleted"}
Outcomes == [code : Codes, obj : Objects \cup {NoObject}, rev : Nat]

Success(op) == CASE op = "create" -> "created"
                 [] op = "update" -> "updated"
                 [] op = "delete" -> "deleted"

\* What the storage method returns.  A create that finds its key taken hands
\* back the object it was given; a delete hands back what it removed.
Outcome(c, st, v, rev) ==
  CASE v = "proceed" /\ c.op = "delete" ->
         [code |-> "deleted", obj |-> st.obj, rev |-> st.rev]
    [] v = "proceed" /\ c.op # "delete" ->
         [code |-> Success(c.op), obj |-> c.obj, rev |-> rev]
    [] v = "exists" ->
         [code |-> v, obj |-> c.obj, rev |-> 0]
    [] v \in {"unchanged", "found"} ->
         [code |-> v, obj |-> st.obj, rev |-> st.rev]
    [] OTHER -> [code |-> v, obj |-> NoObject, rev |-> 0]

\* The status the client is sent: createHandler answers 201 to any result,
\* UpdateResource 201 only when told the object was created, which Update
\* never says; errors that are no API status become 500.
HttpStatus(op, code) ==
  CASE code \in {"created", "exists"} -> 201
    [] code \in {"updated", "unchanged", "deleted", "found"} -> 200
    [] code = "denied" -> 403
    [] code = "notFound" /\ op = "get" -> 404
    [] OTHER -> 500
============================================================================
