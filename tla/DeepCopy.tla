------------------------------ MODULE DeepCopy ------------------------------
(***************************************************************************)
(* The generated deep copies of zz_generated.deepcopy.go, and what a write *)
(* through a pointer reaches.  The metadata of an object holds pointers,   *)
(* for which a map of labels stands here, and all of a DriverDiscovery's   *)
(* do; a VolumeSnapshotDelta has others in its status, a slice of pointers *)
(* to entries, and is modelled by those.  What is left of the two, and     *)
(* every field of an entry, is copied by assignment.                       *)
(***************************************************************************)
EXTENDS Naturals, Sequences

\* Memory is named after the one it is made for: the array of owner x is x,
\* and its i-th entry <<x, i>>.  No two places in memory have one name as
\* long as nothing is shared, which is what is to be shown.
Nowhere == << >>

VSD == "volumesnapshotdelta"
DD  == "driverdiscovery"

\* A pointer to a ChangedBlockDelta with the given value, and the nil one.
Pointer(x, i, value) == [at |-> <<x, i>>, value |-> value]
NoValue == 0
NilPointer == [at |-> Nowhere, value |-> NoValue]

\* A slice of pointers, or a map, which has its values in itself.
Nil == [array |-> Nowhere, elems |-> << >>]
Make(kind, x, content) ==
  [array |-> x,
   elems |-> [i \in DOMAIN content |->
                IF kind = VSD /\ content[i] # NoValue
                  THEN Pointer(x, i, content[i])
                  ELSE [NilPointer EXCEPT !.value = content[i]]]]

Content(s) == [i \in DOMAIN s.elems |-> s.elems[i].value]

\* Objects: a kind, a name, and the slice of deltas or the map of labels.
Object(kind, n, s) == [kind |-> kind, name |-> n, ref |-> s]

\* ChangedBlockDelta.DeepCopyInto: the entry and the token in it hold no
\* pointer, so *out = *in does.
CopyEntry(e, x, i) == Pointer(x, i, e.value)

\* A variant that copies the slice by assignment, as *out = *in does.
CopyStatusByAssignment(s, x) == s

\* A variant that copies the array and not what its elements point to.
CopyStatusSharingEntries(s, x) ==
  IF s = Nil THEN Nil ELSE [s EXCEPT !.array = x]

\* VolumeSnapshotDeltaStatus.DeepCopyInto: a nil slice stays nil; the array
\* is made anew, and each element that is not nil points to a new entry.
CopyStatus(s, x) ==
  IF s = Nil THEN Nil
  ELSE [array |-> x,
        elems |-> [i \in DOMAIN s.elems |->
                     IF s.elems[i] = NilPointer THEN NilPointer
                                                ELSE CopyEntry(s.elems[i], x, i)]]

\* VolumeSnapshotDelta.DeepCopyInto.
CopyDelta(o, x) == [o EXCEPT !.ref = CopyStatus(@, x)]

\* ObjectMeta.DeepCopyInto: a nil map stays nil, the values need no copy.
CopyLabels(s, x) == IF s = Nil THEN Nil ELSE [s EXCEPT !.array = x]

\* DriverDiscovery.DeepCopyInto: the spec and the service in it hold no
\* pointer, the metadata copies itself.
CopyDriverDiscovery(o, x) == [o EXCEPT !.ref = CopyLabels(@, x)]

\* DeepCopyObject of the one and the other.
CopyObject(o, x) == IF o.kind = VSD THEN CopyDelta(o, x) ELSE CopyDriverDiscovery(o, x)

\* The two lists: their items are copied one by one into a new array.  (Of a
\* list one item is kept here, so all of them may be made for one owner.)
CopyDeltaList(items, x) == [i \in DOMAIN items |-> CopyDelta(items[i], x)]
CopyDriverDiscoveryList(items, x) ==
  [i \in DOMAIN items |-> CopyDriverDiscovery(items[i], x)]

\* DeepCopyObject of a list of the given kind.
CopyList(kind, items, x) ==
  IF kind = VSD THEN CopyDeltaList(items, x) ELSE CopyDriverDiscoveryList(items, x)

\* What an object is after value is written to the entry at address e, or a
\* value or the nil pointer to the i-th element of the array or map a.
WriteEntry(o, e, value) ==
  LET s == o.ref IN
    [o EXCEPT !.ref =
       [array |-> s.array,
        elems |-> [i \in DOMAIN s.elems |->
                     IF s.elems[i].at = e THEN [at |-> e, value |-> value]
                                          ELSE s.elems[i]]]]

WriteElement(o, a, i, value) ==
  LET s == o.ref IN
    IF s.array # a THEN o
    ELSE [o EXCEPT !.ref =
            [array |-> a,
             elems |-> [s.elems EXCEPT ![i] = [NilPointer EXCEPT !.value = value]]]]
=============================================================================
