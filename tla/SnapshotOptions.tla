--------------------------- MODULE SnapshotOptions ---------------------------
(***************************************************************************)
(* The query parameters of a GET on a VolumeSnapshotDelta and the          *)
(* VolumeSnapshotDeltaOption they are converted to                         *)
(* (volumesnapshotdeltaoption_types.go).                                   *)
(***************************************************************************)
EXTENDS Naturals

CONSTANTS
  Unset,         \* the parameter is absent or empty
  Garbage,       \* the parameter is no number, or no boolean
  DefaultLimit   \* the limit that replaces one that is no number: 256

ASSUME DefaultLimitAssumption == DefaultLimit \in Nat
ASSUME MarkersAssumption == {Unset, Garbage} \cap Nat = {}

\* The values of a query, read as the numbers and booleans they spell.
QueryType == [fetchcbd : BOOLEAN \cup {Unset, Garbage},
              limit : Nat \cup {Unset, Garbage},
              offset : Nat \cup {Unset, Garbage}]

OptionType == [fetchCBD : BOOLEAN, limit : Nat, offset : Nat]

Parsed(value, default) == IF value = Garbage THEN default ELSE value

\* The offset is parsed last and stored in v.Limit: v.Offset is never set.
ConvertFromUrlValues(q) ==
  [fetchCBD |-> q.fetchcbd = TRUE,
   limit    |-> IF q.offset # Unset THEN Parsed(q.offset, 0)
                ELSE IF q.limit # Unset THEN Parsed(q.limit, DefaultLimit)
                ELSE 0,
   offset   |-> 0]
=============================================================================
