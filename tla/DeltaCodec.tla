----------------------------- MODULE DeltaCodec -----------------------------
(***************************************************************************)
(* The forms a list of changed blocks takes on its way from the driver to  *)
(* the client: the protobuf messages of CbtProto, the types of             *)
(* pkg/apis/cbt/v1alpha1 and their JSON.  Each hop is an operator; the     *)
(* hops are applied by DeltaFetch.  Instants and durations are counted in  *)
(* ticks, of which a second has several: a protobuf time is exact, a       *)
(* metav1.Time in JSON is a whole second.                                  *)
(***************************************************************************)
EXTENDS CbtProto

CONSTANTS
  TicksPerSecond,
  MaxDuration      \* the largest time.Duration, which AsDuration saturates at

ASSUME ClockAssumption == /\ TicksPerSecond \in Nat \ {0}
                          /\ MaxDuration \in Nat

Epoch == 0   \* 1970-01-01T00:00:00Z

---------------------------------------------------------------------------
(* The types of the API.                                                   *)

Delta(offset, size, token, issuance, ttl) ==
  [offset |-> offset, size |-> size, token |-> token, issuance |-> issuance, ttl |-> ttl]

AsTime(ts) == IF ts = Nil THEN Epoch ELSE ts

AsDuration(d) ==
  IF d = Nil THEN 0 ELSE IF d > MaxDuration THEN MaxDuration ELSE d

\* What handle of the sidecar makes of a response: the token of the next page
\* is dropped, and "no block volume" becomes "no changes".
Converted(response) ==
  LET deltas == GetChangedBlockDeltas(GetBlockDelta(response))
      ToDelta(e) ==
        LET t == GetDataToken(e) IN
          Delta(GetOffset(e), GetBlockSizeBytes(e), GetToken(t),
                AsTime(GetIssuanceTime(t)), AsDuration(GetTtlSeconds(t)))
  IN [i \in 1..Len(deltas) |-> ToDelta(deltas[i])]

---------------------------------------------------------------------------
(* JSON.                                                                   *)

\* A variant that rounds up to the next second.
FormatTimeRoundingUp(t) == -((-t) \div TicksPerSecond)

\* RFC 3339 without a fraction: the seconds since the epoch.
FormatTime(t) == t \div TicksPerSecond
ParseTime(s) == s * TicksPerSecond

\* A metav1.Duration is written with its fraction and read back exactly.
Marshal(deltas) ==
  [i \in DOMAIN deltas |-> [deltas[i] EXCEPT !.issuance = FormatTime(@)]]
Unmarshal(json) ==
  [i \in DOMAIN json |-> [json[i] EXCEPT !.issuance = ParseTime(@)]]

---------------------------------------------------------------------------
(* What a reader of the result may conclude from it.                       *)

Expiry(delta) == delta.issuance + delta.ttl

\* The expiry the driver meant; a block without token never has one.
MeantExpiry(entry) ==
  LET t == GetDataToken(entry) IN
    AsTime(GetIssuanceTime(t)) + (IF GetTtlSeconds(t) = Nil THEN 0 ELSE t.ttl)

\* The same blocks in the same order with the same tokens.
SameBlocks(deltas, response) ==
  LET entries == GetChangedBlockDeltas(response.blockDelta) IN
    /\ Len(deltas) = Len(entries)
    /\ \A i \in DOMAIN entries :
         /\ deltas[i].offset = GetOffset(entries[i])
         /\ deltas[i].size   = GetBlockSizeBytes(entries[i])
         /\ deltas[i].token  = GetToken(GetDataToken(entries[i]))

\* No token is said to live longer than it does, nor a second less, unless
\* its life is longer than a time.Duration can say.
SameLives(deltas, response) ==
  LET entries == GetChangedBlockDeltas(response.blockDelta) IN
    \A i \in DOMAIN deltas \cap DOMAIN entries :
      /\ Expiry(deltas[i]) <= MeantExpiry(entries[i])
      /\ \/ Expiry(deltas[i]) > MeantExpiry(entries[i]) - TicksPerSecond
         \/ deltas[i].ttl = MaxDuration
=============================================================================
