------------------------------ MODULE CbtProto ------------------------------
(***************************************************************************)
(* The protobuf messages of pkg/grpc/cbt.pb.go, and what is left of one    *)
(* when it has been sent.  On the wire a message is the list of its        *)
(* fields, in the order of their numbers, and a field the list of its      *)
(* occurrences.  A field without presence does not occur when it is zero;  *)
(* an optional one, and a message, does not occur when its pointer is nil; *)
(* a repeated one occurs once for each element.                            *)
(***************************************************************************)
EXTENDS Integers, Sequences

CONSTANT Nil   \* a nil pointer: an optional field or a message not set

---------------------------------------------------------------------------
(* The messages, as Go has them.  An instant and a duration are numbers.   *)

Request(base, target, mode, startingToken, maxEntries) ==
  [base |-> base, target |-> target, mode |-> mode,
   startingToken |-> startingToken, maxEntries |-> maxEntries]
Token(token, issuance, ttl) ==
  [token |-> token, issuance |-> issuance, ttl |-> ttl]
Entry(offset, size, dataToken) ==
  [offset |-> offset, size |-> size, dataToken |-> dataToken]
Response(blockDelta, volumeSize, nextToken) ==
  [blockDelta |-> blockDelta, volumeSize |-> volumeSize, nextToken |-> nextToken]

TokenType == [token : STRING, issuance : Int \cup {Nil}, ttl : Nat \cup {Nil}]
EntryType == [offset : Nat, size : Nat, dataToken : TokenType \cup {Nil}]

\* A slice of pointers, any of which may be nil.
BlocksType == Seq(EntryType \cup {Nil})
ResponseType ==
  [blockDelta : {Nil} \cup BlocksType, volumeSize : {Nil} \cup Nat,
   nextToken : {Nil} \cup STRING]

\* A pointer that is nil is none of the values it could point to.
ASSUME NilAssumption ==
  Nil \notin Int \cup STRING \cup TokenType \cup EntryType \cup BlocksType
             \cup ResponseType

\* The getters, of what is set and of what is not.
GetOffset(e)         == IF e = Nil THEN 0   ELSE e.offset
GetBlockSizeBytes(e) == IF e = Nil THEN 0   ELSE e.size
GetDataToken(e)      == IF e = Nil THEN Nil ELSE e.dataToken
GetBlockDelta(m)     == IF m = Nil THEN Nil ELSE m.blockDelta
GetToken(t)        == IF t = Nil THEN ""  ELSE t.token
GetIssuanceTime(t) == IF t = Nil THEN Nil ELSE t.issuance
GetTtlSeconds(t)   == IF t = Nil THEN Nil ELSE t.ttl
GetChangedBlockDeltas(b) == IF b = Nil THEN << >> ELSE b
GetString(pointer) == IF pointer = Nil THEN "" ELSE pointer

---------------------------------------------------------------------------
(* The wire.                                                               *)

\* The occurrences of a scalar, and what they are read as: the last one.
Occurs(value, absent) == IF value = absent THEN << >> ELSE <<value>>
Read(field, absent)   == IF field = << >> THEN absent ELSE field[Len(field)]

EncodeRequest(q) ==
  <<Occurs(q.base, Nil), Occurs(q.target, ""), Occurs(q.mode, ""),
    Occurs(q.startingToken, Nil), Occurs(q.maxEntries, 0)>>
DecodeRequest(w) ==
  Request(Read(w[1], Nil), Read(w[2], ""), Read(w[3], ""), Read(w[4], Nil), Read(w[5], 0))

EncodeToken(t) ==
  <<Occurs(t.token, ""), Occurs(t.issuance, Nil), Occurs(t.ttl, Nil)>>
DecodeToken(w) == Token(Read(w[1], ""), Read(w[2], Nil), Read(w[3], Nil))

\* A nil pointer among the entries is sent as an entry of which no field is.
EncodeEntry(e) ==
  <<Occurs(GetOffset(e), 0), Occurs(GetBlockSizeBytes(e), 0),
    IF GetDataToken(e) = Nil THEN << >> ELSE <<EncodeToken(e.dataToken)>> >>
DecodeEntry(w) ==
  Entry(Read(w[1], 0), Read(w[2], 0),
        IF w[3] = << >> THEN Nil ELSE DecodeToken(w[3][1]))

\* A list without entries is an empty message, and still one.
EncodeBlocks(b) == << [i \in DOMAIN b |-> EncodeEntry(b[i])] >>
DecodeBlocks(w) == [i \in DOMAIN w[1] |-> DecodeEntry(w[1][i])]

EncodeResponse(m) ==
  <<IF m.blockDelta = Nil THEN << >> ELSE <<EncodeBlocks(m.blockDelta)>>,
    Occurs(m.volumeSize, Nil), Occurs(m.nextToken, Nil)>>
DecodeResponse(w) ==
  Response(IF w[1] = << >> THEN Nil ELSE DecodeBlocks(w[1][1]), Read(w[2], Nil), Read(w[3], Nil))

---------------------------------------------------------------------------
(* The call of the service's one method.                                   *)

\* What the driver can tell of a request it received.
AsRead(q) ==
  [base |-> GetString(q.base), target |-> q.target, mode |-> q.mode,
   startingToken |-> GetString(q.startingToken), maxEntries |-> q.maxEntries]

\* The request of the sidecar's handle, and what it looks like to the driver.
EmptyRequest == Request(Nil, "", "", Nil, 0)
Asked == AsRead(DecodeRequest(EncodeRequest(EmptyRequest)))

\* The response as the sidecar receives it.
Received(m) == DecodeResponse(EncodeResponse(m))

\* Server.ListVolumeSnapshotDeltas at instant now, whatever it is asked:
\* three blocks, a page, and the token of a next page that cannot be asked for.
MockResponse(request, now, ttl, size) ==
  LET token == <<"ieE", "wid", "VtS">> IN
    Response([i \in 1..3 |-> Entry(i - 1, size, Token(token[i], now, ttl))],
             2048 * size, "uXo")
=============================================================================
