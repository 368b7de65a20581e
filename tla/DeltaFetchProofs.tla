-------------------------- MODULE DeltaFetchProofs --------------------------
(***************************************************************************)
(* Proofs about DeltaFetch and the codec it is built from.  First, what    *)
(* the hops of CbtProto and DeltaCodec leave of a response, for every      *)
(* response of the driver's and every resolution of the clock.  Then the   *)
(* handler, for every set of GETs, every answer a driver can give and any  *)
(* number of changes of the object.                                        *)
(***************************************************************************)
EXTENDS DeltaFetch, TLAPS

EntriesOf(m) == GetChangedBlockDeltas(m.blockDelta)

\* Converted's element for the entry e.
AsDelta(e) ==
  Delta(GetOffset(e), GetBlockSizeBytes(e), GetToken(GetDataToken(e)),
        AsTime(GetIssuanceTime(GetDataToken(e))),
        AsDuration(GetTtlSeconds(GetDataToken(e))))

\* The provers do not know that a literal is a string, so "" is named.
DeltaType ==
  [offset : Nat, size : Nat, token : STRING \cup {""}, issuance : Int, ttl : Nat]

---------------------------------------------------------------------------
(* The wire.                                                               *)

LEMMA ReadOccurs ==
  ASSUME NEW value, NEW absent
  PROVE  Read(Occurs(value, absent), absent) = value
BY DEF Read, Occurs

LEMMA TokenRoundTrip ==
  ASSUME NEW t \in TokenType
  PROVE  DecodeToken(EncodeToken(t)) = t
<1>1. DecodeToken(EncodeToken(t)) = Token(t.token, t.issuance, t.ttl)
  BY ReadOccurs DEF DecodeToken, EncodeToken
<1> QED
  BY <1>1 DEF Token, TokenType

\* An entry arrives with the values its getters had; a nil one arrives too.
LEMMA EntryRoundTrip ==
  ASSUME NEW e \in EntryType \cup {Nil}
  PROVE  DecodeEntry(EncodeEntry(e))
           = Entry(GetOffset(e), GetBlockSizeBytes(e), GetDataToken(e))
<1> DEFINE field == EncodeEntry(e)[3]
<1>1. field = IF GetDataToken(e) = Nil THEN << >> ELSE <<EncodeToken(e.dataToken)>>
  BY DEF EncodeEntry
<1>2. DecodeEntry(EncodeEntry(e))
        = Entry(GetOffset(e), GetBlockSizeBytes(e),
                IF field = << >> THEN Nil ELSE DecodeToken(field[1]))
  BY ReadOccurs DEF DecodeEntry, EncodeEntry
<1>3. GetDataToken(e) # Nil =>
        e.dataToken \in TokenType /\ GetDataToken(e) = e.dataToken
  BY DEF GetDataToken, EntryType
<1>4. (IF field = << >> THEN Nil ELSE DecodeToken(field[1])) = GetDataToken(e)
  BY <1>1, <1>3, TokenRoundTrip
<1> QED
  BY <1>2, <1>4

LEMMA GettersType ==
  ASSUME NEW e \in EntryType \cup {Nil}
  PROVE  /\ GetOffset(e) \in Nat
         /\ GetBlockSizeBytes(e) \in Nat
         /\ GetDataToken(e) \in TokenType \cup {Nil}
BY DEF EntryType, GetOffset, GetBlockSizeBytes, GetDataToken

LEMMA TokenGettersType ==
  ASSUME NEW t \in TokenType \cup {Nil}
  PROVE  /\ GetToken(t) \in STRING \cup {""}
         /\ GetIssuanceTime(t) \in Int \cup {Nil}
         /\ GetTtlSeconds(t) \in Nat \cup {Nil}
<1>1. CASE t = Nil
  BY <1>1 DEF GetToken, GetIssuanceTime, GetTtlSeconds
<1>2. CASE t # Nil
  BY <1>2 DEF TokenType, GetToken, GetIssuanceTime, GetTtlSeconds
<1> QED
  BY <1>1, <1>2

\* What is received where e was sent.
Arrived(e) == Entry(GetOffset(e), GetBlockSizeBytes(e), GetDataToken(e))

LEMMA ArrivedType ==
  ASSUME NEW e \in EntryType \cup {Nil}
  PROVE  /\ Arrived(e) \in EntryType
         /\ GetOffset(Arrived(e)) = GetOffset(e)
         /\ GetBlockSizeBytes(Arrived(e)) = GetBlockSizeBytes(e)
         /\ GetDataToken(Arrived(e)) = GetDataToken(e)
<1>1. Arrived(e) \in EntryType
  BY GettersType DEF Arrived, Entry, EntryType
<1>2. Arrived(e) # Nil
  BY <1>1, NilAssumption
<1> QED
  BY <1>1, <1>2
  DEF Arrived, Entry, GetOffset, GetBlockSizeBytes, GetDataToken

LEMMA BlocksRoundTrip ==
  ASSUME NEW b \in BlocksType
  PROVE  /\ DecodeBlocks(EncodeBlocks(b)) = [i \in 1..Len(b) |-> Arrived(b[i])]
         /\ DecodeBlocks(EncodeBlocks(b)) \in BlocksType
<1>1. DOMAIN b = 1..Len(b) /\ Len(b) \in Nat
       /\ \A i \in 1..Len(b) : b[i] \in EntryType \cup {Nil}
  BY DEF BlocksType
<1>2. EncodeBlocks(b)[1] = [i \in DOMAIN b |-> EncodeEntry(b[i])]
  BY DEF EncodeBlocks
<1>3. DecodeBlocks(EncodeBlocks(b))
        = [i \in 1..Len(b) |-> DecodeEntry(EncodeEntry(b[i]))]
  BY <1>1, <1>2 DEF DecodeBlocks
<1>4. \A i \in 1..Len(b) : DecodeEntry(EncodeEntry(b[i])) = Arrived(b[i])
  BY <1>1, EntryRoundTrip DEF Arrived
<1>5. DecodeBlocks(EncodeBlocks(b)) = [i \in 1..Len(b) |-> Arrived(b[i])]
  BY <1>3, <1>4
<1>6. \A i \in 1..Len(b) : Arrived(b[i]) \in EntryType \cup {Nil}
  BY <1>1, ArrivedType
<1>7. [i \in 1..Len(b) |-> Arrived(b[i])] \in Seq(EntryType \cup {Nil})
  BY <1>1, <1>6
<1> QED
  BY <1>5, <1>7 DEF BlocksType

\* The receiver has as many entries as were sent, each as it was sent.
LEMMA EntriesReceived ==
  ASSUME NEW m \in ResponseType
  PROVE  /\ EntriesOf(m) \in BlocksType
         /\ GetChangedBlockDeltas(GetBlockDelta(Received(m)))
              = [i \in 1..Len(EntriesOf(m)) |-> Arrived(EntriesOf(m)[i])]
<1> DEFINE field == EncodeResponse(m)[1]
           blocks == IF field = << >> THEN Nil ELSE DecodeBlocks(field[1])
<1>1. /\ m.blockDelta \in {Nil} \cup BlocksType
      /\ m.volumeSize \in {Nil} \cup Nat
      /\ m.nextToken \in {Nil} \cup STRING
  BY DEF ResponseType
<1>2. << >> \in BlocksType /\ Nil \notin BlocksType
  BY NilAssumption DEF BlocksType
<1>3. Received(m) = Response(blocks, m.volumeSize, m.nextToken)
  BY ReadOccurs DEF Received, DecodeResponse, EncodeResponse
<1>4. field = IF m.blockDelta = Nil THEN << >> ELSE <<EncodeBlocks(m.blockDelta)>>
  BY DEF EncodeResponse
<1>5. blocks = IF m.blockDelta = Nil THEN Nil
               ELSE DecodeBlocks(EncodeBlocks(m.blockDelta))
  BY <1>4
<1>6. blocks \in {Nil} \cup BlocksType
  BY <1>1, <1>5, BlocksRoundTrip
<1>7. GetBlockDelta(Received(m)) = blocks
  <2>1. Received(m) \in ResponseType
    BY <1>1, <1>3, <1>6 DEF Response, ResponseType
  <2>2. Received(m) # Nil
    BY <2>1, NilAssumption
  <2> QED
    BY <1>3, <2>2 DEF GetBlockDelta, Response
<1>8. CASE m.blockDelta = Nil
  <2>1. EntriesOf(m) = << >> /\ GetChangedBlockDeltas(blocks) = << >>
    BY <1>5, <1>8 DEF EntriesOf, GetChangedBlockDeltas
  <2>2. [i \in 1..Len(<< >>) |-> Arrived(<< >>[i])] = << >>
    OBVIOUS
  <2> QED
    BY <1>2, <1>7, <2>1, <2>2
<1>9. CASE m.blockDelta # Nil
  <2>1. EntriesOf(m) = m.blockDelta /\ EntriesOf(m) \in BlocksType
    BY <1>1, <1>9 DEF EntriesOf, GetChangedBlockDeltas
  <2>2. blocks = DecodeBlocks(EncodeBlocks(EntriesOf(m)))
    BY <1>5, <1>9, <2>1
  <2>3. blocks # Nil
    BY <1>2, <2>1, <2>2, BlocksRoundTrip
  <2> QED
    BY <1>7, <2>1, <2>2, <2>3, BlocksRoundTrip DEF GetChangedBlockDeltas
<1> QED
  BY <1>8, <1>9

---------------------------------------------------------------------------
(* The conversions.                                                        *)

LEMMA AsTimeType ==
  ASSUME NEW ts \in Int \cup {Nil}
  PROVE  AsTime(ts) \in Int
BY DEF AsTime, Epoch

\* A duration is cut off at the longest there is, which only shortens it.
LEMMA AsDurationSaturates ==
  /\ AsDuration(Nil) = 0
  /\ \A d \in Nat : /\ AsDuration(d) \in Nat
                    /\ AsDuration(d) <= d
                    /\ AsDuration(d) = d \/ AsDuration(d) = MaxDuration
<1>1. \A d \in Nat : d # Nil
  BY NilAssumption
<1> QED
  BY <1>1, ClockAssumption DEF AsDuration

LEMMA AsDeltaType ==
  ASSUME NEW e \in EntryType \cup {Nil}
  PROVE  AsDelta(e) \in DeltaType
<1> DEFINE t == GetDataToken(e)
<1>1. t \in TokenType \cup {Nil}
  BY GettersType
<1>2. /\ GetToken(t) \in STRING \cup {""}
      /\ GetIssuanceTime(t) \in Int \cup {Nil}
      /\ GetTtlSeconds(t) \in Nat \cup {Nil}
  BY <1>1, TokenGettersType
<1>3. AsTime(GetIssuanceTime(t)) \in Int
  BY <1>2, AsTimeType
<1>4. AsDuration(GetTtlSeconds(t)) \in Nat
  <2>1. CASE GetTtlSeconds(t) = Nil
    BY <2>1, AsDurationSaturates
  <2>2. CASE GetTtlSeconds(t) \in Nat
    BY <2>2, AsDurationSaturates
  <2> QED
    BY <1>2, <2>1, <2>2
<1> QED
  BY <1>2, <1>3, <1>4, GettersType DEF AsDelta, Delta, DeltaType

\* The sidecar converts what arrived as it would what was sent.
LEMMA ConvertedReceived ==
  ASSUME NEW m \in ResponseType
  PROVE  /\ Converted(Received(m))
              = [i \in 1..Len(EntriesOf(m)) |-> AsDelta(EntriesOf(m)[i])]
         /\ Converted(Received(m)) \in Seq(DeltaType)
<1> DEFINE entries  == EntriesOf(m)
           received == GetChangedBlockDeltas(GetBlockDelta(Received(m)))
<1>1. /\ Len(entries) \in Nat
      /\ \A i \in 1..Len(entries) : entries[i] \in EntryType \cup {Nil}
  BY EntriesReceived DEF BlocksType
<1>2. received = [i \in 1..Len(entries) |-> Arrived(entries[i])]
  BY EntriesReceived
<1>3. Len(received) = Len(entries)
  BY <1>1, <1>2
<1>4. \A i \in 1..Len(entries) :
        received[i] = Arrived(entries[i]) /\ AsDelta(received[i]) = AsDelta(entries[i])
  BY <1>1, <1>2, ArrivedType DEF AsDelta
<1>5. Converted(Received(m)) = [i \in 1..Len(received) |-> AsDelta(received[i])]
  BY DEF Converted, AsDelta
<1>6. Converted(Received(m)) = [i \in 1..Len(entries) |-> AsDelta(entries[i])]
  BY <1>3, <1>4, <1>5
<1>7. \A i \in 1..Len(entries) : AsDelta(entries[i]) \in DeltaType
  BY <1>1, AsDeltaType
<1> QED
  BY <1>1, <1>6, <1>7

---------------------------------------------------------------------------
(* JSON.                                                                   *)

\* A time in JSON is the last whole second before it or at it.
LEMMA FormatTimeRoundsDown ==
  ASSUME NEW t \in Int
  PROVE  /\ ParseTime(FormatTime(t)) \in Int
         /\ ParseTime(FormatTime(t)) <= t
         /\ t < ParseTime(FormatTime(t)) + TicksPerSecond
<1>1. TicksPerSecond \in Nat \ {0}
  BY ClockAssumption
<1> QED
  BY <1>1 DEF ParseTime, FormatTime

LEMMA WholeSecondsStay ==
  ASSUME NEW t \in Int
  PROVE  ParseTime(FormatTime(ParseTime(FormatTime(t)))) = ParseTime(FormatTime(t))
<1>1. TicksPerSecond \in Nat \ {0}
  BY ClockAssumption
<1>2. \A s \in Int : (s * TicksPerSecond) \div TicksPerSecond = s
  BY <1>1
<1>3. t \div TicksPerSecond \in Int
  BY <1>1
<1> QED
  BY <1>2, <1>3 DEF ParseTime, FormatTime

\* The delta a reader of the JSON has.
Truncated(delta) == [delta EXCEPT !.issuance = ParseTime(FormatTime(@))]

LEMMA TruncatedFields ==
  ASSUME NEW d \in DeltaType
  PROVE  /\ Truncated(d) \in DeltaType
         /\ Truncated(d).offset = d.offset
         /\ Truncated(d).size = d.size
         /\ Truncated(d).token = d.token
         /\ Truncated(d).issuance = ParseTime(FormatTime(d.issuance))
         /\ Truncated(d).ttl = d.ttl
         /\ Truncated(Truncated(d)) = Truncated(d)
BY FormatTimeRoundsDown, WholeSecondsStay DEF Truncated, DeltaType

LEMMA JsonRoundTrip ==
  ASSUME NEW deltas \in Seq(DeltaType)
  PROVE  /\ Unmarshal(Marshal(deltas)) = [i \in 1..Len(deltas) |-> Truncated(deltas[i])]
         /\ Unmarshal(Marshal(deltas)) \in Seq(DeltaType)
         /\ Unmarshal(Marshal(Unmarshal(Marshal(deltas)))) = Unmarshal(Marshal(deltas))
<1> DEFINE read == [i \in 1..Len(deltas) |-> Truncated(deltas[i])]
<1>1. Len(deltas) \in Nat /\ \A i \in 1..Len(deltas) : deltas[i] \in DeltaType
  OBVIOUS
<1>2. ASSUME NEW ds \in Seq(DeltaType)
      PROVE  Unmarshal(Marshal(ds)) = [i \in 1..Len(ds) |-> Truncated(ds[i])]
  <2>1. DOMAIN ds = 1..Len(ds) /\ \A i \in 1..Len(ds) : ds[i] \in DeltaType
    OBVIOUS
  <2>2. /\ DOMAIN Marshal(ds) = 1..Len(ds)
        /\ \A i \in 1..Len(ds) :
             Marshal(ds)[i] = [ds[i] EXCEPT !.issuance = FormatTime(@)]
    BY <2>1 DEF Marshal
  <2>3. Unmarshal(Marshal(ds))
          = [i \in 1..Len(ds) |-> [Marshal(ds)[i] EXCEPT !.issuance = ParseTime(@)]]
    BY <2>2 DEF Unmarshal
  <2>4. \A i \in 1..Len(ds) :
          [Marshal(ds)[i] EXCEPT !.issuance = ParseTime(@)] = Truncated(ds[i])
    BY <2>1, <2>2 DEF Truncated, DeltaType
  <2> QED
    BY <2>3, <2>4
<1>3. read \in Seq(DeltaType)
  BY <1>1, TruncatedFields
<1>4. Unmarshal(Marshal(read)) = [i \in 1..Len(read) |-> Truncated(read[i])]
  BY <1>2, <1>3
<1>5. Len(read) = Len(deltas) /\ \A i \in 1..Len(deltas) : Truncated(read[i]) = read[i]
  BY <1>1, TruncatedFields
<1>6. Unmarshal(Marshal(read)) = read
  BY <1>4, <1>5
<1> QED
  BY <1>2, <1>3, <1>6

---------------------------------------------------------------------------
(* All the hops.                                                           *)

\* What the API server reads from a sidecar whose driver answered m.
Shown(m) == Unmarshal(Marshal(Converted(Received(m))))

LEMMA ShownEntries ==
  ASSUME NEW m \in ResponseType
  PROVE  /\ Len(EntriesOf(m)) \in Nat
         /\ DOMAIN EntriesOf(m) = 1..Len(EntriesOf(m))
         /\ \A i \in 1..Len(EntriesOf(m)) : EntriesOf(m)[i] \in EntryType \cup {Nil}
         /\ Shown(m) = [i \in 1..Len(EntriesOf(m)) |->
                          Truncated(AsDelta(EntriesOf(m)[i]))]
<1> DEFINE deltas == Converted(Received(m))
<1>1. /\ Len(EntriesOf(m)) \in Nat
      /\ DOMAIN EntriesOf(m) = 1..Len(EntriesOf(m))
      /\ \A i \in 1..Len(EntriesOf(m)) : EntriesOf(m)[i] \in EntryType \cup {Nil}
  BY EntriesReceived DEF BlocksType
<1>2. /\ deltas = [i \in 1..Len(EntriesOf(m)) |-> AsDelta(EntriesOf(m)[i])]
      /\ deltas \in Seq(DeltaType)
  BY ConvertedReceived
<1>3. Len(deltas) = Len(EntriesOf(m))
      /\ \A i \in 1..Len(EntriesOf(m)) : deltas[i] = AsDelta(EntriesOf(m)[i])
  BY <1>1, <1>2
<1>4. Shown(m) = [i \in 1..Len(deltas) |-> Truncated(deltas[i])]
  BY <1>2, JsonRoundTrip DEF Shown
<1> QED
  BY <1>1, <1>3, <1>4

\* The second JSON, from the API server to its client, loses nothing more.
LEMMA SecondHopIsExact ==
  ASSUME NEW m \in ResponseType
  PROVE  Unmarshal(Marshal(Shown(m))) = Shown(m)
BY ConvertedReceived, JsonRoundTrip DEF Shown

\* The blocks of a response survive the wire, the conversion and the JSON:
\* none is lost, added or moved, and each keeps its offset, size and token.
THEOREM HopsKeepBlocks ==
  ASSUME NEW m \in ResponseType
  PROVE  SameBlocks(Shown(m), m)
<1>1. Len(Shown(m)) = Len(EntriesOf(m))
  BY ShownEntries
<1>2. ASSUME NEW i \in 1..Len(EntriesOf(m))
      PROVE  /\ Shown(m)[i].offset = GetOffset(EntriesOf(m)[i])
             /\ Shown(m)[i].size   = GetBlockSizeBytes(EntriesOf(m)[i])
             /\ Shown(m)[i].token  = GetToken(GetDataToken(EntriesOf(m)[i]))
  <2>1. AsDelta(EntriesOf(m)[i]) \in DeltaType
    BY ShownEntries, AsDeltaType
  <2>2. Shown(m)[i] = Truncated(AsDelta(EntriesOf(m)[i]))
    BY ShownEntries
  <2> QED
    BY <2>1, <2>2, TruncatedFields DEF AsDelta, Delta
<1> QED
  BY <1>1, <1>2, ShownEntries DEF SameBlocks, EntriesOf

\* The lives of the data tokens survive but for less than a second at their
\* end, however fine the clock and whatever the driver left unset.
THEOREM HopsKeepLives ==
  ASSUME NEW m \in ResponseType
  PROVE  SameLives(Shown(m), m)
<1>1. SUFFICES ASSUME NEW i \in 1..Len(EntriesOf(m))
               PROVE  /\ Expiry(Shown(m)[i]) <= MeantExpiry(EntriesOf(m)[i])
                      /\ \/ Expiry(Shown(m)[i]) > MeantExpiry(EntriesOf(m)[i]) - TicksPerSecond
                         \/ Shown(m)[i].ttl = MaxDuration
  BY ShownEntries DEF SameLives, EntriesOf
<1> DEFINE e == EntriesOf(m)[i]
           t == GetDataToken(e)
           issued == AsTime(GetIssuanceTime(t))
           life == GetTtlSeconds(t)
           ttl == AsDuration(life)
           meant == IF life = Nil THEN 0 ELSE life
<1>2. e \in EntryType \cup {Nil} /\ t \in TokenType \cup {Nil}
  BY ShownEntries, GettersType
<1>3. issued \in Int
  BY <1>2, TokenGettersType, AsTimeType
<1>4. meant \in Nat /\ ttl \in Nat /\ ttl <= meant /\ (ttl = meant \/ ttl = MaxDuration)
  <2>1. life \in Nat \cup {Nil}
    BY <1>2, TokenGettersType
  <2> HIDE DEF life
  <2>2. CASE life = Nil
    BY <2>1, <2>2, AsDurationSaturates
  <2>3. CASE life # Nil
    <3>1. life \in Nat /\ meant = life
      BY <2>1, <2>3
    <3>2. /\ ttl \in Nat
          /\ ttl <= life
          /\ ttl = life \/ ttl = MaxDuration
      BY <2>1, <2>3, AsDurationSaturates
    <3> QED
      BY <3>1, <3>2
  <2> QED
    BY <2>2, <2>3
<1>5. Shown(m)[i].ttl = ttl /\ Shown(m)[i].issuance = ParseTime(FormatTime(issued))
  <2>1. AsDelta(e) \in DeltaType
    BY <1>2, AsDeltaType
  <2>2. Shown(m)[i] = Truncated(AsDelta(e))
    BY ShownEntries
  <2> QED
    BY <2>1, <2>2, TruncatedFields DEF AsDelta, Delta
<1>6. Expiry(Shown(m)[i]) = ParseTime(FormatTime(issued)) + ttl
      /\ MeantExpiry(e) = issued + meant
  BY <1>5 DEF Expiry, MeantExpiry, GetTtlSeconds
<1>7. TicksPerSecond \in Nat
  BY ClockAssumption
<1> DEFINE read == ParseTime(FormatTime(issued))
<1>8. read \in Int /\ read <= issued /\ issued < read + TicksPerSecond
  BY <1>3, FormatTimeRoundsDown
<1>9. /\ Shown(m)[i].ttl = ttl
      /\ Expiry(Shown(m)[i]) = read + ttl
      /\ MeantExpiry(e) = issued + meant
  BY <1>5, <1>6
<1> HIDE DEF e, t, issued, life, ttl, meant, read
<1>10. /\ Expiry(Shown(m)[i]) <= MeantExpiry(e)
       /\ \/ Expiry(Shown(m)[i]) > MeantExpiry(e) - TicksPerSecond
          \/ Shown(m)[i].ttl = MaxDuration
  BY <1>3, <1>4, <1>7, <1>8, <1>9
<1> QED
  BY <1>10 DEF e

---------------------------------------------------------------------------
(* The handler.                                                            *)

\* Nothing has happened to a GET that is not made.
NotBegun ==
  \A r \in Requests :
    pc[r] = "idle" =>
      said[r] = Nil /\ wire[r] = Nothing("none") /\ client[r] = Waiting

\* Only a GET with fetchcbd comes past the object, and only for such a one
\* has a driver said anything.
FetchesAreAsked ==
  \A r \in Requests :
    pc[r] \in {"discover", "dial", "read"} \/ said[r] # Nil => opts[r].fetchCBD

\* Until the handler returns, the timeout filter is the only one who answers.
OnlyTimeouts ==
  \A r \in Requests : pc[r] # "done" => client[r].code \in {0, 504}

\* The list that is on its way is what the driver said.
WireIsSaid ==
  \A r \in Requests :
    wire[r].kind = "list" => said[r] # Nil /\ wire[r].json = Body(said[r])

\* So is the list a client has.
ClientIsSaid ==
  \A r \in Requests :
    client[r].code = 200 /\ opts[r].fetchCBD =>
      said[r] # Nil /\ client[r].deltas = Shown(said[r])

\* The version Connect read is neither older than the request nor unborn.
ResultIsCurrent ==
  \A r \in Requests :
    /\ since[r] <= object.version
    /\ pc[r] \in {"discover", "dial", "read"} =>
         since[r] <= result[r] /\ result[r] <= object.version

\* Every reply there can be.
ReplyType == [code : {0, 200, 404, 500, 504}, version : 0..MaxVersion,
              deltas : Lists]

IInv == /\ TypeOK
        /\ NotBegun
        /\ FetchesAreAsked
        /\ OnlyTimeouts
        /\ WireIsSaid
        /\ ClientIsSaid
        /\ ResultIsCurrent
        /\ ReadIsCurrent

---------------------------------------------------------------------------
(* The lists there can be.                                                 *)

LEMMA ResponseTypes == Nil \notin Responses /\ Responses \subseteq ResponseType
BY AnswersAssumption, NilAssumption

\* What the handler reads from a body, and what its client reads from the
\* reply, is the same list.
LEMMA BodyIsShown ==
  ASSUME NEW m \in Responses
  PROVE  /\ Body(m) \in Bodies
         /\ Unmarshal(Body(m)) = Shown(m)
         /\ Unmarshal(Marshal(Shown(m))) = Shown(m)
         /\ Shown(m) \in Lists
<1>1. Body(m) \in Bodies
  BY DEF Bodies
<1>2. Unmarshal(Body(m)) = Shown(m)
  BY DEF Body, Shown
<1>3. Unmarshal(Marshal(Shown(m))) = Shown(m)
  BY ResponseTypes, SecondHopIsExact
<1>4. Shown(m) \in Lists
  BY <1>1, <1>2 DEF Lists
<1> QED
  BY <1>1, <1>2, <1>3, <1>4

LEMMA EmptyList == << >> \in Lists
BY DEF Lists

---------------------------------------------------------------------------
(* The invariant is inductive.                                             *)

LEMMA IInvInit == Init => IInv
<1> SUFFICES ASSUME Init PROVE IInv
  OBVIOUS
<1>1. TypeOK
  BY EmptyList, MaxVersionAssumption
  DEF Init, TypeOK, PCs, OptionType, Nothing, Waiting
<1>2. NotBegun /\ FetchesAreAsked /\ OnlyTimeouts /\ WireIsSaid /\ ClientIsSaid
  BY DEF Init, NotBegun, FetchesAreAsked, OnlyTimeouts, WireIsSaid,
         ClientIsSaid, Nothing, Waiting
<1>3. ResultIsCurrent /\ ReadIsCurrent
  BY DEF Init, ResultIsCurrent, ReadIsCurrent, Waiting
<1> QED
  BY <1>1, <1>2, <1>3 DEF IInv

LEMMA ArriveKeeps ==
  ASSUME IInv, NEW r \in Requests, NEW q \in Queries, Arrive(r, q)
  PROVE  IInv'
<1> USE DEF IInv, Arrive, external
<1>1. ConvertFromUrlValues(q) \in OptionType
  BY QueriesAssumption, DefaultLimitAssumption
  DEF QueryType, ConvertFromUrlValues, OptionType, Parsed
<1>2. said[r] = Nil /\ wire[r] = Nothing("none") /\ client[r] = Waiting
  BY DEF NotBegun
<1>3. TypeOK'
  BY <1>1, <1>2 DEF TypeOK, PCs, Nothing
<1>4. NotBegun' /\ FetchesAreAsked' /\ OnlyTimeouts'
  BY <1>2 DEF TypeOK, NotBegun, FetchesAreAsked, OnlyTimeouts, Waiting
<1>5. WireIsSaid' /\ ClientIsSaid'
  BY <1>2 DEF TypeOK, WireIsSaid, ClientIsSaid, Waiting
<1>6. ResultIsCurrent' /\ ReadIsCurrent'
  BY <1>2 DEF TypeOK, ResultIsCurrent, ReadIsCurrent, Waiting
<1> QED
  BY <1>3, <1>4, <1>5, <1>6

\* The handler of r returns with a reply that fits its request.
LEMMA FinishKeeps ==
  ASSUME IInv, NEW r \in Requests, NEW reply \in ReplyType,
         pc[r] \notin {"idle", "done"}, wire[r].kind # "asked",
         Finish(r, reply),
         UNCHANGED <<external, opts, since, wire, said>>,
         result' \in [Requests -> 0..MaxVersion],
         \A s \in Requests \ {r} : result'[s] = result[s],
         reply.code # 0,
         reply.code \in {200, 404} =>
           since[r] <= reply.version /\ reply.version <= object.version,
         reply.code = 200 /\ opts[r].fetchCBD =>
           said[r] # Nil /\ reply.deltas = Shown(said[r])
  PROVE  IInv'
<1> USE DEF IInv, external
<1>1. pc' = [pc EXCEPT ![r] = "done"]
  BY DEF Finish
<1>2. client' \in [Requests -> ReplyType] /\ client'[r] # Waiting
  BY DEF Finish, TypeOK, ReplyType, Waiting
<1>3. \A s \in Requests \ {r} : client'[s] = client[s]
  BY DEF Finish, TypeOK
<1>4. client'[r] \in {reply, client[r]} /\ client[r].code \in {0, 504}
  BY DEF Finish, TypeOK, OnlyTimeouts
<1>5. TypeOK'
  <2>1. pc' \in [Requests -> PCs] /\ client' \in [Requests -> ReplyType]
    BY <1>1, <1>2 DEF TypeOK, PCs
  <2>2. \A s \in Requests : /\ pc'[s] = "done" => client'[s] # Waiting
                            /\ wire'[s].kind = "asked" => pc'[s] = "read"
    BY <1>1, <1>2, <1>3 DEF TypeOK
  <2> QED
    BY <2>1, <2>2 DEF TypeOK, ReplyType
<1>6. NotBegun' /\ FetchesAreAsked' /\ OnlyTimeouts'
  BY <1>1, <1>3 DEF TypeOK, NotBegun, FetchesAreAsked, OnlyTimeouts
<1>7. WireIsSaid'
  BY DEF WireIsSaid
<1>8. ClientIsSaid'
  BY <1>3, <1>4 DEF ClientIsSaid
<1>9. ResultIsCurrent'
  BY <1>1 DEF TypeOK, ResultIsCurrent
<1>10. ReadIsCurrent'
  BY <1>3, <1>4 DEF ReadIsCurrent
<1> QED
  BY <1>5, <1>6, <1>7, <1>8, <1>9, <1>10

\* An error of the handler: http.Error, whatever it is.
LEMMA FailsKeeps ==
  ASSUME IInv, NEW r \in Requests,
         pc[r] \in {"get", "discover", "dial"}, Finish(r, Reply(500, 0, << >>)),
         UNCHANGED <<external, opts, since, result, wire, said>>
  PROVE  IInv'
<1>1. Reply(500, 0, << >>) \in ReplyType /\ Reply(500, 0, << >>).code = 500
  BY EmptyList, MaxVersionAssumption DEF Reply, ReplyType
<1>2. wire[r].kind # "asked" /\ result \in [Requests -> 0..MaxVersion]
  BY DEF IInv, TypeOK
<1> QED
  BY <1>1, <1>2, FinishKeeps

LEMMA GetObjectKeeps ==
  ASSUME IInv, NEW r \in Requests, GetObject(r)
  PROVE  IInv'
<1> USE DEF IInv, GetObject, ReadVersion
<1> DEFINE v == object.version
<1>1. /\ pc[r] = "get"
      /\ result' = [result EXCEPT ![r] = v]
      /\ UNCHANGED <<external, opts, since, wire, said>>
  OBVIOUS
<1>2. /\ v \in 0..MaxVersion
      /\ since[r] \in 0..MaxVersion /\ since[r] <= v
      /\ result' \in [Requests -> 0..MaxVersion]
      /\ \A s \in Requests \ {r} : result'[s] = result[s]
      /\ wire[r].kind # "asked"
      /\ object.status \in Lists
  BY <1>1 DEF TypeOK, ResultIsCurrent
<1>3. CASE ~object.present
  <2>1. Finish(r, Reply(404, v, << >>))
    BY <1>3
  <2>2. Reply(404, v, << >>) \in ReplyType
    BY <1>2, EmptyList DEF Reply, ReplyType
  <2>3. Reply(404, v, << >>).code = 404 /\ Reply(404, v, << >>).version = v
    BY DEF Reply
  <2> QED
    BY <1>1, <1>2, <2>1, <2>2, <2>3, FinishKeeps
<1>4. CASE object.present /\ ~opts[r].fetchCBD
  <2>1. Finish(r, Reply(200, v, object.status))
    BY <1>4
  <2>2. Reply(200, v, object.status) \in ReplyType
    BY <1>2 DEF Reply, ReplyType
  <2>3. Reply(200, v, object.status).code = 200
        /\ Reply(200, v, object.status).version = v
    BY DEF Reply
  <2> QED
    BY <1>1, <1>2, <1>4, <2>1, <2>2, <2>3, FinishKeeps
<1>5. CASE object.present /\ opts[r].fetchCBD
  <2>1. pc' = [pc EXCEPT ![r] = "discover"] /\ client' = client
    BY <1>5 DEF Continue
  <2>2. TypeOK'
    BY <1>1, <1>2, <2>1 DEF TypeOK, PCs, external
  <2>3. NotBegun' /\ FetchesAreAsked' /\ OnlyTimeouts' /\ WireIsSaid' /\ ClientIsSaid'
    BY <1>1, <1>5, <2>1
    DEF TypeOK, NotBegun, FetchesAreAsked, OnlyTimeouts, WireIsSaid, ClientIsSaid
  <2>4. ResultIsCurrent' /\ ReadIsCurrent'
    BY <1>1, <1>2, <2>1 DEF TypeOK, ResultIsCurrent, ReadIsCurrent, external
  <2> QED
    BY <2>2, <2>3, <2>4
<1> QED
  BY <1>3, <1>4, <1>5

LEMMA DiscoverKeeps ==
  ASSUME IInv, NEW r \in Requests, Discover(r)
  PROVE  IInv'
<1> USE DEF IInv, Discover, Continue, external
<1>1. TypeOK'
  BY DEF TypeOK, PCs
<1>2. NotBegun' /\ FetchesAreAsked' /\ OnlyTimeouts' /\ WireIsSaid' /\ ClientIsSaid'
  BY DEF TypeOK, NotBegun, FetchesAreAsked, OnlyTimeouts, WireIsSaid, ClientIsSaid
<1>3. ResultIsCurrent' /\ ReadIsCurrent'
  BY DEF TypeOK, ResultIsCurrent, ReadIsCurrent
<1> QED
  BY <1>1, <1>2, <1>3

LEMMA HttpGetKeeps ==
  ASSUME IInv, NEW r \in Requests, HttpGet(r)
  PROVE  IInv'
<1> USE DEF IInv, HttpGet, Continue, Nothing, external
<1>1. TypeOK'
  BY DEF TypeOK, PCs
<1>2. NotBegun' /\ FetchesAreAsked' /\ OnlyTimeouts' /\ WireIsSaid' /\ ClientIsSaid'
  BY DEF TypeOK, NotBegun, FetchesAreAsked, OnlyTimeouts, WireIsSaid, ClientIsSaid
<1>3. ResultIsCurrent' /\ ReadIsCurrent'
  BY DEF TypeOK, ResultIsCurrent, ReadIsCurrent
<1> QED
  BY <1>1, <1>2, <1>3

\* The one reply that carries a driver's blocks.
LEMMA ReadBodyKeeps ==
  ASSUME IInv, NEW r \in Requests, ReadBody(r)
  PROVE  IInv'
<1> USE DEF IInv, ReadBody
<1> DEFINE read  == Unmarshal(Marshal(StatusOf(Unmarshal(wire[r].json))))
           reply == IF Decodes(r) THEN Reply(200, result[r], read)
                                  ELSE Reply(500, 0, << >>)
<1>1. /\ pc[r] = "read" /\ wire[r].kind # "asked"
      /\ Finish(r, reply)
      /\ UNCHANGED <<external, opts, since, result, wire, said>>
      /\ result \in [Requests -> 0..MaxVersion]
  BY DEF TypeOK
<1>2. CASE Decodes(r)
  <2>1. said[r] \in Responses /\ wire[r].json = Body(said[r])
    BY <1>2 DEF TypeOK, WireIsSaid, Decodes
  <2>2. read = Shown(said[r]) /\ read \in Lists
    BY <2>1, BodyIsShown DEF StatusOf
  <2>3. said[r] # Nil
    BY <2>1, ResponseTypes
  <2> HIDE DEF read
  <2>4. reply = Reply(200, result[r], read)
    BY <1>2
  <2>5. reply \in ReplyType /\ reply.code = 200 /\ reply.version = result[r]
        /\ reply.deltas = read
    BY <1>1, <2>2, <2>4 DEF Reply, ReplyType
  <2>6. since[r] <= result[r] /\ result[r] <= object.version
    BY <1>1 DEF ResultIsCurrent
  <2> HIDE DEF reply
  <2> QED
    BY <1>1, <2>2, <2>3, <2>5, <2>6, FinishKeeps
<1>3. CASE ~Decodes(r)
  <2>1. reply = Reply(500, 0, << >>)
    BY <1>3
  <2>2. reply \in ReplyType /\ reply.code = 500
    BY <2>1, EmptyList, MaxVersionAssumption DEF Reply, ReplyType
  <2> HIDE DEF reply
  <2> QED
    BY <1>1, <2>2, FinishKeeps
<1> QED
  BY <1>2, <1>3

LEMMA RequestTimeoutKeeps ==
  ASSUME IInv, NEW r \in Requests, RequestTimeout(r)
  PROVE  IInv'
<1> USE DEF IInv, RequestTimeout, external
<1>1. Reply(504, 0, << >>) \in ReplyType /\ Reply(504, 0, << >>).code = 504
  BY EmptyList, MaxVersionAssumption DEF Reply, ReplyType
<1>2. Reply(504, 0, << >>) # Waiting
  BY DEF Reply, Waiting
<1>3. TypeOK'
  BY <1>1, <1>2 DEF TypeOK, ReplyType
<1>4. NotBegun' /\ FetchesAreAsked' /\ OnlyTimeouts' /\ WireIsSaid' /\ ClientIsSaid'
  BY <1>1 DEF TypeOK, NotBegun, FetchesAreAsked, OnlyTimeouts, WireIsSaid, ClientIsSaid
<1>5. ResultIsCurrent' /\ ReadIsCurrent'
  BY <1>1 DEF TypeOK, ResultIsCurrent, ReadIsCurrent
<1> QED
  BY <1>3, <1>4, <1>5

\* The answer meets a handler that waits, and a client that has no list.
LEMMA SidecarAnswersKeeps ==
  ASSUME IInv, NEW r \in Requests, SidecarAnswers(r)
  PROVE  IInv'
<1> USE DEF IInv, SidecarAnswers, external
<1>1. PICK m \in Responses : /\ said' = [said EXCEPT ![r] = m]
                            /\ wire' = [wire EXCEPT ![r] = JsonList(Body(m))]
  OBVIOUS
<1>2. pc[r] = "read" /\ opts[r].fetchCBD /\ client[r].code \in {0, 504}
  BY DEF TypeOK, FetchesAreAsked, OnlyTimeouts
<1>3. m # Nil /\ Body(m) \in Bodies
  BY ResponseTypes, BodyIsShown
<1>4. JsonList(Body(m)).kind = "list" /\ JsonList(Body(m)).json = Body(m)
      /\ JsonList(Body(m)) \in [kind : {"none", "asked", "list", "text", "cut"},
                                json : Bodies \cup {<< >>}]
  BY <1>3 DEF JsonList
<1>5. TypeOK'
  BY <1>1, <1>2, <1>4 DEF TypeOK
<1>6. NotBegun' /\ FetchesAreAsked' /\ OnlyTimeouts'
  BY <1>1, <1>2 DEF TypeOK, NotBegun, FetchesAreAsked, OnlyTimeouts
<1>7. WireIsSaid'
  BY <1>1, <1>3, <1>4 DEF TypeOK, WireIsSaid
<1>8. ClientIsSaid'
  BY <1>1, <1>2 DEF TypeOK, ClientIsSaid
<1>9. ResultIsCurrent' /\ ReadIsCurrent'
  BY DEF ResultIsCurrent, ReadIsCurrent
<1> QED
  BY <1>5, <1>6, <1>7, <1>8, <1>9

LEMMA GrpcFailsKeeps ==
  ASSUME IInv, NEW r \in Requests, GrpcFails(r)
  PROVE  IInv'
<1> USE DEF IInv, GrpcFails, Nothing, external
<1>1. TypeOK'
  BY DEF TypeOK
<1>2. NotBegun' /\ FetchesAreAsked' /\ OnlyTimeouts' /\ WireIsSaid' /\ ClientIsSaid'
  BY DEF TypeOK, NotBegun, FetchesAreAsked, OnlyTimeouts, WireIsSaid, ClientIsSaid
<1>3. ResultIsCurrent' /\ ReadIsCurrent'
  BY DEF ResultIsCurrent, ReadIsCurrent
<1> QED
  BY <1>1, <1>2, <1>3

LEMMA SidecarDownKeeps ==
  ASSUME IInv, SidecarDown
  PROVE  IInv'
<1> USE DEF IInv, SidecarDown, Nothing
<1>1. PICK kept \in SUBSET {r \in Requests : wire[r].kind \in {"list", "text"}} :
        wire' = [r \in Requests |-> IF pc[r] = "read" /\ r \notin kept
                                     THEN Nothing("cut") ELSE wire[r]]
  OBVIOUS
<1>2. \A r \in Requests : \/ wire'[r] = wire[r]
                          \/ pc[r] = "read" /\ wire'[r] = Nothing("cut")
  BY <1>1
<1>3. wire' \in [Requests -> [kind : {"none", "asked", "list", "text", "cut"},
                             json : Bodies \cup {<< >>}]]
  BY <1>1 DEF TypeOK
<1>4. TypeOK'
  BY <1>2, <1>3 DEF TypeOK
<1>5. NotBegun' /\ FetchesAreAsked' /\ OnlyTimeouts' /\ WireIsSaid' /\ ClientIsSaid'
  BY <1>2 DEF NotBegun, FetchesAreAsked, OnlyTimeouts, WireIsSaid, ClientIsSaid
<1>6. ResultIsCurrent' /\ ReadIsCurrent'
  BY DEF ResultIsCurrent, ReadIsCurrent
<1> QED
  BY <1>4, <1>5, <1>6

LEMMA PeersKeep ==
  ASSUME IInv, SidecarUp \/ DriverChanges
  PROVE  IInv'
<1> USE DEF IInv, SidecarUp, DriverChanges
<1>1. TypeOK'
  <2>1. CASE SidecarUp
    BY <2>1 DEF TypeOK
  <2>2. CASE DriverChanges
    BY <2>2 DEF TypeOK
  <2> QED
    BY <2>1, <2>2
<1>2. NotBegun' /\ FetchesAreAsked' /\ OnlyTimeouts' /\ WireIsSaid' /\ ClientIsSaid'
  BY DEF NotBegun, FetchesAreAsked, OnlyTimeouts, WireIsSaid, ClientIsSaid
<1>3. ResultIsCurrent' /\ ReadIsCurrent'
  BY DEF ResultIsCurrent, ReadIsCurrent
<1> QED
  BY <1>1, <1>2, <1>3

\* The object's version only grows, so what was not too new stays so.
LEMMA ObjectChangesKeeps ==
  ASSUME IInv, ObjectChanges
  PROVE  IInv'
<1> USE DEF IInv, ObjectChanges
<1>1. /\ object'.version = object.version + 1
      /\ object' \in [version : 0..MaxVersion, present : BOOLEAN, status : Lists]
  <2>1. object.version + 1 \in 0..MaxVersion
    BY MaxVersionAssumption DEF TypeOK
  <2>2. \A r \in Requests : client[r].deltas \in Lists
    BY DEF TypeOK
  <2>3. PICK deltas \in Lists, present \in BOOLEAN :
          object' = [version |-> object.version + 1, present |-> present,
                     status |-> deltas]
    <3>1. CASE object' = [version |-> object.version + 1, present |-> FALSE,
                          status |-> << >>]
      BY <3>1, EmptyList
    <3>2. ASSUME NEW ds \in {<< >>} \cup {client[r].deltas : r \in Requests},
                 object' = [version |-> object.version + 1, present |-> TRUE,
                            status |-> ds]
          PROVE  \E deltas \in Lists, present \in BOOLEAN :
                   object' = [version |-> object.version + 1, present |-> present,
                              status |-> deltas]
      <4>1. ds \in Lists
        BY <2>2, EmptyList
      <4> QED
        BY <3>2, <4>1
    <3> QED
      BY <3>1, <3>2
  <2> QED
    BY <2>1, <2>3
<1>2. TypeOK'
  BY <1>1 DEF TypeOK
<1>3. NotBegun' /\ FetchesAreAsked' /\ OnlyTimeouts' /\ WireIsSaid' /\ ClientIsSaid'
  BY DEF NotBegun, FetchesAreAsked, OnlyTimeouts, WireIsSaid, ClientIsSaid
<1>4. ResultIsCurrent' /\ ReadIsCurrent'
  BY <1>1, MaxVersionAssumption DEF TypeOK, ResultIsCurrent, ReadIsCurrent
<1> QED
  BY <1>2, <1>3, <1>4

LEMMA IInvNext == IInv /\ [Next]_vars => IInv'
<1> SUFFICES ASSUME IInv, [Next]_vars PROVE IInv'
  OBVIOUS
<1>1. ASSUME NEW r \in Requests, NEW q \in Queries, Arrive(r, q) PROVE IInv'
  BY <1>1, ArriveKeeps
<1>2. ASSUME NEW r \in Requests, GetObject(r) PROVE IInv'
  BY <1>2, GetObjectKeeps
<1>3. ASSUME NEW r \in Requests, GetFails(r) PROVE IInv'
  BY <1>3, FailsKeeps DEF GetFails
<1>4. ASSUME NEW r \in Requests, Discover(r) PROVE IInv'
  BY <1>4, DiscoverKeeps
<1>5. ASSUME NEW r \in Requests, DiscoverFails(r) PROVE IInv'
  BY <1>5, FailsKeeps DEF DiscoverFails
<1>6. ASSUME NEW r \in Requests, HttpGet(r) PROVE IInv'
  BY <1>6, HttpGetKeeps
<1>7. ASSUME NEW r \in Requests, HttpGetFails(r) PROVE IInv'
  BY <1>7, FailsKeeps DEF HttpGetFails
<1>8. ASSUME NEW r \in Requests, ReadBody(r) PROVE IInv'
  BY <1>8, ReadBodyKeeps
<1>9. ASSUME NEW r \in Requests, RequestTimeout(r) PROVE IInv'
  BY <1>9, RequestTimeoutKeeps
<1>10. ASSUME NEW r \in Requests, SidecarAnswers(r) PROVE IInv'
  BY <1>10, SidecarAnswersKeeps
<1>11. ASSUME NEW r \in Requests, GrpcFails(r) PROVE IInv'
  BY <1>11, GrpcFailsKeeps
<1>12. CASE SidecarDown
  BY <1>12, SidecarDownKeeps
<1>13. CASE SidecarUp \/ DriverChanges
  BY <1>13, PeersKeep
<1>14. CASE ObjectChanges
  BY <1>14, ObjectChangesKeeps
<1>15. CASE UNCHANGED vars
  BY <1>15
  DEF vars, IInv, TypeOK, NotBegun, FetchesAreAsked, OnlyTimeouts, WireIsSaid,
      ClientIsSaid, ResultIsCurrent, ReadIsCurrent
<1> QED
  BY <1>1, <1>2, <1>3, <1>4, <1>5, <1>6, <1>7, <1>8, <1>9, <1>10, <1>11,
     <1>12, <1>13, <1>14, <1>15
  DEF Next

LEMMA IInvHolds == Spec => []IInv
BY IInvInit, IInvNext, PTL DEF Spec

---------------------------------------------------------------------------

\* Every variable keeps its type; in particular no list of changed blocks is
\* ever anywhere but one a driver's answer gives, however often clients send
\* back what they were shown.
THEOREM TypeCorrect == Spec => []TypeOK
BY IInvHolds, PTL DEF IInv

\* The object a client is shown, or told the absence of, was current at an
\* instant between its request and the reply.
THEOREM CurrentRead == Spec => []ReadIsCurrent
BY IInvHolds, PTL DEF IInv

\* A reply to a fetch has the blocks the driver answered to it, all of them
\* and in its order, and no driver is asked for any other reply.
THEOREM DriversDeltas == Spec => []DeltasFromTheDriver
<1>1. IInv => DeltasFromTheDriver
  <2> SUFFICES ASSUME IInv, NEW r \in Requests, client[r].code = 200
               PROVE  IF opts[r].fetchCBD
                        THEN said[r] # Nil /\ SameBlocks(client[r].deltas, said[r])
                        ELSE said[r] = Nil
    BY DEF DeltasFromTheDriver
  <2>1. CASE opts[r].fetchCBD
    <3>1. said[r] \in Responses /\ client[r].deltas = Shown(said[r])
      BY <2>1 DEF IInv, TypeOK, ClientIsSaid
    <3> QED
      BY <2>1, <3>1, ResponseTypes, HopsKeepBlocks
  <2>2. CASE ~opts[r].fetchCBD
    BY <2>2 DEF IInv, FetchesAreAsked
  <2> QED
    BY <2>1, <2>2
<1> QED
  BY <1>1, IInvHolds, PTL

\* No client is told that a data token lives longer than the driver said, or
\* a second less, whatever the resolution of the clock.
THEOREM TokensLive == Spec => []TokensDoNotOutlive
<1>1. IInv => TokensDoNotOutlive
  <2> SUFFICES ASSUME IInv, NEW r \in Requests,
                      client[r].code = 200, opts[r].fetchCBD
               PROVE  SameLives(client[r].deltas, said[r])
    BY DEF TokensDoNotOutlive
  <2>1. said[r] \in Responses /\ client[r].deltas = Shown(said[r])
    BY DEF IInv, TypeOK, ClientIsSaid
  <2> QED
    BY <2>1, ResponseTypes, HopsKeepLives
<1> QED
  BY <1>1, IInvHolds, PTL
=============================================================================
