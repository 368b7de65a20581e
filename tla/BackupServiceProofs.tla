------------------------ MODULE BackupServiceProofs ------------------------
(***************************************************************************)
(* Proofs about BackupService: its service makes no GET that DeltaFetch    *)
(* does not allow, so what is proved of DeltaFetch holds of it, and what   *)
(* it tells its callers of extended calls is what the driver said.         *)
(***************************************************************************)
EXTENDS BackupService, DeltaFetchProofs

\* A list of an answered GET is that of the client library.
AnswerIsReply ==
  \A r \in Requests :
    asked[r] \in {"normal", "extended"} /\ answer[r].status = 200 =>
      client[r].code = 200 /\ answer[r].deltas = client[r].deltas

ExtendedFetches ==
  \A r \in Requests : asked[r] = "extended" => opts[r].fetchCBD

SInv == IInv /\ ServiceTypeOK /\ AnswerIsReply /\ ExtendedFetches

---------------------------------------------------------------------------
(* The service is a way to use DeltaFetch.                                 *)

LEMMA ServiceStep == [ServiceNext]_serviceVars => [Next]_vars
<1> SUFFICES ASSUME [ServiceNext]_serviceVars PROVE [Next]_vars
  OBVIOUS
<1>1. ASSUME NEW r \in Requests, Direct(r) \/ HandleGet(r) PROVE [Next]_vars
  BY <1>1, SentAssumption DEF Direct, HandleGet, Next
<1>2. ASSUME NEW r \in Requests,
             HandleList(r) \/ ListReturns(r) \/ GetReturns(r) \/ TimesOut(r)
      PROVE  [Next]_vars
  BY <1>2 DEF HandleList, ListReturns, GetReturns, TimesOut
<1>3. CASE Restart
  BY <1>3 DEF Restart
<1>4. CASE Backend
  BY <1>4 DEF Backend, Next
<1>5. CASE UNCHANGED serviceVars
  BY <1>5 DEF serviceVars
<1> QED
  BY <1>1, <1>2, <1>3, <1>4, <1>5 DEF ServiceNext

\* Every behaviour of the service is one of DeltaFetch: its deadlines, its
\* restarts and its LISTs are invisible to the API server, the sidecar and
\* the driver.
THEOREM ServiceIsFetch == ServiceSpec => Spec
BY ServiceStep, PTL DEF ServiceSpec, ServiceInit, Spec

---------------------------------------------------------------------------

\* What a step behind the service leaves alone: the options of every GET,
\* whether it was made, and every reply that was given.
LEMMA BackendLeaves ==
  ASSUME IInv, Backend, NEW s \in Requests
  PROVE  /\ pc'[s] = "idle" <=> pc[s] = "idle"
         /\ opts' = opts
         /\ client[s] # Waiting => client'[s] = client[s]
<1> USE DEF IInv, TypeOK, Finish, Continue
<1>1. ASSUME NEW r \in Requests, GetObject(r)
      PROVE  /\ pc'[s] = "idle" <=> pc[s] = "idle"
             /\ opts' = opts
             /\ client[s] # Waiting => client'[s] = client[s]
  BY <1>1 DEF GetObject
<1>2. ASSUME NEW r \in Requests,
             GetFails(r) \/ DiscoverFails(r) \/ HttpGetFails(r) \/ ReadBody(r)
      PROVE  /\ pc'[s] = "idle" <=> pc[s] = "idle"
             /\ opts' = opts
             /\ client[s] # Waiting => client'[s] = client[s]
  BY <1>2 DEF GetFails, DiscoverFails, HttpGetFails, ReadBody
<1>3. ASSUME NEW r \in Requests,
             Discover(r) \/ HttpGet(r) \/ RequestTimeout(r)
      PROVE  /\ pc'[s] = "idle" <=> pc[s] = "idle"
             /\ opts' = opts
             /\ client[s] # Waiting => client'[s] = client[s]
  BY <1>3 DEF Discover, HttpGet, RequestTimeout
<1>4. ASSUME NEW r \in Requests, SidecarAnswers(r) \/ GrpcFails(r)
      PROVE  UNCHANGED <<pc, opts, client>>
  BY <1>4 DEF SidecarAnswers, GrpcFails
<1>5. CASE SidecarDown \/ SidecarUp \/ DriverChanges \/ ObjectChanges
  BY <1>5 DEF SidecarDown, SidecarUp, DriverChanges, ObjectChanges
<1> QED
  BY <1>1, <1>2, <1>3, <1>4, <1>5 DEF Backend

LEMMA SInvInit == ServiceInit => SInv
<1> SUFFICES ASSUME ServiceInit PROVE SInv
  OBVIOUS
<1>1. IInv
  BY IInvInit DEF ServiceInit
<1>2. ServiceTypeOK
  BY <1>1 DEF IInv, ServiceInit, Init, ServiceTypeOK, Kinds
<1>3. AnswerIsReply /\ ExtendedFetches
  BY DEF ServiceInit, AnswerIsReply, ExtendedFetches
<1> QED
  BY <1>1, <1>2, <1>3 DEF SInv

\* A GET is made for the first time, for a caller or not.
LEMMA BeginsKeeps ==
  ASSUME SInv, IInv', NEW r \in Requests, Direct(r) \/ HandleGet(r)
  PROVE  SInv'
<1> USE DEF SInv
<1>1. PICK q \in Queries, kind \in {"direct", "normal", "extended"} :
        /\ Arrive(r, q)
        /\ asked' = [asked EXCEPT ![r] = kind]
        /\ kind = "extended" => q = Extended
  BY SentAssumption DEF Direct, HandleGet
<1>2. asked[r] = "none" /\ answer' = answer
  BY DEF Direct, HandleGet
<1>3. /\ pc' = [pc EXCEPT ![r] = "get"]
      /\ opts' = [opts EXCEPT ![r] = ConvertFromUrlValues(q)]
      /\ client' = client
  BY <1>1 DEF Arrive
<1>4. answer[r] = NoAnswer
  BY <1>2 DEF ServiceTypeOK
<1>5. ServiceTypeOK'
  BY <1>1, <1>2, <1>3, <1>4 DEF IInv, TypeOK, ServiceTypeOK, Kinds
<1>6. AnswerIsReply'
  BY <1>1, <1>2, <1>3, <1>4 DEF AnswerIsReply, ServiceTypeOK, NoAnswer
<1>7. kind = "extended" => ConvertFromUrlValues(q).fetchCBD
  BY <1>1, SentAssumption DEF ConvertFromUrlValues
<1>8. ExtendedFetches'
  BY <1>1, <1>3, <1>7 DEF ExtendedFetches, IInv, TypeOK, ServiceTypeOK
<1> QED
  BY <1>5, <1>6, <1>8

\* The handler of the service answers, fails or is killed.
LEMMA AnswersKeep ==
  ASSUME SInv, IInv', NEW r \in Requests,
         HandleList(r) \/ ListReturns(r) \/ GetReturns(r) \/ TimesOut(r)
  PROVE  SInv'
<1> USE DEF SInv
<1>1. UNCHANGED <<vars, pc, opts, client>>
  BY DEF HandleList, ListReturns, GetReturns, TimesOut, vars
<1>2. ServiceTypeOK /\ TypeOK /\ TypeOK'
  BY DEF IInv
<1>3. Failed \in [status : {200, 500}, deltas : Lists]
      /\ \A d \in Lists : OKWith(d) \in [status : {200, 500}, deltas : Lists]
  BY EmptyList DEF Failed, OKWith
<1>4. CASE HandleList(r)
  <2>1. ServiceTypeOK'
    BY <1>1, <1>2, <1>4 DEF HandleList, ServiceTypeOK, Kinds
  <2>2. AnswerIsReply' /\ ExtendedFetches'
    BY <1>1, <1>2, <1>4
    DEF HandleList, ServiceTypeOK, AnswerIsReply, ExtendedFetches
  <2> QED
    BY <2>1, <2>2
<1>5. CASE ListReturns(r)
  <2>1. PICK a \in [status : {200, 500}, deltas : Lists] :
          answer' = [answer EXCEPT ![r] = a]
    BY <1>2, <1>3, <1>5, EmptyList DEF ListReturns, TypeOK
  <2>2. asked' = asked /\ asked[r] = "list"
    BY <1>5 DEF ListReturns
  <2>3. ServiceTypeOK'
    BY <1>1, <1>2, <2>1, <2>2 DEF ServiceTypeOK
  <2>4. AnswerIsReply' /\ ExtendedFetches'
    BY <1>1, <1>2, <2>1, <2>2 DEF ServiceTypeOK, AnswerIsReply, ExtendedFetches
  <2> QED
    BY <2>3, <2>4
<1>6. CASE GetReturns(r) \/ TimesOut(r)
  <2>1. /\ asked' = asked /\ asked[r] \notin {"none", "direct"}
        /\ answer' \in {[answer EXCEPT ![r] = AnswerOf(r)],
                        [answer EXCEPT ![r] = Failed]}
    BY <1>6 DEF GetReturns, TimesOut, Open
  <2>2. client[r].deltas \in Lists
    BY <1>2 DEF TypeOK
  <2>3. PICK a : /\ a \in {AnswerOf(r), Failed}
                 /\ answer' = [answer EXCEPT ![r] = a]
    BY <2>1
  <2>4. /\ a \in [status : {200, 500}, deltas : Lists]
        /\ a.status = 200 => client[r].code = 200 /\ a.deltas = client[r].deltas
    BY <1>3, <2>2, <2>3 DEF AnswerOf, Failed, OKWith
  <2>5. ServiceTypeOK'
    BY <1>1, <1>2, <2>1, <2>3, <2>4 DEF ServiceTypeOK
  <2>6. AnswerIsReply' /\ ExtendedFetches'
    BY <1>1, <1>2, <2>1, <2>3, <2>4 DEF ServiceTypeOK, AnswerIsReply, ExtendedFetches
  <2> QED
    BY <2>5, <2>6
<1> QED
  BY <1>4, <1>5, <1>6

LEMMA RestartKeeps ==
  ASSUME SInv, IInv', Restart
  PROVE  SInv'
<1> USE DEF SInv, Restart
<1>1. UNCHANGED <<pc, opts, client>>
  BY DEF vars
<1>2. \A r \in Requests :
        \/ answer'[r] = answer[r]
        \/ answer'[r] = Cut /\ asked[r] \notin {"none", "direct"}
  BY DEF Open
<1>3. ServiceTypeOK'
  BY <1>1, <1>2 DEF IInv, ServiceTypeOK
<1>4. AnswerIsReply' /\ ExtendedFetches'
  BY <1>1, <1>2 DEF AnswerIsReply, ExtendedFetches, Cut
<1> QED
  BY <1>3, <1>4

LEMMA BackendKeeps ==
  ASSUME SInv, IInv', Backend
  PROVE  SInv'
<1> USE DEF SInv
<1>1. UNCHANGED <<asked, answer>>
  BY DEF Backend
<1>2. ServiceTypeOK'
  BY <1>1, BackendLeaves DEF IInv, ServiceTypeOK
<1>3. AnswerIsReply'
  BY <1>1, BackendLeaves DEF AnswerIsReply, Waiting
<1>4. ExtendedFetches'
  BY <1>1, BackendLeaves DEF ExtendedFetches
<1> QED
  BY <1>2, <1>3, <1>4

LEMMA SInvNext == SInv /\ [ServiceNext]_serviceVars => SInv'
<1> SUFFICES ASSUME SInv, [ServiceNext]_serviceVars PROVE SInv'
  OBVIOUS
<1>1. IInv'
  BY ServiceStep, IInvNext DEF SInv
<1>2. ASSUME NEW r \in Requests, Direct(r) \/ HandleGet(r) PROVE SInv'
  BY <1>1, <1>2, BeginsKeeps
<1>3. ASSUME NEW r \in Requests,
             HandleList(r) \/ ListReturns(r) \/ GetReturns(r) \/ TimesOut(r)
      PROVE  SInv'
  BY <1>1, <1>3, AnswersKeep
<1>4. CASE Restart
  BY <1>1, <1>4, RestartKeeps
<1>5. CASE Backend
  BY <1>1, <1>5, BackendKeeps
<1>6. CASE UNCHANGED serviceVars
  BY <1>1, <1>6
  DEF serviceVars, vars, SInv, IInv, ServiceTypeOK, AnswerIsReply, ExtendedFetches
<1> QED
  BY <1>2, <1>3, <1>4, <1>5, <1>6 DEF ServiceNext

LEMMA SInvHolds == ServiceSpec => []SInv
BY SInvInit, SInvNext, PTL DEF ServiceSpec

---------------------------------------------------------------------------

\* Every variable of the service keeps its type, and a GET is on its way at
\* the API server exactly when somebody asked for it.
THEOREM ServiceTypeCorrect == ServiceSpec => []ServiceTypeOK
BY SInvHolds, PTL DEF SInv

\* A caller who asked for the blocks and got a 200 has the driver's answer to
\* this very call, whatever timed out, failed or restarted on the way.
THEOREM CallersSee == ServiceSpec => []CallersSeeTheDriver
<1>1. SInv => CallersSeeTheDriver
  <2> SUFFICES ASSUME SInv, NEW r \in Requests,
                      asked[r] = "extended", answer[r].status = 200
               PROVE  said[r] # Nil /\ SameBlocks(answer[r].deltas, said[r])
    BY DEF CallersSeeTheDriver
  <2>1. /\ client[r].code = 200 /\ opts[r].fetchCBD
        /\ answer[r].deltas = client[r].deltas
    BY DEF SInv, AnswerIsReply, ExtendedFetches
  <2>2. /\ said[r] \in Responses /\ said[r] # Nil
        /\ answer[r].deltas = Shown(said[r])
    BY <2>1 DEF SInv, IInv, TypeOK, ClientIsSaid
  <2> QED
    BY <2>2, ResponseTypes, HopsKeepBlocks
<1> QED
  BY <1>1, SInvHolds, PTL
=============================================================================
