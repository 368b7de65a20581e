---------------------------- MODULE MCDeltaFetch ----------------------------
(* Small instances of BackupService and DeltaFetch for TLC. *)
EXTENDS BackupService

Query(fetch, limit, offset) ==
  [fetchcbd |-> fetch, limit |-> limit, offset |-> offset]

\* As cmd/mock/client/main.go and README.md write them, and malformed.
PlainQuery    == Query(Unset, Unset, Unset)
ExtendedQuery == Query(TRUE, 250, 0)
AllQueries    == { PlainQuery, ExtendedQuery, Query(Garbage, 1, Garbage) }

\* A page as the mock driver's, with tokens issued half way through a second,
\* then blocks without a token, without the time it was issued, with a life
\* too long to say, and no block at all; and a volume that is no block volume,
\* which has no list.
Odd == <<Entry(7, 512, Nil), Entry(3, 512, Token("t", Nil, 9)),
         Entry(5, 1024, Token("u", 9, 50)), Nil>>
SomeAnswers(request) ==
  { [MockResponse(request, 5, 6, 512) EXCEPT !.blockDelta = @ \o Odd], Response(Nil, Nil, Nil) }
=============================================================================
