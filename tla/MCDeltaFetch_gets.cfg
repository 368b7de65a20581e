CONSTANTS
  Unset = Unset  Garbage = Garbage  Nil = Nil
  DefaultLimit = 256
  TicksPerSecond = 2
  MaxDuration = 40
  Requests = {r1, r2}  Calls = {r1}
  Queries <- AllQueries
  Plain <- PlainQuery  Extended <- ExtendedQuery
  Answers <- SomeAnswers
  MaxVersion = 1
CHECK_DEADLOCK FALSE
SPECIFICATION ServiceSpec
INVARIANTS ServiceTypeOK DeltasFromTheDriver TokensDoNotOutlive ReadIsCurrent CallersSeeTheDriver
PROPERTIES HandlersEnd CallersEnd
