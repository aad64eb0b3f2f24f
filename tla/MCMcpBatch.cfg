\* Two workers and five calls, with and without fail_fast, under fairness.
CONSTANTS
  w1 = w1  w2 = w2
  Workers = {w1, w2}
  N = 5
  NoCall = NoCall
  CallErrors = {"deadline", "transport"}
SPECIFICATION FairSpec
INVARIANTS Accounted SentOnce CauseReported StopsFast
PROPERTIES BatchEnds
