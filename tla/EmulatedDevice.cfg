\* Two hosts; every transaction may be sent twice, and the ids come round.
SPECIFICATION Spec
CONSTANTS
  Sources = {s1, s2}
  Addrs = {8}
  BadAddr = 12
  Vals = {1}
  Ids = 2
  MaxTxns = 3
  MaxSends = 2
  MaxNet = 1
INVARIANTS ExecutedOnce AnswersAreCurrent
SYMMETRY Symmetry
