SPECIFICATION HandleFairSpec
CONSTANTS
  Fulfillers = {worker, sender}
  Waiters = {w1, w2}
  Tasks = {t1, t2}
  Unset = Unset
INVARIANTS
  NoLostWakeup
PROPERTIES
  EveryoneIsServed
