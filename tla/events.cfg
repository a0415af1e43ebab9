SPECIFICATION FairSpec
CONSTANTS
  Chars = {on, button}
  Immediate = {button}
  Peers = {p, q}
  Writers = {q}
  Leavers = {q}
  Threads = {t}
  LoopChars = {on}
  ThreadChars = {button}
  Failing = {button}
  Values = {v1, v2}
  Start = v1
  None = None
  MaxChanges = 2
INVARIANT TypeOK NoSubscriptionOutlivesConnection NoEventIsStuck UnsubscribedHearsNothing ObserversConverge
PROPERTY QueuesDrain
CHECK_DEADLOCK FALSE
