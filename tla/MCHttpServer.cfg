\* Two requests compete for one slot.
CONSTANTS
  q1 = q1
  q2 = q2
  Request <- TwoRequests
  Reader = {c1, c2}
  MaxPending = 1
  MaxWaiters = 1
  MaxPieces <- Pieces
  MaxWrites <- Writes
SPECIFICATION FairSpec
INVARIANTS
  TypeOK
  SlotsWatched
  QueueLive
  BodyOwned
  BodyInOrder
PROPERTIES
  ExchangeSpec
  EveryResponseEnds
\* A server whose requests have all ended and that is closed stops.
CHECK_DEADLOCK FALSE
