\* Three requests on two scopes, one continuing a conversation, room for one.
CONSTANTS
  Requests = {r1, r2, r3}
  Scopes = {s1, s2}
  Continuing = {s1}
  WindowMs = 1
  GraceExtraMs = 1
  PublishDeadlineMs = 2
  MaxPending = 1
  None = None
SPECIFICATION Spec
INVARIANTS
  SlotsShownOnce
  OneRoundPerScope
  FollowerMirrorsLeader
  RendezvousBounded
PROPERTIES
  EveryoneAnswered
CHECK_DEADLOCK FALSE
