CONSTANTS
  Clients = {c1}
  Channels = {team, topic}
  Team = team
  Published = {team}
  QueueSize = 1
  SendSize = 1
  MaxMessages = 2
  MaxAsks = 1
SPECIFICATION Spec
INVARIANTS SendsOpen NoGhost NoSilentGap
PROPERTIES HandlerEnds ShutdownEndsAll FeedIsFree
CHECK_DEADLOCK FALSE
