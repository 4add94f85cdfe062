SPECIFICATION Spec
CONSTANTS
  r1 = r1
  r2 = r2
  Requests = {r1, r2}
  Primary = Primary
  A = A
  B = B
  Other = Other
  Trusted <- TrustedHosts
  Keyed = {Primary, A}
  Worlds <- MCWorlds
  Replies <- MCReplies
  MaxChunks = 2
  Raised = Raised
  None = None
INVARIANTS DoneIsWhole FirstTrustedHostServes OutputsAreTheReply RoundTripKeepsText
PROPERTIES EveryRequestEnds
CHECK_DEADLOCK FALSE
