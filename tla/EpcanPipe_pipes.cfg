SPECIFICATION FairSpec
CONSTANTS
  Nodes = {1, 2}
  Pipes = {1, 2, 3}
  IDs = {"set", "back"}
  Setups <- ThreeSetups
  timeout_EP = 2
  Mailboxes = 1
  Backlog = FALSE
INVARIANTS
  Watched
  AnswerIsDue
PROPERTIES
  GivesUpOnSilence
  FollowerStops
