CONSTANTS
  Waited = {"command", "control"}
  Stages = 2
  EventRoom = 2

SPECIFICATION FairSpec

INVARIANTS
  AnswersItsOwn
  OneKeyRequest

PROPERTIES
  WaitEnds
  KeysHandled
