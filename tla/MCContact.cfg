SPECIFICATION Spec
CONSTANTS
  ada = ada
  ben = ben
  Starter = ada
  Invited = ben
  Reachable = TRUE
  MaxEvents = 2
PROPERTIES
  OfferArrives
  KnockIsAnswered
  StirringWakes
  ComesToRest
CHECK_DEADLOCK FALSE
