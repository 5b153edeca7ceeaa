SPECIFICATION Spec
CONSTANTS
  Requests <- Everyone
  Kind <- KindOf
  Event <- EventOf
  Outcome <- OutcomeOf
  Together <- Stories
  Groups = {1, 2}
PROPERTY StatusLegal
CHECK_DEADLOCK FALSE
