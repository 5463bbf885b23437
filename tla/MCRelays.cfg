SPECIFICATION Spec
CONSTANTS
  COUNT = 2
  ValueReadFails = FALSE
INVARIANTS SetReachesContact
PROPERTIES OnlySetMovesContacts
