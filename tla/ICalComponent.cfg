SPECIFICATION Spec
CONSTANTS
  Nil = Nil
  cal = cal
  other = other
  event = event
  event2 = event2
  london = london
  london2 = london2
  oslo = oslo
  nameless = nameless
  Cals <- MCCals
  Kids <- MCKids
  Kind <- MCKind
  Tzid <- MCTzid
  Rules <- MCRules
SYMMETRY Alike
INVARIANTS
  OneOwner
  ArrayMatchesList
  LookupFinds
  LoopRemovesAll
  MergeLosesNothing
