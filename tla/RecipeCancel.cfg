SPECIFICATION Spec
CONSTANTS
  N = 3
  Recipes <- OneByOne
PROPERTY NothingStartsAfterCancel
CHECK_DEADLOCK FALSE
