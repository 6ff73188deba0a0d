CONSTANTS
  HaltLoadedFirst = FALSE
  NmiPoll = "never"
SPECIFICATION Spec
INVARIANT RestartsAtZero
