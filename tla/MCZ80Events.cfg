CONSTANTS
  HaltLoadedFirst = FALSE
  NmiPoll = "line_and_event"
SPECIFICATION FairSpec
INVARIANTS TypeOK IffImpliesIff2 LinesLatched TraceLatched BreakLatched
PROPERTIES BreakServed InterruptTaken
