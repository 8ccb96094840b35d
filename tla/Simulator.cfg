\* Nothing more happens once every bound is reached.
CHECK_DEADLOCK FALSE
SPECIFICATION Spec
CONSTANTS
  Headers = {h1, h2, h3}
  Names = {a, b}
  Gauges = {g1, g2, g3}
  MaxCount = 4
  Watches = 2
  Room = 1
  MaxChanges = 2
  MaxJoins = 2
  MaxEdits = 2
  MaxAsks = 2
  MaxAttaches = 1
INVARIANT OneHeaderEach
INVARIANT NoneWasted
INVARIANT AckedOnce
INVARIANT NothingForgotten
INVARIANT Settled
INVARIANT Redrawn
PROPERTY FramesGoOn
PROPERTY Arrives
PROPERTY ChangeArrives
