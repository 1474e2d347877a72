CONSTANTS
  N = 2
  P = 3
  RingSize = 3
  Hellos = 1
  PathFile <- DemoFiles
  Copies = 0
  Demos = {"testnode"}
SPECIFICATION Spec
INVARIANT SecondCheckFinds
CHECK_DEADLOCK FALSE
