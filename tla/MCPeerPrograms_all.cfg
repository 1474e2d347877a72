CONSTANTS
  N = 4
  P = 3
  RingSize = 4
  Hellos = 1
  PathFile <- DemoFiles
  Copies = 2
  Demos = {"add", "multiply", "vectorsum", "measure", "controller", "statistics", "testnode", "testbroadcast"}
SPECIFICATION Spec
INVARIANTS TypeOK NextIsExpected JointKeys SharesAndTexts NothingLeft SameVerdict MeansOfAll
PROPERTIES AllEnd
CHECK_DEADLOCK FALSE
