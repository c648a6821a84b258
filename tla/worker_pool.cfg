CONSTANTS
  N = 3
  worker = 4
  Tester = {t1, t2}
  Main = main
  Rivals = {1}
  Leaders = {1, 2}
  Plans <- ShortPlans
SPECIFICATION Spec
INVARIANTS TypeOK
PROPERTIES ProgramEnds ServersAreServed WorkersComeFree
CHECK_DEADLOCK FALSE
