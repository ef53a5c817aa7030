\* The suite stops after MaxRuns invocations, and where XSim hangs.
CHECK_DEADLOCK FALSE
CONSTANTS
  Lists <- MCLists
  Vector = FALSE
  Traces <- MCTraces
  Dram = {1}
  Faults = {"short", "long", "wrong", "lost", "twice", "leftover"}
  Simulators = {"verilator", "xsim"}
  Cores = 2
  MaxRuns = 2
  Digits = 8
SPECIFICATION Spec
INVARIANTS TypeOK FreshVerdict VerdictRight ExitHonest
PROPERTY Ends
