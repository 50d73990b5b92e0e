SPECIFICATION Spec
CONSTANTS
  Word = {"echo", "cat", "x", "y", "cd", "^D"}
  File = {"x"}
  MAXARGS = 4
  NPROC = 6
  NOFILE = 6
  PIPESIZE = 1
  Script <- Scripts
INVARIANTS ParseExact Wired Sequenced
PROPERTIES ComesToRest
CHECK_DEADLOCK FALSE
