\* sshd releases around 8.1: 7.9, 8.0, 8.1, 8.9, 9.0, 9.9, 10.0, 10.1.
CONSTANTS
  SshdMajors = {7, 8, 9, 10}
  SshdMinors = {0, 1, 9}
  MaxArgs = 5
SPECIFICATION Spec
\* One invocation: the process exits.
CHECK_DEADLOCK FALSE
INVARIANT VersionWarningCorrect
