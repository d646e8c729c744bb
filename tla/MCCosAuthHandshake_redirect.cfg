\* Three calls of CosAuth, each of which may fail at any step.
\* CosAuth returns and the caller stops calling it: the program may stop.
CONSTANT MaxAttempts = 3
SPECIFICATION Spec
INVARIANT RedirectHasReceiver
CHECK_DEADLOCK FALSE
