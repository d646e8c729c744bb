\* A call that fails after the callback leaves its hook blocked.
CONSTANT MaxAttempts = 2
SPECIFICATION Spec
PROPERTY CallbackAnswered
CHECK_DEADLOCK FALSE
