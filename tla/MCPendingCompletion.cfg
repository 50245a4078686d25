SPECIFICATION Spec
INVARIANTS NothingFreedWhileRunning SuccessIsValidated DoubtIsReported LeaksHaveAReason
CHECK_DEADLOCK FALSE
