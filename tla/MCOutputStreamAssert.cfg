CONSTANT MaxBytes = 3
SPECIFICATION Spec
INVARIANT AssertHolds
CHECK_DEADLOCK FALSE
