SPECIFICATION Spec
INVARIANT ErrorDuplexHoldsNothing
CHECK_DEADLOCK FALSE
