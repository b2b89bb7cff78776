CONSTANTS
    Other <- Plain
    Policies <- SmallPolicies
SPECIFICATION Spec
INVARIANT OneReading
CHECK_DEADLOCK FALSE
