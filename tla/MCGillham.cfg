CONSTANTS
    Formats = {5, 11, 17}
    TypeCodes = {8, 9, 18, 19}
SPECIFICATION Spec
INVARIANT GillhamIsDecoded
CHECK_DEADLOCK FALSE
