\* One key pair is rotated.
SPECIFICATION Spec
CONSTANTS
    a = a  b = b  c = c  q1 = q1  q2 = q2
    Names = {a}
    NoPolicy = NoPolicy  NoKey = NoKey
    MaxVersion = 1
    Layout <- RotateA
    Generation <- TwoGenerations
    RuntimeNames = {}
    Requests = {}
    Entry = "extAuthz"
INVARIANTS ServedKeysMatch
CHECK_DEADLOCK FALSE
