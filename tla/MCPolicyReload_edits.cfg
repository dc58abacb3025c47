\* Edits of the configuration, and the application's own changes of policy c.
SPECIFICATION FairSpec
CONSTANTS
    a = a  b = b  c = c  q1 = q1  q2 = q2
    Names = {a, b, c}
    NoPolicy = NoPolicy  NoKey = NoKey
    MaxVersion = 2
    Layout <- SwapLayout
    Generation <- RotateB
    RuntimeNames = {c}
    Requests = {q1}
    Entry = "extAuthz"
INVARIANTS TypeOK AnsweredFromOneSet UntouchedServed
PROPERTIES Converges
CHECK_DEADLOCK FALSE
