\* Bodies of every framing that arrive byte by byte, at either entry.
SPECIFICATION FairSpec
CONSTANTS
    Entries = {"handler", "extAuthz"}
    Framings = {"length", "chunked"}
    Middlewares = {"none", "buffers", "reads"}
    MaxBody = 5
INVARIANTS
    TypeOK BodyKept WholeBodyHashed
PROPERTIES
    AuthenticationEnds
CHECK_DEADLOCK FALSE
