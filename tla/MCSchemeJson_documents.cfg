SPECIFICATION Spec
CONSTANTS
    NoText = "-"
    Documents <- MCDocuments
    SchemeNames = {"s1", "s2", "-"}
    HeaderNames = {"h1", "h2", "-"}
    Claims = {"-", "c1"}
    ListedForms = {"nameFirst", "headersFirst", "noHeaders", "noName"}
    MaxHeaders = 3
INVARIANTS
    TypeOK
    WrittenIsRead
    ReadAsListed
    ReadsItsOwnValue
\* Reading a document ends.
CHECK_DEADLOCK FALSE
