SPECIFICATION Spec
CONSTANTS
    NoText = "-"
    Documents <- MCDocuments
    SchemeNames = {"s1"}
    HeaderNames = {"h1", "h2"}
    Claims = {"c1"}
    ListedForms = {"nameFirst"}
    MaxHeaders = 2
INVARIANTS
    RoundTrip
\* Reading a document ends.
CHECK_DEADLOCK FALSE
