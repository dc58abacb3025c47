----------------------------- MODULE MCSchemeJson -----------------------------
(* Small documents for SchemeJson. *)
EXTENDS SchemeJson

CONSTANTS SchemeNames, HeaderNames, Claims, ListedForms, MaxHeaders

ListedHeader == [name : HeaderNames, claim : Claims]

\* Lists of up to MaxHeaders headers, of which the first scheme takes those up to the cut.
Cuts ==
    {c \in [headers : UNION {[1..m -> ListedHeader] : m \in 0..MaxHeaders}, at : 0..MaxHeaders] :
       c.at <= Len(c.headers)}

Listed(n, form, hs) ==
    [name |-> n, form |-> form, headers |-> IF form = "noHeaders" THEN <<>> ELSE hs]

\* Up to two schemes, of one name or two, with MaxHeaders headers between them.
MCDocuments ==
    {<<Listed(n, f, SubSeq(c.headers, 1, c.at)),
       Listed(o, g, SubSeq(c.headers, c.at + 1, Len(c.headers)))>> :
         n \in SchemeNames, o \in SchemeNames, f \in ListedForms, g \in ListedForms, c \in Cuts}
      \cup {<<Listed(n, f, c.headers)>> : n \in SchemeNames, f \in ListedForms, c \in Cuts}
      \cup {<<>>}
=============================================================================
