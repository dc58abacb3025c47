------------------------------ MODULE SchemeJson ------------------------------
(***************************************************************************)
(* SchemeCollectionJsonConverter: the schemes of a policy kept as JSON.    *)
(* Write lists each scheme with its headers.  Read walks the tokens with   *)
(* three nested loops (schemes, headers, the properties of one header)     *)
(* that share one forward-only reader, so what a loop has read past is     *)
(* lost for the loop around it.                                            *)
(***************************************************************************)
EXTENDS Naturals, SequencesExt

CONSTANTS
    NoText,         \* null, empty or blank text
    Documents       \* the documents read: sequences of listed schemes

(***************************************************************************)
(* A listed scheme is an object with a name and a list of headers, written *)
(* in some form; a header without a claim type has claim = NoText.         *)
(***************************************************************************)
Forms == {"nameFirst", "headersFirst", "noHeaders", "noName"}

IsList(s) == Len(s) \in Nat /\ s = [i \in 1..Len(s) |-> s[i]]

ASSUME SchemeJsonAssumption ==
    \A d \in Documents :
      IsList(d) /\ \A i \in DOMAIN d : d[i].form \in Forms /\ IsList(d[i].headers)

VARIABLES
    document,   \* the schemes as they are listed
    json,       \* their tokens
    pos,        \* the reader: the index of the current token
    loop,       \* the innermost loop that is running
    schemeName, headers,    \* the locals of Read
    header,                 \* the locals of TryGetHeader
    schemes,    \* the collection being filled
    result      \* "reading", "read" or "thrown"

vars == <<document, json, pos, loop, schemeName, headers, header, schemes, result>>

-----------------------------------------------------------------------------
(* Writing *)

Token(type) == [type |-> type, text |-> NoText]
Property(n, v) == <<[type |-> "PropertyName", text |-> n], [type |-> "String", text |-> v]>>
Each(Op(_), s) == FlattenSeq([i \in DOMAIN s |-> Op(s[i])])

HeaderTokens(h) ==
    <<Token("StartObject")>> \o Property("Name", h.name)
      \o (IF h.claim = NoText THEN <<>> ELSE Property("ClaimType", h.claim))
      \o <<Token("EndObject")>>

HeadersTokens(s) ==
    <<[type |-> "PropertyName", text |-> "Headers"], Token("StartArray")>>
      \o Each(HeaderTokens, s.headers) \o <<Token("EndArray")>>

SchemeTokens(s) ==
    LET nameTokens == Property("Name", s.name)
        content == [nameFirst |-> nameTokens \o HeadersTokens(s),
                    headersFirst |-> HeadersTokens(s) \o nameTokens,
                    noHeaders |-> nameTokens,
                    noName |-> HeadersTokens(s)]
    IN  <<Token("StartObject")>> \o content[s.form] \o <<Token("EndObject")>>

\* What Write writes for schemes in the form "nameFirst", and a person for others.
Write(listed) == <<Token("StartArray")>> \o Each(SchemeTokens, listed) \o <<Token("EndArray")>>

-----------------------------------------------------------------------------
(* Building what has been read *)

\* Mutant: a header without a claim type has none.
NewHeaderWithoutClaim(n, c) == [name |-> n, claim |-> c]

\* Header: the claim type defaults to the name.
NewHeader(n, c) == [name |-> n, claim |-> IF c = NoText THEN n ELSE c]

\* HeaderCollection: the first header of a name stays.
Collected(hs) ==
    {hs[i] : i \in {i \in DOMAIN hs : \A j \in 1..(i - 1) : hs[j].name # hs[i].name}}

\* HeaderCollection.Add refuses a header without a name.
ValidHeader(h) == h.name # NoText

\* SchemeBuilder refuses an empty name, SchemeCollection.Add an empty scheme.
ValidScheme(n, hs) == n # NoText /\ hs # <<>>

\* Mutant: the last scheme of a name stays.
WithSchemeReplaced(set, n, hs) ==
    {s \in set : s.name # n} \cup {[name |-> n, headers |-> Collected(hs)]}

\* SchemeCollection.Add: the first scheme of a name stays.
WithScheme(set, n, hs) ==
    IF \E s \in set : s.name = n THEN set
    ELSE set \cup {[name |-> n, headers |-> Collected(hs)]}

\* The end of a pass of Read's loop with the reader at p: an object that ends is built.
EndPass(p, n, hs) ==
    /\ pos' = p
    /\ IF json[p].type # "EndObject" THEN UNCHANGED <<schemes, result>>
       ELSE IF ValidScheme(n, hs) /\ \A i \in DOMAIN hs : ValidHeader(hs[i])
              THEN schemes' = WithScheme(schemes, n, hs) /\ UNCHANGED result
              ELSE result' = "thrown" /\ UNCHANGED schemes

-----------------------------------------------------------------------------
(* Reading: one action per pass of a loop; Ahead is the token Read() gets. *)

Ahead == IF pos < Len(json) THEN json[pos + 1].type ELSE "None"
Skip == pos' = pos + 1 /\ UNCHANGED <<schemes, result>>

\* A pass of Read's own loop.
ReadSchemes ==
    /\ result = "reading" /\ loop = "schemes"
    /\ \/ /\ Ahead \in {"EndArray", "None"}
          /\ pos' = (IF Ahead = "None" THEN pos ELSE pos + 1) /\ result' = "read"
          /\ UNCHANGED <<loop, schemeName, headers, schemes>>
       \/ /\ Ahead = "PropertyName" /\ json[pos + 1].text = "Name"
          /\ schemeName' = json[pos + 2].text
          /\ EndPass(pos + 2, schemeName', headers)
          /\ UNCHANGED <<loop, headers>>
       \/ /\ Ahead = "PropertyName" /\ json[pos + 1].text = "Headers"
          /\ headers' = <<>> /\ loop' = "headers"
          /\ pos' = pos + 2
          /\ UNCHANGED <<schemeName, schemes, result>>
       \/ /\ Ahead \notin {"EndArray", "None", "PropertyName"}
          /\ EndPass(pos + 1, schemeName, headers)
          /\ UNCHANGED <<loop, schemeName, headers>>
    /\ UNCHANGED <<document, json, header>>

\* TryGetHeaders at the end of the list: it reads one token more and returns.
LeaveHeaders(p, hs) ==
    /\ loop' = "schemes" /\ headers' = hs
    /\ EndPass(p + 1, schemeName, hs)

\* A pass of TryGetHeaders' loop.
ReadHeaders ==
    /\ result = "reading" /\ loop = "headers"
    /\ \/ /\ Ahead = "StartObject"
          /\ header' = [name |-> NoText, claim |-> NoText]
          /\ loop' = "header" /\ Skip
          /\ UNCHANGED headers
       \/ Ahead = "EndArray" /\ LeaveHeaders(pos + 1, headers) /\ UNCHANGED header
       \/ Ahead \notin {"StartObject", "EndArray"} /\ Skip /\ UNCHANGED <<loop, headers, header>>
    /\ UNCHANGED <<document, json, schemeName>>

\* Mutant: after a header the end of the list is not looked for.
ReadHeaderPastEnd ==
    /\ result = "reading" /\ loop = "header"
    /\ \/ /\ Ahead = "PropertyName"
          /\ header' = IF json[pos + 1].text = "Name"
                         THEN [header EXCEPT !.name = json[pos + 2].text]
                         ELSE [header EXCEPT !.claim = json[pos + 2].text]
          /\ pos' = pos + 2
          /\ UNCHANGED <<loop, headers, schemes, result>>
       \/ Ahead = "EndObject" /\ Skip /\ UNCHANGED <<loop, headers, header>>
       \/ /\ Ahead \notin {"PropertyName", "EndObject"}
          /\ loop' = "headers" /\ Skip
          /\ headers' = Append(headers, NewHeader(header.name, header.claim))
          /\ UNCHANGED header
    /\ UNCHANGED <<document, json, schemeName>>

(***************************************************************************)
(* A pass of TryGetHeader's loop.  It does not stop at the end of its own  *)
(* object but at the token after it: the start of the next header, or the  *)
(* end of the list.                                                        *)
(***************************************************************************)
ReadHeader ==
    /\ result = "reading" /\ loop = "header"
    /\ \/ /\ Ahead = "PropertyName"
          /\ header' = IF json[pos + 1].text = "Name"
                         THEN [header EXCEPT !.name = json[pos + 2].text]
                         ELSE [header EXCEPT !.claim = json[pos + 2].text]
          /\ pos' = pos + 2
          /\ UNCHANGED <<loop, headers, schemes, result>>
       \/ Ahead = "EndObject" /\ Skip /\ UNCHANGED <<loop, headers, header>>
       \/ /\ Ahead \notin {"PropertyName", "EndObject"}
          /\ LET read == Append(headers, NewHeader(header.name, header.claim))
             IN  \/ Ahead = "EndArray" /\ LeaveHeaders(pos + 1, read)
                 \/ Ahead # "EndArray" /\ loop' = "headers" /\ headers' = read /\ Skip
          /\ UNCHANGED header
    /\ UNCHANGED <<document, json, schemeName>>

-----------------------------------------------------------------------------

Init ==
    /\ document \in Documents
    /\ json = Write(document) \o <<Token("EndObject")>>     \* the end of the policy
    /\ pos = 1 /\ loop = "schemes"
    /\ schemeName = NoText /\ headers = <<>>
    /\ header = [name |-> NoText, claim |-> NoText]
    /\ schemes = {} /\ result = "reading"

Next == ReadSchemes \/ ReadHeaders \/ ReadHeader

Spec == Init /\ [][Next]_vars

-----------------------------------------------------------------------------

TypeOK ==
    /\ pos \in DOMAIN json
    /\ loop \in {"schemes", "headers", "header"}
    /\ result \in {"reading", "read", "thrown"}
    /\ loop # "schemes" => result = "reading"
    /\ \A s \in schemes :
         /\ s.name # NoText /\ s.headers # {}
         /\ \A h \in s.headers : h.name # NoText /\ h.claim # NoText

Ended == result # "reading"

\* The scheme a listed object stands for.
Meant(s) ==
    [name |-> s.name,
     headers |-> Collected([i \in DOMAIN s.headers |->
                             NewHeader(s.headers[i].name, s.headers[i].claim)])]

\* A document as Write produces it: a SchemeCollection holds valid schemes, each name once.
Written ==
    \A i \in DOMAIN document :
      /\ document[i].form = "nameFirst"
      /\ ValidScheme(document[i].name, document[i].headers)
      /\ \A j \in DOMAIN document[i].headers : ValidHeader(document[i].headers[j])
      /\ \A k \in DOMAIN document : document[k].name = document[i].name => k = i

ReadBack == result = "read" /\ schemes = {Meant(document[i]) : i \in DOMAIN document}

(***************************************************************************)
(* The converter is for "serializing and deserializing" a collection: what *)
(* Write writes, Read reads back, the same schemes with the same headers.  *)
(***************************************************************************)
RoundTrip == Ended /\ Written => ReadBack

(***************************************************************************)
(* What remains of it: every scheme that was written is read, with its     *)
(* first header at least, and as it was if it has no other; where none has *)
(* another, Read reads back what was written.  A header that is last in    *)
(* its list is not lost with the token that is read too much, and what a   *)
(* scheme leaves in the locals does not reach the next one.                *)
(***************************************************************************)
WrittenIsRead ==
    Ended /\ Written =>
      /\ result = "read"
      /\ \A i \in DOMAIN document : \E s \in schemes :
           /\ s.name = document[i].name
           /\ NewHeader(document[i].headers[1].name, document[i].headers[1].claim) \in s.headers
           /\ Len(document[i].headers) = 1 => s = Meant(document[i])
      /\ (\A i \in DOMAIN document : Len(document[i].headers) = 1) => ReadBack

\* The headers that are listed for a scheme.
ListedHeaders(s) ==
    {NewHeader(s.headers[j].name, s.headers[j].claim) : j \in DOMAIN s.headers}

(***************************************************************************)
(* A scheme that is read has a name and headers that are listed together   *)
(* in one object: neither the properties of two headers nor those of two   *)
(* schemes are mixed, although both live in variables that the next object *)
(* inherits.  Only a scheme listed without a list of headers gets those of *)
(* the scheme before it.                                                   *)
(***************************************************************************)
ReadAsListed ==
    \A s \in schemes : \E i \in DOMAIN document :
      /\ document[i].form # "noName"
      /\ s.name = document[i].name
      /\ document[i].form = "noHeaders" \/ s.headers \subseteq ListedHeaders(document[i])

(***************************************************************************)
(* Read returns with the reader on the last token of its own value, which  *)
(* is what JsonSerializer demands of a converter, although the loop of the *)
(* headers reads one token further than its list.                          *)
(***************************************************************************)
ReadsItsOwnValue == result = "read" => pos = Len(Write(document))
=============================================================================
