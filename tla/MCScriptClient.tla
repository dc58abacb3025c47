--------------------------- MODULE MCScriptClient ---------------------------
(***************************************************************************)
(* Finite instances of ScriptClient.                                       *)
(***************************************************************************)
EXTENDS ScriptClient

CONSTANTS r1, h1, v1

TheRequests == {r1}
TheHeaders == {h1}
TheValues == {v1}

A == <<"a">>
B == <<"b">>

TheNames == {A, B}
TheUnsendable == {B}

PolicyOf(name, key, accessor, schemes) ==
    [name |-> name, publicKey |-> key, privateKey |-> key, accessor |-> accessor,
     schemes |-> schemes]

SchemeOf(name, headers) == [name |-> name, headers |-> headers]

\* Keys of the first version cannot be imported.
TheUndecodable == {1}

\* A policy with an accessor; one whose scheme cannot be sent; one of two that cannot.
WithAccessor == <<PolicyOf(A, 2, TRUE, <<SchemeOf(A, <<h1>>)>>)>>
WideScheme == <<PolicyOf(A, 2, FALSE, <<SchemeOf(B, <<h1>>)>>)>>
WidePolicy == <<PolicyOf(A, 3, FALSE, <<SchemeOf(A, <<>>)>>), PolicyOf(B, 1, FALSE, <<>>)>>

TheFactories ==
    {[policies |-> WithAccessor, consolidated |-> FALSE],
     [policies |-> WideScheme, consolidated |-> FALSE],
     [policies |-> WidePolicy, consolidated |-> TRUE]}
=============================================================================
