-------------------------- MODULE MCSignedRequest --------------------------
(***************************************************************************)
(* Sites for SignedRequest over the custom headers h1 and h2: a .NET       *)
(* client with consolidated headers, one with named headers whose server   *)
(* does not know the scheme, one that signs without a scheme where the     *)
(* server has one, and the script, which has named headers only.           *)
(***************************************************************************)
EXTENDS SignedRequest

CONSTANTS h1, h2, path, a

Site(client, clientScheme, serverScheme, consolidated) ==
    [client |-> client, clientScheme |-> clientScheme, serverScheme |-> serverScheme,
     consolidated |-> consolidated]

MCSites ==
    {Site("dotnet", <<h1, h2>>, <<h1, h2>>, TRUE),
     Site("dotnet", <<h1>>, <<>>, FALSE),
     Site("dotnet", <<>>, <<h1>>, FALSE),
     Site("script", <<h1, h2>>, <<h1, h2>>, FALSE)}

\* The hash of a body the application sends is a word as well.
Hash == <<"text", "oneChunk", 1>>

MCWords == {path, a, Comma, Hash}
MCTarget == <<path>>
MCTargets == {<<path>>, <<path, a>>}
MCLines == {<<>>, <<a>>, <<a, a>>, <<a, Comma, a>>, <<Hash>>}
=============================================================================
