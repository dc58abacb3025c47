----------------------------- MODULE NonceCache -----------------------------
(***************************************************************************)
(* The two nonce caches of HmacManager, NonceMemoryCache and               *)
(* NonceDistributedCache.  The second uses whatever IDistributedCache the  *)
(* host has registered: a Redis that all processes share, or the library's *)
(* default MemoryDistributedCache, a store of its own in each process.  An *)
(* entry is the absolute expiration it was written with; the stores below  *)
(* the caches are external and drop an entry at that instant.              *)
(* Time is counted in whole units of the policies' MaxAgeInSeconds.        *)
(***************************************************************************)
EXTENDS Integers

CONSTANTS
    Messages,           \* signed messages; Guid.NewGuid gives each a nonce of its own
    Replicas,           \* processes; a restarted process is another replica
    Redis,              \* the store shared by all of them
    DistributedCache,   \* the IDistributedCache that is registered
    CacheMaxAge         \* NonceCacheOptions.MaxAgeInSeconds of both caches

CacheTypes == {"Memory", "Distributed"}

ASSUME CacheMaxAgeAssumption == CacheMaxAge \in Nat \ {0}
ASSUME DistributedAssumption ==
    /\ DistributedCache \in {"MemoryDistributedCache", "RedisCache"}
    /\ Redis \notin Replicas \X CacheTypes

VARIABLES
    now,    \* DateTimeOffset.UtcNow of the servers
    cache   \* cache[s][n]: expiration of nonce n in store s, 0 if none

-----------------------------------------------------------------------------

Stores == (Replicas \X CacheTypes) \cup {Redis}

\* The store below the INonceCache that a policy with this Nonce.CacheType uses on r.
StoreFor(type, r) ==
    IF type = "Distributed" /\ DistributedCache = "RedisCache" THEN Redis ELSE <<r, type>>

\* Mutant: one unit short.
ExpirationOneShort(date) == date + CacheMaxAge - 1

GetAbsoluteExpiration(date) == date + CacheMaxAge

ContainsAsync(s, n) == cache[s][n] > now

(***************************************************************************)
(* What the stores do with an expiration that has already passed: those in *)
(* the process drop the entry (and the one it replaces) without a word,    *)
(* Redis's client throws ArgumentOutOfRangeException.                      *)
(***************************************************************************)
RejectsExpiration(s, date) == s = Redis /\ GetAbsoluteExpiration(date) <= now

\* Mutant: a time to live where an absolute expiration belongs, the wrong way round.
StoredBackwards(date) == now - GetAbsoluteExpiration(date)

Stored(date) ==
    IF GetAbsoluteExpiration(date) > now THEN GetAbsoluteExpiration(date) ELSE 0

\* Mutant: every write goes to one store.
SetElsewhere(s, n, date) == cache' = [cache EXCEPT ![Redis][n] = Stored(date)]

SetAsync(s, n, date) == cache' = [cache EXCEPT ![s][n] = Stored(date)]

CacheInit == cache = [s \in Stores |-> [n \in Messages |-> 0]]

CacheTypeOK == cache \in [Stores -> [Messages -> Nat]]
=============================================================================
