--------------------------- MODULE IdentityCache ---------------------------
(***************************************************************************)
(* internal/identity: a Resolver asks a ChainCache of Redis and PostgreSQL *)
(* who owns an API key, and then new-api's own database.  Requests resolve *)
(* the same key concurrently; every call to a store is one step and may    *)
(* fail.                                                                   *)
(*                                                                         *)
(* Keys never share a cache entry, so one fingerprint is modelled.  A      *)
(* snapshot is reduced to the user it names.                               *)
(***************************************************************************)
EXTENDS Naturals

CONSTANTS Resolvers,   \* concurrent calls of Resolver.Resolve
          Users,
          TTL,         \* redisCacheTTL and PostgresCache's ttl, in ticks
          CallsStall,  \* whether a call may outlast a tick
          MaxTime      \* bound: the last tick

ASSUME TTLAssumption == TTL \in Nat \ {0} /\ MaxTime \in Nat
ASSUME CallsStallAssumption == CallsStall \in BOOLEAN

VARIABLES
    now,
    token,    \* the user new-api's tokens JOIN users finds for the key
    cache,    \* the entry of the key in each store
    at, snap, \* each call's progress and the snapshot it holds
    answer,   \* what each call returned last
    \* History, for the properties:
    told,     \* when new-api last named each user
    used      \* when a call last took a step

identityVars == <<now, token, cache, at, snap, answer, told, used>>

Times == 0 .. MaxTime
Stores == {"redis", "postgres"}

NoUser == "none"
ASSUME UsersAssumption == NoUser \notin Users

\* In the place of a user: the snapshot of a lookup that found no token, or failed.
Snapshots == Users \cup {NoUser}

\* A row whose expires_at has passed stays in PostgreSQL; it is never served.
Entry == [user : Users, expires : Nat]
NoEntry == [user |-> NoUser, expires |-> 0]

Places == {"idle", "redis", "postgres", "backfill_redis", "backfill_postgres",
           "lookup", "set_redis", "set_postgres"}

Answer == [status : {"none", "resolved", "not_found", "db_error"}, user : Snapshots]
NoAnswer == [status |-> "none", user |-> NoUser]

Untold == MaxTime + 1
Named(user) == user \in Users /\ told[user] # Untold

IdentityTypeOK ==
    /\ now \in Times
    /\ token \in Snapshots
    /\ cache \in [Stores -> Entry \cup {NoEntry}]
    /\ at \in [Resolvers -> Places]
    /\ snap \in [Resolvers -> Snapshots]
    /\ answer \in [Resolvers -> Answer]
    /\ told \in [Users -> Times \cup {Untold}]
    /\ used \in Times

\* Mutant: an entry is still good at the very tick it expires.
Live_inclusive(s) == now <= cache[s].expires /\ cache[s] # NoEntry

\* Redis drops a key when its TTL is over; postgresCacheGetSQL: expires_at <= now.
Live(s) == now < cache[s].expires

GoOn(r, place) == at' = [at EXCEPT ![r] = place]

Finish(r, status, user) ==
    /\ answer' = [answer EXCEPT ![r] = [status |-> status, user |-> user]]
    /\ snap' = [snap EXCEPT ![r] = NoUser]
    /\ GoOn(r, "idle")
-----------------------------------------------------------------------------
Resolve(r) ==
    /\ at[r] = "idle"
    /\ GoOn(r, "redis")
    /\ used' = now
    /\ UNCHANGED <<now, token, cache, snap, answer, told>>

\* ChainCache.Get: an entry that is found goes to every other store; a store that
\* has none, or fails, leaves it to the next.
CacheGet(r, s, found, missed) ==
    /\ at[r] = s
    /\ used' = now
    /\ \/ /\ Live(s)
          /\ snap' = [snap EXCEPT ![r] = cache[s].user]
          /\ GoOn(r, found)
       \/ /\ GoOn(r, missed)
          /\ UNCHANGED snap
    /\ UNCHANGED <<now, token, cache, answer, told>>

GetRedis(r) == CacheGet(r, "redis", "backfill_postgres", "postgres")
GetPostgres(r) == CacheGet(r, "postgres", "backfill_redis", "lookup")

\* What RedisCache.Set and PostgresCache.Set leave in their store: each write, the
\* backfill's too, begins a new TTL.
Stored(user) == [user |-> user, expires |-> now + TTL]

\* RedisCache.Set and PostgresCache.Set; their errors are dropped.
CacheSet(r, s) ==
    \/ cache' = [cache EXCEPT ![s] = Stored(snap[r])]
    \/ UNCHANGED cache

\* The backfill of ChainCache.Get, and the return of the cache hit.
Backfill(r, s, place) ==
    /\ at[r] = place
    /\ used' = now
    /\ CacheSet(r, s)
    /\ Finish(r, "resolved", snap[r])
    /\ UNCHANGED <<now, token, told>>

\* Mutant: Resolve goes on to the caches whatever the lookup has returned.
FindByCanonicalKey_unchecked(r) ==
    /\ at[r] = "lookup"
    /\ used' = now
    /\ \E user \in {token, NoUser} :
          /\ snap' = [snap EXCEPT ![r] = user]
          /\ told' = [u \in Users |-> IF u = user THEN now ELSE told[u]]
    /\ GoOn(r, "set_redis")
    /\ UNCHANGED <<now, token, cache, answer>>

\* NewAPILookup.FindByCanonicalKey, and what Resolve makes of it: only a token
\* that was found goes to the caches.
FindByCanonicalKey(r) ==
    /\ at[r] = "lookup"
    /\ used' = now
    /\ \/ /\ token # NoUser
          /\ snap' = [snap EXCEPT ![r] = token]
          /\ told' = [told EXCEPT ![token] = now]
          /\ GoOn(r, "set_redis")
          /\ UNCHANGED answer
       \/ /\ token = NoUser
          /\ Finish(r, "not_found", NoUser)
          /\ UNCHANGED told
       \/ /\ Finish(r, "db_error", NoUser)
          /\ UNCHANGED told
    /\ UNCHANGED <<now, token, cache>>

\* ChainCache.Set writes Redis, then PostgreSQL.
SetRedis(r) ==
    /\ at[r] = "set_redis"
    /\ used' = now
    /\ CacheSet(r, "redis")
    /\ GoOn(r, "set_postgres")
    /\ UNCHANGED <<now, token, snap, answer, told>>

SetPostgres(r) == Backfill(r, "postgres", "set_postgres")
-----------------------------------------------------------------------------
(* new-api renames, reassigns, deletes and restores; time passes. *)

ChangeToken(u) ==
    /\ token' = u
    /\ UNCHANGED <<now, cache, at, snap, answer, told, used>>

TimePasses ==
    /\ now < MaxTime
    /\ CallsStall \/ \A r \in Resolvers : at[r] = "idle"
    /\ now' = now + 1
    /\ UNCHANGED <<token, cache, at, snap, answer, told, used>>
-----------------------------------------------------------------------------
IdentityInit ==
    /\ now = 0
    /\ token \in Snapshots
    /\ cache = [s \in Stores |-> NoEntry]
    /\ at = [r \in Resolvers |-> "idle"]
    /\ snap = [r \in Resolvers |-> NoUser]
    /\ answer = [r \in Resolvers |-> NoAnswer]
    /\ told = [u \in Users |-> Untold]
    /\ used = 0

ResolveStep(r) ==
    \/ Resolve(r)
    \/ GetRedis(r) \/ GetPostgres(r)
    \/ Backfill(r, "redis", "backfill_redis")
    \/ Backfill(r, "postgres", "backfill_postgres")
    \/ FindByCanonicalKey(r)
    \/ SetRedis(r) \/ SetPostgres(r)

IdentityNext ==
    \/ \E r \in Resolvers : ResolveStep(r)
    \/ \E u \in Snapshots : ChangeToken(u)
    \/ TimePasses

IdentitySpec == IdentityInit /\ [][IdentityNext]_identityVars
-----------------------------------------------------------------------------
\* Whatever calls fail and however they overlap, an identity that is cached or
\* returned is one that new-api gave for this key: a missing token or a failed
\* lookup never becomes an entry, in Redis or in PostgreSQL (Resolve returns on
\* ErrTokenNotFound and on every other error before it writes to the caches; of a
\* missing token nothing is kept, so the next request asks new-api again).
AnswersWereTrue ==
    /\ \A s \in Stores : cache[s] # NoEntry => Named(cache[s].user)
    /\ \A r \in Resolvers : answer[r].status = "resolved" => Named(answer[r].user)

\* The two stores refill each other, but a key nobody has asked for during one
\* TTL is forgotten by both, so the next call asks new-api.
UnusedIsForgotten == now >= used + TTL => \A s \in Stores : ~Live(s)

\* The design: the cache of an identity lives for one TTL.  Even granting each
\* of the two stores its own TTL, new-api has named the user that is served no
\* more than two TTLs ago.
ServedIsRecent ==
    [][\A r \in Resolvers :
          at[r] # "idle" /\ at'[r] = "idle" /\ answer'[r].status = "resolved" =>
              now <= told[answer'[r].user] + 2 * TTL]_identityVars
=============================================================================
