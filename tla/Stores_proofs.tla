--------------------------- MODULE Stores_proofs ----------------------------
(***************************************************************************)
(* What the two stores keep that several writers fill and nobody owns.     *)
(*                                                                         *)
(* IdentityCache, for every set of calls and users and every TTL: IInv adds *)
(* to the properties what a call holds between two steps: a snapshot on its *)
(* way into a store is one new-api gave, and no entry outlives the latest  *)
(* step by more than one TTL.                                              *)
(*                                                                         *)
(* UsageRollup, for any number of requests, every width of the buckets and *)
(* every window, however the statements of the two writers, the workers'   *)
(* rows and failures interleave.                                           *)
(***************************************************************************)
EXTENDS IdentityCache, UsageRollup, FiniteSetTheorems, TLAPS
-----------------------------------------------------------------------------
(* The cached identities *)

Carrying == {"backfill_redis", "backfill_postgres", "set_redis", "set_postgres"}

\* The users new-api has named.
Given == {u \in Users : told[u] # Untold}

Held == \A r \in Resolvers : at[r] \in Carrying => snap[r] \in Given

EntriesWereTrue == \A s \in Stores : cache[s] # NoEntry => cache[s].user \in Given

ReturnsWereTrue ==
    \A r \in Resolvers : answer[r].status = "resolved" => answer[r].user \in Given

Aging == \A s \in Stores : cache[s].expires <= used + TTL

Clock == used <= now

IInv == IdentityTypeOK /\ Held /\ EntriesWereTrue /\ ReturnsWereTrue /\ Aging /\ Clock

\* The start: no store has an entry, no call has begun.
LEMMA InitIInv == IdentityInit => IInv
<1> SUFFICES ASSUME IdentityInit PROVE IInv
  OBVIOUS
<1>1. IdentityTypeOK
  BY TTLAssumption DEF IdentityInit, IdentityTypeOK, Snapshots, Times, Places, Answer, NoAnswer
<1>2. Aging
  BY TTLAssumption DEF IdentityInit, Aging, NoEntry, Stores
<1> QED
  BY <1>1, <1>2 DEF IdentityInit, IInv, Clock, Held, Carrying, EntriesWereTrue, ReturnsWereTrue, NoAnswer, Given

\* RedisCache.Set and PostgresCache.Set keep the entries typed, true and within
\* one TTL of now, if the snapshot they are given is.
LEMMA SetKeepsEntries ==
    ASSUME IInv, NEW r \in Resolvers, NEW s \in Stores, CacheSet(r, s),
           snap[r] \in Given, used' = now, now' = now, told' = told
    PROVE  /\ cache' \in [Stores -> Entry \cup {NoEntry}]
           /\ EntriesWereTrue'
           /\ \A q \in Stores : cache'[q].expires <= cache[q].expires
                                \/ cache'[q].expires = now + TTL
<1> DEFINE e == Stored(snap[r])
<1>1. e \in Entry /\ e.user = snap[r] /\ e.expires = now + TTL
  BY TTLAssumption DEF IInv, IdentityTypeOK, Snapshots, Stored, Entry, Times, Given
<1>2. CASE cache' = [cache EXCEPT ![s] = e]
  <2> HIDE DEF e
  <2>1. \A q \in Stores : cache'[q] = IF q = s THEN e ELSE cache[q]
    BY <1>2 DEF IInv, IdentityTypeOK, Snapshots
  <2>2. cache' \in [Stores -> Entry \cup {NoEntry}]
    BY <1>1, <1>2 DEF IInv, IdentityTypeOK, Snapshots
  <2>3. EntriesWereTrue'
    BY <1>1, <2>1 DEF IInv, EntriesWereTrue, Given
  <2>4. \A q \in Stores : cache[q].expires \in Nat
    BY DEF IInv, IdentityTypeOK, Snapshots, Entry, NoEntry
  <2> QED
    BY <1>1, <2>1, <2>2, <2>3, <2>4
<1>3. CASE UNCHANGED cache
  <2>1. \A q \in Stores : cache[q].expires \in Nat
    BY DEF IInv, IdentityTypeOK, Snapshots, Entry, NoEntry
  <2> QED
    BY <1>3, <2>1 DEF IInv, IdentityTypeOK, Snapshots, EntriesWereTrue, Given
<1> QED
  BY <1>2, <1>3 DEF CacheSet

\* A call's step keeps Aging and Clock when the entries it leaves behind are old
\* ones or stored now: used moves up to now.
LEMMA AgingStep ==
    ASSUME IInv, used' = now, now' = now,
           \A q \in Stores : cache'[q].expires <= cache[q].expires
                              \/ cache'[q].expires = now + TTL,
           cache' \in [Stores -> Entry \cup {NoEntry}]
    PROVE  Aging' /\ Clock'
<1>1. now \in Nat /\ used \in Nat /\ used <= now
  BY DEF IInv, IdentityTypeOK, Snapshots, Times, Clock
<1>2. \A q \in Stores : cache[q].expires \in Nat /\ cache'[q].expires \in Nat
  BY DEF IInv, IdentityTypeOK, Snapshots, Entry, NoEntry
<1>3. ASSUME NEW q \in Stores PROVE cache'[q].expires <= now + TTL
  <2>1. cache[q].expires <= used + TTL
    BY DEF IInv, Aging
  <2> QED
    BY <1>1, <1>2, <2>1, TTLAssumption
<1> QED
  BY <1>1, <1>3 DEF Aging, Clock

\* The same for a call's step that leaves the stores alone.
LEMMA ReadStep ==
    ASSUME IInv, used' = now, now' = now, UNCHANGED cache
    PROVE  Aging' /\ Clock'
<1>1. \A q \in Stores : cache[q].expires \in Nat
  BY DEF IInv, IdentityTypeOK, Snapshots, Entry, NoEntry
<1> QED
  BY <1>1, AgingStep DEF IInv, IdentityTypeOK, Snapshots

\* ChainCache.Get on either store.
LEMMA GetStep ==
    ASSUME IInv, NEW r \in Resolvers, NEW s \in Stores,
           NEW found \in Carrying, NEW missed \in Places \ Carrying,
           CacheGet(r, s, found, missed)
    PROVE  IInv'
<1>1. cache[s].expires \in Nat /\ now \in Nat
  BY DEF IInv, IdentityTypeOK, Snapshots, Entry, NoEntry, Times
<1>2. Live(s) => cache[s].user \in Given
  BY <1>1 DEF IInv, Live, EntriesWereTrue, NoEntry, Given
<1>3. found \in Places
  BY DEF Carrying, Places
<1>4. IdentityTypeOK'
  BY <1>2, <1>3 DEF IInv, IdentityTypeOK, Snapshots, CacheGet, GoOn, Given
<1>5. Held'
  BY <1>2 DEF IInv, IdentityTypeOK, Snapshots, Held, CacheGet, GoOn, Given
<1>6. EntriesWereTrue' /\ ReturnsWereTrue'
  BY DEF IInv, EntriesWereTrue, ReturnsWereTrue, CacheGet, Given
<1>7. Aging' /\ Clock'
  BY ReadStep DEF CacheGet
<1> QED
  BY <1>4, <1>5, <1>6, <1>7 DEF IInv

\* The last step of a call that has a snapshot: store it, return it.
LEMMA BackfillStep ==
    ASSUME IInv, NEW r \in Resolvers, NEW s \in Stores, NEW label \in Carrying,
           Backfill(r, s, label)
    PROVE  IInv'
<1>1. snap[r] \in Given
  BY DEF IInv, Held, Backfill, Given
<1>2. CacheSet(r, s) /\ used' = now /\ UNCHANGED <<now, token, told>>
  BY DEF Backfill
<1>3. /\ cache' \in [Stores -> Entry \cup {NoEntry}]
      /\ EntriesWereTrue'
      /\ \A q \in Stores : cache'[q].expires <= cache[q].expires
                            \/ cache'[q].expires = now + TTL
  BY <1>1, <1>2, SetKeepsEntries
<1>4. /\ at' = [at EXCEPT ![r] = "idle"]
      /\ snap' = [snap EXCEPT ![r] = NoUser]
      /\ answer' = [answer EXCEPT ![r] = [status |-> "resolved", user |-> snap[r]]]
  BY DEF Backfill, Finish, GoOn
<1>5. [status |-> "resolved", user |-> snap[r]] \in Answer
  BY <1>1 DEF Answer, Snapshots, Given
<1>6. IdentityTypeOK'
  BY <1>2, <1>3, <1>4, <1>5 DEF IInv, IdentityTypeOK, Snapshots, Places
<1>7. Held'
  BY <1>2, <1>4 DEF IInv, IdentityTypeOK, Snapshots, Held, Carrying, Given
<1>8. ReturnsWereTrue'
  BY <1>1, <1>2, <1>4 DEF IInv, IdentityTypeOK, Snapshots, ReturnsWereTrue, Given
<1>9. Aging' /\ Clock'
  BY <1>2, <1>3, AgingStep
<1> QED
  BY <1>3, <1>6, <1>7, <1>8, <1>9 DEF IInv

\* NewAPILookup.FindByCanonicalKey.
LEMMA LookupStep ==
    ASSUME IInv, NEW r \in Resolvers, FindByCanonicalKey(r)
    PROVE  IInv'
<1>1. /\ Untold \notin Times /\ now \in Times
      /\ token # NoUser => token \in Users
  BY TTLAssumption DEF IInv, IdentityTypeOK, Untold, Times, Snapshots
<1>2. Aging' /\ Clock'
  BY ReadStep DEF FindByCanonicalKey
<1>3. CASE /\ token # NoUser
           /\ told' = [told EXCEPT ![token] = now]
           /\ snap' = [snap EXCEPT ![r] = token]
           /\ at' = [at EXCEPT ![r] = "set_redis"]
           /\ UNCHANGED <<now, token, cache, answer>>
           /\ used' = now
  <2>1. IdentityTypeOK'
    BY <1>1, <1>3 DEF IInv, IdentityTypeOK, Places, Snapshots
  <2>2. \A u \in Users : told'[u] = IF u = token THEN now ELSE told[u]
    BY <1>3 DEF IInv, IdentityTypeOK, Snapshots
  <2>3. token \in Given' /\ \A u \in Given : u \in Given'
    BY <1>1, <1>3, <2>2 DEF Given, Untold
  <2>4. Held' /\ EntriesWereTrue' /\ ReturnsWereTrue'
    BY <1>3, <2>3 DEF IInv, IdentityTypeOK, Snapshots, Held, EntriesWereTrue, ReturnsWereTrue
  <2> QED
    BY <1>2, <2>1, <2>4 DEF IInv
<1>4. ASSUME NEW status \in {"not_found", "db_error"},
             Finish(r, status, NoUser), UNCHANGED <<now, token, told, cache>>, used' = now
      PROVE  IInv'
  <2>1. [status |-> status, user |-> NoUser] \in Answer
    BY DEF Answer, Snapshots
  <2>2. IdentityTypeOK'
    BY <1>4, <2>1 DEF IInv, IdentityTypeOK, Snapshots, Finish, GoOn, Places
  <2>3. Held'
    BY <1>4 DEF IInv, IdentityTypeOK, Snapshots, Held, Finish, GoOn, Carrying, Given
  <2>4. EntriesWereTrue' /\ ReturnsWereTrue'
    BY <1>4 DEF IInv, IdentityTypeOK, Snapshots, EntriesWereTrue, ReturnsWereTrue, Finish, Given
  <2> QED
    BY <1>2, <2>2, <2>3, <2>4 DEF IInv
<1> QED
  BY <1>3, <1>4 DEF FindByCanonicalKey, GoOn

\* ChainCache.Set on its first store.
LEMMA SetRedisStep ==
    ASSUME IInv, NEW r \in Resolvers, SetRedis(r)
    PROVE  IInv'
<1>1. snap[r] \in Given
  BY DEF IInv, Held, SetRedis, Carrying, Given
<1>2. /\ cache' \in [Stores -> Entry \cup {NoEntry}]
      /\ EntriesWereTrue'
      /\ \A q \in Stores : cache'[q].expires <= cache[q].expires
                            \/ cache'[q].expires = now + TTL
  BY <1>1, SetKeepsEntries DEF SetRedis, Stores
<1>3. IdentityTypeOK'
  BY <1>2 DEF IInv, IdentityTypeOK, Snapshots, SetRedis, GoOn, Places
<1>4. Held'
  BY <1>1 DEF IInv, IdentityTypeOK, Snapshots, Held, SetRedis, GoOn, Given
<1>5. ReturnsWereTrue'
  BY DEF IInv, ReturnsWereTrue, SetRedis, Given
<1>6. Aging' /\ Clock'
  BY <1>2, AgingStep DEF SetRedis
<1> QED
  BY <1>2, <1>3, <1>4, <1>5, <1>6 DEF IInv

\* Every step of every call, of new-api and of the clock keeps IInv.
LEMMA NextIInv == IInv /\ [IdentityNext]_identityVars => IInv'
<1> SUFFICES ASSUME IInv, [IdentityNext]_identityVars PROVE IInv'
  OBVIOUS
<1>1. ASSUME NEW r \in Resolvers, Resolve(r) PROVE IInv'
  <2>1. IdentityTypeOK'
    BY <1>1 DEF IInv, IdentityTypeOK, Snapshots, Resolve, GoOn, Places
  <2>2. Held' /\ EntriesWereTrue' /\ ReturnsWereTrue'
    BY <1>1 DEF IInv, IdentityTypeOK, Snapshots, Held, Carrying, EntriesWereTrue, ReturnsWereTrue, Resolve, GoOn, Given
  <2>3. Aging' /\ Clock'
    BY <1>1, ReadStep DEF Resolve
  <2> QED
    BY <2>1, <2>2, <2>3 DEF IInv
<1>2. ASSUME NEW r \in Resolvers, GetRedis(r) PROVE IInv'
  BY <1>2, GetStep DEF GetRedis, Stores, Carrying, Places
<1>3. ASSUME NEW r \in Resolvers, GetPostgres(r) PROVE IInv'
  BY <1>3, GetStep DEF GetPostgres, Stores, Carrying, Places
<1>4. ASSUME NEW r \in Resolvers,
             \/ Backfill(r, "redis", "backfill_redis")
             \/ Backfill(r, "postgres", "backfill_postgres")
             \/ SetPostgres(r)
      PROVE  IInv'
  BY <1>4, BackfillStep DEF SetPostgres, Stores, Carrying
<1>5. ASSUME NEW u \in Snapshots, ChangeToken(u) PROVE IInv'
  BY <1>5 DEF IInv, IdentityTypeOK, Snapshots, Held, EntriesWereTrue, ReturnsWereTrue, Aging, Clock, ChangeToken, Given
<1>6. CASE TimePasses
  <2>1. now \in Nat /\ used \in Nat /\ now' = now + 1 /\ now' \in Times
    BY <1>6, TTLAssumption DEF IInv, IdentityTypeOK, Snapshots, Times, TimePasses
  <2>2. IdentityTypeOK'
    BY <1>6, <2>1 DEF IInv, IdentityTypeOK, Snapshots, TimePasses
  <2>3. Clock'
    BY <1>6, <2>1 DEF IInv, Clock, TimePasses
  <2> QED
    BY <1>6, <2>2, <2>3
    DEF IInv, Held, EntriesWereTrue, ReturnsWereTrue, Aging, TimePasses, Given
<1>7. CASE UNCHANGED identityVars
  BY <1>7 DEF identityVars, IInv, IdentityTypeOK, Snapshots, Held, EntriesWereTrue, ReturnsWereTrue, Aging, Clock, Given
<1> QED
  BY <1>1, <1>2, <1>3, <1>4, <1>5, <1>6, <1>7, LookupStep, SetRedisStep DEF IdentityNext, ResolveStep

\* Every variable keeps its type.
THEOREM CacheTypes == IdentitySpec => []IdentityTypeOK
<1>1. IInv => IdentityTypeOK
  BY DEF IInv
<1> QED
  BY InitIInv, NextIInv, <1>1, PTL DEF IdentitySpec

\* An identity that either store holds or any call returns is one new-api gave.
THEOREM CachedIdentitiesWereTrue == IdentitySpec => []AnswersWereTrue
<1>1. IInv => AnswersWereTrue
  BY DEF IInv, EntriesWereTrue, ReturnsWereTrue, AnswersWereTrue, Given, Named
<1> QED
  BY InitIInv, NextIInv, <1>1, PTL DEF IdentitySpec

\* A key that no call has touched for one TTL is live in neither store.
THEOREM UnusedKeysAreForgotten == IdentitySpec => []UnusedIsForgotten
<1>1. IInv => UnusedIsForgotten
  <2> SUFFICES ASSUME IInv, now >= used + TTL, NEW s \in Stores PROVE ~Live(s)
    BY DEF UnusedIsForgotten
  <2>1. cache[s].expires \in Nat /\ now \in Nat /\ used \in Nat
    BY DEF IInv, IdentityTypeOK, Snapshots, Entry, NoEntry, Times
  <2>2. cache[s].expires <= used + TTL
    BY DEF IInv, Aging
  <2> QED
    BY <2>1, <2>2, TTLAssumption DEF Live
<1> QED
  BY InitIInv, NextIInv, <1>1, PTL DEF IdentitySpec
-----------------------------------------------------------------------------
(* The usage aggregates *)

Count(b) == Cardinality(FactsIn(b))

\* The requests that were recorded before x's transaction began.
Before(x, b) == {f \in FactsIn(b) : f.recorded < tx[x].began}
Old(x, b) == Cardinality(Before(x, b))

\* Nothing a writer has read or is about to commit counts more than there is.
Bounded(x) == \A b \in Buckets : tx[x].rows[b] <= Count(b) /\ tx[x].value[b] <= Count(b)

\* The SELECT for a size has seen what is old, and nothing of the other size.
Read(x) ==
    \A b \in Buckets :
        /\ b[1] # tx[x].size => tx[x].rows[b] = 0
        /\ b[1] = tx[x].size /\ InScope(x, b) => tx[x].rows[b] >= Old(x, b)

\* The rows of a size are written.
Upsert(x, size) ==
    \A b \in Buckets : b[1] = size /\ InScope(x, b) =>
        Old(x, b) = 0 \/ (b \in tx[x].locked /\ tx[x].value[b] >= Old(x, b))

Progress(x) ==
    /\ tx[x].pc \in {"delete", "select", "write", "commit"} => tx[x].began <= clock
    /\ tx[x].pc = "delete" => tx[x].size = "hour"
    /\ tx[x].pc = "commit" => tx[x].size = "day"
    /\ tx[x].pc = "write" => Read(x)
    /\ tx[x].pc \in {"select", "write", "commit"} /\ tx[x].size = "day" => Upsert(x, "hour")
    /\ tx[x].pc = "commit" => Upsert(x, "day")

RollupIInv ==
    /\ RollupTypeOK
    /\ IsFiniteSet(facts)
    /\ NeverOvercounts
    /\ \A x \in Writers : Bounded(x)
    /\ \A x \in Writers : Progress(x)
-----------------------------------------------------------------------------
(* Facts and their counts *)

LEMMA CountsAreNat ==
    ASSUME IsFiniteSet(facts)
    PROVE  \A b \in Buckets : /\ IsFiniteSet(FactsIn(b)) /\ Count(b) \in Nat
                              /\ \A x \in Writers : Old(x, b) \in Nat
<1> SUFFICES ASSUME NEW b \in Buckets
             PROVE  /\ IsFiniteSet(FactsIn(b)) /\ Count(b) \in Nat
                    /\ \A x \in Writers : Old(x, b) \in Nat
  OBVIOUS
<1>1. IsFiniteSet(FactsIn(b))
  BY FS_Subset DEF FactsIn
<1>2. \A x \in Writers : IsFiniteSet(Before(x, b))
  BY <1>1, FS_Subset DEF Before
<1> QED
  BY <1>1, <1>2, FS_CardinalityType DEF Count, Old

\* A fact started no earlier than its bucket.
LEMMA StartsBefore ==
    ASSUME NEW w \in Nat \ {0}, NEW s \in Nat
    PROVE  (s \div w) * w <= s /\ (s \div w) * w \in Nat
<1>1. s \div w \in Nat
  OBVIOUS
<1> QED
  BY <1>1

\* ... and before its bucket's end.
LEMMA EndsAfter ==
    ASSUME NEW w \in Nat \ {0}, NEW s \in Nat
    PROVE  s < (s \div w) * w + w
<1>1. s \div w \in Nat
  OBVIOUS
<1>2. (s \div w) * w + w = ((s \div w) + 1) * w
  BY <1>1
<1> QED
  BY <1>1, <1>2

LEMMA InScopeIsSummed ==
    ASSUME RollupTypeOK, NEW x \in Writers, NEW b \in Buckets, InScope(x, b), NEW f \in FactsIn(b)
    PROVE  Summed(x, f)
<1>1. f.started \in Nat /\ b = Bucket(b[1], f.started)
  BY DEF RollupTypeOK, Fact, FactsIn, Ticks
<1>2. Width(b[1]) \in Nat \ {0}
  BY WidthsAssumption DEF Width
<1>3. b[2] = (f.started \div Width(b[1])) * Width(b[1])
  BY <1>1 DEF Bucket
<1>4. b[2] <= f.started /\ b[2] \in Nat
  BY <1>1, <1>2, <1>3, StartsBefore
<1>5. RollupWindow \in Nat /\ tx[x].began \in Nat
  BY TimesAssumption DEF RollupTypeOK, Transaction, Ticks
<1> QED
  BY <1>1, <1>4, <1>5 DEF InScope, Summed, InWindow, Start
-----------------------------------------------------------------------------
(* The steps *)

\* What a writer's state says of it does not depend on the other writer.
LEMMA SameWriter ==
    ASSUME NEW x \in Writers, Bounded(x), Progress(x),
           tx'[x] = tx[x], UNCHANGED <<facts, clock>>
    PROVE  Bounded(x)' /\ Progress(x)'
<1>1. Bounded(x)'
  BY DEF Bounded, Count, FactsIn
<1>2. \A b \in Buckets : Old(x, b)' = Old(x, b) /\ (InScope(x, b)' <=> InScope(x, b))
  BY DEF Old, Before, FactsIn, InScope, InWindow
<1>3. Progress(x)'
  BY <1>2 DEF Progress, Read, Upsert
<1> QED
  BY <1>1, <1>3

\* A step of x within its transaction.
LEMMA TxStep ==
    ASSUME RollupIInv, NEW x \in Writers, tx' \in [Writers -> Transaction],
           \A y \in Writers \ {x} : tx'[y] = tx[y],
           UNCHANGED <<clock, facts, agg>>, last_full' \in Ticks \cup {Never},
           Bounded(x)', Progress(x)'
    PROVE  RollupIInv'
<1>1. RollupTypeOK'
  BY DEF RollupIInv, RollupTypeOK
<1>2. NeverOvercounts' /\ IsFiniteSet(facts)'
  BY DEF RollupIInv, NeverOvercounts, FactsIn
<1>3. \A y \in Writers \ {x} : Bounded(y)' /\ Progress(y)'
  BY SameWriter DEF RollupIInv
<1> QED
  BY <1>1, <1>2, <1>3 DEF RollupIInv

LEMMA IdleIsTransaction ==
    /\ Idle \in Transaction /\ Idle.pc = "idle" /\ Idle.size = "hour"
    /\ \A b \in Buckets : Idle.rows[b] = 0 /\ Idle.value[b] = 0
<1>1. NoRows \in [Buckets -> Nat] /\ \A b \in Buckets : NoRows[b] = 0
  BY DEF NoRows
<1>2. 0 \in Ticks
  BY TimesAssumption DEF Ticks
<1> HIDE DEF NoRows
<1> QED
  BY <1>1, <1>2 DEF Idle, Transaction

\* A writer that begins anew, or ends, has read and written nothing.
LEMMA Fresh ==
    ASSUME IsFiniteSet(facts), NEW x \in Writers, UNCHANGED <<clock, facts>>,
           tx'[x].pc \in {"idle", "delete", "record"},
           tx'[x].pc = "delete" => tx'[x].size = "hour" /\ tx'[x].began <= clock,
           \A b \in Buckets : tx'[x].rows[b] = 0 /\ tx'[x].value[b] = 0
    PROVE  Bounded(x)' /\ Progress(x)'
<1>1. \A b \in Buckets : Count(b)' = Count(b) /\ Count(b) \in Nat
  BY CountsAreNat DEF Count, FactsIn
<1>2. \A b \in Buckets : 0 <= Count(b)'
  BY <1>1
<1>3. Bounded(x)'
  BY <1>2 DEF Bounded
<1>4. Progress(x)'
  BY DEF Progress
<1> QED
  BY <1>3, <1>4

LEMMA BeginStep ==
    ASSUME RollupIInv, NEW x \in Writers, Begin(x)
    PROVE  RollupIInv'
<1> DEFINE new == [Idle EXCEPT !.pc = "delete", !.began = clock]
<1>1. clock \in Ticks /\ clock <= clock /\ IsFiniteSet(facts) /\ last_full \in Ticks \cup {Never}
  BY DEF RollupIInv, RollupTypeOK, Ticks
<1>2. tx' = [tx EXCEPT ![x] = new] /\ UNCHANGED <<clock, facts, agg, last_full>>
  BY DEF Begin
<1>3. /\ new \in Transaction /\ new.pc = "delete" /\ new.size = "hour" /\ new.began = clock
      /\ \A b \in Buckets : new.rows[b] = 0 /\ new.value[b] = 0
  BY <1>1, IdleIsTransaction, Zenon DEF Transaction
<1> HIDE DEF new
<1>4. /\ tx' \in [Writers -> Transaction] /\ tx'[x] = new
      /\ \A y \in Writers \ {x} : tx'[y] = tx[y]
  BY <1>2, <1>3 DEF RollupIInv, RollupTypeOK
<1>5. Bounded(x)' /\ Progress(x)'
  BY <1>1, <1>2, <1>3, <1>4, Fresh
<1> QED
  BY <1>1, <1>2, <1>4, <1>5, TxStep

LEMMA EndStep ==
    ASSUME RollupIInv, NEW x \in Writers, tx' = [tx EXCEPT ![x] = Idle],
           UNCHANGED <<clock, facts, agg>>, last_full' \in Ticks \cup {Never}
    PROVE  RollupIInv'
<1>1. /\ tx' \in [Writers -> Transaction] /\ tx'[x] = Idle
      /\ \A y \in Writers \ {x} : tx'[y] = tx[y]
  BY IdleIsTransaction DEF RollupIInv, RollupTypeOK
<1>2. Bounded(x)' /\ Progress(x)'
  BY <1>1, IdleIsTransaction, Fresh DEF RollupIInv
<1> QED
  BY <1>1, <1>2, TxStep

LEMMA DeleteStep ==
    ASSUME RollupIInv, NEW x \in Writers, Delete(x)
    PROVE  RollupIInv'
<1>1. PICK rows \in SUBSET Buckets : tx' = [tx EXCEPT ![x].pc = "select", ![x].locked = rows]
  BY DEF Delete
<1>2. /\ tx[x] \in Transaction /\ tx \in [Writers -> Transaction] /\ tx[x].pc = "delete"
      /\ UNCHANGED <<clock, facts, agg, last_full>>
  BY DEF RollupIInv, RollupTypeOK, Delete
<1>3. /\ tx' \in [Writers -> Transaction]
      /\ \A y \in Writers \ {x} : tx'[y] = tx[y]
      /\ tx'[x].pc = "select" /\ tx'[x].size = tx[x].size /\ tx'[x].began = tx[x].began
      /\ tx'[x].rows = tx[x].rows /\ tx'[x].value = tx[x].value
  BY <1>1, <1>2, Zenon DEF Transaction
<1>4. Bounded(x)'
  BY <1>2, <1>3 DEF RollupIInv, Bounded, Count, FactsIn
<1>5. Progress(x)'
  BY <1>2, <1>3 DEF RollupIInv, Progress
<1>6. last_full' \in Ticks \cup {Never}
  BY <1>2 DEF RollupIInv, RollupTypeOK
<1> QED
  BY <1>2, <1>3, <1>4, <1>5, <1>6, TxStep

\* What is old when the SELECT runs is among what it sums up.
LEMMA SelectStep ==
    ASSUME RollupIInv, NEW x \in Writers, SelectFacts(x)
    PROVE  RollupIInv'
<1> DEFINE seen == [b \in Buckets |->
              IF b[1] = tx[x].size
              THEN Cardinality({f \in FactsIn(b) : Summed(x, f)}) ELSE 0]
<1>1. /\ tx[x] \in Transaction /\ tx \in [Writers -> Transaction] /\ tx[x].pc = "select"
      /\ UNCHANGED <<clock, facts, agg, last_full>> /\ last_full \in Ticks \cup {Never}
      /\ tx' = [tx EXCEPT ![x].pc = "write", ![x].rows = seen]
  BY DEF RollupIInv, RollupTypeOK, SelectFacts
<1>2. ASSUME NEW b \in Buckets
      PROVE  /\ seen[b] \in Nat /\ seen[b] <= Count(b)
             /\ b[1] # tx[x].size => seen[b] = 0
             /\ b[1] = tx[x].size /\ InScope(x, b) => seen[b] >= Old(x, b)
  <2>1. IsFiniteSet(FactsIn(b)) /\ Count(b) \in Nat
    BY CountsAreNat DEF RollupIInv
  <2> DEFINE S == {f \in FactsIn(b) : Summed(x, f)}
  <2>2. IsFiniteSet(S) /\ Cardinality(S) \in Nat /\ Cardinality(S) <= Count(b)
    BY <2>1, FS_Subset, FS_CardinalityType DEF Count
  <2>3. InScope(x, b) => Cardinality(S) >= Old(x, b) /\ Old(x, b) \in Nat
    <3>1. SUFFICES ASSUME InScope(x, b) PROVE Cardinality(S) >= Old(x, b) /\ Old(x, b) \in Nat
      OBVIOUS
    <3>2. Before(x, b) \in SUBSET S
      BY <3>1, InScopeIsSummed DEF RollupIInv, Before
    <3>3. Cardinality(Before(x, b)) <= Cardinality(S) /\ Old(x, b) \in Nat
      BY <2>2, <3>2, FS_Subset, CountsAreNat DEF RollupIInv
    <3> QED
      BY <2>2, <3>3 DEF Old
  <2>4. seen[b] = IF b[1] = tx[x].size THEN Cardinality(S) ELSE 0
    OBVIOUS
  <2> HIDE DEF seen, S
  <2> QED
    BY <2>1, <2>2, <2>3, <2>4
<1>3. seen \in [Buckets -> Nat]
  BY <1>2
<1> HIDE DEF seen
<1>4. /\ tx' \in [Writers -> Transaction]
      /\ \A y \in Writers \ {x} : tx'[y] = tx[y]
      /\ tx'[x].pc = "write" /\ tx'[x].size = tx[x].size /\ tx'[x].began = tx[x].began
      /\ tx'[x].rows = seen /\ tx'[x].value = tx[x].value /\ tx'[x].locked = tx[x].locked
  BY <1>1, <1>3, Zenon DEF Transaction
<1>6. Bounded(x)'
  <2> SUFFICES ASSUME NEW b \in Buckets
               PROVE  tx'[x].rows[b] <= Count(b)' /\ tx'[x].value[b] <= Count(b)'
    BY DEF Bounded
  <2>1. seen[b] <= Count(b) /\ tx[x].value[b] <= Count(b)
    BY <1>2 DEF RollupIInv, Bounded
  <2>2. tx'[x].rows[b] = seen[b] /\ tx'[x].value[b] = tx[x].value[b]
    BY <1>4
  <2>3. Count(b)' = Count(b)
    BY <1>1 DEF Count, FactsIn
  <2> QED
    BY <2>1, <2>2, <2>3, Zenon
<1>7. Progress(x)'
  <2>1. Read(x)'
    <3> SUFFICES ASSUME NEW b \in Buckets
                 PROVE  /\ b[1] # tx'[x].size => tx'[x].rows[b] = 0
                        /\ b[1] = tx'[x].size /\ InScope(x, b)' => tx'[x].rows[b] >= Old(x, b)'
      BY DEF Read
    <3>1. tx'[x].rows[b] = seen[b] /\ tx'[x].size = tx[x].size
      BY <1>4
    <3>2. Old(x, b)' = Old(x, b) /\ (InScope(x, b)' <=> InScope(x, b))
      BY <1>1, <1>4 DEF Old, Before, FactsIn, InScope, InWindow
    <3> QED
      BY <1>2, <3>1, <3>2, Zenon
  <2>2. tx[x].size = "day" => Upsert(x, "hour")'
    <3>1. tx[x].size = "day" => Upsert(x, "hour")
      BY <1>1 DEF RollupIInv, Progress
    <3>2. tx'[x].locked = tx[x].locked /\ tx'[x].value = tx[x].value
      BY <1>4
    <3> SUFFICES ASSUME tx[x].size = "day", NEW b \in Buckets, b[1] = "hour", InScope(x, b)'
                 PROVE  Old(x, b)' = 0
                        \/ (b \in tx'[x].locked /\ tx'[x].value[b] >= Old(x, b)')
      BY DEF Upsert
    <3>3. Old(x, b)' = Old(x, b) /\ (InScope(x, b)' <=> InScope(x, b))
      BY <1>1, <1>4 DEF Old, Before, FactsIn, InScope, InWindow
    <3>4. Old(x, b) = 0 \/ (b \in tx[x].locked /\ tx[x].value[b] >= Old(x, b))
      BY <3>1, <3>3 DEF Upsert
    <3> QED
      BY <3>2, <3>3, <3>4, Zenon
  <2> QED
    BY <1>1, <1>4, <2>1, <2>2 DEF RollupIInv, Progress
<1> QED
  BY <1>1, <1>4, <1>6, <1>7, TxStep

\* The upsert replaces: what is written is what was read.
LEMMA WriteStep ==
    ASSUME RollupIInv, NEW x \in Writers, UpsertRows(x)
    PROVE  RollupIInv'
<1> DEFINE rows == {b \in Buckets : tx[x].rows[b] > 0}
           written == [b \in Buckets |-> IF b \in rows THEN tx[x].rows[b] ELSE tx[x].value[b]]
           label == IF tx[x].size = "hour" THEN "select" ELSE "commit"
           locked == tx[x].locked \cup rows
<1>1. /\ tx[x] \in Transaction /\ tx \in [Writers -> Transaction] /\ tx[x].pc = "write"
      /\ UNCHANGED <<clock, facts, agg, last_full>> /\ last_full \in Ticks \cup {Never}
      /\ tx' = [tx EXCEPT ![x].pc = label, ![x].size = "day", ![x].locked = locked,
                          ![x].value = written]
  BY ZenonT(30) DEF RollupIInv, RollupTypeOK, UpsertRows, Upserted
<1>2. written \in [Buckets -> Nat] /\ locked \in SUBSET Buckets /\ label \in {"select", "commit"}
  BY <1>1, Zenon DEF Transaction
<1>3. ASSUME NEW b \in Buckets
      PROVE  /\ tx[x].rows[b] \in Nat /\ tx[x].value[b] \in Nat
             /\ tx[x].rows[b] > 0 => b \in locked /\ written[b] = tx[x].rows[b]
             /\ tx[x].rows[b] = 0 => written[b] = tx[x].value[b]
             /\ b \in tx[x].locked => b \in locked
  <2>1. tx[x].rows[b] \in Nat /\ tx[x].value[b] \in Nat
    BY <1>1, Zenon DEF Transaction
  <2>2. written[b] = IF tx[x].rows[b] > 0 THEN tx[x].rows[b] ELSE tx[x].value[b]
    OBVIOUS
  <2>3. tx[x].rows[b] > 0 \/ b \in tx[x].locked => b \in locked
    OBVIOUS
  <2> HIDE DEF written, locked
  <2> QED
    BY <2>1, <2>2, <2>3
<1>4. label = IF tx[x].size = "hour" THEN "select" ELSE "commit"
  OBVIOUS
<1> HIDE DEF written, locked, label
<1>5. /\ tx' \in [Writers -> Transaction]
      /\ \A y \in Writers \ {x} : tx'[y] = tx[y]
      /\ tx'[x].pc = label /\ tx'[x].size = "day" /\ tx'[x].began = tx[x].began
      /\ tx'[x].rows = tx[x].rows /\ tx'[x].value = written /\ tx'[x].locked = locked
  BY <1>1, <1>2, Zenon DEF Transaction
<1>7. \A b \in Buckets : Old(x, b) \in Nat /\ Count(b) \in Nat
  BY CountsAreNat DEF RollupIInv
<1>8. Bounded(x)'
  <2> SUFFICES ASSUME NEW b \in Buckets
               PROVE  tx'[x].rows[b] <= Count(b)' /\ tx'[x].value[b] <= Count(b)'
    BY DEF Bounded
  <2>1. tx[x].rows[b] <= Count(b) /\ tx[x].value[b] <= Count(b)
    BY DEF RollupIInv, Bounded
  <2>2. written[b] = tx[x].rows[b] \/ written[b] = tx[x].value[b]
    <3>1. tx[x].rows[b] \in Nat
      BY <1>3
    <3>2. tx[x].rows[b] > 0 \/ tx[x].rows[b] = 0
      BY <3>1
    <3> QED
      BY <1>3, <3>2, Zenon
  <2>3. tx'[x].rows[b] = tx[x].rows[b] /\ tx'[x].value[b] = written[b]
    BY <1>5
  <2>4. Count(b)' = Count(b)
    BY <1>1 DEF Count, FactsIn
  <2> QED
    BY <2>1, <2>2, <2>3, <2>4, Zenon
<1>9. Read(x) /\ (tx[x].size = "day" => Upsert(x, "hour")) /\ tx[x].began <= clock
  BY <1>1 DEF RollupIInv, Progress
<1>10. ASSUME NEW size, size = tx[x].size PROVE Upsert(x, size)'
  <2> SUFFICES ASSUME NEW b \in Buckets, b[1] = size, InScope(x, b)'
               PROVE  Old(x, b)' = 0 \/ (b \in tx'[x].locked /\ tx'[x].value[b] >= Old(x, b)')
    BY DEF Upsert
  <2>0. Old(x, b)' = Old(x, b) /\ (InScope(x, b)' <=> InScope(x, b))
    BY <1>1, <1>5, Zenon DEF Old, Before, FactsIn, InScope, InWindow
  <2>1. tx[x].rows[b] >= Old(x, b) /\ Old(x, b)' = Old(x, b)
    BY <1>9, <1>10, <2>0 DEF Read
  <2>2. CASE tx[x].rows[b] > 0
    BY <1>3, <1>5, <2>1, <2>2, Zenon
  <2>3. CASE ~(tx[x].rows[b] > 0)
    <3>1. tx[x].rows[b] \in Nat /\ Old(x, b) \in Nat
      BY <1>3, <1>7, Zenon
    <3>2. Old(x, b) = 0
      BY <2>1, <2>3, <3>1
    <3> QED
      BY <2>1, <3>2, Zenon
  <2> QED
    BY <2>2, <2>3
<1>11. ASSUME tx[x].size = "day" PROVE Upsert(x, "hour")'
  <2> SUFFICES ASSUME NEW b \in Buckets, b[1] = "hour", InScope(x, b)'
               PROVE  Old(x, b)' = 0 \/ (b \in tx'[x].locked /\ tx'[x].value[b] >= Old(x, b)')
    BY DEF Upsert
  <2>0. Old(x, b)' = Old(x, b) /\ (InScope(x, b)' <=> InScope(x, b))
    BY <1>1, <1>5 DEF Old, Before, FactsIn, InScope, InWindow
  <2>1. tx[x].rows[b] = 0
    BY <1>9, <1>11, Zenon DEF Read
  <2>2. Old(x, b) = 0 \/ (b \in tx[x].locked /\ tx[x].value[b] >= Old(x, b))
    BY <1>9, <1>11, <2>0, Zenon DEF Upsert
  <2> QED
    BY <1>3, <1>5, <2>0, <2>1, <2>2, Zenon
<1>12. Progress(x)'
  BY <1>1, <1>2, <1>4, <1>5, <1>9, <1>10, <1>11, Zenon DEF Progress, Transaction
<1> QED
  BY <1>1, <1>5, <1>8, <1>12, TxStep

\* A commit publishes what it has written, of which nothing is too much.
LEMMA CommitStep ==
    ASSUME RollupIInv, NEW x \in Writers, Commit(x)
    PROVE  RollupIInv'
<1> DEFINE new == IF x = "rollup" THEN Idle
                  ELSE [Idle EXCEPT !.pc = "record", !.began = tx[x].began]
<1>1. /\ RollupTypeOK /\ IsFiniteSet(facts) /\ tx \in [Writers -> Transaction]
      /\ tx[x] \in Transaction /\ tx[x].began \in Ticks /\ agg \in [Buckets -> Nat]
  BY DEF RollupIInv, RollupTypeOK, Transaction
<1>2. /\ UNCHANGED <<clock, facts, last_full>> /\ tx' = [tx EXCEPT ![x] = new]
      /\ agg' = [b \in Buckets |-> IF b \in tx[x].locked THEN tx[x].value[b] ELSE agg[b]]
  BY DEF Commit
<1>3. /\ new \in Transaction /\ new.pc \in {"idle", "record"}
      /\ \A b \in Buckets : new.rows[b] = 0 /\ new.value[b] = 0
  BY <1>1, IdleIsTransaction, Zenon DEF Transaction
<1> HIDE DEF new
<1>4. /\ tx' \in [Writers -> Transaction] /\ tx'[x] = new
      /\ \A y \in Writers \ {x} : tx'[y] = tx[y]
  BY <1>1, <1>2, <1>3
<1>5. agg' \in [Buckets -> Nat]
  BY <1>1, <1>2, Zenon DEF Transaction
<1>6. RollupTypeOK'
  BY <1>1, <1>2, <1>4, <1>5 DEF RollupTypeOK
<1>7. NeverOvercounts'
  <2> SUFFICES ASSUME NEW b \in Buckets PROVE agg'[b] <= Cardinality(FactsIn(b)')
    BY DEF NeverOvercounts
  <2>1. FactsIn(b)' = FactsIn(b)
    BY <1>2, Zenon DEF FactsIn
  <2>2. agg[b] <= Cardinality(FactsIn(b)) /\ tx[x].value[b] <= Cardinality(FactsIn(b))
    BY DEF RollupIInv, NeverOvercounts, Bounded, Count
  <2>3. agg'[b] = tx[x].value[b] \/ agg'[b] = agg[b]
    BY <1>2, Zenon
  <2> QED
    BY <2>1, <2>2, <2>3, Zenon
<1>8. Bounded(x)' /\ Progress(x)'
  BY <1>1, <1>2, <1>3, <1>4, Fresh, Zenon
<1>9. \A y \in Writers \ {x} : Bounded(y)' /\ Progress(y)'
  BY <1>2, <1>4, SameWriter DEF RollupIInv
<1> QED
  BY <1>1, <1>2, <1>6, <1>7, <1>8, <1>9, Zenon DEF RollupIInv

\* A request that is recorded adds to one bucket of each size, and is old for nobody.
LEMMA RecordFactStep ==
    ASSUME RollupIInv, NEW t \in Traces, NEW s \in Ticks, RecordFact(t, s)
    PROVE  RollupIInv'
<1> DEFINE new == [trace |-> t, started |-> s, recorded |-> clock]
<1>1. facts' = facts \cup {new} /\ UNCHANGED <<clock, agg, tx, last_full>>
  BY DEF RecordFact
<1>2. new \in Fact /\ new.recorded = clock
  BY DEF RollupIInv, RollupTypeOK, Fact
<1> HIDE DEF new
<1>3. RollupTypeOK'
  BY <1>1, <1>2 DEF RollupIInv, RollupTypeOK
<1>4. IsFiniteSet(facts')
  BY <1>1, FS_AddElement DEF RollupIInv
<1>5. ASSUME NEW b \in Buckets
      PROVE  Cardinality(FactsIn(b)) <= Cardinality(FactsIn(b)')
             /\ Cardinality(FactsIn(b)) \in Nat /\ Cardinality(FactsIn(b)') \in Nat
  <2>1. FactsIn(b) \in SUBSET (FactsIn(b)')
    BY <1>1 DEF FactsIn
  <2>2. IsFiniteSet(FactsIn(b)')
    BY <1>4, FS_Subset DEF FactsIn
  <2>3. IsFiniteSet(FactsIn(b)) /\ Cardinality(FactsIn(b)) <= Cardinality(FactsIn(b)')
    BY <2>1, <2>2, FS_Subset
  <2> QED
    BY <2>2, <2>3, FS_CardinalityType
<1>6. NeverOvercounts'
  <2> SUFFICES ASSUME NEW b \in Buckets PROVE agg'[b] <= Cardinality(FactsIn(b)')
    BY DEF NeverOvercounts
  <2>1. agg[b] \in Nat /\ agg[b] <= Cardinality(FactsIn(b)) /\ agg'[b] = agg[b]
    BY <1>1, Zenon DEF RollupIInv, RollupTypeOK, NeverOvercounts
  <2> QED
    BY <1>5, <2>1
<1>7. ASSUME NEW x \in Writers PROVE Bounded(x)'
  <2> SUFFICES ASSUME NEW b \in Buckets
               PROVE  /\ tx'[x].rows[b] <= Cardinality(FactsIn(b)')
                      /\ tx'[x].value[b] <= Cardinality(FactsIn(b)')
    BY DEF Bounded, Count
  <2>1. tx[x].rows[b] \in Nat /\ tx[x].value[b] \in Nat /\ tx' = tx
    BY <1>1 DEF RollupIInv, RollupTypeOK, Transaction
  <2>2. tx[x].rows[b] <= Cardinality(FactsIn(b)) /\ tx[x].value[b] <= Cardinality(FactsIn(b))
    BY DEF RollupIInv, Bounded, Count
  <2> QED
    BY <1>5, <2>1, <2>2
<1>8. ASSUME NEW x \in Writers PROVE Progress(x)'
  <2>1. CASE tx[x].pc \in {"idle", "record"}
    BY <1>1, <2>1, Zenon DEF Progress
  <2>2. CASE tx[x].pc \notin {"idle", "record"}
    <3>1. tx[x].began <= clock /\ tx[x].began \in Nat /\ clock \in Nat /\ Progress(x)
      BY <2>2 DEF RollupIInv, Progress, RollupTypeOK, Transaction, Ticks
    <3>2. ~(clock < tx[x].began)
      BY <3>1
    <3>3. \A b \in Buckets : Before(x, b)' = Before(x, b)
      BY <1>1, <1>2, <3>2, Zenon DEF Before, FactsIn
    <3>4. \A b \in Buckets : Old(x, b)' = Old(x, b) /\ (InScope(x, b)' <=> InScope(x, b))
      BY <1>1, <3>3 DEF Old, InScope, InWindow
    <3> QED
      BY <1>1, <3>1, <3>4, Zenon DEF Progress, Read, Upsert
  <2> QED
    BY <2>1, <2>2, Zenon
<1> QED
  BY <1>3, <1>4, <1>6, <1>7, <1>8 DEF RollupIInv

LEMMA TickStep ==
    ASSUME RollupIInv, ClockTick
    PROVE  RollupIInv'
<1>1. clock' \in Ticks /\ clock \in Nat /\ clock' = clock + 1 /\ UNCHANGED <<facts, agg, tx, last_full>>
  BY TimesAssumption DEF RollupIInv, RollupTypeOK, ClockTick, Ticks
<1>2. RollupTypeOK' /\ NeverOvercounts' /\ IsFiniteSet(facts)'
  BY <1>1 DEF RollupIInv, RollupTypeOK, NeverOvercounts, FactsIn
<1>3. ASSUME NEW x \in Writers PROVE Bounded(x)' /\ Progress(x)'
  <2>1. Bounded(x)'
    BY <1>1 DEF RollupIInv, Bounded, Count, FactsIn
  <2>2. tx[x].began <= clock => tx[x].began <= clock'
    BY <1>1 DEF RollupIInv, RollupTypeOK, Transaction, Ticks
  <2>3. \A b \in Buckets : Old(x, b)' = Old(x, b) /\ (InScope(x, b)' <=> InScope(x, b))
    BY <1>1, ZenonT(30) DEF Old, Before, FactsIn, InScope, InWindow
  <2>4. Progress(x)'
    BY <1>1, <2>2, <2>3 DEF RollupIInv, Progress, Read, Upsert
  <2> QED
    BY <2>1, <2>4, Zenon
<1> QED
  BY <1>2, <1>3 DEF RollupIInv
-----------------------------------------------------------------------------
LEMMA RollupStarts ==
    RollupInit => RollupIInv
<1> SUFFICES ASSUME RollupInit PROVE RollupIInv
  OBVIOUS
<1>1. clock = 0 /\ facts = {} /\ agg = NoRows /\ last_full = Never /\ 0 \in Ticks
  BY TimesAssumption DEF RollupInit, Ticks
<1>2. tx \in [Writers -> Transaction] /\ \A x \in Writers : tx[x] = Idle
  BY IdleIsTransaction DEF RollupInit
<1>3. agg \in [Buckets -> Nat] /\ \A b \in Buckets : agg[b] = 0
  BY <1>1 DEF NoRows
<1>4. RollupTypeOK
  BY <1>1, <1>2, <1>3 DEF RollupTypeOK
<1>5. IsFiniteSet(facts)
  BY <1>1, FS_EmptySet
<1>6. ASSUME NEW b \in Buckets PROVE 0 <= Cardinality(FactsIn(b))
  <2>1. Cardinality(FactsIn(b)) \in Nat
    BY <1>5, CountsAreNat DEF Count
  <2> QED
    BY <2>1
<1>7. NeverOvercounts
  BY <1>3, <1>6, Zenon DEF NeverOvercounts
<1>8. \A x \in Writers : Bounded(x) /\ Progress(x)
  BY <1>2, <1>6, IdleIsTransaction DEF Bounded, Progress, Count
<1> QED
  BY <1>4, <1>5, <1>7, <1>8 DEF RollupIInv

LEMMA RollupSteps ==
    RollupIInv /\ [RollupNext]_rollupVars => RollupIInv'
<1> SUFFICES ASSUME RollupIInv, [RollupNext]_rollupVars PROVE RollupIInv'
  OBVIOUS
<1>1. ASSUME NEW t \in Traces, NEW s \in Ticks, RecordFact(t, s) PROVE RollupIInv'
  BY <1>1, RecordFactStep
<1>2. ASSUME NEW x \in Writers, Begin(x) \/ Delete(x) \/ SelectFacts(x) \/ UpsertRows(x) \/ Commit(x)
      PROVE  RollupIInv'
  BY <1>2, BeginStep, DeleteStep, SelectStep, WriteStep, CommitStep
<1>3. ASSUME NEW x \in Writers, Fail(x) PROVE RollupIInv'
  <2>1. /\ tx' = [tx EXCEPT ![x] = Idle] /\ UNCHANGED <<clock, facts, agg>>
        /\ last_full' \in Ticks \cup {Never}
    BY <1>3 DEF Fail, RollupIInv, RollupTypeOK
  <2> QED
    BY <2>1, EndStep, Zenon
<1>4. CASE WriteLastFullRebuild
  <2>1. /\ tx' = [tx EXCEPT !["full"] = Idle] /\ UNCHANGED <<clock, facts, agg>>
        /\ last_full' \in Ticks \cup {Never} /\ "full" \in Writers
    BY <1>4 DEF WriteLastFullRebuild, RollupIInv, RollupTypeOK, Transaction, Writers
  <2> QED
    BY <2>1, EndStep, Zenon
<1>5. CASE ClockTick
  BY <1>5, TickStep
<1>6. CASE UNCHANGED rollupVars
  <2>1. UNCHANGED <<clock, facts, agg, tx, last_full>>
    BY <1>6 DEF rollupVars
  <2>2. \A x \in Writers : Bounded(x)' /\ Progress(x)'
    BY <2>1, SameWriter DEF RollupIInv
  <2> QED
    BY <2>1, <2>2 DEF RollupIInv, RollupTypeOK, NeverOvercounts, FactsIn
<1> QED
  BY <1>1, <1>2, <1>3, <1>4, <1>5, <1>6 DEF RollupNext

\* The strengthening holds throughout.
THEOREM RollupInvariant ==
    RollupSpec => []RollupIInv
BY RollupStarts, RollupSteps, PTL DEF RollupSpec

\* The clock, the facts, usage_aggregates and the transactions of the two rebuilds keep
\* their types; no count is ever negative.
THEOREM RollupTypes ==
    RollupSpec => []RollupTypeOK
<1>1. RollupIInv => RollupTypeOK
  BY DEF RollupIInv
<1> QED
  BY <1>1, RollupInvariant, PTL

\* However rebuild_usage_aggregates_recent and rebuild_usage_aggregates_full overlap, fail
\* and read while rows arrive, no bucket counts a request twice.
THEOREM NothingIsCountedTwice ==
    RollupSpec => []NeverOvercounts
<1>1. RollupIInv => NeverOvercounts
  BY DEF RollupIInv
<1> QED
  BY <1>1, RollupInvariant, PTL

\* Only a commit of x ends x's transaction and changes the table at once.
LEMMA EndedByCommit ==
    ASSUME RollupIInv, RollupNext, NEW x \in Writers,
           tx[x].pc = "commit", tx'[x].pc # "commit", agg' # agg
    PROVE  Commit(x)
<1>1. agg' # agg => \E y \in Writers : Commit(y)
  BY Zenon DEF RollupNext, RecordFact, Begin, Delete, SelectFacts, UpsertRows, Fail, WriteLastFullRebuild, ClockTick
<1>2. PICK y \in Writers : Commit(y)
  BY <1>1
<1>3. y = x
  BY <1>2, Zenon DEF Commit, RollupIInv, RollupTypeOK
<1> QED
  BY <1>2, <1>3

\* What a commit leaves in the table is at least what was old when it began.
LEMMA CommitCounts ==
    ASSUME RollupIInv, NEW x \in Writers, Commit(x), NEW b \in Buckets, InScope(x, b)
    PROVE  agg'[b] \in Nat /\ agg'[b] >= Old(x, b)
<1>1. agg' = [c \in Buckets |-> IF c \in tx[x].locked THEN tx[x].value[c] ELSE agg[c]]
  BY DEF Commit
<1>2. b[1] = "hour" \/ b[1] = "day"
  BY DEF Buckets, Bucket
<1>3. Upsert(x, "hour") /\ Upsert(x, "day")
  BY DEF RollupIInv, Progress, Commit
<1>4. Old(x, b) = 0 \/ (b \in tx[x].locked /\ tx[x].value[b] >= Old(x, b))
  BY <1>2, <1>3 DEF Upsert
<1>5. agg'[b] \in Nat
  BY <1>1 DEF RollupIInv, RollupTypeOK, Transaction
<1> QED
  BY <1>1, <1>4, <1>5

\* A rebuild that commits has counted every request recorded before it began, in every
\* bucket it is about (the SELECTs run after the transaction's start, the window's oldest
\* bucket included).
THEOREM CommitsCountTheOld ==
    RollupSpec => CommitsAreCurrent
<1>1. RollupIInv /\ [RollupNext]_rollupVars =>
        [\A x \in Writers :
            tx[x].pc = "commit" /\ tx'[x].pc # "commit" /\ agg' # agg =>
            \A b \in Buckets : InScope(x, b) =>
                agg'[b] >= Cardinality({f \in FactsIn(b) : f.recorded < tx[x].began})]_rollupVars
  BY EndedByCommit, CommitCounts DEF Old, Before
<1> QED
  BY <1>1, RollupInvariant, PTL DEF CommitsAreCurrent, RollupSpec
-----------------------------------------------------------------------------
(* The daily reconciliation *)

\* A transaction is open for a limited time, and the rollup's one touches buckets that
\* the window still reached when it began.
InTime(x) == tx[x].pc # "idle" => tx[x].began <= clock /\ clock <= tx[x].began + TxLimit

RollupIsRecent ==
    \A b \in Buckets :
        tx["rollup"].pc # "idle" /\ (b \in tx["rollup"].locked \/ tx["rollup"].rows[b] > 0)
            => tx["rollup"].began < End(b) + RollupWindow

\* The requests recorded before a time.
Until(b, time) == {f \in FactsIn(b) : f.recorded < time}

\* The buckets out of the rollup's reach at a time are complete up to it.
Kept(time) ==
    \A b \in Buckets :
        End(b) + RollupWindow + TxLimit <= time => agg[b] >= Cardinality(Until(b, time))

\* A time that the clock and an open full rebuild have reached.
Passed(time) == time <= clock /\ (tx["full"].pc # "idle" => time <= tx["full"].began)

Reconciled ==
    /\ \A x \in Writers : InTime(x)
    /\ RollupIsRecent
    /\ last_full # Never => Passed(last_full) /\ Kept(last_full)
    /\ tx["full"].pc = "record" => Kept(tx["full"].began)

LEMMA BucketBounds ==
    ASSUME RollupTypeOK, NEW b \in Buckets
    PROVE  /\ Start(b) \in Nat /\ End(b) \in Nat /\ Start(b) < End(b)
           /\ \A f \in FactsIn(b) : f.started \in Nat /\ f.started < End(b)
<1>1. Width(b[1]) \in Nat \ {0}
  BY WidthsAssumption DEF Width
<1>2. b[2] \in Nat
  <2>1. PICK size \in {"hour", "day"}, s \in Ticks : b = Bucket(size, s)
    BY DEF Buckets
  <2>2. Width(size) \in Nat \ {0} /\ s \in Nat
    BY WidthsAssumption DEF Width, Ticks
  <2> QED
    BY <2>1, <2>2, StartsBefore DEF Bucket
<1>3. ASSUME NEW f \in FactsIn(b) PROVE f.started \in Nat /\ f.started < b[2] + Width(b[1])
  <2>1. f.started \in Nat /\ b = Bucket(b[1], f.started)
    BY DEF RollupTypeOK, Fact, FactsIn, Ticks
  <2>2. b[2] = (f.started \div Width(b[1])) * Width(b[1])
    BY <2>1 DEF Bucket
  <2> QED
    BY <1>1, <2>1, <2>2, EndsAfter, Zenon
<1> QED
  BY <1>1, <1>2, <1>3 DEF Start, End

\* No transaction stays open longer than TxLimit.
LEMMA InTimeStep ==
    ASSUME RollupIInv, RollupNext, \A x \in Writers : InTime(x)
    PROVE  \A x \in Writers : InTime(x)'
<1> SUFFICES ASSUME NEW x \in Writers PROVE InTime(x)'
  BY Zenon
<1>1. /\ clock \in Nat /\ TxLimit \in Nat /\ tx \in [Writers -> Transaction]
      /\ tx[x].began \in Nat /\ Idle.pc = "idle"
  BY TimesAssumption, IdleIsTransaction DEF RollupIInv, RollupTypeOK, Transaction, Ticks
<1>2. ASSUME NEW y \in Writers, \A z \in Writers \ {y} : tx'[z] = tx[z], clock' = clock,
             tx'[y].pc # "idle" => \/ tx'[y].began = clock
                                   \/ tx'[y].began = tx[y].began /\ tx[y].pc # "idle"
      PROVE  InTime(x)'
  BY <1>1, <1>2 DEF InTime
<1>3. ASSUME NEW y \in Writers, Begin(y) PROVE InTime(x)'
  <2>1. [Idle EXCEPT !.pc = "delete", !.began = clock].began = clock
    BY Zenon DEF Idle
  <2> QED
    BY <1>1, <1>2, <1>3, <2>1 DEF Begin
<1>4. ASSUME NEW y \in Writers, Delete(y) \/ SelectFacts(y) \/ UpsertRows(y) PROVE InTime(x)'
  <2>1. tx[y] \in Transaction
    BY <1>1
  <2>2. tx[y].pc # "idle" /\ clock' = clock
    BY <1>4, Zenon DEF Delete, SelectFacts, UpsertRows
  <2>3. (\A z \in Writers \ {y} : tx'[z] = tx[z]) /\ tx'[y].began = tx[y].began
    <3>1. CASE Delete(y)
      BY <1>1, <2>1, <3>1 DEF Delete, Transaction
    <3>2. CASE SelectFacts(y)
      BY <1>1, <2>1, <3>2 DEF SelectFacts, Transaction
    <3>3. CASE UpsertRows(y)
      BY <1>1, <2>1, <3>3, Zenon DEF UpsertRows, Transaction
    <3> QED
      BY <1>4, <3>1, <3>2, <3>3
  <2> QED
    BY <1>2, <2>2, <2>3
<1>5. ASSUME NEW y \in Writers, Commit(y) PROVE InTime(x)'
  <2>1. [Idle EXCEPT !.pc = "record", !.began = tx[y].began].began = tx[y].began
    BY DEF Idle
  <2> QED
    BY <1>1, <1>2, <1>5, <2>1 DEF Commit
<1>6. ASSUME NEW y \in Writers, Fail(y) PROVE InTime(x)'
  BY <1>1, <1>2, <1>6 DEF Fail
<1>7. CASE WriteLastFullRebuild
  BY <1>1, <1>2, <1>7 DEF WriteLastFullRebuild, Writers
<1>8. CASE ClockTick
  BY <1>1, <1>8 DEF ClockTick, InTime
<1>9. ASSUME NEW t \in Traces, NEW s \in Ticks, RecordFact(t, s) PROVE InTime(x)'
  BY <1>9, Zenon DEF RecordFact, InTime
<1> QED
  BY <1>3, <1>4, <1>5, <1>6, <1>7, <1>8, <1>9 DEF RollupNext

\* A row that no statement of the rollup's transaction touched keeps out of it.
LEMMA RecentStep ==
    ASSUME RollupIInv, RollupNext, RollupIsRecent
    PROVE  RollupIsRecent'
<1> DEFINE r == "rollup"
<1>1. /\ r \in Writers /\ tx \in [Writers -> Transaction] /\ tx[r] \in Transaction
      /\ RollupTypeOK /\ IsFiniteSet(facts)
  BY DEF RollupIInv, RollupTypeOK, Writers
<1>2. RollupWindow \in Nat /\ tx[r].began \in Nat
  BY <1>1, TimesAssumption DEF Transaction, Ticks
<1> HIDE DEF r
<1> USE DEF RollupIsRecent
<1>3. CASE tx'[r] = tx[r]
  BY <1>3 DEF r, End
<1>4. CASE tx'[r].pc = "idle"
  BY <1>4 DEF r
<1>5. CASE tx'[r].locked = {} /\ \A b \in Buckets : tx'[r].rows[b] = 0
  BY <1>5 DEF r
<1>6. CASE Delete(r)
  <2> SUFFICES ASSUME NEW b \in Buckets, b \in tx'[r].locked \/ tx'[r].rows[b] > 0
               PROVE  tx'[r].began < End(b) + RollupWindow
    BY DEF r, End
  <2>1. /\ tx'[r].rows = tx[r].rows /\ tx'[r].began = tx[r].began /\ tx[r].pc = "delete"
        /\ tx'[r].locked = {c \in Buckets : agg[c] > 0 /\ InScope(r, c)}
    BY <1>1, <1>6 DEF Delete, Transaction
  <2>2. CASE tx[r].rows[b] > 0
    BY <2>1, <2>2, Zenon DEF r
  <2>3. CASE b \in tx'[r].locked
    <3>1. Start(b) + RollupWindow >= tx[r].began
      BY <2>1, <2>3, Zenon DEF InScope, InWindow, r
    <3> QED
      BY <1>1, <1>2, <2>1, <3>1, BucketBounds
  <2> QED
    BY <2>1, <2>2, <2>3
<1>7. CASE SelectFacts(r)
  <2> SUFFICES ASSUME NEW b \in Buckets, b \in tx'[r].locked \/ tx'[r].rows[b] > 0
               PROVE  tx'[r].began < End(b) + RollupWindow
    BY DEF r, End
  <2> DEFINE S == {f \in FactsIn(b) : Summed(r, f)}
  <2>1. /\ tx'[r].locked = tx[r].locked /\ tx'[r].began = tx[r].began /\ tx[r].pc = "select"
        /\ tx'[r].rows[b] = IF b[1] = tx[r].size THEN Cardinality(S) ELSE 0
    BY <1>1, <1>7, Zenon DEF SelectFacts, Transaction
  <2>2. CASE b \in tx[r].locked
    BY <2>1, <2>2, Zenon DEF r
  <2>3. CASE tx'[r].rows[b] > 0
    <3>1. S # {}
      BY <2>1, <2>3, FS_EmptySet
    <3>2. PICK f \in FactsIn(b) : Summed(r, f)
      BY <3>1, Zenon
    <3>3. f.started + RollupWindow >= tx[r].began
      BY <3>2, Zenon DEF Summed, InWindow, r
    <3> QED
      BY <1>1, <1>2, <2>1, <3>3, BucketBounds, SMTT(30)
  <2> QED
    BY <2>1, <2>2, <2>3
<1>8. CASE UpsertRows(r)
  <2>1. /\ tx'[r].rows = tx[r].rows /\ tx'[r].began = tx[r].began /\ tx[r].pc = "write"
        /\ tx'[r].locked = tx[r].locked \cup {c \in Buckets : tx[r].rows[c] > 0}
    BY <1>1, <1>8, Zenon DEF UpsertRows, Transaction
  <2> QED
    BY <2>1 DEF r, End
<1>9. CASE Begin(r)
  <2>1. tx'[r] = [Idle EXCEPT !.pc = "delete", !.began = clock]
    BY <1>1, <1>9 DEF Begin
  <2>2. tx'[r].locked = {} /\ \A b \in Buckets : tx'[r].rows[b] = 0
    BY <2>1 DEF Idle, NoRows
  <2> QED
    BY <1>5, <2>2
<1>10. CASE Commit(r) \/ Fail(r)
  <2>1. tx'[r] = Idle
    BY <1>1, <1>10 DEF Commit, Fail, r
  <2> QED
    BY <1>4, <2>1, IdleIsTransaction
<1>11. ASSUME NEW x \in Writers, x # r,
              Begin(x) \/ Delete(x) \/ SelectFacts(x) \/ UpsertRows(x) \/ Commit(x) \/ Fail(x)
       PROVE  tx'[r] = tx[r]
  BY <1>1, <1>11, Zenon DEF Begin, Delete, SelectFacts, UpsertRows, Commit, Fail
<1>12. ASSUME \/ \E t \in Traces, s \in Ticks : RecordFact(t, s)
              \/ WriteLastFullRebuild
              \/ ClockTick
       PROVE  tx'[r] = tx[r]
  BY <1>1, <1>12 DEF RecordFact, WriteLastFullRebuild, ClockTick, r, Writers
<1> QED
  BY <1>3, <1>6, <1>7, <1>8, <1>9, <1>10, <1>11, <1>12, Zenon DEF RollupNext

\* Time that has passed stays past: a rebuild that begins, begins now.
LEMMA PassedStep ==
    ASSUME RollupIInv, RollupNext, NEW time \in Ticks, Passed(time)
    PROVE  Passed(time)'
<1> DEFINE r == "full"
<1>1. /\ r \in Writers /\ tx \in [Writers -> Transaction] /\ tx[r] \in Transaction
      /\ clock \in Nat /\ time \in Nat /\ Idle.pc = "idle"
  BY TimesAssumption, IdleIsTransaction DEF RollupIInv, RollupTypeOK, Writers, Ticks
<1>2. clock' = clock \/ (clock' = clock + 1 /\ tx' = tx)
  BY Zenon DEF RollupNext, RecordFact, Begin, Delete, SelectFacts, UpsertRows, Commit, Fail,
         WriteLastFullRebuild, ClockTick
<1>3. time <= clock'
  BY <1>1, <1>2, SMTT(30) DEF Passed
<1> HIDE DEF r
<1>4. tx'[r].pc # "idle" => tx'[r].began = clock
                            \/ (tx'[r].began = tx[r].began /\ tx[r].pc # "idle")
  <2>1. ASSUME NEW x \in Writers, Begin(x) PROVE tx'[r] = tx[r] \/ tx'[r].began = clock
    <3>1. [Idle EXCEPT !.pc = "delete", !.began = clock].began = clock
      BY DEF Idle
    <3> QED
      BY <1>1, <2>1, <3>1 DEF Begin
  <2>2. ASSUME NEW x \in Writers, Delete(x)
        PROVE  tx'[r] = tx[r] \/ (tx'[r].began = tx[r].began /\ tx[r].pc # "idle")
    BY <1>1, <2>2 DEF Delete, Transaction
  <2>3. ASSUME NEW x \in Writers, SelectFacts(x)
        PROVE  tx'[r] = tx[r] \/ (tx'[r].began = tx[r].began /\ tx[r].pc # "idle")
    BY <1>1, <2>3 DEF SelectFacts, Transaction
  <2>4. ASSUME NEW x \in Writers, UpsertRows(x)
        PROVE  tx'[r] = tx[r] \/ (tx'[r].began = tx[r].began /\ tx[r].pc # "idle")
    BY <1>1, <2>4, Zenon DEF UpsertRows, Transaction
  <2>5. ASSUME NEW x \in Writers, Commit(x)
        PROVE  \/ tx'[r] = tx[r] \/ tx'[r].pc = "idle"
               \/ tx'[r].began = tx[r].began /\ tx[r].pc # "idle"
    <3>1. [Idle EXCEPT !.pc = "record", !.began = tx[x].began].began = tx[x].began
      BY DEF Idle
    <3> QED
      BY <1>1, <2>5, <3>1 DEF Commit
  <2>6. ASSUME NEW x \in Writers, Fail(x) PROVE tx'[r] = tx[r] \/ tx'[r].pc = "idle"
    BY <1>1, <2>6 DEF Fail
  <2>7. ASSUME WriteLastFullRebuild PROVE tx'[r].pc = "idle"
    BY <1>1, <2>7, ZenonT(30) DEF WriteLastFullRebuild, r
  <2>8. ASSUME ClockTick \/ \E t \in Traces, s \in Ticks : RecordFact(t, s) PROVE tx'[r] = tx[r]
    BY <2>8 DEF ClockTick, RecordFact
  <2> QED
    BY <2>1, <2>2, <2>3, <2>4, <2>5, <2>6, <2>7, <2>8 DEF RollupNext
<1> QED
  BY <1>3, <1>4 DEF Passed, r

\* What is recorded later is not counted among what was recorded until then.
LEMMA UntilStep ==
    ASSUME RollupIInv, RollupNext, NEW b \in Buckets, NEW time \in Ticks, time <= clock
    PROVE  Until(b, time)' = Until(b, time)
<1>1. CASE UNCHANGED facts
  BY <1>1 DEF Until, FactsIn
<1>2. CASE \E t \in Traces, s \in Ticks : RecordFact(t, s)
  <2>1. PICK t \in Traces, s \in Ticks : RecordFact(t, s)
    BY <1>2
  <2> DEFINE new == [trace |-> t, started |-> s, recorded |-> clock]
  <2>2. facts' = facts \cup {new} /\ new.recorded = clock
    BY <2>1 DEF RecordFact
  <2> HIDE DEF new
  <2>3. ~(clock < time)
    BY DEF RollupIInv, RollupTypeOK, Ticks
  <2> QED
    BY <2>2, <2>3 DEF Until, FactsIn
<1> QED
  BY <1>1, <1>2, Zenon DEF RollupNext, Begin, Delete, SelectFacts, UpsertRows, Commit, Fail,
                    WriteLastFullRebuild, ClockTick

\* The requests recorded until a past time are old for a full rebuild that commits.
LEMMA UntilIsOld ==
    ASSUME RollupIInv, NEW b \in Buckets, NEW time \in Ticks, time <= tx["full"].began
    PROVE  Cardinality(Until(b, time)) \in Nat /\ Cardinality(Until(b, time)) <= Old("full", b)
<1>1. IsFiniteSet(Before("full", b))
  <2>1. IsFiniteSet(FactsIn(b))
    BY CountsAreNat DEF RollupIInv
  <2> QED
    BY <2>1, FS_Subset, Zenon DEF Before
<1>2. \A f \in FactsIn(b) : f.recorded \in Nat
  BY DEF RollupIInv, RollupTypeOK, Fact, FactsIn, Ticks
<1>3. time \in Nat /\ tx["full"].began \in Nat
  BY SMTT(30) DEF RollupIInv, RollupTypeOK, Transaction, Ticks, Writers
<1>4. Until(b, time) \in SUBSET Before("full", b)
  BY <1>2, <1>3 DEF Until, Before
<1> QED
  BY <1>1, <1>4, FS_Subset, FS_CardinalityType, Zenon DEF Old

\* A full rebuild leaves what was recorded until it began complete.
LEMMA FullKeeps ==
    ASSUME RollupIInv, RollupNext, Commit("full"), NEW time \in Ticks,
           time <= tx["full"].began
    PROVE  Kept(time)'
<1> SUFFICES ASSUME NEW b \in Buckets PROVE agg'[b] >= Cardinality(Until(b, time)')
  BY DEF Kept
<1>1. agg'[b] \in Nat /\ agg'[b] >= Old("full", b)
  BY CommitCounts, Zenon DEF InScope, Writers
<1>2. Old("full", b) \in Nat
  BY CountsAreNat DEF RollupIInv, Writers
<1>3. Until(b, time)' = Until(b, time)
  BY DEF Commit, Until, FactsIn
<1> QED
  BY <1>1, <1>2, <1>3, UntilIsOld

\* Only a commit changes the table, and the commit of the rollup comes too early to
\* change a bucket that is out of its reach.
LEMMA KeptStep ==
    ASSUME RollupIInv, RollupNext, InTime("rollup"), RollupIsRecent,
           NEW time \in Ticks, Passed(time), Kept(time)
    PROVE  Kept(time)'
<1>1. CASE Commit("full")
  <2>1. time <= tx["full"].began
    BY <1>1, Zenon DEF Passed, Commit
  <2> QED
    BY <1>1, <2>1, FullKeeps
<1>2. CASE ~Commit("full")
  <2> SUFFICES ASSUME NEW b \in Buckets, End(b) + RollupWindow + TxLimit <= time
               PROVE  agg'[b] >= Cardinality(Until(b, time)')
    BY DEF Kept, End
  <2>1. Until(b, time)' = Until(b, time)
    BY UntilStep DEF Passed
  <2>2. agg'[b] = agg[b]
    <3>1. CASE Commit("rollup")
      <4>1. /\ time \in Nat /\ clock \in Nat /\ RollupWindow \in Nat /\ TxLimit \in Nat
            /\ tx["rollup"].began \in Nat /\ End(b) \in Nat
        BY TimesAssumption, BucketBounds
           DEF RollupIInv, RollupTypeOK, Transaction, Ticks, Writers
      <4>2. time <= clock /\ clock <= tx["rollup"].began + TxLimit /\ tx["rollup"].pc # "idle"
        BY <3>1 DEF Passed, InTime, Commit
      <4>3. ~(tx["rollup"].began < End(b) + RollupWindow)
        BY <4>1, <4>2
      <4>4. b \notin tx["rollup"].locked
        BY <4>2, <4>3 DEF RollupIsRecent
      <4> QED
        BY <3>1, <4>4, Zenon DEF Commit
    <3>2. CASE UNCHANGED agg
      BY <3>2, Zenon
    <3> QED
      BY <1>2, <3>1, <3>2, Zenon
         DEF RollupNext, RecordFact, Begin, Delete, SelectFacts, UpsertRows, Fail, Writers,
             WriteLastFullRebuild, ClockTick
  <2> QED
    BY <2>1, <2>2, Zenon DEF Kept
<1> QED
  BY <1>1, <1>2

\* The record that a full rebuild leaves behind is its own start.
LEMMA RecordSteps ==
    ASSUME RollupIInv, RollupNext
    PROVE  /\ \/ last_full' = last_full
              \/ /\ tx["full"].pc = "record" /\ last_full' = tx["full"].began
                 /\ tx'["full"].pc = "idle" /\ clock' = clock
           /\ tx'["full"].pc = "record" =>
                 \/ tx["full"].pc = "record" /\ tx'["full"] = tx["full"]
                 \/ Commit("full") /\ tx'["full"].began = tx["full"].began
<1>1. /\ "full" \in Writers /\ tx \in [Writers -> Transaction] /\ tx["full"] \in Transaction
      /\ Idle.pc = "idle"
  BY IdleIsTransaction DEF RollupIInv, RollupTypeOK, Writers
<1>2. \/ last_full' = last_full
      \/ /\ tx["full"].pc = "record" /\ last_full' = tx["full"].began
         /\ tx'["full"].pc = "idle" /\ clock' = clock
  BY <1>1, Zenon DEF RollupNext, RecordFact, Begin, Delete, SelectFacts, UpsertRows, Commit, Fail,
              WriteLastFullRebuild, ClockTick
<1>3. ASSUME Commit("full") PROVE tx'["full"].began = tx["full"].began
  <2>1. tx'["full"] = [Idle EXCEPT !.pc = "record", !.began = tx["full"].began]
    BY <1>1, <1>3 DEF Commit
  <2> QED
    BY <2>1 DEF Idle
<1>4. ASSUME NEW x \in Writers, Begin(x)
      PROVE  tx'["full"] = tx["full"] \/ tx'["full"].pc # "record"
  <2>1. [Idle EXCEPT !.pc = "delete", !.began = clock].pc = "delete"
    BY DEF Idle
  <2> QED
    BY <1>1, <1>4, <2>1 DEF Begin
<1>5. ASSUME NEW x \in Writers, Delete(x)
      PROVE  tx'["full"] = tx["full"] \/ tx'["full"].pc # "record"
  BY <1>1, <1>5 DEF Delete, Transaction
<1>6. ASSUME NEW x \in Writers, SelectFacts(x)
      PROVE  tx'["full"] = tx["full"] \/ tx'["full"].pc # "record"
  BY <1>1, <1>6 DEF SelectFacts, Transaction
<1>7. ASSUME NEW x \in Writers, UpsertRows(x)
      PROVE  tx'["full"] = tx["full"] \/ tx'["full"].pc # "record"
  BY <1>1, <1>7, Zenon DEF UpsertRows, Transaction
<1>8. ASSUME NEW x \in Writers, Commit(x) PROVE tx'["full"] = tx["full"] \/ x = "full"
  BY <1>1, <1>8 DEF Commit
<1>9. ASSUME NEW x \in Writers, Fail(x)
      PROVE  tx'["full"] = tx["full"] \/ tx'["full"].pc # "record"
  BY <1>1, <1>9 DEF Fail
<1>10. ASSUME WriteLastFullRebuild PROVE tx'["full"].pc # "record"
  BY <1>1, <1>10, Zenon DEF WriteLastFullRebuild
<1>11. ASSUME ClockTick \/ \E t \in Traces, s \in Ticks : RecordFact(t, s)
       PROVE  tx'["full"] = tx["full"]
  BY <1>11, Zenon DEF ClockTick, RecordFact
<1> QED
  BY <1>2, <1>3, <1>4, <1>5, <1>6, <1>7, <1>8, <1>9, <1>10, <1>11, Zenon DEF RollupNext

LEMMA ReconciledStep ==
    ASSUME RollupIInv, RollupNext, Reconciled
    PROVE  Reconciled'
<1>1. (\A x \in Writers : InTime(x)') /\ RollupIsRecent'
  BY InTimeStep, RecentStep, Zenon DEF Reconciled
<1>2. ASSUME NEW time \in Ticks, Passed(time), Kept(time) PROVE Passed(time)' /\ Kept(time)'
  BY <1>2, PassedStep, KeptStep, Zenon DEF Reconciled, Writers
<1>3. /\ tx["full"].began \in Ticks
      /\ last_full # Never => last_full \in Ticks
  BY Zenon DEF RollupIInv, RollupTypeOK, Transaction, Writers
<1>4. tx["full"].pc # "idle" => Passed(tx["full"].began)
  <2>1. tx["full"].began <= tx["full"].began
    BY <1>3 DEF Ticks
  <2> QED
    BY <2>1 DEF Reconciled, InTime, Passed, Writers
<1>5. ASSUME last_full' # Never PROVE Passed(last_full)' /\ Kept(last_full)'
  <2>1. CASE last_full' = last_full
    <3>1. Passed(last_full) /\ Kept(last_full) /\ last_full \in Ticks
      BY <1>3, <1>5, <2>1 DEF Reconciled
    <3>2. PICK time \in Ticks : time = last_full
      BY <3>1
    <3>3. Passed(time)' /\ Kept(time)'
      BY <1>2, <3>1, <3>2, Zenon
    <3> QED
      BY <2>1, <3>2, <3>3, Zenon DEF Passed, Kept, Until
  <2>2. CASE tx["full"].pc = "record" /\ last_full' = tx["full"].began
    <3>1. PICK time \in Ticks : time = tx["full"].began
      BY <1>3, Zenon
    <3>2. Passed(time) /\ Kept(time)
      BY <1>4, <2>2, <3>1 DEF Reconciled
    <3>3. Passed(time)' /\ Kept(time)'
      BY <1>2, <3>2, Zenon
    <3> QED
      BY <2>2, <3>1, <3>3 DEF Passed, Kept, Until
  <2> QED
    BY <2>1, <2>2, RecordSteps, Zenon
<1>6. ASSUME tx'["full"].pc = "record" PROVE Kept(tx["full"].began)'
  <2>1. PICK time \in Ticks : time = tx["full"].began
    BY <1>3
  <2>2. CASE tx["full"].pc = "record" /\ tx'["full"] = tx["full"]
    <3>1. Kept(time)'
      BY <1>2, <1>4, <2>1, <2>2, Zenon DEF Reconciled
    <3> QED
      BY <2>1, <2>2, <3>1, Zenon DEF Kept, Until
  <2>3. CASE Commit("full") /\ tx'["full"].began = tx["full"].began
    <3>1. time <= tx["full"].began
      BY <2>1 DEF Ticks
    <3>2. Kept(time)'
      BY <2>3, <3>1, FullKeeps
    <3> QED
      BY <2>1, <2>3, <3>2 DEF Kept, Until
  <2> QED
    BY <1>6, <2>2, <2>3, RecordSteps, Zenon
<1> QED
  BY <1>1, <1>5, <1>6, Zenon DEF Reconciled

\* Once write_last_full_rebuild has recorded a reconciliation, no later rollup or rebuild
\* loses a request of it in the buckets the rollup's window had left by then.
THEOREM ReconciliationStays ==
    RollupSpec => []ReconciledStays
<1>1. RollupInit => Reconciled
  <2> SUFFICES ASSUME RollupInit PROVE Reconciled
    OBVIOUS
  <2>1. \A x \in Writers : tx[x].pc = "idle"
    BY IdleIsTransaction, ZenonT(30) DEF RollupInit
  <2> QED
    BY <2>1, Zenon DEF RollupInit, Reconciled, InTime, RollupIsRecent, Writers
<1>2. RollupIInv /\ Reconciled /\ [RollupNext]_rollupVars => Reconciled'
  <2> SUFFICES ASSUME RollupIInv, Reconciled, UNCHANGED rollupVars PROVE Reconciled'
    BY ReconciledStep, ZenonT(30)
  <2> QED
    BY DEF rollupVars, Reconciled, InTime, RollupIsRecent, Passed, Kept, Until, FactsIn
<1>3. Reconciled => ReconciledStays
  BY DEF Reconciled, Kept, Until, ReconciledStays
<1> QED
  BY <1>1, <1>2, <1>3, RollupInvariant, PTL DEF RollupSpec
=============================================================================
