------------------------- MODULE DnsServiceInstance -------------------------
(***************************************************************************)
(* DNSServiceInstanceImplBase.serveDNSQuery and what it calls: the domain  *)
(* cache service, created on first use through the shared cache service    *)
(* factory, the resolver with the upstream server behind it, and the stat  *)
(* log.  Every query is served by a thread of its own; the threads share   *)
(* the factory's map, the caches, and the response objects in the caches.  *)
(*                                                                         *)
(* A response object is named by the query whose thread made it, which is  *)
(* one per query: parsed from the upstream answer on a miss, cloned from   *)
(* the cached object on a hit.  The identifier of a message is its query.  *)
(***************************************************************************)
EXTENDS Naturals, FiniteSets

CONSTANTS Queries,
          Names, Types,   \* domain names and record types asked for
          RootName,       \* the root, which decodes to the empty string
          TTLs,           \* the TTLs upstream may give
          MaxCacheTTL,    \* PROP_KEY_MAX_CACHE_TTL
          MaxTime,        \* the bound of the clock
          Configs,        \* the configurations a service may have
          None

Keys == [name : Names, type : Types]

ASSUME ConfigsAssumption ==
  Configs \subseteq [cache : BOOLEAN, log : BOOLEAN,
                     props : {"ok", "missing", "malformed"}]

ASSUME TimesAssumption ==
  /\ MaxTime \in Nat
  /\ MaxCacheTTL \in 0..MaxTime
  /\ TTLs \subseteq 0..MaxTime

\* A time and a TTL beyond every time of the model: Integer.MAX_VALUE.
Forever == MaxTime + 1

\* ttl = None: a response without answer records (ANCOUNT = 0, NODATA).
Messages == [id : Queries, key : Keys, from : Queries,
             ttl : 0..Forever \cup {None}, at : 0..MaxTime]
Entries  == [obj : Queries, born : 0..MaxTime, ttl : 0..Forever,
             until : 0..(2 * Forever)]

ASSUME NoneAssumption ==
  /\ None \notin Queries /\ None \notin Keys
  /\ None \notin Messages /\ None \notin Entries

\* A cache is named by the query that made it and when; the first one may have
\* been there before.
Caches == (Queries \cup {None}) \X {"get", "put"}
EarlierCache == <<None, "put">>

VARIABLES
  config,  \* the configuration of this service instance
  now,     \* the wall clock
  pc,      \* pc[q]: where the thread of query q is
  stage,   \* stage[q]: the cache is used to look up ("get") or to store ("put")
  key,     \* key[q]: name and type asked for
  held,    \* held[q]: the cache service the thread of q works on
  obj,     \* obj[q]: the response object made by the thread of q
  resp,    \* resp[q]: the object responseMessage refers to in the thread of q
  rcode,   \* rcode[q]: the RCODE of the error response of q
  repo,    \* the cache the factory's map holds under this service's name
  made,    \* the caches made so far
  store,   \* store[c][k]: the entry of cache c under key k
  given,   \* the queries upstream has answered
  logged,  \* the records of the stat log
  seen     \* seen[q]: the queries whose answers were cached when q arrived

vars == <<config, now, pc, stage, key, held, obj, resp, rcode, repo, made,
          store, given, logged, seen>>

Settled == {"answered", "rcode", "silent"}
Pcs == {"idle", "name", "find", "make", "register", "use", "resolve", "log"}
         \cup Settled

TypeOK ==
  /\ config \in Configs
  /\ now \in 0..MaxTime
  /\ pc \in [Queries -> Pcs]
  /\ stage \in [Queries -> {"get", "put"}]
  /\ key \in [Queries -> Keys \cup {None}]
  /\ held \in [Queries -> Caches \cup {None}]
  /\ obj \in [Queries -> Messages \cup {None}]
  /\ resp \in [Queries -> Queries \cup {None}]
  /\ rcode \in [Queries -> 0..23 \cup {None}]
  /\ repo \in Caches \cup {None}
  /\ made \subseteq Caches
  /\ store \in [Caches -> [Keys -> Entries \cup {None}]]
  /\ given \subseteq Queries
  /\ logged \subseteq [query : Queries, sent : Messages]
  /\ seen \in [Queries -> SUBSET Queries]
  /\ \A q \in Queries : pc[q] = "use" => held[q] \in Caches

\* The service may be new, or have its cache from earlier queries, if the
\* configuration ever lets one be made.
Init ==
  /\ config \in Configs
  /\ now = 0
  /\ pc = [q \in Queries |-> "idle"]
  /\ stage = [q \in Queries |-> "get"]
  /\ key = [q \in Queries |-> None]
  /\ held = [q \in Queries |-> None]
  /\ obj = [q \in Queries |-> None]
  /\ resp = [q \in Queries |-> None]
  /\ rcode = [q \in Queries |-> None]
  /\ \/ repo = None /\ made = {}
     \/ /\ config.cache /\ config.props = "ok"
        /\ repo = EarlierCache /\ made = {EarlierCache}
  /\ store = [c \in Caches |-> [k \in Keys |-> None]]
  /\ given = {}
  /\ logged = {}
  /\ seen = [q \in Queries |-> {}]

Goto(q, to) == pc' = [pc EXCEPT ![q] = to]

Tick ==
  /\ now < MaxTime
  /\ now' = now + 1
  /\ UNCHANGED <<config, pc, stage, key, held, obj, resp, rcode, repo, made,
                 store, given, logged, seen>>

-----------------------------------------------------------------------------
(* The cache entry: its key and its lifetime.                              *)

\* Mutant: the record type is left out of the key.
CacheKeyNameOnly(k) == CHOOSE j \in Keys : j.name = k.name

\* buildDomainCacheKey: name, type and class.
CacheKey(k) == k

\* Of the TTL passed to put nothing is kept: init leaves the field at 0.
StoredTTL(ttl) == 0

\* Mutant: only the two cases the method tests for are unlimited.
HasUnlimitedTTLTested(ttl) == ttl < 0 \/ ttl = Forever

\* hasUnlimitedTTL ends in "return true" on every path.
HasUnlimitedTTL(ttl) == TRUE

LeftTTL(e) ==
  IF HasUnlimitedTTL(e.ttl) THEN Forever
  ELSE IF e.born + e.ttl >= now THEN e.born + e.ttl - now ELSE 0

\* serveDNSQuery: the maximum of the cache, or the least TTL of the records.
EntryTTL(m) ==
  IF m.ttl # None /\ m.ttl < MaxCacheTTL THEN m.ttl ELSE MaxCacheTTL

\* put: the entry leaves the cache when the time left to it has passed.
NewEntry(q) ==
  LET e == [obj |-> q, born |-> now, ttl |-> StoredTTL(EntryTTL(obj[q]))]
  IN [obj |-> e.obj, born |-> e.born, ttl |-> e.ttl, until |-> now + LeftTTL(e)]

\* get(key) of the cache c finds an entry.
Present(c, k) == store[c][CacheKey(k)] # None /\ now < store[c][CacheKey(k)].until

-----------------------------------------------------------------------------
(* The error response: DNSProtocolRcodeErrorSERVFAILException declares a   *)
(* field rcode that hides the one of its superclass.  The constructor of   *)
(* the superclass calls the overriding setter, which writes the hidden-by  *)
(* field; the getter is inherited and reads the superclass's, never set.   *)

Servfail == 2
SetResponseCode(e, code) == [e EXCEPT !.own = code]
GetResponseCode(e) == e.inherited
ServfailException == SetResponseCode([inherited |-> 0, own |-> 0], Servfail)

ThrowServfail(q) ==
  /\ rcode' = [rcode EXCEPT ![q] = GetResponseCode(ServfailException)]
  /\ Goto(q, "rcode")

-----------------------------------------------------------------------------
(* serveDNSQuery, step by step.                                            *)

Arrive(q) ==
  /\ pc[q] = "idle"
  /\ \E k \in Keys : key' = [key EXCEPT ![q] = k]
  /\ seen' = [seen EXCEPT ![q] =
       IF repo = None THEN {}
       ELSE {store[repo][k].obj : k \in {j \in Keys : store[repo][j] # None}}]
  /\ Goto(q, IF config.cache THEN "name" ELSE "resolve")
  /\ UNCHANGED <<config, now, stage, held, obj, resp, rcode, repo, made, store,
                 given, logged>>

\* getDomainCacheServiceName reads the user from the database at every call;
\* its failure is no DNSCacheServiceCommonException, so nothing is sent.
CacheName(q) ==
  /\ pc[q] = "name"
  /\ \E to \in {"find", "silent"} : Goto(q, to)
  /\ UNCHANGED <<config, now, stage, key, held, obj, resp, rcode, repo, made,
                 store, given, logged, seen>>

\* Another thread is inside put of the factory's HashMap.
Racing(q) == \E p \in Queries \ {q} : pc[p] = "register"

\* Mutant: no test for null after getCacheService.
FindCacheNoTest(q) ==
  /\ pc[q] = "find"
  /\ held' = [held EXCEPT ![q] = repo]
  /\ Goto(q, "use")
  /\ UNCHANGED <<config, now, stage, key, obj, resp, rcode, repo, made, store,
                 given, logged, seen>>

\* getCacheService: an unsynchronized HashMap, where a get that runs beside a
\* put may miss what is there.
FindCache(q) ==
  /\ pc[q] = "find"
  /\ \/ /\ repo # None
        /\ held' = [held EXCEPT ![q] = repo]
        /\ Goto(q, "use")
     \/ /\ repo = None \/ Racing(q)
        /\ Goto(q, "make")
        /\ UNCHANGED held
  /\ UNCHANGED <<config, now, stage, key, obj, resp, rcode, repo, made, store,
                 given, logged, seen>>

\* createCacheService up to init: a missing property is a cache exception, a
\* malformed one a NumberFormatException nobody catches.
MakeCache(q) ==
  /\ pc[q] = "make"
  /\ \/ config.props = "ok" /\ Goto(q, "register") /\ UNCHANGED rcode
     \/ config.props = "missing" /\ ThrowServfail(q)
     \/ config.props = "malformed" /\ Goto(q, "silent") /\ UNCHANGED rcode
  /\ UNCHANGED <<config, now, stage, key, held, obj, resp, repo, made, store,
                 given, logged, seen>>

\* Mutant: a thread that registers waits for the others that do.
RegisterCacheWaits(q) ==
  LET c == <<q, stage[q]>> IN
  /\ pc[q] = "register" /\ ~Racing(q)
  /\ held' = [held EXCEPT ![q] = c]
  /\ made' = made \cup {c}
  /\ repo' = c
  /\ Goto(q, "use")
  /\ UNCHANGED <<config, now, stage, key, obj, resp, rcode, store, given,
                 logged, seen>>

\* registCacheServiceRepository: put overwrites what another thread has put
\* since, and may be lost beside another put.
RegisterCache(q) ==
  LET c == <<q, stage[q]>> IN
  /\ pc[q] = "register"
  /\ held' = [held EXCEPT ![q] = c]
  /\ made' = made \cup {c}
  /\ repo' \in IF Racing(q) THEN {c, repo} ELSE {c}
  /\ Goto(q, "use")
  /\ UNCHANGED <<config, now, stage, key, obj, resp, rcode, store, given,
                 logged, seen>>

\* createDNSResponseMessageFromDomainCacheEntry: a copy of the cached message,
\* with the identifier of this query and no TTL above what is left.
CopyFor(q, e) ==
  LET m == obj[e.obj] IN
  [m EXCEPT !.id = q,
            !.ttl = IF m.ttl # None /\ m.ttl > LeftTTL(e) THEN LeftTTL(e) ELSE m.ttl]

\* Mutant: the cached object itself gets the identifier and is returned.
HitShared(q) ==
  LET o == store[held[q]][CacheKey(key[q])].obj IN
  /\ pc[q] = "use" /\ stage[q] = "get"
  /\ Present(held[q], key[q])
  /\ obj' = [obj EXCEPT ![o].id = q]
  /\ resp' = [resp EXCEPT ![q] = o]
  /\ Goto(q, "log")
  /\ UNCHANGED <<config, now, stage, key, held, rcode, repo, made, store, given,
                 logged, seen>>

\* Mutant: a hit returns before the stat log.
HitUnlogged(q) ==
  LET e == store[held[q]][CacheKey(key[q])] IN
  /\ pc[q] = "use" /\ stage[q] = "get"
  /\ Present(held[q], key[q])
  /\ obj' = [obj EXCEPT ![q] = CopyFor(q, e)]
  /\ resp' = [resp EXCEPT ![q] = q]
  /\ Goto(q, "answered")
  /\ UNCHANGED <<config, now, stage, key, held, rcode, repo, made, store, given,
                 logged, seen>>

Hit(q) ==
  LET e == store[held[q]][CacheKey(key[q])] IN
  /\ pc[q] = "use" /\ stage[q] = "get"
  /\ Present(held[q], key[q])
  /\ obj' = [obj EXCEPT ![q] = CopyFor(q, e)]
  /\ resp' = [resp EXCEPT ![q] = q]
  /\ Goto(q, "log")
  /\ UNCHANGED <<config, now, stage, key, held, rcode, repo, made, store, given,
                 logged, seen>>

Miss(q) ==
  /\ pc[q] = "use" /\ stage[q] = "get"
  /\ ~Present(held[q], key[q])
  /\ Goto(q, "resolve")
  /\ UNCHANGED <<config, now, stage, key, held, obj, resp, rcode, repo, made,
                 store, given, logged, seen>>

\* The resolver returns what upstream gave for the question.  It reads the
\* answer without a timeout, so it may never return.
Resolve(q) ==
  /\ pc[q] = "resolve"
  /\ \E ttl \in TTLs \cup {None} :
       obj' = [obj EXCEPT ![q] =
         [id |-> q, key |-> key[q], from |-> q, ttl |-> ttl, at |-> now]]
  /\ resp' = [resp EXCEPT ![q] = q]
  /\ given' = given \cup {q}
  /\ stage' = [stage EXCEPT ![q] = "put"]
  /\ Goto(q, IF config.cache THEN "name" ELSE "log")
  /\ UNCHANGED <<config, now, key, held, rcode, repo, made, store, logged, seen>>

\* It throws: an exception of the DNS services becomes SERVFAIL, an unchecked
\* one ends the thread.
ResolveFails(q) ==
  /\ pc[q] = "resolve"
  /\ \/ ThrowServfail(q)
     \/ Goto(q, "silent") /\ UNCHANGED rcode
  /\ UNCHANGED <<config, now, stage, key, held, obj, resp, repo, made, store,
                 given, logged, seen>>

\* put(responseMessage, ttl, options): the entry refers to the object that will
\* be sent.  The root has no cache key: its answer is dropped for SERVFAIL.
Put(q) ==
  /\ pc[q] = "use" /\ stage[q] = "put"
  /\ \/ /\ key[q].name = RootName
        /\ ThrowServfail(q)
        /\ UNCHANGED store
     \/ /\ key[q].name # RootName
        /\ store' = [store EXCEPT ![held[q]][CacheKey(obj[q].key)] = NewEntry(q)]
        /\ Goto(q, "log")
        /\ UNCHANGED rcode
  /\ UNCHANGED <<config, now, stage, key, held, obj, resp, repo, made, given,
                 logged, seen>>

\* The stat log, when active, is a database write on the way out; its failure
\* leaves the client without the answer.  Then return responseMessage.
LogAndReturn(q) ==
  /\ pc[q] = "log"
  /\ \/ ~config.log /\ Goto(q, "answered") /\ UNCHANGED logged
     \/ /\ config.log
        /\ logged' = logged \cup {[query |-> q, sent |-> obj[resp[q]]]}
        /\ Goto(q, "answered")
     \/ config.log /\ Goto(q, "silent") /\ UNCHANGED logged
  /\ UNCHANGED <<config, now, stage, key, held, obj, resp, rcode, repo, made,
                 store, given, seen>>

-----------------------------------------------------------------------------
\* The steps that wait for nobody outside the program but the database.
LocalStep(q) ==
  \/ CacheName(q) \/ FindCache(q) \/ MakeCache(q) \/ RegisterCache(q)
  \/ Hit(q) \/ Miss(q) \/ Put(q) \/ LogAndReturn(q)

Next ==
  \/ Tick
  \/ \E q \in Queries : Arrive(q) \/ LocalStep(q) \/ Resolve(q) \/ ResolveFails(q)

Spec == Init /\ [][Next]_vars

\* The worker threads run; database calls return, well or badly.
FairSpec == Spec /\ \A q \in Queries : WF_vars(LocalStep(q))

-----------------------------------------------------------------------------
(* Properties.                                                             *)

\* What the client of q gets, read from the heap at every moment: a reply that
\* another thread still changes after it was settled would show here.
Outcome(q) ==
  IF pc[q] = "answered"
    THEN [kind |-> "answer", id |-> obj[resp[q]].id, key |-> obj[resp[q]].key,
          from |-> obj[resp[q]].from]
  ELSE IF pc[q] \in {"rcode", "silent"} THEN [kind |-> pc[q]]
  ELSE None

\* serveDNSQuery keeps the promise of DnsResolution: its own identifier, its
\* own question, an answer upstream gave, never changed once returned, although
\* the response objects are shared through the cache.
Resolution == INSTANCE DnsResolution
  WITH question <- key, outcome <- [q \in Queries |-> Outcome(q)]
ResolutionIsSound == Resolution!Spec

\* An entry of a cache answers the key it is filed under, with an answer that
\* upstream gave: nothing made up, and no name or type for another.
CachedIsGiven ==
  \A c \in Caches, k \in Keys :
    store[c][k] # None =>
      LET m == obj[store[c][k].obj] IN m.key = k /\ m.from \in given

\* The answer may still be used: its records have not outlived their TTL, and
\* an answer without records is no older than the cache lets it be.
Fresh(m) == now <= m.at + (IF m.ttl = None THEN MaxCacheTTL ELSE m.ttl)

\* Unless two threads raced to make the cache, a query whose answer was already
\* cached when it arrived, and is still fresh, does not go upstream.
RepeatIsHit ==
  Cardinality(made) <= 1 =>
    \A q \in Queries : pc[q] = "resolve" =>
      \A g \in seen[q] : obj[g].key = key[q] => ~Fresh(obj[g])

\* With the stat log active, what was logged for an answered query is what its
\* client gets, on a hit as on a miss.
AnsweredIsLogged ==
  config.log =>
    \A q \in Queries : pc[q] = "answered" =>
      [query |-> q, sent |-> obj[resp[q]]] \in logged

\* A query settles unless it waits for the upstream server: nothing inside the
\* service can hold it.
SettlesOrWaitsUpstream ==
  \A q \in Queries : pc[q] # "idle" ~> pc[q] \in Settled \cup {"resolve"}

\* An answer is served from the cache no longer than the TTL computed for its
\* entry, the least of its records (the comment where serveDNSQuery computes
\* it), counted from the put.  Entries never expire.
HitIsFresh ==
  [][\A q \in Queries :
       pc[q] = "use" /\ stage[q] = "get" /\ pc'[q] = "log" =>
         LET e == store[held[q]][CacheKey(key[q])] IN
         now <= e.born + EntryTTL(obj[e.obj])]_vars
=============================================================================
