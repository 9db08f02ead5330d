--------------------- MODULE DnsServiceInstance_proofs ---------------------
(***************************************************************************)
(* Theorems about the service instance, for any number of queries, names,  *)
(* types and TTLs, any clock bound and any set of configurations.          *)
(***************************************************************************)
EXTENDS DnsServiceInstance, FiniteSetTheorems, TLAPS

USE ConfigsAssumption, TimesAssumption, NoneAssumption

-----------------------------------------------------------------------------
(* The invariant: who refers to which response object, and what it holds.  *)

\* Before its own object is made a thread has none, and no cache refers to it.
LookingUp(q) ==
  \/ pc[q] \in {"idle", "resolve"}
  \/ pc[q] \in {"name", "find", "make", "register", "use"} /\ stage[q] = "get"

\* From then on it has one, which it will return.
Returning(q) ==
  \/ pc[q] \in {"log", "answered"}
  \/ pc[q] \in {"name", "find", "make", "register", "use"} /\ stage[q] = "put"

ThreadsOK ==
  \A q \in Queries :
    /\ pc[q] = "idle" <=> key[q] = None
    /\ pc[q] \in {"idle", "resolve"} => stage[q] = "get"
    /\ LookingUp(q) => obj[q] = None
    /\ Returning(q) => obj[q] # None /\ resp[q] = q

\* A response object answers the question of its query, for its query, with
\* what upstream gave to a query for the same key.
ObjectsOK ==
  \A q \in Queries : obj[q] # None =>
    /\ obj[q].id = q /\ obj[q].key = key[q]
    /\ obj[q].from \in given /\ key[obj[q].from] = key[q]

\* An entry refers to an object that answers the key it is filed under.
EntriesOK ==
  \A c \in Caches, k \in Keys : store[c][k] # None =>
    obj[store[c][k].obj] # None /\ obj[store[c][k].obj].key = k

\* Upstream is only asked for queries that have arrived.
GivenOK == \A q \in given : key[q] # None

ServiceInv == TypeOK /\ ThreadsOK /\ ObjectsOK /\ EntriesOK /\ GivenOK

-----------------------------------------------------------------------------
(* Operators of the model.                                                 *)

\* What a thread of query q copies from the cache is a message for q.
LEMMA CopyIsMessage ==
  ASSUME NEW q \in Queries, NEW e \in Entries, obj[e.obj] \in Messages
  PROVE  /\ CopyFor(q, e) \in Messages
         /\ CopyFor(q, e).id = q
         /\ CopyFor(q, e).key = obj[e.obj].key
         /\ CopyFor(q, e).from = obj[e.obj].from
<1> DEFINE m == obj[e.obj]
           left == IF m.ttl # None /\ m.ttl > LeftTTL(e) THEN LeftTTL(e) ELSE m.ttl
<1>1. LeftTTL(e) \in 0..Forever
  BY DEF LeftTTL, HasUnlimitedTTL, Forever
<1>2. left \in 0..Forever \cup {None}
  BY <1>1 DEF Messages
<1>3. CopyFor(q, e) = [m EXCEPT !.id = q, !.ttl = left]
  BY DEF CopyFor
<1> HIDE DEF left
<1>4. CopyFor(q, e) = [id |-> q, key |-> m.key, from |-> m.from, ttl |-> left,
                       at |-> m.at]
  BY <1>3 DEF Messages
<1> QED
  BY <1>2, <1>4 DEF Messages

\* What is put into a cache is an entry, which never leaves it.
LEMMA NewEntryIsEntry ==
  ASSUME NEW q \in Queries, now \in 0..MaxTime
  PROVE  NewEntry(q) \in Entries /\ NewEntry(q).obj = q
<1>1. MaxTime \in Nat /\ now \in 0..MaxTime
  OBVIOUS
<1>2. NewEntry(q) = [obj |-> q, born |-> now, ttl |-> 0, until |-> now + (MaxTime + 1)]
  BY DEF NewEntry, LeftTTL, HasUnlimitedTTL, StoredTTL, Forever
<1>3. now + (MaxTime + 1) \in 0..(2 * (MaxTime + 1)) /\ 0 \in 0..(MaxTime + 1)
  BY <1>1
<1> QED
  BY <1>1, <1>2, <1>3 DEF Entries, Forever

\* The error response always carries RCODE 0.
LEMMA ServfailSaysNoError == GetResponseCode(ServfailException) = 0
BY DEF GetResponseCode, ServfailException, SetResponseCode

-----------------------------------------------------------------------------
(* The invariant is inductive.                                             *)

LEMMA ServiceInit == Init => ServiceInv
<1> SUFFICES ASSUME Init PROVE ServiceInv
  OBVIOUS
<1>1. TypeOK
  BY DEF Init, TypeOK, Pcs, Settled, Caches, EarlierCache
<1> QED
  BY <1>1 DEF Init, ServiceInv, ThreadsOK, ObjectsOK, EntriesOK, GivenOK, LookingUp,
              Returning

\* Steps of one thread that touch neither messages nor entries.
LEMMA ThreadMoves ==
  ASSUME ServiceInv, TypeOK', NEW q \in Queries, NEW to \in Pcs, Goto(q, to),
         UNCHANGED <<stage, key, obj, resp, store, given>>,
         pc[q] # "idle", to # "idle",
         to = "resolve" => stage[q] = "get",
         LookingUp(q)' => LookingUp(q),
         Returning(q)' => Returning(q)
  PROVE  ServiceInv'
<1>1. /\ pc'[q] = to
      /\ \A p \in Queries : p # q => pc'[p] = pc[p]
  BY DEF ServiceInv, TypeOK, Goto
<1>2. ThreadsOK'
  BY <1>1 DEF ServiceInv, ThreadsOK, LookingUp, Returning
<1> QED
  BY <1>1, <1>2 DEF ServiceInv, ObjectsOK, EntriesOK, GivenOK

\* Goto keeps the type of pc.
LEMMA GotoType ==
  ASSUME TypeOK, NEW q \in Queries, NEW to \in Pcs, Goto(q, to)
  PROVE  /\ pc' \in [Queries -> Pcs] /\ pc'[q] = to
         /\ \A p \in Queries : p # q => pc'[p] = pc[p]
BY DEF TypeOK, Goto

\* An RCODE stays one, whether a thread throws SERVFAIL or not.
LEMMA RcodeType ==
  ASSUME TypeOK, NEW q \in Queries, ThrowServfail(q) \/ UNCHANGED rcode
  PROVE  rcode' \in [Queries -> 0..23 \cup {None}]
<1>1. 0 \in 0..23
  OBVIOUS
<1>2. rcode' = rcode \/ rcode' = [rcode EXCEPT ![q] = 0]
  BY ServfailSaysNoError DEF ThrowServfail
<1> QED
  BY <1>1, <1>2 DEF TypeOK

\* Steps in which the thread of q makes the object it will return.
LEMMA ObjectMade ==
  ASSUME ServiceInv, TypeOK', NEW q \in Queries, NEW to \in {"name", "log"},
         NEW m, m # None,
         LookingUp(q), pc[q] # "idle", Goto(q, to), Returning(q)',
         obj' = [obj EXCEPT ![q] = m], resp' = [resp EXCEPT ![q] = q],
         m.id = q, m.key = key[q], m.from \in given', key[m.from] = key[q],
         given' \subseteq given \cup {q},
         given \subseteq given',
         UNCHANGED <<key, store>>,
         \A p \in Queries : p # q => stage'[p] = stage[p]
  PROVE  ServiceInv'
<1>1. /\ pc'[q] = to /\ obj'[q] = m /\ resp'[q] = q
      /\ \A p \in Queries : p # q =>
           pc'[p] = pc[p] /\ obj'[p] = obj[p] /\ resp'[p] = resp[p]
  BY DEF ServiceInv, TypeOK, Goto
<1>2. obj[q] = None
  BY DEF ServiceInv, ThreadsOK
<1>3. ThreadsOK'
  BY <1>1 DEF ServiceInv, ThreadsOK, LookingUp, Returning
<1>4. ObjectsOK'
  BY <1>1 DEF ServiceInv, ObjectsOK
<1>5. \A c \in Caches, k \in Keys : store[c][k] # None =>
        store[c][k].obj \in Queries /\ store[c][k].obj # q
  BY <1>2 DEF ServiceInv, EntriesOK, TypeOK, Entries
<1>6. EntriesOK'
  BY <1>1, <1>5 DEF ServiceInv, EntriesOK
<1>7. GivenOK'
  BY DEF ServiceInv, GivenOK, ThreadsOK
<1> QED
  BY <1>3, <1>4, <1>6, <1>7 DEF ServiceInv

LEMMA ServiceNext == ServiceInv /\ [Next]_vars => ServiceInv'
<1> SUFFICES ASSUME ServiceInv, [Next]_vars PROVE ServiceInv'
  OBVIOUS
<1>t. TypeOK /\ \A q \in Queries : pc[q] \in Pcs
  BY DEF ServiceInv, TypeOK
<1>p. /\ {"idle", "name", "find", "make", "register", "use", "resolve", "log",
          "answered", "rcode", "silent"} = Pcs
  BY DEF Pcs, Settled
<1>1. CASE Tick
  <2>1. TypeOK'
    BY <1>1, <1>t DEF Tick, TypeOK
  <2> QED
    BY <1>1, <2>1 DEF Tick, ServiceInv, ThreadsOK, ObjectsOK, EntriesOK, GivenOK,
                      LookingUp, Returning
<1>2. ASSUME NEW q \in Queries, Arrive(q) PROVE ServiceInv'
  <2> PICK k \in Keys : key' = [key EXCEPT ![q] = k]
    BY <1>2 DEF Arrive
  <2>1. /\ pc[q] = "idle" /\ key[q] = None /\ k # None
        /\ obj[q] = None /\ stage[q] = "get"
        /\ UNCHANGED <<config, now, stage, held, obj, resp, rcode, repo, made,
                       store, given, logged>>
    BY <1>2 DEF Arrive, ServiceInv, ThreadsOK, LookingUp
  <2>2. PICK to \in {"name", "resolve"} : Goto(q, to)
    BY <1>2 DEF Arrive
  <2>3. /\ pc' \in [Queries -> Pcs] /\ pc'[q] = to /\ key'[q] = k
        /\ \A p \in Queries : p # q => pc'[p] = pc[p] /\ key'[p] = key[p]
    BY <1>t, <1>p, <2>2, GotoType DEF TypeOK
  <2>4. seen' \in [Queries -> SUBSET Queries]
    <3> DEFINE s == IF repo = None THEN {}
                    ELSE {store[repo][j].obj : j \in {i \in Keys : store[repo][i] # None}}
    <3>1. s \subseteq Queries
      BY <1>t DEF TypeOK, Entries
    <3>2. seen' = [seen EXCEPT ![q] = s]
      BY <1>2 DEF Arrive
    <3> HIDE DEF s
    <3> QED
      BY <1>t, <3>1, <3>2 DEF TypeOK
  <2>5. TypeOK'
    BY <1>t, <2>1, <2>2, <2>3, <2>4 DEF TypeOK
  <2>6. ThreadsOK'
    BY <2>1, <2>3 DEF ServiceInv, ThreadsOK, LookingUp, Returning
  <2>7. \A p \in Queries : obj[p] # None => p # q /\ obj[p].from # q
    BY <2>1 DEF ServiceInv, ObjectsOK, GivenOK
  <2>8. given \subseteq Queries
    BY <1>t DEF TypeOK
  <2>9. ObjectsOK' /\ GivenOK'
    BY <2>1, <2>3, <2>7, <2>8 DEF ServiceInv, ObjectsOK, GivenOK
  <2>10. EntriesOK'
    BY <2>1 DEF ServiceInv, EntriesOK
  <2> QED
    BY <2>5, <2>6, <2>9, <2>10 DEF ServiceInv
<1>3. ASSUME NEW q \in Queries, CacheName(q) PROVE ServiceInv'
  <2> PICK to \in {"find", "silent"} : Goto(q, to)
    BY <1>3 DEF CacheName
  <2>1. /\ to \in Pcs /\ pc[q] = "name" /\ pc'[q] = to
        /\ \A p \in Queries : p # q => pc'[p] = pc[p]
        /\ pc' \in [Queries -> Pcs]
    BY <1>3, <1>t, <1>p, GotoType DEF CacheName
  <2>2. TypeOK'
    BY <1>3, <1>t, <2>1 DEF CacheName, TypeOK
  <2> QED
    BY <1>3, <2>1, <2>2, ThreadMoves DEF CacheName, LookingUp, Returning
<1>4. ASSUME NEW q \in Queries, FindCache(q) PROVE ServiceInv'
  <2>1. PICK to \in {"use", "make"} : Goto(q, to)
    BY <1>4 DEF FindCache
  <2>2. /\ to \in Pcs /\ pc[q] = "find" /\ pc'[q] = to
        /\ \A p \in Queries : p # q => pc'[p] = pc[p]
        /\ pc' \in [Queries -> Pcs]
    BY <1>4, <1>t, <1>p, <2>1, GotoType DEF FindCache
  <2>3. /\ held' \in [Queries -> Caches \cup {None}]
        /\ to = "use" => held'[q] \in Caches
        /\ \A p \in Queries : p # q => held'[p] = held[p]
    BY <1>4, <1>t, <2>2 DEF FindCache, TypeOK, Goto
  <2>4. TypeOK'
    BY <1>4, <1>t, <2>2, <2>3 DEF FindCache, TypeOK
  <2> QED
    BY <1>4, <2>1, <2>2, <2>4, ThreadMoves DEF FindCache, LookingUp, Returning
<1>5. ASSUME NEW q \in Queries, MakeCache(q) PROVE ServiceInv'
  <2>1. PICK to \in {"register", "rcode", "silent"} : Goto(q, to)
    BY <1>5 DEF MakeCache, ThrowServfail
  <2>2. /\ to \in Pcs /\ pc[q] = "make" /\ pc'[q] = to
        /\ \A p \in Queries : p # q => pc'[p] = pc[p]
        /\ pc' \in [Queries -> Pcs]
    BY <1>5, <1>t, <1>p, <2>1, GotoType DEF MakeCache
  <2>3. rcode' \in [Queries -> 0..23 \cup {None}]
    BY <1>5, <1>t, RcodeType DEF MakeCache
  <2>4. TypeOK'
    BY <1>5, <1>t, <2>2, <2>3 DEF MakeCache, TypeOK
  <2> QED
    BY <1>5, <2>1, <2>2, <2>4, ThreadMoves DEF MakeCache, LookingUp, Returning
<1>6. ASSUME NEW q \in Queries, RegisterCache(q) PROVE ServiceInv'
  <2> DEFINE c == <<q, stage[q]>>
  <2>1. c \in Caches
    BY <1>t DEF Caches, TypeOK
  <2>2. /\ pc[q] = "register" /\ Goto(q, "use") /\ "use" \in Pcs
        /\ held' = [held EXCEPT ![q] = c] /\ made' = made \cup {c}
        /\ repo' \in {c, repo}
        /\ UNCHANGED <<config, now, stage, key, obj, resp, rcode, store, given,
                       logged, seen>>
    BY <1>6, <1>p DEF RegisterCache
  <2> HIDE DEF c
  <2>3. /\ pc'[q] = "use"
        /\ \A p \in Queries : p # q => pc'[p] = pc[p]
        /\ pc' \in [Queries -> Pcs]
    BY <1>t, <2>2, GotoType
  <2>4. TypeOK'
    BY <1>t, <2>1, <2>2, <2>3 DEF TypeOK
  <2> QED
    BY <2>2, <2>3, <2>4, ThreadMoves DEF LookingUp, Returning
<1>7. ASSUME NEW q \in Queries, Hit(q) PROVE ServiceInv'
  <2> DEFINE e == store[held[q]][CacheKey(key[q])]
  <2>1. /\ pc[q] = "use" /\ stage[q] = "get" /\ Goto(q, "log") /\ "log" \in Pcs
        /\ e # None
        /\ obj' = [obj EXCEPT ![q] = CopyFor(q, e)]
        /\ resp' = [resp EXCEPT ![q] = q]
        /\ UNCHANGED <<config, now, stage, key, held, rcode, repo, made, store,
                       given, logged, seen>>
    BY <1>7, <1>p DEF Hit, Present
  <2>2. held[q] \in Caches /\ key[q] \in Keys /\ CacheKey(key[q]) = key[q]
    BY <1>t, <2>1 DEF TypeOK, ServiceInv, ThreadsOK, CacheKey
  <2>3. /\ e \in Entries /\ e.obj \in Queries
        /\ obj[e.obj] # None /\ obj[e.obj] \in Messages
        /\ obj[e.obj].key = key[q]
    BY <1>t, <2>1, <2>2 DEF TypeOK, ServiceInv, EntriesOK, Entries
  <2> HIDE DEF e
  <2>4. /\ CopyFor(q, e) \in Messages /\ CopyFor(q, e) # None
        /\ CopyFor(q, e).id = q /\ CopyFor(q, e).key = key[q]
        /\ CopyFor(q, e).from \in given /\ key[CopyFor(q, e).from] = key[q]
    <3>1. obj[e.obj].from \in given /\ key[obj[e.obj].from] = key[e.obj]
          /\ obj[e.obj].key = key[e.obj]
      BY <2>3 DEF ServiceInv, ObjectsOK
    <3>2. /\ CopyFor(q, e) \in Messages
          /\ CopyFor(q, e).id = q
          /\ CopyFor(q, e).key = obj[e.obj].key
          /\ CopyFor(q, e).from = obj[e.obj].from
      BY <2>3, CopyIsMessage
    <3>3. None \notin Messages
      BY NoneAssumption
    <3> QED
      BY <2>3, <3>1, <3>2, <3>3
  <2> DEFINE m == CopyFor(q, e)
  <2>5. /\ obj'[q] = m /\ resp'[q] = q /\ pc'[q] = "log"
        /\ \A p \in Queries : p # q =>
             obj'[p] = obj[p] /\ resp'[p] = resp[p] /\ pc'[p] = pc[p]
        /\ pc' \in [Queries -> Pcs]
    BY <1>t, <2>1, GotoType DEF TypeOK
  <2> HIDE DEF m
  <2>6. TypeOK'
    BY <1>t, <2>1, <2>4, <2>5 DEF TypeOK, m
  <2>7. LookingUp(q) /\ Returning(q)'
    BY <2>1, <2>5 DEF LookingUp, Returning
  <2> QED
    BY <2>1, <2>4, <2>6, <2>7, ObjectMade DEF m
<1>8. ASSUME NEW q \in Queries, Miss(q) PROVE ServiceInv'
  <2>1. /\ pc[q] = "use" /\ stage[q] = "get" /\ Goto(q, "resolve") /\ "resolve" \in Pcs
        /\ UNCHANGED <<config, now, stage, key, held, obj, resp, rcode, repo, made,
                       store, given, logged, seen>>
    BY <1>8, <1>p DEF Miss
  <2>2. /\ pc'[q] = "resolve" /\ pc' \in [Queries -> Pcs]
        /\ \A p \in Queries : p # q => pc'[p] = pc[p]
    BY <1>t, <2>1, GotoType
  <2>3. TypeOK'
    BY <1>t, <2>1, <2>2 DEF TypeOK
  <2> QED
    BY <2>1, <2>2, <2>3, ThreadMoves DEF LookingUp, Returning
<1>9. ASSUME NEW q \in Queries, Resolve(q) PROVE ServiceInv'
  <2> PICK ttl \in TTLs \cup {None} :
        obj' = [obj EXCEPT ![q] =
          [id |-> q, key |-> key[q], from |-> q, ttl |-> ttl, at |-> now]]
    BY <1>9 DEF Resolve
  <2> DEFINE m == [id |-> q, key |-> key[q], from |-> q, ttl |-> ttl, at |-> now]
  <2>1. PICK to \in {"name", "log"} : Goto(q, to)
    BY <1>9 DEF Resolve
  <2>2. /\ pc[q] = "resolve" /\ resp' = [resp EXCEPT ![q] = q]
        /\ given' = given \cup {q} /\ stage' = [stage EXCEPT ![q] = "put"]
        /\ UNCHANGED <<config, now, key, held, rcode, repo, made, store, logged, seen>>
    BY <1>9 DEF Resolve
  <2>3. key[q] \in Keys
    BY <1>t, <2>2 DEF TypeOK, ServiceInv, ThreadsOK
  <2>4. ttl \in 0..Forever \cup {None}
    <3>1. MaxTime \in Nat /\ TTLs \subseteq 0..MaxTime
      OBVIOUS
    <3> QED
      BY <3>1 DEF Forever
  <2>5. m \in Messages /\ m # None
    <3>1. now \in 0..MaxTime
      BY <1>t DEF TypeOK
    <3>2. m \in Messages
      BY <2>3, <2>4, <3>1 DEF Messages
    <3> QED
      BY <3>2, NoneAssumption
  <2>6. m.id = q /\ m.key = key[q] /\ m.from = q
    OBVIOUS
  <2>6a. obj' = [obj EXCEPT ![q] = m]
    OBVIOUS
  <2> HIDE DEF m
  <2>7. /\ pc' \in [Queries -> Pcs] /\ pc'[q] = to /\ stage'[q] = "put"
        /\ \A p \in Queries : p # q => pc'[p] = pc[p] /\ stage'[p] = stage[p]
    BY <1>t, <1>p, <2>1, <2>2, GotoType DEF TypeOK
  <2>8. TypeOK'
    <3>1. obj' \in [Queries -> Messages \cup {None}]
      BY <1>t, <2>5, <2>6a DEF TypeOK
    <3>2. /\ stage' \in [Queries -> {"get", "put"}]
          /\ resp' \in [Queries -> Queries \cup {None}]
          /\ given' \subseteq Queries
      BY <1>t, <2>2 DEF TypeOK
    <3>3. \A p \in Queries : pc'[p] = "use" => held'[p] \in Caches
      BY <1>t, <2>2, <2>7 DEF TypeOK
    <3> QED
      BY <1>t, <2>2, <2>7, <3>1, <3>2, <3>3 DEF TypeOK
  <2>9. LookingUp(q) /\ Returning(q)'
    BY <2>2, <2>7 DEF LookingUp, Returning
  <2> QED
    BY <2>1, <2>2, <2>5, <2>6, <2>6a, <2>7, <2>8, <2>9, ObjectMade
<1>10. ASSUME NEW q \in Queries, ResolveFails(q) PROVE ServiceInv'
  <2>1. PICK to \in {"rcode", "silent"} : Goto(q, to)
    BY <1>10 DEF ResolveFails, ThrowServfail
  <2>2. /\ to \in Pcs /\ pc[q] = "resolve" /\ pc'[q] = to
        /\ \A p \in Queries : p # q => pc'[p] = pc[p]
        /\ pc' \in [Queries -> Pcs]
    BY <1>10, <1>t, <1>p, <2>1, GotoType DEF ResolveFails
  <2>3. rcode' \in [Queries -> 0..23 \cup {None}]
    BY <1>10, <1>t, RcodeType DEF ResolveFails
  <2>4. TypeOK'
    BY <1>10, <1>t, <2>2, <2>3 DEF ResolveFails, TypeOK
  <2> QED
    BY <1>10, <2>1, <2>2, <2>4, ThreadMoves DEF ResolveFails, LookingUp, Returning
<1>11. ASSUME NEW q \in Queries, Put(q) PROVE ServiceInv'
  <2>1. PICK to \in {"rcode", "log"} : Goto(q, to)
    BY <1>11 DEF Put, ThrowServfail
  <2>2. /\ to \in Pcs /\ pc[q] = "use" /\ stage[q] = "put" /\ pc'[q] = to
        /\ \A p \in Queries : p # q => pc'[p] = pc[p]
        /\ pc' \in [Queries -> Pcs]
        /\ UNCHANGED <<config, now, stage, key, held, obj, resp, repo, made, given,
                       logged, seen>>
    BY <1>11, <1>t, <1>p, <2>1, GotoType DEF Put
  <2>3. rcode' \in [Queries -> 0..23 \cup {None}]
    BY <1>11, <1>t, RcodeType DEF Put
  <2>4. CASE UNCHANGED store
    <3>1. TypeOK'
      BY <1>t, <2>2, <2>3, <2>4 DEF TypeOK
    <3> QED
      BY <2>1, <2>2, <2>4, <3>1, ThreadMoves DEF LookingUp, Returning
  <2>5. CASE store' # store
    <3> DEFINE k == obj[q].key
               e == NewEntry(q)
    <3>1. store' = [store EXCEPT ![held[q]][k] = e]
      BY <1>11, <2>5 DEF Put, CacheKey
    <3>2. obj[q] # None /\ obj[q] \in Messages /\ k \in Keys /\ held[q] \in Caches
      BY <1>t, <2>2 DEF ServiceInv, ThreadsOK, Returning, TypeOK, Messages
    <3>3. e \in Entries /\ e.obj = q
      BY <1>t, NewEntryIsEntry DEF TypeOK
    <3>4. obj[q].key = k
      OBVIOUS
    <3> HIDE DEF e, k
    <3>5. store' \in [Caches -> [Keys -> Entries \cup {None}]]
      <4>1. store[held[q]] \in [Keys -> Entries \cup {None}]
        BY <1>t, <3>2 DEF TypeOK
      <4>2. [store[held[q]] EXCEPT ![k] = e] \in [Keys -> Entries \cup {None}]
        BY <3>2, <3>3, <4>1
      <4> QED
        BY <1>t, <3>1, <3>2, <4>2 DEF TypeOK
    <3>6. \A c \in Caches, j \in Keys :
            store'[c][j] = store[c][j] \/ (j = k /\ store'[c][j] = e)
      BY <1>t, <3>1, <3>2 DEF TypeOK
    <3>7. TypeOK'
      BY <1>t, <2>2, <2>3, <3>5 DEF TypeOK
    <3>8. ThreadsOK'
      BY <2>1, <2>2 DEF ServiceInv, ThreadsOK, LookingUp, Returning
    <3>9. ObjectsOK' /\ GivenOK'
      BY <2>2 DEF ServiceInv, ObjectsOK, GivenOK
    <3>10. EntriesOK'
      BY <2>2, <3>2, <3>3, <3>4, <3>6 DEF ServiceInv, EntriesOK
    <3> QED
      BY <3>7, <3>8, <3>9, <3>10 DEF ServiceInv
  <2> QED
    BY <2>4, <2>5
<1>12. ASSUME NEW q \in Queries, LogAndReturn(q) PROVE ServiceInv'
  <2>1. PICK to \in {"answered", "silent"} : Goto(q, to)
    BY <1>12 DEF LogAndReturn
  <2>2. /\ to \in Pcs /\ pc[q] = "log" /\ pc'[q] = to
        /\ \A p \in Queries : p # q => pc'[p] = pc[p]
        /\ pc' \in [Queries -> Pcs]
        /\ UNCHANGED <<config, now, stage, key, held, obj, resp, rcode, repo, made,
                       store, given, seen>>
    BY <1>12, <1>t, <1>p, <2>1, GotoType DEF LogAndReturn
  <2>3. obj[resp[q]] \in Messages
    BY <1>t, <2>2 DEF ServiceInv, ThreadsOK, Returning, TypeOK
  <2>4. logged' \subseteq [query : Queries, sent : Messages]
    BY <1>12, <1>t, <2>3 DEF LogAndReturn, TypeOK
  <2>5. TypeOK'
    BY <1>t, <2>2, <2>4 DEF TypeOK
  <2> QED
    BY <2>1, <2>2, <2>5, ThreadMoves DEF LookingUp, Returning
<1>13. CASE UNCHANGED vars
  <2>1. TypeOK'
    BY <1>13, <1>t DEF vars, TypeOK
  <2> QED
    BY <1>13, <2>1 DEF vars, ServiceInv, ThreadsOK, ObjectsOK, EntriesOK, GivenOK,
                       LookingUp, Returning
<1> QED
  BY <1>1, <1>2, <1>3, <1>4, <1>5, <1>6, <1>7, <1>8, <1>9, <1>10, <1>11, <1>12,
     <1>13 DEF Next, LocalStep

LEMMA ServiceInvariant == Spec => []ServiceInv
BY ServiceInit, ServiceNext, PTL DEF Spec

\* Every state of the service instance is of the declared types; in particular
\* a thread that uses a cache has one.
THEOREM TypeCorrect == Spec => []TypeOK
<1>1. ServiceInv => TypeOK
  BY DEF ServiceInv
<1> QED
  BY <1>1, ServiceInvariant, PTL

\* Whatever the interleaving of lookups, creations of caches and puts, an entry
\* answers the key it is filed under with an answer that upstream gave.
THEOREM EntriesAreGiven == Spec => []CachedIsGiven
<1>1. ServiceInv => CachedIsGiven
  <2> SUFFICES ASSUME ServiceInv, NEW c \in Caches, NEW k \in Keys,
                      store[c][k] # None
               PROVE  /\ obj[store[c][k].obj].key = k
                      /\ obj[store[c][k].obj].from \in given
    BY DEF CachedIsGiven
  <2>1. store[c][k].obj \in Queries
    BY DEF ServiceInv, TypeOK, Entries
  <2> QED
    BY <2>1 DEF ServiceInv, EntriesOK, ObjectsOK
<1> QED
  BY <1>1, ServiceInvariant, PTL

-----------------------------------------------------------------------------
(* The service instance implements DnsResolution.                          *)

Outcomes == [q \in Queries |-> Outcome(q)]

\* Nobody writes the object another thread returns: it is enough to say where
\* the threads go to know what becomes of the outcomes.
LEMMA OutcomesMove ==
  ASSUME ServiceInv, NEW q \in Queries,
         \A p \in Queries : p # q =>
           pc'[p] = pc[p] /\ obj'[p] = obj[p] /\ resp'[p] = resp[p]
  PROVE  Outcomes' = [Outcomes EXCEPT ![q] = Outcome(q)']
<1>1. ASSUME NEW p \in Queries, p # q PROVE Outcome(p)' = Outcome(p)
  <2>1. CASE pc[p] = "answered"
    <3>1. resp[p] = p
      BY <2>1 DEF ServiceInv, ThreadsOK, Returning
    <3> QED
      BY <1>1, <2>1, <3>1 DEF Outcome
  <2>2. CASE pc[p] # "answered"
    BY <1>1, <2>2 DEF Outcome
  <2> QED
    BY <2>1, <2>2
<1> QED
  BY <1>1 DEF Outcomes

\* A thread that goes on serving its query changes no outcome.
LEMMA GoingOn ==
  ASSUME ServiceInv, NEW q \in Queries,
         pc[q] \notin Settled, pc'[q] \notin Settled,
         \A p \in Queries : p # q =>
           pc'[p] = pc[p] /\ obj'[p] = obj[p] /\ resp'[p] = resp[p]
  PROVE  Outcomes' = Outcomes
<1>1. Outcome(q) = None /\ Outcome(q)' = None
  BY DEF Outcome, Settled
<1>2. Outcomes' = [Outcomes EXCEPT ![q] = Outcome(q)']
  BY OutcomesMove
<1> QED
  BY <1>1, <1>2 DEF Outcomes

\* A query that fails fails for good and for itself alone.
LEMMA Failing ==
  ASSUME ServiceInv, NEW q \in Queries, NEW to \in {"rcode", "silent"}, Goto(q, to),
         pc[q] \notin Settled, pc[q] # "idle", UNCHANGED <<key, obj, resp, given>>
  PROVE  Resolution!Fail(q)
<1>1. /\ pc'[q] = to
      /\ \A p \in Queries : p # q => pc'[p] = pc[p]
  BY DEF ServiceInv, TypeOK, Goto
<1>2. Outcomes' = [Outcomes EXCEPT ![q] = Outcome(q)']
  BY <1>1, OutcomesMove
<1>3. Outcomes[q] = None /\ Outcome(q)' = [kind |-> to]
  BY <1>1 DEF Outcomes, Outcome, Settled
<1>4. key[q] # None
  BY DEF ServiceInv, ThreadsOK
<1> QED
  BY <1>2, <1>3, <1>4 DEF Resolution!Fail, Resolution!Open, Outcomes

LEMMA ResolutionStep ==
  ServiceInv /\ [Next]_vars => [Resolution!Next]_(Resolution!vars)
<1> SUFFICES ASSUME ServiceInv, [Next]_vars
             PROVE  \/ \E q \in Queries :
                         \/ \E k \in Keys : Resolution!Ask(q, k)
                         \/ Resolution!UpstreamGives(q)
                         \/ Resolution!Answer(q) \/ Resolution!Fail(q)
                    \/ UNCHANGED <<key, given, Outcomes>>
  BY DEF Resolution!Next, Resolution!vars, Outcomes
<1>s. Settled = {"answered", "rcode", "silent"}
  BY DEF Settled
<1>g. \A q \in Queries : \A to : Goto(q, to) =>
        pc'[q] = to /\ \A p \in Queries : p # q => pc'[p] = pc[p]
  BY DEF ServiceInv, TypeOK, Goto
<1>1. ASSUME NEW q \in Queries, Arrive(q)
      PROVE \E k \in Keys : Resolution!Ask(q, k)
  <2> PICK k \in Keys : key' = [key EXCEPT ![q] = k]
    BY <1>1 DEF Arrive
  <2>1. /\ pc[q] = "idle" /\ pc'[q] \in {"name", "resolve"} /\ key[q] = None
        /\ \A p \in Queries : p # q => pc'[p] = pc[p]
        /\ UNCHANGED <<obj, resp, given>>
    BY <1>1, <1>g DEF Arrive, ServiceInv, ThreadsOK
  <2>2. Outcomes' = Outcomes
    BY <1>s, <2>1, GoingOn
  <2> QED
    BY <2>1, <2>2 DEF Resolution!Ask, Outcomes
<1>2. ASSUME NEW q \in Queries, CacheName(q)
      PROVE Resolution!Fail(q) \/ UNCHANGED <<key, given, Outcomes>>
  <2>1. CASE Goto(q, "silent")
    BY <1>2, <1>s, <2>1, Failing DEF CacheName
  <2>2. CASE Goto(q, "find")
    BY <1>2, <1>s, <1>g, <2>2, GoingOn DEF CacheName
  <2> QED
    BY <1>2, <2>1, <2>2 DEF CacheName
<1>3. ASSUME NEW q \in Queries, FindCache(q) \/ RegisterCache(q) \/ Miss(q)
      PROVE UNCHANGED <<key, given, Outcomes>>
  <2>1. /\ pc[q] \in {"find", "register", "use"}
        /\ \E to \in {"use", "make", "resolve"} : Goto(q, to)
        /\ UNCHANGED <<key, given, obj, resp>>
    BY <1>3 DEF FindCache, RegisterCache, Miss
  <2> QED
    BY <1>s, <1>g, <2>1, GoingOn
<1>4. ASSUME NEW q \in Queries, MakeCache(q)
      PROVE Resolution!Fail(q) \/ UNCHANGED <<key, given, Outcomes>>
  <2>1. CASE Goto(q, "silent") \/ Goto(q, "rcode")
    BY <1>4, <1>s, <2>1, Failing DEF MakeCache
  <2>2. CASE Goto(q, "register")
    BY <1>4, <1>s, <1>g, <2>2, GoingOn DEF MakeCache
  <2> QED
    BY <1>4, <2>1, <2>2 DEF MakeCache, ThrowServfail
<1>5. ASSUME NEW q \in Queries, Hit(q) PROVE UNCHANGED <<key, given, Outcomes>>
  <2>1. /\ pc[q] = "use" /\ Goto(q, "log")
        /\ \A p \in Queries : p # q => obj'[p] = obj[p] /\ resp'[p] = resp[p]
        /\ UNCHANGED <<key, given>>
    BY <1>5 DEF Hit, ServiceInv, TypeOK
  <2> QED
    BY <1>s, <1>g, <2>1, GoingOn
<1>6. ASSUME NEW q \in Queries, Resolve(q) PROVE Resolution!UpstreamGives(q)
  <2>1. /\ pc[q] = "resolve" /\ \E to \in {"name", "log"} : Goto(q, to)
        /\ \A p \in Queries : p # q => obj'[p] = obj[p] /\ resp'[p] = resp[p]
        /\ given' = given \cup {q} /\ UNCHANGED key
    BY <1>6 DEF Resolve, ServiceInv, TypeOK
  <2>2. Outcomes' = Outcomes
    BY <1>s, <1>g, <2>1, GoingOn
  <2>3. key[q] # None /\ Outcomes[q] = None
    BY <2>1 DEF ServiceInv, ThreadsOK, Outcomes, Outcome
  <2> QED
    BY <2>1, <2>2, <2>3 DEF Resolution!UpstreamGives, Resolution!Open, Outcomes
<1>7. ASSUME NEW q \in Queries, ResolveFails(q) PROVE Resolution!Fail(q)
  <2>1. \E to \in {"rcode", "silent"} : Goto(q, to)
    BY <1>7 DEF ResolveFails, ThrowServfail
  <2> QED
    BY <1>7, <1>s, <2>1, Failing DEF ResolveFails
<1>8. ASSUME NEW q \in Queries, Put(q)
      PROVE Resolution!Fail(q) \/ UNCHANGED <<key, given, Outcomes>>
  <2>1. CASE Goto(q, "rcode")
    BY <1>8, <1>s, <2>1, Failing DEF Put
  <2>2. CASE Goto(q, "log")
    BY <1>8, <1>s, <1>g, <2>2, GoingOn DEF Put
  <2> QED
    BY <1>8, <2>1, <2>2 DEF Put, ThrowServfail
<1>9. ASSUME NEW q \in Queries, LogAndReturn(q)
      PROVE Resolution!Fail(q) \/ Resolution!Answer(q)
  <2>1. CASE Goto(q, "silent")
    BY <1>9, <1>s, <2>1, Failing DEF LogAndReturn
  <2>2. CASE Goto(q, "answered")
    <3>1. /\ pc[q] = "log" /\ pc'[q] = "answered"
          /\ \A p \in Queries : p # q => pc'[p] = pc[p]
          /\ UNCHANGED <<key, given, obj, resp>>
      BY <1>9, <1>g, <2>2 DEF LogAndReturn
    <3>2. Outcomes' = [Outcomes EXCEPT ![q] = Outcome(q)']
      BY <3>1, OutcomesMove
    <3>3. obj[q] # None /\ resp[q] = q /\ key[q] # None
      BY <3>1 DEF ServiceInv, ThreadsOK, Returning
    <3>4. /\ obj[q].id = q /\ obj[q].key = key[q]
          /\ obj[q].from \in given /\ key[obj[q].from] = key[q]
      BY <3>3 DEF ServiceInv, ObjectsOK
    <3>5. Outcome(q)' = [kind |-> "answer", id |-> q, key |-> key[q],
                         from |-> obj[q].from]
      BY <3>1, <3>3, <3>4 DEF Outcome
    <3>6. Outcomes[q] = None
      BY <3>1 DEF Outcomes, Outcome
    <3> QED
      BY <3>1, <3>2, <3>3, <3>4, <3>5, <3>6
         DEF Resolution!Answer, Resolution!Open, Outcomes
  <2> QED
    BY <1>9, <2>1, <2>2 DEF LogAndReturn
<1>10. CASE Tick \/ UNCHANGED vars
  BY <1>10 DEF Tick, vars, Outcomes, Outcome
<1> QED
  BY <1>1, <1>2, <1>3, <1>4, <1>5, <1>6, <1>7, <1>8, <1>9, <1>10
     DEF Next, LocalStep

\* Every query settles at most once and for good, and an answer carries its own
\* identifier and what upstream gave for its own question: the service instance
\* implements DnsResolution although its threads share caches and messages.
THEOREM ResolutionSound == Spec => ResolutionIsSound
<1>1. Init => Resolution!Init
  BY DEF Init, Resolution!Init, Outcome
<1> QED
  BY <1>1, ResolutionStep, ServiceInvariant, PTL
     DEF Spec, ResolutionIsSound, Resolution!Spec
-----------------------------------------------------------------------------
(* The stat log agrees with the clients.                                   *)

\* A response object is written once: the step that makes it finds none.
LEMMA ObjectsStay ==
  ASSUME ServiceInv, [Next]_vars, NEW g \in Queries, obj[g] # None
  PROVE  obj'[g] = obj[g]
<1>1. ASSUME NEW q \in Queries, Hit(q) \/ Resolve(q) PROVE obj'[g] = obj[g]
  <2>1. obj[q] = None /\ \E m : obj' = [obj EXCEPT ![q] = m]
    BY <1>1 DEF Hit, Resolve, ServiceInv, ThreadsOK, LookingUp
  <2> QED
    BY <2>1 DEF ServiceInv, TypeOK
<1>2. ASSUME NEW q \in Queries,
             Arrive(q) \/ CacheName(q) \/ FindCache(q) \/ MakeCache(q) \/ RegisterCache(q)
               \/ Miss(q) \/ ResolveFails(q) \/ Put(q) \/ LogAndReturn(q)
      PROVE  obj' = obj
  BY <1>2 DEF Arrive, CacheName, FindCache, MakeCache, RegisterCache, Miss, ResolveFails,
     Put, LogAndReturn
<1> QED
  BY <1>1, <1>2 DEF Next, LocalStep, Tick, vars

LEMMA LoggedStep ==
  ServiceInv /\ AnsweredIsLogged /\ [Next]_vars => AnsweredIsLogged'
<1> SUFFICES ASSUME ServiceInv, AnsweredIsLogged, [Next]_vars, config'.log,
                    NEW p \in Queries, pc'[p] = "answered"
             PROVE  [query |-> p, sent |-> obj'[resp'[p]]] \in logged'
  BY DEF AnsweredIsLogged
<1>1. ASSUME pc[p] = "answered", resp' = resp, config' = config, logged \subseteq logged'
      PROVE  [query |-> p, sent |-> obj'[resp'[p]]] \in logged'
  <2>1. obj'[p] = obj[p] /\ resp[p] = p
    BY <1>1, ObjectsStay DEF ServiceInv, ThreadsOK, Returning
  <2> QED
    BY <1>1, <2>1 DEF AnsweredIsLogged
<1>2. ASSUME NEW q \in Queries, LogAndReturn(q), p = q
      PROVE  [query |-> p, sent |-> obj'[resp'[p]]] \in logged'
  <2>1. config.log /\ Goto(q, "answered")
          => logged' = logged \cup {[query |-> q, sent |-> obj[resp[q]]]}
    BY <1>2 DEF LogAndReturn, Goto, ServiceInv, TypeOK
  <2>2. config' = config /\ Goto(q, "answered") /\ obj' = obj /\ resp' = resp
    BY <1>2 DEF LogAndReturn, Goto, ServiceInv, TypeOK
  <2> QED
    BY <1>2, <2>1, <2>2
<1>3. ASSUME NEW q \in Queries, LogAndReturn(q), p # q
      PROVE  [query |-> p, sent |-> obj'[resp'[p]]] \in logged'
  <2>1. pc[p] = "answered" /\ logged \subseteq logged'
    BY <1>3 DEF LogAndReturn, Goto, ServiceInv, TypeOK
  <2> QED
    BY <1>1, <1>3, <2>1 DEF LogAndReturn
<1>4. ASSUME NEW q \in Queries, Hit(q) \/ Resolve(q)
      PROVE  [query |-> p, sent |-> obj'[resp'[p]]] \in logged'
  <2>1. /\ resp' = [resp EXCEPT ![q] = q] /\ config' = config /\ logged' = logged
        /\ p # q /\ pc[p] = "answered"
    BY <1>4 DEF Hit, Resolve, Goto, ServiceInv, TypeOK
  <2>2. resp'[p] = resp[p]
    BY <2>1 DEF ServiceInv, TypeOK
  <2>3. obj'[p] = obj[p] /\ resp[p] = p
    BY <2>1, ObjectsStay DEF ServiceInv, ThreadsOK, Returning
  <2> QED
    BY <2>1, <2>2, <2>3 DEF AnsweredIsLogged
<1>5. ASSUME NEW q \in Queries,
             Arrive(q) \/ CacheName(q) \/ FindCache(q) \/ MakeCache(q) \/ RegisterCache(q)
               \/ Miss(q) \/ ResolveFails(q) \/ Put(q)
      PROVE  [query |-> p, sent |-> obj'[resp'[p]]] \in logged'
  <2>1. resp' = resp /\ config' = config /\ logged' = logged
    BY <1>5 DEF Arrive, CacheName, FindCache, MakeCache, RegisterCache, Miss, ResolveFails, Put
  <2>2. \E to \in Pcs \ {"answered"} : Goto(q, to)
    BY <1>5 DEF Arrive, CacheName, FindCache, MakeCache, RegisterCache, Miss, ResolveFails, Put,
       ThrowServfail, Pcs, Settled
  <2>3. pc[p] = "answered"
    BY <2>2 DEF Goto, ServiceInv, TypeOK
  <2> QED
    BY <1>1, <2>1, <2>3
<1>6. CASE Tick \/ UNCHANGED vars
  BY <1>1, <1>6 DEF Tick, vars
<1> QED
  BY <1>2, <1>3, <1>4, <1>5, <1>6 DEF Next, LocalStep

\* With the stat log active, a client never has an answer that differs from what
\* was logged for it, whatever other threads do with the messages in the cache.
THEOREM AnswersAreLogged == Spec => []AnsweredIsLogged
<1>1. Init => AnsweredIsLogged
  BY DEF Init, AnsweredIsLogged
<1>2. ServiceInv /\ ServiceInv' /\ AnsweredIsLogged /\ [Next]_vars => AnsweredIsLogged'
  BY LoggedStep
<1> QED
  BY <1>1, <1>2, ServiceInvariant, PTL DEF Spec

-----------------------------------------------------------------------------
(* A repeated question is a hit.  A cache is made at most once by a query  *)
(* at each of its two uses, and while only one has been made every thread  *)
(* that works on a cache works on the one the map holds; entries stay.     *)

CacheSteps == {"name", "find", "make", "register", "use"}

\* The thread of q may still make a cache at use s.
NotYet(q, s) ==
  /\ s = "get" => stage[q] = "get"
  /\ stage[q] = s => pc[q] \in {"idle", "name", "find", "make", "register"}

OneCache == \A c, d \in made : c = d

\* The map holds a cache in which there is an entry for what g was asked.
Filed(g) == /\ g \in Queries /\ obj[g] # None /\ repo # None
            /\ store[repo][obj[g].key] # None

EntriesEndure ==
  \A c \in Caches, k \in Keys : store[c][k] # None => store[c][k].until > MaxTime

MakersOK ==
  \A q \in Queries :
    /\ ~config.cache => pc[q] \notin CacheSteps
    /\ pc[q] = "use" => held[q] \in made
    /\ \A s \in {"get", "put"} : NotYet(q, s) => <<q, s>> \notin made

SeenOK ==
  OneCache => \A q \in Queries : \A g \in seen[q] :
    Filed(g) /\ (pc[q] = "resolve" => obj[g].key # key[q])

HitInv ==
  /\ ServiceInv
  /\ IsFiniteSet(made)
  /\ repo # None => config.cache /\ repo \in made
  /\ EntriesEndure /\ MakersOK /\ SeenOK

LEMMA HitInit == Init => HitInv
<1> SUFFICES ASSUME Init PROVE HitInv
  OBVIOUS
<1>1. IsFiniteSet(made)
  <2>1. IsFiniteSet({}) /\ IsFiniteSet({EarlierCache})
    BY FS_EmptySet, FS_Singleton
  <2> QED
    BY <2>1 DEF Init
<1>2. MakersOK
  BY DEF Init, MakersOK, CacheSteps, EarlierCache
<1> QED
  BY <1>1, <1>2, ServiceInit DEF Init, HitInv, EntriesEndure, SeenOK

\* Steps of the thread of q in which no cache is made.
LEMMA OldCaches ==
  ASSUME HitInv, ServiceInv', NEW q \in Queries,
         UNCHANGED <<config, repo, made>>,
         \A g \in Queries : obj[g] # None => obj'[g] = obj[g],
         \A c \in Caches, k \in Keys : store[c][k] # None => store'[c][k] # None,
         EntriesEndure',
         \A p \in Queries : p # q => UNCHANGED <<pc[p], stage[p], held[p], key[p], seen[p]>>,
         pc'[q] \in CacheSteps => config.cache,
         pc'[q] = "use" => held'[q] \in made,
         \A s \in {"get", "put"} : NotYet(q, s)' => NotYet(q, s),
         OneCache => \A g \in seen'[q] :
           Filed(g) /\ (pc'[q] = "resolve" => obj[g].key # key'[q])
  PROVE  HitInv'
<1>1. MakersOK'
  <2> SUFFICES ASSUME NEW p \in Queries
               PROVE  /\ ~config'.cache => pc'[p] \notin CacheSteps
                      /\ pc'[p] = "use" => held'[p] \in made'
                      /\ \A s \in {"get", "put"} : NotYet(p, s)' => <<p, s>> \notin made'
    BY DEF MakersOK
  <2>1. CASE p = q
    BY <2>1 DEF HitInv, MakersOK
  <2>2. CASE p # q
    BY <2>2 DEF HitInv, MakersOK, NotYet
  <2> QED
    BY <2>1, <2>2
<1>2. ASSUME NEW g, Filed(g) PROVE Filed(g)' /\ obj'[g] = obj[g]
  <2>1. repo \in Caches /\ obj[g].key \in Keys
    BY <1>2 DEF Filed, HitInv, ServiceInv, TypeOK, Messages
  <2> QED
    BY <1>2, <2>1 DEF Filed
<1>3. SeenOK'
  <2> SUFFICES ASSUME OneCache', NEW p \in Queries, NEW g \in seen'[p]
               PROVE  Filed(g)' /\ (pc'[p] = "resolve" => obj'[g].key # key'[p])
    BY DEF SeenOK
  <2>1. Filed(g) /\ (pc'[p] = "resolve" => obj[g].key # key'[p])
    BY DEF HitInv, SeenOK, OneCache
  <2> QED
    BY <1>2, <2>1
<1> QED
  BY <1>1, <1>3 DEF HitInv

\* The step in which one is.
LEMMA NewCache ==
  ASSUME HitInv, ServiceInv', NEW q \in Queries, RegisterCache(q)
  PROVE  HitInv'
<1> DEFINE c == <<q, stage[q]>>
<1>1. /\ pc[q] = "register" /\ pc'[q] = "use" /\ c \notin made
      /\ \A p \in Queries : p # q => pc'[p] = pc[p] /\ held'[p] = held[p]
      /\ held'[q] = c /\ made' = made \cup {c} /\ repo' \in {c, repo}
      /\ UNCHANGED <<config, stage, store, seen, obj, key>>
  <2>1. pc[q] = "register" /\ c \notin made
    BY DEF RegisterCache, HitInv, MakersOK, NotYet, ServiceInv, TypeOK
  <2>2. c \in Caches
    BY DEF Caches, HitInv, ServiceInv, TypeOK
  <2>3. /\ held' = [held EXCEPT ![q] = c] /\ made' = made \cup {c}
        /\ repo' \in {c, repo} /\ pc' = [pc EXCEPT ![q] = "use"]
        /\ UNCHANGED <<config, stage, store, seen, obj, key>>
    BY DEF RegisterCache, Goto
  <2> HIDE DEF c
  <2> QED
    BY <2>1, <2>2, <2>3 DEF HitInv, ServiceInv, TypeOK
<1>2. IsFiniteSet(made')
  BY <1>1, FS_AddElement DEF HitInv
<1>3. config.cache
  BY <1>1 DEF HitInv, MakersOK, CacheSteps
<1>4. repo' # None => config'.cache /\ repo' \in made'
  BY <1>1, <1>3 DEF HitInv
<1>5. MakersOK'
  <2> SUFFICES ASSUME NEW p \in Queries
               PROVE  /\ ~config'.cache => pc'[p] \notin CacheSteps
                      /\ pc'[p] = "use" => held'[p] \in made'
                      /\ \A s \in {"get", "put"} : NotYet(p, s)' => <<p, s>> \notin made'
    BY DEF MakersOK
  <2>1. pc'[p] = "use" => held'[p] \in made'
    BY <1>1 DEF HitInv, MakersOK
  <2>2. ASSUME NEW s \in {"get", "put"}, NotYet(p, s)' PROVE <<p, s>> \notin made'
    <3>1. CASE p = q
      <4>1. NotYet(p, s) /\ s # stage[q]
        BY <1>1, <2>2, <3>1 DEF NotYet
      <4> QED
        BY <1>1, <4>1 DEF HitInv, MakersOK
    <3>2. CASE p # q
      <4>1. NotYet(p, s)
        BY <1>1, <2>2, <3>2 DEF NotYet
      <4> QED
        BY <1>1, <3>2, <4>1 DEF HitInv, MakersOK
    <3> QED
      BY <3>1, <3>2
  <2> QED
    BY <1>1, <1>3, <2>1, <2>2
<1>6. SeenOK'
  <2> SUFFICES ASSUME OneCache', NEW p \in Queries, NEW g \in seen'[p]
               PROVE  FALSE
    BY DEF SeenOK
  <2>1. made = {}
    BY <1>1 DEF OneCache
  <2>2. repo = None
    BY <2>1 DEF HitInv
  <2>3. OneCache /\ g \in seen[p]
    BY <1>1, <2>1 DEF OneCache
  <2> QED
    BY <2>2, <2>3 DEF HitInv, SeenOK, Filed
<1>7. EntriesEndure'
  BY <1>1 DEF HitInv, EntriesEndure
<1> QED
  BY <1>2, <1>4, <1>5, <1>6, <1>7 DEF HitInv

LEMMA HitStep == HitInv /\ [Next]_vars => HitInv'
<1> SUFFICES ASSUME HitInv, [Next]_vars PROVE HitInv'
  OBVIOUS
<1>t. ServiceInv /\ TypeOK /\ ServiceInv'
  BY ServiceNext DEF HitInv, ServiceInv
<1>g. ASSUME NEW q \in Queries, NEW to, Goto(q, to)
      PROVE  pc'[q] = to /\ \A p \in Queries : p # q => pc'[p] = pc[p]
  BY <1>t, <1>g DEF TypeOK, Goto
<1>o. \A g \in Queries : obj[g] # None => obj'[g] = obj[g]
  BY <1>t, ObjectsStay
\* What was seen goes on being filed; a query under way keeps its question.
<1>k. ASSUME NEW q \in Queries, seen'[q] = seen[q], pc'[q] # "resolve"
      PROVE  OneCache => \A g \in seen'[q] :
               Filed(g) /\ (pc'[q] = "resolve" => obj[g].key # key'[q])
  BY <1>k DEF HitInv, SeenOK
<1>e. store' = store => EntriesEndure'
  BY DEF HitInv, EntriesEndure
<1>c. \A q \in Queries : pc[q] \in CacheSteps => config.cache
  BY DEF HitInv, MakersOK
<1>1. CASE Tick \/ UNCHANGED vars
  <2>1. UNCHANGED <<config, pc, stage, key, held, obj, repo, made, store, seen>>
    BY <1>1 DEF Tick, vars
  <2> QED
    BY <1>t, <2>1 DEF HitInv, EntriesEndure, MakersOK, NotYet, SeenOK, OneCache, Filed
<1>2. ASSUME NEW q \in Queries, Arrive(q) PROVE HitInv'
  <2>1. /\ UNCHANGED <<config, stage, held, obj, repo, made, store>>
        /\ pc[q] = "idle" /\ stage[q] = "get"
        /\ Goto(q, IF config.cache THEN "name" ELSE "resolve")
        /\ \E k \in Keys : key' = [key EXCEPT ![q] = k]
    BY <1>2, <1>t DEF Arrive, ServiceInv, ThreadsOK
  <2>2. /\ pc'[q] = IF config.cache THEN "name" ELSE "resolve"
        /\ \A p \in Queries : p # q => pc'[p] = pc[p] /\ key'[p] = key[p]
    BY <1>t, <1>g, <2>1 DEF TypeOK
  <2> DEFINE s == IF repo = None THEN {}
                  ELSE {store[repo][j].obj : j \in {i \in Keys : store[repo][i] # None}}
  <2>3. seen' = [seen EXCEPT ![q] = s]
    BY <1>2 DEF Arrive
  <2>4. ASSUME NEW g \in s PROVE Filed(g) /\ repo # None
    <3>1. PICK k \in Keys : store[repo][k] # None /\ g = store[repo][k].obj /\ repo # None
      BY <2>4
    <3>2. repo \in Caches
      BY <1>t, <3>1 DEF TypeOK
    <3>3. obj[g] # None /\ obj[g].key = k /\ g \in Queries
      BY <1>t, <3>1, <3>2 DEF ServiceInv, EntriesOK, TypeOK, Entries
    <3> QED
      BY <3>1, <3>3 DEF Filed
  <2> HIDE DEF s
  <2>5. seen'[q] = s /\ \A p \in Queries : p # q => seen'[p] = seen[p]
    BY <1>t, <2>3 DEF TypeOK
  <2>6. \A g \in seen'[q] : Filed(g) /\ (pc'[q] = "resolve" => obj[g].key # key'[q])
    BY <2>2, <2>4, <2>5 DEF HitInv
  <2>7. \A u \in {"get", "put"} : NotYet(q, u)' => NotYet(q, u)
    BY <2>1 DEF NotYet
  <2>8. pc'[q] # "use" /\ (pc'[q] \in CacheSteps => config.cache)
    BY <2>2 DEF CacheSteps
  <2> QED
    BY <1>t, <1>o, <1>e, <2>1, <2>2, <2>5, <2>6, <2>7, <2>8, OldCaches
<1>3. ASSUME NEW q \in Queries, CacheName(q) \/ MakeCache(q) \/ ResolveFails(q) \/ LogAndReturn(q)
      PROVE  HitInv'
  <2>1. /\ UNCHANGED <<config, stage, key, held, obj, repo, made, store, seen>>
        /\ \/ pc[q] = "name" /\ Goto(q, "find")
           \/ pc[q] = "make" /\ Goto(q, "register")
           \/ \E to \in {"silent", "rcode", "answered"} : Goto(q, to)
    BY <1>3 DEF CacheName, MakeCache, ResolveFails, LogAndReturn, ThrowServfail
  <2>2. /\ \A p \in Queries : p # q => pc'[p] = pc[p]
        /\ \/ pc[q] = "name" /\ pc'[q] = "find"
           \/ pc[q] = "make" /\ pc'[q] = "register"
           \/ pc'[q] \in {"silent", "rcode", "answered"}
    BY <1>g, <2>1
  <2>3. \A u \in {"get", "put"} : NotYet(q, u)' => NotYet(q, u)
    BY <2>1, <2>2 DEF NotYet
  <2>4. pc'[q] \notin {"use", "resolve"} /\ (pc'[q] \in CacheSteps => config.cache)
    BY <1>c, <2>2 DEF CacheSteps
  <2> QED
    BY <1>t, <1>o, <1>e, <1>k, <2>1, <2>2, <2>3, <2>4, OldCaches
<1>4. ASSUME NEW q \in Queries, FindCache(q) PROVE HitInv'
  <2>1. /\ UNCHANGED <<config, stage, key, obj, repo, made, store, seen>> /\ pc[q] = "find"
        /\ \/ repo # None /\ held' = [held EXCEPT ![q] = repo] /\ Goto(q, "use")
           \/ held' = held /\ Goto(q, "make")
    BY <1>4 DEF FindCache
  <2>2. /\ \A p \in Queries : p # q => pc'[p] = pc[p] /\ held'[p] = held[p]
        /\ \/ repo # None /\ held'[q] = repo /\ pc'[q] = "use"
           \/ pc'[q] = "make"
    BY <1>t, <1>g, <2>1 DEF TypeOK
  <2>3. \A u \in {"get", "put"} : NotYet(q, u)' => NotYet(q, u)
    BY <2>1, <2>2 DEF NotYet
  <2>4. /\ pc'[q] # "resolve" /\ (pc'[q] = "use" => held'[q] \in made)
        /\ (pc'[q] \in CacheSteps => config.cache)
    BY <1>c, <2>1, <2>2 DEF CacheSteps, HitInv
  <2> QED
    BY <1>t, <1>o, <1>e, <1>k, <2>1, <2>2, <2>3, <2>4, OldCaches
<1>5. ASSUME NEW q \in Queries, Hit(q) PROVE HitInv'
  <2>1. /\ UNCHANGED <<config, stage, key, held, repo, made, store, seen>>
        /\ pc[q] = "use" /\ Goto(q, "log")
    BY <1>5 DEF Hit
  <2>2. pc'[q] = "log" /\ \A p \in Queries : p # q => pc'[p] = pc[p]
    BY <1>g, <2>1
  <2>3. \A u \in {"get", "put"} : NotYet(q, u)' => NotYet(q, u)
    BY <2>1, <2>2 DEF NotYet
  <2>4. pc'[q] \notin CacheSteps /\ pc'[q] \notin {"use", "resolve"}
    BY <2>2 DEF CacheSteps
  <2> QED
    BY <1>t, <1>o, <1>e, <1>k, <2>1, <2>2, <2>3, <2>4, OldCaches
<1>6. ASSUME NEW q \in Queries, Miss(q) PROVE HitInv'
  <2>1. /\ UNCHANGED <<config, stage, key, held, obj, repo, made, store, seen>>
        /\ pc[q] = "use" /\ stage[q] = "get" /\ Goto(q, "resolve")
        /\ ~Present(held[q], key[q])
    BY <1>6 DEF Miss
  <2>2. pc'[q] = "resolve" /\ \A p \in Queries : p # q => pc'[p] = pc[p]
    BY <1>g, <2>1
  <2>3. \A u \in {"get", "put"} : NotYet(q, u)' => NotYet(q, u)
    BY <2>1, <2>2 DEF NotYet
  <2>4. held[q] \in made /\ held[q] \in Caches /\ key[q] \in Keys
    BY <1>t, <2>1 DEF HitInv, MakersOK, ServiceInv, ThreadsOK, TypeOK
  <2>5. store[held[q]][key[q]] = None
    <3>1. ASSUME store[held[q]][key[q]] # None PROVE FALSE
      <4>1. store[held[q]][key[q]] \in Entries /\ store[held[q]][key[q]].until > MaxTime
        BY <1>t, <2>4, <3>1 DEF HitInv, EntriesEndure, TypeOK
      <4>2. now \in 0..MaxTime /\ MaxTime \in Nat /\ store[held[q]][key[q]].until \in Int
        BY <1>t, <4>1 DEF TypeOK, Entries, Forever
      <4>3. now < store[held[q]][key[q]].until
        BY <4>1, <4>2
      <4> QED
        BY <2>1, <3>1, <4>3 DEF Present, CacheKey
    <3> QED
      BY <3>1
  <2>6. OneCache => \A g \in seen[q] : Filed(g) /\ obj[g].key # key[q]
    BY <2>4, <2>5 DEF HitInv, SeenOK, Filed, OneCache
  <2>7. pc'[q] \notin CacheSteps /\ pc'[q] # "use"
    BY <2>2 DEF CacheSteps
  <2> QED
    BY <1>t, <1>o, <1>e, <2>1, <2>2, <2>3, <2>6, <2>7, OldCaches
<1>7. ASSUME NEW q \in Queries, Resolve(q) PROVE HitInv'
  <2>1. /\ UNCHANGED <<config, key, held, repo, made, store, seen>>
        /\ pc[q] = "resolve" /\ Goto(q, IF config.cache THEN "name" ELSE "log")
        /\ stage' = [stage EXCEPT ![q] = "put"]
    BY <1>7 DEF Resolve
  <2>2. /\ pc'[q] = IF config.cache THEN "name" ELSE "log"
        /\ \A p \in Queries : p # q => pc'[p] = pc[p] /\ stage'[p] = stage[p]
        /\ stage'[q] = "put" /\ stage[q] = "get"
    BY <1>t, <1>g, <2>1 DEF TypeOK, ServiceInv, ThreadsOK
  <2>3. \A u \in {"get", "put"} : NotYet(q, u)' => NotYet(q, u)
    BY <2>1, <2>2 DEF NotYet
  <2>4. pc'[q] \notin {"use", "resolve"} /\ (pc'[q] \in CacheSteps => config.cache)
    BY <2>2 DEF CacheSteps
  <2> QED
    BY <1>t, <1>o, <1>e, <1>k, <2>1, <2>2, <2>3, <2>4, OldCaches
<1>8. ASSUME NEW q \in Queries, Put(q) PROVE HitInv'
  <2>1. /\ UNCHANGED <<config, stage, key, held, obj, repo, made, seen>>
        /\ pc[q] = "use" /\ stage[q] = "put"
        /\ \E to \in {"rcode", "log"} : Goto(q, to)
        /\ \/ store' = store
           \/ store' = [store EXCEPT ![held[q]][obj[q].key] = NewEntry(q)]
    BY <1>8 DEF Put, ThrowServfail, CacheKey
  <2>2. /\ pc'[q] \in {"rcode", "log"} /\ \A p \in Queries : p # q => pc'[p] = pc[p]
    BY <1>g, <2>1
  <2>3. \A u \in {"get", "put"} : NotYet(q, u)' => NotYet(q, u)
    BY <2>1, <2>2 DEF NotYet
  <2>4. pc'[q] \notin CacheSteps /\ pc'[q] \notin {"use", "resolve"}
    BY <2>2 DEF CacheSteps
  <2>5. NewEntry(q) # None /\ NewEntry(q).until > MaxTime
    <3>1. MaxTime \in Nat /\ now \in 0..MaxTime
      BY <1>t DEF TypeOK
    <3>2. NewEntry(q).until = now + (MaxTime + 1) /\ NewEntry(q).obj = q
      BY DEF NewEntry, LeftTTL, HasUnlimitedTTL, Forever
    <3>3. NewEntry(q) # None
      BY <3>1, NewEntryIsEntry, NoneAssumption
    <3> QED
      BY <3>1, <3>2, <3>3
  <2>6. \A c \in Caches, k \in Keys :
          store'[c][k] = store[c][k] \/ store'[c][k] = NewEntry(q)
    BY <1>t, <2>1 DEF TypeOK
  <2>7. EntriesEndure'
    BY <2>5, <2>6 DEF HitInv, EntriesEndure
  <2>8. \A c \in Caches, k \in Keys : store[c][k] # None => store'[c][k] # None
    BY <2>5, <2>6
  <2> QED
    BY <1>t, <1>o, <1>k, <2>1, <2>2, <2>3, <2>4, <2>7, <2>8, OldCaches
<1> QED
  BY <1>1, <1>2, <1>3, <1>4, <1>5, <1>6, <1>7, <1>8, <1>t, NewCache DEF Next, LocalStep

\* Unless two threads raced to make the cache, no query goes upstream for what
\* was in the cache when it arrived, for any number of queries and keys.  The
\* proof does not use the age of the answer: entries never expire.
THEOREM RepeatsAreHits == Spec => []RepeatIsHit
<1>1. HitInv => RepeatIsHit
  <2> SUFFICES ASSUME HitInv, Cardinality(made) <= 1, NEW q \in Queries, pc[q] = "resolve",
                      NEW g \in seen[q]
               PROVE  obj[g].key # key[q]
    BY DEF RepeatIsHit
  <2>1. OneCache
    <3>1. IsFiniteSet(made) /\ Cardinality(made) \in Nat
      BY FS_CardinalityType DEF HitInv
    <3>2. Cardinality(made) = 0 \/ Cardinality(made) = 1
      BY <3>1
    <3> QED
      BY <3>1, <3>2, FS_EmptySet, FS_Singleton DEF OneCache
  <2> QED
    BY <2>1 DEF HitInv, SeenOK
<1> QED
  BY <1>1, HitInit, HitStep, PTL DEF Spec
=============================================================================
