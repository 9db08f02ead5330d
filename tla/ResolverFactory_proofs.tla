----------------------- MODULE ResolverFactory_proofs -----------------------
(***************************************************************************)
(* Theorems about the factory of resolver instances, for any number of     *)
(* queries, of calls within calls and of requests that administer the      *)
(* resolvers meanwhile.                                                    *)
(***************************************************************************)
EXTENDS ResolverFactory, ResolverStore_proofs

USE NoneAssumption

\* The stages an activation passes before it has made anything.
Before == {"idle", "find", "identify", "load", "look", "make"}

\* What was registered when activation a began, with nobody making another,
\* still is.
Settled(a) ==
  stage[a] # "idle" =>
    \A n \in Names : settled[a][n] # None =>
      /\ onMemoryInstanceCacheTable[n] = settled[a][n]
      /\ \A b \in Activations : ~Making(b, n)

\* An instance with its parameters and, for a gateway, its sub-resolver.
Whole(i) ==
  /\ RequiredKeys \subseteq ParametersOf(properties[i])
  /\ IsGateway(i) => /\ GatewayKeys \subseteq ParametersOf(properties[i])
                     /\ stage[Inner(i)] = "given"

\* An instance is whole from the moment it may be registered.  It is named after
\* its activation, which asks for a sub-resolver once and makes nothing anew.
Complete ==
  /\ \A a \in Activations : stage[a] \in Before => ~IsGateway(a)
  /\ \A a \in Activations : stage[a] = "construct" =>
       RequiredKeys \cup GatewayKeys \subseteq ParametersOf(properties[a])
  /\ \A a \in Activations : stage[a] = "register" => Whole(a)
  /\ \A n \in Names : onMemoryInstanceCacheTable[n] # None =>
       /\ stage[onMemoryInstanceCacheTable[n]] = "given"
       /\ Whole(onMemoryInstanceCacheTable[n])
  /\ \A a \in Activations : stage[a] = "given" =>
       /\ instance[a] # None
       /\ stage[instance[a]] = "given"
       /\ Whole(instance[a])

FactoryInv ==
  /\ KnownInv
  /\ FactoryTypeOK
  /\ \A a \in Activations : Settled(a)
  /\ SettledInstanceIsShared
  /\ Complete

\* A call within a call is an activation of its own, that of no other call.
LEMMA ActivationFacts ==
  /\ \A c \in Callers : Outermost(c) \in Activations
  /\ \A a \in Activations : a[1] \in Callers
  /\ \A a \in Activations : a[2] < MaxDepth => Inner(a) \in Activations
  /\ \A a, b \in Activations : Inner(a) = Inner(b) => a = b
  /\ \A a \in Activations : Inner(a) # a
  /\ \A a \in Activations, c \in Callers : Inner(a) # Outermost(c)
<1> USE DepthAssumption DEF Activations, Outermost, Inner
<1>1. \A a \in Activations : a = <<a[1], a[2]>> /\ a[1] \in Callers /\ a[2] \in 1..MaxDepth
  OBVIOUS
<1>2. \A a \in Activations : a[2] < MaxDepth => a[2] + 1 \in 1..MaxDepth
  BY <1>1
<1>3. \A a, b \in Activations : a[1] = b[1] /\ a[2] + 1 = b[2] + 1 => a = b
  BY <1>1
<1>4. \A a \in Activations : a[2] + 1 # a[2] /\ a[2] + 1 # 1
  BY <1>1
<1>5. 1 \in 1..MaxDepth
  OBVIOUS
<1>6. \A a, b \in Activations : Inner(a) = Inner(b) => a = b
  BY <1>3
<1>7. \A a \in Activations : Inner(a) # a
  BY <1>1, <1>4
<1>8. \A a \in Activations, c \in Callers : Inner(a) # Outermost(c)
  BY <1>4
<1> QED
  BY <1>1, <1>2, <1>5, <1>6, <1>7, <1>8

LEMMA FactoryInitial == FactoryInit => FactoryInv
<1> SUFFICES ASSUME FactoryInit PROVE FactoryInv
  OBVIOUS
<1>1. KnownInv
  BY KnownInit DEF FactoryInit
<1>2. FactoryTypeOK
  BY DEF FactoryInit, FactoryTypeOK, Stages, NoID
<1>3. (\A a \in Activations : Settled(a)) /\ SettledInstanceIsShared
  BY DEF FactoryInit, Settled, SettledInstanceIsShared
<1>4. Complete
  BY ActivationFacts DEF FactoryInit, Complete, IsGateway
<1> QED
  BY <1>1, <1>2, <1>3, <1>4 DEF FactoryInv

\* The rows an activation loads are rows.
LEMMA LoadedType ==
  ASSUME KnownInv, FactoryTypeOK, NEW a \in Activations
  PROVE  /\ DOMAIN Loaded(a) \in SUBSET Nat /\ Loaded(a) \in [DOMAIN Loaded(a) -> Row]
         /\ Content(Loaded(a)) \in SUBSET (Keys \X Values)
<1>1. /\ DOMAIN rows \in SUBSET (Nat \ {0}) /\ rows \in [DOMAIN rows -> Row]
      /\ session[a[1]] \in [DOMAIN session[a[1]] -> Row]
  BY ActivationFacts DEF KnownInv, TypeOK, FactoryTypeOK
<1>2. /\ DOMAIN Loaded(a) = DOMAIN rows
      /\ Loaded(a) = [i \in DOMAIN Loaded(a) |-> Loaded(a)[i]]
  BY DEF Loaded
<1>3. \A i \in DOMAIN rows : Loaded(a)[i] \in Row
  BY <1>1 DEF Loaded
<1>4. Content(Loaded(a)) \in SUBSET (Keys \X Values)
  BY <1>2, <1>3 DEF Content, Row
<1> QED
  BY <1>1, <1>2, <1>3, <1>4

\* What an instance is made of are parameters.
LEMMA ModelsType ==
  ASSUME KnownInv, FactoryTypeOK, NEW a \in Activations
  PROVE  Models(a) \subseteq SUBSET (Keys \X Values)
BY LoadedType, TemporaryAssumption DEF Models

\* After a load the sessions hold rows.
LEMMA SessionType ==
  ASSUME KnownInv, FactoryTypeOK, NEW a \in Activations,
         ReadRows(a) \/ UNCHANGED session
  PROVE  /\ DOMAIN session' = Callers
         /\ \A c \in Callers : /\ DOMAIN session'[c] \in SUBSET Nat
                               /\ session'[c] \in [DOMAIN session'[c] -> Row]
<1> DEFINE t == Loaded(a)
<1>1. DOMAIN t \in SUBSET Nat /\ t \in [DOMAIN t -> Row]
  BY LoadedType
<1>2. \/ session' = [session EXCEPT ![a[1]] = t]
      \/ session' = session
  BY DEF ReadRows
<1> HIDE DEF t
<1> QED
  BY <1>1, <1>2 DEF FactoryTypeOK

LEMMA TypeNext == KnownInv /\ FactoryTypeOK /\ CallerStep => FactoryTypeOK'
<1> SUFFICES ASSUME KnownInv, FactoryTypeOK, CallerStep PROVE FactoryTypeOK'
  OBVIOUS
<1> USE ActivationFacts DEF FactoryTypeOK, Enter, Refuse, Stages
<1>s. \A a \in Activations : ReadRows(a) \/ UNCHANGED session =>
        /\ DOMAIN session' = Callers
        /\ \A c \in Callers : /\ DOMAIN session'[c] \in SUBSET Nat
                              /\ session'[c] \in [DOMAIN session'[c] -> Row]
  BY SessionType
<1>n. SettledNow \in [Names -> Activations \cup {None}]
  BY DEF SettledNow
<1>1. ASSUME NEW c \in Callers, NEW id \in 1..(nextResolver - 1), Call(c, id)
      PROVE  FactoryTypeOK'
  <2>1. id \in Nat
    BY DEF KnownInv, TypeOK
  <2> QED
    BY <1>1, <1>n, <2>1 DEF Call
<1>2. ASSUME NEW c \in Callers, CallTemporary(c) PROVE FactoryTypeOK'
  BY <1>2, <1>n, TemporaryAssumption DEF CallTemporary
<1>3. ASSUME NEW a \in Activations, LookUpByName(a) \/ LookUp(a) PROVE FactoryTypeOK'
  BY <1>3 DEF LookUpByName, LookUp, LookUpOr, getDNSResolverInstanceCacheRecord
<1>4. ASSUME NEW a \in Activations, Identify(a) PROVE FactoryTypeOK'
  <2>1. resolver[name[a]] \in Nat
    BY <1>4 DEF Identify, KnownInv, TypeOK
  <2> QED
    BY <1>4, <1>s, <2>1 DEF Identify
<1>5. ASSUME NEW a \in Activations, LoadModel(a) PROVE FactoryTypeOK'
  <2>1. CASE Refuse(a) /\ UNCHANGED <<name, session>>
    BY <1>5, <2>1 DEF LoadModel
  <2>2. ASSUME NEW n \in Names, name' = [name EXCEPT ![a] = n], ReadRows(a), Enter(a, "look")
        PROVE  FactoryTypeOK'
    BY <1>5, <1>s, <2>2 DEF LoadModel
  <2> QED
    BY <1>5, <2>1, <2>2 DEF LoadModel
<1>6. ASSUME NEW a \in Activations, createDNSResolverInstance(a) PROVE FactoryTypeOK'
  <2>1. ReadRows(a) \/ UNCHANGED session
    BY <1>6 DEF createDNSResolverInstance
  <2>2. /\ stage[a] = "make"
        /\ UNCHANGED <<onMemoryInstanceCacheTable, wantedID, instance>>
    BY <1>6 DEF createDNSResolverInstance
  <2>3. Constructible(a, RequiredKeys) \cup Constructible(a, RequiredKeys \cup GatewayKeys)
          \subseteq SUBSET (Keys \X Values)
    BY ModelsType DEF Constructible
  <2>4. CASE Refuse(a) /\ UNCHANGED <<name, properties, settled>>
    BY <1>s, <2>1, <2>2, <2>4
  <2>5. ASSUME NEW content \in Constructible(a, RequiredKeys),
               properties' = [properties EXCEPT ![a] = content],
               Enter(a, "register"), UNCHANGED <<name, settled>>
        PROVE  FactoryTypeOK'
    BY <1>s, <2>1, <2>2, <2>3, <2>5
  <2>6. ASSUME a[2] < MaxDepth, NEW n \in Names,
               NEW content \in Constructible(a, RequiredKeys \cup GatewayKeys),
               properties' = [properties EXCEPT ![a] = content],
               name' = [name EXCEPT ![Inner(a)] = n],
               settled' = [settled EXCEPT ![Inner(a)] = SettledNow],
               stage' = [stage EXCEPT ![a] = "construct", ![Inner(a)] = "find"]
        PROVE  FactoryTypeOK'
    BY <1>s, <1>n, <2>1, <2>2, <2>3, <2>6
  <2> QED
    BY <1>6, <2>4, <2>5, <2>6 DEF createDNSResolverInstance
<1>7. ASSUME NEW a \in Activations, setSubResolverInstance(a) PROVE FactoryTypeOK'
  BY <1>7 DEF setSubResolverInstance
<1>8. ASSUME NEW a \in Activations, registDNSResolverInstanceCacheRecord(a)
      PROVE  FactoryTypeOK'
  BY <1>8 DEF registDNSResolverInstanceCacheRecord
<1> QED
  BY <1>1, <1>2, <1>3, <1>4, <1>5, <1>6, <1>7, <1>8 DEF CallerStep, Answer

\* An instance that is settled stays registered: only an activation that makes
\* one registers it, and all others find the settled one.
LEMMA SettledNext ==
  ASSUME FactoryTypeOK, \A a \in Activations : Settled(a), SettledInstanceIsShared,
         CallerStep
  PROVE  (\A a \in Activations : Settled(a)') /\ SettledInstanceIsShared'
<1> DEFINE Goal == (\A a \in Activations : Settled(a)') /\ SettledInstanceIsShared'
<1> SUFFICES Goal
  OBVIOUS
<1> USE ActivationFacts DEF FactoryTypeOK, Enter, Refuse
\* What has begun, settled on what is so now, goes on unless a name is made anew.
<1>k. ASSUME NEW a \in Activations,
             UNCHANGED onMemoryInstanceCacheTable,
             \A b \in Activations, n \in Names : Making(b, n)' =>
               Making(b, n) \/ onMemoryInstanceCacheTable[n] = None,
             \/ stage[a] # "idle" /\ settled'[a] = settled[a]
             \/ settled'[a] = SettledNow
             \/ stage'[a] = "idle"
      PROVE  Settled(a)'
  <2>1. CASE stage[a] # "idle" /\ settled'[a] = settled[a]
    BY <1>k, <2>1 DEF Settled
  <2>2. CASE settled'[a] = SettledNow
    BY <1>k, <2>2 DEF Settled, SettledNow
  <2>3. CASE stage'[a] = "idle"
    BY <2>3 DEF Settled
  <2> QED
    BY <1>k, <2>1, <2>2, <2>3
<1>1. ASSUME NEW c \in Callers, NEW id, Call(c, id) PROVE Goal
  <2> DEFINE a == Outermost(c)
  <2>1. /\ UNCHANGED <<onMemoryInstanceCacheTable, name, instance>>
        /\ a \in Activations /\ stage[a] = "idle" /\ stage'[a] = "load"
        /\ settled'[a] = SettledNow
        /\ \A b \in Activations \ {a} : stage'[b] = stage[b] /\ settled'[b] = settled[b]
    BY <1>1 DEF Call
  <2> HIDE DEF a
  <2>2. \A b \in Activations, n \in Names : Making(b, n)' => Making(b, n)
    BY <2>1 DEF Making
  <2>3. \A b \in Activations : Settled(b)'
    BY <1>k, <2>1, <2>2
  <2>4. SettledInstanceIsShared'
    BY <2>1 DEF SettledInstanceIsShared
  <2> QED
    BY <2>3, <2>4
<1>2. ASSUME NEW c \in Callers, CallTemporary(c) PROVE Goal
  <2> DEFINE a == Outermost(c)
  <2>1. /\ UNCHANGED <<onMemoryInstanceCacheTable, instance>>
        /\ a \in Activations /\ stage'[a] = "look"
        /\ settled'[a] = SettledNow
        /\ \A b \in Activations \ {a} : /\ stage'[b] = stage[b] /\ settled'[b] = settled[b]
                                       /\ name'[b] = name[b]
    BY <1>2 DEF CallTemporary
  <2> HIDE DEF a
  <2>2. \A b \in Activations, n \in Names : Making(b, n)' => Making(b, n)
    BY <2>1 DEF Making
  <2>3. \A b \in Activations : Settled(b)'
    BY <1>k, <2>1, <2>2
  <2>4. SettledInstanceIsShared'
    BY <2>1 DEF SettledInstanceIsShared
  <2> QED
    BY <2>3, <2>4
<1>3. ASSUME NEW a \in Activations, Identify(a) \/ LoadModel(a) PROVE Goal
  <2>1. /\ UNCHANGED <<onMemoryInstanceCacheTable, instance, settled>>
        /\ stage[a] \in {"identify", "load"} /\ stage'[a] \in {"load", "look", "refused"}
        /\ \A b \in Activations \ {a} : stage'[b] = stage[b] /\ name'[b] = name[b]
    BY <1>3 DEF Identify, LoadModel
  <2>2. \A b \in Activations, n \in Names : Making(b, n)' => Making(b, n)
    BY <2>1 DEF Making
  <2>3. \A b \in Activations : Settled(b)'
    BY <1>k, <2>1, <2>2
  <2>4. SettledInstanceIsShared'
    BY <2>1 DEF SettledInstanceIsShared
  <2> QED
    BY <2>3, <2>4
<1>4. ASSUME NEW a \in Activations, LookUpByName(a) \/ LookUp(a) PROVE Goal
  <2> DEFINE found == onMemoryInstanceCacheTable[name[a]]
  <2>1. /\ UNCHANGED <<onMemoryInstanceCacheTable, name, settled>>
        /\ stage[a] \in {"find", "look"} /\ name[a] \in Names
        /\ \A b \in Activations \ {a} : stage'[b] = stage[b] /\ instance'[b] = instance[b]
        /\ IF found # None THEN stage'[a] = "given" /\ instance'[a] = found
                           ELSE stage'[a] \in {"make", "identify"}
    BY <1>4 DEF LookUpByName, LookUp, LookUpOr, getDNSResolverInstanceCacheRecord
  <2>2. \A b \in Activations, n \in Names : Making(b, n)' =>
          Making(b, n) \/ onMemoryInstanceCacheTable[n] = None
    BY <2>1 DEF Making
  <2>3. \A b \in Activations : Settled(b)'
    BY <1>k, <2>1, <2>2
  <2>4. ASSUME NEW b \in Activations, stage'[b] = "given", settled'[b][name'[b]] # None
        PROVE  instance'[b] = settled'[b][name'[b]]
    <3>1. CASE b = a
      BY <2>1, <2>4, <3>1 DEF Settled
    <3>2. CASE b # a
      BY <2>1, <2>4, <3>2 DEF SettledInstanceIsShared
    <3> QED
      BY <3>1, <3>2
  <2> QED
    BY <2>3, <2>4 DEF SettledInstanceIsShared
<1>5. ASSUME NEW a \in Activations,
             stage[a] = "make",
             UNCHANGED <<onMemoryInstanceCacheTable, name, instance, settled>>,
             Refuse(a) \/ Enter(a, "register")
      PROVE  Goal
  <2>1. \A b \in Activations, n \in Names : Making(b, n)' => Making(b, n)
    BY <1>5 DEF Making
  <2>2. \A b \in Activations : Settled(b)'
    BY <1>k, <1>5, <2>1
  <2>3. SettledInstanceIsShared'
    BY <1>5 DEF SettledInstanceIsShared
  <2> QED
    BY <2>2, <2>3
\* The call within the call begins while its outer one is making its own name.
<1>6. ASSUME NEW a \in Activations, NEW n \in Names,
             stage[a] = "make", a[2] < MaxDepth,
             UNCHANGED <<onMemoryInstanceCacheTable, instance>>,
             name' = [name EXCEPT ![Inner(a)] = n],
             settled' = [settled EXCEPT ![Inner(a)] = SettledNow],
             stage' = [stage EXCEPT ![a] = "construct", ![Inner(a)] = "find"]
      PROVE  Goal
  <2> DEFINE i == Inner(a)
  <2>1. /\ i \in Activations /\ i # a
        /\ stage'[i] = "find" /\ settled'[i] = SettledNow
        /\ stage'[a] = "construct" /\ settled'[a] = settled[a] /\ name'[a] = name[a]
        /\ \A b \in Activations \ {a, i} :
             stage'[b] = stage[b] /\ settled'[b] = settled[b] /\ name'[b] = name[b]
    BY <1>6
  <2> HIDE DEF i
  <2>2. \A b \in Activations, m \in Names : Making(b, m)' => Making(b, m)
    BY <1>6, <2>1 DEF Making
  <2>3. \A b \in Activations : Settled(b)'
    BY <1>k, <1>6, <2>1, <2>2
  <2>4. SettledInstanceIsShared'
    BY <1>6, <2>1 DEF SettledInstanceIsShared
  <2> QED
    BY <2>3, <2>4
<1>7. ASSUME NEW a \in Activations, createDNSResolverInstance(a) PROVE Goal
  BY <1>5, <1>6, <1>7 DEF createDNSResolverInstance
<1>8. ASSUME NEW a \in Activations, setSubResolverInstance(a) PROVE Goal
  <2>1. \A b \in Activations, n \in Names : Making(b, n)' => Making(b, n)
    BY <1>8 DEF setSubResolverInstance, Making
  <2>2. \A b \in Activations : Settled(b)'
    BY <1>k, <1>8, <2>1 DEF setSubResolverInstance
  <2>3. SettledInstanceIsShared'
    BY <1>8 DEF setSubResolverInstance, SettledInstanceIsShared
  <2> QED
    BY <2>2, <2>3
<1>9. ASSUME NEW a \in Activations, registDNSResolverInstanceCacheRecord(a) PROVE Goal
  BY <1>9 DEF registDNSResolverInstanceCacheRecord, Settled, SettledInstanceIsShared, Making
<1> QED
  BY <1>1, <1>2, <1>3, <1>4, <1>7, <1>8, <1>9 DEF CallerStep, Answer

\* The step of one activation a that has not returned and registers nothing: what
\* is registered or was returned stays whole, so only a itself is to be looked at.
LEMMA OneActivation ==
  ASSUME FactoryTypeOK, Complete, NEW a \in Activations,
         stage[a] # "given", stage'[a] # "idle",
         UNCHANGED onMemoryInstanceCacheTable,
         stage[a] # "idle" \/ \A b \in Activations : Inner(b) # a,
         \A b \in Activations \ {a} :
           /\ stage'[b] = stage[b] /\ instance'[b] = instance[b]
           /\ properties'[b] = properties[b],
         stage'[a] \in Before => stage[a] \in Before,
         stage'[a] = "construct" => FALSE,
         stage'[a] = "register" => Whole(a)',
         stage'[a] = "given" =>
           \E i \in Activations : instance'[a] = i /\ stage[i] = "given" /\ Whole(i)
  PROVE  Complete'
<1> USE ActivationFacts DEF FactoryTypeOK
<1>1. \A b \in Activations : IsGateway(b)' <=> IsGateway(b)
  <2> SUFFICES ASSUME NEW b \in Activations PROVE IsGateway(b)' <=> IsGateway(b)
    OBVIOUS
  <2>1. CASE b[2] < MaxDepth /\ Inner(b) = a
    BY <2>1 DEF IsGateway
  <2>2. CASE b[2] < MaxDepth /\ Inner(b) # a
    <3>1. Inner(b) \in Activations \ {a}
      BY <2>2
    <3> QED
      BY <3>1 DEF IsGateway
  <2>3. CASE ~(b[2] < MaxDepth)
    BY <2>3 DEF IsGateway
  <2> QED
    BY <2>1, <2>2, <2>3
<1>2. \A b \in Activations : stage[b] = "given" => stage'[b] = "given"
  OBVIOUS
<1>3. ASSUME NEW b \in Activations \ {a}, Whole(b) PROVE Whole(b)'
  <2>1. IsGateway(b) => Inner(b) \in Activations
    BY DEF IsGateway
  <2> QED
    BY <1>1, <1>2, <1>3, <2>1 DEF Whole
<1>4. ASSUME NEW b \in Activations, stage[b] = "given", Whole(b)
      PROVE  stage'[b] = "given" /\ Whole(b)'
  BY <1>2, <1>3, <1>4
<1>5. \A b \in Activations : stage'[b] \in Before => ~IsGateway(b)'
  BY <1>1 DEF Complete
<1>6. \A b \in Activations : stage'[b] = "construct" =>
        RequiredKeys \cup GatewayKeys \subseteq ParametersOf(properties'[b])
  BY DEF Complete
<1>7. \A b \in Activations : stage'[b] = "register" => Whole(b)'
  BY <1>3 DEF Complete
<1>8. \A n \in Names : onMemoryInstanceCacheTable[n] # None =>
        /\ stage'[onMemoryInstanceCacheTable[n]] = "given"
        /\ Whole(onMemoryInstanceCacheTable[n])'
  BY <1>4 DEF Complete
<1>9. ASSUME NEW b \in Activations, stage'[b] = "given"
      PROVE  instance'[b] # None /\ stage'[instance'[b]] = "given" /\ Whole(instance[b])'
  <2>1. PICK i \in Activations : i = instance'[b] /\ stage[i] = "given" /\ Whole(i)
    <3>1. CASE b = a
      BY <1>9, <3>1
    <3>2. CASE b # a
      BY <1>9, <3>2 DEF Complete
    <3> QED
      BY <3>1, <3>2
  <2>2. stage'[i] = "given" /\ Whole(i)'
    BY <1>4, <2>1
  <2>3. Whole(instance[b])'
    BY <2>1, <2>2 DEF Whole, IsGateway
  <2> QED
    BY <2>1, <2>2, <2>3
<1> QED
  BY <1>5, <1>6, <1>7, <1>8, <1>9 DEF Complete

LEMMA CompleteNext == FactoryTypeOK /\ Complete /\ CallerStep => Complete'
<1> SUFFICES ASSUME FactoryTypeOK, Complete, CallerStep PROVE Complete'
  OBVIOUS
<1> USE ActivationFacts DEF FactoryTypeOK, Enter, Refuse
<1>1. ASSUME NEW c \in Callers, NEW id, Call(c, id) \/ CallTemporary(c) PROVE Complete'
  <2> DEFINE a == Outermost(c)
  <2>1. /\ a \in Activations /\ \A b \in Activations : Inner(b) # a
        /\ stage[a] = "idle" /\ stage'[a] \in {"load", "look"}
        /\ UNCHANGED <<onMemoryInstanceCacheTable, properties, instance>>
        /\ \A b \in Activations \ {a} : stage'[b] = stage[b]
    BY <1>1 DEF Call, CallTemporary
  <2> HIDE DEF a
  <2> QED
    BY <2>1, OneActivation DEF Before
<1>2. ASSUME NEW a \in Activations, Identify(a) \/ LoadModel(a) PROVE Complete'
  <2>1. /\ stage[a] \in {"identify", "load"} /\ stage'[a] \in {"load", "look", "refused"}
        /\ UNCHANGED <<onMemoryInstanceCacheTable, properties, instance>>
        /\ \A b \in Activations \ {a} : stage'[b] = stage[b]
    BY <1>2 DEF Identify, LoadModel
  <2> QED
    BY <2>1, OneActivation DEF Before
<1>3. ASSUME NEW a \in Activations, LookUpByName(a) \/ LookUp(a) PROVE Complete'
  <2> DEFINE found == onMemoryInstanceCacheTable[name[a]]
  <2>1. /\ UNCHANGED <<onMemoryInstanceCacheTable, properties>>
        /\ stage[a] \in {"find", "look"} /\ name[a] \in Names
        /\ \A b \in Activations \ {a} : stage'[b] = stage[b] /\ instance'[b] = instance[b]
        /\ \/ found # None /\ stage'[a] = "given" /\ instance'[a] = found
           \/ stage'[a] \in {"make", "identify"}
    BY <1>3 DEF LookUpByName, LookUp, LookUpOr, getDNSResolverInstanceCacheRecord
  <2>2. found # None => found \in Activations /\ stage[found] = "given" /\ Whole(found)
    BY <2>1 DEF Complete
  <2> HIDE DEF found
  <2> QED
    BY <2>1, <2>2, OneActivation DEF Before
<1>4. ASSUME NEW a \in Activations, stage[a] = "make", Refuse(a),
             UNCHANGED <<onMemoryInstanceCacheTable, properties, instance>>
      PROVE  Complete'
  BY <1>4, OneActivation DEF Before
<1>5. ASSUME NEW a \in Activations, stage[a] = "make", Enter(a, "register"),
             NEW content, RequiredKeys \subseteq ParametersOf(content),
             properties' = [properties EXCEPT ![a] = content],
             UNCHANGED <<onMemoryInstanceCacheTable, instance>>
      PROVE  Complete'
  <2>1. ~IsGateway(a)
    BY <1>5 DEF Complete, Before
  <2>2. ~IsGateway(a)'
    BY <1>5, <2>1 DEF IsGateway
  <2>3. Whole(a)'
    BY <1>5, <2>2 DEF Whole
  <2>4. \A b \in Activations \ {a} : stage'[b] = stage[b] /\ properties'[b] = properties[b]
    BY <1>5
  <2> QED
    BY <1>5, <2>3, <2>4, OneActivation DEF Before
\* The call within the call begins: its activation was idle, as nothing that has
\* not made anything yet is a gateway.
<1>6. ASSUME NEW a \in Activations, a[2] < MaxDepth, stage[a] = "make",
             NEW content,
             RequiredKeys \cup GatewayKeys \subseteq ParametersOf(content),
             properties' = [properties EXCEPT ![a] = content],
             stage' = [stage EXCEPT ![a] = "construct", ![Inner(a)] = "find"],
             UNCHANGED <<onMemoryInstanceCacheTable, instance>>
      PROVE  Complete'
  <2> DEFINE i == Inner(a)
  <2>1. i \in Activations /\ i # a /\ stage[i] = "idle"
    BY <1>6 DEF Complete, Before, IsGateway
  <2>2. /\ stage'[a] = "construct" /\ stage'[i] = "find"
        /\ \A b \in Activations \ {a, i} : stage'[b] = stage[b]
        /\ \A b \in Activations \ {a} : properties'[b] = properties[b]
        /\ properties'[a] = content
    BY <1>6, <2>1
  <2>3. ~IsGateway(i)
    BY <2>1 DEF Complete, Before
  <2>4. \A b \in Activations \ {a} : IsGateway(b)' <=> IsGateway(b)
    <3> SUFFICES ASSUME NEW b \in Activations \ {a}, b[2] < MaxDepth
                 PROVE  stage'[Inner(b)] # "idle" <=> stage[Inner(b)] # "idle"
      BY DEF IsGateway
    <3>1. Inner(b) \in Activations /\ Inner(b) # i
      OBVIOUS
    <3> QED
      BY <1>6, <2>1, <2>2, <3>1
  <2> HIDE DEF i
  <2>5. \A b \in Activations : stage[b] = "given" => stage'[b] = "given" /\ b # a
    BY <1>6, <2>1, <2>2
  <2>6. ASSUME NEW b \in Activations \ {a}, Whole(b) PROVE Whole(b)'
    <3>1. IsGateway(b) => Inner(b) \in Activations
      BY DEF IsGateway
    <3> QED
      BY <2>2, <2>4, <2>5, <2>6, <3>1 DEF Whole
  <2>7. \A b \in Activations : stage'[b] \in Before => ~IsGateway(b)'
    BY <2>1, <2>2, <2>3, <2>4 DEF Complete, Before
  <2>8. \A b \in Activations : stage'[b] = "construct" =>
          RequiredKeys \cup GatewayKeys \subseteq ParametersOf(properties'[b])
    BY <1>6, <2>2 DEF Complete
  <2>9. \A b \in Activations : stage'[b] = "register" => Whole(b)'
    BY <2>2, <2>6 DEF Complete
  <2>10. \A n \in Names : onMemoryInstanceCacheTable[n] # None =>
           /\ stage'[onMemoryInstanceCacheTable[n]] = "given"
           /\ Whole(onMemoryInstanceCacheTable[n])'
    <3> SUFFICES ASSUME NEW n \in Names, onMemoryInstanceCacheTable[n] # None
                 PROVE  /\ stage'[onMemoryInstanceCacheTable[n]] = "given"
                        /\ Whole(onMemoryInstanceCacheTable[n])'
      BY <1>6
    <3>1. PICK j \in Activations :
            /\ j = onMemoryInstanceCacheTable[n]
            /\ stage[j] = "given" /\ Whole(j)
      BY DEF Complete
    <3>2. stage'[j] = "given" /\ Whole(j)'
      BY <2>5, <2>6, <3>1
    <3> QED
      BY <1>6, <3>1, <3>2 DEF Whole, IsGateway
  <2>11. ASSUME NEW b \in Activations, stage'[b] = "given"
         PROVE  instance'[b] # None /\ stage'[instance'[b]] = "given" /\ Whole(instance[b])'
    <3>1. stage[b] = "given" /\ instance[b] \in Activations
          /\ stage[instance[b]] = "given" /\ Whole(instance[b])
      BY <2>2, <2>11 DEF Complete
    <3>2. PICK j \in Activations : j = instance[b]
      BY <3>1
    <3>3. stage'[j] = "given" /\ Whole(j)'
      BY <2>5, <2>6, <3>1, <3>2
    <3> QED
      BY <1>6, <3>2, <3>3 DEF Whole, IsGateway
  <2> QED
    BY <1>6, <2>7, <2>8, <2>9, <2>10, <2>11 DEF Complete
<1>7. ASSUME NEW a \in Activations, createDNSResolverInstance(a) PROVE Complete'
  <2>1. \A keys : \A content \in Constructible(a, keys) : keys \subseteq ParametersOf(content)
    BY DEF Constructible
  <2> QED
    BY <1>4, <1>5, <1>6, <1>7, <2>1 DEF createDNSResolverInstance
<1>8. ASSUME NEW a \in Activations, setSubResolverInstance(a) PROVE Complete'
  <2>1. /\ stage[a] = "construct" /\ stage'[a] \in {"register", "refused"}
        /\ stage'[a] = "register" => stage[Inner(a)] = "given"
        /\ UNCHANGED <<onMemoryInstanceCacheTable, properties, instance>>
        /\ \A b \in Activations \ {a} : stage'[b] = stage[b]
    BY <1>8 DEF setSubResolverInstance
  <2>2. stage'[a] = "register" => Whole(a)'
    <3>1. IsGateway(a)' => Inner(a) \in Activations \ {a}
      BY DEF IsGateway
    <3> QED
      BY <2>1, <3>1 DEF Whole, Complete
  <2> QED
    BY <2>1, <2>2, OneActivation DEF Before
<1>9. ASSUME NEW a \in Activations, registDNSResolverInstanceCacheRecord(a) PROVE Complete'
  <2>1. /\ stage[a] = "register" /\ name[a] \in Names
        /\ onMemoryInstanceCacheTable' = [onMemoryInstanceCacheTable EXCEPT ![name[a]] = a]
        /\ instance' = [instance EXCEPT ![a] = a]
        /\ stage' = [stage EXCEPT ![a] = "given"]
        /\ UNCHANGED properties
    BY <1>9 DEF registDNSResolverInstanceCacheRecord
  <2>2. \A b \in Activations : stage[b] = "given" => stage'[b] = "given"
    BY <2>1
  <2>3. \A b \in Activations : IsGateway(b)' <=> IsGateway(b)
    BY <2>1 DEF IsGateway
  <2>4. ASSUME NEW b \in Activations, Whole(b) PROVE Whole(b)'
    <3>1. IsGateway(b) => Inner(b) \in Activations
      BY DEF IsGateway
    <3> QED
      BY <2>1, <2>2, <2>3, <2>4, <3>1 DEF Whole
  <2>5. stage'[a] = "given" /\ Whole(a)'
    BY <2>1, <2>4 DEF Complete
  <2>6. \A n \in Names : onMemoryInstanceCacheTable'[n] # None =>
          /\ stage'[onMemoryInstanceCacheTable'[n]] = "given"
          /\ Whole(onMemoryInstanceCacheTable[n])'
    <3> SUFFICES ASSUME NEW n \in Names, onMemoryInstanceCacheTable'[n] # None
                 PROVE  /\ stage'[onMemoryInstanceCacheTable'[n]] = "given"
                        /\ Whole(onMemoryInstanceCacheTable[n])'
      OBVIOUS
    <3>1. PICK j \in Activations : j = onMemoryInstanceCacheTable'[n] /\ stage'[j] = "given"
                                    /\ Whole(j)'
      BY <2>1, <2>2, <2>4, <2>5 DEF Complete
    <3> QED
      BY <3>1 DEF Whole, IsGateway
  <2>7. ASSUME NEW b \in Activations, stage'[b] = "given"
        PROVE  instance'[b] # None /\ stage'[instance'[b]] = "given" /\ Whole(instance[b])'
    <3>1. PICK j \in Activations : j = instance'[b] /\ stage'[j] = "given" /\ Whole(j)'
      BY <2>1, <2>2, <2>4, <2>5, <2>7 DEF Complete
    <3> QED
      BY <3>1 DEF Whole, IsGateway
  <2>8. /\ \A b \in Activations : stage'[b] \in Before => ~IsGateway(b)'
        /\ \A b \in Activations : stage'[b] = "construct" =>
             RequiredKeys \cup GatewayKeys \subseteq ParametersOf(properties'[b])
        /\ \A b \in Activations : stage'[b] = "register" => Whole(b)'
    BY <2>1, <2>3, <2>4 DEF Complete, Before
  <2> QED
    BY <2>6, <2>7, <2>8 DEF Complete
<1> QED
  BY <1>1, <1>2, <1>3, <1>7, <1>8, <1>9 DEF CallerStep, Answer

LEMMA FactoryStep == FactoryInv /\ [FactoryNext]_allVars => FactoryInv'
<1> SUFFICES ASSUME FactoryInv, [FactoryNext]_allVars PROVE FactoryInv'
  OBVIOUS
<1>1. CASE [Next]_vars /\ UNCHANGED factoryVars
  <2>1. KnownInv'
    BY <1>1, KnownNext DEF FactoryInv
  <2> QED
    BY <1>1, <2>1 DEF FactoryInv, FactoryTypeOK, Settled, SettledInstanceIsShared, Complete,
       Making, Whole, IsGateway, factoryVars, callerVars
<1>2. CASE CallerStep /\ UNCHANGED vars
  <2>1. KnownInv'
    BY <1>2, KnownNext DEF FactoryInv
  <2>2. FactoryTypeOK'
    BY <1>2, TypeNext DEF FactoryInv
  <2>3. (\A a \in Activations : Settled(a)') /\ SettledInstanceIsShared'
    BY <1>2, SettledNext DEF FactoryInv
  <2>4. Complete'
    BY <1>2, CompleteNext DEF FactoryInv
  <2> QED
    BY <2>1, <2>2, <2>3, <2>4 DEF FactoryInv
<1> QED
  BY <1>1, <1>2 DEF FactoryNext, allVars

\* The types of the factory, for any number of queries and any depth of calls.
THEOREM FactoryTypeCorrect == FactorySpec => []FactoryTypeOK
<1>1. FactoryInv => FactoryTypeOK
  BY DEF FactoryInv
<1> QED
  BY <1>1, FactoryInitial, FactoryStep, PTL DEF FactorySpec

\* A registered instance that nobody is about to replace, a query or a gateway that
\* is being constructed, is given to every later call for its name, whatever is
\* done to the resolver in the database.
THEOREM SettledShared == FactorySpec => []SettledInstanceIsShared
<1>1. FactoryInv => SettledInstanceIsShared
  BY DEF FactoryInv
<1> QED
  BY <1>1, FactoryInitial, FactoryStep, PTL DEF FactorySpec

\* No call is given an instance that lacks a required parameter or, for a gateway,
\* its sub-resolver.
THEOREM GivenComplete == FactorySpec => []GivenInstanceIsComplete
<1>1. FactoryInv => GivenInstanceIsComplete
  BY DEF FactoryInv, Complete, GivenInstanceIsComplete, Whole
<1> QED
  BY <1>1, FactoryInitial, FactoryStep, PTL DEF FactorySpec
=============================================================================
