--------------------------- MODULE ResolverFactory ---------------------------
(***************************************************************************)
(* The factory that makes resolver instances of what the database holds,   *)
(* while requests administer it.  A caller is a DNS query over HTTPS, for  *)
(* each of which the service instance, and so its resolver instance, is    *)
(* got from the factories; it keeps one session, like any web request.     *)
(* Instances are kept under their name for the life of the process.        *)
(*                                                                         *)
(* To construct a resolver of type 501, a subway gateway, is to get its    *)
(* sub-resolver from the same factory: a call within the call, in the same *)
(* thread and session.  <<c, d>> is the activation at depth d of caller c. *)
(* It makes one instance at most, which is named after it.                 *)
(***************************************************************************)
EXTENDS ResolverStore

CONSTANTS Callers,
          RequiredKeys,  \* getRequiredParameterKeys of every resolver
          GatewayKeys,   \* what a gateway needs besides, its sub-resolver's name
          MaxDepth,      \* how many calls within calls the stack has room for
          TemporaryName, TemporaryProperties,  \* what an endpoint is started with
          None

ASSUME RequiredAssumption == RequiredKeys \subseteq Keys /\ GatewayKeys \subseteq Keys
ASSUME DepthAssumption == MaxDepth \in Nat \ {0}
ASSUME TemporaryAssumption ==
  TemporaryName \in Names /\ TemporaryProperties \subseteq Keys \X Values

Activations == Callers \X (1..MaxDepth)

ASSUME NoneAssumption == None \notin Activations /\ None \notin Names

VARIABLES
  onMemoryInstanceCacheTable,  \* the instance registered under a name
  stage,        \* stage[a]: the step activation a makes next
  wantedID,     \* wantedID[a]: the id asked for; NoID for a temporary resolver
  name,         \* name[a]: the name asked for, or found under that id
  session,      \* session[c]: the rows in the session of c
  properties,   \* properties[a]: the configuration of the instance a made
  instance,     \* instance[a]: the instance a returned
  settled       \* history: what was registered under the name, and by nobody
                \* being made, when a began

callerVars  == <<stage, wantedID, name, session, properties, instance, settled>>
factoryVars == <<onMemoryInstanceCacheTable, callerVars>>
allVars     == <<vars, factoryVars>>

Stages == {"idle", "find", "identify", "load", "look", "make", "construct",
           "register", "given", "refused"}

FactoryTypeOK ==
  /\ onMemoryInstanceCacheTable \in [Names -> Activations \cup {None}]
  /\ stage \in [Activations -> Stages]
  /\ wantedID \in [Activations -> Nat]
  /\ name \in [Activations -> Names \cup {None}]
  /\ \A a \in Activations :
       stage[a] \notin {"idle", "load", "refused"} => name[a] \in Names
  /\ DOMAIN session = Callers
  /\ \A c \in Callers :
       DOMAIN session[c] \in SUBSET Nat /\ session[c] \in [DOMAIN session[c] -> Row]
  /\ properties \in [Activations -> SUBSET (Keys \X Values)]
  /\ instance \in [Activations -> Activations \cup {None}]
  /\ settled \in [Activations -> [Names -> Activations \cup {None}]]

FactoryInit ==
  /\ Init
  /\ onMemoryInstanceCacheTable = [n \in Names |-> None]
  /\ stage = [a \in Activations |-> "idle"]
  /\ wantedID = [a \in Activations |-> NoID]
  /\ name = [a \in Activations |-> None]
  /\ session = [c \in Callers |-> <<>>]
  /\ properties = [a \in Activations |-> {}]
  /\ instance = [a \in Activations |-> None]
  /\ settled = [a \in Activations |-> [n \in Names |-> None]]
-----------------------------------------------------------------------------
Outermost(c) == <<c, 1>>
Inner(a)     == <<a[1], a[2] + 1>>

Enter(a, s) == stage' = [stage EXCEPT ![a] = s]
Refuse(a)   == Enter(a, "refused")

(* Between the look-up that finds nothing and the registration, the          *)
(* construction of a sub-resolver included.                                  *)
Making(a, n) == stage[a] \in {"make", "construct", "register"} /\ name[a] = n

SettledNow == [n \in Names |->
  IF \E b \in Activations : Making(b, n) THEN None ELSE onMemoryInstanceCacheTable[n]]

(* A query needs the resolver of its service instance, known by an id that   *)
(* was given to a resolver at some time: getOrCreateResolverInstance(id).    *)
Call(c, id) ==
  LET a == Outermost(c)
  IN /\ stage[a] = "idle"
     /\ Enter(a, "load")
     /\ wantedID' = [wantedID EXCEPT ![a] = id]
     /\ settled' = [settled EXCEPT ![a] = SettledNow]
     /\ UNCHANGED <<onMemoryInstanceCacheTable, name, session, properties, instance>>

(* getOrCreateTemporaryResolverInstance, called when an endpoint is started  *)
(* on its own, before any query, with a name and parameters it was given:    *)
(* the database is not asked.                                                *)
CallTemporary(c) ==
  LET a == Outermost(c)
  IN /\ \A b \in Activations : stage[b] = "idle"
     /\ Enter(a, "look")
     /\ name' = [name EXCEPT ![a] = TemporaryName]
     /\ settled' = [settled EXCEPT ![a] = SettledNow]
     /\ UNCHANGED <<onMemoryInstanceCacheTable, wantedID, session, properties, instance>>

(* What the session of the caller makes of the rows that are there.          *)
Loaded(a) ==
  LET c == a[1]
  IN [i \in DOMAIN rows |-> IF i \in DOMAIN session[c] THEN session[c][i] ELSE rows[i]]

ReadRows(a) == session' = [session EXCEPT ![a[1]] = Loaded(a)]

(* Mutant of the look-up: an instance whose configuration is no longer the   *)
(* one stored is not returned.                                               *)
upToDateCacheRecord(a) ==
  LET found == onMemoryInstanceCacheTable[name[a]]
  IN IF found # None /\ properties[found] = Content(Loaded(a)) THEN found ELSE None

getDNSResolverInstanceCacheRecord(a) == onMemoryInstanceCacheTable[name[a]]

(* An instance that is found under the name is returned, by any of the       *)
(* variants; else they go on to next.                                        *)
LookUpOr(a, next) ==
  LET found == getDNSResolverInstanceCacheRecord(a)
  IN /\ IF found # None
        THEN Enter(a, "given") /\ instance' = [instance EXCEPT ![a] = found]
        ELSE Enter(a, next) /\ UNCHANGED instance
     /\ UNCHANGED <<onMemoryInstanceCacheTable, wantedID, name, session, properties, settled>>
-----------------------------------------------------------------------------
(* A sub-resolver is asked for by user and name: this variant looks for an   *)
(* instance before it asks the database, ...                                 *)
LookUpByName(a) == stage[a] = "find" /\ LookUpOr(a, "identify")

(* ... there for the id (a NullPointerException when there is none), with    *)
(* which it calls the other.                                                 *)
Identify(a) ==
  /\ stage[a] = "identify"
  /\ IF resolver[name[a]] = NoID
     THEN Refuse(a) /\ UNCHANGED <<wantedID, session>>
     ELSE /\ wantedID' = [wantedID EXCEPT ![a] = resolver[name[a]]]
          /\ ReadRows(a)
          /\ Enter(a, "load")
  /\ UNCHANGED <<onMemoryInstanceCacheTable, name, properties, instance, settled>>

(* Mutant of LoadModel: the name is not taken from the model.                *)
LoadRows(a) ==
  /\ stage[a] = "load"
  /\ \E n \in Names : resolver[n] = wantedID[a] /\ ReadRows(a) /\ Enter(a, "look")
  /\ UNCHANGED <<onMemoryInstanceCacheTable, wantedID, name, properties, instance, settled>>

(* getOrCreateResolverInstance by id loads the model of the resolver, ...    *)
LoadModel(a) ==
  /\ stage[a] = "load"
  /\ \/ /\ \A n \in Names : resolver[n] # wantedID[a]
        /\ Refuse(a)
        /\ UNCHANGED <<name, session>>
     \/ \E n \in Names :
          /\ resolver[n] = wantedID[a]
          /\ name' = [name EXCEPT ![a] = n]
          /\ ReadRows(a)
          /\ Enter(a, "look")
  /\ UNCHANGED <<onMemoryInstanceCacheTable, wantedID, properties, instance, settled>>

(* ... looks for an instance under its name, and else makes one ...          *)
LookUp(a) == stage[a] = "look" /\ LookUpOr(a, "make")

(* ... of a model that it loads again, if the resolver is still there.  The  *)
(* parameters of a temporary resolver are those it was called with.          *)
Models(a) ==
  IF wantedID[a] = NoID THEN {TemporaryProperties}
  ELSE {Content(Loaded(a)) : n \in {m \in Names : resolver[m] = wantedID[a]}}

ParametersOf(content) == {q[1] : q \in content}

(* Mutant of Constructible: the parameters are looked for in the model that  *)
(* was loaded first.                                                         *)
ConstructibleAtFirst(a, keys) == IF keys \subseteq KeysOf(session[a[1]]) THEN Models(a) ELSE {}

Constructible(a, keys) == {content \in Models(a) : keys \subseteq ParametersOf(content)}

(* The type code, which ResolverStore leaves out, may be any: a constructor  *)
(* keeps the model's parameters; that of a gateway goes on to ask for a      *)
(* sub-resolver, whose name may be any too, this resolver's own included.    *)
(* Refused: a resolver that has gone (a NullPointerException), a type that   *)
(* is unknown, a required parameter missing, a stack with no room left.      *)
createDNSResolverInstance(a) ==
  /\ stage[a] = "make"
  /\ IF wantedID[a] = NoID THEN UNCHANGED session ELSE ReadRows(a)
  /\ \/ Refuse(a) /\ UNCHANGED <<name, properties, settled>>
     \/ /\ \E content \in Constructible(a, RequiredKeys) :
             properties' = [properties EXCEPT ![a] = content]
        /\ Enter(a, "register")
        /\ UNCHANGED <<name, settled>>
     \/ /\ a[2] < MaxDepth
        /\ \E content \in Constructible(a, RequiredKeys \cup GatewayKeys) :
             properties' = [properties EXCEPT ![a] = content]
        /\ \E n \in Names : name' = [name EXCEPT ![Inner(a)] = n]
        /\ settled' = [settled EXCEPT ![Inner(a)] = SettledNow]
        /\ stage' = [stage EXCEPT ![a] = "construct", ![Inner(a)] = "find"]
  /\ UNCHANGED <<onMemoryInstanceCacheTable, wantedID, instance>>

(* The sub-resolver is set, or what was thrown for it is thrown on.          *)
setSubResolverInstance(a) ==
  /\ stage[a] = "construct"
  /\ \/ stage[Inner(a)] = "given" /\ Enter(a, "register")
     \/ stage[Inner(a)] = "refused" /\ Refuse(a)
  /\ UNCHANGED <<onMemoryInstanceCacheTable, wantedID, name, session, properties,
                 instance, settled>>

(* ... and registers it, over one registered meanwhile.                      *)
registDNSResolverInstanceCacheRecord(a) ==
  /\ stage[a] = "register"
  /\ onMemoryInstanceCacheTable' = [onMemoryInstanceCacheTable EXCEPT ![name[a]] = a]
  /\ instance' = [instance EXCEPT ![a] = a]
  /\ Enter(a, "given")
  /\ UNCHANGED <<wantedID, name, session, properties, settled>>

Answer(a) ==
  \/ LookUpByName(a) \/ Identify(a)
  \/ LoadModel(a) \/ LookUp(a)
  \/ createDNSResolverInstance(a) \/ setSubResolverInstance(a)
  \/ registDNSResolverInstanceCacheRecord(a)

CallerStep ==
  \/ \E a \in Activations : Answer(a)
  \/ \E c \in Callers : \/ \E id \in 1..(nextResolver - 1) : Call(c, id)
                        \/ CallTemporary(c)

FactoryNext ==
  \/ Next /\ UNCHANGED factoryVars
  \/ CallerStep /\ UNCHANGED vars

FactorySpec == FactoryInit /\ [][FactoryNext]_allVars
-----------------------------------------------------------------------------
(* Once an instance is registered and nobody is making another, for a query  *)
(* or for a gateway, every later call for the name returns that instance,    *)
(* whatever is done to the resolver: changing it or its properties, or       *)
(* deleting it and creating one of the same name, reaches no query before    *)
(* the process is restarted.                                                 *)
SettledInstanceIsShared ==
  \A a \in Activations : stage[a] = "given" /\ settled[a][name[a]] # None
    => instance[a] = settled[a][name[a]]

IsGateway(i) == i[2] < MaxDepth /\ stage[Inner(i)] # "idle"

(* An instance that is returned was made of every parameter its type         *)
(* requires, though requests may have been taking them away between the two  *)
(* readings of the model; and a gateway has got its sub-resolver, of which   *)
(* the same is true, though making that one may have failed.                 *)
GivenInstanceIsComplete ==
  \A a \in Activations : stage[a] = "given" =>
    /\ RequiredKeys \subseteq ParametersOf(properties[instance[a]])
    /\ IsGateway(instance[a]) =>
         /\ GatewayKeys \subseteq ParametersOf(properties[instance[a]])
         /\ stage[Inner(instance[a])] = "given"
=============================================================================
