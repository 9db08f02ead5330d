---------------------------- MODULE ResolverStore ----------------------------
(***************************************************************************)
(* The administration of resolver instances: the requests of the Web API,  *)
(* and the two tables of the database they work on.  A request is several  *)
(* transactions; a transaction (a call of a @Transactional service) is one *)
(* step here, and one that ends in a checked exception is committed as far *)
(* as it came.                                                             *)
(*                                                                         *)
(* The query for the properties of a resolver compares the column          *)
(* dnsResolverInstanceID with itself, for want of a colon: it returns the  *)
(* properties of all resolvers.                                            *)
(*                                                                         *)
(* A request keeps one session (open-in-view): a row it has once read      *)
(* keeps the values it had then, however often the request reads it again. *)
(* The value a request writes is named after the request.                  *)
(***************************************************************************)
EXTENDS Integers, FiniteSets

CONSTANTS Requests,
          Names,      \* names of resolver instances, of one user
          Keys,       \* property keys
          Initial     \* the value of a property before any of the requests

ASSUME RequestsAssumption == IsFiniteSet(Requests) /\ Initial \notin Requests
ASSUME NamesAssumption == IsFiniteSet(Names)
ASSUME KeysAssumption == IsFiniteSet(Keys)

NoID   == 0
Values == Requests \cup {Initial}

VARIABLES
  resolver,      \* DNS_RESOLVER_INSTANCE: the id of the row with a name, or NoID
  nextResolver,  \* the identity column of that table
  rows,          \* DNS_RESOLVER_INSTANCE_PROPERTIES: a row for each id in use
  nextRow,       \* the identity column of that table
  pc,            \* pc[p]: the transaction request p makes next
  op,            \* op[p]: what request p asks for
  target,        \* target[p]: the resolver instance found, by its id
  seen,          \* seen[p]: the rows in the session of p, as they were when read
  info,          \* info[p]: the properties p holds in memory and will write
  alone,         \* history: no other request was under way at any time of p
  before         \* history: the properties stored when p began

vars == <<resolver, nextResolver, rows, nextRow, pc, op, target, seen, info, alone, before>>
store   == <<resolver, nextResolver, rows, nextRow>>
history == <<alone, before>>

Row  == [owner : Nat, key : Keys, value : Values]
Done == {"done", "failed"}
Pcs  == {"idle", "create", "find", "load", "save", "delete", "read", "write",
         "verify", "erase"} \cup Done

Kinds == {"createResolver", "updateResolver", "deleteResolver", "createProperty",
          "updateProperty", "deleteProperty", "putProperty"}
Ops   == [kind : Kinds, name : Names, key : Keys]
NoOp  == [kind |-> "none"]

Active(p)  == pc[p] \notin {"idle"} \cup Done
KeysOf(t)  == {t[i].key : i \in DOMAIN t}
Content(t) == {<<t[i].key, t[i].value>> : i \in DOMAIN t}

TypeOK ==
  /\ resolver \in [Names -> Nat]
  /\ nextResolver \in Nat \ {0}
  /\ DOMAIN rows \in SUBSET (Nat \ {0}) /\ rows \in [DOMAIN rows -> Row]
  /\ nextRow \in Nat \ {0}
  /\ pc \in [Requests -> Pcs]
  /\ op \in [Requests -> Ops \cup {NoOp}]
  /\ \A p \in Requests : pc[p] # "idle" => op[p] \in Ops
  /\ target \in [Requests -> Nat]
  /\ DOMAIN seen = Requests /\ DOMAIN info = Requests
  /\ \A p \in Requests :
       /\ DOMAIN seen[p] \in SUBSET Nat /\ seen[p] \in [DOMAIN seen[p] -> Row]
       /\ DOMAIN info[p] \in SUBSET Nat /\ info[p] \in [DOMAIN info[p] -> Row]
  /\ alone \in [Requests -> BOOLEAN]
  /\ before \in [Requests -> SUBSET (Keys \X Values)]

(* What INIT_DATA.sql leaves, and what requests may have made of it since:   *)
(* any resolvers, properties with different keys, all of them of one of the  *)
(* resolvers, the one saved last.                                            *)
Init ==
  /\ \E there \in SUBSET Names :
       /\ resolver \in [Names -> 0..Cardinality(there)]
       /\ \A m, n \in Names : resolver[m] = resolver[n] => m = n \/ resolver[m] = NoID
       /\ \A n \in Names : resolver[n] # NoID <=> n \in there
       /\ nextResolver = Cardinality(there) + 1
  /\ \E stored \in SUBSET Keys, owner \in {resolver[n] : n \in Names} :
       /\ stored # {} => owner # NoID
       /\ nextRow = Cardinality(stored) + 1
       /\ rows \in [1..Cardinality(stored) ->
                      [owner : {owner}, key : stored, value : {Initial}]]
       /\ KeysOf(rows) = stored
  /\ pc = [p \in Requests |-> "idle"]
  /\ op = [p \in Requests |-> NoOp]
  /\ target = [p \in Requests |-> NoID]
  /\ seen = [p \in Requests |-> <<>>]
  /\ info = [p \in Requests |-> <<>>]
  /\ alone = [p \in Requests |-> FALSE]
  /\ before = [p \in Requests |-> {}]
-----------------------------------------------------------------------------
(* What a query for the properties returns in the session of p: the rows     *)
(* that are in the table now, with the values p saw first.                   *)
findByDNSResolverInstanceID(p) ==
  [i \in DOMAIN rows |-> IF i \in DOMAIN seen[p] THEN seen[p][i] ELSE rows[i]]

Goto(p, step) == pc' = [pc EXCEPT ![p] = step]
Fail(p)       == Goto(p, "failed")

(* A request comes in; the other requests under way are no longer alone.     *)
Start(p, o) ==
  /\ pc[p] = "idle"
  /\ op' = [op EXCEPT ![p] = o]
  /\ Goto(p, IF o.kind = "createResolver" THEN "create" ELSE "find")
  /\ alone' = [q \in Requests |-> IF q = p THEN \A r \in Requests : ~Active(r)
                                           ELSE alone[q] /\ ~Active(q)]
  /\ before' = [before EXCEPT ![p] = Content(rows)]
  /\ UNCHANGED <<store, target, seen, info>>

(* Saving a resolver that has no id yet: the new one has no properties, and  *)
(* the rows that are only in the database, all of them, are deleted.         *)
CreateResolver(p) ==
  /\ pc[p] = "create"
  /\ IF resolver[op[p].name] # NoID
     THEN Fail(p) /\ UNCHANGED store
     ELSE /\ resolver' = [resolver EXCEPT ![op[p].name] = nextResolver]
          /\ nextResolver' = nextResolver + 1
          /\ rows' = <<>>
          /\ Goto(p, "done")
          /\ UNCHANGED nextRow
  /\ UNCHANGED <<op, target, seen, info, history>>

(* Where a request goes on that found its resolver and the list of its       *)
(* properties, known to have a row with the key asked for or not.            *)
AfterFind(kind, has) ==
  CASE kind = "updateResolver"  -> "load"
    [] kind = "deleteResolver"  -> "delete"
    [] kind = "createProperty"  -> IF has THEN "failed" ELSE "load"
    [] kind = "updateProperty"  -> IF has THEN "read" ELSE "failed"
    [] kind = "deleteProperty"  -> IF has THEN "verify" ELSE "failed"
    [] kind = "putProperty"     -> "find"

(* putDNSResolverInstanceProperty calls the handler of a creation or of an   *)
(* update, which begins by looking for the resolver again.                   *)
AfterPut(has) == IF has THEN "updateProperty" ELSE "createProperty"

Find(p) ==
  /\ pc[p] = "find"
  /\ IF resolver[op[p].name] = NoID
     THEN Fail(p) /\ UNCHANGED <<op, target, seen, info>>
     ELSE LET list == findByDNSResolverInstanceID(p)
              has  == op[p].key \in KeysOf(list)
              put  == op[p].kind = "putProperty"
          IN /\ target' = [target EXCEPT ![p] = resolver[op[p].name]]
             /\ seen' = [seen EXCEPT ![p] = list]
             /\ info' = [info EXCEPT ![p] =
                  IF op[p].kind \in {"updateProperty", "deleteProperty"}
                  THEN [i \in {i \in DOMAIN list : list[i].key = op[p].key} |-> list[i]]
                  ELSE list]
             /\ op' = IF put THEN [op EXCEPT ![p].kind = AfterPut(has)] ELSE op
             /\ Goto(p, AfterFind(op[p].kind, has))
  /\ UNCHANGED <<store, history>>

(* The handlers of a creation and an update read the list they will write:   *)
(* the former finds the resolver by its name again, the latter by its id.    *)
Load(p) ==
  /\ pc[p] = "load"
  /\ LET list  == findByDNSResolverInstanceID(p)
         here  == IF op[p].kind = "updateResolver" THEN target[p] ELSE resolver[op[p].name]
         there == here # NoID /\ \E n \in Names : resolver[n] = here
     IN IF ~there
        THEN Fail(p) /\ UNCHANGED <<target, seen, info>>
        ELSE /\ target' = [target EXCEPT ![p] = here]
             /\ seen' = [seen EXCEPT ![p] = list]
             /\ info' = [info EXCEPT ![p] =
                  IF op[p].kind = "updateResolver" THEN list
                  ELSE [i \in DOMAIN list \cup {NoID} |->
                          IF i # NoID THEN list[i]
                          ELSE [owner |-> here, key |-> op[p].key, value |-> p]]]
             /\ Goto(p, "save")
  /\ UNCHANGED <<op, store, history>>
-----------------------------------------------------------------------------
(* saveDNSResolverPropertiesInfo for each of the items of a list, in order:  *)
(* an item without an id comes last.  One whose id is in the table updates   *)
(* that row, any other is inserted; either throws when another row has its   *)
(* key, an earlier item of the list included, and what follows is not done.  *)
ComesBefore(i, j) == i # NoID /\ (j = NoID \/ i < j)

HasRow(i) == i \in DOMAIN rows

(* Mutant of KeyIsTaken: the table is not looked at.                         *)
KeyIsTakenInList(list, i) ==
  \E j \in DOMAIN list : ComesBefore(j, i) /\ ~HasRow(j) /\ list[j].key = list[i].key

KeyIsTaken(list, i) ==
  \/ \E j \in DOMAIN rows : j # i /\ rows[j].key = list[i].key
  \/ \E j \in DOMAIN list : ComesBefore(j, i) /\ ~HasRow(j) /\ list[j].key = list[i].key

Saved(list) ==
  {i \in DOMAIN list : \A j \in DOMAIN list :
      (j = i \/ ComesBefore(j, i)) => ~KeyIsTaken(list, j)}

Inserted(list) == {i \in Saved(list) : ~HasRow(i)}

(* Mutant of NewID: inserted rows are numbered from zero.                    *)
NewIDFromZero(list, i) == Cardinality({j \in Inserted(list) : ComesBefore(j, i)})

NewID(list, i) == nextRow + Cardinality({j \in Inserted(list) : ComesBefore(j, i)})

(* Mutant of AfterSaving: a row that is there is not updated.                *)
AfterInserting(list) ==
  [x \in DOMAIN rows \cup {NewID(list, i) : i \in Inserted(list)} |->
     IF HasRow(x) THEN rows[x]
     ELSE list[CHOOSE i \in Inserted(list) : NewID(list, i) = x]]

AfterSaving(list) ==
  [x \in DOMAIN rows \cup {NewID(list, i) : i \in Inserted(list)} |->
     IF HasRow(x)
     THEN IF x \in Saved(list) THEN list[x] ELSE rows[x]
     ELSE list[CHOOSE i \in Inserted(list) : NewID(list, i) = x]]

(* saveDNSResolverInstanceInfo of a resolver that has an id: every item      *)
(* becomes a property of this resolver, then the rows whose key no item has  *)
(* are deleted.  A size that does not fit makes it throw, after all that.    *)
Owned(p) == [i \in DOMAIN info[p] |-> [info[p][i] EXCEPT !.owner = target[p]]]

(* Mutant of WithKeys: the test of hasProperties is the other way round.     *)
WithoutKeys(t, keys) == [i \in {i \in DOMAIN t : t[i].key \notin keys} |-> t[i]]

WithKeys(t, keys) == [i \in {i \in DOMAIN t : t[i].key \in keys} |-> t[i]]

Save(p) ==
  /\ pc[p] = "save"
  /\ IF ~\E n \in Names : resolver[n] = target[p]
     THEN Fail(p) /\ UNCHANGED store
     ELSE LET list  == Owned(p)
              all   == Saved(list) = DOMAIN list
              table == AfterSaving(list)
              left  == WithKeys(table, KeysOf(list))
          IN /\ rows' = IF all THEN left ELSE table
             /\ nextRow' = nextRow + Cardinality(Inserted(list))
             /\ IF all /\ Cardinality(DOMAIN left) = Cardinality(KeysOf(list))
                THEN Goto(p, "done") ELSE Fail(p)
             /\ UNCHANGED <<resolver, nextResolver>>
  /\ UNCHANGED <<op, target, seen, info, history>>

(* deleteDNSResolverInstanceInfo deletes the properties listed, and throws   *)
(* at the first that is not there; then the resolver, if it is there.        *)
DeleteResolver(p) ==
  /\ pc[p] = "delete"
  /\ LET listed  == DOMAIN info[p]
         deleted == {i \in listed : \A j \in listed : j <= i => HasRow(j)}
         there   == \E n \in Names : resolver[n] = target[p]
     IN /\ rows' = [i \in DOMAIN rows \ deleted |-> rows[i]]
        /\ IF deleted = listed /\ there
           THEN /\ resolver' = [n \in Names |-> IF resolver[n] = target[p] THEN NoID
                                                ELSE resolver[n]]
                /\ Goto(p, "done")
           ELSE Fail(p) /\ UNCHANGED resolver
  /\ UNCHANGED <<nextResolver, nextRow, op, target, seen, info, history>>

(* updateDNSResolverInstanceProperty reads the row of the id found, ...      *)
ReadProperty(p) ==
  /\ pc[p] = "read"
  /\ IF \A i \in DOMAIN info[p] : HasRow(i)
     THEN /\ info' = [info EXCEPT ![p] = [i \in DOMAIN info[p] |->
                                            [info[p][i] EXCEPT !.value = p]]]
          /\ Goto(p, "write")
     ELSE Fail(p) /\ UNCHANGED info
  /\ UNCHANGED <<op, target, seen, store, history>>

(* ... and saves it, as a new row if it has gone in the meantime.            *)
WriteProperty(p) ==
  /\ pc[p] = "write"
  /\ rows' = AfterSaving(info[p])
  /\ nextRow' = nextRow + Cardinality(Inserted(info[p]))
  /\ IF Saved(info[p]) = DOMAIN info[p] THEN Goto(p, "done") ELSE Fail(p)
  /\ UNCHANGED <<resolver, nextResolver, op, target, seen, info, history>>

(* deleteDNSResolverInstanceProperty reads the row of the id found, the      *)
(* resolver it belongs to (a NullPointerException when that has gone) and    *)
(* the property of this resolver with the key, ...                           *)
VerifyProperty(p) ==
  /\ pc[p] = "verify"
  /\ IF /\ \A i \in DOMAIN info[p] : HasRow(i)
        /\ \A i \in DOMAIN info[p] : \E n \in Names : resolver[n] = info[p][i].owner
     THEN Goto(p, "erase") ELSE Fail(p)
  /\ UNCHANGED <<op, target, seen, info, store, history>>

(* ... and deletes the row, or throws when it has gone since.                *)
EraseProperty(p) ==
  /\ pc[p] = "erase"
  /\ rows' = [i \in DOMAIN rows \ DOMAIN info[p] |-> rows[i]]
  /\ IF \A i \in DOMAIN info[p] : HasRow(i) THEN Goto(p, "done") ELSE Fail(p)
  /\ UNCHANGED <<resolver, nextResolver, nextRow, op, target, seen, info, history>>
-----------------------------------------------------------------------------
Handle(p) ==
  \/ CreateResolver(p)
  \/ Find(p)
  \/ Load(p)
  \/ Save(p)
  \/ DeleteResolver(p)
  \/ ReadProperty(p)
  \/ WriteProperty(p)
  \/ VerifyProperty(p)
  \/ EraseProperty(p)

Next == \E p \in Requests : Handle(p) \/ \E o \in Ops : Start(p, o)

Spec == Init /\ [][Next]_vars
-----------------------------------------------------------------------------
(* No two rows of the property table have one key.  The table itself only    *)
(* asks that of the rows of one resolver; that a key is nowhere twice is due *)
(* to the checks of each transaction, whatever stale list it writes.         *)
KeysAreUnique == \A i, j \in DOMAIN rows : rows[i].key = rows[j].key => i = j

Ends(p)     == Active(p) /\ pc'[p] \in Done
Succeeds(p) == Ends(p) /\ pc'[p] = "done"
Fails(p)    == Ends(p) /\ pc'[p] = "failed"

(* What the requests about a property, and an update of a resolver, promise. *)
Promised(o, p, content) ==
  LET others == {c \in content : c[1] # o.key}
  IN CASE o.kind = "updateResolver" -> content
       [] o.kind = "deleteProperty" -> others
       [] OTHER                     -> others \cup {<<o.key, p>>}

(* A request that no other was under way with does what it promises, in all  *)
(* of its transactions together, or fails and changes no property.           *)
AloneRequestIsExact ==
  [][\A p \in Requests : alone[p] =>
       /\ Fails(p) => Content(rows') = before[p]
       /\ Succeeds(p) /\ op[p].kind \notin {"createResolver", "deleteResolver"}
            => Content(rows') = Promised(op[p], p, before[p])]_vars

(* Whatever runs at the same time, a request that fails after it has written *)
(* a part of its list has not yet taken a key away; deleting a resolver is   *)
(* the only one that can fail half-way through its deletions.                *)
FailureLosesNoKey ==
  [][\A p \in Requests : Fails(p) /\ op[p].kind # "deleteResolver"
       => KeysOf(rows) \subseteq KeysOf(rows')]_vars

(* What createDNSResolverInstance says of the save it uses: to add a         *)
(* resolver moves no child elements.  Violated: it deletes the properties    *)
(* of every resolver there is.                                               *)
CreateKeepsProperties ==
  [][\A p \in Requests : Succeeds(p) /\ op[p].kind = "createResolver"
       => Content(rows) \subseteq Content(rows')]_vars
=============================================================================
