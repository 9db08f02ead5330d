------------------------ MODULE ResolverStore_proofs ------------------------
(***************************************************************************)
(* Theorems about the administration of resolvers, for any number of       *)
(* requests, names and property keys.                                      *)
(***************************************************************************)
EXTENDS ResolverStore, FiniteSetTheorems, TLAPS

-----------------------------------------------------------------------------
(* The inductive invariant.  A request may write a list long after it read *)
(* it.  No row takes a key away from another because identities are not    *)
(* used twice and a row never changes its key: an item of an old list that *)
(* still has a row has the key of that row.                                *)

Table(t, next) ==
  /\ IsFiniteSet(DOMAIN t)
  /\ \A i \in DOMAIN t : i < next

KnownIn(t, table, next) ==
  /\ IsFiniteSet(DOMAIN t)
  /\ \A i \in DOMAIN t \ {NoID} :
       i < next /\ (i \in DOMAIN table => table[i].key = t[i].key)

Known(t) == KnownIn(t, rows, nextRow)

KnownInv ==
  /\ TypeOK
  /\ \A p \in Requests : pc[p] = "find" => op[p].kind # "createResolver"
  /\ Table(rows, nextRow)
  /\ \A p \in Requests : Known(seen[p]) /\ Known(info[p])
  /\ KeysAreUnique

\* A function into rows, and one whose ids may be used as such.
IsList(t) == DOMAIN t \in SUBSET Nat /\ t \in [DOMAIN t -> Row]

-----------------------------------------------------------------------------
(* Saving a list.                                                          *)

LEMMA BeforeIsTotal ==
  ASSUME NEW i \in Nat, NEW j \in Nat, i # j
  PROVE  ComesBefore(i, j) \/ ComesBefore(j, i)
BY DEF ComesBefore, NoID

LEMMA BeforeIsOrder ==
  /\ \A i \in Nat : ~ComesBefore(i, i)
  /\ \A i, j, k \in Nat : ComesBefore(i, j) /\ ComesBefore(j, k) => ComesBefore(i, k)
BY DEF ComesBefore, NoID

\* The id a row is inserted with is a new one, of those the step counts.
LEMMA NewIDIsNew ==
  ASSUME TypeOK, NEW list, IsList(list), IsFiniteSet(DOMAIN list),
         NEW i \in Inserted(list)
  PROVE  /\ Cardinality(Inserted(list)) \in Nat
         /\ NewID(list, i) \in Nat
         /\ nextRow <= NewID(list, i)
         /\ NewID(list, i) < nextRow + Cardinality(Inserted(list))
<1> DEFINE S == Inserted(list)
           E == {j \in S : ComesBefore(j, i)}
<1>1. IsFiniteSet(S) /\ S \subseteq DOMAIN list
  BY FS_Subset DEF Inserted, Saved
<1>2. S \subseteq Nat
  BY <1>1 DEF IsList
<1>3. IsFiniteSet(E) /\ Cardinality(E) <= Cardinality(S) /\ (Cardinality(E) = Cardinality(S) => E = S)
  BY <1>1, FS_Subset
<1>4. Cardinality(E) \in Nat /\ Cardinality(S) \in Nat
  BY <1>1, <1>3, FS_CardinalityType
<1>5. i \in S /\ i \notin E
  BY <1>2, BeforeIsOrder
<1>6. Cardinality(E) # Cardinality(S)
  BY <1>3, <1>5
<1>7. NewID(list, i) = nextRow + Cardinality(E)
  BY DEF NewID
<1>8. nextRow \in Nat
  BY DEF TypeOK
<1> HIDE DEF S, E
<1>9. Cardinality(E) < Cardinality(S)
  BY <1>3, <1>4, <1>6
<1>10. Cardinality(S) \in Nat /\ S = Inserted(list)
  BY <1>4 DEF S
<1> QED
  BY <1>4, <1>7, <1>8, <1>9, <1>10

\* Two rows are not inserted with the same id.
LEMMA NewIDIsUnique ==
  ASSUME TypeOK, NEW list, IsList(list), IsFiniteSet(DOMAIN list),
         NEW i \in Inserted(list), NEW j \in Inserted(list), ComesBefore(i, j)
  PROVE  NewID(list, i) # NewID(list, j)
<1> DEFINE S == Inserted(list)
           E(k) == {h \in S : ComesBefore(h, k)}
<1>1. IsFiniteSet(S) /\ S \subseteq Nat
  BY FS_Subset DEF Inserted, Saved, IsList
<1>2. E(i) \subseteq E(j)
  BY <1>1, BeforeIsOrder
<1>3. i \in E(j) /\ i \notin E(i)
  BY <1>1, BeforeIsOrder
<1>4. IsFiniteSet(E(j)) /\ IsFiniteSet(E(i))
  BY <1>1, FS_Subset
<1>5. Cardinality(E(i)) # Cardinality(E(j))
  BY <1>2, <1>3, <1>4, FS_Subset
<1>6. Cardinality(E(i)) \in Nat /\ Cardinality(E(j)) \in Nat
  BY <1>4, FS_CardinalityType
<1>7. nextRow \in Nat
  BY DEF TypeOK
<1>8. /\ NewID(list, i) = nextRow + Cardinality(E(i))
      /\ NewID(list, j) = nextRow + Cardinality(E(j))
  BY DEF NewID
<1> HIDE DEF E
<1> QED
  BY <1>5, <1>6, <1>7, <1>8

\* Each new row is of one item of the list.
Source(list, x) == CHOOSE i \in Inserted(list) : NewID(list, i) = x

LEMMA SourceIsInserted ==
  ASSUME TypeOK, NEW list, IsList(list), IsFiniteSet(DOMAIN list),
         NEW i \in Inserted(list)
  PROVE  Source(list, NewID(list, i)) = i
<1> DEFINE s == Source(list, NewID(list, i))
<1>1. s \in Inserted(list) /\ NewID(list, s) = NewID(list, i)
  BY DEF Source
<1>2. Inserted(list) \subseteq Nat
  BY DEF Inserted, Saved, IsList
<1>3. ~ComesBefore(s, i) /\ ~ComesBefore(i, s)
  BY <1>1, NewIDIsUnique
<1> QED
  BY <1>1, <1>2, <1>3, BeforeIsTotal

\* The rows after saving: those there were, with their keys, and the new ones.
LEMMA SavedRows ==
  ASSUME TypeOK, Table(rows, nextRow), NEW list, IsList(list), Known(list)
  PROVE  /\ IsFiniteSet(DOMAIN AfterSaving(list))
         /\ DOMAIN AfterSaving(list) \in SUBSET (Nat \ {0})
         /\ AfterSaving(list) \in [DOMAIN AfterSaving(list) -> Row]
         /\ Cardinality(Inserted(list)) \in Nat
         /\ \A x \in DOMAIN rows : /\ x \in DOMAIN AfterSaving(list)
                                   /\ AfterSaving(list)[x].key = rows[x].key
         /\ \A x \in DOMAIN AfterSaving(list) :
              /\ x < nextRow + Cardinality(Inserted(list))
              /\ ~HasRow(x) => /\ nextRow <= x
                               /\ Source(list, x) \in Inserted(list)
                               /\ x = NewID(list, Source(list, x))
                               /\ AfterSaving(list)[x] = list[Source(list, x)]
<1> DEFINE S == Inserted(list)
           new == {NewID(list, i) : i \in S}
           T == AfterSaving(list)
<1>1. /\ IsFiniteSet(S) /\ S \subseteq DOMAIN list
      /\ Cardinality(S) \in Nat
  BY FS_Subset, FS_CardinalityType DEF Inserted, Saved, Known, KnownIn
<1>2. IsFiniteSet(new)
  <2> DEFINE f == [i \in S |-> NewID(list, i)]
  <2>1. f \in Surjection(S, new)
    BY DEF Surjection
  <2> QED
    BY <1>1, <2>1, FS_Surjection
<1>3. /\ DOMAIN T = DOMAIN rows \cup new
      /\ \A x \in DOMAIN T :
           T[x] = IF HasRow(x) THEN IF x \in Saved(list) THEN list[x] ELSE rows[x]
                  ELSE list[Source(list, x)]
  BY DEF AfterSaving, Source
<1>4. IsFiniteSet(DOMAIN T)
  BY <1>2, <1>3, FS_Union DEF Table
<1>5. nextRow \in Nat \ {0} /\ DOMAIN rows \in SUBSET (Nat \ {0}) /\ rows \in [DOMAIN rows -> Row]
  BY DEF TypeOK
<1>6. \A i \in S : NewID(list, i) \in Nat /\ nextRow <= NewID(list, i)
                   /\ NewID(list, i) < nextRow + Cardinality(S)
  BY NewIDIsNew DEF Known, KnownIn
<1>7. DOMAIN T \in SUBSET (Nat \ {0})
  BY <1>3, <1>5, <1>6
<1>8. ASSUME NEW x \in DOMAIN T, ~HasRow(x)
      PROVE  Source(list, x) \in S /\ x = NewID(list, Source(list, x))
  BY <1>3, <1>8 DEF Source, HasRow
<1>9. Saved(list) \subseteq DOMAIN list
  BY DEF Saved
<1>10. T \in [DOMAIN T -> Row]
  <2>1. T = [x \in DOMAIN T |-> T[x]]
    BY DEF AfterSaving
  <2>2. ASSUME NEW x \in DOMAIN T PROVE T[x] \in Row
    BY <1>1, <1>3, <1>5, <1>8, <1>9 DEF HasRow, IsList
  <2> HIDE DEF T
  <2> QED
    BY <2>1, <2>2
<1>11. ASSUME NEW x \in DOMAIN rows PROVE T[x].key = rows[x].key
  <2>1. x # NoID
    BY <1>5 DEF NoID
  <2>2. x \in Saved(list) => rows[x].key = list[x].key
    BY <2>1, <1>9 DEF Known, KnownIn, HasRow
  <2> QED
    BY <1>3, <2>2 DEF HasRow
<1>12. ASSUME NEW x \in DOMAIN T PROVE x < nextRow + Cardinality(S)
  <2>1. CASE x \in DOMAIN rows
    BY <2>1, <1>1, <1>5 DEF Table
  <2>2. CASE x \in new
    BY <2>2, <1>6
  <2> QED
    BY <1>3, <2>1, <2>2
<1>13. ASSUME NEW x \in DOMAIN T, ~HasRow(x) PROVE nextRow <= x /\ T[x] = list[Source(list, x)]
  BY <1>3, <1>6, <1>8, <1>13
<1>14. \A x \in DOMAIN rows : x \in DOMAIN T
  BY <1>3
<1> QED
  BY <1>1, <1>4, <1>7, <1>8, <1>10, <1>11, <1>12, <1>13, <1>14

\* Saving a list, however old, gives no key to two rows.
LEMMA SavingKeepsKeysUnique ==
  ASSUME TypeOK, Table(rows, nextRow), KeysAreUnique,
         NEW list, IsList(list), Known(list),
         NEW x \in DOMAIN AfterSaving(list), NEW y \in DOMAIN AfterSaving(list),
         AfterSaving(list)[x].key = AfterSaving(list)[y].key
  PROVE  x = y
<1> DEFINE T == AfterSaving(list)
<1>0. /\ Inserted(list) \subseteq Saved(list)
      /\ Saved(list) \subseteq DOMAIN list
      /\ \A i \in Saved(list) : ~KeyIsTaken(list, i)
      /\ \A i \in Inserted(list) : ~HasRow(i)
  BY DEF Inserted, Saved
<1>1. CASE HasRow(x) /\ HasRow(y)
  BY <1>1, SavedRows DEF HasRow, KeysAreUnique
<1>2. ASSUME NEW r \in DOMAIN T, NEW n \in DOMAIN T, HasRow(r), ~HasRow(n)
      PROVE  T[r].key # T[n].key
  <2>1. T[r].key = rows[r].key
    BY <1>2, SavedRows DEF HasRow
  <2>2. PICK i \in Inserted(list) : T[n] = list[i]
    BY <1>2, SavedRows
  <2>3. r # i
    BY <1>0, <1>2
  <2>4. rows[r].key # list[i].key
    BY <1>0, <1>2, <2>3 DEF KeyIsTaken, HasRow
  <2> QED
    BY <2>1, <2>2, <2>4
<1>3. CASE ~HasRow(x) /\ ~HasRow(y)
  <2> DEFINE i == Source(list, x)
             j == Source(list, y)
  <2>1. /\ i \in Inserted(list) /\ x = NewID(list, i) /\ T[x] = list[i]
        /\ j \in Inserted(list) /\ y = NewID(list, j) /\ T[y] = list[j]
    BY <1>3, SavedRows
  <2> HIDE DEF i, j
  <2>2. ~ComesBefore(i, j) /\ ~ComesBefore(j, i)
    BY <1>0, <2>1 DEF KeyIsTaken
  <2>3. i \in Nat /\ j \in Nat
    BY <1>0, <2>1 DEF IsList
  <2>4. i = j
    BY <2>2, <2>3, BeforeIsTotal
  <2> QED
    BY <2>1, <2>4
<1> QED
  BY <1>1, <1>2, <1>3

-----------------------------------------------------------------------------
(* What a step may make of the table: rows go, rows come with new ids, a   *)
(* row that stays keeps its key, and keys remain unique.                   *)

Evolved(table, next) ==
  /\ DOMAIN table \in SUBSET (Nat \ {0}) /\ table \in [DOMAIN table -> Row]
  /\ next \in Nat \ {0} /\ nextRow <= next
  /\ Table(table, next)
  /\ \A x \in DOMAIN table :
       IF HasRow(x) THEN table[x].key = rows[x].key ELSE nextRow <= x
  /\ \A x, y \in DOMAIN table : table[x].key = table[y].key => x = y

LEMMA TheSameTable == KnownInv => Evolved(rows, nextRow)
BY DEF KnownInv, Evolved, TypeOK, KeysAreUnique, HasRow

\* Taking rows away.
LEMMA PartOfTable ==
  ASSUME NEW table, NEW next, Evolved(table, next), NEW S \in SUBSET (DOMAIN table)
  PROVE  Evolved([x \in S |-> table[x]], next)
<1> DEFINE part == [x \in S |-> table[x]]
<1>1. DOMAIN part = S /\ \A x \in S : part[x] = table[x]
  OBVIOUS
<1>2. IsFiniteSet(S)
  BY FS_Subset DEF Evolved, Table
<1>3. part \in [S -> Row]
  BY DEF Evolved
<1> HIDE DEF part
<1> QED
  BY <1>1, <1>2, <1>3 DEF Evolved, Table

LEMMA SavedTable ==
  ASSUME KnownInv, NEW list, IsList(list), Known(list)
  PROVE  Evolved(AfterSaving(list), nextRow + Cardinality(Inserted(list)))
<1> DEFINE T == AfterSaving(list)
           n == Cardinality(Inserted(list))
<1>1. TypeOK /\ Table(rows, nextRow) /\ KeysAreUnique
  BY DEF KnownInv
<1>2. n \in Nat /\ nextRow \in Nat \ {0}
  BY <1>1, SavedRows DEF TypeOK
<1>3. \A x, y \in DOMAIN T : T[x].key = T[y].key => x = y
  BY <1>1, SavingKeepsKeysUnique
<1>4. \A x \in DOMAIN T : IF HasRow(x) THEN T[x].key = rows[x].key ELSE nextRow <= x
  BY <1>1, SavedRows DEF HasRow
<1>5. /\ DOMAIN T \in SUBSET (Nat \ {0}) /\ T \in [DOMAIN T -> Row]
      /\ IsFiniteSet(DOMAIN T)
      /\ \A x \in DOMAIN T : x < nextRow + n
  BY <1>1, SavedRows
<1>6. nextRow + n \in Nat \ {0} /\ nextRow <= nextRow + n
  BY <1>2
<1> HIDE DEF T, n
<1>7. Evolved(T, nextRow + n)
  BY <1>3, <1>4, <1>5, <1>6 DEF Evolved, Table
<1> QED
  BY <1>7 DEF T, n

LEMMA RowOfOwner ==
  ASSUME NEW r \in Row, NEW o \in Nat
  PROVE  [r EXCEPT !.owner = o] \in Row /\ [r EXCEPT !.owner = o].key = r.key
BY DEF Row

LEMMA RowOfValue ==
  ASSUME NEW r \in Row, NEW v \in Values
  PROVE  [r EXCEPT !.value = v] \in Row /\ [r EXCEPT !.value = v].key = r.key
BY DEF Row

\* The lists a request writes.
LEMMA ListsAreKnown ==
  ASSUME KnownInv, NEW p \in Requests
  PROVE  /\ IsList(info[p]) /\ Known(info[p])
         /\ IsList(Owned(p)) /\ Known(Owned(p))
         /\ KeysOf(Owned(p)) = KeysOf(info[p])
<1>1. IsList(info[p]) /\ Known(info[p]) /\ target[p] \in Nat
  BY DEF KnownInv, TypeOK, IsList
<1>2. /\ DOMAIN Owned(p) = DOMAIN info[p]
      /\ \A i \in DOMAIN info[p] : Owned(p)[i] = [info[p][i] EXCEPT !.owner = target[p]]
  BY DEF Owned
<1>3. \A i \in DOMAIN info[p] : Owned(p)[i] \in Row /\ Owned(p)[i].key = info[p][i].key
  <2> TAKE i \in DOMAIN info[p]
  <2>1. info[p][i] \in Row
    BY <1>1 DEF IsList
  <2>2. /\ [info[p][i] EXCEPT !.owner = target[p]] \in Row
        /\ [info[p][i] EXCEPT !.owner = target[p]].key = info[p][i].key
    BY <1>1, <2>1, RowOfOwner
  <2> QED
    BY <1>2, <2>2
<1>4. Owned(p) = [i \in DOMAIN Owned(p) |-> Owned(p)[i]]
  BY DEF Owned
<1>5. IsList(Owned(p))
  BY <1>1, <1>2, <1>3, <1>4 DEF IsList
<1>6. Known(Owned(p))
  BY <1>1, <1>2, <1>3 DEF Known, KnownIn
<1> QED
  BY <1>1, <1>2, <1>3, <1>5, <1>6 DEF KeysOf

LEMMA NextEvolves == KnownInv /\ Next => Evolved(rows', nextRow')
<1> SUFFICES ASSUME KnownInv, NEW p \in Requests,
                    Handle(p) \/ \E o \in Ops : Start(p, o)
             PROVE  Evolved(rows', nextRow')
  BY DEF Next
<1>0. Evolved(rows, nextRow)
  BY TheSameTable
<1>1. CASE UNCHANGED <<rows, nextRow>>
  BY <1>0, <1>1
<1>2. CASE CreateResolver(p)
  <2>1. CASE rows' = <<>> /\ UNCHANGED nextRow
    <3>1. rows' = [x \in {} |-> rows[x]]
      BY <2>1
    <3> QED
      BY <1>0, <2>1, <3>1, PartOfTable
  <2> QED
    BY <1>1, <1>2, <2>1 DEF CreateResolver, store
<1>3. CASE Save(p)
  <2> DEFINE list  == Owned(p)
             table == AfterSaving(list)
             next  == nextRow + Cardinality(Inserted(list))
             left  == WithKeys(table, KeysOf(list))
  <2>1. Evolved(table, next)
    BY ListsAreKnown, SavedTable
  <2>2. Evolved(left, next)
    BY <2>1, PartOfTable DEF WithKeys
  <2>3. \/ UNCHANGED <<rows, nextRow>>
        \/ rows' \in {left, table} /\ nextRow' = next
    BY <1>3 DEF Save, store
  <2> HIDE DEF left, table, next
  <2> QED
    BY <1>1, <2>1, <2>2, <2>3
<1>4. CASE DeleteResolver(p)
  <2>1. PICK S \in SUBSET (DOMAIN rows) : rows' = [i \in S |-> rows[i]]
    BY <1>4 DEF DeleteResolver
  <2>2. nextRow' = nextRow
    BY <1>4 DEF DeleteResolver
  <2> QED
    BY <1>0, <2>1, <2>2, PartOfTable
<1>5. CASE WriteProperty(p)
  <2>1. rows' = AfterSaving(info[p]) /\ nextRow' = nextRow + Cardinality(Inserted(info[p]))
    BY <1>5 DEF WriteProperty
  <2> QED
    BY <2>1, ListsAreKnown, SavedTable
<1>6. CASE EraseProperty(p)
  <2>1. PICK S \in SUBSET (DOMAIN rows) : rows' = [i \in S |-> rows[i]]
    BY <1>6 DEF EraseProperty
  <2>2. nextRow' = nextRow
    BY <1>6 DEF EraseProperty
  <2> QED
    BY <1>0, <2>1, <2>2, PartOfTable
<1>7. CASE Find(p) \/ Load(p) \/ ReadProperty(p) \/ VerifyProperty(p)
  BY <1>1, <1>7 DEF Find, Load, ReadProperty, VerifyProperty, store
<1>8. CASE \E o \in Ops : Start(p, o)
  BY <1>1, <1>8 DEF Start, store
<1> QED
  BY <1>2, <1>3, <1>4, <1>5, <1>6, <1>7, <1>8 DEF Handle

-----------------------------------------------------------------------------
(* The invariant.                                                          *)

\* What is known of an old list remains true of it.
LEMMA KnownStays ==
  ASSUME NEW t, DOMAIN t \subseteq Nat, KnownIn(t, rows, nextRow),
         NEW table, NEW next, Evolved(table, next), nextRow \in Nat
  PROVE  KnownIn(t, table, next)
<1> SUFFICES ASSUME NEW i \in DOMAIN t \ {NoID}
             PROVE  i < next /\ (i \in DOMAIN table => table[i].key = t[i].key)
  BY DEF KnownIn
<1>1. i < nextRow /\ (HasRow(i) => rows[i].key = t[i].key)
  BY DEF KnownIn, HasRow
<1>2. nextRow <= next /\ next \in Nat /\ i \in Nat
  BY DEF Evolved
<1>3. i \in DOMAIN table => HasRow(i) /\ table[i].key = rows[i].key
  BY <1>1, <1>2 DEF Evolved
<1> QED
  BY <1>1, <1>2, <1>3

\* A query returns a list that is known, with the keys in the table.
LEMMA QueryIsKnown ==
  ASSUME KnownInv, NEW p \in Requests
  PROVE  /\ IsList(findByDNSResolverInstanceID(p))
         /\ KnownIn(findByDNSResolverInstanceID(p), rows, nextRow)
         /\ DOMAIN findByDNSResolverInstanceID(p) = DOMAIN rows
<1> DEFINE t == findByDNSResolverInstanceID(p)
<1>1. /\ DOMAIN t = DOMAIN rows
      /\ \A i \in DOMAIN rows : t[i] = IF i \in DOMAIN seen[p] THEN seen[p][i] ELSE rows[i]
  BY DEF findByDNSResolverInstanceID
<1>2. /\ DOMAIN rows \in SUBSET (Nat \ {0}) /\ rows \in [DOMAIN rows -> Row]
      /\ seen[p] \in [DOMAIN seen[p] -> Row]
      /\ Table(rows, nextRow) /\ KnownIn(seen[p], rows, nextRow)
  BY DEF KnownInv, TypeOK, Known
<1>3. t = [i \in DOMAIN t |-> t[i]]
  BY DEF findByDNSResolverInstanceID
<1>4. \A i \in DOMAIN rows : t[i] \in Row
  BY <1>1, <1>2
<1>5. \A i \in DOMAIN rows : t[i].key = rows[i].key
  BY <1>1, <1>2 DEF KnownIn, NoID
<1> HIDE DEF t
<1>6. IsList(t)
  BY <1>1, <1>2, <1>3, <1>4 DEF IsList
<1>7. KnownIn(t, rows, nextRow)
  BY <1>1, <1>2, <1>5 DEF KnownIn, Table
<1> QED
  BY <1>1, <1>6, <1>7 DEF t

\* A part of a list is a list, and known.
LEMMA PartOfList ==
  ASSUME NEW t, IsList(t), KnownIn(t, rows, nextRow), NEW S \in SUBSET (DOMAIN t)
  PROVE  IsList([i \in S |-> t[i]]) /\ KnownIn([i \in S |-> t[i]], rows, nextRow)
<1>1. IsFiniteSet(S)
  BY FS_Subset DEF KnownIn
<1> QED
  BY <1>1 DEF IsList, KnownIn

\* A list is still known when an item without an id is added to it.
LEMMA ListWithNew ==
  ASSUME NEW t, IsList(t), KnownIn(t, rows, nextRow), NEW r \in Row
  PROVE  LET u == [i \in DOMAIN t \cup {NoID} |-> IF i # NoID THEN t[i] ELSE r]
         IN IsList(u) /\ KnownIn(u, rows, nextRow)
<1> DEFINE u == [i \in DOMAIN t \cup {NoID} |-> IF i # NoID THEN t[i] ELSE r]
<1>1. IsFiniteSet(DOMAIN t \cup {NoID})
  BY FS_AddElement DEF KnownIn
<1>2. /\ DOMAIN u = DOMAIN t \cup {NoID}
      /\ \A i \in DOMAIN t \ {NoID} : u[i] = t[i]
      /\ u[NoID] = r
  OBVIOUS
<1>3. \A i \in DOMAIN u : u[i] \in Row
  BY <1>2 DEF IsList
<1>4. u = [i \in DOMAIN u |-> u[i]]
  OBVIOUS
<1>5. NoID \in Nat
  BY DEF NoID
<1> HIDE DEF u
<1>6. IsList(u)
  BY <1>2, <1>3, <1>4, <1>5 DEF IsList
<1>7. KnownIn(u, rows, nextRow)
  BY <1>1, <1>2 DEF KnownIn
<1> QED
  BY <1>6, <1>7 DEF u

\* The local lists after a step of request p: of the others they stay.
LEMMA ListsOf ==
  ASSUME KnownInv, NEW p \in Requests, Handle(p) \/ \E o \in Ops : Start(p, o)
  PROVE  /\ \A q \in Requests \ {p} : seen'[q] = seen[q] /\ info'[q] = info[q]
         /\ IsList(seen'[p]) /\ KnownIn(seen'[p], rows, nextRow)
         /\ IsList(info'[p]) /\ KnownIn(info'[p], rows, nextRow)
<1> DEFINE list == findByDNSResolverInstanceID(p)
<1>1. IsList(list) /\ KnownIn(list, rows, nextRow)
  BY QueryIsKnown
<1>2. /\ IsList(seen[p]) /\ KnownIn(seen[p], rows, nextRow)
      /\ IsList(info[p]) /\ KnownIn(info[p], rows, nextRow)
      /\ target \in [Requests -> Nat] /\ op \in [Requests -> Ops \cup {NoOp}]
      /\ resolver \in [Names -> Nat]
      /\ pc[p] # "idle" => op[p] \in Ops
      /\ DOMAIN seen = Requests /\ DOMAIN info = Requests
  BY DEF KnownInv, TypeOK, Known, IsList
<1> HIDE DEF list
<1>3. CASE UNCHANGED <<seen, info>>
  BY <1>2, <1>3
<1>4. CASE Find(p)
  <2>1. CASE resolver[op[p].name] # NoID
    <3> DEFINE mine == [i \in {i \in DOMAIN list : list[i].key = op[p].key} |-> list[i]]
    <3>1. /\ seen' = [seen EXCEPT ![p] = list]
          /\ info' = [info EXCEPT ![p] =
               IF op[p].kind \in {"updateProperty", "deleteProperty"} THEN mine ELSE list]
      BY <1>4, <2>1 DEF Find, list
    <3>2. IsList(mine) /\ KnownIn(mine, rows, nextRow)
      BY <1>1, PartOfList
    <3> HIDE DEF mine
    <3> QED
      BY <1>1, <1>2, <3>1, <3>2
  <2> QED
    BY <1>3, <1>4, <2>1 DEF Find
<1>5. CASE Load(p)
  <2> DEFINE here == IF op[p].kind = "updateResolver" THEN target[p] ELSE resolver[op[p].name]
             new  == [owner |-> here, key |-> op[p].key, value |-> p]
             more == [i \in DOMAIN list \cup {NoID} |-> IF i # NoID THEN list[i] ELSE new]
  <2>1. \/ UNCHANGED <<seen, info>>
        \/ /\ seen' = [seen EXCEPT ![p] = list]
           /\ info' = [info EXCEPT ![p] = IF op[p].kind = "updateResolver" THEN list ELSE more]
    BY <1>5 DEF Load, list
  <2>2. op[p].name \in Names /\ op[p].key \in Keys
    BY <1>2, <1>5 DEF Load, Ops
  <2>3. here \in Nat
    BY <1>2, <2>2
  <2>4. new \in Row
    BY <2>2, <2>3 DEF Row, Values
  <2> HIDE DEF here, new
  <2>5. IsList(more) /\ KnownIn(more, rows, nextRow)
    BY <1>1, <2>4, ListWithNew
  <2> HIDE DEF more
  <2> QED
    BY <1>1, <1>2, <1>3, <2>1, <2>5
<1>6. CASE ReadProperty(p)
  <2> DEFINE new == [i \in DOMAIN info[p] |-> [info[p][i] EXCEPT !.value = p]]
  <2>1. \/ UNCHANGED <<seen, info>>
        \/ UNCHANGED seen /\ info' = [info EXCEPT ![p] = new]
    BY <1>6 DEF ReadProperty
  <2>2. \A i \in DOMAIN info[p] : info[p][i] \in Row
    BY <1>2 DEF IsList
  <2>3. p \in Values
    BY DEF Values
  <2>4. \A i \in DOMAIN info[p] : new[i] \in Row /\ new[i].key = info[p][i].key
    BY <2>2, <2>3, RowOfValue
  <2>5. DOMAIN new = DOMAIN info[p] /\ new = [i \in DOMAIN new |-> new[i]]
    OBVIOUS
  <2> HIDE DEF new
  <2>6. IsList(new)
    BY <1>2, <2>4, <2>5 DEF IsList
  <2>7. KnownIn(new, rows, nextRow)
    BY <1>2, <2>4, <2>5 DEF KnownIn
  <2> QED
    BY <1>2, <1>3, <2>1, <2>6, <2>7
<1>7. CASE CreateResolver(p) \/ Save(p) \/ DeleteResolver(p) \/ WriteProperty(p)
           \/ VerifyProperty(p) \/ EraseProperty(p)
  BY <1>3, <1>7 DEF CreateResolver, Save, DeleteResolver, WriteProperty, VerifyProperty,
     EraseProperty
<1>8. CASE \E o \in Ops : Start(p, o)
  BY <1>3, <1>8 DEF Start
<1> QED
  BY <1>3, <1>4, <1>5, <1>6, <1>7, <1>8 DEF Handle

LEMMA KnownInit == Init => KnownInv
<1> SUFFICES ASSUME Init PROVE KnownInv
  OBVIOUS
<1>1. PICK there \in SUBSET Names :
        /\ resolver \in [Names -> 0..Cardinality(there)]
        /\ nextResolver = Cardinality(there) + 1
  BY DEF Init
<1>2. Cardinality(there) \in Nat
  BY NamesAssumption, FS_Subset, FS_CardinalityType
<1>3. resolver \in [Names -> Nat] /\ nextResolver \in Nat \ {0}
  BY <1>1, <1>2
<1>4. PICK stored \in SUBSET Keys, owner \in {resolver[n] : n \in Names} :
        /\ nextRow = Cardinality(stored) + 1
        /\ rows \in [1..Cardinality(stored) ->
                       [owner : {owner}, key : stored, value : {Initial}]]
        /\ KeysOf(rows) = stored
  BY DEF Init
<1>5. IsFiniteSet(stored) /\ Cardinality(stored) \in Nat
  BY KeysAssumption, FS_Subset, FS_CardinalityType
<1> DEFINE n == Cardinality(stored)
<1>6. DOMAIN rows = 1..n /\ IsFiniteSet(1..n) /\ Cardinality(1..n) = n
  BY <1>4, <1>5, FS_Interval
<1>7. \A i \in 1..n : rows[i] \in Row /\ rows[i].key \in stored
  BY <1>3, <1>4 DEF Row, Values
<1>8. rows = [i \in DOMAIN rows |-> rows[i]]
  BY <1>4
<1>9. /\ nextRow \in Nat \ {0} /\ DOMAIN rows \in SUBSET (Nat \ {0})
      /\ rows \in [DOMAIN rows -> Row]
  BY <1>4, <1>5, <1>6, <1>7, <1>8
<1>10. Table(rows, nextRow)
  BY <1>4, <1>5, <1>6 DEF Table
<1>11. KeysAreUnique
  <2> DEFINE f == [i \in 1..n |-> rows[i].key]
  <2>1. f \in Surjection(1..n, stored)
    <3>1. f \in [1..n -> stored]
      BY <1>7
    <3>2. ASSUME NEW k \in stored PROVE \E i \in 1..n : f[i] = k
      BY <1>4, <1>6 DEF KeysOf
    <3> QED
      BY <3>1, <3>2 DEF Surjection
  <2>2. f \in Injection(1..n, stored)
    BY <1>6, <2>1, FS_Surjection
  <2>3. \A i, j \in 1..n : f[i] = f[j] => i = j
    BY <2>2 DEF Injection, IsInjective
  <2> QED
    BY <1>6, <2>3 DEF KeysAreUnique
<1>12. /\ pc \in [Requests -> Pcs] /\ op \in [Requests -> Ops \cup {NoOp}]
       /\ \A p \in Requests : pc[p] = "idle"
       /\ target \in [Requests -> Nat] /\ alone \in [Requests -> BOOLEAN]
       /\ before \in [Requests -> SUBSET (Keys \X Values)]
  BY DEF Init, Pcs, NoID
<1>13. /\ DOMAIN seen = Requests /\ DOMAIN info = Requests
       /\ \A p \in Requests : seen[p] = <<>> /\ info[p] = <<>>
  BY DEF Init
<1>14. IsList(<<>>) /\ KnownIn(<<>>, rows, nextRow)
  BY FS_EmptySet DEF IsList, KnownIn
<1> HIDE DEF n
<1>15. TypeOK
  BY <1>3, <1>9, <1>12, <1>13, <1>14 DEF TypeOK, IsList
<1> QED
  BY <1>10, <1>11, <1>12, <1>13, <1>14, <1>15 DEF KnownInv, Known

\* The types of the variables no list or table depends on.
LEMMA NextTypes ==
  ASSUME KnownInv, NEW p \in Requests, Handle(p) \/ \E o \in Ops : Start(p, o)
  PROVE  /\ resolver' \in [Names -> Nat]
         /\ nextResolver' \in Nat \ {0}
         /\ pc' \in [Requests -> Pcs]
         /\ op' \in [Requests -> Ops \cup {NoOp}]
         /\ \A q \in Requests : pc'[q] # "idle" => op'[q] \in Ops
         /\ \A q \in Requests : pc'[q] = "find" => op'[q].kind # "createResolver"
         /\ target' \in [Requests -> Nat]
         /\ DOMAIN seen' = Requests /\ DOMAIN info' = Requests
         /\ alone' \in [Requests -> BOOLEAN]
         /\ before' \in [Requests -> SUBSET (Keys \X Values)]
<1>0. /\ resolver \in [Names -> Nat] /\ nextResolver \in Nat \ {0}
      /\ pc \in [Requests -> Pcs] /\ op \in [Requests -> Ops \cup {NoOp}]
      /\ \A q \in Requests : pc[q] # "idle" => op[q] \in Ops
      /\ \A q \in Requests : pc[q] = "find" => op[q].kind # "createResolver"
      /\ target \in [Requests -> Nat]
      /\ DOMAIN seen = Requests /\ DOMAIN info = Requests
      /\ alone \in [Requests -> BOOLEAN]
      /\ before \in [Requests -> SUBSET (Keys \X Values)]
      /\ rows \in [DOMAIN rows -> Row]
  BY DEF KnownInv, TypeOK
<1>1. CASE \E o \in Ops : Start(p, o)
  <2>1. PICK o \in Ops : Start(p, o)
    BY <1>1
  <2>2. Content(rows) \in SUBSET (Keys \X Values)
    BY <1>0 DEF Content, Row
  <2>3. pc' = [pc EXCEPT ![p] = IF o.kind = "createResolver" THEN "create" ELSE "find"]
    BY <2>1 DEF Start, Goto
  <2>4. op' = [op EXCEPT ![p] = o]
    BY <2>1 DEF Start
  <2>5. /\ pc' \in [Requests -> Pcs] /\ op' \in [Requests -> Ops \cup {NoOp}]
        /\ \A q \in Requests : pc'[q] # "idle" => op'[q] \in Ops
        /\ \A q \in Requests : pc'[q] = "find" => op'[q].kind # "createResolver"
    BY <1>0, <2>3, <2>4 DEF Pcs
  <2>6. alone' \in [Requests -> BOOLEAN]
    BY <1>0, <2>1 DEF Start, Active
  <2>7. before' \in [Requests -> SUBSET (Keys \X Values)]
    BY <1>0, <2>1, <2>2 DEF Start
  <2> QED
    BY <1>0, <2>1, <2>5, <2>6, <2>7 DEF Start, store
<1>2. {"load", "save", "delete", "read", "write", "verify", "erase", "done", "failed"}
        \subseteq Pcs \ {"idle", "find"}
  BY DEF Pcs, Done
<1>3. ASSUME NEW s \in Pcs \ {"idle", "find"}, pc[p] # "idle", pc' = [pc EXCEPT ![p] = s],
             op' = op
      PROVE  /\ pc' \in [Requests -> Pcs]
             /\ op' \in [Requests -> Ops \cup {NoOp}]
             /\ \A q \in Requests : pc'[q] # "idle" => op'[q] \in Ops
             /\ \A q \in Requests : pc'[q] = "find" => op'[q].kind # "createResolver"
  BY <1>0, <1>3
<1>4. CASE Find(p)
  <2>1. op[p] \in Ops /\ pc[p] = "find" /\ op[p].kind # "createResolver"
    BY <1>0, <1>4 DEF Find
  <2>2. op[p].name \in Names /\ op[p].kind \in Kinds
    BY <2>1 DEF Ops
  <2>3. UNCHANGED <<resolver, nextResolver, alone, before>>
        /\ DOMAIN seen' = DOMAIN seen /\ DOMAIN info' = DOMAIN info
    BY <1>0, <1>4 DEF Find, store, history
  <2>4. target' \in [Requests -> Nat]
    BY <1>0, <1>4, <2>2 DEF Find
  <2>5. CASE resolver[op[p].name] = NoID
    <3>1. op' = op /\ pc' = [pc EXCEPT ![p] = "failed"]
      BY <1>4, <2>5 DEF Find, Fail, Goto
    <3> QED
      BY <1>0, <1>2, <1>3, <2>1, <2>3, <2>4, <3>1
  <2>6. CASE resolver[op[p].name] # NoID /\ op[p].kind = "putProperty"
    <3>1. PICK kind \in {"updateProperty", "createProperty"} :
            op' = [op EXCEPT ![p].kind = kind]
      BY <1>4, <2>6 DEF Find, AfterPut
    <3>2. pc' = [pc EXCEPT ![p] = "find"]
      BY <1>4, <2>6 DEF Find, AfterFind, Goto
    <3>3. [op[p] EXCEPT !.kind = kind] \in Ops /\ [op[p] EXCEPT !.kind = kind].kind = kind
      BY <2>1 DEF Ops, Kinds
    <3>4. op' = [op EXCEPT ![p] = [op[p] EXCEPT !.kind = kind]]
      BY <3>1
    <3> DEFINE o == [op[p] EXCEPT !.kind = kind]
    <3>5. o \in Ops /\ o.kind # "createResolver" /\ op' = [op EXCEPT ![p] = o]
      BY <3>3, <3>4
    <3> HIDE DEF o
    <3>6. /\ op' \in [Requests -> Ops \cup {NoOp}]
          /\ \A q \in Requests : pc'[q] # "idle" => op'[q] \in Ops
          /\ \A q \in Requests : pc'[q] = "find" => op'[q].kind # "createResolver"
      BY <1>0, <3>2, <3>5
    <3>7. pc' \in [Requests -> Pcs]
      BY <1>0, <3>2 DEF Pcs
    <3> QED
      BY <1>0, <2>3, <2>4, <3>6, <3>7
  <2>7. CASE resolver[op[p].name] # NoID /\ op[p].kind # "putProperty"
    <3>1. op' = op
      BY <1>4, <2>7 DEF Find
    <3>2. PICK s \in {"load", "delete", "failed", "read", "verify"} : pc' = [pc EXCEPT ![p] = s]
      BY <1>4, <2>1, <2>2, <2>7 DEF Find, AfterFind, Kinds, Goto
    <3> QED
      BY <1>0, <1>2, <1>3, <2>1, <2>3, <2>4, <3>1, <3>2
  <2> QED
    BY <2>5, <2>6, <2>7
<1>5. CASE Load(p)
  <2>1. op[p] \in Ops /\ op[p].name \in Names
    BY <1>0, <1>5 DEF Load, Ops
  <2>2. target' \in [Requests -> Nat]
    BY <1>0, <1>5, <2>1 DEF Load
  <2>3. pc' = [pc EXCEPT ![p] = "failed"] \/ pc' = [pc EXCEPT ![p] = "save"]
    BY <1>5 DEF Load, Fail, Goto
  <2>4. /\ UNCHANGED <<resolver, nextResolver, op, alone, before>> /\ pc[p] # "idle"
        /\ DOMAIN seen' = DOMAIN seen /\ DOMAIN info' = DOMAIN info
    BY <1>0, <1>5 DEF Load, store, history
  <2> QED
    BY <1>0, <1>2, <1>3, <2>2, <2>3, <2>4
<1>6. CASE CreateResolver(p)
  <2>1. op[p] \in Ops /\ op[p].name \in Names
    BY <1>0, <1>6 DEF CreateResolver, Ops
  <2>2. pc' = [pc EXCEPT ![p] = "failed"] \/ pc' = [pc EXCEPT ![p] = "done"]
    BY <1>6 DEF CreateResolver, Fail, Goto
  <2>3. UNCHANGED <<op, target, seen, info, alone, before>> /\ pc[p] # "idle"
    BY <1>6 DEF CreateResolver, history
  <2>4. resolver' \in [Names -> Nat] /\ nextResolver' \in Nat \ {0}
    BY <1>0, <1>6, <2>1 DEF CreateResolver, store
  <2> QED
    BY <1>0, <1>2, <1>3, <2>2, <2>3, <2>4
<1>7. CASE Save(p)
  <2>1. pc' = [pc EXCEPT ![p] = "failed"] \/ pc' = [pc EXCEPT ![p] = "done"]
    BY <1>7 DEF Save, Fail, Goto
  <2>2. /\ UNCHANGED <<resolver, nextResolver, op, target, seen, info, alone, before>>
        /\ pc[p] # "idle"
    BY <1>7 DEF Save, store, history
  <2> QED
    BY <1>0, <1>2, <1>3, <2>1, <2>2
<1>8. CASE DeleteResolver(p)
  <2>1. pc' = [pc EXCEPT ![p] = "failed"] \/ pc' = [pc EXCEPT ![p] = "done"]
    BY <1>8 DEF DeleteResolver, Fail, Goto
  <2>2. UNCHANGED <<nextResolver, op, target, seen, info, alone, before>> /\ pc[p] # "idle"
    BY <1>8 DEF DeleteResolver, history
  <2>3. resolver' \in [Names -> Nat]
    BY <1>0, <1>8 DEF DeleteResolver, NoID
  <2> QED
    BY <1>0, <1>2, <1>3, <2>1, <2>2, <2>3
<1>9. CASE ReadProperty(p)
  <2>1. pc' = [pc EXCEPT ![p] = "failed"] \/ pc' = [pc EXCEPT ![p] = "write"]
    BY <1>9 DEF ReadProperty, Fail, Goto
  <2>2. /\ UNCHANGED <<resolver, nextResolver, op, target, seen, alone, before>>
        /\ pc[p] # "idle" /\ DOMAIN info' = DOMAIN info
    BY <1>0, <1>9 DEF ReadProperty, store, history
  <2> QED
    BY <1>0, <1>2, <1>3, <2>1, <2>2
<1>10. CASE WriteProperty(p)
  <2>1. pc' = [pc EXCEPT ![p] = "failed"] \/ pc' = [pc EXCEPT ![p] = "done"]
    BY <1>10 DEF WriteProperty, Fail, Goto
  <2>2. /\ UNCHANGED <<resolver, nextResolver, op, target, seen, info, alone, before>>
        /\ pc[p] # "idle"
    BY <1>10 DEF WriteProperty, history
  <2> QED
    BY <1>0, <1>2, <1>3, <2>1, <2>2
<1>11. CASE VerifyProperty(p)
  <2>1. pc' = [pc EXCEPT ![p] = "failed"] \/ pc' = [pc EXCEPT ![p] = "erase"]
    BY <1>11 DEF VerifyProperty, Fail, Goto
  <2>2. /\ UNCHANGED <<resolver, nextResolver, op, target, seen, info, alone, before>>
        /\ pc[p] # "idle"
    BY <1>11 DEF VerifyProperty, store, history
  <2> QED
    BY <1>0, <1>2, <1>3, <2>1, <2>2
<1>12. CASE EraseProperty(p)
  <2>1. pc' = [pc EXCEPT ![p] = "failed"] \/ pc' = [pc EXCEPT ![p] = "done"]
    BY <1>12 DEF EraseProperty, Fail, Goto
  <2>2. /\ UNCHANGED <<resolver, nextResolver, op, target, seen, info, alone, before>>
        /\ pc[p] # "idle"
    BY <1>12 DEF EraseProperty, history
  <2> QED
    BY <1>0, <1>2, <1>3, <2>1, <2>2
<1> QED
  BY <1>1, <1>4, <1>5, <1>6, <1>7, <1>8, <1>9, <1>10, <1>11, <1>12 DEF Handle

LEMMA KnownNext == KnownInv /\ [Next]_vars => KnownInv'
<1>1. CASE UNCHANGED vars
  BY <1>1 DEF vars, KnownInv, TypeOK, Table, Known, KnownIn, HasRow, KeysAreUnique, KeysOf
<1>2. ASSUME KnownInv, NEW p \in Requests, Handle(p) \/ \E o \in Ops : Start(p, o)
      PROVE  KnownInv'
  <2>1. Evolved(rows', nextRow')
    BY <1>2, NextEvolves DEF Next
  <2>2. nextRow \in Nat /\ \A q \in Requests : /\ IsList(seen[q]) /\ KnownIn(seen[q], rows, nextRow)
                                               /\ IsList(info[q]) /\ KnownIn(info[q], rows, nextRow)
    BY <1>2 DEF KnownInv, TypeOK, Known, IsList
  <2>3. \A q \in Requests : /\ IsList(seen'[q]) /\ KnownIn(seen'[q], rows, nextRow)
                            /\ IsList(info'[q]) /\ KnownIn(info'[q], rows, nextRow)
    BY <1>2, <2>2, ListsOf
  <2>4. \A q \in Requests : KnownIn(seen'[q], rows', nextRow') /\ KnownIn(info'[q], rows', nextRow')
    BY <2>1, <2>2, <2>3, KnownStays DEF IsList
  <2>5. \A q \in Requests : Known(seen[q])' /\ Known(info[q])'
    BY <2>4 DEF Known, KnownIn
  <2>6. Table(rows, nextRow)' /\ KeysAreUnique'
    BY <2>1 DEF Evolved, Table, KeysAreUnique
  <2>7. TypeOK'
    BY <1>2, <2>1, <2>3, NextTypes DEF TypeOK, Evolved, IsList
  <2>8. \A q \in Requests : pc'[q] = "find" => op'[q].kind # "createResolver"
    BY <1>2, NextTypes
  <2> QED
    BY <2>5, <2>6, <2>7, <2>8 DEF KnownInv
<1> QED
  BY <1>1, <1>2 DEF Next

\* Every reachable state has the declared types, for any number of requests of
\* the Web API and whatever their transactions do in between of each other.
THEOREM TypeCorrect == Spec => []TypeOK
<1>1. KnownInv => TypeOK
  BY DEF KnownInv
<1> QED
  BY <1>1, KnownInit, KnownNext, PTL DEF Spec

\* No two rows have one key, however old the lists are that requests write.
THEOREM UniqueKeys == Spec => []KeysAreUnique
<1>1. KnownInv => KeysAreUnique
  BY DEF KnownInv
<1> QED
  BY <1>1, KnownInit, KnownNext, PTL DEF Spec

-----------------------------------------------------------------------------
(* What a request that fails leaves behind.                                *)

\* When every item is saved, each key of the list has one row: the comparison
\* of sizes that follows the deletions never fails.
LEMMA FullSaveMatches ==
  ASSUME KnownInv, NEW list, IsList(list), Known(list), Saved(list) = DOMAIN list
  PROVE  Cardinality(DOMAIN WithKeys(AfterSaving(list), KeysOf(list)))
           = Cardinality(KeysOf(list))
<1> DEFINE T    == AfterSaving(list)
           left == WithKeys(T, KeysOf(list))
           f    == [x \in DOMAIN left |-> left[x].key]
<1>1. TypeOK /\ Table(rows, nextRow) /\ KeysAreUnique /\ IsFiniteSet(DOMAIN list)
      /\ nextRow \in Nat /\ DOMAIN rows \subseteq Nat \ {0}
  BY DEF KnownInv, Known, KnownIn, TypeOK
<1>2. /\ DOMAIN left = {x \in DOMAIN T : T[x].key \in KeysOf(list)}
      /\ \A x \in DOMAIN left : left[x] = T[x]
  BY DEF WithKeys
<1>3. IsFiniteSet(DOMAIN T)
  BY <1>1, SavedRows
<1>4. IsFiniteSet(DOMAIN left)
  BY <1>2, <1>3, FS_Subset
<1>5. ASSUME NEW k \in KeysOf(list)
      PROVE  \E x \in DOMAIN left : f[x] = k
  <2>1. PICK i \in DOMAIN list : list[i].key = k
    BY DEF KeysOf
  <2>2. CASE HasRow(i)
    <3>1. i # NoID /\ rows[i].key = k
      BY <1>1, <2>1, <2>2 DEF Known, KnownIn, HasRow, NoID
    <3>2. i \in DOMAIN T /\ T[i].key = k
      BY <1>1, <2>2, <3>1, SavedRows DEF HasRow
    <3> HIDE DEF T
    <3> QED
      BY <1>2, <3>2
  <2>3. CASE ~HasRow(i)
    <3> DEFINE x == NewID(list, i)
    <3>1. i \in Inserted(list)
      BY <2>3 DEF Inserted
    <3>2. x \in DOMAIN T
      BY <3>1 DEF AfterSaving
    <3>3. nextRow <= x /\ x \in Nat
      BY <1>1, <3>1, NewIDIsNew
    <3>4. ~HasRow(x)
      BY <1>1, <3>3 DEF Table, HasRow
    <3>5. Source(list, x) = i
      BY <1>1, <3>1, SourceIsInserted
    <3>6. T[x] = list[i]
      BY <1>1, <3>2, <3>4, <3>5, SavedRows
    <3> HIDE DEF T, x
    <3> QED
      BY <1>2, <2>1, <3>2, <3>6
  <2> QED
    BY <2>2, <2>3
<1>6. f \in Surjection(DOMAIN left, KeysOf(list))
  BY <1>2, <1>5 DEF Surjection
<1>7. \A x, y \in DOMAIN left : f[x] = f[y] => x = y
  BY <1>1, <1>2, SavingKeepsKeysUnique
<1>8. f \in Injection(DOMAIN left, KeysOf(list))
  BY <1>6, <1>7 DEF Injection, IsInjective, Surjection
<1> HIDE DEF f
<1> QED
  BY <1>4, <1>6, <1>8, FS_Surjection

LEMMA SavedKeys ==
  ASSUME KnownInv, NEW list, IsList(list), Known(list)
  PROVE  KeysOf(rows) \subseteq KeysOf(AfterSaving(list))
BY SavedRows DEF KnownInv, KeysOf

\* Where the kind of the request and what it found are known.
FailInv ==
  /\ KnownInv
  /\ \A p \in Requests :
       /\ pc[p] = "delete" => op[p].kind = "deleteResolver"
       /\ pc[p] \in {"verify", "erase"} => \A i, j \in DOMAIN info[p] : i = j

\* A step of one request leaves the others where they are.
LEMMA OthersStay ==
  ASSUME pc \in [Requests -> Pcs], NEW p \in Requests,
         Handle(p) \/ \E o \in Ops : Start(p, o),
         NEW q \in Requests \ {p}
  PROVE  pc'[q] = pc[q]
<1> USE DEF Goto, Fail
<1>1. CASE CreateResolver(p)
  BY <1>1 DEF CreateResolver
<1>2. CASE Find(p)
  BY <1>2 DEF Find
<1>3. CASE Load(p)
  BY <1>3 DEF Load
<1>4. CASE Save(p)
  BY <1>4 DEF Save
<1>5. CASE DeleteResolver(p)
  BY <1>5 DEF DeleteResolver
<1>6. CASE ReadProperty(p)
  BY <1>6 DEF ReadProperty
<1>7. CASE WriteProperty(p)
  BY <1>7 DEF WriteProperty
<1>8. CASE VerifyProperty(p)
  BY <1>8 DEF VerifyProperty
<1>9. CASE EraseProperty(p)
  BY <1>9 DEF EraseProperty
<1>10. CASE \E o \in Ops : Start(p, o)
  BY <1>10 DEF Start
<1> QED
  BY <1>1, <1>2, <1>3, <1>4, <1>5, <1>6, <1>7, <1>8, <1>9, <1>10 DEF Handle

\* ... and so do their requests.
LEMMA OthersKeepOp ==
  ASSUME op \in [Requests -> Ops \cup {NoOp}], NEW p \in Requests,
         Handle(p) \/ \E o \in Ops : Start(p, o),
         NEW q \in Requests \ {p}
  PROVE  op'[q] = op[q]
<1>1. CASE Find(p)
  BY <1>1 DEF Find
<1>2. CASE \E o \in Ops : Start(p, o)
  BY <1>2 DEF Start
<1>3. CASE \/ Load(p) \/ CreateResolver(p) \/ Save(p) \/ DeleteResolver(p) \/ ReadProperty(p)
           \/ WriteProperty(p) \/ VerifyProperty(p) \/ EraseProperty(p)
  BY <1>3 DEF Load, CreateResolver, Save, DeleteResolver, ReadProperty, WriteProperty,
     VerifyProperty, EraseProperty
<1> QED
  BY <1>1, <1>2, <1>3 DEF Handle

LEMMA FailNext == FailInv /\ [Next]_vars => FailInv'
<1>1. CASE UNCHANGED vars
  <2>1. ASSUME FailInv PROVE KnownInv'
    BY <1>1, <2>1, KnownNext DEF FailInv
  <2> QED
    BY <1>1, <2>1 DEF vars, FailInv
<1>2. ASSUME FailInv, NEW p \in Requests, Handle(p) \/ \E o \in Ops : Start(p, o)
      PROVE  FailInv'
  <2>0. KnownInv'
    BY <1>2, KnownNext DEF FailInv, Next
  <2> DEFINE OK(q, c, o, t) ==
               /\ c = "delete" => o.kind = "deleteResolver"
               /\ c \in {"verify", "erase"} => \A i, j \in DOMAIN t : i = j
  <2>1. /\ pc \in [Requests -> Pcs] /\ DOMAIN info = Requests
        /\ op \in [Requests -> Ops \cup {NoOp}]
        /\ \A q \in Requests : pc[q] # "idle" => op[q] \in Ops
        /\ pc[p] = "find" => op[p].kind # "createResolver"
        /\ \A q \in Requests : OK(q, pc[q], op[q], info[q])
    BY <1>2 DEF FailInv, KnownInv, TypeOK
  <2>2. \A q \in Requests \ {p} : pc'[q] = pc[q] /\ op'[q] = op[q] /\ info'[q] = info[q]
    <3> TAKE q \in Requests \ {p}
    <3>1. Handle(p) \/ \E o \in Ops : Start(p, o)
      BY <1>2
    <3> QED
      BY <1>2, <2>1, <3>1, OthersStay, OthersKeepOp, ListsOf DEF FailInv
  <2>3. ASSUME pc'[p] \notin {"delete", "verify", "erase"}
        PROVE  OK(p, pc'[p], op'[p], info'[p])
    BY <2>3
  <2>4. ASSUME Find(p)
        PROVE  OK(p, pc'[p], op'[p], info'[p])
    <3>1. CASE resolver[op[p].name] = NoID
      <4>1. pc'[p] = "failed"
        BY <2>1, <2>4, <3>1 DEF Find, Fail, Goto
      <4> QED
        BY <2>3, <4>1
    <3>2. CASE resolver[op[p].name] # NoID
      <4> DEFINE list == findByDNSResolverInstanceID(p)
                 mine == [i \in {i \in DOMAIN list : list[i].key = op[p].key} |-> list[i]]
                 has  == op[p].key \in KeysOf(list)
      <4>1. op[p] \in Ops /\ op[p].kind \in Kinds
        BY <2>1, <2>4 DEF Find, Ops
      <4>2. /\ pc'[p] = AfterFind(op[p].kind, has)
            /\ op[p].kind # "putProperty" => op' = op
            /\ op[p].kind = "deleteProperty" => info'[p] = mine
        BY <2>1, <2>4, <3>2 DEF Find, Goto
      <4>3. \A i, j \in DOMAIN mine : i = j
        <5>1. KnownIn(list, rows, nextRow) /\ DOMAIN list = DOMAIN rows
          BY <1>2, QueryIsKnown DEF FailInv
        <5>2. \A i \in DOMAIN rows : list[i].key = rows[i].key
          <6>1. NoID \notin DOMAIN rows
            BY <1>2 DEF FailInv, KnownInv, TypeOK, NoID
          <6> HIDE DEF list
          <6> QED
            BY <5>1, <6>1 DEF KnownIn
        <5>3. DOMAIN mine \subseteq DOMAIN rows /\ \A i \in DOMAIN mine : list[i].key = op[p].key
          BY <5>1
        <5>4. KeysAreUnique
          BY <1>2 DEF FailInv, KnownInv
        <5> HIDE DEF list, mine
        <5> QED
          BY <5>2, <5>3, <5>4 DEF KeysAreUnique
      <4> HIDE DEF mine, has
      <4>4. /\ pc'[p] = "delete" => op[p].kind = "deleteResolver"
            /\ pc'[p] = "verify" => op[p].kind = "deleteProperty"
            /\ pc'[p] # "erase"
        BY <2>1, <2>4, <4>1, <4>2 DEF AfterFind, Kinds, Find
      <4> QED
        BY <2>3, <4>2, <4>3, <4>4
    <3> QED
      BY <3>1, <3>2
  <2>5. ASSUME VerifyProperty(p)
        PROVE  OK(p, pc'[p], op'[p], info'[p])
    BY <2>1, <2>5 DEF VerifyProperty, Goto, Fail
  <2>6. ASSUME \/ Load(p) \/ CreateResolver(p) \/ Save(p) \/ DeleteResolver(p)
               \/ ReadProperty(p) \/ WriteProperty(p) \/ EraseProperty(p)
        PROVE  OK(p, pc'[p], op'[p], info'[p])
    <3>1. pc'[p] \in {"save", "done", "failed", "write"}
      BY <2>1, <2>6 DEF Load, CreateResolver, Save, DeleteResolver, ReadProperty,
         WriteProperty, EraseProperty, Goto, Fail
    <3> QED
      BY <2>3, <3>1
  <2>7. ASSUME \E o \in Ops : Start(p, o)
        PROVE  OK(p, pc'[p], op'[p], info'[p])
    <3>1. pc'[p] \in {"create", "find"}
      BY <2>1, <2>7 DEF Start, Goto
    <3> QED
      BY <2>3, <3>1
  <2>8. OK(p, pc'[p], op'[p], info'[p])
    BY <1>2, <2>4, <2>5, <2>6, <2>7 DEF Handle
  <2>9. \A q \in Requests : OK(q, pc'[q], op'[q], info'[q])
    BY <2>1, <2>2, <2>8
  <2> QED
    BY <2>0, <2>9 DEF FailInv
<1> QED
  BY <1>1, <1>2 DEF Next

LEMMA FailureStep ==
  ASSUME FailInv, Next, NEW p \in Requests, Fails(p), op[p].kind # "deleteResolver"
  PROVE  KeysOf(rows) \subseteq KeysOf(rows')
<1>1. Active(p) /\ pc'[p] = "failed" /\ pc[p] # "failed"
  BY DEF Fails, Ends, Active, Done
<1>2. KnownInv /\ pc \in [Requests -> Pcs]
  BY DEF FailInv, KnownInv, TypeOK
<1>3. Handle(p)
  <2>1. PICK q \in Requests : Handle(q) \/ \E o \in Ops : Start(q, o)
    BY DEF Next
  <2>2. q # p => pc'[p] = pc[p]
    BY <1>2, <2>1, OthersStay
  <2>3. q = p
    BY <1>1, <2>2
  <2>4. ~\E o \in Ops : Start(p, o)
    BY <1>1 DEF Start, Active
  <2> QED
    BY <2>1, <2>3, <2>4
<1>4. CASE rows' = rows
  BY <1>4
<1>5. CASE CreateResolver(p)
  <2>1. UNCHANGED rows \/ pc'[p] = "done"
    BY <1>2, <1>5 DEF CreateResolver, store, Goto
  <2> QED
    BY <1>1, <1>4, <2>1
<1>6. CASE Save(p)
  <2> DEFINE list  == Owned(p)
             table == AfterSaving(list)
             left  == WithKeys(table, KeysOf(list))
  <2>0. IsList(list) /\ Known(list)
    BY <1>2, ListsAreKnown
  <2>1. Saved(list) = DOMAIN list => Cardinality(DOMAIN left) = Cardinality(KeysOf(list))
    BY <1>2, <2>0, FullSaveMatches
  <2>2. \/ UNCHANGED rows
        \/ rows' = table
        \/ /\ Saved(list) = DOMAIN list
           /\ Cardinality(DOMAIN left) = Cardinality(KeysOf(list)) => pc'[p] = "done"
    BY <1>2, <1>6 DEF Save, store, Goto
  <2>3. KeysOf(rows) \subseteq KeysOf(table)
    BY <1>2, <2>0, SavedKeys
  <2> HIDE DEF left, table, list
  <2> QED
    BY <1>1, <1>4, <2>1, <2>2, <2>3
<1>7. CASE DeleteResolver(p)
  BY <1>7 DEF DeleteResolver, FailInv
<1>8. CASE WriteProperty(p)
  <2>1. rows' = AfterSaving(info[p])
    BY <1>8 DEF WriteProperty
  <2> QED
    BY <1>2, <2>1, ListsAreKnown, SavedKeys
<1>9. CASE EraseProperty(p)
  <2>1. pc[p] = "erase" /\ rows' = [i \in DOMAIN rows \ DOMAIN info[p] |-> rows[i]]
    BY <1>9 DEF EraseProperty
  <2>2. PICK i \in DOMAIN info[p] : ~HasRow(i)
    BY <1>1, <1>2, <1>9 DEF EraseProperty, Goto
  <2>3. DOMAIN info[p] = {i}
    BY <2>1, <2>2 DEF FailInv
  <2>4. DOMAIN rows \ DOMAIN info[p] = DOMAIN rows
    BY <2>2, <2>3 DEF HasRow
  <2> QED
    BY <2>1, <2>4 DEF KeysOf
<1>10. CASE Find(p) \/ Load(p) \/ ReadProperty(p) \/ VerifyProperty(p)
  BY <1>4, <1>10 DEF Find, Load, ReadProperty, VerifyProperty, store
<1> QED
  BY <1>3, <1>5, <1>6, <1>7, <1>8, <1>9, <1>10 DEF Handle

\* A request that fails, after a part of its list is written, takes no key away;
\* for any number of requests at a time, and lists of any age.
THEOREM FailuresLoseNoKey == Spec => FailureLosesNoKey
<1>1. Init => FailInv
  BY KnownInit DEF Init, FailInv
<1>2. FailInv /\ [Next]_vars =>
        [\A p \in Requests : Fails(p) /\ op[p].kind # "deleteResolver"
           => KeysOf(rows) \subseteq KeysOf(rows')]_vars
  BY FailureStep
<1> QED
  BY <1>1, <1>2, FailNext, PTL DEF Spec, FailureLosesNoKey

-----------------------------------------------------------------------------
(* A request no other is under way with.  The rows it has seen are the     *)
(* rows there are, and the list it will write is made of them: this is     *)
(* what every place between its transactions has to say of the table.      *)

Own(p)       == {i \in DOMAIN rows : rows[i].key = op[p].key}
Fresh(p)     == \A i \in DOMAIN rows \cap DOMAIN seen[p] : seen[p][i] = rows[i]
Copies(p, S) == \A i \in S : info[p][i] = rows[i]

ToSave(p) ==
  /\ \E n \in Names : resolver[n] = target[p]
  /\ Copies(p, DOMAIN rows)
  /\ \/ op[p].kind = "updateResolver" /\ DOMAIN info[p] = DOMAIN rows
     \/ /\ op[p].kind = "createProperty" /\ Own(p) = {}
        /\ DOMAIN info[p] = DOMAIN rows \cup {NoID}
        /\ info[p][NoID].key = op[p].key /\ info[p][NoID].value = p

ToDelete(p) ==
  /\ op[p].kind = "deleteResolver" /\ DOMAIN info[p] \subseteq DOMAIN rows
  /\ \E n \in Names : resolver[n] = target[p]

ToWrite(p) == \A i \in Own(p) : info[p][i].key = op[p].key /\ info[p][i].value = p

Prepared(p) ==
  /\ pc[p] = "load" => \/ op[p].kind = "updateResolver"
                       \/ op[p].kind = "createProperty" /\ Own(p) = {}
  /\ pc[p] = "save" => ToSave(p)
  /\ pc[p] = "delete" => ToDelete(p)
  /\ pc[p] \in {"read", "write"} => op[p].kind = "updateProperty"
  /\ pc[p] \in {"verify", "erase"} => op[p].kind = "deleteProperty"
  /\ pc[p] \in {"read", "write", "verify", "erase"}
       => Own(p) # {} /\ DOMAIN info[p] = Own(p)
  /\ pc[p] = "read" => Copies(p, Own(p))
  /\ pc[p] = "write" => ToWrite(p)

Undisturbed(p) ==
  /\ \A q \in Requests \ {p} : ~Active(q)
  /\ Content(rows) = before[p]
  /\ Fresh(p) /\ Prepared(p)

AloneInv ==
  /\ KnownInv
  /\ \A p \in Requests :
       /\ pc[p] = "idle" => DOMAIN seen[p] = {}
       /\ pc[p] = "create" => op[p].kind = "createResolver"
       /\ alone[p] /\ Active(p) => Undisturbed(p)

LEMMA AloneInit == Init => AloneInv
<1> SUFFICES ASSUME Init PROVE AloneInv
  OBVIOUS
<1>1. \A p \in Requests : /\ pc[p] = "idle" /\ ~alone[p]
                          /\ seen[p] = <<>>
  BY DEF Init
<1> QED
  BY <1>1, KnownInit DEF AloneInv

\* What such a request reads is what is stored.
LEMMA FreshQuery ==
  ASSUME KnownInv, NEW p \in Requests, Fresh(p)
  PROVE  findByDNSResolverInstanceID(p) = rows
<1>1. rows \in [DOMAIN rows -> Row]
  BY DEF KnownInv, TypeOK
<1>2. \A i \in DOMAIN rows : (IF i \in DOMAIN seen[p] THEN seen[p][i] ELSE rows[i]) = rows[i]
  BY DEF Fresh
<1> QED
  BY <1>1, <1>2 DEF findByDNSResolverInstanceID

\* Only its own step ends a request.
LEMMA EndsByItself ==
  ASSUME KnownInv, Next, NEW p \in Requests, Ends(p)
  PROVE  Handle(p)
<1>1. Active(p) /\ pc'[p] \in Done /\ pc[p] \notin Done
  BY DEF Ends, Active
<1>2. pc \in [Requests -> Pcs]
  BY DEF KnownInv, TypeOK
<1>3. PICK q \in Requests : Handle(q) \/ \E o \in Ops : Start(q, o)
  BY DEF Next
<1>4. q # p => pc'[p] = pc[p]
  BY <1>2, <1>3, OthersStay
<1>5. q = p
  BY <1>1, <1>4
<1>6. ~\E o \in Ops : Start(p, o)
  BY <1>1 DEF Start, Active
<1> QED
  BY <1>3, <1>5, <1>6

\* The steps a request still has something to do after write nothing.
LEMMA WritesLast ==
  ASSUME KnownInv, NEW p \in Requests, Handle(p), pc'[p] \notin Done
  PROVE  /\ Find(p) \/ Load(p) \/ ReadProperty(p) \/ VerifyProperty(p)
         /\ UNCHANGED <<resolver, rows, before, alone>>
<1>1. pc \in [Requests -> Pcs]
  BY DEF KnownInv, TypeOK
<1>2. ~CreateResolver(p)
  BY <1>1 DEF CreateResolver, Fail, Goto, Done
<1>3. ~Save(p)
  BY <1>1 DEF Save, Fail, Goto, Done
<1>4. ~DeleteResolver(p)
  BY <1>1 DEF DeleteResolver, Fail, Goto, Done
<1>5. ~WriteProperty(p)
  BY <1>1 DEF WriteProperty, Fail, Goto, Done
<1>6. ~EraseProperty(p)
  BY <1>1 DEF EraseProperty, Fail, Goto, Done
<1>7. Find(p) \/ Load(p) \/ ReadProperty(p) \/ VerifyProperty(p)
  BY <1>2, <1>3, <1>4, <1>5, <1>6 DEF Handle
<1> QED
  BY <1>7 DEF Find, Load, ReadProperty, VerifyProperty, store, history

LEMMA StaysPrepared ==
  ASSUME KnownInv, NEW p \in Requests, Fresh(p), Prepared(p), Handle(p),
         pc'[p] \notin Done
  PROVE  Fresh(p)' /\ Prepared(p)'
<1>1. /\ pc \in [Requests -> Pcs] /\ op \in [Requests -> Ops \cup {NoOp}]
      /\ target \in [Requests -> Nat]
      /\ DOMAIN seen = Requests /\ DOMAIN info = Requests
      /\ pc[p] # "idle" => op[p] \in Ops
      /\ pc[p] = "find" => op[p].kind # "createResolver"
      /\ DOMAIN rows \in SUBSET (Nat \ {0}) /\ rows \in [DOMAIN rows -> Row]
  BY DEF KnownInv, TypeOK
<1>2. /\ Find(p) \/ Load(p) \/ ReadProperty(p) \/ VerifyProperty(p)
      /\ resolver' = resolver /\ rows' = rows
  BY WritesLast
<1>3. findByDNSResolverInstanceID(p) = rows
  BY FreshQuery
<1>4. CASE Find(p)
  <2> DEFINE has  == op[p].key \in KeysOf(rows)
             mine == [i \in Own(p) |-> rows[i]]
  <2>1. resolver[op[p].name] # NoID
    BY <1>1, <1>4 DEF Find, Fail, Goto, Done
  <2>2. op[p] \in Ops /\ op[p].kind \in Kinds /\ op[p].name \in Names
    BY <1>1, <1>4 DEF Find, Ops
  <2>3. /\ target'[p] = resolver[op[p].name]
        /\ seen'[p] = rows
        /\ info'[p] = IF op[p].kind \in {"updateProperty", "deleteProperty"}
                      THEN mine ELSE rows
        /\ pc'[p] = AfterFind(op[p].kind, has)
        /\ op[p].kind # "putProperty" => op' = op
    BY <1>1, <1>3, <1>4, <2>1 DEF Find, Goto, Own
  <2>4. has <=> Own(p) # {}
    BY DEF KeysOf, Own
  <2>5. Fresh(p)'
    BY <1>2, <2>3 DEF Fresh
  <2>6. DOMAIN mine = Own(p) /\ \A i \in Own(p) : mine[i] = rows[i]
    OBVIOUS
  <2> HIDE DEF has, mine
  <2>7. CASE op[p].kind = "putProperty"
    BY <2>3, <2>5, <2>7 DEF AfterFind, Prepared
  <2>8. CASE op[p].kind \in {"updateResolver", "createProperty"}
    <3>1. pc'[p] = "load" /\ (op[p].kind = "createProperty" => ~has)
      BY <2>3, <2>8 DEF AfterFind, Done
    <3>2. op'[p] = op[p] /\ Own(p)' = Own(p)
      BY <1>2, <2>3, <2>8 DEF Own
    <3> QED
      BY <2>4, <2>5, <2>8, <3>1, <3>2 DEF Prepared
  <2>9. CASE op[p].kind = "deleteResolver"
    <3>1. pc'[p] = "delete" /\ info'[p] = rows /\ op'[p] = op[p]
      BY <2>3, <2>9 DEF AfterFind
    <3>2. ToDelete(p)'
      BY <1>2, <2>2, <2>3, <2>9, <3>1 DEF ToDelete
    <3> QED
      BY <2>5, <3>1, <3>2 DEF Prepared
  <2>10. CASE op[p].kind \in {"updateProperty", "deleteProperty"}
    <3>1. /\ has /\ info'[p] = mine /\ op'[p] = op[p]
          /\ pc'[p] = IF op[p].kind = "updateProperty" THEN "read" ELSE "verify"
      BY <2>3, <2>10 DEF AfterFind, Done
    <3>2. Own(p)' = Own(p)
      BY <1>2, <3>1 DEF Own
    <3>3. Copies(p, Own(p))'
      BY <1>2, <2>6, <3>1, <3>2 DEF Copies
    <3> QED
      BY <2>4, <2>5, <2>6, <2>10, <3>1, <3>2, <3>3 DEF Prepared
  <2>11. op[p].kind # "createResolver"
    BY <1>1, <1>4 DEF Find
  <2> QED
    BY <2>2, <2>7, <2>8, <2>9, <2>10, <2>11 DEF Kinds
<1>5. CASE Load(p)
  <2> DEFINE here == IF op[p].kind = "updateResolver" THEN target[p] ELSE resolver[op[p].name]
             new  == [owner |-> here, key |-> op[p].key, value |-> p]
             more == [i \in DOMAIN rows \cup {NoID} |-> IF i # NoID THEN rows[i] ELSE new]
  <2>1. /\ \E n \in Names : resolver[n] = here
        /\ target'[p] = here
        /\ seen'[p] = rows
        /\ info'[p] = IF op[p].kind = "updateResolver" THEN rows ELSE more
        /\ pc'[p] = "save" /\ op' = op
    BY <1>1, <1>3, <1>5 DEF Load, Fail, Goto, Done
  <2>2. pc[p] = "load"
    BY <1>5 DEF Load
  <2>3. Own(p)' = Own(p)
    BY <1>2, <2>1 DEF Own
  <2>4. /\ DOMAIN more = DOMAIN rows \cup {NoID}
        /\ \A i \in DOMAIN rows : more[i] = rows[i]
        /\ more[NoID].key = op[p].key /\ more[NoID].value = p
    BY <1>1 DEF NoID
  <2>5. Fresh(p)'
    BY <1>2, <2>1 DEF Fresh
  <2> HIDE DEF here, more
  <2>6. Copies(p, DOMAIN rows)'
    BY <1>2, <2>1, <2>4 DEF Copies
  <2>7. CASE op[p].kind = "updateResolver"
    <3>1. ToSave(p)'
      BY <1>2, <2>1, <2>6, <2>7 DEF ToSave
    <3> QED
      BY <2>1, <2>5, <3>1 DEF Prepared
  <2>8. CASE op[p].kind = "createProperty" /\ Own(p) = {}
    <3>1. info'[p] = more
      BY <2>1, <2>8
    <3>2. ToSave(p)'
      BY <1>2, <2>1, <2>3, <2>4, <2>6, <2>8, <3>1 DEF ToSave
    <3> QED
      BY <2>1, <2>5, <3>2 DEF Prepared
  <2> QED
    BY <2>2, <2>7, <2>8 DEF Prepared
<1>6. CASE ReadProperty(p)
  <2>1. /\ info'[p] = [i \in DOMAIN info[p] |-> [info[p][i] EXCEPT !.value = p]]
        /\ pc'[p] = "write" /\ op' = op /\ seen' = seen
    BY <1>1, <1>6 DEF ReadProperty, Fail, Goto, Done
  <2>2. /\ Own(p) # {} /\ DOMAIN info[p] = Own(p) /\ Copies(p, Own(p))
        /\ op[p].kind = "updateProperty"
    BY <1>6 DEF ReadProperty, Prepared
  <2>3. Own(p)' = Own(p) /\ Fresh(p)'
    BY <1>2, <2>1 DEF Own, Fresh
  <2>4. \A i \in Own(p) : info[p][i] \in Row /\ info[p][i].key = op[p].key
    BY <1>1, <2>2 DEF Copies, Own
  <2>5. p \in Values
    BY DEF Values
  <2>6. \A i \in Own(p) : info'[p][i].key = op[p].key /\ info'[p][i].value = p
    BY <2>1, <2>2, <2>4, <2>5 DEF Row
  <2>7. ToWrite(p)'
    BY <2>1, <2>3, <2>6 DEF ToWrite
  <2>8. DOMAIN info'[p] = Own(p)
    BY <2>1, <2>2
  <2> QED
    BY <2>1, <2>2, <2>3, <2>7, <2>8 DEF Prepared
<1>7. CASE VerifyProperty(p)
  <2>1. pc[p] = "verify" /\ pc'[p] = "erase" /\ op' = op /\ info' = info /\ seen' = seen
    BY <1>1, <1>7 DEF VerifyProperty, Fail, Goto, Done
  <2>2. Own(p)' = Own(p) /\ Fresh(p)'
    BY <1>2, <2>1 DEF Own, Fresh
  <2> QED
    BY <2>1, <2>2 DEF Prepared
<1> QED
  BY <1>2, <1>4, <1>5, <1>6, <1>7

\* No step of a request leads back to where it came in.
LEMMA NeverBack ==
  ASSUME KnownInv, NEW p \in Requests, Handle(p)
  PROVE  pc'[p] \notin {"idle", "create"}
<1> SUFFICES ASSUME pc'[p] \in {"idle", "create"} PROVE FALSE
  OBVIOUS
<1>1. pc \in [Requests -> Pcs] /\ (pc[p] = "find" => op[p] \in Ops /\ op[p].kind # "createResolver")
  BY DEF KnownInv, TypeOK
<1>2. Find(p) \/ Load(p) \/ ReadProperty(p) \/ VerifyProperty(p)
  BY WritesLast DEF Done
<1>3. CASE Find(p)
  <2>1. op[p].kind \in Kinds \ {"createResolver"}
    BY <1>1, <1>3 DEF Find, Ops
  <2> DEFINE has == op[p].key \in KeysOf(findByDNSResolverInstanceID(p))
  <2>2. pc'[p] = "failed" \/ pc'[p] = AfterFind(op[p].kind, has)
    BY <1>1, <1>3 DEF Find, Fail, Goto
  <2> HIDE DEF has
  <2> QED
    BY <2>1, <2>2 DEF AfterFind, Kinds
<1>4. CASE Load(p) \/ ReadProperty(p) \/ VerifyProperty(p)
  BY <1>1, <1>4 DEF Load, ReadProperty, VerifyProperty, Fail, Goto
<1> QED
  BY <1>2, <1>3, <1>4

LEMMA AloneNext == AloneInv /\ [Next]_vars => AloneInv'
<1>1. CASE UNCHANGED vars
  <2>1. ASSUME AloneInv PROVE KnownInv'
    BY <1>1, <2>1, KnownNext DEF AloneInv
  <2> QED
    BY <1>1, <2>1 DEF vars, AloneInv, Undisturbed, Active, Fresh, Prepared, ToSave, ToDelete,
       ToWrite, Copies, Own, Content
<1>2. ASSUME AloneInv, NEW q \in Requests, Handle(q) \/ \E o \in Ops : Start(q, o)
      PROVE  AloneInv'
  <2>0. KnownInv /\ KnownInv'
    BY <1>2, KnownNext DEF AloneInv, Next
  <2>1. /\ pc \in [Requests -> Pcs] /\ op \in [Requests -> Ops \cup {NoOp}]
        /\ alone \in [Requests -> BOOLEAN]
        /\ before \in [Requests -> SUBSET (Keys \X Values)]
    BY <2>0 DEF KnownInv, TypeOK
  <2>2. \A p \in Requests \ {q} : pc'[p] = pc[p] /\ op'[p] = op[p] /\ seen'[p] = seen[p]
    <3> TAKE p \in Requests \ {q}
    <3> QED
      BY <1>2, <2>0, <2>1, OthersStay, OthersKeepOp, ListsOf
  <2> DEFINE OK(p) == /\ pc'[p] = "idle" => DOMAIN seen'[p] = {}
                      /\ pc'[p] = "create" => op'[p].kind = "createResolver"
                      /\ alone'[p] /\ Active(p)' => Undisturbed(p)'
  <2>3. CASE Handle(q)
    <3>1. Active(q) /\ UNCHANGED <<alone, before>>
      BY <2>3 DEF Handle, CreateResolver, Find, Load, Save, DeleteResolver, ReadProperty,
         WriteProperty, VerifyProperty, EraseProperty, history, Active, Done
    <3>2. ASSUME NEW p \in Requests \ {q} PROVE OK(p)
      <4>1. alone[p] => ~Active(p)
        BY <1>2, <3>1 DEF AloneInv, Undisturbed
      <4>2. ~(alone'[p] /\ Active(p)')
        BY <2>2, <3>1, <4>1 DEF Active
      <4> QED
        BY <1>2, <2>2, <4>2 DEF AloneInv
    <3>3. OK(q)
      <4>1. pc'[q] \notin {"idle", "create"}
        BY <2>0, <2>3, NeverBack
      <4>2. ASSUME alone'[q], Active(q)' PROVE Undisturbed(q)'
        <5>1. alone[q] /\ Undisturbed(q)
          BY <1>2, <3>1, <4>2 DEF AloneInv
        <5>2. pc'[q] \notin Done
          BY <4>2 DEF Active
        <5>3. Fresh(q)' /\ Prepared(q)'
          BY <2>0, <2>3, <5>1, <5>2, StaysPrepared DEF Undisturbed
        <5>4. Content(rows)' = before'[q]
          BY <2>0, <2>3, <3>1, <5>1, <5>2, WritesLast DEF Undisturbed, Content
        <5>5. \A p \in Requests \ {q} : ~Active(p)'
          BY <2>2, <5>1 DEF Undisturbed, Active
        <5> QED
          BY <5>3, <5>4, <5>5 DEF Undisturbed
      <4> QED
        BY <4>1, <4>2
    <3> QED
      BY <2>0, <3>2, <3>3 DEF AloneInv
  <2>4. CASE \E o \in Ops : Start(q, o)
    <3>1. PICK o \in Ops : Start(q, o)
      BY <2>4
    <3>2. /\ pc[q] = "idle" /\ op'[q] = o /\ rows' = rows
          /\ pc'[q] = IF o.kind = "createResolver" THEN "create" ELSE "find"
          /\ seen'[q] = seen[q]
          /\ before'[q] = Content(rows)
          /\ alone'[q] = (\A r \in Requests : ~Active(r))
          /\ \A p \in Requests \ {q} : alone'[p] = (alone[p] /\ ~Active(p))
      BY <2>1, <3>1 DEF Start, Goto, store
    <3>3. ASSUME NEW p \in Requests \ {q} PROVE OK(p)
      <4>1. ~(alone'[p] /\ Active(p)')
        BY <2>2, <3>2 DEF Active
      <4> QED
        BY <1>2, <2>2, <4>1 DEF AloneInv
    <3>4. OK(q)
      <4>1. ASSUME alone'[q] PROVE \A p \in Requests \ {q} : ~Active(p)'
        BY <2>2, <3>2, <4>1 DEF Active
      <4>2. DOMAIN seen'[q] = {}
        BY <1>2, <3>2 DEF AloneInv
      <4>3. Fresh(q)'
        BY <4>2 DEF Fresh
      <4>4. Prepared(q)'
        BY <3>2 DEF Prepared
      <4>5. Content(rows)' = before'[q]
        BY <3>2 DEF Content
      <4> QED
        BY <3>2, <4>1, <4>2, <4>3, <4>4, <4>5 DEF Undisturbed
    <3> QED
      BY <2>0, <3>3, <3>4 DEF AloneInv
  <2> QED
    BY <1>2, <2>3, <2>4
<1> QED
  BY <1>1, <1>2 DEF Next

\* The rows after saving: an item that is saved and has a row is that row now.
LEMMA RowsAfterSaving ==
  ASSUME NEW list
  PROVE  /\ DOMAIN AfterSaving(list)
              = DOMAIN rows \cup {NewID(list, i) : i \in Inserted(list)}
         /\ \A x \in DOMAIN rows :
              AfterSaving(list)[x] = IF x \in Saved(list) THEN list[x] ELSE rows[x]
BY DEF AfterSaving, HasRow

\* A list made of the rows there are, and maybe one more with a key of its own,
\* is saved as a whole, and no row is lost.
LEMMA SavingTheTable ==
  ASSUME KnownInv, NEW list, IsList(list), Known(list),
         DOMAIN list \in {DOMAIN rows, DOMAIN rows \cup {NoID}},
         \A i \in DOMAIN rows : list[i].key = rows[i].key /\ list[i].value = rows[i].value,
         NoID \in DOMAIN list => \A i \in DOMAIN rows : rows[i].key # list[NoID].key
  PROVE  /\ Saved(list) = DOMAIN list
         /\ Content(WithKeys(AfterSaving(list), KeysOf(list)))
              = Content(rows) \cup
                {<<list[i].key, list[i].value>> : i \in DOMAIN list \cap {NoID}}
<1> DEFINE T    == AfterSaving(list)
           left == WithKeys(T, KeysOf(list))
           new  == {<<list[i].key, list[i].value>> : i \in DOMAIN list \cap {NoID}}
<1>1. TypeOK /\ Table(rows, nextRow) /\ KeysAreUnique /\ DOMAIN rows \subseteq Nat \ {0}
      /\ nextRow \in Nat /\ IsFiniteSet(DOMAIN list)
  BY DEF KnownInv, TypeOK, Known, KnownIn
<1>2. NoID \notin DOMAIN rows
  BY <1>1 DEF NoID
<1>3. ASSUME NEW i \in DOMAIN list PROVE ~KeyIsTaken(list, i)
  <2>1. \A j \in DOMAIN rows : j # i => rows[j].key # list[i].key
    BY <1>1 DEF KeysAreUnique
  <2>2. \A j \in DOMAIN list : ComesBefore(j, i) => HasRow(j)
    BY DEF ComesBefore, HasRow
  <2> QED
    BY <2>1, <2>2 DEF KeyIsTaken
<1>4. Saved(list) = DOMAIN list
  BY <1>3 DEF Saved
<1>5. Inserted(list) = DOMAIN list \cap {NoID}
  BY <1>2, <1>4 DEF Inserted, HasRow
<1>6. /\ \A x \in DOMAIN rows : x \in DOMAIN T /\ T[x] = list[x]
      /\ DOMAIN T = DOMAIN rows \cup {NewID(list, i) : i \in Inserted(list)}
  BY <1>4, RowsAfterSaving
<1>7. ASSUME NEW x \in DOMAIN T, x \notin DOMAIN rows
      PROVE  NoID \in DOMAIN list /\ T[x] = list[NoID]
  <2>1. Source(list, x) \in Inserted(list) /\ T[x] = list[Source(list, x)]
    BY <1>1, <1>7, SavedRows DEF HasRow
  <2> HIDE DEF T
  <2> QED
    BY <1>5, <2>1
<1>8. ASSUME NoID \in DOMAIN list
      PROVE  \E x \in DOMAIN T : x \notin DOMAIN rows
  <2> DEFINE x == NewID(list, NoID)
  <2>1. NoID \in Inserted(list)
    BY <1>5, <1>8
  <2>2. x \in DOMAIN T
    BY <1>6, <2>1
  <2>3. nextRow <= x /\ x \in Nat
    BY <1>1, <2>1, NewIDIsNew
  <2>4. x \notin DOMAIN rows
    BY <1>1, <2>3 DEF Table
  <2> QED
    BY <2>2, <2>4
<1> HIDE DEF T
<1>9. \A x \in DOMAIN T : T[x].key \in KeysOf(list)
  BY <1>6, <1>7 DEF KeysOf
<1>10. DOMAIN left = DOMAIN T /\ \A x \in DOMAIN T : left[x] = T[x]
  BY <1>9 DEF WithKeys
<1>11. Content(left) = {<<T[x].key, T[x].value>> : x \in DOMAIN T}
  BY <1>10 DEF Content
<1> HIDE DEF left
<1>12. ASSUME NEW c \in Content(left) PROVE c \in Content(rows) \cup new
  <2>1. PICK x \in DOMAIN T : c = <<T[x].key, T[x].value>>
    BY <1>11
  <2>2. CASE x \in DOMAIN rows
    BY <1>6, <2>1, <2>2 DEF Content
  <2>3. CASE x \notin DOMAIN rows
    BY <1>7, <2>1, <2>3
  <2> QED
    BY <2>2, <2>3
<1>13. ASSUME NEW c \in Content(rows) PROVE c \in Content(left)
  BY <1>6, <1>11 DEF Content
<1>14. ASSUME NEW c \in new PROVE c \in Content(left)
  <2>1. NoID \in DOMAIN list /\ c = <<list[NoID].key, list[NoID].value>>
    OBVIOUS
  <2>2. PICK x \in DOMAIN T : x \notin DOMAIN rows
    BY <1>8, <2>1
  <2>3. T[x] = list[NoID]
    BY <1>7, <2>2
  <2> QED
    BY <1>11, <2>1, <2>3
<1>15. Content(left) = Content(rows) \cup new
  BY <1>12, <1>13, <1>14
<1> QED
  BY <1>4, <1>15 DEF left, T

\* The rows of one key, written with a value, leave the others as they were.
LEMMA WritingOwnRows ==
  ASSUME KnownInv, NEW list, NEW k, NEW v,
         DOMAIN list = {i \in DOMAIN rows : rows[i].key = k}, DOMAIN list # {},
         \A i \in DOMAIN list : list[i].key = k /\ list[i].value = v
  PROVE  /\ Saved(list) = DOMAIN list
         /\ Content(AfterSaving(list)) = {c \in Content(rows) : c[1] # k} \cup {<<k, v>>}
<1> DEFINE T == AfterSaving(list)
<1>1. KeysAreUnique
  BY DEF KnownInv
<1>2. ASSUME NEW i \in DOMAIN list PROVE ~KeyIsTaken(list, i)
  <2>1. \A j \in DOMAIN rows : j # i => rows[j].key # list[i].key
    BY <1>1 DEF KeysAreUnique
  <2> QED
    BY <2>1 DEF KeyIsTaken, HasRow
<1>3. Saved(list) = DOMAIN list
  BY <1>2 DEF Saved
<1>4. Inserted(list) = {}
  BY <1>3 DEF Inserted, HasRow
<1>5. /\ DOMAIN T = DOMAIN rows
      /\ \A x \in DOMAIN rows : T[x] = IF rows[x].key = k THEN list[x] ELSE rows[x]
  BY <1>3, <1>4, RowsAfterSaving
<1> HIDE DEF T
<1>6. ASSUME NEW c \in Content(T) PROVE c \in {d \in Content(rows) : d[1] # k} \cup {<<k, v>>}
  BY <1>5 DEF Content
<1>7. ASSUME NEW c \in Content(rows), c[1] # k PROVE c \in Content(T)
  BY <1>5, <1>7 DEF Content
<1>8. <<k, v>> \in Content(T)
  BY <1>5 DEF Content
<1>9. Content(T) = {c \in Content(rows) : c[1] # k} \cup {<<k, v>>}
  BY <1>6, <1>7, <1>8
<1> QED
  BY <1>3, <1>9 DEF T

\* The last step of a request no other is under way with.
LEMMA AloneStep ==
  ASSUME AloneInv, Next, NEW p \in Requests, alone[p], Ends(p)
  PROVE  /\ Fails(p) => Content(rows') = before[p]
         /\ Succeeds(p) /\ op[p].kind \notin {"createResolver", "deleteResolver"}
              => Content(rows') = Promised(op[p], p, before[p])
<1>1. KnownInv /\ Handle(p)
  BY EndsByItself DEF AloneInv
<1>2. /\ Prepared(p) /\ Content(rows) = before[p]
      /\ pc[p] = "create" => op[p].kind = "createResolver"
  BY DEF AloneInv, Undisturbed, Ends
<1>3. /\ pc \in [Requests -> Pcs] /\ DOMAIN info = Requests
      /\ pc[p] # "idle" => op[p] \in Ops
      /\ DOMAIN rows \subseteq Nat \ {0} /\ rows \in [DOMAIN rows -> Row]
  BY <1>1 DEF KnownInv, TypeOK
<1>4. IsList(Owned(p)) /\ Known(Owned(p)) /\ IsList(info[p]) /\ Known(info[p])
  BY <1>1, ListsAreKnown
<1>5. CASE rows' = rows /\ pc'[p] = "failed"
  BY <1>2, <1>5 DEF Fails, Succeeds, Content
<1>6. CASE CreateResolver(p)
  <2>1. op[p].kind = "createResolver"
    BY <1>2, <1>6 DEF CreateResolver
  <2>2. pc'[p] = "failed" => rows' = rows
    BY <1>3, <1>6 DEF CreateResolver, Goto, store
  <2> QED
    BY <1>5, <2>1, <2>2 DEF Fails, Succeeds
<1>7. CASE Save(p)
  <2> DEFINE list == Owned(p)
             left == WithKeys(AfterSaving(list), KeysOf(list))
  <2>1. ToSave(p)
    BY <1>2, <1>7 DEF Save, Prepared
  <2>2. /\ DOMAIN list = DOMAIN info[p]
        /\ \A i \in DOMAIN list : list[i].key = info[p][i].key
                                  /\ list[i].value = info[p][i].value
    <3>1. /\ DOMAIN list = DOMAIN info[p]
          /\ \A i \in DOMAIN list : list[i] = [info[p][i] EXCEPT !.owner = target[p]]
      BY DEF Owned
    <3>2. \A i \in DOMAIN info[p] : info[p][i] \in Row
      BY <1>4 DEF IsList
    <3>3. \A r \in Row : \A o : /\ [r EXCEPT !.owner = o].key = r.key
                              /\ [r EXCEPT !.owner = o].value = r.value
      BY DEF Row
    <3> HIDE DEF list
    <3>4. ASSUME NEW i \in DOMAIN list
          PROVE  list[i].key = info[p][i].key /\ list[i].value = info[p][i].value
      <4>1. info[p][i] \in Row /\ list[i] = [info[p][i] EXCEPT !.owner = target[p]]
        BY <3>1, <3>2
      <4> QED
        BY <3>3, <4>1
    <3> QED
      BY <3>1, <3>4
  <2>3. DOMAIN list \in {DOMAIN rows, DOMAIN rows \cup {NoID}}
    BY <2>1, <2>2 DEF ToSave
  <2>4. \A i \in DOMAIN rows : list[i].key = rows[i].key /\ list[i].value = rows[i].value
    BY <2>2, <2>3, <2>1 DEF ToSave, Copies
  <2>5. NoID \notin DOMAIN rows
    BY <1>3 DEF NoID
  <2>6. NoID \in DOMAIN list => \A i \in DOMAIN rows : rows[i].key # list[NoID].key
    BY <2>1, <2>2, <2>5 DEF ToSave, Own
  <2>7. /\ Saved(list) = DOMAIN list
        /\ Content(left) = Content(rows) \cup
             {<<list[i].key, list[i].value>> : i \in DOMAIN list \cap {NoID}}
    BY <1>1, <1>4, <2>3, <2>4, <2>6, SavingTheTable
  <2>8. Cardinality(DOMAIN left) = Cardinality(KeysOf(list))
    BY <1>1, <1>4, <2>7, FullSaveMatches
  <2>9. rows' = left /\ pc'[p] = "done"
    BY <1>3, <1>7, <2>1, <2>7, <2>8 DEF Save, ToSave, Goto
  <2>10. Content(rows') = Content(left)
    BY <2>9
  <2> HIDE DEF list, left
  <2>11. CASE op[p].kind = "updateResolver"
    <3>1. DOMAIN list \cap {NoID} = {}
      BY <2>1, <2>2, <2>5, <2>11 DEF ToSave
    <3> QED
      BY <1>2, <2>7, <2>9, <2>10, <2>11, <3>1 DEF Promised, Fails
  <2>12. CASE op[p].kind = "createProperty"
    <3>1. /\ DOMAIN list \cap {NoID} = {NoID}
          /\ list[NoID].key = op[p].key /\ list[NoID].value = p /\ Own(p) = {}
      BY <2>1, <2>2, <2>12 DEF ToSave
    <3>2. Content(rows') = Content(rows) \cup {<<op[p].key, p>>}
      BY <2>7, <2>10, <3>1
    <3>3. {c \in Content(rows) : c[1] # op[p].key} = Content(rows)
      BY <3>1 DEF Own, Content
    <3> QED
      BY <1>2, <2>9, <2>12, <3>2, <3>3 DEF Promised, Fails
  <2> QED
    BY <2>1, <2>11, <2>12 DEF ToSave
<1>8. CASE DeleteResolver(p)
  <2>1. ToDelete(p)
    BY <1>2, <1>8 DEF DeleteResolver, Prepared
  <2>2. pc'[p] = "done"
    BY <1>3, <1>8, <2>1 DEF DeleteResolver, ToDelete, HasRow, Goto
  <2> QED
    BY <2>1, <2>2 DEF ToDelete, Fails
<1>9. CASE WriteProperty(p)
  <2> DEFINE list == info[p]
  <2>1. Own(p) # {} /\ DOMAIN list = Own(p) /\ ToWrite(p) /\ op[p].kind = "updateProperty"
    BY <1>2, <1>9 DEF WriteProperty, Prepared
  <2>2. \A i \in DOMAIN list : list[i].key = op[p].key /\ list[i].value = p
    BY <2>1 DEF ToWrite
  <2>3. DOMAIN list = {i \in DOMAIN rows : rows[i].key = op[p].key} /\ DOMAIN list # {}
    BY <2>1 DEF Own
  <2> HIDE DEF list
  <2>4. /\ Saved(list) = DOMAIN list
        /\ Content(AfterSaving(list))
             = {c \in Content(rows) : c[1] # op[p].key} \cup {<<op[p].key, p>>}
    BY <1>1, <2>2, <2>3, WritingOwnRows
  <2>5. rows' = AfterSaving(list) /\ pc'[p] = "done"
    BY <1>3, <1>9, <2>4 DEF WriteProperty, Goto, list
  <2>6. Content(rows') = Content(AfterSaving(list))
    BY <2>5
  <2> QED
    BY <1>2, <2>1, <2>4, <2>5, <2>6 DEF Promised, Fails
<1>10. CASE EraseProperty(p)
  <2>1. DOMAIN info[p] = Own(p) /\ op[p].kind = "deleteProperty"
    BY <1>2, <1>10 DEF EraseProperty, Prepared
  <2>2. rows' = [i \in DOMAIN rows \ Own(p) |-> rows[i]] /\ pc'[p] = "done"
    BY <1>3, <1>10, <2>1 DEF EraseProperty, Own, HasRow, Goto
  <2>3. Content(rows') = {c \in Content(rows) : c[1] # op[p].key}
    BY <2>2 DEF Content, Own
  <2> QED
    BY <1>2, <2>1, <2>2, <2>3 DEF Promised, Fails
<1>11. CASE Find(p) \/ Load(p) \/ ReadProperty(p) \/ VerifyProperty(p)
  <2>1. rows' = rows
    BY <1>11 DEF Find, Load, ReadProperty, VerifyProperty, store
  <2>2. pc'[p] # "done"
    <3>1. CASE Find(p)
      <4> DEFINE has == op[p].key \in KeysOf(findByDNSResolverInstanceID(p))
      <4>1. op[p].kind \in Kinds \ {"createResolver"}
        BY <1>1, <1>3, <3>1 DEF Find, Ops, KnownInv
      <4>2. pc'[p] = "failed" \/ pc'[p] = AfterFind(op[p].kind, has)
        BY <1>3, <3>1 DEF Find, Fail, Goto
      <4> HIDE DEF has
      <4> QED
        BY <4>1, <4>2 DEF AfterFind, Kinds
    <3>2. CASE Load(p) \/ ReadProperty(p) \/ VerifyProperty(p)
      BY <1>3, <3>2 DEF Load, ReadProperty, VerifyProperty, Fail, Goto
    <3> QED
      BY <1>11, <3>1, <3>2
  <2>3. pc'[p] = "failed"
    BY <2>2 DEF Ends, Done
  <2> QED
    BY <1>5, <2>1, <2>3
<1> QED
  BY <1>1, <1>6, <1>7, <1>8, <1>9, <1>10, <1>11 DEF Handle

\* A request that no other was under way with does exactly what it promises, or
\* fails and leaves every property as it was; for any number of requests before
\* and after it, and any names and keys.
THEOREM AloneExact == Spec => AloneRequestIsExact
<1>1. AloneInv /\ [Next]_vars =>
        [\A p \in Requests : alone[p] =>
           /\ Fails(p) => Content(rows') = before[p]
           /\ Succeeds(p) /\ op[p].kind \notin {"createResolver", "deleteResolver"}
                => Content(rows') = Promised(op[p], p, before[p])]_vars
  BY AloneStep DEF Fails, Succeeds
<1> QED
  BY <1>1, AloneInit, AloneNext, PTL DEF Spec, AloneRequestIsExact
=============================================================================
