------------------------- MODULE SecretCache_proofs -------------------------
(***************************************************************************)
(* Theorems about SecretCache, for every table of secrets, every set of    *)
(* requests and every number of handlers, starting instances and searches. *)
(***************************************************************************)
EXTENDS SecretCache, FiniteSetTheorems, WellFoundedInduction, TLAPS

-----------------------------------------------------------------------------
(* The invariants                                                          *)

Record == [id : Ids, key : Keys, value : Values, comment : Comments, version : Nat]
Entry == [key : Keys, value : Values, comment : Comments, version : Nat]

Upserting == {"hget", "del", "hset", "set", "sadd"}
Removing == {"hgetdel", "delhash", "srem"}
Clearing == {"delids", "scan", "delpaths"}
Pcs == {"idle", "read", "list"} \cup Upserting \cup Removing \cup Clearing

Process == [pc : Pcs, read : Seq(Item), todo : Seq(Record \cup [id : Ids]),
            found : SUBSET Paths]
SearchState == [pc : {"new", "members", "filter", "done"}, hits : SUBSET Ids,
                answer : SUBSET Ids, bodies : Nat, gone : SUBSET Ids]

TypeOK ==
  /\ rows \in Tables
  /\ hash \in [Ids -> Entry \cup {None}]
  /\ paths \in [Paths -> Ids \cup {NoId}]
  /\ index \subseteq Ids
  /\ pending \subseteq Requests
  /\ errors \in Nat
  /\ proc \in [Procs -> Process]
  /\ search \in [Searches -> SearchState]
  /\ alone \in [Procs -> SUBSET Ids]
  /\ fresh \subseteq Ids

\* What a process has where in its course.
Shape(p) ==
  /\ p \in Calls => ~ At(p, "list") /\ proc[p].pc \notin Clearing
  /\ p \in Warmers => ~ At(p, "read") /\ proc[p].pc \notin Removing
  /\ proc[p].pc \notin Removing => proc[p].todo \in Seq(Record)
  /\ proc[p].pc \in Upserting \cup Removing => proc[p].todo # << >>
  /\ At(p, "read") => proc[p].read # << >>
  /\ ~ At(p, "read") => proc[p].read = << >>

\* The last element for its id: what stands when all are written.
Last(seq, n) == \A m \in n + 1 .. Len(seq) : seq[m].id # seq[n].id

Current(record) ==
  /\ Live(rows, record.id)
  /\ record = RecordOf(record.id, rows[record.id])

\* The items of a request still to be read again have the values it wrote,
ReadsOwn(p) ==
  At(p, "read") =>
    \A n \in 1 .. Len(proc[p].read) :
      proc[p].read[n].id \in alone[p] /\ Last(proc[p].read, n)
      => /\ Live(rows, proc[p].read[n].id)
         /\ rows[proc[p].read[n].id].value = proc[p].read[n].value

\* what was read of secrets that nobody else has touched is as in the table,
WritesCurrent(p) ==
  proc[p].pc \in {"read"} \cup Upserting \cup Clearing =>
    \A n \in 1 .. Len(proc[p].todo) :
      /\ proc[p].todo[n].id \in alone[p] \ IdsOf(proc[p].read)
      /\ Last(proc[p].todo, n)
      => Current(proc[p].todo[n])

\* a secret that leaves Redis is deleted,
RemovesGone(p) ==
  proc[p].pc \in Removing /\ Now(p).id \in alone[p] => ~ Live(rows, Now(p).id)

\* the hash is of the record whose path and id follow it,
HashWritten(p) ==
  At(p, "set") \/ At(p, "sadd") =>
    (Now(p).id \in alone[p] => hash[Now(p).id] = EntryOf(Now(p)))

\* and a warm-up has all live secrets before it, and none of the others in
\* the ids.
WarmsAll(w) ==
  /\ proc[w].pc \in Upserting \cup Clearing =>
       \A i \in alone[w] : Live(rows, i) <=> i \in IdsOf(proc[w].todo)
  /\ proc[w].pc \in Upserting \cup {"scan", "delpaths"} =>
       \A i \in alone[w] : ~ Live(rows, i) => i \notin index

Sound(p) ==
  /\ ReadsOwn(p) /\ WritesCurrent(p) /\ RemovesGone(p) /\ HashWritten(p)
  /\ p \in Warmers => WarmsAll(p)

Structured == \A p \in Procs : Shape(p)

-----------------------------------------------------------------------------
(* Sequences                                                               *)

\* A sequence that is not empty is its first element and the rest.
LEMMA HeadAndTail ==
  ASSUME NEW S, NEW s \in Seq(S), s # << >>
  PROVE  /\ Len(s) \in Nat \ {0}
         /\ Head(s) = s[1] /\ Head(s) \in S
         /\ Tail(s) \in Seq(S)
         /\ Len(Tail(s)) = Len(s) - 1
         /\ Len(s) = 1 <=> Tail(s) = << >>
         /\ \A n \in 1 .. Len(s) - 1 : n + 1 \in 1 .. Len(s) /\ Tail(s)[n] = s[n + 1]
<1>1. /\ Len(s) \in Nat \ {0}
      /\ Head(s) = s[1] /\ Head(s) \in S
      /\ Tail(s) \in Seq(S)
      /\ Len(Tail(s)) = Len(s) - 1
      /\ \A n \in 1 .. Len(s) - 1 : n + 1 \in 1 .. Len(s) /\ Tail(s)[n] = s[n + 1]
  OBVIOUS
<1>2. \A t \in Seq(S) : Len(t) = 0 <=> t = << >>
  OBVIOUS
<1>3. Len(Tail(s)) = 0 <=> Tail(s) = << >>
  BY <1>1, <1>2
<1>4. Len(s) = 1 <=> Len(Tail(s)) = 0
  BY <1>1
<1> QED BY <1>1, <1>3, <1>4

LEMMA EmptyIds == IdsOf(<< >>) = {}
BY DEF IdsOf

\* The ids of a sequence are that of its first element and those of the rest.
LEMMA IdsOfTail ==
  ASSUME NEW S, NEW s \in Seq(S), s # << >>
  PROVE  IdsOf(s) = {Head(s).id} \cup IdsOf(Tail(s))
<1>1. Head(s).id \in IdsOf(s)
  BY HeadAndTail DEF IdsOf
<1>2. ASSUME NEW n \in 1 .. Len(Tail(s))
      PROVE  Tail(s)[n].id \in IdsOf(s)
  BY HeadAndTail DEF IdsOf
<1>3. ASSUME NEW n \in 1 .. Len(s)
      PROVE  s[n].id \in {Head(s).id} \cup IdsOf(Tail(s))
  <2>1. CASE n = 1
    BY <2>1, HeadAndTail
  <2>2. CASE n # 1
    <3>1. n - 1 \in 1 .. Len(Tail(s)) /\ Tail(s)[n - 1] = s[n]
      BY <2>2, HeadAndTail
    <3> QED BY <3>1 DEF IdsOf
  <2> QED BY <2>1, <2>2
<1> QED BY <1>1, <1>2, <1>3 DEF IdsOf

\* The last elements of the rest are last elements of the sequence,
LEMMA LastOfTail ==
  ASSUME NEW S, NEW s \in Seq(S), s # << >>, NEW n \in 1 .. Len(Tail(s)), Last(Tail(s), n)
  PROVE  n + 1 \in 1 .. Len(s) /\ Tail(s)[n] = s[n + 1] /\ Last(s, n + 1)
<1>1. n + 1 \in 1 .. Len(s) /\ Tail(s)[n] = s[n + 1]
  BY HeadAndTail
<1>2. ASSUME NEW m \in n + 2 .. Len(s)
      PROVE  s[m].id # s[n + 1].id
  <2>1. m - 1 \in n + 1 .. Len(Tail(s)) /\ Tail(s)[m - 1] = s[m]
    BY HeadAndTail
  <2> QED BY <1>1, <2>1 DEF Last
<1> QED BY <1>1, <1>2 DEF Last

\* and its first element is one when the rest has none of its id.
LEMMA LastFirst ==
  ASSUME NEW S, NEW s \in Seq(S), s # << >>, Head(s).id \notin IdsOf(Tail(s))
  PROVE  1 \in 1 .. Len(s) /\ s[1] = Head(s) /\ Last(s, 1)
<1>1. ASSUME NEW m \in 2 .. Len(s)
      PROVE  s[m].id # s[1].id
  <2>1. m - 1 \in 1 .. Len(Tail(s)) /\ Tail(s)[m - 1] = s[m]
    BY HeadAndTail
  <2>2. s[m].id \in IdsOf(Tail(s))
    BY <2>1 DEF IdsOf
  <2>3. s[1] = Head(s)
    BY HeadAndTail
  <2> QED BY <2>2, <2>3
<1> QED BY <1>1, HeadAndTail DEF Last

-----------------------------------------------------------------------------
(* The table                                                               *)

Descends == {pair \in Nat \X Nat : pair[1] < pair[2]}

\* Of some places of a sequence one is the last: the distances to its end
\* have a least one, as numbers are well-founded.
LEMMA GreatestPlace ==
  ASSUME NEW len \in Nat, NEW S \in SUBSET (1 .. len), S # {}
  PROVE  \E n \in S : \A m \in S : m <= n
<1> DEFINE D == {len - n : n \in S}
<1>1. IsWellFoundedOn(Descends, Nat)
  <2>1. Descends = OpToRel(<, Nat)
    BY DEF Descends, OpToRel
  <2> QED BY <2>1, NatLessThanWellFounded
<1>2. D \in SUBSET Nat /\ D # {}
  <2>1. D \in SUBSET Nat
    OBVIOUS
  <2>2. PICK n \in S : TRUE
    OBVIOUS
  <2>3. len - n \in D
    OBVIOUS
  <2> QED BY <2>1, <2>3
<1>3. PICK d \in D : \A e \in D : ~ (<<e, d>> \in Descends)
  <2> HIDE DEF D
  <2> QED BY <1>1, <1>2, WFMin
<1>4. PICK n \in S : d = len - n
  OBVIOUS
<1>5. ASSUME NEW m \in S
      PROVE  m <= n
  <2>1. len - m \in D /\ len - m \in Nat /\ d \in Nat
    BY <1>4
  <2>2. ~ (len - m < d)
    <3> HIDE DEF D
    <3>1. ~ (<<len - m, d>> \in Descends)
      BY <1>3, <2>1
    <3> QED BY <2>1, <3>1 DEF Descends
  <2> QED BY <1>4, <2>2
<1> QED BY <1>5

\* Apply, with the versions to begin from as a function.
Applied(items, base) ==
  [i \in Ids |->
     LET mine == {n \in 1 .. Len(items) : items[n].id = i}
     IN  IF mine = {} THEN rows[i]
         ELSE RowOf(items[CHOOSE n \in mine : \A m \in mine : m <= n],
                    base[i] + Cardinality(mine))]

\* The rows that items do not name stay; of the others the last item stands.
LEMMA AppliedAt ==
  ASSUME NEW items \in Seq(Item), NEW base \in [Ids -> Nat], NEW i \in Ids
  PROVE  /\ i \notin IdsOf(items) => Applied(items, base)[i] = rows[i]
         /\ i \in IdsOf(items) =>
              \E n \in 1 .. Len(items) :
                 /\ items[n].id = i /\ Last(items, n)
                 /\ \E more \in Nat \ {0} :
                      Applied(items, base)[i] = RowOf(items[n], base[i] + more)
<1> DEFINE mine == {n \in 1 .. Len(items) : items[n].id = i}
<1>1. mine = {} <=> i \notin IdsOf(items)
  BY DEF IdsOf
<1>2. mine = {} => Applied(items, base)[i] = rows[i]
  BY DEF Applied
<1>3. ASSUME mine # {}
      PROVE  \E n \in mine : /\ \A m \in mine : m <= n
                             /\ Applied(items, base)[i]
                                  = RowOf(items[n], base[i] + Cardinality(mine))
  <2> DEFINE n == CHOOSE n \in mine : \A m \in mine : m <= n
  <2>1. Len(items) \in Nat /\ mine \in SUBSET (1 .. Len(items))
    OBVIOUS
  <2>2. \E k \in mine : \A m \in mine : m <= k
    <3> HIDE DEF mine
    <3> QED BY <1>3, <2>1, GreatestPlace
  <2>3. n \in mine /\ \A m \in mine : m <= n
    <3> HIDE DEF mine
    <3> QED BY <2>2
  <2>4. Applied(items, base)[i] = RowOf(items[n], base[i] + Cardinality(mine))
    BY <1>3 DEF Applied
  <2> QED BY <2>3, <2>4
<1>4. IsFiniteSet(mine) /\ (mine # {} => Cardinality(mine) \in Nat \ {0})
  <2>1. IsFiniteSet(1 .. Len(items)) /\ mine \in SUBSET (1 .. Len(items))
    BY FS_Interval
  <2> HIDE DEF mine
  <2>2. IsFiniteSet(mine)
    BY <2>1, FS_Subset
  <2> QED BY <2>2, FS_CardinalityType, FS_EmptySet
<1>5. ASSUME i \in IdsOf(items)
      PROVE  \E n \in 1 .. Len(items) :
                /\ items[n].id = i /\ Last(items, n)
                /\ \E more \in Nat \ {0} :
                     Applied(items, base)[i] = RowOf(items[n], base[i] + more)
  <2>1. PICK n \in mine : /\ \A m \in mine : m <= n
                          /\ Applied(items, base)[i]
                               = RowOf(items[n], base[i] + Cardinality(mine))
    <3> HIDE DEF mine
    <3> QED BY <1>1, <1>3, <1>5
  <2>2. Last(items, n)
    BY <2>1 DEF Last
  <2> QED BY <1>1, <1>4, <1>5, <2>1, <2>2
<1> QED BY <1>1, <1>2, <1>5

\* When only one item names a secret, this one stands, one version later.
LEMMA AppliedOnce ==
  ASSUME NEW items \in Seq(Item), NEW base \in [Ids -> Nat], NEW i \in Ids,
         NEW n \in 1 .. Len(items), items[n].id = i,
         \A m \in 1 .. Len(items) : items[m].id = i => m = n
  PROVE  Applied(items, base)[i] = RowOf(items[n], base[i] + 1)
<1> DEFINE mine == {m \in 1 .. Len(items) : items[m].id = i}
<1>1. Applied(items, base)[i]
        = IF mine = {} THEN rows[i]
          ELSE RowOf(items[CHOOSE k \in mine : \A m \in mine : m <= k],
                     base[i] + Cardinality(mine))
  BY DEF Applied
<1>2. mine = {n}
  OBVIOUS
<1>3. Cardinality(mine) = 1
  BY <1>2, FS_Singleton
<1>4. (CHOOSE k \in {n} : \A m \in {n} : m <= k) = n
  OBVIOUS
<1> HIDE DEF mine
<1> QED BY <1>1, <1>2, <1>3, <1>4

\* The rows of a request that is applied are rows.
LEMMA AppliedTyped ==
  ASSUME TypeOK, NEW items \in Seq(Item), NEW base \in [Ids -> Nat]
  PROVE  Applied(items, base) \in Tables
<1>1. ASSUME NEW i \in Ids
      PROVE  Applied(items, base)[i] \in Secret \cup {Absent}
  <2>1. CASE i \notin IdsOf(items)
    BY <2>1, AppliedAt DEF TypeOK, Tables
  <2>2. CASE i \in IdsOf(items)
    <3>1. PICK n \in 1 .. Len(items) :
            \E more \in Nat \ {0} : Applied(items, base)[i] = RowOf(items[n], base[i] + more)
      <4>1. \E n \in 1 .. Len(items) :
              /\ items[n].id = i /\ Last(items, n)
              /\ \E more \in Nat \ {0} :
                   Applied(items, base)[i] = RowOf(items[n], base[i] + more)
        BY ONLY <2>2, AppliedAt
      <4> QED BY <4>1
    <3>2. PICK more \in Nat \ {0} : Applied(items, base)[i] = RowOf(items[n], base[i] + more)
      BY <3>1
    <3>3. items[n] \in Item
      OBVIOUS
    <3>4. base[i] + more \in Nat
      OBVIOUS
    <3> QED BY <3>2, <3>3, <3>4 DEF RowOf, Item, Secret
  <2> QED BY <2>1, <2>2
<1> QED BY <1>1 DEF Applied, Tables

\* The fields of each kind of request.
LEMMA RequestFields ==
  ASSUME TypeOK, NEW r \in pending
  PROVE  /\ r \in Requests /\ r \in Request
         /\ Creates(r) \/ Updates(r) => r.items \in Seq(Item)
         /\ r.op = "delete" => r.id \in Ids
         /\ r.op = "comment" => r.comment \in Comments
<1>1. r \in Requests /\ r \in Request
  BY SecretDataAssumption DEF TypeOK
<1> QED BY <1>1 DEF Request, Creates, Updates

\* A live row, changed or deleted, is a secret.
LEMMA LiveRow ==
  ASSUME NEW table \in Tables, NEW i \in Ids, Live(table, i)
  PROVE  /\ table[i] \in Secret
         /\ Deleted(table[i]) \in Secret
         /\ Deleted(table[i]).state = "deleted"
         /\ \A text \in Comments : /\ [table[i] EXCEPT !.comment = text] \in Secret
                                   /\ [table[i] EXCEPT !.comment = text].state = "live"
                                   /\ [table[i] EXCEPT !.comment = text].key = table[i].key
<1>1. table[i] \in Secret
  BY DEF Tables, Live, Absent
<1> QED BY <1>1 DEF Secret, Deleted, Live

\* Creations and updates apply their items.
LEMMA AppliesItems ==
  ASSUME TypeOK, NEW c \in Calls, NEW r \in pending
  PROVE  /\ Create(c, r) => rows' = Applied(r.items, [i \in Ids |-> 0])
         /\ Update(c, r) =>
              /\ [i \in Ids |-> IF Live(rows, i) THEN rows[i].version ELSE 0] \in [Ids -> Nat]
              /\ rows' = Applied(r.items,
                                 [i \in Ids |-> IF Live(rows, i) THEN rows[i].version ELSE 0])
<1>1. Create(c, r) => rows' = Applied(r.items, [i \in Ids |-> 0])
  BY DEF Create, Apply, Applied, Commit
<1>2. ASSUME Update(c, r)
      PROVE  /\ [i \in Ids |-> IF Live(rows, i) THEN rows[i].version ELSE 0] \in [Ids -> Nat]
             /\ rows' = Applied(r.items,
                                [i \in Ids |-> IF Live(rows, i) THEN rows[i].version ELSE 0])
  <2> DEFINE base == [i \in Ids |-> IF Live(rows, i) THEN rows[i].version ELSE 0]
  <2>1. \A i \in Ids : Live(rows, i) => rows[i].version \in Nat
    BY LiveRow DEF TypeOK, Secret
  <2>2. \A i \in Ids : i \in IdsOf(r.items) => base[i] = rows[i].version
    BY <1>2 DEF Update
  <2>3. rows' = Apply(r.items, LAMBDA i : rows[i].version)
    BY <1>2 DEF Update, Commit
  <2>4. \A i \in Ids : {n \in 1 .. Len(r.items) : r.items[n].id = i} # {} => i \in IdsOf(r.items)
    BY DEF IdsOf
  <2>5. rows' = Applied(r.items, base)
    <3> DEFINE mine(i) == {n \in 1 .. Len(r.items) : r.items[n].id = i}
               last(i) == r.items[CHOOSE n \in mine(i) : \A m \in mine(i) : m <= n]
               Then(i, version) == IF mine(i) = {} THEN rows[i]
                                   ELSE RowOf(last(i), version + Cardinality(mine(i)))
    <3>1. rows' = [i \in Ids |-> Then(i, rows[i].version)]
      BY <2>3 DEF Apply
    <3>2. Applied(r.items, base) = [i \in Ids |-> Then(i, base[i])]
      BY DEF Applied
    <3>3. \A i \in Ids : Then(i, rows[i].version) = Then(i, base[i])
      <4> HIDE DEF base, last
      <4> QED BY <2>2, <2>4
    <3> HIDE DEF base, Then
    <3> QED BY <3>1, <3>2, <3>3
  <2> QED BY <2>1, <2>5
<1> QED BY <1>1, <1>2

\* What SecretStore is shown to promise of the table.
Table == INSTANCE SecretRows

\* The data of the two specifications are the same.
LEMMA SameData ==
  /\ Table!Tables = Tables
  /\ \A t : Table!Unique(t) <=> Unique(t)
  /\ \A r : (Table!Creates(r) <=> Creates(r)) /\ (Table!Updates(r) <=> Updates(r))
  /\ \A items : Table!IdsOf(items) = IdsOf(items)
  /\ \A item, version : Table!RowOf(item, version) = RowOf(item, version)
  /\ \A row : Table!Deleted(row) = Deleted(row)
  /\ \A t, i : Table!Live(t, i) <=> Live(t, i)
  /\ Table!Absent = Absent
  BY DEF Table!Tables, Tables, Table!Secret, Secret, Table!Absent, Absent,
         Table!Unique, Unique, Table!Siblings, Siblings, Table!Live, Live,
         Table!Creates, Creates, Table!Updates, Updates, Table!IdsOf, IdsOf,
         Table!RowOf, RowOf, Table!Deleted, Deleted

\* Rows of which each is what it was, or deleted, or has its state and its key
\* still, are unique still.
LEMMA UniqueStays ==
  ASSUME Unique(rows), NEW table,
         \A i \in Ids : Live(table, i) => Live(rows, i) /\ table[i].key = rows[i].key
  PROVE  Unique(table)
BY DEF Unique

\* A creation of the table.
LEMMA CreateTable ==
  ASSUME TypeOK, NEW c \in Calls, NEW r \in pending, Create(c, r)
  PROVE  rows' \in Tables /\ Unique(rows') /\ Table!Create(r)
<1> DEFINE zero == [i \in Ids |-> 0]
<1>1. r \in Requests /\ Creates(r) /\ r.items \in Seq(Item) /\ zero \in [Ids -> Nat]
  BY RequestFields DEF Create
<1>2. rows' = Applied(r.items, zero)
  BY AppliesItems
<1>3. \A i \in Ids : zero[i] = 0
  OBVIOUS
<1> HIDE DEF zero
<1>4. rows' \in Tables
  BY <1>1, <1>2, AppliedTyped
<1>5. Unique(rows')
  BY DEF Create, Commit
<1>6. ASSUME NEW n \in 1 .. Len(r.items)
      PROVE  /\ rows[r.items[n].id] = Absent
             /\ rows'[r.items[n].id] = RowOf(r.items[n], 1)
  <2>1. r.items[n].id \in Ids
    <3>1. r.items[n] \in Item
      BY <1>1
    <3> QED BY <3>1 DEF Item
  <2>2. r.items[n].id \in IdsOf(r.items)
    BY DEF IdsOf
  <2>3. \A m \in 1 .. Len(r.items) : r.items[m].id = r.items[n].id => m = n
    BY <1>1, SecretDataAssumption
  <2>4. rows'[r.items[n].id] = RowOf(r.items[n], zero[r.items[n].id] + 1)
    <3> DEFINE items == r.items
               i == r.items[n].id
    <3>1. items \in Seq(Item) /\ i \in Ids /\ n \in 1 .. Len(items) /\ items[n].id = i
          /\ \A m \in 1 .. Len(items) : items[m].id = i => m = n
      <4>1. items \in Seq(Item) /\ i \in Ids /\ n \in 1 .. Len(items) /\ items[n].id = i
        BY <1>1, <2>1
      <4> QED BY <2>3, <4>1
    <3> HIDE DEF items, i
    <3>2. Applied(items, zero)[i] = RowOf(items[n], zero[i] + 1)
      BY <1>1, <3>1, AppliedOnce
    <3> USE DEF items, i
    <3> QED BY <1>2, <3>2
  <2>5. zero[r.items[n].id] + 1 = 1
    BY <1>3, <2>1
  <2> QED BY <2>2, <2>4, <2>5 DEF Create
<1>7. \A i \in Ids \ IdsOf(r.items) : rows'[i] = rows[i]
  BY <1>1, <1>2, AppliedAt
<1>8. Table!Create(r)
  BY <1>1, <1>6, <1>7, SameData DEF Table!Create, Table!Others
<1> QED BY <1>4, <1>5, <1>8

\* What an update does to the row of each secret it names.
LEMMA UpdatedAt ==
  ASSUME TypeOK, NEW c \in Calls, NEW r \in pending, Update(c, r), NEW i \in Ids
  PROVE  /\ i \notin IdsOf(r.items) => rows'[i] = rows[i]
         /\ i \in IdsOf(r.items) =>
              /\ Live(rows, i) /\ rows[i].version \in Nat
              /\ \E n \in 1 .. Len(r.items), more \in Nat \ {0} :
                   /\ r.items[n].id = i /\ Last(r.items, n)
                   /\ rows'[i] = RowOf(r.items[n], rows[i].version + more)
<1> DEFINE base == [j \in Ids |-> IF Live(rows, j) THEN rows[j].version ELSE 0]
<1>1. r.items \in Seq(Item)
  BY RequestFields DEF Update
<1>2. base \in [Ids -> Nat] /\ rows' = Applied(r.items, base)
  BY AppliesItems
<1>3. i \in IdsOf(r.items) => Live(rows, i) /\ base[i] = rows[i].version
  BY DEF Update
<1>4. i \notin IdsOf(r.items) => rows'[i] = rows[i]
  <2> HIDE DEF base
  <2> QED BY <1>1, <1>2, AppliedAt
<1>5. ASSUME i \in IdsOf(r.items)
      PROVE  \E n \in 1 .. Len(r.items), more \in Nat \ {0} :
               /\ r.items[n].id = i /\ Last(r.items, n)
               /\ rows'[i] = RowOf(r.items[n], rows[i].version + more)
  <2> HIDE DEF base
  <2>1. PICK n \in 1 .. Len(r.items) :
          /\ r.items[n].id = i /\ Last(r.items, n)
          /\ \E more \in Nat \ {0} : Applied(r.items, base)[i] = RowOf(r.items[n], base[i] + more)
    BY <1>1, <1>2, <1>5, AppliedAt
  <2> QED BY <1>2, <1>3, <1>5, <2>1
<1>6. i \in IdsOf(r.items) => rows[i].version \in Nat
  <2> HIDE DEF base
  <2>1. base[i] \in Nat
    BY <1>2
  <2> QED BY <1>3, <2>1
<1> QED BY <1>3, <1>4, <1>5, <1>6

\* An update of the table.
LEMMA UpdateTable ==
  ASSUME TypeOK, NEW c \in Calls, NEW r \in pending, Update(c, r)
  PROVE  rows' \in Tables /\ Unique(rows') /\ Table!Update(r)
<1>1. Updates(r) /\ r.items \in Seq(Item) /\ Unique(rows')
  BY RequestFields DEF Update, Commit
<1>2. rows' \in Tables
  BY <1>1, AppliesItems, AppliedTyped
<1>3. IdsOf(r.items) \subseteq Ids
  <2>1. \A n \in 1 .. Len(r.items) : r.items[n] \in Item
    BY <1>1
  <2> QED BY <2>1 DEF IdsOf, Item
<1>4. ASSUME NEW i \in IdsOf(r.items)
      PROVE  /\ Live(rows, i)
             /\ rows'[i].version > rows[i].version
             /\ \E n \in 1 .. Len(r.items) :
                  /\ r.items[n].id = i
                  /\ \A m \in n + 1 .. Len(r.items) : r.items[m].id # i
                  /\ rows'[i] = RowOf(r.items[n], rows'[i].version)
  <2>1. i \in Ids
    BY <1>3
  <2>2. PICK n \in 1 .. Len(r.items), more \in Nat \ {0} :
          /\ r.items[n].id = i /\ Last(r.items, n)
          /\ rows'[i] = RowOf(r.items[n], rows[i].version + more)
    BY <2>1, UpdatedAt
  <2>3. Live(rows, i) /\ rows[i].version \in Nat
    BY <2>1, UpdatedAt
  <2>4. rows'[i].version = rows[i].version + more
    BY <2>2 DEF RowOf
  <2>5. rows'[i].version > rows[i].version
    BY <2>3, <2>4
  <2> QED BY <2>2, <2>3, <2>4, <2>5 DEF Last
<1>5. \A i \in Ids \ IdsOf(r.items) : rows'[i] = rows[i]
  BY UpdatedAt
<1>6. Table!Update(r)
  BY <1>1, <1>4, <1>5, SameData DEF Table!Update, Table!Others
<1> QED BY <1>1, <1>2, <1>6

\* Comments of some live secrets.
LEMMA CommentTable ==
  ASSUME TypeOK, Unique(rows), NEW c \in Calls, NEW r \in pending, Comment(c, r)
  PROVE  rows' \in Tables /\ Unique(rows') /\ Table!Comment(r)
<1>1. r.comment \in Comments /\ rows \in Tables
  BY RequestFields DEF Comment, TypeOK
<1>2. PICK S \in SUBSET {i \in Ids : Live(rows, i)} :
        rows' = [i \in Ids |-> IF i \in S THEN [rows[i] EXCEPT !.comment = r.comment] ELSE rows[i]]
  BY DEF Comment, Commit
<1>3. \A i \in S : Live(rows, i) /\ rows'[i] = [rows[i] EXCEPT !.comment = r.comment]
  BY <1>2
<1>4. \A i \in Ids \ S : rows'[i] = rows[i]
  BY <1>2
<1>5. S \in SUBSET Ids /\ rows' = [i \in Ids |-> rows'[i]]
  BY <1>2
<1>6. ASSUME NEW i \in S
      PROVE  rows'[i] \in Secret /\ Live(rows', i) /\ rows'[i].key = rows[i].key
  <2>1. i \in Ids /\ Live(rows, i) /\ rows'[i] = [rows[i] EXCEPT !.comment = r.comment]
    BY <1>3, <1>5
  <2> QED BY <1>1, <2>1, LiveRow DEF Live
<1>7. /\ \A i \in Ids : rows'[i] \in Secret \cup {Absent}
      /\ \A i \in Ids : Live(rows', i) => Live(rows, i) /\ rows'[i].key = rows[i].key
  BY <1>1, <1>3, <1>4, <1>6 DEF Tables, Live
<1>8. Table!Comment(r)
  BY <1>3, <1>4, <1>5, SameData DEF Comment, Table!Comment, Table!Others
<1>9. rows' \in Tables
  BY <1>5, <1>7 DEF Tables
<1> QED BY <1>7, <1>8, <1>9, UniqueStays

\* Rows that are deleted.
LEMMA DeleteTable ==
  ASSUME TypeOK, Unique(rows), NEW S \in SUBSET Ids, \A i \in S : Live(rows, i),
         rows' = [i \in Ids |-> IF i \in S THEN Deleted(rows[i]) ELSE rows[i]]
  PROVE  rows' \in Tables /\ Unique(rows') /\ Table!Delete(S)
<1>1. rows \in Tables
  BY DEF TypeOK
<1>2. \A i \in Ids : rows'[i] \in Secret \cup {Absent}
  BY <1>1, LiveRow DEF Tables
<1>3. \A i \in Ids : Live(rows', i) => Live(rows, i) /\ rows'[i].key = rows[i].key
  BY <1>1, LiveRow DEF Live
<1>4. Table!Delete(S)
  BY SameData DEF Table!Delete, Table!Others
<1>5. rows' \in Tables
  BY <1>2 DEF Tables
<1> QED BY <1>3, <1>4, <1>5, UniqueStays

\* What a deletion does to the rows, and that of a folder.
LEMMA DeletesRows ==
  ASSUME TypeOK, Unique(rows), NEW c \in Calls, NEW r \in pending
  PROVE  /\ Delete(c, r) =>
              /\ rows' \in Tables /\ Unique(rows') /\ Table!DeleteOne(r)
              /\ r.id \in Ids /\ ~ Live(rows', r.id)
         /\ DeleteFolder(c, r) =>
              rows' \in Tables /\ Unique(rows') /\ Table!DeleteFolder(r)
<1>1. ASSUME Delete(c, r)
      PROVE  /\ rows' \in Tables /\ Unique(rows') /\ Table!DeleteOne(r)
             /\ r.id \in Ids /\ ~ Live(rows', r.id)
  <2>1. r.id \in Ids /\ Live(rows, r.id) /\ rows \in Tables
    BY <1>1, RequestFields DEF Delete, TypeOK
  <2>2. rows' = [rows EXCEPT ![r.id] = Deleted(@)]
    BY <1>1 DEF Delete, Commit
  <2>3. rows' = [i \in Ids |-> IF i \in {r.id} THEN Deleted(rows[i]) ELSE rows[i]]
    BY <2>1, <2>2 DEF Tables
  <2>4. rows' \in Tables /\ Unique(rows') /\ Table!Delete({r.id})
    BY <2>1, <2>3, DeleteTable
  <2>5. ~ Live(rows', r.id)
    BY <2>1, <2>3, LiveRow DEF Live
  <2> QED BY <1>1, <2>1, <2>4, <2>5 DEF Delete, Table!DeleteOne
<1>2. ASSUME DeleteFolder(c, r)
      PROVE  rows' \in Tables /\ Unique(rows') /\ Table!DeleteFolder(r)
  <2>1. PICK S \in SUBSET {i \in Ids : FolderOf[i] = r.folder /\ Live(rows, i)} :
          rows' = [i \in Ids |-> IF i \in S THEN Deleted(rows[i]) ELSE rows[i]]
    BY <1>2 DEF DeleteFolder, Commit
  <2>2. rows' \in Tables /\ Unique(rows') /\ Table!Delete(S)
    BY <2>1, DeleteTable
  <2>3. S \in SUBSET {i \in Ids : FolderOf[i] = r.folder}
    OBVIOUS
  <2> QED BY <1>2, <2>2, <2>3 DEF DeleteFolder, Table!DeleteFolder
<1> QED BY <1>1, <1>2

Requesting == \E c \in Calls : \E r \in pending :
  Create(c, r) \/ Update(c, r) \/ Comment(c, r) \/ Delete(c, r) \/ DeleteFolder(c, r)

\* A request is one step of the table.
LEMMA TableStep ==
  ASSUME TypeOK, Unique(rows), Requesting
  PROVE  rows' \in Tables /\ Unique(rows') /\ Table!Next
<1>1. PICK c \in Calls : \E r \in pending :
        Create(c, r) \/ Update(c, r) \/ Comment(c, r) \/ Delete(c, r) \/ DeleteFolder(c, r)
  BY DEF Requesting
<1>2. PICK r \in pending :
        Create(c, r) \/ Update(c, r) \/ Comment(c, r) \/ Delete(c, r) \/ DeleteFolder(c, r)
  BY <1>1
<1>3. rows' \in Tables /\ Unique(rows')
  BY <1>2, CreateTable, UpdateTable, CommentTable, DeletesRows
<1>4. Table!Create(r) \/ Table!Update(r) \/ Table!Comment(r) \/ Table!DeleteOne(r)
        \/ Table!DeleteFolder(r)
  BY <1>2, CreateTable, UpdateTable, CommentTable, DeletesRows
<1>5. r \in Requests
  BY RequestFields
<1> QED BY <1>3, <1>4, <1>5, SameData DEF Table!Next

\* No other step changes the table.
LEMMA TableStays ==
  ASSUME [Next]_vars, ~ Requesting
  PROVE  rows' = rows
<1>1. CASE UNCHANGED vars
  BY <1>1 DEF vars
<1>2. ASSUME NEW p \in Procs, UpsertSecret(p) \/ DeleteSecret(p) \/ RedisFails(p)
      PROVE  rows' = rows
  BY <1>2 DEF UpsertSecret, HGet, DelOldPath, HSet, SetPath, SAdd,
              DeleteSecret, HGetPath, DelHash, SRem, RedisFails
<1>3. ASSUME NEW p \in Procs, \/ GetSecret(p) \/ ListSecretCacheRecords(p)
                              \/ DelIds(p) \/ ScanPaths(p) \/ DelPaths(p)
      PROVE  rows' = rows
  BY <1>3 DEF GetSecret, ListSecretCacheRecords, DelIds, ScanPaths, DelPaths
<1>4. ASSUME NEW s \in Searches,
             SMembers(s) \/ searchType(s) \/ filterSecretHits(s) \/ GlobalSearch(s)
      PROVE  rows' = rows
  BY <1>4 DEF SMembers, searchType, filterSecretHits, GlobalSearch
<1> QED BY <1>1, <1>2, <1>3, <1>4 DEF Next, Requesting, WarmSecrets, Procs

-----------------------------------------------------------------------------
(* Types, and what a process has at each place                             *)

\* One process moves, to where it may be.
Moves(p) ==
  /\ proc' = [proc EXCEPT ![p] = proc'[p]]
  /\ proc'[p] \in Process
  /\ Shape(p)'

\* The others stay as they are.
LEMMA MovesKept ==
  ASSUME TypeOK, Structured, NEW p \in Procs, Moves(p)
  PROVE  /\ proc' \in [Procs -> Process] /\ Structured'
         /\ \A q \in Procs \ {p} : proc'[q] = proc[q]
<1>1. proc \in [Procs -> Process]
  BY DEF TypeOK
<1>2. proc' \in [Procs -> Process] /\ \A q \in Procs \ {p} : proc'[q] = proc[q]
  BY <1>1 DEF Moves
<1>3. ASSUME NEW q \in Procs
      PROVE  Shape(q)'
  BY <1>2, <1>3 DEF Structured, Moves, Shape, At
<1> QED BY <1>2, <1>3 DEF Structured

\* The fields of a process.
LEMMA ProcFields ==
  ASSUME TypeOK, Structured, NEW p \in Procs
  PROVE  /\ proc[p] \in Process
         /\ proc[p].pc \in Pcs /\ proc[p].read \in Seq(Item)
         /\ proc[p].todo \in Seq(Record \cup [id : Ids])
         /\ proc[p].found \in SUBSET Paths
         /\ proc[p].pc \notin Removing => proc[p].todo \in Seq(Record)
<1>1. proc[p] \in Process
  BY DEF TypeOK
<1> QED BY <1>1 DEF Structured, Shape, Process

\* The secret that is being written.
LEMMA NowTyped ==
  ASSUME TypeOK, Structured, NEW p \in Procs
  PROVE  /\ proc[p].pc \in Upserting =>
              /\ proc[p].todo \in Seq(Record) /\ proc[p].todo # << >> /\ proc[p].read = << >>
              /\ Now(p) \in Record /\ Now(p).id \in Ids /\ Now(p).key \in Keys
              /\ EntryOf(Now(p)) \in Entry
         /\ proc[p].pc \in Removing => proc[p].todo # << >> /\ Now(p).id \in Ids
<1>1. Shape(p) /\ proc[p].todo \in Seq(Record \cup [id : Ids])
  BY ProcFields DEF Structured
<1>2. ASSUME proc[p].pc \in Upserting
      PROVE  /\ proc[p].todo \in Seq(Record) /\ proc[p].todo # << >> /\ proc[p].read = << >>
             /\ Now(p) \in Record /\ Now(p).id \in Ids /\ Now(p).key \in Keys
             /\ EntryOf(Now(p)) \in Entry
  <2>1. proc[p].todo \in Seq(Record) /\ proc[p].todo # << >> /\ proc[p].read = << >>
    BY <1>1, <1>2 DEF Shape, At, Upserting, Removing
  <2>2. Now(p) \in Record
    BY <2>1, HeadAndTail DEF Now
  <2> QED BY <2>1, <2>2 DEF Record, EntryOf, Entry
<1>3. ASSUME proc[p].pc \in Removing
      PROVE  proc[p].todo # << >> /\ Now(p).id \in Ids
  <2>1. proc[p].todo # << >>
    BY <1>1, <1>3 DEF Shape
  <2>2. Now(p) \in Record \cup [id : Ids]
    BY <1>1, <2>1, HeadAndTail DEF Now
  <2> QED BY <2>1, <2>2 DEF Record
<1> QED BY <1>2, <1>3

LEMMA PathTyped ==
  ASSUME TypeOK, NEW i \in Ids
  PROVE  PathIn(i) \in SUBSET Paths
BY SecretDataAssumption DEF TypeOK, PathIn, PathOf, Paths, Entry

\* The record of a live row.
LEMMA RecordTyped ==
  ASSUME TypeOK, NEW i \in Ids, Live(rows, i), NEW value \in Values
  PROVE  /\ RecordOf(i, rows[i]) \in Record
         /\ [RecordOf(i, rows[i]) EXCEPT !.value = value] \in Record
<1>1. rows[i] \in Secret
  BY LiveRow DEF TypeOK
<1> QED BY <1>1 DEF Secret, RecordOf, Record

\* Where the next record begins.
LEMMA NextMoves ==
  ASSUME TypeOK, Structured, NEW p \in Procs, proc[p].pc \in Upserting, NextRecord(p)
  PROVE  Moves(p)
<1>1. /\ proc[p].todo \in Seq(Record) /\ proc[p].todo # << >> /\ proc[p].read = << >>
      /\ proc[p] \in Process
  BY ProcFields, NowTyped
<1>2. /\ proc'[p] = [proc[p] EXCEPT !.todo = Tail(@), !.found = {},
                       !.pc = IF Len(proc[p].todo) = 1 THEN "idle" ELSE "hget"]
      /\ proc' = [proc EXCEPT ![p] = proc'[p]]
  BY DEF NextRecord, TypeOK
<1>3. /\ Tail(proc[p].todo) \in Seq(Record)
      /\ Len(proc[p].todo) # 1 => Tail(proc[p].todo) # << >>
  BY <1>1, HeadAndTail
<1>4. Tail(proc[p].todo) \in Seq(Record \cup [id : Ids])
  BY <1>3
<1>5. proc'[p] \in Process
  BY <1>1, <1>2, <1>4 DEF Process, Pcs, Upserting
<1>6. /\ proc'[p].pc = (IF Len(proc[p].todo) = 1 THEN "idle" ELSE "hget")
      /\ proc'[p].todo = Tail(proc[p].todo) /\ proc'[p].read = << >>
  BY <1>1, <1>2 DEF Process
<1>7. Shape(p)'
  BY <1>3, <1>6 DEF Shape, At, Upserting, Removing, Clearing
<1> QED BY <1>2, <1>5, <1>7 DEF Moves

\* A process that goes on with the same record.
LEMMA GoesOn ==
  ASSUME TypeOK, Structured, NEW p \in Procs, NEW pc \in Upserting, NEW found \in SUBSET Paths,
         proc[p].pc \in Upserting,
         proc' = [proc EXCEPT ![p].found = found, ![p].pc = pc]
  PROVE  Moves(p) /\ proc'[p].todo = proc[p].todo /\ proc'[p].read = proc[p].read
                  /\ proc'[p].pc = pc
<1>1. proc[p] \in Process /\ Shape(p) /\ proc \in [Procs -> Process]
  BY ProcFields DEF Structured, TypeOK
<1>2. /\ proc'[p] = [proc[p] EXCEPT !.found = found, !.pc = pc]
      /\ proc' = [proc EXCEPT ![p] = proc'[p]]
  BY <1>1
<1>3. /\ proc'[p].todo = proc[p].todo /\ proc'[p].read = proc[p].read /\ proc'[p].pc = pc
      /\ proc'[p] \in Process
  BY <1>1, <1>2 DEF Process, Pcs
<1>4. Shape(p)'
  BY <1>1, <1>3 DEF Shape, At, Upserting, Removing, Clearing
<1> QED BY <1>2, <1>3, <1>4 DEF Moves

\* A process that ends.
LEMMA EndsIdle ==
  ASSUME TypeOK, NEW p \in Procs, proc' = [proc EXCEPT ![p] = Idle]
  PROVE  Moves(p) /\ proc'[p] = Idle
<1>1. proc'[p] = Idle /\ proc' = [proc EXCEPT ![p] = proc'[p]]
  BY DEF TypeOK
<1>2. Idle \in Process
  BY DEF Idle, Process, Pcs
<1>3. Shape(p)'
  <2>1. << >> \in Seq(Record)
    OBVIOUS
  <2>2. proc'[p].pc = "idle" /\ proc'[p].todo = << >> /\ proc'[p].read = << >>
    BY <1>1 DEF Idle
  <2> QED BY <2>1, <2>2 DEF Shape, At, Upserting, Removing, Clearing
<1> QED BY <1>1, <1>2, <1>3 DEF Moves

\* The steps of an upsert.
LEMMA HGetTyped ==
  ASSUME TypeOK, Structured, NEW p \in Procs, HGet(p)
  PROVE  /\ Moves(p) /\ proc'[p].todo = proc[p].todo /\ proc'[p].read = proc[p].read
         /\ proc'[p].pc \in {"hset", "del"}
<1> DEFINE old == PathIn(Now(p).id) \ {PathOf(Now(p).id, Now(p).key)}
           pc == IF old = {} THEN "hset" ELSE "del"
<1>1. proc[p].pc \in Upserting
  BY DEF HGet, At, Upserting
<1>2. old \in SUBSET Paths
  BY <1>1, NowTyped, PathTyped
<1>3. pc \in Upserting /\ pc \in {"hset", "del"}
  BY DEF Upserting
<1>4. proc' = [proc EXCEPT ![p].found = old, ![p].pc = pc]
  BY DEF HGet
<1> HIDE DEF old, pc
<1> QED BY <1>1, <1>2, <1>3, <1>4, GoesOn

LEMMA DelOldPathTyped ==
  ASSUME TypeOK, Structured, NEW p \in Procs, DelOldPath(p)
  PROVE  /\ Moves(p) /\ proc'[p].todo = proc[p].todo /\ proc'[p].read = proc[p].read
         /\ proc'[p].pc = "hset"
         /\ paths' \in [Paths -> Ids \cup {NoId}]
<1>1. proc[p].pc \in Upserting /\ "hset" \in Upserting /\ {} \in SUBSET Paths
  BY DEF DelOldPath, At, Upserting
<1>2. proc' = [proc EXCEPT ![p].found = {}, ![p].pc = "hset"]
  BY DEF DelOldPath, TypeOK
<1>3. paths' \in [Paths -> Ids \cup {NoId}]
  BY DEF DelOldPath, TypeOK
<1> QED BY <1>1, <1>2, <1>3, GoesOn

LEMMA HSetTyped ==
  ASSUME TypeOK, Structured, NEW p \in Procs, HSet(p) \/ SetPath(p)
  PROVE  /\ Moves(p) /\ proc'[p].todo = proc[p].todo /\ proc'[p].read = proc[p].read
         /\ HSet(p) => proc'[p].pc = "set"
         /\ SetPath(p) => proc'[p].pc = "sadd"
         /\ paths' \in [Paths -> Ids \cup {NoId}]
         /\ hash' \in [Ids -> Entry \cup {None}]
<1>1. proc[p].pc \in Upserting
  BY DEF HSet, SetPath, At, Upserting
<1>2. ASSUME NEW pc \in Upserting, Goto(p, pc)
      PROVE  Moves(p) /\ proc'[p].todo = proc[p].todo /\ proc'[p].read = proc[p].read
                      /\ proc'[p].pc = pc
  <2>1. proc[p].found \in SUBSET Paths /\ proc[p] \in Process
    BY ProcFields
  <2>2. proc' = [proc EXCEPT ![p].found = proc[p].found, ![p].pc = pc]
    BY <1>2, <2>1 DEF Goto, TypeOK, Process
  <2> QED BY <1>1, <2>1, <2>2, GoesOn
<1>3. Now(p).id \in Ids /\ EntryOf(Now(p)) \in Entry
  BY <1>1, NowTyped
<1>4. CASE HSet(p)
  <2>1. Goto(p, "set") /\ "set" \in Upserting /\ ~ SetPath(p)
    BY <1>4 DEF HSet, SetPath, Upserting, At
  <2> QED BY <1>2, <1>3, <1>4, <2>1 DEF HSet, TypeOK
<1>5. CASE SetPath(p)
  <2>1. Goto(p, "sadd") /\ "sadd" \in Upserting /\ ~ HSet(p)
    BY <1>5 DEF HSet, SetPath, Upserting, At
  <2> QED BY <1>2, <1>3, <1>5, <2>1 DEF SetPath, TypeOK
<1> QED BY <1>4, <1>5

LEMMA UpsertTyped ==
  ASSUME TypeOK, Structured, NEW p \in Procs, UpsertSecret(p)
  PROVE  TypeOK' /\ Structured'
<1>1. CASE HGet(p)
  BY <1>1, HGetTyped, MovesKept DEF HGet, TypeOK, redis
<1>2. CASE DelOldPath(p)
  BY <1>2, DelOldPathTyped, MovesKept DEF DelOldPath, TypeOK
<1>3. CASE HSet(p)
  BY <1>3, HSetTyped, MovesKept DEF HSet, TypeOK, Touch
<1>4. CASE SetPath(p)
  BY <1>4, HSetTyped, MovesKept DEF SetPath, TypeOK
<1>5. CASE SAdd(p)
  <2>1. Moves(p) /\ Now(p).id \in Ids
    BY <1>5, NextMoves, NowTyped DEF SAdd, At, Upserting
  <2>2. index' \subseteq Ids
    BY <1>5, <2>1 DEF SAdd, Indexed, TypeOK
  <2>3. alone' \in [Procs -> SUBSET Ids] /\ fresh' \subseteq Ids
    BY <1>5, <2>1 DEF SAdd, Settle, TypeOK
  <2>4. proc' \in [Procs -> Process] /\ Structured'
    BY <2>1, MovesKept
  <2> QED BY <1>5, <2>2, <2>3, <2>4 DEF SAdd, TypeOK
<1> QED BY <1>1, <1>2, <1>3, <1>4, <1>5 DEF UpsertSecret

\* The steps of a deletion.
LEMMA DeletionTyped ==
  ASSUME TypeOK, Structured, NEW p \in Procs, DeleteSecret(p)
  PROVE  /\ TypeOK' /\ Structured' /\ Moves(p)
         /\ SRem(p) => proc'[p] = Idle
         /\ ~ SRem(p) => proc'[p].todo = proc[p].todo /\ proc'[p].pc \in {"delhash", "srem"}
<1>0. proc[p].pc \in Removing /\ Now(p).id \in Ids /\ proc[p] \in Process /\ Shape(p)
      /\ (HGetPath(p) \/ DelHash(p) => ~ SRem(p))
  BY NowTyped, ProcFields DEF DeleteSecret, HGetPath, DelHash, SRem, At, Removing, Structured
<1>1. ASSUME NEW pc \in {"delhash", "srem"}, NEW found \in SUBSET Paths,
             proc' = [proc EXCEPT ![p].found = found, ![p].pc = pc]
      PROVE  Moves(p) /\ proc'[p].todo = proc[p].todo /\ proc'[p].pc = pc
  <2>1. /\ proc'[p] = [proc[p] EXCEPT !.found = found, !.pc = pc]
        /\ proc' = [proc EXCEPT ![p] = proc'[p]]
    BY <1>1 DEF TypeOK
  <2>2. /\ proc'[p].todo = proc[p].todo /\ proc'[p].read = proc[p].read /\ proc'[p].pc = pc
        /\ proc'[p] \in Process
    BY <1>0, <2>1 DEF Process, Pcs, Removing
  <2>3. Shape(p)'
    BY <1>0, <2>2 DEF Shape, At, Upserting, Removing, Clearing
  <2> QED BY <2>1, <2>2, <2>3 DEF Moves
<1>2. CASE HGetPath(p)
  <2>1. PathIn(Now(p).id) \in SUBSET Paths
    BY <1>0, PathTyped
  <2>2. Moves(p) /\ proc'[p].todo = proc[p].todo /\ proc'[p].pc = "delhash"
    BY <1>1, <1>2, <2>1 DEF HGetPath
  <2>3. proc' \in [Procs -> Process] /\ Structured'
    BY <2>2, MovesKept
  <2> QED BY <1>0, <1>2, <2>2, <2>3 DEF HGetPath, TypeOK, redis
<1>3. CASE DelHash(p)
  <2>1. proc[p].found \in SUBSET Paths
    BY <1>0 DEF Process
  <2>2. proc' = [proc EXCEPT ![p].found = proc[p].found, ![p].pc = "srem"]
    BY <1>0, <1>3 DEF DelHash, Goto, TypeOK, Process
  <2>3. Moves(p) /\ proc'[p].todo = proc[p].todo /\ proc'[p].pc = "srem"
    BY <1>1, <2>1, <2>2
  <2>4. proc' \in [Procs -> Process] /\ Structured'
    BY <2>3, MovesKept
  <2>5. hash' \in [Ids -> Entry \cup {None}] /\ paths' \in [Paths -> Ids \cup {NoId}]
    BY <1>3 DEF DelHash, TypeOK
  <2>6. alone' \in [Procs -> SUBSET Ids] /\ fresh' \subseteq Ids
    BY <1>3 DEF DelHash, Touch, TypeOK
  <2> QED BY <1>0, <1>3, <2>3, <2>4, <2>5, <2>6 DEF DelHash, TypeOK
<1>4. CASE SRem(p)
  <2>1. Moves(p) /\ proc'[p] = Idle
    BY <1>4, EndsIdle DEF SRem
  <2>2. proc' \in [Procs -> Process] /\ Structured'
    BY <2>1, MovesKept
  <2>3. alone' \in [Procs -> SUBSET Ids] /\ fresh' \subseteq Ids
    BY <1>0, <1>4 DEF SRem, Settle, TypeOK
  <2> QED BY <1>4, <2>1, <2>2, <2>3 DEF SRem, TypeOK
<1> QED BY <1>2, <1>3, <1>4 DEF DeleteSecret

\* The steps of a warm-up that are not those of an upsert.
LEMMA ListTyped ==
  ASSUME TypeOK, Structured, NEW w \in Warmers, ListSecretCacheRecords(w)
  PROVE  /\ TypeOK' /\ Structured' /\ Moves(w) /\ proc'[w].pc = "delids"
         /\ IdsOf(proc'[w].todo) = {i \in Ids : Live(rows, i)}
         /\ \A n \in 1 .. Len(proc'[w].todo) : Current(proc'[w].todo[n])
<1> DEFINE S == {i \in Ids : Live(rows, i)}
<1>1. PICK order \in Orders(S) :
        proc' = [proc EXCEPT
          ![w].todo = [n \in DOMAIN order |-> RecordOf(order[n], rows[order[n]])],
          ![w].pc = "delids"]
  BY DEF ListSecretCacheRecords
<1> DEFINE records == [n \in DOMAIN order |-> RecordOf(order[n], rows[order[n]])]
           len == Cardinality(S)
<1>2. len \in Nat
  <2>1. IsFiniteSet(S)
    BY SecretDataAssumption, FS_Subset
  <2> HIDE DEF S
  <2> QED BY <2>1, FS_CardinalityType
<1>3. order \in [1 .. len -> S] /\ \A i \in S : \E n \in 1 .. len : order[n] = i
  BY DEF Orders
<1>4. \A n \in 1 .. len : /\ records[n] = RecordOf(order[n], rows[order[n]])
                          /\ order[n] \in Ids /\ Live(rows, order[n])
  BY <1>3
<1>5. \A n \in 1 .. len : records[n] \in Record /\ records[n].id = order[n]
  <2>1. ASSUME NEW n \in 1 .. len
        PROVE  records[n] \in Record /\ records[n].id = order[n]
    <3>1. rows[order[n]] \in Secret
      BY <1>4, LiveRow DEF TypeOK
    <3> DEFINE i == order[n]
               row == rows[i]
    <3>2. i \in Ids /\ row \in Secret
      BY <1>4, <3>1
    <3> HIDE DEF len, records, i, row
    <3>3. RecordOf(i, row) \in Record /\ RecordOf(i, row).id = i
      BY <3>2 DEF Secret, RecordOf, Record
    <3> USE DEF i, row
    <3> QED BY <1>4, <3>3
  <2> QED BY <2>1
<1>6. records \in [1 .. len -> Record]
  <2> HIDE DEF len
  <2> QED BY <1>3, <1>5
<1>7. /\ records \in Seq(Record) /\ records \in Seq(Record \cup [id : Ids])
      /\ Len(records) = len
  <2> HIDE DEF len, records
  <2> QED BY <1>2, <1>6
<1>8. /\ proc[w] \in Process /\ Shape(w) /\ At(w, "list") /\ w \in Procs /\ w \notin Calls
      /\ proc \in [Procs -> Process]
  BY ProcFields, SecretCacheAssumption DEF Structured, ListSecretCacheRecords, Procs, TypeOK
<1>9. /\ proc'[w] = [proc[w] EXCEPT !.todo = records, !.pc = "delids"]
      /\ proc' = [proc EXCEPT ![w] = proc'[w]]
  <2> HIDE DEF records
  <2>1. proc' = [proc EXCEPT ![w].todo = records, ![w].pc = "delids"]
    BY <1>1 DEF records
  <2> QED BY <1>8, <2>1
<1>10. /\ proc'[w] \in Process
       /\ proc'[w].pc = "delids" /\ proc'[w].todo = records /\ proc'[w].read = proc[w].read
  <2> HIDE DEF records
  <2> QED BY <1>7, <1>8, <1>9 DEF Process, Pcs, Clearing
<1>11. Shape(w)'
  <2> HIDE DEF records
  <2> QED BY <1>7, <1>8, <1>10 DEF Shape, At, Upserting, Removing, Clearing
<1>12. Moves(w)
  BY <1>9, <1>10, <1>11 DEF Moves
<1>13. IdsOf(records) = S
  <2>1. IdsOf(records) = {order[n] : n \in 1 .. len}
    <3> HIDE DEF records, len
    <3> QED BY <1>5, <1>7 DEF IdsOf
  <2> QED BY <1>3, <2>1
<1>14. \A n \in 1 .. len : Current(records[n])
  <2> HIDE DEF records
  <2> QED BY <1>4, <1>5 DEF Current
<1>15. alone' \in [Procs -> SUBSET Ids]
  BY <1>8 DEF ListSecretCacheRecords, TypeOK
<1>16. proc' \in [Procs -> Process] /\ Structured'
  BY <1>8, <1>12, MovesKept
<1>17. TypeOK'
  BY <1>15, <1>16 DEF ListSecretCacheRecords, TypeOK, redis
<1> HIDE DEF records
<1> QED BY <1>7, <1>10, <1>12, <1>13, <1>14, <1>16, <1>17

LEMMA ClearTyped ==
  ASSUME TypeOK, Structured, NEW w \in Warmers, DelIds(w) \/ ScanPaths(w) \/ DelPaths(w)
  PROVE  /\ TypeOK' /\ Structured' /\ Moves(w)
         /\ proc'[w].todo = proc[w].todo /\ proc'[w].read = proc[w].read
         /\ DelIds(w) => proc'[w].pc = "scan"
         /\ ScanPaths(w) => proc'[w].pc = "delpaths"
         /\ DelPaths(w) => proc'[w].pc = IF proc[w].todo = << >> THEN "idle" ELSE "hget"
<1>1. /\ proc[w] \in Process /\ Shape(w) /\ w \in Procs /\ w \notin Calls
      /\ proc \in [Procs -> Process] /\ proc[w].pc \in Clearing
  BY ProcFields, SecretCacheAssumption
     DEF Structured, Procs, TypeOK, DelIds, ScanPaths, DelPaths, At, Clearing
<1>2. ASSUME NEW pc \in {"scan", "delpaths", "hget", "idle"}, NEW found \in SUBSET Paths,
             pc = "hget" => proc[w].todo # << >>,
             proc' = [proc EXCEPT ![w].found = found, ![w].pc = pc]
      PROVE  /\ Moves(w) /\ proc' \in [Procs -> Process] /\ Structured'
             /\ proc'[w].todo = proc[w].todo /\ proc'[w].read = proc[w].read
             /\ proc'[w].pc = pc
  <2>1. /\ proc'[w] = [proc[w] EXCEPT !.found = found, !.pc = pc]
        /\ proc' = [proc EXCEPT ![w] = proc'[w]]
    BY <1>1, <1>2
  <2>2. /\ proc'[w].todo = proc[w].todo /\ proc'[w].read = proc[w].read /\ proc'[w].pc = pc
        /\ proc'[w] \in Process
    BY <1>1, <1>2, <2>1 DEF Process, Pcs, Clearing, Upserting
  <2>3. Shape(w)'
    BY <1>1, <1>2, <2>2 DEF Shape, At, Upserting, Removing, Clearing
  <2>4. Moves(w)
    BY <2>1, <2>2, <2>3 DEF Moves
  <2> QED BY <1>1, <2>2, <2>4, MovesKept
<1>3. proc[w].found \in SUBSET Paths /\ proc[w].found = proc[w].found
  BY <1>1 DEF Process
<1>4. CASE DelIds(w)
  <2>1. proc' = [proc EXCEPT ![w].found = proc[w].found, ![w].pc = "scan"]
    BY <1>1, <1>4 DEF DelIds, Goto, Process
  <2>2. /\ Moves(w) /\ proc' \in [Procs -> Process] /\ Structured'
        /\ proc'[w].todo = proc[w].todo /\ proc'[w].read = proc[w].read /\ proc'[w].pc = "scan"
    BY <1>2, <1>3, <2>1
  <2>3. TypeOK'
    BY <1>4, <2>2 DEF DelIds, Touch, TypeOK
  <2> QED BY <1>4, <2>2, <2>3 DEF DelIds, ScanPaths, DelPaths, At
<1>5. CASE ScanPaths(w)
  <2>1. {q \in Paths : paths[q] # NoId} \in SUBSET Paths
    OBVIOUS
  <2>2. /\ Moves(w) /\ proc' \in [Procs -> Process] /\ Structured'
        /\ proc'[w].todo = proc[w].todo /\ proc'[w].read = proc[w].read
        /\ proc'[w].pc = "delpaths"
    BY <1>2, <1>5, <2>1 DEF ScanPaths
  <2>3. TypeOK'
    BY <1>5, <2>2 DEF ScanPaths, TypeOK, redis
  <2> QED BY <1>5, <2>2, <2>3 DEF DelIds, ScanPaths, DelPaths, At
<1>6. CASE DelPaths(w)
  <2> DEFINE pc == IF proc[w].todo = << >> THEN "idle" ELSE "hget"
  <2>1. {} \in SUBSET Paths /\ proc' = [proc EXCEPT ![w].found = {}, ![w].pc = pc]
    BY <1>6 DEF DelPaths
  <2>2. pc \in {"scan", "delpaths", "hget", "idle"} /\ (pc = "hget" => proc[w].todo # << >>)
    OBVIOUS
  <2> HIDE DEF pc
  <2>3. /\ Moves(w) /\ proc' \in [Procs -> Process] /\ Structured'
        /\ proc'[w].todo = proc[w].todo /\ proc'[w].read = proc[w].read /\ proc'[w].pc = pc
    BY <1>2, <2>1, <2>2
  <2>4. alone' \in [Procs -> SUBSET Ids] /\ fresh' \subseteq Ids
    BY <1>1, <1>6 DEF DelPaths, TypeOK
  <2>5. paths' \in [Paths -> Ids \cup {NoId}]
    BY <1>6 DEF DelPaths, TypeOK
  <2>6. TypeOK'
    BY <1>6, <2>3, <2>4, <2>5 DEF DelPaths, TypeOK
  <2> USE DEF pc
  <2> QED BY <1>6, <2>3, <2>6 DEF DelIds, ScanPaths, DelPaths, At
<1> QED BY <1>4, <1>5, <1>6

\* A secret is read again.
LEMMA GetTyped ==
  ASSUME TypeOK, Structured, NEW c \in Calls, GetSecret(c)
  PROVE  LET item == Head(proc[c].read)
             rest == Tail(proc[c].read)
             record == [RecordOf(item.id, rows[item.id]) EXCEPT !.value = item.value]
         IN  /\ TypeOK' /\ Structured' /\ Moves(c)
             /\ item \in Item
             /\ \/ proc'[c] = Idle
                \/ /\ Live(rows, item.id) /\ record \in Record
                   /\ proc[c].todo \in Seq(Record)
                   /\ proc'[c].read = rest
                   /\ proc'[c].todo = Append(proc[c].todo, record)
                   /\ proc'[c].pc = IF rest = << >> THEN "hget" ELSE "read"
<1> DEFINE item == Head(proc[c].read)
           rest == Tail(proc[c].read)
           record == [RecordOf(item.id, rows[item.id]) EXCEPT !.value = item.value]
           pc == IF rest = << >> THEN "hget" ELSE "read"
<1>1. /\ c \in Procs /\ c \notin Warmers /\ proc[c] \in Process /\ Shape(c) /\ At(c, "read")
      /\ proc \in [Procs -> Process]
  BY ProcFields, SecretCacheAssumption DEF Structured, GetSecret, Procs, TypeOK
<1>2. proc[c].read \in Seq(Item) /\ proc[c].read # << >> /\ proc[c].todo \in Seq(Record)
  BY <1>1, ProcFields DEF Shape, At, Removing
<1>3. item \in Item /\ rest \in Seq(Item)
  BY <1>2, HeadAndTail
<1>4. CASE ~ Live(rows, item.id)
  <2>1. proc' = [proc EXCEPT ![c] = Idle]
    BY <1>4 DEF GetSecret
  <2>2. Moves(c) /\ proc'[c] = Idle
    BY <1>1, <2>1, EndsIdle
  <2>3. proc' \in [Procs -> Process] /\ Structured'
    BY <1>1, <2>2, MovesKept
  <2> QED BY <1>3, <2>2, <2>3 DEF GetSecret, TypeOK, redis
<1>5. CASE Live(rows, item.id)
  <2>1. record \in Record
    BY <1>3, <1>5, RecordTyped DEF Item
  <2>2. proc' = [proc EXCEPT ![c].read = rest, ![c].todo = Append(@, record), ![c].pc = pc]
    BY <1>5 DEF GetSecret
  <2> HIDE DEF record, rest, pc
  <2>3. /\ proc'[c] = [proc[c] EXCEPT !.read = rest, !.todo = Append(@, record), !.pc = pc]
        /\ proc' = [proc EXCEPT ![c] = proc'[c]]
    BY <1>1, <2>2
  <2>4. /\ Append(proc[c].todo, record) \in Seq(Record)
        /\ Append(proc[c].todo, record) \in Seq(Record \cup [id : Ids])
        /\ Append(proc[c].todo, record) # << >>
    BY <1>2, <2>1
  <2>5. pc \in {"hget", "read"} /\ (pc = "hget" <=> rest = << >>)
    BY DEF pc
  <2>6. /\ proc'[c] \in Process
        /\ proc'[c].read = rest /\ proc'[c].pc = pc
        /\ proc'[c].todo = Append(proc[c].todo, record)
    BY <1>1, <1>3, <2>3, <2>4, <2>5 DEF Process, Pcs, Upserting
  <2>7. Shape(c)'
    BY <1>1, <2>4, <2>5, <2>6 DEF Shape, At, Upserting, Removing, Clearing
  <2>8. Moves(c)
    BY <2>3, <2>6, <2>7 DEF Moves
  <2>9. proc' \in [Procs -> Process] /\ Structured'
    BY <1>1, <2>8, MovesKept
  <2>10. TypeOK'
    BY <2>9 DEF GetSecret, TypeOK, redis
  <2> USE DEF record, rest, pc
  <2> QED BY <1>2, <1>3, <1>5, <2>1, <2>6, <2>8, <2>9, <2>10
<1> QED BY <1>4, <1>5

\* A command fails.
LEMMA FailTyped ==
  ASSUME TypeOK, Structured, NEW p \in Procs, RedisFails(p)
  PROVE  /\ TypeOK' /\ Structured' /\ Moves(p)
         /\ \/ proc'[p] = Idle /\ alone' = [alone EXCEPT ![p] = {}]
            \/ /\ proc[p].pc \in Upserting /\ NextRecord(p) /\ p \notin Warmers
               /\ alone' = [alone EXCEPT ![p] = @ \ {Now(p).id}]
<1> DEFINE Stops == p \in Warmers \/ At(p, "hgetdel") \/ At(p, "delhash") \/ At(p, "srem")
<1>1. Shape(p) /\ proc[p].pc \in RedisPcs
  BY DEF Structured, RedisFails
<1>2. CASE Stops
  <2>1. proc' = [proc EXCEPT ![p] = Idle] /\ alone' = [alone EXCEPT ![p] = {}]
    BY <1>2 DEF RedisFails
  <2>2. Moves(p) /\ proc'[p] = Idle
    BY <2>1, EndsIdle
  <2>3. proc' \in [Procs -> Process] /\ Structured'
    BY <2>2, MovesKept
  <2>4. TypeOK'
    BY <2>1, <2>3, SecretCacheAssumption DEF RedisFails, TypeOK, redis
  <2> QED BY <2>1, <2>2, <2>3, <2>4
<1>3. CASE ~ Stops
  <2>1. NextRecord(p) /\ alone' = [alone EXCEPT ![p] = @ \ {Now(p).id}] /\ p \notin Warmers
    BY <1>3 DEF RedisFails
  <2>2. proc[p].pc \in Upserting
    BY <1>1, <1>3, <2>1 DEF Shape, RedisPcs, Upserting, Removing, Clearing, At, Procs
  <2>3. Moves(p)
    BY <2>1, <2>2, NextMoves
  <2>4. proc' \in [Procs -> Process] /\ Structured'
    BY <2>3, MovesKept
  <2>5. alone' \in [Procs -> SUBSET Ids]
    BY <2>1 DEF TypeOK
  <2>6. errors' \in Nat
    BY DEF RedisFails, TypeOK
  <2>7. TypeOK'
    BY <2>4, <2>5, <2>6 DEF RedisFails, TypeOK, redis
  <2> QED BY <2>1, <2>2, <2>3, <2>4, <2>7
<1> QED BY <1>2, <1>3

\* A request commits.
LEMMA CommitTyped ==
  ASSUME TypeOK, Structured, NEW c \in Calls, NEW r, NEW table \in Tables, NEW S \in SUBSET Ids,
         NEW next \in Process, Commit(c, r, table, S, next),
         \/ next = Idle
         \/ next.pc = "read" /\ next.read # << >> /\ next.todo = << >>
         \/ next.pc = "hgetdel" /\ next.read = << >> /\ next.todo # << >>
  PROVE  TypeOK' /\ Structured' /\ Moves(c) /\ proc'[c] = next
<1>1. /\ proc'[c] = next /\ proc' = [proc EXCEPT ![c] = proc'[c]]
      /\ c \in Procs /\ c \notin Warmers
  BY SecretCacheAssumption DEF Commit, TypeOK, Procs
<1>2. Shape(c)'
  <2>1. << >> \in Seq(Record)
    OBVIOUS
  <2>2. next = Idle => next.pc = "idle" /\ next.todo = << >> /\ next.read = << >>
    BY DEF Idle
  <2> QED BY <1>1, <2>1, <2>2 DEF Shape, At, Upserting, Removing, Clearing
<1>3. Moves(c)
  BY <1>1, <1>2 DEF Moves
<1>4. proc' \in [Procs -> Process] /\ Structured'
  BY <1>1, <1>3, MovesKept
<1>5. alone' \in [Procs -> SUBSET Ids] /\ fresh' \subseteq Ids
  BY DEF Commit, TouchRows, TypeOK
<1> QED BY <1>1, <1>3, <1>4, <1>5 DEF Commit, Submit, TypeOK, redis

\* What each request leaves its handler to do.
LEMMA RequestTyped ==
  ASSUME TypeOK, Structured, Unique(rows), NEW c \in Calls, NEW r \in pending
  PROVE  /\ Create(c, r) \/ Update(c, r) =>
              /\ TypeOK' /\ Structured' /\ Moves(c) /\ proc'[c] = Written(r.items)
              /\ TouchRows(c, IdsOf(r.items))
         /\ Comment(c, r) \/ DeleteFolder(c, r) =>
              /\ TypeOK' /\ Structured' /\ Moves(c) /\ proc'[c] = Idle
              /\ \E S \in SUBSET Ids : /\ TouchRows(c, S)
                                       /\ \A i \in Ids \ S : rows'[i] = rows[i]
         /\ Delete(c, r) =>
              /\ TypeOK' /\ Structured' /\ Moves(c)
              /\ proc'[c] = [Idle EXCEPT !.pc = "hgetdel", !.todo = <<[id |-> r.id]>>]
              /\ TouchRows(c, {r.id}) /\ r.id \in Ids /\ ~ Live(rows', r.id)
              /\ \A i \in Ids \ {r.id} : rows'[i] = rows[i]
<1>1. Idle \in Process /\ Idle.pc = "idle" /\ Idle.read = << >> /\ Idle.todo = << >>
  BY DEF Idle, Process, Pcs
<1>2. ASSUME Create(c, r) \/ Update(c, r)
      PROVE  /\ TypeOK' /\ Structured' /\ Moves(c) /\ proc'[c] = Written(r.items)
             /\ TouchRows(c, IdsOf(r.items))
  <2>1. r.items \in Seq(Item) /\ r.items # << >>
    BY <1>2, RequestFields DEF Create, Update
  <2>2. IdsOf(r.items) \in SUBSET Ids
    <3>1. \A n \in 1 .. Len(r.items) : r.items[n] \in Item
      BY <2>1
    <3> QED BY <3>1 DEF IdsOf, Item
  <2>3. /\ Written(r.items) \in Process /\ Written(r.items).pc = "read"
        /\ Written(r.items).read = r.items /\ Written(r.items).todo = << >>
    <3>1. ASSUME NEW items \in Seq(Item)
          PROVE  /\ Written(items) \in Process /\ Written(items).pc = "read"
                 /\ Written(items).read = items /\ Written(items).todo = << >>
      <4>1. Idle \in Process /\ Idle.todo = << >>
        BY <1>1
      <4>2. "read" \in Pcs
        BY DEF Pcs
      <4> QED BY <4>1, <4>2 DEF Written, Process
    <3> QED BY <2>1, <3>1
  <2>4. rows' \in Tables
    BY <1>2, CreateTable, UpdateTable
  <2>5. Commit(c, r, rows', IdsOf(r.items), Written(r.items))
    BY <1>2 DEF Create, Update, Commit
  <2>6. TypeOK' /\ Structured' /\ Moves(c) /\ proc'[c] = Written(r.items)
    BY <2>1, <2>2, <2>3, <2>4, <2>5, CommitTyped
  <2> QED BY <2>5, <2>6 DEF Commit
<1>3. ASSUME Comment(c, r) \/ DeleteFolder(c, r)
      PROVE  /\ TypeOK' /\ Structured' /\ Moves(c) /\ proc'[c] = Idle
             /\ \E S \in SUBSET Ids : /\ TouchRows(c, S)
                                      /\ \A i \in Ids \ S : rows'[i] = rows[i]
  <2>1. rows' \in Tables
    BY <1>3, CommentTable, DeletesRows
  <2>2. PICK S \in SUBSET Ids : /\ Commit(c, r, rows', S, Idle)
                               /\ \A i \in Ids \ S : rows'[i] = rows[i]
    <3>1. CASE Comment(c, r)
      <4>1. PICK S \in SUBSET {i \in Ids : Live(rows, i)} :
              Commit(c, r, rows', S, Idle) /\ \A i \in Ids \ S : rows'[i] = rows[i]
        BY <3>1 DEF Comment, Commit
      <4> QED BY <4>1
    <3>2. CASE DeleteFolder(c, r)
      <4>1. PICK S \in SUBSET {i \in Ids : FolderOf[i] = r.folder /\ Live(rows, i)} :
              Commit(c, r, rows', S, Idle) /\ \A i \in Ids \ S : rows'[i] = rows[i]
        BY <3>2 DEF DeleteFolder, Commit
      <4> QED BY <4>1
    <3> QED BY <1>3, <3>1, <3>2
  <2>3. TypeOK' /\ Structured' /\ Moves(c) /\ proc'[c] = Idle
    BY <1>1, <2>1, <2>2, CommitTyped
  <2> QED BY <2>2, <2>3 DEF Commit
<1>4. ASSUME Delete(c, r)
      PROVE  /\ TypeOK' /\ Structured' /\ Moves(c)
             /\ proc'[c] = [Idle EXCEPT !.pc = "hgetdel", !.todo = <<[id |-> r.id]>>]
             /\ TouchRows(c, {r.id}) /\ r.id \in Ids /\ ~ Live(rows', r.id)
             /\ \A i \in Ids \ {r.id} : rows'[i] = rows[i]
  <2> DEFINE next == [Idle EXCEPT !.pc = "hgetdel", !.todo = <<[id |-> r.id]>>]
  <2>1. rows' \in Tables /\ r.id \in Ids /\ ~ Live(rows', r.id)
    BY <1>4, DeletesRows
  <2>2. Commit(c, r, rows', {r.id}, next) /\ \A i \in Ids \ {r.id} : rows'[i] = rows[i]
    BY <1>4 DEF Delete, Commit, TypeOK, Tables
  <2>3. <<[id |-> r.id]>> \in Seq(Record \cup [id : Ids]) /\ <<[id |-> r.id]>> # << >>
    BY <2>1
  <2>4. next \in Process /\ next.pc = "hgetdel" /\ next.read = << >> /\ next.todo # << >>
    BY <1>1, <2>3 DEF Idle, Process, Pcs, Removing
  <2>5. {r.id} \in SUBSET Ids
    BY <2>1
  <2> HIDE DEF next
  <2>6. TypeOK' /\ Structured' /\ Moves(c) /\ proc'[c] = next
    BY <2>1, <2>2, <2>4, <2>5, CommitTyped
  <2> USE DEF next
  <2> QED BY <2>1, <2>2, <2>6 DEF Commit
<1> QED BY <1>2, <1>3, <1>4

\* A search takes a step.
LEMMA SearchTyped ==
  ASSUME TypeOK, Structured, NEW s \in Searches,
         SMembers(s) \/ searchType(s) \/ filterSecretHits(s) \/ GlobalSearch(s)
  PROVE  /\ TypeOK' /\ Structured'
         /\ proc' = proc /\ alone' = alone /\ rows' = rows /\ hash' = hash /\ index' = index
         /\ fresh' = fresh
         /\ \A t \in Searches \ {s} : search'[t] = search[t]
<1>1. /\ search[s] \in SearchState /\ search \in [Searches -> SearchState]
      /\ rows' = rows /\ hash' = hash /\ paths' = paths /\ index' = index /\ proc' = proc
      /\ alone' = alone /\ fresh' = fresh /\ pending' = pending /\ errors' = errors
  BY DEF TypeOK, SMembers, searchType, filterSecretHits, GlobalSearch, redis
<1>2. search' = [search EXCEPT ![s] = search'[s]] /\ search'[s] \in SearchState
  <2>1. CASE SMembers(s)
    <3>1. index \in SUBSET Ids
      BY DEF TypeOK
    <3> QED BY <1>1, <2>1, <3>1 DEF SMembers, SearchState
  <2>2. CASE searchType(s)
    <3> DEFINE matching ==
          {i \in search[s].hits : hash[i] # None /\ matchKeywordOnFields(hash[i])}
    <3>1. PICK H \in SUBSET matching :
            search' = [search EXCEPT ![s].pc = "filter", ![s].hits = H]
      BY <2>2 DEF searchType
    <3>2. H \in SUBSET Ids
      BY <1>1 DEF SearchState
    <3> HIDE DEF matching
    <3> QED BY <1>1, <3>1, <3>2 DEF SearchState
  <2>3. CASE filterSecretHits(s)
    <3>1. PICK i \in search[s].hits :
            search' = [search EXCEPT
              ![s].hits = @ \ {i},
              ![s].answer = IF Allowed(i) THEN @ \cup {i} ELSE @,
              ![s].bodies = IF Allowed(i) THEN @ ELSE @ + 1]
      BY <2>3 DEF filterSecretHits
    <3>2. i \in Ids
      BY <1>1 DEF SearchState
    <3>3. CASE Allowed(i)
      BY <1>1, <3>1, <3>2, <3>3 DEF SearchState
    <3>4. CASE ~ Allowed(i)
      BY <1>1, <3>1, <3>2, <3>4 DEF SearchState
    <3> QED BY <3>3, <3>4
  <2>4. CASE GlobalSearch(s)
    BY <1>1, <2>4 DEF GlobalSearch, SearchState
  <2> QED BY <2>1, <2>2, <2>3, <2>4
<1>3. search' \in [Searches -> SearchState] /\ \A t \in Searches \ {s} : search'[t] = search[t]
  BY <1>1, <1>2
<1>4. TypeOK'
  BY <1>1, <1>3 DEF TypeOK
<1>5. Structured'
  BY <1>1 DEF Structured, Shape, At
<1> QED BY <1>1, <1>3, <1>4, <1>5

\* At the start everything is in its type.
LEMMA InitTyped ==
  ASSUME Init
  PROVE  TypeOK /\ Structured /\ Unique(rows)
<1>1. rows \in Tables /\ Unique(rows) /\ pending \subseteq Requests /\ errors \in Nat
  BY SecretDataAssumption DEF Init
<1>2. hash \in [Ids -> Entry \cup {None}]
  <2>1. ASSUME NEW i \in Ids, Live(Initial, i)
        PROVE  EntryOf(Initial[i]) \in Entry
    BY <2>1, LiveRow, SecretDataAssumption DEF Secret, EntryOf, Entry
  <2> QED BY <2>1 DEF Init
<1>3. paths \in [Paths -> Ids \cup {NoId}]
  BY DEF Init
<1>4. index \subseteq Ids /\ fresh \subseteq Ids /\ alone \in [Procs -> SUBSET Ids]
  BY DEF Init
<1>5. ASSUME NEW p \in Procs
      PROVE  proc[p] \in Process /\ Shape(p)
  <2>1. << >> \in Seq(Item) /\ << >> \in Seq(Record) /\ << >> \in Seq(Record \cup [id : Ids])
    OBVIOUS
  <2>2. Idle \in Process
    BY <2>1 DEF Idle, Process, Pcs
  <2>3. proc[p] \in Process
    BY <2>2 DEF Init, Process, Pcs
  <2>4. /\ proc[p].pc = (IF p \in Warmers THEN "list" ELSE "idle")
        /\ proc[p].read = << >> /\ proc[p].todo = << >>
    BY DEF Init, Idle
  <2> QED BY <2>1, <2>3, <2>4, SecretCacheAssumption
          DEF Shape, At, Upserting, Removing, Clearing
<1>6. proc \in [Procs -> Process]
  BY <1>5 DEF Init
<1>7. search \in [Searches -> SearchState]
  BY DEF Init, NoSearch, SearchState
<1> QED BY <1>1, <1>2, <1>3, <1>4, <1>5, <1>6, <1>7 DEF TypeOK, Structured

\* The steps there are.
LEMMA Kinds ==
  ASSUME [Next]_vars
  PROVE  \/ UNCHANGED vars
         \/ Requesting
         \/ \E c \in Calls : GetSecret(c) \/ DeleteSecret(c)
         \/ \E p \in Procs : UpsertSecret(p) \/ RedisFails(p)
         \/ \E w \in Warmers : \/ ListSecretCacheRecords(w)
                               \/ DelIds(w) \/ ScanPaths(w) \/ DelPaths(w)
         \/ \E s \in Searches :
              SMembers(s) \/ searchType(s) \/ filterSecretHits(s) \/ GlobalSearch(s)
BY DEF Next, Requesting, WarmSecrets, Procs

Typed == TypeOK /\ Structured /\ Unique(rows)

LEMMA TypeStep ==
  ASSUME Typed, [Next]_vars
  PROVE  Typed'
<1>1. TypeOK' /\ Structured'
  <2>1. CASE UNCHANGED vars
    BY <2>1 DEF Typed, TypeOK, Structured, Shape, At, vars
  <2>2. CASE Requesting
    BY <2>2, RequestTyped DEF Typed, Requesting
  <2>3. CASE \E c \in Calls : GetSecret(c) \/ DeleteSecret(c)
    BY <2>3, GetTyped, DeletionTyped DEF Typed, Procs
  <2>4. CASE \E p \in Procs : UpsertSecret(p) \/ RedisFails(p)
    BY <2>4, UpsertTyped, FailTyped DEF Typed
  <2>5. CASE \E w \in Warmers : \/ ListSecretCacheRecords(w)
                                \/ DelIds(w) \/ ScanPaths(w) \/ DelPaths(w)
    BY <2>5, ListTyped, ClearTyped DEF Typed
  <2>6. CASE \E s \in Searches :
               SMembers(s) \/ searchType(s) \/ filterSecretHits(s) \/ GlobalSearch(s)
    BY <2>6, SearchTyped DEF Typed
  <2> QED BY <2>1, <2>2, <2>3, <2>4, <2>5, <2>6, Kinds
<1>2. Unique(rows')
  <2>1. CASE Requesting
    BY <2>1, TableStep DEF Typed
  <2>2. CASE ~ Requesting
    BY <2>2, TableStays DEF Typed
  <2> QED BY <2>1, <2>2
<1>3. Unique(rows)' <=> Unique(rows')
  BY DEF Unique, Live
<1> QED BY <1>1, <1>2, <1>3 DEF Typed

LEMMA TypedAlways == Spec => []Typed
<1>1. Init => Typed
  BY InitTyped DEF Typed
<1> QED BY <1>1, TypeStep, PTL DEF Spec

\* Rows, the copy of them in Redis, and the places of the handlers, the warm-ups
\* and the searches keep their types.
THEOREM TypeCorrect == Spec => []TypeOK
<1>1. Typed => TypeOK
  BY DEF Typed
<1> QED BY <1>1, TypedAlways, PTL

-----------------------------------------------------------------------------
(* Searches                                                                *)

\* A row that is deleted stays so.
LEMMA GoneStays ==
  ASSUME Typed, [Next]_vars, NEW i \in Ids, rows[i].state = "deleted"
  PROVE  rows'[i].state = "deleted"
<1>1. CASE ~ Requesting
  BY <1>1, TableStays
<1>2. CASE Requesting
  <2>1. PICK r \in Requests : \/ Table!Create(r) \/ Table!Update(r) \/ Table!Comment(r)
                              \/ Table!DeleteOne(r) \/ Table!DeleteFolder(r)
    BY <1>2, TableStep DEF Typed, Table!Next
  <2>2. ~ Live(rows, i) /\ rows[i] # Absent
    BY DEF Live, Absent
  <2>3. CASE Table!Create(r)
    BY <2>2, <2>3, SameData DEF Table!Create, Table!Others, IdsOf
  <2>4. CASE Table!Update(r)
    BY <2>2, <2>4, SameData DEF Table!Update, Table!Others
  <2>5. CASE Table!Comment(r)
    BY <2>2, <2>5, SameData DEF Table!Comment, Table!Others
  <2>6. CASE Table!DeleteOne(r) \/ Table!DeleteFolder(r)
    BY <2>2, <2>6, SameData
       DEF Table!DeleteOne, Table!DeleteFolder, Table!Delete, Table!Others
  <2> QED BY <2>1, <2>3, <2>4, <2>5, <2>6
<1> QED BY <1>1, <1>2

\* The ids a search remembers as gone are still gone.
SearchesSound ==
  /\ \A s \in Searches : \A i \in search[s].gone : rows[i].state = "deleted"
  /\ \A s \in Searches : search[s].pc = "new" => search[s].answer = {}
  /\ SearchShowsReadableOnly

LEMMA SearchStep ==
  ASSUME Typed, SearchesSound, [Next]_vars
  PROVE  SearchesSound'
<1>1. \A s \in Searches : search[s] \in SearchState
  BY DEF Typed, TypeOK
<1>2. \A s \in Searches : search[s].gone \subseteq Ids
  BY <1>1 DEF SearchState
<1>3. ASSUME NEW s \in Searches, search'[s] = search[s]
      PROVE  /\ \A i \in search'[s].gone : rows'[i].state = "deleted"
             /\ search'[s].pc = "new" => search'[s].answer = {}
             /\ search'[s].answer \subseteq Readable \ search'[s].gone
  BY <1>2, <1>3, GoneStays DEF SearchesSound, SearchShowsReadableOnly
<1>4. CASE search' = search
  BY <1>3, <1>4 DEF SearchesSound, SearchShowsReadableOnly
<1>5. ASSUME NEW s \in Searches,
             SMembers(s) \/ searchType(s) \/ filterSecretHits(s) \/ GlobalSearch(s)
      PROVE  SearchesSound'
  <2>1. rows' = rows /\ \A t \in Searches \ {s} : search'[t] = search[t]
    BY <1>5, SearchTyped DEF Typed
  <2>2. /\ \A i \in search[s].gone : rows[i].state = "deleted"
        /\ search[s].pc = "new" => search[s].answer = {}
        /\ search[s].answer \subseteq Readable \ search[s].gone
        /\ search[s] \in SearchState /\ search \in [Searches -> SearchState]
    BY <1>1 DEF SearchesSound, SearchShowsReadableOnly, Typed, TypeOK
  <2>3. /\ \A i \in search'[s].gone : rows'[i].state = "deleted"
        /\ search'[s].pc = "new" => search'[s].answer = {}
        /\ search'[s].answer \subseteq Readable \ search'[s].gone
    <3>1. CASE SMembers(s)
      BY <2>1, <2>2, <3>1 DEF SMembers, SearchState
    <3>2. CASE searchType(s)
      <4>1. PICK H : search' = [search EXCEPT ![s].pc = "filter", ![s].hits = H]
        BY <3>2 DEF searchType
      <4> QED BY <2>1, <2>2, <4>1 DEF SearchState
    <3>3. CASE filterSecretHits(s)
      <4>1. PICK i \in search[s].hits :
              search' = [search EXCEPT
                ![s].hits = @ \ {i},
                ![s].answer = IF Allowed(i) THEN @ \cup {i} ELSE @,
                ![s].bodies = IF Allowed(i) THEN @ ELSE @ + 1]
        BY <3>3 DEF filterSecretHits
      <4>2. /\ search'[s].gone = search[s].gone /\ search'[s].pc = search[s].pc
            /\ search'[s].answer = IF Allowed(i) THEN search[s].answer \cup {i}
                                   ELSE search[s].answer
        BY <2>2, <4>1 DEF SearchState
      <4>3. Allowed(i) => i \in Readable \ search[s].gone
        BY <2>2 DEF Allowed, Live
      <4> QED BY <2>1, <2>2, <3>3, <4>2, <4>3 DEF filterSecretHits
    <3>4. CASE GlobalSearch(s)
      BY <2>1, <2>2, <3>4 DEF GlobalSearch, SearchState
    <3> QED BY <1>5, <3>1, <3>2, <3>3, <3>4
  <2> QED BY <1>3, <2>1, <2>3 DEF SearchesSound, SearchShowsReadableOnly
<1>6. search' = search \/ \E s \in Searches :
        SMembers(s) \/ searchType(s) \/ filterSecretHits(s) \/ GlobalSearch(s)
  <2>1. CASE UNCHANGED vars
    BY <2>1 DEF vars
  <2>2. CASE Requesting
    BY <2>2 DEF Requesting, Create, Update, Comment, Delete, DeleteFolder, Commit
  <2>3. CASE \E c \in Calls : GetSecret(c) \/ DeleteSecret(c)
    BY <2>3 DEF GetSecret, DeleteSecret, HGetPath, DelHash, SRem
  <2>4. CASE \E p \in Procs : UpsertSecret(p) \/ RedisFails(p)
    BY <2>4 DEF UpsertSecret, HGet, DelOldPath, HSet, SetPath, SAdd, RedisFails
  <2>5. CASE \E w \in Warmers : \/ ListSecretCacheRecords(w)
                                \/ DelIds(w) \/ ScanPaths(w) \/ DelPaths(w)
    BY <2>5 DEF ListSecretCacheRecords, DelIds, ScanPaths, DelPaths
  <2> QED BY <2>1, <2>2, <2>3, <2>4, <2>5, Kinds
<1> QED BY <1>4, <1>5, <1>6

\* Whatever Redis still has, no search shows a secret that was deleted before
\* it began, nor one that the caller may not read (filterSecretHits).
THEOREM SearchesShowReadable == Spec => []SearchShowsReadableOnly
<1>1. Init => SearchesSound
  BY DEF Init, NoSearch, SearchesSound, SearchShowsReadableOnly
<1>2. Typed /\ SearchesSound /\ [Next]_vars => SearchesSound'
  BY SearchStep
<1>3. SearchesSound => SearchShowsReadableOnly
  BY DEF SearchesSound
<1> QED BY <1>1, <1>2, <1>3, TypedAlways, PTL DEF Spec

-----------------------------------------------------------------------------
(* Writers                                                                 *)

Truth(i) ==
  /\ i \in index <=> Live(rows, i)
  /\ i \in index => hash[i] = EntryOf(rows[i])

AllSound == LoneWritersLeaveTheTruth /\ \A p \in Procs : Sound(p)

\* A process is still right when what nobody else has touched is as it was.
LEMMA OthersSound ==
  ASSUME NEW q \in Procs, Sound(q), proc'[q] = proc[q], alone'[q] \subseteq alone[q],
         \A i \in alone'[q] : rows'[i] = rows[i] /\ hash'[i] = hash[i]
                              /\ (i \in index' <=> i \in index)
  PROVE  Sound(q)'
<1>1. ReadsOwn(q)'
  BY DEF Sound, ReadsOwn, At, Live, Last
<1>2. WritesCurrent(q)'
  <2>1. ASSUME NEW n \in 1 .. Len(proc[q].todo), proc[q].todo[n].id \in alone'[q],
               Current(proc[q].todo[n])
        PROVE  Current(proc[q].todo[n])'
    BY <2>1 DEF Current, Live
  <2>2. ASSUME proc[q].pc \in {"read"} \cup Upserting \cup Clearing,
               NEW n \in 1 .. Len(proc[q].todo),
               proc[q].todo[n].id \in alone'[q] \ IdsOf(proc[q].read),
               Last(proc[q].todo, n)
        PROVE  Current(proc[q].todo[n])'
    BY <2>1, <2>2 DEF Sound, WritesCurrent
  <2> QED BY <2>2 DEF WritesCurrent, Last, IdsOf
<1>3. RemovesGone(q)'
  BY DEF Sound, RemovesGone, Now, Live
<1>4. HashWritten(q)'
  BY DEF Sound, HashWritten, At, Now, EntryOf
<1>5. q \in Warmers => WarmsAll(q)'
  BY DEF Sound, WarmsAll, Live, IdsOf
<1> QED BY <1>1, <1>2, <1>3, <1>4, <1>5 DEF Sound

\* What a step of one process has to keep, when it changes secrets S.
LEMMA OneMoves ==
  ASSUME Typed, AllSound, NEW p \in Procs, NEW S, Moves(p),
         \A q \in Procs \ {p} : alone'[q] \subseteq alone[q] \ S,
         \A i \in Ids \ S : rows'[i] = rows[i] /\ hash'[i] = hash[i]
                            /\ (i \in index' <=> i \in index),
         Sound(p)',
         \A i \in fresh' : i \in fresh \ S \/ Truth(i)'
  PROVE  AllSound'
<1>1. \A q \in Procs \ {p} : proc'[q] = proc[q] /\ alone[q] \subseteq Ids
  BY MovesKept DEF Typed, TypeOK
<1>2. ASSUME NEW q \in Procs \ {p}
      PROVE  Sound(q)'
  BY <1>1, OthersSound DEF AllSound
<1>3. ASSUME NEW i \in fresh'
      PROVE  Truth(i)'
  <2>1. CASE i \in fresh \ S
    BY <2>1 DEF AllSound, LoneWritersLeaveTheTruth, Truth, Typed, TypeOK, Live
  <2> QED BY <1>3, <2>1
<1>4. LoneWritersLeaveTheTruth'
  BY <1>3 DEF LoneWritersLeaveTheTruth, Truth
<1> QED BY <1>2, <1>4 DEF AllSound

\* A process at rest has nothing to be right about.
LEMMA RestSound ==
  ASSUME NEW p \in Procs, proc'[p].pc = "idle"
  PROVE  Sound(p)'
BY DEF Sound, ReadsOwn, WritesCurrent, RemovesGone, HashWritten, WarmsAll, At,
       Upserting, Removing, Clearing

\* A process with its next record is right about it.
LEMMA NextSound ==
  ASSUME Typed, NEW p \in Procs, Sound(p), proc[p].pc \in Upserting, NextRecord(p),
         rows' = rows, alone'[p] \subseteq alone[p],
         p \in Warmers => WarmsAll(p)'
  PROVE  Sound(p)'
<1>1. /\ proc[p].todo \in Seq(Record) /\ proc[p].todo # << >> /\ proc[p].read = << >>
      /\ proc[p] \in Process /\ proc \in [Procs -> Process]
  BY ProcFields, NowTyped DEF Typed, TypeOK
<1>2. /\ proc'[p].pc = (IF Len(proc[p].todo) = 1 THEN "idle" ELSE "hget")
      /\ proc'[p].todo = Tail(proc[p].todo) /\ proc'[p].read = << >>
  BY <1>1 DEF NextRecord, Process
<1>3. CASE Len(proc[p].todo) = 1
  BY <1>2, <1>3, RestSound
<1>4. CASE Len(proc[p].todo) # 1
  <2>1. proc'[p].pc = "hget"
    BY <1>2, <1>4
  <2>2. ASSUME NEW n \in 1 .. Len(Tail(proc[p].todo)),
               Tail(proc[p].todo)[n].id \in alone'[p], Last(Tail(proc[p].todo), n)
        PROVE  Current(proc[p].todo[n])'
    <3>1. /\ n + 1 \in 1 .. Len(proc[p].todo)
          /\ Tail(proc[p].todo)[n] = proc[p].todo[n + 1]
          /\ Last(proc[p].todo, n + 1)
      BY <1>1, <2>2, LastOfTail
    <3>2. proc[p].todo[n + 1].id \in alone[p] \ IdsOf(proc[p].read)
      BY <1>1, <2>2, <3>1 DEF IdsOf
    <3>3. Current(proc[p].todo[n + 1])
      BY <3>1, <3>2 DEF Sound, WritesCurrent
    <3>4. proc'[p].todo[n] = proc[p].todo[n + 1]
      BY <1>2, <3>1
    <3> QED BY <3>3, <3>4 DEF Current, Live
  <2>3. WritesCurrent(p)'
    BY <1>2, <2>2 DEF WritesCurrent, Last
  <2> QED BY <2>1, <2>3
          DEF Sound, ReadsOwn, RemovesGone, HashWritten, At, Removing
<1> QED BY <1>3, <1>4

\* The record that is written is the row, when nobody else has touched it and
\* there is no other record of it.
LEMMA NowCurrent ==
  ASSUME Typed, NEW p \in Procs, Sound(p), proc[p].pc \in Upserting,
         Now(p).id \in alone[p], Now(p).id \notin Later(p)
  PROVE  Current(Now(p))
<1>1. /\ proc[p].todo \in Seq(Record) /\ proc[p].todo # << >> /\ proc[p].read = << >>
  BY NowTyped DEF Typed
<1>2. 1 \in 1 .. Len(proc[p].todo) /\ proc[p].todo[1] = Now(p) /\ Last(proc[p].todo, 1)
  BY <1>1, LastFirst DEF Now, Later
<1>3. proc[p].todo[1].id \in alone[p] \ IdsOf(proc[p].read)
  BY <1>1, <1>2 DEF IdsOf
<1> QED BY <1>2, <1>3 DEF Sound, WritesCurrent

\* What a process has read is current still when the table stays.
LEMMA WritesKept ==
  ASSUME NEW p \in Procs, WritesCurrent(p), rows' = rows, alone'[p] \subseteq alone[p],
         proc'[p].todo = proc[p].todo, proc'[p].read = proc[p].read,
         proc[p].pc \in Upserting \cup Clearing
  PROVE  WritesCurrent(p)'
<1>1. ASSUME NEW n \in 1 .. Len(proc[p].todo),
             proc[p].todo[n].id \in alone'[p] \ IdsOf(proc[p].read),
             Last(proc[p].todo, n)
      PROVE  Current(proc[p].todo[n])'
  <2>1. Current(proc[p].todo[n])
    BY <1>1 DEF WritesCurrent
  <2> QED BY <2>1 DEF Current, Live
<1> QED BY <1>1 DEF WritesCurrent, Last, IdsOf

\* The steps of an upsert that change neither hash nor index, and HSet.
LEMMA UpsertSound ==
  ASSUME Typed, AllSound, NEW p \in Procs, HGet(p) \/ DelOldPath(p) \/ HSet(p) \/ SetPath(p)
  PROVE  AllSound'
<1>1. /\ Moves(p) /\ proc'[p].todo = proc[p].todo /\ proc'[p].read = proc[p].read
      /\ HGet(p) \/ DelOldPath(p) => proc'[p].pc \in {"hset", "del"}
      /\ HSet(p) => proc'[p].pc = "set"
      /\ SetPath(p) => proc'[p].pc = "sadd" /\ proc[p].pc = "set"
      /\ proc'[p].pc \in Upserting /\ proc[p].pc \in Upserting
  BY HGetTyped, DelOldPathTyped, HSetTyped
     DEF Typed, HGet, DelOldPath, HSet, SetPath, At, Upserting
<1>2. /\ rows' = rows /\ index' = index /\ Now(p)' = Now(p) /\ Now(p).id \in Ids
      /\ alone'[p] = alone[p] /\ hash \in [Ids -> Entry \cup {None}]
  BY <1>1, NowTyped DEF Typed, TypeOK, HGet, DelOldPath, HSet, SetPath, Touch, redis, Now
<1>3. Sound(p)
  BY DEF AllSound
<1>4. HashWritten(p)'
  <2>1. CASE HGet(p) \/ DelOldPath(p)
    BY <1>1, <2>1 DEF HashWritten, At
  <2>2. CASE HSet(p)
    BY <1>2, <2>2 DEF HSet, HashWritten, EntryOf
  <2>3. CASE SetPath(p)
    BY <1>1, <1>2, <1>3, <2>3 DEF SetPath, Sound, HashWritten, At, EntryOf
  <2> QED BY <2>1, <2>2, <2>3
<1>5. WritesCurrent(p)'
  BY <1>1, <1>2, <1>3, WritesKept DEF Sound
<1>6. p \in Warmers => WarmsAll(p)'
  BY <1>1, <1>2, <1>3 DEF Sound, WarmsAll, Live, IdsOf, Upserting, Clearing
<1>7. Sound(p)'
  BY <1>1, <1>4, <1>5, <1>6 DEF Sound, ReadsOwn, RemovesGone, At, Upserting, Removing
<1>8. CASE HSet(p)
  <2>1. \A q \in Procs \ {p} : alone'[q] \subseteq alone[q] \ {Now(p).id}
    BY <1>8 DEF HSet, Touch
  <2>2. \A i \in Ids \ {Now(p).id} : rows'[i] = rows[i] /\ hash'[i] = hash[i]
                                    /\ (i \in index' <=> i \in index)
    BY <1>2, <1>8 DEF HSet
  <2>3. fresh' = fresh \ {Now(p).id}
    BY <1>8 DEF HSet, Touch
  <2> QED BY <1>1, <1>7, <2>1, <2>2, <2>3, OneMoves
<1>9. CASE ~ HSet(p)
  <2>1. hash' = hash /\ alone' = alone /\ fresh' = fresh
    BY <1>9 DEF HGet, DelOldPath, SetPath, redis
  <2> QED BY <1>1, <1>2, <1>7, <2>1, OneMoves
<1> QED BY <1>8, <1>9

\* The last command of an upsert.
LEMMA SAddSound ==
  ASSUME Typed, AllSound, NEW p \in Procs, SAdd(p)
  PROVE  AllSound'
<1>0. Now(p).id \in Ids
  BY NowTyped DEF Typed, SAdd, At, Upserting
<1>j. PICK i \in Ids : i = Now(p).id
  BY <1>0
<1> DEFINE S == IF p \in Warmers /\ Len(proc[p].todo) = 1 THEN Ids ELSE {i} \ Later(p)
<1>1. /\ proc[p].pc = "sadd" /\ proc[p].pc \in Upserting /\ NextRecord(p) /\ Moves(p)
      /\ Sound(p) /\ i \in Ids /\ Later(p) = IdsOf(Tail(proc[p].todo))
      /\ proc[p].todo \in Seq(Record) /\ proc[p].todo # << >>
      /\ IdsOf(proc[p].todo) = {i} \cup Later(p)
  BY <1>j, NextMoves, NowTyped, IdsOfTail DEF Typed, AllSound, SAdd, At, Upserting, Now, Later
<1>2. /\ rows' = rows /\ hash' = hash /\ index' = index \cup {i}
      /\ alone' = [q \in Procs |-> IF q = p THEN alone[q] \ S ELSE alone[q] \ {i}]
      /\ fresh' = (fresh \ {i}) \cup (S \cap alone[p])
  BY <1>j DEF SAdd, Settle, Indexed
<1>3. proc'[p].todo = Tail(proc[p].todo) /\ IdsOf(proc[p].todo)' = Later(p)
  <2>1. proc[p] \in Process /\ proc \in [Procs -> Process]
    BY ProcFields DEF Typed, TypeOK
  <2>2. proc'[p].todo = Tail(proc[p].todo)
    BY <1>1, <2>1 DEF NextRecord, Process
  <2> QED BY <1>1, <2>2 DEF IdsOf
<1>4. proc'[p].pc = IF Len(proc[p].todo) = 1 THEN "idle" ELSE "hget"
  BY <1>1, ProcFields DEF NextRecord, Process, Typed, TypeOK
<1>5. p \in Warmers => WarmsAll(p)'
  <2>1. CASE Len(proc[p].todo) = 1
    BY <1>4, <2>1 DEF WarmsAll, Upserting, Clearing
  <2>2. ASSUME Len(proc[p].todo) # 1, p \in Warmers, NEW j \in alone'[p]
        PROVE  (Live(rows, j) <=> j \in Later(p)) /\ (~ Live(rows, j) => j \notin index')
    <3>1. j \in alone[p] /\ (j = i => j \in Later(p))
      BY <1>2, <2>2
    <3>2. /\ Live(rows, j) <=> j \in IdsOf(proc[p].todo)
          /\ ~ Live(rows, j) => j \notin index
      BY <1>1, <2>2, <3>1 DEF Sound, WarmsAll
    <3> QED BY <1>1, <1>2, <3>1, <3>2
  <2>3. ASSUME Len(proc[p].todo) # 1, p \in Warmers
        PROVE  WarmsAll(p)'
    BY <1>2, <1>3, <2>2, <2>3 DEF WarmsAll, Live
  <2> QED BY <2>1, <2>3
<1>6. Sound(p)'
  BY <1>1, <1>2, <1>5, NextSound
<1>7. ASSUME i \in alone[p], i \notin Later(p)
      PROVE  Truth(i)'
  <2>1. Current(Now(p)) /\ hash[i] = EntryOf(Now(p))
    BY <1>j, <1>1, <1>7, NowCurrent DEF Sound, HashWritten, At
  <2>2. EntryOf(Now(p)) = EntryOf(rows[i])
    BY <1>j, <2>1 DEF Current, RecordOf, EntryOf
  <2> QED BY <1>j, <1>2, <2>1, <2>2 DEF Current, Truth, Live, EntryOf
<1>8. ASSUME NEW j \in fresh'
      PROVE  j \in fresh \ {i} \/ Truth(j)'
  <2>1. CASE j = i
    <3>1. i \in S /\ i \in alone[p]
      BY <1>2, <1>8, <2>1
    <3>2. i \notin Later(p)
      <4>1. CASE p \in Warmers /\ Len(proc[p].todo) = 1
        <5>1. Tail(proc[p].todo) = << >>
          BY <1>1, <4>1, HeadAndTail
        <5> QED BY <1>1, <5>1, EmptyIds
      <4>2. CASE ~ (p \in Warmers /\ Len(proc[p].todo) = 1)
        BY <3>1, <4>2
      <4> QED BY <4>1, <4>2
    <3> QED BY <1>7, <2>1, <3>1, <3>2
  <2>2. CASE j # i /\ j \notin fresh
    <3>1. j \in alone[p] /\ j \in S
      BY <1>2, <1>8, <2>2
    <3>2. p \in Warmers /\ Len(proc[p].todo) = 1
      BY <2>2, <3>1
    <3>3. Tail(proc[p].todo) = << >>
      BY <1>1, <3>2, HeadAndTail
    <3>4. j \notin IdsOf(proc[p].todo)
      BY <1>1, <2>2, <3>3, EmptyIds
    <3>5. ~ Live(rows, j) /\ j \notin index
      BY <1>1, <3>1, <3>2, <3>4 DEF Sound, WarmsAll
    <3> QED BY <1>2, <2>2, <3>5 DEF Truth, Live
  <2> QED BY <2>1, <2>2
<1>9. \A q \in Procs \ {p} : alone'[q] \subseteq alone[q] \ {i}
  BY <1>2
<1>10. \A j \in Ids \ {i} : rows'[j] = rows[j] /\ hash'[j] = hash[j]
                            /\ (j \in index' <=> j \in index)
  BY <1>2
<1> HIDE DEF S
<1> QED BY <1>1, <1>6, <1>8, <1>9, <1>10, OneMoves

\* The steps of a deletion.
LEMMA DeletionSound ==
  ASSUME Typed, AllSound, NEW p \in Procs, DeleteSecret(p)
  PROVE  AllSound'
<1>0. Now(p).id \in Ids
  BY NowTyped DEF Typed, DeleteSecret, HGetPath, DelHash, SRem, At, Removing
<1>j. PICK i \in Ids : i = Now(p).id
  BY <1>0
<1>1. /\ Moves(p) /\ Sound(p) /\ proc[p].pc \in Removing /\ i \in Ids
      /\ SRem(p) => proc'[p] = Idle
      /\ ~ SRem(p) => proc'[p].todo = proc[p].todo /\ proc'[p].pc \in {"delhash", "srem"}
      /\ hash \in [Ids -> Entry \cup {None}]
  BY DeletionTyped
     DEF Typed, TypeOK, AllSound, DeleteSecret, HGetPath, DelHash, SRem, At, Removing
<1>2. rows' = rows /\ (~ SRem(p) => index' = index /\ alone'[p] = alone[p])
  BY DEF Typed, TypeOK, DeleteSecret, HGetPath, DelHash, SRem, Touch, redis
<1>3. Sound(p)'
  <2>1. CASE SRem(p)
    BY <1>1, <2>1, RestSound DEF Idle
  <2>2. CASE ~ SRem(p)
    <3>1. p \notin Warmers
      BY <1>1 DEF Typed, Structured, Shape
    <3>2. RemovesGone(p)'
      BY <1>1, <1>2, <2>2 DEF Sound, RemovesGone, Now, Live
    <3> QED BY <1>1, <2>2, <3>1, <3>2
            DEF Sound, ReadsOwn, WritesCurrent, HashWritten, At, Upserting, Clearing
  <2> QED BY <2>1, <2>2
<1>4. CASE HGetPath(p)
  <2>1. /\ rows' = rows /\ hash' = hash /\ index' = index /\ alone' = alone /\ fresh' = fresh
    BY <1>4 DEF HGetPath, redis
  <2> QED BY <1>1, <1>3, <2>1, OneMoves
<1>5. CASE DelHash(p)
  <2>1. /\ \A q \in Procs \ {p} : alone'[q] \subseteq alone[q] \ {i}
        /\ fresh' = fresh \ {i} /\ index' = index
        /\ \A j \in Ids \ {i} : hash'[j] = hash[j]
    BY <1>j, <1>1, <1>5 DEF DelHash, Touch
  <2> QED BY <1>1, <1>2, <1>3, <2>1, OneMoves
<1>6. CASE SRem(p)
  <2>1. /\ \A q \in Procs \ {p} : alone'[q] \subseteq alone[q] \ {i}
        /\ fresh' = (fresh \ {i}) \cup ({i} \cap alone[p])
        /\ index' = index \ {i} /\ hash' = hash
    BY <1>j, <1>6 DEF SRem, Settle
  <2>2. i \in alone[p] => Truth(i)'
    <3>1. i \in alone[p] => ~ Live(rows, i)
      BY <1>j, <1>1 DEF Sound, RemovesGone
    <3> QED BY <1>2, <2>1, <3>1 DEF Truth, Live
  <2>3. \A j \in Ids \ {i} : rows'[j] = rows[j] /\ hash'[j] = hash[j]
                             /\ (j \in index' <=> j \in index)
    BY <1>2, <2>1
  <2>4. \A j \in fresh' : j \in fresh \ {i} \/ Truth(j)'
    <3>1. fresh' = (fresh \ {i}) \cup ({i} \cap alone[p])
      BY <2>1
    <3>2. \A j \in fresh' : j \in fresh \ {i} \/ (j = i /\ i \in alone[p])
      BY <3>1
    <3> QED BY <2>2, <3>2
  <2> QED BY <1>1, <1>3, <2>1, <2>3, <2>4, OneMoves
<1> QED BY <1>4, <1>5, <1>6 DEF DeleteSecret

\* The steps of a warm-up that are not those of an upsert.
LEMMA ListSound ==
  ASSUME Typed, AllSound, NEW w \in Warmers, ListSecretCacheRecords(w)
  PROVE  AllSound'
<1>1. /\ w \in Procs /\ Moves(w) /\ proc'[w].pc = "delids"
      /\ IdsOf(proc'[w].todo) = {i \in Ids : Live(rows, i)}
      /\ \A n \in 1 .. Len(proc'[w].todo) : Current(proc'[w].todo[n])
  BY ListTyped DEF Typed, Procs
<1>2. /\ rows' = rows /\ hash' = hash /\ index' = index /\ fresh' = fresh
      /\ alone' = [alone EXCEPT ![w] = Ids] /\ alone \in [Procs -> SUBSET Ids]
  BY DEF ListSecretCacheRecords, redis, Typed, TypeOK
<1>3. WritesCurrent(w)'
  BY <1>1, <1>2 DEF WritesCurrent, Current, Live
<1>4. WarmsAll(w)'
  BY <1>1, <1>2 DEF WarmsAll, Live, IdsOf, Upserting, Clearing
<1>5. Sound(w)'
  BY <1>1, <1>3, <1>4 DEF Sound, ReadsOwn, RemovesGone, HashWritten, At, Removing
<1>6. \A q \in Procs \ {w} : alone'[q] \subseteq alone[q] \ {}
  BY <1>2
<1> QED BY <1>1, <1>2, <1>5, <1>6, OneMoves

LEMMA ClearSound ==
  ASSUME Typed, AllSound, NEW w \in Warmers, DelIds(w) \/ ScanPaths(w) \/ DelPaths(w)
  PROVE  AllSound'
<1>1. /\ w \in Procs /\ Moves(w) /\ Sound(w)
      /\ proc'[w].todo = proc[w].todo /\ proc'[w].read = proc[w].read
      /\ DelIds(w) => proc'[w].pc = "scan"
      /\ ScanPaths(w) => proc'[w].pc = "delpaths"
      /\ DelPaths(w) => proc'[w].pc = IF proc[w].todo = << >> THEN "idle" ELSE "hget"
      /\ proc[w].pc \in Clearing
  BY ClearTyped DEF Typed, Procs, AllSound, DelIds, ScanPaths, DelPaths, At, Clearing
<1>2. rows' = rows /\ hash' = hash /\ alone \in [Procs -> SUBSET Ids] /\ index \subseteq Ids
  BY DEF DelIds, ScanPaths, DelPaths, redis, Typed, TypeOK
<1>3. ASSUME alone'[w] = alone[w], proc'[w].pc # "idle", index' = index \/ index' = {},
             DelIds(w) => index' = {}
      PROVE  Sound(w)'
  <2>1. WritesCurrent(w)'
    BY <1>1, <1>2, <1>3, WritesKept DEF Sound
  <2>2. \A i \in alone[w] : Live(rows, i) <=> i \in IdsOf(proc[w].todo)
    BY <1>1 DEF Sound, WarmsAll
  <2>3. \A i \in alone[w] : ~ Live(rows, i) => i \notin index'
    <3>1. CASE DelIds(w)
      BY <1>3, <3>1
    <3>2. CASE ScanPaths(w) \/ DelPaths(w)
      BY <1>1, <1>3, <3>2 DEF Sound, WarmsAll, ScanPaths, DelPaths, At
    <3> QED BY <3>1, <3>2
  <2>4. WarmsAll(w)'
    BY <1>1, <1>2, <1>3, <2>2, <2>3 DEF WarmsAll, Live, IdsOf
  <2>5. proc'[w].pc \in {"scan", "delpaths", "hget"}
    BY <1>1, <1>3
  <2> QED BY <2>1, <2>4, <2>5 DEF Sound, ReadsOwn, RemovesGone, HashWritten, At, Removing
<1>4. CASE DelIds(w)
  <2>1. /\ index' = {} /\ fresh' = fresh \ Ids
        /\ \A q \in Procs : alone'[q] = IF q = w THEN alone[q] ELSE alone[q] \ Ids
    BY <1>4 DEF DelIds, Touch
  <2>2. Sound(w)'
    BY <1>1, <1>3, <1>4, <2>1
  <2> QED BY <1>1, <1>2, <2>1, <2>2, OneMoves
<1>5. CASE ScanPaths(w)
  <2>1. index' = index /\ fresh' = fresh /\ alone' = alone
    BY <1>5 DEF ScanPaths, redis
  <2>2. Sound(w)'
    BY <1>1, <1>3, <1>5, <2>1 DEF ScanPaths, DelIds, At
  <2> QED BY <1>1, <1>2, <2>1, <2>2, OneMoves
<1>6. CASE DelPaths(w) /\ proc[w].todo # << >>
  <2>1. index' = index /\ fresh' = fresh /\ alone' = alone
    BY <1>6 DEF DelPaths
  <2>2. Sound(w)'
    BY <1>1, <1>3, <1>6, <2>1 DEF DelPaths, DelIds, At
  <2> QED BY <1>1, <1>2, <2>1, <2>2, OneMoves
<1>7. CASE DelPaths(w) /\ proc[w].todo = << >>
  <2>1. /\ index' = index /\ fresh' = fresh \cup alone[w]
        /\ alone' = [alone EXCEPT ![w] = {}]
    BY <1>7 DEF DelPaths
  <2>2. Sound(w)'
    BY <1>1, <1>7, RestSound
  <2>3. ASSUME NEW i \in alone[w]
        PROVE  Truth(i)'
    <3>1. i \notin IdsOf(proc[w].todo)
      BY <1>7, EmptyIds
    <3>2. ~ Live(rows, i) /\ i \notin index
      BY <1>1, <1>7, <3>1 DEF Sound, WarmsAll, DelPaths, At
    <3> QED BY <1>2, <2>1, <3>2 DEF Truth, Live
  <2>4. \A q \in Procs \ {w} : alone'[q] \subseteq alone[q] \ {}
    BY <1>2, <2>1
  <2> QED BY <1>1, <1>2, <2>1, <2>2, <2>3, <2>4, OneMoves
<1> QED BY <1>4, <1>5, <1>6, <1>7

\* A secret is read again.
LEMMA GetSound ==
  ASSUME Typed, AllSound, NEW c \in Calls, GetSecret(c)
  PROVE  AllSound'
<1> DEFINE item == Head(proc[c].read)
           rest == Tail(proc[c].read)
           todo == proc[c].todo
           record == [RecordOf(item.id, rows[item.id]) EXCEPT !.value = item.value]
<1>1. /\ c \in Procs /\ c \notin Warmers /\ Moves(c) /\ Sound(c) /\ At(c, "read")
      /\ item \in Item
      /\ \/ proc'[c] = Idle
         \/ /\ Live(rows, item.id) /\ record \in Record /\ todo \in Seq(Record)
            /\ proc'[c].read = rest
            /\ proc'[c].todo = Append(todo, record)
            /\ proc'[c].pc = IF rest = << >> THEN "hget" ELSE "read"
  BY GetTyped, SecretCacheAssumption DEF Typed, AllSound, Procs, GetSecret
<1>2. /\ rows' = rows /\ hash' = hash /\ index' = index /\ fresh' = fresh
      /\ alone' = alone /\ rows \in Tables
  BY DEF GetSecret, redis, Typed, TypeOK
<1>3. proc[c].read \in Seq(Item) /\ proc[c].read # << >>
  BY <1>1, ProcFields DEF Typed, Structured, Shape
<1>4. CASE proc'[c] = Idle
  <2>1. Sound(c)'
    BY <1>1, <1>4, RestSound DEF Idle
  <2> QED BY <1>1, <1>2, <2>1, OneMoves
<1>5. CASE proc'[c] # Idle
  <2>1. /\ Live(rows, item.id) /\ record \in Record /\ todo \in Seq(Record)
        /\ proc'[c].read = rest
        /\ proc'[c].todo = Append(todo, record)
        /\ proc'[c].pc = IF rest = << >> THEN "hget" ELSE "read"
    BY <1>1, <1>5
  <2>2. record.id = item.id
    BY DEF RecordOf
  <2>3. IdsOf(proc[c].read) = {item.id} \cup IdsOf(rest)
    BY <1>3, IdsOfTail
  <2>4. ReadsOwn(c)'
    <3>1. ASSUME NEW n \in 1 .. Len(rest), rest[n].id \in alone[c], Last(rest, n)
          PROVE  Live(rows, rest[n].id) /\ rows[rest[n].id].value = rest[n].value
      <4>1. /\ n + 1 \in 1 .. Len(proc[c].read) /\ rest[n] = proc[c].read[n + 1]
            /\ Last(proc[c].read, n + 1)
        BY <1>3, <3>1, LastOfTail
      <4> HIDE DEF rest
      <4> QED BY <1>1, <3>1, <4>1 DEF Sound, ReadsOwn
    <3> HIDE DEF rest, item, todo, record
    <3> QED BY <1>2, <2>1, <3>1 DEF ReadsOwn, Live, Last
  <2>5. ASSUME item.id \in alone[c], item.id \notin IdsOf(rest)
        PROVE  Current(record)
    <3>1. 1 \in 1 .. Len(proc[c].read) /\ proc[c].read[1] = item /\ Last(proc[c].read, 1)
      BY <1>3, <2>5, LastFirst
    <3>2. rows[item.id].value = item.value
      <4>1. proc[c].read[1].id \in alone[c]
        BY <2>5, <3>1
      <4>2. ReadsOwn(c)
        BY <1>1 DEF Sound
      <4>3. \A n \in 1 .. Len(proc[c].read) :
              proc[c].read[n].id \in alone[c] /\ Last(proc[c].read, n)
              => rows[proc[c].read[n].id].value = proc[c].read[n].value
        BY <1>1, <4>2 DEF ReadsOwn
      <4> HIDE DEF item
      <4>4. rows[proc[c].read[1].id].value = proc[c].read[1].value
        BY <3>1, <4>1, <4>3
      <4> QED BY <3>1, <4>4
    <3>3. record = RecordOf(item.id, rows[item.id])
      BY <3>2 DEF RecordOf
    <3> QED BY <2>1, <2>2, <3>3 DEF Current
  <2>6. ASSUME NEW n \in 1 .. Len(Append(todo, record)),
               Append(todo, record)[n].id \in alone[c] \ IdsOf(rest),
               Last(Append(todo, record), n)
        PROVE  Current(Append(todo, record)[n])
    <3>1. /\ Len(Append(todo, record)) = Len(todo) + 1 /\ Len(todo) \in Nat
          /\ Append(todo, record)[Len(todo) + 1] = record
          /\ \A m \in 1 .. Len(todo) : Append(todo, record)[m] = todo[m]
      <4> HIDE DEF todo, record
      <4> QED BY <2>1
    <3>2. CASE n = Len(todo) + 1
      <4> HIDE DEF item, todo, record, rest
      <4> QED BY <2>2, <2>5, <2>6, <3>1, <3>2
    <3>3. CASE n # Len(todo) + 1
      <4>1. n \in 1 .. Len(todo) /\ Append(todo, record)[n] = todo[n]
        <5> HIDE DEF todo, record
        <5> QED BY <3>1, <3>3
      <4>2. Last(todo, n) /\ todo[n].id # item.id
        <5> HIDE DEF item, todo, record, rest
        <5> QED BY <2>2, <2>6, <3>1, <4>1 DEF Last
      <4>3. todo[n].id \in alone[c] \ IdsOf(proc[c].read)
        <5> HIDE DEF item, todo, record, rest
        <5> QED BY <2>3, <2>6, <4>1, <4>2
      <4>4. Current(todo[n])
        BY <1>1, <4>1, <4>2, <4>3 DEF Sound, WritesCurrent, At
      <4> HIDE DEF todo, record
      <4> QED BY <4>1, <4>4
    <3> QED BY <3>2, <3>3
  <2>7. WritesCurrent(c)'
    <3> HIDE DEF item, todo, record, rest
    <3>1. ASSUME NEW n \in 1 .. Len(proc'[c].todo),
                 proc'[c].todo[n].id \in alone'[c] \ IdsOf(proc[c].read)',
                 Last(proc[c].todo, n)'
          PROVE  Current(proc[c].todo[n])'
      BY <1>2, <2>1, <2>6, <3>1 DEF Last, IdsOf, Current, Live
    <3> QED BY <3>1 DEF WritesCurrent
  <2>8. Sound(c)'
    BY <1>1, <2>1, <2>4, <2>7
       DEF Sound, RemovesGone, HashWritten, At, Removing
  <2> QED BY <1>1, <1>2, <2>8, OneMoves
<1> QED BY <1>4, <1>5

\* A command fails.
LEMMA FailSound ==
  ASSUME Typed, AllSound, NEW p \in Procs, RedisFails(p)
  PROVE  AllSound'
<1>1. /\ rows' = rows /\ hash' = hash /\ index' = index /\ fresh' = fresh /\ Moves(p)
      /\ alone \in [Procs -> SUBSET Ids] /\ Sound(p)
  BY FailTyped DEF RedisFails, redis, Typed, TypeOK, AllSound
<1>2. CASE proc'[p] = Idle /\ alone' = [alone EXCEPT ![p] = {}]
  <2>1. Sound(p)'
    BY <1>2, RestSound DEF Idle
  <2>2. \A q \in Procs \ {p} : alone'[q] \subseteq alone[q] \ {}
    BY <1>1, <1>2
  <2> QED BY <1>1, <2>1, <2>2, OneMoves
<1>3. CASE /\ proc[p].pc \in Upserting /\ NextRecord(p) /\ p \notin Warmers
           /\ alone' = [alone EXCEPT ![p] = @ \ {Now(p).id}]
  <2>1. alone'[p] \subseteq alone[p] /\ \A q \in Procs \ {p} : alone'[q] \subseteq alone[q] \ {}
    BY <1>1, <1>3
  <2>2. Sound(p)'
    BY <1>1, <1>3, <2>1, NextSound
  <2> QED BY <1>1, <2>1, <2>2, OneMoves
<1> QED BY <1>2, <1>3, FailTyped DEF Typed

\* The values that a request has written, in the table.
LEMMA WrittenValues ==
  ASSUME Typed, NEW c \in Calls, NEW r \in pending, Create(c, r) \/ Update(c, r)
  PROVE  /\ \A n \in 1 .. Len(r.items) : Last(r.items, n) =>
              /\ Live(rows', r.items[n].id)
              /\ rows'[r.items[n].id].value = r.items[n].value
         /\ \A i \in Ids \ IdsOf(r.items) : rows'[i] = rows[i]
<1>1. r.items \in Seq(Item)
  BY RequestFields DEF Typed, Create, Update
<1>2. \A n \in 1 .. Len(r.items) : r.items[n].id \in IdsOf(r.items) /\ r.items[n].id \in Ids
  <2>1. \A n \in 1 .. Len(r.items) : r.items[n] \in Item
    BY <1>1
  <2> QED BY <2>1 DEF IdsOf, Item
<1>3. CASE Create(c, r)
  <2>1. Table!Create(r)
    BY <1>3, CreateTable DEF Typed
  <2>2. \A n \in 1 .. Len(r.items) : rows'[r.items[n].id] = RowOf(r.items[n], 1)
    BY <2>1, SameData DEF Table!Create
  <2>3. \A i \in Ids \ IdsOf(r.items) : rows'[i] = rows[i]
    BY <2>1, SameData DEF Table!Create, Table!Others
  <2>4. ASSUME NEW n \in 1 .. Len(r.items)
        PROVE  /\ Live(rows', r.items[n].id)
               /\ rows'[r.items[n].id].value = r.items[n].value
    <3>1. RowOf(r.items[n], 1).state = "live" /\ RowOf(r.items[n], 1).value = r.items[n].value
      BY DEF RowOf
    <3> QED BY <2>2, <3>1 DEF Live
  <2> QED BY <2>3, <2>4
<1>4. CASE Update(c, r)
  <2>1. ASSUME NEW n \in 1 .. Len(r.items), Last(r.items, n)
        PROVE  /\ Live(rows', r.items[n].id)
               /\ rows'[r.items[n].id].value = r.items[n].value
    <3>1. PICK m \in 1 .. Len(r.items), more \in Nat \ {0} :
            /\ r.items[m].id = r.items[n].id /\ Last(r.items, m)
            /\ rows'[r.items[n].id] = RowOf(r.items[m], rows[r.items[n].id].version + more)
      <4>1. TypeOK /\ Update(c, r)
        BY <1>4 DEF Typed
      <4> QED BY <1>2, <4>1, UpdatedAt
    <3>2. m = n
      <4>1. Len(r.items) \in Nat
        BY <1>1
      <4> QED BY <2>1, <3>1, <4>1 DEF Last
    <3> QED BY <3>1, <3>2 DEF RowOf, Live
  <2>2. \A i \in Ids \ IdsOf(r.items) : rows'[i] = rows[i]
    BY <1>4, UpdatedAt DEF Typed
  <2> QED BY <2>1, <2>2
<1> QED BY <1>3, <1>4

\* A request commits.
LEMMA RequestSound ==
  ASSUME Typed, AllSound, NEW c \in Calls, NEW r \in pending,
         Create(c, r) \/ Update(c, r) \/ Comment(c, r) \/ Delete(c, r) \/ DeleteFolder(c, r)
  PROVE  AllSound'
<1>1. /\ c \in Procs /\ c \notin Warmers /\ Moves(c)
      /\ hash' = hash /\ index' = index
  BY RequestTyped, SecretCacheAssumption
     DEF Typed, Procs, Create, Update, Comment, Delete, DeleteFolder, Commit, redis
<1>2. ASSUME NEW S, TouchRows(c, S), \A i \in Ids \ S : rows'[i] = rows[i], Sound(c)'
      PROVE  AllSound'
  <2>1. fresh' = fresh \ S /\ \A q \in Procs \ {c} : alone'[q] \subseteq alone[q] \ S
    BY <1>2 DEF TouchRows
  <2> QED BY <1>1, <1>2, <2>1, OneMoves
<1>3. CASE Create(c, r) \/ Update(c, r)
  <2>1. /\ proc'[c] = Written(r.items) /\ TouchRows(c, IdsOf(r.items))
        /\ r.items \in Seq(Item)
    BY <1>3, RequestTyped, RequestFields DEF Typed, Create, Update
  <2>2. /\ \A n \in 1 .. Len(r.items) : Last(r.items, n) =>
              /\ Live(rows', r.items[n].id)
              /\ rows'[r.items[n].id].value = r.items[n].value
        /\ \A i \in Ids \ IdsOf(r.items) : rows'[i] = rows[i]
    BY <1>3, WrittenValues
  <2>3. proc'[c].pc = "read" /\ proc'[c].read = r.items /\ proc'[c].todo = << >>
    BY <2>1 DEF Written, Idle
  <2>4. ReadsOwn(c)'
    BY <2>2, <2>3 DEF ReadsOwn, Live, Last
  <2>5. WritesCurrent(c)'
    BY <2>3 DEF WritesCurrent
  <2>6. Sound(c)'
    BY <1>1, <2>3, <2>4, <2>5 DEF Sound, RemovesGone, HashWritten, At, Removing
  <2> QED BY <1>2, <2>1, <2>2, <2>6
<1>4. CASE Comment(c, r) \/ DeleteFolder(c, r)
  <2>1. /\ proc'[c] = Idle
        /\ \E S \in SUBSET Ids : TouchRows(c, S) /\ \A i \in Ids \ S : rows'[i] = rows[i]
    BY <1>4, RequestTyped DEF Typed
  <2>2. Sound(c)'
    BY <1>1, <2>1, RestSound DEF Idle
  <2> QED BY <1>2, <2>1, <2>2
<1>5. CASE Delete(c, r)
  <2>1. /\ proc'[c] = [Idle EXCEPT !.pc = "hgetdel", !.todo = <<[id |-> r.id]>>]
        /\ TouchRows(c, {r.id}) /\ r.id \in Ids /\ ~ Live(rows', r.id)
        /\ \A i \in Ids \ {r.id} : rows'[i] = rows[i]
    BY <1>5, RequestTyped DEF Typed
  <2>2. proc'[c].pc = "hgetdel" /\ proc'[c].todo = <<[id |-> r.id]>>
    BY <2>1 DEF Idle
  <2>3. Head(proc'[c].todo).id = r.id
    BY <2>2
  <2>4. RemovesGone(c)'
    BY <2>1, <2>3 DEF RemovesGone, Now, Live
  <2>5. Sound(c)'
    BY <1>1, <2>2, <2>4
       DEF Sound, ReadsOwn, WritesCurrent, HashWritten, At, Upserting, Clearing
  <2> QED BY <1>2, <2>1, <2>5
<1> QED BY <1>3, <1>4, <1>5

LEMMA SoundStep ==
  ASSUME Typed, AllSound, [Next]_vars
  PROVE  AllSound'
<1>1. ASSUME UNCHANGED <<rows, hash, index, proc, alone, fresh>>
      PROVE  AllSound'
  <2>1. \A q \in Procs : Sound(q)'
    BY <1>1, OthersSound DEF AllSound
  <2>2. LoneWritersLeaveTheTruth'
    BY <1>1 DEF AllSound, LoneWritersLeaveTheTruth, Live, EntryOf
  <2> QED BY <2>1, <2>2 DEF AllSound
<1>2. CASE UNCHANGED vars
  BY <1>1, <1>2 DEF vars
<1>3. CASE Requesting
  BY <1>3, RequestSound DEF Requesting
<1>4. CASE \E c \in Calls : GetSecret(c) \/ DeleteSecret(c)
  BY <1>4, GetSound, DeletionSound DEF Procs
<1>5. CASE \E p \in Procs : UpsertSecret(p) \/ RedisFails(p)
  BY <1>5, UpsertSound, SAddSound, FailSound DEF UpsertSecret
<1>6. CASE \E w \in Warmers : \/ ListSecretCacheRecords(w)
                              \/ DelIds(w) \/ ScanPaths(w) \/ DelPaths(w)
  BY <1>6, ListSound, ClearSound
<1>7. CASE \E s \in Searches :
             SMembers(s) \/ searchType(s) \/ filterSecretHits(s) \/ GlobalSearch(s)
  BY <1>1, <1>7, SearchTyped DEF Typed
<1> QED BY <1>2, <1>3, <1>4, <1>5, <1>6, <1>7, Kinds

LEMMA SoundInit ==
  ASSUME Init
  PROVE  AllSound
<1>1. LoneWritersLeaveTheTruth
  BY DEF Init, LoneWritersLeaveTheTruth
<1>2. \A p \in Procs : proc[p].pc \in {"idle", "list"}
  BY DEF Init, Idle
<1>3. \A p \in Procs : Sound(p)
  BY <1>2 DEF Sound, ReadsOwn, WritesCurrent, RemovesGone, HashWritten, WarmsAll, At,
              Upserting, Removing, Clearing
<1> QED BY <1>1, <1>3 DEF AllSound

\* However handlers and warm-ups interleave at every command, fail and name a
\* secret twice, a secret that nobody else touched from a request's commit, or
\* a warm-up's list, to its last command is in Redis as it is in the table
\* (UpsertSecret, DeleteSecret, WarmSecrets).
THEOREM LoneWritersAreRight == Spec => []LoneWritersLeaveTheTruth
<1>1. Typed /\ AllSound /\ [Next]_vars => AllSound'
  BY SoundStep
<1>2. Init => AllSound
  BY SoundInit
<1>3. AllSound => LoneWritersLeaveTheTruth
  BY DEF AllSound
<1> QED BY <1>1, <1>2, <1>3, TypedAlways, PTL DEF Spec
=============================================================================
