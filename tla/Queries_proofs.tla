---------------------------- MODULE Queries_proofs ----------------------------
(***************************************************************************)
(* Proofs about lists, reports and relations: relations show exactly once, *)
(* lists have their order, a walk through the pages of a list misses no    *)
(* record that was in it from the start, and reports say what lists show.  *)
(***************************************************************************)
EXTENDS Queries, Collections_proofs

-----------------------------------------------------------------------------
(* Rows *)

\* The calls that write records keep the rows records.
LEMMA RecordsWritten ==
    ASSUME rows \in Seq(Record),
           \/ \E record \in Given : CreateRecord(record)
           \/ \E i \in DOMAIN rows :
                \/ \E amount \in Amounts \cup {Null} : UpdateRecord(i, amount)
                \/ \E active \in BOOLEAN : SetLifecycle(i, active)
    PROVE  rows' \in Seq(Record)
<1>1. ASSUME NEW record \in Given, CreateRecord(record) PROVE rows' \in Seq(Record)
  BY <1>1, QueriesAssumption DEF CreateRecord
<1>2. ASSUME NEW i \in DOMAIN rows, NEW amount \in Amounts \cup {Null}, UpdateRecord(i, amount)
      PROVE  rows' \in Seq(Record)
  <2> DEFINE value == IF amount = Null THEN Absent ELSE amount
             row == [rows[i] EXCEPT !.amount = value]
  <2>1. rows' = [rows EXCEPT ![i] = row]
    BY <1>2 DEF UpdateRecord
  <2>2. rows[i] \in Record /\ value \in Amounts \cup {Null, Absent}
    BY <1>2
  <2>3. row \in Record
    <3> HIDE DEF value
    <3> QED BY <2>2 DEF Record
  <2> HIDE DEF row
  <2> QED BY <2>1, <2>3
<1>3. ASSUME NEW i \in DOMAIN rows, NEW active \in BOOLEAN, SetLifecycle(i, active)
      PROVE  rows' \in Seq(Record)
  <2> DEFINE row == [rows[i] EXCEPT !.active = active]
  <2>1. rows' = [rows EXCEPT ![i] = row]
    BY <1>3 DEF SetLifecycle
  <2>2. rows[i] \in Record
    BY <1>3
  <2>3. row \in Record
    BY <2>2 DEF Record
  <2> HIDE DEF row
  <2> QED BY <2>1, <2>3
<1> QED BY <1>1, <1>2, <1>3

-----------------------------------------------------------------------------
(* Relations *)

\* What a relate call checked, and an audit row
Relate   == [step: {"relate"}, from: Nat, to: Nat, type: RelationTypes]
AuditRow == [from: Nat, to: Nat, type: RelationTypes]

Same(e, a) == e.from = a.from /\ e.to = a.to /\ e.type = a.type

(***************************************************************************)
(* No two relations say the same, and the relations and the audit rows say *)
(* the same.                                                               *)
(***************************************************************************)
RelationsSound ==
    /\ rows \in Seq(Record)
    /\ call \in [Slots -> Relate \cup {Idle}]
    /\ audited \in Seq(AuditRow)
    /\ \A d, e \in relations : Same(d, e) => d = e
    /\ \A k \in DOMAIN audited : \E e \in relations : Same(e, audited[k])
    /\ \A e \in relations : \E k \in DOMAIN audited :
          audited[k] = [from |-> e.from, to |-> e.to, type |-> e.type]

\* A relation is stored only where there is none that says the same.
LEMMA RelateCommitted ==
    ASSUME RelationsSound, NEW q \in Slots, RelateCommit(q)
    PROVE  RelationsSound'
<1> DEFINE c == call[q]
           row == [from |-> c.from, to |-> c.to, type |-> c.type]
           edge == [from |-> c.from, to |-> c.to, type |-> c.type, id |-> Len(audited) + 1]
           there == \E e \in relations : e.from = c.from /\ e.to = c.to /\ e.type = c.type
<1>1. /\ c \in Relate /\ row \in AuditRow
      /\ relations' = relations \cup (IF there THEN {} ELSE {edge})
      /\ audited' = Append(audited, row)
      /\ call' = [call EXCEPT ![q] = Idle]
      /\ UNCHANGED rows
  BY DEF RelationsSound, RelateCommit, Relate, AuditRow, Idle
<1>2. /\ row.from = c.from /\ row.to = c.to /\ row.type = c.type
      /\ edge.from = c.from /\ edge.to = c.to /\ edge.type = c.type
  OBVIOUS
<1>3. audited \in Seq(AuditRow)
  BY DEF RelationsSound
<1> HIDE DEF row, edge
<1>4. /\ audited' \in Seq(AuditRow)
      /\ DOMAIN audited' = DOMAIN audited \cup {Len(audited) + 1}
      /\ audited'[Len(audited) + 1] = row
      /\ \A k \in DOMAIN audited : audited'[k] = audited[k]
  BY <1>1, <1>3
<1>5. /\ \E e \in relations' : Same(e, row)
      /\ \A d, e \in relations' : Same(d, e) => d = e
  <2>1. CASE there
    BY <2>1, <1>1, <1>2 DEF RelationsSound, Same
  <2>2. CASE ~there
    <3>1. relations' = relations \cup {edge}
      BY <2>2, <1>1
    <3>2. \A e \in relations : ~Same(e, edge) /\ ~Same(edge, e)
      BY <2>2, <1>2 DEF Same
    <3> QED BY <3>1, <3>2, <1>2 DEF RelationsSound, Same
  <2> QED BY <2>1, <2>2
<1>6. \A k \in DOMAIN audited' : \E e \in relations' : Same(e, audited'[k])
  <2> TAKE k \in DOMAIN audited'
  <2>1. CASE k \in DOMAIN audited
    BY <2>1, <1>1, <1>4 DEF RelationsSound
  <2>2. CASE k = Len(audited) + 1
    BY <2>2, <1>4, <1>5
  <2> QED BY <2>1, <2>2, <1>4
<1>7. \A e \in relations' : \E k \in DOMAIN audited' :
         audited'[k] = [from |-> e.from, to |-> e.to, type |-> e.type]
  <2> TAKE e \in relations'
  <2>1. CASE e \in relations
    <3>1. PICK k \in DOMAIN audited :
             audited[k] = [from |-> e.from, to |-> e.to, type |-> e.type]
      BY <2>1 DEF RelationsSound
    <3> QED BY <3>1, <1>4
  <2>2. CASE e = edge
    BY <2>2, <1>2, <1>4 DEF row
  <2> QED BY <2>1, <2>2, <1>1
<1>8. call' \in [Slots -> Relate \cup {Idle}] /\ rows' \in Seq(Record)
  BY <1>1 DEF RelationsSound
<1> QED BY <1>4, <1>5, <1>6, <1>7, <1>8 DEF RelationsSound

LEMMA RelationsStep == RelationsSound /\ [Next]_vars => RelationsSound'
<1> SUFFICES ASSUME RelationsSound, [Next]_vars PROVE RelationsSound'
  OBVIOUS
<1>1. ASSUME \/ \E record \in Given : CreateRecord(record)
             \/ \E i \in DOMAIN rows :
                  \/ \E amount \in Amounts \cup {Null} : UpdateRecord(i, amount)
                  \/ \E active \in BOOLEAN : SetLifecycle(i, active)
      PROVE  RelationsSound'
  <2>1. UNCHANGED <<relations, audited, call>>
    BY <1>1 DEF CreateRecord, UpdateRecord, SetLifecycle
  <2>2. rows' \in Seq(Record)
    BY <1>1, RecordsWritten DEF RelationsSound
  <2> QED BY <2>1, <2>2 DEF RelationsSound
<1>2. ASSUME NEW q \in Slots, NEW actor \in Actors, NEW from \in DOMAIN rows,
             NEW to \in DOMAIN rows, NEW type \in RelationTypes,
             RelateLoad(q, actor, from, to, type)
      PROVE  RelationsSound'
  <2>1. [step |-> "relate", from |-> from, to |-> to, type |-> type] \in Relate
    BY <1>2 DEF RelationsSound, Relate
  <2> QED BY <1>2, <2>1 DEF RelationsSound, RelateLoad
<1>3. ASSUME NEW q \in Slots, RelateCommit(q) PROVE RelationsSound'
  BY <1>3, RelateCommitted
<1>4. ASSUME NEW q \in Slots, Abort(q) PROVE RelationsSound'
  BY <1>4 DEF RelationsSound, Abort
<1>5. CASE UNCHANGED <<rows, relations, audited, call>>
  BY <1>5 DEF RelationsSound
<1> QED BY <1>1, <1>2, <1>3, <1>4, <1>5 DEF Next, vars, StartWalk, NextPage, Rest

LEMMA RelationsInit == Init => RelationsSound
BY DEF Init, RelationsSound

\* Every relation that is audited shows once at each end.
LEMMA ShowsOnce ==
    ASSUME RelationsSound
    PROVE  RelationsShowOnce
<1>1. ASSUME NEW k \in DOMAIN audited
      PROVE  LET a == audited[k] IN
             /\ Cardinality({e \in get_relations(a.from) : /\ e.direction = "out"
                                /\ e.record = a.to /\ e.type = a.type}) = 1
             /\ a.to # a.from =>
                Cardinality({e \in get_relations(a.to) : /\ e.direction = "in"
                                /\ e.record = a.from /\ e.type = a.type}) = 1
  <2> DEFINE a == audited[k]
  <2>1. PICK edge \in relations : Same(edge, a)
    BY <1>1 DEF RelationsSound
  <2>2. \A e \in relations : Same(e, a) => e = edge
    BY <2>1 DEF RelationsSound, Same
  <2> DEFINE out == [direction |-> "out", type |-> a.type, id |-> edge.id, record |-> a.to]
             in == [direction |-> "in", type |-> a.type, id |-> edge.id, record |-> a.from]
  <2> HIDE DEF a
  <2>3. {e \in get_relations(a.from) : /\ e.direction = "out"
            /\ e.record = a.to /\ e.type = a.type} = {out}
    BY <2>1, <2>2 DEF get_relations, Same
  <2>4. a.to # a.from => {e \in get_relations(a.to) : /\ e.direction = "in"
            /\ e.record = a.from /\ e.type = a.type} = {in}
    BY <2>1, <2>2 DEF get_relations, Same
  <2> HIDE DEF out, in
  <2> QED BY <2>3, <2>4, FS_Singleton DEF a
<1>2. ASSUME NEW i \in DOMAIN rows, NEW e \in get_relations(i)
      PROVE  [from |-> IF e.direction = "out" THEN i ELSE e.record,
              to |-> IF e.direction = "out" THEN e.record ELSE i,
              type |-> e.type] \in ToSet(audited)
  <2>1. PICK edge \in relations :
           /\ i \in {edge.from, edge.to}
           /\ e = [direction |-> IF edge.from = i THEN "out" ELSE "in",
                   type |-> edge.type, id |-> edge.id,
                   record |-> IF edge.from = i THEN edge.to ELSE edge.from]
    BY <1>2 DEF get_relations
  <2>2. [from |-> IF e.direction = "out" THEN i ELSE e.record,
         to |-> IF e.direction = "out" THEN e.record ELSE i,
         type |-> e.type] = [from |-> edge.from, to |-> edge.to, type |-> edge.type]
    BY <2>1
  <2>3. PICK k \in DOMAIN audited :
           audited[k] = [from |-> edge.from, to |-> edge.to, type |-> edge.type]
    BY <2>1 DEF RelationsSound
  <2> QED BY <2>2, <2>3 DEF ToSet
<1> QED BY <1>1, <1>2 DEF RelationsShowOnce

(***************************************************************************)
(* However often and concurrently two records are related, every audited   *)
(* relation shows once at each of its ends and nothing else shows          *)
(* (record.rs relate: INSERT OR IGNORE and an audit row in any case).      *)
(***************************************************************************)
THEOREM RelationsAlwaysShowOnce == Spec => []RelationsShowOnce
BY RelationsInit, RelationsStep, ShowsOnce, PTL DEF Spec

-----------------------------------------------------------------------------
(* Listings *)

Descending(seq) == \A j, k \in 1..Len(seq) : j < k => seq[j] > seq[k]

\* How many rows of S are newer
Newer(S, i) == Cardinality({j \in S : j > i})

\* The newer a row, the fewer are newer.
LEMMA NewerCounts ==
    ASSUME NEW S \in SUBSET Nat, IsFiniteSet(S), NEW i \in S
    PROVE  /\ Newer(S, i) \in 0..(Cardinality(S) - 1)
           /\ \A j \in S : j > i => Newer(S, j) < Newer(S, i)
<1> DEFINE Above(j) == {k \in S : k > j}
<1>1. Cardinality(S \ {i}) = Cardinality(S) - 1 /\ IsFiniteSet(S \ {i})
  BY FS_RemoveElement
<1>2. Above(i) \subseteq S \ {i}
  OBVIOUS
<1>3. /\ IsFiniteSet(Above(i)) /\ Cardinality(Above(i)) \in Nat
      /\ Cardinality(Above(i)) <= Cardinality(S) - 1
  BY <1>1, <1>2, FS_Subset, FS_CardinalityType
<1>4. ASSUME NEW j \in S, j > i
      PROVE  Newer(S, j) < Newer(S, i)
  <2>1. Above(j) \subseteq Above(i) /\ j \in Above(i) /\ j \notin Above(j)
    <3>1. i \in Nat /\ j \in Nat
      OBVIOUS
    <3>2. \A k \in S : k > j => k > i
      BY <1>4, <3>1
    <3>3. ~(j > j)
      BY <3>1
    <3> HIDE DEF Above
    <3>4. Above(j) \subseteq Above(i)
      BY <3>2 DEF Above
    <3>5. j \in Above(i) /\ j \notin Above(j)
      BY <1>4, <3>3 DEF Above
    <3> QED BY <3>4, <3>5
  <2> HIDE DEF Above
  <2>2. /\ Cardinality(Above(j)) \in Nat /\ Cardinality(Above(j)) <= Cardinality(Above(i))
        /\ Cardinality(Above(j)) # Cardinality(Above(i))
    BY <1>3, <2>1, FS_Subset, FS_CardinalityType
  <2> QED BY <1>3, <2>2 DEF Newer, Above
<1> QED BY <1>3, <1>4, FS_CardinalityType DEF Newer

\* The rows newest first are all of them, each once.
LEMMA NewestFirstLists ==
    ASSUME NEW S \in SUBSET Nat, IsFiniteSet(S)
    PROVE  /\ Listing(NewestFirst(S), S) /\ Descending(NewestFirst(S))
           /\ Len(NewestFirst(S)) = Cardinality(S)
<1> DEFINE n == Cardinality(S)
           rank == [i \in S |-> Newer(S, i)]
           out == NewestFirst(S)
<1>1. n \in Nat
  BY FS_CardinalityType
<1>2. /\ \A i \in S : Newer(S, i) \in 0..(n - 1)
      /\ \A i, j \in S : j > i => Newer(S, j) < Newer(S, i)
  BY NewerCounts
<1>3. \A i, j \in S : Newer(S, i) = Newer(S, j) => i = j
  BY <1>1, <1>2
<1>4. \A m \in 0..(n - 1) : \E i \in S : Newer(S, i) = m
  <2>1. rank \in Injection(S, 0..(n - 1))
    BY <1>2, <1>3 DEF Injection, IsInjective
  <2>2. IsFiniteSet(0..(n - 1)) /\ Cardinality(0..(n - 1)) = n
    <3> HIDE DEF n
    <3>1. 0 \in Int /\ n - 1 \in Int /\ (IF 0 > n - 1 THEN 0 ELSE n - 1 - 0 + 1) = n
      BY <1>1
    <3> QED BY <3>1, FS_Interval
  <2>3. rank \in Surjection(S, 0..(n - 1))
    <3> HIDE DEF rank, n
    <3> QED BY <2>1, <2>2, FS_Injection DEF n
  <2> QED BY <2>3 DEF Surjection
<1>5. out = [k \in 1..n |-> CHOOSE i \in S : Newer(S, i) = k - 1]
  BY DEF NewestFirst, Newer
<1>6. \A k \in 1..n : out[k] \in S /\ Newer(S, out[k]) = k - 1
  BY <1>1, <1>4, <1>5
<1>7. out \in [1..n -> S]
  BY <1>5, <1>6
<1> HIDE DEF n, out, rank
<1>8. out \in Seq(S) /\ Len(out) = n
  BY <1>1, <1>7
<1>9. \A i \in S : \E k \in 1..n : out[k] = i
  <2> TAKE i \in S
  <2>1. Newer(S, i) + 1 \in 1..n /\ Newer(S, i) \in Nat
    BY <1>1, <1>2
  <2>2. Newer(S, out[Newer(S, i) + 1]) = Newer(S, i) /\ out[Newer(S, i) + 1] \in S
    BY <1>6, <2>1
  <2> QED BY <1>3, <2>1, <2>2
<1>10. \A j, k \in 1..n : out[j] = out[k] => j = k
  BY <1>1, <1>6
<1>11. \A j, k \in 1..n : j < k => out[j] > out[k]
  <2> TAKE j, k \in 1..n
  <2> HAVE j < k
  <2>1. /\ out[j] \in S /\ Newer(S, out[j]) = j - 1
        /\ out[k] \in S /\ Newer(S, out[k]) = k - 1
    BY <1>6
  <2>2. Newer(S, out[j]) < Newer(S, out[k]) /\ ~(Newer(S, out[k]) < Newer(S, out[j]))
    BY <1>1, <2>1
  <2>3. ~(out[k] > out[j]) /\ out[j] # out[k]
    BY <1>2, <2>1, <2>2
  <2>4. out[j] \in Nat /\ out[k] \in Nat
    BY <2>1
  <2> QED BY <2>3, <2>4
<1> QED BY <1>8, <1>9, <1>10, <1>11 DEF Listing, Descending, out, n

-----------------------------------------------------------------------------
(* Sorting *)

\* The sort by insertion of the first n rows, for each n
Inserted(field, seq, sorted) ==
    sorted = [n \in 0..Len(seq) |->
                IF n = 0 THEN <<>>
                ELSE InsertAt(sorted[n - 1], Place(field, sorted[n - 1], seq[n]), seq[n])]

\* There is such a function, so SortBy is its last value.
LEMMA SortIs ==
    ASSUME NEW field, NEW seq, Len(seq) \in Nat
    PROVE  \E sorted : Inserted(field, seq, sorted) /\ SortBy(field, seq) = sorted[Len(seq)]
<1> DEFINE Step(s, n) == InsertAt(s, Place(field, s, seq[n]), seq[n])
           Upto(m, f) == f = [n \in 0..m |-> IF n = 0 THEN <<>> ELSE Step(f[n - 1], n)]
           P == {m \in Nat : \E f : Upto(m, f)}
<1>1. 0 \in P
  <2> DEFINE f == [n \in 0..0 |-> <<>>]
  <2>1. f = [n \in 0..0 |-> IF n = 0 THEN <<>> ELSE Step(f[n - 1], n)]
    OBVIOUS
  <2> QED BY <2>1
<1>2. ASSUME NEW m \in Nat, m \in P PROVE m + 1 \in P
  <2>1. PICK f : Upto(m, f)
    BY <1>2
  <2> DEFINE g == [n \in 0..(m + 1) |-> IF n = m + 1 THEN Step(f[m], m + 1) ELSE f[n]]
  <2> HIDE DEF Step
  <2>2. \A n \in 0..m : g[n] = f[n]
    OBVIOUS
  <2>3. \A n \in 0..(m + 1) : g[n] = IF n = 0 THEN <<>> ELSE Step(g[n - 1], n)
    <3> TAKE n \in 0..(m + 1)
    <3>1. CASE n = m + 1
      BY <3>1, <2>2
    <3>2. CASE n \in 0..m
      <4>1. n # 0 => n - 1 \in 0..m
        BY <3>2
      <4> QED BY <3>2, <4>1, <2>1, <2>2
    <3> QED BY <3>1, <3>2
  <2>4. g = [n \in 0..(m + 1) |-> IF n = 0 THEN <<>> ELSE Step(g[n - 1], n)]
    BY <2>3
  <2>5. \E h : Upto(m + 1, h)
    <3> HIDE DEF g
    <3> QED BY <2>4
  <2> QED BY <2>5
<1>3. Len(seq) \in P
  <2> HIDE DEF P
  <2> QED BY <1>1, <1>2, NatInd
<1>4. \E f : Inserted(field, seq, f)
  BY <1>3 DEF Inserted
<1> DEFINE it == CHOOSE f : Inserted(field, seq, f)
<1>5. Inserted(field, seq, it)
  BY <1>4
<1>6. SortBy(field, seq) = it[Len(seq)]
  BY DEF SortBy, Inserted
<1> QED BY <1>5, <1>6

\* What is before the place stays, and what is behind it moves by one.
LEMMA InsertedAt ==
    ASSUME NEW S, NEW s \in Seq(S), NEW p \in 1..(Len(s) + 1), NEW e \in S
    PROVE  /\ InsertAt(s, p, e) \in Seq(S) /\ Len(InsertAt(s, p, e)) = Len(s) + 1
           /\ \A k \in 1..(Len(s) + 1) :
                 InsertAt(s, p, e)[k] = IF k < p THEN s[k] ELSE IF k = p THEN e ELSE s[k - 1]
<1> DEFINE t == InsertAt(s, p, e)
           a == SubSeq(s, 1, p - 1)
           b == SubSeq(s, p, Len(s))
<1>0. Len(s) \in Nat /\ p \in Nat /\ 1 <= p /\ p <= Len(s) + 1
  OBVIOUS
<1>1. a \in Seq(S) /\ Len(a) = p - 1 /\ \A k \in 1..(p - 1) : a[k] = s[k]
  BY <1>0
<1>2. /\ b \in Seq(S) /\ Len(b) = Len(s) + 1 - p
      /\ \A k \in 1..(Len(s) + 1 - p) : b[k] = s[p + k - 1]
  BY <1>0
<1> HIDE DEF a, b
<1>3. t = (a \o <<e>>) \o b
  BY DEF InsertAt, a, b
<1> HIDE DEF t
<1>4. <<e>> \in Seq(S) /\ Len(<<e>>) = 1 /\ <<e>>[1] = e
  OBVIOUS
<1> DEFINE ae == a \o <<e>>
<1>5. /\ ae \in Seq(S) /\ Len(ae) = p
      /\ \A k \in 1..p : ae[k] = IF k < p THEN s[k] ELSE e
  BY <1>0, <1>1, <1>4
<1> HIDE DEF ae
<1>6. t = ae \o b
  BY <1>3 DEF ae
<1>7. /\ t \in Seq(S) /\ Len(t) = Len(s) + 1
      /\ \A k \in 1..(Len(s) + 1) : t[k] = IF k <= p THEN ae[k] ELSE b[k - p]
  <2>0. ae \in Seq(S) /\ b \in Seq(S)
    BY <1>2, <1>5
  <2>1. t \in Seq(S) /\ Len(t) = Len(ae) + Len(b)
    BY <1>6, <2>0, ConcatProperties
  <2>2. Len(t) = Len(s) + 1
    BY <1>0, <1>2, <1>5, <2>1
  <2>3. \A k \in 1..(Len(ae) + Len(b)) :
           (ae \o b)[k] = IF k <= Len(ae) THEN ae[k] ELSE b[k - Len(ae)]
    BY <2>0, ConcatProperties
  <2> QED BY <1>0, <1>2, <1>5, <1>6, <2>1, <2>2, <2>3
<1>8. \A k \in 1..(Len(s) + 1) : k > p => k - p \in 1..(Len(s) + 1 - p) /\ p + (k - p) - 1 = k - 1
  BY <1>0
<1>9. ASSUME NEW k \in 1..(Len(s) + 1)
      PROVE  t[k] = IF k < p THEN s[k] ELSE IF k = p THEN e ELSE s[k - 1]
  <2>1. CASE k <= p
    <3>1. k \in 1..p /\ t[k] = ae[k]
      BY <1>0, <1>7, <2>1
    <3> QED BY <1>0, <1>5, <2>1, <3>1
  <2>2. CASE k > p
    <3>1. t[k] = b[k - p] /\ k - p \in 1..(Len(s) + 1 - p) /\ p + (k - p) - 1 = k - 1
      BY <1>0, <1>7, <1>8, <2>2
    <3>2. t[k] = s[k - 1]
      BY <1>2, <3>1
    <3> QED BY <1>0, <2>2, <3>2
  <2> QED BY <1>0, <2>1, <2>2
<1> QED BY <1>7, <1>9 DEF t

\* The order of field is the one of the numbers key gives the rows of S.
Keyed(field, key, S) ==
    /\ \A i \in S : key[i] \in Int
    /\ \A i, j \in S : Less(field, i, j) <=> key[i] < key[j]

\* Ascending by key, and newest first among equals
Ascending(key, seq) ==
    \A j, k \in 1..Len(seq) : j < k =>
        \/ key[seq[j]] < key[seq[k]]
        \/ key[seq[j]] = key[seq[k]] /\ seq[j] > seq[k]

\* All rows from the place of a row on are greater, and the one before is not.
LEMMA PlaceIn ==
    ASSUME NEW field, NEW T, NEW s \in Seq(T), NEW e
    PROVE  /\ Place(field, s, e) \in 1..(Len(s) + 1)
           /\ \A k \in 1..Len(s) : k >= Place(field, s, e) => Less(field, e, s[k])
           /\ Place(field, s, e) > 1 => ~Less(field, e, s[Place(field, s, e) - 1])
<1> DEFINE p == Place(field, s, e)
           K == {0} \cup {k \in DOMAIN s : ~Less(field, e, s[k])}
<1>1. Len(s) \in Nat /\ DOMAIN s = 1..Len(s)
  OBVIOUS
<1>2. K \in SUBSET Nat /\ K # {} /\ \A x \in K : x <= Len(s)
  BY <1>1
<1>3. \A k \in 1..Len(s) : k \in K <=> ~Less(field, e, s[k])
  BY <1>1
<1>4. \A k \in K : k # 0 => k \in 1..Len(s)
  BY <1>1
<1>5. p = 1 + Max(K)
  BY DEF Place
<1> HIDE DEF K, p
<1>6. Max(K) \in K /\ \A x \in K : x <= Max(K)
  BY <1>1, <1>2, GreatestOf
<1>7. Max(K) \in Nat /\ Max(K) <= Len(s)
  BY <1>2, <1>6
<1>8. p \in 1..(Len(s) + 1)
  BY <1>1, <1>5, <1>7
<1>9. ASSUME NEW k \in 1..Len(s), k >= p PROVE Less(field, e, s[k])
  <2>1. ~(k <= Max(K))
    BY <1>1, <1>5, <1>7, <1>9
  <2> QED BY <1>3, <1>6, <2>1
<1>10. ASSUME p > 1 PROVE ~Less(field, e, s[p - 1])
  <2>1. p - 1 = Max(K) /\ Max(K) # 0
    BY <1>5, <1>7, <1>10
  <2> QED BY <1>3, <1>4, <1>6, <2>1
<1> QED BY <1>8, <1>9, <1>10 DEF p

\* To insert a row adds it to the rows listed.
LEMMA InsertLists ==
    ASSUME NEW A, NEW s, Listing(s, A), NEW e, e \notin A,
           NEW p \in 1..(Len(s) + 1)
    PROVE  Listing(InsertAt(s, p, e), A \cup {e}) /\ Len(InsertAt(s, p, e)) = Len(s) + 1
<1> DEFINE B == A \cup {e}
           t == InsertAt(s, p, e)
           n == Len(s)
<1>1. s \in Seq(A) /\ n \in Nat /\ s \in Seq(B) /\ e \in B
  BY DEF Listing
<1>2. p \in Nat /\ 1 <= p /\ p <= n + 1
  BY <1>1
<1>3. \A k \in 1..n : s[k] \in A
  BY <1>1
<1> HIDE DEF B
<1>4. /\ t \in Seq(B) /\ Len(t) = n + 1
      /\ \A k \in 1..(n + 1) : t[k] = IF k < p THEN s[k] ELSE IF k = p THEN e ELSE s[k - 1]
  <2>1. p \in 1..(Len(s) + 1) /\ s \in Seq(B) /\ e \in B
    BY <1>1
  <2> QED BY <2>1, InsertedAt
<1> HIDE DEF t
<1>5. ASSUME NEW i \in B PROVE \E k \in 1..Len(t) : t[k] = i
  <2>1. CASE i = e
    <3>1. p \in 1..(n + 1) /\ t[p] = e
      BY <1>1, <1>2, <1>4
    <3> QED BY <1>4, <2>1, <3>1
  <2>2. CASE i # e
    <3>1. PICK k \in 1..n : s[k] = i
      BY <2>2 DEF Listing, B
    <3>2. CASE k < p
      <4>1. k \in 1..(n + 1) /\ t[k] = i
        BY <1>1, <1>2, <1>4, <3>1, <3>2
      <4> QED BY <1>4, <4>1
    <3>3. CASE ~(k < p)
      <4>1. k + 1 \in 1..(n + 1) /\ ~(k + 1 < p) /\ k + 1 # p /\ (k + 1) - 1 = k
        BY <1>1, <1>2, <3>3
      <4>2. t[k + 1] = i
        BY <1>4, <3>1, <4>1
      <4> QED BY <1>4, <4>1, <4>2
    <3> QED BY <3>2, <3>3
  <2> QED BY <2>1, <2>2
\* Where each place of the result comes from
<1> DEFINE from(k) == IF k < p THEN k ELSE k - 1
<1>6. \A k \in 1..(n + 1) : k # p => from(k) \in 1..n /\ t[k] = s[from(k)]
  BY <1>1, <1>2, <1>4
<1>7. \A j, k \in 1..(n + 1) : j # p /\ k # p /\ from(j) = from(k) => j = k
  BY <1>1, <1>2
<1> HIDE DEF from
<1>8. t[p] = e /\ p \in 1..(n + 1)
  BY <1>1, <1>2, <1>4
<1>9. \A k \in 1..(n + 1) : k # p => t[k] \in A
  BY <1>3, <1>6
<1>10. ASSUME NEW j \in 1..(n + 1), NEW k \in 1..(n + 1), t[j] = t[k] PROVE j = k
  <2>1. CASE j = p \/ k = p
    BY <1>8, <1>9, <1>10, <2>1
  <2>2. CASE j # p /\ k # p
    <3>1. s[from(j)] = s[from(k)] /\ from(j) \in 1..n /\ from(k) \in 1..n
      BY <1>6, <1>10, <2>2
    <3>2. from(j) = from(k)
      BY <3>1 DEF Listing
    <3> QED BY <1>7, <2>2, <3>2
  <2> QED BY <2>1, <2>2
<1>11. Listing(t, B)
  BY <1>4, <1>5, <1>10 DEF Listing
<1> QED BY <1>4, <1>11 DEF B, t

\* To insert an older row at its place keeps an ascending list one.
LEMMA InsertSorts ==
    ASSUME NEW field, NEW key, NEW A \in SUBSET Nat, NEW s, Listing(s, A),
           NEW e \in Nat, \A i \in A : i > e,
           Keyed(field, key, A \cup {e}), Ascending(key, s)
    PROVE  Ascending(key, InsertAt(s, Place(field, s, e), e))
<1> DEFINE n == Len(s)
           p == Place(field, s, e)
           t == InsertAt(s, p, e)
<1>1. s \in Seq(A) /\ n \in Nat
  BY DEF Listing
<1>2. /\ p \in 1..(n + 1)
      /\ \A k \in 1..n : k >= p => Less(field, e, s[k])
      /\ p > 1 => ~Less(field, e, s[p - 1])
  <2>1. s \in Seq(A)
    BY <1>1
  <2> QED BY <2>1, PlaceIn
<1>3. \A k \in 1..n : s[k] \in A /\ s[k] \in Nat /\ s[k] > e /\ key[s[k]] \in Int
  <2>1. \A k \in 1..n : s[k] \in A
    BY <1>1
  <2>2. \A i \in A : i \in Nat /\ i > e /\ key[i] \in Int
    BY DEF Keyed
  <2> HIDE DEF n
  <2> QED BY <2>1, <2>2
<1>4. key[e] \in Int
  BY DEF Keyed
<1> HIDE DEF p, n, t
<1>5. p \in Nat /\ 1 <= p /\ p <= n + 1
  BY <1>1, <1>2
<1>6. /\ Len(t) = n + 1
      /\ \A k \in 1..(n + 1) : t[k] = IF k < p THEN s[k] ELSE IF k = p THEN e ELSE s[k - 1]
  <2>1. p \in 1..(Len(s) + 1)
    BY <1>2 DEF n
  <2>2. /\ Len(InsertAt(s, p, e)) = Len(s) + 1
        /\ \A k \in 1..(Len(s) + 1) :
              InsertAt(s, p, e)[k] = IF k < p THEN s[k] ELSE IF k = p THEN e ELSE s[k - 1]
    <3>1. s \in Seq(A \cup {e}) /\ e \in A \cup {e}
      BY <1>1
    <3> QED BY <2>1, <3>1, InsertedAt
  <2> QED BY <2>2 DEF t, n
<1>7. \A k \in 1..n : k >= p => key[e] < key[s[k]]
  BY <1>2, <1>3 DEF Keyed
<1>8. \A j, k \in 1..n : j < k => \/ key[s[j]] < key[s[k]]
                                  \/ key[s[j]] = key[s[k]] /\ s[j] > s[k]
  BY DEF Ascending, n
<1>9. ASSUME NEW k \in 1..n, k < p PROVE key[s[k]] <= key[e]
  <2>1. p - 1 \in 1..n /\ p > 1 /\ k <= p - 1
    BY <1>1, <1>5, <1>9
  <2>2. ~(key[e] < key[s[p - 1]])
    BY <1>2, <1>3, <2>1 DEF Keyed
  <2>3. key[s[p - 1]] <= key[e]
    BY <1>3, <1>4, <2>1, <2>2
  <2>4. CASE k = p - 1
    BY <2>3, <2>4
  <2>5. CASE k # p - 1
    <3>1. k < p - 1
      BY <1>5, <2>1, <2>5
    <3>2. key[s[k]] <= key[s[p - 1]]
      BY <1>3, <1>8, <2>1, <3>1
    <3>3. key[s[k]] \in Int /\ key[s[p - 1]] \in Int
      BY <1>3, <2>1
    <3> QED BY <1>4, <2>3, <3>2, <3>3
  <2> QED BY <2>4, <2>5
<1>10. ASSUME NEW j \in 1..(n + 1), NEW k \in 1..(n + 1), j < k
       PROVE  \/ key[t[j]] < key[t[k]]
              \/ key[t[j]] = key[t[k]] /\ t[j] > t[k]
  <2>0. j \in Nat /\ k \in Nat /\ 1 <= j /\ k <= n + 1
    BY <1>1
  <2>1. CASE j < p /\ k < p
    <3>1. j \in 1..n /\ k \in 1..n /\ t[j] = s[j] /\ t[k] = s[k]
      BY <1>1, <1>5, <1>6, <2>0, <2>1
    <3> QED BY <1>8, <1>10, <3>1
  <2>2. CASE j < p /\ k = p
    <3>1. j \in 1..n /\ t[j] = s[j] /\ t[k] = e
      BY <1>1, <1>5, <1>6, <2>0, <2>2
    <3>2. key[s[j]] <= key[e] /\ s[j] > e /\ key[s[j]] \in Int
      BY <1>3, <1>9, <2>2, <3>1
    <3> QED BY <1>4, <3>1, <3>2
  <2>3. CASE j < p /\ k > p
    <3>1. j \in 1..n /\ k - 1 \in 1..n /\ j < k - 1
      BY <1>1, <1>5, <2>0, <2>3
    <3>2. t[j] = s[j] /\ t[k] = s[k - 1]
      BY <1>5, <1>6, <2>0, <2>3
    <3> QED BY <1>8, <3>1, <3>2
  <2>4. CASE j = p
    <3>1. k - 1 \in 1..n /\ k - 1 >= p /\ ~(k < p) /\ k # p
      BY <1>1, <1>5, <1>10, <2>0, <2>4
    <3>2. t[j] = e /\ t[k] = s[k - 1]
      BY <1>5, <1>6, <2>4, <3>1
    <3> QED BY <1>7, <3>1, <3>2
  <2>5. CASE j > p
    <3>1. /\ k - 1 \in 1..n /\ j - 1 \in 1..n /\ j - 1 < k - 1
          /\ ~(j < p) /\ j # p /\ ~(k < p) /\ k # p
      BY <1>1, <1>5, <1>10, <2>0, <2>5
    <3>2. t[j] = s[j - 1] /\ t[k] = s[k - 1]
      BY <1>6, <3>1
    <3> QED BY <1>8, <3>1, <3>2
  <2> QED BY <1>5, <1>10, <2>0, <2>1, <2>2, <2>3, <2>4, <2>5
<1> QED BY <1>6, <1>10 DEF Ascending, t, p

\* The sort keeps the rows; and of rows given newest first it makes an
\* ascending list.
LEMMA SortLists ==
    ASSUME NEW field, NEW S \in SUBSET Nat, NEW seq, Listing(seq, S)
    PROVE  /\ Listing(SortBy(field, seq), S) /\ Len(SortBy(field, seq)) = Len(seq)
           /\ \A key : Keyed(field, key, S) /\ Descending(seq) =>
                          Ascending(key, SortBy(field, seq))
<1> DEFINE First(n) == {seq[m] : m \in 1..n}
<1>1. seq \in Seq(S) /\ Len(seq) \in Nat /\ \A k \in 1..Len(seq) : seq[k] \in S /\ seq[k] \in Nat
  <2>1. seq \in Seq(S)
    BY DEF Listing
  <2>2. \A k \in 1..Len(seq) : seq[k] \in S
    BY <2>1
  <2>3. Len(seq) \in Nat
    BY <2>1
  <2>4. \A i \in S : i \in Nat
    OBVIOUS
  <2> QED BY <2>1, <2>2, <2>3, <2>4
<1>2. PICK sorted : Inserted(field, seq, sorted) /\ SortBy(field, seq) = sorted[Len(seq)]
  BY <1>1, SortIs
<1>3. sorted[0] = <<>>
  BY <1>1, <1>2 DEF Inserted
<1>4. \A n \in 1..Len(seq) :
         sorted[n] = InsertAt(sorted[n - 1], Place(field, sorted[n - 1], seq[n]), seq[n])
  BY <1>1, <1>2 DEF Inserted
<1> DEFINE Good(n) == /\ Listing(sorted[n], First(n)) /\ Len(sorted[n]) = n
                      /\ \A key : Keyed(field, key, S) /\ Descending(seq) =>
                                     Ascending(key, sorted[n])
           P == {n \in Nat : n <= Len(seq) => Good(n)}
<1>5. 0 \in P
  <2>1. First(0) = {}
    OBVIOUS
  <2> HIDE DEF First
  <2>2. Listing(<<>>, {}) /\ Len(<<>>) = 0
    BY DEF Listing
  <2>3. \A key : Ascending(key, <<>>)
    BY DEF Ascending
  <2> QED BY <1>3, <2>1, <2>2, <2>3
<1>6. ASSUME NEW n \in Nat, n \in P PROVE n + 1 \in P
  <2> SUFFICES ASSUME n + 1 <= Len(seq) PROVE Good(n + 1)
    OBVIOUS
  <2>1. n <= Len(seq) /\ n + 1 \in 1..Len(seq) /\ (n + 1) - 1 = n /\ n \in 0..Len(seq)
    BY <1>1
  <2>2. Good(n)
    BY <1>6, <2>1
  <2> DEFINE s == sorted[n]
             e == seq[n + 1]
             p == Place(field, s, e)
  <2>3. sorted[n + 1] = InsertAt(s, p, e)
    BY <1>4, <2>1
  <2>4. First(n + 1) = First(n) \cup {e}
    <3>1. \A m \in 1..(n + 1) : m \in 1..n \/ m = n + 1
      OBVIOUS
    <3>2. \A m \in 1..n : m \in 1..(n + 1)
      OBVIOUS
    <3> QED BY <3>1, <3>2
  <2>5. e \notin First(n)
    <3>1. \A m \in 1..n : m \in 1..Len(seq) /\ m # n + 1
      BY <1>1, <2>1
    <3>2. \A m \in 1..n : seq[m] # e
      BY <2>1, <3>1 DEF Listing
    <3> QED BY <3>2
  <2>6. First(n) \subseteq S /\ e \in S /\ e \in Nat
    BY <1>1, <2>1
  <2>7. Listing(s, First(n)) /\ Len(s) = n /\ s \in Seq(First(n))
    BY <2>2 DEF Listing
  <2>8. p \in 1..(Len(s) + 1)
    BY <2>7, PlaceIn
  <2>9. ASSUME NEW key, Keyed(field, key, S), Descending(seq)
        PROVE  Ascending(key, sorted[n + 1])
    <3>1. \A m \in 1..n : seq[m] > e
      BY <1>1, <2>1, <2>9 DEF Descending
    <3>2. \A i \in First(n) : i > e
      BY <3>1
    <3>3. First(n) \in SUBSET Nat
      BY <2>6
    <3> HIDE DEF First, e, s, p
    <3>4. Keyed(field, key, First(n) \cup {e})
      BY <2>6, <2>9 DEF Keyed
    <3>5. Ascending(key, s)
      BY <2>2, <2>9 DEF s
    <3>6. Ascending(key, InsertAt(s, Place(field, s, e), e))
      BY <2>6, <2>7, <3>2, <3>3, <3>4, <3>5, InsertSorts
    <3> QED BY <2>3, <3>6 DEF p
  <2> HIDE DEF First, e, s, p
  <2>10. Listing(sorted[n + 1], First(n + 1)) /\ Len(sorted[n + 1]) = n + 1
    <3>1. Listing(InsertAt(s, p, e), First(n) \cup {e}) /\ Len(InsertAt(s, p, e)) = Len(s) + 1
      BY <2>5, <2>7, <2>8, InsertLists
    <3> QED BY <2>3, <2>4, <2>7, <3>1
  <2> QED BY <2>9, <2>10
<1>7. Good(Len(seq))
  <2> HIDE DEF P, Good
  <2>1. Len(seq) \in P
    BY <1>1, <1>5, <1>6, NatInd
  <2> QED BY <1>1, <2>1 DEF P
<1>8. First(Len(seq)) = S
  <2>1. \A i \in S : \E k \in 1..Len(seq) : seq[k] = i
    BY DEF Listing
  <2> QED BY <1>1, <2>1
<1> QED BY <1>2, <1>7, <1>8

-----------------------------------------------------------------------------
(* Lists *)

\* The rank of a record without a number is less than every number.
LEMMA NegInfinityIsLess ==
    NegInfinity \in Int /\ \A a \in Amounts : NegInfinity < a
<1> DEFINE A == Amounts \cup {0}
<1>1. A \in SUBSET Int /\ IsFiniteSet(A) /\ A # {}
  BY QueriesAssumption, FS_AddElement
<1>2. NegInfinity = Min(A) - 1 /\ Amounts \subseteq A
  BY DEF NegInfinity
<1> HIDE DEF A
<1>3. Min(A) \in A /\ \A x \in A : Min(A) <= x
  BY <1>1, LeastOf
<1>4. Min(A) \in Int /\ \A x \in A : x \in Int
  BY <1>1, <1>3
<1> QED BY <1>2, <1>3, <1>4

\* What the rows are sorted by
Key(field) == [i \in DOMAIN rows |-> IF field = "amount" THEN Rank(i) ELSE i]

Earlier(field, i, j) ==
    \/ Key(field)[i] < Key(field)[j]
    \/ (Key(field)[i] = Key(field)[j] /\ i > j)

\* Row i comes before row j in a list.
Before(filter, i, j) ==
    IF filter.sort = None THEN i > j
    ELSE IF filter.desc THEN Earlier(filter.sort, j, i)
    ELSE Earlier(filter.sort, i, j)

\* What is found, in no order
Kepts(actor, filter) == Kept(Candidates(filter.archived), actor, filter)

\* Ranks and places are numbers.
LEMMA KeysAreNumbers ==
    ASSUME rows \in Seq(Record), NEW field
    PROVE  \A i \in DOMAIN rows : i \in Nat /\ Key(field)[i] \in Int
<1> TAKE i \in DOMAIN rows
<1>1. i \in Nat
  OBVIOUS
<1>2. Rank(i) \in Int
  BY NegInfinityIsLess, QueriesAssumption DEF Rank
<1> QED BY <1>1, <1>2 DEF Key

\* Where no number is null, the order of a list is that of the keys.
LEMMA KeysOrder ==
    ASSUME rows \in Seq(Record), NEW filter, NEW S \in SUBSET (DOMAIN rows),
           Sortable(filter, S), filter.sort \in {"amount", "created_at"}
    PROVE  Keyed(filter.sort, Key(filter.sort), S)
<1>1. \A i \in S : i \in DOMAIN rows /\ i \in Nat /\ Key(filter.sort)[i] \in Int
  BY KeysAreNumbers
<1>2. CASE filter.sort = "created_at"
  <2>1. \A i \in S : Key(filter.sort)[i] = i
    BY <1>1, <1>2 DEF Key
  <2>2. \A i, j \in S : Less(filter.sort, i, j) <=> i < j
    BY <1>2 DEF Less
  <2> QED BY <1>1, <2>1, <2>2 DEF Keyed
<1>3. CASE filter.sort = "amount"
  <2>1. ASSUME NEW i \in S, NEW j \in S
        PROVE  Less(filter.sort, i, j) <=> Key(filter.sort)[i] < Key(filter.sort)[j]
    <3> DEFINE a == rows[i].amount
               b == rows[j].amount
    <3>1. rows[i] \in Record /\ rows[j] \in Record
      BY <1>1
    <3>2. a \in Amounts \cup {Absent} /\ b \in Amounts \cup {Absent}
      BY <1>3, <3>1 DEF Record, Sortable
    <3>3. Less(filter.sort, i, j) <=> \/ a \in Amounts /\ b \in Amounts /\ a < b
                                      \/ a = Absent /\ b # Absent
      BY <1>3 DEF Less
    <3>4. /\ Key(filter.sort)[i] = IF a \in Amounts THEN a ELSE NegInfinity
          /\ Key(filter.sort)[j] = IF b \in Amounts THEN b ELSE NegInfinity
      BY <1>1, <1>3 DEF Key, Rank
    <3>5. Absent \notin Amounts /\ Amounts \subseteq Int
      BY QueriesAssumption
    <3> HIDE DEF a, b
    <3>6. CASE a \in Amounts /\ b \in Amounts
      BY <3>3, <3>4, <3>5, <3>6
    <3>7. CASE a \in Amounts /\ b = Absent
      <4>1. ~(a < NegInfinity)
        BY <3>5, <3>7, NegInfinityIsLess
      <4> QED BY <3>3, <3>4, <3>5, <3>7, <4>1
    <3>8. CASE a = Absent /\ b \in Amounts
      BY <3>3, <3>4, <3>5, <3>8, NegInfinityIsLess
    <3>9. CASE a = Absent /\ b = Absent
      <4>1. ~(NegInfinity < NegInfinity)
        BY NegInfinityIsLess
      <4> QED BY <3>3, <3>4, <3>5, <3>9, <4>1
    <3> QED BY <3>2, <3>6, <3>7, <3>8, <3>9
  <2> QED BY <1>1, <2>1 DEF Keyed
<1> QED BY <1>2, <1>3

\* Sets of places in a sequence are finite sets of numbers.
LEMMA PlacesAreFinite ==
    ASSUME NEW T, NEW s \in Seq(T), NEW S \in SUBSET (DOMAIN s)
    PROVE  S \in SUBSET Nat /\ IsFiniteSet(S) /\ Cardinality(S) \in Nat
<1>1. Len(s) \in Nat /\ DOMAIN s = 1..Len(s)
  OBVIOUS
<1>2. IsFiniteSet(1..Len(s))
  BY <1>1, FS_Interval
<1> QED BY <1>1, <1>2, FS_Subset, FS_CardinalityType

\* A list is what is found, each row once, and in the order asked for.
LEMMA FoundLists ==
    ASSUME rows \in Seq(Record), NEW actor, NEW filter,
           filter.sort \in Orders, filter.desc \in BOOLEAN
    PROVE  /\ Listing(Found(actor, filter), Kepts(actor, filter))
           /\ Len(Found(actor, filter)) = Cardinality(Kepts(actor, filter))
           /\ Sortable(filter, Kepts(actor, filter)) =>
                 \A j, k \in 1..Len(Found(actor, filter)) : j < k =>
                    Before(filter, Found(actor, filter)[j], Found(actor, filter)[k])
<1> DEFINE S == Kepts(actor, filter)
           newest == NewestFirst(S)
           sorted == SortBy(filter.sort, newest)
           found == Found(actor, filter)
           n == Cardinality(S)
<1>1. S \subseteq DOMAIN rows
  BY DEF Kepts, Kept, Candidates, OfType
<1>2. S \in SUBSET Nat /\ IsFiniteSet(S) /\ n \in Nat
  BY <1>1, PlacesAreFinite
<1> HIDE DEF S
<1>3. Listing(newest, S) /\ Descending(newest) /\ Len(newest) = n
  BY <1>2, NewestFirstLists
<1>4. found = IF filter.sort = None THEN newest
              ELSE IF filter.desc THEN Reverse(sorted) ELSE sorted
  BY DEF Found, Ordered, S, Kepts
<1> HIDE DEF newest
<1>5. /\ Listing(sorted, S) /\ Len(sorted) = Len(newest)
      /\ \A key : Keyed(filter.sort, key, S) /\ Descending(newest) => Ascending(key, sorted)
  BY <1>2, <1>3, SortLists
<1> HIDE DEF sorted, n, found
<1>6. ASSUME Sortable(filter, S), filter.sort # None, NEW j \in 1..n, NEW k \in 1..n, j < k
      PROVE  Earlier(filter.sort, sorted[j], sorted[k])
  <2>1. filter.sort \in {"amount", "created_at"} /\ S \in SUBSET (DOMAIN rows)
    BY <1>1, <1>6 DEF Orders
  <2>2. Keyed(filter.sort, Key(filter.sort), S)
    BY <1>6, <2>1, KeysOrder
  <2>3. Ascending(Key(filter.sort), sorted)
    BY <1>3, <1>5, <2>2
  <2> QED BY <1>3, <1>5, <1>6, <2>3 DEF Ascending, Earlier
<1>7. CASE filter.sort = None
  BY <1>3, <1>4, <1>7 DEF Descending, Before, S, n, found
<1>8. CASE filter.sort # None /\ ~filter.desc
  <2>1. found = sorted /\ Len(found) = n
    BY <1>3, <1>4, <1>5, <1>8
  <2>2. ASSUME Sortable(filter, S), NEW j \in 1..Len(found), NEW k \in 1..Len(found), j < k
        PROVE  Before(filter, found[j], found[k])
    BY <1>6, <1>8, <2>1, <2>2 DEF Before
  <2> QED BY <1>5, <2>1, <2>2 DEF S, n, found
<1>9. CASE filter.sort # None /\ filter.desc
  <2>1. found = Reverse(sorted) /\ Len(sorted) = n
    BY <1>3, <1>4, <1>5, <1>9
  <2>2. /\ Listing(found, S) /\ Len(found) = n
        /\ \A k \in 1..n : found[k] = sorted[n - k + 1]
    BY <1>5, <2>1, ReverseLists
  <2>3. ASSUME Sortable(filter, S), NEW j \in 1..n, NEW k \in 1..n, j < k
        PROVE  Before(filter, found[j], found[k])
    <3>1. n - k + 1 \in 1..n /\ n - j + 1 \in 1..n /\ n - k + 1 < n - j + 1
      BY <1>2, <2>3 DEF n
    <3>2. Earlier(filter.sort, sorted[n - k + 1], sorted[n - j + 1])
      BY <1>6, <1>9, <2>3, <3>1
    <3>3. found[k] = sorted[n - k + 1] /\ found[j] = sorted[n - j + 1]
      BY <2>2
    <3>4. Earlier(filter.sort, found[k], found[j])
      BY <3>2, <3>3
    <3> QED BY <1>9, <3>4 DEF Before
  <2> QED BY <2>2, <2>3 DEF S, n, found
<1> QED BY <1>7, <1>8, <1>9

\* A list of records that can all be compared can be sorted.
LEMMA AllSortable ==
    ASSUME NEW actor, NEW filter, Comparable(filter)
    PROVE  Sortable(filter, Kepts(actor, filter))
<1>1. Kepts(actor, filter) \subseteq DOMAIN rows
  BY DEF Kepts, Kept, Candidates, OfType
<1> QED BY <1>1 DEF Comparable, Sortable

\* Lists of records show what is found, and have the order asked for.
LEMMA ListsOrdered ==
    ASSUME rows \in Seq(Record)
    PROVE  ListsAreOrdered
<1> SUFFICES ASSUME NEW actor \in Actors, NEW filter \in Filters
             PROVE  LET kept  == Kepts(actor, filter)
                        found == Found(actor, filter) IN
                    /\ Len(found) = Cardinality(kept) /\ ToSet(found) = kept
                    /\ Sortable(filter, kept) => \A j, k \in DOMAIN found : j < k =>
                       LET first  == IF filter.desc THEN found[k] ELSE found[j]
                           second == IF filter.desc THEN found[j] ELSE found[k] IN
                       CASE filter.sort = "amount" ->
                                  \/ Rank(first) < Rank(second)
                                  \/ Rank(first) = Rank(second) /\ first > second
                         [] filter.sort = "created_at" -> first < second
                         [] OTHER -> found[j] > found[k]
  BY DEF ListsAreOrdered, Kepts
<1> DEFINE found == Found(actor, filter)
           kept  == Kepts(actor, filter)
<1>1. filter.sort \in Orders /\ filter.desc \in BOOLEAN
  BY QueriesAssumption
<1>2. /\ Listing(found, kept) /\ Len(found) = Cardinality(kept)
      /\ Sortable(filter, kept) =>
            \A j, k \in 1..Len(found) : j < k => Before(filter, found[j], found[k])
  BY <1>1, FoundLists
<1>3. kept \subseteq DOMAIN rows
  BY DEF Kepts, Kept, Candidates, OfType
<1> HIDE DEF found, kept
<1>4. DOMAIN found = 1..Len(found) /\ \A k \in DOMAIN found : found[k] \in DOMAIN rows
  BY <1>2, <1>3 DEF Listing
<1>5. ToSet(found) = kept
  BY <1>2 DEF Listing, ToSet
<1> SUFFICES ASSUME Sortable(filter, kept),
                    NEW j \in DOMAIN found, NEW k \in DOMAIN found, j < k
             PROVE  LET first  == IF filter.desc THEN found[k] ELSE found[j]
                        second == IF filter.desc THEN found[j] ELSE found[k] IN
                    CASE filter.sort = "amount" ->
                               \/ Rank(first) < Rank(second)
                               \/ Rank(first) = Rank(second) /\ first > second
                      [] filter.sort = "created_at" -> first < second
                      [] OTHER -> found[j] > found[k]
  BY <1>2, <1>5 DEF found, kept
<1> DEFINE first  == IF filter.desc THEN found[k] ELSE found[j]
           second == IF filter.desc THEN found[j] ELSE found[k]
<1>6. Before(filter, found[j], found[k]) /\ first \in DOMAIN rows /\ second \in DOMAIN rows
  BY <1>2, <1>4
<1>7. CASE filter.sort = None
  <2>1. filter.sort # "amount" /\ filter.sort # "created_at"
    BY <1>7, QueriesAssumption
  <2> QED BY <1>6, <1>7, <2>1 DEF Before
<1>8. filter.sort # None => Earlier(filter.sort, first, second)
  BY <1>1, <1>6 DEF Before
<1>9. CASE filter.sort = "amount"
  <2>1. filter.sort # None
    BY <1>9, QueriesAssumption
  <2>2. /\ Key(filter.sort)[first] = Rank(first)
        /\ Key(filter.sort)[second] = Rank(second)
    BY <1>6, <1>9 DEF Key
  <2>3. Rank(first) < Rank(second) \/ (Rank(first) = Rank(second) /\ first > second)
    BY <1>8, <2>1, <2>2 DEF Earlier
  <2> HIDE DEF first, second
  <2> QED BY <1>9, <2>3 DEF first, second
<1>10. CASE filter.sort = "created_at"
  <2>1. filter.sort # None /\ filter.sort # "amount"
    BY <1>10, QueriesAssumption
  <2>2. Key(filter.sort)[first] = first /\ Key(filter.sort)[second] = second
    BY <1>6, <1>10 DEF Key
  <2>3. first \in Nat /\ second \in Nat
    BY <1>6, KeysAreNumbers
  <2> HIDE DEF first, second
  <2>4. first < second
    BY <1>8, <2>1, <2>2, <2>3 DEF Earlier
  <2> QED BY <1>10, <2>1, <2>4 DEF first, second
<1> QED BY <1>1, <1>7, <1>9, <1>10 DEF Orders

-----------------------------------------------------------------------------
(* Places in a list *)

\* What a list of all records shows
Full(actor, filter) == Kept(OfType(filter.archived), actor, filter)

\* What comes before row i in it
Ahead(actor, filter, i) == {j \in Full(actor, filter) : Before(filter, j, i)}

\* Where no candidate is cut off, all that the filter keeps is found.
LEMMA ScansAll ==
    ASSUME rows \in Seq(Record), NEW actor, NEW filter, AllScanned(filter)
    PROVE  Kepts(actor, filter) = Full(actor, filter)
<1> DEFINE T == OfType(filter.archived)
<1>1. T \subseteq DOMAIN rows
  BY DEF OfType
<1> HIDE DEF T
<1>2. T \in SUBSET Nat /\ IsFiniteSet(T) /\ Cardinality(T) \in Nat
  BY <1>1, PlacesAreFinite
<1>3. Cardinality(T) <= MAX_SCAN /\ MAX_SCAN \in Nat
  BY QueriesAssumption DEF AllScanned, T
<1>4. \A i \in T : Newer(T, i) < MAX_SCAN
  <2> TAKE i \in T
  <2>1. Newer(T, i) \in 0..(Cardinality(T) - 1)
    BY <1>2, NewerCounts
  <2> QED BY <1>2, <1>3, <2>1
<1>5. Candidates(filter.archived) = T
  BY <1>4 DEF Candidates, Newer, T
<1> QED BY <1>5 DEF Kepts, Full, T

\* No two rows come each before the other.
LEMMA BeforeOneWay ==
    ASSUME rows \in Seq(Record), NEW filter, NEW i \in DOMAIN rows, NEW j \in DOMAIN rows,
           Before(filter, i, j)
    PROVE  ~Before(filter, j, i) /\ i # j
<1>1. /\ i \in Nat /\ Key(filter.sort)[i] \in Int
      /\ j \in Nat /\ Key(filter.sort)[j] \in Int
  BY KeysAreNumbers
<1> QED BY <1>1 DEF Before, Earlier

\* The place of a row in a list of all records is one more than what comes
\* before it.
LEMMA PlaceInList ==
    ASSUME rows \in Seq(Record), NEW actor, NEW filter,
           filter.sort \in Orders, filter.desc \in BOOLEAN,
           Comparable(filter), AllScanned(filter),
           NEW k \in 1..Len(Found(actor, filter))
    PROVE  /\ Found(actor, filter)[k] \in Full(actor, filter)
           /\ Cardinality(Ahead(actor, filter, Found(actor, filter)[k])) = k - 1
<1> DEFINE found == Found(actor, filter)
           full == Full(actor, filter)
           ahead == Ahead(actor, filter, found[k])
<1>1. /\ Listing(found, full)
      /\ \A j, l \in 1..Len(found) : j < l => Before(filter, found[j], found[l])
  BY FoundLists, AllSortable, ScansAll
<1>2. full \subseteq DOMAIN rows
  BY DEF Full, Kept, OfType
<1>3. ahead = {i \in full : Before(filter, i, found[k])}
  BY DEF Ahead
<1> HIDE DEF found, full, ahead
<1>4. /\ Len(found) \in Nat /\ k \in 1..Len(found)
      /\ \A j \in 1..Len(found) : found[j] \in full /\ found[j] \in DOMAIN rows
  <2>1. k \in 1..Len(found)
    BY DEF found
  <2>2. found \in Seq(full)
    BY <1>1 DEF Listing
  <2>3. \A j \in 1..Len(found) : found[j] \in full
    BY <2>2
  <2> QED BY <1>2, <2>1, <2>2, <2>3
<1> DEFINE f == [j \in 1..(k - 1) |-> found[j]]
<1>5. \A j \in 1..(k - 1) : j \in 1..Len(found) /\ j < k
  BY <1>4
<1>6. \A j \in 1..(k - 1) : f[j] \in ahead
  BY <1>1, <1>3, <1>4, <1>5
<1>7. \A i, j \in 1..(k - 1) : f[i] = f[j] => i = j
  BY <1>1, <1>5 DEF Listing
<1>8. \A i \in ahead : \E j \in 1..(k - 1) : f[j] = i
  <2> TAKE i \in ahead
  <2>1. i \in full /\ Before(filter, i, found[k])
    BY <1>3
  <2>2. PICK j \in 1..Len(found) : found[j] = i
    BY <1>1, <2>1 DEF Listing
  <2>3. ~Before(filter, found[k], i) /\ i # found[k]
    BY <1>2, <1>4, <2>1, BeforeOneWay
  <2>4. ~(k < j) /\ j # k
    BY <1>1, <1>4, <2>2, <2>3
  <2>5. j \in 1..(k - 1)
    BY <1>4, <2>4
  <2> QED BY <2>2, <2>5
<1>9. f \in Bijection(1..(k - 1), ahead)
  BY <1>6, <1>7, <1>8 DEF Bijection, Injection, Surjection, IsInjective
<1>10. IsFiniteSet(1..(k - 1)) /\ Cardinality(1..(k - 1)) = k - 1
  <2>1. 1 \in Int /\ k - 1 \in Int /\ (IF 1 > k - 1 THEN 0 ELSE (k - 1) - 1 + 1) = k - 1
    BY <1>4
  <2> QED BY <2>1, FS_Interval
<1>11. Cardinality(ahead) = k - 1
  <2> HIDE DEF f
  <2>1. ExistsBijection(1..(k - 1), ahead)
    BY <1>9 DEF ExistsBijection
  <2> QED BY <1>10, <2>1, FS_Bijection
<1> QED BY <1>4, <1>11 DEF found, full, ahead

-----------------------------------------------------------------------------
(* Pages *)

\* The lesser of two numbers
LEMMA LesserOf ==
    ASSUME NEW a \in Int, NEW b \in Int
    PROVE  Min({a, b}) = IF a <= b THEN a ELSE b
<1>1. IsFiniteSet({a, b})
  <2>1. IsFiniteSet({a}) /\ {a, b} = {a} \cup {b}
    BY FS_Singleton
  <2> QED BY <2>1, FS_AddElement
<1>2. Min({a, b}) \in {a, b} /\ \A x \in {a, b} : Min({a, b}) <= x
  BY <1>1, LeastOf
<1> DEFINE m == Min({a, b})
<1>3. (m = a \/ m = b) /\ m <= a /\ m <= b
  BY <1>2
<1> HIDE DEF m
<1>4. m = IF a <= b THEN a ELSE b
  BY <1>3
<1> QED BY <1>4 DEF m

\* What a page is of, and which places it shows
LEMMA OnPage ==
    ASSUME NEW S, NEW found \in Seq(S), NEW limit \in Nat, NEW offset \in Nat
    PROVE  /\ ToSet(Page(found, limit, offset)) \subseteq S
           /\ \A k \in 1..Len(found) : offset < k /\ k <= offset + limit =>
                 found[k] \in ToSet(Page(found, limit, offset))
<1> DEFINE total == Len(found)
           from == Min({offset, total}) + 1
           to == Min({offset + limit, total})
           page == SubSeq(found, from, to)
<1>1. total \in Nat /\ \A k \in 1..total : found[k] \in S
  OBVIOUS
<1>2. from = (IF offset <= total THEN offset ELSE total) + 1
  BY <1>1, LesserOf
<1>3. to = IF offset + limit <= total THEN offset + limit ELSE total
  <2>1. offset + limit \in Int
    OBVIOUS
  <2> HIDE DEF total
  <2> QED BY <1>1, <2>1, LesserOf
<1>4. Page(found, limit, offset) = page
  BY DEF Page
<1> HIDE DEF from, to, total
<1>5. from \in Nat /\ to \in Nat /\ 1 <= from /\ to <= total
  BY <1>1, <1>2, <1>3
<1>6. /\ page \in Seq(S)
      /\ \A m \in 1..(to - from + 1) : m \in DOMAIN page /\ page[m] = found[from + m - 1]
  BY <1>1, <1>5 DEF total
<1> HIDE DEF page
<1>7. ToSet(page) \subseteq S
  BY <1>6 DEF ToSet
<1>8. ASSUME NEW k \in 1..total, offset < k, k <= offset + limit
      PROVE  found[k] \in ToSet(page)
  <2>1. from = offset + 1 /\ k <= to
    BY <1>1, <1>2, <1>3, <1>8
  <2>2. k - offset \in 1..(to - from + 1) /\ from + (k - offset) - 1 = k
    BY <1>1, <1>5, <1>8, <2>1
  <2>3. k - offset \in DOMAIN page /\ page[k - offset] = found[k]
    BY <1>6, <2>2
  <2> QED BY <2>3 DEF ToSet
<1> QED BY <1>4, <1>7, <1>8 DEF total

\* A page has a limit.
LEMMA PageHasLimit ==
    ASSUME NEW limit \in Limits
    PROVE  Clamped(limit) \in Nat \ {0}
BY QueriesAssumption DEF Clamped

-----------------------------------------------------------------------------
(* Walks through the pages of a list *)

Walking == [step: {"walking"}, actor: Actors, filter: Filters, limit: Limits, offset: Nat,
            seen: SUBSET Nat, due: SUBSET Nat, sure: BOOLEAN]
Walked  == [step: {"done"}, seen: SUBSET Nat, due: SUBSET Nat, sure: BOOLEAN]

(***************************************************************************)
(* What is due and not seen has at least as many rows ahead of it as the   *)
(* walk has passed.  This is said of an ordered list of all records: if it *)
(* is none any more, the next page takes back that the walk is sure.       *)
(***************************************************************************)
NotPassed(w) ==
    w.step = "walking" /\ w.sure /\ Comparable(w.filter) /\ AllScanned(w.filter) =>
       \A i \in w.due : /\ i \in Full(w.actor, w.filter)
                        /\ i \in w.seen \/ Cardinality(Ahead(w.actor, w.filter, i)) >= w.offset

AllSeen(w) == w.step = "done" /\ w.sure => w.due \subseteq w.seen

WalksSound ==
    /\ rows \in Seq(Record)
    /\ walk \in [Clients -> Walking \cup Walked \cup {NoWalk}]
    /\ \A c \in Clients : NotPassed(walk[c]) /\ AllSeen(walk[c])

\* What the filter keeps is rows.
LEMMA FullOfRows ==
    ASSUME NEW actor, NEW filter
    PROVE  /\ Full(actor, filter) \subseteq DOMAIN rows
           /\ \A i : Ahead(actor, filter, i) \subseteq DOMAIN rows
BY DEF Full, Kept, OfType, Ahead

\* A walk that is not one under way has passed nothing.
LEMMA NotWalking ==
    ASSUME NEW w, w.step # "walking"
    PROVE  NotPassed(w)
BY DEF NotPassed

LEMMA Steps ==
    /\ \A w \in Walking : w.step = "walking"
    /\ \A w \in Walked : w.step = "done"
    /\ NoWalk.step = "none"
BY DEF Walking, Walked, NoWalk

\* What a walk has passed depends on the rows only.
LEMMA SameRowsSameWalk ==
    ASSUME rows' = rows, NEW w
    PROVE  NotPassed(w)' <=> NotPassed(w)
BY DEF NotPassed, Comparable, Sortable, AllScanned, OfType, Full, Kept, MayRead, record_matches_search,
       Matches, Ahead, Before, Earlier, Key, Rank

\* One walk changes and the rows do not.
LEMMA WalkSet ==
    ASSUME WalksSound, NEW d \in Clients, NEW v \in Walking \cup Walked,
           rows' = rows, walk' = [walk EXCEPT ![d] = v], NotPassed(v), AllSeen(v)
    PROVE  WalksSound'
<1>1. walk' \in [Clients -> Walking \cup Walked \cup {NoWalk}]
  BY DEF WalksSound
<1>2. ASSUME NEW c \in Clients PROVE NotPassed(walk[c])' /\ AllSeen(walk[c])'
  <2>1. PICK w : w = walk'[c]
    OBVIOUS
  <2>2. NotPassed(w) /\ AllSeen(w)
    BY <2>1 DEF WalksSound
  <2>3. NotPassed(w)'
    BY <2>2, SameRowsSameWalk
  <2> QED BY <2>1, <2>2, <2>3 DEF NotPassed, AllSeen
<1> QED BY <1>1, <1>2 DEF WalksSound

\* The rows stay as they are, and there may be more.
Grown == /\ rows \in Seq(Record) /\ rows' \in Seq(Record)
         /\ \A i \in DOMAIN rows : i \in DOMAIN rows' /\ rows'[i] = rows[i]

\* A list then only gets longer, and nothing comes before what it came after.
LEMMA GrownLists ==
    ASSUME Grown, NEW actor, NEW filter
    PROVE  /\ Comparable(filter)' => Comparable(filter)
           /\ AllScanned(filter)' => AllScanned(filter)
           /\ \A i \in Full(actor, filter) :
                 /\ i \in Full(actor, filter)'
                 /\ Cardinality(Ahead(actor, filter, i)) \in Nat
                 /\ Cardinality(Ahead(actor, filter, i)') \in Nat
                 /\ Cardinality(Ahead(actor, filter, i))
                       <= Cardinality(Ahead(actor, filter, i)')
<1>1. Comparable(filter)' => Comparable(filter)
  BY DEF Comparable, Sortable, Grown
<1>2. AllScanned(filter)' => AllScanned(filter)
  <2> DEFINE T == OfType(filter.archived)
             U == OfType(filter.archived)'
  <2>1. T \subseteq U /\ T \subseteq DOMAIN rows /\ U \subseteq DOMAIN rows'
    BY DEF Grown, OfType
  <2> HIDE DEF T, U
  <2>2. /\ Cardinality(T) \in Nat /\ IsFiniteSet(U) /\ Cardinality(U) \in Nat
    BY <2>1, PlacesAreFinite DEF Grown
  <2>3. Cardinality(T) <= Cardinality(U)
    BY <2>1, <2>2, FS_Subset
  <2>4. Cardinality(U) <= MAX_SCAN => Cardinality(T) <= MAX_SCAN
    BY <2>2, <2>3, QueriesAssumption
  <2> QED BY <2>4 DEF AllScanned, T, U
<1>3. /\ Full(actor, filter) \subseteq Full(actor, filter)'
      /\ Full(actor, filter)' \subseteq DOMAIN rows'
      /\ Full(actor, filter) \subseteq DOMAIN rows
  BY DEF Grown, Full, Kept, OfType, MayRead, record_matches_search, Matches
<1>4. \A i \in DOMAIN rows : Key(filter.sort)'[i] = Key(filter.sort)[i]
  BY DEF Grown, Key, Rank
<1>5. \A i, j \in DOMAIN rows : Before(filter, i, j) => Before(filter, i, j)'
  BY <1>4 DEF Before, Earlier
<1>6. ASSUME NEW i \in Full(actor, filter)
      PROVE  /\ Cardinality(Ahead(actor, filter, i)) \in Nat
             /\ Cardinality(Ahead(actor, filter, i)') \in Nat
             /\ Cardinality(Ahead(actor, filter, i)) <= Cardinality(Ahead(actor, filter, i)')
  <2> DEFINE A == Ahead(actor, filter, i)
             B == Ahead(actor, filter, i)'
  <2>1. A \subseteq DOMAIN rows /\ B \subseteq DOMAIN rows' /\ A \subseteq B
    BY <1>3, <1>5 DEF Ahead
  <2> HIDE DEF A, B
  <2>2. /\ Cardinality(A) \in Nat /\ IsFiniteSet(B) /\ Cardinality(B) \in Nat
    BY <2>1, PlacesAreFinite DEF Grown
  <2>3. Cardinality(A) <= Cardinality(B)
    BY <2>1, <2>2, FS_Subset
  <2> QED BY <2>2, <2>3 DEF A, B
<1> QED BY <1>1, <1>2, <1>3, <1>6

\* A walk does not pass what is due while the list grows.
LEMMA GrownWalk ==
    ASSUME Grown, NEW w \in Walking, NotPassed(w)
    PROVE  NotPassed(w)'
<1> SUFFICES ASSUME w.sure, Comparable(w.filter)', AllScanned(w.filter)', NEW i \in w.due
             PROVE  /\ i \in Full(w.actor, w.filter)'
                    /\ \/ i \in w.seen
                       \/ Cardinality(Ahead(w.actor, w.filter, i)') >= w.offset
  BY DEF NotPassed
<1> DEFINE A == Ahead(w.actor, w.filter, i)
           B == Ahead(w.actor, w.filter, i)'
<1>1. Comparable(w.filter) /\ AllScanned(w.filter)
  BY GrownLists
<1>2. i \in Full(w.actor, w.filter) /\ (i \in w.seen \/ Cardinality(A) >= w.offset)
  BY <1>1 DEF NotPassed, Walking
<1>3. /\ i \in Full(w.actor, w.filter)'
      /\ Cardinality(A) \in Nat /\ Cardinality(B) \in Nat /\ Cardinality(A) <= Cardinality(B)
  BY <1>2, GrownLists
<1>4. w.offset \in Nat
  BY DEF Walking
<1> HIDE DEF A, B
<1>5. Cardinality(A) >= w.offset => Cardinality(B) >= w.offset
  BY <1>3, <1>4
<1> QED BY <1>2, <1>3, <1>5 DEF B

\* A walk starts with all that the list shows due.
LEMMA WalkStarts ==
    ASSUME WalksSound, NEW c \in Clients, NEW actor \in Actors, NEW filter \in Filters,
           NEW limit \in Limits, StartWalk(c, actor, filter, limit)
    PROVE  WalksSound'
<1> DEFINE found == Found(actor, filter)
<1>1. PICK due : due = ToSet(found)
  OBVIOUS
<1>2. PICK sure \in BOOLEAN : sure = (Comparable(filter) /\ AllScanned(filter))
  <2> DEFINE s == Comparable(filter) /\ AllScanned(filter)
  <2>1. s \in BOOLEAN
    BY DEF Comparable, Sortable, AllScanned
  <2> QED BY <2>1
<1> DEFINE v == [step |-> "walking", actor |-> actor, filter |-> filter, limit |-> limit,
                 offset |-> 0, seen |-> {}, due |-> due, sure |-> sure]
<1>3. walk' = [walk EXCEPT ![c] = v] /\ rows' = rows
  BY <1>1, <1>2 DEF StartWalk
<1>4. rows \in Seq(Record) /\ filter.sort \in Orders /\ filter.desc \in BOOLEAN
  BY QueriesAssumption DEF WalksSound
<1>5. due = Kepts(actor, filter)
  <2>1. Listing(found, Kepts(actor, filter))
    BY <1>4, FoundLists
  <2> HIDE DEF found
  <2> QED BY <1>1, <2>1 DEF Listing, ToSet
<1>6. due \subseteq Nat
  <2>1. Kepts(actor, filter) \subseteq DOMAIN rows
    BY DEF Kepts, Kept, Candidates, OfType
  <2> QED BY <1>4, <1>5, <2>1, PlacesAreFinite
<1>7. v \in Walking
  BY <1>6 DEF Walking
<1>8. NotPassed(v)
  <2>1. ASSUME AllScanned(filter), NEW i \in due
        PROVE  i \in Full(actor, filter) /\ Cardinality(Ahead(actor, filter, i)) >= 0
    <3>1. i \in Full(actor, filter)
      BY <1>4, <1>5, <2>1, ScansAll
    <3>2. Cardinality(Ahead(actor, filter, i)) \in Nat
      BY <1>4, FullOfRows, PlacesAreFinite
    <3> QED BY <3>1, <3>2
  <2> QED BY <2>1 DEF NotPassed
<1>9. AllSeen(v)
  BY DEF AllSeen
<1> HIDE DEF v
<1> QED BY <1>3, <1>7, <1>8, <1>9, WalkSet

\* What is due and in the list is on the page, or was on an earlier one, or
\* follows it.
LEMMA PageFollows ==
    ASSUME rows \in Seq(Record), NEW w \in Walking, w.sure, NotPassed(w),
           Comparable(w.filter), AllScanned(w.filter),
           NEW i \in w.due, i \in ToSet(Found(w.actor, w.filter))
    PROVE  /\ i \in Full(w.actor, w.filter)
           /\ \/ i \in w.seen
              \/ i \in ToSet(Page(Found(w.actor, w.filter), Clamped(w.limit), w.offset))
              \/ /\ Cardinality(Ahead(w.actor, w.filter, i)) >= w.offset + Clamped(w.limit)
                 /\ w.offset + Clamped(w.limit) < Len(Found(w.actor, w.filter))
<1> DEFINE found == Found(w.actor, w.filter)
           limit == Clamped(w.limit)
<1>1. w.filter.sort \in Orders /\ w.filter.desc \in BOOLEAN /\ w.offset \in Nat /\ limit \in Nat
  BY QueriesAssumption, PageHasLimit DEF Walking
<1>2. found \in Seq(Kepts(w.actor, w.filter))
  BY <1>1, FoundLists DEF Listing
<1>3. /\ i \in Full(w.actor, w.filter)
      /\ i \in w.seen \/ Cardinality(Ahead(w.actor, w.filter, i)) >= w.offset
  BY DEF NotPassed, Walking
<1>4. PICK k \in 1..Len(found) : found[k] = i
  <2>1. \E k \in DOMAIN found : found[k] = i
    BY DEF ToSet
  <2> HIDE DEF found
  <2> QED BY <1>2, <2>1
<1>5. Cardinality(Ahead(w.actor, w.filter, i)) = k - 1
  BY <1>1, <1>4, PlaceInList
<1> HIDE DEF found, limit
<1>6. k \in Nat /\ Len(found) \in Nat /\ k <= Len(found)
  BY <1>2
<1>7. CASE w.offset < k /\ k <= w.offset + limit
  <2>1. i \in ToSet(Page(found, limit, w.offset))
    BY <1>1, <1>2, <1>4, <1>7, OnPage
  <2> QED BY <1>3, <2>1 DEF found, limit
<1>8. CASE ~(w.offset < k)
  <2>1. ~(k - 1 >= w.offset)
    BY <1>1, <1>6, <1>8
  <2> QED BY <1>3, <1>5, <2>1
<1>9. CASE ~(k <= w.offset + limit)
  <2>1. k - 1 >= w.offset + limit /\ w.offset + limit < Len(found)
    BY <1>1, <1>6, <1>9
  <2> QED BY <1>3, <1>5, <2>1 DEF found, limit
<1> QED BY <1>7, <1>8, <1>9

\* The walk goes on to the next page.
LEMMA WalkGoesOn ==
    ASSUME WalksSound, NEW c \in Clients, NextPage(c)
    PROVE  WalksSound'
<1>1. PICK w : w = walk[c]
  OBVIOUS
<1>2. w \in Walking /\ NotPassed(w) /\ rows \in Seq(Record)
  BY <1>1, Steps DEF WalksSound, NextPage
<1>3. PICK found : found = Found(w.actor, w.filter)
  OBVIOUS
<1> DEFINE limit == Clamped(w.limit)
           next == w.offset + limit
<1>4. PICK seen : seen = w.seen \cup ToSet(Page(found, limit, w.offset))
  OBVIOUS
<1>5. PICK due : due = w.due \cap ToSet(found)
  OBVIOUS
<1>6. PICK sure : sure = (w.sure /\ Comparable(w.filter) /\ AllScanned(w.filter))
  OBVIOUS
<1> DEFINE on == [w EXCEPT !.offset = next, !.seen = seen, !.due = due, !.sure = sure]
           done == [step |-> "done", seen |-> seen, due |-> due, sure |-> sure]
<1>7. walk' = [walk EXCEPT ![c] = IF next < Len(found) THEN on ELSE done] /\ rows' = rows
  BY <1>1, <1>3, <1>4, <1>5, <1>6 DEF NextPage
<1>8. /\ w.filter \in Filters /\ w.filter.sort \in Orders /\ w.filter.desc \in BOOLEAN
      /\ w.offset \in Nat /\ limit \in Nat /\ w.limit \in Limits /\ w.actor \in Actors
      /\ w.seen \subseteq Nat /\ w.due \subseteq Nat /\ w.sure \in BOOLEAN /\ w.step = "walking"
  BY <1>2, QueriesAssumption, PageHasLimit DEF Walking
<1>9. found \in Seq(Kepts(w.actor, w.filter)) /\ Kepts(w.actor, w.filter) \subseteq Nat
  <2>1. Listing(found, Kepts(w.actor, w.filter))
    BY <1>2, <1>3, <1>8, FoundLists
  <2>2. Kepts(w.actor, w.filter) \subseteq DOMAIN rows
    BY DEF Kepts, Kept, Candidates, OfType
  <2>3. Kepts(w.actor, w.filter) \subseteq Nat
    BY <1>2, <2>2, PlacesAreFinite
  <2> QED BY <2>1, <2>3 DEF Listing
<1>10. next \in Nat /\ seen \subseteq Nat /\ due \subseteq Nat /\ sure \in BOOLEAN
  <2> HIDE DEF limit
  <2>1. ToSet(Page(found, limit, w.offset)) \subseteq Nat
    BY <1>8, <1>9, OnPage
  <2>2. sure \in BOOLEAN
    BY <1>6, <1>8 DEF Comparable, Sortable, AllScanned
  <2> QED BY <1>4, <1>5, <1>8, <2>1, <2>2
<1>11. ASSUME sure, NEW i \in due
       PROVE  /\ i \in Full(w.actor, w.filter)
              /\ \/ i \in seen
                 \/ /\ Cardinality(Ahead(w.actor, w.filter, i)) >= next
                    /\ next < Len(found)
  <2>1. w.sure /\ Comparable(w.filter) /\ AllScanned(w.filter)
    BY <1>6, <1>11
  <2>2. i \in w.due /\ i \in ToSet(Found(w.actor, w.filter))
    BY <1>3, <1>5
  <2> QED BY <1>2, <1>3, <1>4, <2>1, <2>2, PageFollows
<1> HIDE DEF limit, next
<1>12. CASE next < Len(found)
  <2>1. /\ on \in Walking
        /\ on.step = "walking" /\ on.actor = w.actor /\ on.filter = w.filter
        /\ on.offset = next /\ on.seen = seen /\ on.due = due /\ on.sure = sure
    BY <1>2, <1>10 DEF Walking
  <2> HIDE DEF on
  <2>2. NotPassed(on)
    BY <1>11, <2>1 DEF NotPassed
  <2>3. AllSeen(on)
    BY <2>1 DEF AllSeen
  <2>4. walk' = [walk EXCEPT ![c] = on]
    BY <1>7, <1>12
  <2> QED BY <1>7, <2>1, <2>2, <2>3, <2>4, WalkSet
<1>13. CASE ~(next < Len(found))
  <2>1. /\ done \in Walked
        /\ done.step = "done" /\ done.due = due /\ done.seen = seen /\ done.sure = sure
    BY <1>10 DEF Walked
  <2> HIDE DEF done
  <2>2. NotPassed(done)
    BY <2>1, NotWalking
  <2>3. AllSeen(done)
    BY <1>11, <1>13, <2>1 DEF AllSeen
  <2>4. walk' = [walk EXCEPT ![c] = done]
    BY <1>7, <1>13
  <2> QED BY <1>7, <2>1, <2>2, <2>3, <2>4, WalkSet
<1> QED BY <1>12, <1>13

\* Records are created: no walk passes what is due.
LEMMA RecordCreated ==
    ASSUME WalksSound, NEW record \in Given, CreateRecord(record)
    PROVE  WalksSound'
<1>1. Grown /\ walk' = walk
  <2>1. rows \in Seq(Record) /\ record \in Record /\ rows' = Append(rows, record)
    BY QueriesAssumption DEF WalksSound, CreateRecord
  <2>2. \A i \in DOMAIN rows : i \in DOMAIN rows' /\ rows'[i] = rows[i]
    BY <2>1
  <2> QED BY <2>1, <2>2 DEF Grown, CreateRecord
<1>2. ASSUME NEW c \in Clients PROVE NotPassed(walk[c])' /\ AllSeen(walk[c])'
  <2>1. PICK w : w = walk[c]
    OBVIOUS
  <2>2. NotPassed(w) /\ AllSeen(w) /\ w \in Walking \cup Walked \cup {NoWalk}
    BY <2>1 DEF WalksSound
  <2>3. NotPassed(w)'
    <3>1. CASE w \in Walking
      BY <1>1, <2>2, <3>1, GrownWalk
    <3>2. CASE w.step # "walking"
      BY <3>2 DEF NotPassed
    <3> QED BY <2>2, <3>1, <3>2, Steps
  <2>4. w = walk'[c]
    BY <1>1, <2>1
  <2> QED BY <2>2, <2>3, <2>4 DEF NotPassed, AllSeen
<1> QED BY <1>1, <1>2 DEF WalksSound, Grown

\* Records are changed: no walk is sure any more.
LEMMA RecordChanged ==
    ASSUME WalksSound, Change, rows' \in Seq(Record)
    PROVE  WalksSound'
<1>1. ASSUME NEW c \in Clients
      PROVE  /\ walk'[c] \in Walking \cup Walked \cup {NoWalk}
             /\ NotPassed(walk[c])' /\ AllSeen(walk[c])'
  <2>1. walk'[c] = IF walk[c].step = "walking" THEN [walk[c] EXCEPT !.sure = FALSE] ELSE walk[c]
    BY DEF Change
  <2>2. walk[c] \in Walking \cup Walked \cup {NoWalk} /\ AllSeen(walk[c])
    BY DEF WalksSound
  <2>3. CASE walk[c].step = "walking"
    <3>1. walk[c] \in Walking
      BY <2>2, <2>3, Steps
    <3>2. PICK w \in Walking : w = walk[c]
      BY <3>1
    <3>3. [w EXCEPT !.sure = FALSE] \in Walking /\ ~[w EXCEPT !.sure = FALSE].sure
      BY DEF Walking
    <3>4. walk'[c] = [w EXCEPT !.sure = FALSE]
      BY <2>1, <2>3, <3>2
    <3>5. walk'[c] \in Walking /\ ~walk'[c].sure
      BY <3>3, <3>4
    <3> QED BY <3>5 DEF NotPassed, AllSeen
  <2>4. CASE walk[c].step # "walking"
    BY <2>1, <2>2, <2>4 DEF NotPassed, AllSeen
  <2> QED BY <2>3, <2>4
<1>2. walk' \in [Clients -> Walking \cup Walked \cup {NoWalk}]
  BY <1>1 DEF Change
<1> QED BY <1>1, <1>2 DEF WalksSound

\* Neither the rows nor the walks change.
LEMMA WalksStay ==
    ASSUME WalksSound, UNCHANGED <<rows, walk>>
    PROVE  WalksSound'
<1>1. ASSUME NEW c \in Clients PROVE NotPassed(walk[c])' /\ AllSeen(walk[c])'
  <2>1. PICK w : w = walk[c]
    OBVIOUS
  <2>2. NotPassed(w) /\ AllSeen(w) /\ w = walk'[c]
    BY <2>1 DEF WalksSound
  <2>3. NotPassed(w)'
    BY <2>2, SameRowsSameWalk
  <2> QED BY <2>2, <2>3 DEF NotPassed, AllSeen
<1> QED BY <1>1 DEF WalksSound

LEMMA WalksStep == WalksSound /\ [Next]_vars => WalksSound'
<1> SUFFICES ASSUME WalksSound, [Next]_vars PROVE WalksSound'
  OBVIOUS
<1>1. ASSUME NEW record \in Given, CreateRecord(record) PROVE WalksSound'
  BY <1>1, RecordCreated
<1>2. ASSUME \E i \in DOMAIN rows :
                \/ \E amount \in Amounts \cup {Null} : UpdateRecord(i, amount)
                \/ \E active \in BOOLEAN : SetLifecycle(i, active)
      PROVE  WalksSound'
  <2>1. Change
    BY <1>2 DEF UpdateRecord, SetLifecycle
  <2>2. rows' \in Seq(Record)
    BY <1>2, RecordsWritten DEF WalksSound
  <2> QED BY <2>1, <2>2, RecordChanged
<1>3. ASSUME NEW c \in Clients, NEW actor \in Actors, NEW filter \in Filters,
             NEW limit \in Limits, StartWalk(c, actor, filter, limit)
      PROVE  WalksSound'
  BY <1>3, WalkStarts
<1>4. ASSUME NEW c \in Clients, NextPage(c) PROVE WalksSound'
  BY <1>4, WalkGoesOn
<1>5. ASSUME NEW q \in Slots, NEW actor \in Actors, NEW from \in DOMAIN rows,
             NEW to \in DOMAIN rows, NEW type \in RelationTypes,
             RelateLoad(q, actor, from, to, type)
      PROVE  WalksSound'
  BY <1>5, WalksStay DEF RelateLoad
<1>6. ASSUME NEW q \in Slots, RelateCommit(q) \/ Abort(q) PROVE WalksSound'
  BY <1>6, WalksStay DEF RelateCommit, Abort
<1>7. CASE UNCHANGED vars
  BY <1>7, WalksStay DEF vars
<1> QED BY <1>1, <1>2, <1>3, <1>4, <1>5, <1>6, <1>7 DEF Next, Rest

LEMMA WalksInit == Init => WalksSound
<1> SUFFICES ASSUME Init PROVE WalksSound
  OBVIOUS
<1>1. rows \in Seq(Record) /\ walk \in [Clients -> Walking \cup Walked \cup {NoWalk}]
  BY DEF Init
<1>2. \A c \in Clients : walk[c].step = "none"
  BY DEF Init, NoWalk
<1> QED BY <1>1, <1>2 DEF WalksSound, NotPassed, AllSeen

(***************************************************************************)
(* A client that walks through all pages of a list while records are only  *)
(* created meets every record that was in the list from its first page on  *)
(* (record.rs list_records, called once for each page).                    *)
(***************************************************************************)
THEOREM WalksMissNothing == Spec => []WalkMissesNothing
<1>1. WalksSound => WalkMissesNothing
  BY DEF WalksSound, AllSeen, WalkMissesNothing
<1> QED BY <1>1, WalksInit, WalksStep, PTL DEF Spec

(***************************************************************************)
(* Every list shows each record its filter keeps once.  Sorted by a field, *)
(* it has that order and desc is the exact reverse, unless one of its      *)
(* numbers is null; without a sort it is newest first, desc or not         *)
(* (record.rs list_records: newest first, then a stable sort by one field  *)
(* and, only with a sort, a reverse).                                      *)
(***************************************************************************)
THEOREM ListsAreAlwaysOrdered == Spec => []ListsAreOrdered
<1>1. WalksSound => ListsAreOrdered
  BY ListsOrdered DEF WalksSound
<1> QED BY <1>1, WalksInit, WalksStep, PTL DEF Spec

-----------------------------------------------------------------------------
(* Reports *)

\* The minimum of no values is a number.
LEMMA InfinityIsInt == Infinity \in Int
<1> DEFINE A == Amounts \cup {0}
           minus == [a \in A |-> -a]
           B == {minus[a] : a \in A}
<1>1. A \in SUBSET Int /\ IsFiniteSet(A) /\ 0 \in A
  BY QueriesAssumption, FS_AddElement
<1> HIDE DEF A
<1>2. IsFiniteSet(B)
  <2> HIDE DEF minus
  <2> QED BY <1>1, FiniteImage
<1>3. B \in SUBSET Int /\ B # {}
  BY <1>1
<1>4. Min(B) \in B /\ \A b \in B : Min(B) <= b
  <2> HIDE DEF B
  <2> QED BY <1>2, <1>3, LeastOf
<1>5. PICK a \in A : Min(B) = -a
  BY <1>4
<1>6. \A x \in A : -a <= -x
  BY <1>4, <1>5
<1>7. \A x \in A : a >= x
  BY <1>1, <1>6
<1>8. Max(A) \in A
  <2>1. \E y \in A : \A x \in A : y >= x
    BY <1>7
  <2> QED BY <2>1 DEF Max
<1>9. Max(A) \in Int
  BY <1>1, <1>8
<1> QED BY <1>9 DEF Infinity, A

\* The records of S that have a number, and their numbers
Counted(S) == {i \in S : rows[i].amount \in Amounts}
Values(S)  == {rows[i].amount : i \in Counted(S)}

\* The keys of the groups of S, and the records of each
Keys(S)        == {value_to_key(i) : i \in S}
Bucket(S, key) == {i \in S : value_to_key(i) = key}

\* What compute says
LEMMA Computes ==
    ASSUME NEW S
    PROVE  /\ compute(S, "sum")
                 = SumFunctionOnSet([i \in Counted(S) |-> rows[i].amount], Counted(S))
           /\ compute(S, "min") = Min(Values(S) \cup {Infinity})
<1>1. compute(S, "sum") = SumFunction([i \in Counted(S) |-> rows[i].amount])
  BY DEF compute, Counted
<1>2. compute(S, "min") = Min(Values(S) \cup {Infinity})
  BY DEF compute, Counted, Values
<1>3. DOMAIN [i \in Counted(S) |-> rows[i].amount] = Counted(S)
  OBVIOUS
<1> QED BY <1>1, <1>2, <1>3 DEF SumFunction

\* The counts and sums of the groups add up.
LEMMA GroupsAddUp ==
    ASSUME NEW S, IsFiniteSet(S)
    PROVE  /\ SumFunction([key \in Keys(S) |-> Cardinality(Bucket(S, key))]) = Cardinality(S)
           /\ SumFunction([key \in Keys(S) |-> compute(Bucket(S, key), "sum")])
                 = compute(S, "sum")
<1> DEFINE k == [i \in S |-> value_to_key(i)]
           K == Keys(S)
           C == Counted(S)
           ones == [i \in S |-> 1]
           amounts == [i \in C |-> rows[i].amount]
<1>1. IsFiniteSet(K)
  <2>1. K = {k[i] : i \in S}
    BY DEF Keys
  <2> HIDE DEF k, K
  <2> QED BY <2>1, FiniteImage
<1>2. C \subseteq S /\ IsFiniteSet(C)
  BY FS_Subset DEF Counted
<1>3. \A i \in S : k[i] \in K
  BY DEF Keys
<1>4. \A i \in C : amounts[i] \in Int
  BY QueriesAssumption DEF Counted
<1>5. \A key : Part(S, k, key) = Bucket(S, key) /\ Part(C, k, key) = Counted(Bucket(S, key))
  BY DEF Part, Bucket, Counted
<1>6. \A key : IsFiniteSet(Bucket(S, key)) /\ IsFiniteSet(Counted(Bucket(S, key)))
  <2> TAKE key
  <2>1. Bucket(S, key) \in SUBSET S /\ Counted(Bucket(S, key)) \in SUBSET S
    BY DEF Bucket, Counted
  <2> QED BY <2>1, FS_Subset
<1> DEFINE counts == [key \in K |-> Cardinality(Bucket(S, key))]
           values == [key \in K |-> compute(Bucket(S, key), "sum")]
<1>7. SumFunction(counts) = Cardinality(S)
  <2>1. \A i \in S : ones[i] = 1 /\ ones[i] \in Int
    OBVIOUS
  <2> HIDE DEF ones, k, K
  <2>2. \A key : SumFunctionOnSet(ones, Part(S, k, key)) = Cardinality(Bucket(S, key))
    <3> TAKE key
    <3>1. \A i \in Bucket(S, key) : ones[i] = 1
      BY <2>1 DEF Bucket
    <3> QED BY <1>5, <1>6, <3>1, SumOfOnes
  <2>3. counts = GroupSums(S, K, ones, k) /\ DOMAIN counts = K
    BY <2>2 DEF GroupSums
  <2>4. \A i \in S : ones[i] \in Int /\ k[i] \in K
    BY <1>3, <2>1
  <2>5. SumFunctionOnSet(GroupSums(S, K, ones, k), K) = SumFunctionOnSet(ones, S)
    BY <1>1, <2>4, SumByGroup
  <2>6. SumFunctionOnSet(ones, S) = Cardinality(S)
    BY <2>1, SumOfOnes
  <2> HIDE DEF counts
  <2> QED BY <2>3, <2>5, <2>6 DEF SumFunction
<1>8. SumFunction(values) = compute(S, "sum")
  <2>1. \A key : SumFunctionOnSet(amounts, Part(C, k, key)) = compute(Bucket(S, key), "sum")
    <3> TAKE key
    <3> DEFINE D == Counted(Bucket(S, key))
               part == [i \in D |-> rows[i].amount]
    <3>1. D \subseteq C
      BY DEF Counted, Bucket
    <3>2. \A i \in D : amounts[i] \in Int /\ part[i] = amounts[i]
      BY <1>4, <3>1
    <3>3. compute(Bucket(S, key), "sum") = SumFunctionOnSet(part, D)
      BY Computes
    <3> HIDE DEF D, part, amounts
    <3>4. SumFunctionOnSet(part, D) = SumFunctionOnSet(amounts, D)
      BY <1>6, <3>2, SumsSame DEF D
    <3>5. Part(C, k, key) = D
      BY <1>5 DEF D
    <3> QED BY <3>3, <3>4, <3>5
  <2>2. compute(S, "sum") = SumFunctionOnSet(amounts, C)
    BY Computes
  <2> HIDE DEF amounts, k, K, C
  <2>3. values = GroupSums(C, K, amounts, k) /\ DOMAIN values = K
    BY <2>1 DEF GroupSums
  <2>4. \A i \in C : amounts[i] \in Int /\ k[i] \in K
    BY <1>2, <1>3, <1>4
  <2>5. SumFunctionOnSet(GroupSums(C, K, amounts, k), K) = SumFunctionOnSet(amounts, C)
    BY <1>1, <1>2, <2>4, SumByGroup
  <2> HIDE DEF values
  <2> QED BY <2>2, <2>3, <2>5 DEF SumFunction
<1> QED BY <1>7, <1>8

\* The values of a set of records are finitely many numbers.
LEMMA ValuesAreNumbers ==
    ASSUME NEW S, IsFiniteSet(S)
    PROVE  /\ Values(S) \cup {Infinity} \in SUBSET Int
           /\ IsFiniteSet(Values(S) \cup {Infinity})
<1> DEFINE f == [i \in Counted(S) |-> rows[i].amount]
<1>1. Values(S) = {f[i] : i \in Counted(S)}
  BY DEF Values
<1>2. IsFiniteSet(Counted(S))
  BY FS_Subset DEF Counted
<1>3. IsFiniteSet(Values(S))
  <2> HIDE DEF f
  <2> QED BY <1>1, <1>2, FiniteImage
<1>4. Values(S) \subseteq Int
  BY QueriesAssumption DEF Values, Counted
<1> QED BY <1>3, <1>4, InfinityIsInt, FS_AddElement

\* The least of the minima of the groups is the minimum.
LEMMA LeastOfGroups ==
    ASSUME NEW S, IsFiniteSet(S)
    PROVE  Min({compute(Bucket(S, key), "min") : key \in Keys(S)} \cup {Infinity})
              = compute(S, "min")
<1> DEFINE least == [key \in Keys(S) |-> compute(Bucket(S, key), "min")]
           M == {least[key] : key \in Keys(S)} \cup {Infinity}
           V == Values(S) \cup {Infinity}
           m == Min(M)
<1>1. V \in SUBSET Int
  BY ValuesAreNumbers
<1>2. ASSUME NEW key \in Keys(S)
      PROVE  /\ least[key] \in V
             /\ \A i \in Counted(S) : value_to_key(i) = key => least[key] <= rows[i].amount
  <2> DEFINE B == Bucket(S, key)
             W == Values(B) \cup {Infinity}
  <2>1. IsFiniteSet(B)
    BY FS_Subset DEF Bucket
  <2>2. W \in SUBSET Int /\ IsFiniteSet(W) /\ W # {}
    BY <2>1, ValuesAreNumbers
  <2>3. least[key] = Min(W)
    BY Computes
  <2>4. W \subseteq V
    BY DEF Values, Counted, Bucket
  <2>5. \A i \in Counted(S) : value_to_key(i) = key => rows[i].amount \in W
    BY DEF Values, Counted, Bucket
  <2> HIDE DEF W, V, least
  <2>6. Min(W) \in W /\ \A x \in W : Min(W) <= x
    BY <2>2, LeastOf
  <2> QED BY <2>3, <2>4, <2>5, <2>6
<1>3. M \in SUBSET Int /\ IsFiniteSet(M) /\ M # {}
  <2>1. M \in SUBSET Int
    BY <1>1, <1>2, InfinityIsInt
  <2>2. IsFiniteSet(Keys(S))
    <3> DEFINE k == [i \in S |-> value_to_key(i)]
    <3>1. Keys(S) = {k[i] : i \in S}
      BY DEF Keys
    <3> HIDE DEF k
    <3> QED BY <3>1, FiniteImage
  <2> HIDE DEF least
  <2>3. IsFiniteSet({least[key] : key \in Keys(S)})
    BY <2>2, FiniteImage
  <2> QED BY <2>1, <2>3, FS_AddElement
<1>4. m \in M /\ \A x \in M : m <= x
  <2> HIDE DEF M
  <2> QED BY <1>3, LeastOf
<1> HIDE DEF least, m
<1>5. m \in V
  BY <1>2, <1>4
<1>6. m <= Infinity /\ m \in Int
  BY <1>1, <1>4, <1>5
<1>7. ASSUME NEW i \in Counted(S) PROVE m <= rows[i].amount
  <2> DEFINE key == value_to_key(i)
  <2>1. key \in Keys(S)
    BY DEF Keys, Counted
  <2> HIDE DEF key
  <2>2. least[key] <= rows[i].amount /\ least[key] \in V /\ m <= least[key]
    BY <1>2, <1>4, <2>1 DEF key
  <2>3. rows[i].amount \in V
    BY DEF Values
  <2>4. least[key] \in Int /\ rows[i].amount \in Int
    BY <1>1, <2>2, <2>3
  <2> QED BY <1>6, <2>2, <2>4
<1>8. \A x \in V : m <= x
  BY <1>6, <1>7 DEF Values
<1>9. Min(V) = m
  <2> HIDE DEF V
  <2> QED BY <1>1, <1>5, <1>8, LeastIs
<1>10. {compute(Bucket(S, key), "min") : key \in Keys(S)} = {least[key] : key \in Keys(S)}
  BY DEF least
<1> QED BY <1>9, <1>10, Computes DEF m

\* A report looks at what a list with the same filter shows.
LEMMA ScannedIsFound ==
    ASSUME rows \in Seq(Record), NEW actor \in Actors, NEW filter \in Filters,
           filter.search = None, ~filter.archived
    PROVE  /\ IsFiniteSet(scan_records(actor, filter.clauses))
           /\ Cardinality(scan_records(actor, filter.clauses)) = Len(Found(actor, filter))
<1>1. filter.sort \in Orders /\ filter.desc \in BOOLEAN /\ filter.archived = FALSE
  BY QueriesAssumption
<1>2. scan_records(actor, filter.clauses) = Kepts(actor, filter)
  BY <1>1 DEF scan_records, Kepts, Kept, record_matches_search
<1>3. Kepts(actor, filter) \subseteq DOMAIN rows
  BY DEF Kepts, Kept, Candidates, OfType
<1> QED BY <1>1, <1>2, <1>3, FoundLists, PlacesAreFinite

\* Reports of records say what lists show.
LEMMA ReportsMatch ==
    ASSUME rows \in Seq(Record)
    PROVE  ReportsMatchLists
<1> SUFFICES ASSUME NEW actor \in Actors,
                    NEW filter \in {f \in Filters : f.search = None /\ ~f.archived}
             PROVE  LET scanned == scan_records(actor, filter.clauses)
                        sums == Groups(actor, filter.clauses, "sum")
                        mins == Groups(actor, filter.clauses, "min") IN
                    /\ Cardinality(scanned) = Len(Found(actor, filter))
                    /\ SumFunction([key \in DOMAIN sums |-> sums[key].count])
                          = Cardinality(scanned)
                    /\ SumFunction([key \in DOMAIN sums |-> sums[key].value])
                          = compute(scanned, "sum")
                    /\ Min({mins[key].value : key \in DOMAIN mins} \cup {Infinity})
                          = compute(scanned, "min")
  BY DEF ReportsMatchLists
<1> DEFINE scanned == scan_records(actor, filter.clauses)
           sums == Groups(actor, filter.clauses, "sum")
           mins == Groups(actor, filter.clauses, "min")
<1>1. IsFiniteSet(scanned) /\ Cardinality(scanned) = Len(Found(actor, filter))
  BY ScannedIsFound
<1>2. /\ sums = [key \in Keys(scanned) |->
                   [value |-> compute(Bucket(scanned, key), "sum"),
                    count |-> Cardinality(Bucket(scanned, key))]]
      /\ mins = [key \in Keys(scanned) |->
                   [value |-> compute(Bucket(scanned, key), "min"),
                    count |-> Cardinality(Bucket(scanned, key))]]
  BY DEF Groups, Keys, Bucket
<1> HIDE DEF scanned, sums, mins
<1>3. /\ DOMAIN sums = Keys(scanned) /\ DOMAIN mins = Keys(scanned)
      /\ \A key \in Keys(scanned) :
            /\ sums[key].value = compute(Bucket(scanned, key), "sum")
            /\ sums[key].count = Cardinality(Bucket(scanned, key))
            /\ mins[key].value = compute(Bucket(scanned, key), "min")
  BY <1>2
<1>4. [key \in DOMAIN sums |-> sums[key].count]
         = [key \in Keys(scanned) |-> Cardinality(Bucket(scanned, key))]
  BY <1>3
<1>5. [key \in DOMAIN sums |-> sums[key].value]
         = [key \in Keys(scanned) |-> compute(Bucket(scanned, key), "sum")]
  BY <1>3
<1>6. {mins[key].value : key \in DOMAIN mins}
         = {compute(Bucket(scanned, key), "min") : key \in Keys(scanned)}
  BY <1>3
<1>7. /\ SumFunction([key \in DOMAIN sums |-> sums[key].count]) = Cardinality(scanned)
      /\ SumFunction([key \in DOMAIN sums |-> sums[key].value]) = compute(scanned, "sum")
  BY <1>1, <1>4, <1>5, GroupsAddUp
<1>8. Min({mins[key].value : key \in DOMAIN mins} \cup {Infinity}) = compute(scanned, "min")
  BY <1>1, <1>6, LeastOfGroups
<1> QED BY <1>1, <1>7, <1>8 DEF scanned, sums, mins

(***************************************************************************)
(* A report's sample is the total of the list with the same filters, and   *)
(* its groups' counts, sums and minima put together are those of the       *)
(* sample (analytics.rs scan_records, run_report_def and compute).         *)
(***************************************************************************)
THEOREM ReportsAlwaysMatchLists == Spec => []ReportsMatchLists
<1>1. WalksSound => ReportsMatchLists
  BY ReportsMatch DEF WalksSound
<1> QED BY <1>1, WalksInit, WalksStep, PTL DEF Spec

=============================================================================
