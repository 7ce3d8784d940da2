---------------------------- MODULE Builder_proofs ----------------------------
(***************************************************************************)
(* Theorems about Builder for any definitions that clients give, any number*)
(* of calls that run at once, and calls cut off anywhere.  In their order: *)
(* the planner for any object types and any template; what the proofs need *)
(* of the references of the shipped catalog; the invariant of what is      *)
(* stored and its consequences; the keys of the catalog; and what plans,   *)
(* reports and installs say of each other.                                 *)
(***************************************************************************)
EXTENDS Builder, Collections_proofs, TLAPS

-----------------------------------------------------------------------------
(* The elements of a sequence that are in a set *)

\* The elements among the first n, for each n
Selected(seq, T, those) ==
    those = [n \in 0..Len(seq) |->
               IF n = 0 THEN <<>>
               ELSE IF seq[n] \in T THEN Append(those[n - 1], seq[n]) ELSE those[n - 1]]

LEMMA ThoseIs ==
    ASSUME NEW seq, Len(seq) \in Nat, NEW T
    PROVE  \E those : Selected(seq, T, those) /\ Those(seq, T) = those[Len(seq)]
<1> DEFINE Upto(m, f) ==
        f = [n \in 0..m |-> IF n = 0 THEN <<>>
                            ELSE IF seq[n] \in T THEN Append(f[n - 1], seq[n]) ELSE f[n - 1]]
           P == {m \in Nat : \E f : Upto(m, f)}
<1>1. 0 \in P
  <2> DEFINE f == [n \in 0..0 |-> <<>>]
  <2>1. \A n \in 0..0 : f[n] = IF n = 0 THEN <<>>
                 ELSE IF seq[n] \in T THEN Append(f[n - 1], seq[n]) ELSE f[n - 1]
    OBVIOUS
  <2>2. Upto(0, f)
    BY <2>1
  <2> QED BY <2>2
<1>2. ASSUME NEW m \in Nat, m \in P PROVE m + 1 \in P
  <2>1. PICK f : Upto(m, f)
    BY <1>2
  <2> DEFINE last == IF seq[m + 1] \in T THEN Append(f[m], seq[m + 1]) ELSE f[m]
             g == [n \in 0..(m + 1) |-> IF n = m + 1 THEN last ELSE f[n]]
  <2>2. g[m + 1] = last /\ \A n \in 0..m : g[n] = f[n]
    <3> HIDE DEF last
    <3> QED OBVIOUS
  <2>3. \A n \in 0..(m + 1) :
           g[n] = IF n = 0 THEN <<>>
                  ELSE IF seq[n] \in T THEN Append(g[n - 1], seq[n]) ELSE g[n - 1]
    <3> TAKE n \in 0..(m + 1)
    <3>1. CASE n = m + 1
      <4>1. m \in 0..m /\ n - 1 = m /\ n # 0
        BY <3>1
      <4>2. g[n - 1] = f[m]
        BY <2>2, <4>1
      <4>3. g[n] = last
        BY <2>2, <3>1
      <4> HIDE DEF g
      <4> QED BY <3>1, <4>1, <4>2, <4>3
    <3>2. CASE n \in 0..m
      <4>1. n # 0 => n - 1 \in 0..m
        BY <3>2
      <4>2. f[n] = IF n = 0 THEN <<>>
                   ELSE IF seq[n] \in T THEN Append(f[n - 1], seq[n]) ELSE f[n - 1]
        BY <2>1, <3>2
      <4>3. g[n] = f[n] /\ (n # 0 => g[n - 1] = f[n - 1])
        BY <2>2, <3>2, <4>1
      <4> HIDE DEF g
      <4> QED BY <4>2, <4>3
    <3> QED BY <3>1, <3>2
  <2>4. g = [n \in 0..(m + 1) |->
               IF n = 0 THEN <<>>
               ELSE IF seq[n] \in T THEN Append(g[n - 1], seq[n]) ELSE g[n - 1]]
    BY <2>3
  <2>5. \E h : Upto(m + 1, h)
    <3> HIDE DEF g
    <3> QED BY <2>4
  <2>6. m + 1 \in Nat
    OBVIOUS
  <2> HIDE DEF g, last, Upto
  <2> QED BY <2>5, <2>6
<1>3. Len(seq) \in P
  <2> HIDE DEF P
  <2> QED BY <1>1, <1>2, NatInd
<1>4. \E f : Selected(seq, T, f)
  BY <1>3 DEF Selected
<1> DEFINE it == CHOOSE f : Selected(seq, T, f)
<1>5. Selected(seq, T, it)
  BY <1>4
<1>6. Those(seq, T) = it[Len(seq)]
  BY DEF Those, Selected
<1> QED BY <1>5, <1>6

\* What is taken of a listing is a listing of what is taken.
LEMMA ThoseLists ==
    ASSUME NEW S, NEW seq, Listing(seq, S), NEW T
    PROVE  Listing(Those(seq, T), S \cap T)
<1>1. /\ Len(seq) \in Nat /\ DOMAIN seq = 1..Len(seq)
      /\ \A k \in 1..Len(seq) : seq[k] \in S
  BY ListingIs
<1> DEFINE n == Len(seq)
           Some(m) == {seq[k] : k \in {i \in 1..m : seq[i] \in T}}
<1>2. PICK those : Selected(seq, T, those) /\ Those(seq, T) = those[n]
  BY <1>1, ThoseIs
<1>3. \A m \in 0..n : those[m] = IF m = 0 THEN <<>>
              ELSE IF seq[m] \in T THEN Append(those[m - 1], seq[m]) ELSE those[m - 1]
  BY <1>1, <1>2 DEF Selected
<1> DEFINE P == {m \in Nat : m \in 0..n => Listing(those[m], Some(m))}
<1>4. 0 \in P
  <2>1. those[0] = <<>>
    BY <1>1, <1>3
  <2>2. Some(0) = {}
    OBVIOUS
  <2> HIDE DEF Some
  <2> QED BY <2>1, <2>2, EmptyLists
<1>5. ASSUME NEW m \in Nat, m \in P PROVE m + 1 \in P
  <2> SUFFICES ASSUME m + 1 \in 0..n PROVE Listing(those[m + 1], Some(m + 1))
    OBVIOUS
  <2>1. Listing(those[m], Some(m))
    BY <1>1, <1>5
  <2>2. m + 1 # 0 /\ (m + 1) - 1 = m /\ m + 1 \in 1..n
    BY <1>1
  <2>3. 1..(m + 1) = (1..m) \cup {m + 1}
    OBVIOUS
  <2>4. CASE seq[m + 1] \notin T
    <3>1. those[m + 1] = those[m]
      BY <1>3, <2>2, <2>4
    <3>2. Some(m + 1) = Some(m)
      BY <2>3, <2>4
    <3> HIDE DEF Some
    <3> QED BY <2>1, <3>1, <3>2
  <2>5. CASE seq[m + 1] \in T
    <3>1. those[m + 1] = Append(those[m], seq[m + 1])
      BY <1>3, <2>2, <2>5
    <3>2. Some(m + 1) = Some(m) \cup {seq[m + 1]}
      BY <2>3, <2>5
    <3>3. seq[m + 1] \notin Some(m)
      <4>1. \A k \in 1..m : k \in 1..n /\ k # m + 1
        BY <1>1, <2>2
      <4>2. \A k \in 1..m : seq[k] # seq[m + 1]
        BY <2>2, <4>1 DEF Listing
      <4> QED BY <4>2
    <3> DEFINE x == seq[m + 1]
               t == those[m]
               X == Some(m)
    <3>4. Listing(Append(t, x), X \cup {x})
      <4>1. Listing(t, X) /\ x \notin X
        BY <2>1, <3>3
      <4> HIDE DEF x, t, X
      <4>2. Listing(<<x>>, {x})
        BY DEF Listing
      <4>3. Listing(t \o <<x>>, X \cup {x})
        BY <4>1, <4>2, ConcatLists
      <4>4. Append(t, x) = t \o <<x>>
        <5>1. t \in Seq(X \cup {x})
          BY <4>1 DEF Listing
        <5> HIDE DEF Listing
        <5> QED BY <5>1
      <4> QED BY <4>3, <4>4
    <3> HIDE DEF Some
    <3> QED BY <3>1, <3>2, <3>4
  <2> QED BY <2>4, <2>5
<1>6. Listing(those[n], Some(n))
  <2>1. n \in P
    <3> HIDE DEF P
    <3> QED BY <1>1, <1>4, <1>5, NatInd
  <2> QED BY <1>1, <2>1
<1>7. Some(n) = S \cap T
  <2>1. \A x \in S : \E k \in 1..n : seq[k] = x
    BY DEF Listing
  <2> QED BY <1>1, <2>1
<1> QED BY <1>2, <1>6, <1>7

-----------------------------------------------------------------------------
(* Definitions and fields by their keys *)

\* A sequence of definitions, or of fields, with keys of their own
Keyed(list) ==
    /\ Len(list) \in Nat /\ list = [i \in 1..Len(list) |-> list[i]]
    /\ \A i, j \in 1..Len(list) : list[i].key = list[j].key => i = j
    /\ \A i \in 1..Len(list) : list[i].key # None

\* A sequence of definitions whose fields have keys of their own too
Formed(objects) ==
    Keyed(objects) /\ \A i \in 1..Len(objects) : Keyed(objects[i].fields)

\* The keys name what has them.
LEMMA KeyedLists ==
    ASSUME NEW list, Keyed(list)
    PROVE  /\ Len(list) \in Nat /\ DOMAIN list = 1..Len(list)
           /\ Listing(list, ToSet(list))
           /\ Listing([i \in DOMAIN list |-> list[i].key], Keys(list))
           /\ Keys(list) = {list[i].key : i \in 1..Len(list)}
           /\ FieldKeys(list) = Keys(list)
           /\ None \notin Keys(list)
           /\ \A i \in 1..Len(list) : ByKey(list, list[i].key) = list[i]
<1> DEFINE n == Len(list)
           keys == [i \in DOMAIN list |-> list[i].key]
<1>1. /\ n \in Nat /\ DOMAIN list = 1..n /\ list = [i \in 1..n |-> list[i]]
      /\ \A i, j \in 1..n : list[i].key = list[j].key => i = j
      /\ \A i \in 1..n : list[i].key # None
  <2>1. n \in Nat /\ list = [i \in 1..n |-> list[i]]
    BY DEF Keyed
  <2>2. DOMAIN list = 1..n
    BY <2>1
  <2> QED BY <2>1, <2>2 DEF Keyed
<1>2. Listing(list, ToSet(list))
  <2>1. \A i \in 1..n : list[i] \in ToSet(list)
    BY <1>1 DEF ToSet
  <2>2. \A x \in ToSet(list) : \E i \in 1..n : list[i] = x
    BY <1>1 DEF ToSet
  <2>3. \A i, j \in 1..n : list[i] = list[j] => i = j
    BY <1>1
  <2> HIDE DEF n
  <2> QED BY <1>1, <2>1, <2>2, <2>3, ListingOf
<1>3. Keys(list) = {list[i].key : i \in 1..n} /\ FieldKeys(list) = Keys(list)
  BY <1>1 DEF Keys, FieldKeys
<1>4. Listing(keys, Keys(list))
  <2>1. keys = [i \in 1..n |-> keys[i]] /\ \A i \in 1..n : keys[i] = list[i].key
    BY <1>1
  <2> HIDE DEF n, keys
  <2>2. /\ \A i \in 1..n : keys[i] \in Keys(list)
        /\ \A x \in Keys(list) : \E i \in 1..n : keys[i] = x
        /\ \A i, j \in 1..n : keys[i] = keys[j] => i = j
    BY <1>1, <1>3, <2>1
  <2> QED BY <1>1, <2>1, <2>2, ListingOf
<1>5. ASSUME NEW i \in 1..n PROVE ByKey(list, list[i].key) = list[i]
  <2>1. \E j \in DOMAIN list : list[j].key = list[i].key
    BY <1>1
  <2> DEFINE j == CHOOSE j \in DOMAIN list : list[j].key = list[i].key
  <2>2. j \in 1..n /\ list[j].key = list[i].key
    BY <1>1, <2>1
  <2>3. j = i
    BY <1>1, <2>2
  <2> QED BY <2>3 DEF ByKey
<1> QED BY <1>1, <1>2, <1>3, <1>4, <1>5

\* What a key names
LEMMA KeyNames ==
    ASSUME NEW list, Keyed(list), NEW k \in Keys(list)
    PROVE  \E i \in 1..Len(list) : /\ k = list[i].key /\ ByKey(list, k) = list[i]
                                   /\ list[i] \in ToSet(list)
<1>1. /\ Keys(list) = {list[i].key : i \in 1..Len(list)}
      /\ \A i \in 1..Len(list) : ByKey(list, list[i].key) = list[i]
      /\ DOMAIN list = 1..Len(list)
  BY KeyedLists
<1>2. PICK i \in 1..Len(list) : k = list[i].key
  BY <1>1
<1> QED BY <1>1, <1>2 DEF ToSet

\* field finds the field of a key.
LEMMA FieldIs ==
    ASSUME NEW def, Keyed(def.fields), NEW k \in FieldKeys(def.fields)
    PROVE  field(def, k) = ByKey(def.fields, k)
<1> DEFINE fields == def.fields
<1>1. /\ Len(fields) \in Nat /\ DOMAIN fields = 1..Len(fields)
      /\ FieldKeys(fields) = Keys(fields)
      /\ \A i, j \in 1..Len(fields) : fields[i].key = fields[j].key => i = j
  <2>1. Keyed(fields)
    OBVIOUS
  <2> HIDE DEF fields
  <2> QED BY <2>1, KeyedLists DEF Keyed
<1>2. PICK i \in 1..Len(fields) : k = fields[i].key /\ ByKey(fields, k) = fields[i]
  <2>1. Keyed(fields) /\ k \in Keys(fields)
    BY <1>1
  <2> HIDE DEF fields
  <2> QED BY <2>1, KeyNames
<1> DEFINE Found(j) == fields[j].key = k /\ \A l \in 1..(j - 1) : fields[l].key # k
<1>3. Found(i)
  <2>1. \A l \in 1..(i - 1) : l \in 1..Len(fields) /\ l # i
    BY <1>1
  <2> QED BY <1>1, <1>2, <2>1
<1>4. \A j \in DOMAIN fields : Found(j) => j = i
  BY <1>1, <1>2
<1>5. (CHOOSE j \in DOMAIN fields : Found(j)) = i
  <2>1. i \in DOMAIN fields
    BY <1>1
  <2> HIDE DEF Found
  <2> QED BY <1>3, <1>4, <2>1
<1>6. field(def, k) = fields[CHOOSE j \in DOMAIN fields : Found(j)]
  BY DEF field
<1> QED BY <1>2, <1>5, <1>6

-----------------------------------------------------------------------------
(* The mappings of fields *)

\* How a key of either side is mapped
FieldMapping(source, fields, k) ==
    IF k \in FieldKeys(fields)
    THEN Mapping(IF HasField(source, k) THEN k ELSE None, k,
                 TargetStatus(source, ByKey(fields, k)))
    ELSE Mapping(k, None, "dropped")

BothKeys(source, fields) == FieldKeys(fields) \cup FieldKeys(source.fields)

FieldMappings(source, fields) ==
    {FieldMapping(source, fields, k) : k \in BothKeys(source, fields)}

\* map_fields lists each key of either side once.
LEMMA MapFieldsLists ==
    ASSUME NEW source, NEW fields, Keyed(source.fields), Keyed(fields)
    PROVE  Listing(map_fields(source, fields), FieldMappings(source, fields))
<1> DEFINE KT == FieldKeys(fields)
           KS == FieldKeys(source.fields)
           sf == source.fields
           fm == [k \in KT \cup KS |-> FieldMapping(source, fields, k)]
           tkeys == [i \in DOMAIN fields |-> fields[i].key]
           first == [i \in DOMAIN fields |->
                        LET tf == fields[i] IN
                        Mapping(IF HasField(source, tf.key) THEN tf.key ELSE None, tf.key,
                                TargetStatus(source, tf))]
           X == {x \in ToSet(sf) : x.key \notin KT}
           h == [x \in ToSet(sf) |-> Mapping(x.key, None, "dropped")]
           dropped == Those(sf, X)
           second == [i \in DOMAIN dropped |-> Mapping(dropped[i].key, None, "dropped")]
<1>1. /\ DOMAIN fields = 1..Len(fields) /\ Listing(tkeys, KT) /\ None \notin KT
      /\ KT = Keys(fields)
      /\ \A i \in 1..Len(fields) : ByKey(fields, fields[i].key) = fields[i]
  BY KeyedLists
<1>2. /\ DOMAIN sf = 1..Len(sf) /\ Listing(sf, ToSet(sf)) /\ None \notin KS
      /\ KS = {sf[i].key : i \in 1..Len(sf)}
      /\ \A i \in 1..Len(sf) : ByKey(sf, sf[i].key) = sf[i]
  <2>1. Keyed(sf) /\ KS = FieldKeys(sf)
    OBVIOUS
  <2> HIDE DEF sf, KS
  <2> QED BY <2>1, KeyedLists
<1>3. \A k \in KT : fm[k].target = k /\ fm[k].status # "dropped"
  BY DEF FieldMapping, Mapping, TargetStatus
<1>4. \A k \in KS \ KT : fm[k] = Mapping(k, None, "dropped") /\ fm[k].source = k
  BY DEF FieldMapping, Mapping
<1>5. Listing(first, {fm[k] : k \in KT})
  <2>1. tkeys = [i \in DOMAIN fields |-> tkeys[i]] /\ DOMAIN tkeys = DOMAIN fields
    OBVIOUS
  <2>2. \A i \in DOMAIN fields : first[i] = fm[tkeys[i]]
    <3> TAKE i \in DOMAIN fields
    <3>1. fields[i].key \in KT /\ ByKey(fields, fields[i].key) = fields[i]
      BY <1>1 DEF FieldKeys
    <3> QED BY <3>1 DEF FieldMapping
  <2>3. first = [i \in DOMAIN tkeys |-> fm[tkeys[i]]]
    BY <2>2
  <2>4. \A x, y \in KT : fm[x] = fm[y] => x = y
    <3> TAKE x \in KT, y \in KT
    <3>1. fm[x].target = x /\ fm[y].target = y
      BY <1>3
    <3> HIDE DEF fm
    <3> QED BY <3>1
  <2> HIDE DEF first, fm, tkeys, KT
  <2> QED BY <1>1, <2>3, <2>4, ImageLists
<1>6. Listing(second, {h[x] : x \in ToSet(sf) \cap X})
  <2>1. Listing(dropped, ToSet(sf) \cap X)
    <3> HIDE DEF sf, X
    <3> QED BY <1>2, ThoseLists
  <2>2. \A i \in DOMAIN dropped : dropped[i] \in ToSet(sf)
    <3> HIDE DEF dropped
    <3> QED BY <2>1, ListingIs
  <2>3. second = [i \in DOMAIN dropped |-> h[dropped[i]]]
    <3> HIDE DEF dropped
    <3> QED BY <2>2
  <2>4. \A x, y \in ToSet(sf) \cap X : h[x] = h[y] => x = y
    <3> TAKE x \in ToSet(sf) \cap X, y \in ToSet(sf) \cap X
    <3> HAVE h[x] = h[y]
    <3>1. x.key = y.key
      BY DEF Mapping
    <3>2. \A w \in ToSet(sf) : ByKey(sf, w.key) = w
      BY <1>2 DEF ToSet
    <3> QED BY <3>1, <3>2
  <2> HIDE DEF second, dropped, h, X, sf
  <2> QED BY <2>1, <2>3, <2>4, ImageLists
<1>7. {h[x] : x \in ToSet(sf) \cap X} = {fm[k] : k \in KS \ KT}
  <2>1. {x.key : x \in ToSet(sf) \cap X} = KS \ KT
    BY <1>2 DEF ToSet
  <2>2. \A x \in ToSet(sf) \cap X : x.key \in KS \ KT /\ h[x] = fm[x.key]
    BY <1>4, <2>1
  <2> HIDE DEF h, fm, X, sf, KS, KT
  <2> QED BY <2>1, <2>2
<1>8. {fm[k] : k \in KT} \cap {fm[k] : k \in KS \ KT} = {}
  <2>1. \A k \in KS \ KT : fm[k].status = "dropped"
    BY <1>4 DEF Mapping
  <2> HIDE DEF fm, KS, KT
  <2> QED BY <1>3, <2>1
<1>9. Listing(first \o second, {fm[k] : k \in KT} \cup {fm[k] : k \in KS \ KT})
  <2> HIDE DEF first, second, fm, KS, KT, h, X, sf
  <2> QED BY <1>5, <1>6, <1>7, <1>8, ConcatLists
<1>10. {fm[k] : k \in KT} \cup {fm[k] : k \in KS \ KT} = FieldMappings(source, fields)
  <2>1. \A k \in KT \cup KS : fm[k] = FieldMapping(source, fields, k)
    OBVIOUS
  <2>2. KT \cup KS = BothKeys(source, fields)
    BY DEF BothKeys
  <2> HIDE DEF fm, KS, KT
  <2>3. FieldMappings(source, fields) = {fm[k] : k \in KT \cup KS}
    BY <2>1, <2>2 DEF FieldMappings
  <2> QED BY <2>3
<1>11. map_fields(source, fields) = first \o second
  BY DEF map_fields, DroppedFields
<1> QED BY <1>9, <1>10, <1>11
\* A listing of mappings whose sources are the members of K and whose targets
\* the members of L, each in one mapping
OneToOne(fields, K, L) ==
    \E W : /\ Listing(fields, W)
           /\ \A x, y \in W : x.source = y.source /\ x.source # None => x = y
           /\ \A x, y \in W : x.target = y.target /\ x.target # None => x = y
           /\ {x.source : x \in W} \ {None} = K
           /\ {x.target : x \in W} \ {None} = L

Pairs(o, K) == {<<o, k>> : k \in K}

\* The mappings with a source, and with a target, seen from that side
WithSource(fields) == Those(fields, {m \in ToSet(fields) : m.source # None})
WithTarget(fields) == Those(fields, {m \in ToSet(fields) : m.target # None})
SourceList(o, fields) ==
    [j \in DOMAIN WithSource(fields) |-> <<o, WithSource(fields)[j].source>>]
TargetList(o, fields) ==
    [j \in DOMAIN WithTarget(fields) |-> <<o, WithTarget(fields)[j].target>>]

LEMMA SourcesOnce ==
    ASSUME NEW fields, NEW K, NEW L, OneToOne(fields, K, L), NEW o
    PROVE  Listing(SourceList(o, fields), Pairs(o, K))
<1>1. PICK W : /\ Listing(fields, W)
               /\ \A x, y \in W : x.source = y.source /\ x.source # None => x = y
               /\ {x.source : x \in W} \ {None} = K
  BY DEF OneToOne
<1> DEFINE ms == WithSource(fields)
           list == SourceList(o, fields)
           T == {m \in ToSet(fields) : m.source # None}
           g == [x \in W |-> <<o, x.source>>]
<1>2. ToSet(fields) = W
  BY <1>1, ListingIs
<1>3. Listing(ms, W \cap T)
  <2>1. ms = Those(fields, T)
    BY DEF WithSource
  <2> HIDE DEF T, ms
  <2> QED BY <1>1, <2>1, ThoseLists
<1>4. list = [j \in DOMAIN ms |-> g[ms[j]]]
  <2>1. \A j \in DOMAIN ms : ms[j] \in W
    <3> HIDE DEF T, ms
    <3> QED BY <1>3, ListingIs
  <2>2. list = [j \in DOMAIN ms |-> <<o, ms[j].source>>]
    BY DEF SourceList
  <2> HIDE DEF list, ms
  <2> QED BY <2>1, <2>2
<1>5. \A x, y \in W \cap T : g[x] = g[y] => x = y
  BY <1>1
<1>6. Listing(list, {g[x] : x \in W \cap T})
  <2> HIDE DEF g, T, ms, list
  <2> QED BY <1>3, <1>4, <1>5, ImageLists
<1>7. {g[x] : x \in W \cap T} = Pairs(o, K)
  BY <1>1, <1>2 DEF Pairs
<1> QED BY <1>6, <1>7

LEMMA TargetsOnce ==
    ASSUME NEW fields, NEW K, NEW L, OneToOne(fields, K, L), NEW o
    PROVE  Listing(TargetList(o, fields), Pairs(o, L))
<1>1. PICK W : /\ Listing(fields, W)
               /\ \A x, y \in W : x.target = y.target /\ x.target # None => x = y
               /\ {x.target : x \in W} \ {None} = L
  BY DEF OneToOne
<1> DEFINE ms == WithTarget(fields)
           list == TargetList(o, fields)
           T == {m \in ToSet(fields) : m.target # None}
           g == [x \in W |-> <<o, x.target>>]
<1>2. ToSet(fields) = W
  BY <1>1, ListingIs
<1>3. Listing(ms, W \cap T)
  <2>1. ms = Those(fields, T)
    BY DEF WithTarget
  <2> HIDE DEF T, ms
  <2> QED BY <1>1, <2>1, ThoseLists
<1>4. list = [j \in DOMAIN ms |-> g[ms[j]]]
  <2>1. \A j \in DOMAIN ms : ms[j] \in W
    <3> HIDE DEF T, ms
    <3> QED BY <1>3, ListingIs
  <2>2. list = [j \in DOMAIN ms |-> <<o, ms[j].target>>]
    BY DEF TargetList
  <2> HIDE DEF list, ms
  <2> QED BY <2>1, <2>2
<1>5. \A x, y \in W \cap T : g[x] = g[y] => x = y
  BY <1>1
<1>6. Listing(list, {g[x] : x \in W \cap T})
  <2> HIDE DEF g, T, ms, list
  <2> QED BY <1>3, <1>4, <1>5, ImageLists
<1>7. {g[x] : x \in W \cap T} = Pairs(o, L)
  BY <1>1, <1>2 DEF Pairs
<1> QED BY <1>6, <1>7

\* The mapping of a key names it, on the sides that have it.
LEMMA FieldMappingIs ==
    ASSUME NEW source, NEW fields, Keyed(source.fields), Keyed(fields),
           NEW k \in BothKeys(source, fields)
    PROVE  LET m == FieldMapping(source, fields, k) IN
           /\ k # None
           /\ m.source = IF k \in FieldKeys(source.fields) THEN k ELSE None
           /\ m.target = IF k \in FieldKeys(fields) THEN k ELSE None
           /\ m.status = IF k \in FieldKeys(fields)
                         THEN TargetStatus(source, ByKey(fields, k)) ELSE "dropped"
<1>1. None \notin FieldKeys(fields) /\ None \notin FieldKeys(source.fields)
  BY KeyedLists
<1> QED BY <1>1 DEF FieldMapping, Mapping, BothKeys, HasField

LEMMA MapFieldsOneToOne ==
    ASSUME NEW source, NEW fields, Keyed(source.fields), Keyed(fields)
    PROVE  OneToOne(map_fields(source, fields), FieldKeys(source.fields), FieldKeys(fields))
<1> DEFINE W == FieldMappings(source, fields)
           B == BothKeys(source, fields)
           KS == FieldKeys(source.fields)
           KT == FieldKeys(fields)
           fm == [k \in B |-> FieldMapping(source, fields, k)]
<1>1. \A k \in B : /\ k # None
                   /\ fm[k].source = IF k \in KS THEN k ELSE None
                   /\ fm[k].target = IF k \in KT THEN k ELSE None
  <2> TAKE k \in B
  <2> QED BY FieldMappingIs
<1>2. W = {fm[k] : k \in B}
  BY DEF FieldMappings
<1>3. B = KT \cup KS
  BY DEF BothKeys
<1>4. Listing(map_fields(source, fields), W)
  BY MapFieldsLists
<1> HIDE DEF W, B, KS, KT, fm
<1>5. /\ \A x, y \in W : x.source = y.source /\ x.source # None => x = y
      /\ \A x, y \in W : x.target = y.target /\ x.target # None => x = y
  BY <1>1, <1>2
<1>6. {x.source : x \in W} \ {None} = KS /\ {x.target : x \in W} \ {None} = KT
  BY <1>1, <1>2, <1>3
<1>7. OneToOne(map_fields(source, fields), KS, KT)
  BY <1>4, <1>5, <1>6 DEF OneToOne
<1> QED BY <1>7 DEF KS, KT

\* The fields of an object without a counterpart
LEMMA AloneOneToOne ==
    ASSUME NEW fields, Keyed(fields)
    PROVE  /\ OneToOne([i \in DOMAIN fields |-> Mapping(None, fields[i].key, "added_in_target")],
                       {}, FieldKeys(fields))
           /\ OneToOne([i \in DOMAIN fields |-> Mapping(fields[i].key, None, "dropped")],
                       FieldKeys(fields), {})
<1> DEFINE K == FieldKeys(fields)
           keys == [i \in DOMAIN fields |-> fields[i].key]
           added == [k \in K |-> Mapping(None, k, "added_in_target")]
           gone == [k \in K |-> Mapping(k, None, "dropped")]
           as == [i \in DOMAIN fields |-> Mapping(None, fields[i].key, "added_in_target")]
           gs == [i \in DOMAIN fields |-> Mapping(fields[i].key, None, "dropped")]
<1>1. Listing(keys, K) /\ None \notin K /\ \A i \in DOMAIN fields : keys[i] \in K
  <2>1. Listing(keys, K) /\ None \notin K
    BY KeyedLists
  <2> QED BY <2>1 DEF FieldKeys
<1>2. as = [i \in DOMAIN keys |-> added[keys[i]]] /\ gs = [i \in DOMAIN keys |-> gone[keys[i]]]
  BY <1>1
<1>3. \A k \in K : /\ added[k].source = None /\ added[k].target = k
                   /\ gone[k].source = k /\ gone[k].target = None
  BY DEF Mapping
<1> HIDE DEF keys, added, gone, K, as, gs
<1>4. OneToOne(as, {}, K)
  <2> DEFINE W == {added[k] : k \in K}
  <2>1. Listing(as, W)
    BY <1>1, <1>2, <1>3, ImageLists
  <2>2. /\ \A x, y \in W : x.source = y.source /\ x.source # None => x = y
        /\ \A x, y \in W : x.target = y.target /\ x.target # None => x = y
        /\ {x.source : x \in W} \ {None} = {}
        /\ {x.target : x \in W} \ {None} = K
    BY <1>1, <1>3
  <2> HIDE DEF W
  <2> QED BY <2>1, <2>2 DEF OneToOne
<1>5. OneToOne(gs, K, {})
  <2> DEFINE W == {gone[k] : k \in K}
  <2>1. Listing(gs, W)
    BY <1>1, <1>2, <1>3, ImageLists
  <2>2. /\ \A x, y \in W : x.source = y.source /\ x.source # None => x = y
        /\ \A x, y \in W : x.target = y.target /\ x.target # None => x = y
        /\ {x.source : x \in W} \ {None} = K
        /\ {x.target : x \in W} \ {None} = {}
    BY <1>1, <1>3
  <2> HIDE DEF W
  <2> QED BY <2>1, <2>2 DEF OneToOne
<1> QED BY <1>4, <1>5 DEF as, gs, K

\* What stands in the way for the fields of one object
FieldObstacles(o, before, after) ==
    {Conflict("dropped", o, f) : f \in FieldKeys(before.fields) \ FieldKeys(after.fields)}
    \cup {Conflict("missing_required", o, f) :
            f \in {g \in FieldKeys(after.fields) \ FieldKeys(before.fields) :
                      field(after, g).required}}
    \cup {Conflict("type_mismatch", o, f) :
            f \in {g \in FieldKeys(after.fields) \cap FieldKeys(before.fields) :
                      field(after, g).type # field(before, g).type}}

\* The conflicts map_fields appends are the obstacles, each once.
LEMMA FieldConflictsList ==
    ASSUME NEW before, NEW after, Keyed(before.fields), Keyed(after.fields), NEW o
    PROVE  Listing(FieldConflicts(o, map_fields(before, after.fields)),
                   FieldObstacles(o, before, after))
<1> DEFINE ms == map_fields(before, after.fields)
           W == FieldMappings(before, after.fields)
           B == BothKeys(before, after.fields)
           KS == FieldKeys(before.fields)
           KT == FieldKeys(after.fields)
           fm == [k \in B |-> FieldMapping(before, after.fields, k)]
           T == {m \in ToSet(ms) : m.status \notin {"mapped", "added_in_target"}}
           bad == Those(ms, T)
           g == [m \in W |-> Conflict(m.status, o, IF m.target # None THEN m.target ELSE m.source)]
           X == {k \in B : fm[k].status \notin {"mapped", "added_in_target"}}
<1>1. Listing(ms, W)
  BY MapFieldsLists
<1>2. ToSet(ms) = W
  <2> HIDE DEF ms, W
  <2> QED BY <1>1, ListingIs
<1>3. \A k \in B : /\ k # None
                   /\ fm[k].source = IF k \in KS THEN k ELSE None
                   /\ fm[k].target = IF k \in KT THEN k ELSE None
                   /\ fm[k].status = IF k \in KT THEN TargetStatus(before, ByKey(after.fields, k))
                                     ELSE "dropped"
  <2> TAKE k \in B
  <2>1. Keyed(before.fields) /\ Keyed(after.fields)
    OBVIOUS
  <2> QED BY <2>1, FieldMappingIs
<1>4. W = {fm[k] : k \in B} /\ B = KT \cup KS
  BY DEF FieldMappings, BothKeys
<1>5. \A k \in B : fm[k] \in W /\ g[fm[k]] = Conflict(fm[k].status, o, k)
  <2> TAKE k \in B
  <2>1. fm[k] \in W
    BY <1>4
  <2>2. (IF fm[k].target # None THEN fm[k].target ELSE fm[k].source) = k
    <3> HIDE DEF fm, B, KS, KT
    <3> QED BY <1>3, <1>4
  <2> QED BY <2>1, <2>2
<1>6. Listing(bad, W \cap T)
  <2> HIDE DEF ms, W, T
  <2> QED BY <1>1, ThoseLists
<1>7. FieldConflicts(o, ms) = [i \in DOMAIN bad |-> g[bad[i]]]
  <2>1. \A i \in DOMAIN bad : bad[i] \in W
    <3> HIDE DEF bad, W, T
    <3> QED BY <1>6, ListingIs
  <2>2. FieldConflicts(o, ms) =
          [i \in DOMAIN bad |->
              Conflict(bad[i].status, o,
                       IF bad[i].target # None THEN bad[i].target ELSE bad[i].source)]
    BY DEF FieldConflicts
  <2> HIDE DEF bad, W, ms
  <2> QED BY <2>1, <2>2
<1>8. \A x, y \in W \cap T : g[x] = g[y] => x = y
  <2> TAKE x \in W \cap T, y \in W \cap T
  <2>1. PICK j \in B : x = fm[j]
    BY <1>4
  <2>2. PICK k \in B : y = fm[k]
    BY <1>4
  <2> HIDE DEF g, fm, B, W, T
  <2>3. g[x] = Conflict(fm[j].status, o, j) /\ g[y] = Conflict(fm[k].status, o, k)
    BY <1>5, <2>1, <2>2
  <2>4. g[x] = g[y] => j = k
    BY <2>3 DEF Conflict
  <2> QED BY <2>1, <2>2, <2>4
<1>9. Listing(FieldConflicts(o, ms), {g[x] : x \in W \cap T})
  <2> HIDE DEF bad, g, W, T, ms
  <2> QED BY <1>6, <1>7, <1>8, ImageLists
<1>10. {g[x] : x \in W \cap T} = {Conflict(fm[k].status, o, k) : k \in X}
  <2>1. \A k \in B : fm[k] \in T <=> k \in X
    BY <1>2, <1>5
  <2> HIDE DEF g, fm, B, W, T
  <2>2. \A x \in W \cap T : \E k \in X : x = fm[k]
    BY <1>4, <2>1
  <2>3. \A k \in X : fm[k] \in W \cap T
    BY <1>5, <2>1
  <2> QED BY <1>5, <2>2, <2>3
<1>11. {Conflict(fm[k].status, o, k) : k \in X} = FieldObstacles(o, before, after)
  <2>1. \A k \in KT : field(after, k) = ByKey(after.fields, k) /\ ByKey(after.fields, k).key = k
    <3> TAKE k \in KT
    <3>1. field(after, k) = ByKey(after.fields, k)
      BY FieldIs
    <3>2. k \in Keys(after.fields)
      BY KeyedLists
    <3> QED BY <3>1, <3>2, KeyNames
  <2> DEFINE Status(k) == TargetStatus(before, ByKey(after.fields, k))
  <2>2. \A k \in KT : /\ k \in KS /\ field(after, k).type = field(before, k).type => Status(k) = "mapped"
                      /\ k \in KS /\ field(after, k).type # field(before, k).type
                            => Status(k) = "type_mismatch"
                      /\ k \notin KS /\ field(after, k).required => Status(k) = "missing_required"
                      /\ k \notin KS /\ ~field(after, k).required => Status(k) = "added_in_target"
    BY <2>1 DEF TargetStatus, HasField
  <2> DEFINE Case1 == KS \ KT
             Case2 == {k \in KT \ KS : field(after, k).required}
             Case3 == {k \in KT \cap KS : field(after, k).type # field(before, k).type}
  <2>3. /\ \A k \in Case1 : k \in B /\ fm[k].status = "dropped"
        /\ \A k \in Case2 : k \in B /\ fm[k].status = "missing_required"
        /\ \A k \in Case3 : k \in B /\ fm[k].status = "type_mismatch"
    <3> HIDE DEF fm, KS, KT, B, Status
    <3>1. \A k \in B : fm[k].status = IF k \in KT THEN Status(k) ELSE "dropped"
      BY <1>3 DEF Status
    <3> QED BY <1>4, <2>2, <3>1
  <2>4. \A k \in X : k \in Case1 \/ k \in Case2 \/ k \in Case3
    <3> HIDE DEF fm, KS, KT, B, Status
    <3>1. \A k \in B : fm[k].status = IF k \in KT THEN Status(k) ELSE "dropped"
      BY <1>3 DEF Status
    <3> QED BY <1>4, <2>2, <3>1
  <2>5. X = Case1 \cup Case2 \cup Case3
    <3> HIDE DEF fm, B, Case1, Case2, Case3
    <3> QED BY <2>3, <2>4
  <2>6. FieldObstacles(o, before, after) =
          {Conflict("dropped", o, k) : k \in Case1}
          \cup {Conflict("missing_required", o, k) : k \in Case2}
          \cup {Conflict("type_mismatch", o, k) : k \in Case3}
    BY DEF FieldObstacles
  <2> HIDE DEF fm, X, Case1, Case2, Case3
  <2> QED BY <2>3, <2>5, <2>6
<1>12. Listing(FieldConflicts(o, ms), FieldObstacles(o, before, after))
  <2> HIDE DEF ms, g, W, T, fm, X
  <2> QED BY <1>9, <1>10, <1>11
<1> QED BY <1>12
-----------------------------------------------------------------------------
(* The mappings of objects *)

SideFields(objects, k) == IF k = None THEN {} ELSE FieldKeys(ByKey(objects, k).fields)

\* One mapping of a plan: its sides are matched by key.
MappingFits(m, old, counts, target) ==
    /\ m.source # None => /\ m.source \in Keys(old) /\ m.records = CountOf(counts, m.source)
                          /\ m.target # None <=> m.source \in Keys(target)
    /\ m.target # None => /\ m.target \in Keys(target)
                          /\ m.source # None <=> m.target \in Keys(old)
    /\ m.source # None /\ m.target # None => m.source = m.target
    /\ m.source # None \/ m.target # None
    /\ OneToOne(m.fields, SideFields(old, m.source), SideFields(target, m.target))

\* The mappings of a plan: each object of either side is in one.
MappingsFit(ms, old, counts, target) ==
    /\ Len(ms) \in Nat /\ ms = [i \in 1..Len(ms) |-> ms[i]]
    /\ \A i \in 1..Len(ms) : MappingFits(ms[i], old, counts, target)
    /\ \A i, j \in 1..Len(ms) : ms[i].source = ms[j].source /\ ms[i].source # None => i = j
    /\ \A i, j \in 1..Len(ms) : ms[i].target = ms[j].target /\ ms[i].target # None => i = j
    /\ \A k \in Keys(old) : \E i \in 1..Len(ms) : ms[i].source = k
    /\ \A k \in Keys(target) : \E i \in 1..Len(ms) : ms[i].target = k

\* What an object of a system is
LEMMA ObjectIs ==
    ASSUME NEW objects, Formed(objects), NEW k \in Keys(objects)
    PROVE  /\ k # None /\ ByKey(objects, k).key = k /\ Keyed(ByKey(objects, k).fields)
           /\ SideFields(objects, k) = FieldKeys(ByKey(objects, k).fields)
<1>1. Keyed(objects) /\ \A i \in 1..Len(objects) : Keyed(objects[i].fields)
  BY DEF Formed
<1>2. PICK i \in 1..Len(objects) : k = objects[i].key /\ ByKey(objects, k) = objects[i]
  BY <1>1, KeyNames
<1>3. k # None
  BY <1>1, KeyedLists
<1> QED BY <1>1, <1>2, <1>3 DEF SideFields

\* The objects the target does not have, each once
LEMMA UnmappedLists ==
    ASSUME NEW old, NEW target, Formed(old)
    PROVE  /\ Listing(Unmapped(old, target), {o \in ToSet(old) : o.key \notin Keys(target)})
           /\ {o.key : o \in {o \in ToSet(old) : o.key \notin Keys(target)}}
                 = Keys(old) \ Keys(target)
           /\ \A o \in ToSet(old) : /\ o.key \in Keys(old) /\ o.key # None
                                    /\ ByKey(old, o.key) = o /\ Keyed(o.fields)
<1> DEFINE T == {o \in ToSet(old) : o.key \notin Keys(target)}
<1>1. Keyed(old) /\ \A i \in 1..Len(old) : Keyed(old[i].fields)
  BY DEF Formed
<1>2. /\ DOMAIN old = 1..Len(old) /\ Listing(old, ToSet(old)) /\ None \notin Keys(old)
      /\ Keys(old) = {old[i].key : i \in 1..Len(old)}
      /\ \A i \in 1..Len(old) : ByKey(old, old[i].key) = old[i]
  BY <1>1, KeyedLists
<1>3. Listing(Those(old, T), ToSet(old) \cap T)
  <2> HIDE DEF T
  <2> QED BY <1>2, ThoseLists
<1>4. ToSet(old) \cap T = T
  OBVIOUS
<1>5. ToSet(old) = {old[i] : i \in 1..Len(old)}
  BY <1>2 DEF ToSet
<1>6. \A o \in ToSet(old) : /\ o.key \in Keys(old) /\ o.key # None
                            /\ ByKey(old, o.key) = o /\ Keyed(o.fields)
  BY <1>1, <1>2, <1>5
<1>7. {o.key : o \in T} = Keys(old) \ Keys(target)
  <2>1. \A o \in T : o.key \in Keys(old) \ Keys(target)
    BY <1>6
  <2>2. \A k \in Keys(old) \ Keys(target) : \E o \in T : k = o.key
    BY <1>2, <1>5
  <2> HIDE DEF T
  <2> QED BY <2>1, <2>2
<1>8. Listing(Unmapped(old, target), T)
  BY <1>3, <1>4 DEF Unmapped
<1> QED BY <1>6, <1>7, <1>8

LEMMA TargetMappingFits ==
    ASSUME NEW old, NEW counts, NEW target, Formed(old), Formed(target),
           NEW t \in ToSet(target)
    PROVE  LET m == TargetMapping(old, counts, t) IN
           /\ MappingFits(m, old, counts, target)
           /\ m.target = t.key
           /\ m.source = IF t.key \in Keys(old) THEN t.key ELSE None
<1> DEFINE k == t.key
           m == TargetMapping(old, counts, t)
<1>1. k \in Keys(target) /\ ByKey(target, k) = t /\ k # None /\ Keyed(t.fields)
  BY UnmappedLists
<1>2. SideFields(target, k) = FieldKeys(t.fields)
  BY <1>1 DEF SideFields
<1>3. CASE k \in Keys(old)
  <2>1. /\ ByKey(old, k).key = k /\ Keyed(ByKey(old, k).fields)
        /\ SideFields(old, k) = FieldKeys(ByKey(old, k).fields)
    BY <1>3, ObjectIs
  <2>2. m = [source |-> k, target |-> k, records |-> CountOf(counts, k),
             fields |-> map_fields(ByKey(old, k), t.fields)]
    BY <1>3 DEF TargetMapping
  <2>3. OneToOne(map_fields(ByKey(old, k), t.fields),
                 FieldKeys(ByKey(old, k).fields), FieldKeys(t.fields))
    BY <1>1, <2>1, MapFieldsOneToOne
  <2>4. m.source = k /\ m.target = k /\ m.records = CountOf(counts, k)
        /\ m.fields = map_fields(ByKey(old, k), t.fields)
    BY <2>2
  <2> HIDE DEF m, k
  <2>5. MappingFits(m, old, counts, target)
    BY <1>1, <1>2, <1>3, <2>1, <2>3, <2>4 DEF MappingFits
  <2> QED BY <1>3, <2>4, <2>5 DEF m, k
<1>4. CASE k \notin Keys(old)
  <2> DEFINE fs == [j \in DOMAIN t.fields |->
                       Mapping(None, t.fields[j].key, "added_in_target")]
  <2>1. OneToOne(fs, {}, FieldKeys(t.fields))
    BY <1>1, AloneOneToOne
  <2>2. m = [source |-> None, target |-> k, records |-> 0, fields |-> fs]
    BY <1>4 DEF TargetMapping
  <2>3. SideFields(old, None) = {}
    BY DEF SideFields
  <2>4. m.source = None /\ m.target = k /\ m.fields = fs
    BY <2>2
  <2> HIDE DEF m, k, fs
  <2>5. MappingFits(m, old, counts, target)
    BY <1>1, <1>2, <1>4, <2>1, <2>3, <2>4 DEF MappingFits
  <2> QED BY <1>4, <2>4, <2>5 DEF m, k
<1> QED BY <1>3, <1>4

LEMMA SourceMappingFits ==
    ASSUME NEW old, NEW counts, NEW target, Formed(old), Formed(target),
           NEW o \in ToSet(old), o.key \notin Keys(target)
    PROVE  LET m == SourceMapping(counts, o) IN
           /\ MappingFits(m, old, counts, target)
           /\ m.source = o.key /\ m.target = None
<1> DEFINE m == SourceMapping(counts, o)
           fs == [j \in DOMAIN o.fields |-> Mapping(o.fields[j].key, None, "dropped")]
<1>1. o.key \in Keys(old) /\ o.key # None /\ ByKey(old, o.key) = o /\ Keyed(o.fields)
  BY UnmappedLists
<1>2. OneToOne(fs, FieldKeys(o.fields), {})
  BY <1>1, AloneOneToOne
<1>3. m.source = o.key /\ m.target = None /\ m.records = CountOf(counts, o.key)
      /\ m.fields = fs
  BY DEF SourceMapping
<1>4. SideFields(old, o.key) = FieldKeys(o.fields) /\ SideFields(target, None) = {}
  BY <1>1 DEF SideFields
<1> HIDE DEF m, fs
<1>5. MappingFits(m, old, counts, target)
  BY <1>1, <1>2, <1>3, <1>4 DEF MappingFits
<1> QED BY <1>3, <1>5 DEF m

LEMMA ObjectMappingsFit ==
    ASSUME NEW old, NEW counts, NEW target, Formed(old), Formed(target)
    PROVE  MappingsFit(ObjectMappings(old, counts, target), old, counts, target)
<1> DEFINE un == Unmapped(old, target)
           U == {o \in ToSet(old) : o.key \notin Keys(target)}
           n == Len(target)
           u == Len(un)
           first == [i \in DOMAIN target |-> TargetMapping(old, counts, target[i])]
           second == [i \in DOMAIN un |-> SourceMapping(counts, un[i])]
           ms == first \o second
<1>1. Keyed(target) /\ Keyed(old)
  BY DEF Formed
<1>2. /\ n \in Nat /\ DOMAIN target = 1..n
      /\ Keys(target) = {target[i].key : i \in 1..n} /\ None \notin Keys(target)
      /\ \A i, j \in 1..n : target[i].key = target[j].key => i = j
  BY <1>1, KeyedLists DEF Keyed
<1>3. /\ Listing(un, U) /\ {o.key : o \in U} = Keys(old) \ Keys(target)
      /\ \A o \in ToSet(old) : /\ o.key \in Keys(old) /\ o.key # None
                               /\ ByKey(old, o.key) = o
  BY UnmappedLists
<1>4. u \in Nat /\ DOMAIN un = 1..u /\ \A i \in 1..u : un[i] \in U
  <2> HIDE DEF un, U
  <2> QED BY <1>3, ListingIs DEF u
<1>5. \A i, j \in 1..u : un[i].key = un[j].key => i = j
  <2> TAKE i \in 1..u, j \in 1..u
  <2>1. un[i] = un[j] => i = j
    BY <1>3 DEF Listing
  <2>2. ByKey(old, un[i].key) = un[i] /\ ByKey(old, un[j].key) = un[j]
    BY <1>3, <1>4
  <2> HIDE DEF un
  <2> QED BY <2>1, <2>2
<1>6. \A k \in Keys(old) \ Keys(target) : \E i \in 1..u : un[i].key = k
  <2> TAKE k \in Keys(old) \ Keys(target)
  <2>1. PICK o \in U : k = o.key
    BY <1>3
  <2>2. PICK i \in 1..u : un[i] = o
    BY <1>3 DEF Listing
  <2> QED BY <2>1, <2>2
<1>7. \A i \in 1..n : /\ MappingFits(first[i], old, counts, target)
                      /\ first[i].target = target[i].key /\ target[i].key # None
                      /\ first[i].source = IF target[i].key \in Keys(old) THEN target[i].key
                                           ELSE None
  <2> TAKE i \in 1..n
  <2>1. first[i] = TargetMapping(old, counts, target[i])
    BY <1>2
  <2>2. target[i].key # None
    BY <1>2
  <2>3. target[i] \in ToSet(target)
    BY <1>2 DEF ToSet
  <2>4. /\ MappingFits(TargetMapping(old, counts, target[i]), old, counts, target)
        /\ TargetMapping(old, counts, target[i]).target = target[i].key
        /\ TargetMapping(old, counts, target[i]).source
             = IF target[i].key \in Keys(old) THEN target[i].key ELSE None
    BY <2>3, TargetMappingFits
  <2> HIDE DEF first
  <2> QED BY <2>1, <2>2, <2>4
<1>8. \A i \in 1..u : /\ MappingFits(second[i], old, counts, target)
                      /\ second[i].source = un[i].key /\ un[i].key # None
                      /\ second[i].target = None
  <2> TAKE i \in 1..u
  <2>1. second[i] = SourceMapping(counts, un[i]) /\ un[i] \in ToSet(old)
        /\ un[i].key \notin Keys(target)
    BY <1>4
  <2>2. un[i].key # None
    BY <1>3, <2>1
  <2> HIDE DEF second, un
  <2> QED BY <2>1, <2>2, SourceMappingFits
<1>9. /\ Len(ms) = n + u /\ ms = [i \in 1..(n + u) |-> ms[i]]
      /\ \A i \in 1..(n + u) : ms[i] = IF i <= n THEN first[i] ELSE second[i - n]
  <2> DEFINE S == {first[i] : i \in 1..n} \cup {second[i] : i \in 1..u}
  <2>1. /\ first = [i \in 1..n |-> first[i]] /\ \A i \in 1..n : first[i] \in S
        /\ second = [i \in 1..u |-> second[i]] /\ \A i \in 1..u : second[i] \in S
    BY <1>2, <1>4
  <2> HIDE DEF first, second, n, u, S
  <2>2. n \in Nat /\ u \in Nat
    BY <1>2, <1>4
  <2>4. first \in Seq(S) /\ Len(first) = n
    BY <2>1, <2>2
  <2>5. second \in Seq(S) /\ Len(second) = u
    BY <2>1, <2>2
  <2>3. /\ ms \in Seq(S) /\ Len(ms) = n + u
        /\ \A i \in 1..(n + u) : ms[i] = IF i <= n THEN first[i] ELSE second[i - n]
    BY <2>2, <2>4, <2>5
  <2> HIDE DEF ms
  <2> QED BY <2>3
<1>10. \A i \in 1..(n + u) : (i <= n => i \in 1..n) /\ (~(i <= n) => i - n \in 1..u)
  BY <1>2, <1>4
<1>11. /\ \A i \in 1..n : i \in 1..(n + u) /\ i <= n
       /\ \A i \in 1..u : n + i \in 1..(n + u) /\ ~(n + i <= n) /\ (n + i) - n = i
  BY <1>2, <1>4
<1>12. \A i \in 1..n : ms[i] = first[i]
  <2> HIDE DEF ms, first, second
  <2> QED BY <1>9, <1>11
<1>13. \A i \in 1..u : ms[n + i] = second[i]
  <2> HIDE DEF ms, first, second
  <2> QED BY <1>9, <1>11
<1> HIDE DEF ms, first, second, un, U, n, u
<1>14. \A i \in 1..(n + u) : MappingFits(ms[i], old, counts, target)
  BY <1>7, <1>8, <1>9, <1>10
<1>15. \A i, j \in 1..(n + u) : ms[i].target = ms[j].target /\ ms[i].target # None => i = j
  BY <1>2, <1>7, <1>8, <1>9, <1>10
<1>16. \A i, j \in 1..(n + u) : ms[i].source = ms[j].source /\ ms[i].source # None => i = j
  <2> TAKE i \in 1..(n + u), j \in 1..(n + u)
  <2> HAVE ms[i].source = ms[j].source /\ ms[i].source # None
  <2>1. CASE i <= n /\ j <= n
    BY <1>2, <1>7, <1>9, <1>10, <2>1
  <2>2. CASE ~(i <= n) /\ ~(j <= n)
    <3>1. i - n = j - n
      BY <1>5, <1>8, <1>9, <1>10, <2>2
    <3> QED BY <1>2, <3>1
  <2>3. ASSUME NEW a \in 1..(n + u), NEW b \in 1..(n + u), a <= n, ~(b <= n),
               ms[a].source = ms[b].source, ms[a].source # None
        PROVE  FALSE
    <3>1. ms[a].source = target[a].key /\ target[a].key \in Keys(target)
      BY <1>2, <1>7, <1>9, <1>10, <2>3
    <3>2. ms[b].source = un[b - n].key /\ b - n \in 1..u
      BY <1>8, <1>9, <1>10, <2>3
    <3>3. un[b - n].key \notin Keys(target)
      BY <1>4, <3>2 DEF U
    <3> QED BY <2>3, <3>1, <3>2, <3>3
  <2> QED BY <2>1, <2>2, <2>3
<1>17. \A k \in Keys(target) : \E i \in 1..(n + u) : ms[i].target = k
  BY <1>2, <1>7, <1>11, <1>12
<1>18. \A k \in Keys(old) : \E i \in 1..(n + u) : ms[i].source = k
  <2> TAKE k \in Keys(old)
  <2>1. CASE k \in Keys(target)
    BY <1>2, <1>7, <1>11, <1>12, <2>1
  <2>2. CASE k \notin Keys(target)
    <3>1. PICK i \in 1..u : un[i].key = k
      BY <1>6, <2>2
    <3>2. ms[n + i].source = k /\ n + i \in 1..(n + u)
      BY <1>8, <1>11, <1>13, <3>1
    <3> QED BY <3>2
  <2> QED BY <2>1, <2>2
<1>19. n + u \in Nat
  BY <1>2, <1>4
<1>20. MappingsFit(ms, old, counts, target)
  BY <1>9, <1>14, <1>15, <1>16, <1>17, <1>18, <1>19 DEF MappingsFit
<1>21. ms = ObjectMappings(old, counts, target)
  BY DEF ObjectMappings, ms, first, second, un
<1> QED BY <1>20, <1>21
\* The sources of the fields, mapping by mapping
SourcesListed(ms) ==
    [i \in DOMAIN ms |-> SourceList(ms[i].source, ms[i].fields)]

\* Each field of the old system is the source of one mapping.
LEMMA SourcesAccounted ==
    ASSUME NEW old, NEW counts, NEW target, Formed(old), Formed(target),
           NEW ms, MappingsFit(ms, old, counts, target)
    PROVE  Listing(FlattenSeq(SourcesListed(ms)), AllFields(old))
<1> DEFINE lists == SourcesListed(ms)
           n == Len(ms)
           E == [i \in 1..n |-> {<<ms[i].source, k>> : k \in SideFields(old, ms[i].source)}]
<1>1. /\ n \in Nat /\ DOMAIN ms = 1..n
      /\ \A i \in 1..n : MappingFits(ms[i], old, counts, target)
      /\ \A i, j \in 1..n : ms[i].source = ms[j].source /\ ms[i].source # None => i = j
      /\ \A k \in Keys(old) : \E i \in 1..n : ms[i].source = k
  <2>1. n \in Nat /\ ms = [i \in 1..n |-> ms[i]]
    BY DEF MappingsFit
  <2>2. DOMAIN ms = 1..n
    BY <2>1
  <2> QED BY <2>1, <2>2 DEF MappingsFit
<1>2. \A i \in 1..n : /\ OneToOne(ms[i].fields, SideFields(old, ms[i].source),
                                  SideFields(target, ms[i].target))
                      /\ ms[i].source # None => ms[i].source \in Keys(old)
  BY <1>1 DEF MappingFits
<1>3. lists = [i \in 1..n |-> lists[i]]
  BY <1>1 DEF SourcesListed
<1>4. \A i \in 1..n : Listing(lists[i], E[i])
  <2> TAKE i \in 1..n
  <2>1. OneToOne(ms[i].fields, SideFields(old, ms[i].source),
                 SideFields(target, ms[i].target))
    BY <1>2
  <2>2. Listing(SourceList(ms[i].source, ms[i].fields),
                Pairs(ms[i].source, SideFields(old, ms[i].source)))
    BY <2>1, SourcesOnce
  <2>3. lists[i] = SourceList(ms[i].source, ms[i].fields)
    BY <1>1 DEF SourcesListed
  <2>4. E[i] = Pairs(ms[i].source, SideFields(old, ms[i].source))
    BY DEF Pairs
  <2> QED BY <2>2, <2>3, <2>4
<1>5. \A i \in 1..n : ms[i].source = None => E[i] = {}
  BY DEF SideFields
<1>6. \A i \in 1..n : \A x \in E[i] : x[1] = ms[i].source
  OBVIOUS
<1>7. \A i, j \in 1..n : i # j => E[i] \cap E[j] = {}
  <2> HIDE DEF E
  <2> QED BY <1>1, <1>5, <1>6
<1>8. Listing(FlattenSeq(lists), UNION {E[i] : i \in 1..n})
  <2> HIDE DEF E, n, lists
  <2> QED BY <1>1, <1>3, <1>4, <1>7, FlattenLists
<1>9. UNION {E[i] : i \in 1..n} = AllFields(old)
  <2>1. /\ DOMAIN old = 1..Len(old) /\ None \notin Keys(old)
        /\ \A i \in 1..Len(old) : ByKey(old, old[i].key) = old[i]
        /\ Keys(old) = {old[i].key : i \in 1..Len(old)}
    BY KeyedLists DEF Formed
  <2> DEFINE Row(i) == {<<old[i].key, k>> : k \in FieldKeys(old[i].fields)}
             m == Len(old)
  <2>2. AllFields(old) = UNION {Row(i) : i \in 1..m}
    BY <2>1 DEF AllFields
  <2>3. \A l \in 1..m : \A i \in 1..n : ms[i].source = old[l].key => E[i] = Row(l)
    <3> TAKE l \in 1..m
    <3> TAKE i \in 1..n
    <3> HAVE ms[i].source = old[l].key
    <3>1. SideFields(old, ms[i].source) = FieldKeys(old[l].fields)
      BY <2>1 DEF SideFields
    <3> QED BY <3>1
  <2>4. \A l \in 1..m : \E i \in 1..n : ms[i].source = old[l].key
    BY <1>1, <2>1
  <2>5. \A i \in 1..n : E[i] # {} => \E l \in 1..m : ms[i].source = old[l].key
    <3> HIDE DEF E
    <3> QED BY <1>2, <1>5, <2>1
  <2> HIDE DEF E, Row, n, m
  <2>6. \A x \in UNION {E[i] : i \in 1..n} : x \in UNION {Row(l) : l \in 1..m}
    <3> TAKE x \in UNION {E[i] : i \in 1..n}
    <3>1. PICK i \in 1..n : x \in E[i]
      OBVIOUS
    <3>2. PICK l \in 1..m : ms[i].source = old[l].key
      BY <2>5, <3>1
    <3>3. x \in Row(l)
      BY <2>3, <3>1, <3>2
    <3> QED BY <3>3
  <2>7. \A x \in UNION {Row(l) : l \in 1..m} : x \in UNION {E[i] : i \in 1..n}
    <3> TAKE x \in UNION {Row(l) : l \in 1..m}
    <3>1. PICK l \in 1..m : x \in Row(l)
      OBVIOUS
    <3>2. PICK i \in 1..n : ms[i].source = old[l].key
      BY <2>4
    <3>3. x \in E[i]
      BY <2>3, <3>1, <3>2
    <3> QED BY <3>3
  <2> QED BY <2>2, <2>6, <2>7
<1> QED BY <1>8, <1>9

\* The targets of the fields, mapping by mapping
TargetsListed(ms) ==
    [i \in DOMAIN ms |-> TargetList(ms[i].target, ms[i].fields)]

\* Each field of the template is the target of one mapping.
LEMMA TargetsAccounted ==
    ASSUME NEW old, NEW counts, NEW target, Formed(old), Formed(target),
           NEW ms, MappingsFit(ms, old, counts, target)
    PROVE  Listing(FlattenSeq(TargetsListed(ms)), AllFields(target))
<1> DEFINE lists == TargetsListed(ms)
           n == Len(ms)
           E == [i \in 1..n |-> {<<ms[i].target, k>> : k \in SideFields(target, ms[i].target)}]
<1>1. /\ n \in Nat /\ DOMAIN ms = 1..n
      /\ \A i \in 1..n : MappingFits(ms[i], old, counts, target)
      /\ \A i, j \in 1..n : ms[i].target = ms[j].target /\ ms[i].target # None => i = j
      /\ \A k \in Keys(target) : \E i \in 1..n : ms[i].target = k
  <2>1. n \in Nat /\ ms = [i \in 1..n |-> ms[i]]
    BY DEF MappingsFit
  <2>2. DOMAIN ms = 1..n
    BY <2>1
  <2> QED BY <2>1, <2>2 DEF MappingsFit
<1>2. \A i \in 1..n : /\ OneToOne(ms[i].fields, SideFields(old, ms[i].source),
                                  SideFields(target, ms[i].target))
                      /\ ms[i].target # None => ms[i].target \in Keys(target)
  BY <1>1 DEF MappingFits
<1>3. lists = [i \in 1..n |-> lists[i]]
  BY <1>1 DEF TargetsListed
<1>4. \A i \in 1..n : Listing(lists[i], E[i])
  <2> TAKE i \in 1..n
  <2>1. OneToOne(ms[i].fields, SideFields(old, ms[i].source),
                 SideFields(target, ms[i].target))
    BY <1>2
  <2>2. Listing(TargetList(ms[i].target, ms[i].fields),
                Pairs(ms[i].target, SideFields(target, ms[i].target)))
    BY <2>1, TargetsOnce
  <2>3. lists[i] = TargetList(ms[i].target, ms[i].fields)
    BY <1>1 DEF TargetsListed
  <2>4. E[i] = Pairs(ms[i].target, SideFields(target, ms[i].target))
    BY DEF Pairs
  <2> QED BY <2>2, <2>3, <2>4
<1>5. \A i \in 1..n : ms[i].target = None => E[i] = {}
  BY DEF SideFields
<1>6. \A i \in 1..n : \A x \in E[i] : x[1] = ms[i].target
  OBVIOUS
<1>7. \A i, j \in 1..n : i # j => E[i] \cap E[j] = {}
  <2> HIDE DEF E
  <2> QED BY <1>1, <1>5, <1>6
<1>8. Listing(FlattenSeq(lists), UNION {E[i] : i \in 1..n})
  <2> HIDE DEF E, n, lists
  <2> QED BY <1>1, <1>3, <1>4, <1>7, FlattenLists
<1>9. UNION {E[i] : i \in 1..n} = AllFields(target)
  <2>1. /\ DOMAIN target = 1..Len(target) /\ None \notin Keys(target)
        /\ \A i \in 1..Len(target) : ByKey(target, target[i].key) = target[i]
        /\ Keys(target) = {target[i].key : i \in 1..Len(target)}
    BY KeyedLists DEF Formed
  <2> DEFINE Row(i) == {<<target[i].key, k>> : k \in FieldKeys(target[i].fields)}
             m == Len(target)
  <2>2. AllFields(target) = UNION {Row(i) : i \in 1..m}
    BY <2>1 DEF AllFields
  <2>3. \A l \in 1..m : \A i \in 1..n : ms[i].target = target[l].key => E[i] = Row(l)
    <3> TAKE l \in 1..m
    <3> TAKE i \in 1..n
    <3> HAVE ms[i].target = target[l].key
    <3>1. SideFields(target, ms[i].target) = FieldKeys(target[l].fields)
      BY <2>1 DEF SideFields
    <3> QED BY <3>1
  <2>4. \A l \in 1..m : \E i \in 1..n : ms[i].target = target[l].key
    BY <1>1, <2>1
  <2>5. \A i \in 1..n : E[i] # {} => \E l \in 1..m : ms[i].target = target[l].key
    <3> HIDE DEF E
    <3> QED BY <1>2, <1>5, <2>1
  <2> HIDE DEF E, Row, n, m
  <2>6. \A x \in UNION {E[i] : i \in 1..n} : x \in UNION {Row(l) : l \in 1..m}
    <3> TAKE x \in UNION {E[i] : i \in 1..n}
    <3>1. PICK i \in 1..n : x \in E[i]
      OBVIOUS
    <3>2. PICK l \in 1..m : ms[i].target = target[l].key
      BY <2>5, <3>1
    <3>3. x \in Row(l)
      BY <2>3, <3>1, <3>2
    <3> QED BY <3>3
  <2>7. \A x \in UNION {Row(l) : l \in 1..m} : x \in UNION {E[i] : i \in 1..n}
    <3> TAKE x \in UNION {Row(l) : l \in 1..m}
    <3>1. PICK l \in 1..m : x \in Row(l)
      OBVIOUS
    <3>2. PICK i \in 1..n : ms[i].target = target[l].key
      BY <2>4
    <3>3. x \in E[i]
      BY <2>3, <3>1, <3>2
    <3> QED BY <3>3
  <2> QED BY <2>2, <2>6, <2>7
<1> QED BY <1>8, <1>9

LEMMA ListsExactlyOnce ==
    ASSUME NEW S, NEW seq, Listing(seq, S)
    PROVE  ExactlyOnce(seq, S)
BY ListingIs DEF ExactlyOnce

\* The conflicts of a plan are the obstacles, each once.
LEMMA PlanConflictsList ==
    ASSUME NEW old, NEW target, Formed(old), Formed(target)
    PROVE  Listing(PlanConflicts(old, target), Obstacles(old, target))
<1> DEFINE n == Len(target)
           Of(i) == IF target[i].key \in Keys(old)
                    THEN FieldConflicts(target[i].key,
                                        map_fields(ByKey(old, target[i].key), target[i].fields))
                    ELSE <<>>
           lists == [i \in DOMAIN target |-> Of(i)]
           Theirs(i) == IF target[i].key \in Keys(old)
                        THEN FieldObstacles(target[i].key, ByKey(old, target[i].key), target[i])
                        ELSE {}
           E == [i \in 1..n |-> Theirs(i)]
           un == Unmapped(old, target)
           U == {o \in ToSet(old) : o.key \notin Keys(target)}
           g == [o \in U |-> Conflict("unmapped_object", o.key, None)]
           second == [i \in DOMAIN un |-> Conflict("unmapped_object", un[i].key, None)]
           Alone == {Conflict("unmapped_object", k, None) : k \in Keys(old) \ Keys(target)}
           Of2(k) == FieldObstacles(k, ByKey(old, k), ByKey(target, k))
           Matches == UNION {Of2(k) : k \in Keys(old) \cap Keys(target)}
<1>1. /\ n \in Nat /\ DOMAIN target = 1..n /\ None \notin Keys(target)
      /\ \A i \in 1..n : ByKey(target, target[i].key) = target[i]
      /\ Keys(target) = {target[i].key : i \in 1..n}
      /\ \A i, j \in 1..n : target[i].key = target[j].key => i = j
      /\ \A i \in 1..n : Keyed(target[i].fields)
  BY KeyedLists DEF Formed, Keyed
<1>2. lists = [i \in 1..n |-> lists[i]] /\ \A i \in 1..n : lists[i] = Of(i)
  BY <1>1
<1>3. \A i \in 1..n : Listing(lists[i], E[i])
  <2> TAKE i \in 1..n
  <2> DEFINE k == target[i].key
             before == ByKey(old, k)
  <2>1. lists[i] = Of(i) /\ E[i] = Theirs(i)
    BY <1>2
  <2>2. CASE k \in Keys(old)
    <3>1. Keyed(before.fields) /\ Keyed(target[i].fields)
      BY <1>1, <2>2, ObjectIs
    <3>2. Listing(FieldConflicts(k, map_fields(before, target[i].fields)),
                  FieldObstacles(k, before, target[i]))
      <4> HIDE DEF k, before
      <4> QED BY <3>1, FieldConflictsList
    <3> QED BY <2>1, <2>2, <3>2
  <2>3. CASE k \notin Keys(old)
    BY <2>1, <2>3, EmptyLists
  <2> QED BY <2>2, <2>3
<1>4. \A k, b, a : \A x \in FieldObstacles(k, b, a) : x.object = k /\ x.kind # "unmapped_object"
  BY DEF FieldObstacles, Conflict
<1>5. \A i \in 1..n : \A x \in E[i] : x.object = target[i].key /\ x.kind # "unmapped_object"
  <2> TAKE i \in 1..n
  <2>1. E[i] = Theirs(i)
    OBVIOUS
  <2> HIDE DEF E
  <2> QED BY <1>4, <2>1
<1>6. \A i, j \in 1..n : i # j => E[i] \cap E[j] = {}
  <2> HIDE DEF E
  <2> QED BY <1>1, <1>5
<1>7. Listing(FlattenSeq(lists), UNION {E[i] : i \in 1..n})
  <2>1. n \in Nat /\ lists = [i \in 1..n |-> lists[i]]
    <3>1. n \in Nat /\ DOMAIN lists = 1..n
      BY <1>1, <1>2
    <3> HIDE DEF n, lists
    <3> QED BY <1>2, <3>1
  <2> HIDE DEF E, n, lists
  <2> QED BY <1>3, <1>6, <2>1, FlattenLists
<1>8. /\ Listing(un, U) /\ {o.key : o \in U} = Keys(old) \ Keys(target)
      /\ \A o \in ToSet(old) : ByKey(old, o.key) = o
  BY UnmappedLists
<1>9. Listing(second, {g[o] : o \in U})
  <2>1. \A i \in DOMAIN un : un[i] \in U
    <3> HIDE DEF un, U
    <3> QED BY <1>8, ListingIs
  <2>2. second = [i \in DOMAIN un |-> g[un[i]]]
    <3> HIDE DEF un
    <3> QED BY <2>1
  <2>3. \A x, y \in U : g[x] = g[y] => x = y
    <3> TAKE x \in U, y \in U
    <3> HAVE g[x] = g[y]
    <3>1. x.key = y.key
      BY DEF Conflict
    <3> QED BY <1>8, <3>1
  <2> HIDE DEF un, U, g, second
  <2> QED BY <1>8, <2>2, <2>3, ImageLists
<1>10. {g[o] : o \in U} = Alone
  <2>1. \A o \in U : o.key \in Keys(old) \ Keys(target)
                     /\ g[o] = Conflict("unmapped_object", o.key, None)
    BY <1>8
  <2>2. \A k \in Keys(old) \ Keys(target) : \E o \in U : k = o.key
    BY <1>8
  <2> HIDE DEF g, U
  <2> QED BY <2>1, <2>2
<1>11. UNION {E[i] : i \in 1..n} = Matches
  <2>1. \A i \in 1..n : target[i].key \in Keys(old) => E[i] = Of2(target[i].key)
    BY <1>1
  <2>2. \A i \in 1..n : target[i].key \notin Keys(old) => E[i] = {}
    OBVIOUS
  <2> HIDE DEF E, Of2, n
  <2>3. \A x \in UNION {E[i] : i \in 1..n} : x \in Matches
    <3> TAKE x \in UNION {E[i] : i \in 1..n}
    <3>1. PICK i \in 1..n : x \in E[i]
      OBVIOUS
    <3>2. target[i].key \in Keys(old) \cap Keys(target) /\ x \in Of2(target[i].key)
      BY <1>1, <2>1, <2>2, <3>1
    <3> QED BY <3>2
  <2>4. \A x \in Matches : x \in UNION {E[i] : i \in 1..n}
    <3> TAKE x \in Matches
    <3>1. PICK k \in Keys(old) \cap Keys(target) : x \in Of2(k)
      OBVIOUS
    <3>2. PICK i \in 1..n : target[i].key = k
      BY <1>1
    <3>3. x \in E[i]
      BY <2>1, <3>1, <3>2
    <3> QED BY <3>3
  <2> QED BY <2>3, <2>4
<1>12. Alone \cap Matches = {}
  <2>1. \A x \in Alone : x.kind = "unmapped_object"
    BY DEF Conflict
  <2>2. \A x \in Matches : x.kind # "unmapped_object"
    BY <1>4
  <2> QED BY <2>1, <2>2
<1>13. Listing(FlattenSeq(lists) \o second, Matches \cup Alone)
  <2>1. Listing(FlattenSeq(lists), Matches) /\ Listing(second, Alone)
    BY <1>7, <1>9, <1>10, <1>11
  <2> HIDE DEF lists, second, Matches, Alone
  <2> QED BY <1>12, <2>1, ConcatLists
<1>14. PlanConflicts(old, target) = FlattenSeq(lists) \o second
  BY DEF PlanConflicts
<1>15. Obstacles(old, target) = Alone \cup Matches
  BY DEF Obstacles, FieldObstacles
<1>16. Alone \cup Matches = Matches \cup Alone
  OBVIOUS
<1> HIDE DEF lists, second, Matches, Alone
<1> QED BY <1>13, <1>14, <1>15, <1>16
-----------------------------------------------------------------------------
(* The totals *)

SourcesIn(M) == {m.source : m \in M}
SourcesAlong(part) == [j \in DOMAIN part |-> part[j].source]

\* The sources of some of the mappings, each once
LEMMA PartOfMappings ==
    ASSUME NEW old, NEW counts, NEW target, NEW ms, MappingsFit(ms, old, counts, target),
           NEW T, \A m \in ToSet(ms) \cap T : m.source # None
    PROVE  /\ Listing(SourcesAlong(Those(ms, T)), SourcesIn(ToSet(ms) \cap T))
           /\ Len(SourcesAlong(Those(ms, T))) = Len(Those(ms, T))
           /\ \A j \in DOMAIN Those(ms, T) :
                 Those(ms, T)[j].records = CountOf(counts, SourcesAlong(Those(ms, T))[j])
<1> DEFINE part == Those(ms, T)
           sources == SourcesAlong(part)
           n == Len(ms)
           M == ToSet(ms)
           g == [m \in M |-> m.source]
<1>1. /\ n \in Nat /\ DOMAIN ms = 1..n /\ ms = [i \in 1..n |-> ms[i]]
      /\ \A i \in 1..n : MappingFits(ms[i], old, counts, target)
      /\ \A i, j \in 1..n : ms[i].source = ms[j].source /\ ms[i].source # None => i = j
      /\ \A i, j \in 1..n : ms[i].target = ms[j].target /\ ms[i].target # None => i = j
  <2>1. n \in Nat /\ ms = [i \in 1..n |-> ms[i]]
    BY DEF MappingsFit
  <2>2. DOMAIN ms = 1..n
    BY <2>1
  <2> QED BY <2>1, <2>2 DEF MappingsFit
<1>2. M = {ms[i] : i \in 1..n}
  BY <1>1 DEF ToSet
<1>3. Listing(ms, M)
  <2>1. \A i \in 1..n : ms[i].source # None \/ ms[i].target # None
    BY <1>1 DEF MappingFits
  <2>2. \A i, j \in 1..n : ms[i] = ms[j] => i = j
    BY <1>1, <2>1
  <2>3. \A i \in 1..n : ms[i] \in M
    BY <1>2
  <2>4. \A x \in M : \E i \in 1..n : ms[i] = x
    BY <1>2
  <2> HIDE DEF n, M
  <2> QED BY <1>1, <2>2, <2>3, <2>4, ListingOf
<1>4. Listing(part, M \cap T)
  <2> HIDE DEF M
  <2>1. Listing(Those(ms, T), M \cap T)
    BY <1>3, ThoseLists
  <2> QED BY <2>1
<1>5. \A j \in DOMAIN part : part[j] \in M \cap T
  <2> HIDE DEF M, part
  <2> QED BY <1>4, ListingIs
<1>6. sources = [j \in DOMAIN part |-> g[part[j]]]
  <2>1. sources = [j \in DOMAIN part |-> part[j].source]
    BY DEF SourcesAlong
  <2> HIDE DEF part, sources
  <2> QED BY <1>5, <2>1
<1>7. \A x, y \in M \cap T : g[x] = g[y] => x = y
  <2> TAKE x \in M \cap T, y \in M \cap T
  <2> HAVE g[x] = g[y]
  <2>1. x.source = y.source /\ x.source # None
    OBVIOUS
  <2> HIDE DEF M, g
  <2> QED BY <1>1, <1>2, <2>1
<1>8. Listing(sources, {g[x] : x \in M \cap T}) /\ Len(sources) = Len(part)
  <2> HIDE DEF M, g, part, sources
  <2> QED BY <1>4, <1>6, <1>7, ImageLists
<1>9. {g[x] : x \in M \cap T} = SourcesIn(M \cap T)
  BY DEF SourcesIn
<1>10. ASSUME NEW j \in DOMAIN part PROVE part[j].records = CountOf(counts, sources[j])
  <2>1. part[j] \in M /\ part[j].source # None
    BY <1>5
  <2>2. MappingFits(part[j], old, counts, target)
    BY <1>1, <1>2, <2>1
  <2>3. sources[j] = part[j].source
    BY DEF SourcesAlong
  <2> QED BY <2>1, <2>2, <2>3 DEF MappingFits
<1> QED BY <1>5, <1>8, <1>9, <1>10

\* The records of a snapshot are those of its keys.
LEMMA SnapshotTotal ==
    ASSUME NEW objects, Keyed(objects), NEW counts, NEW v,
           \A k \in Keys(objects) : v[k] = CountOf(counts, k) /\ v[k] \in Int
    PROVE  /\ total_records(Snapshot(objects, counts)) = SumFunctionOnSet(v, Keys(objects))
           /\ IsFiniteSet(Keys(objects)) /\ Cardinality(Keys(objects)) = Len(objects)
<1> DEFINE keys == [i \in DOMAIN objects |-> objects[i].key]
           snapshot == Snapshot(objects, counts)
           f == [i \in DOMAIN snapshot |-> snapshot[i].records]
<1>1. Listing(keys, Keys(objects)) /\ DOMAIN objects = 1..Len(objects) /\ Len(objects) \in Nat
  BY KeyedLists
<1>2. DOMAIN snapshot = DOMAIN objects
      /\ \A i \in DOMAIN objects : snapshot[i].records = CountOf(counts, objects[i].key)
  BY DEF Snapshot
<1>3. DOMAIN f = DOMAIN keys /\ \A i \in DOMAIN keys : f[i] = v[keys[i]]
  <2>1. \A i \in DOMAIN objects : objects[i].key \in Keys(objects)
    BY DEF Keys
  <2> HIDE DEF snapshot
  <2> QED BY <1>2, <2>1
<1>4. total_records(snapshot) = SumFunction(f)
  BY DEF total_records, Total
<1>5. SumFunction(f) = SumFunctionOnSet(v, Keys(objects))
  <2> HIDE DEF f, keys
  <2> QED BY <1>1, <1>3, SumOfListing
<1>6. IsFiniteSet(Keys(objects)) /\ Cardinality(Keys(objects)) = Len(keys)
  <2> HIDE DEF keys
  <2> QED BY <1>1, ListingIs
<1>7. Len(keys) = Len(objects)
  BY <1>1
<1> QED BY <1>4, <1>5, <1>6, <1>7

\* The totals of any plan add up.
LEMMA PlanTotals ==
    ASSUME NEW old, NEW counts, NEW target, Formed(old), Formed(target),
           \A k \in DOMAIN counts : counts[k] \in Nat
    PROVE  TotalsAgree(build_plan(old, counts, target))
<1> DEFINE ms == ObjectMappings(old, counts, target)
           Matched == {m \in ToSet(ms) : m.source # None /\ m.target # None}
           Staying == {m \in ToSet(ms) : m.target = None}
           matched == Those(ms, Matched)
           staying == Those(ms, Staying)
           A == Keys(old) \cap Keys(target)
           B == Keys(old) \ Keys(target)
           C == Keys(target) \ Keys(old)
           v == [k \in Keys(old) \cup Keys(target) |-> CountOf(counts, k)]
           known == [key \in DOMAIN counts \cap Keys(old) |-> counts[key]]
           w == [k \in Keys(target) |-> CountOf(known, k)]
           Sum(f, S) == SumFunctionOnSet(f, S)
           fm == [i \in DOMAIN matched |-> matched[i].records]
           fs == [i \in DOMAIN staying |-> staying[i].records]
           plan == build_plan(old, counts, target)
<1>1. Keyed(old) /\ Keyed(target)
  BY DEF Formed
<1>2. MappingsFit(ms, old, counts, target)
  BY ObjectMappingsFit
<1>3. \A k : CountOf(counts, k) \in Nat
  BY DEF CountOf
<1>4. \A k \in Keys(target) : w[k] = IF k \in Keys(old) THEN CountOf(counts, k) ELSE 0
  BY DEF CountOf
<1>5. /\ total_records(Snapshot(old, counts)) = Sum(v, Keys(old))
      /\ IsFiniteSet(Keys(old)) /\ Cardinality(Keys(old)) = Len(old)
  <2>1. \A k \in Keys(old) : v[k] = CountOf(counts, k) /\ v[k] \in Int
    BY <1>3
  <2> HIDE DEF v
  <2> QED BY <1>1, <2>1, SnapshotTotal
<1>6. /\ total_records(target_snapshot(target, old, counts)) = Sum(w, Keys(target))
      /\ IsFiniteSet(Keys(target))
  <2>1. \A k \in Keys(target) : w[k] = CountOf(known, k) /\ w[k] \in Int
    BY <1>3, <1>4
  <2>2. target_snapshot(target, old, counts) = Snapshot(target, known)
    BY DEF target_snapshot
  <2> HIDE DEF w, known
  <2> QED BY <1>1, <2>1, <2>2, SnapshotTotal
<1>7. IsFiniteSet(A) /\ IsFiniteSet(B) /\ IsFiniteSet(C)
  BY <1>5, <1>6, FS_Subset
<1>8. /\ DOMAIN ms = 1..Len(ms)
      /\ \A i \in 1..Len(ms) : MappingFits(ms[i], old, counts, target)
      /\ \A k \in Keys(old) : \E i \in 1..Len(ms) : ms[i].source = k
  <2>1. Len(ms) \in Nat /\ ms = [i \in 1..Len(ms) |-> ms[i]]
    BY <1>2 DEF MappingsFit
  <2> HIDE DEF ms
  <2>2. DOMAIN ms = 1..Len(ms)
    BY <2>1
  <2> QED BY <1>2, <2>2 DEF MappingsFit
<1>9. /\ \A m \in ToSet(ms) : MappingFits(m, old, counts, target)
      /\ \A k \in Keys(old) : \E m \in ToSet(ms) : m.source = k
  <2> HIDE DEF ms
  <2>1. ToSet(ms) = {ms[i] : i \in 1..Len(ms)}
    BY <1>8 DEF ToSet
  <2> QED BY <1>8, <2>1
<1>10. None \notin Keys(old) /\ None \notin Keys(target)
  BY <1>1, KeyedLists
<1>11. SourcesIn(ToSet(ms) \cap Matched) = A
  <2> DEFINE M == ToSet(ms)
  <2>1. \A m \in M \cap Matched : m.source \in A
    BY <1>9 DEF MappingFits
  <2>2. \A k \in A : \E m \in M \cap Matched : k = m.source
    <3> TAKE k \in A
    <3>1. PICK m \in M : m.source = k
      BY <1>9
    <3>2. m.target # None
      BY <1>9, <1>10, <3>1 DEF MappingFits
    <3> QED BY <1>10, <3>1, <3>2
  <2> HIDE DEF M, A, Matched
  <2>3. SourcesIn(M \cap Matched) = A
    BY <2>1, <2>2 DEF SourcesIn
  <2> QED BY <2>3 DEF M
<1>12. SourcesIn(ToSet(ms) \cap Staying) = B
  <2> DEFINE M == ToSet(ms)
  <2>1. \A m \in M \cap Staying : m.source \in B
    BY <1>9 DEF MappingFits
  <2>2. \A k \in B : \E m \in M \cap Staying : k = m.source
    <3> TAKE k \in B
    <3>1. PICK m \in M : m.source = k
      BY <1>9
    <3>2. m.target = None
      BY <1>9, <1>10, <3>1 DEF MappingFits
    <3> QED BY <3>1, <3>2
  <2> HIDE DEF M, B, Staying
  <2>3. SourcesIn(M \cap Staying) = B
    BY <2>1, <2>2 DEF SourcesIn
  <2> QED BY <2>3 DEF M
<1>13. Total(fm) = Sum(v, A) /\ Len(matched) = Cardinality(A)
  <2> DEFINE sources == SourcesAlong(matched)
  <2>1. \A m \in ToSet(ms) \cap Matched : m.source # None
    OBVIOUS
  <2>2. /\ Listing(sources, A) /\ Len(sources) = Len(matched)
        /\ \A j \in DOMAIN matched : matched[j].records = CountOf(counts, sources[j])
    <3> HIDE DEF Matched, ms
    <3>2. /\ Listing(sources, SourcesIn(ToSet(ms) \cap Matched)) /\ Len(sources) = Len(matched)
          /\ \A j \in DOMAIN matched : matched[j].records = CountOf(counts, sources[j])
      BY <1>2, <2>1, PartOfMappings
    <3> HIDE DEF matched, sources
    <3> QED BY <1>11, <3>2
  <2>3. Len(sources) = Cardinality(A) /\ \A j \in DOMAIN sources : sources[j] \in A
    <3> HIDE DEF sources, A
    <3> QED BY <2>2, ListingIs
  <2>4. DOMAIN fm = DOMAIN sources /\ \A j \in DOMAIN sources : fm[j] = v[sources[j]]
    <3>1. DOMAIN sources = DOMAIN matched
      BY DEF SourcesAlong
    <3> HIDE DEF matched, sources
    <3> QED BY <2>2, <2>3, <3>1
  <2>5. \A k \in A : v[k] \in Int
    BY <1>3
  <2>6. SumFunction(fm) = Sum(v, A)
    <3> HIDE DEF fm, sources, v, A
    <3> QED BY <2>2, <2>4, <2>5, SumOfListing
  <2> QED BY <2>2, <2>3, <2>6 DEF Total
<1>14. Total(fs) = Sum(v, B) /\ Len(staying) = Cardinality(B)
  <2> DEFINE sources == SourcesAlong(staying)
  <2>1. \A m \in ToSet(ms) \cap Staying : m.source # None
    BY <1>9 DEF MappingFits
  <2>2. /\ Listing(sources, B) /\ Len(sources) = Len(staying)
        /\ \A j \in DOMAIN staying : staying[j].records = CountOf(counts, sources[j])
    <3> HIDE DEF Staying, ms
    <3>2. /\ Listing(sources, SourcesIn(ToSet(ms) \cap Staying)) /\ Len(sources) = Len(staying)
          /\ \A j \in DOMAIN staying : staying[j].records = CountOf(counts, sources[j])
      BY <1>2, <2>1, PartOfMappings
    <3> HIDE DEF staying, sources
    <3> QED BY <1>12, <3>2
  <2>3. Len(sources) = Cardinality(B) /\ \A j \in DOMAIN sources : sources[j] \in B
    <3> HIDE DEF sources, B
    <3> QED BY <2>2, ListingIs
  <2>4. DOMAIN fs = DOMAIN sources /\ \A j \in DOMAIN sources : fs[j] = v[sources[j]]
    <3>1. DOMAIN sources = DOMAIN staying
      BY DEF SourcesAlong
    <3> HIDE DEF staying, sources
    <3> QED BY <2>2, <2>3, <3>1
  <2>5. \A k \in B : v[k] \in Int
    BY <1>3
  <2>6. SumFunction(fs) = Sum(v, B)
    <3> HIDE DEF fs, sources, v, B
    <3> QED BY <2>2, <2>4, <2>5, SumOfListing
  <2> QED BY <2>2, <2>3, <2>6 DEF Total
<1>15. Sum(v, Keys(old)) = Sum(v, A) + Sum(v, B) /\ Sum(v, A) \in Int /\ Sum(v, B) \in Int
  <2>1. A \cup B = Keys(old) /\ A \cap B = {} /\ \A k \in A \cup B : v[k] \in Int
    BY <1>3
  <2> HIDE DEF A, B, v
  <2>2. /\ SumFunctionOnSet(v, A) \in Int /\ SumFunctionOnSet(v, B) \in Int
        /\ SumFunctionOnSet(v, A \cup B) = SumFunctionOnSet(v, A) + SumFunctionOnSet(v, B)
    <3>1. IsFiniteSet(A) /\ IsFiniteSet(B) /\ A \cap B = {} /\ \A k \in A \cup B : v[k] \in Int
      BY <1>7, <2>1
    <3> QED BY ONLY <3>1, SumOfBoth
  <2> QED BY <2>1, <2>2
<1>16. Sum(w, Keys(target)) = Sum(v, A)
  <2>1. A \cup C = Keys(target) /\ A \cap C = {} /\ \A k \in A \cup C : w[k] \in Int
    BY <1>3, <1>4
  <2>2. \A k \in A : v[k] \in Int /\ w[k] = v[k]
    BY <1>3, <1>4
  <2>3. \A k \in C : w[k] = 0
    BY <1>4
  <2> HIDE DEF A, C, v, w
  <2>4. Sum(w, Keys(target)) = Sum(w, A) + Sum(w, C) /\ Sum(w, A) \in Int
    <3>1. IsFiniteSet(A) /\ IsFiniteSet(C) /\ A \cap C = {} /\ \A k \in A \cup C : w[k] \in Int
      BY <1>7, <2>1
    <3>2. /\ SumFunctionOnSet(w, A) \in Int /\ SumFunctionOnSet(w, C) \in Int
          /\ SumFunctionOnSet(w, A \cup C) = SumFunctionOnSet(w, A) + SumFunctionOnSet(w, C)
      BY ONLY <3>1, SumOfBoth
    <3> QED BY <2>1, <3>2
  <2>5. Sum(w, A) = Sum(v, A)
    BY <1>7, <2>2, SumsSame
  <2>6. Sum(w, C) = 0
    BY <1>7, <2>3, SumOfZeros
  <2> HIDE DEF Sum
  <2> QED BY <2>4, <2>5, <2>6
<1>17. Len(old) = Cardinality(A) + Cardinality(B)
  <2>1. A \cup B = Keys(old) /\ A \cap B = {}
    OBVIOUS
  <2>2. Cardinality({}) = 0 /\ Cardinality(A) \in Nat /\ Cardinality(B) \in Nat
    BY <1>7, FS_EmptySet, FS_CardinalityType
  <2> HIDE DEF A, B
  <2>3. Cardinality(A \cup B) = Cardinality(A) + Cardinality(B) - Cardinality(A \cap B)
    BY <1>7, FS_Union
  <2>4. Cardinality(A \cap B) = 0 /\ Cardinality(A \cup B) = Len(old)
    BY <1>5, <2>1, <2>2
  <2> QED BY <2>2, <2>3, <2>4
<1>18. /\ plan.object_mappings = ms /\ plan.target_system = target_snapshot(target, old, counts)
       /\ plan.summary.source_objects = Len(old) /\ plan.summary.mapped_objects = Len(matched)
       /\ plan.summary.records_mappable = Total(fm)
       /\ plan.summary.records_unmapped = total_records(Snapshot(old, counts)) - Total(fm)
  BY DEF build_plan, Summary
<1> HIDE DEF plan, ms, A, B, v, w, Sum
<1>19. plan.summary.records_unmapped = Total(fs)
  BY <1>5, <1>13, <1>14, <1>15, <1>18
<1>20. plan.summary.records_mappable = total_records(plan.target_system)
  BY <1>6, <1>13, <1>16, <1>18
<1>21. plan.summary.source_objects = plan.summary.mapped_objects + Len(staying)
  BY <1>13, <1>14, <1>17, <1>18
<1>22. TotalsAgree(plan)
  BY <1>18, <1>19, <1>20, <1>21 DEF TotalsAgree
<1> QED BY <1>22 DEF plan

(***************************************************************************)
(* Whatever objects a tenant has and whatever a template defines, the plan *)
(* accounts for every field of both, reports every obstacle, and its       *)
(* totals add up.                                                          *)
(***************************************************************************)
THEOREM PlansLoseNothing ==
    ASSUME NEW old, NEW counts, NEW target, Formed(old), Formed(target),
           \A k \in DOMAIN counts : counts[k] \in Nat
    PROVE  /\ EveryFieldAccountedFor(build_plan(old, counts, target), old, target)
           /\ EveryObstacleReported(build_plan(old, counts, target), old, target)
           /\ TotalsAgree(build_plan(old, counts, target))
<1> DEFINE plan == build_plan(old, counts, target)
           ms == ObjectMappings(old, counts, target)
<1>1. /\ plan.object_mappings = ms /\ plan.conflicts = PlanConflicts(old, target)
      /\ plan.summary.conflicts = Len(PlanConflicts(old, target))
  BY DEF build_plan, Summary
<1>2. EveryFieldAccountedFor(plan, old, target)
  <2>1. MappingsFit(ms, old, counts, target)
    BY ObjectMappingsFit
  <2> HIDE DEF plan, ms
  <2>2. Listing(FlattenSeq(SourcesListed(ms)), AllFields(old))
    BY <2>1, SourcesAccounted
  <2>3. Listing(FlattenSeq(TargetsListed(ms)), AllFields(target))
    BY <2>1, TargetsAccounted
  <2>4. ExactlyOnce(FlattenSeq(SourcesListed(ms)), AllFields(old))
    BY <2>2, ListsExactlyOnce
  <2>5. ExactlyOnce(FlattenSeq(TargetsListed(ms)), AllFields(target))
    BY <2>3, ListsExactlyOnce
  <2>6. MappedFields(ms, LAMBDA m : m.source, LAMBDA m : m.source)
          = FlattenSeq(SourcesListed(ms))
    BY DEF MappedFields, SourcesListed, SourceList, WithSource
  <2>7. MappedFields(ms, LAMBDA m : m.target, LAMBDA m : m.target)
          = FlattenSeq(TargetsListed(ms))
    BY DEF MappedFields, TargetsListed, TargetList, WithTarget
  <2> QED BY <1>1, <2>4, <2>5, <2>6, <2>7 DEF EveryFieldAccountedFor
<1>3. EveryObstacleReported(plan, old, target)
  <2>1. Listing(PlanConflicts(old, target), Obstacles(old, target))
    BY PlanConflictsList
  <2>2. ExactlyOnce(PlanConflicts(old, target), Obstacles(old, target))
    BY <2>1, ListsExactlyOnce
  <2> HIDE DEF plan
  <2> QED BY <1>1, <2>2 DEF EveryObstacleReported, ExactlyOnce
<1>4. TotalsAgree(plan)
  BY PlanTotals
<1> QED BY <1>2, <1>3, <1>4

-----------------------------------------------------------------------------
(* The catalog: its references *)

USE BuilderAssumption

\* A field has a type and a reference, and refers into S if at all.
RefersTo(f, S) ==
    /\ {"type", "ref"} \subseteq DOMAIN f
    /\ f.type = "record_ref" => f.ref \in S

Known(fields, S) == \A i \in DOMAIN fields : RefersTo(fields[i], S)

EarlierKeys(objects, n) == {objects[m].key : m \in 1..(n - 1)}

(***************************************************************************)
(* A sequence of definitions that can be stored one after the other: each  *)
(* refers to earlier ones only, and no two have the same key.              *)
(***************************************************************************)
InOrder(objects) ==
    /\ Len(objects) \in Nat \ {0} /\ DOMAIN objects = 1..Len(objects)
    /\ \A n \in DOMAIN objects : Known(objects[n].fields, EarlierKeys(objects, n))
    /\ \A m, n \in DOMAIN objects : objects[m].key = objects[n].key => m = n

-----------------------------------------------------------------------------
(* The catalog *)

\* The fields the constructors make.
LEMMA FieldsKnown ==
    ASSUME NEW S
    PROVE  /\ \A k, t : t # "record_ref" => /\ RefersTo(F(k, t), S)
                                           /\ RefersTo(Req(F(k, t)), S)
                                           /\ RefersTo(Restr(F(k, t)), S)
           /\ \A k, o : RefersTo(Enum(k, o), S)
           /\ \A k : \A x \in S : RefersTo(Ref(k, x), S)
BY DEF RefersTo, F, Req, Restr, Enum, Ref

\* Tuples of fields, by their length
LEMMA TuplesKnown ==
    ASSUME NEW S
    PROVE
      /\ \A a : RefersTo(a, S)
            => Known(<<a>>, S)
      /\ \A a, b : RefersTo(a, S) /\ RefersTo(b, S)
            => Known(<<a, b>>, S)
      /\ \A a, b, c : RefersTo(a, S) /\ RefersTo(b, S) /\ RefersTo(c, S)
            => Known(<<a, b, c>>, S)
      /\ \A a, b, c, d : RefersTo(a, S) /\ RefersTo(b, S) /\ RefersTo(c, S) /\ RefersTo(d, S)
            => Known(<<a, b, c, d>>, S)
      /\ \A a, b, c, d, e : RefersTo(a, S) /\ RefersTo(b, S) /\ RefersTo(c, S) /\ RefersTo(d, S) /\ RefersTo(e, S)
            => Known(<<a, b, c, d, e>>, S)
      /\ \A a, b, c, d, e, f : RefersTo(a, S) /\ RefersTo(b, S) /\ RefersTo(c, S) /\ RefersTo(d, S) /\ RefersTo(e, S) /\ RefersTo(f, S)
            => Known(<<a, b, c, d, e, f>>, S)
      /\ \A a, b, c, d, e, f, g : RefersTo(a, S) /\ RefersTo(b, S) /\ RefersTo(c, S) /\ RefersTo(d, S) /\ RefersTo(e, S) /\ RefersTo(f, S) /\ RefersTo(g, S)
            => Known(<<a, b, c, d, e, f, g>>, S)
      /\ \A a, b, c, d, e, f, g, h : RefersTo(a, S) /\ RefersTo(b, S) /\ RefersTo(c, S) /\ RefersTo(d, S) /\ RefersTo(e, S) /\ RefersTo(f, S) /\ RefersTo(g, S) /\ RefersTo(h, S)
            => Known(<<a, b, c, d, e, f, g, h>>, S)
BY DEF Known

LEMMA CRMTypesRefer ==
    ASSUME NEW S
    PROVE  /\ Known(CRMTypes[1].fields, S)
           /\ "account" \in S => Known(CRMTypes[2].fields, S)
           /\ Known(CRMTypes[3].fields, S)
           /\ "account" \in S => Known(CRMTypes[4].fields, S)
           /\ "account" \in S => Known(CRMTypes[5].fields, S)
           /\ "account" \in S => Known(CRMTypes[6].fields, S)
BY FieldsKnown, TuplesKnown DEF CRMTypes, OT

LEMMA FinanceTypesRefer ==
    ASSUME NEW S
    PROVE  /\ Known(FinanceTypes[1].fields, S)
           /\ "account" \in S => Known(FinanceTypes[2].fields, S)
           /\ "vendor" \in S => Known(FinanceTypes[3].fields, S)
           /\ "invoice" \in S => Known(FinanceTypes[4].fields, S)
           /\ Known(FinanceTypes[5].fields, S)
BY FieldsKnown, TuplesKnown DEF FinanceTypes, OT

LEMMA ProcurementTypesRefer ==
    ASSUME NEW S
    PROVE  /\ "vendor" \in S => Known(ProcurementTypes[1].fields, S)
           /\ "vendor" \in S => Known(ProcurementTypes[2].fields, S)
           /\ "purchase_order" \in S => Known(ProcurementTypes[3].fields, S)
BY FieldsKnown, TuplesKnown DEF ProcurementTypes, OT

LEMMA InventoryTypesRefer ==
    ASSUME NEW S
    PROVE  /\ Known(InventoryTypes[1].fields, S)
           /\ "warehouse" \in S => Known(InventoryTypes[2].fields, S)
           /\ "product" \in S => Known(InventoryTypes[3].fields, S)
BY FieldsKnown, TuplesKnown DEF InventoryTypes, OT

LEMMA HCMTypesRefer ==
    ASSUME NEW S
    PROVE  /\ Known(HCMTypes[1].fields, S)
           /\ "department" \in S => Known(HCMTypes[2].fields, S)
           /\ "employee" \in S => Known(HCMTypes[3].fields, S)
           /\ Known(HCMTypes[4].fields, S)
BY FieldsKnown, TuplesKnown DEF HCMTypes, OT

LEMMA ProjectTypesRefer ==
    ASSUME NEW S
    PROVE  /\ "account" \in S => Known(ProjectTypes[1].fields, S)
           /\ "project" \in S => Known(ProjectTypes[2].fields, S)
BY FieldsKnown, TuplesKnown DEF ProjectTypes, OT

LEMMA ContractTypesRefer ==
    ASSUME NEW S
    PROVE  /\ Known(ContractTypes[1].fields, S)
BY FieldsKnown, TuplesKnown DEF ContractTypes, OT

ModuleKeys == <<"account", "contact", "lead", "deal", "activity", "ticket",
    "vendor", "invoice", "bill", "payment", "budget", "purchase_request",
    "purchase_order", "receipt", "warehouse", "product", "inventory_movement",
    "department", "employee", "leave_request", "candidate", "project",
    "milestone", "contract">>

\* The lists of the business modules, and what joins them
ListOf(list, n) == list \in Seq(ToSet(list)) /\ Len(list) = n

Joined(list, a, b, m, n) ==
    /\ ListOf(list, m + n)
    /\ \A i \in 1..m : list[i] = a[i]
    /\ \A i \in 1..n : list[m + i] = b[i]

LEMMA JoinedLists ==
    ASSUME NEW a, NEW b, NEW m \in Nat, NEW n \in Nat, ListOf(a, m), ListOf(b, n)
    PROVE  Joined(a \o b, a, b, m, n)
<1> DEFINE S == ToSet(a) \cup ToSet(b)
           list == a \o b
<1>1. a \in Seq(S) /\ b \in Seq(S) /\ Len(a) = m /\ Len(b) = n
  <2>1. a \in Seq(ToSet(a)) /\ b \in Seq(ToSet(b)) /\ Len(a) = m /\ Len(b) = n
    BY DEF ListOf
  <2>2. ToSet(a) \subseteq S /\ ToSet(b) \subseteq S
    OBVIOUS
  <2> HIDE DEF S
  <2> QED BY ONLY <2>1, <2>2
<1> HIDE DEF S
<1>2. /\ list \in Seq(S) /\ Len(list) = m + n
      /\ \A i \in 1..m : list[i] = a[i]
      /\ \A i \in 1..n : list[m + i] = b[i]
  BY <1>1
<1> HIDE DEF list
<1>3. \A i \in 1..Len(list) : list[i] \in ToSet(list)
  <2>1. DOMAIN list = 1..Len(list)
    BY <1>2
  <2> QED BY ONLY <2>1 DEF ToSet
<1>4. list \in Seq(ToSet(list))
  BY <1>2, <1>3
<1>5. Joined(list, a, b, m, n)
  BY ONLY <1>2, <1>4 DEF Joined, ListOf
<1> QED BY ONLY <1>5 DEF list

LEMMA ModuleLists ==
    /\ ListOf(CRMTypes, 6) /\ ListOf(FinanceTypes, 5) /\ ListOf(ProcurementTypes, 3)
    /\ ListOf(InventoryTypes, 3) /\ ListOf(HCMTypes, 4) /\ ListOf(ProjectTypes, 2)
    /\ ListOf(ContractTypes, 1)
<1>1. ListOf(CRMTypes, 6)
  BY DEF ListOf, CRMTypes, ToSet
<1>2. ListOf(FinanceTypes, 5)
  BY DEF ListOf, FinanceTypes, ToSet
<1>3. ListOf(ProcurementTypes, 3)
  BY DEF ListOf, ProcurementTypes, ToSet
<1>4. ListOf(InventoryTypes, 3)
  BY DEF ListOf, InventoryTypes, ToSet
<1>5. ListOf(HCMTypes, 4)
  BY DEF ListOf, HCMTypes, ToSet
<1>6. ListOf(ProjectTypes, 2)
  BY DEF ListOf, ProjectTypes, ToSet
<1>7. ListOf(ContractTypes, 1)
  BY DEF ListOf, ContractTypes, ToSet
<1> QED BY <1>1, <1>2, <1>3, <1>4, <1>5, <1>6, <1>7

LEMMA Sections ==
    /\ Len(object_types) = 24 /\ DOMAIN object_types = 1..24
    /\ \A n \in 1..6 : object_types[n] = CRMTypes[n]
    /\ \A n \in 1..5 : object_types[6 + n] = FinanceTypes[n]
    /\ \A n \in 1..3 : object_types[11 + n] = ProcurementTypes[n]
    /\ \A n \in 1..3 : object_types[14 + n] = InventoryTypes[n]
    /\ \A n \in 1..4 : object_types[17 + n] = HCMTypes[n]
    /\ \A n \in 1..2 : object_types[21 + n] = ProjectTypes[n]
    /\ object_types[24] = ContractTypes[1]
<1> DEFINE l2 == CRMTypes \o FinanceTypes
           l3 == l2 \o ProcurementTypes
           l4 == l3 \o InventoryTypes
           l5 == l4 \o HCMTypes
           l6 == l5 \o ProjectTypes
           l7 == l6 \o ContractTypes
<1>1. object_types = l7
  BY DEF object_types
<1>2. /\ ListOf(l2, 11)
      /\ \A i \in 1..6 : l2[i] = CRMTypes[i]
      /\ \A i \in 1..5 : l2[6 + i] = FinanceTypes[i]
  <2>1. ListOf(CRMTypes, 6) /\ ListOf(FinanceTypes, 5)
    BY ONLY ModuleLists
  <2>2. 6 \in Nat /\ 5 \in Nat /\ 6 + 5 = 11
    OBVIOUS
  <2>3. Joined(l2, CRMTypes, FinanceTypes, 6, 5)
    BY ONLY <2>1, <2>2, JoinedLists
  <2> HIDE DEF l2
  <2> QED BY ONLY <2>2, <2>3 DEF Joined
<1> HIDE DEF l2
<1>3. /\ ListOf(l3, 14)
      /\ \A i \in 1..11 : l3[i] = l2[i]
      /\ \A i \in 1..3 : l3[11 + i] = ProcurementTypes[i]
  <2>1. ListOf(l2, 11) /\ ListOf(ProcurementTypes, 3)
    BY ONLY <1>2, ModuleLists
  <2>2. 11 \in Nat /\ 3 \in Nat /\ 11 + 3 = 14
    OBVIOUS
  <2>3. Joined(l3, l2, ProcurementTypes, 11, 3)
    BY ONLY <2>1, <2>2, JoinedLists
  <2> HIDE DEF l3
  <2> QED BY ONLY <2>2, <2>3 DEF Joined
<1> HIDE DEF l3
<1>4. /\ ListOf(l4, 17)
      /\ \A i \in 1..14 : l4[i] = l3[i]
      /\ \A i \in 1..3 : l4[14 + i] = InventoryTypes[i]
  <2>1. ListOf(l3, 14) /\ ListOf(InventoryTypes, 3)
    BY ONLY <1>3, ModuleLists
  <2>2. 14 \in Nat /\ 3 \in Nat /\ 14 + 3 = 17
    OBVIOUS
  <2>3. Joined(l4, l3, InventoryTypes, 14, 3)
    BY ONLY <2>1, <2>2, JoinedLists
  <2> HIDE DEF l4
  <2> QED BY ONLY <2>2, <2>3 DEF Joined
<1> HIDE DEF l4
<1>5. /\ ListOf(l5, 21)
      /\ \A i \in 1..17 : l5[i] = l4[i]
      /\ \A i \in 1..4 : l5[17 + i] = HCMTypes[i]
  <2>1. ListOf(l4, 17) /\ ListOf(HCMTypes, 4)
    BY ONLY <1>4, ModuleLists
  <2>2. 17 \in Nat /\ 4 \in Nat /\ 17 + 4 = 21
    OBVIOUS
  <2>3. Joined(l5, l4, HCMTypes, 17, 4)
    BY ONLY <2>1, <2>2, JoinedLists
  <2> HIDE DEF l5
  <2> QED BY ONLY <2>2, <2>3 DEF Joined
<1> HIDE DEF l5
<1>6. /\ ListOf(l6, 23)
      /\ \A i \in 1..21 : l6[i] = l5[i]
      /\ \A i \in 1..2 : l6[21 + i] = ProjectTypes[i]
  <2>1. ListOf(l5, 21) /\ ListOf(ProjectTypes, 2)
    BY ONLY <1>5, ModuleLists
  <2>2. 21 \in Nat /\ 2 \in Nat /\ 21 + 2 = 23
    OBVIOUS
  <2>3. Joined(l6, l5, ProjectTypes, 21, 2)
    BY ONLY <2>1, <2>2, JoinedLists
  <2> HIDE DEF l6
  <2> QED BY ONLY <2>2, <2>3 DEF Joined
<1> HIDE DEF l6
<1>7. /\ ListOf(l7, 24)
      /\ \A i \in 1..23 : l7[i] = l6[i]
      /\ \A i \in 1..1 : l7[23 + i] = ContractTypes[i]
  <2>1. ListOf(l6, 23) /\ ListOf(ContractTypes, 1)
    BY ONLY <1>6, ModuleLists
  <2>2. 23 \in Nat /\ 1 \in Nat /\ 23 + 1 = 24
    OBVIOUS
  <2>3. Joined(l7, l6, ContractTypes, 23, 1)
    BY ONLY <2>1, <2>2, JoinedLists
  <2> HIDE DEF l7
  <2> QED BY ONLY <2>2, <2>3 DEF Joined
<1> HIDE DEF l7
<1>8. Len(l7) = 24 /\ DOMAIN l7 = 1..24
  BY <1>7 DEF ListOf
<1>9. \A n \in 1..6 : l7[n] = CRMTypes[n]
  BY ONLY <1>2, <1>3, <1>4, <1>5, <1>6, <1>7
<1>10. \A n \in 1..5 : l7[6 + n] = FinanceTypes[n]
  <2> SUFFICES ASSUME NEW n \in 1..5
               PROVE  l7[6 + n] = FinanceTypes[n]
    OBVIOUS
  <2>1. 6 + n \in 1..11
    OBVIOUS
  <2> QED BY <2>1, <1>2, <1>3, <1>4, <1>5, <1>6, <1>7
<1>11. \A n \in 1..3 : l7[11 + n] = ProcurementTypes[n]
  <2> SUFFICES ASSUME NEW n \in 1..3
               PROVE  l7[11 + n] = ProcurementTypes[n]
    OBVIOUS
  <2>1. 11 + n \in 1..14
    OBVIOUS
  <2> QED BY <2>1, <1>3, <1>4, <1>5, <1>6, <1>7
<1>12. \A n \in 1..3 : l7[14 + n] = InventoryTypes[n]
  <2> SUFFICES ASSUME NEW n \in 1..3
               PROVE  l7[14 + n] = InventoryTypes[n]
    OBVIOUS
  <2>1. 14 + n \in 1..17
    OBVIOUS
  <2> QED BY <2>1, <1>4, <1>5, <1>6, <1>7
<1>13. \A n \in 1..4 : l7[17 + n] = HCMTypes[n]
  BY ONLY <1>5, <1>6, <1>7
<1>14. \A n \in 1..2 : l7[21 + n] = ProjectTypes[n]
  BY ONLY <1>6, <1>7
<1>15. l7[24] = ContractTypes[1]
  BY ONLY <1>7
<1> QED BY ONLY <1>1, <1>8, <1>9, <1>10, <1>11, <1>12, <1>13, <1>14, <1>15

LEMMA SectionKeys ==
    /\ \A n \in 1..6 : CRMTypes[n].key = ModuleKeys[n]
    /\ \A n \in 1..5 : FinanceTypes[n].key = ModuleKeys[6 + n]
    /\ \A n \in 1..3 : ProcurementTypes[n].key = ModuleKeys[11 + n]
    /\ \A n \in 1..3 : InventoryTypes[n].key = ModuleKeys[14 + n]
    /\ \A n \in 1..4 : HCMTypes[n].key = ModuleKeys[17 + n]
    /\ \A n \in 1..2 : ProjectTypes[n].key = ModuleKeys[21 + n]
    /\ ContractTypes[1].key = ModuleKeys[24]
<1>1. \A n \in 1..6 : CRMTypes[n].key = ModuleKeys[n]
  BY DEF CRMTypes, OT, ModuleKeys
<1>2. \A n \in 1..5 : FinanceTypes[n].key = ModuleKeys[6 + n]
  BY DEF FinanceTypes, OT, ModuleKeys
<1>3. \A n \in 1..3 : ProcurementTypes[n].key = ModuleKeys[11 + n]
  BY DEF ProcurementTypes, OT, ModuleKeys
<1>4. \A n \in 1..3 : InventoryTypes[n].key = ModuleKeys[14 + n]
  BY DEF InventoryTypes, OT, ModuleKeys
<1>5. \A n \in 1..4 : HCMTypes[n].key = ModuleKeys[17 + n]
  BY DEF HCMTypes, OT, ModuleKeys
<1>6. \A n \in 1..2 : ProjectTypes[n].key = ModuleKeys[21 + n]
  BY DEF ProjectTypes, OT, ModuleKeys
<1>7. ContractTypes[1].key = ModuleKeys[24]
  BY DEF ContractTypes, OT, ModuleKeys
<1> QED BY <1>1, <1>2, <1>3, <1>4, <1>5, <1>6, <1>7

LEMMA ObjectTypesKeys ==
    /\ Len(object_types) = 24 /\ DOMAIN object_types = 1..24
    /\ \A n \in 1..24 : object_types[n].key = ModuleKeys[n]
<1>1. \A n \in 1..11 : object_types[n].key = ModuleKeys[n]
  <2> SUFFICES ASSUME NEW n \in 1..11
               PROVE  object_types[n].key = ModuleKeys[n]
    OBVIOUS
  <2>1. CASE n <= 6
    BY <2>1, Sections, SectionKeys
  <2>2. CASE n > 6
    <3>1. n - 6 \in 1..5 /\ 6 + (n - 6) = n
      BY <2>2
    <3> QED BY <3>1, Sections, SectionKeys
  <2> QED BY <2>1, <2>2
<1>2. \A n \in 12..17 : object_types[n].key = ModuleKeys[n]
  <2> SUFFICES ASSUME NEW n \in 12..17
               PROVE  object_types[n].key = ModuleKeys[n]
    OBVIOUS
  <2>1. CASE n <= 14
    <3>1. n - 11 \in 1..3 /\ 11 + (n - 11) = n
      BY <2>1
    <3> QED BY <3>1, Sections, SectionKeys
  <2>2. CASE n > 14
    <3>1. n - 14 \in 1..3 /\ 14 + (n - 14) = n
      BY <2>2
    <3> QED BY <3>1, Sections, SectionKeys
  <2> QED BY <2>1, <2>2
<1>3. \A n \in 18..24 : object_types[n].key = ModuleKeys[n]
  <2> SUFFICES ASSUME NEW n \in 18..24
               PROVE  object_types[n].key = ModuleKeys[n]
    OBVIOUS
  <2>1. CASE n <= 21
    <3>1. n - 17 \in 1..4 /\ 17 + (n - 17) = n
      BY <2>1
    <3> QED BY <3>1, Sections, SectionKeys
  <2>2. CASE n \in {22, 23}
    <3>1. n - 21 \in 1..2 /\ 21 + (n - 21) = n
      BY <2>2
    <3> QED BY <3>1, Sections, SectionKeys
  <2>3. CASE n = 24
    BY <2>3, Sections, SectionKeys
  <2> QED BY <2>1, <2>2, <2>3
<1>4. \A n \in 1..24 : object_types[n].key = ModuleKeys[n]
  BY <1>1, <1>2, <1>3
<1> QED BY <1>4, Sections

LEMMA ObjectTypesInOrder == InOrder(object_types)
<1> DEFINE Before(n) == EarlierKeys(object_types, n)
<1>1. \A m, n \in 1..24 : m < n => ModuleKeys[m] \in Before(n)
  BY ObjectTypesKeys DEF EarlierKeys
<1>2. /\ ModuleKeys[1] = "account" /\ ModuleKeys[7] = "vendor"
      /\ ModuleKeys[8] = "invoice" /\ ModuleKeys[13] = "purchase_order"
      /\ ModuleKeys[15] = "warehouse" /\ ModuleKeys[16] = "product"
      /\ ModuleKeys[18] = "department" /\ ModuleKeys[19] = "employee"
      /\ ModuleKeys[22] = "project"
  BY DEF ModuleKeys
<1> HIDE DEF Before
<1>3. \A n \in 1..6 : Known(object_types[n].fields, Before(n))
  BY <1>1, <1>2, Sections, CRMTypesRefer
<1>4. \A n \in 7..11 : Known(object_types[n].fields, Before(n))
  BY <1>1, <1>2, Sections, FinanceTypesRefer
<1>5. \A n \in 12..17 : Known(object_types[n].fields, Before(n))
  BY <1>1, <1>2, Sections, ProcurementTypesRefer, InventoryTypesRefer
<1>6. \A n \in 18..24 : Known(object_types[n].fields, Before(n))
  BY <1>1, <1>2, Sections, HCMTypesRefer, ProjectTypesRefer, ContractTypesRefer
<1>7. \A n \in 1..24 : Known(object_types[n].fields, Before(n))
  BY <1>3, <1>4, <1>5, <1>6
<1>8. \A m, n \in 1..24 : ModuleKeys[m] = ModuleKeys[n] => m = n
  BY DEF ModuleKeys
<1>9. \A m, n \in DOMAIN object_types : object_types[m].key = object_types[n].key => m = n
  BY <1>8, ObjectTypesKeys
<1>10. \A n \in DOMAIN object_types :
          Known(object_types[n].fields, EarlierKeys(object_types, n))
  BY <1>7, ObjectTypesKeys DEF Before
<1>11. Len(object_types) \in Nat \ {0} /\ DOMAIN object_types = 1..Len(object_types)
  BY ObjectTypesKeys
<1> QED BY ONLY <1>9, <1>10, <1>11 DEF InOrder

LEMMA VisibleKnown ==
    ASSUME NEW fields, NEW S, Known(fields, S)
    PROVE  Known(Visible(fields), S)
BY DEF Known, RefersTo, Visible

LEMMA VisibleTuplesKnown ==
    ASSUME NEW S
    PROVE
      /\ \A a, b : RefersTo(a, S) /\ RefersTo(b, S)
            => Known(Visible(<<a, b>>), S)
      /\ \A a, b, c : RefersTo(a, S) /\ RefersTo(b, S) /\ RefersTo(c, S)
            => Known(Visible(<<a, b, c>>), S)
      /\ \A a, b, c, d : RefersTo(a, S) /\ RefersTo(b, S) /\ RefersTo(c, S) /\ RefersTo(d, S)
            => Known(Visible(<<a, b, c, d>>), S)
      /\ \A a, b, c, d, e : RefersTo(a, S) /\ RefersTo(b, S) /\ RefersTo(c, S) /\ RefersTo(d, S) /\ RefersTo(e, S)
            => Known(Visible(<<a, b, c, d, e>>), S)
      /\ \A a, b, c, d, e, f : RefersTo(a, S) /\ RefersTo(b, S) /\ RefersTo(c, S) /\ RefersTo(d, S) /\ RefersTo(e, S) /\ RefersTo(f, S)
            => Known(Visible(<<a, b, c, d, e, f>>), S)
BY TuplesKnown, VisibleKnown

LEMMA FinanceTemplateRefers ==
    ASSUME NEW S
    PROVE  /\ Known(finance_template[1].fields, S)
           /\ "account" \in S => Known(finance_template[2].fields, S)
           /\ "invoice" \in S => Known(finance_template[3].fields, S)
           /\ Known(finance_template[4].fields, S)
BY FieldsKnown, VisibleTuplesKnown DEF finance_template, Template

LEMMA ProcurementTemplateRefers ==
    ASSUME NEW S
    PROVE  /\ Known(procurement_template[1].fields, S)
           /\ Known(procurement_template[2].fields, S)
           /\ "vendor" \in S => Known(procurement_template[3].fields, S)
           /\ Known(procurement_template[4].fields, S)
BY FieldsKnown, VisibleTuplesKnown DEF procurement_template, Template

LEMMA InventoryTemplateRefers ==
    ASSUME NEW S
    PROVE  /\ Known(inventory_template[1].fields, S)
           /\ Known(inventory_template[2].fields, S)
           /\ Known(inventory_template[3].fields, S)
BY FieldsKnown, VisibleTuplesKnown DEF inventory_template, Template

LEMMA CRMTemplateRefers ==
    ASSUME NEW S
    PROVE  /\ Known(crm_template[1].fields, S)
BY FieldsKnown, VisibleTuplesKnown DEF crm_template, Template

LEMMA HRTemplateRefers ==
    ASSUME NEW S
    PROVE  /\ Known(hr_template[1].fields, S)
BY FieldsKnown, VisibleTuplesKnown DEF hr_template, Template


LEMMA TemplateObjects ==
    /\ DOMAIN finance_template = 1..4 /\ Len(finance_template) = 4
    /\ \A n \in 1..4 : finance_template[n].key = <<"account", "invoice", "payment", "budget">>[n]
    /\ DOMAIN procurement_template = 1..4 /\ Len(procurement_template) = 4
    /\ \A n \in 1..4 : procurement_template[n].key =
          <<"vendor", "purchase_request", "purchase_order", "receipt">>[n]
    /\ DOMAIN inventory_template = 1..3 /\ Len(inventory_template) = 3
    /\ \A n \in 1..3 : inventory_template[n].key =
          <<"warehouse", "product", "inventory_movement">>[n]
    /\ DOMAIN crm_template = 1..1 /\ Len(crm_template) = 1
    /\ crm_template[1].key = "contact"
    /\ DOMAIN hr_template = 1..1 /\ Len(hr_template) = 1
    /\ hr_template[1].key = "employee"
<1>1. /\ DOMAIN finance_template = 1..4 /\ Len(finance_template) = 4
      /\ finance_template[1].key = "account" /\ finance_template[2].key = "invoice"
      /\ finance_template[3].key = "payment" /\ finance_template[4].key = "budget"
  BY DEF finance_template, Template
<1>2. /\ DOMAIN procurement_template = 1..4 /\ Len(procurement_template) = 4
      /\ procurement_template[1].key = "vendor"
      /\ procurement_template[2].key = "purchase_request"
      /\ procurement_template[3].key = "purchase_order"
      /\ procurement_template[4].key = "receipt"
  BY DEF procurement_template, Template
<1>3. /\ DOMAIN inventory_template = 1..3 /\ Len(inventory_template) = 3
      /\ inventory_template[1].key = "warehouse" /\ inventory_template[2].key = "product"
      /\ inventory_template[3].key = "inventory_movement"
  BY DEF inventory_template, Template
<1>4. /\ DOMAIN crm_template = 1..1 /\ Len(crm_template) = 1
      /\ crm_template[1].key = "contact"
  BY DEF crm_template, Template
<1>5. /\ DOMAIN hr_template = 1..1 /\ Len(hr_template) = 1
      /\ hr_template[1].key = "employee"
  BY DEF hr_template, Template
<1> QED BY <1>1, <1>2, <1>3, <1>4, <1>5

LEMMA TemplateByKey ==
    /\ DOMAIN template_by_key = TemplateKeys
    /\ template_by_key["finance"] = finance_template
    /\ template_by_key["procurement"] = procurement_template
    /\ template_by_key["inventory"] = inventory_template
    /\ template_by_key["crm"] = crm_template
    /\ template_by_key["hr"] = hr_template
BY DEF template_by_key, TemplateKeys

LEMMA TemplatesInOrder ==
    ASSUME NEW t \in TemplateKeys
    PROVE  InOrder(template_by_key[t])
<1>1. InOrder(finance_template)
  BY TemplateObjects, FinanceTemplateRefers DEF InOrder, EarlierKeys
<1>2. InOrder(procurement_template)
  BY TemplateObjects, ProcurementTemplateRefers DEF InOrder, EarlierKeys
<1>3. InOrder(inventory_template)
  BY TemplateObjects, InventoryTemplateRefers DEF InOrder, EarlierKeys
<1>4. InOrder(crm_template)
  BY TemplateObjects, CRMTemplateRefers DEF InOrder, EarlierKeys
<1>5. InOrder(hr_template)
  BY TemplateObjects, HRTemplateRefers DEF InOrder, EarlierKeys
<1> QED BY <1>1, <1>2, <1>3, <1>4, <1>5, TemplateByKey DEF TemplateKeys

\* The workflows the product ships can be stored.
LEMMA ShippedWorkflows ==
    /\ DOMAIN workflows = 1..3 /\ Len(workflows) = 3
    /\ \A m \in 1..3 : validate_workflow(workflows[m])
    /\ Keys(workflows) = {"invoice_approval", "pr_approval", "leave_approval"}
    /\ validate_workflow(invoice_wf)
<1>1. DOMAIN workflows = 1..3 /\ Len(workflows) = 3
  BY DEF workflows
<1>2. /\ validate_workflow(workflows[1]) /\ validate_workflow(workflows[2])
      /\ validate_workflow(workflows[3])
  BY DEF workflows, Workflow, Tr, validate_workflow
<1>3. /\ workflows[1].key = "invoice_approval" /\ workflows[2].key = "pr_approval"
      /\ workflows[3].key = "leave_approval"
  BY DEF workflows, Workflow
<1>4. Keys(workflows) = {"invoice_approval", "pr_approval", "leave_approval"}
  BY <1>1, <1>3 DEF Keys
<1>5. validate_workflow(invoice_wf)
  BY DEF invoice_wf, Workflow, Tr, validate_workflow
<1> QED BY <1>1, <1>2, <1>4, <1>5

\* The shipped types with a workflow have one of these.
LEMMA ShippedTypesWithWorkflow ==
    /\ \A n \in 1..24 : object_types[n].workflow # None =>
          /\ object_types[n].workflow \in Keys(workflows)
          /\ object_types[n].key \in {"invoice", "purchase_request", "leave_request"}
    /\ \A t \in TemplateKeys : \A n \in DOMAIN template_by_key[t] :
          template_by_key[t][n].workflow # None =>
             /\ template_by_key[t][n].workflow = invoice_wf
             /\ template_by_key[t][n].key = "invoice"
<1> DEFINE Of(objects) ==
      \A n \in DOMAIN objects : objects[n].workflow # None =>
          objects[n].workflow = invoice_wf /\ objects[n].key = "invoice"
<1>1. \A n \in 1..6 : object_types[n].workflow = None
  BY Sections DEF CRMTypes, OT
<1>2. \A n \in 7..11 : object_types[n].workflow # None =>
         object_types[n].workflow = "invoice_approval" /\ object_types[n].key = "invoice"
  BY Sections DEF FinanceTypes, OT
<1>3. \A n \in 12..14 : object_types[n].workflow # None =>
         object_types[n].workflow = "pr_approval" /\ object_types[n].key = "purchase_request"
  BY Sections DEF ProcurementTypes, OT
<1>4. \A n \in 15..17 : object_types[n].workflow = None
  BY Sections DEF InventoryTypes, OT
<1>5. \A n \in 18..21 : object_types[n].workflow # None =>
         object_types[n].workflow = "leave_approval" /\ object_types[n].key = "leave_request"
  BY Sections DEF HCMTypes, OT
<1>6. \A n \in 22..24 : object_types[n].workflow = None
  BY Sections DEF ProjectTypes, ContractTypes, OT
<1>7. \A n \in 1..24 : object_types[n].workflow # None =>
          /\ object_types[n].workflow \in Keys(workflows)
          /\ object_types[n].key \in {"invoice", "purchase_request", "leave_request"}
  BY <1>1, <1>2, <1>3, <1>4, <1>5, <1>6, ShippedWorkflows
<1>8. Of(finance_template)
  BY TemplateObjects DEF finance_template, Template
<1>9. Of(procurement_template) /\ Of(inventory_template)
  <2>1. Of(procurement_template)
    BY TemplateObjects DEF procurement_template, Template
  <2>2. Of(inventory_template)
    BY TemplateObjects DEF inventory_template, Template
  <2> QED BY <2>1, <2>2
<1>10. Of(crm_template) /\ Of(hr_template)
  BY TemplateObjects DEF crm_template, hr_template, Template
<1>11. \A t \in TemplateKeys : Of(template_by_key[t])
  BY <1>8, <1>9, <1>10, TemplateByKey DEF TemplateKeys
<1> QED BY <1>7, <1>11

\* ObjectTypesKeys and TemplateObjects, without the keys themselves
LEMMA ShippedKeysCover ==
    /\ Keys(object_types) \subseteq ToSet(ShippedKeys)
    /\ \A t \in TemplateKeys : Keys(template_by_key[t]) \subseteq ToSet(ShippedKeys)
<1>1. \A n \in 1..24 : ModuleKeys[n] \in ToSet(ShippedKeys)
  BY DEF ModuleKeys, ShippedKeys, ToSet
<1>2. Keys(object_types) \subseteq ToSet(ShippedKeys)
  BY <1>1, ObjectTypesKeys DEF Keys
<1>3. {"account", "invoice", "payment", "budget", "vendor", "purchase_request",
       "purchase_order", "receipt", "warehouse", "product", "inventory_movement",
       "contact", "employee"} \subseteq ToSet(ShippedKeys)
  BY <1>1 DEF ModuleKeys
<1>4. /\ Keys(finance_template) \subseteq ToSet(ShippedKeys)
      /\ Keys(procurement_template) \subseteq ToSet(ShippedKeys)
      /\ Keys(inventory_template) \subseteq ToSet(ShippedKeys)
      /\ Keys(crm_template) \subseteq ToSet(ShippedKeys)
      /\ Keys(hr_template) \subseteq ToSet(ShippedKeys)
  BY <1>3, TemplateObjects DEF Keys
<1> QED BY <1>2, <1>4, TemplateByKey DEF TemplateKeys

-----------------------------------------------------------------------------
(* The roles the modules install *)

LEMMA RoleNames ==
    /\ DOMAIN FinanceRoles = {"finance_user", "finance_manager"}
    /\ DOMAIN SalesRoles = {"sales_rep", "sales_manager"}
    /\ DOMAIN SupplyRoles = {"procurement_agent", "procurement_manager", "inventory_user"}
    /\ DOMAIN HRRoles = {"hr_user", "hr_manager"}
    /\ DOMAIN OtherRoles = {"project_manager", "contracts_manager", "exec"}
BY DEF FinanceRoles, SalesRoles, SupplyRoles, HRRoles, OtherRoles

\* A role has the grants its section gives it.
LEMMA RoleOfSection ==
    ASSUME NEW section \in RoleSections, NEW role \in DOMAIN section
    PROVE  role \in RoleKeys /\ business_roles[role] = section[role]
<1>1. role \in RoleKeys
  BY RoleNames DEF RoleSections, RoleKeys
<1>2. \A other \in RoleSections : role \in DOMAIN other => other = section
  BY RoleNames DEF RoleSections
<1>3. (CHOOSE other \in RoleSections : role \in DOMAIN other) = section
  BY <1>2
<1> QED BY <1>1, <1>3 DEF business_roles

LEMMA EveryRoleHasASection ==
    ASSUME NEW role \in RoleKeys
    PROVE  \E section \in RoleSections :
              role \in DOMAIN section /\ business_roles[role] = section[role]
<1>1. \E section \in RoleSections : role \in DOMAIN section
  BY RoleNames DEF RoleSections, RoleKeys
<1> QED BY <1>1, RoleOfSection

\* Grants that decide only what they manage, and that name the types they manage
Bounded(grants) ==
    \A g \in grants : /\ g = G(g.action, g.resource)
                      /\ g.action # "approve"
                      /\ g.action = "manage" => g.resource \notin {"*", "objects"}

LEMMA GrantsBounded ==
    /\ \A S : Bounded(Reads(S)) /\ Bounded(Cruds(S))
    /\ \A S : S \cap {"*", "objects"} = {} => Bounded(Manages(S))
    /\ Bounded(read_bi)
    /\ \A g, h : Bounded(g) /\ Bounded(h) => Bounded(g \cup h)
<1>1. \A S : Bounded(Reads(S))
  BY DEF Bounded, Reads, G
<1>2. \A S : Bounded(Cruds(S))
  BY DEF Bounded, Cruds, Crud, G
<1>3. \A S : S \cap {"*", "objects"} = {} => Bounded(Manages(S))
  BY DEF Bounded, Manages, G
<1>4. Bounded(read_bi)
  BY <1>1 DEF read_bi
<1>5. \A g, h : Bounded(g) /\ Bounded(h) => Bounded(g \cup h)
  BY DEF Bounded
<1> QED BY <1>1, <1>2, <1>3, <1>4, <1>5

LEMMA RolesBounded ==
    ASSUME NEW role \in RoleKeys
    PROVE  Bounded(business_roles[role])
<1>1. \A r \in DOMAIN FinanceRoles : Bounded(FinanceRoles[r])
  <2>1. {"invoice", "bill", "payment", "budget"} \cap {"*", "objects"} = {}
    OBVIOUS
  <2>2. Bounded(FinanceRoles.finance_user)
    BY <2>1, GrantsBounded DEF FinanceRoles
  <2>3. Bounded(FinanceRoles.finance_manager)
    BY <2>1, GrantsBounded DEF FinanceRoles
  <2> QED BY <2>2, <2>3, RoleNames
<1>2. \A r \in DOMAIN SalesRoles : Bounded(SalesRoles[r])
  <2>1. CRMResources \cap {"*", "objects"} = {}
    BY DEF CRMResources
  <2>2. Bounded(SalesRoles.sales_rep)
    BY <2>1, GrantsBounded DEF SalesRoles
  <2>3. Bounded(SalesRoles.sales_manager)
    BY <2>1, GrantsBounded DEF SalesRoles
  <2> QED BY <2>2, <2>3, RoleNames
<1>3. \A r \in DOMAIN SupplyRoles : Bounded(SupplyRoles[r])
  <2>1. {"purchase_request", "purchase_order", "vendor", "receipt"} \cap {"*", "objects"} = {}
    OBVIOUS
  <2>2. Bounded(SupplyRoles.procurement_agent)
    BY <2>1, GrantsBounded DEF SupplyRoles
  <2>3. Bounded(SupplyRoles.procurement_manager)
    BY <2>1, GrantsBounded DEF SupplyRoles
  <2>4. Bounded(SupplyRoles.inventory_user)
    BY <2>1, GrantsBounded DEF SupplyRoles
  <2> QED BY <2>2, <2>3, <2>4, RoleNames
<1>4. \A r \in DOMAIN HRRoles : Bounded(HRRoles[r])
  <2>1. {"employee", "department", "leave_request", "candidate"} \cap {"*", "objects"} = {}
    OBVIOUS
  <2>2. Bounded({G("search", "employee")})
    BY DEF Bounded, G
  <2>3. Bounded(HRRoles.hr_user)
    BY <2>1, <2>2, GrantsBounded DEF HRRoles
  <2>4. Bounded(HRRoles.hr_manager)
    BY <2>1, <2>2, GrantsBounded DEF HRRoles
  <2> QED BY <2>3, <2>4, RoleNames
<1>5. \A r \in DOMAIN OtherRoles : Bounded(OtherRoles[r])
  <2>1. {"project", "milestone"} \cap {"*", "objects"} = {}
    OBVIOUS
  <2>2. {"contract"} \cap {"*", "objects"} = {}
    OBVIOUS
  <2>3. Bounded({G("read", "objects"), G("search", "objects")})
    BY DEF Bounded, G
  <2>4. Bounded(OtherRoles.project_manager)
    BY <2>1, <2>2, <2>3, GrantsBounded DEF OtherRoles
  <2>5. Bounded(OtherRoles.contracts_manager)
    BY <2>1, <2>2, <2>3, GrantsBounded DEF OtherRoles
  <2>6. Bounded(OtherRoles.exec)
    BY <2>1, <2>2, <2>3, GrantsBounded DEF OtherRoles
  <2> QED BY <2>4, <2>5, <2>6, RoleNames
<1> QED BY <1>1, <1>2, <1>3, <1>4, <1>5, EveryRoleHasASection DEF RoleSections

\* The types some role manages
Managed == {"invoice", "bill", "payment", "budget"} \cup CRMResources
           \cup {"purchase_request", "purchase_order", "vendor", "receipt"}
           \cup {"employee", "department", "leave_request", "candidate"}
           \cup {"project", "milestone"} \cup {"contract"}

LEMMA ManagedHaveManagers ==
    ASSUME NEW k \in Managed
    PROVE  \E role \in RoleKeys : G("manage", k) \in business_roles[role]
<1> DEFINE Has(section, role) ==
       section \in RoleSections /\ role \in DOMAIN section /\ G("manage", k) \in section[role]
<1>1. CASE k \in {"invoice", "bill", "payment", "budget"}
  <2>1. Has(FinanceRoles, "finance_manager")
    BY <1>1, RoleNames DEF FinanceRoles, Manages, RoleSections
  <2> QED BY <2>1, RoleOfSection
<1>2. CASE k \in CRMResources
  <2>1. Has(SalesRoles, "sales_manager")
    BY <1>2, RoleNames DEF SalesRoles, Manages, RoleSections
  <2> QED BY <2>1, RoleOfSection
<1>3. CASE k \in {"purchase_request", "purchase_order", "vendor", "receipt"}
  <2>1. Has(SupplyRoles, "procurement_manager")
    BY <1>3, RoleNames DEF SupplyRoles, Manages, RoleSections
  <2> QED BY <2>1, RoleOfSection
<1>4. CASE k \in {"employee", "department", "leave_request", "candidate"}
  <2>1. Has(HRRoles, "hr_manager")
    BY <1>4, RoleNames DEF HRRoles, Manages, RoleSections
  <2> QED BY <2>1, RoleOfSection
<1>5. CASE k \in {"project", "milestone"}
  <2>1. Has(OtherRoles, "project_manager")
    BY <1>5, RoleNames DEF OtherRoles, Manages, RoleSections
  <2> QED BY <2>1, RoleOfSection
<1>6. CASE k = "contract"
  <2>1. Has(OtherRoles, "contracts_manager")
    BY <1>6, RoleNames DEF OtherRoles, Manages, RoleSections
  <2> QED BY <2>1, RoleOfSection
<1> QED BY <1>1, <1>2, <1>3, <1>4, <1>5, <1>6 DEF Managed

-----------------------------------------------------------------------------
(* What an origin defines *)

\* The definition of a key is the only one with it.
LEMMA OnlyOneOfKey ==
    ASSUME NEW objects, InOrder(objects), NEW n \in DOMAIN objects
    PROVE  ByKey(objects, objects[n].key) = objects[n]
<1> DEFINE i == CHOOSE i \in DOMAIN objects : objects[i].key = objects[n].key
<1>1. i \in DOMAIN objects /\ objects[i].key = objects[n].key
  OBVIOUS
<1>2. i = n
  BY <1>1 DEF InOrder
<1> QED BY <1>2 DEF ByKey

LEMMA OriginsApart ==
    /\ \A v \in DOMAIN Definitions : v # "modules" /\ v \notin TemplateKeys /\ v \in Origins
    /\ "modules" \in Origins /\ "modules" \notin TemplateKeys
    /\ TemplateKeys \subseteq Origins
    /\ None \notin Origins
BY DEF Origins, TemplateKeys

LEMMA WorkflowDefIs ==
    ASSUME NEW origin \in Origins
    PROVE  /\ DOMAIN WorkflowDef[origin] = {w.key : w \in WorkflowsBy(origin)}
           /\ \A key \in DOMAIN WorkflowDef[origin] :
                 /\ WorkflowDef[origin][key] \in WorkflowsBy(origin)
                 /\ WorkflowDef[origin][key].key = key
<1>1. WorkflowDef[origin] =
         [key \in {w.key : w \in WorkflowsBy(origin)} |->
             CHOOSE w \in WorkflowsBy(origin) : w.key = key]
  BY DEF WorkflowDef
<1>2. ASSUME NEW key \in {w.key : w \in WorkflowsBy(origin)}
      PROVE  LET it == CHOOSE w \in WorkflowsBy(origin) : w.key = key IN
             it \in WorkflowsBy(origin) /\ it.key = key
  OBVIOUS
<1> QED BY <1>1, <1>2

LEMMA ModulesDefine ==
    /\ \A n \in DOMAIN object_types :
          /\ object_types[n].key \in DOMAIN ObjectType["modules"]
          /\ ObjectType["modules"][object_types[n].key] = object_types[n]
    /\ \A m \in DOMAIN workflows : workflows[m].key \in DOMAIN WorkflowDef["modules"]
    /\ \A w \in DOMAIN WorkflowDef["modules"] : validate_workflow(WorkflowDef["modules"][w])
<1>1. ObjectType["modules"] = [key \in Keys(object_types) |-> ByKey(object_types, key)]
  BY OriginsApart DEF ObjectType
<1>2. \A n \in DOMAIN object_types : ByKey(object_types, object_types[n].key) = object_types[n]
  BY OnlyOneOfKey, ObjectTypesInOrder
<1>3. /\ WorkflowsBy("modules") = ToSet(workflows)
      /\ DOMAIN WorkflowDef["modules"] = {w.key : w \in WorkflowsBy("modules")}
      /\ \A w \in DOMAIN WorkflowDef["modules"] :
             WorkflowDef["modules"][w] \in WorkflowsBy("modules")
  BY OriginsApart, WorkflowDefIs DEF WorkflowsBy
<1>4. ToSet(workflows) = {workflows[m] : m \in DOMAIN workflows}
  BY DEF ToSet
<1>5. \A w \in ToSet(workflows) : validate_workflow(w)
  BY <1>4, ShippedWorkflows
<1> QED BY <1>1, <1>2, <1>3, <1>4, <1>5 DEF Keys

LEMMA TemplatesDefine ==
    ASSUME NEW t \in TemplateKeys
    PROVE  /\ \A n \in DOMAIN template_by_key[t] : LET def == template_by_key[t][n] IN
                /\ def.key \in DOMAIN ObjectType[t]
                /\ ObjectType[t][def.key] = to_object_type(def)
                /\ def.workflow # None => def.workflow.key \in DOMAIN WorkflowDef[t]
           /\ \A w \in DOMAIN WorkflowDef[t] : validate_workflow(WorkflowDef[t][w])
<1> DEFINE objects == template_by_key[t]
           defined == WorkflowsOf(objects)
<1>1. ObjectType[t] = [key \in Keys(objects) |-> to_object_type(ByKey(objects, key))]
  BY OriginsApart DEF ObjectType
<1>2. \A n \in DOMAIN objects : ByKey(objects, objects[n].key) = objects[n]
  BY OnlyOneOfKey, TemplatesInOrder
<1>3. /\ WorkflowsBy(t) = defined
      /\ DOMAIN WorkflowDef[t] = {w.key : w \in defined}
      /\ \A w \in DOMAIN WorkflowDef[t] : WorkflowDef[t][w] \in defined
  BY OriginsApart, WorkflowDefIs DEF WorkflowsBy
<1>4. defined \subseteq {invoice_wf}
  BY ShippedTypesWithWorkflow DEF WorkflowsOf
<1>6. \A w \in DOMAIN WorkflowDef[t] : validate_workflow(WorkflowDef[t][w])
  BY <1>3, <1>4, ShippedWorkflows
<1>7. \A n \in DOMAIN objects : objects[n].workflow # None =>
         objects[n].workflow \in defined
  BY DEF WorkflowsOf
<1>8. \A n \in DOMAIN objects : objects[n].workflow # None =>
         objects[n].workflow.key \in DOMAIN WorkflowDef[t]
  BY <1>3, <1>7
<1>9. \A n \in DOMAIN objects : /\ objects[n].key \in DOMAIN ObjectType[t]
                                 /\ ObjectType[t][objects[n].key] = to_object_type(objects[n])
  BY <1>1, <1>2 DEF Keys
<1> QED BY <1>6, <1>8, <1>9

\* The same of one definition of a template
LEMMA TemplateDefines ==
    ASSUME NEW t \in TemplateKeys, NEW n \in DOMAIN template_by_key[t]
    PROVE  LET def == template_by_key[t][n] IN
           /\ def.key \in DOMAIN ObjectType[t]
           /\ ObjectType[t][def.key] = to_object_type(def)
BY ONLY TemplatesDefine, t \in TemplateKeys, n \in DOMAIN template_by_key[t]

LEMMA DefinitionsDefine ==
    ASSUME NEW v \in DOMAIN Definitions
    PROVE  LET def == Definitions[v] IN
           /\ DOMAIN ObjectType[v] = {def.key}
           /\ ObjectType[v][def.key] = to_object_type(def)
           /\ def.workflow # None => /\ def.workflow.key \in DOMAIN WorkflowDef[v]
                                     /\ WorkflowDef[v][def.workflow.key] = def.workflow
<1> DEFINE def == Definitions[v]
           defined == WorkflowsOf(<<def>>)
<1>1. ObjectType[v] = [key \in {def.key} |-> to_object_type(def)]
  BY OriginsApart DEF ObjectType
<1>2. /\ WorkflowsBy(v) = defined
      /\ DOMAIN WorkflowDef[v] = {w.key : w \in defined}
      /\ \A w \in DOMAIN WorkflowDef[v] : WorkflowDef[v][w] \in defined
  BY OriginsApart, WorkflowDefIs DEF WorkflowsBy
<1>3. def.workflow # None => defined = {def.workflow}
  <2>1. DOMAIN <<def>> = {1} /\ <<def>>[1] = def
    OBVIOUS
  <2> QED BY <2>1 DEF WorkflowsOf
<1>4. ASSUME def.workflow # None
      PROVE  /\ def.workflow.key \in DOMAIN WorkflowDef[v]
             /\ WorkflowDef[v][def.workflow.key] = def.workflow
  BY <1>2, <1>3, <1>4
<1> QED BY <1>1, <1>4

-----------------------------------------------------------------------------
(***************************************************************************)
(* The inductive invariant.  What is stored is supported by what was       *)
(* stored before it, as nothing is deleted; so each running call has to    *)
(* remember what it has stored or checked so far.                          *)
(***************************************************************************)

\* The keys with an entry in a table
Entries(table) == {k \in DOMAIN table : table[k] # None}

\* What an object type refers to is among the types, its workflow among the
\* workflows.
Supported(type, ts, fs) ==
    /\ \A i \in DOMAIN type.fields :
          type.fields[i].type = "record_ref" => type.fields[i].ref \in ts
    /\ type.workflow # None => type.workflow \in fs

FlowStored(def, fs) == def.workflow # None => def.workflow.key \in fs
Installed(def, ts, fs) == def.key \in ts /\ FlowStored(def, fs)

TablesSound(ty, fl) ==
    /\ ty \in [TypeKeys -> Origins \cup {None}]
    /\ fl \in [WorkflowKeys -> Origins \cup {None}]
    /\ \A k \in Entries(ty) :
          /\ k \in DOMAIN ObjectType[ty[k]]
          /\ ty[k] \notin Direct => Supported(Stored(ty, k), Entries(ty), Entries(fl))
    /\ \A w \in Entries(fl) : /\ w \in DOMAIN WorkflowDef[fl[w]]
                              /\ validate_workflow(WorkflowDef[fl[w]][w])

DraftRow == [id: DraftIds, version: Drafts, status: {"draft", "validated", "published"}]

DraftsSound(ds, ts) ==
    /\ ds \in [DraftKeys -> DraftRow \cup {NoDraft}]
    /\ \A k \in DraftKeys : ds[k] # NoDraft =>
          /\ Definitions[ds[k].version].key = k
          /\ \A j \in DraftKeys : ds[j].id = ds[k].id => j = k
          /\ ds[k].status = "validated" =>
                validate_builder_definition(Definitions[ds[k].version], ts)
          /\ ds[k].status = "published" => k \in ts

MarksSound(keys, templates, ts, fs) ==
    /\ keys \subseteq ts
    /\ \A t \in templates : /\ t \in TemplateKeys
                            /\ \A n \in DOMAIN template_by_key[t] :
                                  Installed(template_by_key[t][n], ts, fs)

\* The calls
SaveCall    == [step: {"save"}, id: DraftIds, of: Drafts, status: {"draft", "validated"}]
DefSteps    == {"workflow", "type", "retype"}
PublishCall == [step: DefSteps \cup {"mark", "event"}, kind: {"publish"}, of: Drafts,
                n: {1}, id: DraftIds]
InstallCall == [step: DefSteps \cup {"sample", "submit", "approve", "report", "audit"},
                kind: {"install"}, of: TemplateKeys, n: Nat, samples: BOOLEAN, made: Nat]
ModuleCall  == [step: {"module_workflow", "module_type", "module_role"}, n: Nat]

IsCall(c) ==
    \/ c \in SaveCall \cup PublishCall \cup InstallCall \cup ModuleCall \cup {Idle}
    \/ c.step = "plan"

\* What a call has checked and stored so far stands.
SaveBacked(c, ts) ==
    c.status = "validated" => validate_builder_definition(Definitions[c.of], ts)

PublishBacked(c, ts, fs, ds) ==
    LET def == Definitions[c.of] IN
    /\ ds[def.key] # NoDraft /\ ds[def.key].id = c.id
    /\ validate_builder_definition(def, ts)
    /\ c.step = "workflow" => def.workflow # None
    /\ c.step \in {"type", "retype"} => FlowStored(def, fs)
    /\ c.step \in {"mark", "event"} => def.key \in ts

InstallBacked(c, ts, fs) ==
    LET defs == template_by_key[c.of] IN
    /\ c.step \in DefSteps =>
          /\ c.n \in DOMAIN defs
          /\ \A m \in 1..(c.n - 1) : Installed(defs[m], ts, fs)
    /\ c.step = "workflow" => defs[c.n].workflow # None
    /\ c.step \in {"type", "retype"} => FlowStored(defs[c.n], fs)
    /\ c.step \notin DefSteps => \A m \in DOMAIN defs : Installed(defs[m], ts, fs)

ModuleBacked(c, ts, fs) ==
    /\ c.step = "module_workflow" =>
          /\ c.n \in DOMAIN workflows
          /\ \A m \in 1..(c.n - 1) : workflows[m].key \in fs
    /\ c.step # "module_workflow" => Keys(workflows) \subseteq fs
    /\ c.step = "module_type" =>
          /\ c.n \in DOMAIN object_types
          /\ \A m \in 1..(c.n - 1) : object_types[m].key \in ts

Backed(c, ts, fs, ds) ==
    /\ IsCall(c)
    /\ c \in SaveCall => SaveBacked(c, ts)
    /\ c \in PublishCall => PublishBacked(c, ts, fs, ds)
    /\ c \in InstallCall => InstallBacked(c, ts, fs)
    /\ c \in ModuleCall => ModuleBacked(c, ts, fs)

CallsSound(cs, ts, fs, ds) ==
    DOMAIN cs = Slots /\ \A s \in Slots : Backed(cs[s], ts, fs, ds)

IInv ==
    /\ TablesSound(types, flows)
    /\ DraftsSound(drafts, Entries(types))
    /\ MarksSound(announced, installs, Entries(types), Entries(flows))
    /\ CallsSound(call, Entries(types), Entries(flows), drafts)

-----------------------------------------------------------------------------
(* What is sound stays sound while the tables grow. *)

LEMMA SupportStays ==
    ASSUME NEW type, NEW ts, NEW fs, NEW ts2, NEW fs2, ts \subseteq ts2, fs \subseteq fs2,
           Supported(type, ts, fs)
    PROVE  Supported(type, ts2, fs2)
BY DEF Supported

LEMMA ValidStays ==
    ASSUME NEW def, NEW ts, NEW ts2, ts \subseteq ts2, validate_builder_definition(def, ts)
    PROVE  validate_builder_definition(def, ts2)
BY DEF validate_builder_definition, RefResolves

LEMMA InstalledStays ==
    ASSUME NEW def, NEW ts, NEW fs, NEW ts2, NEW fs2, ts \subseteq ts2, fs \subseteq fs2
    PROVE  /\ FlowStored(def, fs) => FlowStored(def, fs2)
           /\ Installed(def, ts, fs) => Installed(def, ts2, fs2)
BY DEF Installed, FlowStored

\* The drafts there are keep their ids.
KeepIds(ds, ds2) ==
    \A k \in DraftKeys : ds[k] # NoDraft => ds2[k] # NoDraft /\ ds2[k].id = ds[k].id

LEMMA CallKinds ==
    ASSUME NEW c
    PROVE  /\ c \in SaveCall => /\ c.step = "save" /\ c \notin PublishCall
                                /\ c \notin InstallCall /\ c \notin ModuleCall
           /\ c \in PublishCall => c.step # "save" /\ c \notin InstallCall /\ c \notin ModuleCall
           /\ c \in InstallCall => c.step # "save" /\ c \notin ModuleCall
           /\ c \in ModuleCall => c.step # "save"
           /\ c.step = "plan" => /\ c \notin SaveCall /\ c \notin PublishCall
                                 /\ c \notin InstallCall /\ c \notin ModuleCall
BY DEF SaveCall, PublishCall, InstallCall, ModuleCall, DefSteps

LEMMA BackedStays ==
    ASSUME NEW c, NEW ts, NEW fs, NEW ds, NEW ts2, NEW fs2, NEW ds2,
           ts \subseteq ts2, fs \subseteq fs2, KeepIds(ds, ds2),
           Backed(c, ts, fs, ds)
    PROVE  Backed(c, ts2, fs2, ds2)
<1>1. CASE c \in SaveCall
  <2>1. SaveBacked(c, ts2)
    BY <1>1, ValidStays DEF Backed, SaveBacked
  <2> QED BY <1>1, <2>1, CallKinds DEF Backed
<1>2. CASE c \in PublishCall
  <2> DEFINE def == Definitions[c.of]
  <2>1. PublishBacked(c, ts, fs, ds) /\ def.key \in DraftKeys
    BY <1>2 DEF Backed, PublishCall, DraftKeys
  <2>2. validate_builder_definition(def, ts2)
    BY <2>1, ValidStays DEF PublishBacked
  <2>3. ds2[def.key] # NoDraft /\ ds2[def.key].id = c.id
    BY <2>1 DEF PublishBacked, KeepIds
  <2>4. PublishBacked(c, ts2, fs2, ds2)
    BY <2>1, <2>2, <2>3, InstalledStays DEF PublishBacked
  <2> QED BY <1>2, <2>4, CallKinds DEF Backed
<1>3. CASE c \in InstallCall
  <2>1. InstallBacked(c, ts2, fs2)
    BY <1>3, InstalledStays DEF Backed, InstallBacked
  <2> QED BY <1>3, <2>1, CallKinds DEF Backed
<1>4. CASE c \in ModuleCall
  <2>1. ModuleBacked(c, ts2, fs2)
    BY <1>4 DEF Backed, ModuleBacked
  <2> QED BY <1>4, <2>1, CallKinds DEF Backed
<1> QED BY <1>1, <1>2, <1>3, <1>4 DEF Backed

\* A step of call s, while the tables grow
LEMMA CallSteps ==
    ASSUME NEW s \in Slots, NEW x, NEW cs, NEW ts, NEW fs, NEW ds, NEW ts2, NEW fs2, NEW ds2,
           ts \subseteq ts2, fs \subseteq fs2, KeepIds(ds, ds2),
           CallsSound(cs, ts, fs, ds), Backed(x, ts2, fs2, ds2)
    PROVE  CallsSound([cs EXCEPT ![s] = x], ts2, fs2, ds2)
<1>1. \A r \in Slots : Backed(cs[r], ts2, fs2, ds2)
  BY BackedStays DEF CallsSound
<1> QED BY <1>1 DEF CallsSound

LEMMA CallsStay ==
    ASSUME NEW cs, NEW ts, NEW fs, NEW ds, NEW ts2, NEW fs2, NEW ds2,
           ts \subseteq ts2, fs \subseteq fs2, KeepIds(ds, ds2), CallsSound(cs, ts, fs, ds)
    PROVE  CallsSound(cs, ts2, fs2, ds2)
BY BackedStays DEF CallsSound

LEMMA DraftsStay ==
    ASSUME NEW ds, NEW ts, NEW ts2, ts \subseteq ts2, DraftsSound(ds, ts)
    PROVE  DraftsSound(ds, ts2)
BY ValidStays DEF DraftsSound

LEMMA MarksStay ==
    ASSUME NEW keys, NEW templates, NEW ts, NEW fs, NEW ts2, NEW fs2,
           ts \subseteq ts2, fs \subseteq fs2, MarksSound(keys, templates, ts, fs)
    PROVE  MarksSound(keys, templates, ts2, fs2)
BY InstalledStays DEF MarksSound

LEMMA IdleBacked ==
    ASSUME NEW ts, NEW fs, NEW ds
    PROVE  Backed(Idle, ts, fs, ds)
<1>1. Idle.step = "idle"
  BY DEF Idle
<1>2. Idle \notin SaveCall \cup PublishCall \cup InstallCall \cup ModuleCall
  BY <1>1 DEF SaveCall, PublishCall, InstallCall, ModuleCall, DefSteps
<1> QED BY <1>2 DEF Backed, IsCall

-----------------------------------------------------------------------------
(* Storing one type or one workflow *)

LEMMA TypeStored ==
    ASSUME NEW ty, NEW fl, TablesSound(ty, fl), NEW key \in TypeKeys, NEW origin \in Origins,
           key \in DOMAIN ObjectType[origin],
           origin \notin Direct =>
              Supported(ObjectType[origin][key], Entries(ty) \cup {key}, Entries(fl)),
           NEW ty2, ty2 = [ty EXCEPT ![key] = origin]
    PROVE  TablesSound(ty2, fl) /\ Entries(ty2) = Entries(ty) \cup {key}
<1>1. /\ ty2 \in [TypeKeys -> Origins \cup {None}]
      /\ ty2[key] = origin /\ \A k \in TypeKeys \ {key} : ty2[k] = ty[k]
  BY DEF TablesSound
<1>2. DOMAIN ty = TypeKeys /\ DOMAIN ty2 = TypeKeys
  BY DEF TablesSound
<1>3. Entries(ty2) = Entries(ty) \cup {key}
  BY <1>1, <1>2, OriginsApart DEF Entries
<1>4. ASSUME NEW k \in Entries(ty2)
      PROVE  /\ k \in DOMAIN ObjectType[ty2[k]]
             /\ ty2[k] \notin Direct => Supported(Stored(ty2, k), Entries(ty2), Entries(fl))
  <2>1. CASE k = key
    BY <2>1, <1>1, <1>3 DEF Stored
  <2>2. CASE k # key
    <3>1. k \in Entries(ty) /\ ty2[k] = ty[k]
      BY <2>2, <1>1, <1>2, <1>3 DEF Entries
    <3>2. Stored(ty2, k) = Stored(ty, k)
      BY <3>1 DEF Stored
    <3>3. /\ k \in DOMAIN ObjectType[ty[k]]
          /\ ty[k] \notin Direct => Supported(Stored(ty, k), Entries(ty), Entries(fl))
      BY <3>1 DEF TablesSound
    <3>4. Entries(ty) \subseteq Entries(ty2)
      BY <1>3
    <3> QED BY <3>1, <3>2, <3>3, <3>4, SupportStays
  <2> QED BY <2>1, <2>2
<1>5. TablesSound(ty2, fl)
  BY <1>1, <1>4 DEF TablesSound
<1> QED BY <1>3, <1>5

LEMMA WorkflowStored ==
    ASSUME NEW ty, NEW fl, TablesSound(ty, fl), NEW origin \in Origins,
           NEW key, key \in DOMAIN WorkflowDef[origin],
           validate_workflow(WorkflowDef[origin][key]),
           NEW fl2, fl2 = [fl EXCEPT ![key] = origin]
    PROVE  TablesSound(ty, fl2) /\ Entries(fl2) = Entries(fl) \cup {key}
<1>0. key \in WorkflowKeys
  BY DEF WorkflowKeys
<1>1. /\ fl2 \in [WorkflowKeys -> Origins \cup {None}]
      /\ fl2[key] = origin /\ \A k \in WorkflowKeys \ {key} : fl2[k] = fl[k]
  BY <1>0 DEF TablesSound
<1>2. DOMAIN fl = WorkflowKeys /\ DOMAIN fl2 = WorkflowKeys
  BY DEF TablesSound
<1>3. Entries(fl2) = Entries(fl) \cup {key}
  BY <1>0, <1>1, <1>2, OriginsApart DEF Entries
<1>4. \A w \in Entries(fl2) : w \in DOMAIN WorkflowDef[fl2[w]]
                              /\ validate_workflow(WorkflowDef[fl2[w]][w])
  <2> TAKE w \in Entries(fl2)
  <2>1. CASE w = key
    BY <2>1, <1>1
  <2>2. CASE w # key
    <3>1. w \in Entries(fl) /\ fl2[w] = fl[w]
      BY <2>2, <1>1, <1>2, <1>3 DEF Entries
    <3> QED BY <3>1 DEF TablesSound
  <2> QED BY <2>1, <2>2
<1>5. \A k \in Entries(ty) : ty[k] \notin Direct =>
          Supported(Stored(ty, k), Entries(ty), Entries(fl2))
  BY <1>3, SupportStays DEF TablesSound
<1>6. TablesSound(ty, fl2)
  BY <1>1, <1>4, <1>5 DEF TablesSound
<1> QED BY <1>3, <1>6

-----------------------------------------------------------------------------
(* Where a call goes next *)

LEMMA ObjectOf ==
    ASSUME NEW c
    PROVE  /\ c \in InstallCall => Def(c) = template_by_key[c.of][c.n]
           /\ c \in PublishCall => Def(c) = Definitions[c.of]
BY DEF InstallCall, PublishCall, Def, Objects

LEMMA AtObjectOfTemplate ==
    ASSUME NEW c \in InstallCall, NEW ts, NEW fs, NEW ds,
           c.n \in DOMAIN template_by_key[c.of],
           \A m \in 1..(c.n - 1) : Installed(template_by_key[c.of][m], ts, fs)
    PROVE  Backed(AtObject(c), ts, fs, ds)
<1> DEFINE x == AtObject(c)
<1>1. /\ x \in InstallCall /\ x.of = c.of /\ x.n = c.n
      /\ x.step = IF template_by_key[c.of][c.n].workflow # None THEN "workflow" ELSE "type"
  BY ObjectOf DEF AtObject, InstallCall, DefSteps
<1> HIDE DEF x
<1>2. InstallBacked(x, ts, fs)
  BY <1>1 DEF InstallBacked, FlowStored, DefSteps
<1> QED BY <1>1, <1>2, CallKinds DEF Backed, IsCall, x

LEMMA AtObjectOfDraft ==
    ASSUME NEW c \in PublishCall, NEW ts, NEW fs, NEW ds,
           ds[Definitions[c.of].key] # NoDraft, ds[Definitions[c.of].key].id = c.id,
           validate_builder_definition(Definitions[c.of], ts)
    PROVE  Backed(AtObject(c), ts, fs, ds)
<1> DEFINE x == AtObject(c)
<1>1. /\ x \in PublishCall /\ x.of = c.of /\ x.id = c.id
      /\ x.step = IF Definitions[c.of].workflow # None THEN "workflow" ELSE "type"
  BY ObjectOf DEF AtObject, PublishCall, DefSteps
<1> HIDE DEF x
<1>2. PublishBacked(x, ts, fs, ds)
  BY <1>1 DEF PublishBacked, FlowStored
<1> QED BY <1>1, <1>2, CallKinds DEF Backed, IsCall, x

\* An install past its object types
LaterStep(c) == c \in InstallCall /\ c.step \notin DefSteps

AllInstalled(t, ts, fs) ==
    \A m \in DOMAIN template_by_key[t] : Installed(template_by_key[t][m], ts, fs)

LEMMA LaterBacked ==
    ASSUME NEW c, NEW ts, NEW fs, NEW ds, LaterStep(c), AllInstalled(c.of, ts, fs)
    PROVE  Backed(c, ts, fs, ds)
<1>1. InstallBacked(c, ts, fs)
  BY DEF LaterStep, AllInstalled, InstallBacked, DefSteps
<1> QED BY <1>1, CallKinds DEF LaterStep, Backed, IsCall

LEMMA LaterSteps ==
    ASSUME NEW c \in InstallCall
    PROVE  /\ LaterStep(AtReports(c)) /\ AtReports(c).of = c.of
           /\ LaterStep(AtSamples(c)) /\ AtSamples(c).of = c.of
           /\ LaterStep(NextSample(c)) /\ NextSample(c).of = c.of
           /\ LaterStep(AfterInvoice(c)) /\ AfterInvoice(c).of = c.of
<1>1. LaterStep(AtReports(c)) /\ AtReports(c).of = c.of
  BY DEF AtReports, LaterStep, InstallCall, DefSteps
<1>2. LaterStep(AtSamples(c)) /\ AtSamples(c).of = c.of
  BY <1>1 DEF AtSamples, LaterStep, InstallCall, DefSteps
<1>3. LaterStep(NextSample(c)) /\ NextSample(c).of = c.of
  <2>1. CASE c.n < Len(sample_records[c.of])
    <3> DEFINE x == [c EXCEPT !.step = "sample", !.n = @ + 1, !.made = 0]
    <3>1. NextSample(c) = x
      BY <2>1 DEF NextSample
    <3>2. c.n + 1 \in Nat
      BY DEF InstallCall
    <3>3. x \in InstallCall /\ x.of = c.of /\ x.step = "sample"
      BY <3>2 DEF InstallCall, DefSteps
    <3> QED BY <3>1, <3>3 DEF LaterStep, DefSteps
  <2>2. CASE ~(c.n < Len(sample_records[c.of]))
    BY <2>2, <1>1 DEF NextSample
  <2> QED BY <2>1, <2>2
<1>4. LaterStep(AfterInvoice(c)) /\ AfterInvoice(c).of = c.of
  <2>1. CASE c.made + 1 < Wanted(3)
    <3> DEFINE x == [c EXCEPT !.step = "submit", !.made = @ + 1]
    <3>1. AfterInvoice(c) = x
      BY <2>1 DEF AfterInvoice
    <3>2. c.made + 1 \in Nat
      BY DEF InstallCall
    <3>3. x \in InstallCall /\ x.of = c.of /\ x.step = "submit"
      BY <3>2 DEF InstallCall, DefSteps
    <3> QED BY <3>1, <3>3 DEF LaterStep, DefSteps
  <2>2. CASE ~(c.made + 1 < Wanted(3))
    BY <2>2, <1>3 DEF AfterInvoice
  <2> QED BY <2>1, <2>2
<1> QED BY <1>1, <1>2, <1>3, <1>4

\* The type of the object has been stored.
LEMMA AfterTypeBacked ==
    ASSUME NEW c \in PublishCall \cup InstallCall, NEW ts, NEW fs, NEW ds,
           c.step \in {"type", "retype"}, Backed(c, ts, fs, ds), Def(c).key \in ts
    PROVE  Backed(AfterType(c), ts, fs, ds)
<1>1. CASE c \in PublishCall
  <2> DEFINE x == AfterType(c)
  <2>0. c.kind = "publish" /\ ~(c.n < Len(Objects(c)))
    BY <1>1 DEF PublishCall, Objects
  <2>9. x = [c EXCEPT !.step = "mark"]
    BY <2>0 DEF AfterType
  <2>1. /\ x \in PublishCall /\ x.of = c.of /\ x.id = c.id /\ x.step = "mark"
    BY <1>1, <2>9 DEF PublishCall
  <2>2. Def(c) = Definitions[c.of]
    BY <1>1, ObjectOf
  <2>3. PublishBacked(c, ts, fs, ds)
    BY <1>1 DEF Backed
  <2> HIDE DEF x
  <2>4. PublishBacked(x, ts, fs, ds)
    BY <2>1, <2>2, <2>3 DEF PublishBacked
  <2> QED BY <2>1, <2>4, CallKinds DEF Backed, IsCall, x
<1>2. CASE c \in InstallCall
  <2> DEFINE defs == template_by_key[c.of]
  <2>1. /\ c.of \in TemplateKeys /\ c.n \in Nat /\ c.kind = "install"
        /\ Objects(c) = defs /\ Def(c) = defs[c.n]
    BY <1>2, ObjectOf DEF InstallCall, Objects
  <2>2. /\ c.n \in DOMAIN defs /\ FlowStored(defs[c.n], fs)
        /\ \A m \in 1..(c.n - 1) : Installed(defs[m], ts, fs)
    BY <1>2 DEF Backed, InstallBacked, DefSteps
  <2>3. DOMAIN defs = 1..Len(defs) /\ Len(defs) \in Nat
    BY <2>1, TemplatesInOrder DEF InOrder
  <2>4. \A m \in 1..c.n : Installed(defs[m], ts, fs)
    BY <2>1, <2>2 DEF Installed
  <2>5. CASE c.n < Len(defs)
    <3> DEFINE next == [c EXCEPT !.n = @ + 1]
    <3>1. AfterType(c) = AtObject(next)
      BY <2>1, <2>5 DEF AfterType
    <3>2. next \in InstallCall /\ next.of = c.of /\ next.n = c.n + 1
      BY <1>2 DEF InstallCall
    <3> HIDE DEF next
    <3>3. Backed(AtObject(next), ts, fs, ds)
      BY <2>1, <2>3, <2>4, <2>5, <3>2, AtObjectOfTemplate
    <3> QED BY <3>1, <3>3
  <2>6. CASE ~(c.n < Len(defs))
    <3>1. AfterType(c) = AtSamples(c)
      BY <2>1, <2>6 DEF AfterType
    <3>2. AllInstalled(c.of, ts, fs)
      BY <2>1, <2>2, <2>3, <2>4, <2>6 DEF AllInstalled
    <3> QED BY <1>2, <3>1, <3>2, LaterSteps, LaterBacked
  <2> QED BY <2>5, <2>6
<1> QED BY <1>1, <1>2

-----------------------------------------------------------------------------
(* Each step keeps the invariant. *)

LEMMA InitSound == Init => IInv
<1> SUFFICES ASSUME Init PROVE IInv
  OBVIOUS
<1>1. Entries(types) = {} /\ Entries(flows) = {}
  BY DEF Init, Entries
<1>2. TablesSound(types, flows)
  BY <1>1 DEF Init, TablesSound
<1>3. DraftsSound(drafts, Entries(types))
  BY DEF Init, DraftsSound
<1>4. MarksSound(announced, installs, Entries(types), Entries(flows))
  BY DEF Init, MarksSound
<1>5. CallsSound(call, Entries(types), Entries(flows), drafts)
  BY IdleBacked DEF Init, CallsSound
<1> QED BY <1>2, <1>3, <1>4, <1>5 DEF IInv

\* The tables a call can do its step on
Tables == <<types, flows, drafts, announced, installs>>

LEMMA SameIds == KeepIds(drafts, drafts)
BY DEF KeepIds

\* A step that writes no definition
LEMMA CallOnly ==
    ASSUME IInv, UNCHANGED Tables, NEW s \in Slots, NEW x,
           call' = [call EXCEPT ![s] = x], Backed(x, Entries(types), Entries(flows), drafts)
    PROVE  IInv'
<1>1. CallsSound(call', Entries(types), Entries(flows), drafts)
  BY CallSteps, SameIds DEF IInv
<1> QED BY <1>1 DEF IInv, Tables

LEMMA CallAtStep ==
    ASSUME IInv, NEW s \in Slots
    PROVE  LET c == call[s] IN
           /\ Backed(c, Entries(types), Entries(flows), drafts)
           /\ c.step = "save" => c \in SaveCall
           /\ c.step \in DefSteps => c \in PublishCall \cup InstallCall
           /\ c.step \in {"mark", "event"} => c \in PublishCall
           /\ c.step \in {"sample", "submit", "approve", "report", "audit"} => LaterStep(c)
           /\ c.step \in {"module_workflow", "module_type", "module_role"} => c \in ModuleCall
<1>1. Backed(call[s], Entries(types), Entries(flows), drafts)
  BY DEF IInv, CallsSound
<1>2. IsCall(call[s])
  BY <1>1 DEF Backed
<1> QED BY <1>1, <1>2 DEF IsCall, SaveCall, PublishCall, InstallCall, ModuleCall, Idle,
                         DefSteps, LaterStep

LEMMA ExistingIs ==
    ASSUME IInv
    PROVE  /\ Existing = Entries(types)
           /\ \A v : Valid(v) <=> validate_builder_definition(Definitions[v], Entries(types))
BY DEF IInv, TablesSound, Existing, Entries, Valid

\* The calls begin.
LEMMA SaveBegins ==
    ASSUME IInv, NEW s \in Slots, NEW id \in DraftIds, NEW v \in Drafts,
           SaveDraftValidate(s, id, v)
    PROVE  IInv'
<1> DEFINE x == [step |-> "save", id |-> id, of |-> v,
                 status |-> IF Valid(v) THEN "validated" ELSE "draft"]
<1>1. call' = [call EXCEPT ![s] = x] /\ UNCHANGED Tables
  BY DEF SaveDraftValidate, Begin, data, Tables
<1>2. x \in SaveCall /\ x.of = v /\ (x.status = "validated" => Valid(v))
  BY DEF SaveCall
<1> HIDE DEF x
<1>3. SaveBacked(x, Entries(types))
  BY <1>2, ExistingIs DEF SaveBacked
<1>4. Backed(x, Entries(types), Entries(flows), drafts)
  BY <1>2, <1>3, CallKinds DEF Backed, IsCall
<1> QED BY <1>1, <1>4, CallOnly

LEMMA PublishBegins ==
    ASSUME IInv, NEW s \in Slots, NEW key \in DraftKeys, PublishBegin(s, key)
    PROVE  IInv'
<1> DEFINE c == [step |-> "type", kind |-> "publish", of |-> drafts[key].version,
                 n |-> 1, id |-> drafts[key].id]
<1>1. call' = [call EXCEPT ![s] = AtObject(c)] /\ UNCHANGED Tables
  BY DEF PublishBegin, Begin, data, Tables
<1>2. drafts[key] \in DraftRow /\ drafts[key] # NoDraft
      /\ Definitions[drafts[key].version].key = key
  BY DEF PublishBegin, IInv, DraftsSound
<1>3. c \in PublishCall /\ c.of = drafts[key].version /\ c.id = drafts[key].id
  BY <1>2 DEF DraftRow, PublishCall, DefSteps
<1>4. validate_builder_definition(Definitions[c.of], Entries(types))
  BY <1>3, ExistingIs DEF PublishBegin
<1> HIDE DEF c
<1>5. Backed(AtObject(c), Entries(types), Entries(flows), drafts)
  BY <1>2, <1>3, <1>4, AtObjectOfDraft
<1> QED BY <1>1, <1>5, CallOnly

LEMMA InstallBegins ==
    ASSUME IInv, NEW s \in Slots, NEW t \in Installable, NEW samples \in BOOLEAN,
           InstallBegin(s, t, samples)
    PROVE  IInv'
<1> DEFINE c == [step |-> "type", kind |-> "install", of |-> t, n |-> 1,
                 samples |-> samples, made |-> 0]
<1>1. call' = [call EXCEPT ![s] = AtObject(c)] /\ UNCHANGED Tables
  BY DEF InstallBegin, Begin, data, Tables
<1>2. c \in InstallCall /\ c.of = t /\ c.n = 1
  BY DEF InstallCall, DefSteps
<1>3. 1 \in DOMAIN template_by_key[t]
  BY TemplatesInOrder DEF InOrder
<1> HIDE DEF c
<1>4. Backed(AtObject(c), Entries(types), Entries(flows), drafts)
  BY <1>2, <1>3, AtObjectOfTemplate
<1> QED BY <1>1, <1>4, CallOnly

LEMMA ModulesAndPlansBegin ==
    ASSUME IInv, NEW s \in Slots,
           \/ ModulesBegin(s)
           \/ \E t \in Installable \cup {None}, for \in {"old", "selected"} : PlanBegin(s, for, t)
    PROVE  IInv'
<1>1. ASSUME ModulesBegin(s) PROVE IInv'
  <2> DEFINE x == [step |-> "module_workflow", n |-> 1]
  <2>1. call' = [call EXCEPT ![s] = x] /\ UNCHANGED Tables
    BY <1>1 DEF ModulesBegin, Begin, data, Tables
  <2>2. x \in ModuleCall /\ x.step = "module_workflow" /\ x.n = 1
    BY DEF ModuleCall
  <2> HIDE DEF x
  <2>3. ModuleBacked(x, Entries(types), Entries(flows))
    BY <2>2, ShippedWorkflows DEF ModuleBacked
  <2>4. Backed(x, Entries(types), Entries(flows), drafts)
    BY <2>2, <2>3, CallKinds DEF Backed, IsCall
  <2> QED BY <2>1, <2>4, CallOnly
<1>2. ASSUME NEW t, NEW for, PlanBegin(s, for, t) PROVE IInv'
  <2> DEFINE x == [step |-> "plan", for |-> for, of |-> t, old |-> TypesNow]
  <2>1. call' = [call EXCEPT ![s] = x] /\ UNCHANGED Tables
    BY <1>2 DEF PlanBegin, Begin, data, Tables
  <2>2. x.step = "plan"
    OBVIOUS
  <2> HIDE DEF x
  <2>3. Backed(x, Entries(types), Entries(flows), drafts)
    BY <2>2, CallKinds DEF Backed, IsCall
  <2> QED BY <2>1, <2>3, CallOnly
<1> QED BY <1>1, <1>2

LEMMA ToObjectType ==
    ASSUME NEW def, NEW ts, NEW fs, FlowStored(def, fs),
           \A i \in DOMAIN def.fields :
              def.fields[i].type = "record_ref" => def.fields[i].ref \in ts
    PROVE  Supported(to_object_type(def), ts, fs)
BY DEF Supported, to_object_type, OT, FlowStored

\* A type that is about to be stored is supported by what is there.
LEMMA TypeReady ==
    ASSUME IInv, NEW s \in Slots, call[s].step \in {"type", "retype"}
    PROVE  LET c == call[s]  key == Def(c).key IN
           /\ c \in PublishCall \cup InstallCall
           /\ c.of \in Origins /\ key \in TypeKeys /\ key \in DOMAIN ObjectType[c.of]
           /\ Supported(ObjectType[c.of][key], Entries(types) \cup {key}, Entries(flows))
<1> DEFINE c == call[s]
           ts == Entries(types)
           fs == Entries(flows)
           def == Def(c)
<1>1. Backed(c, ts, fs, drafts) /\ c \in PublishCall \cup InstallCall
  BY CallAtStep DEF DefSteps
<1>2. CASE c \in PublishCall
  <2>1. c.of \in Drafts /\ def = Definitions[c.of]
    BY <1>2, ObjectOf DEF PublishCall
  <2>2. validate_builder_definition(def, ts) /\ FlowStored(def, fs)
    BY <1>1, <1>2, <2>1 DEF Backed, PublishBacked
  <2>3. c.of \in DOMAIN Definitions /\ c.of \in Origins /\ def.key \in TypeKeys
    BY <2>1, OriginsApart DEF Drafts, TypeKeys
  <2>4. def.key \in DOMAIN ObjectType[c.of] /\ ObjectType[c.of][def.key] = to_object_type(def)
    BY <2>1, <2>3, DefinitionsDefine
  <2> HIDE DEF c, ts, fs, def
  <2>5. \A i \in DOMAIN def.fields :
           def.fields[i].type = "record_ref" => def.fields[i].ref \in ts \cup {def.key}
    BY <2>2 DEF validate_builder_definition, RefResolves
  <2>6. Supported(to_object_type(def), ts \cup {def.key}, fs)
    BY <2>2, <2>5, ToObjectType
  <2> QED BY <1>1, <2>3, <2>4, <2>6 DEF c, ts, fs, def
<1>3. CASE c \in InstallCall
  <2> DEFINE defs == template_by_key[c.of]
  <2>1. c.of \in TemplateKeys /\ def = defs[c.n] /\ c.n \in Nat
    BY <1>3, ObjectOf DEF InstallCall
  <2>2. /\ c.n \in DOMAIN defs /\ FlowStored(def, fs)
        /\ \A m \in 1..(c.n - 1) : Installed(defs[m], ts, fs)
    BY <1>1, <1>3, <2>1 DEF Backed, InstallBacked, DefSteps
  <2>3. c.of \in Origins /\ def.key \in TypeKeys
    BY <2>1, <2>2, OriginsApart, ShippedKeysCover DEF TypeKeys, Keys
  <2>4. def.key \in DOMAIN ObjectType[c.of] /\ ObjectType[c.of][def.key] = to_object_type(def)
    <3>1. c.of \in TemplateKeys /\ c.n \in DOMAIN template_by_key[c.of]
      BY ONLY <2>1, <2>2
    <3>2. LET d == template_by_key[c.of][c.n] IN
          /\ d.key \in DOMAIN ObjectType[c.of]
          /\ ObjectType[c.of][d.key] = to_object_type(d)
      BY ONLY <3>1, TemplateDefines
    <3>3. def = template_by_key[c.of][c.n]
      BY ONLY <2>1
    <3> HIDE DEF def
    <3> QED BY ONLY <3>2, <3>3
  <2>5. Known(def.fields, EarlierKeys(defs, c.n))
    <3>1. InOrder(defs)
      BY <2>1, TemplatesInOrder
    <3> HIDE DEF c, def, defs
    <3> QED BY <2>1, <2>2, <3>1 DEF InOrder
  <2>6. EarlierKeys(defs, c.n) \subseteq ts
    BY <2>2 DEF EarlierKeys, Installed
  <2> HIDE DEF c, ts, fs, def
  <2>7. \A i \in DOMAIN def.fields :
           def.fields[i].type = "record_ref" => def.fields[i].ref \in ts \cup {def.key}
    BY <2>5, <2>6 DEF Known, RefersTo
  <2>8. Supported(to_object_type(def), ts \cup {def.key}, fs)
    BY <2>2, <2>7, ToObjectType
  <2> QED BY <1>1, <2>3, <2>4, <2>8 DEF c, ts, fs, def
<1> QED BY <1>1, <1>2, <1>3

\* A step that stores a type and leaves the other tables
LEMMA StoreType ==
    ASSUME IInv, NEW key \in TypeKeys, NEW origin \in Origins,
           key \in DOMAIN ObjectType[origin],
           origin \notin Direct =>
              Supported(ObjectType[origin][key], Entries(types) \cup {key}, Entries(flows)),
           types' = [types EXCEPT ![key] = origin],
           UNCHANGED <<flows, drafts, announced, installs>>,
           CallsSound(call', Entries(types) \cup {key}, Entries(flows), drafts)
    PROVE  IInv'
<1>1. TablesSound(types', flows) /\ Entries(types') = Entries(types) \cup {key}
  <2>1. TablesSound(types, flows)
    BY DEF IInv
  <2> QED BY <2>1, TypeStored
<1>2. Entries(types) \subseteq Entries(types')
  BY <1>1
<1>3. DraftsSound(drafts, Entries(types'))
  BY <1>2, DraftsStay DEF IInv
<1>4. MarksSound(announced, installs, Entries(types'), Entries(flows))
  BY <1>2, MarksStay DEF IInv
<1> QED BY <1>1, <1>3, <1>4 DEF IInv

\* A step that stores a workflow and leaves the other tables
LEMMA StoreWorkflow ==
    ASSUME IInv, NEW origin \in Origins, NEW key, key \in DOMAIN WorkflowDef[origin],
           validate_workflow(WorkflowDef[origin][key]),
           flows' = [flows EXCEPT ![key] = origin],
           UNCHANGED <<types, drafts, announced, installs>>,
           CallsSound(call', Entries(types), Entries(flows) \cup {key}, drafts)
    PROVE  IInv'
<1>0. TablesSound(types, flows)
  BY DEF IInv
<1>1. TablesSound(types, flows') /\ Entries(flows') = Entries(flows) \cup {key}
  <2>1. TablesSound(types, flows')
    BY <1>0, WorkflowStored
  <2>2. Entries(flows') = Entries(flows) \cup {key}
    <3>1. key \in WorkflowKeys /\ DOMAIN flows = WorkflowKeys
      BY <1>0 DEF TablesSound, WorkflowKeys
    <3> QED BY <3>1, OriginsApart DEF Entries
  <2> QED BY <2>1, <2>2
<1>2. MarksSound(announced, installs, Entries(types), Entries(flows'))
  BY <1>1, MarksStay DEF IInv
<1> QED BY <1>1, <1>2 DEF IInv

LEMMA TypesCreated ==
    ASSUME IInv, NEW s \in Slots, CreateObjectType(s) \/ UpdateObjectType(s)
    PROVE  IInv'
<1> DEFINE c == call[s]
           key == Def(c).key
           ts == Entries(types)
           fs == Entries(flows)
<1>1. c.step \in {"type", "retype"}
  BY DEF CreateObjectType, UpdateObjectType, AtStep
<1>2. /\ c \in PublishCall \cup InstallCall
      /\ c.of \in Origins /\ key \in TypeKeys /\ key \in DOMAIN ObjectType[c.of]
      /\ Supported(ObjectType[c.of][key], ts \cup {key}, fs)
  BY <1>1, TypeReady
<1>3. Backed(c, ts, fs, drafts) /\ CallsSound(call, ts, fs, drafts)
  BY CallAtStep DEF IInv
<1>4. CASE /\ types' = [types EXCEPT ![key] = c.of]
           /\ call' = [call EXCEPT ![s] = AfterType(c)]
           /\ UNCHANGED <<flows, drafts, announced, installs>>
  <2>1. Backed(c, ts \cup {key}, fs, drafts)
    BY <1>3, BackedStays, SameIds
  <2>2. Backed(AfterType(c), ts \cup {key}, fs, drafts)
    BY <1>1, <1>2, <2>1, AfterTypeBacked
  <2>3. CallsSound(call', ts \cup {key}, fs, drafts)
    BY <1>3, <1>4, <2>2, CallSteps, SameIds
  <2> QED BY <1>2, <1>4, <2>3, StoreType
<1>5. CASE /\ call' = [call EXCEPT ![s] = [c EXCEPT !.step = "retype"]]
           /\ c.step = "type"
           /\ UNCHANGED Tables
  <2> DEFINE x == [c EXCEPT !.step = "retype"]
  <2>1. CASE c \in PublishCall
    <3>1. x \in PublishCall /\ x.of = c.of /\ x.id = c.id /\ x.step = "retype"
      BY <2>1 DEF PublishCall, DefSteps
    <3>2. PublishBacked(c, ts, fs, drafts)
      BY <1>3, <2>1 DEF Backed
    <3> HIDE DEF x
    <3>3. PublishBacked(x, ts, fs, drafts)
      BY <1>5, <3>1, <3>2 DEF PublishBacked
    <3> QED BY <1>5, <3>1, <3>3, CallKinds, CallOnly DEF Backed, IsCall, x
  <2>2. CASE c \in InstallCall
    <3>1. x \in InstallCall /\ x.of = c.of /\ x.n = c.n /\ x.step = "retype"
      BY <2>2 DEF InstallCall, DefSteps
    <3>2. InstallBacked(c, ts, fs)
      BY <1>3, <2>2 DEF Backed
    <3> HIDE DEF x
    <3>3. InstallBacked(x, ts, fs)
      BY <1>5, <3>1, <3>2 DEF InstallBacked, DefSteps
    <3> QED BY <1>5, <3>1, <3>3, CallKinds, CallOnly DEF Backed, IsCall, x
  <2> QED BY <1>2, <2>1, <2>2
<1> QED BY <1>4, <1>5 DEF CreateObjectType, UpdateObjectType, AtStep, Goto, Tables

LEMMA WorkflowsCreated ==
    ASSUME IInv, NEW s \in Slots, CreateWorkflow(s)
    PROVE  IInv'
<1> DEFINE c == call[s]
           def == Def(c)
           wf == def.workflow
           ts == Entries(types)
           fs == Entries(flows)
           x == [c EXCEPT !.step = "type"]
<1>1. /\ c.step = "workflow" /\ validate_workflow(wf)
      /\ flows' = [flows EXCEPT ![wf.key] = c.of]
      /\ call' = [call EXCEPT ![s] = x]
      /\ UNCHANGED <<types, drafts, announced, installs>>
  BY DEF CreateWorkflow, AtStep, Goto
<1>2. /\ c \in PublishCall \cup InstallCall /\ Backed(c, ts, fs, drafts)
      /\ CallsSound(call, ts, fs, drafts)
  BY <1>1, CallAtStep DEF DefSteps, IInv
<1>3. /\ c.of \in Origins /\ wf.key \in DOMAIN WorkflowDef[c.of]
      /\ validate_workflow(WorkflowDef[c.of][wf.key])
  <2>1. CASE c \in PublishCall
    <3>1. c.of \in DOMAIN Definitions /\ c.of \in Origins /\ def = Definitions[c.of]
      BY <2>1, ObjectOf, OriginsApart DEF PublishCall, Drafts
    <3>2. wf # None
      BY <1>1, <1>2, <2>1, <3>1 DEF Backed, PublishBacked
    <3> QED BY <1>1, <3>1, <3>2, DefinitionsDefine
  <2>2. CASE c \in InstallCall
    <3>1. c.of \in TemplateKeys /\ c.of \in Origins /\ def = template_by_key[c.of][c.n]
      BY <2>2, ObjectOf, OriginsApart DEF InstallCall
    <3>2. wf # None /\ c.n \in DOMAIN template_by_key[c.of]
      BY <1>1, <1>2, <2>2, <3>1 DEF Backed, InstallBacked, DefSteps
    <3> QED BY <3>1, <3>2, TemplatesDefine
  <2> QED BY <1>2, <2>1, <2>2
<1> DEFINE fs2 == fs \cup {wf.key}
<1>4. FlowStored(def, fs2)
  BY DEF FlowStored
<1>5. Backed(c, ts, fs2, drafts)
  BY <1>2, BackedStays, SameIds
<1>6. Backed(x, ts, fs2, drafts)
  <2>1. CASE c \in PublishCall
    <3>1. x \in PublishCall /\ x.of = c.of /\ x.id = c.id /\ x.step = "type"
      BY <2>1 DEF PublishCall, DefSteps
    <3>2. PublishBacked(c, ts, fs2, drafts) /\ def = Definitions[c.of]
      BY <1>5, <2>1, ObjectOf DEF Backed
    <3> HIDE DEF x, fs2, def
    <3>3. PublishBacked(x, ts, fs2, drafts)
      BY <1>4, <3>1, <3>2 DEF PublishBacked
    <3> QED BY <3>1, <3>3, CallKinds DEF Backed, IsCall
  <2>2. CASE c \in InstallCall
    <3>1. x \in InstallCall /\ x.of = c.of /\ x.n = c.n /\ x.step = "type"
      BY <2>2 DEF InstallCall, DefSteps
    <3>2. InstallBacked(c, ts, fs2) /\ def = template_by_key[c.of][c.n]
      BY <1>5, <2>2, ObjectOf DEF Backed
    <3> HIDE DEF x, fs2, def
    <3>3. InstallBacked(x, ts, fs2)
      BY <1>1, <1>4, <3>1, <3>2 DEF InstallBacked, DefSteps
    <3> QED BY <3>1, <3>3, CallKinds DEF Backed, IsCall
  <2> QED BY <1>2, <2>1, <2>2
<1>7. CallsSound(call', ts, fs2, drafts)
  BY <1>1, <1>2, <1>6, CallSteps, SameIds
<1> HIDE DEF x, c, wf
<1> QED BY <1>1, <1>3, <1>7, StoreWorkflow DEF ts, fs2, fs

\* The row of a key keeps its id, and a new row brings a new one.
RowMayBe(ds, key, row) ==
    \/ ds[key] = NoDraft /\ \A j \in DraftKeys : ds[j].id # row.id
    \/ ds[key] # NoDraft /\ ds[key].id = row.id

LEMMA DraftStored ==
    ASSUME NEW ds, NEW ts, DraftsSound(ds, ts), NEW key \in DraftKeys, NEW row \in DraftRow,
           Definitions[row.version].key = key,
           RowMayBe(ds, key, row),
           row.status = "validated" =>
              validate_builder_definition(Definitions[row.version], ts),
           row.status = "published" => key \in ts,
           NEW ds2, ds2 = [ds EXCEPT ![key] = row]
    PROVE  DraftsSound(ds2, ts) /\ KeepIds(ds, ds2)
<1>1. /\ ds2 \in [DraftKeys -> DraftRow \cup {NoDraft}]
      /\ ds2[key] = row /\ \A k \in DraftKeys \ {key} : ds2[k] = ds[k]
  BY DEF DraftsSound
<1>2. row.id # None /\ NoDraft.id = None /\ row # NoDraft
  BY DEF DraftRow, NoDraft
<1>3. \A j \in DraftKeys \ {key} : ds[j].id # row.id
  BY <1>2 DEF DraftsSound, RowMayBe
<1>4. ASSUME NEW k \in DraftKeys, ds2[k] # NoDraft
      PROVE  /\ Definitions[ds2[k].version].key = k
             /\ \A j \in DraftKeys : ds2[j].id = ds2[k].id => j = k
             /\ ds2[k].status = "validated" =>
                   validate_builder_definition(Definitions[ds2[k].version], ts)
             /\ ds2[k].status = "published" => k \in ts
  <2>1. CASE k = key
    BY <2>1, <1>1, <1>3
  <2>2. CASE k # key
    <3>1. ds2[k] = ds[k] /\ ds[k].id # row.id
      BY <2>2, <1>1, <1>3
    <3>2. /\ Definitions[ds[k].version].key = k
          /\ \A j \in DraftKeys : ds[j].id = ds[k].id => j = k
          /\ ds[k].status = "validated" =>
                validate_builder_definition(Definitions[ds[k].version], ts)
          /\ ds[k].status = "published" => k \in ts
      BY <1>4, <3>1 DEF DraftsSound
    <3>3. \A j \in DraftKeys : ds2[j].id = ds[k].id => j = k
      BY <1>1, <3>1, <3>2
    <3> QED BY <3>1, <3>2, <3>3
  <2> QED BY <2>1, <2>2
<1>5. DraftsSound(ds2, ts)
  BY <1>1, <1>4 DEF DraftsSound
<1>6. KeepIds(ds, ds2)
  BY <1>1, <1>2 DEF KeepIds, RowMayBe
<1> QED BY <1>5, <1>6

\* A step that writes drafts and leaves the other tables
LEMMA StoreDrafts ==
    ASSUME IInv, UNCHANGED <<types, flows, announced, installs>>,
           DraftsSound(drafts', Entries(types)), KeepIds(drafts, drafts'),
           NEW s \in Slots, NEW x, call' = [call EXCEPT ![s] = x],
           Backed(x, Entries(types), Entries(flows), drafts')
    PROVE  IInv'
<1>1. CallsSound(call', Entries(types), Entries(flows), drafts')
  BY CallSteps DEF IInv
<1> QED BY <1>1 DEF IInv

LEMMA RowRewritten ==
    ASSUME NEW old \in DraftRow, NEW v, NEW st
    PROVE  [old EXCEPT !.version = v, !.status = st]
              = [id |-> old.id, version |-> v, status |-> st]
<1> DEFINE new == [old EXCEPT !.version = v, !.status = st]
           row == [id |-> old.id, version |-> v, status |-> st]
<1>1. DOMAIN new = {"id", "version", "status"} /\ new = [i \in DOMAIN new |-> new[i]]
  BY DEF DraftRow
<1>2. DOMAIN row = {"id", "version", "status"} /\ row = [i \in DOMAIN row |-> row[i]]
  OBVIOUS
<1>3. new["id"] = row["id"] /\ new["version"] = row["version"] /\ new["status"] = row["status"]
  BY DEF DraftRow
<1> HIDE DEF new, row
<1> QED BY <1>1, <1>2, <1>3 DEF new, row

LEMMA DraftsSaved ==
    ASSUME IInv, NEW s \in Slots, SaveDraftCommit(s)
    PROVE  IInv'
<1> DEFINE c == call[s]
           key == Definitions[c.of].key
           ts == Entries(types)
<1>1. /\ c \in SaveCall /\ SaveBacked(c, ts)
      /\ call' = [call EXCEPT ![s] = Idle]
      /\ UNCHANGED <<types, flows, announced, installs>>
  BY CallAtStep DEF SaveDraftCommit, AtStep, Goto, Backed
<1>2. DraftsSound(drafts, ts)
  BY DEF IInv
<1>3. /\ c.of \in Drafts /\ c.id \in DraftIds /\ c.status \in {"draft", "validated"}
      /\ key \in DraftKeys
  BY <1>1 DEF SaveCall, DraftKeys
<1>4. CASE UNCHANGED drafts
  BY <1>1, <1>4, IdleBacked, CallOnly DEF Tables
<1>5. CASE /\ drafts[key] = NoDraft /\ c.id \notin {row.id : row \in DraftRows}
           /\ drafts' = [drafts EXCEPT ![key] = [id |-> c.id, version |-> c.of,
                                                 status |-> c.status]]
  <2> DEFINE row == [id |-> c.id, version |-> c.of, status |-> c.status]
  <2>1. row \in DraftRow /\ row.version = c.of /\ row.id = c.id /\ row.status = c.status
    BY <1>3 DEF DraftRow
  <2>2. RowMayBe(drafts, key, row)
    BY <1>3, <1>5 DEF DraftRows, NoDraft, RowMayBe
  <2>3. drafts' = [drafts EXCEPT ![key] = row]
    BY <1>5
  <2>4. /\ Definitions[row.version].key = key /\ row.status # "published"
        /\ row.status = "validated" =>
              validate_builder_definition(Definitions[row.version], ts)
    BY <1>1, <1>3 DEF SaveBacked
  <2> HIDE DEF row
  <2>5. DraftsSound(drafts', ts) /\ KeepIds(drafts, drafts')
    <3> HIDE DEF c, ts, key
    <3> QED BY <1>2, <1>3, <2>1, <2>2, <2>3, <2>4, DraftStored
  <2> QED BY <1>1, <2>5, IdleBacked, StoreDrafts
<1>6. CASE /\ drafts[key] # NoDraft
           /\ drafts' = [drafts EXCEPT ![key] =
                            [@ EXCEPT !.version = c.of, !.status = c.status]]
  <2> DEFINE row == [id |-> drafts[key].id, version |-> c.of, status |-> c.status]
  <2>1. drafts[key] \in DraftRow
    BY <1>2, <1>3, <1>6 DEF DraftsSound
  <2>2. row \in DraftRow /\ row.version = c.of /\ row.id = drafts[key].id
        /\ row.status = c.status
    BY <1>3, <2>1 DEF DraftRow
  <2>3. drafts' = [drafts EXCEPT ![key] = row]
    <3>1. [drafts[key] EXCEPT !.version = c.of, !.status = c.status] = row
      <4> HIDE DEF c, key
      <4> QED BY <2>1, RowRewritten
    <3> QED BY <1>6, <3>1
  <2>6. RowMayBe(drafts, key, row)
    BY <1>6, <2>2 DEF RowMayBe
  <2>4. /\ Definitions[row.version].key = key /\ row.status # "published"
        /\ row.status = "validated" =>
              validate_builder_definition(Definitions[row.version], ts)
    BY <1>1, <1>3 DEF SaveBacked
  <2> HIDE DEF row
  <2>5. DraftsSound(drafts', ts) /\ KeepIds(drafts, drafts')
    <3> HIDE DEF c, ts, key
    <3> QED BY <1>2, <1>3, <2>2, <2>3, <2>4, <2>6, DraftStored
  <2> QED BY <1>1, <2>5, IdleBacked, StoreDrafts
<1> QED BY <1>4, <1>5, <1>6 DEF SaveDraftCommit

LEMMA DraftsMarked ==
    ASSUME IInv, NEW s \in Slots, PublishMark(s)
    PROVE  IInv'
<1> DEFINE c == call[s]
           key == Definitions[c.of].key
           ts == Entries(types)
           x == [c EXCEPT !.step = "event"]
           row == [id |-> drafts[key].id, version |-> drafts[key].version,
                   status |-> "published"]
<1>1. /\ c.step = "mark" /\ c \in PublishCall /\ PublishBacked(c, ts, Entries(flows), drafts)
      /\ call' = [call EXCEPT ![s] = x]
      /\ UNCHANGED <<types, flows, announced, installs>>
      /\ drafts' = [k \in DraftKeys |->
                      IF drafts[k].id = c.id THEN [drafts[k] EXCEPT !.status = "published"]
                      ELSE drafts[k]]
  BY CallAtStep DEF PublishMark, AtStep, Goto, Backed
<1>2. DraftsSound(drafts, ts)
  BY DEF IInv
<1>3. key \in DraftKeys /\ key \in ts /\ drafts[key] # NoDraft /\ drafts[key].id = c.id
  BY <1>1 DEF PublishCall, DraftKeys, PublishBacked
<1>4. /\ drafts[key] \in DraftRow /\ Definitions[drafts[key].version].key = key
      /\ \A j \in DraftKeys : drafts[j].id = c.id => j = key
  <2> HIDE DEF c, ts, key, x, row
  <2>1. /\ drafts[key] \in DraftRow \cup {NoDraft}
        /\ Definitions[drafts[key].version].key = key
        /\ \A j \in DraftKeys : drafts[j].id = drafts[key].id => j = key
    BY <1>2, <1>3 DEF DraftsSound
  <2> QED BY <1>3, <2>1
<1>5. /\ row \in DraftRow /\ row.id = drafts[key].id /\ row.version = drafts[key].version
      /\ row.status = "published" /\ row = [drafts[key] EXCEPT !.status = "published"]
  <2> DEFINE d == drafts[key]
  <2>1. d \in DraftRow
    BY <1>4
  <2> HIDE DEF d
  <2>2. /\ [id |-> d.id, version |-> d.version, status |-> "published"] \in DraftRow
        /\ [id |-> d.id, version |-> d.version, status |-> "published"]
              = [d EXCEPT !.status = "published"]
    BY <2>1 DEF DraftRow
  <2> QED BY <2>2 DEF d
<1> HIDE DEF c, ts, key, x, row
<1>6. drafts' = [drafts EXCEPT ![key] = row]
  <2>1. DOMAIN drafts = DraftKeys
    BY <1>2 DEF DraftsSound
  <2>2. \A k \in DraftKeys : drafts[k].id = c.id <=> k = key
    BY <1>3, <1>4
  <2>3. [drafts EXCEPT ![key] = row] = [k \in DraftKeys |-> IF k = key THEN row ELSE drafts[k]]
    BY <2>1
  <2>4. drafts' = [k \in DraftKeys |->
                     IF drafts[k].id = c.id THEN [drafts[k] EXCEPT !.status = "published"]
                     ELSE drafts[k]]
    BY <1>1
  <2>5. drafts' = [k \in DraftKeys |-> IF k = key THEN row ELSE drafts[k]]
    BY <1>5, <2>2, <2>4
  <2> QED BY <2>3, <2>5
<1>7. DraftsSound(drafts', ts) /\ KeepIds(drafts, drafts')
  <2>1. RowMayBe(drafts, key, row)
    BY <1>3, <1>5 DEF RowMayBe
  <2> QED BY <1>2, <1>3, <1>4, <1>5, <1>6, <2>1, DraftStored
<1>8. /\ x \in PublishCall /\ x.of = c.of /\ x.id = c.id /\ x.step = "event"
  BY <1>1 DEF PublishCall, x
<1>9. PublishBacked(x, ts, Entries(flows), drafts')
  BY <1>1, <1>3, <1>7, <1>8 DEF PublishBacked, KeepIds, key
<1>10. Backed(x, ts, Entries(flows), drafts')
  BY <1>8, <1>9, CallKinds DEF Backed, IsCall
<1> QED BY <1>1, <1>7, <1>10, StoreDrafts DEF ts

LEMMA KeysAnnounced ==
    ASSUME IInv, NEW s \in Slots, PublishEvent(s)
    PROVE  IInv'
<1> DEFINE c == call[s]
           ts == Entries(types)
<1>1. /\ c.step = "event" /\ c \in PublishCall /\ PublishBacked(c, ts, Entries(flows), drafts)
      /\ call' = [call EXCEPT ![s] = Idle]
      /\ announced' = announced \cup {Definitions[c.of].key}
      /\ UNCHANGED <<types, flows, drafts, installs>>
  BY CallAtStep DEF PublishEvent, AtStep, Goto, Backed
<1>2. Definitions[c.of].key \in ts
  BY <1>1 DEF PublishBacked
<1>3. MarksSound(announced', installs, ts, Entries(flows))
  BY <1>1, <1>2 DEF IInv, MarksSound
<1>4. CallsSound(call', ts, Entries(flows), drafts)
  BY <1>1, IdleBacked, CallSteps, SameIds DEF IInv
<1> QED BY <1>1, <1>3, <1>4 DEF IInv

\* An install that is past its object types goes on, or ends.
LEMMA InstallGoesOn ==
    ASSUME IInv, NEW s \in Slots, LaterStep(call[s]), UNCHANGED Tables,
           NEW x, call' = [call EXCEPT ![s] = x],
           (LaterStep(x) /\ x.of = call[s].of) \/ x = Idle
    PROVE  IInv'
<1>1. AllInstalled(call[s].of, Entries(types), Entries(flows))
  BY CallAtStep DEF Backed, LaterStep, InstallBacked, AllInstalled
<1>2. Backed(x, Entries(types), Entries(flows), drafts)
  BY <1>1, LaterBacked, IdleBacked
<1> QED BY <1>2, CallOnly

\* A later step of the install, or none
GoesTo(s, x) ==
    /\ call' = [call EXCEPT ![s] = x]
    /\ (LaterStep(x) /\ x.of = call[s].of) \/ x = Idle

LEMMA InstallMoves ==
    ASSUME IInv, NEW s \in Slots,
           InstallSample(s) \/ InstallSubmit(s) \/ InstallApprove(s) \/ InstallReport(s)
    PROVE  LaterStep(call[s]) /\ UNCHANGED Tables /\ \E x : GoesTo(s, x)
<1> DEFINE c == call[s]
<1>1. /\ c.step \in {"sample", "submit", "approve", "report"} /\ UNCHANGED Tables
      /\ LaterStep(c) /\ c \in InstallCall
  BY CallAtStep DEF InstallSample, InstallSubmit, InstallApprove, InstallReport, AtStep,
                    Tables, LaterStep
<1>2. /\ c.made + 1 \in Nat /\ c.n + 1 \in Nat
  BY <1>1 DEF InstallCall
<1>3. /\ LaterStep([c EXCEPT !.made = @ + 1]) /\ [c EXCEPT !.made = @ + 1].of = c.of
      /\ LaterStep([c EXCEPT !.n = @ + 1]) /\ [c EXCEPT !.n = @ + 1].of = c.of
  <2> DEFINE x == [c EXCEPT !.made = @ + 1]
             y == [c EXCEPT !.n = @ + 1]
  <2>1. x \in InstallCall /\ x.of = c.of /\ x.step = c.step
    BY <1>1, <1>2 DEF InstallCall
  <2>2. y \in InstallCall /\ y.of = c.of /\ y.step = c.step
    BY <1>1, <1>2 DEF InstallCall
  <2> HIDE DEF x, y
  <2>3. LaterStep(x) /\ LaterStep(y)
    BY <1>1, <2>1, <2>2 DEF LaterStep
  <2> QED BY <2>1, <2>2, <2>3 DEF x, y
<1>4. /\ LaterStep([c EXCEPT !.step = "submit", !.made = 0])
      /\ [c EXCEPT !.step = "submit", !.made = 0].of = c.of
  BY <1>1 DEF LaterStep, InstallCall, DefSteps
<1>5. /\ LaterStep([c EXCEPT !.step = "approve"]) /\ [c EXCEPT !.step = "approve"].of = c.of
      /\ LaterStep([c EXCEPT !.step = "audit"]) /\ [c EXCEPT !.step = "audit"].of = c.of
  BY <1>1 DEF LaterStep, InstallCall, DefSteps
<1>6. /\ LaterStep(NextSample(c)) /\ NextSample(c).of = c.of
      /\ LaterStep(AfterInvoice(c)) /\ AfterInvoice(c).of = c.of
  BY <1>1, LaterSteps
<1>7. \E x : GoesTo(s, x)
  <2>1. CASE InstallSample(s)
    <3>1. \/ call' = [call EXCEPT ![s] = [c EXCEPT !.made = @ + 1]]
          \/ call' = [call EXCEPT ![s] = [c EXCEPT !.step = "submit", !.made = 0]]
          \/ call' = [call EXCEPT ![s] = NextSample(c)]
          \/ call' = [call EXCEPT ![s] = Idle]
      BY <2>1 DEF InstallSample, Goto
    <3> QED BY <3>1, <1>3, <1>4, <1>6 DEF GoesTo
  <2>2. CASE InstallSubmit(s)
    <3>1. \/ call' = [call EXCEPT ![s] = [c EXCEPT !.step = "approve"]]
          \/ call' = [call EXCEPT ![s] = AfterInvoice(c)]
      BY <2>2 DEF InstallSubmit, Goto
    <3> QED BY <3>1, <1>5, <1>6 DEF GoesTo
  <2>3. CASE InstallApprove(s)
    <3>1. call' = [call EXCEPT ![s] = AfterInvoice(c)]
      BY <2>3 DEF InstallApprove, Goto
    <3> QED BY <3>1, <1>6 DEF GoesTo
  <2>4. CASE InstallReport(s)
    <3>1. \/ call' = [call EXCEPT ![s] = [c EXCEPT !.n = @ + 1]]
          \/ call' = [call EXCEPT ![s] = [c EXCEPT !.step = "audit"]]
      BY <2>4 DEF InstallReport
    <3> QED BY <3>1, <1>3, <1>5 DEF GoesTo
  <2> QED BY <2>1, <2>2, <2>3, <2>4
<1> QED BY <1>1, <1>7

LEMMA InstallsGoOn ==
    ASSUME IInv, NEW s \in Slots,
           InstallSample(s) \/ InstallSubmit(s) \/ InstallApprove(s) \/ InstallReport(s)
    PROVE  IInv'
<1>1. LaterStep(call[s]) /\ UNCHANGED Tables /\ \E x : GoesTo(s, x)
  BY InstallMoves
<1>2. PICK x : GoesTo(s, x)
  BY <1>1
<1> QED BY <1>1, <1>2, InstallGoesOn DEF GoesTo

LEMMA InstallsAudited ==
    ASSUME IInv, NEW s \in Slots, InstallAudit(s)
    PROVE  IInv'
<1> DEFINE c == call[s]
           ts == Entries(types)
           fs == Entries(flows)
<1>1. /\ LaterStep(c) /\ Backed(c, ts, fs, drafts)
      /\ call' = [call EXCEPT ![s] = Idle]
      /\ installs' = installs \cup {c.of}
      /\ UNCHANGED <<types, flows, drafts, announced>>
  BY CallAtStep DEF InstallAudit, AtStep, Goto
<1>2. AllInstalled(c.of, ts, fs) /\ c.of \in TemplateKeys
  BY <1>1 DEF Backed, LaterStep, InstallBacked, AllInstalled, InstallCall
<1>3. MarksSound(announced, installs', ts, fs)
  BY <1>1, <1>2 DEF IInv, MarksSound, AllInstalled
<1>4. CallsSound(call', ts, fs, drafts)
  BY <1>1, IdleBacked, CallSteps, SameIds DEF IInv
<1> QED BY <1>1, <1>3, <1>4 DEF IInv

\* The steps of an install of the modules
LEMMA ModuleStep ==
    ASSUME NEW c \in ModuleCall, NEW length, NEW phase,
           phase \in {"module_type", "module_role", "end"}
    PROVE  LET x == NextModuleStep(c, length, phase) IN
           \/ c.n < length /\ x \in ModuleCall /\ x.step = c.step /\ x.n = c.n + 1
           \/ ~(c.n < length) /\ phase # "end" /\ x \in ModuleCall /\ x.step = phase /\ x.n = 1
           \/ x = Idle
<1>1. CASE c.n < length
  <2>1. c.n + 1 \in Nat
    BY DEF ModuleCall
  <2>2. NextModuleStep(c, length, phase) = [c EXCEPT !.n = @ + 1]
    BY <1>1 DEF NextModuleStep
  <2> QED BY <1>1, <2>1, <2>2 DEF ModuleCall
<1>2. CASE ~(c.n < length) /\ phase # "end"
  BY <1>2 DEF NextModuleStep, ModuleCall
<1>3. CASE ~(c.n < length) /\ phase = "end"
  BY <1>3 DEF NextModuleStep
<1> QED BY <1>1, <1>2, <1>3

LEMMA ModulesBacked ==
    ASSUME NEW x, NEW ts, NEW fs, NEW ds, x \in ModuleCall, ModuleBacked(x, ts, fs)
    PROVE  Backed(x, ts, fs, ds)
BY CallKinds DEF Backed, IsCall

LEMMA ModuleWorkflows ==
    ASSUME IInv, NEW s \in Slots, ModuleWorkflow(s)
    PROVE  IInv'
<1> DEFINE c == call[s]
           key == workflows[c.n].key
           ts == Entries(types)
           fs2 == Entries(flows) \cup {key}
           x == NextModuleStep(c, Len(workflows), "module_type")
<1>1. /\ c.step = "module_workflow" /\ c \in ModuleCall /\ ModuleBacked(c, ts, Entries(flows))
      /\ flows' = [flows EXCEPT ![key] = "modules"]
      /\ call' = [call EXCEPT ![s] = x]
      /\ UNCHANGED <<types, drafts, announced, installs>>
  BY CallAtStep DEF ModuleWorkflow, AtStep, Goto, Backed
<1>2. /\ c.n \in 1..3 /\ \A m \in 1..(c.n - 1) : workflows[m].key \in Entries(flows)
      /\ DOMAIN workflows = 1..3 /\ Len(workflows) = 3
  BY <1>1, ShippedWorkflows DEF ModuleBacked
<1>3. \A m \in 1..c.n : workflows[m].key \in fs2
  BY <1>2
<1>4. /\ key \in DOMAIN WorkflowDef["modules"] /\ "modules" \in Origins
      /\ validate_workflow(WorkflowDef["modules"][key])
  BY <1>2, ModulesDefine, OriginsApart
<1>5. \/ c.n < 3 /\ x \in ModuleCall /\ x.step = c.step /\ x.n = c.n + 1
      \/ ~(c.n < 3) /\ x \in ModuleCall /\ x.step = "module_type" /\ x.n = 1
      \/ x = Idle
  BY <1>1, <1>2, ModuleStep
<1> HIDE DEF x
<1>6. Backed(x, ts, fs2, drafts)
  <2>1. CASE c.n < 3 /\ x \in ModuleCall /\ x.step = c.step /\ x.n = c.n + 1
    <3>1. x.n \in DOMAIN workflows /\ x.n - 1 = c.n
      BY <1>2, <2>1
    <3>2. ModuleBacked(x, ts, fs2)
      BY <1>1, <1>3, <2>1, <3>1 DEF ModuleBacked
    <3> QED BY <2>1, <3>2, ModulesBacked
  <2>2. CASE ~(c.n < 3) /\ x \in ModuleCall /\ x.step = "module_type" /\ x.n = 1
    <3>1. Keys(workflows) \subseteq fs2
      <4>1. c.n = 3
        BY <1>2, <2>2
      <4> QED BY <1>2, <1>3, <4>1 DEF Keys
    <3>2. ModuleBacked(x, ts, fs2)
      BY <2>2, <3>1, ObjectTypesKeys DEF ModuleBacked
    <3> QED BY <2>2, <3>2, ModulesBacked
  <2>3. CASE x = Idle
    BY <2>3, IdleBacked
  <2> QED BY <1>5, <2>1, <2>2, <2>3
<1>7. CallsSound(call', ts, fs2, drafts)
  BY <1>1, <1>6, CallSteps, SameIds DEF IInv
<1> HIDE DEF c, key
<1> QED BY <1>1, <1>4, <1>7, StoreWorkflow DEF ts, fs2

LEMMA ModuleTypes ==
    ASSUME IInv, NEW s \in Slots, ModuleType(s)
    PROVE  IInv'
<1> DEFINE c == call[s]
           key == object_types[c.n].key
           ts == Entries(types)
           fs == Entries(flows)
           x == NextModuleStep(c, Len(object_types), "module_role")
<1>1. /\ c.step = "module_type" /\ c \in ModuleCall /\ ModuleBacked(c, ts, fs)
      /\ UNCHANGED <<flows, drafts, announced, installs>>
      /\ \/ types' = [types EXCEPT ![key] = "modules"] /\ call' = [call EXCEPT ![s] = x]
         \/ UNCHANGED types /\ call' = [call EXCEPT ![s] = Idle]
  BY CallAtStep DEF ModuleType, AtStep, Goto, Backed
<1>2. CASE UNCHANGED types /\ call' = [call EXCEPT ![s] = Idle]
  BY <1>1, <1>2, IdleBacked, CallOnly DEF Tables
<1>3. CASE types' = [types EXCEPT ![key] = "modules"] /\ call' = [call EXCEPT ![s] = x]
  <2>1. /\ c.n \in 1..24 /\ DOMAIN object_types = 1..24 /\ Len(object_types) = 24
        /\ \A m \in 1..(c.n - 1) : object_types[m].key \in ts
        /\ Keys(workflows) \subseteq fs
    BY <1>1, ObjectTypesKeys DEF ModuleBacked
  <2>2. /\ key \in DOMAIN ObjectType["modules"] /\ key \in TypeKeys /\ "modules" \in Origins
        /\ ObjectType["modules"][key] = object_types[c.n]
    BY <2>1, ModulesDefine, OriginsApart, ShippedKeysCover DEF TypeKeys, Keys
  <2>3. Known(object_types[c.n].fields, EarlierKeys(object_types, c.n))
    BY <2>1, ObjectTypesInOrder DEF InOrder
  <2>4. EarlierKeys(object_types, c.n) \subseteq ts
    BY <2>1 DEF EarlierKeys
  <2>5. Supported(ObjectType["modules"][key], ts \cup {key}, fs)
    <3>1. object_types[c.n].workflow # None => object_types[c.n].workflow \in fs
      BY <2>1, ShippedTypesWithWorkflow
    <3> QED BY <2>2, <2>3, <2>4, <3>1 DEF Supported, Known, RefersTo
  <2>6. \/ c.n < 24 /\ x \in ModuleCall /\ x.step = c.step /\ x.n = c.n + 1
        \/ ~(c.n < 24) /\ x \in ModuleCall /\ x.step = "module_role" /\ x.n = 1
        \/ x = Idle
    BY <1>1, <2>1, ModuleStep
  <2> HIDE DEF x
  <2>7. Backed(x, ts \cup {key}, fs, drafts)
    <3>1. CASE c.n < 24 /\ x \in ModuleCall /\ x.step = c.step /\ x.n = c.n + 1
      <4>1. x.n \in DOMAIN object_types /\ x.n - 1 = c.n
        BY <2>1, <3>1
      <4>2. \A m \in 1..c.n : object_types[m].key \in ts \cup {key}
        BY <2>1
      <4>3. ModuleBacked(x, ts \cup {key}, fs)
        BY <1>1, <2>1, <3>1, <4>1, <4>2 DEF ModuleBacked
      <4> QED BY <3>1, <4>3, ModulesBacked
    <3>2. CASE x \in ModuleCall /\ x.step = "module_role"
      <4>1. ModuleBacked(x, ts \cup {key}, fs)
        BY <2>1, <3>2 DEF ModuleBacked
      <4> QED BY <3>2, <4>1, ModulesBacked
    <3>3. CASE x = Idle
      BY <3>3, IdleBacked
    <3> QED BY <2>6, <3>1, <3>2, <3>3
  <2>8. CallsSound(call', ts \cup {key}, fs, drafts)
    BY <1>3, <2>7, CallSteps, SameIds DEF IInv
  <2> HIDE DEF c, key
  <2> QED BY <1>1, <1>3, <2>2, <2>5, <2>8, StoreType DEF ts, fs
<1> QED BY <1>1, <1>2, <1>3

LEMMA ModuleRoles ==
    ASSUME IInv, NEW s \in Slots, ModuleRole(s)
    PROVE  IInv'
<1> DEFINE c == call[s]
           ts == Entries(types)
           fs == Entries(flows)
           x == NextModuleStep(c, Len(RoleOrder), "end")
<1>1. /\ c.step = "module_role" /\ c \in ModuleCall /\ ModuleBacked(c, ts, fs)
      /\ UNCHANGED Tables
      /\ call' = [call EXCEPT ![s] = x] \/ call' = [call EXCEPT ![s] = Idle]
  BY CallAtStep DEF ModuleRole, AtStep, Goto, Backed, Tables
<1>2. x = Idle \/ (x \in ModuleCall /\ x.step = "module_role")
  BY <1>1, ModuleStep
<1> HIDE DEF x
<1>3. x \in ModuleCall /\ x.step = "module_role" => ModuleBacked(x, ts, fs)
  BY <1>1 DEF ModuleBacked
<1>4. Backed(x, ts, fs, drafts) /\ Backed(Idle, ts, fs, drafts)
  BY <1>2, <1>3, ModulesBacked, IdleBacked
<1> QED BY <1>1, <1>4, CallOnly

LEMMA DirectTypes ==
    ASSUME IInv, NEW v \in Direct, DefineType(v)
    PROVE  IInv'
<1> DEFINE key == Definitions[v].key
<1>1. /\ types' = [types EXCEPT ![key] = v]
      /\ UNCHANGED <<flows, drafts, announced, installs, call>>
  BY DEF DefineType
<1>2. v \in DOMAIN Definitions /\ v \in Origins /\ key \in TypeKeys
  BY OriginsApart DEF TypeKeys, BuilderAssumption
<1>3. key \in DOMAIN ObjectType[v]
  BY <1>2, DefinitionsDefine
<1>4. CallsSound(call', Entries(types) \cup {key}, Entries(flows), drafts)
  BY <1>1, CallsStay, SameIds DEF IInv
<1> QED BY <1>1, <1>2, <1>3, <1>4, StoreType

LEMMA Unchanged_ == ASSUME IInv, UNCHANGED <<Tables, call>> PROVE IInv'
BY DEF IInv, Tables

LEMMA StepSound == IInv /\ [Next]_vars => IInv'
<1> SUFFICES ASSUME IInv, [Next]_vars PROVE IInv'
  OBVIOUS
<1>1. ASSUME NEW s \in Slots,
             \/ \E id \in DraftIds, v \in Drafts : SaveDraftValidate(s, id, v)
             \/ \E key \in DraftKeys : PublishBegin(s, key)
             \/ \E t \in Installable, samples \in BOOLEAN : InstallBegin(s, t, samples)
             \/ \E t \in Installable \cup {None}, for \in {"old", "selected"} :
                   PlanBegin(s, for, t)
             \/ ModulesBegin(s)
      PROVE  IInv'
  BY <1>1, SaveBegins, PublishBegins, InstallBegins, ModulesAndPlansBegin
<1>2. ASSUME NEW s \in Slots,
             \/ SaveDraftCommit(s)
             \/ CreateWorkflow(s) \/ CreateObjectType(s) \/ UpdateObjectType(s)
             \/ PublishMark(s) \/ PublishEvent(s)
      PROVE  IInv'
  BY <1>2, DraftsSaved, WorkflowsCreated, TypesCreated, DraftsMarked, KeysAnnounced
<1>3. ASSUME NEW s \in Slots,
             \/ InstallSample(s) \/ InstallSubmit(s) \/ InstallApprove(s)
             \/ InstallReport(s) \/ InstallAudit(s)
             \/ ModuleWorkflow(s) \/ ModuleType(s) \/ ModuleRole(s)
      PROVE  IInv'
  BY <1>3, InstallsGoOn, InstallsAudited, ModuleWorkflows, ModuleTypes, ModuleRoles
<1>4. ASSUME NEW s \in Slots, PlanReply(s) \/ Abort(s)
      PROVE  IInv'
  <2>1. call' = [call EXCEPT ![s] = Idle] /\ UNCHANGED Tables
    BY <1>4 DEF PlanReply, Abort, Goto, data, Tables
  <2> QED BY <2>1, IdleBacked, CallOnly
<1>5. ASSUME NEW v \in Direct, DefineType(v) PROVE IInv'
  BY <1>5, DirectTypes
<1>6. ASSUME (\E key \in UserTypes : CreateRecord(key)) \/ Rest \/ UNCHANGED vars
      PROVE  IInv'
  <2>1. UNCHANGED <<Tables, call>>
    BY <1>6 DEF CreateRecord, Rest, vars, Tables
  <2> QED BY <2>1, Unchanged_
<1> QED BY <1>1, <1>2, <1>3, <1>4, <1>5, <1>6 DEF Next

-----------------------------------------------------------------------------
(* The theorems *)

(***************************************************************************)
(* The inductive invariant holds: each stored definition is supported by   *)
(* what is stored, and each running call by what it has stored or checked. *)
(***************************************************************************)
THEOREM TypesAreSupported == Spec => []IInv
BY InitSound, StepSound, PTL DEF Spec

\* A governed type is supported.
LEMMA GovernedSupported ==
    ASSUME IInv, NEW k \in Governed
    PROVE  /\ k \in Entries(types) /\ types[k] \in Origins
           /\ Supported(Stored(types, k), Entries(types), Entries(flows))
<1>1. k \in Entries(types) /\ types[k] \in Origins /\ types[k] \notin Direct
  BY DEF IInv, TablesSound, Governed, Entries
<1> QED BY <1>1 DEF IInv, TablesSound

(***************************************************************************)
(* Every reference of a type stored through the builder, a template or the *)
(* modules names a stored type, whatever calls run at the same time or are *)
(* cut off (builder.rs publish_builder_draft, install_builder_template;    *)
(* install.rs).                                                            *)
(***************************************************************************)
THEOREM ReferencesAlwaysResolve == Spec => []ReferencesResolve
<1>1. IInv => ReferencesResolve
  <2> SUFFICES ASSUME IInv, NEW k \in Governed,
                      NEW i \in DOMAIN Stored(types, k).fields,
                      Stored(types, k).fields[i].type = "record_ref"
               PROVE  types[Stored(types, k).fields[i].ref] # None
    BY DEF ReferencesResolve
  <2>1. Stored(types, k).fields[i].ref \in Entries(types)
    BY GovernedSupported DEF Supported
  <2> QED BY <2>1 DEF Entries
<1> QED BY <1>1, TypesAreSupported, PTL

(***************************************************************************)
(* The workflow of such a type is stored, and its initial state is one of  *)
(* its states: the workflow comes before the type in every call.           *)
(***************************************************************************)
THEOREM WorkflowsComeFirst == Spec => []WorkflowsOfTypesExist
<1>1. IInv => WorkflowsOfTypesExist
  <2> SUFFICES ASSUME IInv, NEW k \in Governed, Stored(types, k).workflow # None
               PROVE  LET w == Stored(types, k).workflow IN
                      flows[w] # None /\ validate_workflow(WorkflowDef[flows[w]][w])
    BY DEF WorkflowsOfTypesExist
  <2>1. Stored(types, k).workflow \in Entries(flows)
    BY GovernedSupported DEF Supported
  <2> QED BY <2>1 DEF Entries, IInv, TablesSound
<1> QED BY <1>1, TypesAreSupported, PTL

(***************************************************************************)
(* The validation of a draft stays true: types only appear, so a draft     *)
(* marked validated is valid now (builder.rs save_builder_draft).          *)
(***************************************************************************)
THEOREM ValidatedDraftsAreValid == Spec => []ValidatedStaysValid
<1>1. IInv => ValidatedStaysValid
  <2> SUFFICES ASSUME IInv, NEW k \in DraftKeys, drafts[k].status = "validated"
               PROVE  Valid(drafts[k].version)
    BY DEF ValidatedStaysValid
  <2>1. drafts[k] # NoDraft
    BY DEF NoDraft
  <2> QED BY <2>1, ExistingIs DEF IInv, DraftsSound
<1> QED BY <1>1, TypesAreSupported, PTL

(***************************************************************************)
(* A mark comes after what it says: the type of a published draft and of   *)
(* an announced key is stored, and so are the types and the workflows of a *)
(* template with an install audit row.                                     *)
(***************************************************************************)
THEOREM MarksComeLast == Spec => []MarksAreComplete
<1>1. IInv => MarksAreComplete
  <2> SUFFICES ASSUME IInv PROVE MarksAreComplete
    OBVIOUS
  <2>1. ASSUME NEW k \in DraftKeys, drafts[k].status = "published" \/ k \in announced
        PROVE  types[k] # None
    <3>1. drafts[k].status = "published" => drafts[k] # NoDraft
      BY DEF NoDraft
    <3>2. k \in Entries(types)
      BY <2>1, <3>1 DEF IInv, DraftsSound, MarksSound
    <3> QED BY <3>2 DEF Entries
  <2>2. ASSUME NEW t \in installs, NEW i \in DOMAIN template_by_key[t]
        PROVE  LET def == template_by_key[t][i] IN
               /\ types[def.key] # None
               /\ def.workflow # None => flows[def.workflow.key] # None
    <3>1. Installed(template_by_key[t][i], Entries(types), Entries(flows))
      BY <2>2 DEF IInv, MarksSound
    <3> QED BY <3>1 DEF Installed, FlowStored, Entries
  <2> QED BY <2>1, <2>2 DEF MarksAreComplete
<1> QED BY <1>1, TypesAreSupported, PTL

(***************************************************************************)
(* The gates clients define are on types a role of the modules manages: no *)
(* role manages products, warehouses or inventory movements.               *)
(***************************************************************************)
GatesAreManaged ==
    \A v \in Drafts : Definitions[v].workflow # None =>
        Definitions[v].key \notin {"product", "warehouse", "inventory_movement"}

\* The shipped types are those some role manages and these three.
LEMMA ManagedTypes ==
    ToSet(ShippedKeys) \subseteq Managed \cup {"product", "warehouse", "inventory_movement"}
<1>1. \A n \in 1..24 : ShippedKeys[n] \in
         Managed \cup {"product", "warehouse", "inventory_movement"}
  BY DEF ShippedKeys, Managed, CRMResources
<1>2. DOMAIN ShippedKeys = 1..24
  BY DEF ShippedKeys
<1> QED BY <1>1, <1>2 DEF ToSet

LEMMA GatedAreManaged ==
    ASSUME IInv, GatesAreManaged, NEW k \in GatedTypes
    PROVE  k \in Managed
<1>1. /\ k \in Governed /\ k \in ToSet(ShippedKeys) /\ Stored(types, k).workflow # None
  BY DEF GatedTypes
<1>2. /\ types[k] \in Origins /\ types[k] \notin Direct /\ k \in DOMAIN ObjectType[types[k]]
  BY <1>1, GovernedSupported DEF IInv, TablesSound, Governed
<1>3. {"invoice", "purchase_request", "leave_request"} \subseteq Managed
  BY DEF Managed
<1>4. CASE types[k] = "modules"
  <2>1. PICK n \in DOMAIN object_types : k = object_types[n].key
    BY <1>2, <1>4, OriginsApart DEF ObjectType, Keys
  <2>2. Stored(types, k) = object_types[n]
    BY <1>4, <2>1, ModulesDefine DEF Stored
  <2> QED BY <1>1, <1>3, <2>1, <2>2, ObjectTypesKeys, ShippedTypesWithWorkflow
<1>5. CASE types[k] \in TemplateKeys
  <2> DEFINE defs == template_by_key[types[k]]
  <2>1. PICK n \in DOMAIN defs : k = defs[n].key
    BY <1>2, <1>5, OriginsApart DEF ObjectType, Keys
  <2>2. Stored(types, k) = to_object_type(defs[n])
    BY <1>5, <2>1, TemplatesDefine DEF Stored
  <2>3. defs[n].workflow # None
    BY <1>1, <2>2 DEF to_object_type, OT
  <2> QED BY <1>3, <1>5, <2>1, <2>3, ShippedTypesWithWorkflow
<1>6. CASE types[k] \in DOMAIN Definitions
  <2> DEFINE v == types[k]
  <2>1. v \in Drafts /\ Definitions[v].key = k
    BY <1>2, <1>6, DefinitionsDefine DEF Drafts
  <2>2. Stored(types, k) = to_object_type(Definitions[v])
    BY <1>6, <2>1, DefinitionsDefine DEF Stored
  <2>3. Definitions[v].workflow # None
    BY <1>1, <2>2 DEF to_object_type, OT
  <2> QED BY <1>1, <2>1, <2>3, ManagedTypes DEF GatesAreManaged
<1> QED BY <1>2, <1>4, <1>5, <1>6 DEF Origins

(***************************************************************************)
(* Where clients gate only what a role manages: with the roles installed,  *)
(* every gated type has a role that may decide, and only a role that       *)
(* manages the type may, whichever definition was installed last (roles.rs,*)
(* rbac.rs action_covered_by).  The second half needs no hypothesis.       *)
(***************************************************************************)
THEOREM GatesAreDecidable == GatesAreManaged => (Spec => []GatesHaveApprovers)
<1> SUFFICES ASSUME GatesAreManaged PROVE Spec => []GatesHaveApprovers
  OBVIOUS
<1>1. IInv => GatesHaveApprovers
  <2> SUFFICES ASSUME IInv, roles = RoleKeys, NEW k \in GatedTypes
               PROVE  /\ \E role \in roles : RoleMay(role, "approve", k)
                      /\ \A role \in roles : RoleMay(role, "approve", k) =>
                            G("manage", k) \in business_roles[role]
    BY DEF GatesHaveApprovers
  <2>1. k \in Managed
    BY GatedAreManaged
  <2>2. \E role \in roles : RoleMay(role, "approve", k)
    <3>1. PICK role \in RoleKeys : G("manage", k) \in business_roles[role]
      BY <2>1, ManagedHaveManagers
    <3>2. RoleMay(role, "approve", k)
      BY <3>1 DEF RoleMay, G, action_covered_by, matches_resource
    <3> QED BY <3>2
  <2>3. ASSUME NEW role \in roles, RoleMay(role, "approve", k)
        PROVE  G("manage", k) \in business_roles[role]
    <3>1. PICK g \in business_roles[role] : /\ action_covered_by(g.action, "approve")
                                            /\ matches_resource(g, k)
      BY <2>3 DEF RoleMay
    <3>2. Bounded(business_roles[role])
      BY RolesBounded
    <3>3. g.action = "manage" /\ g.resource = k
      BY <3>1, <3>2 DEF Bounded, action_covered_by, matches_resource
    <3> QED BY <3>1, <3>2, <3>3 DEF Bounded
  <2> QED BY <2>2, <2>3
<1> QED BY <1>1, TypesAreSupported, PTL

-----------------------------------------------------------------------------
(* The catalog: its keys *)

\* A record with a key
Has(f, k) == "key" \in DOMAIN f /\ f.key = k

\* A sequence of records with keys of their own
Apart(list) ==
    /\ Len(list) \in Nat /\ list = [i \in 1..Len(list) |-> list[i]]
    /\ \A i, j \in 1..Len(list) : list[i].key = list[j].key => i = j
    /\ \A i \in 1..Len(list) : "key" \in DOMAIN list[i]

LEMMA FieldsNamed ==
    /\ \A k, t : Has(F(k, t), k) /\ Has(Req(F(k, t)), k) /\ Has(Restr(F(k, t)), k)
    /\ \A k, o : Has(Enum(k, o), k)
    /\ \A k, x : Has(Ref(k, x), k)
BY DEF F, Req, Restr, Enum, Ref, Has

\* Tuples of fields with keys of their own, by their length
LEMMA TuplesApart ==
    /\ \A a : "key" \in DOMAIN a => Apart(<<a>>)
    /\ \A a, b :
          /\ "key" \in DOMAIN a /\ "key" \in DOMAIN b
          /\ a.key # b.key
          => Apart(<<a, b>>)
    /\ \A a, b, c :
          /\ "key" \in DOMAIN a /\ "key" \in DOMAIN b /\ "key" \in DOMAIN c
          /\ a.key \notin {b.key, c.key}
          /\ b.key # c.key
          => Apart(<<a, b, c>>)
    /\ \A a, b, c, d :
          /\ "key" \in DOMAIN a /\ "key" \in DOMAIN b /\ "key" \in DOMAIN c /\ "key" \in DOMAIN d
          /\ a.key \notin {b.key, c.key, d.key}
          /\ b.key \notin {c.key, d.key}
          /\ c.key # d.key
          => Apart(<<a, b, c, d>>)
    /\ \A a, b, c, d, e :
          /\ "key" \in DOMAIN a /\ "key" \in DOMAIN b /\ "key" \in DOMAIN c /\ "key" \in DOMAIN d /\ "key" \in DOMAIN e
          /\ a.key \notin {b.key, c.key, d.key, e.key}
          /\ b.key \notin {c.key, d.key, e.key}
          /\ c.key \notin {d.key, e.key}
          /\ d.key # e.key
          => Apart(<<a, b, c, d, e>>)
    /\ \A a, b, c, d, e, f :
          /\ "key" \in DOMAIN a /\ "key" \in DOMAIN b /\ "key" \in DOMAIN c /\ "key" \in DOMAIN d /\ "key" \in DOMAIN e /\ "key" \in DOMAIN f
          /\ a.key \notin {b.key, c.key, d.key, e.key, f.key}
          /\ b.key \notin {c.key, d.key, e.key, f.key}
          /\ c.key \notin {d.key, e.key, f.key}
          /\ d.key \notin {e.key, f.key}
          /\ e.key # f.key
          => Apart(<<a, b, c, d, e, f>>)
    /\ \A a, b, c, d, e, f, g :
          /\ "key" \in DOMAIN a /\ "key" \in DOMAIN b /\ "key" \in DOMAIN c /\ "key" \in DOMAIN d /\ "key" \in DOMAIN e /\ "key" \in DOMAIN f /\ "key" \in DOMAIN g
          /\ a.key \notin {b.key, c.key, d.key, e.key, f.key, g.key}
          /\ b.key \notin {c.key, d.key, e.key, f.key, g.key}
          /\ c.key \notin {d.key, e.key, f.key, g.key}
          /\ d.key \notin {e.key, f.key, g.key}
          /\ e.key \notin {f.key, g.key}
          /\ f.key # g.key
          => Apart(<<a, b, c, d, e, f, g>>)
    /\ \A a, b, c, d, e, f, g, h :
          /\ "key" \in DOMAIN a /\ "key" \in DOMAIN b /\ "key" \in DOMAIN c /\ "key" \in DOMAIN d /\ "key" \in DOMAIN e /\ "key" \in DOMAIN f /\ "key" \in DOMAIN g /\ "key" \in DOMAIN h
          /\ a.key \notin {b.key, c.key, d.key, e.key, f.key, g.key, h.key}
          /\ b.key \notin {c.key, d.key, e.key, f.key, g.key, h.key}
          /\ c.key \notin {d.key, e.key, f.key, g.key, h.key}
          /\ d.key \notin {e.key, f.key, g.key, h.key}
          /\ e.key \notin {f.key, g.key, h.key}
          /\ f.key \notin {g.key, h.key}
          /\ g.key # h.key
          => Apart(<<a, b, c, d, e, f, g, h>>)
<1>1. ASSUME NEW a, "key" \in DOMAIN a PROVE Apart(<<a>>)
  <2> DEFINE l == <<a>>
  <2>1. Len(l) = 1 /\ l = [i \in 1..1 |-> l[i]] /\ l[1] = a /\ \A i \in 1..1 : i = 1
    OBVIOUS
  <2> HIDE DEF l
  <2>2. Apart(l)
    BY <1>1, <2>1 DEF Apart
  <2> QED BY <2>2 DEF l
<1>2. ASSUME NEW a, NEW b,
             "key" \in DOMAIN a, "key" \in DOMAIN b,
             a.key # b.key
      PROVE  Apart(<<a, b>>)
  <2> DEFINE l == <<a, b>>
             m == <<b>>
  <2>1. /\ Len(l) = 2 /\ l = [i \in 1..2 |-> l[i]] /\ l[1] = a
        /\ Len(m) = 1 /\ \A i \in 1..1 : l[i + 1] = m[i] /\ a.key # m[i].key
    BY <1>2
  <2>2. Apart(m)
    BY <1>1, <1>2
  <2> HIDE DEF l, m
  <2>3. \A i \in 1..2 : i = 1 \/ \E j \in 1..1 : i = j + 1
    OBVIOUS
  <2>4. \A i, j \in 1..2 : l[i].key = l[j].key => i = j
    BY <1>2, <2>1, <2>2, <2>3 DEF Apart
  <2>5. \A i \in 1..2 : "key" \in DOMAIN l[i]
    BY <1>2, <2>1, <2>2, <2>3 DEF Apart
  <2>6. Apart(l)
    BY <2>1, <2>4, <2>5 DEF Apart
  <2> QED BY <2>6 DEF l
<1>3. ASSUME NEW a, NEW b, NEW c,
             "key" \in DOMAIN a, "key" \in DOMAIN b, "key" \in DOMAIN c,
             a.key \notin {b.key, c.key},
             b.key # c.key
      PROVE  Apart(<<a, b, c>>)
  <2> DEFINE l == <<a, b, c>>
             m == <<b, c>>
  <2>1. /\ Len(l) = 3 /\ l = [i \in 1..3 |-> l[i]] /\ l[1] = a
        /\ Len(m) = 2 /\ \A i \in 1..2 : l[i + 1] = m[i] /\ a.key # m[i].key
    BY <1>3
  <2>2. Apart(m)
    BY <1>2, <1>3
  <2> HIDE DEF l, m
  <2>3. \A i \in 1..3 : i = 1 \/ \E j \in 1..2 : i = j + 1
    OBVIOUS
  <2>4. \A i, j \in 1..3 : l[i].key = l[j].key => i = j
    BY <1>3, <2>1, <2>2, <2>3 DEF Apart
  <2>5. \A i \in 1..3 : "key" \in DOMAIN l[i]
    BY <1>3, <2>1, <2>2, <2>3 DEF Apart
  <2>6. Apart(l)
    BY <2>1, <2>4, <2>5 DEF Apart
  <2> QED BY <2>6 DEF l
<1>4. ASSUME NEW a, NEW b, NEW c, NEW d,
             "key" \in DOMAIN a, "key" \in DOMAIN b, "key" \in DOMAIN c, "key" \in DOMAIN d,
             a.key \notin {b.key, c.key, d.key},
             b.key \notin {c.key, d.key},
             c.key # d.key
      PROVE  Apart(<<a, b, c, d>>)
  <2> DEFINE l == <<a, b, c, d>>
             m == <<b, c, d>>
  <2>1. /\ Len(l) = 4 /\ l = [i \in 1..4 |-> l[i]] /\ l[1] = a
        /\ Len(m) = 3 /\ \A i \in 1..3 : l[i + 1] = m[i] /\ a.key # m[i].key
    BY <1>4
  <2>2. Apart(m)
    BY <1>3, <1>4
  <2> HIDE DEF l, m
  <2>3. \A i \in 1..4 : i = 1 \/ \E j \in 1..3 : i = j + 1
    OBVIOUS
  <2>4. \A i, j \in 1..4 : l[i].key = l[j].key => i = j
    BY <1>4, <2>1, <2>2, <2>3 DEF Apart
  <2>5. \A i \in 1..4 : "key" \in DOMAIN l[i]
    BY <1>4, <2>1, <2>2, <2>3 DEF Apart
  <2>6. Apart(l)
    BY <2>1, <2>4, <2>5 DEF Apart
  <2> QED BY <2>6 DEF l
<1>5. ASSUME NEW a, NEW b, NEW c, NEW d, NEW e,
             "key" \in DOMAIN a, "key" \in DOMAIN b, "key" \in DOMAIN c, "key" \in DOMAIN d, "key" \in DOMAIN e,
             a.key \notin {b.key, c.key, d.key, e.key},
             b.key \notin {c.key, d.key, e.key},
             c.key \notin {d.key, e.key},
             d.key # e.key
      PROVE  Apart(<<a, b, c, d, e>>)
  <2> DEFINE l == <<a, b, c, d, e>>
             m == <<b, c, d, e>>
  <2>1. /\ Len(l) = 5 /\ l = [i \in 1..5 |-> l[i]] /\ l[1] = a
        /\ Len(m) = 4 /\ \A i \in 1..4 : l[i + 1] = m[i] /\ a.key # m[i].key
    BY <1>5
  <2>2. Apart(m)
    BY <1>4, <1>5
  <2> HIDE DEF l, m
  <2>3. \A i \in 1..5 : i = 1 \/ \E j \in 1..4 : i = j + 1
    OBVIOUS
  <2>4. \A i, j \in 1..5 : l[i].key = l[j].key => i = j
    BY <1>5, <2>1, <2>2, <2>3 DEF Apart
  <2>5. \A i \in 1..5 : "key" \in DOMAIN l[i]
    BY <1>5, <2>1, <2>2, <2>3 DEF Apart
  <2>6. Apart(l)
    BY <2>1, <2>4, <2>5 DEF Apart
  <2> QED BY <2>6 DEF l
<1>6. ASSUME NEW a, NEW b, NEW c, NEW d, NEW e, NEW f,
             "key" \in DOMAIN a, "key" \in DOMAIN b, "key" \in DOMAIN c, "key" \in DOMAIN d, "key" \in DOMAIN e, "key" \in DOMAIN f,
             a.key \notin {b.key, c.key, d.key, e.key, f.key},
             b.key \notin {c.key, d.key, e.key, f.key},
             c.key \notin {d.key, e.key, f.key},
             d.key \notin {e.key, f.key},
             e.key # f.key
      PROVE  Apart(<<a, b, c, d, e, f>>)
  <2> DEFINE l == <<a, b, c, d, e, f>>
             m == <<b, c, d, e, f>>
  <2>1. /\ Len(l) = 6 /\ l = [i \in 1..6 |-> l[i]] /\ l[1] = a
        /\ Len(m) = 5 /\ \A i \in 1..5 : l[i + 1] = m[i] /\ a.key # m[i].key
    BY <1>6
  <2>2. Apart(m)
    BY <1>5, <1>6
  <2> HIDE DEF l, m
  <2>3. \A i \in 1..6 : i = 1 \/ \E j \in 1..5 : i = j + 1
    OBVIOUS
  <2>4. \A i, j \in 1..6 : l[i].key = l[j].key => i = j
    BY <1>6, <2>1, <2>2, <2>3 DEF Apart
  <2>5. \A i \in 1..6 : "key" \in DOMAIN l[i]
    BY <1>6, <2>1, <2>2, <2>3 DEF Apart
  <2>6. Apart(l)
    BY <2>1, <2>4, <2>5 DEF Apart
  <2> QED BY <2>6 DEF l
<1>7. ASSUME NEW a, NEW b, NEW c, NEW d, NEW e, NEW f, NEW g,
             "key" \in DOMAIN a, "key" \in DOMAIN b, "key" \in DOMAIN c, "key" \in DOMAIN d, "key" \in DOMAIN e, "key" \in DOMAIN f, "key" \in DOMAIN g,
             a.key \notin {b.key, c.key, d.key, e.key, f.key, g.key},
             b.key \notin {c.key, d.key, e.key, f.key, g.key},
             c.key \notin {d.key, e.key, f.key, g.key},
             d.key \notin {e.key, f.key, g.key},
             e.key \notin {f.key, g.key},
             f.key # g.key
      PROVE  Apart(<<a, b, c, d, e, f, g>>)
  <2> DEFINE l == <<a, b, c, d, e, f, g>>
             m == <<b, c, d, e, f, g>>
  <2>1. /\ Len(l) = 7 /\ l = [i \in 1..7 |-> l[i]] /\ l[1] = a
        /\ Len(m) = 6 /\ \A i \in 1..6 : l[i + 1] = m[i] /\ a.key # m[i].key
    BY <1>7
  <2>2. Apart(m)
    BY <1>6, <1>7
  <2> HIDE DEF l, m
  <2>3. \A i \in 1..7 : i = 1 \/ \E j \in 1..6 : i = j + 1
    OBVIOUS
  <2>4. \A i, j \in 1..7 : l[i].key = l[j].key => i = j
    BY <1>7, <2>1, <2>2, <2>3 DEF Apart
  <2>5. \A i \in 1..7 : "key" \in DOMAIN l[i]
    BY <1>7, <2>1, <2>2, <2>3 DEF Apart
  <2>6. Apart(l)
    BY <2>1, <2>4, <2>5 DEF Apart
  <2> QED BY <2>6 DEF l
<1>8. ASSUME NEW a, NEW b, NEW c, NEW d, NEW e, NEW f, NEW g, NEW h,
             "key" \in DOMAIN a, "key" \in DOMAIN b, "key" \in DOMAIN c, "key" \in DOMAIN d, "key" \in DOMAIN e, "key" \in DOMAIN f, "key" \in DOMAIN g, "key" \in DOMAIN h,
             a.key \notin {b.key, c.key, d.key, e.key, f.key, g.key, h.key},
             b.key \notin {c.key, d.key, e.key, f.key, g.key, h.key},
             c.key \notin {d.key, e.key, f.key, g.key, h.key},
             d.key \notin {e.key, f.key, g.key, h.key},
             e.key \notin {f.key, g.key, h.key},
             f.key \notin {g.key, h.key},
             g.key # h.key
      PROVE  Apart(<<a, b, c, d, e, f, g, h>>)
  <2> DEFINE l == <<a, b, c, d, e, f, g, h>>
             m == <<b, c, d, e, f, g, h>>
  <2>1. /\ Len(l) = 8 /\ l = [i \in 1..8 |-> l[i]] /\ l[1] = a
        /\ Len(m) = 7 /\ \A i \in 1..7 : l[i + 1] = m[i] /\ a.key # m[i].key
    BY <1>8
  <2>2. Apart(m)
    BY <1>7, <1>8
  <2> HIDE DEF l, m
  <2>3. \A i \in 1..8 : i = 1 \/ \E j \in 1..7 : i = j + 1
    OBVIOUS
  <2>4. \A i, j \in 1..8 : l[i].key = l[j].key => i = j
    BY <1>8, <2>1, <2>2, <2>3 DEF Apart
  <2>5. \A i \in 1..8 : "key" \in DOMAIN l[i]
    BY <1>8, <2>1, <2>2, <2>3 DEF Apart
  <2>6. Apart(l)
    BY <2>1, <2>4, <2>5 DEF Apart
  <2> QED BY <2>6 DEF l
<1> QED BY <1>1, <1>2, <1>3, <1>4, <1>5, <1>6, <1>7, <1>8

LEMMA CRMTypesApart ==
    /\ Apart(CRMTypes[1].fields)
    /\ Apart(CRMTypes[2].fields)
    /\ Apart(CRMTypes[3].fields)
    /\ Apart(CRMTypes[4].fields)
    /\ Apart(CRMTypes[5].fields)
    /\ Apart(CRMTypes[6].fields)
<1>1. Apart(CRMTypes[1].fields)
  BY FieldsNamed, TuplesApart DEF CRMTypes, OT, Has
<1>2. Apart(CRMTypes[2].fields)
  BY FieldsNamed, TuplesApart DEF CRMTypes, OT, Has
<1>3. Apart(CRMTypes[3].fields)
  BY FieldsNamed, TuplesApart DEF CRMTypes, OT, Has
<1>4. Apart(CRMTypes[4].fields)
  BY FieldsNamed, TuplesApart DEF CRMTypes, OT, Has
<1>5. Apart(CRMTypes[5].fields)
  BY FieldsNamed, TuplesApart DEF CRMTypes, OT, Has
<1>6. Apart(CRMTypes[6].fields)
  BY FieldsNamed, TuplesApart DEF CRMTypes, OT, Has
<1> QED BY <1>1, <1>2, <1>3, <1>4, <1>5, <1>6

LEMMA FinanceTypesApart ==
    /\ Apart(FinanceTypes[1].fields)
    /\ Apart(FinanceTypes[2].fields)
    /\ Apart(FinanceTypes[3].fields)
    /\ Apart(FinanceTypes[4].fields)
    /\ Apart(FinanceTypes[5].fields)
<1>1. Apart(FinanceTypes[1].fields)
  BY FieldsNamed, TuplesApart DEF FinanceTypes, OT, Has
<1>2. Apart(FinanceTypes[2].fields)
  BY FieldsNamed, TuplesApart DEF FinanceTypes, OT, Has
<1>3. Apart(FinanceTypes[3].fields)
  BY FieldsNamed, TuplesApart DEF FinanceTypes, OT, Has
<1>4. Apart(FinanceTypes[4].fields)
  BY FieldsNamed, TuplesApart DEF FinanceTypes, OT, Has
<1>5. Apart(FinanceTypes[5].fields)
  BY FieldsNamed, TuplesApart DEF FinanceTypes, OT, Has
<1> QED BY <1>1, <1>2, <1>3, <1>4, <1>5

LEMMA ProcurementTypesApart ==
    /\ Apart(ProcurementTypes[1].fields)
    /\ Apart(ProcurementTypes[2].fields)
    /\ Apart(ProcurementTypes[3].fields)
BY FieldsNamed, TuplesApart DEF ProcurementTypes, OT, Has

LEMMA InventoryTypesApart ==
    /\ Apart(InventoryTypes[1].fields)
    /\ Apart(InventoryTypes[2].fields)
    /\ Apart(InventoryTypes[3].fields)
BY FieldsNamed, TuplesApart DEF InventoryTypes, OT, Has

LEMMA HCMTypesApart ==
    /\ Apart(HCMTypes[1].fields)
    /\ Apart(HCMTypes[2].fields)
    /\ Apart(HCMTypes[3].fields)
    /\ Apart(HCMTypes[4].fields)
BY FieldsNamed, TuplesApart DEF HCMTypes, OT, Has

LEMMA ProjectTypesApart ==
    /\ Apart(ProjectTypes[1].fields)
    /\ Apart(ProjectTypes[2].fields)
BY FieldsNamed, TuplesApart DEF ProjectTypes, OT, Has

LEMMA ContractTypesApart ==
    /\ Apart(ContractTypes[1].fields)
BY FieldsNamed, TuplesApart DEF ContractTypes, OT, Has

LEMMA VisibleApart ==
    ASSUME NEW fields, Apart(fields)
    PROVE  Apart(Visible(fields))
<1> DEFINE n == Len(fields)
           seen == [i \in 1..n |-> [fields[i] EXCEPT !.ai = ~fields[i].restricted]]
<1>1. n \in Nat /\ DOMAIN fields = 1..n
  <2>1. n \in Nat /\ fields = [i \in 1..n |-> fields[i]]
    BY DEF Apart
  <2> QED BY <2>1
<1>2. Visible(fields) = seen
  BY <1>1 DEF Visible
<1>3. \A i \in 1..n : "key" \in DOMAIN seen[i] /\ seen[i].key = fields[i].key
  BY DEF Apart
<1>4. Len(seen) = n /\ seen = [i \in 1..n |-> seen[i]]
  BY <1>1
<1> HIDE DEF seen
<1>5. Apart(seen)
  BY <1>1, <1>3, <1>4 DEF Apart
<1> QED BY <1>2, <1>5

LEMMA FinanceTemplateApart ==
    /\ Apart(finance_template[1].fields)
    /\ Apart(finance_template[2].fields)
    /\ Apart(finance_template[3].fields)
    /\ Apart(finance_template[4].fields)
<1>1. Apart(finance_template[1].fields)
  BY FieldsNamed, TuplesApart, VisibleApart DEF finance_template, Template, Has
<1>2. Apart(finance_template[2].fields)
  BY FieldsNamed, TuplesApart, VisibleApart DEF finance_template, Template, Has
<1>3. Apart(finance_template[3].fields)
  BY FieldsNamed, TuplesApart, VisibleApart DEF finance_template, Template, Has
<1>4. Apart(finance_template[4].fields)
  BY FieldsNamed, TuplesApart, VisibleApart DEF finance_template, Template, Has
<1> QED BY <1>1, <1>2, <1>3, <1>4

LEMMA ProcurementTemplateApart ==
    /\ Apart(procurement_template[1].fields)
    /\ Apart(procurement_template[2].fields)
    /\ Apart(procurement_template[3].fields)
    /\ Apart(procurement_template[4].fields)
<1>1. Apart(procurement_template[1].fields)
  BY FieldsNamed, TuplesApart, VisibleApart DEF procurement_template, Template, Has
<1>2. Apart(procurement_template[2].fields)
  BY FieldsNamed, TuplesApart, VisibleApart DEF procurement_template, Template, Has
<1>3. Apart(procurement_template[3].fields)
  BY FieldsNamed, TuplesApart, VisibleApart DEF procurement_template, Template, Has
<1>4. Apart(procurement_template[4].fields)
  BY FieldsNamed, TuplesApart, VisibleApart DEF procurement_template, Template, Has
<1> QED BY <1>1, <1>2, <1>3, <1>4

LEMMA InventoryTemplateApart ==
    /\ Apart(inventory_template[1].fields)
    /\ Apart(inventory_template[2].fields)
    /\ Apart(inventory_template[3].fields)
BY FieldsNamed, TuplesApart, VisibleApart DEF inventory_template, Template, Has

LEMMA CRMTemplateApart ==
    /\ Apart(crm_template[1].fields)
BY FieldsNamed, TuplesApart, VisibleApart DEF crm_template, Template, Has

LEMMA HRTemplateApart ==
    /\ Apart(hr_template[1].fields)
BY FieldsNamed, TuplesApart, VisibleApart DEF hr_template, Template, Has

LEMMA ApartKeyed ==
    ASSUME NEW list, Apart(list), None \notin FieldKeys(list)
    PROVE  Keyed(list)
<1>1. Len(list) \in Nat /\ list = [i \in 1..Len(list) |-> list[i]]
  BY DEF Apart
<1>2. DOMAIN list = 1..Len(list)
  BY <1>1
<1>3. \A i \in 1..Len(list) : list[i].key # None
  BY <1>2 DEF FieldKeys
<1> QED BY <1>1, <1>3 DEF Apart, Keyed

\* The object types of the modules
LEMMA ObjectTypesKeyed ==
    ASSUME NEW n \in DOMAIN object_types
    PROVE  Keyed(object_types[n].fields)
<1>1. None \notin FieldKeys(object_types[n].fields)
  BY KeysAssumption DEF NoneIsNoKey
<1>2. n \in 1..24
  BY ObjectTypesKeys
<1>3. CASE n \in 1..6
  <2>1. Apart(object_types[n].fields)
    BY <1>3, Sections, CRMTypesApart
  <2> QED BY <1>1, <2>1, ApartKeyed
<1>4. CASE n \in 7..11
  <2>1. Apart(object_types[n].fields)
    BY <1>4, Sections, FinanceTypesApart
  <2> QED BY <1>1, <2>1, ApartKeyed
<1>5. CASE n \in 12..17
  <2>1. Apart(object_types[n].fields)
    BY <1>5, Sections, ProcurementTypesApart, InventoryTypesApart
  <2> QED BY <1>1, <2>1, ApartKeyed
<1>6. CASE n \in 18..24
  <2>1. Apart(object_types[n].fields)
    BY <1>6, Sections, HCMTypesApart, ProjectTypesApart, ContractTypesApart
  <2> QED BY <1>1, <2>1, ApartKeyed
<1> QED BY <1>2, <1>3, <1>4, <1>5, <1>6

\* The templates
LEMMA TemplatesFormed ==
    ASSUME NEW t \in TemplateKeys
    PROVE  Formed(template_by_key[t])
<1> DEFINE objects == template_by_key[t]
<1>1. InOrder(objects) /\ NoneIsNoKey(objects)
  BY TemplatesInOrder, KeysAssumption
<1>2. objects = [i \in 1..Len(objects) |-> objects[i]]
  <2>1. finance_template = [i \in 1..4 |-> finance_template[i]] /\ Len(finance_template) = 4
    BY DEF finance_template
  <2>2. /\ procurement_template = [i \in 1..4 |-> procurement_template[i]]
        /\ Len(procurement_template) = 4
    BY DEF procurement_template
  <2>3. /\ inventory_template = [i \in 1..3 |-> inventory_template[i]]
        /\ Len(inventory_template) = 3
    BY DEF inventory_template
  <2>4. crm_template = [i \in 1..1 |-> crm_template[i]] /\ Len(crm_template) = 1
    BY DEF crm_template
  <2>5. hr_template = [i \in 1..1 |-> hr_template[i]] /\ Len(hr_template) = 1
    BY DEF hr_template
  <2> DEFINE Is(list) == list = [i \in 1..Len(list) |-> list[i]]
  <2>6. /\ Is(finance_template) /\ Is(procurement_template) /\ Is(inventory_template)
        /\ Is(crm_template) /\ Is(hr_template)
    BY <2>1, <2>2, <2>3, <2>4, <2>5
  <2> HIDE DEF Is
  <2>7. Is(objects)
    BY <2>6, TemplateByKey DEF TemplateKeys
  <2> QED BY <2>7 DEF Is
<1>3. \A i \in DOMAIN objects : Apart(objects[i].fields)
  <2> DEFINE P(list) == \A i \in DOMAIN list : Apart(list[i].fields)
  <2>1. P(finance_template)
    BY TemplateObjects, FinanceTemplateApart
  <2>2. P(procurement_template)
    BY TemplateObjects, ProcurementTemplateApart
  <2>3. P(inventory_template)
    BY TemplateObjects, InventoryTemplateApart
  <2>4. P(crm_template) /\ P(hr_template)
    BY TemplateObjects, CRMTemplateApart, HRTemplateApart
  <2> HIDE DEF P
  <2>5. P(objects)
    BY <2>1, <2>2, <2>3, <2>4, TemplateByKey DEF TemplateKeys
  <2> QED BY <2>5 DEF P
<1> HIDE DEF objects
<1>4. Len(objects) \in Nat /\ DOMAIN objects = 1..Len(objects)
  BY <1>1 DEF InOrder
<1>5. Keyed(objects)
  BY <1>1, <1>2, <1>4 DEF InOrder, NoneIsNoKey, Keyed
<1>6. \A i \in 1..Len(objects) : Keyed(objects[i].fields)
  <2> TAKE i \in 1..Len(objects)
  <2>1. Apart(objects[i].fields) /\ None \notin FieldKeys(objects[i].fields)
    BY <1>1, <1>3, <1>4 DEF NoneIsNoKey
  <2> QED BY <2>1, ApartKeyed
<1>7. Formed(objects)
  BY <1>5, <1>6 DEF Formed
<1> QED BY <1>7 DEF objects

-----------------------------------------------------------------------------
(* What the planner reads *)

\* A finite set in some order
LEMMA SetToSeqLists ==
    ASSUME NEW S, IsFiniteSet(S)
    PROVE  Listing(SetToSeq(S), S)
<1> DEFINE n == Cardinality(S)
           f == SetToSeq(S)
<1>1. n \in Nat /\ Bijection(1..n, S) # {}
  BY FS_CardinalityType DEF ExistsBijection
<1>2. \E g \in [1..n -> S] : IsInjective(g)
  BY <1>1 DEF Bijection, Injection
<1>3. f \in [1..n -> S] /\ IsInjective(f)
  BY <1>2 DEF SetToSeq
<1> HIDE DEF f
<1>4. f \in Injection(1..n, S)
  BY <1>3 DEF Injection
<1>5. IsFiniteSet(1..n) /\ Cardinality(1..n) = n
  BY <1>1, FS_Interval
<1>6. f \in Surjection(1..n, S)
  BY <1>4, <1>5, FS_Injection
<1>7. f = [k \in 1..n |-> f[k]] /\ \A k \in 1..n : f[k] \in S
  BY <1>3
<1>8. \A x \in S : \E k \in 1..n : f[k] = x
  BY <1>6 DEF Surjection
<1>9. \A j, k \in 1..n : f[j] = f[k] => j = k
  BY <1>3 DEF IsInjective
<1> HIDE DEF n
<1>10. Listing(f, S)
  BY <1>1, <1>7, <1>8, <1>9, ListingOf
<1> QED BY <1>10 DEF f

\* The order of list_object_types has each key once.
LEMMA KeyOrderLists == Listing(KeyOrder, TypeKeys)
<1> DEFINE S == ToSet(ShippedKeys)
           Given == {Definitions[v].key : v \in DOMAIN Definitions}
           key == [v \in DOMAIN Definitions |-> Definitions[v].key]
<1>1. Listing(ShippedKeys, S)
  <2> DEFINE list == ShippedKeys
             n == 24
  <2>1. n \in Nat /\ DOMAIN list = 1..n /\ list = [k \in 1..n |-> list[k]]
    BY DEF ShippedKeys
  <2>2. \A j, k \in 1..n : list[j] = list[k] => j = k
    BY DEF ShippedKeys
  <2> HIDE DEF list, n
  <2>3. S = {list[k] : k \in 1..n}
    BY <2>1 DEF ToSet, list
  <2>4. /\ \A k \in 1..n : list[k] \in S
        /\ \A x \in S : \E k \in 1..n : list[k] = x
    BY <2>3
  <2> HIDE DEF S
  <2>5. Listing(list, S)
    BY <2>1, <2>2, <2>4, ListingOf
  <2> QED BY <2>5 DEF list
<1>2. IsFiniteSet(Given \ S)
  <2>1. key \in Surjection(DOMAIN Definitions, Given)
    BY DEF Surjection
  <2>2. IsFiniteSet(Given)
    BY <2>1, FS_Surjection, KeysAssumption
  <2> QED BY <2>2, FS_Subset
<1>3. Listing(SetToSeq(Given \ S), Given \ S)
  <2> HIDE DEF Given, S
  <2> QED BY <1>2, SetToSeqLists
<1>4. Listing(ShippedKeys \o SetToSeq(Given \ S), S \cup (Given \ S))
  <2> HIDE DEF Given, S
  <2> QED BY <1>1, <1>3, ConcatLists
<1>5. S \cup (Given \ S) = TypeKeys
  BY DEF TypeKeys
<1>6. KeyOrder = ShippedKeys \o SetToSeq(Given \ S)
  BY DEF KeyOrder
<1> HIDE DEF Given, S
<1> QED BY <1>4, <1>5, <1>6

\* What an origin defines for a key has that key.
LEMMA DefinedKeys ==
    ASSUME NEW origin \in Origins, NEW key \in DOMAIN ObjectType[origin]
    PROVE  ObjectType[origin][key].key = key /\ key # None
<1>1. CASE origin = "modules"
  <2>1. ObjectType[origin] = [k \in Keys(object_types) |-> ByKey(object_types, k)]
    BY <1>1 DEF ObjectType
  <2>2. PICK i \in DOMAIN object_types : object_types[i].key = key
    BY <2>1 DEF Keys
  <2>3. ByKey(object_types, key).key = key
    BY <2>2 DEF ByKey
  <2>4. key # None
    BY <2>2, KeysAssumption DEF NoneIsNoKey
  <2> QED BY <2>1, <2>3, <2>4
<1>2. CASE origin \in TemplateKeys
  <2> DEFINE objects == template_by_key[origin]
  <2>1. ObjectType[origin] = [k \in Keys(objects) |-> to_object_type(ByKey(objects, k))]
    BY <1>2, OriginsApart DEF ObjectType
  <2>2. PICK i \in DOMAIN objects : objects[i].key = key
    BY <2>1 DEF Keys
  <2>3. NoneIsNoKey(objects)
    BY <1>2, KeysAssumption
  <2> HIDE DEF objects
  <2>4. ByKey(objects, key).key = key
    BY <2>2 DEF ByKey
  <2>5. key # None
    BY <2>2, <2>3 DEF NoneIsNoKey
  <2> QED BY <2>1, <2>4, <2>5 DEF to_object_type, OT
<1>3. CASE origin \in DOMAIN Definitions
  <2>1. /\ DOMAIN ObjectType[origin] = {Definitions[origin].key}
        /\ ObjectType[origin][Definitions[origin].key] = to_object_type(Definitions[origin])
    BY <1>3, DefinitionsDefine
  <2>2. NoneIsNoKey(<<Definitions[origin]>>)
    BY <1>3, KeysAssumption
  <2>3. Definitions[origin].key # None
    <3> DEFINE list == <<Definitions[origin]>>
    <3>1. 1 \in DOMAIN list /\ list[1] = Definitions[origin]
      OBVIOUS
    <3>2. None \notin {list[1].key}
      BY <2>2, <3>1 DEF NoneIsNoKey
    <3> QED BY <3>1, <3>2
  <2> QED BY <2>1, <2>3 DEF to_object_type, OT
<1> QED BY <1>1, <1>2, <1>3 DEF Origins

\* The fields of the stored types have keys of their own.
FieldsSound(ty) == \A k \in Entries(ty) : Keyed(Stored(ty, k).fields)

\* The planner reads each stored type once.
LEMMA TypesNowFormed ==
    ASSUME IInv, FieldsSound(types)
    PROVE  /\ Formed(TypesNow) /\ Keys(TypesNow) = Entries(types)
           /\ \A k \in Entries(types) : ByKey(TypesNow, k) = Stored(types, k)
<1> DEFINE T == {k \in TypeKeys : types[k] # None}
           defined == Those(KeyOrder, T)
           n == Len(defined)
           list == [i \in DOMAIN defined |-> Stored(types, defined[i])]
<1>1. T = Entries(types) /\ TypeKeys \cap T = T
  BY DEF IInv, TablesSound, Entries
<1>2. Listing(defined, T)
  <2>1. Listing(defined, TypeKeys \cap T)
    <3> HIDE DEF T
    <3> QED BY KeyOrderLists, ThoseLists
  <2> HIDE DEF T, defined
  <2> QED BY <1>1, <2>1
<1>3. /\ n \in Nat /\ DOMAIN defined = 1..n /\ \A i \in 1..n : defined[i] \in T
      /\ \A i, j \in 1..n : defined[i] = defined[j] => i = j
      /\ \A k \in T : \E i \in 1..n : defined[i] = k
  <2> HIDE DEF T, defined
  <2> QED BY <1>2, ListingIs DEF Listing
<1>4. ASSUME NEW k \in T
      PROVE  Stored(types, k).key = k /\ k # None /\ Keyed(Stored(types, k).fields)
  <2>1. types[k] \in Origins /\ k \in DOMAIN ObjectType[types[k]] /\ k \in Entries(types)
    BY <1>1 DEF IInv, TablesSound, Entries
  <2> HIDE DEF T
  <2> QED BY <2>1, DefinedKeys DEF Stored, FieldsSound
<1>5. TypesNow = list
  BY DEF TypesNow
<1> HIDE DEF T, defined
<1>6. /\ list = [i \in 1..n |-> list[i]] /\ Len(list) = n /\ DOMAIN list = 1..n
      /\ \A i \in 1..n : list[i] = Stored(types, defined[i])
  BY <1>3
<1> HIDE DEF list, n
<1>7. Formed(list)
  <2>1. \A i \in 1..n : list[i].key = defined[i] /\ list[i].key # None /\ Keyed(list[i].fields)
    BY <1>3, <1>4, <1>6
  <2>2. \A i, j \in 1..n : list[i].key = list[j].key => i = j
    BY <1>3, <2>1
  <2> QED BY <1>3, <1>6, <2>1, <2>2 DEF Formed, Keyed
<1>8. Keys(list) = T
  <2>1. \A i \in 1..n : list[i].key = defined[i]
    BY <1>3, <1>4, <1>6
  <2> QED BY <1>3, <1>6, <2>1 DEF Keys
<1>9. ASSUME NEW k \in T PROVE ByKey(list, k) = Stored(types, k)
  <2>1. PICK i \in 1..n : defined[i] = k
    BY <1>3
  <2>2. list[i].key = k /\ list[i] = Stored(types, k)
    BY <1>3, <1>4, <1>6, <2>1
  <2>3. ByKey(list, list[i].key) = list[i]
    BY <1>6, <1>7, KeyedLists DEF Formed
  <2> QED BY <2>2, <2>3
<1> QED BY <1>1, <1>5, <1>7, <1>8, <1>9

(***************************************************************************)
(* What the planner relies on: the fields of each stored type have keys of *)
(* their own, a plan was begun on such types, and what an install replaces *)
(* is stored.                                                              *)
(***************************************************************************)
PlanCall(c) ==
    Formed(c.old) /\ c.for \in {"old", "selected"} /\ c.of \in Installable \cup {None}

CallReady(c, ts) ==
    /\ c.step = "plan" => PlanCall(c)
    /\ c.step = "retype" => Def(c).key \in ts

PInv ==
    /\ IInv
    /\ FieldsSound(types)
    /\ records \in [TypeKeys -> Nat]
    /\ \A s \in Slots : CallReady(call[s], Entries(types))

\* No two fields have the same key if there are as many keys as fields.
LEMMA ManyKeys ==
    ASSUME NEW S, NEW fields \in Seq(S), Cardinality(FieldKeys(fields)) = Len(fields),
           None \notin FieldKeys(fields)
    PROVE  Keyed(fields)
<1> DEFINE n == Len(fields)
           f == [i \in 1..n |-> fields[i].key]
<1>1. n \in Nat /\ DOMAIN fields = 1..n /\ fields = [i \in 1..n |-> fields[i]]
  OBVIOUS
<1>2. IsFiniteSet(1..n) /\ Cardinality(1..n) = n
  <2>1. 1 \in Int /\ n \in Int
    BY <1>1
  <2>2. IsFiniteSet(1..n) /\ Cardinality(1..n) = IF 1 > n THEN 0 ELSE n - 1 + 1
    BY <2>1, FS_Interval
  <2> HIDE DEF n
  <2> QED BY <1>1, <2>2
<1>3. f \in Surjection(1..n, FieldKeys(fields))
  BY <1>1 DEF Surjection, FieldKeys
<1>4. f \in Injection(1..n, FieldKeys(fields))
  <2> HIDE DEF f
  <2> QED BY <1>2, <1>3, FS_SurjSameCardinalityImpliesInj
<1>5. \A i, j \in 1..n : fields[i].key = fields[j].key => i = j
  BY <1>4 DEF Injection, IsInjective
<1>6. \A i \in 1..n : fields[i].key # None
  BY <1>1 DEF FieldKeys
<1> QED BY <1>1, <1>5, <1>6 DEF Keyed

\* What validate_object_type accepts of a client's definitions has such fields.
LEMMA ValidatedKeyed ==
    ASSUME NEW v \in DOMAIN Definitions,
           validate_object_type(to_object_type(Definitions[v]))
    PROVE  /\ Definitions[v].key \in DOMAIN ObjectType[v]
           /\ Keyed(ObjectType[v][Definitions[v].key].fields)
<1> DEFINE def == Definitions[v]
<1>1. /\ DOMAIN ObjectType[v] = {def.key}
      /\ ObjectType[v][def.key] = to_object_type(def)
  BY DefinitionsDefine
<1>2. to_object_type(def).fields = def.fields
  BY DEF to_object_type, OT
<1>3. None \notin FieldKeys(def.fields)
  <2> DEFINE list == <<def>>
  <2>1. NoneIsNoKey(list)
    BY KeysAssumption
  <2>2. 1 \in DOMAIN list /\ list[1] = def
    OBVIOUS
  <2>3. None \notin FieldKeys(list[1].fields)
    BY <2>1, <2>2 DEF NoneIsNoKey
  <2> QED BY <2>2, <2>3
<1>4. def.fields \in Seq(FieldDefinition)
  BY KeysAssumption
<1>5. Cardinality(FieldKeys(def.fields)) = Len(def.fields)
  BY <1>2 DEF validate_object_type
<1> HIDE DEF def
<1>6. Keyed(def.fields)
  BY <1>3, <1>4, <1>5, ManyKeys
<1> QED BY <1>1, <1>2, <1>6 DEF def

\* The type a call stores has such fields too.
LEMMA TypeReadyKeyed ==
    ASSUME IInv, NEW s \in Slots, call[s].step \in {"type", "retype"},
           validate_object_type(to_object_type(Def(call[s])))
    PROVE  LET c == call[s]  key == Def(c).key IN
           /\ c.of \in Origins /\ key \in TypeKeys /\ key \in DOMAIN ObjectType[c.of]
           /\ ObjectType[c.of][key] = to_object_type(Def(c))
           /\ Keyed(ObjectType[c.of][key].fields)
<1> DEFINE c == call[s]
           def == Def(c)
<1>1. /\ c \in PublishCall \cup InstallCall /\ c.of \in Origins
      /\ def.key \in TypeKeys /\ def.key \in DOMAIN ObjectType[c.of]
  BY TypeReady
<1>2. CASE c \in PublishCall
  <2>1. c.of \in DOMAIN Definitions /\ def = Definitions[c.of]
    BY <1>2, ObjectOf DEF PublishCall, Drafts
  <2>2. ObjectType[c.of][def.key] = to_object_type(def)
    BY <2>1, DefinitionsDefine
  <2>3. Keyed(ObjectType[c.of][def.key].fields)
    BY <2>1, ValidatedKeyed
  <2> QED BY <1>1, <2>2, <2>3
<1>3. CASE c \in InstallCall
  <2> DEFINE defs == template_by_key[c.of]
  <2>1. c.of \in TemplateKeys /\ def = defs[c.n]
    BY <1>3, ObjectOf DEF InstallCall
  <2>2. c.n \in DOMAIN defs
    <3>1. Backed(c, Entries(types), Entries(flows), drafts)
      BY CallAtStep
    <3>2. InstallBacked(c, Entries(types), Entries(flows)) /\ c.step \in DefSteps
      BY <1>3, <3>1 DEF Backed, DefSteps
    <3> QED BY <3>2 DEF InstallBacked
  <2>3. ObjectType[c.of][def.key] = to_object_type(def)
    <3>1. c.of \in TemplateKeys /\ c.n \in DOMAIN template_by_key[c.of]
      BY ONLY <2>1, <2>2
    <3>2. LET d == template_by_key[c.of][c.n] IN
          ObjectType[c.of][d.key] = to_object_type(d)
      BY ONLY <3>1, TemplateDefines
    <3>3. def = template_by_key[c.of][c.n]
      BY ONLY <2>1
    <3> HIDE DEF def
    <3> QED BY ONLY <3>2, <3>3
  <2>4. Formed(defs) /\ DOMAIN defs = 1..Len(defs)
    BY <2>1, TemplatesFormed, TemplatesInOrder DEF InOrder
  <2>5. Keyed(def.fields)
    BY <2>1, <2>2, <2>4 DEF Formed
  <2>6. to_object_type(def).fields = def.fields
    BY DEF to_object_type, OT
  <2>7. Keyed(ObjectType[c.of][def.key].fields)
    BY <2>3, <2>5, <2>6
  <2> QED BY <1>1, <2>3, <2>7
<1> QED BY <1>1, <1>2, <1>3

\* Where a call goes that neither begins a plan nor finds a type there
Ordinary(x) == x.step \notin {"plan", "retype"}
Moves(s) == \E x : Ordinary(x) /\ call' = [call EXCEPT ![s] = x]

LEMMA IdleOrdinary == Ordinary(Idle)
BY DEF Ordinary, Idle

LEMMA CallsBegin ==
    ASSUME IInv, NEW s \in Slots,
           \/ \E id \in DraftIds, v \in Drafts : SaveDraftValidate(s, id, v)
           \/ \E key \in DraftKeys : PublishBegin(s, key)
           \/ \E t \in Installable, samples \in BOOLEAN : InstallBegin(s, t, samples)
           \/ ModulesBegin(s)
    PROVE  Moves(s)
<1>1. ASSUME NEW id, NEW v, SaveDraftValidate(s, id, v) PROVE Moves(s)
  <2> DEFINE x == [step |-> "save", id |-> id, of |-> v,
                   status |-> IF Valid(v) THEN "validated" ELSE "draft"]
  <2>1. call' = [call EXCEPT ![s] = x]
    BY <1>1 DEF SaveDraftValidate, Begin
  <2>2. x.step = "save"
    OBVIOUS
  <2> HIDE DEF x
  <2> QED BY <2>1, <2>2 DEF Moves, Ordinary
<1>2. ASSUME NEW key, PublishBegin(s, key) PROVE Moves(s)
  <2> DEFINE x == AtObject([step |-> "type", kind |-> "publish", of |-> drafts[key].version,
                            n |-> 1, id |-> drafts[key].id])
  <2>1. call' = [call EXCEPT ![s] = x]
    BY <1>2 DEF PublishBegin, Begin
  <2>2. x.step \in {"workflow", "type"}
    BY DEF AtObject
  <2> HIDE DEF x
  <2> QED BY <2>1, <2>2 DEF Moves, Ordinary
<1>3. ASSUME NEW t, NEW samples, InstallBegin(s, t, samples) PROVE Moves(s)
  <2> DEFINE x == AtObject([step |-> "type", kind |-> "install", of |-> t, n |-> 1,
                            samples |-> samples, made |-> 0])
  <2>1. call' = [call EXCEPT ![s] = x]
    BY <1>3 DEF InstallBegin, Begin
  <2>2. x.step \in {"workflow", "type"}
    BY DEF AtObject
  <2> HIDE DEF x
  <2> QED BY <2>1, <2>2 DEF Moves, Ordinary
<1>4. ASSUME ModulesBegin(s) PROVE Moves(s)
  BY <1>4 DEF ModulesBegin, Begin, Moves, Ordinary
<1> QED BY <1>1, <1>2, <1>3, <1>4

LEMMA AfterTypeOrdinary ==
    ASSUME NEW c \in PublishCall \cup InstallCall
    PROVE  Ordinary(AfterType(c))
<1>1. ASSUME NEW x \in PublishCall \cup InstallCall PROVE Ordinary(AtObject(x))
  BY <1>1 DEF AtObject, Ordinary, PublishCall, InstallCall
<1>2. CASE c \in PublishCall
  <2>1. AfterType(c) = [c EXCEPT !.step = "mark"]
    <3>1. c.kind = "publish" /\ c.n = 1 /\ Len(Objects(c)) = 1
      BY <1>2 DEF PublishCall, Objects
    <3>2. ~(c.n < Len(Objects(c)))
      BY <3>1
    <3> QED BY <3>1, <3>2 DEF AfterType
  <2>2. [c EXCEPT !.step = "mark"].step = "mark"
    BY <1>2 DEF PublishCall
  <2> QED BY <2>1, <2>2 DEF Ordinary
<1>3. CASE c \in InstallCall
  <2>1. Ordinary(AtSamples(c))
    BY <1>3, LaterSteps DEF LaterStep, DefSteps, InstallCall, Ordinary
  <2>2. [c EXCEPT !.n = @ + 1] \in InstallCall
    BY <1>3 DEF InstallCall
  <2>3. Ordinary(AtObject([c EXCEPT !.n = @ + 1]))
    BY <1>1, <2>2
  <2>4. c.kind # "publish"
    BY <1>3 DEF InstallCall
  <2> QED BY <2>1, <2>3, <2>4 DEF AfterType
<1> QED BY <1>2, <1>3

LEMMA CallsMove ==
    ASSUME IInv, NEW s \in Slots,
           \/ SaveDraftCommit(s) \/ CreateWorkflow(s) \/ UpdateObjectType(s)
           \/ PublishMark(s) \/ PublishEvent(s)
           \/ InstallSample(s) \/ InstallSubmit(s) \/ InstallApprove(s)
           \/ InstallReport(s) \/ InstallAudit(s)
           \/ ModuleWorkflow(s) \/ ModuleType(s) \/ ModuleRole(s)
           \/ PlanReply(s) \/ Abort(s)
    PROVE  Moves(s)
<1> DEFINE c == call[s]
<1>1. CASE SaveDraftCommit(s) \/ PublishEvent(s) \/ InstallAudit(s) \/ PlanReply(s) \/ Abort(s)
  <2>1. call' = [call EXCEPT ![s] = Idle]
    BY <1>1 DEF SaveDraftCommit, PublishEvent, InstallAudit, PlanReply, Abort, Goto
  <2> QED BY <2>1, IdleOrdinary DEF Moves
<1>2. CASE CreateWorkflow(s)
  <2> DEFINE x == [c EXCEPT !.step = "type"]
  <2>1. call' = [call EXCEPT ![s] = x] /\ c.step = "workflow"
    BY <1>2 DEF CreateWorkflow, Goto, AtStep
  <2>2. c \in PublishCall \cup InstallCall
    BY <2>1, CallAtStep DEF DefSteps
  <2>3. x.step = "type"
    BY <2>2 DEF PublishCall, InstallCall
  <2> HIDE DEF x
  <2> QED BY <2>1, <2>3 DEF Moves, Ordinary
<1>3. CASE UpdateObjectType(s)
  <2>1. call' = [call EXCEPT ![s] = AfterType(c)] /\ c.step = "retype"
    BY <1>3 DEF UpdateObjectType, Goto, AtStep
  <2>2. c \in PublishCall \cup InstallCall
    BY <2>1, CallAtStep DEF DefSteps
  <2> QED BY <2>1, <2>2, AfterTypeOrdinary DEF Moves
<1>4. CASE PublishMark(s)
  <2> DEFINE x == [c EXCEPT !.step = "event"]
  <2>1. call' = [call EXCEPT ![s] = x] /\ c.step = "mark"
    BY <1>4 DEF PublishMark, Goto, AtStep
  <2>2. c \in PublishCall
    BY <2>1, CallAtStep
  <2>3. x.step = "event"
    BY <2>2 DEF PublishCall
  <2> HIDE DEF x
  <2> QED BY <2>1, <2>3 DEF Moves, Ordinary
<1>5. CASE InstallSample(s) \/ InstallSubmit(s) \/ InstallApprove(s) \/ InstallReport(s)
  <2>1. PICK x : GoesTo(s, x)
    BY <1>5, InstallMoves
  <2>2. Ordinary(x)
    BY <2>1, IdleOrdinary DEF GoesTo, LaterStep, InstallCall, DefSteps, Ordinary
  <2> QED BY <2>1, <2>2 DEF GoesTo, Moves
<1>6. CASE ModuleWorkflow(s) \/ ModuleType(s) \/ ModuleRole(s)
  <2>1. c \in ModuleCall
    BY <1>6, CallAtStep DEF ModuleWorkflow, ModuleType, ModuleRole, AtStep
  <2>2. \E length : \E phase \in {"module_type", "module_role", "end"} :
           \/ call' = [call EXCEPT ![s] = NextModuleStep(c, length, phase)]
           \/ call' = [call EXCEPT ![s] = Idle]
    BY <1>6 DEF ModuleWorkflow, ModuleType, ModuleRole, Goto
  <2>3. PICK length, phase : phase \in {"module_type", "module_role", "end"} /\
           \/ call' = [call EXCEPT ![s] = NextModuleStep(c, length, phase)]
           \/ call' = [call EXCEPT ![s] = Idle]
    BY <2>2
  <2> DEFINE x == NextModuleStep(c, length, phase)
  <2>4. x \in ModuleCall \/ x = Idle
    BY <2>1, <2>3, ModuleStep
  <2>5. Ordinary(x)
    BY <2>4, IdleOrdinary DEF ModuleCall, Ordinary
  <2> HIDE DEF x
  <2> QED BY <2>3, <2>5, IdleOrdinary DEF Moves, x
<1> QED BY <1>1, <1>2, <1>3, <1>4, <1>5, <1>6

\* A type that is to replace another one is stored already.
LEMMA CreateMoves ==
    ASSUME IInv, NEW s \in Slots, CreateObjectType(s)
    PROVE  \/ Moves(s)
           \/ \E x : /\ call' = [call EXCEPT ![s] = x] /\ x.step = "retype"
                     /\ Def(x).key \in Entries(types) /\ UNCHANGED types
<1> DEFINE c == call[s]
           key == Def(c).key
           x == [c EXCEPT !.step = "retype"]
<1>1. c.step = "type" /\ c \in PublishCall \cup InstallCall
  BY CallAtStep DEF CreateObjectType, AtStep, DefSteps
<1>2. key \in TypeKeys /\ types \in [TypeKeys -> Origins \cup {None}]
  BY <1>1, TypeReady DEF IInv, TablesSound
<1>3. x.step = "retype" /\ Def(x) = Def(c)
  BY <1>1 DEF PublishCall, InstallCall, Def, Objects
<1>4. CASE call' = [call EXCEPT ![s] = AfterType(c)]
  BY <1>1, <1>4, AfterTypeOrdinary DEF Moves
<1>5. CASE types[key] # None /\ call' = [call EXCEPT ![s] = x] /\ UNCHANGED types
  <2>1. Def(x).key \in Entries(types)
    BY <1>2, <1>3, <1>5 DEF Entries
  <2> HIDE DEF x
  <2> QED BY <1>3, <1>5, <2>1
<1> QED BY <1>4, <1>5 DEF CreateObjectType, Goto

\* A type an origin defines, with keys of their own for its fields, may be stored.
Retypes(key, origin) ==
    /\ key \in TypeKeys /\ origin \in Origins /\ key \in DOMAIN ObjectType[origin]
    /\ Keyed(ObjectType[origin][key].fields)
    /\ types' = [types EXCEPT ![key] = origin]

LEMMA BuilderRetypes ==
    ASSUME IInv, NEW s \in Slots, CreateObjectType(s) \/ UpdateObjectType(s)
    PROVE  UNCHANGED types \/ \E key, origin : Retypes(key, origin)
<1> DEFINE c == call[s]
           key == Def(c).key
<1>1. c.step \in {"type", "retype"} /\ validate_object_type(to_object_type(Def(c)))
  BY DEF CreateObjectType, UpdateObjectType, AtStep
<1>2. /\ c.of \in Origins /\ key \in TypeKeys /\ key \in DOMAIN ObjectType[c.of]
      /\ Keyed(ObjectType[c.of][key].fields)
  BY <1>1, TypeReadyKeyed
<1>3. UNCHANGED types \/ types' = [types EXCEPT ![key] = c.of]
  BY DEF CreateObjectType, UpdateObjectType
<1> QED BY <1>2, <1>3 DEF Retypes

LEMMA ModulesRetype ==
    ASSUME IInv, NEW s \in Slots, ModuleType(s)
    PROVE  UNCHANGED types \/ \E key, origin : Retypes(key, origin)
<1> DEFINE c == call[s]
           key == object_types[c.n].key
<1>1. c.step = "module_type" /\ c \in ModuleCall
  BY CallAtStep DEF ModuleType, AtStep
<1>2. c.n \in DOMAIN object_types
  BY <1>1, CallAtStep DEF Backed, ModuleBacked
<1>3. /\ key \in DOMAIN ObjectType["modules"] /\ key \in TypeKeys
      /\ ObjectType["modules"][key] = object_types[c.n]
  BY <1>2, ModulesDefine, ShippedKeysCover DEF TypeKeys, Keys
<1>4. Keyed(object_types[c.n].fields)
  BY <1>2, ObjectTypesKeyed
<1>5. UNCHANGED types \/ types' = [types EXCEPT ![key] = "modules"]
  BY DEF ModuleType
<1>6. "modules" \in Origins
  BY DEF Origins
<1> QED BY <1>3, <1>4, <1>5, <1>6 DEF Retypes

LEMMA DirectRetypes ==
    ASSUME IInv, NEW v \in Direct, DefineType(v)
    PROVE  \E key, origin : Retypes(key, origin)
<1> DEFINE key == Definitions[v].key
<1>1. v \in DOMAIN Definitions /\ v \in Origins /\ key \in TypeKeys
  BY OriginsApart, BuilderAssumption DEF TypeKeys, BuilderAssumption
<1>2. types' = [types EXCEPT ![key] = v] /\ validate_object_type(to_object_type(Definitions[v]))
  BY DEF DefineType
<1>3. v \in DOMAIN Definitions /\ validate_object_type(to_object_type(Definitions[v]))
  BY <1>1, <1>2
<1>4. key \in DOMAIN ObjectType[v] /\ Keyed(ObjectType[v][key].fields)
  BY ONLY <1>3, ValidatedKeyed
<1> HIDE DEF key
<1> QED BY <1>1, <1>2, <1>4 DEF Retypes

LEMMA TypesMove ==
    ASSUME IInv, [Next]_vars
    PROVE  UNCHANGED types \/ \E key, origin : Retypes(key, origin)
<1>1. ASSUME NEW s \in Slots, CreateObjectType(s) \/ UpdateObjectType(s) \/ ModuleType(s)
      PROVE  UNCHANGED types \/ \E key, origin : Retypes(key, origin)
  BY <1>1, BuilderRetypes, ModulesRetype
<1>2. ASSUME NEW v \in Direct, DefineType(v)
      PROVE  \E key, origin : Retypes(key, origin)
  BY <1>2, DirectRetypes
<1>3. ASSUME NEW s \in Slots,
             \/ \E id \in DraftIds, v \in Drafts : SaveDraftValidate(s, id, v)
             \/ \E key \in DraftKeys : PublishBegin(s, key)
             \/ \E t \in Installable, samples \in BOOLEAN : InstallBegin(s, t, samples)
             \/ \E t \in Installable \cup {None}, for \in {"old", "selected"} :
                   PlanBegin(s, for, t)
             \/ ModulesBegin(s) \/ PlanReply(s) \/ Abort(s)
      PROVE  UNCHANGED types
  BY <1>3 DEF SaveDraftValidate, PublishBegin, InstallBegin, PlanBegin, ModulesBegin,
              PlanReply, Abort, data
<1>5. ASSUME NEW s \in Slots,
             \/ SaveDraftCommit(s) \/ CreateWorkflow(s)
             \/ PublishMark(s) \/ PublishEvent(s) \/ InstallAudit(s)
             \/ ModuleWorkflow(s) \/ ModuleRole(s)
      PROVE  UNCHANGED types
  BY <1>5 DEF SaveDraftCommit, CreateWorkflow, PublishMark, PublishEvent, InstallAudit,
              ModuleWorkflow, ModuleRole
<1>6. ASSUME NEW s \in Slots,
             InstallSample(s) \/ InstallSubmit(s) \/ InstallApprove(s) \/ InstallReport(s)
      PROVE  UNCHANGED types
  BY <1>6, InstallMoves DEF Tables
<1>4. ASSUME (\E key \in UserTypes : CreateRecord(key)) \/ Rest \/ UNCHANGED vars
      PROVE  UNCHANGED types
  BY <1>4 DEF CreateRecord, Rest, vars
<1> QED BY <1>1, <1>2, <1>3, <1>4, <1>5, <1>6 DEF Next

\* What is stored stays stored, and its fields have keys of their own.
LEMMA FieldsStay ==
    ASSUME IInv, FieldsSound(types),
           UNCHANGED types \/ \E key, origin : Retypes(key, origin)
    PROVE  FieldsSound(types') /\ Entries(types) \subseteq Entries(types')
<1>1. CASE UNCHANGED types
  BY <1>1
<1>2. ASSUME NEW key, NEW origin, Retypes(key, origin)
      PROVE  FieldsSound(types') /\ Entries(types) \subseteq Entries(types')
  <2>1. DOMAIN types = TypeKeys /\ DOMAIN types' = TypeKeys /\ origin # None
    BY <1>2, OriginsApart DEF IInv, TablesSound, Retypes
  <2>2. types'[key] = origin /\ \A k \in TypeKeys \ {key} : types'[k] = types[k]
    BY <1>2, <2>1 DEF Retypes
  <2>3. Entries(types) \subseteq Entries(types')
    BY <2>1, <2>2 DEF Entries
  <2>4. ASSUME NEW k \in Entries(types') PROVE Keyed(Stored(types', k).fields)
    <3>1. CASE k = key
      BY <1>2, <2>2, <3>1 DEF Retypes, Stored
    <3>2. CASE k # key
      <4>1. types'[k] = types[k] /\ k \in Entries(types)
        BY <2>1, <2>2, <2>4, <3>2 DEF Entries
      <4> QED BY <4>1 DEF Stored, FieldsSound
    <3> QED BY <3>1, <3>2
  <2> QED BY <2>3, <2>4 DEF FieldsSound
<1> QED BY <1>1, <1>2

\* The counts are natural numbers.
LEMMA CountsStay ==
    ASSUME records \in [TypeKeys -> Nat], [Next]_vars
    PROVE  records' \in [TypeKeys -> Nat]
<1>1. ASSUME NEW key, records' = [records EXCEPT ![key] = @ + 1]
      PROVE  records' \in [TypeKeys -> Nat]
  <2>1. CASE key \in TypeKeys
    <3>1. records[key] + 1 \in Nat
      BY <2>1
    <3> QED BY <1>1, <3>1
  <2>2. CASE key \notin TypeKeys
    <3>1. records' = records
      BY <1>1, <2>2
    <3> QED BY <3>1
  <2> QED BY <2>1, <2>2
<1>2. ASSUME NEW s \in Slots, InstallSample(s)
      PROVE  UNCHANGED records \/ \E key : records' = [records EXCEPT ![key] = @ + 1]
  BY <1>2 DEF InstallSample
<1>3. ASSUME \E key \in UserTypes : CreateRecord(key)
      PROVE  \E key : records' = [records EXCEPT ![key] = @ + 1]
  BY <1>3 DEF CreateRecord
<1>4. ASSUME NEW s \in Slots,
             \/ \E id \in DraftIds, v \in Drafts : SaveDraftValidate(s, id, v)
             \/ \E key \in DraftKeys : PublishBegin(s, key)
             \/ \E t \in Installable, samples \in BOOLEAN : InstallBegin(s, t, samples)
             \/ \E t \in Installable \cup {None}, for \in {"old", "selected"} :
                   PlanBegin(s, for, t)
             \/ ModulesBegin(s) \/ PlanReply(s) \/ Abort(s)
      PROVE  UNCHANGED records
  BY <1>4 DEF SaveDraftValidate, PublishBegin, InstallBegin, PlanBegin, ModulesBegin,
              PlanReply, Abort, data
<1>5. ASSUME NEW s \in Slots,
             \/ SaveDraftCommit(s)
             \/ CreateWorkflow(s) \/ CreateObjectType(s) \/ UpdateObjectType(s)
             \/ PublishMark(s) \/ PublishEvent(s) \/ InstallAudit(s)
             \/ ModuleWorkflow(s) \/ ModuleType(s) \/ ModuleRole(s)
      PROVE  UNCHANGED records
  BY <1>5 DEF SaveDraftCommit, CreateWorkflow, CreateObjectType, UpdateObjectType,
              PublishMark, PublishEvent, InstallAudit, ModuleWorkflow, ModuleType, ModuleRole
<1>6. ASSUME NEW s \in Slots, InstallSubmit(s) \/ InstallApprove(s) \/ InstallReport(s)
      PROVE  UNCHANGED records
  BY <1>6 DEF InstallSubmit, InstallApprove, InstallReport
<1>7. ASSUME (\E v \in Direct : DefineType(v)) \/ Rest \/ UNCHANGED vars
      PROVE  UNCHANGED records
  BY <1>7 DEF DefineType, Rest, vars
<1>8. UNCHANGED records \/ \E key : records' = [records EXCEPT ![key] = @ + 1]
  BY <1>2, <1>3, <1>4, <1>5, <1>6, <1>7 DEF Next
<1> QED BY <1>1, <1>8

CallsReady(cs, ts) == \A s \in Slots : CallReady(cs[s], ts)

\* A call that moves on is ready for its next step, the others stay ready.
LEMMA OneMoves ==
    ASSUME DOMAIN call = Slots, NEW ts, NEW ts2, ts \subseteq ts2, CallsReady(call, ts),
           NEW s \in Slots, NEW x, call' = [call EXCEPT ![s] = x], CallReady(x, ts2)
    PROVE  CallsReady(call', ts2)
<1>1. ASSUME NEW r \in Slots PROVE CallReady(call[r], ts2)
  BY DEF CallsReady, CallReady
<1>2. ASSUME NEW r \in Slots PROVE CallReady(call'[r], ts2)
  <2>1. call'[r] = IF r = s THEN x ELSE call[r]
    OBVIOUS
  <2> QED BY <2>1, <1>1
<1> QED BY <1>2 DEF CallsReady

LEMMA CallsStayReady ==
    ASSUME PInv, [Next]_vars, Entries(types) \subseteq Entries(types')
    PROVE  CallsReady(call', Entries(types'))
<1> DEFINE ts == Entries(types)
           ts2 == Entries(types')
<1>0. IInv /\ DOMAIN call = Slots /\ CallsReady(call, ts)
  BY DEF PInv, IInv, CallsSound, CallsReady
<1>1. ASSUME NEW s \in Slots, Moves(s) PROVE CallsReady(call', ts2)
  <2>1. PICK x : Ordinary(x) /\ call' = [call EXCEPT ![s] = x]
    BY <1>1 DEF Moves
  <2>2. CallReady(x, ts2)
    BY <2>1 DEF Ordinary, CallReady
  <2> QED BY <1>0, <2>1, <2>2, OneMoves
<1>2. ASSUME NEW s \in Slots,
             \/ \E id \in DraftIds, v \in Drafts : SaveDraftValidate(s, id, v)
             \/ \E key \in DraftKeys : PublishBegin(s, key)
             \/ \E t \in Installable, samples \in BOOLEAN : InstallBegin(s, t, samples)
             \/ ModulesBegin(s)
      PROVE  Moves(s)
  BY <1>0, <1>2, CallsBegin
<1>3. ASSUME NEW s \in Slots,
             \/ SaveDraftCommit(s) \/ CreateWorkflow(s) \/ UpdateObjectType(s)
             \/ PublishMark(s) \/ PublishEvent(s)
             \/ InstallSample(s) \/ InstallSubmit(s) \/ InstallApprove(s)
             \/ InstallReport(s) \/ InstallAudit(s)
             \/ ModuleWorkflow(s) \/ ModuleType(s) \/ ModuleRole(s)
             \/ PlanReply(s) \/ Abort(s)
      PROVE  Moves(s)
  BY <1>0, <1>3, CallsMove
<1>4. ASSUME NEW s \in Slots, CreateObjectType(s) PROVE CallsReady(call', ts2)
  <2>1. ASSUME NEW x, call' = [call EXCEPT ![s] = x], x.step = "retype", Def(x).key \in ts
        PROVE  CallsReady(call', ts2)
    <3>1. CallReady(x, ts2)
      BY <2>1 DEF CallReady
    <3> QED BY <1>0, <2>1, <3>1, OneMoves
  <2> QED BY <1>0, <1>1, <1>4, <2>1, CreateMoves
<1>5. ASSUME NEW s \in Slots, NEW t \in Installable \cup {None},
             NEW for \in {"old", "selected"}, PlanBegin(s, for, t)
      PROVE  CallsReady(call', ts2)
  <2> DEFINE x == [step |-> "plan", for |-> for, of |-> t, old |-> TypesNow]
  <2>1. call' = [call EXCEPT ![s] = x]
    BY <1>5 DEF PlanBegin, Begin
  <2>2. Formed(TypesNow)
    BY TypesNowFormed DEF PInv
  <2>3. CallReady(x, ts2)
    BY <2>2 DEF CallReady, PlanCall
  <2> HIDE DEF x
  <2> QED BY <1>0, <2>1, <2>3, OneMoves
<1>6. ASSUME \/ \E v \in Direct : DefineType(v)
             \/ \E key \in UserTypes : CreateRecord(key)
             \/ Rest \/ UNCHANGED vars
      PROVE  CallsReady(call', ts2)
  <2>1. UNCHANGED call
    BY <1>6 DEF DefineType, CreateRecord, Rest, vars
  <2> QED BY <1>0, <2>1 DEF CallsReady, CallReady
<1> QED BY <1>1, <1>2, <1>3, <1>4, <1>5, <1>6 DEF Next

LEMMA PlannerStep == PInv /\ [Next]_vars => PInv'
<1> SUFFICES ASSUME PInv, [Next]_vars PROVE PInv'
  OBVIOUS
<1>1. IInv'
  BY StepSound DEF PInv
<1>2. FieldsSound(types') /\ Entries(types) \subseteq Entries(types')
  BY TypesMove, FieldsStay DEF PInv
<1>3. records' \in [TypeKeys -> Nat]
  BY CountsStay DEF PInv
<1>4. CallsReady(call', Entries(types'))
  BY <1>2, CallsStayReady
<1> QED BY <1>1, <1>2, <1>3, <1>4 DEF PInv, CallsReady

LEMMA PlannerInit == Init => PInv
<1> SUFFICES ASSUME Init PROVE PInv
  OBVIOUS
<1>1. IInv
  BY InitSound
<1>2. Entries(types) = {}
  BY DEF Init, Entries
<1>3. FieldsSound(types)
  BY <1>2 DEF FieldsSound
<1>4. records \in [TypeKeys -> Nat]
  BY DEF Init
<1>5. \A s \in Slots : CallReady(call[s], Entries(types))
  BY DEF Init, Idle, CallReady
<1> QED BY <1>1, <1>3, <1>4, <1>5 DEF PInv

(***************************************************************************)
(* Every plan is made from object types whose keys, and whose fields' keys,*)
(* are their own, and counts that are natural numbers; and what an install *)
(* replaces is stored.                                                     *)
(***************************************************************************)
THEOREM PlansHaveTheirInputs == Spec => []PInv
BY PlannerInit, PlannerStep, PTL DEF Spec

-----------------------------------------------------------------------------
(* The reports, and what an install replaces *)

\* A report of a tenant that selected nothing counts all records as unmapped.
LEMMA InventoryTotals ==
    ASSUME NEW objects, Keyed(objects), NEW counts, \A k \in DOMAIN counts : counts[k] \in Nat
    PROVE  old_only_summary(Snapshot(objects, counts)).records_unmapped
              = total_records(Snapshot(objects, counts))
<1> DEFINE v == [k \in Keys(objects) |-> CountOf(counts, k)]
           total == total_records(Snapshot(objects, counts))
<1>1. \A k \in Keys(objects) : v[k] = CountOf(counts, k) /\ v[k] \in Nat
  BY DEF CountOf
<1>2. total = SumFunctionOnSet(v, Keys(objects)) /\ IsFiniteSet(Keys(objects))
  <2> HIDE DEF v
  <2> QED BY <1>1, SnapshotTotal
<1>3. total \in Int
  <2>1. IsFiniteSet({}) /\ Keys(objects) \cap {} = {}
    BY FS_EmptySet
  <2>2. \A k \in Keys(objects) \cup {} : v[k] \in Int
    BY <1>1
  <2> HIDE DEF v, total
  <2>3. SumFunctionOnSet(v, Keys(objects)) \in Int
    BY <1>2, <2>1, <2>2, SumOfBoth
  <2> QED BY <1>2, <2>3
<1>4. old_only_summary(Snapshot(objects, counts)).records_unmapped = total - 0
  BY DEF old_only_summary, Summary
<1>5. total - 0 = total
  <2> HIDE DEF total
  <2> QED BY <1>3
<1> QED BY <1>4, <1>5

LEMMA ReportsComplete ==
    ASSUME PInv, NEW s \in Slots, PlanReply(s)
    PROVE  ReportIsComplete(s)
<1> DEFINE c == call[s]
           target == template_by_key[c.of]
           plan == build_plan(c.old, records, target)
<1>1. /\ Formed(c.old) /\ c.for \in {"old", "selected"} /\ c.of \in Installable \cup {None}
      /\ \A k \in DOMAIN records : records[k] \in Nat
  BY DEF PInv, PlanReply, AtStep, CallReady, PlanCall
<1>2. CASE c.for = "selected" /\ c.of # None
  <2>1. c.of \in TemplateKeys
    BY <1>1, <1>2, BuilderAssumption DEF BuilderAssumption
  <2>2. Formed(target) /\ target # None
    BY <2>1, TemplatesFormed, KeysAssumption DEF KeysAssumption
  <2>3. /\ EveryFieldAccountedFor(plan, c.old, target)
        /\ EveryObstacleReported(plan, c.old, target)
        /\ TotalsAgree(plan)
    BY <1>1, <2>2, PlansLoseNothing
  <2>4. Report(s).plan = plan /\ Report(s).summary = plan.summary
    BY <1>2, <2>2 DEF Report, build_report
  <2> HIDE DEF plan
  <2> QED BY <1>2, <2>3, <2>4 DEF ReportIsComplete
<1>3. CASE ~(c.for = "selected" /\ c.of # None)
  <2> DEFINE snapshot == Snapshot(c.old, records)
  <2>1. /\ Report(s).plan = None /\ Report(s).source_system = snapshot
        /\ Report(s).summary = old_only_summary(snapshot)
    BY <1>3 DEF Report, build_report
  <2>2. old_only_summary(snapshot).records_unmapped = total_records(snapshot)
    BY <1>1, InventoryTotals DEF Formed
  <2>3. old_only_summary(snapshot).conflicts = 0
    BY DEF old_only_summary, Summary
  <2> HIDE DEF snapshot
  <2> QED BY <1>3, <2>1, <2>2, <2>3 DEF ReportIsComplete
<1> QED BY <1>2, <1>3

\* The fields a plan names in one kind of conflict of an object that is kept
\* under its key are the obstacles of that kind.
LEMMA SaidIs ==
    ASSUME Formed(TypesNow), NEW template, Formed(template_by_key[template]),
           NEW key \in Keys(TypesNow) \cap Keys(template_by_key[template])
    PROVE  LET before == ByKey(TypesNow, key)
               after  == ByKey(template_by_key[template], key) IN
           /\ Said(template, key, "dropped") = FieldKeys(before.fields) \ FieldKeys(after.fields)
           /\ Said(template, key, "missing_required")
                = {g \in FieldKeys(after.fields) \ FieldKeys(before.fields) :
                      field(after, g).required}
<1> DEFINE target == template_by_key[template]
           before == ByKey(TypesNow, key)
           after  == ByKey(target, key)
           plan == build_plan(TypesNow, records, target)
           Dropped == FieldKeys(before.fields) \ FieldKeys(after.fields)
           Missing == {g \in FieldKeys(after.fields) \ FieldKeys(before.fields) :
                          field(after, g).required}
<1>1. ToSet(plan.conflicts) = Obstacles(TypesNow, target)
  <2>1. plan.conflicts = PlanConflicts(TypesNow, target)
    BY DEF build_plan
  <2>2. Listing(PlanConflicts(TypesNow, target), Obstacles(TypesNow, target))
    BY PlanConflictsList
  <2>3. ToSet(PlanConflicts(TypesNow, target)) = Obstacles(TypesNow, target)
    BY <2>2, ListingIs
  <2> HIDE DEF plan
  <2> QED BY <2>1, <2>3
<1>2. ASSUME NEW x
      PROVE  /\ x \in Obstacles(TypesNow, target) /\ x.kind = "dropped" /\ x.object = key
                   => x.field \in Dropped
             /\ x \in Obstacles(TypesNow, target) /\ x.kind = "missing_required"
                /\ x.object = key => x.field \in Missing
  BY DEF Obstacles, Conflict
<1>3. FieldObstacles(key, before, after) \subseteq Obstacles(TypesNow, target)
  BY DEF Obstacles, FieldObstacles
<1>4. \A f \in Dropped : Conflict("dropped", key, f) \in Obstacles(TypesNow, target)
  <2>1. \A f \in Dropped : Conflict("dropped", key, f) \in FieldObstacles(key, before, after)
    BY DEF FieldObstacles
  <2> HIDE DEF before, after, Dropped
  <2> QED BY <1>3, <2>1
<1>5. \A f \in Missing : Conflict("missing_required", key, f) \in Obstacles(TypesNow, target)
  <2>1. \A f \in Missing :
           Conflict("missing_required", key, f) \in FieldObstacles(key, before, after)
    BY DEF FieldObstacles
  <2> HIDE DEF before, after, Missing
  <2> QED BY <1>3, <2>1
<1>6. ASSUME NEW kind, NEW S,
             \A x \in Obstacles(TypesNow, target) :
                x.kind = kind /\ x.object = key => x.field \in S,
             \A f \in S : Conflict(kind, key, f) \in Obstacles(TypesNow, target)
      PROVE  Said(template, key, kind) = S
  <2>1. Said(template, key, kind)
           = {x.field : x \in {x \in Obstacles(TypesNow, target) :
                                  x.kind = kind /\ x.object = key}}
    BY <1>1 DEF Said
  <2>2. ASSUME NEW f \in Said(template, key, kind) PROVE f \in S
    BY <1>6, <2>1, <2>2
  <2>3. ASSUME NEW f \in S PROVE f \in Said(template, key, kind)
    <3> DEFINE x == Conflict(kind, key, f)
    <3>1. x.kind = kind /\ x.object = key /\ x.field = f
      BY DEF Conflict
    <3>2. x \in Obstacles(TypesNow, target)
      BY <1>6
    <3> HIDE DEF x
    <3> QED BY <2>1, <3>1, <3>2
  <2> QED BY <2>2, <2>3
<1> HIDE DEF before, after, Dropped, Missing, target
<1>7. Said(template, key, "dropped") = Dropped
  BY <1>2, <1>4, <1>6
<1>8. Said(template, key, "missing_required") = Missing
  BY <1>2, <1>5, <1>6
<1> QED BY <1>7, <1>8 DEF Dropped, Missing, before, after, target

LEMMA ReplacedSound ==
    ASSUME PInv, NEW s \in Slots, Replaces(s)
    PROVE  ReplacedAsPlanned(s)
<1> DEFINE c == call[s]
           def == Def(c)
           key == def.key
           target == template_by_key[c.of]
           before == Stored(types, key)
           after == Stored(types', key)
<1>0. IInv /\ FieldsSound(types)
  BY DEF PInv
<1>1. /\ c.step = "retype" /\ c.kind = "install"
      /\ validate_object_type(to_object_type(def))
      /\ types' = [types EXCEPT ![key] = c.of]
  BY DEF Replaces, UpdateObjectType, AtStep
<1>2. c \in InstallCall
  BY <1>0, <1>1, CallAtStep DEF DefSteps, PublishCall
<1>3. c.of \in TemplateKeys /\ def = target[c.n] /\ c.n \in DOMAIN target
  <2>1. c.of \in TemplateKeys /\ def = target[c.n]
    BY <1>2, ObjectOf DEF InstallCall
  <2>2. c.n \in DOMAIN target
    BY <1>0, <1>1, <1>2, CallAtStep DEF Backed, InstallBacked, DefSteps
  <2> QED BY <2>1, <2>2
<1>4. key \in Entries(types) /\ key \in TypeKeys /\ DOMAIN types = TypeKeys
  <2>1. key \in Entries(types)
    BY <1>1 DEF PInv, CallReady
  <2> QED BY <1>0, <2>1 DEF IInv, TablesSound, Entries
<1>5. Formed(target) /\ ByKey(target, key) = def /\ key \in Keys(target)
  <2>1. Formed(target)
    BY <1>3, TemplatesFormed
  <2>2. DOMAIN target = 1..Len(target)
    BY <1>3, TemplatesInOrder DEF InOrder
  <2>3. ByKey(target, target[c.n].key) = target[c.n]
    BY <1>3, <2>1, <2>2, KeyedLists DEF Formed
  <2>4. target[c.n].key \in Keys(target)
    BY <1>3 DEF Keys
  <2> HIDE DEF target, def
  <2> QED BY <1>3, <2>1, <2>3, <2>4
<1>6. Formed(TypesNow) /\ key \in Keys(TypesNow) /\ ByKey(TypesNow, key) = before
  BY <1>0, <1>4, TypesNowFormed
<1>7. after = to_object_type(def)
  <2>1. types'[key] = c.of
    BY <1>1, <1>4
  <2>2. ObjectType[c.of][key] = to_object_type(def)
    <3>1. LET d == target[c.n] IN ObjectType[c.of][d.key] = to_object_type(d)
      BY ONLY <1>3, TemplateDefines
    <3>2. def = target[c.n]
      BY ONLY <1>3
    <3> HIDE DEF def, target
    <3> QED BY ONLY <3>1, <3>2
  <2> QED BY <2>1, <2>2 DEF Stored
<1>8. after.fields = def.fields /\ \A f : field(after, f) = field(def, f)
  BY <1>7 DEF to_object_type, OT, field
<1>9. key \in Keys(TypesNow) \cap Keys(target)
  BY <1>5, <1>6
<1>10. /\ Said(c.of, key, "dropped") = FieldKeys(before.fields) \ FieldKeys(def.fields)
       /\ Said(c.of, key, "missing_required")
             = {g \in FieldKeys(def.fields) \ FieldKeys(before.fields) : field(def, g).required}
  <2> HIDE DEF key, def, before
  <2> QED BY <1>5, <1>6, <1>9, SaidIs
<1>11. {f \in FieldKeys(after.fields) \ FieldKeys(before.fields) : field(after, f).required}
          = {g \in FieldKeys(def.fields) \ FieldKeys(before.fields) : field(def, g).required}
  <2> HIDE DEF after, def, before
  <2> QED BY <1>8
<1>12. /\ FieldKeys(before.fields) \ FieldKeys(after.fields) = Said(c.of, key, "dropped")
       /\ {f \in FieldKeys(after.fields) \ FieldKeys(before.fields) : field(after, f).required}
             = Said(c.of, key, "missing_required")
  <2> HIDE DEF after, def, before, key, c
  <2> QED BY <1>8, <1>10, <1>11
<1> QED BY <1>12 DEF ReplacedAsPlanned

(***************************************************************************)
(* Each report accounts for everything, whatever happens between the two   *)
(* reads it is made from.                                                  *)
(***************************************************************************)
THEOREM ReportsLoseNothing == Spec => ReportsAreComplete
<1>1. PInv /\ [Next]_vars => [\A s \in Slots : PlanReply(s) => ReportIsComplete(s)]_vars
  BY ReportsComplete
<1> QED BY <1>1, PlansHaveTheirInputs, PTL DEF Spec, ReportsAreComplete

(***************************************************************************)
(* What an install drops and adds is what the plan for the template says,  *)
(* whatever calls run beside it.                                           *)
(***************************************************************************)
THEOREM InstallsMatchPlans == Spec => InstallDoesWhatThePlanSays
<1>1. PInv /\ [Next]_vars => [\A s \in Slots : Replaces(s) => ReplacedAsPlanned(s)]_vars
  BY ReplacedSound
<1> QED BY <1>1, PlansHaveTheirInputs, PTL DEF Spec, InstallDoesWhatThePlanSays

-----------------------------------------------------------------------------
(***************************************************************************)
(* Publications that no save of their draft overlaps.  PublishedIsValid    *)
(* fails when a draft is saved between the validation and the mark of its  *)
(* publication; that this is the only way is what follows.                 *)
(***************************************************************************)

\* A publication that has read its draft and not marked it yet
Unmarked(c) == c \in PublishCall /\ c.step # "event"

\* A save is not stored while its draft is being published.
SavesApart ==
    \A s, t \in Slots : SaveDraftCommit(s) /\ Unmarked(call[t]) =>
        Definitions[call[t].of].key # Definitions[call[s].of].key

\* The draft being published is as the publication read it.
AsRead ==
    \A s \in Slots : Unmarked(call[s]) =>
        drafts[Definitions[call[s].of].key].version = call[s].of

PublishedSound(ds, ts) ==
    \A k \in DraftKeys : ds[k].status = "published" =>
        validate_builder_definition(Definitions[ds[k].version], ts)

QInv == PInv /\ AsRead /\ PublishedSound(drafts, Entries(types))

\* A call keeps its kind and what it is about from one definition to the next.
LEMMA SameCall ==
    ASSUME NEW c \in PublishCall \cup InstallCall
    PROVE  /\ AtObject(c).kind = c.kind /\ AtObject(c).of = c.of
           /\ AfterType(c).kind = c.kind /\ AfterType(c).of = c.of
           /\ [c EXCEPT !.step = "type"].kind = c.kind
           /\ [c EXCEPT !.step = "type"].of = c.of
           /\ [c EXCEPT !.step = "retype"].kind = c.kind
           /\ [c EXCEPT !.step = "retype"].of = c.of
<1>1. ASSUME NEW d, {"step", "kind", "of"} \subseteq DOMAIN d, NEW x
      PROVE  [d EXCEPT !.step = x].kind = d.kind /\ [d EXCEPT !.step = x].of = d.of
  BY <1>1
<1>2. {"step", "kind", "of", "n"} \subseteq DOMAIN c
  BY DEF PublishCall, InstallCall
<1>3. ASSUME NEW d, {"step", "kind", "of"} \subseteq DOMAIN d
      PROVE  AtObject(d).kind = d.kind /\ AtObject(d).of = d.of
  BY <1>1, <1>3 DEF AtObject
<1>4. AtReports(c).kind = c.kind /\ AtReports(c).of = c.of
  BY <1>2 DEF AtReports
<1>5. AtSamples(c).kind = c.kind /\ AtSamples(c).of = c.of
  BY <1>2, <1>4 DEF AtSamples
<1>6. AfterType(c).kind = c.kind /\ AfterType(c).of = c.of
  <2> DEFINE next == [c EXCEPT !.n = @ + 1]
  <2>1. /\ next.kind = c.kind /\ next.of = c.of /\ DOMAIN next = DOMAIN c
    BY <1>2
  <2>2. AtObject(next).kind = c.kind /\ AtObject(next).of = c.of
    <3> HIDE DEF next
    <3> QED BY <1>2, <1>3, <2>1
  <2>3. \/ AfterType(c) = [c EXCEPT !.step = "mark"]
        \/ AfterType(c) = AtObject(next)
        \/ AfterType(c) = AtSamples(c)
    BY DEF AfterType
  <2>4. [c EXCEPT !.step = "mark"].kind = c.kind /\ [c EXCEPT !.step = "mark"].of = c.of
    BY <1>1, <1>2
  <2> HIDE DEF next
  <2> QED BY <1>5, <2>2, <2>3, <2>4
<1> QED BY <1>1, <1>2, <1>3, <1>6

\* A call is a publication after a step if it was the same one before, or if
\* the step read its draft.
KeepsPublishing(s) ==
    /\ call[s] \in PublishCall /\ call'[s].of = call[s].of
    /\ call[s].step = "event" => call'[s].step = "event"
HasReadDraft(s) ==
    UNCHANGED drafts /\ drafts[Definitions[call'[s].of].key].version = call'[s].of

LEMMA PublicationBegins ==
    ASSUME IInv, NEW s \in Slots, call'[s] \in PublishCall,
           \/ \E id \in DraftIds, v \in Drafts : SaveDraftValidate(s, id, v)
           \/ \E key \in DraftKeys : PublishBegin(s, key)
           \/ \E t \in Installable, samples \in BOOLEAN : InstallBegin(s, t, samples)
           \/ \E t \in Installable \cup {None}, for \in {"old", "selected"} :
                 PlanBegin(s, for, t)
           \/ ModulesBegin(s)
    PROVE  HasReadDraft(s)
<1>1. DOMAIN call = Slots
  BY DEF IInv, CallsSound
<1>2. call'[s].kind = "publish" /\ call'[s].step \in DefSteps \cup {"mark", "event"}
  BY DEF PublishCall
<1>3. ASSUME NEW id, NEW v, SaveDraftValidate(s, id, v) PROVE FALSE
  <2>1. call'[s].step = "save"
    BY <1>1, <1>3 DEF SaveDraftValidate, Begin
  <2> QED BY <1>2, <2>1 DEF DefSteps
<1>4. ASSUME NEW t, NEW samples, InstallBegin(s, t, samples), t \in Installable,
             samples \in BOOLEAN
      PROVE  FALSE
  <2> DEFINE c == [step |-> "type", kind |-> "install", of |-> t, n |-> 1,
                   samples |-> samples, made |-> 0]
  <2>1. c \in InstallCall /\ c.kind = "install"
    BY <1>4, BuilderAssumption DEF InstallCall, DefSteps
  <2>2. call'[s] = AtObject(c)
    BY <1>1, <1>4 DEF InstallBegin, Begin
  <2> HIDE DEF c
  <2>3. call'[s].kind = "install"
    BY <2>1, <2>2, SameCall
  <2> QED BY <1>2, <2>3
<1>5. ASSUME NEW t, NEW for, PlanBegin(s, for, t) PROVE FALSE
  <2>1. call'[s].step = "plan"
    BY <1>1, <1>5 DEF PlanBegin, Begin
  <2> QED BY <1>2, <2>1 DEF DefSteps
<1>6. ASSUME ModulesBegin(s) PROVE FALSE
  <2>1. call'[s].step = "module_workflow"
    BY <1>1, <1>6 DEF ModulesBegin, Begin
  <2> QED BY <1>2, <2>1 DEF DefSteps
<1>7. ASSUME NEW key \in DraftKeys, PublishBegin(s, key) PROVE HasReadDraft(s)
  <2> DEFINE c == [step |-> "type", kind |-> "publish", of |-> drafts[key].version,
                   n |-> 1, id |-> drafts[key].id]
  <2>1. /\ drafts[key] \in DraftRow /\ Definitions[drafts[key].version].key = key
    BY <1>7 DEF PublishBegin, IInv, DraftsSound
  <2>2. c \in PublishCall /\ c.of = drafts[key].version
    BY <2>1 DEF DraftRow, PublishCall, DefSteps
  <2>3. call'[s] = AtObject(c) /\ UNCHANGED drafts
    BY <1>1, <1>7 DEF PublishBegin, Begin, data
  <2> HIDE DEF c
  <2>4. call'[s].of = drafts[key].version
    BY <2>2, <2>3, SameCall
  <2> QED BY <2>1, <2>3, <2>4 DEF HasReadDraft
<1> QED BY <1>3, <1>4, <1>5, <1>6, <1>7

LEMMA PublicationGoesOn ==
    ASSUME IInv, NEW s \in Slots, call'[s] \in PublishCall,
           \/ CreateWorkflow(s) \/ CreateObjectType(s) \/ UpdateObjectType(s)
           \/ PublishMark(s)
    PROVE  KeepsPublishing(s)
<1> DEFINE c == call[s]
<1>1. DOMAIN call = Slots
  BY DEF IInv, CallsSound
<1>2. c \in PublishCall \cup InstallCall
  BY CallAtStep DEF CreateWorkflow, CreateObjectType, UpdateObjectType, PublishMark, AtStep,
                    DefSteps
<1>3. call'[s].kind = c.kind /\ call'[s].of = c.of
  <2>1. CASE CreateWorkflow(s)
    <3>1. call'[s] = [c EXCEPT !.step = "type"]
      BY <1>1, <2>1 DEF CreateWorkflow, Goto
    <3> HIDE DEF c
    <3> QED BY <1>2, <3>1, SameCall
  <2>2. CASE CreateObjectType(s) \/ UpdateObjectType(s)
    <3>1. call'[s] = AfterType(c) \/ call'[s] = [c EXCEPT !.step = "retype"]
      BY <1>1, <2>2 DEF CreateObjectType, UpdateObjectType, Goto
    <3> HIDE DEF c
    <3> QED BY <1>2, <3>1, SameCall
  <2>3. CASE PublishMark(s)
    <3>1. call'[s] = [c EXCEPT !.step = "event"]
      BY <1>1, <2>3 DEF PublishMark, Goto
    <3>2. {"step", "kind", "of"} \subseteq DOMAIN c
      BY <1>2 DEF PublishCall, InstallCall
    <3> HIDE DEF c
    <3> QED BY <3>1, <3>2
  <2> QED BY <2>1, <2>2, <2>3
<1>4. call'[s].kind = "publish"
  BY DEF PublishCall
<1>5. c \in InstallCall => c.kind = "install"
  BY DEF InstallCall
<1> HIDE DEF c
<1>6. c \in PublishCall
  BY ONLY <1>2, <1>3, <1>4, <1>5
<1>7. c.step # "event"
  BY DEF CreateWorkflow, CreateObjectType, UpdateObjectType, PublishMark, AtStep, c
<1> QED BY <1>3, <1>6, <1>7 DEF KeepsPublishing, c

LEMMA OthersPublishNothing ==
    ASSUME IInv, NEW s \in Slots,
           \/ SaveDraftCommit(s) \/ PublishEvent(s) \/ InstallAudit(s)
           \/ InstallSample(s) \/ InstallSubmit(s) \/ InstallApprove(s) \/ InstallReport(s)
           \/ ModuleWorkflow(s) \/ ModuleType(s) \/ ModuleRole(s)
           \/ PlanReply(s) \/ Abort(s)
    PROVE  call'[s] \notin PublishCall
<1>1. DOMAIN call = Slots
  BY DEF IInv, CallsSound
<1>2. Idle \notin PublishCall
  BY DEF Idle, PublishCall, DefSteps
<1>3. CASE SaveDraftCommit(s) \/ PublishEvent(s) \/ InstallAudit(s) \/ PlanReply(s) \/ Abort(s)
  <2>1. call'[s] = Idle
    BY <1>1, <1>3 DEF SaveDraftCommit, PublishEvent, InstallAudit, PlanReply, Abort, Goto
  <2> QED BY <1>2, <2>1
<1>4. CASE InstallSample(s) \/ InstallSubmit(s) \/ InstallApprove(s) \/ InstallReport(s)
  <2>1. PICK x : GoesTo(s, x)
    BY <1>4, InstallMoves
  <2>2. call'[s] = x /\ (x \in InstallCall \/ x = Idle)
    BY <1>1, <2>1 DEF GoesTo, LaterStep
  <2> QED BY <1>2, <2>2, CallKinds
<1>5. CASE ModuleWorkflow(s) \/ ModuleType(s) \/ ModuleRole(s)
  <2> DEFINE c == call[s]
  <2>1. c \in ModuleCall
    BY <1>5, CallAtStep DEF ModuleWorkflow, ModuleType, ModuleRole, AtStep
  <2>2. \/ call'[s] = Idle
        \/ \E length : \E phase \in {"module_type", "module_role", "end"} :
              call'[s] = NextModuleStep(c, length, phase)
    BY <1>1, <1>5 DEF ModuleWorkflow, ModuleType, ModuleRole, Goto
  <2> HIDE DEF c
  <2>3. call'[s] = Idle \/ call'[s] \in ModuleCall
    BY <2>1, <2>2, ModuleStep
  <2> QED BY <1>2, <2>3, CallKinds
<1> QED BY <1>3, <1>4, <1>5

LEMMA PublicationSteps ==
    ASSUME IInv, [Next]_vars, NEW s \in Slots, call'[s] \in PublishCall
    PROVE  KeepsPublishing(s) \/ HasReadDraft(s)
<1>1. DOMAIN call = Slots
  BY DEF IInv, CallsSound
<1>2. ASSUME call'[s] = call[s] PROVE KeepsPublishing(s)
  BY <1>2 DEF KeepsPublishing
<1>3. ASSUME NEW r \in Slots, r # s, NEW x, call' = [call EXCEPT ![r] = x]
      PROVE  KeepsPublishing(s)
  <2>1. call'[s] = call[s]
    BY <1>1, <1>3
  <2> QED BY <1>2, <2>1
<1>4. ASSUME NEW r \in Slots, r # s, Moves(r) PROVE KeepsPublishing(s)
  BY <1>3, <1>4 DEF Moves
<1>5. ASSUME NEW r \in Slots,
             \/ \E id \in DraftIds, v \in Drafts : SaveDraftValidate(r, id, v)
             \/ \E key \in DraftKeys : PublishBegin(r, key)
             \/ \E t \in Installable, samples \in BOOLEAN : InstallBegin(r, t, samples)
             \/ ModulesBegin(r)
      PROVE  KeepsPublishing(s) \/ HasReadDraft(s)
  <2>1. CASE r = s
    BY <1>5, <2>1, PublicationBegins
  <2>2. CASE r # s
    BY <1>4, <1>5, <2>2, CallsBegin
  <2> QED BY <2>1, <2>2
<1>6. ASSUME NEW r \in Slots, NEW t \in Installable \cup {None},
             NEW for \in {"old", "selected"}, PlanBegin(r, for, t)
      PROVE  KeepsPublishing(s) \/ HasReadDraft(s)
  <2>1. CASE r = s
    BY <1>6, <2>1, PublicationBegins
  <2>2. CASE r # s
    <3>1. \E x : call' = [call EXCEPT ![r] = x]
      BY <1>6 DEF PlanBegin, Begin
    <3> QED BY <1>3, <2>2, <3>1
  <2> QED BY <2>1, <2>2
<1>7. ASSUME NEW r \in Slots,
             CreateWorkflow(r) \/ UpdateObjectType(r) \/ PublishMark(r)
      PROVE  KeepsPublishing(s)
  <2>1. CASE r = s
    BY <1>7, <2>1, PublicationGoesOn
  <2>2. CASE r # s
    BY <1>4, <1>7, <2>2, CallsMove
  <2> QED BY <2>1, <2>2
<1>8. ASSUME NEW r \in Slots, CreateObjectType(r) PROVE KeepsPublishing(s)
  <2>1. CASE r = s
    BY <1>8, <2>1, PublicationGoesOn
  <2>2. CASE r # s
    <3>1. Moves(r) \/ \E x : call' = [call EXCEPT ![r] = x]
      BY <1>8, CreateMoves
    <3> QED BY <1>3, <1>4, <2>2, <3>1
  <2> QED BY <2>1, <2>2
<1>9. ASSUME NEW r \in Slots,
             \/ SaveDraftCommit(r) \/ PublishEvent(r) \/ InstallAudit(r)
             \/ InstallSample(r) \/ InstallSubmit(r) \/ InstallApprove(r) \/ InstallReport(r)
             \/ ModuleWorkflow(r) \/ ModuleType(r) \/ ModuleRole(r)
             \/ PlanReply(r) \/ Abort(r)
      PROVE  KeepsPublishing(s)
  <2>1. r # s
    BY <1>9, OthersPublishNothing
  <2>2. Moves(r)
    BY <1>9, CallsMove
  <2> QED BY <1>4, <2>1, <2>2
<1>10. ASSUME \/ \E v \in Direct : DefineType(v)
              \/ \E key \in UserTypes : CreateRecord(key)
              \/ Rest \/ UNCHANGED vars
       PROVE  KeepsPublishing(s)
  <2>1. UNCHANGED call
    BY <1>10 DEF DefineType, CreateRecord, Rest, vars
  <2> QED BY <1>2, <2>1
<1> QED BY <1>5, <1>6, <1>7, <1>8, <1>9, <1>10 DEF Next

\* Drafts are written by a save and by the mark of a publication.
LEMMA DraftsMove ==
    ASSUME IInv, [Next]_vars
    PROVE  UNCHANGED drafts \/ \E s \in Slots : SaveDraftCommit(s) \/ PublishMark(s)
<1>1. ASSUME NEW s \in Slots,
             \/ \E id \in DraftIds, v \in Drafts : SaveDraftValidate(s, id, v)
             \/ \E key \in DraftKeys : PublishBegin(s, key)
             \/ \E t \in Installable, samples \in BOOLEAN : InstallBegin(s, t, samples)
             \/ \E t \in Installable \cup {None}, for \in {"old", "selected"} :
                   PlanBegin(s, for, t)
             \/ ModulesBegin(s) \/ PlanReply(s) \/ Abort(s)
      PROVE  UNCHANGED drafts
  BY <1>1 DEF SaveDraftValidate, PublishBegin, InstallBegin, PlanBegin, ModulesBegin,
              PlanReply, Abort, data
<1>2. ASSUME NEW s \in Slots,
             \/ CreateWorkflow(s) \/ CreateObjectType(s) \/ UpdateObjectType(s)
             \/ PublishEvent(s) \/ InstallAudit(s)
             \/ ModuleWorkflow(s) \/ ModuleType(s) \/ ModuleRole(s)
      PROVE  UNCHANGED drafts
  BY <1>2 DEF CreateWorkflow, CreateObjectType, UpdateObjectType, PublishEvent, InstallAudit,
              ModuleWorkflow, ModuleType, ModuleRole
<1>3. ASSUME NEW s \in Slots,
             InstallSample(s) \/ InstallSubmit(s) \/ InstallApprove(s) \/ InstallReport(s)
      PROVE  UNCHANGED drafts
  BY <1>3, InstallMoves DEF Tables
<1>4. ASSUME \/ \E v \in Direct : DefineType(v)
             \/ \E key \in UserTypes : CreateRecord(key)
             \/ Rest \/ UNCHANGED vars
      PROVE  UNCHANGED drafts
  BY <1>4 DEF DefineType, CreateRecord, Rest, vars
<1> QED BY <1>1, <1>2, <1>3, <1>4 DEF Next

\* A save writes the row of its key, and never marks it published.
LEMMA SaveWrites ==
    ASSUME IInv, NEW s \in Slots, SaveDraftCommit(s), NEW k \in DraftKeys
    PROVE  \/ drafts'[k] = drafts[k]
           \/ k = Definitions[call[s].of].key /\ drafts'[k].status # "published"
<1> DEFINE c == call[s]
           key == Definitions[c.of].key
           row == [id |-> c.id, version |-> c.of, status |-> c.status]
           new == [drafts[key] EXCEPT !.version = c.of, !.status = c.status]
<1>1. c \in SaveCall /\ c.status # "published" /\ key \in DraftKeys
  BY CallAtStep DEF SaveDraftCommit, AtStep, SaveCall, DraftKeys
<1>2. drafts \in [DraftKeys -> DraftRow \cup {NoDraft}]
  BY DEF IInv, DraftsSound
<1>3. \/ drafts' = drafts
      \/ drafts' = [drafts EXCEPT ![key] = row]
      \/ drafts[key] # NoDraft /\ drafts' = [drafts EXCEPT ![key] = new]
  BY DEF SaveDraftCommit
<1>4. row.status = c.status
  OBVIOUS
<1>5. drafts[key] # NoDraft => new.status = c.status
  <2> DEFINE d == drafts[key]
  <2>1. d \in DraftRow \/ d = NoDraft
    BY <1>1, <1>2
  <2> HIDE DEF d, c
  <2>2. d \in DraftRow => [d EXCEPT !.version = c.of, !.status = c.status].status = c.status
    BY DEF DraftRow
  <2> QED BY <2>1, <2>2 DEF d
<1> HIDE DEF c, key, row, new
<1>6. CASE k = key
  <2>1. \/ drafts'[k] = drafts[k] \/ drafts'[k] = row
        \/ drafts[key] # NoDraft /\ drafts'[k] = new
    BY <1>1, <1>2, <1>3, <1>6
  <2> QED BY <1>1, <1>4, <1>5, <1>6, <2>1 DEF c, key
<1>7. CASE k # key
  BY <1>2, <1>3, <1>7
<1> QED BY <1>6, <1>7

\* A publication marks the row of its key, and leaves what the rows define.
LEMMA MarkWrites ==
    ASSUME IInv, NEW s \in Slots, PublishMark(s), NEW k \in DraftKeys
    PROVE  /\ drafts'[k].version = drafts[k].version
           /\ drafts'[k] = drafts[k] \/ k = Definitions[call[s].of].key
<1> DEFINE c == call[s]
           key == Definitions[c.of].key
<1>1. /\ c \in PublishCall /\ drafts[key] # NoDraft /\ drafts[key].id = c.id
      /\ drafts' = [j \in DraftKeys |->
                      IF drafts[j].id = c.id THEN [drafts[j] EXCEPT !.status = "published"]
                      ELSE drafts[j]]
  BY CallAtStep DEF PublishMark, AtStep, Backed, PublishBacked
<1>2. key \in DraftKeys
  BY <1>1 DEF PublishCall, DraftKeys
<1>3. drafts[k] \in DraftRow \cup {NoDraft}
  BY DEF IInv, DraftsSound
<1> HIDE DEF c
<1>4. drafts[k].id = c.id => k = key
  BY <1>1, <1>2 DEF IInv, DraftsSound
<1>5. [drafts[k] EXCEPT !.status = "published"].version = drafts[k].version
  <2> DEFINE d == drafts[k]
  <2>1. "version" \in DOMAIN d
    BY <1>3 DEF DraftRow, NoDraft
  <2> HIDE DEF d
  <2>2. [d EXCEPT !.status = "published"].version = d.version
    BY <2>1
  <2> QED BY <2>2 DEF d
<1>6. drafts'[k] = IF drafts[k].id = c.id THEN [drafts[k] EXCEPT !.status = "published"]
                   ELSE drafts[k]
  BY <1>1
<1> QED BY <1>4, <1>5, <1>6 DEF c

\* The draft of a running publication stays as it was read.
LEMMA ReadStays ==
    ASSUME IInv, AsRead, [Next]_vars, [SavesApart]_vars
    PROVE  AsRead'
<1> SUFFICES ASSUME NEW s \in Slots, call'[s] \in PublishCall, call'[s].step # "event"
             PROVE  drafts'[Definitions[call'[s].of].key].version = call'[s].of
  BY DEF AsRead, Unmarked
<1>1. CASE HasReadDraft(s)
  BY <1>1 DEF HasReadDraft
<1>2. CASE KeepsPublishing(s)
  <2> DEFINE of == call[s].of
             key == Definitions[of].key
  <2>1. /\ Unmarked(call[s]) /\ call[s] \in PublishCall
        /\ call'[s].of = of /\ drafts[key].version = of
    BY <1>2 DEF KeepsPublishing, AsRead, Unmarked
  <2>2. key \in DraftKeys
    BY <2>1 DEF PublishCall, DraftKeys
  <2>3. CASE UNCHANGED drafts
    BY <2>1, <2>3
  <2>4. ASSUME NEW r \in Slots, SaveDraftCommit(r)
        PROVE  drafts'[key].version = drafts[key].version
    <3>1. CASE UNCHANGED vars
      BY <3>1 DEF vars
    <3>2. CASE SavesApart
      <4>1. key # Definitions[call[r].of].key
        BY <2>1, <2>4, <3>2 DEF SavesApart
      <4> HIDE DEF key
      <4> QED BY <2>2, <2>4, <4>1, SaveWrites
    <3> QED BY <3>1, <3>2
  <2>5. ASSUME NEW r \in Slots, PublishMark(r)
        PROVE  drafts'[key].version = drafts[key].version
    <3> HIDE DEF key
    <3> QED BY <2>2, <2>5, MarkWrites
  <2> HIDE DEF of, key
  <2>6. drafts'[key].version = drafts[key].version
    BY <2>3, <2>4, <2>5, DraftsMove
  <2> QED BY <2>1, <2>6 DEF key
<1> QED BY <1>1, <1>2, PublicationSteps

\* What is published stays valid, and what a mark publishes was checked.
LEMMA PublishedStays ==
    ASSUME IInv, AsRead, PublishedSound(drafts, Entries(types)), [Next]_vars,
           Entries(types) \subseteq Entries(types')
    PROVE  PublishedSound(drafts', Entries(types'))
<1> DEFINE ts == Entries(types)
           ts2 == Entries(types')
<1>1. ASSUME NEW k \in DraftKeys, drafts[k].status = "published"
      PROVE  validate_builder_definition(Definitions[drafts[k].version], ts2)
  BY <1>1, ValidStays DEF PublishedSound
<1> SUFFICES ASSUME NEW k \in DraftKeys, drafts'[k].status = "published"
             PROVE  validate_builder_definition(Definitions[drafts'[k].version], ts2)
  BY DEF PublishedSound
<1>2. CASE drafts'[k] = drafts[k]
  BY <1>1, <1>2
<1>3. CASE drafts'[k] # drafts[k]
  <2>1. PICK s \in Slots : PublishMark(s)
    BY <1>3, DraftsMove, SaveWrites
  <2> DEFINE of == call[s].of
  <2>2. /\ drafts'[k].version = drafts[k].version /\ k = Definitions[of].key
    BY <1>3, <2>1, MarkWrites
  <2>3. Unmarked(call[s]) /\ validate_builder_definition(Definitions[of], ts)
    BY <2>1, CallAtStep DEF PublishMark, AtStep, Backed, PublishBacked, Unmarked
  <2>4. drafts[k].version = of
    BY <2>2, <2>3 DEF AsRead
  <2> HIDE DEF of, ts, ts2
  <2>5. validate_builder_definition(Definitions[of], ts2)
    BY <2>3, ValidStays DEF ts, ts2
  <2> QED BY <2>2, <2>4, <2>5
<1> QED BY <1>2, <1>3

LEMMA PublicationsStep == QInv /\ [Next]_vars /\ [SavesApart]_vars => QInv'
<1> SUFFICES ASSUME QInv, [Next]_vars, [SavesApart]_vars PROVE QInv'
  OBVIOUS
<1>1. PInv /\ IInv /\ AsRead /\ PublishedSound(drafts, Entries(types))
  BY DEF QInv, PInv
<1>2. PInv'
  BY <1>1, PlannerStep
<1>3. Entries(types) \subseteq Entries(types')
  BY <1>1, TypesMove, FieldsStay DEF PInv
<1>4. AsRead'
  BY <1>1, ReadStays
<1>5. PublishedSound(drafts', Entries(types'))
  BY <1>1, <1>3, PublishedStays
<1> QED BY <1>2, <1>4, <1>5 DEF QInv

LEMMA PublicationsInit == Init => QInv
<1> SUFFICES ASSUME Init PROVE QInv
  OBVIOUS
<1>1. PInv
  BY PlannerInit
<1>2. AsRead
  BY DEF Init, AsRead, Unmarked, Idle, PublishCall, DefSteps
<1>3. PublishedSound(drafts, Entries(types))
  BY DEF Init, PublishedSound, NoDraft
<1> QED BY <1>1, <1>2, <1>3 DEF QInv

LEMMA PublishedFromSound == QInv => PublishedIsValid
<1> SUFFICES ASSUME QInv PROVE PublishedIsValid
  OBVIOUS
<1>1. IInv /\ PublishedSound(drafts, Entries(types))
  BY DEF QInv, PInv
<1> QED BY <1>1, ExistingIs DEF PublishedSound, PublishedIsValid

(***************************************************************************)
(* As long as no save is stored between the read of its draft by a         *)
(* publication and the mark of that, a draft marked published is valid,    *)
(* whatever other calls run, fail or are cut off: publish_builder_draft    *)
(* validates what it read, and object types are never deleted.             *)
(***************************************************************************)
THEOREM PublicationsApart == Spec /\ [][SavesApart]_vars => []PublishedIsValid
<1>1. Init => QInv
  BY PublicationsInit
<1>2. QInv /\ [Next]_vars /\ [SavesApart]_vars => QInv'
  BY PublicationsStep
<1>3. QInv => PublishedIsValid
  BY PublishedFromSound
<1> QED BY <1>1, <1>2, <1>3, PTL DEF Spec

(***************************************************************************)
(* Where calls run one at a time, a draft marked published is valid.       *)
(***************************************************************************)
THEOREM PublishingAloneIsSound ==
    ASSUME \A s, t \in Slots : s = t
    PROVE  Spec => []PublishedIsValid
<1>1. ASSUME QInv PROVE SavesApart
  <2> SUFFICES ASSUME NEW s \in Slots, NEW t \in Slots, SaveDraftCommit(s),
                      call[t] \in PublishCall
               PROVE  FALSE
    BY DEF SavesApart, Unmarked
  <2>1. s = t /\ call[s].step = "save"
    BY DEF SaveDraftCommit, AtStep
  <2>2. call[s].step # "save"
    BY <2>1, CallKinds
  <2> QED BY <2>1, <2>2
<1>2. Init => QInv
  BY PublicationsInit
<1>3. QInv /\ [Next]_vars => QInv'
  BY <1>1, PublicationsStep
<1>4. QInv => PublishedIsValid
  BY PublishedFromSound
<1> QED BY <1>2, <1>3, <1>4, PTL DEF Spec

=============================================================================
