------------------------------- MODULE Queries -------------------------------
(***************************************************************************)
(* What is read of the records of one object type while they are written:  *)
(* list_records page by page, the reports of analytics.rs, and relations   *)
(* (record.rs).  A list or a report is one query; a client that walks      *)
(* through the pages of a list asks again for each page, and other calls   *)
(* commit in between.                                                      *)
(*                                                                         *)
(* A row is named by its place in the order of creation, so created_at     *)
(* orders rows as their names do.  A record has a number and a text; no    *)
(* field is restricted, so nothing is projected out.                       *)
(***************************************************************************)
EXTENDS Integers, Sequences, FiniteSets, SequencesExt, FiniteSetsExt

CONSTANTS
    Clients,     \* clients that walk through a list
    Slots,       \* slots for running relate calls
    Actors,
    ReadGrants,  \* the grants of each actor to read records
    Amounts,     \* numbers
    Kinds,       \* texts
    Null,        \* a value that was given as null when the record was created
    Absent,      \* no value
    None,
    RelationTypes,
    Given,       \* bound: what records are created as
    Filters,     \* bound: the filters asked for
    Limits,      \* bound: the page limits asked for
    MAX_SCAN,    \* rows a list or a report looks at
    MaxLimit,    \* largest page
    MaxRows,     \* bound: records created
    MaxChanges   \* bound: updates, archivals, walks and relations

Fields  == {"amount", "kind"}
Record  == [by: Actors, amount: Amounts \cup {Null, Absent},
            kind: Kinds \cup {Null, Absent}, active: BOOLEAN]
Orders  == {"amount", "created_at", None}

\* A grant of one's own records or all of the tenant's, with a condition on the
\* number: the values that meet it.
ReadGrant == [scope: {"tenant", "own"}, amounts: SUBSET (Amounts \cup {Null})]

ASSUME QueriesAssumption ==
    /\ ReadGrants \in [Actors -> SUBSET ReadGrant]
    /\ Amounts \subseteq Int /\ IsFiniteSet(Amounts)
    /\ {Null, Absent} \cap Amounts = {} /\ Null # Absent
    /\ None \notin {"amount", "created_at"}
    /\ Given \subseteq Record /\ \A record \in Given : record.active
    /\ Limits \subseteq Int /\ MAX_SCAN \in Nat /\ MaxLimit \in Nat \ {0}
    /\ MaxRows \in Nat /\ MaxChanges \in Nat
    /\ \A f \in Filters : f.sort \in Orders /\ f.desc \in BOOLEAN /\ f.archived \in BOOLEAN

VARIABLES
    rows,      \* the records, oldest first
    relations, \* the relations table
    audited,   \* the audit rows of relate
    walk,      \* what each client has read of the list it walks through
    call,      \* what each running relate has checked
    changes    \* updates, archivals, walks and relations so far

vars == <<rows, relations, audited, walk, call, changes>>

Idle   == [step |-> "idle"]
NoWalk == [step |-> "none"]

TypeOK ==
    /\ rows \in Seq(Record)
    /\ \A e \in relations : {e.from, e.to} \subseteq DOMAIN rows /\ e.type \in RelationTypes
    /\ \A c \in Clients : walk[c] # NoWalk =>
          walk[c].seen \subseteq DOMAIN rows /\ walk[c].due \subseteq DOMAIN rows
    /\ changes \in 0..MaxChanges

Init ==
    /\ rows = <<>> /\ relations = {} /\ audited = <<>>
    /\ walk = [c \in Clients |-> NoWalk]
    /\ call = [q \in Slots |-> Idle]
    /\ changes = 0

-----------------------------------------------------------------------------
(* Which records *)

\* grants_allow, for reading; a field that is missing does not stop a grant.
MayRead(actor, i) ==
    \E g \in ReadGrants[actor] :
        /\ g.scope = "own" => rows[i].by = actor
        /\ rows[i].amount = Absent \/ rows[i].amount \in g.amounts

\* compare of rbac.rs; value is a set for "in".
value_matches(v, op, value) ==
    CASE op = "eq" -> v = value
      [] op = "ne" -> v # value
      [] op = "in" -> v \in value
      [] OTHER -> /\ v \in Amounts /\ value \in Amounts
                  /\ CASE op = "gt"  -> v > value
                       [] op = "lt"  -> v < value
                       [] op = "gte" -> v >= value
                       [] op = "lte" -> v <= value

\* A clause is not met by a record without the field.
Matches(i, clauses) ==
    \A clause \in clauses :
        /\ rows[i][clause.field] # Absent
        /\ value_matches(rows[i][clause.field], clause.op, clause.value)

\* record_matches_search; the text searched for is represented by the kinds
\* that contain it.
record_matches_search(i, search) == search # None => rows[i].kind \in search

\* The records of a type, also the archived ones if asked for.
OfType(archived) == {i \in DOMAIN rows : archived \/ rows[i].active}

\* SELECT ... ORDER BY created_at DESC LIMIT ?
Candidates(archived) ==
    LET all == OfType(archived)
    IN  {i \in all : Cardinality({j \in all : j > i}) < MAX_SCAN}

\* Rows in the order they are selected in, and kept in by retain
NewestFirst(S) ==
    [k \in 1..Cardinality(S) |-> CHOOSE i \in S : Cardinality({j \in S : j > i}) = k - 1]

-----------------------------------------------------------------------------
(* list_records *)

Less(field, i, j) ==
    LET a == rows[i].amount  b == rows[j].amount IN
    IF field = "created_at" THEN i < j
    ELSE \/ a \in Amounts /\ b \in Amounts /\ a < b
         \/ a = Absent /\ b # Absent

\* The place after the last row that is not greater
Place(field, sorted, i) ==
    1 + Max({0} \cup {k \in DOMAIN sorted : ~Less(field, i, sorted[k])})

\* sort_by: stable.  Null is equal to any number, so this is an order only
\* where no value is Null.
SortBy(field, seq) ==
    LET sorted[n \in 0..Len(seq)] ==
            IF n = 0 THEN <<>>
            ELSE LET before == sorted[n - 1]
                 IN  InsertAt(before, Place(field, before, seq[n]), seq[n])
    IN  sorted[Len(seq)]

\* Mutant: the result is not reversed.
NeverReversed(filter, seq) ==
    IF filter.sort = None THEN seq ELSE SortBy(filter.sort, seq)

Ordered(filter, seq) ==
    IF filter.sort = None THEN seq
    ELSE LET sorted == SortBy(filter.sort, seq) IN
         IF filter.desc THEN Reverse(sorted) ELSE sorted

\* The records the filter keeps of some
Kept(S, actor, filter) ==
    {i \in S : /\ MayRead(actor, i)
               /\ record_matches_search(i, filter.search)
               /\ Matches(i, filter.clauses)}

\* All that list_records finds, before it cuts out the page.
Found(actor, filter) ==
    Ordered(filter, NewestFirst(Kept(Candidates(filter.archived), actor, filter)))

\* Page::clamped
Clamped(limit) == IF limit < 1 THEN 1 ELSE IF limit > MaxLimit THEN MaxLimit ELSE limit

\* Mutant: the last record of a page is left out.
PageOneShort(found, limit, offset) ==
    LET total == Len(found) IN
    SubSeq(found, Min({offset, total}) + 1, Min({offset + limit, total}) - 1)

Page(found, limit, offset) ==
    LET total == Len(found) IN
    SubSeq(found, Min({offset, total}) + 1, Min({offset + limit, total}))

-----------------------------------------------------------------------------
(* scan_records and the reports *)

\* Mutant: archived records are looked at.
ScanWithArchived(actor, clauses) ==
    {i \in Candidates(TRUE) : MayRead(actor, i) /\ Matches(i, clauses)}

scan_records(actor, clauses) ==
    {i \in Candidates(FALSE) : MayRead(actor, i) /\ Matches(i, clauses)}

\* What a minimum or maximum of no values is: the infinities of f64.
Infinity == Max(Amounts \cup {0}) + 1
NegInfinity == Min(Amounts \cup {0}) - 1

\* compute over the amounts; avg is left to the sum and the count.
compute(S, op) ==
    LET counted == {i \in S : rows[i].amount \in Amounts}
        values  == {rows[i].amount : i \in counted} IN
    CASE op = "count" -> Cardinality(S)
      [] op = "sum"   -> SumFunction([i \in counted |-> rows[i].amount])
      [] op = "min"   -> Min(values \cup {Infinity})
      [] op = "max"   -> Max(values \cup {NegInfinity})

\* value_to_key
value_to_key(i) == IF rows[i].kind \in Kinds THEN rows[i].kind ELSE "(none)"

\* run_report_def grouped by kind: the bucket of each key
Groups(actor, clauses, op) ==
    LET scanned == scan_records(actor, clauses) IN
    [key \in {value_to_key(i) : i \in scanned} |->
        LET bucket == {i \in scanned : value_to_key(i) = key}
        IN  [value |-> compute(bucket, op), count |-> Cardinality(bucket)]]

-----------------------------------------------------------------------------
(* Records are written: the calls of Records, as far as lists notice. *)

CreateRecord(record) ==
    /\ Len(rows) < MaxRows
    /\ rows' = Append(rows, record)
    /\ UNCHANGED <<relations, audited, walk, call, changes>>

\* Counts a change, and notes it in the walks under way.
Change ==
    /\ changes < MaxChanges /\ changes' = changes + 1
    /\ walk' = [c \in Clients |-> IF walk[c].step = "walking"
                                  THEN [walk[c] EXCEPT !.sure = FALSE] ELSE walk[c]]

\* update_record: a null clears a field.
UpdateRecord(i, amount) ==
    /\ Change
    /\ i \in DOMAIN rows
    /\ rows' = [rows EXCEPT ![i].amount = IF amount = Null THEN Absent ELSE amount]
    /\ UNCHANGED <<relations, audited, call>>

\* archive_record and restore_record
SetLifecycle(i, active) ==
    /\ Change
    /\ i \in DOMAIN rows
    /\ rows' = [rows EXCEPT ![i].active = active]
    /\ UNCHANGED <<relations, audited, call>>

-----------------------------------------------------------------------------
(* A client walks through the pages of a list until it has read total.     *)

\* The sort of the filter is an order of the records of S.
Sortable(filter, S) == filter.sort = "amount" => \A i \in S : rows[i].amount # Null
Comparable(filter) == Sortable(filter, DOMAIN rows)

\* No candidate was cut off.
AllScanned(filter) == Cardinality(OfType(filter.archived)) <= MAX_SCAN

\* due: what has been in the list from the first page on; sure: nothing was
\* updated or archived since, and each page came from an ordered list of all.

StartWalk(c, actor, filter, limit) ==
    /\ walk[c] = NoWalk /\ changes < MaxChanges
    /\ walk' = [walk EXCEPT ![c] =
                  [step |-> "walking", actor |-> actor, filter |-> filter, limit |-> limit,
                   offset |-> 0, seen |-> {}, due |-> ToSet(Found(actor, filter)),
                   sure |-> Comparable(filter) /\ AllScanned(filter)]]
    /\ changes' = changes + 1
    /\ UNCHANGED <<rows, relations, audited, call>>

NextPage(c) ==
    LET w     == walk[c]
        found == Found(w.actor, w.filter)
        next  == w.offset + Clamped(w.limit)
        seen  == w.seen \cup ToSet(Page(found, Clamped(w.limit), w.offset))
        due   == w.due \cap ToSet(found)
        sure  == w.sure /\ Comparable(w.filter) /\ AllScanned(w.filter)
    IN  /\ w.step = "walking"
        /\ walk' = [walk EXCEPT ![c] =
                      IF next < Len(found)
                      THEN [w EXCEPT !.offset = next, !.seen = seen, !.due = due, !.sure = sure]
                      ELSE [step |-> "done", seen |-> seen, due |-> due, sure |-> sure]]
        /\ UNCHANGED <<rows, relations, audited, call, changes>>

-----------------------------------------------------------------------------
(* relate *)

\* Who may read both records is taken to have the grant to relate them.
RelateLoad(q, actor, from, to, type) ==
    /\ call[q] = Idle /\ changes < MaxChanges
    /\ {from, to} \subseteq DOMAIN rows
    /\ MayRead(actor, from) /\ MayRead(actor, to)
    /\ call' = [call EXCEPT ![q] = [step |-> "relate", from |-> from, to |-> to, type |-> type]]
    /\ changes' = changes + 1
    /\ UNCHANGED <<rows, relations, audited, walk>>

\* Mutant: a relation is stored again.
RelateCommitAgain(q) ==
    LET c == call[q] IN
    /\ c.step = "relate"
    /\ relations' = relations \cup {[from |-> c.from, to |-> c.to, type |-> c.type,
                                     id |-> Len(audited) + 1]}
    /\ audited' = Append(audited, [from |-> c.from, to |-> c.to, type |-> c.type])
    /\ call' = [call EXCEPT ![q] = Idle]
    /\ UNCHANGED <<rows, walk, changes>>

\* INSERT OR IGNORE; the audit row is written in any case.
RelateCommit(q) ==
    LET c == call[q]
        there == \E e \in relations : e.from = c.from /\ e.to = c.to /\ e.type = c.type IN
    /\ c.step = "relate"
    /\ relations' = relations \cup
          (IF there THEN {}
           ELSE {[from |-> c.from, to |-> c.to, type |-> c.type, id |-> Len(audited) + 1]})
    /\ audited' = Append(audited, [from |-> c.from, to |-> c.to, type |-> c.type])
    /\ call' = [call EXCEPT ![q] = Idle]
    /\ UNCHANGED <<rows, walk, changes>>

\* The client of a relate goes away before the commit.
Abort(q) ==
    /\ call[q] # Idle
    /\ call' = [call EXCEPT ![q] = Idle]
    /\ UNCHANGED <<rows, relations, audited, walk, changes>>

\* get_relations: the edges of a record, seen from it
get_relations(i) ==
    {[direction |-> IF e.from = i THEN "out" ELSE "in", type |-> e.type, id |-> e.id,
      record |-> IF e.from = i THEN e.to ELSE e.from] :
        e \in {e \in relations : i \in {e.from, e.to}}}

-----------------------------------------------------------------------------
Rest ==
    /\ Len(rows) = MaxRows /\ changes = MaxChanges
    /\ \A q \in Slots : call[q] = Idle
    /\ \A c \in Clients : walk[c].step # "walking"
    /\ UNCHANGED vars

Next ==
    \/ \E record \in Given : CreateRecord(record)
    \/ \E i \in DOMAIN rows :
          \/ \E amount \in Amounts \cup {Null} : UpdateRecord(i, amount)
          \/ \E active \in BOOLEAN : SetLifecycle(i, active)
    \/ \E c \in Clients :
          \/ \E actor \in Actors, filter \in Filters, limit \in Limits :
                StartWalk(c, actor, filter, limit)
          \/ NextPage(c)
    \/ \E q \in Slots :
          \/ \E actor \in Actors, from, to \in DOMAIN rows, type \in RelationTypes :
                RelateLoad(q, actor, from, to, type)
          \/ RelateCommit(q) \/ Abort(q)
    \/ Rest

Spec == Init /\ [][Next]_vars

-----------------------------------------------------------------------------
(***************************************************************************)
(* A client that walks through all pages while records are only created    *)
(* meets every record that was in the list from its start: new records     *)
(* shift it to a later page and never to an earlier one, whatever the      *)
(* order, as long as the list looks at all records and its order is one.   *)
(***************************************************************************)
WalkMissesNothing ==
    \A c \in Clients : LET w == walk[c] IN
        w.step = "done" /\ w.sure => w.due \subseteq w.seen

\* The place of a value in an ascending list: records without one first.
Rank(i) == IF rows[i].amount \in Amounts THEN rows[i].amount ELSE NegInfinity

(***************************************************************************)
(* A list shows each record its filter keeps of the candidates once.  With *)
(* a sort they come by number, the records without one first and newest    *)
(* first among equals, or by created_at, and desc is the exact reverse; a  *)
(* null among the numbers of the list is equal to all of them and voids    *)
(* the order, not the list.  Without a sort they come newest first         *)
(* whatever desc says: RecordFilter calls created_at the default           *)
(* (contracts/page.rs:79), but what list_records does is its descending    *)
(* order, and it applies desc to a sort that is given only.                *)
(***************************************************************************)
ListsAreOrdered ==
    \A actor \in Actors, filter \in Filters :
        LET kept  == Kept(Candidates(filter.archived), actor, filter)
            found == Found(actor, filter) IN
        /\ Len(found) = Cardinality(kept) /\ ToSet(found) = kept
        /\ Sortable(filter, kept) => \A j, k \in DOMAIN found : j < k =>
              LET first  == IF filter.desc THEN found[k] ELSE found[j]
                  second == IF filter.desc THEN found[j] ELSE found[k] IN
              CASE filter.sort = "amount" -> \/ Rank(first) < Rank(second)
                                             \/ Rank(first) = Rank(second) /\ first > second
                [] filter.sort = "created_at" -> first < second
                [] OTHER -> found[j] > found[k]

(***************************************************************************)
(* A report says what the list shows: its sample is the total of the list  *)
(* with the same filters, and its groups split the sample so that their    *)
(* counts and sums add up to those of the whole and the least of their     *)
(* minima is its minimum, empty groups of numbers included.                *)
(***************************************************************************)
ReportsMatchLists ==
    \A actor \in Actors, filter \in {f \in Filters : f.search = None /\ ~f.archived} :
        LET scanned == scan_records(actor, filter.clauses)
            sums == Groups(actor, filter.clauses, "sum")
            mins == Groups(actor, filter.clauses, "min") IN
        /\ Cardinality(scanned) = Len(Found(actor, filter))
        /\ SumFunction([key \in DOMAIN sums |-> sums[key].count]) = Cardinality(scanned)
        /\ SumFunction([key \in DOMAIN sums |-> sums[key].value]) = compute(scanned, "sum")
        /\ Min({mins[key].value : key \in DOMAIN mins} \cup {Infinity})
              = compute(scanned, "min")

(***************************************************************************)
(* However often and concurrently two records are related, there is one    *)
(* edge of each audited relation, it shows as outgoing at its source and   *)
(* incoming at its target, and nothing else shows.                         *)
(***************************************************************************)
RelationsShowOnce ==
    /\ \A k \in DOMAIN audited : LET a == audited[k] IN
          /\ Cardinality({e \in get_relations(a.from) : /\ e.direction = "out"
                             /\ e.record = a.to /\ e.type = a.type}) = 1
          /\ a.to # a.from =>
             Cardinality({e \in get_relations(a.to) : /\ e.direction = "in"
                             /\ e.record = a.from /\ e.type = a.type}) = 1
    /\ \A i \in DOMAIN rows : \A e \in get_relations(i) :
          LET shown == [from |-> IF e.direction = "out" THEN i ELSE e.record,
                        to |-> IF e.direction = "out" THEN e.record ELSE i, type |-> e.type]
          IN  shown \in ToSet(audited)
=============================================================================
