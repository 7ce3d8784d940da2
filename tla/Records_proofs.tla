--------------------------- MODULE Records_proofs ---------------------------
(***************************************************************************)
(* Theorems about Records, and about Agents over it, for any number of     *)
(* calls, records, fields and clients and any grants.  The invariant adds to*)
(* the three properties what a running call carries from its load to its   *)
(* commit: a create has its id for itself, the other calls have a record,  *)
(* the data to be stored is valid, and an update was permitted on data that*)
(* some row of the log wrote.                                              *)
(***************************************************************************)
EXTENDS Agents, TLAPS

USE RecordsAssumption

\* The rows of the audit log and the running calls.
LogRow == [verb: Verbs \cup {"denied"}, by: Actors, id: Ids,
           before: Data \cup {None}, after: Data \cup {None}]
Call == [step: {"idle"}]
        \cup [step: {"create"}, by: Actors, id: Ids, after: Data]
        \cup [step: {"update"}, by: Actors, id: Ids, before: Data, after: Data,
              fields: SUBSET Fields]
        \cup [step: {"archive", "restore"}, by: Actors, id: Ids]

Typed ==
    /\ records \in [Ids -> Record \cup {NoRecord}]
    /\ call \in [Requests -> Call]
    /\ log \in Seq(LogRow)

\* No condition of grant g speaks against data.
Unopposed(g, data) ==
    \/ ~enable_advanced_permissions
    \/ \A c \in g.conditions : data[c.field] \in c.values \cup {Missing}

\* The grants of an actor that let it update a record made by maker.
GrantsOn(by, maker, data) ==
    {g \in Grants[by] : /\ g.action \in {"update", "manage"}
                        /\ g.scope = "own" => by \in {data[Owner], maker}
                        /\ Unopposed(g, data)}

\* An update from before to after is permitted.
Permitted(by, maker, before, after) ==
    /\ GrantsOn(by, maker, before) # {}
    /\ \A f \in Restricted : after[f] # before[f] =>
           \E g \in GrantsOn(by, maker, before) : f \in g.fields

\* A row of the log wrote data into record id.
Logged(rows, id, data) == \E j \in DOMAIN rows : rows[j].id = id /\ rows[j].after = data

\* Call c may commit.
MayCommit(c, table, rows) ==
    /\ c.step = "create" => table[c.id] = NoRecord /\ Valid(c.after)
    /\ c.step \in {"update", "archive", "restore"} => table[c.id] # NoRecord
    /\ c.step = "update" => /\ Valid(c.after)
                            /\ Permitted(c.by, table[c.id].created_by, c.before, c.after)
                            /\ Logged(rows, c.id, c.before)

CallsMayCommit == \A q \in Requests : MayCommit(call[q], records, log)

\* A create has its id for itself.
Alone ==
    \A q, r \in Requests : call[q].step = "create" /\ r # q /\ call[r].step # "idle"
                              => call[r].id # call[q].id

\* Row i of the log, if it is an update, was permitted on logged data.
RowPermitted(i, table, rows) ==
    rows[i].verb = "update" =>
        /\ \E j \in 1..(i - 1) : rows[j].id = rows[i].id /\ rows[j].after = rows[i].before
        /\ Permitted(rows[i].by, table[rows[i].id].created_by, rows[i].before, rows[i].after)

RowsPermitted == \A i \in DOMAIN log : RowPermitted(i, records, log)

\* The rows tell what the table holds of record id.
Replays(id, record, rows) ==
    IF record # NoRecord
    THEN /\ \E i \in DOMAIN rows :
               /\ rows[i].id = id /\ rows[i].verb \in {"create", "update"}
               /\ rows[i].after = record.data
               /\ \A j \in DOMAIN rows :
                     j > i => ~(rows[j].id = id /\ rows[j].verb \in {"create", "update"})
         /\ record.lifecycle = "archived" <=>
               \E i \in DOMAIN rows :
                   /\ rows[i].id = id /\ rows[i].verb = "archive"
                   /\ \A j \in DOMAIN rows :
                         j > i => ~(rows[j].id = id /\ rows[j].verb \in {"archive", "restore"})
    ELSE \A i \in DOMAIN rows : rows[i].id = id => rows[i].verb = "denied"

AllReplay == \A id \in Ids : Replays(id, records[id], log)

AllValid == \A id \in Ids : records[id] # NoRecord => Valid(records[id].data)

IInv == Typed /\ CallsMayCommit /\ Alone /\ RowsPermitted /\ AllReplay /\ AllValid

-----------------------------------------------------------------------------
(* Lemmas on data, records and the log *)

\* A record is told from a missing one by its creator.
LEMMA Told ==
    /\ \A r \in Record : r # NoRecord
    /\ \A r \in Record \cup {NoRecord} : r # NoRecord => r \in Record
BY DEF Record, NoRecord

\* A patch makes data of data.
LEMMA PatchedTyped ==
    ASSUME NEW data \in Data, NEW patch \in Patches
    PROVE  /\ Patched(data, patch) \in Data /\ Created(patch) \in Data
           /\ DOMAIN patch \subseteq Fields
<1>1. DOMAIN patch \subseteq Fields /\ Range(patch) \subseteq Values \cup Actors \cup {Null}
  OBVIOUS
<1>2. \A f \in DOMAIN patch : patch[f] \in Values \cup Actors \cup {Null}
  BY <1>1 DEF Range
<1>3. Patched(data, patch) \in Data
  BY <1>2 DEF Patched, Data
<1>4. Default \in Data
  OBVIOUS
<1>5. Created(patch) \in Data
  BY <1>2, <1>4 DEF Created, Data
<1> QED BY <1>1, <1>3, <1>5

\* What an appended log holds.
LEMMA Appended ==
    ASSUME NEW S, NEW rows \in Seq(S), NEW row \in S
    PROVE  /\ Append(rows, row) \in Seq(S)
           /\ Len(rows) \in Nat /\ DOMAIN rows = 1..Len(rows)
           /\ DOMAIN Append(rows, row) = 1..(Len(rows) + 1)
           /\ \A i \in DOMAIN rows : Append(rows, row)[i] = rows[i]
           /\ Append(rows, row)[Len(rows) + 1] = row
OBVIOUS

\* What was logged stays logged.
LEMMA StaysLogged ==
    ASSUME NEW S, NEW rows \in Seq(S), NEW row \in S, NEW id, NEW data, Logged(rows, id, data)
    PROVE  Logged(Append(rows, row), id, data)
<1>1. PICK j \in DOMAIN rows : rows[j].id = id /\ rows[j].after = data
  BY DEF Logged
<1>2. j \in DOMAIN Append(rows, row) /\ Append(rows, row)[j] = rows[j]
  BY <1>1, Appended
<1> QED BY <1>1, <1>2 DEF Logged

\* The data of a record was logged.
LEMMA DataLogged ==
    ASSUME NEW id, NEW record, NEW rows, Replays(id, record, rows), record # NoRecord
    PROVE  Logged(rows, id, record.data)
BY DEF Replays, Logged

\* A permitted row stays permitted when the log grows and its record keeps
\* its creator.
LEMMA RowStaysPermitted ==
    ASSUME NEW S, NEW rows \in Seq(S), NEW row \in S, NEW i \in DOMAIN rows,
           NEW table, NEW after,
           RowPermitted(i, table, rows),
           rows[i].verb = "update" =>
               after[rows[i].id].created_by = table[rows[i].id].created_by
    PROVE  RowPermitted(i, after, Append(rows, row))
<1> DEFINE longer == Append(rows, row)
<1>1. longer[i] = rows[i]
  BY Appended
<1>2. \A j \in 1..(i - 1) : longer[j] = rows[j]
  BY Appended
<1> HIDE DEF longer
<1>3. RowPermitted(i, after, longer)
  BY <1>1, <1>2 DEF RowPermitted
<1> QED BY <1>3 DEF longer

\* A row about another record, or a denial, changes nothing of what the log
\* tells of a record.
LEMMA OtherRow ==
    ASSUME NEW S, NEW rows \in Seq(S), NEW row \in S, NEW id, NEW record,
           Replays(id, record, rows), row.id # id \/ row.verb = "denied"
    PROVE  Replays(id, record, Append(rows, row))
<1> DEFINE longer == Append(rows, row)
<1>1. /\ Len(rows) \in Nat /\ DOMAIN rows = 1..Len(rows)
      /\ DOMAIN longer = 1..(Len(rows) + 1)
      /\ \A i \in 1..Len(rows) : longer[i] = rows[i]
      /\ longer[Len(rows) + 1] = row
  BY Appended
<1> HIDE DEF longer
<1>2. ASSUME record = NoRecord PROVE Replays(id, record, longer)
  BY <1>1, <1>2 DEF Replays
<1>3. ASSUME record # NoRecord PROVE Replays(id, record, longer)
  <2>1. \E i \in DOMAIN longer :
               /\ longer[i].id = id /\ longer[i].verb \in {"create", "update"}
               /\ longer[i].after = record.data
               /\ \A j \in DOMAIN longer :
                     j > i => ~(longer[j].id = id /\ longer[j].verb \in {"create", "update"})
    BY <1>1, <1>3 DEF Replays
  <2>2. record.lifecycle = "archived" <=>
               \E i \in DOMAIN longer :
                   /\ longer[i].id = id /\ longer[i].verb = "archive"
                   /\ \A j \in DOMAIN longer :
                         j > i => ~(longer[j].id = id /\ longer[j].verb \in {"archive", "restore"})
    <3> DEFINE n == Len(rows)
    <3>1. /\ 1..n \subseteq 1..(n + 1) /\ \A i \in 1..(n + 1) : i \in 1..n \/ i = n + 1
          /\ \A i \in 1..n : n + 1 > i
      BY <1>1
    <3>2. longer[n + 1].id # id \/ longer[n + 1].verb \notin {"archive", "restore"}
      BY <1>1
    <3>3. record.lifecycle = "archived" <=>
               \E i \in 1..n :
                   /\ rows[i].id = id /\ rows[i].verb = "archive"
                   /\ \A j \in 1..n :
                         j > i => ~(rows[j].id = id /\ rows[j].verb \in {"archive", "restore"})
      BY <1>1, <1>3 DEF Replays
    <3> HIDE DEF n
    <3> QED BY <1>1, <3>1, <3>2, <3>3 DEF n
  <2> QED BY <2>1, <2>2, <1>3 DEF Replays
<1>4. Replays(id, record, longer)
  BY <1>2, <1>3
<1> QED BY <1>4 DEF longer

\* A row of other verbs does not change which row of a record is the last of
\* some verbs.
LastOf(rows, i, id, verbs) ==
    /\ rows[i].id = id
    /\ \A j \in DOMAIN rows : j > i => ~(rows[j].id = id /\ rows[j].verb \in verbs)

LEMMA LastStays ==
    ASSUME NEW rows, NEW longer, NEW n \in Nat, DOMAIN rows = 1..n, DOMAIN longer = 1..(n + 1),
           \A i \in 1..n : longer[i] = rows[i], NEW id, NEW verbs,
           longer[n + 1].id # id \/ longer[n + 1].verb \notin verbs,
           NEW i \in 1..n
    PROVE  LastOf(longer, i, id, verbs) <=> LastOf(rows, i, id, verbs)
<1>1. \A j \in 1..(n + 1) : j \in 1..n \/ j = n + 1
  OBVIOUS
<1>2. \A j \in 1..n : j \in 1..(n + 1)
  OBVIOUS
<1>3. ASSUME LastOf(rows, i, id, verbs), NEW j \in 1..(n + 1), j > i
      PROVE  ~(longer[j].id = id /\ longer[j].verb \in verbs)
  <2>1. CASE j = n + 1
    BY <2>1
  <2>2. CASE j \in 1..n
    BY <2>2, <1>3 DEF LastOf
  <2> QED BY <1>1, <2>1, <2>2
<1>4. ASSUME LastOf(longer, i, id, verbs), NEW j \in 1..n, j > i
      PROVE  ~(rows[j].id = id /\ rows[j].verb \in verbs)
  BY <1>2, <1>4 DEF LastOf
<1> QED BY <1>3, <1>4 DEF LastOf

\* A row that writes the data of a record tells its new data and leaves its
\* lifecycle alone.
LEMMA DataRow ==
    ASSUME NEW S, NEW rows \in Seq(S), NEW row \in S, NEW id, NEW record, NEW was,
           Replays(id, was, rows), row.id = id, row.verb \in {"create", "update"},
           record # NoRecord, row.after = record.data,
           \/ was # NoRecord /\ record.lifecycle = was.lifecycle
           \/ was = NoRecord /\ record.lifecycle = "active"
    PROVE  Replays(id, record, Append(rows, row))
<1> DEFINE longer == Append(rows, row)
<1>1. /\ Len(rows) \in Nat /\ DOMAIN rows = 1..Len(rows)
      /\ DOMAIN longer = 1..(Len(rows) + 1)
      /\ \A i \in 1..Len(rows) : longer[i] = rows[i]
      /\ longer[Len(rows) + 1] = row
  BY Appended
<1> HIDE DEF longer
<1>2. \E i \in DOMAIN longer :
             /\ longer[i].id = id /\ longer[i].verb \in {"create", "update"}
             /\ longer[i].after = record.data
             /\ \A j \in DOMAIN longer :
                   j > i => ~(longer[j].id = id /\ longer[j].verb \in {"create", "update"})
  <2>1. Len(rows) + 1 \in DOMAIN longer /\ \A j \in DOMAIN longer : ~(j > Len(rows) + 1)
    BY <1>1
  <2> QED BY <1>1, <2>1
<1>3. record.lifecycle = "archived" <=>
             \E i \in DOMAIN longer :
                 /\ longer[i].id = id /\ longer[i].verb = "archive"
                 /\ \A j \in DOMAIN longer :
                       j > i => ~(longer[j].id = id /\ longer[j].verb \in {"archive", "restore"})
  <2>1. CASE was # NoRecord
    <3> DEFINE n == Len(rows)
               Archives(list, i) == /\ list[i].id = id /\ list[i].verb = "archive"
                                    /\ LastOf(list, i, id, {"archive", "restore"})
    <3>1. record.lifecycle = "archived" <=> \E i \in 1..n : Archives(rows, i)
      BY <1>1, <2>1 DEF Replays, LastOf
    <3>2. longer[n + 1].verb \notin {"archive", "restore"}
      BY <1>1
    <3>3. ASSUME NEW i \in 1..n PROVE Archives(longer, i) <=> Archives(rows, i)
      <4>1. /\ n \in Nat /\ DOMAIN rows = 1..n /\ DOMAIN longer = 1..(n + 1)
            /\ \A j \in 1..n : longer[j] = rows[j]
            /\ longer[n + 1].id # id \/ longer[n + 1].verb \notin {"archive", "restore"}
        BY <1>1, <3>2
      <4> HIDE DEF n
      <4>2. LastOf(longer, i, id, {"archive", "restore"})
               <=> LastOf(rows, i, id, {"archive", "restore"})
        BY ONLY <4>1, i \in 1..n, LastStays
      <4> QED BY <4>1, <4>2
    <3>4. ~Archives(longer, n + 1) /\ \A i \in 1..(n + 1) : i \in 1..n \/ i = n + 1
      BY <1>1, <3>2
    <3>5. (\E i \in 1..(n + 1) : Archives(longer, i)) <=> \E i \in 1..n : Archives(rows, i)
      <4>1. 1..n \subseteq 1..(n + 1)
        BY <1>1
      <4> HIDE DEF Archives, n
      <4> QED BY <3>3, <3>4, <4>1
    <3> QED BY <1>1, <3>1, <3>5 DEF LastOf
  <2>2. CASE was = NoRecord
    <3>1. \A i \in DOMAIN longer : ~(longer[i].id = id /\ longer[i].verb = "archive")
      BY <1>1, <2>2 DEF Replays
    <3> QED BY <3>1, <2>2
  <2> QED BY <2>1, <2>2
<1>4. Replays(id, record, longer)
  BY <1>2, <1>3 DEF Replays
<1> QED BY <1>4 DEF longer

\* A row that archives or restores a record tells its new lifecycle and
\* leaves its data alone.
LEMMA LifecycleRow ==
    ASSUME NEW S, NEW rows \in Seq(S), NEW row \in S, NEW id, NEW record, NEW was,
           Replays(id, was, rows), row.id = id, row.verb \in {"archive", "restore"},
           record # NoRecord, was # NoRecord, record.data = was.data,
           record.lifecycle = IF row.verb = "archive" THEN "archived" ELSE "active"
    PROVE  Replays(id, record, Append(rows, row))
<1> DEFINE longer == Append(rows, row)
<1>1. /\ Len(rows) \in Nat /\ DOMAIN rows = 1..Len(rows)
      /\ DOMAIN longer = 1..(Len(rows) + 1)
      /\ \A i \in 1..Len(rows) : longer[i] = rows[i]
      /\ longer[Len(rows) + 1] = row
  BY Appended
<1> HIDE DEF longer
<1>2. \E i \in DOMAIN longer :
             /\ longer[i].id = id /\ longer[i].verb \in {"create", "update"}
             /\ longer[i].after = record.data
             /\ \A j \in DOMAIN longer :
                   j > i => ~(longer[j].id = id /\ longer[j].verb \in {"create", "update"})
  BY <1>1 DEF Replays
<1>3. record.lifecycle = "archived" <=>
             \E i \in DOMAIN longer :
                 /\ longer[i].id = id /\ longer[i].verb = "archive"
                 /\ \A j \in DOMAIN longer :
                       j > i => ~(longer[j].id = id /\ longer[j].verb \in {"archive", "restore"})
  <2>1. Len(rows) + 1 \in DOMAIN longer /\ \A j \in DOMAIN longer : ~(j > Len(rows) + 1)
    BY <1>1
  <2>2. CASE row.verb = "archive"
    BY <1>1, <2>1, <2>2
  <2>3. CASE row.verb = "restore"
    <3>1. \A i \in DOMAIN longer : longer[i].verb = "archive" => Len(rows) + 1 > i
      BY <1>1, <2>3
    <3> QED BY <1>1, <2>1, <2>3, <3>1
  <2> QED BY <2>2, <2>3
<1>4. Replays(id, record, longer)
  BY <1>2, <1>3 DEF Replays
<1> QED BY <1>4 DEF longer

-----------------------------------------------------------------------------
(* The steps *)

LEMMA Initially == Init => IInv
<1> SUFFICES ASSUME Init PROVE IInv
  OBVIOUS
<1>1. Typed
  BY DEF Init, Typed, Call, Idle
<1>2. \A q \in Requests : call[q].step = "idle"
  BY DEF Init, Idle
<1>3. CallsMayCommit /\ Alone
  BY <1>2 DEF CallsMayCommit, MayCommit, Alone
<1>4. DOMAIN log = {}
  BY DEF Init
<1>5. RowsPermitted
  BY <1>4 DEF RowsPermitted
<1>6. AllReplay /\ AllValid
  BY <1>4 DEF Init, AllReplay, AllValid, Replays
<1> QED BY <1>1, <1>3, <1>5, <1>6 DEF IInv

\* A call begins.
LEMMA Begins ==
    ASSUME IInv, NEW q \in Requests, NEW c \in Call,
           call[q] = Idle,
           c.step # "idle" => MayCommit(c, records, log),
           c.step = "create" => \A r \in Requests : call[r] # Idle => call[r].id # c.id,
           call' = [call EXCEPT ![q] = c], UNCHANGED <<records, log>>
    PROVE  IInv'
<1> USE DEF IInv
<1>1. Typed'
  BY DEF Typed
<1>2. call'[q] = c /\ \A r \in Requests \ {q} : call'[r] = call[r]
  BY DEF Typed
<1>3. CallsMayCommit'
  <2>1. c.step = "idle" => MayCommit(c, records, log)
    BY DEF MayCommit
  <2> QED BY <1>2, <2>1 DEF CallsMayCommit
<1>4. Alone'
  <2> SUFFICES ASSUME NEW p \in Requests, NEW r \in Requests, call'[p].step = "create",
                      r # p, call'[r].step # "idle"
               PROVE  call'[r].id # call'[p].id
    BY DEF Alone
  <2>1. CASE p = q
    <3>1. call[r] # Idle
      BY <2>1, <1>2 DEF Idle
    <3> QED BY <3>1, <2>1, <1>2
  <2>2. CASE p # q /\ r = q
    <3>1. records[call[p].id] = NoRecord
      BY <2>2, <1>2 DEF CallsMayCommit, MayCommit
    <3>2. CASE c.step = "create"
      <4>1. call[p] # Idle
        BY <2>2, <1>2 DEF Idle
      <4> QED BY <4>1, <3>2, <2>2, <1>2
    <3>3. CASE c.step # "create"
      <4>1. c.step \in {"update", "archive", "restore"}
        BY <3>3, <2>2, <1>2 DEF Call
      <4>2. records[c.id] # NoRecord
        BY <4>1 DEF MayCommit
      <4> QED BY <4>2, <3>1, <2>2, <1>2
    <3> QED BY <3>2, <3>3
  <2>3. CASE p # q /\ r # q
    BY <2>3, <1>2 DEF Alone
  <2> QED BY <2>1, <2>2, <2>3
<1>5. RowsPermitted' /\ AllReplay' /\ AllValid'
  BY DEF RowsPermitted, RowPermitted, AllReplay, Replays, AllValid
<1> QED BY <1>1, <1>3, <1>4, <1>5

\* A call ends without a trace.
LEMMA Ends ==
    ASSUME IInv, NEW q \in Requests,
           call' = [call EXCEPT ![q] = Idle], UNCHANGED <<records, log>>
    PROVE  IInv'
<1> USE DEF IInv
<1>1. Typed'
  BY DEF Typed, Call, Idle
<1>2. call'[q].step = "idle" /\ \A r \in Requests \ {q} : call'[r] = call[r]
  BY DEF Typed, Idle
<1>3. CallsMayCommit'
  BY <1>2 DEF CallsMayCommit, MayCommit
<1>4. Alone'
  <2> SUFFICES ASSUME NEW p \in Requests, NEW r \in Requests, call'[p].step = "create",
                      r # p, call'[r].step # "idle"
               PROVE  call'[r].id # call'[p].id
    BY DEF Alone
  <2>1. p # q /\ r # q
    BY <1>2
  <2> QED BY <2>1, <1>2 DEF Alone
<1>5. RowsPermitted' /\ AllReplay' /\ AllValid'
  BY DEF RowsPermitted, RowPermitted, AllReplay, Replays, AllValid
<1> QED BY <1>1, <1>3, <1>4, <1>5

\* A call is refused.
LEMMA Refused ==
    ASSUME IInv, NEW actor \in Actors, NEW id \in Ids, Deny(actor, id)
    PROVE  IInv'
<1> USE DEF IInv
<1> DEFINE row == Row("denied", actor, id, None, None)
<1>1. row \in LogRow /\ row.verb = "denied"
  BY DEF Row, LogRow
<1>2. log' = Append(log, row) /\ UNCHANGED <<records, call>>
  BY DEF Deny
<1> HIDE DEF row
<1>3. log \in Seq(LogRow)
  BY DEF Typed
<1>4. Typed'
  BY <1>1, <1>2, <1>3, Appended DEF Typed
<1>5. CallsMayCommit'
  <2> SUFFICES ASSUME NEW q \in Requests PROVE MayCommit(call[q], records, log')
    BY <1>2 DEF CallsMayCommit
  <2>1. MayCommit(call[q], records, log)
    BY DEF CallsMayCommit
  <2>2. Logged(log, call[q].id, call[q].before) => Logged(log', call[q].id, call[q].before)
    BY <1>1, <1>2, <1>3, StaysLogged
  <2> QED BY <2>1, <2>2 DEF MayCommit
<1>6. Alone'
  BY <1>2 DEF Alone
<1>7. RowsPermitted'
  <2> SUFFICES ASSUME NEW i \in DOMAIN log' PROVE RowPermitted(i, records, log')
    BY <1>2 DEF RowsPermitted
  <2>1. CASE i \in DOMAIN log
    <3>1. RowPermitted(i, records, log)
      BY <2>1 DEF RowsPermitted
    <3> QED BY <3>1, <2>1, <1>1, <1>2, <1>3, RowStaysPermitted
  <2>2. CASE i = Len(log) + 1
    <3>1. log'[i].verb = "denied"
      BY <2>2, <1>1, <1>2, <1>3, Appended
    <3> QED BY <3>1 DEF RowPermitted
  <2> QED BY <2>1, <2>2, <1>1, <1>2, <1>3, Appended
<1>8. AllReplay'
  <2> SUFFICES ASSUME NEW x \in Ids PROVE Replays(x, records[x], log')
    BY <1>2 DEF AllReplay
  <2>1. Replays(x, records[x], log)
    BY DEF AllReplay
  <2> QED BY <2>1, <1>1, <1>2, <1>3, OtherRow
<1>9. AllValid'
  BY <1>2 DEF AllValid
<1> QED BY <1>4, <1>5, <1>6, <1>7, <1>8, <1>9

\* An update in the log is of a record that exists.
LEMMA UpdatesExist ==
    ASSUME IInv, NEW i \in DOMAIN log, log[i].verb = "update"
    PROVE  log[i].id \in Ids /\ records[log[i].id] # NoRecord
<1>1. log[i] \in LogRow
  BY DEF IInv, Typed
<1>2. log[i].id \in Ids
  BY <1>1 DEF LogRow
<1>3. Replays(log[i].id, records[log[i].id], log)
  BY <1>2 DEF IInv, AllReplay
<1> QED BY <1>2, <1>3 DEF Replays

\* A call commits record rec with a row of the log.
LEMMA Commits ==
    ASSUME IInv, NEW q \in Requests, NEW id \in Ids, NEW rec \in Record, NEW row \in LogRow,
           call[q].step # "idle", call[q].id = id,
           records' = [records EXCEPT ![id] = rec],
           log' = Append(log, row),
           call' = [call EXCEPT ![q] = Idle],
           row.id = id,
           Replays(id, rec, log'),
           Valid(rec.data),
           records[id] # NoRecord => rec.created_by = records[id].created_by,
           row.verb = "update" => RowPermitted(Len(log) + 1, records', log')
    PROVE  IInv'
<1> USE DEF IInv
<1>1. /\ records \in [Ids -> Record \cup {NoRecord}] /\ call \in [Requests -> Call]
      /\ log \in Seq(LogRow)
  BY DEF Typed
<1>2. Typed'
  BY <1>1, Appended DEF Typed, Call, Idle
<1>3. call'[q].step = "idle" /\ \A r \in Requests \ {q} : call'[r] = call[r]
  BY <1>1 DEF Idle
<1>4. /\ records'[id] = rec /\ rec # NoRecord
      /\ \A x \in Ids \ {id} : records'[x] = records[x]
  BY <1>1, Told
<1>5. \A x \in Ids : records[x] # NoRecord =>
          records'[x] # NoRecord /\ records'[x].created_by = records[x].created_by
  BY <1>4
<1>6. CallsMayCommit'
  <2> SUFFICES ASSUME NEW r \in Requests PROVE MayCommit(call'[r], records', log')
    BY DEF CallsMayCommit
  <2>1. CASE r = q
    BY <2>1, <1>3 DEF MayCommit
  <2>2. CASE r # q
    <3>1. MayCommit(call[r], records, log) /\ call'[r] = call[r] /\ call[r] \in Call
      BY <2>2, <1>1, <1>3 DEF CallsMayCommit
    <3>2. Logged(log, call[r].id, call[r].before) => Logged(log', call[r].id, call[r].before)
      BY <1>1, StaysLogged
    <3>3. call[r].step \in Verbs => call[r].id \in Ids
      BY <3>1 DEF Call, Verbs
    <3>4. call[r].step = "create" => call[r].id # id
      BY <2>2 DEF Alone
    <3>5. CASE call[r].step = "create"
      BY <3>1, <3>3, <3>4, <3>5, <1>4 DEF MayCommit, Verbs
    <3>6. CASE call[r].step = "update"
      <4>1. records[call[r].id] # NoRecord /\ call[r].id \in Ids
        BY <3>1, <3>3, <3>6 DEF MayCommit, Verbs
      <4>2. /\ records'[call[r].id] # NoRecord
            /\ records'[call[r].id].created_by = records[call[r].id].created_by
        BY <4>1, <1>5
      <4> QED BY <4>2, <3>1, <3>2, <3>6 DEF MayCommit
    <3>7. CASE call[r].step \in {"archive", "restore"}
      BY <3>1, <3>3, <3>7, <1>5 DEF MayCommit, Verbs
    <3>8. CASE call[r].step = "idle"
      BY <3>1, <3>8 DEF MayCommit
    <3> QED BY <3>1, <3>5, <3>6, <3>7, <3>8 DEF Call
  <2> QED BY <2>1, <2>2
<1>7. Alone'
  <2> SUFFICES ASSUME NEW p \in Requests, NEW r \in Requests, call'[p].step = "create",
                      r # p, call'[r].step # "idle"
               PROVE  call'[r].id # call'[p].id
    BY DEF Alone
  <2>1. p # q /\ r # q
    BY <1>3
  <2> QED BY <2>1, <1>3 DEF Alone
<1>8. RowsPermitted'
  <2> SUFFICES ASSUME NEW i \in DOMAIN log' PROVE RowPermitted(i, records', log')
    BY DEF RowsPermitted
  <2>1. CASE i \in DOMAIN log
    <3>1. RowPermitted(i, records, log)
      BY <2>1 DEF RowsPermitted
    <3>2. log[i].verb = "update" =>
              records'[log[i].id].created_by = records[log[i].id].created_by
      BY <2>1, <1>5, UpdatesExist
    <3> QED BY <3>1, <3>2, <2>1, <1>1, RowStaysPermitted
  <2>2. CASE i = Len(log) + 1
    <3>1. log'[i] = row
      BY <2>2, <1>1, Appended
    <3> QED BY <3>1, <2>2 DEF RowPermitted
  <2> QED BY <2>1, <2>2, <1>1, Appended
<1>9. AllReplay'
  <2> SUFFICES ASSUME NEW x \in Ids PROVE Replays(x, records'[x], log')
    BY DEF AllReplay
  <2>1. CASE x = id
    BY <2>1, <1>4
  <2>2. CASE x # id
    <3>1. Replays(x, records[x], log)
      BY DEF AllReplay
    <3>2. Replays(x, records[x], Append(log, row))
      BY <3>1, <2>2, <1>1, OtherRow
    <3> QED BY <3>2, <2>2, <1>4
  <2> QED BY <2>1, <2>2
<1>10. AllValid'
  BY <1>4 DEF AllValid
<1> QED BY <1>2, <1>6, <1>7, <1>8, <1>9, <1>10

-----------------------------------------------------------------------------
(* The actions *)

\* The decision of rbac.rs as the properties state it.
LEMMA SameGrants ==
    ASSUME NEW actor \in Actors, NEW maker \in Actors, NEW data \in Data
    PROVE  ApplicableGrants(actor, "update", maker, data) = GrantsOn(actor, maker, data)
<1>1. \A g \in Grants[actor] : MeetsConditions(g, data) <=> Unopposed(g, data)
  BY DEF MeetsConditions, Unopposed
<1>2. \A g \in Grants[actor] :
         (g.scope = "own" => Owns(actor, maker, data))
           <=> (g.scope = "own" => actor \in {data[Owner], maker})
  BY DEF Owns
<1> QED BY <1>1, <1>2 DEF ApplicableGrants, GrantsOn

LEMMA CreateBegins ==
    ASSUME IInv, NEW q \in Requests, NEW actor \in Actors, NEW id \in Ids,
           NEW patch \in Patches, CreateRecordLoad(q, actor, id, patch)
    PROVE  IInv'
<1> DEFINE after == Created(patch)
           c     == [step |-> "create", by |-> actor, id |-> id, after |-> after]
<1>1. CASE Deny(actor, id)
  BY <1>1, Refused
<1>2. CASE Valid(after) /\ Continue(q, c)
  <2>1. after \in Data
    <3>1. Default \in Data
      OBVIOUS
    <3> QED BY <3>1, PatchedTyped
  <2> HIDE DEF after
  <2>2. c \in Call /\ c.step = "create" /\ c.id = id /\ c.after = after
    BY <2>1 DEF Call
  <2> HIDE DEF c
  <2>3. /\ call[q] = Idle /\ records[id] = NoRecord
        /\ \A r \in Requests : call[r] # Idle => call[r].id # id
    BY DEF CreateRecordLoad, Exists
  <2>4. MayCommit(c, records, log)
    BY <2>2, <2>3, <1>2 DEF MayCommit
  <2>5. call' = [call EXCEPT ![q] = c] /\ UNCHANGED <<records, log>>
    BY <1>2 DEF Continue
  <2> QED BY <2>2, <2>3, <2>4, <2>5, Begins
<1> QED BY <1>1, <1>2 DEF CreateRecordLoad

LEMMA UpdateBegins ==
    ASSUME IInv, NEW q \in Requests, NEW actor \in Actors, NEW id \in Ids,
           NEW patch \in Patches, UpdateRecordLoad(q, actor, id, patch)
    PROVE  IInv'
<1> DEFINE seen   == records[id]
           grants == ApplicableGrants(actor, "update", seen.created_by, seen.data)
           after  == Patched(seen.data, patch)
           c      == [step |-> "update", by |-> actor, id |-> id, before |-> seen.data,
                      after |-> after, fields |-> DOMAIN patch]
<1>1. CASE Deny(actor, id)
  BY <1>1, Refused
<1>2. CASE /\ grants # {} /\ \A f \in DOMAIN patch : FieldPermitted(grants, f)
           /\ Valid(after) /\ Continue(q, c)
  <2>1. records[id] # NoRecord /\ call[q] = Idle
    BY DEF UpdateRecordLoad, Exists
  <2>2. seen \in Record
    BY <2>1, Told DEF IInv, Typed
  <2>3. seen.data \in Data /\ seen.created_by \in Actors
    BY <2>2 DEF Record
  <2>4. after \in Data /\ DOMAIN patch \subseteq Fields
    BY <2>3, PatchedTyped
  <2>5. \A f \in Restricted : after[f] # seen.data[f] => f \in DOMAIN patch
    BY DEF Patched, Fields
  <2>6. grants = GrantsOn(actor, seen.created_by, seen.data)
    BY <2>3, SameGrants
  <2>7. Permitted(actor, seen.created_by, seen.data, after)
    BY <2>5, <2>6, <1>2 DEF Permitted, FieldPermitted
  <2>8. Logged(log, id, seen.data)
    BY <2>1, DataLogged DEF IInv, AllReplay
  <2>9. /\ c \in Call /\ c.step = "update" /\ c.by = actor /\ c.id = id
        /\ c.before = seen.data /\ c.after = after
    BY <2>3, <2>4 DEF Call
  <2>10. call' = [call EXCEPT ![q] = c] /\ UNCHANGED <<records, log>>
    BY <1>2 DEF Continue
  <2> HIDE DEF c, after
  <2>11. MayCommit(c, records, log)
    BY <2>1, <2>7, <2>8, <2>9, <1>2 DEF MayCommit
  <2> QED BY <2>1, <2>9, <2>10, <2>11, Begins
<1> QED BY <1>1, <1>2 DEF UpdateRecordLoad

LEMMA LifecycleBegins ==
    ASSUME IInv, NEW q \in Requests, NEW actor \in Actors, NEW id \in Ids,
           NEW verb \in {"archive", "restore"}, SetLifecycleLoad(q, actor, id, verb)
    PROVE  IInv'
<1> DEFINE c == [step |-> verb, by |-> actor, id |-> id]
<1>1. CASE Deny(actor, id)
  BY <1>1, Refused
<1>2. CASE Continue(q, c)
  <2>1. records[id] # NoRecord /\ call[q] = Idle
    BY DEF SetLifecycleLoad, Exists
  <2>2. c \in Call /\ c.step = verb /\ c.id = id
    BY DEF Call
  <2>3. call' = [call EXCEPT ![q] = c] /\ UNCHANGED <<records, log>>
    BY <1>2 DEF Continue
  <2> HIDE DEF c
  <2>4. MayCommit(c, records, log)
    BY <2>1, <2>2 DEF MayCommit
  <2> QED BY <2>1, <2>2, <2>3, <2>4, Begins
<1> QED BY <1>1, <1>2 DEF SetLifecycleLoad

LEMMA CreateCommits ==
    ASSUME IInv, NEW q \in Requests, CreateRecordCommit(q)
    PROVE  IInv'
<1> DEFINE c   == call[q]
           rec == [data |-> c.after, lifecycle |-> "active", created_by |-> c.by]
           row == Row("create", c.by, c.id, None, c.after)
<1>1. c \in Call /\ c.step = "create" /\ MayCommit(c, records, log)
  BY DEF CreateRecordCommit, IInv, Typed, CallsMayCommit
<1>2. c.id \in Ids /\ c.by \in Actors /\ c.after \in Data
  BY <1>1 DEF Call
<1>3. records[c.id] = NoRecord /\ Valid(c.after)
  BY <1>1 DEF MayCommit
<1>4. rec \in Record /\ rec.data = c.after /\ rec.lifecycle = "active"
  BY <1>2 DEF Record
<1>5. row \in LogRow /\ row.id = c.id /\ row.verb = "create" /\ row.after = c.after
  BY <1>2 DEF LogRow, Row, Verbs
<1>6. /\ records' = [records EXCEPT ![c.id] = rec] /\ log' = Append(log, row)
      /\ call' = [call EXCEPT ![q] = Idle]
  BY DEF CreateRecordCommit
<1>7. log \in Seq(LogRow) /\ Replays(c.id, records[c.id], log)
  BY <1>2 DEF IInv, Typed, AllReplay
<1> HIDE DEF rec, row
<1>8. Replays(c.id, rec, log')
  BY <1>3, <1>4, <1>5, <1>6, <1>7, DataRow, Told
<1> HIDE DEF c
<1>9. call[q].step # "idle" /\ call[q].id = c.id
  BY <1>1 DEF c
<1> QED BY <1>2, <1>3, <1>4, <1>5, <1>6, <1>8, <1>9, Commits

LEMMA UpdateCommits ==
    ASSUME IInv, NEW q \in Requests, UpdateRecordCommit(q)
    PROVE  IInv'
<1> DEFINE c   == call[q]
           was == records[c.id]
           rec == [was EXCEPT !.data = c.after]
           row == Row("update", c.by, c.id, c.before, c.after)
<1>1. c \in Call /\ c.step = "update" /\ MayCommit(c, records, log)
  BY DEF UpdateRecordCommit, IInv, Typed, CallsMayCommit
<1>2. c.id \in Ids /\ c.by \in Actors /\ c.before \in Data /\ c.after \in Data
  BY <1>1 DEF Call
<1>3. /\ was # NoRecord /\ Valid(c.after) /\ Logged(log, c.id, c.before)
      /\ Permitted(c.by, was.created_by, c.before, c.after)
  BY <1>1 DEF MayCommit
<1>4. was \in Record
  BY <1>2, <1>3, Told DEF IInv, Typed
<1>5. /\ rec \in Record /\ rec.data = c.after /\ rec.lifecycle = was.lifecycle
      /\ rec.created_by = was.created_by
  BY <1>2, <1>4 DEF Record
<1>6. /\ row \in LogRow /\ row.id = c.id /\ row.verb = "update" /\ row.by = c.by
      /\ row.before = c.before /\ row.after = c.after
  BY <1>2 DEF LogRow, Row, Verbs
<1>7. /\ records' = [records EXCEPT ![c.id] = rec] /\ log' = Append(log, row)
      /\ call' = [call EXCEPT ![q] = Idle]
  BY DEF UpdateRecordCommit
<1>8. log \in Seq(LogRow) /\ Replays(c.id, was, log) /\ records \in [Ids -> Record \cup {NoRecord}]
  BY <1>2 DEF IInv, Typed, AllReplay
<1> HIDE DEF rec, row
<1>9. Replays(c.id, rec, log')
  BY <1>3, <1>5, <1>6, <1>7, <1>8, DataRow, Told
<1>10. RowPermitted(Len(log) + 1, records', log')
  <2>1. log'[Len(log) + 1] = row /\ Len(log) \in Nat
    BY <1>6, <1>7, <1>8, Appended
  <2>2. PICK j \in DOMAIN log : log[j].id = c.id /\ log[j].after = c.before
    BY <1>3 DEF Logged
  <2>3. j \in 1..((Len(log) + 1) - 1) /\ log'[j] = log[j]
    BY <1>6, <1>7, <1>8, Appended
  <2>4. records'[c.id].created_by = was.created_by
    BY <1>2, <1>5, <1>7, <1>8
  <2> QED BY <2>1, <2>2, <2>3, <2>4, <1>3, <1>6 DEF RowPermitted
<1> HIDE DEF c, was
<1>11. /\ call[q].step # "idle" /\ call[q].id = c.id
       /\ records[c.id] # NoRecord => rec.created_by = records[c.id].created_by
  BY <1>1, <1>5 DEF c, was
<1> QED BY <1>2, <1>3, <1>5, <1>6, <1>7, <1>9, <1>10, <1>11, Commits

LEMMA LifecycleCommits ==
    ASSUME IInv, NEW q \in Requests, LifecycleCommit(q)
    PROVE  IInv'
<1> DEFINE c   == call[q]
           was == records[c.id]
           rec == [was EXCEPT !.lifecycle = IF c.step = "archive" THEN "archived" ELSE "active"]
           row == Row(c.step, c.by, c.id, None, None)
<1>1. c \in Call /\ c.step \in {"archive", "restore"} /\ MayCommit(c, records, log)
  BY DEF LifecycleCommit, IInv, Typed, CallsMayCommit
<1>2. c.id \in Ids /\ c.by \in Actors
  BY <1>1 DEF Call
<1>3. was # NoRecord
  BY <1>1 DEF MayCommit
<1>4. was \in Record /\ Valid(was.data)
  BY <1>2, <1>3, Told DEF IInv, Typed, AllValid
<1>5. /\ rec \in Record /\ rec.data = was.data /\ rec.created_by = was.created_by
      /\ rec.lifecycle = IF c.step = "archive" THEN "archived" ELSE "active"
  BY <1>4 DEF Record
<1>6. row \in LogRow /\ row.id = c.id /\ row.verb = c.step
  BY <1>1, <1>2 DEF LogRow, Row, Verbs
<1>7. /\ records' = [records EXCEPT ![c.id] = rec] /\ log' = Append(log, row)
      /\ call' = [call EXCEPT ![q] = Idle]
  BY DEF LifecycleCommit
<1>8. log \in Seq(LogRow) /\ Replays(c.id, was, log)
  BY <1>2 DEF IInv, Typed, AllReplay
<1> HIDE DEF rec, row
<1>9. Replays(c.id, rec, log')
  BY <1>1, <1>3, <1>5, <1>6, <1>7, <1>8, LifecycleRow, Told
<1> HIDE DEF c, was
<1>10. /\ call[q].step # "idle" /\ call[q].id = c.id /\ row.verb # "update"
       /\ records[c.id] # NoRecord => rec.created_by = records[c.id].created_by
       /\ Valid(rec.data)
  BY <1>1, <1>4, <1>5, <1>6 DEF c, was
<1> QED BY <1>2, <1>5, <1>6, <1>7, <1>9, <1>10, Commits

LEMMA Steps == IInv /\ [Next]_vars => IInv'
<1> SUFFICES ASSUME IInv, [Next]_vars PROVE IInv'
  OBVIOUS
<1>1. CASE UNCHANGED vars
  BY <1>1 DEF vars, IInv, Typed, CallsMayCommit, MayCommit, Alone, RowsPermitted,
              RowPermitted, AllReplay, Replays, AllValid
<1>2. ASSUME NEW q \in Requests, NEW actor \in Actors, NEW id \in Ids, NEW patch \in Patches,
             CreateRecordLoad(q, actor, id, patch) \/ UpdateRecordLoad(q, actor, id, patch)
      PROVE  IInv'
  BY <1>2, CreateBegins, UpdateBegins
<1>3. ASSUME NEW q \in Requests, NEW actor \in Actors, NEW id \in Ids,
             NEW verb \in {"archive", "restore"}, SetLifecycleLoad(q, actor, id, verb)
      PROVE  IInv'
  BY <1>3, LifecycleBegins
<1>4. ASSUME NEW q \in Requests,
             CreateRecordCommit(q) \/ UpdateRecordCommit(q) \/ LifecycleCommit(q)
      PROVE  IInv'
  BY <1>4, CreateCommits, UpdateCommits, LifecycleCommits
<1>5. ASSUME NEW q \in Requests, Abort(q) PROVE IInv'
  BY <1>5, Ends DEF Abort, Continue
<1>6. CASE Rest
  BY <1>6, <1>1 DEF Rest
<1> QED BY <1>1, <1>2, <1>3, <1>4, <1>5, <1>6 DEF Next

LEMMA Invariance == Spec => []IInv
BY Initially, Steps, PTL DEF Spec

\* What the invariant says of the table and the log.
LEMMA InvariantSays == IInv => RequiredFieldsPresent /\ EveryUpdateAuthorised /\ LogReplays
<1> SUFFICES ASSUME IInv PROVE RequiredFieldsPresent /\ EveryUpdateAuthorised /\ LogReplays
  OBVIOUS
<1>1. RequiredFieldsPresent
  BY DEF IInv, AllValid, RequiredFieldsPresent, Exists, Valid
<1>2. EveryUpdateAuthorised
  <2> SUFFICES ASSUME NEW i \in DOMAIN log, log[i].verb = "update"
               PROVE  LET row == log[i]  grants == UpdateGrants(row.by, row.id, row.before) IN
                      /\ \E j \in 1..(i - 1) : log[j].id = row.id /\ log[j].after = row.before
                      /\ grants # {}
                      /\ \A f \in Restricted : row.after[f] # row.before[f] =>
                             \E g \in grants : f \in g.fields
    BY DEF EveryUpdateAuthorised
  <2>1. RowPermitted(i, records, log)
    BY DEF IInv, RowsPermitted
  <2>2. UpdateGrants(log[i].by, log[i].id, log[i].before)
          = GrantsOn(log[i].by, records[log[i].id].created_by, log[i].before)
    BY DEF UpdateGrants, GrantsOn, Unopposed
  <2> QED BY <2>1, <2>2 DEF RowPermitted, Permitted
<1>3. LogReplays
  BY DEF IInv, AllReplay, Replays, LogReplays, Exists, WroteData, WroteLifecycle
<1> QED BY <1>1, <1>2, <1>3

-----------------------------------------------------------------------------
(* The theorems *)

(***************************************************************************)
(* The table, the calls and the log are well typed.                        *)
(***************************************************************************)
THEOREM RecordsTyped == Spec => []TypeOK
<1>1. IInv => TypeOK
  <2> SUFFICES ASSUME IInv PROVE TypeOK
    OBVIOUS
  <2>1. \A id \in Ids : Exists(id) => records[id] \in Record
    BY Told DEF IInv, Typed, Exists
  <2>2. \A q \in Requests : call[q].step \in Verbs \cup {"idle"}
    BY DEF IInv, Typed, Call, Verbs
  <2>3. \A i \in DOMAIN log : log[i] \in LogRow
    BY DEF IInv, Typed
  <2>4. \A i \in DOMAIN log : log[i].verb \in Verbs \cup {"denied"} /\ log[i].by \in Actors
    BY <2>3 DEF LogRow
  <2> QED BY <2>1, <2>2, <2>4 DEF TypeOK
<1> QED BY <1>1, Invariance, PTL

(***************************************************************************)
(* No record loses a required field, however many updates of it overlap    *)
(* (validate_against_type runs on what the update read).                   *)
(***************************************************************************)
THEOREM RequiredFieldsStay == Spec => []RequiredFieldsPresent
BY InvariantSays, Invariance, PTL

(***************************************************************************)
(* However calls overlap and are cut off, every audited update names as    *)
(* its before data that was stored, and its actor's grants allow it there. *)
(***************************************************************************)
THEOREM UpdatesArePermitted == Spec => []EveryUpdateAuthorised
BY InvariantSays, Invariance, PTL

(***************************************************************************)
(* The audit log replays to the table of records, for any interleaving and *)
(* any cut-off of the calls: a row and its change are one transaction.     *)
(***************************************************************************)
THEOREM LogTellsRecords == Spec => []LogReplays
BY InvariantSays, Invariance, PTL

\* The data of a stored record is changed by the commit of an update.
LEMMA UpdatesWriteData ==
    ASSUME IInv, Next, NEW id \in Ids, Exists(id), records'[id].data # records[id].data
    PROVE  \E q \in Requests : UpdateRecordCommit(q) /\ call[q].id = id
<1>1. records \in [Ids -> Record \cup {NoRecord}]
  BY DEF IInv, Typed
<1>2. records' # records
  OBVIOUS
<1>3. \A q \in Requests : ~CreateRecordCommit(q)
  <2> SUFFICES ASSUME NEW q \in Requests, CreateRecordCommit(q) PROVE FALSE
    OBVIOUS
  <2>1. records[call[q].id] = NoRecord
    BY DEF CreateRecordCommit, IInv, CallsMayCommit, MayCommit
  <2>2. call[q].id # id
    BY <2>1 DEF Exists
  <2> QED BY <2>2, <1>1 DEF CreateRecordCommit
<1>4. \A q \in Requests : ~LifecycleCommit(q)
  <2> SUFFICES ASSUME NEW q \in Requests, LifecycleCommit(q) PROVE FALSE
    OBVIOUS
  <2>1. records[id] \in Record
    BY <1>1, Told DEF Exists
  <2> QED BY <2>1, <1>1 DEF LifecycleCommit, Record
<1>5. PICK q \in Requests : UpdateRecordCommit(q)
  BY <1>2, <1>3, <1>4 DEF Next, CreateRecordLoad, UpdateRecordLoad, SetLifecycleLoad,
                          Deny, Continue, Abort, Rest, vars
<1>6. call[q].id = id
  BY <1>1, <1>5 DEF UpdateRecordCommit
<1> QED BY <1>5, <1>6

(***************************************************************************)
(* A restricted field changes only by an actor whose grants permit it, or  *)
(* by an overtaken update that puts back what it read.                     *)
(***************************************************************************)
THEOREM RestrictedFieldsKept == Spec => RestrictedChangedByPermitted
<1> DEFINE Kept ==
      \A id \in Ids, f \in Restricted :
           Exists(id) /\ records'[id].data[f] # records[id].data[f] =>
               \E q \in Requests :
                   /\ UpdateRecordCommit(q) /\ call[q].id = id
                   /\ \/ \E g \in UpdateGrants(call[q].by, id, call[q].before) :
                            f \in g.fields
                      \/ /\ ~Undisturbed(q)
                         /\ records'[id].data[f] = call[q].before[f]
<1>1. IInv /\ [Next]_vars => [Kept]_vars
  <2> SUFFICES ASSUME IInv, Next, NEW id \in Ids, NEW f \in Restricted,
                      Exists(id), records'[id].data[f] # records[id].data[f]
               PROVE  \E q \in Requests :
                   /\ UpdateRecordCommit(q) /\ call[q].id = id
                   /\ \/ \E g \in UpdateGrants(call[q].by, id, call[q].before) :
                            f \in g.fields
                      \/ /\ ~Undisturbed(q)
                         /\ records'[id].data[f] = call[q].before[f]
    OBVIOUS
  <2>1. records \in [Ids -> Record \cup {NoRecord}]
    BY DEF IInv, Typed
  <2>5. PICK q \in Requests : UpdateRecordCommit(q) /\ call[q].id = id
    BY UpdatesWriteData
  <2>6. call[q].id = id
    BY <2>5
  <2>7. records'[id].data = call[q].after
    <3>1. records[id] \in Record
      BY <2>1, Told DEF Exists
    <3> QED BY <3>1, <2>1, <2>5, <2>6 DEF UpdateRecordCommit, Record
  <2>8. Permitted(call[q].by, records[id].created_by, call[q].before, call[q].after)
    BY <2>5, <2>6 DEF UpdateRecordCommit, IInv, CallsMayCommit, MayCommit
  <2>9. UpdateGrants(call[q].by, id, call[q].before)
          = GrantsOn(call[q].by, records[id].created_by, call[q].before)
    BY DEF UpdateGrants, GrantsOn, Unopposed
  <2>10. CASE call[q].after[f] # call[q].before[f]
    <3>1. \E g \in UpdateGrants(call[q].by, id, call[q].before) : f \in g.fields
      BY <2>8, <2>9, <2>10 DEF Permitted
    <3> QED BY <3>1, <2>5, <2>6
  <2>11. CASE call[q].after[f] = call[q].before[f]
    <3>1. ~Undisturbed(q) /\ records'[id].data[f] = call[q].before[f]
      BY <2>6, <2>7, <2>11 DEF Undisturbed
    <3> QED BY <3>1, <2>5, <2>6
  <2> QED BY <2>10, <2>11
<1>2. IInv /\ [Next]_vars => [Kept]_vars
  BY <1>1
<1> HIDE DEF Kept
<1>3. Spec => [][Kept]_vars
  BY <1>2, Invariance, PTL DEF Spec
<1> QED BY <1>3 DEF RestrictedChangedByPermitted, Kept

-----------------------------------------------------------------------------
(***************************************************************************)
(* The fields a patch does not name.  OnlyPatchedFieldsChange fails when   *)
(* two updates overlap; what holds of any update is that it stores those   *)
(* fields as it read them.                                                 *)
(***************************************************************************)

\* An update is about to store the fields its patch does not name as it read them.
CarryUnnamed ==
    \A q \in Requests : call[q].step = "update" =>
        \A f \in Fields \ call[q].fields : call[q].after[f] = call[q].before[f]

\* The record of an update under way is as the update read it.
NoneOvertaken == \A q \in Requests : call[q].step = "update" => Undisturbed(q)

UnnamedAsRead(q) ==
    \A f \in Fields \ call[q].fields :
        records'[call[q].id].data[f] = call[q].before[f]

\* Slot q gets an update that has just read its record.
HasJustRead(q) ==
    \E actor \in Actors, id \in Ids, patch \in Patches :
        /\ UNCHANGED <<records, log>>
        /\ call'[q] = [step |-> "update", by |-> actor, id |-> id,
                      before |-> records[id].data,
                      after |-> Patched(records[id].data, patch),
                      fields |-> DOMAIN patch]

\* A call that is an update after a step was the same update before it, or
\* the step read the record for it.
LEMMA CallSteps ==
    ASSUME IInv, Next, NEW q \in Requests, call'[q].step = "update"
    PROVE  call'[q] = call[q] \/ HasJustRead(q)
<1>1. call \in [Requests -> Call]
  BY DEF IInv, Typed
<1>2. ASSUME NEW r \in Requests, NEW next, call' = [call EXCEPT ![r] = next],
             next.step # "update"
      PROVE  call'[q] = call[q]
  BY <1>1, <1>2
<1>3. Idle.step # "update"
  BY DEF Idle
<1>4. ASSUME NEW r \in Requests,
             CreateRecordCommit(r) \/ UpdateRecordCommit(r) \/ LifecycleCommit(r) \/ Abort(r)
      PROVE  call'[q] = call[q]
  <2>1. call' = [call EXCEPT ![r] = Idle]
    BY <1>4 DEF CreateRecordCommit, UpdateRecordCommit, LifecycleCommit, Abort, Continue
  <2> QED BY ONLY <2>1, <1>2, <1>3, r \in Requests
<1>5. CASE Rest
  BY <1>5 DEF Rest, vars
<1>6. ASSUME NEW r \in Requests, NEW actor \in Actors, NEW id \in Ids,
             NEW verb \in {"archive", "restore"}, SetLifecycleLoad(r, actor, id, verb)
      PROVE  call'[q] = call[q]
  <2>1. CASE call' = call
    BY <2>1
  <2>2. CASE call' = [call EXCEPT ![r] = [step |-> verb, by |-> actor, id |-> id]]
    BY <1>1, <2>2
  <2> QED BY <1>6, <2>1, <2>2 DEF SetLifecycleLoad, Deny, Continue
<1>7. ASSUME NEW r \in Requests, NEW actor \in Actors, NEW id \in Ids,
             NEW patch \in Patches, CreateRecordLoad(r, actor, id, patch)
      PROVE  call'[q] = call[q]
  <2>1. CASE call' = call
    BY <2>1
  <2>2. CASE call' = [call EXCEPT ![r] = [step |-> "create", by |-> actor, id |-> id,
                                          after |-> Created(patch)]]
    BY <1>1, <2>2
  <2> QED BY <1>7, <2>1, <2>2 DEF CreateRecordLoad, Deny, Continue
<1>8. ASSUME NEW r \in Requests, NEW actor \in Actors, NEW id \in Ids,
             NEW patch \in Patches, UpdateRecordLoad(r, actor, id, patch)
      PROVE  call'[q] = call[q] \/ HasJustRead(q)
  <2> DEFINE c == [step |-> "update", by |-> actor, id |-> id,
                   before |-> records[id].data,
                   after |-> Patched(records[id].data, patch),
                   fields |-> DOMAIN patch]
  <2>1. CASE Deny(actor, id)
    BY <2>1 DEF Deny
  <2>2. CASE Continue(r, c)
    <3>1. call' = [call EXCEPT ![r] = c] /\ UNCHANGED <<records, log>>
      BY <2>2 DEF Continue
    <3> HIDE DEF c
    <3>2. call'[q] = call[q] \/ call'[q] = c
      BY <1>1, <3>1
    <3> QED BY <3>1, <3>2 DEF c, HasJustRead
  <2> QED BY <1>8, <2>1, <2>2 DEF UpdateRecordLoad
<1> QED BY ONLY Next, <1>4, <1>5, <1>6, <1>7, <1>8 DEF Next

LEMMA UnnamedSteps ==
    /\ Init => CarryUnnamed /\ NoneOvertaken
    /\ IInv /\ CarryUnnamed /\ [Next]_vars => CarryUnnamed'
<1>1. Init => CarryUnnamed /\ NoneOvertaken
  BY DEF Init, Idle, CarryUnnamed, NoneOvertaken
<1>2. ASSUME IInv, CarryUnnamed, UNCHANGED vars PROVE CarryUnnamed'
  BY <1>2 DEF CarryUnnamed, vars
<1>3. ASSUME IInv, CarryUnnamed, Next PROVE CarryUnnamed'
  <2> SUFFICES ASSUME NEW q \in Requests, call'[q].step = "update",
                      NEW f \in Fields \ call'[q].fields
               PROVE  call'[q].after[f] = call'[q].before[f]
    BY DEF CarryUnnamed
  <2>1. CASE call'[q] = call[q]
    BY <1>3, <2>1 DEF CarryUnnamed
  <2>2. CASE HasJustRead(q)
    <3>1. PICK id \in Ids, patch \in Patches :
             /\ call'[q].before = records[id].data
             /\ call'[q].after = Patched(records[id].data, patch)
             /\ call'[q].fields = DOMAIN patch
      BY <2>2 DEF HasJustRead
    <3> QED BY <3>1 DEF Patched
  <2> QED BY <1>3, <2>1, <2>2, CallSteps
<1> QED BY <1>1, <1>2, <1>3

\* What a commit stores.
LEMMA CommitStores ==
    ASSUME IInv, NEW q \in Requests, UpdateRecordCommit(q)
    PROVE  records'[call[q].id].data = call[q].after
<1> DEFINE id == call[q].id
<1>1. call[q] \in Call /\ call[q].step = "update" /\ records[id] # NoRecord
  BY DEF UpdateRecordCommit, IInv, Typed, CallsMayCommit, MayCommit
<1>2. id \in Ids /\ records \in [Ids -> Record \cup {NoRecord}]
  BY <1>1 DEF Call, IInv, Typed
<1>3. records[id] \in Record
  BY <1>1, <1>2, Told
<1>4. records' = [records EXCEPT ![id].data = call[q].after]
  BY DEF UpdateRecordCommit
<1> HIDE DEF id
<1>5. records'[id].data = call[q].after
  BY ONLY <1>2, <1>3, <1>4 DEF Record
<1> QED BY <1>5 DEF id

(***************************************************************************)
(* Every update, whatever overlaps it, stores the fields its patch does    *)
(* not name with the values it read (update_record merges the patch into   *)
(* the data map it loaded).                                                *)
(***************************************************************************)
THEOREM UnnamedFieldsAreAsRead ==
    Spec => [][\A q \in Requests : UpdateRecordCommit(q) => UnnamedAsRead(q)]_vars
<1>1. IInv /\ CarryUnnamed /\ Next =>
         \A q \in Requests : UpdateRecordCommit(q) => UnnamedAsRead(q)
  <2> SUFFICES ASSUME IInv, CarryUnnamed, NEW q \in Requests, UpdateRecordCommit(q)
               PROVE  UnnamedAsRead(q)
    OBVIOUS
  <2>1. call[q].step = "update"
    BY DEF UpdateRecordCommit
  <2> QED BY <2>1, CommitStores DEF UnnamedAsRead, CarryUnnamed
<1> DEFINE Stores == \A q \in Requests : UpdateRecordCommit(q) => UnnamedAsRead(q)
<1>2. IInv /\ CarryUnnamed /\ [Next]_vars => [Stores]_vars
  BY <1>1
<1> HIDE DEF Stores
<1>3. Spec => [][Stores]_vars
  BY <1>2, UnnamedSteps, Invariance, PTL DEF Spec
<1> QED BY <1>3 DEF Stores

\* No update is stored while another update of its record is under way.
UpdatesApart ==
    \A q, r \in Requests : UpdateRecordCommit(q) /\ call[r].step = "update" /\ r # q =>
        call[r].id # call[q].id

LEMMA OvertakenByUpdates ==
    IInv /\ NoneOvertaken /\ [Next]_vars /\ [UpdatesApart]_vars => NoneOvertaken'
<1> SUFFICES ASSUME IInv, NoneOvertaken, [Next]_vars, [UpdatesApart]_vars,
                    NEW q \in Requests, call'[q].step = "update"
             PROVE  records'[call'[q].id].data = call'[q].before
  BY DEF NoneOvertaken, Undisturbed
<1>1. CASE UNCHANGED vars
  <2>1. UNCHANGED <<records, call>>
    BY <1>1 DEF vars
  <2> QED BY <2>1 DEF NoneOvertaken, Undisturbed
<1>2. CASE HasJustRead(q)
  BY <1>2 DEF HasJustRead
<1>3. CASE Next /\ UpdatesApart /\ call'[q] = call[q]
  <2> DEFINE id == call[q].id
  <2>1. call \in [Requests -> Call] /\ call[q].step = "update"
    BY <1>3 DEF IInv, Typed
  <2>2. id \in Ids /\ Exists(id)
    BY <2>1 DEF Call, Exists, IInv, CallsMayCommit, MayCommit
  <2>3. records[id].data = call[q].before
    BY <2>1 DEF NoneOvertaken, Undisturbed
  <2> HIDE DEF id
  <2>4. ASSUME records'[id].data # records[id].data PROVE FALSE
    <3>1. PICK r \in Requests : UpdateRecordCommit(r) /\ call[r].id = id
      BY ONLY IInv, <1>3, <2>2, <2>4, UpdatesWriteData
    <3>2. call'[r] = Idle
      BY <2>1, <3>1 DEF UpdateRecordCommit
    <3>3. r # q
      BY <1>3, <2>1, <3>2 DEF Idle
    <3> QED BY <1>3, <2>1, <3>1, <3>3 DEF UpdatesApart, id
  <2> QED BY <1>3, <2>3, <2>4 DEF id
<1> QED BY <1>1, <1>2, <1>3, CallSteps

LEMMA StoresNamed ==
    ASSUME IInv, CarryUnnamed, NoneOvertaken, NEW q \in Requests, UpdateRecordCommit(q)
    PROVE  ChangesOnlyNamed(q)
<1>1. call[q].step = "update"
  BY DEF UpdateRecordCommit
<1>2. records[call[q].id].data = call[q].before
  BY <1>1 DEF NoneOvertaken, Undisturbed
<1> QED BY <1>1, <1>2, CommitStores DEF ChangesOnlyNamed, CarryUnnamed

(***************************************************************************)
(* As long as no update is stored while another update of its record is    *)
(* under way, an update changes only the fields its patch names (the doc   *)
(* of RecordPatch), whatever else runs: that overlap is the only way to    *)
(* what the run record_race shows.                                         *)
(***************************************************************************)
THEOREM PatchesChangeWhatTheyName == Spec /\ [][UpdatesApart]_vars => OnlyPatchedFieldsChange
<1> DEFINE Named == \A q \in Requests : UpdateRecordCommit(q) => ChangesOnlyNamed(q)
<1>1. IInv /\ CarryUnnamed /\ NoneOvertaken /\ [Next]_vars => [Named]_vars
  BY StoresNamed
<1> HIDE DEF Named
<1>2. Spec /\ [][UpdatesApart]_vars => [][Named]_vars
  BY <1>1, OvertakenByUpdates, UnnamedSteps, Invariance, PTL DEF Spec
<1> QED BY <1>2 DEF OnlyPatchedFieldsChange, Named

(***************************************************************************)
(* Where calls run one at a time, an update changes only the fields its    *)
(* patch names.                                                            *)
(***************************************************************************)
THEOREM UpdatingAloneIsSound ==
    ASSUME \A q, r \in Requests : q = r
    PROVE  Spec => OnlyPatchedFieldsChange
<1>1. UpdatesApart
  BY DEF UpdatesApart
<1> QED BY <1>1, PatchesChangeWhatTheyName, PTL

-----------------------------------------------------------------------------
(***************************************************************************)
(* Agents.  The planner takes no step on the records that Records does not *)
(* take, but for a refusal, so the invariant of Records holds here too.  To*)
(* it come what a plan shows and what the call that executes it carries.   *)
(***************************************************************************)

USE AgentsAssumption

\* Plan p shows the fields its action sets, and others as they were seen.
Shows(p) ==
    LET payload == p.action.payload IN
    /\ p.action \in Proposals
    /\ DOMAIN p.after \subseteq Fields
    /\ p.action.op = "create" => p.after = payload
    /\ p.action.op = "update" =>
          /\ \A f \in DOMAIN payload : f \in DOMAIN p.after /\ p.after[f] = payload[f]
          /\ \A f \in DOMAIN p.after \ DOMAIN payload : p.after[f] = p.seen[f]

\* Call k carries out plan p.
CarriesOut(k, p) ==
    /\ k.step = p.action.op
    /\ p.action.op = "create" => k.after = Created(p.action.payload)
    /\ p.action.op = "update" => k.after = Patched(k.before, p.action.payload)

PlansShow == \A c \in Clients : plan[c] # NoPlan => Shows(plan[c])

CallsCarryOut ==
    \A c \in Clients : running[c] # None =>
        plan[c] # NoPlan /\ CarriesOut(call[running[c]], plan[c])

AInv ==
    /\ IInv
    /\ DOMAIN plan = Clients
    /\ running \in [Clients -> Requests \cup {None}]
    /\ PlansShow /\ CallsCarryOut

-----------------------------------------------------------------------------
(* Steps of Records *)

\* A call that runs is left as it is, or ends.
LEMMA OthersLeaveIt ==
    ASSUME IInv, Next, NEW r \in Requests, call[r] # Idle
    PROVE  call'[r] = call[r] \/ call'[r] = Idle
<1> DEFINE Step(q) == \/ UNCHANGED call
                      \/ call' = [call EXCEPT ![q] = Idle]
                      \/ call[q] = Idle /\ \E k : call' = [call EXCEPT ![q] = k]
<1>1. call \in [Requests -> Call]
  BY DEF IInv, Typed
<1>2. ASSUME NEW q \in Requests, Step(q) PROVE call'[r] = call[r] \/ call'[r] = Idle
  BY <1>1, <1>2
<1>3. ASSUME NEW q \in Requests, NEW actor, NEW id, NEW patch,
             CreateRecordLoad(q, actor, id, patch)
      PROVE  Step(q)
  BY <1>3 DEF CreateRecordLoad, Deny, Continue
<1>4. ASSUME NEW q \in Requests, NEW actor, NEW id, NEW patch,
             UpdateRecordLoad(q, actor, id, patch)
      PROVE  Step(q)
  BY <1>4 DEF UpdateRecordLoad, Deny, Continue
<1>5. ASSUME NEW q \in Requests, NEW actor, NEW id, NEW verb,
             SetLifecycleLoad(q, actor, id, verb)
      PROVE  Step(q)
  BY <1>5 DEF SetLifecycleLoad, Deny, Continue
<1>6. ASSUME NEW q \in Requests,
             CreateRecordCommit(q) \/ UpdateRecordCommit(q) \/ LifecycleCommit(q) \/ Abort(q)
      PROVE  Step(q)
  BY <1>6 DEF CreateRecordCommit, UpdateRecordCommit, LifecycleCommit, Abort, Continue
<1>7. CASE Rest
  BY <1>7 DEF Rest, vars
<1> HIDE DEF Step
<1> QED BY <1>2, <1>3, <1>4, <1>5, <1>6, <1>7 DEF Next

-----------------------------------------------------------------------------
(* The actions of the planner *)

LEMMA AgentsInitially == AgentsInit => AInv
<1> SUFFICES ASSUME AgentsInit PROVE AInv
  OBVIOUS
<1>1. IInv
  BY Initially DEF AgentsInit
<1> QED BY <1>1 DEF AgentsInit, AInv, PlansShow, CallsCarryOut

\* A dry run that makes plan p keeps the invariant.
LEMMA Plans ==
    ASSUME AInv, NEW c \in Clients, NEW p, Shows(p), plan[c] = NoPlan,
           plan' = [plan EXCEPT ![c] = p],
           UNCHANGED <<records, call, log, running>>
    PROVE  AInv'
<1>1. IInv'
  BY Steps DEF AInv, vars
<1>2. \A d \in Clients : plan'[d] = IF d = c THEN p ELSE plan[d]
  BY DEF AInv
<1>3. PlansShow'
  <2> SUFFICES ASSUME NEW d \in Clients, plan'[d] # NoPlan PROVE Shows(plan'[d])
    BY DEF PlansShow
  <2> QED BY <1>2 DEF AInv, PlansShow
<1>4. CallsCarryOut'
  <2> SUFFICES ASSUME NEW d \in Clients, running[d] # None
               PROVE  plan'[d] # NoPlan /\ CarriesOut(call[running[d]], plan'[d])
    BY DEF CallsCarryOut
  <2>1. plan[d] # NoPlan /\ CarriesOut(call[running[d]], plan[d])
    BY DEF AInv, CallsCarryOut
  <2> QED BY <2>1, <1>2
<1> QED BY <1>1, <1>3, <1>4 DEF AInv

LEMMA CreatePlanned ==
    ASSUME AInv, NEW c \in Clients, NEW actor \in Actors, NEW action \in Proposals,
           DryRunCreate(c, actor, action)
    PROVE  AInv'
<1> DEFINE p == [by |-> actor, action |-> action, id |-> None, seen |-> None,
                 after |-> action.payload]
<1>1. DOMAIN action.payload \subseteq Fields
  <2>1. action.payload \in Patches /\ Default \in Data
    BY RecordsAssumption
  <2> QED BY <2>1, PatchedTyped
<1>2. p.action = action /\ p.after = action.payload
  OBVIOUS
<1>3. plan[c] = NoPlan /\ action.op = "create" /\ plan' = [plan EXCEPT ![c] = p]
      /\ UNCHANGED <<records, call, log, running>>
  BY DEF DryRunCreate
<1> HIDE DEF p
<1>4. Shows(p)
  BY <1>1, <1>2, <1>3 DEF Shows
<1> QED BY <1>3, <1>4, Plans

LEMMA UpdatePlanned ==
    ASSUME AInv, NEW c \in Clients, NEW actor \in Actors, NEW action \in Proposals,
           NEW id \in Ids, DryRunUpdate(c, actor, action, id)
    PROVE  AInv'
<1> DEFINE seen     == records[id].data
           readable == Readable(actor, records[id].created_by, seen)
           after    == Merged(seen, action.payload, readable)
           p        == [by |-> actor, action |-> action, id |-> id, seen |-> seen,
                        after |-> after]
<1>1. CASE Deny(actor, id) /\ UNCHANGED <<plan, running>>
  <2>1. IInv' /\ UNCHANGED call
    BY <1>1, Refused DEF AInv, Deny
  <2> QED BY <1>1, <2>1 DEF AInv, PlansShow, CallsCarryOut
<1>2. ASSUME plan[c] = NoPlan, action.op = "update", plan' = [plan EXCEPT ![c] = p],
             UNCHANGED <<records, call, log, running>>
      PROVE  AInv'
  <2>1. DOMAIN action.payload \subseteq Fields /\ readable \subseteq Fields
    <3>1. action.payload \in Patches /\ Default \in Data
      BY RecordsAssumption
    <3>2. DOMAIN action.payload \subseteq Fields
      BY <3>1, PatchedTyped
    <3>3. readable \subseteq Fields
      BY DEF Readable
    <3> QED BY <3>2, <3>3
  <2>2. p.action = action /\ p.after = after /\ p.seen = seen
    OBVIOUS
  <2>3. /\ DOMAIN after = readable \cup DOMAIN action.payload
        /\ \A f \in DOMAIN after :
              after[f] = IF f \in DOMAIN action.payload THEN action.payload[f] ELSE seen[f]
    BY DEF Merged
  <2> HIDE DEF p, after, readable, seen
  <2>4. Shows(p)
    BY <2>1, <2>2, <2>3, <1>2 DEF Shows
  <2> QED BY <2>4, <1>2, Plans
<1> QED BY <1>1, <1>2 DEF DryRunUpdate

\* Call q begins to carry out the plan of c, or is refused.
LEMMA Executes ==
    ASSUME AInv, NEW c \in Clients, NEW q \in Requests, NEW actor \in Actors, NEW id \in Ids,
           NEW approved \in BOOLEAN, Execute(c, q, actor, id, approved)
    PROVE  AInv'
<1> DEFINE p       == plan[c]
           payload == p.action.payload
<1>1. p # NoPlan /\ Shows(p) /\ p.action \in Proposals /\ payload \in Patches
  BY DEF Execute, AInv, PlansShow, Shows
<1>2. \/ p.action.op = "create" /\ CreateRecordLoad(q, actor, id, payload)
      \/ p.action.op = "update" /\ UpdateRecordLoad(q, actor, id, payload)
  BY DEF Execute
<1>3. IInv'
  BY <1>1, <1>2, CreateBegins, UpdateBegins DEF AInv
<1>4. call \in [Requests -> Call] /\ call[q] = Idle
  BY <1>2 DEF AInv, IInv, Typed, CreateRecordLoad, UpdateRecordLoad
<1>5. /\ call'[q] # Idle => CarriesOut(call'[q], p)
      /\ \A r \in Requests \ {q} : call'[r] = call[r]
  <2>1. ASSUME UNCHANGED call
        PROVE  /\ call'[q] # Idle => CarriesOut(call'[q], p)
               /\ \A r \in Requests \ {q} : call'[r] = call[r]
    BY <2>1, <1>4
  <2>2. ASSUME NEW k, CarriesOut(k, p), call' = [call EXCEPT ![q] = k]
        PROVE  /\ call'[q] # Idle => CarriesOut(call'[q], p)
               /\ \A r \in Requests \ {q} : call'[r] = call[r]
    BY <2>2, <1>4
  <2>3. ASSUME p.action.op = "create", CreateRecordLoad(q, actor, id, payload)
        PROVE  UNCHANGED call \/ \E k : CarriesOut(k, p) /\ call' = [call EXCEPT ![q] = k]
    <3> DEFINE after == Created(payload)
               k == [step |-> "create", by |-> actor, id |-> id, after |-> after]
    <3>1. k.step = "create" /\ k.after = Created(p.action.payload)
      OBVIOUS
    <3>2. UNCHANGED call \/ call' = [call EXCEPT ![q] = k]
      BY <2>3 DEF CreateRecordLoad, Deny, Continue
    <3> HIDE DEF k, after
    <3>3. CarriesOut(k, p)
      BY <2>3, <3>1 DEF CarriesOut
    <3> QED BY <3>2, <3>3
  <2>4. ASSUME p.action.op = "update", UpdateRecordLoad(q, actor, id, payload)
        PROVE  UNCHANGED call \/ \E k : CarriesOut(k, p) /\ call' = [call EXCEPT ![q] = k]
    <3> DEFINE before == records[id].data
               after  == Patched(before, payload)
               k == [step |-> "update", by |-> actor, id |-> id, before |-> before,
                     after |-> after, fields |-> DOMAIN payload]
    <3>1. k.step = "update" /\ k.after = Patched(k.before, p.action.payload)
      OBVIOUS
    <3>2. UNCHANGED call \/ call' = [call EXCEPT ![q] = k]
      BY <2>4 DEF UpdateRecordLoad, Deny, Continue
    <3> HIDE DEF k, after
    <3>3. CarriesOut(k, p)
      BY <2>4, <3>1 DEF CarriesOut
    <3> QED BY <3>2, <3>3
  <2> HIDE DEF p, payload
  <2> QED BY <1>2, <2>1, <2>2, <2>3, <2>4
<1>6. /\ UNCHANGED plan
      /\ running \in [Clients -> Requests \cup {None}]
      /\ running' = [running EXCEPT ![c] = IF call'[q] = Idle THEN None ELSE q]
  BY DEF Execute, AInv
<1>7. running' \in [Clients -> Requests \cup {None}]
  BY <1>6
<1>8. CallsCarryOut'
  <2> SUFFICES ASSUME NEW d \in Clients, running'[d] # None
               PROVE  plan[d] # NoPlan /\ CarriesOut(call'[running'[d]], plan[d])
    BY <1>6 DEF CallsCarryOut
  <2>1. CASE d = c
    <3>1. running'[d] = q /\ call'[q] # Idle
      BY <2>1, <1>6
    <3> QED BY <3>1, <2>1, <1>1, <1>5
  <2>2. CASE d # c
    <3>1. running'[d] = running[d] /\ running[d] \in Requests
      BY <2>2, <1>6
    <3>2. plan[d] # NoPlan /\ CarriesOut(call[running[d]], plan[d]) /\ Shows(plan[d])
      BY <3>1 DEF AInv, CallsCarryOut, PlansShow
    <3>3. call[running[d]].step \in {"create", "update"}
      BY <3>2 DEF CarriesOut, Shows
    <3>4. running[d] # q
      BY <3>3, <1>4 DEF Idle
    <3> QED BY <3>1, <3>2, <3>4, <1>5
  <2> QED BY <2>1, <2>2
<1>9. PlansShow'
  BY <1>6 DEF AInv, PlansShow
<1> QED BY <1>3, <1>6, <1>7, <1>8, <1>9 DEF AInv

LEMMA Discards ==
    ASSUME AInv, NEW c \in Clients, Discard(c)
    PROVE  AInv'
<1>1. IInv'
  BY Steps DEF Discard, AInv, vars
<1>2. /\ running[c] = None /\ UNCHANGED <<call, running>>
      /\ DOMAIN plan' = Clients
      /\ \A d \in Clients : plan'[d] = IF d = c THEN NoPlan ELSE plan[d]
  BY DEF Discard, AInv
<1>3. PlansShow'
  <2> SUFFICES ASSUME NEW d \in Clients, plan'[d] # NoPlan PROVE Shows(plan'[d])
    BY DEF PlansShow
  <2> QED BY <1>2 DEF AInv, PlansShow
<1>4. CallsCarryOut'
  <2> SUFFICES ASSUME NEW d \in Clients, running[d] # None
               PROVE  plan'[d] # NoPlan /\ CarriesOut(call[running[d]], plan'[d])
    BY <1>2 DEF CallsCarryOut
  <2> QED BY <1>2 DEF AInv, CallsCarryOut
<1> QED BY <1>1, <1>2, <1>3, <1>4 DEF AInv

\* A step of Records lets go of the calls that end.
LEMMA RecordsSteps ==
    ASSUME AInv, Next, UNCHANGED plan,
           running' = [c \in Clients |->
                          IF running[c] # None /\ call'[running[c]] = Idle THEN None
                          ELSE running[c]]
    PROVE  AInv'
<1>1. IInv'
  BY Steps DEF AInv
<1>2. running \in [Clients -> Requests \cup {None}] /\ DOMAIN plan = Clients
  BY DEF AInv
<1>3. running' \in [Clients -> Requests \cup {None}]
  BY <1>2
<1>4. CallsCarryOut'
  <2> SUFFICES ASSUME NEW c \in Clients, running'[c] # None
               PROVE  plan[c] # NoPlan /\ CarriesOut(call'[running'[c]], plan[c])
    BY DEF CallsCarryOut
  <2>1. /\ running'[c] = running[c] /\ running[c] \in Requests
        /\ call'[running[c]] # Idle
    BY <1>2
  <2>2. plan[c] # NoPlan /\ CarriesOut(call[running[c]], plan[c]) /\ Shows(plan[c])
    BY <2>1 DEF AInv, CallsCarryOut, PlansShow
  <2>3. call[running[c]].step \in {"create", "update"}
    BY <2>2 DEF CarriesOut, Shows
  <2>4. call[running[c]] # Idle
    BY <2>3 DEF Idle
  <2>5. call'[running[c]] = call[running[c]]
    BY <2>1, <2>4, OthersLeaveIt DEF AInv
  <2> QED BY <2>1, <2>2, <2>5
<1>5. PlansShow'
  BY DEF AInv, PlansShow
<1> QED BY <1>1, <1>2, <1>3, <1>4, <1>5 DEF AInv

LEMMA AgentsSteps == AInv /\ [AgentsNext]_agentVars => AInv'
<1> SUFFICES ASSUME AInv, [AgentsNext]_agentVars PROVE AInv'
  OBVIOUS
<1>1. CASE UNCHANGED agentVars
  <2>1. UNCHANGED <<call, plan, running>> /\ UNCHANGED vars
    BY <1>1 DEF agentVars, vars
  <2>2. IInv'
    BY <2>1, Steps DEF AInv
  <2> QED BY <2>1, <2>2 DEF AInv, PlansShow, CallsCarryOut
<1>2. ASSUME NEW c \in Clients, NEW actor \in Actors, NEW action \in Proposals,
             \/ DryRunCreate(c, actor, action)
             \/ \E id \in Ids : DryRunUpdate(c, actor, action, id)
      PROVE  AInv'
  BY <1>2, CreatePlanned, UpdatePlanned
<1>3. ASSUME NEW c \in Clients, NEW actor \in Actors, NEW q \in Requests, NEW id \in Ids,
             NEW approved \in BOOLEAN, Execute(c, q, actor, id, approved)
      PROVE  AInv'
  BY <1>3, Executes
<1>4. ASSUME NEW c \in Clients, Discard(c) PROVE AInv'
  BY <1>4, Discards
<1>5. CASE /\ Next
           /\ running' = [c \in Clients |->
                            IF running[c] # None /\ call'[running[c]] = Idle THEN None
                            ELSE running[c]]
           /\ UNCHANGED plan
  BY <1>5, RecordsSteps
<1> QED BY <1>1, <1>2, <1>3, <1>4, <1>5 DEF AgentsNext

LEMMA AgentsInvariance == AgentsSpec => []AInv
BY AgentsInitially, AgentsSteps, PTL DEF AgentsSpec

-----------------------------------------------------------------------------
(* The theorems *)

(***************************************************************************)
(* Actions executed for planners keep what Records guarantees: required    *)
(* fields stay, updates are permitted, and the log replays.                *)
(***************************************************************************)
THEOREM PlannersKeepRecords ==
    AgentsSpec => [](RequiredFieldsPresent /\ EveryUpdateAuthorised /\ LogReplays)
BY AgentsInvariance, InvariantSays, PTL DEF AInv

(***************************************************************************)
(* A dry run is the exact change: whoever executes the plan, however often *)
(* and whatever else runs, what is stored is what the plan showed, unless  *)
(* the record has changed since.                                           *)
(***************************************************************************)
THEOREM PlannedIsDone == AgentsSpec => PlansComeTrue
<1> DEFINE Done ==
      \A c \in Clients, q \in Requests :
          Performs(c, q) /\ AsPlanned(c, q) =>
              LET p   == plan[c]
                  was == records[call[q].id].data
                  is  == records'[call[q].id].data IN
              /\ \A f \in DOMAIN p.after : is[f] = IF ClearedBy(p.action, f) THEN Missing ELSE p.after[f]
              /\ p.action.op = "update" => \A f \in Fields \ DOMAIN p.after : is[f] = was[f]
<1>1. AInv => Done
  <2> SUFFICES ASSUME AInv, NEW c \in Clients, NEW q \in Requests,
                      Performs(c, q), AsPlanned(c, q)
               PROVE  LET p   == plan[c]
                          was == records[call[q].id].data
                          is  == records'[call[q].id].data IN
                      /\ \A f \in DOMAIN p.after :
                            is[f] = IF ClearedBy(p.action, f) THEN Missing ELSE p.after[f]
                      /\ p.action.op = "update" =>
                            \A f \in Fields \ DOMAIN p.after : is[f] = was[f]
    OBVIOUS
  <2> DEFINE p  == plan[c]
             k  == call[q]
             is == records'[k.id].data
  <2>1. Shows(p) /\ CarriesOut(k, p)
    BY DEF Performs, AInv, PlansShow, CallsCarryOut
  <2>2. k \in Call /\ records \in [Ids -> Record \cup {NoRecord}]
    BY DEF AInv, IInv, Typed
  <2>3. ASSUME CreateRecordCommit(q)
        PROVE  p.action.op = "create" /\ is = k.after
    <3>1. k.step = "create"
      BY <2>3 DEF CreateRecordCommit
    <3>2. k.id \in Ids
      BY <3>1, <2>2 DEF Call
    <3>3. is = k.after
      BY <2>3, <3>2, <2>2 DEF CreateRecordCommit
    <3> QED BY <3>1, <3>3, <2>1 DEF CarriesOut
  <2>4. ASSUME UpdateRecordCommit(q)
        PROVE  /\ p.action.op = "update" /\ is = k.after
               /\ k.before = p.seen /\ records[k.id].data = k.before
    <3>1. k.step = "update"
      BY <2>4 DEF UpdateRecordCommit
    <3>2. k.id \in Ids
      BY <3>1, <2>2 DEF Call
    <3>3. records[k.id] # NoRecord
      BY <3>1 DEF AInv, IInv, CallsMayCommit, MayCommit
    <3>4. records[k.id] \in Record
      BY <3>2, <3>3, <2>2
    <3>5. is = k.after
      BY <2>4, <3>2, <3>4, <2>2 DEF UpdateRecordCommit, Record
    <3>6. p.action.op = "update"
      BY <3>1, <2>1 DEF CarriesOut
    <3> QED BY <3>5, <3>6 DEF AsPlanned, Undisturbed
  <2>5. DOMAIN p.after \subseteq Fields
    BY <2>1 DEF Shows
  <2> HIDE DEF p, k, is
  <2>6. ASSUME p.action.op = "create", is = k.after
        PROVE  \A f \in DOMAIN p.after :
                  is[f] = IF ClearedBy(p.action, f) THEN Missing ELSE p.after[f]
    BY <2>1, <2>5, <2>6 DEF Shows, CarriesOut, Created, ClearedBy
  <2>7. ASSUME p.action.op = "update", is = k.after, k.before = p.seen
        PROVE  /\ \A f \in DOMAIN p.after :
                    is[f] = IF ClearedBy(p.action, f) THEN Missing ELSE p.after[f]
               /\ \A f \in Fields \ DOMAIN p.after : is[f] = k.before[f]
    BY <2>1, <2>5, <2>7 DEF Shows, CarriesOut, Patched, ClearedBy
  <2>8. CASE CreateRecordCommit(q)
    BY <2>8, <2>3, <2>6 DEF p, k, is
  <2>9. CASE UpdateRecordCommit(q)
    BY <2>9, <2>4, <2>7 DEF p, k, is
  <2> QED BY <2>8, <2>9 DEF Performs
<1> HIDE DEF Done
<1>2. PlansComeTrue <=> [][Done]_agentVars
  BY DEF PlansComeTrue, Done
<1> QED BY <1>1, <1>2, AgentsInvariance, PTL
=============================================================================
