---------------------------- MODULE MigrationPlan ----------------------------
(***************************************************************************)
(* The planner of migration.rs: what becomes of the object types and       *)
(* fields of a tenant when a template is selected as its new system.  Pure *)
(* operators; old is the sequence of the tenant's object types, counts the *)
(* number of active records of each type, and target the sequence of       *)
(* object definitions of the template.                                     *)
(***************************************************************************)
EXTENDS Catalog

Conflict(kind, object, key) == [kind |-> kind, object |-> object, field |-> key]

\* The mapping of one field; None where a side is missing.
Mapping(source, target, status) == [source |-> source, target |-> target, status |-> status]

Keys(objects) == {objects[i].key : i \in DOMAIN objects}
ByKey(objects, key) == objects[CHOOSE i \in DOMAIN objects : objects[i].key = key]
CountOf(counts, key) == IF key \in DOMAIN counts THEN counts[key] ELSE 0

\* The elements of a sequence that are in T, in their order
Those(seq, T) ==
    LET those[n \in 0..Len(seq)] ==
            IF n = 0 THEN <<>>
            ELSE IF seq[n] \in T THEN Append(those[n - 1], seq[n]) ELSE those[n - 1]
    IN  those[Len(seq)]

\* Sum over a sequence of numbers
Total(numbers) == SumFunction(numbers)

-----------------------------------------------------------------------------
(* map_fields: the fields of the template in its order, then the old       *)
(* fields it does not have.                                                *)

\* Mutant: a required field without a source is not looked at.
RequiredIgnored(source, tf) ==
    IF ~HasField(source, tf.key) THEN "added_in_target"
    ELSE IF field(source, tf.key).type = tf.type THEN "mapped" ELSE "type_mismatch"

TargetStatus(source, tf) ==
    IF HasField(source, tf.key)
    THEN IF field(source, tf.key).type = tf.type THEN "mapped" ELSE "type_mismatch"
    ELSE IF tf.required THEN "missing_required" ELSE "added_in_target"

\* Mutant: only the first field that is dropped is reported.
FirstDropped(source, fields) ==
    LET dropped == Those(source.fields,
                         {sf \in ToSet(source.fields) : sf.key \notin FieldKeys(fields)}) IN
    IF dropped = <<>> THEN <<>> ELSE <<Head(dropped)>>

DroppedFields(source, fields) ==
    Those(source.fields, {sf \in ToSet(source.fields) : sf.key \notin FieldKeys(fields)})

map_fields(source, fields) ==
    [i \in DOMAIN fields |->
        LET tf == fields[i] IN
        Mapping(IF HasField(source, tf.key) THEN tf.key ELSE None, tf.key,
                TargetStatus(source, tf))]
    \o [i \in DOMAIN DroppedFields(source, fields) |->
        Mapping(DroppedFields(source, fields)[i].key, None, "dropped")]

\* The conflicts map_fields appends: all but fields that fit or are optional.
FieldConflicts(object, mappings) ==
    LET bad == Those(mappings, {m \in ToSet(mappings) :
                                   m.status \notin {"mapped", "added_in_target"}}) IN
        [i \in DOMAIN bad |->
            Conflict(bad[i].status, object,
                     IF bad[i].target # None THEN bad[i].target ELSE bad[i].source)]

-----------------------------------------------------------------------------
(* build_plan *)

\* A template object: matched to an old one of the same key, or new.
TargetMapping(old, counts, def) ==
    IF def.key \in Keys(old)
    THEN [source |-> def.key, target |-> def.key, records |-> CountOf(counts, def.key),
          fields |-> map_fields(ByKey(old, def.key), def.fields)]
    ELSE [source |-> None, target |-> def.key, records |-> 0,
          fields |-> [i \in DOMAIN def.fields |->
                         Mapping(None, def.fields[i].key, "added_in_target")]]

\* An old object the template does not have: its data stays.
SourceMapping(counts, source) ==
    [source |-> source.key, target |-> None, records |-> CountOf(counts, source.key),
     fields |-> [i \in DOMAIN source.fields |->
                    Mapping(source.fields[i].key, None, "dropped")]]

Unmapped(old, target) == Those(old, {o \in ToSet(old) : o.key \notin Keys(target)})

\* snapshot_from_objects and target_snapshot
Snapshot(objects, counts) ==
    [i \in DOMAIN objects |->
        [key |-> objects[i].key,
         fields |-> [j \in DOMAIN objects[i].fields |-> objects[i].fields[j].key],
         records |-> CountOf(counts, objects[i].key)]]

\* Only the objects the tenant has bring records along.
target_snapshot(target, old, counts) ==
    Snapshot(target, [key \in DOMAIN counts \cap Keys(old) |-> counts[key]])

total_records(snapshot) == Total([i \in DOMAIN snapshot |-> snapshot[i].records])

ObjectMappings(old, counts, target) ==
    [i \in DOMAIN target |-> TargetMapping(old, counts, target[i])]
    \o [i \in DOMAIN Unmapped(old, target) |->
           SourceMapping(counts, Unmapped(old, target)[i])]

\* In the order in which they are found: field conflicts of matched objects,
\* then the objects without a counterpart.
PlanConflicts(old, target) ==
    FlattenSeq([i \in DOMAIN target |->
        IF target[i].key \in Keys(old)
        THEN FieldConflicts(target[i].key,
                            map_fields(ByKey(old, target[i].key), target[i].fields))
        ELSE <<>>])
    \o [i \in DOMAIN Unmapped(old, target) |->
           Conflict("unmapped_object", Unmapped(old, target)[i].key, None)]

Summary(objects, targets, mapped, records, mappable, conflicts) ==
    [source_objects |-> objects, target_objects |-> targets, mapped_objects |-> mapped,
     source_records |-> records, records_mappable |-> mappable,
     records_unmapped |-> records - mappable, conflicts |-> conflicts]

build_plan(old, counts, target) ==
    LET mappings == ObjectMappings(old, counts, target)
        matched  == Those(mappings,
                          {m \in ToSet(mappings) : m.source # None /\ m.target # None})
        conflicts == PlanConflicts(old, target)
    IN  [source_system   |-> Snapshot(old, counts),
         target_system   |-> target_snapshot(target, old, counts),
         object_mappings |-> mappings,
         conflicts       |-> conflicts,
         summary |-> Summary(Len(old), Len(target), Len(matched),
                             total_records(Snapshot(old, counts)),
                             Total([i \in DOMAIN matched |-> matched[i].records]),
                             Len(conflicts))]

old_only_summary(snapshot) ==
    Summary(Len(snapshot), 0, 0, total_records(snapshot), 0, 0)

\* for is "old" or "selected"; selected the definitions of the selected
\* template, or None.
build_report(for, old, counts, selected) ==
    IF for = "selected" /\ selected # None
    THEN LET plan == build_plan(old, counts, selected) IN
         [for_system |-> for, source_system |-> plan.source_system,
          target_system |-> plan.target_system, plan |-> plan, summary |-> plan.summary]
    ELSE [for_system |-> for, source_system |-> Snapshot(old, counts),
          target_system |-> None, plan |-> None,
          summary |-> old_only_summary(Snapshot(old, counts))]

-----------------------------------------------------------------------------
(* What a plan promises, without the order in which it is computed *)

\* The pairs <<object, field>> of a sequence of definitions
AllFields(objects) ==
    UNION {{<<objects[i].key, key>> : key \in FieldKeys(objects[i].fields)} :
              i \in DOMAIN objects}

\* The fields of all mappings on one side, one per mapping
MappedFields(mappings, side(_), of(_)) ==
    FlattenSeq([i \in DOMAIN mappings |->
        LET ms == Those(mappings[i].fields,
                        {m \in ToSet(mappings[i].fields) : of(m) # None}) IN
        [j \in DOMAIN ms |-> <<side(mappings[i]), of(ms[j])>>]])

\* Exactly the members of S, each once
ExactlyOnce(seq, S) == ToSet(seq) = S /\ Len(seq) = Cardinality(S)

(***************************************************************************)
(* Nothing of the old system is lost sight of and nothing of the new one   *)
(* is forgotten: each old field is the source of exactly one mapping and   *)
(* each template field the target of exactly one.                          *)
(***************************************************************************)
EveryFieldAccountedFor(plan, old, target) ==
    /\ ExactlyOnce(MappedFields(plan.object_mappings, LAMBDA m : m.source,
                                LAMBDA m : m.source), AllFields(old))
    /\ ExactlyOnce(MappedFields(plan.object_mappings, LAMBDA m : m.target,
                                LAMBDA m : m.target), AllFields(target))

\* What stands in the way of importing the old data as it is
Obstacles(old, target) ==
    {Conflict("unmapped_object", o, None) : o \in Keys(old) \ Keys(target)}
    \cup UNION {
        LET before == ByKey(old, o)  after == ByKey(target, o) IN
        {Conflict("dropped", o, f) : f \in FieldKeys(before.fields) \ FieldKeys(after.fields)}
        \cup {Conflict("missing_required", o, f) :
                f \in {g \in FieldKeys(after.fields) \ FieldKeys(before.fields) :
                          field(after, g).required}}
        \cup {Conflict("type_mismatch", o, f) :
                f \in {g \in FieldKeys(after.fields) \cap FieldKeys(before.fields) :
                          field(after, g).type # field(before, g).type}} :
        o \in Keys(old) \cap Keys(target)}

(***************************************************************************)
(* The conflicts are exactly the obstacles, each reported once and counted.*)
(***************************************************************************)
EveryObstacleReported(plan, old, target) ==
    /\ ExactlyOnce(plan.conflicts, Obstacles(old, target))
    /\ plan.summary.conflicts = Cardinality(Obstacles(old, target))

(***************************************************************************)
(* The totals add up: every old record is on exactly one side, and the     *)
(* projected target system holds what can be mapped.                       *)
(***************************************************************************)
TotalsAgree(plan) ==
    LET staying == Those(plan.object_mappings,
                         {m \in ToSet(plan.object_mappings) : m.target = None}) IN
    /\ plan.summary.records_unmapped = Total([i \in DOMAIN staying |-> staying[i].records])
    /\ plan.summary.records_mappable = total_records(plan.target_system)
    /\ plan.summary.source_objects = plan.summary.mapped_objects + Len(staying)
=============================================================================
