------------------------------ MODULE MCRecords ------------------------------
(***************************************************************************)
(* Two records of a type with a plain field, a restricted field and an      *)
(* owner.  Both actors may create.  Boss may do everything, including the  *)
(* restricted field, and only boss archives.  Clerk may update what clerk  *)
(* owns, whoever made it, as long as its note is v1 also the restricted    *)
(* field, and any record whose restricted field is v1 or missing; clerk may*)
(* read the record but not the restricted field.                           *)
(***************************************************************************)
EXTENDS Agents, TLC

CONSTANTS clerk, boss, v1, v2

MCActors  == {clerk, boss}
MCDefault == [f \in Fields |-> IF f = "note" THEN v1 ELSE Missing]

Allow(action, scope, conditions, fields) ==
    [action |-> action, scope |-> scope, conditions |-> conditions, fields |-> fields]
When(f, values) == [field |-> f, values |-> values]

MCGrants ==
    (clerk :> {Allow("create", "tenant", {}, {}),
               Allow("read", "tenant", {}, {}),
               Allow("update", "own", {When("note", {v1})}, {"salary"}),
               Allow("update", "tenant", {When("salary", {v1})}, {})})
    @@ (boss :> {Allow("manage", "tenant", {}, {"salary"})})

MCPatches == {"owner_id" :> clerk @@ "note" :> v1, "owner_id" :> boss, "note" :> Null,
              "salary" :> Null, "note" :> v2 @@ "salary" :> v2}

MCProposals ==
    {[op |-> "create", payload |-> "note" :> v2 @@ "salary" :> v2, safety_level |-> 2],
     [op |-> "update", payload |-> "salary" :> Null, safety_level |-> 3],
     [op |-> "update", payload |-> "note" :> v2 @@ "salary" :> v2, safety_level |-> 4]}

Interchangeable == Permutations(Requests) \cup Permutations(Ids)
=============================================================================
