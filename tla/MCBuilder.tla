------------------------------ MODULE MCBuilder ------------------------------
(***************************************************************************)
(* One custom type with a workflow: as a draft in a sound version and in   *)
(* one with a reference to a type nobody defined, a second draft over a    *)
(* shipped key, and a direct definition that replaces a shipped type by    *)
(* one its sample records do not fit.                                      *)
(***************************************************************************)
EXTENDS Builder, TLC

AssetFlow ==
    Workflow("asset_approval", "asset", "new", {"new", "approved"},
             {Tr("approve", "new", "approved", TRUE)})

Draft(key, workflow, fields) == Template(key, workflow, fields)

MCDefinitions ==
    [asset     |-> Draft("asset", AssetFlow, <<Req(F("name", "text")), Ref("parent", "asset")>>),
     asset_bad |-> Draft("asset", AssetFlow, <<F("name", "text"), Ref("owner", "crew")>>),
     budget_ext |-> Draft("budget", None, <<Req(F("name", "text")), Ref("asset_id", "asset")>>),
     crew_api  |-> Draft("crew", None, <<F("name", "text"), Ref("base", "site")>>),
     account_api |-> Draft("account", None, <<Req(F("code", "text"))>>)]

MCDirect == {"crew_api", "account_api"}

Interchangeable == Permutations(Slots) \cup Permutations(DraftIds)
=============================================================================
