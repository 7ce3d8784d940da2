----------------------------- MODULE MCAccounts -----------------------------
(***************************************************************************)
(* Finite instances of Accounts: ids are used up, so no further bound is   *)
(* needed.  Slots, sessions and the users other than the founder are       *)
(* interchangeable.  A new role lets its holders manage users, or roles.    *)
(***************************************************************************)
EXTENDS Accounts, TLC

Granting(permissions) ==
    [permission \in Permissions |-> IF permission \in permissions THEN Principals ELSE {}]

MCRoleGrants == {Granting({"configure users", "read users"}), Granting({"configure roles"})}

Interchangeable ==
    Permutations(Requests) \cup Permutations(SessionIds)
        \cup Permutations(KeyIds) \cup Permutations(Users \ {Founder})
        \cup Permutations(Services)
=============================================================================
