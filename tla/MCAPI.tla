------------------------------- MODULE MCAPI --------------------------------
(***************************************************************************)
(* Requests are members of 1..3; the third is made with another key.       *)
(***************************************************************************)
EXTENDS API, TLC

MCKeyOf == [r \in Requests |-> IF r = 3 THEN "other" ELSE "dev"]

\* Ids are only compared.
TenantSymmetry == Permutations(Tenants)
=============================================================================
