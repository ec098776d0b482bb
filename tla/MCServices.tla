----------------------------- MODULE MCServices -----------------------------
(***************************************************************************)
(* Three services: two with low ids and code, which share the privileges,  *)
(* and one that only receives, on which the first id seed falls.  One      *)
(* account more than these may be created.                                 *)
(***************************************************************************)
EXTENDS Services

MCAccounts == [s \in {0, 1, 3} |-> IF s = 1 THEN 1 ELSE 0]
MCCoded == {0, 1}
MCPrivileges ==
  [manager |-> 0, assign |-> [c \in Cores |-> c], delegator |-> 1, registrar |-> 0]
MCBlessings ==
  {[manager |-> 1, assign |-> [c \in Cores |-> c], delegator |-> 0, registrar |-> 1]}
MCQueues == {<<0, 1>>}
=============================================================================
