---------------------------- MODULE MCPlanCache ----------------------------
(***************************************************************************)
(* One plan with one heir.  Clients ask for the heir's plans, some of them *)
(* misspelling the address, or for the statistics.                         *)
(***************************************************************************)
EXTENDS PlanCache

MCOwners == {"GOWNER"}

MCHeirLists == {{"GHEIR"}}

MCFilters == {"GOWNER", "gowner", "GHEIR", "gheir"}

MCNormalForm ==
  [f \in MCFilters |-> IF f \in {"GOWNER", "gowner"} THEN "gowner" ELSE "gheir"]

MCQueryMixes ==
  {{[owner |-> "absent", beneficiary |-> "GHEIR"],
    [owner |-> "absent", beneficiary |-> "gheir"]},
   {Statistics}}
=============================================================================
