------------------------------ MODULE PlanFate ------------------------------
(***************************************************************************)
(* What the inheritance contract promises of a plan's fate to whoever      *)
(* triggers plans from outside, as the backend's watchdog does:            *)
(*                                                                         *)
(*   - a plan is born open, and trigger_inheritance succeeds while it is;  *)
(*   - a dispute bars one plan and a pause bars all of them, for a while;  *)
(*     a barred plan refuses trigger_inheritance, yet a condition its      *)
(*     owner set can still trigger it;                                     *)
(*   - a plan that is closed by its owner, or triggered by whatever way,   *)
(*     stays so for good, and no plan is both.                             *)
(***************************************************************************)

CONSTANT Plans

VARIABLE fate       \* what has become of each plan id

Fate == {"absent", "open", "barred", "closed", "triggered"}

Becomes(ps, to) == fate' = [p \in Plans |-> IF p \in ps THEN to ELSE fate[p]]

All(ps, from) == \A p \in ps : fate[p] \in from

Create(p) == All({p}, {"absent"}) /\ Becomes({p}, "open")

Bar(ps) == All(ps, {"open"}) /\ Becomes(ps, "barred")

Admit(ps) == All(ps, {"barred"}) /\ Becomes(ps, "open")

Close(p) == All({p}, {"open", "barred"}) /\ Becomes({p}, "closed")

Trigger(p) == All({p}, {"open", "barred"}) /\ Becomes({p}, "triggered")

FateInit == fate = [p \in Plans |-> "absent"]

FateNext ==
  \/ \E p \in Plans : Create(p) \/ Close(p) \/ Trigger(p)
  \/ \E ps \in SUBSET Plans : Bar(ps) \/ Admit(ps)

FateSpec == FateInit /\ [][FateNext]_fate

=============================================================================
