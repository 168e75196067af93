------------------------ MODULE InheritanceTriggers ------------------------
(***************************************************************************)
(* How a plan of the inheritance contract is triggered: the conditions its *)
(* owner sets, the admin, an emergency contact, a quorum of guardians; and *)
(* how a dispute freezes it (contracts/inheritance-contract/src/lib.rs,    *)
(* disputes.rs).                                                           *)
(***************************************************************************)
EXTENDS InheritancePlans

CONSTANTS                       \* inputs of the operations
    TriggerSetups,              \* conditions, date, period and oracle
    TriggerDates, InactivityPeriods, Oracles,
    GuardianSets, Signers, TrustedContacts, EmergencyContacts,
    Verdicts, Arbitrators

Condition == {"Time", "Inactivity", "Oracle", "Health", "Manual"}
OPEN == {"Filed", "UnderReview"}
DisputeStatus == OPEN \cup {"Resolved", "Rejected"}

TriggerSetup == [conditions : SUBSET Condition, trigger_date : Nat,
                 inactivity_period : Nat, oracle_address : Users \cup {NoAddress}]

TriggerConfig == [conditions : SUBSET Condition, trigger_date : Nat,
                  inactivity_period : Nat, last_activity : Nat,
                  oracle_address : Users \cup {NoAddress},
                  oracle_triggered : BOOLEAN, health_triggered : BOOLEAN]

EmergencyAccess == [trusted_contact : Users, activated_at : Nat]
Dispute == [plan_id : Plans, status : DisputeStatus]

ASSUME TriggerAssumption ==
    /\ NoConfig \notin TriggerConfig
    /\ NoAccess \notin EmergencyAccess
    /\ NoGuardians \notin GuardianConfig
    /\ NoDispute \notin Dispute
    /\ NoAddress \notin Users
    /\ TriggerSetups \subseteq TriggerSetup
    /\ TriggerDates \cup InactivityPeriods \subseteq Nat
    /\ GuardianSets \subseteq GuardianConfig
    /\ Signers \subseteq SUBSET Users
    /\ Oracles \cup TrustedContacts \cup EmergencyContacts \cup Arbitrators \subseteq Users
    /\ Verdicts \subseteq DisputeStatus

TriggerStep == UNCHANGED <<next_plan_id, user_plans, deactivated, vault, claimVars,
                           accountVars, emergencyVars, disputeVars, now>>

-----------------------------------------------------------------------------
(* Trigger conditions *)

\* check_trigger_conditions: any one of the listed conditions is enough.
ConditionsMet(p) ==
    config[p] # NoConfig /\
    LET c == config[p] IN
    \/ "Time" \in c.conditions /\ c.trigger_date > 0 /\ now >= c.trigger_date
    \/ /\ "Inactivity" \in c.conditions
       /\ c.inactivity_period > 0 /\ c.last_activity > 0
       /\ now >= c.last_activity + c.inactivity_period
    \/ "Oracle" \in c.conditions /\ c.oracle_triggered
    \/ "Health" \in c.conditions /\ c.health_triggered

EmptyConfig == [conditions |-> {}, trigger_date |-> 0, inactivity_period |-> 0,
                last_activity |-> now, oracle_address |-> NoAddress,
                oracle_triggered |-> FALSE, health_triggered |-> FALSE]

ConfigOrEmpty(p) == IF config[p] = NoConfig THEN EmptyConfig ELSE config[p]

SaveConfig(p, c) ==
    /\ config' = [config EXCEPT ![p] = c]
    /\ UNCHANGED <<plan, triggered>>
    /\ TriggerStep

set_trigger_conditions(u, p, s) ==
    /\ Owns(u, p)
    /\ p \notin triggered
    /\ "Oracle" \in s.conditions => s.oracle_address # NoAddress
    /\ SaveConfig(p, [EmptyConfig EXCEPT
                        !.conditions = s.conditions, !.trigger_date = s.trigger_date,
                        !.inactivity_period = s.inactivity_period,
                        !.oracle_address = s.oracle_address])

add_time_trigger(u, p, date) ==
    /\ Owns(u, p)
    /\ date # 0
    /\ p \notin triggered
    /\ SaveConfig(p, [ConfigOrEmpty(p) EXCEPT
                        !.conditions = @ \cup {"Time"}, !.trigger_date = date])

add_inactivity_trigger(u, p, period) ==
    /\ Owns(u, p)
    /\ period # 0
    /\ SaveConfig(p, [ConfigOrEmpty(p) EXCEPT
                        !.conditions = @ \cup {"Inactivity"}, !.inactivity_period = period,
                        !.last_activity = IF @ = 0 THEN now ELSE @])

add_oracle_trigger(u, p, oracle) ==
    /\ Owns(u, p)
    /\ SaveConfig(p, [ConfigOrEmpty(p) EXCEPT
                        !.conditions = @ \cup {"Oracle"}, !.oracle_address = oracle])

add_health_trigger(u, p, oracle) ==
    /\ Owns(u, p)
    /\ SaveConfig(p, [ConfigOrEmpty(p) EXCEPT
                        !.conditions = @ \cup {"Health"}, !.oracle_address = oracle])

record_activity(u, p) ==
    /\ Owns(u, p)
    /\ config[p] # NoConfig
    /\ SaveConfig(p, [config[p] EXCEPT !.last_activity = now])

submit_oracle_trigger(oracle, p) ==
    /\ config[p] # NoConfig /\ config[p].oracle_address = oracle
    /\ SaveConfig(p, [config[p] EXCEPT !.oracle_triggered = TRUE])

submit_health_trigger(oracle, p) ==
    /\ config[p] # NoConfig /\ config[p].oracle_address = oracle
    /\ SaveConfig(p, [config[p] EXCEPT !.health_triggered = TRUE])

-----------------------------------------------------------------------------
(* Triggering *)

Trigger(p) ==
    /\ triggered' = triggered \cup {p}
    /\ plan' = [plan EXCEPT ![p].is_lendable = FALSE]
    /\ UNCHANGED config
    /\ TriggerStep

\* Anyone may call it, paused or frozen; claims call it too.
auto_trigger_check(p) ==
    /\ ConditionsMet(p) /\ p \notin triggered
    /\ Exists(p) /\ plan[p].is_active
    /\ Trigger(p)

\* Mutant: a deactivated plan is not refused.
TriggerableInactive(p) == Exists(p) /\ p \notin frozen /\ p \notin triggered

Triggerable(p) == Exists(p) /\ plan[p].is_active /\ p \notin frozen /\ p \notin triggered

HasAccess(u, p) ==
    access[p] # NoAccess /\ ~AccessExpired(p) /\ access[p].trusted_contact = u

trigger_inheritance(u, p) ==
    /\ ~paused
    /\ u = Admin \/ Owns(u, p) \/ HasAccess(u, p)
    /\ Triggerable(p)
    /\ Trigger(p)

guardian_emergency_trigger(p, signers) ==
    /\ ~paused
    /\ guardians[p] # NoGuardians
    /\ Cardinality(signers \cap guardians[p].members) >= guardians[p].threshold
    /\ Triggerable(p)
    /\ Trigger(p)

freeze_loans(p) ==
    /\ ~paused /\ RequireAdmin
    /\ Exists(p) /\ p \in triggered
    /\ Trigger(p)

-----------------------------------------------------------------------------
(* Guardians and emergency access *)

EmergencyStep == UNCHANGED <<planVars, vault, claimVars, kyc, blacklisted, paused,
                             triggerVars, disputeVars, now>>

set_guardians(u, p, g) ==
    /\ Owns(u, p)
    /\ ValidGuardians(g)
    /\ guardians' = [guardians EXCEPT ![p] = g]
    /\ roles' = WithRole(g.members, "Guardian")
    /\ UNCHANGED <<approvals, access, contacts>>
    /\ EmergencyStep

add_emergency_contact(u, p, c) ==
    /\ Owns(u, p)
    /\ c \notin contacts[p]
    /\ Cardinality(contacts[p]) < MAX_EMERGENCY_CONTACTS
    /\ contacts' = [contacts EXCEPT ![p] = @ \cup {c}]
    /\ UNCHANGED <<roles, guardians, approvals, access>>
    /\ EmergencyStep

remove_emergency_contact(u, p, c) ==
    /\ Owns(u, p)
    /\ c \in contacts[p]
    /\ contacts' = [contacts EXCEPT ![p] = @ \ {c}]
    /\ UNCHANGED <<roles, guardians, approvals, access>>
    /\ EmergencyStep

Grant(p, c) == [AfterExpiry(p) EXCEPT ![p] = [trusted_contact |-> c, activated_at |-> now]]

activate_emergency_access(u, p, c) ==
    /\ Owns(u, p)
    /\ AfterExpiry(p)[p] = NoAccess
    /\ access' = Grant(p, c)
    /\ UNCHANGED <<roles, guardians, approvals, contacts>>
    /\ EmergencyStep

\* The approval that completes the quorum opens the access; approvals stay.
approve_emergency_access(g, p, c) ==
    /\ "Guardian" \in roles[g]
    /\ Exists(p)
    /\ AfterExpiry(p)[p] = NoAccess
    /\ guardians[p] # NoGuardians /\ g \in guardians[p].members
    /\ g \notin approvals[p][c]
    /\ approvals' = [approvals EXCEPT ![p][c] = @ \cup {g}]
    /\ access' = IF Cardinality(approvals[p][c] \cup {g}) >= guardians[p].threshold
                 THEN Grant(p, c) ELSE AfterExpiry(p)
    /\ UNCHANGED <<roles, guardians, contacts>>
    /\ EmergencyStep

deactivate_emergency_access(u, p) ==
    /\ Owns(u, p)
    /\ access' = [access EXCEPT ![p] = NoAccess]
    /\ UNCHANGED <<roles, guardians, approvals, contacts>>
    /\ EmergencyStep

\* get_emergency_access and is_emergency_active, called by anyone, drop an
\* expired record.
get_emergency_access(p) ==
    /\ AccessExpired(p)
    /\ access' = AfterExpiry(p)
    /\ UNCHANGED <<roles, guardians, approvals, contacts>>
    /\ EmergencyStep

-----------------------------------------------------------------------------
(* Disputes *)

DisputeStep == UNCHANGED <<planVars, vault, claimVars, accountVars, triggerVars,
                           emergencyVars, now>>

PlanDisputes(p) == {d \in DisputeIds : disputes[d] # NoDispute /\ disputes[d].plan_id = p}

Record(p) ==
    /\ Exists(p)
    /\ next_dispute_id \in DisputeIds
    /\ disputes' = [disputes EXCEPT ![next_dispute_id] = [plan_id |-> p, status |-> "Filed"]]
    /\ next_dispute_id' = next_dispute_id + 1

file_dispute(p) ==
    /\ ~paused
    /\ Record(p)
    /\ UNCHANGED <<frozen, arbitrators>>
    /\ DisputeStep

raise_dispute(p) ==
    /\ ~paused
    /\ Record(p)
    /\ frozen' = frozen \cup {p}
    /\ UNCHANGED arbitrators
    /\ DisputeStep

review_dispute(a, d, verdict, freeze) ==
    /\ ~paused
    /\ disputes[d] # NoDispute
    /\ a \in arbitrators
    /\ disputes[d].status \in OPEN
    /\ disputes' = [disputes EXCEPT ![d].status = verdict]
    /\ frozen' = IF freeze THEN frozen \cup {disputes[d].plan_id} ELSE frozen
    /\ UNCHANGED <<next_dispute_id, arbitrators>>
    /\ DisputeStep

\* Signed by the first arbitrator, or by the initialized admin if there is none.
resolve_dispute(p, verdict) ==
    /\ ~paused
    /\ PlanDisputes(p) # {}
    /\ disputes' = [d \in DisputeIds |->
                      IF d \in PlanDisputes(p) /\ disputes[d].status \in OPEN
                      THEN [disputes[d] EXCEPT !.status = verdict] ELSE disputes[d]]
    /\ frozen' = frozen \ {p}
    /\ UNCHANGED <<next_dispute_id, arbitrators>>
    /\ DisputeStep

unfreeze_plan(p) ==
    /\ RequireAdmin
    /\ frozen' = frozen \ {p}
    /\ UNCHANGED <<disputes, next_dispute_id, arbitrators>>
    /\ DisputeStep

add_arbitrator(a) ==
    /\ RequireAdmin
    /\ a \notin arbitrators
    /\ arbitrators' = arbitrators \cup {a}
    /\ UNCHANGED <<disputes, next_dispute_id, frozen>>
    /\ DisputeStep

remove_arbitrator(a) ==
    /\ RequireAdmin
    /\ arbitrators' = arbitrators \ {a}
    /\ UNCHANGED <<disputes, next_dispute_id, frozen>>
    /\ DisputeStep

-----------------------------------------------------------------------------
TriggerNext ==
    \E p \in Plans :
       \/ \E u \in Users :
             \/ \E s \in TriggerSetups : set_trigger_conditions(u, p, s)
             \/ \E x \in TriggerDates : add_time_trigger(u, p, x)
             \/ \E x \in InactivityPeriods : add_inactivity_trigger(u, p, x)
             \/ \E o \in Oracles : add_oracle_trigger(u, p, o) \/ add_health_trigger(u, p, o)
             \/ "activity" \in Switches /\ record_activity(u, p)
             \/ "trigger" \in Switches /\ trigger_inheritance(u, p)
       \/ \E o \in Oracles : submit_oracle_trigger(o, p) \/ submit_health_trigger(o, p)
       \/ auto_trigger_check(p)
       \/ \E signers \in Signers : guardian_emergency_trigger(p, signers)
       \/ "freeze_loans" \in Switches /\ freeze_loans(p)

EmergencyNext ==
    \E p \in Plans :
       \/ \E u \in Users :
             \/ \E g \in GuardianSets : set_guardians(u, p, g)
             \/ \E c \in EmergencyContacts :
                   add_emergency_contact(u, p, c) \/ remove_emergency_contact(u, p, c)
             \/ \E c \in TrustedContacts :
                   activate_emergency_access(u, p, c) \/ approve_emergency_access(u, p, c)
             \/ "revoke_access" \in Switches /\ deactivate_emergency_access(u, p)
       \/ get_emergency_access(p)

DisputeNext ==
    \/ \E p \in Plans :
          \/ "dispute" \in Switches /\ (file_dispute(p) \/ raise_dispute(p))
          \/ \E verdict \in {"Resolved", "Rejected"} : resolve_dispute(p, verdict)
          \/ "unfreeze" \in Switches /\ unfreeze_plan(p)
    \/ \E a \in Arbitrators :
          \/ \E d \in DisputeIds, verdict \in Verdicts, freeze \in BOOLEAN :
                review_dispute(a, d, verdict, freeze)
          \/ add_arbitrator(a) \/ remove_arbitrator(a)

=============================================================================
