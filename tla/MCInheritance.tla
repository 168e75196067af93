--------------------------- MODULE MCInheritance ---------------------------
(* Instances of the inheritance contract for TLC. *)
EXTENDS Inheritance, TLC

CONSTANTS alice, bob, u1, u2, u3    \* emails and addresses

Heir(e, bp, k) == [email |-> e, code |-> e, allocation_bp |-> bp, priority |-> k]

\* Two heirs: even, and uneven in the other order of seniority.
Even == <<Heir(alice, 2, 1), Heir(bob, 2, 2)>>
Uneven == <<Heir(alice, 1, 2), Heir(bob, 3, 1)>>

OneRoster == {Even}
TwoRosters == {Even, Uneven}

Extra == {Heir(bob, 2, 2)}
Reweigh == {<<1, 3>>, <<4>>}

\* A plan starts with both guardians needed; the owner may relax it to either.
NoneAtCreation == {NoGuardians}
BothAtCreation == {[members |-> {u2, u3}, len |-> 2, threshold |-> 2]}
OneGuardianSet == {[members |-> {u2, u3}, len |-> 2, threshold |-> 1]}
Quorums == {{u2}, {u2, u3}}

DateSetup == {[conditions |-> {"Time"}, trigger_date |-> 2, inactivity_period |-> 0,
               oracle_address |-> NoAddress]}

AdminRole == {<<u1, "Admin">>, <<u2, "Admin">>}

Administered ==
    \/ paused \/ blacklisted # {} \/ next_plan_id > 2
    \/ \E u \in Users : "rejected" \in kyc[u]
    \/ roles # [u \in Users |-> IF u = Admin THEN {"Admin"} ELSE {}]
    \/ \E p \in Plans : Exists(p) /\ ~plan[p].is_lendable

\* Accounts are administered (a pause, sanctions, roles, a KYC rejection, a second
\* plan, lendability) on the first day, with at most one dispute and no arbitrator;
\* or else a plan lives through its transfers, triggers, disputes and verdicts.
OneBusiness ==
    Administered =>
        /\ now = 1 /\ next_dispute_id <= 1 /\ arbitrators = {}
        /\ deactivated = {} /\ triggered = {}
        /\ \A p \in Plans : config[p] = NoConfig /\ (Exists(p) => plan[p].owner = u1)

=============================================================================
