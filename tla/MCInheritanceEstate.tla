------------------------ MODULE MCInheritanceEstate ------------------------
(* Instances of the inheritance contract with its estate desks for TLC. *)
EXTENDS InheritanceEstate, TLC

CONSTANTS alice, bob, u1, u2, l1, l2, usd, h1, h2, s1, s2, c1    \* emails and addresses

Heir(e, bp, k) == [email |-> e, code |-> e, allocation_bp |-> bp, priority |-> k]
Even == {<<Heir(alice, 2, 1), Heir(bob, 2, 2)>>}

NoneAtCreation == {NoGuardians}

Policy(compound, fee) ==
    [auto_compound |-> compound, min_harvest_amount |-> 1,
     harvest_interval |-> 1, performance_fee_bp |-> fee]
Policies == {Policy(FALSE, 2)}

WillLine(e) == [email |-> e, allocation_bp |-> 2]
WillLines == {<<WillLine(alice), WillLine(bob)>>, <<WillLine(bob)>>}

AliceIsSecond == {<<u2, alice>>}

\* What the owner's arrangements are about: beside each desk's own records,
\* yield comes with changes of the plan's funds, messages with its trigger.
DesksInUse ==
    (IF \/ lending_contract # NoAddress \/ relayers # {}
        \/ \E p \in Plans, l \in Pools : pool_position[l][p] # NoPosition
        \/ \E p \in Plans : \/ Exists(p) /\ (plan[p].earn_yield \/ vault[p] \notin CreateAmounts)
                            \/ attempts[p][u1].count > 0
     THEN {"yield"} ELSE {}) \cup
    (IF \E p \in Plans : will_hash[p] # NoWill \/ verification[p] # {}
     THEN {"documents"} ELSE {}) \cup
    (IF \E p \in Plans : vault_will[p] # NoWill \/ will_signature[p] # NoWill \/ witnesses[p] # {}
     THEN {"wills"} ELSE {}) \cup
    (IF next_message_id > 0 \/ triggered # {} \/ \E p \in Plans : message_key[p] > 0
     THEN {"messages"} ELSE {}) \cup
    (IF acknowledgment_required # {} \/ \E p \in Plans : notified[p] # {}
     THEN {"notices"} ELSE {})

CONSTANT MaxDesks       \* bound: desks in use at once

\* Lending contracts are interchangeable: no constant names one of them.
PoolSymmetry == Permutations(Pools)

\* A position the lending contract's admin registered or boosted.
Meddled(p) ==
    \E l \in Pools : /\ pool_position[l][p] # NoPosition
                     /\ \/ pool_position[l][p].principal \in LenderPrincipals
                        \/ pool_position[l][p].boost_bps > 0

\* At most one of these happens to a plan: it has positions in two lending
\* contracts, its heirs claim while there is one, or an admin of a lending
\* contract meddles with it.  Such a plan has its first owner, all its funds
\* and no relayer, and is not paused.  KYC verdicts after the first approval are left to the
\* other instances.
FewDesks ==
    /\ Cardinality(DesksInUse) <= MaxDesks
    /\ \A p \in Plans :
          LET paired == \A l \in Pools : pool_position[l][p] # NoPosition
              paying == attempts[p][u1].count > 0
          IN  /\ ~(paired /\ paying) /\ ~(Meddled(p) /\ (paired \/ paying))
              /\ paired \/ paying \/ Meddled(p) =>
                    /\ relayers = {}
                    /\ Exists(p) => plan[p].owner = u1 /\ vault[p] \in CreateAmounts
                    /\ yield_state[p] # NoYield => ~yield_state[p].paused
    /\ \A u \in Users : "rejected" \notin kyc[u]

=============================================================================
