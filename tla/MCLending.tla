----------------------------- MODULE MCLending -----------------------------
(* Instances of the lending contract for TLC. *)
EXTENDS Lending, TLC

\* Users are interchangeable: no constant names one of them.
UserSymmetry == Permutations(Users)

\* A two-slope curve with its kink inside the reachable utilizations.
KinkedModel == [base_rate_bps |-> 1, optimal_utilization_bps |-> 4,
                slope1_bps |-> 2, slope2_bps |-> 9, reserve_factor_bps |-> 1]
OneModel == {KinkedModel}

CONSTANT MaxChangedSettings     \* bound: settings off their initial value at once

Tuned == {f \in DOMAIN settings \ {"supported", "whitelisted"} :
            settings[f] # InitialSettings[f]}

\* Admins may tune any of the settings, but only a few at a time, and only
\* while one asset has a pool.
FewChangedSettings ==
    /\ Cardinality(Tuned) <= MaxChangedSettings
    /\ Tuned # {} => settings.supported = {PrimaryAsset}

=============================================================================
