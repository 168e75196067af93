-------------------------- MODULE InheritanceWills --------------------------
(***************************************************************************)
(* Wills: the documents an owner records for a plan, their versions, the   *)
(* owner's and the witnesses' signatures, and finalization.                *)
(*                                                                         *)
(* A document is known by its hash, a signature by its bytes; expires_at   *)
(* comes with the signature and is not stored.  The time stamps of         *)
(* signatures and of finalization are not kept: only views read them.      *)
(***************************************************************************)
EXTENDS Inheritance

CONSTANTS
    NoWill, WillHashes, Signatures,
    MaxVersions,                    \* bound: will versions per plan
    Witnesses, Expiries, WillRosters    \* inputs

ASSUME WillAssumption ==
    /\ MaxVersions \in Nat
    /\ NoWill \notin WillHashes
    /\ Witnesses \subseteq Users
    /\ Expiries \subseteq Nat
    /\ WillRosters \subseteq Seq([email : Emails, allocation_bp : Nat])

VARIABLES
    will_hash,                      \* Wh(plan_id)
    vault_will,                     \* Vw(plan_id)
    verification,                   \* Bv(plan_id), a set for Option<bool>
    versions,                       \* Wv(plan_id, 1..), with Wf; Wvc is its length
    active_version,                 \* Awv(plan_id), 0 if none
    will_signature,                 \* Ws(plan_id): the document it names
    used_signatures,                \* Su
    witnesses,                      \* Ww(plan_id)
    witness_signatures              \* Wsig(plan_id, witness)

willVars == <<will_hash, vault_will, verification, versions, active_version,
              will_signature, used_signatures, witnesses, witness_signatures>>

WillVersion == [will_hash : WillHashes, is_active : BOOLEAN, finalized : BOOLEAN]

WillTypeOK ==
    /\ will_hash \in [Plans -> WillHashes \cup {NoWill}]
    /\ vault_will \in [Plans -> WillHashes \cup {NoWill}]
    /\ verification \in [Plans -> SUBSET BOOLEAN]
    /\ versions \in [Plans -> Seq(WillVersion)]
    /\ active_version \in [Plans -> 0..MaxVersions]
    /\ will_signature \in [Plans -> WillHashes \cup {NoWill}]
    /\ used_signatures \subseteq Signatures
    /\ witnesses \in [Plans -> SUBSET Users]
    /\ witness_signatures \in [Plans -> SUBSET Users]

WillInit ==
    /\ will_hash = [p \in Plans |-> NoWill]
    /\ vault_will = [p \in Plans |-> NoWill]
    /\ verification = [p \in Plans |-> {}]
    /\ versions = [p \in Plans |-> <<>>]
    /\ active_version = [p \in Plans |-> 0]
    /\ will_signature = [p \in Plans |-> NoWill]
    /\ used_signatures = {}
    /\ witnesses = [p \in Plans |-> {}]
    /\ witness_signatures = [p \in Plans |-> {}]

-----------------------------------------------------------------------------
WillsOnly == UNCHANGED vars

store_will_hash(u, p, h) ==
    /\ Owns(u, p)
    /\ will_hash[p] = NoWill
    /\ will_hash' = [will_hash EXCEPT ![p] = h]
    /\ UNCHANGED <<vault_will, verification, versions, active_version, will_signature,
                   used_signatures, witnesses, witness_signatures>>
    /\ WillsOnly

link_will_to_vault(u, p, h) ==
    /\ Owns(u, p)
    /\ vault_will[p] = NoWill
    /\ vault_will' = [vault_will EXCEPT ![p] = h]
    /\ UNCHANGED <<will_hash, verification, versions, active_version, will_signature,
                   used_signatures, witnesses, witness_signatures>>
    /\ WillsOnly

\* Anyone may ask.  Each line of the will must be some heir's, which for
\* equally many lines is not yet a one-to-one match.
verify_beneficiaries(p, lines) ==
    LET heirs == plan[p].beneficiaries
        status == /\ Len(lines) = Len(heirs)
                  /\ \A i \in DOMAIN lines : \E j \in DOMAIN heirs :
                        /\ heirs[j].email = lines[i].email
                        /\ heirs[j].allocation_bp = lines[i].allocation_bp
    IN  /\ Exists(p)
        /\ verification' = [verification EXCEPT ![p] = {status}]
        /\ UNCHANGED <<will_hash, vault_will, versions, active_version, will_signature,
                       used_signatures, witnesses, witness_signatures>>
        /\ WillsOnly

\* Mutated: any version that is not finalized may be superseded.
SupersedableAlways(p) == TRUE

\* The active version, if there is one, is not finalized.
Supersedable(p) ==
    active_version[p] # 0 => ~versions[p][active_version[p]].finalized

\* Mutated: the previous version stays active.
AppendedOnly(p, h) ==
    Append(versions[p], [will_hash |-> h, is_active |-> TRUE, finalized |-> FALSE])

\* The new version, with the active one deactivated.
Superseded(p, h) ==
    Append([v \in DOMAIN versions[p] |->
              IF v = active_version[p] THEN [versions[p][v] EXCEPT !.is_active = FALSE]
                                       ELSE versions[p][v]],
           [will_hash |-> h, is_active |-> TRUE, finalized |-> FALSE])

create_will_version(u, p, h) ==
    /\ Owns(u, p)
    /\ Len(versions[p]) < MaxVersions
    /\ Supersedable(p)
    /\ versions' = [versions EXCEPT ![p] = Superseded(p, h)]
    /\ active_version' = [active_version EXCEPT ![p] = Len(versions[p]) + 1]
    /\ vault_will' = [vault_will EXCEPT ![p] = h]
    /\ UNCHANGED <<will_hash, verification, will_signature, used_signatures,
                   witnesses, witness_signatures>>
    /\ WillsOnly

\* The signature is marked as used whatever plan and document it is for.
sign_will(u, p, h, signature, expires_at) ==
    /\ Owns(u, p)
    /\ now <= expires_at
    /\ signature \notin used_signatures
    /\ used_signatures' = used_signatures \cup {signature}
    /\ will_signature' = [will_signature EXCEPT ![p] = h]
    /\ UNCHANGED <<will_hash, vault_will, verification, versions, active_version,
                   witnesses, witness_signatures>>
    /\ WillsOnly

\* Some document of the plan must have been signed, by the owner of then,
\* and every witness of now must have signed once.
finalize_will(u, p, v) ==
    /\ Owns(u, p)
    /\ v \in DOMAIN versions[p]
    /\ ~versions[p][v].finalized
    /\ will_signature[p] # NoWill
    /\ witnesses[p] \subseteq witness_signatures[p]
    /\ versions' = [versions EXCEPT ![p][v].finalized = TRUE]
    /\ UNCHANGED <<will_hash, vault_will, verification, active_version, will_signature,
                   used_signatures, witnesses, witness_signatures>>
    /\ WillsOnly

add_witness(u, p, w) ==
    /\ Owns(u, p)
    /\ w \notin witnesses[p]
    /\ witnesses' = [witnesses EXCEPT ![p] = @ \cup {w}]
    /\ UNCHANGED <<will_hash, vault_will, verification, versions, active_version,
                   will_signature, used_signatures, witness_signatures>>
    /\ WillsOnly

sign_as_witness(w, p, signature, expires_at) ==
    /\ Exists(p)
    /\ w \in witnesses[p]
    /\ now <= expires_at
    /\ signature \notin used_signatures
    /\ w \notin witness_signatures[p]
    /\ used_signatures' = used_signatures \cup {signature}
    /\ witness_signatures' = [witness_signatures EXCEPT ![p] = @ \cup {w}]
    /\ UNCHANGED <<will_hash, vault_will, verification, versions, active_version,
                   will_signature, witnesses>>
    /\ WillsOnly

WillNext ==
    \E p \in Plans :
        \/ \E lines \in WillRosters : verify_beneficiaries(p, lines)
        \/ \E u \in Users :
              \/ \E h \in WillHashes :
                    \/ store_will_hash(u, p, h)
                    \/ link_will_to_vault(u, p, h)
                    \/ create_will_version(u, p, h)
                    \/ \E s \in Signatures, e \in Expiries : sign_will(u, p, h, s, e)
              \/ \E v \in 1..MaxVersions : finalize_will(u, p, v)
              \/ \E w \in Witnesses : add_witness(u, p, w)
        \/ \E w \in Witnesses, s \in Signatures, e \in Expiries : sign_as_witness(w, p, s, e)

-----------------------------------------------------------------------------
\* A plan with will versions has exactly one active version, the one Awv
\* names, and the vault is linked to that version's document, though three
\* operations and successive owners write these records.
VaultWillIsActiveVersion ==
    \A p \in Plans : versions[p] # <<>> =>
        /\ {v \in DOMAIN versions[p] : versions[p][v].is_active} = {active_version[p]}
        /\ vault_will[p] = versions[p][active_version[p]].will_hash

\* Once the version in force is finalized the vault's will is settled: no
\* later version, link, signature, finalization or owner takes its place.
FinalizedWillStands ==
    [][\A p \in Plans :
          active_version[p] # 0 /\ versions[p][active_version[p]].finalized =>
             /\ active_version'[p] = active_version[p]
             /\ vault_will'[p] = vault_will[p]
             /\ versions'[p][active_version[p]] = versions[p][active_version[p]]]_willVars

=============================================================================
