------------------------- MODULE InheritanceMessages -------------------------
(***************************************************************************)
(* Legacy messages, which an owner leaves for the heirs of a plan and the  *)
(* contract unseals at a date or when the plan is triggered, and the       *)
(* notices by which heirs are told of, and acknowledge, their listing.     *)
(*                                                                         *)
(* A message's content is its hash; the reference to the key it was        *)
(* encrypted with is the rotation in use when it was written, 0 for one    *)
(* the caller supplied.  access_legacy_message compares the hash of the    *)
(* caller's address with the heirs' hashed emails: KnownAs says which      *)
(* addresses the heirs were registered under.                              *)
(***************************************************************************)
EXTENDS Inheritance

CONSTANTS
    NoMessage, Contents,
    KnownAs,                        \* pairs of an address and an email
    MaxMessages,                    \* bound: messages ever created
    MaxKeys,                        \* bound: key rotations per plan
    UnlockTimes, NoticeIndices, Requirements    \* inputs

MessageIds == 0..(MaxMessages - 1)

ASSUME MessageAssumption ==
    /\ {MaxMessages, MaxKeys} \cup UnlockTimes \cup NoticeIndices \subseteq Nat
    /\ KnownAs \subseteq Users \X Emails
    /\ Requirements \subseteq BOOLEAN

VARIABLES
    message,                        \* Lm(message_id)
    vault_messages,                 \* Vm(vault_id)
    next_message_id,                \* Nmi
    message_key,                    \* vk_cur(vault_id)
    notified,                       \* Bn(plan_id, index)
    acknowledged,                   \* Ba(plan_id, index)
    acknowledgment_required         \* Ra(plan_id)

messageVars == <<message, vault_messages, next_message_id, message_key>>
noticeVars == <<notified, acknowledged, acknowledgment_required>>

LegacyMessage == [vault_id : Plans, message_hash : Contents, creator : Users,
                  key_version : 0..MaxKeys, unlock_timestamp : Nat,
                  is_unlocked : BOOLEAN, is_finalized : BOOLEAN]

ASSUME MessageMarkAssumption == NoMessage \notin LegacyMessage

MessageTypeOK ==
    /\ message \in [MessageIds -> LegacyMessage \cup {NoMessage}]
    /\ vault_messages \in [Plans -> Seq(MessageIds)]
    /\ next_message_id \in 0..MaxMessages
    /\ message_key \in [Plans -> 0..MaxKeys]
    /\ notified \in [Plans -> SUBSET (1..MAX_BENEFICIARIES)]
    /\ acknowledged \in [Plans -> SUBSET (1..MAX_BENEFICIARIES)]
    /\ acknowledgment_required \subseteq Plans

MessageInit ==
    /\ message = [m \in MessageIds |-> NoMessage]
    /\ vault_messages = [p \in Plans |-> <<>>]
    /\ next_message_id = 0
    /\ message_key = [p \in Plans |-> 0]
    /\ notified = [p \in Plans |-> {}]
    /\ acknowledged = [p \in Plans |-> {}]
    /\ acknowledgment_required = {}

-----------------------------------------------------------------------------
(* Messages *)

MessagesOnly == UNCHANGED <<vars, noticeVars>>

rotate_vault_message_key(u, p) ==
    /\ Owns(u, p)
    /\ message_key[p] < MaxKeys
    /\ message_key' = [message_key EXCEPT ![p] = @ + 1]
    /\ UNCHANGED <<message, vault_messages, next_message_id>>
    /\ MessagesOnly

WriteMessage(u, p, content, unlock, key) ==
    /\ Owns(u, p)
    /\ unlock > now
    /\ next_message_id \in MessageIds
    /\ message' = [message EXCEPT ![next_message_id] =
          [vault_id |-> p, message_hash |-> content, creator |-> u, key_version |-> key,
           unlock_timestamp |-> unlock, is_unlocked |-> FALSE, is_finalized |-> FALSE]]
    /\ vault_messages' = [vault_messages EXCEPT ![p] = Append(@, next_message_id)]
    /\ next_message_id' = next_message_id + 1
    /\ UNCHANGED message_key
    /\ MessagesOnly

\* With an empty key_reference the vault's current key is used.  The creator
\* is compared with the owner, its authorization not required.
create_legacy_message(u, p, content, unlock) ==
    \E key \in {0, message_key[p]} : WriteMessage(u, p, content, unlock, key)

\* One accepted entry; it never looks up the vault's key.
batch_create_messages(u, p, content, unlock) == WriteMessage(u, p, content, unlock, 0)

\* What the creator, who may have sold the plan since, does to a message.
OwnMessage(u, m) == message[m] # NoMessage /\ message[m].creator = u

\* Mutated: an opened message can be sealed again.
EditableWhenOpen(u, m) == OwnMessage(u, m) /\ ~message[m].is_finalized

Editable(u, m) ==
    OwnMessage(u, m) /\ ~message[m].is_finalized /\ ~message[m].is_unlocked

\* The new date is not compared with the present.
update_legacy_message(u, m, content, unlock) ==
    /\ Editable(u, m)
    /\ message' = [message EXCEPT ![m].message_hash = content,
                                  ![m].unlock_timestamp = unlock,
                                  ![m].key_version = 0]
    /\ UNCHANGED <<vault_messages, next_message_id, message_key>>
    /\ MessagesOnly

finalize_legacy_message(u, m) ==
    /\ OwnMessage(u, m) /\ ~message[m].is_finalized
    /\ message' = [message EXCEPT ![m].is_finalized = TRUE]
    /\ UNCHANGED <<vault_messages, next_message_id, message_key>>
    /\ MessagesOnly

\* The list but for one message.
Without(ids, m) ==
    LET kept[n \in 0..Len(ids)] ==
          IF n = 0 THEN <<>>
          ELSE IF ids[n] = m THEN kept[n - 1] ELSE Append(kept[n - 1], ids[n])
    IN  kept[Len(ids)]

\* An opened message may be deleted, a finalized one not.
delete_legacy_message(u, m) ==
    /\ OwnMessage(u, m) /\ ~message[m].is_finalized
    /\ message' = [message EXCEPT ![m] = NoMessage]
    /\ vault_messages' = [vault_messages EXCEPT ![message[m].vault_id] = Without(@, m)]
    /\ UNCHANGED <<next_message_id, message_key>>
    /\ MessagesOnly

\* The date has come, or else the plan is triggered.
Due(m) == now >= message[m].unlock_timestamp \/ message[m].vault_id \in triggered

access_legacy_message(u, m) ==
    /\ message[m] # NoMessage
    /\ message[m].is_unlocked \/ Due(m)
    /\ LET heirs == plan[message[m].vault_id].beneficiaries IN
       \E i \in DOMAIN heirs : <<u, heirs[i].email>> \in KnownAs
    /\ message' = [message EXCEPT ![m].is_unlocked = TRUE]
    /\ UNCHANGED <<vault_messages, next_message_id, message_key>>
    /\ MessagesOnly

unlock_messages_on_inheritance(p) ==
    /\ p \in triggered
    /\ message' = [m \in MessageIds |->
          IF message[m] # NoMessage /\ m \in Range(vault_messages[p])
          THEN [message[m] EXCEPT !.is_unlocked = TRUE] ELSE message[m]]
    /\ UNCHANGED <<vault_messages, next_message_id, message_key>>
    /\ MessagesOnly

-----------------------------------------------------------------------------
(* Notices *)

NoticesOnly == UNCHANGED <<vars, messageVars>>
OwnerOrAdmin(u, p) == Owns(u, p) \/ ("Admin" \in roles[u] /\ u \notin blacklisted)

notify_beneficiary(u, p, i) ==
    /\ Exists(p) /\ OwnerOrAdmin(u, p)
    /\ i \in DOMAIN plan[p].beneficiaries
    /\ i \notin notified[p]
    /\ notified' = [notified EXCEPT ![p] = @ \cup {i}]
    /\ UNCHANGED <<acknowledged, acknowledgment_required>>
    /\ NoticesOnly

\* Any address may acknowledge for the heir at an index.
acknowledge_beneficiary_status(p, i) ==
    /\ Exists(p)
    /\ i \in DOMAIN plan[p].beneficiaries
    /\ i \in notified[p]
    /\ i \notin acknowledged[p]
    /\ acknowledged' = [acknowledged EXCEPT ![p] = @ \cup {i}]
    /\ UNCHANGED <<notified, acknowledgment_required>>
    /\ NoticesOnly

require_acknowledgment(u, p, required) ==
    /\ Exists(p) /\ OwnerOrAdmin(u, p)
    /\ acknowledgment_required' = IF required THEN acknowledgment_required \cup {p}
                                              ELSE acknowledgment_required \ {p}
    /\ UNCHANGED <<notified, acknowledged>>
    /\ NoticesOnly

MessageNext ==
    \/ \E u \in Users :
          \/ \E p \in Plans :
                \/ rotate_vault_message_key(u, p)
                \/ \E c \in Contents, t \in UnlockTimes :
                      create_legacy_message(u, p, c, t) \/ batch_create_messages(u, p, c, t)
          \/ \E m \in MessageIds :
                \/ \E c \in Contents, t \in UnlockTimes : update_legacy_message(u, m, c, t)
                \/ finalize_legacy_message(u, m)
                \/ delete_legacy_message(u, m)
                \/ access_legacy_message(u, m)
    \/ \E p \in Plans : unlock_messages_on_inheritance(p)

NoticeNext ==
    \E p \in Plans, i \in NoticeIndices :
        \/ \E u \in Users : notify_beneficiary(u, p, i)
        \/ acknowledge_beneficiary_status(p, i)
        \/ \E u \in Users, required \in Requirements : require_acknowledgment(u, p, required)

-----------------------------------------------------------------------------
\* Nothing is unsealed early: an opened message's date has passed or its plan
\* is triggered, through edits of the date, deletion and reuse of the list.
SealedUntilDue ==
    \A m \in MessageIds :
        message[m] # NoMessage /\ message[m].is_unlocked => Due(m)

\* A vault lists exactly the messages that exist for it, each once, whoever
\* created or deleted them; the list is all that a trigger unlocks.
MessageListMatches ==
    \A p \in Plans :
        /\ IsInjective(vault_messages[p])
        /\ Range(vault_messages[p]) =
              {m \in MessageIds : message[m] # NoMessage /\ message[m].vault_id = p}

\* Messages stay sealed and on the list from which a trigger unlocks them
\* (create_legacy_message to unlock_messages_on_inheritance of lib.rs).
MessagesKept == SealedUntilDue /\ MessageListMatches

=============================================================================
