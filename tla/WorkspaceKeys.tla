--------------------------- MODULE WorkspaceKeys ---------------------------
(***************************************************************************)
(* The keys a workspace stores: its Graph API keys, which are added,       *)
(* validated against The Graph, selected (one at a time) and revoked, and  *)
(* the model profile with the key of a model provider.  They join the      *)
(* requests of OwnerRequests.                                              *)
(*                                                                         *)
(* These requests carry no idempotency key: a change names the version of  *)
(* the row it is about, and the profile is compared and swapped.  An       *)
(* encrypted secret is there or not; a fingerprint is the key itself.      *)
(*                                                                         *)
(* The product of a request is here a Graph key, its key a label or the    *)
(* model provider's key, and its change an API key or a model.             *)
(***************************************************************************)
EXTENDS OwnerRequests

CONSTANTS
  HeldKeys,    \* Graph keys that were added and validated before
  MaxAttempts  \* attempts of a profile save

KeyIds == HeldKeys \union OfOp({"add_key"})

\* The rows of the two tables.
Credentials ==
  [label : KeyIds \union {Ask[r].key : r \in Requests},
   key : KeyIds \union {Ask[r].change : r \in Requests},
   status : {"pending_validation", "active", "invalid", "revoked"},
   selected : BOOLEAN, lock : Nat]
Profiles ==
  [key : {Ask[r].key : r \in Requests}, model : {Ask[r].change : r \in Requests},
   version : Nat, lock : Nat]

ASSUME KeysAssumption ==
  /\ None \notin HeldKeys \union Credentials \union Profiles /\ HeldKeys \intersect Requests = {}
  /\ \A r \in OfOp({"validate_key", "select_key", "revoke_key"}) :
       Ask[r].product \in HeldKeys \union OfOp({"add_key"})
  /\ MaxAttempts \in Nat \ {0}

VARIABLES
  credentials,  \* provider_credentials
  secrets,      \* provider_credential_secrets
  holder,       \* the request whose running statement has locked a row
  profile,      \* agent_model_profiles
  given         \* auxiliary: the provider key given last by a stored save

keyVars == <<credentials, secrets, holder, profile, given>>
workspaceVars == <<ownerVars, keyVars>>

Credential(label, key, status, lock) ==
  [label |-> label, key |-> key, status |-> status, selected |-> FALSE, lock |-> lock]

KeysInit ==
  /\ credentials = [k \in KeyIds |->
       IF k \in HeldKeys THEN Credential(k, k, "active", 1) ELSE None]
  /\ secrets = HeldKeys
  /\ holder = [k \in KeyIds |-> None]
  /\ profile = None
  /\ given = None

WorkspaceInit == OwnerInit /\ KeysInit
-----------------------------------------------------------------------------
Rows == {k \in KeyIds : credentials[k] # None}
Held(k) == k \in Rows /\ credentials[k].status # "revoked"
Selected == {k \in Rows : credentials[k].selected}

\* The row a request is about and whether it is at the version it names.
Key(r) == Ask[r].product
AtVersion(r) == Held(Key(r)) /\ credentials[Key(r)].lock = Ask[r].expected

\* An UPDATE of a row counts its version up.
Revised(c, status, selected) ==
  [c EXCEPT !.status = status, !.selected = selected, !.lock = @ + 1]

\* An UPDATE waits for the statement that has locked its row.
Free(k, r) == holder[k] \in {None, r}

Elsewhere == UNCHANGED <<tables, outside>>

SendKey(r) ==
  /\ at[r] = "unsent" /\ Op(r) \in KeyOps
  /\ Op(r) \in {"validate_key", "select_key", "revoke_key"} =>
       Key(r) \in Rows /\ Ask[r].expected <= credentials[Key(r)].lock
  /\ Moves(r, CASE Op(r) = "add_key" -> "key_look"
                [] Op(r) = "validate_key" -> "key_open"
                [] Op(r) = "save_profile" -> "profile_read"
                [] OTHER -> "key_find")
  /\ Keeps /\ Elsewhere /\ UNCHANGED <<faults, keyVars>>
-----------------------------------------------------------------------------
(* create of graph-credential/service.ts *)

\* Labels and fingerprints are unique in a workspace, revoked rows included.
Alike(r) ==
  {k \in Rows : credentials[k].label = Ask[r].key \/ credentials[k].key = Ask[r].change}
Same(r) ==
  {k \in Alike(r) : /\ credentials[k].label = Ask[r].key
                    /\ credentials[k].key = Ask[r].change}

AnswersExisting(r) ==
  Answers(r, IF \E k \in Same(r) : Held(k) THEN "accepted" ELSE "conflict")

LookForKey(r) ==
  /\ at[r] = "key_look"
  /\ IF Alike(r) = {} THEN Moves(r, "key_insert") ELSE AnswersExisting(r)
  /\ Keeps /\ Elsewhere /\ UNCHANGED <<faults, keyVars>>

InsertKey(r) ==
  /\ at[r] = "key_insert"
  /\ \/ /\ Alike(r) = {}
        /\ credentials' = [credentials EXCEPT ![r] =
             Credential(Ask[r].key, Ask[r].change, "pending_validation", 0)]
        /\ secrets' = secrets \union {r}
        /\ Answers(r, "accepted")
     \/ /\ Alike(r) # {} /\ UNCHANGED <<credentials, secrets>>
        /\ Moves(r, "key_raced")
  /\ Keeps /\ Elsewhere /\ UNCHANGED <<faults, holder, profile, given>>

RacedKey(r) ==
  /\ at[r] = "key_raced"
  /\ AnswersExisting(r)
  /\ Keeps /\ Elsewhere /\ UNCHANGED <<faults, keyVars>>
-----------------------------------------------------------------------------
(* validate, select, revoke *)

\* The row is read with its secret; a key without one is not found.
OpenKey(r) ==
  /\ at[r] = "key_open"
  /\ IF Key(r) \notin secrets \/ ~Held(Key(r)) THEN Answers(r, "not_found")
     ELSE IF ~AtVersion(r) THEN Answers(r, "precondition_failed")
     ELSE Moves(r, "key_probe")
  /\ Keeps /\ Elsewhere /\ UNCHANGED <<faults, keyVars>>

\* The Graph is asked with the key, which takes its time.
ProbeKey(r) ==
  /\ at[r] = "key_probe"
  /\ \E seen \in {"active", "invalid"} : Learns(r, seen)
  /\ Moves(r, "key_observed")
  /\ Elsewhere /\ UNCHANGED <<faults, keyVars>>

\* Slip: the observation is stored whatever has become of the row meanwhile.
ObservableAnyway(r) == Held(Key(r))

Observable(r) == AtVersion(r)

\* A key that turns out invalid is no longer the selected one.
SetValidation(r) ==
  /\ at[r] = "key_observed" /\ Free(Key(r), r)
  /\ \/ /\ Observable(r)
        /\ credentials' = [credentials EXCEPT ![Key(r)] =
             Revised(@, found[r], @.selected /\ found[r] = "active")]
        /\ Answers(r, "accepted")
     \/ /\ ~Observable(r) /\ UNCHANGED credentials
        /\ Answers(r, "precondition_failed")
  /\ Keeps /\ Elsewhere /\ UNCHANGED <<faults, secrets, holder, profile, given>>

FindKey(r) ==
  /\ at[r] = "key_find"
  /\ IF ~Held(Key(r)) THEN Answers(r, "not_found")
     ELSE IF ~AtVersion(r) THEN Answers(r, "precondition_failed")
     ELSE IF Op(r) = "revoke_key" THEN Moves(r, "key_revoke")
     ELSE IF credentials[Key(r)].status # "active" THEN Answers(r, "invalid_input")
     ELSE IF credentials[Key(r)].selected THEN Answers(r, "unchanged")
     ELSE Moves(r, "key_select")
  /\ Keeps /\ Elsewhere /\ UNCHANGED <<faults, keyVars>>

Selectable(r) == AtVersion(r) /\ credentials[Key(r)].status = "active"

\* The statement takes its snapshot, then the lock of its target (which it
\* may have to wait for) and tests the target again.
SelectSnapshot(r) ==
  /\ at[r] = "key_select"
  /\ sight' = [sight EXCEPT ![r] = Selected]
  /\ Moves(r, "key_target")
  /\ UNCHANGED found /\ Elsewhere /\ UNCHANGED <<faults, keyVars>>

SelectTarget(r) ==
  /\ at[r] = "key_target" /\ Free(Key(r), r)
  /\ \/ /\ Selectable(r)
        /\ holder' = [holder EXCEPT ![Key(r)] = r]
        /\ Moves(r, "key_clear")
     \/ /\ ~Selectable(r) /\ UNCHANGED holder
        /\ Answers(r, "precondition_failed")
  /\ Keeps /\ Elsewhere /\ UNCHANGED <<faults, credentials, secrets, profile, given>>

Cleared(r) == (sight[r] \intersect Selected) \ {Key(r)}

\* Slip: there is no unique index on the selected key of a workspace.
NoOther(r) == {}

\* A key selected by a statement that committed after the snapshot.
Other(r) == Selected \ (sight[r] \union {Key(r)})

\* The keys selected in the snapshot are cleared, the target is set.  The
\* unique index of migration 0020 rolls it all back if another is selected.
CommitSelect(r) ==
  /\ at[r] = "key_clear" /\ \A k \in Cleared(r) : Free(k, r)
  /\ holder' = [holder EXCEPT ![Key(r)] = None]
  /\ \/ /\ Other(r) = {}
        /\ credentials' = [k \in KeyIds |->
             IF k = Key(r) THEN Revised(credentials[k], credentials[k].status, TRUE)
             ELSE IF k \in Cleared(r)
               THEN Revised(credentials[k], credentials[k].status, FALSE)
             ELSE credentials[k]]
        /\ Answers(r, "accepted")
     \/ /\ Other(r) # {} /\ UNCHANGED credentials
        /\ Answers(r, "error")
  /\ Keeps /\ Elsewhere /\ UNCHANGED <<faults, secrets, profile, given>>

\* Slip: the row is marked and its secret stays.
SecretStays(r) == secrets

SecretRemoved(r) == secrets \ {Key(r)}

RevokeKey(r) ==
  /\ at[r] = "key_revoke" /\ Free(Key(r), r)
  /\ \/ /\ AtVersion(r)
        /\ credentials' = [credentials EXCEPT ![Key(r)] = Revised(@, "revoked", FALSE)]
        /\ secrets' = SecretRemoved(r)
        /\ Answers(r, "accepted")
     \/ /\ ~AtVersion(r) /\ UNCHANGED <<credentials, secrets>>
        /\ Answers(r, "precondition_failed")
  /\ Keeps /\ Elsewhere /\ UNCHANGED <<faults, holder, profile, given>>
-----------------------------------------------------------------------------
(* save of model-profile/service.ts *)

Attempts(r) == IF sight[r] = None THEN 0 ELSE sight[r]

\* A save without a key keeps the one that is stored.
ReadProfile(r) ==
  /\ at[r] = "profile_read"
  /\ IF profile = None /\ Ask[r].key = None
       THEN Answers(r, "invalid_input") /\ Keeps
       ELSE Moves(r, "profile_swap") /\ Learns(r, profile)
  /\ Elsewhere /\ UNCHANGED <<faults, keyVars>>

Candidate(r) ==
  LET key == IF Ask[r].key = None THEN found[r].key ELSE Ask[r].key
  IN  IF found[r] = None
        THEN [key |-> key, model |-> Ask[r].change, version |-> 1, lock |-> 0]
        ELSE [key |-> key, model |-> Ask[r].change,
              version |-> found[r].version + 1, lock |-> found[r].lock + 1]

\* Slip: the row is replaced whatever its version.
SwapsAnyway(r) == profile = None <=> found[r] = None

Swaps(r) ==
  IF found[r] = None THEN profile = None
  ELSE profile # None /\ profile.lock = found[r].lock

SwapProfile(r) ==
  /\ at[r] = "profile_swap"
  /\ \/ /\ Swaps(r)
        /\ profile' = Candidate(r)
        /\ given' = IF Ask[r].key = None THEN given ELSE Ask[r].key
        /\ Answers(r, "accepted") /\ UNCHANGED sight
     \/ /\ ~Swaps(r) /\ UNCHANGED <<profile, given>>
        /\ sight' = [sight EXCEPT ![r] = Attempts(r) + 1]
        /\ IF Attempts(r) + 1 < MaxAttempts THEN Moves(r, "profile_read")
           ELSE Answers(r, "error")
  /\ UNCHANGED found /\ Elsewhere /\ UNCHANGED <<faults, credentials, secrets, holder>>
-----------------------------------------------------------------------------
Released(gone) == [k \in KeyIds |-> IF holder[k] \in gone THEN None ELSE holder[k]]

\* A statement or the call of The Graph fails; what it locked is released.
KeyFails(r) ==
  /\ at[r] \notin {"unsent", "done"} /\ Op(r) \in KeyOps
  /\ Faulty /\ Answers(r, "error")
  /\ holder' = Released({r})
  /\ Keeps /\ Elsewhere /\ UNCHANGED <<credentials, secrets, profile, given>>

KeyStep(r) ==
  \/ SendKey(r) \/ LookForKey(r) \/ InsertKey(r) \/ RacedKey(r)
  \/ OpenKey(r) \/ ProbeKey(r) \/ SetValidation(r) \/ FindKey(r)
  \/ SelectSnapshot(r) \/ SelectTarget(r) \/ CommitSelect(r) \/ RevokeKey(r)
  \/ ReadProfile(r) \/ SwapProfile(r) \/ KeyFails(r)

StopAll ==
  /\ Stop
  /\ holder' = Released(Requests)
  /\ UNCHANGED <<credentials, secrets, profile, given>>

WorkspaceNext ==
  \/ OwnerStep /\ UNCHANGED keyVars
  \/ \E r \in todo : KeyStep(r)
  \/ StopAll

WorkspaceSpec == WorkspaceInit /\ [][WorkspaceNext]_workspaceVars
-----------------------------------------------------------------------------
\* The types; and a stage belongs to the operation it is a stage of.
KeysTypeOK ==
  /\ credentials \in [KeyIds -> Credentials \union {None}]
  /\ secrets \subseteq KeyIds
  /\ holder \in [KeyIds -> Requests \union {None}]
  /\ profile \in Profiles \union {None}
  /\ \A r \in todo :
       /\ at[r] \in {"key_look", "key_insert", "key_raced"} => Op(r) = "add_key"
       /\ at[r] \in {"key_open", "key_probe", "key_observed"} => Op(r) = "validate_key"
       /\ at[r] = "key_find" => Op(r) \in {"select_key", "revoke_key"}
       /\ at[r] \in {"key_select", "key_target", "key_clear"} => Op(r) = "select_key"
       /\ at[r] = "key_revoke" => Op(r) = "revoke_key"
       /\ at[r] \in {"profile_read", "profile_swap"} => Op(r) = "save_profile"
       /\ at[r] = "key_observed" => found[r] \in {"active", "invalid"}
       /\ at[r] \in {"key_target", "key_clear"} => sight[r] \subseteq KeyIds
       /\ at[r] = "profile_swap" => found[r] \in Profiles \union {None}

\* At most one Graph key is selected and it is one that was found valid; a
\* key that is not revoked has its secret and a revoked one has none.
KeysAreOrdered ==
  /\ \A k, l \in Selected : k = l
  /\ \A k \in Selected : credentials[k].status = "active"
  /\ secrets = {k \in Rows : Held(k)}

\* Of the requests that name one version of a Graph key at most one changes
\* it, however long the validation, the lock or the answer takes: what the
\* owner saw is what was changed.
VersionChangesOnce ==
  \A r, q \in todo \intersect OfOp({"validate_key", "select_key", "revoke_key"}) :
    /\ answer[r] = "accepted" /\ answer[q] = "accepted"
    /\ Key(r) = Key(q) /\ Ask[r].expected = Ask[q].expected
    => r = q

\* A save of the model profile that brings no key never brings back one that
\* another save has replaced meanwhile.
ProfileKeepsItsKey == profile # None => profile.key = given
=============================================================================
