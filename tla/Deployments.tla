---------------------------- MODULE Deployments ----------------------------
(***************************************************************************)
(* The logical deployment of one data product: immutable ready versions,   *)
(* the deploy command with its idempotency key, the API keys it issues,    *)
(* x402 publications with their internal execution keys, suspension,       *)
(* retirement and deletion of the product.                                 *)
(*                                                                         *)
(* An action is one PostgreSQL transaction of deployments/                 *)
(* postgres-repository.ts.  Two handlers are split where the program is    *)
(* not atomic: deploy reads its first statement's snapshot before the row  *)
(* lock is granted, and publishX402 awaits the facilitator between loading *)
(* its candidate and the transaction that publishes it.                    *)
(*                                                                         *)
(* A definition marked "Slip" is no part of the model: it is the one after *)
(* it with a plausible mistake, for testing the properties.                *)
(***************************************************************************)
EXTENDS Naturals, Sequences

CONSTANTS
  Specs,            \* contents of a compiled plan (what spec_hash hashes)
  Keys,             \* Idempotency-Key values of the owner's deploy commands
  Aliases,          \* normalised aliases a deploy call may ask for
  TakenAliases,     \* aliases other deployments of the workspace hold
  Calls,            \* deploy calls; a call is also the UUID it draws
  Offers,           \* publish calls that may be in flight together
  Prices,           \* price_atomic values
  MaxVersions,      \* bound: versions built
  MaxPublications,  \* bound: publication revisions
  None

ASSUME DeploymentAssumption ==
  /\ MaxVersions \in Nat
  /\ MaxPublications \in Nat
  /\ TakenAliases \subseteq Aliases
  /\ None \notin Nat \union Keys \union Aliases \union Calls \union Prices
  /\ None \notin [alias : Aliases, subject : Calls]

VARIABLES
  deleted,       \* data_products.deleted_at is set
  versions,      \* ready data_product_versions: version_no -> content
  deployment,    \* the deployments row of environment 'local'
  commands,      \* control_commands of operation deploy_data_product
  apiKeys,       \* api_credentials issued by deploy, one per derived key
  publication,   \* publication_versions.status, by revision_no
  price,         \* publication_versions.price_atomic, by revision_no
  internalKeys,  \* api_credentials of kind x402_internal, by revision_no
  recipient,     \* the owner has a verified, payable wallet address
  calls,         \* the deploy calls
  offers         \* the publish calls

tables == <<deleted, versions, deployment, commands, apiKeys, publication,
            price, internalKeys, recipient>>
deploymentVars == <<tables, calls, offers>>

Revisions == 1..MaxPublications

NoDeployment ==
  [id |-> None, alias |-> None, active |-> None, status |-> "absent",
   publication |-> None]
IdleCall ==
  [pc |-> "idle", key |-> None, alias |-> None, version |-> None,
   target |-> None, reply |-> "none"]
IdleOffer == [pc |-> "idle", version |-> None, price |-> None]

Deployed == deployment.id # None
Healthy == deployment.status = "healthy"

Init ==
  /\ deleted = FALSE
  /\ versions = <<>>
  /\ deployment = NoDeployment
  /\ commands = [k \in Keys |-> None]
  /\ apiKeys = [k \in Keys |-> "none"]
  /\ publication = [p \in Revisions |-> "absent"]
  /\ price = [p \in Revisions |-> None]
  /\ internalKeys = [p \in Revisions |-> "none"]
  /\ recipient = FALSE
  /\ calls = [c \in Calls |-> IdleCall]
  /\ offers = [o \in Offers |-> IdleOffer]

-----------------------------------------------------------------------------
(* Versions and the product *)

\* persistVersion: a content that is already ready is returned as it is, and
\* the tables do not change; a new content becomes the next version.
PersistVersion(s) ==
  /\ ~deleted
  /\ Len(versions) < MaxVersions
  /\ \A n \in 1..Len(versions) : versions[n] # s
  /\ versions' = Append(versions, s)
  /\ UNCHANGED <<deleted, deployment, commands, apiKeys, publication, price,
                 internalKeys, recipient, calls, offers>>

\* The soft delete of the product touches none of the deployment's rows.
DeleteProduct ==
  /\ ~deleted
  /\ deleted' = TRUE
  /\ UNCHANGED <<versions, deployment, commands, apiKeys, publication, price,
                 internalKeys, recipient, calls, offers>>

\* A wallet observation turns the owner's receiving address payable or not.
ObserveRecipient ==
  /\ recipient' = ~recipient
  /\ UNCHANGED <<deleted, versions, deployment, commands, apiKeys, publication,
                 price, internalKeys, calls, offers>>

-----------------------------------------------------------------------------
(* Deploy *)

\* The first statement of deploy picks the newest ready version and the
\* deployment's id (a fresh UUID when there is no row) in the snapshot of the
\* statement; its FOR UPDATE of the product may then wait.
DeployRead(c, k, a) ==
  /\ calls[c].pc = "idle"
  /\ ~deleted
  /\ versions # <<>>
  /\ calls' = [calls EXCEPT ![c] =
       [pc |-> "locking", key |-> k, alias |-> a, version |-> Len(versions),
        target |-> IF Deployed THEN deployment.id ELSE c, reply |-> "none"]]
  /\ UNCHANGED <<tables, offers>>

Reply(c, r) ==
  calls' = [calls EXCEPT ![c].pc = "done", ![c].reply = r]

\* The lock is granted.  Only a row the other transaction updated is read
\* again, which a deletion does and a build or another deploy does not.
DeployNotFound(c) ==
  /\ calls[c].pc = "locking"
  /\ deleted
  /\ Reply(c, "not_found")
  /\ UNCHANGED <<tables, offers>>

\* The command is new: the row is created or repointed at the version read,
\* and the key derived from the idempotency key is issued.  The pointer to the
\* publication is not part of the upsert.
DeployAccepted(c) ==
  LET k == calls[c].key IN
  /\ calls[c].pc = "locking"
  /\ ~deleted
  /\ commands[k] = None
  /\ calls[c].alias \notin TakenAliases
  /\ commands' = [commands EXCEPT ![k] =
       [alias |-> calls[c].alias, subject |-> calls[c].target]]
  /\ deployment' =
       [id |-> IF Deployed THEN deployment.id ELSE calls[c].target,
        alias |-> calls[c].alias, active |-> calls[c].version,
        status |-> "healthy", publication |-> deployment.publication]
  /\ apiKeys' = [apiKeys EXCEPT ![k] = "active"]
  /\ Reply(c, "deployed")
  /\ UNCHANGED <<deleted, versions, publication, price, internalKeys,
                 recipient, offers>>

\* The alias is another deployment's: everything, the command too, is undone.
DeployAliasConflict(c) ==
  /\ calls[c].pc = "locking"
  /\ ~deleted
  /\ commands[calls[c].key] = None
  /\ calls[c].alias \in TakenAliases
  /\ Reply(c, "alias_conflict")
  /\ UNCHANGED <<tables, offers>>

\* Slip: the fingerprint is not compared.
MatchesAnyPayload(c) ==
  /\ commands[calls[c].key].subject = calls[c].target
  /\ commands[calls[c].key].subject = deployment.id

\* The stored command answers a call of the same key when it has the same
\* fingerprint, names the deployment the call targets, and its key is found
\* on that deployment.
Matches(c) ==
  LET k == calls[c].key IN
  /\ commands[k].alias = calls[c].alias
  /\ commands[k].subject = calls[c].target
  /\ commands[k].subject = deployment.id
  /\ apiKeys[k] # "none"

\* Slip: a replay hands the key out as a live one.
ReplayRevivesKey(c) ==
  LET k == calls[c].key IN
  /\ calls[c].pc = "locking"
  /\ ~deleted
  /\ commands[k] # None
  /\ Reply(c, IF Matches(c) THEN "replayed" ELSE "command_conflict")
  /\ apiKeys' = IF Matches(c) THEN [apiKeys EXCEPT ![k] = "active"] ELSE apiKeys
  /\ UNCHANGED <<deleted, versions, deployment, commands, publication, price,
                 internalKeys, recipient, offers>>

DeployRepeated(c) ==
  /\ calls[c].pc = "locking"
  /\ ~deleted
  /\ commands[calls[c].key] # None
  /\ Reply(c, IF Matches(c) THEN "replayed" ELSE "command_conflict")
  /\ UNCHANGED <<tables, offers>>

Deploy(c) ==
  \/ \E k \in Keys, a \in Aliases : DeployRead(c, k, a)
  \/ DeployNotFound(c)
  \/ DeployAccepted(c)
  \/ DeployAliasConflict(c)
  \/ DeployRepeated(c)

-----------------------------------------------------------------------------
(* Suspension and x402 publication *)

Suspend ==
  /\ Deployed
  /\ ~deleted
  /\ deployment' = [deployment EXCEPT !.status = "suspended",
                                      !.publication = None]
  /\ publication' = [p \in Revisions |->
       IF publication[p] = "active" THEN "retired" ELSE publication[p]]
  /\ apiKeys' = [k \in Keys |->
       IF apiKeys[k] = "active" THEN "revoked" ELSE apiKeys[k]]
  /\ internalKeys' = [p \in Revisions |->
       IF internalKeys[p] = "active" THEN "revoked" ELSE internalKeys[p]]
  /\ UNCHANGED <<deleted, versions, commands, price, recipient, calls, offers>>

\* loadPublicationCandidate; the call then awaits the facilitator's /supported.
LoadPublicationCandidate(o, amount) ==
  /\ offers[o].pc = "idle"
  /\ Healthy
  /\ ~deleted
  /\ recipient
  /\ offers' = [offers EXCEPT ![o] =
       [pc |-> "supported", version |-> deployment.active, price |-> amount]]
  /\ UNCHANGED <<tables, calls>>

\* /supported fails, or the transaction finds the deployment moved on, or it
\* finds an active publication, which it returns whatever price was asked.
OfferEnds(o) ==
  /\ offers[o].pc = "supported"
  /\ offers' = [offers EXCEPT ![o] = IdleOffer]
  /\ UNCHANGED <<tables, calls>>

\* coalesce(max(revision_no),0)+1: the first number not yet given out.
IsNextRevision(p) == \A q \in Revisions : publication[q] # "absent" <=> q < p

\* Slip: the status is not read again under the lock.
PublishUnchecked(o, p) ==
  /\ offers[o].pc = "supported"
  /\ deployment.active = offers[o].version
  /\ \A q \in Revisions : publication[q] # "active"
  /\ IsNextRevision(p)
  /\ publication' = [publication EXCEPT ![p] = "active"]
  /\ price' = [price EXCEPT ![p] = offers[o].price]
  /\ internalKeys' = [internalKeys EXCEPT ![p] = "active"]
  /\ deployment' = [deployment EXCEPT !.publication = p]
  /\ offers' = [offers EXCEPT ![o] = IdleOffer]
  /\ UNCHANGED <<deleted, versions, commands, apiKeys, recipient, calls>>

\* publishX402 locks the deployment where it still serves the candidate's
\* version; the product and the recipient are not read again.
PublishX402(o, p) ==
  /\ offers[o].pc = "supported"
  /\ Healthy
  /\ deployment.active = offers[o].version
  /\ \A q \in Revisions : publication[q] # "active"
  /\ IsNextRevision(p)
  /\ publication' = [publication EXCEPT ![p] = "active"]
  /\ price' = [price EXCEPT ![p] = offers[o].price]
  /\ internalKeys' = [internalKeys EXCEPT ![p] = "active"]
  /\ deployment' = [deployment EXCEPT !.publication = p]
  /\ offers' = [offers EXCEPT ![o] = IdleOffer]
  /\ UNCHANGED <<deleted, versions, commands, apiKeys, recipient, calls>>

\* Slip: the pointer of the deployment is left behind.
RetireKeepsPointer(p) ==
  /\ publication[p] # "absent"
  /\ publication' = [publication EXCEPT ![p] = "retired"]
  /\ internalKeys' = [internalKeys EXCEPT ![p] =
       IF @ = "active" THEN "revoked" ELSE @]
  /\ UNCHANGED <<deleted, versions, deployment, commands, apiKeys, price,
                 recipient, calls, offers>>

\* Slip: the internal key is left active.
RetireKeepsKey(p) ==
  /\ publication[p] # "absent"
  /\ deployment' = IF deployment.publication = p
                   THEN [deployment EXCEPT !.publication = None]
                   ELSE deployment
  /\ publication' = [publication EXCEPT ![p] = "retired"]
  /\ UNCHANGED <<deleted, versions, commands, apiKeys, price, internalKeys,
                 recipient, calls, offers>>

RetireX402(p) ==
  /\ publication[p] # "absent"
  /\ deployment' = IF deployment.publication = p
                   THEN [deployment EXCEPT !.publication = None]
                   ELSE deployment
  /\ publication' = [publication EXCEPT ![p] = "retired"]
  /\ internalKeys' = [internalKeys EXCEPT ![p] =
       IF @ = "active" THEN "revoked" ELSE @]
  /\ UNCHANGED <<deleted, versions, commands, apiKeys, price, recipient,
                 calls, offers>>

DeploymentNext ==
  \/ \E s \in Specs : PersistVersion(s)
  \/ DeleteProduct
  \/ ObserveRecipient
  \/ \E c \in Calls : Deploy(c)
  \/ Suspend
  \/ \E o \in Offers, amount \in Prices : LoadPublicationCandidate(o, amount)
  \/ \E o \in Offers : OfferEnds(o)
  \/ \E o \in Offers, p \in Revisions : PublishX402(o, p)
  \/ \E p \in Revisions : RetireX402(p)

Spec == Init /\ [][DeploymentNext]_deploymentVars

-----------------------------------------------------------------------------
(* What a request reads *)

\* loadAuthorized, for the internal key of revision p.
InternallyAuthorized(p) == Healthy /\ ~deleted /\ internalKeys[p] = "active"

\* loadX402Gate finds revision p.
GateOpen(p) ==
  /\ InternallyAuthorized(p)
  /\ deployment.publication = p
  /\ publication[p] = "active"

-----------------------------------------------------------------------------
(* Properties *)

Command == [alias : Aliases, subject : Calls]
Replies == {"none", "not_found", "deployed", "alias_conflict", "replayed",
            "command_conflict"}
DeployCall ==
  [pc : {"idle", "locking", "done"}, key : Keys \union {None},
   alias : Aliases \union {None}, version : Nat \union {None},
   target : Calls \union {None}, reply : Replies]
Offer ==
  [pc : {"idle", "supported"}, version : Nat \union {None},
   price : Prices \union {None}]
Deployment ==
  [id : Calls \union {None}, alias : Aliases \union {None},
   active : Nat \union {None}, status : {"absent", "healthy", "suspended"},
   publication : Revisions \union {None}]

\* Every row keeps its columns' types: statuses are the enumerated ones, a
\* revision number or a version number is in its table's range.
TypeOK ==
  /\ deleted \in BOOLEAN
  /\ versions \in Seq(Specs)
  /\ deployment \in Deployment
  /\ commands \in [Keys -> Command \union {None}]
  /\ apiKeys \in [Keys -> {"none", "active", "revoked"}]
  /\ publication \in [Revisions -> {"absent", "active", "retired"}]
  /\ price \in [Revisions -> Prices \union {None}]
  /\ internalKeys \in [Revisions -> {"none", "active", "revoked"}]
  /\ recipient \in BOOLEAN
  /\ calls \in [Calls -> DeployCall]
  /\ offers \in [Offers -> Offer]

\* The deployment's pointer and the publications' own status, kept in two
\* tables by publish, retire and suspend, name the same revision: a revision is
\* active exactly when the deployment points at it, so there is never a second.
PointerMatchesActive ==
  \A p \in Revisions : publication[p] = "active" <=> deployment.publication = p

\* The internal execution key of a revision lives and dies with it: a paid
\* request of a withdrawn revision can no longer be executed, and a live
\* revision can always be.
InternalKeyFollowsRevision ==
  \A p \in Revisions : internalKeys[p] = "active" <=> publication[p] = "active"

\* While the deployment is suspended nothing can reach it: no issued key is
\* active and no revision is offered, whatever calls were in flight when it
\* was suspended.
SuspensionSeals ==
  ~Healthy =>
    /\ \A k \in Keys : apiKeys[k] # "active"
    /\ \A p \in Revisions : publication[p] # "active"

\* An accepted deploy command and its key are written together: no key
\* without the command that a retry would find, no command without its key.
KeyPerCommand ==
  \A k \in Keys : commands[k] # None <=> apiKeys[k] # "none"

\* Two successful deploy calls under one idempotency key asked for the same
\* thing: the fingerprint is compared before a stored command is replayed.
OneAnswerPerKey ==
  \A c, d \in Calls :
    /\ calls[c].key = calls[d].key
    /\ {calls[c].reply, calls[d].reply} \subseteq {"deployed", "replayed"}
    => calls[c].alias = calls[d].alias

\* What was withdrawn stays withdrawn: no later deploy, replay or publish call
\* revives a revoked key, a revoked internal key or a retired revision.
WithdrawalIsFinal ==
  [][ /\ \A k \in Keys : apiKeys[k] = "revoked" => apiKeys'[k] = "revoked"
      /\ \A p \in Revisions :
           /\ publication[p] = "retired" => publication'[p] = "retired"
           /\ internalKeys[p] = "revoked" => internalKeys'[p] = "revoked"
    ]_deploymentVars

=============================================================================
