------------------------- MODULE PaidRequestsProofs -------------------------
(***************************************************************************)
(* Proofs about Deployments and about PaidRequests, which extends it, for  *)
(* every value of the constants: any number of calls, requests, headers    *)
(* and transfers, and every interleaving of requests with the deployment's *)
(* own operations and with crashes.                                        *)
(*                                                                         *)
(* The safety invariants of Deployments are proved together as IInv.  None *)
(* is inductive alone: SuspensionSeals is kept by a publish call because   *)
(* of its guard, PointerMatchesActive needs the types, KeyPerCommand and   *)
(* OneAnswerPerKey need that a call under way carries the key and the      *)
(* alias it was given (CallsAsked) and that a successful answer was read   *)
(* off the stored command (AnsweredByCommand).                             *)
(*                                                                         *)
(* PaidInv is the inductive invariant of a paid request.  Its parts tie    *)
(* the program counter of executeX402Request to the rows it has written    *)
(* (Untouched, InFlight, Paid, Caught), its gate to the publication rows   *)
(* (GateKnown), and a confirmed payment to the transfer that settled it    *)
(* (Settled).                                                              *)
(***************************************************************************)
EXTENDS PaidRequests, FiniteSetTheorems, TLAPS

\* A call that was made carries what it was made with.
CallsAsked ==
  \A c \in Calls : calls[c].pc # "idle" =>
    /\ calls[c].key \in Keys
    /\ calls[c].alias \in Aliases
    /\ calls[c].version \in Nat
    /\ calls[c].target \in Calls

\* A successful answer is the stored command's.
AnsweredByCommand ==
  \A c \in Calls : calls[c].reply \in {"deployed", "replayed"} =>
    /\ calls[c].key \in Keys
    /\ commands[calls[c].key] # None
    /\ commands[calls[c].key].alias = calls[c].alias

\* A number not yet given out has no internal key.
NoKeyBeforeRevision ==
  \A p \in Revisions : publication[p] = "absent" => internalKeys[p] = "none"

IInv ==
  /\ TypeOK
  /\ PointerMatchesActive
  /\ InternalKeyFollowsRevision
  /\ SuspensionSeals
  /\ KeyPerCommand
  /\ CallsAsked
  /\ AnsweredByCommand
  /\ NoKeyBeforeRevision

-----------------------------------------------------------------------------

LEMMA NoneIsNoRow ==
  /\ None \notin Revisions
  /\ None \notin Command
  /\ None \notin Calls
  /\ None \notin Keys
  /\ \A p \in Revisions : p \in Nat
BY DeploymentAssumption DEF DeploymentAssumption, Revisions, Command

LEMMA InitIInv == Init => IInv
<1> SUFFICES ASSUME Init PROVE IInv
  OBVIOUS
<1> USE DEF Init, NoDeployment, IdleCall, IdleOffer
<1>1. TypeOK
  <2>1. NoDeployment \in Deployment /\ IdleCall \in DeployCall
        /\ IdleOffer \in Offer
    BY DEF Deployment, DeployCall, Offer, Replies
  <2>2. <<>> \in Seq(Specs)
    OBVIOUS
  <2>3. QED
    BY <2>1, <2>2 DEF TypeOK
<1>2. PointerMatchesActive
  BY NoneIsNoRow DEF PointerMatchesActive
<1>3. InternalKeyFollowsRevision
  BY DEF InternalKeyFollowsRevision
<1>4. SuspensionSeals
  BY DEF SuspensionSeals
<1>5. KeyPerCommand
  BY DEF KeyPerCommand
<1>6. CallsAsked /\ AnsweredByCommand /\ NoKeyBeforeRevision
  BY DEF CallsAsked, AnsweredByCommand, NoKeyBeforeRevision
<1>7. QED
  BY <1>1, <1>2, <1>3, <1>4, <1>5, <1>6 DEF IInv

\* An answer keeps the call's other fields.
LEMMA ReplyType ==
  ASSUME NEW c \in Calls, NEW r \in Replies, calls \in [Calls -> DeployCall],
         Reply(c, r)
  PROVE  calls' \in [Calls -> DeployCall]
<1>1. [calls[c] EXCEPT !.pc = "done", !.reply = r] \in DeployCall
  BY DEF DeployCall
<1>2. calls' = [calls EXCEPT ![c] = [calls[c] EXCEPT !.pc = "done", !.reply = r]]
  BY DEF Reply, DeployCall
<1>3. QED
  BY <1>1, <1>2

\* Every step keeps the types.
LEMMA TypeStep ==
  TypeOK /\ CallsAsked /\ [DeploymentNext]_deploymentVars => TypeOK'
<1> SUFFICES ASSUME TypeOK, CallsAsked, [DeploymentNext]_deploymentVars
             PROVE  TypeOK'
  OBVIOUS
<1> USE DeploymentAssumption DEF DeploymentAssumption, TypeOK, tables
<1>1. ASSUME NEW s \in Specs, PersistVersion(s) PROVE TypeOK'
  BY <1>1 DEF PersistVersion
<1>2. CASE DeleteProduct
  BY <1>2 DEF DeleteProduct
<1>3. CASE ObserveRecipient
  BY <1>3 DEF ObserveRecipient
<1>4. ASSUME NEW c \in Calls, NEW k \in Keys, NEW a \in Aliases,
             DeployRead(c, k, a)
      PROVE  TypeOK'
  <2>1. Len(versions) \in Nat
    OBVIOUS
  <2>2. (IF Deployed THEN deployment.id ELSE c) \in Calls
    BY DEF Deployed, Deployment
  <2>3. [pc |-> "locking", key |-> k, alias |-> a, version |-> Len(versions),
         target |-> IF Deployed THEN deployment.id ELSE c, reply |-> "none"]
        \in DeployCall
    BY <2>1, <2>2 DEF DeployCall, Replies
  <2>4. QED
    BY <1>4, <2>3 DEF DeployRead
<1>5. ASSUME NEW c \in Calls, DeployNotFound(c) PROVE TypeOK'
  BY <1>5, ReplyType DEF DeployNotFound, Replies
<1>6. ASSUME NEW c \in Calls, DeployAccepted(c) PROVE TypeOK'
  <2>1. /\ calls[c].key \in Keys
        /\ calls[c].alias \in Aliases
        /\ calls[c].version \in Nat
        /\ calls[c].target \in Calls
    BY <1>6 DEF DeployAccepted, CallsAsked
  <2>2. commands' \in [Keys -> Command \union {None}]
    BY <1>6, <2>1 DEF DeployAccepted, Command
  <2>3. /\ apiKeys' \in [Keys -> {"none", "active", "revoked"}]
        /\ deployment' \in Deployment
    BY <1>6, <2>1 DEF DeployAccepted, Deployed, Deployment
  <2>4. calls' \in [Calls -> DeployCall]
    BY <1>6, ReplyType DEF DeployAccepted, Replies
  <2>5. QED
    BY <1>6, <2>2, <2>3, <2>4 DEF DeployAccepted
<1>7. ASSUME NEW c \in Calls, DeployAliasConflict(c) PROVE TypeOK'
  BY <1>7, ReplyType DEF DeployAliasConflict, Replies
<1>8. ASSUME NEW c \in Calls, DeployRepeated(c) PROVE TypeOK'
  <2>1. (IF Matches(c) THEN "replayed" ELSE "command_conflict") \in Replies
    BY DEF Replies
  <2>2. QED
    BY <1>8, <2>1, ReplyType DEF DeployRepeated
<1>9. CASE Suspend
  BY <1>9 DEF Suspend, Deployment
<1>10. ASSUME NEW o \in Offers, NEW amount \in Prices,
              LoadPublicationCandidate(o, amount)
       PROVE  TypeOK'
  BY <1>10 DEF LoadPublicationCandidate, Offer, Deployment
<1>11. ASSUME NEW o \in Offers, OfferEnds(o) PROVE TypeOK'
  BY <1>11 DEF OfferEnds, IdleOffer, Offer
<1>12. ASSUME NEW o \in Offers, NEW p \in Revisions, PublishX402(o, p)
       PROVE  TypeOK'
  BY <1>12 DEF PublishX402, IdleOffer, Offer, Deployment
<1>13. ASSUME NEW p \in Revisions, RetireX402(p) PROVE TypeOK'
  BY <1>13 DEF RetireX402, Deployment
<1>14. CASE UNCHANGED deploymentVars
  BY <1>14 DEF deploymentVars
<1>15. QED
  BY <1>1, <1>2, <1>3, <1>4, <1>5, <1>6, <1>7, <1>8, <1>9, <1>10, <1>11,
     <1>12, <1>13, <1>14 DEF DeploymentNext, Deploy

\* The deployment's pointer, the revisions and their internal keys move
\* together.
LEMMA PublicationStep ==
  TypeOK /\ PointerMatchesActive /\ InternalKeyFollowsRevision /\ SuspensionSeals
    /\ [DeploymentNext]_deploymentVars
    => PointerMatchesActive' /\ InternalKeyFollowsRevision' /\ SuspensionSeals'
<1> DEFINE P == PointerMatchesActive /\ InternalKeyFollowsRevision
                  /\ SuspensionSeals
<1> SUFFICES ASSUME TypeOK, P, [DeploymentNext]_deploymentVars PROVE P'
  OBVIOUS
<1> USE DEF PointerMatchesActive, InternalKeyFollowsRevision, SuspensionSeals,
            Healthy, tables
<1>1. ASSUME UNCHANGED <<deployment, apiKeys, publication, internalKeys>>
      PROVE  P'
  BY <1>1
<1>2. ASSUME NEW c \in Calls, DeployAccepted(c) PROVE P'
  <2>1. /\ deployment'.status = "healthy"
        /\ deployment'.publication = deployment.publication
        /\ UNCHANGED <<publication, internalKeys>>
    BY <1>2 DEF DeployAccepted
  <2>2. QED
    BY <2>1
<1>3. CASE Suspend
  <2>1. deployment'.publication = None /\ deployment'.status = "suspended"
    BY <1>3 DEF Suspend, TypeOK, Deployment
  <2>2. \A p \in Revisions : publication'[p] # "active" /\ internalKeys'[p] # "active"
    BY <1>3 DEF Suspend
  <2>3. \A k \in Keys : apiKeys'[k] # "active"
    BY <1>3 DEF Suspend
  <2>4. QED
    BY <2>1, <2>2, <2>3, NoneIsNoRow
<1>4. ASSUME NEW o \in Offers, NEW p \in Revisions, PublishX402(o, p) PROVE P'
  <2>1. \A q \in Revisions : publication[q] # "active" /\ internalKeys[q] # "active"
    BY <1>4 DEF PublishX402
  <2>2. /\ deployment'.publication = p
        /\ deployment'.status = "healthy"
        /\ publication' = [publication EXCEPT ![p] = "active"]
        /\ internalKeys' = [internalKeys EXCEPT ![p] = "active"]
    BY <1>4 DEF PublishX402, TypeOK, Deployment
  <2>3. QED
    BY <2>1, <2>2 DEF TypeOK
<1>5. ASSUME NEW p \in Revisions, RetireX402(p) PROVE P'
  <2>1. /\ deployment'.status = deployment.status
        /\ deployment'.publication =
             IF deployment.publication = p THEN None ELSE deployment.publication
    BY <1>5 DEF RetireX402, TypeOK, Deployment
  <2>2. /\ publication' = [publication EXCEPT ![p] = "retired"]
        /\ internalKeys' = [internalKeys EXCEPT ![p] =
             IF @ = "active" THEN "revoked" ELSE @]
        /\ apiKeys' = apiKeys
    BY <1>5 DEF RetireX402
  <2>3. QED
    BY <2>1, <2>2, NoneIsNoRow DEF TypeOK
<1>6. QED
  BY <1>1, <1>2, <1>3, <1>4, <1>5
  DEF DeploymentNext, deploymentVars, Deploy, PersistVersion, DeleteProduct,
      ObserveRecipient, DeployRead, DeployNotFound, DeployAliasConflict,
      DeployRepeated, LoadPublicationCandidate, OfferEnds

-----------------------------------------------------------------------------

\* A call's own fields are set once, and a stored command never changes.
LEMMA CommandStep ==
  TypeOK /\ KeyPerCommand /\ CallsAsked /\ AnsweredByCommand
    /\ [DeploymentNext]_deploymentVars
    => KeyPerCommand' /\ CallsAsked' /\ AnsweredByCommand'
<1> DEFINE P == KeyPerCommand /\ CallsAsked /\ AnsweredByCommand
<1> SUFFICES ASSUME TypeOK, P, [DeploymentNext]_deploymentVars PROVE P'
  OBVIOUS
<1> USE DEF KeyPerCommand, CallsAsked, AnsweredByCommand, tables
<1>1. ASSUME UNCHANGED <<commands, apiKeys, calls>> PROVE P'
  BY <1>1
<1>2. ASSUME NEW c \in Calls, NEW k \in Keys, NEW a \in Aliases,
             DeployRead(c, k, a)
      PROVE  P'
  <2>1. Len(versions) \in Nat
    BY DEF TypeOK
  <2>2. (IF Deployed THEN deployment.id ELSE c) \in Calls
    BY DEF Deployed, Deployment, TypeOK
  <2>3. QED
    BY <1>2, <2>1, <2>2 DEF DeployRead, TypeOK
<1>3. ASSUME NEW c \in Calls, NEW r \in Replies, Reply(c, r),
             calls[c].pc = "locking", UNCHANGED <<commands, apiKeys>>,
             r \in {"deployed", "replayed"} =>
               /\ commands[calls[c].key] # None
               /\ commands[calls[c].key].alias = calls[c].alias
      PROVE  P'
  <2>1. /\ calls'[c].key = calls[c].key
        /\ calls'[c].alias = calls[c].alias
        /\ calls'[c].version = calls[c].version
        /\ calls'[c].target = calls[c].target
        /\ calls'[c].reply = r
        /\ \A d \in Calls : d # c => calls'[d] = calls[d]
    BY <1>3 DEF Reply, TypeOK, DeployCall
  <2>2. QED
    BY <1>3, <2>1
<1>4. ASSUME NEW c \in Calls, DeployNotFound(c) PROVE P'
  BY <1>3, <1>4 DEF DeployNotFound, Replies
<1>5. ASSUME NEW c \in Calls, DeployAccepted(c) PROVE P'
  <2> DEFINE k == calls[c].key
             row == [alias |-> calls[c].alias, subject |-> calls[c].target]
  <2>1. k \in Keys /\ calls[c].alias \in Aliases /\ calls[c].target \in Calls
    BY <1>5 DEF DeployAccepted
  <2>2. row # None /\ row.alias = calls[c].alias
    BY <2>1, NoneIsNoRow DEF Command
  <2>3. /\ commands' = [commands EXCEPT ![k] = row]
        /\ apiKeys' = [apiKeys EXCEPT ![k] = "active"]
        /\ commands[k] = None
        /\ Reply(c, "deployed")
    BY <1>5 DEF DeployAccepted
  <2>4. /\ calls'[c].key = k
        /\ calls'[c].alias = calls[c].alias
        /\ calls'[c].version = calls[c].version
        /\ calls'[c].target = calls[c].target
        /\ \A d \in Calls : d # c => calls'[d] = calls[d]
    BY <2>3 DEF Reply, TypeOK, DeployCall
  <2>5. KeyPerCommand'
    BY <2>1, <2>2, <2>3 DEF TypeOK
  <2>6. CallsAsked'
    BY <1>5, <2>4 DEF DeployAccepted
  <2>7. AnsweredByCommand'
    <3>1. commands'[k] = row
      BY <2>1, <2>3 DEF TypeOK
    <3>2. \A j \in Keys : commands[j] # None => commands'[j] = commands[j]
      BY <2>3 DEF TypeOK
    <3>3. ASSUME NEW d \in Calls, d # c, calls'[d].reply \in {"deployed", "replayed"}
          PROVE  /\ calls'[d].key \in Keys
                 /\ commands'[calls'[d].key] # None
                 /\ commands'[calls'[d].key].alias = calls'[d].alias
      BY <2>4, <3>2, <3>3
    <3>4. QED
      BY <2>1, <2>2, <2>4, <3>1, <3>3
  <2>8. QED
    BY <2>5, <2>6, <2>7
<1>6. ASSUME NEW c \in Calls, DeployAliasConflict(c) PROVE P'
  BY <1>3, <1>6 DEF DeployAliasConflict, Replies
<1>7. ASSUME NEW c \in Calls, DeployRepeated(c) PROVE P'
  <2>1. CASE Matches(c)
    BY <1>3, <1>7, <2>1 DEF DeployRepeated, Replies, Matches
  <2>2. CASE ~Matches(c)
    BY <1>3, <1>7, <2>2 DEF DeployRepeated, Replies
  <2>3. QED
    BY <2>1, <2>2
<1>8. CASE Suspend
  <2>1. \A k \in Keys : apiKeys'[k] # "none" <=> apiKeys[k] # "none"
    BY <1>8 DEF Suspend
  <2>2. UNCHANGED <<commands, calls>>
    BY <1>8 DEF Suspend
  <2>3. QED
    BY <2>1, <2>2
<1>9. QED
  BY <1>1, <1>2, <1>4, <1>5, <1>6, <1>7, <1>8
  DEF DeploymentNext, deploymentVars, Deploy, PersistVersion, DeleteProduct,
      ObserveRecipient, LoadPublicationCandidate, OfferEnds, PublishX402,
      RetireX402

-----------------------------------------------------------------------------

\* Numbers are given out with a key, and a key is only revoked after that.
LEMMA NumberStep ==
  TypeOK /\ NoKeyBeforeRevision /\ [DeploymentNext]_deploymentVars
    => NoKeyBeforeRevision'
<1> SUFFICES ASSUME TypeOK, NoKeyBeforeRevision, [DeploymentNext]_deploymentVars
             PROVE  NoKeyBeforeRevision'
  OBVIOUS
<1> USE DEF NoKeyBeforeRevision, tables
<1>1. ASSUME UNCHANGED <<publication, internalKeys>> PROVE NoKeyBeforeRevision'
  BY <1>1
<1>2. CASE Suspend
  BY <1>2 DEF Suspend
<1>3. ASSUME NEW o \in Offers, NEW p \in Revisions, PublishX402(o, p)
      PROVE  NoKeyBeforeRevision'
  BY <1>3 DEF PublishX402, TypeOK
<1>4. ASSUME NEW p \in Revisions, RetireX402(p) PROVE NoKeyBeforeRevision'
  BY <1>4 DEF RetireX402, TypeOK
<1>5. QED
  BY <1>1, <1>2, <1>3, <1>4
  DEF DeploymentNext, deploymentVars, Deploy, PersistVersion, DeleteProduct,
      ObserveRecipient, DeployRead, DeployNotFound, DeployAccepted,
      DeployAliasConflict, DeployRepeated, LoadPublicationCandidate, OfferEnds

LEMMA StepIInv == IInv /\ [DeploymentNext]_deploymentVars => IInv'
BY TypeStep, PublicationStep, CommandStep, NumberStep DEF IInv

LEMMA InvariantIInv == Spec => []IInv
BY InitIInv, StepIInv, PTL DEF Spec

\* Every row keeps its columns' types, whatever the interleaving.
THEOREM DeploymentTypes == Spec => []TypeOK
<1>1. IInv => TypeOK
  BY DEF IInv
<1>2. QED
  BY <1>1, InvariantIInv, PTL

\* A revision is active exactly when the deployment points at it, although
\* publish, retire and suspend each write the two tables.
THEOREM PointerAgrees == Spec => []PointerMatchesActive
<1>1. IInv => PointerMatchesActive
  BY DEF IInv
<1>2. QED
  BY <1>1, InvariantIInv, PTL

\* The internal execution key of a revision is active exactly as long as it.
THEOREM InternalKeyAgrees == Spec => []InternalKeyFollowsRevision
<1>1. IInv => InternalKeyFollowsRevision
  BY DEF IInv
<1>2. QED
  BY <1>1, InvariantIInv, PTL

\* A deployment that is not healthy has no active key and no revision on offer.
THEOREM SuspensionIsSealed == Spec => []SuspensionSeals
<1>1. IInv => SuspensionSeals
  BY DEF IInv
<1>2. QED
  BY <1>1, InvariantIInv, PTL

\* An accepted deploy command and its key exist together.
THEOREM CommandsHaveKeys == Spec => []KeyPerCommand
<1>1. IInv => KeyPerCommand
  BY DEF IInv
<1>2. QED
  BY <1>1, InvariantIInv, PTL

\* Two successful answers under one idempotency key are to the same request.
THEOREM OneKeyOneAnswer == Spec => []OneAnswerPerKey
<1>1. IInv => OneAnswerPerKey
  BY DEF IInv, AnsweredByCommand, OneAnswerPerKey
<1>2. QED
  BY <1>1, InvariantIInv, PTL

\* No step revives a revoked key, a revoked internal key or a retired revision.
THEOREM NothingIsRevived == Spec => WithdrawalIsFinal
<1> DEFINE A == /\ \A k \in Keys : apiKeys[k] = "revoked" => apiKeys'[k] = "revoked"
                /\ \A p \in Revisions :
                     /\ publication[p] = "retired" => publication'[p] = "retired"
                     /\ internalKeys[p] = "revoked" => internalKeys'[p] = "revoked"
<1>1. ASSUME IInv, [DeploymentNext]_deploymentVars PROVE [A]_deploymentVars
  <2> USE DEF tables
  <2>1. ASSUME UNCHANGED <<apiKeys, publication, internalKeys>> PROVE A
    BY <2>1
  <2>2. ASSUME NEW c \in Calls, DeployAccepted(c) PROVE A
    <3>1. calls[c].key \in Keys
      BY <1>1, <2>2 DEF DeployAccepted, IInv, CallsAsked
    <3>2. apiKeys[calls[c].key] = "none"
      BY <1>1, <2>2, <3>1 DEF DeployAccepted, IInv, KeyPerCommand
    <3>3. QED
      BY <1>1, <2>2, <3>1, <3>2 DEF DeployAccepted, IInv, TypeOK
  <2>3. CASE Suspend
    BY <2>3 DEF Suspend
  <2>4. ASSUME NEW o \in Offers, NEW p \in Revisions, PublishX402(o, p) PROVE A
    <3>1. publication[p] = "absent"
      BY <2>4, NoneIsNoRow DEF PublishX402, IsNextRevision
    <3>2. internalKeys[p] # "revoked"
      BY <1>1, <3>1 DEF IInv, NoKeyBeforeRevision
    <3>3. QED
      BY <1>1, <2>4, <3>1, <3>2 DEF PublishX402, IInv, TypeOK
  <2>5. ASSUME NEW p \in Revisions, RetireX402(p) PROVE A
    BY <1>1, <2>5 DEF RetireX402, IInv, TypeOK
  <2>6. QED
    BY <1>1, <2>1, <2>2, <2>3, <2>4, <2>5
    DEF DeploymentNext, deploymentVars, Deploy, PersistVersion, DeleteProduct,
        ObserveRecipient, DeployRead, DeployNotFound, DeployAliasConflict,
        DeployRepeated, LoadPublicationCandidate, OfferEnds
<1>2. QED
  BY <1>1, InvariantIInv, PTL DEF Spec, WithdrawalIsFinal

-----------------------------------------------------------------------------

\* Nothing is written for a request that has not begun.
Untouched ==
  \A r \in Requests :
    pc[r] \in {"idle", "gated", "replayed"} =>
      payment[r] = "none" /\ access[r] = "none"

\* A gate that was loaded names a revision that exists, at the header's price.
GateKnown ==
  \A r \in Requests : pc[r] # "idle" =>
    /\ gate[r].header \in Headers
    /\ gate[r].publication \in Revisions
    /\ publication[gate[r].publication] # "absent"
    /\ price[gate[r].publication] = PriceOf[Transfer(r)]

\* Until its settlement is recorded a request is open.
InFlight ==
  \A r \in Requests : pc[r] \in {"begun", "verified", "settling", "settled"} =>
    payment[r] = "submitted" /\ access[r] = "authorized"

\* From then on it is paid, and not closed before it is delivered.
Paid ==
  \A r \in Requests :
    /\ pc[r] \in {"confirmed", "executing", "executed"} =>
         payment[r] = "confirmed" /\ access[r] = "authorized"
    /\ pc[r] = "delivered" => payment[r] = "confirmed"

\* What the catch block finds.
Caught ==
  \A r \in Requests : pc[r] = "catching" =>
    \/ payment[r] = "submitted" /\ access[r] = "authorized"
    \/ payment[r] = "confirmed" /\ access[r] \in {"authorized", "served"}

\* A confirmed payment has the settlement of its own, executed transfer.
Settled ==
  /\ \A r \in Requests : pc[r] = "settled" => network[Transfer(r)] = "executed"
  /\ \A r \in Requests : payment[r] = "confirmed" =>
       /\ pc[r] # "idle"
       /\ settledBy[Transfer(r)] = r
       /\ network[Transfer(r)] = "executed"

ServedIsConfirmed ==
  \A r \in Requests : access[r] = "served" => payment[r] = "confirmed"

PaidInv ==
  /\ IInv
  /\ PaidTypeOK
  /\ Untouched
  /\ GateKnown
  /\ InFlight
  /\ Paid
  /\ Caught
  /\ Settled
  /\ ServedIsConfirmed

-----------------------------------------------------------------------------

LEMMA NoneIsNoRequest ==
  None \notin Requests /\ None \notin Transfers /\ None \notin Headers
BY PaidAssumption DEF PaidAssumption

LEMMA TransferType ==
  ASSUME NEW r \in Requests, gate[r].header \in Headers
  PROVE  Transfer(r) \in Transfers
BY PaidAssumption DEF PaidAssumption, Transfer

LEMMA InitPaidInv == PaidSystemInit => PaidInv
<1> SUFFICES ASSUME PaidSystemInit PROVE PaidInv
  OBVIOUS
<1>1. IInv
  BY InitIInv DEF PaidSystemInit
<1>2. PaidTypeOK
  BY DEF PaidSystemInit, PaidInit, PaidTypeOK, NoGate
<1>3. /\ Untouched /\ GateKnown /\ InFlight /\ Paid /\ Caught /\ Settled
      /\ ServedIsConfirmed
  BY DEF PaidSystemInit, PaidInit, Untouched, GateKnown, InFlight, Paid, Caught,
         Settled, ServedIsConfirmed
<1>4. QED
  BY <1>1, <1>2, <1>3 DEF PaidInv

\* The deployment's own steps keep PaidInv: they write no row of a request,
\* and a revision that exists keeps its price.
LEMMA DeploymentStep ==
  PaidInv /\ DeploymentNext /\ UNCHANGED paidVars => PaidInv'
<1> SUFFICES ASSUME PaidInv, DeploymentNext, UNCHANGED paidVars PROVE PaidInv'
  OBVIOUS
<1>1. IInv'
  BY StepIInv DEF PaidInv
<1>2. \A p \in Revisions : publication[p] # "absent" =>
        publication'[p] # "absent" /\ price'[p] = price[p]
  <2> DEFINE Q == \A p \in Revisions : publication[p] # "absent" =>
                    publication'[p] # "absent" /\ price'[p] = price[p]
  <2>1. TypeOK
    BY DEF PaidInv, IInv
  <2> USE DEF tables
  <2>2. ASSUME UNCHANGED <<publication, price>> PROVE Q
    BY <2>2
  <2>3. CASE Suspend
    BY <2>1, <2>3 DEF Suspend, TypeOK
  <2>4. ASSUME NEW o \in Offers, NEW q \in Revisions, PublishX402(o, q) PROVE Q
    <3>1. publication[q] = "absent"
      BY <2>4, NoneIsNoRow DEF PublishX402, IsNextRevision
    <3>2. QED
      BY <2>1, <2>4, <3>1 DEF PublishX402, TypeOK
  <2>5. ASSUME NEW q \in Revisions, RetireX402(q) PROVE Q
    BY <2>1, <2>5 DEF RetireX402, TypeOK
  <2>6. QED
    BY <2>2, <2>3, <2>4, <2>5
    DEF DeploymentNext, Deploy, PersistVersion, DeleteProduct, ObserveRecipient,
        DeployRead, DeployNotFound, DeployAccepted, DeployAliasConflict,
        DeployRepeated, LoadPublicationCandidate, OfferEnds
<1>3. UNCHANGED <<pc, gate, settlementSucceeded, payment, access, settledBy,
                  ledger, served, usage, network, submitter>>
  BY DEF paidVars, rows, locals, external
<1>4. PaidTypeOK'
  BY <1>3 DEF PaidInv, PaidTypeOK
<1>5. GateKnown'
  BY <1>2, <1>3 DEF PaidInv, GateKnown, Transfer
<1>6. /\ Untouched' /\ InFlight' /\ Paid' /\ Caught' /\ Settled'
      /\ ServedIsConfirmed'
  BY <1>3 DEF PaidInv, Untouched, InFlight, Paid, Caught, Settled, Transfer,
              ServedIsConfirmed
<1>7. QED
  BY <1>1, <1>4, <1>5, <1>6 DEF PaidInv

\* A request's own steps, the network's and a crash keep the types.
LEMMA PaidTypeStep ==
  TypeOK /\ PaidTypeOK /\ GateKnown /\ PaidNext /\ UNCHANGED deploymentVars
    => PaidTypeOK'
<1> SUFFICES ASSUME TypeOK, PaidTypeOK, GateKnown, PaidNext PROVE PaidTypeOK'
  OBVIOUS
<1> USE DEF PaidTypeOK, Goto, Awaiting, Ended, rows, locals, external
<1>1. ASSUME NEW r \in Requests, NEW h \in Headers, LoadX402Gate(r, h)
      PROVE  PaidTypeOK'
  <2>1. deployment.active \in Nat \union {None}
    BY DEF TypeOK, Deployment
  <2>2. QED
    BY <1>1, <2>1 DEF LoadX402Gate
<1>2. ASSUME NEW r \in Requests,
             BeginPaidRequest(r) \/ BeginReplayed(r) \/ BeginThrows(r)
      PROVE  PaidTypeOK'
  BY <1>2 DEF BeginPaidRequest, BeginReplayed, BeginThrows, InsertPaidRequest
<1>3. ASSUME NEW r \in Requests, VerifyAccepts(r) \/ VerifyRefuses(r)
      PROVE  PaidTypeOK'
  BY <1>3 DEF VerifyAccepts, VerifyRefuses, FailPaidRequest
<1>4. ASSUME NEW r \in Requests,
             SendSettle(r) \/ SettleSucceeds(r) \/ SettleRefuses(r)
      PROVE  PaidTypeOK'
  <2>1. Transfer(r) \in Transfers
    BY <1>4, TransferType
    DEF SendSettle, SettleSucceeds, SettleRefuses, GateKnown
  <2>2. CASE SendSettle(r)
    BY <2>1, <2>2 DEF SendSettle
  <2>3. CASE SettleSucceeds(r) \/ SettleRefuses(r)
    BY <2>3 DEF SettleSucceeds, SettleRefuses, FailPaidRequest
  <2>4. QED
    BY <1>4, <2>2, <2>3
<1>5. ASSUME NEW r \in Requests, ConfirmPaidSettlement(r) \/ ConfirmAnswerLost(r)
      PROVE  PaidTypeOK'
  <2>1. RecordSettlement(r) /\ Transfer(r) \in Transfers
    BY <1>5, TransferType
    DEF ConfirmPaidSettlement, ConfirmAnswerLost, GateKnown
  <2>2. /\ settledBy' \in [Transfers -> Requests \union {None}]
        /\ payment' \in [Requests -> {"none", "submitted", "confirmed", "failed"}]
        /\ ledger' \subseteq Requests \X EntryTypes
    BY <2>1 DEF RecordSettlement
  <2>3. UNCHANGED <<access, usage, gate, settlementSucceeded, served, network,
                    submitter>>
    BY <1>5, <2>1 DEF ConfirmPaidSettlement, ConfirmAnswerLost, RecordSettlement
  <2>4. pc' \in [Requests -> {"idle"} \union Awaiting \union Ended]
    BY <1>5 DEF ConfirmPaidSettlement, ConfirmAnswerLost
  <2>5. QED
    BY <2>2, <2>3, <2>4
<1>6. ASSUME NEW r \in Requests,
             LoadAuthorized(r) \/ RecordProviderRequests(r) \/ UsageAnswerLost(r)
      PROVE  PaidTypeOK'
  <2>1. deployment.active \in Nat \union {None}
    BY DEF TypeOK, Deployment
  <2>2. QED
    BY <1>6, <2>1
    DEF LoadAuthorized, RecordProviderRequests, UsageAnswerLost, WriteUsage
<1>7. ASSUME NEW r \in Requests, CompletePaidRequest(r) \/ CompleteAnswerLost(r)
      PROVE  PaidTypeOK'
  BY <1>7 DEF CompletePaidRequest, CompleteAnswerLost, Serve
<1>8. ASSUME NEW r \in Requests,
             Throws(r) \/ RecordFailure(r) \/ FailureNotRecorded(r)
      PROVE  PaidTypeOK'
  BY <1>8 DEF Throws, RecordFailure, FailureNotRecorded, FailPaidRequest
<1>9. ASSUME NEW t \in Transfers, NetworkDecides(t) PROVE PaidTypeOK'
  BY <1>9 DEF NetworkDecides
<1>10. CASE Crash
  BY <1>10 DEF Crash
<1>11. QED
  BY <1>1, <1>2, <1>3, <1>4, <1>5, <1>6, <1>7, <1>8, <1>9, <1>10
  DEF PaidNext, Arrives, Proceeds, DatabaseFails

\* A gate is loaded once, from a revision on offer at the header's price.
LEMMA GateStep ==
  TypeOK /\ PaidTypeOK /\ GateKnown /\ PaidNext /\ UNCHANGED deploymentVars
    => GateKnown'
<1> SUFFICES ASSUME TypeOK, PaidTypeOK, GateKnown, PaidNext,
                    UNCHANGED <<publication, price>>
             PROVE  GateKnown'
  BY DEF deploymentVars, tables
<1> USE DEF PaidTypeOK, GateKnown, Goto, Transfer, rows, locals, external
<1>1. ASSUME NEW r \in Requests, NEW h \in Headers, LoadX402Gate(r, h)
      PROVE  GateKnown'
  BY <1>1 DEF LoadX402Gate, GateOpen
<1>2. ASSUME UNCHANGED gate, \A r \in Requests : pc[r] = "idle" => pc'[r] = "idle"
      PROVE  GateKnown'
  BY <1>2
<1>3. ASSUME NEW r \in Requests, Proceeds(r) \/ DatabaseFails(r)
      PROVE  GateKnown'
  BY <1>2, <1>3
  DEF Proceeds, DatabaseFails, BeginPaidRequest, BeginReplayed, BeginThrows,
      VerifyAccepts, VerifyRefuses, SendSettle, SettleSucceeds, SettleRefuses,
      ConfirmPaidSettlement, ConfirmAnswerLost, LoadAuthorized,
      RecordProviderRequests, UsageAnswerLost, CompletePaidRequest,
      CompleteAnswerLost, Throws, RecordFailure, FailureNotRecorded
<1>4. ASSUME NEW t \in Transfers, NetworkDecides(t) PROVE GateKnown'
  BY <1>4 DEF NetworkDecides
<1>5. CASE Crash
  BY <1>2, <1>5 DEF Crash, Awaiting
<1>6. QED
  BY <1>1, <1>3, <1>4, <1>5 DEF PaidNext, Arrives

\* The rows of a request follow its program counter.
LEMMA RowsStep ==
  PaidTypeOK /\ Untouched /\ InFlight /\ Paid /\ Caught /\ ServedIsConfirmed
    /\ PaidNext
    => Untouched' /\ InFlight' /\ Paid' /\ Caught' /\ ServedIsConfirmed'
<1> DEFINE P == Untouched /\ InFlight /\ Paid /\ Caught /\ ServedIsConfirmed
<1> SUFFICES ASSUME PaidTypeOK, P, PaidNext PROVE P'
  OBVIOUS
<1> USE DEF PaidTypeOK, Untouched, InFlight, Paid, Caught, ServedIsConfirmed,
            Goto, rows, locals, external
<1>1. ASSUME NEW r \in Requests, NEW h \in Headers, LoadX402Gate(r, h)
      PROVE  P'
  BY <1>1 DEF LoadX402Gate
<1>2. ASSUME NEW r \in Requests,
             \A q \in Requests : q # r =>
               pc'[q] = pc[q] /\ payment'[q] = payment[q] /\ access'[q] = access[q],
             pc'[r] \in {"payment_required", "failed"}
               /\ (access'[r] = "served" => payment'[r] = "confirmed")
      PROVE  P'
  <2>1. Untouched'
    BY <1>2
  <2>2. InFlight'
    BY <1>2
  <2>3. Paid'
    BY <1>2
  <2>4. Caught'
    BY <1>2
  <2>5. ServedIsConfirmed'
    BY <1>2
  <2>6. QED
    BY <2>1, <2>2, <2>3, <2>4, <2>5
<1>3. ASSUME NEW r \in Requests, BeginPaidRequest(r) \/ BeginReplayed(r) PROVE P'
  <2>1. CASE BeginPaidRequest(r)
    <3>1. /\ pc' = [pc EXCEPT ![r] = "begun"]
          /\ payment' = [payment EXCEPT ![r] = "submitted"]
          /\ access' = [access EXCEPT ![r] = "authorized"]
      BY <2>1 DEF BeginPaidRequest, InsertPaidRequest
    <3>2. QED
      BY <3>1
  <2>2. CASE BeginReplayed(r)
    BY <2>2 DEF BeginReplayed
  <2>3. QED
    BY <1>3, <2>1, <2>2
<1>4. ASSUME NEW r \in Requests, BeginThrows(r) PROVE P'
  <2>1. /\ pc'[r] = "failed"
        /\ \A q \in Requests : q # r => pc'[q] = pc[q]
    BY <1>4 DEF BeginThrows
  <2>2. CASE InsertPaidRequest(r)
    BY <1>2, <2>1, <2>2 DEF InsertPaidRequest
  <2>3. CASE UNCHANGED <<payment, access>>
    BY <1>2, <2>1, <2>3
  <2>4. QED
    BY <1>4, <2>2, <2>3 DEF BeginThrows
<1>4a. ASSUME NEW r \in Requests, VerifyAccepts(r) \/ SendSettle(r)
                                    \/ SettleSucceeds(r)
       PROVE  P'
  BY <1>4a DEF VerifyAccepts, SendSettle, SettleSucceeds
<1>4b. ASSUME NEW r \in Requests,
              VerifyRefuses(r) \/ SettleRefuses(r) \/ RecordFailure(r)
       PROVE  P'
  <2>1. ASSUME NEW keep, FailPaidRequest(r, keep)
        PROVE  /\ access' = [access EXCEPT ![r] = "failed"]
               /\ \A q \in Requests : q # r => payment'[q] = payment[q]
    BY <2>1 DEF FailPaidRequest
  <2>2. /\ access' = [access EXCEPT ![r] = "failed"]
        /\ \A q \in Requests : q # r => payment'[q] = payment[q]
    BY <1>4b, <2>1 DEF VerifyRefuses, SettleRefuses, RecordFailure
  <2>3. /\ pc'[r] \in {"payment_required", "failed"}
        /\ \A q \in Requests : q # r => pc'[q] = pc[q]
    BY <1>4b DEF VerifyRefuses, SettleRefuses, RecordFailure
  <2>4. /\ access'[r] = "failed"
        /\ \A q \in Requests : q # r => access'[q] = access[q]
    BY <2>2
  <2>5. QED
    BY <1>2, <2>2, <2>3, <2>4
<1>5. ASSUME NEW r \in Requests, ConfirmPaidSettlement(r) \/ ConfirmAnswerLost(r)
      PROVE  P'
  BY <1>5 DEF ConfirmPaidSettlement, ConfirmAnswerLost, RecordSettlement
<1>6. ASSUME NEW r \in Requests,
             LoadAuthorized(r) \/ RecordProviderRequests(r) \/ UsageAnswerLost(r)
      PROVE  P'
  BY <1>6 DEF LoadAuthorized, RecordProviderRequests, UsageAnswerLost, WriteUsage
<1>7. ASSUME NEW r \in Requests, CompletePaidRequest(r) \/ CompleteAnswerLost(r)
      PROVE  P'
  BY <1>7 DEF CompletePaidRequest, CompleteAnswerLost, Serve
<1>8. ASSUME NEW r \in Requests, Throws(r) PROVE P'
  BY <1>8 DEF Throws
<1>9. ASSUME NEW r \in Requests, FailureNotRecorded(r) PROVE P'
  BY <1>9 DEF FailureNotRecorded
<1>10. ASSUME NEW t \in Transfers, NetworkDecides(t) PROVE P'
  BY <1>10 DEF NetworkDecides
<1>11. CASE Crash
  BY <1>11 DEF Crash, Awaiting
<1>12. QED
  BY <1>1, <1>3, <1>4, <1>5, <1>6, <1>7, <1>8, <1>9, <1>10, <1>11, <1>4a, <1>4b
  DEF PaidNext, Arrives, Proceeds, DatabaseFails

\* A settlement is recorded once per transfer, for an executed transfer, and
\* neither is taken back.
LEMMA SettledStep ==
  PaidTypeOK /\ Untouched /\ GateKnown /\ InFlight /\ Settled /\ PaidNext => Settled'
<1> SUFFICES ASSUME PaidTypeOK, Untouched, GateKnown, InFlight, Settled, PaidNext
             PROVE  Settled'
  OBVIOUS
<1> USE DEF PaidTypeOK, Settled, Goto, Transfer, rows, locals, external
<1>1. ASSUME NEW r \in Requests, NEW h \in Headers, LoadX402Gate(r, h)
      PROVE  Settled'
  BY <1>1 DEF LoadX402Gate, Untouched
<1>2. ASSUME NEW r \in Requests,
             UNCHANGED <<gate, settledBy, network>>,
             \A q \in Requests : /\ payment'[q] = "confirmed" => payment[q] = "confirmed"
                                 /\ pc'[q] = "settled" => pc[q] = "settled"
                                 /\ pc'[q] = "idle" => pc[q] = "idle"
      PROVE  Settled'
  BY <1>2
<1>3. ASSUME NEW r \in Requests,
             BeginPaidRequest(r) \/ BeginReplayed(r) \/ BeginThrows(r)
      PROVE  Settled'
  BY <1>2, <1>3 DEF BeginPaidRequest, BeginReplayed, BeginThrows, InsertPaidRequest
<1>4. ASSUME NEW r \in Requests,
             VerifyAccepts(r) \/ VerifyRefuses(r) \/ SettleRefuses(r)
      PROVE  Settled'
  BY <1>2, <1>4 DEF VerifyAccepts, VerifyRefuses, SettleRefuses, FailPaidRequest
<1>5. ASSUME NEW r \in Requests, SendSettle(r) PROVE Settled'
  BY <1>5 DEF SendSettle
<1>6. ASSUME NEW r \in Requests, SettleSucceeds(r) PROVE Settled'
  BY <1>6 DEF SettleSucceeds
<1>7. ASSUME NEW r \in Requests, ConfirmPaidSettlement(r) \/ ConfirmAnswerLost(r)
      PROVE  Settled'
  <2>1. /\ RecordSettlement(r)
        /\ pc[r] = "settled"
        /\ Transfer(r) \in Transfers
        /\ network[Transfer(r)] = "executed"
    BY <1>7, TransferType DEF ConfirmPaidSettlement, ConfirmAnswerLost, GateKnown
  <2>2. /\ UNCHANGED <<gate, network>>
        /\ \A q \in Requests : q # r => pc'[q] = pc[q] /\ payment'[q] = payment[q]
        /\ pc'[r] \in {"confirmed", "catching"}
    BY <1>7, <2>1
    DEF ConfirmPaidSettlement, ConfirmAnswerLost, RecordSettlement
  <2>3. settledBy[Transfer(r)] = None
        /\ settledBy' = [settledBy EXCEPT ![Transfer(r)] = r]
    BY <2>1 DEF RecordSettlement
  <2>4. ASSUME NEW q \in Requests, q # r, payment[q] = "confirmed"
        PROVE  settledBy'[Transfer(q)] = q
    BY <2>3, <2>4, NoneIsNoRequest
  <2>5. settledBy'[Transfer(r)] = r
    BY <2>1, <2>3
  <2>6. QED
    BY <2>1, <2>2, <2>4, <2>5
<1>8. ASSUME NEW r \in Requests,
             \/ LoadAuthorized(r) \/ RecordProviderRequests(r)
             \/ UsageAnswerLost(r) \/ CompletePaidRequest(r)
             \/ CompleteAnswerLost(r)
      PROVE  Settled'
  BY <1>2, <1>8
  DEF LoadAuthorized, RecordProviderRequests, UsageAnswerLost, WriteUsage,
      CompletePaidRequest, CompleteAnswerLost, Serve
<1>9. ASSUME NEW r \in Requests,
             Throws(r) \/ RecordFailure(r) \/ FailureNotRecorded(r)
      PROVE  Settled'
  BY <1>2, <1>9 DEF Throws, RecordFailure, FailureNotRecorded, FailPaidRequest
<1>10. ASSUME NEW t \in Transfers, NetworkDecides(t) PROVE Settled'
  BY <1>10 DEF NetworkDecides
<1>11. CASE Crash
  BY <1>11 DEF Crash, Awaiting
<1>12. QED
  BY <1>1, <1>3, <1>4, <1>5, <1>6, <1>7, <1>8, <1>9, <1>10, <1>11
  DEF PaidNext, Arrives, Proceeds, DatabaseFails

LEMMA StepPaidInv == PaidInv /\ [PaidSystemNext]_vars => PaidInv'
<1> SUFFICES ASSUME PaidInv, [PaidSystemNext]_vars PROVE PaidInv'
  OBVIOUS
<1>1. CASE DeploymentNext /\ UNCHANGED paidVars
  BY <1>1, DeploymentStep
<1>2. CASE PaidNext /\ UNCHANGED deploymentVars
  <2>1. IInv'
    BY <1>2, StepIInv DEF PaidInv
  <2>2. QED
    BY <1>2, <2>1, PaidTypeStep, GateStep, RowsStep, SettledStep
    DEF PaidInv, IInv
<1>3. CASE UNCHANGED vars
  <2>1. IInv' /\ UNCHANGED deploymentVars
    BY <1>3, StepIInv DEF PaidInv, vars
  <2>2. UNCHANGED <<pc, gate, settlementSucceeded, payment, access, settledBy,
                    ledger, served, usage, network, submitter, publication, price>>
    BY <1>3 DEF vars, deploymentVars, tables, paidVars, rows, locals, external
  <2>3. QED
    BY <2>1, <2>2
    DEF PaidInv, PaidTypeOK, Untouched, GateKnown, InFlight, Paid, Caught,
        Settled, Transfer, ServedIsConfirmed
<1>4. QED
  BY <1>1, <1>2, <1>3 DEF PaidSystemNext

LEMMA InvariantPaidInv == PaidSpec => []PaidInv
BY InitPaidInv, StepPaidInv, PTL DEF PaidSpec

-----------------------------------------------------------------------------

\* The rows of a paid request keep their types in every interleaving.
THEOREM PaidTypes == PaidSpec => []PaidTypeOK
<1>1. PaidInv => PaidTypeOK
  BY DEF PaidInv
<1>2. QED
  BY <1>1, InvariantPaidInv, PTL

\* A request recorded as served was paid, by an executed transfer of its own,
\* at the price of its revision.
THEOREM ServedIsPaid == PaidSpec => []ServedWasPaid
<1>1. PaidInv => ServedWasPaid
  <2> SUFFICES ASSUME PaidInv, NEW r \in Requests, access[r] = "served"
               PROVE  /\ payment[r] = "confirmed"
                      /\ \E t \in Transfers :
                           /\ settledBy[t] = r
                           /\ network[t] = "executed"
                           /\ PriceOf[t] = price[gate[r].publication]
    BY DEF ServedWasPaid
  <2>1. payment[r] = "confirmed"
    BY DEF PaidInv, ServedIsConfirmed
  <2>2. /\ pc[r] # "idle"
        /\ settledBy[Transfer(r)] = r
        /\ network[Transfer(r)] = "executed"
    BY <2>1 DEF PaidInv, Settled
  <2>3. /\ Transfer(r) \in Transfers
        /\ PriceOf[Transfer(r)] = price[gate[r].publication]
    BY <2>2, TransferType DEF PaidInv, GateKnown
  <2>4. QED
    BY <2>1, <2>2, <2>3
<1>2. QED
  BY <1>1, InvariantPaidInv, PTL

\* No more sales are recognised than transfers were executed: the transfer of
\* a confirmed payment names it as its settlement, so Transfer is one-to-one.
THEOREM RevenueNeverExceedsTransfers == PaidSpec => []RevenueIsReal
<1>1. PaidInv => RevenueIsReal
  <2> SUFFICES ASSUME PaidInv PROVE RevenueIsReal
    OBVIOUS
  <2> DEFINE C == {r \in Requests : payment[r] = "confirmed"}
             E == {t \in Transfers : network[t] = "executed"}
             f == [r \in C |-> Transfer(r)]
  <2>1. ASSUME NEW r \in C
        PROVE  Transfer(r) \in E /\ settledBy[Transfer(r)] = r
    BY TransferType DEF PaidInv, Settled, GateKnown
  <2>2. f \in [C -> E]
    BY <2>1
  <2>3. ASSUME NEW r \in C, NEW q \in C, f[r] = f[q] PROVE r = q
    BY <2>1, <2>3
  <2>4. f \in Injection(C, E)
    BY <2>2, <2>3 DEF Injection, IsInjective
  <2>5. IsFiniteSet(E)
    BY FS_Subset, PaidAssumption DEF PaidAssumption
  <2> HIDE DEF C, E, f
  <2>6. Cardinality(C) <= Cardinality(E)
    BY <2>4, <2>5, FS_Injection
  <2>7. QED
    BY <2>6 DEF RevenueIsReal, C, E
<1>2. QED
  BY <1>1, InvariantPaidInv, PTL

\* No step takes a confirmed payment back.
LEMMA ConfirmedStep ==
  PaidInv /\ [PaidSystemNext]_vars
    => \A r \in Requests : payment[r] = "confirmed" => payment'[r] = "confirmed"
<1> DEFINE A == \A r \in Requests : payment[r] = "confirmed" => payment'[r] = "confirmed"
<1> SUFFICES ASSUME PaidInv, [PaidSystemNext]_vars PROVE A
  OBVIOUS
<1> USE DEF rows, locals, external
<1>1. PaidTypeOK /\ Untouched
  BY DEF PaidInv
<1>2. ASSUME UNCHANGED payment PROVE A
  BY <1>2
<1>3. ASSUME NEW r \in Requests, InsertPaidRequest(r), pc[r] = "gated" PROVE A
  BY <1>1, <1>3 DEF InsertPaidRequest, PaidTypeOK, Untouched
<1>4. ASSUME NEW r \in Requests, NEW keep, FailPaidRequest(r, keep) PROVE A
  BY <1>1, <1>4 DEF FailPaidRequest, PaidTypeOK
<1>5. ASSUME NEW r \in Requests, RecordSettlement(r) PROVE A
  BY <1>1, <1>5 DEF RecordSettlement, PaidTypeOK
<1>6. ASSUME NEW r \in Requests, Arrives(r) \/ Proceeds(r) \/ DatabaseFails(r)
      PROVE  A
  BY <1>2, <1>3, <1>4, <1>5, <1>6
  DEF Arrives, Proceeds, DatabaseFails, LoadX402Gate, BeginPaidRequest,
      BeginReplayed, BeginThrows, VerifyAccepts, VerifyRefuses, SendSettle,
      SettleSucceeds, SettleRefuses, ConfirmPaidSettlement, ConfirmAnswerLost,
      LoadAuthorized, RecordProviderRequests, UsageAnswerLost, WriteUsage,
      CompletePaidRequest, CompleteAnswerLost, Serve, Throws, RecordFailure,
      FailureNotRecorded, Goto
<1>7. QED
  BY <1>2, <1>6
  DEF PaidSystemNext, PaidNext, NetworkDecides, Crash, vars, paidVars

\* A confirmed payment is never taken back.
THEOREM ConfirmedForGood == PaidSpec => ConfirmedIsFinal
BY ConfirmedStep, InvariantPaidInv, PTL DEF PaidSpec, ConfirmedIsFinal

\* An execution is started, and its provider requests are recorded, for
\* confirmed payments only.
THEOREM ProviderUseIsPaid == PaidSpec => []NoUnpaidProviderUse
<1> DEFINE N == NoUnpaidProviderUse
<1>1. PaidSystemInit => N
  BY DEF PaidSystemInit, PaidInit, NoUnpaidProviderUse
<1>2. ASSUME PaidInv, N, [PaidSystemNext]_vars PROVE N'
  <2> USE DEF NoUnpaidProviderUse, rows, locals, external
  <2>1. PaidTypeOK /\ Paid
    BY <1>2 DEF PaidInv
  <2>2. \A r \in Requests : payment[r] = "confirmed" => payment'[r] = "confirmed"
    BY <1>2, ConfirmedStep
  <2>3. ASSUME UNCHANGED <<served, usage>> PROVE N'
    BY <1>2, <2>2, <2>3
  <2>4. ASSUME NEW r \in Requests,
               LoadAuthorized(r) \/ RecordProviderRequests(r) \/ UsageAnswerLost(r)
        PROVE  N'
    <3>1. payment'[r] = "confirmed"
      BY <2>1, <2>2, <2>4
      DEF LoadAuthorized, RecordProviderRequests, UsageAnswerLost, Goto, Paid
    <3>2. \A q \in Requests : q # r =>
            served'[q] = served[q] /\ (q \in usage' <=> q \in usage)
      BY <2>1, <2>4
      DEF LoadAuthorized, RecordProviderRequests, UsageAnswerLost, WriteUsage,
          PaidTypeOK
    <3>3. QED
      BY <1>2, <2>2, <3>1, <3>2
  <2>5. ASSUME NEW r \in Requests, Arrives(r) \/ Proceeds(r) \/ DatabaseFails(r)
        PROVE  N'
    BY <2>3, <2>4, <2>5
    DEF Arrives, Proceeds, DatabaseFails, LoadX402Gate, BeginPaidRequest,
        BeginReplayed, BeginThrows, InsertPaidRequest, VerifyAccepts,
        VerifyRefuses, SendSettle, SettleSucceeds, SettleRefuses,
        ConfirmPaidSettlement, ConfirmAnswerLost, RecordSettlement,
        CompletePaidRequest, CompleteAnswerLost, Serve, Throws, RecordFailure,
        FailureNotRecorded, FailPaidRequest, Goto
  <2>6. QED
    BY <1>2, <2>3, <2>5
    DEF PaidSystemNext, PaidNext, NetworkDecides, Crash, vars, paidVars
<1> HIDE DEF N
<1>3. PaidSpec => []N
  BY <1>1, <1>2, InvariantPaidInv, PTL DEF PaidSpec
<1>4. QED
  BY <1>3 DEF N

\* Data is queried only for the revision on offer: the internal key a paid
\* request is executed with is active only while its revision is, and that is
\* the one the deployment points at.
THEOREM ExecutionNeedsOffer == PaidSpec => ExecutesOnlyOffered
<1> DEFINE A == \A r \in Requests :
                  pc[r] # "executing" /\ pc'[r] = "executing"
                  => GateOpen(gate[r].publication)
<1>1. ASSUME PaidInv, [PaidSystemNext]_vars PROVE [A]_vars
  <2> USE DEF rows, locals, external
  <2>1. PaidTypeOK
    BY <1>1 DEF PaidInv
  <2>2. ASSUME \A r \in Requests : pc'[r] = "executing" => pc[r] = "executing"
        PROVE  A
    BY <2>2
  <2>3. ASSUME NEW r \in Requests, LoadAuthorized(r) PROVE A
    <3>1. gate[r].publication \in Revisions
      BY <1>1, <2>3 DEF PaidInv, GateKnown, LoadAuthorized, Goto
    <3>2. GateOpen(gate[r].publication)
      BY <1>1, <2>3, <3>1
      DEF LoadAuthorized, InternallyAuthorized, GateOpen, PaidInv, IInv,
          InternalKeyFollowsRevision, PointerMatchesActive
    <3>3. QED
      BY <2>1, <2>3, <3>2 DEF LoadAuthorized, Goto, PaidTypeOK
  <2>4. ASSUME NEW r \in Requests, Arrives(r) \/ Proceeds(r) \/ DatabaseFails(r)
        PROVE  A
    BY <2>1, <2>2, <2>3, <2>4
    DEF Arrives, Proceeds, DatabaseFails, LoadX402Gate, BeginPaidRequest,
        BeginReplayed, BeginThrows, VerifyAccepts, VerifyRefuses, SendSettle,
        SettleSucceeds, SettleRefuses, ConfirmPaidSettlement, ConfirmAnswerLost,
        RecordProviderRequests, UsageAnswerLost,
        CompletePaidRequest, CompleteAnswerLost, Throws, RecordFailure,
        FailureNotRecorded, Goto, PaidTypeOK
  <2>5. CASE Crash
    BY <2>1, <2>2, <2>5 DEF Crash, PaidTypeOK
  <2>6. QED
    BY <1>1, <2>2, <2>4, <2>5
    DEF PaidSystemNext, PaidNext, NetworkDecides, vars, paidVars
<1>2. QED
  BY <1>1, InvariantPaidInv, PTL DEF PaidSpec, ExecutesOnlyOffered

-----------------------------------------------------------------------------

\* Both ledger entries are written with the confirmation, and only with it.
THEOREM LedgerTellsTheSame == PaidSpec => []LedgerMatchesPayments
<1> DEFINE L == LedgerMatchesPayments
<1>1. PaidSystemInit => L
  BY DEF PaidSystemInit, PaidInit, LedgerMatchesPayments
<1>2. ASSUME PaidInv, L, [PaidSystemNext]_vars PROVE L'
  <2> USE DEF LedgerMatchesPayments, rows, locals, external
  <2>1. PaidTypeOK /\ Untouched
    BY <1>2 DEF PaidInv
  <2>2. ASSUME UNCHANGED <<payment, ledger>> PROVE L'
    BY <1>2, <2>2
  <2>3. ASSUME NEW r \in Requests, UNCHANGED ledger,
               payment[r] # "confirmed", payment'[r] # "confirmed",
               \A q \in Requests : q # r => payment'[q] = payment[q]
        PROVE  L'
    BY <1>2, <2>3
  <2>4. ASSUME NEW r \in Requests, InsertPaidRequest(r), pc[r] = "gated",
               UNCHANGED ledger
        PROVE  L'
    BY <2>1, <2>3, <2>4 DEF InsertPaidRequest, PaidTypeOK, Untouched
  <2>5. ASSUME NEW r \in Requests, NEW keep, FailPaidRequest(r, keep) PROVE L'
    <3>1. CASE payment[r] = "confirmed" \/ keep
      BY <2>2, <2>5, <3>1 DEF FailPaidRequest
    <3>2. CASE ~(payment[r] = "confirmed" \/ keep)
      BY <2>1, <2>3, <2>5, <3>2 DEF FailPaidRequest, PaidTypeOK
    <3>3. QED
      BY <3>1, <3>2
  <2>6. ASSUME NEW r \in Requests, RecordSettlement(r) PROVE L'
    <3>1. /\ payment'[r] = "confirmed"
          /\ \A q \in Requests : q # r => payment'[q] = payment[q]
          /\ ledger' = ledger \union ({r} \X EntryTypes)
      BY <2>1, <2>6 DEF RecordSettlement, PaidTypeOK
    <3>2. ASSUME NEW q \in Requests, q # r, NEW e \in EntryTypes
          PROVE  <<q, e>> \in ledger' <=> <<q, e>> \in ledger
      BY <3>1, <3>2
    <3>3. ASSUME NEW q \in Requests, q # r, payment'[q] = "confirmed"
          PROVE  {q} \X EntryTypes \subseteq ledger'
      BY <1>2, <3>1, <3>3
    <3>4. {r} \X EntryTypes \subseteq ledger'
      BY <3>1
    <3>5. ASSUME NEW q \in Requests, payment'[q] # "confirmed"
          PROVE  \A e \in EntryTypes : <<q, e>> \notin ledger'
      BY <1>2, <3>1, <3>2, <3>5
    <3>6. QED
      BY <3>3, <3>4, <3>5
  <2>7. ASSUME NEW r \in Requests, Arrives(r) \/ Proceeds(r) \/ DatabaseFails(r)
        PROVE  L'
    BY <2>2, <2>4, <2>5, <2>6, <2>7
    DEF Arrives, Proceeds, DatabaseFails, LoadX402Gate, BeginPaidRequest,
        BeginReplayed, BeginThrows, VerifyAccepts, VerifyRefuses, SendSettle,
        SettleSucceeds, SettleRefuses, ConfirmPaidSettlement, ConfirmAnswerLost,
        LoadAuthorized, RecordProviderRequests, UsageAnswerLost, WriteUsage,
        CompletePaidRequest, CompleteAnswerLost, Serve, Throws, RecordFailure,
        FailureNotRecorded, Goto
  <2>8. QED
    BY <1>2, <2>2, <2>7
    DEF PaidSystemNext, PaidNext, NetworkDecides, Crash, vars, paidVars
<1> HIDE DEF L
<1>3. PaidSpec => []L
  BY <1>1, <1>2, InvariantPaidInv, PTL DEF PaidSpec
<1>4. QED
  BY <1>3 DEF L

\* A request is told of its settlement while its payment is submitted, and from
\* then on it is in one of these places.
ToldOfSettlement ==
  \A r \in Requests : settlementSucceeded[r] =>
    /\ payment[r] \in {"submitted", "confirmed"}
    /\ pc[r] \in {"settled", "confirmed", "executing", "executed", "delivered",
                 "catching", "failed", "crashed"}

LEMMA ToldStep ==
  ASSUME PaidInv, ToldOfSettlement, [PaidSystemNext]_vars
  PROVE  ToldOfSettlement'
<1> USE DEF ToldOfSettlement, rows, locals, external
<1>1. PaidTypeOK /\ InFlight
  BY DEF PaidInv
<1>2. ASSUME UNCHANGED <<payment, settlementSucceeded, pc>>
      PROVE  ToldOfSettlement'
  BY <1>2
\* What the other requests were told, and where they are, stays.
<1>3. ASSUME NEW r \in Requests,
             \A q \in Requests : q # r =>
               /\ payment'[q] = payment[q]
               /\ settlementSucceeded'[q] = settlementSucceeded[q]
               /\ pc'[q] = pc[q],
             settlementSucceeded'[r] =>
               /\ payment'[r] \in {"submitted", "confirmed"}
               /\ pc'[r] \in {"settled", "confirmed", "executing", "executed",
                              "delivered", "catching", "failed", "crashed"}
      PROVE  ToldOfSettlement'
  BY <1>3
<1>4. ASSUME NEW r \in Requests, Arrives(r) PROVE ToldOfSettlement'
  BY <1>1, <1>3, <1>4 DEF Arrives, LoadX402Gate, Goto, PaidTypeOK
<1>5. ASSUME NEW r \in Requests, BeginPaidRequest(r) \/ BeginReplayed(r) \/ BeginThrows(r)
      PROVE  ToldOfSettlement'
  BY <1>1, <1>3, <1>5
  DEF BeginPaidRequest, BeginReplayed, BeginThrows, InsertPaidRequest, Goto, PaidTypeOK
<1>6. ASSUME NEW r \in Requests,
             \/ VerifyAccepts(r) \/ VerifyRefuses(r) \/ SendSettle(r) \/ SettleRefuses(r)
      PROVE  ToldOfSettlement'
  BY <1>1, <1>3, <1>6
  DEF VerifyAccepts, VerifyRefuses, SendSettle, SettleRefuses, FailPaidRequest, Goto,
      PaidTypeOK
<1>7. ASSUME NEW r \in Requests, SettleSucceeds(r) PROVE ToldOfSettlement'
  BY <1>1, <1>3, <1>7 DEF SettleSucceeds, InFlight, Goto, PaidTypeOK
<1>8. ASSUME NEW r \in Requests, ConfirmPaidSettlement(r) \/ ConfirmAnswerLost(r)
      PROVE  ToldOfSettlement'
  BY <1>1, <1>3, <1>8
  DEF ConfirmPaidSettlement, ConfirmAnswerLost, RecordSettlement, Goto, PaidTypeOK
<1>9. ASSUME NEW r \in Requests,
             \/ LoadAuthorized(r) \/ RecordProviderRequests(r) \/ UsageAnswerLost(r)
             \/ CompletePaidRequest(r) \/ CompleteAnswerLost(r) \/ Throws(r)
             \/ FailureNotRecorded(r)
      PROVE  ToldOfSettlement'
  BY <1>1, <1>3, <1>9
  DEF LoadAuthorized, RecordProviderRequests, UsageAnswerLost, WriteUsage,
      CompletePaidRequest, CompleteAnswerLost, Serve, Throws, FailureNotRecorded, Goto,
      PaidTypeOK
<1>10. ASSUME NEW r \in Requests, RecordFailure(r) PROVE ToldOfSettlement'
  BY <1>1, <1>3, <1>10 DEF RecordFailure, FailPaidRequest, Goto, PaidTypeOK
<1>11. CASE Crash
  BY <1>1, <1>11 DEF Crash, PaidTypeOK
<1>12. QED
  BY <1>2, <1>4, <1>5, <1>6, <1>7, <1>8, <1>9, <1>10, <1>11
  DEF PaidSystemNext, PaidNext, Proceeds, DatabaseFails, NetworkDecides, vars, paidVars

\* What the facilitator reported as paid is never recorded as failed, through
\* failed and lost transactions, races for one transfer and stops.
THEOREM SettledStaysOnRecord == PaidSpec => []SettledIsNotWrittenOff
<1>1. PaidSystemInit => ToldOfSettlement
  BY DEF PaidSystemInit, PaidInit, ToldOfSettlement
<1>2. ToldOfSettlement => SettledIsNotWrittenOff
  BY DEF ToldOfSettlement, SettledIsNotWrittenOff
<1>3. PaidSpec => []ToldOfSettlement
  BY <1>1, ToldStep, InvariantPaidInv, PTL DEF PaidSpec
<1>4. QED
  BY <1>2, <1>3, PTL

\* Of two requests with one header, also when both passed the gate, only one
\* is ever inserted.
THEOREM OneRequestPerProof == PaidSpec => []ProofUsedOnce
<1> DEFINE O == ProofUsedOnce
<1>1. PaidSystemInit => O
  BY DEF PaidSystemInit, PaidInit, ProofUsedOnce
<1>2. ASSUME PaidInv, O, [PaidSystemNext]_vars PROVE O'
  <2> USE DEF ProofUsedOnce, rows, locals, external
  <2>1. PaidTypeOK /\ Untouched /\ InFlight /\ Caught
    BY <1>2 DEF PaidInv
  <2>2. ASSUME UNCHANGED gate,
               \A q \in Requests : payment'[q] # "none" => payment[q] # "none"
        PROVE  O'
    BY <1>2, <2>2
  <2>3. ASSUME NEW r \in Requests, InsertPaidRequest(r), UNCHANGED gate PROVE O'
    BY <1>2, <2>1, <2>3 DEF InsertPaidRequest, Claimed, PaidTypeOK
  <2>4. ASSUME NEW r \in Requests, NEW keep, FailPaidRequest(r, keep),
               payment[r] # "none", UNCHANGED gate
        PROVE  O'
    BY <2>1, <2>2, <2>4 DEF FailPaidRequest, PaidTypeOK
  <2>5. ASSUME NEW r \in Requests, RecordSettlement(r), pc[r] = "settled",
               UNCHANGED gate
        PROVE  O'
    BY <2>1, <2>2, <2>5 DEF RecordSettlement, PaidTypeOK, InFlight
  <2>6. ASSUME NEW r \in Requests, NEW h \in Headers, LoadX402Gate(r, h) PROVE O'
    <3>1. /\ payment[r] = "none" /\ payment' = payment
          /\ \A q \in Requests : q # r => gate'[q] = gate[q]
      BY <2>1, <2>6 DEF LoadX402Gate, Goto, Untouched, PaidTypeOK
    <3>2. QED
      BY <1>2, <3>1
  <2>7. ASSUME NEW r \in Requests,
               VerifyRefuses(r) \/ SettleRefuses(r) \/ RecordFailure(r)
        PROVE  O'
    <3>1. payment[r] # "none" /\ UNCHANGED gate
      BY <2>1, <2>7
      DEF VerifyRefuses, SettleRefuses, RecordFailure, Goto, InFlight, Caught
    <3>2. QED
      BY <2>4, <2>7, <3>1 DEF VerifyRefuses, SettleRefuses, RecordFailure
  <2>8. ASSUME NEW r \in Requests, Arrives(r) \/ Proceeds(r) \/ DatabaseFails(r)
        PROVE  O'
    BY <2>2, <2>3, <2>5, <2>6, <2>7, <2>8
    DEF Arrives, Proceeds, DatabaseFails, BeginPaidRequest, BeginReplayed,
        BeginThrows, VerifyAccepts, SendSettle, SettleSucceeds,
        ConfirmPaidSettlement, ConfirmAnswerLost, LoadAuthorized,
        RecordProviderRequests, UsageAnswerLost, WriteUsage,
        CompletePaidRequest, CompleteAnswerLost, Serve, Throws,
        FailureNotRecorded, Goto
  <2>9. QED
    BY <1>2, <2>2, <2>8
    DEF PaidSystemNext, PaidNext, NetworkDecides, Crash, vars, paidVars
<1> HIDE DEF O
<1>3. PaidSpec => []O
  BY <1>1, <1>2, InvariantPaidInv, PTL DEF PaidSpec
<1>4. QED
  BY <1>3 DEF O

-----------------------------------------------------------------------------
(* The refinement *)

Moved == {t \in Transfers : network[t] = "executed"}
StageOf == [r \in Requests |-> SaleStage(r)]

\* A step that writes the rows of one request changes the stage of that one.
LEMMA OneStage ==
  ASSUME NEW r \in Requests, NEW s,
         \A q \in Requests : q # r =>
           payment'[q] = payment[q] /\ access'[q] = access[q],
         SaleStage(r)' = s
  PROVE  StageOf' = [StageOf EXCEPT ![r] = s]
<1>1. \A q \in Requests : q # r => SaleStage(q)' = SaleStage(q)
  BY DEF SaleStage
<1>2. StageOf' = [q \in Requests |-> SaleStage(q)']
  BY DEF StageOf
<1>3. QED
  BY <1>1, <1>2 DEF StageOf

\* Every step of the endpoint is a step of the abstract sale, or none of it.
LEMMA SaleStep ==
  PaidInv /\ [PaidSystemNext]_vars
    => [AbstractSale!SaleNext]_<<Moved, settledBy, StageOf>>
<1> DEFINE G == [AbstractSale!SaleNext]_<<Moved, settledBy, StageOf>>
<1> SUFFICES ASSUME PaidInv, [PaidSystemNext]_vars PROVE G
  OBVIOUS
<1> USE DEF rows, locals, external
<1>1. PaidTypeOK /\ Untouched /\ GateKnown /\ InFlight /\ Paid /\ Caught /\ Settled
  BY DEF PaidInv
<1>2. ASSUME UNCHANGED <<payment, access, settledBy>>, UNCHANGED Moved PROVE G
  <2>1. UNCHANGED StageOf
    BY <1>2 DEF StageOf, SaleStage
  <2>2. QED
    BY <1>2, <2>1
<1>3. ASSUME NEW r \in Requests, InsertPaidRequest(r), pc[r] = "gated",
             UNCHANGED <<settledBy, network>>
      PROVE  G
  <2>1. StageOf[r] = "none"
    BY <1>1, <1>3 DEF Untouched, StageOf, SaleStage
  <2>2. /\ SaleStage(r)' = "open"
        /\ \A q \in Requests : q # r =>
             payment'[q] = payment[q] /\ access'[q] = access[q]
    BY <1>1, <1>3 DEF InsertPaidRequest, PaidTypeOK, SaleStage
  <2>3. StageOf' = [StageOf EXCEPT ![r] = "open"]
    BY <2>2, OneStage
  <2>4. UNCHANGED <<Moved, settledBy>>
    BY <1>3 DEF Moved
  <2>5. AbstractSale!Open(r)
    BY <2>1, <2>3, <2>4 DEF AbstractSale!Open, AbstractSale!Turn, Moved, StageOf
  <2>6. QED
    BY <2>5 DEF AbstractSale!SaleNext
<1>4. ASSUME NEW r \in Requests, NEW keep, FailPaidRequest(r, keep),
             \/ pc[r] \in {"begun", "settling"} /\ ~keep
             \/ pc[r] = "catching",
             UNCHANGED network
      PROVE  G
  <2>1. /\ access' = [access EXCEPT ![r] = "failed"]
        /\ payment' = IF payment[r] = "confirmed" \/ keep THEN payment
                      ELSE [payment EXCEPT ![r] = "failed"]
        /\ UNCHANGED settledBy
    BY <1>4 DEF FailPaidRequest
  <2>2. \A q \in Requests : q # r =>
          payment'[q] = payment[q] /\ access'[q] = access[q]
    BY <2>1
  <2>3. UNCHANGED Moved
    BY <1>4 DEF Moved
  <2>4. CASE payment[r] = "submitted" /\ access[r] = "authorized"
    <3>1. StageOf[r] = "open"
      BY <2>4 DEF StageOf, SaleStage
    <3>2. SaleStage(r)' = "closed"
      BY <1>1, <2>1, <2>4 DEF PaidTypeOK, SaleStage
    <3>3. StageOf' = [StageOf EXCEPT ![r] = "closed"]
      BY <2>2, <3>2, OneStage
    <3>4. AbstractSale!Close(r)
      BY <2>1, <2>3, <3>1, <3>3
      DEF AbstractSale!Close, AbstractSale!Turn, Moved, StageOf
    <3>5. QED
      BY <3>4 DEF AbstractSale!SaleNext
  <2>5. CASE payment[r] = "confirmed" /\ access[r] \in {"authorized", "served"}
    <3>1. StageOf[r] \in {"recognised", "delivered"}
      BY <2>5 DEF StageOf, SaleStage
    <3>2. SaleStage(r)' = "undelivered"
      BY <1>1, <2>1, <2>5 DEF PaidTypeOK, SaleStage
    <3>3. StageOf' = [StageOf EXCEPT ![r] = "undelivered"]
      BY <2>2, <3>2, OneStage
    <3>4. AbstractSale!Lose(r)
      BY <2>1, <2>3, <3>1, <3>3
      DEF AbstractSale!Lose, AbstractSale!Turn, Moved, StageOf
    <3>5. QED
      BY <3>4 DEF AbstractSale!SaleNext
  <2>6. QED
    BY <1>1, <1>4, <2>4, <2>5 DEF InFlight, Caught
<1>5. ASSUME NEW r \in Requests, RecordSettlement(r), pc[r] = "settled",
             UNCHANGED network
      PROVE  G
  <2>1. StageOf[r] = "open"
    BY <1>1, <1>5 DEF InFlight, StageOf, SaleStage
  <2>2. /\ SaleStage(r)' = "recognised"
        /\ \A q \in Requests : q # r =>
             payment'[q] = payment[q] /\ access'[q] = access[q]
    BY <1>1, <1>5 DEF RecordSettlement, PaidTypeOK, InFlight, SaleStage
  <2>3. StageOf' = [StageOf EXCEPT ![r] = "recognised"]
    BY <2>2, OneStage
  <2>4. Transfer(r) \in Transfers /\ Transfer(r) \in Moved
    BY <1>1, <1>5, TransferType DEF GateKnown, Settled, Moved
  <2>5. /\ settledBy[Transfer(r)] = None
        /\ settledBy' = [settledBy EXCEPT ![Transfer(r)] = r]
        /\ UNCHANGED Moved
    BY <1>5 DEF RecordSettlement, Moved
  <2>6. AbstractSale!Recognise(r, Transfer(r))
    BY <2>1, <2>3, <2>4, <2>5 DEF AbstractSale!Recognise, Moved, StageOf
  <2>7. QED
    BY <2>4, <2>6 DEF AbstractSale!SaleNext
<1>6. ASSUME NEW r \in Requests, Serve(r), pc[r] = "executed", UNCHANGED network
      PROVE  G
  <2>1. StageOf[r] = "recognised"
    BY <1>1, <1>6 DEF Paid, StageOf, SaleStage
  <2>2. /\ SaleStage(r)' = "delivered"
        /\ \A q \in Requests : q # r =>
             payment'[q] = payment[q] /\ access'[q] = access[q]
    BY <1>1, <1>6 DEF Serve, PaidTypeOK, SaleStage
  <2>3. StageOf' = [StageOf EXCEPT ![r] = "delivered"]
    BY <2>2, OneStage
  <2>4. UNCHANGED <<Moved, settledBy>>
    BY <1>6 DEF Serve, Moved
  <2>5. AbstractSale!Deliver(r)
    BY <2>1, <2>3, <2>4 DEF AbstractSale!Deliver, AbstractSale!Turn, Moved, StageOf
  <2>6. QED
    BY <2>5 DEF AbstractSale!SaleNext
<1>7. ASSUME NEW t \in Transfers, NetworkDecides(t) PROVE G
  <2>1. PICK outcome \in {"executed", "rejected"} :
          network' = [network EXCEPT ![t] = outcome]
    BY <1>7 DEF NetworkDecides
  <2>2. network[t] = "pending" /\ UNCHANGED <<payment, access, settledBy>>
    BY <1>7 DEF NetworkDecides
  <2>3. CASE outcome = "rejected"
    <3>1. UNCHANGED Moved
      BY <1>1, <2>1, <2>2, <2>3 DEF Moved, PaidTypeOK
    <3>2. QED
      BY <1>2, <2>2, <3>1
  <2>4. CASE outcome = "executed"
    <3>1. t \notin Moved /\ Moved' = Moved \union {t}
      BY <1>1, <2>1, <2>2, <2>4 DEF Moved, PaidTypeOK
    <3>2. UNCHANGED StageOf
      BY <2>2 DEF StageOf, SaleStage
    <3>3. AbstractSale!Move(t)
      BY <2>2, <3>1, <3>2 DEF AbstractSale!Move, Moved, StageOf
    <3>4. QED
      BY <3>3 DEF AbstractSale!SaleNext
  <2>5. QED
    BY <2>1, <2>3, <2>4
<1>8. ASSUME NEW r \in Requests, SendSettle(r) PROVE G
  <2>1. Transfer(r) \in Transfers
    BY <1>1, <1>8, TransferType DEF SendSettle, Goto, GateKnown
  <2>2. UNCHANGED Moved
    BY <1>1, <1>8, <2>1 DEF SendSettle, Moved, PaidTypeOK
  <2>3. QED
    BY <1>2, <1>8, <2>2 DEF SendSettle
<1>9. ASSUME NEW r \in Requests,
             VerifyRefuses(r) \/ SettleRefuses(r) \/ RecordFailure(r)
      PROVE  G
  BY <1>4, <1>9 DEF VerifyRefuses, SettleRefuses, RecordFailure, Goto
<1>10. ASSUME UNCHANGED <<payment, access, settledBy, network>> PROVE G
  <2>1. UNCHANGED Moved
    BY <1>10 DEF Moved
  <2>2. QED
    BY <1>2, <1>10, <2>1
<1>11. ASSUME NEW r \in Requests, Arrives(r) \/ Proceeds(r) \/ DatabaseFails(r)
       PROVE  G
  BY <1>3, <1>5, <1>6, <1>8, <1>9, <1>10, <1>11
  DEF Arrives, Proceeds, DatabaseFails, LoadX402Gate, BeginPaidRequest,
      BeginReplayed, BeginThrows, VerifyAccepts, SettleSucceeds,
      ConfirmPaidSettlement, ConfirmAnswerLost, LoadAuthorized,
      RecordProviderRequests, UsageAnswerLost, WriteUsage, CompletePaidRequest,
      CompleteAnswerLost, Throws, FailureNotRecorded, Goto
<1>12. QED
  BY <1>7, <1>10, <1>11 DEF PaidSystemNext, PaidNext, Crash, vars, paidVars

\* The paid endpoint implements the abstract sale.
THEOREM EndpointImplementsSale == PaidSpec => ImplementsSale
<1>1. PaidSystemInit => AbstractSale!SaleInit
  <2> SUFFICES ASSUME PaidSystemInit PROVE AbstractSale!SaleInit
    OBVIOUS
  <2>1. {t \in Transfers : network[t] = "executed"} = {}
    BY DEF PaidSystemInit, PaidInit
  <2>2. \A r \in Requests : SaleStage(r) = "none"
    BY DEF PaidSystemInit, PaidInit, SaleStage
  <2>3. QED
    BY <2>1, <2>2 DEF PaidSystemInit, PaidInit, AbstractSale!SaleInit
<1>2. ASSUME PaidInv, [PaidSystemNext]_vars
      PROVE  [AbstractSale!SaleNext]_AbstractSale!saleVars
  BY <1>2, SaleStep DEF AbstractSale!saleVars, Moved, StageOf
<1>3. QED
  BY <1>1, <1>2, InvariantPaidInv, PTL
  DEF PaidSpec, ImplementsSale, AbstractSale!SaleSpec
=============================================================================
