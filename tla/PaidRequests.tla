---------------------------- MODULE PaidRequests ----------------------------
(***************************************************************************)
(* The paid endpoint /x402/v1: executeX402Request of deployments/          *)
(* service.ts and the transactions it runs, beside the deployment whose    *)
(* rows it reads.  One process per HTTP request that carries a payment; it *)
(* awaits the database, the facilitator and the data sources, and between  *)
(* two awaits anything may happen: a deploy, a suspension, a retirement,   *)
(* another request with the same payment, a timeout, a crash.              *)
(*                                                                         *)
(* The facilitator and the Hedera network are external: a transfer is      *)
(* submitted by a settle call and executed or rejected later, whether or   *)
(* not anyone still waits for the answer.                                  *)
(*                                                                         *)
(* A definition marked "Slip" is no part of the model: it is the one after *)
(* it with a plausible mistake, for testing the properties.                *)
(***************************************************************************)
EXTENDS Deployments, FiniteSets

CONSTANTS
  Requests,    \* paid HTTP requests
  Transfers,   \* signed Hedera transactions of the buyers
  Headers,     \* PAYMENT-SIGNATURE header values
  TransferOf,  \* the transaction a header carries: several encodings may
               \* carry one transaction
  PriceOf      \* the amount a transaction moves

ASSUME PaidAssumption ==
  /\ TransferOf \in [Headers -> Transfers]
  /\ PriceOf \in [Transfers -> Prices]
  /\ None \notin Requests \union Transfers \union Headers
  /\ IsFiniteSet(Requests) /\ IsFiniteSet(Transfers)

VARIABLES
  pc,          \* where executeX402Request is
  gate,        \* the gate it loaded, and the header it was called with
  settlementSucceeded,  \* its local flag
  payment,     \* payment_intents.status and its one payment_attempts.status
  access,      \* api_access_requests.status
  settledBy,   \* payment_settlements: transfer -> request
  ledger,      \* financial_ledger_entries
  served,      \* the version loadAuthorized returned to the execution
  usage,       \* requests with a provider_requests usage event
  network,     \* external: state of each transfer
  submitter    \* external: the request whose settle call submitted it first

rows == <<payment, access, settledBy, ledger, usage>>
locals == <<pc, gate, settlementSucceeded, served>>
external == <<network, submitter>>
paidVars == <<rows, locals, external>>
vars == <<deploymentVars, paidVars>>

EntryTypes == {"gross_sale", "creator_proceeds"}
NoGate == [header |-> None, publication |-> None, version |-> None]
Awaiting == {"gated", "begun", "verified", "settling", "settled", "confirmed",
             "executing", "executed", "catching"}
Ended == {"payment_required", "replayed", "failed", "delivered", "crashed"}

Transfer(r) == TransferOf[gate[r].header]

PaidInit ==
  /\ pc = [r \in Requests |-> "idle"]
  /\ gate = [r \in Requests |-> NoGate]
  /\ settlementSucceeded = [r \in Requests |-> FALSE]
  /\ payment = [r \in Requests |-> "none"]
  /\ access = [r \in Requests |-> "none"]
  /\ settledBy = [t \in Transfers |-> None]
  /\ ledger = {}
  /\ served = [r \in Requests |-> None]
  /\ usage = {}
  /\ network = [t \in Transfers |-> "unsent"]
  /\ submitter = [t \in Transfers |-> None]

Goto(r, from, to) ==
  /\ pc[r] = from
  /\ pc' = [pc EXCEPT ![r] = to]

-----------------------------------------------------------------------------
(* Accepting a payment *)

\* A request without a gate (404), without a header or with a header whose
\* accepted terms are not the gate's (402) ends here and changes nothing.
LoadX402Gate(r, h) ==
  \E p \in Revisions :
    /\ GateOpen(p)
    /\ price[p] = PriceOf[TransferOf[h]]
    /\ Goto(r, "idle", "gated")
    /\ gate' = [gate EXCEPT ![r] =
         [header |-> h, publication |-> p, version |-> deployment.active]]
    /\ UNCHANGED <<rows, external, settlementSucceeded, served>>

\* The hash of the header is the key of api_payment_proofs.
Claimed(h) == \E q \in Requests : payment[q] # "none" /\ gate[q].header = h

\* The intent, the access request, the attempt and the proof are inserted.
InsertPaidRequest(r) ==
  /\ ~Claimed(gate[r].header)
  /\ payment' = [payment EXCEPT ![r] = "submitted"]
  /\ access' = [access EXCEPT ![r] = "authorized"]

BeginPaidRequest(r) ==
  /\ Goto(r, "gated", "begun")
  /\ InsertPaidRequest(r)
  /\ UNCHANGED <<settledBy, ledger, usage, gate, settlementSucceeded, served,
                 external>>

BeginReplayed(r) ==
  /\ Goto(r, "gated", "replayed")
  /\ Claimed(gate[r].header)
  /\ UNCHANGED <<rows, gate, settlementSucceeded, served, external>>

\* The transaction throws: it was rolled back, or it committed and the answer
\* was lost.  The call sits before the try block.
BeginThrows(r) ==
  /\ Goto(r, "gated", "failed")
  /\ InsertPaidRequest(r) \/ UNCHANGED <<payment, access>>
  /\ UNCHANGED <<settledBy, ledger, usage, gate, settlementSucceeded, served,
                 external>>

\* Slip: the intent fails whatever its status.
FailAnyPayment(r, preservePayment) ==
  /\ payment' = [payment EXCEPT ![r] = "failed"]
  /\ access' = [access EXCEPT ![r] = "failed"]
  /\ UNCHANGED <<settledBy, ledger, usage>>

\* Slip: to preserve the payment, nothing is written.
FailNothingPreserved(r, preservePayment) ==
  /\ payment' = IF payment[r] = "confirmed" \/ preservePayment THEN payment
                ELSE [payment EXCEPT ![r] = "failed"]
  /\ access' = IF preservePayment THEN access
               ELSE [access EXCEPT ![r] = "failed"]
  /\ UNCHANGED <<settledBy, ledger, usage>>

\* Slip: that the settlement had succeeded is not passed on.
FailForgetsSettlement(r, preservePayment) ==
  /\ payment' = IF payment[r] = "confirmed" THEN payment
                ELSE [payment EXCEPT ![r] = "failed"]
  /\ access' = [access EXCEPT ![r] = "failed"]
  /\ UNCHANGED <<settledBy, ledger, usage>>

\* failPaidRequest: a confirmed payment is never touched, and the payment is
\* left alone when the settlement had succeeded; the request fails either way.
FailPaidRequest(r, preservePayment) ==
  /\ payment' = IF payment[r] = "confirmed" \/ preservePayment THEN payment
                ELSE [payment EXCEPT ![r] = "failed"]
  /\ access' = [access EXCEPT ![r] = "failed"]
  /\ UNCHANGED <<settledBy, ledger, usage>>

VerifyAccepts(r) ==
  /\ Goto(r, "begun", "verified")
  /\ UNCHANGED <<rows, gate, settlementSucceeded, served, external>>

VerifyRefuses(r) ==
  /\ Goto(r, "begun", "payment_required")
  /\ FailPaidRequest(r, FALSE)
  /\ UNCHANGED <<gate, settlementSucceeded, served, external>>

-----------------------------------------------------------------------------
(* Settling *)

\* The settle call leaves the process; the first one submits the transfer.
SendSettle(r) ==
  LET t == Transfer(r) IN
  /\ Goto(r, "verified", "settling")
  /\ network' = [network EXCEPT ![t] = IF @ = "unsent" THEN "pending" ELSE @]
  /\ submitter' = [submitter EXCEPT ![t] = IF @ = None THEN r ELSE @]
  /\ UNCHANGED <<rows, gate, settlementSucceeded, served>>

NetworkDecides(t) ==
  /\ network[t] = "pending"
  /\ \E outcome \in {"executed", "rejected"} :
       network' = [network EXCEPT ![t] = outcome]
  /\ UNCHANGED <<rows, locals, submitter>>

SettleSucceeds(r) ==
  /\ Goto(r, "settling", "settled")
  /\ network[Transfer(r)] = "executed"
  /\ settlementSucceeded' = [settlementSucceeded EXCEPT ![r] = TRUE]
  /\ UNCHANGED <<rows, gate, served, external>>

\* success: false, for a transfer the network rejected or one that was
\* submitted before.
SettleRefuses(r) ==
  /\ Goto(r, "settling", "failed")
  /\ network[Transfer(r)] = "rejected" \/ submitter[Transfer(r)] # r
  /\ FailPaidRequest(r, FALSE)
  /\ UNCHANGED <<gate, settlementSucceeded, served, external>>

\* Slip: transaction references are not unique.
RecordAnySettlement(r) ==
  /\ settledBy' = [settledBy EXCEPT ![Transfer(r)] = r]
  /\ ledger' = ledger \union ({r} \X EntryTypes)
  /\ payment' = [payment EXCEPT ![r] = "confirmed"]
  /\ UNCHANGED <<access, usage>>

\* confirmPaidSettlement: settlement (one per transaction reference),
\* allocations and their ledger entries, attempt and intent in one transaction.
RecordSettlement(r) ==
  LET t == Transfer(r) IN
  /\ settledBy[t] = None
  /\ settledBy' = [settledBy EXCEPT ![t] = r]
  /\ ledger' = ledger \union ({r} \X EntryTypes)
  /\ payment' = [payment EXCEPT ![r] = "confirmed"]
  /\ UNCHANGED <<access, usage>>

ConfirmPaidSettlement(r) ==
  /\ Goto(r, "settled", "confirmed")
  /\ RecordSettlement(r)
  /\ UNCHANGED <<gate, settlementSucceeded, served, external>>

ConfirmAnswerLost(r) ==
  /\ Goto(r, "settled", "catching")
  /\ RecordSettlement(r)
  /\ UNCHANGED <<gate, settlementSucceeded, served, external>>

-----------------------------------------------------------------------------
(* Delivering *)

\* execute with the internal key: the version is the one the deployment
\* serves now, not the one the gate was loaded with.
LoadAuthorized(r) ==
  /\ Goto(r, "confirmed", "executing")
  /\ InternallyAuthorized(gate[r].publication)
  /\ served' = [served EXCEPT ![r] = deployment.active]
  /\ UNCHANGED <<rows, gate, settlementSucceeded, external>>

\* executeLivePlan answered; recordProviderRequests writes the usage event.
WriteUsage(r) ==
  /\ usage' = usage \union {r}
  /\ UNCHANGED <<payment, access, settledBy, ledger>>

RecordProviderRequests(r) ==
  /\ Goto(r, "executing", "executed")
  /\ WriteUsage(r)
  /\ UNCHANGED <<gate, settlementSucceeded, served, external>>

UsageAnswerLost(r) ==
  /\ Goto(r, "executing", "catching")
  /\ WriteUsage(r)
  /\ UNCHANGED <<gate, settlementSucceeded, served, external>>

\* completePaidRequest; a deferred trigger refuses to serve an access request
\* whose payment is not confirmed.
Serve(r) ==
  /\ payment[r] = "confirmed"
  /\ access' = [access EXCEPT ![r] = "served"]
  /\ UNCHANGED <<payment, settledBy, ledger, usage>>

CompletePaidRequest(r) ==
  /\ Goto(r, "executed", "delivered")
  /\ Serve(r)
  /\ UNCHANGED <<gate, settlementSucceeded, served, external>>

CompleteAnswerLost(r) ==
  /\ Goto(r, "executed", "catching")
  /\ Serve(r)
  /\ UNCHANGED <<gate, settlementSucceeded, served, external>>

-----------------------------------------------------------------------------
(* Failing *)

\* Anything awaited inside the try block may throw: the facilitator is not
\* reached, answers with an error or not within its timeout, the caller aborts, a transaction
\* is rolled back, the key is not accepted, a source fails.
Throws(r) ==
  \E from \in {"begun", "verified", "settling", "settled", "confirmed",
               "executing", "executed"} :
    /\ Goto(r, from, "catching")
    /\ UNCHANGED <<rows, gate, settlementSucceeded, served, external>>

\* The catch block; an error of failPaidRequest itself is swallowed.
RecordFailure(r) ==
  /\ Goto(r, "catching", "failed")
  /\ FailPaidRequest(r, settlementSucceeded[r])
  /\ UNCHANGED <<gate, settlementSucceeded, served, external>>

FailureNotRecorded(r) ==
  /\ Goto(r, "catching", "failed")
  /\ UNCHANGED <<rows, gate, settlementSucceeded, served, external>>

\* The API process stops: every request in it is gone, the rows stay.  No
\* worker takes them up again.
Crash ==
  /\ \E r \in Requests : pc[r] \in Awaiting
  /\ pc' = [r \in Requests |-> IF pc[r] \in Awaiting THEN "crashed" ELSE pc[r]]
  /\ UNCHANGED <<rows, gate, settlementSucceeded, served, external>>

-----------------------------------------------------------------------------

\* The steps a request takes while the database answers.
Proceeds(r) ==
  \/ BeginPaidRequest(r) \/ BeginReplayed(r)
  \/ VerifyAccepts(r) \/ VerifyRefuses(r)
  \/ SendSettle(r) \/ SettleSucceeds(r) \/ SettleRefuses(r)
  \/ ConfirmPaidSettlement(r)
  \/ LoadAuthorized(r) \/ RecordProviderRequests(r) \/ CompletePaidRequest(r)
  \/ Throws(r) \/ RecordFailure(r)

DatabaseFails(r) ==
  \/ BeginThrows(r) \/ ConfirmAnswerLost(r) \/ UsageAnswerLost(r)
  \/ CompleteAnswerLost(r) \/ FailureNotRecorded(r)

Arrives(r) == \E h \in Headers : LoadX402Gate(r, h)

PaidNext ==
  \/ \E r \in Requests : Arrives(r) \/ Proceeds(r) \/ DatabaseFails(r)
  \/ \E t \in Transfers : NetworkDecides(t)
  \/ Crash

PaidSystemInit == Init /\ PaidInit

PaidSystemNext ==
  \/ DeploymentNext /\ UNCHANGED paidVars
  \/ PaidNext /\ UNCHANGED deploymentVars

PaidSpec == PaidSystemInit /\ [][PaidSystemNext]_vars

\* A running process takes its next step: every await has a timeout, so one of
\* a request's own steps is always taken in the end.
Fairness == \A r \in Requests : WF_vars(Proceeds(r) /\ UNCHANGED deploymentVars)

\* The process does not stop and the database always answers.
CalmNext ==
  \/ DeploymentNext /\ UNCHANGED paidVars
  \/ /\ \/ \E r \in Requests : Arrives(r) \/ Proceeds(r)
        \/ \E t \in Transfers : NetworkDecides(t)
     /\ UNCHANGED deploymentVars

CalmSpec == PaidSystemInit /\ [][CalmNext]_vars /\ Fairness

-----------------------------------------------------------------------------
(* Properties *)

\* The rows, the local state of each request and the external state keep
\* their types.
PaidTypeOK ==
  /\ pc \in [Requests -> {"idle"} \union Awaiting \union Ended]
  /\ gate \in [Requests ->
       [header : Headers \union {None}, publication : Revisions \union {None},
        version : Nat \union {None}]]
  /\ settlementSucceeded \in [Requests -> BOOLEAN]
  /\ payment \in [Requests -> {"none", "submitted", "confirmed", "failed"}]
  /\ access \in [Requests -> {"none", "authorized", "served", "failed"}]
  /\ settledBy \in [Transfers -> Requests \union {None}]
  /\ ledger \subseteq Requests \X EntryTypes
  /\ served \in [Requests -> Nat \union {None}]
  /\ usage \subseteq Requests
  /\ network \in [Transfers -> {"unsent", "pending", "executed", "rejected"}]
  /\ submitter \in [Transfers -> Requests \union {None}]

\* A request recorded as served was paid: its payment is confirmed by a
\* settlement of its own, of a transfer the network executed, for the price of
\* the revision the request was accepted under.
ServedWasPaid ==
  \A r \in Requests : access[r] = "served" =>
    /\ payment[r] = "confirmed"
    /\ \E t \in Transfers : /\ settledBy[t] = r
                            /\ network[t] = "executed"
                            /\ PriceOf[t] = price[gate[r].publication]

\* The creator's recognised sales never outnumber the transfers the buyers
\* really made, however often a payment is sent again or encoded differently.
RevenueIsReal ==
  Cardinality({r \in Requests : payment[r] = "confirmed"})
    <= Cardinality({t \in Transfers : network[t] = "executed"})

\* The ledger tells the same story as the payments, through every failed or
\* unanswered transaction: both entries of a confirmed sale, none of another.
LedgerMatchesPayments ==
  \A r \in Requests :
    IF payment[r] = "confirmed" THEN {r} \X EntryTypes \subseteq ledger
    ELSE \A e \in EntryTypes : <<r, e>> \notin ledger

\* One payment header buys one request: of two requests that carry the same
\* header, also when both passed the gate together, one is ever accepted.
ProofUsedOnce ==
  \A r, q \in Requests :
    /\ payment[r] # "none" /\ payment[q] # "none"
    /\ gate[r].header = gate[q].header
    => r = q

\* The creator's Graph quota is spent on paid requests only: no request whose
\* payment is not confirmed starts an execution or is charged for one.
NoUnpaidProviderUse ==
  \A r \in Requests :
    served[r] # None \/ r \in usage => payment[r] = "confirmed"

\* A confirmed payment stays confirmed: no late failure, of the execution, of
\* the response or of a crashed process, takes it back.
ConfirmedIsFinal ==
  [][\A r \in Requests : payment[r] = "confirmed" => payment'[r] = "confirmed"]_vars

\* Money that was taken is never written off: once the facilitator answered
\* that the transfer was made, the payment is recorded as confirmed or as still
\* submitted, never as failed, also when the settlement cannot be recorded (its
\* transaction fails, or the same transfer paid for another request), the data
\* cannot be delivered, an answer is lost or the process stops.
SettledIsNotWrittenOff ==
  \A r \in Requests :
    settlementSucceeded[r] => payment[r] \in {"submitted", "confirmed"}

\* Data is only queried for a revision that is still the one on offer: once
\* it is retired or the deployment is suspended, a request that was accepted
\* and paid before is not executed any more.
ExecutesOnlyOffered ==
  [][\A r \in Requests :
       pc[r] # "executing" /\ pc'[r] = "executing"
       => GateOpen(gate[r].publication)]_vars

\* While the process runs and the database answers, every accepted request is
\* closed, as served or as failed.
AcceptedIsClosed ==
  \A r \in Requests :
    access[r] = "authorized" ~> access[r] \in {"served", "failed"}

\* The stage of a request's sale, read off its rows.
SaleStage(r) ==
  CASE payment[r] = "none" -> "none"
    [] payment[r] = "submitted" /\ access[r] = "authorized" -> "open"
    [] payment[r] = "confirmed" /\ access[r] = "authorized" -> "recognised"
    [] payment[r] = "confirmed" /\ access[r] = "served" -> "delivered"
    [] payment[r] = "confirmed" /\ access[r] = "failed" -> "undelivered"
    [] OTHER -> "closed"

AbstractSale == INSTANCE Sale WITH
  moved <- {t \in Transfers : network[t] = "executed"},
  owner <- settledBy,
  stage <- [r \in Requests |-> SaleStage(r)]

\* The endpoint implements the abstract sale: what the rows say of a sale
\* takes only the steps Sale allows; in particular a sale closed without a
\* confirmed payment is never recognised later, and none is recognised twice.
ImplementsSale == AbstractSale!SaleSpec

-----------------------------------------------------------------------------
(* What the documents say and the code does not do *)

\* data-model.md: "An `uncertain` intent is never assumed unpaid."  A payment
\* recorded as failed has not moved the buyer's money.
FailedMeansUncharged ==
  \A r \in Requests :
    payment[r] = "failed" =>
      ~ \E t \in Transfers : submitter[t] = r /\ network[t] = "executed"

=============================================================================
