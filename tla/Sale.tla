-------------------------------- MODULE Sale --------------------------------
(***************************************************************************)
(* What the paid endpoint promises about money, with no word about how:    *)
(* a request opens a sale; a sale is recognised against one transfer the   *)
(* network moved, which no other sale has claimed; only a recognised sale  *)
(* delivers; a sale that closed unpaid is never recognised afterwards.     *)
(***************************************************************************)
CONSTANTS Requests, Transfers, None

VARIABLES
  moved,  \* transfers the network executed
  owner,  \* the sale a transfer was recognised for
  stage   \* of each request's sale

saleVars == <<moved, owner, stage>>

Stages == {"none", "open", "closed", "recognised", "delivered", "undelivered"}

SaleInit ==
  /\ moved = {}
  /\ owner = [t \in Transfers |-> None]
  /\ stage = [r \in Requests |-> "none"]

Move(t) ==
  /\ t \notin moved
  /\ moved' = moved \union {t}
  /\ UNCHANGED <<owner, stage>>

\* A sale goes from one stage to another without touching any money.
Turn(r, from, to) ==
  /\ stage[r] = from
  /\ stage' = [stage EXCEPT ![r] = to]
  /\ UNCHANGED <<moved, owner>>

Open(r) == Turn(r, "none", "open")
Close(r) == Turn(r, "open", "closed")
Deliver(r) == Turn(r, "recognised", "delivered")
Lose(r) == Turn(r, "recognised", "undelivered") \/ Turn(r, "delivered", "undelivered")

Recognise(r, t) ==
  /\ stage[r] = "open"
  /\ t \in moved
  /\ owner[t] = None
  /\ owner' = [owner EXCEPT ![t] = r]
  /\ stage' = [stage EXCEPT ![r] = "recognised"]
  /\ UNCHANGED moved

SaleNext ==
  \/ \E t \in Transfers : Move(t)
  \/ \E r \in Requests : Open(r) \/ Close(r) \/ Deliver(r) \/ Lose(r)
  \/ \E r \in Requests, t \in Transfers : Recognise(r, t)

SaleSpec == SaleInit /\ [][SaleNext]_saleVars
=============================================================================
