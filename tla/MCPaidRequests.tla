--------------------------- MODULE MCPaidRequests ---------------------------
(***************************************************************************)
(* A small instance of PaidRequests for TLC: two requests, one transfer in *)
(* two encodings and a second transfer.  The runs start where the paid     *)
(* endpoint does: version 1 is deployed and offered at the first price;    *)
(* one more deploy command, version and revision may follow.               *)
(***************************************************************************)
EXTENDS PaidRequests, TLC

CONSTANTS c1, c2, k1, k2, a1, s1, t1, t2, h1, h2, h3, r1, r2

\* Requests are names only; so are the two encodings of the first transfer.
Symmetry == Permutations({r1, r2}) \union Permutations({h1, h2})

MCTransferOf == [h \in Headers |-> IF h = h3 THEN t2 ELSE t1]
MCPriceOf == [t \in Transfers |-> 10]

\* The state Init leads to by PersistVersion, a deploy, a wallet observation
\* and a publish call.
MCInit ==
  /\ deleted = FALSE
  /\ versions = <<s1>>
  /\ deployment = [id |-> c1, alias |-> a1, active |-> 1, status |-> "healthy",
                   publication |-> 1]
  /\ commands = [k \in Keys |->
       IF k = k1 THEN [alias |-> a1, subject |-> c1] ELSE None]
  /\ apiKeys = [k \in Keys |-> IF k = k1 THEN "active" ELSE "none"]
  /\ publication = [p \in Revisions |-> IF p = 1 THEN "active" ELSE "absent"]
  /\ price = [p \in Revisions |-> IF p = 1 THEN 10 ELSE None]
  /\ internalKeys = [p \in Revisions |-> IF p = 1 THEN "active" ELSE "none"]
  /\ recipient = TRUE
  /\ calls = [c \in Calls |-> IF c = c1
       THEN [pc |-> "done", key |-> k1, alias |-> a1, version |-> 1,
             target |-> c1, reply |-> "deployed"]
       ELSE IdleCall]
  /\ offers = [o \in Offers |-> IdleOffer]
  /\ PaidInit

MCSpec == MCInit /\ [][PaidSystemNext]_vars
MCCalmSpec == MCInit /\ [][CalmNext]_vars /\ Fairness
=============================================================================
