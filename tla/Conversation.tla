---------------------------- MODULE Conversation ----------------------------
(***************************************************************************)
(* What a planning session promises about turns, with no word about rows,  *)
(* snapshots, processes or cancellations: a request is accepted while no   *)
(* other is under way and no other has been accepted under its key, and    *)
(* its message joins the transcript; the one under way is answered once,   *)
(* and neither its outcome nor a message changes afterwards.               *)
(***************************************************************************)
EXTENDS Sequences

CONSTANTS Calls, Keys, None

VARIABLES
  transcript,  \* who said something to whom, in order
  asked,       \* the key a request was accepted under
  outcome      \* of each request

conversationVars == <<transcript, asked, outcome>>

Unasked(c) == outcome[c] = "none"
Underway(c) == outcome[c] = "running"

ConversationInit ==
  /\ transcript = <<>>
  /\ asked = [c \in Calls |-> None]
  /\ outcome = [c \in Calls |-> "none"]

Ask(c, k) ==
  /\ Unasked(c)
  /\ \A d \in Calls : ~Underway(d) /\ (~Unasked(d) => asked[d] # k)
  /\ transcript' = Append(transcript, [role |-> "user", of |-> c])
  /\ asked' = [asked EXCEPT ![c] = k]
  /\ outcome' = [outcome EXCEPT ![c] = "running"]

Reply(c) ==
  /\ Underway(c)
  /\ transcript' = Append(transcript, [role |-> "assistant", of |-> c])
  /\ \E o \in {"succeeded", "failed", "cancelled"} : outcome' = [outcome EXCEPT ![c] = o]
  /\ UNCHANGED asked

ConversationNext ==
  \E c \in Calls : Reply(c) \/ \E k \in Keys : Ask(c, k)

ConversationSpec == ConversationInit /\ [][ConversationNext]_conversationVars
=============================================================================
