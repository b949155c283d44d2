---------------------------- MODULE AgentSession ----------------------------
(***************************************************************************)
(* One planning session of the agent: the user's messages are submitted by *)
(* requests that race for the session, each accepted request plans in the  *)
(* API process that received it, and the owner may cancel it.              *)
(*                                                                         *)
(* A request is named by an element of Calls; the command, the trace       *)
(* stream and the message it creates carry the ids it drew, so they go by  *)
(* its name too.                                                           *)
(*                                                                         *)
(* A definition marked "Slip" is no part of the model: it is the one after *)
(* it with a plausible mistake, for testing the properties.                *)
(***************************************************************************)
EXTENDS Naturals, Sequences

CONSTANTS
  Calls,      \* submissions of a message to the session
  Keys,       \* idempotency keys
  Texts,      \* what a message says; the fingerprint of the command
  None,       \* no text, no answer
  MaxEvents   \* bound: trace events a planner emits

\* The answers that are no request's.
Refusals == {"storage_error", "command_conflict", "in_progress", "connection_lost"}

ASSUME AgentAssumption ==
  /\ None \notin Texts
  /\ None \notin Calls /\ Calls \intersect Refusals = {}
  /\ MaxEvents \in Nat

VARIABLES
  deleted,   \* data_products.deleted_at is set
  intent,    \* data_products.original_intent
  commands,  \* control_commands of the operation plan_agent_message
  messages,  \* agent_messages of the session; sequence_no is the index
  streams,   \* trace_streams.status
  events,    \* trace_events: the sequence numbers stored
  call,      \* where a request is in submitMessage, and what it read
  run,       \* the planner of a request, in memory; "early" is auxiliary:
             \* it was aborted before its result was looked at
  faulted    \* auxiliary: the process stopped, or a write of a run failed

agentVars ==
  <<deleted, intent, commands, messages, streams, events, call, run, faulted>>
rows == <<deleted, intent, commands, messages, streams, events>>

NoCommand == [at |-> "none", key |-> None, text |-> None, cancellation |-> "available"]
NoRun ==
  [live |-> 0, written |-> 0, asked |-> FALSE, aborted |-> FALSE,
   early |-> FALSE, status |-> "running"]
NoSight == [free |-> FALSE, length |-> 0]
NoCall == [at |-> "idle", key |-> None, text |-> None, sight |-> NoSight, answer |-> None]

AgentInit ==
  /\ deleted = FALSE
  /\ intent = None
  /\ commands = [c \in Calls |-> NoCommand]
  /\ messages = <<>>
  /\ streams = [c \in Calls |-> "none"]
  /\ events = [c \in Calls |-> {}]
  /\ call = [c \in Calls |-> NoCall]
  /\ run = [c \in Calls |-> NoRun]
  /\ faulted = FALSE

\* The request moves on, or ends with an answer.
Goes(c, at) == call' = [call EXCEPT ![c].at = at]
Answered(c, answer) ==
  [call[c] EXCEPT !.at = "done", !.sight = NoSight, !.answer = answer]
Answers(c, answer) == call' = [call EXCEPT ![c] = Answered(c, answer)]

\* What is left of a planner once its request is answered: auxiliary only.
Closed(c) == [NoRun EXCEPT !.early = run[c].early]

Running(c) == commands[c].at = "running"
Accepted(c) == commands[c].at # "none"
WithKey(k) == {c \in Calls : Accepted(c) /\ commands[c].key = k}

\* What activePlanningRuns holds.
Active(c) == call[c].at \in {"planning", "returned", "completing", "threw"}

-----------------------------------------------------------------------------
(* Around the session *)

\* The soft delete asks nothing about planning.
DeleteProduct ==
  /\ ~deleted
  /\ deleted' = TRUE
  /\ UNCHANGED <<intent, commands, messages, streams, events, call, run, faulted>>

\* The API process stops with all its requests.  Nothing resumes them.
Crash ==
  /\ \E c \in Calls : call[c].at \notin {"idle", "done"}
  /\ call' = [c \in Calls |->
       IF call[c].at \in {"idle", "done"} THEN call[c]
       ELSE Answered(c, "connection_lost")]
  /\ run' = [c \in Calls |-> Closed(c)]
  /\ faulted' = TRUE
  /\ UNCHANGED rows

-----------------------------------------------------------------------------
(* beginPlanning *)

\* Slip: the statement does not look for a run that is under way.
SightOfAnySession(k) ==
  [free |-> ~deleted /\ WithKey(k) = {}, length |-> Len(messages)]

\* The statement's snapshot: is the session free for this key, and what is
\* the last sequence number?
Sight(k) ==
  [free |-> ~deleted /\ WithKey(k) = {} /\ \A c \in Calls : ~Running(c),
   length |-> Len(messages)]

\* The statement reads, then waits for the session's row.  The row is locked
\* by others and never changed, so nothing is read again.
BeginRead(c) ==
  /\ call[c].at = "idle"
  /\ \E k \in Keys, x \in Texts :
       call' = [call EXCEPT ![c] =
         [at |-> "waiting", key |-> k, text |-> x, sight |-> Sight(k), answer |-> None]]
  /\ UNCHANGED <<rows, run, faulted>>

\* Slip: the sequence number is drawn again once the row is locked.
TakesAnyNumber(c) == TRUE

\* The unique key of agent_messages: the number drawn in the snapshot is free.
TakesNextNumber(c) == call[c].sight.length = Len(messages)

\* Slip: the intent is written as the snapshot allowed.
InitializeIntentBlindly(c) ==
  intent' = IF call[c].sight.length = 0 THEN call[c].text ELSE intent

\* The intent of a product is set once; the UPDATE sees the row as it is now.
InitializeIntent(c) ==
  intent' = IF intent = None /\ ~deleted THEN call[c].text ELSE intent

\* Command, checkpoint, trace stream, intent and user message, in one statement.
BeginWrites(c) ==
  /\ call[c].sight.free
  /\ WithKey(call[c].key) = {}
  /\ TakesNextNumber(c)
  /\ InitializeIntent(c)
  /\ commands' = [commands EXCEPT ![c] =
       [at |-> "running", key |-> call[c].key, text |-> call[c].text,
        cancellation |-> "available"]]
  /\ streams' = [streams EXCEPT ![c] = "open"]
  /\ messages' = Append(messages, [role |-> "user", of |-> c])
  /\ UNCHANGED <<deleted, events>>

BeginStarted(c) ==
  /\ call[c].at = "waiting"
  /\ BeginWrites(c)
  /\ Goes(c, "planning")
  /\ UNCHANGED <<run, faulted>>

\* The COMMIT takes effect and its answer is lost.
BeginAnswerLost(c) ==
  /\ call[c].at = "waiting"
  /\ BeginWrites(c)
  /\ Answers(c, "storage_error")
  /\ faulted' = TRUE
  /\ UNCHANGED run

\* Another request committed the same key since the snapshot: no command, no
\* message, but the trace stream has been inserted, and the intent is set.
BeginMeetsKey(c) ==
  /\ call[c].at = "waiting"
  /\ call[c].sight.free
  /\ WithKey(call[c].key) # {}
  /\ InitializeIntent(c)
  /\ streams' = [streams EXCEPT ![c] = "open"]
  /\ Goes(c, "replaying")
  /\ UNCHANGED <<deleted, commands, messages, events, run, faulted>>

\* Another request took the sequence number: the statement is rolled back.
BeginCollides(c) ==
  /\ call[c].at = "waiting"
  /\ call[c].sight.free
  /\ WithKey(call[c].key) = {}
  /\ ~TakesNextNumber(c)
  /\ Answers(c, "storage_error")
  /\ UNCHANGED <<rows, run, faulted>>

BeginNotEligible(c) ==
  /\ call[c].at = "waiting"
  /\ ~call[c].sight.free
  /\ Goes(c, "replaying")
  /\ UNCHANGED <<rows, run, faulted>>

\* Slip: the fingerprint is not compared.
ReplayOfAny(c, d) == Answers(c, d)

\* A command of the same key answers for itself, unless it said something else.
ReplayOf(c, d) ==
  Answers(c, IF commands[d].text = call[c].text THEN d ELSE "command_conflict")

ReplayRead(c) ==
  /\ call[c].at = "replaying"
  /\ \E d \in WithKey(call[c].key) : ReplayOf(c, d)
  /\ UNCHANGED <<rows, run, faulted>>

NothingToReplay(c) ==
  /\ call[c].at = "replaying"
  /\ WithKey(call[c].key) = {}
  /\ Goes(c, "looking")
  /\ UNCHANGED <<rows, run, faulted>>

\* findSession tells why the request was not accepted.
ReadRefusal(c) ==
  /\ call[c].at = "looking"
  /\ Answers(c, IF \E d \in Calls : Running(d) THEN "in_progress" ELSE "command_conflict")
  /\ UNCHANGED <<rows, run, faulted>>

\* A read or the whole statement fails without effect.
BeginFails(c) ==
  /\ call[c].at \in {"waiting", "replaying", "looking"}
  /\ Answers(c, "storage_error")
  /\ UNCHANGED <<rows, run, faulted>>

-----------------------------------------------------------------------------
(* Planning *)

\* Stages of the planner report; each report joins the chain of writes.
Emit(c) ==
  /\ call[c].at = "planning"
  /\ run[c].live < MaxEvents
  /\ run' = [run EXCEPT ![c].live = @ + 1]
  /\ UNCHANGED <<rows, call, faulted>>

\* appendPlanningTrace writes the next event of the chain, while the command
\* is running and its stream is open.
TraceWritten(c) ==
  /\ Active(c)
  /\ run[c].written < run[c].live
  /\ run' = [run EXCEPT ![c].written = @ + 1]
  /\ events' = [events EXCEPT ![c] =
       IF Running(c) /\ streams[c] = "open" THEN @ \union {run[c].written + 1} ELSE @]
  /\ UNCHANGED <<deleted, intent, commands, messages, streams, call, faulted>>

\* A failed write is logged and skipped; the chain goes on.
TraceLost(c) ==
  /\ Active(c)
  /\ run[c].written < run[c].live
  /\ run' = [run EXCEPT ![c].written = @ + 1]
  /\ UNCHANGED <<rows, call, faulted>>

\* Slip: the run waits for events that have been given up.
DrainedWhenStored(c) == events[c] = 1..run[c].live

\* The chain of writes has settled, whatever became of each.
Drained(c) == run[c].written = run[c].live

\* The catch clause: what failed the run is decided here, and reported.
Catches(c) ==
  /\ run' = [run EXCEPT ![c] = [run[c] EXCEPT
       !.live = run[c].live + 1,
       !.status = IF run[c].aborted THEN "cancelled" ELSE "failed"]]
  /\ Goes(c, "threw")

\* No profile, no credential, a planner that refuses, times out or is aborted.
ExploreThrows(c) ==
  /\ call[c].at = "planning"
  /\ Catches(c)
  /\ UNCHANGED <<rows, faulted>>

ExploreReturns(c) ==
  /\ call[c].at = "planning"
  /\ Goes(c, "returned")
  /\ UNCHANGED <<rows, run, faulted>>

\* Slip: the result is kept although the run was cancelled meanwhile.
KeepsAnyResult(c) == Drained(c)

KeepsResult(c) == Drained(c) /\ ~run[c].aborted

ResultKept(c) ==
  /\ call[c].at = "returned"
  /\ KeepsResult(c)
  /\ run' = [run EXCEPT ![c].status = "succeeded"]
  /\ Goes(c, "completing")
  /\ UNCHANGED <<rows, faulted>>

ResultDropped(c) ==
  /\ call[c].at = "returned"
  /\ Drained(c)
  /\ run[c].aborted
  /\ Catches(c)
  /\ UNCHANGED <<rows, faulted>>

\* Slip: only the events of the chain are kept.
StoredEventsOnly(c) == events[c]

\* The completion stores every event of the run that is not there yet.
StoredEvents(c) == events[c] \union 1..run[c].live

\* completePlanning, for a command that is running.
CompletionWrites(c) ==
  /\ Running(c)
  /\ messages' = Append(messages, [role |-> "assistant", of |-> c])
  /\ events' = [events EXCEPT ![c] = StoredEvents(c)]
  /\ streams' = [streams EXCEPT ![c] =
       IF run[c].status = "failed" THEN "failed" ELSE "completed"]
  /\ commands' = [commands EXCEPT ![c] = [commands[c] EXCEPT
       !.at = run[c].status,
       !.cancellation = IF run[c].status = "cancelled" THEN "completed" ELSE @]]
  /\ UNCHANGED <<deleted, intent>>

Completed(c) ==
  /\ \/ call[c].at = "completing"
     \/ call[c].at = "threw" /\ Drained(c)
  /\ CompletionWrites(c)
  /\ Answers(c, c)
  /\ run' = [run EXCEPT ![c] = Closed(c)]
  /\ UNCHANGED faulted

\* The first completion does not answer, done or not: the catch clause takes
\* over.
CompletionThrows(c) ==
  /\ call[c].at = "completing"
  /\ CompletionWrites(c) \/ UNCHANGED rows
  /\ Catches(c)
  /\ faulted' = TRUE

\* The second one does not answer, finds no running command, or fails.
FailureNotStored(c) ==
  /\ call[c].at = "threw"
  /\ Drained(c)
  /\ CompletionWrites(c) \/ UNCHANGED rows
  /\ Answers(c, "storage_error")
  /\ run' = [run EXCEPT ![c] = Closed(c)]
  /\ faulted' = TRUE

-----------------------------------------------------------------------------
(* Cancelling *)

\* requestPlanningCancellation, for a run this process holds.
CancelRecorded(c) ==
  /\ Active(c)
  /\ Running(c)
  /\ ~run[c].asked
  /\ commands' = [commands EXCEPT ![c].cancellation = "requested"]
  /\ run' = [run EXCEPT ![c].asked = TRUE]
  /\ UNCHANGED <<deleted, intent, messages, streams, events, call, faulted>>

\* The UPDATE has been answered: the run's controller is aborted.
CancelAborts(c) ==
  /\ Active(c)
  /\ run[c].asked /\ ~run[c].aborted
  /\ run' = [run EXCEPT ![c] = [run[c] EXCEPT
       !.aborted = TRUE, !.early = (run[c].status = "running")]]
  /\ UNCHANGED <<rows, call, faulted>>

\* The answer to the UPDATE is lost, and the controller left alone: the owner
\* may ask again.
CancelAnswerLost(c) ==
  /\ Active(c)
  /\ run[c].asked /\ ~run[c].aborted
  /\ run' = [run EXCEPT ![c].asked = FALSE]
  /\ UNCHANGED <<rows, call, faulted>>

-----------------------------------------------------------------------------
BeginStep(c) ==
  \/ BeginStarted(c) \/ BeginAnswerLost(c) \/ BeginMeetsKey(c)
  \/ BeginCollides(c) \/ BeginNotEligible(c)
  \/ ReplayRead(c) \/ NothingToReplay(c) \/ ReadRefusal(c) \/ BeginFails(c)

PlanStep(c) ==
  \/ TraceWritten(c) \/ TraceLost(c)
  \/ ExploreThrows(c) \/ ExploreReturns(c) \/ ResultKept(c) \/ ResultDropped(c)
  \/ Completed(c) \/ CompletionThrows(c) \/ FailureNotStored(c)

CancelStep(c) == CancelRecorded(c) \/ CancelAborts(c) \/ CancelAnswerLost(c)

AgentNext ==
  \/ DeleteProduct
  \/ Crash
  \/ \E c \in Calls :
       BeginRead(c) \/ BeginStep(c) \/ Emit(c) \/ PlanStep(c) \/ CancelStep(c)

\* A request that is being served goes on: statements are answered or fail,
\* and a run is aborted after runTimeoutMs at the latest.
AgentSpec ==
  /\ AgentInit
  /\ [][AgentNext]_agentVars
  /\ \A c \in Calls : WF_agentVars(BeginStep(c) \/ PlanStep(c))

-----------------------------------------------------------------------------
(* Properties *)

CommandRows ==
  [at : {"none", "running", "succeeded", "failed", "cancelled"},
   key : Keys \union {None}, text : Texts \union {None},
   cancellation : {"available", "requested", "completed"}]
CallStates ==
  [at : {"idle", "waiting", "replaying", "looking", "planning", "returned",
         "completing", "threw", "done"},
   key : Keys \union {None}, text : Texts \union {None},
   sight : [free : BOOLEAN, length : Nat],
   answer : Calls \union {None} \union Refusals]
RunStates ==
  [live : Nat, written : Nat, asked : BOOLEAN, aborted : BOOLEAN,
   early : BOOLEAN, status : {"running", "succeeded", "failed", "cancelled"}]

\* Rows and memory keep their types, and only an accepted command is active.
AgentTypeOK ==
  /\ deleted \in BOOLEAN
  /\ intent \in Texts \union {None}
  /\ commands \in [Calls -> CommandRows]
  /\ messages \in Seq([role : {"user", "assistant"}, of : Calls])
  /\ streams \in [Calls -> {"none", "open", "completed", "failed"}]
  /\ events \in [Calls -> SUBSET Nat]
  /\ call \in [Calls -> CallStates]
  /\ run \in [Calls -> RunStates]
  /\ faulted \in BOOLEAN
  /\ \A c \in Calls : Active(c) => Accepted(c)

\* A session plans one message at a time, although two submissions may both
\* find it free: the second one draws the sequence number of the first.
OneRunAtATime == \A c, d \in Calls : Running(c) /\ Running(d) => c = d

\* The transcript alternates: every message of the user is followed by the
\* answer to that message, and only the last may lack one.
TranscriptAlternates ==
  \A n \in 1..Len(messages) :
    /\ messages[n].role = IF n % 2 = 1 THEN "user" ELSE "assistant"
    /\ n % 2 = 0 => messages[n].of = messages[n - 1].of
    /\ n % 2 = 1 /\ n = Len(messages) => Running(messages[n].of)

\* A key starts at most one run, and a request is only answered with the run
\* of a request that said the same under the same key.
KeyStartsOneRun ==
  /\ \A c, d \in Calls :
       Accepted(c) /\ Accepted(d) /\ commands[c].key = commands[d].key => c = d
  /\ \A c \in Calls : call[c].answer \in Calls =>
       /\ commands[call[c].answer].key = call[c].key
       /\ commands[call[c].answer].text = call[c].text

\* The intent of a product is what its first message says, whoever else raced
\* to be the first.
IntentIsFirstMessage ==
  /\ intent # None => messages # <<>> /\ intent = commands[messages[1].of].text
  /\ messages # <<>> /\ ~deleted => intent # None

\* A finished command has a closed stream without gaps, also when writes of
\* its events failed or were overtaken by its completion.
TraceIsComplete ==
  \A c \in Calls : Accepted(c) /\ ~Running(c) =>
    /\ streams[c] \in {"completed", "failed"}
    /\ \E n \in 0..(MaxEvents + 1) : events[c] = 1..n
    /\ commands[c].at \in {"failed", "cancelled"} => events[c] # {}

\* A run whose controller was aborted before its result is looked at does not
\* succeed, whatever the planner still returns and whatever is retried.
AbortedRunsDoNotSucceed ==
  \A c \in Calls : run[c].early => commands[c].at # "succeeded"

\* Every run comes to its end and frees the session for the next message,
\* unless a process or a transaction fails it.
RunsEnd == []<>(faulted \/ \A c \in Calls : ~Running(c))

\* The transcript, the keys and the outcomes of the requests are those of a
\* conversation: whoever waits, is refused or is lost meanwhile leaves no mark
\* in it.
Conversing == INSTANCE Conversation WITH
  transcript <- messages,
  asked <- [c \in Calls |-> commands[c].key],
  outcome <- [c \in Calls |-> commands[c].at]

\* Submissions that race, repeat or fail, runs that are cancelled, and
\* processes that stop only ever take a session through the turns of a
\* conversation.
ImplementsConversation == Conversing!ConversationSpec

=============================================================================
