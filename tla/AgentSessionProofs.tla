------------------------- MODULE AgentSessionProofs -------------------------
(***************************************************************************)
(* For any number of submissions, keys and texts: the session keeps its    *)
(* types, one run at a time, one run to a key, the intent of its first     *)
(* message and whole traces, and an aborted run does not succeed.          *)
(***************************************************************************)
EXTENDS AgentSession, SequenceTheorems, TLAPS

Message == [role : {"user", "assistant"}, of : Calls]

CallTypes == call \in [Calls -> CallStates]
RunTypes == run \in [Calls -> RunStates]
RowTypes ==
  /\ deleted \in BOOLEAN
  /\ intent \in Texts \union {None}
  /\ commands \in [Calls -> CommandRows]
  /\ messages \in Seq(Message)
  /\ streams \in [Calls -> {"none", "open", "completed", "failed"}]
  /\ events \in [Calls -> SUBSET Nat]
  /\ faulted \in BOOLEAN

Types == CallTypes /\ RunTypes /\ RowTypes

Stations == {"idle", "waiting", "replaying", "looking", "planning", "returned",
             "completing", "threw", "done"}

-----------------------------------------------------------------------------
(* What the parts of an action do *)

\* A request moves on: its other fields, and the other requests, stay.
LEMMA GoesFacts ==
  ASSUME CallTypes, NEW c \in Calls, NEW at \in Stations, Goes(c, at)
  PROVE  /\ CallTypes'
         /\ call'[c].at = at
         /\ call'[c].key = call[c].key /\ call'[c].text = call[c].text
         /\ call'[c].sight = call[c].sight /\ call'[c].answer = call[c].answer
         /\ \A d \in Calls : d # c => call'[d] = call[d]
BY DEF CallTypes, CallStates, Goes, Stations

LEMMA AnswersFacts ==
  ASSUME CallTypes, NEW c \in Calls, NEW answer \in Calls \union Refusals, Answers(c, answer)
  PROVE  /\ CallTypes'
         /\ call'[c].at = "done" /\ call'[c].answer = answer
         /\ call'[c].key = call[c].key /\ call'[c].text = call[c].text
         /\ \A d \in Calls : d # c => call'[d] = call[d]
<1>1. NoSight \in [free : BOOLEAN, length : Nat]
  BY DEF NoSight
<1>2. /\ Answered(c, answer) \in CallStates
      /\ Answered(c, answer).at = "done" /\ Answered(c, answer).answer = answer
      /\ Answered(c, answer).key = call[c].key /\ Answered(c, answer).text = call[c].text
  BY <1>1 DEF CallTypes, CallStates, Answered
<1>3. call' = [call EXCEPT ![c] = Answered(c, answer)]
  BY DEF Answers
<1>4. QED BY <1>2, <1>3 DEF CallTypes

\* A planner that stops keeps what is remembered of its abort.
LEMMA ClosedFacts ==
  ASSUME RunTypes, NEW c \in Calls
  PROVE  /\ Closed(c) \in RunStates
         /\ Closed(c).early = run[c].early
         /\ Closed(c).live = 0 /\ Closed(c).written = 0
         /\ Closed(c).aborted = FALSE /\ Closed(c).status = "running"
BY DEF RunTypes, RunStates, Closed, NoRun

LEMMA ClosesFacts ==
  ASSUME RunTypes, NEW c \in Calls, run' = [run EXCEPT ![c] = Closed(c)]
  PROVE  /\ RunTypes'
         /\ run'[c].early = run[c].early
         /\ \A d \in Calls : d # c => run'[d] = run[d]
BY ClosedFacts DEF RunTypes

\* What failed a run is reported as one more event.
LEMMA CatchesFacts ==
  ASSUME CallTypes, RunTypes, NEW c \in Calls, Catches(c)
  PROVE  /\ CallTypes' /\ RunTypes'
         /\ call'[c].at = "threw"
         /\ call'[c].key = call[c].key /\ call'[c].text = call[c].text
         /\ call'[c].sight = call[c].sight /\ call'[c].answer = call[c].answer
         /\ run'[c].live = run[c].live + 1 /\ run'[c].written = run[c].written
         /\ run'[c].early = run[c].early /\ run'[c].aborted = run[c].aborted
         /\ run'[c].status \in {"failed", "cancelled"}
         /\ \A d \in Calls : d # c => call'[d] = call[d] /\ run'[d] = run[d]
<1>1. Goes(c, "threw") /\ "threw" \in Stations
  BY DEF Catches, Stations
<1>2. run[c] \in RunStates /\ run[c].live + 1 \in Nat
  BY DEF RunTypes, RunStates
<1> DEFINE new == [run[c] EXCEPT
       !.live = run[c].live + 1,
       !.status = IF run[c].aborted THEN "cancelled" ELSE "failed"]
<1>3. /\ new \in RunStates
      /\ new.live = run[c].live + 1 /\ new.written = run[c].written
      /\ new.early = run[c].early /\ new.aborted = run[c].aborted
      /\ new.status \in {"failed", "cancelled"}
  BY <1>2 DEF RunStates
<1>4. run' = [run EXCEPT ![c] = new]
  BY DEF Catches
<1> HIDE DEF new
<1>5. /\ RunTypes' /\ run'[c] = new
      /\ \A d \in Calls : d # c => run'[d] = run[d]
  BY <1>3, <1>4 DEF RunTypes
<1>6. QED BY <1>1, <1>3, <1>5, GoesFacts

\* A command is begun: the session's rows as they are then.
LEMMA BeginFacts ==
  ASSUME Types, NEW c \in Calls, BeginWrites(c)
  PROVE  /\ commands' \in [Calls -> CommandRows]
         /\ commands'[c].at = "running"
         /\ commands'[c].key = call[c].key /\ commands'[c].text = call[c].text
         /\ streams' \in [Calls -> {"none", "open", "completed", "failed"}]
         /\ messages' = Append(messages, [role |-> "user", of |-> c])
         /\ messages' \in Seq(Message)
         /\ intent' \in Texts \union {None}
         /\ UNCHANGED <<deleted, events>>
         /\ \A d \in Calls : d # c => commands'[d] = commands[d] /\ streams'[d] = streams[d]
<1> DEFINE new == [at |-> "running", key |-> call[c].key, text |-> call[c].text,
                   cancellation |-> "available"]
<1>1. /\ new \in CommandRows /\ new.at = "running"
      /\ new.key = call[c].key /\ new.text = call[c].text
  BY DEF CommandRows, Types, CallTypes, CallStates
<1>2. commands' = [commands EXCEPT ![c] = new]
  BY DEF BeginWrites
<1> HIDE DEF new
<1>3. /\ commands' \in [Calls -> CommandRows] /\ commands'[c] = new
      /\ \A d \in Calls : d # c => commands'[d] = commands[d]
  BY <1>1, <1>2 DEF Types, RowTypes
<1>4. /\ streams' \in [Calls -> {"none", "open", "completed", "failed"}]
      /\ \A d \in Calls : d # c => streams'[d] = streams[d]
  BY DEF BeginWrites, Types, RowTypes
<1>5. [role |-> "user", of |-> c] \in Message
  BY DEF Message
<1>6. messages' = Append(messages, [role |-> "user", of |-> c])
      /\ UNCHANGED <<deleted, events>>
  BY DEF BeginWrites
<1>7. messages' \in Seq(Message)
  BY <1>5, <1>6 DEF Types, RowTypes
<1>8. intent' \in Texts \union {None}
  BY DEF BeginWrites, InitializeIntent, Types, RowTypes, CallTypes, CallStates
<1>9. QED BY <1>1, <1>3, <1>4, <1>6, <1>7, <1>8

\* A command is completed.
LEMMA CompletionFacts ==
  ASSUME Types, NEW c \in Calls, CompletionWrites(c)
  PROVE  /\ Running(c)
         /\ commands' \in [Calls -> CommandRows]
         /\ commands'[c].at = run[c].status
         /\ commands'[c].key = commands[c].key /\ commands'[c].text = commands[c].text
         /\ streams' \in [Calls -> {"none", "open", "completed", "failed"}]
         /\ streams'[c] \in {"completed", "failed"}
         /\ events' \in [Calls -> SUBSET Nat]
         /\ events'[c] = events[c] \union 1..run[c].live
         /\ messages' = Append(messages, [role |-> "assistant", of |-> c])
         /\ messages' \in Seq(Message)
         /\ UNCHANGED <<deleted, intent>>
         /\ \A d \in Calls : d # c =>
              /\ commands'[d] = commands[d] /\ streams'[d] = streams[d]
              /\ events'[d] = events[d]
<1> DEFINE new == [commands[c] EXCEPT
       !.at = run[c].status,
       !.cancellation = IF run[c].status = "cancelled" THEN "completed" ELSE @]
<1>1. commands[c] \in CommandRows /\ run[c] \in RunStates
  BY DEF Types, RowTypes, RunTypes
<1>2. /\ new \in CommandRows /\ new.at = run[c].status
      /\ new.key = commands[c].key /\ new.text = commands[c].text
  BY <1>1 DEF CommandRows, RunStates
<1>3. commands' = [commands EXCEPT ![c] = new]
  BY DEF CompletionWrites
<1> HIDE DEF new
<1>4. /\ commands' \in [Calls -> CommandRows] /\ commands'[c] = new
      /\ \A d \in Calls : d # c => commands'[d] = commands[d]
  BY <1>2, <1>3 DEF Types, RowTypes
<1>5. /\ streams' \in [Calls -> {"none", "open", "completed", "failed"}]
      /\ streams'[c] \in {"completed", "failed"}
      /\ \A d \in Calls : d # c => streams'[d] = streams[d]
  BY DEF CompletionWrites, Types, RowTypes
<1>6. run[c].live \in Nat
  BY <1>1 DEF RunStates
<1>7. 1..run[c].live \in SUBSET Nat
  BY <1>6
<1>8. events' = [events EXCEPT ![c] = events[c] \union 1..run[c].live]
  BY DEF CompletionWrites, StoredEvents
<1>9. /\ events' \in [Calls -> SUBSET Nat]
      /\ events'[c] = events[c] \union 1..run[c].live
      /\ \A d \in Calls : d # c => events'[d] = events[d]
  BY <1>7, <1>8 DEF Types, RowTypes
<1>10. [role |-> "assistant", of |-> c] \in Message
  BY DEF Message
<1>11. /\ messages' = Append(messages, [role |-> "assistant", of |-> c])
       /\ UNCHANGED <<deleted, intent>> /\ Running(c)
  BY DEF CompletionWrites
<1>12. messages' \in Seq(Message)
  BY <1>10, <1>11 DEF Types, RowTypes
<1>13. QED BY <1>2, <1>4, <1>5, <1>9, <1>11, <1>12
-----------------------------------------------------------------------------
(* The invariant of one request *)

Before == {"idle", "waiting", "replaying", "looking"}

\* A command is accepted by beginPlanning and runs while it is planned.
Phase(c) ==
  /\ call[c].at \in Before => ~Accepted(c)
  /\ call[c].at \in {"planning", "returned"} => Running(c)
  /\ Active(c) => /\ Accepted(c)
                  /\ commands[c].key = call[c].key /\ commands[c].text = call[c].text

\* The status of a run follows its station, and an abort in time is kept.
Verdict(c) ==
  /\ call[c].at \in Before => ~run[c].early /\ ~run[c].aborted
  /\ call[c].at \in Before \union {"planning", "returned"} => run[c].status = "running"
  /\ call[c].at = "completing" => run[c].status = "succeeded"
  /\ call[c].at = "threw" => run[c].status \in {"failed", "cancelled"}
  /\ run[c].early => commands[c].at # "succeeded"
  /\ run[c].early /\ Active(c) => run[c].aborted /\ run[c].status # "succeeded"

\* A finished command has its whole trace.
Whole(c) ==
  /\ streams[c] \in {"completed", "failed"}
  /\ \E n \in 0..(MaxEvents + 1) : events[c] = 1..n
  /\ commands[c].at \in {"failed", "cancelled"} => events[c] # {}

\* The events of a planner, and those written of them.
Emitted(c) ==
  /\ run[c].written <= run[c].live
  /\ run[c].live <= MaxEvents + 1
  /\ call[c].at # "threw" => run[c].live <= MaxEvents
  /\ call[c].at = "threw" => run[c].live >= 1

Trace(c) ==
  /\ call[c].at \in Before =>
       run[c].live = 0 /\ run[c].written = 0 /\ events[c] = {}
  /\ Active(c) => Emitted(c)
  /\ Active(c) /\ Running(c) => events[c] \subseteq 1..run[c].written
  /\ Accepted(c) /\ ~Running(c) => Whole(c)

Local(c) == Phase(c) /\ Verdict(c) /\ Trace(c)

\* The requests that do not take this step keep what is theirs.
Others(c) ==
  \A d \in Calls : d # c =>
    /\ commands'[d] = commands[d] /\ streams'[d] = streams[d] /\ events'[d] = events[d]
    /\ call'[d] = call[d] /\ run'[d] = run[d]

LEMMA OthersKeepLocal ==
  ASSUME NEW c \in Calls, Others(c), NEW d \in Calls, d # c, Local(d)
  PROVE  Local(d)'
<1>1. /\ commands'[d] = commands[d] /\ streams'[d] = streams[d] /\ events'[d] = events[d]
      /\ call'[d] = call[d] /\ run'[d] = run[d]
  BY DEF Others
<1>2. Phase(d)'
  BY <1>1 DEF Local, Phase, Accepted, Running, Active
<1>3. Verdict(d)'
  BY <1>1 DEF Local, Verdict, Active
<1>4. Trace(d)'
  BY <1>1 DEF Local, Trace, Emitted, Whole, Accepted, Running, Active
<1>5. QED BY <1>2, <1>3, <1>4 DEF Local

\* A request that is not accepted moves on, or is refused.
LEMMA NotAcceptedKeepsLocal ==
  ASSUME NEW c \in Calls, Local(c), call[c].at \in Before,
         call'[c].at \in Before \union {"done"},
         commands'[c] = commands[c], events'[c] = events[c], run'[c] = run[c]
  PROVE  Local(c)'
<1>1. ~Accepted(c) /\ ~Accepted(c)' /\ ~Active(c)'
  BY DEF Local, Phase, Accepted, Active, Before
<1>2. Phase(c)'
  BY <1>1 DEF Phase, Before
<1>3. ~run[c].early /\ ~run[c].aborted /\ run[c].status = "running"
  BY DEF Local, Verdict
<1>4. Verdict(c)'
  BY <1>1, <1>3 DEF Verdict, Before
<1>5. run[c].live = 0 /\ run[c].written = 0 /\ events[c] = {}
  BY DEF Local, Trace
<1>6. Trace(c)'
  BY <1>1, <1>5 DEF Trace
<1>7. QED BY <1>2, <1>4, <1>6 DEF Local

\* What a step of a request does, in every case.
Kept(c) == Types' /\ Local(c)' /\ Others(c)

LEMMA BeginStartedKeeps ==
  ASSUME Types, NEW c \in Calls, Local(c), BeginStarted(c)
  PROVE  Kept(c)
<1>1. call[c].at = "waiting" /\ BeginWrites(c) /\ Goes(c, "planning") /\ UNCHANGED <<run, faulted>>
  BY DEF BeginStarted
<1>2. "planning" \in Stations
  BY DEF Stations
<1>3. Others(c)
  BY <1>1, <1>2, BeginFacts, GoesFacts DEF Others, Types
<1>4. Types'
  BY <1>1, <1>2, BeginFacts, GoesFacts DEF Types, RowTypes, RunTypes
<1>5. /\ commands'[c].at = "running" /\ call'[c].at = "planning"
      /\ commands'[c].key = call'[c].key /\ commands'[c].text = call'[c].text
      /\ run'[c] = run[c] /\ events'[c] = events[c]
  BY <1>1, <1>2, BeginFacts, GoesFacts DEF Types
<1>6. Phase(c)'
  BY <1>5 DEF Phase, Before, Accepted, Running
<1>7. ~run[c].early /\ ~run[c].aborted /\ run[c].status = "running"
      /\ run[c].live = 0 /\ run[c].written = 0 /\ events[c] = {}
  BY <1>1 DEF Local, Verdict, Trace, Before
<1>8. Verdict(c)'
  BY <1>5, <1>7 DEF Verdict, Before
<1>9. Emitted(c)'
  BY <1>5, <1>7, AgentAssumption DEF Emitted
<1>10. Trace(c)'
  BY <1>5, <1>7, <1>9 DEF Trace, Before, Running
<1>11. QED BY <1>3, <1>4, <1>6, <1>8, <1>10 DEF Kept, Local

LEMMA BeginAnswerLostKeeps ==
  ASSUME Types, NEW c \in Calls, Local(c), BeginAnswerLost(c)
  PROVE  Kept(c)
<1>1. /\ call[c].at = "waiting" /\ BeginWrites(c) /\ Answers(c, "storage_error")
      /\ faulted' = TRUE /\ UNCHANGED run
  BY DEF BeginAnswerLost
<1>2. "storage_error" \in Calls \union Refusals
  BY DEF Refusals
<1>3. Others(c)
  <2>1. \A d \in Calls : d # c => call'[d] = call[d]
    BY <1>1, <1>2, AnswersFacts DEF Types
  <2>2. \A d \in Calls : d # c => commands'[d] = commands[d] /\ streams'[d] = streams[d]
    BY <1>1, BeginFacts
  <2>3. UNCHANGED <<events, run>>
    BY <1>1, BeginFacts
  <2>4. QED BY <2>1, <2>2, <2>3 DEF Others
<1>4. Types'
  BY <1>1, <1>2, BeginFacts, AnswersFacts DEF Types, RowTypes, RunTypes
<1>5. commands'[c].at = "running" /\ call'[c].at = "done" /\ run'[c] = run[c]
  BY <1>1, <1>2, BeginFacts, AnswersFacts DEF Types
<1>6. Phase(c)'
  BY <1>5 DEF Phase, Before, Active
<1>7. Verdict(c)'
  BY <1>1, <1>5 DEF Local, Verdict, Before, Active
<1>8. Trace(c)'
  BY <1>5 DEF Trace, Before, Active, Running
<1>9. QED BY <1>3, <1>4, <1>6, <1>7, <1>8 DEF Kept, Local

\* Steps of beginPlanning that write no command.
LEMMA RefusedKeeps ==
  ASSUME Types, NEW c \in Calls, Local(c),
         \/ BeginRead(c) \/ BeginMeetsKey(c) \/ BeginCollides(c) \/ BeginNotEligible(c)
         \/ ReplayRead(c) \/ NothingToReplay(c) \/ ReadRefusal(c) \/ BeginFails(c)
  PROVE  Kept(c)
<1>1. /\ UNCHANGED <<deleted, commands, messages, events, run, faulted>>
      /\ call[c].at \in Before
  BY DEF BeginRead, BeginMeetsKey, BeginCollides, BeginNotEligible, ReplayRead,
         NothingToReplay, ReadRefusal, BeginFails, rows, Before
<1>2. /\ CallTypes' /\ call'[c].at \in Before \union {"done"}
      /\ \A d \in Calls : d # c => call'[d] = call[d]
  <2>1. CASE BeginRead(c)
    <3>1. PICK k \in Keys, x \in Texts : call' = [call EXCEPT ![c] =
            [at |-> "waiting", key |-> k, text |-> x, sight |-> Sight(k), answer |-> None]]
      BY <2>1 DEF BeginRead
    <3>2. Sight(k) \in [free : BOOLEAN, length : Nat]
      <4>1. Len(messages) \in Nat
        BY DEF Types, RowTypes
      <4>2. QED BY <4>1 DEF Sight
    <3> DEFINE new == [at |-> "waiting", key |-> k, text |-> x, sight |-> Sight(k),
                       answer |-> None]
    <3>3. new \in CallStates /\ new.at = "waiting"
      BY <3>2 DEF CallStates
    <3>4. call' = [call EXCEPT ![c] = new]
      BY <3>1
    <3> HIDE DEF new
    <3>5. QED BY <3>3, <3>4 DEF Types, CallTypes, Before
  <2>2. CASE \E next \in {"replaying", "looking"} : Goes(c, next)
    BY <2>2, GoesFacts DEF Types, Stations, Before
  <2>3. CASE \E answer \in Calls \union Refusals : Answers(c, answer)
    BY <2>3, AnswersFacts DEF Types
  <2>4. CASE BeginMeetsKey(c) \/ BeginNotEligible(c) \/ NothingToReplay(c)
    BY <2>2, <2>4 DEF BeginMeetsKey, BeginNotEligible, NothingToReplay
  <2>5. CASE ReplayRead(c)
    <3>1. \E answer \in Calls \union Refusals : Answers(c, answer)
      BY <2>5 DEF ReplayRead, ReplayOf, WithKey, Refusals
    <3>2. QED BY <2>3, <3>1
  <2>6. CASE ReadRefusal(c) \/ BeginFails(c) \/ BeginCollides(c)
    <3>1. \E answer \in Calls \union Refusals : Answers(c, answer)
      BY <2>6 DEF ReadRefusal, BeginFails, BeginCollides, Refusals
    <3>2. QED BY <2>3, <3>1
  <2>7. QED BY <2>1, <2>4, <2>5, <2>6
<1>3. /\ streams' \in [Calls -> {"none", "open", "completed", "failed"}]
      /\ intent' \in Texts \union {None}
      /\ \A d \in Calls : d # c => streams'[d] = streams[d]
  <2>1. CASE UNCHANGED rows
    BY <2>1 DEF rows, Types, RowTypes
  <2>2. CASE BeginMeetsKey(c)
    BY <2>2 DEF BeginMeetsKey, InitializeIntent, Types, RowTypes, CallTypes, CallStates
  <2>3. QED
    BY <2>1, <2>2 DEF BeginRead, BeginCollides, BeginNotEligible, ReplayRead,
       NothingToReplay, ReadRefusal, BeginFails
<1>4. Local(c)'
  BY <1>1, <1>2, NotAcceptedKeepsLocal
<1>5. Types'
  BY <1>1, <1>2, <1>3 DEF Types, RowTypes, RunTypes
<1>6. Others(c)
  BY <1>1, <1>2, <1>3 DEF Others
<1>7. QED BY <1>4, <1>5, <1>6 DEF Kept
-----------------------------------------------------------------------------
(* Planning *)

\* The counters of a planner.
LEMMA Counters ==
  ASSUME Types, NEW c \in Calls
  PROVE  /\ run[c].live \in Nat /\ run[c].written \in Nat /\ MaxEvents \in Nat
         /\ run[c].live + 1 \in Nat /\ run[c].written + 1 \in Nat
BY AgentAssumption DEF Types, RunTypes, RunStates

\* A step that changes the counters of a planner and perhaps its events.
LEMMA CountersKeep ==
  ASSUME Types, NEW c \in Calls, Local(c), Active(c), RunTypes',
         UNCHANGED <<deleted, intent, commands, messages, streams, call, faulted>>,
         events' \in [Calls -> SUBSET Nat],
         \A d \in Calls : d # c => run'[d] = run[d] /\ events'[d] = events[d],
         run'[c].early = run[c].early, run'[c].aborted = run[c].aborted,
         run'[c].status = run[c].status,
         Emitted(c)',
         Running(c) => events'[c] \subseteq 1..run'[c].written,
         ~Running(c) => events'[c] = events[c]
  PROVE  Kept(c)
<1>1. Types'
  BY DEF Types, CallTypes, RowTypes
<1>2. Others(c)
  BY DEF Others
<1>3. Phase(c)'
  BY DEF Local, Phase, Accepted, Running, Active
<1>4. Verdict(c)'
  BY DEF Local, Verdict, Active
<1>5. call[c].at \notin Before
  BY DEF Active, Before
<1>6. Accepted(c)' /\ ~Running(c)' => Whole(c)'
  BY DEF Local, Trace, Whole, Accepted, Running
<1>7. Running(c)' => Running(c)
  BY DEF Running
<1>8. Trace(c)'
  BY <1>5, <1>6, <1>7 DEF Trace
<1>9. QED BY <1>1, <1>2, <1>3, <1>4, <1>8 DEF Kept, Local

LEMMA EmitKeeps ==
  ASSUME Types, NEW c \in Calls, Local(c), Emit(c)
  PROVE  Kept(c)
<1>1. /\ call[c].at = "planning" /\ run[c].live < MaxEvents
      /\ run' = [run EXCEPT ![c].live = run[c].live + 1]
      /\ UNCHANGED <<rows, call, faulted>>
  BY DEF Emit
<1>2. run[c].live + 1 \in Nat
  BY Counters
<1>3. /\ RunTypes'
      /\ run'[c].live = run[c].live + 1 /\ run'[c].written = run[c].written
      /\ run'[c].early = run[c].early /\ run'[c].aborted = run[c].aborted
      /\ run'[c].status = run[c].status
      /\ \A d \in Calls : d # c => run'[d] = run[d]
  BY <1>1, <1>2 DEF Types, RunTypes, RunStates
<1>4. Active(c) /\ Emitted(c)
  BY <1>1 DEF Local, Trace, Active
<1>5. /\ run[c].written <= run[c].live + 1
      /\ run[c].live + 1 <= MaxEvents + 1 /\ run[c].live + 1 <= MaxEvents
  BY <1>1, <1>4, Counters DEF Emitted
<1>6. Emitted(c)'
  BY <1>1, <1>3, <1>5 DEF Emitted
<1>7. Running(c) => events[c] \subseteq 1..run[c].written
  BY <1>4 DEF Local, Trace
<1>8. events \in [Calls -> SUBSET Nat]
  BY DEF Types, RowTypes
<1>9. QED BY <1>1, <1>3, <1>4, <1>6, <1>7, <1>8, CountersKeep DEF rows

\* One more event of the chain has been dealt with.
LEMMA WrittenFacts ==
  ASSUME Types, NEW c \in Calls, Local(c), Active(c), run[c].written < run[c].live,
         run' = [run EXCEPT ![c].written = run[c].written + 1], UNCHANGED call
  PROVE  /\ RunTypes'
         /\ run'[c].written = run[c].written + 1
         /\ run'[c].early = run[c].early /\ run'[c].aborted = run[c].aborted
         /\ run'[c].status = run[c].status
         /\ \A d \in Calls : d # c => run'[d] = run[d]
         /\ Emitted(c)'
         /\ Running(c) => events[c] \union {run[c].written + 1} \subseteq 1..run'[c].written
<1>1. run[c].written + 1 \in Nat
  BY Counters
<1>2. /\ RunTypes'
      /\ run'[c].live = run[c].live /\ run'[c].written = run[c].written + 1
      /\ run'[c].early = run[c].early /\ run'[c].aborted = run[c].aborted
      /\ run'[c].status = run[c].status
      /\ \A d \in Calls : d # c => run'[d] = run[d]
  BY <1>1 DEF Types, RunTypes, RunStates
<1>3. run[c].written + 1 <= run[c].live
  BY Counters
<1>4. Emitted(c)'
  BY <1>2, <1>3 DEF Local, Trace, Emitted
<1>5. ASSUME Running(c)
      PROVE  events[c] \union {run[c].written + 1} \subseteq 1..(run[c].written + 1)
  <2>1. events[c] \subseteq 1..run[c].written
    BY <1>5 DEF Local, Trace
  <2>2. QED BY <2>1, Counters
<1>6. QED BY <1>2, <1>4, <1>5

LEMMA TraceKeeps ==
  ASSUME Types, NEW c \in Calls, Local(c), TraceWritten(c) \/ TraceLost(c)
  PROVE  Kept(c)
<1>1. /\ Active(c) /\ run[c].written < run[c].live
      /\ run' = [run EXCEPT ![c].written = run[c].written + 1]
      /\ UNCHANGED <<deleted, intent, commands, messages, streams, call, faulted>>
  BY DEF TraceWritten, TraceLost, rows
<1>2. \/ events' = events
      \/ /\ Running(c)
         /\ events' = [events EXCEPT ![c] = events[c] \union {run[c].written + 1}]
  <2>1. CASE TraceLost(c)
    BY <2>1 DEF TraceLost, rows
  <2>2. CASE TraceWritten(c) /\ Running(c) /\ streams[c] = "open"
    BY <2>2 DEF TraceWritten
  <2>3. CASE TraceWritten(c) /\ ~(Running(c) /\ streams[c] = "open")
    <3>1. events' = [events EXCEPT ![c] = events[c]]
      BY <2>3 DEF TraceWritten
    <3>2. QED BY <3>1 DEF Types, RowTypes
  <2>4. QED BY <2>1, <2>2, <2>3
<1>3. {run[c].written + 1} \subseteq Nat
  BY Counters
<1>4. /\ events' \in [Calls -> SUBSET Nat]
      /\ \A d \in Calls : d # c => events'[d] = events[d]
      /\ events'[c] \subseteq events[c] \union {run[c].written + 1}
      /\ ~Running(c) => events'[c] = events[c]
  BY <1>2, <1>3 DEF Types, RowTypes
<1>5. Running(c) => events'[c] \subseteq 1..run'[c].written
  BY <1>1, <1>4, WrittenFacts
<1>6. QED BY <1>1, <1>4, <1>5, WrittenFacts, CountersKeep

\* The owner asks, and the controller is aborted, or not.
LEMMA CancelKeeps ==
  ASSUME Types, NEW c \in Calls, Local(c), CancelStep(c)
  PROVE  Kept(c)
<1>1. /\ Active(c)
      /\ UNCHANGED <<deleted, intent, messages, streams, events, call, faulted>>
  BY DEF CancelStep, CancelRecorded, CancelAborts, CancelAnswerLost, rows
<1>2. run[c] \in RunStates /\ commands[c] \in CommandRows
  BY DEF Types, RunTypes, RowTypes
<1>3. /\ commands' \in [Calls -> CommandRows]
      /\ commands'[c].at = commands[c].at
      /\ commands'[c].key = commands[c].key /\ commands'[c].text = commands[c].text
      /\ \A d \in Calls : d # c => commands'[d] = commands[d]
  <2>1. CASE CancelRecorded(c)
    BY <1>2, <2>1 DEF CancelRecorded, Types, RowTypes, CommandRows
  <2>2. CASE CancelAborts(c) \/ CancelAnswerLost(c)
    BY <2>2 DEF CancelAborts, CancelAnswerLost, rows, Types, RowTypes
  <2>3. QED BY <2>1, <2>2 DEF CancelStep
<1>4. /\ RunTypes'
      /\ run'[c].live = run[c].live /\ run'[c].written = run[c].written
      /\ run'[c].status = run[c].status
      /\ \A d \in Calls : d # c => run'[d] = run[d]
      /\ \/ run'[c].early = run[c].early /\ run'[c].aborted = run[c].aborted
         \/ run'[c].aborted /\ (run'[c].early = (run[c].status = "running"))
  <2>1. CASE CancelRecorded(c)
    BY <1>2, <2>1 DEF CancelRecorded, Types, RunTypes, RunStates
  <2>2. CASE CancelAnswerLost(c)
    BY <1>2, <2>2 DEF CancelAnswerLost, Types, RunTypes, RunStates
  <2>3. CASE CancelAborts(c)
    <3> DEFINE new == [run[c] EXCEPT !.aborted = TRUE, !.early = (run[c].status = "running")]
    <3>1. /\ new \in RunStates /\ new.live = run[c].live /\ new.written = run[c].written
          /\ new.status = run[c].status /\ new.aborted
          /\ new.early = (run[c].status = "running")
      BY <1>2 DEF RunStates
    <3>2. run' = [run EXCEPT ![c] = new]
      BY <2>3 DEF CancelAborts
    <3> HIDE DEF new
    <3>3. RunTypes' /\ run'[c] = new /\ \A d \in Calls : d # c => run'[d] = run[d]
      BY <3>1, <3>2 DEF Types, RunTypes
    <3>4. QED BY <3>1, <3>3
  <2>4. QED BY <2>1, <2>2, <2>3 DEF CancelStep
<1>5. Types'
  BY <1>1, <1>3, <1>4 DEF Types, CallTypes, RowTypes
<1>6. Others(c)
  BY <1>1, <1>3, <1>4 DEF Others
<1>7. Phase(c)'
  BY <1>1, <1>3 DEF Local, Phase, Accepted, Running, Active
<1>8. Verdict(c)'
  <2>1. call[c].at \notin Before
    BY <1>1 DEF Active, Before
  <2>2. CASE run'[c].early = run[c].early /\ run'[c].aborted = run[c].aborted
    BY <1>1, <1>3, <1>4, <2>1, <2>2 DEF Local, Verdict, Active
  <2>3. CASE run'[c].aborted /\ (run'[c].early = (run[c].status = "running"))
    <3>1. run[c].status = "running" => call[c].at \in {"planning", "returned"}
      BY <1>1 DEF Local, Verdict, Active
    <3>2. run[c].status = "running" => commands[c].at = "running"
      BY <3>1 DEF Local, Phase, Running
    <3>3. QED BY <1>1, <1>3, <1>4, <2>1, <2>3, <3>2 DEF Local, Verdict, Active
  <2>4. QED BY <1>4, <2>2, <2>3
<1>9. Trace(c)'
  <2>1. call[c].at \notin Before
    BY <1>1 DEF Active, Before
  <2>2. Emitted(c)' /\ (Running(c) => events[c] \subseteq 1..run'[c].written)
    BY <1>1, <1>4 DEF Local, Trace, Emitted
  <2>3. Accepted(c)' /\ ~Running(c)' => Whole(c)'
    BY <1>1, <1>3 DEF Local, Trace, Whole, Accepted, Running
  <2>4. QED BY <1>1, <1>3, <2>1, <2>2, <2>3 DEF Trace, Running
<1>10. QED BY <1>5, <1>6, <1>7, <1>8, <1>9 DEF Kept, Local
LEMMA ReturnsKeeps ==
  ASSUME Types, NEW c \in Calls, Local(c), ExploreReturns(c)
  PROVE  Kept(c)
<1>1. call[c].at = "planning" /\ Goes(c, "returned") /\ UNCHANGED <<rows, run, faulted>>
  BY DEF ExploreReturns
<1>2. /\ CallTypes' /\ call'[c].at = "returned"
      /\ call'[c].key = call[c].key /\ call'[c].text = call[c].text
      /\ \A d \in Calls : d # c => call'[d] = call[d]
  BY <1>1, GoesFacts DEF Types, Stations
<1>3. Types' /\ Others(c)
  BY <1>1, <1>2 DEF Types, RowTypes, RunTypes, Others, rows
<1>4. Phase(c)'
  BY <1>1, <1>2 DEF Local, Phase, Before, Active, Accepted, Running, rows
<1>5. Verdict(c)'
  BY <1>1, <1>2 DEF Local, Verdict, Before, Active, rows
<1>6. Emitted(c)'
  BY <1>1, <1>2 DEF Local, Trace, Emitted, Active
<1>7. Trace(c)'
  BY <1>1, <1>2, <1>6 DEF Local, Trace, Before, Active, Accepted, Running, Whole, rows
<1>8. QED BY <1>3, <1>4, <1>5, <1>7 DEF Kept, Local

LEMMA ResultKeptKeeps ==
  ASSUME Types, NEW c \in Calls, Local(c), ResultKept(c)
  PROVE  Kept(c)
<1>1. /\ call[c].at = "returned" /\ ~run[c].aborted
      /\ run' = [run EXCEPT ![c].status = "succeeded"]
      /\ Goes(c, "completing") /\ UNCHANGED <<rows, faulted>>
  BY DEF ResultKept, KeepsResult
<1>2. /\ CallTypes' /\ call'[c].at = "completing"
      /\ call'[c].key = call[c].key /\ call'[c].text = call[c].text
      /\ \A d \in Calls : d # c => call'[d] = call[d]
  BY <1>1, GoesFacts DEF Types, Stations
<1>3. /\ RunTypes'
      /\ run'[c].live = run[c].live /\ run'[c].written = run[c].written
      /\ run'[c].status = "succeeded" /\ run'[c].early = run[c].early
      /\ \A d \in Calls : d # c => run'[d] = run[d]
  BY <1>1 DEF Types, RunTypes, RunStates
<1>4. Types' /\ Others(c)
  BY <1>1, <1>2, <1>3 DEF Types, RowTypes, Others, rows
<1>5. Phase(c)'
  BY <1>1, <1>2 DEF Local, Phase, Before, Active, Accepted, Running, rows
<1>6. ~run[c].early
  BY <1>1 DEF Local, Verdict, Active
<1>7. Verdict(c)'
  BY <1>2, <1>3, <1>6 DEF Verdict, Before
<1>8. Emitted(c)'
  BY <1>1, <1>2, <1>3 DEF Local, Trace, Emitted, Active
<1>9. Trace(c)'
  BY <1>1, <1>2, <1>3, <1>8
  DEF Local, Trace, Before, Active, Accepted, Running, Whole, rows
<1>10. QED BY <1>4, <1>5, <1>7, <1>9 DEF Kept, Local

\* The report of a failure is one event more.
LEMMA CatchesCounts ==
  ASSUME Types, NEW c \in Calls, Local(c), Catches(c),
         Active(c), call[c].at # "threw"
  PROVE  Emitted(c)' /\ call'[c].at = "threw" /\ run'[c].written = run[c].written
<1>1. /\ call'[c].at = "threw" /\ run'[c].live = run[c].live + 1
      /\ run'[c].written = run[c].written
  BY CatchesFacts DEF Types
<1>2. run[c].written <= run[c].live /\ run[c].live <= MaxEvents
  BY DEF Local, Trace, Emitted
<1>3. run[c].written <= run[c].live + 1 /\ run[c].live + 1 <= MaxEvents + 1
      /\ run[c].live + 1 >= 1
  BY <1>2, Counters
<1>4. QED BY <1>1, <1>3 DEF Emitted

LEMMA ThrowsKeeps ==
  ASSUME Types, NEW c \in Calls, Local(c), ExploreThrows(c) \/ ResultDropped(c)
  PROVE  Kept(c)
<1>1. /\ call[c].at \in {"planning", "returned"} /\ Catches(c) /\ UNCHANGED <<rows, faulted>>
  BY DEF ExploreThrows, ResultDropped
<1>2. /\ CallTypes' /\ RunTypes' /\ call'[c].at = "threw"
      /\ call'[c].key = call[c].key /\ call'[c].text = call[c].text
      /\ run'[c].early = run[c].early /\ run'[c].aborted = run[c].aborted
      /\ run'[c].status \in {"failed", "cancelled"}
      /\ \A d \in Calls : d # c => call'[d] = call[d] /\ run'[d] = run[d]
  BY <1>1, CatchesFacts DEF Types
<1>3. Types' /\ Others(c)
  BY <1>1, <1>2 DEF Types, RowTypes, Others, rows
<1>4. Active(c) /\ Running(c)
  BY <1>1 DEF Local, Phase, Active
<1>5. Phase(c)'
  BY <1>1, <1>2, <1>4 DEF Local, Phase, Before, Accepted, Running, rows
<1>6. Verdict(c)'
  BY <1>1, <1>2, <1>4 DEF Local, Verdict, Before, Running, rows
<1>7. Emitted(c)' /\ run'[c].written = run[c].written
  BY <1>1, <1>4, CatchesCounts
<1>8. Trace(c)'
  BY <1>1, <1>2, <1>4, <1>7 DEF Local, Trace, Before, Running, Accepted, rows
<1>9. QED BY <1>3, <1>5, <1>6, <1>8 DEF Kept, Local

\* What a completion leaves of the run's trace is whole.
LEMMA CompletionIsWhole ==
  ASSUME Types, NEW c \in Calls, Local(c), Active(c), CompletionWrites(c)
  PROVE  Whole(c)'
<1>1. /\ Running(c) /\ streams'[c] \in {"completed", "failed"}
      /\ events'[c] = events[c] \union 1..run[c].live
      /\ commands'[c].at = run[c].status
  BY CompletionFacts
<1>2. /\ events[c] \subseteq 1..run[c].written
      /\ run[c].written <= run[c].live /\ run[c].live <= MaxEvents + 1
      /\ call[c].at = "threw" => run[c].live >= 1
  BY <1>1 DEF Local, Trace, Emitted
<1>3. events'[c] = 1..run[c].live
  BY <1>1, <1>2, Counters
<1>4. run[c].live \in 0..(MaxEvents + 1)
  BY <1>2, Counters
<1>5. run[c].status \in {"failed", "cancelled"} => call[c].at = "threw"
  BY DEF Local, Verdict, Active
<1>6. run[c].live >= 1 => 1 \in 1..run[c].live
  BY Counters
<1>7. commands'[c].at \in {"failed", "cancelled"} => events'[c] # {}
  BY <1>1, <1>2, <1>3, <1>5, <1>6
<1>8. QED BY <1>1, <1>3, <1>4, <1>7 DEF Whole

\* After a completion, whether the request is answered or the catch clause
\* takes over.
LEMMA CompletionKeeps ==
  ASSUME Types, NEW c \in Calls, Local(c), CompletionWrites(c),
         call[c].at \in {"completing", "threw"}, CallTypes', RunTypes', faulted' \in BOOLEAN,
         \A d \in Calls : d # c => call'[d] = call[d] /\ run'[d] = run[d],
         call'[c].key = call[c].key, call'[c].text = call[c].text,
         run'[c].early = run[c].early,
         \/ call'[c].at = "done"
         \/ /\ call'[c].at = "threw" /\ call[c].at = "completing"
            /\ run'[c].status \in {"failed", "cancelled"} /\ Emitted(c)'
  PROVE  Kept(c)
<1>1. Active(c)
  BY DEF Active
<1>2. Types'
  BY CompletionFacts DEF Types, RowTypes
<1>3. Others(c)
  <2>1. \A d \in Calls : d # c =>
          commands'[d] = commands[d] /\ streams'[d] = streams[d] /\ events'[d] = events[d]
    BY CompletionFacts
  <2>2. QED BY <2>1 DEF Others
<1>4. /\ commands'[c].at = run[c].status
      /\ commands'[c].key = commands[c].key /\ commands'[c].text = commands[c].text
  BY CompletionFacts
<1>5. run[c].status \in {"succeeded", "failed", "cancelled"}
  BY DEF Local, Verdict
<1>6. Accepted(c)' /\ ~Running(c)'
  BY <1>4, <1>5 DEF Accepted, Running
<1>7. Phase(c)'
  BY <1>1, <1>4, <1>6 DEF Local, Phase, Before
<1>8. run[c].early => run[c].status # "succeeded"
  BY <1>1 DEF Local, Verdict
<1>9. call[c].at = "completing" => ~run[c].early
  BY <1>1, <1>8 DEF Local, Verdict
<1>10. Verdict(c)'
  BY <1>4, <1>8, <1>9 DEF Verdict, Before, Active
<1>11. Whole(c)'
  BY <1>1, CompletionIsWhole
<1>12. Trace(c)'
  BY <1>6, <1>11 DEF Trace, Before, Active
<1>13. QED BY <1>2, <1>3, <1>7, <1>10, <1>12 DEF Kept, Local

LEMMA CompletedKeeps ==
  ASSUME Types, NEW c \in Calls, Local(c), Completed(c)
  PROVE  Kept(c)
<1>1. /\ call[c].at \in {"completing", "threw"} /\ CompletionWrites(c) /\ Answers(c, c)
      /\ run' = [run EXCEPT ![c] = Closed(c)] /\ UNCHANGED faulted
  BY DEF Completed
<1>2. /\ CallTypes' /\ call'[c].at = "done"
      /\ call'[c].key = call[c].key /\ call'[c].text = call[c].text
      /\ \A d \in Calls : d # c => call'[d] = call[d]
  BY <1>1, AnswersFacts DEF Types
<1>3. /\ RunTypes' /\ run'[c].early = run[c].early
      /\ \A d \in Calls : d # c => run'[d] = run[d]
  BY <1>1, ClosesFacts DEF Types
<1>4. faulted' \in BOOLEAN
  BY <1>1 DEF Types, RowTypes
<1>5. QED BY <1>1, <1>2, <1>3, <1>4, CompletionKeeps

LEMMA CompletionThrowsKeeps ==
  ASSUME Types, NEW c \in Calls, Local(c), CompletionThrows(c)
  PROVE  Kept(c)
<1>1. /\ call[c].at = "completing" /\ Catches(c) /\ faulted' = TRUE
      /\ CompletionWrites(c) \/ UNCHANGED rows
  BY DEF CompletionThrows
<1>2. /\ CallTypes' /\ RunTypes' /\ call'[c].at = "threw"
      /\ call'[c].key = call[c].key /\ call'[c].text = call[c].text
      /\ run'[c].early = run[c].early /\ run'[c].aborted = run[c].aborted
      /\ run'[c].status \in {"failed", "cancelled"}
      /\ \A d \in Calls : d # c => call'[d] = call[d] /\ run'[d] = run[d]
  BY <1>1, CatchesFacts DEF Types
<1>3. Active(c)
  BY <1>1 DEF Active
<1>4. Emitted(c)' /\ run'[c].written = run[c].written
  BY <1>1, <1>3, CatchesCounts
<1>5. CASE CompletionWrites(c)
  BY <1>1, <1>2, <1>4, <1>5, CompletionKeeps
<1>6. CASE UNCHANGED rows
  <2>1. Types' /\ Others(c)
    BY <1>1, <1>2, <1>6 DEF Types, RowTypes, Others, rows
  <2>2. Phase(c)'
    BY <1>2, <1>3, <1>6 DEF Local, Phase, Before, Accepted, rows
  <2>3. ~run[c].early
    BY <1>1, <1>3 DEF Local, Verdict
  <2>4. Verdict(c)'
    BY <1>2, <2>3 DEF Verdict, Before
  <2>5. Trace(c)'
    BY <1>2, <1>3, <1>4, <1>6 DEF Local, Trace, Before, Accepted, Running, Whole, rows
  <2>6. QED BY <2>1, <2>2, <2>4, <2>5 DEF Kept, Local
<1>7. QED BY <1>1, <1>5, <1>6

\* A request that ends without writing.
LEMMA StopsKeeps ==
  ASSUME NEW c \in Calls, Local(c), UNCHANGED <<commands, streams, events>>,
         call[c].at \notin {"idle", "done"}, call'[c].at = "done", run'[c].early = run[c].early
  PROVE  Local(c)'
<1>1. Phase(c)'
  BY DEF Phase, Before, Active
<1>2. Verdict(c)'
  BY DEF Local, Verdict, Before, Active
<1>3. Accepted(c)' /\ ~Running(c)' => Whole(c)'
  BY DEF Local, Trace, Whole, Accepted, Running
<1>4. Trace(c)'
  BY <1>3 DEF Trace, Before, Active
<1>5. QED BY <1>1, <1>2, <1>4 DEF Local

LEMMA FailureKeeps ==
  ASSUME Types, NEW c \in Calls, Local(c), FailureNotStored(c)
  PROVE  Kept(c)
<1>1. /\ call[c].at = "threw" /\ Answers(c, "storage_error") /\ faulted' = TRUE
      /\ run' = [run EXCEPT ![c] = Closed(c)]
      /\ CompletionWrites(c) \/ UNCHANGED rows
  BY DEF FailureNotStored
<1>2. /\ CallTypes' /\ call'[c].at = "done"
      /\ call'[c].key = call[c].key /\ call'[c].text = call[c].text
      /\ \A d \in Calls : d # c => call'[d] = call[d]
  BY <1>1, AnswersFacts DEF Types, Refusals
<1>3. /\ RunTypes' /\ run'[c].early = run[c].early
      /\ \A d \in Calls : d # c => run'[d] = run[d]
  BY <1>1, ClosesFacts DEF Types
<1>4. CASE CompletionWrites(c)
  BY <1>1, <1>2, <1>3, <1>4, CompletionKeeps
<1>5. CASE UNCHANGED rows
  <2>1. Types' /\ Others(c)
    BY <1>1, <1>2, <1>3, <1>5 DEF Types, RowTypes, Others, rows
  <2>2. Local(c)'
    BY <1>1, <1>2, <1>3, <1>5, StopsKeeps DEF rows
  <2>3. QED BY <2>1, <2>2 DEF Kept
<1>6. QED BY <1>1, <1>4, <1>5

-----------------------------------------------------------------------------
(* Every step *)

StepOf(c) == BeginRead(c) \/ BeginStep(c) \/ Emit(c) \/ PlanStep(c) \/ CancelStep(c)

LEMMA StepKeeps ==
  ASSUME Types, NEW c \in Calls, Local(c), StepOf(c)
  PROVE  Kept(c)
BY BeginStartedKeeps, BeginAnswerLostKeeps, RefusedKeeps, EmitKeeps, TraceKeeps, CancelKeeps,
   ReturnsKeeps, ResultKeptKeeps, ThrowsKeeps, CompletedKeeps, CompletionThrowsKeeps,
   FailureKeeps DEF StepOf, BeginStep, PlanStep

SessionInv == Types /\ \A c \in Calls : Local(c)

LEMMA CrashKeeps ==
  ASSUME SessionInv, Crash
  PROVE  SessionInv'
<1>1. /\ UNCHANGED rows /\ faulted' = TRUE
      /\ run' = [c \in Calls |-> Closed(c)]
      /\ call' = [c \in Calls |->
           IF call[c].at \in {"idle", "done"} THEN call[c]
           ELSE Answered(c, "connection_lost")]
  BY DEF Crash
<1>2. RunTypes' /\ \A c \in Calls : run'[c] = Closed(c)
  BY <1>1, ClosedFacts DEF SessionInv, Types, RunTypes
<1>3. ASSUME NEW c \in Calls
      PROVE  /\ call'[c] \in CallStates
             /\ \/ call[c].at \in {"idle", "done"} /\ call'[c] = call[c]
                \/ call[c].at \notin {"idle", "done"} /\ call'[c].at = "done"
  <2>1. CASE call[c].at \in {"idle", "done"}
    BY <1>1, <2>1 DEF SessionInv, Types, CallTypes
  <2>2. CASE call[c].at \notin {"idle", "done"}
    <3>1. /\ Answered(c, "connection_lost") \in CallStates
          /\ Answered(c, "connection_lost").at = "done"
      BY DEF SessionInv, Types, CallTypes, CallStates, Answered, NoSight, Refusals
    <3>2. call'[c] = Answered(c, "connection_lost")
      BY <1>1, <2>2
    <3>3. QED BY <2>2, <3>1, <3>2
  <2>3. QED BY <2>1, <2>2
<1>4. CallTypes'
  BY <1>1, <1>3 DEF CallTypes
<1>5. Types'
  BY <1>1, <1>2, <1>4 DEF SessionInv, Types, RowTypes, rows
<1>6. ASSUME NEW c \in Calls PROVE Local(c)'
  <2>1. /\ run'[c].early = run[c].early /\ run'[c].live = 0 /\ run'[c].written = 0
        /\ run'[c].aborted = FALSE /\ run'[c].status = "running"
    BY <1>2, ClosedFacts DEF SessionInv, Types
  <2>2. CASE call[c].at \notin {"idle", "done"}
    <3>1. call'[c].at = "done"
      BY <1>3, <2>2
    <3>2. QED BY <1>1, <2>1, <2>2, <3>1, StopsKeeps DEF SessionInv, rows
  <2>3. CASE call[c].at \in {"idle", "done"}
    <3>1. call'[c] = call[c] /\ ~Active(c) /\ ~Active(c)'
      BY <1>3, <2>3 DEF Active
    <3>2. Phase(c)'
      BY <1>1, <2>3, <3>1 DEF SessionInv, Local, Phase, Accepted, Running, rows
    <3>3. Verdict(c)'
      BY <1>1, <2>1, <2>3, <3>1 DEF SessionInv, Local, Verdict, Before, rows
    <3>4. Trace(c)'
      BY <1>1, <2>1, <3>1 DEF SessionInv, Local, Trace, Whole, Accepted, Running, rows
    <3>5. QED BY <3>2, <3>3, <3>4 DEF Local
  <2>4. QED BY <2>2, <2>3
<1>7. QED BY <1>5, <1>6 DEF SessionInv

LEMMA SessionKept ==
  ASSUME SessionInv, [AgentNext]_agentVars
  PROVE  SessionInv'
<1>1. CASE \E c \in Calls : StepOf(c)
  <2>1. PICK c \in Calls : StepOf(c)
    BY <1>1
  <2>2. Types' /\ Local(c)' /\ Others(c)
    BY <2>1, StepKeeps DEF SessionInv, Kept
  <2>3. QED BY <2>2, OthersKeepLocal DEF SessionInv
<1>2. CASE DeleteProduct \/ UNCHANGED agentVars
  <2>1. /\ UNCHANGED <<intent, commands, messages, streams, events, call, run, faulted>>
        /\ deleted' \in BOOLEAN
    BY <1>2 DEF DeleteProduct, agentVars, SessionInv, Types, RowTypes
  <2>2. Types'
    BY <2>1 DEF SessionInv, Types, CallTypes, RunTypes, RowTypes
  <2>3. ASSUME NEW c \in Calls PROVE Local(c)'
    BY <2>1 DEF SessionInv, Local, Phase, Verdict, Trace, Emitted, Whole, Accepted, Running,
                Active
  <2>4. QED BY <2>2, <2>3 DEF SessionInv
<1>3. CASE Crash
  BY <1>3, CrashKeeps
<1>4. QED BY <1>1, <1>2, <1>3 DEF AgentNext, StepOf

LEMMA SessionInitially == AgentInit => SessionInv
<1> SUFFICES ASSUME AgentInit PROVE SessionInv
  OBVIOUS
<1>1. NoCommand \in CommandRows /\ NoRun \in RunStates /\ NoCall \in CallStates
  BY DEF NoCommand, CommandRows, NoRun, RunStates, NoCall, CallStates, NoSight
<1>2. <<>> \in Seq(Message)
  OBVIOUS
<1>3. Types
  BY <1>1, <1>2 DEF AgentInit, Types, CallTypes, RunTypes, RowTypes
<1>4. ASSUME NEW c \in Calls PROVE Local(c)
  <2>1. commands[c].at = "none" /\ call[c].at = "idle" /\ run[c] = NoRun /\ events[c] = {}
    BY DEF AgentInit, NoCommand, NoCall
  <2>2. /\ NoRun.live = 0 /\ NoRun.written = 0 /\ NoRun.early = FALSE
        /\ NoRun.aborted = FALSE /\ NoRun.status = "running"
    BY DEF NoRun
  <2>3. Phase(c) /\ Verdict(c) /\ Trace(c)
    BY <2>1, <2>2 DEF Phase, Verdict, Trace, Accepted, Active
  <2>4. QED BY <2>3 DEF Local
<1>5. QED BY <1>3, <1>4 DEF SessionInv

LEMMA SessionAlways == AgentSpec => []SessionInv
BY SessionInitially, SessionKept, PTL DEF AgentSpec

\* Rows and memory keep their types, and a request only plans for a command
\* that has been accepted.
THEOREM AgentTypes == AgentSpec => []AgentTypeOK
<1>1. SessionInv => AgentTypeOK
  BY DEF SessionInv, Types, CallTypes, RunTypes, RowTypes, Message, Local, Phase, AgentTypeOK
<1>2. QED BY <1>1, SessionAlways, PTL

\* However writes of events fail or lag, a finished command has its whole
\* trace.
THEOREM TracesAreComplete == AgentSpec => []TraceIsComplete
<1>1. SessionInv => TraceIsComplete
  BY DEF SessionInv, Local, Trace, Whole, TraceIsComplete
<1>2. QED BY <1>1, SessionAlways, PTL

\* A run aborted before its result is looked at does not succeed, also not by
\* a completion that is tried again.
THEOREM AbortedRunsNeverSucceed == AgentSpec => []AbortedRunsDoNotSucceed
<1>1. SessionInv => AbortedRunsDoNotSucceed
  BY DEF SessionInv, Local, Verdict, AbortedRunsDoNotSucceed
<1>2. QED BY <1>1, SessionAlways, PTL
-----------------------------------------------------------------------------
(* The rows of the session *)

\* No message is written, and no command accepted or completed.
Quiet ==
  /\ messages' = messages
  /\ \A d \in Calls :
       /\ commands'[d].at = commands[d].at
       /\ commands'[d].key = commands[d].key /\ commands'[d].text = commands[d].text
  /\ \/ UNCHANGED <<deleted, intent>>
     \/ deleted' = TRUE /\ UNCHANGED intent
     \/ \E c \in Calls : WithKey(call[c].key) # {} /\ InitializeIntent(c) /\ UNCHANGED deleted

Begins(c) == call[c].at = "waiting" /\ BeginWrites(c)

Completes(c) == call[c].at \in {"completing", "threw"} /\ CompletionWrites(c)

LEMMA RowKinds ==
  ASSUME SessionInv, [AgentNext]_agentVars
  PROVE  \/ \E c \in Calls : Begins(c)
         \/ \E c \in Calls : Completes(c)
         \/ Quiet
<1>1. ASSUME UNCHANGED <<deleted, intent, commands, messages>> PROVE Quiet
  BY <1>1 DEF Quiet
<1>2. CASE DeleteProduct
  BY <1>2 DEF DeleteProduct, Quiet
<1>3. CASE Crash
  BY <1>1, <1>3 DEF Crash, rows
<1>4. CASE UNCHANGED agentVars
  BY <1>1, <1>4 DEF agentVars
<1>5. ASSUME NEW c \in Calls, StepOf(c)
      PROVE  \/ Begins(c) \/ Completes(c) \/ Quiet
  <2>1. CASE BeginStarted(c) \/ BeginAnswerLost(c)
    BY <2>1 DEF BeginStarted, BeginAnswerLost, Begins
  <2>2. CASE BeginMeetsKey(c)
    BY <2>2 DEF BeginMeetsKey, Quiet
  <2>3. CASE CancelRecorded(c)
    <3>1. \A d \in Calls :
            /\ commands'[d].at = commands[d].at
            /\ commands'[d].key = commands[d].key /\ commands'[d].text = commands[d].text
      BY <2>3 DEF CancelRecorded, SessionInv, Types, RowTypes, CommandRows
    <3>2. QED BY <2>3, <3>1 DEF CancelRecorded, Quiet
  <2>4. CASE Completed(c) \/ CompletionThrows(c) \/ FailureNotStored(c)
    BY <1>1, <2>4 DEF Completed, CompletionThrows, FailureNotStored, Completes, rows
  <2>5. CASE \/ BeginRead(c) \/ BeginCollides(c) \/ BeginNotEligible(c) \/ ReplayRead(c)
             \/ NothingToReplay(c) \/ ReadRefusal(c) \/ BeginFails(c) \/ Emit(c)
             \/ TraceWritten(c) \/ TraceLost(c) \/ ExploreThrows(c) \/ ExploreReturns(c)
             \/ ResultKept(c) \/ ResultDropped(c) \/ CancelAborts(c) \/ CancelAnswerLost(c)
    <3>1. UNCHANGED <<deleted, intent, commands, messages>>
      BY <2>5 DEF BeginRead, BeginCollides, BeginNotEligible, ReplayRead,
         NothingToReplay, ReadRefusal, BeginFails, Emit, TraceWritten, TraceLost,
         ExploreThrows, ExploreReturns, ResultKept, ResultDropped, CancelAborts,
         CancelAnswerLost, rows
    <3>2. QED BY <1>1, <3>1
  <2>6. QED BY <1>5, <2>1, <2>2, <2>3, <2>4, <2>5 DEF StepOf, BeginStep, PlanStep, CancelStep
<1>6. QED BY <1>2, <1>3, <1>4, <1>5 DEF AgentNext, StepOf

\* Only a request that has just read is new among those that wait.
LEMMA WaitingKinds ==
  ASSUME SessionInv, [AgentNext]_agentVars, NEW d \in Calls, call'[d].at = "waiting"
  PROVE  \/ call'[d] = call[d]
         \/ /\ UNCHANGED rows /\ call'[d].text \in Texts /\ call'[d].key \in Keys
            /\ \E k \in Keys : call'[d].sight = Sight(k)
<1>1. CASE Crash
  <2>1. call'[d] = IF call[d].at \in {"idle", "done"} THEN call[d]
                   ELSE Answered(d, "connection_lost")
    BY <1>1 DEF Crash
  <2>2. Answered(d, "connection_lost").at = "done"
    BY DEF Answered, SessionInv, Types, CallTypes, CallStates
  <2>3. QED BY <2>1, <2>2
<1>2. CASE DeleteProduct \/ UNCHANGED agentVars
  BY <1>2 DEF DeleteProduct, agentVars
<1>3. ASSUME NEW c \in Calls, StepOf(c), c # d
      PROVE  call'[d] = call[d]
  BY <1>3, StepKeeps DEF SessionInv, Kept, Others
<1>4. ASSUME StepOf(d)
      PROVE  \/ call'[d] = call[d]
             \/ /\ UNCHANGED rows /\ call'[d].text \in Texts /\ call'[d].key \in Keys
                /\ \E k \in Keys : call'[d].sight = Sight(k)
  <2>1. CASE BeginRead(d)
    <3>1. PICK k \in Keys, x \in Texts : call' = [call EXCEPT ![d] =
            [at |-> "waiting", key |-> k, text |-> x, sight |-> Sight(k), answer |-> None]]
      BY <2>1 DEF BeginRead
    <3>2. /\ call'[d].sight = Sight(k) /\ call'[d].text = x
          /\ call'[d].key = k
      BY <3>1 DEF SessionInv, Types, CallTypes
    <3>3. QED BY <2>1, <3>2 DEF BeginRead
  <2>2. CASE \/ Emit(d) \/ TraceWritten(d) \/ TraceLost(d) \/ CancelStep(d)
    BY <2>2 DEF Emit, TraceWritten, TraceLost, CancelStep, CancelRecorded, CancelAborts,
       CancelAnswerLost
  <2>3. CASE \E next \in Stations \ {"waiting"} : Goes(d, next)
    BY <2>3, GoesFacts DEF SessionInv, Types
  <2>4. CASE \E answer \in Calls \union Refusals : Answers(d, answer)
    BY <2>4, AnswersFacts DEF SessionInv, Types
  <2>5. CASE \/ BeginStarted(d) \/ BeginMeetsKey(d) \/ BeginNotEligible(d)
             \/ NothingToReplay(d) \/ ExploreThrows(d) \/ ExploreReturns(d)
             \/ ResultKept(d) \/ ResultDropped(d) \/ CompletionThrows(d)
    <3>1. \E next \in Stations \ {"waiting"} : Goes(d, next)
      BY <2>5 DEF BeginStarted, BeginMeetsKey, BeginNotEligible, NothingToReplay,
         ExploreThrows, ExploreReturns, ResultKept, ResultDropped, CompletionThrows,
         Catches, Stations
    <3>2. QED BY <2>3, <3>1
  <2>6. CASE \/ BeginAnswerLost(d) \/ BeginCollides(d) \/ ReplayRead(d) \/ ReadRefusal(d)
             \/ BeginFails(d) \/ Completed(d) \/ FailureNotStored(d)
    <3>1. \E answer \in Calls \union Refusals : Answers(d, answer)
      BY <2>6 DEF BeginAnswerLost, BeginCollides, ReplayRead, ReplayOf, WithKey,
         ReadRefusal, BeginFails, Completed, FailureNotStored, Refusals
    <3>2. QED BY <2>4, <3>1
  <2>7. QED BY <1>4, <2>1, <2>2, <2>5, <2>6 DEF StepOf, BeginStep, PlanStep
<1>5. QED BY <1>1, <1>2, <1>3, <1>4 DEF AgentNext, StepOf

\* A running command has the last message; so there is one at most.
LastRuns ==
  \A c \in Calls : Running(c) =>
    /\ messages # <<>>
    /\ messages[Len(messages)] = [role |-> "user", of |-> c]

\* Where nothing has been written since a request found the session free,
\* it still is.
Sights ==
  \A c \in Calls : call[c].at = "waiting" =>
    /\ call[c].text \in Texts
    /\ call[c].sight.length <= Len(messages)
    /\ call[c].sight.free /\ call[c].sight.length = Len(messages) =>
         \A d \in Calls : ~Running(d)

\* The authors of messages are accepted commands, and whoever is accepted has
\* written one.
Authors ==
  /\ \A n \in 1..Len(messages) : Accepted(messages[n].of)
  /\ \A c \in Calls : Accepted(c) => messages # <<>>

OneOfEachKey ==
  \A c, d \in Calls :
    Accepted(c) /\ Accepted(d) /\ commands[c].key = commands[d].key => c = d

RowInv ==
  LastRuns /\ Sights /\ Authors /\ OneOfEachKey /\ TranscriptAlternates
  /\ IntentIsFirstMessage

\* What an appended message leaves as it was.
LEMMA AppendFacts ==
  ASSUME Types, NEW m \in Message, messages' = Append(messages, m)
  PROVE  /\ Len(messages) \in Nat /\ Len(messages)' = Len(messages) + 1
         /\ messages' # <<>>
         /\ messages'[Len(messages) + 1] = m
         /\ \A n \in 1..Len(messages) : messages'[n] = messages[n] /\ messages[n] \in Message
         /\ \A n \in 1..Len(messages)' : n \in 1..Len(messages) \/ n = Len(messages) + 1
<1>1. messages \in Seq(Message)
  BY DEF Types, RowTypes
<1>2. QED BY <1>1, AppendProperties

\* Of two numbers in a row one is odd.
LEMMA Parity ==
  \A n \in Nat : /\ n % 2 \in {0, 1}
                 /\ n % 2 = 1 => (n + 1) % 2 = 0
                 /\ n % 2 = 0 => (n + 1) % 2 = 1
OBVIOUS
LEMMA BeginKeepsRows ==
  ASSUME SessionInv, SessionInv', RowInv, [AgentNext]_agentVars, NEW c \in Calls, Begins(c)
  PROVE  RowInv'
<1>1. /\ messages' = Append(messages, [role |-> "user", of |-> c])
      /\ commands'[c].at = "running"
      /\ commands'[c].key = call[c].key /\ commands'[c].text = call[c].text
      /\ \A d \in Calls : d # c => commands'[d] = commands[d]
      /\ UNCHANGED deleted
  BY BeginFacts DEF SessionInv, Begins
<1>2. /\ call[c].at = "waiting" /\ call[c].sight.free /\ WithKey(call[c].key) = {}
      /\ call[c].sight.length = Len(messages) /\ InitializeIntent(c)
  BY DEF Begins, BeginWrites, TakesNextNumber
<1>3. ~Accepted(c)
  BY <1>2 DEF SessionInv, Local, Phase, Before
<1>4. \A d \in Calls : ~Running(d)
  BY <1>2 DEF RowInv, Sights
<1>5. [role |-> "user", of |-> c] \in Message
  BY DEF Message
<1> DEFINE m == [role |-> "user", of |-> c]
<1>6. /\ Len(messages) \in Nat /\ Len(messages)' = Len(messages) + 1
      /\ messages' # <<>>
      /\ messages'[Len(messages) + 1] = m
      /\ \A n \in 1..Len(messages) : messages'[n] = messages[n] /\ messages[n] \in Message
      /\ \A n \in 1..Len(messages)' : n \in 1..Len(messages) \/ n = Len(messages) + 1
  BY <1>1, <1>5, AppendFacts DEF SessionInv
<1>7. m.role = "user" /\ m.of = c
  OBVIOUS
<1> HIDE DEF m
<1>8. \A d \in Calls : Accepted(d)' <=> Accepted(d) \/ d = c
  BY <1>1 DEF Accepted
<1>9. \A d \in Calls : Running(d)' <=> d = c
  BY <1>1, <1>4 DEF Running
<1>10. LastRuns'
  <2>1. messages'[Len(messages)'] = m
    BY <1>6
  <2>2. QED BY <1>6, <1>9, <2>1 DEF LastRuns, m
<1>11. Sights'
  <2>1. ASSUME NEW d \in Calls, call'[d].at = "waiting"
        PROVE  call'[d].text \in Texts /\ call'[d].sight.length < Len(messages)'
    <3>1. call'[d] = call[d]
      BY <1>6, <2>1, WaitingKinds DEF rows
    <3>2. call[d].text \in Texts /\ call[d].sight.length <= Len(messages)
      BY <2>1, <3>1 DEF RowInv, Sights
    <3>3. call[d].sight.length \in Nat
      BY DEF SessionInv, Types, CallTypes, CallStates
    <3>4. QED BY <1>6, <3>1, <3>2, <3>3
  <2>2. \A d \in Calls : call'[d].sight.length \in Nat
    BY DEF SessionInv, Types, CallTypes, CallStates
  <2>3. QED BY <1>6, <2>1, <2>2 DEF Sights
<1>12. Authors'
  <2>1. ASSUME NEW n \in 1..Len(messages)' PROVE Accepted(messages[n].of)'
    <3>1. CASE n \in 1..Len(messages)
      <4>1. messages'[n] = messages[n] /\ Accepted(messages[n].of) /\ messages[n].of \in Calls
        BY <1>6, <3>1 DEF RowInv, Authors, Message
      <4>2. QED BY <1>8, <4>1
    <3>2. CASE n = Len(messages) + 1
      BY <1>6, <1>7, <1>8, <3>2
    <3>3. QED BY <1>6, <3>1, <3>2
  <2>2. QED BY <1>6, <2>1 DEF Authors
<1>13. OneOfEachKey'
  <2>1. \A d \in Calls : Accepted(d) => commands[d].key # call[c].key
    BY <1>2 DEF WithKey
  <2>2. \A d \in Calls : d # c => commands'[d].key = commands[d].key
    BY <1>1
  <2>3. QED BY <1>1, <1>8, <2>1, <2>2 DEF RowInv, OneOfEachKey
<1>14. TranscriptAlternates'
  <2>1. Len(messages) % 2 = 0
    <3>1. CASE messages = <<>>
      BY <3>1
    <3>2. CASE Len(messages) \in 1..Len(messages)
      <4>1. messages[Len(messages)].of \in Calls
        BY <1>6, <3>2 DEF Message
      <4>2. Len(messages) % 2 # 1
        BY <1>4, <3>2, <4>1 DEF RowInv, TranscriptAlternates
      <4>3. QED BY <1>6, <4>2, Parity
    <3>3. QED BY <1>6, <3>1, <3>2 DEF SessionInv, Types, RowTypes
  <2>2. (Len(messages) + 1) % 2 = 1
    BY <1>6, <2>1, Parity
  <2>3. ASSUME NEW n \in 1..Len(messages)'
        PROVE  /\ messages'[n].role = IF n % 2 = 1 THEN "user" ELSE "assistant"
               /\ n % 2 = 0 => messages'[n].of = messages'[n - 1].of
               /\ n % 2 = 1 /\ n = Len(messages)' => Running(messages[n].of)'
    <3>1. CASE n \in 1..Len(messages)
      <4>1. messages'[n] = messages[n]
        BY <1>6, <3>1
      <4>2. n # Len(messages)'
        BY <1>6, <3>1
      <4>3. messages[n].role = IF n % 2 = 1 THEN "user" ELSE "assistant"
        BY <3>1 DEF RowInv, TranscriptAlternates
      <4>4. ASSUME n % 2 = 0 PROVE messages'[n].of = messages'[n - 1].of
        <5>1. n # 1
          BY <4>4
        <5>2. n - 1 \in 1..Len(messages)
          BY <1>6, <3>1, <5>1
        <5>3. messages[n].of = messages[n - 1].of
          BY <3>1, <4>4 DEF RowInv, TranscriptAlternates
        <5>4. QED BY <1>6, <4>1, <5>2, <5>3
      <4>5. QED BY <4>1, <4>2, <4>3, <4>4
    <3>2. CASE n = Len(messages) + 1
      <4>1. messages'[n] = m /\ n % 2 = 1
        BY <1>6, <2>2, <3>2
      <4>2. QED BY <1>7, <1>9, <4>1
    <3>3. QED BY <1>6, <3>1, <3>2
  <2>4. QED BY <2>3 DEF TranscriptAlternates
<1>15. IntentIsFirstMessage'
  <2>1. CASE messages = <<>>
    <3>1. intent = None
      BY <2>1 DEF RowInv, IntentIsFirstMessage
    <3>2. messages'[1] = m
      BY <1>6, <2>1
    <3>3. messages'[1].of = c
      BY <1>7, <3>2
    <3>4. intent' = IF ~deleted THEN call[c].text ELSE None
      BY <1>2, <3>1 DEF InitializeIntent
    <3>5. commands'[messages'[1].of].text = call[c].text
      BY <1>1, <3>3
    <3>6. intent' # None => intent' = commands'[messages'[1].of].text
      BY <3>4, <3>5
    <3>7. ~deleted' => intent' # None
      <4>1. call[c].text # None
        BY <1>2, AgentAssumption DEF RowInv, Sights
      <4>2. QED BY <1>1, <3>4, <4>1
    <3>8. QED BY <1>6, <3>6, <3>7 DEF IntentIsFirstMessage
  <2>2. CASE messages # <<>>
    <3>1. 1 \in 1..Len(messages)
      BY <1>6, <2>2 DEF SessionInv, Types, RowTypes
    <3>2. messages'[1] = messages[1] /\ messages[1].of \in Calls /\ Accepted(messages[1].of)
      BY <1>6, <3>1 DEF Message, RowInv, Authors
    <3>3. commands'[messages[1].of] = commands[messages[1].of]
      BY <1>1, <1>3, <3>2
    <3>4. intent' = intent
      BY <1>2, <2>2 DEF RowInv, IntentIsFirstMessage, InitializeIntent
    <3>5. QED BY <1>1, <1>6, <2>2, <3>2, <3>3, <3>4 DEF RowInv, IntentIsFirstMessage
  <2>3. QED BY <2>1, <2>2
<1>16. QED BY <1>10, <1>11, <1>12, <1>13, <1>14, <1>15 DEF RowInv
LEMMA RunsAlone ==
  ASSUME LastRuns, NEW c \in Calls, NEW d \in Calls, Running(c), Running(d)
  PROVE  c = d
<1>1. [role |-> "user", of |-> c] = [role |-> "user", of |-> d]
  BY DEF LastRuns
<1>2. [role |-> "user", of |-> c].of = c /\ [role |-> "user", of |-> d].of = d
  OBVIOUS
<1>3. QED BY <1>1, <1>2

LEMMA CompletionKeepsRows ==
  ASSUME SessionInv, SessionInv', RowInv, [AgentNext]_agentVars, NEW c \in Calls,
         Completes(c)
  PROVE  RowInv'
<1>1. /\ Running(c) /\ commands'[c].at = run[c].status
      /\ commands'[c].key = commands[c].key /\ commands'[c].text = commands[c].text
      /\ messages' = Append(messages, [role |-> "assistant", of |-> c])
      /\ UNCHANGED <<deleted, intent>>
      /\ \A d \in Calls : d # c => commands'[d] = commands[d]
  BY CompletionFacts DEF SessionInv, Completes
<1>2. run[c].status \in {"succeeded", "failed", "cancelled"}
  BY DEF SessionInv, Local, Verdict, Completes
<1> DEFINE m == [role |-> "assistant", of |-> c]
<1>3. m \in Message /\ m.role = "assistant" /\ m.of = c
  BY DEF Message
<1>4. /\ Len(messages) \in Nat /\ Len(messages)' = Len(messages) + 1
      /\ messages' # <<>>
      /\ messages'[Len(messages) + 1] = m
      /\ \A n \in 1..Len(messages) : messages'[n] = messages[n] /\ messages[n] \in Message
      /\ \A n \in 1..Len(messages)' : n \in 1..Len(messages) \/ n = Len(messages) + 1
  BY <1>1, <1>3, AppendFacts DEF SessionInv
<1> HIDE DEF m
<1>5. /\ Accepted(c) /\ \A d \in Calls : Accepted(d)' <=> Accepted(d)
      /\ \A d \in Calls : commands'[d].key = commands[d].key /\ commands'[d].text = commands[d].text
  BY <1>1, <1>2 DEF Accepted, Running
<1>6. messages # <<>> /\ messages[Len(messages)] = [role |-> "user", of |-> c]
  BY <1>1 DEF RowInv, LastRuns
<1>7. \A d \in Calls : Running(d) => d = c
  BY <1>1, RunsAlone DEF RowInv
<1>8. Len(messages) \in 1..Len(messages)
  BY <1>4, <1>6 DEF SessionInv, Types, RowTypes
<1>9. \A d \in Calls : ~Running(d)'
  BY <1>1, <1>2, <1>7 DEF Running
<1>10. LastRuns'
  BY <1>9 DEF LastRuns
<1>11. Sights'
  <2>1. ASSUME NEW d \in Calls, call'[d].at = "waiting"
        PROVE  call'[d].text \in Texts /\ call'[d].sight.length <= Len(messages)'
    <3>1. call'[d] = call[d]
      BY <1>4, <2>1, WaitingKinds DEF rows
    <3>2. call[d].text \in Texts /\ call[d].sight.length <= Len(messages)
      BY <2>1, <3>1 DEF RowInv, Sights
    <3>3. call[d].sight.length \in Nat
      BY DEF SessionInv, Types, CallTypes, CallStates
    <3>4. QED BY <1>4, <3>1, <3>2, <3>3
  <2>2. QED BY <1>9, <2>1 DEF Sights
<1>12. Authors'
  <2>1. ASSUME NEW n \in 1..Len(messages)' PROVE Accepted(messages[n].of)'
    <3>1. CASE n \in 1..Len(messages)
      <4>1. messages'[n] = messages[n] /\ Accepted(messages[n].of) /\ messages[n].of \in Calls
        BY <1>4, <3>1 DEF RowInv, Authors, Message
      <4>2. QED BY <1>5, <4>1
    <3>2. CASE n = Len(messages) + 1
      BY <1>3, <1>4, <1>5, <3>2
    <3>3. QED BY <1>4, <3>1, <3>2
  <2>2. QED BY <1>4, <2>1 DEF Authors
<1>13. OneOfEachKey'
  BY <1>5 DEF RowInv, OneOfEachKey
<1>14. TranscriptAlternates'
  <2>1. Len(messages) % 2 = 1
    <3>1. messages[Len(messages)].role = "user"
      BY <1>6
    <3>2. QED BY <1>8, <3>1 DEF RowInv, TranscriptAlternates
  <2>2. (Len(messages) + 1) % 2 = 0
    BY <1>4, <2>1, Parity
  <2>3. ASSUME NEW n \in 1..Len(messages)'
        PROVE  /\ messages'[n].role = IF n % 2 = 1 THEN "user" ELSE "assistant"
               /\ n % 2 = 0 => messages'[n].of = messages'[n - 1].of
               /\ n % 2 = 1 /\ n = Len(messages)' => Running(messages[n].of)'
    <3>1. CASE n \in 1..Len(messages)
      <4>1. messages'[n] = messages[n]
        BY <1>4, <3>1
      <4>2. n # Len(messages)'
        BY <1>4, <3>1
      <4>3. messages[n].role = IF n % 2 = 1 THEN "user" ELSE "assistant"
        BY <3>1 DEF RowInv, TranscriptAlternates
      <4>4. ASSUME n % 2 = 0 PROVE messages'[n].of = messages'[n - 1].of
        <5>1. n # 1
          BY <4>4
        <5>2. n - 1 \in 1..Len(messages)
          BY <1>4, <3>1, <5>1
        <5>3. messages[n].of = messages[n - 1].of
          BY <3>1, <4>4 DEF RowInv, TranscriptAlternates
        <5>4. QED BY <1>4, <4>1, <5>2, <5>3
      <4>5. QED BY <4>1, <4>2, <4>3, <4>4
    <3>2. CASE n = Len(messages) + 1
      <4>1. messages'[n] = m /\ n % 2 = 0
        BY <1>4, <2>2, <3>2
      <4>2. n - 1 = Len(messages)
        BY <1>4, <3>2
      <4>3. messages'[n - 1].of = c
        BY <1>4, <1>6, <1>8, <4>2
      <4>4. QED BY <1>3, <4>1, <4>3
    <3>3. QED BY <1>4, <3>1, <3>2
  <2>4. QED BY <2>3 DEF TranscriptAlternates
<1>15. IntentIsFirstMessage'
  <2>1. 1 \in 1..Len(messages)
    BY <1>4, <1>8
  <2>2. messages'[1] = messages[1] /\ messages[1].of \in Calls
    BY <1>4, <2>1 DEF Message
  <2>3. QED BY <1>1, <1>4, <1>5, <1>6, <2>2 DEF RowInv, IntentIsFirstMessage
<1>16. QED BY <1>10, <1>11, <1>12, <1>13, <1>14, <1>15 DEF RowInv

LEMMA QuietKeepsRows ==
  ASSUME SessionInv, RowInv, [AgentNext]_agentVars, Quiet
  PROVE  RowInv'
<1>1. /\ messages' = messages
      /\ \A d \in Calls :
           /\ commands'[d].at = commands[d].at
           /\ commands'[d].key = commands[d].key /\ commands'[d].text = commands[d].text
  BY DEF Quiet
<1>2. \A d \in Calls : (Accepted(d)' <=> Accepted(d)) /\ (Running(d)' <=> Running(d))
  BY <1>1 DEF Accepted, Running
<1>3. \A n \in 1..Len(messages) : messages[n].of \in Calls
  <2>1. messages \in Seq(Message)
    BY DEF SessionInv, Types, RowTypes
  <2>2. \A n \in 1..Len(messages) : messages[n] \in Message
    BY <2>1
  <2>3. QED BY <2>2 DEF Message
<1>4. LastRuns'
  BY <1>1, <1>2 DEF RowInv, LastRuns
<1>5. Sights'
  <2>1. ASSUME NEW d \in Calls, call'[d].at = "waiting"
        PROVE  /\ call'[d].text \in Texts
               /\ call'[d].sight.length <= Len(messages)
               /\ call'[d].sight.free /\ call'[d].sight.length = Len(messages) =>
                    \A e \in Calls : ~Running(e)
    <3>1. CASE call'[d] = call[d]
      BY <2>1, <3>1 DEF RowInv, Sights
    <3>2. CASE call'[d].text \in Texts /\ \E k \in Keys : call'[d].sight = Sight(k)
      <4>1. PICK k \in Keys : call'[d].sight = Sight(k)
        BY <3>2
      <4>2. /\ Sight(k).length = Len(messages)
            /\ Sight(k).free => \A e \in Calls : ~Running(e)
        BY DEF Sight
      <4>3. Len(messages) \in Nat
        BY DEF SessionInv, Types, RowTypes
      <4>4. QED BY <3>2, <4>1, <4>2, <4>3
    <3>3. QED BY <2>1, <3>1, <3>2, WaitingKinds
  <2>2. QED BY <1>1, <1>2, <2>1 DEF Sights
<1>6. Authors'
  BY <1>1, <1>2, <1>3 DEF RowInv, Authors
<1>7. OneOfEachKey'
  BY <1>1, <1>2 DEF RowInv, OneOfEachKey
<1>8. TranscriptAlternates'
  BY <1>1, <1>2, <1>3 DEF RowInv, TranscriptAlternates
<1>9. IntentIsFirstMessage'
  <2>1. messages # <<>> => 1 \in 1..Len(messages)
    BY DEF SessionInv, Types, RowTypes
  <2>2. messages # <<>> => commands'[messages[1].of].text = commands[messages[1].of].text
    BY <1>1, <1>3, <2>1
  <2>3. CASE UNCHANGED intent /\ (UNCHANGED deleted \/ deleted' = TRUE)
    BY <1>1, <2>2, <2>3 DEF RowInv, IntentIsFirstMessage
  <2>4. CASE \E c \in Calls : WithKey(call[c].key) # {} /\ InitializeIntent(c) /\ UNCHANGED deleted
    <3>1. PICK c \in Calls : WithKey(call[c].key) # {} /\ InitializeIntent(c) /\ UNCHANGED deleted
      BY <2>4
    <3>2. messages # <<>>
      BY <3>1 DEF WithKey, RowInv, Authors
    <3>3. UNCHANGED intent
      BY <3>1, <3>2 DEF RowInv, IntentIsFirstMessage, InitializeIntent
    <3>4. QED BY <2>3, <3>1, <3>3
  <2>5. QED BY <2>3, <2>4 DEF Quiet
<1>10. QED BY <1>4, <1>5, <1>6, <1>7, <1>8, <1>9 DEF RowInv

LEMMA RowsKept ==
  ASSUME SessionInv, RowInv, [AgentNext]_agentVars
  PROVE  RowInv'
BY SessionKept, RowKinds, BeginKeepsRows, CompletionKeepsRows, QuietKeepsRows

LEMMA RowsInitially == AgentInit => RowInv
<1> SUFFICES ASSUME AgentInit PROVE RowInv
  OBVIOUS
<1>1. /\ messages = <<>> /\ Len(messages) = 0 /\ intent = None
      /\ \A c \in Calls : commands[c].at = "none" /\ call[c].at = "idle"
  BY DEF AgentInit, NoCommand, NoCall
<1>2. \A c \in Calls : ~Accepted(c) /\ ~Running(c)
  BY <1>1 DEF Accepted, Running
<1>3. QED
  BY <1>1, <1>2 DEF RowInv, LastRuns, Sights, Authors, OneOfEachKey, TranscriptAlternates,
     IntentIsFirstMessage

LEMMA RowsAlways == AgentSpec => [](SessionInv /\ RowInv)
<1>1. AgentInit => SessionInv /\ RowInv
  BY SessionInitially, RowsInitially
<1>2. SessionInv /\ RowInv /\ [AgentNext]_agentVars => (SessionInv /\ RowInv)'
  BY SessionKept, RowsKept
<1>3. QED BY <1>1, <1>2, PTL DEF AgentSpec

\* Two submissions may both find the session free; one of them draws a taken
\* sequence number, and one run goes on at a time.
THEOREM OneRunAtAnyTime == AgentSpec => []OneRunAtATime
<1>1. RowInv => OneRunAtATime
  BY RunsAlone DEF RowInv, OneRunAtATime
<1>2. QED BY <1>1, RowsAlways, PTL

\* Every message of the user is followed by its answer.
THEOREM TranscriptsAlternate == AgentSpec => []TranscriptAlternates
<1>1. RowInv => TranscriptAlternates
  BY DEF RowInv
<1>2. QED BY <1>1, RowsAlways, PTL

\* A product's intent is the first message of its session.
THEOREM IntentsAreFirstMessages == AgentSpec => []IntentIsFirstMessage
<1>1. RowInv => IntentIsFirstMessage
  BY DEF RowInv
<1>2. QED BY <1>1, RowsAlways, PTL
-----------------------------------------------------------------------------
(* Answers *)

\* An accepted command stays accepted, under its key, with its text.
LEMMA AcceptedStays ==
  ASSUME SessionInv, [AgentNext]_agentVars, NEW e \in Calls, Accepted(e)
  PROVE  /\ Accepted(e)'
         /\ commands'[e].key = commands[e].key /\ commands'[e].text = commands[e].text
<1>1. CASE \E c \in Calls : Begins(c)
  <2>1. PICK c \in Calls : Begins(c)
    BY <1>1
  <2>2. ~Accepted(c)
    BY <2>1 DEF SessionInv, Local, Phase, Begins, Before
  <2>3. e # c
    BY <2>2
  <2>4. commands'[e] = commands[e]
    BY <2>1, <2>3, BeginFacts DEF SessionInv, Begins
  <2>5. QED BY <2>4 DEF Accepted
<1>2. CASE \E c \in Calls : Completes(c)
  <2>1. PICK c \in Calls : Completes(c)
    BY <1>2
  <2>2. CASE e = c
    <3>1. run[c].status \in {"succeeded", "failed", "cancelled"}
      BY <2>1 DEF SessionInv, Local, Verdict, Completes
    <3>2. /\ commands'[c].at = run[c].status
          /\ commands'[c].key = commands[c].key /\ commands'[c].text = commands[c].text
      BY <2>1, CompletionFacts DEF SessionInv, Completes
    <3>3. QED BY <2>2, <3>1, <3>2 DEF Accepted
  <2>3. CASE e # c
    <3>1. commands'[e] = commands[e]
      BY <2>1, <2>3, CompletionFacts DEF SessionInv, Completes
    <3>2. QED BY <3>1 DEF Accepted
  <2>4. QED BY <2>2, <2>3
<1>3. CASE Quiet
  BY <1>3 DEF Quiet, Accepted
<1>4. QED BY <1>1, <1>2, <1>3, RowKinds

\* The answer of a request is a command of its key and text.
Answering(d, e) ==
  Accepted(e) /\ commands[e].key = call[d].key /\ commands[e].text = call[d].text

AnswersInv == \A d \in Calls : call[d].answer \in Calls => Answering(d, call[d].answer)

LEMMA AnswerKinds ==
  ASSUME SessionInv, [AgentNext]_agentVars, NEW d \in Calls, call'[d].answer \in Calls
  PROVE  /\ call'[d].key = call[d].key /\ call'[d].text = call[d].text
         /\ call'[d].answer = call[d].answer \/ Answering(d, call'[d].answer)
<1>1. CASE Crash
  <2>1. call'[d] = IF call[d].at \in {"idle", "done"} THEN call[d]
                   ELSE Answered(d, "connection_lost")
    BY <1>1 DEF Crash
  <2>2. Answered(d, "connection_lost").answer \notin Calls
    BY AgentAssumption DEF Answered, SessionInv, Types, CallTypes, CallStates, Refusals
  <2>3. QED BY <2>1, <2>2
<1>2. CASE DeleteProduct \/ UNCHANGED agentVars
  BY <1>2 DEF DeleteProduct, agentVars
<1>3. ASSUME NEW c \in Calls, StepOf(c), c # d
      PROVE  call'[d] = call[d]
  BY <1>3, StepKeeps DEF SessionInv, Kept, Others
<1>4. ASSUME StepOf(d)
      PROVE  /\ call'[d].key = call[d].key /\ call'[d].text = call[d].text
             /\ call'[d].answer = call[d].answer \/ Answering(d, call'[d].answer)
  <2>1. ~BeginRead(d)
    <3>1. ASSUME BeginRead(d) PROVE call'[d].answer = None
      <4>1. PICK k \in Keys, x \in Texts : call' = [call EXCEPT ![d] =
              [at |-> "waiting", key |-> k, text |-> x, sight |-> Sight(k), answer |-> None]]
        BY <3>1 DEF BeginRead
      <4>2. QED BY <4>1 DEF SessionInv, Types, CallTypes
    <3>2. QED BY <3>1, AgentAssumption
  <2>2. CASE \/ Emit(d) \/ TraceWritten(d) \/ TraceLost(d) \/ CancelStep(d)
    BY <2>2 DEF Emit, TraceWritten, TraceLost, CancelStep, CancelRecorded, CancelAborts,
       CancelAnswerLost
  <2>3. CASE \E next \in Stations : Goes(d, next)
    BY <2>3, GoesFacts DEF SessionInv, Types
  <2>4. CASE \/ BeginStarted(d) \/ BeginMeetsKey(d) \/ BeginNotEligible(d)
             \/ NothingToReplay(d) \/ ExploreThrows(d) \/ ExploreReturns(d)
             \/ ResultKept(d) \/ ResultDropped(d) \/ CompletionThrows(d)
    <3>1. \E next \in Stations : Goes(d, next)
      BY <2>4 DEF BeginStarted, BeginMeetsKey, BeginNotEligible, NothingToReplay,
         ExploreThrows, ExploreReturns, ResultKept, ResultDropped, CompletionThrows,
         Catches, Stations
    <3>2. QED BY <2>3, <3>1
  <2>5. CASE \/ BeginAnswerLost(d) \/ BeginCollides(d) \/ ReadRefusal(d) \/ BeginFails(d)
             \/ FailureNotStored(d)
    <3>1. \E answer \in Refusals : Answers(d, answer)
      BY <2>5 DEF BeginAnswerLost, BeginCollides, ReadRefusal, BeginFails,
         FailureNotStored, Refusals
    <3>2. call'[d].answer \in Refusals
      BY <3>1, AnswersFacts DEF SessionInv, Types
    <3>3. QED BY <3>2, AgentAssumption
  <2>6. CASE Completed(d)
    <3>1. Answers(d, d) /\ Active(d)
      BY <2>6 DEF Completed, Active
    <3>2. call'[d].answer = d /\ call'[d].key = call[d].key /\ call'[d].text = call[d].text
      BY <3>1, AnswersFacts DEF SessionInv, Types
    <3>3. Answering(d, d)
      BY <3>1 DEF SessionInv, Local, Phase, Answering
    <3>4. QED BY <3>2, <3>3
  <2>7. CASE ReplayRead(d)
    <3>1. PICK e \in WithKey(call[d].key) : ReplayOf(d, e)
      BY <2>7 DEF ReplayRead
    <3>2. e \in Calls /\ Accepted(e) /\ commands[e].key = call[d].key
      BY <3>1 DEF WithKey
    <3>3. CASE commands[e].text = call[d].text
      <4>1. Answers(d, e)
        BY <3>1, <3>3 DEF ReplayOf
      <4>2. call'[d].answer = e /\ call'[d].key = call[d].key /\ call'[d].text = call[d].text
        BY <3>2, <4>1, AnswersFacts DEF SessionInv, Types
      <4>3. QED BY <3>2, <3>3, <4>2 DEF Answering
    <3>4. CASE commands[e].text # call[d].text
      <4>1. Answers(d, "command_conflict") /\ "command_conflict" \in Refusals
        BY <3>1, <3>4 DEF ReplayOf, Refusals
      <4>2. call'[d].answer \in Refusals
        BY <4>1, AnswersFacts DEF SessionInv, Types
      <4>3. QED BY <4>2, AgentAssumption
    <3>5. QED BY <3>3, <3>4
  <2>8. QED BY <1>4, <2>1, <2>2, <2>4, <2>5, <2>6, <2>7 DEF StepOf, BeginStep, PlanStep
<1>5. QED BY <1>1, <1>2, <1>3, <1>4 DEF AgentNext, StepOf

LEMMA AnswersKept ==
  ASSUME SessionInv, AnswersInv, [AgentNext]_agentVars
  PROVE  AnswersInv'
<1>1. SUFFICES ASSUME NEW d \in Calls, call'[d].answer \in Calls
               PROVE  Answering(d, call[d].answer)'
  BY DEF AnswersInv
<1>2. /\ call'[d].key = call[d].key /\ call'[d].text = call[d].text
      /\ call'[d].answer = call[d].answer \/ Answering(d, call'[d].answer)
  BY <1>1, AnswerKinds
<1>3. Answering(d, call'[d].answer)
  BY <1>1, <1>2 DEF AnswersInv
<1>4. /\ Accepted(call[d].answer)'
      /\ commands'[call'[d].answer].key = commands[call'[d].answer].key
      /\ commands'[call'[d].answer].text = commands[call'[d].answer].text
  <2>1. ASSUME NEW e \in Calls, e = call'[d].answer
        PROVE  /\ commands'[e].at # "none"
               /\ commands'[e].key = commands[e].key /\ commands'[e].text = commands[e].text
    BY <1>3, <2>1, AcceptedStays DEF Answering, Accepted
  <2>2. QED BY <1>1, <2>1 DEF Accepted
<1>5. QED BY <1>2, <1>3, <1>4 DEF Answering

\* A key starts one run, and whoever uses it again is answered with that run,
\* or refused.
THEOREM KeysStartOneRun == AgentSpec => []KeyStartsOneRun
<1> DEFINE Inv == SessionInv /\ RowInv /\ AnswersInv
<1>1. AgentInit => Inv
  <2>1. AgentInit => AnswersInv
    BY AgentAssumption DEF AgentInit, AnswersInv, NoCall
  <2>2. QED BY <2>1, SessionInitially, RowsInitially
<1>2. Inv /\ [AgentNext]_agentVars => Inv'
  BY SessionKept, RowsKept, AnswersKept
<1>3. Inv => KeyStartsOneRun
  BY DEF RowInv, OneOfEachKey, AnswersInv, Answering, KeyStartsOneRun
<1>4. QED BY <1>1, <1>2, <1>3, PTL DEF AgentSpec
-----------------------------------------------------------------------------
(* The session is a conversation *)

\* A request that waits brings one of the keys.
Keyed == \A c \in Calls : call[c].at = "waiting" => call[c].key \in Keys

LEMMA KeyedKept ==
  ASSUME SessionInv, Keyed, [AgentNext]_agentVars
  PROVE  Keyed'
<1>1. SUFFICES ASSUME NEW c \in Calls, call'[c].at = "waiting"
               PROVE  call'[c].key \in Keys
  BY DEF Keyed
<1>2. CASE call'[c] = call[c]
  BY <1>1, <1>2 DEF Keyed
<1>3. CASE call'[c] # call[c]
  BY <1>1, <1>3, WaitingKinds
<1>4. QED BY <1>2, <1>3

\* An accepted message is asked while nothing else is under way.
LEMMA BeginIsAsked ==
  ASSUME SessionInv, RowInv, NEW c \in Calls, Begins(c), NEW k, call[c].key = k
  PROVE  Conversing!Ask(c, k)
<1>1. /\ messages' = Append(messages, [role |-> "user", of |-> c])
      /\ commands'[c].at = "running" /\ commands'[c].key = call[c].key
      /\ \A d \in Calls : d # c => commands'[d] = commands[d]
  BY BeginFacts DEF SessionInv, Begins
<1>2. /\ call[c].at = "waiting" /\ call[c].sight.free /\ WithKey(call[c].key) = {}
      /\ call[c].sight.length = Len(messages)
  BY DEF Begins, BeginWrites, TakesNextNumber
<1>3. commands[c].at = "none"
  BY <1>2 DEF SessionInv, Local, Phase, Before, Accepted
<1>4. \A d \in Calls : commands[d].at # "running"
  BY <1>2 DEF RowInv, Sights, Running
<1>5. \A d \in Calls : commands[d].at # "none" => commands[d].key # call[c].key
  BY <1>2 DEF WithKey, Accepted
<1>6. [d \in Calls |-> commands[d].key]' =
        [[d \in Calls |-> commands[d].key] EXCEPT ![c] = k]
  BY <1>1
<1>7. [d \in Calls |-> commands[d].at]' =
        [[d \in Calls |-> commands[d].at] EXCEPT ![c] = "running"]
  BY <1>1
<1>8. QED
  BY <1>1, <1>3, <1>4, <1>5, <1>6, <1>7
     DEF Conversing!Ask, Conversing!Unasked, Conversing!Underway

\* A completion is the reply to what is under way.
LEMMA CompletionIsReply ==
  ASSUME SessionInv, NEW c \in Calls, Completes(c)
  PROVE  Conversing!Reply(c)
<1>1. /\ Running(c) /\ commands'[c].at = run[c].status
      /\ commands'[c].key = commands[c].key
      /\ messages' = Append(messages, [role |-> "assistant", of |-> c])
      /\ \A d \in Calls : d # c => commands'[d] = commands[d]
  BY CompletionFacts DEF SessionInv, Completes
<1>2. run[c].status \in {"succeeded", "failed", "cancelled"}
  BY DEF SessionInv, Local, Verdict, Completes
<1>3. [d \in Calls |-> commands[d].key]' = [d \in Calls |-> commands[d].key]
  BY <1>1
<1>4. [d \in Calls |-> commands[d].at]' =
        [[d \in Calls |-> commands[d].at] EXCEPT ![c] = run[c].status]
  BY <1>1
<1>5. QED
  BY <1>1, <1>2, <1>3, <1>4 DEF Conversing!Reply, Conversing!Underway, Running

\* No other step leaves a mark in the conversation.
LEMMA QuietIsSilent ==
  ASSUME Quiet
  PROVE  UNCHANGED Conversing!conversationVars
BY DEF Quiet, Conversing!conversationVars

\* However submissions race, repeat and fail, and whenever runs are cancelled
\* or the process stops: a session takes only the turns of a conversation.
THEOREM SessionImplementsConversation == AgentSpec => ImplementsConversation
<1>1. AgentInit => Conversing!ConversationInit /\ Keyed
  BY DEF AgentInit, NoCommand, NoCall, Conversing!ConversationInit, Keyed
<1>2. ASSUME SessionInv, RowInv, Keyed, [AgentNext]_agentVars
      PROVE  [Conversing!ConversationNext]_Conversing!conversationVars
  <2>1. CASE \E c \in Calls : Begins(c)
    <3>1. PICK c \in Calls : Begins(c)
      BY <2>1
    <3>2. PICK k \in Keys : call[c].key = k
      BY <1>2, <3>1 DEF Keyed, Begins
    <3>3. Conversing!Ask(c, k)
      BY <1>2, <3>1, <3>2, BeginIsAsked
    <3>4. QED BY <3>3 DEF Conversing!ConversationNext
  <2>2. CASE \E c \in Calls : Completes(c)
    BY <1>2, <2>2, CompletionIsReply DEF Conversing!ConversationNext
  <2>3. CASE Quiet
    BY <2>3, QuietIsSilent
  <2>4. QED BY <1>2, <2>1, <2>2, <2>3, RowKinds
<1>3. SessionInv /\ Keyed /\ [AgentNext]_agentVars => Keyed'
  BY KeyedKept
<1>4. QED
  BY <1>1, <1>2, <1>3, RowsAlways, PTL
     DEF AgentSpec, ImplementsConversation, Conversing!ConversationSpec
=============================================================================
