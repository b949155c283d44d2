--------------------------- MODULE BuilderDrafts ---------------------------
(***************************************************************************)
(* The working draft of one data product: the row product_builder_drafts    *)
(* with its optimistic lock, and the browser tabs that load it, edit it,    *)
(* keep a copy in their session storage and save it.                       *)
(*                                                                         *)
(* A drawing is a number: 0 is the workflow the agent's plan projects to,   *)
(* and every edit draws a new one.  A plan is the number of the agent's     *)
(* answer (the origin key); the newest counts.                             *)
(*                                                                         *)
(* A definition marked "Slip" is no part of the model: it is the one after *)
(* it with a plausible mistake, for testing the properties.                *)
(***************************************************************************)
EXTENDS Naturals, Sequences

CONSTANTS
  Tabs,      \* browser tabs of the owner
  Storing,   \* those whose session storage is available
  MaxPlans,  \* bound: answers of the agent
  MaxEdits,  \* bound: edits, all tabs together
  MaxPuts    \* bound: PUT requests, all tabs together

ASSUME BuilderAssumption ==
  /\ Storing \subseteq Tabs
  /\ MaxPlans \in Nat
  /\ MaxEdits \in Nat
  /\ MaxPuts \in Nat

VARIABLES
  deleted,  \* data_products.deleted_at is set
  row,      \* the product_builder_drafts row; lock 0 when there is none
  plan,     \* the agent's newest answer
  page,     \* the builder page of each tab
  cache,    \* the draft in each tab's session storage
  puts,     \* the PUT requests, in the order they were sent
  edits,    \* edits made so far
  history,  \* auxiliary: the PUT behind each lock version
  left      \* auxiliary: drawings left on purpose without saving

builderVars == <<deleted, row, plan, page, cache, puts, edits, history, left>>

NoRow == [lock |-> 0, plan |-> 0, work |-> 0]
NoPage ==
  [at |-> "away", plan |-> 0, work |-> 0, base |-> 0, lock |-> 0,
   dirty |-> FALSE]
NoSketch == [plan |-> 0, work |-> 0, base |-> 0]

BuilderInit ==
  /\ deleted = FALSE
  /\ row = NoRow
  /\ plan = 1
  /\ page = [t \in Tabs |-> NoPage]
  /\ cache = [t \in Tabs |-> NoSketch]
  /\ puts = <<>>
  /\ edits = 0
  /\ history = <<>>
  /\ left = {}

Open(t) == page[t].at = "open"

\* A draft on a canvas, in a cache or in a PUT.  "base" is auxiliary: the lock
\* version of the row the drawing descends from.
Sketch(d) == [plan |-> d.plan, work |-> d.work, base |-> d.base]

\* What content_hash covers.
Content(d) == <<d.plan, d.work>>

\* Session storage swallows writes where it is not available.
Cached(t, d) == IF t \in Storing THEN [cache EXCEPT ![t] = Sketch(d)] ELSE cache

-----------------------------------------------------------------------------
(* Around the builder *)

\* The agent answers, and its answer becomes the newest plan.
AgentAnswers ==
  /\ ~deleted
  /\ plan < MaxPlans
  /\ plan' = plan + 1
  /\ UNCHANGED <<deleted, row, page, cache, puts, edits, history, left>>

DeleteProduct ==
  /\ ~deleted
  /\ deleted' = TRUE
  /\ UNCHANGED <<row, plan, page, cache, puts, edits, history, left>>

-----------------------------------------------------------------------------
(* Loading the page *)

\* The messages of the newest session are read before the saved draft is.
LoadPlan(t) ==
  /\ page[t].at \in {"away", "failed"}
  /\ ~deleted
  /\ page' = [page EXCEPT ![t] = [NoPage EXCEPT !.at = "reading", !.plan = plan]]
  /\ UNCHANGED <<deleted, row, plan, cache, puts, edits, history, left>>

\* A draft of the same plan is taken from the tab's storage, else from the row;
\* else the plan is projected.  The lock version is the row's in any case, and
\* the editor starts clean.
LoadedSketch(t) ==
  IF t \in Storing /\ cache[t].plan = page[t].plan THEN cache[t]
  ELSE IF row.plan = page[t].plan
    THEN [plan |-> row.plan, work |-> row.work, base |-> row.lock]
  ELSE [plan |-> page[t].plan, work |-> 0, base |-> row.lock]

LoadDraft(t) ==
  /\ page[t].at = "reading"
  /\ ~deleted
  /\ LET s == LoadedSketch(t) IN
     page' = [page EXCEPT ![t] =
       [at |-> "open", plan |-> s.plan, work |-> s.work, base |-> s.base,
        lock |-> row.lock, dirty |-> FALSE]]
  /\ UNCHANGED <<deleted, row, plan, cache, puts, edits, history, left>>

LoadFails(t) ==
  /\ page[t].at = "reading"
  /\ page' = [page EXCEPT ![t] = [NoPage EXCEPT !.at = "failed"]]
  /\ UNCHANGED <<deleted, row, plan, cache, puts, edits, history, left>>

-----------------------------------------------------------------------------
(* Editing, saving, building *)

\* The effect of the page stores every dirty draft.
Edit(t) ==
  /\ Open(t)
  /\ edits < MaxEdits
  /\ edits' = edits + 1
  /\ page' = [page EXCEPT ![t] =
                 [page[t] EXCEPT !.work = edits + 1, !.dirty = TRUE]]
  /\ cache' = Cached(t, page'[t])
  /\ UNCHANGED <<deleted, row, plan, puts, history, left>>

\* "save" and "build" are awaited by the page, "compile" is the second request
\* of a build, "tab" a save whose page is gone, "none" a PUT nobody waits for.
Awaited(t) ==
  \E k \in 1..Len(puts) :
    puts[k].tab = t /\ puts[k].awaits \in {"save", "build", "compile"}

SendPut(t, purpose) ==
  /\ Open(t)
  /\ ~Awaited(t)
  /\ Len(puts) < MaxPuts
  /\ puts' = Append(puts,
       [tab |-> t, awaits |-> purpose, at |-> "sent", plan |-> page[t].plan,
        work |-> page[t].work, base |-> page[t].base, lock |-> page[t].lock])
  /\ UNCHANGED <<deleted, row, plan, page, cache, edits, history, left>>

SaveDraft(t) == page[t].dirty /\ SendPut(t, "save")
RunBuild(t) == SendPut(t, "build")

\* Slip: the lock version is not compared.
AdvancesUnlocked(k) == row.lock = 0 \/ Content(puts[k]) # Content(row)

\* The statement of saveBuilderDraft: update or insert where the lock version
\* is the one named and the content is new.  The answer carries the new lock.
Advances(k) ==
  puts[k].lock = row.lock /\ (row.lock = 0 \/ Content(puts[k]) # Content(row))

\* Slip: the content is not compared.
RepeatsAnyContent(k) == puts[k].lock = row.lock /\ row.lock # 0

Repeats(k) ==
  puts[k].lock = row.lock /\ row.lock # 0 /\ Content(puts[k]) = Content(row)

PutStored(k) ==
  /\ puts[k].at = "sent"
  /\ ~deleted
  /\ Advances(k)
  /\ row' = [lock |-> row.lock + 1, plan |-> puts[k].plan, work |-> puts[k].work]
  /\ history' = Append(history, puts[k])
  /\ puts' = [puts EXCEPT ![k] =
                 [puts[k] EXCEPT !.at = "stored", !.lock = row.lock + 1]]
  /\ UNCHANGED <<deleted, plan, page, cache, edits, left>>

\* The same content again is answered with the row as it is.
PutUnchanged(k) ==
  /\ puts[k].at = "sent"
  /\ ~deleted
  /\ Repeats(k)
  /\ puts' = [puts EXCEPT ![k].at = "stored"]
  /\ UNCHANGED <<deleted, row, plan, page, cache, edits, history, left>>

\* precondition_failed, or not_found when the product is deleted.
PutRefused(k) ==
  /\ puts[k].at = "sent"
  /\ deleted \/ puts[k].lock # row.lock
  /\ puts' = [puts EXCEPT ![k].at = "refused"]
  /\ UNCHANGED <<deleted, row, plan, page, cache, edits, history, left>>

\* A good answer reaches its page: the new lock is kept, the draft that was
\* sent goes to the storage, the editor is marked clean, a build compiles.
PutConfirmed(k) ==
  LET t == puts[k].tab IN
  /\ puts[k].at = "stored"
  /\ puts[k].awaits \in {"save", "build"}
  /\ page' = [page EXCEPT ![t] =
       [page[t] EXCEPT !.lock = puts[k].lock, !.base = puts[k].lock,
                       !.dirty = FALSE]]
  /\ cache' = Cached(t, [puts[k] EXCEPT !.base = puts[k].lock])
  /\ puts' = [puts EXCEPT ![k].awaits =
                 IF puts[k].awaits = "build" THEN "compile" ELSE "none"]
  /\ UNCHANGED <<deleted, row, plan, edits, history, left>>

\* The answer to a save reaches the tab after its page has gone: only the
\* storage is written.
PutConfirmedLate(k) ==
  /\ puts[k].at = "stored"
  /\ puts[k].awaits = "tab"
  /\ cache' = Cached(puts[k].tab, [puts[k] EXCEPT !.base = puts[k].lock])
  /\ puts' = [puts EXCEPT ![k].awaits = "none"]
  /\ UNCHANGED <<deleted, row, plan, page, edits, history, left>>

\* An error status, a lost answer or a timeout: the page keeps its draft and
\* its lock.  A PUT that was given up may still reach the server.
PutFails(k) ==
  /\ puts[k].awaits \in {"save", "build", "tab"}
  /\ puts' = [puts EXCEPT ![k].awaits = "none"]
  /\ UNCHANGED <<deleted, row, plan, page, cache, edits, history, left>>

\* A passed compilation opens the API page without asking; a failed one does
\* not move.
CompileFails(k) ==
  /\ puts[k].awaits = "compile"
  /\ puts' = [puts EXCEPT ![k].awaits = "none"]
  /\ UNCHANGED <<deleted, row, plan, page, cache, edits, history, left>>

CompilePasses(k) ==
  /\ puts[k].awaits = "compile"
  /\ ~deleted
  /\ puts' = [puts EXCEPT ![k].awaits = "none"]
  /\ page' = [page EXCEPT ![puts[k].tab] = NoPage]
  /\ UNCHANGED <<deleted, row, plan, cache, edits, history, left>>

-----------------------------------------------------------------------------
(* Leaving the page *)

\* Unmounting aborts a build; a save goes on without its page.
Unmounted(t) ==
  [k \in 1..Len(puts) |->
     IF puts[k].tab # t THEN puts[k]
     ELSE [puts[k] EXCEPT !.awaits =
             IF puts[k].awaits \in {"save", "tab"} THEN "tab" ELSE "none"]]

\* With nothing unsaved, no question is asked.
Leave(t) ==
  /\ page[t].at # "away"
  /\ ~page[t].dirty
  /\ page' = [page EXCEPT ![t] = NoPage]
  /\ puts' = Unmounted(t)
  /\ UNCHANGED <<deleted, row, plan, cache, edits, history, left>>

\* Slip: the stored draft is not cleared.
LeaveKeepsCache(t) ==
  /\ page[t].dirty
  /\ page' = [page EXCEPT ![t] = NoPage]
  /\ puts' = Unmounted(t)
  /\ left' = left \union {page[t].work}
  /\ UNCHANGED <<deleted, row, plan, cache, edits, history>>

\* "Leave without saving" in the dialog.
LeaveWithoutSaving(t) ==
  /\ page[t].dirty
  /\ page' = [page EXCEPT ![t] = NoPage]
  /\ puts' = Unmounted(t)
  /\ cache' = [cache EXCEPT ![t] = NoSketch]
  /\ left' = left \union {page[t].work}
  /\ UNCHANGED <<deleted, row, plan, edits, history>>

\* The browser reloads the tab: session storage survives, and no continuation.
Reload(t) ==
  /\ page[t].at # "away"
  /\ page' = [page EXCEPT ![t] = NoPage]
  /\ puts' = [k \in 1..Len(puts) |->
       IF puts[k].tab = t THEN [puts[k] EXCEPT !.awaits = "none"] ELSE puts[k]]
  /\ UNCHANGED <<deleted, row, plan, cache, edits, history, left>>

-----------------------------------------------------------------------------
TabStep(t) ==
  \/ LoadPlan(t) \/ LoadDraft(t) \/ LoadFails(t)
  \/ Edit(t) \/ SaveDraft(t) \/ RunBuild(t)
  \/ Leave(t) \/ LeaveWithoutSaving(t) \/ Reload(t)

PutStep(k) ==
  \/ PutStored(k) \/ PutUnchanged(k) \/ PutRefused(k)
  \/ PutConfirmed(k) \/ PutConfirmedLate(k) \/ PutFails(k)
  \/ CompileFails(k) \/ CompilePasses(k)

BuilderNext ==
  \/ AgentAnswers
  \/ DeleteProduct
  \/ \E t \in Tabs : TabStep(t)
  \/ \E k \in 1..Len(puts) : PutStep(k)

BuilderSpec == BuilderInit /\ [][BuilderNext]_builderVars

-----------------------------------------------------------------------------
(* Properties *)

Sketches == [plan : Nat, work : Nat, base : Nat]
Pages ==
  [at : {"away", "reading", "open", "failed"}, plan : Nat, work : Nat,
   base : Nat, lock : Nat, dirty : BOOLEAN]
Puts ==
  [tab : Tabs, awaits : {"save", "build", "compile", "tab", "none"},
   at : {"sent", "stored", "refused"}, plan : Nat, work : Nat, base : Nat,
   lock : Nat]

\* Rows, pages, caches and requests keep their types, and a page that is not
\* open holds no lock version and nothing unsaved.
BuilderTypeOK ==
  /\ deleted \in BOOLEAN
  /\ row \in [lock : Nat, plan : Nat, work : Nat]
  /\ plan \in Nat
  /\ page \in [Tabs -> Pages]
  /\ \A t \in Tabs : ~Open(t) => page[t].lock = 0 /\ ~page[t].dirty
  /\ cache \in [Tabs -> Sketches]
  /\ puts \in Seq(Puts)
  /\ edits \in Nat
  /\ history \in Seq(Puts)
  /\ left \subseteq Nat

\* An ETag names one draft: two saves answered with the same lock version, of
\* whatever tabs and however late, stored the same content.  This is what
\* makes the lock version a safe If-Match.
OneDraftPerETag ==
  \A j, k \in 1..Len(puts) :
    /\ puts[j].at = "stored" /\ puts[k].at = "stored"
    /\ puts[j].lock = puts[k].lock
    => Content(puts[j]) = Content(puts[k])

\* The PUT that produced lock version v descends from version v - 1, or
\* follows a save of its own tab.
FollowsItsBase(v) ==
  v = 1 \/ history[v].base = v - 1 \/ history[v].tab = history[v - 1].tab

\* A tab without session storage never replaces a draft it has not loaded:
\* reading the row and its lock version together, and naming that version when
\* saving, keeps other tabs' saves from being overwritten unseen.
FreshTabsOverwriteNothing ==
  \A v \in 1..Len(history) : history[v].tab \notin Storing => FollowsItsBase(v)

\* A drawing the user chose to leave unsaved does not come back to a canvas,
\* unless a save of it that was already under way was stored.
LeftDrawingsStayAway ==
  \A t \in Tabs :
    Open(t) /\ page[t].work \in left
    => \E v \in 1..Len(history) : history[v].work = page[t].work

\* workflow-editor.md: "Saving uses the current version/revision and must
\* reject stale writes rather than silently overwriting another editor."
NoSilentOverwrite == \A v \in 1..Len(history) : FollowsItsBase(v)
=============================================================================
