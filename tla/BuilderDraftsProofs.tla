------------------------ MODULE BuilderDraftsProofs ------------------------
(***************************************************************************)
(* Theorems about BuilderDrafts.  The inductive invariant has four layers, *)
(* each preserved with the help of those before it: PagesInv (types, and   *)
(* who awaits a request), RowInv (the row is the last version, and a       *)
(* stored request names the version with its content), FreshInv (without   *)
(* session storage, drawing and lock version come from one read) and       *)
(* LeftInv (a drawing that was never stored is known to one tab at most,   *)
(* and to none that was left).  For each layer the steps are taken in      *)
(* three groups: those that change at most who waits for a request, a      *)
(* request being sent, a request being decided.                            *)
(***************************************************************************)
EXTENDS BuilderDrafts, SequenceTheorems, TLAPS

OnPage == {"save", "build", "compile"}

\* A request is awaited by a page only while the page is mounted, and a page
\* awaits one at a time.
Awaiting ==
  /\ \A k \in 1..Len(puts) : puts[k].awaits \in OnPage => Open(puts[k].tab)
  /\ \A j, k \in 1..Len(puts) :
       /\ puts[j].awaits \in OnPage
       /\ puts[k].awaits \in OnPage
       /\ puts[j].tab = puts[k].tab
       => j = k

PagesInv == BuilderTypeOK /\ Awaiting

\* The row is what the last accepted PUT stored, and every stored PUT names
\* the version that holds its content.
RowInv ==
  /\ row.lock = Len(history)
  /\ row.lock = 0 => row = NoRow
  /\ row.lock # 0 => Content(row) = Content(history[row.lock])
  /\ \A k \in 1..Len(puts) :
       puts[k].at = "stored" =>
         /\ puts[k].lock \in 1..Len(history)
         /\ Content(puts[k]) = Content(history[puts[k].lock])

\* Without session storage the drawing descends from the version whose lock
\* the page holds.
FreshInv ==
  /\ \A t \in Tabs \ Storing : Open(t) => page[t].base = page[t].lock
  /\ \A k \in 1..Len(puts) :
       puts[k].tab \notin Storing /\ puts[k].at = "sent"
       => puts[k].base = puts[k].lock
  /\ \A v \in 1..Len(history) :
       history[v].tab \notin Storing => history[v].base = v - 1

-----------------------------------------------------------------------------
(* What the steps do to the requests *)

\* Steps that change who waits for a request and nothing else of it.
QuietTab(t) ==
  \/ LoadPlan(t) \/ LoadDraft(t) \/ LoadFails(t)
  \/ Edit(t) \/ Leave(t) \/ LeaveWithoutSaving(t) \/ Reload(t)
QuietPut(k) ==
  \/ PutConfirmed(k) \/ PutConfirmedLate(k) \/ PutFails(k)
  \/ CompileFails(k) \/ CompilePasses(k)
Quiet ==
  \/ AgentAnswers
  \/ DeleteProduct
  \/ \E t \in Tabs : QuietTab(t)
  \/ \E k \in 1..Len(puts) : QuietPut(k)
  \/ UNCHANGED builderVars
Lands(k) == PutStored(k) \/ PutUnchanged(k) \/ PutRefused(k)
Sends(t) == SendPut(t, "save") \/ SendPut(t, "build")

SameButAwaits ==
  /\ puts' \in Seq(Puts)
  /\ Len(puts') = Len(puts)
  /\ \A j \in 1..Len(puts) :
       /\ puts'[j].tab = puts[j].tab
       /\ puts'[j].at = puts[j].at
       /\ puts'[j].plan = puts[j].plan
       /\ puts'[j].work = puts[j].work
       /\ puts'[j].base = puts[j].base
       /\ puts'[j].lock = puts[j].lock

LEMMA NextCases ==
  ASSUME [BuilderNext]_builderVars
  PROVE  \/ Quiet
         \/ \E t \in Tabs : Sends(t)
         \/ \E k \in 1..Len(puts) : Lands(k)
BY DEF BuilderNext, TabStep, PutStep, SaveDraft, RunBuild, Quiet, QuietTab,
       QuietPut, Lands, Sends

LEMMA OnePutChanged ==
  ASSUME puts \in Seq(Puts), NEW k \in 1..Len(puts), NEW e \in Puts,
         puts' = [puts EXCEPT ![k] = e]
  PROVE  /\ puts' \in Seq(Puts)
         /\ Len(puts') = Len(puts)
         /\ puts'[k] = e
         /\ \A j \in 1..Len(puts) : j # k => puts'[j] = puts[j]
<1>1. /\ [puts EXCEPT ![k] = e] \in Seq(Puts)
      /\ Len([puts EXCEPT ![k] = e]) = Len(puts)
      /\ \A j \in 1..Len(puts) :
           [puts EXCEPT ![k] = e][j] = IF j = k THEN e ELSE puts[j]
  BY ExceptSeq
<1>2. QED
  BY <1>1

LEMMA PutIsTyped ==
  ASSUME puts \in Seq(Puts), NEW k \in 1..Len(puts)
  PROVE  puts[k] \in Puts /\ puts[k].tab \in Tabs
<1>1. puts[k] \in Puts
  BY ElementOfSeq
<1>2. QED
  BY <1>1 DEF Puts

\* A function on the numbers of the requests is a list of requests.
LEMMA PutsAreListed ==
  ASSUME puts \in Seq(Puts), NEW f \in [1..Len(puts) -> Puts]
  PROVE  f \in Seq(Puts) /\ Len(f) = Len(puts)
<1>1. Len(puts) \in Nat
  BY LenProperties
<1>2. f \in Seq(Puts)
  BY <1>1, SeqDef
<1>3. QED
  BY <1>1, <1>2, LenProperties

LEMMA UnmountedKeeps ==
  ASSUME puts \in Seq(Puts), NEW t \in Tabs, puts' = Unmounted(t)
  PROVE  /\ SameButAwaits
         /\ \A j \in 1..Len(puts) :
              puts'[j].awaits \in OnPage => puts[j].tab # t /\ puts'[j] = puts[j]
<1>1. \A j \in 1..Len(puts) : puts[j] \in Puts
  BY PutIsTyped
<1>2. Unmounted(t) \in [1..Len(puts) -> Puts]
  BY <1>1 DEF Unmounted, Puts
<1>3. puts' \in Seq(Puts) /\ Len(puts') = Len(puts)
  BY <1>2, PutsAreListed
<1>4. \A j \in 1..Len(puts) :
        puts'[j] = IF puts[j].tab # t THEN puts[j]
                   ELSE [puts[j] EXCEPT !.awaits =
                     IF puts[j].awaits \in {"save", "tab"} THEN "tab" ELSE "none"]
  BY DEF Unmounted
<1>5. ASSUME NEW j \in 1..Len(puts)
      PROVE  /\ puts'[j].tab = puts[j].tab
             /\ puts'[j].at = puts[j].at
             /\ puts'[j].plan = puts[j].plan
             /\ puts'[j].work = puts[j].work
             /\ puts'[j].base = puts[j].base
             /\ puts'[j].lock = puts[j].lock
             /\ puts'[j].awaits \in OnPage => puts[j].tab # t /\ puts'[j] = puts[j]
  <2>1. puts[j] \in Puts
    BY <1>1
  <2>2. CASE puts[j].tab # t
    <3>1. puts'[j] = puts[j]
      BY <1>4, <2>2
    <3>2. QED
      BY <2>2, <3>1
  <2>3. CASE puts[j].tab = t
    <3>1. puts'[j] = [puts[j] EXCEPT !.awaits =
                        IF puts[j].awaits \in {"save", "tab"} THEN "tab" ELSE "none"]
      BY <1>4, <2>3
    <3>2. QED
      BY <2>1, <3>1 DEF Puts, OnPage
  <2>4. QED
    BY <2>2, <2>3
<1>6. QED
  BY <1>3, <1>5 DEF SameButAwaits

LEMMA ReloadKeeps ==
  ASSUME puts \in Seq(Puts), NEW t \in Tabs, Reload(t)
  PROVE  /\ SameButAwaits
         /\ \A j \in 1..Len(puts) :
              puts'[j].awaits \in OnPage => puts[j].tab # t /\ puts'[j] = puts[j]
<1> DEFINE f == [k \in 1..Len(puts) |->
       IF puts[k].tab = t THEN [puts[k] EXCEPT !.awaits = "none"] ELSE puts[k]]
<1>1. \A j \in 1..Len(puts) : puts[j] \in Puts
  BY PutIsTyped
<1>2. f \in [1..Len(puts) -> Puts]
  BY <1>1 DEF Puts
<1>3. puts' = f
  BY DEF Reload
<1>4. puts' \in Seq(Puts) /\ Len(puts') = Len(puts)
  BY <1>2, <1>3, PutsAreListed
<1>5. \A j \in 1..Len(puts) :
        puts'[j] = IF puts[j].tab = t THEN [puts[j] EXCEPT !.awaits = "none"]
                   ELSE puts[j]
  BY <1>3
<1>6. ASSUME NEW j \in 1..Len(puts)
      PROVE  /\ puts'[j].tab = puts[j].tab
             /\ puts'[j].at = puts[j].at
             /\ puts'[j].plan = puts[j].plan
             /\ puts'[j].work = puts[j].work
             /\ puts'[j].base = puts[j].base
             /\ puts'[j].lock = puts[j].lock
             /\ puts'[j].awaits \in OnPage => puts[j].tab # t /\ puts'[j] = puts[j]
  <2>1. puts[j] \in Puts
    BY <1>1
  <2>2. CASE puts[j].tab # t
    <3>1. puts'[j] = puts[j]
      BY <1>5, <2>2
    <3>2. QED
      BY <2>2, <3>1
  <2>3. CASE puts[j].tab = t
    <3>1. puts'[j] = [puts[j] EXCEPT !.awaits = "none"]
      BY <1>5, <2>3
    <3>2. QED
      BY <2>1, <3>1 DEF Puts, OnPage
  <2>4. QED
    BY <2>2, <2>3
<1>7. QED
  BY <1>4, <1>6 DEF SameButAwaits

-----------------------------------------------------------------------------
(* Types *)

\* A page that is replaced by a typed one.
PageTypes ==
  /\ page \in [Tabs -> Pages]
  /\ \A t \in Tabs : ~Open(t) => page[t].lock = 0 /\ ~page[t].dirty

LEMMA OnePageChanged ==
  ASSUME PageTypes, NEW t \in Tabs, NEW e \in Pages,
         e.at # "open" => e.lock = 0 /\ ~e.dirty,
         page' = [page EXCEPT ![t] = e]
  PROVE  /\ PageTypes'
         /\ page'[t] = e
         /\ \A u \in Tabs : u # t => page'[u] = page[u]
BY DEF PageTypes, Open

LEMMA EditedPage ==
  ASSUME NEW p \in Pages, NEW w \in Nat
  PROVE  /\ [p EXCEPT !.work = w, !.dirty = TRUE] \in Pages
         /\ [p EXCEPT !.work = w, !.dirty = TRUE].at = p.at
BY DEF Pages

LEMMA CachedIsTyped ==
  ASSUME cache \in [Tabs -> Sketches], NEW t \in Tabs, NEW d,
         Sketch(d) \in Sketches
  PROVE  Cached(t, d) \in [Tabs -> Sketches]
BY DEF Cached

LEMMA InitPages == BuilderInit => PagesInv
<1> SUFFICES ASSUME BuilderInit PROVE PagesInv
  OBVIOUS
<1>1. NoPage \in Pages /\ NoSketch \in Sketches /\ NoPage.lock = 0
      /\ ~NoPage.dirty
  BY DEF NoPage, NoSketch, Pages, Sketches
<1>2. puts \in Seq(Puts) /\ history \in Seq(Puts) /\ Len(puts) = 0
  BY DEF BuilderInit
<1>3. BuilderTypeOK
  BY <1>1, <1>2 DEF BuilderInit, BuilderTypeOK, NoRow, Open
<1>4. Awaiting
  BY <1>2 DEF Awaiting
<1>5. QED
  BY <1>3, <1>4 DEF PagesInv

\* The page of one tab is mounted, loaded or failed: what others wait for is
\* as it was.
LEMMA LoadKeepsPages ==
  ASSUME PagesInv, NEW t \in Tabs, LoadPlan(t) \/ LoadDraft(t) \/ LoadFails(t)
  PROVE  PagesInv'
<1> USE DEF PagesInv, BuilderTypeOK
<1>1. PageTypes /\ page[t] \in Pages
  BY DEF PageTypes
<1>2. \E e \in Pages :
        /\ e.at # "open" => e.lock = 0 /\ ~e.dirty
        /\ page' = [page EXCEPT ![t] = e]
  <2>1. CASE LoadPlan(t)
    <3> DEFINE e == [NoPage EXCEPT !.at = "reading", !.plan = plan]
    <3>1. e \in Pages /\ e.lock = 0 /\ ~e.dirty
      BY DEF NoPage, Pages
    <3>2. QED
      BY <2>1, <3>1 DEF LoadPlan
  <2>2. CASE LoadDraft(t)
    <3>1. LoadedSketch(t) \in Sketches
      BY <1>1 DEF LoadedSketch, Sketches, Pages
    <3> DEFINE s == LoadedSketch(t)
               e == [at |-> "open", plan |-> s.plan, work |-> s.work,
                     base |-> s.base, lock |-> row.lock, dirty |-> FALSE]
    <3>2. e \in Pages /\ e.at = "open"
      BY <3>1 DEF Sketches, Pages
    <3>3. page' = [page EXCEPT ![t] = e]
      BY <2>2 DEF LoadDraft
    <3>4. QED
      BY <3>2, <3>3
  <2>3. CASE LoadFails(t)
    <3> DEFINE e == [NoPage EXCEPT !.at = "failed"]
    <3>1. e \in Pages /\ e.lock = 0 /\ ~e.dirty
      BY DEF NoPage, Pages
    <3>2. QED
      BY <2>3, <3>1 DEF LoadFails
  <2>4. QED
    BY <2>1, <2>2, <2>3
<1>3. PageTypes' /\ \A u \in Tabs : u # t => page'[u] = page[u]
  BY <1>1, <1>2, OnePageChanged
<1>4. UNCHANGED <<deleted, row, plan, cache, puts, edits, history, left>>
  BY DEF LoadPlan, LoadDraft, LoadFails
<1>5. BuilderTypeOK'
  BY <1>3, <1>4 DEF PageTypes, Open
<1>6. ~Open(t)
  BY DEF LoadPlan, LoadDraft, LoadFails, Open
<1>7. Awaiting'
  <2>1. \A k \in 1..Len(puts) : puts[k].tab \in Tabs
    BY PutIsTyped
  <2>2. QED
    BY <1>3, <1>4, <1>6, <2>1 DEF Awaiting, Open
<1>8. QED
  BY <1>5, <1>7

LEMMA EditKeepsPages ==
  ASSUME PagesInv, NEW t \in Tabs, Edit(t)
  PROVE  PagesInv'
<1> USE DEF PagesInv, BuilderTypeOK
<1> DEFINE e == [page[t] EXCEPT !.work = edits + 1, !.dirty = TRUE]
<1>1. PageTypes /\ page[t] \in Pages /\ page[t].at = "open"
  BY DEF PageTypes, Edit, Open
<1>2. e \in Pages /\ e.at = "open"
  <2>1. edits + 1 \in Nat
    OBVIOUS
  <2>2. QED
    BY <1>1, <2>1, EditedPage, Zenon
<1>3. page' = [page EXCEPT ![t] = e]
  BY DEF Edit
<1>4. /\ PageTypes'
      /\ page'[t] = e
      /\ \A u \in Tabs : u # t => page'[u] = page[u]
  BY <1>1, <1>2, <1>3, OnePageChanged
<1>5. Sketch(page'[t]) \in Sketches
  BY <1>2, <1>4 DEF Sketch, Sketches, Pages
<1>6. cache' \in [Tabs -> Sketches]
  BY <1>5, CachedIsTyped DEF Edit
<1>7. UNCHANGED <<deleted, row, plan, puts, history, left>> /\ edits' = edits + 1
  BY DEF Edit
<1>8. BuilderTypeOK'
  BY <1>4, <1>6, <1>7 DEF PageTypes, Open
<1>9. Awaiting'
  <2>1. \A k \in 1..Len(puts) : puts[k].tab \in Tabs
    BY PutIsTyped
  <2>2. QED
    BY <1>2, <1>4, <1>7, <2>1 DEF Awaiting, Open
<1>10. QED
  BY <1>8, <1>9

LEMMA GoneIsTyped ==
  /\ NoPage \in Pages /\ NoPage.lock = 0 /\ ~NoPage.dirty
  /\ NoSketch \in Sketches
BY DEF NoPage, NoSketch, Pages, Sketches

\* A page goes, and with it all that it waited for.
LEMMA LeaveKeepsPages ==
  ASSUME PagesInv, NEW t \in Tabs, Leave(t) \/ LeaveWithoutSaving(t) \/ Reload(t)
  PROVE  PagesInv'
<1> USE DEF PagesInv, BuilderTypeOK
<1>1. PageTypes /\ page' = [page EXCEPT ![t] = NoPage]
  BY DEF PageTypes, Leave, LeaveWithoutSaving, Reload
<1>2. PageTypes' /\ \A u \in Tabs : u # t => page'[u] = page[u]
  BY <1>1, GoneIsTyped, OnePageChanged
<1>3. /\ SameButAwaits
      /\ \A j \in 1..Len(puts) :
           puts'[j].awaits \in OnPage => puts[j].tab # t /\ puts'[j] = puts[j]
  BY UnmountedKeeps, ReloadKeeps DEF Leave, LeaveWithoutSaving
<1>4. cache' \in [Tabs -> Sketches] /\ left' \subseteq Nat
  <2>1. page[t].work \in Nat
    BY DEF Pages
  <2>2. QED
    BY <2>1, GoneIsTyped DEF Leave, LeaveWithoutSaving, Reload
<1>5. UNCHANGED <<deleted, row, plan, edits, history>>
  BY DEF Leave, LeaveWithoutSaving, Reload
<1>6. BuilderTypeOK'
  BY <1>2, <1>3, <1>4, <1>5 DEF PageTypes, SameButAwaits, Open
<1>7. Awaiting'
  <2>1. \A k \in 1..Len(puts) : puts[k].tab \in Tabs
    BY PutIsTyped
  <2>2. QED
    BY <1>2, <1>3, <2>1 DEF Awaiting, Open, SameButAwaits
<1>8. QED
  BY <1>6, <1>7

LEMMA AnsweredPut ==
  ASSUME NEW p \in Puts, NEW a \in {"compile", "none"}
  PROVE  LET q == [p EXCEPT !.awaits = a] IN
         /\ q \in Puts
         /\ q.awaits = a
         /\ q.tab = p.tab /\ q.at = p.at /\ q.plan = p.plan
         /\ q.work = p.work /\ q.base = p.base /\ q.lock = p.lock
BY DEF Puts

\* The page after its save was confirmed.
Confirmed(p, v) == [p EXCEPT !.lock = v, !.base = v, !.dirty = FALSE]

\* It is a page again, and at the same place.
LEMMA ConfirmedPage ==
  ASSUME NEW p \in Pages, NEW v \in Nat
  PROVE  /\ Confirmed(p, v) \in Pages
         /\ Confirmed(p, v).at = p.at
BY DEF Pages, Confirmed

\* What a request that was answered or given up leaves behind.
Settled(k, a) == puts' = [puts EXCEPT ![k] = [puts[k] EXCEPT !.awaits = a]]

LEMMA SettledKeeps ==
  ASSUME puts \in Seq(Puts), NEW k \in 1..Len(puts),
         NEW a \in {"compile", "none"}, Settled(k, a)
  PROVE  /\ SameButAwaits
         /\ puts'[k].awaits = a
         /\ \A j \in 1..Len(puts) : j # k => puts'[j] = puts[j]
<1> DEFINE q == [puts[k] EXCEPT !.awaits = a]
<1>1. puts[k] \in Puts
  BY PutIsTyped
<1>2. /\ q \in Puts
      /\ q.awaits = a
      /\ q.tab = puts[k].tab /\ q.at = puts[k].at /\ q.plan = puts[k].plan
      /\ q.work = puts[k].work /\ q.base = puts[k].base /\ q.lock = puts[k].lock
  BY <1>1, AnsweredPut
<1>3. puts' = [puts EXCEPT ![k] = q]
  BY DEF Settled
<1> HIDE DEF q
<1>4. /\ puts' \in Seq(Puts)
      /\ Len(puts') = Len(puts)
      /\ puts'[k] = q
      /\ \A j \in 1..Len(puts) : j # k => puts'[j] = puts[j]
  BY <1>2, <1>3, OnePutChanged
<1>5. QED
  BY <1>2, <1>4 DEF SameButAwaits

LEMMA QuietPutSettles ==
  ASSUME NEW k \in 1..Len(puts), QuietPut(k)
  PROVE  \E a \in {"compile", "none"} :
           /\ Settled(k, a)
           /\ a = "compile" => puts[k].awaits = "build"
BY DEF QuietPut, PutConfirmed, PutConfirmedLate, PutFails, CompileFails,
       CompilePasses, Settled

LEMMA SketchIsTyped ==
  ASSUME NEW p \in Puts
  PROVE  Sketch([p EXCEPT !.base = p.lock]) \in Sketches
BY DEF Puts, Sketch, Sketches

LEMMA QuietPutKeepsPages ==
  ASSUME PagesInv, NEW k \in 1..Len(puts), QuietPut(k)
  PROVE  PagesInv'
<1> USE DEF PagesInv, BuilderTypeOK
<1> DEFINE t == puts[k].tab
<1>1. puts[k] \in Puts /\ t \in Tabs /\ PageTypes
  BY PutIsTyped DEF PageTypes
<1>2. PICK a \in {"compile", "none"} :
        Settled(k, a) /\ (a = "compile" => puts[k].awaits = "build")
  BY QuietPutSettles
<1>3. /\ SameButAwaits
      /\ puts'[k].awaits = a
      /\ \A j \in 1..Len(puts) : j # k => puts'[j] = puts[j]
  BY <1>2, SettledKeeps
<1>4. cache' \in [Tabs -> Sketches]
  <2>1. Sketch([puts[k] EXCEPT !.base = puts[k].lock]) \in Sketches
    BY <1>1, SketchIsTyped
  <2>2. Cached(t, [puts[k] EXCEPT !.base = puts[k].lock]) \in [Tabs -> Sketches]
    BY <1>1, <2>1, CachedIsTyped
  <2>3. QED
    BY <2>2 DEF QuietPut, PutConfirmed, PutConfirmedLate, PutFails,
                CompileFails, CompilePasses
<1>5. UNCHANGED <<deleted, row, plan, edits, history, left>>
  BY DEF QuietPut, PutConfirmed, PutConfirmedLate, PutFails, CompileFails,
         CompilePasses
<1>6. /\ PageTypes'
      /\ \A u \in Tabs : u # t => page'[u] = page[u]
      /\ page[t].at = "open" /\ page'[t].at # "open"
           => puts[k].awaits = "compile"
  <2>1. CASE PutConfirmed(k)
    <3> DEFINE e == Confirmed(page[t], puts[k].lock)
    <3>1. page[t] \in Pages /\ puts[k].lock \in Nat /\ Open(t)
      BY <1>1, <2>1 DEF PutConfirmed, Awaiting, OnPage, Puts
    <3>2. e \in Pages /\ e.at = page[t].at
      BY <3>1, ConfirmedPage
    <3>3. page' = [page EXCEPT ![t] = e]
      BY <2>1 DEF PutConfirmed, Confirmed
    <3>4. e.at = "open"
      BY <3>1, <3>2 DEF Open
    <3> HIDE DEF e
    <3>5. /\ PageTypes'
          /\ page'[t] = e
          /\ \A u \in Tabs : u # t => page'[u] = page[u]
      BY <1>1, <3>2, <3>3, <3>4, OnePageChanged, Zenon
    <3>6. QED
      BY <3>4, <3>5
  <2>2. CASE CompilePasses(k)
    <3>1. page' = [page EXCEPT ![t] = NoPage]
      BY <2>2 DEF CompilePasses
    <3>2. QED
      BY <1>1, <2>2, <3>1, GoneIsTyped, OnePageChanged DEF CompilePasses
  <2>3. CASE UNCHANGED page
    <3>1. PageTypes'
      BY <1>1, <2>3, Zenon DEF PageTypes, Open
    <3>2. QED
      BY <2>3, <3>1
  <2>4. QED
    BY <2>1, <2>2, <2>3 DEF QuietPut, PutConfirmedLate, PutFails, CompileFails
<1>7. BuilderTypeOK'
  BY <1>3, <1>4, <1>5, <1>6 DEF PageTypes, SameButAwaits, Open
<1>8. puts[k].awaits = "compile" => a = "none"
  BY <1>2
<1>9. Awaiting'
  <2>1. \A j \in 1..Len(puts) : puts[j].tab \in Tabs
    BY PutIsTyped
  <2>2. \A j \in 1..Len(puts) :
          puts'[j].awaits \in OnPage => puts[j].awaits \in OnPage
    BY <1>2, <1>3 DEF OnPage
  <2>3. /\ Len(puts') = Len(puts)
        /\ \A j \in 1..Len(puts) : puts'[j].tab = puts[j].tab
    BY <1>3 DEF SameButAwaits
  <2>4. ASSUME NEW j \in 1..Len(puts), puts'[j].awaits \in OnPage
        PROVE  page'[puts[j].tab].at = "open"
    <3>1. puts[j].awaits \in OnPage /\ page[puts[j].tab].at = "open"
      BY <2>2, <2>4 DEF Awaiting, Open
    <3>2. CASE puts[j].tab # t
      BY <1>6, <2>1, <3>1, <3>2
    <3>3. CASE puts[j].tab = t /\ puts[k].awaits # "compile"
      BY <1>6, <3>1, <3>3
    <3>4. CASE puts[j].tab = t /\ puts[k].awaits = "compile"
      <4>1. puts[k].awaits \in OnPage
        BY <3>4 DEF OnPage
      <4>2. j = k
        BY <3>1, <3>4, <4>1 DEF Awaiting
      <4>3. puts'[j].awaits = "none"
        BY <1>3, <1>8, <3>4, <4>2
      <4>4. QED
        BY <2>4, <4>3 DEF OnPage
    <3>5. QED
      BY <3>2, <3>3, <3>4
  <2>5. \A i, j \in 1..Len(puts) :
          /\ puts'[i].awaits \in OnPage
          /\ puts'[j].awaits \in OnPage
          /\ puts'[i].tab = puts'[j].tab
          => i = j
    BY <2>2, <2>3 DEF Awaiting
  <2>6. QED
    BY <2>3, <2>4, <2>5 DEF Awaiting, Open
<1>10. QED
  BY <1>7, <1>9

\* The request a page sends.
SentPut(t, purpose) ==
  [tab |-> t, awaits |-> purpose, at |-> "sent", plan |-> page[t].plan,
   work |-> page[t].work, base |-> page[t].base, lock |-> page[t].lock]

LEMMA SendAppends ==
  ASSUME PagesInv, NEW t \in Tabs, NEW p \in {"save", "build"}, SendPut(t, p)
  PROVE  /\ SentPut(t, p) \in Puts
         /\ puts' \in Seq(Puts)
         /\ Len(puts) \in Nat /\ Len(puts') = Len(puts) + 1
         /\ puts'[Len(puts) + 1] = SentPut(t, p)
         /\ \A j \in 1..Len(puts) : puts'[j] = puts[j]
<1>1. page[t] \in Pages /\ puts \in Seq(Puts)
  BY DEF PagesInv, BuilderTypeOK
<1>2. SentPut(t, p) \in Puts
  BY <1>1 DEF SentPut, Puts, Pages
<1>3. puts' = Append(puts, SentPut(t, p))
  BY DEF SendPut, SentPut
<1>4. Len(puts) \in Nat
  BY <1>1, LenProperties
<1>5. QED
  BY <1>1, <1>2, <1>3, <1>4, AppendProperties

LEMMA SendKeepsPages ==
  ASSUME PagesInv, NEW t \in Tabs, NEW p \in {"save", "build"}, SendPut(t, p)
  PROVE  PagesInv'
<1> DEFINE n == Len(puts)
<1>1. /\ puts' \in Seq(Puts)
      /\ n \in Nat /\ Len(puts') = n + 1
      /\ puts'[n + 1] = SentPut(t, p)
      /\ \A j \in 1..n : puts'[j] = puts[j]
  BY SendAppends
<1>2. SentPut(t, p).tab = t
  BY DEF SentPut
<1>3. UNCHANGED <<deleted, row, plan, page, cache, edits, history, left>>
      /\ Open(t) /\ ~Awaited(t)
  BY DEF SendPut
<1>4. BuilderTypeOK'
  BY <1>1, <1>3 DEF PagesInv, BuilderTypeOK, Open
<1> HIDE DEF n
<1>5. \A j \in 1..n : puts[j].awaits \in OnPage => puts[j].tab # t
  BY <1>3 DEF Awaited, OnPage, n
<1>10. \A j \in 1..(n + 1) : j \in 1..n \/ j = n + 1
  BY <1>1
<1>6. \A j \in 1..(n + 1) :
        puts'[j].awaits \in OnPage => page'[puts'[j].tab].at = "open"
  BY <1>10, <1>1, <1>2, <1>3 DEF PagesInv, Awaiting, Open, n
<1>7. \A i, j \in 1..(n + 1) :
        /\ puts'[i].awaits \in OnPage
        /\ puts'[j].awaits \in OnPage
        /\ puts'[i].tab = puts'[j].tab
        => i = j
  BY <1>10, <1>1, <1>2, <1>5 DEF PagesInv, Awaiting, n
<1>8. Awaiting'
  BY <1>1, <1>6, <1>7 DEF Awaiting, Open
<1>9. QED
  BY <1>4, <1>8 DEF PagesInv

\* A request that the server decides.
LandedPut(p, a, v) == [p EXCEPT !.at = a, !.lock = v]

LEMMA LandedIsTyped ==
  ASSUME NEW p \in Puts, NEW a \in {"stored", "refused"}, NEW v \in Nat
  PROVE  LandedPut(p, a, v) \in Puts
BY DEF Puts, LandedPut

LEMMA LandedShows ==
  \A p \in Puts, a \in {"stored", "refused"}, v \in Nat :
    /\ LandedPut(p, a, v).tab = p.tab
    /\ LandedPut(p, a, v).awaits = p.awaits
    /\ LandedPut(p, a, v).at = a
    /\ LandedPut(p, a, v).lock = v
    /\ Content(LandedPut(p, a, v)) = Content(p)
BY DEF Puts, LandedPut, Content

LEMMA AtOnly ==
  ASSUME NEW p \in Puts, NEW a \in {"stored", "refused"}
  PROVE  [p EXCEPT !.at = a] = LandedPut(p, a, p.lock)
BY DEF Puts, LandedPut

\* One request is decided, the others stay as they are, and only a stored one
\* changes the row and its history.
LEMMA LandChanges ==
  ASSUME PagesInv, NEW k \in 1..Len(puts), Lands(k)
  PROVE  \E a \in {"stored", "refused"}, v \in Nat :
           /\ puts' \in Seq(Puts)
           /\ Len(puts') = Len(puts)
           /\ puts'[k] = LandedPut(puts[k], a, v)
           /\ \A j \in 1..Len(puts) : j # k => puts'[j] = puts[j]
           /\ \/ PutStored(k) /\ a = "stored" /\ v = row.lock + 1
              \/ PutUnchanged(k) /\ a = "stored" /\ v = row.lock
              \/ PutRefused(k) /\ a = "refused" /\ v = puts[k].lock
<1>1. puts \in Seq(Puts) /\ row.lock \in Nat
  BY DEF PagesInv, BuilderTypeOK
<1>2. puts[k] \in Puts /\ puts[k].lock \in Nat
  BY <1>1, PutIsTyped DEF Puts
<1>3. CASE PutStored(k)
  <2> DEFINE e == LandedPut(puts[k], "stored", row.lock + 1)
  <2>0. row.lock + 1 \in Nat
    BY <1>1
  <2>1. e \in Puts /\ row.lock + 1 \in Nat
    BY <1>2, <2>0, LandedIsTyped, Zenon
  <2>2. puts' = [puts EXCEPT ![k] = e]
    BY <1>3 DEF PutStored, LandedPut
  <2> HIDE DEF e
  <2>3. /\ puts' \in Seq(Puts)
        /\ Len(puts') = Len(puts)
        /\ puts'[k] = e
        /\ \A j \in 1..Len(puts) : j # k => puts'[j] = puts[j]
    BY <1>1, <2>1, <2>2, OnePutChanged
  <2>4. QED
    BY <1>3, <2>1, <2>3 DEF e
<1>4. CASE PutUnchanged(k)
  <2> DEFINE e == LandedPut(puts[k], "stored", puts[k].lock)
  <2>1. e \in Puts /\ puts[k].lock = row.lock
    BY <1>2, <1>4, LandedIsTyped DEF PutUnchanged, Repeats
  <2>2. puts' = [puts EXCEPT ![k] = e]
    BY <1>2, <1>4, AtOnly DEF PutUnchanged
  <2> HIDE DEF e
  <2>3. /\ puts' \in Seq(Puts)
        /\ Len(puts') = Len(puts)
        /\ puts'[k] = e
        /\ \A j \in 1..Len(puts) : j # k => puts'[j] = puts[j]
    BY <1>1, <2>1, <2>2, OnePutChanged
  <2>4. QED
    BY <1>1, <1>4, <2>1, <2>3 DEF e
<1>5. CASE PutRefused(k)
  <2> DEFINE e == LandedPut(puts[k], "refused", puts[k].lock)
  <2>1. e \in Puts
    BY <1>2, LandedIsTyped
  <2>2. puts' = [puts EXCEPT ![k] = e]
    BY <1>2, <1>5, AtOnly DEF PutRefused
  <2> HIDE DEF e
  <2>3. /\ puts' \in Seq(Puts)
        /\ Len(puts') = Len(puts)
        /\ puts'[k] = e
        /\ \A j \in 1..Len(puts) : j # k => puts'[j] = puts[j]
    BY <1>1, <2>1, <2>2, OnePutChanged
  <2>4. QED
    BY <1>2, <1>5, <2>3 DEF e
<1>6. QED
  BY <1>3, <1>4, <1>5 DEF Lands

LEMMA LandKeepsPages ==
  ASSUME PagesInv, NEW k \in 1..Len(puts), Lands(k)
  PROVE  PagesInv'
<1>0. /\ puts \in Seq(Puts) /\ history \in Seq(Puts)
      /\ row \in [lock : Nat, plan : Nat, work : Nat]
  BY DEF PagesInv, BuilderTypeOK
<1>1. PICK a \in {"stored", "refused"}, v \in Nat :
        /\ puts' \in Seq(Puts)
        /\ Len(puts') = Len(puts)
        /\ puts'[k] = LandedPut(puts[k], a, v)
        /\ \A j \in 1..Len(puts) : j # k => puts'[j] = puts[j]
  BY LandChanges
<1>2. puts[k] \in Puts
  BY <1>0, PutIsTyped
<1>3. puts'[k].tab = puts[k].tab /\ puts'[k].awaits = puts[k].awaits
  BY <1>1, <1>2, LandedShows
<1>4. \A j \in 1..Len(puts) :
        puts'[j].tab = puts[j].tab /\ puts'[j].awaits = puts[j].awaits
  BY <1>1, <1>3
<1>5. UNCHANGED <<deleted, plan, page, cache, edits, left>>
  BY DEF Lands, PutStored, PutUnchanged, PutRefused
<1>6. row' \in [lock : Nat, plan : Nat, work : Nat] /\ history' \in Seq(Puts)
  <2>1. CASE PutStored(k)
    <3>1. row' = [lock |-> row.lock + 1, plan |-> puts[k].plan,
                  work |-> puts[k].work]
          /\ history' = Append(history, puts[k])
      BY <2>1 DEF PutStored
    <3>2. puts[k].plan \in Nat /\ puts[k].work \in Nat
      BY <1>2 DEF Puts
    <3>3. row.lock + 1 \in Nat
      BY <1>0
    <3>4. row' \in [lock : Nat, plan : Nat, work : Nat]
      BY <3>1, <3>2, <3>3
    <3>5. history' \in Seq(Puts)
      BY <1>0, <1>2, <3>1, AppendProperties
    <3>6. QED
      BY <3>4, <3>5
  <2>2. CASE UNCHANGED <<row, history>>
    BY <1>0, <2>2
  <2>3. QED
    BY <2>1, <2>2 DEF Lands, PutUnchanged, PutRefused
<1>8. BuilderTypeOK'
  BY <1>1, <1>5, <1>6 DEF PagesInv, BuilderTypeOK, Open
<1>9. Awaiting'
  BY <1>1, <1>4, <1>5 DEF PagesInv, Awaiting, Open
<1>10. QED
  BY <1>8, <1>9 DEF PagesInv

LEMMA QuietKeepsPages ==
  ASSUME PagesInv, Quiet
  PROVE  PagesInv'
<1>1. CASE AgentAnswers
  BY <1>1 DEF AgentAnswers, PagesInv, BuilderTypeOK, Awaiting, Open
<1>2. CASE DeleteProduct
  BY <1>2 DEF DeleteProduct, PagesInv, BuilderTypeOK, Awaiting, Open
<1>3. CASE \E t \in Tabs : QuietTab(t)
  BY <1>3, LoadKeepsPages, EditKeepsPages, LeaveKeepsPages DEF QuietTab
<1>4. CASE \E k \in 1..Len(puts) : QuietPut(k)
  BY <1>4, QuietPutKeepsPages
<1>5. CASE UNCHANGED builderVars
  BY <1>5 DEF builderVars, PagesInv, BuilderTypeOK, Awaiting, Open
<1>6. QED
  BY <1>1, <1>2, <1>3, <1>4, <1>5 DEF Quiet

LEMMA StepKeepsPages == PagesInv /\ [BuilderNext]_builderVars => PagesInv'
BY NextCases, QuietKeepsPages, SendKeepsPages, LandKeepsPages DEF Sends

\* The rows, pages, caches and requests keep their types, for any number of
\* tabs, answers, edits and saves.
THEOREM BuilderTypes == BuilderSpec => []BuilderTypeOK
<1>1. PagesInv => BuilderTypeOK
  BY DEF PagesInv
<1>2. QED
  BY <1>1, InitPages, StepKeepsPages, PTL DEF BuilderSpec

-----------------------------------------------------------------------------
(* Lock versions *)

LEMMA QuietKeepsPuts ==
  ASSUME PagesInv, Quiet
  PROVE  SameButAwaits /\ UNCHANGED <<row, history>>
<1>1. puts \in Seq(Puts)
  BY DEF PagesInv, BuilderTypeOK
<1>2. CASE UNCHANGED puts /\ UNCHANGED <<row, history>>
  BY <1>1, <1>2 DEF SameButAwaits
<1>3. CASE \E t \in Tabs : Leave(t) \/ LeaveWithoutSaving(t) \/ Reload(t)
  BY <1>1, <1>3, UnmountedKeeps, ReloadKeeps
     DEF Leave, LeaveWithoutSaving, Reload
<1>4. CASE \E k \in 1..Len(puts) : QuietPut(k)
  <2>1. SameButAwaits
    BY <1>1, <1>4, QuietPutSettles, SettledKeeps
  <2>2. UNCHANGED <<row, history>>
    BY <1>4 DEF QuietPut, PutConfirmed, PutConfirmedLate, PutFails,
                CompileFails, CompilePasses
  <2>3. QED
    BY <2>1, <2>2
<1>5. QED
  BY <1>2, <1>3, <1>4
     DEF Quiet, QuietTab, AgentAnswers, DeleteProduct, LoadPlan, LoadDraft,
         LoadFails, Edit, builderVars

LEMMA InitRow == BuilderInit => RowInv
BY DEF BuilderInit, RowInv, NoRow

LEMMA QuietKeepsRow ==
  ASSUME PagesInv, RowInv, Quiet
  PROVE  RowInv'
<1>1. SameButAwaits /\ UNCHANGED <<row, history>>
  BY QuietKeepsPuts
<1>2. QED
  BY <1>1 DEF RowInv, SameButAwaits, Content

LEMMA SendKeepsRow ==
  ASSUME PagesInv, RowInv, NEW t \in Tabs, NEW p \in {"save", "build"},
         SendPut(t, p)
  PROVE  RowInv'
<1>1. /\ Len(puts) \in Nat /\ Len(puts') = Len(puts) + 1
      /\ puts'[Len(puts) + 1] = SentPut(t, p)
      /\ \A j \in 1..Len(puts) : puts'[j] = puts[j]
  BY SendAppends
<1>2. SentPut(t, p).at = "sent"
  BY DEF SentPut
<1>3. UNCHANGED <<row, history>>
  BY DEF SendPut
<1>4. \A j \in 1..(Len(puts) + 1) : j \in 1..Len(puts) \/ j = Len(puts) + 1
  BY <1>1
<1>5. QED
  BY <1>1, <1>2, <1>3, <1>4 DEF RowInv, Content

\* The history grows by the request that was stored.
LEMMA HistoryGrows ==
  ASSUME PagesInv, NEW k \in 1..Len(puts), PutStored(k)
  PROVE  /\ Len(history) \in Nat /\ Len(history') = Len(history) + 1
         /\ history'[Len(history) + 1] = puts[k]
         /\ \A v \in 1..Len(history) : history'[v] = history[v]
<1>1. puts[k] \in Puts /\ history \in Seq(Puts)
  BY PutIsTyped DEF PagesInv, BuilderTypeOK
<1>2. history' = Append(history, puts[k])
  BY DEF PutStored
<1>3. Len(history) \in Nat
  BY <1>1, LenProperties
<1>4. QED
  BY <1>1, <1>2, <1>3, AppendProperties

LEMMA LandKeepsRow ==
  ASSUME PagesInv, RowInv, NEW k \in 1..Len(puts), Lands(k)
  PROVE  RowInv'
<1>1. puts[k] \in Puts
  BY PutIsTyped DEF PagesInv, BuilderTypeOK
<1>2. PICK a \in {"stored", "refused"}, v \in Nat :
        /\ Len(puts') = Len(puts)
        /\ puts'[k] = LandedPut(puts[k], a, v)
        /\ \A j \in 1..Len(puts) : j # k => puts'[j] = puts[j]
        /\ \/ PutStored(k) /\ a = "stored" /\ v = row.lock + 1
           \/ PutUnchanged(k) /\ a = "stored" /\ v = row.lock
           \/ PutRefused(k) /\ a = "refused" /\ v = puts[k].lock
  BY LandChanges
<1>3. /\ puts'[k].at = a /\ puts'[k].lock = v
      /\ Content(puts'[k]) = Content(puts[k])
  BY <1>1, <1>2, LandedShows
<1>4. CASE PutStored(k)
  <2>1. /\ Len(history) \in Nat /\ Len(history') = Len(history) + 1
        /\ history'[Len(history) + 1] = puts[k]
        /\ \A w \in 1..Len(history) : history'[w] = history[w]
    BY <1>4, HistoryGrows
  <2>2. row'.lock = row.lock + 1 /\ Content(row') = Content(puts[k])
    BY <1>4 DEF PutStored, Content
  <2>3. a = "stored" /\ v = row.lock + 1
    BY <1>2, <1>4 DEF PutStored, PutUnchanged, PutRefused, Advances, Repeats
  <2>4. row'.lock = Len(history') /\ row'.lock # 0
        /\ Content(row') = Content(history'[row'.lock])
    BY <2>1, <2>2 DEF RowInv
  <2>5. ASSUME NEW j \in 1..Len(puts), puts'[j].at = "stored"
        PROVE  /\ puts'[j].lock \in 1..Len(history')
               /\ Content(puts'[j]) = Content(history'[puts'[j].lock])
    <3>1. CASE j = k
      BY <1>3, <2>1, <2>3, <3>1 DEF RowInv
    <3>2. CASE j # k
      BY <1>2, <2>1, <2>5, <3>2 DEF RowInv
    <3>3. QED
      BY <3>1, <3>2
  <2>6. QED
    BY <1>2, <2>4, <2>5 DEF RowInv, Content
<1>5. CASE PutUnchanged(k) /\ a = "stored" /\ v = row.lock
  <2>1. UNCHANGED <<row, history>> /\ row.lock # 0
        /\ Content(puts[k]) = Content(row)
    BY <1>5 DEF PutUnchanged, Repeats
  <2>2. row.lock \in Nat
    BY DEF PagesInv, BuilderTypeOK
  <2>3. row.lock \in 1..Len(history)
    BY <2>1, <2>2 DEF RowInv
  <2>4. QED
    BY <1>2, <1>3, <1>5, <2>1, <2>3 DEF RowInv, Content
<1>6. CASE PutRefused(k) /\ a = "refused"
  <2>1. UNCHANGED <<row, history>>
    BY <1>6 DEF PutRefused
  <2>2. QED
    BY <1>2, <1>3, <1>6, <2>1 DEF RowInv, Content
<1>7. QED
  BY <1>2, <1>4, <1>5, <1>6

LEMMA StepKeepsRow ==
  PagesInv /\ RowInv /\ [BuilderNext]_builderVars => RowInv'
BY NextCases, QuietKeepsRow, SendKeepsRow, LandKeepsRow DEF Sends

\* A lock version names one draft: an owner who names the version a tab was
\* answered with means the content that tab stored.
THEOREM LockVersionNamesDraft == BuilderSpec => []OneDraftPerETag
<1>1. PagesInv /\ RowInv => OneDraftPerETag
  BY DEF RowInv, OneDraftPerETag
<1>2. QED
  BY <1>1, InitPages, InitRow, StepKeepsPages, StepKeepsRow, PTL DEF BuilderSpec

-----------------------------------------------------------------------------
(* Tabs without session storage *)

LEMMA InitFresh == BuilderInit => FreshInv
BY DEF BuilderInit, FreshInv, Open, NoPage

\* The draft and the lock version come from one read of the row, or from one
\* answer.
LEMMA QuietKeepsFreshPages ==
  ASSUME PagesInv, FreshInv, Quiet, NEW u \in Tabs \ Storing, Open(u)'
  PROVE  page'[u].base = page'[u].lock
<1>1. page \in [Tabs -> Pages]
  BY DEF PagesInv, BuilderTypeOK
<1>2. CASE page' = page
  BY <1>2 DEF FreshInv, Open
<1>3. CASE \E t \in Tabs : LoadPlan(t) \/ LoadFails(t) \/ Leave(t)
                           \/ LeaveWithoutSaving(t) \/ Reload(t)
  <2>1. PICK t \in Tabs : LoadPlan(t) \/ LoadFails(t) \/ Leave(t)
                          \/ LeaveWithoutSaving(t) \/ Reload(t)
    BY <1>3
  <2>2. page'[t].at # "open"
    <3>1. CASE LoadPlan(t)
      BY <1>1, <3>1 DEF LoadPlan, NoPage
    <3>2. CASE LoadFails(t)
      BY <1>1, <3>2 DEF LoadFails, NoPage
    <3>3. CASE Leave(t) \/ LeaveWithoutSaving(t) \/ Reload(t)
      BY <1>1, <3>3 DEF Leave, LeaveWithoutSaving, Reload, NoPage
    <3>4. QED
      BY <2>1, <3>1, <3>2, <3>3
  <2>3. u # t
    BY <2>2 DEF Open
  <2>4. page'[u] = page[u]
    BY <1>1, <2>1, <2>3 DEF LoadPlan, LoadFails, Leave, LeaveWithoutSaving,
                            Reload
  <2>5. QED
    BY <2>4 DEF FreshInv, Open
<1>4. CASE \E t \in Tabs : LoadDraft(t)
  BY <1>1, <1>4 DEF LoadDraft, LoadedSketch, FreshInv, Open
<1>5. CASE \E t \in Tabs : Edit(t)
  BY <1>1, <1>5 DEF Edit, Pages, FreshInv, Open
<1>6. CASE \E k \in 1..Len(puts) : PutConfirmed(k)
  BY <1>1, <1>6 DEF PutConfirmed, Pages, FreshInv, Open
<1>7. CASE \E k \in 1..Len(puts) : CompilePasses(k)
  BY <1>1, <1>7 DEF CompilePasses, NoPage, FreshInv, Open
<1>8. QED
  BY <1>2, <1>3, <1>4, <1>5, <1>6, <1>7
     DEF Quiet, QuietTab, QuietPut, AgentAnswers, DeleteProduct, PutFails,
         PutConfirmedLate, CompileFails, builderVars

LEMMA QuietKeepsFresh ==
  ASSUME PagesInv, FreshInv, Quiet
  PROVE  FreshInv'
<1>1. SameButAwaits /\ UNCHANGED <<row, history>>
  BY QuietKeepsPuts
<1>2. \A u \in Tabs \ Storing : page'[u].at = "open"
        => page'[u].base = page'[u].lock
  BY QuietKeepsFreshPages DEF Open
<1>3. QED
  BY <1>1, <1>2 DEF FreshInv, SameButAwaits, Open

LEMMA SendKeepsFresh ==
  ASSUME PagesInv, FreshInv, NEW t \in Tabs, NEW p \in {"save", "build"},
         SendPut(t, p)
  PROVE  FreshInv'
<1>1. /\ Len(puts) \in Nat /\ Len(puts') = Len(puts) + 1
      /\ puts'[Len(puts) + 1] = SentPut(t, p)
      /\ \A j \in 1..Len(puts) : puts'[j] = puts[j]
  BY SendAppends
<1>2. /\ SentPut(t, p).tab = t
      /\ SentPut(t, p).base = page[t].base
      /\ SentPut(t, p).lock = page[t].lock
  BY DEF SentPut
<1>3. UNCHANGED <<page, history>> /\ Open(t)
  BY DEF SendPut
<1>4. \A j \in 1..(Len(puts) + 1) : j \in 1..Len(puts) \/ j = Len(puts) + 1
  BY <1>1
<1>5. t \notin Storing => SentPut(t, p).base = SentPut(t, p).lock
  BY <1>2, <1>3 DEF FreshInv
<1>6. QED
  BY <1>1, <1>2, <1>3, <1>4, <1>5 DEF FreshInv, Open

\* The version a request produces is the one after the version it named.
LEMMA StoredFollows ==
  ASSUME PagesInv, RowInv, FreshInv, NEW k \in 1..Len(puts), PutStored(k),
         NEW v \in 1..Len(history'), history'[v].tab \notin Storing
  PROVE  history'[v].base = v - 1
<1>1. /\ Len(history) \in Nat /\ Len(history') = Len(history) + 1
      /\ history'[Len(history) + 1] = puts[k]
      /\ \A w \in 1..Len(history) : history'[w] = history[w]
  BY HistoryGrows
<1>2. CASE v \in 1..Len(history)
  BY <1>1, <1>2 DEF FreshInv
<1>3. CASE v = Len(history) + 1
  <2>1. puts[k].at = "sent" /\ puts[k].lock = Len(history)
    BY DEF PutStored, Advances, RowInv
  <2>2. puts[k].tab \notin Storing
    BY <1>1, <1>3
  <2>3. puts[k].base = Len(history)
    BY <2>1, <2>2 DEF FreshInv
  <2>4. QED
    BY <1>1, <1>3, <2>3
<1>4. QED
  BY <1>1, <1>2, <1>3

LEMMA LandKeepsFresh ==
  ASSUME PagesInv, RowInv, FreshInv, NEW k \in 1..Len(puts), Lands(k)
  PROVE  FreshInv'
<1>1. puts[k] \in Puts
  BY PutIsTyped DEF PagesInv, BuilderTypeOK
<1>2. PICK a \in {"stored", "refused"}, v \in Nat :
        /\ Len(puts') = Len(puts)
        /\ puts'[k] = LandedPut(puts[k], a, v)
        /\ \A j \in 1..Len(puts) : j # k => puts'[j] = puts[j]
  BY LandChanges
<1>3. puts'[k].at # "sent"
  BY <1>1, <1>2, LandedShows
<1>4. \A j \in 1..Len(puts') :
        puts'[j].tab \notin Storing /\ puts'[j].at = "sent"
        => puts'[j].base = puts'[j].lock
  BY <1>2, <1>3 DEF FreshInv
<1>5. UNCHANGED page
  BY DEF Lands, PutStored, PutUnchanged, PutRefused
<1>6. \A w \in 1..Len(history') :
        history'[w].tab \notin Storing => history'[w].base = w - 1
  <2>1. CASE PutStored(k)
    BY <2>1, StoredFollows
  <2>2. CASE UNCHANGED history
    BY <2>2 DEF FreshInv
  <2>3. QED
    BY <2>1, <2>2 DEF Lands, PutUnchanged, PutRefused
<1>7. QED
  BY <1>4, <1>5, <1>6 DEF FreshInv, Open

LEMMA StepKeepsFresh ==
  PagesInv /\ RowInv /\ FreshInv /\ [BuilderNext]_builderVars => FreshInv'
BY NextCases, QuietKeepsFresh, SendKeepsFresh, LandKeepsFresh DEF Sends

\* A tab without session storage never replaces a draft it has not loaded,
\* however its loads and saves race the other tabs' and however late they land.
THEOREM FreshTabs == BuilderSpec => []FreshTabsOverwriteNothing
<1>1. FreshInv => FreshTabsOverwriteNothing
  BY DEF FreshInv, FreshTabsOverwriteNothing, FollowsItsBase
<1>2. QED
  BY <1>1, InitPages, InitRow, InitFresh, StepKeepsPages, StepKeepsRow,
     StepKeepsFresh, PTL DEF BuilderSpec
-----------------------------------------------------------------------------
(* Drawings that were left *)

\* A drawing is known to the database; a tab has it on its canvas or stored.
Stored(w) == \E v \in 1..Len(history) : history[v].work = w
Has(t, w) == (Open(t) /\ page[t].work = w) \/ cache[t].work = w

\* Drawings are numbered in the order they are made, and what is unsaved was
\* drawn and not projected.
Numbered ==
  /\ row.work <= edits
  /\ \A t \in Tabs : page[t].work <= edits /\ cache[t].work <= edits
  /\ \A k \in 1..Len(puts) : puts[k].work <= edits
  /\ \A t \in Tabs : page[t].dirty => page[t].work # 0
  /\ \A w \in left : w \in 1..edits

\* A drawing that was never stored is known to the tab that made it only, and
\* not even to that one when it was left.
Private ==
  /\ \A w \in 1..edits : \A t, u \in Tabs :
       Has(t, w) /\ Has(u, w) => t = u \/ Stored(w)
  /\ \A w \in left : \A t \in Tabs : Has(t, w) => Stored(w)

LeftInv == Numbered /\ Private

\* At the start nothing is drawn.
LEMMA InitLeft == BuilderInit => LeftInv
<1> SUFFICES ASSUME BuilderInit PROVE LeftInv
  OBVIOUS
<1>1. /\ row.work = 0 /\ edits = 0 /\ left = {}
      /\ \A t \in Tabs : page[t].work = 0 /\ ~page[t].dirty /\ cache[t].work = 0
  BY DEF BuilderInit, NoRow, NoPage, NoSketch
<1>2. Len(puts) = 0
  BY DEF BuilderInit
<1>3. Numbered
  BY <1>1, <1>2 DEF Numbered
<1>4. Private
  BY <1>1 DEF Private
<1>5. QED
  BY <1>3, <1>4 DEF LeftInv

\* The numbers of drawings are numbers.
LEMMA WorksAreNumbers ==
  ASSUME PagesInv
  PROVE  /\ edits \in Nat /\ row.work \in Nat
         /\ \A t \in Tabs : page[t].work \in Nat /\ cache[t].work \in Nat
         /\ \A k \in 1..Len(puts) : puts[k].work \in Nat
<1>1. \A t \in Tabs : page[t] \in Pages /\ cache[t] \in Sketches
  BY DEF PagesInv, BuilderTypeOK
<1>2. \A k \in 1..Len(puts) : puts[k] \in Puts
  BY PutIsTyped DEF PagesInv, BuilderTypeOK
<1>3. QED
  BY <1>1, <1>2 DEF PagesInv, BuilderTypeOK, Pages, Sketches, Puts

\* What the row holds was stored, and what a stored request carries.
LEMMA RowIsStored ==
  ASSUME PagesInv, RowInv, row.work # 0
  PROVE  Stored(row.work)
<1>1. row.lock # 0 /\ row.lock \in Nat
  BY DEF RowInv, NoRow, PagesInv, BuilderTypeOK
<1>2. row.lock \in 1..Len(history) /\ Content(row) = Content(history[row.lock])
  BY <1>1 DEF RowInv
<1>3. history[row.lock].work = row.work
  BY <1>2 DEF Content
<1>4. QED
  BY <1>2, <1>3 DEF Stored

\* The answer to a stored request names a drawing that was stored.
LEMMA AnswerIsStored ==
  ASSUME RowInv, NEW k \in 1..Len(puts), puts[k].at = "stored"
  PROVE  Stored(puts[k].work)
<1>1. /\ puts[k].lock \in 1..Len(history)
      /\ Content(puts[k]) = Content(history[puts[k].lock])
  BY DEF RowInv
<1>2. history[puts[k].lock].work = puts[k].work
  BY <1>1 DEF Content
<1>3. QED
  BY <1>1, <1>2 DEF Stored

\* A step of one tab keeps the invariant if that tab gets no drawing but those
\* it had and those that were stored.
LEMMA OneTabGoes ==
  ASSUME LeftInv, NEW t \in Tabs, SameButAwaits,
         UNCHANGED <<edits, row, history, left>>,
         \A u \in Tabs : u # t => page'[u] = page[u] /\ cache'[u] = cache[u],
         page'[t].work <= edits, cache'[t].work <= edits,
         page'[t].dirty => page'[t].work # 0,
         \A w \in 1..edits : Has(t, w)' => Has(t, w) \/ Stored(w)
  PROVE  LeftInv'
<1>1. Numbered'
  BY DEF LeftInv, Numbered, SameButAwaits
<1>2. \A w : Stored(w)' <=> Stored(w)
  BY DEF Stored
<1>3. \A u \in Tabs : u # t => \A w : Has(u, w)' <=> Has(u, w)
  BY DEF Has, Open
<1>4. \A w \in 1..edits : \A u \in Tabs : Has(u, w)' => Has(u, w) \/ Stored(w)
  BY <1>3
<1>5. \A w \in left : w \in 1..edits
  BY DEF LeftInv, Numbered
<1>6. Private'
  BY <1>2, <1>4, <1>5 DEF LeftInv, Private
<1>7. QED
  BY <1>1, <1>6 DEF LeftInv

\* So does a step that touches no canvas, no storage and no request.
LEMMA NoTabGoes ==
  ASSUME LeftInv, SameButAwaits, UNCHANGED <<edits, row, history, left, page, cache>>
  PROVE  LeftInv'
<1>1. Numbered'
  BY DEF LeftInv, Numbered, SameButAwaits
<1>2. \A w : Stored(w)' <=> Stored(w)
  BY DEF Stored
<1>3. \A u \in Tabs : \A w : Has(u, w)' <=> Has(u, w)
  BY DEF Has, Open
<1>4. Private'
  BY <1>2, <1>3 DEF LeftInv, Private
<1>5. QED
  BY <1>1, <1>4 DEF LeftInv

\* A page goes, or none has come yet.
LEMMA GoneKeepsLeft ==
  ASSUME PagesInv, LeftInv, NEW t \in Tabs, SameButAwaits,
         UNCHANGED <<edits, row, history, left, cache>>,
         NEW e, page' = [page EXCEPT ![t] = e], e.at # "open", e.work = 0, ~e.dirty
  PROVE  LeftInv'
<1>1. page'[t] = e /\ \A u \in Tabs : u # t => page'[u] = page[u]
  BY DEF PagesInv, BuilderTypeOK
<1>2. edits \in Nat
  BY WorksAreNumbers
<1>3. page'[t].work <= edits /\ cache'[t].work <= edits
  BY <1>1, <1>2 DEF LeftInv, Numbered
<1>4. \A w : Has(t, w)' => Has(t, w)
  BY <1>1 DEF Has, Open
<1>5. QED
  BY <1>1, <1>3, <1>4, OneTabGoes

\* A page shows what its tab or the database had.
LEMMA LoadKeepsLeft ==
  ASSUME PagesInv, RowInv, LeftInv, NEW t \in Tabs, LoadDraft(t)
  PROVE  LeftInv'
<1>1. page'[t].work = LoadedSketch(t).work /\ ~page'[t].dirty
      /\ \A u \in Tabs : u # t => page'[u] = page[u]
  BY DEF LoadDraft, PagesInv, BuilderTypeOK
<1>2. UNCHANGED <<edits, row, history, left, cache, puts>>
  BY DEF LoadDraft
<1>3. SameButAwaits
  BY <1>2 DEF SameButAwaits, PagesInv, BuilderTypeOK
<1>4. LoadedSketch(t).work \in {cache[t].work, row.work, 0}
  BY DEF LoadedSketch
<1>5. page'[t].work <= edits /\ cache'[t].work <= edits
  BY <1>1, <1>2, <1>4, WorksAreNumbers DEF LeftInv, Numbered
<1>6. \A w \in 1..edits : Has(t, w)' => Has(t, w) \/ Stored(w)
  <2>1. SUFFICES ASSUME NEW w \in 1..edits, Has(t, w)' PROVE Has(t, w) \/ Stored(w)
    OBVIOUS
  <2>2. w # 0
    BY WorksAreNumbers
  <2>3. w \in {cache[t].work, row.work}
    BY <1>1, <1>2, <1>4, <2>1, <2>2 DEF Has
  <2>4. QED
    BY <2>2, <2>3, RowIsStored DEF Has
<1>7. QED
  BY <1>1, <1>2, <1>3, <1>5, <1>6, OneTabGoes

\* The storage of one tab gets a draft, or swallows it.
LEMMA CachedFacts ==
  ASSUME PagesInv, NEW t \in Tabs, NEW d, cache' = Cached(t, d)
  PROVE  /\ \A u \in Tabs : u # t => cache'[u] = cache[u]
         /\ cache'[t].work \in {cache[t].work, d.work}
<1>1. cache \in [Tabs -> Sketches]
  BY DEF PagesInv, BuilderTypeOK
<1>2. CASE t \in Storing
  BY <1>1, <1>2 DEF Cached, Sketch
<1>3. CASE t \notin Storing
  BY <1>3 DEF Cached
<1>4. QED
  BY <1>2, <1>3

\* An answer brings a tab what it asked to store, and that was stored.
LEMMA ConfirmedKeepsLeft ==
  ASSUME PagesInv, RowInv, LeftInv, NEW k \in 1..Len(puts), SameButAwaits,
         PutConfirmed(k) \/ PutConfirmedLate(k)
  PROVE  LeftInv'
<1> DEFINE d == [puts[k] EXCEPT !.base = puts[k].lock]
<1>0. PICK t \in Tabs : t = puts[k].tab
  BY PutIsTyped DEF PagesInv, BuilderTypeOK
<1>1. puts[k] \in Puts
  BY PutIsTyped DEF PagesInv, BuilderTypeOK
<1>2. cache' = Cached(t, d) /\ d.work = puts[k].work /\ puts[k].at = "stored"
  BY <1>0, <1>1 DEF PutConfirmed, PutConfirmedLate, Puts
<1> HIDE DEF d
<1>3. UNCHANGED <<edits, row, history, left>>
  BY DEF PutConfirmed, PutConfirmedLate
<1>4. /\ \A u \in Tabs : u # t => page'[u] = page[u]
      /\ page'[t].work = page[t].work /\ page'[t].at = page[t].at
      /\ page'[t].dirty => page[t].dirty
  <2>1. CASE PutConfirmed(k)
    <3>1. page' = [page EXCEPT ![t] =
            [page[t] EXCEPT !.lock = puts[k].lock, !.base = puts[k].lock, !.dirty = FALSE]]
      BY <1>0, <2>1 DEF PutConfirmed
    <3>2. page[t] \in Pages
      BY <1>1 DEF PagesInv, BuilderTypeOK
    <3>3. QED
      BY <1>1, <3>1, <3>2 DEF PagesInv, BuilderTypeOK, Pages
  <2>2. CASE PutConfirmedLate(k)
    BY <2>2 DEF PutConfirmedLate
  <2>3. QED
    BY <2>1, <2>2
<1>5. /\ \A u \in Tabs : u # t => cache'[u] = cache[u]
      /\ cache'[t].work \in {cache[t].work, puts[k].work}
  BY <1>1, <1>2, CachedFacts
<1>6. page'[t].work <= edits /\ cache'[t].work <= edits
  BY <1>1, <1>4, <1>5 DEF LeftInv, Numbered
<1>7. page'[t].dirty => page'[t].work # 0
  BY <1>1, <1>4 DEF LeftInv, Numbered
<1>8. Stored(puts[k].work)
  BY <1>2, AnswerIsStored
<1>9. \A w \in 1..edits : Has(t, w)' => Has(t, w) \/ Stored(w)
  BY <1>4, <1>5, <1>8 DEF Has, Open
<1>10. QED
  BY <1>1, <1>3, <1>4, <1>5, <1>6, <1>7, <1>9, OneTabGoes

\* A new drawing is one nobody has.
LEMMA EditKeepsLeft ==
  ASSUME PagesInv, LeftInv, NEW t \in Tabs, Edit(t)
  PROVE  LeftInv'
<1>1. /\ edits \in Nat /\ edits' = edits + 1
      /\ \A u \in Tabs : page[u].work \in Nat /\ cache[u].work \in Nat
  BY WorksAreNumbers DEF Edit
<1>2. UNCHANGED <<row, puts, history, left>>
  BY DEF Edit
<1>3. /\ page'[t].work = edits + 1
      /\ \A u \in Tabs : u # t => page'[u] = page[u]
  <2>1. page' = [page EXCEPT ![t] = [page[t] EXCEPT !.work = edits + 1, !.dirty = TRUE]]
    BY DEF Edit
  <2>2. QED
    BY <2>1 DEF PagesInv, BuilderTypeOK, Pages
<1>4. /\ \A u \in Tabs : u # t => cache'[u] = cache[u]
      /\ cache'[t].work \in {cache[t].work, edits + 1}
  <2>1. cache' = Cached(t, page'[t])
    BY DEF Edit
  <2>2. /\ \A u \in Tabs : u # t => cache'[u] = cache[u]
        /\ cache'[t].work \in {cache[t].work, page'[t].work}
    BY <2>1, CachedFacts
  <2>3. QED
    BY <1>3, <2>2
<1>5. Numbered'
  <2>1. \A w \in left : w \in 1..(edits + 1)
    BY <1>1 DEF LeftInv, Numbered
  <2>2. \A k \in 1..Len(puts) : puts[k].work <= edits + 1
    BY <1>1, WorksAreNumbers DEF LeftInv, Numbered
  <2>3. row.work <= edits + 1
    BY <1>1, WorksAreNumbers DEF LeftInv, Numbered
  <2>4. \A u \in Tabs : page'[u].work <= edits + 1 /\ cache'[u].work <= edits + 1
    BY <1>1, <1>3, <1>4 DEF LeftInv, Numbered
  <2>5. \A u \in Tabs : page'[u].dirty => page'[u].work # 0
    BY <1>1, <1>3 DEF LeftInv, Numbered
  <2>6. QED
    BY <1>1, <1>2, <2>1, <2>2, <2>3, <2>4, <2>5 DEF Numbered
<1>6. \A w : Stored(w)' <=> Stored(w)
  BY <1>2 DEF Stored
<1>7. PICK new \in Nat : new = edits + 1
  BY <1>1
<1>8. \A u \in Tabs : ~Has(u, new)
  BY <1>1, <1>7 DEF LeftInv, Numbered, Has
<1>9. \A w \in 1..edits : \A u \in Tabs : Has(u, w)' => Has(u, w)
  <2>1. SUFFICES ASSUME NEW w \in 1..edits, NEW u \in Tabs, Has(u, w)' PROVE Has(u, w)
    OBVIOUS
  <2>2. w # edits + 1
    BY <1>1
  <2>3. CASE u = t
    BY <1>3, <1>4, <2>1, <2>2, <2>3 DEF Has
  <2>4. CASE u # t
    BY <1>3, <1>4, <2>1, <2>4 DEF Has, Open
  <2>5. QED
    BY <2>3, <2>4
<1>10. \A u \in Tabs : Has(u, new)' => u = t
  <2>1. SUFFICES ASSUME NEW u \in Tabs, u # t, Has(u, new)' PROVE FALSE
    OBVIOUS
  <2>2. Has(u, new)
    BY <1>3, <1>4, <2>1 DEF Has, Open
  <2>3. QED
    BY <1>8, <2>2
<1>11. \A w \in 1..new : w \in 1..edits \/ w = new
  BY <1>1, <1>7
<1>12. Private'
  <2>1. \A w \in 1..new : \A x, u \in Tabs :
          Has(x, w)' /\ Has(u, w)' => x = u \/ Stored(w)'
    BY <1>6, <1>9, <1>10, <1>11 DEF LeftInv, Private
  <2>2. \A w \in left : \A u \in Tabs : Has(u, w)' => Stored(w)'
    BY <1>6, <1>9 DEF LeftInv, Numbered, Private
  <2>3. QED
    BY <1>1, <1>2, <1>7, <2>1, <2>2 DEF Private
<1>13. QED
  BY <1>5, <1>12 DEF LeftInv

\* The tab that is left had the only copy, on its canvas and in its storage.
LEMMA LeaveKeepsLeft ==
  ASSUME PagesInv, LeftInv, NEW t \in Tabs, LeaveWithoutSaving(t), SameButAwaits
  PROVE  LeftInv'
<1>0. PICK mine \in 1..edits : mine = page[t].work
  <2>1. /\ page[t].work \in Nat /\ edits \in Nat
        /\ page[t].work <= edits /\ page[t].work # 0
    BY WorksAreNumbers DEF LeftInv, Numbered, LeaveWithoutSaving
  <2>2. QED
    BY <2>1
<1>1. edits \in Nat /\ Open(t)
  BY WorksAreNumbers DEF LeaveWithoutSaving, PagesInv, BuilderTypeOK
<1>2. /\ UNCHANGED <<row, edits, history>> /\ left' = left \union {mine}
      /\ page'[t] = NoPage /\ \A u \in Tabs : u # t => page'[u] = page[u]
      /\ cache'[t] = NoSketch /\ \A u \in Tabs : u # t => cache'[u] = cache[u]
  BY <1>0 DEF LeaveWithoutSaving, PagesInv, BuilderTypeOK
<1>3. Numbered'
  BY <1>0, <1>1, <1>2 DEF LeftInv, Numbered, SameButAwaits, NoPage, NoSketch
<1>4. \A w : Stored(w)' <=> Stored(w)
  BY <1>2 DEF Stored
<1>5. \A w \in 1..edits : ~Has(t, w)'
  BY <1>1, <1>2 DEF Has, Open, NoPage, NoSketch
<1>6. \A u \in Tabs : u # t => \A w : Has(u, w)' <=> Has(u, w)
  BY <1>2 DEF Has, Open
<1>7. \A u \in Tabs : Has(u, mine)' => Stored(mine)
  <2>1. Has(t, mine)
    BY <1>0, <1>1 DEF Has
  <2>2. QED
    BY <1>0, <1>5, <1>6, <2>1 DEF LeftInv, Private
<1>8. \A w \in 1..edits : \A u \in Tabs : Has(u, w)' => Has(u, w)
  BY <1>5, <1>6
<1>9. \A w \in left : w \in 1..edits
  BY DEF LeftInv, Numbered
<1>10. Private'
  <2>1. \A w \in 1..edits : \A x, u \in Tabs : Has(x, w)' /\ Has(u, w)' => x = u \/ Stored(w)'
    BY <1>4, <1>8 DEF LeftInv, Private
  <2>2. \A w \in left' : \A u \in Tabs : Has(u, w)' => Stored(w)'
    BY <1>2, <1>4, <1>7, <1>8, <1>9 DEF LeftInv, Private
  <2>3. QED
    BY <1>2, <2>1, <2>2 DEF Private
<1>11. QED
  BY <1>3, <1>10 DEF LeftInv

\* No step of the first group brings back a drawing that was left.
LEMMA QuietKeepsLeft ==
  ASSUME PagesInv, RowInv, LeftInv, Quiet
  PROVE  LeftInv'
<1>1. SameButAwaits /\ UNCHANGED <<row, history>>
  BY QuietKeepsPuts
<1>2. NoPage.at # "open" /\ NoPage.work = 0 /\ ~NoPage.dirty
  BY DEF NoPage
<1>3. CASE \E t \in Tabs : LoadPlan(t) \/ LoadFails(t)
  <2>1. PICK t \in Tabs : LoadPlan(t) \/ LoadFails(t)
    BY <1>3
  <2>2. \E e : /\ page' = [page EXCEPT ![t] = e]
               /\ e.at # "open" /\ e.work = 0 /\ ~e.dirty
    <3>1. CASE LoadPlan(t)
      <4> DEFINE e == [NoPage EXCEPT !.at = "reading", !.plan = plan]
      <4>1. e.at # "open" /\ e.work = 0 /\ ~e.dirty
        BY DEF NoPage
      <4>2. page' = [page EXCEPT ![t] = e]
        BY <3>1 DEF LoadPlan
      <4>3. QED
        BY <4>1, <4>2
    <3>2. CASE LoadFails(t)
      <4> DEFINE e == [NoPage EXCEPT !.at = "failed"]
      <4>1. e.at # "open" /\ e.work = 0 /\ ~e.dirty
        BY DEF NoPage
      <4>2. page' = [page EXCEPT ![t] = e]
        BY <3>2 DEF LoadFails
      <4>3. QED
        BY <4>1, <4>2
    <3>3. QED
      BY <2>1, <3>1, <3>2
  <2>3. UNCHANGED <<edits, row, history, left, cache>>
    BY <2>1 DEF LoadPlan, LoadFails
  <2>4. QED
    BY <1>1, <2>2, <2>3, GoneKeepsLeft
<1>4. CASE \E t \in Tabs : Leave(t) \/ Reload(t)
  <2>1. PICK t \in Tabs : /\ page' = [page EXCEPT ![t] = NoPage]
                          /\ UNCHANGED <<edits, row, history, left, cache>>
    BY <1>4 DEF Leave, Reload
  <2>2. QED
    BY <1>1, <1>2, <2>1, GoneKeepsLeft
<1>5. CASE \E k \in 1..Len(puts) : CompilePasses(k)
  <2>1. PICK k \in 1..Len(puts) : /\ page' = [page EXCEPT ![puts[k].tab] = NoPage]
                                  /\ UNCHANGED <<edits, row, history, left, cache>>
    BY <1>5 DEF CompilePasses
  <2>2. puts[k].tab \in Tabs
    BY PutIsTyped DEF PagesInv, BuilderTypeOK
  <2>3. QED
    BY <1>1, <1>2, <2>1, <2>2, GoneKeepsLeft
<1>6. CASE \E t \in Tabs : LoadDraft(t) \/ Edit(t) \/ LeaveWithoutSaving(t)
  BY <1>1, <1>6, LoadKeepsLeft, EditKeepsLeft, LeaveKeepsLeft
<1>7. CASE \E k \in 1..Len(puts) : PutConfirmed(k) \/ PutConfirmedLate(k)
  BY <1>1, <1>7, ConfirmedKeepsLeft
<1>8. CASE UNCHANGED <<edits, left, page, cache>>
  BY <1>1, <1>8, NoTabGoes
<1>9. QED
  BY <1>3, <1>4, <1>5, <1>6, <1>7, <1>8
     DEF Quiet, QuietTab, QuietPut, AgentAnswers, DeleteProduct, PutFails, CompileFails,
         builderVars

\* A request carries a drawing its own tab has.
LEMMA SendKeepsLeft ==
  ASSUME PagesInv, LeftInv, NEW t \in Tabs, NEW p \in {"save", "build"}, SendPut(t, p)
  PROVE  LeftInv'
<1>1. /\ Len(puts) \in Nat /\ Len(puts') = Len(puts) + 1
      /\ puts'[Len(puts) + 1] = SentPut(t, p)
      /\ \A j \in 1..Len(puts) : puts'[j] = puts[j]
  BY SendAppends
<1>2. SentPut(t, p).work = page[t].work
  BY DEF SentPut
<1>3. UNCHANGED <<row, page, cache, edits, history, left>>
  BY DEF SendPut
<1>4. \A j \in 1..(Len(puts) + 1) : j \in 1..Len(puts) \/ j = Len(puts) + 1
  BY <1>1
<1>5. Numbered'
  BY <1>1, <1>2, <1>3, <1>4 DEF LeftInv, Numbered
<1>6. Private'
  BY <1>3 DEF LeftInv, Private, Has, Open, Stored
<1>7. QED
  BY <1>5, <1>6 DEF LeftInv

\* A request that is decided stores what it carried, and nothing else.
LEMMA LandKeepsLeft ==
  ASSUME PagesInv, LeftInv, NEW k \in 1..Len(puts), Lands(k)
  PROVE  LeftInv'
<1>1. puts[k] \in Puts
  BY PutIsTyped DEF PagesInv, BuilderTypeOK
<1>2. PICK a \in {"stored", "refused"}, v \in Nat :
        /\ Len(puts') = Len(puts)
        /\ puts'[k] = LandedPut(puts[k], a, v)
        /\ \A j \in 1..Len(puts) : j # k => puts'[j] = puts[j]
  BY LandChanges
<1>3. puts'[k].work = puts[k].work
  BY <1>1, <1>2, LandedShows DEF Content
<1>4. UNCHANGED <<page, cache, edits, left>>
  BY DEF Lands, PutStored, PutUnchanged, PutRefused
<1>5. row'.work \in {row.work, puts[k].work}
  BY DEF Lands, PutStored, PutUnchanged, PutRefused
<1>6. Numbered'
  BY <1>2, <1>3, <1>4, <1>5 DEF LeftInv, Numbered
<1>7. \A w : Stored(w) => Stored(w)'
  <2>1. CASE PutStored(k)
    <3>1. /\ Len(history) \in Nat /\ Len(history') = Len(history) + 1
          /\ \A v_1 \in 1..Len(history) : history'[v_1] = history[v_1]
      BY <2>1, HistoryGrows
    <3>2. QED
      BY <3>1 DEF Stored
  <2>2. CASE UNCHANGED history
    BY <2>2 DEF Stored
  <2>3. QED
    BY <2>1, <2>2 DEF Lands, PutUnchanged, PutRefused
<1>8. \A t \in Tabs : \A w : Has(t, w)' <=> Has(t, w)
  BY <1>4 DEF Has, Open
<1>9. Private'
  BY <1>4, <1>7, <1>8 DEF LeftInv, Private
<1>10. QED
  BY <1>6, <1>9 DEF LeftInv

\* So every step keeps the drawings private or stored.
LEMMA StepKeepsLeft ==
  PagesInv /\ RowInv /\ LeftInv /\ [BuilderNext]_builderVars => LeftInv'
BY NextCases, QuietKeepsLeft, SendKeepsLeft, LandKeepsLeft DEF Sends

\* A drawing left unsaved stays away from every canvas, unless a save of it
\* that was under way is stored.
THEOREM LeftStaysAway == BuilderSpec => []LeftDrawingsStayAway
<1>1. LeftInv => LeftDrawingsStayAway
  BY DEF LeftInv, Private, LeftDrawingsStayAway, Has, Stored
<1>2. QED
  BY <1>1, InitPages, InitRow, InitLeft, StepKeepsPages, StepKeepsRow,
     StepKeepsLeft, PTL DEF BuilderSpec
=============================================================================
