------------------------------ MODULE Page_proofs ------------------------------
(***************************************************************************)
(* What one page guarantees, for any tools, any stories and any bounds on  *)
(* how often things happen, checked by TLAPS.                              *)
(***************************************************************************)
EXTENDS Page, TLAPS

-----------------------------------------------------------------------------
(* The registration of the tools: the inductive invariant                   *)

\* A step of the application or of the host, whenever it may happen.
AppStep == Start \/ Started \/ OpenFails \/ Stop \/ Disposed \/ Stopped \/ HostStep

ToolState == {"pending", "resolved", "refused", "failed", "removed"}
Batch == [tool : [Tool -> ToolState], aborted : BOOLEAN, failures : SUBSET Tool, told : BOOLEAN]

AppShape == {"error", "registration"} \subseteq DOMAIN app

\* A batch of which a tool has failed has none mounted.
TakenBack(batch) ==
  batch.failures # {} => \A t \in Tool : batch.tool[t] \notin {"pending", "resolved"}

\* The error was noted when its batch, the last one, had settled, so nothing is added to
\* what failed in it; and no other batch is the current registration.
ErrorInv ==
  /\ app.registration \in {NoBatch, Len(batches)}
  /\ app.error # NoError =>
       /\ app.error.batch = Len(batches) /\ Len(batches) > 0
       /\ app.error.failures = batches[Len(batches)].failures
       /\ Settled(batches[Len(batches)])

RegistrationInv ==
  /\ batches \in Seq(Batch) /\ AppShape
  /\ \A b \in DOMAIN batches : TakenBack(batches[b])
  /\ ErrorInv

LEMMA AppInitiallyOk == AppInit => RegistrationInv
  BY DEF AppInit, RegistrationInv, AppShape, NoBatch, NoError, ErrorInv

\* Taking a batch back settles what was pending and keeps what failed.
LEMMA AbortedBatch ==
  ASSUME NEW batch \in Batch
  PROVE  /\ Aborted(batch) \in Batch /\ TakenBack(Aborted(batch))
         /\ Aborted(batch).failures = batch.failures
         /\ Settled(batch) => Settled(Aborted(batch))
  BY DEF Aborted, Batch, ToolState, TakenBack, Settled

\* What a step does to one batch.
LEMMA OneBatch ==
  ASSUME RegistrationInv, NEW b \in DOMAIN batches, NEW batch \in Batch, TakenBack(batch),
         batches' = [batches EXCEPT ![b] = batch], app' = app,
         ~Settled(batches[b]) \/ (Settled(batch) /\ batch.failures = batches[b].failures)
  PROVE  RegistrationInv'
<1>1. /\ batches' \in Seq(Batch) /\ Len(batches') = Len(batches) /\ DOMAIN batches' = DOMAIN batches
      /\ \A i \in DOMAIN batches : batches'[i] = IF i = b THEN batch ELSE batches[i]
  BY DEF RegistrationInv
<1>2. \A i \in DOMAIN batches' : TakenBack(batches[i])'
  BY <1>1 DEF RegistrationInv, TakenBack
<1>3. ErrorInv'
  <2>1. CASE Len(batches) = b
    BY <1>1, <2>1 DEF RegistrationInv, ErrorInv, Settled
  <2>2. CASE Len(batches) # b
    <3>1. Len(batches) > 0 => batches'[Len(batches)] = batches[Len(batches)]
      BY <1>1, <2>2 DEF RegistrationInv
    <3>. QED
      BY <1>1, <3>1 DEF RegistrationInv, ErrorInv, Settled
  <2>. QED
    BY <2>1, <2>2
<1>. QED
  BY <1>1, <1>2, <1>3 DEF RegistrationInv, AppShape

LEMMA HostKeeps ==
  ASSUME RegistrationInv, HostStep
  PROVE  RegistrationInv'
<1>1. PICK b \in DOMAIN batches :
        OnReady(b) \/ \E t \in Tool : HostResolves(b, t) \/ HostRefuses(b, t) \/ OnRefused(b, t)
  BY DEF HostStep
<1>2. PICK old \in Batch : old = batches[b]
  BY DEF RegistrationInv
<1>3. TakenBack(old)
  BY <1>2 DEF RegistrationInv
<1>4. ASSUME NEW t \in Tool, HostResolves(b, t) \/ HostRefuses(b, t) PROVE RegistrationInv'
  <2>1. PICK s \in {"resolved", "refused"} : batches' = [batches EXCEPT ![b] = [old EXCEPT !.tool[t] = s]]
    BY <1>2, <1>4 DEF HostResolves, HostRefuses
  <2>2. old.tool[t] = "pending" /\ app' = app
    BY <1>2, <1>4 DEF HostResolves, HostRefuses
  <2>3. PICK batch : batch = [old EXCEPT !.tool[t] = s]
    OBVIOUS
  <2>4. batch \in Batch /\ TakenBack(batch) /\ ~Settled(old)
    BY <1>3, <2>2, <2>3 DEF Batch, ToolState, TakenBack, Settled
  <2>. QED
    BY <1>2, <2>1, <2>2, <2>3, <2>4, OneBatch
<1>5. ASSUME NEW t \in Tool, OnRefused(b, t) PROVE RegistrationInv'
  <2>1. PICK hurt : hurt = [old EXCEPT !.failures = @ \cup {t}, !.tool[t] = "failed"]
    OBVIOUS
  <2>2. hurt \in Batch
    BY <2>1 DEF Batch, ToolState
  <2>3. batches' = [batches EXCEPT ![b] = Aborted(hurt)] /\ app' = app
    BY <1>2, <1>5, <2>1 DEF OnRefused, RecordRealFailure
  <2>4. ~Settled(old)
    BY <1>2, <1>5 DEF OnRefused, Settled
  <2>. QED
    BY <1>2, <2>2, <2>3, <2>4, AbortedBatch, OneBatch
<1>6. CASE OnReady(b)
  <2>1. PICK batch : batch = [old EXCEPT !.told = TRUE]
    OBVIOUS
  <2>2. /\ batch \in Batch /\ TakenBack(batch) /\ batch.failures = old.failures
        /\ Settled(old) => Settled(batch)
    BY <1>3, <2>1 DEF Batch, TakenBack, Settled
  <2>3. Settled(old) /\ batches' = [batches EXCEPT ![b] = batch]
    BY <1>2, <1>6, <2>1 DEF OnReady
  <2>4. CASE app' = app
    BY <1>2, <2>2, <2>3, <2>4, OneBatch
  <2>5. CASE /\ app.registration = b
             /\ app' = [app EXCEPT !.error = [batch |-> b, failures |-> old.failures]]
    <3>1. /\ batches' \in Seq(Batch) /\ Len(batches') = Len(batches) /\ DOMAIN batches' = DOMAIN batches
          /\ \A i \in DOMAIN batches : batches'[i] = IF i = b THEN batch ELSE batches[i]
      BY <2>2, <2>3 DEF RegistrationInv
    <3>2. b = Len(batches) /\ b \in Nat /\ b > 0
      BY <2>5 DEF RegistrationInv, ErrorInv, NoBatch
    <3>3. AppShape' /\ app'.registration = b /\ app'.error = [batch |-> b, failures |-> old.failures]
      BY <2>5, <3>2 DEF RegistrationInv, AppShape, Batch
    <3>4. \A i \in DOMAIN batches' : TakenBack(batches[i])'
      BY <2>2, <3>1 DEF RegistrationInv, TakenBack
    <3>5. ErrorInv'
      BY <2>2, <2>3, <3>1, <3>2, <3>3 DEF ErrorInv, Settled
    <3>. QED
      BY <3>1, <3>3, <3>4, <3>5 DEF RegistrationInv
  <2>. QED
    BY <1>2, <1>6, <2>4, <2>5 DEF OnReady, IsCurrent
<1>. QED
  BY <1>1, <1>4, <1>5, <1>6

\* A step that notes nothing of the batches.
LEMMA OnlyApp ==
  ASSUME RegistrationInv, batches' = batches, AppShape', app'.error = app.error,
         app'.registration \in {NoBatch, app.registration}
  PROVE  RegistrationInv'
  BY DEF RegistrationInv, ErrorInv, TakenBack, Settled

LEMMA StartedKeeps ==
  ASSUME RegistrationInv, Started
  PROVE  RegistrationInv'
<1>1. NewBatch \in Batch /\ TakenBack(NewBatch)
  BY DEF NewBatch, Batch, ToolState, TakenBack
<1>2. /\ batches' = Append(batches, NewBatch)
      /\ app' = [app EXCEPT !.opening = @ - 1, !.error = NoError,
                            !.registration = Len(batches) + 1, !.status = "started"]
  BY DEF Started
<1>. HIDE DEF NewBatch
<1>3. /\ batches' \in Seq(Batch) /\ Len(batches') = Len(batches) + 1
      /\ \A i \in DOMAIN batches' : batches'[i] = IF i = Len(batches) + 1 THEN NewBatch ELSE batches[i]
      /\ \A i \in DOMAIN batches' : i # Len(batches) + 1 => i \in DOMAIN batches
  BY <1>1, <1>2 DEF RegistrationInv
<1>4. AppShape' /\ app'.error = NoError /\ app'.registration = Len(batches')
  BY <1>2, <1>3 DEF RegistrationInv, AppShape, NoError, NoBatch
<1>5. \A i \in DOMAIN batches' : TakenBack(batches[i])'
  BY <1>1, <1>3 DEF RegistrationInv, TakenBack
<1>6. ErrorInv'
  BY <1>4 DEF ErrorInv, NoError
<1>. QED
  BY <1>3, <1>4, <1>5, <1>6 DEF RegistrationInv

LEMMA StopKeeps ==
  ASSUME RegistrationInv, Stop
  PROVE  RegistrationInv'
<1>1. batches' = [b \in DOMAIN batches |->
                    IF b = app.registration THEN Aborted(batches[b]) ELSE batches[b]]
  BY DEF Stop
<1>2. /\ DOMAIN batches' = DOMAIN batches
      /\ \A b \in DOMAIN batches :
           /\ batches[b] \in Batch
           /\ batches'[b] = Aborted(batches[b]) \/ batches'[b] = batches[b]
  BY <1>1 DEF RegistrationInv
<1>3. \A b \in DOMAIN batches :
        /\ batches'[b] \in Batch /\ TakenBack(batches'[b]) /\ batches'[b].failures = batches[b].failures
        /\ Settled(batches[b]) => Settled(batches'[b])
  BY <1>2, AbortedBatch DEF RegistrationInv
<1>4. batches' \in Seq(Batch) /\ Len(batches') = Len(batches)
  <2>1. DOMAIN batches = 1 .. Len(batches) /\ Len(batches) \in Nat
    BY DEF RegistrationInv
  <2>2. batches' \in [1 .. Len(batches) -> Batch]
    BY <1>1, <1>2, <1>3, <2>1
  <2>. QED
    BY <2>1, <2>2
<1>5. /\ AppShape' /\ app'.error = app.error /\ app'.registration = app.registration
  BY DEF Stop, RegistrationInv, AppShape, NoBatch
<1>6. ErrorInv'
  <2>1. Len(batches) > 0 => Len(batches) \in DOMAIN batches
    BY DEF RegistrationInv
  <2>. QED
    BY <1>3, <1>4, <1>5, <2>1 DEF RegistrationInv, ErrorInv, Settled
<1>7. \A b \in DOMAIN batches' : TakenBack(batches[b])'
  BY <1>2, <1>3 DEF TakenBack
<1>. QED
  BY <1>4, <1>5, <1>6, <1>7 DEF RegistrationInv

LEMMA RegistrationKeeps == RegistrationInv /\ [AppStep]_appVars => RegistrationInv'
<1>. SUFFICES ASSUME RegistrationInv, [AppStep]_appVars PROVE RegistrationInv'
  OBVIOUS
<1>1. CASE Start \/ OpenFails \/ Disposed \/ Stopped
  <2>1. batches' = batches /\ app'.error = app.error /\ app'.registration \in {NoBatch, app.registration}
    BY <1>1 DEF Start, OpenFails, Disposed, Stopped, RegistrationInv, AppShape
  <2>2. AppShape'
    BY <1>1 DEF Start, OpenFails, Disposed, Stopped, RegistrationInv, AppShape
  <2>. QED
    BY <2>1, <2>2, OnlyApp
<1>2. CASE UNCHANGED appVars
  BY <1>2, OnlyApp DEF appVars, RegistrationInv, AppShape
<1>. QED
  BY <1>1, <1>2, StartedKeeps, StopKeeps, HostKeeps DEF AppStep

\* As soon as one tool of a batch is known to have failed, none of it is mounted.
LEMMA NoneIsMounted == RegistrationInv => AllOrNothing
  BY DEF RegistrationInv, TakenBack, AllOrNothing, Mounted

LEMMA ErrorIsCurrent == RegistrationInv => ErrorIsOfLastBatch
  BY DEF RegistrationInv, ErrorInv, ErrorIsOfLastBatch

-----------------------------------------------------------------------------
(* The page: the inductive invariant                                        *)

Selection == Chapters \cup {Nothing}

\* The workspace has held a story, or none, at every revision.
StoriesInv == stories \in Seq(StoryToWrite \cup {NoStory}) /\ Len(stories) > 0

\* A focus was adopted with the generation of its claim, at a revision there has been;
\* one that is being checked was adopted before the check began.
FocusInv ==
  /\ {"current", "generation", "rejected"} \subseteq DOMAIN focus /\ focus.generation \in Nat
  /\ focus.current # Nothing => /\ focus.current.id \in Nat /\ focus.current.id <= focus.generation
                                /\ focus.current.since \in Nat /\ focus.current.since <= Revision
  /\ \A call \in claims : call.generation \in Nat /\ call.claim \in ClaimOf
  /\ query.at = "checking" =>
       /\ query.subject.since \in Nat /\ query.subject.since <= query.began
       /\ query.began \in Nat /\ query.began <= Revision

EditorFields ==
  {"view", "tab", "selection", "start", "panel", "texts", "readiness", "story", "revision", "title", "media"}

EditorOk(u) ==
  /\ DOMAIN u = EditorFields /\ u.view = "editor" /\ u.tab \in TopTab
  /\ u.selection \in Selection /\ u.start \in Selection
  /\ u.story \in StoryToWrite /\ u.revision \in Nat /\ u.revision <= Revision

\* What is mounted is what the state says; nothing reads the workspace before that.
ViewInv ==
  /\ "view" \in DOMAIN ui /\ ui.view \in {"loading", "create", "error", "editor"}
  /\ shown.view \in {"none", ui.view}
  /\ shown.view = "none" => ui.view = "loading" /\ hydrates = {}
  /\ InEditor => /\ EditorOk(ui) /\ ui.tab = shown.tab /\ ui.start = Nothing
                 /\ (shown.reader # Nothing) <=> (ui.tab = "preview")

\* The session is the last there has been, and the panel tells its phase or another's.
SessionInv ==
  /\ phases \in Seq(Phase)
  /\ session # Nothing => session = Len(phases) /\ Len(phases) > 0
  /\ (InEditor /\ session # Nothing) =>
       ui.panel # Nothing /\ (ui.panel.session = session => ui.panel.phase = phases[session])

\* What a call of hydrate() has read before each of its reads.
SeenBy(at) ==
  CASE at = "story" -> {}
    [] at = "meta"  -> {"story", "revision"}
    [] at = "list"  -> {"story", "revision", "title"}
    [] at \in {"texts", "readiness"} -> {"story", "revision", "title", "media"}

HydrateInv(h) ==
  /\ DOMAIN h = {"gen", "at", "began", "previous", "seen"}
  /\ h.gen \in 1 .. generation
  /\ h.at \in {"story", "meta", "list", "texts", "readiness"}
  /\ h.began \in Nat /\ h.began <= Revision
  /\ h.previous = [tab |-> h.previous.tab, selection |-> h.previous.selection]
  /\ h.previous.tab \in TopTab /\ h.previous.selection \in Selection
  /\ DOMAIN h.seen = SeenBy(h.at)
  /\ h.at # "story" => h.seen.story \in StoryToWrite /\ h.seen.revision \in Nat /\ h.seen.revision <= Revision

HydratesInv ==
  /\ generation \in Nat
  /\ \A h \in hydrates : HydrateInv(h)
  /\ \A g, h \in hydrates : g.gen = h.gen => g = h

\* When all that was written has been followed by a hydrate(), the latest one has begun
\* since, so all it has read is current; and when it is done, all it has shown.
ShownIsCurrent ==
  /\ Story # NoStory /\ InEditor /\ ui.story = Story
  /\ {ui.revision, ui.title, ui.media, ui.texts} = {Revision}

Coming(h) ==
  /\ h.began = Revision
  /\ IF h.at = "readiness" THEN ShownIsCurrent
     ELSE /\ h.at # "story" => h.seen.story = Story /\ Story # NoStory
          /\ \A f \in DOMAIN h.seen \ {"story"} : h.seen[f] = Revision

Arrived == IF Story = NoStory THEN ui.view = "create" ELSE ShownIsCurrent /\ ui.readiness = Revision

FreshInv ==
  (shown.view # "none" /\ owed = 0 /\ ~unseen) =>
    /\ \A h \in hydrates : IsLatest(h) => Coming(h)
    /\ (\A h \in hydrates : ~IsLatest(h)) => failed \/ Arrived

\* The place is that of the editor that was shown last, and the latest hydrate() has it,
\* or where a page starts if it found another one under way.
PlaceInv ==
  /\ InEditor => place = [tab |-> ui.tab, selection |-> ui.selection]
  /\ ui.view \in {"create", "error"} => place = Tip
  /\ ui.view = "loading" =>
       \A h \in hydrates : IsLatest(h) => h.previous = place \/ (overlapped /\ h.previous = Tip)

PageInv ==
  /\ StoriesInv /\ FocusInv /\ RegistrationInv
  /\ ViewInv /\ SessionInv /\ HydratesInv /\ PlaceInv
  /\ owed \in Nat /\ FreshInv

LEMMA InitKeeps == Init => PageInv
<1>. SUFFICES ASSUME Init PROVE PageInv
  OBVIOUS
<1>1. StoriesInv /\ Len(stories) = 1
  BY DEF Init, FocusInit, StoriesInv
<1>2. FocusInv
  BY DEF Init, FocusInit, FocusInv
<1>3. RegistrationInv
  BY AppInitiallyOk DEF Init
<1>4. ViewInv /\ SessionInv /\ HydratesInv /\ PlaceInv /\ FreshInv
  BY DEF Init, UiInit, Plain, NotMounted, ViewInv, SessionInv, HydratesInv, PlaceInv, FreshInv, InEditor
<1>. QED
  BY <1>1, <1>2, <1>3, <1>4 DEF Init, PageInv

-----------------------------------------------------------------------------
(* What is written                                                          *)

LEMMA RevisionIsNat ==
  ASSUME StoriesInv
  PROVE  Revision \in Nat /\ Story \in StoryToWrite \cup {NoStory}
  BY DEF StoriesInv, Revision, Story

\* A write is one more revision.
LEMMA WriteGrows ==
  ASSUME StoriesInv, NEW story \in StoryToWrite \cup {NoStory}, stories' = Append(stories, story)
  PROVE  StoriesInv' /\ Revision' = Revision + 1 /\ Revision \in Nat
  BY DEF StoriesInv, Revision

\* What a call of hydrate() knows stays so while there are more revisions.
LEMMA HydratesGrow ==
  ASSUME HydratesInv, UNCHANGED <<hydrates, generation>>,
         Revision \in Nat, Revision' \in Nat, Revision <= Revision'
  PROVE  HydratesInv'
<1>1. ASSUME NEW h, HydrateInv(h) PROVE HydrateInv(h)'
  BY <1>1 DEF HydrateInv, SeenBy
<1>. QED
  BY <1>1 DEF HydratesInv

LEMMA FocusGrows ==
  ASSUME FocusInv, UNCHANGED focusVars, Revision \in Nat, Revision' \in Nat, Revision <= Revision'
  PROVE  FocusInv'
  BY DEF FocusInv, focusVars

LEMMA FocusStays ==
  ASSUME FocusInv, UNCHANGED <<stories, focusVars>>
  PROVE  FocusInv'
  BY DEF FocusInv, focusVars, Revision

LEMMA ViewGrows ==
  ASSUME ViewInv, UNCHANGED <<ui, shown, hydrates>>,
         Revision \in Nat, Revision' \in Nat, Revision <= Revision'
  PROVE  ViewInv'
  BY DEF ViewInv, InEditor, EditorOk

LEMMA SessionStays ==
  ASSUME SessionInv, UNCHANGED <<ui, session, phases>>
  PROVE  SessionInv'
  BY DEF SessionInv, InEditor

\* The history of a step that leaves the view and begins no hydrate().
LEMMA NoteStays ==
  ASSUME PlaceInv, ViewInv, Note, UNCHANGED <<ui, generation>>,
         \A h \in hydrates' : IsLatest(h)' => \E g \in hydrates : IsLatest(g) /\ h.previous = g.previous
  PROVE  PlaceInv'
<1>1. place' = place /\ overlapped' = overlapped
  BY DEF PlaceInv, ViewInv, Note, InEditor
<1>. QED
  BY <1>1 DEF PlaceInv, InEditor

\* Another revision, which is to be followed by a hydrate().
LEMMA WriteKeeps ==
  ASSUME PageInv, NEW story \in StoryToWrite \cup {NoStory}, stories' = Append(stories, story),
         UNCHANGED <<focusVars, uiVars, appVars>>, Note, owed' \in Nat, owed' > 0 \/ unseen'
  PROVE  PageInv'
<1>1. StoriesInv' /\ Revision' = Revision + 1 /\ Revision \in Nat
  BY WriteGrows DEF PageInv
<1>2. Revision' \in Nat /\ Revision <= Revision'
  BY <1>1
<1>3. UNCHANGED <<ui, shown, generation, hydrates, session, phases>>
  BY DEF uiVars
<1>4. FocusInv' /\ HydratesInv' /\ ViewInv' /\ SessionInv'
  BY <1>1, <1>2, <1>3, FocusGrows, HydratesGrow, ViewGrows, SessionStays DEF PageInv
<1>5. PlaceInv'
  BY <1>3, NoteStays DEF PageInv, IsLatest
<1>6. RegistrationInv'
  BY RegistrationKeeps DEF PageInv
<1>7. FreshInv'
  BY DEF FreshInv
<1>. QED
  BY <1>1, <1>4, <1>5, <1>6, <1>7 DEF PageInv

\* A step of other parts of the page: no revision, no view, no hydrate(), though one may
\* be owed.
LEMMA ElsewhereKeeps ==
  ASSUME PageInv, UNCHANGED <<stories, uiVars, unseen, failed>>, owed' \in {owed, owed + 1},
         FocusInv', RegistrationInv', Note
  PROVE  PageInv'
<1>1. UNCHANGED <<ui, shown, generation, hydrates, session, phases, unseen, failed>>
  BY DEF uiVars
<1>2. StoriesInv' /\ Revision' = Revision /\ Revision \in Nat
  BY RevisionIsNat DEF PageInv, StoriesInv, Revision
<1>3. HydratesInv' /\ ViewInv' /\ SessionInv'
  BY <1>1, <1>2, HydratesGrow, ViewGrows, SessionStays DEF PageInv
<1>4. PlaceInv'
  BY <1>1, NoteStays DEF PageInv, IsLatest
<1>5. owed \in Nat /\ owed' \in Nat /\ (owed' = 0 => owed = 0)
  BY DEF PageInv
<1>6. FreshInv'
  <2>1. CASE owed' # 0
    BY <2>1 DEF FreshInv
  <2>2. CASE owed' = owed
    <3>1. UNCHANGED <<ui, shown, generation, hydrates, unseen, failed>>
      BY <1>1
    <3>2. Story' = Story /\ Revision' = Revision
      BY <1>2 DEF Story
    <3>3. FreshInv
      BY DEF PageInv
    <3>. QED
      BY <2>2, <3>1, <3>2, <3>3 DEF FreshInv, IsLatest, Coming, Arrived, ShownIsCurrent, InEditor
  <2>. QED
    BY <1>5, <2>1, <2>2
<1>. QED
  BY <1>1, <1>2, <1>3, <1>4, <1>5, <1>6 DEF PageInv

-----------------------------------------------------------------------------
(* What is shown                                                            *)

\* The editor that is mounted: its reader, if it has one, has taken the starting page.
LEMMA EditorIsShown ==
  ASSUME shown.view # "none",
         shown.view = "editor" => ((shown.reader # Nothing) <=> (shown.tab = "preview")),
         NEW next, EditorOk(next), SetState(next),
         next.start # Nothing => next.tab = "preview" /\ (shown.view = "editor" => shown.tab # "preview")
  PROVE  /\ DOMAIN ui' = EditorFields /\ ui'.start = Nothing
         /\ \A f \in EditorFields \ {"start"} : ui'[f] = next[f]
         /\ shown'.view = "editor" /\ shown'.tab = next.tab
         /\ (shown'.reader # Nothing) <=> (next.tab = "preview")
<1>1. next.view = "editor" /\ next.tab \in TopTab /\ next.start \in Selection /\ DOMAIN next = EditorFields
  BY DEF EditorOk
<1>2. shown' = EditorShown(next) /\ ui' = TakenStart(next, EditorShown(next))
  BY <1>1 DEF SetState
<1>3. [start |-> next.start] # Nothing
  <2>1. [start |-> next.start] \in [start : Selection]
    BY <1>1
  <2>. QED
    BY <2>1, PageAssumption DEF Selection
<1>4. CASE shown.view = "editor" /\ shown.tab = next.tab
  <2>1. shown' = shown /\ ui' = next /\ next.start = Nothing
    BY <1>2, <1>4 DEF EditorShown, TakenStart
  <2>. QED
    BY <1>1, <1>4, <2>1
<1>5. CASE ~(shown.view = "editor" /\ shown.tab = next.tab)
  <2>1. shown' = [view |-> "editor", tab |-> next.tab,
                  reader |-> IF next.tab = "preview" THEN [start |-> next.start] ELSE Nothing]
    BY <1>2, <1>5 DEF EditorShown
  <2>2. /\ shown'.view = "editor" /\ shown'.tab = next.tab
        /\ shown'.reader = IF next.tab = "preview" THEN [start |-> next.start] ELSE Nothing
    BY <2>1
  <2>3. shown' # shown
    BY <1>5, <2>2
  <2>4. (shown'.reader # Nothing) <=> (next.tab = "preview")
    BY <1>3, <2>2
  <2>5. ui' = IF next.tab = "preview" THEN [next EXCEPT !.start = Nothing] ELSE next
    BY <1>2, <2>3, <2>4 DEF TakenStart
  <2>6. DOMAIN ui' = EditorFields /\ \A f \in EditorFields \ {"start"} : ui'[f] = next[f]
    BY <1>1, <2>5
  <2>7. ui'.start = Nothing
    BY <1>1, <2>5 DEF EditorFields
  <2>. QED
    BY <2>2, <2>4, <2>6, <2>7
<1>. QED
  BY <1>4, <1>5

\* A change of the editor's state, of what its user and its session may change.
MayEdit(fields) ==
  /\ DOMAIN fields \subseteq {"tab", "selection", "start", "panel", "readiness"}
  /\ "tab" \in DOMAIN fields => fields["tab"] \in TopTab
  /\ "selection" \in DOMAIN fields => fields["selection"] \in Selection
  /\ "start" \in DOMAIN fields =>
       /\ fields["start"] \in Selection /\ ui.tab = "map"
       /\ "tab" \in DOMAIN fields /\ fields["tab"] = "preview"

LEMMA Edited ==
  ASSUME ViewInv, InEditor, NEW fields, MayEdit(fields), Edit(fields), UNCHANGED stories
  PROVE  /\ ViewInv' /\ InEditor' /\ shown'.view # "none"
         /\ \A f \in DOMAIN fields \ {"start"} : ui'[f] = fields[f]
         /\ \A f \in EditorFields \ ({"start"} \cup DOMAIN fields) : ui'[f] = ui[f]
<1>. DEFINE next == [f \in DOMAIN ui |-> IF f \in DOMAIN fields THEN fields[f] ELSE ui[f]]
<1>1. /\ EditorOk(ui) /\ ui.tab = shown.tab /\ ui.start = Nothing /\ ui.view = "editor"
      /\ (shown.reader # Nothing) <=> (ui.tab = "preview")
  BY DEF ViewInv, InEditor
<1>2. shown.view = "editor"
  BY <1>1 DEF ViewInv
<1>3. /\ DOMAIN next = EditorFields
      /\ \A f \in EditorFields : next[f] = IF f \in DOMAIN fields THEN fields[f] ELSE ui[f]
  BY <1>1 DEF EditorOk
<1>4. SetState(next)
  BY DEF Edit
<1>. HIDE DEF next
<1>5. EditorOk(next)
  BY <1>1, <1>3 DEF EditorOk, EditorFields, MayEdit
<1>6. next.start # Nothing => next.tab = "preview" /\ shown.tab # "preview"
  BY <1>1, <1>3 DEF EditorFields, MayEdit
<1>7. /\ DOMAIN ui' = EditorFields /\ ui'.start = Nothing
      /\ \A f \in EditorFields \ {"start"} : ui'[f] = next[f]
      /\ shown'.view = "editor" /\ shown'.tab = next.tab
      /\ (shown'.reader # Nothing) <=> (next.tab = "preview")
  BY <1>1, <1>2, <1>4, <1>5, <1>6, EditorIsShown
<1>8. EditorOk(ui)'
  BY <1>5, <1>7 DEF EditorOk, EditorFields, Revision, Selection
<1>9. ui'.view = "editor" /\ ui'.tab = next.tab
  BY <1>5, <1>7 DEF EditorOk, EditorFields
<1>10. ViewInv' /\ InEditor'
  BY <1>7, <1>8, <1>9 DEF ViewInv, InEditor, EditorFields
<1>11. \A f \in DOMAIN fields : f \in EditorFields
  BY DEF MayEdit, EditorFields
<1>. QED
  BY <1>3, <1>7, <1>10, <1>11

-----------------------------------------------------------------------------
(* The focus                                                                *)

LEMMA ClaimKeeps ==
  ASSUME StoriesInv, FocusInv, NEW claim \in ClaimOf, Claim(claim), UNCHANGED <<stories, query>>
  PROVE  FocusInv'
<1>1. /\ focus' = [focus EXCEPT !.generation = @ + 1]
      /\ claims' = claims \cup {[generation |-> focus.generation + 1, claim |-> claim, began |-> Revision]}
  BY DEF Claim
<1>2. focus'.current = focus.current /\ focus'.generation = focus.generation + 1
      /\ DOMAIN focus' = DOMAIN focus
  BY <1>1 DEF FocusInv
<1>3. \A call \in claims' : call.generation \in Nat /\ call.claim \in ClaimOf
  BY <1>1 DEF FocusInv
<1>. QED
  BY <1>2, <1>3 DEF FocusInv, Revision

\* A check that comes back: what it may make of the focus and of the answer.
LEMMA FocusSteps ==
  ASSUME StoriesInv, FocusInv, FocusStep
  PROVE  /\ UNCHANGED stories /\ FocusInv'
         /\ (focus.current # Nothing /\ focus'.current # Nothing) => focus'.current.id >= focus.current.id
         /\ (focus.current # Nothing /\ focus'.current = Nothing) =>
              \/ \E r \in focus.current.since .. Revision :
                   Verdict(stories[r + 1], focus.current.claim) # "ok"
              \/ Revision - focus.current.since >= MaxAttempts
         /\ (query' # query /\ query'.at = "idle") => query'.answer = focus'.current
<1>. Revision \in Nat /\ Story = stories[Revision + 1] /\ MaxAttempts \in Nat
  BY RevisionIsNat, PageAssumption DEF StoriesInv, Revision, Story
<1>0. /\ focus.current = Nothing => Ask = Told(Nothing)
      /\ focus.current # Nothing =>
           Ask = [at |-> "checking", subject |-> focus.current, began |-> Revision]
  BY DEF Ask
<1>00. focus.current # Nothing => focus.current.id \in Nat /\ focus.current.id >= focus.current.id
  BY DEF FocusInv
<1>1. ASSUME NEW call \in claims, SetFocus(call)
      PROVE  /\ UNCHANGED <<stories, query>> /\ FocusInv'
             /\ (focus.current # Nothing /\ focus'.current # Nothing) =>
                  focus'.current.id >= focus.current.id
             /\ focus.current # Nothing => focus'.current # Nothing
  <2>1. UNCHANGED <<stories, query>> /\ claims' = claims \ {call}
    BY <1>1 DEF SetFocus
  <2>2. Revision' = Revision
    BY <2>1 DEF Revision
  <2>3. CASE focus' = focus
    BY <2>1, <2>2, <2>3 DEF FocusInv
  <2>4. CASE focus' = [focus EXCEPT !.rejected = call.claim]
    <3>1. focus'.current = focus.current /\ focus'.generation = focus.generation /\ DOMAIN focus' = DOMAIN focus
      BY <2>4 DEF FocusInv
    <3>. QED
      BY <2>1, <2>2, <3>1 DEF FocusInv
  <2>5. CASE /\ call.generation = focus.generation
             /\ focus' = [focus EXCEPT !.current =
                            [claim |-> call.claim, id |-> call.generation, since |-> Revision]]
    <3>1. PICK new : new = [claim |-> call.claim, id |-> call.generation, since |-> Revision]
      OBVIOUS
    <3>2. call.generation \in Nat /\ call.claim \in ClaimOf
      BY DEF FocusInv
    <3>3. new \in [claim : ClaimOf, id : Nat, since : Nat]
      BY <3>1, <3>2
    <3>4. new # Nothing /\ new.id = focus.generation /\ new.since = Revision
      BY <2>5, <3>1, <3>3, PageAssumption
    <3>5. focus'.current = new /\ focus'.generation = focus.generation /\ DOMAIN focus' = DOMAIN focus
      BY <2>5, <3>1 DEF FocusInv
    <3>. QED
      BY <2>1, <2>2, <3>4, <3>5 DEF FocusInv
  <2>. QED
    BY <1>1, <2>1, <2>3, <2>4, <2>5 DEF SetFocus, Overtaken
<1>2. ASSUME query' = Ask, UNCHANGED <<stories, focus, claims>>
      PROVE  FocusInv' /\ (query'.at = "idle" => query'.answer = focus'.current)
  <2>1. Revision' = Revision
    BY <1>2 DEF Revision
  <2>2. focus' = focus /\ claims' = claims
    BY <1>2
  <2>3. CASE focus.current = Nothing
    <3>1. query'.at = "idle" /\ query'.answer = Nothing
      BY <1>0, <1>2, <2>3 DEF Told
    <3>. QED
      BY <2>1, <2>2, <2>3, <3>1 DEF FocusInv
  <2>4. CASE focus.current # Nothing
    <3>1. query'.at = "checking" /\ query'.subject = focus.current /\ query'.began = Revision
      BY <1>0, <1>2, <2>4
    <3>. QED
      BY <2>1, <2>2, <2>4, <3>1 DEF FocusInv
  <2>. QED
    BY <2>3, <2>4
<1>3. CASE AskFocus
  <2>1. query' = Ask /\ UNCHANGED <<stories, focus, claims>>
    BY <1>3 DEF AskFocus
  <2>2. FocusInv' /\ (query'.at = "idle" => query'.answer = focus'.current)
    BY <1>2, <2>1
  <2>. QED
    BY <1>00, <2>1, <2>2
<1>4. CASE TellFocus
  <2>1. PICK verdict \in Verdicts(query.subject.claim, query.began) :
          IF ~Same(query.subject) THEN query' = Ask /\ UNCHANGED focus
          ELSE IF verdict = "ok" THEN query' = Told(query.subject) /\ UNCHANGED focus
          ELSE /\ focus' = [focus EXCEPT !.current = Nothing, !.rejected = query.subject.claim]
               /\ query' = Told(Nothing)
    BY <1>4 DEF TellFocus
  <2>2. UNCHANGED <<stories, claims>> /\ query.at = "checking" /\ Revision' = Revision
    BY <1>4 DEF TellFocus, Revision
  <2>3. CASE query' = Ask /\ UNCHANGED focus
    <3>1. UNCHANGED <<stories, focus, claims>>
      BY <2>2, <2>3
    <3>2. FocusInv' /\ (query'.at = "idle" => query'.answer = focus'.current)
      BY <1>2, <2>3, <3>1
    <3>. QED
      BY <1>00, <3>1, <3>2
  <2>4. CASE Same(query.subject) /\ query' = Told(query.subject) /\ UNCHANGED focus
    BY <2>2, <2>4 DEF FocusInv, Told, Same
  <2>5. CASE /\ Same(query.subject) /\ verdict # "ok" /\ query' = Told(Nothing)
             /\ focus' = [focus EXCEPT !.current = Nothing, !.rejected = query.subject.claim]
    <3>1. focus'.current = Nothing /\ focus'.generation = focus.generation /\ DOMAIN focus' = DOMAIN focus
      BY <2>5 DEF FocusInv
    <3>2. query'.at = "idle" /\ query'.answer = Nothing
      BY <2>5 DEF Told
    <3>3. FocusInv'
      BY <2>2, <3>1, <3>2 DEF FocusInv
    <3>4. ASSUME focus.current # Nothing
          PROVE  \/ \E r \in focus.current.since .. Revision :
                      Verdict(stories[r + 1], focus.current.claim) # "ok"
                 \/ Revision - focus.current.since >= MaxAttempts
      <4>1. /\ focus.current = query.subject /\ focus.current.since \in Nat
            /\ focus.current.since <= query.began /\ query.began \in Nat /\ query.began <= Revision
        BY <2>2, <2>5 DEF FocusInv, Same
      <4>2. CASE verdict = Verdict(Story, focus.current.claim)
        <5>1. Revision \in focus.current.since .. Revision
          BY <4>1
        <5>. QED
          BY <2>5, <4>2, <5>1
      <4>3. CASE Revision - query.began >= MaxAttempts
        BY <4>1, <4>3
      <4>. QED
        BY <4>1, <4>2, <4>3 DEF Verdicts
    <3>. QED
      BY <2>2, <3>1, <3>2, <3>3, <3>4
  <2>. QED
    BY <2>1, <2>3, <2>4, <2>5
<1>. QED
  BY <1>1, <1>2, <1>3, <1>4 DEF FocusStep, AskFocus, TellFocus

-----------------------------------------------------------------------------
(* The creator and the preview session                                      *)

\* A step of the screen alone.
LEMMA OthersStay ==
  ASSUME PageInv, UNCHANGED <<stories, appVars>>
  PROVE  /\ StoriesInv' /\ RegistrationInv' /\ Revision' = Revision /\ Story' = Story
         /\ Revision \in Nat /\ Story \in StoryToWrite \cup {NoStory}
<1>1. RegistrationInv'
  BY RegistrationKeeps DEF PageInv
<1>. QED
  BY <1>1, RevisionIsNat DEF PageInv, StoriesInv, Revision, Story

\* Nothing is shown anew.
LEMMA UnseenKeeps ==
  ASSUME PageInv, UNCHANGED <<stories, appVars, ui, shown, generation, hydrates, owed, unseen, failed>>,
         FocusInv', SessionInv', Note
  PROVE  PageInv'
<1>1. StoriesInv' /\ RegistrationInv' /\ Revision' = Revision /\ Story' = Story /\ Revision \in Nat
  BY OthersStay
<1>2. HydratesInv' /\ ViewInv'
  BY <1>1, HydratesGrow, ViewGrows DEF PageInv
<1>3. PlaceInv'
  BY NoteStays DEF PageInv, IsLatest
<1>4. FreshInv'
  BY <1>1 DEF PageInv, FreshInv, IsLatest, Coming, Arrived, ShownIsCurrent, InEditor
<1>. QED
  BY <1>1, <1>2, <1>3, <1>4 DEF PageInv

LEMMA EditKeeps ==
  ASSUME PageInv, InEditor, NEW fields, MayEdit(fields), "readiness" \notin DOMAIN fields, Edit(fields),
         UNCHANGED <<stories, appVars, generation, hydrates, owed, unseen, failed>>,
         FocusInv', SessionInv', Note
  PROVE  PageInv'
<1>1. StoriesInv' /\ RegistrationInv' /\ Revision' = Revision /\ Story' = Story /\ Revision \in Nat
  BY OthersStay
<1>2. HydratesInv'
  BY <1>1, HydratesGrow DEF PageInv
<1>3. /\ ViewInv' /\ InEditor' /\ shown'.view # "none"
      /\ \A f \in EditorFields \ ({"start"} \cup DOMAIN fields) : ui'[f] = ui[f]
  BY Edited DEF PageInv
<1>4. shown.view # "none"
  BY DEF PageInv, ViewInv, InEditor
<1>5. UNCHANGED <<ui.story, ui.revision, ui.title, ui.media, ui.texts, ui.readiness>>
  BY <1>3 DEF MayEdit, EditorFields
<1>6. ShownIsCurrent => ShownIsCurrent'
  BY <1>1, <1>3, <1>5 DEF ShownIsCurrent
<1>7. PlaceInv'
  BY <1>3 DEF PlaceInv, Note, InEditor
<1>8. \A h \in hydrates : Coming(h) => Coming(h)'
  BY <1>1, <1>6 DEF Coming
<1>9. FreshInv'
  <2>1. SUFFICES ASSUME owed = 0, ~unseen
                 PROVE  /\ \A h \in hydrates : IsLatest(h)' => Coming(h)'
                        /\ (\A h \in hydrates : ~IsLatest(h)') => failed' \/ Arrived'
    BY DEF FreshInv
  <2>2. \A h \in hydrates : IsLatest(h)' = IsLatest(h)
    BY DEF IsLatest
  <2>3. /\ \A h \in hydrates : IsLatest(h) => Coming(h)
        /\ (\A h \in hydrates : ~IsLatest(h)) => failed \/ Arrived
    BY <1>4, <2>1 DEF PageInv, FreshInv
  <2>4. Arrived => Arrived'
    BY <1>1, <1>5, <1>6 DEF Arrived, InEditor
  <2>. QED
    BY <1>8, <2>2, <2>3, <2>4
<1>. QED
  BY <1>1, <1>2, <1>3, <1>7, <1>9 DEF PageInv

\* A session whose phase the panel may tell.
LEMMA PanelIsThere ==
  ASSUME NEW s \in Nat, NEW phase \in Phase
  PROVE  PanelOf(s, phase) # Nothing /\ PanelOf(s, phase).session = s /\ PanelOf(s, phase).phase = phase
<1>1. PICK panel : panel = [session |-> s, phase |-> phase]
  OBVIOUS
<1>2. panel \in [session : Nat, phase : Phase] /\ panel.session = s /\ panel.phase = phase
  BY <1>1
<1>. QED
  BY <1>1, <1>2, PageAssumption DEF PanelOf

LEMMA EmitKeeps ==
  ASSUME PageInv, NEW s \in DOMAIN phases, NEW phase \in Phase, Emit(s, phase),
         UNCHANGED <<appVars, pageVars>>, Note
  PROVE  PageInv'
<1>1. /\ phases' = [phases EXCEPT ![s] = phase]
      /\ UNCHANGED <<stories, focusVars, generation, hydrates, session, appVars, owed, unseen, failed>>
  BY DEF Emit, pageVars
<1>2. FocusInv'
  BY <1>1, FocusStays DEF PageInv
<1>3. phases \in Seq(Phase) /\ (session # Nothing => session = Len(phases) /\ Len(phases) > 0)
  BY DEF PageInv, SessionInv
<1>4. /\ phases' \in Seq(Phase) /\ Len(phases') = Len(phases) /\ s \in Nat
      /\ phases'[s] = phase /\ \A i \in DOMAIN phases : i # s => phases'[i] = phases[i]
  BY <1>1, <1>3
<1>5. CASE ~InEditor
  <2>1. UNCHANGED <<ui, shown>> /\ ~InEditor'
    BY <1>5 DEF Emit, InEditor
  <2>2. SessionInv'
    BY <1>1, <1>3, <1>4, <2>1 DEF SessionInv
  <2>. QED
    BY <1>1, <1>2, <2>1, <2>2, UnseenKeeps
<1>6. CASE InEditor
  <2>1. PICK fields : fields = [panel |-> PanelOf(s, phase)]
    OBVIOUS
  <2>2. DOMAIN fields = {"panel"} /\ fields["panel"] = PanelOf(s, phase)
    BY <2>1
  <2>3. Edit(fields)
    BY <1>6, <2>1 DEF Emit
  <2>4. MayEdit(fields)
    BY <2>2 DEF MayEdit
  <2>5. InEditor' /\ ui'["panel"] = PanelOf(s, phase)
    BY <1>1, <1>6, <2>2, <2>3, <2>4, Edited DEF PageInv
  <2>6. SessionInv'
    <3>1. ui'.panel # Nothing /\ ui'.panel.session = s /\ ui'.panel.phase = phase
      BY <1>4, <2>5, PanelIsThere
    <3>. QED
      BY <1>1, <1>3, <1>4, <3>1 DEF SessionInv
  <2>. QED
    BY <1>1, <1>2, <1>6, <2>2, <2>3, <2>4, <2>6, EditKeeps
<1>. QED
  BY <1>5, <1>6

\* A page of the story that is shown may be claimed.
LEMMA ClaimOfEditor ==
  ASSUME NEW story \in StoryToWrite, NEW c \in Chapters
  PROVE  [slug |-> story.slug, chapter |-> c, tab |-> "content"] \in ClaimOf
  BY DEF ClaimOf, FocusTab

LEMMA ClickKeeps ==
  ASSUME PageInv, Click, UNCHANGED <<appVars, pageVars>>, Note
  PROVE  PageInv'
<1>. Clicked => UNCHANGED <<stories, query, generation, hydrates>>
  BY DEF Clicked
<1>1. /\ UNCHANGED <<owed, unseen, failed>> /\ InEditor
      /\ StoriesInv /\ FocusInv /\ SessionInv /\ ViewInv /\ EditorOk(ui)
  BY DEF Click, pageVars, PageInv, ViewInv
<1>2. ASSUME NEW fields, MayEdit(fields), {"readiness", "panel"} \cap DOMAIN fields = {}, Edit(fields),
             Clicked, UNCHANGED <<session, phases>>
      PROVE  SessionInv'
  <2>1. InEditor' /\ ui'["panel"] = ui["panel"]
    BY <1>1, <1>2, Edited DEF EditorFields
  <2>. QED
    BY <1>1, <1>2, <2>1 DEF SessionInv
<1>3. ASSUME NEW c \in ui.story.pages, OpenMapNode(c)
      PROVE  PageInv'
  <2>1. c \in Chapters /\ ui.story \in StoryToWrite
    BY <1>1 DEF EditorOk, Chapters
  <2>2. PICK fields : fields = [selection |-> c]
    OBVIOUS
  <2>3. MayEdit(fields) /\ DOMAIN fields = {"selection"}
    BY <2>1, <2>2 DEF MayEdit, Selection
  <2>4. Edit(fields) /\ Clicked /\ UNCHANGED <<session, phases>>
    BY <1>3, <2>2 DEF OpenMapNode
  <2>5. PICK claim \in ClaimOf : Claim(claim)
    BY <1>3, <2>1, ClaimOfEditor DEF OpenMapNode
  <2>6. FocusInv'
    BY <1>1, <2>4, <2>5, ClaimKeeps
  <2>. QED
    BY <1>1, <1>2, <2>3, <2>4, <2>6, EditKeeps
<1>4. ASSUME NEW fields, MayEdit(fields), {"readiness", "panel"} \cap DOMAIN fields = {}, Edit(fields),
             Clicked, Unclaimed, UNCHANGED <<session, phases>>
      PROVE  PageInv'
  <2>1. FocusInv'
    BY <1>1, <1>4, FocusStays DEF Unclaimed, focusVars
  <2>2. SessionInv'
    BY <1>2, <1>4
  <2>. QED
    BY <1>1, <1>4, <2>1, <2>2, EditKeeps
<1>5. CASE CloseMapNode
  <2>1. PICK fields : fields = [selection |-> Nothing]
    OBVIOUS
  <2>2. MayEdit(fields) /\ DOMAIN fields = {"selection"}
    BY <2>1 DEF MayEdit, Selection
  <2>. QED
    BY <1>4, <1>5, <2>1, <2>2 DEF CloseMapNode
<1>6. CASE PreviewFromNode
  <2>1. PICK fields : fields = [tab |-> "preview", start |-> ui.selection]
    OBVIOUS
  <2>2. MayEdit(fields) /\ DOMAIN fields = {"tab", "start"}
    BY <1>1, <1>6, <2>1 DEF MayEdit, EditorOk, TopTab, PreviewFromNode
  <2>. QED
    BY <1>4, <1>6, <2>1, <2>2 DEF PreviewFromNode
<1>7. ASSUME NEW tab \in TopTab, SetActiveTab(tab)
      PROVE  PageInv'
  <2>1. PICK fields : fields = [tab |-> tab]
    OBVIOUS
  <2>2. MayEdit(fields) /\ DOMAIN fields = {"tab"} /\ fields["tab"] = tab
    BY <2>1 DEF MayEdit
  <2>3. CASE Edit(fields) /\ UNCHANGED <<session, phases>>
    BY <1>4, <1>7, <2>2, <2>3 DEF SetActiveTab
  <2>4. CASE ~(Edit(fields) /\ UNCHANGED <<session, phases>>)
    <3>1. /\ phases' = Append(phases, "waiting") /\ session' = Len(phases) + 1
          /\ Edit(With(fields, [panel |-> PanelOf(Len(phases) + 1, "waiting")]))
      BY <1>7, <2>1, <2>4 DEF SetActiveTab, StartMobilePreview
    <3>2. PICK more : more = With(fields, [panel |-> PanelOf(Len(phases) + 1, "waiting")])
      OBVIOUS
    <3>3. /\ DOMAIN more = {"tab", "panel"} /\ more["tab"] = tab
          /\ more["panel"] = PanelOf(Len(phases) + 1, "waiting")
      BY <2>2, <3>2 DEF With
    <3>4. MayEdit(more)
      BY <3>3 DEF MayEdit
    <3>5. Edit(more) /\ Clicked /\ Unclaimed
      BY <1>7, <3>1, <3>2 DEF SetActiveTab
    <3>6. InEditor' /\ ui'["panel"] = PanelOf(Len(phases) + 1, "waiting")
      BY <1>1, <3>3, <3>4, <3>5, Edited
    <3>7. /\ phases' \in Seq(Phase) /\ Len(phases') = Len(phases) + 1 /\ Len(phases) \in Nat
          /\ phases'[Len(phases) + 1] = "waiting"
      BY <1>1, <3>1 DEF SessionInv, Phase
    <3>8. SessionInv'
      <4>1. ui'.panel # Nothing /\ ui'.panel.phase = "waiting"
        BY <3>6, <3>7, PanelIsThere DEF Phase
      <4>. QED
        BY <3>1, <3>7, <4>1 DEF SessionInv
    <3>9. FocusInv'
      BY <1>1, <3>5, FocusStays DEF Unclaimed, focusVars
    <3>. QED
      BY <1>1, <3>3, <3>4, <3>5, <3>8, <3>9, EditKeeps
  <2>. QED
    BY <2>3, <2>4
<1>. QED
  BY <1>3, <1>5, <1>6, <1>7 DEF Click

LEMMA EndKeeps ==
  ASSUME PageInv, EndMobilePreview, UNCHANGED <<appVars, pageVars>>, Note
  PROVE  PageInv'
<1>. DEFINE again == InEditor /\ ui.tab = "mobile" /\ RelayKnown
<1>1. /\ UNCHANGED <<stories, focusVars, generation, hydrates, owed, unseen, failed>>
      /\ phases' = IF again THEN Append(Ended, "waiting") ELSE Ended
      /\ session' = IF again THEN Len(phases) + 1 ELSE Nothing
  BY DEF EndMobilePreview, pageVars
<1>2. FocusInv'
  BY <1>1, FocusStays DEF PageInv
<1>3. Ended \in Seq(Phase) /\ Len(Ended) = Len(phases) /\ Len(phases) \in Nat
  <2>1. phases \in Seq(Phase)
    BY DEF PageInv, SessionInv
  <2>2. Ended \in [1 .. Len(phases) -> Phase]
    BY <2>1 DEF Ended, Phase
  <2>. QED
    BY <2>1, <2>2
<1>4. CASE again
  <2>1. PICK fields : fields = [panel |-> PanelOf(Len(phases) + 1, "waiting")]
    OBVIOUS
  <2>2. DOMAIN fields = {"panel"} /\ fields["panel"] = PanelOf(Len(phases) + 1, "waiting")
    BY <2>1
  <2>3. Edit(fields) /\ InEditor
    BY <1>4, <2>1 DEF EndMobilePreview
  <2>4. MayEdit(fields)
    BY <2>2 DEF MayEdit
  <2>5. ui'["panel"] = PanelOf(Len(phases) + 1, "waiting")
    BY <1>1, <2>2, <2>3, <2>4, Edited DEF PageInv
  <2>6. ui'.panel # Nothing /\ ui'.panel.phase = "waiting"
    BY <1>3, <2>5, PanelIsThere DEF Phase
  <2>7. /\ phases' \in Seq(Phase) /\ Len(phases') = Len(phases) + 1
        /\ phases'[Len(phases) + 1] = "waiting" /\ session' = Len(phases) + 1
    BY <1>1, <1>3, <1>4 DEF Phase
  <2>8. SessionInv'
    BY <1>3, <2>6, <2>7 DEF SessionInv
  <2>. QED
    BY <1>1, <1>2, <2>2, <2>3, <2>4, <2>8, EditKeeps
<1>5. CASE ~again
  <2>1. SessionInv'
    BY <1>1, <1>3, <1>5 DEF SessionInv
  <2>2. CASE InEditor
    <3>1. PICK fields : fields = [panel |-> Nothing]
      OBVIOUS
    <3>2. DOMAIN fields = {"panel"} /\ MayEdit(fields) /\ Edit(fields)
      BY <1>5, <2>2, <3>1 DEF EndMobilePreview, MayEdit
    <3>. QED
      BY <1>1, <1>2, <2>1, <2>2, <3>2, EditKeeps
  <2>3. CASE ~InEditor
    <3>1. UNCHANGED <<ui, shown>>
      BY <1>5, <2>3 DEF EndMobilePreview
    <3>. QED
      BY <1>1, <1>2, <2>1, <3>1, UnseenKeeps
  <2>. QED
    BY <2>2, <2>3
<1>. QED
  BY <1>4, <1>5

-----------------------------------------------------------------------------
(* hydrate()                                                                *)

\* A call begins: it is the only latest one, and knows the place.
LEMMA BeginKeeps ==
  ASSUME PageInv, BeginHydrate, UNCHANGED <<stories, focusVars, appVars>>, Note, owed' \in Nat,
         "view" \in DOMAIN ui', ui'.view = "loading", shown'.view = "loading"
  PROVE  PageInv'
<1>0. PICK new : new = [gen |-> generation + 1, at |-> "story", began |-> Revision,
                        previous |-> Place, seen |-> [p \in {} |-> 0]]
  OBVIOUS
<1>1. StoriesInv' /\ RegistrationInv' /\ Revision' = Revision /\ Story' = Story /\ Revision \in Nat
  BY OthersStay
<1>2. /\ generation' = generation + 1 /\ hydrates' = hydrates \cup {new}
      /\ UNCHANGED <<session, phases>> /\ generation \in Nat
  BY <1>0 DEF BeginHydrate, PageInv, HydratesInv
<1>3. /\ Place = [tab |-> Place.tab, selection |-> Place.selection]
      /\ Place.tab \in TopTab /\ Place.selection \in Selection
  BY DEF Place, Tip, TopTab, Selection, PageInv, ViewInv, EditorOk
<1>4. /\ DOMAIN new = {"gen", "at", "began", "previous", "seen"} /\ new.gen = generation + 1
      /\ new.at = "story" /\ new.began = Revision /\ new.previous = Place /\ DOMAIN new.seen = {}
  BY <1>0
<1>5. HydrateInv(new)'
  BY <1>1, <1>2, <1>3, <1>4 DEF HydrateInv, SeenBy
<1>6. ASSUME NEW h \in hydrates
      PROVE  HydrateInv(h)' /\ h.gen <= generation /\ h.gen \in Nat
  <2>1. HydrateInv(h)
    BY DEF PageInv, HydratesInv
  <2>. QED
    BY <1>1, <1>2, <2>1 DEF HydrateInv, SeenBy
<1>7. HydratesInv'
  BY <1>2, <1>4, <1>5, <1>6 DEF HydratesInv, PageInv
<1>8. new \in hydrates' /\ IsLatest(new)' /\ \A h \in hydrates' : IsLatest(h)' => h = new
  BY <1>2, <1>4, <1>6 DEF IsLatest
<1>9. ~InEditor' /\ place' = place /\ overlapped' = (ui.view = "loading")
  BY <1>2 DEF InEditor, Note
<1>10. ViewInv' /\ SessionInv'
  BY <1>2, <1>9 DEF ViewInv, SessionInv, PageInv
<1>11. PlaceInv'
  <2>1. IF ui.view = "loading" THEN Place = Tip ELSE Place = place
    BY DEF PageInv, PlaceInv, ViewInv, InEditor, Place
  <2>. QED
    BY <1>4, <1>8, <1>9, <2>1 DEF PlaceInv
<1>12. Coming(new)'
  BY <1>1, <1>4 DEF Coming
<1>13. FreshInv'
  BY <1>8, <1>12 DEF FreshInv
<1>14. FocusInv'
  BY FocusStays DEF PageInv
<1>. QED
  BY <1>1, <1>7, <1>10, <1>11, <1>13, <1>14 DEF PageInv

LEMMA RehydrateKeeps ==
  ASSUME PageInv, Rehydrate, shown.view # "none", owed' \in Nat, Note
  PROVE  PageInv'
<1>1. BeginHydrate /\ UNCHANGED <<stories, focusVars, appVars>>
  BY DEF Rehydrate, Hydrate, Unclaimed, focusVars
<1>2. ui' = Plain("loading") /\ shown' = [NotMounted EXCEPT !.view = "loading"]
  BY DEF Rehydrate, Hydrate, SetState, Plain
<1>3. "view" \in DOMAIN ui' /\ ui'.view = "loading" /\ shown'.view = "loading"
  BY <1>2 DEF Plain, NotMounted
<1>. QED
  BY <1>1, <1>3, BeginKeeps

LEMMA MountKeeps ==
  ASSUME PageInv, Mount, Note
  PROVE  PageInv'
<1>1. BeginHydrate /\ UNCHANGED <<stories, focusVars, appVars>> /\ owed' \in Nat
  BY DEF Mount, MountStoryUi, PageInv
<1>2. shown.view = "none" /\ ui' = ui /\ shown' = [NotMounted EXCEPT !.view = "loading"]
  BY DEF Mount, MountStoryUi
<1>3. "view" \in DOMAIN ui' /\ ui'.view = "loading" /\ shown'.view = "loading"
  BY <1>2 DEF NotMounted, PageInv, ViewInv
<1>. QED
  BY <1>1, <1>3, BeginKeeps

\* A call is done and has shown nothing.
LEMMA LeaveKeeps ==
  ASSUME PageInv, NEW h \in hydrates, hydrates' = hydrates \ {h}, failed => failed',
         IsLatest(h) => failed' \/ (h.at = "readiness" /\ ~InEditor),
         UNCHANGED <<stories, focusVars, appVars, ui, shown, generation, session, phases, owed, unseen>>, Note
  PROVE  PageInv'
<1>1. StoriesInv' /\ RegistrationInv' /\ Revision' = Revision /\ Story' = Story /\ Revision \in Nat
  BY OthersStay
<1>2. FocusInv' /\ SessionInv' /\ ViewInv'
  BY <1>1, FocusStays, SessionStays DEF PageInv, ViewInv, InEditor, EditorOk
<1>3. HydratesInv'
  <2>1. ASSUME NEW g, HydrateInv(g) PROVE HydrateInv(g)'
    BY <1>1, <2>1 DEF HydrateInv, SeenBy
  <2>. QED
    BY <2>1 DEF HydratesInv, PageInv
<1>4. PlaceInv'
  BY NoteStays DEF PageInv, IsLatest
<1>5. FreshInv'
  <2>1. \A g : Coming(g) => Coming(g)'
    BY <1>1 DEF Coming, ShownIsCurrent, InEditor
  <2>2. \A g : IsLatest(g)' = IsLatest(g)
    BY DEF IsLatest
  <2>3. Arrived => Arrived'
    BY <1>1 DEF Arrived, ShownIsCurrent, InEditor
  <2>4. SUFFICES ASSUME shown.view # "none", owed = 0, ~unseen
                 PROVE  /\ \A g \in hydrates' : IsLatest(g)' => Coming(g)'
                        /\ (\A g \in hydrates' : ~IsLatest(g)') => failed' \/ Arrived'
    BY DEF FreshInv
  <2>5. /\ \A g \in hydrates : IsLatest(g) => Coming(g)
        /\ (\A g \in hydrates : ~IsLatest(g)) => failed \/ Arrived
    BY <2>4 DEF PageInv, FreshInv
  <2>6. IsLatest(h) => failed'
    BY <2>5 DEF Coming, ShownIsCurrent
  <2>. QED
    BY <2>1, <2>2, <2>3, <2>5, <2>6
<1>. QED
  BY <1>1, <1>2, <1>3, <1>4, <1>5 DEF PageInv

\* The latest call reads on.
LEMMA ReadOnKeeps ==
  ASSUME PageInv, NEW h \in hydrates, IsLatest(h), NEW k, HydrateInv(k), hydrates' = (hydrates \ {h}) \cup {k},
         k.gen = h.gen, k.previous = h.previous, Coming(h) => Coming(k),
         UNCHANGED <<stories, focusVars, appVars, ui, shown, generation, session, phases, owed, unseen, failed>>, Note
  PROVE  PageInv'
<1>1. StoriesInv' /\ RegistrationInv' /\ Revision' = Revision /\ Story' = Story /\ Revision \in Nat
  BY OthersStay
<1>2. FocusInv' /\ SessionInv' /\ ViewInv'
  BY <1>1, FocusStays, SessionStays DEF PageInv, ViewInv, InEditor, EditorOk
<1>3. HydratesInv'
  <2>1. ASSUME NEW g, HydrateInv(g) PROVE HydrateInv(g)'
    BY <1>1, <2>1 DEF HydrateInv, SeenBy
  <2>. QED
    BY <2>1 DEF HydratesInv, PageInv
<1>4. PlaceInv'
  BY NoteStays DEF PageInv, IsLatest
<1>5. FreshInv'
  <2>1. \A g : Coming(g) => Coming(g)'
    BY <1>1 DEF Coming, ShownIsCurrent, InEditor
  <2>2. \A g : IsLatest(g)' = IsLatest(g)
    BY DEF IsLatest
  <2>3. IsLatest(k)'
    BY DEF IsLatest
  <2>. QED
    BY <2>1, <2>2, <2>3 DEF PageInv, FreshInv
<1>. QED
  BY <1>1, <1>2, <1>3, <1>4, <1>5 DEF PageInv

\* A read that another one follows.
LEMMA GoOnKeeps ==
  ASSUME PageInv, NEW h \in hydrates, NEW at \in {"meta", "list", "texts"}, NEW seen, GoOn(h, at, seen),
         IsLatest(h) =>
           /\ DOMAIN h.seen \cup DOMAIN seen = SeenBy(at) /\ h.at # "readiness"
           /\ "story" \in DOMAIN seen \cup DOMAIN h.seen
           /\ "story" \in DOMAIN seen => seen["story"] = Story /\ Story # NoStory
           /\ "story" \notin DOMAIN seen => h.at # "story"
           /\ "revision" \in DOMAIN seen \/ h.at # "story"
           /\ \A f \in DOMAIN seen \ {"story"} : seen[f] = Revision,
         UNCHANGED <<stories, query, appVars, pageVars>>, Note
  PROVE  PageInv'
<1>1. /\ UNCHANGED <<stories, focusVars, appVars, ui, shown, generation, session, phases>>
      /\ UNCHANGED <<owed, unseen, failed>>
  BY DEF GoOn, Unclaimed, focusVars, pageVars
<1>2. CASE ~IsLatest(h)
  <2>1. hydrates' = hydrates \ {h}
    BY <1>2 DEF GoOn
  <2>. QED
    BY <1>1, <1>2, <2>1, LeaveKeeps
<1>3. CASE IsLatest(h)
  <2>1. PICK k : k = [h EXCEPT !.at = at, !.seen = With(@, seen)]
    OBVIOUS
  <2>2. hydrates' = (hydrates \ {h}) \cup {k}
    BY <1>3, <2>1 DEF GoOn
  <2>3. HydrateInv(h) /\ Revision \in Nat /\ Story \in StoryToWrite \cup {NoStory}
    BY RevisionIsNat DEF PageInv, HydratesInv
  <2>4. /\ DOMAIN k = {"gen", "at", "began", "previous", "seen"}
        /\ k.at = at /\ k.gen = h.gen /\ k.began = h.began /\ k.previous = h.previous
        /\ k.seen = With(h.seen, seen)
    BY <2>1, <2>3 DEF HydrateInv
  <2>5. /\ DOMAIN k.seen = SeenBy(at)
        /\ \A f \in DOMAIN k.seen : k.seen[f] = IF f \in DOMAIN seen THEN seen[f] ELSE h.seen[f]
    BY <1>3, <2>4 DEF With
  <2>6. "story" \in SeenBy(at) /\ "revision" \in SeenBy(at)
    BY DEF SeenBy
  <2>7. k.seen["story"] = IF "story" \in DOMAIN seen THEN Story ELSE h.seen["story"]
    BY <1>3, <2>5, <2>6
  <2>8. k.seen["revision"] = IF "revision" \in DOMAIN seen THEN Revision ELSE h.seen["revision"]
    BY <1>3, <2>5, <2>6
  <2>9. /\ k.seen.story \in StoryToWrite /\ k.seen.revision \in Nat /\ k.seen.revision <= Revision
    BY <1>3, <2>3, <2>7, <2>8 DEF HydrateInv
  <2>10. HydrateInv(k)
    BY <2>3, <2>4, <2>5, <2>9 DEF HydrateInv
  <2>11. ASSUME Coming(h) PROVE Coming(k)
    <3>1. h.at # "readiness" /\ k.at # "readiness" /\ k.began = Revision
      BY <1>3, <2>4, <2>11 DEF Coming
    <3>2. k.seen.story = Story /\ Story # NoStory
      BY <1>3, <2>7, <2>11, <3>1 DEF Coming
    <3>3. \A f \in DOMAIN k.seen \ {"story"} : k.seen[f] = Revision
      BY <1>3, <2>5, <2>11, <3>1 DEF Coming
    <3>. QED
      BY <3>1, <3>2, <3>3 DEF Coming
  <2>. QED
    BY <1>1, <1>3, <2>2, <2>4, <2>10, <2>11, ReadOnKeeps
<1>. QED
  BY <1>2, <1>3

\* There is nothing to edit.
LEMMA NoEditorKeeps ==
  ASSUME PageInv, NEW h \in hydrates, IsLatest(h), NEW view \in {"create", "error"}, NoEditor(h, view),
         view = "create" => Story = NoStory, view = "error" => ~Coming(h),
         UNCHANGED <<stories, query, appVars, pageVars>>, Note
  PROVE  PageInv'
<1>1. StoriesInv' /\ RegistrationInv' /\ Revision' = Revision /\ Story' = Story /\ Revision \in Nat
  BY OthersStay
<1>2. /\ hydrates' = hydrates \ {h} /\ generation' = generation /\ UNCHANGED focusVars
      /\ phases' = Ended /\ session' = Nothing /\ UNCHANGED <<owed, unseen, failed>>
  BY DEF NoEditor, Leave, Unclaimed, focusVars, pageVars
<1>3. shown.view # "none"
  BY DEF PageInv, ViewInv
<1>4. ui' = Plain(view) /\ shown' = [NotMounted EXCEPT !.view = view]
  BY <1>3 DEF NoEditor, SetState, Plain
<1>5. "view" \in DOMAIN ui' /\ ui'.view = view /\ shown'.view = view /\ ~InEditor'
  BY <1>4 DEF Plain, NotMounted, InEditor
<1>6. FocusInv' /\ ViewInv'
  BY <1>2, <1>5, FocusStays DEF PageInv, ViewInv
<1>7. HydratesInv'
  <2>1. ASSUME NEW g, HydrateInv(g) PROVE HydrateInv(g)'
    BY <1>1, <1>2, <2>1 DEF HydrateInv, SeenBy
  <2>. QED
    BY <1>2, <2>1 DEF HydratesInv, PageInv
<1>8. SessionInv'
  <2>1. phases \in Seq(Phase)
    BY DEF PageInv, SessionInv
  <2>2. Ended \in [1 .. Len(phases) -> Phase]
    BY <2>1 DEF Ended, Phase
  <2>3. Ended \in Seq(Phase)
    BY <2>1, <2>2
  <2>. QED
    BY <1>2, <1>5, <2>3 DEF SessionInv
<1>9. PlaceInv'
  BY <1>5 DEF PlaceInv, Note, InEditor
<1>10. FreshInv'
  <2>1. \A g \in hydrates' : ~IsLatest(g)'
    BY <1>2 DEF IsLatest, PageInv, HydratesInv
  <2>2. (owed = 0 /\ ~unseen) => Coming(h)
    BY <1>3 DEF PageInv, FreshInv
  <2>3. (owed = 0 /\ ~unseen) => Arrived'
    BY <1>1, <1>5, <2>2 DEF Arrived
  <2>. QED
    BY <1>2, <2>1, <2>3 DEF FreshInv
<1>. QED
  BY <1>1, <1>2, <1>6, <1>7, <1>8, <1>9, <1>10 DEF PageInv

\* The editor that is shown, field by field.
LEMMA EditorShownAnew ==
  ASSUME PageInv, NEW h \in hydrates, h.at = "texts", ShowEditor(h), UNCHANGED stories
  PROVE  /\ EditorOk(ui)' /\ InEditor' /\ ui'.start = Nothing
         /\ shown'.view = "editor" /\ shown'.tab = ui'.tab
         /\ (shown'.reader # Nothing) <=> (ui'.tab = "preview")
         /\ \A f \in DOMAIN h.seen : ui'[f] = h.seen[f]
         /\ ui'["tab"] = h.previous.tab /\ ui'["selection"] = h.previous.selection
         /\ ui'["panel"] = Panel /\ ui'["texts"] = Revision
<1>1. PICK more : more = [view |-> "editor", tab |-> h.previous.tab, selection |-> h.previous.selection,
                          start |-> Nothing, panel |-> CurrentPanel, texts |-> Revision, readiness |-> Nothing]
  OBVIOUS
<1>2. /\ DOMAIN more = {"view", "tab", "selection", "start", "panel", "texts", "readiness"}
      /\ more["view"] = "editor" /\ more["tab"] = h.previous.tab /\ more["selection"] = h.previous.selection
      /\ more["start"] = Nothing /\ more["panel"] = Panel /\ more["texts"] = Revision
  BY <1>1 DEF CurrentPanel
<1>3. PICK next : next = With(h.seen, more)
  OBVIOUS
<1>4. SetState(next)
  BY <1>1, <1>3 DEF ShowEditor
<1>5. HydrateInv(h) /\ Revision \in Nat
  BY RevisionIsNat DEF PageInv, HydratesInv
<1>6. DOMAIN h.seen = {"story", "revision", "title", "media"}
  BY <1>5 DEF HydrateInv, SeenBy
<1>7. DOMAIN next = EditorFields
  BY <1>2, <1>3, <1>6 DEF With, EditorFields
<1>8. /\ \A f \in DOMAIN h.seen : next[f] = h.seen[f]
      /\ \A f \in DOMAIN more : next[f] = more[f]
  BY <1>2, <1>3, <1>6 DEF With
<1>9. EditorOk(next) /\ next.start = Nothing
  <2>1. /\ next.view = "editor" /\ next.tab = h.previous.tab /\ next.selection = h.previous.selection
        /\ next.start = Nothing /\ next.story = h.seen.story /\ next.revision = h.seen.revision
    BY <1>2, <1>6, <1>8
  <2>. QED
    BY <1>5, <1>7, <2>1 DEF EditorOk, HydrateInv, Selection
<1>10. /\ shown.view # "none"
       /\ shown.view = "editor" => ((shown.reader # Nothing) <=> (shown.tab = "preview"))
  BY DEF PageInv, ViewInv, InEditor
<1>11. /\ DOMAIN ui' = EditorFields /\ ui'.start = Nothing
       /\ \A f \in EditorFields \ {"start"} : ui'[f] = next[f]
       /\ shown'.view = "editor" /\ shown'.tab = next.tab
       /\ (shown'.reader # Nothing) <=> (next.tab = "preview")
  BY <1>4, <1>9, <1>10, EditorIsShown
<1>12. EditorOk(ui)'
  BY <1>9, <1>11 DEF EditorOk, EditorFields, Revision, Selection
<1>13. ui'["tab"] = next["tab"] /\ ui'["selection"] = next["selection"]
       /\ ui'["panel"] = next["panel"] /\ ui'["texts"] = next["texts"] /\ ui'["view"] = next["view"]
  BY <1>11 DEF EditorFields
<1>14. \A f \in DOMAIN h.seen : ui'[f] = h.seen[f]
  BY <1>6, <1>8, <1>11 DEF EditorFields
<1>. QED
  BY <1>2, <1>8, <1>9, <1>11, <1>12, <1>13, <1>14 DEF EditorOk, InEditor

LEMMA ShowEditorKeeps ==
  ASSUME PageInv, NEW h \in hydrates, IsLatest(h), h.at = "texts", ShowEditor(h),
         UNCHANGED <<stories, query, appVars, pageVars>>, Note
  PROVE  PageInv'
<1>1. StoriesInv' /\ RegistrationInv' /\ Revision' = Revision /\ Story' = Story /\ Revision \in Nat
  BY OthersStay
<1>2. /\ UNCHANGED <<generation, session, phases, owed, unseen, failed>>
      /\ hydrates' = (hydrates \ {h}) \cup {[h EXCEPT !.at = "readiness"]}
  BY DEF ShowEditor, pageVars
<1>3. /\ EditorOk(ui)' /\ InEditor' /\ ui'.start = Nothing
      /\ shown'.view = "editor" /\ shown'.tab = ui'.tab
      /\ (shown'.reader # Nothing) <=> (ui'.tab = "preview")
      /\ \A f \in DOMAIN h.seen : ui'[f] = h.seen[f]
      /\ ui'["tab"] = h.previous.tab /\ ui'["selection"] = h.previous.selection
      /\ ui'["panel"] = Panel /\ ui'["texts"] = Revision
  BY EditorShownAnew
<1>4. HydrateInv(h)
  BY DEF PageInv, HydratesInv
<1>5. PICK k : k = [h EXCEPT !.at = "readiness"]
  OBVIOUS
<1>6. /\ DOMAIN k = DOMAIN h /\ k.at = "readiness" /\ k.gen = h.gen /\ k.began = h.began
      /\ k.previous = h.previous /\ k.seen = h.seen
  BY <1>4, <1>5 DEF HydrateInv
<1>7. HydratesInv'
  <2>1. ASSUME NEW g, HydrateInv(g) PROVE HydrateInv(g)'
    BY <1>1, <1>2, <2>1 DEF HydrateInv, SeenBy
  <2>2. HydrateInv(k)
    BY <1>4, <1>6 DEF HydrateInv, SeenBy
  <2>3. hydrates' = (hydrates \ {h}) \cup {k} /\ generation' = generation /\ k.gen = h.gen
    BY <1>2, <1>5, <1>6
  <2>. QED
    BY <2>1, <2>2, <2>3 DEF HydratesInv, PageInv
<1>8. FocusInv'
  <2>1. CASE Unclaimed
    BY <2>1, FocusStays DEF PageInv, Unclaimed, focusVars
  <2>2. CASE ~Unclaimed
    <3>1. h.previous.selection \in Chapters /\ h.seen.story \in StoryToWrite
      BY <1>4, <2>2 DEF ShowEditor, HydrateInv, Selection
    <3>2. PICK claim \in ClaimOf : Claim(claim)
      BY <2>2, <3>1, ClaimOfEditor DEF ShowEditor
    <3>. QED
      BY <3>2, ClaimKeeps DEF PageInv
  <2>. QED
    BY <2>1, <2>2
<1>9. ViewInv'
  BY <1>3 DEF ViewInv, EditorOk, EditorFields
<1>10. SessionInv'
  <2>1. phases \in Seq(Phase) /\ (session # Nothing => session = Len(phases) /\ Len(phases) > 0)
    BY DEF PageInv, SessionInv
  <2>2. ASSUME session # Nothing
        PROVE  ui'.panel # Nothing /\ (ui'.panel.session = session => ui'.panel.phase = phases[session])
    <3>1. session \in Nat /\ phases[session] \in Phase
      BY <2>1, <2>2
    <3>2. ui'.panel = PanelOf(session, phases[session])
      BY <1>3, <2>2 DEF Panel
    <3>. QED
      BY <3>1, <3>2, PanelIsThere
  <2>. QED
    BY <1>2, <2>1, <2>2 DEF SessionInv
<1>11. PlaceInv'
  BY <1>3 DEF PlaceInv, Note, InEditor
<1>12. FreshInv'
  <2>1. SUFFICES ASSUME owed = 0, ~unseen
                 PROVE  /\ \A g \in hydrates' : IsLatest(g)' => Coming(g)'
                        /\ \E g \in hydrates' : IsLatest(g)'
    BY <1>2 DEF FreshInv
  <2>2. Coming(h)
    BY <2>1 DEF PageInv, FreshInv, ViewInv
  <2>3. DOMAIN h.seen = {"story", "revision", "title", "media"}
    BY <1>4 DEF HydrateInv, SeenBy
  <2>4. ShownIsCurrent'
    <3>1. ui'["story"] = h.seen["story"] /\ ui'["revision"] = h.seen["revision"]
          /\ ui'["title"] = h.seen["title"] /\ ui'["media"] = h.seen["media"]
      BY <1>3, <2>3
    <3>. QED
      BY <1>1, <1>3, <2>2, <2>3, <3>1 DEF Coming, ShownIsCurrent
  <2>5. Coming(k)'
    BY <1>1, <1>6, <2>2, <2>4 DEF Coming
  <2>6. \A g \in hydrates' : IsLatest(g)' => g = k
    BY <1>2, <1>5, <1>6 DEF IsLatest, PageInv, HydratesInv
  <2>7. k \in hydrates' /\ IsLatest(k)'
    BY <1>2, <1>5, <1>6 DEF IsLatest
  <2>. QED
    BY <2>5, <2>6, <2>7
<1>. QED
  BY <1>1, <1>2, <1>7, <1>8, <1>9, <1>10, <1>11, <1>12 DEF PageInv

\* The readiness of the story is shown beside it.
LEMMA ReadinessKeeps ==
  ASSUME PageInv, NEW h \in hydrates, ReadReadiness(h),
         UNCHANGED <<stories, query, appVars, pageVars>>, Note
  PROVE  PageInv'
<1>1. /\ UNCHANGED <<stories, focusVars, appVars, generation, session, phases, owed, unseen, failed>>
      /\ hydrates' = hydrates \ {h} /\ h.at = "readiness"
  BY DEF ReadReadiness, Leave, Unclaimed, focusVars, pageVars
<1>2. CASE ~(IsLatest(h) /\ InEditor)
  <2>1. UNCHANGED <<ui, shown>>
    BY <1>2 DEF ReadReadiness
  <2>. QED
    BY <1>1, <1>2, <2>1, LeaveKeeps
<1>3. CASE IsLatest(h) /\ InEditor
  <2>1. StoriesInv' /\ RegistrationInv' /\ Revision' = Revision /\ Story' = Story /\ Revision \in Nat
    BY OthersStay
  <2>2. PICK fields : fields = [readiness |-> Revision]
    OBVIOUS
  <2>3. DOMAIN fields = {"readiness"} /\ fields["readiness"] = Revision /\ Edit(fields)
    BY <1>3, <2>2 DEF ReadReadiness
  <2>4. MayEdit(fields)
    BY <2>3 DEF MayEdit
  <2>5. /\ ViewInv' /\ InEditor' /\ ui'["readiness"] = Revision
        /\ \A f \in EditorFields \ {"start", "readiness"} : ui'[f] = ui[f]
    BY <1>1, <1>3, <2>3, <2>4, Edited DEF PageInv
  <2>6. UNCHANGED <<ui.story, ui.revision, ui.title, ui.media, ui.texts, ui.panel>>
    BY <2>5 DEF EditorFields
  <2>7. FocusInv' /\ SessionInv'
    BY <1>1, <1>3, <2>6, FocusStays DEF PageInv, SessionInv
  <2>8. HydratesInv'
    <3>1. ASSUME NEW g, HydrateInv(g) PROVE HydrateInv(g)'
      BY <1>1, <2>1, <3>1 DEF HydrateInv, SeenBy
    <3>. QED
      BY <1>1, <3>1 DEF HydratesInv, PageInv
  <2>9. PlaceInv'
    BY <2>5 DEF PlaceInv, Note, InEditor
  <2>10. FreshInv'
    <3>1. \A g \in hydrates' : ~IsLatest(g)'
      BY <1>1, <1>3 DEF IsLatest, PageInv, HydratesInv
    <3>2. (owed = 0 /\ ~unseen) => Coming(h)
      BY <1>3 DEF PageInv, FreshInv, ViewInv
    <3>3. Coming(h) => ShownIsCurrent
      BY <1>1 DEF Coming
    <3>4. ShownIsCurrent => ShownIsCurrent'
      BY <2>1, <2>5, <2>6 DEF ShownIsCurrent
    <3>5. (owed = 0 /\ ~unseen) => Arrived'
      BY <2>1, <2>5, <3>2, <3>3, <3>4 DEF Arrived, ShownIsCurrent
    <3>. QED
      BY <1>1, <3>1, <3>5 DEF FreshInv
  <2>. QED
    BY <1>1, <2>1, <2>5, <2>7, <2>8, <2>9, <2>10 DEF PageInv
<1>. QED
  BY <1>2, <1>3

LEMMA HydrateStepKeeps ==
  ASSUME PageInv, NEW h \in hydrates, HydrateStep(h), UNCHANGED <<appVars, pageVars>>, Note
  PROVE  PageInv'
<1>1. UNCHANGED <<stories, query>>
  BY DEF HydrateStep
<1>2. HydrateInv(h) /\ Revision \in Nat /\ Story \in StoryToWrite \cup {NoStory}
  BY RevisionIsNat DEF PageInv, HydratesInv
<1>3. CASE ReadStory(h)
  <2>1. CASE (Story # NoStory \/ ~IsLatest(h)) /\ GoOn(h, "meta", [story |-> Story, revision |-> Revision])
    <3>1. PICK seen : seen = [story |-> Story, revision |-> Revision]
      OBVIOUS
    <3>2. DOMAIN seen = {"story", "revision"} /\ seen["story"] = Story /\ seen["revision"] = Revision
      BY <3>1
    <3>3. DOMAIN h.seen = {} /\ h.at = "story"
      BY <1>2, <1>3 DEF ReadStory, HydrateInv, SeenBy
    <3>4. DOMAIN h.seen \cup DOMAIN seen = SeenBy("meta")
      BY <3>2, <3>3 DEF SeenBy
    <3>5. GoOn(h, "meta", seen)
      BY <2>1, <3>1
    <3>. QED
      BY <1>1, <2>1, <3>2, <3>3, <3>4, <3>5, GoOnKeeps
  <2>2. CASE IsLatest(h) /\ Story = NoStory /\ NoEditor(h, "create")
    BY <1>1, <2>2, NoEditorKeeps
  <2>3. CASE IsLatest(h) /\ Revision - h.began >= MaxAttempts /\ NoEditor(h, "error")
    <3>1. ~Coming(h)
      BY <1>2, <2>3, PageAssumption DEF Coming
    <3>. QED
      BY <1>1, <2>3, <3>1, NoEditorKeeps
  <2>. QED
    BY <1>3, <2>1, <2>2, <2>3 DEF ReadStory
<1>4. ASSUME NEW at \in {"list", "texts"}, NEW f \in {"title", "media"}, NEW seen, GoOn(h, at, seen),
             DOMAIN seen = {f}, seen[f] = Revision, h.at \notin {"story", "readiness"},
             SeenBy(at) = SeenBy(h.at) \cup {f}
      PROVE  PageInv'
  <2>1. DOMAIN h.seen \cup DOMAIN seen = SeenBy(at) /\ "story" \in DOMAIN h.seen
    BY <1>2, <1>4 DEF HydrateInv, SeenBy
  <2>. QED
    BY <1>1, <1>4, <2>1, GoOnKeeps
<1>5. CASE ReadMeta(h)
  <2>1. PICK seen : seen = [title |-> Revision]
    OBVIOUS
  <2>2. DOMAIN seen = {"title"} /\ seen["title"] = Revision
    BY <2>1
  <2>3. h.at = "meta" /\ GoOn(h, "list", seen)
    BY <1>5, <2>1 DEF ReadMeta
  <2>4. SeenBy("list") = SeenBy("meta") \cup {"title"}
    BY DEF SeenBy
  <2>. QED
    BY <1>4, <2>2, <2>3, <2>4
<1>6. CASE ListFiles(h)
  <2>1. PICK seen : seen = [media |-> Revision]
    OBVIOUS
  <2>2. DOMAIN seen = {"media"} /\ seen["media"] = Revision
    BY <2>1
  <2>3. h.at = "list" /\ GoOn(h, "texts", seen)
    BY <1>6, <2>1 DEF ListFiles
  <2>4. SeenBy("texts") = SeenBy("list") \cup {"media"}
    BY DEF SeenBy
  <2>. QED
    BY <1>4, <2>2, <2>3, <2>4
<1>7. CASE ReadTexts(h) /\ IsLatest(h)
  BY <1>1, <1>7, ShowEditorKeeps DEF ReadTexts
<1>8. CASE ReadTexts(h) /\ ~IsLatest(h)
  BY <1>1, <1>8, GoOnKeeps DEF ReadTexts
<1>9. CASE ReadReadiness(h)
  BY <1>1, <1>9, ReadinessKeeps
<1>. QED
  BY <1>3, <1>5, <1>6, <1>7, <1>8, <1>9 DEF HydrateStep

-----------------------------------------------------------------------------
(* Every step                                                               *)

LEMMA NextKeeps == PageInv /\ [Next]_vars => PageInv'
<1>. SUFFICES ASSUME PageInv, [Next]_vars PROVE PageInv'
  OBVIOUS
<1>. owed \in Nat
  BY DEF PageInv
<1>1. CASE UNCHANGED vars
  <2>1. UNCHANGED <<stories, focusVars, appVars, ui, shown, generation, hydrates, session, phases>>
    BY <1>1 DEF vars, uiVars
  <2>2. UNCHANGED <<owed, unseen, failed, place, overlapped>>
    BY <1>1 DEF vars, pageVars
  <2>3. StoriesInv' /\ RegistrationInv' /\ Revision' = Revision /\ Story' = Story /\ Revision \in Nat
    BY <2>1, OthersStay
  <2>4. FocusInv' /\ SessionInv' /\ HydratesInv' /\ ViewInv'
    BY <2>1, <2>3, FocusStays, SessionStays, HydratesGrow, ViewGrows DEF PageInv
  <2>5. PlaceInv'
    BY <2>1, <2>2 DEF PageInv, PlaceInv, InEditor, IsLatest
  <2>6. FreshInv'
    BY <2>1, <2>2, <2>3 DEF PageInv, FreshInv, IsLatest, Coming, Arrived, ShownIsCurrent, InEditor
  <2>. QED
    BY <2>2, <2>3, <2>4, <2>5, <2>6 DEF PageInv
<1>. SUFFICES ASSUME Next PROVE PageInv'
  BY <1>1
<1>2. Note
  BY DEF Next
<1>3. CASE AgentWrites
  BY <1>2, <1>3, WriteKeeps DEF AgentWrites, Write
<1>4. CASE Deleting
  <2>1. CASE BatchDeleted
    <3>1. PICK story \in StoryToWrite \cup {NoStory} : stories' = Append(stories, story)
      BY <2>1, RevisionIsNat DEF BatchDeleted, PageInv
    <3>. QED
      BY <1>2, <2>1, <3>1, WriteKeeps DEF BatchDeleted
  <2>2. CASE DeleteStory \/ DeletionDone \/ DeletionFails
    <3>1. /\ UNCHANGED <<stories, focusVars, uiVars, appVars, unseen, failed>>
          /\ owed' \in {owed, owed + 1}
      BY <2>2 DEF DeleteStory, DeletionDone, DeletionFails
    <3>2. FocusInv' /\ RegistrationInv'
      BY <3>1, FocusStays, RegistrationKeeps DEF PageInv
    <3>. QED
      BY <1>2, <3>1, <3>2, ElsewhereKeeps
  <2>. QED
    BY <1>4, <2>1, <2>2 DEF Deleting
<1>5. CASE OtherTabWrites
  BY <1>2, <1>5, WriteKeeps DEF OtherTabWrites, Write
<1>6. CASE OnMutated
  <2>1. owed > 0 /\ owed' = owed - 1 /\ owed' \in Nat
    BY <1>6 DEF OnMutated
  <2>2. CASE shown.view # "none"
    BY <1>2, <1>6, <2>1, <2>2, RehydrateKeeps DEF OnMutated
  <2>3. CASE shown.view = "none"
    <3>1. UNCHANGED <<stories, focusVars, uiVars, appVars, unseen, failed>>
      BY <1>6, <2>3 DEF OnMutated
    <3>2. UNCHANGED <<ui, shown, generation, hydrates, session, phases>>
      BY <3>1 DEF uiVars
    <3>3. StoriesInv' /\ RegistrationInv' /\ Revision' = Revision /\ Revision \in Nat
      BY <3>1, OthersStay
    <3>4. FocusInv' /\ SessionInv' /\ HydratesInv' /\ ViewInv'
      BY <3>1, <3>2, <3>3, FocusStays, SessionStays, HydratesGrow, ViewGrows DEF PageInv
    <3>5. PlaceInv'
      BY <1>2, <3>2, NoteStays DEF PageInv, IsLatest
    <3>6. FreshInv'
      BY <2>3, <3>2 DEF FreshInv
    <3>. QED
      BY <2>1, <3>3, <3>4, <3>5, <3>6 DEF PageInv
  <2>. QED
    BY <2>2, <2>3
<1>7. CASE Refresh
  BY <1>2, <1>7, RehydrateKeeps DEF Refresh
<1>8. CASE Mount
  BY <1>2, <1>8, MountKeeps
<1>9. CASE Hydrating
  <2>1. PICK h \in hydrates :
          \/ HydrateStep(h) /\ UNCHANGED <<appVars, pageVars>>
          \/ /\ ReadThrows(h) /\ failed' = (failed \/ IsLatest(h))
             /\ UNCHANGED <<stories, query, appVars, bound, owed, deleting, unseen>>
    BY <1>9 DEF Hydrating
  <2>2. CASE HydrateStep(h) /\ UNCHANGED <<appVars, pageVars>>
    BY <1>2, <2>2, HydrateStepKeeps
  <2>3. CASE /\ ReadThrows(h) /\ failed' = (failed \/ IsLatest(h))
             /\ UNCHANGED <<stories, query, appVars, bound, owed, deleting, unseen>>
    <3>1. /\ hydrates' = hydrates \ {h}
          /\ UNCHANGED <<stories, focusVars, appVars, ui, shown, generation, session, phases, owed, unseen>>
      BY <2>3 DEF ReadThrows, Leave, Unclaimed, focusVars
    <3>2. (failed => failed') /\ (IsLatest(h) => failed')
      BY <2>3
    <3>. QED
      BY <1>2, <3>1, <3>2, LeaveKeeps
  <2>. QED
    BY <2>1, <2>2, <2>3
<1>10. CASE Creator
  BY <1>2, <1>10, ClickKeeps DEF Creator
<1>11. CASE Previewing
  <2>. UNCHANGED <<appVars, pageVars>>
    BY <1>11 DEF Previewing
  <2>1. ASSUME NEW s \in DOMAIN phases, SessionMoves(s) PROVE PageInv'
    <3>1. PICK phase \in Phase : Emit(s, phase)
      BY <2>1 DEF SessionMoves, Phase
    <3>. QED
      BY <1>2, <3>1, EmitKeeps
  <2>2. ASSUME NEW s \in DOMAIN phases, LateEmission(s) PROVE PageInv'
    BY <1>2, <2>2, EmitKeeps DEF LateEmission, Phase
  <2>3. CASE ApproveMobilePairing \/ RejectMobilePairing
    <3>1. session \in DOMAIN phases
      <4>1. session # Nothing /\ phases \in Seq(Phase)
        BY <2>3 DEF ApproveMobilePairing, RejectMobilePairing, PageInv, SessionInv
      <4>. QED
        BY <4>1 DEF PageInv, SessionInv
    <3>2. PICK phase \in Phase : Emit(session, phase)
      BY <2>3 DEF ApproveMobilePairing, RejectMobilePairing, Phase
    <3>. QED
      BY <1>2, <3>1, <3>2, EmitKeeps
  <2>4. CASE EndMobilePreview
    BY <1>2, <2>4, EndKeeps
  <2>. QED
    BY <1>11, <2>1, <2>2, <2>3, <2>4 DEF Previewing
<1>12. CASE Lifecycle
  <2>1. UNCHANGED <<stories, focusVars, uiVars, pageVars>> /\ AppStep
    BY <1>12 DEF Lifecycle, AppStep
  <2>2. FocusInv' /\ RegistrationInv'
    BY <2>1, FocusStays, RegistrationKeeps DEF PageInv
  <2>3. UNCHANGED <<owed, unseen, failed>>
    BY <2>1 DEF pageVars
  <2>. QED
    BY <1>2, <2>1, <2>2, <2>3, ElsewhereKeeps
<1>13. CASE Focusing
  <2>1. FocusStep /\ UNCHANGED <<uiVars, appVars, pageVars>>
    BY <1>13 DEF Focusing
  <2>2. UNCHANGED stories /\ FocusInv'
    BY <2>1, FocusSteps DEF PageInv
  <2>3. RegistrationInv'
    BY <2>1, RegistrationKeeps DEF PageInv
  <2>4. UNCHANGED <<owed, unseen, failed>>
    BY <2>1 DEF pageVars
  <2>. QED
    BY <1>2, <2>1, <2>2, <2>3, <2>4, ElsewhereKeeps
<1>. QED
  BY <1>3, <1>4, <1>5, <1>6, <1>7, <1>8, <1>9, <1>10, <1>11, <1>12, <1>13 DEF Next

LEMMA AlwaysPageInv == Spec => []PageInv
<1>. QED
  BY InitKeeps, NextKeeps, PTL DEF Spec

-----------------------------------------------------------------------------
(* What follows                                                             *)

\* The state of the controller and what is mounted belong together in every state
\* (dom.ts:112-132, controller.ts:326-331).
THEOREM PageTypes == Spec => []TypeOK
<1>1. PageInv => TypeOK
  <2>. SUFFICES ASSUME PageInv PROVE TypeOK
    OBVIOUS
  <2>1. InEditor => ui.revision \in 0 .. Revision
    BY RevisionIsNat DEF PageInv, ViewInv, EditorOk
  <2>2. /\ ui.view \in {"loading", "create", "error", "editor"} /\ shown.view \in {"none", ui.view}
        /\ InEditor => /\ ui.tab = shown.tab /\ ui.start = Nothing
                       /\ (shown.reader # Nothing) <=> (ui.tab = "preview")
    BY DEF PageInv, ViewInv
  <2>3. session # Nothing => session = Len(phases)
    BY DEF PageInv, SessionInv
  <2>4. \A h \in hydrates : h.gen \in 1 .. generation
    BY DEF PageInv, HydratesInv, HydrateInv
  <2>. QED
    BY <2>1, <2>2, <2>3, <2>4 DEF TypeOK
<1>. QED
  BY <1>1, AlwaysPageInv, PTL

\* The tools of a batch are mounted together or not at all, on a page where batches are
\* made while earlier ones settle or are taken back (facade.ts:206-239).
THEOREM AllOrNothingTheorem == Spec => []AllOrNothing
<1>1. PageInv => AllOrNothing
  BY NoneIsMounted DEF PageInv
<1>. QED
  BY <1>1, AlwaysPageInv, PTL

\* The failure that is shown is of the last registration, and names all that failed in
\* it (app.ts:189-203, facade.ts:246-257).
THEOREM ErrorTheorem == Spec => []ErrorIsOfLastBatch
<1>1. PageInv => ErrorIsOfLastBatch
  BY ErrorIsCurrent DEF PageInv
<1>. QED
  BY <1>1, AlwaysPageInv, PTL

\* When every hydrate() is done that was called for, and nothing was written since by who
\* may never call it, all that is on the screen is of the current revision, through
\* deletions that fail at any batch (controller.ts:198-295, main.ts:37).
THEOREM FreshTheorem == Spec => []QuietViewIsFresh
<1>1. PageInv => QuietViewIsFresh
  <2>. SUFFICES ASSUME PageInv, Quiet
                PROVE  IF Story = NoStory THEN ui.view = "create"
                       ELSE /\ InEditor /\ ui.story = Story
                            /\ {ui.revision, ui.title, ui.media, ui.texts, ui.readiness} = {Revision}
    BY DEF QuietViewIsFresh
  <2>1. Arrived
    BY DEF Quiet, PageInv, FreshInv
  <2>. QED
    BY <2>1 DEF Arrived, ShownIsCurrent
<1>. QED
  BY <1>1, AlwaysPageInv, PTL

\* The panel shows the phase the running session has, through any clicks and reads
\* (controller.ts:260-271 and 366-410).
THEOREM PanelTheorem == Spec => []PanelOfLiveSession
<1>1. PageInv => PanelOfLiveSession
  BY DEF PageInv, SessionInv, PanelOfLiveSession
<1>. QED
  BY <1>1, AlwaysPageInv, PTL

\* The editor takes the place of "loading" only when the latest hydrate() shows it.
LEMMA OnlyShowEditor ==
  ASSUME PageInv, Next, ui.view = "loading", ui'.view = "editor"
  PROVE  \E h \in hydrates : IsLatest(h) /\ h.at = "texts" /\ ShowEditor(h) /\ UNCHANGED stories
<1>1. ~InEditor /\ ui' # ui
  BY DEF InEditor
<1>2. CASE AgentWrites \/ Deleting \/ OtherTabWrites \/ Lifecycle \/ Focusing
  BY <1>1, <1>2 DEF AgentWrites, Deleting, DeleteStory, BatchDeleted, DeletionDone, DeletionFails, OtherTabWrites,
         Write, Lifecycle, Focusing, uiVars
<1>3. CASE OnMutated \/ Refresh \/ Mount
  <2>1. Rehydrate => ui' = Plain("loading") \/ ui' = ui
    BY DEF Rehydrate, Hydrate, SetState, Plain
  <2>. QED
    BY <1>1, <1>3, <2>1 DEF OnMutated, Refresh, Mount, MountStoryUi, uiVars, Plain
<1>4. CASE Creator
  BY <1>1, <1>4 DEF Creator, Click
<1>5. CASE Previewing
  <2>1. ASSUME NEW s, NEW phase, Emit(s, phase) PROVE ui' = ui
    BY <1>1, <2>1 DEF Emit
  <2>2. EndMobilePreview => ui' = ui
    BY <1>1 DEF EndMobilePreview
  <2>. QED
    BY <1>1, <1>5, <2>1, <2>2 DEF Previewing, SessionMoves, LateEmission, ApproveMobilePairing, RejectMobilePairing
<1>6. CASE Hydrating
  <2>1. PICK h \in hydrates : HydrateStep(h) \/ ReadThrows(h)
    BY <1>6 DEF Hydrating
  <2>2. ASSUME NEW at, NEW seen, GoOn(h, at, seen) PROVE ui' = ui
    BY <2>2 DEF GoOn
  <2>3. ASSUME NEW view \in {"create", "error"}, NoEditor(h, view) PROVE ui' = Plain(view) \/ ui' = ui
    BY <2>3 DEF NoEditor, SetState, Plain
  <2>4. ~ReadThrows(h) /\ ~ReadStory(h) /\ ~ReadMeta(h) /\ ~ListFiles(h) /\ ~ReadReadiness(h)
    BY <1>1, <2>2, <2>3 DEF ReadThrows, ReadStory, ReadMeta, ListFiles, ReadReadiness, Plain
  <2>5. ReadTexts(h) /\ UNCHANGED stories
    BY <2>1, <2>4 DEF HydrateStep
  <2>6. IsLatest(h)
    BY <1>1, <2>2, <2>5 DEF ReadTexts
  <2>. QED
    BY <2>5, <2>6 DEF ReadTexts
<1>. QED
  BY <1>2, <1>3, <1>4, <1>5, <1>6 DEF Next

\* A refresh keeps the tab and the selected node of the creator, or leads to where a page
\* starts if it overlaps another, however many reads, clicks and sessions come before it
\* is done (controller.ts:200-208).
THEOREM PlaceTheorem == Spec => PlaceKept
<1>1. PageInv /\ [Next]_vars =>
        [(ui.view = "loading" /\ ui'.view = "editor") =>
           \/ [tab |-> ui'.tab, selection |-> ui'.selection] = place
           \/ overlapped /\ [tab |-> ui'.tab, selection |-> ui'.selection] = Tip]_vars
  <2>. SUFFICES ASSUME PageInv, Next, ui.view = "loading", ui'.view = "editor"
                PROVE  \/ [tab |-> ui'.tab, selection |-> ui'.selection] = place
                       \/ overlapped /\ [tab |-> ui'.tab, selection |-> ui'.selection] = Tip
    OBVIOUS
  <2>1. PICK h \in hydrates : IsLatest(h) /\ h.at = "texts" /\ ShowEditor(h) /\ UNCHANGED stories
    BY OnlyShowEditor
  <2>2. ui'["tab"] = h.previous.tab /\ ui'["selection"] = h.previous.selection
    BY <2>1, EditorShownAnew
  <2>3. h.previous = place \/ (overlapped /\ h.previous = Tip)
    BY <2>1 DEF PageInv, PlaceInv
  <2>4. h.previous = [tab |-> h.previous.tab, selection |-> h.previous.selection]
    BY DEF PageInv, HydratesInv, HydrateInv
  <2>. QED
    BY <2>2, <2>3, <2>4
<1>. QED
  BY <1>1, AlwaysPageInv, PTL DEF Spec, PlaceKept

\* Only a check that comes back changes the focus or answers the agent.
LEMMA OnlyFocusStep ==
  ASSUME PageInv, Next
  PROVE  FocusStep \/ (focus'.current = focus.current /\ query' = query)
<1>1. ASSUME NEW claim, Claim(claim) PROVE focus'.current = focus.current
  BY <1>1 DEF Claim, PageInv, FocusInv
<1>2. CASE AgentWrites \/ Deleting \/ OtherTabWrites \/ Lifecycle
  BY <1>2 DEF AgentWrites, Deleting, DeleteStory, BatchDeleted, DeletionDone, DeletionFails, OtherTabWrites,
         Write, Lifecycle, focusVars
<1>3. CASE OnMutated \/ Refresh \/ Mount
  BY <1>3 DEF OnMutated, Refresh, Mount, Rehydrate, Unclaimed, focusVars
<1>4. CASE Hydrating
  <2>1. PICK h \in hydrates :
          \/ HydrateStep(h) /\ UNCHANGED <<appVars, pageVars>>
          \/ /\ ReadThrows(h) /\ failed' = (failed \/ IsLatest(h))
             /\ UNCHANGED <<stories, query, appVars, bound, owed, deleting, unseen>>
    BY <1>4 DEF Hydrating
  <2>2. query' = query
    BY <2>1 DEF HydrateStep
  <2>3. ShowEditor(h) => focus'.current = focus.current
    BY <1>1 DEF ShowEditor, Unclaimed
  <2>. QED
    BY <2>1, <2>2, <2>3 DEF HydrateStep, ReadThrows, ReadStory, ReadMeta, ListFiles, ReadTexts, ReadReadiness,
                            GoOn, NoEditor, Unclaimed
<1>5. CASE Creator
  <2>1. PICK c : \/ OpenMapNode(c) \/ CloseMapNode \/ PreviewFromNode \/ \E tab \in TopTab : SetActiveTab(tab)
    BY <1>5 DEF Creator, Click
  <2>. QED
    BY <1>1, <2>1 DEF OpenMapNode, CloseMapNode, PreviewFromNode, SetActiveTab, Clicked, Unclaimed
<1>6. CASE Previewing
  BY <1>6 DEF Previewing, SessionMoves, LateEmission, ApproveMobilePairing, RejectMobilePairing, Emit,
              EndMobilePreview, focusVars
<1>7. CASE Focusing
  BY <1>7 DEF Focusing
<1>. QED
  BY <1>2, <1>3, <1>4, <1>5, <1>6, <1>7 DEF Next

\* The claim made last wins, whatever the order in which their checks come back
\* (focus.ts:239-261).
THEOREM LatestClaimTheorem == Spec => LatestClaimWins
<1>1. PageInv /\ [Next]_vars =>
        [(focus.current # Nothing /\ focus'.current # Nothing) => focus'.current.id >= focus.current.id]_vars
  <2>. SUFFICES ASSUME PageInv, Next, focus.current # Nothing, focus'.current # Nothing
                PROVE  focus'.current.id >= focus.current.id
    OBVIOUS
  <2>1. CASE FocusStep
    BY <2>1, FocusSteps DEF PageInv
  <2>2. CASE focus'.current = focus.current
    BY <2>2 DEF PageInv, FocusInv
  <2>. QED
    BY <2>1, <2>2, OnlyFocusStep
<1>. QED
  BY <1>1, AlwaysPageInv, PTL DEF Spec, LatestClaimWins

\* A focus is given up only when the workspace did not have it at some time since it was
\* adopted, or kept changing; the agent is told what is current then (focus.ts:264-306).
THEOREM FocusTheorem == Spec => FocusDroppedForCause
<1>1. PageInv /\ [Next]_vars =>
        [/\ (focus.current # Nothing /\ focus'.current = Nothing) =>
              \/ \E r \in focus.current.since .. Revision :
                   Verdict(stories[r + 1], focus.current.claim) # "ok"
              \/ Revision - focus.current.since >= MaxAttempts
         /\ (query' # query /\ query'.at = "idle") => query'.answer = focus'.current]_vars
  <2>. SUFFICES ASSUME PageInv, Next
                PROVE  /\ (focus.current # Nothing /\ focus'.current = Nothing) =>
                            \/ \E r \in focus.current.since .. Revision :
                                 Verdict(stories[r + 1], focus.current.claim) # "ok"
                            \/ Revision - focus.current.since >= MaxAttempts
                       /\ (query' # query /\ query'.at = "idle") => query'.answer = focus'.current
    OBVIOUS
  <2>1. CASE FocusStep
    BY <2>1, FocusSteps DEF PageInv
  <2>2. CASE focus'.current = focus.current /\ query' = query
    BY <2>2
  <2>. QED
    BY <2>1, <2>2, OnlyFocusStep
<1>. QED
  BY <1>1, AlwaysPageInv, PTL DEF Spec, FocusDroppedForCause
=============================================================================
