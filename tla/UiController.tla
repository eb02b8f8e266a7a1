---------------------------- MODULE UiController ----------------------------
(***************************************************************************)
(* What the page shows of the workspace (src/ui/controller.ts) and how it  *)
(* is mounted (src/ui/dom.ts).  hydrate() reads the workspace in five      *)
(* steps, and calls of it, writes, the creator's clicks and the preview    *)
(* session come between any two of them.  A datum on the screen is the     *)
(* revision it was read at.                                                *)
(***************************************************************************)
EXTENDS FocusTracker

CONSTANTS
  RelayKnown   \* whether a relay address was configured

VARIABLES
  ui,         \* #state
  shown,      \* what is mounted: the view, the tab and the preview reader
  generation, \* #hydrateGen
  hydrates,   \* the calls of hydrate() in progress
  session,    \* #mobileSession
  phases      \* the phase of every preview session there has been

uiVars == <<ui, shown, generation, hydrates, session, phases>>

\* A record with some fields changed or added.
With(k, fields) ==
  [f \in DOMAIN k \cup DOMAIN fields |-> IF f \in DOMAIN fields THEN fields[f] ELSE k[f]]

Plain(view) == [view |-> view]
NotMounted  == [view |-> "none", tab |-> "none", reader |-> Nothing]
TopTab      == {"map", "preview", "mobile"}
Phase       == {"waiting", "asking", "sending", "ended", "over", "late"}
Tip         == [tab |-> "map", selection |-> Nothing]   \* where a page starts

UiInit ==
  /\ ui = Plain("loading") /\ shown = NotMounted
  /\ generation = 0 /\ hydrates = {}
  /\ session = Nothing /\ phases = <<>>

InEditor == ui.view = "editor"

-----------------------------------------------------------------------------
(* Rendering                                                                *)

\* applyEditorMount: another tab disposes the reader, and the preview tab mounts one.
EditorShown(next) ==
  IF shown.view = "editor" /\ shown.tab = next.tab THEN shown
  ELSE [view |-> "editor", tab |-> next.tab,
        reader |-> IF next.tab = "preview" THEN [start |-> next.start] ELSE Nothing]

\* Mutant: the starting page stays for the next reader.
TakenStartKept(next, after) == next

\* consumePreviewStartPageId: the reader that is mounted takes the starting page.
TakenStart(next, after) ==
  IF after # shown /\ after.reader # Nothing THEN [next EXCEPT !.start = Nothing] ELSE next

\* #setState and the render of its listeners.
SetState(next) ==
  IF shown.view = "none" THEN ui' = next /\ UNCHANGED shown
  ELSE IF next.view # "editor"
  THEN ui' = next /\ shown' = [NotMounted EXCEPT !.view = next.view]
  ELSE shown' = EditorShown(next) /\ ui' = TakenStart(next, EditorShown(next))

\* A change of the editor's state.
Edit(fields) == SetState([f \in DOMAIN ui |-> IF f \in DOMAIN fields THEN fields[f] ELSE ui[f]])

Unclaimed == UNCHANGED <<focus, claims>>

-----------------------------------------------------------------------------
(* The preview session                                                      *)

\* Its phase changes and the panel is told; nobody listens outside the editor.
PanelOf(s, phase) == [session |-> s, phase |-> phase]
Panel == IF session = Nothing THEN Nothing ELSE PanelOf(session, phases[session])

Emit(s, phase) ==
  /\ phases' = [phases EXCEPT ![s] = phase]
  /\ IF InEditor THEN Edit([panel |-> PanelOf(s, phase)]) ELSE UNCHANGED <<ui, shown>>
  /\ UNCHANGED <<stories, focusVars, generation, hydrates, session>>

\* The conversation with the relay goes on; it may also end the session.
SessionMoves(s) ==
  /\ s = session /\ \E phase \in {"waiting", "asking", "ended"} \ {phases[s]} : Emit(s, phase)
  /\ phases[s] # "ended"

\* What a session that was ended still had under way tells of itself.
LateEmission(s) == phases[s] = "over" /\ Emit(s, "late")

\* approve() and reject()
ApproveMobilePairing == session # Nothing /\ phases[session] = "asking" /\ Emit(session, "sending")
RejectMobilePairing  == session # Nothing /\ phases[session] = "asking" /\ Emit(session, "waiting")

\* #startMobilePreview, with the tab changed before it.
StartMobilePreview(fields) ==
  IF session # Nothing \/ ~RelayKnown THEN Edit(fields) /\ UNCHANGED <<session, phases>>
  ELSE /\ phases' = Append(phases, "waiting")
       /\ session' = Len(phases) + 1
       /\ Edit(With(fields, [panel |-> PanelOf(Len(phases) + 1, "waiting")]))

\* #endMobileSession; end() may leave something under way.
Ended == [s \in DOMAIN phases |-> IF s = session /\ phases[s] # "ended" THEN "over" ELSE phases[s]]

\* endMobilePreview: on the phone tab another session begins.  The tab that is
\* unloaded does the same.
EndMobilePreview ==
  LET again == InEditor /\ ui.tab = "mobile" /\ RelayKnown IN
  /\ shown.view # "none" /\ (session # Nothing \/ again)
  /\ phases' = IF again THEN Append(Ended, "waiting") ELSE Ended
  /\ session' = IF again THEN Len(phases) + 1 ELSE Nothing
  /\ IF again THEN Edit([panel |-> PanelOf(Len(phases) + 1, "waiting")])
     ELSE IF InEditor THEN Edit([panel |-> Nothing]) ELSE UNCHANGED <<ui, shown>>
  /\ UNCHANGED <<stories, focusVars, generation, hydrates>>

-----------------------------------------------------------------------------
(* hydrate()                                                                *)

\* Mutant: looked up when it is needed, after the view became "loading".
PlaceTip == Tip

Place == IF InEditor THEN [tab |-> ui.tab, selection |-> ui.selection] ELSE Tip

\* Up to its first await.
BeginHydrate ==
  /\ generation' = generation + 1
  /\ hydrates' = hydrates \cup {[gen |-> generation + 1, at |-> "story", began |-> Revision,
                                previous |-> Place, seen |-> [p \in {} |-> 0]]}
  /\ UNCHANGED <<session, phases>>

Hydrate == BeginHydrate /\ SetState(Plain("loading"))

\* mountStoryUi: the page is shown and reads the workspace for the first time.
MountStoryUi ==
  /\ shown.view = "none" /\ BeginHydrate
  /\ shown' = [NotMounted EXCEPT !.view = "loading"] /\ UNCHANGED ui

\* Mutant: a call that is no longer the latest goes on.
IsLatestAny(h) == TRUE

IsLatest(h) == h.gen = generation

\* A read of a call that is no longer the latest is the last thing it does.
GoOn(h, place, seen) ==
  /\ hydrates' = (hydrates \ {h}) \cup
       (IF IsLatest(h) THEN {[h EXCEPT !.at = place, !.seen = With(@, seen)]} ELSE {})
  /\ UNCHANGED <<ui, shown, generation, session, phases>> /\ Unclaimed

Leave(h) == hydrates' = hydrates \ {h} /\ UNCHANGED generation

\* The story cannot be shown: the editor is left and the preview session ended.
NoEditor(h, view) ==
  /\ Leave(h) /\ SetState(Plain(view)) /\ Unclaimed
  /\ phases' = Ended /\ session' = Nothing

ReadStory(h) ==
  /\ h.at = "story"
  /\ \/ /\ Story # NoStory \/ ~IsLatest(h)
        /\ GoOn(h, "meta", [story |-> Story, revision |-> Revision])
     \/ IsLatest(h) /\ Story = NoStory /\ NoEditor(h, "create")
     \/ IsLatest(h) /\ Revision - h.began >= MaxAttempts /\ NoEditor(h, "error")

ReadMeta(h)    == h.at = "meta" /\ GoOn(h, "list", [title |-> Revision])
ListFiles(h)   == h.at = "list" /\ GoOn(h, "texts", [media |-> Revision])

\* Mutant: the panel is what it was when the call began.
PanelForgotten == Nothing

CurrentPanel == Panel

\* The texts are read: the editor is shown, and its place claimed as the focus.
ShowEditor(h) ==
  LET place == h.previous IN
  /\ hydrates' = (hydrates \ {h}) \cup {[h EXCEPT !.at = "readiness"]}
  /\ SetState(With(h.seen, [view |-> "editor", tab |-> place.tab, selection |-> place.selection,
                            start |-> Nothing, panel |-> CurrentPanel, texts |-> Revision,
                            readiness |-> Nothing]))
  /\ IF place.selection = Nothing THEN Unclaimed
     ELSE Claim([slug |-> h.seen.story.slug, chapter |-> place.selection, tab |-> "content"])
  /\ UNCHANGED <<generation, session, phases>>

ReadTexts(h) == h.at = "texts" /\ IF IsLatest(h) THEN ShowEditor(h) ELSE GoOn(h, "texts", <<>>)

ReadReadiness(h) ==
  /\ h.at = "readiness" /\ Leave(h) /\ Unclaimed
  /\ IF IsLatest(h) /\ InEditor THEN Edit([readiness |-> Revision]) ELSE UNCHANGED <<ui, shown>>
  /\ UNCHANGED <<session, phases>>

\* A read throws: hydrate() rejects, and nobody is told.
ReadThrows(h) ==
  /\ Leave(h) /\ UNCHANGED <<ui, shown, session, phases>> /\ Unclaimed

HydrateStep(h) ==
  /\ ReadStory(h) \/ ReadMeta(h) \/ ListFiles(h) \/ ReadTexts(h) \/ ReadReadiness(h)
  /\ UNCHANGED <<stories, query>>

-----------------------------------------------------------------------------
(* The creator                                                              *)

Clicked == UNCHANGED <<stories, query, generation, hydrates>>

OpenMapNode(c) ==
  /\ InEditor /\ ui.tab = "map" /\ c \in ui.story.pages
  /\ Edit([selection |-> c])
  /\ Claim([slug |-> ui.story.slug, chapter |-> c, tab |-> "content"])
  /\ Clicked /\ UNCHANGED <<session, phases>>

CloseMapNode ==
  /\ InEditor /\ ui.tab = "map" /\ ui.selection # Nothing
  /\ Edit([selection |-> Nothing])
  /\ Clicked /\ Unclaimed /\ UNCHANGED <<session, phases>>

SetActiveTab(tab) ==
  /\ InEditor
  /\ IF tab = "mobile" THEN StartMobilePreview([tab |-> tab])
     ELSE Edit([tab |-> tab]) /\ UNCHANGED <<session, phases>>
  /\ Clicked /\ Unclaimed

\* "Preview from this page", a button beside the selected node.
PreviewFromNode ==
  /\ InEditor /\ ui.tab = "map" /\ ui.selection # Nothing
  /\ Edit([tab |-> "preview", start |-> ui.selection])
  /\ Clicked /\ Unclaimed /\ UNCHANGED <<session, phases>>

Click ==
  /\ InEditor
  /\ \/ \E c \in ui.story.pages : OpenMapNode(c)
     \/ \E tab \in TopTab : SetActiveTab(tab)
     \/ CloseMapNode \/ PreviewFromNode
=============================================================================
