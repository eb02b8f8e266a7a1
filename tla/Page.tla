-------------------------------- MODULE Page --------------------------------
(***************************************************************************)
(* One page of the application (src/main.ts): the tools of the agent, the  *)
(* focus, the controller of what is shown, and the workspace that the      *)
(* agent, the creator and another tab write.  A page starts its            *)
(* application once and mounts the controller; without a screen, as the    *)
(* tests have it, the application may also be stopped and started again.   *)
(***************************************************************************)
EXTENDS UiController, ToolRegistration

CONSTANTS
  StoryToWrite,  \* the stories that are written
  WriteTool,     \* the tool that writes them
  Bounds         \* bounds: mixes of how often things happen in one behaviour

\* The chapters there may be, and what a page claims to be looking at.
Chapters == UNION {story.pages : story \in StoryToWrite}
ClaimOf  == [slug : {story.slug : story \in StoryToWrite}, chapter : Chapters, tab : FocusTab]

\* null is no session, panel, reader or focus; and a read of the workspace is tried.
ASSUME PageAssumption ==
  /\ Nothing \notin Nat
  /\ Nothing \notin [session : Nat, phase : Phase]
  /\ Nothing \notin [start : Chapters \cup {Nothing}]
  /\ Nothing \notin [claim : ClaimOf, id : Nat, since : Nat]
  /\ MaxAttempts \in Nat \ {0}

VARIABLES
  bound,      \* the mix of this behaviour
  owed,       \* mutations whose hydrate() has not been called yet
  deleting,   \* calls of deleteStory() in progress
  unseen,     \* written since the last hydrate() began by who may never call hydrate()
  failed,     \* the last hydrate() has thrown
  place,      \* history: the tab and the selection of the editor that was shown last
  overlapped  \* history: the last hydrate() began while another one was reading

pageVars == <<bound, owed, deleting, unseen, failed>>
vars == <<stories, focusVars, uiVars, appVars, pageVars, place, overlapped>>

Init ==
  /\ FocusInit /\ UiInit /\ AppInit
  /\ bound \in Bounds
  /\ owed = 0 /\ deleting = 0 /\ unseen = FALSE /\ failed = FALSE
  /\ place = Tip /\ overlapped = FALSE

Write(story) ==
  /\ story # Story
  /\ stories' = Append(stories, story)
  /\ UNCHANGED <<focusVars, uiVars, appVars>>

\* A call of the agent lands; then it returns, and onMutated is called.
AgentWrites ==
  /\ bound.screen /\ WriteTool \in AllMounted
  /\ \E story \in StoryToWrite : Write(story)
  /\ owed' = owed + 1 /\ UNCHANGED <<bound, deleting, unseen, failed>>

\* deleteStory(), a button of the editor: it empties the workspace batch by batch.
DeleteStory ==
  /\ InEditor /\ deleting' = deleting + 1
  /\ UNCHANGED <<stories, focusVars, uiVars, appVars, bound, owed, unseen, failed>>

\* A batch lands at the revision it was listed at; story.yaml, last in the listing,
\* goes with the last batch.
BatchDeleted ==
  /\ deleting > 0 /\ Story # NoStory
  /\ \E story \in {Story, NoStory} : stories' = Append(stories, story)
  /\ unseen' = TRUE
  /\ UNCHANGED <<focusVars, uiVars, appVars, bound, owed, deleting, failed>>

\* Nothing is listed any more: hydrate() is called next.
DeletionDone ==
  /\ deleting > 0 /\ Story = NoStory
  /\ deleting' = deleting - 1 /\ owed' = owed + 1
  /\ UNCHANGED <<stories, focusVars, uiVars, appVars, bound, unseen, failed>>

\* A listing or a batch throws, or the batch is refused because somebody wrote after
\* the listing: deleteStory() rejects, and hydrate() is not called.
DeletionFails ==
  /\ deleting > 0 /\ deleting' = deleting - 1
  /\ UNCHANGED <<stories, focusVars, uiVars, appVars, bound, owed, unseen, failed>>

Deleting == DeleteStory \/ BatchDeleted \/ DeletionDone \/ DeletionFails

OtherTabWrites ==
  /\ bound.screen /\ \E story \in StoryToWrite \cup {NoStory} : Write(story)
  /\ unseen' = TRUE /\ UNCHANGED <<bound, owed, deleting, failed>>

\* hydrate() of the page, which reads what has been written before it.
Rehydrate ==
  /\ Hydrate /\ Unclaimed
  /\ unseen' = FALSE /\ failed' = FALSE
  /\ UNCHANGED <<stories, query, appVars, bound, deleting>>

\* Before the controller is there, onMutated does nothing.
OnMutated ==
  /\ owed > 0 /\ owed' = owed - 1
  /\ IF shown.view # "none" THEN Rehydrate
     ELSE UNCHANGED <<stories, focusVars, uiVars, appVars, bound, deleting, unseen, failed>>

Refresh == shown.view # "none" /\ Rehydrate /\ UNCHANGED owed

\* The application has started: the controller is made and mounted.
Mount ==
  /\ bound.screen /\ app.status = "started" /\ MountStoryUi
  /\ unseen' = FALSE
  /\ UNCHANGED <<stories, focusVars, appVars, bound, owed, deleting, failed>>

Hydrating ==
  \E h \in hydrates :
    \/ HydrateStep(h) /\ UNCHANGED <<appVars, pageVars>>
    \/ /\ ReadThrows(h) /\ failed' = (failed \/ IsLatest(h))
       /\ UNCHANGED <<stories, query, appVars, bound, owed, deleting, unseen>>

Creator == Click /\ UNCHANGED <<appVars, pageVars>>

Previewing ==
  /\ \/ \E s \in DOMAIN phases : SessionMoves(s) \/ LateEmission(s)
     \/ ApproveMobilePairing \/ RejectMobilePairing \/ EndMobilePreview
  /\ UNCHANGED <<appVars, pageVars>>

\* A page starts its application once, when it is loaded.
Lifecycle ==
  /\ \/ Start /\ (bound.screen => app.starts = 0)
     \/ Started \/ OpenFails \/ Disposed \/ Stopped
     \/ Stop /\ ~bound.screen
     \/ bound.host /\ HostStep
  /\ UNCHANGED <<stories, focusVars, uiVars, pageVars>>

\* The agent asks where the creator is looking.
Focusing == bound.claims > 0 /\ FocusStep /\ UNCHANGED <<uiVars, appVars, pageVars>>

Note ==
  /\ place' = IF ui'.view = "editor" THEN [tab |-> ui'.tab, selection |-> ui'.selection]
              ELSE IF ui'.view = "loading" THEN place ELSE Tip
  /\ overlapped' = IF generation' # generation THEN ui.view = "loading" ELSE overlapped

Within ==
  /\ generation' <= bound.hydrates
  /\ Len(phases') <= bound.sessions
  /\ focus'.generation <= bound.claims
  /\ Len(stories') <= bound.revisions + 1
  /\ deleting' <= bound.deletions /\ owed' + deleting' <= bound.revisions
  /\ app'.starts <= bound.starts /\ app'.stops <= bound.stops

Next ==
  /\ \/ AgentWrites \/ Deleting \/ OtherTabWrites \/ OnMutated \/ Refresh \/ Mount
     \/ Hydrating \/ Creator \/ Previewing \/ Lifecycle \/ Focusing
  /\ Note /\ Within

Spec == Init /\ [][Next]_vars

-----------------------------------------------------------------------------
(* Properties                                                               *)

\* What is shown is what the controller's state says, with a reader on the preview
\* tab only, and the start page taken (dom.ts:112-132, controller.ts:326-331).
TypeOK ==
  /\ ui.view \in {"loading", "create", "error", "editor"}
  /\ shown.view \in {"none", ui.view}
  /\ InEditor =>
       /\ ui.tab = shown.tab /\ ui.start = Nothing
       /\ (shown.reader # Nothing) <=> (ui.tab = "preview")
       /\ ui.revision \in 0 .. Revision
  /\ session # Nothing => session = Len(phases)
  /\ \A h \in hydrates : h.gen \in 1 .. generation

Quiet == hydrates = {} /\ owed = 0 /\ ~unseen /\ ~failed /\ shown.view # "none"

\* When every hydrate() is done that was called for, and nothing was written since by
\* another tab or by a deletion that never got to its hydrate(), whatever is on the
\* screen is of the current revision, all of it, however calls, reads and writes were
\* interleaved; the page never stays on "loading" or on an error of an earlier read
\* (controller.ts:198-295, main.ts:37).
QuietViewIsFresh ==
  Quiet => IF Story = NoStory THEN ui.view = "create"
           ELSE /\ InEditor /\ ui.story = Story
                /\ {ui.revision, ui.title, ui.media, ui.texts, ui.readiness} = {Revision}

\* A refresh keeps the tab and the selected node of the creator. One that begins while
\* another one is under way forgets them, as the view is "loading" then, and leads to
\* where a page starts; it brings back no place that was left before
\* (controller.ts:200-208).
PlaceKept ==
  [][(ui.view = "loading" /\ ui'.view = "editor") =>
       \/ [tab |-> ui'.tab, selection |-> ui'.selection] = place
       \/ overlapped /\ [tab |-> ui'.tab, selection |-> ui'.selection] = Tip]_vars

\* The panel shows the phase a running session has, which went on while the editor
\* was being read again; only what an ended session still tells can hide it
\* (controller.ts:260-271 and 366-410).
PanelOfLiveSession ==
  (InEditor /\ session # Nothing) =>
    ui.panel # Nothing /\ (ui.panel.session = session => ui.panel.phase = phases[session])

\* The claim made last wins, whatever the order in which their checks come back
\* (focus.ts:239-261).
LatestClaimWins ==
  [][(focus.current # Nothing /\ focus'.current # Nothing) => focus'.current.id >= focus.current.id]_vars

\* A focus is only given up if the workspace did not have it at some time since it was
\* adopted, or kept changing while it was read; and the agent is told the focus that
\* is current when it is told (focus.ts:264-306).
FocusDroppedForCause ==
  [][/\ (focus.current # Nothing /\ focus'.current = Nothing) =>
          \/ \E r \in focus.current.since .. Revision :
               Verdict(stories[r + 1], focus.current.claim) # "ok"
          \/ Revision - focus.current.since >= MaxAttempts
     /\ (query' # query /\ query'.at = "idle") => query'.answer = focus'.current]_vars
=============================================================================
