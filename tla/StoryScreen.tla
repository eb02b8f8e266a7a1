----------------------------- MODULE StoryScreen -----------------------------
(***************************************************************************)
(* What the creator sees of a story: the map and the reader of one editor  *)
(* (src/ui/dom.ts), from its being mounted to the hydrate() that takes it  *)
(* away, while the agent may write the workspace under it.                 *)
(***************************************************************************)
EXTENDS MapView, PreviewReader

CONSTANTS
  Books,   \* the books an agent writes
  Screens  \* bounds: the books a behaviour begins with, and what may happen in it

AllBooks == Books \cup UNION {screen.books : screen \in Screens}

\* undefined is not a snapshot.
ASSUME ScreenAssumption == \A b \in AllBooks : IsBook(b) /\ Snapshot(b) # None

VARIABLES
  book,       \* what the workspace holds
  tab,        \* the tab that is shown
  selection,  \* mapSelection
  readiness,  \* the report of readiness: being made, there, or not to be had
  live,       \* livePreview, 0 for none
  bound,      \* what may still happen in this behaviour
  written,    \* history: the workspace was written since the editor was mounted
  lostImages, \* history: the reads of images for readers that have failed
  lostThumbs  \* history: the reads of images for cards that have failed

screenVars == <<book, tab, selection, readiness, live, bound, written>>
lost == <<lostImages, lostThumbs>>
vars == <<mapVars, readerVars, screenVars, lost>>

TopTab == {"map", "preview", "mobile"}

Init ==
  /\ \E screen \in Screens :
       /\ bound = screen.may
       /\ book \in screen.books /\ tab \in screen.tabs /\ selection \in screen.selections
  /\ story = book /\ written = FALSE
  /\ MapInit(selection)
  /\ readiness = "loading"
  /\ live = IF tab = "preview" THEN 1 ELSE 0
  /\ readers = IF tab = "preview" THEN <<Loading(None)>> ELSE <<>>
  /\ requests = {}
  /\ lostImages = {} /\ lostThumbs = {}

InEditor == panzoom # "destroyed"

\* The microtask comes before anything else.
Click ==
  /\ InEditor /\ timers # <<"panzoom">> /\ bound.clicks > 0
  /\ bound' = [bound EXCEPT !.clicks = @ - 1]
  /\ UNCHANGED <<book, readiness, written>>

\* A card, a chip above the map, or a row of the details.
OpenMapNode ==
  /\ Click /\ tab = "map"
  /\ \E slug \in Chapters(story.spec) : selection' = slug /\ ApplyState(slug, TRUE)
  /\ UNCHANGED <<readerVars, tab, live>>

CloseMapNode ==
  /\ Click /\ tab = "map" /\ NodeOf(story.spec, selection) # None
  /\ selection' = None /\ ApplyState(None, TRUE)
  /\ UNCHANGED <<readerVars, tab, live>>

\* Mutant: the reader of the tab before is taken off the screen only.
LeftOpen == readers

Left == IF live = 0 THEN readers ELSE Disposed(live)

\* applyEditorMount, when the tab is another one: the reader of the tab before is
\* gone, and the preview begins with a reader of its own.
SetActiveTab ==
  /\ Click /\ \E to \in TopTab :
       /\ tab' = to /\ ApplyState(selection, to = "map")
       /\ IF to = tab THEN UNCHANGED <<readers, live>>
          ELSE IF to = "preview" THEN
            /\ readers' = Append(Left, Loading(None)) /\ live' = Len(readers) + 1
          ELSE readers' = Left /\ live' = 0
  /\ UNCHANGED <<requests, selection>>

\* "Preview from this page": taking the page changes the state, so that render()
\* begins again within itself and mounts a reader of its own, which is replaced.
PreviewFromNode ==
  /\ Click /\ tab = "map" /\ NodeOf(story.spec, selection) # None
  /\ tab' = "preview" /\ ApplyState(selection, FALSE)
  /\ readers' = readers \o <<Loading(None), Loading(NodeOf(story.spec, selection))>>
  /\ live' = Len(readers) + 2
  /\ UNCHANGED <<requests, selection>>

TurnLivePage ==
  /\ Click /\ tab = "preview" /\ live > 0 /\ TurnPage(live)
  /\ UNCHANGED <<mapVars, tab, selection, live>>

MoveMap ==
  /\ InEditor /\ tab = "map" /\ bound.moves > 0 /\ MapMoves
  /\ bound' = [bound EXCEPT !.moves = @ - 1]
  /\ UNCHANGED <<readerVars, book, tab, selection, readiness, live, written>>

Timer == bound.open /\ TimerFires(tab = "map") /\ UNCHANGED <<readerVars, screenVars>>

\* The second of the two reads of hydrate() is there.
ReadinessArrives ==
  /\ bound.open /\ InEditor /\ timers # <<"panzoom">> /\ readiness = "loading"
  /\ readiness' \in {"report", "failed"} /\ ApplyState(selection, tab = "map")
  /\ UNCHANGED <<readerVars, book, tab, selection, live, bound, written>>

ThumbnailAnswer ==
  /\ bound.thumbs > 0 /\ bound' = [bound EXCEPT !.thumbs = @ - 1]
  /\ \E load \in loads :
       \/ ThumbnailRead(load, book) /\ UNCHANGED lostThumbs
       \/ ThumbnailFails(load) /\ lostThumbs' = lostThumbs \cup {load}
  /\ UNCHANGED <<readerVars, book, tab, selection, readiness, live, written, lostImages>>

StoryAnswer == \E r \in DOMAIN readers : Load(r, book) /\ UNCHANGED <<mapVars, screenVars>>

ImageAnswer ==
  /\ \E q \in requests :
       \/ ImageRead(q, book) /\ UNCHANGED lostImages
       \/ ImageFails(q) /\ lostImages' = lostImages \cup {q}
  /\ UNCHANGED <<mapVars, screenVars, lostThumbs>>

AgentWrites ==
  /\ bound.writes > 0 /\ book' \in Books \ {book}
  /\ bound' = [bound EXCEPT !.writes = @ - 1] /\ written' = TRUE
  /\ UNCHANGED <<mapVars, readerVars, tab, selection, readiness, live>>

\* The editor is left: hydrate() begins.
DisposeEditorMount ==
  /\ bound.open /\ InEditor /\ DisposeMap
  /\ readers' = Left /\ live' = 0
  /\ UNCHANGED <<requests, book, tab, selection, readiness, bound, written>>

Next ==
  \/ /\ \/ OpenMapNode \/ CloseMapNode \/ SetActiveTab \/ PreviewFromNode \/ TurnLivePage
        \/ MoveMap \/ Timer \/ ReadinessArrives \/ StoryAnswer
        \/ AgentWrites \/ DisposeEditorMount
     /\ UNCHANGED lost
  \/ ThumbnailAnswer \/ ImageAnswer

Spec == Init /\ [][Next]_vars

-----------------------------------------------------------------------------
(* Properties                                                               *)

\* The state of the screen is one that its code can make: the preview has a reader,
\* and every other reader is disposed, but for the one that PreviewFromNode replaces.
TypeOK ==
  /\ panzoom \in {"none", "built", "destroyed"} /\ camera.scale \in Scales /\ camera.pan \in Int
  /\ cards \subseteq Art(story) /\ thumbCache \subseteq Art(story)
  /\ \A load \in loads : load.slug \in Art(story) /\ load.rendering <= rendering
  /\ live \in 0 .. Len(readers) /\ (live > 0) = (tab = "preview" /\ InEditor)
  /\ \A r \in DOMAIN readers :
       /\ readers[r].stage \in {"loading", "page", "error", "gone"}
       /\ readers[r].disposed \/ r = live \/ (r < Len(readers) /\ readers[r + 1].start # None)
  /\ \A q \in requests : q.token <= readers[q.reader].token

\* validate() and buildPreviewSnapshot(): a story without errors and within the
\* limits can be previewed (but for a choice that leads to the page without a
\* name, which validate() takes for a page and the builder does not); and what is
\* previewed has every page and every way of the story, and ends where the story
\* says that it ends.
PreviewIsTheStory ==
  LET nodes    == book.spec.nodes
      snapshot == Build(book)
  IN /\ /\ Errors(book.spec) = {} /\ WithinLimits(book)
        /\ \A id \in DOMAIN nodes : \A i \in DOMAIN ChoicesOf(nodes[id]) : Named(ChoicesOf(nodes[id])[i].target)
        => snapshot # None
     /\ snapshot # None =>
          /\ snapshot.start \in DOMAIN snapshot.pages /\ DOMAIN snapshot.pages = DOMAIN nodes
          /\ \A id \in DOMAIN nodes :
               /\ IsEnding(snapshot.pages[id]) = (nodes[id].kind = "ending")
               /\ Buttons(snapshot.pages[id]) \subseteq DOMAIN nodes
               /\ \A to \in DOMAIN nodes :
                    to \in Buttons(snapshot.pages[id]) <=> (to = nodes[id].next \/ Offered(nodes[id], to))

\* buildPreviewSnapshot() and the protocol, which have limits of their own: a story
\* that the tab can preview is sent, passed on and taken by the phone, unless its
\* title, a name or a label is empty or too long, the slug of a chapter with an image
\* is, or its texts are more together than a manifest takes.
PreviewReachesPhone ==
  LET snapshot == Build(book) IN
  snapshot # None =>
    (/\ CheckSnapshotSize(snapshot) /\ IsSnapshotManifestShape(snapshot) /\ IsPreviewSnapshot(snapshot)
     <=>
     /\ book.title \in 1 .. Limits.title
     /\ \A id \in DOMAIN snapshot.pages :
          /\ Length[id] \in 1 .. Limits.id
          /\ \A i \in DOMAIN snapshot.pages[id].choices : snapshot.pages[id].choices[i].label > 0
     /\ \A slug \in DOMAIN snapshot.images : Length[slug] \in 1 .. Limits.imageId
     /\ ManifestBytes(snapshot) <= Limits.manifest)

\* The map, validate() and the reader are three walks over the same story: every
\* page is on the map once, those that validate() warns of come last, and from a
\* page that can be previewed the map draws the ways that the reader offers.  A
\* story with a page without a name is left out.
MapAgrees ==
  LET spec == book.spec
      order == ReadingOrder(spec)
      unreachable == {warning.at : warning \in Warnings(spec)}
      snapshot == Build(book)
  IN (\A id \in DOMAIN spec.nodes : Named(id)) =>
     /\ Len(order) = Cardinality(DOMAIN spec.nodes) /\ ToSet(order) = DOMAIN spec.nodes
     /\ \A i, j \in DOMAIN order : i < j /\ order[i] \in unreachable => order[j] \in unreachable
     /\ snapshot # None => \A id \in DOMAIN spec.nodes :
          {edge.to : edge \in Outgoing(spec, id)} = Buttons(snapshot.pages[id])

\* A chip leads to the details of a page on the map; one that counts missing texts
\* or images leads to a page that misses its own, whichever page of several with
\* the chapter is opened.
ChipsLeadToPages ==
  LET chips == Chips(book, "report") IN
  /\ \A kind \in DOMAIN chips : \A slug \in chips[kind].leads : NodeOf(book.spec, slug) # None
  /\ chips.text.count > 0 => chips.text.leads # {}
  /\ chips.media.count > 0 => chips.media.leads # {}
  /\ \A slug \in chips.text.leads : MapNode(book, "report", NodeOf(book.spec, slug)).text = "missing"
  /\ \A slug \in chips.media.leads : MapNode(book, "report", NodeOf(book.spec, slug)).media = "missing"

\* A reader is on a page of its story all the time, and it came there from the
\* first page, or from the one it was opened for if the story has it, by the
\* buttons of the pages between.
PathIsAWalk ==
  \A r \in DOMAIN readers : readers[r].path # <<>> =>
    LET reader == readers[r] IN
    /\ ToSet(reader.path) \subseteq DOMAIN reader.snapshot.pages
    /\ reader.path[1] \in {reader.start, reader.snapshot.start}
    /\ \A i \in 2 .. Len(reader.path) :
         reader.path[i] \in Buttons(reader.snapshot.pages[reader.path[i - 1]])

\* The image a reader holds is that of the page it shows, however late the answers
\* for pages before it come; a reader that is gone holds none; and when nothing is
\* under way and nobody has written, the image is there, unless the read for this
\* showing of the page has failed.
ReaderImage ==
  \A r \in DOMAIN readers :
    LET reader == readers[r] IN
    /\ reader.url # None => reader.stage = "page" /\ ~reader.disposed /\ reader.url = CurrentImage(reader)
    /\ /\ reader.stage = "page" /\ ~reader.disposed /\ ~written
       /\ \A q \in requests \cup lostImages : q.reader = r => q.token # reader.token
       => reader.url = CurrentImage(reader)

\* Every rendering makes new cards: none is left without its image once this
\* rendering's own read of that image is over, if it has not failed, although reads
\* for earlier renderings come between and an image that was read is not read again.
CardsGetTheirImages ==
  InEditor /\ ~written =>
    \A slug \in Art(story) :
      slug \in cards \/ [slug |-> slug, rendering |-> rendering] \in loads \cup lostThumbs

\* The map that is seen has been fitted once the timers are over, and it stays
\* where the fit put it until the creator or a selection moves it: Panzoom's own
\* start does not.
FirstFitStays ==
  /\ fitted /\ ~moved => camera = CenterFit
  /\ InEditor /\ settled /\ tab = "map" /\ Height > 0 => fitted

\* A node that is selected is brought below the chips and above the edge, if its
\* card is not too large; when it is there already, the map does not move.
SelectedIsShown ==
  [][selection' # selection /\ selection' # None /\ Fits(camera) =>
       LET node == NodeOf(story.spec, selection') IN
       /\ Visible(node, camera')
       /\ Visible(node, camera) => camera' = camera]_vars
=============================================================================
