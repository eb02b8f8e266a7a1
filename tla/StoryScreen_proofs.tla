--------------------------- MODULE StoryScreen_proofs ---------------------------
(***************************************************************************)
(* What the screen of a story guarantees, for any stories and any bounds,  *)
(* checked by TLAPS.                                                       *)
(***************************************************************************)
EXTENDS StoryScreen, StoryMap_proofs

-----------------------------------------------------------------------------
(* The preview of a story                                                   *)

LEMMA ButtonsLead ==
  ASSUME NEW b, Build(b) # None, NEW id \in DOMAIN b.spec.nodes
  PROVE  Buttons(Build(b).pages[id]) \subseteq DOMAIN b.spec.nodes
<1>. DEFINE node == b.spec.nodes[id]   page == PageOf(b, node)
<1>1. Build(b).pages[id] = page /\ WaysOnExist(b.spec)
  BY SnapshotOfBook
<1>2. page.choices = ChoicesOf(node) /\ page.next = IF HasChoices(node) THEN None ELSE node.next
  BY PageFields
<1>3. /\ \A i \in DOMAIN ChoicesOf(node) : ChoicesOf(node)[i].target \in DOMAIN b.spec.nodes
      /\ ~HasChoices(node) /\ node.next # None => node.next \in DOMAIN b.spec.nodes
  BY <1>1 DEF WaysOnExist, Exists
<1>. HIDE DEF page, node
<1>. QED
  BY <1>1, <1>2, <1>3 DEF Buttons, HasChoices

LEMMA PreviewIsTheStoryOf ==
  ASSUME NEW b \in AllBooks
  PROVE  LET nodes    == b.spec.nodes
             snapshot == Build(b)
         IN /\ /\ Errors(b.spec) = {} /\ WithinLimits(b)
               /\ \A id \in DOMAIN nodes : \A i \in DOMAIN ChoicesOf(nodes[id]) :
                    Named(ChoicesOf(nodes[id])[i].target)
               => snapshot # None
            /\ snapshot # None =>
                 /\ snapshot.start \in DOMAIN snapshot.pages /\ DOMAIN snapshot.pages = DOMAIN nodes
                 /\ \A id \in DOMAIN nodes :
                      /\ IsEnding(snapshot.pages[id]) = (nodes[id].kind = "ending")
                      /\ Buttons(snapshot.pages[id]) \subseteq DOMAIN nodes
                      /\ \A to \in DOMAIN nodes :
                           to \in Buttons(snapshot.pages[id])
                             <=> (to = nodes[id].next \/ Offered(nodes[id], to))
<1>. DEFINE nodes == b.spec.nodes
<1>1. ASSUME Errors(b.spec) = {}, WithinLimits(b),
             \A id \in DOMAIN nodes : \A i \in DOMAIN ChoicesOf(nodes[id]) : Named(ChoicesOf(nodes[id])[i].target)
      PROVE  Build(b) # None
  <2>1. ASSUME NEW id \in DOMAIN nodes
        PROVE  /\ \A i \in DOMAIN ChoicesOf(nodes[id]) : Exists(b.spec, ChoicesOf(nodes[id])[i].target)
               /\ ~HasChoices(nodes[id]) =>
                    IF nodes[id].next = None THEN nodes[id].kind = "ending" ELSE Exists(b.spec, nodes[id].next)
    <3>1. ~WrongWays(nodes[id])
      BY <1>1, NoFaultOfNode
    <3>. QED
      BY <1>1, <3>1, NoFaultOfNode DEF WrongWays
  <2>2. WaysOnExist(b.spec)
    BY <1>1, <2>1 DEF WaysOnExist
  <2>. QED
    BY <1>1, <2>2, ScreenAssumption DEF Build
<1>2. ASSUME Build(b) # None, NEW id \in DOMAIN nodes
      PROVE  /\ IsEnding(Build(b).pages[id]) = (nodes[id].kind = "ending")
             /\ \A to \in DOMAIN nodes :
                  to \in Buttons(Build(b).pages[id]) <=> (to = nodes[id].next \/ Offered(nodes[id], to))
  <2>. DEFINE node == nodes[id]   page == Build(b).pages[id]
  <2>1. Errors(b.spec) = {} /\ WaysOnExist(b.spec) /\ page = PageOf(b, node)
    BY <1>2, SnapshotOfBook
  <2>2. page.choices = ChoicesOf(node) /\ page.next = IF HasChoices(node) THEN None ELSE node.next
    BY <2>1, PageFields
  <2>3. ~WrongWays(node)
    BY <2>1, NoFaultOfNode
  <2>4. /\ node.kind = "ending" => node.next = None /\ ChoicesOf(node) = <<>>
        /\ node.kind # "ending" => (node.next = None <=> HasChoices(node))
    BY <2>3 DEF WrongWays, ChoicesOf
  <2>5. None \notin DOMAIN nodes
    BY ScreenAssumption, NamesAssumption DEF IsBook, IsStory
  <2>6. ASSUME NEW to \in DOMAIN nodes
        PROVE  to \in Buttons(page) <=> (to = node.next \/ Offered(node, to))
    <3>1. to # None
      BY <2>5
    <3>. HIDE DEF page, node, nodes
    <3>2. CASE HasChoices(node)
      <4>1. node.next = None /\ page.choices # <<>>
        BY <2>2, <2>4, <3>2 DEF HasChoices
      <4>. QED
        BY <2>2, <3>1, <4>1 DEF Buttons, Offered
    <3>3. CASE ~HasChoices(node)
      <4>1. ChoicesOf(node) = <<>> /\ page.choices = <<>> /\ page.next = node.next
        BY <2>2, <3>3 DEF HasChoices
      <4>. QED
        BY <3>1, <4>1 DEF Buttons, Offered
    <3>. QED
      BY <3>2, <3>3
  <2>7. IsEnding(page) = (node.kind = "ending")
    <3>. HIDE DEF page, node, nodes
    <3>. QED
      BY <2>2, <2>4 DEF IsEnding, HasChoices
  <2>. QED
    BY <2>6, <2>7
<1>3. Build(b) # None => Build(b).start \in DOMAIN nodes /\ DOMAIN Build(b).pages = DOMAIN nodes
  BY SnapshotOfBook
<1>. QED
  BY <1>1, <1>2, <1>3, ButtonsLead

-----------------------------------------------------------------------------
(* The inductive invariant of the map                                       *)

\* The editor shows a story that was there, the one there is if nobody has written.
BookInv == book \in AllBooks /\ story \in AllBooks /\ (~written => book = story)

\* The map is fitted after Panzoom's own start, which is the first of its timers.
FitInv ==
  /\ panzoom \in {"none", "built", "destroyed"}
  /\ timers \in {<<"panzoom">>, <<"reset", "settle">>, <<"settle">>, <<>>}
  /\ timers = <<"panzoom">> => panzoom # "built"
  /\ panzoom = "none" => timers = <<"panzoom">>
  /\ settled => timers = <<>> /\ panzoom # "none"
  /\ fitted => settled
  /\ fitted /\ ~moved => camera = CenterFit
  /\ InEditor /\ settled /\ tab = "map" /\ Height > 0 => fitted

\* What is read for the last rendering will be on its cards.
CardsInv ==
  /\ rendering \in Nat /\ cards \subseteq Art(story) /\ thumbCache \subseteq Art(story)
  /\ \A load \in loads : /\ load.slug \in Art(story)
                         /\ load.rendering \in Nat /\ load.rendering <= rendering
  /\ InEditor /\ ~written =>
       \A slug \in Art(story) :
         slug \in cards \/ [slug |-> slug, rendering |-> rendering] \in loads \cup lostThumbs

MapInv == BookInv /\ FitInv /\ CardsInv

\* The story of an editor stays.
LEMMA SameStory ==
  ASSUME story' = story
  PROVE  Height' = Height /\ CenterFit' = CenterFit /\ Art(story)' = Art(story)
<1>1. Height' = Height
  BY DEF Height
<1>2. CenterFit' = CenterFit
  BY <1>1 DEF CenterFit, PanFor
<1>3. Art(story)' = Art(story)
  BY DEF Art
<1>. QED
  BY <1>1, <1>2, <1>3

\* A rendering, for a tab that may show the map.
LEMMA ApplyKeeps ==
  ASSUME MapInv, InEditor, NEW selected, NEW seen \in BOOLEAN, ApplyState(selected, seen),
         (tab' = "map") => seen, UNCHANGED <<book, written, lostThumbs>>
  PROVE  MapInv'
<1>1. /\ UNCHANGED <<story, panzoom, timers, settled, thumbCache>>
      /\ rendering' = rendering + 1 /\ cards' = Art(story) \cap thumbCache
      /\ loads' = loads \cup {[slug |-> slug, rendering |-> rendering + 1] : slug \in Wanted}
  BY DEF ApplyState, RenderCanvas
<1>2. Height' = Height /\ CenterFit' = CenterFit /\ Art(story)' = Art(story)
  BY <1>1, SameStory
<1>3. BookInv'
  BY <1>1 DEF MapInv, BookInv
<1>4. CardsInv'
  <2>1. rendering \in Nat /\ rendering' \in Nat /\ rendering <= rendering'
    BY <1>1 DEF MapInv, CardsInv
  <2>2. ASSUME NEW load \in loads'
        PROVE  load.slug \in Art(story) /\ load.rendering \in Nat /\ load.rendering <= rendering'
    <3>1. CASE load \in loads
      BY <2>1, <3>1 DEF MapInv, CardsInv
    <3>2. CASE load \notin loads
      <4>1. PICK slug \in Wanted : load = [slug |-> slug, rendering |-> rendering + 1]
        BY <1>1, <3>2
      <4>. QED
        BY <1>1, <2>1, <4>1 DEF Wanted
    <3>. QED
      BY <3>1, <3>2
  <2>3. ASSUME NEW slug \in Art(story)
        PROVE  slug \in cards' \/ [slug |-> slug, rendering |-> rendering'] \in loads'
    <3>1. CASE slug \in thumbCache
      BY <1>1, <3>1
    <3>2. CASE slug \notin thumbCache
      <4>1. slug \in Wanted
        BY <3>2 DEF Wanted
      <4>2. [slug |-> slug, rendering |-> rendering + 1] \in loads'
        BY <1>1, <4>1
      <4>. QED
        BY <1>1, <4>2
    <3>. QED
      BY <3>1, <3>2
  <2>4. thumbCache' \subseteq Art(story) /\ cards' \subseteq Art(story)
    BY <1>1 DEF MapInv, CardsInv
  <2>. QED
    BY <1>2, <2>1, <2>2, <2>3, <2>4 DEF CardsInv
<1>5. FitInv'
  <2>1. FitInv
    BY DEF MapInv
  <2>2. PICK fits : fits = (~fitted /\ MayFit /\ Height > 0 /\ seen)
    OBVIOUS
  <2>3. PICK fit : fit = IF fits THEN CenterFit ELSE camera
    OBVIOUS
  <2>4. fitted' = (fitted \/ fits) /\ moved' = (camera' # fit \/ (moved /\ ~fits))
    BY <2>2, <2>3 DEF ApplyState
  <2>5. fitted' => settled
    BY <2>1, <2>2, <2>4 DEF FitInv, MayFit
  <2>6. fitted' /\ ~moved' => camera' = CenterFit
    BY <2>1, <2>3, <2>4 DEF FitInv
  <2>7. (settled /\ tab' = "map" /\ Height > 0) => fitted'
    BY <2>1, <2>2, <2>4 DEF FitInv, MayFit, InEditor
  <2>. QED
    BY <1>1, <1>2, <2>1, <2>5, <2>6, <2>7 DEF FitInv
<1>. QED
  BY <1>3, <1>4, <1>5 DEF MapInv

\* A step that leaves the map.
LEMMA MapStays ==
  ASSUME MapInv, UNCHANGED <<mapVars, book, written, lostThumbs>>, tab' = tab
  PROVE  MapInv'
<1>1. UNCHANGED <<story, panzoom, timers, settled, fitted, camera>>
  BY DEF mapVars
<1>2. UNCHANGED <<rendering, cards, thumbCache, loads, moved>>
  BY DEF mapVars
<1>3. Height' = Height /\ CenterFit' = CenterFit /\ Art(story)' = Art(story)
  BY <1>1, SameStory
<1>. QED
  BY <1>1, <1>2, <1>3 DEF MapInv, BookInv, FitInv, CardsInv, InEditor

LEMMA TimerKeeps ==
  ASSUME MapInv, NEW seen \in BOOLEAN, TimerFires(seen), (tab = "map") => seen,
         UNCHANGED <<book, written, tab, lostThumbs>>
  PROVE  MapInv'
<1>1. UNCHANGED <<story, rendering, cards, thumbCache, loads>> /\ timers # <<>>
  BY DEF TimerFires
<1>2. Height' = Height /\ CenterFit' = CenterFit /\ Art(story)' = Art(story)
  BY <1>1, SameStory
<1>3. FitInv /\ BookInv /\ CardsInv
  BY DEF MapInv
<1>4. panzoom' \in {"none", "built", "destroyed"} /\ (panzoom = "destroyed" => panzoom' = "destroyed")
  BY <1>3 DEF TimerFires, BuildPanzoom, ResetPan, Settle, FitInv
<1>5. BookInv' /\ CardsInv'
  BY <1>1, <1>2, <1>3, <1>4 DEF BookInv, CardsInv, InEditor
<1>6. ~settled /\ ~fitted
  BY <1>1, <1>3 DEF FitInv
<1>7. CASE Head(timers) = "panzoom" /\ BuildPanzoom
  <2>1. timers = <<"panzoom">>
    BY <1>1, <1>3, <1>7 DEF FitInv
  <2>2. UNCHANGED <<settled, fitted, moved>>
    BY <1>7 DEF BuildPanzoom
  <2>3. /\ panzoom' # "none"
        /\ timers' = <<"reset", "settle">> \/ timers' = <<>>
    BY <1>3, <1>7, <2>1 DEF BuildPanzoom, FitInv
  <2>4. timers' # <<"panzoom">>
    BY <2>3
  <2>. QED
    BY <1>4, <1>5, <1>6, <2>2, <2>3, <2>4 DEF FitInv, MapInv
<1>8. CASE Head(timers) = "reset" /\ ResetPan
  <2>1. timers = <<"reset", "settle">>
    BY <1>1, <1>3, <1>8 DEF FitInv
  <2>2. UNCHANGED <<panzoom, settled, fitted, moved>> /\ timers' = <<"settle">>
    BY <1>8, <2>1 DEF ResetPan
  <2>3. panzoom # "none" /\ timers' # <<"panzoom">>
    BY <1>3, <2>1, <2>2 DEF FitInv
  <2>. QED
    BY <1>3, <1>4, <1>5, <1>6, <2>2, <2>3 DEF FitInv, MapInv
<1>9. CASE Head(timers) = "settle" /\ Settle(seen)
  <2>1. timers = <<"settle">>
    BY <1>1, <1>3, <1>9 DEF FitInv
  <2>2. panzoom # "none"
    BY <1>3, <2>1 DEF FitInv
  <2>3. panzoom' = panzoom /\ timers' = <<>>
    BY <1>9, <2>1 DEF Settle
  <2>4. PICK fits : fits = (panzoom = "built" /\ ~fitted /\ Height > 0 /\ seen)
    OBVIOUS
  <2>5. /\ settled' = (panzoom = "built") /\ fitted' = fits
        /\ camera' = IF fits THEN CenterFit ELSE camera
    BY <1>6, <1>9, <2>4 DEF Settle
  <2>6. timers' # <<"panzoom">> /\ (panzoom # "destroyed" => panzoom = "built")
    BY <1>3, <2>2, <2>3 DEF FitInv
  <2>7. fitted' => settled' /\ camera' = CenterFit
    BY <2>4, <2>5
  <2>8. InEditor' /\ settled' /\ tab' = "map" /\ Height' > 0 => fitted'
    BY <1>2, <1>6, <2>4, <2>5
  <2>. QED
    BY <1>2, <1>4, <1>5, <2>2, <2>3, <2>6, <2>7, <2>8 DEF FitInv, MapInv
<1>. QED
  BY <1>7, <1>8, <1>9 DEF TimerFires

LEMMA ThumbnailKeeps ==
  ASSUME MapInv, NEW load \in loads, ThumbnailRead(load, book), UNCHANGED <<book, tab, written, lostThumbs>>
  PROVE  MapInv'
<1>1. /\ loads' = loads \ {load}
      /\ thumbCache' = IF book.media[load.slug] > 0 THEN thumbCache \cup {load.slug} ELSE thumbCache
      /\ cards' = IF book.media[load.slug] > 0 /\ load.rendering = rendering
                  THEN cards \cup {load.slug} ELSE cards
  BY DEF ThumbnailRead
<1>2. UNCHANGED <<story, panzoom, timers, settled, fitted, camera, rendering, moved>>
  BY DEF ThumbnailRead
<1>3. Height' = Height /\ CenterFit' = CenterFit /\ Art(story)' = Art(story)
  BY <1>2, SameStory
<1>4. BookInv' /\ FitInv'
  BY <1>2, <1>3 DEF MapInv, BookInv, FitInv, InEditor
<1>5. load.slug \in Art(story)
  BY DEF MapInv, CardsInv
<1>6. ~written => book.media[load.slug] > 0
  BY <1>5 DEF MapInv, BookInv, Art
<1>7. ASSUME InEditor, ~written, NEW slug \in Art(story)
      PROVE  slug \in cards' \/ [slug |-> slug, rendering |-> rendering] \in loads' \cup lostThumbs
  <2>1. CASE slug \in cards
    BY <1>1, <2>1
  <2>2. CASE slug \notin cards
    <3>1. PICK other \in loads \cup lostThumbs : other = [slug |-> slug, rendering |-> rendering]
      BY <1>7, <2>2 DEF MapInv, CardsInv
    <3>2. CASE other = load
      BY <1>1, <1>6, <1>7, <3>1, <3>2
    <3>3. CASE other # load
      BY <1>1, <3>1, <3>3
    <3>. QED
      BY <3>2, <3>3
  <2>. QED
    BY <2>1, <2>2
<1>8. CardsInv'
  <2>1. cards' \subseteq Art(story) /\ thumbCache' \subseteq Art(story)
    BY <1>1, <1>5 DEF MapInv, CardsInv
  <2>2. InEditor' = InEditor /\ written' = written /\ rendering' = rendering
    BY <1>2 DEF InEditor
  <2>. QED
    BY <1>1, <1>3, <1>7, <2>1, <2>2 DEF MapInv, CardsInv
<1>. QED
  BY <1>4, <1>8 DEF MapInv

LEMMA ThumbnailLost ==
  ASSUME MapInv, NEW load \in loads, ThumbnailFails(load), lostThumbs' = lostThumbs \cup {load},
         UNCHANGED <<book, tab, written>>
  PROVE  MapInv'
<1>1. /\ loads' = loads \ {load} /\ loads' \cup lostThumbs' = loads \cup lostThumbs
      /\ UNCHANGED <<story, panzoom, timers, settled, fitted, camera, rendering, cards, thumbCache, moved>>
  BY DEF ThumbnailFails
<1>2. Height' = Height /\ CenterFit' = CenterFit /\ Art(story)' = Art(story)
  BY <1>1, SameStory
<1>3. BookInv' /\ FitInv'
  BY <1>1, <1>2 DEF MapInv, BookInv, FitInv, InEditor
<1>4. CardsInv'
  BY <1>1, <1>2 DEF MapInv, CardsInv, InEditor
<1>. QED
  BY <1>3, <1>4 DEF MapInv

LEMMA MapNextKeeps == MapInv /\ [Next]_vars => MapInv'
<1>. SUFFICES ASSUME MapInv, [Next]_vars PROVE MapInv'
  OBVIOUS
<1>1. CASE UNCHANGED vars
  BY <1>1, MapStays DEF vars, screenVars, lost
<1>2. CASE OpenMapNode /\ UNCHANGED lost
  <2>1. PICK slug : ApplyState(slug, TRUE)
    BY <1>2 DEF OpenMapNode
  <2>. QED
    BY <1>2, <2>1, ApplyKeeps DEF OpenMapNode, Click, lost
<1>3. CASE CloseMapNode /\ UNCHANGED lost
  BY <1>3, ApplyKeeps DEF CloseMapNode, Click, lost
<1>4. CASE SetActiveTab /\ UNCHANGED lost
  <2>1. PICK to \in TopTab : tab' = to /\ ApplyState(selection, to = "map")
    BY <1>4 DEF SetActiveTab
  <2>. QED
    BY <1>4, <2>1, ApplyKeeps DEF SetActiveTab, Click, lost
<1>5. CASE PreviewFromNode /\ UNCHANGED lost
  BY <1>5, ApplyKeeps DEF PreviewFromNode, Click, lost
<1>6. CASE ReadinessArrives /\ UNCHANGED lost
  BY <1>6, ApplyKeeps DEF ReadinessArrives, lost
<1>7. CASE ((TurnLivePage \/ StoryAnswer) /\ UNCHANGED lost) \/ ImageAnswer
  BY <1>7, MapStays DEF TurnLivePage, StoryAnswer, ImageAnswer, Click, screenVars, lost
<1>8. CASE Timer /\ UNCHANGED lost
  BY <1>8, TimerKeeps DEF Timer, screenVars, lost
<1>9. CASE ThumbnailAnswer
  <2>1. PICK load \in loads :
          \/ ThumbnailRead(load, book) /\ UNCHANGED lostThumbs
          \/ ThumbnailFails(load) /\ lostThumbs' = lostThumbs \cup {load}
    BY <1>9 DEF ThumbnailAnswer
  <2>2. UNCHANGED <<book, tab, written>>
    BY <1>9 DEF ThumbnailAnswer
  <2>. QED
    BY <2>1, <2>2, ThumbnailKeeps, ThumbnailLost
<1>10. CASE MoveMap /\ UNCHANGED lost
  <2>1. /\ UNCHANGED <<story, panzoom, timers, settled, fitted, rendering, cards, thumbCache, loads>>
        /\ UNCHANGED <<book, written, tab, lostThumbs>> /\ moved'
    BY <1>10 DEF MoveMap, MapMoves, lost
  <2>2. Height' = Height /\ CenterFit' = CenterFit /\ Art(story)' = Art(story)
    BY <2>1, SameStory
  <2>. QED
    BY <2>1, <2>2 DEF MapInv, BookInv, FitInv, CardsInv, InEditor
<1>11. CASE AgentWrites /\ UNCHANGED lost
  <2>1. book' \in AllBooks /\ written' /\ UNCHANGED mapVars /\ tab' = tab
    BY <1>11 DEF AgentWrites, AllBooks
  <2>2. UNCHANGED <<story, panzoom, timers, settled, fitted, camera>>
    BY <2>1 DEF mapVars
  <2>3. UNCHANGED <<rendering, cards, thumbCache, loads, moved>>
    BY <2>1 DEF mapVars
  <2>4. Height' = Height /\ CenterFit' = CenterFit /\ Art(story)' = Art(story)
    BY <2>2, SameStory
  <2>. QED
    BY <2>1, <2>2, <2>3, <2>4 DEF MapInv, BookInv, FitInv, CardsInv, InEditor
<1>12. CASE DisposeEditorMount /\ UNCHANGED lost
  <2>1. /\ panzoom' = "destroyed" /\ thumbCache' = {}
        /\ UNCHANGED <<story, timers, settled, fitted, camera, rendering, cards, loads, moved>>
        /\ UNCHANGED <<book, written, tab, lostThumbs>>
    BY <1>12 DEF DisposeEditorMount, DisposeMap, lost
  <2>2. Height' = Height /\ CenterFit' = CenterFit /\ Art(story)' = Art(story)
    BY <2>1, SameStory
  <2>. QED
    BY <2>1, <2>2 DEF MapInv, BookInv, FitInv, CardsInv, InEditor
<1>. QED
  BY <1>1, <1>2, <1>3, <1>4, <1>5, <1>6, <1>7, <1>8, <1>9, <1>10, <1>11, <1>12 DEF Next

LEMMA MapInitHolds == Init => MapInv
<1>. SUFFICES ASSUME Init PROVE MapInv
  OBVIOUS
<1>1. PICK screen \in Screens : book \in screen.books
  BY DEF Init
<1>2. BookInv
  BY <1>1 DEF Init, BookInv, AllBooks
<1>3. /\ panzoom = "none" /\ timers = <<"panzoom">> /\ settled = FALSE /\ fitted = FALSE
      /\ rendering = 1 /\ cards = {} /\ thumbCache = {}
      /\ loads = {[slug |-> slug, rendering |-> 1] : slug \in Art(story)}
  BY DEF Init, MapInit
<1>4. FitInv
  BY <1>3 DEF FitInv
<1>5. CardsInv
  <2>1. ASSUME NEW load \in loads
        PROVE  load.slug \in Art(story) /\ load.rendering = 1
    BY <1>3
  <2>2. ASSUME NEW slug \in Art(story)
        PROVE  [slug |-> slug, rendering |-> 1] \in loads
    BY <1>3
  <2>. QED
    BY <1>3, <2>1, <2>2 DEF CardsInv
<1>. QED
  BY <1>2, <1>4, <1>5 DEF MapInv

LEMMA AlwaysMapInv == Spec => []MapInv
  BY MapInitHolds, MapNextKeeps, PTL DEF Spec

\* createMapEditorView() renders the cards anew with every state and reads the
\* images that it has not kept: while nobody writes, no card is left without its image
\* when the read of it for that rendering is over and has not failed, in whatever order
\* the reads come back.
THEOREM CardsTheorem == Spec => []CardsGetTheirImages
<1>1. MapInv => CardsGetTheirImages
  BY DEF MapInv, CardsInv, CardsGetTheirImages
<1>. QED
  BY <1>1, AlwaysMapInv, PTL

\* tryInitialFit(): once the timers are over a map that is seen has been fitted, and
\* Panzoom's own pan to where it starts never comes after the fit.
THEOREM FitTheorem == Spec => []FirstFitStays
<1>1. MapInv => FirstFitStays
  BY DEF MapInv, FitInv, FirstFitStays
<1>. QED
  BY <1>1, AlwaysMapInv, PTL

\* buildPreviewSnapshot(): a story without errors and within the limits has a
\* preview, whose pages and ways are those of the story, for every story an agent
\* may write.
THEOREM PreviewTheorem == Spec => []PreviewIsTheStory
<1>1. BookInv => PreviewIsTheStory
  BY PreviewIsTheStoryOf DEF BookInv, PreviewIsTheStory
<1>2. MapInv => BookInv
  BY DEF MapInv
<1>. QED
  BY <1>1, <1>2, AlwaysMapInv, PTL

-----------------------------------------------------------------------------
(* The inductive invariant of the readers                                   *)

\* A sequence of pages, each but the first behind a button of the one before.
IsWalk(snapshot, start, path) ==
  /\ path \in Seq(DOMAIN snapshot.pages) /\ path # <<>>
  /\ path[1] \in {start, snapshot.start}
  /\ \A i \in 2 .. Len(path) : path[i] \in Buttons(snapshot.pages[path[i - 1]])

\* A snapshot that was made of a book, the one there is if nobody has written.
IsOfBook(snapshot, b, w) ==
  \E c \in AllBooks : Build(c) # None /\ snapshot = Build(c) /\ (~w => c = b)

ReaderOK(reader, b, w) ==
  /\ DOMAIN reader = {"start", "stage", "snapshot", "path", "token", "url", "disposed"}
  /\ reader.stage \in {"loading", "page", "error", "gone"}
  /\ reader.token \in Nat /\ reader.disposed \in BOOLEAN
  /\ reader.stage = "page" =>
       IsOfBook(reader.snapshot, b, w) /\ IsWalk(reader.snapshot, reader.start, reader.path)
  /\ reader.stage # "page" => reader.path = <<>> /\ reader.url = None
  /\ reader.url # None => ~reader.disposed /\ reader.url = CurrentImage(reader)

\* A request that is not outdated is for the image of the page that is shown.
RequestOK(q, all) ==
  /\ q.reader \in DOMAIN all /\ q.token \in Nat /\ q.token <= all[q.reader].token
  /\ q.token = all[q.reader].token =>
       all[q.reader].stage = "page" /\ q.image = CurrentImage(all[q.reader])

\* The image of the page that a reader shows.
Wants(reader) ==
  reader.stage = "page" /\ ~reader.disposed /\ CurrentImage(reader) # None /\ reader.url = None

IsUnderWay(r, reader, asked) == \E q \in asked : q.reader = r /\ q.token = reader.token

ReadersOK(all, asked, b, w) ==
  /\ \E S : all \in Seq(S)
  /\ \A r \in DOMAIN all : ReaderOK(all[r], b, w)
  /\ \A q \in asked : RequestOK(q, all)
  /\ ~w => \A r \in DOMAIN all : Wants(all[r]) => IsUnderWay(r, all[r], asked)

\* What the readers have asked for, as far as it is not there: the reads under way, and
\* those that have failed.
Asked == requests \cup lostImages

ReadersInv == ReadersOK(readers, Asked, book, written)

LEMMA WalkOn ==
  ASSUME NEW snapshot, NEW start, NEW path, IsWalk(snapshot, start, path),
         NEW to \in DOMAIN snapshot.pages, to \in Buttons(snapshot.pages[Last(path)])
  PROVE  IsWalk(snapshot, start, Append(path, to))
<1>. DEFINE P == DOMAIN snapshot.pages
<1>1. path \in Seq(P) /\ Len(path) \in Nat /\ Len(path) > 0 /\ path[1] \in {start, snapshot.start}
  BY DEF IsWalk
<1>2. /\ Append(path, to) \in Seq(P) /\ Len(Append(path, to)) = Len(path) + 1
      /\ \A i \in 1 .. Len(path) : Append(path, to)[i] = path[i]
      /\ Append(path, to)[Len(path) + 1] = to
  BY <1>1
<1>3. ASSUME NEW i \in 2 .. Len(path) + 1
      PROVE  Append(path, to)[i] \in Buttons(snapshot.pages[Append(path, to)[i - 1]])
  <2>1. CASE i = Len(path) + 1
    BY <1>1, <1>2, <2>1 DEF Last
  <2>2. CASE i # Len(path) + 1
    <3>1. i \in 2 .. Len(path) /\ i - 1 \in 1 .. Len(path) /\ i \in 1 .. Len(path)
      BY <1>1, <2>2
    <3>. QED
      BY <1>2, <3>1 DEF IsWalk
  <2>. QED
    BY <2>1, <2>2
<1>. QED
  BY <1>1, <1>2, <1>3 DEF IsWalk

LEMMA AllButLast ==
  ASSUME NEW P, NEW path \in Seq(P), Len(path) > 1
  PROVE  /\ Front(path) \in Seq(P) /\ Len(Front(path)) = Len(path) - 1
         /\ \A i \in 1 .. Len(path) - 1 : Front(path)[i] = path[i]
<1>1. PICK n \in Nat : n = Len(path) - 1 /\ n <= Len(path)
  OBVIOUS
<1>2. SubSeq(path, 1, n) \in Seq(P)
  BY <1>1
<1>3. Len(SubSeq(path, 1, n)) = n
  BY <1>1
<1>4. \A i \in 1 .. n : SubSeq(path, 1, n)[i] = path[i]
  BY <1>1
<1>5. Front(path) = SubSeq(path, 1, n)
  BY <1>1 DEF Front
<1>. QED
  BY <1>1, <1>2, <1>3, <1>4, <1>5

LEMMA WalkBack ==
  ASSUME NEW snapshot, NEW start, NEW path, IsWalk(snapshot, start, path), Len(path) > 1
  PROVE  IsWalk(snapshot, start, Front(path))
<1>1. path \in Seq(DOMAIN snapshot.pages) /\ Len(path) \in Nat
  BY DEF IsWalk
<1>2. /\ Front(path) \in Seq(DOMAIN snapshot.pages) /\ Len(Front(path)) = Len(path) - 1
      /\ \A i \in 1 .. Len(path) - 1 : Front(path)[i] = path[i]
  BY <1>1, AllButLast
<1>. QED
  BY <1>1, <1>2 DEF IsWalk

LEMMA WalkBegins ==
  ASSUME NEW snapshot, NEW start, NEW first \in DOMAIN snapshot.pages, first \in {start, snapshot.start}
  PROVE  IsWalk(snapshot, start, <<first>>)
<1>1. PICK path : path = <<first>>
  OBVIOUS
<1>2. path \in Seq(DOMAIN snapshot.pages) /\ path # <<>> /\ Len(path) = 1 /\ path[1] = first
  BY <1>1, OneElement
<1>. QED
  BY <1>1, <1>2 DEF IsWalk

\* One reader is another one.
LEMMA OneReader ==
  ASSUME NEW S, NEW all \in Seq(S), NEW r \in DOMAIN all, NEW reader
  PROVE  LET new == [all EXCEPT ![r] = reader] IN
         /\ \E T : new \in Seq(T)
         /\ DOMAIN new = DOMAIN all /\ Len(new) = Len(all) /\ new[r] = reader
         /\ \A other \in DOMAIN all \ {r} : new[other] = all[other]
<1>. DEFINE new == [all EXCEPT ![r] = reader]
<1>1. all \in [1 .. Len(all) -> S] /\ Len(all) \in Nat
  OBVIOUS
<1>2. new \in [1 .. Len(all) -> S \cup {reader}]
  BY <1>1
<1>3. new \in Seq(S \cup {reader}) /\ Len(new) = Len(all)
  BY <1>1, <1>2
<1>. QED
  BY <1>1, <1>3

\* One more reader, and two.
LEMMA OneMore ==
  ASSUME NEW S, NEW all \in Seq(S), NEW a, NEW then, then = Append(all, a)
  PROVE  /\ \E T : then \in Seq(T)
         /\ Len(then) = Len(all) + 1 /\ then[Len(all) + 1] = a
         /\ \A i \in DOMAIN all : then[i] = all[i]
<1>1. PICK T : T = S \cup {a}
  OBVIOUS
<1>2. all \in Seq(T) /\ a \in T
  BY <1>1
<1>3. then \in Seq(T)
  BY <1>2
<1>. QED
  BY <1>2, <1>3

LEMMA TwoMore ==
  ASSUME NEW S, NEW all \in Seq(S), NEW a, NEW b
  PROVE  /\ \E T : all \o <<a, b>> \in Seq(T)
         /\ Len(all \o <<a, b>>) = Len(all) + 2
         /\ \A i \in DOMAIN all : (all \o <<a, b>>)[i] = all[i]
         /\ (all \o <<a, b>>)[Len(all) + 1] = a /\ (all \o <<a, b>>)[Len(all) + 2] = b
<1>. DEFINE T == S \cup {a, b}
<1>1. all \in Seq(T) /\ a \in T /\ b \in T
  OBVIOUS
<1>2. <<a, b>> \in Seq(T) /\ Len(<<a, b>>) = 2 /\ <<a, b>>[1] = a /\ <<a, b>>[2] = b
  BY <1>1
<1>3. all \o <<a, b>> \in Seq(T)
  BY <1>1, <1>2
<1>. HIDE DEF T
<1>4. PICK two \in Seq(T) : two = <<a, b>> /\ Len(two) = 2 /\ two[1] = a /\ two[2] = b
  BY <1>2
<1>5. /\ Len(all \o two) = Len(all) + 2 /\ \A i \in DOMAIN all : (all \o two)[i] = all[i]
      /\ (all \o two)[Len(all) + 1] = a /\ (all \o two)[Len(all) + 2] = b
  BY <1>1, <1>4
<1>. QED
  BY <1>3, <1>4, <1>5

\* A reader goes on, and with it the Asked that are under way: those of a page
\* that is left are outdated.
Succeeds(all, asked, r, new, wanted) ==
  /\ \A q \in wanted : q \in asked \/ /\ q.reader = r /\ q.token = new.token
                                      /\ new.stage = "page" /\ q.image = CurrentImage(new)
  /\ \A q \in asked : q \in wanted \/ q.reader = r
  /\ new.token >= all[r].token
  /\ new.token = all[r].token /\ all[r].stage = "page" =>
       new.stage = "page" /\ CurrentImage(new) = CurrentImage(all[r])

LEMMA ReplaceReader ==
  ASSUME NEW all, NEW asked, NEW b, NEW w, ReadersOK(all, asked, b, w),
         NEW r \in DOMAIN all, NEW new, ReaderOK(new, b, w), NEW wanted,
         Succeeds(all, asked, r, new, wanted), ~w /\ Wants(new) => IsUnderWay(r, new, wanted)
  PROVE  ReadersOK([all EXCEPT ![r] = new], wanted, b, w)
<1>1. PICK S : all \in Seq(S)
  BY DEF ReadersOK
<1>2. PICK then : then = [all EXCEPT ![r] = new]
  OBVIOUS
<1>3. /\ \E T : then \in Seq(T)
      /\ DOMAIN then = DOMAIN all /\ then[r] = new
      /\ \A other \in DOMAIN all \ {r} : then[other] = all[other]
  BY <1>1, <1>2, OneReader
<1>4. \A other \in DOMAIN then : ReaderOK(then[other], b, w)
  BY <1>3 DEF ReadersOK
<1>5. all[r].token \in Nat /\ new.token \in Nat
  BY DEF ReadersOK, ReaderOK
<1>6. ASSUME NEW q \in wanted
      PROVE  RequestOK(q, then)
  <2>1. CASE q \in asked
    <3>1. RequestOK(q, all)
      BY <2>1 DEF ReadersOK
    <3>2. CASE q.reader = r
      BY <1>3, <1>5, <3>1, <3>2 DEF RequestOK, Succeeds
    <3>3. CASE q.reader # r
      BY <1>3, <3>1, <3>3 DEF RequestOK
    <3>. QED
      BY <3>2, <3>3
  <2>2. CASE q \notin asked
    BY <1>3, <1>5, <2>2 DEF RequestOK, Succeeds
  <2>. QED
    BY <2>1, <2>2
<1>7. ASSUME ~w, NEW other \in DOMAIN then, Wants(then[other])
      PROVE  IsUnderWay(other, then[other], wanted)
  <2>1. CASE other = r
    BY <1>3, <1>7, <2>1
  <2>2. CASE other # r
    <3>1. then[other] = all[other] /\ IsUnderWay(other, all[other], asked)
      BY <1>3, <1>7, <2>2 DEF ReadersOK
    <3>. QED
      BY <2>2, <3>1 DEF IsUnderWay, Succeeds
  <2>. QED
    BY <2>1, <2>2
<1>8. ReadersOK(then, wanted, b, w)
  BY <1>3, <1>4, <1>6, <1>7 DEF ReadersOK
<1>. QED
  BY <1>2, <1>8

LEMMA LoadingIsOK ==
  ASSUME NEW start, NEW b, NEW w
  PROVE  ReaderOK(Loading(start), b, w) /\ ~Wants(Loading(start))
<1>1. /\ DOMAIN Loading(start) = {"start", "stage", "snapshot", "path", "token", "url", "disposed"}
      /\ Loading(start).stage = "loading" /\ Loading(start).path = <<>> /\ Loading(start).url = None
      /\ Loading(start).token \in Nat /\ Loading(start).disposed \in BOOLEAN
  BY DEF Loading
<1>2. Loading(start).stage # "page" /\ Loading(start).stage \in {"loading", "page", "error", "gone"}
  BY <1>1
<1>. QED
  BY <1>1, <1>2, Zenon DEF ReaderOK, Wants

\* Readers that begin.
LEMMA ReadersBegin ==
  ASSUME NEW all, NEW asked, NEW b, NEW w, ReadersOK(all, asked, b, w),
         NEW then, \E S : then \in Seq(S), DOMAIN all \subseteq DOMAIN then,
         \A r \in DOMAIN then : IF r \in DOMAIN all THEN then[r] = all[r]
                                ELSE \E start : then[r] = Loading(start)
  PROVE  ReadersOK(then, asked, b, w)
<1>1. \A r \in DOMAIN then : ReaderOK(then[r], b, w)
  BY LoadingIsOK DEF ReadersOK
<1>2. \A q \in asked : RequestOK(q, then)
  BY DEF ReadersOK, RequestOK
<1>3. ~w => \A r \in DOMAIN then : Wants(then[r]) => IsUnderWay(r, then[r], asked)
  BY LoadingIsOK DEF ReadersOK
<1>. QED
  BY <1>1, <1>2, <1>3 DEF ReadersOK

\* What was read stays, whatever is written.
LEMMA BookIsWritten ==
  ASSUME NEW all, NEW asked, NEW b, NEW c, NEW w, ReadersOK(all, asked, b, w)
  PROVE  ReadersOK(all, asked, c, TRUE)
<1>1. \A r \in DOMAIN all : ReaderOK(all[r], c, TRUE)
  BY DEF ReadersOK, ReaderOK, IsOfBook
<1>. QED
  BY <1>1 DEF ReadersOK

\* A page of the walk is shown.
LEMMA PageIsShown ==
  ASSUME NEW all, NEW asked, NEW b, NEW w, ReadersOK(all, asked, b, w),
         NEW r \in DOMAIN all, NEW reader,
         DOMAIN reader = {"start", "stage", "snapshot", "path", "token", "url", "disposed"},
         reader.token = all[r].token, reader.disposed \in BOOLEAN, IsOfBook(reader.snapshot, b, w),
         NEW path, IsWalk(reader.snapshot, reader.start, path),
         NEW page, page = reader.snapshot.pages[Last(path)],
         NEW new, new = [[reader EXCEPT !.path = path] EXCEPT !.stage = "page",
                                                              !.token = reader.token + 1, !.url = None],
         NEW wanted, wanted = asked \cup
           (IF page.image = None THEN {}
            ELSE {[reader |-> r, token |-> reader.token + 1, image |-> page.image]})
  PROVE  ReadersOK([all EXCEPT ![r] = new], wanted, b, w)
<1>1. /\ DOMAIN new = {"start", "stage", "snapshot", "path", "token", "url", "disposed"}
      /\ new.stage = "page" /\ new.token = reader.token + 1 /\ new.url = None /\ new.path = path
      /\ new.snapshot = reader.snapshot /\ new.start = reader.start /\ new.disposed = reader.disposed
  OBVIOUS
<1>2. all[r].token \in Nat /\ new.token > all[r].token /\ new.token >= all[r].token
      /\ new.token # all[r].token /\ new.token \in Nat
  BY <1>1 DEF ReadersOK, ReaderOK
<1>3. CurrentImage(new) = page.image
  BY <1>1 DEF CurrentImage, Current
<1>4. ReaderOK(new, b, w)
  BY <1>1, <1>2 DEF ReaderOK
<1>5. ASSUME NEW q \in wanted, q \notin asked
      PROVE  q.reader = r /\ q.token = new.token /\ q.image = CurrentImage(new)
  <2>1. q = [reader |-> r, token |-> reader.token + 1, image |-> page.image]
    BY <1>5
  <2>. QED
    BY <1>1, <1>3, <2>1
<1>6. ASSUME Wants(new)
      PROVE  IsUnderWay(r, new, wanted)
  <2>1. page.image # None
    BY <1>3, <1>6 DEF Wants
  <2>2. PICK q : q = [reader |-> r, token |-> reader.token + 1, image |-> page.image]
    OBVIOUS
  <2>3. q \in wanted /\ q.reader = r /\ q.token = new.token
    BY <1>1, <2>1, <2>2
  <2>. QED
    BY <2>3 DEF IsUnderWay
<1>7. \A q \in asked : q \in wanted \/ q.reader = r
  OBVIOUS
<1>8. \A q \in wanted : q \in asked \/ /\ q.reader = r /\ q.token = new.token
                                       /\ new.stage = "page" /\ q.image = CurrentImage(new)
  BY <1>1, <1>5
<1>9. Succeeds(all, asked, r, new, wanted)
  BY <1>2, <1>7, <1>8 DEF Succeeds
<1>. QED
  BY <1>4, <1>6, <1>9, ReplaceReader

\* Which readers there are, what they were opened for and which are disposed.
SameReaders(all, then) ==
  /\ Len(then) = Len(all) /\ DOMAIN then = DOMAIN all
  /\ \A r \in DOMAIN all : then[r].start = all[r].start /\ then[r].disposed = all[r].disposed

LEMMA OneGoesOn ==
  ASSUME NEW all, \E S : all \in Seq(S), NEW r \in DOMAIN all, NEW new,
         new.start = all[r].start, new.disposed = all[r].disposed
  PROVE  SameReaders(all, [all EXCEPT ![r] = new])
  BY OneReader DEF SameReaders

\* renderPage() does not come to its error: a walk is on a page of the story.
LEMMA RenderKeeps ==
  ASSUME ReadersInv, NEW r \in DOMAIN readers, NEW reader,
         DOMAIN reader = {"start", "stage", "snapshot", "path", "token", "url", "disposed"},
         reader.token = readers[r].token, reader.disposed \in BOOLEAN,
         reader.start = readers[r].start, reader.disposed = readers[r].disposed,
         IsOfBook(reader.snapshot, book, written),
         NEW path, IsWalk(reader.snapshot, reader.start, path), RenderPage(r, reader, path),
         UNCHANGED lostImages
  PROVE  ReadersOK(readers', Asked', book, written) /\ SameReaders(readers, readers')
<1>1. Last(path) \in DOMAIN reader.snapshot.pages
  BY DEF IsWalk, Last
<1>2. PICK page : page = reader.snapshot.pages[Last(path)]
  OBVIOUS
<1>3. PICK new : new = [[reader EXCEPT !.path = path] EXCEPT !.stage = "page",
                                                             !.token = reader.token + 1, !.url = None]
  OBVIOUS
<1>4. PICK wanted : wanted = Asked \cup
           (IF page.image = None THEN {}
            ELSE {[reader |-> r, token |-> reader.token + 1, image |-> page.image]})
  OBVIOUS
<1>5. PICK old : old = [reader EXCEPT !.path = path]
  OBVIOUS
<1>6. old.token = reader.token
  BY <1>5
<1>7. ShowImage(r, old, page)
  BY <1>1, <1>2, <1>5 DEF RenderPage
<1>8. readers' = [readers EXCEPT ![r] = new] /\ Asked' = wanted
  BY <1>3, <1>4, <1>5, <1>6, <1>7 DEF ShowImage, NextToken, Asked
<1>9. ReadersOK(readers, Asked, book, written)
  BY DEF ReadersInv
<1>10. ReadersOK(readers', Asked', book, written)
  BY <1>2, <1>3, <1>4, <1>8, <1>9, PageIsShown
<1>11. new.start = readers[r].start /\ new.disposed = readers[r].disposed
  BY <1>3
<1>12. SameReaders(readers, readers')
  BY <1>8, <1>9, <1>11, OneGoesOn DEF ReadersOK
<1>. QED
  BY <1>10, <1>12

LEMMA LoadKeeps ==
  ASSUME ReadersInv, BookInv, NEW r \in DOMAIN readers, Load(r, book), UNCHANGED lostImages
  PROVE  ReadersOK(readers', Asked', book, written) /\ SameReaders(readers, readers')
<1>1. ReaderOK(readers[r], book, written) /\ readers[r].stage = "loading"
  BY DEF ReadersInv, ReadersOK, Load
<1>2. PICK loaded : loaded = [readers[r] EXCEPT !.snapshot = Build(book)]
  OBVIOUS
<1>3. /\ DOMAIN loaded = {"start", "stage", "snapshot", "path", "token", "url", "disposed"}
      /\ loaded.snapshot = Build(book) /\ loaded.start = readers[r].start
      /\ loaded.token = readers[r].token /\ loaded.disposed = readers[r].disposed
  BY <1>1, <1>2 DEF ReaderOK
<1>4. CASE /\ loaded.snapshot # None
           /\ RenderPage(r, loaded, <<StartPage(readers[r], loaded.snapshot)>>)
  <2>1. IsOfBook(loaded.snapshot, book, written)
    BY <1>3, <1>4 DEF BookInv, IsOfBook
  <2>2. Build(book).start \in DOMAIN Build(book).pages
    BY <1>3, <1>4, SnapshotOfBook
  <2>3. PICK first : first = StartPage(readers[r], loaded.snapshot)
    OBVIOUS
  <2>4. first \in DOMAIN loaded.snapshot.pages /\ first \in {loaded.start, loaded.snapshot.start}
    BY <1>3, <2>2, <2>3 DEF StartPage
  <2>5. IsWalk(loaded.snapshot, loaded.start, <<first>>)
    BY <2>4, WalkBegins
  <2>6. loaded.disposed \in BOOLEAN
    BY <1>1, <1>3 DEF ReaderOK
  <2>. QED
    BY <1>3, <1>4, <2>1, <2>3, <2>5, <2>6, RenderKeeps
<1>5. CASE /\ readers' = [readers EXCEPT ![r].stage = IF readers[r].disposed THEN "gone" ELSE "error"]
           /\ Asked' = Asked
  <2>1. PICK new : new = [readers[r] EXCEPT !.stage = IF readers[r].disposed THEN "gone" ELSE "error"]
    OBVIOUS
  <2>2. /\ DOMAIN new = {"start", "stage", "snapshot", "path", "token", "url", "disposed"}
        /\ new.stage \in {"gone", "error"} /\ new.path = readers[r].path /\ new.url = readers[r].url
        /\ new.token = readers[r].token /\ new.disposed = readers[r].disposed
    BY <1>1, <2>1 DEF ReaderOK
  <2>3. ReaderOK(new, book, written) /\ ~Wants(new)
    <3>1. new.stage # "page" /\ new.path = <<>> /\ new.url = None
      BY <1>1, <2>2 DEF ReaderOK
    <3>2. new.token \in Nat /\ new.disposed \in BOOLEAN
      BY <1>1, <2>2 DEF ReaderOK
    <3>3. new.stage \in {"loading", "page", "error", "gone"}
      BY <2>2
    <3>. QED
      BY <2>2, <3>1, <3>2, <3>3, Zenon DEF ReaderOK, Wants
  <2>4. Succeeds(readers, Asked, r, new, Asked)
    BY <1>1, <2>2 DEF Succeeds, ReaderOK
  <2>5. readers' = [readers EXCEPT ![r] = new]
    BY <1>5, <2>1
  <2>6. ReadersOK(readers, Asked, book, written)
    BY DEF ReadersInv
  <2>7. ReadersOK([readers EXCEPT ![r] = new], Asked, book, written)
    BY <2>3, <2>4, <2>6, ReplaceReader
  <2>8. new.start = readers[r].start
    BY <1>1, <2>1 DEF ReaderOK
  <2>9. SameReaders(readers, [readers EXCEPT ![r] = new])
    BY <2>2, <2>6, <2>8, OneGoesOn DEF ReadersOK
  <2>. QED
    BY <1>5, <2>5, <2>7, <2>9
<1>. QED
  BY <1>2, <1>4, <1>5 DEF Load, Asked

LEMMA TurnKeeps ==
  ASSUME ReadersInv, NEW r \in DOMAIN readers, TurnPage(r), UNCHANGED lostImages
  PROVE  ReadersOK(readers', Asked', book, written) /\ SameReaders(readers, readers')
<1>. DEFINE reader == readers[r]
<1>1. ReaderOK(reader, book, written) /\ reader.stage = "page"
  BY DEF ReadersInv, ReadersOK, TurnPage
<1>2. /\ DOMAIN reader = {"start", "stage", "snapshot", "path", "token", "url", "disposed"}
      /\ reader.disposed \in BOOLEAN /\ IsOfBook(reader.snapshot, book, written)
      /\ IsWalk(reader.snapshot, reader.start, reader.path)
  BY <1>1 DEF ReaderOK
<1>3. PICK b \in AllBooks : Build(b) # None /\ reader.snapshot = Build(b)
  BY <1>2 DEF IsOfBook
<1>4. Current(reader) \in DOMAIN reader.snapshot.pages
  BY <1>2 DEF IsWalk, Current, Last
<1>5. ASSUME NEW to \in Buttons(reader.snapshot.pages[Current(reader)]),
             RenderPage(r, reader, Append(reader.path, to))
      PROVE  ReadersOK(readers', Asked', book, written) /\ SameReaders(readers, readers')
  <2>1. to \in DOMAIN reader.snapshot.pages
    BY <1>3, <1>4, ButtonsLead, SnapshotOfBook
  <2>2. IsWalk(reader.snapshot, reader.start, Append(reader.path, to))
    BY <1>2, <2>1, WalkOn DEF Current
  <2>. QED
    BY <1>2, <1>5, <2>2, RenderKeeps
<1>6. ASSUME Len(reader.path) > 1, RenderPage(r, reader, Front(reader.path))
      PROVE  ReadersOK(readers', Asked', book, written) /\ SameReaders(readers, readers')
  <2>1. IsWalk(reader.snapshot, reader.start, Front(reader.path))
    BY <1>2, <1>6, WalkBack
  <2>. QED
    BY <1>2, <1>6, <2>1, RenderKeeps
<1>7. ASSUME RenderPage(r, reader, <<reader.snapshot.start>>)
      PROVE  ReadersOK(readers', Asked', book, written) /\ SameReaders(readers, readers')
  <2>1. reader.snapshot.start \in DOMAIN reader.snapshot.pages
    BY <1>3, SnapshotOfBook
  <2>2. IsWalk(reader.snapshot, reader.start, <<reader.snapshot.start>>)
    BY <2>1, WalkBegins
  <2>. QED
    BY <1>2, <1>7, <2>2, RenderKeeps
<1>. QED
  BY <1>5, <1>6, <1>7 DEF TurnPage

LEMMA ImageKeeps ==
  ASSUME ReadersInv, NEW q \in requests, ImageRead(q, book), UNCHANGED lostImages
  PROVE  ReadersOK(readers', Asked', book, written) /\ SameReaders(readers, readers')
<1>. DEFINE reader == readers[q.reader]
<1>0. q \in Asked
  BY DEF Asked
<1>1. PICK r \in DOMAIN readers : r = q.reader
  BY <1>0 DEF ReadersInv, ReadersOK, RequestOK
<1>2. ReadersOK(readers, Asked, book, written) /\ ReaderOK(readers[r], book, written) /\ RequestOK(q, readers)
  BY <1>0 DEF ReadersInv, ReadersOK
<1>3. PICK wanted : wanted = (requests \ {q}) \cup lostImages
  OBVIOUS
<1>3a. wanted \subseteq Asked /\ Asked \ {q} \subseteq wanted
  BY <1>3 DEF Asked
<1>4. CASE ~readers[r].disposed /\ q.token = readers[r].token /\ book.media[q.image] > 0
  <2>1. readers[r].stage = "page" /\ q.image = CurrentImage(readers[r])
    BY <1>1, <1>2, <1>4 DEF RequestOK
  <2>2. PICK new : new = [readers[r] EXCEPT !.url = q.image]
    OBVIOUS
  <2>3. /\ DOMAIN new = {"start", "stage", "snapshot", "path", "token", "url", "disposed"}
        /\ new.url = q.image /\ new.path = readers[r].path /\ new.snapshot = readers[r].snapshot
        /\ new.start = readers[r].start /\ new.stage = "page"
        /\ new.token = readers[r].token /\ new.disposed = readers[r].disposed
    BY <1>2, <2>1, <2>2 DEF ReaderOK
  <2>4. CurrentImage(new) = CurrentImage(readers[r])
    BY <2>3 DEF CurrentImage, Current
  <2>5. new.token \in Nat /\ new.token >= readers[r].token
    BY <1>2, <2>3 DEF ReaderOK
  <2>6. ReaderOK(new, book, written)
    BY <1>2, <1>4, <2>1, <2>3, <2>4, Zenon DEF ReaderOK
  <2>7. ~Wants(new)
    BY <2>1, <2>3, <2>4 DEF Wants
  <2>8. Succeeds(readers, Asked, r, new, wanted)
    BY <1>1, <1>3a, <2>3, <2>4, <2>5 DEF Succeeds
  <2>9. ReadersOK([readers EXCEPT ![r] = new], wanted, book, written)
    BY <1>2, <2>6, <2>7, <2>8, ReplaceReader
  <2>10. readers' = [readers EXCEPT ![r] = new] /\ Asked' = wanted
    BY <1>1, <1>3, <1>4, <2>2 DEF ImageRead, Asked
  <2>11. SameReaders(readers, [readers EXCEPT ![r] = new])
    BY <1>2, <2>3, OneGoesOn DEF ReadersOK
  <2>. QED
    BY <2>9, <2>10, <2>11
<1>5. CASE ~(~readers[r].disposed /\ q.token = readers[r].token /\ book.media[q.image] > 0)
  <2>1. readers' = readers /\ Asked' = wanted
    BY <1>1, <1>3, <1>5 DEF ImageRead, Asked
  <2>2. ASSUME ~written, NEW s \in DOMAIN readers, Wants(readers[s])
        PROVE  IsUnderWay(s, readers[s], wanted)
    <3>1. PICK other \in Asked : other.reader = s /\ other.token = readers[s].token
      BY <1>2, <2>2 DEF ReadersOK, IsUnderWay
    <3>2. CASE other = q
      <4>1. s = r /\ q.token = readers[r].token /\ ~readers[r].disposed
        BY <1>1, <2>2, <3>1, <3>2 DEF Wants
      <4>2. /\ q.image = CurrentImage(readers[r]) /\ q.image # None
            /\ readers[r].stage = "page"
        BY <1>1, <1>2, <2>2, <4>1 DEF RequestOK, Wants
      <4>3. book.media[q.image] > 0
        <5>1. Build(book) # None /\ readers[r].snapshot = Build(book)
          BY <1>2, <2>2, <4>2 DEF ReaderOK, IsOfBook
        <5>2. Current(readers[r]) \in DOMAIN Build(book).pages
          BY <1>2, <4>2, <5>1 DEF ReaderOK, IsWalk, Current, Last
        <5>3. PICK id : id \in DOMAIN book.spec.nodes /\ id = Current(readers[r])
          BY <5>1, <5>2, SnapshotOfBook
        <5>4. q.image = PageOf(book, book.spec.nodes[id]).image
          BY <4>2, <5>1, <5>3, SnapshotOfBook DEF CurrentImage
        <5>5. PICK slug : slug = Chapter(book.spec.nodes[id])
          OBVIOUS
        <5>. QED
          BY <4>2, <5>4, <5>5, PageFields
      <4>. QED
        BY <1>5, <4>1, <4>3
    <3>3. CASE other # q
      BY <1>3a, <3>1, <3>3 DEF IsUnderWay
    <3>. QED
      BY <3>2, <3>3
  <2>3. ReadersOK(readers, wanted, book, written)
    BY <1>2, <1>3a, <2>2 DEF ReadersOK
  <2>. QED
    BY <2>1, <2>3 DEF SameReaders
<1>. QED
  BY <1>4, <1>5

LEMMA DisposedKeeps ==
  ASSUME ReadersInv, NEW r \in DOMAIN readers, NEW then, then = Disposed(r)
  PROVE  /\ ReadersOK(then, Asked, book, written) /\ DOMAIN then = DOMAIN readers /\ Len(then) = Len(readers)
         /\ then[r].disposed /\ \A s \in DOMAIN readers : then[s].start = readers[s].start
         /\ \A s \in DOMAIN readers \ {r} : then[s] = readers[s]
<1>1. ReadersOK(readers, Asked, book, written) /\ ReaderOK(readers[r], book, written)
  BY DEF ReadersInv, ReadersOK
<1>2. PICK new : new = [[readers[r] EXCEPT !.disposed = TRUE] EXCEPT !.url = None]
  OBVIOUS
<1>3. /\ DOMAIN new = {"start", "stage", "snapshot", "path", "token", "url", "disposed"}
      /\ new.path = readers[r].path /\ new.snapshot = readers[r].snapshot /\ new.url = None
      /\ new.start = readers[r].start /\ new.stage = readers[r].stage
      /\ new.token = readers[r].token /\ new.disposed = TRUE
  BY <1>1, <1>2 DEF ReaderOK
<1>4. new.disposed /\ new.disposed \in BOOLEAN
  BY <1>3
<1>5. CurrentImage(new) = CurrentImage(readers[r])
  BY <1>3 DEF CurrentImage, Current
<1>6. ReaderOK(new, book, written) /\ ~Wants(new)
  BY <1>1, <1>3, <1>4, Zenon DEF ReaderOK, Wants
<1>7. readers[r].token \in Nat /\ new.token >= readers[r].token
  BY <1>1, <1>3 DEF ReaderOK
<1>8. Succeeds(readers, Asked, r, new, Asked)
  BY <1>3, <1>5, <1>7 DEF Succeeds
<1>9. ReadersOK([readers EXCEPT ![r] = new], Asked, book, written)
  BY <1>1, <1>6, <1>8, ReplaceReader
<1>10. PICK S : readers \in Seq(S)
  BY <1>1 DEF ReadersOK
<1>11. then = [readers EXCEPT ![r] = new]
  BY <1>2, <1>10 DEF Disposed
<1>12. /\ DOMAIN then = DOMAIN readers /\ Len(then) = Len(readers) /\ then[r] = new
       /\ \A s \in DOMAIN readers \ {r} : then[s] = readers[s]
  BY <1>10, <1>11, OneReader
<1>. QED
  BY <1>3, <1>4, <1>9, <1>11, <1>12

\* The preview has a reader; every other one is disposed, but for one that render()
\* replaces before anything was seen of it.
SeatsOf(all, own) ==
  \A r \in DOMAIN all : all[r].disposed \/ r = own \/ (r < Len(all) /\ all[r + 1].start # None)

LiveInv ==
  /\ live \in 0 .. Len(readers) /\ (live > 0 <=> tab = "preview" /\ InEditor)
  /\ SeatsOf(readers, live)

ScreenInv == MapInv /\ ReadersInv /\ LiveInv

LEMMA LengthOfReaders ==
  ASSUME NEW all, \E S : all \in Seq(S)
  PROVE  Len(all) \in Nat /\ DOMAIN all = 1 .. Len(all)
  OBVIOUS

LEMMA SeatsStay ==
  ASSUME ReadersInv, LiveInv, SameReaders(readers, readers'), UNCHANGED <<live, tab>>, InEditor' = InEditor
  PROVE  LiveInv'
<1>1. Len(readers) \in Nat /\ DOMAIN readers = 1 .. Len(readers)
  BY LengthOfReaders DEF ReadersInv, ReadersOK
<1>2. SeatsOf(readers', live)
  BY <1>1 DEF LiveInv, SeatsOf, SameReaders
<1>. QED
  BY <1>2 DEF LiveInv, SameReaders

LEMMA LeftKeeps ==
  ASSUME ReadersInv, LiveInv, NEW left, left = Left
  PROVE  /\ ReadersOK(left, Asked, book, written) /\ Len(left) = Len(readers)
         /\ SeatsOf(left, 0)
<1>1. ReadersOK(readers, Asked, book, written) /\ Len(readers) \in Nat /\ DOMAIN readers = 1 .. Len(readers)
  BY LengthOfReaders DEF ReadersInv, ReadersOK
<1>2. CASE live = 0
  BY <1>1, <1>2 DEF Left, LiveInv
<1>3. CASE live # 0
  <2>1. live \in DOMAIN readers
    BY <1>1, <1>3 DEF LiveInv
  <2>2. PICK r \in DOMAIN readers : r = live
    BY <2>1
  <2>3. left = Disposed(r)
    BY <1>3, <2>2 DEF Left
  <2>4. /\ ReadersOK(left, Asked, book, written) /\ DOMAIN left = DOMAIN readers /\ Len(left) = Len(readers)
        /\ left[r].disposed /\ \A s \in DOMAIN readers : left[s].start = readers[s].start
        /\ \A s \in DOMAIN readers \ {r} : left[s] = readers[s]
    BY <2>3, DisposedKeeps
  <2>5. \A s \in DOMAIN readers : left[s].disposed \/ (s < Len(readers) /\ left[s + 1].start # None)
    BY <1>1, <2>2, <2>4 DEF LiveInv, SeatsOf
  <2>. QED
    BY <2>4, <2>5 DEF SeatsOf
<1>. QED
  BY <1>2, <1>3

\* Another tab, or none any more.
LEMMA TabKeeps ==
  ASSUME ReadersInv, LiveInv, UNCHANGED <<Asked, book, written>>,
         \/ readers' = Left /\ live' = 0 /\ ~(tab' = "preview" /\ InEditor')
         \/ /\ readers' = Append(Left, Loading(None)) /\ live' = Len(readers) + 1
            /\ tab' = "preview" /\ InEditor'
  PROVE  ReadersInv' /\ LiveInv'
<1>1. Len(readers) \in Nat
  BY LengthOfReaders DEF ReadersInv, ReadersOK
<1>2. PICK left : left = Left
  OBVIOUS
<1>3. ReadersOK(left, Asked, book, written) /\ Len(left) = Len(readers) /\ SeatsOf(left, 0)
  BY <1>2, LeftKeeps
<1>4. CASE readers' = left /\ live' = 0 /\ ~(tab' = "preview" /\ InEditor')
  <2>1. live' \in 0 .. Len(readers')
    BY <1>1, <1>3, <1>4
  <2>. QED
    BY <1>3, <1>4, <2>1 DEF ReadersInv, LiveInv
<1>5. CASE /\ readers' = Append(left, Loading(None)) /\ live' = Len(readers) + 1
           /\ tab' = "preview" /\ InEditor'
  <2>1. PICK begun : begun = Loading(None)
    OBVIOUS
  <2>2. PICK S : left \in Seq(S)
    BY <1>3 DEF ReadersOK
  <2>3. PICK then : then = Append(left, begun)
    OBVIOUS
  <2>4. /\ \E T : then \in Seq(T)
        /\ Len(then) = Len(left) + 1 /\ then[Len(left) + 1] = begun
        /\ \A i \in DOMAIN left : then[i] = left[i]
    BY <2>2, <2>3, OneMore
  <2>5. DOMAIN left = 1 .. Len(left) /\ DOMAIN then = 1 .. Len(left) + 1
    BY <2>2, <2>4, LengthOfReaders
  <2>6. ReadersOK(then, Asked, book, written)
    BY <1>1, <1>3, <2>1, <2>4, <2>5, ReadersBegin
  <2>7. SeatsOf(then, Len(left) + 1)
    BY <1>1, <1>3, <2>4, <2>5 DEF SeatsOf
  <2>8. readers' = then
    BY <1>5, <2>1, <2>3
  <2>9. live' \in 0 .. Len(readers') /\ live' > 0 /\ live' = Len(left) + 1
    BY <1>1, <1>3, <1>5, <2>4, <2>8
  <2>. QED
    BY <1>5, <2>6, <2>7, <2>8, <2>9 DEF ReadersInv, LiveInv
<1>. QED
  BY <1>2, <1>4, <1>5

LEMMA PreviewFromNodeKeeps ==
  ASSUME ReadersInv, LiveInv, PreviewFromNode, UNCHANGED lostImages
  PROVE  ReadersInv' /\ LiveInv'
<1>1. ReadersOK(readers, Asked, book, written) /\ Len(readers) \in Nat /\ DOMAIN readers = 1 .. Len(readers)
  BY LengthOfReaders DEF ReadersInv, ReadersOK
<1>2. PICK id : id = NodeOf(story.spec, selection) /\ id # None
  BY DEF PreviewFromNode
<1>3. /\ UNCHANGED <<Asked, book, written>> /\ panzoom' = panzoom /\ tab' = "preview" /\ tab = "map"
      /\ readers' = readers \o <<Loading(None), Loading(id)>> /\ live' = Len(readers) + 2
  BY <1>2 DEF PreviewFromNode, Click, ApplyState, Asked
<1>4. InEditor' /\ live = 0
  BY <1>3 DEF PreviewFromNode, Click, InEditor, LiveInv
<1>5. PICK a, c : a = Loading(None) /\ c = Loading(id)
  OBVIOUS
<1>6. c.start = id
  BY <1>5 DEF Loading
<1>7. PICK S : readers \in Seq(S)
  BY <1>1 DEF ReadersOK
<1>8. PICK then : then = readers \o <<a, c>>
  OBVIOUS
<1>9. /\ \E T : then \in Seq(T)
      /\ Len(then) = Len(readers) + 2 /\ then[Len(readers) + 1] = a /\ then[Len(readers) + 2] = c
      /\ \A i \in DOMAIN readers : then[i] = readers[i]
  BY <1>7, <1>8, TwoMore
<1>10. DOMAIN then = 1 .. Len(readers) + 2
  BY <1>9, LengthOfReaders
<1>11. ReadersOK(then, Asked, book, written)
  BY <1>1, <1>5, <1>9, <1>10, ReadersBegin
<1>12. SeatsOf(then, Len(readers) + 2)
  BY <1>1, <1>2, <1>4, <1>6, <1>9, <1>10 DEF SeatsOf, LiveInv
<1>13. readers' = then
  BY <1>3, <1>5, <1>8
<1>14. live' \in 0 .. Len(readers') /\ live' > 0
  BY <1>1, <1>3, <1>9, <1>13
<1>. QED
  BY <1>3, <1>4, <1>11, <1>12, <1>13, <1>14 DEF ReadersInv, LiveInv

LEMMA ReadersStay ==
  ASSUME ReadersInv, LiveInv, UNCHANGED <<readers, Asked, live, tab, book, written>>, InEditor' = InEditor
  PROVE  ReadersInv' /\ LiveInv'
  BY DEF ReadersInv, LiveInv

LEMMA ScreenInitHolds == Init => ScreenInv
<1>. SUFFICES ASSUME Init PROVE ScreenInv
  OBVIOUS
<1>1. MapInv
  BY MapInitHolds
<1>2. PICK none : none = <<>>
  OBVIOUS
<1>3. none \in Seq({}) /\ Len(none) = 0 /\ DOMAIN none = {}
  BY <1>2
<1>4. Asked = {} /\ InEditor /\ live = IF tab = "preview" THEN 1 ELSE 0
  BY DEF Init, MapInit, InEditor, Asked
<1>5. ReadersOK(none, Asked, book, written)
  BY <1>4, <1>3 DEF ReadersOK
<1>6. CASE tab # "preview"
  <2>1. readers = none /\ live = 0
    BY <1>2, <1>4, <1>6 DEF Init
  <2>. QED
    BY <1>1, <1>4, <1>5, <1>6, <1>3, <2>1 DEF ScreenInv, ReadersInv, LiveInv, SeatsOf
<1>7. CASE tab = "preview"
  <2>1. PICK begun : begun = Loading(None)
    OBVIOUS
  <2>2. PICK one : one = <<begun>>
    OBVIOUS
  <2>3. one \in Seq({begun}) /\ Len(one) = 1 /\ DOMAIN one = 1 .. 1 /\ one[1] = begun
    BY <2>2, OneElement
  <2>4. \A r \in DOMAIN one : r = 1 /\ one[r] = Loading(None) /\ r \notin DOMAIN none
    BY <1>3, <2>1, <2>3
  <2>5. ReadersOK(one, Asked, book, written)
    BY <1>5, <1>3, <2>3, <2>4, ReadersBegin
  <2>6. readers = one /\ live = 1
    BY <1>4, <1>7, <2>1, <2>2 DEF Init
  <2>. QED
    BY <1>1, <1>4, <1>7, <2>3, <2>4, <2>5, <2>6 DEF ScreenInv, ReadersInv, LiveInv, SeatsOf
<1>. QED
  BY <1>6, <1>7

LEMMA ReadersNextKeeps == ScreenInv /\ [Next]_vars => ReadersInv' /\ LiveInv'
<1>. SUFFICES ASSUME ScreenInv, [Next]_vars PROVE ReadersInv' /\ LiveInv'
  OBVIOUS
<1>1. MapInv /\ ReadersInv /\ LiveInv
  BY DEF ScreenInv
<1>2. CASE UNCHANGED vars
  BY <1>1, <1>2, ReadersStay DEF vars, mapVars, readerVars, screenVars, lost, Asked, InEditor
<1>3. CASE OpenMapNode /\ UNCHANGED lost
  <2>1. PICK slug : ApplyState(slug, TRUE)
    BY <1>3 DEF OpenMapNode
  <2>. QED
    BY <1>1, <1>3, <2>1, ReadersStay DEF OpenMapNode, Click, readerVars, ApplyState, lost, Asked, InEditor
<1>4. CASE CloseMapNode /\ UNCHANGED lost
  BY <1>1, <1>4, ReadersStay DEF CloseMapNode, Click, readerVars, ApplyState, lost, Asked, InEditor
<1>5. CASE SetActiveTab /\ UNCHANGED lost
  <2>1. PICK to \in TopTab :
          /\ tab' = to /\ ApplyState(selection, to = "map")
          /\ IF to = tab THEN UNCHANGED <<readers, live>>
             ELSE IF to = "preview" THEN
               /\ readers' = Append(Left, Loading(None)) /\ live' = Len(readers) + 1
             ELSE readers' = Left /\ live' = 0
    BY <1>5 DEF SetActiveTab
  <2>2. UNCHANGED <<Asked, book, written>> /\ InEditor' /\ InEditor
    BY <1>5, <2>1 DEF SetActiveTab, Click, ApplyState, lost, Asked, InEditor
  <2>3. CASE to = tab
    BY <1>1, <2>1, <2>2, <2>3, ReadersStay
  <2>4. CASE to # tab
    BY <1>1, <2>1, <2>2, <2>4, TabKeeps
  <2>. QED
    BY <2>3, <2>4
<1>6. CASE PreviewFromNode /\ UNCHANGED lost
  BY <1>1, <1>6, PreviewFromNodeKeeps DEF lost
<1>7. CASE TurnLivePage /\ UNCHANGED lost
  <2>1. live \in DOMAIN readers
    BY <1>1, <1>7, LengthOfReaders DEF TurnLivePage, LiveInv, ReadersInv, ReadersOK
  <2>2. ReadersOK(readers', Asked', book, written) /\ SameReaders(readers, readers')
    BY <1>1, <1>7, <2>1, TurnKeeps DEF TurnLivePage, lost
  <2>3. UNCHANGED <<book, written, tab, live>> /\ InEditor' = InEditor
    BY <1>7 DEF TurnLivePage, Click, mapVars, InEditor
  <2>. QED
    BY <1>1, <2>2, <2>3, SeatsStay DEF ReadersInv
<1>8. CASE MoveMap /\ UNCHANGED lost
  BY <1>1, <1>8, ReadersStay DEF MoveMap, MapMoves, readerVars, lost, Asked, InEditor
<1>9. CASE Timer /\ UNCHANGED lost
  <2>1. InEditor' = InEditor
    BY <1>1, <1>9 DEF Timer, TimerFires, BuildPanzoom, ResetPan, Settle, InEditor
  <2>. QED
    BY <1>1, <1>9, <2>1, ReadersStay DEF Timer, readerVars, screenVars, lost, Asked
<1>10. CASE ReadinessArrives /\ UNCHANGED lost
  BY <1>1, <1>10, ReadersStay DEF ReadinessArrives, readerVars, ApplyState, lost, Asked, InEditor
<1>11. CASE ThumbnailAnswer
  BY <1>1, <1>11, ReadersStay DEF ThumbnailAnswer, ThumbnailRead, ThumbnailFails, readerVars, Asked, InEditor
<1>12. CASE StoryAnswer /\ UNCHANGED lost
  <2>1. PICK r \in DOMAIN readers : Load(r, book)
    BY <1>12 DEF StoryAnswer
  <2>2. ReadersOK(readers', Asked', book, written) /\ SameReaders(readers, readers')
    BY <1>1, <1>12, <2>1, LoadKeeps DEF MapInv, lost
  <2>3. UNCHANGED <<book, written, tab, live>> /\ InEditor' = InEditor
    BY <1>12 DEF StoryAnswer, mapVars, screenVars, InEditor
  <2>. QED
    BY <1>1, <2>2, <2>3, SeatsStay DEF ReadersInv
<1>13. CASE ImageAnswer
  <2>1. PICK q \in requests :
          \/ ImageRead(q, book) /\ UNCHANGED lostImages
          \/ ImageFails(q) /\ lostImages' = lostImages \cup {q}
    BY <1>13 DEF ImageAnswer
  <2>2. ReadersOK(readers', Asked', book, written) /\ SameReaders(readers, readers')
    <3>1. CASE ImageRead(q, book) /\ UNCHANGED lostImages
      BY <1>1, <3>1, ImageKeeps
    <3>2. CASE ImageFails(q) /\ lostImages' = lostImages \cup {q}
      <4>1. Asked' = Asked /\ readers' = readers
        BY <3>2 DEF ImageFails, Asked
      <4>. QED
        BY <1>1, <4>1 DEF ReadersInv, SameReaders
    <3>. QED
      BY <2>1, <3>1, <3>2
  <2>3. UNCHANGED <<book, written, tab, live>> /\ InEditor' = InEditor
    BY <1>13 DEF ImageAnswer, mapVars, screenVars, InEditor
  <2>. QED
    BY <1>1, <2>2, <2>3, SeatsStay DEF ReadersInv
<1>14. CASE AgentWrites /\ UNCHANGED lost
  <2>1. UNCHANGED <<readers, Asked, live, tab>> /\ written' = TRUE /\ InEditor' = InEditor
    BY <1>14 DEF AgentWrites, mapVars, readerVars, lost, Asked, InEditor
  <2>2. ReadersOK(readers, Asked, book', TRUE)
    BY <1>1, BookIsWritten DEF ReadersInv
  <2>. QED
    BY <1>1, <2>1, <2>2 DEF ReadersInv, LiveInv
<1>15. CASE DisposeEditorMount /\ UNCHANGED lost
  <2>1. UNCHANGED <<Asked, book, written>> /\ readers' = Left /\ live' = 0 /\ ~InEditor'
    BY <1>15 DEF DisposeEditorMount, DisposeMap, lost, Asked, InEditor
  <2>. QED
    BY <1>1, <2>1, TabKeeps
<1>. QED
  BY <1>2, <1>3, <1>4, <1>5, <1>6, <1>7, <1>8, <1>9, <1>10, <1>11, <1>12, <1>13, <1>14, <1>15 DEF Next

LEMMA AlwaysScreenInv == Spec => []ScreenInv
<1>1. ScreenInv /\ [Next]_vars => ScreenInv'
  BY MapNextKeeps, ReadersNextKeeps DEF ScreenInv
<1>. QED
  BY <1>1, ScreenInitHolds, PTL DEF Spec

\* renderPage(), goTo(), goBack() and restart(): a reader is on a page of the story
\* it has loaded, which it came to by the buttons of the pages before.
THEOREM WalkTheorem == Spec => []PathIsAWalk
<1>1. ASSUME ScreenInv, NEW r \in DOMAIN readers, readers[r].path # <<>>
      PROVE  /\ ToSet(readers[r].path) \subseteq DOMAIN readers[r].snapshot.pages
             /\ readers[r].path[1] \in {readers[r].start, readers[r].snapshot.start}
             /\ \A i \in 2 .. Len(readers[r].path) :
                  readers[r].path[i] \in Buttons(readers[r].snapshot.pages[readers[r].path[i - 1]])
  <2>1. ReaderOK(readers[r], book, written)
    BY <1>1 DEF ScreenInv, ReadersInv, ReadersOK
  <2>2. IsWalk(readers[r].snapshot, readers[r].start, readers[r].path)
    BY <1>1, <2>1 DEF ReaderOK
  <2>. QED
    BY <2>2 DEF IsWalk, ToSet
<1>2. ScreenInv => PathIsAWalk
  BY <1>1 DEF PathIsAWalk
<1>. QED
  BY <1>2, AlwaysScreenInv, PTL

\* showImage(): whatever order the answers come in, a reader holds the image of the
\* page it shows or none, none once it is disposed, and the one of that page when
\* nothing is under way, the workspace was not written and the read of the image for
\* this showing of the page has not failed.
THEOREM ImageTheorem == Spec => []ReaderImage
<1>1. ASSUME ScreenInv, NEW r \in DOMAIN readers
      PROVE  /\ readers[r].url # None =>
                  /\ readers[r].stage = "page" /\ ~readers[r].disposed
                  /\ readers[r].url = CurrentImage(readers[r])
             /\ /\ readers[r].stage = "page" /\ ~readers[r].disposed /\ ~written
                /\ \A q \in requests \cup lostImages : q.reader = r => q.token # readers[r].token
                => readers[r].url = CurrentImage(readers[r])
  <2>1. /\ ReaderOK(readers[r], book, written)
        /\ ~written /\ Wants(readers[r]) => IsUnderWay(r, readers[r], Asked)
    BY <1>1 DEF ScreenInv, ReadersInv, ReadersOK
  <2>. QED
    BY <2>1 DEF ReaderOK, Wants, IsUnderWay, Asked
<1>2. ScreenInv => ReaderImage
  BY <1>1 DEF ReaderImage
<1>. QED
  BY <1>2, AlwaysScreenInv, PTL

-----------------------------------------------------------------------------
(* The chips and the cards of the map                                       *)

LEMMA ErrorsAreAtNodes ==
  ASSUME NEW spec, NEW error \in Errors(spec)
  PROVE  error.at = None \/ error.at \in DOMAIN spec.nodes
<1>1. \A faults, id : \A found \in Found(faults, id) : found.at = id
  BY DEF Found
<1>2. CASE error \in Found(StoryFaults(spec), None)
  BY <1>1, <1>2
<1>3. CASE \E id \in DOMAIN spec.nodes : error \in Found(NodeFaults(spec, spec.nodes[id]), id)
  BY <1>1, <1>3
<1>. QED
  BY <1>2, <1>3 DEF Errors

LEMMA ChipsOf ==
  ASSUME NEW b
  PROVE  LET chips   == Chips(b, "report")
             missing == {slug \in Chapters(b.spec) : b.text[slug] = 0}
             bare    == {slug \in Chapters(b.spec) : b.media[slug] = 0}
         IN /\ DOMAIN chips = {"text", "media", "structure"}
            /\ chips.text.count = Cardinality(missing) /\ chips.text.leads = missing
            /\ chips.media.count = Cardinality(bare) /\ chips.media.leads = bare
            /\ chips.structure.leads = FaultyChapters(b)
<1>1. \A t, u, m, n, s, f :
        LET chips == [text |-> [count |-> t, leads |-> u], media |-> [count |-> m, leads |-> n],
                      structure |-> [count |-> s, leads |-> f]]
        IN /\ DOMAIN chips = {"text", "media", "structure"}
           /\ chips.text.count = t /\ chips.text.leads = u /\ chips.media.count = m /\ chips.media.leads = n
           /\ chips.structure.leads = f
  OBVIOUS
<1>2. "report" = "report" /\ "report" # "loading"
  OBVIOUS
<1>. QED
  BY <1>1, <1>2, Zenon DEF Chips

LEMMA ChipsLeadToPagesOf ==
  ASSUME NEW b, IsStory(b.spec)
  PROVE  LET chips == Chips(b, "report") IN
         /\ \A kind \in DOMAIN chips : \A slug \in chips[kind].leads : NodeOf(b.spec, slug) # None
         /\ chips.text.count > 0 => chips.text.leads # {}
         /\ chips.media.count > 0 => chips.media.leads # {}
         /\ \A slug \in chips.text.leads : MapNode(b, "report", NodeOf(b.spec, slug)).text = "missing"
         /\ \A slug \in chips.media.leads : MapNode(b, "report", NodeOf(b.spec, slug)).media = "missing"
<1>1. PICK chips, missing, bare : /\ chips = Chips(b, "report")
                                  /\ missing = {slug \in Chapters(b.spec) : b.text[slug] = 0}
                                  /\ bare = {slug \in Chapters(b.spec) : b.media[slug] = 0}
  OBVIOUS
<1>2. /\ DOMAIN chips = {"text", "media", "structure"}
      /\ chips.text.count = Cardinality(missing) /\ chips.text.leads = missing
      /\ chips.media.count = Cardinality(bare) /\ chips.media.leads = bare
      /\ chips.structure.leads = FaultyChapters(b)
  BY <1>1, ChipsOf, Zenon
<1>3. FaultyChapters(b) \subseteq Chapters(b.spec)
  <2>1. None \notin DOMAIN b.spec.nodes
    BY NamesAssumption DEF IsStory
  <2>. QED
    BY ErrorsAreAtNodes DEF FaultyChapters, Chapters
<1>4. ASSUME NEW kind \in DOMAIN chips, NEW slug \in chips[kind].leads
      PROVE  NodeOf(b.spec, slug) # None
  <2>1. chips[kind].leads \subseteq Chapters(b.spec)
    BY <1>1, <1>2, <1>3
  <2>. QED
    BY <1>4, <2>1, NodeOfChapter
<1>5. ~(0 > 0)
  OBVIOUS
<1>6. chips.text.count > 0 => chips.text.leads # {}
  BY <1>2, <1>5, FS_EmptySet
<1>7. chips.media.count > 0 => chips.media.leads # {}
  BY <1>2, <1>5, FS_EmptySet
<1>8. ASSUME NEW slug \in missing
      PROVE  MapNode(b, "report", NodeOf(b.spec, slug)).text = "missing"
  <2>1. slug \in Chapters(b.spec) /\ b.text[slug] = 0 /\ slug # None
    BY <1>1 DEF Chapters
  <2>2. Chapter(b.spec.nodes[NodeOf(b.spec, slug)]) = slug
    BY <2>1, NodeOfChapter
  <2>. QED
    BY <2>1, <2>2 DEF MapNode
<1>9. ASSUME NEW slug \in bare
      PROVE  MapNode(b, "report", NodeOf(b.spec, slug)).media = "missing"
  <2>1. slug \in Chapters(b.spec) /\ b.media[slug] = 0 /\ slug # None
    BY <1>1 DEF Chapters
  <2>2. Chapter(b.spec.nodes[NodeOf(b.spec, slug)]) = slug
    BY <2>1, NodeOfChapter
  <2>. QED
    BY <2>1, <2>2 DEF MapNode
<1>. QED
  BY <1>1, <1>2, <1>4, <1>6, <1>7, <1>8, <1>9

\* The chips above the map and the details beside it (map/render.ts): each chapter that
\* a chip may open is that of a page on the map, whose card says what the chip counts.
THEOREM ChipsTheorem == Spec => []ChipsLeadToPages
<1>1. MapInv => IsStory(book.spec)
  BY ScreenAssumption DEF MapInv, BookInv, IsBook
<1>2. MapInv => ChipsLeadToPages
  BY <1>1, ChipsLeadToPagesOf DEF ChipsLeadToPages
<1>. QED
  BY <1>2, AlwaysMapInv, PTL

LEMMA UnreachableOf ==
  ASSUME NEW spec, IsStory(spec), \A id \in DOMAIN spec.nodes : Named(id)
  PROVE  {warning.at : warning \in Warnings(spec)} = DOMAIN spec.nodes \ ToSet(Reading(spec))
<1>1. Warnings(spec) = {[at |-> id, what |-> "unreachable"] : id \in DOMAIN spec.nodes \ ToSet(Reading(spec))}
  BY ReadingIsReached DEF Warnings
<1>2. PICK found : found = DOMAIN spec.nodes \ ToSet(Reading(spec))
  OBVIOUS
<1>3. ASSUME NEW warning \in Warnings(spec) PROVE warning.at \in found
  <2>1. PICK id \in found : warning = [at |-> id, what |-> "unreachable"]
    BY <1>1, <1>2
  <2>. QED
    BY <2>1
<1>4. ASSUME NEW id \in found PROVE \E warning \in Warnings(spec) : warning.at = id
  <2>1. PICK warning : warning = [at |-> id, what |-> "unreachable"]
    OBVIOUS
  <2>2. warning \in Warnings(spec)
    BY <1>1, <1>2, <2>1
  <2>. QED
    BY <2>1, <2>2
<1>. QED
  BY <1>2, <1>3, <1>4

LEMMA OutgoingOf ==
  ASSUME NEW spec, IsStory(spec), \A id \in DOMAIN spec.nodes : Named(id), NEW id \in DOMAIN spec.nodes
  PROVE  {edge.to : edge \in Outgoing(spec, id)} = TargetsOf(spec, id) \cap DOMAIN spec.nodes
<1>1. \A to : LeadsTo(spec, to) <=> to \in DOMAIN spec.nodes
  BY DEF LeadsTo, Exists
<1>2. PICK links : links = ToSet(Links(spec, id))
  OBVIOUS
<1>3. ASSUME NEW edge \in Outgoing(spec, id)
      PROVE  edge.to \in TargetsOf(spec, id) \cap DOMAIN spec.nodes
  <2>1. edge \in Edges(spec) /\ edge.from = id
    BY DEF Outgoing
  <2>2. PICK from \in DOMAIN spec.nodes :
          edge \in {[from |-> from, to |-> link.target, label |-> link.label] :
                      link \in {way \in ToSet(Links(spec, from)) : LeadsTo(spec, way.target)}}
    BY <2>1 DEF Edges
  <2>3. PICK link \in {way \in ToSet(Links(spec, from)) : LeadsTo(spec, way.target)} :
          edge = [from |-> from, to |-> link.target, label |-> link.label]
    BY <2>2
  <2>4. edge.from = from /\ edge.to = link.target
    BY <2>3
  <2>5. from = id /\ link \in links /\ LeadsTo(spec, link.target)
    BY <1>2, <2>1, <2>3, <2>4
  <2>. QED
    BY <1>1, <1>2, <2>4, <2>5 DEF TargetsOf
<1>4. ASSUME NEW link \in links, link.target \in DOMAIN spec.nodes
      PROVE  \E edge \in Outgoing(spec, id) : edge.to = link.target
  <2>1. PICK edge : edge = [from |-> id, to |-> link.target, label |-> link.label]
    OBVIOUS
  <2>2. link \in {way \in ToSet(Links(spec, id)) : LeadsTo(spec, way.target)}
    BY <1>1, <1>2, <1>4
  <2>3. edge \in Edges(spec)
    BY <2>1, <2>2 DEF Edges
  <2>4. edge.from = id /\ edge.to = link.target
    BY <2>1
  <2>. QED
    BY <2>3, <2>4 DEF Outgoing
<1>5. TargetsOf(spec, id) = {link.target : link \in links}
  BY <1>2 DEF TargetsOf
<1>. QED
  BY <1>3, <1>4, <1>5

LEMMA MapAgreesOf ==
  ASSUME NEW b \in AllBooks, \A id \in DOMAIN b.spec.nodes : Named(id)
  PROVE  LET spec == b.spec
             order == ReadingOrder(spec)
             unreachable == {warning.at : warning \in Warnings(spec)}
             snapshot == Build(b)
         IN /\ Len(order) = Cardinality(DOMAIN spec.nodes) /\ ToSet(order) = DOMAIN spec.nodes
            /\ \A i, j \in DOMAIN order : i < j /\ order[i] \in unreachable => order[j] \in unreachable
            /\ snapshot # None => \A id \in DOMAIN spec.nodes :
                 {edge.to : edge \in Outgoing(spec, id)} = Buttons(snapshot.pages[id])
<1>1. PICK spec, order : spec = b.spec /\ order = ReadingOrder(spec)
  OBVIOUS
<1>2. IsStory(spec) /\ \A id \in DOMAIN spec.nodes : Named(id)
  BY <1>1, ScreenAssumption DEF IsBook
<1>3. Ordered(spec, order) /\ ToSet(order) = DOMAIN spec.nodes
  BY <1>1, <1>2, ReadingOrderOf
<1>4. Len(order) = Cardinality(DOMAIN spec.nodes)
  BY <1>3 DEF Ordered, Distinct
<1>5. PICK unreachable : unreachable = {warning.at : warning \in Warnings(spec)}
  OBVIOUS
<1>6. unreachable = DOMAIN spec.nodes \ ToSet(Reading(spec))
  BY <1>2, <1>5, UnreachableOf
<1>7. ASSUME NEW i \in DOMAIN order, NEW j \in DOMAIN order, i < j, order[i] \in unreachable
      PROVE  order[j] \in unreachable
  <2>1. order[j] \in DOMAIN spec.nodes
    BY <1>3, InToSet
  <2>2. order[j] \notin ToSet(Reading(spec))
    BY <1>3, <1>6, <1>7 DEF Ordered
  <2>. QED
    BY <1>6, <2>1, <2>2
<1>8. ASSUME Build(b) # None, NEW id \in DOMAIN spec.nodes
      PROVE  {edge.to : edge \in Outgoing(spec, id)} = Buttons(Build(b).pages[id])
  <2>1. {edge.to : edge \in Outgoing(spec, id)} = TargetsOf(spec, id) \cap DOMAIN spec.nodes
    BY <1>2, OutgoingOf
  <2>2. PICK node, buttons : node = spec.nodes[id] /\ buttons = Buttons(Build(b).pages[id])
    OBVIOUS
  <2>3. \A to \in DOMAIN spec.nodes : to \in TargetsOf(spec, id) <=> Follows(spec, id, to)
    BY <1>2, FollowsLinks
  <2>4. \A to \in DOMAIN spec.nodes : Follows(spec, id, to) <=> (to = node.next \/ Offered(node, to))
    BY <1>2, <2>2 DEF Follows
  <2>5. buttons \subseteq DOMAIN spec.nodes
    BY <1>1, <1>8, <2>2, ButtonsLead
  <2>6. \A to \in DOMAIN spec.nodes : to \in buttons <=> (to = node.next \/ Offered(node, to))
    BY <1>1, <1>8, <2>2, PreviewIsTheStoryOf
  <2>. QED
    BY <2>1, <2>2, <2>3, <2>4, <2>5, <2>6
<1>. QED
  BY <1>1, <1>3, <1>4, <1>5, <1>7, <1>8

\* The map (map/model.ts), validate() and the reader walk the same story: the map has
\* every page once, the unreachable ones last, and draws the ways that the reader offers.
THEOREM MapTheorem == Spec => []MapAgrees
<1>1. MapInv => MapAgrees
  BY MapAgreesOf DEF MapAgrees, MapInv, BookInv
<1>. QED
  BY <1>1, AlwaysMapInv, PTL

-----------------------------------------------------------------------------
(* A preview on its way to the phone                                        *)

\* What of a page the builder leaves to the protocol: its name and its labels.
NamesFit(snapshot) ==
  \A id \in DOMAIN snapshot.pages :
    /\ Length[id] \in 1 .. Limits.id
    /\ \A i \in DOMAIN snapshot.pages[id].choices : snapshot.pages[id].choices[i].label > 0

\* And of an image: its name, which is the slug of its chapter.
IdsFit(snapshot) == \A slug \in DOMAIN snapshot.images : Length[slug] \in 1 .. Limits.imageId

\* Of what a preview is made, and what the builder has looked at.
LEMMA PagesOfPreview ==
  ASSUME NEW b \in AllBooks, Build(b) # None, NEW id \in DOMAIN Build(b).pages
  PROVE  LET page == Build(b).pages[id] IN
         /\ page.text <= Limits.text /\ Len(page.choices) <= Limits.choices
         /\ \A i \in DOMAIN page.choices :
              /\ page.choices[i].label \in Nat /\ page.choices[i].label <= Limits.label
              /\ page.choices[i].target \in DOMAIN Build(b).pages
         /\ page.next # None => page.next \in DOMAIN Build(b).pages
         /\ page.image # None => page.image \in DOMAIN Build(b).images
<1>1. /\ WithinLimits(b) /\ WaysOnExist(b.spec) /\ DOMAIN Build(b).pages = DOMAIN b.spec.nodes
      /\ Build(b).pages[id] = PageOf(b, b.spec.nodes[id]) /\ Build(b).images = ImagesOf(b)
  BY SnapshotOfBook
<1>2. PICK node, page : node = b.spec.nodes[id] /\ page = Build(b).pages[id]
  OBVIOUS
<1>3. /\ page.choices = ChoicesOf(node) /\ page.next = IF HasChoices(node) THEN None ELSE node.next
      /\ page.text = IF Chapter(node) = None THEN 0 ELSE b.text[Chapter(node)]
  BY <1>1, <1>2, PageFields
<1>4. id \in DOMAIN b.spec.nodes /\ IsStory(b.spec)
  BY <1>1, ScreenAssumption DEF IsBook
<1>5. page.text <= Limits.text
  <2>1. CASE Chapter(node) = None
    <3>1. Limits.text \in Nat
      BY PreviewLimitsAssumption
    <3>. QED
      BY <1>3, <2>1, <3>1
  <2>2. CASE Chapter(node) # None
    <3>1. Chapter(node) \in Chapters(b.spec)
      BY <1>2, <1>4, <2>2 DEF Chapters
    <3>2. b.text[Chapter(node)] <= Limits.text
      BY <1>1, <3>1 DEF WithinLimits
    <3>. QED
      BY <1>3, <2>2, <3>2
  <2>. QED
    BY <2>1, <2>2
<1>6. /\ Len(ChoicesOf(node)) <= Limits.choices
      /\ \A i \in DOMAIN ChoicesOf(node) : ChoicesOf(node)[i].label <= Limits.label
  BY <1>1, <1>2, <1>4 DEF WithinLimits
<1>7. /\ \A i \in DOMAIN ChoicesOf(node) : ChoicesOf(node)[i].target \in DOMAIN b.spec.nodes
      /\ ~HasChoices(node) /\ node.next # None => node.next \in DOMAIN b.spec.nodes
  BY <1>1, <1>2, <1>4 DEF WaysOnExist, Exists
<1>8. \A i \in DOMAIN ChoicesOf(node) : ChoicesOf(node)[i].label \in Nat
  <2>1. PICK choices, way : choices = ChoicesOf(node) /\ way = [label : Nat, target : Target]
    OBVIOUS
  <2>2. choices \in Seq(way)
    BY <1>2, <1>4, <2>1 DEF IsStory
  <2>3. \A i \in DOMAIN choices : choices[i] \in way
    BY <2>2
  <2>. QED
    BY <2>1, <2>3
<1>9. ASSUME page.image # None
      PROVE  page.image \in DOMAIN Build(b).images
  <2>1. /\ page.image = Chapter(node) /\ Chapter(node) # None /\ b.media[Chapter(node)] > 0
    BY <1>1, <1>2, <1>9 DEF PageOf
  <2>2. Chapter(node) \in Chapters(b.spec)
    BY <1>2, <1>4, <2>1 DEF Chapters
  <2>. QED
    BY <1>1, <2>1, <2>2 DEF Images, ImagesOf
<1>. QED
  BY <1>1, <1>2, <1>3, <1>5, <1>6, <1>7, <1>8, <1>9

LEMMA ImagesOfPreview ==
  ASSUME NEW b \in AllBooks, Build(b) # None
  PROVE  ImagesFit(Build(b).images) <=> IdsFit(Build(b))
<1>1. WithinLimits(b) /\ Build(b).images = ImagesOf(b)
  BY SnapshotOfBook
<1>2. DOMAIN ImagesOf(b) = Images(b) /\ \A slug \in Images(b) : ImagesOf(b)[slug] = b.media[slug]
  BY DEF ImagesOf
<1>3. ASSUME NEW slug \in Images(b)
      PROVE  b.media[slug] \in 1 .. Limits.image
  <2>1. b.media[slug] \in Nat /\ b.media[slug] > 0
    BY <1>3, ScreenAssumption DEF Images, IsBook
  <2>2. b.media[slug] <= Limits.image /\ Limits.image \in Nat
    BY <1>1, <1>3, PreviewLimitsAssumption DEF WithinLimits
  <2>. QED
    BY <2>1, <2>2
<1>4. Sum(ImagesOf(b), Images(b)) <= Limits.total
  BY <1>1 DEF WithinLimits
<1>5. \A images : /\ DOMAIN images = Images(b) /\ Sum(images, Images(b)) <= Limits.total
                  /\ \A slug \in Images(b) : images[slug] \in 1 .. Limits.image
                  => (ImagesFit(images) <=> \A slug \in Images(b) : Length[slug] \in 1 .. Limits.imageId)
  BY DEF ImagesFit, BoundedString
<1>6. IdsFit(Build(b)) <=> \A slug \in Images(b) : Length[slug] \in 1 .. Limits.imageId
  BY <1>1, <1>2 DEF IdsFit
<1>. QED
  BY <1>1, <1>2, <1>3, <1>4, <1>5, <1>6

LEMMA CountOfPages ==
  ASSUME NEW b \in AllBooks, Build(b) # None
  PROVE  Cardinality(DOMAIN Build(b).pages) \in 1 .. Limits.pages
<1>1. /\ WithinLimits(b) /\ DOMAIN Build(b).pages = DOMAIN b.spec.nodes
      /\ b.spec.start \in DOMAIN b.spec.nodes
  BY SnapshotOfBook
<1>2. IsFiniteSet(ToSet(Names)) /\ DOMAIN b.spec.nodes \in SUBSET ToSet(Names)
  BY NamesAssumption, ScreenAssumption, ElementsOfSeq DEF IsBook, IsStory
<1>3. IsFiniteSet(DOMAIN b.spec.nodes)
  BY <1>2, FS_Subset
<1>4. Cardinality(DOMAIN b.spec.nodes) \in Nat /\ Cardinality(DOMAIN b.spec.nodes) # 0
  BY <1>1, <1>3, FS_CardinalityType, FS_EmptySet
<1>5. Cardinality(DOMAIN b.spec.nodes) <= Limits.pages /\ Limits.pages \in Nat
  BY <1>1, PreviewLimitsAssumption DEF WithinLimits
<1>. QED
  BY <1>1, <1>4, <1>5

LEMMA PreviewReachesPhoneOf ==
  ASSUME NEW b \in AllBooks, Build(b) # None
  PROVE  LET snapshot == Build(b) IN
         IsPreviewSnapshot(snapshot) <=>
           snapshot.title \in 1 .. Limits.title /\ NamesFit(snapshot) /\ IdsFit(snapshot)
<1>1. PICK snapshot : snapshot = Build(b)
  OBVIOUS
<1>2. snapshot.start \in DOMAIN snapshot.pages
  BY <1>1, SnapshotOfBook
<1>3. /\ Cardinality(DOMAIN snapshot.pages) \in 1 .. Limits.pages
      /\ ImagesFit(snapshot.images) <=> IdsFit(snapshot)
  BY <1>1, CountOfPages, ImagesOfPreview
<1>4. ASSUME IsPreviewSnapshot(snapshot)
      PROVE  snapshot.title \in 1 .. Limits.title /\ NamesFit(snapshot) /\ IdsFit(snapshot)
  <2>1. Limits.label \in Nat
    BY PreviewLimitsAssumption
  <2>. QED
    BY <1>3, <1>4, <2>1 DEF IsPreviewSnapshot, IsPreviewPage, BoundedString, NamesFit
<1>5. ASSUME snapshot.title \in 1 .. Limits.title, NamesFit(snapshot), IdsFit(snapshot)
      PROVE  IsPreviewSnapshot(snapshot)
  <2>1. ASSUME NEW id \in DOMAIN snapshot.pages
        PROVE  IsPreviewPage(id, snapshot.pages[id])
    <3>1. PICK page : page = snapshot.pages[id]
      OBVIOUS
    <3>2. /\ page.text <= Limits.text /\ Len(page.choices) <= Limits.choices
          /\ \A i \in DOMAIN page.choices :
               /\ page.choices[i].label \in Nat /\ page.choices[i].label <= Limits.label
               /\ page.choices[i].target \in DOMAIN snapshot.pages
          /\ page.next # None => page.next \in DOMAIN snapshot.pages
          /\ page.image # None => page.image \in DOMAIN snapshot.images
      BY <1>1, <3>1, PagesOfPreview
    <3>3. /\ \A slug \in DOMAIN snapshot.images : Length[slug] \in 1 .. Limits.imageId
          /\ \A other \in DOMAIN snapshot.pages : Length[other] \in 1 .. Limits.id
          /\ \A i \in DOMAIN page.choices : page.choices[i].label > 0
      BY <1>5, <3>1 DEF NamesFit, IdsFit
    <3>4. Limits.label \in Nat
      BY PreviewLimitsAssumption
    <3>5. \A i \in DOMAIN page.choices : page.choices[i].label \in 1 .. Limits.label
      BY <3>2, <3>3, <3>4
    <3>. QED
      BY <3>1, <3>2, <3>3, <3>5 DEF IsPreviewPage, BoundedString
  <2>2. BoundedString(snapshot.title, Limits.title) /\ BoundedString(Length[snapshot.start], Limits.id)
    BY <1>2, <1>5 DEF NamesFit, BoundedString
  <2>3. ImagesFit(snapshot.images)
    BY <1>3, <1>5
  <2>. QED
    BY <1>3, <2>1, <2>2, <2>3 DEF IsPreviewSnapshot
<1>. QED
  BY <1>1, <1>4, <1>5

\* buildPreviewSnapshot() and isPreviewSnapshot(): what the tab previews is sent, passed
\* on and taken by the phone, but for what the builder does not look at.
THEOREM PhoneTheorem == Spec => []PreviewReachesPhone
<1>1. ASSUME NEW b \in AllBooks, Build(b) # None
      PROVE  /\ CheckSnapshotSize(Build(b)) /\ IsSnapshotManifestShape(Build(b)) /\ IsPreviewSnapshot(Build(b))
             <=>
             /\ b.title \in 1 .. Limits.title /\ NamesFit(Build(b)) /\ IdsFit(Build(b))
             /\ ManifestBytes(Build(b)) <= Limits.manifest
  <2>1. Build(b).title = b.title
    BY <1>1, SnapshotOfBook
  <2>2. IsSnapshotManifestShape(Build(b)) <=> IdsFit(Build(b))
    BY <1>1, ImagesOfPreview DEF IsSnapshotManifestShape
  <2>. QED
    BY <1>1, <2>1, <2>2, PreviewReachesPhoneOf, Zenon DEF CheckSnapshotSize
<1>2. MapInv => PreviewReachesPhone
  BY <1>1, Zenon DEF PreviewReachesPhone, NamesFit, IdsFit, MapInv, BookInv
<1>. QED
  BY <1>2, AlwaysMapInv, PTL

-----------------------------------------------------------------------------
(* The camera                                                               *)

CameraInv == camera \in [scale : Scales, pan : Int]

LEMMA HeightIsNumber ==
  ASSUME BookInv
  PROVE  Height \in Nat
<1>1. IsFiniteSet(ToSet(Names)) /\ DOMAIN story.spec.nodes \in SUBSET ToSet(Names)
  BY NamesAssumption, ScreenAssumption, ElementsOfSeq DEF BookInv, IsBook, IsStory
<1>2. Cardinality(DOMAIN story.spec.nodes) \in Nat
  BY <1>1, FS_Subset, FS_CardinalityType
<1>3. CardHeight \in Nat /\ CardGap \in Nat
  BY MapAssumption
<1>. QED
  BY <1>2, <1>3 DEF Height

\* There is a largest scale that does not enlarge the map.
LEMMA FitScaleOf ==
  ASSUME NEW height
  PROVE  FitScale(height) \in Scales
<1>1. Scales \subseteq Nat \ {0} /\ 2 \in Scales
  BY MapAssumption
<1>2. PICK smallest : smallest = CHOOSE s \in Scales : \A t \in Scales : s <= t
  OBVIOUS
<1>3. smallest \in Scales /\ smallest <= 2
  <2>1. \E s \in Scales : \A t \in Scales : s <= t
    BY <1>1, Smallest
  <2>. QED
    BY <1>1, <1>2, <2>1
<1>4. PICK fitting : fitting = {s \in Scales : s <= 2 /\ s * height <= 2 * Available} \cup {smallest}
  OBVIOUS
<1>5. fitting \subseteq Scales /\ fitting # {} /\ \A s \in fitting : s \in Nat /\ s <= 2
  BY <1>1, <1>3, <1>4
<1>6. \E s \in fitting : \A t \in fitting : t <= s
  <2>1. PICK T : T = {n \in Nat : \E s \in fitting : n = 2 - s}
    OBVIOUS
  <2>2. T \in SUBSET Nat /\ T # {}
    BY <1>5, <2>1
  <2>3. PICK n \in T : \A m \in T : n <= m
    BY <2>2, Smallest
  <2>4. PICK s \in fitting : n = 2 - s
    BY <2>1, <2>3
  <2>5. ASSUME NEW t \in fitting PROVE t <= s
    <3>1. 2 - t \in T
      BY <1>5, <2>1
    <3>2. 2 - s <= 2 - t
      BY <2>3, <2>4, <3>1
    <3>. QED
      BY <1>5, <3>2
  <2>. QED
    BY <2>5
<1>7. FitScale(height) \in fitting
  <2>1. FitScale(height) = CHOOSE s \in fitting : \A t \in fitting : t <= s
    BY <1>2, <1>4 DEF FitScale
  <2>. QED
    BY <1>6, <2>1
<1>. QED
  BY <1>5, <1>7

\* A point of the map that is brought to a point of the screen.
LEMMA PanForNumbers ==
  ASSUME BookInv, NEW offset \in Int, NEW scale \in Scales
  PROVE  PanFor(offset, scale) \in Int
<1>1. scale \in Nat /\ scale > 0 /\ Height \in Nat
  BY HeightIsNumber, MapAssumption
<1>2. PICK half : half = Height \div 2
  OBVIOUS
<1>3. half \in Int
  BY <1>1, <1>2
<1>4. PICK distance : distance = offset - half * (2 - scale)
  OBVIOUS
<1>5. distance \in Int
  BY <1>1, <1>3, <1>4
<1>6. distance \div scale \in Int
  BY <1>1, <1>5
<1>. QED
  BY <1>2, <1>4, <1>6 DEF PanFor

LEMMA CenterFitOf ==
  ASSUME BookInv
  PROVE  CenterFit \in [scale : Scales, pan : Int]
<1>1. 2 \in Scales /\ {ViewHeight, TopInset, FitMargin} \subseteq Nat /\ Scales \subseteq Nat
  BY MapAssumption
<1>2. Unmoved \in [scale : Scales, pan : Int]
  BY <1>1 DEF Unmoved
<1>3. PICK scale : scale = FitScale(Height)
  OBVIOUS
<1>4. scale \in Scales /\ scale \in Nat /\ Height \in Nat
  BY <1>1, <1>3, FitScaleOf, HeightIsNumber
<1>5. PICK free : free = 2 * Available - scale * Height
  OBVIOUS
<1>6. free \in Int
  <2>1. Available \in Int
    BY <1>1 DEF Available, Larger
  <2>2. scale * Height \in Int
    BY <1>4
  <2>. QED
    BY <1>5, <2>1, <2>2
<1>7. PICK offset : offset = Larger(2 * TopInset, 2 * TopInset + free \div 2)
  OBVIOUS
<1>8. offset \in Int
  BY <1>1, <1>6, <1>7 DEF Larger
<1>9. PanFor(offset, scale) \in Int
  BY <1>4, <1>8, PanForNumbers
<1>10. CenterFit = IF Height = 0 THEN Unmoved ELSE [scale |-> scale, pan |-> PanFor(offset, scale)]
  BY <1>3, <1>5, <1>7 DEF CenterFit
<1>. QED
  BY <1>2, <1>4, <1>9, <1>10

LEMMA BoxIsNumber ==
  ASSUME BookInv, NEW slug, NodeOf(story.spec, slug) # None
  PROVE  Box(NodeOf(story.spec, slug)) \in Int
<1>1. PICK order, id : order = ReadingOrder(story.spec) /\ id = NodeOf(story.spec, slug)
  OBVIOUS
<1>2. order \in Seq(DOMAIN story.spec.nodes)
  BY <1>1, ReadingOrderOf, ScreenAssumption DEF Ordered, BookInv, IsBook
<1>3. PICK has : has = {i \in DOMAIN order : Chapter(story.spec.nodes[order[i]]) = slug}
  OBVIOUS
<1>4. has # {} /\ id = order[Min(has)]
  BY <1>1, <1>3 DEF NodeOf
<1>5. has \in SUBSET Nat
  BY <1>2, <1>3
<1>6. Min(has) \in DOMAIN order
  BY <1>3, <1>4, <1>5, MinIsLeast
<1>7. PICK i : i = CHOOSE k \in DOMAIN order : order[k] = id
  OBVIOUS
<1>8. i \in DOMAIN order
  BY <1>4, <1>6, <1>7
<1>9. i \in Nat /\ CardGap \in Nat /\ CardHeight \in Nat
  BY <1>2, <1>8, MapAssumption
<1>10. Box(id) = CardGap + (i - 1) * (CardHeight + CardGap)
  BY <1>1, <1>7 DEF Box
<1>. QED
  BY <1>1, <1>9, <1>10

LEMMA EnsureNodeVisibleOf ==
  ASSUME BookInv, NEW slug, NodeOf(story.spec, slug) # None, NEW cam \in [scale : Scales, pan : Int]
  PROVE  EnsureNodeVisible(NodeOf(story.spec, slug), cam) \in [scale : Scales, pan : Int]
<1>1. PICK id, box, half : id = NodeOf(story.spec, slug) /\ box = Box(id) /\ half = Height \div 2
  OBVIOUS
<1>2. box \in Int /\ half \in Int /\ cam.scale \in Nat /\ cam.scale > 0 /\ cam.pan \in Int /\ cam.scale \in Scales
  <2>1. cam.scale \in Scales /\ cam.pan \in Int
    OBVIOUS
  <2>2. cam.scale \in Nat /\ cam.scale > 0
    <3>1. \A s \in Scales : s \in Nat /\ s > 0
      BY MapAssumption
    <3>. QED
      BY <2>1, <3>1
  <2>3. Height \in Nat
    BY HeightIsNumber
  <2>4. half \in Int
    BY <1>1, <2>3
  <2>5. box \in Int
    BY <1>1, BoxIsNumber
  <2>. QED
    BY <2>1, <2>2, <2>4, <2>5
<1>3. {CardHeight, ViewHeight, TopInset, FitMargin} \subseteq Nat
  BY MapAssumption
<1>4. \A p \in Int : cam.scale * (p + cam.pan) + half * (2 - cam.scale) \in Int
  BY <1>2
<1>5. PICK top, bottom : top = OnScreen(box, cam) /\ bottom = OnScreen(box + CardHeight, cam)
  OBVIOUS
<1>6. top \in Int /\ bottom \in Int
  <2>1. box + CardHeight \in Int
    BY <1>2, <1>3
  <2>. QED
    BY <1>1, <1>2, <1>4, <1>5, <2>1 DEF OnScreen
<1>7. FirstFree \in Int /\ LastFree \in Int
  BY <1>3 DEF FirstFree, LastFree, Larger
<1>8. PICK distance : distance = IF top < FirstFree THEN FirstFree - top
                                 ELSE IF bottom > LastFree THEN LastFree - bottom ELSE 0
  OBVIOUS
<1>9. distance \in Int
  BY <1>6, <1>7, <1>8
<1>10. cam.pan + InUnits(distance, cam) \in Int
  <2>1. distance \div cam.scale \in Int
    BY <1>2, <1>9
  <2>. QED
    BY <1>2, <2>1 DEF InUnits
<1>11. EnsureNodeVisible(id, cam) = [cam EXCEPT !.pan = @ + InUnits(distance, cam)]
  BY <1>1, <1>5, <1>8 DEF EnsureNodeVisible
<1>. QED
  BY <1>1, <1>2, <1>10, <1>11

LEMMA ApplyMovesCamera ==
  ASSUME BookInv, CameraInv, NEW selected, NEW seen, ApplyState(selected, seen)
  PROVE  CameraInv'
<1>1. PICK fit : fit = IF ~fitted /\ MayFit /\ Height > 0 /\ seen THEN CenterFit ELSE camera
  OBVIOUS
<1>2. fit \in [scale : Scales, pan : Int]
  BY <1>1, CenterFitOf DEF CameraInv
<1>3. PICK node : node = IF selected = applied \/ selected = None THEN None ELSE NodeOf(story.spec, selected)
  OBVIOUS
<1>4. camera' = IF node = None \/ panzoom # "built" THEN fit ELSE EnsureNodeVisible(node, fit)
  BY <1>1, <1>3 DEF ApplyState
<1>5. CASE node = None
  BY <1>2, <1>4, <1>5 DEF CameraInv
<1>6. CASE node # None
  <2>1. node = NodeOf(story.spec, selected)
    BY <1>3, <1>6
  <2>2. EnsureNodeVisible(node, fit) \in [scale : Scales, pan : Int]
    BY <1>2, <1>6, <2>1, EnsureNodeVisibleOf
  <2>. QED
    BY <1>2, <1>4, <2>2 DEF CameraInv
<1>. QED
  BY <1>5, <1>6

LEMMA CameraBegins == Init => CameraInv
<1>. SUFFICES ASSUME Init PROVE CameraInv
  OBVIOUS
<1>1. camera = Unmoved
  BY DEF Init, MapInit
<1>. QED
  BY <1>1, MapAssumption DEF CameraInv, Unmoved

LEMMA CameraKeeps == BookInv /\ CameraInv /\ [Next]_vars => CameraInv'
<1>. SUFFICES ASSUME BookInv, CameraInv, [Next]_vars PROVE CameraInv'
  OBVIOUS
<1>1. CASE camera' = camera
  BY <1>1 DEF CameraInv
<1>2. CASE OpenMapNode
  BY <1>2, ApplyMovesCamera DEF OpenMapNode
<1>3. CASE CloseMapNode
  BY <1>3, ApplyMovesCamera DEF CloseMapNode
<1>4. CASE SetActiveTab
  <2>1. PICK to : ApplyState(selection, to = "map")
    BY <1>4 DEF SetActiveTab
  <2>2. PICK seen : seen = (to = "map")
    OBVIOUS
  <2>. QED
    BY <2>1, <2>2, ApplyMovesCamera
<1>5. CASE PreviewFromNode
  BY <1>5, ApplyMovesCamera DEF PreviewFromNode
<1>6. CASE MoveMap
  <2>1. CASE \E s \in Scales, p \in Pans : camera' = [scale |-> s, pan |-> p]
    BY <2>1, MapAssumption DEF CameraInv
  <2>2. CASE camera' = CenterFit
    BY <2>2, CenterFitOf DEF CameraInv
  <2>. QED
    BY <1>6, <2>1, <2>2 DEF MoveMap, MapMoves
<1>7. CASE Timer
  <2>1. CASE BuildPanzoom
    BY <1>1, <2>1 DEF BuildPanzoom
  <2>2. CASE ResetPan
    BY <2>2 DEF ResetPan, CameraInv
  <2>3. CASE Settle(tab = "map")
    <3>1. camera' = CenterFit \/ camera' = camera
      BY <2>3 DEF Settle
    <3>. QED
      BY <1>1, <3>1, CenterFitOf DEF CameraInv
  <2>. QED
    BY <1>7, <2>1, <2>2, <2>3 DEF Timer, TimerFires
<1>8. CASE ReadinessArrives
  <2>1. PICK seen : seen = (tab = "map")
    OBVIOUS
  <2>. QED
    BY <1>8, <2>1, ApplyMovesCamera DEF ReadinessArrives
<1>9. TurnLivePage \/ ThumbnailAnswer \/ StoryAnswer \/ ImageAnswer \/ AgentWrites \/ DisposeEditorMount
        \/ UNCHANGED vars => camera' = camera
  BY DEF TurnLivePage, ThumbnailAnswer, ThumbnailRead, ThumbnailFails, StoryAnswer, ImageAnswer, AgentWrites,
         DisposeEditorMount, DisposeMap, vars, mapVars
<1>. QED
  BY <1>1, <1>2, <1>3, <1>4, <1>5, <1>6, <1>7, <1>8, <1>9 DEF Next

LEMMA AlwaysCameraInv == Spec => [](ScreenInv /\ CameraInv)
<1>1. ScreenInv /\ CameraInv /\ [Next]_vars => (ScreenInv /\ CameraInv)'
  BY MapNextKeeps, ReadersNextKeeps, CameraKeeps DEF ScreenInv, MapInv
<1>. QED
  BY <1>1, ScreenInitHolds, CameraBegins, PTL DEF Spec

\* render() and its views (ui/dom.ts, map/render.ts, preview/reader.ts): the camera is at
\* a scale of the map, and no reader is left undisposed but the one on the screen and
\* those that the nested render of "preview from this page" replaced.
THEOREM TypeTheorem == Spec => []TypeOK
<1>1. ASSUME ScreenInv, NEW r \in DOMAIN readers
      PROVE  /\ readers[r].stage \in {"loading", "page", "error", "gone"}
             /\ readers[r].disposed \/ r = live \/ (r < Len(readers) /\ readers[r + 1].start # None)
  BY <1>1 DEF ScreenInv, LiveInv, SeatsOf, ReadersInv, ReadersOK, ReaderOK
<1>2. ASSUME ScreenInv, NEW q \in requests
      PROVE  q.token <= readers[q.reader].token
  BY <1>2 DEF ScreenInv, ReadersInv, ReadersOK, RequestOK, Asked
<1>3. ScreenInv => /\ panzoom \in {"none", "built", "destroyed"}
                   /\ cards \subseteq Art(story) /\ thumbCache \subseteq Art(story)
                   /\ \A load \in loads : load.slug \in Art(story) /\ load.rendering <= rendering
  BY DEF ScreenInv, MapInv, FitInv, CardsInv
<1>4. ScreenInv => live \in 0 .. Len(readers) /\ (live > 0 <=> tab = "preview" /\ InEditor)
  BY DEF ScreenInv, LiveInv
<1>5. CameraInv => camera.scale \in Scales /\ camera.pan \in Int
  BY DEF CameraInv
<1>6. ScreenInv /\ CameraInv => TypeOK
  BY <1>1, <1>2, <1>3, <1>4, <1>5 DEF TypeOK
<1>. QED
  BY <1>6, AlwaysCameraInv, PTL
=============================================================================
