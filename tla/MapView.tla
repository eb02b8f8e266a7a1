------------------------------- MODULE MapView -------------------------------
(***************************************************************************)
(* The view of the map (createMapEditorView in src/map/render.ts): the     *)
(* cards and their images, which are loaded again by every rendering, and  *)
(* the camera, which Panzoom moves.  The camera is modelled along the      *)
(* vertical axis, the one on which the chips lie over the map.  A scale is *)
(* counted in halves, and screen coordinates in half pixels.               *)
(***************************************************************************)
EXTENDS StoryMap

CONSTANTS
  CardHeight, CardGap,  \* the cards and the space around them
  ViewHeight,           \* the height of the visible area
  TopInset,             \* how much of it the chips take
  FitMargin,            \* FIT_MARGIN
  Scales,               \* the scales of the map, MAP_MIN_SCALE to MAP_MAX_SCALE
  Pans                  \* where the creator drags the map to

ASSUME MapAssumption ==
  /\ {CardHeight, CardGap, ViewHeight, TopInset, FitMargin} \subseteq Nat
  /\ Scales \subseteq Nat \ {0} /\ 2 \in Scales /\ Pans \subseteq Int

VARIABLES
  story,       \* what the editor was given: a book
  panzoom,     \* Panzoom: not there, built, destroyed
  timers,      \* the timers that are due, in their order
  settled,     \* panzoomSettled
  fitted,      \* fittedOnce
  camera,      \* the scale and the pan of the map
  applied,     \* lastMapSelection
  rendering,   \* how many times the cards have been drawn
  cards,       \* the chapters whose card has its image in it
  thumbCache,  \* the chapters whose image is kept
  loads,       \* the reads of images under way, for a rendering
  moved        \* history: the map was moved since it was first fitted

mapVars == <<story, panzoom, timers, settled, fitted, camera, applied, rendering, cards,
             thumbCache, loads, moved>>

Larger(a, b) == IF a > b THEN a ELSE b

-----------------------------------------------------------------------------
(* The camera                                                               *)

Height == LET n == Cardinality(DOMAIN story.spec.nodes)
          IN IF n = 0 THEN 0 ELSE n * (CardHeight + CardGap) + CardGap

\* Where the card of a node begins.
Box(id) ==
  LET order == ReadingOrder(story.spec)
      i     == CHOOSE k \in DOMAIN order : order[k] = id
  IN CardGap + (i - 1) * (CardHeight + CardGap)

\* layoutToScreen and panForScreenOrigin; the origin of a transform is the centre.
OnScreen(p, cam)         == cam.scale * (p + cam.pan) + (Height \div 2) * (2 - cam.scale)
PanFor(offset, scale)    == (offset - (Height \div 2) * (2 - scale)) \div scale
Unmoved                  == [scale |-> 2, pan |-> 0]

Available == Larger(0, ViewHeight - TopInset - FitMargin)

\* The largest scale that shows all of a map of this height, if there is one.
FitScale(height) ==
  LET smallest == CHOOSE s \in Scales : \A t \in Scales : s <= t
      fitting  == {s \in Scales : s <= 2 /\ s * height <= 2 * Available} \cup {smallest}
  IN CHOOSE s \in fitting : \A t \in fitting : t <= s

CenterFit ==
  LET scale  == FitScale(Height)
      offset == Larger(2 * TopInset, 2 * TopInset + (2 * Available - scale * Height) \div 2)
  IN IF Height = 0 THEN Unmoved ELSE [scale |-> scale, pan |-> PanFor(offset, scale)]

\* What of the screen is free of the chips and of the margins.
FirstFree == 2 * Larger(FitMargin, TopInset)
LastFree  == 2 * (ViewHeight - FitMargin)

Fits(cam)        == cam.scale * CardHeight <= LastFree - FirstFree
Visible(id, cam) == /\ OnScreen(Box(id), cam) >= FirstFree
                    /\ OnScreen(Box(id) + CardHeight, cam) <= LastFree

\* Mutant: the distance on the screen is taken for the distance on the map.
InPixels(distance, cam) == distance \div 2

\* Panzoom pans by units of the map.
InUnits(distance, cam) == distance \div cam.scale

\* ensureNodeVisible: the upper edge goes before the lower one.
EnsureNodeVisible(id, cam) ==
  LET top      == OnScreen(Box(id), cam)
      bottom   == OnScreen(Box(id) + CardHeight, cam)
      distance == IF top < FirstFree THEN FirstFree - top
                  ELSE IF bottom > LastFree THEN LastFree - bottom ELSE 0
  IN [cam EXCEPT !.pan = @ + InUnits(distance, cam)]

\* Mutant: the map is fitted as soon as Panzoom is there.
MayFitAtOnce == panzoom = "built"

MayFit == panzoom = "built" /\ settled

-----------------------------------------------------------------------------
(* The view                                                                 *)

Art(book) == {slug \in Chapters(book.spec) : book.media[slug] > 0}

\* Mutant: an image that is being read is not asked for again.
WantedOnce == Art(story) \ (thumbCache \cup {load.slug : load \in loads})

Wanted == Art(story) \ thumbCache

\* renderCanvas: new cards, with the images that are kept; the others are read.
RenderCanvas ==
  /\ rendering' = rendering + 1
  /\ cards' = Art(story) \cap thumbCache
  /\ loads' = loads \cup {[slug |-> slug, rendering |-> rendering + 1] : slug \in Wanted}

\* applyState, for a selection and a map that can be seen or not.
ApplyState(selection, shown) ==
  LET fits == ~fitted /\ MayFit /\ Height > 0 /\ shown
      fit  == IF fits THEN CenterFit ELSE camera
      node == IF selection = applied \/ selection = None THEN None ELSE NodeOf(story.spec, selection)
  IN /\ RenderCanvas
     /\ fitted' = (fitted \/ fits)
     /\ applied' = selection
     /\ camera' = IF node = None \/ panzoom # "built" THEN fit ELSE EnsureNodeVisible(node, fit)
     /\ moved' = (camera' # fit \/ (moved /\ ~fits))
     /\ UNCHANGED <<story, panzoom, timers, settled, thumbCache>>

\* The view is made: it applies the state at once, when there is no Panzoom yet.
MapInit(selection) ==
  /\ panzoom = "none" /\ timers = <<"panzoom">> /\ settled = FALSE /\ fitted = FALSE
  /\ camera = Unmoved /\ applied = selection /\ moved = FALSE
  /\ rendering = 1 /\ cards = {} /\ thumbCache = {}
  /\ loads = {[slug |-> slug, rendering |-> 1] : slug \in Art(story)}

\* The microtask: Panzoom is built, and the timer of Panzoom set before ours.
BuildPanzoom ==
  /\ panzoom' = IF panzoom = "none" THEN "built" ELSE panzoom
  /\ timers' = IF panzoom = "none" THEN <<"reset", "settle">> ELSE <<>>
  /\ UNCHANGED <<settled, fitted, camera, moved>>

\* Panzoom pans to where it starts.
ResetPan ==
  /\ camera' = [camera EXCEPT !.pan = 0] /\ timers' = Tail(timers)
  /\ UNCHANGED <<panzoom, settled, fitted, moved>>

\* Ours: tryInitialFit, unless the view is gone.
Settle(shown) ==
  LET fits == panzoom = "built" /\ ~fitted /\ Height > 0 /\ shown IN
  /\ settled' = (settled \/ panzoom = "built") /\ fitted' = (fitted \/ fits)
  /\ camera' = IF fits THEN CenterFit ELSE camera
  /\ moved' = (moved /\ ~fits)
  /\ timers' = Tail(timers) /\ UNCHANGED panzoom

TimerFires(shown) ==
  /\ timers # <<>>
  /\ \/ Head(timers) = "panzoom" /\ BuildPanzoom
     \/ Head(timers) = "reset" /\ ResetPan
     \/ Head(timers) = "settle" /\ Settle(shown)
  /\ UNCHANGED <<story, applied, rendering, cards, thumbCache, loads>>

\* An image has been read, from the book there is by then.
ThumbnailRead(load, book) ==
  LET there == book.media[load.slug] > 0 IN
  /\ loads' = loads \ {load}
  /\ thumbCache' = IF there THEN thumbCache \cup {load.slug} ELSE thumbCache
  /\ cards' = IF there /\ load.rendering = rendering THEN cards \cup {load.slug} ELSE cards
  /\ UNCHANGED <<story, panzoom, timers, settled, fitted, camera, applied, rendering, moved>>

\* An image could not be read: its promise is rejected, and nobody asks again.
ThumbnailFails(load) ==
  /\ loads' = loads \ {load}
  /\ UNCHANGED <<story, panzoom, timers, settled, fitted, camera, applied, rendering, cards,
                 thumbCache, moved>>

\* The creator drags, zooms or has the map centred.
MapMoves ==
  /\ panzoom = "built"
  /\ \/ \E s \in Scales, p \in Pans : camera' = [scale |-> s, pan |-> p]
     \/ camera' = CenterFit
  /\ moved' = TRUE
  /\ UNCHANGED <<story, panzoom, timers, settled, fitted, applied, rendering, cards, thumbCache, loads>>

DisposeMap ==
  /\ panzoom' = "destroyed" /\ thumbCache' = {}
  /\ UNCHANGED <<story, timers, settled, fitted, camera, applied, rendering, cards, loads, moved>>
=============================================================================
