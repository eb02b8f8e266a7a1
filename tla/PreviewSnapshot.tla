--------------------------- MODULE PreviewSnapshot ---------------------------
(***************************************************************************)
(* The story as a preview shows it: what buildPreviewSnapshot makes of the *)
(* workspace, and whether the tab sends it, the relay passes it on and the *)
(* phone takes it.  A book is what load() has read of one revision; texts, *)
(* titles, labels and images are their lengths, 0 for none.                *)
(***************************************************************************)
EXTENDS StoryContract

CONSTANT Limits   \* PREVIEW_LIMITS and the limits of the protocol

ASSUME PreviewLimitsAssumption ==
  Limits \in [pages : Nat, text : Nat, choices : Nat, label : Nat, image : Nat, total : Nat,
             id : Nat, imageId : Nat, title : Nat, manifest : Nat]

Sum(f, S) == FoldFunctionOnSet(+, 0, f, S)

\* A story with its texts and images, that may be missing.
IsBook(book) ==
  /\ IsStory(book.spec) /\ book.title \in Nat
  /\ \A slug \in Chapters(book.spec) : book.text[slug] \in Nat /\ book.media[slug] \in Nat

PageOf(book, node) ==
  LET slug == Chapter(node) IN
  [text    |-> IF slug = None THEN 0 ELSE book.text[slug],
   image   |-> IF slug # None /\ book.media[slug] > 0 THEN slug ELSE None,
   choices |-> ChoicesOf(node),
   next    |-> IF HasChoices(node) THEN None ELSE node.next]

Images(book)   == {slug \in Chapters(book.spec) : book.media[slug] > 0}
ImagesOf(book) == [slug \in Images(book) |-> book.media[slug]]

\* Mutant: the texts are not looked at.
WithinLimitsOfImages(book) ==
  /\ Cardinality(DOMAIN book.spec.nodes) <= Limits.pages
  /\ \A slug \in Images(book) : book.media[slug] <= Limits.image
  /\ Sum(ImagesOf(book), Images(book)) <= Limits.total

WithinLimits(book) ==
  /\ Cardinality(DOMAIN book.spec.nodes) <= Limits.pages
  /\ \A slug \in Chapters(book.spec) : book.text[slug] <= Limits.text
  /\ \A slug \in Images(book) : book.media[slug] <= Limits.image
  /\ Sum(ImagesOf(book), Images(book)) <= Limits.total
  /\ \A id \in DOMAIN book.spec.nodes :
       LET choices == ChoicesOf(book.spec.nodes[id]) IN
       /\ Len(choices) <= Limits.choices
       /\ \A i \in DOMAIN choices : choices[i].label <= Limits.label

\* The ways on that the builder checks itself.
WaysOnExist(spec) ==
  \A id \in DOMAIN spec.nodes :
    LET node == spec.nodes[id] IN
    /\ \A i \in DOMAIN ChoicesOf(node) :
         Named(ChoicesOf(node)[i].target) /\ Exists(spec, ChoicesOf(node)[i].target)
    /\ ~HasChoices(node) =>
         IF node.next = None THEN node.kind = "ending" ELSE Exists(spec, node.next)

Snapshot(book) ==
  [title  |-> book.title,
   start  |-> book.spec.start,
   pages  |-> [id \in DOMAIN book.spec.nodes |-> PageOf(book, book.spec.nodes[id])],
   images |-> ImagesOf(book)]

\* buildPreviewSnapshot: None stands for invalid-story.
Build(book) ==
  IF Errors(book.spec) = {} /\ WithinLimits(book) /\ WaysOnExist(book.spec) THEN Snapshot(book) ELSE None

IsEnding(page) == page.choices = <<>> /\ page.next = None

BoundedString(length, limit) == length \in 1 .. limit

IsPreviewPage(id, page) ==
  /\ BoundedString(Length[id], Limits.id)
  /\ page.text <= Limits.text /\ Len(page.choices) <= Limits.choices
  /\ \A i \in DOMAIN page.choices :
       /\ BoundedString(page.choices[i].label, Limits.label)
       /\ BoundedString(Length[page.choices[i].target], Limits.id)
  /\ page.next # None => BoundedString(Length[page.next], Limits.id)
  /\ page.image # None => BoundedString(Length[page.image], Limits.imageId)

ImagesFit(images) ==
  /\ \A slug \in DOMAIN images :
       BoundedString(Length[slug], Limits.imageId) /\ images[slug] \in 1 .. Limits.image
  /\ Sum(images, DOMAIN images) <= Limits.total

\* isPreviewSnapshot: what the tab asks before it sends and the phone when it receives.
IsPreviewSnapshot(snapshot) ==
  /\ BoundedString(snapshot.title, Limits.title)
  /\ BoundedString(Length[snapshot.start], Limits.id)
  /\ Cardinality(DOMAIN snapshot.pages) \in 1 .. Limits.pages
  /\ \A id \in DOMAIN snapshot.pages : IsPreviewPage(id, snapshot.pages[id])
  /\ ImagesFit(snapshot.images)

\* The manifest is its texts and something for every page.
ManifestBytes(snapshot) ==
  Sum([id \in DOMAIN snapshot.pages |-> snapshot.pages[id].text + 1], DOMAIN snapshot.pages)

\* checkSnapshotSize of the tab.
CheckSnapshotSize(snapshot) == IsPreviewSnapshot(snapshot) /\ ManifestBytes(snapshot) <= Limits.manifest

\* isSnapshotManifestShape of the relay, which does not look into the story.
IsSnapshotManifestShape(snapshot) == ImagesFit(snapshot.images)
=============================================================================
