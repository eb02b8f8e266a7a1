---------------------------- MODULE PreviewReader ----------------------------
(***************************************************************************)
(* mountPreviewReader (src/preview/reader.ts, readerState.ts) on the       *)
(* source of the creator's own page, which reads the workspace: a reader   *)
(* loads the story once, and the image of a page each time the page is     *)
(* shown.  Several readers may be there at once; they share nothing.       *)
(***************************************************************************)
EXTENDS PreviewSnapshot

VARIABLES
  readers,   \* the readers that were mounted, in their order
  requests   \* the images that readers have asked for

readerVars == <<readers, requests>>

Loading(start) ==
  [start |-> start, stage |-> "loading", snapshot |-> None, path |-> <<>>, token |-> 0,
   url |-> None, disposed |-> FALSE]

Current(reader)      == Last(reader.path)
CurrentImage(reader) == reader.snapshot.pages[Current(reader)].image

\* What a page leads to.
Buttons(page) ==
  IF page.choices # <<>> THEN {page.choices[i].target : i \in DOMAIN page.choices}
  ELSE IF page.next # None THEN {page.next} ELSE {}

\* Mutant: a page without an image does not outdate the requests before it.
NextTokenOfImage(reader, page) == IF page.image = None THEN reader.token ELSE reader.token + 1

NextToken(reader, page) == reader.token + 1

\* renderPage and showImage up to its await; a page the story does not have is an error.
ShowImage(r, reader, page) ==
  LET token == NextToken(reader, page) IN
  /\ readers' = [readers EXCEPT ![r] = [reader EXCEPT !.stage = "page", !.token = token, !.url = None]]
  /\ requests' = requests \cup
       (IF page.image = None THEN {} ELSE {[reader |-> r, token |-> token, image |-> page.image]})

RenderPage(r, reader, path) ==
  IF Last(path) \in DOMAIN reader.snapshot.pages
  THEN ShowImage(r, [reader EXCEPT !.path = path], reader.snapshot.pages[Last(path)])
  ELSE /\ readers' = [readers EXCEPT ![r] = [reader EXCEPT !.stage = "error", !.path = path]]
       /\ UNCHANGED requests

\* Mutant: the page that was asked for is taken without a look at the story.
StartGiven(reader, snapshot) == IF reader.start # None THEN reader.start ELSE snapshot.start

\* initReaderState
StartPage(reader, snapshot) ==
  IF reader.start # None /\ reader.start \in DOMAIN snapshot.pages THEN reader.start ELSE snapshot.start

\* init after its await: the story of the book there is by then, or nothing.
Load(r, book) ==
  LET reader == readers[r]
      loaded == [reader EXCEPT !.snapshot = Build(book)]
  IN /\ reader.stage = "loading"
     /\ \/ ~reader.disposed /\ loaded.snapshot # None
           /\ RenderPage(r, loaded, <<StartPage(reader, loaded.snapshot)>>)
        \/ /\ readers' = [readers EXCEPT ![r].stage = IF reader.disposed THEN "gone" ELSE "error"]
           /\ UNCHANGED requests

\* goTo, goBack and restart.
TurnPage(r) ==
  LET reader == readers[r] IN
  /\ reader.stage = "page"
  /\ \/ \E to \in Buttons(reader.snapshot.pages[Current(reader)]) :
          RenderPage(r, reader, Append(reader.path, to))
     \/ Len(reader.path) > 1 /\ RenderPage(r, reader, Front(reader.path))
     \/ IsEnding(reader.snapshot.pages[Current(reader)]) /\ RenderPage(r, reader, <<reader.snapshot.start>>)

\* showImage after its await: the source has the image, or no longer.
ImageRead(q, book) ==
  LET reader == readers[q.reader]
      taken  == ~reader.disposed /\ q.token = reader.token /\ book.media[q.image] > 0
  IN /\ requests' = requests \ {q}
     /\ readers' = IF taken THEN [readers EXCEPT ![q.reader].url = q.image] ELSE readers

\* The source could not read the image: it answers that there is none.
ImageFails(q) == requests' = requests \ {q} /\ UNCHANGED readers

\* dispose
Disposed(r) == [readers EXCEPT ![r].disposed = TRUE, ![r].url = None]
=============================================================================
