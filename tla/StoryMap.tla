------------------------------- MODULE StoryMap -------------------------------
(***************************************************************************)
(* The map of a story: its cards in reading order, its edges, the chips    *)
(* above it and the details beside it (src/map/model.ts, and the parts of  *)
(* src/map/render.ts that compute).  Where the cards lie is for dagre to   *)
(* say: they are taken to stand below each other.                          *)
(***************************************************************************)
EXTENDS PreviewSnapshot

\* Mutant: choices hide the next page, as they do in the reader.
LinksOfReader(spec, id) ==
  LET node == spec.nodes[id] IN
  IF HasChoices(node) \/ node.next = None THEN ChoicesOf(node)
  ELSE <<[label |-> None, target |-> node.next]>>

\* The ways on from a node, the next page before the choices.
Links(spec, id) ==
  LET node == spec.nodes[id] IN
  (IF node.next = None THEN <<>> ELSE <<[label |-> None, target |-> node.next]>>) \o ChoicesOf(node)

LeadsTo(spec, id) == Named(id) /\ Exists(spec, id)

\* What is queued that leads to a page that was not seen.
Fresh(spec, search) ==
  {i \in DOMAIN search.queue :
     LeadsTo(spec, search.queue[i]) /\ search.queue[i] \notin ToSet(search.order)}

\* One turn of the loop; what was taken from the queue stays in it, and is seen.
Visit(spec, search) ==
  LET fresh == Fresh(spec, search)
      id    == search.queue[Min(fresh)]
      links == Links(spec, id)
  IN IF fresh = {} THEN search
     ELSE [order |-> Append(search.order, id),
           queue |-> search.queue \o [k \in DOMAIN links |-> links[k].target]]

Search(spec) ==
  LET after[n \in 0 .. Len(Names)] ==
        IF n = 0 THEN [order |-> <<>>, queue |-> <<spec.start>>] ELSE Visit(spec, after[n - 1])
  IN after

Reading(spec) == Search(spec)[Len(Names)].order

With(spec, order, id) ==
  IF Exists(spec, id) /\ id \notin ToSet(order) THEN Append(order, id) ELSE order

\* The pages that were not reached come last.
ReadingOrder(spec) ==
  LET order[n \in 0 .. Len(Names)] == IF n = 0 THEN Reading(spec) ELSE With(spec, order[n - 1], Names[n])
  IN order[Len(Names)]

Edges(spec) ==
  UNION {{[from |-> id, to |-> link.target, label |-> link.label] :
            link \in {way \in ToSet(Links(spec, id)) : LeadsTo(spec, way.target)}} :
         id \in DOMAIN spec.nodes}

\* A card; the texts are known when readiness has a report.
MapNode(book, readiness, id) ==
  LET slug == Chapter(book.spec.nodes[id]) IN
  [id    |-> id,
   slug  |-> slug,
   text  |-> IF slug = None \/ readiness # "report" THEN "unknown"
             ELSE IF book.text[slug] = 0 THEN "missing" ELSE "ok",
   media |-> IF slug = None THEN "unknown"
             ELSE IF book.media[slug] = 0 THEN "missing" ELSE "ok"]

\* The node whose details are shown for a chapter: the first one that has it.
NodeOf(spec, slug) ==
  LET order == ReadingOrder(spec)
      has   == {i \in DOMAIN order : Chapter(spec.nodes[order[i]]) = slug}
  IN IF has = {} THEN None ELSE order[Min(has)]

\* The rows of the details that lead on.
Outgoing(spec, id) == {edge \in Edges(spec) : edge.from = id}

\* Mutant: the name of a node is taken for the chapter it has.
FaultyNames(book) == {error.at : error \in Errors(book.spec)} \ {None}

\* The chapters of the nodes that the structure chip leads to.
FaultyChapters(book) ==
  {Chapter(book.spec.nodes[id]) : id \in {error.at : error \in Errors(book.spec)} \ {None}} \ {None}

\* The three chips: how much they count, and the chapters they may open.
Chips(book, readiness) ==
  LET missing == {slug \in Chapters(book.spec) : book.text[slug] = 0}
      bare    == {slug \in Chapters(book.spec) : book.media[slug] = 0}
      report  == readiness = "report"
  IN [text      |-> [count |-> IF report THEN Cardinality(missing) ELSE 0,
                     leads |-> IF report THEN missing ELSE {}],
      media     |-> [count |-> Cardinality(bare),
                     leads |-> IF readiness = "loading" THEN {} ELSE bare],
      structure |-> [count |-> IF report THEN Cardinality(Errors(book.spec)) ELSE 0,
                     leads |-> IF report THEN FaultyChapters(book) ELSE {}]]
=============================================================================
