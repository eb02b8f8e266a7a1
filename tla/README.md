# A TLA+ model of the story workshop

This directory is a verification project for the story workshop in `src/`: TLA+
modules translated from its TypeScript, TLC runs that check them on small
instances, and TLAPS proofs that hold for every instance.

    tlasany RelaySession.tla                              parse a module
    tlc -config MCRelaySession.cfg MCRelaySession         check one run
    tlapm RelaySession_proofs.tla                         check the proofs of a module

`PROJECT.json` lists the components, the runs, the source lines behind every
definition, the mutants that show each property can fail, the findings, the
hazards and the theorems.

## 1. The system

A creator writes a branching story in a browser tab, by hand or with an agent
that calls seven WebMCP tools. The story is a set of files in IndexedDB. A phone
can read it: the tab offers a link, a relay pairs the tab with the phone that
opens it, and the story travels through the relay once the creator has approved.

| component | where | state | operations | interacts with |
|---|---|---|---|---|
| relay session object | `relay/src/session-do.ts` | host and viewer slot, pairing, token, three timers, per connection a pre-auth timer, a shot and a rate count, manifest and chunk progress; nothing is persisted | socket accepted / message / closed, three timers, eviction | one per session id; sockets of host and viewers |
| relay worker | `relay/src/index.ts` | none | routes an upgrade to the object of its sid | session object |
| relay hashing, limits, shapes | `relay/src/crypto.ts`, `protocol-limits.ts`, `validate.ts` | none | digests, constants, shape checks | session object |
| host session | `src/preview/hostSession.ts` | phase, socket, ended | start, socket events, approve, reject, answer a request, end | UI controller, relay, snapshot source |
| phone source | `src/preview/relaySource.ts` | socket, manifest, chunk progress, the result of load | load, socket events, dispose | relay, reader |
| preview protocol | `src/preview/protocol.ts`, `snapshot.ts`, `source.ts` | none | message shapes, limits, digests | all of the preview |
| snapshot source | `src/preview/localSource.ts`, `buildPreviewSnapshot.ts` | the snapshot it loaded last | load, image | workspace, host session, reader |
| reader | `src/preview/reader.ts`, `readerState.ts` | page and history | open, choose, back | phone source or snapshot source |
| UI controller | `src/ui/controller.ts`, `state.ts` | view, tab, map selection, the current host session | hydrate, delete, select, start and end a preview | workspace, host session, DOM |
| rendering | `src/ui/dom.ts`, `preview/hostPanel.ts` | what is mounted | mount, unmount | UI controller, map, reader |
| workspace storage | `src/workspace/mutate.ts`, `snapshot.ts`, `limits.ts`, `adapters/indexeddbWorkspaceStorage.ts` | files and a revision | list, read, mutate (optimistic) | everything that reads or writes a story |
| paths, media index | `src/workspace/paths.ts`, `media.ts` | none | path rules, `media.json` | page images, story operations |
| story operations | `src/story/*.ts` | none of their own | read, create, update text, update structure, readiness | workspace |
| page images | `src/media/*.ts` | none of their own | set the image of a page | workspace |
| focus | `src/story/focus.ts` | the claimed focus and its generation | set, get, clear | workspace, UI, tools |
| WebMCP facade, tools | `src/webmcp/**` | the registered batch | register, roll back, dispose; seven tools | story operations, UI |
| application | `src/app.ts`, `main.ts` | status | start, stop | storage, facade |
| story map | `src/map/model.ts`, `layout.ts`, `render.ts` | camera, timers, images on the cards | story to graph, drag, select, render | UI, workspace |
| contract | `src/contract/*.ts` | none | wraps a schema validator | story operations |

### What is hard in it, and what makes each part correct

* **Relay.** A hello is verified across an await, while other hellos, closes and
  timers run. Viewers come and go around the approval. Three timers overlap with
  everything. Correct means: the story goes to the approved viewer only; one
  approval per token; a slot is held by one connection with one role; a session
  always has the timers that will end it; a viewer's fault is the viewer's only.
* **Host session and phone.** Both are callbacks on a socket that may break at any
  point; the answer to a request is prepared across awaits. Correct means: every
  load settles, the creator is asked about whoever waits, what is sent is what both
  receivers accept, and the phase on the screen agrees with the session.
* **Workspace.** Two tabs, the UI and an agent write concurrently against
  revisions; a reader of several files needs them from one revision. Correct means:
  a mutation lands as a whole and on the revision it was planned for; a consistent
  read is one that existed.
* **Story operations and images.** Each reads, plans and writes; long sequences of
  legal calls must not reach a story that later calls refuse (`media.json`).
* **UI controller.** Overlapping hydrates and preview sessions, late callbacks.
* **Map, contract, builder, reader.** Four walks over one graph, in four files, must agree;
  images and timers come late to a view that has moved on.
* **Facade, application, focus.** Registration that fails half-way, stop during
  start, answers computed from a claim that has been replaced.

## 2. The modules

The preview over the relay (modules above the line), the workspace and what writes it,
the page around it, and the screen:

| module | models | notes |
|---|---|---|
| `PreviewProtocol` | the messages of `protocol.ts` | constructors only; a payload is what a receiver checks |
| `RelaySession` | `session-do.ts` | one action per handler turn, per timer, and the eviction |
| `HostSession` | `hostSession.ts` | one action per operation or socket event |
| `RelaySource` | `relaySource.ts`, one per opened link | one action per operation or socket event |
| `PreviewSystem` | the three together, and the sockets between them | composes by `INSTANCE` |
| `Workspace` | `workspace/` | path kinds, `planMutation`, reading an index: pure |
| `AtomicStore` | what `mutate()` promises | the abstract specification |
| `IndexedDbStorage` | `indexeddbWorkspaceStorage.ts` | the requests of a transaction; refines `AtomicStore` |
| `Authoring` | `story/`, `media/`, the tools' calls, the deletion | calls as sequences of storage requests |
| `FocusTracker` | `focus.ts` | claims, and `getFocus()` |
| `ToolRegistration` | `facade.ts`, `app.ts` | batches of tools, start and stop |
| `UiController` | `controller.ts`, the mounting of `dom.ts` | `hydrate()` read by read, the clicks, the preview session |
| `Page` | `main.ts` | the three together with whoever writes the workspace |
| `StoryContract` | `contract/validate.ts` | errors and warnings of a graph: pure |
| `PreviewSnapshot` | `buildPreviewSnapshot.ts`, `snapshot.ts` | the builder and the three receivers' checks: pure |
| `StoryMap` | `map/model.ts`, the computing parts of `map/render.ts` | reading order, edges, chips, details: pure |
| `MapView` | `createMapEditorView` | camera, Panzoom's timers, the images on the cards |
| `PreviewReader` | `reader.ts`, `readerState.ts`, `localSource.ts` (images) | any number of readers |
| `StoryScreen` | `dom.ts` | map and readers of one editor, and an agent that writes |
| `RelaySession_proofs` | | the relay, section 5 |
| `Workspace_proofs`, `IndexedDbStorage_proofs`, `Authoring_proofs` | | each extends the one before: what a batch makes of the files, the storage, the calls |
| `PreviewSystem_proofs` | | the composition; it takes the theorems of `RelaySession_proofs` by `INSTANCE` |
| `Page_proofs` | | the registration of tools, and the page with it |
| `StoryMap_proofs`, `StoryScreen_proofs` | | the second extends the first: the walks over a story, and the screen |
| `MCRelaySession`, `MCPreviewSystem`, `MCAuthoring`, `MCPage`, `MCStoryScreen` | | instances for TLC |

No module declares a `RECURSIVE` operator: searches and folds are recursive functions, so
that every module can be proved about.

### RelaySession

The variables are the fields of `SessionDO` and of its `ConnectionState`. `link`
is what the object knows of a socket: `closing` once it has called `close()`,
`closed` once its close event has run. `hello` is the hello whose digest is being
awaited; it splits a hello into `ReceiveFirst` (up to the await) and
`HelloVerified` (after it), and anything may run in between. `out` is what the last
turn sent. `approved` is a history variable: whom the host of this instance has
approved.

A message is its type and what the relay's checks look at: a hello has a role and a
good, wrong or malformed credential; a manifest is the byte length of each image; a
chunk its id, index, total and length. Binary, oversized and garbage frames are
messages of their own. Time is abstract: a timer is armed or not, and an armed one
may fire at any moment. The rate limit keeps its count; the window's end is a
choice. The 4-digit pairing code is one value and is left out.

`Evict` is the runtime dropping an instance without connections: the file header
says that nothing is persisted and that the next connection finds a fresh one.

### HostSession and RelaySource

`phase` is `HostSessionState.phase`, `over` is `#ended`, `hostWs` is the socket as
the browser shows it. `start()` and the answer to a request are two actions each,
because they await. What can go wrong while an answer is prepared (no story, too
large, an image that cannot be read or has another length) is one choice,
`AnswerBlocked`; the snapshot that is read is another, `AnswerSent(s)`. The pieces
of an image are computed as `chunkBytes` does.

`RelaySource` keeps `load()`'s result, the manifest and the progress of each image,
and checks every chunk as the code does. The status callbacks are left out.

### PreviewSystem

Each connection has a FIFO channel in either direction. A close handshake is the
last element of a channel; a connection that breaks replaces what is undelivered by
`lost` at the client and `close` at the relay. A client's turn consumes the head of
its channel and appends what it sends; the relay's turn likewise. A phone can open
the link once the tab has shown it. What a client sends is stated in `TypeOK` to be
of the messages that `RelaySession` is checked against.

The rate limit is not reached by these clients: every message is taken to start a
window of its own. The flooding client is `RelaySession`'s.

### Workspace, IndexedDbStorage, AtomicStore

A path is a tuple, a file its length and its content; a story is the chapters it has, an
index (`media.json`) a function from chapters to extensions. `PlanError` finds the errors of
a batch in the order of `planMutation`, and `Outcome` is what the batch makes of the files.
A `mutate()` is asked for (`Mutate`), begins when no other transaction runs (`Begin`: the revision check and the
plan), writes file by file (`PutFile`), then the revision, and commits. `Abort` is a
failing request, a failing commit and the death of the tab alike: the database restores
what the transaction found. Reads wait for the running transaction (`Readable`).

`AtomicStore` is what callers rely on: one step from the revision the caller named. The
refinement maps the files to what would be there if the running transaction were undone.

### Authoring

`call[c]` is where a client's call stands: the storage request it waits for, and what it
has read so far. An operation is its checks of the arguments (`CreateFault`,
`StructureFault`, `TextFault`, `ImageFault`), the reads it makes, and the batch it builds
from them. `readConsistentSnapshot` lists before and after its reads and starts again when
the revision moved. `DeleteStory` removes the files in batches, in the order of `list()`, in
which `story.yaml` is the last. A read may throw at any point.

### FocusTracker, ToolRegistration, UiController, Page

`stories` is every story the workspace has held, one per revision, so that "was true at
some time since" can be said. A claim under check remembers the revision at which its
check began; a check fails as unreadable if the workspace changed too often meanwhile.

A batch is the state of each tool's registration: the host mounts it at once or refuses
its name, and settles later. `ready` and the rollback are actions of their own, as they
are callbacks in the code. `app` holds the fields of `ComposedApp`, and counts of the
calls of `start()` and `stop()` that have not gone past their awaits.

`ui` is `#state`. A datum on the screen is the revision it was read at, so that
`hydrate()`, whose five reads are five actions, can mix revisions. `shown` is what the DOM
has mounted; the render after each `#setState` is part of the action. `session` and
`phases` are `#mobileSession` and the phase of each session there was; `LateEmission` is
an ended session that still calls back.

`Page` adds who writes: the agent (only through a mounted tool), the deletion, and
another tab, of which this page hears nothing until its next `hydrate()`. A deletion
(`DeleteStory`, while `deleting`) is batch after batch (`BatchDeleted`), of which the last
takes the story; it ends in a `hydrate()` (`DeletionDone`), or throws at any point before
(`DeletionFails`), in which case no `hydrate()` is owed, whatever the earlier batches have
removed. `bound` picks one of several mixes of bounds in `Init` (section 3).

### StoryContract, PreviewSnapshot, StoryMap

A story is a start and a function from names to nodes, as `story.yaml` has it, with names
that may be empty or name no node, chapters that may be another story's or missing, and
texts, titles, labels and images by their lengths. `Errors` and `Warnings` are
`validate()`, rule by rule. `Build` is `buildPreviewSnapshot`. `ReadingOrder`, `Edges`,
`Chips` and `MapNode` are the map's. They are independent translations of code that
walks the same graph in four places. `IsStory` and `IsBook` say what is known of a story
that was read from a workspace, valid or not: `next` and targets are strings, sizes are
numbers. Nothing else of it is assumed.

`Search` is the loop of the reading order: a queue, from which a turn takes the first name
that leads to a page not yet seen. What was taken stays in the queue of the model, where it
is seen and no longer counts. `ReadingOrder` appends the pages that were not reached.

### MapView, PreviewReader, StoryScreen

The camera has a scale (in halves) and a vertical pan; cards stand below each other,
because where dagre puts them is a library's matter. `timers` is the queue of what
Panzoom and the view have postponed: Panzoom's own start, the first fit, the move to the
selection. A rendering makes new cards and asks for the images it does not have cached.

A reader is its stage, its path, the token of its last image request and the image it
holds. `StoryScreen` has the tabs and `previewFromNode`, whose nested render mounts two
readers. The workspace may be written while an editor is shown: an image that is read
then is the new one, as in the code. A read may fail, of a reader's image
(`ImageFails`: `image()` catches what the storage throws and finds no image) and of a card's
(`ThumbnailFails`: `readAcceptedMedia` throws and the rendering does not catch it). What was
lost in this way is kept in `lostImages` and `lostThumbs`, which are history variables and
are read by the properties only.

### Planned

Two action properties of `PreviewSystem` are left to prove, `StoryIsWellFormed` and
`BlamedForStaleAnswers`. Both need an invariant of a transfer under way: what is still in
the channel, what the relay has counted and what the phone has received are together the
one story that the tab cut up.

## 3. The runs

| run | instance | shows |
|---|---|---|
| `relay_session` | 3 connections, any message, 1 image of at most 2 bytes, 2 chunks, rate 1; no symmetry | the safety of the relay, and, with fair timers, that no connection stays open for ever |
| `relay_dead_slot` | 3 connections, all bounds 1, symmetric | violation: a viewer refused as a duplicate of a viewer that has gone |
| `relay_late_host` | 2 connections, fair timers | violation: a host that joins an ended session and that no timer closes |
| `preview_system` | a tab, 2 phones, 1 image in 2 chunks, 1 broken connection | the safety of the preview |
| `preview_live` | a tab, 1 phone, 1 image in 2 chunks, 2 broken connections | every load settles, the tab stops asking |
| `preview_stale_answer` | a tab, 1 phone | violation: the creator's late answer ends the session |
| `preview_blocked_after_end` | the same | violation: the end of a session is replaced by send-blocked |
| `preview_expiry` | the same | violation: an expired session is reported as unavailable |
| `authoring` | the agent and the page, 2 chapters, 2 extensions, 19 requests, 4 mutations | answers of one revision, writes on the story they were made for, the store atomic |
| `media_index` | the same | violation: an index that nobody can read |
| `page` | six mixes of up to 3 hydrates, 3 revisions, 1 deletion, 2 preview sessions, 2 claims, 3 starts and 2 stops; 2 tools | the screen fresh and in its place, the last intent wins, batches stand or fall together |
| `screen` | some 5500 stories of up to 4 nodes; map, cards and readers of three stories | contract, map, builder, protocol and reader agree; the screen is what it should be |

**Why these bounds.** Three connections give a host, a viewer and a rival for either
role, and a fresh pairing after an eviction; a fourth only adds a second rival that
behaves like the first. Two bytes, two chunks and a chunk limit of two give the
chunk that is first, last, out of order, of another total, too large by itself and
too large in sum. A rate of one gives at and over the limit. Two phones give
a phone that is replaced by another, the case the preview is sensitive to. With two
chunks an image is neither complete nor empty in between. One broken connection is
enough for each of the three to break at any point; two let a pair of them break.
Every bound is a constant; the models have no other. The proofs of section 5 have no
bound.

`authoring`: two clients are enough for a conflict; the agent's tools and what the page
does by itself are the two sequences that do run at once, and the requests have every
argument error next to a good call. Two attempts of a consistent read give one that
succeeds late and one that gives up. Four operations are enough for every
tool's batch, and fewer than there are files, so that a deletion needs two batches; the limits on
sizes are small enough to be exceeded.

`page` and `screen` begin from one of several mixes, because the bounds of independent
parts multiply. In `page` one has three overlapping hydrates with two revisions and a
deletion; one two hydrates with three revisions, so that a deletion may fail before, between
and after its batches; one two preview sessions, the first of which calls back late; one two
claims with two writes; one the tools of the page; and one an application without a page, as
the tests have it, that is started three times and stopped twice. The parts of a mix do
touch: what is bounded by 0 is what the others do not depend on, and hydrates are there
wherever there is a screen.
In `screen` the stories that are only looked at come in every shape of two nodes,
including nodes the contract refuses, three nodes without those, every size around
each limit, and chapters whose slug is longer than the id of an image may be; the ones
that are clicked, dragged and read are three, of which one has several pages, one fits the
view, and one is what the agent turns them into.

`CHECK_DEADLOCK FALSE`: all of these systems may stop: when every connection has ended
and none is left to open, or when the bound of a run is reached.

The `preview_system` run uses a view that leaves out what the last turn sent, the
`authoring` run one that leaves out what was answered last: each is read only in the
step that makes it.

### Properties of the relay

* `StoryOnlyToApproved`, `OneApprovalPerToken`: consent and the one-time token, over
  viewers that come, leave, are rejected and come back, and over evictions.
* `LiveSessionExpires`: the timers agree with the pairing state in every live session.
* `RefusedHoldsNoSlot`: slots under concurrent hellos. It also says that the pre-auth timer
  closes nobody whose hello is being verified: such a connection would get into a slot when
  it is over.
* `SlotsAreHandedOver` (a step may never): whichever hellos are verified at the same time,
  a host or a viewer that is connected is not replaced.
* `ChunksWithinManifest`: what is accepted of an image never exceeds what is
  declared, over repeated manifests and aborted transfers.
* `OthersSpareTheSession` (a step may never): whatever anyone but the host does, a message,
  a hello that is verified late, a timeout or a disconnect, the session goes on and nobody
  else is closed.
* `EveryConnectionEnds` (liveness). Connections of an ended instance that a late host
  hello joins are excepted: the timers of such an instance do nothing, and the code
  leaves them open (`session-do.ts:342`); `HostedSessionEnds` shows them.

### Properties of the preview

* `StoryNeedsConsent`: a phone shows a story only if the approval that the relay
  applied was for that phone.
* `WaiterIsShown`: a phone that waits is on the creator's screen or about to be,
  although the tab ignores requests that come while it shows an earlier one.
* `StoryIsWellFormed`, and the channels' part of `TypeOK`: what the tab cuts an image
  into is what the relay and the phone each expect.
* `BlamedForStaleAnswers`: the only thing this host can be blamed for is an answer
  that came too late; it delimits the finding below.
* `LoadSettles`, `TabMovesOn` (liveness).

### Properties of the workspace

* `ImplementsAtomicStore`: a mutation is all or nothing, on the revision it named, over
  aborts at every request.
* `AnswersAreOfOneRevision`: what a tool tells of several files was all there at once.
* `WritesFitTheStory`: optimistic writes against a structure that is replaced meanwhile.
* `NothingIsStranded`: a deletion that fails half-way can be done again.
* `OneImagePerPage`: files and index agree, over replaced extensions and deletions.

### Properties of the page

* `QuietViewIsFresh`, `PlaceKept`: whatever hydrates overlap, the last one leaves a view
  of one current revision, with the creator's tab and selection. The first excepts what
  another tab wrote since, a deletion that threw before its `hydrate()`, and a `hydrate()`
  whose read threw; the second says of a `hydrate()` that began during another only that it
  leads to where a page starts if it does not keep the place (see below).
* `PanelOfLiveSession`: the panel belongs to the running session.
* `LatestClaimWins`, `FocusDroppedForCause`: late checks neither undo a later claim nor
  drop a focus that was always valid.
* `AllOrNothing`, `ErrorIsOfLastBatch`: a batch is never half mounted for good, and the
  error shown is of the registration that is current.

### Properties of the screen

* `PreviewIsTheStory`, `PreviewReachesPhone`, `MapAgrees`, `ChipsLeadToPages`: four
  translations of one graph agree, and the exceptions are spelt out in their statements:
  a story may be previewed on the tab and not sent because of an empty title or label,
  the length of a page's name or of an image's id (a chapter's slug, which the contract
  does not bound), or the size of the manifest.
* `PathIsAWalk`, `ReaderImage`: the reader over late images, reads that fail, disposal and
  rewriting.
* `CardsGetTheirImages`, `FirstFitStays`, `SelectedIsShown`: the map over its timers,
  renderings and drags.

### Fairness

Timers fire, awaits (digests, reads) resolve and messages are delivered: these are
promises of the runtime, so their actions are weakly fair. No user action, no client
message, no broken connection and no eviction is fair. The idle timer is not fair:
every message of a paired session restarts it, so a chatty client postpones it for
ever; the absolute timer is never restarted, and nothing postpones it. The runs of the
workspace, the page and the screen check safety and state no fairness.

### Findings

1. `relay_dead_slot` (`session-do.ts:365`, `371`). The socket of a viewer may close
   while its digest is awaited. Its close event finds it in no slot and is ignored;
   the resumed handler then gives it the slot, and every later viewer is refused as a
   duplicate until a timer ends the session.
2. `preview_stale_answer` (`session-do.ts:402`, `407`). A waiting phone leaves; the
   tab is not told and still asks. Approve or reject is then a host fault, which ends
   the session, although the header says the host keeps waiting.
3. `preview_blocked_after_end` (`hostSession.ts:494`, `499`, `512`). The phase is not
   looked at after the awaits of an answer, so that send-blocked replaces the end of
   the session, contrary to what the phase is documented to mean.
4. `preview_expiry` (`session-do.ts:553`). The documents promise a message
   session-expired; the relay sends an error with that code, which the phone takes
   for "unavailable".
5. `media_index` (`updateStoryStructure.ts:42`). A structure that leaves out a chapter with
   an image leaves `media.json` naming it; the index is then unparsable, and every
   `set_page_image` of any page is refused, although a comment says this does not happen.
6. `relay_late_host` (`session-do.ts:342`). `#handleHostHello` does not look at `#ended`
   after its digest. A host that connects while the first one leaves becomes the host of an
   instance that is over: it is told `host-ready`, its timers are armed and do nothing,
   and it stays connected for as long as it likes.

Met while modelling, without a run of their own:

* A deletion that fails after its first batch throws before its `hydrate()`
  (`controller.ts:287-294`): the deleted pages stay on the screen.
* A chapter with an image whose slug has more than 128 characters is previewed on the tab,
  and the whole story is refused on its way to a phone (`protocol.ts:518`).
* A reader's image that could not be read is taken for no image
  (`localSource.ts:169-176`), and is asked for again only when the page is shown again.
* A thumbnail whose read throws is an unhandled rejection (`render.ts:106`), and its card
  stays without image until the next rendering.
* Two hydrates that overlap lose the tab and the selection: the second takes its place
  from the view "loading" (`controller.ts:207`), though the comment above wants them kept.
  `PlaceKept` has the exception.
* `README.md` promises twice that a session ends when either device disconnects (140,
  164). When the phone leaves the host stays, and a timer ends the session
  (`session-do.ts:285`); the header of the relay describes it as the code does.
* A hydrate whose read throws leaves the view "loading"; `QuietViewIsFresh` excepts it.
* `previewFromNode` renders while it renders, and the reader mounted first is never
  disposed (`dom.ts:120`); `StoryScreen` has this reader.
* Two `start()`s at once each register a batch, of which only the last can be taken back
  (`app.ts:169`). The tool count counts tools whose registration failed.
* A `pagehide` while the phone tab is shown ends the session and at once starts another
  (`main.ts:66`, `controller.ts:408`).
* The cache of map images (`render.ts:86`) does not outlive a refresh, as its comment
  hopes: each hydrate passes "loading", which unmounts the editor.
* A selection that is kept over a refresh is not brought into view on the new map.
* A workspace that keeps changing makes `getFocus` drop a focus that is valid.
* A node with an empty name is a node to `validate`'s keys and none to its search, to the
  map or to the builder's choices; `validate` asks for no ending.
* The chip of missing texts leads to the first by slug, not by reading order
  (`render.ts:330`).
* A story within the preview's limits can be too large for the phone's manifest.

## 4. What the model leaves out

* Digests and the key chain: a credential verifies or it does not. A browser without
  `crypto.subtle`: the answer hash-unavailable of `set_page_image` (`setPageImage.ts:120`,
  `137`), and a link whose session cannot be derived.
* The await of `deriveSid` in `RelaySource.load()` (`relaySource.ts:131`) is one step with
  what follows it. A reader that is disposed of meanwhile opens its socket all the same, and
  ignores what the relay tells it.
* The relay does not count a host's message that merely has the words of an image chunk in
  it (`session-do.ts:271`). Here only chunks are exempt. No property tells the two apart.
* In `PreviewSystem` no client exceeds the rate or sends what is no message, so that the
  exceptions rate-limited and not-paired of `BlamedForStaleAnswers` are not used.
* The text of a story, JSON, YAML and base64: the receivers' checks on their shape end in
  one outcome, `garbage`, `wellShaped` or `decodes`. A `story.yaml` that does not parse:
  every write goes through the tools.
* The argument schemas and the abort signals of the tools, the wording of errors, and the
  redaction of diagnostics (`safeDiagnostics.ts`, which maps several paths to one class).
* Durations. Timers race with everything instead.
* DOM elements, focus and scrolling, the horizontal axis of the map, dagre, Panzoom beyond
  the calls made to it, object URLs that are never revoked.
* Node names that are members of `Object.prototype`; images of no bytes.
* `relay worker routing` and `relay credential hashing`: stateless, or a library's.

## 5. Proofs

Each theorem is named in `PROJECT.json`. It holds for all values of the constants that
satisfy these assumptions, of which TLC evaluates every one on the instances of section 3:

| assumption | says |
|---|---|
| `NoConnAssumption`, `ConnAssumption`, `NobodyAssumption` | the empty slot is no connection, the tab is no phone, no transaction is no client |
| `SizeAssumption`, `LimitsAssumption`, `PreviewLimitsAssumption` | limits are numbers, those of the relay positive |
| `SnapshotAssumption` | a story has finitely many images, each within the limit; the size of a chunk is positive |
| `RequestAssumption` | the sizes in a request are numbers |
| `PageAssumption` | `null` is none of the things it stands for the absence of; a consistent read is tried at least once |
| `NamesAssumption` | the names of nodes are a sequence, in which neither `undefined` nor the name of no node occurs |
| `MapAssumption` | lengths are numbers, scales (in halves) positive, and the scale 1 is among them |
| `ScreenAssumption` | the stories that are shown are books as they are read; a snapshot is not `undefined` |

Hardly any of the safety properties is inductive by itself, and for each component the
conjunction below is the one that is. TLC checked `IInv`, `AuthoringInv` (which has the
invariant of the storage in it), `PreviewInv`, `PageInv`, and `ScreenInv` with `CameraInv` on small
instances before they were proved.
Proofs go the same way everywhere: one lemma per action says that it keeps the invariant,
one collects the actions, the temporal step follows, and then the theorems named after the
properties. The library's induction theorems take an operator as a parameter, which no
installed prover can instantiate. Where a count has to be followed, the proofs take the
smallest number at which a statement fails (`Smallest`, `LeastNumber`).

### The relay (`RelaySession_proofs`)

`StoryOnlyToApproved`, for example, needs that a viewer in the slot of a paired session is
the approved one; that needs that no viewer gets into the slot once the token is consumed,
which the code looks at after the await, and that pairing and token go together. `IInv` is
the conjunction of

* `TypeOK`;
* `ConnInv`: a hello in flight has used its connection's shot; a connection that still
  has its shot, or whose hello is in flight, holds no slot and has counted nothing; the
  host and the viewer of a live session are within the rate and not being closed;
* `SlotInv`: the host is not the viewer; a live session without a host has neither
  viewer, nor pairing, nor timers;
* `PairInv`: pairing and token go together, nobody is approved before the pairing, and
  the viewer of a paired session is an approved one;
* the properties that are inductive beside these, on timers, approval, story and chunks.

The lemmas before the actions say what each way of ending a connection or a session keeps.
`SessionIsolation` and `SlotHandover` are action properties: they go through the ways a turn
can end and need of `IInv` that a hello in flight holds no slot, so that refusing or closing
its connection touches nobody else's.

### The preview (`PreviewSystem_proofs`)

`PreviewInv` is the relay's `IInv`, which `INSTANCE` of `RelaySession_proofs` carries to the
relay of the composition, the types of tab and phones, and

* `ChannelInv`: what is in a channel is of the messages that its sender has, and the news
  that a connection is lost comes before everything else. Each piece of an image is such a
  message: `TransferIsSaid`;
* `LinkInv`: what a client and the relay think of one connection. A connection that is over
  for the client is over for the relay, or has a close on its way to it, and none is over for
  the relay before it is for the client;
* `StoryInv`, `RoleInv`: story messages are on the way to whom the host has approved, and
  nobody but the tab says `host`;
* `RequestInv`: an approval on its way, the request that it leads to and the answer that is
  being prepared are one token: there is at most one of the three anywhere in the system;
* `HostInv`, `PhaseInv`: the link is shown after `host-ready`, which comes once, and as long
  as nobody is paired the tab shows a code, or has just answered or left;
* `WaiterIsShown` itself.

A phone waits only while host, viewer and link are there (`WhileWaiting`). The phase of the
tab then decides where its pair-request is: on the screen, in the channel, or, as the tab
ignores a request that comes while it shows another, behind an answer that is on its way.

The relay has many actions, and all of them change the sockets only by what they send and
close. So each is first shown to be a `RelayStep`, in which the relay consumes at most one
message and tells each connection what `Talks`, `LinksTurn`, `RolesTurn` and the conditions
beside them allow; likewise the tab and the phones make a `ClientStep`. Each part of
`PreviewInv` is then proved for five steps: the relay's, the tab's, a phone's, an opened
connection and a lost one.

`ConsentIsNeeded` is an action property: the message that brings the story was in the
channel, and `StoryInv` says for whom.

### The workspace (`Workspace_proofs`, `IndexedDbStorage_proofs`, `Authoring_proofs`)

`Workspace_proofs` has what a batch does: a batch that passes `PlanError` touches every path
at most once, so its outcome does not depend on the order, each file afterwards comes from
before or from one operation, and one more operation adds exactly itself.

`StorageRefinement` is the refinement of `AtomicStore`, for any clients and batches. `StoreInv`
says of a running transaction that it was planned on the revision its mutation names, and
that the files are what the first operations of the batch make of those it found (`TxInv`).
So a commit has carried out the whole batch, and is the step `Land`; `Abort` gives back what
was found, and is no step; all others neither (`Implemented`).

`AuthoringInv` adds

* `FilesInv` of the committed files: each is within the limit of its kind, `story.yaml` is
  there if any file is, a page has one image, and the index names images that are there:
  what `NothingIsStranded` and `OneImagePerPage` need of files that another client wrote;
* `CallInv`, what each call knows: a listing of the present revision lists what there is,
  what was read since is then of the present files (`ListingInv`, `StoryInv`, `SeenInv`), and
  a batch that can still land was made for them (`AskedInv`).

Its core is that no revision has two contents. A call that stands still keeps what it knows
either because nothing landed or because its revision is past (`Stays`). `WritesTheorem` and
`AnswersTheorem` are action properties that follow from the same invariant;
`AuthoringRefinement` carries `StorageRefinement` to the system with its calls.

### The page (`Page_proofs`)

`RegistrationInv`: a batch of which a tool failed has none mounted (`TakenBack`), and an error
was noted when its batch, the last, had settled (`ErrorInv`). `PageInv` has it and

* `StoriesInv`, `FocusInv`: claims, the adopted focus and the one being checked are of
  generations and revisions in their order;
* `ViewInv`, `SessionInv`: what is mounted is what the state says, and the panel tells the
  phase of the session it names;
* `HydratesInv`, `FreshInv`: when no write is unseen and no hydrate is owed, the latest
  hydrate has begun since the last write, so that all it has read is of the current
  revision; when it is done, so is all that is shown;
* `PlaceInv`: the creator's place is in the editor or with the latest hydrate, which has
  where a page starts instead if it began during another.

From it follow four invariants of `page` and its three action properties.

### The screen (`StoryMap_proofs`, `StoryScreen_proofs`)

Four of the properties say that independent walks over one graph agree, for every story of
any number of nodes. The search is a recursive function of the number of its turns. What
`StoryMap_proofs` shows of it is found by counting: a turn adds a page that was not seen or
nothing is fresh any more, there are no more pages than names, so after `Len(Names)` turns
nothing is fresh (`SearchEnds`); every way on from a page in the order is in the queue, so
the order holds exactly what `validate` reaches (`ReadingIsReached`); and it names each page
once, the unreached ones last (`ReadingOrderOf`). Induction is by the smallest number at
which a statement fails (`Smallest`, `UpTo`), and `RecursionExists` gives a function that is
defined by recursion its value at each number.

`ScreenInv` is the conjunction of

* `MapInv`: `FitInv` (the map is fitted after Panzoom's own start, which is the first of its
  timers, and an unmoved map still is) and `CardsInv` (an image is on its card or being read
  for the last rendering);
* `ReadersInv`: what a reader shows is of a story there was, its path is a walk, its image is
  that of its page, and a request that is not outdated is for that page;
* `LiveInv`: all readers but the live one are disposed or were replaced before anything was
  seen of them.

With `CameraInv`, which says that the camera keeps to the scales there are, `TypeTheorem`
follows.

### Only model-checked

* Liveness (`EveryConnectionEnds`, `LoadSettles`, `TabMovesOn`): it needs ENABLED, which the
  prover does not know.
* The six violations.
* `SelectedIsShown` of `screen`. It is an action property about a card that is moved into
  the view, and rounding decides it: the model rounds pans to whole pixels, so that it is
  true of the heights in the instance and false of some others.
* `StoryIsWellFormed` and `BlamedForStaleAnswers` (see *Planned*).
