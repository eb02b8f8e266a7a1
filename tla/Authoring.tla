------------------------------ MODULE Authoring ------------------------------
(***************************************************************************)
(* The story operations over the workspace in IndexedDB: the tools that    *)
(* write (src/webmcp/tools/writeTools.ts, src/story/, src/media/), those   *)
(* that read (readonlyTools.ts, readiness.ts, localSource.ts) and the      *)
(* deletion of the story (controller.ts).  A call is a sequence of storage *)
(* requests, and calls of several clients (the agent, the page, a second   *)
(* tab) interleave between any two of them.                                *)
(***************************************************************************)
EXTENDS IndexedDbStorage

CONSTANTS
  Request,        \* the arguments of the calls that are made
  Absent,         \* what a read of a file that is not there gives
  Does,           \* which tools each client calls
  FirstChapter,   \* MINIMAL_STORY_NODE_ID
  MaxImage,       \* SET_PAGE_IMAGE_MAX_BYTES
  MaxAttempts,    \* CONSISTENT_READ_MAX_ATTEMPTS
  MaxRevision     \* bound: no call starts once this many mutations have landed

ASSUME RequestAssumption ==
  /\ MaxImage \in Nat
  /\ \A req \in Request :
       /\ req.tool = "structure" => req.story.bytes \in Nat
       /\ req.tool \in {"text", "image"} => req.bytes \in Nat

VARIABLES
  call,           \* each client's call in progress
  reply           \* each client's last answer

vars == <<files, revision, tx, status, mutation, call, reply>>

Idle == [at |-> "idle"]
Writer == {"create", "structure", "text", "image", "delete"}
Reader == {"readiness", "load", "inspect"}

-----------------------------------------------------------------------------
(* What is decided about the arguments alone                                *)

\* MIME_TO_EXT
ExtOf(mime) == CASE mime = "image/png" -> "png" [] mime = "image/jpeg" -> "jpg"
                 [] mime = "image/webp" -> "webp" [] OTHER -> "none"

\* resolveExt and sniffExt: the declared type has to fit the first bytes; without
\* one they decide.
Resolve(req) ==
  IF req.mime = "absent" THEN req.magic
  ELSE IF req.magic = ExtOf(req.mime) THEN req.magic ELSE "none"

\* MAX_BASE64_LENGTH: no longer text can be of an image within the limit.
EncodedLength(bytes) == ((bytes + 2) \div 3) * 4

TooLong(bytes) == EncodedLength(bytes) > EncodedLength(MaxImage)

\* Mutant: only the length of the encoded image is looked at.
TooLargeEncoded(bytes) == TooLong(bytes)

TooLarge(bytes) == bytes > MaxImage

\* The first fault of a tool's arguments, which is answered before any storage
\* request; "none" when there is none.
CreateFault(req) == FirstFault(<< <<~req.legal, "invalid-input">> >>)

StructureFault(req) ==
  FirstFault(<< <<~req.story.wellShaped, "invalid-spec-shape">>,
                <<~req.story.valid, "invalid-story-spec">> >>)

TextFault(req) ==
  FirstFault(<< <<req.bytes = 0, "invalid-text">>,
                <<KindOf(ContentFile(req.chapter)) = "none", "invalid-path">> >>)

ImageFault(req) ==
  FirstFault(<< <<TooLong(req.bytes), "image-too-large">>,
                <<~req.decodes, "invalid-base64">>,
                <<req.bytes = 0, "empty-image">>,
                <<TooLarge(req.bytes), "image-too-large">>,
                <<req.mime # "absent" /\ ExtOf(req.mime) = "none", "unsupported-mime-type">>,
                <<Resolve(req) = "none", "invalid-image">> >>)

-----------------------------------------------------------------------------
(* What the reading tools make of one revision                              *)

\* The content of a file that was read, Absent when it was not there or not read.
Seen(seen, p) == IF p \in DOMAIN seen THEN seen[p] ELSE Absent

HasText(c, entries) == \E e \in entries : e.path = ContentFile(c) /\ e.bytes > 0

\* computeContentGaps
ContentGaps(story, entries) == {c \in story.chapters : ~HasText(c, entries)}

\* computeMediaGaps: an index that is not legal has no gaps.
MediaGaps(story, entries, index) ==
  LET legal == index = Absent \/ MediaIndexOk(index, story.chapters)
  IN [unparsable |-> ~legal,
      missing    |-> IF legal /\ index # Absent
                     THEN BrokenReferences(index, {e.path : e \in entries}) ELSE {}]

\* getStoryReadiness
Readiness(story, entries, seen) ==
  LET gaps == ContentGaps(story, entries)   media == MediaGaps(story, entries, Seen(seen, MediaJson))
  IN [status |-> IF gaps = {} /\ ~media.unparsable /\ media.missing = {} THEN "ready" ELSE "incomplete",
      content |-> gaps, media |-> media]

\* inspectStory: buildSafeMetadata and buildChapterSummaries.
Overview(story, entries, seen) ==
  [slug |-> story.slug, title |-> Seen(seen, MetaJson),
   chapters |-> [c \in story.chapters |-> HasText(c, entries)]]

\* LocalSource: what a snapshot is built from.
Preview(story, entries, seen) ==
  [story |-> story, texts |-> seen,
   images |-> {e \in entries : \E c \in story.chapters, x \in Ext : e.path = MediaFile(c, x)}]

Answer(tool, story, entries, seen) ==
  CASE tool = "readiness" -> Readiness(story, entries, seen)
    [] tool = "inspect"   -> Overview(story, entries, seen)
    [] tool = "load"      -> Preview(story, entries, seen)

\* The files a tool reads besides story.yaml.
Needed(tool, story, entries) ==
  LET listed == {e.path : e \in entries}
  IN CASE tool \in {"readiness", "image"} -> {MediaJson} \cap listed
       [] tool = "inspect"                -> {MetaJson} \cap listed
       [] tool = "load" -> ({MetaJson} \cap listed) \cup {ContentFile(c) : c \in story.chapters}

\* What the reading tools make of a failure to read.
ReadinessFailure(error) == CASE error = "story-not-found" -> "not-started"
                             [] error = "workspace-busy"  -> "unreadable"
                             [] error = "internal-error"  -> "throws"
InspectFailure(error)   == CASE error = "story-not-found" -> "not-started"
                             [] error = "workspace-busy"  -> "unreadable"
                             [] error = "internal-error"  -> "throws"
LoadFailure(error)      == IF error = "story-not-found" THEN "no-story" ELSE "unavailable"

\* The errors each writing tool tells the agent of.
StoryReadErrors == {"story-not-found", "workspace-busy"}
CreateErrors    == {"invalid-input", "workspace-not-empty", "invalid-story-spec", "mutation-rejected"}
StructureErrors == {"invalid-spec-shape", "invalid-story-spec", "mutation-rejected"}
TextErrors      == StoryReadErrors \cup {"invalid-text", "invalid-path", "chapter-not-found", "mutation-rejected"}
ImageErrors     == StoryReadErrors \cup
  {"story-mismatch", "chapter-not-found", "invalid-base64", "empty-image", "image-too-large",
   "unsupported-mime-type", "invalid-image", "media-json-corrupt", "mutation-rejected"}

ToolErrors == [create |-> CreateErrors, structure |-> StructureErrors, text |-> TextErrors,
               image |-> ImageErrors, delete |-> {}]

\* What a call answers of an error; whatever has no name is an internal error.
Failure(tool, error) ==
  CASE tool = "readiness" -> ReadinessFailure(error)
    [] tool = "inspect"   -> InspectFailure(error)
    [] tool = "load"      -> LoadFailure(error)
    [] OTHER              -> IF error \in ToolErrors[tool] THEN error ELSE "internal-error"

\* What the file p holds, or Absent.
Content(fs, p) == IF p \in DOMAIN fs THEN fs[p].data ELSE Absent

-----------------------------------------------------------------------------
(* The batches of the writing tools                                         *)

WriteStory(story) == WriteOp(StoryYaml, "text", story.bytes, story)

\* createMinimalStory: a story of one page, whose text is the title.
CreateOps(slug) ==
  <<WriteStory([slug |-> slug, chapters |-> {FirstChapter}, bytes |-> 1, valid |-> TRUE,
                wellShaped |-> TRUE]),
    WriteOp(MetaJson, "text", 1, slug),
    WriteOp(ContentFile(FirstChapter), "text", 1, 1)>>

\* Mutant: an image of another format is left beside the new one.
ImageOpsKeepOld(req, entries, index) ==
  LET c == req.chapter   x == Resolve(req)
      old == IF index = Absent THEN [k \in {} |-> x] ELSE index
  IN <<WriteOp(MediaFile(c, x), "blob", req.bytes, req.bytes),
       WriteOp(MediaJson, "text", 1, [k \in DOMAIN old \cup {c} |-> IF k = c THEN x ELSE old[k]])>>

\* setPageImage: images of other formats go, the new one and its index entry come.
ImageOps(req, entries, index) ==
  LET c == req.chapter   x == Resolve(req)
      old == IF index = Absent THEN [k \in {} |-> x] ELSE index
      others == {e.path : e \in entries} \cap {MediaFile(c, y) : y \in Ext \ {x}}
  IN [i \in 1 .. Cardinality(others) |-> DeleteOp(SetToSeq(others)[i])]
       \o <<WriteOp(MediaFile(c, x), "blob", req.bytes, req.bytes),
            WriteOp(MediaJson, "text", 1, [k \in DOMAIN old \cup {c} |-> IF k = c THEN x ELSE old[k]])>>

\* deleteStory: the files of one batch.
DeleteOps(paths) == [i \in 1 .. Cardinality(paths) |-> DeleteOp(SetToSeq(paths)[i])]

-----------------------------------------------------------------------------
(* One call                                                                 *)

At(c, place) == call[c].at = place
Look == Listing(files, revision)

\* A record with some fields changed or added.
With(k, fields) ==
  [x \in DOMAIN k \cup DOMAIN fields |-> IF x \in DOMAIN fields THEN fields[x] ELSE k[x]]

\* The call goes on with these fields changed.
Proceed(c, fields) == call' = [call EXCEPT ![c] = With(@, fields)]

AnswerOf(req, result, answer) == [tool |-> req.tool, result |-> result, answer |-> answer]

\* The call is answered.
Finish(c, result, answer) ==
  /\ call' = [call EXCEPT ![c] = Idle]
  /\ reply' = [reply EXCEPT ![c] = AnswerOf(call[c].req, result, answer)]

Fail(c, error) == Finish(c, Failure(call[c].req.tool, error), <<>>) /\ UNCHANGED storeVars

\* storage.mutate() of the call.
Submit(c, expected, ops) ==
  /\ Mutate(c, [expected |-> expected, ops |-> ops])
  /\ call' = [call EXCEPT ![c] = [at |-> "mutate", req |-> call[c].req]]
  /\ UNCHANGED reply

\* The next attempt to read story.yaml, the next round of all the reads, or the
\* end of the attempts.
Again(c) ==
  IF call[c].tries < MaxAttempts
  THEN Proceed(c, [at |-> "list", tries |-> call[c].tries + 1]) /\ UNCHANGED <<reply, storeVars>>
  ELSE Fail(c, "workspace-busy")

NextRound(c) ==
  IF call[c].round < MaxAttempts
  THEN /\ Proceed(c, [at |-> "list", tries |-> 1, round |-> call[c].round + 1])
       /\ UNCHANGED <<reply, storeVars>>
  ELSE Fail(c, "workspace-busy")

\* A tool is called.
Start(c, req, expected) ==
  /\ At(c, "idle") /\ req.tool \in Does[c] /\ CommittedRevision < MaxRevision
  /\ reply' = [reply EXCEPT ![c] = <<>>]
  /\ call' = [call EXCEPT ![c] =
       [at |-> "list", req |-> req, expected |-> expected, round |-> 1, tries |-> 1]]
  /\ UNCHANGED storeVars

\* A fault of its arguments is answered at once.
Reject(c, req, fault) ==
  /\ At(c, "idle") /\ req.tool \in Does[c] /\ CommittedRevision < MaxRevision
  /\ reply' = [reply EXCEPT ![c] = AnswerOf(req, Failure(req.tool, fault), <<>>)]
  /\ UNCHANGED <<call, storeVars>>

StartUnless(fault, c, req, expected) ==
  IF fault # "none" THEN Reject(c, req, fault) ELSE Start(c, req, expected)

Calls(tool) == {req \in Request : req.tool = tool}

\* The revision the agent names: the one it knows, or the one it expects a call
\* that it has made just before to lead to.
Named == {CommittedRevision, CommittedRevision + 1}

CreateStory(c)          == \E req \in Calls("create") : StartUnless(CreateFault(req), c, req, 0)
UpdateStoryStructure(c) ==
  \E req \in Calls("structure"), r \in Named : StartUnless(StructureFault(req), c, req, r)
UpdatePageText(c)       ==
  \E req \in Calls("text"), r \in Named : StartUnless(TextFault(req), c, req, r)
SetPageImage(c)         ==
  \E req \in Calls("image"), r \in Named : StartUnless(ImageFault(req), c, req, r)
InspectStory(c)         == \E req \in Calls("inspect") : Start(c, req, 0)
GetStoryReadiness(c)    == \E req \in Calls("readiness") : Start(c, req, 0)
LoadPreview(c)          == \E req \in Calls("load") : Start(c, req, 0)
DeleteStory(c)          == \E req \in Calls("delete") : Start(c, req, 0)

\* update_story_structure reads nothing.
Structure(c) ==
  /\ At(c, "list") /\ call[c].req.tool = "structure"
  /\ Submit(c, call[c].expected, <<WriteStory(call[c].req.story)>>)

\* create_story: into an empty workspace only.
Create(c) ==
  /\ At(c, "list") /\ call[c].req.tool = "create" /\ Readable
  /\ IF DOMAIN files # {} THEN Fail(c, "workspace-not-empty")
     ELSE Submit(c, revision, CreateOps(call[c].req.slug))

\* deleteStory: one more batch, until nothing is left.
Delete(c) ==
  /\ At(c, "list") /\ call[c].req.tool = "delete" /\ Readable
  /\ IF DOMAIN files = {} THEN Finish(c, "ok", <<>>) /\ UNCHANGED storeVars
     ELSE \E first \in FirstFiles(Listed(Look)) : Submit(c, revision, DeleteOps(first))

\* The listing before story.yaml is read.
List(c) ==
  /\ At(c, "list") /\ call[c].req.tool \in {"text", "image"} \cup Reader /\ Readable
  /\ Proceed(c, [at |-> "story.yaml", before |-> Look])
  /\ UNCHANGED <<reply, storeVars>>

ReadStoryYaml(c) ==
  /\ At(c, "story.yaml") /\ Readable
  /\ Proceed(c, [at |-> "listed again", story |-> Content(files, StoryYaml)])
  /\ UNCHANGED <<reply, storeVars>>

\* What a writing tool finds wrong with the story that was read.
TextStoryFault(k) ==
  FirstFault(<< <<k.expected # revision, "mutation-rejected">>,
                <<k.req.chapter \notin k.story.chapters, "chapter-not-found">> >>)

ImageStoryFault(k) ==
  FirstFault(<< <<k.story.slug # k.req.slug, "story-mismatch">>,
                <<k.expected # revision, "mutation-rejected">>,
                <<k.req.chapter \notin k.story.chapters, "chapter-not-found">> >>)

\* What a tool does with the story it has read.
UseStory(c) ==
  LET k == call[c]   req == k.req IN
  CASE req.tool = "text" ->
         IF TextStoryFault(k) # "none" THEN Fail(c, TextStoryFault(k))
         ELSE Submit(c, k.expected, <<WriteOp(ContentFile(req.chapter), "text", req.bytes, req.bytes)>>)
    [] req.tool = "image" /\ ImageStoryFault(k) # "none" -> Fail(c, ImageStoryFault(k))
    [] OTHER -> /\ Proceed(c, [at |-> "extra", revision |-> revision, tries |-> 1])
                /\ UNCHANGED <<reply, storeVars>>

\* readStory: the listing after the read of story.yaml.
ReadStory(c) ==
  /\ At(c, "listed again") /\ Readable
  /\ IF ~SnapshotsMatch(call[c].before, Look) THEN Again(c)
     ELSE IF call[c].story = Absent THEN Fail(c, "story-not-found")
     ELSE UseStory(c)

\* readConsistentSnapshot: the listing before, the files one by one, the listing
\* after.
ListExtra(c) ==
  /\ At(c, "extra") /\ Readable
  /\ Proceed(c, [at |-> "files", before |-> Look, seen |-> [p \in {} |-> {}],
                 todo |-> Needed(call[c].req.tool, call[c].story, Look.entries)])
  /\ UNCHANGED <<reply, storeVars>>

NextFile(todo) == CHOOSE p \in todo : MetaJson \in todo => p = MetaJson

ReadFile(c) ==
  /\ At(c, "files") /\ call[c].todo # {} /\ Readable
  /\ LET p == NextFile(call[c].todo)
         seen == call[c].seen
     IN Proceed(c, [todo |-> call[c].todo \ {p},
                    seen |-> [q \in DOMAIN seen \cup {p} |->
                                IF q = p THEN Content(files, p) ELSE seen[q]]])
  /\ UNCHANGED <<reply, storeVars>>

\* What the tool does with a story and files of one revision.
Conclude(c) ==
  LET k == call[c]   req == k.req   index == Seen(k.seen, MediaJson) IN
  CASE req.tool \in Reader ->
         /\ Finish(c, "ok", [revision |-> k.revision,
                             content |-> Answer(req.tool, k.story, k.before.entries, k.seen)])
         /\ UNCHANGED storeVars
    [] req.tool = "image" ->
         IF index # Absent /\ ~MediaIndexOk(index, k.story.chapters) THEN Fail(c, "media-json-corrupt")
         ELSE Submit(c, k.revision, ImageOps(req, k.before.entries, index))

ReadExtra(c) ==
  /\ At(c, "files") /\ call[c].todo = {} /\ Readable
  /\ LET k == call[c] IN
     IF SnapshotsMatch(k.before, Look)
     THEN IF revision = k.revision THEN Conclude(c) ELSE NextRound(c)
     ELSE IF k.tries < MaxAttempts
     THEN /\ Proceed(c, [at |-> "extra", tries |-> k.tries + 1])
          /\ UNCHANGED <<reply, storeVars>>
     ELSE IF k.req.tool = "load" THEN Fail(c, "workspace-busy") ELSE NextRound(c)

\* mutate() answers or throws.  deleteStory goes on until nothing is left.
Mutated(c) ==
  /\ At(c, "mutate") /\ Returned(c)
  /\ IF status[c] = "landed" /\ call[c].req.tool = "delete"
     THEN Proceed(c, [at |-> "list"]) /\ UNCHANGED reply
     ELSE \E error \in {"mutation-rejected", "internal-error"} :
            Finish(c, IF status[c] = "landed" THEN "ok" ELSE Failure(call[c].req.tool, error), <<>>)

\* A read throws: every tool answers that it failed.
ReadThrows(c) ==
  /\ call[c].at \in {"list", "story.yaml", "listed again", "extra", "files"}
  /\ call[c].req.tool # "structure"
  /\ Fail(c, "internal-error")

CallStep(c) ==
  \/ CreateStory(c) \/ UpdateStoryStructure(c) \/ UpdatePageText(c) \/ SetPageImage(c)
  \/ InspectStory(c) \/ GetStoryReadiness(c) \/ LoadPreview(c) \/ DeleteStory(c)
  \/ Structure(c) \/ Create(c) \/ Delete(c) \/ List(c) \/ ReadStoryYaml(c) \/ ReadStory(c)
  \/ ListExtra(c) \/ ReadFile(c) \/ ReadExtra(c) \/ Mutated(c) \/ ReadThrows(c)

Init ==
  /\ StoreInit
  /\ call = [c \in Client |-> Idle]
  /\ reply = [c \in Client |-> <<>>]

Next ==
  \/ \E c \in Client : CallStep(c)
  \/ StoreStep /\ UNCHANGED <<call, reply>>

Spec == Init /\ [][Next]_vars

-----------------------------------------------------------------------------
(* Properties                                                               *)

\* The store and the calls are in states their code can make: what is committed is
\* within the limits, and only a call that waits for mutate() has asked for it.
TypeOK ==
  /\ DOMAIN files \subseteq Path /\ revision \in Nat
  /\ tx # NoTx => tx.owner \in Client /\ tx.next \in 1 .. MaxOps + 2
  /\ \A p \in DOMAIN CommittedFiles :
       CommittedFiles[p].bytes <= (IF KindOf(p) = "text" THEN MaxText ELSE MaxImage)
  /\ \A c \in Client : (status[c] # "idle") => At(c, "mutate")

Answers(c, tools) == reply'[c] # reply[c] /\ reply'[c] # <<>> /\ reply'[c].tool \in tools
                       /\ reply'[c].result = "ok"

\* What a reading tool answers is what the workspace holds at one revision, the
\* one it names, which is the current one when the last of its reads is done: the
\* story, texts, images and gaps are never of two revisions, although they are
\* read one by one while others write (readStory.ts:52-116, snapshot.ts:73-86,
\* readiness.ts:180-241, localSource.ts:86-154, readonlyTools.ts:225-285).
AnswersAreOfOneRevision ==
  [][\A c \in Client : Answers(c, Reader) =>
       LET tool == reply'[c].tool   story == Content(files, StoryYaml) IN
       /\ tx = NoTx /\ story # Absent
       /\ reply'[c].answer =
            [revision |-> revision,
             content |-> Answer(tool, story, Look.entries,
                                [p \in Needed(tool, story, Look.entries) |-> Content(files, p)])]]_vars

Lands(c) == status[c] = "asked" /\ status'[c] = "landed"

\* A text or an image lands only on a story that has its page, and an image only
\* on the story it was made for, whatever replaced the structure since the tool
\* read it (updatePageText.ts:45-106, setPageImage.ts:182-247).
WritesFitTheStory ==
  [][\A c \in Client : (Lands(c) /\ call[c].req.tool \in {"text", "image"}) =>
       /\ StoryYaml \in DOMAIN files
       /\ call[c].req.chapter \in files[StoryYaml].data.chapters
       /\ call[c].req.tool = "image" => files[StoryYaml].data.slug = call[c].req.slug]_vars

\* A story that is being deleted, or whose deletion has failed half-way, can
\* still be found and deleted: files never outlive story.yaml
\* (controller.ts:285-295 and the order of list()).
NothingIsStranded == CommittedFiles # NoFiles => StoryYaml \in DOMAIN CommittedFiles

\* A page has one image, and the index names no image that is not there, also
\* while a story is being deleted (setPageImage.ts:15-22 and 224-242,
\* media.ts:38-45).
OneImagePerPage ==
  \A c \in Chapter :
    LET images == {MediaFile(c, x) : x \in Ext} \cap DOMAIN CommittedFiles
        index  == Content(CommittedFiles, MediaJson)
    IN /\ Cardinality(images) <= 1
       /\ (index # Absent /\ c \in DOMAIN index) => MediaFile(c, index[c]) \in images

\* The index of the images can always be read: "this shouldn't happen in theory
\* (the browser side's only write entry point always validates legal JSON before
\* it lands" (readiness.ts:64-67).
IndexIsReadable ==
  [][\A c \in Client : Answers(c, {"readiness"}) => ~reply'[c].answer.content.media.unparsable]_vars
==============================================================================
