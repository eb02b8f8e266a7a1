------------------------------ MODULE Workspace ------------------------------
(***************************************************************************)
(* The rules of the workspace file tree: which paths there are, how a      *)
(* batch of operations is planned, and how a media index is read           *)
(* (src/workspace/).  Everything here is a pure function.                  *)
(*                                                                         *)
(* A path is a tuple, a file its length and its content.  The content of   *)
(* story.yaml is a story, that of media.json an index from chapters to     *)
(* extensions; of a text or an image only the length is kept.              *)
(***************************************************************************)
EXTENDS Integers, FiniteSets, SequencesExt

CONSTANTS
  Chapter,    \* chapter slugs
  Ext,        \* image extensions
  MaxOps,     \* MAX_MUTATION_OPS
  MaxText,    \* MAX_TEXT_FILE_BYTES
  MaxBlob,    \* MAX_BLOB_FILE_BYTES
  MaxTotal    \* MAX_MUTATION_TOTAL_BYTES

ASSUME LimitsAssumption == {MaxOps, MaxText, MaxBlob, MaxTotal} \subseteq Nat

StoryYaml      == <<"story.yaml">>
MetaJson       == <<"meta.json">>
MediaJson      == <<"media.json">>
ContentFile(c) == <<"content", c>>
MediaFile(c, e) == <<"media", c, e>>

TextPath == {StoryYaml, MetaJson, MediaJson} \cup {ContentFile(c) : c \in Chapter}
BlobPath == {MediaFile(c, e) : c \in Chapter, e \in Ext}
Path     == TextPath \cup BlobPath

\* classifyWorkspacePath: whatever is not on the allowlist has no kind.
KindOf(p) == IF p \in TextPath THEN "text" ELSE IF p \in BlobPath THEN "blob" ELSE "none"

NoFiles == [p \in {} |-> {}]

\* The first check of a sequence that fails, each with its error.
FirstFault(checks) ==
  IF \E i \in DOMAIN checks : checks[i][1]
  THEN checks[CHOOSE i \in DOMAIN checks : checks[i][1] /\ \A j \in 1 .. i - 1 : ~checks[j][1]][2]
  ELSE "none"

WriteOp(p, kind, bytes, data) ==
  [op |-> "write", path |-> p, kind |-> kind, file |-> [bytes |-> bytes, data |-> data]]
DeleteOp(p) == [op |-> "delete", path |-> p]

\* A sequence of operations, whatever their paths and files.
IsBatch(ops) ==
  \E n \in Nat : /\ DOMAIN ops = 1 .. n /\ ops = [i \in 1 .. n |-> ops[i]]
                 /\ \A i \in 1 .. n : ops[i].op \in {"write", "delete"}

-----------------------------------------------------------------------------
(* Planning a batch                                                         *)

\* What one operation of the store does to the files.
ApplyOp(files, o) ==
  IF o.op = "delete"
  THEN [p \in DOMAIN files \ {o.path} |-> files[p]]
  ELSE [p \in DOMAIN files \cup {o.path} |-> IF p = o.path THEN o.file ELSE files[p]]

\* The draft after a batch: the last operation on a path decides.
Outcome(files, ops) ==
  LET touched == {ops[i].path : i \in DOMAIN ops}
      last(p) == ops[CHOOSE i \in DOMAIN ops :
                       ops[i].path = p /\ \A j \in DOMAIN ops : ops[j].path = p => j <= i]
      written == {p \in touched : last(p).op = "write"}
  IN [p \in (DOMAIN files \ touched) \cup written |->
        IF p \in written THEN last(p).file ELSE files[p]]

BytesWritten(ops) ==
  FoldLeft(LAMBDA total, o : total + (IF o.op = "write" THEN o.file.bytes ELSE 0), 0, ops)

\* The checks of the i-th operation against the draft before it, in the order of the code.
OpError(files, ops, i) ==
  LET o == ops[i]
      draft == Outcome(files, SubSeq(ops, 1, i - 1))
  IN IF o.op = "delete"
     THEN FirstFault(<< <<KindOf(o.path) = "none", "invalid-path">>,
                        <<o.path \notin DOMAIN draft, "invalid-path">> >>)
     ELSE FirstFault(<< <<KindOf(o.path) = "none", "invalid-path">>,
                        <<o.kind # KindOf(o.path), "type-mismatch">>,
                        <<o.file.bytes > (IF o.kind = "text" THEN MaxText ELSE MaxBlob), "size-exceeded">>,
                        <<BytesWritten(SubSeq(ops, 1, i)) > MaxTotal, "batch-too-large">> >>)

\* The first operation that is not legal.
FirstOpError(files, ops) ==
  FirstFault([i \in DOMAIN ops |-> <<OpError(files, ops, i) # "none", OpError(files, ops, i)>>])

\* Mutant: the revision a batch was planned against is not compared.
PlanAnyRevision(files, revision, m) == FirstOpError(files, m.ops)

\* planMutation: the error of a batch, "none" when it may be carried out.
PlanError(files, revision, m) ==
  LET fault == FirstFault(<< <<m.expected # revision, "revision-conflict">>,
                             <<m.ops = <<>>, "empty-batch">>,
                             <<Len(m.ops) > MaxOps, "batch-too-large">> >>)
  IN IF fault # "none" THEN fault ELSE FirstOpError(files, m.ops)

-----------------------------------------------------------------------------
(* Listings                                                                 *)

\* list(): the revision and, of every file, its path and length.
Listing(files, revision) ==
  [revision |-> revision, entries |-> {[path |-> p, bytes |-> files[p].bytes] : p \in DOMAIN files}]

Listed(listing) == {e.path : e \in listing.entries}

\* Mutant: only the names of the files are compared.
SnapshotsMatchByName(a, b) == Listed(a) = Listed(b)

SnapshotsMatch(a, b) == a.revision = b.revision /\ a.entries = b.entries

\* The order of the listing: content/ before media.json before media/ before
\* meta.json before story.yaml.
Rank(p) ==
  CASE p[1] = "content"   -> 1
    [] p = MediaJson      -> 2
    [] p[1] = "media"     -> 3
    [] p = MetaJson       -> 4
    [] p = StoryYaml      -> 5

BatchSize(paths) == IF Cardinality(paths) < MaxOps THEN Cardinality(paths) ELSE MaxOps

\* Mutant: the files are taken from the end of the listing.
LastFiles(paths) ==
  {last \in SUBSET paths : /\ Cardinality(last) = BatchSize(paths)
                           /\ \A p \in last, q \in paths \ last : Rank(p) >= Rank(q)}

\* The first files of a listing, as many as a batch may have; it is left open in which
\* order files of one rank are listed.
FirstFiles(paths) ==
  {first \in SUBSET paths : /\ Cardinality(first) = BatchSize(paths)
                            /\ \A p \in first, q \in paths \ first : Rank(p) <= Rank(q)}

-----------------------------------------------------------------------------
(* media.json                                                               *)

\* parseMediaJson of an index that setPageImage wrote: the one thing that can
\* be wrong with it is a chapter the story does not have.
MediaIndexOk(index, known) == DOMAIN index \subseteq known

\* findBrokenMediaReferences
BrokenReferences(index, paths) ==
  {MediaFile(c, index[c]) : c \in DOMAIN index} \ paths
==============================================================================
