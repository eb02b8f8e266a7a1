---------------------------- MODULE Authoring_proofs ----------------------------
(***************************************************************************)
(* What the story operations guarantee, for any clients, any chapters, any *)
(* image formats, any limits and any requests, checked by TLAPS.           *)
(***************************************************************************)
EXTENDS Authoring, IndexedDbStorage_proofs

-----------------------------------------------------------------------------
(* The files of a story                                                     *)

\* The limit of a file: what planMutation allows of a text, what set_page_image
\* allows of an image.
WithinLimit(p, bytes) == bytes \in Nat /\ bytes <= (IF KindOf(p) = "text" THEN MaxText ELSE MaxImage)

HasImage(fs, c, x) == MediaFile(c, x) \in DOMAIN fs

\* The files are finitely many, on the allowlist and within their limits; story.yaml is
\* there if any is; no chapter has two images, and the index names none that is missing.
FilesInv(fs) ==
  /\ IsFiniteSet(DOMAIN fs) /\ DOMAIN fs \subseteq Path
  /\ \A p \in DOMAIN fs : WithinLimit(p, fs[p].bytes)
  /\ DOMAIN fs # {} => StoryYaml \in DOMAIN fs
  /\ \A c, x, y : HasImage(fs, c, x) /\ HasImage(fs, c, y) => x = y
  /\ LET index == Content(fs, MediaJson) IN
     index # Absent => \A c \in DOMAIN index : HasImage(fs, c, index[c])

\* The story a text or an image is for has its page.
StoryFits(req, fs) ==
  /\ StoryYaml \in DOMAIN fs
  /\ req.tool \in {"text", "image"} => req.chapter \in fs[StoryYaml].data.chapters
  /\ req.tool = "image" => fs[StoryYaml].data.slug = req.slug

\* A batch is what its tool makes of the files fs.
MadeFor(req, ops, fs, rev) ==
  \/ req.tool = "create" /\ DOMAIN fs = {} /\ ops = CreateOps(req.slug)
  \/ req.tool = "structure" /\ ops = <<WriteStory(req.story)>>
  \/ /\ req.tool = "text" /\ StoryFits(req, fs)
     /\ ops = <<WriteOp(ContentFile(req.chapter), "text", req.bytes, req.bytes)>>
  \/ /\ req.tool = "image" /\ StoryFits(req, fs)
     /\ ops = ImageOps(req, Listing(fs, rev).entries, Content(fs, MediaJson))
  \/ /\ req.tool = "delete"
     /\ \E first \in FirstFiles(DOMAIN fs) : ops = DeleteOps(first)

\* What a batch writes has a length, and an image one that set_page_image allows.
Measured(ops) ==
  \A i \in 1 .. Len(ops) : ops[i].op = "write" =>
    ops[i].file.bytes \in Nat /\ (ops[i].kind # "text" => ops[i].file.bytes <= MaxImage)

\* What planMutation has let through.
Legal(ops) ==
  /\ Len(ops) <= MaxOps
  /\ \A i \in 1 .. Len(ops) :
       /\ ops[i].path \in Path
       /\ ops[i].op = "write" =>
            /\ ops[i].kind = KindOf(ops[i].path)
            /\ ops[i].file.bytes <= (IF ops[i].kind = "text" THEN MaxText ELSE MaxBlob)

LEMMA NoFilesIsFine == FilesInv(NoFiles)
  BY FS_EmptySet DEF FilesInv, NoFiles, HasImage, Content

LEMMA PlanIsLegal ==
  ASSUME NEW fs, NEW rev, NEW m, IsBatch(m.ops), Measured(m.ops), PlanError(fs, rev, m) = "none"
  PROVE  Legal(m.ops)
<1>1. Len(m.ops) <= MaxOps /\ \A i \in 1 .. Len(m.ops) : OpError(fs, m.ops, i) = "none"
  BY PlannedOps
<1>2. ASSUME NEW i \in 1 .. Len(m.ops)
      PROVE  /\ m.ops[i].path \in Path
             /\ m.ops[i].op = "write" =>
                  /\ m.ops[i].kind = KindOf(m.ops[i].path)
                  /\ m.ops[i].file.bytes <= (IF m.ops[i].kind = "text" THEN MaxText ELSE MaxBlob)
  <2>1. OpError(fs, m.ops, i) = "none"
    BY <1>1
  <2>2. m.ops[i].op = "write" => m.ops[i].file.bytes \in Int
    BY DEF Measured
  <2>. QED
    BY <2>1, <2>2, LegalOp
<1>. QED
  BY <1>1, <1>2 DEF Legal

\* A legal batch keeps the files on the allowlist and within their limits.
LEMMA LegalOutcome ==
  ASSUME NEW fs, FilesInv(fs), NEW ops, IsBatch(ops), Measured(ops), Legal(ops)
  PROVE  /\ IsFiniteSet(DOMAIN Outcome(fs, ops)) /\ DOMAIN Outcome(fs, ops) \subseteq Path
         /\ \A p \in DOMAIN Outcome(fs, ops) : WithinLimit(p, Outcome(fs, ops)[p].bytes)
<1>1. IsFiniteSet(DOMAIN Outcome(fs, ops))
  BY OutcomeIsFinite DEF FilesInv
<1>2. ASSUME NEW p \in DOMAIN Outcome(fs, ops)
      PROVE  p \in Path /\ WithinLimit(p, Outcome(fs, ops)[p].bytes)
  <2>1. CASE p \in DOMAIN fs /\ Outcome(fs, ops)[p] = fs[p]
    BY <2>1 DEF FilesInv
  <2>2. ASSUME NEW k \in 1 .. Len(ops), ops[k].op = "write", ops[k].path = p,
               Outcome(fs, ops)[p] = ops[k].file
        PROVE  p \in Path /\ WithinLimit(p, Outcome(fs, ops)[p].bytes)
    <3>1. /\ p \in Path /\ ops[k].kind = KindOf(p) /\ ops[k].file.bytes \in Nat
          /\ ops[k].file.bytes <= (IF ops[k].kind = "text" THEN MaxText ELSE MaxBlob)
          /\ ops[k].kind # "text" => ops[k].file.bytes <= MaxImage
      BY <2>2 DEF Legal, Measured
    <3>. QED
      BY <2>2, <3>1 DEF WithinLimit
  <2>. QED
    BY <2>1, <2>2, WhereFilesComeFrom
<1>. QED
  BY <1>1, <1>2

LEMMA Single ==
  ASSUME NEW o, o.op \in {"write", "delete"}
  PROVE  IsBatch(<<o>>) /\ Len(<<o>>) = 1 /\ <<o>>[1] = o
<1>. DEFINE ops == <<o>>
<1>1. DOMAIN ops = 1 .. 1 /\ ops = [i \in 1 .. 1 |-> ops[i]] /\ ops[1] = o /\ Len(ops) = 1
  OBVIOUS
<1>2. IsBatch(ops)
  <2>1. \A i \in 1 .. 1 : ops[i].op \in {"write", "delete"}
    BY <1>1
  <2>. HIDE DEF ops
  <2>. QED
    BY <1>1, <2>1, 1 \in Nat DEF IsBatch
<1>. QED
  BY <1>1, <1>2

\* A batch of one write changes the one file.
LEMMA OneWrite ==
  ASSUME NEW fs, NEW ops, IsBatch(ops), Len(ops) = 1, NEW p, p = ops[1].path, ops[1].op = "write"
  PROVE  /\ DOMAIN Outcome(fs, ops) = DOMAIN fs \cup {p}
         /\ Outcome(fs, ops)[p] = ops[1].file
         /\ \A q \in DOMAIN fs : q # p => Outcome(fs, ops)[q] = fs[q]
<1>1. DOMAIN ops = 1 .. 1
  BY BatchIsSeq
<1>2. p \in DOMAIN Outcome(fs, ops) /\ Outcome(fs, ops)[p] = ops[1].file
  <2>1. 1 \in 1 .. Len(ops) /\ \A j \in 1 .. Len(ops) : j = 1
    OBVIOUS
  <2>. QED
    BY <2>1, OneDecides
<1>3. ASSUME NEW q, q # p
      PROVE  /\ q \in DOMAIN Outcome(fs, ops) <=> q \in DOMAIN fs
             /\ q \in DOMAIN fs => Outcome(fs, ops)[q] = fs[q]
  <2>1. \A i \in DOMAIN ops : ops[i].path # q
    BY <1>1, <1>3
  <2>. QED
    BY <2>1, OthersAreLeft
<1>4. DOMAIN Outcome(fs, ops) = DOMAIN fs \cup {p}
  BY <1>2, <1>3
<1>. QED
  BY <1>2, <1>3, <1>4

\* A batch that deletes the paths of a set.
LEMMA DeleteBatch ==
  ASSUME NEW fs, NEW first, IsFiniteSet(first)
  PROVE  /\ IsBatch(DeleteOps(first)) /\ Measured(DeleteOps(first))
         /\ DOMAIN Outcome(fs, DeleteOps(first)) = DOMAIN fs \ first
         /\ \A p \in DOMAIN fs \ first : Outcome(fs, DeleteOps(first))[p] = fs[p]
<1>. DEFINE n == Cardinality(first)
            ops == DeleteOps(first)
<1>1. /\ n \in Nat /\ SetToSeq(first) \in [1 .. n -> first]
      /\ \A p \in first : \E i \in 1 .. n : SetToSeq(first)[i] = p
  BY SeqOfSet
<1>2. /\ DOMAIN ops = 1 .. n /\ ops = [i \in 1 .. n |-> ops[i]]
      /\ \A i \in 1 .. n : ops[i] = DeleteOp(SetToSeq(first)[i])
  BY DEF DeleteOps
<1>3. \A i \in 1 .. n : ops[i].op = "delete" /\ ops[i].path = SetToSeq(first)[i]
  BY <1>2 DEF DeleteOp
<1>4. IsBatch(ops) /\ Len(ops) = n
  <2>. HIDE DEF ops, n
  <2>1. IsBatch(ops)
    BY <1>1, <1>2, <1>3 DEF IsBatch
  <2>2. Len(ops) \in Nat /\ DOMAIN ops = 1 .. Len(ops)
    BY <2>1, BatchIsSeq
  <2>3. n \in Nat /\ 1 .. Len(ops) = 1 .. n
    BY <1>1, <1>2, <2>2 DEF n
  <2>. QED
    BY <2>1, <2>2, <2>3, SameInterval
<1>5. {ops[i].path : i \in 1 .. n} = first
  <2>. HIDE DEF ops, n
  <2>. QED
    BY <1>1, <1>3
<1>. HIDE DEF ops, n
<1>6. /\ DOMAIN Outcome(fs, ops) = DOMAIN fs \ {ops[i].path : i \in 1 .. Len(ops)}
      /\ \A p \in DOMAIN Outcome(fs, ops) : Outcome(fs, ops)[p] = fs[p]
  <2>1. \A i \in 1 .. Len(ops) : ops[i].op = "delete"
    BY <1>3, <1>4
  <2>. QED
    BY <1>4, <2>1, DeletionOutcome
<1>7. Measured(ops)
  BY <1>3, <1>4 DEF Measured
<1>. QED
  BY <1>4, <1>5, <1>6, <1>7 DEF ops

\* The elements of a sequence of n with two more behind it.
LEMMA TwoMore ==
  ASSUME NEW n \in Nat, NEW d, d = [i \in 1 .. n |-> d[i]], NEW a, NEW b
  PROVE  LET s == d \o <<a, b>> IN
         /\ DOMAIN s = 1 .. n + 2 /\ s = [i \in 1 .. n + 2 |-> s[i]]
         /\ \A i \in 1 .. n : s[i] = d[i]
         /\ s[n + 1] = a /\ s[n + 2] = b
<1>. DEFINE S == {d[i] : i \in 1 .. n} \cup {a, b}
            s == d \o <<a, b>>
<1>1. \A i \in 1 .. n : d[i] \in S
  OBVIOUS
<1>2. d \in Seq(S) /\ Len(d) = n /\ <<a, b>> \in Seq(S) /\ Len(<<a, b>>) = 2
  <2>1. a \in S /\ b \in S
    OBVIOUS
  <2>. HIDE DEF S
  <2>2. d \in [1 .. n -> S]
    BY <1>1
  <2>. QED
    BY <2>1, <2>2
<1>3. s \in Seq(S) /\ Len(s) = n + 2
  BY <1>2
<1>4. \A i \in 1 .. n + 2 : s[i] = IF i <= n THEN d[i] ELSE <<a, b>>[i - n]
  BY <1>2
<1>5. DOMAIN s = 1 .. n + 2 /\ s = [i \in 1 .. n + 2 |-> s[i]]
  <2>. HIDE DEF s, S
  <2>. QED
    BY <1>3
<1>. HIDE DEF s
<1>6. s[n + 1] = a /\ s[n + 2] = b
  BY <1>4
<1>. QED
  BY <1>4, <1>5, <1>6 DEF s

\* The batch of set_page_image: the images of other formats go, and only they; the new
\* one and the index with its entry come; nothing else changes.
LEMMA ImageBatch ==
  ASSUME NEW fs, FilesInv(fs), NEW rev, NEW req, req.bytes \in Nat, req.bytes <= MaxImage,
         NEW index, index = Content(fs, MediaJson), NEW x, x = Resolve(req), NEW c, c = req.chapter,
         NEW ops, ops = ImageOps(req, Listing(fs, rev).entries, index), NEW out, out = Outcome(fs, ops)
  PROVE  /\ IsBatch(ops) /\ Measured(ops)
         /\ MediaFile(c, x) \in DOMAIN out /\ MediaJson \in DOMAIN out
         /\ DOMAIN out[MediaJson].data = (IF index = Absent THEN {} ELSE DOMAIN index) \cup {c}
         /\ \A k \in DOMAIN out[MediaJson].data : out[MediaJson].data[k] = IF k = c THEN x ELSE index[k]
         /\ \A y \in Ext : y # x => MediaFile(c, y) \notin DOMAIN out
         /\ \A p : p # MediaJson /\ (\A y : p # MediaFile(c, y)) =>
              /\ p \in DOMAIN out <=> p \in DOMAIN fs
              /\ p \in DOMAIN fs => out[p] = fs[p]
<1>. DEFINE old == IF index = Absent THEN [k \in {} |-> x] ELSE index
            new == [k \in DOMAIN old \cup {c} |-> IF k = c THEN x ELSE old[k]]
            others == DOMAIN fs \cap {MediaFile(c, y) : y \in Ext \ {x}}
            n   == Cardinality(others)
            gone == [i \in 1 .. n |-> DeleteOp(SetToSeq(others)[i])]
            image == WriteOp(MediaFile(c, x), "blob", req.bytes, req.bytes)
            entry == WriteOp(MediaJson, "text", 1, new)
<1>1. ops = gone \o <<image, entry>>
  <2>1. {e.path : e \in Listing(fs, rev).entries} = DOMAIN fs
    BY ListedIsDomain
  <2>. QED
    BY <2>1 DEF ImageOps
<1>2. /\ n \in Nat /\ SetToSeq(others) \in [1 .. n -> others]
      /\ \A p \in others : \E i \in 1 .. n : SetToSeq(others)[i] = p
  <2>1. IsFiniteSet(others)
    <3>1. others \in SUBSET DOMAIN fs
      OBVIOUS
    <3>. HIDE DEF others
    <3>. QED
      BY <3>1, FS_Subset DEF FilesInv
  <2>. HIDE DEF others
  <2>. QED
    BY <2>1, SeqOfSet
<1>3. /\ \A i \in 1 .. n : gone[i].op = "delete" /\ gone[i].path = SetToSeq(others)[i]
      /\ gone = [i \in 1 .. n |-> gone[i]]
  BY DEF DeleteOp
<1>4. /\ image.op = "write" /\ image.path = MediaFile(c, x)
      /\ image.kind = "blob" /\ image.file.bytes = req.bytes
      /\ entry.op = "write" /\ entry.path = MediaJson /\ entry.kind = "text"
      /\ entry.file.bytes = 1 /\ entry.file.data = new
  <2>. HIDE DEF new
  <2>. QED
    BY DEF WriteOp
<1>. HIDE DEF new, image, entry, gone, n
<1>5. /\ DOMAIN ops = 1 .. n + 2 /\ ops = [i \in 1 .. n + 2 |-> ops[i]]
      /\ \A i \in 1 .. n : ops[i] = gone[i]
      /\ ops[n + 1] = image /\ ops[n + 2] = entry
  <2>. QED
    BY <1>1, <1>2, <1>3, TwoMore
<1>. HIDE DEF others
<1>6. \A i \in 1 .. n + 2 : \/ i \in 1 .. n /\ ops[i].op = "delete" /\ ops[i].path \in others
                            \/ i = n + 1 /\ ops[i] = image
                            \/ i = n + 2 /\ ops[i] = entry
  <2>1. \A i \in 1 .. n : SetToSeq(others)[i] \in others
    BY <1>2
  <2>2. \A i \in 1 .. n : ops[i].op = "delete" /\ ops[i].path \in others
    BY <1>3, <1>5, <2>1
  <2>3. \A i \in 1 .. n + 2 : i \in 1 .. n \/ i = n + 1 \/ i = n + 2
    BY <1>2
  <2>. QED
    BY <1>5, <2>2, <2>3
<1>7. IsBatch(ops)
  <2>1. \A i \in 1 .. n + 2 : ops[i].op \in {"write", "delete"}
    BY <1>4, <1>6
  <2>. QED
    BY <1>2, <1>5, <2>1 DEF IsBatch
<1>8. Len(ops) = n + 2
  <2>1. Len(ops) \in Nat /\ 1 .. Len(ops) = 1 .. n + 2 /\ n + 2 \in Nat
    BY <1>2, <1>5, <1>7, BatchIsSeq
  <2>. QED
    BY <2>1, SameInterval
<1>9. Measured(ops)
  BY <1>4, <1>6, <1>8 DEF Measured
<1>10. \A p \in others : p # MediaFile(c, x) /\ p # MediaJson
  BY PathsDiffer DEF others
<1>11. MediaFile(c, x) # MediaJson
  BY PathsDiffer
<1>12. MediaFile(c, x) \in DOMAIN out
  <2>1. n + 1 \in 1 .. Len(ops) /\ MediaFile(c, x) = ops[n + 1].path /\ ops[n + 1].op = "write"
    BY <1>2, <1>4, <1>5, <1>8
  <2>2. \A j \in 1 .. Len(ops) : ops[j].path = MediaFile(c, x) => j = n + 1
    BY <1>4, <1>6, <1>8, <1>10, <1>11
  <2>. QED
    BY <1>7, <2>1, <2>2, OneDecides
<1>13. MediaJson \in DOMAIN out /\ out[MediaJson] = entry.file
  <2>1. n + 2 \in 1 .. Len(ops) /\ MediaJson = ops[n + 2].path /\ ops[n + 2].op = "write"
    BY <1>2, <1>4, <1>5, <1>8
  <2>2. \A j \in 1 .. Len(ops) : ops[j].path = MediaJson => j = n + 2
    BY <1>4, <1>6, <1>8, <1>10, <1>11
  <2>3. out[MediaJson] = ops[n + 2].file /\ MediaJson \in DOMAIN out
    BY <1>7, <2>1, <2>2, OneDecides
  <2>. QED
    BY <1>5, <2>3
<1>14. ASSUME NEW y \in Ext, y # x, MediaFile(c, y) \in DOMAIN out PROVE FALSE
  <2>1. MediaFile(c, y) # MediaFile(c, x) /\ MediaFile(c, y) # MediaJson
    BY <1>14, PathsDiffer
  <2>2. ~\E k \in 1 .. Len(ops) : ops[k].op = "write" /\ ops[k].path = MediaFile(c, y)
    BY <1>4, <1>6, <1>8, <2>1
  <2>3. MediaFile(c, y) \in DOMAIN fs /\ \A i \in 1 .. Len(ops) : ops[i].path # MediaFile(c, y)
    BY <1>7, <1>14, <2>2, WhereFilesComeFrom
  <2>4. MediaFile(c, y) \in others
    BY <1>14, <2>3 DEF others
  <2>5. PICK i \in 1 .. n : SetToSeq(others)[i] = MediaFile(c, y)
    BY <1>2, <2>4
  <2>6. i \in 1 .. Len(ops)
    BY <1>2, <1>8
  <2>7. ops[i].path = MediaFile(c, y)
    BY <1>3, <1>5, <2>5
  <2>. QED
    BY <2>3, <2>6, <2>7
<1>15. ASSUME NEW p, p # MediaJson, \A y : p # MediaFile(c, y)
       PROVE  /\ p \in DOMAIN out <=> p \in DOMAIN fs
              /\ p \in DOMAIN fs => out[p] = fs[p]
  <2>1. p \notin others
    BY <1>15 DEF others
  <2>2. \A i \in DOMAIN ops : ops[i].path # p
    BY <1>4, <1>5, <1>6, <1>15, <2>1
  <2>. QED
    BY <2>2, OthersAreLeft
<1>16. out[MediaJson].data = new
  BY <1>4, <1>13
<1>17. DOMAIN new = (IF index = Absent THEN {} ELSE DOMAIN index) \cup {c}
  BY DEF new
<1>18. \A k \in DOMAIN new : new[k] = IF k = c THEN x ELSE index[k]
  BY DEF new
<1>. QED
  BY <1>7, <1>9, <1>12, <1>13, <1>14, <1>15, <1>16, <1>17, <1>18

\* What a batch of a tool makes of the files is the files of a story again, whatever
\* files the tool's batch is made for.
LEMMA CreateKeepsFiles ==
  ASSUME NEW fs, FilesInv(fs), DOMAIN fs = {}, NEW slug, NEW ops, ops = CreateOps(slug),
         IsBatch(ops), Measured(ops), Legal(ops)
  PROVE  FilesInv(Outcome(fs, ops))
<1>. DEFINE out == Outcome(fs, ops)
<1>1. /\ IsFiniteSet(DOMAIN out) /\ DOMAIN out \subseteq Path
      /\ \A p \in DOMAIN out : WithinLimit(p, out[p].bytes)
  BY LegalOutcome
<1>2. /\ Len(ops) = 3
      /\ ops[1].path = StoryYaml /\ ops[2].path = MetaJson /\ ops[3].path = ContentFile(FirstChapter)
      /\ ops[1].op = "write"
  BY DEF CreateOps, WriteStory, WriteOp
<1>3. \A p \in DOMAIN out : p \in {StoryYaml, MetaJson, ContentFile(FirstChapter)}
  <2>1. TAKE p \in DOMAIN out
  <2>2. \E k \in 1 .. Len(ops) : ops[k].path = p
    BY WhereFilesComeFrom
  <2>3. 1 .. Len(ops) = {1, 2, 3}
    BY <1>2
  <2>. QED
    BY <1>2, <2>2, <2>3
<1>4. StoryYaml \in DOMAIN out
  <2>1. 1 \in 1 .. Len(ops) /\ \A j \in 1 .. Len(ops) : j \in {1, 2, 3}
    BY <1>2
  <2>2. \A j \in 1 .. Len(ops) : ops[j].path = StoryYaml => j = 1
    BY <1>2, <2>1, PathsDiffer
  <2>. QED
    BY <1>2, <2>1, <2>2, OneDecides
<1>5. MediaJson \notin DOMAIN out /\ \A c, x : ~HasImage(out, c, x)
  BY <1>3, PathsDiffer DEF HasImage
<1>. QED
  BY <1>1, <1>4, <1>5 DEF FilesInv, Content

\* A write of a text other than media.json changes no image and not the index.
LEMMA TextKeepsFiles ==
  ASSUME NEW fs, FilesInv(fs), NEW p, NEW bytes, NEW data, NEW ops,
         ops = <<WriteOp(p, "text", bytes, data)>>, Measured(ops), Legal(ops),
         p = StoryYaml \/ StoryYaml \in DOMAIN fs, p # MediaJson, \A c, x : p # MediaFile(c, x)
  PROVE  FilesInv(Outcome(fs, ops))
<1>. DEFINE out == Outcome(fs, ops)
<1>1. /\ IsBatch(ops) /\ DOMAIN out = DOMAIN fs \cup {p}
      /\ \A q \in DOMAIN fs : q # p => out[q] = fs[q]
  <2>1. WriteOp(p, "text", bytes, data).op = "write" /\ WriteOp(p, "text", bytes, data).path = p
    BY DEF WriteOp
  <2>2. IsBatch(ops) /\ Len(ops) = 1 /\ ops[1] = WriteOp(p, "text", bytes, data)
    BY <2>1, Single
  <2>3. p = ops[1].path /\ ops[1].op = "write"
    BY <2>1, <2>2
  <2>. HIDE DEF out
  <2>. QED
    BY <2>2, <2>3, OneWrite DEF out
<1>2. /\ IsFiniteSet(DOMAIN out) /\ DOMAIN out \subseteq Path
      /\ \A q \in DOMAIN out : WithinLimit(q, out[q].bytes)
  BY <1>1, LegalOutcome
<1>. HIDE DEF out
<1>3. StoryYaml \in DOMAIN out
  BY <1>1
<1>4. \A c, x : HasImage(out, c, x) <=> HasImage(fs, c, x)
  BY <1>1 DEF HasImage
<1>5. Content(out, MediaJson) = Content(fs, MediaJson)
  BY <1>1 DEF Content
<1>. QED
  BY <1>2, <1>3, <1>4, <1>5 DEF FilesInv, out

LEMMA ImageKeepsFiles ==
  ASSUME NEW fs, FilesInv(fs), NEW rev, NEW req, req.bytes \in Nat, req.bytes <= MaxImage,
         StoryYaml \in DOMAIN fs,
         NEW ops, ops = ImageOps(req, Listing(fs, rev).entries, Content(fs, MediaJson)), Legal(ops)
  PROVE  FilesInv(Outcome(fs, ops))
<1>. DEFINE index == Content(fs, MediaJson)
            x   == Resolve(req)
            c   == req.chapter
            out == Outcome(fs, ops)
            data == out[MediaJson].data
<1>1. /\ IsBatch(ops) /\ Measured(ops)
      /\ MediaFile(c, x) \in DOMAIN out /\ MediaJson \in DOMAIN out
      /\ DOMAIN data = (IF index = Absent THEN {} ELSE DOMAIN index) \cup {c}
      /\ \A k \in DOMAIN data : data[k] = IF k = c THEN x ELSE index[k]
      /\ \A y \in Ext : y # x => MediaFile(c, y) \notin DOMAIN out
      /\ \A p : p # MediaJson /\ (\A y : p # MediaFile(c, y)) =>
           /\ p \in DOMAIN out <=> p \in DOMAIN fs
           /\ p \in DOMAIN fs => out[p] = fs[p]
  BY ImageBatch
<1>2. /\ IsFiniteSet(DOMAIN out) /\ DOMAIN out \subseteq Path
      /\ \A p \in DOMAIN out : WithinLimit(p, out[p].bytes)
  BY <1>1, LegalOutcome
<1>. HIDE DEF out, c, x, index, data
<1>3. StoryYaml \in DOMAIN out
  BY <1>1, PathsDiffer
<1>4. \A y : HasImage(out, c, y) => y = x
  <2>1. SUFFICES ASSUME NEW y, MediaFile(c, y) \in DOMAIN out PROVE y = x
    BY DEF HasImage
  <2>2. MediaFile(c, y) \in Path
    BY <1>2, <2>1
  <2>3. y \in Ext
    BY <2>2, PathsDiffer DEF Path, TextPath, BlobPath
  <2>. QED
    BY <1>1, <2>1, <2>3
<1>5. \A d, y : d # c => (HasImage(out, d, y) <=> HasImage(fs, d, y))
  <2>1. TAKE d, y
  <2>2. HAVE d # c
  <2>3. MediaFile(d, y) # MediaJson /\ \A z : MediaFile(d, y) # MediaFile(c, z)
    BY <2>2, PathsDiffer
  <2>. QED
    BY <1>1, <2>3 DEF HasImage
<1>6. \A d, y, z : HasImage(out, d, y) /\ HasImage(out, d, z) => y = z
  BY <1>4, <1>5 DEF FilesInv
<1>7. \A d \in DOMAIN Content(out, MediaJson) : HasImage(out, d, Content(out, MediaJson)[d])
  <2>1. Content(out, MediaJson) = data
    BY <1>1 DEF Content, data
  <2>2. HasImage(out, c, x)
    BY <1>1 DEF HasImage
  <2>3. ASSUME NEW d \in DOMAIN data, d # c PROVE HasImage(out, d, data[d])
    <3>1. index # Absent /\ d \in DOMAIN index /\ data[d] = index[d]
      BY <1>1, <2>3
    <3>2. HasImage(fs, d, index[d])
      BY <3>1 DEF FilesInv, index
    <3>. QED
      BY <1>5, <2>3, <3>1, <3>2
  <2>. QED
    BY <1>1, <2>1, <2>2, <2>3
<1>. QED
  BY <1>2, <1>3, <1>6, <1>7 DEF FilesInv, out

LEMMA DeleteKeepsFiles ==
  ASSUME NEW fs, FilesInv(fs), NEW first \in FirstFiles(DOMAIN fs), NEW ops, ops = DeleteOps(first),
         Legal(ops)
  PROVE  FilesInv(Outcome(fs, ops))
<1>. DEFINE out == Outcome(fs, ops)
<1>1. /\ first \subseteq DOMAIN fs
      /\ StoryYaml \in first => first = DOMAIN fs
      /\ \A c, e : MediaFile(c, e) \in first /\ MediaJson \in DOMAIN fs => MediaJson \in first
  BY FirstFilesOrder DEF FilesInv
<1>2. IsFiniteSet(first)
  BY <1>1, FS_Subset DEF FilesInv
<1>3. /\ IsBatch(ops) /\ Measured(ops) /\ DOMAIN out = DOMAIN fs \ first
      /\ \A p \in DOMAIN fs \ first : out[p] = fs[p]
  BY <1>2, DeleteBatch
<1>4. /\ IsFiniteSet(DOMAIN out) /\ DOMAIN out \subseteq Path
      /\ \A p \in DOMAIN out : WithinLimit(p, out[p].bytes)
  BY <1>3, LegalOutcome
<1>. HIDE DEF out
<1>5. DOMAIN out # {} => StoryYaml \in DOMAIN out
  BY <1>1, <1>3 DEF FilesInv
<1>6. \A c, x, y : HasImage(out, c, x) /\ HasImage(out, c, y) => x = y
  BY <1>3 DEF FilesInv, HasImage
<1>7. ASSUME Content(out, MediaJson) # Absent, NEW c \in DOMAIN Content(out, MediaJson)
      PROVE  HasImage(out, c, Content(out, MediaJson)[c])
  <2>1. MediaJson \in DOMAIN fs \ first /\ Content(out, MediaJson) = Content(fs, MediaJson)
    BY <1>3, <1>7 DEF Content
  <2>. QED
    BY <1>1, <1>3, <1>7, <2>1 DEF FilesInv, HasImage
<1>. QED
  BY <1>4, <1>5, <1>6, <1>7 DEF FilesInv, out

LEMMA MadeForKeepsFiles ==
  ASSUME NEW fs, FilesInv(fs), NEW rev, NEW req, NEW ops, MadeFor(req, ops, fs, rev),
         IsBatch(ops), Measured(ops), Legal(ops),
         req.tool = "image" => req.bytes \in Nat /\ req.bytes <= MaxImage
  PROVE  FilesInv(Outcome(fs, ops))
<1>1. CASE req.tool = "create" /\ DOMAIN fs = {} /\ ops = CreateOps(req.slug)
  BY <1>1, CreateKeepsFiles
<1>2. CASE ops = <<WriteStory(req.story)>>
  <2>1. ops = <<WriteOp(StoryYaml, "text", req.story.bytes, req.story)>>
    BY <1>2 DEF WriteStory
  <2>. QED
    BY <2>1, PathsDiffer, TextKeepsFiles
<1>3. CASE /\ req.tool = "text" /\ StoryFits(req, fs)
           /\ ops = <<WriteOp(ContentFile(req.chapter), "text", req.bytes, req.bytes)>>
  BY <1>3, PathsDiffer, TextKeepsFiles DEF StoryFits
<1>4. CASE /\ req.tool = "image" /\ StoryFits(req, fs)
           /\ ops = ImageOps(req, Listing(fs, rev).entries, Content(fs, MediaJson))
  BY <1>4, ImageKeepsFiles DEF StoryFits
<1>5. CASE \E first \in FirstFiles(DOMAIN fs) : ops = DeleteOps(first)
  BY <1>5, DeleteKeepsFiles
<1>. QED
  BY <1>1, <1>2, <1>3, <1>4, <1>5 DEF MadeFor

-----------------------------------------------------------------------------
(* The inductive invariant                                                  *)

\* A listing is of the present revision or of an earlier one; one of the present
\* revision lists what there is, because no revision ever has two contents.
ListingInv(listing) ==
  /\ listing.revision \in Nat /\ listing.revision <= CommittedRevision
  /\ listing.revision = CommittedRevision => listing = Listing(CommittedFiles, CommittedRevision)

\* So with the story that was read,
StoryInv(k) ==
  /\ {"revision", "story"} \subseteq DOMAIN k
  /\ k.revision \in Nat /\ k.revision <= CommittedRevision
  /\ k.story # Absent
  /\ k.revision = CommittedRevision =>
       k.story = Content(CommittedFiles, StoryYaml) /\ StoryFits(k.req, CommittedFiles)

\* with the files read since the listing before them,
SeenInv(k) ==
  /\ {"seen", "todo"} \subseteq DOMAIN k
  /\ IsFcn(k.seen)
  /\ DOMAIN k.seen \cup k.todo = Needed(k.req.tool, k.story, k.before.entries)
  /\ k.before.revision = CommittedRevision =>
       \A p \in DOMAIN k.seen : k.seen[p] = Content(CommittedFiles, p)

\* and with the batch a call waits for: if it can still be carried out, it was made for
\* the files there are.
AskedInv(req, m) ==
  /\ Measured(m.ops)
  /\ IF req.tool = "structure" THEN m.ops = <<WriteStory(req.story)>>
     ELSE /\ m.expected \in Nat /\ m.expected <= CommittedRevision
          /\ m.expected = CommittedRevision => MadeFor(req, m.ops, CommittedFiles, CommittedRevision)

CallInv(c) ==
  LET k == call[c] IN
  /\ status[c] # "idle" => k.at = "mutate"
  /\ status[c] = "asked" => AskedInv(k.req, mutation[c])
  /\ k.at # "idle" => /\ {"at", "req"} \subseteq DOMAIN k
                      /\ k.req \in Request
                      /\ k.req.tool = "image" => k.req.bytes <= MaxImage
  /\ k.at \in {"story.yaml", "listed again"} => k.req.tool \in {"text", "image"} \cup Reader
  /\ k.at \in {"extra", "files"} => k.req.tool \in {"image"} \cup Reader /\ StoryInv(k)
  /\ k.at = "mutate" => k.req.tool \in Writer
  /\ k.at \in {"story.yaml", "listed again", "files"} => "before" \in DOMAIN k /\ ListingInv(k.before)
  /\ k.at = "listed again" =>
       /\ "story" \in DOMAIN k
       /\ k.before.revision = CommittedRevision => k.story = Content(CommittedFiles, StoryYaml)
  /\ k.at = "files" => SeenInv(k)

AuthoringInv ==
  /\ StoreInv
  /\ tx # NoTx => Legal(mutation[tx.owner].ops)
  /\ FilesInv(CommittedFiles)
  /\ IsFcn(call) /\ DOMAIN call = Client
  /\ IsFcn(reply) /\ DOMAIN reply = Client
  /\ \A c \in Client : CallInv(c)

-----------------------------------------------------------------------------
(* What goes on beside a call                                               *)

\* A call that takes no step keeps what it knows: while the files change the revision
\* does, and what was read is then of an earlier one.
Stays(c) ==
  /\ call'[c] = call[c] /\ mutation'[c] = mutation[c]
  /\ status'[c] # "idle" => status[c] # "idle"
  /\ status'[c] = "asked" => status[c] = "asked"

Unchanged == CommittedFiles' = CommittedFiles /\ CommittedRevision' = CommittedRevision
Moved     == CommittedRevision \in Nat /\ CommittedRevision' = CommittedRevision + 1

LEMMA StaysUnchanged ==
  ASSUME NEW c, CallInv(c), Stays(c), Unchanged
  PROVE  CallInv(c)'
  BY DEF CallInv, Stays, Unchanged, ListingInv, StoryInv, SeenInv, AskedInv

LEMMA StaysMoved ==
  ASSUME NEW c, CallInv(c), Stays(c), Moved
  PROVE  CallInv(c)'
<1>1. \A r \in Nat : r <= CommittedRevision => r <= CommittedRevision' /\ r # CommittedRevision'
  BY DEF Moved
<1>. QED
  BY <1>1 DEF CallInv, Stays, ListingInv, StoryInv, SeenInv, AskedInv

LEMMA CommittedIsKnown ==
  ASSUME StoreInv
  PROVE  /\ CommittedRevision \in Nat
         /\ tx = NoTx => CommittedFiles = files /\ CommittedRevision = revision
  BY DEF StoreInv, TxInv, CommittedRevision, CommittedFiles

\* A batch that lands leaves the files of a story.
LEMMA LandKeepsFiles ==
  ASSUME AuthoringInv, NEW c \in Client, tx # NoTx, tx.owner = c, Atomic!Land(c)
  PROVE  FilesInv(CommittedFiles)'
<1>. DEFINE req == call[c].req
            ops == mutation[c].ops
<1>1. /\ status[c] = "asked" /\ mutation[c].expected = CommittedRevision
      /\ CommittedFiles' = Outcome(CommittedFiles, ops)
  BY DEF Atomic!Land
<1>2. /\ FilesInv(CommittedFiles) /\ Legal(ops) /\ IsBatch(ops)
      /\ CallInv(c)
  BY DEF AuthoringInv, StoreInv
<1>3. /\ Measured(ops) /\ req \in Request
      /\ req.tool = "image" => req.bytes \in Nat /\ req.bytes <= MaxImage
  BY <1>1, <1>2, RequestAssumption DEF CallInv, AskedInv
<1>4. MadeFor(req, ops, CommittedFiles, CommittedRevision)
  BY <1>1, <1>2 DEF CallInv, AskedInv, MadeFor
<1>. HIDE DEF req, ops
<1>5. FilesInv(Outcome(CommittedFiles, ops))
  BY <1>2, <1>3, <1>4, MadeForKeepsFiles
<1>. QED
  BY <1>1, <1>5 DEF FilesInv, HasImage, Content

LEMMA StoreStepKeeps ==
  ASSUME AuthoringInv, StoreStep, UNCHANGED <<call, reply>>
  PROVE  AuthoringInv'
<1>1. Implemented
  BY StepImplements DEF AuthoringInv, StoreNext
<1>2. ASSUME NEW c \in Client PROVE Stays(c)
  BY DEF StoreStep, PutFile, PutRevision, Commit, Abort, Begin, Stays, AuthoringInv, StoreInv, TxInv
<1>3. Unchanged \/ Moved
  BY <1>1, CommittedIsKnown DEF AuthoringInv, Implemented, Unchanged, Moved, Atomic!Land
<1>4. \A c \in Client : CallInv(c)'
  BY <1>2, <1>3, StaysUnchanged, StaysMoved DEF AuthoringInv
<1>5. (tx # NoTx => Legal(mutation[tx.owner].ops))'
  <2>1. CASE PutFile \/ PutRevision \/ Commit \/ Abort
    <3>1. mutation' = mutation /\ (tx' = NoTx \/ (tx # NoTx /\ tx'.owner = tx.owner))
      BY <2>1 DEF PutFile, PutRevision, Commit, Abort, AuthoringInv, StoreInv, TxInv
    <3>. QED
      BY <3>1 DEF AuthoringInv, Legal
  <2>2. ASSUME NEW c \in Client, Begin(c) PROVE (tx # NoTx => Legal(mutation[tx.owner].ops))'
    <3>1. CASE PlanError(files, revision, mutation[c]) = "none"
      <4>1. IsBatch(mutation[c].ops) /\ Measured(mutation[c].ops)
        BY <2>2 DEF Begin, AuthoringInv, StoreInv, CallInv, AskedInv
      <4>2. Legal(mutation[c].ops)
        BY <3>1, <4>1, PlanIsLegal
      <4>3. mutation' = mutation /\ tx'.owner = c
        BY <2>2, <3>1 DEF Begin
      <4>. QED
        BY <4>2, <4>3 DEF Legal
    <3>2. CASE PlanError(files, revision, mutation[c]) # "none"
      BY <2>2, <3>2 DEF Begin
    <3>. QED
      BY <3>1, <3>2
  <2>. QED
    BY <2>1, <2>2 DEF StoreStep
<1>6. FilesInv(CommittedFiles)'
  <2>1. CASE CommittedFiles' = CommittedFiles
    BY <2>1 DEF AuthoringInv, FilesInv, HasImage, Content
  <2>2. CASE Commit /\ Atomic!Land(tx.owner)
    <3>1. tx # NoTx /\ tx.owner \in Client
      BY <2>2 DEF Commit, AuthoringInv, StoreInv, TxInv
    <3>2. PICK c \in Client : c = tx.owner
      BY <3>1
    <3>. QED
      BY <2>2, <3>1, <3>2, LandKeepsFiles
  <2>. QED
    BY <1>1, <2>1, <2>2 DEF Implemented
<1>. QED
  BY <1>1, <1>4, <1>5, <1>6 DEF AuthoringInv, Implemented, IsFcn

-----------------------------------------------------------------------------
(* What a step of a call comes to                                           *)

\* The other calls keep what they know.
LEMMA OneCallMoves ==
  ASSUME AuthoringInv, NEW c \in Client, NEW k, NEW r,
         call' = [call EXCEPT ![c] = k], reply' = [reply EXCEPT ![c] = r],
         UNCHANGED <<files, revision, tx>>, StoreInv',
         \A d \in Client \ {c} : mutation'[d] = mutation[d] /\ status'[d] = status[d],
         tx # NoTx => mutation'[tx.owner] = mutation[tx.owner],
         CallInv(c)'
  PROVE  AuthoringInv'
<1>1. Unchanged
  BY DEF Unchanged, CommittedFiles, CommittedRevision
<1>2. ASSUME NEW d \in Client \ {c} PROVE CallInv(d)'
  <2>1. Stays(d)
    BY DEF Stays, AuthoringInv, IsFcn
  <2>. QED
    BY <1>1, <2>1, StaysUnchanged DEF AuthoringInv
<1>3. FilesInv(CommittedFiles)'
  BY <1>1 DEF AuthoringInv, Unchanged, FilesInv, HasImage, Content
<1>4. (tx # NoTx => Legal(mutation[tx.owner].ops))'
  BY DEF AuthoringInv, Legal
<1>. QED
  BY <1>2, <1>3, <1>4 DEF AuthoringInv, IsFcn

\* What is in the record of a call that goes on.
LEMMA Proceeded ==
  ASSUME AuthoringInv, NEW c \in Client, NEW fields, Proceed(c, fields)
  PROVE  /\ DOMAIN call'[c] = DOMAIN call[c] \cup DOMAIN fields
         /\ \A x \in DOMAIN fields : call'[c][x] = fields[x]
         /\ \A x \in DOMAIN call[c] \ DOMAIN fields : call'[c][x] = call[c][x]
<1>1. call'[c] = With(call[c], fields)
  BY DEF AuthoringInv, Proceed
<1>. QED
  BY <1>1 DEF With

LEMMA ProceedKeeps ==
  ASSUME AuthoringInv, NEW c \in Client, NEW fields, Proceed(c, fields),
         UNCHANGED <<reply, storeVars>>, CallInv(c)'
  PROVE  AuthoringInv'
<1>1. call' = [call EXCEPT ![c] = With(call[c], fields)] /\ reply' = [reply EXCEPT ![c] = reply[c]]
  BY DEF AuthoringInv, Proceed, IsFcn
<1>2. UNCHANGED <<files, revision, tx, status, mutation>> /\ StoreInv'
  BY StutterImplements DEF AuthoringInv, storeVars, Implemented
<1>. QED
  BY <1>1, <1>2, OneCallMoves

\* A call that is answered knows nothing more.
LEMMA IdleIsFine ==
  ASSUME NEW c, call[c]' = Idle, status'[c] = "idle"
  PROVE  CallInv(c)'
  BY DEF CallInv, Idle

LEMMA FinishKeeps ==
  ASSUME AuthoringInv, NEW c \in Client, NEW result, NEW answer, Finish(c, result, answer),
         UNCHANGED storeVars, ~At(c, "mutate")
  PROVE  AuthoringInv'
<1>1. /\ call' = [call EXCEPT ![c] = Idle]
      /\ reply' = [reply EXCEPT ![c] = AnswerOf(call[c].req, result, answer)]
  BY DEF Finish
<1>2. UNCHANGED <<files, revision, tx, status, mutation>> /\ StoreInv'
  BY StutterImplements DEF AuthoringInv, storeVars, Implemented
<1>3. status'[c] = "idle"
  BY <1>2 DEF AuthoringInv, CallInv, At
<1>4. CallInv(c)'
  BY <1>1, <1>3, IdleIsFine DEF AuthoringInv
<1>. QED
  BY <1>1, <1>2, <1>4, OneCallMoves

LEMMA FailKeeps ==
  ASSUME AuthoringInv, NEW c \in Client, NEW error, Fail(c, error), ~At(c, "mutate")
  PROVE  AuthoringInv'
  BY FinishKeeps DEF Fail

\* A batch that is made for the files there are may be asked for.
LEMMA SubmitKeeps ==
  ASSUME AuthoringInv, NEW c \in Client, NEW expected, NEW ops, Submit(c, expected, ops),
         ~At(c, "idle"), ~At(c, "mutate"), call[c].req.tool \in Writer,
         IsBatch(ops), AskedInv(call[c].req, [expected |-> expected, ops |-> ops])
  PROVE  AuthoringInv'
<1>. DEFINE m == [expected |-> expected, ops |-> ops]
            k == [at |-> "mutate", req |-> call[c].req]
<1>1. /\ Mutate(c, m) /\ IsBatch(m.ops)
      /\ call' = [call EXCEPT ![c] = k] /\ reply' = [reply EXCEPT ![c] = reply[c]]
  BY DEF Submit, AuthoringInv, IsFcn
<1>2. /\ UNCHANGED <<files, revision, tx>> /\ status' = [status EXCEPT ![c] = "asked"]
      /\ mutation' = [mutation EXCEPT ![c] = m] /\ status[c] = "idle"
  BY <1>1 DEF Mutate
<1>3. StoreInv'
  BY <1>1, MutateImplements DEF AuthoringInv, Implemented
<1>4. tx # NoTx => tx.owner # c
  BY <1>2 DEF AuthoringInv, StoreInv, TxInv
<1>5. call'[c] = k /\ mutation'[c] = m
  BY <1>1, <1>2 DEF AuthoringInv, StoreInv
<1>6. CallInv(c)'
  <2>1. /\ call'[c].at = "mutate" /\ call'[c].req = call[c].req /\ DOMAIN call'[c] = {"at", "req"}
        /\ mutation'[c] = m /\ CommittedFiles' = CommittedFiles /\ CommittedRevision' = CommittedRevision
    BY <1>2, <1>5 DEF CommittedFiles, CommittedRevision
  <2>2. /\ call[c].req \in Request
        /\ call[c].req.tool = "image" => call[c].req.bytes <= MaxImage
    BY DEF AuthoringInv, CallInv, At
  <2>3. AskedInv(call[c].req, mutation[c])'
    <3>. HIDE DEF m
    <3>1. AskedInv(call[c].req, m)
      BY DEF m
    <3>. QED
      BY <2>1, <3>1 DEF AskedInv
  <2>. HIDE DEF k, m
  <2>. QED
    BY <2>1, <2>2, <2>3 DEF CallInv
<1>7. /\ \A d \in Client \ {c} : mutation'[d] = mutation[d] /\ status'[d] = status[d]
      /\ tx # NoTx => mutation'[tx.owner] = mutation[tx.owner]
  BY <1>2, <1>4 DEF AuthoringInv, StoreInv, TxInv
<1>. HIDE DEF k, m
<1>. QED
  BY <1>1, <1>2, <1>3, <1>6, <1>7, OneCallMoves

-----------------------------------------------------------------------------
(* The steps of a call                                                      *)

\* set_page_image takes no image that is too large.
LEMMA ImageWithinLimit ==
  ASSUME NEW req \in Request, req.tool = "image", ImageFault(req) = "none"
  PROVE  req.bytes <= MaxImage
<1>. DEFINE large  == TooLarge(req.bytes)
            checks == << <<TooLong(req.bytes), "image-too-large">>,
                         <<~req.decodes, "invalid-base64">>,
                         <<req.bytes = 0, "empty-image">>,
                         <<large, "image-too-large">>,
                         <<req.mime # "absent" /\ ExtOf(req.mime) = "none", "unsupported-mime-type">>,
                         <<Resolve(req) = "none", "invalid-image">> >>
<1>1. FirstFault(checks) = "none"
  BY DEF ImageFault
<1>2. DOMAIN checks = 1 .. 6 /\ \A i \in 1 .. 6 : checks[i][2] # "none"
  OBVIOUS
<1>3. large \in BOOLEAN
  BY DEF TooLarge
<1>. HIDE DEF large
<1>4. checks[4][1] = large
  OBVIOUS
<1>. HIDE DEF checks
<1>5. \A i \in 1 .. 6 : ~checks[i][1]
  BY <1>1, <1>2, 6 \in Nat, NoFault, Zenon
<1>6. ~large
  BY <1>3, <1>4, <1>5
<1>. QED
  BY <1>6, RequestAssumption DEF large, TooLarge

LEMMA StartKeeps ==
  ASSUME AuthoringInv, NEW c \in Client, NEW req \in Request, NEW expected,
         req.tool = "image" => req.bytes <= MaxImage, Start(c, req, expected)
  PROVE  AuthoringInv'
<1>. DEFINE k == [at |-> "list", req |-> req, expected |-> expected, round |-> 1, tries |-> 1]
<1>1. /\ call' = [call EXCEPT ![c] = k] /\ reply' = [reply EXCEPT ![c] = <<>>] /\ At(c, "idle")
  BY DEF Start
<1>2. UNCHANGED <<files, revision, tx, status, mutation>> /\ StoreInv'
  BY StutterImplements DEF Start, AuthoringInv, storeVars, Implemented
<1>3. CallInv(c)'
  <2>1. status'[c] = "idle"
    BY <1>1, <1>2 DEF AuthoringInv, CallInv, At
  <2>2. call'[c] = k
    BY <1>1 DEF AuthoringInv
  <2>. QED
    BY <2>1, <2>2 DEF CallInv
<1>. HIDE DEF k
<1>. QED
  BY <1>1, <1>2, <1>3, OneCallMoves

LEMMA RejectKeeps ==
  ASSUME AuthoringInv, NEW c \in Client, NEW req, NEW fault, Reject(c, req, fault)
  PROVE  AuthoringInv'
<1>. DEFINE r == AnswerOf(req, Failure(req.tool, fault), <<>>)
<1>1. call' = [call EXCEPT ![c] = call[c]] /\ reply' = [reply EXCEPT ![c] = r]
  BY DEF Reject, AuthoringInv, IsFcn
<1>2. UNCHANGED <<files, revision, tx, status, mutation>> /\ StoreInv'
  BY StutterImplements DEF Reject, AuthoringInv, storeVars, Implemented
<1>3. CallInv(c)'
  <2>1. Stays(c) /\ Unchanged
    BY <1>1, <1>2 DEF Stays, Unchanged, AuthoringInv, CommittedFiles, CommittedRevision
  <2>. QED
    BY <2>1, StaysUnchanged DEF AuthoringInv
<1>. HIDE DEF r
<1>. QED
  BY <1>1, <1>2, <1>3, OneCallMoves

LEMMA CalledKeeps ==
  ASSUME AuthoringInv, NEW c \in Client,
         \/ CreateStory(c) \/ UpdateStoryStructure(c) \/ UpdatePageText(c) \/ SetPageImage(c)
         \/ InspectStory(c) \/ GetStoryReadiness(c) \/ LoadPreview(c) \/ DeleteStory(c)
  PROVE  AuthoringInv'
<1>1. ASSUME NEW req \in Request, NEW expected, NEW fault, StartUnless(fault, c, req, expected),
             req.tool = "image" /\ fault = "none" => req.bytes <= MaxImage
      PROVE  AuthoringInv'
  BY <1>1, StartKeeps, RejectKeeps DEF StartUnless
<1>2. CASE CreateStory(c)
  BY <1>1, <1>2 DEF CreateStory, Calls
<1>3. CASE UpdateStoryStructure(c)
  BY <1>1, <1>3 DEF UpdateStoryStructure, Calls
<1>4. CASE UpdatePageText(c)
  BY <1>1, <1>4 DEF UpdatePageText, Calls
<1>5. CASE SetPageImage(c)
  BY <1>1, <1>5, ImageWithinLimit DEF SetPageImage, Calls
<1>6. CASE InspectStory(c) \/ GetStoryReadiness(c) \/ LoadPreview(c) \/ DeleteStory(c)
  BY <1>6, StartKeeps DEF InspectStory, GetStoryReadiness, LoadPreview, DeleteStory, Calls
<1>. QED
  BY <1>2, <1>3, <1>4, <1>5, <1>6

\* The batches that need no story.
LEMMA StructureKeeps ==
  ASSUME AuthoringInv, NEW c \in Client, Structure(c)
  PROVE  AuthoringInv'
<1>. DEFINE req == call[c].req
            o == WriteStory(req.story)
            ops == <<o>>
<1>1. /\ At(c, "list") /\ req.tool = "structure" /\ req \in Request
      /\ Submit(c, call[c].expected, ops)
  BY DEF Structure, AuthoringInv, CallInv, At
<1>2. o.op = "write" /\ o.kind = "text" /\ o.file.bytes = req.story.bytes /\ req.story.bytes \in Nat
  BY <1>1, RequestAssumption DEF WriteStory, WriteOp
<1>3. IsBatch(ops) /\ Len(ops) = 1 /\ ops[1] = o
  <2>. HIDE DEF o
  <2>. QED
    BY <1>2, Single
<1>4. Measured(ops)
  BY <1>2, <1>3 DEF Measured
<1>5. AskedInv(req, [expected |-> call[c].expected, ops |-> ops])
  BY <1>1, <1>4 DEF AskedInv
<1>. HIDE DEF ops
<1>. QED
  BY <1>1, <1>3, <1>5, SubmitKeeps DEF At, Writer

LEMMA CreateKeeps ==
  ASSUME AuthoringInv, NEW c \in Client, Create(c)
  PROVE  AuthoringInv'
<1>. DEFINE req == call[c].req
            ops == CreateOps(req.slug)
<1>1. At(c, "list") /\ req.tool = "create" /\ tx = NoTx
  BY DEF Create, Readable
<1>2. CASE Fail(c, "workspace-not-empty")
  BY <1>1, <1>2, FailKeeps DEF At
<1>3. CASE DOMAIN files = {} /\ Submit(c, revision, ops)
  <2>1. /\ CommittedFiles = files /\ CommittedRevision = revision /\ revision \in Nat
    BY <1>1, CommittedIsKnown DEF AuthoringInv
  <2>2. /\ DOMAIN ops = 1 .. 3 /\ ops = [i \in 1 .. 3 |-> ops[i]] /\ Len(ops) = 3
        /\ \A i \in 1 .. 3 : ops[i].op = "write" /\ ops[i].kind = "text" /\ ops[i].file.bytes = 1
    BY DEF CreateOps, WriteStory, WriteOp
  <2>3. IsBatch(ops) /\ Measured(ops)
    <3>. HIDE DEF ops
    <3>1. IsBatch(ops)
      BY <2>2, 3 \in Nat DEF IsBatch
    <3>. QED
      BY <2>2, <3>1 DEF Measured
  <2>4. AskedInv(req, [expected |-> revision, ops |-> ops])
    <3>1. MadeFor(req, ops, CommittedFiles, CommittedRevision)
      BY <1>1, <1>3, <2>1 DEF MadeFor
    <3>. HIDE DEF ops
    <3>. QED
      BY <1>1, <2>1, <2>3, <3>1 DEF AskedInv
  <2>. HIDE DEF ops
  <2>. QED
    BY <1>1, <1>3, <2>3, <2>4, SubmitKeeps DEF At, Writer
<1>. QED
  BY <1>2, <1>3 DEF Create

LEMMA DeleteKeeps ==
  ASSUME AuthoringInv, NEW c \in Client, Delete(c)
  PROVE  AuthoringInv'
<1>. DEFINE req == call[c].req
<1>1. At(c, "list") /\ req.tool = "delete" /\ tx = NoTx
  BY DEF Delete, Readable
<1>2. CASE Finish(c, "ok", <<>>) /\ UNCHANGED storeVars
  BY <1>1, <1>2, FinishKeeps DEF At
<1>3. ASSUME NEW first \in FirstFiles(Listed(Look)), Submit(c, revision, DeleteOps(first))
      PROVE  AuthoringInv'
  <2>1. /\ CommittedFiles = files /\ CommittedRevision = revision /\ revision \in Nat
        /\ FilesInv(files) /\ Listed(Look) = DOMAIN files
    BY <1>1, CommittedIsKnown, ListedIsDomain DEF AuthoringInv, Look
  <2>2. IsFiniteSet(first)
    <3>1. first \in SUBSET (DOMAIN files)
      BY <2>1 DEF FirstFiles
    <3>. QED
      BY <2>1, <3>1, FS_Subset DEF FilesInv
  <2>3. IsBatch(DeleteOps(first)) /\ Measured(DeleteOps(first))
    BY <2>2, DeleteBatch
  <2>4. AskedInv(req, [expected |-> revision, ops |-> DeleteOps(first)])
    BY <1>1, <1>3, <2>1, <2>3 DEF AskedInv, MadeFor
  <2>. QED
    BY <1>1, <1>3, <2>3, <2>4, SubmitKeeps DEF At, Writer
<1>. QED
  BY <1>2, <1>3 DEF Delete

\* A step that keeps the record of a call, or adds to it, keeps the request.
LEMMA RequestStays ==
  ASSUME AuthoringInv, NEW c \in Client, ~At(c, "idle"), NEW fields, Proceed(c, fields),
         "req" \notin DOMAIN fields
  PROVE  /\ call'[c].req = call[c].req
         /\ "req" \in DOMAIN call'[c]
         /\ call[c].req \in Request
         /\ call[c].req.tool = "image" => call[c].req.bytes <= MaxImage
  BY Proceeded DEF AuthoringInv, CallInv, At

LEMMA SameStore ==
  ASSUME UNCHANGED storeVars
  PROVE  CommittedFiles' = CommittedFiles /\ CommittedRevision' = CommittedRevision
         /\ status' = status /\ mutation' = mutation
  BY DEF storeVars, CommittedFiles, CommittedRevision

\* What is listed now is of the present revision.
LEMMA LookIsCurrent ==
  ASSUME StoreInv, Readable
  PROVE  /\ ListingInv(Look) /\ Look = Listing(CommittedFiles, CommittedRevision)
         /\ Look.revision = revision
         /\ CommittedFiles = files /\ CommittedRevision = revision /\ revision \in Nat
<1>1. CommittedFiles = files /\ CommittedRevision = revision /\ revision \in Nat
  BY CommittedIsKnown DEF Readable
<1>2. Look.revision = revision
  BY DEF Look, Listing
<1>. QED
  BY <1>1, <1>2 DEF ListingInv, Look

LEMMA ListKeeps ==
  ASSUME AuthoringInv, NEW c \in Client, List(c)
  PROVE  AuthoringInv'
<1>. DEFINE fields == [at |-> "story.yaml", before |-> Look]
<1>1. /\ At(c, "list") /\ call[c].req.tool \in {"text", "image"} \cup Reader /\ Readable
      /\ Proceed(c, fields) /\ UNCHANGED <<reply, storeVars>>
  BY DEF List
<1>2. /\ "before" \in DOMAIN call'[c] /\ "at" \in DOMAIN call'[c]
      /\ call'[c].before = Look /\ call'[c].at = "story.yaml"
  BY <1>1, Proceeded
<1>3. /\ call'[c].req = call[c].req /\ "req" \in DOMAIN call'[c] /\ call[c].req \in Request
      /\ call[c].req.tool = "image" => call[c].req.bytes <= MaxImage
  BY <1>1, RequestStays DEF At
<1>4. ListingInv(Look)
  BY <1>1, LookIsCurrent DEF AuthoringInv
<1>5. CommittedFiles' = CommittedFiles /\ CommittedRevision' = CommittedRevision
      /\ status' = status
  BY <1>1, SameStore
<1>6. ListingInv(call[c].before)'
  BY <1>2, <1>4, <1>5 DEF ListingInv
<1>7. status[c] = "idle"
  BY <1>1 DEF AuthoringInv, CallInv, At
<1>8. CallInv(c)'
  BY <1>1, <1>2, <1>3, <1>5, <1>6, <1>7 DEF CallInv
<1>. HIDE DEF fields
<1>. QED
  BY <1>1, <1>8, ProceedKeeps

LEMMA ReadStoryYamlKeeps ==
  ASSUME AuthoringInv, NEW c \in Client, ReadStoryYaml(c)
  PROVE  AuthoringInv'
<1>. DEFINE fields == [at |-> "listed again", story |-> Content(files, StoryYaml)]
<1>1. /\ At(c, "story.yaml") /\ Readable /\ Proceed(c, fields) /\ UNCHANGED <<reply, storeVars>>
  BY DEF ReadStoryYaml
<1>2. /\ {"before", "story", "at"} \subseteq DOMAIN call'[c]
      /\ call'[c].before = call[c].before /\ call'[c].at = "listed again"
      /\ call'[c].story = Content(files, StoryYaml)
  <2>1. "before" \in DOMAIN call[c]
    BY <1>1 DEF AuthoringInv, CallInv, At
  <2>2. /\ DOMAIN fields = {"at", "story"}
        /\ fields["at"] = "listed again" /\ fields["story"] = Content(files, StoryYaml)
    OBVIOUS
  <2>. HIDE DEF fields
  <2>. QED
    BY <1>1, <2>1, <2>2, Proceeded
<1>3. /\ call'[c].req = call[c].req /\ "req" \in DOMAIN call'[c] /\ call[c].req \in Request
      /\ call[c].req.tool = "image" => call[c].req.bytes <= MaxImage
  BY <1>1, RequestStays DEF At
<1>4. CommittedFiles' = CommittedFiles /\ CommittedRevision' = CommittedRevision /\ status' = status
      /\ CommittedFiles = files
  BY <1>1, SameStore, LookIsCurrent DEF AuthoringInv
<1>5. /\ call[c].req.tool \in {"text", "image"} \cup Reader /\ ListingInv(call[c].before)
      /\ status[c] = "idle"
  BY <1>1 DEF AuthoringInv, CallInv, At
<1>6. ListingInv(call[c].before)'
  BY <1>2, <1>4, <1>5 DEF ListingInv
<1>7. CallInv(c)'
  BY <1>2, <1>3, <1>4, <1>5, <1>6 DEF CallInv
<1>. HIDE DEF fields
<1>. QED
  BY <1>1, <1>7, ProceedKeeps

\* Another attempt knows nothing of the last one.
LEMMA AttemptKeeps ==
  ASSUME AuthoringInv, NEW c \in Client, ~At(c, "idle"), ~At(c, "mutate"), NEW fields,
         Proceed(c, fields), UNCHANGED <<reply, storeVars>>,
         "req" \notin DOMAIN fields, "at" \in DOMAIN fields, fields["at"] = "list"
  PROVE  AuthoringInv'
<1>1. "at" \in DOMAIN call'[c] /\ call'[c].at = "list"
  BY Proceeded
<1>2. /\ call'[c].req = call[c].req /\ "req" \in DOMAIN call'[c] /\ call[c].req \in Request
      /\ call[c].req.tool = "image" => call[c].req.bytes <= MaxImage
  BY RequestStays
<1>3. status'[c] = "idle"
  BY SameStore DEF AuthoringInv, CallInv, At
<1>4. CallInv(c)'
  BY <1>1, <1>2, <1>3 DEF CallInv
<1>. QED
  BY <1>4, ProceedKeeps

LEMMA AgainKeeps ==
  ASSUME AuthoringInv, NEW c \in Client, ~At(c, "idle"), ~At(c, "mutate"), Again(c)
  PROVE  AuthoringInv'
<1>. DEFINE fields == [at |-> "list", tries |-> call[c].tries + 1]
<1>1. CASE Proceed(c, fields) /\ UNCHANGED <<reply, storeVars>>
  <2>1. "req" \notin DOMAIN fields /\ "at" \in DOMAIN fields /\ fields["at"] = "list"
    OBVIOUS
  <2>. HIDE DEF fields
  <2>. QED
    BY <1>1, <2>1, AttemptKeeps
<1>2. CASE Fail(c, "workspace-busy")
  BY <1>2, FailKeeps
<1>. QED
  BY <1>1, <1>2 DEF Again

LEMMA NextRoundKeeps ==
  ASSUME AuthoringInv, NEW c \in Client, ~At(c, "idle"), ~At(c, "mutate"), NextRound(c)
  PROVE  AuthoringInv'
<1>. DEFINE fields == [at |-> "list", tries |-> 1, round |-> call[c].round + 1]
<1>1. CASE Proceed(c, fields) /\ UNCHANGED <<reply, storeVars>>
  <2>1. "req" \notin DOMAIN fields /\ "at" \in DOMAIN fields /\ fields["at"] = "list"
    OBVIOUS
  <2>. HIDE DEF fields
  <2>. QED
    BY <1>1, <2>1, AttemptKeeps
<1>2. CASE Fail(c, "workspace-busy")
  BY <1>2, FailKeeps
<1>. QED
  BY <1>1, <1>2 DEF NextRound

LEMMA TextFits ==
  ASSUME NEW k, TextStoryFault(k) = "none"
  PROVE  k.expected = revision /\ k.req.chapter \in k.story.chapters
<1>. DEFINE stale == k.expected # revision
            unknown == k.req.chapter \notin k.story.chapters
            checks == << <<stale, "mutation-rejected">>, <<unknown, "chapter-not-found">> >>
<1>1. FirstFault(checks) = "none" /\ stale \in BOOLEAN /\ unknown \in BOOLEAN
  BY DEF TextStoryFault
<1>2. ~stale /\ ~unknown
  <2>. HIDE DEF stale, unknown
  <2>. QED
    BY <1>1, NoneOfTwo
<1>. QED
  BY <1>2

LEMMA ImageFits ==
  ASSUME NEW k, ImageStoryFault(k) = "none"
  PROVE  k.story.slug = k.req.slug /\ k.req.chapter \in k.story.chapters
<1>. DEFINE other == k.story.slug # k.req.slug
            stale == k.expected # revision
            unknown == k.req.chapter \notin k.story.chapters
            checks == << <<other, "story-mismatch">>, <<stale, "mutation-rejected">>,
                         <<unknown, "chapter-not-found">> >>
<1>1. FirstFault(checks) = "none" /\ {other, stale, unknown} \subseteq BOOLEAN
  BY DEF ImageStoryFault
<1>2. ~other /\ ~stale /\ ~unknown
  <2>. HIDE DEF other, stale, unknown
  <2>. QED
    BY <1>1, NoneOfThree
<1>. QED
  BY <1>2

\* The story that readStory() hands over is the one there is.
LEMMA StoryIsRead ==
  ASSUME AuthoringInv, NEW c \in Client, At(c, "listed again"), Readable,
         SnapshotsMatch(call[c].before, Look), call[c].story # Absent
  PROVE  /\ StoryYaml \in DOMAIN CommittedFiles
         /\ call[c].story = CommittedFiles[StoryYaml].data
         /\ call[c].story = Content(CommittedFiles, StoryYaml)
<1>1. call[c].before.revision = CommittedRevision
  BY LookIsCurrent DEF SnapshotsMatch, AuthoringInv
<1>2. call[c].story = Content(CommittedFiles, StoryYaml)
  BY <1>1 DEF AuthoringInv, CallInv, At
<1>. QED
  BY <1>2 DEF Content

LEMMA WriteBatch ==
  ASSUME NEW p, NEW bytes \in Nat, NEW data, NEW ops, ops = <<WriteOp(p, "text", bytes, data)>>
  PROVE  IsBatch(ops) /\ Measured(ops)
<1>1. PICK o : o = WriteOp(p, "text", bytes, data)
  OBVIOUS
<1>2. o.op = "write" /\ o.kind = "text" /\ o.file.bytes \in Nat
  BY <1>1 DEF WriteOp
<1>3. ops = <<o>>
  BY <1>1
<1>4. IsBatch(ops) /\ Len(ops) = 1 /\ ops[1] = o
  BY <1>2, <1>3, Single
<1>5. \A i \in 1 .. Len(ops) : ops[i] = o
  BY <1>4
<1>. QED
  BY <1>2, <1>4, <1>5 DEF Measured

LEMMA AskedNow ==
  ASSUME StoreInv, Readable, NEW req, req.tool # "structure", NEW ops, Measured(ops),
         MadeFor(req, ops, CommittedFiles, CommittedRevision)
  PROVE  AskedInv(req, [expected |-> CommittedRevision, ops |-> ops])
<1>1. CommittedRevision \in Nat
  BY CommittedIsKnown
<1>. QED
  BY <1>1 DEF AskedInv

LEMMA UseTextKeeps ==
  ASSUME AuthoringInv, NEW c \in Client, At(c, "listed again"), Readable,
         SnapshotsMatch(call[c].before, Look), call[c].story # Absent,
         call[c].req.tool = "text", TextStoryFault(call[c]) = "none",
         NEW ops,
         ops = <<WriteOp(ContentFile(call[c].req.chapter), "text", call[c].req.bytes, call[c].req.bytes)>>,
         Submit(c, call[c].expected, ops)
  PROVE  AuthoringInv'
<1>1. /\ StoryYaml \in DOMAIN CommittedFiles /\ call[c].story = CommittedFiles[StoryYaml].data
      /\ call[c].expected = revision /\ call[c].req.chapter \in call[c].story.chapters
  BY StoryIsRead, TextFits
<1>2. /\ CommittedRevision = revision
      /\ call[c].req \in Request
  BY LookIsCurrent DEF AuthoringInv, CallInv, At
<1>3. PICK req : req = call[c].req
  OBVIOUS
<1>4. /\ StoryFits(req, CommittedFiles) /\ req.tool = "text"
      /\ ops = <<WriteOp(ContentFile(req.chapter), "text", req.bytes, req.bytes)>>
  BY <1>1, <1>3 DEF StoryFits
<1>5. MadeFor(req, ops, CommittedFiles, CommittedRevision)
  BY <1>4 DEF MadeFor
<1>6. IsBatch(ops) /\ Measured(ops)
  BY <1>2, <1>3, <1>4, RequestAssumption, WriteBatch
<1>7. AskedInv(req, [expected |-> CommittedRevision, ops |-> ops])
  BY <1>4, <1>5, <1>6, AskedNow DEF AuthoringInv
<1>8. AskedInv(call[c].req, [expected |-> call[c].expected, ops |-> ops])
  BY <1>1, <1>2, <1>3, <1>7
<1>. QED
  BY <1>6, <1>8, SubmitKeeps DEF At, Writer

\* What a call knows with its story stays so when it goes on with the same.
LEMMA StoryStays ==
  ASSUME NEW c, {"revision", "story"} \subseteq DOMAIN call'[c],
         call'[c].revision \in Nat, call'[c].revision <= CommittedRevision, call'[c].story # Absent,
         call'[c].revision = CommittedRevision =>
           call'[c].story = Content(CommittedFiles, StoryYaml) /\ StoryFits(call'[c].req, CommittedFiles),
         CommittedFiles' = CommittedFiles, CommittedRevision' = CommittedRevision
  PROVE  StoryInv(call[c])'
<1>1. StoryFits(call'[c].req, CommittedFiles) => StoryFits(call[c].req, CommittedFiles)'
  BY DEF StoryFits
<1>2. Content(CommittedFiles, StoryYaml)' = Content(CommittedFiles, StoryYaml)
  BY DEF Content
<1>. QED
  BY <1>1, <1>2 DEF StoryInv

LEMMA AtMostItself == \A n, a, b : n \in Nat /\ a = n /\ b = n => a \in Nat /\ a <= b
  OBVIOUS

LEMMA UseOtherKeeps ==
  ASSUME AuthoringInv, NEW c \in Client, At(c, "listed again"), Readable,
         SnapshotsMatch(call[c].before, Look), call[c].story # Absent,
         call[c].req.tool # "text",
         call[c].req.tool = "image" => ImageStoryFault(call[c]) = "none",
         NEW fields, fields = [at |-> "extra", revision |-> revision, tries |-> 1],
         Proceed(c, fields), UNCHANGED <<reply, storeVars>>
  PROVE  AuthoringInv'
<1>1. /\ StoryYaml \in DOMAIN CommittedFiles /\ call[c].story = CommittedFiles[StoryYaml].data
      /\ call[c].story = Content(CommittedFiles, StoryYaml)
  BY StoryIsRead
<1>2. /\ CommittedRevision = revision /\ revision \in Nat /\ call[c].req \in Request
      /\ call[c].req.tool \in {"text", "image"} \cup Reader /\ "story" \in DOMAIN call[c]
      /\ status[c] = "idle"
  BY LookIsCurrent DEF AuthoringInv, CallInv, At
<1>3. StoryFits(call[c].req, CommittedFiles)
  BY <1>1, ImageFits DEF StoryFits
<1>4. DOMAIN fields = {"at", "revision", "tries"} /\ fields["at"] = "extra" /\ fields["revision"] = revision
  OBVIOUS
<1>5. /\ DOMAIN call'[c] = DOMAIN call[c] \cup DOMAIN fields
      /\ \A x \in DOMAIN fields : call'[c][x] = fields[x]
      /\ \A x \in DOMAIN call[c] \ DOMAIN fields : call'[c][x] = call[c][x]
  BY Proceeded
<1>6. /\ {"story", "revision", "at"} \subseteq DOMAIN call'[c]
      /\ call'[c].story = call[c].story /\ call'[c].revision = revision /\ call'[c].at = "extra"
  BY <1>2, <1>4, <1>5
<1>7. /\ call'[c].req = call[c].req /\ "req" \in DOMAIN call'[c]
      /\ call[c].req.tool = "image" => call[c].req.bytes <= MaxImage
  BY <1>4, RequestStays DEF At
<1>8. CommittedFiles' = CommittedFiles /\ CommittedRevision' = CommittedRevision /\ status' = status
  BY SameStore
<1>9. StoryInv(call[c])'
  <2>1. call'[c].revision \in Nat /\ call'[c].revision <= CommittedRevision
    BY <1>2, <1>6, AtMostItself
  <2>2. call'[c].story # Absent /\ {"revision", "story"} \subseteq DOMAIN call'[c]
    BY <1>6
  <2>3. call'[c].story = Content(CommittedFiles, StoryYaml)
    BY <1>1, <1>6
  <2>4. StoryFits(call'[c].req, CommittedFiles)
    BY <1>3, <1>7
  <2>. QED
    BY <1>8, <2>1, <2>2, <2>3, <2>4, StoryStays
<1>10. CallInv(c)'
  BY <1>2, <1>6, <1>7, <1>8, <1>9 DEF CallInv
<1>. QED
  BY <1>10, ProceedKeeps

LEMMA ReadStoryKeeps ==
  ASSUME AuthoringInv, NEW c \in Client, ReadStory(c)
  PROVE  AuthoringInv'
<1>. DEFINE k == call[c]
<1>1. At(c, "listed again") /\ Readable
  BY DEF ReadStory
<1>2. CASE Again(c)
  BY <1>1, <1>2, AgainKeeps DEF At
<1>3. ASSUME NEW error, Fail(c, error) PROVE AuthoringInv'
  BY <1>1, <1>3, FailKeeps DEF At
<1>4. CASE SnapshotsMatch(k.before, Look) /\ k.story # Absent /\ UseStory(c)
  <2>1. CASE k.req.tool = "text"
    <3>1. \/ Fail(c, TextStoryFault(k))
          \/ TextStoryFault(k) = "none" /\
             Submit(c, k.expected, <<WriteOp(ContentFile(k.req.chapter), "text", k.req.bytes, k.req.bytes)>>)
      BY <1>4, <2>1 DEF UseStory
    <3>. QED
      BY <1>1, <1>3, <1>4, <2>1, <3>1, UseTextKeeps
  <2>2. CASE k.req.tool = "image" /\ ImageStoryFault(k) # "none"
    <3>1. Fail(c, ImageStoryFault(k))
      BY <1>4, <2>2 DEF UseStory
    <3>. QED
      BY <1>3, <3>1
  <2>3. CASE k.req.tool # "text" /\ ~(k.req.tool = "image" /\ ImageStoryFault(k) # "none")
    <3>1. /\ Proceed(c, [at |-> "extra", revision |-> revision, tries |-> 1])
          /\ UNCHANGED <<reply, storeVars>>
      BY <1>4, <2>3 DEF UseStory
    <3>. QED
      BY <1>1, <1>4, <2>3, <3>1, UseOtherKeeps
  <2>. QED
    BY <2>1, <2>2, <2>3
<1>. QED
  BY <1>2, <1>3, <1>4 DEF ReadStory

LEMMA ListExtraKeeps ==
  ASSUME AuthoringInv, NEW c \in Client, ListExtra(c)
  PROVE  AuthoringInv'
<1>. DEFINE todo   == Needed(call[c].req.tool, call[c].story, Look.entries)
            seen   == [p \in {} |-> {}]
            fields == [at |-> "files", before |-> Look, seen |-> seen, todo |-> todo]
<1>1. At(c, "extra") /\ Readable /\ Proceed(c, fields) /\ UNCHANGED <<reply, storeVars>>
  BY DEF ListExtra
<1>2. /\ DOMAIN fields = {"at", "before", "seen", "todo"} /\ fields["at"] = "files"
      /\ fields["before"] = Look /\ fields["seen"] = seen /\ fields["todo"] = todo
  OBVIOUS
<1>3. IsFcn(seen) /\ DOMAIN seen = {}
  BY DEF IsFcn
<1>. HIDE DEF fields, seen, todo
<1>4. /\ DOMAIN call'[c] = DOMAIN call[c] \cup DOMAIN fields
      /\ \A x \in DOMAIN fields : call'[c][x] = fields[x]
      /\ \A x \in DOMAIN call[c] \ DOMAIN fields : call'[c][x] = call[c][x]
  BY <1>1, Proceeded
<1>5. /\ call[c].req.tool \in {"image"} \cup Reader /\ status[c] = "idle"
      /\ StoryInv(call[c])
  BY <1>1 DEF AuthoringInv, CallInv, At
<1>6. /\ {"story", "revision", "at", "before", "seen", "todo"} \subseteq DOMAIN call'[c]
      /\ call'[c].story = call[c].story /\ call'[c].revision = call[c].revision
      /\ call'[c].at = "files" /\ call'[c].before = Look /\ call'[c].seen = seen /\ call'[c].todo = todo
  BY <1>2, <1>4, <1>5 DEF StoryInv
<1>7. /\ call'[c].req = call[c].req /\ "req" \in DOMAIN call'[c] /\ call[c].req \in Request
      /\ call[c].req.tool = "image" => call[c].req.bytes <= MaxImage
  BY <1>1, <1>2, RequestStays DEF At
<1>8. CommittedFiles' = CommittedFiles /\ CommittedRevision' = CommittedRevision /\ status' = status
  BY <1>1, SameStore
<1>9. StoryInv(call[c])'
  BY <1>5, <1>6, <1>7, <1>8, StoryStays DEF StoryInv
<1>10. ListingInv(call[c].before)'
  BY <1>1, <1>6, <1>8, LookIsCurrent DEF ListingInv, AuthoringInv
<1>11. SeenInv(call[c])'
  BY <1>3, <1>6, <1>7 DEF SeenInv, todo
<1>12. CallInv(c)'
  BY <1>5, <1>6, <1>7, <1>8, <1>9, <1>10, <1>11 DEF CallInv
<1>. QED
  BY <1>1, <1>12, ProceedKeeps

LEMMA ReadFileKeeps ==
  ASSUME AuthoringInv, NEW c \in Client, ReadFile(c)
  PROVE  AuthoringInv'
<1>. DEFINE p == NextFile(call[c].todo)
            old == call[c].seen
            seen == [q \in DOMAIN old \cup {p} |-> IF q = p THEN Content(files, p) ELSE old[q]]
            todo == call[c].todo \ {p}
            fields == [todo |-> todo, seen |-> seen]
<1>1. /\ At(c, "files") /\ call[c].todo # {} /\ Readable
      /\ Proceed(c, fields) /\ UNCHANGED <<reply, storeVars>>
  BY DEF ReadFile
<1>2. DOMAIN fields = {"todo", "seen"} /\ fields["todo"] = todo /\ fields["seen"] = seen
  OBVIOUS
<1>3. p \in call[c].todo
  BY <1>1 DEF NextFile
<1>4. /\ IsFcn(seen) /\ DOMAIN seen = DOMAIN old \cup {p}
      /\ \A q \in DOMAIN seen : seen[q] = IF q = p THEN Content(files, p) ELSE old[q]
  <2>. HIDE DEF p, old
  <2>. QED
    BY DEF IsFcn
<1>. HIDE DEF fields, seen, p
<1>5. /\ DOMAIN call'[c] = DOMAIN call[c] \cup DOMAIN fields
      /\ \A x \in DOMAIN fields : call'[c][x] = fields[x]
      /\ \A x \in DOMAIN call[c] \ DOMAIN fields : call'[c][x] = call[c][x]
  BY <1>1, Proceeded
<1>6. /\ call[c].req.tool \in {"image"} \cup Reader /\ status[c] = "idle"
      /\ StoryInv(call[c]) /\ "before" \in DOMAIN call[c] /\ ListingInv(call[c].before)
      /\ SeenInv(call[c]) /\ "at" \in DOMAIN call[c] /\ call[c].at = "files"
  BY <1>1 DEF AuthoringInv, CallInv, At
<1>7. /\ {"story", "revision", "at", "before", "seen", "todo"} \subseteq DOMAIN call'[c]
      /\ call'[c].story = call[c].story /\ call'[c].revision = call[c].revision
      /\ call'[c].at = "files" /\ call'[c].before = call[c].before
      /\ call'[c].seen = seen /\ call'[c].todo = todo
  BY <1>2, <1>5, <1>6 DEF StoryInv
<1>8. /\ call'[c].req = call[c].req /\ "req" \in DOMAIN call'[c] /\ call[c].req \in Request
      /\ call[c].req.tool = "image" => call[c].req.bytes <= MaxImage
  BY <1>1, <1>2, RequestStays DEF At
<1>9. /\ CommittedFiles' = CommittedFiles /\ CommittedRevision' = CommittedRevision /\ status' = status
      /\ CommittedFiles = files
  BY <1>1, SameStore, LookIsCurrent DEF AuthoringInv
<1>10. StoryInv(call[c])'
  BY <1>6, <1>7, <1>8, <1>9, StoryStays DEF StoryInv
<1>11. ListingInv(call[c].before)'
  BY <1>6, <1>7, <1>9 DEF ListingInv
<1>12. SeenInv(call[c])'
  <2>1. DOMAIN seen \cup todo = Needed(call[c].req.tool, call[c].story, call[c].before.entries)
    BY <1>3, <1>4, <1>6 DEF SeenInv
  <2>2. call[c].before.revision = CommittedRevision =>
          \A q \in DOMAIN seen : seen[q] = Content(CommittedFiles, q)
    BY <1>4, <1>6, <1>9 DEF SeenInv
  <2>3. \A q : Content(CommittedFiles, q)' = Content(CommittedFiles, q)
    BY <1>9 DEF Content
  <2>. HIDE DEF todo
  <2>. QED
    BY <1>4, <1>7, <1>8, <1>9, <2>1, <2>2, <2>3 DEF SeenInv
<1>13. CallInv(c)'
  BY <1>6, <1>7, <1>8, <1>9, <1>10, <1>11, <1>12 DEF CallInv
<1>. QED
  BY <1>1, <1>13, ProceedKeeps

\* What a call that has read its files at one revision knows is what there is.
LEMMA FilesAreRead ==
  ASSUME AuthoringInv, NEW c \in Client, At(c, "files"), call[c].todo = {}, Readable,
         SnapshotsMatch(call[c].before, Look), revision = call[c].revision
  PROVE  /\ CommittedFiles = files /\ CommittedRevision = revision
         /\ call[c].before = Look
         /\ call[c].story = Content(files, StoryYaml) /\ call[c].story # Absent
         /\ StoryFits(call[c].req, files)
         /\ call[c].seen = [p \in Needed(call[c].req.tool, call[c].story, Look.entries) |-> Content(files, p)]
<1>1. /\ CommittedFiles = files /\ CommittedRevision = revision
      /\ Look = Listing(CommittedFiles, CommittedRevision) /\ Look.revision = revision
  BY LookIsCurrent DEF AuthoringInv
<1>2. call[c].before.revision = CommittedRevision
  BY <1>1 DEF SnapshotsMatch
<1>3. StoryInv(call[c]) /\ ListingInv(call[c].before) /\ SeenInv(call[c])
  BY DEF AuthoringInv, CallInv, At
<1>4. call[c].before = Look
  BY <1>1, <1>2, <1>3 DEF ListingInv
<1>5. /\ call[c].story = Content(files, StoryYaml) /\ call[c].story # Absent
      /\ StoryFits(call[c].req, files)
  BY <1>1, <1>3 DEF StoryInv
<1>6. /\ IsFcn(call[c].seen)
      /\ DOMAIN call[c].seen = Needed(call[c].req.tool, call[c].story, Look.entries)
      /\ \A p \in DOMAIN call[c].seen : call[c].seen[p] = Content(files, p)
  BY <1>1, <1>2, <1>3, <1>4 DEF SeenInv
<1>7. call[c].seen = [p \in Needed(call[c].req.tool, call[c].story, Look.entries) |-> Content(files, p)]
  BY <1>6 DEF IsFcn
<1>. QED
  BY <1>1, <1>4, <1>5, <1>7

\* set_page_image reads the index, if there is one.
LEMMA IndexIsRead ==
  ASSUME NEW fs, NEW rev, NEW story, NEW seen,
         seen = [p \in Needed("image", story, Listing(fs, rev).entries) |-> Content(fs, p)]
  PROVE  Seen(seen, MediaJson) = Content(fs, MediaJson)
<1>1. {e.path : e \in Listing(fs, rev).entries} = DOMAIN fs
  BY ListedIsDomain
<1>2. Needed("image", story, Listing(fs, rev).entries) = {MediaJson} \cap DOMAIN fs
  BY <1>1 DEF Needed
<1>3. CASE MediaJson \in DOMAIN fs
  BY <1>2, <1>3 DEF Seen
<1>4. CASE MediaJson \notin DOMAIN fs
  BY <1>2, <1>4 DEF Seen, Content
<1>. QED
  BY <1>3, <1>4

LEMMA SubmitImageKeeps ==
  ASSUME AuthoringInv, NEW c \in Client, At(c, "files"), call[c].todo = {}, Readable,
         SnapshotsMatch(call[c].before, Look), revision = call[c].revision, call[c].req.tool = "image",
         NEW ops, ops = ImageOps(call[c].req, call[c].before.entries, Seen(call[c].seen, MediaJson)),
         Submit(c, call[c].revision, ops)
  PROVE  AuthoringInv'
<1>1. /\ CommittedFiles = files /\ CommittedRevision = revision /\ call[c].before = Look
      /\ StoryFits(call[c].req, files)
      /\ call[c].seen = [p \in Needed(call[c].req.tool, call[c].story, Look.entries) |-> Content(files, p)]
  BY FilesAreRead
<1>2. Look = Listing(files, revision)
  BY DEF Look
<1>3. Seen(call[c].seen, MediaJson) = Content(files, MediaJson)
  BY <1>1, <1>2, IndexIsRead
<1>4. PICK req : req = call[c].req
  OBVIOUS
<1>5. /\ req.tool = "image" /\ req \in Request /\ req.bytes \in Nat /\ req.bytes <= MaxImage
  BY <1>4, RequestAssumption DEF AuthoringInv, CallInv, At
<1>6. ops = ImageOps(req, Listing(files, revision).entries, Content(files, MediaJson))
  BY <1>1, <1>2, <1>3, <1>4
<1>7. FilesInv(files)
  BY <1>1 DEF AuthoringInv
<1>8. IsBatch(ops) /\ Measured(ops)
  BY <1>5, <1>6, <1>7, ImageBatch
<1>9. MadeFor(req, ops, CommittedFiles, CommittedRevision)
  BY <1>1, <1>4, <1>5, <1>6 DEF MadeFor
<1>10. AskedInv(req, [expected |-> CommittedRevision, ops |-> ops])
  BY <1>5, <1>8, <1>9, AskedNow DEF AuthoringInv
<1>11. AskedInv(call[c].req, [expected |-> call[c].revision, ops |-> ops])
  BY <1>1, <1>4, <1>10
<1>. QED
  BY <1>8, <1>11, SubmitKeeps DEF At, Writer

LEMMA ReadExtraKeeps ==
  ASSUME AuthoringInv, NEW c \in Client, ReadExtra(c)
  PROVE  AuthoringInv'
<1>. DEFINE k == call[c]
<1>1. At(c, "files") /\ k.todo = {} /\ Readable
  BY DEF ReadExtra
<1>2. ASSUME NEW error, Fail(c, error) PROVE AuthoringInv'
  BY <1>1, <1>2, FailKeeps DEF At
<1>3. CASE NextRound(c)
  BY <1>1, <1>3, NextRoundKeeps DEF At
<1>4. CASE SnapshotsMatch(k.before, Look) /\ revision = k.revision /\ Conclude(c)
  <2>1. k.req.tool \in {"image"} \cup Reader
    BY <1>1 DEF AuthoringInv, CallInv, At
  <2>2. CASE k.req.tool \in Reader
    <3>1. /\ Finish(c, "ok", [revision |-> k.revision,
                               content |-> Answer(k.req.tool, k.story, k.before.entries, k.seen)])
          /\ UNCHANGED storeVars
      <4>. k.req.tool # "image"
        BY <2>2 DEF Reader
      <4>. QED
        BY <1>4, <2>2 DEF Conclude
    <3>. QED
      BY <1>1, <3>1, FinishKeeps DEF At
  <2>3. CASE k.req.tool = "image"
    <3>1. \/ Fail(c, "media-json-corrupt")
          \/ Submit(c, k.revision, ImageOps(k.req, k.before.entries, Seen(k.seen, MediaJson)))
      BY <1>4, <2>3 DEF Conclude, Reader
    <3>. QED
      BY <1>1, <1>2, <1>4, <2>3, <3>1, SubmitImageKeeps
  <2>. QED
    BY <2>1, <2>2, <2>3
<1>5. CASE Proceed(c, [at |-> "extra", tries |-> k.tries + 1]) /\ UNCHANGED <<reply, storeVars>>
  <2>1. PICK fields : fields = [at |-> "extra", tries |-> k.tries + 1]
    OBVIOUS
  <2>2. DOMAIN fields = {"at", "tries"} /\ fields["at"] = "extra"
    BY <2>1
  <2>3. Proceed(c, fields) /\ UNCHANGED <<reply, storeVars>>
    BY <1>5, <2>1
  <2>4. /\ DOMAIN call'[c] = DOMAIN call[c] \cup DOMAIN fields
        /\ \A x \in DOMAIN fields : call'[c][x] = fields[x]
        /\ \A x \in DOMAIN call[c] \ DOMAIN fields : call'[c][x] = call[c][x]
    BY <2>3, Proceeded
  <2>5. /\ call[c].req.tool \in {"image"} \cup Reader /\ status[c] = "idle"
        /\ StoryInv(call[c])
    BY <1>1 DEF AuthoringInv, CallInv, At
  <2>6. /\ {"story", "revision", "at"} \subseteq DOMAIN call'[c]
        /\ call'[c].story = call[c].story /\ call'[c].revision = call[c].revision
        /\ call'[c].at = "extra"
    BY <2>2, <2>4, <2>5 DEF StoryInv
  <2>7. /\ call'[c].req = call[c].req /\ "req" \in DOMAIN call'[c] /\ call[c].req \in Request
        /\ call[c].req.tool = "image" => call[c].req.bytes <= MaxImage
    BY <1>1, <2>2, <2>3, RequestStays DEF At
  <2>8. CommittedFiles' = CommittedFiles /\ CommittedRevision' = CommittedRevision /\ status' = status
    BY <2>3, SameStore
  <2>9. StoryInv(call[c])'
    BY <2>5, <2>6, <2>7, <2>8, StoryStays DEF StoryInv
  <2>10. CallInv(c)'
    BY <2>5, <2>6, <2>7, <2>8, <2>9 DEF CallInv
  <2>. QED
    BY <2>3, <2>10, ProceedKeeps
<1>. QED
  BY <1>2, <1>3, <1>4, <1>5 DEF ReadExtra

LEMMA MutatedKeeps ==
  ASSUME AuthoringInv, NEW c \in Client, Mutated(c)
  PROVE  AuthoringInv'
<1>1. At(c, "mutate") /\ Returned(c)
  BY DEF Mutated
<1>2. /\ status' = [status EXCEPT ![c] = "idle"] /\ UNCHANGED <<files, revision, tx, mutation>>
      /\ StoreInv'
  BY <1>1, ReturnedImplements DEF Returned, AuthoringInv, Implemented
<1>3. /\ \A d \in Client \ {c} : mutation'[d] = mutation[d] /\ status'[d] = status[d]
      /\ tx # NoTx => mutation'[tx.owner] = mutation[tx.owner]
      /\ status'[c] = "idle"
  BY <1>2 DEF AuthoringInv, StoreInv
<1>4. CASE Proceed(c, [at |-> "list"]) /\ UNCHANGED reply
  <2>1. PICK fields : fields = [at |-> "list"]
    OBVIOUS
  <2>2. DOMAIN fields = {"at"} /\ fields["at"] = "list" /\ Proceed(c, fields)
    BY <1>4, <2>1
  <2>3. "at" \in DOMAIN call'[c] /\ call'[c].at = "list"
    BY <2>2, Proceeded
  <2>4. /\ call'[c].req = call[c].req /\ "req" \in DOMAIN call'[c] /\ call[c].req \in Request
        /\ call[c].req.tool = "image" => call[c].req.bytes <= MaxImage
    BY <1>1, <2>2, RequestStays DEF At
  <2>5. CallInv(c)'
    BY <1>3, <2>3, <2>4 DEF CallInv
  <2>6. call' = [call EXCEPT ![c] = With(call[c], fields)] /\ reply' = [reply EXCEPT ![c] = reply[c]]
    BY <1>4, <2>2 DEF AuthoringInv, Proceed, IsFcn
  <2>. QED
    BY <1>2, <1>3, <2>5, <2>6, OneCallMoves
<1>5. ASSUME NEW result, Finish(c, result, <<>>) PROVE AuthoringInv'
  <2>1. /\ call' = [call EXCEPT ![c] = Idle]
        /\ reply' = [reply EXCEPT ![c] = AnswerOf(call[c].req, result, <<>>)]
    BY <1>5 DEF Finish
  <2>2. CallInv(c)'
    BY <1>3, <2>1, IdleIsFine DEF AuthoringInv
  <2>. QED
    BY <1>2, <1>3, <2>1, <2>2, OneCallMoves
<1>. QED
  BY <1>4, <1>5 DEF Mutated

LEMMA ReadThrowsKeeps ==
  ASSUME AuthoringInv, NEW c \in Client, ReadThrows(c)
  PROVE  AuthoringInv'
  BY FailKeeps DEF ReadThrows, At

LEMMA InitKeeps == Init => AuthoringInv
<1>. SUFFICES ASSUME Init PROVE AuthoringInv
  OBVIOUS
<1>1. StoreInv /\ tx = NoTx /\ files = NoFiles /\ status = [c \in Client |-> "idle"]
  BY StoreInitiallyOk DEF Init, StoreInit
<1>2. FilesInv(CommittedFiles)
  BY <1>1, NoFilesIsFine DEF CommittedFiles
<1>3. \A c \in Client : CallInv(c)
  BY <1>1 DEF Init, CallInv, Idle
<1>. QED
  BY <1>1, <1>2, <1>3 DEF Init, AuthoringInv, IsFcn

LEMMA CallStepKeeps ==
  ASSUME AuthoringInv, NEW c \in Client, CallStep(c)
  PROVE  AuthoringInv'
  BY CalledKeeps, StructureKeeps, CreateKeeps, DeleteKeeps, ListKeeps, ReadStoryYamlKeeps, ReadStoryKeeps,
     ListExtraKeeps, ReadFileKeeps, ReadExtraKeeps, MutatedKeeps, ReadThrowsKeeps
  DEF CallStep

LEMMA NextKeeps == AuthoringInv /\ [Next]_vars => AuthoringInv'
<1>. SUFFICES ASSUME AuthoringInv, [Next]_vars PROVE AuthoringInv'
  OBVIOUS
<1>1. CASE StoreStep /\ UNCHANGED <<call, reply>>
  BY <1>1, StoreStepKeeps
<1>2. CASE UNCHANGED vars
  <2>1. UNCHANGED <<call, reply, files, revision, tx, status, mutation>> /\ UNCHANGED storeVars
    BY <1>2 DEF vars, storeVars
  <2>2. StoreInv' /\ Unchanged
    BY <2>1, StutterImplements, SameStore DEF AuthoringInv, Implemented, Unchanged
  <2>3. \A c \in Client : CallInv(c)'
    BY <2>1, <2>2, StaysUnchanged DEF AuthoringInv, Stays
  <2>4. FilesInv(CommittedFiles)'
    BY <2>2 DEF AuthoringInv, Unchanged, FilesInv, HasImage, Content
  <2>5. (tx # NoTx => Legal(mutation[tx.owner].ops))'
    BY <2>1 DEF AuthoringInv, Legal
  <2>. QED
    BY <2>1, <2>2, <2>3, <2>4, <2>5 DEF AuthoringInv, IsFcn
<1>. QED
  BY <1>1, <1>2, CallStepKeeps DEF Next

LEMMA AlwaysAuthoringInv == Spec => []AuthoringInv
  BY InitKeeps, NextKeeps, PTL DEF Spec

-----------------------------------------------------------------------------
(* What the files are, whatever the calls do                                *)

\* A story that is being deleted, or whose deletion has failed half-way, can still be
\* found and deleted, however many files a batch takes: story.yaml is listed last, so a
\* batch has it only with all that is left (controller.ts:285-295).
THEOREM StrandedTheorem == Spec => []NothingIsStranded
<1>1. ASSUME AuthoringInv PROVE NothingIsStranded
  <2>1. IsFcn(CommittedFiles)
    BY <1>1 DEF AuthoringInv, StoreInv, TxInv, CommittedFiles
  <2>2. CommittedFiles # NoFiles => DOMAIN CommittedFiles # {}
    BY <2>1 DEF IsFcn, NoFiles
  <2>. QED
    BY <1>1, <2>2 DEF AuthoringInv, FilesInv, NothingIsStranded
<1>. QED
  BY <1>1, AlwaysAuthoringInv, PTL

LEMMA AtMostOne ==
  ASSUME NEW S, \A x, y \in S : x = y
  PROVE  Cardinality(S) <= 1
<1>1. CASE S = {}
  BY <1>1, FS_EmptySet
<1>2. ASSUME NEW x \in S PROVE Cardinality(S) <= 1
  <2>1. S = {x}
    BY <1>2
  <2>2. Cardinality({x}) = 1
    BY FS_Singleton
  <2>. QED
    BY <2>1, <2>2
<1>. QED
  BY <1>1, <1>2

\* A page has one image, and the index names no image that is not there, whatever the
\* formats, and whatever images are set while the story is replaced or deleted: the batch
\* of set_page_image takes the others away, and the listing has media.json before the
\* images (setPageImage.ts:15-22 and 224-242, media.ts:38-45).
THEOREM OneImageTheorem == Spec => []OneImagePerPage
<1>1. ASSUME AuthoringInv PROVE OneImagePerPage
  <2>. SUFFICES ASSUME NEW c \in Chapter
                PROVE  LET images == {MediaFile(c, x) : x \in Ext} \cap DOMAIN CommittedFiles
                           index  == Content(CommittedFiles, MediaJson)
                       IN /\ Cardinality(images) <= 1
                          /\ (index # Absent /\ c \in DOMAIN index) => MediaFile(c, index[c]) \in images
    BY DEF OneImagePerPage
  <2>. DEFINE fs == CommittedFiles
              index  == Content(fs, MediaJson)
              images == {MediaFile(c, x) : x \in Ext} \cap DOMAIN fs
  <2>1. /\ DOMAIN fs \subseteq Path
        /\ \A x, y : HasImage(fs, c, x) /\ HasImage(fs, c, y) => x = y
        /\ index # Absent => \A d \in DOMAIN index : HasImage(fs, d, index[d])
    BY <1>1 DEF AuthoringInv, FilesInv
  <2>2. \A p, q \in images : p = q
    BY <2>1 DEF HasImage
  <2>3. Cardinality(images) <= 1
    <3>. HIDE DEF images
    <3>. QED
      BY <2>2, AtMostOne
  <2>4. ASSUME index # Absent, c \in DOMAIN index PROVE MediaFile(c, index[c]) \in images
    <3>1. MediaFile(c, index[c]) \in DOMAIN fs /\ MediaFile(c, index[c]) \in Path
      BY <2>1, <2>4 DEF HasImage
    <3>2. index[c] \in Ext
      BY <3>1, PathsDiffer DEF Path, TextPath, BlobPath
    <3>. QED
      BY <3>1, <3>2
  <2>. QED
    BY <2>3, <2>4
<1>. QED
  BY <1>1, AlwaysAuthoringInv, PTL

\* The first operations of a batch are a batch.
LEMMA PrefixIsBatch ==
  ASSUME NEW ops, IsBatch(ops), NEW n \in 0 .. Len(ops), NEW s, s = SubSeq(ops, 1, n)
  PROVE  /\ IsBatch(s) /\ Len(s) = n
         /\ \A i \in 1 .. n : s[i] = ops[i] /\ i \in 1 .. Len(ops)
<1>1. /\ Len(ops) \in Nat /\ n \in Nat
      /\ \A i \in 1 .. Len(ops) : ops[i].op \in {"write", "delete"}
  BY BatchIsSeq
<1>2. s = [i \in 1 .. n |-> ops[i]]
  BY BatchIsSeq
<1>3. DOMAIN s = 1 .. n /\ s = [i \in 1 .. n |-> s[i]] /\ \A i \in 1 .. n : s[i] = ops[i]
  BY <1>2
<1>4. \A i \in 1 .. n : i \in 1 .. Len(ops)
  BY <1>1
<1>5. IsBatch(s)
  BY <1>1, <1>3, <1>4 DEF IsBatch
<1>6. Len(s) \in Nat /\ 1 .. Len(s) = 1 .. n
  BY <1>3, <1>5, BatchIsSeq
<1>7. Len(s) = n
  BY <1>1, <1>6, SameInterval
<1>. QED
  BY <1>3, <1>4, <1>5, <1>7

\* The workspace is in states its code can make, also while a batch is half carried out:
\* only allowed paths, every file within its limit, a transaction never further than its
\* batch, and mutate() never under way for a call that does not wait for it
\* (mutate.ts:34-125, indexeddbWorkspaceStorage.ts:210-281, setPageImage.ts:120-160).
THEOREM AuthoringTypes == Spec => []TypeOK
<1>1. ASSUME AuthoringInv PROVE TypeOK
  <2>. DEFINE ops == mutation[tx.owner].ops
  <2>1. /\ revision \in Nat /\ \A c \in Client : status[c] # "idle" => At(c, "mutate")
        /\ DOMAIN CommittedFiles \subseteq Path
        /\ \A p \in DOMAIN CommittedFiles : WithinLimit(p, CommittedFiles[p].bytes)
    BY <1>1 DEF AuthoringInv, StoreInv, FilesInv, CallInv, At
  <2>2. CASE tx = NoTx
    <3>1. CommittedFiles = files
      BY <2>2 DEF CommittedFiles
    <3>. QED
      BY <2>1, <2>2, <3>1 DEF TypeOK, WithinLimit
  <2>3. CASE tx # NoTx
    <3>1. /\ tx.owner \in Client /\ tx.next \in 1 .. Len(ops) + 2 /\ IsBatch(ops) /\ Legal(ops)
          /\ files = Outcome(tx.files, SubSeq(ops, 1, Done)) /\ CommittedFiles = tx.files
      BY <1>1, <2>3 DEF AuthoringInv, StoreInv, TxInv, CommittedFiles
    <3>2. Len(ops) \in Nat /\ Len(ops) <= MaxOps /\ MaxOps \in Nat
      BY <3>1, BatchIsSeq, LimitsAssumption DEF Legal
    <3>3. tx.next \in 1 .. MaxOps + 2
      BY <3>1, <3>2
    <3>4. Done \in 0 .. Len(ops)
      BY <3>1, <3>2 DEF Done
    <3>5. DOMAIN files \subseteq Path
      <4>1. SUFFICES ASSUME NEW p \in DOMAIN files PROVE p \in Path
        OBVIOUS
      <4>2. PICK s : s = SubSeq(ops, 1, Done)
        OBVIOUS
      <4>3. PICK n \in 0 .. Len(ops) : n = Done
        BY <3>4
      <4>. HIDE DEF ops
      <4>4. /\ IsBatch(s) /\ Len(s) = n
            /\ \A i \in 1 .. n : s[i] = ops[i] /\ i \in 1 .. Len(ops)
        BY <3>1, <4>2, <4>3, PrefixIsBatch
      <4>5. p \in DOMAIN Outcome(tx.files, s)
        BY <3>1, <4>1, <4>2
      <4>6. CASE p \in DOMAIN tx.files
        BY <2>1, <3>1, <4>6
      <4>7. ASSUME NEW i \in 1 .. Len(s), s[i].path = p PROVE p \in Path
        BY <3>1, <4>4, <4>7 DEF Legal
      <4>. QED
        BY <4>4, <4>5, <4>6, <4>7, WhereFilesComeFrom
    <3>. QED
      BY <2>1, <3>1, <3>3, <3>5 DEF TypeOK, WithinLimit
  <2>. QED
    BY <2>2, <2>3
<1>. QED
  BY <1>1, AlwaysAuthoringInv, PTL

-----------------------------------------------------------------------------
(* What a step may do                                                       *)

LEMMA SubmitAsks ==
  ASSUME StoreInv, NEW c \in Client, NEW expected, NEW ops, Submit(c, expected, ops)
  PROVE  Mutate(c, mutation'[c])
  BY DEF Submit, Mutate, StoreInv

\* A step of a call asks the storage for a batch, takes its answer or leaves it alone.
LEMMA CallAsksOrTakes ==
  ASSUME AuthoringInv, NEW c \in Client, CallStep(c)
  PROVE  Mutate(c, mutation'[c]) \/ Returned(c) \/ UNCHANGED storeVars
<1>1. CASE \/ CreateStory(c) \/ UpdateStoryStructure(c) \/ UpdatePageText(c) \/ SetPageImage(c)
           \/ InspectStory(c) \/ GetStoryReadiness(c) \/ LoadPreview(c) \/ DeleteStory(c)
  BY <1>1 DEF CreateStory, UpdateStoryStructure, UpdatePageText, SetPageImage, InspectStory,
              GetStoryReadiness, LoadPreview, DeleteStory, StartUnless, Start, Reject
<1>2. CASE Structure(c) \/ Create(c) \/ Delete(c)
  BY <1>2, SubmitAsks DEF Structure, Create, Delete, Fail, AuthoringInv
<1>3. CASE List(c) \/ ReadStoryYaml(c) \/ ListExtra(c) \/ ReadFile(c) \/ ReadThrows(c)
  BY <1>3 DEF List, ReadStoryYaml, ListExtra, ReadFile, ReadThrows, Fail
<1>4. CASE ReadStory(c)
  <2>1. Again(c) => UNCHANGED storeVars
    BY DEF Again, Fail
  <2>2. UseStory(c) => Mutate(c, mutation'[c]) \/ UNCHANGED storeVars
    <3>1. CASE call[c].req.tool = "text"
      BY <3>1, SubmitAsks DEF UseStory, Fail, AuthoringInv
    <3>2. CASE call[c].req.tool # "text"
      BY <3>2 DEF UseStory, Fail
    <3>. QED
      BY <3>1, <3>2
  <2>. QED
    BY <1>4, <2>1, <2>2 DEF ReadStory, Fail
<1>5. CASE ReadExtra(c)
  <2>1. NextRound(c) => UNCHANGED storeVars
    BY DEF NextRound, Fail
  <2>. StoreInv /\ call[c].req.tool \in {"image"} \cup Reader
    BY <1>5 DEF ReadExtra, AuthoringInv, CallInv, At
  <2>2. CASE Conclude(c) /\ call[c].req.tool \in Reader
    <3>. call[c].req.tool # "image"
      BY <2>2 DEF Reader
    <3>. QED
      BY <2>2 DEF Conclude
  <2>3. CASE Conclude(c) /\ call[c].req.tool = "image"
    BY <2>3, SubmitAsks DEF Conclude, Reader, Fail
  <2>. QED
    BY <1>5, <2>1, <2>2, <2>3 DEF ReadExtra, Fail
<1>6. CASE Mutated(c)
  BY <1>6 DEF Mutated
<1>. QED
  BY <1>1, <1>2, <1>3, <1>4, <1>5, <1>6 DEF CallStep

\* So every step of the calls is a step of the storage.
LEMMA StorageSteps ==
  ASSUME AuthoringInv, AuthoringInv', [Next]_vars
  PROVE  [StoreNext]_storeVars
<1>1. \A c \in Client : IsBatch(mutation'[c].ops)
  BY DEF AuthoringInv, StoreInv
<1>2. ASSUME NEW c \in Client, CallStep(c) PROVE [StoreNext]_storeVars
  BY <1>1, <1>2, CallAsksOrTakes DEF StoreNext
<1>3. CASE StoreStep
  BY <1>3 DEF StoreNext
<1>4. CASE UNCHANGED vars
  BY <1>4 DEF vars, storeVars
<1>. QED
  BY <1>2, <1>3, <1>4 DEF Next

\* The storage under the calls of the tools is atomic: every batch any of them makes
\* lands as a whole, on the revision it was made for, or not at all
\* (indexeddbWorkspaceStorage.ts:210-281, mutate.ts:34-125).
THEOREM AuthoringRefinement == Spec => ImplementsAtomicStore
<1>1. Init => AuthoringInv
  BY InitKeeps
<1>2. Init => Atomic!Init
  BY StoreInitiallyOk DEF Init
<1>3. AuthoringInv /\ [Next]_vars => AuthoringInv' /\ [Atomic!Next]_(Atomic!vars)
  BY NextKeeps, StorageSteps, StepImplements DEF AuthoringInv, Implemented
<1>. QED
  BY <1>1, <1>2, <1>3, PTL DEF Spec, ImplementsAtomicStore, Atomic!Spec

\* Only a commit tells a call that its batch has landed.
LEMMA LandsByCommit ==
  ASSUME AuthoringInv, [Next]_vars, NEW c \in Client, Lands(c)
  PROVE  Commit /\ tx # NoTx /\ tx.owner = c
<1>1. ASSUME NEW d \in Client, CallStep(d) PROVE FALSE
  <2>1. CASE Mutate(d, mutation'[d])
    BY <2>1 DEF Mutate, Lands, AuthoringInv, StoreInv
  <2>2. CASE Returned(d)
    BY <2>2 DEF Returned, Lands, AuthoringInv, StoreInv
  <2>3. CASE UNCHANGED storeVars
    BY <2>3 DEF storeVars, Lands
  <2>. QED
    BY <1>1, <2>1, <2>2, <2>3, CallAsksOrTakes
<1>2. ASSUME NEW d \in Client, Begin(d) PROVE FALSE
  BY <1>2 DEF Begin, Lands, AuthoringInv, StoreInv
<1>3. CASE PutFile \/ PutRevision \/ Abort
  BY <1>3 DEF PutFile, PutRevision, Abort, Lands, AuthoringInv, StoreInv, TxInv
<1>4. CASE Commit
  BY <1>4 DEF Commit, Lands, AuthoringInv, StoreInv, TxInv
<1>5. CASE UNCHANGED vars
  BY <1>5 DEF vars, Lands
<1>. QED
  BY <1>1, <1>2, <1>3, <1>4, <1>5 DEF Next, StoreStep

\* The batch of a text or an image does not touch the story.
LEMMA StoryIsLeft ==
  ASSUME NEW fs, FilesInv(fs), NEW rev, NEW req \in Request, req.tool \in {"text", "image"},
         req.tool = "image" => req.bytes <= MaxImage,
         NEW ops, IsBatch(ops), MadeFor(req, ops, fs, rev)
  PROVE  /\ StoryFits(req, fs) /\ StoryYaml \in DOMAIN Outcome(fs, ops)
         /\ Outcome(fs, ops)[StoryYaml] = fs[StoryYaml]
<1>1. CASE req.tool = "text"
  <2>1. /\ StoryFits(req, fs)
        /\ ops = <<WriteOp(ContentFile(req.chapter), "text", req.bytes, req.bytes)>>
    BY <1>1 DEF MadeFor
  <2>2. PICK o : o = WriteOp(ContentFile(req.chapter), "text", req.bytes, req.bytes)
    OBVIOUS
  <2>3. o.op = "write" /\ o.path = ContentFile(req.chapter) /\ ops = <<o>>
    BY <2>1, <2>2 DEF WriteOp
  <2>4. Len(ops) = 1 /\ ops[1] = o /\ DOMAIN ops = 1 .. Len(ops)
    BY <2>3, Single, BatchIsSeq
  <2>5. \A i \in DOMAIN ops : ops[i].path # StoryYaml
    BY <2>3, <2>4, PathsDiffer
  <2>. QED
    BY <2>1, <2>5, OthersAreLeft DEF StoryFits
<1>2. CASE req.tool = "image"
  <2>1. /\ StoryFits(req, fs)
        /\ ops = ImageOps(req, Listing(fs, rev).entries, Content(fs, MediaJson))
    BY <1>2 DEF MadeFor
  <2>2. req.bytes \in Nat /\ req.bytes <= MaxImage
    BY <1>2, RequestAssumption
  <2>3. \A p : p # MediaJson /\ (\A y : p # MediaFile(req.chapter, y)) =>
           /\ p \in DOMAIN Outcome(fs, ops) <=> p \in DOMAIN fs
           /\ p \in DOMAIN fs => Outcome(fs, ops)[p] = fs[p]
    BY <2>1, <2>2, ImageBatch
  <2>4. StoryYaml # MediaJson /\ \A y : StoryYaml # MediaFile(req.chapter, y)
    BY PathsDiffer
  <2>. QED
    BY <2>1, <2>3, <2>4 DEF StoryFits
<1>. QED
  BY <1>1, <1>2

\* A text or an image lands only on a story that has its page, and an image only on the
\* story it was made for, whatever replaced the structure since the tool read it: the
\* revision that mutate() compares is the one the story was read at
\* (updatePageText.ts:45-106, setPageImage.ts:182-247).
THEOREM WritesTheorem == Spec => WritesFitTheStory
<1>1. ASSUME AuthoringInv, [Next]_vars, NEW c \in Client, Lands(c), call[c].req.tool \in {"text", "image"}
      PROVE  /\ StoryYaml \in DOMAIN files
             /\ call[c].req.chapter \in files[StoryYaml].data.chapters
             /\ call[c].req.tool = "image" => files[StoryYaml].data.slug = call[c].req.slug
  <2>1. Commit /\ tx # NoTx /\ tx.owner = c
    BY <1>1, LandsByCommit
  <2>2. Atomic!Land(c)
    <3>1. StoreInv /\ StoreStep
      BY <1>1, <2>1 DEF AuthoringInv, StoreStep
    <3>2. Commit => Atomic!Land(tx.owner)
      <4>1. Commit => CommittedRevision' # CommittedRevision
        BY <2>1, <3>1 DEF Commit, StoreInv, TxInv, CommittedRevision
      <4>. QED
        BY <3>1, <4>1, CommitImplements DEF Implemented
    <3>. QED
      BY <2>1, <3>2
  <2>3. PICK req : req = call[c].req
    OBVIOUS
  <2>4. PICK ops : ops = mutation[c].ops
    OBVIOUS
  <2>5. /\ status[c] = "asked" /\ mutation[c].expected = CommittedRevision
        /\ CommittedFiles' = Outcome(CommittedFiles, ops)
    BY <2>2, <2>4 DEF Atomic!Land
  <2>6. CallInv(c) /\ IsBatch(ops) /\ FilesInv(CommittedFiles)
    BY <1>1, <2>4 DEF AuthoringInv, StoreInv
  <2>7. req \in Request /\ req.tool = "image" => req.bytes <= MaxImage
    BY <2>3, <2>5, <2>6 DEF CallInv
  <2>8. MadeFor(req, ops, CommittedFiles, CommittedRevision)
    BY <1>1, <2>3, <2>4, <2>5, <2>6 DEF CallInv, AskedInv, MadeFor
  <2>9. files = CommittedFiles'
    BY <2>1 DEF Commit, CommittedFiles
  <2>10. /\ StoryFits(req, CommittedFiles) /\ StoryYaml \in DOMAIN files
         /\ files[StoryYaml] = CommittedFiles[StoryYaml]
    <3>1. req \in Request
      BY <2>3, <2>5, <2>6 DEF CallInv
    <3>. QED
      BY <1>1, <2>3, <2>5, <2>6, <2>7, <2>8, <2>9, <3>1, StoryIsLeft
  <2>. QED
    BY <1>1, <2>3, <2>10 DEF StoryFits
<1>2. AuthoringInv /\ [Next]_vars =>
        [\A c \in Client : (Lands(c) /\ call[c].req.tool \in {"text", "image"}) =>
           /\ StoryYaml \in DOMAIN files
           /\ call[c].req.chapter \in files[StoryYaml].data.chapters
           /\ call[c].req.tool = "image" => files[StoryYaml].data.slug = call[c].req.slug]_vars
  BY <1>1
<1>. QED
  BY <1>2, AlwaysAuthoringInv, PTL DEF Spec, WritesFitTheStory

-----------------------------------------------------------------------------
(* What the reading tools answer                                            *)

\* A failure of a reading tool to read is not an answer.
LEMMA FailureIsNoAnswer ==
  ASSUME NEW tool \in Reader, NEW error \in {"story-not-found", "workspace-busy", "internal-error"}
  PROVE  Failure(tool, error) # "ok"
  BY DEF Reader, Failure, ReadinessFailure, InspectFailure, LoadFailure

\* The call is answered by this step, with what it came to.
Told(c, result, answer) == reply' = [reply EXCEPT ![c] = AnswerOf(call[c].req, result, answer)]

\* A step gives no reading tool's answer but that of a call which has read its files.
LEMMA OnlyReadersAnswer ==
  ASSUME AuthoringInv, NEW c \in Client, NEW d \in Client, CallStep(d), Answers(c, Reader)
  PROVE  c = d /\ ReadExtra(c) /\ Conclude(c) /\ SnapshotsMatch(call[c].before, Look)
           /\ revision = call[c].revision /\ call[c].req.tool \in Reader
<1>. DEFINE k == call[d]
<1>1. /\ reply'[c] # reply[c] /\ reply'[c] # <<>> /\ reply'[c].tool \in Reader
      /\ reply'[c].result = "ok"
  BY DEF Answers
<1>2. DOMAIN reply = Client /\ CallInv(d)
  BY DEF AuthoringInv
<1>3. UNCHANGED reply => FALSE
  BY <1>1
<1>4. ASSUME NEW result, NEW answer, Told(d, result, answer)
      PROVE  c = d /\ k.req.tool \in Reader /\ result = "ok"
  <2>1. c = d
    BY <1>1, <1>4 DEF Told
  <2>2. reply'[c] = AnswerOf(k.req, result, answer)
    BY <1>2, <1>4, <2>1 DEF Told
  <2>3. reply'[c].tool = k.req.tool /\ reply'[c].result = result
    BY <2>2 DEF AnswerOf
  <2>. QED
    BY <1>1, <2>1, <2>3
<1>5. ASSUME NEW error, Fail(d, error)
      PROVE  k.req.tool \in Reader /\ Failure(k.req.tool, error) = "ok"
  BY <1>4, <1>5 DEF Fail, Finish, Told
<1>6. ASSUME NEW error \in {"story-not-found", "workspace-busy", "internal-error"}, Fail(d, error)
      PROVE  FALSE
  BY <1>5, <1>6, FailureIsNoAnswer
<1>7. ASSUME NEW error, Fail(d, error), k.req.tool \in Writer PROVE FALSE
  BY <1>5, <1>7 DEF Writer, Reader
<1>8. CASE \/ CreateStory(d) \/ UpdateStoryStructure(d) \/ UpdatePageText(d) \/ SetPageImage(d)
           \/ InspectStory(d) \/ GetStoryReadiness(d) \/ LoadPreview(d) \/ DeleteStory(d)
  <2>1. ASSUME NEW req, NEW expected, Start(d, req, expected) PROVE FALSE
    <3>1. reply' = [reply EXCEPT ![d] = <<>>]
      BY <2>1 DEF Start
    <3>2. reply'[c] = <<>> \/ reply'[c] = reply[c]
      BY <1>2, <3>1
    <3>. QED
      BY <1>1, <3>2
  <2>2. ASSUME NEW req, req.tool \in Writer, NEW fault, Reject(d, req, fault) PROVE FALSE
    <3>1. PICK result : reply' = [reply EXCEPT ![d] = AnswerOf(req, result, <<>>)]
      BY <2>2 DEF Reject
    <3>2. c = d => reply'[c] = AnswerOf(req, result, <<>>)
      BY <1>2, <3>1
    <3>3. c # d => reply'[c] = reply[c]
      BY <3>1
    <3>4. reply'[c].tool = req.tool
      BY <1>1, <3>2, <3>3 DEF AnswerOf
    <3>. QED
      BY <1>1, <2>2, <3>4 DEF Writer, Reader
  <2>3. ASSUME NEW fault, NEW req, req.tool \in Writer, NEW expected, StartUnless(fault, d, req, expected)
        PROVE  FALSE
    BY <2>1, <2>2, <2>3 DEF StartUnless
  <2>4. {"create", "structure", "text", "image"} \subseteq Writer
    BY DEF Writer
  <2>. QED
    BY <1>8, <2>1, <2>3, <2>4
    DEF CreateStory, UpdateStoryStructure, UpdatePageText, SetPageImage, InspectStory,
        GetStoryReadiness, LoadPreview, DeleteStory, Calls
<1>9. CASE Structure(d) \/ Create(d) \/ Delete(d)
  <2>1. ASSUME NEW expected, NEW ops, Submit(d, expected, ops) PROVE FALSE
    BY <1>3, <2>1 DEF Submit
  <2>2. CASE Structure(d)
    BY <2>1, <2>2 DEF Structure
  <2>3. CASE Create(d)
    <3>1. k.req.tool \in Writer
      BY <2>3 DEF Create, Writer
    <3>. QED
      BY <1>7, <2>1, <2>3, <3>1 DEF Create
  <2>4. CASE Delete(d)
    <3>1. Finish(d, "ok", <<>>) => k.req.tool \in Reader
      BY <1>4 DEF Finish, Told
    <3>2. k.req.tool \notin Reader
      BY <2>4 DEF Delete, Reader
    <3>. QED
      BY <2>1, <2>4, <3>1, <3>2 DEF Delete
  <2>. QED
    BY <1>9, <2>2, <2>3, <2>4
<1>10. CASE List(d) \/ ReadStoryYaml(d) \/ ListExtra(d) \/ ReadFile(d)
  BY <1>3, <1>10 DEF List, ReadStoryYaml, ListExtra, ReadFile
<1>11. CASE ReadThrows(d)
  BY <1>6, <1>11 DEF ReadThrows
<1>12. CASE ReadStory(d)
  <2>1. ~Again(d) /\ ~NextRound(d)
    BY <1>3, <1>6 DEF Again, NextRound
  <2>2. ~Fail(d, "story-not-found")
    BY <1>6
  <2>3. UseStory(d)
    BY <1>12, <2>1, <2>2 DEF ReadStory
  <2>4. CASE k.req.tool = "text"
    <3>1. k.req.tool \in Writer
      BY <2>4 DEF Writer
    <3>2. Fail(d, TextStoryFault(k)) \/ UNCHANGED reply
      BY <2>3, <2>4 DEF UseStory, Submit
    <3>. QED
      BY <1>3, <1>7, <3>1, <3>2
  <2>5. CASE k.req.tool # "text"
    <3>1. \/ k.req.tool = "image" /\ Fail(d, ImageStoryFault(k))
          \/ UNCHANGED reply
      BY <2>3, <2>5 DEF UseStory
    <3>. QED
      BY <1>3, <1>7, <3>1 DEF Writer
  <2>. QED
    BY <2>4, <2>5
<1>13. CASE Mutated(d)
  <2>1. k.req.tool \in Writer
    BY <1>2, <1>13 DEF Mutated, CallInv, At
  <2>2. ASSUME NEW result, Finish(d, result, <<>>) PROVE FALSE
    BY <1>4, <2>1, <2>2 DEF Finish, Told, Reader, Writer
  <2>. QED
    BY <1>3, <1>13, <2>2 DEF Mutated
<1>14. CASE ReadExtra(d)
  <2>1. ~NextRound(d) /\ ~Fail(d, "workspace-busy")
    BY <1>3, <1>6 DEF NextRound
  <2>2. Conclude(d) /\ SnapshotsMatch(k.before, Look) /\ revision = k.revision
    BY <1>3, <1>14, <2>1 DEF ReadExtra
  <2>3. k.req.tool \in {"image"} \cup Reader
    BY <1>2, <1>14 DEF ReadExtra, CallInv, At
  <2>4. CASE k.req.tool = "image"
    <3>1. Fail(d, "media-json-corrupt") \/ UNCHANGED reply
      BY <2>2, <2>4 DEF Conclude, Reader, Submit
    <3>. QED
      BY <1>3, <1>7, <2>4, <3>1 DEF Writer
  <2>5. CASE k.req.tool \in Reader
    <3>1. k.req.tool # "image"
      BY <2>5 DEF Reader
    <3>2. PICK answer : Finish(d, "ok", answer)
      BY <2>2, <2>5, <3>1 DEF Conclude
    <3>. QED
      BY <1>4, <1>14, <2>2, <2>5, <3>2 DEF Finish, Told
  <2>. QED
    BY <2>3, <2>4, <2>5
<1>. QED
  BY <1>8, <1>9, <1>10, <1>11, <1>12, <1>13, <1>14 DEF CallStep

\* What a reading tool answers is what the workspace holds at the one revision it names,
\* the present one: the listings before and after its reads are of one revision, and no
\* revision ever has two contents (readStory.ts:52-116, snapshot.ts:73-86,
\* readiness.ts:180-241, localSource.ts:86-154, readonlyTools.ts:225-285).
THEOREM AnswersTheorem == Spec => AnswersAreOfOneRevision
<1>1. ASSUME AuthoringInv, [Next]_vars, NEW c \in Client, Answers(c, Reader)
      PROVE  LET tool == reply'[c].tool   story == Content(files, StoryYaml) IN
             /\ tx = NoTx /\ story # Absent
             /\ reply'[c].answer =
                  [revision |-> revision,
                   content |-> Answer(tool, story, Look.entries,
                                      [p \in Needed(tool, story, Look.entries) |-> Content(files, p)])]
  <2>. DEFINE k == call[c]
  <2>1. ~UNCHANGED reply
    BY <1>1 DEF Answers
  <2>2. PICK d \in Client : CallStep(d)
    BY <1>1, <2>1 DEF Next, vars
  <2>3. /\ ReadExtra(c) /\ Conclude(c) /\ SnapshotsMatch(k.before, Look)
        /\ revision = k.revision /\ k.req.tool \in Reader
    BY <1>1, <2>2, OnlyReadersAnswer
  <2>4. At(c, "files") /\ k.todo = {} /\ Readable
    BY <2>3 DEF ReadExtra
  <2>5. /\ k.before = Look /\ k.story = Content(files, StoryYaml) /\ k.story # Absent
        /\ k.seen = [p \in Needed(k.req.tool, k.story, Look.entries) |-> Content(files, p)]
    BY <1>1, <2>3, <2>4, FilesAreRead
  <2>6. Finish(c, "ok", [revision |-> k.revision,
                         content |-> Answer(k.req.tool, k.story, k.before.entries, k.seen)])
    <3>1. k.req.tool # "image"
      BY <2>3 DEF Reader
    <3>. QED
      BY <2>3, <3>1 DEF Conclude
  <2>7. PICK answer : answer = [revision |-> k.revision,
                                content |-> Answer(k.req.tool, k.story, k.before.entries, k.seen)]
    OBVIOUS
  <2>8. reply'[c] = AnswerOf(k.req, "ok", answer)
    BY <1>1, <2>6, <2>7 DEF Finish, AuthoringInv
  <2>9. reply'[c].tool = k.req.tool /\ reply'[c].answer = answer
    BY <2>8 DEF AnswerOf
  <2>10. answer = [revision |-> revision,
                   content |-> Answer(k.req.tool, k.story, Look.entries,
                                      [p \in Needed(k.req.tool, k.story, Look.entries) |-> Content(files, p)])]
    BY <2>3, <2>5, <2>7
  <2>. QED
    BY <2>4, <2>5, <2>9, <2>10 DEF Readable
<1>2. AuthoringInv /\ [Next]_vars =>
        [\A c \in Client : Answers(c, Reader) =>
           LET tool == reply'[c].tool   story == Content(files, StoryYaml) IN
           /\ tx = NoTx /\ story # Absent
           /\ reply'[c].answer =
                [revision |-> revision,
                 content |-> Answer(tool, story, Look.entries,
                                    [p \in Needed(tool, story, Look.entries) |-> Content(files, p)])]]_vars
  BY <1>1
<1>. QED
  BY <1>2, AlwaysAuthoringInv, PTL DEF Spec, AnswersAreOfOneRevision
=============================================================================
