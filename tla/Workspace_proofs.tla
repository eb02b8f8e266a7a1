---------------------------- MODULE Workspace_proofs ----------------------------
(***************************************************************************)
(* What a batch makes of the files, and which files the parts of a listing *)
(* hold, for batches of any length and any set of paths, checked by TLAPS. *)
(***************************************************************************)
EXTENDS Workspace, FiniteSetTheorems, TLAPS

-----------------------------------------------------------------------------
(* Sets of natural numbers                                                  *)

LEMMA LessIsWellFounded == IsWellFoundedOn({ss \in Nat \X Nat : ss[1] < ss[2]}, Nat)
  BY NatLessThanWellFounded DEF OpToRel

LEMMA Smallest ==
  ASSUME NEW T \in SUBSET Nat, T # {}
  PROVE  \E n \in T : \A m \in T : n <= m
<1>. DEFINE R == {ss \in Nat \X Nat : ss[1] < ss[2]}
<1>1. PICK n \in T : \A m \in T : <<m, n>> \notin R
  <2>. HIDE DEF R
  <2>1. IsWellFoundedOn(R, Nat)
    BY LessIsWellFounded DEF R
  <2>. QED
    BY <2>1, WFMin
<1>2. ASSUME NEW m \in T PROVE n <= m
  <2>1. m < n => <<m, n>> \in R
    OBVIOUS
  <2>. QED
    BY <1>1, <2>1
<1>. QED
  BY <1>2

LEMMA Largest ==
  ASSUME NEW n \in Nat, NEW T \in SUBSET (1 .. n), T # {}
  PROVE  \E k \in T : \A m \in T : m <= k
<1>. DEFINE D == {n - m : m \in T}
<1>1. D \in SUBSET Nat /\ D # {}
  <2>1. \A m \in T : n - m \in Nat
    OBVIOUS
  <2>. QED
    BY <2>1
<1>2. PICK d \in D : \A e \in D : d <= e
  <2>. HIDE DEF D
  <2>. QED
    BY <1>1, Smallest
<1>3. PICK k \in T : d = n - k
  BY <1>2
<1>4. ASSUME NEW m \in T PROVE m <= k
  <2>1. n - m \in D
    OBVIOUS
  <2>. QED
    BY <1>2, <1>3, <2>1
<1>. QED
  BY <1>4

LEMMA SameInterval ==
  ASSUME NEW m \in Nat, NEW n \in Nat, 1 .. m = 1 .. n
  PROVE  m = n
<1>1. (m \in 1 .. m <=> m >= 1) /\ (n \in 1 .. n <=> n >= 1)
  OBVIOUS
<1>. QED
  BY <1>1

-----------------------------------------------------------------------------
(* Planning                                                                 *)

LEMMA PairOf == \A check, holds, error : check = <<holds, error>> => check[1] = holds /\ check[2] = error
  OBVIOUS

\* If the first fault is "none", which no check says of its own, no check fails.
LEMMA NoFault ==
  ASSUME NEW n \in Nat, NEW checks, DOMAIN checks = 1 .. n,
         \A i \in 1 .. n : checks[i][2] # "none",
         FirstFault(checks) = "none"
  PROVE  \A i \in 1 .. n : ~checks[i][1]
<1>. SUFFICES ASSUME NEW i \in 1 .. n, checks[i][1]
              PROVE  FALSE
  OBVIOUS
<1>. DEFINE T == {k \in 1 .. n : checks[k][1]}
<1>1. T \in SUBSET Nat /\ T # {}
  OBVIOUS
<1>2. PICK k \in T : \A m \in T : k <= m
  <2>. HIDE DEF T
  <2>. QED
    BY <1>1, Smallest
<1>3. checks[k][1] /\ \A j \in 1 .. k - 1 : ~checks[j][1]
  BY <1>2
<1>. DEFINE first == CHOOSE j \in DOMAIN checks : checks[j][1] /\ \A m \in 1 .. j - 1 : ~checks[m][1]
<1>4. first \in 1 .. n
  BY <1>2, <1>3
<1>5. FirstFault(checks) = checks[first][2]
  BY DEF FirstFault
<1>. QED
  BY <1>4, <1>5

\* A batch that is not refused was made for the current revision.
LEMMA PlanIsOfRevision ==
  ASSUME NEW fs, NEW rev, NEW m, PlanError(fs, rev, m) = "none"
  PROVE  m.expected = rev
<1>. DEFINE checks == << <<m.expected # rev, "revision-conflict">>,
                         <<m.ops = <<>>, "empty-batch">>,
                         <<Len(m.ops) > MaxOps, "batch-too-large">> >>
<1>1. FirstFault(checks) = "none"
  BY DEF PlanError
<1>2. DOMAIN checks = 1 .. 3 /\ \A i \in 1 .. 3 : checks[i][2] # "none"
  OBVIOUS
<1>3. \A i \in 1 .. 3 : ~checks[i][1]
  <2>. HIDE DEF checks
  <2>. QED
    BY <1>1, <1>2, 3 \in Nat, NoFault, Zenon
<1>4. checks[1] = <<m.expected # rev, "revision-conflict">>
  OBVIOUS
<1>5. checks[1][1] <=> m.expected # rev
  BY <1>4, Zenon
<1>6. 1 \in 1 .. 3
  OBVIOUS
<1>. QED
  <2>. HIDE DEF checks
  <2>. QED
    BY <1>3, <1>5, <1>6

\* A batch is a sequence, and so is each beginning of it.
LEMMA BatchIsSeq ==
  ASSUME NEW ops, IsBatch(ops)
  PROVE  /\ Len(ops) \in Nat /\ DOMAIN ops = 1 .. Len(ops)
         /\ ops = [i \in 1 .. Len(ops) |-> ops[i]]
         /\ \A n \in 0 .. Len(ops) : SubSeq(ops, 1, n) = [i \in 1 .. n |-> ops[i]]
         /\ \A i \in 1 .. Len(ops) : ops[i].op \in {"write", "delete"}
<1>1. PICK n \in Nat : /\ DOMAIN ops = 1 .. n /\ ops = [i \in 1 .. n |-> ops[i]]
                       /\ \A i \in 1 .. n : ops[i].op \in {"write", "delete"}
  BY DEF IsBatch
<1>. DEFINE S == {ops[i] : i \in 1 .. n}
<1>2. ops \in Seq(S)
  <2>1. \A i \in 1 .. n : ops[i] \in S
    OBVIOUS
  <2>. HIDE DEF S
  <2>2. ops \in [1 .. n -> S]
    BY <1>1, <2>1
  <2>. QED
    BY <2>2
<1>. QED
  BY <1>1, <1>2

IsFcn(f) == f = [x \in DOMAIN f |-> f[x]]

LEMMA OutcomeIsFcn ==
  ASSUME NEW fs, NEW ops
  PROVE  IsFcn(Outcome(fs, ops))
<1>. DEFINE touched == {ops[i].path : i \in DOMAIN ops}
            last(q) == ops[CHOOSE i \in DOMAIN ops :
                             ops[i].path = q /\ \A j \in DOMAIN ops : ops[j].path = q => j <= i]
            written == {q \in touched : last(q).op = "write"}
<1>1. Outcome(fs, ops) = [q \in (DOMAIN fs \ touched) \cup written |->
                            IF q \in written THEN last(q).file ELSE fs[q]]
  BY DEF Outcome
<1>. HIDE DEF touched, written, last
<1>. QED
  BY <1>1 DEF IsFcn

LEMMA ApplyOpIsFcn ==
  ASSUME NEW fs, NEW o
  PROVE  IsFcn(ApplyOp(fs, o))
  BY DEF IsFcn, ApplyOp

LEMMA OutcomeOfNothing ==
  ASSUME NEW fs, IsFcn(fs), NEW ops, DOMAIN ops = {}
  PROVE  Outcome(fs, ops) = fs
  BY DEF Outcome, IsFcn

\* What a batch makes of a path is what its last operation on it says.
LEMMA LastDecides ==
  ASSUME NEW fs, NEW n \in Nat, NEW ops, DOMAIN ops = 1 .. n, NEW p,
         NEW k \in 1 .. n, ops[k].path = p, \A j \in 1 .. n : ops[j].path = p => j <= k
  PROVE  /\ p \in DOMAIN Outcome(fs, ops) <=> ops[k].op = "write"
         /\ ops[k].op = "write" => Outcome(fs, ops)[p] = ops[k].file
<1>. DEFINE touched == {ops[i].path : i \in DOMAIN ops}
            last(q) == ops[CHOOSE i \in DOMAIN ops :
                             ops[i].path = q /\ \A j \in DOMAIN ops : ops[j].path = q => j <= i]
            written == {q \in touched : last(q).op = "write"}
<1>1. (CHOOSE i \in DOMAIN ops : ops[i].path = p /\ \A j \in DOMAIN ops : ops[j].path = p => j <= i) = k
  OBVIOUS
<1>2. last(p) = ops[k] /\ p \in touched
  BY <1>1
<1>3. Outcome(fs, ops) = [q \in (DOMAIN fs \ touched) \cup written |->
                            IF q \in written THEN last(q).file ELSE fs[q]]
  BY DEF Outcome
<1>4. p \in written <=> ops[k].op = "write"
  BY <1>2
<1>. HIDE DEF touched, written, last
<1>. QED
  BY <1>2, <1>3, <1>4

\* A path that no operation names is left alone.
LEMMA OthersAreLeft ==
  ASSUME NEW fs, NEW ops, NEW p, \A i \in DOMAIN ops : ops[i].path # p
  PROVE  /\ p \in DOMAIN Outcome(fs, ops) <=> p \in DOMAIN fs
         /\ p \in DOMAIN fs => Outcome(fs, ops)[p] = fs[p]
<1>. DEFINE touched == {ops[i].path : i \in DOMAIN ops}
            last(q) == ops[CHOOSE i \in DOMAIN ops :
                             ops[i].path = q /\ \A j \in DOMAIN ops : ops[j].path = q => j <= i]
            written == {q \in touched : last(q).op = "write"}
<1>1. Outcome(fs, ops) = [q \in (DOMAIN fs \ touched) \cup written |->
                            IF q \in written THEN last(q).file ELSE fs[q]]
  BY DEF Outcome
<1>2. p \notin touched /\ p \notin written
  OBVIOUS
<1>. HIDE DEF touched, written, last
<1>. QED
  BY <1>1, <1>2

\* Carrying out one more operation of a batch is what the longer batch makes of the files.
LEMMA OutcomeStep ==
  ASSUME NEW fs, IsFcn(fs), NEW ops, IsBatch(ops), NEW n \in 0 .. Len(ops) - 1
  PROVE  Outcome(fs, SubSeq(ops, 1, n + 1)) = ApplyOp(Outcome(fs, SubSeq(ops, 1, n)), ops[n + 1])
<1>. DEFINE before == SubSeq(ops, 1, n)
            after  == SubSeq(ops, 1, n + 1)
            o      == ops[n + 1]
            left   == Outcome(fs, after)
            right  == ApplyOp(Outcome(fs, before), o)
<1>1. /\ n \in Nat /\ DOMAIN before = 1 .. n /\ DOMAIN after = 1 .. n + 1
      /\ \A i \in 1 .. n : before[i] = ops[i] /\ after[i] = ops[i]
      /\ after[n + 1] = o /\ o.op \in {"write", "delete"}
      /\ \A i \in 1 .. n : ops[i].op \in {"write", "delete"}
  BY BatchIsSeq
<1>. HIDE DEF before, after, o
<1>2. IsFcn(left) /\ IsFcn(right)
  BY OutcomeIsFcn, ApplyOpIsFcn
<1>3. ASSUME NEW p
      PROVE  (p \in DOMAIN left <=> p \in DOMAIN right) /\ (p \in DOMAIN left => left[p] = right[p])
  <2>1. CASE p = o.path
    <3>1. /\ p \in DOMAIN left <=> o.op = "write"
          /\ o.op = "write" => left[p] = o.file
      <4>1. n + 1 \in Nat /\ n + 1 \in 1 .. n + 1 /\ \A j \in 1 .. n + 1 : j <= n + 1
        BY <1>1
      <4>. QED
        BY <1>1, <2>1, <4>1, LastDecides
    <3>2. /\ p \in DOMAIN right <=> o.op = "write"
          /\ o.op = "write" => right[p] = o.file
      BY <1>1, <2>1 DEF ApplyOp
    <3>. QED
      BY <3>1, <3>2
  <2>2. CASE p # o.path /\ \A i \in 1 .. n : ops[i].path # p
    <3>1. \A i \in DOMAIN after : after[i].path # p
      BY <1>1, <2>2
    <3>2. \A i \in DOMAIN before : before[i].path # p
      BY <1>1, <2>2
    <3>3. /\ p \in DOMAIN right <=> p \in DOMAIN Outcome(fs, before)
          /\ p \in DOMAIN right => right[p] = Outcome(fs, before)[p]
      BY <2>2 DEF ApplyOp
    <3>4. /\ p \in DOMAIN left <=> p \in DOMAIN fs
          /\ p \in DOMAIN fs => left[p] = fs[p]
      BY <3>1, OthersAreLeft
    <3>5. /\ p \in DOMAIN Outcome(fs, before) <=> p \in DOMAIN fs
          /\ p \in DOMAIN fs => Outcome(fs, before)[p] = fs[p]
      BY <3>2, OthersAreLeft
    <3>. QED
      BY <3>3, <3>4, <3>5
  <2>3. CASE p # o.path /\ \E i \in 1 .. n : ops[i].path = p
    <3>. DEFINE T == {i \in 1 .. n : ops[i].path = p}
    <3>1. PICK k \in T : \A j \in T : j <= k
      <4>1. T \in SUBSET (1 .. n) /\ T # {}
        BY <2>3
      <4>. HIDE DEF T
      <4>. QED
        BY <1>1, <4>1, Largest
    <3>2. k \in 1 .. n /\ ops[k].path = p /\ \A j \in 1 .. n : ops[j].path = p => j <= k
      BY <3>1
    <3>. HIDE DEF T
    <3>3. /\ p \in DOMAIN Outcome(fs, before) <=> ops[k].op = "write"
          /\ ops[k].op = "write" => Outcome(fs, before)[p] = ops[k].file
      <4>1. before[k] = ops[k] /\ \A j \in 1 .. n : before[j].path = p => j <= k
        BY <1>1, <3>2
      <4>. QED
        BY <1>1, <3>2, <4>1, LastDecides
    <3>4. /\ p \in DOMAIN left <=> ops[k].op = "write"
          /\ ops[k].op = "write" => left[p] = ops[k].file
      <4>1. n + 1 \in Nat /\ k \in 1 .. n + 1 /\ after[k] = ops[k]
        BY <1>1, <3>2
      <4>2. ASSUME NEW j \in 1 .. n + 1, after[j].path = p PROVE j <= k
        <5>1. j # n + 1
          BY <1>1, <2>3, <3>2, <4>1, <4>2
        <5>2. j \in 1 .. n
          BY <1>1, <5>1
        <5>. QED
          BY <1>1, <3>2, <4>1, <4>2, <5>2
      <4>. QED
        BY <1>1, <3>2, <4>1, <4>2, LastDecides
    <3>5. /\ p \in DOMAIN right <=> p \in DOMAIN Outcome(fs, before)
          /\ p \in DOMAIN right => right[p] = Outcome(fs, before)[p]
      BY <2>3 DEF ApplyOp
    <3>. QED
      BY <3>3, <3>4, <3>5
  <2>. QED
    BY <2>1, <2>2, <2>3
<1>4. DOMAIN left = DOMAIN right
  BY <1>3
<1>5. left = right
  <2>. HIDE DEF left, right
  <2>. QED
    BY <1>2, <1>3, <1>4 DEF IsFcn
<1>. QED
  BY <1>5 DEF before, after, o

-----------------------------------------------------------------------------
(* What planMutation lets through                                           *)

\* Every operation of a batch that is not refused has a path on the allowlist, and
\* what it writes is of the kind of its path and within the limit of its kind.
LEMMA PlannedOps ==
  ASSUME NEW fs, NEW rev, NEW m, IsBatch(m.ops), PlanError(fs, rev, m) = "none"
  PROVE  /\ m.ops # <<>> /\ Len(m.ops) <= MaxOps
         /\ \A i \in 1 .. Len(m.ops) : OpError(fs, m.ops, i) = "none"
<1>. DEFINE checks == << <<m.expected # rev, "revision-conflict">>,
                         <<m.ops = <<>>, "empty-batch">>,
                         <<Len(m.ops) > MaxOps, "batch-too-large">> >>
<1>1. FirstFault(checks) = "none" /\ FirstOpError(fs, m.ops) = "none"
  BY DEF PlanError
<1>2. DOMAIN checks = 1 .. 3 /\ \A i \in 1 .. 3 : checks[i][2] # "none"
  OBVIOUS
<1>3. \A i \in 1 .. 3 : ~checks[i][1]
  <2>. HIDE DEF checks
  <2>. QED
    BY <1>1, <1>2, 3 \in Nat, NoFault, Zenon
<1>4. checks[2] = <<m.ops = <<>>, "empty-batch">> /\ checks[3] = <<Len(m.ops) > MaxOps, "batch-too-large">>
  OBVIOUS
<1>5. (checks[2][1] <=> m.ops = <<>>) /\ (checks[3][1] <=> Len(m.ops) > MaxOps)
  BY <1>4, Zenon
<1>6. m.ops # <<>> /\ ~(Len(m.ops) > MaxOps)
  <2>. HIDE DEF checks
  <2>1. 2 \in 1 .. 3 /\ 3 \in 1 .. 3
    OBVIOUS
  <2>. QED
    BY <1>3, <1>5, <2>1, Zenon
<1>7. Len(m.ops) <= MaxOps
  BY <1>6, BatchIsSeq, LimitsAssumption
<1>8. ASSUME NEW i \in 1 .. Len(m.ops) PROVE OpError(fs, m.ops, i) = "none"
  <2>. DEFINE each == [k \in DOMAIN m.ops |-> <<OpError(fs, m.ops, k) # "none", OpError(fs, m.ops, k)>>]
              faults == {k \in 1 .. Len(m.ops) : OpError(fs, m.ops, k) # "none"}
  <2>1. Len(m.ops) \in Nat /\ DOMAIN m.ops = 1 .. Len(m.ops)
    BY BatchIsSeq
  <2>2. \A k \in 1 .. Len(m.ops) :
          each[k] = <<OpError(fs, m.ops, k) # "none", OpError(fs, m.ops, k)>>
    BY <2>1
  <2>3. \A k \in 1 .. Len(m.ops) :
          (each[k][1] <=> OpError(fs, m.ops, k) # "none") /\ each[k][2] = OpError(fs, m.ops, k)
    <3>. HIDE DEF each
    <3>1. TAKE k \in 1 .. Len(m.ops)
    <3>2. each[k] = <<OpError(fs, m.ops, k) # "none", OpError(fs, m.ops, k)>>
      BY <2>2
    <3>3. each[k][1] <=> OpError(fs, m.ops, k) # "none"
      BY <3>2, PairOf, Zenon
    <3>4. each[k][2] = OpError(fs, m.ops, k)
      BY <3>2
    <3>. QED
      BY <3>3, <3>4
  <2>4. DOMAIN each = 1 .. Len(m.ops) /\ FirstFault(each) = "none"
    BY <1>1, <2>1 DEF FirstOpError
  <2>5. SUFFICES ASSUME OpError(fs, m.ops, i) # "none" PROVE FALSE
    OBVIOUS
  <2>. HIDE DEF each
  <2>6. \E k \in 1 .. Len(m.ops) : each[k][1] /\ \A j \in 1 .. k - 1 : ~each[j][1]
    <3>1. faults \in SUBSET Nat /\ faults # {}
      BY <2>1, <2>5
    <3>2. PICK k \in faults : \A j \in faults : k <= j
      <4>. HIDE DEF faults
      <4>. QED
        BY <3>1, Smallest
    <3>3. k \in 1 .. Len(m.ops) /\ OpError(fs, m.ops, k) # "none"
      OBVIOUS
    <3>4. ASSUME NEW j \in 1 .. k - 1 PROVE ~each[j][1]
      <4>1. j \in 1 .. Len(m.ops) /\ ~(k <= j)
        BY <2>1, <3>3
      <4>2. j \notin faults
        BY <3>2, <4>1
      <4>3. OpError(fs, m.ops, j) = "none"
        BY <4>1, <4>2
      <4>. QED
        BY <2>3, <4>1, <4>3
    <3>. QED
      BY <2>3, <3>3, <3>4
  <2>. DEFINE first == CHOOSE k \in DOMAIN each : each[k][1] /\ \A j \in 1 .. k - 1 : ~each[j][1]
  <2>7. first \in 1 .. Len(m.ops) /\ each[first][1]
    BY <2>4, <2>6
  <2>8. FirstFault(each) = each[first][2]
    BY <2>4, <2>6 DEF FirstFault
  <2>9. OpError(fs, m.ops, first) # "none" /\ each[first][2] = OpError(fs, m.ops, first)
    <3>. HIDE DEF first
    <3>. QED
      BY <2>3, <2>7
  <2>. QED
    BY <2>4, <2>8, <2>9
<1>. QED
  BY <1>6, <1>7, <1>8

LEMMA NoneOfTwo ==
  ASSUME NEW checks, NEW one \in BOOLEAN, NEW two \in BOOLEAN, NEW e1, NEW e2, "none" \notin {e1, e2},
         checks = << <<one, e1>>, <<two, e2>> >>,
         FirstFault(checks) = "none"
  PROVE  ~one /\ ~two
<1>1. DOMAIN checks = 1 .. 2 /\ \A k \in 1 .. 2 : checks[k][2] # "none"
  OBVIOUS
<1>2. \A k \in 1 .. 2 : ~checks[k][1]
  BY <1>1, 2 \in Nat, NoFault, Zenon
<1>3. ~checks[1][1] /\ ~checks[2][1]
  BY <1>2
<1>4. checks[1][1] = one /\ checks[2][1] = two
  OBVIOUS
<1>. QED
  BY <1>3, <1>4

LEMMA NoneOfThree ==
  ASSUME NEW checks, NEW one \in BOOLEAN, NEW two \in BOOLEAN, NEW three \in BOOLEAN,
         NEW e1, NEW e2, NEW e3, "none" \notin {e1, e2, e3},
         checks = << <<one, e1>>, <<two, e2>>, <<three, e3>> >>,
         FirstFault(checks) = "none"
  PROVE  ~one /\ ~two /\ ~three
<1>1. DOMAIN checks = 1 .. 3 /\ \A k \in 1 .. 3 : checks[k][2] # "none"
  OBVIOUS
<1>2. \A k \in 1 .. 3 : ~checks[k][1]
  BY <1>1, 3 \in Nat, NoFault, Zenon
<1>3. ~checks[1][1] /\ ~checks[2][1] /\ ~checks[3][1]
  BY <1>2
<1>4. checks[1][1] = one /\ checks[2][1] = two /\ checks[3][1] = three
  OBVIOUS
<1>. QED
  BY <1>3, <1>4

LEMMA NoneOfFour ==
  ASSUME NEW checks, NEW one \in BOOLEAN, NEW two \in BOOLEAN, NEW three \in BOOLEAN, NEW four \in BOOLEAN,
         checks = << <<one, "invalid-path">>, <<two, "type-mismatch">>,
                     <<three, "size-exceeded">>, <<four, "batch-too-large">> >>,
         FirstFault(checks) = "none"
  PROVE  ~one /\ ~two /\ ~three
<1>1. DOMAIN checks = 1 .. 4 /\ \A k \in 1 .. 4 : checks[k][2] # "none"
  OBVIOUS
<1>2. \A k \in 1 .. 4 : ~checks[k][1]
  BY <1>1, 4 \in Nat, NoFault, Zenon
<1>3. ~checks[1][1] /\ ~checks[2][1] /\ ~checks[3][1]
  BY <1>2
<1>4. checks[1][1] = one /\ checks[2][1] = two /\ checks[3][1] = three
  OBVIOUS
<1>. QED
  BY <1>3, <1>4

\* An operation that is let through has a path on the allowlist, and what it writes is
\* of the kind of its path and within the limit of its kind.
LEMMA LegalOp ==
  ASSUME NEW fs, NEW ops, NEW i, OpError(fs, ops, i) = "none"
  PROVE  /\ ops[i].path \in Path
         /\ (ops[i].op # "delete" /\ ops[i].file.bytes \in Int) =>
              /\ ops[i].kind = KindOf(ops[i].path)
              /\ ops[i].file.bytes <= (IF ops[i].kind = "text" THEN MaxText ELSE MaxBlob)
<1>. DEFINE o == ops[i]
            real  == KindOf(o.path)
            kind  == o.kind
            bytes == o.file.bytes
            limit == IF kind = "text" THEN MaxText ELSE MaxBlob
            total == BytesWritten(SubSeq(ops, 1, i))
            absent == o.path \notin DOMAIN Outcome(fs, SubSeq(ops, 1, i - 1))
            noPath == real = "none"
            mismatch == kind # real
            large == bytes > limit
            batch == total > MaxTotal
            onDelete == << <<noPath, "invalid-path">>, <<absent, "invalid-path">> >>
            onWrite  == << <<noPath, "invalid-path">>, <<mismatch, "type-mismatch">>,
                           <<large, "size-exceeded">>, <<batch, "batch-too-large">> >>
<1>1. /\ o.op = "delete" => FirstFault(onDelete) = "none"
      /\ o.op # "delete" => FirstFault(onWrite) = "none"
  BY DEF OpError
<1>. HIDE DEF total, limit, real, kind, bytes
<1>2. {noPath, absent, mismatch, large, batch} \subseteq BOOLEAN
  OBVIOUS
<1>3. /\ o.op = "delete" => ~noPath
      /\ o.op # "delete" => ~noPath /\ ~mismatch /\ ~large
  <2>. HIDE DEF o, noPath, absent, mismatch, large, batch
  <2>1. o.op = "delete" => ~noPath
    BY <1>1, <1>2, NoneOfTwo
  <2>2. o.op # "delete" => ~noPath /\ ~mismatch /\ ~large
    BY <1>1, <1>2, NoneOfFour
  <2>. QED
    BY <2>1, <2>2
<1>4. o.op # "delete" /\ bytes \in Int => bytes <= limit
  BY <1>3, LimitsAssumption DEF limit
<1>. QED
  BY <1>3, <1>4 DEF KindOf, Path, real, kind, bytes, limit

-----------------------------------------------------------------------------
(* Paths                                                                    *)

LEMMA PathsDiffer ==
  ASSUME NEW c, NEW e
  PROVE  /\ StoryYaml # MetaJson /\ StoryYaml # MediaJson /\ MetaJson # MediaJson
         /\ ContentFile(c) \notin {StoryYaml, MetaJson, MediaJson}
         /\ MediaFile(c, e) \notin {StoryYaml, MetaJson, MediaJson}
         /\ \A d : MediaFile(c, e) # ContentFile(d)
         /\ \A d, x : MediaFile(c, e) = MediaFile(d, x) => c = d /\ e = x
  BY DEF StoryYaml, MetaJson, MediaJson, ContentFile, MediaFile

LEMMA RanksOfPaths ==
  /\ Rank(StoryYaml) = 5 /\ Rank(MetaJson) = 4 /\ Rank(MediaJson) = 2
  /\ \A c : Rank(ContentFile(c)) = 1
  /\ \A c, e : Rank(MediaFile(c, e)) = 3
<1>1. Rank(StoryYaml) = 5
  BY DEF Rank, StoryYaml, MetaJson, MediaJson
<1>2. Rank(MetaJson) = 4
  BY DEF Rank, StoryYaml, MetaJson, MediaJson
<1>3. Rank(MediaJson) = 2
  BY DEF Rank, StoryYaml, MetaJson, MediaJson
<1>4. ASSUME NEW c PROVE Rank(ContentFile(c)) = 1
  <2>1. ContentFile(c)[1] = "content" /\ ContentFile(c) \notin {MediaJson, MetaJson, StoryYaml}
    BY PathsDiffer DEF ContentFile
  <2>. HIDE DEF ContentFile
  <2>. QED
    BY <2>1 DEF Rank
<1>5. ASSUME NEW c, NEW e PROVE Rank(MediaFile(c, e)) = 3
  <2>1. MediaFile(c, e)[1] = "media" /\ MediaFile(c, e) \notin {MediaJson, MetaJson, StoryYaml}
    BY PathsDiffer DEF MediaFile
  <2>. HIDE DEF MediaFile
  <2>. QED
    BY <2>1 DEF Rank
<1>. QED
  BY <1>1, <1>2, <1>3, <1>4, <1>5

\* The first files of a listing have story.yaml only when they are all of it, and an
\* image only when they have the index of the images too, if it is listed.
LEMMA FirstFilesOrder ==
  ASSUME NEW paths, paths \subseteq Path, NEW first \in FirstFiles(paths)
  PROVE  /\ first \subseteq paths
         /\ StoryYaml \in first => first = paths
         /\ \A c, e : MediaFile(c, e) \in first /\ MediaJson \in paths => MediaJson \in first
<1>1. first \subseteq paths /\ \A p \in first, q \in paths \ first : Rank(p) <= Rank(q)
  BY DEF FirstFiles
<1>2. ASSUME StoryYaml \in first, NEW q \in paths \ first PROVE FALSE
  <2>1. 5 <= Rank(q) /\ q # StoryYaml /\ q \in Path
    BY <1>1, <1>2, RanksOfPaths
  <2>2. Rank(q) \in {1, 2, 3, 4}
    BY <2>1, RanksOfPaths DEF Path, TextPath, BlobPath
  <2>. QED
    BY <2>1, <2>2
<1>3. ASSUME NEW c, NEW e, MediaFile(c, e) \in first, MediaJson \in paths \ first PROVE FALSE
  <2>1. 3 <= 2
    BY <1>1, <1>3, RanksOfPaths
  <2>. QED
    BY <2>1
<1>. QED
  BY <1>1, <1>2, <1>3

-----------------------------------------------------------------------------
(* Sets as sequences                                                        *)

LEMMA SeqOfSet ==
  ASSUME NEW S, IsFiniteSet(S)
  PROVE  /\ Cardinality(S) \in Nat
         /\ SetToSeq(S) \in [1 .. Cardinality(S) -> S]
         /\ \A x \in S : \E i \in 1 .. Cardinality(S) : SetToSeq(S)[i] = x
<1>. DEFINE n == Cardinality(S)
<1>1. n \in Nat /\ ExistsBijection(1 .. n, S)
  BY FS_CardinalityType
<1>2. \E f \in [1 .. n -> S] : IsInjective(f)
  BY <1>1 DEF ExistsBijection, Bijection, Injection
<1>3. SetToSeq(S) \in [1 .. n -> S] /\ IsInjective(SetToSeq(S))
  BY <1>2 DEF SetToSeq
<1>4. IsFiniteSet(1 .. n) /\ Cardinality(1 .. n) = n
  BY <1>1, FS_Interval
<1>5. SetToSeq(S) \in Surjection(1 .. n, S)
  <2>1. SetToSeq(S) \in Injection(1 .. n, S)
    BY <1>3 DEF Injection
  <2>. QED
    BY <1>4, <2>1, FS_Injection
<1>. QED
  BY <1>1, <1>3, <1>5 DEF Surjection

-----------------------------------------------------------------------------
(* What batches make of the files                                           *)

\* An operation on a path that no other operation of the batch names decides.
LEMMA OneDecides ==
  ASSUME NEW fs, NEW ops, IsBatch(ops), NEW k, k \in 1 .. Len(ops), NEW p, p = ops[k].path,
         \A j \in 1 .. Len(ops) : ops[j].path = p => j = k
  PROVE  /\ p \in DOMAIN Outcome(fs, ops) <=> ops[k].op = "write"
         /\ ops[k].op = "write" => Outcome(fs, ops)[p] = ops[k].file
<1>. DEFINE n == Len(ops)
<1>1. n \in Nat /\ DOMAIN ops = 1 .. n
  BY BatchIsSeq
<1>2. k \in 1 .. n /\ ops[k].path = p /\ \A j \in 1 .. n : ops[j].path = p => j <= k
  BY <1>1
<1>. HIDE DEF n
<1>. QED
  BY <1>1, <1>2, LastDecides

\* Some operation is the last on each path that a batch names.
LEMMA LastOnPath ==
  ASSUME NEW ops, IsBatch(ops), NEW p, \E i \in 1 .. Len(ops) : ops[i].path = p
  PROVE  \E k \in 1 .. Len(ops) : ops[k].path = p /\ \A j \in 1 .. Len(ops) : ops[j].path = p => j <= k
<1>. DEFINE T == {i \in 1 .. Len(ops) : ops[i].path = p}
<1>1. Len(ops) \in Nat /\ T \in SUBSET (1 .. Len(ops)) /\ T # {}
  BY BatchIsSeq
<1>2. \E k \in T : \A j \in T : j <= k
  <2>. HIDE DEF T
  <2>. QED
    BY <1>1, Largest
<1>. QED
  BY <1>2

\* A file is there after a batch, with what it holds, because an operation wrote it or
\* because it was there and no operation names it.
LEMMA WhereFilesComeFrom ==
  ASSUME NEW fs, NEW ops, IsBatch(ops), NEW p \in DOMAIN Outcome(fs, ops)
  PROVE  \/ \E k \in 1 .. Len(ops) : /\ ops[k].op = "write" /\ ops[k].path = p
                                     /\ Outcome(fs, ops)[p] = ops[k].file
         \/ p \in DOMAIN fs /\ Outcome(fs, ops)[p] = fs[p] /\ \A i \in 1 .. Len(ops) : ops[i].path # p
<1>1. Len(ops) \in Nat /\ DOMAIN ops = 1 .. Len(ops)
  BY BatchIsSeq
<1>2. CASE \A i \in 1 .. Len(ops) : ops[i].path # p
  BY <1>1, <1>2, OthersAreLeft
<1>3. CASE \E i \in 1 .. Len(ops) : ops[i].path = p
  <2>1. PICK k \in 1 .. Len(ops) : ops[k].path = p /\ \A j \in 1 .. Len(ops) : ops[j].path = p => j <= k
    BY <1>3, LastOnPath
  <2>. QED
    BY <1>1, <2>1, LastDecides
<1>. QED
  BY <1>2, <1>3

\* A batch leaves finitely many files if there were finitely many.
LEMMA OutcomeIsFinite ==
  ASSUME NEW fs, IsFiniteSet(DOMAIN fs), NEW ops, IsBatch(ops)
  PROVE  IsFiniteSet(DOMAIN Outcome(fs, ops))
<1>. DEFINE n == Len(ops)
            named == {ops[i].path : i \in 1 .. n}
            name == [i \in 1 .. n |-> ops[i].path]
<1>1. n \in Nat /\ IsFiniteSet(1 .. n)
  <2>1. n \in Nat /\ n \in Int /\ 1 \in Int
    BY BatchIsSeq
  <2>. HIDE DEF n
  <2>. QED
    BY <2>1, FS_Interval
<1>2. name \in Surjection(1 .. n, named)
  BY DEF Surjection
<1>3. IsFiniteSet(named)
  <2>. HIDE DEF named, name, n
  <2>. QED
    BY <1>1, <1>2, FS_Surjection
<1>4. DOMAIN Outcome(fs, ops) \subseteq DOMAIN fs \cup named
  BY WhereFilesComeFrom
<1>5. IsFiniteSet(DOMAIN fs \cup named)
  BY <1>3, FS_Union
<1>. QED
  BY <1>4, <1>5, FS_Subset

\* A batch that only deletes takes away the files it names and changes nothing else.
LEMMA DeletionOutcome ==
  ASSUME NEW fs, NEW ops, IsBatch(ops), \A i \in 1 .. Len(ops) : ops[i].op = "delete"
  PROVE  /\ DOMAIN Outcome(fs, ops) = DOMAIN fs \ {ops[i].path : i \in 1 .. Len(ops)}
         /\ \A p \in DOMAIN Outcome(fs, ops) : Outcome(fs, ops)[p] = fs[p]
<1>1. Len(ops) \in Nat /\ DOMAIN ops = 1 .. Len(ops)
  BY BatchIsSeq
<1>2. ASSUME NEW p \in DOMAIN Outcome(fs, ops)
      PROVE  /\ p \in DOMAIN fs \ {ops[i].path : i \in 1 .. Len(ops)}
             /\ Outcome(fs, ops)[p] = fs[p]
  <2>1. "write" # "delete"
    OBVIOUS
  <2>. QED
    BY <2>1, WhereFilesComeFrom
<1>3. ASSUME NEW p \in DOMAIN fs \ {ops[i].path : i \in 1 .. Len(ops)}
      PROVE  p \in DOMAIN Outcome(fs, ops)
  BY <1>1, OthersAreLeft
<1>. QED
  BY <1>2, <1>3

\* What a listing lists is what there is.
LEMMA ListedIsDomain ==
  ASSUME NEW fs, NEW rev
  PROVE  /\ Listed(Listing(fs, rev)) = DOMAIN fs
         /\ {e.path : e \in Listing(fs, rev).entries} = DOMAIN fs
<1>. DEFINE entry(p) == [path |-> p, bytes |-> fs[p].bytes]
            entries == {entry(p) : p \in DOMAIN fs}
<1>1. Listing(fs, rev).entries = entries
  BY DEF Listing
<1>2. \A p : entry(p).path = p
  OBVIOUS
<1>3. {e.path : e \in entries} = DOMAIN fs
  <2>. HIDE DEF entry
  <2>. QED
    BY <1>2
<1>. QED
  BY <1>1, <1>3 DEF Listed
=============================================================================
