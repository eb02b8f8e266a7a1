--------------------------- MODULE StoryMap_proofs ---------------------------
(***************************************************************************)
(* A story, its snapshot and its map, for every story that an agent may    *)
(* write, checked by TLAPS.                                                *)
(***************************************************************************)
EXTENDS StoryMap, FiniteSetTheorems, TLAPS

-----------------------------------------------------------------------------
(* The story and its snapshot                                               *)

\* No error is found where nothing is at fault.
LEMMA NothingFound ==
  ASSUME NEW faults, NEW id, Found(faults, id) = {}
  PROVE  \A f \in DOMAIN faults : ~faults[f]
<1>. SUFFICES ASSUME NEW f \in DOMAIN faults, faults[f] PROVE FALSE
  OBVIOUS
<1>1. [at |-> id, what |-> f] \in Found(faults, id)
  BY DEF Found
<1>. QED
  BY <1>1

LEMMA FieldOfFaults ==
  \A a, b, c, d, e, f, g, h :
    LET faults == [field |-> a, content |-> b, choices |-> c, type |-> d, ways |-> e, ending |-> f,
                   next |-> g, target |-> h]
    IN /\ DOMAIN faults = {"field", "content", "choices", "type", "ways", "ending", "next", "target"}
       /\ faults["type"] = d /\ faults["ways"] = e /\ faults["next"] = g /\ faults["target"] = h
  OBVIOUS

LEMMA NoFaultOfNode ==
  ASSUME NEW spec, Errors(spec) = {}, NEW id \in DOMAIN spec.nodes
  PROVE  LET node == spec.nodes[id] IN
         /\ node.kind # "other" /\ ~WrongWays(node)
         /\ ~(node.next # None /\ ~Exists(spec, node.next))
         /\ ~(\E i \in DOMAIN ChoicesOf(node) : ~Exists(spec, ChoicesOf(node)[i].target))
<1>. DEFINE node == spec.nodes[id]
<1>1. Found(NodeFaults(spec, node), id) = {}
  BY DEF Errors
<1>2. \A f \in DOMAIN NodeFaults(spec, node) : ~NodeFaults(spec, node)[f]
  BY <1>1, NothingFound
<1>3. /\ DOMAIN NodeFaults(spec, node) =
           {"field", "content", "choices", "type", "ways", "ending", "next", "target"}
      /\ NodeFaults(spec, node)["type"] = (node.kind = "other")
      /\ NodeFaults(spec, node)["ways"] = WrongWays(node)
      /\ NodeFaults(spec, node)["next"] = (node.next # None /\ ~Exists(spec, node.next))
      /\ NodeFaults(spec, node)["target"] =
           (\E i \in DOMAIN ChoicesOf(node) : ~Exists(spec, ChoicesOf(node)[i].target))
  BY FieldOfFaults, Zenon DEF NodeFaults
<1>. QED
  BY <1>2, <1>3, Zenon

LEMMA NoFaultOfStory ==
  ASSUME NEW spec, Errors(spec) = {}
  PROVE  spec.start \in DOMAIN spec.nodes
<1>1. Found(StoryFaults(spec), None) = {}
  BY DEF Errors
<1>2. \A f \in DOMAIN StoryFaults(spec) : ~StoryFaults(spec)[f]
  BY <1>1, NothingFound
<1>3. \A a, b, c : LET faults == [header |-> a, nodes |-> b, start |-> c]
                   IN DOMAIN faults = {"header", "nodes", "start"} /\ faults["nodes"] = b /\ faults["start"] = c
  OBVIOUS
<1>4. /\ DOMAIN StoryFaults(spec) = {"header", "nodes", "start"}
      /\ StoryFaults(spec)["nodes"] = (DOMAIN spec.nodes = {})
      /\ StoryFaults(spec)["start"] =
           (DOMAIN spec.nodes # {} /\ ~(Named(spec.start) /\ Exists(spec, spec.start)))
  BY <1>3, Zenon DEF StoryFaults
<1>. QED
  BY <1>2, <1>4, Zenon DEF Exists

\* A snapshot is closed: it has every page that it leads to.
LEMMA SnapshotOfBook ==
  ASSUME NEW b, Build(b) # None
  PROVE  /\ Errors(b.spec) = {} /\ WithinLimits(b) /\ WaysOnExist(b.spec) /\ Build(b) = Snapshot(b)
         /\ Build(b).start = b.spec.start /\ Build(b).start \in DOMAIN b.spec.nodes
         /\ DOMAIN Build(b).pages = DOMAIN b.spec.nodes
         /\ \A id \in DOMAIN b.spec.nodes : Build(b).pages[id] = PageOf(b, b.spec.nodes[id])
         /\ Build(b).title = b.title /\ Build(b).images = ImagesOf(b)
<1>1. Errors(b.spec) = {} /\ WithinLimits(b) /\ WaysOnExist(b.spec) /\ Build(b) = Snapshot(b)
  BY DEF Build
<1>2. b.spec.start \in DOMAIN b.spec.nodes
  BY <1>1, NoFaultOfStory
<1>. QED
  BY <1>1, <1>2 DEF Snapshot

LEMMA PageFields ==
  ASSUME NEW b, NEW node
  PROVE  /\ PageOf(b, node).choices = ChoicesOf(node)
         /\ PageOf(b, node).next = IF HasChoices(node) THEN None ELSE node.next
         /\ PageOf(b, node).text = IF Chapter(node) = None THEN 0 ELSE b.text[Chapter(node)]
         /\ PageOf(b, node).image =
              IF Chapter(node) # None /\ b.media[Chapter(node)] > 0 THEN Chapter(node) ELSE None
  BY DEF PageOf

-----------------------------------------------------------------------------
(* Natural numbers, and functions defined by recursion on them              *)

LEMMA Smallest ==
  ASSUME NEW T \in SUBSET Nat, T # {}
  PROVE  \E n \in T : \A m \in T : n <= m
<1>. DEFINE R == {ss \in Nat \X Nat : ss[1] < ss[2]}
<1>1. PICK n \in T : \A m \in T : <<m, n>> \notin R
  <2>1. IsWellFoundedOn(R, Nat)
    BY NatLessThanWellFounded DEF OpToRel
  <2>. HIDE DEF R
  <2>. QED
    BY <2>1, WFMin
<1>2. ASSUME NEW m \in T PROVE n <= m
  <2>1. m < n => <<m, n>> \in R
    OBVIOUS
  <2>. QED
    BY <1>1, <2>1
<1>. QED
  BY <1>2

LEMMA MinIsLeast ==
  ASSUME NEW T \in SUBSET Nat, T # {}
  PROVE  Min(T) \in T /\ \A m \in T : Min(T) <= m
  BY Smallest DEF Min

\* Induction up to a bound, over a set of numbers.
LEMMA UpTo ==
  ASSUME NEW bound \in Nat, NEW P, 0 \in P, \A n \in 1 .. bound : n - 1 \in P => n \in P
  PROVE  \A n \in 0 .. bound : n \in P
<1>. DEFINE T == (0 .. bound) \ P
<1>. SUFFICES ASSUME T # {} PROVE FALSE
  OBVIOUS
<1>1. PICK n \in T : \A m \in T : n <= m
  <2>1. T \in SUBSET Nat
    OBVIOUS
  <2>. HIDE DEF T
  <2>. QED
    BY <2>1, Smallest
<1>2. n \in 1 .. bound /\ n \notin P /\ n - 1 \in 0 .. bound
  OBVIOUS
<1>3. n - 1 \notin T
  BY <1>1, <1>2
<1>. QED
  BY <1>2, <1>3

\* What is made of something by one step after the other.
Iterates(f, bound, S, begin, step) ==
  f \in [0 .. bound -> S] /\ f[0] = begin /\ \A n \in 1 .. bound : f[n] = step[n][f[n - 1]]

LEMMA RecursionExists ==
  ASSUME NEW bound \in Nat, NEW S, NEW begin \in S, NEW step \in [1 .. bound -> [S -> S]]
  PROVE  \E f : Iterates(f, bound, S, begin, step)
<1>. DEFINE P == {k \in 0 .. bound :
                    \E f \in [0 .. k -> S] : f[0] = begin /\ \A n \in 1 .. k : f[n] = step[n][f[n - 1]]}
<1>1. 0 \in P
  <2>1. PICK f : f = [n \in 0 .. 0 |-> begin]
    OBVIOUS
  <2>2. f \in [0 .. 0 -> S] /\ f[0] = begin /\ \A n \in 1 .. 0 : FALSE
    BY <2>1
  <2>3. \E g \in [0 .. 0 -> S] : g[0] = begin /\ \A n \in 1 .. 0 : g[n] = step[n][g[n - 1]]
    BY <2>2
  <2>. QED
    BY <2>3
<1>2. ASSUME NEW n \in 1 .. bound, n - 1 \in P
      PROVE  n \in P
  <2>1. PICK f \in [0 .. n - 1 -> S] : f[0] = begin /\ \A k \in 1 .. n - 1 : f[k] = step[k][f[k - 1]]
    BY <1>2
  <2>2. PICK g : g = [k \in 0 .. n |-> IF k < n THEN f[k] ELSE step[n][f[n - 1]]]
    OBVIOUS
  <2>3. f[n - 1] \in S /\ step[n][f[n - 1]] \in S
    BY <2>1
  <2>4. g \in [0 .. n -> S]
    BY <2>1, <2>2, <2>3
  <2>5. g[0] = begin
    BY <2>1, <2>2
  <2>6. ASSUME NEW k \in 1 .. n
        PROVE  g[k] = step[k][g[k - 1]]
    <3>1. CASE k < n
      BY <2>1, <2>2, <3>1
    <3>2. CASE k = n
      BY <2>1, <2>2, <3>2
    <3>. QED
      BY <3>1, <3>2
  <2>. QED
    BY <2>4, <2>5, <2>6
<1>3. bound \in P
  <2>. HIDE DEF P
  <2>1. \A n \in 0 .. bound : n \in P
    BY <1>1, <1>2, UpTo
  <2>. QED
    BY <2>1
<1>. QED
  BY <1>3 DEF Iterates

-----------------------------------------------------------------------------
(* The search that orders the cards of the map                              *)

LEMMA LargerSet ==
  ASSUME NEW S, NEW T, S \subseteq T, NEW s \in Seq(S)
  PROVE  s \in Seq(T)
<1>1. s \in [1 .. Len(s) -> T] /\ Len(s) \in Nat
  OBVIOUS
<1>. QED
  BY <1>1

LEMMA InToSet ==
  ASSUME NEW s
  PROVE  \A x : x \in ToSet(s) <=> \E k \in DOMAIN s : s[k] = x
  BY DEF ToSet

\* One sequence after another.
LEMMA Joined ==
  ASSUME NEW S, NEW s \in Seq(S), NEW t \in Seq(S)
  PROVE  /\ s \o t \in Seq(S) /\ Len(s \o t) = Len(s) + Len(t)
         /\ \A k \in 1 .. Len(s) : (s \o t)[k] = s[k]
         /\ ToSet(s \o t) = ToSet(s) \cup ToSet(t)
<1>1. PICK u : u = s \o t
  OBVIOUS
<1>2. u \in Seq(S)
  BY <1>1
<1>3. Len(u) = Len(s) + Len(t)
  BY <1>1
<1>4. \A k \in 1 .. Len(s) : u[k] = s[k]
  BY <1>1
<1>5. \A k \in 1 .. Len(t) : u[Len(s) + k] = t[k]
  BY <1>1
<1>6. Len(s) \in Nat /\ Len(t) \in Nat /\ DOMAIN u = 1 .. Len(s) + Len(t)
  BY <1>2, <1>3
<1>7. ASSUME NEW k \in DOMAIN u
      PROVE  u[k] \in ToSet(s) \cup ToSet(t)
  <2>1. CASE k <= Len(s)
    BY <1>4, <1>6, <2>1, InToSet
  <2>2. CASE k > Len(s)
    <3>1. k - Len(s) \in 1 .. Len(t) /\ Len(s) + (k - Len(s)) = k
      BY <1>6, <2>2
    <3>2. k - Len(s) \in DOMAIN t /\ u[k] = t[k - Len(s)]
      BY <1>5, <3>1
    <3>. QED
      BY <3>2, InToSet
  <2>. QED
    BY <1>6, <2>1, <2>2
<1>8. ASSUME NEW k \in DOMAIN s
      PROVE  s[k] \in ToSet(u)
  BY <1>4, <1>6, InToSet
<1>9. ASSUME NEW k \in DOMAIN t
      PROVE  t[k] \in ToSet(u)
  <2>1. Len(s) + k \in DOMAIN u /\ u[Len(s) + k] = t[k]
    BY <1>5, <1>6
  <2>. QED
    BY <2>1, InToSet
<1>10. ToSet(u) = ToSet(s) \cup ToSet(t)
  BY ONLY <1>7, <1>8, <1>9, InToSet
<1>. QED
  BY <1>1, <1>2, <1>3, <1>4, <1>10

LEMMA OneElement ==
  ASSUME NEW P, NEW x \in P
  PROVE  <<x>> \in Seq(P) /\ Len(<<x>>) = 1 /\ <<x>>[1] = x /\ <<x>> # <<>> /\ ToSet(<<x>>) = {x}
<1>1. <<x>> \in Seq(P) /\ Len(<<x>>) = 1 /\ <<x>>[1] = x /\ <<x>> # <<>>
  OBVIOUS
<1>2. PICK one : one = <<x>>
  OBVIOUS
<1>3. DOMAIN one = {1} /\ one[1] = x
  BY <1>2
<1>4. ToSet(one) = {x}
  BY ONLY <1>3, InToSet
<1>. QED
  BY <1>1, <1>2, <1>4

LEMMA Appended ==
  ASSUME NEW S, NEW s \in Seq(S), NEW x \in S
  PROVE  /\ Append(s, x) \in Seq(S) /\ Len(Append(s, x)) = Len(s) + 1
         /\ \A k \in 1 .. Len(s) : Append(s, x)[k] = s[k]
         /\ Append(s, x)[Len(s) + 1] = x /\ ToSet(Append(s, x)) = ToSet(s) \cup {x}
<1>1. PICK u : u = Append(s, x)
  OBVIOUS
<1>2. /\ u \in Seq(S) /\ Len(u) = Len(s) + 1 /\ Len(s) \in Nat
      /\ \A k \in 1 .. Len(s) : u[k] = s[k]
      /\ u[Len(s) + 1] = x
  BY <1>1
<1>3. DOMAIN u = 1 .. Len(s) + 1 /\ DOMAIN s = 1 .. Len(s)
  BY <1>2
<1>4. \A k \in DOMAIN u : u[k] \in ToSet(s) \cup {x}
  BY <1>2, <1>3, InToSet
<1>5. \A k \in DOMAIN s : s[k] \in ToSet(u)
  BY <1>2, <1>3, InToSet
<1>6. x \in ToSet(u)
  BY <1>2, <1>3, InToSet
<1>7. ToSet(u) = ToSet(s) \cup {x}
  BY ONLY <1>4, <1>5, <1>6, InToSet
<1>. QED
  BY <1>1, <1>2, <1>7

LEMMA LinksOf ==
  ASSUME NEW spec, IsStory(spec), NEW id \in DOMAIN spec.nodes
  PROVE  LET node == spec.nodes[id]   links == Links(spec, id) IN
         /\ links \in Seq([label : Nat \cup {None}, target : Target])
         /\ \A to : (\E link \in ToSet(links) : link.target = to)
                      <=> (node.next # None /\ to = node.next) \/ Offered(node, to)
<1>. DEFINE node == spec.nodes[id]
<1>1. PICK L : L = [label : Nat \cup {None}, target : Target]
  OBVIOUS
<1>2. PICK choices : choices = ChoicesOf(node)
  OBVIOUS
<1>3. choices \in Seq([label : Nat, target : Target]) /\ node.next \in Target \cup {None}
  BY <1>2 DEF IsStory
<1>4. [label : Nat, target : Target] \subseteq L
  BY <1>1
<1>5. choices \in Seq(L)
  BY <1>3, <1>4, LargerSet
<1>6. \A to : Offered(node, to) <=> \E link \in ToSet(choices) : link.target = to
  BY <1>2, InToSet DEF Offered
<1>7. CASE node.next = None
  <2>1. Links(spec, id) = choices
    BY <1>2, <1>5, <1>7 DEF Links
  <2>. QED
    BY <1>1, <1>5, <1>6, <1>7, <2>1
<1>8. CASE node.next # None
  <2>1. PICK link : link = [label |-> None, target |-> node.next]
    OBVIOUS
  <2>2. link \in L /\ link.target = node.next
    BY <1>1, <1>3, <1>8, <2>1
  <2>3. PICK one : one = <<link>>
    OBVIOUS
  <2>4. one \in Seq(L) /\ ToSet(one) = {link}
    BY <2>2, <2>3, OneElement
  <2>5. Links(spec, id) = one \o choices
    BY <1>2, <1>8, <2>1, <2>3 DEF Links
  <2>6. one \o choices \in Seq(L) /\ ToSet(one \o choices) = {link} \cup ToSet(choices)
    BY <1>5, <2>4, Joined
  <2>7. Links(spec, id) \in Seq(L) /\ ToSet(Links(spec, id)) = {link} \cup ToSet(choices)
    BY <2>5, <2>6
  <2>. QED
    BY <1>1, <1>6, <1>8, <2>2, <2>7
<1>. QED
  BY <1>7, <1>8

\* What the search may be at.
SearchesOf(spec) == [order : Seq(DOMAIN spec.nodes), queue : Seq(Target)]

TargetsOf(spec, id) == {link.target : link \in ToSet(Links(spec, id))}

LEMMA VisitOf ==
  ASSUME NEW spec, IsStory(spec), NEW search \in SearchesOf(spec)
  PROVE  /\ Visit(spec, search) \in SearchesOf(spec)
         /\ Fresh(spec, search) = {} => Visit(spec, search) = search
         /\ Fresh(spec, search) # {} =>
              \E id \in DOMAIN spec.nodes :
                /\ id \notin ToSet(search.order) /\ id \in ToSet(search.queue) /\ Named(id)
                /\ Visit(spec, search).order = Append(search.order, id)
                /\ ToSet(Visit(spec, search).queue) = ToSet(search.queue) \cup TargetsOf(spec, id)
<1>1. CASE Fresh(spec, search) = {}
  BY <1>1 DEF Visit
<1>2. CASE Fresh(spec, search) # {}
  <2>1. search.order \in Seq(DOMAIN spec.nodes) /\ search.queue \in Seq(Target)
    BY DEF SearchesOf
  <2>2. PICK i : i = Min(Fresh(spec, search))
    OBVIOUS
  <2>3. i \in Fresh(spec, search)
    <3>1. Fresh(spec, search) \in SUBSET Nat
      BY <2>1 DEF Fresh
    <3>. QED
      BY <1>2, <2>2, <3>1, MinIsLeast
  <2>4. PICK id : id = search.queue[i]
    OBVIOUS
  <2>5. /\ i \in DOMAIN search.queue /\ id \in DOMAIN spec.nodes
        /\ id \notin ToSet(search.order) /\ Named(id)
    BY <2>3, <2>4 DEF Fresh, LeadsTo, Exists
  <2>6. id \in ToSet(search.queue)
    BY <2>4, <2>5, InToSet
  <2>7. PICK links : links = Links(spec, id)
    OBVIOUS
  <2>8. links \in Seq([label : Nat \cup {None}, target : Target])
    BY <2>5, <2>7, LinksOf
  <2>9. PICK targets : targets = [k \in DOMAIN links |-> links[k].target]
    OBVIOUS
  <2>10. targets \in Seq(Target)
    <3>1. DOMAIN links = 1 .. Len(links) /\ Len(links) \in Nat
      BY <2>8
    <3>2. \A k \in DOMAIN links : links[k].target \in Target
      <4>1. PICK L : L = [label : Nat \cup {None}, target : Target]
        OBVIOUS
      <4>2. links \in Seq(L)
        BY <2>8, <4>1
      <4>3. \A k \in DOMAIN links : links[k] \in L
        BY <4>2
      <4>. QED
        BY <4>1, <4>3
    <3>3. targets \in [1 .. Len(links) -> Target]
      BY <2>9, <3>1, <3>2
    <3>. QED
      BY <3>1, <3>3
  <2>11. ToSet(targets) = TargetsOf(spec, id)
    <3>1. DOMAIN targets = DOMAIN links /\ \A k \in DOMAIN links : targets[k] = links[k].target
      BY <2>9
    <3>2. \A x : x \in ToSet(targets) <=> \E k \in DOMAIN links : links[k].target = x
      BY <3>1, InToSet
    <3>3. \A x : x \in TargetsOf(spec, id) <=> \E k \in DOMAIN links : links[k].target = x
      BY <2>7, InToSet DEF TargetsOf
    <3>. QED
      BY <3>2, <3>3
  <2>12. Visit(spec, search) = [order |-> Append(search.order, id), queue |-> search.queue \o targets]
    BY <1>2, <2>2, <2>4, <2>7, <2>9, Zenon DEF Visit
  <2>13. /\ search.queue \o targets \in Seq(Target)
         /\ ToSet(search.queue \o targets) = ToSet(search.queue) \cup ToSet(targets)
    BY <2>1, <2>10, Joined
  <2>14. Append(search.order, id) \in Seq(DOMAIN spec.nodes)
    BY <2>1, <2>5, Appended
  <2>15. Visit(spec, search) \in SearchesOf(spec)
    BY <2>12, <2>13, <2>14 DEF SearchesOf
  <2>16. /\ Visit(spec, search).order = Append(search.order, id)
         /\ ToSet(Visit(spec, search).queue) = ToSet(search.queue) \cup TargetsOf(spec, id)
    BY <2>11, <2>12, <2>13
  <2>. QED
    BY <1>2, <2>5, <2>6, <2>15, <2>16
<1>. QED
  BY <1>1, <1>2

\* The search is what its turns make of the start.
LEMMA SearchOf ==
  ASSUME NEW spec, IsStory(spec)
  PROVE  /\ Search(spec)[0] = [order |-> <<>>, queue |-> <<spec.start>>]
         /\ \A n \in 1 .. Len(Names) : Search(spec)[n] = Visit(spec, Search(spec)[n - 1])
         /\ \A n \in 0 .. Len(Names) : Search(spec)[n] \in SearchesOf(spec)
<1>. DEFINE S == SearchesOf(spec)
            begin == [order |-> <<>>, queue |-> <<spec.start>>]
            step == [n \in 1 .. Len(Names) |-> [search \in S |-> Visit(spec, search)]]
<1>1. Len(Names) \in Nat
  BY NamesAssumption
<1>2. begin \in S
  <2>1. <<spec.start>> \in Seq(Target)
    BY OneElement DEF IsStory
  <2>. QED
    BY <2>1 DEF SearchesOf
<1>3. step \in [1 .. Len(Names) -> [S -> S]]
  BY VisitOf
<1>4. PICK f \in [0 .. Len(Names) -> S] :
        f[0] = begin /\ \A n \in 1 .. Len(Names) : f[n] = step[n][f[n - 1]]
  <2>1. \E f : Iterates(f, Len(Names), S, begin, step)
    <3>. HIDE DEF S, begin, step
    <3>. QED
      BY <1>1, <1>2, <1>3, RecursionExists
  <2>. QED
    BY <2>1 DEF Iterates
<1>5. \A n \in 1 .. Len(Names) : n - 1 \in 0 .. Len(Names)
  BY <1>1
<1>6. \A n \in 1 .. Len(Names) : f[n] = Visit(spec, f[n - 1])
  BY <1>4, <1>5
<1>7. f = [n \in 0 .. Len(Names) |-> IF n = 0 THEN begin ELSE Visit(spec, f[n - 1])]
  BY <1>1, <1>4, <1>6
<1>8. Search(spec) = CHOOSE g : g = [n \in 0 .. Len(Names) |-> IF n = 0 THEN begin ELSE Visit(spec, g[n - 1])]
  BY DEF Search
<1>9. Search(spec) = [n \in 0 .. Len(Names) |-> IF n = 0 THEN begin ELSE Visit(spec, Search(spec)[n - 1])]
  <2>. HIDE DEF begin, S, step
  <2>. QED
    BY <1>7, <1>8, Zenon
<1>10. Search(spec)[0] = begin /\ \A n \in 1 .. Len(Names) : Search(spec)[n] = Visit(spec, Search(spec)[n - 1])
  <2>. HIDE DEF begin, S, step
  <2>. QED
    BY <1>1, <1>9
<1>11. \A n \in 0 .. Len(Names) : Search(spec)[n] \in S
  <2>1. PICK P : P = {n \in 0 .. Len(Names) : Search(spec)[n] \in S}
    OBVIOUS
  <2>2. 0 \in P
    BY <1>1, <1>2, <1>10, <2>1
  <2>3. \A n \in 1 .. Len(Names) : n - 1 \in P => n \in P
    BY <1>1, <1>10, <2>1, VisitOf
  <2>. QED
    BY <1>1, <2>1, <2>2, <2>3, UpTo
<1>. QED
  BY <1>10, <1>11

LEMMA ElementsOfSeq ==
  ASSUME NEW S, NEW s \in Seq(S)
  PROVE  IsFiniteSet(ToSet(s)) /\ Cardinality(ToSet(s)) <= Len(s) /\ Cardinality(ToSet(s)) \in Nat
<1>1. Len(s) \in Nat /\ DOMAIN s = 1 .. Len(s)
  OBVIOUS
<1>2. IsFiniteSet(1 .. Len(s)) /\ Cardinality(1 .. Len(s)) = Len(s)
  <2>1. 0 <= Len(s) /\ 0 \in Int /\ 1 \in Int /\ Len(s) \in Int
    BY <1>1
  <2>2. IsFiniteSet(1 .. Len(s)) /\ Cardinality(1 .. Len(s)) = IF 1 > Len(s) THEN 0 ELSE Len(s) - 1 + 1
    BY <2>1, FS_Interval
  <2>. QED
    BY <1>1, <2>2
<1>3. s \in Surjection(1 .. Len(s), ToSet(s))
  <2>1. s \in [1 .. Len(s) -> ToSet(s)]
    BY <1>1, InToSet
  <2>2. \A x \in ToSet(s) : \E k \in 1 .. Len(s) : s[k] = x
    BY <1>1, InToSet
  <2>. QED
    BY <2>1, <2>2 DEF Surjection
<1>4. IsFiniteSet(ToSet(s)) /\ Cardinality(ToSet(s)) <= Cardinality(1 .. Len(s))
  BY <1>2, <1>3, FS_Surjection
<1>. QED
  BY <1>2, <1>4, FS_CardinalityType

\* Every turn of the search adds a page, until nothing is left to be seen.
LEMMA SearchCounts ==
  ASSUME NEW spec, IsStory(spec)
  PROVE  \A n \in 0 .. Len(Names) :
           Cardinality(ToSet(Search(spec)[n].order)) = n \/ Fresh(spec, Search(spec)[n]) = {}
<1>1. PICK P : P = {n \in 0 .. Len(Names) :
                      Cardinality(ToSet(Search(spec)[n].order)) = n \/ Fresh(spec, Search(spec)[n]) = {}}
  OBVIOUS
<1>2. Len(Names) \in Nat
  BY NamesAssumption
<1>3. 0 \in P
  <2>1. Search(spec)[0] = [order |-> <<>>, queue |-> <<spec.start>>]
    BY SearchOf, Zenon
  <2>2. Search(spec)[0].order = <<>>
    BY <2>1
  <2>3. ToSet(<<>>) = {}
    BY DEF ToSet
  <2>4. Cardinality(ToSet(Search(spec)[0].order)) = 0
    BY <2>2, <2>3, FS_EmptySet
  <2>. QED
    BY <1>1, <1>2, <2>4
<1>4. ASSUME NEW n \in 1 .. Len(Names), n - 1 \in P
      PROVE  n \in P
  <2>1. PICK before, after : before = Search(spec)[n - 1] /\ after = Search(spec)[n]
    OBVIOUS
  <2>2. after = Visit(spec, before) /\ before \in SearchesOf(spec)
    <3>1. n \in 0 .. Len(Names) /\ n - 1 \in 0 .. Len(Names)
      BY <1>2
    <3>. QED
      BY <2>1, <3>1, SearchOf, Zenon
  <2>3. CASE Fresh(spec, before) = {}
    <3>1. after = before
      BY <2>2, <2>3, VisitOf
    <3>2. n \in 0 .. Len(Names) /\ Fresh(spec, Search(spec)[n]) = {}
      BY <1>2, <2>1, <2>3, <3>1
    <3>. QED
      BY <1>1, <3>2
  <2>4. CASE Fresh(spec, before) # {}
    <3>1. PICK id \in DOMAIN spec.nodes : id \notin ToSet(before.order) /\ after.order = Append(before.order, id)
      BY <2>2, <2>4, VisitOf
    <3>2. before.order \in Seq(DOMAIN spec.nodes)
      BY <2>2 DEF SearchesOf
    <3>3. ToSet(after.order) = ToSet(before.order) \cup {id}
      BY <3>1, <3>2, Appended
    <3>4. IsFiniteSet(ToSet(before.order))
      BY <3>2, ElementsOfSeq
    <3>5. Cardinality(ToSet(after.order)) = Cardinality(ToSet(before.order)) + 1
      BY <3>1, <3>3, <3>4, FS_AddElement
    <3>6. Cardinality(ToSet(before.order)) = n - 1
      BY <1>1, <1>4, <2>1, <2>4
    <3>7. Cardinality(ToSet(after.order)) = n
      BY <3>5, <3>6
    <3>. QED
      BY <1>1, <2>1, <3>7
  <2>. QED
    BY <2>3, <2>4
<1>5. \A n \in 0 .. Len(Names) : n \in P
  BY <1>2, <1>3, <1>4, UpTo
<1>. QED
  BY <1>1, <1>5

\* In the end everything that can be seen was seen.
LEMMA SearchEnds ==
  ASSUME NEW spec, IsStory(spec)
  PROVE  Fresh(spec, Search(spec)[Len(Names)]) = {}
<1>1. PICK search : search = Search(spec)[Len(Names)]
  OBVIOUS
<1>2. Len(Names) \in Nat /\ Names \in Seq(ToSet(Names))
  BY NamesAssumption
<1>3. search \in SearchesOf(spec)
  <2>1. Len(Names) \in 0 .. Len(Names)
    BY <1>2
  <2>. QED
    BY <1>1, <2>1, SearchOf, Zenon
<1>4. search.order \in Seq(DOMAIN spec.nodes)
  BY <1>3 DEF SearchesOf
<1>5. ASSUME Cardinality(ToSet(search.order)) = Len(Names)
      PROVE  Fresh(spec, search) = {}
  <2>1. ToSet(search.order) \subseteq DOMAIN spec.nodes
    BY <1>4, InToSet
  <2>2. DOMAIN spec.nodes \subseteq ToSet(Names)
    BY DEF IsStory
  <2>3. /\ IsFiniteSet(ToSet(Names)) /\ Cardinality(ToSet(Names)) <= Len(Names)
        /\ Cardinality(ToSet(Names)) \in Nat
    BY <1>2, ElementsOfSeq
  <2>4. ToSet(search.order) \in SUBSET ToSet(Names)
    BY <2>1, <2>2
  <2>5. /\ Cardinality(ToSet(search.order)) <= Cardinality(ToSet(Names))
        /\ Cardinality(ToSet(Names)) = Cardinality(ToSet(search.order)) => ToSet(Names) = ToSet(search.order)
    BY <2>3, <2>4, FS_Subset
  <2>6. ToSet(Names) = ToSet(search.order)
    BY <1>2, <1>5, <2>3, <2>5
  <2>. QED
    BY <2>2, <2>6 DEF Fresh, LeadsTo, Exists
<1>6. Cardinality(ToSet(search.order)) = Len(Names) \/ Fresh(spec, search) = {}
  BY <1>1, <1>2, SearchCounts
<1>. QED
  BY <1>1, <1>5, <1>6

\* No page is there twice.
Distinct(s) == Cardinality(ToSet(s)) = Len(s)

LEMMA StillDistinct ==
  ASSUME NEW S, NEW s \in Seq(S), NEW x \in S, x \notin ToSet(s), Distinct(s)
  PROVE  Distinct(Append(s, x))
<1>1. ToSet(Append(s, x)) = ToSet(s) \cup {x} /\ Len(Append(s, x)) = Len(s) + 1
  BY Appended
<1>2. IsFiniteSet(ToSet(s))
  BY ElementsOfSeq
<1>3. Cardinality(ToSet(s) \cup {x}) = Cardinality(ToSet(s)) + 1
  BY <1>2, FS_AddElement
<1>. QED
  BY <1>1, <1>3 DEF Distinct

LEMMA EmptyOrder ==
  ASSUME NEW spec, IsStory(spec)
  PROVE  /\ Search(spec)[0].order = <<>> /\ ToSet(Search(spec)[0].order) = {}
         /\ Distinct(Search(spec)[0].order) /\ ToSet(Search(spec)[0].queue) = {spec.start}
<1>1. Search(spec)[0] = [order |-> <<>>, queue |-> <<spec.start>>]
  BY SearchOf, Zenon
<1>2. Search(spec)[0].order = <<>> /\ Search(spec)[0].queue = <<spec.start>>
  BY <1>1
<1>3. ToSet(<<>>) = {} /\ Len(<<>>) = 0
  BY DEF ToSet
<1>4. Distinct(<<>>)
  BY <1>3, FS_EmptySet DEF Distinct
<1>5. ToSet(<<spec.start>>) = {spec.start}
  BY OneElement DEF IsStory
<1>. QED
  BY <1>2, <1>3, <1>4, <1>5

\* What the search has taken and what it has seen, at every turn.
LEMMA SearchGoesOn ==
  ASSUME NEW spec, IsStory(spec)
  PROVE  \A n \in 0 .. Len(Names) :
           /\ Distinct(Search(spec)[n].order) /\ spec.start \in ToSet(Search(spec)[n].queue)
           /\ \A id \in ToSet(Search(spec)[n].order) : TargetsOf(spec, id) \subseteq ToSet(Search(spec)[n].queue)
<1>1. PICK P : P = {n \in 0 .. Len(Names) :
           /\ Distinct(Search(spec)[n].order) /\ spec.start \in ToSet(Search(spec)[n].queue)
           /\ \A id \in ToSet(Search(spec)[n].order) : TargetsOf(spec, id) \subseteq ToSet(Search(spec)[n].queue)}
  OBVIOUS
<1>2. Len(Names) \in Nat
  BY NamesAssumption
<1>3. 0 \in P
  BY <1>1, <1>2, EmptyOrder
<1>4. ASSUME NEW n \in 1 .. Len(Names), n - 1 \in P
      PROVE  n \in P
  <2>1. PICK before, after : before = Search(spec)[n - 1] /\ after = Search(spec)[n]
    OBVIOUS
  <2>2. n \in 0 .. Len(Names) /\ n - 1 \in 0 .. Len(Names)
    BY <1>2
  <2>3. after = Visit(spec, before) /\ before \in SearchesOf(spec)
    BY <2>1, <2>2, SearchOf, Zenon
  <2>4. /\ Distinct(before.order) /\ spec.start \in ToSet(before.queue)
        /\ \A id \in ToSet(before.order) : TargetsOf(spec, id) \subseteq ToSet(before.queue)
    BY <1>1, <1>4, <2>1
  <2>5. CASE Fresh(spec, before) = {}
    <3>1. after = before
      BY <2>3, <2>5, VisitOf
    <3>. QED
      BY <1>1, <2>1, <2>2, <2>4, <3>1
  <2>6. CASE Fresh(spec, before) # {}
    <3>1. PICK id \in DOMAIN spec.nodes :
            /\ id \notin ToSet(before.order) /\ after.order = Append(before.order, id)
            /\ ToSet(after.queue) = ToSet(before.queue) \cup TargetsOf(spec, id)
      BY <2>3, <2>6, VisitOf
    <3>2. before.order \in Seq(DOMAIN spec.nodes)
      BY <2>3 DEF SearchesOf
    <3>3. ToSet(after.order) = ToSet(before.order) \cup {id}
      BY <3>1, <3>2, Appended
    <3>4. Distinct(after.order)
      BY <2>4, <3>1, <3>2, StillDistinct
    <3>5. \A other \in ToSet(after.order) : TargetsOf(spec, other) \subseteq ToSet(after.queue)
      BY <2>4, <3>1, <3>3
    <3>. QED
      BY <1>1, <2>1, <2>2, <2>4, <3>1, <3>4, <3>5
  <2>. QED
    BY <2>5, <2>6
<1>5. \A n \in 0 .. Len(Names) : n \in P
  BY <1>2, <1>3, <1>4, UpTo
<1>. QED
  BY <1>1, <1>5

LEMMA ReadingOf ==
  ASSUME NEW spec, IsStory(spec)
  PROVE  /\ Reading(spec) \in Seq(DOMAIN spec.nodes) /\ Distinct(Reading(spec))
         /\ LeadsTo(spec, spec.start) => spec.start \in ToSet(Reading(spec))
         /\ \A id \in ToSet(Reading(spec)) : \A to \in TargetsOf(spec, id) :
              LeadsTo(spec, to) => to \in ToSet(Reading(spec))
<1>1. PICK search : search = Search(spec)[Len(Names)]
  OBVIOUS
<1>2. Len(Names) \in 0 .. Len(Names)
  BY NamesAssumption
<1>3. search \in SearchesOf(spec)
  BY <1>1, <1>2, SearchOf, Zenon
<1>4. /\ Distinct(search.order) /\ spec.start \in ToSet(search.queue)
      /\ \A id \in ToSet(search.order) : TargetsOf(spec, id) \subseteq ToSet(search.queue)
  BY <1>1, <1>2, SearchGoesOn
<1>5. Fresh(spec, search) = {}
  BY <1>1, SearchEnds
<1>6. \A to \in ToSet(search.queue) : LeadsTo(spec, to) => to \in ToSet(search.order)
  BY <1>5, InToSet DEF Fresh
<1>7. Reading(spec) = search.order
  BY <1>1 DEF Reading
<1>8. search.order \in Seq(DOMAIN spec.nodes)
  BY <1>3 DEF SearchesOf
<1>. QED
  BY <1>4, <1>6, <1>7, <1>8

-----------------------------------------------------------------------------
(* The search of validate() finds the same pages                            *)

FollowedFrom(spec, seen) ==
  seen \cup {to \in DOMAIN spec.nodes : \E from \in seen : Follows(spec, from, to)}

LEMMA ReachedOf ==
  ASSUME NEW spec
  PROVE  \E hop : /\ hop[0] = {spec.start} \cap DOMAIN spec.nodes /\ Reached(spec) = hop[Len(Names)]
                  /\ \A n \in 1 .. Len(Names) : hop[n] = FollowedFrom(spec, hop[n - 1])
                  /\ \A n \in 0 .. Len(Names) : hop[n] \subseteq DOMAIN spec.nodes
<1>. DEFINE S == SUBSET DOMAIN spec.nodes
            begin == {spec.start} \cap DOMAIN spec.nodes
            step == [n \in 1 .. Len(Names) |-> [seen \in S |-> FollowedFrom(spec, seen)]]
<1>1. Len(Names) \in Nat
  BY NamesAssumption
<1>2. begin \in S
  OBVIOUS
<1>3. step \in [1 .. Len(Names) -> [S -> S]]
  BY DEF FollowedFrom
<1>4. PICK f \in [0 .. Len(Names) -> S] :
        f[0] = begin /\ \A n \in 1 .. Len(Names) : f[n] = step[n][f[n - 1]]
  <2>1. \E f : Iterates(f, Len(Names), S, begin, step)
    <3>. HIDE DEF S, begin, step
    <3>. QED
      BY <1>1, <1>2, <1>3, RecursionExists
  <2>. QED
    BY <2>1 DEF Iterates
<1>5. \A n \in 1 .. Len(Names) : n - 1 \in 0 .. Len(Names)
  BY <1>1
<1>6. \A n \in 1 .. Len(Names) : f[n] = FollowedFrom(spec, f[n - 1])
  BY <1>4, <1>5
<1>7. f = [n \in 0 .. Len(Names) |-> IF n = 0 THEN begin ELSE FollowedFrom(spec, f[n - 1])]
  <2>. HIDE DEF begin, S, step
  <2>. QED
    BY <1>1, <1>4, <1>6
<1>8. PICK hop : hop = CHOOSE g : g = [n \in 0 .. Len(Names) |-> IF n = 0 THEN begin ELSE FollowedFrom(spec, g[n - 1])]
  OBVIOUS
<1>9. hop = [n \in 0 .. Len(Names) |-> IF n = 0 THEN begin ELSE FollowedFrom(spec, hop[n - 1])]
  <2>. HIDE DEF begin, S, step
  <2>. QED
    BY <1>7, <1>8, Zenon
<1>10. hop[0] = begin /\ \A n \in 1 .. Len(Names) : hop[n] = FollowedFrom(spec, hop[n - 1])
  <2>. HIDE DEF begin, S, step
  <2>. QED
    BY <1>1, <1>9
<1>11. Reached(spec) = hop[Len(Names)]
  BY <1>8, Zenon DEF Reached, FollowedFrom
<1>12. \A n \in 0 .. Len(Names) : hop[n] \subseteq DOMAIN spec.nodes
  <2>1. PICK P : P = {n \in 0 .. Len(Names) : hop[n] \subseteq DOMAIN spec.nodes}
    OBVIOUS
  <2>2. 0 \in P
    BY <1>1, <1>10, <2>1
  <2>3. \A n \in 1 .. Len(Names) : n - 1 \in P => n \in P
    BY <1>1, <1>10, <2>1 DEF FollowedFrom
  <2>. QED
    BY <1>1, <2>1, <2>2, <2>3, UpTo
<1>. QED
  BY <1>10, <1>11, <1>12

\* What a link of a node leads to is what it leads to in the search of validate().
LEMMA FollowsLinks ==
  ASSUME NEW spec, IsStory(spec), NEW id \in DOMAIN spec.nodes, NEW to \in DOMAIN spec.nodes, Named(to)
  PROVE  Follows(spec, id, to) <=> to \in TargetsOf(spec, id)
<1>1. to # None
  BY NamesAssumption DEF IsStory
<1>2. \A x : (\E link \in ToSet(Links(spec, id)) : link.target = x)
               <=> (spec.nodes[id].next # None /\ x = spec.nodes[id].next) \/ Offered(spec.nodes[id], x)
  BY LinksOf, Zenon
<1>3. to \in TargetsOf(spec, id) <=> \E link \in ToSet(Links(spec, id)) : link.target = to
  BY DEF TargetsOf
<1>. QED
  BY <1>1, <1>2, <1>3 DEF Follows

\* The search of the map reaches what validate() reaches.
LEMMA ReadingIsReached ==
  ASSUME NEW spec, IsStory(spec), \A id \in DOMAIN spec.nodes : Named(id)
  PROVE  ToSet(Reading(spec)) = Reached(spec)
<1>1. PICK hop : /\ hop[0] = {spec.start} \cap DOMAIN spec.nodes /\ Reached(spec) = hop[Len(Names)]
                 /\ \A n \in 1 .. Len(Names) : hop[n] = FollowedFrom(spec, hop[n - 1])
                 /\ \A n \in 0 .. Len(Names) : hop[n] \subseteq DOMAIN spec.nodes
  BY ReachedOf
<1>2. Len(Names) \in Nat /\ Len(Names) \in 0 .. Len(Names)
  BY NamesAssumption
<1>3. ToSet(Reading(spec)) \subseteq Reached(spec)
  <2>1. PICK P : P = {n \in 0 .. Len(Names) :
                        /\ ToSet(Search(spec)[n].order) \subseteq hop[n]
                        /\ ToSet(Search(spec)[n].queue) \cap DOMAIN spec.nodes \subseteq hop[n]}
    OBVIOUS
  <2>2. 0 \in P
    BY <1>1, <1>2, <2>1, EmptyOrder
  <2>3. ASSUME NEW n \in 1 .. Len(Names), n - 1 \in P
        PROVE  n \in P
    <3>1. PICK before, after : before = Search(spec)[n - 1] /\ after = Search(spec)[n]
      OBVIOUS
    <3>2. n \in 0 .. Len(Names) /\ n - 1 \in 0 .. Len(Names)
      BY <1>2
    <3>3. after = Visit(spec, before) /\ before \in SearchesOf(spec)
      BY <3>1, <3>2, SearchOf, Zenon
    <3>4. ToSet(before.order) \subseteq hop[n - 1] /\ ToSet(before.queue) \cap DOMAIN spec.nodes \subseteq hop[n - 1]
      BY <2>1, <2>3, <3>1
    <3>5. hop[n] = FollowedFrom(spec, hop[n - 1])
      BY <1>1
    <3>6. CASE Fresh(spec, before) = {}
      <4>1. after = before
        BY <3>3, <3>6, VisitOf
      <4>2. hop[n - 1] \subseteq hop[n]
        BY <3>5 DEF FollowedFrom
      <4>. QED
        BY <2>1, <3>1, <3>2, <3>4, <4>1, <4>2
    <3>7. CASE Fresh(spec, before) # {}
      <4>1. PICK id \in DOMAIN spec.nodes :
              /\ id \in ToSet(before.queue) /\ after.order = Append(before.order, id)
              /\ ToSet(after.queue) = ToSet(before.queue) \cup TargetsOf(spec, id)
        BY <3>3, <3>7, VisitOf
      <4>2. before.order \in Seq(DOMAIN spec.nodes)
        BY <3>3 DEF SearchesOf
      <4>3. ToSet(after.order) = ToSet(before.order) \cup {id}
        BY <4>1, <4>2, Appended
      <4>4. id \in hop[n - 1] /\ hop[n - 1] \subseteq hop[n]
        BY <3>4, <3>5, <4>1 DEF FollowedFrom
      <4>5. ASSUME NEW to \in TargetsOf(spec, id) \cap DOMAIN spec.nodes
            PROVE  to \in hop[n]
        <5>1. Follows(spec, id, to)
          BY <4>5, FollowsLinks
        <5>. QED
          BY <3>5, <4>4, <5>1 DEF FollowedFrom
      <4>6. ToSet(after.order) \subseteq hop[n]
        BY <3>4, <4>3, <4>4
      <4>7. ToSet(after.queue) \cap DOMAIN spec.nodes \subseteq hop[n]
        BY <3>4, <4>1, <4>4, <4>5
      <4>. QED
        BY <2>1, <3>1, <3>2, <4>6, <4>7
    <3>. QED
      BY <3>6, <3>7
  <2>4. \A n \in 0 .. Len(Names) : n \in P
    BY <1>2, <2>2, <2>3, UpTo
  <2>5. ToSet(Search(spec)[Len(Names)].order) \subseteq hop[Len(Names)]
    BY <1>2, <2>1, <2>4
  <2>. QED
    BY <1>1, <2>5 DEF Reading
<1>4. Reached(spec) \subseteq ToSet(Reading(spec))
  <2>1. PICK P : P = {n \in 0 .. Len(Names) : hop[n] \subseteq ToSet(Reading(spec))}
    OBVIOUS
  <2>2. 0 \in P
    BY <1>1, <1>2, <2>1, ReadingOf DEF LeadsTo, Exists
  <2>3. ASSUME NEW n \in 1 .. Len(Names), n - 1 \in P
        PROVE  n \in P
    <3>1. hop[n - 1] \subseteq ToSet(Reading(spec)) /\ hop[n - 1] \subseteq DOMAIN spec.nodes
      BY <1>1, <1>2, <2>1, <2>3
    <3>2. hop[n] = FollowedFrom(spec, hop[n - 1])
      BY <1>1
    <3>3. ASSUME NEW to \in DOMAIN spec.nodes, NEW from \in hop[n - 1], Follows(spec, from, to)
          PROVE  to \in ToSet(Reading(spec))
      <4>1. from \in DOMAIN spec.nodes /\ from \in ToSet(Reading(spec))
        BY <3>1
      <4>2. to \in TargetsOf(spec, from)
        BY <3>3, <4>1, FollowsLinks
      <4>. QED
        BY <4>1, <4>2, ReadingOf DEF LeadsTo, Exists
    <3>4. hop[n] \subseteq ToSet(Reading(spec))
      BY <3>1, <3>2, <3>3 DEF FollowedFrom
    <3>. QED
      BY <1>2, <2>1, <3>4
  <2>4. \A n \in 0 .. Len(Names) : n \in P
    BY <1>2, <2>2, <2>3, UpTo
  <2>5. Len(Names) \in P
    BY <1>2, <2>4
  <2>. QED
    BY <1>1, <2>1, <2>5
<1>. QED
  BY <1>3, <1>4

-----------------------------------------------------------------------------
(* The order of the cards                                                   *)

\* An order of pages without doubles in which those that were reached come first.
Ordered(spec, order) ==
  /\ order \in Seq(DOMAIN spec.nodes) /\ Distinct(order)
  /\ ToSet(Reading(spec)) \subseteq ToSet(order)
  /\ \A i, j \in DOMAIN order :
       i < j /\ order[i] \notin ToSet(Reading(spec)) => order[j] \notin ToSet(Reading(spec))

LEMMA WithOf ==
  ASSUME NEW spec, NEW order, Ordered(spec, order), NEW id
  PROVE  /\ Ordered(spec, With(spec, order, id)) /\ ToSet(order) \subseteq ToSet(With(spec, order, id))
         /\ id \in DOMAIN spec.nodes => id \in ToSet(With(spec, order, id))
<1>1. CASE id \in DOMAIN spec.nodes /\ id \notin ToSet(order)
  <2>1. PICK after : after = Append(order, id)
    OBVIOUS
  <2>2. With(spec, order, id) = after
    BY <1>1, <2>1 DEF With, Exists
  <2>3. order \in Seq(DOMAIN spec.nodes) /\ Distinct(order)
    BY DEF Ordered
  <2>4. /\ after \in Seq(DOMAIN spec.nodes) /\ Len(after) = Len(order) + 1
        /\ \A k \in 1 .. Len(order) : after[k] = order[k]
        /\ after[Len(order) + 1] = id /\ ToSet(after) = ToSet(order) \cup {id}
    BY <1>1, <2>1, <2>3, Appended
  <2>5. Distinct(after)
    BY <1>1, <2>1, <2>3, StillDistinct
  <2>6. DOMAIN order = 1 .. Len(order) /\ DOMAIN after = 1 .. Len(order) + 1 /\ Len(order) \in Nat
    BY <2>3, <2>4
  <2>7. ASSUME NEW i \in DOMAIN after, NEW j \in DOMAIN after, i < j, after[i] \notin ToSet(Reading(spec))
        PROVE  after[j] \notin ToSet(Reading(spec))
    <3>1. i \in DOMAIN order /\ after[i] = order[i]
      BY <2>4, <2>6, <2>7
    <3>2. CASE j \in DOMAIN order
      BY <2>4, <2>6, <2>7, <3>1, <3>2 DEF Ordered
    <3>3. CASE j \notin DOMAIN order
      <4>1. after[j] = id
        BY <2>4, <2>6, <3>3
      <4>. QED
        BY <1>1, <4>1 DEF Ordered
    <3>. QED
      BY <3>2, <3>3
  <2>8. ToSet(Reading(spec)) \subseteq ToSet(after)
    BY <2>4 DEF Ordered
  <2>. QED
    BY <2>2, <2>4, <2>5, <2>7, <2>8 DEF Ordered
<1>2. CASE ~(id \in DOMAIN spec.nodes /\ id \notin ToSet(order))
  BY <1>2 DEF With, Exists
<1>. QED
  BY <1>1, <1>2

LEMMA ReadingOrderOf ==
  ASSUME NEW spec, IsStory(spec)
  PROVE  Ordered(spec, ReadingOrder(spec)) /\ ToSet(ReadingOrder(spec)) = DOMAIN spec.nodes
<1>. DEFINE S == {order \in Seq(DOMAIN spec.nodes) : Ordered(spec, order)}
            begin == Reading(spec)
            step == [n \in 1 .. Len(Names) |-> [order \in S |-> With(spec, order, Names[n])]]
<1>1. Len(Names) \in Nat /\ Names \in Seq(ToSet(Names))
  BY NamesAssumption
<1>2. begin \in S
  <2>1. Reading(spec) \in Seq(DOMAIN spec.nodes) /\ Distinct(Reading(spec))
    BY ReadingOf
  <2>2. \A i \in DOMAIN Reading(spec) : Reading(spec)[i] \in ToSet(Reading(spec))
    BY InToSet
  <2>. QED
    BY <2>1, <2>2 DEF Ordered
<1>3. step \in [1 .. Len(Names) -> [S -> S]]
  <2>1. \A order \in S : \A id : With(spec, order, id) \in S
    BY WithOf DEF Ordered
  <2>. HIDE DEF S
  <2>. QED
    BY <2>1
<1>4. PICK f \in [0 .. Len(Names) -> S] :
        f[0] = begin /\ \A n \in 1 .. Len(Names) : f[n] = step[n][f[n - 1]]
  <2>1. \E f : Iterates(f, Len(Names), S, begin, step)
    <3>. HIDE DEF S, begin, step
    <3>. QED
      BY <1>1, <1>2, <1>3, RecursionExists
  <2>. QED
    BY <2>1 DEF Iterates
<1>5. \A n \in 1 .. Len(Names) : n - 1 \in 0 .. Len(Names)
  BY <1>1
<1>6. \A n \in 1 .. Len(Names) : f[n] = With(spec, f[n - 1], Names[n])
  <2>1. \A n \in 1 .. Len(Names) : \A order \in S : step[n][order] = With(spec, order, Names[n])
    OBVIOUS
  <2>. HIDE DEF S, step
  <2>. QED
    BY <1>4, <1>5, <2>1
<1>7. f = [n \in 0 .. Len(Names) |-> IF n = 0 THEN begin ELSE With(spec, f[n - 1], Names[n])]
  <2>. HIDE DEF begin, S, step
  <2>. QED
    BY <1>1, <1>4, <1>6
<1>8. PICK after : after = CHOOSE g : g = [n \in 0 .. Len(Names) |->
                                             IF n = 0 THEN begin ELSE With(spec, g[n - 1], Names[n])]
  OBVIOUS
<1>9. after = [n \in 0 .. Len(Names) |-> IF n = 0 THEN begin ELSE With(spec, after[n - 1], Names[n])]
  <2>. HIDE DEF begin, S, step
  <2>. QED
    BY <1>7, <1>8, Zenon
<1>10. after[0] = begin /\ \A n \in 1 .. Len(Names) : after[n] = With(spec, after[n - 1], Names[n])
  <2>. HIDE DEF begin, S, step
  <2>. QED
    BY <1>1, <1>9
<1>11. ReadingOrder(spec) = after[Len(Names)]
  BY <1>8, Zenon DEF ReadingOrder
<1>12. PICK P : P = {n \in 0 .. Len(Names) :
                       /\ Ordered(spec, after[n])
                       /\ \A k \in 1 .. n : Names[k] \in DOMAIN spec.nodes => Names[k] \in ToSet(after[n])}
  OBVIOUS
<1>13. 0 \in P
  BY <1>1, <1>2, <1>10, <1>12
<1>14. ASSUME NEW n \in 1 .. Len(Names), n - 1 \in P
       PROVE  n \in P
  <2>1. PICK order : order = after[n - 1]
    OBVIOUS
  <2>2. /\ Ordered(spec, order)
        /\ \A k \in 1 .. n - 1 : Names[k] \in DOMAIN spec.nodes => Names[k] \in ToSet(order)
    BY <1>12, <1>14, <2>1
  <2>3. after[n] = With(spec, order, Names[n])
    BY <1>10, <2>1
  <2>4. /\ Ordered(spec, after[n]) /\ ToSet(order) \subseteq ToSet(after[n])
        /\ Names[n] \in DOMAIN spec.nodes => Names[n] \in ToSet(after[n])
    BY <2>2, <2>3, WithOf
  <2>5. n \in Nat /\ n \in 0 .. Len(Names)
    BY <1>1
  <2>6. \A k \in 1 .. n : k \in 1 .. n - 1 \/ k = n
    BY <2>5
  <2>7. \A k \in 1 .. n : Names[k] \in DOMAIN spec.nodes => Names[k] \in ToSet(after[n])
    BY <2>2, <2>4, <2>6
  <2>. QED
    BY <1>12, <2>4, <2>5, <2>7
<1>15. Len(Names) \in P
  <2>1. \A n \in 0 .. Len(Names) : n \in P
    BY <1>1, <1>13, <1>14, UpTo
  <2>. QED
    BY <1>1, <2>1
<1>16. Ordered(spec, ReadingOrder(spec))
  BY <1>11, <1>12, <1>15
<1>17. DOMAIN spec.nodes \subseteq ToSet(ReadingOrder(spec))
  <2>1. \A k \in 1 .. Len(Names) : Names[k] \in DOMAIN spec.nodes => Names[k] \in ToSet(ReadingOrder(spec))
    BY <1>11, <1>12, <1>15
  <2>2. DOMAIN spec.nodes \subseteq ToSet(Names) /\ DOMAIN Names = 1 .. Len(Names)
    BY <1>1 DEF IsStory
  <2>. QED
    BY <2>1, <2>2, InToSet
<1>18. ToSet(ReadingOrder(spec)) \subseteq DOMAIN spec.nodes
  BY <1>16, InToSet DEF Ordered
<1>. QED
  BY <1>16, <1>17, <1>18

\* The details of a chapter are those of a page that has it.
LEMMA NodeOfChapter ==
  ASSUME NEW spec, IsStory(spec), NEW slug \in Chapters(spec)
  PROVE  /\ NodeOf(spec, slug) \in DOMAIN spec.nodes /\ NodeOf(spec, slug) # None
         /\ Chapter(spec.nodes[NodeOf(spec, slug)]) = slug
<1>1. PICK order : order = ReadingOrder(spec)
  OBVIOUS
<1>2. order \in Seq(DOMAIN spec.nodes) /\ ToSet(order) = DOMAIN spec.nodes
  BY <1>1, ReadingOrderOf DEF Ordered
<1>3. PICK has : has = {i \in DOMAIN order : Chapter(spec.nodes[order[i]]) = slug}
  OBVIOUS
<1>4. has \in SUBSET Nat /\ has # {}
  <2>1. has \in SUBSET Nat
    BY <1>2, <1>3
  <2>2. PICK id \in DOMAIN spec.nodes : Chapter(spec.nodes[id]) = slug
    BY DEF Chapters
  <2>3. PICK i \in DOMAIN order : order[i] = id
    BY <1>2, InToSet
  <2>. QED
    BY <1>3, <2>1, <2>2, <2>3
<1>5. PICK i : i = Min(has) /\ i \in has
  BY <1>4, MinIsLeast
<1>6. NodeOf(spec, slug) = order[i]
  BY <1>1, <1>3, <1>4, <1>5 DEF NodeOf
<1>7. order[i] \in DOMAIN spec.nodes /\ Chapter(spec.nodes[order[i]]) = slug
  <2>1. i \in DOMAIN order /\ Chapter(spec.nodes[order[i]]) = slug
    BY <1>3, <1>5
  <2>2. order[i] \in ToSet(order)
    BY <2>1, InToSet
  <2>. QED
    BY <1>2, <2>1, <2>2
<1>8. None \notin DOMAIN spec.nodes
  BY NamesAssumption DEF IsStory
<1>. QED
  BY <1>6, <1>7, <1>8
=============================================================================
