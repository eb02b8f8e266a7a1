---------------------------- MODULE StoryContract ----------------------------
(***************************************************************************)
(* The graph of a story and what validate() finds in it                    *)
(* (src/contract/validate.ts).  A node is named by a key of an object; one *)
(* of the keys may be the empty string, which JavaScript takes for false.  *)
(* Its content is a reference to a chapter, of this story or of another    *)
(* one, or no reference at all.                                            *)
(***************************************************************************)
EXTENDS Integers, Sequences, FiniteSets, SequencesExt

CONSTANTS
  Names,     \* the names of nodes, in dictionary order
  Length,    \* the length of each name, and of the slug of each chapter
  Dangling,  \* a name that no node has
  None       \* undefined

ASSUME NamesAssumption == Names \in Seq(ToSet(Names)) /\ {None, Dangling} \cap ToSet(Names) = {}

Target == ToSet(Names) \cup {Dangling}

Named(id)         == id # Dangling /\ Length[id] > 0
Exists(spec, id)  == id \in DOMAIN spec.nodes
ChoicesOf(node)     == IF node.choices = None THEN <<>> ELSE node.choices
Offered(node, id) == \E i \in DOMAIN ChoicesOf(node) : ChoicesOf(node)[i].target = id
Chapter(node)     == IF node.content = None THEN None ELSE node.content.chapter
Chapters(spec)    == {Chapter(spec.nodes[id]) : id \in DOMAIN spec.nodes} \ {None}

HasChoices(node)  == ChoicesOf(node) # <<>>

\* What is read of a workspace: ways on are strings, and a choice has a label and one.
IsStory(spec) ==
  /\ DOMAIN spec.nodes \subseteq ToSet(Names) /\ spec.start \in Target
  /\ \A id \in DOMAIN spec.nodes :
       /\ spec.nodes[id].next \in Target \cup {None}
       /\ ChoicesOf(spec.nodes[id]) \in Seq([label : Nat, target : Target])

\* Mutant: one way on at least, not exactly one.
NoWayOn(node) == node.next = None /\ ~HasChoices(node)

\* An ending leads nowhere; any other node has a next one or choices, not both.
WrongWays(node) ==
  IF node.kind = "ending" THEN node.next # None \/ node.choices # None
  ELSE (node.next = None) = ~HasChoices(node)

\* The errors of one node, by the field they are found at.
NodeFaults(spec, node) ==
  [field   |-> ~node.closed,
   content |-> node.content = None \/ ~node.content.own,
   choices |-> node.choices = <<>>,
   type    |-> node.kind = "other",
   ways    |-> WrongWays(node),
   ending  |-> node.ending # (IF node.kind = "ending" THEN "good" ELSE "none"),
   next    |-> node.next # None /\ ~Exists(spec, node.next),
   target  |-> \E i \in DOMAIN ChoicesOf(node) : ~Exists(spec, ChoicesOf(node)[i].target)]

StoryFaults(spec) ==
  [header |-> ~spec.header,
   nodes  |-> DOMAIN spec.nodes = {},
   start  |-> DOMAIN spec.nodes # {} /\ ~(Named(spec.start) /\ Exists(spec, spec.start))]

Found(faults, id) == {[at |-> id, what |-> w] : w \in {f \in DOMAIN faults : faults[f]}}

Errors(spec) ==
  Found(StoryFaults(spec), None)
    \cup UNION {Found(NodeFaults(spec, spec.nodes[id]), id) : id \in DOMAIN spec.nodes}

\* What the search for unreachable nodes finds.
Follows(spec, from, to) ==
  LET node == spec.nodes[from] IN (Named(to) /\ to = node.next) \/ Offered(node, to)

Reached(spec) ==
  LET hop[n \in 0 .. Len(Names)] ==
        IF n = 0 THEN {spec.start} \cap DOMAIN spec.nodes
        ELSE LET seen == hop[n - 1]
             IN seen \cup {to \in DOMAIN spec.nodes : \E from \in seen : Follows(spec, from, to)}
  IN hop[Len(Names)]

Warnings(spec) == {[at |-> id, what |-> "unreachable"] : id \in DOMAIN spec.nodes \ Reached(spec)}
=============================================================================
