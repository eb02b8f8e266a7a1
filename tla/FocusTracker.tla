---------------------------- MODULE FocusTracker ----------------------------
(***************************************************************************)
(* Where the creator is looking (src/story/focus.ts).  A claim is checked  *)
(* against the workspace before it is adopted and again before it is told, *)
(* and the world may change while a check is waiting for the workspace.    *)
(* The workspace is the stories it has held, one for every revision.       *)
(***************************************************************************)
EXTENDS Integers, Sequences

CONSTANTS
  NoStory,      \* a workspace without story.yaml
  Nothing,      \* null
  MaxAttempts   \* CONSISTENT_READ_MAX_ATTEMPTS: writes in its course that make a read fail

VARIABLES
  stories,   \* the story of each revision, the current one last
  focus,     \* current claim, generation and last rejected claim of the controller
  claims,    \* setFocus() calls whose check is under way
  query      \* the getFocus() call of the agent, and its last answer

focusVars == <<focus, claims, query>>

Revision == Len(stories) - 1
Story    == stories[Len(stories)]
FocusTab == {"structure", "content", "media"}

FocusInit ==
  /\ stories = <<NoStory>>
  /\ focus = [current |-> Nothing, generation |-> 0, rejected |-> Nothing]
  /\ claims = {}
  /\ query = [at |-> "idle", answer |-> Nothing]

\* What validateClaim finds in a story.
Verdict(story, claim) ==
  IF story = NoStory THEN "story-unreadable"
  ELSE IF story.slug # claim.slug THEN "story-slug-mismatch"
  ELSE IF claim.chapter \notin story.pages THEN "chapter-not-found"
  ELSE IF claim.tab \notin FocusTab THEN "invalid-tab" ELSE "ok"

\* A check that began at this revision: what the current story makes of the claim,
\* or no answer because the workspace kept changing.
Verdicts(claim, began) ==
  {Verdict(Story, claim)} \cup (IF Revision - began >= MaxAttempts THEN {"story-unreadable"} ELSE {})

\* setFocus() up to its await.  A step of the page may make one such call.
Claim(claim) ==
  /\ focus' = [focus EXCEPT !.generation = @ + 1]
  /\ claims' = claims \cup {[generation |-> focus.generation + 1, claim |-> claim, began |-> Revision]}

\* Mutant: a check that was overtaken still counts.
OvertakenAny(call) == FALSE

Overtaken(call) == call.generation # focus.generation

\* setFocus() after its await.
SetFocus(call) ==
  /\ call \in claims
  /\ claims' = claims \ {call}
  /\ \E verdict \in Verdicts(call.claim, call.began) :
       focus' = IF Overtaken(call) THEN focus
                ELSE IF verdict # "ok" THEN [focus EXCEPT !.rejected = call.claim]
                ELSE [focus EXCEPT !.current =
                        [claim |-> call.claim, id |-> call.generation, since |-> Revision]]
  /\ UNCHANGED <<stories, query>>

Told(claim) == [at |-> "idle", answer |-> claim]

\* getFocus() up to its await: no check is needed when there is no claim.
Ask == IF focus.current = Nothing THEN Told(Nothing)
       ELSE [at |-> "checking", subject |-> focus.current, began |-> Revision]

AskFocus ==
  /\ query.at = "idle"
  /\ query' = Ask
  /\ UNCHANGED <<stories, focus, claims>>

\* Mutant: what was found of the claim at the start is taken for the current one.
SameAny(subject) == TRUE

Same(subject) == focus.current = subject

\* getFocus() after its await: it begins anew when the claim was replaced meanwhile.
TellFocus ==
  /\ query.at = "checking"
  /\ \E verdict \in Verdicts(query.subject.claim, query.began) :
       IF ~Same(query.subject) THEN query' = Ask /\ UNCHANGED focus
       ELSE IF verdict = "ok" THEN query' = Told(query.subject) /\ UNCHANGED focus
       ELSE /\ focus' = [focus EXCEPT !.current = Nothing, !.rejected = query.subject.claim]
            /\ query' = Told(Nothing)
  /\ UNCHANGED <<stories, claims>>

FocusStep == (\E call \in claims : SetFocus(call)) \/ AskFocus \/ TellFocus
=============================================================================
