----------------------------- MODULE AtomicStore -----------------------------
(***************************************************************************)
(* What the workspace storage promises its callers (src/workspace/types.ts *)
(* and src/ports.ts): a mutation lands as a whole, in one step, on the     *)
(* revision its caller named, or not at all.                               *)
(***************************************************************************)
EXTENDS Integers

CONSTANTS
  Client,          \* whoever calls mutate()
  Outcome(_, _)    \* what a batch of operations makes of the files

VARIABLES
  files, revision, \* the workspace
  status,          \* of each client's call: idle, asked, landed or refused
  mutation         \* of each client: what it asked for last

vars == <<files, revision, status, mutation>>

\* Any mutation at all may be asked for.
Ask(c) ==
  /\ status[c] = "idle"
  /\ status' = [status EXCEPT ![c] = "asked"]
  /\ mutation' = [mutation EXCEPT ![c] = mutation'[c]]
  /\ UNCHANGED <<files, revision>>

Land(c) ==
  /\ status[c] = "asked"
  /\ mutation[c].expected = revision
  /\ files' = Outcome(files, mutation[c].ops)
  /\ revision' = revision + 1
  /\ status' = [status EXCEPT ![c] = "landed"]
  /\ UNCHANGED mutation

Refuse(c) ==
  /\ status[c] = "asked"
  /\ status' = [status EXCEPT ![c] = "refused"]
  /\ UNCHANGED <<files, revision, mutation>>

Return(c) ==
  /\ status[c] \in {"landed", "refused"}
  /\ status' = [status EXCEPT ![c] = "idle"]
  /\ UNCHANGED <<files, revision, mutation>>

Next == \E c \in Client : Ask(c) \/ Land(c) \/ Refuse(c) \/ Return(c)

Init ==
  /\ files = [p \in {} |-> {}] /\ revision = 0
  /\ status = [c \in Client |-> "idle"]

\* Every step of the storage is a step of this store or none at all.
Spec == Init /\ [][Next]_vars
==============================================================================
