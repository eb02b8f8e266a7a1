-------------------------- MODULE ToolRegistration --------------------------
(***************************************************************************)
(* The application (src/app.ts) and the registration of its tools with the *)
(* browser (src/webmcp/facade.ts).  The tools of a batch are registered    *)
(* together; when one is refused the others are taken back.  A host mounts *)
(* a tool at once, refuses a name that is taken, and settles later.        *)
(***************************************************************************)
EXTENDS Integers, Sequences, FiniteSets

CONSTANT Tool   \* the tools of a batch

VARIABLES
  batches,    \* every registerTools() call
  app         \* the fields of ComposedApp, and the calls of start() and stop() in progress

appVars == <<batches, app>>

NoBatch == 0
NoError == [batch |-> NoBatch, failures |-> {}]

AppInit ==
  /\ batches = <<>>
  /\ app = [status |-> "idle", registration |-> NoBatch, error |-> NoError,
            opening |-> 0, starts |-> 0, stops |-> 0, stopping |-> NoBatch, closing |-> FALSE]

Mounted(b) == {t \in Tool : batches[b].tool[t] \in {"pending", "resolved"}}
AllMounted == UNION {Mounted(b) : b \in DOMAIN batches}

\* registerTool() of every tool: the host mounts it at once unless its name is taken.
NewBatch ==
  [tool |-> [t \in Tool |-> IF t \in AllMounted THEN "refused" ELSE "pending"],
   aborted |-> FALSE, failures |-> {}, told |-> FALSE]

\* abort(): the host takes back what is mounted; what was pending is rejected with
\* the reason of this abort, which is not a failure.
Aborted(batch) ==
  [batch EXCEPT !.aborted = TRUE,
                !.tool = [t \in Tool |-> IF @[t] \in {"pending", "resolved"} THEN "removed" ELSE @[t]]]

\* The host settles a registration.
HostResolves(b, t) ==
  /\ batches[b].tool[t] = "pending"
  /\ batches' = [batches EXCEPT ![b].tool[t] = "resolved"]
  /\ UNCHANGED app

HostRefuses(b, t) ==
  /\ batches[b].tool[t] = "pending"
  /\ batches' = [batches EXCEPT ![b].tool[t] = "refused"]
  /\ UNCHANGED app

Settled(batch) == \A t \in Tool : batch.tool[t] \notin {"pending", "refused"}

\* Mutant: the other tools are taken back when the whole batch has settled.
RecordRealFailureLate(b, t) ==
  LET failed == [batches[b] EXCEPT !.failures = @ \cup {t}, !.tool[t] = "failed"]
  IN batches' = [batches EXCEPT ![b] = IF Settled(failed) THEN Aborted(failed) ELSE failed]

\* recordRealFailure
RecordRealFailure(b, t) ==
  LET failed == [batches[b] EXCEPT !.failures = @ \cup {t}, !.tool[t] = "failed"]
  IN batches' = [batches EXCEPT ![b] = Aborted(failed)]

OnRefused(b, t) ==
  /\ batches[b].tool[t] = "refused"
  /\ RecordRealFailure(b, t)
  /\ UNCHANGED app

\* Mutant: whichever batch it is of.
IsCurrentAny(b) == TRUE

IsCurrent(b) == app.registration = b

\* ready settles once every attempt has; a rejection is noted if it is of the current
\* registration.
OnReady(b) ==
  /\ Settled(batches[b]) /\ ~batches[b].told
  /\ batches' = [batches EXCEPT ![b].told = TRUE]
  /\ app' = IF batches[b].failures # {} /\ IsCurrent(b)
            THEN [app EXCEPT !.error = [batch |-> b, failures |-> batches[b].failures]]
            ELSE app

\* start() up to its await; when the app has started already, nothing.
Start ==
  /\ app.status # "started"
  /\ app' = [app EXCEPT !.opening = @ + 1, !.starts = @ + 1]
  /\ UNCHANGED batches

\* start() after its await.
Started ==
  /\ app.opening > 0
  /\ batches' = Append(batches, NewBatch)
  /\ app' = [app EXCEPT !.opening = @ - 1, !.error = NoError,
                        !.registration = Len(batches) + 1, !.status = "started"]

\* The workspace cannot be opened: start() throws.
OpenFails ==
  /\ app.opening > 0
  /\ app' = [app EXCEPT !.opening = @ - 1]
  /\ UNCHANGED batches

\* stop() up to the await of dispose(), which aborts the batch.
Stop ==
  /\ app.stopping = NoBatch /\ ~app.closing
  /\ app' = [app EXCEPT !.stops = @ + 1, !.stopping = app.registration,
                        !.closing = app.registration = NoBatch]
  /\ batches' = [b \in DOMAIN batches |->
                   IF b = app.registration THEN Aborted(batches[b]) ELSE batches[b]]

\* dispose() returns when every attempt has settled.
Disposed ==
  /\ app.stopping # NoBatch /\ Settled(batches[app.stopping])
  /\ app' = [app EXCEPT !.registration = NoBatch, !.stopping = NoBatch, !.closing = TRUE]
  /\ UNCHANGED batches

\* The workspace is closed.
Stopped ==
  /\ app.closing
  /\ app' = [app EXCEPT !.closing = FALSE, !.status = "stopped"]
  /\ UNCHANGED batches

HostStep ==
  \E b \in DOMAIN batches :
    OnReady(b) \/ \E t \in Tool : HostResolves(b, t) \/ HostRefuses(b, t) \/ OnRefused(b, t)

-----------------------------------------------------------------------------
(* Properties                                                               *)

\* As soon as one tool of a batch is known to have failed, none of the batch is
\* mounted, while others are still being registered or are refused themselves
\* (facade.ts:206-239).
AllOrNothing == \A b \in DOMAIN batches : batches[b].failures # {} => Mounted(b) = {}

\* The failure the application shows is of its last registration and names every
\* tool that failed in it; late answers about earlier registrations, started twice
\* over or stopped, are not taken for it (app.ts:189-203, facade.ts:246-257).
ErrorIsOfLastBatch ==
  app.error # NoError =>
    app.error.batch = Len(batches) /\ app.error.failures = batches[Len(batches)].failures
=============================================================================
