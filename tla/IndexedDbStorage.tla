-------------------------- MODULE IndexedDbStorage ---------------------------
(***************************************************************************)
(* The workspace in IndexedDB (src/adapters/indexeddbWorkspaceStorage.ts). *)
(* The database runs readwrite transactions one after the other and takes  *)
(* back what an aborted one has written; reads wait for the transaction    *)
(* before them.  The requests of one mutate() are separate steps, and      *)
(* anything may fail until the transaction has committed, the death of the *)
(* tab that runs it included.                                              *)
(***************************************************************************)
EXTENDS Workspace

CONSTANTS
  Client,     \* the call sequences, of one tab or of several
  Nobody      \* whose transaction it is when none is running

ASSUME NobodyAssumption == Nobody \notin Client

VARIABLES
  files, revision, \* the two object stores, with what a running transaction wrote
  tx,              \* the running transaction
  status,          \* of each client's mutate(): idle, asked, landed or refused
  mutation         \* what each client asked for last

storeVars == <<files, revision, tx, status, mutation>>

NoTx       == [owner |-> Nobody, next |-> 0, files |-> NoFiles, revision |-> 0]
NoMutation == [expected |-> 0, ops |-> <<>>]

StoreInit ==
  /\ files = NoFiles /\ revision = 0
  /\ tx = NoTx
  /\ status = [c \in Client |-> "idle"]
  /\ mutation = [c \in Client |-> NoMutation]

\* A read transaction runs only while no readwrite one does.
Readable == tx = NoTx

\* mutate() is called: it waits for its transaction to be started.
Mutate(c, m) ==
  /\ status[c] = "idle"
  /\ status' = [status EXCEPT ![c] = "asked"]
  /\ mutation' = [mutation EXCEPT ![c] = m]
  /\ UNCHANGED <<files, revision, tx>>

\* The transaction starts and reads the revision and the paths.  A batch that
\* is not legal is answered; nothing has been written.
Begin(c) ==
  /\ status[c] = "asked" /\ tx = NoTx
  /\ IF PlanError(files, revision, mutation[c]) = "none"
     THEN /\ tx' = [owner |-> c, next |-> 1, files |-> files, revision |-> revision]
          /\ UNCHANGED status
     ELSE /\ status' = [status EXCEPT ![c] = "refused"]
          /\ UNCHANGED tx
  /\ UNCHANGED <<files, revision, mutation>>

\* put or delete of the next operation of the batch.
PutFile ==
  /\ tx # NoTx /\ tx.next <= Len(mutation[tx.owner].ops)
  /\ files' = ApplyOp(files, mutation[tx.owner].ops[tx.next])
  /\ tx' = [tx EXCEPT !.next = @ + 1]
  /\ UNCHANGED <<revision, status, mutation>>

PutRevision ==
  /\ tx # NoTx /\ tx.next = Len(mutation[tx.owner].ops) + 1
  /\ revision' = tx.revision + 1
  /\ tx' = [tx EXCEPT !.next = @ + 1]
  /\ UNCHANGED <<files, status, mutation>>

Commit ==
  /\ tx # NoTx /\ tx.next = Len(mutation[tx.owner].ops) + 2
  /\ tx' = NoTx
  /\ status' = [status EXCEPT ![tx.owner] = "landed"]
  /\ UNCHANGED <<files, revision, mutation>>

\* Mutant: a failure in the middle of a batch leaves what was written.
AbortKeepsWrites ==
  /\ tx # NoTx
  /\ tx' = NoTx
  /\ status' = [status EXCEPT ![tx.owner] = "refused"]
  /\ UNCHANGED <<files, revision, mutation>>

\* A request fails, the commit fails, or the tab is gone: the database undoes
\* the transaction and mutate() throws.
Abort ==
  /\ tx # NoTx
  /\ files' = tx.files /\ revision' = tx.revision
  /\ tx' = NoTx
  /\ status' = [status EXCEPT ![tx.owner] = "refused"]
  /\ UNCHANGED mutation

StoreStep == PutFile \/ PutRevision \/ Commit \/ Abort \/ \E c \in Client : Begin(c)

\* mutate() returns.
Returned(c) ==
  /\ status[c] \in {"landed", "refused"}
  /\ status' = [status EXCEPT ![c] = "idle"]
  /\ UNCHANGED <<files, revision, tx, mutation>>

\* Any batch at all may be handed in.
StoreNext ==
  StoreStep \/ \E c \in Client : Returned(c) \/ (IsBatch(mutation'[c].ops) /\ Mutate(c, mutation'[c]))

StoreSpec == StoreInit /\ [][StoreNext]_storeVars

-----------------------------------------------------------------------------
(* What is in the database once the running transaction is undone           *)

CommittedFiles    == IF tx = NoTx THEN files ELSE tx.files
CommittedRevision == IF tx = NoTx THEN revision ELSE tx.revision

Atomic == INSTANCE AtomicStore WITH files <- CommittedFiles, revision <- CommittedRevision

\* Every mutation lands as a whole, in one step, and on the revision its caller
\* named, although it is carried out request by request and may fail at each
\* (the transaction of mutate() and planMutation).
ImplementsAtomicStore == Atomic!Spec
==============================================================================
