------------------------ MODULE IndexedDbStorage_proofs ------------------------
(***************************************************************************)
(* The workspace in IndexedDB implements the atomic store, for any clients *)
(* and any batches, checked by TLAPS.                                      *)
(***************************************************************************)
EXTENDS IndexedDbStorage, Workspace_proofs

-----------------------------------------------------------------------------
(* The inductive invariant                                                  *)

\* How many operations of its batch the running transaction has carried out.
Done == IF tx.next <= Len(mutation[tx.owner].ops) THEN tx.next - 1 ELSE Len(mutation[tx.owner].ops)

\* The running transaction was planned on the revision its mutation names, and what it
\* has changed since is what the first operations of the batch make of the files.
TxInv ==
  tx # NoTx =>
    /\ tx = [owner |-> tx.owner, next |-> tx.next, files |-> tx.files, revision |-> tx.revision]
    /\ tx.owner \in Client /\ status[tx.owner] = "asked"
    /\ tx.revision \in Nat /\ mutation[tx.owner].expected = tx.revision
    /\ tx.next \in 1 .. Len(mutation[tx.owner].ops) + 2
    /\ IsFcn(tx.files)
    /\ files = Outcome(tx.files, SubSeq(mutation[tx.owner].ops, 1, Done))
    /\ revision = tx.revision + (IF tx.next = Len(mutation[tx.owner].ops) + 2 THEN 1 ELSE 0)

StoreInv ==
  /\ IsFcn(files) /\ revision \in Nat
  /\ status \in [Client -> {"idle", "asked", "landed", "refused"}]
  /\ IsFcn(mutation) /\ DOMAIN mutation = Client
  /\ \A c \in Client : IsBatch(mutation[c].ops)
  /\ TxInv

\* Each step of the storage keeps the invariant, and is a step of the atomic store or
\* none at all; only a commit lands anything.
Implemented ==
  /\ StoreInv'
  /\ [Atomic!Next]_(Atomic!vars)
  /\ (Commit /\ Atomic!Land(tx.owner)) \/ UNCHANGED <<CommittedFiles, CommittedRevision>>

LEMMA StoreInitiallyOk == StoreInit => StoreInv /\ Atomic!Init
<1>. SUFFICES ASSUME StoreInit
              PROVE  StoreInv /\ Atomic!Init
  OBVIOUS
<1>1. IsFcn(files) /\ DOMAIN files = {}
  BY DEF StoreInit, NoFiles, IsFcn
<1>2. IsBatch(<<>>)
  BY DEF IsBatch
<1>3. StoreInv
  BY <1>1, <1>2 DEF StoreInit, StoreInv, TxInv, IsFcn, NoMutation
<1>4. Atomic!Init
  BY DEF StoreInit, NoFiles, Atomic!Init, CommittedFiles, CommittedRevision
<1>. QED
  BY <1>3, <1>4

LEMMA MutateImplements ==
  ASSUME StoreInv, NEW c \in Client, NEW m, IsBatch(m.ops), Mutate(c, m)
  PROVE  Implemented
<1>1. tx # NoTx => tx.owner # c
  BY DEF StoreInv, TxInv, Mutate
<1>2. StoreInv'
  BY <1>1 DEF StoreInv, TxInv, Mutate, IsFcn, Done
<1>3. Atomic!Ask(c)
  BY DEF StoreInv, Mutate, Atomic!Ask, CommittedFiles, CommittedRevision, IsFcn
<1>. QED
  BY <1>2, <1>3 DEF Implemented, Atomic!Next, Atomic!Ask

LEMMA BeginImplements ==
  ASSUME StoreInv, NEW c \in Client, Begin(c)
  PROVE  Implemented
<1>1. CASE PlanError(files, revision, mutation[c]) = "none"
  <2>1. mutation[c].expected = revision
    BY <1>1, PlanIsOfRevision
  <2>2. /\ tx' = [owner |-> c, next |-> 1, files |-> files, revision |-> revision]
        /\ UNCHANGED <<files, revision, status, mutation>> /\ status[c] = "asked" /\ tx = NoTx
    BY <1>1 DEF Begin
  <2>3. DOMAIN SubSeq(mutation[c].ops, 1, 0) = {} /\ Len(mutation[c].ops) \in Nat
    BY BatchIsSeq DEF StoreInv
  <2>4. files = Outcome(files, SubSeq(mutation[c].ops, 1, 0))
    BY <2>3, OutcomeOfNothing DEF StoreInv
  <2>5. Done' = 0
    BY <2>2, <2>3 DEF Done
  <2>6. TxInv'
    BY <2>1, <2>2, <2>3, <2>4, <2>5 DEF TxInv, StoreInv
  <2>7. StoreInv'
    BY <2>2, <2>6 DEF StoreInv
  <2>8. UNCHANGED Atomic!vars
    BY <2>2 DEF Atomic!vars, CommittedFiles, CommittedRevision
  <2>. QED
    BY <2>7, <2>8 DEF Implemented, Atomic!vars
<1>2. CASE PlanError(files, revision, mutation[c]) # "none"
  <2>1. /\ status' = [status EXCEPT ![c] = "refused"] /\ status[c] = "asked" /\ tx = NoTx
        /\ UNCHANGED <<files, revision, tx, mutation>>
    BY <1>2 DEF Begin
  <2>2. StoreInv'
    BY <2>1 DEF StoreInv, TxInv
  <2>3. Atomic!Refuse(c)
    BY <2>1 DEF Atomic!Refuse, CommittedFiles, CommittedRevision
  <2>. QED
    BY <2>2, <2>3 DEF Implemented, Atomic!Next, Atomic!Refuse
<1>. QED
  BY <1>1, <1>2

LEMMA PutFileImplements ==
  ASSUME StoreInv, PutFile
  PROVE  Implemented
<1>. DEFINE ops == mutation[tx.owner].ops
<1>1. /\ tx # NoTx /\ tx.next <= Len(ops) /\ files' = ApplyOp(files, ops[tx.next])
      /\ tx' = [tx EXCEPT !.next = @ + 1] /\ UNCHANGED <<revision, status, mutation>>
  BY DEF PutFile
<1>2. IsBatch(ops) /\ Len(ops) \in Nat /\ tx.next \in 1 .. Len(ops)
  BY <1>1, BatchIsSeq DEF StoreInv, TxInv
<1>3. /\ tx' = [owner |-> tx.owner, next |-> tx.next + 1, files |-> tx.files, revision |-> tx.revision]
      /\ Done = tx.next - 1 /\ Done' = tx.next
  BY <1>1, <1>2 DEF StoreInv, TxInv, Done
<1>4. files' = Outcome(tx.files, SubSeq(ops, 1, tx.next))
  <2>1. tx.next - 1 \in 0 .. Len(ops) - 1 /\ tx.next - 1 + 1 = tx.next
    BY <1>2
  <2>2. files = Outcome(tx.files, SubSeq(ops, 1, tx.next - 1)) /\ IsFcn(tx.files)
    BY <1>1, <1>3 DEF StoreInv, TxInv
  <2>. HIDE DEF ops
  <2>3. Outcome(tx.files, SubSeq(ops, 1, tx.next - 1 + 1)) =
          ApplyOp(Outcome(tx.files, SubSeq(ops, 1, tx.next - 1)), ops[tx.next - 1 + 1])
    BY <1>2, <2>1, <2>2, OutcomeStep
  <2>. QED
    BY <1>1, <2>1, <2>2, <2>3
<1>5. IsFcn(files')
  BY <1>1, ApplyOpIsFcn
<1>6. TxInv'
  BY <1>1, <1>2, <1>3, <1>4 DEF TxInv, StoreInv
<1>7. StoreInv'
  BY <1>1, <1>5, <1>6 DEF StoreInv, IsFcn
<1>8. tx' # NoTx
  BY <1>1, <1>3, NobodyAssumption DEF StoreInv, TxInv, NoTx
<1>9. UNCHANGED Atomic!vars
  BY <1>1, <1>3, <1>8 DEF Atomic!vars, CommittedFiles, CommittedRevision
<1>. QED
  BY <1>7, <1>9 DEF Implemented, Atomic!vars

LEMMA PutRevisionImplements ==
  ASSUME StoreInv, PutRevision
  PROVE  Implemented
<1>. DEFINE ops == mutation[tx.owner].ops
<1>1. /\ tx # NoTx /\ tx.next = Len(ops) + 1 /\ revision' = tx.revision + 1
      /\ tx' = [tx EXCEPT !.next = @ + 1] /\ UNCHANGED <<files, status, mutation>>
  BY DEF PutRevision
<1>2. Len(ops) \in Nat
  BY <1>1, BatchIsSeq DEF StoreInv, TxInv
<1>3. /\ tx' = [owner |-> tx.owner, next |-> tx.next + 1, files |-> tx.files, revision |-> tx.revision]
      /\ Done = Len(ops) /\ Done' = Len(ops)
  BY <1>1, <1>2 DEF StoreInv, TxInv, Done
<1>4. StoreInv'
  BY <1>1, <1>2, <1>3 DEF StoreInv, TxInv
<1>5. tx' # NoTx
  BY <1>1, <1>3, NobodyAssumption DEF StoreInv, TxInv, NoTx
<1>6. UNCHANGED Atomic!vars
  BY <1>1, <1>3, <1>5 DEF Atomic!vars, CommittedFiles, CommittedRevision
<1>. QED
  BY <1>4, <1>6 DEF Implemented, Atomic!vars

LEMMA CommitImplements ==
  ASSUME StoreInv, Commit
  PROVE  Implemented
<1>. DEFINE ops == mutation[tx.owner].ops
<1>1. /\ tx # NoTx /\ tx.next = Len(ops) + 2 /\ tx' = NoTx
      /\ status' = [status EXCEPT ![tx.owner] = "landed"] /\ UNCHANGED <<files, revision, mutation>>
  BY DEF Commit
<1>2. /\ Len(ops) \in Nat /\ SubSeq(ops, 1, Len(ops)) = ops
      /\ tx.owner \in Client /\ status[tx.owner] = "asked" /\ mutation[tx.owner].expected = tx.revision
  <2>1. tx.owner \in Client /\ IsBatch(ops)
    BY <1>1 DEF StoreInv, TxInv
  <2>2. Len(ops) \in Nat /\ ops = [i \in 1 .. Len(ops) |-> ops[i]]
        /\ \A n \in 0 .. Len(ops) : SubSeq(ops, 1, n) = [i \in 1 .. n |-> ops[i]]
    BY <2>1, BatchIsSeq
  <2>3. SubSeq(ops, 1, Len(ops)) = ops
    <3>. HIDE DEF ops
    <3>. QED
      BY <2>2
  <2>. QED
    BY <1>1, <2>1, <2>2, <2>3 DEF StoreInv, TxInv
<1>3. files = Outcome(tx.files, ops) /\ revision = tx.revision + 1
  <2>1. /\ files = Outcome(tx.files, SubSeq(ops, 1, Done))
        /\ revision = tx.revision + (IF tx.next = Len(ops) + 2 THEN 1 ELSE 0)
    BY <1>1 DEF StoreInv, TxInv
  <2>2. Done = Len(ops) /\ revision = tx.revision + 1
    BY <1>1, <1>2, <2>1 DEF Done
  <2>3. files = Outcome(tx.files, SubSeq(ops, 1, Len(ops)))
    BY <2>1, <2>2
  <2>. QED
    BY <1>2, <2>2, <2>3
<1>4. StoreInv'
  BY <1>1, <1>2 DEF StoreInv, TxInv
<1>5. Atomic!Land(tx.owner)
  BY <1>1, <1>2, <1>3 DEF Atomic!Land, CommittedFiles, CommittedRevision
<1>. QED
  BY <1>2, <1>4, <1>5 DEF Implemented, Atomic!Next

LEMMA AbortImplements ==
  ASSUME StoreInv, Abort
  PROVE  Implemented
<1>1. /\ tx # NoTx /\ files' = tx.files /\ revision' = tx.revision /\ tx' = NoTx
      /\ status' = [status EXCEPT ![tx.owner] = "refused"] /\ UNCHANGED mutation
  BY DEF Abort
<1>2. tx.owner \in Client /\ status[tx.owner] = "asked" /\ IsFcn(tx.files) /\ tx.revision \in Nat
  BY <1>1 DEF StoreInv, TxInv
<1>3. StoreInv'
  BY <1>1, <1>2 DEF StoreInv, TxInv, IsFcn
<1>4. Atomic!Refuse(tx.owner)
  BY <1>1, <1>2 DEF Atomic!Refuse, CommittedFiles, CommittedRevision
<1>. QED
  BY <1>2, <1>3, <1>4 DEF Implemented, Atomic!Next, Atomic!Refuse

LEMMA ReturnedImplements ==
  ASSUME StoreInv, NEW c \in Client, Returned(c)
  PROVE  Implemented
<1>1. /\ status[c] \in {"landed", "refused"} /\ status' = [status EXCEPT ![c] = "idle"]
      /\ UNCHANGED <<files, revision, tx, mutation>>
  BY DEF Returned
<1>2. tx # NoTx => tx.owner # c
  BY <1>1 DEF StoreInv, TxInv
<1>3. StoreInv'
  BY <1>1, <1>2 DEF StoreInv, TxInv, Done
<1>4. Atomic!Return(c)
  BY <1>1 DEF Atomic!Return, CommittedFiles, CommittedRevision
<1>. QED
  BY <1>3, <1>4 DEF Implemented, Atomic!Next, Atomic!Return

LEMMA StutterImplements ==
  ASSUME StoreInv, UNCHANGED storeVars
  PROVE  Implemented
<1>1. StoreInv'
  BY DEF StoreInv, TxInv, storeVars, IsFcn, Done
<1>2. UNCHANGED Atomic!vars
  BY DEF storeVars, Atomic!vars, CommittedFiles, CommittedRevision
<1>. QED
  BY <1>1, <1>2 DEF Implemented, Atomic!vars

LEMMA StepImplements == StoreInv /\ [StoreNext]_storeVars => Implemented
<1>. SUFFICES ASSUME StoreInv, [StoreNext]_storeVars
              PROVE  Implemented
  OBVIOUS
<1>1. CASE PutFile \/ PutRevision \/ Commit \/ Abort
  BY <1>1, PutFileImplements, PutRevisionImplements, CommitImplements, AbortImplements
<1>2. ASSUME NEW c \in Client, Begin(c) \/ Returned(c) PROVE Implemented
  BY <1>2, BeginImplements, ReturnedImplements
<1>3. ASSUME NEW c \in Client, IsBatch(mutation'[c].ops), Mutate(c, mutation'[c]) PROVE Implemented
  BY <1>3, MutateImplements
<1>4. CASE UNCHANGED storeVars
  BY <1>4, StutterImplements
<1>. QED
  BY <1>1, <1>2, <1>3, <1>4 DEF StoreNext, StoreStep

\* Every mutation lands as a whole, in one step, on the revision its caller named, or
\* not at all, whatever the batches are and wherever a transaction is aborted
\* (indexeddbWorkspaceStorage.ts:210-281, mutate.ts:34-125).
THEOREM StorageRefinement == StoreSpec => ImplementsAtomicStore
<1>1. StoreInit => StoreInv /\ Atomic!Init
  BY StoreInitiallyOk
<1>2. StoreInv /\ [StoreNext]_storeVars => StoreInv' /\ [Atomic!Next]_(Atomic!vars)
  BY StepImplements DEF Implemented
<1>. QED
  BY <1>1, <1>2, PTL DEF StoreSpec, ImplementsAtomicStore, Atomic!Spec
=============================================================================
