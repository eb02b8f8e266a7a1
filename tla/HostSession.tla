----------------------------- MODULE HostSession -----------------------------
(***************************************************************************)
(* The creator's tab of a phone preview: the class HostSession and the     *)
(* pure functions of its phases (src/preview/hostSession.ts).              *)
(*                                                                         *)
(* Every action is one turn of the tab's event loop.  start() and the      *)
(* answer to a snapshot-request take two turns each, because they await    *)
(* digests and the workspace in between.  The reads of one answer are one  *)
(* await: nothing the tab or the relay can see happens between them.       *)
(***************************************************************************)
EXTENDS PreviewProtocol, Integers, SequencesExt

CONSTANTS
  Image,       \* the image ids of the story
  Snapshot,    \* the snapshots that can be read: byte lengths, 0 for no image
  ChunkBytes   \* MAX_CHUNK_BYTES

VARIABLES
  phase,       \* #state.phase
  over,        \* #ended: no further message of the relay is listened to
  starting,    \* start(): not called, awaiting the digests, or done
  hostWs,      \* #ws as the tab sees it; "none" = null
  linkShown,   \* #state.viewerUrl # null
  answering,   \* how many snapshot-requests are being answered
  hostOut      \* what the last turn sent

vars == <<phase, over, starting, hostWs, linkShown, answering, hostOut>>

Phase == {"connecting", "waiting-for-scan", "confirm-pairing", "transferring", "sent",
          "send-blocked", "host-offline", "session-expired", "relay-error", "ended"}
Socket == {"none", "connecting", "open", "closing", "closed"}

\* #send: nothing is sent on a socket that is not open.
Send(msgs) == hostOut' = IF hostWs = "open" THEN msgs ELSE <<>>

-----------------------------------------------------------------------------
(* The transfer of a snapshot                                               *)

\* Mutant: one piece too many when the last one is full.
PiecesOneMore(n) == n \div ChunkBytes + 1

\* chunkBytes: how many pieces, and how long each of them is.
Pieces(n)      == IF n = 0 THEN 1 ELSE (n + ChunkBytes - 1) \div ChunkBytes
PieceLen(n, k) == IF k < Pieces(n) THEN ChunkBytes ELSE n - (Pieces(n) - 1) * ChunkBytes

\* Mutant: the pieces are numbered from one.
ChunksFromOne(i, n) ==
  [k \in 1 .. Pieces(n) |->
     ChunkMsg([id |-> i, index |-> k, total |-> Pieces(n), bytes |-> PieceLen(n, k)])]

\* buildImageChunkMessages
Chunks(i, n) ==
  [k \in 1 .. Pieces(n) |->
     ChunkMsg([id |-> i, index |-> k - 1, total |-> Pieces(n), bytes |-> PieceLen(n, k)])]

\* What one answer sends, in order.
Transfer(s) ==
  LET ids == SetToSeq({i \in Image : s[i] > 0})
  IN <<ManifestMsg(s)>>
     \o FlattenSeq([k \in DOMAIN ids |-> Chunks(ids[k], s[ids[k]])])
     \o <<Plain("snapshot-complete")>>

-----------------------------------------------------------------------------
(* Starting and ending                                                      *)

\* start() up to its awaits.  The controller calls it once.
Start ==
  /\ starting = "no"
  /\ starting' = "deriving"
  /\ hostOut' = <<>>
  /\ UNCHANGED <<phase, over, hostWs, linkShown, answering>>

\* start() after its awaits: the socket is made whether or not end() was called.
Connect ==
  /\ starting = "deriving"
  /\ starting' = "done"
  /\ hostWs' = "connecting"
  /\ hostOut' = <<>>
  /\ UNCHANGED <<phase, over, linkShown, answering>>

\* The open event.
OnOpen ==
  /\ hostWs = "connecting"
  /\ hostWs' = "open"
  /\ hostOut' = <<HelloMsg("host", "good")>>
  /\ UNCHANGED <<phase, over, starting, linkShown, answering>>

\* applyConnectionLost
ConnectionLost ==
  CASE phase \in {"ended", "session-expired", "relay-error"} -> phase
    [] phase = "connecting"                                  -> "relay-error"
    [] OTHER                                                 -> "host-offline"

\* The close and error events (#onClose).
OnClose ==
  /\ hostWs \in {"connecting", "open", "closing"}
  /\ hostWs' = "closed"
  /\ phase' = IF over THEN phase ELSE ConnectionLost
  /\ hostOut' = <<>>
  /\ UNCHANGED <<over, starting, linkShown, answering>>

\* end()
End ==
  /\ ~over
  /\ over' = TRUE
  /\ phase' = "ended"
  /\ hostWs' = IF hostWs \in {"connecting", "open"} THEN "closing" ELSE hostWs
  /\ hostOut' = <<>>
  /\ UNCHANGED <<starting, linkShown, answering>>

-----------------------------------------------------------------------------
(* The relay's messages and the creator's answers                           *)

\* #onMessage.  A snapshot-request is worth an answer while transferring only.
OnMessage(m) ==
  /\ hostWs = "open"
  /\ hostOut' = <<>>
  /\ phase' = CASE over                                                        -> phase
                [] m.type = "host-ready"                                       -> "waiting-for-scan"
                [] m.type = "pair-request" /\ phase = "waiting-for-scan"       -> "confirm-pairing"
                [] m.type = "session-expired"                                  -> "session-expired"
                [] m.type = "error"                                            -> "relay-error"
                [] OTHER                                                       -> phase
  /\ linkShown' = (linkShown \/ (~over /\ m.type = "host-ready"))
  /\ over' = (over \/ m.type \in {"session-expired", "error"})
  /\ answering' = IF ~over /\ m.type = "snapshot-request" /\ phase = "transferring"
                    THEN answering + 1 ELSE answering
  /\ UNCHANGED <<starting, hostWs>>

\* The browser drops the messages of a socket that is closing.
Ignore ==
  /\ hostWs = "closing"
  /\ hostOut' = <<>>
  /\ UNCHANGED <<phase, over, starting, hostWs, linkShown, answering>>

\* approve()
Approve ==
  /\ phase = "confirm-pairing"
  /\ phase' = "transferring"
  /\ Send(<<Plain("pair-approve")>>)
  /\ UNCHANGED <<over, starting, hostWs, linkShown, answering>>

\* reject(): back to waiting, the same code stays on the screen.
Reject ==
  /\ phase = "confirm-pairing"
  /\ phase' = "waiting-for-scan"
  /\ Send(<<Plain("pair-reject")>>)
  /\ UNCHANGED <<over, starting, hostWs, linkShown, answering>>

\* #handleSnapshotRequest after its awaits, the snapshot being readable and
\* within the limits: neither the phase nor `over` is looked at again.
AnswerSent(s) ==
  /\ answering > 0
  /\ answering' = answering - 1
  /\ Send(Transfer(s))
  /\ phase' = "sent"
  /\ UNCHANGED <<over, starting, hostWs, linkShown>>

\* #handleSnapshotRequest when the story or an image cannot be read or is too large.
AnswerBlocked ==
  /\ answering > 0
  /\ answering' = answering - 1
  /\ hostOut' = <<>>
  /\ phase' = "send-blocked"
  /\ UNCHANGED <<over, starting, hostWs, linkShown>>

-----------------------------------------------------------------------------

Init ==
  /\ phase = "connecting" /\ over = FALSE
  /\ starting = "no" /\ hostWs = "none" /\ linkShown = FALSE
  /\ answering = 0
  /\ hostOut = <<>>

TypeOK ==
  /\ phase \in Phase
  /\ over \in BOOLEAN
  /\ starting \in {"no", "deriving", "done"}
  /\ hostWs \in Socket
  /\ linkShown \in BOOLEAN
  /\ answering \in Nat
=============================================================================
