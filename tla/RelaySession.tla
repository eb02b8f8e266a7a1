---------------------------- MODULE RelaySession ----------------------------
(***************************************************************************)
(* The relay's Durable Object SessionDO (relay/src/session-do.ts): one     *)
(* instance per session id, which pairs one host connection with one       *)
(* viewer connection and forwards a story snapshot between them.           *)
(*                                                                         *)
(* Every action is one turn of the object's event loop.  A hello takes two *)
(* turns, because its handler awaits a SHA-256 digest between reading the  *)
(* message (ReceiveFirst) and acting on it (HelloVerified); any other      *)
(* event may run in between.  Time is abstract: a timer is armed or not,   *)
(* an armed timer may fire at any moment, and restarting an armed timer    *)
(* leaves it armed.                                                        *)
(***************************************************************************)
EXTENDS PreviewProtocol, Integers

CONSTANTS
  Conn,       \* the WebSocket connections ever opened to this session id
  NoConn,     \* an empty socket field (null)
  Image,      \* the image ids a manifest may declare
  MaxBytes,   \* bound: the largest byte length a manifest declares
  MaxTotal,   \* bound: the largest chunk count a chunk claims
  MaxChunk,   \* the cap on one chunk's bytes (exceedsChunkSizeCap)
  RateMax     \* messages per connection and window (RATE_LIMIT_MAX_MESSAGES)

ASSUME NoConnAssumption == NoConn \notin Conn
ASSUME SizeAssumption   == {MaxBytes, MaxTotal, MaxChunk, RateMax} \subseteq Nat \ {0}

VARIABLES
  link,          \* [Conn -> Link]: the socket as the object sees it
  shotUsed,      \* [Conn -> BOOLEAN]: ConnectionState.preAuthShotUsed
  hello,         \* [Conn -> Hello]: the hello whose digest is being awaited
  rate,          \* [Conn -> 0 .. RateMax + 1]: ConnectionState.rateCount
  host, viewer,  \* #hostSocket, #viewerSocket
  paired, tokenConsumed, ended,
  pairingTimer, idleTimer, absoluteTimer,   \* armed or not
  manifest,      \* #expectedImageBytes; 0 bytes = not declared, all 0 = null
  progress,      \* #chunkProgress; total 0 = no entry
  out,           \* what the last turn sent: at most one message per connection
  approved       \* history: the viewers the host of this instance has approved

sockets  == <<link, shotUsed, hello>>
slots    == <<host, viewer>>
pairing  == <<paired, tokenConsumed, approved>>
timers   == <<pairingTimer, idleTimer, absoluteTimer>>
transfer == <<manifest, progress>>
vars     == <<sockets, rate, slots, pairing, ended, timers, transfer, out>>

-----------------------------------------------------------------------------
(* Messages.  A payload is what the relay's checks look at and no more.     *)

\* "closing": the object has called close(); "closed": its close event has run.
Link == {"idle", "open", "closing", "closed"}

NoHello    == [role |-> "none", valid |-> FALSE]
Hello      == [role : {"host", "viewer"}, valid : BOOLEAN]
NoManifest == [i \in Image |-> 0]
Declared   == [Image -> 0 .. MaxBytes]
NoProgress == [next |-> 0, total |-> 0, bytes |-> 0]
Progress   == [next : Nat, total : 0 .. MaxTotal, bytes : 0 .. MaxBytes]
Chunk      == {k \in [id : Image, index : 0 .. MaxTotal, total : 1 .. MaxTotal,
                      bytes : 1 .. (MaxChunk + 1)] : k.index < k.total}

\* A hello whose credential has the wrong shape is refused without a digest.
\* "garbage" is a text frame that is no known message of the right shape,
\* "binary" a frame that is not text, "oversized" a text frame above 256 KiB.
BadFrame  == {"binary", "oversized"}
PlainType == BadFrame \cup {"garbage", "pair-approve", "pair-reject",
                            "snapshot-request", "snapshot-complete"}

Message ==
  {HelloMsg(role, cred) : role \in {"host", "viewer"}, cred \in {"good", "wrong", "malformed"}}
  \cup {Plain(type) : type \in PlainType}
  \cup {ManifestMsg(images) : images \in Declared}
  \cup {ChunkMsg(chunk) : chunk \in Chunk}

\* What the object sends; `arg` is an error's code, a manifest's sizes or a chunk.
To(c, type, arg) == IF c = NoConn THEN {} ELSE {[to |-> c, type |-> type, arg |-> arg]}
Tell(c, type)    == To(c, type, "none")
Error(c, code)   == To(c, "error", code)

\* #send: a closing or closed socket throws, and the throw is swallowed.
Send(msgs) == out' = {m \in msgs : link[m.to] = "open"}

\* #closeRaw and #tryClose on every addressee: the message, then close().
Closed(msgs) == [c \in Conn |-> IF link[c] = "open" /\ \E m \in msgs : m.to = c
                                  THEN "closing" ELSE link[c]]
SendAndClose(msgs) == Send(msgs) /\ link' = Closed(msgs)

-----------------------------------------------------------------------------
(* The ways a connection or the session is ended                            *)

\* #terminate: paired and tokenConsumed keep their values.
Terminate ==
  /\ ended' = TRUE
  /\ host' = NoConn /\ viewer' = NoConn
  /\ pairingTimer' = FALSE /\ idleTimer' = FALSE /\ absoluteTimer' = FALSE
  /\ UNCHANGED <<pairing, transfer>>

\* #endByHostFault: the host learns the code, the viewer only host-offline.
EndByHostFault(code) ==
  /\ SendAndClose(Error(host, code) \cup Error(viewer, "host-offline"))
  /\ Terminate

\* #endBySessionExpired
EndBySessionExpired ==
  /\ SendAndClose(Error(host, "session-expired") \cup Error(viewer, "session-expired"))
  /\ Terminate

\* Mutant: the refused viewer keeps its slot.
RejectViewerKeepsSlot(code) ==
  /\ SendAndClose(Error(viewer, code))
  /\ UNCHANGED <<slots, pairing, ended, timers, transfer>>

\* #rejectViewerOnly
RejectViewerOnly(code) ==
  /\ SendAndClose(Error(viewer, code))
  /\ viewer' = NoConn
  /\ UNCHANGED <<host, pairing, ended, timers, transfer>>

\* Mutant: every fault ends the session, whoever commits it.
ViolateEndsSession(c, code) == EndByHostFault(code)

\* #violate: a host's fault ends the session, a viewer's only the viewer.
Violate(c, code) ==
  IF c = host THEN EndByHostFault(code) ELSE RejectViewerOnly(code)

-----------------------------------------------------------------------------
(* Connections                                                              *)

\* fetch and #attach: the socket is accepted and its pre-auth timer starts.
Upgrade(c) ==
  /\ link[c] = "idle"
  /\ link' = [link EXCEPT ![c] = "open"]
  /\ out' = {}
  /\ UNCHANGED <<shotUsed, hello, rate, slots, pairing, ended, timers, transfer>>

\* Frames of a socket the object has closed may still be on their way in.
Listening(c) == link[c] \in {"open", "closing"}

\* Mutant: the timer goes off while the first message is being looked at.
PreAuthTimeoutAfterShot(c) ==
  /\ Listening(c) /\ c \notin {host, viewer}
  /\ shotUsed' = [shotUsed EXCEPT ![c] = TRUE]
  /\ SendAndClose(Error(c, "protocol-violation"))
  /\ UNCHANGED <<hello, rate, slots, pairing, ended, timers, transfer>>

\* #attach's timer, which runs until the shot is used or the socket closes.
PreAuthTimeout(c) ==
  /\ Listening(c) /\ ~shotUsed[c]
  /\ shotUsed' = [shotUsed EXCEPT ![c] = TRUE]
  /\ SendAndClose(Error(c, "protocol-violation"))
  /\ UNCHANGED <<hello, rate, slots, pairing, ended, timers, transfer>>

\* Mutant: a paired viewer that leaves gives pairing and token back.
SocketClosedUnpairs(c) ==
  /\ Listening(c)
  /\ link' = [link EXCEPT ![c] = "closed"]
  /\ out' = {}
  /\ IF c = viewer THEN viewer' = NoConn /\ paired' = FALSE /\ tokenConsumed' = FALSE
                   ELSE UNCHANGED <<viewer, paired, tokenConsumed>>
  /\ UNCHANGED <<shotUsed, hello, rate, host, approved, ended, timers, transfer>>

\* The close or error event (#handleSocketClose, #endByHostDisconnect).
SocketClosed(c) ==
  /\ Listening(c)
  /\ UNCHANGED <<shotUsed, hello, rate>>
  /\ IF c = host /\ ~ended
       THEN LET msgs == Error(viewer, "host-offline")
            IN /\ Send(msgs)
               /\ link' = [Closed(msgs) EXCEPT ![c] = "closed"]
               /\ Terminate
       ELSE /\ link' = [link EXCEPT ![c] = "closed"]
            /\ out' = {}
            /\ viewer' = IF c = viewer THEN NoConn ELSE viewer
            /\ UNCHANGED <<host, pairing, ended, timers, transfer>>

-----------------------------------------------------------------------------
(* The first message of a connection                                        *)

\* #onMessage once the session is over, whoever sends.
ReceiveAfterEnd(c) ==
  /\ Listening(c) /\ ended
  /\ SendAndClose(Error(c, "session-expired"))
  /\ UNCHANGED <<shotUsed, hello, rate, slots, pairing, ended, timers, transfer>>

FirstMessageFault(m) ==
  CASE m.type = "oversized" -> "too-large"
    [] m.type = "hello"     -> "invalid-token"
    [] OTHER                -> "protocol-violation"

\* #onMessage and #handleFirstMessage up to the await.
ReceiveFirst(c, m) ==
  /\ Listening(c) /\ ~ended /\ c \notin {host, viewer} /\ ~shotUsed[c]
  /\ shotUsed' = [shotUsed EXCEPT ![c] = TRUE]
  /\ IF m.type = "hello" /\ m.cred # "malformed"
       THEN /\ hello' = [hello EXCEPT ![c] = [role |-> m.role, valid |-> m.cred = "good"]]
            /\ out' = {} /\ UNCHANGED link
       ELSE /\ SendAndClose(Error(c, FirstMessageFault(m)))
            /\ UNCHANGED hello
  /\ UNCHANGED <<rate, slots, pairing, ended, timers, transfer>>

\* #onMessage: a connection that has used its shot is not listened to.
ReceiveSpent(c) ==
  /\ Listening(c) /\ ~ended /\ c \notin {host, viewer} /\ shotUsed[c]
  /\ out' = {}
  /\ UNCHANGED <<sockets, rate, slots, pairing, ended, timers, transfer>>

RefuseHello(c, code) ==
  /\ SendAndClose(Error(c, code))
  /\ UNCHANGED <<slots, timers>>

\* Mutant: no timer is started for the session.
HostHelloUntimed(c) ==
  IF ~hello[c].valid THEN RefuseHello(c, "invalid-token")
  ELSE IF host # NoConn THEN RefuseHello(c, "protocol-violation")
  ELSE /\ host' = c
       /\ Send(Tell(c, "host-ready"))
       /\ UNCHANGED <<link, viewer, timers>>

\* Mutant: whether there is a host is not looked at after the await.
HostHelloTakesOver(c) ==
  IF ~hello[c].valid THEN RefuseHello(c, "invalid-token")
  ELSE /\ host' = c
       /\ pairingTimer' = TRUE /\ absoluteTimer' = TRUE
       /\ Send(Tell(c, "host-ready"))
       /\ UNCHANGED <<link, viewer, idleTimer>>

\* #handleHostHello after the await: neither `ended` nor the socket is looked at.
HostHello(c) ==
  IF ~hello[c].valid THEN RefuseHello(c, "invalid-token")
  ELSE IF host # NoConn THEN RefuseHello(c, "protocol-violation")
  ELSE /\ host' = c
       /\ pairingTimer' = TRUE /\ absoluteTimer' = TRUE
       /\ Send(Tell(c, "host-ready"))
       /\ UNCHANGED <<link, viewer, idleTimer>>

TakeViewerSlot(c) ==
  /\ viewer' = c
  /\ Send(Tell(host, "pair-request") \cup Tell(c, "awaiting-approval"))
  /\ UNCHANGED <<link, host, timers>>

\* Mutant: a consumed token is not refused.
ViewerHelloReusesToken(c) ==
  IF ~hello[c].valid THEN RefuseHello(c, "invalid-token")
  ELSE IF host = NoConn THEN RefuseHello(c, "host-offline")
  ELSE IF viewer # NoConn THEN RefuseHello(c, "protocol-violation")
  ELSE TakeViewerSlot(c)

\* #handleViewerHello after the await
ViewerHello(c) ==
  IF ~hello[c].valid THEN RefuseHello(c, "invalid-token")
  ELSE IF host = NoConn THEN RefuseHello(c, "host-offline")
  ELSE IF tokenConsumed THEN RefuseHello(c, "token-consumed")
  ELSE IF viewer # NoConn THEN RefuseHello(c, "protocol-violation")
  ELSE TakeViewerSlot(c)

\* The turn that resumes a hello when its digest has been computed.
HelloVerified(c) ==
  /\ hello[c] # NoHello
  /\ hello' = [hello EXCEPT ![c] = NoHello]
  /\ IF hello[c].role = "host" THEN HostHello(c) ELSE ViewerHello(c)
  /\ UNCHANGED <<shotUsed, rate, pairing, ended, transfer>>

-----------------------------------------------------------------------------
(* The messages of the host and the viewer                                  *)

\* #onMessage: a promoted connection of a live session.
Promoted(c) == Listening(c) /\ ~ended /\ c \in {host, viewer}

ReceiveBadFrame(c, m) ==
  /\ Promoted(c) /\ m.type \in BadFrame
  /\ Violate(c, IF m.type = "binary" THEN "protocol-violation" ELSE "too-large")
  /\ UNCHANGED <<shotUsed, hello, rate>>

\* #checkRateLimit.  `fresh`: the fixed window has elapsed.  The host's image
\* chunks are not counted (nor is garbage that merely looks like one: either way
\* the garbage ends the session, nor another message of the host that has the words
\* somewhere in its text).
Counted(c, m)       == ~(c = host /\ m.type = "image-chunk")
Count(c, m, fresh)  == IF ~Counted(c, m) THEN rate[c] ELSE IF fresh THEN 1 ELSE rate[c] + 1
Within(c, m, fresh) == Counted(c, m) => Count(c, m, fresh) <= RateMax

ReceiveOverRate(c, m, fresh) ==
  /\ Promoted(c) /\ m.type \notin BadFrame /\ ~Within(c, m, fresh)
  /\ rate' = [rate EXCEPT ![c] = Count(c, m, fresh)]
  /\ Violate(c, "rate-limited")
  /\ UNCHANGED <<shotUsed, hello>>

\* #handleSubsequentMessage is reached.  Restarting the idle timer of a paired
\* session leaves it armed.
Accepted(c, m, fresh) ==
  /\ Promoted(c) /\ m.type \notin BadFrame /\ Within(c, m, fresh)
  /\ rate' = [rate EXCEPT ![c] = Count(c, m, fresh)]
  /\ UNCHANGED <<shotUsed, hello>>

\* The host may approve or reject when a viewer is waiting.
ViewerWaiting == viewer # NoConn /\ ~paired

HostOnly    == {"pair-approve", "pair-reject"} \cup StoryType
OutOfTurn(c, m) ==
  \/ m.type \in {"garbage", "hello"}
  \/ m.type \in HostOnly /\ c # host
  \/ m.type \in {"pair-approve", "pair-reject"} /\ c = host /\ ~ViewerWaiting
  \/ m.type = "snapshot-request" /\ c = host
  \/ m.type \in StoryType /\ c = host /\ ~paired

ReceiveOutOfTurn(c, m, fresh) ==
  /\ Accepted(c, m, fresh) /\ OutOfTurn(c, m)
  /\ Violate(c, "protocol-violation")

\* Mutant: the pairing timer is left running.
ApproveKeepsTimer ==
  /\ tokenConsumed' = TRUE /\ paired' = TRUE
  /\ approved' = approved \cup {viewer}
  /\ idleTimer' = TRUE
  /\ Send(Tell(viewer, "pair-approve"))
  /\ UNCHANGED <<link, slots, ended, pairingTimer, absoluteTimer, transfer>>

\* #onPairApprove
OnPairApprove ==
  /\ tokenConsumed' = TRUE /\ paired' = TRUE
  /\ approved' = approved \cup {viewer}
  /\ pairingTimer' = FALSE /\ idleTimer' = TRUE
  /\ Send(Tell(viewer, "pair-approve"))
  /\ UNCHANGED <<link, slots, ended, absoluteTimer, transfer>>

\* Mutant: the rejected viewer's connection is left open.
RejectLeavesOpen ==
  /\ viewer' = NoConn
  /\ Send(Tell(viewer, "pair-reject"))
  /\ UNCHANGED <<link, host, pairing, ended, timers, transfer>>

\* Mutant: the rejected viewer is closed but not forgotten.
RejectKeepsSlot ==
  /\ SendAndClose(Tell(viewer, "pair-reject"))
  /\ UNCHANGED <<slots, pairing, ended, timers, transfer>>

\* #onPairReject: the token stays usable and the pairing timer keeps running.
OnPairReject ==
  /\ viewer' = NoConn
  /\ SendAndClose(Tell(viewer, "pair-reject"))
  /\ UNCHANGED <<host, pairing, ended, timers, transfer>>

OnSnapshotRequest ==
  IF ~paired THEN RejectViewerOnly("not-paired")
  ELSE /\ Send(Tell(host, "snapshot-request"))
       /\ UNCHANGED <<link, slots, pairing, ended, timers, transfer>>

\* Mutant: a new manifest does not start the transfer over.
ManifestKeepsProgress(images) ==
  /\ manifest' = images
  /\ Send(To(viewer, "snapshot-manifest", images))
  /\ UNCHANGED <<link, slots, pairing, ended, timers, progress>>

\* #onSnapshotManifest: a new manifest starts the transfer over.
OnSnapshotManifest(images) ==
  /\ manifest' = images
  /\ progress' = [i \in Image |-> NoProgress]
  /\ Send(To(viewer, "snapshot-manifest", images))
  /\ UNCHANGED <<link, slots, pairing, ended, timers>>

\* #onImageChunk: an image without an entry takes the total its first chunk claims.
Entry(k) == IF progress[k.id] = NoProgress THEN [NoProgress EXCEPT !.total = k.total]
                                           ELSE progress[k.id]

\* Mutant: the bytes received so far are not compared with the declared length.
ChunkFaultUnbounded(k) ==
  CASE k.bytes > MaxChunk       -> "too-large"
    [] manifest[k.id] = 0       -> "protocol-violation"
    [] k.total # Entry(k).total -> "protocol-violation"
    [] k.index # Entry(k).next  -> "protocol-violation"
    [] OTHER                    -> "none"

ChunkFault(k) ==
  CASE k.bytes > MaxChunk                         -> "too-large"
    [] manifest[k.id] = 0                         -> "protocol-violation"
    [] k.total # Entry(k).total                   -> "protocol-violation"
    [] k.index # Entry(k).next                    -> "protocol-violation"
    [] Entry(k).bytes + k.bytes > manifest[k.id]  -> "too-large"
    [] OTHER                                      -> "none"

OnImageChunk(k) ==
  IF ChunkFault(k) # "none" THEN EndByHostFault(ChunkFault(k))
  ELSE /\ progress' = [progress EXCEPT ![k.id] =
            [next |-> k.index + 1, total |-> k.total, bytes |-> Entry(k).bytes + k.bytes]]
       /\ Send(To(viewer, "image-chunk", k))
       /\ UNCHANGED <<link, slots, pairing, ended, timers, manifest>>

OnSnapshotComplete ==
  /\ manifest' = NoManifest
  /\ progress' = [i \in Image |-> NoProgress]
  /\ Send(Tell(viewer, "snapshot-complete"))
  /\ UNCHANGED <<link, slots, pairing, ended, timers>>

ReceiveInTurn(c, m, fresh) ==
  /\ Accepted(c, m, fresh) /\ ~OutOfTurn(c, m)
  /\ \/ m.type = "pair-approve"      /\ OnPairApprove
     \/ m.type = "pair-reject"       /\ OnPairReject
     \/ m.type = "snapshot-request"  /\ OnSnapshotRequest
     \/ m.type = "snapshot-manifest" /\ OnSnapshotManifest(m.images)
     \/ m.type = "image-chunk"       /\ OnImageChunk(m.chunk)
     \/ m.type = "snapshot-complete" /\ OnSnapshotComplete

-----------------------------------------------------------------------------
(* Timers and eviction                                                      *)

Timer    == {"pairing", "idle", "absolute"}
Armed(t) == CASE t = "pairing"  -> pairingTimer
              [] t = "idle"     -> idleTimer
              [] t = "absolute" -> absoluteTimer

\* The timers' callback, #endBySessionExpired, does nothing on an ended instance.
TimerFires(t) ==
  /\ Armed(t)
  /\ IF ended
       THEN /\ pairingTimer'  = (pairingTimer  /\ t # "pairing")
            /\ idleTimer'     = (idleTimer     /\ t # "idle")
            /\ absoluteTimer' = (absoluteTimer /\ t # "absolute")
            /\ out' = {}
            /\ UNCHANGED <<link, slots, pairing, ended, transfer>>
       ELSE EndBySessionExpired
  /\ UNCHANGED <<shotUsed, hello, rate>>

\* The runtime may drop an instance without connections or timers; the next
\* connection to the same session id finds a fresh one (file header).
Evict ==
  /\ \A c \in Conn : ~Listening(c) /\ hello[c] = NoHello
  /\ \A t \in Timer : ~Armed(t)
  /\ host' = NoConn /\ viewer' = NoConn
  /\ paired' = FALSE /\ tokenConsumed' = FALSE /\ ended' = FALSE
  /\ approved' = {}
  /\ manifest' = NoManifest
  /\ progress' = [i \in Image |-> NoProgress]
  /\ out' = {}
  /\ UNCHANGED <<sockets, rate, timers>>

-----------------------------------------------------------------------------
(* The specification                                                        *)

Init ==
  /\ link = [c \in Conn |-> "idle"]
  /\ shotUsed = [c \in Conn |-> FALSE]
  /\ hello = [c \in Conn |-> NoHello]
  /\ rate = [c \in Conn |-> 0]
  /\ host = NoConn /\ viewer = NoConn
  /\ paired = FALSE /\ tokenConsumed = FALSE /\ ended = FALSE
  /\ pairingTimer = FALSE /\ idleTimer = FALSE /\ absoluteTimer = FALSE
  /\ manifest = NoManifest
  /\ progress = [i \in Image |-> NoProgress]
  /\ out = {}
  /\ approved = {}

\* #onMessage, where the message matters
Receive(c, m) ==
  \/ ReceiveFirst(c, m)
  \/ ReceiveBadFrame(c, m)
  \/ \E fresh \in BOOLEAN : \/ ReceiveOverRate(c, m, fresh)
                            \/ ReceiveOutOfTurn(c, m, fresh)
                            \/ ReceiveInTurn(c, m, fresh)

Next ==
  \/ \E c \in Conn : \/ Upgrade(c)
                     \/ PreAuthTimeout(c)
                     \/ SocketClosed(c)
                     \/ HelloVerified(c)
                     \/ ReceiveAfterEnd(c)
                     \/ ReceiveSpent(c)
                     \/ \E m \in Message : Receive(c, m)
  \/ \E t \in Timer : TimerFires(t)
  \/ Evict

\* Timers fire and awaited digests resolve; no client is obliged to do anything.
\* No fairness for the idle timer: every message of a paired session restarts it.
Fairness ==
  /\ \A c \in Conn : WF_vars(PreAuthTimeout(c)) /\ WF_vars(HelloVerified(c))
  /\ WF_vars(TimerFires("pairing")) /\ WF_vars(TimerFires("absolute"))

Spec     == Init /\ [][Next]_vars
FairSpec == Spec /\ Fairness

-----------------------------------------------------------------------------
(* Properties                                                               *)

\* Every variable has its type; no image is ever counted beyond MaxBytes.
TypeOK ==
  /\ link \in [Conn -> Link]
  /\ shotUsed \in [Conn -> BOOLEAN]
  /\ hello \in [Conn -> Hello \cup {NoHello}]
  /\ rate \in [Conn -> 0 .. RateMax + 1]
  /\ host \in Conn \cup {NoConn}
  /\ viewer \in Conn \cup {NoConn}
  /\ paired \in BOOLEAN /\ tokenConsumed \in BOOLEAN /\ ended \in BOOLEAN
  /\ pairingTimer \in BOOLEAN /\ idleTimer \in BOOLEAN /\ absoluteTimer \in BOOLEAN
  /\ manifest \in Declared
  /\ progress \in [Image -> Progress]
  /\ \A m \in out : m.to \in Conn
  /\ approved \subseteq Conn

\* Story content is only ever sent to a viewer that the host approved, whatever
\* viewers came and went before (relay/README.md, message table).
StoryOnlyToApproved == \A m \in out : m.type \in StoryType => m.to \in approved

\* An instance's host approves one viewer at most: the approval consumes the
\* viewer token (#onPairApprove, #handleViewerHello).
OneApprovalPerToken == \A a, b \in approved : a = b

\* A session with a host ends by itself: its absolute timer is armed, and the
\* pairing timer before the approval, the idle timer after it.
LiveSessionExpires ==
  host # NoConn /\ ~ended => absoluteTimer /\ pairingTimer = ~paired /\ idleTimer = paired

\* A connection the relay has closed holds no slot of a live session, so a
\* refused viewer never gets in the way of the next one (#rejectViewerOnly), and
\* will get none: the pre-auth timer closes nobody whose hello is being verified
\* (#attach).
RefusedHoldsNoSlot ==
  ~ended => \A c \in Conn : link[c] = "closing" => c \notin {host, viewer} /\ hello[c] = NoHello

\* What is counted of an image never exceeds what the manifest in force declares.
ChunksWithinManifest ==
  \A i \in Image : /\ progress[i].bytes <= manifest[i]
                   /\ progress[i].next <= progress[i].total

\* What a connection does, or the relay to it; a first hello may make it the host.  That
\* it listens and the session goes on is a condition of every Receive.
ActsOf(c) ==
  \/ PreAuthTimeout(c) \/ SocketClosed(c)
  \/ host # NoConn /\ HelloVerified(c)
  \/ Listening(c) /\ ~ended /\ \E m \in Message : Receive(c, m)

\* Whatever a viewer or a connection without a role does, the session goes on and no
\* other connection is closed, be it a hello that is verified too late, a message or
\* a disconnect (header, error-code dispatch rules).
OthersSpareTheSession ==
  [][\A c \in Conn \ {host} :
       \/ ~ UNCHANGED <<host, paired, tokenConsumed, ended, timers>>
       \/ \E d \in Conn \ {c} : link'[d] # link[d]
       => ~ ActsOf(c)]_vars

\* A slot is taken when it is free, whatever other hello was being verified, and is
\* given up only with the connection that holds it: no host and no viewer is replaced
\* while it is connected (#handleHostHello, #handleViewerHello after the await).
SlotsAreHandedOver ==
  [][/\ host # NoConn /\ host' # host => host' = NoConn /\ link'[host] # "open"
     /\ viewer # NoConn /\ viewer' # viewer => viewer' = NoConn /\ link'[viewer] # "open"]_vars

\* No connection stays open for ever: whoever says nothing meets the pre-auth
\* timer, whoever is refused is closed, a host and its viewer meet the absolute
\* timer.  Excepted are the connections of an instance that a late host hello
\* joined after its session had ended, which no timer closes (HostHello).
EveryConnectionEnds ==
  \A c \in Conn : link[c] = "open" ~> (link[c] # "open" \/ (ended /\ host # NoConn))

\* A viewer is refused as a duplicate only while another one is connected: the
\* code is for a "duplicate concurrent viewer" (relay/README.md:109).
DuplicateIsConcurrent ==
  [][\A c \in Conn :
        HelloVerified(c) /\ hello[c].role = "viewer" /\ Error(c, "protocol-violation") \subseteq out'
          => Listening(viewer)]_vars

\* Whoever is made the host does not stay connected for ever: the "absolute lifetime cap
\* for the whole session" is "counted from the moment the host connects"
\* (src/preview/protocol.ts:236).
HostedSessionEnds == \A c \in Conn : host = c ~> link[c] # "open"
=============================================================================
