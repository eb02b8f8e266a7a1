------------------------ MODULE RelaySession_proofs ------------------------
(***************************************************************************)
(* Theorems about RelaySession for any number of connections and images    *)
(* and any bounds, checked by TLAPS.                                       *)
(***************************************************************************)
EXTENDS RelaySession, TLAPS

-----------------------------------------------------------------------------
(* The inductive invariant                                                  *)

\* A connection that has not been promoted yet has no history; a promoted one of
\* a live session is within its rate and has not been closed by the object.
ConnInv ==
  \A c \in Conn :
    /\ hello[c] # NoHello => shotUsed[c]
    /\ ~shotUsed[c] \/ hello[c] # NoHello => c # host /\ c # viewer /\ rate[c] = 0
    /\ ~ended /\ (c = host \/ c = viewer) => rate[c] <= RateMax
    /\ ~ended /\ (c = host \/ c = viewer \/ hello[c] # NoHello \/ ~shotUsed[c])
         => link[c] # "closing"

\* A session without a host is a fresh one or an ended one.
SlotInv ==
  /\ host # NoConn => host # viewer
  /\ ~ended /\ host = NoConn => /\ viewer = NoConn /\ ~paired
                                /\ ~pairingTimer /\ ~idleTimer /\ ~absoluteTimer

\* The approval and the consumption of the token are one step, and the viewer of
\* a paired session is the approved one.
PairInv ==
  /\ paired = tokenConsumed
  /\ ~paired => approved = {}
  /\ paired /\ viewer # NoConn => viewer \in approved

IInv ==
  /\ TypeOK
  /\ ConnInv
  /\ SlotInv
  /\ LiveSessionExpires
  /\ PairInv
  /\ OneApprovalPerToken
  /\ StoryOnlyToApproved
  /\ ChunksWithinManifest

-----------------------------------------------------------------------------
(* What the helpers of the actions do                                       *)

LEMMA ToMember ==
  ASSUME NEW c, NEW type, NEW arg, NEW m \in To(c, type, arg)
  PROVE  m.to = c /\ m.type = type /\ c # NoConn
  BY DEF To

\* Sending closes exactly the addressees, and what is sent is what was to be.
LEMMA SendAndCloseEffect ==
  ASSUME TypeOK, NEW msgs, SendAndClose(msgs)
  PROVE  /\ link' \in [Conn -> Link]
         /\ out' \subseteq msgs
         /\ \A c \in Conn : link'[c] = "closing" => link[c] = "closing" \/ \E m \in msgs : m.to = c
  BY DEF TypeOK, SendAndClose, Send, Closed, Link

\* The end of a session keeps the invariant, whatever was sent before it.
LEMMA EndingKeepsInv ==
  ASSUME IInv, Terminate, link' \in [Conn -> Link],
         UNCHANGED <<shotUsed, hello>>, rate' \in [Conn -> 0 .. RateMax + 1],
         \A c \in Conn : c # host /\ c # viewer => rate'[c] = rate[c],
         \A m \in out' : m.to \in Conn /\ m.type \notin StoryType
  PROVE  IInv'
<1>1. TypeOK'
  BY DEF IInv, TypeOK, Terminate, pairing, transfer
<1>2. ConnInv'
  BY NoConnAssumption DEF IInv, TypeOK, ConnInv, Terminate
<1>3. SlotInv' /\ LiveSessionExpires' /\ PairInv' /\ OneApprovalPerToken'
  BY DEF IInv, SlotInv, LiveSessionExpires, PairInv, OneApprovalPerToken, Terminate, pairing
<1>4. StoryOnlyToApproved' /\ ChunksWithinManifest'
  BY DEF IInv, StoryOnlyToApproved, ChunksWithinManifest, Terminate, transfer
<1>. QED
  BY <1>1, <1>2, <1>3, <1>4 DEF IInv

\* So does the refusal of a connection without a role.
LEMMA RefusalKeepsInv ==
  ASSUME IInv, NEW d \in Conn, NEW code, SendAndClose(Error(d, code)),
         ~ended => d # host /\ d # viewer,
         UNCHANGED <<rate, slots, pairing, ended, timers, transfer>>,
         shotUsed' \in [Conn -> BOOLEAN], hello' \in [Conn -> Hello \cup {NoHello}],
         \A c \in Conn : shotUsed[c] => shotUsed'[c],
         \A c \in Conn : hello'[c] = hello[c] \/ hello'[c] = NoHello,
         (hello'[d] = NoHello /\ shotUsed'[d]) \/ ended
  PROVE  IInv'
<1>. USE DEF Error
<1>1. /\ link' \in [Conn -> Link]
      /\ \A m \in out' : m.to = d /\ m.type = "error"
      /\ \A c \in Conn \ {d} : link'[c] = "closing" => link[c] = "closing"
  BY SendAndCloseEffect, ToMember DEF IInv
<1>2. TypeOK'
  BY <1>1 DEF IInv, TypeOK, slots, pairing, timers, transfer
<1>3. ConnInv'
  BY <1>1 DEF IInv, TypeOK, ConnInv, slots
<1>4. SlotInv' /\ LiveSessionExpires' /\ PairInv' /\ OneApprovalPerToken'
  BY DEF IInv, SlotInv, LiveSessionExpires, PairInv, OneApprovalPerToken, slots, pairing, timers
<1>5. StoryOnlyToApproved' /\ ChunksWithinManifest'
  BY <1>1 DEF IInv, StoryOnlyToApproved, ChunksWithinManifest, StoryType, transfer
<1>. QED
  BY <1>2, <1>3, <1>4, <1>5 DEF IInv

\* So do the two ways a fault of a promoted connection is punished.
LEMMA ViolateKeepsInv ==
  ASSUME IInv, NEW d \in Conn, NEW code, Promoted(d), Violate(d, code),
         UNCHANGED <<shotUsed, hello>>, rate' \in [Conn -> 0 .. RateMax + 1],
         \A c \in Conn : c # d => rate'[c] = rate[c]
  PROVE  IInv'
<1>1. CASE d = host
  <2>1. SendAndClose(Error(host, code) \cup Error(viewer, "host-offline")) /\ Terminate
    BY <1>1 DEF Violate, EndByHostFault
  <2>2. /\ link' \in [Conn -> Link]
        /\ \A m \in out' : m.to \in Conn /\ m.type \notin StoryType
    BY <2>1, SendAndCloseEffect, ToMember DEF IInv, TypeOK, Error, StoryType
  <2>. QED
    BY <1>1, <2>1, <2>2, EndingKeepsInv
<1>2. CASE d # host
  <2>. d = viewer /\ ~ended
    BY <1>2, NoConnAssumption DEF Promoted
  <2>1. /\ SendAndClose(Error(viewer, code)) /\ viewer' = NoConn
        /\ UNCHANGED <<host, pairing, ended, timers, transfer>>
    BY <1>2 DEF Violate, RejectViewerOnly
  <2>2. /\ link' \in [Conn -> Link]
        /\ \A m \in out' : m.to = d /\ m.type = "error"
        /\ \A c \in Conn \ {d} : link'[c] = "closing" => link[c] = "closing"
    BY <2>1, SendAndCloseEffect, ToMember DEF IInv, Error
  <2>3. TypeOK'
    BY <2>1, <2>2 DEF IInv, TypeOK, pairing, timers, transfer
  <2>4. ConnInv'
    BY <1>2, <2>1, <2>2, NoConnAssumption DEF IInv, TypeOK, ConnInv
  <2>5. SlotInv' /\ LiveSessionExpires' /\ PairInv' /\ OneApprovalPerToken'
    BY <2>1 DEF IInv, SlotInv, LiveSessionExpires, PairInv, OneApprovalPerToken, pairing, timers
  <2>6. StoryOnlyToApproved' /\ ChunksWithinManifest'
    BY <2>1, <2>2 DEF IInv, StoryOnlyToApproved, ChunksWithinManifest, StoryType, transfer
  <2>. QED
    BY <2>3, <2>4, <2>5, <2>6 DEF IInv
<1>. QED
  BY <1>1, <1>2

-----------------------------------------------------------------------------
(* Every step keeps the invariant: connections and hellos                   *)

LEMMA InitInv == Init => IInv
<1>. SUFFICES ASSUME Init PROVE IInv
  OBVIOUS
<1>1. TypeOK
  <2>1. NoProgress \in Progress /\ NoManifest \in Declared /\ 0 \in 0 .. RateMax + 1
    BY SizeAssumption DEF NoManifest, Declared, NoProgress, Progress
  <2>. QED
    BY <2>1 DEF Init, TypeOK, Link
<1>2. ConnInv
  BY NoConnAssumption DEF Init, ConnInv
<1>3. SlotInv /\ LiveSessionExpires /\ PairInv /\ OneApprovalPerToken
  BY DEF Init, SlotInv, LiveSessionExpires, PairInv, OneApprovalPerToken
<1>4. StoryOnlyToApproved /\ ChunksWithinManifest
  BY DEF Init, StoryOnlyToApproved, ChunksWithinManifest, NoManifest, NoProgress
<1>. QED
  BY <1>1, <1>2, <1>3, <1>4 DEF IInv

LEMMA UpgradeInv == ASSUME IInv, NEW c \in Conn, Upgrade(c) PROVE IInv'
<1>1. TypeOK' /\ ConnInv'
  BY DEF IInv, TypeOK, ConnInv, Upgrade, Link, slots, pairing, timers, transfer
<1>2. SlotInv' /\ LiveSessionExpires' /\ PairInv' /\ OneApprovalPerToken'
  BY DEF IInv, SlotInv, LiveSessionExpires, PairInv, OneApprovalPerToken,
         Upgrade, slots, pairing, timers
<1>3. StoryOnlyToApproved' /\ ChunksWithinManifest'
  BY DEF IInv, StoryOnlyToApproved, ChunksWithinManifest, Upgrade, transfer
<1>. QED
  BY <1>1, <1>2, <1>3 DEF IInv

LEMMA PreAuthTimeoutInv == ASSUME IInv, NEW c \in Conn, PreAuthTimeout(c) PROVE IInv'
<1>1. c # host /\ c # viewer /\ hello[c] = NoHello
  BY DEF IInv, ConnInv, PreAuthTimeout
<1>2. shotUsed' \in [Conn -> BOOLEAN] /\ shotUsed'[c] /\ \A d \in Conn : shotUsed[d] => shotUsed'[d]
  BY DEF IInv, TypeOK, PreAuthTimeout
<1>3. hello' = hello /\ hello' \in [Conn -> Hello \cup {NoHello}]
  BY DEF IInv, TypeOK, PreAuthTimeout
<1>. QED
  BY <1>1, <1>2, <1>3, RefusalKeepsInv DEF PreAuthTimeout

LEMMA SocketClosedInv == ASSUME IInv, NEW c \in Conn, SocketClosed(c) PROVE IInv'
<1>1. CASE c = host /\ ~ended
  <2>1. /\ Send(Error(viewer, "host-offline")) /\ Terminate
        /\ link' = [Closed(Error(viewer, "host-offline")) EXCEPT ![c] = "closed"]
        /\ UNCHANGED <<shotUsed, hello, rate>>
    BY <1>1 DEF SocketClosed
  <2>2. link' \in [Conn -> Link]
    BY <2>1 DEF IInv, TypeOK, Closed, Link
  <2>3. \A m \in out' : m.to \in Conn /\ m.type \notin StoryType
    BY <2>1, ToMember DEF IInv, TypeOK, Send, Error, StoryType
  <2>4. rate' = rate /\ rate' \in [Conn -> 0 .. RateMax + 1]
    BY <2>1 DEF IInv, TypeOK
  <2>. QED
    BY <2>1, <2>2, <2>3, <2>4, EndingKeepsInv
<1>2. CASE ~(c = host /\ ~ended)
  <2>1. /\ link' = [link EXCEPT ![c] = "closed"] /\ out' = {}
        /\ viewer' = IF c = viewer THEN NoConn ELSE viewer
        /\ UNCHANGED <<shotUsed, hello, rate, host, pairing, ended, timers, transfer>>
    BY <1>2 DEF SocketClosed
  <2>2. TypeOK' /\ ConnInv'
    BY <2>1, NoConnAssumption
    DEF IInv, TypeOK, ConnInv, Link, pairing, timers, transfer
  <2>3. SlotInv' /\ LiveSessionExpires' /\ PairInv' /\ OneApprovalPerToken'
    BY <2>1 DEF IInv, SlotInv, LiveSessionExpires, PairInv, OneApprovalPerToken, pairing, timers
  <2>4. StoryOnlyToApproved' /\ ChunksWithinManifest'
    BY <2>1 DEF IInv, StoryOnlyToApproved, ChunksWithinManifest, transfer
  <2>. QED
    BY <2>2, <2>3, <2>4 DEF IInv
<1>. QED
  BY <1>1, <1>2

LEMMA ReceiveAfterEndInv == ASSUME IInv, NEW c \in Conn, ReceiveAfterEnd(c) PROVE IInv'
<1>1. ended /\ SendAndClose(Error(c, "session-expired"))
  BY DEF ReceiveAfterEnd
<1>2. /\ shotUsed' = shotUsed /\ shotUsed' \in [Conn -> BOOLEAN]
      /\ hello' = hello /\ hello' \in [Conn -> Hello \cup {NoHello}]
  BY DEF IInv, TypeOK, ReceiveAfterEnd
<1>. QED
  BY <1>1, <1>2, RefusalKeepsInv DEF ReceiveAfterEnd

LEMMA ReceiveFirstInv == ASSUME IInv, NEW c \in Conn, NEW m \in Message, ReceiveFirst(c, m) PROVE IInv'
<1>. DEFINE Verifying == m.type = "hello" /\ m.cred # "malformed"
<1>1. /\ shotUsed' = [shotUsed EXCEPT ![c] = TRUE] /\ ~shotUsed[c]
      /\ ~ended /\ c # host /\ c # viewer
      /\ UNCHANGED <<rate, slots, pairing, ended, timers, transfer>>
  BY DEF ReceiveFirst
<1>2. CASE ~Verifying
  <2>1. SendAndClose(Error(c, FirstMessageFault(m))) /\ hello' = hello
    BY <1>2 DEF ReceiveFirst
  <2>2. shotUsed' \in [Conn -> BOOLEAN] /\ shotUsed'[c] /\ \A d \in Conn : shotUsed[d] => shotUsed'[d]
    BY <1>1 DEF IInv, TypeOK
  <2>3. /\ hello' \in [Conn -> Hello \cup {NoHello}] /\ hello'[c] = NoHello
        /\ \A d \in Conn : hello'[d] = hello[d] \/ hello'[d] = NoHello
    BY <1>1, <2>1 DEF IInv, TypeOK, ConnInv
  <2>. QED
    BY <1>1, <2>1, <2>2, <2>3, RefusalKeepsInv
<1>3. CASE Verifying
  <2>1. /\ hello' = [hello EXCEPT ![c] = [role |-> m.role, valid |-> m.cred = "good"]]
        /\ out' = {} /\ link' = link
    BY <1>3 DEF ReceiveFirst
  <2>2. [role |-> m.role, valid |-> m.cred = "good"] \in Hello
    BY <1>3 DEF Message, HelloMsg, ManifestMsg, ChunkMsg, Plain, PlainType, BadFrame, Hello
  <2>3. TypeOK'
    BY <1>1, <2>1, <2>2 DEF IInv, TypeOK, slots, pairing, timers, transfer
  <2>4. ConnInv'
    BY <1>1, <2>1 DEF IInv, TypeOK, ConnInv, slots
  <2>5. SlotInv' /\ LiveSessionExpires' /\ PairInv' /\ OneApprovalPerToken'
    BY <1>1 DEF IInv, SlotInv, LiveSessionExpires, PairInv, OneApprovalPerToken, slots, pairing, timers
  <2>6. StoryOnlyToApproved' /\ ChunksWithinManifest'
    BY <1>1, <2>1 DEF IInv, StoryOnlyToApproved, ChunksWithinManifest, transfer
  <2>. QED
    BY <2>3, <2>4, <2>5, <2>6 DEF IInv
<1>. QED
  BY <1>2, <1>3

LEMMA ReceiveSpentInv == ASSUME IInv, NEW c \in Conn, ReceiveSpent(c) PROVE IInv'
<1>1. UNCHANGED <<sockets, rate, slots, pairing, ended, timers, transfer>> /\ out' = {}
  BY DEF ReceiveSpent
<1>2. TypeOK' /\ ConnInv'
  BY <1>1 DEF IInv, TypeOK, ConnInv, sockets, slots, pairing, timers, transfer
<1>3. SlotInv' /\ LiveSessionExpires' /\ PairInv' /\ OneApprovalPerToken'
  BY <1>1 DEF IInv, SlotInv, LiveSessionExpires, PairInv, OneApprovalPerToken, slots, pairing, timers
<1>4. StoryOnlyToApproved' /\ ChunksWithinManifest'
  BY <1>1 DEF IInv, StoryOnlyToApproved, ChunksWithinManifest, transfer
<1>. QED
  BY <1>2, <1>3, <1>4 DEF IInv

LEMMA HelloVerifiedInv == ASSUME IInv, NEW c \in Conn, HelloVerified(c) PROVE IInv'
<1>1. /\ hello[c] # NoHello /\ hello' = [hello EXCEPT ![c] = NoHello]
      /\ UNCHANGED <<shotUsed, rate, pairing, ended, transfer>>
  BY DEF HelloVerified
<1>2. c # host /\ c # viewer /\ c # NoConn /\ rate[c] = 0 /\ shotUsed[c]
  BY <1>1, NoConnAssumption DEF IInv, ConnInv
<1>3. hello' \in [Conn -> Hello \cup {NoHello}] /\ hello'[c] = NoHello
      /\ \A d \in Conn : hello'[d] = hello[d] \/ hello'[d] = NoHello
  BY <1>1 DEF IInv, TypeOK
<1>4. ASSUME NEW code, RefuseHello(c, code) PROVE IInv'
  <2>1. shotUsed' \in [Conn -> BOOLEAN] /\ shotUsed'[c] /\ \A d \in Conn : shotUsed[d] => shotUsed'[d]
    BY <1>1, <1>2 DEF IInv, TypeOK
  <2>. QED
    BY <1>1, <1>2, <1>3, <1>4, <2>1, RefusalKeepsInv DEF RefuseHello
<1>5. CASE /\ host = NoConn /\ host' = c /\ viewer' = viewer
           /\ pairingTimer' /\ absoluteTimer' /\ idleTimer' = idleTimer
           /\ pairingTimer' \in BOOLEAN /\ absoluteTimer' \in BOOLEAN
           /\ Send(Tell(c, "host-ready")) /\ link' = link
  <2>1. \A m \in out' : m.to = c /\ m.type = "host-ready"
    BY <1>5, ToMember DEF Send, Tell
  <2>2. TypeOK'
    BY <1>1, <1>3, <1>5, <2>1 DEF IInv, TypeOK, pairing, transfer
  <2>3. ConnInv'
    BY <1>1, <1>2, <1>3, <1>5, SizeAssumption DEF IInv, TypeOK, ConnInv
  <2>4. SlotInv' /\ LiveSessionExpires'
    BY <1>1, <1>2, <1>5 DEF IInv, TypeOK, SlotInv, LiveSessionExpires, pairing
  <2>5. PairInv' /\ OneApprovalPerToken'
    BY <1>1, <1>5 DEF IInv, PairInv, OneApprovalPerToken, pairing
  <2>6. StoryOnlyToApproved' /\ ChunksWithinManifest'
    BY <1>1, <2>1 DEF IInv, StoryOnlyToApproved, ChunksWithinManifest, StoryType, transfer
  <2>. QED
    BY <2>2, <2>3, <2>4, <2>5, <2>6 DEF IInv
<1>6. CASE host # NoConn /\ ~tokenConsumed /\ viewer = NoConn /\ TakeViewerSlot(c)
  <2>1. viewer' = c /\ UNCHANGED <<link, host, timers>>
    BY <1>6 DEF TakeViewerSlot
  <2>2. \A m \in out' : m.to \in Conn /\ m.type \in {"pair-request", "awaiting-approval"}
    BY <1>6, ToMember DEF TakeViewerSlot, Send, Tell, IInv, TypeOK
  <2>3. TypeOK'
    BY <1>1, <1>3, <2>1, <2>2 DEF IInv, TypeOK, pairing, timers, transfer
  <2>4. ConnInv'
    BY <1>1, <1>2, <1>3, <2>1, SizeAssumption DEF IInv, TypeOK, ConnInv
  <2>5. SlotInv' /\ LiveSessionExpires'
    BY <1>1, <1>2, <1>6, <2>1 DEF IInv, SlotInv, LiveSessionExpires, pairing, timers
  <2>6. PairInv' /\ OneApprovalPerToken'
    BY <1>1, <1>6 DEF IInv, PairInv, OneApprovalPerToken, pairing
  <2>7. StoryOnlyToApproved' /\ ChunksWithinManifest'
    BY <1>1, <2>2 DEF IInv, StoryOnlyToApproved, ChunksWithinManifest, StoryType, transfer
  <2>. QED
    BY <2>3, <2>4, <2>5, <2>6, <2>7 DEF IInv
<1>7. CASE HostHello(c)
  BY <1>4, <1>5, <1>7 DEF HostHello
<1>8. CASE ViewerHello(c)
  BY <1>4, <1>6, <1>8 DEF ViewerHello
<1>. QED
  BY <1>7, <1>8 DEF HelloVerified

-----------------------------------------------------------------------------
(* Every step keeps the invariant: the messages of the host and the viewer  *)

\* A message is counted at most once and on its own connection, whether or not
\* it is then dispatched.
LEMMA CountBound ==
  ASSUME IInv, NEW c \in Conn, NEW m \in Message, NEW fresh \in BOOLEAN, Promoted(c)
  PROVE  Count(c, m, fresh) \in 0 .. RateMax + 1
<1>1. rate[c] \in 0 .. RateMax
  BY SizeAssumption DEF IInv, TypeOK, ConnInv, Promoted
<1>. QED
  BY <1>1, SizeAssumption DEF Count

LEMMA ReceiveBadFrameInv ==
  ASSUME IInv, NEW c \in Conn, NEW m \in Message, ReceiveBadFrame(c, m)
  PROVE  IInv'
<1>1. rate' = rate /\ rate' \in [Conn -> 0 .. RateMax + 1]
  BY DEF ReceiveBadFrame, IInv, TypeOK
<1>. QED
  BY <1>1, ViolateKeepsInv DEF ReceiveBadFrame

LEMMA CountedFaultKeepsInv ==
  ASSUME IInv, NEW c \in Conn, NEW m \in Message, NEW fresh \in BOOLEAN, NEW code, Promoted(c),
         rate' = [rate EXCEPT ![c] = Count(c, m, fresh)],
         UNCHANGED <<shotUsed, hello>>, Violate(c, code)
  PROVE  IInv'
<1>1. /\ rate' \in [Conn -> 0 .. RateMax + 1]
      /\ \A d \in Conn : d # c => rate'[d] = rate[d]
  BY CountBound DEF IInv, TypeOK
<1>. QED
  BY <1>1, ViolateKeepsInv

LEMMA ReceiveOverRateInv ==
  ASSUME IInv, NEW c \in Conn, NEW m \in Message, NEW fresh \in BOOLEAN,
         ReceiveOverRate(c, m, fresh)
  PROVE  IInv'
  BY CountedFaultKeepsInv DEF ReceiveOverRate

LEMMA ReceiveOutOfTurnInv ==
  ASSUME IInv, NEW c \in Conn, NEW m \in Message, NEW fresh \in BOOLEAN,
         ReceiveOutOfTurn(c, m, fresh)
  PROVE  IInv'
  BY CountedFaultKeepsInv DEF ReceiveOutOfTurn, Accepted

\* A message that is in turn and no fault leaves the connections as they are.
LEMMA ForwardKeepsInv ==
  ASSUME IInv, NEW c \in Conn, NEW m \in Message, NEW fresh \in BOOLEAN,
         Accepted(c, m, fresh),
         UNCHANGED <<link, slots, ended, absoluteTimer>>,
         TypeOK', PairInv', OneApprovalPerToken', LiveSessionExpires',
         StoryOnlyToApproved', ChunksWithinManifest'
  PROVE  IInv'
<1>1. /\ rate' = [rate EXCEPT ![c] = Count(c, m, fresh)] /\ Promoted(c)
      /\ UNCHANGED <<shotUsed, hello>>
  BY DEF Accepted
<1>2. ~ended /\ rate'[c] <= RateMax
  <2>1. rate'[c] = Count(c, m, fresh)
    BY <1>1 DEF IInv, TypeOK
  <2>. QED
    BY <1>1, <2>1 DEF Accepted, Within, Count, Promoted, IInv, ConnInv
<1>3. ConnInv'
  BY <1>1, <1>2 DEF IInv, TypeOK, ConnInv, Promoted, slots
<1>4. SlotInv'
  BY <1>1, <1>2, NoConnAssumption DEF IInv, SlotInv, Promoted, slots
<1>. QED
  BY <1>3, <1>4 DEF IInv

LEMMA OnPairApproveInv ==
  ASSUME IInv, NEW c \in Conn, NEW m \in Message, NEW fresh \in BOOLEAN,
         Accepted(c, m, fresh), c = host, ViewerWaiting, OnPairApprove
  PROVE  IInv'
<1>1. rate' \in [Conn -> 0 .. RateMax + 1] /\ UNCHANGED <<shotUsed, hello>> /\ ~ended
  BY CountBound DEF Accepted, Promoted, IInv, TypeOK
<1>2. approved = {} /\ viewer \in Conn
  BY DEF ViewerWaiting, IInv, TypeOK, PairInv
<1>3. /\ tokenConsumed' /\ paired' /\ paired' = tokenConsumed' /\ approved' = {viewer}
      /\ paired' \in BOOLEAN
      /\ pairingTimer' = FALSE /\ idleTimer' = TRUE
      /\ UNCHANGED <<link, slots, ended, absoluteTimer, transfer>>
  BY <1>2 DEF OnPairApprove
<1>4. \A n \in out' : n.to = viewer /\ n.type = "pair-approve"
  BY ToMember DEF OnPairApprove, Send, Tell
<1>5. TypeOK'
  BY <1>1, <1>2, <1>3, <1>4 DEF IInv, TypeOK, slots, transfer
<1>6. PairInv' /\ OneApprovalPerToken' /\ LiveSessionExpires'
  BY <1>3 DEF IInv, PairInv, OneApprovalPerToken, LiveSessionExpires, slots
<1>7. StoryOnlyToApproved' /\ ChunksWithinManifest'
  BY <1>3, <1>4 DEF IInv, StoryOnlyToApproved, ChunksWithinManifest, StoryType, transfer
<1>. QED
  BY <1>3, <1>5, <1>6, <1>7, ForwardKeepsInv

LEMMA OnPairRejectInv ==
  ASSUME IInv, NEW c \in Conn, NEW m \in Message, NEW fresh \in BOOLEAN,
         Accepted(c, m, fresh), c = host, ViewerWaiting, OnPairReject
  PROVE  IInv'
<1>1. /\ rate' \in [Conn -> 0 .. RateMax + 1] /\ UNCHANGED <<shotUsed, hello>> /\ ~ended
      /\ \A d \in Conn : d # c => rate'[d] = rate[d]
      /\ rate'[c] = Count(c, m, fresh)
  BY CountBound DEF Accepted, Promoted, IInv, TypeOK
<1>2. rate'[c] <= RateMax
  BY <1>1 DEF Accepted, Within, Count, Promoted, IInv, ConnInv
<1>3. /\ viewer' = NoConn /\ UNCHANGED <<host, pairing, ended, timers, transfer>>
      /\ SendAndClose(Tell(viewer, "pair-reject"))
  BY DEF OnPairReject
<1>4. /\ link' \in [Conn -> Link]
      /\ \A n \in out' : n.to = viewer /\ n.to \in Conn /\ n.type = "pair-reject"
      /\ \A d \in Conn \ {viewer} : link'[d] = "closing" => link[d] = "closing"
  BY <1>3, SendAndCloseEffect, ToMember DEF IInv, TypeOK, Tell
<1>5. TypeOK'
  BY <1>1, <1>3, <1>4 DEF IInv, TypeOK, pairing, timers, transfer
<1>6. ConnInv'
  BY <1>1, <1>2, <1>3, <1>4, NoConnAssumption DEF IInv, TypeOK, ConnInv, SlotInv
<1>7. SlotInv' /\ LiveSessionExpires' /\ PairInv' /\ OneApprovalPerToken'
  BY <1>3 DEF IInv, SlotInv, LiveSessionExpires, PairInv, OneApprovalPerToken, pairing, timers
<1>8. StoryOnlyToApproved' /\ ChunksWithinManifest'
  BY <1>3, <1>4 DEF IInv, StoryOnlyToApproved, ChunksWithinManifest, StoryType, transfer
<1>. QED
  BY <1>5, <1>6, <1>7, <1>8 DEF IInv

LEMMA OnSnapshotRequestInv ==
  ASSUME IInv, NEW c \in Conn, NEW m \in Message, NEW fresh \in BOOLEAN,
         Accepted(c, m, fresh), c # host, OnSnapshotRequest
  PROVE  IInv'
<1>1. CASE ~paired
  <2>1. Violate(c, "not-paired")
    BY <1>1 DEF OnSnapshotRequest, Violate
  <2>. QED
    BY <2>1, CountedFaultKeepsInv DEF Accepted
<1>2. CASE paired
  <2>1. /\ Send(Tell(host, "snapshot-request"))
        /\ UNCHANGED <<link, slots, pairing, ended, timers, transfer>>
    BY <1>2 DEF OnSnapshotRequest
  <2>2. \A n \in out' : n.to \in Conn /\ n.type = "snapshot-request"
    BY <2>1, ToMember DEF Send, Tell, IInv, TypeOK
  <2>3. TypeOK'
    BY <2>1, <2>2, CountBound
    DEF Accepted, IInv, TypeOK, slots, pairing, timers, transfer
  <2>4. PairInv' /\ OneApprovalPerToken' /\ LiveSessionExpires'
    BY <2>1 DEF IInv, PairInv, OneApprovalPerToken, LiveSessionExpires, slots, pairing, timers
  <2>5. StoryOnlyToApproved' /\ ChunksWithinManifest'
    BY <2>1, <2>2 DEF IInv, StoryOnlyToApproved, ChunksWithinManifest, StoryType, transfer
  <2>. QED
    BY <2>1, <2>3, <2>4, <2>5, ForwardKeepsInv DEF timers
<1>. QED
  BY <1>1, <1>2 DEF IInv, TypeOK

\* What the host of a paired session forwards reaches the approved viewer only.
LEMMA TransferKeepsInv ==
  ASSUME IInv, NEW c \in Conn, NEW m \in Message, NEW fresh \in BOOLEAN,
         Accepted(c, m, fresh), paired, NEW type, NEW arg, Send(To(viewer, type, arg)),
         UNCHANGED <<link, slots, pairing, ended, timers>>,
         manifest' \in Declared, progress' \in [Image -> Progress], ChunksWithinManifest'
  PROVE  IInv'
<1>1. \A n \in out' : n.to \in Conn /\ n.to = viewer /\ n.to # NoConn
  BY ToMember DEF Send, IInv, TypeOK
<1>2. TypeOK'
  BY <1>1, CountBound DEF Accepted, IInv, TypeOK, slots, pairing, timers
<1>3. PairInv' /\ OneApprovalPerToken' /\ LiveSessionExpires'
  BY DEF IInv, PairInv, OneApprovalPerToken, LiveSessionExpires, slots, pairing, timers
<1>4. StoryOnlyToApproved'
  BY <1>1 DEF IInv, PairInv, StoryOnlyToApproved, pairing
<1>. QED
  BY <1>2, <1>3, <1>4, ForwardKeepsInv DEF timers

LEMMA OnSnapshotManifestInv ==
  ASSUME IInv, NEW c \in Conn, NEW m \in Message, NEW fresh \in BOOLEAN,
         Accepted(c, m, fresh), paired, NEW images \in Declared, OnSnapshotManifest(images)
  PROVE  IInv'
<1>1. /\ manifest' = images /\ progress' = [i \in Image |-> NoProgress]
      /\ Send(To(viewer, "snapshot-manifest", images))
      /\ UNCHANGED <<link, slots, pairing, ended, timers>>
  BY DEF OnSnapshotManifest
<1>2. NoProgress \in Progress
  BY SizeAssumption DEF NoProgress, Progress
<1>3. progress' \in [Image -> Progress] /\ ChunksWithinManifest'
  BY <1>1, <1>2 DEF ChunksWithinManifest, NoProgress, Declared
<1>. QED
  BY <1>1, <1>3, TransferKeepsInv

LEMMA OnSnapshotCompleteInv ==
  ASSUME IInv, NEW c \in Conn, NEW m \in Message, NEW fresh \in BOOLEAN,
         Accepted(c, m, fresh), paired, OnSnapshotComplete
  PROVE  IInv'
<1>1. /\ manifest' = NoManifest /\ progress' = [i \in Image |-> NoProgress]
      /\ Send(To(viewer, "snapshot-complete", "none"))
      /\ UNCHANGED <<link, slots, pairing, ended, timers>>
  BY DEF OnSnapshotComplete, Tell
<1>2. NoProgress \in Progress /\ NoManifest \in Declared
  BY SizeAssumption DEF NoProgress, Progress, NoManifest, Declared
<1>3. progress' \in [Image -> Progress] /\ ChunksWithinManifest'
  BY <1>1, <1>2 DEF ChunksWithinManifest, NoProgress, NoManifest
<1>. QED
  BY <1>1, <1>2, <1>3, TransferKeepsInv

LEMMA OnImageChunkInv ==
  ASSUME IInv, NEW c \in Conn, NEW m \in Message, NEW fresh \in BOOLEAN,
         Accepted(c, m, fresh), c = host, paired, NEW k \in Chunk, OnImageChunk(k)
  PROVE  IInv'
<1>1. CASE ChunkFault(k) # "none"
  <2>1. Violate(c, ChunkFault(k))
    BY <1>1 DEF OnImageChunk, Violate
  <2>. QED
    BY <2>1, CountedFaultKeepsInv DEF Accepted
<1>2. CASE ChunkFault(k) = "none"
  <2>. DEFINE p == [next |-> k.index + 1, total |-> k.total, bytes |-> Entry(k).bytes + k.bytes]
  <2>1. /\ progress' = [progress EXCEPT ![k.id] = p]
        /\ Send(To(viewer, "image-chunk", k))
        /\ UNCHANGED <<link, slots, pairing, ended, timers, manifest>>
    BY <1>2 DEF OnImageChunk
  <2>2. k.id \in Image /\ k.index \in Nat /\ k.total \in 1 .. MaxTotal /\ k.bytes \in Nat /\ k.index < k.total
    BY SizeAssumption DEF Chunk
  <2>3. manifest[k.id] \in 0 .. MaxBytes /\ manifest' \in Declared
    BY <2>1, <2>2 DEF IInv, TypeOK, Declared
  <2>4. Entry(k).bytes \in Nat
    BY <2>2 DEF Entry, IInv, TypeOK, Progress, NoProgress
  <2>5. Entry(k).bytes + k.bytes <= manifest[k.id]
    BY <1>2, <2>2, <2>3, <2>4 DEF ChunkFault
  <2>6. p \in Progress
    BY <2>2, <2>3, <2>4, <2>5, SizeAssumption DEF Progress
  <2>7. progress' \in [Image -> Progress] /\ progress'[k.id] = p
        /\ \A i \in Image : i # k.id => progress'[i] = progress[i]
    BY <2>1, <2>2, <2>6 DEF IInv, TypeOK
  <2>8. ChunksWithinManifest'
    BY <2>1, <2>2, <2>5, <2>7 DEF IInv, ChunksWithinManifest
  <2>. QED
    BY <2>1, <2>3, <2>7, <2>8, TransferKeepsInv
<1>. QED
  BY <1>1, <1>2

LEMMA ReceiveInTurnInv ==
  ASSUME IInv, NEW c \in Conn, NEW m \in Message, NEW fresh \in BOOLEAN,
         ReceiveInTurn(c, m, fresh)
  PROVE  IInv'
<1>1. Accepted(c, m, fresh) /\ ~OutOfTurn(c, m)
  BY DEF ReceiveInTurn
<1>2. /\ m.type \in HostOnly => c = host
      /\ m.type \in {"pair-approve", "pair-reject"} => ViewerWaiting
      /\ m.type \in StoryType => paired
      /\ m.type = "snapshot-request" => c # host
  BY <1>1 DEF OutOfTurn, HostOnly
<1>3. CASE m.type = "pair-approve" /\ OnPairApprove
  BY <1>1, <1>2, <1>3, OnPairApproveInv DEF HostOnly
<1>4. CASE m.type = "pair-reject" /\ OnPairReject
  BY <1>1, <1>2, <1>4, OnPairRejectInv DEF HostOnly
<1>5. CASE m.type = "snapshot-request" /\ OnSnapshotRequest
  BY <1>1, <1>2, <1>5, OnSnapshotRequestInv
<1>6. CASE m.type = "snapshot-manifest" /\ OnSnapshotManifest(m.images)
  <2>1. m.images \in Declared
    BY <1>6 DEF Message, HelloMsg, ManifestMsg, ChunkMsg, Plain, PlainType, BadFrame
  <2>. QED
    BY <1>1, <1>2, <1>6, <2>1, OnSnapshotManifestInv DEF StoryType
<1>7. CASE m.type = "image-chunk" /\ OnImageChunk(m.chunk)
  <2>1. m.chunk \in Chunk
    BY <1>7 DEF Message, HelloMsg, ManifestMsg, ChunkMsg, Plain, PlainType, BadFrame
  <2>. QED
    BY <1>1, <1>2, <1>7, <2>1, OnImageChunkInv DEF HostOnly, StoryType
<1>8. CASE m.type = "snapshot-complete" /\ OnSnapshotComplete
  BY <1>1, <1>2, <1>8, OnSnapshotCompleteInv DEF StoryType
<1>. QED
  BY <1>3, <1>4, <1>5, <1>6, <1>7, <1>8 DEF ReceiveInTurn

-----------------------------------------------------------------------------
(* Every step keeps the invariant: timers and eviction                      *)

LEMMA TimerFiresInv == ASSUME IInv, NEW t \in Timer, TimerFires(t) PROVE IInv'
<1>1. CASE ~ended
  <2>1. /\ SendAndClose(Error(host, "session-expired") \cup Error(viewer, "session-expired"))
        /\ Terminate /\ UNCHANGED <<shotUsed, hello, rate>>
    BY <1>1 DEF TimerFires, EndBySessionExpired
  <2>2. /\ link' \in [Conn -> Link]
        /\ \A m \in out' : m.to \in Conn /\ m.type \notin StoryType
    BY <2>1, SendAndCloseEffect, ToMember DEF IInv, TypeOK, Error, StoryType
  <2>3. rate' = rate /\ rate' \in [Conn -> 0 .. RateMax + 1]
    BY <2>1 DEF IInv, TypeOK
  <2>. QED
    BY <2>1, <2>2, <2>3, EndingKeepsInv
<1>2. CASE ended
  <2>1. /\ ended' /\ ended' = ended /\ out' = {}
        /\ UNCHANGED <<link, slots, pairing, transfer, shotUsed, hello, rate>>
        /\ pairingTimer' \in BOOLEAN /\ idleTimer' \in BOOLEAN /\ absoluteTimer' \in BOOLEAN
    BY <1>2 DEF TimerFires, IInv, TypeOK
  <2>2. TypeOK' /\ ConnInv'
    BY <2>1 DEF IInv, TypeOK, ConnInv, slots, pairing, transfer
  <2>3. SlotInv' /\ LiveSessionExpires' /\ PairInv' /\ OneApprovalPerToken'
    BY <2>1 DEF IInv, SlotInv, LiveSessionExpires, PairInv, OneApprovalPerToken, slots, pairing
  <2>4. StoryOnlyToApproved' /\ ChunksWithinManifest'
    BY <2>1 DEF IInv, StoryOnlyToApproved, ChunksWithinManifest, transfer
  <2>. QED
    BY <2>2, <2>3, <2>4 DEF IInv
<1>. QED
  BY <1>1, <1>2

LEMMA EvictInv == ASSUME IInv, Evict PROVE IInv'
<1>1. ~pairingTimer /\ ~idleTimer /\ ~absoluteTimer
  BY DEF Evict, Timer, Armed
<1>2. NoProgress \in Progress /\ NoManifest \in Declared
  BY SizeAssumption DEF NoProgress, Progress, NoManifest, Declared
<1>3. TypeOK'
  BY <1>2 DEF Evict, IInv, TypeOK, sockets, timers
<1>4. ConnInv'
  BY NoConnAssumption DEF Evict, IInv, TypeOK, ConnInv, Listening, sockets
<1>5. SlotInv' /\ LiveSessionExpires' /\ PairInv' /\ OneApprovalPerToken'
  BY <1>1 DEF Evict, SlotInv, LiveSessionExpires, PairInv, OneApprovalPerToken, timers
<1>6. StoryOnlyToApproved' /\ ChunksWithinManifest'
  BY DEF Evict, StoryOnlyToApproved, ChunksWithinManifest, NoProgress, NoManifest
<1>. QED
  BY <1>3, <1>4, <1>5, <1>6 DEF IInv

-----------------------------------------------------------------------------
(* The theorems                                                             *)

\* The invariant is inductive.
THEOREM StepKeepsInv == IInv /\ [Next]_vars => IInv'
<1>. SUFFICES ASSUME IInv, [Next]_vars PROVE IInv'
  OBVIOUS
<1>1. ASSUME NEW c \in Conn, Upgrade(c) PROVE IInv'
  BY <1>1, UpgradeInv
<1>2. ASSUME NEW c \in Conn, PreAuthTimeout(c) PROVE IInv'
  BY <1>2, PreAuthTimeoutInv
<1>3. ASSUME NEW c \in Conn, SocketClosed(c) PROVE IInv'
  BY <1>3, SocketClosedInv
<1>4. ASSUME NEW c \in Conn, HelloVerified(c) PROVE IInv'
  BY <1>4, HelloVerifiedInv
<1>5. ASSUME NEW c \in Conn, ReceiveAfterEnd(c) PROVE IInv'
  BY <1>5, ReceiveAfterEndInv
<1>6. ASSUME NEW c \in Conn, ReceiveSpent(c) PROVE IInv'
  BY <1>6, ReceiveSpentInv
<1>7. ASSUME NEW c \in Conn, NEW m \in Message, Receive(c, m) PROVE IInv'
  BY <1>7, ReceiveFirstInv, ReceiveBadFrameInv, ReceiveOverRateInv,
     ReceiveOutOfTurnInv, ReceiveInTurnInv DEF Receive
<1>8. ASSUME NEW t \in Timer, TimerFires(t) PROVE IInv'
  BY <1>8, TimerFiresInv
<1>9. CASE Evict
  BY <1>9, EvictInv
<1>10. CASE UNCHANGED vars
  <2>1. TypeOK' /\ ConnInv'
    BY <1>10 DEF vars, IInv, TypeOK, ConnInv, sockets, slots, pairing, timers, transfer
  <2>2. SlotInv' /\ LiveSessionExpires' /\ PairInv' /\ OneApprovalPerToken'
    BY <1>10 DEF vars, IInv, SlotInv, LiveSessionExpires, PairInv, OneApprovalPerToken,
                 slots, pairing, timers
  <2>3. StoryOnlyToApproved' /\ ChunksWithinManifest'
    BY <1>10 DEF vars, IInv, StoryOnlyToApproved, ChunksWithinManifest, pairing, transfer
  <2>. QED
    BY <2>1, <2>2, <2>3 DEF IInv
<1>. QED
  BY <1>1, <1>2, <1>3, <1>4, <1>5, <1>6, <1>7, <1>8, <1>9, <1>10 DEF Next

\* Every reachable state satisfies the inductive invariant.
THEOREM Invariance == Spec => []IInv
<1>1. Init => IInv
  BY InitInv
<1>2. IInv /\ [Next]_vars => IInv'
  BY StepKeepsInv
<1>. QED
  BY <1>1, <1>2, PTL DEF Spec

\* Every reachable state of the object is well typed, for any number of
\* connections and images.
THEOREM TypeCorrect == Spec => []TypeOK
  BY Invariance, PTL DEF IInv

\* Story content only ever leaves for the viewer the host approved.
THEOREM StorySafety == Spec => []StoryOnlyToApproved
  BY Invariance, PTL DEF IInv

\* The host of an instance approves at most one viewer.
THEOREM TokenSafety == Spec => []OneApprovalPerToken
  BY Invariance, PTL DEF IInv

\* A live session always has the timers armed that will end it.
THEOREM TimerSafety == Spec => []LiveSessionExpires
  BY Invariance, PTL DEF IInv

\* A connection the object has closed occupies neither slot of a live session, nor is a
\* hello of it being verified.
THEOREM SlotSafety == Spec => []RefusedHoldsNoSlot
<1>1. IInv => RefusedHoldsNoSlot
  BY DEF IInv, ConnInv, RefusedHoldsNoSlot
<1>. QED
  BY <1>1, Invariance, PTL

\* The relay never accepts more of an image than its manifest declares.
THEOREM TransferSafety == Spec => []ChunksWithinManifest
  BY Invariance, PTL DEF IInv

-----------------------------------------------------------------------------
(* What a step does to those it is not about                                *)

\* What the session is to its host.
Session == <<host, paired, tokenConsumed, ended, timers>>

\* Nobody but c is closed.
Spares(c) == \A d \in Conn \ {c} : link'[d] = link[d]

LEMMA OnlyAddresseeCloses ==
  ASSUME TypeOK, NEW c \in Conn, NEW code, SendAndClose(Error(c, code))
  PROVE  Spares(c)
<1>1. \A m \in Error(c, code) : m.to = c
  BY ToMember DEF Error
<1>. QED
  BY <1>1 DEF SendAndClose, Closed, Spares

LEMMA ViewersFaultSpares ==
  ASSUME TypeOK, NEW c \in Conn \ {host}, Promoted(c), NEW code, Violate(c, code)
  PROVE  Spares(c) /\ UNCHANGED Session
<1>1. c = viewer /\ RejectViewerOnly(code)
  BY NoConnAssumption DEF Promoted, Violate
<1>. QED
  BY <1>1, OnlyAddresseeCloses DEF RejectViewerOnly, Session, pairing

\* Only what the host does can end or advance the session; whatever anyone else does
\* costs at most his own connection.
THEOREM SessionIsolation == Spec => OthersSpareTheSession
<1>1. ASSUME IInv, NEW c \in Conn \ {host}, ActsOf(c)
      PROVE  Spares(c) /\ UNCHANGED Session
  <2>1. TypeOK
    BY <1>1 DEF IInv
  <2>2. CASE PreAuthTimeout(c)
    BY <2>1, <2>2, OnlyAddresseeCloses DEF PreAuthTimeout, Session, slots, pairing
  <2>3. CASE SocketClosed(c)
    <3>1. link' = [link EXCEPT ![c] = "closed"] /\ UNCHANGED <<host, pairing, ended, timers>>
      BY <1>1, <2>3 DEF SocketClosed
    <3>. QED
      BY <2>1, <3>1 DEF TypeOK, Spares, Session, pairing
  <2>4. CASE host # NoConn /\ HelloVerified(c)
    <3>1. UNCHANGED <<pairing, ended>> /\ (HostHello(c) \/ ViewerHello(c))
      BY <2>4 DEF HelloVerified
    <3>2. ASSUME NEW code, RefuseHello(c, code) PROVE Spares(c) /\ UNCHANGED Session
      BY <2>1, <3>1, <3>2, OnlyAddresseeCloses DEF RefuseHello, Session, slots, pairing
    <3>3. CASE TakeViewerSlot(c)
      BY <3>1, <3>3 DEF TakeViewerSlot, Spares, Session, pairing
    <3>. QED
      BY <2>4, <3>1, <3>2, <3>3 DEF HostHello, ViewerHello
  <2>5. ASSUME NEW m \in Message, Receive(c, m)
        PROVE  Spares(c) /\ UNCHANGED Session
    <3>1. CASE ReceiveFirst(c, m)
      <4>1. link' = link \/ \E code : SendAndClose(Error(c, code))
        BY <3>1 DEF ReceiveFirst
      <4>. QED
        BY <2>1, <3>1, <4>1, OnlyAddresseeCloses DEF ReceiveFirst, Spares, Session, slots, pairing
    <3>2. CASE ReceiveBadFrame(c, m)
      BY <2>1, <3>2, ViewersFaultSpares DEF ReceiveBadFrame
    <3>3. ASSUME NEW fresh \in BOOLEAN, ReceiveOverRate(c, m, fresh)
          PROVE  Spares(c) /\ UNCHANGED Session
      BY <2>1, <3>3, ViewersFaultSpares DEF ReceiveOverRate
    <3>4. ASSUME NEW fresh \in BOOLEAN, ReceiveOutOfTurn(c, m, fresh)
          PROVE  Spares(c) /\ UNCHANGED Session
      BY <2>1, <3>4, ViewersFaultSpares DEF ReceiveOutOfTurn, Accepted
    <3>5. ASSUME NEW fresh \in BOOLEAN, ReceiveInTurn(c, m, fresh)
          PROVE  Spares(c) /\ UNCHANGED Session
      <4>1. m.type \notin HostOnly /\ Promoted(c)
        BY <1>1, <3>5 DEF ReceiveInTurn, OutOfTurn, Accepted
      <4>2. OnSnapshotRequest
        BY <3>5, <4>1 DEF ReceiveInTurn, HostOnly, StoryType
      <4>3. CASE ~paired
        BY <1>1, <2>1, <4>1, <4>2, <4>3, ViewersFaultSpares DEF OnSnapshotRequest, Violate
      <4>4. CASE paired
        BY <4>2, <4>4 DEF OnSnapshotRequest, Spares, Session, slots, pairing
      <4>. QED
        BY <2>1, <4>3, <4>4 DEF TypeOK
    <3>. QED
      BY <2>5, <3>1, <3>2, <3>3, <3>4, <3>5 DEF Receive
  <2>. QED
    BY <1>1, <2>2, <2>3, <2>4, <2>5 DEF ActsOf
<1>2. IInv /\ [Next]_vars
        => [\A c \in Conn \ {host} :
              \/ ~ UNCHANGED <<host, paired, tokenConsumed, ended, timers>>
              \/ \E d \in Conn \ {c} : link'[d] # link[d]
              => ~ ActsOf(c)]_vars
  BY <1>1 DEF Spares, Session
<1>. QED
  BY <1>2, Invariance, PTL DEF Spec, OthersSpareTheSession

\* The holder of a slot stays in it, or leaves it empty and is not connected any more.
HandedOver ==
  /\ host # NoConn /\ host' # host => host' = NoConn /\ link'[host] # "open"
  /\ viewer # NoConn /\ viewer' # viewer => viewer' = NoConn /\ link'[viewer] # "open"

LEMMA EndingHandsOver ==
  ASSUME TypeOK, Terminate, NEW msgs, SendAndClose(msgs),
         \A c \in {host, viewer} \ {NoConn} : \E m \in msgs : m.to = c
  PROVE  HandedOver
  BY DEF TypeOK, Terminate, SendAndClose, Closed, HandedOver

\* The addressee of an error is told it.
LEMMA ErrorMember ==
  ASSUME NEW c, c # NoConn, NEW code
  PROVE  \E m \in Error(c, code) : m.to = c
  BY DEF Error, To

LEMMA FaultHandsOver ==
  ASSUME TypeOK, NEW code, EndByHostFault(code) \/ EndBySessionExpired \/ RejectViewerOnly(code)
  PROVE  HandedOver
<1>1. CASE EndByHostFault(code)
  BY <1>1, EndingHandsOver, ErrorMember DEF EndByHostFault
<1>2. CASE EndBySessionExpired
  BY <1>2, EndingHandsOver, ErrorMember DEF EndBySessionExpired
<1>3. CASE RejectViewerOnly(code)
  <2>1. viewer # NoConn => link'[viewer] # "open"
    BY <1>3, ErrorMember DEF TypeOK, RejectViewerOnly, SendAndClose, Closed
  <2>. QED
    BY <1>3, <2>1 DEF RejectViewerOnly, HandedOver
<1>. QED
  BY <1>1, <1>2, <1>3

LEMMA ReceiveHandsOver ==
  ASSUME TypeOK, NEW c \in Conn, NEW m \in Message, Receive(c, m)
  PROVE  HandedOver
<1>1. ASSUME NEW code, Violate(c, code) PROVE HandedOver
  BY <1>1, FaultHandsOver DEF Violate
<1>2. CASE UNCHANGED slots
  BY <1>2 DEF slots, HandedOver
<1>3. CASE ReceiveFirst(c, m)
  BY <1>2, <1>3 DEF ReceiveFirst
<1>4. CASE ReceiveBadFrame(c, m)
  BY <1>1, <1>4 DEF ReceiveBadFrame
<1>5. ASSUME NEW fresh \in BOOLEAN, ReceiveOverRate(c, m, fresh) \/ ReceiveOutOfTurn(c, m, fresh)
      PROVE  HandedOver
  BY <1>1, <1>5 DEF ReceiveOverRate, ReceiveOutOfTurn
<1>6. ASSUME NEW fresh \in BOOLEAN, ReceiveInTurn(c, m, fresh)
      PROVE  HandedOver
  <2>1. CASE OnPairReject
    <3>1. viewer # NoConn => \E n \in Tell(viewer, "pair-reject") : n.to = viewer
      BY DEF Tell, To
    <3>. QED
      BY <2>1, <3>1 DEF TypeOK, OnPairReject, SendAndClose, Closed, HandedOver
  <2>2. CASE OnPairApprove
    BY <1>2, <2>2 DEF OnPairApprove
  <2>3. CASE OnSnapshotRequest
    BY <1>2, <2>3, FaultHandsOver DEF OnSnapshotRequest
  <2>4. CASE OnSnapshotManifest(m.images)
    BY <1>2, <2>4 DEF OnSnapshotManifest
  <2>5. CASE OnImageChunk(m.chunk)
    BY <1>2, <2>5, FaultHandsOver DEF OnImageChunk
  <2>6. CASE OnSnapshotComplete
    BY <1>2, <2>6 DEF OnSnapshotComplete
  <2>. QED
    BY <1>6, <2>1, <2>2, <2>3, <2>4, <2>5, <2>6 DEF ReceiveInTurn
<1>. QED
  BY <1>3, <1>4, <1>5, <1>6 DEF Receive

\* No host and no viewer is replaced while it is connected.
THEOREM SlotHandover == Spec => SlotsAreHandedOver
<1>1. ASSUME IInv, [Next]_vars PROVE HandedOver
  <2>1. TypeOK
    BY <1>1 DEF IInv
  <2>2. CASE UNCHANGED slots
    BY <2>2 DEF slots, HandedOver
  <2>3. ASSUME NEW c \in Conn,
               \/ Upgrade(c) \/ PreAuthTimeout(c) \/ ReceiveAfterEnd(c) \/ ReceiveSpent(c)
        PROVE  HandedOver
    BY <2>2, <2>3 DEF Upgrade, PreAuthTimeout, ReceiveAfterEnd, ReceiveSpent
  <2>4. ASSUME NEW c \in Conn, SocketClosed(c) PROVE HandedOver
    <3>1. CASE c = host /\ ~ended
      <4>1. /\ Terminate /\ link' = [Closed(Error(viewer, "host-offline")) EXCEPT ![c] = "closed"]
        BY <2>4, <3>1 DEF SocketClosed
      <4>2. viewer # NoConn => link'[viewer] # "open"
        BY <2>1, <4>1, ErrorMember DEF TypeOK, Closed
      <4>3. link'[host] # "open"
        BY <2>1, <3>1, <4>1 DEF TypeOK, Closed
      <4>. QED
        BY <4>1, <4>2, <4>3 DEF Terminate, HandedOver
    <3>2. CASE ~(c = host /\ ~ended)
      BY <2>1, <2>4, <3>2 DEF TypeOK, SocketClosed, HandedOver
    <3>. QED
      BY <3>1, <3>2
  <2>5. ASSUME NEW c \in Conn, HelloVerified(c) PROVE HandedOver
    BY <2>2, <2>5 DEF HelloVerified, HostHello, ViewerHello, RefuseHello, TakeViewerSlot, HandedOver
  <2>6. ASSUME NEW c \in Conn, NEW m \in Message, Receive(c, m) PROVE HandedOver
    BY <2>1, <2>6, ReceiveHandsOver
  <2>7. ASSUME NEW t \in Timer, TimerFires(t) PROVE HandedOver
    BY <2>1, <2>2, <2>7, FaultHandsOver DEF TimerFires
  <2>8. CASE Evict
    BY <2>1, <2>8 DEF Evict, TypeOK, Listening, sockets, HandedOver
  <2>9. CASE UNCHANGED vars
    BY <2>2, <2>9 DEF vars
  <2>. QED
    BY <1>1, <2>3, <2>4, <2>5, <2>6, <2>7, <2>8, <2>9 DEF Next
<1>2. IInv /\ [Next]_vars
        => [/\ host # NoConn /\ host' # host => host' = NoConn /\ link'[host] # "open"
            /\ viewer # NoConn /\ viewer' # viewer => viewer' = NoConn /\ link'[viewer] # "open"]_vars
  BY <1>1 DEF HandedOver
<1>. QED
  BY <1>2, Invariance, PTL DEF Spec, SlotsAreHandedOver
=============================================================================
