------------------------- MODULE PreviewSystem_proofs -------------------------
(***************************************************************************)
(* What the phone preview guarantees as a whole, for any phones, stories   *)
(* and sizes and any number of broken connections, checked by TLAPS.       *)
(***************************************************************************)
EXTENDS PreviewSystem, FiniteSetTheorems, SequenceTheorems, WellFoundedInduction, TLAPS

\* The theorems about the relay hold of the relay of this system.
R == INSTANCE RelaySession_proofs WITH MaxBytes <- MaxImageBytes, MaxTotal <- MaxImageBytes,
                                       MaxChunk <- ChunkBytes, RateMax <- 1

-----------------------------------------------------------------------------
(* The inductive invariant                                                  *)

Has(channel, types)    == \E k \in DOMAIN channel : channel[k].type \in types
HasOne(channel, types) ==
  \A j, k \in DOMAIN channel : channel[j].type \in types /\ channel[k].type \in types => j = k

\* What the relay tells a connection, and what each client tells the relay.
Code == {"none", "protocol-violation", "too-large", "rate-limited", "not-paired", "invalid-token",
         "host-offline", "token-consumed", "session-expired"}
Told(c) ==
  [to : {c}, arg : Code,
   type : {"host-ready", "pair-request", "awaiting-approval", "pair-approve", "pair-reject",
           "snapshot-request", "snapshot-complete", "error"}]
    \cup [to : {c}, type : {"snapshot-manifest"}, arg : Relay!Declared]
    \cup [to : {c}, type : {"image-chunk"}, arg : Relay!Chunk]

Event     == {Opened, Close, Lost}
PhoneSays == {HelloMsg("viewer", "good"), Plain("snapshot-request")}
TabSays   == {HelloMsg("host", "good"), Plain("pair-approve"), Plain("pair-reject"), Plain("snapshot-complete")}
               \cup {ManifestMsg(s) : s \in Relay!Declared} \cup {ChunkMsg(k) : k \in Relay!Chunk}
OfPhone   == PhoneSays \cup {Close}
OfTab     == TabSays \cup {Close}
Says(c)   == IF c = HostConn THEN TabSays ELSE PhoneSays

\* Nothing comes before the news that a connection is lost.
ChannelInv ==
  /\ up = [c \in Conn |-> up[c]] /\ down = [c \in Conn |-> down[c]]
  /\ \A c \in Conn : /\ up[c] \in Seq(IF c = HostConn THEN OfTab ELSE OfPhone)
                     /\ down[c] \in Seq(Told(c) \cup Event)
                     /\ \A k \in DOMAIN down[c] : down[c][k] = Lost => k = 1

\* A connection that is over for the client will be over for the relay, and nothing was
\* over for the relay before; what nobody has opened has no history.
Broken(c) == down[c] # <<>> /\ down[c][1] = Lost
Over(c)   == Sock(c) \in {"closing", "closed"} \/ Broken(c)

LinkInv ==
  \A c \in Conn :
    /\ link[c] = "idle" => ~shotUsed[c] /\ up[c] = <<>> /\ down[c] \in {<<>>, <<Lost>>}
    /\ Sock(c) = "none" => link[c] = "idle" /\ down[c] = <<>>
    /\ Sock(c) = "connecting" => IF down[c] = <<>> THEN link[c] = "idle"
                                 ELSE down[c][1] \in {Opened, Lost}
    /\ Has(up[c], {"close"}) \/ link[c] = "closed" => Over(c)
    /\ Over(c) => link[c] \in {"idle", "closed"} \/ Has(up[c], {"close"})

\* The story comes to whom the host has approved.
StoryInv ==
  \A p \in Phone : ~Over(p) /\ Has(down[p], StoryType) => p \in approved

\* The tab is the only host there will be.
RoleInv ==
  /\ host \in {NoConn, HostConn} /\ viewer \in Phone \cup {NoConn}
  /\ \A p \in Phone : hello[p].role # "host"
  /\ hello[HostConn].role # "viewer"
  /\ paired => shotUsed[HostConn]

HostMayCome ==
  host # NoConn \/ hello[HostConn] # Relay!NoHello \/ (link[HostConn] # "closed" /\ ~shotUsed[HostConn])

\* One approval leads to one request and one answer, and there is none before it.
Approval == {"pair-approve", "snapshot-request"}
Request  == {"snapshot-request"}

NothingUnderWay ==
  answering = 0 /\ \A c \in Conn : ~Has(down[c], Approval) /\ ~Has(up[c], Request)

RequestInv ==
  /\ answering \in {0, 1}
  /\ \A c \in Conn : HasOne(down[c], Approval) /\ HasOne(up[c], Request)
  /\ \A c, d \in Conn : /\ Has(down[c], Approval) /\ Has(down[d], Approval) => c = d
                        /\ Has(up[c], Request) /\ Has(up[d], Request) => c = d
                        /\ ~(Has(down[c], Approval) /\ Has(up[d], Request))
  /\ answering = 1 => \A c \in Conn : ~Has(down[c], Approval) /\ ~Has(up[c], Request)
  /\ ~paired /\ HostMayCome => NothingUnderWay

\* The link is shown once the relay has said so, which it does once.
Announced == linkShown \/ Has(down[HostConn], {"host-ready"})
Live      == host # NoConn /\ ~ended

HostInv ==
  /\ Announced => shotUsed[HostConn] /\ hello[HostConn] = Relay!NoHello
  /\ Announced /\ Live => link[HostConn] = "open"
  /\ HasOne(down[HostConn], {"host-ready"})
  /\ linkShown => /\ ~Has(down[HostConn], {"host-ready"})
                  /\ hostWs \in {"open", "closing", "closed"}
  /\ \A p \in Phone : ws[p] # "none" => linkShown
  /\ Has(down[HostConn], {"error"}) => link[HostConn] # "open"
  /\ over /\ linkShown => hostWs # "open" \/ link[HostConn] # "open"
  /\ starting # "done" => hostWs = "none"

\* While nobody is paired the tab shows a code, unless it has just answered or left.
PhaseInv ==
  linkShown /\ ~over /\ hostWs = "open" /\ Live /\ ~paired =>
    phase \in {"waiting-for-scan", "confirm-pairing"} \/ Has(up[HostConn], {"pair-approve", "close"})

Progressed == [Image -> [next : Nat, total : Nat, bytes : 0 .. MaxImageBytes]]

PreviewInv ==
  /\ R!IInv
  /\ Tab!TypeOK /\ Phones!TypeOK /\ received \in [Phone -> Progressed]
  /\ ChannelInv /\ LinkInv /\ StoryInv /\ RoleInv /\ RequestInv /\ HostInv /\ PhaseInv
  /\ WaiterIsShown

-----------------------------------------------------------------------------
(* The relay of this system                                                 *)

LEMMA SameNext == Relay!Next <=> R!Next
  BY DEF
     Relay!NoHello, R!NoHello, Relay!NoManifest, R!NoManifest, Relay!Declared, R!Declared,
     Relay!NoProgress, R!NoProgress, Relay!Chunk, R!Chunk, Relay!BadFrame, R!BadFrame,
     Relay!Message, R!Message, Relay!To, R!To, Relay!Tell, R!Tell, Relay!Error, R!Error,
     Relay!Send, R!Send, Relay!Closed, R!Closed, Relay!SendAndClose, R!SendAndClose,
     Relay!Terminate, R!Terminate, Relay!EndByHostFault, R!EndByHostFault,
     Relay!EndBySessionExpired, R!EndBySessionExpired, Relay!RejectViewerOnly,
     R!RejectViewerOnly, Relay!Violate, R!Violate, Relay!Upgrade, R!Upgrade, Relay!Listening,
     R!Listening, Relay!PreAuthTimeout, R!PreAuthTimeout, Relay!SocketClosed, R!SocketClosed,
     Relay!ReceiveAfterEnd, R!ReceiveAfterEnd, Relay!FirstMessageFault, R!FirstMessageFault,
     Relay!ReceiveFirst, R!ReceiveFirst, Relay!ReceiveSpent, R!ReceiveSpent, Relay!RefuseHello,
     R!RefuseHello, Relay!HostHello, R!HostHello, Relay!TakeViewerSlot, R!TakeViewerSlot,
     Relay!ViewerHello, R!ViewerHello, Relay!HelloVerified, R!HelloVerified, Relay!Promoted,
     R!Promoted, Relay!ReceiveBadFrame, R!ReceiveBadFrame, Relay!Counted, R!Counted, Relay!Count,
     R!Count, Relay!Within, R!Within, Relay!ReceiveOverRate, R!ReceiveOverRate, Relay!Accepted,
     R!Accepted, Relay!ViewerWaiting, R!ViewerWaiting, Relay!HostOnly, R!HostOnly,
     Relay!OutOfTurn, R!OutOfTurn, Relay!ReceiveOutOfTurn, R!ReceiveOutOfTurn,
     Relay!OnPairApprove, R!OnPairApprove, Relay!OnPairReject, R!OnPairReject,
     Relay!OnSnapshotRequest, R!OnSnapshotRequest, Relay!OnSnapshotManifest,
     R!OnSnapshotManifest, Relay!Entry, R!Entry, Relay!ChunkFault, R!ChunkFault,
     Relay!OnImageChunk, R!OnImageChunk, Relay!OnSnapshotComplete, R!OnSnapshotComplete,
     Relay!ReceiveInTurn, R!ReceiveInTurn, Relay!Timer, R!Timer, Relay!Armed, R!Armed,
     Relay!TimerFires, R!TimerFires, Relay!Evict, R!Evict, Relay!Receive, R!Receive, Relay!Next,
     R!Next, Relay!slots, R!slots, Relay!pairing, R!pairing, Relay!timers, R!timers,
     Relay!transfer, R!transfer, Relay!sockets, R!sockets, Relay!StoryType, R!StoryType,
     Relay!HelloMsg, R!HelloMsg, Relay!ManifestMsg, R!ManifestMsg, Relay!ChunkMsg, R!ChunkMsg,
     Relay!Plain, R!Plain, Relay!PlainType, R!PlainType

\* What the invariant of the relay says to the system.
RelayInv ==
  /\ Relay!TypeOK /\ Relay!StoryOnlyToApproved
  /\ \A c \in Conn :
       /\ hello[c] # Relay!NoHello => shotUsed[c]
       /\ ~shotUsed[c] \/ hello[c] # Relay!NoHello => c # host /\ c # viewer
       /\ ~ended /\ (c = host \/ c = viewer) => link[c] # "closing"
  /\ host # NoConn => host # viewer
  /\ ~ended /\ host = NoConn => viewer = NoConn /\ ~paired
  /\ paired = tokenConsumed /\ (~paired => approved = {})
  /\ paired /\ viewer # NoConn => viewer \in approved

LEMMA OfRelay == R!IInv => RelayInv
<1>1. R!TypeOK <=> Relay!TypeOK
  BY DEF Relay!TypeOK, R!TypeOK, Relay!Link, R!Link, Relay!Hello, R!Hello, Relay!NoHello,
     R!NoHello, Relay!Declared, R!Declared, Relay!Progress, R!Progress
<1>2. R!StoryOnlyToApproved <=> Relay!StoryOnlyToApproved
  BY DEF Relay!StoryOnlyToApproved, R!StoryOnlyToApproved, Relay!StoryType, R!StoryType
<1>3. R!NoHello = Relay!NoHello
  BY DEF R!NoHello, Relay!NoHello
<1>. QED
  BY <1>1, <1>2, <1>3, Zenon DEF R!IInv, R!ConnInv, R!SlotInv, R!PairInv, RelayInv

\* It is kept when the relay takes a turn and when it takes none.
LEMMA RelayGoesOn ==
  ASSUME R!IInv, Relay!Next \/ RelayRests
  PROVE  R!IInv'
<1>1. NoConn \notin Conn /\ {MaxImageBytes, ChunkBytes} \subseteq Nat \ {0}
  BY ConnAssumption, SnapshotAssumption
<1>2. CASE Relay!Next
  <2>1. [R!Next]_(R!vars)
    BY <1>2, SameNext
  <2>. QED
    BY <1>1, <2>1, R!StepKeepsInv
<1>3. CASE RelayRests
  BY <1>3 DEF RelayRests, relay, R!IInv, R!TypeOK, R!ConnInv, R!SlotInv, R!PairInv,
     R!LiveSessionExpires, R!OneApprovalPerToken, R!StoryOnlyToApproved, R!ChunksWithinManifest
<1>. QED
  BY <1>2, <1>3

-----------------------------------------------------------------------------
(* Channels                                                                 *)

LEMMA HasFew ==
  ASSUME NEW T, NEW m
  PROVE  /\ ~Has(<<>>, T) /\ HasOne(<<>>, T)
         /\ Has(<<m>>, T) <=> m.type \in T
         /\ HasOne(<<m>>, T)
  BY DEF Has, HasOne

LEMMA HasTail ==
  ASSUME NEW S, NEW s \in Seq(S), s # <<>>, NEW T
  PROVE  /\ Head(s) = s[1] /\ Tail(s) \in Seq(S)
         /\ Has(s, T) <=> s[1].type \in T \/ Has(Tail(s), T)
         /\ HasOne(s, T) => HasOne(Tail(s), T)
         /\ HasOne(s, T) /\ s[1].type \in T => ~Has(Tail(s), T)
<1>1. /\ Len(s) \in Nat \ {0} /\ DOMAIN s = 1 .. Len(s) /\ Head(s) = s[1]
      /\ Tail(s) \in Seq(S) /\ DOMAIN Tail(s) = 1 .. Len(s) - 1
      /\ \A k \in 1 .. Len(s) - 1 : Tail(s)[k] = s[k + 1]
  OBVIOUS
<1>2. ASSUME NEW k \in DOMAIN s, k # 1
      PROVE  k - 1 \in DOMAIN Tail(s) /\ Tail(s)[k - 1] = s[k]
  BY <1>1, <1>2
<1>3. ASSUME NEW k \in DOMAIN Tail(s)
      PROVE  k + 1 \in DOMAIN s /\ k + 1 # 1 /\ s[k + 1] = Tail(s)[k] /\ 1 \in DOMAIN s
  BY <1>1
<1>4. Has(s, T) <=> s[1].type \in T \/ Has(Tail(s), T)
  <2>1. ASSUME Has(s, T) PROVE s[1].type \in T \/ Has(Tail(s), T)
    <3>1. PICK k \in DOMAIN s : s[k].type \in T
      BY <2>1 DEF Has
    <3>. QED
      BY <1>2, <3>1 DEF Has
  <2>2. s[1].type \in T => Has(s, T)
    BY <1>1 DEF Has
  <2>3. Has(Tail(s), T) => Has(s, T)
    BY <1>3 DEF Has
  <2>. QED
    BY <2>1, <2>2, <2>3
<1>5. HasOne(s, T) => HasOne(Tail(s), T)
  BY <1>1, <1>3 DEF HasOne
<1>6. HasOne(s, T) /\ s[1].type \in T => ~Has(Tail(s), T)
  BY <1>1, <1>3 DEF HasOne, Has
<1>. QED
  BY <1>1, <1>4, <1>5, <1>6

LEMMA HasJoined ==
  ASSUME NEW S, NEW s \in Seq(S), NEW t \in Seq(S), NEW T
  PROVE  /\ s \o t \in Seq(S)
         /\ \A k \in DOMAIN s : k \in DOMAIN (s \o t) /\ (s \o t)[k] = s[k]
         /\ Has(s \o t, T) <=> Has(s, T) \/ Has(t, T)
         /\ HasOne(s, T) /\ HasOne(t, T) /\ ~(Has(s, T) /\ Has(t, T)) => HasOne(s \o t, T)
<1>1. /\ Len(s) \in Nat /\ Len(t) \in Nat
      /\ s \o t \in Seq(S) /\ DOMAIN (s \o t) = 1 .. Len(s) + Len(t)
      /\ \A k \in 1 .. Len(s) : (s \o t)[k] = s[k]
      /\ \A k \in Len(s) + 1 .. Len(s) + Len(t) : (s \o t)[k] = t[k - Len(s)]
      /\ DOMAIN s = 1 .. Len(s) /\ DOMAIN t = 1 .. Len(t)
  OBVIOUS
<1>2. ASSUME NEW k \in DOMAIN s
      PROVE  k \in DOMAIN (s \o t) /\ (s \o t)[k] = s[k]
  BY <1>1
<1>3. ASSUME NEW k \in DOMAIN t
      PROVE  k + Len(s) \in DOMAIN (s \o t) /\ (s \o t)[k + Len(s)] = t[k]
  BY <1>1
<1>4. ASSUME NEW k \in DOMAIN (s \o t)
      PROVE  \/ k \in DOMAIN s /\ (s \o t)[k] = s[k]
             \/ /\ k - Len(s) \in DOMAIN t /\ (s \o t)[k] = t[k - Len(s)]
                /\ k \in Nat /\ k > Len(s)
  BY <1>1
<1>5. Has(s \o t, T) <=> Has(s, T) \/ Has(t, T)
  BY <1>2, <1>3, <1>4 DEF Has
<1>6. ASSUME HasOne(s, T), HasOne(t, T), ~(Has(s, T) /\ Has(t, T))
      PROVE  HasOne(s \o t, T)
  <2>. SUFFICES ASSUME NEW j \in DOMAIN (s \o t), NEW k \in DOMAIN (s \o t),
                       (s \o t)[j].type \in T, (s \o t)[k].type \in T
                PROVE  j = k
    BY DEF HasOne
  <2>1. CASE j \in DOMAIN s /\ (s \o t)[j] = s[j]
    <3>1. Has(s, T)
      BY <2>1 DEF Has
    <3>2. k \in DOMAIN s /\ (s \o t)[k] = s[k]
      BY <1>4, <1>6, <3>1 DEF Has
    <3>. QED
      BY <1>6, <2>1, <3>2 DEF HasOne
  <2>2. CASE j - Len(s) \in DOMAIN t /\ (s \o t)[j] = t[j - Len(s)] /\ j \in Nat
    <3>1. Has(t, T)
      BY <2>2 DEF Has
    <3>2. k - Len(s) \in DOMAIN t /\ (s \o t)[k] = t[k - Len(s)] /\ k \in Nat
      BY <1>4, <1>6, <3>1 DEF Has
    <3>3. j - Len(s) = k - Len(s)
      BY <1>6, <2>2, <3>2 DEF HasOne
    <3>. QED
      BY <1>1, <2>2, <3>2, <3>3
  <2>. QED
    BY <1>4, <2>1, <2>2
<1>. QED
  BY <1>1, <1>2, <1>5, <1>6

LEMMA EventTypes == Opened.type = "open" /\ Close.type = "close" /\ Lost.type = "lost"
  BY DEF Opened, Close, Lost, Plain

\* What is told has a type that no event of the network has.
LEMMA ToldTypes ==
  ASSUME NEW c, NEW m \in Told(c)
  PROVE  /\ m.to = c /\ m.type \notin {"open", "close", "lost", "session-expired"}
         /\ m \notin Event
         /\ m.type = "snapshot-manifest" => m.arg \in Relay!Declared
         /\ m.type = "image-chunk" => m.arg \in Relay!Chunk
  BY EventTypes DEF Told, Event

-----------------------------------------------------------------------------
(* A turn of the relay                                                      *)

\* It tells a connection one thing at most, and only one that is open; an error is the last.
Talks ==
  /\ IsFiniteSet(out')
  /\ \A m \in out' : /\ m.to \in Conn /\ m \in Told(m.to) /\ link[m.to] = "open"
                     /\ m.type = "error" => link'[m.to] # "open"
  /\ \A m, n \in out' : m.to = n.to => m = n

LEMMA SeqOfFew ==
  ASSUME NEW m
  PROVE  SetToSeq({}) = <<>> /\ SetToSeq({m}) = <<m>>
<1>1. Cardinality({}) = 0 /\ Cardinality({m}) = 1
  BY FS_EmptySet, FS_Singleton
<1>2. SetToSeq({}) \in [1 .. 0 -> {}]
  <2>1. PICK f \in [1 .. 0 -> {}] : TRUE
    <3>1. [i \in 1 .. 0 |-> i] \in [1 .. 0 -> {}]
      OBVIOUS
    <3>. QED
      BY <3>1
  <2>2. IsInjective(f)
    BY DEF IsInjective
  <2>. QED
    BY <1>1, <2>1, <2>2 DEF SetToSeq
<1>3. SetToSeq({m}) \in [1 .. 1 -> {m}]
  <2>1. [i \in 1 .. 1 |-> m] \in [1 .. 1 -> {m}] /\ IsInjective([i \in 1 .. 1 |-> m])
    BY DEF IsInjective
  <2>. QED
    BY <1>1, <2>1 DEF SetToSeq
<1>4. SetToSeq({}) = <<>>
  BY <1>2
<1>5. SetToSeq({m}) = <<m>>
  BY <1>3
<1>. QED
  BY <1>4, <1>5

\* What it tells a connection is what travels to it.
LEMMA MailOf ==
  ASSUME Talks, FromRelay, NEW c \in Conn, down[c] \in Seq(Told(c) \cup Event), Sock(c) # "closed"
  PROVE  \E t \in Seq(Told(c) \cup {Close}) :
           /\ down'[c] = down[c] \o t
           /\ \A k \in DOMAIN t : t[k] = Close \/ (t[k] \in out' /\ t[k].to = c)
           /\ \A j, k \in DOMAIN t : t[j] \in out' /\ t[k] \in out' => j = k
           /\ \A m \in out' : m.to = c => \E k \in DOMAIN t : t[k] = m
<1>. DEFINE mail == {m \in out' : m.to = c}
            last == IF link[c] = "open" /\ link'[c] # "open" THEN <<Close>> ELSE <<>>
<1>1. down'[c] = down[c] \o SetToSeq(mail) \o last
  BY DEF FromRelay
<1>2. Close \notin out'
  BY ToldTypes DEF Talks, Event
<1>. DEFINE S == Told(c) \cup {Close}
            D == Told(c) \cup Event
<1>3. last \in {<<>>, <<Close>>} /\ S \subseteq D
  BY DEF Event
<1>. HIDE DEF last
<1>6. /\ <<>> \in Seq(S) /\ <<Close>> \in Seq(S) /\ DOMAIN <<>> = {} /\ DOMAIN <<Close>> = {1}
      /\ <<>> \in Seq(D) /\ <<Close>> \in Seq(D) /\ \A m \in Told(c) : <<m>> \in Seq(S) /\ <<m>> \in Seq(D)
  BY DEF Event
<1>. HIDE DEF S, D
<1>4. CASE mail = {}
  <2>1. down'[c] = down[c] \o <<>> \o last
    BY <1>1, <1>4, SeqOfFew
  <2>2. last \in Seq(S) /\ \A k \in DOMAIN last : last[k] = Close
    <3>1. CASE last = <<>>
      BY <1>6, <3>1
    <3>2. CASE last = <<Close>>
      <4>1. \A k \in {1} : <<Close>>[k] = Close
        OBVIOUS
      <4>. QED
        BY <1>6, <3>2, <4>1
    <3>. QED
      BY <1>3, <3>1, <3>2
  <2>3. down[c] \o <<>> = down[c]
    OBVIOUS
  <2>4. last \in Seq(Told(c) \cup {Close}) /\ down'[c] = down[c] \o last
    BY <2>1, <2>2, <2>3 DEF S
  <2>. QED
    BY <1>2, <1>4, <2>2, <2>4
<1>5. CASE mail # {}
  <2>1. PICK m \in out' : m.to = c
    BY <1>5
  <2>2. mail = {m} /\ m \in Told(c)
    BY <2>1 DEF Talks
  <2>3. down'[c] = down[c] \o <<m>> \o last
    BY <1>1, <2>2, SeqOfFew
  <2>4. PICK t : t = <<m>> \o last
    OBVIOUS
  <2>5. /\ t \in Seq(Told(c) \cup {Close}) /\ 1 \in DOMAIN t /\ t[1] = m
        /\ \A k \in DOMAIN t : k # 1 => t[k] = Close
    <3>1. CASE last = <<>>
      <4>1. t = <<m>>
        BY <2>4, <3>1
      <4>. QED
        BY <2>2, <4>1
    <3>2. CASE last = <<Close>>
      <4>1. <<m>> \in Seq(S) /\ <<Close>> \in Seq(S)
        BY <1>6, <2>2
      <4>2. /\ t \in Seq(S) /\ Len(t) = 2
            /\ \A i \in 1 .. 2 : t[i] = IF i <= 1 THEN <<m>>[i] ELSE <<Close>>[i - 1]
        BY <2>4, <3>2, <4>1, ConcatProperties
      <4>3. DOMAIN t = 1 .. 2 /\ t[1] = m /\ t[2] = Close
        BY <4>2
      <4>. QED
        BY <4>2, <4>3 DEF S
    <3>. QED
      BY <1>3, <3>1, <3>2
  <2>6. down'[c] = down[c] \o t
    <3>1. down[c] \in Seq(D) /\ <<m>> \in Seq(D) /\ last \in Seq(D)
      BY <1>3, <1>6, <2>2 DEF D
    <3>2. \A q, r, u \in Seq(D) : (q \o r) \o u = q \o (r \o u)
      BY ConcatAssociative
    <3>3. (down[c] \o <<m>>) \o last = down[c] \o (<<m>> \o last)
      BY <3>1, <3>2, Zenon
    <3>. QED
      BY <2>3, <2>4, <3>3
  <2>7. \A j, k \in DOMAIN t : t[j] \in out' /\ t[k] \in out' => j = k
    BY <1>2, <2>5
  <2>8. \A k \in DOMAIN t : t[k] = Close \/ (t[k] \in out' /\ t[k].to = c)
    BY <2>1, <2>5
  <2>9. \A n \in out' : n.to = c => t[1] = n
    BY <2>2, <2>5
  <2>. QED
    BY <2>5, <2>6, <2>7, <2>8, <2>9
<1>. QED
  BY <1>4, <1>5

\* So a channel to a client grows by what is told, or is given up.
LEMMA MailGrows ==
  ASSUME Talks, FromRelay, NEW c \in Conn, down[c] \in Seq(Told(c) \cup Event), NEW T, "close" \notin T
  PROVE  /\ down'[c] \in Seq(Told(c) \cup Event)
         /\ Sock(c) = "closed" => down'[c] = <<>>
         /\ Sock(c) # "closed" => /\ \A k \in DOMAIN down[c] : k \in DOMAIN down'[c] /\ down'[c][k] = down[c][k]
                                  /\ Has(down[c], T) => Has(down'[c], T)
                                  /\ \A m \in out' : m.to = c /\ m.type \in T => Has(down'[c], T)
         /\ \A k \in DOMAIN down'[c] : down'[c][k] = Lost => k \in DOMAIN down[c] /\ down[c][k] = Lost
         /\ Has(down'[c], T) => Has(down[c], T) \/ \E m \in out' : m.to = c /\ m.type \in T
         /\ HasOne(down[c], T) /\ (Has(down[c], T) => \A m \in out' : m.to = c => m.type \notin T)
              => HasOne(down'[c], T)
<1>. DEFINE D == Told(c) \cup Event
<1>1. CASE Sock(c) = "closed"
  <2>1. down'[c] = <<>>
    BY <1>1 DEF FromRelay
  <2>2. DOMAIN down'[c] = {} /\ down'[c] \in Seq(D)
    BY <2>1
  <2>. QED
    BY <1>1, <2>1, <2>2, HasFew
<1>2. CASE Sock(c) # "closed"
  <2>1. PICK t \in Seq(Told(c) \cup {Close}) :
           /\ down'[c] = down[c] \o t
           /\ \A k \in DOMAIN t : t[k] = Close \/ (t[k] \in out' /\ t[k].to = c)
           /\ \A j, k \in DOMAIN t : t[j] \in out' /\ t[k] \in out' => j = k
           /\ \A m \in out' : m.to = c => \E k \in DOMAIN t : t[k] = m
    BY <1>2, MailOf
  <2>2. t \in Seq(D)
    BY DEF Event
  <2>3. /\ down'[c] \in Seq(D)
        /\ \A k \in DOMAIN down[c] : k \in DOMAIN down'[c] /\ down'[c][k] = down[c][k]
        /\ Has(down'[c], T) <=> Has(down[c], T) \/ Has(t, T)
        /\ HasOne(down[c], T) /\ HasOne(t, T) /\ ~(Has(down[c], T) /\ Has(t, T)) => HasOne(down'[c], T)
    <3>. HIDE DEF D
    <3>1. down[c] \in Seq(D)
      BY DEF D
    <3>. QED
      BY <2>1, <2>2, <3>1, HasJoined
  <2>4. \A k \in DOMAIN t : t[k].type \in T => t[k] \in out' /\ t[k].to = c
    BY <2>1, EventTypes
  <2>5. HasOne(t, T)
    BY <2>1, <2>4 DEF HasOne
  <2>6. Has(t, T) => \E m \in out' : m.to = c /\ m.type \in T
    BY <2>4 DEF Has
  <2>7. ASSUME NEW m \in out', m.to = c, m.type \in T
        PROVE  Has(t, T)
    BY <2>1, <2>7 DEF Has
  <2>8. ASSUME NEW k \in DOMAIN down'[c], down'[c][k] = Lost
        PROVE  k \in DOMAIN down[c] /\ down[c][k] = Lost
    <3>1. CASE k \in DOMAIN down[c]
      BY <2>3, <2>8, <3>1
    <3>2. CASE k \notin DOMAIN down[c]
      <4>1. k - Len(down[c]) \in DOMAIN t /\ down'[c][k] = t[k - Len(down[c])]
        BY <2>1, <2>2, <3>2
      <4>2. t[k - Len(down[c])] \in Told(c) \cup {Close}
        BY <4>1
      <4>. QED
        BY <2>8, <4>1, <4>2, EventTypes, ToldTypes
    <3>. QED
      BY <3>1, <3>2
  <2>. HIDE DEF D
  <2>9. down'[c] \in Seq(Told(c) \cup Event)
    BY <2>3 DEF D
  <2>10. HasOne(down[c], T) /\ (Has(down[c], T) => \A m \in out' : m.to = c => m.type \notin T)
           => HasOne(down'[c], T)
    BY <2>3, <2>5, <2>6
  <2>11. Has(down'[c], T) => Has(down[c], T) \/ \E m \in out' : m.to = c /\ m.type \in T
    BY <2>3, <2>6
  <2>12. (Has(down[c], T) => Has(down'[c], T)) /\ \A m \in out' : m.to = c /\ m.type \in T => Has(down'[c], T)
    BY <2>3, <2>7
  <2>. QED
    BY <1>2, <2>3, <2>8, <2>9, <2>10, <2>11, <2>12
<1>. QED
  BY <1>1, <1>2

\* What a turn does to the roles and to the pairing.
Keeps == UNCHANGED <<host, viewer, paired, ended, approved>>
ViewerGoes == viewer' = NoConn /\ UNCHANGED <<host, paired, ended, approved>>
Ends == ended' = TRUE /\ host' = NoConn /\ viewer' = NoConn /\ UNCHANGED <<paired, approved>>
HostComes(c) ==
  /\ host = NoConn /\ host' = c /\ hello[c].role = "host" /\ hello'[c] = Relay!NoHello
  /\ UNCHANGED <<link, viewer, paired, ended, approved>>
  /\ \A m \in out' : m.to = c /\ m.type = "host-ready"
ViewerComes(c) ==
  /\ host # NoConn /\ ~paired /\ viewer' = c /\ hello[c].role = "viewer"
  /\ UNCHANGED <<link, host, paired, ended, approved>>
  /\ \A m \in out' : m.type \in {"pair-request", "awaiting-approval"}
  /\ link[host] = "open" => \E m \in out' : m.to = host /\ m.type = "pair-request"
Approves ==
  /\ Live /\ viewer # NoConn /\ ~paired /\ paired' = TRUE /\ approved' = approved \cup {viewer}
  /\ UNCHANGED <<host, viewer, ended>>
  /\ \A m \in out' : m.to = viewer /\ m.type = "pair-approve"
Forgets ==
  /\ host' = NoConn /\ viewer' = NoConn /\ ~paired' /\ ~ended' /\ approved' = {} /\ out' = {}
  /\ \A c \in Conn : link[c] \in {"idle", "closed"} /\ hello[c] = Relay!NoHello
  /\ UNCHANGED <<link, hello, shotUsed>>

NoNews == \A m \in out' : m.type \notin {"host-ready", "pair-request", "pair-approve"}

RolesTurn ==
  \/ (Keeps \/ ViewerGoes \/ Ends) /\ NoNews
  \/ \E c \in Conn : HostComes(c) \/ ViewerComes(c)
  \/ Approves \/ Forgets

\* What it does to the connections: none comes into being, and none of those that are
\* idle or closed says hello.
LinksTurn ==
  \A c \in Conn : /\ link'[c] = "idle" <=> link[c] = "idle"
                  /\ link'[c] = "open" => link[c] = "open"
                  /\ link[c] = "closed" => link'[c] = "closed"
HelloTurn ==
  \A c \in Conn :
    \/ ~shotUsed[c] /\ shotUsed'[c] /\ link[c] \in {"open", "closing"}
    \/ shotUsed'[c] = shotUsed[c] /\ hello'[c] \in {hello[c], Relay!NoHello}

RelayTurn  == Talks /\ RolesTurn /\ LinksTurn /\ HelloTurn
NoRequest  == \A m \in out' : m.type # "snapshot-request"
NoneCloses == \A c \in Conn : link'[c] = "closed" => link[c] = "closed"

\* A turn that says nothing, and one that tells two connections at most.
LEMMA TellNothing == out' = {} => Talks /\ NoNews /\ NoRequest
  BY FS_EmptySet DEF Talks, NoNews, NoRequest

LEMMA TellTwo ==
  ASSUME NEW a \in Conn \cup {NoConn}, NEW b \in Conn \cup {NoConn}, a # NoConn => a # b,
         NEW t, NEW u, NEW x, NEW y, NEW S, S = Relay!To(a, t, x) \cup Relay!To(b, u, y),
         Relay!Send(S),
         a # NoConn => [to |-> a, type |-> t, arg |-> x] \in Told(a),
         b # NoConn => [to |-> b, type |-> u, arg |-> y] \in Told(b),
         "error" \in {t, u} => \A m \in S : link'[m.to] # "open"
  PROVE  /\ Talks
         /\ \A m \in out' : m.to \in {a, b} /\ m.type \in {t, u}
         /\ a # NoConn /\ link[a] = "open" => [to |-> a, type |-> t, arg |-> x] \in out'
<1>1. out' = {m \in S : link[m.to] = "open"}
  BY DEF Relay!Send
<1>2. \A m \in S : \/ a # NoConn /\ m = [to |-> a, type |-> t, arg |-> x]
                   \/ b # NoConn /\ m = [to |-> b, type |-> u, arg |-> y]
  BY DEF Relay!To
<1>3. S \subseteq {[to |-> a, type |-> t, arg |-> x], [to |-> b, type |-> u, arg |-> y]}
  BY <1>2
<1>4. IsFiniteSet(out')
  <2>1. \A p, q : IsFiniteSet({p, q})
    <3>. TAKE p, q
    <3>1. PICK S2 : S2 = {p} \cup {q}
      OBVIOUS
    <3>2. IsFiniteSet(S2)
      BY <3>1, FS_Singleton, FS_AddElement
    <3>3. {p, q} = S2
      BY <3>1
    <3>. QED
      BY <3>2, <3>3
  <2>. QED
    BY <1>1, <1>3, <2>1, FS_Subset
<1>5. ASSUME NEW m \in out'
      PROVE  /\ m.to \in Conn /\ m \in Told(m.to) /\ link[m.to] = "open"
             /\ m.type = "error" => link'[m.to] # "open"
             /\ m.to \in {a, b} /\ m.type \in {t, u}
  BY <1>1, <1>2
<1>6. ASSUME NEW m \in out', NEW n \in out', m.to = n.to
      PROVE  m = n
  <2>1. m \in S /\ n \in S
    BY <1>1
  <2>. QED
    BY <1>2, <1>6, <2>1
<1>7. a # NoConn /\ link[a] = "open" => [to |-> a, type |-> t, arg |-> x] \in out'
  BY <1>1 DEF Relay!To
<1>. QED
  BY <1>4, <1>5, <1>6, <1>7 DEF Talks

LEMMA TellOne ==
  ASSUME NEW b \in Conn \cup {NoConn}, NEW u, NEW y, NEW S, S = Relay!To(b, u, y), Relay!Send(S),
         b # NoConn => [to |-> b, type |-> u, arg |-> y] \in Told(b),
         u = "error" => \A m \in S : link'[m.to] # "open"
  PROVE  /\ Talks
         /\ \A m \in out' : m.to = b /\ m.type = u
         /\ b # NoConn /\ link[b] = "open" => [to |-> b, type |-> u, arg |-> y] \in out'
<1>1. out' = {m \in S : link[m.to] = "open"}
  BY DEF Relay!Send
<1>2. S = IF b = NoConn THEN {} ELSE {[to |-> b, type |-> u, arg |-> y]}
  BY DEF Relay!To
<1>3. CASE b = NoConn
  <2>1. out' = {}
    BY <1>1, <1>2, <1>3
  <2>. QED
    BY <1>3, <2>1, TellNothing
<1>4. CASE b # NoConn
  <2>1. PICK n : n = [to |-> b, type |-> u, arg |-> y]
    OBVIOUS
  <2>2. out' \subseteq {n} /\ S = {n} /\ (link[b] = "open" => out' = {n})
    BY <1>1, <1>2, <1>4, <2>1
  <2>3. IsFiniteSet(out')
    BY <2>2, FS_Singleton, FS_Subset
  <2>4. n.to = b /\ n.type = u /\ b \in Conn /\ n \in Told(b)
    BY <1>4, <2>1
  <2>. QED
    BY <1>1, <2>1, <2>2, <2>3, <2>4 DEF Talks
<1>. QED
  BY <1>3, <1>4

LEMMA ToldToIt ==
  ASSUME NEW c, NEW arg \in Code
  PROVE  \A type \in {"host-ready", "pair-request", "awaiting-approval", "pair-approve", "pair-reject",
                      "snapshot-request", "snapshot-complete", "error"} :
           [to |-> c, type |-> type, arg |-> arg] \in Told(c)
  BY DEF Told

\* The relay closes whom it has told something last.
LEMMA Closes ==
  ASSUME RelayInv, NEW S, \A m \in S : m.to \in Conn, link' = Relay!Closed(S)
  PROVE  LinksTurn /\ NoneCloses /\ \A m \in S : link'[m.to] # "open"
<1>1. link \in [Conn -> {"idle", "open", "closing", "closed"}]
  BY DEF RelayInv, Relay!TypeOK, Relay!Link
<1>2. \A c \in Conn : link'[c] = IF link[c] = "open" /\ \E m \in S : m.to = c THEN "closing" ELSE link[c]
  BY DEF Relay!Closed
<1>. QED
  BY <1>1, <1>2 DEF LinksTurn, NoneCloses

LEMMA TellLast ==
  ASSUME RelayInv, NEW a \in Conn \cup {NoConn}, NEW b \in Conn \cup {NoConn}, a # NoConn => a # b,
         NEW t \in {"error", "pair-reject"}, NEW x \in Code, NEW y \in Code,
         Relay!SendAndClose(Relay!To(a, t, x) \cup Relay!To(b, "error", y))
  PROVE  Talks /\ NoNews /\ NoRequest /\ LinksTurn /\ NoneCloses
<1>. DEFINE S == Relay!To(a, t, x) \cup Relay!To(b, "error", y)
<1>1. \A m \in S : m.to \in Conn
  BY DEF Relay!To
<1>2. Relay!Send(S) /\ link' = Relay!Closed(S)
  BY DEF Relay!SendAndClose
<1>. HIDE DEF S
<1>3. LinksTurn /\ NoneCloses /\ \A m \in S : link'[m.to] # "open"
  BY <1>1, <1>2, Closes
<1>4. /\ a # NoConn => [to |-> a, type |-> t, arg |-> x] \in Told(a)
      /\ b # NoConn => [to |-> b, type |-> "error", arg |-> y] \in Told(b)
  BY ToldToIt
<1>5. Talks /\ \A m \in out' : m.type \in {t, "error"}
  BY <1>2, <1>3, <1>4, TellTwo DEF S
<1>. QED
  BY <1>3, <1>5 DEF NoNews, NoRequest

LEMMA TellOneLast ==
  ASSUME RelayInv, NEW a \in Conn \cup {NoConn}, NEW t \in {"error", "pair-reject"}, NEW x \in Code,
         Relay!SendAndClose(Relay!To(a, t, x))
  PROVE  Talks /\ NoNews /\ NoRequest /\ LinksTurn /\ NoneCloses
<1>1. Relay!To(a, t, x) = Relay!To(a, t, x) \cup Relay!To(NoConn, "error", x)
  BY DEF Relay!To
<1>2. a # NoConn => a # NoConn
  OBVIOUS
<1>. QED
  BY <1>1, <1>2, TellLast

LEMMA NoHelloTurn == UNCHANGED <<shotUsed, hello>> => HelloTurn
  BY DEF HelloTurn

LEMMA RolesOf == RelayInv => host \in Conn \cup {NoConn} /\ viewer \in Conn \cup {NoConn} /\ (host # NoConn => host # viewer)
  BY DEF RelayInv, Relay!TypeOK

LEMMA EndByHostFaultTurn ==
  ASSUME RelayInv, NEW code \in Code, Relay!EndByHostFault(code)
  PROVE  Talks /\ NoNews /\ NoRequest /\ LinksTurn /\ NoneCloses /\ Ends
<1>1. Ends
  BY DEF Relay!EndByHostFault, Relay!Terminate, Relay!pairing, Ends
<1>2. Relay!SendAndClose(Relay!To(host, "error", code) \cup Relay!To(viewer, "error", "host-offline"))
  BY DEF Relay!EndByHostFault, Relay!Error
<1>3. "host-offline" \in Code
  BY DEF Code
<1>. QED
  BY <1>1, <1>2, <1>3, RolesOf, TellLast

LEMMA ExpiryTurn ==
  ASSUME RelayInv, Relay!EndBySessionExpired
  PROVE  Talks /\ NoNews /\ NoRequest /\ LinksTurn /\ NoneCloses /\ Ends
<1>1. Ends
  BY DEF Relay!EndBySessionExpired, Relay!Terminate, Relay!pairing, Ends
<1>2. Relay!SendAndClose(Relay!To(host, "error", "session-expired") \cup Relay!To(viewer, "error", "session-expired"))
  BY DEF Relay!EndBySessionExpired, Relay!Error
<1>3. "session-expired" \in Code
  BY DEF Code
<1>. QED
  BY <1>1, <1>2, <1>3, RolesOf, TellLast

LEMMA RejectViewerTurn ==
  ASSUME RelayInv, NEW code \in Code, Relay!RejectViewerOnly(code)
  PROVE  Talks /\ NoNews /\ NoRequest /\ LinksTurn /\ NoneCloses /\ ViewerGoes
<1>1. ViewerGoes
  BY DEF Relay!RejectViewerOnly, Relay!pairing, ViewerGoes
<1>2. Relay!SendAndClose(Relay!To(viewer, "error", code))
  BY DEF Relay!RejectViewerOnly, Relay!Error
<1>. QED
  BY <1>1, <1>2, RolesOf, TellOneLast

LEMMA ViolateTurn ==
  ASSUME RelayInv, NEW c \in Conn, NEW code \in Code, Relay!Violate(c, code)
  PROVE  /\ Talks /\ NoNews /\ NoRequest /\ LinksTurn /\ NoneCloses /\ (ViewerGoes \/ Ends)
         /\ c = host => Ends
  BY EndByHostFaultTurn, RejectViewerTurn DEF Relay!Violate

-----------------------------------------------------------------------------
(* The turns of the relay, one by one                                       *)

LEMMA WaitsTurn ==
  ASSUME RelayInv, NEW c \in Conn, Relay!PreAuthTimeout(c)
  PROVE  RelayTurn /\ NoRequest /\ NoneCloses
<1>1. Relay!SendAndClose(Relay!To(c, "error", "protocol-violation")) /\ "protocol-violation" \in Code
  BY DEF Relay!PreAuthTimeout, Relay!Error, Code
<1>2. Talks /\ NoNews /\ NoRequest /\ LinksTurn /\ NoneCloses
  BY <1>1, TellOneLast
<1>3. Keeps
  BY DEF Relay!PreAuthTimeout, Relay!slots, Relay!pairing, Keeps
<1>4. HelloTurn
  BY DEF Relay!PreAuthTimeout, Relay!Listening, HelloTurn, RelayInv, Relay!TypeOK
<1>. QED
  BY <1>2, <1>3, <1>4 DEF RelayTurn, RolesTurn

LEMMA ExpiresTurn ==
  ASSUME RelayInv, NEW t \in Relay!Timer, Relay!TimerFires(t)
  PROVE  RelayTurn /\ NoRequest /\ NoneCloses
<1>1. HelloTurn
  BY NoHelloTurn DEF Relay!TimerFires
<1>2. CASE ended
  <2>1. out' = {} /\ Keeps /\ LinksTurn /\ NoneCloses
    BY <1>2 DEF Relay!TimerFires, Relay!slots, Relay!pairing, Keeps, LinksTurn, NoneCloses
  <2>. QED
    BY <1>1, <2>1, TellNothing DEF RelayTurn, RolesTurn
<1>3. CASE ~ended
  <2>1. Relay!EndBySessionExpired
    BY <1>3 DEF Relay!TimerFires
  <2>. QED
    BY <1>1, <2>1, ExpiryTurn DEF RelayTurn, RolesTurn
<1>. QED
  BY <1>2, <1>3

LEMMA EvictTurn ==
  ASSUME RelayInv, Relay!Evict
  PROVE  RelayTurn /\ NoRequest /\ NoneCloses /\ Forgets
<1>1. Forgets
  BY DEF Relay!Evict, Relay!sockets, Relay!Listening, RelayInv, Relay!TypeOK, Relay!Link, Forgets
<1>2. Talks /\ NoRequest
  BY <1>1, TellNothing DEF Forgets
<1>3. LinksTurn /\ NoneCloses /\ HelloTurn
  BY <1>1 DEF Forgets, LinksTurn, NoneCloses, HelloTurn
<1>. QED
  BY <1>1, <1>2, <1>3 DEF RelayTurn, RolesTurn

LEMMA SocketClosedTurn ==
  ASSUME RelayInv, NEW c \in Conn, Relay!SocketClosed(c)
  PROVE  /\ RelayTurn /\ NoRequest /\ (Keeps \/ ViewerGoes \/ Ends) /\ NoNews
         /\ link'[c] = "closed"
         /\ \A d \in Conn : d # c /\ link'[d] = "closed" => link[d] = "closed"
         /\ c = host /\ ~ended => Ends
<1>1. HelloTurn
  BY NoHelloTurn DEF Relay!SocketClosed
<1>2. link \in [Conn -> {"idle", "open", "closing", "closed"}] /\ Relay!Listening(c)
  BY DEF RelayInv, Relay!TypeOK, Relay!Link, Relay!SocketClosed
<1>3. CASE c = host /\ ~ended
  <2>. DEFINE S == Relay!To(viewer, "error", "host-offline")
  <2>1. Relay!Send(S) /\ link' = [Relay!Closed(S) EXCEPT ![c] = "closed"]
    BY <1>3 DEF Relay!SocketClosed, Relay!Error
  <2>2. \A d \in Conn : link'[d] = IF d = c THEN "closed"
                                   ELSE IF link[d] = "open" /\ \E m \in S : m.to = d THEN "closing" ELSE link[d]
    BY <2>1 DEF Relay!Closed
  <2>3. \A m \in S : m.to \in Conn /\ link'[m.to] # "open"
    BY <2>2, RolesOf DEF Relay!To
  <2>4. LinksTurn /\ link'[c] = "closed" /\ \A d \in Conn : d # c /\ link'[d] = "closed" => link[d] = "closed"
    BY <1>2, <2>2 DEF LinksTurn, Relay!Listening
  <2>5. S = Relay!To(viewer, "error", "host-offline")
    OBVIOUS
  <2>6. viewer # NoConn => [to |-> viewer, type |-> "error", arg |-> "host-offline"] \in Told(viewer)
    BY ToldToIt DEF Code
  <2>. HIDE DEF S
  <2>7. Talks /\ \A m \in out' : m.type \in {"error", "error"}
    BY <2>1, <2>3, <2>5, <2>6, RolesOf, TellOne
  <2>8. Ends
    BY <1>3 DEF Relay!SocketClosed, Relay!Terminate, Relay!pairing, Ends
  <2>. QED
    BY <1>1, <2>4, <2>7, <2>8 DEF RelayTurn, RolesTurn, NoNews, NoRequest
<1>4. CASE ~(c = host /\ ~ended)
  <2>1. /\ out' = {} /\ link' = [link EXCEPT ![c] = "closed"]
        /\ Keeps \/ ViewerGoes
    BY <1>4 DEF Relay!SocketClosed, Relay!pairing, Keeps, ViewerGoes
  <2>2. LinksTurn /\ link'[c] = "closed" /\ \A d \in Conn : d # c /\ link'[d] = "closed" => link[d] = "closed"
    BY <1>2, <2>1 DEF LinksTurn, Relay!Listening
  <2>. QED
    BY <1>1, <1>4, <2>1, <2>2, TellNothing DEF RelayTurn, RolesTurn
<1>. QED
  BY <1>3, <1>4

\* What an answer to a hello or a message is, when it closes the sender at most.
LEMMA RefuseTurn ==
  ASSUME RelayInv, NEW c \in Conn, NEW code \in Code, Relay!SendAndClose(Relay!Error(c, code)),
         UNCHANGED <<host, viewer, paired, ended, approved>>, HelloTurn
  PROVE  RelayTurn /\ NoRequest /\ NoneCloses
<1>1. Talks /\ NoNews /\ NoRequest /\ LinksTurn /\ NoneCloses
  BY TellOneLast DEF Relay!Error
<1>. QED
  BY <1>1 DEF RelayTurn, RolesTurn, Keeps

LEMMA HelloVerifiedTurn ==
  ASSUME RelayInv, NEW c \in Conn, Relay!HelloVerified(c)
  PROVE  RelayTurn /\ NoRequest /\ NoneCloses /\ UNCHANGED <<shotUsed, paired>>
<1>1. /\ UNCHANGED <<shotUsed, paired, approved, ended>> /\ hello[c] # Relay!NoHello
      /\ hello' = [hello EXCEPT ![c] = Relay!NoHello]
  BY DEF Relay!HelloVerified, Relay!pairing
<1>2. HelloTurn /\ hello'[c] = Relay!NoHello
  BY <1>1 DEF HelloTurn, RelayInv, Relay!TypeOK
<1>3. ASSUME NEW code \in Code, Relay!RefuseHello(c, code)
      PROVE  RelayTurn /\ NoRequest /\ NoneCloses
  BY <1>1, <1>2, <1>3, RefuseTurn DEF Relay!RefuseHello, Relay!slots
<1>4. {"invalid-token", "protocol-violation", "host-offline", "token-consumed"} \subseteq Code
  BY DEF Code
<1>5. link' = link => LinksTurn /\ NoneCloses
  BY DEF LinksTurn, NoneCloses
<1>6. CASE hello[c].role = "host"
  <2>1. Relay!HostHello(c)
    BY <1>6 DEF Relay!HelloVerified
  <2>2. CASE host # NoConn \/ ~hello[c].valid
    <3>1. \E code \in Code : Relay!RefuseHello(c, code)
      BY <1>4, <2>1, <2>2 DEF Relay!HostHello
    <3>. QED
      BY <1>1, <1>3, <3>1
  <2>3. CASE host = NoConn /\ hello[c].valid
    <3>1. /\ host' = c /\ UNCHANGED <<link, viewer>>
          /\ Relay!Send(Relay!To(c, "host-ready", "none"))
      BY <2>1, <2>3 DEF Relay!HostHello, Relay!Tell
    <3>2. Talks /\ \A m \in out' : m.to = c /\ m.type = "host-ready"
      <4>1. [to |-> c, type |-> "host-ready", arg |-> "none"] \in Told(c)
        BY ToldToIt DEF Code
      <4>2. PICK S : S = Relay!To(c, "host-ready", "none") /\ Relay!Send(S)
        BY <3>1
      <4>. QED
        BY <4>1, <4>2, TellOne
    <3>3. HostComes(c)
      BY <1>1, <1>2, <1>6, <2>3, <3>1, <3>2 DEF HostComes
    <3>4. NoRequest
      BY <3>2 DEF NoRequest
    <3>. QED
      BY <1>1, <1>2, <1>5, <3>1, <3>2, <3>3, <3>4 DEF RelayTurn, RolesTurn
  <2>. QED
    BY <2>2, <2>3
<1>7. CASE hello[c].role # "host"
  <2>1. Relay!ViewerHello(c) /\ hello[c].role = "viewer"
    BY <1>1, <1>7 DEF Relay!HelloVerified, RelayInv, Relay!TypeOK, Relay!Hello
  <2>2. CASE ~hello[c].valid \/ host = NoConn \/ tokenConsumed \/ viewer # NoConn
    <3>1. \E code \in Code : Relay!RefuseHello(c, code)
      BY <1>4, <2>1, <2>2 DEF Relay!ViewerHello
    <3>. QED
      BY <1>1, <1>3, <3>1
  <2>3. CASE hello[c].valid /\ host # NoConn /\ ~tokenConsumed /\ viewer = NoConn
    <3>. DEFINE S == Relay!To(host, "pair-request", "none") \cup Relay!To(c, "awaiting-approval", "none")
    <3>1. viewer' = c /\ UNCHANGED <<link, host>> /\ Relay!Send(S)
      BY <2>1, <2>3 DEF Relay!ViewerHello, Relay!TakeViewerSlot, Relay!Tell
    <3>2. host \in Conn /\ c # host /\ ~paired /\ host # NoConn
      BY <1>1, <2>3 DEF RelayInv, Relay!TypeOK
    <3>3. /\ [to |-> host, type |-> "pair-request", arg |-> "none"] \in Told(host)
          /\ [to |-> c, type |-> "awaiting-approval", arg |-> "none"] \in Told(c)
      BY ToldToIt DEF Code
    <3>4. /\ Talks
          /\ \A m \in out' : m.type \in {"pair-request", "awaiting-approval"}
          /\ link[host] = "open" => [to |-> host, type |-> "pair-request", arg |-> "none"] \in out'
      BY <3>1, <3>2, <3>3, TellTwo
    <3>5. ViewerComes(c)
      BY <1>1, <2>1, <3>1, <3>2, <3>4 DEF ViewerComes
    <3>6. NoRequest
      BY <3>4 DEF NoRequest
    <3>. QED
      BY <1>1, <1>2, <1>5, <3>1, <3>4, <3>5, <3>6 DEF RelayTurn, RolesTurn
  <2>. QED
    BY <2>2, <2>3
<1>. QED
  BY <1>6, <1>7

\* A message of a connection, its rate being no matter.
Heard(c, m) ==
  \/ Relay!ReceiveFirst(c, m)
  \/ Relay!ReceiveInTurn(c, m, TRUE)
  \/ Relay!ReceiveOutOfTurn(c, m, TRUE)
  \/ Relay!ReceiveSpent(c)
  \/ Relay!ReceiveAfterEnd(c)

\* What it does beyond a turn of the relay.
HeardOf(c, m) ==
  /\ m.type # "snapshot-request" => NoRequest
  /\ \A n \in out' : n.type = "snapshot-request" => n.to = host /\ paired
  /\ \A d \in Conn : hello'[d] \in {hello[d], Relay!NoHello} \/ (d = c /\ m.type = "hello" /\ hello'[d].role = m.role)
  /\ c = host /\ ~ended /\ m.type = "pair-approve" => paired' \/ ended'
  /\ c = host /\ ~ended /\ m.type = "pair-reject" => viewer' = NoConn

LEMMA FirstTurn ==
  ASSUME RelayInv, NEW c \in Conn, NEW m, Relay!ReceiveFirst(c, m)
  PROVE  RelayTurn /\ NoneCloses /\ HeardOf(c, m)
<1>1. /\ ~shotUsed[c] /\ shotUsed' = [shotUsed EXCEPT ![c] = TRUE] /\ c \notin {host, viewer}
      /\ link[c] \in {"open", "closing"}
      /\ UNCHANGED <<host, viewer, paired, ended, approved>>
  BY DEF Relay!ReceiveFirst, Relay!Listening, Relay!slots, Relay!pairing
<1>2. shotUsed \in [Conn -> BOOLEAN] /\ hello \in [Conn -> Relay!Hello \cup {Relay!NoHello}]
  BY DEF RelayInv, Relay!TypeOK
<1>3. CASE m.type = "hello" /\ m.cred # "malformed"
  <2>1. /\ hello' = [hello EXCEPT ![c] = [role |-> m.role, valid |-> m.cred = "good"]]
        /\ out' = {} /\ UNCHANGED link
    BY <1>3 DEF Relay!ReceiveFirst
  <2>2. HelloTurn
    BY <1>1, <1>2, <2>1 DEF HelloTurn
  <2>3. LinksTurn /\ NoneCloses
    BY <2>1 DEF LinksTurn, NoneCloses
  <2>4. HeardOf(c, m)
    BY <1>1, <1>2, <1>3, <2>1, TellNothing DEF HeardOf
  <2>. QED
    BY <1>1, <2>1, <2>2, <2>3, <2>4, TellNothing DEF RelayTurn, RolesTurn, Keeps
<1>4. CASE ~(m.type = "hello" /\ m.cred # "malformed")
  <2>1. Relay!SendAndClose(Relay!Error(c, Relay!FirstMessageFault(m))) /\ UNCHANGED hello
    BY <1>4 DEF Relay!ReceiveFirst
  <2>2. Relay!FirstMessageFault(m) \in Code
    BY DEF Relay!FirstMessageFault, Code
  <2>3. HelloTurn
    BY <1>1, <1>2, <2>1 DEF HelloTurn
  <2>4. RelayTurn /\ NoRequest /\ NoneCloses
    BY <1>1, <2>1, <2>2, <2>3, RefuseTurn
  <2>5. HeardOf(c, m)
    BY <1>1, <2>1, <2>4 DEF HeardOf, NoRequest
  <2>. QED
    BY <2>4, <2>5
<1>. QED
  BY <1>3, <1>4

LEMMA DeafTurn ==
  ASSUME RelayInv, NEW c \in Conn, NEW m, Relay!ReceiveSpent(c) \/ Relay!ReceiveAfterEnd(c)
  PROVE  RelayTurn /\ NoneCloses /\ HeardOf(c, m)
<1>1. UNCHANGED <<shotUsed, hello, host, viewer, paired, ended, approved>> /\ (c # host \/ ended)
  BY DEF Relay!ReceiveSpent, Relay!ReceiveAfterEnd, Relay!sockets, Relay!slots, Relay!pairing
<1>2. HelloTurn
  BY <1>1, NoHelloTurn
<1>3. RelayTurn /\ NoRequest /\ NoneCloses
  <2>1. CASE Relay!ReceiveSpent(c)
    <3>1. out' = {} /\ link' = link
      BY <2>1 DEF Relay!ReceiveSpent, Relay!sockets
    <3>. QED
      BY <1>1, <1>2, <3>1, TellNothing DEF RelayTurn, RolesTurn, Keeps, LinksTurn, NoneCloses
  <2>2. CASE Relay!ReceiveAfterEnd(c)
    <3>1. Relay!SendAndClose(Relay!Error(c, "session-expired")) /\ "session-expired" \in Code
      BY <2>2 DEF Relay!ReceiveAfterEnd, Code
    <3>. QED
      BY <1>1, <1>2, <3>1, RefuseTurn
  <2>. QED
    BY <2>1, <2>2
<1>. QED
  BY <1>1, <1>3 DEF HeardOf, NoRequest

LEMMA OutOfTurnTurn ==
  ASSUME RelayInv, NEW c \in Conn, NEW m, Relay!ReceiveOutOfTurn(c, m, TRUE)
  PROVE  RelayTurn /\ NoneCloses /\ HeardOf(c, m)
<1>1. Relay!Violate(c, "protocol-violation") /\ UNCHANGED <<shotUsed, hello>> /\ "protocol-violation" \in Code
  BY DEF Relay!ReceiveOutOfTurn, Relay!Accepted, Code
<1>2. /\ Talks /\ NoNews /\ NoRequest /\ LinksTurn /\ NoneCloses /\ (ViewerGoes \/ Ends)
      /\ c = host => Ends
  BY <1>1, ViolateTurn
<1>3. RelayTurn
  BY <1>1, <1>2, NoHelloTurn DEF RelayTurn, RolesTurn
<1>4. HeardOf(c, m)
  BY <1>1, <1>2 DEF HeardOf, NoRequest, Ends
<1>. QED
  BY <1>2, <1>3, <1>4

\* A turn that passes one message on.
LEMMA PassTurn ==
  ASSUME RelayInv, NEW b \in Conn \cup {NoConn}, NEW u, NEW y, Relay!Send(Relay!To(b, u, y)), u # "error",
         b # NoConn => [to |-> b, type |-> u, arg |-> y] \in Told(b),
         UNCHANGED <<link, shotUsed, hello>>
  PROVE  /\ Talks /\ LinksTurn /\ NoneCloses /\ HelloTurn
         /\ \A m \in out' : m.to = b /\ m.type = u
<1>1. PICK S : S = Relay!To(b, u, y) /\ Relay!Send(S)
  OBVIOUS
<1>2. Talks /\ \A m \in out' : m.to = b /\ m.type = u
  BY <1>1, TellOne
<1>. QED
  BY <1>2, NoHelloTurn DEF LinksTurn, NoneCloses

LEMMA InTurnTurn ==
  ASSUME RelayInv, NEW c \in Conn, NEW m, Relay!ReceiveInTurn(c, m, TRUE),
         m.type = "snapshot-manifest" => m.images \in Relay!Declared,
         m.type = "image-chunk" => m.chunk \in Relay!Chunk
  PROVE  RelayTurn /\ NoneCloses /\ HeardOf(c, m)
<1>1. UNCHANGED <<shotUsed, hello>> /\ ~ended /\ c \in {host, viewer} /\ ~Relay!OutOfTurn(c, m)
  BY DEF Relay!ReceiveInTurn, Relay!Accepted, Relay!Promoted
<1>2. viewer \in Conn \cup {NoConn} /\ host \in Conn \cup {NoConn} /\ (host # NoConn => host # viewer)
      /\ (host = NoConn => viewer = NoConn /\ ~paired) /\ c # NoConn
  BY <1>1, ConnAssumption DEF RelayInv, Relay!TypeOK
<1>3. CASE m.type = "pair-approve" /\ Relay!OnPairApprove
  <2>1. /\ paired' = TRUE /\ approved' = approved \cup {viewer} /\ UNCHANGED <<link, host, viewer, ended>>
        /\ Relay!Send(Relay!To(viewer, "pair-approve", "none"))
    BY <1>3 DEF Relay!OnPairApprove, Relay!Tell, Relay!slots
  <2>2. [to |-> viewer, type |-> "pair-approve", arg |-> "none"] \in Told(viewer)
    BY ToldToIt DEF Code
  <2>3. /\ Talks /\ LinksTurn /\ NoneCloses /\ HelloTurn
        /\ \A n \in out' : n.to = viewer /\ n.type = "pair-approve"
    BY <1>1, <1>2, <2>1, <2>2, PassTurn
  <2>4. viewer # NoConn /\ ~paired
    BY <1>1, <1>3 DEF Relay!OutOfTurn, Relay!ViewerWaiting, Relay!HostOnly
  <2>5. Approves
    BY <1>1, <1>2, <2>1, <2>3, <2>4 DEF Approves, Live
  <2>. QED
    BY <1>1, <1>3, <2>1, <2>3, <2>5 DEF RelayTurn, RolesTurn, HeardOf, NoRequest
<1>4. CASE m.type = "pair-reject" /\ Relay!OnPairReject
  <2>1. /\ viewer' = NoConn /\ UNCHANGED <<host, paired, approved, ended>>
        /\ Relay!SendAndClose(Relay!To(viewer, "pair-reject", "none"))
    BY <1>4 DEF Relay!OnPairReject, Relay!Tell, Relay!pairing
  <2>2. Talks /\ NoNews /\ NoRequest /\ LinksTurn /\ NoneCloses
    BY <1>2, <2>1, TellOneLast DEF Code
  <2>. QED
    BY <1>1, <1>4, <2>1, <2>2, NoHelloTurn DEF RelayTurn, RolesTurn, ViewerGoes, HeardOf, NoRequest
<1>5. CASE m.type = "snapshot-request" /\ Relay!OnSnapshotRequest
  <2>1. CASE ~paired
    <3>1. Relay!RejectViewerOnly("not-paired") /\ "not-paired" \in Code
      BY <1>5, <2>1 DEF Relay!OnSnapshotRequest, Code
    <3>2. Talks /\ NoNews /\ NoRequest /\ LinksTurn /\ NoneCloses /\ ViewerGoes
      BY <3>1, RejectViewerTurn
    <3>. QED
      BY <1>1, <1>5, <3>2, NoHelloTurn DEF RelayTurn, RolesTurn, HeardOf, NoRequest
  <2>2. CASE paired
    <3>1. /\ UNCHANGED <<link, host, viewer, paired, approved, ended>>
          /\ Relay!Send(Relay!To(host, "snapshot-request", "none"))
      BY <1>5, <2>2 DEF Relay!OnSnapshotRequest, Relay!Tell, Relay!slots, Relay!pairing
    <3>2. [to |-> host, type |-> "snapshot-request", arg |-> "none"] \in Told(host)
      BY ToldToIt DEF Code
    <3>3. /\ Talks /\ LinksTurn /\ NoneCloses /\ HelloTurn
          /\ \A n \in out' : n.to = host /\ n.type = "snapshot-request"
      BY <1>1, <1>2, <3>1, <3>2, PassTurn
    <3>. QED
      BY <1>1, <1>5, <2>2, <3>1, <3>3 DEF RelayTurn, RolesTurn, Keeps, NoNews, HeardOf
  <2>. QED
    BY <2>1, <2>2
<1>6. ASSUME m.type \in StoryType, NEW u, NEW y, Relay!Send(Relay!To(viewer, u, y)), u \in StoryType,
             [to |-> viewer, type |-> u, arg |-> y] \in Told(viewer),
             UNCHANGED <<link, host, viewer, paired, approved, ended>>
      PROVE  RelayTurn /\ NoneCloses /\ HeardOf(c, m)
  <2>0. u \notin {"error", "snapshot-request", "host-ready", "pair-request", "pair-approve"}
    BY <1>6 DEF StoryType
  <2>1. /\ Talks /\ LinksTurn /\ NoneCloses /\ HelloTurn
        /\ \A n \in out' : n.to = viewer /\ n.type = u
    BY <1>1, <1>2, <1>6, <2>0, PassTurn
  <2>. QED
    BY <1>1, <1>6, <2>0, <2>1 DEF RelayTurn, RolesTurn, Keeps, NoNews, NoRequest, HeardOf, StoryType
<1>7. CASE m.type = "snapshot-manifest" /\ Relay!OnSnapshotManifest(m.images)
  <2>1. /\ UNCHANGED <<link, host, viewer, paired, approved, ended>>
        /\ Relay!Send(Relay!To(viewer, "snapshot-manifest", m.images))
    BY <1>7 DEF Relay!OnSnapshotManifest, Relay!slots, Relay!pairing
  <2>2. [to |-> viewer, type |-> "snapshot-manifest", arg |-> m.images] \in Told(viewer)
    BY <1>7 DEF Told
  <2>. QED
    BY <1>6, <1>7, <2>1, <2>2 DEF StoryType
<1>8. CASE m.type = "image-chunk" /\ Relay!OnImageChunk(m.chunk)
  <2>1. CASE Relay!ChunkFault(m.chunk) # "none"
    <3>1. Relay!EndByHostFault(Relay!ChunkFault(m.chunk)) /\ Relay!ChunkFault(m.chunk) \in Code
      BY <1>8, <2>1 DEF Relay!OnImageChunk, Relay!ChunkFault, Code
    <3>2. Talks /\ NoNews /\ NoRequest /\ LinksTurn /\ NoneCloses /\ Ends
      BY <3>1, EndByHostFaultTurn
    <3>. QED
      BY <1>1, <1>8, <3>2, NoHelloTurn DEF RelayTurn, RolesTurn, HeardOf, NoRequest
  <2>2. CASE Relay!ChunkFault(m.chunk) = "none"
    <3>1. /\ UNCHANGED <<link, host, viewer, paired, approved, ended>>
          /\ Relay!Send(Relay!To(viewer, "image-chunk", m.chunk))
      BY <1>8, <2>2 DEF Relay!OnImageChunk, Relay!slots, Relay!pairing
    <3>2. [to |-> viewer, type |-> "image-chunk", arg |-> m.chunk] \in Told(viewer)
      BY <1>8 DEF Told
    <3>. QED
      BY <1>6, <1>8, <3>1, <3>2 DEF StoryType
  <2>. QED
    BY <2>1, <2>2
<1>9. CASE m.type = "snapshot-complete" /\ Relay!OnSnapshotComplete
  <2>1. /\ UNCHANGED <<link, host, viewer, paired, approved, ended>>
        /\ Relay!Send(Relay!To(viewer, "snapshot-complete", "none"))
    BY <1>9 DEF Relay!OnSnapshotComplete, Relay!Tell, Relay!slots, Relay!pairing
  <2>2. [to |-> viewer, type |-> "snapshot-complete", arg |-> "none"] \in Told(viewer)
    BY ToldToIt DEF Code
  <2>. QED
    BY <1>6, <1>9, <2>1, <2>2 DEF StoryType
<1>. QED
  BY <1>3, <1>4, <1>5, <1>7, <1>8, <1>9 DEF Relay!ReceiveInTurn

LEMMA HeardTurn ==
  ASSUME RelayInv, NEW c \in Conn, NEW m, Heard(c, m),
         m.type = "snapshot-manifest" => m.images \in Relay!Declared,
         m.type = "image-chunk" => m.chunk \in Relay!Chunk
  PROVE  RelayTurn /\ NoneCloses /\ HeardOf(c, m)
  BY FirstTurn, DeafTurn, OutOfTurnTurn, InTurnTurn DEF Heard

-----------------------------------------------------------------------------
(* What the tab sends of a story                                            *)

\* Induction: the sets 1 .. n are finite, and the strict order of finite sets is well founded.
LEMMA LeastNumber ==
  ASSUME NEW B \in SUBSET Nat, B # {}
  PROVE  \E n \in B : \A m \in B : n <= m
<1>. DEFINE T == {1 .. n : n \in B}
<1>1. T \subseteq FiniteSubsetsOf(Nat) /\ T # {}
  <2>1. \A n \in B : IsFiniteSet(1 .. n) /\ 1 .. n \subseteq Nat
    BY FS_Interval
  <2>. QED
    BY <2>1 DEF FiniteSubsetsOf
<1>2. PICK x \in T : \A y \in T : ~ (<<y, x>> \in StrictSubsetOrdering(Nat))
  BY <1>1, FS_StrictSubsetOrderingWellFounded, WFMin
<1>3. PICK n \in B : x = 1 .. n
  OBVIOUS
<1>4. ASSUME NEW m \in B, m < n
      PROVE  FALSE
  <2>1. 1 .. m \in T /\ 1 .. m \subseteq 1 .. n /\ 1 .. m # 1 .. n
    BY <1>4
  <2>2. <<1 .. m, x>> \in StrictSubsetOrdering(Nat)
    BY <1>3, <2>1 DEF StrictSubsetOrdering
  <2>. QED
    BY <1>2, <2>1, <2>2
<1>. QED
  BY <1>4

LEMMA Flattened ==
  ASSUME NEW S, NEW n \in Nat, NEW s \in [1 .. n -> Seq(S)]
  PROVE  FlattenSeq(s) \in Seq(S)
<1>1. Len(s) = n /\ s \in Seq(Seq(S))
  OBVIOUS
<1>2. CASE n = 0
  <2>1. FlattenSeq(s) = s
    BY <1>1, <1>2 DEF FlattenSeq
  <2>2. s \in Seq(S)
    BY <1>2
  <2>. QED
    BY <2>1, <2>2
<1>3. CASE n # 0
  <2>. DEFINE Step(f, i) == IF i = 1 THEN s[i] ELSE f[i - 1] \o s[i]
              Good(j)    == \E f \in [1 .. j -> Seq(S)] : \A i \in 1 .. j : f[i] = Step(f, i)
  <2>1. Good(n)
    <3>. DEFINE B == {k \in 1 .. n : ~Good(k)}
    <3>1. ASSUME NEW k \in 1 .. n, \A m \in 1 .. k - 1 : Good(m)
          PROVE  Good(k)
      <4>1. CASE k = 1
        <5>1. PICK f : f = [i \in 1 .. 1 |-> s[1]]
          OBVIOUS
        <5>2. f \in [1 .. 1 -> Seq(S)] /\ f[1] = s[1]
          BY <1>3, <5>1
        <5>3. \A i \in 1 .. 1 : f[i] = Step(f, i)
          BY <5>2
        <5>. QED
          BY <4>1, <5>2, <5>3
      <4>2. CASE k # 1
        <5>1. Good(k - 1)
          <6>1. k - 1 \in 1 .. k - 1
            BY <4>2
          <6>. HIDE DEF Good
          <6>. QED
            BY <3>1, <6>1
        <5>2. PICK g \in [1 .. k - 1 -> Seq(S)] : \A i \in 1 .. k - 1 : g[i] = Step(g, i)
          BY <5>1
        <5>3. PICK t : t = g[k - 1] \o s[k]
          OBVIOUS
        <5>4. t \in Seq(S)
          <6>1. g[k - 1] \in Seq(S) /\ s[k] \in Seq(S)
            BY <4>2, <5>2
          <6>. QED
            BY <5>3, <6>1
        <5>5. PICK f : f = [i \in 1 .. k |-> IF i < k THEN g[i] ELSE t]
          OBVIOUS
        <5>6. f \in [1 .. k -> Seq(S)] /\ f[k] = t /\ \A i \in 1 .. k - 1 : f[i] = g[i]
          BY <5>4, <5>5
        <5>7. ASSUME NEW i \in 1 .. k
              PROVE  f[i] = Step(f, i)
          <6>1. CASE i = k
            <7>1. f[k - 1] = g[k - 1]
              BY <4>2, <5>6
            <7>. QED
              BY <4>2, <5>3, <5>6, <6>1, <7>1, Zenon
          <6>2. CASE i # k
            <7>1. i \in 1 .. k - 1 /\ (i # 1 => i - 1 \in 1 .. k - 1)
              BY <6>2
            <7>2. f[i] = g[i] /\ g[i] = Step(g, i) /\ (i # 1 => f[i - 1] = g[i - 1])
              BY <5>2, <5>6, <7>1
            <7>. QED
              BY <7>2, Zenon
          <6>. QED
            BY <6>1, <6>2
        <5>. QED
          BY <5>6, <5>7
      <4>. QED
        BY <4>1, <4>2
    <3>. HIDE DEF Good
    <3>2. SUFFICES ASSUME B # {} PROVE FALSE
      BY <1>3
    <3>3. PICK k \in B : \A m \in B : k <= m
      <4>1. B \subseteq Nat
        OBVIOUS
      <4>. HIDE DEF B
      <4>. QED
        BY <3>2, <4>1, LeastNumber
    <3>. QED
      BY <3>1, <3>3
  <2>2. PICK f \in [1 .. n -> Seq(S)] : \A i \in 1 .. n : f[i] = Step(f, i)
    BY <2>1
  <2>3. f = [i \in 1 .. n |-> Step(f, i)]
    BY <2>2
  <2>4. PICK g : /\ g = [i \in 1 .. n |-> IF i = 1 THEN s[i] ELSE g[i - 1] \o s[i]]
                 /\ FlattenSeq(s) = g[n]
    BY <1>1, <1>3, <2>3 DEF FlattenSeq
  <2>. DEFINE B == {k \in 1 .. n : g[k] \notin Seq(S)}
  <2>5. SUFFICES ASSUME g[n] \notin Seq(S) PROVE FALSE
    BY <2>4, Zenon
  <2>6. PICK k \in B : \A m \in B : k <= m
    <3>1. B \subseteq Nat /\ n \in B
      BY <1>3, <2>5
    <3>. HIDE DEF B
    <3>. QED
      BY <3>1, LeastNumber
  <2>7. k \in 1 .. n /\ g[k] \notin Seq(S) /\ (k # 1 => g[k - 1] \in Seq(S))
    <3>1. k # 1 => k - 1 \in 1 .. n /\ k - 1 \notin B
      BY <2>6
    <3>. QED
      BY <2>6, <3>1
  <2>8. s[k] \in Seq(S) /\ g[k] = IF k = 1 THEN s[k] ELSE g[k - 1] \o s[k]
    <3>1. s[k] \in Seq(S)
      BY <2>7
    <3>2. \A i \in 1 .. n : g[i] = IF i = 1 THEN s[i] ELSE g[i - 1] \o s[i]
      BY <2>4
    <3>. QED
      BY <2>7, <3>1, <3>2
  <2>9. g[k - 1] \in Seq(S) => g[k - 1] \o s[k] \in Seq(S)
    BY <2>8
  <2>. QED
    BY <2>7, <2>8, <2>9
<1>. QED
  BY <1>2, <1>3

LEMMA PiecesFit ==
  ASSUME NEW n \in 1 .. MaxImageBytes, NEW k \in 1 .. Tab!Pieces(n)
  PROVE  /\ Tab!Pieces(n) \in 1 .. n
         /\ Tab!PieceLen(n, k) \in 1 .. ChunkBytes
<1>1. ChunkBytes \in Nat \ {0} /\ MaxImageBytes \in Nat
  BY SnapshotAssumption
<1>2. PICK q : q = (n + ChunkBytes - 1) \div ChunkBytes
  OBVIOUS
<1>3. q \in Int /\ q * ChunkBytes <= n + ChunkBytes - 1 /\ n + ChunkBytes - 1 < q * ChunkBytes + ChunkBytes
  BY <1>1, <1>2
<1>4. Tab!Pieces(n) = q
  BY <1>1, <1>2 DEF Tab!Pieces
<1>5. q >= 1
  <2>1. q <= 0 => q * ChunkBytes <= 0
    BY <1>1, <1>3
  <2>. QED
    BY <1>1, <1>3, <2>1
<1>6. q <= n
  <2>1. (q - 1) * ChunkBytes >= q - 1
    BY <1>1, <1>3, <1>5
  <2>2. (q - 1) * ChunkBytes = q * ChunkBytes - ChunkBytes
    BY <1>1, <1>3
  <2>3. q * ChunkBytes \in Int
    BY <1>1, <1>3
  <2>. QED
    BY <1>1, <1>3, <2>1, <2>2, <2>3
<1>7. Tab!PieceLen(n, k) \in 1 .. ChunkBytes
  <2>1. (q - 1) * ChunkBytes = q * ChunkBytes - ChunkBytes /\ q * ChunkBytes \in Int
    BY <1>1, <1>3
  <2>2. Tab!PieceLen(n, k) = IF k < q THEN ChunkBytes ELSE n - (q - 1) * ChunkBytes
    BY <1>4 DEF Tab!PieceLen
  <2>. QED
    BY <1>1, <1>3, <2>1, <2>2
<1>. QED
  BY <1>3, <1>4, <1>5, <1>6, <1>7

LEMMA SameMessages ==
  /\ \A t : Plain(t) = Tab!Plain(t) /\ Plain(t) = Relay!Plain(t) /\ Plain(t) = Phones!Plain(t)
  /\ \A r, c : /\ HelloMsg(r, c) = Tab!HelloMsg(r, c) /\ HelloMsg(r, c) = Relay!HelloMsg(r, c)
               /\ HelloMsg(r, c) = Phones!HelloMsg(r, c)
  /\ \A s : ManifestMsg(s) = Tab!ManifestMsg(s) /\ ManifestMsg(s) = Relay!ManifestMsg(s)
  /\ \A k : ChunkMsg(k) = Tab!ChunkMsg(k) /\ ChunkMsg(k) = Relay!ChunkMsg(k)
  BY DEF Plain, HelloMsg, ManifestMsg, ChunkMsg, Tab!Plain, Tab!HelloMsg, Tab!ManifestMsg, Tab!ChunkMsg,
     Relay!Plain, Relay!HelloMsg, Relay!ManifestMsg, Relay!ChunkMsg, Phones!Plain, Phones!HelloMsg

LEMMA TransferIsSaid ==
  ASSUME NEW s \in Snapshot
  PROVE  Tab!Transfer(s) \in Seq(TabSays)
<1>. DEFINE sent == {i \in Image : s[i] > 0}
            ids  == SetToSeq(sent)
            all  == [k \in DOMAIN ids |-> Tab!Chunks(ids[k], s[ids[k]])]
<1>1. s \in [Image -> 0 .. MaxImageBytes] /\ IsFiniteSet(Image) /\ ChunkBytes \in Nat \ {0} /\ MaxImageBytes \in Nat
  BY SnapshotAssumption
<1>2. IsFiniteSet(sent) /\ Cardinality(sent) \in Nat
  BY <1>1, FS_Subset, FS_CardinalityType
<1>3. ids \in [1 .. Cardinality(sent) -> sent]
  <2>1. PICK f : f \in Bijection(1 .. Cardinality(sent), sent)
    BY <1>2, FS_CardinalityType DEF ExistsBijection
  <2>2. f \in [1 .. Cardinality(sent) -> sent] /\ IsInjective(f)
    BY <2>1 DEF Bijection, Injection, Surjection, IsInjective
  <2>. QED
    BY <2>2 DEF SetToSeq
<1>4. ASSUME NEW i \in sent
      PROVE  Tab!Chunks(i, s[i]) \in Seq(TabSays)
  <2>1. s[i] \in 1 .. MaxImageBytes
    BY <1>1
  <2>2. PICK q : q = Tab!Pieces(s[i])
    OBVIOUS
  <2>3. q \in Nat
    BY <1>1, <2>1, <2>2 DEF Tab!Pieces
  <2>4. ASSUME NEW k \in 1 .. q
        PROVE  ChunkMsg([id |-> i, index |-> k - 1, total |-> q, bytes |-> Tab!PieceLen(s[i], k)]) \in TabSays
    <3>1. q \in 1 .. MaxImageBytes /\ Tab!PieceLen(s[i], k) \in 1 .. ChunkBytes
      BY <1>1, <2>1, <2>2, PiecesFit
    <3>2. [id |-> i, index |-> k - 1, total |-> q, bytes |-> Tab!PieceLen(s[i], k)] \in Relay!Chunk
      BY <1>1, <2>3, <3>1 DEF Relay!Chunk
    <3>. QED
      BY <3>2 DEF TabSays
  <2>5. Tab!Chunks(i, s[i]) = [k \in 1 .. q |-> ChunkMsg([id |-> i, index |-> k - 1, total |-> q, bytes |-> Tab!PieceLen(s[i], k)])]
    BY <2>2, SameMessages DEF Tab!Chunks
  <2>. QED
    BY <2>3, <2>4, <2>5
<1>5. all \in [1 .. Cardinality(sent) -> Seq(TabSays)]
  BY <1>3, <1>4
<1>6. FlattenSeq(all) \in Seq(TabSays)
  BY <1>2, <1>5, Flattened
<1>7. /\ ManifestMsg(s) \in TabSays /\ Plain("snapshot-complete") \in TabSays
      /\ Tab!Transfer(s) = <<ManifestMsg(s)>> \o FlattenSeq(all) \o <<Plain("snapshot-complete")>>
  <2>1. ManifestMsg(s) \in TabSays /\ Plain("snapshot-complete") \in TabSays
    BY <1>1 DEF TabSays, Relay!Declared
  <2>2. Tab!SetToSeq(sent) = ids
    <3>1. Tab!Cardinality(sent) = Cardinality(sent)
      BY DEF Tab!Cardinality, Cardinality
    <3>2. \A f : Tab!IsInjective(f) <=> IsInjective(f)
      BY DEF Tab!IsInjective, IsInjective
    <3>. QED
      BY <3>1, <3>2 DEF Tab!SetToSeq, SetToSeq
  <2>3. Tab!FlattenSeq(all) = FlattenSeq(all)
    BY DEF Tab!FlattenSeq, FlattenSeq
  <2>. QED
    BY <2>1, <2>2, <2>3, SameMessages DEF Tab!Transfer
<1>. HIDE DEF all
<1>8. \A m \in TabSays : <<m>> \in Seq(TabSays)
  OBVIOUS
<1>9. \A t, u \in Seq(TabSays) : t \o u \in Seq(TabSays)
  OBVIOUS
<1>. QED
  BY <1>6, <1>7, <1>8, <1>9

\* What the clients send is of the relay's messages.
LEMMA SentTypes ==
  ASSUME NEW m, m \in OfTab \/ m \in OfPhone
  PROVE  /\ m \in Relay!Message \cup {Close}
         /\ m.type = "close" <=> m = Close
         /\ m.type = "snapshot-manifest" => m.images \in Relay!Declared
         /\ m.type = "image-chunk" => m.chunk \in Relay!Chunk
         /\ m \in OfTab => m.type # "snapshot-request" /\ (m.type = "hello" => m.role = "host")
         /\ m \in OfPhone => m.type \in {"hello", "snapshot-request", "close"} /\ (m.type = "hello" => m.role = "viewer")
<1>1. /\ HelloMsg("viewer", "good") \in Relay!Message /\ HelloMsg("host", "good") \in Relay!Message
      /\ Plain("snapshot-request") \in Relay!Message /\ Plain("pair-approve") \in Relay!Message
      /\ Plain("pair-reject") \in Relay!Message /\ Plain("snapshot-complete") \in Relay!Message
      /\ \A s \in Relay!Declared : ManifestMsg(s) \in Relay!Message
      /\ \A k \in Relay!Chunk : ChunkMsg(k) \in Relay!Message
  BY SameMessages DEF Relay!Message, Relay!PlainType, Relay!BadFrame
<1>2. m \in Relay!Message \cup {Close}
  BY <1>1 DEF OfTab, OfPhone, TabSays, PhoneSays
<1>3. /\ m.type = "close" <=> m = Close
      /\ m.type = "snapshot-manifest" => m.images \in Relay!Declared
      /\ m.type = "image-chunk" => m.chunk \in Relay!Chunk
      /\ m \in OfTab => m.type # "snapshot-request" /\ (m.type = "hello" => m.role = "host")
      /\ m \in OfPhone => m.type \in {"hello", "snapshot-request", "close"} /\ (m.type = "hello" => m.role = "viewer")
  BY DEF OfTab, OfPhone, TabSays, PhoneSays, HelloMsg, Plain, ManifestMsg, ChunkMsg, Close
<1>. QED
  BY <1>2, <1>3

-----------------------------------------------------------------------------
(* The steps of the system                                                  *)

\* The relay takes a turn: on its own, for a message, or for the end of a connection.
HelloFalls == \A d \in Conn : hello'[d] \in {hello[d], Relay!NoHello}
UpRests == up' = up /\ NoneCloses /\ NoRequest /\ HelloFalls
UpHeard(c) ==
  /\ up[c] # <<>> /\ Head(up[c]) # Close /\ up' = [up EXCEPT ![c] = Tail(@)]
  /\ NoneCloses /\ HeardOf(c, Head(up[c]))
UpEnds(c) ==
  /\ up[c] # <<>> /\ Head(up[c]) = Close /\ up' = [up EXCEPT ![c] = <<>>]
  /\ NoRequest /\ HelloFalls
  /\ link'[c] = "closed" /\ \A d \in Conn : d # c /\ link'[d] = "closed" => link[d] = "closed"
  /\ (Keeps \/ ViewerGoes \/ Ends) /\ NoNews
  /\ c = host /\ ~ended => Ends

RelayStep ==
  /\ FromRelay /\ TabRests /\ PhonesRest /\ RelayTurn
  /\ UpRests \/ \E c \in Conn : UpHeard(c) \/ UpEnds(c)

RelayActs ==
  \/ \E c \in Conn : RelayHears(c) \/ RelayVerifies(c) \/ RelayWaits(c)
  \/ \E t \in Relay!Timer : RelayExpires(t)
  \/ RelayForgets

\* The first message of a channel.
LEMMA HeadUp ==
  ASSUME ChannelInv, NEW c \in Conn, up[c] # <<>>
  PROVE  /\ Head(up[c]) = up[c][1] /\ 1 \in DOMAIN up[c]
         /\ c = HostConn => Head(up[c]) \in OfTab
         /\ c # HostConn => Head(up[c]) \in OfPhone
<1>. DEFINE S == IF c = HostConn THEN OfTab ELSE OfPhone
<1>1. up[c] \in Seq(S)
  BY DEF ChannelInv
<1>2. Head(up[c]) = up[c][1] /\ 1 \in DOMAIN up[c] /\ Head(up[c]) \in S
  BY <1>1
<1>. QED
  BY <1>2

LEMMA RelayTakesTurn ==
  ASSUME PreviewInv, RelayActs
  PROVE  RelayStep /\ Relay!Next
<1>0. RelayInv /\ ChannelInv
  BY OfRelay DEF PreviewInv
<1>1. ASSUME NEW c \in Conn, RelayHears(c)
      PROVE  RelayStep /\ Relay!Next
  <2>. DEFINE m == Head(up[c])
  <2>1. FromRelay /\ TabRests /\ PhonesRest /\ up[c] # <<>>
    BY <1>1 DEF RelayHears, AtRelay
  <2>2. m \in OfTab \/ m \in OfPhone
    BY <1>0, <2>1, HeadUp
  <2>3. CASE m = Close /\ Relay!SocketClosed(c) /\ up' = [up EXCEPT ![c] = <<>>]
    <3>1. UNCHANGED hello
      BY <2>3 DEF Relay!SocketClosed
    <3>2. /\ RelayTurn /\ NoRequest /\ (Keeps \/ ViewerGoes \/ Ends) /\ NoNews
          /\ link'[c] = "closed"
          /\ \A d \in Conn : d # c /\ link'[d] = "closed" => link[d] = "closed"
          /\ c = host /\ ~ended => Ends
      BY <1>0, <2>3, SocketClosedTurn
    <3>3. UpEnds(c)
      BY <2>1, <2>3, <3>1, <3>2 DEF UpEnds, HelloFalls
    <3>4. Relay!Next
      BY <2>3 DEF Relay!Next
    <3>. QED
      BY <2>1, <3>2, <3>3, <3>4 DEF RelayStep
  <2>4. CASE m # Close /\ Heard(c, m) /\ up' = [up EXCEPT ![c] = Tail(@)]
    <3>1. RelayTurn /\ NoneCloses /\ HeardOf(c, m)
      BY <1>0, <2>2, <2>4, HeardTurn, SentTypes
    <3>2. UpHeard(c)
      BY <2>1, <2>4, <3>1 DEF UpHeard
    <3>3. m \in Relay!Message
      BY <2>2, <2>4, SentTypes
    <3>4. Relay!Next
      BY <2>4, <3>3 DEF Heard, Relay!Next, Relay!Receive
    <3>. QED
      BY <2>1, <3>1, <3>2, <3>4 DEF RelayStep
  <2>. QED
    BY <1>1, <2>3, <2>4 DEF RelayHears, Heard
<1>2. ASSUME NEW c \in Conn, RelayVerifies(c)
      PROVE  RelayStep /\ Relay!Next
  <2>1. Relay!HelloVerified(c) /\ FromRelay /\ TabRests /\ PhonesRest /\ UNCHANGED up
    BY <1>2 DEF RelayVerifies, AtRelay
  <2>2. RelayTurn /\ NoRequest /\ NoneCloses /\ UNCHANGED shotUsed
    BY <1>0, <2>1, HelloVerifiedTurn
  <2>3. HelloFalls
    BY <2>2 DEF RelayTurn, HelloTurn, HelloFalls
  <2>. QED
    BY <2>1, <2>2, <2>3 DEF RelayStep, UpRests, Relay!Next
<1>3. ASSUME NEW c \in Conn, RelayWaits(c)
      PROVE  RelayStep /\ Relay!Next
  <2>1. Relay!PreAuthTimeout(c) /\ FromRelay /\ TabRests /\ PhonesRest /\ UNCHANGED up
    BY <1>3 DEF RelayWaits, AtRelay
  <2>2. RelayTurn /\ NoRequest /\ NoneCloses
    BY <1>0, <2>1, WaitsTurn
  <2>3. HelloFalls
    BY <2>1 DEF Relay!PreAuthTimeout, HelloFalls
  <2>. QED
    BY <2>1, <2>2, <2>3 DEF RelayStep, UpRests, Relay!Next
<1>4. ASSUME NEW t \in Relay!Timer, RelayExpires(t)
      PROVE  RelayStep /\ Relay!Next
  <2>1. Relay!TimerFires(t) /\ FromRelay /\ TabRests /\ PhonesRest /\ UNCHANGED up
    BY <1>4 DEF RelayExpires, AtRelay
  <2>2. RelayTurn /\ NoRequest /\ NoneCloses
    BY <1>0, <2>1, ExpiresTurn
  <2>3. HelloFalls
    BY <2>1 DEF Relay!TimerFires, HelloFalls
  <2>. QED
    BY <2>1, <2>2, <2>3 DEF RelayStep, UpRests, Relay!Next
<1>5. ASSUME RelayForgets
      PROVE  RelayStep /\ Relay!Next
  <2>1. Relay!Evict /\ FromRelay /\ TabRests /\ PhonesRest /\ UNCHANGED up
    BY <1>5 DEF RelayForgets, AtRelay
  <2>2. RelayTurn /\ NoRequest /\ NoneCloses
    BY <1>0, <2>1, EvictTurn
  <2>3. HelloFalls
    BY <2>1 DEF Relay!Evict, Relay!sockets, HelloFalls
  <2>. QED
    BY <2>1, <2>2, <2>3 DEF RelayStep, UpRests, Relay!Next
<1>. QED
  BY <1>1, <1>2, <1>3, <1>4, <1>5 DEF RelayActs

\* A client takes a turn: on its own, or for what has reached it.
Hears(c) ==
  \/ down[c][1] = Opened /\ Sock(c) = "connecting" /\ Sock(c)' = "open"
  \/ down[c][1] \in {Close, Lost} /\ Sock(c) \in {"connecting", "open", "closing"} /\ Sock(c)' = "closed"
  \/ down[c][1] \notin {Close, Lost} /\ Sock(c) \in {"open", "closing"} /\ (Sock(c)' = Sock(c) \/ Closing(c))

ClientStep(c, msgs, rest) ==
  /\ FromClient(c, msgs, rest) /\ RelayRests
  /\ \A d \in Conn : d # c => Sock(d)' = Sock(d)
  /\ msgs \in Seq(Says(c))
  /\ \/ /\ rest = down[c]
        /\ Sock(c)' = Sock(c) \/ (Sock(c) = "none" /\ Sock(c)' = "connecting") \/ Closing(c)
     \/ down[c] # <<>> /\ rest = Tail(down[c]) /\ Hears(c)

LEMMA HeadDown ==
  ASSUME ChannelInv, NEW c \in Conn, down[c] # <<>>
  PROVE  /\ Head(down[c]) = down[c][1] /\ 1 \in DOMAIN down[c]
         /\ Head(down[c]) \in Told(c) \cup Event
<1>. DEFINE S == Told(c) \cup Event
<1>1. down[c] \in Seq(S)
  BY DEF ChannelInv
<1>2. Head(down[c]) = down[c][1] /\ 1 \in DOMAIN down[c] /\ Head(down[c]) \in S
  BY <1>1
<1>. QED
  BY <1>2

LEMMA TabTakesTurn ==
  ASSUME PreviewInv, TabActs \/ TabAnswers \/ TabHears
  PROVE  \E rest : ClientStep(HostConn, hostOut', rest) /\ PhonesRest
<1>0. ChannelInv /\ hostWs \in {"none", "connecting", "open", "closing", "closed"}
      /\ starting \in {"no", "deriving", "done"} /\ (starting # "done" => hostWs = "none")
  BY DEF PreviewInv, HostInv, Tab!TypeOK, Tab!Socket
<1>1. /\ Plain("pair-approve") \in TabSays /\ Plain("pair-reject") \in TabSays /\ HelloMsg("host", "good") \in TabSays
      /\ \A m \in TabSays : <<m>> \in Seq(TabSays)
      /\ <<>> \in Seq(TabSays) /\ \A s \in Snapshot : Tab!Transfer(s) \in Seq(TabSays)
  <2>1. Plain("pair-approve") \in TabSays /\ Plain("pair-reject") \in TabSays /\ HelloMsg("host", "good") \in TabSays
    BY DEF TabSays
  <2>2. \A m \in TabSays : <<m>> \in Seq(TabSays)
    OBVIOUS
  <2>3. <<>> \in Seq(TabSays)
    OBVIOUS
  <2>. QED
    BY <2>1, <2>2, <2>3, TransferIsSaid
<1>2. ASSUME NEW rest, FromTab(rest), hostOut' \in Seq(TabSays),
             \/ rest = down[HostConn] /\ (hostWs' = hostWs \/ (hostWs = "none" /\ hostWs' = "connecting") \/ Closing(HostConn))
             \/ down[HostConn] # <<>> /\ rest = Tail(down[HostConn]) /\ Hears(HostConn)
      PROVE  ClientStep(HostConn, hostOut', rest) /\ PhonesRest
  <2>1. \A d \in Conn : d # HostConn => Sock(d)' = Sock(d)
    BY <1>2 DEF FromTab, PhonesRest, phones, Sock
  <2>. QED
    BY <1>2, <2>1 DEF FromTab, ClientStep, Says, Sock
<1>3. CASE TabActs
  <2>1. FromTab(down[HostConn])
    BY <1>3 DEF TabActs
  <2>2. hostOut' \in Seq(TabSays)
    BY <1>1, <1>3, SameMessages DEF TabActs, Tab!Start, Tab!Connect, Tab!Approve, Tab!Reject, Tab!End, Tab!Send
  <2>3. hostWs' = hostWs \/ (hostWs = "none" /\ hostWs' = "connecting") \/ Closing(HostConn)
    BY <1>0, <1>3 DEF TabActs, Tab!Start, Tab!Connect, Tab!Approve, Tab!Reject, Tab!End, Closing, Sock
  <2>. QED
    BY <1>2, <2>1, <2>2, <2>3
<1>4. CASE TabAnswers
  <2>1. FromTab(down[HostConn]) /\ hostWs' = hostWs
    BY <1>4 DEF TabAnswers, Tab!AnswerBlocked, Tab!AnswerSent
  <2>2. hostOut' \in Seq(TabSays)
    BY <1>1, <1>4 DEF TabAnswers, Tab!AnswerBlocked, Tab!AnswerSent, Tab!Send
  <2>. QED
    BY <1>2, <2>1, <2>2
<1>5. CASE TabHears
  <2>. DEFINE m == Head(down[HostConn])
  <2>1. FromTab(Tail(down[HostConn])) /\ down[HostConn] # <<>> /\ m = down[HostConn][1]
    BY <1>0, <1>5, HeadDown DEF TabHears, Conn
  <2>2. hostOut' \in Seq(TabSays)
    BY <1>1, <1>5, SameMessages DEF TabHears, Tab!OnOpen, Tab!OnClose, Tab!OnMessage, Tab!Ignore
  <2>3. Hears(HostConn)
    BY <1>5, <2>1 DEF TabHears, Tab!OnOpen, Tab!OnClose, Tab!OnMessage, Tab!Ignore, Hears, Sock
  <2>. QED
    BY <1>2, <2>1, <2>2, <2>3
<1>. QED
  BY <1>3, <1>4, <1>5

LEMMA PhoneTakesTurn ==
  ASSUME PreviewInv, NEW p \in Phone, PhoneActs(p) \/ PhoneHears(p)
  PROVE  \E rest : ClientStep(p, phoneOut', rest) /\ TabRests
<1>0. ChannelInv /\ ws \in [Phone -> {"none", "connecting", "open", "closing", "closed"}] /\ p # HostConn /\ p \in Conn
  BY ConnAssumption DEF PreviewInv, Phones!TypeOK, Phones!Socket, Conn
<1>1. /\ Plain("snapshot-request") \in PhoneSays /\ HelloMsg("viewer", "good") \in PhoneSays
      /\ \A m \in PhoneSays : <<m>> \in Seq(PhoneSays)
      /\ <<>> \in Seq(PhoneSays)
  <2>1. Plain("snapshot-request") \in PhoneSays /\ HelloMsg("viewer", "good") \in PhoneSays
    BY DEF PhoneSays
  <2>2. \A m \in PhoneSays : <<m>> \in Seq(PhoneSays)
    OBVIOUS
  <2>3. <<>> \in Seq(PhoneSays)
    OBVIOUS
  <2>. QED
    BY <2>1, <2>2, <2>3
<1>2. ASSUME NEW rest, FromPhone(p, rest), phoneOut' \in Seq(PhoneSays),
             \A q \in Phone : q # p => ws'[q] = ws[q],
             \/ rest = down[p] /\ (ws'[p] = ws[p] \/ (ws[p] = "none" /\ ws'[p] = "connecting") \/ Closing(p))
             \/ down[p] # <<>> /\ rest = Tail(down[p]) /\ Hears(p)
      PROVE  ClientStep(p, phoneOut', rest) /\ TabRests
  <2>1. \A d \in Conn : d # p => Sock(d)' = Sock(d)
    BY <1>2 DEF FromPhone, TabRests, tab, Sock, Conn
  <2>. QED
    BY <1>0, <1>2, <2>1 DEF FromPhone, ClientStep, Says, Sock
<1>3. CASE PhoneActs(p)
  <2>1. FromPhone(p, down[p])
    BY <1>3 DEF PhoneActs
  <2>2. phoneOut' \in Seq(PhoneSays) /\ \A q \in Phone : q # p => ws'[q] = ws[q]
    BY <1>0, <1>1, <1>3 DEF PhoneActs, Phones!Load, Phones!Dispose, Phones!CloseWs
  <2>3. ws'[p] = ws[p] \/ (ws[p] = "none" /\ ws'[p] = "connecting") \/ Closing(p)
    BY <1>0, <1>3 DEF PhoneActs, Phones!Load, Phones!Dispose, Phones!CloseWs, Closing, Sock
  <2>. QED
    BY <1>2, <2>1, <2>2, <2>3
<1>4. CASE PhoneHears(p)
  <2>. DEFINE m == Head(down[p])
  <2>1. FromPhone(p, Tail(down[p])) /\ down[p] # <<>> /\ m = down[p][1]
    BY <1>0, <1>4, HeadDown DEF PhoneHears
  <2>. HIDE DEF m
  <2>2. ASSUME m = Opened, Phones!OnOpen(p)
        PROVE  ClientStep(p, phoneOut', Tail(down[p])) /\ TabRests
    <3>1. phoneOut' \in Seq(PhoneSays) /\ \A q \in Phone : q # p => ws'[q] = ws[q]
      BY <1>0, <1>1, <2>2, SameMessages DEF Phones!OnOpen
    <3>2. Hears(p)
      BY <1>0, <2>1, <2>2 DEF Phones!OnOpen, Hears, Sock
    <3>. QED
      BY <1>2, <2>1, <3>1, <3>2
  <2>3. ASSUME m \in {Close, Lost}, NEW failed, Phones!OnClose(p, failed)
        PROVE  ClientStep(p, phoneOut', Tail(down[p])) /\ TabRests
    <3>1. phoneOut' \in Seq(PhoneSays) /\ \A q \in Phone : q # p => ws'[q] = ws[q]
      BY <1>0, <1>1, <2>3 DEF Phones!OnClose
    <3>2. Hears(p)
      BY <1>0, <2>1, <2>3 DEF Phones!OnClose, Hears, Sock
    <3>. QED
      BY <1>2, <2>1, <3>1, <3>2
  <2>4. ASSUME m \notin {Opened, Close, Lost}, Phones!OnMessage(p, m)
        PROVE  ClientStep(p, phoneOut', Tail(down[p])) /\ TabRests
    <3>1. ws[p] = "open" /\ phoneOut' \in {<<>>, <<Plain("snapshot-request")>>} /\ (UNCHANGED ws \/ Phones!CloseWs(p))
      BY <2>4, SameMessages DEF Phones!OnMessage, Phones!Quit, Phones!Manifest, Phones!Chunk
    <3>2. phoneOut' \in Seq(PhoneSays) /\ \A q \in Phone : q # p => ws'[q] = ws[q]
      BY <1>0, <1>1, <3>1 DEF Phones!CloseWs
    <3>3. Hears(p)
      BY <1>0, <2>1, <2>4, <3>1 DEF Phones!CloseWs, Hears, Sock, Closing
    <3>. QED
      BY <1>2, <2>1, <3>2, <3>3
  <2>5. ASSUME m \notin {Close, Lost}, Phones!Ignore(p)
        PROVE  ClientStep(p, phoneOut', Tail(down[p])) /\ TabRests
    <3>1. phoneOut' \in Seq(PhoneSays) /\ \A q \in Phone : q # p => ws'[q] = ws[q]
      BY <1>0, <1>1, <2>5 DEF Phones!Ignore
    <3>2. Hears(p)
      BY <1>0, <2>1, <2>5 DEF Phones!Ignore, Hears, Sock
    <3>. QED
      BY <1>2, <2>1, <3>1, <3>2
  <2>. QED
    BY <1>4, <2>2, <2>3, <2>4, <2>5 DEF PhoneHears, m
<1>. QED
  BY <1>3, <1>4

\* What a client's turn does to what it still has to hear.
LEMMA DownShrinks ==
  ASSUME ChannelInv, NEW c \in Conn,
         down'[c] \in {<<>>, <<Lost>>, down[c]} \/ (down[c] # <<>> /\ down'[c] = Tail(down[c]))
  PROVE  /\ down'[c] \in Seq(Told(c) \cup Event)
         /\ \A k \in DOMAIN down'[c] : down'[c][k] = Lost => k = 1
         /\ \A T : "lost" \notin T => /\ Has(down'[c], T) => Has(down[c], T)
                                      /\ HasOne(down[c], T) => HasOne(down'[c], T)
<1>. DEFINE S == Told(c) \cup Event
<1>1. down[c] \in Seq(S) /\ \A k \in DOMAIN down[c] : down[c][k] = Lost => k = 1
  BY DEF ChannelInv
<1>2. <<>> \in Seq(S) /\ <<Lost>> \in Seq(S) /\ \A k \in DOMAIN <<Lost>> : k = 1
  BY DEF Event
<1>. HIDE DEF S
<1>3. CASE down'[c] = <<>>
  <2>1. DOMAIN down'[c] = {}
    BY <1>3
  <2>. QED
    BY <1>2, <1>3, <2>1, HasFew DEF S
<1>4. CASE down'[c] = <<Lost>>
  BY <1>2, <1>4, HasFew, EventTypes DEF S
<1>5. CASE down'[c] = down[c]
  BY <1>1, <1>5 DEF S
<1>6. CASE down[c] # <<>> /\ down'[c] = Tail(down[c])
  <2>1. /\ Tail(down[c]) \in Seq(S)
        /\ \A T : /\ Has(down[c], T) <=> down[c][1].type \in T \/ Has(Tail(down[c]), T)
                  /\ HasOne(down[c], T) => HasOne(Tail(down[c]), T)
    BY <1>1, <1>6, HasTail
  <2>2. \A k \in DOMAIN Tail(down[c]) : Tail(down[c])[k] # Lost
    BY <1>1, <1>6
  <2>. QED
    BY <1>6, <2>1, <2>2 DEF S
<1>. QED
  BY <1>3, <1>4, <1>5, <1>6

LEMMA ClientDown ==
  ASSUME NEW c \in Conn, NEW msgs, NEW rest, ClientStep(c, msgs, rest), ChannelInv
  PROVE  /\ down'[c] \in {<<>>, <<Lost>>, down[c]} \/ (down[c] # <<>> /\ down'[c] = Tail(down[c]))
         /\ \A d \in Conn : d # c => down'[d] = down[d]
         /\ down'[c] = IF Sock(c)' = "closed" THEN <<>> ELSE IF Closing(c) /\ link[c] = "idle" THEN <<Lost>> ELSE rest
         /\ down' = [d \in Conn |-> down'[d]]
<1>. DEFINE new == CASE Sock(c)' = "closed"              -> <<>>
                     [] Closing(c) /\ link[c] = "idle"   -> <<Lost>>
                     [] OTHER                            -> rest
<1>1. /\ down' = [down EXCEPT ![c] = new] /\ down = [d \in Conn |-> down[d]]
      /\ rest = down[c] \/ (down[c] # <<>> /\ rest = Tail(down[c]))
  BY DEF ClientStep, FromClient, ChannelInv
<1>2. new = IF Sock(c)' = "closed" THEN <<>> ELSE IF Closing(c) /\ link[c] = "idle" THEN <<Lost>> ELSE rest
  <2>1. CASE Sock(c)' = "closed"
    <3>1. ~Closing(c)
      BY <2>1 DEF Closing
    <3>. QED
      BY <2>1, <3>1
  <2>2. CASE Sock(c)' # "closed" /\ Closing(c) /\ link[c] = "idle"
    BY <2>2
  <2>3. CASE Sock(c)' # "closed" /\ ~(Closing(c) /\ link[c] = "idle")
    BY <2>3
  <2>. QED
    BY <2>1, <2>2, <2>3
<1>. HIDE DEF new
<1>. QED
  BY <1>1, <1>2

\* What a client's turn adds to what it has said.
LEMMA UpGrows ==
  ASSUME ChannelInv, NEW c \in Conn, NEW msgs, NEW rest, ClientStep(c, msgs, rest)
  PROVE  /\ up' = [d \in Conn |-> up'[d]] /\ \A d \in Conn : d # c => up'[d] = up[d]
         /\ up'[c] \in Seq(IF c = HostConn THEN OfTab ELSE OfPhone)
         /\ ~Relay!Listening(c) => up'[c] = <<>>
         /\ Relay!Listening(c) =>
              /\ Closing(c) \/ (Sock(c) = "open" /\ Sock(c)' = "closed") => Has(up'[c], {"close"})
              /\ \A T : Has(up[c], T) \/ Has(msgs, T) => Has(up'[c], T)
         /\ Has(up'[c], {"close"}) => Has(up[c], {"close"}) \/ Closing(c) \/ (Sock(c) = "open" /\ Sock(c)' = "closed")
         /\ \A T : "close" \notin T =>
              /\ Has(up'[c], T) => Has(up[c], T) \/ Has(msgs, T)
              /\ HasOne(up[c], T) /\ HasOne(msgs, T) /\ ~(Has(up[c], T) /\ Has(msgs, T)) => HasOne(up'[c], T)
<1>. DEFINE S == IF c = HostConn THEN OfTab ELSE OfPhone
            closes == Closing(c) \/ (Sock(c) = "open" /\ Sock(c)' = "closed")
            last == IF closes THEN <<Close>> ELSE <<>>
<1>1. /\ up' = [up EXCEPT ![c] = IF ~Relay!Listening(c) THEN <<>> ELSE @ \o msgs \o last]
      /\ up = [d \in Conn |-> up[d]] /\ up[c] \in Seq(S) /\ msgs \in Seq(Says(c))
  BY DEF ClientStep, FromClient, ChannelInv
<1>2. up' = [d \in Conn |-> up'[d]] /\ \A d \in Conn : d # c => up'[d] = up[d]
  BY <1>1
<1>3. up'[c] = IF ~Relay!Listening(c) THEN <<>> ELSE (up[c] \o msgs) \o last
  BY <1>1
<1>4. Says(c) \subseteq S /\ Close \in S /\ \A m \in Says(c) : m.type # "close"
  BY DEF Says, OfTab, OfPhone, TabSays, PhoneSays, HelloMsg, Plain, ManifestMsg, ChunkMsg
<1>. HIDE DEF S
<1>5. msgs \in Seq(S) /\ ~Has(msgs, {"close"})
  <2>1. msgs \in Seq(S)
    BY <1>1, <1>4
  <2>2. \A k \in DOMAIN msgs : msgs[k] \in Says(c)
    BY <1>1
  <2>. QED
    BY <1>4, <2>1, <2>2 DEF Has
<1>6. last \in {<<>>, <<Close>>} /\ (closes <=> last = <<Close>>)
  <2>1. <<Close>> # <<>>
    OBVIOUS
  <2>. QED
    BY <2>1
<1>7. <<>> \in Seq(S) /\ <<Close>> \in Seq(S)
  BY <1>4
<1>8. last \in Seq(S)
  BY <1>6, <1>7
<1>9. /\ \A T : Has(last, T) <=> closes /\ "close" \in T
      /\ \A T : HasOne(last, T)
  BY <1>6, HasFew, EventTypes
<1>. HIDE DEF last, closes
<1>10. /\ up[c] \o msgs \in Seq(S)
       /\ \A T : /\ Has(up[c] \o msgs, T) <=> Has(up[c], T) \/ Has(msgs, T)
                 /\ HasOne(up[c], T) /\ HasOne(msgs, T) /\ ~(Has(up[c], T) /\ Has(msgs, T)) => HasOne(up[c] \o msgs, T)
  BY <1>1, <1>5, HasJoined
<1>11. /\ (up[c] \o msgs) \o last \in Seq(S)
       /\ \A T : /\ Has((up[c] \o msgs) \o last, T) <=> Has(up[c] \o msgs, T) \/ Has(last, T)
                 /\ HasOne(up[c] \o msgs, T) /\ HasOne(last, T) /\ ~(Has(up[c] \o msgs, T) /\ Has(last, T))
                      => HasOne((up[c] \o msgs) \o last, T)
  <2>1. PICK u : u = up[c] \o msgs
    OBVIOUS
  <2>2. u \in Seq(S)
    BY <1>10, <2>1
  <2>. QED
    BY <1>8, <2>1, <2>2, HasJoined
<1>12. CASE ~Relay!Listening(c)
  <2>1. up'[c] = <<>>
    BY <1>3, <1>12
  <2>2. \A T : ~Has(up'[c], T) /\ HasOne(up'[c], T)
    BY <2>1, HasFew
  <2>. QED
    BY <1>2, <1>7, <1>12, <2>1, <2>2 DEF S
<1>13. CASE Relay!Listening(c)
  <2>1. up'[c] = (up[c] \o msgs) \o last
    BY <1>3, <1>13
  <2>. QED
    BY <1>2, <1>5, <1>9, <1>10, <1>11, <1>13, <2>1 DEF S, closes
<1>. QED
  BY <1>12, <1>13

LEMMA ClientKeepsChannels ==
  ASSUME ChannelInv, NEW c \in Conn, NEW msgs, NEW rest, ClientStep(c, msgs, rest)
  PROVE  ChannelInv'
<1>1. /\ \A d \in Conn : d # c => down'[d] = down[d] /\ up'[d] = up[d]
      /\ up' = [d \in Conn |-> up'[d]] /\ down' = [d \in Conn |-> down'[d]]
      /\ up'[c] \in Seq(IF c = HostConn THEN OfTab ELSE OfPhone)
  BY ClientDown, UpGrows
<1>2. /\ down'[c] \in Seq(Told(c) \cup Event)
      /\ \A k \in DOMAIN down'[c] : down'[c][k] = Lost => k = 1
  BY ClientDown, DownShrinks
<1>3. ASSUME NEW d \in Conn
      PROVE  /\ up'[d] \in Seq(IF d = HostConn THEN OfTab ELSE OfPhone)
             /\ down'[d] \in Seq(Told(d) \cup Event)
             /\ \A k \in DOMAIN down'[d] : down'[d][k] = Lost => k = 1
  BY <1>1, <1>2 DEF ChannelInv
<1>. QED
  BY <1>1, <1>3 DEF ChannelInv

\* A connection that is over for the client stays so.
LEMMA OverStays ==
  ASSUME ChannelInv, NEW c \in Conn, NEW msgs, NEW rest, ClientStep(c, msgs, rest), NEW d \in Conn, Over(d)
  PROVE  Over(d)'
<1>1. CASE d # c
  BY <1>1, ClientDown DEF Over, Broken, ClientStep
<1>2. CASE d = c /\ Sock(c) \in {"closing", "closed"}
  BY <1>2 DEF Over, ClientStep, Closing, Hears
<1>3. CASE d = c /\ Broken(c) /\ Sock(c) \notin {"closing", "closed"}
  BY <1>3, ClientDown, EventTypes DEF Over, Broken, ClientStep, Closing, Hears
<1>. QED
  BY <1>1, <1>2, <1>3 DEF Over

-----------------------------------------------------------------------------
(* The channels and the connections                                         *)

\* The state of a connection for the relay.
LEMMA Links == R!IInv => link \in [Conn -> {"idle", "open", "closing", "closed"}] /\ shotUsed \in [Conn -> BOOLEAN]
  BY OfRelay DEF RelayInv, Relay!TypeOK, Relay!Link

LEMMA ClientKeepsLinks ==
  ASSUME R!IInv, ChannelInv, LinkInv, NEW c \in Conn, NEW msgs, NEW rest, ClientStep(c, msgs, rest)
  PROVE  LinkInv'
<1>0. link' = link /\ shotUsed' = shotUsed /\ link \in [Conn -> {"idle", "open", "closing", "closed"}]
  BY Links DEF ClientStep, RelayRests, relay
<1>1. ASSUME NEW d \in Conn, d # c
      PROVE  /\ Sock(d)' = Sock(d) /\ up'[d] = up[d] /\ down'[d] = down[d]
             /\ Over(d)' <=> Over(d)
  <2>1. Sock(d)' = Sock(d) /\ up'[d] = up[d] /\ down'[d] = down[d]
    BY <1>1, ClientDown, UpGrows DEF ClientStep
  <2>. QED
    BY <2>1 DEF Over, Broken
<1>2. /\ link[c] = "idle" => ~shotUsed[c] /\ up[c] = <<>> /\ down[c] \in {<<>>, <<Lost>>}
      /\ Sock(c) = "none" => link[c] = "idle" /\ down[c] = <<>>
      /\ Sock(c) = "connecting" => IF down[c] = <<>> THEN link[c] = "idle"
                                   ELSE down[c][1] \in {Opened, Lost}
      /\ Has(up[c], {"close"}) \/ link[c] = "closed" => Over(c)
      /\ Over(c) => link[c] \in {"idle", "closed"} \/ Has(up[c], {"close"})
  BY DEF LinkInv
<1>3. /\ Relay!Listening(c) <=> link[c] \in {"open", "closing"}
      /\ Relay!Listening(c) <=> link[c] \notin {"idle", "closed"}
  BY <1>0 DEF Relay!Listening
<1>4. down'[c] = IF Sock(c)' = "closed" THEN <<>> ELSE IF Closing(c) /\ link[c] = "idle" THEN <<Lost>> ELSE rest
  BY ClientDown
<1>5. \/ /\ rest = down[c]
         /\ Sock(c)' = Sock(c) \/ (Sock(c) = "none" /\ Sock(c)' = "connecting") \/ Closing(c)
      \/ down[c] # <<>> /\ rest = Tail(down[c]) /\ Hears(c)
  BY DEF ClientStep
<1>6. link'[c] = "idle" => ~shotUsed'[c] /\ up'[c] = <<>> /\ down'[c] \in {<<>>, <<Lost>>}
  <2>1. Tail(<<Lost>>) = <<>>
    OBVIOUS
  <2>. QED
    BY <1>0, <1>2, <1>3, <1>4, <1>5, <2>1, UpGrows
<1>7. Sock(c)' = "none" => link'[c] = "idle" /\ down'[c] = <<>>
  BY <1>0, <1>2, <1>4, <1>5 DEF Closing, Hears
<1>8. Sock(c)' = "connecting" => IF down'[c] = <<>> THEN link'[c] = "idle" ELSE down'[c][1] \in {Opened, Lost}
  BY <1>0, <1>2, <1>4, <1>5 DEF Closing, Hears
<1>9. Over(c) => Over(c)'
  BY OverStays
<1>10. Closing(c) \/ (Sock(c) = "open" /\ Sock(c)' = "closed") => Over(c)'
  BY DEF Closing, Over
<1>11. Has(up'[c], {"close"}) \/ link'[c] = "closed" => Over(c)'
  BY <1>0, <1>2, <1>9, <1>10, UpGrows
<1>12. ASSUME Over(c)', ~Over(c), Relay!Listening(c)
       PROVE  Closing(c) \/ (Sock(c) = "open" /\ Sock(c)' = "closed")
  <2>1. CASE Sock(c)' \in {"closing", "closed"}
    <3>1. Sock(c) \notin {"closing", "closed"} /\ ~Broken(c)
      BY <1>12 DEF Over
    <3>2. Sock(c)' = "closing" => Closing(c)
      BY <1>5, <2>1, <3>1 DEF Closing, Hears
    <3>3. Sock(c)' = "closed" => Sock(c) = "open" \/ (Sock(c) = "connecting" /\ down[c] # <<>> /\ down[c][1] \in {Close, Lost})
      BY <1>5, <2>1, <3>1 DEF Closing, Hears
    <3>4. ~(Sock(c) = "connecting" /\ down[c] # <<>> /\ down[c][1] \in {Close, Lost})
      BY <1>2, <3>1, EventTypes DEF Broken
    <3>. QED
      BY <2>1, <3>2, <3>3, <3>4
  <2>2. CASE Broken(c)' /\ Sock(c)' \notin {"closing", "closed"}
    <3>1. down'[c] = rest /\ rest # <<>> /\ rest[1] = Lost
      BY <1>4, <2>2 DEF Broken, Closing
    <3>2. rest # down[c]
      BY <1>12, <3>1 DEF Over, Broken
    <3>3. down[c] # <<>> /\ rest = Tail(down[c])
      BY <1>5, <3>2
    <3>. DEFINE S == Told(c) \cup Event
    <3>4. down[c] \in Seq(S) /\ \A k \in DOMAIN down[c] : down[c][k] = Lost => k = 1
      BY DEF ChannelInv
    <3>. HIDE DEF S
    <3>5. 2 \in DOMAIN down[c] /\ down[c][2] = Lost
      BY <3>1, <3>3, <3>4
    <3>. QED
      BY <3>4, <3>5
  <2>. QED
    BY <1>12, <2>1, <2>2 DEF Over
<1>13. Over(c)' => link'[c] \in {"idle", "closed"} \/ Has(up'[c], {"close"})
  BY <1>0, <1>2, <1>3, <1>12, UpGrows
<1>14. ASSUME NEW d \in Conn
       PROVE  /\ link'[d] = "idle" => ~shotUsed'[d] /\ up'[d] = <<>> /\ down'[d] \in {<<>>, <<Lost>>}
              /\ Sock(d)' = "none" => link'[d] = "idle" /\ down'[d] = <<>>
              /\ Sock(d)' = "connecting" => IF down'[d] = <<>> THEN link'[d] = "idle"
                                            ELSE down'[d][1] \in {Opened, Lost}
              /\ Has(up'[d], {"close"}) \/ link'[d] = "closed" => Over(d)'
              /\ Over(d)' => link'[d] \in {"idle", "closed"} \/ Has(up'[d], {"close"})
  <2>1. CASE d = c
    BY <1>6, <1>7, <1>8, <1>11, <1>13, <2>1
  <2>2. CASE d # c
    BY <1>0, <1>1, <2>2 DEF LinkInv
  <2>. QED
    BY <2>1, <2>2
<1>. QED
  BY <1>14 DEF LinkInv, Has

LEMMA ClientKeepsStory ==
  ASSUME ChannelInv, StoryInv, NEW c \in Conn, NEW msgs, NEW rest, ClientStep(c, msgs, rest)
  PROVE  StoryInv'
<1>. SUFFICES ASSUME NEW p \in Phone, ~Over(p)', Has(down'[p], StoryType)
              PROVE  p \in approved'
  BY DEF StoryInv, Has
<1>1. p \in Conn /\ approved' = approved /\ "lost" \notin StoryType
  BY DEF Conn, ClientStep, RelayRests, relay, StoryType
<1>2. ~Over(p)
  BY <1>1, OverStays
<1>3. Has(down[p], StoryType)
  <2>1. CASE p = c
    BY <1>1, <2>1, ClientDown, DownShrinks
  <2>2. CASE p # c
    BY <1>1, <2>2, ClientDown
  <2>. QED
    BY <2>1, <2>2
<1>. QED
  BY <1>1, <1>2, <1>3 DEF StoryInv

\* What a turn of the relay does to a connection it does not tell anything.
LEMMA MailSilent ==
  ASSUME Talks, FromRelay, NEW c \in Conn, link[c] # "open", down[c] \in Seq(Told(c) \cup Event)
  PROVE  down'[c] \in {down[c], <<>>} /\ (Sock(c) # "closed" => down'[c] = down[c])
<1>1. {m \in out' : m.to = c} = {}
  BY DEF Talks
<1>2. down'[c] = IF Sock(c) = "closed" THEN <<>> ELSE down[c] \o SetToSeq({}) \o <<>>
  BY <1>1 DEF FromRelay
<1>3. SetToSeq({}) = <<>>
  BY SeqOfFew
<1>4. down[c] \o <<>> = down[c]
  OBVIOUS
<1>. QED
  BY <1>2, <1>3, <1>4

\* What a turn of the relay does to what it still has to hear.
LEMMA UpShrinks ==
  ASSUME ChannelInv, UpRests \/ \E c \in Conn : UpHeard(c) \/ UpEnds(c), NEW d \in Conn
  PROVE  /\ up' = [e \in Conn |-> up'[e]]
         /\ up'[d] \in Seq(IF d = HostConn THEN OfTab ELSE OfPhone)
         /\ up[d] = <<>> => up'[d] = <<>>
         /\ \A T : /\ Has(up'[d], T) => Has(up[d], T)
                   /\ HasOne(up[d], T) => HasOne(up'[d], T)
                   /\ Has(up[d], T) => \/ Has(up'[d], T)
                                       \/ UpHeard(d) /\ Head(up[d]).type \in T
                                       \/ UpEnds(d)
<1>. DEFINE S == IF d = HostConn THEN OfTab ELSE OfPhone
<1>1. up[d] \in Seq(S) /\ up = [e \in Conn |-> up[e]]
  BY DEF ChannelInv
<1>. HIDE DEF S
<1>2. <<>> \in Seq(S)
  OBVIOUS
<1>3. CASE up'[d] = up[d] /\ up' = [e \in Conn |-> up'[e]]
  BY <1>1, <1>3 DEF S
<1>4. CASE UpHeard(d)
  <2>1. /\ up'[d] = Tail(up[d]) /\ up[d] # <<>>
        /\ up' = [e \in Conn |-> up'[e]]
    BY <1>1, <1>4 DEF UpHeard
  <2>2. /\ Head(up[d]) = up[d][1] /\ Tail(up[d]) \in Seq(S)
        /\ \A T : /\ Has(up[d], T) <=> up[d][1].type \in T \/ Has(Tail(up[d]), T)
                  /\ HasOne(up[d], T) => HasOne(Tail(up[d]), T)
    BY <1>1, <2>1, HasTail
  <2>. QED
    BY <1>4, <2>1, <2>2 DEF S
<1>5. CASE UpEnds(d)
  <2>1. up'[d] = <<>> /\ up' = [e \in Conn |-> up'[e]]
    BY <1>1, <1>5 DEF UpEnds
  <2>2. \A T : ~Has(up'[d], T) /\ HasOne(up'[d], T)
    BY <2>1, HasFew
  <2>. QED
    BY <1>2, <1>5, <2>1, <2>2 DEF S
<1>6. CASE \E c \in Conn : c # d /\ (UpHeard(c) \/ UpEnds(c))
  BY <1>1, <1>3, <1>6 DEF UpHeard, UpEnds
<1>7. CASE UpRests
  BY <1>1, <1>3, <1>7 DEF UpRests
<1>. QED
  BY <1>4, <1>5, <1>6, <1>7

\* A turn of the relay leaves the sockets of the clients as they are.
LEMMA SockRests == TabRests /\ PhonesRest => \A c \in Conn : Sock(c)' = Sock(c)
  BY DEF TabRests, PhonesRest, tab, phones, Sock

LEMMA RelayKeepsChannels ==
  ASSUME ChannelInv, RelayStep
  PROVE  ChannelInv'
<1>1. Talks /\ FromRelay /\ down' = [c \in Conn |-> down'[c]]
  BY DEF RelayStep, RelayTurn, FromRelay
<1>2. ASSUME NEW c \in Conn
      PROVE  /\ up' = [d \in Conn |-> up'[d]]
             /\ up'[c] \in Seq(IF c = HostConn THEN OfTab ELSE OfPhone)
             /\ down'[c] \in Seq(Told(c) \cup Event)
             /\ \A k \in DOMAIN down'[c] : down'[c][k] = Lost => k = 1
  <2>1. down[c] \in Seq(Told(c) \cup Event) /\ \A k \in DOMAIN down[c] : down[c][k] = Lost => k = 1
    BY DEF ChannelInv
  <2>2. "close" \notin {}
    OBVIOUS
  <2>3. /\ down'[c] \in Seq(Told(c) \cup Event)
        /\ \A k \in DOMAIN down'[c] : down'[c][k] = Lost => k \in DOMAIN down[c] /\ down[c][k] = Lost
    BY <1>1, <2>1, <2>2, MailGrows
  <2>. QED
    BY <2>1, <2>3, UpShrinks DEF RelayStep
<1>3. HostConn \in Conn
  BY DEF Conn
<1>. QED
  BY <1>1, <1>2, <1>3 DEF ChannelInv

LEMMA OverSame ==
  ASSUME ChannelInv, RelayStep, NEW c \in Conn
  PROVE  /\ Over(c)' <=> Over(c)
         /\ Sock(c)' = Sock(c)
         /\ Sock(c) # "closed" /\ down[c] # <<>> => down'[c] # <<>> /\ down'[c][1] = down[c][1]
<1>1. Sock(c)' = Sock(c) /\ Talks /\ FromRelay
  BY SockRests DEF RelayStep, RelayTurn
<1>. DEFINE S == Told(c) \cup Event
<1>2. down[c] \in Seq(S)
  BY DEF ChannelInv
<1>3. CASE Sock(c) = "closed"
  BY <1>1, <1>3 DEF Over
<1>4. CASE Sock(c) # "closed"
  <2>1. "close" \notin {}
    OBVIOUS
  <2>2. /\ down'[c] \in Seq(S)
        /\ \A k \in DOMAIN down[c] : k \in DOMAIN down'[c] /\ down'[c][k] = down[c][k]
        /\ \A k \in DOMAIN down'[c] : down'[c][k] = Lost => k \in DOMAIN down[c] /\ down[c][k] = Lost
    BY <1>1, <1>2, <1>4, <2>1, MailGrows
  <2>. HIDE DEF S
  <2>3. \A s \in Seq(S) : s # <<>> => 1 \in DOMAIN s
    OBVIOUS
  <2>4. DOMAIN <<>> = {}
    OBVIOUS
  <2>5. down[c] # <<>> => down'[c] # <<>> /\ down'[c][1] = down[c][1]
    BY <1>2, <2>2, <2>3, <2>4
  <2>6. down'[c] # <<>> /\ down'[c][1] = Lost => down[c] # <<>>
    BY <2>2, <2>3, <2>4
  <2>7. Broken(c)' <=> Broken(c)
    BY <2>5, <2>6 DEF Broken
  <2>. QED
    BY <1>1, <2>5, <2>7 DEF Over
<1>. QED
  BY <1>3, <1>4

LEMMA RelayKeepsLinks ==
  ASSUME R!IInv, ChannelInv, LinkInv, RelayStep
  PROVE  LinkInv'
<1>. SUFFICES ASSUME NEW c \in Conn
              PROVE  /\ link'[c] = "idle" => ~shotUsed'[c] /\ up'[c] = <<>> /\ down'[c] \in {<<>>, <<Lost>>}
                     /\ Sock(c)' = "none" => link'[c] = "idle" /\ down'[c] = <<>>
                     /\ Sock(c)' = "connecting" => IF down'[c] = <<>> THEN link'[c] = "idle"
                                                   ELSE down'[c][1] \in {Opened, Lost}
                     /\ Has(up'[c], {"close"}) \/ link'[c] = "closed" => Over(c)'
                     /\ Over(c)' => link'[c] \in {"idle", "closed"} \/ Has(up'[c], {"close"})
  BY DEF LinkInv, Has
<1>1. /\ link[c] = "idle" => ~shotUsed[c] /\ up[c] = <<>> /\ down[c] \in {<<>>, <<Lost>>}
      /\ Sock(c) = "none" => link[c] = "idle" /\ down[c] = <<>>
      /\ Sock(c) = "connecting" => IF down[c] = <<>> THEN link[c] = "idle"
                                   ELSE down[c][1] \in {Opened, Lost}
      /\ Has(up[c], {"close"}) \/ link[c] = "closed" => Over(c)
      /\ Over(c) => link[c] \in {"idle", "closed"} \/ Has(up[c], {"close"})
  BY DEF LinkInv
<1>2. Talks /\ FromRelay /\ LinksTurn /\ HelloTurn
  BY DEF RelayStep, RelayTurn
<1>3. link[c] = "idle" => down'[c] \in {down[c], <<>>} /\ (Sock(c) # "closed" => down'[c] = down[c])
  BY <1>2, MailSilent DEF ChannelInv
<1>4. UpRests \/ \E d \in Conn : UpHeard(d) \/ UpEnds(d)
  BY DEF RelayStep
<1>5. /\ Over(c)' <=> Over(c)
      /\ Sock(c)' = Sock(c)
      /\ Sock(c) # "closed" /\ down[c] # <<>> => down'[c] # <<>> /\ down'[c][1] = down[c][1]
  BY OverSame
<1>6. link'[c] = "idle" => ~shotUsed'[c] /\ up'[c] = <<>> /\ down'[c] \in {<<>>, <<Lost>>}
  <2>1. up[c] = <<>> => up'[c] = <<>>
    BY <1>4, UpShrinks
  <2>. QED
    BY <1>1, <1>2, <1>3, <2>1 DEF LinksTurn, HelloTurn
<1>7. Sock(c)' = "none" => link'[c] = "idle" /\ down'[c] = <<>>
  BY <1>1, <1>2, <1>3, <1>5 DEF LinksTurn
<1>8. Sock(c)' = "connecting" => IF down'[c] = <<>> THEN link'[c] = "idle" ELSE down'[c][1] \in {Opened, Lost}
  BY <1>1, <1>2, <1>3, <1>5 DEF LinksTurn
<1>9. Has(up'[c], {"close"}) => Has(up[c], {"close"})
  BY <1>4, UpShrinks
<1>10. link'[c] = "closed" => Over(c)
  <2>1. CASE link[c] = "closed"
    BY <1>1, <2>1
  <2>2. CASE UpEnds(c)
    <3>1. up[c] # <<>> /\ Head(up[c]) = up[c][1] /\ 1 \in DOMAIN up[c] /\ Head(up[c]) = Close
      BY <2>2, HeadUp DEF UpEnds
    <3>2. Has(up[c], {"close"})
      BY <3>1, EventTypes DEF Has
    <3>. QED
      BY <1>1, <3>2
  <2>3. CASE ~UpEnds(c)
    BY <1>1, <1>4, <2>3 DEF UpRests, UpHeard, UpEnds, NoneCloses
  <2>. QED
    BY <2>2, <2>3
<1>11. Over(c) => link'[c] \in {"idle", "closed"} \/ Has(up'[c], {"close"})
  <2>1. Has(up[c], {"close"}) => \/ Has(up'[c], {"close"})
                                 \/ UpHeard(c) /\ Head(up[c]).type = "close"
                                 \/ UpEnds(c)
    BY <1>4, UpShrinks
  <2>2. ~(UpHeard(c) /\ Head(up[c]).type = "close")
    BY HeadUp, SentTypes DEF UpHeard
  <2>3. UpEnds(c) => link'[c] = "closed"
    BY DEF UpEnds
  <2>. QED
    BY <1>1, <1>2, <2>1, <2>2, <2>3 DEF LinksTurn
<1>12. Has(up'[c], {"close"}) \/ link'[c] = "closed" => Over(c)'
  BY <1>1, <1>5, <1>9, <1>10
<1>13. Over(c)' => link'[c] \in {"idle", "closed"} \/ Has(up'[c], {"close"})
  BY <1>5, <1>11
<1>. QED
  BY <1>6, <1>7, <1>8, <1>12, <1>13

LEMMA RelayKeepsStory ==
  ASSUME R!IInv, R!IInv', ChannelInv, LinkInv, StoryInv, RelayStep
  PROVE  StoryInv'
<1>. SUFFICES ASSUME NEW p \in Phone, ~Over(p)', Has(down'[p], StoryType)
              PROVE  p \in approved'
  BY DEF StoryInv, Has
<1>1. p \in Conn /\ "close" \notin StoryType /\ "lost" \notin StoryType
  BY DEF Conn, StoryType
<1>2. ~Over(p)
  BY <1>1, OverSame
<1>3. Talks /\ FromRelay /\ RolesTurn /\ down[p] \in Seq(Told(p) \cup Event)
  BY <1>1 DEF RelayStep, RelayTurn, ChannelInv
<1>4. Has(down[p], StoryType) \/ \E m \in out' : m.to = p /\ m.type \in StoryType
  BY <1>1, <1>3, MailGrows
<1>5. CASE \E m \in out' : m.to = p /\ m.type \in StoryType
  <2>1. Relay!StoryOnlyToApproved'
    BY OfRelay DEF RelayInv, R!IInv, R!StoryOnlyToApproved, Relay!StoryOnlyToApproved, R!StoryType, Relay!StoryType
  <2>2. Relay!StoryType = StoryType
    BY DEF Relay!StoryType, StoryType
  <2>. QED
    BY <1>5, <2>1, <2>2 DEF Relay!StoryOnlyToApproved
<1>6. CASE Has(down[p], StoryType)
  <2>1. p \in approved
    BY <1>2, <1>6 DEF StoryInv
  <2>2. ~Forgets
    <3>1. SUFFICES ASSUME Forgets PROVE FALSE
      OBVIOUS
    <3>2. link[p] \in {"idle", "closed"}
      BY <1>1, <3>1 DEF Forgets
    <3>3. link[p] = "idle"
      BY <1>1, <1>2, <3>2 DEF LinkInv
    <3>4. down[p] \in {<<>>, <<Lost>>}
      BY <1>1, <3>3 DEF LinkInv
    <3>5. ~Has(<<>>, StoryType) /\ ~Has(<<Lost>>, StoryType)
      BY <1>1, HasFew, EventTypes
    <3>. QED
      BY <1>6, <3>4, <3>5
  <2>. QED
    BY <1>3, <2>1, <2>2 DEF RolesTurn, Keeps, ViewerGoes, Ends, HostComes, ViewerComes, Approves
<1>. QED
  BY <1>4, <1>5, <1>6

\* A connection comes about.
LEMMA AcceptEffect ==
  ASSUME R!IInv, ChannelInv, LinkInv, NEW c \in Conn, RelayAccepts(c)
  PROVE  /\ Sock(c) = "connecting" /\ link[c] = "idle" /\ down[c] = <<>> /\ up[c] = <<>> /\ ~shotUsed[c]
         /\ link'[c] = "open" /\ down'[c] = <<Opened>> /\ up' = up
         /\ \A d \in Conn : d # c => link'[d] = link[d] /\ down'[d] = down[d]
         /\ down' = [d \in Conn |-> down'[d]]
         /\ UNCHANGED <<shotUsed, hello, host, viewer, paired, ended, approved, tab, phones>>
         /\ \A d \in Conn : Sock(d)' = Sock(d)
         /\ Relay!Next
<1>1. Relay!Upgrade(c) /\ link \in [Conn -> {"idle", "open", "closing", "closed"}] /\ down = [d \in Conn |-> down[d]]
  BY Links DEF RelayAccepts, ChannelInv
<1>2. link' = [link EXCEPT ![c] = "open"] /\ UNCHANGED <<shotUsed, hello, host, viewer, paired, ended, approved>>
      /\ link[c] = "idle"
  BY <1>1 DEF Relay!Upgrade, Relay!slots, Relay!pairing
<1>3. down' = [down EXCEPT ![c] = <<Opened>>] /\ up' = up /\ Sock(c) = "connecting" /\ down[c] = <<>>
      /\ UNCHANGED <<tab, phones>>
  BY DEF RelayAccepts, TabRests, PhonesRest
<1>4. \A d \in Conn : Sock(d)' = Sock(d)
  BY SockRests DEF RelayAccepts
<1>5. up[c] = <<>> /\ ~shotUsed[c]
  BY <1>2 DEF LinkInv
<1>6. Relay!Next
  BY <1>1 DEF Relay!Next
<1>. QED
  BY <1>1, <1>2, <1>3, <1>4, <1>5, <1>6

LEMMA AcceptKeepsLinks ==
  ASSUME R!IInv, ChannelInv, LinkInv, StoryInv, NEW c \in Conn, RelayAccepts(c)
  PROVE  ChannelInv' /\ LinkInv' /\ StoryInv'
<1>1. /\ Sock(c) = "connecting" /\ link[c] = "idle" /\ down[c] = <<>> /\ up[c] = <<>> /\ ~shotUsed[c]
      /\ link'[c] = "open" /\ down'[c] = <<Opened>> /\ up' = up
      /\ \A d \in Conn : d # c => link'[d] = link[d] /\ down'[d] = down[d]
      /\ down' = [d \in Conn |-> down'[d]]
      /\ UNCHANGED <<shotUsed, approved>>
      /\ \A d \in Conn : Sock(d)' = Sock(d)
  BY AcceptEffect
<1>2. Opened # Lost /\ <<Opened>>[1] = Opened /\ <<Opened>> # <<>> /\ \A T : ~Has(<<>>, T)
  BY EventTypes, HasFew
<1>3. ~Over(c)' /\ \A d \in Conn : d # c => (Over(d)' <=> Over(d))
  BY <1>1, <1>2 DEF Over, Broken
<1>4. ChannelInv'
  <2>1. /\ <<Opened>> \in Seq(Told(c) \cup Event)
        /\ \A k \in DOMAIN <<Opened>> : <<Opened>>[k] = Lost => k = 1
    BY DEF Event
  <2>. QED
    BY <1>1, <2>1 DEF ChannelInv
<1>5. LinkInv'
  <2>. SUFFICES ASSUME NEW d \in Conn
                PROVE  /\ link'[d] = "idle" => ~shotUsed'[d] /\ up'[d] = <<>> /\ down'[d] \in {<<>>, <<Lost>>}
                       /\ Sock(d)' = "none" => link'[d] = "idle" /\ down'[d] = <<>>
                       /\ Sock(d)' = "connecting" => IF down'[d] = <<>> THEN link'[d] = "idle"
                                                     ELSE down'[d][1] \in {Opened, Lost}
                       /\ Has(up'[d], {"close"}) \/ link'[d] = "closed" => Over(d)'
                       /\ Over(d)' => link'[d] \in {"idle", "closed"} \/ Has(up'[d], {"close"})
    BY DEF LinkInv, Has
  <2>1. CASE d = c
    BY <1>1, <1>2, <1>3, <2>1
  <2>2. CASE d # c
    BY <1>1, <1>3, <2>2 DEF LinkInv
  <2>. QED
    BY <2>1, <2>2
<1>6. StoryInv'
  <2>. SUFFICES ASSUME NEW p \in Phone, ~Over(p)', Has(down'[p], StoryType)
                PROVE  p \in approved'
    BY DEF StoryInv, Has
  <2>1. p \in Conn /\ p # c
    BY <1>1, HasFew, EventTypes DEF Conn, StoryType
  <2>. QED
    BY <1>1, <1>3, <2>1 DEF StoryInv
<1>. QED
  BY <1>4, <1>5, <1>6

\* A connection breaks.
LEMMA LoseEffect ==
  ASSUME R!IInv, ChannelInv, NEW c \in Conn, Lose(c)
  PROVE  /\ Sock(c) \in {"connecting", "open", "closing"}
         /\ down'[c] = <<Lost>> /\ \A d \in Conn : d # c => up'[d] = up[d] /\ down'[d] = down[d]
         /\ up'[c] = IF link[c] \in {"idle", "closed"} THEN <<>> ELSE <<Close>>
         /\ down' = [d \in Conn |-> down'[d]] /\ up' = [d \in Conn |-> up'[d]]
         /\ UNCHANGED <<link, shotUsed, hello, host, viewer, paired, ended, approved, tab, phones>>
         /\ \A d \in Conn : Sock(d)' = Sock(d)
         /\ Over(c)' /\ \A d \in Conn : d # c => (Over(d)' <=> Over(d))
<1>1. /\ down' = [down EXCEPT ![c] = <<Lost>>] /\ up' = [up EXCEPT ![c] = IF Relay!Listening(c) THEN <<Close>> ELSE <<>>]
      /\ down = [d \in Conn |-> down[d]] /\ up = [d \in Conn |-> up[d]]
      /\ Sock(c) \in {"connecting", "open", "closing"}
      /\ UNCHANGED <<link, shotUsed, hello, host, viewer, paired, ended, approved, tab, phones>>
  BY DEF Lose, ChannelInv, RelayRests, relay, TabRests, PhonesRest
<1>2. Relay!Listening(c) <=> link[c] \notin {"idle", "closed"}
  BY Links DEF Relay!Listening
<1>3. \A d \in Conn : Sock(d)' = Sock(d)
  BY SockRests DEF Lose
<1>4. <<Lost>>[1] = Lost /\ <<Lost>> # <<>>
  OBVIOUS
<1>5. Over(c)' /\ \A d \in Conn : d # c => (Over(d)' <=> Over(d))
  BY <1>1, <1>3, <1>4 DEF Over, Broken
<1>. QED
  BY <1>1, <1>2, <1>3, <1>5

LEMMA LoseKeepsLinks ==
  ASSUME R!IInv, ChannelInv, LinkInv, StoryInv, NEW c \in Conn, Lose(c)
  PROVE  ChannelInv' /\ LinkInv' /\ StoryInv'
<1>1. /\ Sock(c) \in {"connecting", "open", "closing"}
      /\ down'[c] = <<Lost>> /\ \A d \in Conn : d # c => up'[d] = up[d] /\ down'[d] = down[d]
      /\ up'[c] = IF link[c] \in {"idle", "closed"} THEN <<>> ELSE <<Close>>
      /\ down' = [d \in Conn |-> down'[d]] /\ up' = [d \in Conn |-> up'[d]]
      /\ UNCHANGED <<link, shotUsed, approved>>
      /\ \A d \in Conn : Sock(d)' = Sock(d)
      /\ Over(c)' /\ \A d \in Conn : d # c => (Over(d)' <=> Over(d))
  BY LoseEffect
<1>2. <<Lost>>[1] = Lost /\ <<Lost>> # <<>> /\ Has(<<Close>>, {"close"})
  BY HasFew, EventTypes
<1>3. ChannelInv'
  <2>1. /\ <<Lost>> \in Seq(Told(c) \cup Event)
        /\ \A k \in DOMAIN <<Lost>> : <<Lost>>[k] = Lost => k = 1
        /\ \A S : <<>> \in Seq(S)
        /\ <<Close>> \in Seq(OfTab) /\ <<Close>> \in Seq(OfPhone)
    BY DEF Event, OfTab, OfPhone
  <2>. QED
    BY <1>1, <2>1 DEF ChannelInv
<1>4. LinkInv'
  <2>. SUFFICES ASSUME NEW d \in Conn
                PROVE  /\ link'[d] = "idle" => ~shotUsed'[d] /\ up'[d] = <<>> /\ down'[d] \in {<<>>, <<Lost>>}
                       /\ Sock(d)' = "none" => link'[d] = "idle" /\ down'[d] = <<>>
                       /\ Sock(d)' = "connecting" => IF down'[d] = <<>> THEN link'[d] = "idle"
                                                     ELSE down'[d][1] \in {Opened, Lost}
                       /\ Has(up'[d], {"close"}) \/ link'[d] = "closed" => Over(d)'
                       /\ Over(d)' => link'[d] \in {"idle", "closed"} \/ Has(up'[d], {"close"})
    BY DEF LinkInv, Has
  <2>1. CASE d = c
    BY <1>1, <1>2, <2>1 DEF LinkInv
  <2>2. CASE d # c
    BY <1>1, <2>2 DEF LinkInv
  <2>. QED
    BY <2>1, <2>2
<1>5. StoryInv'
  <2>. SUFFICES ASSUME NEW p \in Phone, ~Over(p)', Has(down'[p], StoryType)
                PROVE  p \in approved'
    BY DEF StoryInv, Has
  <2>1. p \in Conn /\ p # c
    BY <1>1 DEF Conn
  <2>. QED
    BY <1>1, <2>1 DEF StoryInv
<1>. QED
  BY <1>3, <1>4, <1>5

-----------------------------------------------------------------------------
(* The roles                                                                *)

LEMMA RolesRest ==
  RoleInv /\ UNCHANGED <<host, viewer, hello, paired, shotUsed>> => RoleInv'
  BY DEF RoleInv

LEMMA RelayKeepsRoles ==
  ASSUME R!IInv, ChannelInv, RoleInv, RelayStep
  PROVE  RoleInv'
<1>1. RolesTurn /\ HelloTurn /\ RelayInv
  BY OfRelay DEF RelayStep, RelayTurn
<1>2. Relay!NoHello.role = "none" /\ HostConn \in Conn /\ Phone \subseteq Conn /\ HostConn \notin Phone
  BY ConnAssumption DEF Relay!NoHello, Conn
<1>3. ASSUME NEW c \in Conn
      PROVE  /\ c \in Phone => hello'[c].role # "host"
             /\ c = HostConn => hello'[c].role # "viewer"
  <2>1. CASE hello'[c] \in {hello[c], Relay!NoHello}
    BY <1>2, <2>1 DEF RoleInv
  <2>2. CASE UpHeard(c) /\ Head(up[c]).type = "hello" /\ hello'[c].role = Head(up[c]).role
    BY <1>2, <2>2, HeadUp, SentTypes DEF UpHeard
  <2>. QED
    BY <2>1, <2>2 DEF RelayStep, UpRests, UpHeard, UpEnds, HelloFalls, HeardOf
<1>4. host' \in {NoConn, HostConn} /\ viewer' \in Phone \cup {NoConn}
  <2>1. ASSUME NEW c \in Conn, HostComes(c)
        PROVE  host' = HostConn /\ viewer' = viewer
    BY <1>2, <2>1 DEF HostComes, RoleInv, Conn
  <2>2. ASSUME NEW c \in Conn, ViewerComes(c)
        PROVE  host' = host /\ viewer' \in Phone
    BY <1>2, <2>2 DEF ViewerComes, RoleInv, Conn
  <2>. QED
    BY <1>1, <2>1, <2>2 DEF RolesTurn, Keeps, ViewerGoes, Ends, Approves, Forgets, RoleInv
<1>5. paired' => shotUsed'[HostConn]
  <2>1. shotUsed[HostConn] => shotUsed'[HostConn]
    BY <1>1, <1>2 DEF HelloTurn
  <2>2. Approves => shotUsed[HostConn]
    BY <1>1, <1>2 DEF Approves, Live, RoleInv, RelayInv
  <2>3. paired' => paired \/ Approves
    BY <1>1 DEF RolesTurn, Keeps, ViewerGoes, Ends, HostComes, ViewerComes, Forgets
  <2>. QED
    BY <2>1, <2>2, <2>3 DEF RoleInv
<1>. QED
  BY <1>2, <1>3, <1>4, <1>5 DEF RoleInv

-----------------------------------------------------------------------------
(* The request of a story                                                   *)

\* A session that is not paired and may have the tab as its host was one before.
LEMMA MayComeBefore ==
  ASSUME R!IInv, RoleInv, RelayStep, ~paired', HostMayCome'
  PROVE  ~paired /\ HostMayCome
<1>1. RolesTurn /\ HelloTurn /\ LinksTurn /\ HostConn \in Conn /\ RelayInv
  BY OfRelay DEF RelayStep, RelayTurn, Conn
<1>2. shotUsed \in [Conn -> BOOLEAN] /\ (hello[HostConn] # Relay!NoHello => shotUsed[HostConn])
  BY <1>1 DEF RelayInv, Relay!TypeOK
<1>3. ~paired
  <2>1. SUFFICES ASSUME paired PROVE FALSE
    OBVIOUS
  <2>2. Forgets
    BY <1>1, <2>1 DEF RolesTurn, Keeps, ViewerGoes, Ends, HostComes, ViewerComes, Approves
  <2>. QED
    BY <1>1, <2>1, <2>2 DEF Forgets, HostMayCome, RoleInv
<1>4. host' # NoConn => host # NoConn \/ hello[HostConn] # Relay!NoHello
  <2>1. ASSUME NEW c \in Conn, HostComes(c)
        PROVE  hello[HostConn] # Relay!NoHello
    BY <2>1 DEF HostComes, RoleInv, Conn, Relay!NoHello
  <2>. QED
    BY <1>1, <2>1 DEF RolesTurn, Keeps, ViewerGoes, Ends, ViewerComes, Approves, Forgets
<1>5. hello'[HostConn] # Relay!NoHello =>
        hello[HostConn] # Relay!NoHello \/ (~shotUsed[HostConn] /\ link[HostConn] \in {"open", "closing"})
  BY <1>1 DEF HelloTurn
<1>6. link'[HostConn] # "closed" /\ ~shotUsed'[HostConn] => link[HostConn] # "closed" /\ ~shotUsed[HostConn]
  BY <1>1 DEF LinksTurn, HelloTurn
<1>. QED
  BY <1>3, <1>4, <1>5, <1>6 DEF HostMayCome

LEMMA RelayKeepsRequest ==
  ASSUME R!IInv, ChannelInv, RoleInv, RequestInv, RelayStep
  PROVE  RequestInv'
<1>1. Talks /\ FromRelay /\ RolesTurn /\ answering' = answering /\ (UpRests \/ \E c \in Conn : UpHeard(c) \/ UpEnds(c))
  BY DEF RelayStep, RelayTurn, TabRests, tab
<1>2. "close" \notin Approval
  BY DEF Approval
<1>3. ASSUME NEW c \in Conn
      PROVE  /\ Has(down'[c], Approval) => Has(down[c], Approval) \/ \E m \in out' : m.to = c /\ m.type \in Approval
             /\ HasOne(down[c], Approval) /\ (Has(down[c], Approval) => \A m \in out' : m.to = c => m.type \notin Approval)
                  => HasOne(down'[c], Approval)
             /\ Has(up'[c], Request) => Has(up[c], Request)
             /\ HasOne(up[c], Request) => HasOne(up'[c], Request)
  <2>1. down[c] \in Seq(Told(c) \cup Event)
    BY DEF ChannelInv
  <2>. QED
    BY <1>1, <1>2, <2>1, MailGrows, UpShrinks
<1>4. ~paired' /\ HostMayCome' => ~paired /\ NothingUnderWay
  BY MayComeBefore DEF RequestInv
<1>5. CASE \A m \in out' : m.type \notin Approval
  <2>1. \A c \in Conn : /\ Has(down'[c], Approval) => Has(down[c], Approval)
                        /\ Has(up'[c], Request) => Has(up[c], Request)
                        /\ HasOne(down'[c], Approval) /\ HasOne(up'[c], Request)
    BY <1>3, <1>5 DEF RequestInv
  <2>2. NothingUnderWay => NothingUnderWay'
    BY <1>1, <2>1 DEF NothingUnderWay, Has
  <2>. QED
    BY <1>1, <1>4, <2>1, <2>2 DEF RequestInv, Has, HasOne
<1>6. CASE Approves
  <2>1. ~paired /\ host # NoConn /\ paired'
    BY <1>6 DEF Approves, Live
  <2>2. NothingUnderWay
    BY <2>1 DEF RequestInv, HostMayCome
  <2>3. \A c \in Conn : /\ Has(down'[c], Approval) => c = viewer
                        /\ ~Has(up'[c], Request)
                        /\ HasOne(down'[c], Approval) /\ HasOne(up'[c], Request)
    BY <1>3, <1>6, <2>2 DEF RequestInv, NothingUnderWay, Approves
  <2>. QED
    BY <1>1, <2>1, <2>2, <2>3 DEF RequestInv, NothingUnderWay, Has, HasOne
<1>7. CASE ~Approves /\ \E m \in out' : m.type \in Approval
  <2>1. PICK m \in out' : m.type \in Approval
    BY <1>7
  <2>2. NoNews /\ ~Forgets
    BY <1>1, <1>7, <2>1 DEF RolesTurn, HostComes, ViewerComes, Forgets, Approval
  <2>3. m.type = "snapshot-request" /\ \A n \in out' : n.type \in Approval => n.type = "snapshot-request"
    BY <2>1, <2>2 DEF NoNews, Approval
  <2>4. PICK c \in Conn : UpHeard(c) /\ Head(up[c]).type = "snapshot-request"
    BY <1>1, <2>3 DEF UpRests, UpEnds, UpHeard, HeardOf, NoRequest
  <2>5. paired /\ \A n \in out' : n.type \in Approval => n.to = host
    BY <2>1, <2>3, <2>4 DEF UpHeard, HeardOf
  <2>6. Has(up[c], Request) /\ ~Has(up'[c], Request)
    <3>. DEFINE S == IF c = HostConn THEN OfTab ELSE OfPhone
    <3>1. up[c] \in Seq(S) /\ up[c] # <<>> /\ up'[c] = Tail(up[c]) /\ HasOne(up[c], Request)
      BY <2>4 DEF ChannelInv, UpHeard, RequestInv
    <3>. HIDE DEF S
    <3>2. Head(up[c]) = up[c][1]
      BY <3>1, HasTail
    <3>3. up[c][1].type \in Request
      BY <2>4, <3>2 DEF Request
    <3>. QED
      BY <3>1, <3>3, HasTail
  <2>7. answering = 0 /\ \A d \in Conn : ~Has(down[d], Approval) /\ (Has(up[d], Request) => d = c)
    BY <2>6 DEF RequestInv
  <2>8. \A d \in Conn : /\ Has(down'[d], Approval) => d = host
                        /\ ~Has(up'[d], Request)
                        /\ HasOne(down'[d], Approval) /\ HasOne(up'[d], Request)
    BY <1>3, <2>5, <2>6, <2>7 DEF RequestInv
  <2>. QED
    BY <1>1, <1>4, <2>5, <2>7, <2>8 DEF RequestInv, Has, HasOne
<1>. QED
  BY <1>5, <1>6, <1>7

\* When the channels lose and nothing is asked, the requests under way remain what they were.
LEMMA RequestsShrink ==
  ASSUME RequestInv, UNCHANGED <<answering, paired>>, HostMayCome' => HostMayCome,
         \A c \in Conn : /\ Has(down'[c], Approval) => Has(down[c], Approval)
                         /\ Has(up'[c], Request) => Has(up[c], Request)
                         /\ HasOne(down[c], Approval) => HasOne(down'[c], Approval)
                         /\ HasOne(up[c], Request) => HasOne(up'[c], Request)
  PROVE  RequestInv'
<1>1. NothingUnderWay => NothingUnderWay'
  BY DEF NothingUnderWay, Has
<1>2. ~paired' /\ HostMayCome' => NothingUnderWay'
  BY <1>1 DEF RequestInv
<1>3. \A c \in Conn : HasOne(down'[c], Approval) /\ HasOne(up'[c], Request)
  BY DEF RequestInv
<1>. QED
  BY <1>2, <1>3 DEF RequestInv, Has, HasOne

\* The relay and its view of the connections rest while a client takes a turn.
LEMMA ClientRelay ==
  ASSUME NEW c \in Conn, NEW msgs, NEW rest, ClientStep(c, msgs, rest)
  PROVE  /\ UNCHANGED <<link, shotUsed, hello, host, viewer, paired, ended, approved>> /\ out' = {}
         /\ (HostMayCome' <=> HostMayCome) /\ (Live' <=> Live)
  BY DEF ClientStep, RelayRests, relay, HostMayCome, Live

\* What a client's turn leaves under way.
LEMMA ClientRequests ==
  ASSUME ChannelInv, NEW c \in Conn, NEW msgs, NEW rest, ClientStep(c, msgs, rest)
  PROVE  /\ \A d \in Conn \ {c} : up'[d] = up[d] /\ down'[d] = down[d]
         /\ Has(down'[c], Approval) => Has(down[c], Approval)
         /\ HasOne(down[c], Approval) => HasOne(down'[c], Approval)
         /\ Has(up'[c], Request) => Has(up[c], Request) \/ Has(msgs, Request)
         /\ HasOne(up[c], Request) /\ HasOne(msgs, Request) /\ ~(Has(up[c], Request) /\ Has(msgs, Request))
              => HasOne(up'[c], Request)
<1>1. "lost" \notin Approval /\ "close" \notin Request
  BY DEF Approval, Request
<1>2. /\ Has(down'[c], Approval) => Has(down[c], Approval)
      /\ HasOne(down[c], Approval) => HasOne(down'[c], Approval)
  BY <1>1, ClientDown, DownShrinks
<1>3. \A d \in Conn \ {c} : up'[d] = up[d] /\ down'[d] = down[d]
  BY ClientDown, UpGrows
<1>. QED
  BY <1>1, <1>2, <1>3, UpGrows

\* The tab is asked once per request that reaches it, and answers once.
LEMMA TabAnswering ==
  ASSUME TabActs \/ TabAnswers \/ TabHears, answering \in {0, 1}
  PROVE  \/ answering' = answering
         \/ answering = 1 /\ answering' = 0
         \/ /\ answering' = answering + 1 /\ down[HostConn] # <<>> /\ Head(down[HostConn]).type = "snapshot-request"
            /\ hostWs = "open" /\ hostWs' = "open" /\ FromTab(Tail(down[HostConn]))
<1>1. CASE TabActs
  BY <1>1 DEF TabActs, Tab!Start, Tab!Connect, Tab!Approve, Tab!Reject, Tab!End
<1>2. CASE TabAnswers
  BY <1>2 DEF TabAnswers, Tab!AnswerBlocked, Tab!AnswerSent
<1>3. CASE TabHears
  BY <1>3 DEF TabHears, Tab!OnOpen, Tab!OnClose, Tab!OnMessage, Tab!Ignore
<1>. QED
  BY <1>1, <1>2, <1>3

LEMMA TabKeepsRequest ==
  ASSUME PreviewInv, TabActs \/ TabAnswers \/ TabHears
  PROVE  RequestInv'
<1>0. ChannelInv /\ RequestInv /\ HostConn \in Conn /\ answering \in {0, 1}
  BY DEF PreviewInv, RequestInv, Conn
<1>1. PICK rest : ClientStep(HostConn, hostOut', rest)
  BY TabTakesTurn
<1>2. /\ UNCHANGED <<paired>> /\ (HostMayCome' <=> HostMayCome)
  BY <1>0, <1>1, ClientRelay
<1>3. ~Has(hostOut', Request) /\ HasOne(hostOut', Request)
  <2>1. hostOut' \in Seq(TabSays)
    BY <1>1 DEF ClientStep, Says
  <2>2. \A k \in DOMAIN hostOut' : hostOut'[k] \in TabSays
    BY <2>1
  <2>3. \A m \in TabSays : m.type # "snapshot-request"
    BY SentTypes DEF OfTab
  <2>. QED
    BY <2>2, <2>3 DEF Has, HasOne, Request
<1>4. \A c \in Conn : /\ Has(down'[c], Approval) => Has(down[c], Approval)
                      /\ Has(up'[c], Request) => Has(up[c], Request)
                      /\ HasOne(down[c], Approval) => HasOne(down'[c], Approval)
                      /\ HasOne(up[c], Request) => HasOne(up'[c], Request)
  BY <1>0, <1>1, <1>3, ClientRequests
<1>5. CASE answering' = answering
  BY <1>0, <1>2, <1>4, <1>5, RequestsShrink
<1>6. CASE answering = 1 /\ answering' = 0
  <2>1. \A c \in Conn : /\ ~Has(down'[c], Approval) /\ ~Has(up'[c], Request)
                        /\ HasOne(down'[c], Approval) /\ HasOne(up'[c], Request)
    BY <1>0, <1>4, <1>6 DEF RequestInv
  <2>. QED
    BY <1>6, <2>1 DEF RequestInv, NothingUnderWay, Has, HasOne
<1>7. CASE /\ answering' = answering + 1 /\ down[HostConn] # <<>> /\ Head(down[HostConn]).type = "snapshot-request"
           /\ hostWs = "open" /\ hostWs' = "open" /\ FromTab(Tail(down[HostConn]))
  <2>. DEFINE S == Told(HostConn) \cup Event
  <2>1. down[HostConn] \in Seq(S) /\ HasOne(down[HostConn], Approval)
    BY <1>0 DEF ChannelInv, RequestInv
  <2>. HIDE DEF S
  <2>2. down[HostConn][1].type \in Approval
    BY <1>7, <2>1, HasTail DEF Approval
  <2>3. Has(down[HostConn], Approval) /\ ~Has(Tail(down[HostConn]), Approval)
    BY <1>7, <2>1, <2>2, HasTail
  <2>4. down'[HostConn] = Tail(down[HostConn])
    BY <1>0, <1>7 DEF FromTab, FromClient, ChannelInv, Sock, Closing
  <2>5. answering = 0 /\ \A c \in Conn : ~Has(up[c], Request) /\ (Has(down[c], Approval) => c = HostConn)
    BY <1>0, <2>3 DEF RequestInv
  <2>6. \A c \in Conn : ~Has(up'[c], Request) /\ ~Has(down'[c], Approval)
    BY <1>4, <2>3, <2>4, <2>5
  <2>7. ~(~paired /\ HostMayCome)
    BY <1>0, <2>3 DEF RequestInv, NothingUnderWay
  <2>8. \A c \in Conn : HasOne(down'[c], Approval) /\ HasOne(up'[c], Request)
    BY <1>0, <1>4 DEF RequestInv
  <2>9. answering' = 1
    BY <1>7, <2>5
  <2>. QED
    BY <1>2, <2>6, <2>7, <2>8, <2>9 DEF RequestInv, Has, HasOne
<1>. QED
  BY <1>0, <1>5, <1>6, <1>7, TabAnswering

\* A phone asks for the story when it hears of its approval.
LEMMA PhoneAsking ==
  ASSUME NEW p \in Phone, PhoneActs(p) \/ PhoneHears(p)
  PROVE  \/ phoneOut' \in {<<>>, <<HelloMsg("viewer", "good")>>}
         \/ /\ phoneOut' = <<Plain("snapshot-request")>> /\ down[p] # <<>> /\ Head(down[p]).type = "pair-approve"
            /\ ws[p] = "open" /\ UNCHANGED ws /\ FromPhone(p, Tail(down[p]))
<1>1. CASE PhoneActs(p)
  BY <1>1 DEF PhoneActs, Phones!Load, Phones!Dispose
<1>2. CASE PhoneHears(p)
  BY <1>2, SameMessages DEF PhoneHears, Phones!OnOpen, Phones!OnClose, Phones!OnMessage, Phones!Ignore, Phones!Quit,
     Phones!Manifest, Phones!Chunk
<1>. QED
  BY <1>1, <1>2

LEMMA PhoneKeepsRequest ==
  ASSUME PreviewInv, NEW p \in Phone, PhoneActs(p) \/ PhoneHears(p)
  PROVE  RequestInv'
<1>0. ChannelInv /\ RequestInv /\ p \in Conn /\ p # HostConn
  BY ConnAssumption DEF PreviewInv, Conn
<1>1. PICK rest : ClientStep(p, phoneOut', rest) /\ TabRests
  BY PhoneTakesTurn
<1>2. /\ UNCHANGED <<paired, answering>> /\ (HostMayCome' <=> HostMayCome)
  BY <1>0, <1>1, ClientRelay DEF TabRests, tab
<1>3. CASE phoneOut' \in {<<>>, <<HelloMsg("viewer", "good")>>}
  <2>1. ~Has(phoneOut', Request) /\ HasOne(phoneOut', Request)
    <3>1. HelloMsg("viewer", "good").type = "hello"
      BY DEF HelloMsg
    <3>. QED
      BY <1>3, <3>1, HasFew DEF Request
  <2>2. \A c \in Conn : /\ Has(down'[c], Approval) => Has(down[c], Approval)
                        /\ Has(up'[c], Request) => Has(up[c], Request)
                        /\ HasOne(down[c], Approval) => HasOne(down'[c], Approval)
                        /\ HasOne(up[c], Request) => HasOne(up'[c], Request)
    BY <1>0, <1>1, <2>1, ClientRequests
  <2>. QED
    BY <1>0, <1>2, <2>2, RequestsShrink
<1>4. CASE /\ phoneOut' = <<Plain("snapshot-request")>> /\ down[p] # <<>> /\ Head(down[p]).type = "pair-approve"
           /\ ws[p] = "open" /\ UNCHANGED ws /\ FromPhone(p, Tail(down[p]))
  <2>. DEFINE S == Told(p) \cup Event
  <2>1. down[p] \in Seq(S) /\ HasOne(down[p], Approval)
    BY <1>0 DEF ChannelInv, RequestInv
  <2>. HIDE DEF S
  <2>2. down[p][1].type \in Approval
    BY <1>4, <2>1, HasTail DEF Approval
  <2>3. Has(down[p], Approval) /\ ~Has(Tail(down[p]), Approval)
    BY <1>4, <2>1, <2>2, HasTail
  <2>4. down'[p] = Tail(down[p])
    BY <1>0, <1>4 DEF FromPhone, FromClient, ChannelInv, Sock, Closing
  <2>5. answering = 0 /\ \A c \in Conn : ~Has(up[c], Request) /\ (Has(down[c], Approval) => c = p)
    BY <1>0, <2>3 DEF RequestInv
  <2>6. HasOne(phoneOut', Request)
    BY <1>4, HasFew
  <2>7. \A c \in Conn : /\ ~Has(down'[c], Approval) /\ (Has(up'[c], Request) => c = p)
                        /\ HasOne(down'[c], Approval) /\ HasOne(up'[c], Request)
    BY <1>0, <1>1, <2>3, <2>4, <2>5, <2>6, ClientRequests DEF RequestInv
  <2>8. ~(~paired /\ HostMayCome)
    BY <1>0, <2>3 DEF RequestInv, NothingUnderWay
  <2>. QED
    BY <1>2, <2>5, <2>7, <2>8 DEF RequestInv, Has, HasOne
<1>. QED
  BY <1>3, <1>4, PhoneAsking

LEMMA AcceptKeepsRequest ==
  ASSUME PreviewInv, NEW c \in Conn, RelayAccepts(c)
  PROVE  RequestInv'
<1>1. R!IInv /\ ChannelInv /\ LinkInv /\ RequestInv
  BY DEF PreviewInv
<1>2. /\ link[c] = "idle" /\ ~shotUsed[c] /\ down'[c] = <<Opened>> /\ up' = up
      /\ \A d \in Conn : d # c => link'[d] = link[d] /\ down'[d] = down[d]
      /\ UNCHANGED <<shotUsed, hello, host, paired, answering>>
  BY <1>1, AcceptEffect DEF tab
<1>3. HostMayCome' => HostMayCome
  <2>1. HostConn \in Conn
    BY DEF Conn
  <2>2. CASE c = HostConn
    BY <1>2, <2>2 DEF HostMayCome
  <2>3. CASE c # HostConn
    BY <1>2, <2>1, <2>3 DEF HostMayCome
  <2>. QED
    BY <2>2, <2>3
<1>4. ~Has(<<Opened>>, Approval) /\ HasOne(<<Opened>>, Approval)
  BY HasFew, EventTypes DEF Approval
<1>. QED
  BY <1>1, <1>2, <1>3, <1>4, RequestsShrink

LEMMA LoseKeepsRequest ==
  ASSUME PreviewInv, NEW c \in Conn, Lose(c)
  PROVE  RequestInv'
<1>1. R!IInv /\ ChannelInv /\ RequestInv
  BY DEF PreviewInv
<1>2. /\ down'[c] = <<Lost>> /\ \A d \in Conn : d # c => up'[d] = up[d] /\ down'[d] = down[d]
      /\ up'[c] \in {<<>>, <<Close>>}
      /\ UNCHANGED <<link, shotUsed, hello, host, paired, answering>>
  BY <1>1, LoseEffect DEF tab
<1>3. HostMayCome' => HostMayCome
  BY <1>2 DEF HostMayCome
<1>4. /\ ~Has(<<Lost>>, Approval) /\ HasOne(<<Lost>>, Approval)
      /\ ~Has(up'[c], Request) /\ HasOne(up'[c], Request)
  BY <1>2, HasFew, EventTypes DEF Approval, Request
<1>. QED
  BY <1>1, <1>2, <1>3, <1>4, RequestsShrink

-----------------------------------------------------------------------------
(* The host                                                                 *)

LEMMA OfRelayLater == R!IInv' => RelayInv'
<1>1. R!IInv => RelayInv
  BY OfRelay
<1>. QED
  BY <1>1, PTL

\* The relay says once that the host is there, and to the tab.
LEMMA ReadyIsNews ==
  ASSUME RoleInv, RolesTurn, NEW m \in out', m.type = "host-ready"
  PROVE  m.to = HostConn /\ HostComes(HostConn)
<1>1. PICK c \in Conn : HostComes(c)
  BY DEF RolesTurn, NoNews, ViewerComes, Approves, Forgets
<1>2. c = HostConn
  BY <1>1 DEF HostComes, RoleInv, Conn
<1>. QED
  BY <1>1, <1>2 DEF HostComes

LEMMA RelayKeepsHost ==
  ASSUME R!IInv, R!IInv', ChannelInv, RoleInv, RoleInv', HostInv, RelayStep
  PROVE  HostInv'
<1>0. HostConn \in Conn /\ RelayInv /\ RelayInv' /\ down[HostConn] \in Seq(Told(HostConn) \cup Event)
  BY OfRelay, OfRelayLater DEF Conn, ChannelInv
<1>1. /\ Talks /\ FromRelay /\ RolesTurn /\ HelloTurn /\ LinksTurn /\ UNCHANGED <<tab, phones>>
      /\ UpRests \/ \E c \in Conn : UpHeard(c) \/ UpEnds(c)
  BY DEF RelayStep, RelayTurn, TabRests, PhonesRest
<1>2. /\ Has(down'[HostConn], {"host-ready"}) =>
           Has(down[HostConn], {"host-ready"}) \/ \E m \in out' : m.to = HostConn /\ m.type = "host-ready"
      /\ HasOne(down[HostConn], {"host-ready"}) /\ (Has(down[HostConn], {"host-ready"}) => \A m \in out' : m.type # "host-ready")
           => HasOne(down'[HostConn], {"host-ready"})
      /\ Has(down'[HostConn], {"error"}) =>
           Has(down[HostConn], {"error"}) \/ \E m \in out' : m.to = HostConn /\ m.type = "error"
  <2>1. \A T : "close" \notin T =>
          /\ Has(down'[HostConn], T) => Has(down[HostConn], T) \/ \E m \in out' : m.to = HostConn /\ m.type \in T
          /\ HasOne(down[HostConn], T) /\ (Has(down[HostConn], T) => \A m \in out' : m.to = HostConn => m.type \notin T)
               => HasOne(down'[HostConn], T)
    BY <1>0, <1>1, MailGrows
  <2>2. "close" \notin {"host-ready"} /\ "close" \notin {"error"}
    OBVIOUS
  <2>. QED
    BY <2>1, <2>2
<1>3. Announced => hello[HostConn] = Relay!NoHello /\ shotUsed[HostConn] /\ ~\E m \in out' : m.type = "host-ready"
  <2>1. Announced => hello[HostConn] = Relay!NoHello /\ shotUsed[HostConn]
    BY DEF HostInv
  <2>2. HostComes(HostConn) => hello[HostConn] # Relay!NoHello
    BY DEF HostComes, Relay!NoHello
  <2>. QED
    BY <1>1, <2>1, <2>2, ReadyIsNews
<1>4. ASSUME Announced
      PROVE  /\ shotUsed'[HostConn] /\ hello'[HostConn] = Relay!NoHello
             /\ Live' => link'[HostConn] = "open"
  <2>1. shotUsed'[HostConn] /\ hello'[HostConn] = Relay!NoHello
    BY <1>0, <1>1, <1>3, <1>4 DEF HelloTurn
  <2>2. Live' => Live
    <3>1. ~HostComes(HostConn)
      BY <1>3, <1>4 DEF HostComes, Relay!NoHello
    <3>2. \A c \in Conn : ~HostComes(c)
      BY <3>1 DEF HostComes, RoleInv, Conn
    <3>. QED
      BY <1>1, <3>2 DEF RolesTurn, Keeps, ViewerGoes, Ends, ViewerComes, Approves, Forgets, Live
  <2>3. ASSUME Live'
        PROVE  link'[HostConn] = "open"
    <3>1. link[HostConn] = "open" /\ host = HostConn /\ host' = HostConn /\ ~ended /\ ~ended'
      BY <1>4, <2>2, <2>3 DEF HostInv, Live, RoleInv
    <3>2. link' \in [Conn -> {"idle", "open", "closing", "closed"}]
      BY <1>0 DEF RelayInv, Relay!TypeOK, Relay!Link
    <3>3. link'[HostConn] # "closing"
      BY <1>0, <3>1 DEF RelayInv
    <3>4. link'[HostConn] # "idle"
      BY <1>0, <1>1, <3>1 DEF LinksTurn
    <3>5. link'[HostConn] # "closed"
      <4>1. ASSUME UpEnds(HostConn) PROVE FALSE
        <5>1. host' = NoConn
          BY <3>1, <4>1 DEF UpEnds, Ends
        <5>. QED
          BY <1>0, <3>1, <5>1, ConnAssumption
      <4>. QED
        BY <1>0, <1>1, <3>1, <4>1 DEF UpRests, UpHeard, UpEnds, NoneCloses
    <3>. QED
      BY <1>0, <3>2, <3>3, <3>4, <3>5
  <2>. QED
    BY <2>1, <2>3
<1>5. ASSUME ~Announced, Announced'
      PROVE  /\ shotUsed'[HostConn] /\ hello'[HostConn] = Relay!NoHello
             /\ link'[HostConn] = "open"
  <2>1. PICK m \in out' : m.to = HostConn /\ m.type = "host-ready"
    BY <1>1, <1>2, <1>5 DEF Announced, Has, tab
  <2>2. HostComes(HostConn)
    BY <1>1, <2>1, ReadyIsNews
  <2>3. hello[HostConn] # Relay!NoHello
    BY <2>2 DEF HostComes, Relay!NoHello
  <2>4. shotUsed[HostConn] /\ shotUsed \in [Conn -> BOOLEAN]
    BY <1>0, <2>3 DEF RelayInv, Relay!TypeOK
  <2>5. shotUsed'[HostConn]
    BY <1>0, <1>1, <2>4 DEF HelloTurn
  <2>. QED
    BY <1>1, <2>1, <2>2, <2>5 DEF HostComes, Talks
<1>6. /\ Announced' => shotUsed'[HostConn] /\ hello'[HostConn] = Relay!NoHello
      /\ Announced' /\ Live' => link'[HostConn] = "open"
  BY <1>4, <1>5
<1>7. HasOne(down'[HostConn], {"host-ready"})
  BY <1>2, <1>3 DEF HostInv, Announced
<1>8. linkShown' => ~Has(down'[HostConn], {"host-ready"}) /\ hostWs' \in {"open", "closing", "closed"}
  BY <1>1, <1>2, <1>3 DEF HostInv, Announced, tab
<1>9. \A p \in Phone : ws'[p] # "none" => linkShown'
  BY <1>1 DEF HostInv, tab, phones
<1>10. Has(down'[HostConn], {"error"}) => link'[HostConn] # "open"
  BY <1>0, <1>1, <1>2 DEF HostInv, LinksTurn, Talks
<1>11. over' /\ linkShown' => hostWs' # "open" \/ link'[HostConn] # "open"
  BY <1>0, <1>1 DEF HostInv, LinksTurn, tab
<1>12. starting' # "done" => hostWs' = "none"
  BY <1>1 DEF HostInv, tab
<1>. QED
  BY <1>6, <1>7, <1>8, <1>9, <1>10, <1>11, <1>12 DEF HostInv, Announced, Live, Has, HasOne

\* What the tab does to what it shows and to its socket.
LEMMA TabShows ==
  ASSUME TabActs \/ TabAnswers \/ TabHears, ChannelInv, HostInv, Tab!TypeOK
  PROVE  /\ linkShown => linkShown' /\ (hostWs # "open" => hostWs' # "open") /\ hostWs' \in {"open", "closing", "closed"}
         /\ ~linkShown /\ linkShown' =>
              /\ down[HostConn] # <<>> /\ Head(down[HostConn]).type = "host-ready" /\ ~over /\ ~over'
              /\ hostWs = "open" /\ hostWs' = "open" /\ FromTab(Tail(down[HostConn]))
         /\ over => over'
         /\ ~over /\ over' => \/ hostWs' # "open"
                              \/ /\ down[HostConn] # <<>> /\ Head(down[HostConn]).type = "error"
                                 /\ hostWs' = hostWs
         /\ starting' # "done" => hostWs' = "none"
<1>0. /\ starting \in {"no", "deriving", "done"} /\ (starting # "done" => hostWs = "none")
      /\ linkShown => hostWs \in {"open", "closing", "closed"}
      /\ over \in BOOLEAN /\ linkShown \in BOOLEAN
  BY DEF HostInv, Tab!TypeOK
<1>1. CASE TabActs
  BY <1>0, <1>1 DEF TabActs, Tab!Start, Tab!Connect, Tab!Approve, Tab!Reject, Tab!End
<1>2. CASE TabAnswers
  BY <1>0, <1>2 DEF TabAnswers, Tab!AnswerBlocked, Tab!AnswerSent
<1>3. CASE TabHears
  <2>1. down[HostConn] # <<>> => Head(down[HostConn]).type # "session-expired"
    <3>1. HostConn \in Conn
      BY DEF Conn
    <3>. QED
      BY <3>1, HeadDown, ToldTypes, EventTypes DEF Event
  <2>. QED
    BY <1>0, <1>3, <2>1 DEF TabHears, Tab!OnOpen, Tab!OnClose, Tab!OnMessage, Tab!Ignore
<1>. QED
  BY <1>1, <1>2, <1>3

LEMMA TabKeepsHost ==
  ASSUME PreviewInv, TabActs \/ TabAnswers \/ TabHears
  PROVE  HostInv'
<1>0. ChannelInv /\ HostInv /\ Tab!TypeOK /\ HostConn \in Conn
  BY DEF PreviewInv, Conn
<1>1. PICK rest : ClientStep(HostConn, hostOut', rest) /\ PhonesRest
  BY TabTakesTurn
<1>2. UNCHANGED <<link, shotUsed, hello, ws>> /\ (Live' <=> Live)
  BY <1>0, <1>1, ClientRelay DEF PhonesRest, phones
<1>3. \A T : "lost" \notin T => /\ Has(down'[HostConn], T) => Has(down[HostConn], T)
                                /\ HasOne(down[HostConn], T) => HasOne(down'[HostConn], T)
  BY <1>0, <1>1, ClientDown, DownShrinks
<1>4. /\ Has(down'[HostConn], {"host-ready"}) => Has(down[HostConn], {"host-ready"})
      /\ HasOne(down'[HostConn], {"host-ready"})
      /\ Has(down'[HostConn], {"error"}) => Has(down[HostConn], {"error"})
  <2>1. "lost" \notin {"host-ready"} /\ "lost" \notin {"error"}
    OBVIOUS
  <2>. QED
    BY <1>0, <1>3, <2>1 DEF HostInv
<1>5. ASSUME ~linkShown, linkShown'
      PROVE  /\ Has(down[HostConn], {"host-ready"}) /\ ~Has(down'[HostConn], {"host-ready"})
             /\ ~over' /\ hostWs' = "open"
  <2>1. /\ down[HostConn] # <<>> /\ Head(down[HostConn]).type = "host-ready" /\ ~over'
        /\ hostWs = "open" /\ hostWs' = "open" /\ FromTab(Tail(down[HostConn]))
    BY <1>0, <1>5, TabShows
  <2>. DEFINE S == Told(HostConn) \cup Event
  <2>2. down[HostConn] \in Seq(S) /\ HasOne(down[HostConn], {"host-ready"})
    BY <1>0 DEF ChannelInv, HostInv
  <2>. HIDE DEF S
  <2>3. down[HostConn][1].type \in {"host-ready"}
    BY <2>1, <2>2, HasTail
  <2>4. Has(down[HostConn], {"host-ready"}) /\ ~Has(Tail(down[HostConn]), {"host-ready"})
    BY <2>1, <2>2, <2>3, HasTail
  <2>5. down'[HostConn] = Tail(down[HostConn])
    BY <1>0, <2>1 DEF FromTab, FromClient, ChannelInv, Sock, Closing
  <2>. QED
    BY <2>1, <2>4, <2>5
<1>6. Announced' => Announced
  BY <1>4, <1>5 DEF Announced, Has
<1>7. /\ Announced' => shotUsed'[HostConn] /\ hello'[HostConn] = Relay!NoHello
      /\ Announced' /\ Live' => link'[HostConn] = "open"
  BY <1>0, <1>2, <1>6 DEF HostInv
<1>8. linkShown' => ~Has(down'[HostConn], {"host-ready"}) /\ hostWs' \in {"open", "closing", "closed"}
  BY <1>0, <1>4, <1>5, TabShows DEF HostInv
<1>9. \A p \in Phone : ws'[p] # "none" => linkShown'
  BY <1>0, <1>2, TabShows DEF HostInv
<1>10. Has(down'[HostConn], {"error"}) => link'[HostConn] # "open"
  BY <1>0, <1>2, <1>4 DEF HostInv
<1>11. ASSUME over', linkShown'
       PROVE  hostWs' # "open" \/ link'[HostConn] # "open"
  <2>1. linkShown
    BY <1>5, <1>11
  <2>2. CASE over
    BY <1>0, <1>2, <2>1, <2>2, TabShows DEF HostInv
  <2>3. CASE ~over
    <3>1. hostWs' # "open" \/ (down[HostConn] # <<>> /\ Head(down[HostConn]).type = "error")
      BY <1>0, <1>11, <2>3, TabShows
    <3>2. down[HostConn] # <<>> /\ Head(down[HostConn]).type = "error" => Has(down[HostConn], {"error"})
      BY <1>0, HeadDown DEF Has
    <3>. QED
      BY <1>0, <1>2, <3>1, <3>2 DEF HostInv
  <2>. QED
    BY <2>2, <2>3
<1>12. starting' # "done" => hostWs' = "none"
  BY <1>0, TabShows
<1>. QED
  BY <1>4, <1>7, <1>8, <1>9, <1>10, <1>11, <1>12 DEF HostInv, Announced, Live, Has, HasOne

LEMMA PhoneKeepsHost ==
  ASSUME PreviewInv, NEW p \in Phone, PhoneActs(p) \/ PhoneHears(p)
  PROVE  HostInv'
<1>0. ChannelInv /\ HostInv /\ HostConn \in Conn \ Phone /\ p # HostConn /\ p \in Conn /\ Phone \subseteq Conn
  BY ConnAssumption DEF PreviewInv, Conn
<1>1. PICK rest : ClientStep(p, phoneOut', rest) /\ TabRests
  BY PhoneTakesTurn
<1>2. UNCHANGED <<link, shotUsed, hello, host, ended, tab>> /\ (Live' <=> Live)
  BY <1>0, <1>1, ClientRelay DEF TabRests
<1>3. down'[HostConn] = down[HostConn]
  BY <1>0, <1>1, ClientDown
<1>4. ws'[p] # "none" => ws[p] # "none" \/ linkShown
  <2>1. CASE PhoneActs(p)
    BY <2>1 DEF PhoneActs, Phones!Dispose
  <2>2. CASE PhoneHears(p)
    <3>1. Sock(p) = ws[p]
      BY <1>0 DEF Sock
    <3>. QED
      BY <2>2, <3>1 DEF PhoneHears, Phones!OnOpen, Phones!OnClose, Phones!OnMessage, Phones!Ignore
  <2>. QED
    BY <2>1, <2>2
<1>5. \A q \in Phone : q # p => ws'[q] = ws[q]
  BY <1>0, <1>1 DEF ClientStep, Sock
<1>6. \A q \in Phone : ws'[q] # "none" => linkShown'
  BY <1>0, <1>2, <1>4, <1>5 DEF HostInv, tab
<1>. QED
  BY <1>0, <1>2, <1>3, <1>6 DEF HostInv, Announced, Live, Has, HasOne, tab

LEMMA AcceptKeepsHost ==
  ASSUME PreviewInv, NEW c \in Conn, RelayAccepts(c)
  PROVE  HostInv'
<1>0. R!IInv /\ ChannelInv /\ LinkInv /\ HostInv /\ HostConn \in Conn
  BY DEF PreviewInv, Conn
<1>1. /\ link[c] = "idle" /\ ~shotUsed[c] /\ down'[c] = <<Opened>>
      /\ \A d \in Conn : d # c => link'[d] = link[d] /\ down'[d] = down[d]
      /\ UNCHANGED <<shotUsed, hello, host, ended, phase, over, starting, hostWs, linkShown, ws>>
  BY <1>0, AcceptEffect DEF tab, phones
<1>2. CASE c # HostConn
  BY <1>0, <1>1, <1>2 DEF HostInv, Announced, Live, Has, HasOne
<1>3. CASE c = HostConn
  <2>1. ~linkShown
    BY <1>0, <1>1, <1>3 DEF HostInv, Announced
  <2>2. \A T : Has(<<Opened>>, T) <=> "open" \in T
    BY HasFew, EventTypes
  <2>3. ~Has(down'[HostConn], {"host-ready"}) /\ ~Has(down'[HostConn], {"error"})
    BY <1>1, <1>3, <2>2
  <2>. QED
    BY <1>0, <1>1, <2>1, <2>3 DEF HostInv, Announced, Has, HasOne
<1>. QED
  BY <1>2, <1>3

LEMMA LoseKeepsHost ==
  ASSUME PreviewInv, NEW c \in Conn, Lose(c)
  PROVE  HostInv'
<1>0. R!IInv /\ ChannelInv /\ HostInv /\ HostConn \in Conn
  BY DEF PreviewInv, Conn
<1>1. /\ down'[c] = <<Lost>>
      /\ \A d \in Conn : d # c => down'[d] = down[d]
      /\ UNCHANGED <<link, shotUsed, hello, host, ended, phase, over, starting, hostWs, linkShown, ws>>
  BY <1>0, LoseEffect DEF tab, phones
<1>2. CASE c # HostConn
  BY <1>0, <1>1, <1>2 DEF HostInv, Announced, Live, Has, HasOne
<1>3. CASE c = HostConn
  <2>1. \A T : Has(<<Lost>>, T) <=> "lost" \in T
    BY HasFew, EventTypes
  <2>2. ~Has(down'[HostConn], {"host-ready"}) /\ ~Has(down'[HostConn], {"error"})
    BY <1>1, <1>3, <2>1
  <2>3. Announced' => Announced
    BY <1>1, <2>2 DEF Announced, Has
  <2>. QED
    BY <1>0, <1>1, <2>2, <2>3 DEF HostInv, Announced, Live, Has, HasOne
<1>. QED
  BY <1>2, <1>3

-----------------------------------------------------------------------------
(* What the tab shows while a phone waits                                   *)

Waiting == viewer # NoConn /\ ~paired /\ ~ended

\* A phone that waits has found the link, so the tab shows it and has its connection.
Attended ==
  /\ Live /\ host = HostConn /\ linkShown /\ link[HostConn] = "open"
  /\ hostWs \in {"open", "closing", "closed"} /\ (over => hostWs # "open")
  /\ Over(HostConn) => Has(up[HostConn], {"close"})
  /\ answering = 0 /\ ~Has(down[HostConn], {"host-ready", "error"})

LEMMA WhileWaiting == R!IInv /\ LinkInv /\ RoleInv /\ RequestInv /\ HostInv /\ Waiting => Attended
<1>. SUFFICES ASSUME R!IInv, LinkInv, RoleInv, RequestInv, HostInv, Waiting
              PROVE  Attended
  OBVIOUS
<1>1. RelayInv /\ HostConn \in Conn \ Phone /\ viewer \in Phone /\ viewer \in Conn
  BY OfRelay, ConnAssumption DEF Conn, RoleInv, Waiting
<1>2. Live /\ host = HostConn
  BY <1>1 DEF RelayInv, RoleInv, Waiting, Live
<1>3. shotUsed[viewer] /\ link[viewer] # "idle"
  BY <1>1 DEF RelayInv, LinkInv
<1>4. ws[viewer] # "none"
  BY <1>1, <1>3 DEF LinkInv, Sock
<1>5. linkShown /\ link[HostConn] = "open" /\ hostWs \in {"open", "closing", "closed"} /\ (over => hostWs # "open")
  BY <1>1, <1>2, <1>4 DEF HostInv, Announced
<1>6. Over(HostConn) => Has(up[HostConn], {"close"})
  BY <1>1, <1>5 DEF LinkInv
<1>7. answering = 0
  BY <1>2 DEF RequestInv, Waiting, Live, NothingUnderWay, HostMayCome
<1>8. ~Has(down[HostConn], {"host-ready", "error"})
  <2>1. ~Has(down[HostConn], {"host-ready"}) /\ ~Has(down[HostConn], {"error"})
    BY <1>5 DEF HostInv
  <2>. QED
    BY <2>1 DEF Has
<1>. QED
  BY <1>2, <1>5, <1>6, <1>7, <1>8 DEF Attended

LEMMA WhileWaitingLater ==
  R!IInv' /\ LinkInv' /\ RoleInv' /\ RequestInv' /\ HostInv' /\ Waiting' => Attended'
<1>1. R!IInv /\ LinkInv /\ RoleInv /\ RequestInv /\ HostInv /\ Waiting => Attended
  BY WhileWaiting
<1>. QED
  BY <1>1, PTL

LEMMA RelayKeepsPhase ==
  ASSUME R!IInv, ChannelInv, RoleInv, RoleInv', HostInv, HostInv', PhaseInv, RelayStep
  PROVE  PhaseInv'
<1>. SUFFICES ASSUME linkShown', ~over', hostWs' = "open", Live', ~paired'
              PROVE  phase' \in {"waiting-for-scan", "confirm-pairing"} \/ Has(up'[HostConn], {"pair-approve", "close"})
  BY DEF PhaseInv, Live, Has
<1>0. HostConn \in Conn /\ RelayInv
  BY OfRelay DEF Conn
<1>1. /\ Talks /\ FromRelay /\ RolesTurn /\ UNCHANGED <<phase, over, hostWs, linkShown>>
      /\ UpRests \/ \E c \in Conn : UpHeard(c) \/ UpEnds(c)
  BY DEF RelayStep, RelayTurn, TabRests, tab
<1>2. hello[HostConn] = Relay!NoHello
  BY <1>1 DEF HostInv, Announced
<1>3. Live /\ ~paired
  <2>1. \A c \in Conn : ~HostComes(c)
    BY <1>2 DEF HostComes, RoleInv, Conn, Relay!NoHello
  <2>. QED
    BY <1>1, <2>1 DEF RolesTurn, Keeps, ViewerGoes, Ends, ViewerComes, Approves, Forgets, Live
<1>4. phase \in {"waiting-for-scan", "confirm-pairing"} \/ Has(up[HostConn], {"pair-approve", "close"})
  BY <1>1, <1>3 DEF PhaseInv
<1>5. ASSUME Has(up[HostConn], {"pair-approve", "close"})
      PROVE  Has(up'[HostConn], {"pair-approve", "close"})
  <2>1. ~UpEnds(HostConn)
    BY DEF UpEnds, HostInv, Announced, Live
  <2>2. ~(UpHeard(HostConn) /\ Head(up[HostConn]).type \in {"pair-approve", "close"})
    <3>1. SUFFICES ASSUME UpHeard(HostConn), Head(up[HostConn]).type \in {"pair-approve", "close"}
                   PROVE  FALSE
      OBVIOUS
    <3>2. Head(up[HostConn]).type = "pair-approve"
      BY <1>0, <3>1, HeadUp, SentTypes DEF UpHeard
    <3>3. host = HostConn /\ ~ended
      BY <1>3 DEF Live, RoleInv
    <3>. QED
      BY <3>1, <3>2, <3>3 DEF UpHeard, HeardOf, Live
  <2>. QED
    BY <1>0, <1>1, <1>5, <2>1, <2>2, UpShrinks
<1>. QED
  BY <1>1, <1>4, <1>5

LEMMA RelayKeepsWaiter ==
  ASSUME R!IInv, ChannelInv, LinkInv, RoleInv, RequestInv, HostInv, WaiterIsShown,
         R!IInv', LinkInv', RoleInv', RequestInv', HostInv', RelayStep
  PROVE  WaiterIsShown'
<1>. DEFINE answers == {"pair-approve", "pair-reject", "close"}
<1>. SUFFICES ASSUME Waiting'
              PROVE  \/ phase' = "confirm-pairing"
                     \/ Has(down'[HostConn], {"pair-request"})
                     \/ Has(up'[HostConn], answers)
  BY DEF WaiterIsShown, OnItsWay, Waiting, Has
<1>0. HostConn \in Conn /\ RelayInv /\ down[HostConn] \in Seq(Told(HostConn) \cup Event) /\ Attended'
  BY OfRelay, WhileWaitingLater DEF Conn, ChannelInv
<1>1. /\ Talks /\ FromRelay /\ RolesTurn /\ UNCHANGED tab
      /\ UpRests \/ \E c \in Conn : UpHeard(c) \/ UpEnds(c)
  BY DEF RelayStep, RelayTurn, TabRests
<1>2. CASE Over(HostConn)'
  <2>1. Has(up'[HostConn], {"close"})
    BY <1>0, <1>2 DEF Attended, Has
  <2>. QED
    BY <2>1 DEF Has
<1>3. CASE ~Over(HostConn)'
  <2>1. Sock(HostConn) # "closed"
    BY <1>0, <1>3, OverSame DEF Over
  <2>2. /\ Has(down[HostConn], {"pair-request"}) => Has(down'[HostConn], {"pair-request"})
        /\ \A m \in out' : m.to = HostConn /\ m.type = "pair-request" => Has(down'[HostConn], {"pair-request"})
    <3>1. "close" \notin {"pair-request"}
      OBVIOUS
    <3>2. /\ Has(down[HostConn], {"pair-request"}) => Has(down'[HostConn], {"pair-request"})
          /\ \A m \in out' : m.to = HostConn /\ m.type \in {"pair-request"} => Has(down'[HostConn], {"pair-request"})
      BY <1>0, <1>1, <2>1, <3>1, MailGrows
    <3>. QED
      BY <3>2
  <2>3. CASE Keeps
    <3>1. Waiting
      BY <2>3 DEF Keeps, Waiting
    <3>2. Attended
      BY <3>1, WhileWaiting
    <3>3. ASSUME Has(up[HostConn], answers)
          PROVE  Has(up'[HostConn], answers)
      <4>1. ~UpEnds(HostConn)
        BY <1>0 DEF UpEnds, Attended
      <4>2. ~(UpHeard(HostConn) /\ Head(up[HostConn]).type \in answers)
        <5>1. SUFFICES ASSUME UpHeard(HostConn), Head(up[HostConn]).type \in answers
                       PROVE  FALSE
          OBVIOUS
        <5>2. Head(up[HostConn]).type \in {"pair-approve", "pair-reject"}
          BY <1>0, <5>1, HeadUp, SentTypes DEF UpHeard
        <5>3. host = HostConn /\ ~ended
          BY <3>2 DEF Attended, Live
        <5>. QED
          BY <5>1, <5>2, <5>3 DEF UpHeard, HeardOf, Waiting
      <4>. QED
        BY <1>0, <1>1, <3>3, <4>1, <4>2, UpShrinks
    <3>. QED
      BY <1>1, <2>2, <3>1, <3>3 DEF WaiterIsShown, OnItsWay, Waiting, Has, tab
  <2>4. ASSUME NEW c \in Conn, ViewerComes(c)
        PROVE  Has(down'[HostConn], {"pair-request"})
    <3>1. host = HostConn /\ link[HostConn] = "open"
      BY <1>0, <2>4 DEF ViewerComes, Attended
    <3>. QED
      BY <2>2, <2>4, <3>1 DEF ViewerComes
  <2>5. ~(ViewerGoes \/ Ends \/ Approves \/ Forgets)
    BY DEF ViewerGoes, Ends, Approves, Forgets, Waiting
  <2>6. \A c \in Conn : ~HostComes(c)
    BY <1>0 DEF HostComes, RelayInv, Waiting
  <2>. QED
    BY <1>1, <2>3, <2>4, <2>5, <2>6 DEF RolesTurn
<1>. QED
  BY <1>2, <1>3

\* What the tab shows, as long as it listens and its socket is open.
LEMMA TabPhases ==
  ASSUME TabActs \/ TabAnswers \/ TabHears, ChannelInv, answering = 0, ~over, ~over', hostWs = "open", hostWs' = "open"
  PROVE  \/ phase' = phase /\ FromTab(down[HostConn])
         \/ /\ phase = "confirm-pairing" /\ phase' = "transferring" /\ hostOut' = <<Plain("pair-approve")>>
            /\ FromTab(down[HostConn])
         \/ /\ phase = "confirm-pairing" /\ phase' = "waiting-for-scan" /\ hostOut' = <<Plain("pair-reject")>>
            /\ FromTab(down[HostConn])
         \/ /\ down[HostConn] # <<>> /\ FromTab(Tail(down[HostConn]))
            /\ \/ Head(down[HostConn]).type = "host-ready" /\ phase' = "waiting-for-scan"
               \/ Head(down[HostConn]).type = "pair-request"
                    /\ phase' = IF phase = "waiting-for-scan" THEN "confirm-pairing" ELSE phase
               \/ Head(down[HostConn]).type \notin {"host-ready", "pair-request"} /\ phase' = phase
<1>1. CASE TabActs
  BY <1>1, SameMessages DEF TabActs, Tab!Start, Tab!Connect, Tab!Approve, Tab!Reject, Tab!End, Tab!Send
<1>2. CASE TabAnswers
  BY <1>2 DEF TabAnswers, Tab!AnswerBlocked, Tab!AnswerSent
<1>3. CASE TabHears
  <2>1. down[HostConn] # <<>> => Head(down[HostConn]).type # "session-expired"
    <3>1. HostConn \in Conn
      BY DEF Conn
    <3>. QED
      BY <3>1, HeadDown, ToldTypes, EventTypes DEF Event
  <2>. QED
    BY <1>3, <2>1 DEF TabHears, Tab!OnOpen, Tab!OnClose, Tab!OnMessage, Tab!Ignore
<1>. QED
  BY <1>1, <1>2, <1>3

\* What reaches the tab stays in its channel unless the tab hears it.
LEMMA TabMail ==
  ASSUME ChannelInv, NEW rest, FromTab(rest), hostWs = "open", hostWs' = "open"
  PROVE  down'[HostConn] = rest
  BY DEF ChannelInv, FromTab, FromClient, Sock, Closing, Conn

LEMMA TabKeepsPhase ==
  ASSUME PreviewInv, TabActs \/ TabAnswers \/ TabHears
  PROVE  PhaseInv'
<1>. SUFFICES ASSUME linkShown', ~over', hostWs' = "open", Live', ~paired'
              PROVE  phase' \in {"waiting-for-scan", "confirm-pairing"} \/ Has(up'[HostConn], {"pair-approve", "close"})
  BY DEF PhaseInv, Live, Has
<1>0. ChannelInv /\ HostInv /\ RequestInv /\ PhaseInv /\ Tab!TypeOK /\ HostConn \in Conn
  BY DEF PreviewInv, Conn
<1>1. PICK rest : ClientStep(HostConn, hostOut', rest) /\ PhonesRest
  BY TabTakesTurn
<1>2. UNCHANGED <<link, host, paired, ended>> /\ Live /\ ~paired
  BY <1>0, <1>1, ClientRelay
<1>3. ~over
  BY <1>0, TabShows
<1>4. answering = 0
  BY <1>0, <1>2 DEF RequestInv, Live, NothingUnderWay, HostMayCome
<1>5. CASE ~linkShown
  <2>1. down[HostConn] # <<>> /\ Head(down[HostConn]).type = "host-ready" /\ ~over /\ hostWs = "open"
    BY <1>0, <1>5, TabShows
  <2>2. TabHears
    BY <1>5 DEF TabActs, TabAnswers, Tab!Start, Tab!Connect, Tab!Approve, Tab!Reject, Tab!End, Tab!AnswerBlocked,
       Tab!AnswerSent
  <2>3. phase' = "waiting-for-scan"
    BY <2>1, <2>2, EventTypes DEF TabHears, Tab!OnOpen, Tab!OnClose, Tab!OnMessage, Tab!Ignore
  <2>. QED
    BY <2>3
<1>6. CASE linkShown
  <2>1. hostWs = "open"
    BY <1>0, <1>6, TabShows
  <2>2. link[HostConn] = "open" /\ Relay!Listening(HostConn)
    BY <1>0, <1>2, <1>6 DEF HostInv, Announced, Relay!Listening
  <2>3. phase \in {"waiting-for-scan", "confirm-pairing"} \/ Has(up[HostConn], {"pair-approve", "close"})
    BY <1>0, <1>2, <1>3, <1>6, <2>1 DEF PhaseInv
  <2>4. \A T : Has(up[HostConn], T) \/ Has(hostOut', T) => Has(up'[HostConn], T)
    BY <1>0, <1>1, <2>2, UpGrows
  <2>5. CASE hostOut' = <<Plain("pair-approve")>>
    <3>1. Has(hostOut', {"pair-approve", "close"})
      BY <2>5, HasFew DEF Plain
    <3>. QED
      BY <2>4, <3>1
  <2>6. CASE hostOut' # <<Plain("pair-approve")>>
    <3>1. phase \in {"waiting-for-scan", "confirm-pairing"} => phase' \in {"waiting-for-scan", "confirm-pairing"}
      BY <1>0, <1>3, <1>4, <2>1, <2>6, TabPhases
    <3>. QED
      BY <2>3, <2>4, <3>1
  <2>. QED
    BY <2>5, <2>6
<1>. QED
  BY <1>0, <1>5, <1>6 DEF Tab!TypeOK

LEMMA TabKeepsWaiter ==
  ASSUME PreviewInv, LinkInv', RoleInv', RequestInv', HostInv', R!IInv', TabActs \/ TabAnswers \/ TabHears
  PROVE  WaiterIsShown'
<1>. DEFINE answers == {"pair-approve", "pair-reject", "close"}
<1>. SUFFICES ASSUME Waiting'
              PROVE  \/ phase' = "confirm-pairing"
                     \/ Has(down'[HostConn], {"pair-request"})
                     \/ Has(up'[HostConn], answers)
  BY DEF WaiterIsShown, OnItsWay, Waiting, Has
<1>0. ChannelInv /\ HostInv /\ RequestInv /\ PhaseInv /\ Tab!TypeOK /\ HostConn \in Conn
  BY DEF PreviewInv, Conn
<1>1. PICK rest : ClientStep(HostConn, hostOut', rest) /\ PhonesRest
  BY TabTakesTurn
<1>2. Waiting /\ Attended /\ Attended'
  <2>1. Waiting
    BY <1>0, <1>1, ClientRelay DEF Waiting
  <2>. QED
    BY <2>1, WhileWaiting, WhileWaitingLater DEF PreviewInv
<1>3. \A T : Has(up[HostConn], T) \/ Has(hostOut', T) => Has(up'[HostConn], T)
  <2>1. Relay!Listening(HostConn)
    BY <1>2 DEF Attended, Relay!Listening
  <2>. QED
    BY <1>0, <1>1, <2>1, UpGrows
<1>4. CASE Over(HostConn)'
  <2>1. Has(up'[HostConn], {"close"})
    BY <1>2, <1>4 DEF Attended, Has
  <2>. QED
    BY <2>1 DEF Has
<1>5. CASE ~Over(HostConn)'
  <2>1. hostWs = "open" /\ hostWs' = "open" /\ ~over /\ ~over'
    <3>1. ~Over(HostConn)
      BY <1>0, <1>1, <1>5, OverStays
    <3>2. hostWs = "open" /\ hostWs' = "open"
      BY <1>2, <1>5, <3>1 DEF Attended, Over, Sock
    <3>. QED
      BY <1>0, <1>2, <3>2 DEF Attended, Tab!TypeOK
  <2>2. CASE phase' = phase /\ FromTab(down[HostConn])
    <3>1. down'[HostConn] = down[HostConn]
      BY <1>0, <2>1, <2>2, TabMail
    <3>. QED
      BY <1>2, <1>3, <2>2, <3>1 DEF PreviewInv, WaiterIsShown, OnItsWay, Has, Waiting
  <2>3. CASE hostOut' \in {<<Plain("pair-approve")>>, <<Plain("pair-reject")>>}
    <3>1. Has(hostOut', answers)
      BY <2>3, HasFew DEF Plain
    <3>. QED
      BY <1>3, <3>1
  <2>4. CASE /\ down[HostConn] # <<>> /\ FromTab(Tail(down[HostConn]))
             /\ \/ Head(down[HostConn]).type = "host-ready" /\ phase' = "waiting-for-scan"
                \/ Head(down[HostConn]).type = "pair-request"
                     /\ phase' = IF phase = "waiting-for-scan" THEN "confirm-pairing" ELSE phase
                \/ Head(down[HostConn]).type \notin {"host-ready", "pair-request"} /\ phase' = phase
    <3>. DEFINE S == Told(HostConn) \cup Event
    <3>1. down[HostConn] \in Seq(S) /\ down'[HostConn] = Tail(down[HostConn])
      BY <1>0, <2>1, <2>4, TabMail DEF ChannelInv
    <3>. HIDE DEF S
    <3>2. /\ Head(down[HostConn]) = down[HostConn][1]
          /\ \A T : Has(down[HostConn], T) <=> down[HostConn][1].type \in T \/ Has(down'[HostConn], T)
      BY <2>4, <3>1, HasTail
    <3>3. Head(down[HostConn]).type # "host-ready"
      BY <1>2, <3>2 DEF Attended
    <3>4. \/ phase = "confirm-pairing" \/ Has(up[HostConn], answers) \/ Has(down[HostConn], {"pair-request"})
      BY <1>2 DEF PreviewInv, WaiterIsShown, OnItsWay, Has, Waiting
    <3>5. CASE Has(up[HostConn], answers)
      BY <1>3, <3>5
    <3>6. CASE phase = "confirm-pairing"
      BY <2>4, <3>3, <3>6
    <3>7. CASE Has(down[HostConn], {"pair-request"}) /\ ~Has(down'[HostConn], {"pair-request"})
      <4>1. Head(down[HostConn]).type = "pair-request"
        BY <3>2, <3>7
      <4>2. phase \in {"waiting-for-scan", "confirm-pairing"} \/ Has(up[HostConn], {"pair-approve", "close"})
        BY <1>0, <1>2, <2>1 DEF PhaseInv, Attended, Waiting
      <4>3. Has(up[HostConn], {"pair-approve", "close"}) => Has(up[HostConn], answers)
        BY DEF Has
      <4>. QED
        BY <2>4, <3>3, <3>5, <4>1, <4>2, <4>3
    <3>. QED
      BY <3>4, <3>5, <3>6, <3>7
  <2>. QED
    BY <1>0, <1>2, <2>1, <2>2, <2>3, <2>4, TabPhases DEF Attended
<1>. QED
  BY <1>4, <1>5

\* What is between the tab and the relay is no concern of a phone.
LEMMA PhoneKeepsWaiter ==
  ASSUME PreviewInv, NEW p \in Phone, PhoneActs(p) \/ PhoneHears(p)
  PROVE  PhaseInv' /\ WaiterIsShown'
<1>0. ChannelInv /\ p # HostConn /\ p \in Conn /\ HostConn \in Conn
  BY ConnAssumption DEF PreviewInv, Conn
<1>1. PICK rest : ClientStep(p, phoneOut', rest) /\ TabRests
  BY PhoneTakesTurn
<1>2. /\ UNCHANGED <<host, viewer, paired, ended, phase, over, hostWs, linkShown>>
      /\ down'[HostConn] = down[HostConn] /\ up'[HostConn] = up[HostConn]
  BY <1>0, <1>1, ClientRelay, ClientDown, UpGrows DEF TabRests, tab
<1>. QED
  BY <1>2 DEF PreviewInv, PhaseInv, WaiterIsShown, OnItsWay, Has, Live

LEMMA AcceptKeepsWaiter ==
  ASSUME PreviewInv, NEW c \in Conn, RelayAccepts(c)
  PROVE  PhaseInv' /\ WaiterIsShown'
<1>0. R!IInv /\ ChannelInv /\ LinkInv /\ RoleInv /\ RequestInv /\ HostInv /\ PhaseInv /\ WaiterIsShown /\ HostConn \in Conn
  BY DEF PreviewInv, Conn
<1>1. /\ link[c] = "idle" /\ ~shotUsed[c] /\ up' = up
      /\ \A d \in Conn : d # c => down'[d] = down[d]
      /\ UNCHANGED <<host, viewer, paired, ended, phase, over, hostWs, linkShown>>
  BY <1>0, AcceptEffect DEF tab
<1>2. CASE c # HostConn
  BY <1>0, <1>1, <1>2 DEF PhaseInv, WaiterIsShown, OnItsWay, Has, Live
<1>3. CASE c = HostConn
  <2>1. ~linkShown /\ ~Waiting
    BY <1>0, <1>1, <1>3, WhileWaiting DEF HostInv, Announced, Attended
  <2>. QED
    BY <1>1, <2>1 DEF PhaseInv, WaiterIsShown, Waiting
<1>. QED
  BY <1>2, <1>3

LEMMA LoseKeepsWaiter ==
  ASSUME PreviewInv, NEW c \in Conn, Lose(c)
  PROVE  PhaseInv' /\ WaiterIsShown'
<1>0. R!IInv /\ ChannelInv /\ LinkInv /\ RoleInv /\ RequestInv /\ HostInv /\ PhaseInv /\ WaiterIsShown /\ HostConn \in Conn
  BY DEF PreviewInv, Conn
<1>1. /\ \A d \in Conn : d # c => up'[d] = up[d] /\ down'[d] = down[d]
      /\ up'[c] = IF link[c] \in {"idle", "closed"} THEN <<>> ELSE <<Close>>
      /\ UNCHANGED <<link, host, viewer, paired, ended, phase, over, hostWs, linkShown>>
  BY <1>0, LoseEffect DEF tab
<1>2. CASE c # HostConn
  BY <1>0, <1>1, <1>2 DEF PhaseInv, WaiterIsShown, OnItsWay, Has, Live
<1>3. CASE c = HostConn
  <2>1. (linkShown /\ Live) \/ Waiting => link[HostConn] = "open"
    BY <1>0, WhileWaiting DEF HostInv, Announced, Attended
  <2>2. link[HostConn] = "open" => Has(up'[HostConn], {"pair-approve", "close"}) /\ Has(up'[HostConn], {"pair-approve", "pair-reject", "close"})
    <3>1. link[HostConn] = "open" => up'[HostConn] = <<Close>>
      BY <1>1, <1>3
    <3>2. Has(<<Close>>, {"pair-approve", "close"}) /\ Has(<<Close>>, {"pair-approve", "pair-reject", "close"})
      BY HasFew, EventTypes
    <3>. QED
      BY <3>1, <3>2
  <2>. QED
    BY <1>1, <2>1, <2>2 DEF PhaseInv, WaiterIsShown, OnItsWay, Has, Waiting, Live
<1>. QED
  BY <1>2, <1>3

-----------------------------------------------------------------------------
(* The types of the clients                                                 *)

ClientTypes == Tab!TypeOK /\ Phones!TypeOK /\ received \in [Phone -> Progressed]

LEMMA TypesRest == ClientTypes /\ UNCHANGED <<tab, phones>> => ClientTypes'
  BY DEF ClientTypes, tab, phones, Tab!TypeOK, Phones!TypeOK

LEMMA TabKeepsTypes ==
  ASSUME PreviewInv, TabActs \/ TabAnswers \/ TabHears
  PROVE  ClientTypes'
<1>1. Tab!TypeOK'
  <2>0. Tab!TypeOK
    BY DEF PreviewInv
  <2>1. CASE TabActs
    BY <2>0, <2>1 DEF TabActs, Tab!Start, Tab!Connect, Tab!Approve, Tab!Reject, Tab!End, Tab!TypeOK, Tab!Phase, Tab!Socket
  <2>2. CASE TabAnswers
    BY <2>0, <2>2 DEF TabAnswers, Tab!AnswerBlocked, Tab!AnswerSent, Tab!TypeOK, Tab!Phase, Tab!Socket
  <2>3. CASE TabHears
    <3>1. CASE Tab!OnMessage(Head(down[HostConn]))
      <4>1. phase' \in Tab!Phase
        BY <2>0, <3>1 DEF Tab!OnMessage, Tab!TypeOK, Tab!Phase
      <4>2. over' \in BOOLEAN /\ linkShown' \in BOOLEAN
        BY <3>1, Zenon DEF Tab!OnMessage
      <4>3. starting' = starting /\ hostWs' = hostWs /\ answering' \in Nat
        BY <2>0, <3>1 DEF Tab!OnMessage, Tab!TypeOK
      <4>. QED
        BY <2>0, <4>1, <4>2, <4>3 DEF Tab!TypeOK
    <3>2. CASE Tab!OnOpen \/ Tab!OnClose \/ Tab!Ignore
      BY <2>0, <3>2 DEF Tab!OnOpen, Tab!OnClose, Tab!Ignore, Tab!ConnectionLost, Tab!TypeOK, Tab!Phase, Tab!Socket
    <3>. QED
      BY <2>3, <3>1, <3>2 DEF TabHears
  <2>. QED
    BY <2>1, <2>2, <2>3
<1>2. UNCHANGED phones
  BY DEF TabActs, TabAnswers, TabHears, FromTab, PhonesRest
<1>. QED
  BY <1>1, <1>2 DEF ClientTypes, PreviewInv, phones, Phones!TypeOK

\* What a phone does to its own state.
LEMMA PhoneTypes ==
  ASSUME Phones!TypeOK, received \in [Phone -> Progressed], NEW p \in Phone
  PROVE  /\ \A w \in Phones!Socket : [ws EXCEPT ![p] = w] \in [Phone -> Phones!Socket]
         /\ Phones!CloseWs(p) => ws' \in [Phone -> Phones!Socket]
         /\ \A result \in Phones!Result : Phones!Finish(p, result) => loaded' \in [Phone -> Phones!Result]
  BY DEF Phones!TypeOK, Phones!CloseWs, Phones!Finish, Phones!Socket

LEMMA PhoneKeepsTypes ==
  ASSUME PreviewInv, NEW p \in Phone, PhoneActs(p) \/ PhoneHears(p)
  PROVE  ClientTypes'
<1>0. /\ ChannelInv /\ Phones!TypeOK /\ received \in [Phone -> Progressed] /\ Tab!TypeOK
      /\ MaxImageBytes \in Nat /\ p \in Conn
  BY SnapshotAssumption DEF PreviewInv, Conn
<1>. SUFFICES Phones!TypeOK' /\ received' \in [Phone -> Progressed]
  <2>1. UNCHANGED tab
    BY DEF PhoneActs, PhoneHears, FromPhone, TabRests
  <2>. QED
    BY <1>0, <2>1 DEF ClientTypes, tab, Tab!TypeOK
<1>1. ASSUME ws' \in [Phone -> Phones!Socket], loaded' \in [Phone -> Phones!Result],
             declared' \in [Phone -> [Image -> -1 .. MaxImageBytes]], received' \in [Phone -> Progressed]
      PROVE  Phones!TypeOK' /\ received' \in [Phone -> Progressed]
  <2>1. \A q \in Phone, i \in Image : received'[q][i].bytes \in 0 .. MaxImageBytes
    BY <1>1 DEF Progressed
  <2>. QED
    BY <1>1, <2>1 DEF Phones!TypeOK
<1>2. /\ ws \in [Phone -> Phones!Socket] /\ loaded \in [Phone -> Phones!Result]
      /\ declared \in [Phone -> [Image -> -1 .. MaxImageBytes]]
  BY <1>0 DEF Phones!TypeOK
<1>3. /\ {"connecting", "open", "closed"} \subseteq Phones!Socket
      /\ {"ok", "unavailable", "host-offline", "rejected", "expired", "pending"} \subseteq Phones!Result
  BY DEF Phones!Socket, Phones!Result
<1>4. CASE PhoneActs(p)
  BY <1>0, <1>1, <1>2, <1>3, <1>4, PhoneTypes DEF PhoneActs, Phones!Load, Phones!Dispose
<1>5. CASE PhoneHears(p)
  <2>. DEFINE m == Head(down[p])
  <2>0. m \in Told(p) \cup Event
    BY <1>0, <1>5, HeadDown DEF PhoneHears
  <2>. HIDE DEF m
  <2>1. CASE Phones!OnOpen(p) \/ Phones!Ignore(p)
    BY <1>0, <1>1, <1>2, <1>3, <2>1, PhoneTypes DEF Phones!OnOpen, Phones!Ignore
  <2>2. CASE Phones!OnClose(p, m = Lost)
    BY <1>0, <1>1, <1>2, <1>3, <2>2, PhoneTypes DEF Phones!OnClose
  <2>3. CASE m \notin Event /\ Phones!OnMessage(p, m)
    <3>1. ASSUME NEW result \in Phones!Result, Phones!Quit(p, result)
          PROVE  Phones!TypeOK' /\ received' \in [Phone -> Progressed]
      BY <1>0, <1>1, <1>2, <3>1, PhoneTypes DEF Phones!Quit
    <3>2. CASE m.type = "snapshot-manifest"
      <4>1. Phones!Manifest(p, m.arg) /\ m.arg \in Relay!Declared
        BY <2>0, <2>3, <3>2, ToldTypes DEF Phones!OnMessage
      <4>2. m.arg \in [Image -> -1 .. MaxImageBytes] /\ Phones!NoneReceived \in Progressed
        BY <1>0, <4>1 DEF Relay!Declared, Phones!NoneReceived, Progressed
      <4>. QED
        BY <1>0, <1>1, <1>2, <4>1, <4>2 DEF Phones!Manifest
    <3>3. CASE m.type = "image-chunk"
      <4>1. PICK k \in Relay!Chunk : Phones!Chunk(p, k)
        BY <2>0, <2>3, <3>3, ToldTypes DEF Phones!OnMessage
      <4>2. k.id \in Image /\ k.index \in Nat /\ k.total \in Nat /\ k.bytes \in Nat
        BY <4>1, SnapshotAssumption DEF Relay!Chunk
      <4>3. CASE ~Phones!Fits(p, k)
        BY <1>3, <3>1, <4>1, <4>3 DEF Phones!Chunk
      <4>4. CASE Phones!Fits(p, k)
        <5>. DEFINE new == [next |-> k.index + 1, total |-> k.total, bytes |-> received[p][k.id].bytes + k.bytes]
        <5>1. received[p] \in Progressed /\ received[p][k.id].bytes \in 0 .. MaxImageBytes
              /\ received[p][k.id].bytes + k.bytes <= MaxImageBytes
          BY <1>0, <4>2, <4>4 DEF Phones!Fits, Progressed
        <5>2. new \in [next : Nat, total : Nat, bytes : 0 .. MaxImageBytes]
          BY <1>0, <4>2, <5>1
        <5>3. received' = [received EXCEPT ![p] = [received[p] EXCEPT ![k.id] = new]] /\ UNCHANGED <<ws, loaded, declared>>
          BY <4>1, <4>4 DEF Phones!Chunk
        <5>. HIDE DEF new
        <5>4. [received[p] EXCEPT ![k.id] = new] \in Progressed
          BY <5>1, <5>2 DEF Progressed
        <5>. QED
          BY <1>0, <1>1, <1>2, <5>3, <5>4
      <4>. QED
        BY <4>3, <4>4
    <3>4. CASE m.type \notin {"snapshot-manifest", "image-chunk"}
      <4>1. \/ UNCHANGED <<ws, loaded, declared, received>>
            \/ \E result \in Phones!Result : Phones!Quit(p, result)
            \/ UNCHANGED <<ws, declared, received>> /\ \E result \in Phones!Result : Phones!Finish(p, result)
        BY <1>3, <2>3, <3>4 DEF Phones!OnMessage
      <4>. QED
        BY <1>0, <1>1, <1>2, <3>1, <4>1, PhoneTypes
    <3>. QED
      BY <3>2, <3>3, <3>4
  <2>. QED
    BY <1>5, <2>1, <2>2, <2>3 DEF PhoneHears, m, Event
<1>. QED
  BY <1>4, <1>5

-----------------------------------------------------------------------------
(* The theorems                                                             *)

\* Before anything has happened.
LEMMA InitKeeps == Init => PreviewInv
<1>. SUFFICES ASSUME Init PROVE PreviewInv
  OBVIOUS
<1>0. /\ NoConn \notin Conn /\ {MaxImageBytes, ChunkBytes} \subseteq Nat \ {0} /\ HostConn \in Conn /\ Phone \subseteq Conn
      /\ MaxImageBytes \in Nat
  BY ConnAssumption, SnapshotAssumption DEF Conn
<1>1. R!IInv
  <2>1. R!Init
    BY DEF Init, Relay!Init, R!Init, Relay!NoHello, R!NoHello, Relay!NoManifest, R!NoManifest, Relay!NoProgress, R!NoProgress
  <2>. QED
    BY <1>0, <2>1, R!InitInv
<1>2. /\ up = [c \in Conn |-> <<>>] /\ down = [c \in Conn |-> <<>>]
      /\ link = [c \in Conn |-> "idle"] /\ shotUsed = [c \in Conn |-> FALSE] /\ hello = [c \in Conn |-> Relay!NoHello]
      /\ host = NoConn /\ viewer = NoConn /\ ~paired /\ ~ended
      /\ phase = "connecting" /\ ~over /\ starting = "no" /\ hostWs = "none" /\ ~linkShown /\ answering = 0
      /\ ws = [p \in Phone |-> "none"] /\ received = [p \in Phone |-> Phones!NoneReceived]
  BY DEF Init, Relay!Init, Tab!Init, Phones!Init
<1>3. \A T : ~Has(<<>>, T) /\ HasOne(<<>>, T)
  BY HasFew
<1>4. Tab!TypeOK /\ Phones!TypeOK /\ received \in [Phone -> Progressed]
  <2>1. Tab!TypeOK
    BY DEF Init, Tab!Init, Tab!TypeOK, Tab!Phase, Tab!Socket
  <2>2. Phones!NoneReceived \in Progressed /\ Phones!Nothing \in [Image -> -1 .. MaxImageBytes]
    BY <1>0 DEF Phones!NoneReceived, Progressed, Phones!Nothing
  <2>3. ws \in [Phone -> Phones!Socket] /\ loaded \in [Phone -> Phones!Result] /\ declared \in [Phone -> [Image -> -1 .. MaxImageBytes]]
    BY <2>2 DEF Init, Phones!Init, Phones!Socket, Phones!Result
  <2>4. received \in [Phone -> Progressed]
    BY <1>2, <2>2
  <2>5. \A p \in Phone, i \in Image : received[p][i].bytes \in 0 .. MaxImageBytes
    BY <2>4 DEF Progressed
  <2>. QED
    BY <2>1, <2>3, <2>4, <2>5 DEF Phones!TypeOK
<1>5. ChannelInv
  <2>1. \A S : <<>> \in Seq(S)
    OBVIOUS
  <2>2. DOMAIN <<>> = {}
    OBVIOUS
  <2>. QED
    BY <1>2, <2>1, <2>2 DEF ChannelInv
<1>6. \A c \in Conn : Sock(c) = "none" /\ ~Over(c)
  BY <1>0, <1>2 DEF Sock, Over, Broken, Conn
<1>7. LinkInv
  BY <1>2, <1>3, <1>6 DEF LinkInv
<1>8. StoryInv
  BY <1>0, <1>2, <1>3 DEF StoryInv
<1>9. RoleInv
  BY <1>0, <1>2 DEF RoleInv, Relay!NoHello
<1>10. RequestInv
  BY <1>2, <1>3 DEF RequestInv, NothingUnderWay
<1>11. HostInv
  BY <1>0, <1>2, <1>3 DEF HostInv, Announced
<1>12. PhaseInv /\ WaiterIsShown
  BY <1>2 DEF PhaseInv, WaiterIsShown
<1>. QED
  BY <1>1, <1>4, <1>5, <1>7, <1>8, <1>9, <1>10, <1>11, <1>12 DEF PreviewInv

\* After every step.
LEMMA NextKeeps == PreviewInv /\ [Next]_vars => PreviewInv'
<1>. SUFFICES ASSUME PreviewInv, [Next]_vars PROVE PreviewInv'
  OBVIOUS
<1>0. R!IInv /\ ChannelInv /\ LinkInv /\ StoryInv /\ RoleInv /\ RequestInv /\ HostInv /\ PhaseInv /\ WaiterIsShown
      /\ ClientTypes
  BY DEF PreviewInv, ClientTypes
<1>1. CASE TabActs \/ TabAnswers \/ TabHears
  <2>1. PICK rest : ClientStep(HostConn, hostOut', rest)
    BY <1>1, TabTakesTurn
  <2>2. HostConn \in Conn /\ RelayRests
    BY <2>1 DEF Conn, ClientStep
  <2>3. R!IInv'
    BY <1>0, <2>2, RelayGoesOn
  <2>4. ChannelInv' /\ LinkInv' /\ StoryInv'
    BY <1>0, <2>1, <2>2, ClientKeepsChannels, ClientKeepsLinks, ClientKeepsStory
  <2>5. RoleInv'
    BY <1>0, <2>1, <2>2, ClientRelay, RolesRest
  <2>6. RequestInv' /\ HostInv' /\ PhaseInv' /\ ClientTypes'
    BY <1>1, TabKeepsRequest, TabKeepsHost, TabKeepsPhase, TabKeepsTypes
  <2>7. WaiterIsShown'
    BY <1>1, <2>3, <2>4, <2>5, <2>6, TabKeepsWaiter
  <2>. QED
    BY <2>3, <2>4, <2>5, <2>6, <2>7 DEF PreviewInv, ClientTypes
<1>2. ASSUME NEW p \in Phone, PhoneActs(p) \/ PhoneHears(p)
      PROVE  PreviewInv'
  <2>1. PICK rest : ClientStep(p, phoneOut', rest)
    BY <1>2, PhoneTakesTurn
  <2>2. p \in Conn /\ RelayRests
    BY <2>1 DEF Conn, ClientStep
  <2>3. R!IInv'
    BY <1>0, <2>2, RelayGoesOn
  <2>4. ChannelInv' /\ LinkInv' /\ StoryInv'
    BY <1>0, <2>1, <2>2, ClientKeepsChannels, ClientKeepsLinks, ClientKeepsStory
  <2>5. RoleInv'
    BY <1>0, <2>1, <2>2, ClientRelay, RolesRest
  <2>6. RequestInv' /\ HostInv' /\ PhaseInv' /\ WaiterIsShown' /\ ClientTypes'
    BY <1>2, PhoneKeepsRequest, PhoneKeepsHost, PhoneKeepsWaiter, PhoneKeepsTypes
  <2>. QED
    BY <2>3, <2>4, <2>5, <2>6 DEF PreviewInv, ClientTypes
<1>3. ASSUME NEW c \in Conn, RelayAccepts(c)
      PROVE  PreviewInv'
  <2>1. Relay!Next /\ UNCHANGED <<shotUsed, hello, host, viewer, paired, tab, phones>>
    BY <1>0, <1>3, AcceptEffect
  <2>2. R!IInv' /\ RoleInv' /\ ClientTypes'
    BY <1>0, <2>1, RelayGoesOn, RolesRest, TypesRest
  <2>3. ChannelInv' /\ LinkInv' /\ StoryInv'
    BY <1>0, <1>3, AcceptKeepsLinks
  <2>4. RequestInv' /\ HostInv' /\ PhaseInv' /\ WaiterIsShown'
    BY <1>3, AcceptKeepsRequest, AcceptKeepsHost, AcceptKeepsWaiter
  <2>. QED
    BY <2>2, <2>3, <2>4 DEF PreviewInv, ClientTypes
<1>4. ASSUME NEW c \in Conn, Lose(c)
      PROVE  PreviewInv'
  <2>1. RelayRests /\ UNCHANGED <<shotUsed, hello, host, viewer, paired, tab, phones>>
    BY <1>0, <1>4, LoseEffect DEF Lose
  <2>2. R!IInv' /\ RoleInv' /\ ClientTypes'
    BY <1>0, <2>1, RelayGoesOn, RolesRest, TypesRest
  <2>3. ChannelInv' /\ LinkInv' /\ StoryInv'
    BY <1>0, <1>4, LoseKeepsLinks
  <2>4. RequestInv' /\ HostInv' /\ PhaseInv' /\ WaiterIsShown'
    BY <1>4, LoseKeepsRequest, LoseKeepsHost, LoseKeepsWaiter
  <2>. QED
    BY <2>2, <2>3, <2>4 DEF PreviewInv, ClientTypes
<1>5. CASE RelayActs
  <2>1. RelayStep /\ Relay!Next
    BY <1>5, RelayTakesTurn
  <2>2. R!IInv' /\ ChannelInv' /\ LinkInv' /\ RoleInv' /\ RequestInv'
    BY <1>0, <2>1, RelayGoesOn, RelayKeepsChannels, RelayKeepsLinks, RelayKeepsRoles, RelayKeepsRequest
  <2>3. StoryInv' /\ HostInv'
    BY <1>0, <2>1, <2>2, RelayKeepsStory, RelayKeepsHost
  <2>4. PhaseInv' /\ WaiterIsShown'
    BY <1>0, <2>1, <2>2, <2>3, RelayKeepsPhase, RelayKeepsWaiter
  <2>5. ClientTypes'
    BY <1>0, <2>1, TypesRest DEF RelayStep, TabRests, PhonesRest
  <2>. QED
    BY <2>2, <2>3, <2>4, <2>5 DEF PreviewInv, ClientTypes
<1>6. CASE UNCHANGED vars
  <2>1. UNCHANGED <<relay, out, tab, phones, up, down>>
    BY <1>6 DEF vars
  <2>2. R!IInv'
    BY <1>0, <2>1 DEF relay, R!IInv, R!TypeOK, R!ConnInv, R!SlotInv, R!PairInv,
       R!LiveSessionExpires, R!OneApprovalPerToken, R!StoryOnlyToApproved, R!ChunksWithinManifest
  <2>3. ClientTypes'
    BY <1>0, <2>1, TypesRest
  <2>4. UNCHANGED <<link, shotUsed, hello, host, viewer, paired, ended, approved, phase, over, starting, hostWs, linkShown,
                    answering, ws>>
    BY <2>1 DEF relay, tab, phones
  <2>5. \A c \in Conn : Sock(c)' = Sock(c) /\ (Over(c)' <=> Over(c))
    BY <2>1, <2>4 DEF Sock, Over, Broken
  <2>6. ChannelInv' /\ LinkInv' /\ StoryInv'
    <3>1. Phone \subseteq Conn
      BY DEF Conn
    <3>2. ChannelInv'
      BY <1>0, <2>1 DEF ChannelInv
    <3>3. LinkInv'
      BY <1>0, <2>1, <2>4, <2>5 DEF LinkInv, Has
    <3>4. StoryInv'
      BY <1>0, <2>1, <2>4, <2>5, <3>1 DEF StoryInv, Has
    <3>. QED
      BY <3>2, <3>3, <3>4
  <2>7. RoleInv' /\ RequestInv' /\ HostInv' /\ PhaseInv' /\ WaiterIsShown'
    <3>1. RoleInv' /\ PhaseInv' /\ WaiterIsShown'
      BY <1>0, <2>1, <2>4 DEF RoleInv, PhaseInv, WaiterIsShown, OnItsWay, Has, Live
    <3>2. RequestInv'
      BY <1>0, <2>1, <2>4 DEF RequestInv, NothingUnderWay, HostMayCome, Has, HasOne
    <3>3. HostInv'
      BY <1>0, <2>1, <2>4 DEF HostInv, Announced, Live, Has, HasOne
    <3>. QED
      BY <3>1, <3>2, <3>3
  <2>. QED
    BY <2>2, <2>3, <2>6, <2>7 DEF PreviewInv, ClientTypes
<1>. QED
  BY <1>1, <1>2, <1>3, <1>4, <1>5, <1>6 DEF Next, RelayActs

\* PreviewInv holds in every state of the preview: no step of the relay, the tab, a phone
\* or the network breaks it.
THEOREM Invariance == Spec => []PreviewInv
  BY InitKeeps, NextKeeps, PTL DEF Spec

\* Every variable has its type; what the clients send is of the relay's messages, and
\* the tab answers one request at a time.
THEOREM TypesAreKept == Spec => []TypeOK
<1>1. PreviewInv => TypeOK
  <2>. SUFFICES ASSUME PreviewInv PROVE TypeOK
    OBVIOUS
  <2>1. Relay!TypeOK /\ Tab!TypeOK /\ Phones!TypeOK
    BY OfRelay DEF PreviewInv, RelayInv
  <2>2. answering <= 1
    BY DEF PreviewInv, RequestInv
  <2>3. ASSUME NEW c \in Conn, NEW k \in DOMAIN up[c]
        PROVE  up[c][k] \in Relay!Message \cup {Close}
    <3>. DEFINE S == IF c = HostConn THEN OfTab ELSE OfPhone
    <3>1. up[c] \in Seq(S)
      BY DEF PreviewInv, ChannelInv
    <3>2. up[c][k] \in S
      BY <3>1
    <3>. QED
      BY <3>2, SentTypes
  <2>. QED
    BY <2>1, <2>2, <2>3 DEF TypeOK
<1>. QED
  BY <1>1, Invariance, PTL

\* A phone that waits for the approval is shown to the creator, or will be, or gets an
\* answer meant for a phone before it: nobody waits behind a tab that shows nothing.
THEOREM WaitersAreShown == Spec => []WaiterIsShown
<1>1. PreviewInv => WaiterIsShown
  BY DEF PreviewInv
<1>. QED
  BY <1>1, Invariance, PTL

\* The steps that do not belong to a phone leave the phones as they are.
LEMMA PhonesMove ==
  ASSUME PreviewInv, [Next]_vars
  PROVE  UNCHANGED phones \/ \E p \in Phone : PhoneActs(p) \/ PhoneHears(p)
<1>1. CASE TabActs \/ TabAnswers \/ TabHears
  BY <1>1 DEF TabActs, TabAnswers, TabHears, FromTab, PhonesRest
<1>2. ASSUME NEW c \in Conn, RelayAccepts(c) \/ Lose(c)
      PROVE  UNCHANGED phones
  BY <1>2 DEF RelayAccepts, Lose, PhonesRest
<1>3. CASE RelayActs
  BY <1>3, RelayTakesTurn DEF RelayStep, PhonesRest
<1>4. CASE UNCHANGED vars
  BY <1>4 DEF vars
<1>. QED
  BY <1>1, <1>2, <1>3, <1>4 DEF Next, RelayActs

\* A phone shows a story only if the host's approval was for that very phone,
\* however the phones come, go and come back.
THEOREM ConsentIsNeeded == Spec => StoryNeedsConsent
<1>1. PreviewInv /\ [Next]_vars => \A p \in Phone : loaded[p] # "ok" /\ loaded'[p] = "ok" => p \in approved
  <2>. SUFFICES ASSUME PreviewInv, [Next]_vars, NEW p \in Phone, loaded[p] # "ok", loaded'[p] = "ok"
                PROVE  p \in approved
    OBVIOUS
  <2>0. ChannelInv /\ StoryInv /\ Phones!TypeOK /\ p \in Conn /\ p # HostConn
    BY ConnAssumption DEF PreviewInv, Conn
  <2>1. PICK q \in Phone : PhoneActs(q) \/ PhoneHears(q)
    BY PhonesMove DEF phones
  <2>2. loaded \in [Phone -> Phones!Result]
    BY <2>0 DEF Phones!TypeOK
  <2>3. ~PhoneActs(q)
    BY DEF PhoneActs, Phones!Load, Phones!Dispose
  <2>4. PhoneHears(q) /\ down[q] # <<>>
    BY <2>1, <2>3 DEF PhoneHears
  <2>. DEFINE m == Head(down[q])
  <2>5. /\ q = p /\ m.type = "snapshot-complete" /\ ws[p] = "open" /\ m \notin Event
    <3>1. ASSUME NEW result, Phones!Finish(q, result)
          PROVE  q = p /\ result = "ok"
      BY <2>2, <3>1 DEF Phones!Finish
    <3>2. ~Phones!OnOpen(q) /\ ~Phones!Ignore(q)
      BY DEF Phones!OnOpen, Phones!Ignore
    <3>3. \A failed : ~Phones!OnClose(q, failed)
      BY <3>1 DEF Phones!OnClose
    <3>4. Phones!OnMessage(q, m) /\ m \notin Event
      BY <2>4, <3>2, <3>3 DEF PhoneHears, Event
    <3>. HIDE DEF m
    <3>5. \A result : Phones!Quit(q, result) => q = p /\ result = "ok"
      BY <3>1 DEF Phones!Quit
    <3>6. ~Phones!Manifest(q, m.arg) /\ ~Phones!Chunk(q, m.arg)
      BY <3>5 DEF Phones!Manifest, Phones!Chunk
    <3>7. q = p /\ m.type = "snapshot-complete" /\ ws[q] = "open"
      BY <3>1, <3>4, <3>5, <3>6 DEF Phones!OnMessage
    <3>. QED
      BY <3>4, <3>7
  <2>6. m = down[p][1] /\ 1 \in DOMAIN down[p]
    BY <2>0, <2>4, <2>5, HeadDown
  <2>7. ~Over(p)
    BY <2>0, <2>5, <2>6 DEF Over, Broken, Sock, Event
  <2>8. Has(down[p], StoryType)
    BY <2>5, <2>6 DEF Has, StoryType
  <2>. QED
    BY <2>0, <2>7, <2>8 DEF StoryInv
<1>. QED
  BY <1>1, Invariance, PTL DEF Spec, StoryNeedsConsent
=============================================================================
