---------------------------- MODULE PreviewSystem ----------------------------
(***************************************************************************)
(* The phone preview as a whole: the creator's tab (HostSession), the      *)
(* phones that open the link (RelaySource), the relay (RelaySession), and  *)
(* the WebSockets between them.                                            *)
(*                                                                         *)
(* A connection is a pair of FIFO channels.  Its end travels in them too:  *)
(* "close" is the end of an orderly closed connection, "lost" that of a    *)
(* broken one, whose undelivered messages are gone.                        *)
(***************************************************************************)
EXTENDS PreviewProtocol, Integers, SequencesExt

CONSTANTS
  HostConn,        \* the connection of the creator's tab
  Phone,           \* the connections of phones
  NoConn,          \* an empty slot of the relay
  Image, Snapshot, \* the story: its images, the snapshots that can be read
  ChunkBytes,      \* MAX_CHUNK_BYTES, the same on both sides
  MaxImageBytes, MaxTotalBytes,   \* the size limits
  MaxLosses        \* bound: how many connections break

VARIABLES
  link, shotUsed, hello, rate, host, viewer, paired, tokenConsumed, ended,
  pairingTimer, idleTimer, absoluteTimer, manifest, progress, out, approved,
  phase, over, starting, hostWs, linkShown, answering, hostOut,
  ws, loaded, declared, received, phoneOut,
  up, down,        \* [Conn -> Seq]: what travels to and from the relay
  losses           \* how many connections have broken

Conn == Phone \cup {HostConn}

ASSUME ConnAssumption == HostConn \notin Phone /\ NoConn \notin Conn

ASSUME SnapshotAssumption ==
  /\ Snapshot \subseteq [Image -> 0 .. MaxImageBytes] /\ Snapshot # {} /\ IsFiniteSet(Image)
  /\ {MaxImageBytes, ChunkBytes} \subseteq Nat \ {0}

\* The clients of this system stay below the relay's rate.
Relay  == INSTANCE RelaySession WITH MaxBytes <- MaxImageBytes, MaxTotal <- MaxImageBytes,
                                     MaxChunk <- ChunkBytes, RateMax <- 1
Tab    == INSTANCE HostSession
Phones == INSTANCE RelaySource

relay  == <<link, shotUsed, hello, rate, host, viewer, paired, tokenConsumed, ended,
            pairingTimer, idleTimer, absoluteTimer, manifest, progress, approved>>
tab    == <<phase, over, starting, hostWs, linkShown, answering>>
phones == <<ws, loaded, declared, received>>
vars   == <<relay, out, tab, hostOut, phones, phoneOut, up, down, losses>>

\* What takes no turn sends nothing.
RelayRests  == out' = {} /\ UNCHANGED relay
TabRests    == hostOut' = <<>> /\ UNCHANGED tab
PhonesRest  == phoneOut' = <<>> /\ UNCHANGED phones

-----------------------------------------------------------------------------
(* The network                                                              *)

Opened == Plain("open")
Close  == Plain("close")
Lost   == Plain("lost")

Sock(c) == IF c = HostConn THEN hostWs ELSE ws[c]

\* A turn of the relay: its messages, and the end of what it has closed.
FromRelay ==
  down' = [c \in Conn |->
             IF Sock(c) = "closed" THEN <<>>
             ELSE down[c] \o SetToSeq({m \in out' : m.to = c})
                          \o (IF link[c] = "open" /\ link'[c] # "open" THEN <<Close>> ELSE <<>>)]

\* A turn of a client: its messages, and the end of what it has closed.  Nothing
\* reaches the relay on a connection that is over for it, and a connection given
\* up before the relay took it never comes about.
Closing(c) == Sock(c) \in {"connecting", "open"} /\ Sock(c)' = "closing"
FromClient(c, msgs, rest) ==
  /\ up' = [up EXCEPT ![c] =
       IF ~Relay!Listening(c) THEN <<>>
       ELSE @ \o msgs \o (IF Closing(c) \/ (Sock(c) = "open" /\ Sock(c)' = "closed")
                            THEN <<Close>> ELSE <<>>)]
  /\ down' = [down EXCEPT ![c] = CASE Sock(c)' = "closed"              -> <<>>
                                   [] Closing(c) /\ link[c] = "idle"   -> <<Lost>>
                                   [] OTHER                            -> rest]
  /\ UNCHANGED losses

\* A connection breaks, or is never established.
Lose(c) ==
  /\ losses < MaxLosses /\ down[c] # <<Lost>>
  /\ losses' = losses + 1
  /\ Sock(c) \in {"connecting", "open", "closing"}
  /\ down' = [down EXCEPT ![c] = <<Lost>>]
  /\ up' = [up EXCEPT ![c] = IF Relay!Listening(c) THEN <<Close>> ELSE <<>>]
  /\ RelayRests /\ TabRests /\ PhonesRest

-----------------------------------------------------------------------------
(* The creator's tab                                                        *)

FromTab(rest) ==
  /\ FromClient(HostConn, hostOut', rest)
  /\ RelayRests /\ PhonesRest

TabActs ==
  /\ \/ Tab!Start
     \/ Tab!Connect
     \/ Tab!Approve
     \/ Tab!Reject
     \/ Tab!End
  /\ FromTab(down[HostConn])

TabAnswers ==
  /\ Tab!AnswerBlocked \/ \E s \in Snapshot : Tab!AnswerSent(s)
  /\ FromTab(down[HostConn])

TabHears ==
  /\ down[HostConn] # <<>>
  /\ LET m == Head(down[HostConn])
     IN \/ m = Opened /\ Tab!OnOpen
        \/ m \in {Close, Lost} /\ Tab!OnClose
        \/ m \notin {Opened, Close, Lost} /\ Tab!OnMessage(m)
        \/ m \notin {Close, Lost} /\ Tab!Ignore
  /\ FromTab(Tail(down[HostConn]))

-----------------------------------------------------------------------------
(* The phones                                                               *)

FromPhone(p, rest) ==
  /\ FromClient(p, phoneOut', rest)
  /\ RelayRests /\ TabRests

\* The link can be opened once the tab has shown it.
PhoneActs(p) ==
  /\ \/ linkShown /\ Phones!Load(p)
     \/ Phones!Dispose(p)
  /\ FromPhone(p, down[p])

PhoneHears(p) ==
  /\ down[p] # <<>>
  /\ LET m == Head(down[p])
     IN \/ m = Opened /\ Phones!OnOpen(p)
        \/ m \in {Close, Lost} /\ Phones!OnClose(p, m = Lost)
        \/ m \notin {Opened, Close, Lost} /\ Phones!OnMessage(p, m)
        \/ m \notin {Close, Lost} /\ Phones!Ignore(p)
  /\ FromPhone(p, Tail(down[p]))

-----------------------------------------------------------------------------
(* The relay                                                                *)

AtRelay == FromRelay /\ TabRests /\ PhonesRest /\ UNCHANGED losses

RelayAccepts(c) ==
  /\ Sock(c) = "connecting" /\ down[c] = <<>>
  /\ Relay!Upgrade(c)
  /\ down' = [down EXCEPT ![c] = <<Opened>>]
  /\ TabRests /\ PhonesRest
  /\ UNCHANGED <<up, losses>>

RelayHears(c) ==
  /\ up[c] # <<>>
  /\ LET m == Head(up[c])
     IN \/ /\ m = Close
           /\ Relay!SocketClosed(c)
           /\ up' = [up EXCEPT ![c] = <<>>]
        \/ /\ m # Close
           /\ \/ Relay!ReceiveFirst(c, m)
              \/ Relay!ReceiveInTurn(c, m, TRUE)
              \/ Relay!ReceiveOutOfTurn(c, m, TRUE)
              \/ Relay!ReceiveSpent(c)
              \/ Relay!ReceiveAfterEnd(c)
           /\ up' = [up EXCEPT ![c] = Tail(@)]
  /\ AtRelay

RelayVerifies(c) == Relay!HelloVerified(c)  /\ AtRelay /\ UNCHANGED up
RelayWaits(c)    == Relay!PreAuthTimeout(c) /\ AtRelay /\ UNCHANGED up
RelayExpires(t)  == Relay!TimerFires(t)     /\ AtRelay /\ UNCHANGED up
RelayForgets     == Relay!Evict             /\ AtRelay /\ UNCHANGED up

-----------------------------------------------------------------------------
(* The specification                                                        *)

Init ==
  /\ Relay!Init /\ Tab!Init /\ Phones!Init
  /\ up = [c \in Conn |-> <<>>] /\ down = [c \in Conn |-> <<>>]
  /\ losses = 0

Next ==
  \/ TabActs \/ TabAnswers \/ TabHears
  \/ \E p \in Phone : PhoneActs(p) \/ PhoneHears(p)
  \/ \E c \in Conn : \/ RelayAccepts(c) \/ RelayHears(c) \/ RelayVerifies(c)
                     \/ RelayWaits(c) \/ Lose(c)
  \/ \E t \in Relay!Timer : RelayExpires(t)
  \/ RelayForgets

\* Events are delivered, awaits resolve, timers run out.  No user is obliged to do
\* anything, and the idle timer is not fair (see RelaySession).
Fairness ==
  /\ WF_vars(Tab!Connect /\ TabActs) /\ WF_vars(TabAnswers) /\ WF_vars(TabHears)
  /\ \A p \in Phone : WF_vars(PhoneHears(p))
  /\ \A c \in Conn : /\ WF_vars(RelayAccepts(c)) /\ WF_vars(RelayHears(c))
                     /\ WF_vars(RelayVerifies(c)) /\ WF_vars(RelayWaits(c))
  /\ \A t \in {"pairing", "absolute"} : WF_vars(RelayExpires(t))

Spec     == Init /\ [][Next]_vars
FairSpec == Spec /\ Fairness

-----------------------------------------------------------------------------
(* Properties                                                               *)

\* Every variable has its type.  All that the clients send is of RelaySession's
\* Message, and the tab never answers two requests at once.
TypeOK ==
  /\ Relay!TypeOK /\ Tab!TypeOK /\ Phones!TypeOK
  /\ answering <= 1
  /\ \A c \in Conn : \A k \in DOMAIN up[c] : up[c][k] \in Relay!Message \cup {Close}

\* A phone shows a story only if the host's approval was for that very phone,
\* however the phones come, go and come back (RelaySource, ViewerHello).
StoryNeedsConsent ==
  [][\A p \in Phone : loaded[p] # "ok" /\ loaded'[p] = "ok" => p \in approved]_vars

\* What the tab sends of a story is what the relay and the phone expect of it, in
\* number, order and size: a phone gives up for a failed connection or an error of
\* the relay, never for a story message (relaySource.ts, case image-chunk).
StoryIsWellFormed ==
  [][\A p \in Phone : loaded[p] = "pending" /\ loaded'[p] = "unavailable"
        => Head(down[p]).type \in {"lost", "error"}]_vars

\* The relay closes a session for the fault of this host for one reason only: the
\* creator answered a phone that had left meanwhile (OnPairApprove, OnPairReject).
BlamedForStaleAnswers ==
  [][host # NoConn
       => \A code \in {"protocol-violation", "too-large", "rate-limited", "not-paired"} :
            Relay!Error(host, code) \subseteq out'
              => viewer = NoConn /\ up[HostConn][1].type \in {"pair-approve", "pair-reject"}]_vars

\* Every phone comes to a result, whatever the creator does or omits and whichever
\* connection breaks: the reader does not say "connecting" for ever (load()).
LoadSettles == \A p \in Phone : ws[p] = "connecting" ~> loaded[p] # "pending"

\* A phone that waits for the approval is shown to the creator, or about to be, or
\* about to get an answer meant for a phone before it: the tab may ignore a
\* pair-request that comes while it still shows an earlier one (applyPairRequest).
OnItsWay(channel, types) == \E k \in DOMAIN channel : channel[k].type \in types
WaiterIsShown ==
  viewer # NoConn /\ ~paired /\ ~ended
    => \/ phase = "confirm-pairing"
       \/ OnItsWay(down[HostConn], {"pair-request"})
       \/ OnItsWay(up[HostConn], {"pair-approve", "pair-reject", "close"})

\* The tab does not ask for ever on behalf of a phone that may be gone: without an
\* answer the relay expires the session (applyApprove, #endBySessionExpired).
TabMovesOn == phase = "confirm-pairing" ~> phase # "confirm-pairing"

\* A host that keeps to the protocol is never at fault: what concerns a viewer
\* closes the viewer (relay/README.md:120), and when a viewer leaves, the host
\* "keeps waiting" (session-do.ts:65).
HonestHostIsNeverAtFault ==
  [][host = HostConn => ~ Relay!Error(HostConn, "protocol-violation") \subseteq out']_vars

\* While the tab shows that a transfer is blocked, "the session is still connected"
\* (hostSession.ts:99).
SendBlockedIsConnected == phase = "send-blocked" => hostWs = "open"

\* A phone whose session has run out its time is told so: "when the TTL expires,
\* both sides receive {type:"session-expired"}" (protocol.ts:123-124).
ExpiryIsTold ==
  [][\A p \in Phone : loaded[p] = "pending" /\ loaded'[p] = "unavailable"
        => Head(down[p]) \notin Relay!Error(p, "session-expired")]_vars
=============================================================================
