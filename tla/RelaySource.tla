----------------------------- MODULE RelaySource -----------------------------
(***************************************************************************)
(* The phones that open the preview link: one RelaySource each             *)
(* (src/preview/relaySource.ts).  A phone that opens the link again is     *)
(* another member of Phone.  Every action is one turn of a phone's event   *)
(* loop; what the reader shows meanwhile (onStatus) is left out.           *)
(***************************************************************************)
EXTENDS PreviewProtocol, Integers, Functions

CONSTANTS
  Phone,           \* the RelaySource instances, one per opened link
  Image,           \* the image ids of the story
  MaxImageBytes,   \* MAX_IMAGE_BYTES
  MaxTotalBytes    \* MAX_SNAPSHOT_TOTAL_BYTES

VARIABLES
  ws,         \* [Phone -> Socket]: #ws as the phone sees it; "none" = null
  loaded,     \* [Phone -> Result]: how load() settled
  declared,   \* [Phone -> manifest or Nothing]: #manifest
  received,   \* [Phone -> [Image -> progress]]: #progress; total 0 stands for -1
  phoneOut    \* what the last turn sent

vars == <<ws, loaded, declared, received, phoneOut>>

Socket  == {"none", "connecting", "open", "closing", "closed"}
Result  == {"pending", "ok", "rejected", "unavailable", "host-offline", "expired"}
Nothing == [i \in Image |-> -1]
NoneReceived == [i \in Image |-> [next |-> 0, total |-> 0, bytes |-> 0]]

\* finish: only the first result counts.
Finish(p, result) ==
  loaded' = [loaded EXCEPT ![p] = IF @ = "pending" THEN result ELSE @]
CloseWs(p) == ws' = [ws EXCEPT ![p] = IF @ \in {"connecting", "open"} THEN "closing" ELSE @]
Quit(p, result) ==
  /\ Finish(p, result) /\ CloseWs(p)
  /\ phoneOut' = <<>>
  /\ UNCHANGED <<declared, received>>

-----------------------------------------------------------------------------

\* load() and #connect up to the socket: the link holds a token.
Load(p) ==
  /\ ws[p] = "none"
  /\ ws' = [ws EXCEPT ![p] = "connecting"]
  /\ phoneOut' = <<>>
  /\ UNCHANGED <<loaded, declared, received>>

\* The open event.
OnOpen(p) ==
  /\ ws[p] = "connecting"
  /\ ws' = [ws EXCEPT ![p] = "open"]
  /\ phoneOut' = <<HelloMsg("viewer", "good")>>
  /\ UNCHANGED <<loaded, declared, received>>

\* Mutant: the close event settles nothing.
OnCloseSilent(p, failed) ==
  /\ ws[p] \in {"connecting", "open", "closing"}
  /\ ws' = [ws EXCEPT ![p] = "closed"]
  /\ phoneOut' = <<>>
  /\ UNCHANGED <<loaded, declared, received>>

\* The close event, after an error event if the connection has failed.
OnClose(p, failed) ==
  /\ ws[p] \in {"connecting", "open", "closing"}
  /\ ws' = [ws EXCEPT ![p] = "closed"]
  /\ Finish(p, IF failed THEN "unavailable" ELSE "host-offline")
  /\ phoneOut' = <<>>
  /\ UNCHANGED <<declared, received>>

\* dispose(): the reader is unmounted.  #disposed says no more than the socket does,
\* which delivers no more messages.
Dispose(p) ==
  /\ ws[p] \in {"connecting", "open"}
  /\ CloseWs(p)
  /\ phoneOut' = <<>>
  /\ UNCHANGED <<loaded, declared, received>>

\* Mutant: the total of an image is expected before its first chunk has told it.
FitsKnownTotal(p, k) ==
  LET r == received[p][k.id]
  IN /\ declared[p] # Nothing /\ declared[p][k.id] > 0
     /\ r.total = k.total /\ r.next = k.index
     /\ r.bytes + k.bytes <= declared[p][k.id]

\* An image-chunk is taken if it continues the image and stays within the limits.
Sum(counts) == FoldFunction(+, 0, counts)
Fits(p, k) ==
  LET r == received[p][k.id]
  IN /\ declared[p] # Nothing /\ declared[p][k.id] > 0
     /\ r.total \in {0, k.total}
     /\ r.next = k.index
     /\ r.bytes + k.bytes <= declared[p][k.id]
     /\ r.bytes + k.bytes <= MaxImageBytes
     /\ Sum([i \in Image |-> received[p][i].bytes]) + k.bytes <= MaxTotalBytes

\* Every image must have arrived to its last byte.
Complete(p) ==
  declared[p] # Nothing /\ \A i \in Image : received[p][i].bytes = declared[p][i]

Chunk(p, k) ==
  IF ~Fits(p, k) THEN Quit(p, "unavailable")
  ELSE /\ received' = [received EXCEPT ![p][k.id] =
            [next |-> k.index + 1, total |-> k.total, bytes |-> @.bytes + k.bytes]]
       /\ phoneOut' = <<>>
       /\ UNCHANGED <<ws, loaded, declared>>

Manifest(p, images) ==
  /\ declared' = [declared EXCEPT ![p] = images]
  /\ received' = [received EXCEPT ![p] = NoneReceived]
  /\ phoneOut' = <<>>
  /\ UNCHANGED <<ws, loaded>>

\* The browser drops the messages of a socket that is closing.
Ignore(p) ==
  /\ ws[p] = "closing"
  /\ phoneOut' = <<>>
  /\ UNCHANGED <<ws, loaded, declared, received>>

\* The message event.
OnMessage(p, m) ==
  /\ ws[p] = "open"
  /\ CASE m.type = "pair-approve" ->
            /\ phoneOut' = <<Plain("snapshot-request")>>
            /\ UNCHANGED <<ws, loaded, declared, received>>
       [] m.type = "pair-reject"       -> Quit(p, "rejected")
       [] m.type = "snapshot-manifest" -> Manifest(p, m.arg)
       [] m.type = "image-chunk"       -> Chunk(p, m.arg)
       [] m.type = "snapshot-complete" -> Quit(p, IF Complete(p) THEN "ok" ELSE "unavailable")
       [] OTHER -> /\ Finish(p, CASE m.type = "host-offline"    -> "host-offline"
                                  [] m.type = "session-expired" -> "expired"
                                  [] m.type = "error"           -> "unavailable"
                                  [] OTHER                      -> "pending")
                   /\ phoneOut' = <<>>
                   /\ UNCHANGED <<ws, declared, received>>

Init ==
  /\ ws = [p \in Phone |-> "none"]
  /\ loaded = [p \in Phone |-> "pending"]
  /\ declared = [p \in Phone |-> Nothing]
  /\ received = [p \in Phone |-> NoneReceived]
  /\ phoneOut = <<>>

TypeOK ==
  /\ ws \in [Phone -> Socket]
  /\ loaded \in [Phone -> Result]
  /\ declared \in [Phone -> [Image -> -1 .. MaxImageBytes]]
  /\ \A p \in Phone, i \in Image : received[p][i].bytes \in 0 .. MaxImageBytes
=============================================================================
