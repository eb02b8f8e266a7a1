-------------------------- MODULE PreviewProtocol --------------------------
(***************************************************************************)
(* The messages of the phone preview (src/preview/protocol.ts), reduced to *)
(* what the relay, the host tab and the phone look at.  A manifest is the  *)
(* byte length of each image, 0 for an image it does not contain.          *)
(***************************************************************************)

HelloMsg(role, cred) == [type |-> "hello", role |-> role, cred |-> cred]
ManifestMsg(images)  == [type |-> "snapshot-manifest", images |-> images]
ChunkMsg(chunk)      == [type |-> "image-chunk", chunk |-> chunk]
Plain(type)          == [type |-> type]

\* The messages that carry the story.
StoryType == {"snapshot-manifest", "image-chunk", "snapshot-complete"}
=============================================================================
