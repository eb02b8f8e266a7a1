---------------------------- MODULE MCAuthoring -----------------------------
(* Authoring on a small instance: see the MCAuthoring*.cfg files. *)
EXTENDS Authoring

\* What was answered, and what a client asked of the storage before, are read no
\* more: states that differ in them only have the same future.
View == <<files, revision, tx, status, call,
          [c \in Client |-> IF status[c] = "idle" THEN NoMutation ELSE mutation[c]]>>

\* The minimal story has page "a"; the structures put another beside it, or in
\* its place.
StoryOf(chapters, bytes) ==
  [slug |-> "s", chapters |-> chapters, bytes |-> bytes, valid |-> TRUE, wellShaped |-> TRUE]

TextOf(c, bytes) == [tool |-> "text", chapter |-> c, bytes |-> bytes]
ImageOf(c, bytes, magic, mime) ==
  [tool |-> "image", decodes |-> TRUE, slug |-> "s", chapter |-> c, bytes |-> bytes, magic |-> magic, mime |-> mime]

Requests ==
  {[tool |-> "create", slug |-> "s", legal |-> TRUE], [tool |-> "create", slug |-> "s", legal |-> FALSE],
   [tool |-> "delete"],
   [tool |-> "structure", story |-> [StoryOf({"c"}, 1) EXCEPT !.valid = FALSE]],
   [tool |-> "structure", story |-> StoryOf({"b"}, 1)],
   [tool |-> "structure", story |-> StoryOf({"a", "b"}, 1)],
   TextOf("a", 2), TextOf("b", 1), TextOf("c", 1),
   ImageOf("a", 2, "png", "absent"), ImageOf("a", 1, "jpg", "image/jpeg"), ImageOf("b", 2, "png", "absent"),
   ImageOf("a", 3, "png", "absent"), ImageOf("a", 1, "png", "image/jpeg"),
   [ImageOf("a", 1, "png", "absent") EXCEPT !.slug = "t"],
   [ImageOf("a", 1, "png", "absent") EXCEPT !.decodes = FALSE],
   [tool |-> "readiness"], [tool |-> "load"], [tool |-> "inspect"]}

\* The tools the agent calls, and what the page does by itself.
Roles == "agent" :> {"create", "structure", "text", "image", "inspect"}
           @@ "page" :> {"delete", "readiness", "load"}
=============================================================================
