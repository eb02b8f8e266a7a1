--------------------------- MODULE MCStoryScreen ---------------------------
(* StoryScreen on small stories: see MCStoryScreen.cfg. *)
EXTENDS StoryScreen

AllNames == <<"", "a", "b", "c">>
Lengths  == ("" :> 0) @@ ("a" :> 1) @@ ("b" :> 1) @@ ("c" :> 3)
              @@ ("x" :> 1) @@ ("y" :> 2) @@ ("z" :> 1) @@ ("long" :> 3)

SmallLimits ==
  [pages |-> 3, text |-> 2, choices |-> 2, label |-> 1, image |-> 2, total |-> 3, id |-> 2,
   imageId |-> 2, title |-> 1, manifest |-> 4]

Content(slug) == [own |-> TRUE, chapter |-> slug]
To(names)     == [i \in DOMAIN names |-> [label |-> 1, target |-> names[i]]]
Node(slug)    == [closed |-> TRUE, content |-> Content(slug), kind |-> "page", next |-> None,
                  choices |-> None, ending |-> "none"]
Passage(slug, id)      == [Node(slug) EXCEPT !.next = id]
Fork(slug, names) == [Node(slug) EXCEPT !.choices = To(names)]
Ending(slug)           == [Node(slug) EXCEPT !.kind = "ending", !.ending = "good"]

Clean(slug) ==
  {Passage(slug, id) : id \in {"a", "b", "c"}} \cup {Ending(slug)}
    \cup {Fork(slug, names) : names \in {<<"b">>, <<"c", "a">>, <<"b", "c">>, <<"c", "b", "a">>}}

Drawn(slug) ==
  Clean(slug) \cup {Node(slug), [Node(slug) EXCEPT !.kind = "other"], [Ending(slug) EXCEPT !.ending = "bad"]}
    \cup {Passage(slug, id) : id \in {"", Dangling}}
    \cup {Fork(slug, names) : names \in {<<>>, <<"">>, <<"b", Dangling>>}}
    \cup {[Fork(slug, <<"a">>) EXCEPT !.next = "b"], [Ending(slug) EXCEPT !.next = "a"],
          [Passage(slug, "b") EXCEPT !.closed = FALSE], [Ending(slug) EXCEPT !.content = None],
          [Ending(slug) EXCEPT !.content.own = FALSE]}

Story(start, nodes) == [header |-> TRUE, start |-> start, nodes |-> nodes]
Sized(spec, title, text, media) == [spec |-> spec, title |-> title, text |-> text, media |-> media]
Slug == {"x", "y", "z"}
Of(x, y, z) == ("x" :> x) @@ ("y" :> y) @@ ("z" :> z)
Plain(spec) == Sized(spec, 1, Of(1, 0, 1), Of(1, 0, 0))

\* Stories of every shape.
Shapes ==
  {Plain(Story(start, ("a" :> n) @@ ("b" :> m))) : start \in {"a", "b", "", Dangling}, n \in Drawn("x"), m \in Drawn("y")}
    \cup {Plain(Story("a", ("a" :> n) @@ ("b" :> m) @@ ("c" :> o))) :
            n \in Clean("x") \cup {[Fork("x", <<"a">>) EXCEPT !.next = "c"]}, m \in Clean("y"), o \in Clean("x")}
    \cup {Plain(Story(start, ("" :> n) @@ ("a" :> m))) : start \in {"", "a"}, n \in Drawn("x"), m \in Drawn("y")}
    \cup {Plain(Story("a", <<>>)), [Plain(Story("a", "a" :> Ending("x"))) EXCEPT !.spec.header = FALSE],
          Plain(Story("a", [id \in {"", "a", "b", "c"} |-> Ending("x")]))}

\* Stories of every size.
Sizes ==
  {Sized(Story("a", ("a" :> [Fork("x", <<"b">>) EXCEPT !.choices[1].label = label]) @@ ("b" :> Ending("y"))),
         title, Of(t, u, 0), Of(m, n, 0)) :
     label \in 0 .. 2, title \in 0 .. 2, t \in 0 .. 3, u \in 0 .. 3, m \in 0 .. 3, n \in 0 .. 3}

\* A chapter whose slug is too long for an image, with one or without.
LongSlugs == {Sized(Story("a", "a" :> Ending("long")), 1, "long" :> 1, "long" :> m) : m \in 0 .. 1}

Tall      == Sized(Story("a", ("a" :> Fork("x", <<"b", "c">>)) @@ ("b" :> Passage("y", "c")) @@ ("c" :> Ending("z"))),
                   1, Of(1, 1, 1), Of(1, 1, 0))
Shorter   == Sized(Story("a", ("a" :> Passage("x", "c")) @@ ("c" :> Ending("z"))), 1, Of(1, 1, 1), Of(0, 0, 1))
Broken    == [Tall EXCEPT !.spec.nodes = ("a" :> Fork("x", <<"b", "c">>)) @@ ("b" :> Ending("y"))]
Single    == Sized(Story("a", "a" :> Ending("x")), 1, Of(1, 0, 0), Of(1, 0, 0))
Rewritten == {Tall, Shorter, Broken}

PansTo == {-60, 0, 60}

Screen(books, tabs, selections, clicks, moves, thumbs, writes) ==
  [books |-> books, tabs |-> tabs, selections |-> selections,
   may |-> [clicks |-> clicks, moves |-> moves, thumbs |-> thumbs, writes |-> writes, open |-> clicks > 0]]

\* The stories as they are; a map that is dragged and clicked, and clicked more or
\* dragged more; cards and their images; a node that is previewed; a reader that is read.
AllScreens ==
  {Screen(Shapes \cup Sizes \cup LongSlugs, {"map"}, {None}, 0, 0, 0, 0),
   Screen({Tall, Shorter, Single}, {"map", "mobile"}, {None, "z"}, 2, 1, 0, 0),
   Screen({Tall}, {"map"}, {None}, 1, 2, 0, 0),
   Screen({Tall}, {"map"}, {None}, 1, 0, 3, 0),
   Screen({Single}, {"map"}, {None}, 1, 0, 3, 1),
   Screen({Tall}, {"map"}, {"y"}, 2, 0, 0, 1),
   Screen({Tall}, {"preview"}, {None}, 3, 0, 0, 1)}
=============================================================================
