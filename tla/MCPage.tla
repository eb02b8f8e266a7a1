------------------------------- MODULE MCPage -------------------------------
(* Page on a small instance: see MCPage.cfg. *)
EXTENDS Page

Stories == {[slug |-> "s", pages |-> {"a", "b"}], [slug |-> "t", pages |-> {"a"}]}

Mix(h, s, c, r, d, host) ==
  [screen |-> TRUE, hydrates |-> h, sessions |-> s, claims |-> c, revisions |-> r,
   deletions |-> d, host |-> host, starts |-> 1, stops |-> 0]

\* What is on the screen; the preview session; the focus; the tools of the page, and
\* of an application without one.
Mixes ==
  {Mix(3, 0, 0, 2, 1, FALSE), Mix(2, 0, 0, 3, 1, FALSE), Mix(2, 2, 0, 1, 0, FALSE), Mix(2, 0, 2, 2, 0, FALSE),
   Mix(1, 0, 0, 1, 0, TRUE),
   [Mix(0, 0, 0, 0, 0, TRUE) EXCEPT !.screen = FALSE, !.starts = 3, !.stops = 2]}
=============================================================================
