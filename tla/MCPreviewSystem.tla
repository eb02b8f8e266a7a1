--------------------------- MODULE MCPreviewSystem ---------------------------
(* PreviewSystem on small instances: see the MCPreviewSystem*.cfg files. *)
EXTENDS PreviewSystem, TLC

Symmetry == Permutations(Phone)

\* What a turn sent is read in that turn only, so that states that differ in it
\* have the same future.  (Of the invariants, only those of the types look at it.)
View == <<relay, tab, phones, up, down, losses>>

\* One story: every image has as many bytes as the limit allows.
OneSnapshot == {[i \in Image |-> MaxImageBytes]}
=============================================================================
