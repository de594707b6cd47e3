--------------------------- MODULE MCFrameStream ---------------------------
(***************************************************************************)
(* Instances of FrameStream for TLC.                                       *)
(***************************************************************************)
EXTENDS FrameStream

Message(size, known) == [size |-> size, known |-> known]

\* Sizes on both sides of what a header and a short message take together.
MCMessages == {Message(3, TRUE), Message(6, TRUE), Message(3, FALSE)}

=============================================================================
