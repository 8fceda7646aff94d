------------------------- MODULE MCLocationPipeline -------------------------
(* Constant values for the TLC runs of LocationPipeline. *)
EXTENDS LocationPipeline, TLC

CONSTANTS d1, e1, e2, c1, c2, m1

\* One tracker with two points.
OneDevice == {<<d1, e1>>, <<d1, e2>>}

OnePoint == {<<d1, e1>>}
OneInvalid == {<<d1, e2>>}
=============================================================================
