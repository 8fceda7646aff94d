-------------------------- MODULE MCTripDetection --------------------------
(* The TLC runs of TripDetection: every constant is a number. *)
EXTENDS TripDetection
=============================================================================
