----------------------------- MODULE MCTimedWait -----------------------------
(* Three waits and two threads that complete the promise. *)
EXTENDS TimedWait

==============================================================================
