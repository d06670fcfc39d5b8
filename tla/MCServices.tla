----------------------------- MODULE MCServices -----------------------------
(***************************************************************************)
(* Services for TLC.  The items of QueueScan have every status with every  *)
(* kind of tracked state; one has failed and is another movie's.           *)
(***************************************************************************)
EXTENDS Services

CONSTANTS movie, other

MCItems ==
  [movie : {movie},
   status : {"paused", "completed", "queued", "downloading", "delay", Null},
   state : {"importing", "downloading", Null}]
  \union {[movie |-> other, status |-> "failed", state |-> Null]}
=============================================================================
