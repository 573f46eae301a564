----------------------- MODULE MCBackgroundScheduler -----------------------
(* A small instance of BackgroundScheduler for TLC. *)
EXTENDS BackgroundScheduler
=============================================================================
