---------------------------- MODULE MCServerLife -----------------------------
(* Small instance of the server's life: MCServerLife.cfg gives the values. *)
(* The queue holds two records: three calls that end while the worker does *)
(* not run fill it and lose one.                                           *)
EXTENDS ServerLife
=============================================================================
