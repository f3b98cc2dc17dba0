--------------------------- MODULE LineParameters ---------------------------
(***************************************************************************)
(* Input as bytes, shared by the reference reader and by the one of        *)
(* transport/stdio.py.                                                     *)
(***************************************************************************)
EXTENDS Integers, Sequences

CONSTANTS
  Bytes,      \* what a line consists of
  Newline,    \* what ends it
  Limit,      \* max_line_bytes
  ChunkSize   \* most bytes one read returns

ASSUME LineConstants ==
  /\ Newline \notin Bytes
  /\ Limit \in Nat
  /\ ChunkSize \in Nat \ {0}

(* What one read returns, and a piece of a line in it.                     *)
Chunk == UNION {[1 .. n -> Bytes \cup {Newline}] : n \in 1 .. ChunkSize}
Segment == UNION {[1 .. n -> Bytes] : n \in 0 .. ChunkSize}

Fits(bytes) == Len(bytes) <= Limit
=============================================================================
