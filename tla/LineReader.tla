----------------------------- MODULE LineReader -----------------------------
(***************************************************************************)
(* What the stdio transport promises of its input: the lines that fit are  *)
(* delivered whole, in order and once; a longer line is left out, and only *)
(* that line.  The end of input completes a last line that is not empty.   *)
(* The reference keeps every line as a whole, however long it grows.       *)
(***************************************************************************)
EXTENDS LineParameters

VARIABLES
  consumed,  \* the input so far
  line,      \* what has come of the current line
  out,       \* the lines delivered
  closed     \* there is no more input

vars == <<consumed, line, out, closed>>

Init == consumed = << >> /\ line = << >> /\ out = << >> /\ closed = FALSE

Delivered(whole) == IF Fits(whole) THEN Append(out, whole) ELSE out

Grow(segment) ==
  /\ ~ closed
  /\ consumed' = consumed \o segment
  /\ line' = line \o segment
  /\ UNCHANGED <<out, closed>>

EndLine(segment) ==
  /\ ~ closed
  /\ consumed' = consumed \o segment \o <<Newline>>
  /\ out' = Delivered(line \o segment)
  /\ line' = << >>
  /\ UNCHANGED closed

EndInput ==
  /\ ~ closed
  /\ closed' = TRUE
  /\ out' = IF line = << >> THEN out ELSE Delivered(line)
  /\ UNCHANGED <<consumed, line>>

Cancel ==
  /\ ~ closed
  /\ closed' = TRUE
  /\ UNCHANGED <<consumed, line, out>>

Next ==
  \/ \E segment \in Segment : Grow(segment) \/ EndLine(segment)
  \/ EndInput
  \/ Cancel

Spec == Init /\ [][Next]_vars
=============================================================================
