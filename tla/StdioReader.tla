---------------------------- MODULE StdioReader -----------------------------
(***************************************************************************)
(* The bounded line reader of transport/stdio.py, _read_lines_bounded.     *)
(* Input comes in chunks whose borders have nothing to do with lines.  An  *)
(* action is one read, or one turn of the loop over a chunk: a turn may    *)
(* yield a line, and the generator waits there until the message has been  *)
(* taken.  stdin_reader sends what is yielded, in order.                   *)
(***************************************************************************)
EXTENDS LineParameters

CONSTANT MaxBytes  \* bound: the input is no longer

VARIABLES
  chunk,     \* chunk[pos:], what is left of the last read
  buf,       \* the current line, as long as it fits
  oversize,  \* the current line is being skipped
  out,       \* the lines yielded
  closed,    \* end of input, or the transport was shut down
  consumed,  \* history: the bytes the loop has passed
  line       \* history: the current line, however long

vars == <<chunk, buf, oversize, out, closed, consumed, line>>

Init ==
  /\ chunk = << >> /\ buf = << >> /\ oversize = FALSE
  /\ out = << >> /\ closed = FALSE
  /\ consumed = << >> /\ line = << >>

Read ==
  /\ ~ closed /\ chunk = << >>
  /\ Len(consumed) < MaxBytes
  /\ \E c \in Chunk : Len(consumed) + Len(c) <= MaxBytes /\ chunk' = c
  /\ UNCHANGED <<buf, oversize, out, closed, consumed, line>>

(* chunk.find: the first newline.                                          *)
NewlineAt(nl) ==
  /\ nl \in 1 .. Len(chunk)
  /\ chunk[nl] = Newline
  /\ \A i \in 1 .. nl - 1 : chunk[i] # Newline
NoNewline == \A i \in 1 .. Len(chunk) : chunk[i] # Newline

(* A seeded fault: a line found too long stays in the buffer once.         *)
TakePartBuffering ==
  /\ ~ closed /\ chunk # << >>
  /\ NoNewline
  /\ buf' = IF oversize THEN << >> ELSE buf \o chunk
  /\ oversize' = (oversize \/ ~ Fits(buf \o chunk))
  /\ chunk' = << >>
  /\ consumed' = consumed \o chunk
  /\ line' = line \o chunk
  /\ UNCHANGED <<out, closed>>

(* No newline in what is left: it is kept, or the line is found too long.  *)
TakePart ==
  /\ ~ closed /\ chunk # << >>
  /\ NoNewline
  /\ LET longer == buf \o chunk
     IN  /\ buf' = IF oversize \/ ~ Fits(longer) THEN << >> ELSE longer
         /\ oversize' = (oversize \/ ~ Fits(longer))
  /\ chunk' = << >>
  /\ consumed' = consumed \o chunk
  /\ line' = line \o chunk
  /\ UNCHANGED <<out, closed>>

(* A seeded fault: a line dropped at its newline starts another skip.      *)
TakeLineStillSkipping(nl) ==
  /\ NewlineAt(nl)
  /\ LET segment == SubSeq(chunk, 1, nl - 1)
         whole == buf \o segment
     IN  /\ out' = IF ~ oversize /\ Fits(whole) THEN Append(out, whole) ELSE out
         /\ oversize' = (~ oversize /\ ~ Fits(whole))
         /\ consumed' = consumed \o segment \o <<Newline>>
  /\ buf' = << >> /\ line' = << >>
  /\ chunk' = SubSeq(chunk, nl + 1, Len(chunk))
  /\ UNCHANGED closed

(* A newline at nl ends the current line: skipped to its end, dropped, or  *)
(* yielded.                                                                *)
TakeLine(nl) ==
  /\ NewlineAt(nl)
  /\ LET segment == SubSeq(chunk, 1, nl - 1)
         whole == buf \o segment
     IN  /\ out' = IF ~ oversize /\ Fits(whole) THEN Append(out, whole) ELSE out
         /\ consumed' = consumed \o segment \o <<Newline>>
  /\ oversize' = FALSE
  /\ buf' = << >> /\ line' = << >>
  /\ chunk' = SubSeq(chunk, nl + 1, Len(chunk))
  /\ UNCHANGED closed

(* An empty read: what is left of the last line is yielded.                *)
EndOfFile ==
  /\ ~ closed /\ chunk = << >>
  /\ closed' = TRUE
  /\ out' = IF buf # << >> /\ ~ oversize THEN Append(out, buf) ELSE out
  /\ UNCHANGED <<chunk, buf, oversize, consumed, line>>

(* shutdown(): the task group is cancelled wherever the reader waits, for  *)
(* input or for a line to be taken.                                        *)
Shutdown ==
  /\ ~ closed
  /\ closed' = TRUE
  /\ UNCHANGED <<chunk, buf, oversize, out, consumed, line>>

Next ==
  \/ Read
  \/ TakePart
  \/ ~ closed /\ \E nl \in 1 .. Len(chunk) : TakeLine(nl)
  \/ EndOfFile
  \/ Shutdown

Spec == Init /\ [][Next]_vars
-----------------------------------------------------------------------------
TypeOK ==
  /\ chunk \in Seq(Bytes \cup {Newline}) /\ Len(chunk) <= ChunkSize
  /\ buf \in Seq(Bytes) /\ line \in Seq(Bytes)
  /\ oversize \in BOOLEAN /\ closed \in BOOLEAN
  /\ consumed \in Seq(Bytes \cup {Newline})
  /\ out \in Seq(Seq(Bytes))

(* "no unbounded buffering": what is buffered is the current line while it *)
(* fits, and nothing once it does not.                                     *)
BufferBounded ==
  /\ Fits(buf)
  /\ oversize <=> ~ Fits(line)
  /\ buf = IF oversize THEN << >> ELSE line

Inv == TypeOK /\ BufferBounded

(* "Lines exceeding max_line_bytes are discarded mid-stream (only the      *)
(* bytes up to the next newline are skipped)": wherever the chunks end,    *)
(* the reader yields what a reader of whole lines would.                   *)
Reference == INSTANCE LineReader
ImplementsLineReader == Reference!Spec
=============================================================================
