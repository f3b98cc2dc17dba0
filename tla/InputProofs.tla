----------------------------- MODULE InputProofs -----------------------------
(***************************************************************************)
(* Proofs about what a client sends: of the bounded line reader, for any   *)
(* input, any limit and any way of cutting the input into chunks; and of   *)
(* the arguments of calls, for any calls, schemas and limits.  The two     *)
(* share no variable; their proofs share this module.                      *)
(***************************************************************************)
EXTENDS StdioReader, Arguments, SequenceTheorems, WellFoundedInduction, TLAPS

LEMMA ChunkIsSequence ==
  ASSUME NEW c \in Chunk
  PROVE  c \in Seq(Bytes \cup {Newline}) /\ Len(c) <= ChunkSize
<1>1. PICK n \in 1 .. ChunkSize : c \in [1 .. n -> Bytes \cup {Newline}]
  BY DEF Chunk
<1>2. n \in Nat /\ n <= ChunkSize
  BY <1>1, LineConstants
<1> QED
  BY <1>1, <1>2

(* A piece of a chunk without a newline is a piece of a line.              *)
LEMMA ShortSequenceIsSegment ==
  ASSUME NEW s \in Seq(Bytes), Len(s) <= ChunkSize
  PROVE  s \in Segment
<1>1. Len(s) \in 0 .. ChunkSize /\ s \in [1 .. Len(s) -> Bytes]
  BY LineConstants
<1> QED
  BY <1>1 DEF Segment

LEMMA PartIsSegment ==
  ASSUME TypeOK, NoNewline
  PROVE  chunk \in Seq(Bytes) /\ chunk \in Segment
<1>1. chunk \in Seq(Bytes \cup {Newline}) /\ Len(chunk) <= ChunkSize
  BY DEF TypeOK
<1>2. \A i \in 1 .. Len(chunk) : chunk[i] \in Bytes
  BY <1>1 DEF NoNewline
<1>3. chunk \in Seq(Bytes)
  BY <1>1, <1>2
<1> QED
  BY <1>1, <1>3, ShortSequenceIsSegment

LEMMA LineIsSegment ==
  ASSUME TypeOK, NEW nl \in 1 .. Len(chunk), NewlineAt(nl)
  PROVE  /\ SubSeq(chunk, 1, nl - 1) \in Seq(Bytes)
         /\ SubSeq(chunk, 1, nl - 1) \in Segment
         /\ SubSeq(chunk, nl + 1, Len(chunk)) \in Seq(Bytes \cup {Newline})
         /\ Len(SubSeq(chunk, nl + 1, Len(chunk))) <= ChunkSize
<1> DEFINE s == SubSeq(chunk, 1, nl - 1)
           rest == SubSeq(chunk, nl + 1, Len(chunk))
<1>1. chunk \in Seq(Bytes \cup {Newline}) /\ Len(chunk) <= ChunkSize /\ Len(chunk) \in Nat
  BY DEF TypeOK
<1>2. Len(s) = nl - 1 /\ \A i \in 1 .. nl - 1 : s[i] = chunk[i]
  BY <1>1
<1>3. \A i \in 1 .. nl - 1 : chunk[i] \in Bytes
  BY <1>1 DEF NewlineAt
<1>4. s \in Seq(Bytes \cup {Newline})
  BY <1>1
<1>5. s \in Seq(Bytes)
  BY <1>2, <1>3, <1>4
<1>6. Len(s) <= ChunkSize
  BY <1>1, <1>2, LineConstants
<1>7. rest \in Seq(Bytes \cup {Newline}) /\ Len(rest) = Len(chunk) - nl
  BY <1>1
<1>8. Len(rest) <= ChunkSize
  BY <1>1, <1>7, LineConstants
<1>9. s \in Segment
  BY <1>5, <1>6, ShortSequenceIsSegment
<1> HIDE DEF s, rest
<1> QED
  BY <1>5, <1>7, <1>8, <1>9 DEF s, rest

LEMMA InitInv == Init => Inv
<1> SUFFICES ASSUME Init PROVE Inv
  OBVIOUS
<1>1. /\ << >> \in Seq(Bytes) /\ << >> \in Seq(Seq(Bytes))
      /\ << >> \in Seq(Bytes \cup {Newline})
  OBVIOUS
<1>2. Len(<< >>) = 0 /\ Fits(<< >>)
  BY LineConstants DEF Fits
<1>3. chunk = << >> /\ buf = << >> /\ line = << >> /\ consumed = << >> /\ out = << >>
  BY DEF Init
<1>4. oversize \in BOOLEAN /\ closed \in BOOLEAN /\ ~ oversize
  BY DEF Init
<1>5. Len(chunk) <= ChunkSize
  BY <1>2, <1>3, LineConstants
<1>6. TypeOK
  BY <1>1, <1>3, <1>4, <1>5 DEF TypeOK
<1>7. BufferBounded
  BY <1>2, <1>3, <1>4 DEF BufferBounded
<1> QED
  BY <1>6, <1>7 DEF Inv

LEMMA StepInv == Inv /\ [Next]_vars => Inv'
<1> SUFFICES ASSUME Inv, [Next]_vars PROVE Inv'
  OBVIOUS
<1> USE LineConstants DEF Inv
<1>1. CASE Read
  <2>1. chunk' \in Seq(Bytes \cup {Newline}) /\ Len(chunk') <= ChunkSize
    BY <1>1, ChunkIsSequence DEF Read
  <2> QED
    BY <1>1, <2>1 DEF Read, TypeOK, BufferBounded, Fits
<1>2. CASE TakePart
  <2>1. chunk \in Seq(Bytes)
    BY <1>2, PartIsSegment DEF TakePart
  <2>2. TypeOK'
    BY <1>2, <2>1 DEF TakePart, TypeOK
  <2>3. Len(line') = Len(line) + Len(chunk) /\ Len(buf \o chunk) = Len(buf) + Len(chunk)
    BY <1>2, <2>1 DEF TakePart, TypeOK
  <2>4. Len(chunk) \in Nat /\ Len(line) \in Nat /\ Len(buf) \in Nat
    BY <2>1 DEF TypeOK
  <2>5. /\ buf' = IF oversize \/ ~ Fits(buf \o chunk) THEN << >> ELSE buf \o chunk
        /\ oversize' <=> (oversize \/ ~ Fits(buf \o chunk))
        /\ line' = line \o chunk
    BY <1>2 DEF TakePart
  <2>6. oversize => Fits(<< >>) /\ ~ Fits(line')
    BY <2>3, <2>4 DEF BufferBounded, Fits
  <2>7. ~ oversize => buf \o chunk = line' /\ (~ Fits(buf \o chunk) => Fits(<< >>))
    BY <2>5, LineConstants DEF BufferBounded, Fits
  <2>8. BufferBounded'
    BY <2>5, <2>6, <2>7 DEF BufferBounded
  <2> QED
    BY <2>2, <2>8
<1>3. CASE ~ closed /\ \E nl \in 1 .. Len(chunk) : TakeLine(nl)
  <2>1. PICK nl \in 1 .. Len(chunk) : TakeLine(nl)
    BY <1>3
  <2> DEFINE segment == SubSeq(chunk, 1, nl - 1)
  <2>2. /\ segment \in Seq(Bytes)
        /\ chunk' \in Seq(Bytes \cup {Newline}) /\ Len(chunk') <= ChunkSize
    BY <2>1, LineIsSegment DEF TakeLine
  <2>3. /\ out' = IF ~ oversize /\ Fits(buf \o segment) THEN Append(out, buf \o segment) ELSE out
        /\ consumed' = consumed \o segment \o <<Newline>>
        /\ oversize' = FALSE /\ buf' = << >> /\ line' = << >> /\ closed' = closed
    BY <2>1 DEF TakeLine
  <2> HIDE DEF segment
  <2>4. buf \o segment \in Seq(Bytes)
    BY <2>2 DEF TypeOK
  <2>5. out' \in Seq(Seq(Bytes))
    BY <2>3, <2>4 DEF TypeOK
  <2>6. consumed' \in Seq(Bytes \cup {Newline})
    BY <2>2, <2>3 DEF TypeOK
  <2>7. ~ oversize' /\ oversize' \in BOOLEAN /\ closed' \in BOOLEAN
    BY <2>3 DEF TypeOK
  <2>8. << >> \in Seq(Bytes) /\ Fits(<< >>)
    BY DEF Fits
  <2>9. TypeOK'
    BY <2>2, <2>3, <2>5, <2>6, <2>7, <2>8 DEF TypeOK
  <2>10. BufferBounded'
    BY <2>3, <2>7, <2>8 DEF BufferBounded
  <2> QED
    BY <2>9, <2>10
<1>4. CASE EndOfFile
  BY <1>4 DEF EndOfFile, TypeOK, BufferBounded, Fits
<1>5. CASE Shutdown
  BY <1>5 DEF Shutdown, TypeOK, BufferBounded, Fits
<1>6. CASE UNCHANGED vars
  BY <1>6 DEF vars, TypeOK, BufferBounded, Fits
<1> QED
  BY <1>1, <1>2, <1>3, <1>4, <1>5, <1>6 DEF Next

(* The reader never holds more of a line than fits, for any input          *)
(* ("no unbounded buffering", _read_lines_bounded).                        *)
THEOREM ReaderBounded == Spec => []Inv
  BY InitInv, StepInv, PTL DEF Spec

LEMMA StepImplements == Inv /\ [Next]_vars => [Reference!Next]_(Reference!vars)
<1> SUFFICES ASSUME Inv, [Next]_vars PROVE [Reference!Next]_(Reference!vars)
  OBVIOUS
<1> USE DEF Inv, BufferBounded, Fits
<1>1. CASE Read
  BY <1>1 DEF Read, Reference!vars
<1>2. CASE TakePart
  <2>1. chunk \in Segment
    BY <1>2, PartIsSegment DEF TakePart
  <2>2. Reference!Grow(chunk)
    BY <1>2 DEF TakePart, Reference!Grow
  <2> QED
    BY <2>1, <2>2 DEF Reference!Next, Segment, Reference!Segment
<1>3. CASE ~ closed /\ \E nl \in 1 .. Len(chunk) : TakeLine(nl)
  <2>1. PICK nl \in 1 .. Len(chunk) : TakeLine(nl)
    BY <1>3
  <2> DEFINE segment == SubSeq(chunk, 1, nl - 1)
  <2>2. segment \in Segment /\ segment \in Seq(Bytes)
    BY <2>1, LineIsSegment DEF TakeLine
  <2>3. /\ out' = IF ~ oversize /\ Fits(buf \o segment) THEN Append(out, buf \o segment) ELSE out
        /\ consumed' = consumed \o segment \o <<Newline>>
        /\ line' = << >> /\ closed' = closed
    BY <2>1 DEF TakeLine
  <2> HIDE DEF segment
  <2>4. out' = IF Fits(line \o segment) THEN Append(out, line \o segment) ELSE out
    <3>1. CASE oversize
      <4>1. Len(line \o segment) = Len(line) + Len(segment) /\ Len(segment) \in Nat /\ Len(line) \in Nat
        BY <2>2 DEF TypeOK
      <4>2. ~ Fits(line \o segment)
        BY <3>1, <4>1, LineConstants DEF Fits
      <4> QED
        BY <2>3, <3>1, <4>2
    <3>2. CASE ~ oversize
      BY <2>3, <3>2
    <3> QED
      BY <3>1, <3>2
  <2>5. Reference!EndLine(segment)
    BY <1>3, <2>3, <2>4 DEF Reference!EndLine, Reference!Delivered, Reference!Fits
  <2> QED
    BY <2>2, <2>5 DEF Reference!Next, Segment, Reference!Segment
<1>4. CASE EndOfFile
  <2>1. Reference!EndInput
    BY <1>4 DEF EndOfFile, Reference!EndInput, Reference!Delivered, Reference!Fits, TypeOK, Fits
  <2> QED
    BY <2>1 DEF Reference!Next
<1>5. CASE Shutdown
  BY <1>5 DEF Shutdown, Reference!Next, Reference!Cancel
<1>6. CASE UNCHANGED vars
  BY <1>6 DEF vars, Reference!vars
<1> QED
  BY <1>1, <1>2, <1>3, <1>4, <1>5, <1>6 DEF Next

(* Where the chunks end cannot be told from what is delivered: the reader  *)
(* implements the one that sees whole lines (_read_lines_bounded).         *)
THEOREM ReaderImplements == Spec => ImplementsLineReader
<1>1. Init => Reference!Init
  BY DEF Init, Reference!Init
<1> QED
  BY <1>1, InitInv, StepInv, StepImplements, PTL DEF Spec, ImplementsLineReader, Reference!Spec
-----------------------------------------------------------------------------
(* Induction without operators for parameters, from the library's fact     *)
(* that < is well-founded on the natural numbers: a set of them has a      *)
(* least member, a set that is closed under successors up to n reaches n,  *)
(* and a function can be defined from one value to the next.               *)
LEMMA Least ==
  ASSUME NEW T \in SUBSET Nat, T # {}
  PROVE  \E x \in T : \A y \in T : x <= y
<1>1. IsWellFoundedOn(OpToRel(<, Nat), Nat)
  BY NatLessThanWellFounded
<1>2. PICK x \in T : \A y \in T : ~ (<<y, x>> \in OpToRel(<, Nat))
  BY <1>1, WFMin, Zenon
<1>3. ASSUME NEW y \in T PROVE x <= y
  <2>1. <<y, x>> \notin OpToRel(<, Nat)
    BY <1>2
  <2>2. <<y, x>> \in Nat \X Nat /\ <<y, x>>[1] = y /\ <<y, x>>[2] = x
    OBVIOUS
  <2>3. ~ (y < x)
    BY <2>1, <2>2 DEF OpToRel
  <2> QED
    BY <2>3
<1> QED
  BY <1>3

LEMMA Induction ==
  ASSUME NEW m \in Nat, NEW n \in Nat, NEW G \in SUBSET Nat, m \in G,
         \A k \in m .. n - 1 : k \in G => k + 1 \in G
  PROVE  m .. n \subseteq G
<1> DEFINE Bad == (m .. n) \ G
<1> SUFFICES ASSUME Bad # {} PROVE FALSE
  OBVIOUS
<1>1. Bad \in SUBSET Nat
  OBVIOUS
<1>2. PICK k \in Bad : \A j \in Bad : k <= j
  <2> HIDE DEF Bad
  <2> QED
    BY <1>1, Least
<1>3. k \in m .. n /\ k \notin G /\ k # m
  BY <1>2
<1>4. k - 1 \in m .. n - 1 /\ ~ (k <= k - 1)
  BY <1>3
<1>5. k - 1 \in G
  BY <1>2, <1>4
<1> QED
  BY <1>3, <1>4, <1>5

LEMMA Recursion ==
  ASSUME NEW S, NEW base \in S, NEW n \in Nat, NEW step \in [1 .. n -> [S -> S]]
  PROVE  \E f \in [0 .. n -> S] :
           f[0] = base /\ \A i \in 1 .. n : f[i] = step[i][f[i - 1]]
<1> DEFINE Good(k) ==
             \E f \in [0 .. k -> S] :
               f[0] = base /\ \A i \in 1 .. k : f[i] = step[i][f[i - 1]]
           G == {k \in 0 .. n : Good(k)}
<1>1. 0 \in G
  <2> DEFINE f0 == [i \in 0 .. 0 |-> base]
  <2>1. f0 \in [0 .. 0 -> S] /\ f0[0] = base
    OBVIOUS
  <2>2. Good(0)
    <3> HIDE DEF f0
    <3> QED
      BY <2>1
  <2> HIDE DEF Good
  <2> QED
    BY <2>2
<1>2. ASSUME NEW k \in 0 .. n - 1, Good(k) PROVE Good(k + 1)
  <2>1. PICK f \in [0 .. k -> S] :
          f[0] = base /\ \A i \in 1 .. k : f[i] = step[i][f[i - 1]]
    BY <1>2
  <2> DEFINE g == [i \in 0 .. k + 1 |-> IF i <= k THEN f[i] ELSE step[k + 1][f[k]]]
  <2>2. g \in [0 .. k + 1 -> S]
    OBVIOUS
  <2>3. g[0] = base /\ \A i \in 1 .. k + 1 : g[i] = step[i][g[i - 1]]
    BY <2>1
  <2> QED
    BY <2>2, <2>3
<1>3. \A k \in 0 .. n - 1 : k \in G => k + 1 \in G
  <2> HIDE DEF Good
  <2> QED
    BY <1>2
<1>4. 0 .. n \subseteq G
  <2>1. G \in SUBSET Nat
    OBVIOUS
  <2> HIDE DEF G
  <2> QED
    BY <1>1, <1>3, <2>1, Induction
<1> QED
  BY <1>4

Iterates(f, n, step, base) == f[0] = base /\ \A i \in 1 .. n : f[i] = step[f[i - 1]]

LEMMA Iteration ==
  ASSUME NEW S, NEW base \in S, NEW n \in Nat, NEW step \in [S -> S]
  PROVE  \E f \in [0 .. n -> S] : Iterates(f, n, step, base)
<1> DEFINE steps == [i \in 1 .. n |-> step]
<1>1. steps \in [1 .. n -> [S -> S]] /\ \A i \in 1 .. n : steps[i] = step
  OBVIOUS
<1> HIDE DEF steps
<1>2. PICK f \in [0 .. n -> S] : f[0] = base /\ \A i \in 1 .. n : f[i] = steps[i][f[i - 1]]
  BY <1>1, Recursion
<1> QED
  BY <1>1, <1>2 DEF Iterates
-----------------------------------------------------------------------------
(* re.sub.  What the scan has seen after each place: where the next match  *)
(* may begin, and the text up to there.                                    *)
PartOf(C) == [length : Nat \ {0}, text : Seq(C)]
Scan(C) == [next : Nat, text : Seq(C)]
Begin == [next |-> 1, text |-> << >>]
Pass(parts, i, x) ==
  IF i < x.next THEN x
  ELSE [next |-> i + parts[i].length, text |-> x.text \o parts[i].text]
Runs(f, parts) ==
  f = [i \in 0 .. Len(parts) |-> IF i = 0 THEN Begin ELSE Pass(parts, i, f[i - 1])]

LEMMA PassTyped ==
  ASSUME NEW C, NEW parts \in Seq(PartOf(C)), NEW i \in 1 .. Len(parts), NEW x \in Scan(C)
  PROVE  Pass(parts, i, x) \in Scan(C)
<1>1. parts[i] \in PartOf(C)
  OBVIOUS
<1>2. parts[i].length \in Nat /\ parts[i].text \in Seq(C) /\ x.text \in Seq(C) /\ x.next \in Nat
  BY <1>1 DEF PartOf, Scan
<1>3. x.text \o parts[i].text \in Seq(C)
  BY <1>2
<1> QED
  BY <1>2, <1>3 DEF Pass, Scan

LEMMA ScanExists ==
  ASSUME NEW C, NEW parts \in Seq(PartOf(C))
  PROVE  \E f \in [0 .. Len(parts) -> Scan(C)] :
            /\ f[0] = Begin
            /\ \A i \in 1 .. Len(parts) : f[i] = Pass(parts, i, f[i - 1])
            /\ Substituted(parts) = f[Len(parts)].text
<1> DEFINE n == Len(parts)
           step == [i \in 1 .. n |-> [x \in Scan(C) |-> Pass(parts, i, x)]]
<1>0. n \in Nat
  OBVIOUS
<1>2. step \in [1 .. n -> [Scan(C) -> Scan(C)]]
  <2> HIDE DEF n
  <2> QED
    BY PassTyped DEF n
<1>3. Begin \in Scan(C)
  BY DEF Begin, Scan
<1>4. PICK f \in [0 .. n -> Scan(C)] :
        f[0] = Begin /\ \A i \in 1 .. n : f[i] = step[i][f[i - 1]]
  <2> HIDE DEF step, n
  <2> QED
    BY <1>0, <1>2, <1>3, Recursion
<1>5. \A i \in 1 .. n : f[i] = Pass(parts, i, f[i - 1])
  <2> HIDE DEF n
  <2> QED
    BY <1>4, <1>0
<1>6. Runs(f, parts)
  BY <1>4, <1>5, <1>0 DEF Runs
<1>7. ASSUME NEW g, Runs(g, parts) PROVE g[n] = f[n]
  <2> DEFINE G == {k \in 0 .. n : g[k] = f[k]}
  <2>1. G \in SUBSET Nat /\ 0 \in G
    BY <1>7, <1>4, <1>0 DEF Runs
  <2>2. ASSUME NEW k \in 0 .. n - 1, k \in G PROVE k + 1 \in G
    <3>1. k + 1 \in 1 .. n /\ (k + 1) - 1 = k /\ g[k] = f[k]
      BY <2>2, <1>0
    <3>2. g[k + 1] = Pass(parts, k + 1, g[k])
      BY <1>7, <3>1 DEF Runs
    <3>3. f[k + 1] = Pass(parts, k + 1, f[k])
      BY <1>5, <3>1
    <3> QED
      BY <3>1, <3>2, <3>3
  <2>3. 0 .. n \subseteq G
    <3> HIDE DEF G, n
    <3> QED
      BY <1>0, <2>1, <2>2, Induction
  <2> QED
    BY <1>0, <2>3
<1>8. Substituted(parts) = f[n].text
  <2> DEFINE h == CHOOSE g : Runs(g, parts)
  <2>1. Runs(h, parts)
    BY <1>6
  <2>2. Substituted(parts) = h[n].text
    BY DEF Substituted, Runs, Begin, Pass
  <2> QED
    BY <2>1, <2>2, <1>7
<1> QED
  BY <1>4, <1>5, <1>8

(* The result is made of what the parts are made of.                       *)
LEMMA SubstitutedTyped ==
  ASSUME NEW C, NEW parts \in Seq(PartOf(C))
  PROVE  Substituted(parts) \in Seq(C)
<1>1. PICK f \in [0 .. Len(parts) -> Scan(C)] : Substituted(parts) = f[Len(parts)].text
  BY ScanExists
<1>2. Len(parts) \in 0 .. Len(parts)
  OBVIOUS
<1> QED
  BY <1>1, <1>2 DEF Scan

(* Where every part is a character kept, the text stays as it is.          *)
LEMMA AllKept ==
  ASSUME NEW C, NEW s \in Seq(C), NEW parts \in Seq(PartOf(C)), Len(parts) = Len(s),
         \A i \in 1 .. Len(s) : parts[i] = Kept(s[i])
  PROVE  Substituted(parts) = s
<1> DEFINE n == Len(parts)
<1>0. n \in Nat /\ n = Len(s)
  OBVIOUS
<1>1. PICK f \in [0 .. n -> Scan(C)] :
        /\ f[0] = Begin
        /\ \A i \in 1 .. n : f[i] = Pass(parts, i, f[i - 1])
        /\ Substituted(parts) = f[n].text
  BY ScanExists
<1> DEFINE Same(k) ==
             /\ f[k].next = k + 1
             /\ Len(f[k].text) = k
             /\ \A i \in 1 .. k : f[k].text[i] = s[i]
           G == {k \in 0 .. n : Same(k)}
<1>2. G \in SUBSET Nat /\ 0 \in G
  BY <1>1, <1>0 DEF Begin
<1>3. ASSUME NEW k \in 0 .. n - 1, k \in G PROVE k + 1 \in G
  <2>1. k + 1 \in 1 .. n /\ (k + 1) - 1 = k /\ k \in 0 .. n /\ Same(k)
    BY <1>3, <1>0
  <2>2. f[k + 1] = Pass(parts, k + 1, f[k])
    BY <1>1, <2>1
  <2>3. parts[k + 1] = Kept(s[k + 1])
    BY <2>1, <1>0
  <2>4. f[k + 1] = [next |-> k + 2, text |-> f[k].text \o <<s[k + 1]>>]
    BY <2>1, <2>2, <2>3 DEF Pass, Kept
  <2>5. f[k].text \in Seq(C) /\ s[k + 1] \in C /\ <<s[k + 1]>> \in Seq(C)
    BY <2>1, <1>0 DEF Scan
  <2>6. /\ Len(f[k].text \o <<s[k + 1]>>) = k + 1
        /\ \A i \in 1 .. k + 1 : (f[k].text \o <<s[k + 1]>>)[i] = s[i]
    BY <2>1, <2>5
  <2> QED
    BY <2>1, <2>4, <2>6
<1>4. 0 .. n \subseteq G
  <2> HIDE DEF G, n
  <2> QED
    BY <1>0, <1>2, <1>3, Induction
<1>5. Same(n)
  BY <1>4, <1>0
<1>6. f[n].text \in Seq(C)
  BY <1>0 DEF Scan
<1> QED
  BY <1>0, <1>1, <1>5, <1>6, SeqEqual

(* A part replaces characters that are there, with no more than they were. *)
Within(parts, i) ==
  /\ i + parts[i].length <= Len(parts) + 1
  /\ Len(parts[i].text) <= parts[i].length

(* The first match is not passed over, and what it takes away is missing   *)
(* at the end.                                                             *)
LEMMA FirstMatchShortens ==
  ASSUME NEW C, NEW parts \in Seq(PartOf(C)), NEW m \in 1 .. Len(parts),
         \A i \in 1 .. Len(parts) : Within(parts, i),
         \A i \in 1 .. m - 1 : parts[i].length = 1
  PROVE  Len(Substituted(parts)) <= Len(parts) - (parts[m].length - Len(parts[m].text))
<1> DEFINE n == Len(parts)
           saved == parts[m].length - Len(parts[m].text)
<1>0. n \in Nat /\ m \in 1 .. n
  OBVIOUS
<1>1. PICK f \in [0 .. n -> Scan(C)] :
        /\ f[0] = Begin
        /\ \A i \in 1 .. n : f[i] = Pass(parts, i, f[i - 1])
        /\ Substituted(parts) = f[n].text
  BY ScanExists
<1>2. ASSUME NEW i \in 1 .. n
      PROVE  /\ parts[i].length \in Nat \ {0}
             /\ parts[i].text \in Seq(C)
             /\ Len(parts[i].text) \in Nat
             /\ i + parts[i].length <= n + 1
             /\ Len(parts[i].text) <= parts[i].length
  <2>1. parts[i] \in PartOf(C)
    OBVIOUS
  <2>2. parts[i].length \in Nat \ {0} /\ parts[i].text \in Seq(C)
    BY <2>1 DEF PartOf
  <2>3. Within(parts, i)
    OBVIOUS
  <2> QED
    BY <2>2, <2>3 DEF Within
<1>3. \A k \in 0 .. n : /\ f[k].next \in Nat
                        /\ f[k].text \in Seq(C)
                        /\ Len(f[k].text) \in Nat
  BY DEF Scan
<1> HIDE DEF n
<1>4. ASSUME NEW k \in 0 .. n - 1, f[k].next <= k + 1
      PROVE  /\ f[k + 1].next = k + 1 + parts[k + 1].length
             /\ Len(f[k + 1].text) = Len(f[k].text) + Len(parts[k + 1].text)
  <2>1. k + 1 \in 1 .. n /\ (k + 1) - 1 = k /\ k \in 0 .. n
    BY <1>0
  <2>2. f[k + 1] = Pass(parts, k + 1, f[k])
    BY <1>1, <2>1
  <2>3. f[k + 1] = [next |-> k + 1 + parts[k + 1].length,
                    text |-> f[k].text \o parts[k + 1].text]
    BY <2>1, <2>2, <1>3, <1>4 DEF Pass
  <2> QED
    BY <2>1, <2>3, <1>2, <1>3
<1> DEFINE Kept1(k) == f[k].next = k + 1 /\ Len(f[k].text) <= k
           G == {k \in 0 .. m - 1 : Kept1(k)}
<1>5. G \in SUBSET Nat /\ 0 \in G
  BY <1>0, <1>1 DEF Begin
<1>6. ASSUME NEW k \in 0 .. (m - 1) - 1, k \in G PROVE k + 1 \in G
  <2>1. k \in 0 .. n - 1 /\ k + 1 \in 1 .. m - 1 /\ k + 1 \in 1 .. n
    BY <1>0
  <2>2. f[k].next = k + 1 /\ Len(f[k].text) <= k
    BY <1>6
  <2>3. parts[k + 1].length = 1 /\ Len(parts[k + 1].text) <= 1
    BY <1>2, <2>1
  <2>4. f[k + 1].next = k + 2 /\ Len(f[k + 1].text) = Len(f[k].text) + Len(parts[k + 1].text)
    <3>1. k \in Nat /\ f[k].next <= k + 1
      BY <1>0, <2>1, <2>2
    <3>2. /\ f[k + 1].next = k + 1 + parts[k + 1].length
          /\ Len(f[k + 1].text) = Len(f[k].text) + Len(parts[k + 1].text)
      BY <1>4, <2>1, <3>1
    <3> QED
      BY <2>3, <3>1, <3>2
  <2>5. f[k + 1].next = k + 2 /\ Len(f[k + 1].text) <= k + 1
    <3>1. Len(f[k].text) \in Nat /\ Len(parts[k + 1].text) \in Nat
      BY <1>0, <1>2, <1>3, <2>1
    <3>2. \A x, y \in Nat : x <= k /\ y <= 1 => x + y <= k + 1
      BY <1>0, <2>1
    <3> QED
      BY <2>2, <2>3, <2>4, <3>1, <3>2
  <2> QED
    BY <2>1, <2>5
<1>7. 0 .. m - 1 \subseteq G
  <2>1. m - 1 \in Nat
    BY <1>0
  <2> HIDE DEF G
  <2> QED
    BY <2>1, <1>5, <1>6, Induction
<1>8. f[m - 1].next = m /\ Len(f[m - 1].text) <= m - 1
  BY <1>0, <1>7
<1> DEFINE Short(k) == f[k].next <= n + 1 /\ Len(f[k].text) + saved <= f[k].next - 1
           H == {k \in m .. n : Short(k)}
<1>9. m \in H
  <2>1. m - 1 \in 0 .. n - 1 /\ (m - 1) + 1 = m
    BY <1>0
  <2>2. f[m].next = m + parts[m].length
    <3>1. f[m - 1].next <= (m - 1) + 1
      BY <1>0, <1>8
    <3> QED
      BY <1>4, <2>1, <3>1
  <2>3. Len(f[m].text) = Len(f[m - 1].text) + Len(parts[m].text)
    <3>1. f[m - 1].next <= (m - 1) + 1
      BY <1>0, <1>8
    <3> QED
      BY <1>4, <2>1, <3>1
  <2>4. /\ m + parts[m].length <= n + 1
        /\ parts[m].length \in Nat /\ Len(parts[m].text) \in Nat /\ Len(f[m - 1].text) \in Nat
    BY <1>0, <1>2, <1>3, <2>1
  <2>5. Short(m)
    <3>1. \A x, y, z \in Nat : x <= m - 1 => (x + y) + (z - y) <= (m + z) - 1
      BY <1>0
    <3> QED
      BY <1>8, <2>2, <2>3, <2>4, <3>1
  <2> QED
    BY <1>0, <2>5
<1>10. ASSUME NEW k \in m .. n - 1, k \in H PROVE k + 1 \in H
  <2>1. k \in 0 .. n - 1 /\ k + 1 \in m .. n /\ k + 1 \in 1 .. n /\ (k + 1) - 1 = k /\ Short(k)
    BY <1>0, <1>10
  <2>2. CASE k + 1 < f[k].next
    <3>1. f[k + 1] = f[k]
      BY <1>1, <2>1, <2>2 DEF Pass
    <3> QED
      BY <2>1, <3>1
  <2>3. CASE ~ (k + 1 < f[k].next)
    <3>1. f[k].next <= k + 1
      BY <1>0, <2>1, <2>3, <1>3
    <3>2. /\ f[k + 1].next = k + 1 + parts[k + 1].length
          /\ Len(f[k + 1].text) = Len(f[k].text) + Len(parts[k + 1].text)
      BY <1>4, <2>1, <3>1
    <3>3. k + 1 + parts[k + 1].length <= n + 1 /\ Len(parts[k + 1].text) <= parts[k + 1].length
      BY <1>2, <2>1
    <3>4. /\ parts[k + 1].length \in Nat /\ Len(parts[k + 1].text) \in Nat
          /\ Len(f[k].text) \in Nat /\ f[k].next \in Nat
          /\ parts[m].length \in Nat /\ Len(parts[m].text) \in Nat
      BY <1>0, <1>2, <1>3, <2>1
    <3>5. Short(k + 1)
      <4>1. \A x, y, z, a, b, next \in Nat :
              x + (a - b) <= next - 1 /\ next <= k + 1 /\ y <= z
                => (x + y) + (a - b) <= (k + 1 + z) - 1
        BY <1>0
      <4> QED
        BY <2>1, <3>1, <3>2, <3>3, <3>4, <4>1
    <3> QED
      BY <2>1, <3>5
  <2> QED
    BY <2>2, <2>3
<1>11. m .. n \subseteq H
  <2>1. H \in SUBSET Nat
    BY <1>0
  <2> HIDE DEF H, n
  <2> QED
    BY <1>0, <1>9, <1>10, <2>1, Induction
<1>12. Short(n)
  BY <1>0, <1>11
<1>13. saved \in Int
  BY <1>0, <1>2
<1> HIDE DEF saved
<1>14. Len(f[n].text) <= n - saved
  BY <1>0, <1>3, <1>12, <1>13
<1> QED
  BY <1>1, <1>14 DEF saved, n

LEMMA NeverLonger ==
  ASSUME NEW C, NEW parts \in Seq(PartOf(C)), \A i \in 1 .. Len(parts) : Within(parts, i)
  PROVE  Len(Substituted(parts)) <= Len(parts)
<1>0. Len(parts) \in Nat /\ Substituted(parts) \in Seq(C)
  BY SubstitutedTyped
<1>1. CASE Len(parts) = 0
  <2>1. parts \in Seq(PartOf({})) /\ Len(parts) = 0
    BY <1>1
  <2>2. Substituted(parts) \in Seq({})
    BY <2>1, SubstitutedTyped
  <2>3. Len(Substituted(parts)) = 0
    BY <2>2
  <2> QED
    BY <1>1, <2>3
<1>2. CASE Len(parts) # 0
  <2>1. 1 \in 1 .. Len(parts)
    BY <1>0, <1>2
  <2>2. Len(Substituted(parts)) <= Len(parts) - (parts[1].length - Len(parts[1].text))
    BY <2>1, FirstMatchShortens
  <2>3. /\ Len(parts[1].text) <= parts[1].length
        /\ parts[1].length \in Nat /\ Len(parts[1].text) \in Nat
    <3>1. parts[1] \in PartOf(C) /\ Within(parts, 1)
      BY <2>1
    <3>2. parts[1].length \in Nat /\ parts[1].text \in Seq(C)
      BY <3>1 DEF PartOf
    <3> QED
      BY <3>1, <3>2 DEF Within
  <2>4. Len(Substituted(parts)) \in Nat
    BY <1>0
  <2> QED
    BY <1>0, <2>2, <2>3, <2>4
<1> QED
  BY <1>1, <1>2
-----------------------------------------------------------------------------
(* The steps of the cleaning.                                              *)
LEMMA KeptIsPart ==
  ASSUME NEW C, NEW c \in C
  PROVE  Kept(c) \in PartOf(C) /\ Kept(c).length = 1 /\ Len(Kept(c).text) <= 1
BY DEF Kept, PartOf

LEMMA RemovedIsPart ==
  ASSUME NEW C, NEW n \in Nat \ {0}
  PROVE  /\ Replaced(n, << >>) \in PartOf(C)
         /\ Replaced(n, << >>).length = n /\ Len(Replaced(n, << >>).text) <= 0
BY DEF Replaced, PartOf

LEMMA ReplacedIsPart ==
  ASSUME NEW C, NEW n \in Nat \ {0}, NEW c \in C
  PROVE  /\ Replaced(n, <<c>>) \in PartOf(C)
         /\ Replaced(n, <<c>>).length = n /\ Len(Replaced(n, <<c>>).text) <= 1
BY DEF Replaced, PartOf

LEMMA IsSequence ==
  ASSUME NEW S, NEW n \in Nat, NEW f, f \in [1 .. n -> S]
  PROVE  f \in Seq(S) /\ Len(f) = n
OBVIOUS

LEMMA WithoutRemoves ==
  ASSUME NEW C, NEW s \in Seq(C), NEW chars, NEW D, C \ chars \subseteq D
  PROVE  Without(s, chars) \in Seq(D) /\ Len(Without(s, chars)) <= Len(s)
<1> DEFINE parts == [i \in DOMAIN s |-> IF s[i] \in chars THEN Replaced(1, << >>) ELSE Kept(s[i])]
<1>1. DOMAIN s = 1 .. Len(s) /\ Len(s) \in Nat
  OBVIOUS
<1>2. ASSUME NEW i \in 1 .. Len(s)
      PROVE  /\ parts[i] \in PartOf(D)
             /\ parts[i].length = 1 /\ Len(parts[i].text) <= 1
  <2>1. CASE s[i] \in chars
    <3>1. parts[i] = Replaced(1, << >>)
      BY <1>1, <2>1
    <3>2. /\ Replaced(1, << >>) \in PartOf(D)
          /\ Replaced(1, << >>).length = 1 /\ Len(Replaced(1, << >>).text) <= 0
      BY RemovedIsPart
    <3>3. ASSUME NEW x, Len(x) <= 0 PROVE Len(x) <= 1
      BY <3>3
    <3> HIDE DEF parts
    <3> QED
      BY <3>1, <3>2, <3>3
  <2>2. CASE s[i] \notin chars
    <3>1. s[i] \in D
      BY <2>2
    <3>2. parts[i] = Kept(s[i])
      BY <1>1, <2>2
    <3> QED
      <4> HIDE DEF parts
      <4> QED
        BY <3>1, <3>2, KeptIsPart
  <2> QED
    BY <2>1, <2>2
<1>3. parts \in Seq(PartOf(D)) /\ Len(parts) = Len(s)
  <2>1. parts \in [1 .. Len(s) -> PartOf(D)]
    BY <1>1, <1>2
  <2> HIDE DEF parts
  <2> QED
    BY <1>1, <2>1, IsSequence
<1>4. \A i \in 1 .. Len(parts) : Within(parts, i)
  <2> HIDE DEF parts
  <2> QED
    BY <1>1, <1>2, <1>3 DEF Within
<1>5. Without(s, chars) = Substituted(parts)
  BY DEF Without
<1> HIDE DEF parts
<1> QED
  BY <1>3, <1>4, <1>5, SubstitutedTyped, NeverLonger

LEMMA DecodedTyped ==
  ASSUME NEW C, {".", "/", "\\"} \subseteq C, NEW s \in Seq(C)
  PROVE  Decoded(s) \in Seq(C) /\ Len(Decoded(s)) <= Len(s)
<1> DEFINE parts == [i \in DOMAIN s |-> EncodedAt(s, i)]
<1>1. DOMAIN s = 1 .. Len(s) /\ Len(s) \in Nat
  OBVIOUS
<1>2. ASSUME NEW i \in 1 .. Len(s)
      PROVE  /\ EncodedAt(s, i) \in PartOf(C)
             /\ i + EncodedAt(s, i).length <= Len(s) + 1
             /\ Len(EncodedAt(s, i).text) <= EncodedAt(s, i).length
  <2>1. \A digit, letter : Percent(s, i, digit, letter) => i + 2 <= Len(s)
    BY <1>1 DEF Percent, At
  <2>2. ASSUME NEW c \in C, i + 2 <= Len(s), EncodedAt(s, i) = Replaced(3, <<c>>)
        PROVE  /\ EncodedAt(s, i) \in PartOf(C)
               /\ i + EncodedAt(s, i).length <= Len(s) + 1
               /\ Len(EncodedAt(s, i).text) <= EncodedAt(s, i).length
    <3>1. /\ Replaced(3, <<c>>) \in PartOf(C)
          /\ Replaced(3, <<c>>).length = 3 /\ Len(Replaced(3, <<c>>).text) <= 1
      BY ReplacedIsPart
    <3> QED
      BY <1>1, <2>2, <3>1
  <2>3. ASSUME EncodedAt(s, i) = Kept(s[i])
        PROVE  /\ EncodedAt(s, i) \in PartOf(C)
               /\ i + EncodedAt(s, i).length <= Len(s) + 1
               /\ Len(EncodedAt(s, i).text) <= EncodedAt(s, i).length
    <3>1. s[i] \in C
      OBVIOUS
    <3>2. Kept(s[i]) \in PartOf(C) /\ Kept(s[i]).length = 1 /\ Len(Kept(s[i]).text) <= 1
      BY <3>1, KeptIsPart
    <3> QED
      BY <1>1, <2>3, <3>2
  <2>4. \/ \E c \in C : i + 2 <= Len(s) /\ EncodedAt(s, i) = Replaced(3, <<c>>)
        \/ EncodedAt(s, i) = Kept(s[i])
    <3>1. "." \in C /\ "/" \in C /\ "\\" \in C
      OBVIOUS
    <3>2. CASE Percent(s, i, {"2"}, {"e", "E"})
      BY <2>1, <3>1, <3>2 DEF EncodedAt
    <3>3. CASE ~ Percent(s, i, {"2"}, {"e", "E"}) /\ Percent(s, i, {"2"}, {"f", "F"})
      BY <2>1, <3>1, <3>3 DEF EncodedAt
    <3>4. CASE /\ ~ Percent(s, i, {"2"}, {"e", "E"}) /\ ~ Percent(s, i, {"2"}, {"f", "F"})
               /\ Percent(s, i, {"5"}, {"c", "C"})
      BY <2>1, <3>1, <3>4 DEF EncodedAt
    <3>5. CASE /\ ~ Percent(s, i, {"2"}, {"e", "E"}) /\ ~ Percent(s, i, {"2"}, {"f", "F"})
               /\ ~ Percent(s, i, {"5"}, {"c", "C"})
      BY <3>5 DEF EncodedAt
    <3> QED
      BY <3>2, <3>3, <3>4, <3>5
  <2> QED
    BY <2>2, <2>3, <2>4
<1>3. parts \in Seq(PartOf(C)) /\ Len(parts) = Len(s)
  <2>1. parts \in [1 .. Len(s) -> PartOf(C)]
    BY <1>1, <1>2
  <2> HIDE DEF parts
  <2> QED
    BY <1>1, <2>1, IsSequence
<1>4. \A i \in 1 .. Len(parts) : Within(parts, i)
  BY <1>1, <1>2, <1>3 DEF Within
<1>5. Decoded(s) = Substituted(parts)
  BY DEF Decoded
<1> HIDE DEF parts
<1> QED
  BY <1>3, <1>4, <1>5, SubstitutedTyped, NeverLonger

LEMMA NFCTyped ==
  ASSUME NEW C, "E_ACUTE" \in C, NEW s \in Seq(C)
  PROVE  NFC(s) \in Seq(C)
<1> DEFINE parts == [i \in DOMAIN s |-> ComposedAt(s, i)]
<1>1. DOMAIN s = 1 .. Len(s) /\ Len(s) \in Nat
  OBVIOUS
<1>2. ASSUME NEW i \in 1 .. Len(s)
      PROVE  ComposedAt(s, i) \in PartOf(C)
  <2>1. ComposedAt(s, i) = Replaced(2, <<"E_ACUTE">>) \/ ComposedAt(s, i) = Kept(s[i])
    BY DEF ComposedAt
  <2>2. s[i] \in C
    OBVIOUS
  <2> QED
    BY <2>1, <2>2, ReplacedIsPart, KeptIsPart
<1>3. parts \in Seq(PartOf(C))
  <2>1. parts \in [1 .. Len(s) -> PartOf(C)]
    BY <1>1, <1>2
  <2> HIDE DEF parts
  <2> QED
    BY <1>1, <2>1, IsSequence
<1>4. NFC(s) = Substituted(parts)
  BY DEF NFC
<1> HIDE DEF parts
<1> QED
  BY <1>3, <1>4, SubstitutedTyped

(* The parts of a pass that strips: at each place a character is kept,     *)
(* three are taken away, or two from a text of two or three.               *)
TraversalParts(s) == [i \in DOMAIN s |-> TraversalAt(s, i)]

LEMMA TraversalCases ==
  ASSUME NEW C, NEW s \in Seq(C), NEW i \in 1 .. Len(s)
  PROVE  /\ TraversalAt(s, i) \in PartOf(C)
         /\ \/ TraversalAt(s, i) = Kept(s[i])
            \/ TraversalAt(s, i) = Replaced(3, << >>) /\ i + 2 <= Len(s)
            \/ TraversalAt(s, i) = Replaced(2, << >>) /\ i = 1 /\ 2 <= Len(s) /\ Len(s) <= 3
<1>1. Len(s) \in Nat /\ s[i] \in C /\ << >> \in Seq(C)
  OBVIOUS
<1>2. CASE TwoDots(s, i) /\ At(s, i + 2, Separators)
  <2>1. TraversalAt(s, i) = Replaced(3, << >>)
    <3>1. ~ At(s, i, Separators) /\ ~ AtEnd(s, i + 2)
      BY <1>1, <1>2 DEF TwoDots, At, AtEnd, Separators
    <3> QED
      BY <1>2, <3>1 DEF TraversalAt
  <2>2. i + 2 <= Len(s)
    BY <1>1, <1>2 DEF At
  <2> QED
    BY <1>1, <2>1, <2>2, RemovedIsPart
<1>3. CASE ~ (TwoDots(s, i) /\ At(s, i + 2, Separators)) /\ At(s, i, Separators) /\ TwoDots(s, i + 1)
  <2>1. TraversalAt(s, i) = Replaced(3, << >>)
    <3>1. ~ TwoDots(s, i)
      BY <1>1, <1>3 DEF TwoDots, At, Separators
    <3> QED
      BY <1>3, <3>1 DEF TraversalAt
  <2>2. i + 2 <= Len(s)
    BY <1>1, <1>3 DEF TwoDots, At
  <2> QED
    BY <1>1, <2>1, <2>2, RemovedIsPart
<1>4. CASE /\ ~ (TwoDots(s, i) /\ At(s, i + 2, Separators))
           /\ ~ (At(s, i, Separators) /\ TwoDots(s, i + 1))
           /\ i = 1 /\ TwoDots(s, i) /\ AtEnd(s, i + 2)
  <2>1. TraversalAt(s, i) = Replaced(2, << >>)
    BY <1>4 DEF TraversalAt
  <2>2. 2 <= Len(s) /\ Len(s) <= 3
    <3>1. At(s, i + 1, {"."}) /\ AtEnd(s, 3)
      BY <1>4 DEF TwoDots
    <3>2. i + 1 <= Len(s)
      BY <1>1, <3>1 DEF At
    <3>3. Len(s) <= 3
      <4>1. 3 > Len(s) \/ 3 = Len(s)
        BY <3>1 DEF AtEnd
      <4>2. DOMAIN s = 1 .. 3 \/ 3 > Len(s)
        BY <1>1, <4>1
      <4>3. ASSUME ~ (Len(s) <= 3) PROVE FALSE
        <5>1. 4 \in DOMAIN s /\ ~ (3 > Len(s))
          BY <1>1, <4>3
        <5> QED
          BY <4>2, <5>1
      <4> QED
        BY <4>3
    <3> QED
      BY <1>1, <1>4, <3>2, <3>3
  <2> QED
    BY <1>1, <1>4, <2>1, <2>2, RemovedIsPart
<1>5. CASE /\ ~ (TwoDots(s, i) /\ At(s, i + 2, Separators))
           /\ ~ (At(s, i, Separators) /\ TwoDots(s, i + 1))
           /\ ~ (i = 1 /\ TwoDots(s, i) /\ AtEnd(s, i + 2))
  <2>1. TraversalAt(s, i) = Kept(s[i])
    BY <1>5 DEF TraversalAt
  <2> QED
    BY <1>1, <2>1, KeptIsPart
<1> QED
  BY <1>2, <1>3, <1>4, <1>5

LEMMA StripParts ==
  ASSUME NEW C, NEW s \in Seq(C)
  PROVE  /\ TraversalParts(s) \in Seq(PartOf(C)) /\ Len(TraversalParts(s)) = Len(s)
         /\ \A i \in 1 .. Len(s) : TraversalParts(s)[i] = TraversalAt(s, i)
         /\ \A i \in 1 .. Len(s) : Within(TraversalParts(s), i)
         /\ StripOnce(s) = Substituted(TraversalParts(s))
         /\ StripOnce(s) \in Seq(C)
<1>1. DOMAIN s = 1 .. Len(s) /\ Len(s) \in Nat
  OBVIOUS
<1>2. \A i \in 1 .. Len(s) : TraversalParts(s)[i] = TraversalAt(s, i)
  BY <1>1 DEF TraversalParts
<1>3. TraversalParts(s) \in Seq(PartOf(C)) /\ Len(TraversalParts(s)) = Len(s)
  <2>1. TraversalParts(s) \in [1 .. Len(s) -> PartOf(C)]
    BY <1>1, TraversalCases DEF TraversalParts
  <2> QED
    BY <1>1, <2>1, IsSequence
<1>4. ASSUME NEW i \in 1 .. Len(s) PROVE Within(TraversalParts(s), i)
  <2>1. \/ TraversalAt(s, i) = Kept(s[i])
        \/ TraversalAt(s, i) = Replaced(3, << >>) /\ i + 2 <= Len(s)
        \/ TraversalAt(s, i) = Replaced(2, << >>) /\ i = 1 /\ 2 <= Len(s)
    BY TraversalCases
  <2>2. /\ Kept(s[i]).length = 1 /\ Len(Kept(s[i]).text) <= 1
        /\ Replaced(3, << >>).length = 3 /\ Len(Replaced(3, << >>).text) <= 0
        /\ Replaced(2, << >>).length = 2 /\ Len(Replaced(2, << >>).text) <= 0
    BY DEF Kept, Replaced
  <2> QED
    BY <1>1, <1>2, <1>3, <2>1, <2>2 DEF Within
<1>5. StripOnce(s) = Substituted(TraversalParts(s))
  BY DEF StripOnce, TraversalParts
<1> QED
  BY <1>2, <1>3, <1>4, <1>5, SubstitutedTyped

(* A pass over a text finds nothing; or takes three characters away; or    *)
(* leaves at most one: the match of ^..$.                                  *)
LEMMA StripShortens ==
  ASSUME NEW C, NEW s \in Seq(C)
  PROVE  \/ StripOnce(s) = s
         \/ Len(StripOnce(s)) <= Len(s) - 3
         \/ Len(StripOnce(s)) <= 1
<1> DEFINE n == Len(s)
           Found == {i \in 1 .. n : TraversalAt(s, i) # Kept(s[i])}
<1>1. n \in Nat /\ Len(StripOnce(s)) \in Nat
  BY StripParts
<1>2. CASE Found = {}
  <2>1. \A i \in 1 .. Len(s) : TraversalParts(s)[i] = Kept(s[i])
    BY <1>2, StripParts
  <2> QED
    BY <2>1, StripParts, AllKept
<1>3. CASE Found # {}
  <2>1. Found \in SUBSET Nat
    OBVIOUS
  <2>2. PICK m \in Found : \A j \in Found : m <= j
    <3> HIDE DEF Found
    <3> QED
      BY <1>3, <2>1, Least
  <2>3. m \in 1 .. n /\ TraversalAt(s, m) # Kept(s[m])
    BY <2>2
  <2>4. \A i \in 1 .. m - 1 : TraversalParts(s)[i].length = 1
    <3> SUFFICES ASSUME NEW i \in 1 .. m - 1 PROVE TraversalParts(s)[i].length = 1
      OBVIOUS
    <3>1. i \in 1 .. n /\ ~ (m <= i)
      BY <1>1, <2>3
    <3>2. TraversalAt(s, i) = Kept(s[i])
      BY <2>2, <3>1
    <3>3. s[i] \in C
      BY <1>1, <3>1
    <3>4. Kept(s[i]).length = 1
      BY <3>3, KeptIsPart
    <3>5. TraversalParts(s)[i] = TraversalAt(s, i)
      BY <3>1, StripParts
    <3> QED
      BY <3>2, <3>4, <3>5
  <2>5. Len(StripOnce(s))
          <= n - (TraversalParts(s)[m].length - Len(TraversalParts(s)[m].text))
    <3>1. m \in 1 .. Len(TraversalParts(s)) /\ Len(TraversalParts(s)) = n
      BY <2>3, StripParts
    <3> QED
      BY <2>4, <3>1, StripParts, FirstMatchShortens
  <2>6. TraversalParts(s)[m] = TraversalAt(s, m)
    BY <2>3, StripParts
  <2>7. CASE TraversalAt(s, m) = Replaced(3, << >>)
    <3>1. TraversalParts(s)[m].length = 3 /\ Len(TraversalParts(s)[m].text) <= 0
      BY <2>6, <2>7 DEF Replaced
    <3> QED
      BY <1>1, <2>5, <3>1
  <2>8. CASE TraversalAt(s, m) = Replaced(2, << >>) /\ n <= 3
    <3>1. TraversalParts(s)[m].length = 2 /\ Len(TraversalParts(s)[m].text) <= 0
      BY <2>6, <2>8 DEF Replaced
    <3> QED
      BY <1>1, <2>5, <2>8, <3>1
  <2> QED
    BY <2>3, <2>7, <2>8, TraversalCases
<1> QED
  BY <1>2, <1>3

LEMMA ShortIsStripped ==
  ASSUME NEW C, NEW s \in Seq(C), Len(s) <= 1
  PROVE  StripOnce(s) = s
<1>1. \A i \in 1 .. Len(s) : TraversalAt(s, i) = Kept(s[i])
  BY TraversalCases
<1> QED
  BY <1>1, StripParts, AllKept

(* The passes come to a text that a further one would not change, unless   *)
(* the text is longer than they can shorten.                               *)
LEMMA PassesStrip ==
  ASSUME NEW C, {".", "/", "\\"} \subseteq C, NEW s \in Seq(C)
  PROVE  /\ StripPathTraversal(s) \in Seq(C)
         /\ Len(s) < 3 * MaxTraversalPasses + 2
              => StripOnce(StripPathTraversal(s)) = StripPathTraversal(s)
<1> DEFINE P == MaxTraversalPasses
           d == Decoded(s)
           step == [x \in Seq(C) |-> StripOnce(x)]
           Def(g) == [i \in 0 .. P |-> IF i = 0 THEN d ELSE StripOnce(g[i - 1])]
<1>0. P \in Nat
  BY SanitizeAssumption
<1>1. d \in Seq(C) /\ Len(d) <= Len(s) /\ Len(d) \in Nat /\ Len(s) \in Nat
  BY DecodedTyped
<1>2. step \in [Seq(C) -> Seq(C)]
  BY StripParts
<1>3. PICK f \in [0 .. P -> Seq(C)] :
        f[0] = d /\ \A i \in 1 .. P : f[i] = step[f[i - 1]]
  <2> DEFINE T == Seq(C)
  <2>1. d \in T /\ step \in [T -> T]
    BY <1>1, <1>2
  <2> HIDE DEF step, d, P, T
  <2>2. \E f \in [0 .. P -> T] : Iterates(f, P, step, d)
    BY <1>0, <2>1, Iteration
  <2> QED
    BY <2>2 DEF T, Iterates
<1>4. \A i \in 1 .. P : f[i] = StripOnce(f[i - 1])
  <2> SUFFICES ASSUME NEW i \in 1 .. P PROVE f[i] = StripOnce(f[i - 1])
    OBVIOUS
  <2> HIDE DEF d, P
  <2>1. i - 1 \in 0 .. P
    BY <1>0
  <2>2. f[i] = step[f[i - 1]] /\ f[i - 1] \in Seq(C)
    BY <1>3, <2>1
  <2> QED
    BY <2>2
<1>5. f = Def(f)
  <2> HIDE DEF d, P
  <2> QED
    BY <1>0, <1>3, <1>4
<1>6. ASSUME NEW g, g = Def(g) PROVE g[P] = f[P]
  <2> DEFINE G == {k \in 0 .. P : g[k] = f[k]}
  <2> HIDE DEF d, P
  <2>1. G \in SUBSET Nat /\ 0 \in G
    BY <1>0, <1>3, <1>6
  <2>2. ASSUME NEW k \in 0 .. P - 1, k \in G PROVE k + 1 \in G
    <3>1. k + 1 \in 1 .. P /\ (k + 1) - 1 = k /\ g[k] = f[k] /\ k + 1 \in 0 .. P
      BY <1>0, <2>2
    <3>2. g[k + 1] = StripOnce(g[k])
      <4>1. g[k + 1] = Def(g)[k + 1]
        <5> HIDE DEF Def
        <5> QED
          BY <1>6
      <4>2. k + 1 # 0
        BY <1>0, <2>2
      <4> QED
        BY <3>1, <4>1, <4>2
    <3>3. f[k + 1] = StripOnce(f[k])
      BY <1>4, <3>1
    <3> QED
      BY <3>1, <3>2, <3>3
  <2>3. 0 .. P \subseteq G
    <3> HIDE DEF G
    <3> QED
      BY <1>0, <2>1, <2>2, Induction
  <2> QED
    BY <1>0, <2>3
<1>7. StripPathTraversal(s) = f[P]
  <2> DEFINE h == CHOOSE g : g = Def(g)
  <2>1. h = Def(h)
    <3> HIDE DEF Def
    <3> QED
      BY <1>5
  <2>2. StripPathTraversal(s) = h[P]
    BY DEF StripPathTraversal
  <2> HIDE DEF h, Def
  <2> QED
    BY <2>1, <2>2, <1>6
<1> HIDE DEF d, step
<1> DEFINE Shrunk(k) == StripOnce(f[k]) = f[k] \/ Len(f[k]) <= Len(d) - 3 * k
           H == {k \in 0 .. P : Shrunk(k)}
<1>8. ASSUME NEW k \in 0 .. P - 1, k \in H PROVE k + 1 \in H
  <2>1. k + 1 \in 1 .. P /\ (k + 1) - 1 = k /\ k + 1 \in 0 .. P /\ k \in 0 .. P /\ Shrunk(k)
    BY <1>0, <1>8
  <2>2. f[k + 1] = StripOnce(f[k]) /\ f[k] \in Seq(C) /\ f[k + 1] \in Seq(C)
    BY <1>4, <2>1
  <2>3. CASE StripOnce(f[k]) = f[k]
    BY <2>1, <2>2, <2>3
  <2>4. CASE Len(f[k + 1]) <= 1
    BY <2>1, <2>2, <2>4, ShortIsStripped
  <2>5. CASE Len(f[k]) <= Len(d) - 3 * k /\ Len(f[k + 1]) <= Len(f[k]) - 3
    <3>1. Len(f[k]) \in Nat /\ Len(f[k + 1]) \in Nat
      BY <2>2
    <3>2. Len(f[k + 1]) <= Len(d) - 3 * (k + 1)
      BY <1>1, <2>1, <2>5, <3>1
    <3> QED
      BY <2>1, <3>2
  <2> QED
    BY <2>1, <2>2, <2>3, <2>4, <2>5, StripShortens
<1>9. 0 .. P \subseteq H
  <2>1. H \in SUBSET Nat /\ 0 \in H
    BY <1>0, <1>1, <1>3
  <2> HIDE DEF H, P
  <2> QED
    BY <1>0, <1>8, <2>1, Induction
<1>10. Shrunk(P) /\ f[P] \in Seq(C) /\ Len(f[P]) \in Nat
  BY <1>0, <1>9
<1>11. ASSUME Len(s) < 3 * P + 2 PROVE StripOnce(f[P]) = f[P]
  <2>1. CASE Len(f[P]) <= Len(d) - 3 * P
    <3>1. Len(f[P]) <= 1
      BY <1>0, <1>1, <1>10, <1>11, <2>1
    <3> QED
      BY <1>10, <3>1, ShortIsStripped
  <2> QED
    BY <1>10, <2>1
<1> QED
  BY <1>7, <1>10, <1>11
-----------------------------------------------------------------------------
(* The three levels: no step makes what an earlier one removed.            *)
LEMMA StrictIsClean ==
  ASSUME NEW s \in Text
  PROVE  SanitizeStrict(s) \in Seq(Character \ (UnicodeControls \cup ShellMeta))
<1> DEFINE Controls == UnicodeControls \cup ControlChars
           C == Character \ Controls
<1>1. NFC(s) \in Seq(Character)
  BY NFCTyped, CharacterAssumption DEF Text
<1>2. Without(NFC(s), Controls) \in Seq(C)
  BY <1>1, WithoutRemoves
<1>3. {".", "/", "\\"} \subseteq C
  BY CharacterAssumption DEF UnicodeControls, ControlChars
<1>4. StripPathTraversal(Without(NFC(s), Controls)) \in Seq(C)
  <2> HIDE DEF C
  <2> QED
    BY <1>2, <1>3, PassesStrip
<1>5. SanitizeStrict(s) \in Seq(C \ ShellMeta)
  <2> HIDE DEF C
  <2> QED
    BY <1>4, WithoutRemoves DEF SanitizeStrict
<1>6. C \ ShellMeta = Character \ (UnicodeControls \cup ShellMeta)
  BY DEF UnicodeControls, ControlChars
<1> QED
  BY <1>5, <1>6

LEMMA ModerateIsClean ==
  ASSUME NEW s \in Text
  PROVE  /\ SanitizeModerate(s) \in Seq(Character \ ControlChars)
         /\ Len(s) < 3 * MaxTraversalPasses + 2
              => StripOnce(SanitizeModerate(s)) = SanitizeModerate(s)
<1> DEFINE C == Character \ ControlChars
           w == Without(s, ControlChars)
<1>1. w \in Seq(C) /\ Len(w) <= Len(s)
  BY WithoutRemoves DEF Text
<1>2. {".", "/", "\\"} \subseteq C
  BY CharacterAssumption DEF ControlChars
<1>3. SanitizeModerate(s) = StripPathTraversal(w)
  BY DEF SanitizeModerate
<1>4. Len(s) \in Nat /\ Len(w) \in Nat /\ MaxTraversalPasses \in Nat
  BY <1>1, SanitizeAssumption DEF Text
<1> HIDE DEF C, w
<1>5. /\ StripPathTraversal(w) \in Seq(C)
      /\ Len(w) < 3 * MaxTraversalPasses + 2
           => StripOnce(StripPathTraversal(w)) = StripPathTraversal(w)
  BY <1>1, <1>2, PassesStrip
<1> QED
  BY <1>1, <1>3, <1>4, <1>5 DEF C

LEMMA PermissiveIsClean ==
  ASSUME NEW s \in Text
  PROVE  SanitizePermissive(s) \in Seq(Character \ NullByte)
BY WithoutRemoves DEF SanitizePermissive, Text

LEMMA SeqWithin ==
  ASSUME NEW S, NEW T, S \subseteq T, NEW s \in Seq(S)
  PROVE  s \in Seq(T)
OBVIOUS

LEMMA SanitizeStringTyped ==
  ASSUME NEW s \in Text, NEW level
  PROVE  SanitizeString(s, level) \in Text
<1>1. SanitizeStrict(s) \in Text
  BY StrictIsClean, SeqWithin DEF Text
<1>2. SanitizeModerate(s) \in Text
  BY ModerateIsClean, SeqWithin DEF Text
<1>3. SanitizePermissive(s) \in Text
  BY PermissiveIsClean, SeqWithin DEF Text
<1> QED
  BY <1>1, <1>2, <1>3 DEF SanitizeString

LEMMA CleanedIsClean ==
  ASSUME NEW s \in Text, NEW level
  PROVE  StaysClean(s, SanitizeString(s, level), level)
<1>1. CASE level = "strict"
  BY <1>1, StrictIsClean DEF StaysClean, SanitizeString, ToSet
<1>2. CASE level = "moderate"
  BY <1>2, ModerateIsClean DEF StaysClean, SanitizeString, ToSet
<1>3. CASE level \notin {"strict", "moderate"}
  BY <1>3, PermissiveIsClean DEF StaysClean, SanitizeString, ToSet
<1> QED
  BY <1>1, <1>2, <1>3
-----------------------------------------------------------------------------
(* The walk that cleans.  What is below a path of todo is as it came; all  *)
(* else is cleaned, and was found to nest no deeper than the limit and to  *)
(* have a key no earlier one of its object was cleaned to.  No path of     *)
(* todo is below another one, so that a value is come to once.             *)
Reaches(paths, r) == \E q \in paths : IsPrefix(q, r)
Apart(paths) == \A q, r \in paths : IsPrefix(q, r) => q = r
Waiting(p) == Reaches(todo, p)
CleanKeys(p) ==
  [i \in DOMAIN request.arguments[p].keys |->
     SanitizeString(request.arguments[p].keys[i], request.level)]
Acceptable(p) ==
  /\ Len(p) <= MaxSanitizeDepth
  /\ p # << >> /\ request.arguments[Front(p)].kind = "object"
       => ~ Collides(CleanKeys(Front(p)), Last(p))
IsCleaned(p) ==
  /\ arguments[p] = Sanitized(request.arguments[p], request.level)
  /\ Acceptable(p)

Stages == {"sanitize", "validate", "handler", "unclean", "invalid"}
CallTypeOK ==
  /\ request \in Calls /\ stage \in Stages
  /\ DOMAIN arguments = DOMAIN request.arguments
  /\ todo \subseteq DOMAIN request.arguments
WalkInv ==
  /\ stage = "sanitize" =>
       /\ errors = {}
       /\ Apart(todo)
       /\ IF request.sanitize
          THEN \A p \in DOMAIN arguments :
                 /\ Waiting(p) => arguments[p] = request.arguments[p]
                 /\ ~ Waiting(p) => IsCleaned(p)
          ELSE todo = {} /\ arguments = request.arguments
  /\ stage = "unclean" =>
       TooDeep(request.arguments) \/ Ambiguous(request.arguments, request.level)
  /\ stage \in {"validate", "handler", "invalid"} =>
       IF request.sanitize
       THEN \A p \in DOMAIN arguments : IsCleaned(p)
       ELSE arguments = request.arguments

(* The walk that validates.  It goes to places of the schema only, and     *)
(* what is at fault is reported, lies below what is, or is still to come.  *)
ErrorsRight == \A e \in errors : e[1] \in Places /\ Faulty(e[1])
Reported(p) == \E e \in errors : IsPrefix(e[1], p)
ValidInv ==
  request.validate =>
    /\ stage = "validate" =>
         /\ todo \subseteq Places /\ ErrorsRight
         /\ \A p \in Places : Faulty(p) => Reported(p) \/ Waiting(p)
    /\ stage = "handler" => errors = {} /\ \A p \in Places : ~ Faulty(p)
    /\ stage = "invalid" =>
         /\ errors # {} /\ ErrorsRight
         /\ \A p \in Places : Faulty(p) => Reported(p)
-----------------------------------------------------------------------------
(* Paths.                                                                  *)
LEMMA PrefixMeans ==
  ASSUME NEW p \in Seq(Nat), NEW q \in Seq(Nat)
  PROVE  IsPrefix(p, q) <=> Len(p) <= Len(q) /\ \A n \in 1 .. Len(p) : p[n] = q[n]
<1>1. Len(p) \in Nat /\ Len(q) \in Nat
  OBVIOUS
<1>2. CASE Len(p) <= Len(q)
  <2>1. /\ SubSeq(p, 1, Len(p)) \in Seq(Nat) /\ Len(SubSeq(p, 1, Len(p))) = Len(p)
        /\ \A n \in 1 .. Len(p) : SubSeq(p, 1, Len(p))[n] = p[n]
    BY <1>1, SubSeqProperties
  <2>2. /\ SubSeq(q, 1, Len(p)) \in Seq(Nat) /\ Len(SubSeq(q, 1, Len(p))) = Len(p)
        /\ \A n \in 1 .. Len(p) : SubSeq(q, 1, Len(p))[n] = q[n]
    BY <1>1, <1>2, SubSeqProperties
  <2> DEFINE u == SubSeq(p, 1, Len(p))
             v == SubSeq(q, 1, Len(p))
  <2>3. u = v <=> \A n \in 1 .. Len(p) : u[n] = v[n]
    <3> HIDE DEF u, v
    <3>1. u \in Seq(Nat) /\ v \in Seq(Nat) /\ Len(u) = Len(v) /\ Len(u) = Len(p)
      BY <2>1, <2>2 DEF u, v
    <3>2. ASSUME \A n \in 1 .. Len(p) : u[n] = v[n] PROVE u = v
      <4>1. \A n \in 1 .. Len(u) : u[n] = v[n]
        BY <3>1, <3>2
      <4> QED
        BY <3>1, <4>1, SeqEqual
    <3> QED
      BY <3>2
  <2>4. IsPrefix(p, q) <=> u = v
    BY <1>2 DEF IsPrefix
  <2> HIDE DEF u, v
  <2> QED
    BY <1>2, <2>1, <2>2, <2>3, <2>4 DEF u, v
<1>3. CASE ~ (Len(p) <= Len(q))
  BY <1>3 DEF IsPrefix
<1> QED
  BY <1>2, <1>3

LEMMA PathAppend ==
  ASSUME NEW p \in Seq(Nat), NEW i \in Nat
  PROVE  /\ Append(p, i) \in Seq(Nat) /\ Len(Append(p, i)) = Len(p) + 1
         /\ Append(p, i)[Len(p) + 1] = i
         /\ \A n \in 1 .. Len(p) : Append(p, i)[n] = p[n]
         /\ Append(p, i) # p
OBVIOUS

LEMMA PrefixOrder ==
  ASSUME NEW p \in Seq(Nat), NEW q \in Seq(Nat), NEW r \in Seq(Nat)
  PROVE  /\ IsPrefix(p, p) /\ IsPrefix(<< >>, p)
         /\ IsPrefix(p, q) /\ IsPrefix(q, p) => p = q
         /\ IsPrefix(p, q) /\ IsPrefix(q, r) => IsPrefix(p, r)
         /\ IsPrefix(p, q) /\ Len(p) = Len(q) => p = q
<1>1. Len(p) \in Nat /\ Len(q) \in Nat /\ Len(r) \in Nat /\ << >> \in Seq(Nat) /\ Len(<< >>) = 0
  OBVIOUS
<1>2. IsPrefix(p, p) /\ IsPrefix(<< >>, p)
  <2> DEFINE e == << >>
  <2>1. e \in Seq(Nat) /\ Len(e) <= 0
    OBVIOUS
  <2>2. IsPrefix(e, p)
    <3> HIDE DEF e
    <3>1. Len(e) <= Len(p) /\ \A n \in 1 .. Len(e) : e[n] = p[n]
      BY <1>1, <2>1
    <3> QED
      BY <2>1, <3>1, PrefixMeans
  <2> QED
    BY <1>1, <2>2, PrefixMeans
<1>3. ASSUME IsPrefix(p, q), Len(p) = Len(q) PROVE p = q
  <2>1. \A n \in 1 .. Len(p) : p[n] = q[n]
    BY <1>3, PrefixMeans
  <2> QED
    BY <1>3, <2>1, SeqEqual
<1>4. ASSUME IsPrefix(p, q), IsPrefix(q, p) PROVE p = q
  <2>1. Len(p) <= Len(q) /\ Len(q) <= Len(p)
    BY <1>4, PrefixMeans
  <2>2. Len(p) = Len(q)
    BY <1>1, <2>1
  <2> QED
    BY <1>3, <1>4, <2>2
<1>5. ASSUME IsPrefix(p, q), IsPrefix(q, r) PROVE IsPrefix(p, r)
  <2>1. /\ Len(p) <= Len(q) /\ \A n \in 1 .. Len(p) : p[n] = q[n]
        /\ Len(q) <= Len(r) /\ \A n \in 1 .. Len(q) : q[n] = r[n]
    BY <1>5, PrefixMeans
  <2>2. Len(p) <= Len(r) /\ \A n \in 1 .. Len(p) : p[n] = r[n]
    BY <1>1, <2>1
  <2> QED
    BY <2>2, PrefixMeans
<1> QED
  BY <1>2, <1>3, <1>4, <1>5

LEMMA ChildOfPrefix ==
  ASSUME NEW p \in Seq(Nat), NEW i \in Nat, NEW r \in Seq(Nat)
  PROVE  /\ IsPrefix(p, Append(p, i)) /\ ~ IsPrefix(Append(p, i), p)
         /\ IsPrefix(Append(p, i), r) => IsPrefix(p, r) /\ p # r
         /\ IsPrefix(p, r) /\ p # r =>
              /\ Len(p) + 1 \in 1 .. Len(r)
              /\ r[Len(p) + 1] = i => IsPrefix(Append(p, i), r)
         /\ IsPrefix(r, Append(p, i)) => IsPrefix(r, p) \/ r = Append(p, i)
<1> DEFINE c == Append(p, i)
<1>1. /\ c \in Seq(Nat) /\ Len(c) = Len(p) + 1 /\ c[Len(p) + 1] = i
      /\ \A n \in 1 .. Len(p) : c[n] = p[n]
  BY PathAppend
<1>2. Len(p) \in Nat /\ Len(r) \in Nat /\ Len(c) \in Nat
  BY <1>1
<1> HIDE DEF c
<1>3. IsPrefix(p, c)
  BY <1>1, <1>2, PrefixMeans
<1>4. ~ IsPrefix(c, p)
  <2>1. ~ (Len(c) <= Len(p))
    BY <1>1, <1>2
  <2> QED
    BY <1>1, <2>1, PrefixMeans
<1>5. ASSUME IsPrefix(c, r) PROVE IsPrefix(p, r) /\ p # r
  BY <1>1, <1>3, <1>4, <1>5, PrefixOrder
<1>6. ASSUME IsPrefix(p, r), p # r
      PROVE  /\ Len(p) + 1 \in 1 .. Len(r)
             /\ r[Len(p) + 1] = i => IsPrefix(c, r)
  <2>1. Len(p) <= Len(r) /\ \A n \in 1 .. Len(p) : p[n] = r[n]
    BY <1>6, PrefixMeans
  <2>2. Len(p) # Len(r)
    BY <1>6, PrefixOrder
  <2>3. Len(p) + 1 \in 1 .. Len(r)
    BY <1>2, <2>1, <2>2
  <2>4. ASSUME r[Len(p) + 1] = i PROVE IsPrefix(c, r)
    <3>1. Len(c) <= Len(r)
      BY <1>1, <1>2, <2>3
    <3>2. ASSUME NEW n \in 1 .. Len(c) PROVE c[n] = r[n]
      <4>1. n \in 1 .. Len(p) \/ n = Len(p) + 1
        BY <1>1, <1>2
      <4> QED
        BY <1>1, <2>1, <2>4, <4>1
    <3> QED
      BY <1>1, <3>1, <3>2, PrefixMeans
  <2> QED
    BY <2>3, <2>4
<1>7. ASSUME IsPrefix(r, c) PROVE IsPrefix(r, p) \/ r = c
  <2>1. Len(r) <= Len(c) /\ \A n \in 1 .. Len(r) : r[n] = c[n]
    BY <1>1, <1>7, PrefixMeans
  <2>2. CASE Len(r) = Len(c)
    BY <1>1, <1>7, <2>2, PrefixOrder
  <2>3. CASE Len(r) # Len(c)
    <3>1. Len(r) <= Len(p)
      BY <1>1, <1>2, <2>1, <2>3
    <3>2. \A n \in 1 .. Len(r) : n \in 1 .. Len(p)
      BY <1>2, <3>1
    <3>3. \A n \in 1 .. Len(r) : r[n] = p[n]
      BY <1>1, <2>1, <3>2
    <3> QED
      BY <3>1, <3>3, PrefixMeans
  <2> QED
    BY <2>2, <2>3
<1> QED
  BY <1>3, <1>4, <1>5, <1>6, <1>7 DEF c

(* What is above a path.                                                   *)
LEMMA AbovePath ==
  ASSUME NEW p \in Seq(Nat), NEW n \in 1 .. Len(p)
  PROVE  /\ SubSeq(p, 1, n - 1) \in Seq(Nat) /\ Len(SubSeq(p, 1, n - 1)) = n - 1
         /\ \A m \in 1 .. n - 1 : SubSeq(p, 1, n - 1)[m] = p[m]
<1>1. Len(p) \in Nat /\ n - 1 \in 0 .. Len(p) /\ n \in Nat
  OBVIOUS
<1> DEFINE k == n - 1
<1>2. k \in 0 .. Len(p) /\ k \in Nat
  BY <1>1
<1> HIDE DEF k
<1>3. 1 \in 1 .. Len(p) + 1 /\ k \in 1 - 1 .. Len(p)
  BY <1>1, <1>2
<1>4. /\ SubSeq(p, 1, k) \in Seq(Nat)
      /\ Len(SubSeq(p, 1, k)) = IF 1 <= k THEN k - 1 + 1 ELSE 0
      /\ \A m \in 1 .. k - 1 + 1 : SubSeq(p, 1, k)[m] = p[1 + m - 1]
  BY <1>1, <1>2, <1>3, SubSeqProperties
<1> QED
  BY <1>2, <1>4 DEF k

LEMMA SameAbove ==
  ASSUME NEW p \in Seq(Nat), NEW r \in Seq(Nat), IsPrefix(p, r), NEW n \in 1 .. Len(r), n <= Len(p) + 1
  PROVE  /\ n <= Len(p) => SubSeq(r, 1, n - 1) = SubSeq(p, 1, n - 1)
         /\ n = Len(p) + 1 => SubSeq(r, 1, n - 1) = p
<1>1. Len(p) \in Nat /\ Len(r) \in Nat /\ n \in Nat
  OBVIOUS
<1>2. Len(p) <= Len(r) /\ \A m \in 1 .. Len(p) : p[m] = r[m]
  BY PrefixMeans
<1> DEFINE u == SubSeq(r, 1, n - 1)
<1>3. u \in Seq(Nat) /\ Len(u) = n - 1 /\ \A m \in 1 .. n - 1 : u[m] = r[m]
  BY AbovePath
<1> HIDE DEF u
<1>4. ASSUME n <= Len(p) PROVE u = SubSeq(p, 1, n - 1)
  <2> DEFINE v == SubSeq(p, 1, n - 1)
  <2>0. n \in 1 .. Len(p)
    BY <1>1, <1>4
  <2>1. v \in Seq(Nat) /\ Len(v) = n - 1 /\ \A m \in 1 .. n - 1 : v[m] = p[m]
    BY <2>0, AbovePath
  <2> HIDE DEF v
  <2>2. \A m \in 1 .. n - 1 : m \in 1 .. Len(p)
    BY <1>1, <1>4
  <2>3. \A m \in 1 .. Len(u) : u[m] = v[m]
    BY <1>2, <1>3, <2>1, <2>2
  <2>4. u = v
    BY <1>3, <2>1, <2>3, SeqEqual
  <2> QED
    BY <2>4 DEF v
<1>5. ASSUME n = Len(p) + 1 PROVE u = p
  <2>1. n - 1 = Len(p)
    BY <1>1, <1>5
  <2>2. Len(u) = Len(p) /\ \A m \in 1 .. Len(u) : u[m] = p[m]
    BY <1>2, <1>3, <2>1
  <2> QED
    BY <1>3, <2>2, SeqEqual
<1> QED
  BY <1>4, <1>5 DEF u

LEMMA FrontOfPath ==
  ASSUME NEW p \in Seq(Nat), p # << >>
  PROVE  /\ Front(p) = SubSeq(p, 1, Len(p) - 1) /\ Front(p) \in Seq(Nat)
         /\ Last(p) = p[Len(p)] /\ Len(p) \in 1 .. Len(p)
         /\ IsPrefix(Front(p), p) /\ ~ IsPrefix(p, Front(p))
<1>1. Len(p) \in Nat /\ Len(p) # 0
  OBVIOUS
<1>2. Len(p) \in 1 .. Len(p)
  BY <1>1
<1> DEFINE u == SubSeq(p, 1, Len(p) - 1)
<1>3. u \in Seq(Nat) /\ Len(u) = Len(p) - 1 /\ \A m \in 1 .. Len(p) - 1 : u[m] = p[m]
  BY <1>2, AbovePath
<1>4. Front(p) = u
  BY DEF Front
<1> HIDE DEF u
<1>5. IsPrefix(u, p)
  <2>1. Len(u) <= Len(p)
    BY <1>1, <1>3
  <2>2. \A m \in 1 .. Len(u) : u[m] = p[m]
    BY <1>3
  <2> QED
    BY <1>3, <2>1, <2>2, PrefixMeans
<1>6. ~ IsPrefix(p, u)
  <2>1. ~ (Len(p) <= Len(u))
    BY <1>1, <1>3
  <2> QED
    BY <1>3, <2>1, PrefixMeans
<1> QED
  BY <1>2, <1>3, <1>4, <1>5, <1>6 DEF u, Last
-----------------------------------------------------------------------------
(* Trees and their nodes.                                                  *)
SoundNode(node) ==
  /\ node \in Node
  /\ node.kind \notin {"array", "object"} => node.size = 0
  /\ node.kind # "object" => node.keys = << >>
  /\ node.kind = "object" => Len(node.keys) = node.size

LEMMA TreeNode ==
  ASSUME NEW v, IsTree(v), NEW p \in DOMAIN v
  PROVE  /\ p \in Seq(Nat) /\ IsNode(v[p]) /\ SoundNode(v[p])
         /\ v[p].size \in Nat
         /\ \A i \in 1 .. v[p].size : Append(p, i) \in DOMAIN v
<1>1. p \in Seq(Nat) /\ IsNode(v[p]) /\ Children(p, 1 .. v[p].size) \subseteq DOMAIN v
  BY DEF IsTree
<1>2. SoundNode(v[p])
  BY <1>1 DEF IsNode, SoundNode
<1>3. v[p].size \in Nat
  BY <1>2 DEF SoundNode, Node
<1> QED
  BY <1>1, <1>2, <1>3 DEF Children

LEMMA TreeBelow ==
  ASSUME NEW v, IsTree(v), NEW p \in DOMAIN v, NEW r \in DOMAIN v, IsPrefix(p, r), p # r
  PROVE  /\ Len(p) + 1 \in 1 .. Len(r)
         /\ r[Len(p) + 1] \in 1 .. v[p].size
         /\ IsPrefix(Append(p, r[Len(p) + 1]), r)
<1>1. p \in Seq(Nat) /\ r \in Seq(Nat)
  BY TreeNode
<1>2. Len(p) + 1 \in 1 .. Len(r)
  BY <1>1, ChildOfPrefix
<1>3. SubSeq(r, 1, Len(p) + 1 - 1) = p
  BY <1>1, <1>2, SameAbove
<1>4. r[Len(p) + 1] \in 1 .. v[p].size
  <2> DEFINE k == Len(p) + 1
  <2>1. \A n \in 1 .. Len(r) : r[n] \in 1 .. v[SubSeq(r, 1, n - 1)].size
    BY DEF IsTree
  <2>2. k \in 1 .. Len(r) /\ SubSeq(r, 1, k - 1) = p
    BY <1>2, <1>3
  <2> HIDE DEF k
  <2>3. r[k] \in 1 .. v[p].size
    BY <2>1, <2>2
  <2> QED
    BY <2>3 DEF k
<1>5. r[Len(p) + 1] \in Nat
  BY <1>1, <1>2
<1> QED
  BY <1>1, <1>2, <1>4, <1>5, ChildOfPrefix

LEMMA TreeAbove ==
  ASSUME NEW v, IsTree(v), NEW p \in DOMAIN v, p # << >>
  PROVE  /\ Front(p) \in DOMAIN v /\ Last(p) \in 1 .. v[Front(p)].size
         /\ IsPrefix(Front(p), p) /\ ~ IsPrefix(p, Front(p))
<1>1. p \in Seq(Nat)
  BY TreeNode
<1>2. /\ Front(p) = SubSeq(p, 1, Len(p) - 1) /\ Last(p) = p[Len(p)] /\ Len(p) \in 1 .. Len(p)
      /\ IsPrefix(Front(p), p) /\ ~ IsPrefix(p, Front(p))
  BY <1>1, FrontOfPath
<1> QED
  BY <1>2 DEF IsTree

(* A step of a walk: a path goes, and some of those right below it come.   *)
WalkStep(v, T, p, U, T2) ==
  /\ IsTree(v) /\ T \subseteq DOMAIN v /\ p \in T
  /\ U \subseteq 1 .. v[p].size
  /\ T2 = (T \ {p}) \cup Children(p, U)

LEMMA StepStaysInTree ==
  ASSUME NEW v, NEW T, NEW p, NEW U, NEW T2, WalkStep(v, T, p, U, T2)
  PROVE  T2 \subseteq DOMAIN v
BY TreeNode DEF WalkStep, Children

LEMMA StepKeepsApart ==
  ASSUME NEW v, NEW T, NEW p, NEW U, NEW T2, WalkStep(v, T, p, U, T2), Apart(T)
  PROVE  Apart(T2)
<1> USE DEF WalkStep
<1>0. p \in Seq(Nat) /\ v[p].size \in Nat /\ \A q \in T : q \in Seq(Nat)
  BY TreeNode
<1>1. SUFFICES ASSUME NEW q \in T2, NEW r \in T2, IsPrefix(q, r) PROVE q = r
  BY DEF Apart
<1>2. \A c \in Children(p, U) : \E i \in U : i \in Nat /\ c = Append(p, i)
  BY <1>0 DEF Children
<1>3. CASE q \in T \ {p} /\ r \in T \ {p}
  BY <1>1, <1>3 DEF Apart
<1>4. CASE q \in T \ {p} /\ r \in Children(p, U)
  <2>1. PICK i \in U : i \in Nat /\ r = Append(p, i)
    BY <1>2, <1>4
  <2>2. IsPrefix(q, p) \/ q = r
    BY <1>0, <1>1, <1>4, <2>1, ChildOfPrefix
  <2> QED
    BY <1>4, <2>2 DEF Apart
<1>5. CASE q \in Children(p, U) /\ r \in T \ {p}
  <2>1. PICK i \in U : i \in Nat /\ q = Append(p, i)
    BY <1>2, <1>5
  <2>2. IsPrefix(p, r)
    BY <1>0, <1>1, <1>5, <2>1, ChildOfPrefix
  <2> QED
    BY <1>5, <2>2 DEF Apart
<1>6. CASE q \in Children(p, U) /\ r \in Children(p, U)
  <2>1. PICK i \in U : i \in Nat /\ q = Append(p, i)
    BY <1>2, <1>6
  <2>2. PICK j \in U : j \in Nat /\ r = Append(p, j)
    BY <1>2, <1>6
  <2>3. q \in Seq(Nat) /\ r \in Seq(Nat) /\ Len(q) = Len(p) + 1 /\ Len(r) = Len(p) + 1
    BY <1>0, <2>1, <2>2, PathAppend
  <2> QED
    BY <1>1, <2>3, PrefixOrder
<1> QED
  BY <1>3, <1>4, <1>5, <1>6

LEMMA StepReaches ==
  ASSUME NEW v, NEW T, NEW p, NEW U, NEW T2, WalkStep(v, T, p, U, T2), NEW r \in DOMAIN v
  PROVE  /\ Reaches(T2, r) => Reaches(T, r) 
         /\ Apart(T) => ~ Reaches(T2, p)
         /\ Reaches(T, r) => \/ Reaches(T2, r)
                             \/ r = p
                             \/ /\ IsPrefix(p, r) /\ Len(p) + 1 \in 1 .. Len(r)
                                /\ r[Len(p) + 1] \in (1 .. v[p].size) \ U
<1> USE DEF WalkStep
<1>0. p \in Seq(Nat) /\ r \in Seq(Nat) /\ v[p].size \in Nat /\ \A q \in T : q \in Seq(Nat)
  BY TreeNode
<1>1. \A c \in Children(p, U) : \E i \in U : i \in Nat /\ c = Append(p, i)
  BY <1>0 DEF Children
<1>2. ASSUME Reaches(T2, r) PROVE Reaches(T, r)
  <2>1. PICK q \in T2 : IsPrefix(q, r)
    BY <1>2 DEF Reaches
  <2>2. CASE q \in T
    BY <2>1, <2>2 DEF Reaches
  <2>3. CASE q \in Children(p, U)
    <3>1. PICK i \in U : i \in Nat /\ q = Append(p, i)
      BY <1>1, <2>3
    <3>2. IsPrefix(p, r)
      BY <1>0, <2>1, <3>1, ChildOfPrefix
    <3> QED
      BY <3>2 DEF Reaches
  <2> QED
    BY <2>2, <2>3
<1>3. ASSUME Apart(T), Reaches(T2, p) PROVE FALSE
  <2>1. PICK q \in T2 : IsPrefix(q, p)
    BY <1>3 DEF Reaches
  <2>2. CASE q \in T \ {p}
    BY <1>3, <2>1, <2>2 DEF Apart
  <2>3. CASE q \in Children(p, U)
    <3>1. PICK i \in U : i \in Nat /\ q = Append(p, i)
      BY <1>1, <2>3
    <3> QED
      BY <1>0, <2>1, <3>1, ChildOfPrefix
  <2> QED
    BY <2>2, <2>3
<1>4. ASSUME Reaches(T, r), r # p, ~ Reaches(T2, r)
      PROVE  /\ IsPrefix(p, r) /\ Len(p) + 1 \in 1 .. Len(r)
             /\ r[Len(p) + 1] \in (1 .. v[p].size) \ U
  <2>1. PICK q \in T : IsPrefix(q, r)
    BY <1>4 DEF Reaches
  <2>2. q = p
    BY <1>4, <2>1 DEF Reaches
  <2>3. /\ IsPrefix(p, r) /\ Len(p) + 1 \in 1 .. Len(r)
        /\ r[Len(p) + 1] \in 1 .. v[p].size
        /\ IsPrefix(Append(p, r[Len(p) + 1]), r)
    BY <1>4, <2>1, <2>2, TreeBelow
  <2>4. r[Len(p) + 1] \in U => Append(p, r[Len(p) + 1]) \in T2
    BY DEF Children
  <2> QED
    BY <1>4, <2>3, <2>4 DEF Reaches
<1> QED
  BY <1>2, <1>3, <1>4

(* Cleaning keeps the shape of a node.                                     *)
LEMMA SanitizedNode ==
  ASSUME NEW node, SoundNode(node), NEW level
  PROVE  /\ SoundNode(Sanitized(node, level))
         /\ Sanitized(node, level).kind = node.kind
         /\ Sanitized(node, level).size = node.size
         /\ node.kind \notin {"string", "object"} => Sanitized(node, level) = node
<1>1. /\ node.kind \in Kinds /\ node.text \in Text /\ node.size \in Nat /\ node.keys \in Seq(Text)
      /\ node = [kind |-> node.kind, text |-> node.text, size |-> node.size, keys |-> node.keys]
  BY DEF SoundNode, Node
<1>2. CASE node.kind = "string"
  <2>1. Sanitized(node, level) = Scalar("string", SanitizeString(node.text, level))
    BY <1>2 DEF Sanitized
  <2>2. SanitizeString(node.text, level) \in Text
    BY <1>1, SanitizeStringTyped
  <2>3. node.size = 0
    BY <1>2 DEF SoundNode
  <2>4. << >> \in Seq(Text)
    OBVIOUS
  <2> QED
    BY <1>1, <1>2, <2>1, <2>2, <2>3, <2>4 DEF Scalar, SoundNode, Node, Kinds
<1>3. CASE node.kind = "object"
  <2> DEFINE keys == [i \in DOMAIN node.keys |-> SanitizeString(node.keys[i], level)]
  <2>1. Sanitized(node, level) = Object(keys)
    BY <1>3 DEF Sanitized
  <2>2. keys \in [1 .. Len(node.keys) -> Text]
    <3>1. \A i \in 1 .. Len(node.keys) : node.keys[i] \in Text
      BY <1>1
    <3> QED
      BY <1>1, <3>1, SanitizeStringTyped
  <2> HIDE DEF keys
  <2>3. keys \in Seq(Text) /\ Len(keys) = node.size
    <3>1. Len(node.keys) \in Nat /\ Len(node.keys) = node.size
      BY <1>1, <1>3 DEF SoundNode
    <3> QED
      BY <2>2, <3>1, IsSequence
  <2>4. << >> \in Text
    BY DEF Text
  <2>5. /\ Object(keys) = [kind |-> "object", text |-> << >>, size |-> node.size, keys |-> keys]
        /\ Object(keys) \in Node
    BY <1>1, <2>3, <2>4 DEF Object, Node, Kinds
  <2>6. SoundNode(Object(keys)) /\ Object(keys).kind = "object" /\ Object(keys).size = node.size
        /\ Object(keys).keys = keys
    BY <2>3, <2>5 DEF SoundNode
  <2> QED
    BY <1>3, <2>1, <2>6 DEF keys
<1>4. CASE node.kind \notin {"string", "object"}
  BY <1>4 DEF Sanitized
<1> QED
  BY <1>2, <1>3, <1>4

LEMMA SanitizedTexts ==
  ASSUME NEW node, NEW level
  PROVE  /\ node.kind = "string" => Sanitized(node, level).text = SanitizeString(node.text, level)
         /\ node.kind = "object" =>
              /\ DOMAIN Sanitized(node, level).keys = DOMAIN node.keys
              /\ \A i \in DOMAIN node.keys :
                   Sanitized(node, level).keys[i] = SanitizeString(node.keys[i], level)
BY DEF Sanitized, Scalar, Object
-----------------------------------------------------------------------------
(* The invariants of the walk that cleans.                                 *)
LEMMA OfCalls ==
  ASSUME request \in Calls
  PROVE  /\ IsTree(request.arguments) /\ IsSchema(request.schema)
         /\ << >> \in DOMAIN request.arguments
         /\ request.sanitize \in BOOLEAN /\ request.validate \in BOOLEAN
<1>1. IsTree(request.arguments) /\ IsSchema(request.schema)
      /\ request.sanitize \in BOOLEAN /\ request.validate \in BOOLEAN
  BY CallsAssumption
<1> QED
  BY <1>1 DEF IsTree

LEMMA RootReaches ==
  ASSUME NEW p \in Seq(Nat)
  PROVE  Reaches({<< >>}, p) /\ Apart({<< >>}) /\ ~ Reaches({}, p)
BY PrefixOrder DEF Reaches, Apart

LEMMA WalkInit == CallInit => CallTypeOK /\ WalkInv
<1> SUFFICES ASSUME CallInit PROVE CallTypeOK /\ WalkInv
  OBVIOUS
<1>1. /\ request \in Calls /\ stage = "sanitize" /\ arguments = request.arguments
      /\ errors = {} /\ todo = Root(request.sanitize)
  BY DEF CallInit
<1>2. IsTree(request.arguments) /\ << >> \in DOMAIN request.arguments
      /\ request.sanitize \in BOOLEAN
  BY <1>1, OfCalls
<1>3. CallTypeOK
  BY <1>1, <1>2 DEF CallTypeOK, Stages, Root
<1>4. CASE request.sanitize
  <2>1. todo = {<< >>}
    BY <1>1, <1>4 DEF Root
  <2>2. \A p \in DOMAIN arguments : Waiting(p)
    BY <1>1, <1>2, <2>1, TreeNode, RootReaches DEF Waiting
  <2>3. Apart(todo)
    BY <2>1 DEF Apart
  <2> QED
    BY <1>1, <1>3, <1>4, <2>2, <2>3 DEF WalkInv
<1>5. CASE ~ request.sanitize
  <2>1. todo = {} /\ Apart(todo)
    BY <1>1, <1>5 DEF Root, Apart
  <2> QED
    BY <1>1, <1>3, <1>5, <2>1 DEF WalkInv
<1> QED
  BY <1>4, <1>5

(* At a path of todo, the object around it has been cleaned, and whether   *)
(* the key is taken can be told from the original alone.                   *)
LEMMA AtPath ==
  ASSUME CallTypeOK, WalkInv, stage = "sanitize", NEW p \in todo
  PROVE  /\ request.sanitize /\ Apart(todo)
         /\ p \in DOMAIN arguments /\ p \in Seq(Nat)
         /\ arguments[p] = request.arguments[p]
         /\ KeyTaken(p) <=> /\ p # << >> /\ request.arguments[Front(p)].kind = "object"
                            /\ Collides(CleanKeys(Front(p)), Last(p))
<1> DEFINE A == request.arguments
<1>1. /\ IsTree(A) /\ p \in DOMAIN A /\ DOMAIN arguments = DOMAIN A
      /\ todo \subseteq DOMAIN A
  BY OfCalls DEF CallTypeOK
<1>2. p \in Seq(Nat)
  BY <1>1, TreeNode
<1>3. request.sanitize /\ Apart(todo)
  BY DEF WalkInv
<1>4. Waiting(p)
  BY <1>2, PrefixOrder DEF Waiting, Reaches
<1>5. arguments[p] = A[p]
  BY <1>1, <1>3, <1>4 DEF WalkInv
<1>6. ASSUME p # << >>
      PROVE  /\ arguments[Front(p)].kind = A[Front(p)].kind
             /\ A[Front(p)].kind = "object" => arguments[Front(p)].keys = CleanKeys(Front(p))
  <2>1. Front(p) \in DOMAIN A /\ IsPrefix(Front(p), p) /\ ~ IsPrefix(p, Front(p))
    BY <1>1, <1>6, TreeAbove
  <2>2. ~ Waiting(Front(p))
    <3>1. SUFFICES ASSUME NEW q \in todo, IsPrefix(q, Front(p)) PROVE FALSE
      BY DEF Waiting, Reaches
    <3>2. q \in Seq(Nat) /\ Front(p) \in Seq(Nat)
      BY <1>1, <2>1, TreeNode
    <3>3. IsPrefix(q, p)
      BY <1>2, <2>1, <3>1, <3>2, PrefixOrder
    <3>4. q = p
      BY <1>3, <3>3 DEF Apart
    <3> QED
      BY <2>1, <3>1, <3>4
  <2>3. arguments[Front(p)] = Sanitized(A[Front(p)], request.level)
    BY <1>1, <1>3, <2>1, <2>2 DEF WalkInv, IsCleaned
  <2>4. SoundNode(A[Front(p)])
    BY <1>1, <2>1, TreeNode
  <2> QED
    <3> DEFINE node == A[Front(p)]
    <3>1. node.kind = "object" => Sanitized(node, request.level).keys = CleanKeys(Front(p))
      BY DEF Sanitized, Object, CleanKeys
    <3>2. SoundNode(node) /\ arguments[Front(p)] = Sanitized(node, request.level)
      BY <2>3, <2>4
    <3>3. Sanitized(node, request.level).kind = node.kind
      <4> HIDE DEF node
      <4> QED
        BY <3>2, SanitizedNode
    <3> QED
      BY <3>1, <3>2, <3>3
<1> QED
  BY <1>1, <1>2, <1>3, <1>5, <1>6 DEF KeyTaken

LEMMA WalkFails ==
  ASSUME CallTypeOK, WalkInv, SanitizeFails
  PROVE  (CallTypeOK /\ WalkInv)'
<1> DEFINE A == request.arguments
<1>1. /\ stage = "sanitize" /\ stage' = "unclean" /\ request' = request
      /\ arguments' = A /\ todo' = {}
  BY DEF SanitizeFails
<1>2. PICK p \in todo : KeyTaken(p) \/ Len(p) > MaxSanitizeDepth
  BY DEF SanitizeFails
<1>3. /\ IsTree(A) /\ p \in DOMAIN A
  BY OfCalls DEF CallTypeOK
<1>4. ASSUME Len(p) > MaxSanitizeDepth PROVE TooDeep(A)
  BY <1>3, <1>4 DEF TooDeep
<1>5. ASSUME KeyTaken(p) PROVE Ambiguous(A, request.level)
  <2>1. p # << >> /\ A[Front(p)].kind = "object" /\ Collides(CleanKeys(Front(p)), Last(p))
    BY <1>1, <1>5, AtPath
  <2>2. Front(p) \in DOMAIN A /\ Last(p) \in 1 .. A[Front(p)].size
    BY <1>3, <2>1, TreeAbove
  <2>3. SoundNode(A[Front(p)])
    BY <1>3, <2>2, TreeNode
  <2>4. DOMAIN A[Front(p)].keys = 1 .. A[Front(p)].size /\ A[Front(p)].size \in Nat
    BY <2>1, <2>3 DEF SoundNode, Node
  <2>5. PICK j \in 1 .. Last(p) - 1 : CleanKeys(Front(p))[j] = CleanKeys(Front(p))[Last(p)]
    BY <2>1 DEF Collides
  <2>6. j \in 1 .. A[Front(p)].size /\ j # Last(p)
    BY <2>2, <2>4
  <2>7. SanitizeString(A[Front(p)].keys[j], request.level)
          = SanitizeString(A[Front(p)].keys[Last(p)], request.level)
    BY <2>2, <2>4, <2>5, <2>6 DEF CleanKeys
  <2> QED
    BY <2>2, <2>4, <2>6, <2>7 DEF Ambiguous
<1>6. TooDeep(A) \/ Ambiguous(A, request.level)
  BY <1>2, <1>4, <1>5
<1>7. (TooDeep(request.arguments) \/ Ambiguous(request.arguments, request.level))'
  BY <1>1, <1>6 DEF TooDeep, Ambiguous
<1> QED
  BY <1>1, <1>7 DEF CallTypeOK, Stages, WalkInv

LEMMA WalkCleans ==
  ASSUME CallTypeOK, WalkInv, SanitizeValue
  PROVE  (CallTypeOK /\ WalkInv)'
<1> DEFINE A == request.arguments
<1>1. /\ stage = "sanitize" /\ stage' = stage /\ request' = request /\ errors' = errors
  BY DEF SanitizeValue
<1>2. PICK p \in todo :
        /\ ~ KeyTaken(p) /\ Len(p) <= MaxSanitizeDepth
        /\ arguments' = [arguments EXCEPT ![p] = Sanitized(@, request.level)]
        /\ todo' = (todo \ {p}) \cup Children(p, 1 .. arguments[p].size)
  BY DEF SanitizeValue
<1>3. /\ IsTree(A) /\ DOMAIN arguments = DOMAIN A /\ todo \subseteq DOMAIN A
      /\ errors = {}
  BY <1>1, OfCalls DEF CallTypeOK, WalkInv
<1>4. /\ request.sanitize /\ Apart(todo) /\ p \in DOMAIN A /\ p \in Seq(Nat)
      /\ arguments[p] = A[p]
      /\ p # << >> /\ A[Front(p)].kind = "object" => ~ Collides(CleanKeys(Front(p)), Last(p))
  BY <1>1, <1>2, <1>3, AtPath
<1>5. /\ todo' = (todo \ {p}) \cup Children(p, 1 .. A[p].size)
      /\ arguments' = [arguments EXCEPT ![p] = Sanitized(A[p], request.level)]
  BY <1>2, <1>3, <1>4
<1> DEFINE U == 1 .. A[p].size
<1>14. WalkStep(A, todo, p, U, todo')
  BY <1>3, <1>4, <1>5 DEF WalkStep
<1> HIDE DEF U
<1>6. todo' \subseteq DOMAIN A /\ Apart(todo')
  BY <1>4, <1>14, StepStaysInTree, StepKeepsApart
<1>7. ASSUME NEW r \in DOMAIN A
      PROVE  /\ Reaches(todo', r) => Waiting(r) /\ r # p
             /\ Waiting(r) => Reaches(todo', r) \/ r = p
  <2>1. /\ Reaches(todo', r) => Reaches(todo, r)
        /\ ~ Reaches(todo', p)
        /\ Reaches(todo, r) => Reaches(todo', r) \/ r = p
    <3>1. /\ Reaches(todo', r) => Reaches(todo, r)
          /\ ~ Reaches(todo', p)
          /\ Reaches(todo, r) => \/ Reaches(todo', r) \/ r = p
                                 \/ r[Len(p) + 1] \in (1 .. A[p].size) \ U
      BY <1>4, <1>14, StepReaches
    <3> QED
      BY <3>1 DEF U
  <2> QED
    BY <2>1 DEF Waiting
<1>8. DOMAIN arguments' = DOMAIN A
  BY <1>3, <1>5
<1>9. ASSUME NEW r \in DOMAIN A
      PROVE  /\ Reaches(todo', r) => arguments'[r] = A[r]
             /\ ~ Reaches(todo', r) =>
                  arguments'[r] = Sanitized(A[r], request.level) /\ Acceptable(r)
  <2>1. CASE r = p
    <3>1. ~ Reaches(todo', r) /\ arguments'[r] = Sanitized(A[r], request.level)
      BY <1>3, <1>5, <1>7, <2>1
    <3> QED
      BY <1>2, <1>4, <2>1, <3>1 DEF Acceptable
  <2>2. CASE r # p
    <3>1. arguments'[r] = arguments[r] /\ (Reaches(todo', r) <=> Waiting(r))
      BY <1>3, <1>5, <1>7, <2>2
    <3>2. /\ Waiting(r) => arguments[r] = A[r]
          /\ ~ Waiting(r) => IsCleaned(r)
      BY <1>1, <1>3, <1>4 DEF WalkInv
    <3> QED
      BY <3>1, <3>2 DEF IsCleaned
  <2> QED
    BY <2>1, <2>2
<1>10. \A r : Acceptable(r)' <=> Acceptable(r)
  BY <1>1 DEF Acceptable, CleanKeys
<1>11. CallTypeOK'
  BY <1>1, <1>6, <1>8 DEF CallTypeOK
<1>12. (\A r \in DOMAIN arguments :
           /\ Waiting(r) => arguments[r] = request.arguments[r]
           /\ ~ Waiting(r) => IsCleaned(r))'
  BY <1>1, <1>8, <1>9, <1>10 DEF Waiting, IsCleaned
<1> QED
  BY <1>1, <1>3, <1>4, <1>6, <1>11, <1>12 DEF WalkInv

LEMMA WalkEnds ==
  ASSUME CallTypeOK, WalkInv, SanitizeEnds
  PROVE  (CallTypeOK /\ WalkInv)'
<1>1. /\ stage = "sanitize" /\ todo = {} /\ stage' = "validate" /\ request' = request
      /\ arguments' = arguments /\ errors' = errors /\ todo' = Root(request.validate)
  BY DEF SanitizeEnds
<1>2. << >> \in DOMAIN request.arguments
  BY OfCalls DEF CallTypeOK
<1>3. CallTypeOK'
  BY <1>1, <1>2 DEF CallTypeOK, Stages, Root
<1>4. \A p : ~ Waiting(p)
  BY <1>1 DEF Waiting, Reaches
<1>5. IF request.sanitize
      THEN \A p \in DOMAIN arguments : IsCleaned(p)
      ELSE arguments = request.arguments
  BY <1>1, <1>4 DEF WalkInv
<1>6. \A p : IsCleaned(p)' <=> IsCleaned(p)
  BY <1>1 DEF IsCleaned, Acceptable, CleanKeys
<1> QED
  BY <1>1, <1>3, <1>5, <1>6 DEF WalkInv

LEMMA WalkRests ==
  ASSUME CallTypeOK, WalkInv, stage \notin {"sanitize", "unclean"},
         stage' \in {"validate", "handler", "invalid"},
         UNCHANGED <<request, arguments>>, todo' \subseteq DOMAIN request.arguments
  PROVE  (CallTypeOK /\ WalkInv)'
<1>1. IF request.sanitize
      THEN \A p \in DOMAIN arguments : IsCleaned(p)
      ELSE arguments = request.arguments
  BY DEF WalkInv, CallTypeOK, Stages
<1>2. \A p : IsCleaned(p)' <=> IsCleaned(p)
  BY DEF IsCleaned, Acceptable, CleanKeys
<1> QED
  BY <1>1, <1>2 DEF CallTypeOK, Stages, WalkInv
-----------------------------------------------------------------------------
(* What the invariant of the first walk says of the arguments as a whole.  *)
LEMMA FrontOfChild ==
  ASSUME NEW p \in Seq(Nat), NEW i \in Nat
  PROVE  /\ Append(p, i) # << >> /\ Len(Append(p, i)) = Len(p) + 1
         /\ Front(Append(p, i)) = p /\ Last(Append(p, i)) = i
<1> DEFINE c == Append(p, i)
<1>1. c \in Seq(Nat) /\ Len(c) = Len(p) + 1 /\ c[Len(p) + 1] = i /\ IsPrefix(p, c)
  BY PathAppend, ChildOfPrefix
<1>2. c # << >>
  OBVIOUS
<1> HIDE DEF c
<1>3. Len(p) \in Nat
  OBVIOUS
<1>4. Front(c) = SubSeq(c, 1, Len(c) - 1) /\ Last(c) = c[Len(c)] /\ Len(c) \in 1 .. Len(c)
  BY <1>1, <1>2, FrontOfPath
<1>5. SubSeq(c, 1, Len(c) - 1) = p
  <2> DEFINE k == Len(p) + 1
  <2>1. k \in 1 .. Len(c) /\ k <= Len(p) + 1 /\ k = Len(p) + 1 /\ Len(c) = k
    BY <1>1, <1>3
  <2> HIDE DEF k
  <2>2. SubSeq(c, 1, k - 1) = p
    BY <1>1, <2>1, SameAbove
  <2> QED
    BY <2>1, <2>2
<1> QED
  BY <1>1, <1>2, <1>4, <1>5 DEF c

LEMMA AllCleaned ==
  ASSUME CallTypeOK, WalkInv, Cleaned
  PROVE  /\ request.sanitize /\ IsTree(request.arguments)
         /\ DOMAIN arguments = DOMAIN request.arguments
         /\ \A p \in DOMAIN request.arguments :
              /\ arguments[p] = Sanitized(request.arguments[p], request.level)
              /\ Acceptable(p) /\ SoundNode(request.arguments[p]) /\ p \in Seq(Nat)
<1>1. /\ request.sanitize /\ stage \in {"validate", "handler", "invalid"}
      /\ IsTree(request.arguments) /\ DOMAIN arguments = DOMAIN request.arguments
  BY OfCalls DEF CallTypeOK, Cleaned
<1>2. \A p \in DOMAIN arguments : IsCleaned(p)
  BY <1>1 DEF WalkInv
<1> QED
  BY <1>1, <1>2, TreeNode DEF IsCleaned

LEMMA CleanedNode ==
  ASSUME CallTypeOK, WalkInv, Cleaned, NEW p \in DOMAIN request.arguments,
         NEW before, before = request.arguments[p], NEW after, after = arguments[p]
  PROVE  /\ SoundNode(before) /\ SoundNode(after)
         /\ before.kind = after.kind /\ before.size = after.size
         /\ before.kind \notin {"string", "object"} => before = after
<1>1. SoundNode(before) /\ after = Sanitized(before, request.level)
  BY AllCleaned
<1> QED
  BY <1>1, SanitizedNode

LEMMA CleanedTexts ==
  ASSUME CallTypeOK, WalkInv, Cleaned, NEW p \in DOMAIN request.arguments,
         NEW before, before = request.arguments[p], NEW after, after = arguments[p]
  PROVE  /\ before.kind = "string" => after.text = SanitizeString(before.text, request.level)
         /\ before.kind = "object" =>
              /\ DOMAIN after.keys = DOMAIN before.keys
              /\ \A i \in DOMAIN before.keys :
                   after.keys[i] = SanitizeString(before.keys[i], request.level)
<1>1. SoundNode(before) /\ after = Sanitized(before, request.level)
  BY AllCleaned
<1> QED
  BY <1>1, SanitizedTexts

LEMMA NoKeyTwice ==
  ASSUME CallTypeOK, WalkInv, Cleaned, NEW p \in DOMAIN request.arguments,
         NEW i \in DOMAIN request.arguments[p].keys, NEW j \in DOMAIN request.arguments[p].keys,
         i < j
  PROVE  SanitizeString(request.arguments[p].keys[i], request.level)
           # SanitizeString(request.arguments[p].keys[j], request.level)
<1> DEFINE A == request.arguments
<1>1. /\ IsTree(A) /\ p \in Seq(Nat) /\ SoundNode(A[p])
  BY AllCleaned
<1>2. A[p].kind = "object" /\ A[p].keys \in Seq(Text) /\ A[p].size \in Nat
  <2>1. A[p].kind # "object" => A[p].keys = << >>
    BY <1>1 DEF SoundNode
  <2> QED
    BY <1>1, <2>1 DEF SoundNode, Node
<1>3. DOMAIN A[p].keys = 1 .. A[p].size
  BY <1>1, <1>2 DEF SoundNode
<1>4. i \in 1 .. A[p].size /\ j \in 1 .. A[p].size /\ i \in 1 .. j - 1 /\ j \in Nat
  BY <1>2, <1>3
<1>5. Append(p, j) \in DOMAIN A
  BY <1>1, <1>4, TreeNode
<1>6. Append(p, j) # << >> /\ Front(Append(p, j)) = p /\ Last(Append(p, j)) = j
  BY <1>1, <1>4, FrontOfChild
<1>7. Acceptable(Append(p, j))
  BY <1>5, AllCleaned
<1>8. ~ Collides(CleanKeys(p), j)
  BY <1>2, <1>6, <1>7 DEF Acceptable
<1>9. CleanKeys(p)[i] # CleanKeys(p)[j]
  BY <1>4, <1>8 DEF Collides
<1> QED
  BY <1>9 DEF CleanKeys

LEMMA WalkLosesNothing ==
  ASSUME CallTypeOK, WalkInv
  PROVE  NothingIsLost
<1> DEFINE A == request.arguments
<1>1. stage = "unclean" => TooDeep(A) \/ Ambiguous(A, request.level)
  BY DEF WalkInv
<1>2. ASSUME Cleaned
      PROVE  ~ TooDeep(A) /\ ~ Ambiguous(A, request.level) /\ SameButText(A, arguments)
  <2>1. /\ DOMAIN arguments = DOMAIN A
        /\ \A p \in DOMAIN A : /\ arguments[p] = Sanitized(A[p], request.level)
                               /\ Acceptable(p) /\ SoundNode(A[p]) /\ p \in Seq(Nat)
    BY <1>2, AllCleaned
  <2>2. ~ TooDeep(A)
    <3>1. \A p \in DOMAIN A : Len(p) \in Nat /\ Len(p) <= MaxSanitizeDepth
      BY <2>1 DEF Acceptable
    <3> QED
      BY <3>1, SanitizeAssumption DEF TooDeep
  <2>3. ~ Ambiguous(A, request.level)
    <3>1. SUFFICES ASSUME NEW p \in DOMAIN A,
                          NEW i \in DOMAIN A[p].keys, NEW j \in DOMAIN A[p].keys, i # j,
                          SanitizeString(A[p].keys[i], request.level)
                            = SanitizeString(A[p].keys[j], request.level)
                   PROVE  FALSE
      BY DEF Ambiguous
    <3>2. A[p].keys \in Seq(Text)
      BY <2>1 DEF SoundNode, Node
    <3>3. i < j \/ j < i
      BY <3>1, <3>2
    <3> QED
      BY <1>2, <3>1, <3>3, NoKeyTwice
  <2>4. SameButText(A, arguments)
    <3>1. ASSUME NEW p \in DOMAIN A
          PROVE  /\ A[p].kind = arguments[p].kind /\ A[p].size = arguments[p].size
                 /\ A[p].kind \notin {"string", "object"} => A[p] = arguments[p]
      <4> DEFINE before == A[p]
                 after == arguments[p]
      <4>1. before = A[p] /\ after = arguments[p]
        OBVIOUS
      <4>2. /\ before.kind = after.kind /\ before.size = after.size
            /\ before.kind \notin {"string", "object"} => before = after
        <5> HIDE DEF before, after
        <5> QED
          BY <1>2, <4>1, CleanedNode
      <4> QED
        BY <4>2
    <3> QED
      BY <2>1, <3>1 DEF SameButText
  <2> QED
    BY <2>2, <2>3, <2>4
<1> QED
  BY <1>1, <1>2 DEF NothingIsLost

LEMMA WalkLeavesClean ==
  ASSUME CallTypeOK, WalkInv
  PROVE  CleanedTextStaysClean
<1> DEFINE A == request.arguments
<1>1. SUFFICES ASSUME Cleaned, NEW pair \in TextPairs(A, arguments)
               PROVE  StaysClean(pair[1], pair[2], request.level)
  BY Zenon DEF CleanedTextStaysClean
<1>2. \A p \in DOMAIN A : arguments[p] = Sanitized(A[p], request.level) /\ SoundNode(A[p])
  BY <1>1, AllCleaned
<1>3. \A p \in DOMAIN A : A[p].text \in Text /\ A[p].keys \in Seq(Text)
  BY <1>2 DEF SoundNode, Node
<1>4. ASSUME NEW p \in DOMAIN A, A[p].kind = "string", pair = <<A[p].text, arguments[p].text>>
      PROVE  \E t \in Text : pair = <<t, SanitizeString(t, request.level)>>
  <2> DEFINE before == A[p]
             after == arguments[p]
  <2>1. before.kind = "string" => after.text = SanitizeString(before.text, request.level)
    <3>1. before = A[p] /\ after = arguments[p]
      OBVIOUS
    <3> HIDE DEF before, after
    <3> QED
      BY <1>1, <3>1, CleanedTexts
  <2> QED
    BY <1>3, <1>4, <2>1
<1>5. ASSUME NEW p \in DOMAIN A, NEW i \in DOMAIN A[p].keys,
             pair = <<A[p].keys[i], arguments[p].keys[i]>>
      PROVE  \E t \in Text : pair = <<t, SanitizeString(t, request.level)>>
  <2> DEFINE before == A[p]
             after == arguments[p]
  <2>1. before.kind = "object" =>
          \A k \in DOMAIN before.keys :
            after.keys[k] = SanitizeString(before.keys[k], request.level)
    <3>1. before = A[p] /\ after = arguments[p]
      OBVIOUS
    <3> HIDE DEF before, after
    <3> QED
      BY <1>1, <3>1, CleanedTexts
  <2>2. before.kind # "object" => DOMAIN before.keys = {}
    BY <1>2 DEF SoundNode
  <2>3. arguments[p].keys[i] = SanitizeString(A[p].keys[i], request.level)
    BY <1>5, <2>1, <2>2
  <2>4. A[p].keys[i] \in Text
    BY <1>3, <1>5
  <2> QED
    BY <1>5, <2>3, <2>4
<1>6. \/ \E p \in DOMAIN A : A[p].kind = "string" /\ pair = <<A[p].text, arguments[p].text>>
      \/ \E p \in DOMAIN A : \E i \in DOMAIN A[p].keys :
           pair = <<A[p].keys[i], arguments[p].keys[i]>>
  BY <1>1 DEF TextPairs
<1>7. PICK t \in Text : pair = <<t, SanitizeString(t, request.level)>>
  BY <1>4, <1>5, <1>6
<1> QED
  BY <1>7, CleanedIsClean
-----------------------------------------------------------------------------
(* What one call of _validate_value finds.                                 *)
LEMMA TypeMeans ==
  ASSUME NEW node, SoundNode(node), NEW schema \in Part
  PROVE  TypeWrong(node, schema)
           <=> ~ (schema.type = {} \/ \E t \in schema.type : node.kind \in JsonKinds(t))
<1>1. node.kind \in Kinds
  BY DEF SoundNode, Node
<1>2. ASSUME NEW t
      PROVE  /\ node.kind # "boolean" => (node.kind \in Instances(t) <=> node.kind \in JsonKinds(t))
             /\ node.kind = "boolean" => (node.kind \in JsonKinds(t) <=> t = "boolean")
             /\ node.kind = "boolean" /\ t = "boolean" => node.kind \in Instances(t)
  <2>1. CASE t = "integer"
    BY <2>1 DEF Instances, JsonKinds
  <2>2. CASE t = "number"
    BY <2>2 DEF Instances, JsonKinds
  <2>3. CASE t \notin {"integer", "number"}
    BY <2>3 DEF Instances, JsonKinds
  <2> QED
    BY <2>1, <2>2, <2>3
<1>3. node.kind \in UNION {Instances(t) : t \in schema.type}
        <=> \E t \in schema.type : node.kind \in Instances(t)
  OBVIOUS
<1>4. HasType(node, schema.type) <=> \E t \in schema.type : node.kind \in JsonKinds(t)
  BY <1>2, <1>3, Zenon DEF HasType
<1> QED
  BY <1>4 DEF TypeWrong

LEMMA StringMeans ==
  ASSUME NEW node, SoundNode(node), NEW schema \in Part
  PROVE  ValidateString(node, schema) = {}
           <=> /\ \A n \in schema.minLength : n <= Len(node.text)
               /\ \A n \in schema.maxLength \cup {MaxStringLength} : Len(node.text) <= n
<1> DEFINE length == Len(node.text)
<1>1. length \in Nat /\ MaxStringLength \in Nat
  BY LimitsAssumption DEF SoundNode, Node, Text
<1>2. schema.minLength \subseteq Int /\ schema.maxLength \subseteq Int
  BY DEF Part
<1>3. ValidateString(node, schema) = {}
        <=> /\ ~ (length > MaxStringLength)
            /\ ~ Above(length, schema.maxLength) /\ ~ Below(length, schema.minLength)
  BY DEF ValidateString, If
<1> HIDE DEF length
<1>4. ~ Above(length, schema.maxLength) <=> \A n \in schema.maxLength : length <= n
  BY <1>1, <1>2 DEF Above
<1>5. ~ Below(length, schema.minLength) <=> \A n \in schema.minLength : n <= length
  BY <1>1, <1>2 DEF Below
<1>6. ValidateString(node, schema) = {}
        <=> /\ \A n \in schema.minLength : n <= length
            /\ \A n \in schema.maxLength \cup {MaxStringLength} : length <= n
  BY <1>1, <1>3, <1>4, <1>5
<1> QED
  BY <1>6 DEF length

LEMMA ArrayMeans ==
  ASSUME NEW node, SoundNode(node), NEW schema \in Part
  PROVE  /\ ValidateArray(node, schema) = {}
              <=> /\ \A n \in schema.minItems : n <= node.size
                  /\ \A n \in schema.maxItems \cup {MaxArrayLength} : node.size <= n
         /\ ~ (node.size <= MaxArrayLength) => ValidateArray(node, schema) # {}
<1>1. node.size \in Nat /\ MaxArrayLength \in Nat
  BY LimitsAssumption DEF SoundNode, Node
<1>2. schema.minItems \subseteq Int /\ schema.maxItems \subseteq Int
  BY DEF Part
<1>3. ValidateArray(node, schema) = {}
        <=> /\ ~ (node.size > MaxArrayLength)
            /\ ~ Above(node.size, schema.maxItems) /\ ~ Below(node.size, schema.minItems)
  BY DEF ValidateArray, If
<1>4. ~ Above(node.size, schema.maxItems) <=> \A n \in schema.maxItems : node.size <= n
  BY <1>1, <1>2 DEF Above
<1>5. ~ Below(node.size, schema.minItems) <=> \A n \in schema.minItems : n <= node.size
  BY <1>1, <1>2 DEF Below
<1> QED
  BY <1>1, <1>3, <1>4, <1>5

LEMMA ObjectMeans ==
  ASSUME NEW node, SoundNode(node), NEW schema \in Part
  PROVE  ValidateObject(node, schema) = {}
           <=> /\ schema.required \subseteq ToSet(node.keys)
               /\ schema.closed => ToSet(node.keys) \subseteq schema.properties
<1>1. schema.closed \in BOOLEAN
  BY DEF Part
<1> QED
  BY <1>1 DEF ValidateObject

LEMMA FaultsMean ==
  ASSUME NEW node, SoundNode(node), NEW schema \in Part, NEW depth \in Nat
  PROVE  Faults(node, schema, depth) # {} <=> depth > MaxObjectDepth \/ ~ Conforms(node, schema)
<1> DEFINE listed == \A list \in schema.enum : Listed(node, list)
           typed == schema.type = {} \/ \E t \in schema.type : node.kind \in JsonKinds(t)
           inside == CASE node.kind = "string" -> ValidateString(node, schema)
                       [] node.kind = "array" -> ValidateArray(node, schema)
                       [] node.kind = "object" -> ValidateObject(node, schema)
                       [] OTHER -> {}
<1>1. TypeWrong(node, schema) <=> ~ typed
  BY TypeMeans
<1>2. Conforms(node, schema) <=> typed /\ listed /\ inside = {}
  <2>1. CASE node.kind = "string"
    BY <2>1, StringMeans DEF Conforms
  <2>2. CASE node.kind = "array"
    BY <2>2, ArrayMeans DEF Conforms
  <2>3. CASE node.kind = "object"
    BY <2>3, ObjectMeans DEF Conforms
  <2>4. CASE node.kind \notin {"string", "array", "object"}
    BY <2>4 DEF Conforms
  <2> QED
    BY <2>1, <2>2, <2>3, <2>4
<1>3. Faults(node, schema, depth) =
        IF depth > MaxObjectDepth THEN {Error("depth")}
        ELSE IF TypeWrong(node, schema) THEN {Error("type")}
        ELSE If(~ listed, Error("enum")) \cup inside
  BY DEF Faults
<1>4. If(~ listed, Error("enum")) = {} <=> listed
  BY DEF If
<1> HIDE DEF listed, typed, inside
<1> QED
  BY <1>1, <1>2, <1>3, <1>4

(* Where it goes on from: a value it does not go into has a fault of its   *)
(* own, unless it is one the schema does not speak of.                     *)
LEMMA DescendsMean ==
  ASSUME NEW node, SoundNode(node), NEW schema \in Part, NEW depth \in Nat
  PROVE  /\ Descends(node, schema, depth) \subseteq 1 .. node.size
         /\ node.kind = "object" =>
              \A i \in Descends(node, schema, depth) : node.keys[i] \in schema.properties
         /\ \A i \in (1 .. node.size) \ Descends(node, schema, depth) :
              \/ Faults(node, schema, depth) # {}
              \/ node.kind = "object" /\ node.keys[i] \notin schema.properties
<1> DEFINE D == Descends(node, schema, depth)
           F == Faults(node, schema, depth)
<1>1. node.size \in Nat
  BY DEF SoundNode, Node
<1>2. CASE depth > MaxObjectDepth \/ TypeWrong(node, schema)
  <2>1. D = {} /\ F # {}
    BY <1>2 DEF Descends, Faults
  <2> QED
    BY <2>1
<1>3. CASE ~ (depth > MaxObjectDepth \/ TypeWrong(node, schema))
  <2>1. D = CASE node.kind = "array" /\ node.size <= MaxArrayLength -> 1 .. node.size
              [] node.kind = "object" -> {i \in 1 .. node.size : node.keys[i] \in schema.properties}
              [] OTHER -> {}
    BY <1>3 DEF Descends
  <2> HIDE DEF D, F
  <2>2. CASE node.kind = "array"
    <3>1. CASE node.size <= MaxArrayLength
      <4>1. D = 1 .. node.size
        BY <2>1, <2>2, <3>1
      <4> QED
        BY <2>2, <4>1 DEF D, F
    <3>2. CASE ~ (node.size <= MaxArrayLength)
      <4>1. D = {}
        BY <2>1, <2>2, <3>2
      <4>2. ValidateArray(node, schema) # {}
        BY <3>2, ArrayMeans
      <4>3. F # {}
        BY <1>3, <2>2, <4>2 DEF F, Faults
      <4> QED
        BY <2>2, <4>1, <4>3 DEF D, F
    <3> QED
      BY <3>1, <3>2
  <2>3. CASE node.kind = "object"
    <3>1. D = {i \in 1 .. node.size : node.keys[i] \in schema.properties}
      BY <2>1, <2>3
    <3> QED
      BY <2>3, <3>1 DEF D, F
  <2>4. CASE node.kind \notin {"array", "object"}
    <3>1. D = {} /\ node.size = 0
      BY <2>1, <2>4 DEF SoundNode
    <3> QED
      BY <2>4, <3>1 DEF D, F
  <2> QED
    BY <2>2, <2>3, <2>4
<1> QED
  BY <1>2, <1>3

-----------------------------------------------------------------------------
(* The invariant of the walk that validates.                               *)
LEMMA OfSchema ==
  ASSUME request \in Calls, NEW p
  PROVE  SchemaOf(p) \in Part
<1>1. IsSchema(request.schema)
  BY OfCalls
<1>2. AnySchema \in Part
  BY DEF AnySchema, Part
<1> QED
  BY <1>1, <1>2 DEF SchemaOf, SchemaAt, IsSchema

LEMMA ShapeKept ==
  ASSUME CallTypeOK, WalkInv, stage \in {"validate", "handler", "invalid"},
         NEW p \in DOMAIN request.arguments,
         NEW before, before = request.arguments[p], NEW after, after = arguments[p]
  PROVE  /\ SoundNode(after) /\ before.size = after.size /\ p \in Seq(Nat)
<1>1. IsTree(request.arguments) /\ p \in Seq(Nat)
  BY OfCalls, TreeNode DEF CallTypeOK
<1>2. CASE request.sanitize
  <2>1. Cleaned
    BY <1>2 DEF Cleaned
  <2> QED
    BY <1>1, <2>1, CleanedNode
<1>3. CASE ~ request.sanitize
  <2>1. arguments = request.arguments
    BY <1>3 DEF WalkInv
  <2> QED
    BY <1>1, <2>1, TreeNode
<1> QED
  BY <1>2, <1>3

LEMMA AtPlace ==
  ASSUME CallTypeOK, WalkInv, stage \in {"validate", "handler", "invalid"},
         NEW p \in DOMAIN arguments
  PROVE  /\ p \in Seq(Nat) /\ SoundNode(arguments[p]) /\ SchemaOf(p) \in Part
         /\ arguments[p].size = request.arguments[p].size
         /\ Faults(arguments[p], SchemaOf(p), Len(p)) # {} <=> Faulty(p)
<1> DEFINE before == request.arguments[p]
           after == arguments[p]
<1>1. p \in DOMAIN request.arguments /\ SchemaOf(p) \in Part
  BY OfSchema DEF CallTypeOK
<1>2. before = request.arguments[p] /\ after = arguments[p]
  OBVIOUS
<1>3. SoundNode(after) /\ before.size = after.size /\ p \in Seq(Nat)
  <2> HIDE DEF before, after
  <2> QED
    BY <1>1, <1>2, ShapeKept
<1>4. Len(p) \in Nat
  BY <1>3
<1>5. Faults(after, SchemaOf(p), Len(p)) # {}
        <=> Len(p) > MaxObjectDepth \/ ~ Conforms(after, SchemaOf(p))
  <2> HIDE DEF after
  <2> QED
    BY <1>1, <1>3, <1>4, FaultsMean
<1> QED
  BY <1>1, <1>3, <1>5 DEF Faulty

LEMMA JudgedAlike ==
  ASSUME UNCHANGED <<request, arguments>>
  PROVE  /\ Places' = Places
         /\ \A p : SchemaOf(p)' = SchemaOf(p) /\ (Faulty(p)' <=> Faulty(p))
<1>1. \A p : SchemaPath(p)' = SchemaPath(p)
  BY DEF SchemaPath
<1>2. \A p : SchemaOf(p)' = SchemaOf(p)
  BY <1>1 DEF SchemaOf
<1> QED
  BY <1>2 DEF Places, Faulty

LEMMA PlaceBelow ==
  ASSUME CallTypeOK, NEW p \in Places, NEW i \in 1 .. request.arguments[p].size,
         arguments[p].kind = "object" => arguments[p].keys[i] \in SchemaOf(p).properties
  PROVE  Append(p, i) \in Places
<1> DEFINE A == request.arguments
           c == Append(p, i)
<1>1. IsTree(A) /\ p \in DOMAIN A /\ DOMAIN arguments = DOMAIN A
  BY OfCalls DEF CallTypeOK, Places
<1>2. p \in Seq(Nat) /\ i \in Nat /\ c \in DOMAIN arguments
  BY <1>1, TreeNode
<1>3. /\ c \in Seq(Nat) /\ Len(c) = Len(p) + 1 /\ c[Len(p) + 1] = i /\ IsPrefix(p, c)
      /\ \A n \in 1 .. Len(p) : c[n] = p[n]
  BY <1>2, PathAppend, ChildOfPrefix
<1>4. Len(p) \in Nat
  BY <1>2
<1> HIDE DEF c
<1>5. ASSUME NEW n \in 1 .. Len(c), arguments[SubSeq(c, 1, n - 1)].kind = "object"
      PROVE  arguments[SubSeq(c, 1, n - 1)].keys[c[n]]
               \in SchemaOf(SubSeq(c, 1, n - 1)).properties
  <2>1. CASE n = Len(p) + 1
    <3>1. SubSeq(c, 1, n - 1) = p /\ c[n] = i
      BY <1>2, <1>3, <2>1, SameAbove
    <3> QED
      BY <1>5, <3>1
  <2>2. CASE n # Len(p) + 1
    <3>1. n \in 1 .. Len(p) /\ n <= Len(p) /\ n <= Len(p) + 1
      BY <1>3, <1>4, <2>2
    <3>2. SubSeq(c, 1, n - 1) = SubSeq(p, 1, n - 1) /\ c[n] = p[n]
      BY <1>2, <1>3, <3>1, SameAbove
    <3> QED
      BY <1>5, <3>1, <3>2 DEF Places
  <2> QED
    BY <2>1, <2>2
<1> QED
  BY <1>2, <1>5 DEF Places, c

LEMMA PlaceAbove ==
  ASSUME CallTypeOK, NEW p \in DOMAIN arguments, NEW r \in Places, IsPrefix(p, r), p # r
  PROVE  arguments[p].kind = "object"
           => arguments[p].keys[r[Len(p) + 1]] \in SchemaOf(p).properties
<1> DEFINE n == Len(p) + 1
<1>1. IsTree(request.arguments) /\ p \in DOMAIN request.arguments /\ r \in DOMAIN request.arguments
  BY OfCalls DEF CallTypeOK, Places
<1>2. p \in Seq(Nat) /\ r \in Seq(Nat) /\ n \in 1 .. Len(r) /\ n <= Len(p) + 1 /\ n = Len(p) + 1
  BY <1>1, TreeNode, TreeBelow
<1> HIDE DEF n
<1>3. SubSeq(r, 1, n - 1) = p
  BY <1>2, SameAbove
<1>4. arguments[p].kind = "object" => arguments[p].keys[r[n]] \in SchemaOf(p).properties
  BY <1>2, <1>3 DEF Places
<1> QED
  BY <1>4 DEF n

LEMMA ValidStarts ==
  ASSUME CallTypeOK, WalkInv, SanitizeEnds
  PROVE  ValidInv'
<1>1. /\ stage = "sanitize" /\ todo = {} /\ stage' = "validate" /\ request' = request
      /\ errors' = {} /\ todo' = Root(request.validate)
  BY DEF SanitizeEnds, WalkInv
<1>2. SUFFICES ASSUME request'.validate
               PROVE  (/\ todo \subseteq Places /\ ErrorsRight
                       /\ \A p \in Places : Faulty(p) => Reported(p) \/ Waiting(p))'
  BY <1>1 DEF ValidInv
<1>3. CallTypeOK' /\ todo' = {<< >>}
  BY <1>1, <1>2, WalkEnds DEF Root
<1>4. /\ DOMAIN arguments' = DOMAIN request.arguments
      /\ IsTree(request.arguments) /\ << >> \in DOMAIN request.arguments
  BY <1>1, <1>3, OfCalls DEF CallTypeOK
<1>5. << >> \in Places'
  BY <1>4 DEF Places
<1>6. ErrorsRight'
  BY <1>1 DEF ErrorsRight
<1>7. ASSUME NEW p \in Places' PROVE Waiting(p)'
  <2>1. p \in Seq(Nat)
    BY <1>4, TreeNode DEF Places
  <2>2. Reaches({<< >>}, p)
    BY <2>1, RootReaches
  <2> QED
    BY <1>3, <2>2 DEF Waiting
<1> QED
  BY <1>3, <1>5, <1>6, <1>7

LEMMA ValidGoesOn ==
  ASSUME CallTypeOK, WalkInv, ValidInv, ValidateValue
  PROVE  (CallTypeOK /\ WalkInv /\ ValidInv)'
<1> DEFINE A == request.arguments
<1>1. /\ stage = "validate" /\ stage' = stage /\ request' = request /\ arguments' = arguments
  BY DEF ValidateValue
<1>2. PICK p \in todo :
        /\ errors' = errors \cup {<<p, e>> : e \in Faults(arguments[p], SchemaOf(p), Len(p))}
        /\ todo' = (todo \ {p}) \cup Children(p, Descends(arguments[p], SchemaOf(p), Len(p)))
  BY DEF ValidateValue
<1> DEFINE F == Faults(arguments[p], SchemaOf(p), Len(p))
           U == Descends(arguments[p], SchemaOf(p), Len(p))
<1>3. /\ IsTree(A) /\ DOMAIN arguments = DOMAIN A /\ todo \subseteq DOMAIN A
      /\ p \in DOMAIN arguments
  BY OfCalls DEF CallTypeOK
<1>4. /\ p \in Seq(Nat) /\ SoundNode(arguments[p]) /\ SchemaOf(p) \in Part
      /\ arguments[p].size = A[p].size
      /\ F # {} <=> Faulty(p)
  BY <1>1, <1>3, AtPlace
<1>5. Len(p) \in Nat
  BY <1>4
<1>6. /\ U \subseteq 1 .. A[p].size
      /\ arguments[p].kind = "object" =>
           \A i \in U : arguments[p].keys[i] \in SchemaOf(p).properties
      /\ \A i \in (1 .. A[p].size) \ U :
           \/ F # {}
           \/ arguments[p].kind = "object" /\ arguments[p].keys[i] \notin SchemaOf(p).properties
  <2> DEFINE node == arguments[p]
             schema == SchemaOf(p)
             depth == Len(p)
  <2>1. SoundNode(node) /\ schema \in Part /\ depth \in Nat /\ node.size = A[p].size
    BY <1>4, <1>5
  <2>2. /\ Descends(node, schema, depth) \subseteq 1 .. node.size
        /\ node.kind = "object" =>
              \A i \in Descends(node, schema, depth) : node.keys[i] \in schema.properties
        /\ \A i \in (1 .. node.size) \ Descends(node, schema, depth) :
              \/ Faults(node, schema, depth) # {}
              \/ node.kind = "object" /\ node.keys[i] \notin schema.properties
    <3> HIDE DEF node, schema, depth
    <3> QED
      BY <2>1, DescendsMean
  <2> QED
    BY <2>1, <2>2
<1>7. errors' = errors \cup {<<p, e>> : e \in F} /\ todo' = (todo \ {p}) \cup Children(p, U)
  BY <1>2
<1> HIDE DEF F, U
<1>8. WalkStep(A, todo, p, U, todo')
  BY <1>3, <1>6, <1>7 DEF WalkStep
<1>9. todo' \subseteq DOMAIN A
  BY <1>8, StepStaysInTree
<1>10. (CallTypeOK /\ WalkInv)'
  BY <1>1, <1>9, WalkRests
<1>11. ASSUME request.validate PROVE ValidInv'
  <2>1. /\ todo \subseteq Places /\ ErrorsRight
        /\ \A q \in Places : Faulty(q) => Reported(q) \/ Waiting(q)
    BY <1>1, <1>11 DEF ValidInv
  <2>2. Places' = Places /\ \A q : Faulty(q)' <=> Faulty(q)
    BY <1>1, JudgedAlike
  <2>3. todo' \subseteq Places'
    <3>1. ASSUME NEW i \in U PROVE Append(p, i) \in Places
      BY <1>6, <2>1, <3>1, PlaceBelow
    <3> QED
      BY <1>7, <2>1, <2>2, <3>1 DEF Children
  <2>4. ErrorsRight'
    <3>1. ASSUME NEW e \in errors' PROVE e[1] \in Places /\ Faulty(e[1])
      <4>1. CASE e \in errors
        BY <2>1, <4>1 DEF ErrorsRight
      <4>2. CASE e \in {<<p, f>> : f \in F}
        <5>1. e[1] = p /\ F # {}
          BY <4>2
        <5> QED
          BY <1>4, <2>1, <5>1
      <4> QED
        BY <1>7, <4>1, <4>2
    <3> QED
      BY <2>2, <3>1 DEF ErrorsRight
  <2>5. ASSUME NEW q, IsPrefix(p, q), F # {} PROVE Reported(q)'
    <3>1. PICK f \in F : TRUE
      BY <2>5
    <3>2. <<p, f>> \in errors' /\ <<p, f>>[1] = p
      BY <1>7
    <3> QED
      BY <2>5, <3>2 DEF Reported
  <2>6. ASSUME NEW r \in Places, Faulty(r) PROVE Reported(r)' \/ Waiting(r)'
    <3>1. r \in DOMAIN A /\ r \in Seq(Nat)
      BY <1>3, TreeNode DEF Places
    <3>2. CASE Reported(r)
      BY <1>7, <3>2 DEF Reported
    <3>3. CASE Reaches(todo, r)
      <4>1. \/ Reaches(todo', r)
            \/ r = p
            \/ /\ IsPrefix(p, r) /\ Len(p) + 1 \in 1 .. Len(r)
               /\ r[Len(p) + 1] \in (1 .. A[p].size) \ U
        BY <1>8, <3>1, <3>3, StepReaches
      <4>2. CASE r = p
        <5>1. IsPrefix(p, r) /\ F # {}
          BY <1>4, <2>6, <4>2, PrefixOrder
        <5> QED
          BY <2>5, <5>1
      <4>3. CASE /\ IsPrefix(p, r) /\ Len(p) + 1 \in 1 .. Len(r)
                 /\ r[Len(p) + 1] \in (1 .. A[p].size) \ U
        <5>1. p # r
          BY <1>5, <4>3
        <5>2. arguments[p].kind = "object"
                => arguments[p].keys[r[Len(p) + 1]] \in SchemaOf(p).properties
          BY <1>3, <4>3, <5>1, PlaceAbove
        <5>3. F # {}
          BY <1>6, <4>3, <5>2
        <5> QED
          BY <2>5, <4>3, <5>3
      <4> QED
        BY <4>1, <4>2, <4>3 DEF Waiting
    <3> QED
      BY <2>1, <2>6, <3>2, <3>3 DEF Waiting
  <2> QED
    BY <1>1, <2>2, <2>3, <2>4, <2>6 DEF ValidInv
<1> QED
  BY <1>1, <1>10, <1>11 DEF ValidInv

LEMMA ValidEnds ==
  ASSUME CallTypeOK, WalkInv, ValidInv, ValidateEnds
  PROVE  (CallTypeOK /\ WalkInv /\ ValidInv)'
<1>1. /\ stage = "validate" /\ todo = {} /\ request' = request /\ arguments' = arguments
      /\ todo' = todo /\ errors' = errors
      /\ stage' = IF errors = {} THEN "handler" ELSE "invalid"
  BY DEF ValidateEnds
<1>2. (CallTypeOK /\ WalkInv)'
  BY <1>1, WalkRests DEF CallTypeOK
<1>3. ASSUME request.validate PROVE ValidInv'
  <2>1. ErrorsRight /\ \A p \in Places : Faulty(p) => Reported(p) \/ Waiting(p)
    BY <1>1, <1>3 DEF ValidInv
  <2>2. \A p : ~ Waiting(p)
    BY <1>1 DEF Waiting, Reaches
  <2>3. \A p \in Places : Faulty(p) => Reported(p)
    BY <2>1, <2>2
  <2>4. errors = {} => \A p \in Places : ~ Faulty(p)
    BY <2>3 DEF Reported
  <2>5. Places' = Places /\ \A p : Faulty(p)' <=> Faulty(p)
    BY <1>1, JudgedAlike
  <2>6. ErrorsRight' /\ \A p : Reported(p)' <=> Reported(p)
    BY <1>1, <2>1, <2>5 DEF ErrorsRight, Reported
  <2> QED
    BY <1>1, <2>3, <2>4, <2>5, <2>6 DEF ValidInv
<1> QED
  BY <1>1, <1>2, <1>3 DEF ValidInv

(* The three parts together hold at first and are kept by every step.      *)
CallInv == CallTypeOK /\ WalkInv /\ ValidInv

LEMMA CallStarts == CallInit => CallInv
<1> SUFFICES ASSUME CallInit PROVE CallInv
  OBVIOUS
<1>1. stage = "sanitize"
  BY DEF CallInit
<1>2. ValidInv
  BY <1>1 DEF ValidInv
<1> QED
  BY <1>2, WalkInit DEF CallInv

LEMMA CallGoesOn == CallInv /\ [CallNext]_callVars => CallInv'
<1> SUFFICES ASSUME CallTypeOK, WalkInv, ValidInv, [CallNext]_callVars
             PROVE  (CallTypeOK /\ WalkInv /\ ValidInv)'
  BY DEF CallInv
<1>1. CASE SanitizeFails
  <2>1. stage' = "unclean"
    BY <1>1 DEF SanitizeFails
  <2> QED
    BY <1>1, <2>1, WalkFails DEF ValidInv
<1>2. CASE SanitizeValue
  <2>1. stage' = "sanitize"
    BY <1>2 DEF SanitizeValue
  <2> QED
    BY <1>2, <2>1, WalkCleans DEF ValidInv
<1>3. CASE SanitizeEnds
  BY <1>3, WalkEnds, ValidStarts
<1>4. CASE ValidateValue
  BY <1>4, ValidGoesOn
<1>5. CASE ValidateEnds
  BY <1>5, ValidEnds
<1>6. CASE UNCHANGED callVars
  <2>1. UNCHANGED <<request, stage, arguments, todo, errors>>
    BY <1>6 DEF callVars
  <2>2. /\ Places' = Places /\ \A p : Faulty(p)' <=> Faulty(p)
    BY <2>1, JudgedAlike
  <2>3. \A p : (Waiting(p)' <=> Waiting(p)) /\ (Reported(p)' <=> Reported(p))
    BY <2>1 DEF Waiting, Reported
  <2>4. \A p : IsCleaned(p)' <=> IsCleaned(p)
    BY <2>1 DEF IsCleaned, Acceptable, CleanKeys
  <2>5. /\ TooDeep(request.arguments)' <=> TooDeep(request.arguments)
        /\ Ambiguous(request.arguments, request.level)' <=> Ambiguous(request.arguments, request.level)
    BY <2>1 DEF TooDeep, Ambiguous
  <2>6. ErrorsRight' <=> ErrorsRight
    BY <2>1, <2>2 DEF ErrorsRight
  <2>7. CallTypeOK'
    BY <2>1 DEF CallTypeOK
  <2>8. WalkInv'
    BY <2>1, <2>3, <2>4, <2>5 DEF WalkInv
  <2>9. ValidInv'
    BY <2>1, <2>2, <2>3, <2>6 DEF ValidInv
  <2> QED
    BY <2>7, <2>8, <2>9
<1> QED
  BY <1>1, <1>2, <1>3, <1>4, <1>5, <1>6 DEF CallNext

(* The two walks keep their parts of the invariant, for any calls.         *)
THEOREM WalksKeepTheirPlace == CallSpec => []CallInv
  BY CallStarts, CallGoesOn, PTL DEF CallSpec

(* A call is refused by the cleaning only for nesting too deep or for two  *)
(* keys that would become one, and otherwise keeps every value             *)
(* (sanitize_input), for any calls, level and depth.                       *)
THEOREM NothingIsEverLost == CallSpec => []NothingIsLost
<1>1. CallInv => NothingIsLost
  BY WalkLosesNothing DEF CallInv
<1> QED
  BY <1>1, WalksKeepTheirPlace, PTL

(* What cleaning removes as a character stays removed from a text of any   *)
(* characters and any length; a traversal sequence does on moderate, from  *)
(* a text that the passes suffice for, and on strict it need not           *)
(* (_sanitize_strict, _sanitize_moderate, _strip_path_traversal).          *)
THEOREM CleanedTextIsClean == CallSpec => []CleanedTextStaysClean
<1>1. CallInv => CleanedTextStaysClean
  BY WalkLeavesClean DEF CallInv
<1> QED
  BY <1>1, WalksKeepTheirPlace, PTL

(* What reaches a handler conforms to the schema wherever it speaks, and a *)
(* call is refused with every fault it has (_validate_value), for any      *)
(* schemas, arguments and limits.                                          *)
THEOREM FaultsAreReported == CallSpec => []EveryFaultIsReported
<1>1. CallInv => EveryFaultIsReported
  BY DEF CallInv, ValidInv, EveryFaultIsReported, ErrorsRight, Reported
<1> QED
  BY <1>1, WalksKeepTheirPlace, PTL
=============================================================================
