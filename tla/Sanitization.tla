---------------------------- MODULE Sanitization ----------------------------
(***************************************************************************)
(* security/sanitization.py: a text, and a node with its texts, cleaned at *)
(* one of three levels.                                                    *)
(***************************************************************************)
EXTENDS JsonTree

CONSTANTS MaxSanitizeDepth,   \* _MAX_SANITIZE_DEPTH, 50
          MaxTraversalPasses  \* _MAX_TRAVERSAL_PASSES, 10

(* What cleaning puts into a text are characters, too.                     *)
ASSUME CharacterAssumption == {".", "/", "\\", "E_ACUTE"} \subseteq Character
ASSUME SanitizeAssumption == MaxSanitizeDepth \in Nat /\ MaxTraversalPasses \in Nat \ {0}
-----------------------------------------------------------------------------
(* Characters: "BEL" is an ASCII control other than tab, line feed and     *)
(* return, "ZWJ" a format character, "ACUTE" a mark that composes, and      *)
(* "E_ACUTE" what it makes of an e.                                        *)
NullByte == {"NUL"}
ControlChars == {"NUL", "BEL"}
UnicodeControls == {"NUL", "BEL", "ZWJ"}
ShellMeta == {"SEMICOLON", "\\", "LF"}
Separators == {"/", "\\"}

(* re.sub: from left to right, what matches at a place is replaced and     *)
(* skipped, and what does not is kept.  A part says for one place how many *)
(* characters are replaced there, and what is put for them.                *)
Kept(c) == [length |-> 1, text |-> <<c>>]
Replaced(n, text) == [length |-> n, text |-> text]
Substituted(parts) ==
  LET seen[i \in 0 .. Len(parts)] ==
        IF i = 0 THEN [next |-> 1, text |-> << >>]
        ELSE LET before == seen[i - 1]
             IN  IF i < before.next THEN before
                 ELSE [next |-> i + parts[i].length, text |-> before.text \o parts[i].text]
  IN  seen[Len(parts)].text

Without(s, chars) ==
  Substituted([i \in DOMAIN s |-> IF s[i] \in chars THEN Replaced(1, << >>) ELSE Kept(s[i])])

At(s, i, chars) == i \in 1 .. Len(s) /\ s[i] \in chars
TwoDots(s, i) == At(s, i, {"."}) /\ At(s, i + 1, {"."})
AtEnd(s, i) == i > Len(s) \/ (i = Len(s) /\ s[i] = "LF")

(* _PATH_TRAVERSAL_RE; a "$" also matches before a final line feed.        *)
TraversalAt(s, i) ==
  CASE TwoDots(s, i) /\ At(s, i + 2, Separators) -> Replaced(3, << >>)
    [] At(s, i, Separators) /\ TwoDots(s, i + 1) -> Replaced(3, << >>)
    [] i = 1 /\ TwoDots(s, i) /\ AtEnd(s, i + 2) -> Replaced(2, << >>)
    [] OTHER -> Kept(s[i])
StripOnce(s) == Substituted([i \in DOMAIN s |-> TraversalAt(s, i)])

(* _TRAVERSAL_ENCODED_RE and its _decode_map.                              *)
Percent(s, i, digit, letter) == At(s, i, {"%"}) /\ At(s, i + 1, digit) /\ At(s, i + 2, letter)
EncodedAt(s, i) ==
  CASE Percent(s, i, {"2"}, {"e", "E"}) -> Replaced(3, <<".">>)
    [] Percent(s, i, {"2"}, {"f", "F"}) -> Replaced(3, <<"/">>)
    [] Percent(s, i, {"5"}, {"c", "C"}) -> Replaced(3, <<"\\">>)
    [] OTHER -> Kept(s[i])
Decoded(s) == Substituted([i \in DOMAIN s |-> EncodedAt(s, i)])

(* A pass that changes nothing ends the loop; the later ones would not     *)
(* change anything either.                                                 *)
StripPathTraversal(s) ==
  LET after[pass \in 0 .. MaxTraversalPasses] ==
        IF pass = 0 THEN Decoded(s) ELSE StripOnce(after[pass - 1])
  IN  after[MaxTraversalPasses]

(* Normalization to NFC: a letter and its mark become one character.       *)
ComposedAt(s, i) ==
  IF At(s, i, {"e"}) /\ At(s, i + 1, {"ACUTE"}) THEN Replaced(2, <<"E_ACUTE">>) ELSE Kept(s[i])
NFC(s) == Substituted([i \in DOMAIN s |-> ComposedAt(s, i)])

(* A seeded fault: shell characters are removed before what is encoded is  *)
(* decoded.                                                                *)
SanitizeStrictEarly(s) ==
  StripPathTraversal(Without(Without(NFC(s), UnicodeControls \cup ControlChars), ShellMeta))
SanitizeStrict(s) ==
  Without(StripPathTraversal(Without(NFC(s), UnicodeControls \cup ControlChars)), ShellMeta)

SanitizeModerate(s) == StripPathTraversal(Without(s, ControlChars))
SanitizePermissive(s) == Without(s, NullByte)

SanitizeString(s, level) ==
  CASE level = "strict" -> SanitizeStrict(s)
    [] level = "moderate" -> SanitizeModerate(s)
    [] OTHER -> SanitizePermissive(s)
-----------------------------------------------------------------------------
(* What sanitize_input makes of a node, apart from what is in it.  Keys    *)
(* that stay different are the keys of the new dictionary.                 *)
Sanitized(node, level) ==
  CASE node.kind = "string" -> Scalar("string", SanitizeString(node.text, level))
    [] node.kind = "object" ->
         Object([i \in DOMAIN node.keys |-> SanitizeString(node.keys[i], level)])
    [] OTHER -> node

(* A seeded fault: seen_keys is never filled.                              *)
CollidesNever(cleaned, i) == FALSE
Collides(cleaned, i) == \E j \in 1 .. i - 1 : cleaned[j] = cleaned[i]
=============================================================================
