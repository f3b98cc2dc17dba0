------------------------------ MODULE Arguments ------------------------------
(***************************************************************************)
(* The arguments of one call on their way through steps 4 and 5 of         *)
(* middleware/pipeline.py: they are cleaned, what comes out is held        *)
(* against the tool's schema, and what passes goes to the handler.  A      *)
(* prompt is a call without validation.  sanitize_input and                *)
(* _validate_value call themselves for each value in a value; a step here  *)
(* is one such call, and the set todo holds the paths of the values that   *)
(* the callers under way have yet to come to.                              *)
(***************************************************************************)
EXTENDS Sanitization, Validation

CONSTANT Calls  \* the calls clients may make, of the tools there may be

(* Levels, and a call: its arguments, the schema of its tool, the level    *)
(* configured and whether cleaning and validation are enabled.             *)
Levels == {"strict", "moderate", "permissive"}
ASSUME CallsAssumption ==
  \A c \in Calls :
    /\ IsTree(c.arguments) /\ IsSchema(c.schema)
    /\ c.level \in Levels
    /\ {c.sanitize, c.validate} \subseteq BOOLEAN

VARIABLES
  request,    \* the call: it does not change
  stage,      \* "sanitize", "validate", "handler", "unclean" or "invalid"
  arguments,  \* the local variable of that name, later the one named sanitized
  todo,       \* the paths of the values still to come to
  errors      \* why the call was refused, each with the path it is about

callVars == <<request, stage, arguments, todo, errors>>

Root(enabled) == IF enabled THEN {<< >>} ELSE {}

CallInit ==
  /\ request \in Calls
  /\ stage = "sanitize"
  /\ arguments = request.arguments
  /\ todo = Root(request.sanitize)
  /\ errors = {}

First(p) == \A q \in todo : ~ Before(q, p)
-----------------------------------------------------------------------------
(* Step 4.  The caller looks at the key before the value is cleaned.       *)
KeyTaken(p) ==
  /\ p # << >> /\ arguments[Front(p)].kind = "object"
  /\ Collides(arguments[Front(p)].keys, Last(p))

SanitizeFails ==
  /\ stage = "sanitize"
  /\ \E p \in todo :
       /\ First(p) /\ (KeyTaken(p) \/ Len(p) > MaxSanitizeDepth)
       /\ errors' = {<<p, IF KeyTaken(p) THEN "KEY_COLLISION" ELSE "SANITIZATION_DEPTH_EXCEEDED">>}
  /\ stage' = "unclean" /\ arguments' = request.arguments /\ todo' = {}
  /\ UNCHANGED request

SanitizeValue ==
  /\ stage = "sanitize"
  /\ \E p \in todo :
       /\ First(p) /\ ~ KeyTaken(p) /\ Len(p) <= MaxSanitizeDepth
       /\ arguments' = [arguments EXCEPT ![p] = Sanitized(@, request.level)]
       /\ todo' = (todo \ {p}) \cup Children(p, 1 .. arguments[p].size)
  /\ UNCHANGED <<request, stage, errors>>

SanitizeEnds ==
  /\ stage = "sanitize" /\ todo = {}
  /\ stage' = "validate" /\ todo' = Root(request.validate)
  /\ UNCHANGED <<request, arguments, errors>>

(* Step 5.                                                                 *)
SchemaPath(p) ==
  [n \in 1 .. Len(p) |->
     LET above == arguments[SubSeq(p, 1, n - 1)]
     IN  IF above.kind = "object" THEN Property(above.keys[p[n]]) ELSE Items]
SchemaOf(p) == SchemaAt(request.schema, SchemaPath(p))

ValidateValue ==
  /\ stage = "validate"
  /\ \E p \in todo :
       /\ First(p)
       /\ errors' = errors \cup {<<p, e>> : e \in Faults(arguments[p], SchemaOf(p), Len(p))}
       /\ todo' = (todo \ {p}) \cup Children(p, Descends(arguments[p], SchemaOf(p), Len(p)))
  /\ UNCHANGED <<request, stage, arguments>>

ValidateEnds ==
  /\ stage = "validate" /\ todo = {}
  /\ stage' = IF errors = {} THEN "handler" ELSE "invalid"
  /\ UNCHANGED <<request, arguments, todo, errors>>

CallNext == SanitizeFails \/ SanitizeValue \/ SanitizeEnds \/ ValidateValue \/ ValidateEnds

CallSpec == CallInit /\ [][CallNext]_callVars
-----------------------------------------------------------------------------
(* What the two recursions should come to, without following them.         *)
Texts(value) ==
  {value[p].text : p \in {q \in DOMAIN value : value[q].kind = "string"}}
  \cup UNION {ToSet(value[p].keys) : p \in DOMAIN value}

(* Each text of a value, with what is at its place in another.             *)
TextPairs(before, after) ==
  {<<before[p].text, after[p].text>> : p \in {q \in DOMAIN before : before[q].kind = "string"}}
  \cup UNION {{<<before[p].keys[i], after[p].keys[i]>> : i \in DOMAIN before[p].keys} :
                p \in DOMAIN before}

TooDeep(value) == \E p \in DOMAIN value : Len(p) > MaxSanitizeDepth
Ambiguous(value, level) ==
  \E p \in DOMAIN value : \E i, j \in DOMAIN value[p].keys :
    i # j /\ SanitizeString(value[p].keys[i], level) = SanitizeString(value[p].keys[j], level)

SameButText(before, after) ==
  /\ DOMAIN before = DOMAIN after
  /\ \A p \in DOMAIN before :
       /\ before[p].kind = after[p].kind /\ before[p].size = after[p].size
       /\ before[p].kind \notin {"string", "object"} => before[p] = after[p]

Cleaned == stage \in {"validate", "handler", "invalid"} /\ request.sanitize
-----------------------------------------------------------------------------
(* No argument is lost on the way: a call is refused when two keys of an   *)
(* object would become one, or when it nests too deep, and only then; what *)
(* is let through has every value of the original at its place, and what   *)
(* is no text is untouched (sanitize_input).                               *)
NothingIsLost ==
  /\ stage = "unclean" =>
       TooDeep(request.arguments) \/ Ambiguous(request.arguments, request.level)
  /\ Cleaned =>
       /\ ~ TooDeep(request.arguments) /\ ~ Ambiguous(request.arguments, request.level)
       /\ SameButText(request.arguments, arguments)

StaysClean(was, text, level) ==
  CASE level = "strict" -> ToSet(text) \cap (UnicodeControls \cup ShellMeta) = {}
    [] level = "moderate" ->
         /\ ToSet(text) \cap ControlChars = {}
         /\ Len(was) < 3 * MaxTraversalPasses + 2 => StripOnce(text) = text
    [] OTHER -> ToSet(text) \cap NullByte = {}

(* What cleaning removes as a character stays removed, decoded ones        *)
(* included: a strict text has no control, format or shell character, a    *)
(* moderate one no control character, any text no null byte.  A traversal  *)
(* sequence stays removed on moderate only, where that is the last step,   *)
(* and of each text that is not longer than the passes can shorten it.     *)
CleanedTextStaysClean ==
  Cleaned =>
    \A pair \in TextPairs(request.arguments, arguments) :
      StaysClean(pair[1], pair[2], request.level)

(* "String with all path traversal sequences removed": of strict texts     *)
(* too, whose shell characters are removed afterwards                      *)
(* (_strip_path_traversal, _sanitize_strict).                              *)
StrictTextHasNoTraversal ==
  Cleaned /\ request.level = "strict" =>
    \A text \in Texts(arguments) : StripOnce(text) = text

(* The nodes the schema speaks of, and what a node of theirs has to be.    *)
Places ==
  {p \in DOMAIN arguments :
     \A n \in 1 .. Len(p) :
       LET above == SubSeq(p, 1, n - 1)
       IN  arguments[above].kind = "object" =>
             arguments[above].keys[p[n]] \in SchemaOf(above).properties}

JsonKinds(type) == IF type = "number" THEN {"integer", "float"} ELSE {type}
Conforms(node, schema) ==
  /\ schema.type = {} \/ \E t \in schema.type : node.kind \in JsonKinds(t)
  /\ \A list \in schema.enum : Listed(node, list)
  /\ node.kind = "string" =>
       /\ \A n \in schema.minLength : n <= Len(node.text)
       /\ \A n \in schema.maxLength \cup {MaxStringLength} : Len(node.text) <= n
  /\ node.kind = "array" =>
       /\ \A n \in schema.minItems : n <= node.size
       /\ \A n \in schema.maxItems \cup {MaxArrayLength} : node.size <= n
  /\ node.kind = "object" =>
       /\ schema.required \subseteq ToSet(node.keys)
       /\ schema.closed => ToSet(node.keys) \subseteq schema.properties
Faulty(p) == Len(p) > MaxObjectDepth \/ ~ Conforms(arguments[p], SchemaOf(p))

(* A handler gets arguments that conform to the tool's schema and to the   *)
(* limits at every node the schema speaks of, after cleaning; and a call   *)
(* is refused with every fault it has: each error is at a node that is at  *)
(* fault, and each faulty node has one or lies below one that does         *)
(* (_validate_value, "does not suppress sibling" in test_validation.py).   *)
EveryFaultIsReported ==
  request.validate =>
    /\ stage = "handler" => \A p \in Places : ~ Faulty(p)
    /\ stage = "invalid" =>
         /\ errors # {}
         /\ \A e \in errors : e[1] \in Places /\ Faulty(e[1])
         /\ \A p \in Places : Faulty(p) => \E e \in errors : IsPrefix(e[1], p)
=============================================================================
