----------------------------- MODULE Validation -----------------------------
(***************************************************************************)
(* security/validation.py: a node against the part of a tool's schema that *)
(* speaks of it, and the configured limits.  A schema, too, is a function: *)
(* from the steps that lead to a part of it, to that part.  An optional    *)
(* number or list is a set of at most one; a bound that is no integer      *)
(* counts as absent.  An enum is taken to list scalars.                    *)
(***************************************************************************)
EXTENDS JsonTree

CONSTANTS MaxStringLength, MaxArrayLength, MaxObjectDepth  \* ValidationLimits

ASSUME LimitsAssumption == {MaxStringLength, MaxArrayLength, MaxObjectDepth} \subseteq Nat

(* The schema {}: every get has its default.                               *)
AnySchema ==
  [type |-> {}, enum |-> {}, minLength |-> {}, maxLength |-> {}, minItems |-> {}, maxItems |-> {},
   required |-> {}, properties |-> {}, closed |-> FALSE]

Items == <<"items", << >> >>
Property(key) == <<"property", key>>

ScalarNode == {node \in Node : node.kind \notin {"array", "object"}}
Part ==
  [type : SUBSET STRING, enum : SUBSET SUBSET ScalarNode,
   minLength : SUBSET Int, maxLength : SUBSET Int, minItems : SUBSET Int, maxItems : SUBSET Int,
   required : SUBSET Text, properties : SUBSET Text, closed : BOOLEAN]
IsSchema(schema) ==
  \A steps \in DOMAIN schema :
    /\ schema[steps] \in Part
    /\ \A key \in schema[steps].properties : Append(steps, Property(key)) \in DOMAIN schema

(* The part for an array's items is {} where the schema has none.          *)
SchemaAt(schema, steps) == IF steps \in DOMAIN schema THEN schema[steps] ELSE AnySchema
-----------------------------------------------------------------------------
(* _TYPE_MAP and isinstance: True and False are integers to Python.        *)
Instances(type) ==
  CASE type = "integer" -> {"integer", "boolean"}
    [] type = "number" -> {"integer", "float", "boolean"}
    [] OTHER -> {type}

(* A seeded fault: a boolean passes where an integer is asked for.         *)
HasTypeOfInstance(node, types) == node.kind \in UNION {Instances(t) : t \in types}
HasType(node, types) ==
  /\ node.kind = "boolean" => "boolean" \in types
  /\ node.kind \in UNION {Instances(t) : t \in types}

(* value in enum_values; 1 == True == 1.0.                                 *)
Numeric == {"integer", "float", "boolean"}
PyEqual(v, w) ==
  (v.kind = w.kind \/ {v.kind, w.kind} \subseteq Numeric) /\ v.text = w.text
Listed(node, list) == \E w \in list : PyEqual(node, w)

Above(n, bound) == \E limit \in bound : n > limit
Below(n, bound) == \E limit \in bound : n < limit
If(test, error) == IF test THEN {error} ELSE {}

(* An error says what is wrong, and of which key where there is one.       *)
Error(what) == <<what, << >> >>

ValidateString(node, schema) ==
  LET n == Len(node.text)
  IN  If(n > MaxStringLength, Error("length limit"))
      \cup If(Above(n, schema.maxLength), Error("maxLength"))
      \cup If(Below(n, schema.minLength), Error("minLength"))

ValidateArray(node, schema) ==
  IF node.size > MaxArrayLength THEN {Error("length limit")}
  ELSE If(Above(node.size, schema.maxItems), Error("maxItems"))
       \cup If(Below(node.size, schema.minItems), Error("minItems"))

ValidateObject(node, schema) ==
  {<<"required", key>> : key \in schema.required \ ToSet(node.keys)}
  \cup {<<"unexpected", key>> :
          key \in {k \in ToSet(node.keys) : schema.closed /\ k \notin schema.properties}}

(* _validate_value, apart from the values in this one: the errors it       *)
(* appends, and the positions it goes on to.                               *)
TypeWrong(node, schema) == schema.type # {} /\ ~ HasType(node, schema.type)
Faults(node, schema, depth) ==
  IF depth > MaxObjectDepth THEN {Error("depth")}
  ELSE IF TypeWrong(node, schema) THEN {Error("type")}
  ELSE If(\E list \in schema.enum : ~ Listed(node, list), Error("enum"))
       \cup CASE node.kind = "string" -> ValidateString(node, schema)
              [] node.kind = "array" -> ValidateArray(node, schema)
              [] node.kind = "object" -> ValidateObject(node, schema)
              [] OTHER -> {}

Descends(node, schema, depth) ==
  IF depth > MaxObjectDepth \/ TypeWrong(node, schema) THEN {}
  ELSE CASE node.kind = "array" /\ node.size <= MaxArrayLength -> 1 .. node.size
         [] node.kind = "object" -> {i \in 1 .. node.size : node.keys[i] \in schema.properties}
         [] OTHER -> {}
=============================================================================
