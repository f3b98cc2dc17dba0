------------------------------- MODULE MCInput -------------------------------
(***************************************************************************)
(* Small instance of what a client sends: its bytes in the stdio reader,   *)
(* and the arguments of a call on their way to the handler.  One half of   *)
(* the calls has a single text, of three fragments or up to six dots and   *)
(* separators; the other half has nested values and the schemas of several *)
(* tools.                                                                  *)
(***************************************************************************)
EXTENDS StdioReader, Arguments

Characters ==
  {".", "/", "\\", "%", "2", "5", "e", "c", "F", "ACUTE", "E_ACUTE", "NUL", "BEL", "ZWJ", "SEMICOLON", "LF",
   "a", "b", "1"}
Fragments ==
  {<<".">>, <<"/">>, <<".", ".">>, <<"%", "2", "e">>, <<"%", "2", "F">>, <<"%", "5", "c">>, <<"e">>,
   <<"ACUTE">>, <<"NUL">>, <<"BEL">>, <<"ZWJ">>, <<"SEMICOLON">>, <<"LF">>}
Words ==
  {f \o g \o h : f \in Fragments, g \in Fragments, h \in Fragments}
  \cup UNION {[1 .. n -> {".", "/", "\\"}] : n \in 0 .. 6}

(* Trees from trees: a node, and below it, at its place, each of a list.   *)
Tree(node, below) ==
  LET paths == UNION {{<<i>> \o p : p \in DOMAIN below[i]} : i \in DOMAIN below}
  IN  (<< >> :> node) @@ [p \in paths |-> below[p[1]][Tail(p)]]
Alone(node) == Tree(node, << >>)
List(below) == Tree(Array(Len(below)), below)
Record(keys, below) == Tree(Object(keys), below)

String(s) == Alone(Scalar("string", s))
One(kind) == Alone(Scalar(kind, <<"1">>))
Null == Alone(Scalar("null", << >>))

a == <<"a">>
b == <<"b">>
Odd == <<"a", "SEMICOLON">>  \* a strict name is the same as a

Scalars ==
  {String(<< >>), String(<<"a", "BEL">>), String(<<"a", "b", "e">>),
   One("integer"), One("float"), One("boolean"), Null}
Flat == {List(<< >>), List(<<One("integer"), String(<<"a", "BEL">>)>>),
         List([i \in 1 .. 3 |-> One("boolean")]),
         Record(<< >>, << >>)} \cup {Record(<<k>>, <<v>>) : k \in {a, Odd}, v \in Scalars}
Nested ==
  Scalars \cup Flat \cup {List(<<v>>) : v \in Flat} \cup {Record(<<a>>, <<v>>) : v \in Flat}
  \cup {Record(<<b>>, <<List(<<Record(<<a>>, <<v>>)>>)>>) : v \in Scalars}
Seconds == {String(<<"a">>), One("integer"), Null}
Trees ==
  {Record(<<a>>, <<v>>) : v \in Nested}
  \cup {Record(<<a, k>>, <<v, w>>) : v \in Nested, k \in {b, Odd}, w \in Seconds}

(* Schemas from schemas: a part, and what it says of a step further.       *)
Schema(part, steps, below) ==
  LET paths == UNION {{<<steps[i]>> \o p : p \in DOMAIN below[i]} : i \in DOMAIN steps}
  IN  (<< >> :> part)
      @@ [p \in paths |-> below[CHOOSE i \in DOMAIN steps : steps[i] = p[1]][Tail(p)]]
Simple(part) == Schema(part, << >>, << >>)
WithItems(part, items) == Schema(part, <<Items>>, <<items>>)
WithAB(part, first, second) ==
  Schema([part EXCEPT !.properties = {a, b}], <<Property(a), Property(b)>>, <<first, second>>)

Typed(types) == [AnySchema EXCEPT !.type = types]
Anything == Simple(AnySchema)
Leaf ==
  {Simple(Typed({t})) : t \in {"string", "integer", "number", "boolean"}}
  \cup {Simple([AnySchema EXCEPT !.enum = {{Scalar("integer", <<"1">>), Scalar("string", <<"a">>)}}]),
        Simple([Typed({"string", "null"}) EXCEPT !.minLength = {1}, !.maxLength = {1}]),
        WithItems([Typed({"array"}) EXCEPT !.minItems = {1}, !.maxItems = {1}],
                  Simple(Typed({"boolean"}))),
        WithItems(Typed({"array", "integer"}), Simple([AnySchema EXCEPT !.closed = TRUE])),
        WithAB(Typed({"object"}), Simple(Typed({"integer"})), Anything)}
Schemas ==
  {WithAB([Typed({"object"}) EXCEPT !.required = {b}, !.closed = exact], s, t) :
     s \in Leaf, t \in {Anything, Simple(Typed({"integer"}))}, exact \in BOOLEAN}

Call(given, schema, level, sanitize, validate) ==
  [arguments |-> given, schema |-> schema, level |-> level,
   sanitize |-> sanitize, validate |-> validate]
AllCalls ==
  {Call(t, s, "strict", on, TRUE) : t \in Trees, on \in BOOLEAN, s \in Schemas}
  \cup {Call(Record(<<a>>, <<String(w)>>), Anything, level, TRUE, FALSE) : w \in Words, level \in Levels}

(* The reader and a call share nothing: the reader is looked at beside one *)
(* call.                                                                   *)
NoArguments == Call(Record(<< >>, << >>), Anything, "strict", TRUE, TRUE)
MCCalls == AllCalls \cup {NoArguments}
MCInit == Init /\ CallInit
MCNext ==
  \/ CallNext /\ UNCHANGED vars
  \/ request = NoArguments /\ stage = "sanitize" /\ Next /\ UNCHANGED callVars
MCSpec == MCInit /\ [][MCNext]_<<vars, callVars>>
=============================================================================
