------------------------------ MODULE MCStartup ------------------------------
(***************************************************************************)
(* Small instance of what a server needs before it serves: its settings    *)
(* and extensions, and its signing key.  One half of the worlds varies     *)
(* where the settings come from, the other half what the extensions do;    *)
(* keys are generated up to three times beside a provisioned one.          *)
(***************************************************************************)
EXTENDS Startup, SigningKey, FiniteSets, TLC

CONSTANTS Tool, Other  \* names extensions register

Texts(variable) ==
  CASE variable \in Flags -> {"", "true", "on"}
    [] variable = "replay" -> {"0", "9", "soon"}
    [] variable = "profile" -> {"", "moderate", "permissive", "lax"}
    [] variable = "transport" -> {"http", "sse"}
    [] variable = "provider" -> {"token", "apikey"}
    [] variable = "mode" -> {"oauth"}
Values(field) ==
  CASE field \in Flags -> BOOLEAN
    [] field \in Numbers -> {0, 2}
    [] field \in {"profile", "level"} -> {"moderate", "permissive"}
    [] OTHER -> {CHOOSE v \in Admissible[field] : v \notin {"none", "stdio"}}

(* An assignment to one name, and to at most two.                          *)
Single(names, Allowed(_)) == UNION {{v :> x : x \in Allowed(v)} : v \in names}
Pairs(names, Allowed(_)) == {f @@ g : f \in Single(names, Allowed), g \in Single(names, Allowed)}

Environments == {<< >>} \cup Pairs(Variables, Texts)
FieldSets == {<< >>} \cup Single(Fields, Values)

SettingsFile(state, fields) == [state |-> state, fields |-> fields]
Nothing == SettingsFile("unset", << >>)
OnlyAt(place, file) == [p \in {Places[i] : i \in 1 .. 4} |-> IF p = place THEN file ELSE Nothing]

Try(name, overwrite) == [name |-> name, overwrite |-> overwrite]
Module(kind, loads, register) == [kind |-> kind, loads |-> loads, register |-> register]
Extensions ==
  {Module("unsafe", TRUE, <<Try(Tool, FALSE)>>),
   Module("sound", FALSE, << >>),
   Module("sound", TRUE, <<Try(Tool, FALSE), Try(Other, FALSE)>>),
   Module("sound", TRUE, <<Try(Other, FALSE), Try(Raise, FALSE), Try(Tool, FALSE)>>),
   Module("sound", TRUE, <<Try(Tool, TRUE)>>),
   Module("sound", TRUE, <<Try(Health, TRUE)>>)}
Few == {e \in Extensions : e.kind = "unsafe" \/ Len(e.register) >= 2}
Listing(spec, list) == [spec |-> spec, files |-> list]
Packages == {Listing(spec, <<e>>) : spec \in {"found", "missing", "raises"}, e \in Few}

Plain ==
  [jcs |-> TRUE, environment |-> << >>, dotenv |-> [there |-> TRUE, entries |-> << >>],
   places |-> OnlyAt("argument", Nothing), hook |-> << >>, health |-> TRUE, auto |-> TRUE,
   directories |-> <<Listing("found", << >>)>>]

Settings ==
  {[Plain EXCEPT !.environment = e, !.places = OnlyAt("argument", SettingsFile("there", f))] :
     e \in Environments, f \in FieldSets}
  \cup
  {[Plain EXCEPT !.environment = e,
                 !.dotenv = [there |-> TRUE, entries |-> <<[name |-> v, value |-> x],
                                                           [name |-> v, value |-> y]>>]] :
     e \in {<< >>, "profile" :> "", "profile" :> "moderate"}, v \in {"profile"},
     x \in Texts("profile"), y \in Texts("profile")}
  \cup
  {[Plain EXCEPT !.places = [OnlyAt("source", SettingsFile("there", "size" :> 2))
                              EXCEPT !["working"] = w, !["variable"] = v, !["argument"] = a]] :
     w \in {Nothing, SettingsFile("there", "rate" :> 2)},
     v \in {Nothing, SettingsFile("missing", << >>), SettingsFile("there", "size" :> 0)},
     a \in {Nothing, SettingsFile("broken", << >>), SettingsFile("there", "profile" :> "permissive")}}
  \cup
  {[Plain EXCEPT !.jcs = FALSE], [Plain EXCEPT !.dotenv = [there |-> FALSE, entries |-> << >>]]}

Layouts ==
  {[Plain EXCEPT !.hook = h, !.health = on, !.auto = auto,
                 !.directories = <<Listing("found", <<d, e>>)>> \o packages] :
     h \in {<< >>, <<Try(Health, FALSE)>>, <<Try(Tool, FALSE), Try(Raise, FALSE), Try(Other, FALSE)>>},
     on \in BOOLEAN, auto \in BOOLEAN, d \in Extensions, e \in Extensions,
     packages \in {<< >>} \cup {<<p, q>> : p, q \in Packages}}

AllWorlds == {Plain} \cup Settings \cup Layouts

(* The start and the key share nothing: the key is looked at in one world. *)
MCInit == Init /\ KeyInit /\ (world = Plain \/ {priv, pub} = {Absent})
MCNext ==
  \/ Next /\ UNCHANGED keyVars
  \/ world = Plain /\ phase = "start" /\ KeyNext /\ UNCHANGED vars
MCSpec == MCInit /\ [][MCNext]_<<vars, keyVars>>
=============================================================================
