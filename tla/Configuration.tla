---------------------------- MODULE Configuration ----------------------------
(***************************************************************************)
(* config.py and security/profiles.py: how a .env file, the environment, a *)
(* TOML file and a named profile make one validated configuration.  Fields *)
(* that are treated alike stand for each other: rate for the three limits  *)
(* of the limiter, size for those on sizes, lengths and depth.             *)
(***************************************************************************)
EXTENDS Integers, Sequences

Profiles == {"strict", "moderate", "permissive"}
Admissible ==
  [profile |-> Profiles, level |-> Profiles, transport |-> {"stdio", "http"},
   provider |-> {"none", "token", "apikey", "oauth"}, mode |-> {"none", "apikey", "oauth"}]
Flags == {"rates_on", "auth_on", "detailed"}
Numbers == {"rate", "size", "replay"}
Fields == DOMAIN Admissible \cup Flags \cup Numbers

(* The values of one function, and where it has none those of another: @@  *)
(* of module TLC, spelled out.                                             *)
Over(upper, lower) ==
  [x \in DOMAIN upper \cup DOMAIN lower |->
     IF x \in DOMAIN upper THEN upper[x] ELSE lower[x]]

(* PROFILES; limits are large, larger, or off.                             *)
ProfileDefaults(profile) ==
  [rates_on |-> profile # "permissive",
   rate |-> CASE profile = "strict" -> 1 [] profile = "moderate" -> 2 [] OTHER -> 0,
   size |-> CASE profile = "strict" -> 1 [] profile = "moderate" -> 2 [] OTHER -> 3,
   level |-> profile,
   auth_on |-> FALSE,
   provider |-> "none",
   detailed |-> profile # "strict"]

(* The second arguments of get in _build_config.                           *)
BuiltIn ==
  [profile |-> "strict", transport |-> "stdio", mode |-> "none", replay |-> 5]
-----------------------------------------------------------------------------
(* _load_env_file, one line of it: a variable that is there already, even  *)
(* empty, is left alone, so that the first line that sets it wins.         *)
LoadLine(environment, line) ==
  Over(environment, [name \in {line.name} |-> line.value])

(* The variables _apply_env_overrides knows: one per field.                *)
Variables == {"profile", "transport", "provider", "mode"} \cup Flags \cup {"replay"}

(* What a variable's text overrides its field by.  An empty variable and a *)
(* window that is no number override nothing; a flag is off unless its     *)
(* text says that it is on.                                                *)
Overrides(name, text) ==
  /\ text # ""
  /\ name = "replay" => text \in {"0", "9"}
Meaning(name, text) ==
  CASE name \in Flags -> text = "true"
    [] name = "replay" -> (IF text = "0" THEN 0 ELSE 9)
    [] OTHER -> text
EnvOverrides(environment) ==
  LET set == {v \in Variables \cap DOMAIN environment : Overrides(v, environment[v])}
  IN  [v \in set |-> Meaning(v, environment[v])]

Raw(file, environment) == Over(EnvOverrides(environment), file)
-----------------------------------------------------------------------------
(* A seeded fault: the profile's own section outweighs the raw one.        *)
MergedProfileFirst(raw) ==
  LET named == Over(raw, BuiltIn)
  IN  Over(ProfileDefaults(named.profile), named)

(* _build_security_config: the profile is named first; then explicit       *)
(* values go over its defaults.                                            *)
Merged(raw) ==
  LET named == Over(raw, BuiltIn)
  IN  Over(named, ProfileDefaults(named.profile))

(* A seeded fault: rates are checked if the profile enables the limiter.   *)
PositiveByProfile(config) ==
  /\ ProfileDefaults(config.profile).rates_on => config.rate >= 1
  /\ config.size >= 1

(* _check_positive, of the rates only if the limiter is on.                *)
Positive(config) ==
  /\ config.rates_on => config.rate >= 1
  /\ config.size >= 1

ValidChoices(config) == \A f \in DOMAIN Admissible : config[f] \in Admissible[f]

(* A profile that is not known is refused before its defaults are sought.  *)
Acceptable(raw) ==
  /\ Over(raw, BuiltIn).profile \in Profiles
  /\ ValidChoices(Merged(raw))
  /\ Positive(Merged(raw))
=============================================================================
