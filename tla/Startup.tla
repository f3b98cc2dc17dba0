------------------------------- MODULE Startup -------------------------------
(***************************************************************************)
(* From the command line to a server that is ready: the environment and    *)
(* the configuration file, the constructor of ChassisServer with its init  *)
(* hook and health check, and the discovery of extensions.  Nothing else   *)
(* runs meanwhile, but each extension can fail at any of its registrations *)
(* and the server starts with what is there.  The registries of tools, of  *)
(* resources and of prompts are treated alike: one stands for the three.   *)
(***************************************************************************)
EXTENDS Configuration

CONSTANTS
  Worlds,  \* what the server may find when it starts
  Names,   \* what extensions register
  Health,  \* the name of the built-in health check tool
  Raise    \* stands in a list of registrations for an exception

(* An attempt to register, an extension's file, and a directory of them or *)
(* a package, with what find_spec does.                                    *)
Attempt == [name : Names \cup {Raise}, overwrite : BOOLEAN]
Extension == [kind : {"sound", "unsafe"}, loads : BOOLEAN, register : Seq(Attempt)]
Directory == [spec : {"found", "missing", "raises"}, files : Seq(Extension)]

(* A world is a record of                                                  *)
(*   jcs, the result of check_jcs_required;                                *)
(*   environment, the process's, and dotenv, with the lines of --env-file; *)
(*   places, with a configuration file's state and fields for each place;  *)
(*   hook, the registrations of the init hook as far as it gets;           *)
(*   health and auto, the settings health_check_enabled and auto_discover; *)
(*   directories, with those of the extensions package first.              *)
ASSUME WorldsAssumption ==
  /\ Health \in Names /\ Raise \notin Names
  /\ \A w \in Worlds :
       /\ w.dotenv.entries \in Seq([name : STRING, value : STRING])
       /\ w.hook \in Seq(Attempt)
       /\ w.directories \in Seq(Directory)

VARIABLES
  world,     \* what the server finds: it does not change
  phase,
  environ,   \* os.environ
  lines,     \* how many lines of --env-file are in it
  config,    \* the configuration loaded, << >> before
  registry,  \* who registered a name: the hook, the chassis, or an extension
  attempts,  \* registrations the running register() has yet to make
  entered,   \* which directory is being scanned, 0 before the first
  scanned,   \* how many of its files have been looked at
  tried      \* history: the places of the extensions loaded, in order

vars == <<world, phase, environ, lines, config, registry, attempts, entered, scanned, tried>>

(* The search order of ServerConfig.load.                                  *)
Places == <<"argument", "variable", "working", "source">>

Init ==
  /\ world \in Worlds
  /\ phase = "start"
  /\ environ = world.environment /\ lines = 0
  /\ config = << >> /\ registry = << >> /\ attempts = << >>
  /\ entered = 0 /\ scanned = 0 /\ tried = << >>

settings == <<world, environ, lines, config>>
scan == <<entered, scanned, tried>>
extending == <<registry, attempts, scan>>

Entries == world.dotenv.entries

ReadLine ==
  /\ phase = "start" /\ world.dotenv.there /\ lines < Len(Entries)
  /\ environ' = LoadLine(environ, Entries[lines + 1])
  /\ lines' = lines + 1
  /\ UNCHANGED <<world, phase, config, extending>>

(* The end of the file, or no such file; then check_jcs_required.          *)
EnvFileRead ==
  /\ phase = "start" /\ (world.dotenv.there => lines = Len(Entries))
  /\ phase' = IF world.dotenv.there /\ world.jcs THEN "configure" ELSE "failed"
  /\ UNCHANGED <<settings, extending>>

(* The file ServerConfig.load reads, none if every place is empty.         *)
Set == {i \in DOMAIN Places : world.places[Places[i]].state # "unset"}
ConfigFile ==
  IF Set = {} THEN [state |-> "there", fields |-> << >>]
  ELSE world.places[Places[CHOOSE i \in Set : \A j \in Set : i <= j]]

Load ==
  /\ phase = "configure"
  /\ LET raw == Raw(ConfigFile.fields, environ)
     IN  IF ConfigFile.state = "there" /\ Acceptable(raw)
           THEN config' = Merged(raw) /\ phase' = "construct"
           ELSE phase' = "failed" /\ UNCHANGED config
  /\ UNCHANGED <<world, environ, lines, extending>>

(* The pipeline is built, and the init hook called: what it raises is      *)
(* logged.                                                                 *)
RunInitHook ==
  /\ phase = "construct"
  /\ phase' = "hook"
  /\ attempts' = world.hook
  /\ UNCHANGED <<settings, registry, scan>>

TokenOnStdio ==
  config.auth_on /\ config.provider = "token" /\ config.transport = "stdio"

Entry(name, owner) == [n \in {name} |-> owner]
Chassis == [by |-> "chassis"]

(* A seeded fault: a hook that took the health check's name keeps it.      *)
WithHealthKept(names) ==
  IF world.health THEN Over(names, Entry(Health, Chassis)) ELSE names

WithHealth(names) ==
  IF world.health THEN Over(Entry(Health, Chassis), names) ELSE names

(* The rest of the constructor up to discovery.                            *)
Construct ==
  /\ phase = "hook" /\ attempts = << >>
  /\ IF TokenOnStdio
       THEN phase' = "failed" /\ UNCHANGED registry
       ELSE /\ phase' = IF world.auto THEN "discover" ELSE "ready"
            /\ registry' = WithHealth(registry)
  /\ UNCHANGED <<settings, attempts, scan>>
-----------------------------------------------------------------------------
Owner ==
  IF phase = "hook" THEN [by |-> "hook"]
  ELSE [by |-> "extension", directory |-> entered, file |-> scanned]

(* A seeded fault: no look for a name that is taken.                       *)
RegisterableAlways(attempt) == attempt.name # Raise

(* register_tool, register_resource, register_prompt.                      *)
Registerable(attempt) ==
  /\ attempt.name # Raise
  /\ attempt.name \in DOMAIN registry => attempt.overwrite

Register ==
  /\ attempts # << >> /\ Registerable(Head(attempts))
  /\ registry' = Over(Entry(Head(attempts).name, Owner), registry)
  /\ attempts' = Tail(attempts)
  /\ UNCHANGED <<settings, phase, scan>>

(* The exception leaves register(), what it registered before stays, and   *)
(* the rest of it is not reached.                                          *)
RegisterFails ==
  /\ attempts # << >> /\ ~ Registerable(Head(attempts))
  /\ attempts' = << >>
  /\ UNCHANGED <<settings, phase, registry, scan>>

(* __init__.py, names that are no identifiers and unsafe files are passed. *)
Eligible(file) == file.kind = "sound"
Found(directory) == directory.spec = "found"

(* The files of a directory that is there.                                 *)
FilesOf(d) == IF Found(world.directories[d]) THEN world.directories[d].files ELSE << >>
ToScan == IF entered = 0 THEN << >> ELSE FilesOf(entered)

ScanFile ==
  /\ phase = "discover" /\ attempts = << >> /\ scanned < Len(ToScan)
  /\ scanned' = scanned + 1
  /\ LET file == ToScan[scanned + 1]
     IN  IF Eligible(file)
           THEN /\ tried' = Append(tried, <<entered, scanned + 1>>)
                /\ attempts' = IF file.loads THEN file.register ELSE << >>
           ELSE UNCHANGED <<tried, attempts>>
  /\ UNCHANGED <<settings, phase, registry, entered>>

DirectoryDone == phase = "discover" /\ attempts = << >> /\ scanned = Len(ToScan)

(* A seeded fault: discovery ends at the first package that is not there.  *)
EnterDirectoryOrStop ==
  /\ DirectoryDone /\ entered < Len(world.directories)
  /\ IF Found(world.directories[entered + 1])
       THEN entered' = entered + 1 /\ scanned' = 0 /\ UNCHANGED phase
       ELSE phase' = "ready" /\ UNCHANGED <<entered, scanned>>
  /\ UNCHANGED <<settings, registry, attempts, tried>>

(* find_spec returns None for a package that is not there, but raises if   *)
(* the package above it is not there either; _discover_extensions logs     *)
(* what it catches, and that was the end of the discovery.                 *)
EnterDirectory ==
  /\ DirectoryDone /\ entered < Len(world.directories)
  /\ IF world.directories[entered + 1].spec = "raises"
       THEN phase' = "ready" /\ UNCHANGED <<entered, scanned>>
       ELSE entered' = entered + 1 /\ scanned' = 0 /\ UNCHANGED phase
  /\ UNCHANGED <<settings, registry, attempts, tried>>

Finish ==
  /\ DirectoryDone /\ entered = Len(world.directories)
  /\ phase' = "ready"
  /\ UNCHANGED <<settings, extending>>

Next ==
  \/ ReadLine \/ EnvFileRead \/ Load \/ RunInitHook \/ Construct
  \/ Register \/ RegisterFails \/ ScanFile \/ EnterDirectory \/ Finish

Spec == Init /\ [][Next]_vars
-----------------------------------------------------------------------------
(* A limiter that is on has rates to refill from: the profile permissive   *)
(* leaves them zero, and any source may turn the limiter on.  RateLimiter  *)
(* assumes it, and divides by the rate.                                    *)
LimiterCanRefill == config # << >> /\ config.rates_on => config.rate >= 1

(* A field has the value of the first source that states it: the process's *)
(* environment, the .env file, the configuration file found first, the     *)
(* profile, the code.                                                      *)
Setting(variable) == {i \in DOMAIN Entries : Entries[i].name = variable}
Text(variable) ==
  CASE variable \in DOMAIN world.environment -> world.environment[variable]
    [] variable \notin DOMAIN world.environment /\ Setting(variable) # {} ->
         Entries[CHOOSE i \in Setting(variable) : \A j \in Setting(variable) : i <= j].value
    [] OTHER -> ""
Stated(field) ==
  CASE field \in Variables /\ Overrides(field, Text(field)) -> Meaning(field, Text(field))
    [] ~ (field \in Variables /\ Overrides(field, Text(field)))
       /\ field \in DOMAIN ConfigFile.fields -> ConfigFile.fields[field]
    [] OTHER -> IF field \in DOMAIN BuiltIn THEN BuiltIn[field]
                ELSE ProfileDefaults(config.profile)[field]
SourcesInOrder == config # << >> => \A f \in Fields : config[f] = Stated(f)

(* No registration replaces or removes another, unless its author says so  *)
(* or it is the health check's own: two extensions with one tool name do   *)
(* not silently exchange handlers.                                         *)
Intended(name) ==
  \/ attempts # << >> /\ Head(attempts).name = name /\ Head(attempts).overwrite
  \/ phase = "hook" /\ name = Health
RegistrationsKept ==
  [][\A name \in DOMAIN registry :
       /\ name \in DOMAIN registry'
       /\ registry'[name] = registry[name] \/ Intended(name)]_vars

(* The init hook cannot stand in for the health check: whatever it         *)
(* registered under that name is replaced.  An extension that asks for it  *)
(* may still replace the health check in its turn.                         *)
HealthOutlastsHook ==
  phase \in {"discover", "ready"} /\ world.health =>
    Health \in DOMAIN registry /\ registry[Health].by # "hook"

(* An extension that fails costs the others nothing: when the server is    *)
(* ready, each sound file before the first package whose search raises has *)
(* been loaded, once, directory by directory and in the order of each.     *)
SoundFiles ==
  UNION {{<<d, f>> : f \in {f \in DOMAIN FilesOf(d) : Eligible(FilesOf(d)[f])}} :
           d \in DOMAIN world.directories}
Reached(d) == \A e \in 1 .. d : world.directories[e].spec # "raises"
Loaded == {tried[i] : i \in DOMAIN tried}
Before(p, q) == p[1] < q[1] \/ (p[1] = q[1] /\ p[2] < q[2])
InOrder == \A i, j \in DOMAIN tried : i < j => Before(tried[i], tried[j])
EveryExtensionIsTried ==
  phase = "ready" /\ world.auto => Loaded = {p \in SoundFiles : Reached(p[1])} /\ InOrder

(* "discovery_packages entry not found, skipping" (discover_extensions): a *)
(* package that is not there costs the packages after it nothing.          *)
MissingPackageSkipsOnlyItself == phase = "ready" /\ world.auto => Loaded = SoundFiles
=============================================================================
