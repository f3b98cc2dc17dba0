---------------------------- MODULE StartupProofs ----------------------------
(***************************************************************************)
(* Proofs about what a server makes of what it finds on disk when it       *)
(* starts: of its settings and extensions, for every world the assumption  *)
(* admits, and of its signing key pair, for any set of keys.  The start    *)
(* and the key pair share no variable; their proofs share this module.     *)
(***************************************************************************)
EXTENDS Startup, SigningKey, TLAPS

Phases ==
  {"start", "configure", "construct", "hook", "discover", "ready", "failed"}

WellFormed ==
  /\ world \in Worlds
  /\ phase \in Phases
  /\ lines \in 0 .. Len(Entries)
  /\ attempts \in Seq(Attempt)
  /\ entered \in 0 .. Len(world.directories)
  /\ scanned \in 0 .. Len(ToScan)
  /\ tried \in Seq(Nat \X Nat)

(* The lines of --env-file read so far are in the environment, the first   *)
(* of two that set one name.                                               *)
FirstSets(i, v) == Entries[i].name = v /\ \A j \in 1 .. i - 1 : Entries[j].name # v
EnvironInv ==
  /\ DOMAIN environ = DOMAIN world.environment \cup {Entries[i].name : i \in 1 .. lines}
  /\ \A v \in DOMAIN world.environment : environ[v] = world.environment[v]
  /\ \A v \in DOMAIN environ \ DOMAIN world.environment :
       \E i \in 1 .. lines : FirstSets(i, v) /\ environ[v] = Entries[i].value

(* The configuration is what Load made of the file found first and of the  *)
(* whole environment.                                                      *)
ConfigInv ==
  /\ phase \in {"start", "configure"} => config = << >>
  /\ phase = "configure" \/ config # << >> => lines = Len(Entries)
  /\ config # << >> =>
       LET raw == Raw(ConfigFile.fields, environ)
       IN  Acceptable(raw) /\ config = Merged(raw)

(* The scan is a pass over the places of files, and what it has passed and *)
(* nothing else has been loaded.                                           *)
Passed(p) == p[1] < entered \/ (p[1] = entered /\ p[2] <= scanned)
ScanInv ==
  /\ phase \in {"start", "configure", "construct", "hook"} => entered = 0 /\ scanned = 0
  /\ Loaded = {p \in SoundFiles : Passed(p)}
  /\ InOrder
  /\ Reached(entered)
  /\ phase = "ready" /\ world.auto =>
       /\ scanned = Len(ToScan)
       /\ entered < Len(world.directories) =>
            world.directories[entered + 1].spec = "raises"
-----------------------------------------------------------------------------
(* What a world holds.                                                     *)
LEMMA WorldTyped ==
  ASSUME WellFormed
  PROVE  /\ Entries \in Seq([name : STRING, value : STRING])
         /\ Len(Entries) \in Nat
         /\ world.hook \in Seq(Attempt)
         /\ world.directories \in Seq(Directory)
         /\ Len(world.directories) \in Nat
         /\ \A d \in 1 .. Len(world.directories) :
              FilesOf(d) \in Seq(Extension) /\ Len(FilesOf(d)) \in Nat
         /\ ToScan \in Seq(Extension) /\ Len(ToScan) \in Nat
<1>1. /\ Entries \in Seq([name : STRING, value : STRING])
      /\ world.hook \in Seq(Attempt)
      /\ world.directories \in Seq(Directory)
  BY WorldsAssumption DEF WellFormed, Entries
<1>2. Len(Entries) \in Nat /\ Len(world.directories) \in Nat
  BY <1>1
<1>3. ASSUME NEW d \in 1 .. Len(world.directories)
      PROVE  FilesOf(d) \in Seq(Extension) /\ Len(FilesOf(d)) \in Nat
  <2>1. world.directories[d] \in Directory
    BY <1>1, <1>2
  <2>2. FilesOf(d) \in Seq(Extension)
    BY <2>1 DEF FilesOf, Directory
  <2> QED
    BY <2>2
<1>4. ToScan \in Seq(Extension)
  BY <1>2, <1>3 DEF ToScan, WellFormed
<1>5. Len(ToScan) \in Nat
  BY <1>4
<1> QED
  BY <1>1, <1>2, <1>3, <1>4, <1>5

(* The places of sound files.                                              *)
LEMMA SoundPlaces ==
  ASSUME WellFormed
  PROVE  /\ \A p \in SoundFiles :
              /\ p = <<p[1], p[2]>>
              /\ p[1] \in 1 .. Len(world.directories)
              /\ p[2] \in 1 .. Len(FilesOf(p[1]))
              /\ Eligible(FilesOf(p[1])[p[2]])
         /\ \A d \in 1 .. Len(world.directories) : \A f \in 1 .. Len(FilesOf(d)) :
              Eligible(FilesOf(d)[f]) => <<d, f>> \in SoundFiles
<1>1. DOMAIN world.directories = 1 .. Len(world.directories)
  BY WorldTyped
<1>2. \A d \in 1 .. Len(world.directories) : DOMAIN FilesOf(d) = 1 .. Len(FilesOf(d))
  BY WorldTyped
<1>3. ASSUME NEW p \in SoundFiles
      PROVE  /\ p = <<p[1], p[2]>>
             /\ p[1] \in 1 .. Len(world.directories)
             /\ p[2] \in 1 .. Len(FilesOf(p[1]))
             /\ Eligible(FilesOf(p[1])[p[2]])
  <2>1. PICK d \in 1 .. Len(world.directories) :
          \E f \in 1 .. Len(FilesOf(d)) : p = <<d, f>> /\ Eligible(FilesOf(d)[f])
    BY <1>1, <1>2 DEF SoundFiles
  <2>2. PICK f \in 1 .. Len(FilesOf(d)) : p = <<d, f>> /\ Eligible(FilesOf(d)[f])
    BY <2>1
  <2>3. p[1] = d /\ p[2] = f
    BY <2>2
  <2> QED
    BY <2>2, <2>3
<1>4. ASSUME NEW d \in 1 .. Len(world.directories), NEW f \in 1 .. Len(FilesOf(d)),
             Eligible(FilesOf(d)[f])
      PROVE  <<d, f>> \in SoundFiles
  BY <1>1, <1>2, <1>4 DEF SoundFiles
<1> QED
  BY <1>3, <1>4
-----------------------------------------------------------------------------
(* What a list that grows by one holds.                                    *)
LEMMA AppendTyped ==
  ASSUME NEW S, NEW s \in Seq(S), NEW x \in S
  PROVE  Append(s, x) \in Seq(S)
  OBVIOUS

LEMMA TypedInit == Init => WellFormed
  BY WorldsAssumption DEF Init, WellFormed, Phases, Entries, ToScan

LEMMA TypedStep == WellFormed /\ [Next]_vars => WellFormed'
<1> SUFFICES ASSUME WellFormed, [Next]_vars PROVE WellFormed'
  OBVIOUS
<1>w. /\ Len(Entries) \in Nat /\ world.hook \in Seq(Attempt)
      /\ Len(world.directories) \in Nat
      /\ ToScan \in Seq(Extension) /\ Len(ToScan) \in Nat
  BY WorldTyped
<1> USE DEF WellFormed, Phases, Entries, ToScan, FilesOf, settings, scan, extending
<1>1. CASE ReadLine
  BY <1>1, <1>w DEF ReadLine
<1>2. CASE EnvFileRead
  BY <1>2 DEF EnvFileRead
<1>3. CASE Load
  BY <1>3 DEF Load
<1>4. CASE RunInitHook
  BY <1>4, <1>w DEF RunInitHook
<1>5. CASE Construct
  BY <1>5 DEF Construct
<1>6. CASE Register
  BY <1>6 DEF Register
<1>7. CASE RegisterFails
  BY <1>7 DEF RegisterFails
<1>8. CASE ScanFile
  <2>1. ToScan[scanned + 1] \in Extension
    BY <1>8, <1>w DEF ScanFile
  <2>2. attempts' \in Seq(Attempt)
    BY <1>8, <2>1 DEF ScanFile, Extension
  <2>3. tried' \in Seq(Nat \X Nat)
    <3>1. <<entered, scanned + 1>> \in Nat \X Nat
      BY <1>w
    <3>2. tried' \in {tried, Append(tried, <<entered, scanned + 1>>)}
      BY <1>8 DEF ScanFile
    <3> QED
      BY <3>1, <3>2, AppendTyped DEF WellFormed
  <2> QED
    BY <1>8, <1>w, <2>2, <2>3 DEF ScanFile
<1>9. CASE EnterDirectory
  <2>1. CASE world.directories[entered + 1].spec = "raises"
    BY <1>9, <2>1 DEF EnterDirectory, DirectoryDone
  <2>2. CASE world.directories[entered + 1].spec # "raises"
    <3>1. entered' \in 1 .. Len(world.directories) /\ UNCHANGED world
      BY <1>9, <2>2, <1>w DEF EnterDirectory, DirectoryDone
    <3>2. Len(ToScan') \in Nat
      BY <3>1, WorldTyped
    <3> QED
      BY <1>9, <2>2, <3>1, <3>2 DEF EnterDirectory, DirectoryDone
  <2> QED
    BY <2>1, <2>2
<1>10. CASE Finish
  BY <1>10 DEF Finish
<1>11. CASE UNCHANGED vars
  BY <1>11 DEF vars
<1> QED
  BY <1>1, <1>2, <1>3, <1>4, <1>5, <1>6, <1>7, <1>8, <1>9, <1>10, <1>11 DEF Next

-----------------------------------------------------------------------------
(* The values of one function over another's.                              *)
LEMMA OverValues ==
  ASSUME NEW f, NEW g
  PROVE  /\ DOMAIN Over(f, g) = DOMAIN f \cup DOMAIN g
         /\ \A x \in DOMAIN f : Over(f, g)[x] = f[x]
         /\ \A x \in DOMAIN g \ DOMAIN f : Over(f, g)[x] = g[x]
  BY DEF Over

LEMMA EnvironInit == Init => EnvironInv
  BY DEF Init, EnvironInv

LEMMA EnvironStep == WellFormed /\ EnvironInv /\ [Next]_vars => EnvironInv'
<1> SUFFICES ASSUME WellFormed, EnvironInv, [Next]_vars PROVE EnvironInv'
  OBVIOUS
<1>1. CASE ReadLine
  <2> DEFINE line == Entries[lines + 1]
             new == [name \in {line.name} |-> line.value]
  <2>1. /\ lines \in Nat /\ lines + 1 \in 1 .. Len(Entries) /\ lines' = lines + 1
        /\ environ' = Over(environ, new) /\ UNCHANGED world /\ Entries' = Entries
    BY <1>1, WorldTyped DEF ReadLine, LoadLine, WellFormed, Entries
  <2>2. DOMAIN new = {line.name} /\ new[line.name] = line.value
    OBVIOUS
  <2> HIDE DEF new
  <2>3. /\ DOMAIN environ' = DOMAIN environ \cup {line.name}
        /\ \A v \in DOMAIN environ : environ'[v] = environ[v]
        /\ line.name \notin DOMAIN environ => environ'[line.name] = line.value
    <3>1. /\ DOMAIN Over(environ, new) = DOMAIN environ \cup DOMAIN new
          /\ \A v \in DOMAIN environ : Over(environ, new)[v] = environ[v]
          /\ \A v \in DOMAIN new \ DOMAIN environ : Over(environ, new)[v] = new[v]
      BY OverValues
    <3> QED
      BY <2>1, <2>2, <3>1
  <2>4. {Entries[i].name : i \in 1 .. lines + 1} =
          {Entries[i].name : i \in 1 .. lines} \cup {line.name}
    BY <2>1
  <2>5. DOMAIN environ' = DOMAIN world.environment' \cup {Entries'[i].name : i \in 1 .. lines'}
    BY <2>1, <2>3, <2>4 DEF EnvironInv
  <2>6. \A v \in DOMAIN world.environment' : environ'[v] = world.environment'[v]
    BY <2>1, <2>3 DEF EnvironInv
  <2>7. ASSUME NEW v \in DOMAIN environ' \ DOMAIN world.environment'
        PROVE  \E i \in 1 .. lines' : FirstSets(i, v)' /\ environ'[v] = Entries'[i].value
    <3>1. CASE v \in DOMAIN environ
      BY <2>1, <2>3, <2>7, <3>1 DEF EnvironInv, FirstSets
    <3>2. CASE v \notin DOMAIN environ
      <4>1. v = line.name /\ environ'[v] = line.value
        BY <2>3, <2>7, <3>2
      <4>2. \A j \in 1 .. lines : Entries[j].name # v
        BY <3>2 DEF EnvironInv
      <4>3. PICK i \in 1 .. lines' : i = lines + 1 /\ 1 .. i - 1 = 1 .. lines
        BY <2>1
      <4>4. Entries'[i] = line
        BY <2>1, <4>3
      <4> HIDE DEF line
      <4>5. FirstSets(i, v)'
        BY <2>1, <4>1, <4>2, <4>3, <4>4 DEF FirstSets
      <4> QED
        BY <4>1, <4>3, <4>4, <4>5
    <3> QED
      BY <3>1, <3>2
  <2> QED
    BY <2>5, <2>6, <2>7 DEF EnvironInv
<1>2. CASE UNCHANGED <<world, environ, lines>>
  BY <1>2 DEF EnvironInv, FirstSets, Entries
<1> QED
  BY <1>1, <1>2 DEF Next, EnvFileRead, Load, RunInitHook, Construct, Register, RegisterFails,
     ScanFile, EnterDirectory, Finish, settings, vars
-----------------------------------------------------------------------------
LEMMA ConfigInit == Init => ConfigInv
  BY DEF Init, ConfigInv

LEMMA ConfigStep == WellFormed /\ ConfigInv /\ [Next]_vars => ConfigInv'
<1> SUFFICES ASSUME WellFormed, ConfigInv, [Next]_vars PROVE ConfigInv'
  OBVIOUS
<1> USE DEF ConfigInv, Entries, ConfigFile, Set
<1>1. CASE ReadLine
  BY <1>1 DEF ReadLine, extending
<1>2. CASE EnvFileRead
  BY <1>2 DEF EnvFileRead, settings, extending
<1>3. CASE Load
  BY <1>3 DEF Load, extending
<1>4. CASE UNCHANGED settings /\ phase' \notin {"start", "configure"}
  BY <1>4 DEF settings
<1>5. CASE UNCHANGED <<settings, phase>>
  BY <1>5 DEF settings
<1> QED
  BY <1>1, <1>2, <1>3, <1>4, <1>5 DEF Next, RunInitHook, Construct, Register, RegisterFails,
     ScanFile, EnterDirectory, Finish, DirectoryDone, settings, vars

(* What Merged makes of two sources: a field has the value of the first    *)
(* that states it, and then of the profile chosen.                         *)
LEMMA MergedValues ==
  ASSUME NEW raw, NEW field
  PROVE  /\ field \in DOMAIN raw => Merged(raw)[field] = raw[field]
         /\ field \in DOMAIN BuiltIn \ DOMAIN raw => Merged(raw)[field] = BuiltIn[field]
         /\ field \in DOMAIN ProfileDefaults(Merged(raw).profile)
                        \ (DOMAIN raw \cup DOMAIN BuiltIn) =>
              Merged(raw)[field] = ProfileDefaults(Merged(raw).profile)[field]
<1> DEFINE named == Over(raw, BuiltIn)
<1>1. Merged(raw) = Over(named, ProfileDefaults(named.profile))
  BY DEF Merged
<1>2. /\ DOMAIN named = DOMAIN raw \cup DOMAIN BuiltIn
      /\ \A x \in DOMAIN raw : named[x] = raw[x]
      /\ \A x \in DOMAIN BuiltIn \ DOMAIN raw : named[x] = BuiltIn[x]
  BY OverValues
<1> DEFINE defaults == ProfileDefaults(named.profile)
<1> HIDE DEF named, defaults
<1>o. /\ \A x \in DOMAIN named : Over(named, defaults)[x] = named[x]
      /\ \A x \in DOMAIN defaults \ DOMAIN named : Over(named, defaults)[x] = defaults[x]
  BY OverValues
<1> USE DEF defaults
<1>3. \A x \in DOMAIN named : Merged(raw)[x] = named[x]
  BY <1>1, <1>o
<1>4. Merged(raw)["profile"] = named["profile"]
  BY <1>2, <1>3 DEF BuiltIn
<1>5. \A x \in DOMAIN ProfileDefaults(named.profile) \ DOMAIN named :
        Merged(raw)[x] = ProfileDefaults(named.profile)[x]
  BY <1>1, <1>o
<1> QED
  BY <1>2, <1>3, <1>4, <1>5 DEF BuiltIn

(* With the whole of --env-file in it, the environment says what the       *)
(* first line that sets a name says, and the process's own before that.    *)
LEMMA WholeEnvironment ==
  ASSUME WellFormed, EnvironInv, lines = Len(Entries), NEW v
  PROVE  Text(v) = IF v \in DOMAIN environ THEN environ[v] ELSE ""
<1>1. DOMAIN Entries = 1 .. Len(Entries) /\ Len(Entries) \in Nat
  BY WorldTyped
<1>2. CASE v \in DOMAIN world.environment
  BY <1>2 DEF Text, EnvironInv
<1>3. CASE v \in DOMAIN environ \ DOMAIN world.environment
  <2>1. PICK i \in 1 .. Len(Entries) : FirstSets(i, v) /\ environ[v] = Entries[i].value
    BY <1>3 DEF EnvironInv
  <2>2. i \in Setting(v) /\ \A j \in Setting(v) : i <= j
    BY <1>1, <2>1 DEF Setting, FirstSets
  <2>3. \A k \in Setting(v) : (\A j \in Setting(v) : k <= j) => k = i
    BY <1>1, <2>2 DEF Setting
  <2>4. (CHOOSE k \in Setting(v) : \A j \in Setting(v) : k <= j) = i
    BY <2>2, <2>3
  <2> QED
    BY <1>3, <2>1, <2>2, <2>4 DEF Text
<1>4. CASE v \notin DOMAIN environ
  <2>1. v \notin DOMAIN world.environment /\ Setting(v) = {}
    BY <1>1, <1>4 DEF EnvironInv, Setting
  <2> QED
    BY <1>4, <2>1 DEF Text
<1> QED
  BY <1>2, <1>3, <1>4 DEF EnvironInv

LEMMA SourcesFollow == WellFormed /\ EnvironInv /\ ConfigInv => SourcesInOrder
<1> SUFFICES ASSUME WellFormed, EnvironInv, ConfigInv, config # << >>, NEW f \in Fields
             PROVE  config[f] = Stated(f)
  BY DEF SourcesInOrder
<1> DEFINE fields == ConfigFile.fields
           raw == Raw(fields, environ)
           overrides == f \in Variables /\ Overrides(f, Text(f))
<1>1. config = Merged(raw) /\ lines = Len(Entries)
  BY DEF ConfigInv
<1>2. Text(f) = IF f \in DOMAIN environ THEN environ[f] ELSE ""
  BY <1>1, WholeEnvironment
<1>3. /\ f \in DOMAIN EnvOverrides(environ) <=> overrides
      /\ overrides => EnvOverrides(environ)[f] = Meaning(f, Text(f))
  BY <1>2 DEF EnvOverrides, Overrides
<1>4. /\ DOMAIN raw = DOMAIN EnvOverrides(environ) \cup DOMAIN fields
      /\ \A x \in DOMAIN EnvOverrides(environ) : raw[x] = EnvOverrides(environ)[x]
      /\ \A x \in DOMAIN fields \ DOMAIN EnvOverrides(environ) : raw[x] = fields[x]
  BY OverValues DEF Raw
<1> HIDE DEF raw, fields, overrides
<1>5. CASE overrides
  <2>1. config[f] = raw[f] /\ raw[f] = Meaning(f, Text(f))
    BY <1>1, <1>3, <1>4, <1>5, MergedValues
  <2> QED
    BY <1>5, <2>1 DEF Stated, overrides
<1>6. CASE ~ overrides /\ f \in DOMAIN fields
  <2>1. config[f] = raw[f] /\ raw[f] = fields[f]
    BY <1>1, <1>3, <1>4, <1>6, MergedValues
  <2> QED
    BY <1>6, <2>1 DEF Stated, overrides, fields
<1>7. CASE ~ overrides /\ f \notin DOMAIN fields
  <2>1. f \notin DOMAIN raw
    BY <1>3, <1>4, <1>7
  <2>2. f \in DOMAIN BuiltIn \/ f \in DOMAIN ProfileDefaults(config.profile) \ DOMAIN BuiltIn
    BY DEF Fields, Admissible, Flags, Numbers, BuiltIn, ProfileDefaults
  <2>3. config[f] = IF f \in DOMAIN BuiltIn THEN BuiltIn[f]
                    ELSE ProfileDefaults(config.profile)[f]
    BY <1>1, <2>1, <2>2, MergedValues
  <2> QED
    BY <1>7, <2>3 DEF Stated, overrides, fields
<1> QED
  BY <1>5, <1>6, <1>7

LEMMA RatesFollow == ConfigInv => LimiterCanRefill
  BY DEF ConfigInv, LimiterCanRefill, Acceptable, Positive
-----------------------------------------------------------------------------
(* Discovery takes places one after another, and every step but its own    *)
(* leaves it where it is.                                                  *)
LEMMA ScanInit == Init => ScanInv
<1> SUFFICES ASSUME Init PROVE ScanInv
  OBVIOUS
<1>1. entered = 0 /\ scanned = 0 /\ tried = << >> /\ phase = "start"
  BY DEF Init
<1>2. \A p \in SoundFiles : ~ Passed(p)
  BY <1>1, TypedInit, SoundPlaces DEF Passed
<1> QED
  BY <1>1, <1>2 DEF ScanInv, Loaded, InOrder, Reached

(* One more file is looked at: its place is the one passed next.           *)
LEMMA ScanFileStep ==
  ASSUME WellFormed, WellFormed', ScanInv, ScanFile
  PROVE  ScanInv'
<1> DEFINE here == <<entered, scanned + 1>>
           sound == Eligible(ToScan[scanned + 1])
<1>1. /\ Len(ToScan) \in Nat /\ Len(world.directories) \in Nat
      /\ scanned \in Nat /\ scanned < Len(ToScan)
      /\ phase = "discover" /\ phase' = phase /\ world' = world
      /\ entered' = entered /\ scanned' = scanned + 1
  BY WorldTyped DEF ScanFile, settings, WellFormed
<1>2. /\ entered \in 1 .. Len(world.directories)
      /\ ToScan = FilesOf(entered)
  BY <1>1 DEF ToScan, WellFormed
<1>3. SoundFiles' = SoundFiles
  BY <1>1 DEF SoundFiles, FilesOf
<1>4. tried' = IF sound THEN Append(tried, here) ELSE tried
  BY DEF ScanFile
<1>5. sound <=> here \in SoundFiles
  <2>1. sound => here \in SoundFiles
    BY <1>1, <1>2, SoundPlaces
  <2>2. here[1] = entered /\ here[2] = scanned + 1
    OBVIOUS
  <2>3. here \in SoundFiles => sound
    BY <1>2, <2>2, SoundPlaces
  <2> QED
    BY <2>1, <2>3
<1>6. \A p \in SoundFiles : Passed(p)' <=> Passed(p) \/ p = here
  <2> TAKE p \in SoundFiles
  <2>1. /\ p = <<p[1], p[2]>> /\ p[1] \in Nat /\ p[2] \in Nat
        /\ here[1] = entered /\ here[2] = scanned + 1
    BY <1>2, SoundPlaces, WorldTyped
  <2>2. p = here <=> p[1] = entered /\ p[2] = scanned + 1
    BY <2>1
  <2> QED
    BY <1>1, <1>2, <2>1, <2>2 DEF Passed
<1>7. Loaded' = IF sound THEN Loaded \cup {here} ELSE Loaded
  <2>1. tried \in Seq(Nat \X Nat) /\ here \in Nat \X Nat
    BY <1>1, <1>2 DEF WellFormed
  <2> HIDE DEF here
  <2>2. /\ Len(Append(tried, here)) = Len(tried) + 1
        /\ \A i \in 1 .. Len(tried) : Append(tried, here)[i] = tried[i]
        /\ Append(tried, here)[Len(tried) + 1] = here
        /\ DOMAIN tried = 1 .. Len(tried)
        /\ DOMAIN Append(tried, here) = 1 .. Len(tried) + 1
        /\ Len(tried) \in Nat
    BY <2>1
  <2> QED
    BY <1>4, <2>2 DEF Loaded
<1>8. Loaded' = {p \in SoundFiles' : Passed(p)'}
  BY <1>3, <1>5, <1>6, <1>7 DEF ScanInv
<1>9. InOrder'
  <2>1. tried \in Seq(Nat \X Nat) /\ here \in Nat \X Nat
    BY <1>1, <1>2 DEF WellFormed
  <2>2. \A i \in DOMAIN tried : Before(tried[i], here)
    <3> TAKE i \in DOMAIN tried
    <3>1. tried[i] \in SoundFiles /\ Passed(tried[i])
      BY DEF ScanInv, Loaded
    <3>2. here[1] = entered /\ here[2] = scanned + 1
      OBVIOUS
    <3>3. tried[i][1] \in Nat /\ tried[i][2] \in Nat
      BY <3>1, SoundPlaces, WorldTyped
    <3> QED
      BY <1>1, <1>2, <3>1, <3>2, <3>3 DEF Before, Passed
  <2> HIDE DEF here
  <2>3. /\ \A i \in 1 .. Len(tried) : Append(tried, here)[i] = tried[i]
        /\ Append(tried, here)[Len(tried) + 1] = here
        /\ DOMAIN tried = 1 .. Len(tried)
        /\ DOMAIN Append(tried, here) = 1 .. Len(tried) + 1
        /\ Len(tried) \in Nat
    BY <2>1
  <2>4. ASSUME NEW i \in 1 .. Len(tried) + 1, NEW j \in 1 .. Len(tried) + 1, i < j
        PROVE  Before(Append(tried, here)[i], Append(tried, here)[j])
    <3>1. i \in 1 .. Len(tried)
      BY <2>3, <2>4
    <3>2. CASE j \in 1 .. Len(tried)
      BY <2>3, <2>4, <3>1, <3>2 DEF ScanInv, InOrder
    <3>3. CASE j = Len(tried) + 1
      BY <2>2, <2>3, <3>1, <3>3
    <3> QED
      BY <2>3, <3>2, <3>3
  <2>5. CASE sound
    BY <1>4, <2>3, <2>4, <2>5 DEF InOrder, Before
  <2>6. CASE ~ sound
    BY <1>4, <2>6 DEF ScanInv, InOrder, Before
  <2> QED
    BY <2>5, <2>6
<1> QED
  BY <1>1, <1>8, <1>9 DEF ScanInv, Reached

(* The next directory is entered when the files of this one are passed.    *)
LEMMA EnterDirectoryStep ==
  ASSUME WellFormed, WellFormed', ScanInv, EnterDirectory
  PROVE  ScanInv'
<1>1. /\ Len(ToScan) \in Nat /\ Len(world.directories) \in Nat
      /\ entered \in Nat /\ entered < Len(world.directories) /\ scanned = Len(ToScan)
      /\ phase = "discover" /\ world' = world /\ tried' = tried
  BY WorldTyped DEF EnterDirectory, DirectoryDone, settings, WellFormed
<1>2. SoundFiles' = SoundFiles /\ Loaded' = Loaded /\ InOrder' = InOrder
  BY <1>1 DEF SoundFiles, FilesOf, Loaded, InOrder, Before
<1>3. CASE world.directories[entered + 1].spec = "raises"
  <2>1. UNCHANGED <<entered, scanned>> /\ phase' = "ready"
    BY <1>3 DEF EnterDirectory
  <2> QED
    BY <1>1, <1>2, <1>3, <2>1 DEF ScanInv, Passed, Reached, ToScan, FilesOf
<1>4. CASE world.directories[entered + 1].spec # "raises"
  <2>1. entered' = entered + 1 /\ scanned' = 0 /\ phase' = phase
    BY <1>4 DEF EnterDirectory
  <2>2. Reached(entered)'
    BY <1>1, <1>4, <2>1 DEF ScanInv, Reached
  <2>3. \A p \in SoundFiles : Passed(p)' <=> Passed(p)
    <3> TAKE p \in SoundFiles
    <3>1. /\ p[1] \in 1 .. Len(world.directories)
          /\ Len(FilesOf(p[1])) \in Nat
          /\ p[2] \in 1 .. Len(FilesOf(p[1]))
      BY SoundPlaces, WorldTyped
    <3>2. p[1] = entered => p[2] <= scanned
      BY <1>1, <3>1 DEF ToScan
    <3> QED
      BY <1>1, <2>1, <3>1, <3>2 DEF Passed
  <2> QED
    BY <1>1, <1>2, <2>1, <2>2, <2>3 DEF ScanInv
<1> QED
  BY <1>3, <1>4

LEMMA ScanStep == WellFormed /\ WellFormed' /\ ScanInv /\ [Next]_vars => ScanInv'
<1> SUFFICES ASSUME WellFormed, WellFormed', ScanInv, [Next]_vars PROVE ScanInv'
  OBVIOUS
<1>1. CASE ScanFile
  BY <1>1, ScanFileStep
<1>2. CASE EnterDirectory
  BY <1>2, EnterDirectoryStep
<1>3. CASE /\ UNCHANGED <<world, scan>>
           /\ \/ phase' = phase
              \/ phase \in {"start", "configure", "construct"} /\ phase' # "ready"
  BY <1>3 DEF ScanInv, Loaded, InOrder, Before, Passed, SoundFiles, FilesOf, Reached, ToScan, scan
<1>4. CASE Construct
  BY <1>4 DEF Construct, ScanInv, Loaded, InOrder, Before, Passed, SoundFiles, FilesOf, Reached,
     ToScan, scan, settings
<1>5. CASE Finish
  <2>1. entered = Len(world.directories) /\ Len(world.directories) \in Nat
    BY <1>5, WorldTyped DEF Finish
  <2> QED
    BY <1>5, <2>1 DEF Finish, DirectoryDone, ScanInv, Loaded, InOrder, Before, Passed, SoundFiles,
       FilesOf, Reached, ToScan, scan, extending, settings
<1> QED
  BY <1>1, <1>2, <1>3, <1>4, <1>5 DEF Next, ReadLine, EnvFileRead, Load, RunInitHook, Register,
     RegisterFails, scan, extending, settings, vars

LEMMA ScanFollows == WellFormed /\ ScanInv => EveryExtensionIsTried
<1> SUFFICES ASSUME WellFormed, ScanInv, phase = "ready", world.auto
             PROVE  Loaded = {p \in SoundFiles : Reached(p[1])}
  BY DEF EveryExtensionIsTried, ScanInv
<1>1. /\ Len(world.directories) \in Nat /\ entered \in 0 .. Len(world.directories)
      /\ scanned = Len(ToScan)
      /\ entered < Len(world.directories) => world.directories[entered + 1].spec = "raises"
      /\ Reached(entered)
  BY WorldTyped DEF ScanInv, WellFormed
<1>2. ASSUME NEW p \in SoundFiles
      PROVE  Passed(p) <=> Reached(p[1])
  <2>1. /\ p[1] \in 1 .. Len(world.directories)
        /\ Len(FilesOf(p[1])) \in Nat
        /\ p[2] \in 1 .. Len(FilesOf(p[1]))
    BY SoundPlaces, WorldTyped
  <2>2. Passed(p) <=> p[1] <= entered
    BY <1>1, <2>1 DEF Passed, ToScan
  <2>3. p[1] <= entered => Reached(p[1])
    BY <1>1, <2>1 DEF Reached
  <2>4. ~ (p[1] <= entered) => ~ Reached(p[1])
    BY <1>1, <2>1 DEF Reached
  <2> QED
    BY <2>2, <2>3, <2>4
<1> QED
  BY <1>2 DEF ScanInv
-----------------------------------------------------------------------------
LEMMA HealthStep == HealthOutlastsHook /\ [Next]_vars => HealthOutlastsHook'
<1> SUFFICES ASSUME HealthOutlastsHook, [Next]_vars PROVE HealthOutlastsHook'
  OBVIOUS
<1>1. CASE Construct
  <2>1. Entry(Health, Chassis)[Health].by = "chassis" /\ Health \in DOMAIN Entry(Health, Chassis)
    BY DEF Entry, Chassis
  <2>2. /\ Health \in DOMAIN Over(Entry(Health, Chassis), registry)
        /\ Over(Entry(Health, Chassis), registry)[Health] = Entry(Health, Chassis)[Health]
    BY <2>1, OverValues
  <2> QED
    BY <1>1, <2>1, <2>2 DEF Construct, HealthOutlastsHook, WithHealth, settings
<1>2. CASE Register
  <2> DEFINE name == Head(attempts).name
  <2>1. /\ registry' = Over(Entry(name, Owner), registry)
        /\ UNCHANGED <<world, phase>>
    BY <1>2 DEF Register, settings
  <2>2. DOMAIN Entry(name, Owner) = {name} /\ Entry(name, Owner)[name] = Owner
    BY DEF Entry
  <2> HIDE DEF name
  <2>3. /\ DOMAIN registry' = DOMAIN registry \cup {name}
        /\ registry'[name] = Owner
        /\ \A n \in DOMAIN registry \ {name} : registry'[n] = registry[n]
    BY <2>1, <2>2 DEF Over
  <2>4. phase # "hook" => Owner.by # "hook"
    BY DEF Owner
  <2> QED
    BY <2>1, <2>3, <2>4 DEF HealthOutlastsHook
<1>3. CASE UNCHANGED <<world, registry>>
            /\ (phase' \in {"discover", "ready"} => phase \in {"discover", "ready"})
  BY <1>3 DEF HealthOutlastsHook
<1> QED
  BY <1>1, <1>2, <1>3 DEF Next, ReadLine, EnvFileRead, Load, RunInitHook, RegisterFails, ScanFile,
     EnterDirectory, Finish, DirectoryDone, extending, settings, vars

(* What one step does to the registry.                                     *)
LEMMA RegistryStep ==
  ASSUME [Next]_vars, NEW name \in DOMAIN registry
  PROVE  name \in DOMAIN registry' /\ (registry'[name] = registry[name] \/ Intended(name))
<1>1. CASE Register
  <2> DEFINE new == Head(attempts).name
  <2>1. /\ registry' = Over(Entry(new, Owner), registry)
        /\ attempts # << >> /\ Registerable(Head(attempts))
    BY <1>1 DEF Register
  <2>2. DOMAIN Entry(new, Owner) = {new}
    BY DEF Entry
  <2>3. name \in DOMAIN registry' /\ (name # new => registry'[name] = registry[name])
    BY <2>1, <2>2 DEF Over
  <2> QED
    BY <2>1, <2>3 DEF Registerable, Intended
<1>2. CASE Construct
  <2>1. /\ phase = "hook"
        /\ registry' \in {registry, Over(Entry(Health, Chassis), registry)}
    BY <1>2 DEF Construct, WithHealth
  <2>2. DOMAIN Entry(Health, Chassis) = {Health}
    BY DEF Entry
  <2>3. name \in DOMAIN registry' /\ (name # Health => registry'[name] = registry[name])
    BY <2>1, <2>2 DEF Over
  <2> QED
    BY <2>1, <2>3 DEF Intended
<1>3. CASE UNCHANGED registry
  BY <1>3
<1> QED
  BY <1>1, <1>2, <1>3 DEF Next, ReadLine, EnvFileRead, Load, RunInitHook, RegisterFails, ScanFile,
     EnterDirectory, Finish, extending, vars
-----------------------------------------------------------------------------
StartupInv == WellFormed /\ EnvironInv /\ ConfigInv /\ ScanInv /\ HealthOutlastsHook

LEMMA StartupInvariant == Spec => []StartupInv
<1>1. Init => StartupInv
  BY TypedInit, EnvironInit, ConfigInit, ScanInit DEF StartupInv, Init, HealthOutlastsHook
<1>2. StartupInv /\ [Next]_vars => StartupInv'
  BY TypedStep, EnvironStep, ConfigStep, ScanStep, HealthStep DEF StartupInv
<1> QED
  BY <1>1, <1>2, PTL DEF Spec

(* A configuration whose limiter is on has a rate to refill from,          *)
(* whichever source turned it on (_check_positive after the profile's      *)
(* defaults are filled in).                                                *)
THEOREM LimitersRefill == Spec => []LimiterCanRefill
  BY StartupInvariant, RatesFollow, PTL DEF StartupInv

(* Every field of the configuration comes from the first source that       *)
(* states it: environment, .env file with its first line that sets a name, *)
(* configuration file, profile, code.                                      *)
THEOREM SourcesAreInOrder == Spec => []SourcesInOrder
  BY StartupInvariant, SourcesFollow, PTL DEF StartupInv

(* The name of the health check is never again the init hook's once the    *)
(* chassis has registered, whatever the hook and any extensions register.  *)
(* It may come to be an extension's that overwrites it.                    *)
THEOREM HookNeverAnswersForHealth == Spec => []HealthOutlastsHook
  BY StartupInvariant, PTL DEF StartupInv

(* A ready server has loaded the sound files of every directory before the *)
(* first package whose search raises, each once and in order, whatever the *)
(* extensions did (discover_extensions).                                   *)
THEOREM ExtensionsAreTried == Spec => []EveryExtensionIsTried
  BY StartupInvariant, ScanFollows, PTL DEF StartupInv

(* No step takes a name from who registered it, unless the registration    *)
(* asks for it or is the health check's own.                               *)
THEOREM RegistrationsStay == Spec => RegistrationsKept
<1>1. [Next]_vars => \A name \in DOMAIN registry :
        /\ name \in DOMAIN registry'
        /\ registry'[name] = registry[name] \/ Intended(name)
  BY RegistryStep
<1> QED
  BY <1>1, PTL DEF Spec, RegistrationsKept
-----------------------------------------------------------------------------
(* The invariant holds when the server starts, whatever an operator has    *)
(* provisioned.                                                            *)
LEMMA KeyInitInv == KeyInit => Inv
  BY FileStates DEF KeyInit, Inv, TypeOK, Progress, RecordsVerifiable, NeverMismatched,
                    File, Idle, Step

(* Every step of the server, a crash and the operator's steps keep it.     *)
LEMMA KeyStepInv == Inv /\ [KeyNext]_keyVars => Inv'
<1> SUFFICES ASSUME Inv, [KeyNext]_keyVars PROVE Inv'
  OBVIOUS
<1> USE FileStates DEF Inv, TypeOK, Progress, RecordsVerifiable, NeverMismatched,
                       File, Idle, Writing, Step, Exists
<1>1. CASE LoadKey
  BY <1>1 DEF LoadKey
<1>2. CASE Refuse
  BY <1>2 DEF Refuse, keyVars
<1>3. CASE Generate
  <2>1. PICK k \in Keys \ used : writer' = Writing("open_priv", k) /\ used' = used \cup {k}
    BY <1>3 DEF Generate
  <2>2. signed = {}
    BY <1>3 DEF Generate
  <2> QED
    BY <1>3, <2>1, <2>2 DEF Generate
<1>4. CASE OpenPriv
  BY <1>4 DEF OpenPriv
<1>5. CASE WritePriv
  BY <1>5 DEF WritePriv
<1>6. CASE OpenPub
  BY <1>6 DEF OpenPub
<1>7. CASE WritePub
  BY <1>7 DEF WritePub
<1>8. CASE Return
  BY <1>8 DEF Return
<1>9. CASE Interrupt
  BY <1>9 DEF Interrupt
<1>10. CASE LosePub
  BY <1>10 DEF LosePub
<1>11. CASE RemoveBoth
  BY <1>11 DEF RemoveBoth
<1>12. CASE UNCHANGED keyVars
  BY <1>12 DEF keyVars
<1> QED
  BY <1>1, <1>2, <1>3, <1>4, <1>5, <1>6, <1>7, <1>8, <1>9, <1>10, <1>11, <1>12
     DEF KeyNext, GenerationStep

(* Records stay verifiable: through crashes and failed writes, whatever    *)
(* was signed since the directory was last empty was signed with the       *)
(* private key that is there, and two complete files are one pair          *)
(* (ensure_signing_key_pair).                                              *)
THEOREM KeyInvariant == KeySpec => []Inv
  BY KeyInitInv, KeyStepInv, PTL DEF KeySpec

(* No file that was there is replaced by the server.                       *)
THEOREM KeysUntouched == KeySpec => FilesUntouched
<1>1. Inv /\ [KeyNext]_keyVars =>
        (~ RemoveBoth /\ ~ LosePub =>
           /\ priv' # priv => priv = Absent \/ (writer.at = "write_priv" /\ priv' = writer.key)
           /\ pub' # pub => pub = Absent \/ (writer.at = "write_pub" /\ pub' = writer.key))
  <2> SUFFICES ASSUME Inv, [KeyNext]_keyVars, ~ RemoveBoth, ~ LosePub
               PROVE  /\ priv' # priv => priv = Absent
                                         \/ (writer.at = "write_priv" /\ priv' = writer.key)
                      /\ pub' # pub => pub = Absent
                                       \/ (writer.at = "write_pub" /\ pub' = writer.key)
    OBVIOUS
  <2>1. CASE OpenPriv
    BY <2>1 DEF OpenPriv, Inv, Progress, Step
  <2>2. CASE WritePriv
    BY <2>2 DEF WritePriv
  <2>3. CASE OpenPub
    BY <2>3 DEF OpenPub, Inv, Progress, Step
  <2>4. CASE WritePub
    BY <2>4 DEF WritePub
  <2>5. CASE priv' = priv /\ pub' = pub
    BY <2>5
  <2> QED
    BY <2>1, <2>2, <2>3, <2>4, <2>5
       DEF KeyNext, GenerationStep, LoadKey, Refuse, Generate, Return, Interrupt, keyVars
<1> QED
  BY <1>1, KeyInvariant, PTL DEF KeySpec, FilesUntouched
=============================================================================
