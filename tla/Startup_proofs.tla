--------------------------- MODULE Startup_proofs ---------------------------
(***************************************************************************)
(* Proofs about Startup, for any command lines, cameras, directories,      *)
(* numbers of buffers and retries, and every set of faults.                *)
(*                                                                         *)
(* The settings are followed through both passes over the command line:    *)
(* after n options each one is what the last of those n says of it.        *)
(***************************************************************************)
EXTENDS Startup, DeviceSetup_proofs

(* The places of main after the options and after normalize_path. *)
Resolved == {"fork", "call", "setup"}
Ranged == {"normalize"} \cup Resolved

(* What the first n options of a line say of s; before is the value they   *)
(* start from.  Says is what the whole line says.                          *)
Given(line, n, s) == {k \in 1 .. n : s \in DOMAIN line[k]}
Last(G) == CHOOSE n \in G : \A k \in G : k <= n
After(line, n, s, before) ==
  IF Given(line, n, s) = {} THEN before ELSE line[Last(Given(line, n, s))][s]
Says(line, s) == After(line, Len(line), s, Defaults[s])

(* How far the settings are on their way to what the command line means.   *)
ReadInv ==
  phase = "options" =>
    /\ pass = 1 =>
         /\ \A n \in 1 .. optind - 1 : Known(args[n])
         /\ \A s \in Settings :
              settings[s] = After(args, optind - 1, s, Defaults[s])
    /\ pass = 2 =>
         /\ \A n \in DOMAIN args : Known(args[n])
         /\ \A s \in Settings : settings[s] = After(args, optind - 1, s, Says(args, s))

RangeInv ==
  phase \in Ranged =>
    /\ \A n \in DOMAIN args : Known(args[n])
    /\ \A s \in Settings \ {"fps", "quality", "root"} : settings[s] = Says(args, s)
    /\ settings.fps \in 1 .. 50
    /\ Says(args, "fps") \in 1 .. 50 => settings.fps = Says(args, "fps")
    /\ settings.quality \in 1 .. 100
    /\ Says(args, "quality") \in 1 .. 100 => settings.quality = Says(args, "quality")

(* The root is resolved where hawkeye was started, before the daemon moves.*)
RootInv ==
  /\ phase \in {"options", "normalize"} => cwd = started
  /\ phase = "normalize" => settings.root = Says(args, "root")
  /\ phase \in Resolved =>
       /\ settings.root = Absolute(Resolve(started, Says(args, "root")))
       /\ Resolve(started, Says(args, "root")) \in Existing

(* The set-up has not begun before init_frame_buffers, which it asks for   *)
(* what the settings say.                                                  *)
CallInv ==
  /\ phase # "setup" => pc = "create"
  /\ phase \in Resolved => ~Says(args, "help")
  /\ phase = "setup" =>
       asked = [format |-> FormatOf(Says(args, "format")),
                size |-> Size(Says(args, "width"), Says(args, "height"))]

StartInv ==
  SetupInv /\ StartTypeOK /\ ReadInv /\ RangeInv /\ RootInv /\ CallInv

PlacesTyped ==
  /\ <<>> \in Directories /\ Directories \subseteq Names
  /\ Starts \subseteq Directories /\ Files \subseteq Names
  /\ DefaultWidth \in Nat /\ DefaultHeight \in Nat
  /\ Camera \in Names

(* The assumptions about directories and files in one fact.                *)
LEMMA PlacesAssumed == PlacesTyped
  BY PlacesAssumption, DefaultSizeAssumption DEF PlacesTyped

------------------------------------------------------------------------------
(* The CHOOSE of the last option finds it. *)
LEMMA LastIs ==
  ASSUME NEW G, G \subseteq Nat, NEW m \in G, \A k \in G : k <= m
  PROVE  Last(G) = m
<1>1. Last(G) \in G /\ \A k \in G : k <= Last(G)
  BY DEF Last
<1>2. Last(G) <= m /\ m <= Last(G)
  BY <1>1
<1>3. m \in Nat /\ Last(G) \in Nat
  BY <1>1
<1>4. QED
  BY <1>2, <1>3

(* One option more: it says it itself, or what was said before it stands.  *)
LEMMA AfterOneMore ==
  ASSUME NEW line, NEW n \in Nat, NEW s, NEW before
  PROVE  After(line, n + 1, s, before) = IF s \in DOMAIN line[n + 1]
                                         THEN line[n + 1][s]
                                         ELSE After(line, n, s, before)
<1>1. CASE s \in DOMAIN line[n + 1]
  <2>1. /\ Given(line, n + 1, s) \subseteq Nat
        /\ n + 1 \in Given(line, n + 1, s)
        /\ \A k \in Given(line, n + 1, s) : k <= n + 1
    BY <1>1 DEF Given
  <2>2. Last(Given(line, n + 1, s)) = n + 1
    BY <2>1, LastIs
  <2>3. QED
    BY <1>1, <2>1, <2>2 DEF After
<1>2. CASE s \notin DOMAIN line[n + 1]
  <2>1. Given(line, n + 1, s) = Given(line, n, s)
    BY <1>2 DEF Given
  <2>2. QED
    BY <1>2, <2>1 DEF After
<1>3. QED
  BY <1>1, <1>2

(* Before the first option nothing has been said. *)
LEMMA AfterNone ==
  ASSUME NEW line, NEW s, NEW before
  PROVE  After(line, 0, s, before) = before
  BY DEF After, Given

(* Going through all the options once more changes nothing. *)
LEMMA AfterAll ==
  ASSUME NEW line, NEW s
  PROVE  After(line, Len(line), s, Says(line, s)) = Says(line, s)
  BY DEF After, Says

(* What the line says is what it means. *)
LEMMA MeantIsSaid ==
  ASSUME args \in CommandLines, NEW s
  PROVE  Meant(s) = Says(args, s)
<1>1. Given(args, Len(args), s) = {n \in DOMAIN args : s \in DOMAIN args[n]}
  BY CommandLinesAssumption DEF Given
<1>2. QED
  BY <1>1 DEF After, Says, Meant, Last

(* The settings there are, and what is known of the defaults. *)
LEMMA SettingsAre ==
  /\ Settings = {"daemon", "help", "fps", "quality", "width", "height",
                 "format", "root", "device"}
  /\ DOMAIN ValuesOf = Settings \ {"format"}
  /\ \A s \in DOMAIN ValuesOf : Defaults[s] \in ValuesOf[s]
<1>1. Settings = {"daemon", "help", "fps", "quality", "width", "height",
                  "format", "root", "device"}
  BY DEF Settings, Defaults
<1>2. DOMAIN ValuesOf = Settings \ {"format"}
  BY <1>1 DEF ValuesOf
<1>3. ASSUME NEW s \in DOMAIN ValuesOf PROVE Defaults[s] \in ValuesOf[s]
  <2>1. CASE s \in {"daemon", "help"}
    <3>1. Defaults[s] = FALSE /\ ValuesOf[s] = BOOLEAN
      BY <2>1 DEF Defaults, ValuesOf
    <3>2. QED
      BY <3>1
  <2>2. CASE s \in {"fps", "quality", "width", "height"}
    BY <2>2, PlacesAssumed DEF Defaults, ValuesOf, PlacesTyped
  <2>3. CASE s \in {"root", "device"}
    <3>1. Relative(<<>>) \in Path /\ Absolute(Camera) \in Path
      BY PlacesAssumed, EmptySeq
      DEF PlacesTyped, Relative, Absolute, Path, Names
    <3>2. QED
      BY <2>3, <3>1 DEF Defaults, ValuesOf
  <2>4. QED
    BY <1>1, <1>2, <2>1, <2>2, <2>3
<1>4. QED
  BY <1>1, <1>2, <1>3

(* Every argument vector is one main may be given. *)
LEMMA ArgsTyped ==
  ASSUME args \in CommandLines
  PROVE  /\ Len(args) \in Nat /\ DOMAIN args = 1 .. Len(args)
         /\ \A n \in DOMAIN args : \A s \in DOMAIN ValuesOf \cap DOMAIN args[n] :
              args[n][s] \in ValuesOf[s]
  BY CommandLinesAssumption

(* What a path resolves to is a list of names. *)
LEMMA ResolveTyped ==
  ASSUME NEW dir \in Names, NEW path \in Path
  PROVE  Resolve(dir, path) \in Names
  BY ConcatProperties DEF Resolve, Path, Names

(* What the camera is asked for has a format and a size. *)
LEMMA AskedTyped ==
  ASSUME NEW w \in Int, NEW h \in Int, NEW name
  PROVE  [format |-> FormatOf(name), size |-> Size(w, h)]
           \in [format : InputFormats, size : Sizes(Int)]
  BY SizesTyped DEF FormatOf, InputFormats

(* Nothing of the set-up has changed. *)
LEMMA SetupUntouched ==
  ASSUME SetupInv, UNCHANGED vars
  PROVE  SetupInv'
  BY DEF vars, SetupInv, TypeOK, RingInv, SizeInv, CountInv, IndexInv,
     ListsInBounds, AskedFormat, AskedSize

------------------------------------------------------------------------------
(* The invariant holds before the command line is read.                    *)
LEMMA StartInvInitially ==
  ASSUME StartInit
  PROVE  StartInv
<1>1. SetupInv
  <2>1. Unasked \in [format : InputFormats, size : Sizes(Int)]
    BY SizesTyped DEF Unasked, Fallback, InputFormats
  <2>2. QED
    BY <2>1, SetupInvInitially DEF StartInit
<1>2. StartTypeOK
  <2>1. Len(args) \in Nat
    BY ArgsTyped DEF StartInit
  <2>2. DOMAIN settings = Settings
        /\ \A s \in DOMAIN ValuesOf : settings[s] \in ValuesOf[s]
    BY SettingsAre DEF StartInit, Settings
  <2>3. started \in Starts /\ cwd \in Directories
    BY PlacesAssumed DEF StartInit, PlacesTyped
  <2>4. QED
    BY <1>1, <2>1, <2>2, <2>3 DEF StartInit, StartTypeOK, SetupInv
<1>3. ReadInv
  <2>1. \A s \in Settings : After(args, 0, s, Defaults[s]) = Defaults[s]
    BY AfterNone
  <2>2. QED
    BY <2>1 DEF StartInit, ReadInv
<1>4. RangeInv /\ RootInv /\ CallInv
  BY DEF StartInit, InitFor, RangeInv, RootInv, CallInv, Ranged, Resolved
<1>5. QED
  BY <1>1, <1>2, <1>3, <1>4 DEF StartInv

(* ReadOption adds what its option says; an unknown one ends the process.  *)
LEMMA ReadOptionKeepsInv ==
  ASSUME StartInv, ReadOption
  PROVE  StartInv'
<1> DEFINE option == args[optind]
<1>1. /\ StartTypeOK /\ phase = "options" /\ optind \in 1 .. Len(args)
      /\ optind' = optind + 1
      /\ UNCHANGED <<vars, args, pass, started, cwd>>
      /\ args \in CommandLines /\ pass \in {1, 2}
      /\ DOMAIN settings = Settings
      /\ \A s \in DOMAIN ValuesOf : settings[s] \in ValuesOf[s]
  <2>1. Len(args) \in Nat
    BY ArgsTyped DEF StartInv, StartTypeOK
  <2>2. QED
    BY <2>1 DEF ReadOption, StartInv, StartTypeOK
<1>2. /\ Len(args) \in Nat /\ DOMAIN args = 1 .. Len(args)
      /\ \A n \in DOMAIN args : \A s \in DOMAIN ValuesOf \cap DOMAIN args[n] :
           args[n][s] \in ValuesOf[s]
  BY <1>1, ArgsTyped
<1>3. SetupInv' /\ TypeOK'
  BY <1>1, SetupUntouched DEF StartInv, SetupInv
<1>4. RootInv' /\ CallInv'
  BY <1>1 DEF ReadOption, StartInv, RootInv, CallInv, Resolved, vars
<1>5. CASE ~Known(option)
  <2>1. phase' = "panic" /\ UNCHANGED settings
    BY <1>5 DEF ReadOption
  <2>2. StartTypeOK'
    BY <1>1, <1>2, <1>3, <2>1 DEF StartTypeOK, Over
  <2>3. ReadInv' /\ RangeInv'
    BY <2>1 DEF ReadInv, RangeInv, Ranged, Resolved
  <2>4. QED
    BY <1>3, <1>4, <2>2, <2>3, RootInv', CallInv' DEF StartInv
<1>6. CASE Known(option)
  <2>1. settings' = With(option) /\ phase' = phase
    BY <1>6 DEF ReadOption
  <2>2. /\ DOMAIN settings' = Settings
        /\ \A s \in Settings :
             settings'[s] = IF s \in DOMAIN option THEN option[s]
                                                   ELSE settings[s]
    BY <2>1 DEF With
  <2>3. \A s \in DOMAIN ValuesOf : settings'[s] \in ValuesOf[s]
    BY <1>1, <1>2, <2>2, SettingsAre
  <2>4. StartTypeOK'
    BY <1>1, <1>2, <1>3, <2>1, <2>2, <2>3 DEF StartTypeOK
  <2>5. ReadInv'
    <3>1. \A n \in 1 .. optind - 1 : Known(args[n])
      BY <1>1, <1>2 DEF StartInv, ReadInv
    <3>2. \A n \in 1 .. optind : Known(args[n])
      BY <1>1, <1>2, <1>6, <3>1
    <3>3. ASSUME NEW s \in Settings, NEW before,
                 settings[s] = After(args, optind - 1, s, before)
          PROVE  settings'[s] = After(args, optind, s, before)
      BY <1>1, <1>2, <2>2, <3>3, AfterOneMore
    <3>4. QED
      <4>1. optind' - 1 = optind /\ args' = args /\ pass' = pass
            /\ phase = "options"
        BY <1>1
      <4>2. pass = 1 => \A s \in Settings :
              settings'[s] = After(args, optind, s, Defaults[s])
        BY <3>3, <4>1 DEF StartInv, ReadInv
      <4>3. pass = 2 =>
              /\ \A n \in DOMAIN args : Known(args[n])
              /\ \A s \in Settings :
                   settings'[s] = After(args, optind, s, Says(args, s))
        BY <3>3, <4>1 DEF StartInv, ReadInv
      <4>4. QED
        BY <3>2, <4>1, <4>2, <4>3 DEF ReadInv
  <2>6. RangeInv'
    BY <1>1, <2>1 DEF RangeInv, Ranged, Resolved
  <2>7. QED
    BY <1>3, <1>4, <2>4, <2>5, <2>6 DEF StartInv
<1>7. QED
  BY <1>5, <1>6

(* The second pass starts from what the first one has read. *)
LEMMA ReadAgainKeepsInv ==
  ASSUME StartInv, ReadAgain
  PROVE  StartInv'
<1>1. /\ StartTypeOK /\ phase = "options" /\ pass = 1 /\ phase' = phase
      /\ optind' = 1 /\ pass' = 2 /\ optind > Len(args)
      /\ UNCHANGED <<vars, args, settings, started, cwd>>
      /\ args \in CommandLines
  BY DEF ReadAgain, StartInv, StartTypeOK
<1>2. /\ Len(args) \in Nat /\ DOMAIN args = 1 .. Len(args)
      /\ optind = Len(args) + 1
  <2>1. Len(args) \in Nat /\ DOMAIN args = 1 .. Len(args)
    BY <1>1, ArgsTyped
  <2>2. QED
    BY <1>1, <2>1 DEF StartTypeOK
<1>3. SetupInv' /\ TypeOK'
  BY <1>1, SetupUntouched DEF StartInv, SetupInv
<1>4. StartTypeOK'
  BY <1>1, <1>2, <1>3 DEF StartTypeOK
<1>5. ReadInv'
  <2>1. \A n \in DOMAIN args : Known(args[n])
    BY <1>1, <1>2 DEF StartInv, ReadInv
  <2>2. ASSUME NEW s \in Settings
        PROVE  settings'[s] = After(args, 0, s, Says(args, s))
    <3>1. settings[s] = After(args, Len(args), s, Defaults[s])
      BY <1>1, <1>2 DEF StartInv, ReadInv
    <3>2. QED
      BY <1>1, <3>1, AfterNone DEF Says
  <2>3. QED
    BY <1>1, <2>1, <2>2 DEF ReadInv
<1>6. RangeInv' /\ RootInv' /\ CallInv'
  BY <1>1 DEF StartInv, RangeInv, RootInv, CallInv, Ranged, Resolved, vars
<1>7. QED
  BY <1>3, <1>4, <1>5, <1>6 DEF StartInv

(* After both passes every setting is what the line says, in its range. *)
LEMMA OptionsReadKeepsInv ==
  ASSUME StartInv, OptionsRead
  PROVE  StartInv'
<1>1. /\ StartTypeOK /\ phase = "options" /\ pass = 2 /\ phase' = "normalize"
      /\ optind' = 1 /\ optind > Len(args)
      /\ UNCHANGED <<vars, args, pass, started, cwd>>
      /\ args \in CommandLines
      /\ settings' = With([fps |-> Between(1, 50, settings.fps),
                           quality |-> Between(1, 100, settings.quality)])
      /\ \A s \in DOMAIN ValuesOf : settings[s] \in ValuesOf[s]
  BY DEF OptionsRead, StartInv, StartTypeOK
<1>2. /\ Len(args) \in Nat /\ DOMAIN args = 1 .. Len(args)
      /\ optind = Len(args) + 1
  <2>1. Len(args) \in Nat /\ DOMAIN args = 1 .. Len(args)
    BY <1>1, ArgsTyped
  <2>2. QED
    BY <1>1, <2>1 DEF StartTypeOK
<1>3. \A s \in Settings : settings[s] = Says(args, s)
  BY <1>1, <1>2, AfterAll DEF StartInv, ReadInv
<1>4. /\ DOMAIN settings' = Settings
      /\ \A s \in Settings \ {"fps", "quality"} : settings'[s] = settings[s]
      /\ settings'.fps = Between(1, 50, settings.fps)
      /\ settings'.quality = Between(1, 100, settings.quality)
  BY <1>1, SettingsAre DEF With
<1>5. settings.fps \in Int /\ settings.quality \in Int
  BY <1>1, SettingsAre DEF ValuesOf
<1>6. /\ settings'.fps \in 1 .. 50
      /\ settings.fps \in 1 .. 50 => settings'.fps = settings.fps
      /\ settings'.quality \in 1 .. 100
      /\ settings.quality \in 1 .. 100 => settings'.quality = settings.quality
  <2>1. /\ Between(1, 50, settings.fps) \in 1 .. 50
        /\ settings.fps \in 1 .. 50 =>
             Between(1, 50, settings.fps) = settings.fps
    BY <1>5 DEF Between
  <2>2. /\ Between(1, 100, settings.quality) \in 1 .. 100
        /\ settings.quality \in 1 .. 100 =>
             Between(1, 100, settings.quality) = settings.quality
    BY <1>5 DEF Between
  <2>3. QED
    BY <1>4, <2>1, <2>2
<1>7. SetupInv' /\ TypeOK'
  BY <1>1, SetupUntouched DEF StartInv, SetupInv
<1>8. StartTypeOK'
  <2>1. ASSUME NEW s \in DOMAIN ValuesOf PROVE settings'[s] \in ValuesOf[s]
    <3>1. CASE s \in {"fps", "quality"}
      BY <1>6, <3>1 DEF ValuesOf
    <3>2. CASE s \notin {"fps", "quality"}
      BY <1>1, <1>4, <3>2, SettingsAre
    <3>3. QED
      BY <3>1, <3>2
  <2>2. QED
    BY <1>1, <1>2, <1>4, <1>7, <2>1 DEF StartTypeOK
<1>9. ReadInv'
  BY <1>1 DEF ReadInv
<1>10. RangeInv'
  <2>1. \A n \in DOMAIN args : Known(args[n])
    BY <1>1 DEF StartInv, ReadInv
  <2>2. /\ settings.fps = Says(args, "fps")
        /\ settings.quality = Says(args, "quality")
    BY <1>3, SettingsAre
  <2>3. \A s \in Settings \ {"fps", "quality", "root"} :
          settings'[s] = Says(args, s)
    BY <1>3, <1>4
  <2>4. args' = args
    BY <1>1
  <2>5. QED
    BY <1>6, <2>1, <2>2, <2>3, <2>4 DEF RangeInv
<1>11. RootInv' /\ CallInv'
  <2>1. settings'.root = Says(args, "root")
    BY <1>3, <1>4, SettingsAre
  <2>2. QED
    BY <1>1, <2>1 DEF StartInv, RootInv, CallInv, Resolved, vars
<1>12. QED
  BY <1>7, <1>8, <1>9, <1>10, <1>11 DEF StartInv

(* The root is resolved in the directory hawkeye was started in, and is    *)
(* then one that no move changes.                                          *)
LEMMA NormalizeKeepsInv ==
  ASSUME StartInv, Normalize
  PROVE  StartInv'
<1> DEFINE dir == Resolve(cwd, settings.root)
<1>1. /\ StartTypeOK /\ phase = "normalize" /\ cwd = started
      /\ settings.root = Says(args, "root")
      /\ UNCHANGED <<vars, args, optind, pass, started, cwd>>
      /\ DOMAIN settings = Settings
      /\ \A s \in DOMAIN ValuesOf : settings[s] \in ValuesOf[s]
  BY DEF Normalize, StartInv, StartTypeOK, RootInv
<1>2. SetupInv' /\ TypeOK'
  BY <1>1, SetupUntouched DEF StartInv, SetupInv
<1>3. ReadInv' /\ phase' \in {"exit", "fork", "call", "panic"}
  BY DEF Normalize, AfterSettings, ReadInv
<1>4. CASE dir \notin Existing
  <2>1. phase' = "panic" /\ UNCHANGED settings
    BY <1>4 DEF Normalize
  <2>2. StartTypeOK'
    BY <1>1, <1>2, <2>1 DEF StartTypeOK, Over
  <2>3. RangeInv' /\ RootInv' /\ CallInv'
    BY <1>1, <2>1
    DEF StartInv, RangeInv, RootInv, CallInv, Ranged, Resolved, vars
  <2>4. QED
    BY <1>2, <1>3, <2>2, <2>3 DEF StartInv
<1>5. CASE dir \in Existing
  <2>1. settings' = With([root |-> Absolute(dir)]) /\ phase' = AfterSettings
    BY <1>5 DEF Normalize
  <2>2. /\ DOMAIN settings' = Settings
        /\ \A s \in Settings \ {"root"} : settings'[s] = settings[s]
        /\ settings'.root = Absolute(dir)
    BY <2>1, SettingsAre DEF With
  <2>3. StartTypeOK'
    <3>1. Absolute(dir) \in Path
      BY <1>5, PlacesAssumed DEF PlacesTyped, Absolute, Path, Existing
    <3>2. ASSUME NEW s \in DOMAIN ValuesOf PROVE settings'[s] \in ValuesOf[s]
      <4>1. CASE s = "root"
        BY <2>2, <3>1, <4>1 DEF ValuesOf
      <4>2. CASE s # "root"
        BY <1>1, <2>2, <4>2, SettingsAre
      <4>3. QED
        BY <4>1, <4>2
    <3>3. QED
      BY <1>1, <1>2, <1>3, <2>2, <3>2 DEF StartTypeOK, Over
  <2>4. RangeInv'
    BY <1>1, <2>2, SettingsAre DEF StartInv, RangeInv, Ranged
  <2>5. RootInv'
    BY <1>1, <1>3, <1>5, <2>2 DEF RootInv
  <2>6. CallInv'
    <3>1. phase' \in Resolved => ~settings.help
      BY <2>1 DEF AfterSettings, Resolved
    <3>2. settings.help = Says(args, "help")
      BY <1>1, SettingsAre DEF StartInv, RangeInv, Ranged
    <3>3. pc' = "create"
      BY <1>1 DEF StartInv, CallInv, vars
    <3>4. QED
      BY <1>1, <1>3, <3>1, <3>2, <3>3 DEF CallInv
  <2>7. QED
    BY <1>2, <1>3, <2>3, <2>4, <2>5, <2>6 DEF StartInv
<1>6. QED
  BY <1>4, <1>5

(* The daemon moves to "/", which the root no longer depends on. *)
LEMMA DaemonizeKeepsInv ==
  ASSUME StartInv, Daemonize \/ ForkFails
  PROVE  StartInv'
<1>1. /\ StartTypeOK /\ phase = "fork" /\ phase' \in {"call", "panic"}
      /\ cwd' \in {cwd, <<>>}
      /\ UNCHANGED <<vars, args, optind, pass, settings, started>>
  BY DEF Daemonize, ForkFails, StartInv
<1>2. SetupInv' /\ TypeOK'
  BY <1>1, SetupUntouched DEF StartInv, SetupInv
<1>3. StartTypeOK'
  BY <1>1, <1>2, PlacesAssumed DEF StartTypeOK, PlacesTyped, Over
<1>4. ReadInv' /\ RangeInv' /\ RootInv' /\ CallInv'
  BY <1>1
  DEF StartInv, ReadInv, RangeInv, RootInv, CallInv, Ranged, Resolved, vars
<1>5. QED
  BY <1>2, <1>3, <1>4 DEF StartInv

(* The camera is asked for what the settings say; nothing of the set-up    *)
(* has happened before.                                                    *)
LEMMA InitFrameBuffersKeepsInv ==
  ASSUME StartInv, InitFrameBuffers
  PROVE  StartInv'
<1>1. /\ StartTypeOK /\ phase = "call" /\ phase' = "setup" /\ pc = "create"
      /\ \A s \in DOMAIN ValuesOf : settings[s] \in ValuesOf[s]
      /\ UNCHANGED <<args, optind, pass, settings, started, cwd>>
      /\ TypeOK /\ SetupInv
  BY DEF InitFrameBuffers, StartInv, StartTypeOK, CallInv
<1>2. asked' = [format |-> FormatOf(settings.format),
                size |-> Size(settings.width, settings.height)]
      /\ dev' = [dev EXCEPT !.exists =
                   @ /\ Resolve(cwd, settings.device) = Camera]
      /\ UNCHANGED <<pc, tries, format_in, size, current, granted, mapped,
                     queued, streaming, i, lists, framebuffer_size>>
  BY DEF InitFrameBuffers
<1>3. SetupInv'
  <2>1. asked' \in [format : InputFormats, size : Sizes(Int)]
    <3>1. settings.width \in Int /\ settings.height \in Int
      BY <1>1, SettingsAre DEF ValuesOf
    <3>2. QED
      BY <1>2, <3>1, AskedTyped
  <2>2. dev' \in Device
    <3>1. dev \in Device
      BY <1>1 DEF TypeOK
    <3>2. (dev.exists /\ Resolve(cwd, settings.device) = Camera) \in BOOLEAN
      OBVIOUS
    <3>3. QED
      BY <1>2, <3>1, <3>2 DEF Device
  <2>3. TypeOK'
    BY <1>1, <1>2, <2>1, <2>2 DEF TypeOK, lists
  <2>4. RingInv' /\ SizeInv' /\ CountInv' /\ IndexInv' /\ ListsInBounds'
    BY <1>1, <1>2
    DEF SetupInv, RingInv, SizeInv, CountInv, IndexInv, ListsInBounds, lists,
        Filled, Enumerating, Queued, Mapped, Negotiated
  <2>5. QED
    BY <2>3, <2>4 DEF SetupInv
<1>4. StartTypeOK'
  BY <1>1, <1>3 DEF StartTypeOK, SetupInv
<1>5. ReadInv' /\ RangeInv' /\ RootInv'
  BY <1>1 DEF StartInv, ReadInv, RangeInv, RootInv, Ranged, Resolved
<1>6. CallInv'
  <2>1. /\ settings.format = Says(args, "format")
        /\ settings.width = Says(args, "width")
        /\ settings.height = Says(args, "height")
    BY <1>1, SettingsAre DEF StartInv, RangeInv, Ranged, Resolved
  <2>2. QED
    BY <1>1, <1>2, <2>1 DEF StartInv, CallInv, Resolved
<1>7. QED
  BY <1>3, <1>4, <1>5, <1>6 DEF StartInv

(* create_video_device does not change what it was asked for. *)
LEMMA SetupKeepsAsked ==
  ASSUME Setup
  PROVE  UNCHANGED asked
<1> USE DEF device
<1>1. CASE Create \/ QueryCap \/ QueryCapFails \/ SetFormat \/ SetFormatFails
             \/ SetFallbackFails \/ CheckFormat \/ SetParm \/ SetParmFails
  BY <1>1 DEF Create, QueryCap, QueryCapFails, SetFormat, SetFormatFails,
     SetFallbackFails, CheckFormat, SetParm, SetParmFails
<1>2. CASE RequestBuffers \/ RequestBuffersFails \/ QueryBuffer
             \/ QueryBufferFails \/ Map \/ MapFails \/ QueueBuffer
             \/ QueueBufferFails \/ StreamOn \/ StreamOnFails
  BY <1>2 DEF RequestBuffers, RequestBuffersFails, QueryBuffer,
     QueryBufferFails, Map, MapFails, QueueBuffer, QueueBufferFails, StreamOn,
     StreamOnFails
<1>3. CASE EnumFormat \/ EnumFormatEnds \/ EnumSize \/ EnumSizesEnd
             \/ AllocateFramebuffer
  BY <1>3 DEF EnumFormat, EnumFormatEnds, EnumSize, EnumSizesEnd,
     AllocateFramebuffer
<1>4. QED
  BY <1>1, <1>2, <1>3 DEF Setup

(* The set-up itself. *)
LEMMA SetupCameraKeepsInv ==
  ASSUME StartInv, SetupCamera
  PROVE  StartInv'
<1>1. phase = "setup" /\ Setup /\ UNCHANGED startVars /\ SetupInv
  BY DEF SetupCamera, StartInv
<1>2. SetupInv' /\ UNCHANGED asked
  BY <1>1, SetupStep, SetupKeepsAsked
<1>3. StartTypeOK'
  BY <1>1, <1>2 DEF StartInv, StartTypeOK, SetupInv, startVars
<1>4. ReadInv' /\ RangeInv' /\ RootInv' /\ CallInv'
  BY <1>1, <1>2
  DEF StartInv, ReadInv, RangeInv, RootInv, CallInv, startVars
<1>5. QED
  BY <1>2, <1>3, <1>4 DEF StartInv

(* StartInv is inductive. *)
LEMMA StartInvHolds == StartSpec => []StartInv
<1>1. StartInv /\ [StartNext]_allVars => StartInv'
  <2> SUFFICES ASSUME StartInv, [StartNext]_allVars PROVE StartInv'
    OBVIOUS
  <2>1. CASE Start
    BY <2>1, ReadOptionKeepsInv, ReadAgainKeepsInv, OptionsReadKeepsInv,
       NormalizeKeepsInv, DaemonizeKeepsInv, InitFrameBuffersKeepsInv,
       SetupCameraKeepsInv
    DEF Start
  <2>2. CASE UNCHANGED allVars
    <3>1. UNCHANGED vars /\ UNCHANGED startVars
      BY <2>2 DEF allVars
    <3>2. SetupInv'
      BY <3>1, SetupUntouched DEF StartInv
    <3>3. StartTypeOK'
      BY <3>1, <3>2 DEF StartInv, StartTypeOK, SetupInv, startVars
    <3>4. ReadInv' /\ RangeInv' /\ RootInv' /\ CallInv'
      BY <3>1
      DEF StartInv, ReadInv, RangeInv, RootInv, CallInv, vars, startVars
    <3>5. QED
      BY <3>2, <3>3, <3>4 DEF StartInv
  <2>3. QED
    BY <2>1, <2>2 DEF StartNext, Stopped
<1>2. QED
  BY <1>1, StartInvInitially, PTL DEF StartSpec

------------------------------------------------------------------------------
(* Every variable of the start stays in its set: a setting keeps its type  *)
(* whatever the command line, the working directory exists.                *)
THEOREM StartTypeCorrect == StartSpec => []StartTypeOK
<1>1. StartInv => StartTypeOK
  BY DEF StartInv
<1>2. QED
  BY <1>1, StartInvHolds, PTL

(* Whatever the command line, the camera and the faults: a start that ends *)
(* with the camera running has every buffer of the ring granted, mapped    *)
(* and queued and the stream on, which is where CaptureLoop starts.        *)
THEOREM RingReadyHolds == StartSpec => []RingReady
<1>1. StartInv => RingReady
  BY SetupInvSuffices DEF StartInv
<1>2. QED
  BY <1>1, StartInvHolds, PTL

(* The framebuffer is made for the size the device was set to, not for the *)
(* one the command line asked for.                                         *)
THEOREM FramebufferFitsHolds == StartSpec => []FramebufferFits
<1>1. StartInv => FramebufferFits
  BY SetupInvSuffices DEF StartInv
<1>2. QED
  BY <1>1, StartInvHolds, PTL

(* The lists of formats and sizes stay inside their memory however long    *)
(* the camera makes them, and the indices point at what was asked for.     *)
THEOREM ListsInBoundsHolds == StartSpec => []ListsInBounds
<1>1. StartInv => ListsInBounds
  BY SetupInvSuffices DEF StartInv
<1>2. QED
  BY <1>1, StartInvHolds, PTL

(* Reading any command line twice leaves each setting what its last option *)
(* says, in its range, and the set-up is asked for exactly that.           *)
THEOREM SettingsAsMeantHolds == StartSpec => []SettingsAsMeant
<1>1. ASSUME StartInv PROVE SettingsAsMeant
  <2>1. args \in CommandLines
    BY <1>1 DEF StartInv, StartTypeOK
  <2>2. \A s : Meant(s) = Says(args, s)
    BY <2>1, MeantIsSaid
  <2>3. phase = "setup" =>
          asked = [format |-> IF Says(args, "format") = "z16" THEN "Z16"
                                                              ELSE "YUYV",
                   size |-> Size(Says(args, "width"), Says(args, "height"))]
    BY <1>1 DEF StartInv, CallInv, FormatOf
  <2>4. phase \in Resolved =>
          /\ \A n \in DOMAIN args : Known(args[n])
          /\ ~Says(args, "help")
          /\ \A s \in Settings \ {"fps", "quality", "root"} :
               settings[s] = Says(args, s)
          /\ settings.fps \in 1 .. 50
          /\ Says(args, "fps") \in 1 .. 50 =>
               settings.fps = Says(args, "fps")
          /\ settings.quality \in 1 .. 100
          /\ Says(args, "quality") \in 1 .. 100 =>
               settings.quality = Says(args, "quality")
    BY <1>1 DEF StartInv, RangeInv, CallInv, Ranged, Resolved
  <2>5. /\ Meant("help") = Says(args, "help")
        /\ Meant("fps") = Says(args, "fps")
        /\ Meant("quality") = Says(args, "quality")
        /\ Meant("format") = Says(args, "format")
        /\ Meant("width") = Says(args, "width")
        /\ Meant("height") = Says(args, "height")
    BY <2>2
  <2>6. \A s \in Settings \ {"fps", "quality", "root"} :
          settings[s] = Says(args, s) => settings[s] = Meant(s)
    BY <2>2
  <2>7. phase \in {"fork", "call", "setup"} =>
          /\ \A n \in DOMAIN args : Known(args[n])
          /\ \A s \in Settings \ {"fps", "quality", "root"} :
               settings[s] = Meant(s)
    BY <2>4, <2>6 DEF Resolved
  <2>8. phase \in {"fork", "call", "setup"} => ~Meant("help")
    BY <2>4, <2>5 DEF Resolved
  <2>9. phase \in {"fork", "call", "setup"} =>
          /\ settings.fps \in 1 .. 50
          /\ Meant("fps") \in 1 .. 50 => settings.fps = Meant("fps")
          /\ settings.quality \in 1 .. 100
          /\ Meant("quality") \in 1 .. 100 =>
               settings.quality = Meant("quality")
    BY <2>4, <2>5 DEF Resolved
  <2>10. phase = "setup" =>
           asked = [format |-> IF Meant("format") = "z16" THEN "Z16"
                                                          ELSE "YUYV",
                    size |-> Size(Meant("width"), Meant("height"))]
    BY <2>3, <2>5
  <2>11. QED
    BY <2>7, <2>8, <2>9, <2>10 DEF SettingsAsMeant
<1>2. StartInv => SettingsAsMeant
  BY <1>1
<1>3. QED
  BY <1>2, StartInvHolds, PTL

(* The path the image goes to is the one the user named from where hawkeye *)
(* was started, and it exists, although the daemon moves.                  *)
THEOREM FramesGoWhereMeantHolds == StartSpec => []FramesGoWhereMeant
<1>1. ASSUME StartInv PROVE FramesGoWhereMeant
  <2>1. Meant("root") = Says(args, "root")
    BY <1>1, MeantIsSaid DEF StartInv, StartTypeOK
  <2>2. SUFFICES ASSUME phase \in Resolved
                 PROVE  /\ Resolve(cwd, settings.root)
                            = Resolve(started, Meant("root"))
                        /\ Resolve(cwd, settings.root) \in Existing
    BY DEF FramesGoWhereMeant, Resolved
  <2> DEFINE dir == Resolve(started, Says(args, "root"))
  <2>3. settings.root = Absolute(dir) /\ dir \in Existing
    BY <1>1, <2>2 DEF StartInv, RootInv
  <2>4. Resolve(cwd, Absolute(dir)) = dir
    BY DEF Resolve, Absolute
  <2>5. QED
    BY <2>1, <2>3, <2>4
<1>2. StartInv => FramesGoWhereMeant
  BY <1>1
<1>3. QED
  BY <1>2, StartInvHolds, PTL
==============================================================================
