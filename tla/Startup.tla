------------------------------ MODULE Startup ------------------------------
(***************************************************************************)
(* main() up to its loop: init_settings reads the command line (config.c,  *)
(* settings.c), daemonize sends the process to the background (daemon.c),  *)
(* and init_frame_buffers sets the camera up, which DeviceSetup does.      *)
(*                                                                         *)
(* Paths are lists of names from a directory.  An option is the setting it *)
(* changes; those that change nothing here (the base name, the scale, the  *)
(* profiler's rate, the detector's switches, -v) are left out, and so are  *)
(* the session, the umask and the standard streams of the daemon.          *)
(***************************************************************************)
EXTENDS DeviceSetup

CONSTANTS
  CommandLines,     \* sequences of options, each [setting |-> value]
  Starts,           \* the directories hawkeye may be started in
  Directories,      \* the directories there are
  Files,            \* and the paths that are no directories
  Camera,           \* the path of the camera's node
  DefaultWidth, DefaultHeight   \* DEFAULT_WIDTH, DEFAULT_HEIGHT

Absolute(names) == [absolute |-> TRUE, names |-> names]
Relative(names) == [absolute |-> FALSE, names |-> names]

(* The DEFAULT_* of settings.h. *)
Defaults ==
  [daemon |-> FALSE, help |-> FALSE, fps |-> 6, quality |-> 80,
   width |-> DefaultWidth, height |-> DefaultHeight, format |-> "z16",
   root |-> Relative(<<>>), device |-> Absolute(Camera)]

Settings == DOMAIN Defaults

(* What the settings may be: atoi takes any number for an int; a format is *)
(* any string, and compared with one only.                                 *)
Names == Seq(STRING)
Path == [absolute : BOOLEAN, names : Names]
ValuesOf ==
  [daemon |-> BOOLEAN, help |-> BOOLEAN, fps |-> Int, quality |-> Int,
   width |-> Int, height |-> Int, root |-> Path, device |-> Path]

ASSUME PlacesAssumption ==
  /\ <<>> \in Directories /\ Directories \subseteq Names
  /\ Starts \subseteq Directories
  /\ Files \subseteq Names /\ Files \cap Directories = {}
  /\ Camera \in Names
ASSUME CommandLinesAssumption ==
  \A line \in CommandLines :
    /\ Len(line) \in Nat /\ DOMAIN line = 1 .. Len(line)
    /\ \A n \in DOMAIN line : \A s \in DOMAIN ValuesOf \cap DOMAIN line[n] :
         line[n][s] \in ValuesOf[s]
ASSUME DefaultSizeAssumption == DefaultWidth \in Nat /\ DefaultHeight \in Nat

VARIABLES
  phase,            \* where main is; "setup": in init_frame_buffers
  args,             \* argv
  optind, pass,     \* getopt's index, and which read_command_line it is
  settings,
  started,          \* history: the directory hawkeye was started in
  cwd               \* the working directory

startVars == <<phase, args, optind, pass, settings, started, cwd>>
allVars == <<vars, startVars>>

Unasked == [format |-> Fallback, size |-> Size(0, 0)]
Over == {"exit", "panic"}    \* the process has ended before the setup

StartInit ==
  /\ InitFor({Unasked})
  /\ phase = "options"
  /\ args \in CommandLines
  /\ optind = 1 /\ pass = 1
  /\ settings = Defaults     \* add_config_item
  /\ started \in Starts /\ cwd = started

-----------------------------------------------------------------------------
Known(option) == DOMAIN option \subseteq Settings

(* The settings with those of r in the place of theirs. *)
With(r) == [s \in Settings |-> IF s \in DOMAIN r THEN r[s] ELSE settings[s]]

(* Mutant of ReadOption: a setting that has been given is not set again.   *)
ReadOptionOnce ==
  /\ phase = "options" /\ optind <= Len(args)
  /\ LET option == args[optind]
     IN  IF Known(option)
         THEN /\ settings' = IF \E s \in DOMAIN option :
                                  settings[s] # Defaults[s]
                             THEN settings ELSE With(option)
              /\ UNCHANGED phase
         ELSE phase' = "panic" /\ UNCHANGED settings
  /\ optind' = optind + 1
  /\ UNCHANGED <<vars, args, pass, started, cwd>>

(* getopt_long and process_option: an option nobody has added ends the     *)
(* process, and so does getopt's '?'.                                      *)
ReadOption ==
  /\ phase = "options" /\ optind <= Len(args)
  /\ LET option == args[optind]
     IN  IF Known(option)
         THEN settings' = With(option) /\ UNCHANGED phase
         ELSE phase' = "panic" /\ UNCHANGED settings
  /\ optind' = optind + 1
  /\ UNCHANGED <<vars, args, pass, started, cwd>>

(* read_command_line puts optind back, and is called once more: there is   *)
(* no config file to be read in between.                                   *)
ReadAgain ==
  /\ phase = "options" /\ optind > Len(args) /\ pass = 1
  /\ optind' = 1 /\ pass' = 2
  /\ UNCHANGED <<vars, phase, args, settings, started, cwd>>

Between(low, high, n) == IF n < low THEN low ELSE IF n > high THEN high ELSE n

OptionsRead ==
  /\ phase = "options" /\ optind > Len(args) /\ pass = 2
  /\ optind' = 1
  /\ settings' = With([fps |-> Between(1, 50, settings.fps),
                       quality |-> Between(1, 100, settings.quality)])
  /\ phase' = "normalize"
  /\ UNCHANGED <<vars, args, pass, started, cwd>>

(* What realpath finds, be it a directory or not.                          *)
Existing == Directories \cup Files

Resolve(dir, path) == IF path.absolute THEN path.names ELSE dir \o path.names

AfterSettings ==
  IF settings.help THEN "exit" ELSE IF settings.daemon THEN "fork" ELSE "call"

(* Mutant of Normalize: the path is looked up but not replaced.            *)
NormalizeNot ==
  /\ phase = "normalize"
  /\ phase' = IF Resolve(cwd, settings.root) \in Existing
              THEN AfterSettings ELSE "panic"
  /\ UNCHANGED <<vars, args, optind, pass, settings, started, cwd>>

(* normalize_path of the file-root; only then -h is looked at.  The empty  *)
(* path, which it leaves alone, and "/" are the same directory for         *)
(* write_frame, which appends "/<name>".                                   *)
Normalize ==
  /\ phase = "normalize"
  /\ LET dir == Resolve(cwd, settings.root)
     IN  IF dir \in Existing
         THEN /\ settings' = With([root |-> Absolute(dir)])
              /\ phase' = AfterSettings
         ELSE phase' = "panic" /\ UNCHANGED settings
  /\ UNCHANGED <<vars, args, optind, pass, started, cwd>>

(* daemonize: the child goes on in "/", and whoever started hawkeye has    *)
(* its success before the camera has been looked for.                      *)
Daemonize ==
  /\ phase = "fork"
  /\ cwd' = <<>>
  /\ phase' = "call"
  /\ UNCHANGED <<vars, args, optind, pass, settings, started>>

ForkFails ==
  /\ phase = "fork" /\ "fork" \in Faults
  /\ phase' = "panic"
  /\ UNCHANGED <<vars, args, optind, pass, settings, started, cwd>>

(* strcmp: anything but "z16" is YUYV. *)
FormatOf(name) == IF name = "z16" THEN "Z16" ELSE "YUYV"

(* init_frame_buffers calls create_video_device, which opens the path it   *)
(* is given: there is a camera for it only where the node is.              *)
InitFrameBuffers ==
  /\ phase = "call"
  /\ asked' = [format |-> FormatOf(settings.format),
               size |-> Size(settings.width, settings.height)]
  /\ dev' = [dev EXCEPT !.exists =
               @ /\ Resolve(cwd, settings.device) = Camera]
  /\ phase' = "setup"
  /\ UNCHANGED <<pc, tries, format_in, size, current, granted, mapped, queued,
                 streaming, i, lists, framebuffer_size,
                 args, optind, pass, settings, started, cwd>>

SetupCamera == phase = "setup" /\ Setup /\ UNCHANGED startVars

-----------------------------------------------------------------------------
Start ==
  \/ ReadOption \/ ReadAgain \/ OptionsRead \/ Normalize
  \/ Daemonize \/ ForkFails \/ InitFrameBuffers \/ SetupCamera

Stopped == (phase \in Over \/ pc \in Terminal) /\ UNCHANGED allVars

StartNext == Start \/ Stopped

StartSpec == StartInit /\ [][StartNext]_allVars /\ WF_allVars(Start)

-----------------------------------------------------------------------------
StartTypeOK ==
  /\ TypeOK
  /\ phase \in {"options", "normalize", "fork", "call", "setup"} \cup Over
  /\ args \in CommandLines /\ optind \in 1 .. Len(args) + 1 /\ pass \in {1, 2}
  /\ DOMAIN settings = Settings
  /\ \A s \in DOMAIN ValuesOf : settings[s] \in ValuesOf[s]
  /\ started \in Starts /\ cwd \in Directories

(* What the command line says of a setting: its last option, or the        *)
(* default.                                                                *)
Meant(s) ==
  LET given == {n \in DOMAIN args : s \in DOMAIN args[n]}
  IN  IF given = {} THEN Defaults[s]
      ELSE LET last == CHOOSE n \in given : \A k \in given : k <= n
           IN  args[last][s]

(* After both passes over the command line every setting is what the last  *)
(* option for it says, or its default, pushed into its range; the setup is *)
(* asked for exactly that, whatever the camera then makes of it; and a     *)
(* command line with an option there is not, or with -h, never gets there. *)
SettingsAsMeant ==
  /\ phase \in {"fork", "call", "setup"} =>
       /\ \A n \in DOMAIN args : Known(args[n])
       /\ ~Meant("help")
       /\ \A s \in Settings \ {"fps", "quality", "root"} :
            settings[s] = Meant(s)
       /\ settings.fps \in 1 .. 50
       /\ Meant("fps") \in 1 .. 50 => settings.fps = Meant("fps")
       /\ settings.quality \in 1 .. 100
       /\ Meant("quality") \in 1 .. 100 => settings.quality = Meant("quality")
  /\ phase = "setup" =>
       asked = [format |-> IF Meant("format") = "z16" THEN "Z16" ELSE "YUYV",
                size |-> Size(Meant("width"), Meant("height"))]

(* The image goes to the path the user named from where hawkeye was        *)
(* started, although the daemon has moved to "/" when it is first written; *)
(* and a path that is not there is refused while there is someone to tell. *)
(* (One that is no directory is not: the first write_frame panics on it.)  *)
FramesGoWhereMeant ==
  phase \in {"fork", "call", "setup"} =>
    /\ Resolve(cwd, settings.root) = Resolve(started, Meant("root"))
    /\ Resolve(cwd, settings.root) \in Existing

(* The start ends: with the camera running, or with the process.  *)
Settles == <>(phase \in Over \/ pc \in Terminal)
=============================================================================
