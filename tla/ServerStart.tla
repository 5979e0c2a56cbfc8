----------------------------- MODULE ServerStart -----------------------------
(***************************************************************************)
(* main, from the command line to the accept loop: where the installation  *)
(* is, what the flags say, where pictures go.  Everything after it reads   *)
(* server::config and nothing changes it any more.                         *)
(*                                                                         *)
(* Of the flags that only store their argument the ones are here whose     *)
(* default depends on the installation, --output-dir, and --steps for the  *)
(* numbers; the others are read in the same way.                           *)
(***************************************************************************)
EXTENDS Integers, Sequences, SequencesExt

CONSTANTS
  Dirs,          \* directories
  Parent,        \* [Dirs -> Dirs \cup {None}], the parent of each
  Starts,        \* [cwd, exe] the server may be started with; None is unknown
  Installs,      \* where complete installations may be: sets of places
  CommandLines,  \* sequences of arguments
  Numbers,       \* the integers that texts denote
  Rooted,        \* arguments that are absolute paths
  PortBits,      \* width of unsigned short: 16
  IntBits,       \* width of int: 32
  None

\* A directory, or its child "vigenflow_win".
Places == Dirs \X {"", "vigenflow_win"}

\* Path flags and the field of server::config each stores its argument in.
PathFlags == {"-w", "-n", "-d", "--exe-base-dir"}
Field(flag) ==
  CASE flag = "-w" -> "model_weights"
    [] flag = "-n" -> "npu_files"
    [] flag = "--exe-base-dir" -> "exe_models"
    [] flag = "-d" -> "workdir"
PathFields == {Field(flag) : flag \in PathFlags}
Flags == PathFlags \cup {"-o", "-p", "--steps", "-k", "--no-flux-klein-bf16-auto-download",
                         "-h"}

\* Arguments that begin with '-'.
Dashed == Flags \cup {"-1", "--bogus"}

\* A path is a sequence of its parts; these are relative.
DefaultRoot == <<".">>
Defaults == [f \in PathFields |-> DefaultRoot \o <<f>>]

ASSUME StartAssumption ==
  /\ Parent \in [Dirs -> Dirs \cup {None}]
  /\ \A start \in Starts : {start.cwd, start.exe} \subseteq Dirs \cup {None}
  /\ \A places \in Installs : places \subseteq Places
  /\ CommandLines \subseteq Seq(STRING)
  /\ \A line \in CommandLines : \A k \in DOMAIN line : line[k] # None
  /\ DOMAIN Numbers \cap Flags = {} /\ \A a \in DOMAIN Numbers : Numbers[a] \in Int
  /\ PortBits \in Nat /\ IntBits \in Nat /\ PortBits < IntBits
  /\ 4 < 2 ^ (IntBits - 1)  \* the default number of steps is an int

VARIABLES
  start,      \* how the server was started, and where installations are
  argv,       \* its arguments
  i,          \* the next one
  phase,      \* where main is
  paths,      \* config::weights_path, npu_base_dir, exe_base_dir, workdir
  output,     \* config::output_dir
  specified,  \* output_dir_specified
  port,       \* config::port
  url,        \* the port in config::public_base_url
  settings,   \* config::model_id, keep_images, default_steps, auto_download...
  given       \* history: the argument each path was given

startVars ==
  <<start, argv, i, phase, paths, output, specified, port, url, settings, given>>

Phases == {"search", "arguments", "output", "weights", "listen", "serving", "exited"}

\* The integers of type int.
IntHalf == 2 ^ (IntBits - 1)
Ints == -IntHalf .. IntHalf - 1

\* The model is the default one or an argument.
Settings ==
  [model : {"flux.2-klein-4B"} \cup STRING, keep : BOOLEAN, steps : Ints, auto : BOOLEAN]

StartTypeOK ==
  /\ phase \in Phases
  /\ argv \in CommandLines /\ i \in 1 .. Len(argv) + 1
  /\ DOMAIN paths = PathFields
  /\ specified \in BOOLEAN
  /\ port \in 0 .. 2 ^ PortBits - 1
  /\ settings \in Settings

StartInit ==
  /\ \E s \in Starts, places \in Installs :
       start = [cwd |-> s.cwd, exe |-> s.exe, installs |-> places]
  /\ argv \in CommandLines
  /\ i = 1
  /\ phase = "search"
  /\ paths = Defaults
  /\ output = <<"..", "images">>
  /\ specified = FALSE
  /\ port = 11283 % 2 ^ PortBits
  /\ url = 11283 % 2 ^ PortBits
  /\ settings = [model |-> "flux.2-klein-4B", keep |-> FALSE, steps |-> 4, auto |-> TRUE]
  /\ given = [f \in PathFields |-> None]

-----------------------------------------------------------------------------
(* initialize_default_paths.                                                *)

\* path_and_parents, from the directory upwards.
Ancestors[d \in Dirs] ==
  <<d>> \o (IF Parent[d] = None THEN << >> ELSE Ancestors[Parent[d]])
Up(d) == IF d = None THEN << >> ELSE Ancestors[d]

\* The directory of the executable is only looked at if the working directory is
\* known: both calls share one error code.
SearchRoots ==
  Up(start.cwd) \o (IF start.cwd = None THEN << >> ELSE Up(start.exe))

\* discover_install_root: the first place on the way up, a directory before its
\* vigenflow_win.
Candidates ==
  [k \in 1 .. 2 * Len(SearchRoots) |->
     <<SearchRoots[(k + 1) \div 2], IF k % 2 = 1 THEN "" ELSE "vigenflow_win">>]
InstallRoot ==
  LET complete == {k \in DOMAIN Candidates : Candidates[k] \in start.installs}
  IN  IF complete = {} THEN None ELSE Candidates[Min(complete)]

\* The paths of an installation.
PathsOf(root) ==
  IF root = None THEN Defaults
  ELSE [f \in PathFields |-> root \o (IF f = "workdir" THEN << >> ELSE <<f>>)]

\* Mutant: the installation of the working directory goes into one path only.
FindInstallPartly ==
  /\ phase = "search"
  /\ paths' = [paths EXCEPT !["model_weights"] = PathsOf(InstallRoot)["model_weights"]]
  /\ phase' = "arguments"
  /\ UNCHANGED <<start, argv, i, output, specified, port, url, settings, given>>

FindInstall ==
  /\ phase = "search"
  /\ paths' = PathsOf(InstallRoot)
  /\ phase' = "arguments"
  /\ UNCHANGED <<start, argv, i, output, specified, port, url, settings, given>>

-----------------------------------------------------------------------------
(* parse_cli: one argument, or a flag with its own.                         *)

Reading(flags) == phase = "arguments" /\ i <= Len(argv) /\ argv[i] \in flags
HasValue == i < Len(argv)
Value == argv[i + 1]

\* std::stoi throws on the other texts.
IsNumber(a) == a \in DOMAIN Numbers /\ Numbers[a] \in Ints

\* The argument of a flag is taken as it is, a flag or not.
Next1 == i' = i + 1 /\ UNCHANGED phase
Next2 == i' = i + 2 /\ UNCHANGED phase

TakeModel ==
  /\ phase = "arguments" /\ i <= Len(argv)
  /\ argv[i] # "" /\ argv[i] \notin Dashed
  /\ settings' = [settings EXCEPT !.model = argv[i]]
  /\ Next1
  /\ UNCHANGED <<start, argv, paths, output, specified, port, url, given>>

TakePath ==
  /\ Reading(PathFlags) /\ HasValue
  /\ paths' = [paths EXCEPT ![Field(argv[i])] = <<Value>>]
  /\ given' = [given EXCEPT ![Field(argv[i])] = Value]
  /\ Next2
  /\ UNCHANGED <<start, argv, output, specified, port, url, settings>>

TakeOutput ==
  /\ Reading({"-o"}) /\ HasValue
  /\ output' = <<Value>>
  /\ specified' = TRUE
  /\ Next2
  /\ UNCHANGED <<start, argv, paths, port, url, settings, given>>

\* static_cast<unsigned short>(std::stoi(...)).
TakePort ==
  /\ Reading({"-p"}) /\ HasValue /\ IsNumber(Value)
  /\ port' = Numbers[Value] % 2 ^ PortBits
  /\ url' = port'
  /\ Next2
  /\ UNCHANGED <<start, argv, paths, output, specified, settings, given>>

TakeNumber ==
  /\ Reading({"--steps"}) /\ HasValue /\ IsNumber(Value)
  /\ settings' = [settings EXCEPT !.steps = Numbers[Value]]
  /\ Next2
  /\ UNCHANGED <<start, argv, paths, output, specified, port, url, given>>

\* Anything but "true" and "1" is false.
TakeKeep ==
  /\ Reading({"-k"}) /\ HasValue
  /\ settings' = [settings EXCEPT !.keep = Value \in {"true", "1"}]
  /\ Next2
  /\ UNCHANGED <<start, argv, paths, output, specified, port, url, given>>

TakeSwitch ==
  /\ Reading({"--no-flux-klein-bf16-auto-download"})
  /\ settings' = [settings EXCEPT !.auto = FALSE]
  /\ Next1
  /\ UNCHANGED <<start, argv, paths, output, specified, port, url, given>>

Exit ==
  /\ phase' = "exited"
  /\ UNCHANGED <<start, argv, i, paths, output, specified, port, url, settings, given>>

Help == Reading({"-h"}) /\ Exit

\* An unknown argument, a flag without its own, or one that is no number.  (The
\* empty argument is no model; a number flag at the end reads the null that ends
\* argv.)
RejectArguments ==
  /\ phase = "arguments" /\ i <= Len(argv)
  /\ \/ argv[i] = "" \/ argv[i] \in Dashed \ Flags
     \/ argv[i] \in Flags \ {"--no-flux-klein-bf16-auto-download", "-h"} /\ ~HasValue
     \/ argv[i] \in {"-p", "--steps"} /\ HasValue /\ ~IsNumber(Value)
  /\ Exit

-----------------------------------------------------------------------------
(* The rest of main.                                                        *)

Temp == <<"/tmp">>
IsAbsolute(path) == path = Temp \/ path[1] \in Rooted
Absolute(path) == IF IsAbsolute(path) THEN path ELSE <<start.cwd>> \o path

\* Mutant: the flag that keeps pictures is forgotten.
ChooseOutputByPath ==
  LET chosen == IF specified THEN output ELSE Temp IN
  /\ phase = "arguments" /\ i > Len(argv)
  /\ IsAbsolute(chosen) \/ start.cwd # None
  /\ output' = Absolute(chosen)
  /\ phase' = "output"
  /\ UNCHANGED <<start, argv, i, paths, specified, port, url, settings, given>>

\* Pictures that are not to be kept go to the system's directory for temporary
\* files, unless the flags name another.
Chosen == IF ~settings.keep /\ ~specified THEN Temp ELSE output

ChooseOutput ==
  /\ phase = "arguments" /\ i > Len(argv)
  /\ IsAbsolute(Chosen) \/ start.cwd # None
  /\ output' = Absolute(Chosen)
  /\ phase' = "output"
  /\ UNCHANGED <<start, argv, i, paths, specified, port, url, settings, given>>

\* A relative path without a working directory, or no directory for temporary files.
LoseOutput ==
  /\ phase = "arguments" /\ i > Len(argv)
  /\ \/ Chosen = Temp
     \/ ~IsAbsolute(Chosen) /\ start.cwd = None
  /\ Exit

\* ensure_output_dir, ensure_model_weights_ready (see ZImageWeights and
\* FluxWeights) and run_server's acceptor; each may throw.
Proceed ==
  /\ \/ phase = "output" /\ phase' = "weights"
     \/ phase = "weights" /\ phase' = "listen"
     \/ phase = "listen" /\ phase' = "serving"
  /\ UNCHANGED <<start, argv, i, paths, output, specified, port, url, settings, given>>

Fail == phase \in {"output", "weights", "listen"} /\ Exit

StartNext ==
  \/ FindInstall
  \/ TakeModel \/ TakePath \/ TakeOutput \/ TakePort \/ TakeNumber \/ TakeKeep
  \/ TakeSwitch \/ Help \/ RejectArguments
  \/ ChooseOutput \/ LoseOutput \/ Proceed \/ Fail

-----------------------------------------------------------------------------
(* What must hold.                                                          *)

\* The server works with one installation: a path is what its last flag says, and
\* all the others belong to the same root, found before the flags were read.
OneInstallation ==
  phase = "serving" =>
    \E root \in Places \cup {None} : \A f \in PathFields :
      paths[f] = IF given[f] # None THEN <<given[f]>> ELSE PathsOf(root)[f]

\* Pictures that are to be kept never go where the system removes them, unless the
\* flags say so, in whatever order the flags come; the worker, which runs in
\* another directory, is given an absolute path; and the URLs that clients are given
\* name the port the server listens on, whatever number the flag had.
KeptPicturesSafe ==
  phase = "serving" =>
    /\ url = port
    /\ settings.keep /\ ~specified => output # Temp
    /\ ~settings.keep /\ ~specified => output = Temp
    /\ IsAbsolute(output) \/ output[1] \in Dirs

-----------------------------------------------------------------------------
(* The inductive invariant of the proofs.                                   *)

\* Every path is that of one installation or the argument of a flag.
PathsOfOneRoot ==
  /\ DOMAIN paths = PathFields /\ DOMAIN given = PathFields
  /\ phase = "search" => paths = Defaults /\ given = [f \in PathFields |-> None]
  /\ phase # "search" =>
       \E root \in Places \cup {None} : \A f \in PathFields :
         paths[f] = IF given[f] # None THEN <<given[f]>> ELSE PathsOf(root)[f]

\* Where pictures go is chosen once the flags are read, and not changed after.
OutputChosen ==
  IF phase \in {"search", "arguments"}
    THEN output = IF specified THEN <<output[1]>> ELSE <<"..", "images">>
    ELSE phase # "exited" =>
           /\ settings.keep /\ ~specified => output # Temp
           /\ ~settings.keep /\ ~specified => output = Temp
           /\ IsAbsolute(output) \/ output[1] \in Dirs

StartIInv ==
  /\ start.cwd \in Dirs \cup {None} /\ start.installs \subseteq Places
  /\ argv \in CommandLines /\ i \in Nat \ {0}
  /\ url = port
  /\ PathsOfOneRoot
  /\ OutputChosen

=============================================================================
