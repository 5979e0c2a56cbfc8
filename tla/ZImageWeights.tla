--------------------------- MODULE ZImageWeights ---------------------------
(***************************************************************************)
(* The Z-Image BF16 weights on disk: downloaded, exported to one file per  *)
(* tensor, judged ready by a few of these files, and read by the workers.  *)
(* The server checks them when it starts and before every Z-Image request; *)
(* it may be killed at any moment, and what it has written then stays.     *)
(***************************************************************************)
EXTENDS Naturals, Sequences

CONSTANTS
  Tensors,     \* tensors of each component
  Judged,      \* those whose files z_image_bf16_required_files names
  Snapshots,   \* what the local Hugging Face cache may hold of the repository
  AutoDownload,\* config::auto_download_z_image_bf16
  MaxChecks,   \* bound: checks of the weights in a behaviour
  DiskFaults   \* may the write of a JSON file be lost?

Components == {"transformer", "text", "vae"}

\* The files of the repository; "info" is the list of its files.
Files == Components \cup {"tokenizer"}
Downloads == Files \cup {"info"}

\* A local snapshot of it: the files it lists, those it holds, and what its list
\* leads to of a component: all tensors where the index of the shards or the single
\* file is listed, otherwise those of whatever shards are there.
SnapshotType ==
  [listed : SUBSET Files, held : SUBSET Files,
   tensors : [Components -> SUBSET (1 .. Tensors)]]

\* The files of the output: <<component, i>> holds the i-th tensor and
\* <<component, 0>> its shapes.json or manifest; the tokenizer is a copy.
Manifest(component) == <<component, 0>>
Tokenizer == <<"tokenizer", 0>>
Outputs == (Components \X (0 .. Tensors)) \cup {Tokenizer}

\* What the workers compute with.
Weights == (Components \X (1 .. Tensors)) \cup {Tokenizer}

Required ==
  (Components \X Judged) \cup {Manifest("transformer"), Tokenizer}

ASSUME StoreAssumption ==
  /\ Tensors \in Nat \ {0}
  /\ Judged \subseteq 1 .. Tensors
  /\ \E last \in Judged : \A i \in Judged : i <= last
  /\ Snapshots \subseteq SnapshotType /\ Snapshots # {}
  /\ \A s \in Snapshots :
       /\ s.held \subseteq s.listed /\ s.listed \subseteq s.held \cup Components
       /\ \A c \in s.listed \ s.held : s.tensors[c] = 1 .. Tensors
  /\ AutoDownload \in BOOLEAN
  /\ DiskFaults \in BOOLEAN
  /\ MaxChecks \in Nat

VARIABLES
  snapshot, \* the local snapshot, which the server never changes
  pc,       \* where the server is with its weights
  boot,     \* is this the check at startup? (else it is that of a request)
  force,    \* config::force_z_image_bf16_download
  at,       \* the step of the plan that is being taken
  stage,    \* how far that step is
  partial,  \* the .partial files of the downloads
  cached,   \* the downloaded files
  out,      \* the output files
  checks    \* checks so far

\* History variables.
VARIABLES
  prepared, \* was the check that is going on decided by a preparation?
  forced    \* did the server ever run with force?

process == <<pc, boot, force, at, stage>>
cache == <<partial, cached>>
history == <<prepared, forced>>
vars == <<snapshot, process, cache, out, checks, history>>

\* What a file is: not there, with a part of its bytes, or with all of them.
FileState == {"absent", "part", "whole"}

-----------------------------------------------------------------------------
(* prepare_z_image_bf16_weights_cpp, file by file.                          *)

Step(op, file) == [op |-> op, file |-> file]
Fetch(file) == << Step("fetch", file) >>
Bins(component) == [i \in 1 .. Tensors |-> Step("bin", <<component, i>>)]
Export(component) == Bins(component) \o << Step("json", Manifest(component)) >>

Listing == Fetch("info") \o << Step("find", "info") >>
Shards == Fetch("transformer") \o Fetch("text") \o Fetch("vae")
CopyTokenizer == Fetch("tokenizer") \o << Step("copy", Tokenizer) >>

\* Mutant: the smallest component first.
PlanVaeFirst ==
  Listing \o Shards \o Export("vae") \o Export("transformer") \o Export("text") \o
  CopyTokenizer

Plan ==
  Listing \o Shards \o Export("transformer") \o Export("text") \o CopyTokenizer \o
  Export("vae")

Ready == \A f \in Required : out[f] # "absent"

TypeOK ==
  /\ snapshot \in Snapshots
  /\ pc \in {"down", "checking", "preparing", "cleaning", "ready", "serving"}
  /\ boot \in BOOLEAN /\ force \in BOOLEAN
  /\ at \in 1 .. Len(Plan) + 1
  /\ stage \in {"start", "resume", "curl", "rename", "open", "write"}
  /\ partial \in [Downloads -> FileState]
  /\ cached \in [Downloads -> FileState]
  /\ out \in [Outputs -> FileState]
  /\ checks \in 0 .. MaxChecks
  /\ prepared \in BOOLEAN /\ forced \in BOOLEAN

Init ==
  /\ snapshot \in Snapshots
  /\ pc = "down" /\ boot = FALSE /\ force = FALSE
  /\ at = 1 /\ stage = "start"
  /\ partial = [f \in Downloads |-> "absent"]
  /\ cached = [f \in Downloads |-> "absent"]
  /\ out = [f \in Outputs |-> "absent"]
  /\ checks = 0
  /\ prepared = FALSE /\ forced = FALSE

Taking(op, s) ==
  /\ pc = "preparing" /\ at <= Len(Plan)
  /\ Plan[at].op = op /\ stage = s
File == Plan[at].file

\* On to the next step of the plan, or to the next stage of this one.
Advance ==
  /\ at' = at + 1
  /\ stage' = "start"
  /\ UNCHANGED <<pc, boot, force>>
Enter(s) == stage' = s /\ UNCHANGED <<pc, boot, force, at>>

\* The end of a check.  An exception ends main at startup and a request later.
Settle(label) == pc' = label /\ at' = 1 /\ stage' = "start" /\ UNCHANGED <<boot, force>>
Abort == Settle(IF boot THEN "down" ELSE "serving")

-----------------------------------------------------------------------------
(* repo_files, component_safetensor_files and repo_file_path: snapshot,     *)
(* Hugging Face downloader, curl.                                           *)

\* A local snapshot that lists anything is taken for the whole repository.
Remote == force \/ snapshot.listed = {}
Listed == IF Remote THEN Files ELSE snapshot.listed

\* The local snapshot, which is not asked when force is set, has the file.
InSnapshot(file) ==
  IF file = "info" THEN snapshot.listed # {} ELSE file \in snapshot.held

\* The tensors in the files that component_safetensor_files returns.
Found(component) == IF Remote THEN 1 .. Tensors ELSE snapshot.tensors[component]

\* The weights that a preparation comes to write.
Sought ==
  {f \in Weights : IF f = Tokenizer THEN "tokenizer" \in Listed ELSE f[2] \in Found(f[1])}

\* Every component has files in the list, or there is an exception.
FindComponents ==
  /\ Taking("find", "start")
  /\ IF Components \subseteq Listed THEN Advance ELSE Abort
  /\ UNCHANGED <<cache, out, checks, history>>

MustFetch ==
  /\ File \in Listed \cup {"info"}
  /\ force \/ (~InSnapshot(File) /\ cached[File] = "absent")

\* A file of the local snapshot or of the cache is used as it is; a tokenizer
\* that is not listed is not asked for.
FetchNothing ==
  /\ Taking("fetch", "start")
  /\ ~MustFetch
  /\ Advance
  /\ UNCHANGED <<cache, out, checks, history>>

\* Only large files go through the downloader, which puts them in place whole.
HfDownload ==
  /\ Taking("fetch", "start")
  /\ MustFetch /\ File \in Components
  /\ cached' = [cached EXCEPT ![File] = "whole"]
  /\ Advance
  /\ UNCHANGED <<partial, out, checks, history>>

\* curl starts, or goes on with what an earlier run left.
CurlStart ==
  /\ Taking("fetch", "start")
  /\ MustFetch
  /\ partial' = [partial EXCEPT ![File] = "part"]
  /\ Enter(IF ~force /\ partial[File] # "absent" THEN "resume" ELSE "curl")
  /\ UNCHANGED <<cached, out, checks, history>>

Curling == Taking("fetch", "resume") \/ Taking("fetch", "curl")

\* curl exits with 0; the old file is removed.
CurlSucceeds ==
  /\ Curling
  /\ partial' = [partial EXCEPT ![File] = "whole"]
  /\ cached' = [cached EXCEPT ![File] = "absent"]
  /\ Enter("rename")
  /\ UNCHANGED <<out, checks, history>>

Rename ==
  /\ Taking("fetch", "rename")
  /\ cached' = [cached EXCEPT ![File] = partial[File]]
  /\ partial' = [partial EXCEPT ![File] = "absent"]
  /\ Advance
  /\ UNCHANGED <<out, checks, history>>

\* Mutant: the exit code of curl is not looked at.
CurlFailsUnnoticed ==
  /\ Curling
  /\ Enter("rename")
  /\ UNCHANGED <<cache, out, checks, history>>

\* Mutant: a resume that failed is resumed again.
CurlFailsResumed ==
  /\ Curling
  /\ IF stage = "resume"
       THEN Enter("start") /\ UNCHANGED partial
       ELSE partial' = [partial EXCEPT ![File] = "absent"] /\ Abort
  /\ UNCHANGED <<cached, out, checks, history>>

\* A resume that fails starts over, once; a download that fails is given up.
CurlFails ==
  /\ Curling
  /\ IF stage = "resume"
       THEN Enter("curl") /\ UNCHANGED partial
       ELSE partial' = [partial EXCEPT ![File] = "absent"] /\ Abort
  /\ UNCHANGED <<cached, out, checks, history>>

-----------------------------------------------------------------------------
(* for_each_safetensor, write_u16_file, the JSON files and the tokenizer.   *)

\* The tensor is in none of the files.
NoTensor ==
  /\ Taking("bin", "start")
  /\ File \notin Sought
  /\ Advance
  /\ UNCHANGED <<cache, out, checks, history>>

\* Mutant: a tensor file that is there is kept.
OpenBinIfMissing ==
  /\ Taking("bin", "start") /\ File \in Sought
  /\ IF out[File] = "absent" THEN Enter("open") ELSE Advance
  /\ UNCHANGED <<cache, out, checks, history>>

OpenBin ==
  /\ Taking("bin", "start") /\ File \in Sought
  /\ out' = [out EXCEPT ![File] = "absent"]
  /\ Enter("open")
  /\ UNCHANGED <<cache, checks, history>>

\* A JSON file or the tokenizer is overwritten in place.
CreateFile ==
  /\ \/ Taking("bin", "open") \/ Taking("json", "start")
     \/ Taking("copy", "start") /\ "tokenizer" \in Listed
  /\ out' = [out EXCEPT ![File] = "part"]
  /\ Enter("write")
  /\ UNCHANGED <<cache, checks, history>>

\* A tokenizer that is not listed has to be there already.
CopyNothing ==
  /\ Taking("copy", "start")
  /\ "tokenizer" \notin Listed
  /\ IF out[Tokenizer] # "absent" THEN Advance ELSE Abort
  /\ UNCHANGED <<cache, out, checks, history>>

CloseFile ==
  /\ \E op \in {"bin", "json", "copy"} : Taking(op, "write")
  /\ out' = [out EXCEPT ![File] = "whole"]
  /\ Advance
  /\ UNCHANGED <<cache, checks, history>>

\* Nothing looks at whether the write of a JSON file went well.
LoseJson ==
  /\ DiskFaults
  /\ Taking("json", "write")
  /\ Advance
  /\ UNCHANGED <<cache, out, checks, history>>

\* A write or a check of its size fails.
ExportFails ==
  /\ Taking("bin", "open") \/ Taking("bin", "write") \/ Taking("copy", "write")
  /\ Abort
  /\ UNCHANGED <<cache, out, checks, history>>

-----------------------------------------------------------------------------
(* cleanup_z_image_download_artifacts.                                      *)

StartCleaning ==
  /\ pc = "preparing" /\ at = Len(Plan) + 1
  /\ Settle("cleaning")
  /\ UNCHANGED <<cache, out, checks, history>>

\* Mutant: the downloads are removed by their names.
ArtifactsByName == {"cached"} \X {f \in Downloads : cached[f] # "absent"}

\* The folder of the downloads and, beside it, the list, but not the .partial file
\* of the list.
Artifacts ==
  ({"cached"} \X {f \in Downloads : cached[f] # "absent"}) \cup
  ({"partial"} \X {f \in Files : partial[f] # "absent"})

\* remove_all, one file after the other.  (A file that cannot be removed is left
\* with a warning; that is left out.)
RemoveArtifact ==
  /\ pc = "cleaning"
  /\ \E a \in Artifacts :
       IF a[1] = "cached"
         THEN cached' = [cached EXCEPT ![a[2]] = "absent"] /\ UNCHANGED partial
         ELSE partial' = [partial EXCEPT ![a[2]] = "absent"] /\ UNCHANGED cached
  /\ UNCHANGED <<process, out, checks, history>>

\* The check that follows a preparation.
FinishPreparation ==
  /\ pc = "cleaning"
  /\ Artifacts = {}
  /\ IF Ready THEN Settle("ready") ELSE Abort
  /\ prepared' = TRUE
  /\ UNCHANGED <<cache, out, checks, forced>>

-----------------------------------------------------------------------------
(* ensure_z_image_bf16_weights, its callers, and crashes.                   *)

BeginCheck == checks < MaxChecks /\ checks' = checks + 1

Start ==
  /\ pc = "down"
  /\ BeginCheck
  /\ pc' = "checking" /\ boot' = TRUE
  /\ force' \in BOOLEAN
  /\ forced' = (forced \/ force')
  /\ prepared' = FALSE
  /\ UNCHANGED <<at, stage, cache, out>>

\* run_worker for a Z-Image request, under g_infer_mutex.
Request ==
  /\ pc = "serving"
  /\ BeginCheck
  /\ pc' = "checking" /\ boot' = FALSE
  /\ prepared' = FALSE
  /\ UNCHANGED <<force, at, stage, cache, out, forced>>

\* Mutant: the weights are prepared for every request.
CheckWeightsAlways ==
  /\ pc = "checking"
  /\ IF AutoDownload THEN Settle("preparing") ELSE Abort
  /\ UNCHANGED <<cache, out, checks, history>>

CheckWeights ==
  /\ pc = "checking"
  /\ IF ~force /\ Ready THEN Settle("ready")
     ELSE IF AutoDownload THEN Settle("preparing")
     ELSE Abort
  /\ UNCHANGED <<cache, out, checks, history>>

\* run_server is called, or the worker has run.
Serve ==
  /\ pc = "ready"
  /\ Settle("serving")
  /\ UNCHANGED <<cache, out, checks, history>>

\* The process is killed.  (Nothing is synced, so a machine that loses its power
\* may lose more than this; that is left out.)
Crash ==
  /\ pc # "down"
  /\ Settle("down")
  /\ UNCHANGED <<cache, out, checks, history>>

FetchFile ==
  FindComponents \/ FetchNothing \/ HfDownload \/ CurlStart \/ CurlSucceeds \/ Rename \/ CurlFails
WriteFile == NoTensor \/ OpenBin \/ CreateFile \/ CopyNothing \/ CloseFile \/ LoseJson \/ ExportFails
Clean == StartCleaning \/ RemoveArtifact \/ FinishPreparation
Check == CheckWeights \/ FetchFile \/ WriteFile \/ Clean

Next == (Start \/ Request \/ Check \/ Serve \/ Crash) /\ UNCHANGED snapshot

Spec == Init /\ [][Next]_vars

\* A check that was begun goes on; nobody has to start the server.
FairSpec == Spec /\ WF_vars(Check /\ UNCHANGED snapshot)

-----------------------------------------------------------------------------
(* What must hold.                                                          *)

\* A preparation that runs to its end leaves every weight file whole that its list
\* of files led it to, whatever earlier ones left half done when they were killed or
\* failed.  (From a snapshot without an index, that is not every weight.)
PreparationRepairs ==
  pc = "ready" /\ prepared => \A f \in Sought : out[f] = "whole"

\* ... and it leaves nothing of its downloads behind, the partial files of
\* earlier ones included; only the .partial file of the list may stay, and only
\* once a preparation was forced.
ArtifactsRemoved ==
  pc = "ready" /\ prepared =>
    \A f \in Downloads :
      cached[f] = "absent" /\ (partial[f] = "absent" \/ (f = "info" /\ forced))

\* A download is never used before all of it has arrived.
DownloadsWhole == \A f \in Downloads : cached[f] # "part"

\* Without force, the weights that the list of files leads to are whole when they are
\* judged ready but for those of the VAE, across any number of crashes: the VAE is
\* exported last, and as soon as its judged files exist no preparation is ever
\* started again.
ReadyButForVae ==
  pc = "ready" /\ ~forced => \A f \in Sought : f[1] # "vae" => out[f] = "whole"

\* Without force, once the files exist that readiness looks at, no file that is
\* whole is opened or removed: not by the preparation that goes on behind the last
\* of them, and not by any check of a request or of a later start.
WholeStaysWhole ==
  [][Ready /\ ~forced' => \A f \in Outputs : out[f] = "whole" => out'[f] = "whole"]_vars

\* Every check comes to an end, also one that goes on with the partial downloads
\* of an earlier one while the network fails again and again.
EveryCheckEnds == pc = "checking" ~> pc \in {"ready", "serving", "down"}

-----------------------------------------------------------------------------
(* The inductive invariant of the proofs.                                   *)

\* The step of the plan that writes an output file.
Base(c) == CASE c = "transformer" -> 5
             [] c = "text" -> Tensors + 6
             [] c = "vae" -> 2 * Tensors + 9
Place(f) == IF f = Tokenizer THEN 2 * Tensors + 9
            ELSE Base(f[1]) + (IF f[2] = 0 THEN Tensors + 1 ELSE f[2])

\* The last file of the plan that readiness looks at.
LastJudged == <<"vae", CHOOSE i \in Judged : \A j \in Judged : j <= i>>

\* What a step's stages rely on.
StageSound ==
  pc = "preparing" =>
    /\ stage \in {"resume", "curl"} => partial[File] # "absent"
    /\ stage = "rename" => partial[File] = "whole"
    /\ stage = "write" => out[File] # "absent"
    /\ stage \in {"open", "write"} /\ Plan[at].op # "json" => File \in Sought

FlagsSound ==
  /\ force => forced
  /\ pc \in {"checking", "preparing", "cleaning"} => ~prepared

\* Without force, what was begun of the list of files is still to be fetched.
ListFetched ==
  ~forced /\ partial["info"] # "absent" =>
    /\ snapshot.listed = {} /\ cached["info"] = "absent"
    /\ pc # "cleaning" /\ (pc = "preparing" => at = 1)

\* The steps that are behind have left their files.
Written(f) ==
  /\ f \in Sought => out[f] = "whole"
  /\ f \notin Components \X (1 .. Tensors) => out[f] # "absent"
PlanFollowed ==
  /\ pc = "preparing" => \A f \in Outputs : Place(f) < at => Written(f)
  /\ pc = "cleaning" => \A f \in Outputs : Written(f)

\* Without force, a weight that the list of files does not lead to is never written,
\* so that readiness can be reached only if it looks at others.  Then the last
\* judged file tells how far the only preparation that came to it has come.
ReadyFindable == Required \cap Weights \subseteq Sought
LastTells ==
  ~forced =>
    /\ pc = "ready" => Ready
    /\ \A f \in Weights \ Sought : out[f] = "absent"
    /\ ReadyFindable =>
         /\ out[LastJudged] # "absent" =>
              Ready /\ \A f \in Sought : f[1] # "vae" => out[f] = "whole"
         /\ out[LastJudged] = "absent" =>
              \A f \in Outputs : Place(f) >= Place(LastJudged) => out[f] = "absent"
         /\ pc = "preparing" =>
              \A f \in Outputs :
                Place(f) >= Place(LastJudged)
                  /\ (Place(f) > at \/ (Place(f) = at /\ stage # "write")) =>
                out[f] = "absent"

IInv ==
  /\ TypeOK
  /\ StageSound
  /\ FlagsSound
  /\ ListFetched
  /\ PlanFollowed
  /\ LastTells
  /\ DownloadsWhole
  /\ PreparationRepairs
  /\ ArtifactsRemoved

=============================================================================
