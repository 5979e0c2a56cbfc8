---------------------------- MODULE FluxWeights ----------------------------
(***************************************************************************)
(* The FLUX.2-klein BF16 weights on disk.  A preparation asks for groups   *)
(* of files it finds wanting: first from packs in the NPU repository, one  *)
(* pack for several groups; when that throws, from single files of that    *)
(* repository; and what is wanting then, from the raw repository.  Files   *)
(* that are there are kept, so every preparation goes on where an earlier  *)
(* one was killed.                                                         *)
(*                                                                         *)
(* Downloads are coarser here than in ZImageWeights, whose code is the     *)
(* same: the retry of a resume is part of one download, a file of a local  *)
(* snapshot is a download that succeeds, and one without a component is a  *)
(* download that fails.                                                    *)
(***************************************************************************)
EXTENDS Naturals, Sequences

Groups == {"transformer", "final", "text", "tokenizer", "vae"}
Packs == {"denoising", "text", "vae"}

CONSTANTS
  Size,      \* files of each group
  Judged,    \* those that group_ready looks at
  Asked,     \* those that worker.cpp's own list of required files names
  Repos,     \* what the NPU repository may hold
  Configs,   \* configurations the server may be started with
  Crashes,   \* may the process be killed?
  MaxChecks  \* bound: checks of the weights in a behaviour

\* Packs, groups whose files are there one by one, and whether the VAE of these is
\* at the root, not under a prefix.  Of the raw repository: the tensors of the
\* shards that its list of files leads to; without an index in a local snapshot
\* these are the shards that the snapshot happens to hold.
RepoType ==
  [packed : SUBSET Packs, legacy : SUBSET (Groups \ {"tokenizer"}), atRoot : BOOLEAN,
   raw : [{"transformer", "text"} -> SUBSET Nat]]
ConfigType == [force : BOOLEAN, auto : BOOLEAN, default : BOOLEAN]

ASSUME FluxAssumption ==
  /\ Size \in [Groups -> Nat \ {0}] /\ Size["tokenizer"] = 1
  /\ Judged \in [Groups -> SUBSET Nat] /\ Asked \in [Groups -> SUBSET Nat]
  /\ \A g \in Groups :
       Judged[g] \subseteq 1 .. Size[g] /\ Asked[g] \subseteq Judged[g] /\ Asked[g] # {}
  /\ Repos \subseteq RepoType
  /\ \A r \in Repos : \A g \in DOMAIN r.raw : r.raw[g] # {} /\ r.raw[g] \subseteq 1 .. Size[g]
  /\ Configs \subseteq ConfigType /\ Crashes \in BOOLEAN /\ MaxChecks \in Nat

\* An output file, by its group and its place in it.
Outputs == UNION {{g} \X (1 .. Size[g]) : g \in Groups}

\* A file of a repository: the list of its files, a pack, the shards of a raw
\* component, the tokenizer, or the file of one tensor.
NpuFile(name) == <<"npu", name, 0>>
RawFile(name) == <<"raw", name, 0>>
LegacyFile(f) == <<"npu", f[1], f[2]>>
Downloads ==
  {NpuFile(p) : p \in Packs \cup {"info"}} \cup
  {RawFile(n) : n \in {"info", "transformer", "text", "tokenizer", "final"}} \cup
  {LegacyFile(f) : f \in {o \in Outputs : o[1] # "tokenizer"}}

VARIABLES
  repo,     \* what the NPU repository holds
  pc,       \* where the server is with its weights
  boot,     \* is this the check at startup? (else it is that of a request)
  config,   \* the configuration of this start
  need,     \* the groups found wanting
  source,   \* where they are being taken from
  todo,     \* the steps left with this source
  stage,    \* how far the first of them is
  partial,  \* downloads that have begun and not ended
  cached,   \* downloaded files
  out,      \* the output files
  checks    \* checks so far

\* History variables, about the check that is going on but for the last.
VARIABLES
  wanted,   \* the groups its preparation found wanting at first
  fellback, \* did the packs throw?
  prepared, \* did its preparation finish?
  forced    \* did the server ever run with force?

process == <<pc, boot, config, need, source, todo, stage>>
cache == <<partial, cached>>
history == <<wanted, fellback, prepared, forced>>
vars == <<repo, process, cache, out, checks, history>>

\* A file that is being copied has some of its bytes, at first none.
FileState == {"absent", "empty", "part", "whole"}

\* file_is_present, of the preparation, and file_exists, of worker.cpp.
Present(f) == out[f] \in {"part", "whole"}
Exists(f) == out[f] # "absent"

GroupReady(g) == \A i \in Judged[g] : Present(<<g, i>>)
ServerReady == \A g \in Groups : \A i \in Asked[g] : Exists(<<g, i>>)

Needed(force) == {g \in Groups : force \/ ~GroupReady(g)}

-----------------------------------------------------------------------------
(* What each source has to do.                                              *)

Fetch(d) == << [op |-> "fetch", from |-> d] >>
Bin(f) == [op |-> "bin", file |-> f]
Copy(f, d) == [op |-> "copy", file |-> f, from |-> d]
Mirror(f) == [op |-> "mirror", file |-> f, from |-> LegacyFile(f)]
When(condition, steps) == IF condition THEN steps ELSE << >>

\* mirror_vae_from_npu_repo takes no prefix.
VaeAtRoot == "vae" \in repo.legacy /\ repo.atRoot

\* The shards of the raw component hold this tensor.  With force the list of files
\* is the repository's own.
InShards(f) ==
  source = "raw" /\ f[1] \in DOMAIN repo.raw /\ ~config.force => f[2] \in repo.raw[f[1]]

\* Downloads that do not fail for want of the file.
Offered == Downloads \ {NpuFile(p) : p \in Packs \ repo.packed}

FilesOf(group) == [i \in 1 .. Size[group] |-> <<group, i>>]

\* Mutant: the shards are not sorted.
BinsUnsorted(files) ==
  LET n == Len(files) IN
  [i \in DOMAIN files |->
     Bin(files[CASE n > 2 /\ i = n -> n - 1 [] n > 2 /\ i = n - 1 -> n [] OTHER -> i])]

Bins(files) == [i \in DOMAIN files |-> Bin(files[i])]

\* Mutant: the last tensor of a pack is missed.
ContentsButLast(pack) ==
  IF pack = "denoising"
    THEN SubSeq(FilesOf("transformer"), 1, 1) \o FilesOf("final")
    ELSE FilesOf(pack)

\* A pack's tensors come in the order of their names: the final layer's stand
\* between the transformer's.
Contents(pack) ==
  IF pack = "denoising"
    THEN SubSeq(FilesOf("transformer"), 1, 1) \o FilesOf("final") \o
         SubSeq(FilesOf("transformer"), 2, Size["transformer"])
    ELSE FilesOf(pack)
Unpack(pack) == Fetch(NpuFile(pack)) \o Bins(Contents(pack))

PackedSteps(groups) ==
  When(groups \cap {"transformer", "final"} # {}, Unpack("denoising")) \o
  When("text" \in groups, Unpack("text")) \o
  When("vae" \in groups, Unpack("vae"))

MirrorGroup(g) == When(g \in repo.legacy, [i \in 1 .. Size[g] |-> Mirror(<<g, i>>)])
MirrorSteps ==
  Fetch(NpuFile("info")) \o MirrorGroup("transformer") \o MirrorGroup("final") \o
  MirrorGroup("text") \o MirrorGroup("vae")

TokenizerSteps(groups) ==
  When("tokenizer" \in groups, << Copy(<<"tokenizer", 1>>, RawFile("tokenizer")) >>)

VaeSteps ==
  Fetch(NpuFile("info")) \o
  IF VaeAtRoot
    THEN [i \in 1 .. Size["vae"] |-> Copy(<<"vae", i>>, LegacyFile(<<"vae", i>>))]
    ELSE << [op |-> "throw"] >>

RawSteps(groups) ==
  When(groups \cap {"transformer", "text"} # {}, Fetch(RawFile("info"))) \o
  When("transformer" \in groups,
       Fetch(RawFile("transformer")) \o Bins(FilesOf("transformer"))) \o
  When("text" \in groups, Fetch(RawFile("text")) \o Bins(FilesOf("text"))) \o
  TokenizerSteps(groups) \o
  When("final" \in groups, Fetch(RawFile("final")) \o Bins(FilesOf("final"))) \o
  When("vae" \in groups, VaeSteps)

-----------------------------------------------------------------------------
TypeOK ==
  /\ repo \in Repos
  /\ pc \in {"down", "checking", "preparing", "cleaning", "ready", "serving"}
  /\ boot \in BOOLEAN /\ config \in ConfigType
  /\ need \subseteq Groups /\ wanted \subseteq Groups
  /\ source \in {"none", "packs", "mirror", "tokenizer", "raw"}
  /\ stage \in {"start", "download", "fetched", "copying", "rename"}
  /\ pc # "preparing" => source = "none" /\ todo = << >> /\ stage = "start"
  /\ partial \subseteq Downloads /\ cached \subseteq Downloads
  /\ out \in [Outputs -> FileState]
  /\ checks \in 0 .. MaxChecks
  /\ fellback \in BOOLEAN /\ prepared \in BOOLEAN /\ forced \in BOOLEAN

Init ==
  /\ repo \in Repos
  /\ pc = "down" /\ boot = FALSE
  /\ config = [force |-> FALSE, auto |-> FALSE, default |-> TRUE]
  /\ need = {} /\ source = "none" /\ todo = << >> /\ stage = "start"
  /\ partial = {} /\ cached = {}
  /\ out = [f \in Outputs |-> "absent"]
  /\ checks = 0
  /\ wanted = {} /\ fellback = FALSE /\ prepared = FALSE /\ forced = FALSE

Taking(op, s) ==
  /\ pc = "preparing" /\ todo # << >>
  /\ Head(todo).op = op /\ stage = s
File == Head(todo).file
From == Head(todo).from

Advance ==
  /\ todo' = Tail(todo) /\ stage' = "start"
  /\ UNCHANGED <<pc, boot, config, need, source>>
Enter(s) == stage' = s /\ UNCHANGED <<pc, boot, config, need, source, todo>>

TakeFrom(s, groups, steps) ==
  /\ source' = s /\ need' = groups /\ todo' = steps /\ stage' = "start"
  /\ UNCHANGED <<boot, config>>

\* The end of a check.  An exception ends main at startup and a request later.
Settle(label) == pc' = label /\ TakeFrom("none", {}, << >>)

Abort == Settle(IF boot THEN "down" ELSE "serving")

\* Mutant: the packs are tried again.
ThrowAgain ==
  /\ IF source \in {"packs", "mirror"}
       THEN TakeFrom("packs", need, PackedSteps(need)) /\ UNCHANGED pc
       ELSE Abort
  /\ UNCHANGED history

\* An exception: only those of the packs are caught.
Throw ==
  IF source = "packs"
    THEN /\ TakeFrom("mirror", need, MirrorSteps)
         /\ fellback' = TRUE
         /\ UNCHANGED <<pc, wanted, prepared, forced>>
    ELSE Abort /\ UNCHANGED history

\* "file_is_present(path) && !force"
Keeps(f) == Present(f) /\ ~config.force

-----------------------------------------------------------------------------
(* repo_file_path and curl_download_range_to_file.                          *)

\* mirror_flux_npu_repo looks for the output before it fetches.
SkipFetch ==
  /\ Taking("mirror", "start") /\ Keeps(File)
  /\ Advance
  /\ UNCHANGED <<cache, out, checks, history>>

Fetching ==
  \/ Taking("fetch", "start") \/ Taking("copy", "start")
  \/ (Taking("mirror", "start") /\ ~Keeps(File))
Downloading == \E op \in {"fetch", "copy", "mirror"} : Taking(op, "download")
Fetched == IF Head(todo).op = "fetch" THEN Advance ELSE Enter("fetched")

UseCached ==
  /\ Fetching
  /\ From \in cached /\ ~config.force
  /\ Fetched
  /\ UNCHANGED <<cache, out, checks, history>>

StartDownload ==
  /\ Fetching
  /\ From \notin cached \/ config.force
  /\ partial' = partial \cup {From}
  /\ Enter("download")
  /\ UNCHANGED <<cached, out, checks, history>>

FinishDownload ==
  /\ Downloading
  /\ From \in Offered
  /\ partial' = partial \ {From} /\ cached' = cached \cup {From}
  /\ Fetched
  /\ UNCHANGED <<out, checks, history>>

DownloadFails ==
  /\ Downloading
  /\ partial' = partial \ {From}
  /\ Throw
  /\ UNCHANGED <<cached, out, checks>>

-----------------------------------------------------------------------------
(* write_raw_bf16_tensor_file, write_bf16_tensor_file, copy_file_to_output. *)

\* No shard that was found holds it, and nobody counts.
NoTensor ==
  /\ Taking("bin", "start") /\ ~InShards(File)
  /\ Advance
  /\ UNCHANGED <<cache, out, checks, history>>

KeepBin ==
  /\ Taking("bin", "start") /\ InShards(File) /\ Keeps(File)
  /\ Advance
  /\ UNCHANGED <<cache, out, checks, history>>

\* Mutant: the tensor is written to its own file.
ReplaceBinInPlace ==
  /\ Taking("bin", "start") /\ InShards(File) /\ ~Keeps(File)
  /\ out' = [out EXCEPT ![File] = "part"]
  /\ Enter("rename")
  /\ UNCHANGED <<cache, checks, history>>

\* Mutant: a tensor file that is there is written again.
ReplaceBinAlways ==
  /\ Taking("bin", "start") /\ InShards(File)
  /\ out' = [out EXCEPT ![File] = "absent"]
  /\ Enter("rename")
  /\ UNCHANGED <<cache, checks, history>>

\* The tensor has been written to its .partial file, whose size is as expected;
\* the old file is removed.
ReplaceBin ==
  /\ Taking("bin", "start") /\ InShards(File) /\ ~Keeps(File)
  /\ out' = [out EXCEPT ![File] = "absent"]
  /\ Enter("rename")
  /\ UNCHANGED <<cache, checks, history>>

RenameBin ==
  /\ Taking("bin", "rename")
  /\ out' = [out EXCEPT ![File] = "whole"]
  /\ Advance
  /\ UNCHANGED <<cache, checks, history>>

\* A tensor that cannot be read, be it one that is there, written or renamed.
BinFails ==
  /\ \/ Taking("bin", "start") /\ InShards(File)
     \/ Taking("bin", "rename")
  /\ Throw
  /\ UNCHANGED <<cache, out, checks>>

Copying(s) == Taking("copy", s) \/ Taking("mirror", s)

KeepCopy ==
  /\ Copying("fetched") /\ Keeps(File)
  /\ Advance
  /\ UNCHANGED <<cache, out, checks, history>>

\* The old file is removed and the new one filled where it is.
BeginCopy ==
  /\ Copying("fetched") /\ ~Keeps(File)
  /\ \E begun \in {"empty", "part"} : out' = [out EXCEPT ![File] = begun]
  /\ Enter("copying")
  /\ UNCHANGED <<cache, checks, history>>

EndCopy ==
  /\ Copying("copying")
  /\ out' = [out EXCEPT ![File] = "whole"]
  /\ Advance
  /\ UNCHANGED <<cache, checks, history>>

CopyFails ==
  /\ Copying("copying")
  /\ Throw
  /\ UNCHANGED <<cache, out, checks>>

\* "No VAE files were found in Hugging Face repo"
NoVaeFiles ==
  /\ Taking("throw", "start")
  /\ Throw
  /\ UNCHANGED <<cache, out, checks>>

-----------------------------------------------------------------------------
(* prepare_flux_klein_bf16_weights_cpp from source to source.               *)

\* need_* are computed again, without force.
TakeRaw ==
  LET left == Needed(FALSE) IN
  TakeFrom("raw", left, RawSteps(left)) /\ UNCHANGED pc

NextSource ==
  /\ pc = "preparing" /\ todo = << >>
  /\ CASE source \in {"packs", "mirror"} ->
            TakeFrom("tokenizer", need, TokenizerSteps(need)) /\ UNCHANGED pc
       [] source = "tokenizer" -> TakeRaw
       [] source = "raw" -> IF Needed(FALSE) = {} THEN Settle("cleaning") ELSE Abort
  /\ UNCHANGED <<cache, out, checks, history>>

\* model_info_<revision>.json lies beside the folder of the other downloads and is
\* removed by its name; nobody removes its .partial file.
Lists == {NpuFile("info"), RawFile("info")}

\* Mutant: only the cache of the NPU repository is cleaned.
ArtifactsOfNpu == {d \in cached \cup (partial \ Lists) : d[1] = "npu"}

Artifacts == cached \cup (partial \ Lists)

\* remove_all, one file after the other.
RemoveArtifact ==
  /\ pc = "cleaning"
  /\ \E d \in Artifacts : cached' = cached \ {d} /\ partial' = partial \ ({d} \ Lists)
  /\ UNCHANGED <<process, out, checks, history>>

Conclude == IF ServerReady THEN Settle("ready") ELSE Abort

FinishPreparation ==
  /\ pc = "cleaning" /\ Artifacts = {}
  /\ Conclude
  /\ prepared' = TRUE
  /\ UNCHANGED <<cache, out, checks, wanted, fellback, forced>>

-----------------------------------------------------------------------------
(* ensure_flux_klein_bf16_weights, its callers, and crashes.                *)

BeginCheck ==
  /\ checks < MaxChecks /\ checks' = checks + 1
  /\ pc' = "checking"
  /\ wanted' = {} /\ fellback' = FALSE /\ prepared' = FALSE
  /\ UNCHANGED <<need, source, todo, stage, cache, out>>

Start ==
  /\ pc = "down"
  /\ BeginCheck
  /\ boot' = TRUE
  /\ config' \in Configs
  /\ forced' = (forced \/ config'.force)

\* run_worker for a FLUX request, under g_infer_mutex.
Request ==
  /\ pc = "serving"
  /\ BeginCheck
  /\ boot' = FALSE
  /\ UNCHANGED <<config, forced>>

BeginPreparation ==
  LET groups == Needed(config.force) IN
  IF groups = {} THEN Conclude
  ELSE /\ pc' = "preparing"
       /\ IF config.default THEN TakeFrom("packs", groups, PackedSteps(groups))
                            ELSE TakeFrom("raw", groups, RawSteps(groups))

CheckWeights ==
  /\ pc = "checking"
  /\ IF ServerReady /\ ~config.force THEN Settle("ready")
     ELSE IF config.auto THEN BeginPreparation
     ELSE Abort
  /\ wanted' = need'
  /\ UNCHANGED <<cache, out, checks, fellback, prepared, forced>>

\* run_server is called, or the worker has run.
Serve ==
  /\ pc = "ready"
  /\ Settle("serving")
  /\ UNCHANGED <<cache, out, checks, history>>

\* The process is killed.  What it had written and renamed is there: nothing is
\* synced, so this does not hold of a machine that goes down.
Crash ==
  /\ Crashes /\ pc # "down"
  /\ Settle("down")
  /\ UNCHANGED <<cache, out, checks, history>>

FetchFile ==
  SkipFetch \/ UseCached \/ StartDownload \/ FinishDownload \/ DownloadFails
WriteBin == NoTensor \/ KeepBin \/ ReplaceBin \/ RenameBin \/ BinFails
CopyFile == KeepCopy \/ BeginCopy \/ EndCopy \/ CopyFails \/ NoVaeFiles
Clean == RemoveArtifact \/ FinishPreparation
Check == CheckWeights \/ FetchFile \/ WriteBin \/ CopyFile \/ NextSource \/ Clean

Next == (Start \/ Request \/ Check \/ Serve \/ Crash) /\ UNCHANGED repo

Spec == Init /\ [][Next]_vars

\* A check that was begun goes on; nobody has to start the server.
FairSpec == Spec /\ WF_vars(Check /\ UNCHANGED repo)

-----------------------------------------------------------------------------
(* What must hold.                                                          *)

\* Groups whose files are only ever written beside their place and renamed.
Renamed == Groups \ (repo.legacy \cup {"tokenizer"})

\* Those whose tensors the raw repository's list of files leads to, all of them.
Led == {g \in Groups : g \in DOMAIN repo.raw => repo.raw[g] = 1 .. Size[g]}

Whole(g) == \A i \in 1 .. Size[g] : out[<<g, i>>] = "whole"

\* No crash and no failure, whatever the source, leaves a half-written file under
\* the name of a tensor that is written and renamed: readiness and the next
\* preparation, which look at names, may trust what they find.
NeverTorn ==
  \A f \in Outputs : f[1] \in Renamed => out[f] \in {"absent", "whole"}

\* Without force, a group whose last file is in the list of the server is complete
\* as soon as the weights are judged ready, across crashes, fall-backs and
\* sources: every source ends with the same file, and no file is removed.  Not if
\* the shards of a snapshot without an index are taken for the component.
SealedGroupsWhole ==
  pc = "ready" /\ ~forced =>
    \A g \in Renamed \cap Led : Size[g] \in Asked[g] => Whole(g)

\* A preparation that did not have to give up the packs, or had none, leaves the
\* groups it found wanting complete, whatever it found of them.
WantedGroupsWhole ==
  pc = "ready" /\ prepared /\ ~fellback =>
    \A g \in wanted \cap Led \cap (Renamed \cup {"tokenizer"}) : Whole(g)

\* A preparation that finishes leaves no file of any repository behind and no
\* download that has begun, those of earlier and killed preparations included, but
\* for that of a list of files: who was killed while it was fetched leaves it, as
\* the next start may do with the packs alone.
ArtifactsRemoved == pc = "ready" /\ prepared => cached = {} /\ partial \subseteq Lists

\* Without force no step, of no source and no later start, undoes a file.
NothingUndone ==
  [][\A f \in Outputs : out[f] = "whole" /\ ~config.force => out'[f] = "whole"]_vars

\* Every check comes to an end, whichever of its sources fail.
EveryCheckEnds == pc = "checking" ~> pc \in {"ready", "serving", "down"}

-----------------------------------------------------------------------------
(* What worker.hpp says of ensure_model_weights_ready, and the code does    *)
(* not do.                                                                  *)

\* "Download/export model weights needed by the selected target when they are
\* missing": no worker is started while a file is missing.
ReadyMeansNoneMissing == pc = "ready" => \A f \in Outputs : Exists(f)

-----------------------------------------------------------------------------
(* The inductive invariant of the proofs.                                   *)

\* What a source may have to do: only files that are not written and renamed are
\* copied to their place.
CopiedFiles == {f \in Outputs : f[1] \notin Renamed}
SoundStep ==
  [op : {"fetch"}, from : Downloads] \cup [op : {"bin"}, file : Outputs] \cup
  [op : {"copy"}, file : CopiedFiles, from : Downloads] \cup
  [op : {"mirror"}, file : {f \in CopiedFiles : f[1] # "tokenizer"}, from : Downloads] \cup
  [op : {"throw"}]

IInv ==
  /\ TypeOK
  /\ pc = "preparing" => source # "none"
  /\ todo \in Seq(SoundStep)
  /\ pc \in {"checking", "preparing", "cleaning"} => ~prepared
  /\ NeverTorn
  /\ ArtifactsRemoved

\* The files of a group are written in an order that ends with its last: where the
\* last is to be written, the others are there or are written before.
LastSeals(g) == out[<<g, Size[g]>>] = "whole" => Whole(g)
InOrder(g) ==
  \A i \in 1 .. Len(todo) : todo[i] = Bin(<<g, Size[g]>>) =>
    \A k \in 1 .. Size[g] :
      out[<<g, k>>] = "whole" \/ \E j \in 1 .. i : todo[j] = Bin(<<g, k>>)

SealIInv ==
  /\ config.force => forced
  /\ pc = "ready" => ServerReady
  /\ ~forced => \A g \in Renamed \cap Led : LastSeals(g) /\ InOrder(g)

\* A list of steps writes this file, or fails before the next source is taken.
Leads(steps, f) ==
  \E i \in 1 .. Len(steps) :
    \/ steps[i].op \in {"bin", "copy"} /\ steps[i].file = f
    \/ steps[i].op = "throw"

\* What was wanted at first is there or is still to be written; the packs leave
\* the tokenizer to the next source, which may trust it not to be torn.
Filled == wanted \cap Led \cap (Renamed \cup {"tokenizer"})
Tokenizer == <<"tokenizer", 1>>

Due(g, k) ==
  \/ out[<<g, k>>] = "whole" \/ Leads(todo, <<g, k>>)
  \/ g = "tokenizer" /\ source = "packs"
NotTorn ==
  "tokenizer" \in wanted /\ out[Tokenizer] = "part" =>
    config.force \/ (todo # << >> /\ File = Tokenizer /\ stage = "copying")

WantedIInv ==
  /\ pc = "preparing" /\ ~fellback =>
       /\ source # "mirror" /\ (source = "packs" => need = wanted)
       /\ \A g \in Filled : \A k \in 1 .. Size[g] : Due(g, k)
       /\ NotTorn
  /\ pc = "cleaning" \/ (pc = "ready" /\ prepared) =>
       fellback \/ \A g \in Filled : Whole(g)

=============================================================================
