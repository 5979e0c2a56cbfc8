# vgf-serve: a verification development

`vgf-serve` (`server_unified/`) is an HTTP server that renders images with external worker
executables, one at a time, on one accelerator. This directory holds TLA+ models of it, the
TLC configurations that check them, and proofs for TLAPS. File names below are those of
`server_unified/`.

Contents: [the system](#the-system), [modules](#modules), [runs](#runs),
[findings](#findings), [proofs](#proofs), [not modelled](#not-modelled), [plan](#plan).

## The system

| Component | State | Operations |
|---|---|---|
| Start-up (`server_main.cpp`, `cli.cpp`, `server_config.cpp`) | `server::config` | find the installation, parse flags, choose the output directory, prepare weights, serve |
| TCP sessions (`tcp_server.cpp`) | one socket and one detached thread per connection | accept, read a request, write the response, keep alive or close |
| Request parsing (`request_parser.cpp`) | `GenParams`, upload files | JSON with a regex fall-back; multipart with the uploaded image saved as it is met |
| Routes and image handlers (`http_handlers.cpp`) | `g_infer_mutex`, `g_last_generation_info` | generations, txt2img, edits, GET of an image, chat completions, options, listings |
| Model memory (`http_handlers.cpp`) | last image model and last edit model any chat named, each with a generation and a time; the Automatic1111 model | remember, take a recent one, poll for a fresh one, fall back |
| LoRA catalog and targets (`worker.cpp`) | `*_lora_models.jsonc`, export directories | read and merge, look up, match a prompt, normalise a target |
| Worker launch (`worker.cpp`, `run_worker`) | `job_counter`, output files | choose LoRA and worker, prepare weights, name the output, run the executable, clean up |
| Z-Image BF16 weights (`z_image_bf16_export.cpp`, `worker.cpp`) | downloads, `.partial` files, one file per exported tensor | judge readiness, download with resume, export, clean up |
| FLUX BF16 weights (`flux_klein_bf16_export.cpp`, `worker.cpp`) | downloads of two repositories, one file per tensor in five groups | judge groups, unpack packs, fall back to mirrored files and to the raw repository, clean up |
| Conversions (both exports, `file_utils.cpp`) | none | f32 to bf16, f16 to f32, base64 |

How they interact. `main` fills `server::config`, which nothing changes afterwards. A
connection's thread parses a request, resolves its model through the model memory (which other
clients' chats write), takes the inference mutex, and in `run_worker` looks for the LoRA in
lists an operator may be editing, makes sure the weights are ready, names an output file and
starts the worker process. The worker reads the upload and writes the output. The thread then
releases the mutex, reads the output back, remembers the generation info, removes files and
answers. What threads share is the mutex, three small mutexes around remembered values, the
output directory, and the system clock, from whose milliseconds files get their names. What
lives of the server share is the disk, and workers that outlive the server which started them.

What is hard about it:

- exceptions leave handlers at a dozen places, some with the mutex held, some with files saved,
  and one kind leaves the thread and ends the process;
- the result file is read, kept or removed *outside* the mutex, and fetched by other clients;
- names are made from a clock, with a counter (outputs) or without an effective one (uploads),
  and the counter starts again with the process;
- a decision about a model is made on a copy, then polled for, while other clients change it;
- every look-up of a LoRA reads its lists anew, and compares names in three ways at once;
- weights are judged by a few of their files, some are written in place, others come from
  whichever of three sources works, and the process may be killed at any point;
- forms are scanned for texts that their data may contain, in bodies that may be cut off.

What makes the components right:

- *handlers*: one worker at a time, no exit without unlocking, every answer its own picture
  made from its own upload, kept pictures kept and served, others removed, every request answered;
- *lives*: no request, restart or orphaned worker touches what an earlier life retained;
- *model memory*: the latest selection of the right kind wins, none is missed, a named model
  keeps its target, every wait ends;
- *launch and catalog*: the worker is of the family asked for, a LoRA that was asked for is never
  dropped, options of different origins are not mixed, equal matches decide nothing;
- *weights*: a finished preparation leaves whole files and no debris, whatever crashed before;
  a download is used only when complete; readiness means that workers find what they need;
- *start and parsing*: one installation, pictures where nobody removes them, and from a body
  what its sender meant, by either parser.

## Modules

| Module | Models | State and actions in the code |
|---|---|---|
| `ImageService` | what the server promises to its clients | abstract: no threads, mutexes or files |
| `InferenceServer` | sessions, handlers, effects of parsing, `run_worker`, files | `pc[c]` is the place in the thread's code; `infer` the mutex; `uploads`, `outputs` the directory; `info` the remembered info; `done` and `clashed` are history |
| `VgfServe` | extends it to the life of the process: `Crash`, `Restart`, orphaned workers | `up`, `born`; `orphans` are workers without a server, `archive` what earlier lives retained |
| `ModelMemory` | the remembered models, the options, and the requests that wait for a model | `memory[k]` is model, generation and age; `snap[c]` is `remembered_model`; `chosen`, `before`, `seen`, `origin` are history |
| `LoraCatalog` | reading, merging and searching the lists, as operators | ids are family, prefix, name and encoding; a list is a sequence of items or missing |
| `WorkerLaunch` | `run_worker` from a model to a command line, look-up by look-up | `lists` are the files, which `EditLists` changes; `pc` the look-up that comes next; `selected` is `selected_lora`; `result` the command line the worker is started with |
| `ZImageWeights` | readiness, download, export, clean-up, crash, restart | `out`, `cached`, `partial` are files on disk and survive `Crash`; `Plan` is the order of `prepare_z_image_bf16_weights_cpp`; `snapshot` is what the Hugging Face cache of the machine holds |
| `FluxWeights` | the same for FLUX, whose files come in groups from packs, mirrored files or the raw repository | `need` is the `need_*` flags, `source` the place in `prepare_flux_klein_bf16_weights_cpp`, `todo` what that source has still to do, `repo` what the NPU repository holds; files as above |
| `Conversions` | float formats and base64, as operators over bits, next to what they mean | widths are constants |
| `ServerStart` | `main` up to the accept loop | `phase` is the place in `main`; `paths`, `output`, `port` and `settings` are `server::config`; `argv` and `i` the command line; `given` is history |
| `RequestParser` | extends it: a running server parses forms and objects | bodies are sequences of tokens, `pos` is `start_pos`, `reading` the parser at work, `params` is `GenParams` |

Each `MC` module instantiates the module of its name for TLC. Each `Proofs` module holds the
theorems about the module of its name. `InferenceServerProofs` also proves the refinement of
`ImageService`; `RequestParserProofs` is about the command line too (`ServerStart` is the part of
`RequestParser` before the first body), `WorkerLaunchProofs` about the catalog. The operators of
`Conversions` have no steps, so what must hold of them, `ConversionsFaithful`, is no property of a
run's states: `MCZImageWeights` states it as an assumption, which TLC evaluates for small formats
before the run begins, and `ConversionsProofs` proves it for all.

Conventions. A step of a thread is the code between two accesses to something another thread
can see. A file is absent, partial, or whole with the content that tells requests apart. A
request of `InferenceServer` is a record of what can go differently: its route, whether it
carries an image that its model takes, whether it asks for a url, and which of the failures it
provokes (`Faults`). In `ModelMemory` a model id is its base, its LoRA (none, generic, a named one) and
whether it is spelled as the catalog spells it. In `LoraCatalog` a name is a number in the
order of the strings, and what normalisation makes of a spelling is a function on names. Ages
are counted in poll intervals and stop counting past the window, so time needs no bound there.
Definitions that begin with "Mutant:" are deliberately wrong variants of the definition after
them; each breaks a property of a run and so shows that the run can tell.

How the modules fit. `InferenceServer` takes the weights, the choice of a model and the reading
of a body as steps that may fail (`PrepareFails`, `Faults`); `ZImageWeights`, `FluxWeights`,
`ModelMemory`, `WorkerLaunch` and `RequestParser` open those steps up. `ModelMemory` is left by a
request where `InferenceServer` waits for the mutex (`Leave`, `"waiting"`); `WorkerLaunch` and
the `Request` of the weights modules are a request inside the mutex; `RequestParser` goes on
where `ServerStart` serves. Downloads have the same code for both kinds of weights:
`ZImageWeights` follows resume and restart, `FluxWeights` takes a download as one step that
succeeds or throws and follows the choice of sources instead.

## Runs

| Run | Bounds | Shows |
|---|---|---|
| `server_service` | 2 threads, 3 requests of four kinds, one millisecond, no crash | `UploadsOwned`, `RetainedPictureServed`, `ImplementsService`, `EveryRequestAnswered` |
| `process` | 2 threads, 2 requests of nine kinds per life, 2 more milliseconds, 2 crashes, disk faults; threads are symmetric | `ArchiveKept`, `OneWorkerAtATime`, `OwnPicture`, `OwnInput`, `RetentionPolicy`, `InfoOfRenderedPicture`, `ArchivedPictureServed` |
| `start` | three directories, 20 command lines, ports of 16 and integers of 18 bits, forms of up to two parts cut off anywhere, objects of up to three fields | `OneInstallation`, `KeptPicturesSafe`, `PartsRead`, `FormsAgree` |
| `catalog_edits` | six names, most of them spelled alike; up to two items in the lists, which are edited between look-ups | `FamilyKept`, `LoraNeverDropped`, `OriginsUnmixed`, `FirstListedResolves`, `TiesUndecided` |
| `memory` | 2 requests at a time, window 1, 2 polls, 2 selections per memory | `LatestSelectionWins`, `NoSelectionMissed`, `KindsApart`, `TargetKept`, `PromptUsed`, `OptionsAnswered`, `EveryModelResolved` |
| `weights_crash` | 2 tensors per component, 3 checks, lost JSON writes, six local snapshots (none, one interrupted among the shards, one without tokenizer, one of a component only, two that hold some shards and no index); evaluated first, the conversions of floats of up to 10 bits | `PreparationRepairs`, `ArtifactsRemoved`, `DownloadsWhole`, `ReadyButForVae`, `WholeStaysWhole`, `EveryCheckEnds` |
| `flux_crash` | groups of 2, 1, 3, 1 and 3 files, 2 checks, each start with any configuration (force, automatic download, default repository), four pairs of repositories: packs with and without VAE files beside them, and no packs, the VAE under a prefix, and a raw snapshot that lacks an index and some shards | `NeverTorn`, `SealedGroupsWhole`, `WantedGroupsWhole`, `ArtifactsRemoved`, `NothingUndone`, `EveryCheckEnds` |
| `server_late`, `server_leftover`, `server_clash`, `catalog_similar`, `flux_ready` | the least that shows it | the findings below |

Why the bounds are enough. Two threads make every conflict over a name, a file or the mutex.
In `server_service` a third request arrives while one has finished and another is in flight,
the least that the refinement needs; all files are named in one millisecond, the worst case for
names. `process` has two requests per life, so that one is in flight and one retained when the
process ends, and two crashes, so that an orphan meets both a later life and the orphan of
another; with three milliseconds a life begins in the same one as the last ended or in a later
one. What happens for more threads, requests and crashes, the theorems say. In `memory` a
window of 1 has recent and old memories, two polls have a poll that is the last and one that
is not. In `catalog_edits`, two items are enough for two to be merged, to shadow each other, to
tie, or to be alike in each of the three ways. In `weights_crash`, of two
tensors one is judged and one is not, and a third check may find what the crash of a second
left of the first. In `flux_crash` tensors are renamed into place, so a check finds no more than
which files there are, and a second check, after a crash or a failure of the first anywhere,
finds every such set; the group of three has a first, a middle and a last file, the pack of
transformer and final layer puts one between the other's two. In `start` two parts have one
delimiter between them and one after, data are empty, or begin or end like the syntax around
them; the search climbs to no parent, one and two. The widths of the float formats are
constants, and the small ones have normal, subnormal, infinite and NaN values and ties;
the assumption `ConversionsHold` looks at all of them.
`MaxRequests`, `MaxMs`, `MaxCrashes`, `MaxUpdates` and `MaxChecks` are the bounds on
counters; each stands in guards and type invariants only.

Deadlock is checked, except in the two runs of weights, where a killed server stays down once the bound
on checks is reached, and in `start`, where `main` may exit and a body has been read.

Fairness. `InferenceServer!Fairness` lets each thread run, lets the mutex go to *some* waiting
thread, of the system's choice, and assumes that the worker executable terminates. The
last is an assumption about another program: `child.wait()` has no timeout, and a worker that hangs
holds the mutex for ever. That no thread waits for ever then also needs that finitely many
requests arrive (`MaxRequests`), since `std::mutex` promises no order. Clients, the clock and
the network owe nothing. `FairLifeSpec` is that fairness for a process that does not end: nobody has
to start the server again. `ModelMemory` also needs time to pass (`Tick`), but no chat ever to
come; the weights modules only that a check that was begun goes on, and downloads may fail for ever.

`ImplementsService` is the refinement: the server implements `ImageService` under a
mapping that makes a thread's place a phase, and the pictures that are on disk and belong to
finished requests the gallery.

## Findings

Each is a run that TLC finds violated, against a comment of `worker.hpp`.

- "Remove generated or uploaded images after a request when configured to do so."
  (`worker.hpp:53`). An upload stays behind when a later part of the request does not parse
  (`server_late`); a failed worker's output stays behind (`server_leftover`); an
  upload is removed *before* its use when two edits arrive in one millisecond and share its
  name (`server_clash`).
- "Resolve a request model ID or UI spelling to its canonical LoRA catalog entry."
  (`worker.hpp:38`). The search takes the first entry that matches exactly, by slug *or* by loose
  key (`worker.cpp:1646`). Of "a x" and "a-x" the second, asked for under another spelling of its
  family's prefix, gets the files of the first (`catalog_similar`).
- "Download/export model weights needed by the selected target when they are missing."
  (`worker.hpp:44`). `group_ready` looks at a few files of a group. When a pack throws after
  those, the exception is caught, the needs are computed again, the transformer looks ready, the
  other groups are fetched, and the preparation succeeds with transformer files missing that no
  later check asks for (`flux_ready`; no crash is needed). `SealedGroupsWhole` says which
  groups cannot suffer this, `WantedGroupsWhole` that the fall-back is the only way to it within
  one preparation.

Two smaller gaps of that kind, which no document denies:

- A Z-Image VAE export that a kill or a failed write interrupts behind its one judged file is never
  completed.
- When a local snapshot lists neither the index of a component's shards nor its single file,
  `component_safetensor_files` takes whatever shards the snapshot holds (`z_image_bf16_export.cpp:598`,
  `flux_klein_bf16_export.cpp:681`), and nobody counts the tensors. Of the Z-Image text encoder only
  `embed_tokens` is judged: with its first shard alone, the weights are judged ready, and the rest
  is missing for good. Of FLUX it takes the raw source and a group judged by its other files.

The properties say openly which weights they are about. `Sought` is what the snapshot's list leads to:
`PreparationRepairs` says that a preparation that finishes leaves all of it whole, `ReadyButForVae`
that without force nothing of it but the VAE can be incomplete once the weights are judged ready. If
no such snapshot is there, or force is set, `Sought` is all weights. For FLUX, `Led` is the groups whose raw shards
are all led to, and `SealedGroupsWhole` and `WantedGroupsWhole` are about these.

The clean-up of both exports leaves one kind of file, which `ArtifactsRemoved` excepts:
`model_info_<revision>.json.partial`. It lies beside the folder that is removed
(`z_image_bf16_export.cpp:1030`, `flux_klein_bf16_export.cpp:1565`), and nothing but a further download of the list
ends it. A start that is killed while curl fetches the list leaves it, and a later preparation
that needs no list from the network does not touch it: for Z-Image the killed start was one with force and the
next one uses the local snapshot or the list in the cache, for FLUX the next one needs the packs only.

`OwnInput` and `UploadsOwned` state what does hold: inputs are right unless upload names
clash (`clashed`), and uploads are owned unless a late parse failure is possible.

## Proofs

All theorems hold for any values of the constants that satisfy the named assumptions of the
modules, so for any numbers of threads, requests, milliseconds, crashes, files, tensors,
selections and edits. TLC evaluates every assumption in the runs, and was used to check every
inductive invariant on the runs' instances before it was proved.

| Module | Theorem | Property |
|---|---|---|
| `InferenceServerProofs` | `Invariance`, `TypeCorrect` | `IInv`, `TypeOK` |
| | `MutualExclusion` | `OneWorkerAtATime` |
| | `OwnPictureAnswered` | `OwnPicture` |
| | `Retention` | `RetentionPolicy` |
| | `RetainedServed` | `RetainedPictureServed`, without disk faults |
| | `InputInvariance`, `InputOwned` | `InputIInv`, `OwnInput` |
| | `UploadsHaveOwners` | `UploadsOwned`, without disk faults and requests that fail late |
| | `InfoRendered` | `InfoOfRenderedPicture` |
| | `ServiceImplemented` | `ImplementsService` |
| `VgfServeProofs` | `LifeInvariance`, `LifeTypeCorrect` | `LifeIInv`, `LifeTypeOK` |
| | `ArchiveAlwaysKept` | `ArchiveKept` |
| | `ArchiveServed` | `ArchivedPictureServed` |
| | `OrphansBounded` | at most one orphan per life |
| | `EveryLifeSafe` | `OneWorkerAtATime`, `OwnPicture`, `RetentionPolicy` in every life |
| | `EveryLifeReports`, `EveryLifeOwnsInput`, `EveryLifeInfo` | `OfOneLife`, `OwnInput`, `InfoOfRenderedPicture` in every life |
| | `OneLife`, `LifeImplementsService` | without crashes, `LifeSpec` implements `InferenceServer` and so the abstract service |
| `ModelMemoryProofs` | `Invariance`, `TypeCorrect` | `IInv`, `TypeOK` |
| | `UpdatesStayBounded` | `UpdatesBounded` |
| | `LatestSelection`, `NothingMissed`, `KindsNeverMix` | `LatestSelectionWins`, `NoSelectionMissed`, `KindsApart` |
| | `TargetsKept`, `PromptDecides`, `OptionsAnswer` | `TargetKept`, `PromptUsed`, `OptionsAnswered` |
| `WorkerLaunchProofs` | `Invariance`, `TypeCorrect` | `IInv`, `TypeOK` |
| | `FamilyKeptAlways`, `LoraAlwaysThere`, `NeverMixed` | `FamilyKept`, `LoraNeverDropped`, `OriginsUnmixed` |
| | `ListedResolve`, `TiesDecideNothing` | `FirstListedResolves`, `TiesUndecided` |
| `ZImageWeightsProofs` | `Invariance`, `TypeCorrect` | `IInv`, `TypeOK` |
| | `Repairs`, `ReadyWhole` | `PreparationRepairs`, `ReadyButForVae` |
| | `NoArtifacts`, `OnlyWholeDownloads` | `ArtifactsRemoved`, `DownloadsWhole` |
| | `WholeKept` | `WholeStaysWhole` |
| `FluxWeightsProofs` | `Invariance`, `TypeCorrect` | `IInv`, `TypeOK` |
| | `WholeOrAbsent`, `NoArtifacts`, `WholeKept` | `NeverTorn`, `ArtifactsRemoved`, `NothingUndone` |
| | `SealInvariance`, `SealedWhole` | `SealIInv`, `SealedGroupsWhole` |
| | `WantedInvariance`, `WantedWhole` | `WantedIInv`, `WantedGroupsWhole` |
| `ConversionsProofs` | `HalvesAreExact` | `HalvesExact` |
| | `RoundingIsNearest` | `RoundsToNearestEven` |
| | `AnyPictureDecodes`, `PicturesAreDecoded` | `PicturesDecode`, of pictures of any length |
| | `ConversionsAreFaithful` | `ConversionsFaithful` |
| `RequestParserProofs` | `StartInvariance`, `StartTypeCorrect` | `StartIInv`, `StartTypeOK` |
| | `InstallationIsOne`, `PicturesAreSafe` | `OneInstallation`, `KeptPicturesSafe` |
| | `ParserInvariance`, `ParserTypeCorrect` | `ParserIInv`, `ParserTypeOK` |
| | `FormsAreReadAsMeant`, `ReadersAgree` | `PartsRead`, `FormsAgree` |

The arguments, by what the properties lack to be inductive.

*`InferenceServer`.* Whether a picture on disk stays what it is depends on who may still name
its file. `Shape` says which locals of a thread are set at which place. `NamesApart` says that
the job number in an output's name tells live outputs apart from each other and from those of
finished requests. `PictureFollowed` follows a picture from the worker's exit over the file to the
response. Each conjunct of `IInv` has a lemma with one step per action; `NextIInv` puts them together.
`InputIInv` does for uploads what the job number does for outputs, although their names do not tell
them apart: a name that two threads hold has been noted in `clashed`, and the input of a thread whose
name is its own is followed from the file over what the worker has read to the picture.
`UploadsHeld` says *where* the owner of a file is, which is what makes `UploadsOwned` inductive:
no thread gives its upload up before the step that removes the file.

*`ImageService`.* The gallery of the mapping is what is on disk of retained requests; `IInv` has it
that those files are whole, so the gallery changes with `done` only (`GallerySame`). Each step of a
thread then moves its own phase as an abstract step does, or not at all: `WithinPhase` has the
stutters, `RefusingSteps` all the ways to an error, `CleanOutputStep` and `CleanUploadsStep` the step
in which a picture is published. No fairness is involved: the abstract specification has none.

*`VgfServe`.* The job counter starts again with the process, so names of two lives may have the
same number. `NamesOfLives` says what tells them apart: a life begins no earlier than its
predecessors' names, and an orphan's name carries its own life's time and is in no later
one's use. `LifeIInv` joins that with the invariant of one life. `OrphansApart` is its use: an orphan
writes no file that a thread of a later life owns, which is why what is proved of one life carries
over to each (`OfOneLife`), although the directory is not empty when a life begins.

*`ModelMemory`.* `MemoriesHold` ties each memory to the history of selections; `ThreadSound`
says, place by place, what a thread's copy still tells of the memory it was taken from: it is
the one of the generation the thread has seen, however often the memory has changed since. The
types need one thing more: an update is let in against `MaxUpdates` when its request arrives and made
later, so `UpdatesBounded` counts those in flight.

*`WorkerLaunch`.* `SelectionSound` says that what each look-up has selected serves the request
although the lists may be different by the next one; `LineSound` the same of what the command
line is made of. The loops over the catalog are recursive functions on the number of rounds. No
induction rule can be cited here, so each proof takes the least round at which the claim fails:
`ListsRead` says what has been merged after each round of `add_lora_entry_if_new`, `LoopDecides` what
the prompt's loop holds after each entry, a tie included. `SortExists` and `RanksDiffer` show that the
sorted catalog is defined: ids that differ are ordered.

*`ZImageWeights`.* `PlanFollowed` says that a file that is sought and that the plan is past is whole. `LastTells` is
the crux of `ReadyButForVae`: the last judged file of the VAE is written
after everything but the rest of the VAE, so as long as there was no force its existence tells how
far the only preparation that could write it had come. `ReadyFindable` adds what readiness tells of the
snapshot: its list leads to every judged file, or they would not be there. `ListFetched` is what
`ArtifactsRemoved` lacks: without force, a begun download of the list of files is there only while the list
itself is nowhere, and no preparation gets past that.

*`FluxWeights`.* `IInv` says of the list of steps that it copies to no name that is otherwise written
and renamed. `SealIInv` adds the order: where the last file of a group stands in the list, the
others are on disk or stand before it, if the list of files leads to all of them. That every source makes such a list is proved of the
sources' operators (`PackedSealing`, `RawSealing`, `MirrorSealing`), for the pack whose tensors of two groups are interleaved
place by place (`DenoisingPlaces`). `WantedIInv` says that each wanted file is there or due, and that the
tokenizer, which is copied in place, was not there in part when it was found wanting.

*`Conversions`.* Powers of two are defined by recursion, and no induction rule can be cited, so `2 ^ n` is
taken as the number of subsets of a set of *n* elements, which a theorem of the library gives:
`PowerNext`, `PowerSum` and `PowerGrows` follow by counting. The fields of a float are its
digits in a mixed base, which are unique (`Digits`, `FloatOf`, `FieldsOf`).
Widening a half is then a case for each kind of number; that of a subnormal one ends at its leading one, and
`LeadingOne` says that there is one and how far up.
For rounding, `MagnitudeGrows` has it that a larger float without its sign is of a larger magnitude,
`SuccessorOf` that the next float is the next magnitude, one unit of the last place away, and
`Truncated` that what is cut off is the part of that unit the float is past its lower
neighbour. `RoundedIs` adds the bias: the result is one of both neighbours, the carry ends at
infinity at the latest, and `Distances` says which is nearer; any other float lies
beyond one of them. In base64 the groups of three bytes do not depend on each other:
`WordDigits` says that four sextets are the digits of a group's word, `PaddingIs` how much of the last group
is padding.

*`ServerStart`.* `PathsOfOneRoot` keeps one root for all paths that no flag gave, from the search on;
`RootFound` says that the search finds a complete installation or none. `OutputChosen` says by phase
what `output` is: what the flags have said, then what `ChooseOutput` made of it.

*`RequestParser`.* The scan knows no parts, only texts, so the proof first says where things are in a
form of any length: `PartLayout` and `FormLayout` place each part behind the last, `Delimiters` says that
there are no other delimiters, `PartWords` that a part without a name says no name anywhere. `ReadSoFar` then ties
the scan to the parts: its position is the end of some part, and the parameters are what the
parts up to there say. A part without header lines is the hard case: the search for a blank line
runs over its end and takes the next part's headers for its own (`HeaderFound`, `PartRead`); the step
then passes several parts at once, and what it skips says nothing (`PartMeans`). `FormEnds` is the
other end: when no further part is found, whether the form ends or was cut off, the parts that are
complete have all been read, but for some that say nothing. `ObjectMeansForm` compares the
two readers field by field. For the types, `FieldTyped` goes through the fields: a size becomes a preset
or stays, a number wraps into an int or is refused.

What the theorems about bodies assume of clients is `BodyAssumption`: the delimiter is not in the
data, as the multipart format has it; names are not empty; and the data of a part without a name does
not itself read as a name, since such a part's data may be read as headers. Of objects, `BodyAssumption` says what makes them
readings of a text: a boolean is true or false, a number is one of `Numbers`. `Token` says what a
token may be, which is anything.

Only model-checked: liveness under fairness (`EveryRequestAnswered`, `EveryModelResolved`,
`EveryCheckEnds`), which is out of the prover's reach.

## Not modelled

- Z-Image Q4.1 weights. `has_configured_gguf_source` and `has_effective_gguf_source` always return
  true, so `ensure_z_image_q41_weights` never reaches its links, copies and marker.
- Listing routes and health: they change no state and format what `LoraCatalog` holds.
- Some thirty flags that store a text, a number or a switch: `ServerStart` has one of each kind, and
  every flag whose default depends on the installation. The usage text.
- Directory names of exported LoRAs (`worker.cpp`, 1161 to 1273): a child of the catalog directory has a name.
- Versions of a repository: a resumed download may mix two (`z_image_bf16_export.cpp:318`).
  Nothing in the code notices, and no document promises that it does: the one hazard without a
  property.
- The body of an Automatic1111 request that is no JSON object, which skips the resolution of aliases.
- The parser of timings in a worker's log; wording of responses; names of tensors inside packs.
- The worker executables. They read the input image when they run and write the output in
  place, they end (liveness only), and one that exits with 0 has written the whole picture: `run_worker` looks
  at the exit code and at whether the file exists (`worker.cpp:2066` to `2083`).
- Power loss. Nothing in the code calls `fsync`, so after one a file that was written or renamed may be
  lost or torn. `Crash` of the weights modules is the death of the process, of which
  every write and rename survives.
- A clock that is set back. Names and lives are ordered by `system_clock`; `Restart` assumes that
  a life begins no earlier than the names of the last.
- The delimiter of a form: the client's, taken as known. `parse_multipart_request` takes all that follows `boundary=`
  in the header (`request_parser.cpp:216` to `223`), so a boundary in quotes or a parameter behind it gives a
  delimiter that is nowhere in the body, and the form is read as one without parts.
- Numbers in bodies with a fraction or an exponent: `lora_rank` 8.5 is ignored by the reader of objects
  (`request_parser.cpp:108`) and read as 8 by the form's `std::stoi`. `FormsAgree` is about integers.
- Orphans of an earlier life hold the accelerator without the mutex: `OneWorkerAtATime` is about the threads of
  one process. And a request whose output cannot be read back never enters `done`: `RetentionPolicy` and `OwnPicture` say
  nothing of its files, which `handle_image_edit` leaves (the hazard at `http_handlers.cpp:1114`).
- A local snapshot that holds some of a component's files in the NPU repository: `FluxWeights` has such a group
  there with all its files or with none.
- Removals that fail: the code ignores them or warns, and leaves the file.
- Build scripts and CI have no run-time behaviour.

## Plan

Done: the request path with its refinement and the life of the process, the model memory, the
catalog and the launch of a worker, both kinds of weights, the conversions, start-up and parsing;
theorems about every safety property that a run checks, and the types of
every module.

Left: a repository with two versions in `ZImageWeights`, if the code comes to compare them.
