---------------------------- MODULE ModelMemory ----------------------------
(***************************************************************************)
(* Which model an image request gets when its client did not name one.     *)
(*                                                                         *)
(* A client such as OpenWebUI names its model in a chat completion and an  *)
(* alias ("local-model") in the image request before or after it.  The     *)
(* server remembers the last image model and the last edit model any chat  *)
(* named.  A request for an alias takes the remembered one if it is recent *)
(* and else polls for a new one for a while.                               *)
(*                                                                         *)
(* A client of the Automatic1111 API names its model in the options, and   *)
(* its txt2img requests none.                                              *)
(*                                                                         *)
(* Time is relative: every memory has an age, in poll intervals, that      *)
(* stops counting once it is past the window.  So the model needs no       *)
(* bound on time.                                                          *)
(***************************************************************************)
EXTENDS Integers, Sequences, FiniteSets

CONSTANTS
  Conns,       \* request threads
  Catalog,     \* the canonical LoRA ids of list_lora_model_entries
  Configs,     \* what config::model_id may be
  Requests,    \* requests that need a model, or set one
  Chats,       \* the chat completions that may come
  Window,      \* kRecentOpenWebUIModelWindow, in poll intervals
  Polls,       \* polls before a wait gives up
  MaxUpdates,  \* bound: models selected or posted
  None

VARIABLE config  \* config::model_id, and its served spelling

Bases == {"alias", "flux", "flux-edit", "z-image-bf16", "z-image-q41", "other"}

\* A model id: its base; no LoRA, a LoRA to be chosen ("generic") or a named
\* one; in the catalog's spelling or in another one a client may use.
ModelId == [base : Bases, lora : {"no", "generic", "style", "detail"}, alt : BOOLEAN]

IsAlias(m) == m.base = "alias"

IsEdit(m) == m.base = "flux-edit"

\* canonical_lora_model_id: the catalog's spelling of a LoRA of the catalog.
InCatalog(m) == [m EXCEPT !.alt = FALSE] \in Catalog
Canonical(m) == IF InCatalog(m) THEN [m EXCEPT !.alt = FALSE] ELSE m

\* canonical_edit_model_id, of an edit model: also the short name of the base.
CanonicalEdit(m) == IF m.lora = "no" THEN [m EXCEPT !.alt = FALSE] ELSE Canonical(m)

IsGenericLora(m) == m.lora = "generic" /\ ~InCatalog(m)

\* normalize_model_target: the FLUX workers serve base and LoRA alike, those of
\* Z-Image are told apart.
Target(m) ==
  LET n == IF IsAlias(m) THEN config ELSE m
  IN  <<n.base, n.lora # "no" /\ n.base \in {"z-image-bf16", "z-image-q41"}>>

ShouldApply(requested, remembered) ==
  IF IsAlias(requested)
    THEN ~IsAlias(remembered)
    ELSE /\ ~InCatalog(requested)
         /\ ~(requested.base \in {"flux", "flux-edit"} /\ requested.lora = "no")
         /\ Target(requested) = Target(remembered)

EditModels == {m \in ModelId : IsEdit(m)}

\* A chat completion: its "model" and the edit models its JSON mentions anywhere.
ChatType == [model : ModelId, mentions : SUBSET EditModels]

\* request_edit_model_from_json_body and request_model_from_json_body: the model
\* a chat selects.  A mentioned edit LoRA of the catalog goes before any other
\* edit model, and that before the "model"; several are told apart by their
\* places in the JSON, which is left open.
Selected(chat) ==
  LET edits == {CanonicalEdit(m) : m \in chat.mentions}
      loras == {m \in edits : InCatalog(m)}
  IN  IF loras # {} THEN loras
      ELSE IF edits # {} THEN edits
      ELSE {chat.model}

\* model: None in a txt2img request without one, and in a GET of the options.
\* prompt: the one catalog entry that the prompt matches best, None when no entry
\* or several do.  text: the edit model that the body of an edit request mentions,
\* None without one.
RequestType ==
  [route : {"image", "edit", "options"}, model : ModelId \cup {None},
   prompt : Catalog \cup {None}, text : EditModels \cup {None}]


ASSUME ModelsAssumption ==
  /\ Catalog \subseteq {m \in ModelId : m.lora \in {"style", "detail"} /\ ~m.alt}
  /\ Configs \subseteq {m \in ModelId : ~IsAlias(m)}
  /\ Chats \subseteq ChatType
  /\ \A chat \in Chats : IsEdit(chat.model) => chat.model \in chat.mentions
  /\ Requests \subseteq RequestType
  /\ \A r \in Requests : r.route = "edit" => r.model # None
  /\ \A r \in Requests : r.model # None /\ IsAlias(r.model) => r.model.lora = "no"

ASSUME BoundsAssumption ==
  /\ Window \in Nat /\ Polls \in Nat \ {0} /\ MaxUpdates \in Nat

ASSUME NoneAssumption == None \notin ModelId

VARIABLES
  checkpoint,  \* g_automatic1111_model
  memory,  \* g_last_openwebui_model and g_last_openwebui_edit_model
  pc,      \* where each request thread is
  req,     \* its request
  snap,    \* remembered_model, the copy it took of a memory
  polls,   \* polls it has made
  slept,   \* has it slept since the last one?
  result   \* params.model

\* History variables.
VARIABLES
  chosen,  \* the models each memory has held, by generation
  before,  \* how many its memory had held when a thread first looked
  seen,    \* how many when it last looked
  origin,  \* where the result came from
  posted   \* the checkpoints that were posted

options == <<config, checkpoint, posted>>
vars ==
  <<options, memory, pc, req, snap, polls, slept, result, chosen, before, seen, origin>>

Kinds == {"image", "edit"}
Kind(c) == req[c].route

\* The age of a memory that was never set, or set too long ago to matter.
Old == Window + 1
Ages == 0 .. Old
Memory == [model : ModelId \cup {None}, generation : 0 .. MaxUpdates, age : Ages]
Unset == [model |-> None, generation |-> 0, age |-> Old]

Older(m) == [m EXCEPT !.age = IF @ < Old THEN @ + 1 ELSE Old]
IsRecent(m) == m.model # None /\ m.age <= Window

TypeOK ==
  /\ config \in Configs
  /\ checkpoint \in ModelId \cup {None}
  /\ posted \in Seq(ModelId)
  /\ memory \in [Kinds -> Memory]
  /\ pc \in [Conns -> {"idle", "arrived", "posted", "deciding", "polling", "resolved"}]
  /\ req \in [Conns -> RequestType \cup {None}]
  /\ snap \in [Conns -> Memory]
  /\ polls \in [Conns -> 0 .. Polls - 1]
  /\ slept \in [Conns -> BOOLEAN]
  /\ result \in [Conns -> ModelId \cup {None}]
  /\ chosen \in [Kinds -> Seq(ModelId)]
  /\ before \in [Conns -> 0 .. MaxUpdates]
  /\ seen \in [Conns -> 0 .. MaxUpdates]
  /\ origin \in [Conns -> {"none", "request", "memory", "fallback", "options"}]

Init ==
  /\ config \in Configs
  /\ checkpoint = None
  /\ posted = << >>
  /\ memory = [k \in Kinds |-> Unset]
  /\ pc = [c \in Conns |-> "idle"]
  /\ req = [c \in Conns |-> None]
  /\ snap = [c \in Conns |-> Unset]
  /\ polls = [c \in Conns |-> 0]
  /\ slept = [c \in Conns |-> FALSE]
  /\ result = [c \in Conns |-> None]
  /\ chosen = [k \in Kinds |-> << >>]
  /\ before = [c \in Conns |-> 0]
  /\ seen = [c \in Conns |-> 0]
  /\ origin = [c \in Conns |-> "none"]

\* Bound: updates of the memories and the checkpoint, those in flight included.
Updates(r) == \/ r.route = "edit" /\ IsEdit(r.model)
              \/ r.route = "options" /\ r.model # None
Updating == {c \in Conns : pc[c] = "arrived" /\ Updates(req[c])}
Room ==
  Len(chosen["image"]) + Len(chosen["edit"]) + Len(posted) + Cardinality(Updating)
    < MaxUpdates

\* Mutant: the generation counts changes of the model, not selections.
RememberChange(k, m) ==
  LET g == memory[k].generation + (IF memory[k].model = m THEN 0 ELSE 1) IN
  /\ memory' = [memory EXCEPT ![k] = [model |-> m, generation |-> g, age |-> 0]]
  /\ chosen' = [chosen EXCEPT ![k] = Append(@, m)]

\* Under g_openwebui_model_mutex: the model, a new generation, the time.
Remember(k, m) ==
  /\ memory' = [memory EXCEPT ![k] =
       [model |-> m, generation |-> memory[k].generation + 1, age |-> 0]]
  /\ chosen' = [chosen EXCEPT ![k] = Append(@, m)]

Resolve(c, m, from) ==
  /\ result' = [result EXCEPT ![c] = m]
  /\ origin' = [origin EXCEPT ![c] = from]
  /\ pc' = [pc EXCEPT ![c] = "resolved"]

-----------------------------------------------------------------------------
\* Mutant: every model a chat names is remembered as an image model.
ChatImagesOnly ==
  \E chat \in Chats : \E m \in Selected(chat) :
    /\ ~IsAlias(m)
    /\ Room
    /\ Remember("image", Canonical(m))
    /\ UNCHANGED <<options, pc, req, snap, polls, slept, result, before, seen, origin>>

\* A chat completion: an edit model goes to the edit memory, an alias nowhere,
\* anything else to the image memory.
Chat ==
  \E chat \in Chats : \E m \in Selected(chat) :
    /\ ~IsAlias(m)
    /\ Room
    /\ IF IsEdit(m) THEN Remember("edit", CanonicalEdit(m))
                    ELSE Remember("image", Canonical(m))
    /\ UNCHANGED <<options, pc, req, snap, polls, slept, result, before, seen, origin>>

\* current_automatic1111_model_id.
Checkpoint == IF checkpoint = None THEN config ELSE checkpoint

\* handle_image_edit: an edit model in the body goes before an alias.  A txt2img
\* request without a model is for the checkpoint.
Request(r) ==
  IF r.route = "edit" /\ IsAlias(r.model) /\ r.text # None
    THEN [r EXCEPT !.model = CanonicalEdit(r.text)]
  ELSE IF r.route = "image" /\ r.model = None
    THEN [r EXCEPT !.model = Checkpoint]
  ELSE r

Arrive(c) ==
  /\ pc[c] = "idle"
  /\ \E r \in Requests :
       /\ Updates(Request(r)) => Room
       /\ req' = [req EXCEPT ![c] = Request(r)]
  /\ pc' = [pc EXCEPT ![c] = "arrived"]
  /\ UNCHANGED <<options, memory, snap, polls, slept, result, chosen, before, seen, origin>>

\* Mutant: the first model posted stays.
PostOptionsOnce(c) ==
  /\ pc[c] = "arrived" /\ Kind(c) = "options"
  /\ IF req[c].model = None
       THEN UNCHANGED <<checkpoint, posted>>
       ELSE /\ checkpoint' = IF checkpoint = None THEN req[c].model ELSE checkpoint
            /\ posted' = Append(posted, req[c].model)
  /\ before' = [before EXCEPT ![c] = Len(posted')]
  /\ pc' = [pc EXCEPT ![c] = "posted"]
  /\ UNCHANGED <<config, memory, req, snap, polls, slept, result, chosen, seen, origin>>

\* POST /sdapi/v1/options sets the checkpoint under its mutex; a GET does not.
PostOptions(c) ==
  /\ pc[c] = "arrived" /\ Kind(c) = "options"
  /\ IF req[c].model = None
       THEN UNCHANGED <<checkpoint, posted>>
       ELSE checkpoint' = req[c].model /\ posted' = Append(posted, req[c].model)
  /\ before' = [before EXCEPT ![c] = Len(posted')]
  /\ pc' = [pc EXCEPT ![c] = "posted"]
  /\ UNCHANGED <<config, memory, req, snap, polls, slept, result, chosen, seen, origin>>

\* Both answer with the checkpoint, read under a lock of its own.
AnswerOptions(c) ==
  /\ pc[c] = "posted"
  /\ seen' = [seen EXCEPT ![c] = Len(posted)]
  /\ Resolve(c, Checkpoint, "options")
  /\ UNCHANGED <<options, memory, req, snap, polls, slept, chosen, before>>

\* The request names its model: a LoRA of the catalog, or one that no memory is
\* asked about.
NameImageModel(c) ==
  LET m == req[c].model IN
  /\ pc[c] = "arrived" /\ Kind(c) = "image"
  /\ InCatalog(m) \/ ~(IsAlias(m) \/ IsGenericLora(m))
  /\ Resolve(c, Canonical(m), "request")
  /\ UNCHANGED <<options, memory, req, snap, polls, slept, chosen, before, seen>>

\* An edit request that names an edit model is itself remembered; any other
\* model it names is left alone.
NameEditModel(c) ==
  LET m == req[c].model IN
  /\ pc[c] = "arrived" /\ Kind(c) = "edit"
  /\ ~IsAlias(m)
  /\ IF IsEdit(m)
       THEN Remember("edit", CanonicalEdit(m)) /\ Resolve(c, CanonicalEdit(m), "request")
       ELSE UNCHANGED <<options, memory, chosen>> /\ Resolve(c, m, "request")
  /\ UNCHANGED <<options, req, snap, polls, slept, before, seen>>

\* A thread reads its memory.
Look(c) == seen' = [seen EXCEPT ![c] = Len(chosen[Kind(c)])]

\* remembered_openwebui_model and remembered_openwebui_edit_model.
Snapshot(c) ==
  LET m == req[c].model IN
  /\ pc[c] = "arrived"
  /\ Kind(c) # "options"
  /\ IsAlias(m) \/ (Kind(c) = "image" /\ IsGenericLora(m))
  /\ snap' = [snap EXCEPT ![c] = memory[Kind(c)]]
  /\ before' = [before EXCEPT ![c] = Len(chosen[Kind(c)])]
  /\ Look(c)
  /\ pc' = [pc EXCEPT ![c] = "deciding"]
  /\ UNCHANGED <<options, memory, req, polls, slept, result, chosen, origin>>

\* An alias takes a recent model.
TakeRecent(c) ==
  /\ pc[c] = "deciding"
  /\ IsAlias(req[c].model)
  /\ IsRecent(snap[c])
  /\ Resolve(c, snap[c].model, "memory")
  /\ UNCHANGED <<options, memory, req, snap, polls, slept, chosen, before, seen>>

\* Without one, and for a generic LoRA in any case, the thread goes to sleep.
StartWaiting(c) ==
  /\ pc[c] = "deciding"
  /\ ~(IsAlias(req[c].model) /\ IsRecent(snap[c]))
  /\ polls' = [polls EXCEPT ![c] = 0]
  /\ slept' = [slept EXCEPT ![c] = FALSE]
  /\ pc' = [pc EXCEPT ![c] = "polling"]
  /\ UNCHANGED <<options, memory, req, snap, result, chosen, before, seen, origin>>

\* Mutant: whatever was selected is applied.
TakeFreshBlindly(c) ==
  LET fresh == memory[Kind(c)] IN
  /\ pc[c] = "polling" /\ slept[c]
  /\ fresh.generation # snap[c].generation
  /\ snap' = [snap EXCEPT ![c] = fresh]
  /\ Look(c)
  /\ Resolve(c, fresh.model, "memory")
  /\ UNCHANGED <<options, memory, req, polls, slept, chosen, before>>

\* Mutant: the copy taken before the wait is applied, not the fresh one.
TakeStale(c) ==
  /\ pc[c] = "polling" /\ slept[c]
  /\ memory[Kind(c)].generation # snap[c].generation
  /\ Look(c)
  /\ IF snap[c].model # None /\ ShouldApply(req[c].model, snap[c].model)
       THEN Resolve(c, snap[c].model, "memory")
       ELSE Resolve(c, req[c].model, "fallback")
  /\ UNCHANGED <<options, memory, req, snap, polls, slept, chosen, before>>

\* The generation moved: an alias takes the model, a generic LoRA takes one of
\* its own target and stays as it is otherwise.
TakeFresh(c) ==
  LET m == req[c].model
      fresh == memory[Kind(c)]
  IN  /\ pc[c] = "polling" /\ slept[c]
      /\ fresh.generation # snap[c].generation
      /\ snap' = [snap EXCEPT ![c] = fresh]
      /\ Look(c)
      /\ IF ShouldApply(m, fresh.model)
           THEN Resolve(c, fresh.model, "memory")
           ELSE Resolve(c, m, "fallback")
      /\ UNCHANGED <<options, memory, req, polls, slept, chosen, before>>

\* Mutant: the attempt is not counted.
KeepWaitingUncounted(c) ==
  /\ pc[c] = "polling" /\ slept[c]
  /\ memory[Kind(c)].generation = snap[c].generation
  /\ polls[c] + 1 < Polls
  /\ Look(c)
  /\ slept' = [slept EXCEPT ![c] = FALSE]
  /\ UNCHANGED <<options, memory, pc, req, snap, polls, result, chosen, before, origin>>

KeepWaiting(c) ==
  /\ pc[c] = "polling" /\ slept[c]
  /\ memory[Kind(c)].generation = snap[c].generation
  /\ polls[c] + 1 < Polls
  /\ polls' = [polls EXCEPT ![c] = @ + 1]
  /\ Look(c)
  /\ slept' = [slept EXCEPT ![c] = FALSE]
  /\ UNCHANGED <<options, memory, pc, req, snap, result, chosen, before, origin>>

\* Mutant: an old memory goes before the prompt.
FallbackImageModelByMemory(r, remembered) ==
  LET m == IF IsAlias(r.model) THEN config ELSE r.model IN
  IF IsGenericLora(m) /\ remembered.model # None /\ ShouldApply(m, remembered.model)
    THEN remembered.model
    ELSE IF IsGenericLora(m) /\ r.prompt # None /\ Target(r.prompt) = Target(m)
           THEN r.prompt ELSE m

\* An image request falls back to the configured model or stays a generic LoRA,
\* which its prompt and then an old memory may still make a named one.
FallbackImageModel(r, remembered) ==
  LET m == IF IsAlias(r.model) THEN config ELSE r.model IN
  IF ~IsGenericLora(m) THEN m
  ELSE IF r.prompt # None /\ Target(r.prompt) = Target(m) THEN r.prompt
  ELSE IF /\ ~IsAlias(r.model)
          /\ remembered.model # None
          /\ ShouldApply(m, remembered.model)
       THEN remembered.model
  ELSE m

\* An edit request falls back to the configured model if that is an edit model,
\* and else keeps its alias.
FallbackEditModel(r) == IF IsEdit(config) THEN CanonicalEdit(config) ELSE r.model

GiveUp(c) ==
  /\ pc[c] = "polling" /\ slept[c]
  /\ memory[Kind(c)].generation = snap[c].generation
  /\ polls[c] + 1 = Polls
  /\ Resolve(c, IF Kind(c) = "edit" THEN FallbackEditModel(req[c])
                                    ELSE FallbackImageModel(req[c], snap[c]),
             "fallback")
  /\ Look(c)
  /\ UNCHANGED <<options, memory, req, snap, polls, slept, chosen, before>>

\* The request goes on to the worker (see InferenceServer).
Leave(c) ==
  /\ pc[c] = "resolved"
  /\ pc' = [pc EXCEPT ![c] = "idle"]
  /\ req' = [req EXCEPT ![c] = None]
  /\ snap' = [snap EXCEPT ![c] = Unset]
  /\ polls' = [polls EXCEPT ![c] = 0]
  /\ slept' = [slept EXCEPT ![c] = FALSE]
  /\ result' = [result EXCEPT ![c] = None]
  /\ before' = [before EXCEPT ![c] = 0]
  /\ seen' = [seen EXCEPT ![c] = 0]
  /\ origin' = [origin EXCEPT ![c] = "none"]
  /\ UNCHANGED <<options, memory, chosen>>

\* One poll interval goes by: memories and their copies age, sleepers wake.
Tick ==
  /\ memory' = [k \in Kinds |-> Older(memory[k])]
  /\ snap' = [c \in Conns |-> Older(snap[c])]
  /\ slept' = [c \in Conns |-> slept[c] \/ pc[c] = "polling"]
  /\ UNCHANGED <<options, pc, req, polls, result, chosen, before, seen, origin>>

-----------------------------------------------------------------------------
Step(c) ==
  \/ PostOptions(c) \/ AnswerOptions(c)
  \/ NameImageModel(c) \/ NameEditModel(c) \/ Snapshot(c)
  \/ TakeRecent(c) \/ StartWaiting(c)
  \/ TakeFresh(c) \/ KeepWaiting(c) \/ GiveUp(c)

Next == Chat \/ Tick \/ \E c \in Conns : Arrive(c) \/ Step(c) \/ Leave(c)

Spec == Init /\ [][Next]_vars

\* Threads run and time goes by; nobody has to chat.
FairSpec == Spec /\ WF_vars(Tick) /\ \A c \in Conns : WF_vars(Step(c))

-----------------------------------------------------------------------------
(* What must hold.                                                          *)

Resolved(c) == pc[c] = "resolved"

\* A model that came from the memory is the one selected last of all those the
\* thread could have seen when it last looked, and never another client's
\* earlier one, however often it was replaced while the thread slept.
LatestSelectionWins ==
  \A c \in Conns :
    Resolved(c) /\ origin[c] = "memory" =>
      result[c] = chosen[Kind(c)][seen[c]]

\* An alias is given up on only if nothing at all was selected between the
\* thread's first look and its last: re-selecting the same model counts.
NoSelectionMissed ==
  \A c \in Conns :
    Resolved(c) /\ origin[c] = "fallback" /\ IsAlias(req[c].model) =>
      before[c] = seen[c]

\* An alias on the edit route never becomes an image model by way of the
\* memories, and one on the image route never an edit model: the two never mix.
KindsApart ==
  \A c \in Conns :
    Resolved(c) /\ origin[c] = "memory" /\ IsAlias(req[c].model) =>
      (IsEdit(result[c]) <=> Kind(c) = "edit")

\* A request that does name a model is served by the worker of that model: a
\* LoRA is put in the place of a generic one, but never of another target's.
TargetKept ==
  \A c \in Conns :
    Resolved(c) /\ Kind(c) # "options" /\ ~IsAlias(req[c].model) =>
      Target(result[c]) = Target(req[c].model)

\* A generic LoRA whose prompt singles out a LoRA gets that LoRA and no older
\* selection, unless somebody selected a model while it waited.  (Then it stays
\* generic even if the selection is of no use to it: the wait returns before the
\* prompt is looked at.)
PromptUsed ==
  \A c \in Conns :
    Resolved(c) /\ req[c].prompt # None /\ IsGenericLora(req[c].model)
      /\ Kind(c) = "image" /\ Target(req[c].prompt) = Target(req[c].model)
      /\ before[c] = seen[c] =>
      result[c] = req[c].prompt

\* The answer to a POST of the options names the model posted, or one that another
\* client posted since, never an older one, although setting it and reading it
\* back are two critical sections.
OptionsAnswered ==
  \A c \in Conns :
    Resolved(c) /\ Kind(c) = "options" /\ req[c].model # None =>
      \E i \in before[c] .. seen[c] : result[c] = posted[i]

\* Every request gets its model or a fallback, whatever clients select while it
\* waits.
EveryModelResolved == \A c \in Conns : pc[c] = "arrived" ~> Resolved(c)

-----------------------------------------------------------------------------
(* The inductive invariant of the proofs.                                   *)

\* The types, but for the bounds on counters.
Types ==
  /\ config \in Configs
  /\ checkpoint \in ModelId \cup {None}
  /\ posted \in Seq(ModelId)
  /\ memory \in [Kinds -> [model : ModelId \cup {None}, generation : Nat, age : Ages]]
  /\ chosen \in [Kinds -> Seq(ModelId)]
  /\ pc \in [Conns -> {"idle", "arrived", "posted", "deciding", "polling", "resolved"}]
  /\ DOMAIN req = Conns
  /\ snap \in [Conns -> [model : ModelId \cup {None}, generation : Nat, age : Ages]]
  /\ DOMAIN slept = Conns /\ DOMAIN polls = Conns
  /\ DOMAIN result = Conns /\ DOMAIN origin = Conns
  /\ before \in [Conns -> Nat]
  /\ seen \in [Conns -> Nat]

\* What a memory holds once n models were chosen for it.
HeldAt(models, n) == IF n = 0 THEN None ELSE models[n]

\* The memories and the checkpoint hold what was chosen last, each its own kind.
PlainAlias(m) == IsAlias(m) => m.lora = "no"
MemoriesHold ==
  /\ checkpoint = HeldAt(posted, Len(posted))
  /\ checkpoint # None => PlainAlias(checkpoint)
  /\ \A k \in Kinds :
       /\ memory[k].generation = Len(chosen[k])
       /\ memory[k].model = HeldAt(chosen[k], Len(chosen[k]))
       /\ \A i \in 1 .. Len(chosen[k]) :
            ~IsAlias(chosen[k][i]) /\ (IsEdit(chosen[k][i]) <=> k = "edit")

\* A thread's request, and how far it is with it.
RequestSound(r) ==
  /\ r \in RequestType
  /\ r.route # "options" => r.model # None
  /\ r.model # None => PlainAlias(r.model)

AsksMemory(r) ==
  \/ r.route \in Kinds /\ IsAlias(r.model)
  \/ r.route = "image" /\ IsGenericLora(r.model)

CopySound(c) ==
  /\ AsksMemory(req[c])
  /\ before[c] <= Len(chosen[Kind(c)])
  /\ snap[c].generation = before[c]
  /\ snap[c].model = HeldAt(chosen[Kind(c)], before[c])
  /\ pc[c] = "deciding" => seen[c] = before[c]

PostSound(c) ==
  /\ Kind(c) = "options"
  /\ before[c] <= Len(posted)
  /\ req[c].model # None => before[c] > 0

ResultSound(c) ==
  /\ origin[c] = "memory" =>
       /\ Kind(c) \in Kinds
       /\ seen[c] \in 1 .. Len(chosen[Kind(c)])
       /\ result[c] = chosen[Kind(c)][seen[c]]
  /\ origin[c] = "fallback" /\ IsAlias(req[c].model) => before[c] = seen[c]
  /\ Kind(c) # "options" /\ ~IsAlias(req[c].model) => Target(result[c]) = Target(req[c].model)
  /\ req[c].prompt # None /\ IsGenericLora(req[c].model) /\ Kind(c) = "image"
       /\ Target(req[c].prompt) = Target(req[c].model) /\ before[c] = seen[c] =>
       result[c] = req[c].prompt
  /\ Kind(c) = "options" =>
       /\ seen[c] <= Len(posted)
       /\ req[c].model # None =>
            before[c] > 0 /\ \E i \in before[c] .. seen[c] : result[c] = posted[i]

ThreadSound(c) ==
  /\ pc[c] # "idle" => RequestSound(req[c])
  /\ pc[c] \in {"deciding", "polling"} => CopySound(c)
  /\ pc[c] = "posted" => PostSound(c)
  /\ pc[c] = "resolved" => ResultSound(c)

IInv == Types /\ MemoriesHold /\ \A c \in Conns : ThreadSound(c)

=============================================================================
