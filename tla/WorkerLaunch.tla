---------------------------- MODULE WorkerLaunch ----------------------------
(***************************************************************************)
(* How run_worker makes a worker's command line out of a request: it looks *)
(* for a LoRA in the catalog, in up to five ways, and then puts together   *)
(* what the request, the catalog and the configuration say.                *)
(*                                                                         *)
(* Every look-up reads the lists' files anew, and an operator may change   *)
(* them at any time.  Requests run one by one (see InferenceServer).       *)
(***************************************************************************)
EXTENDS LoraCatalog

CONSTANTS
  Catalogs,     \* what the lists' files may hold
  Exports,      \* names of the catalog directory's children that hold weights
  Requests,     \* the requests that may come
  ConfigModel,  \* config::model_id
  ConfigLora,   \* which of config::lora_dir, _source, _file are set
  ConfigGguf,   \* which of config::gguf_path, _repo, _file are set
  Installed,    \* the worker executables that are there
  Alias         \* is_local_model_alias, or config::served_model_id

LoraOptions == {"dir", "source", "file"}
GgufOptions == {"path", "repo", "file"}

\* A request: its model, the words of its prompt, the options it sets, and
\* whether it brings an image.
RequestType ==
  [model : ModelId \cup {Alias}, prompt : SUBSET Words, lora : SUBSET LoraOptions,
   gguf : SUBSET GgufOptions, image : BOOLEAN]

ASSUME RequestsAssumption ==
  /\ Catalogs \subseteq Lists
  /\ \A lists \in Catalogs, list \in {"flux", "edit"} : lists[list] # Missing =>
       \A i \in DOMAIN lists[list] :
         lists[list][i].id # None => lists[list][i].id.family \notin ZImage
  /\ Exports \subseteq Names
  /\ Installed \subseteq Families \cup {"lora_add_q41"}
  /\ Requests \subseteq RequestType
  /\ Alias \notin ModelId
  /\ None \notin {"request", "catalog", "config", "default"}
  /\ ConfigModel \in ModelId
  /\ ConfigLora \subseteq LoraOptions
  /\ ConfigGguf \subseteq GgufOptions

VARIABLES
  lists,     \* the lists' files
  pc,        \* where run_worker is
  req,       \* the request, its alias resolved
  selected,  \* selected_lora
  result     \* the command line of the worker

vars == <<lists, pc, req, selected, result>>

Origins == {"request", "catalog", "config", "default", None}
CommandLine ==
  [target : Families \X BOOLEAN, lora : [LoraOptions -> Origins],
   gguf : [GgufOptions -> Origins], image : BOOLEAN]

LookUps == {"id", "name", "prompt", "lists", "catalog"}

TypeOK ==
  /\ lists \in Catalogs
  /\ pc \in {"idle", "selecting", "launched", "failed"} \cup LookUps
  /\ req \in {r \in Requests \cup {[s EXCEPT !.model = ConfigModel] : s \in Requests} :
                r.model # Alias} \cup {None}
  /\ selected \in Entry \cup {NoEntry}
  /\ result \in CommandLine \cup {None}

Init ==
  /\ lists \in Catalogs
  /\ pc = "idle"
  /\ req = None
  /\ selected = NoEntry
  /\ result = None

\* An operator changes the files.
EditLists ==
  /\ lists' \in Catalogs
  /\ UNCHANGED <<pc, req, selected, result>>

Receive ==
  /\ pc = "idle"
  /\ \E r \in Requests :
       req' = [r EXCEPT !.model = IF @ = Alias THEN ConfigModel ELSE @]
  /\ pc' = "id"
  /\ UNCHANGED <<lists, selected, result>>

Found(entry, otherwise) ==
  /\ selected' = entry
  /\ pc' = IF entry # NoEntry THEN "selecting" ELSE otherwise
  /\ UNCHANGED <<lists, req, result>>

FindById ==
  /\ pc = "id"
  /\ Found(EntryById(Catalog(lists, Exports), req.model), "name")

\* Mutant: a file is as good as a directory or a source.
HasAnyLoraOptions(r) == r.lora \cup ConfigLora # {}

\* has_direct_lora_options.
HasDirectLoraOptions(r) == (r.lora \cup ConfigLora) \cap {"dir", "source"} # {}

\* The prompt is only asked about a generic FLUX LoRA, in whatever spelling.
AsksPrompt(id) ==
  FluxVariant(id) # "none" /\ id.name = NoName /\ id.prefix # "colon"

FindByName ==
  /\ pc = "name"
  /\ Found(EntryByName(Catalog(lists, Exports), req.model),
           IF HasDirectLoraOptions(req) THEN "selecting"
           ELSE IF AsksPrompt(req.model) THEN "prompt"
           ELSE "lists")

FindByPrompt ==
  /\ pc = "prompt"
  /\ Found(EntryByPrompt(Catalog(lists, Exports), req.model, req.prompt), "lists")

\* The default: the family's first entry in the order of the lists, and then in
\* that of the ids.
FindInLists ==
  /\ pc = "lists"
  /\ Found(EntryByFamily(ReadLists(lists), req.model), "catalog")

FindInCatalog ==
  /\ pc = "catalog"
  /\ Found(EntryByFamily(Catalog(lists, Exports), req.model), "selecting")

-----------------------------------------------------------------------------
\* Mutant: a request's options fill in what the entry lacks.
LoraOriginOfBoth(option) ==
  LET given == {o \in LoraOptions :
        CASE o = "dir" -> TRUE [] o = "source" -> selected.source # None
          [] o = "file" -> selected.file # None}
  IN  IF selected # NoEntry /\ option \in given THEN "catalog"
      ELSE IF option \in req.lora THEN "request"
      ELSE IF option \in ConfigLora THEN "config" ELSE None

\* An entry's files take the place of the request's; append_lora_args fills in
\* from the configuration whatever is then empty.
GivenByEntry(option) ==
  CASE option = "dir"    -> TRUE
    [] option = "source" -> selected.source # None
    [] option = "file"   -> selected.file # None
LoraOrigin(option) ==
  IF selected # NoEntry /\ GivenByEntry(option) THEN "catalog"
  ELSE IF selected = NoEntry /\ option \in req.lora THEN "request"
  ELSE IF option \in ConfigLora THEN "config"
  ELSE None

\* append_gguf_args: defaults only if nothing at all is said.
GgufOrigin(option) ==
  IF option \in req.gguf THEN "request"
  ELSE IF option \in ConfigGguf THEN "config"
  ELSE IF option # "path" /\ req.gguf \cup ConfigGguf = {} THEN "default"
  ELSE None

\* normalize_model_target: FLUX workers serve base and LoRAs alike.
Target(id) == <<id.family, id.lora /\ id.family \in ZImage>>

\* resolve_worker_paths: the directory of the executable.
Worker(target) ==
  IF target = <<"q41", TRUE>> THEN "lora_add_q41" ELSE target[1]

\* target_accepts_lora_options, target_accepts_gguf_options.
AcceptsLora(target) == target # <<"q41", FALSE>>
AcceptsGguf(target) == target[1] = "q41"
AcceptsImage(target) == target[1] = "edit"

\* The family whose worker is started: the entry's, or the request's own.
ChosenModel ==
  IF selected # NoEntry THEN LoraId(selected.id.family, NoName) ELSE req.model

\* A LoRA was asked for, none was found, and none is configured.
NoLora ==
  /\ selected = NoEntry
  /\ \/ NamesLora(req.model)
     \/ ~HasDirectLoraOptions(req) /\ IsGenericZImage(req.model)
     \/ ~HasDirectLoraOptions(req) /\ IsGenericFlux(req.model)

\* run_worker throws: no LoRA, or (validate_worker_launch_paths) no such worker.
Fail ==
  /\ pc = "selecting"
  /\ NoLora \/ Worker(Target(ChosenModel)) \notin Installed
  /\ pc' = "failed"
  /\ UNCHANGED <<lists, req, selected, result>>

Arguments ==
  LET target == Target(ChosenModel) IN
  [target |-> target,
   lora |-> [o \in LoraOptions |-> IF AcceptsLora(target) THEN LoraOrigin(o) ELSE None],
   gguf |-> [o \in GgufOptions |-> IF AcceptsGguf(target) THEN GgufOrigin(o) ELSE None],
   image |-> req.image /\ AcceptsImage(target)]

Launch ==
  /\ pc = "selecting"
  /\ ~NoLora /\ Worker(Target(ChosenModel)) \in Installed
  /\ result' = Arguments
  /\ pc' = "launched"
  /\ UNCHANGED <<lists, req, selected>>

Return ==
  /\ pc \in {"launched", "failed"}
  /\ pc' = "idle"
  /\ req' = None
  /\ selected' = NoEntry
  /\ result' = None
  /\ UNCHANGED lists

Next ==
  \/ EditLists \/ Receive
  \/ FindById \/ FindByName \/ FindByPrompt \/ FindInLists \/ FindInCatalog
  \/ Launch \/ Fail \/ Return

Spec == Init /\ [][Next]_vars

-----------------------------------------------------------------------------
(* What must hold.                                                          *)

\* A request that says a LoRA family is served by that family's worker, however
\* its LoRA was found and whatever became of the lists between two look-ups.
FamilyKept ==
  pc = "launched" /\ req.model.lora /\ req.model.family # "none" =>
    result.target[1] = req.model.family

\* A worker asked for a LoRA never runs without one: a named LoRA comes from the
\* catalog and has that name, in some spelling; a generic one (in a spelling that
\* the code recognises) comes with a directory or a source.
Named(entry, id) ==
  \/ Text[entry.id.name] = Text[Decoded[id.name]]
  \/ SameName(entry.id.name, id.name)
LoraNeverDropped ==
  pc = "launched" =>
    /\ NamesLora(req.model) => selected # NoEntry /\ Named(selected, req.model)
    /\ IsGenericZImage(req.model) \/ IsGenericFlux(req.model) =>
         result.lora["dir"] # None \/ result.lora["source"] # None

\* The files of a catalog's LoRA are never mixed with those a request names; the
\* default repository is only ever asked for the default file, and that file of no
\* other repository.
OriginsUnmixed ==
  pc = "launched" =>
    /\ selected # NoEntry => \A o \in LoraOptions : result.lora[o] # "request"
    /\ result.gguf["repo"] = "default" <=> result.gguf["file"] = "default"
    /\ result.gguf["repo"] = "default" => result.gguf["path"] = None

\* The loop over the catalog that matches a prompt finds the entry that scores
\* higher than all others of the family, and none if two tie for the best.
TiesUndecided ==
  \A family \in Flux, prompt \in {r.prompt : r \in Requests} :
    BestOfLoop(Catalog(lists, Exports), LoraId(family, NoName), prompt) =
      EntryByPrompt(Catalog(lists, Exports), LoraId(family, NoName), prompt)

\* Of all items with one id, in all lists, the catalog holds the first, and whoever
\* sends an id that the server lists gets the entry with that id, or one that reads
\* the same, and no entry that is merely similar.  (Not so if the id itself reads
\* as an encoded one.)
FirstListedResolves ==
  LET all == AllEntries(lists)
      listed == {i \in DOMAIN all : all[i] # NoEntry}
      first == {i \in listed : \A j \in listed : j < i => all[j].id # all[i].id}
  IN  /\ ToSet(ReadLists(lists)) = {all[i] : i \in first}
      /\ \A e \in ToSet(Catalog(lists, Exports)) :
           Decode(e.id) = e.id =>
             LET found == EntryById(Catalog(lists, Exports), e.id)
             IN  found # NoEntry /\ Lookup(found.id) = Lookup(e.id)

\* "Resolve a request model ID or UI spelling to its canonical LoRA catalog entry"
\* (worker.hpp): when a name is looked up that an entry of the family has, that
\* entry is found, not one whose name is merely similar.
OwnEntryResolved ==
  pc = "name" /\ NamesLora(req.model) /\ Decode(req.model) = req.model =>
    LET catalog == Catalog(lists, Exports)
        named == {e \in ToSet(catalog) :
                    FamilyMatches(req.model, e) /\ e.id.name = req.model.name}
    IN  named # {} => EntryByName(catalog, req.model) \in named

-----------------------------------------------------------------------------
(* The inductive invariant of the proofs.                                   *)

\* What is selected serves the request, and only a generic FLUX LoRA asks the
\* prompt.
SelectionSound ==
  /\ pc # "idle" => req.model \in ModelId
  /\ pc = "prompt" => AsksPrompt(req.model)
  /\ pc \notin {"selecting", "launched", "failed"} => selected = NoEntry
  /\ selected # NoEntry =>
       /\ FamilyMatches(req.model, selected)
       /\ NamesLora(req.model) => Named(selected, req.model)

\* A worker's command line is what the request and the selection say.
LineSound == pc = "launched" => ~NoLora /\ result = Arguments

IInv == SelectionSound /\ LineSound

=============================================================================
