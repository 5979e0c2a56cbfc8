--------------------------- MODULE MCWorkerLaunch ---------------------------
(***************************************************************************)
(* Instances of WorkerLaunch for TLC: names that are spelled alike, what   *)
(* the lists may hold, and what clients ask for.                           *)
(***************************************************************************)
EXTENDS WorkerLaunch

\* 1 "a x", 2 "a+x", 3 "a-x", 4 "ax", 5 "a" and the sign for times, 6 "b".
SpelledDecoded == <<1, 1, 3, 4, 5, 6>>
SpelledText == <<1, 2, 3, 4, 4, 6>>
SpelledSlug == <<1, 1, 1, 4, 4, 6>>
SpelledKey == <<1, 1, 1, 1, 1, 6>>

\* The words of the six names; "bright" is in "brightness".
SomeWords == {"anime", "sketch", "bright", "brightness"}
SpelledTokens ==
  <<{"anime"}, {"anime"}, {"sketch"}, {"anime", "sketch"}, {"anime", "bright"}, {"sketch"}>>
SomeAlike == {<<"bright", "brightness">>, <<"brightness", "bright">>}
Prompts == {{}, {"anime"}, {"anime", "sketch"}, {"brightness"}}

NameOfAll == [s \in {"source", "folder"} |-> 6]

Bare(n) == LoraId("none", n)
Generic(family) == LoraId(family, NoName)
GenericBf16 == Generic("bf16")
Base(family) == [Generic(family) EXCEPT !.lora = FALSE]

ItemOf(id) ==
  [id |-> id, enabled |-> TRUE, source |-> "source", dir |-> None, file |-> "file"]

\* Items: bare names; names with a prefix, one that lacks an id, one that names a
\* directory, one that is disabled.
BareItems == {ItemOf(Bare(n)) : n \in {2, 3, 4, 5}}
OtherItems ==
  {ItemOf([LoraId("klein", 4) EXCEPT !.prefix = "colon"]),
   ItemOf([LoraId("edit", 3) EXCEPT !.prefix = "other"]),
   ItemOf(None),
   [ItemOf(Bare(4)) EXCEPT !.source = None, !.dir = "folder", !.file = None],
   [ItemOf(Bare(3)) EXCEPT !.enabled = FALSE]}
ZImageItem == ItemOf([LoraId("bf16", 2) EXCEPT !.prefix = "other"])

NoLists == [list \in ListNames |-> Missing]
TwoItems(p, q, i, j) ==
  [list \in ListNames |->
     (IF p = list THEN <<i>> ELSE << >>) \o (IF q = list THEN <<j>> ELSE << >>)]

\* No lists at all; two items in one list or in two.
SomeCatalogs ==
  {NoLists, [NoLists EXCEPT !["q41"] = <<ZImageItem, ItemOf(Bare(4))>>]} \cup
  {TwoItems("flux", "flux", i, j) : i \in BareItems, j \in BareItems} \cup
  {TwoItems("flux", q, ItemOf(Bare(4)), j) : q \in {"flux", "edit"}, j \in OtherItems} \cup
  {TwoItems("bf16", "any", ZImageItem, j) :
     j \in {ItemOf(Bare(1))} \cup BareItems \cup OtherItems}
FluxCatalogs ==
  {TwoItems("flux", "flux", i, j) :
     i \in {ItemOf(Bare(n)) : n \in Names}, j \in {ItemOf(Bare(n)) : n \in Names}}

Ask(model) ==
  [model |-> model, prompt |-> {}, lora |-> {}, gguf |-> {}, image |-> FALSE]

\* A base model, a named LoRA, a generic one, spelled and encoded in every way.
SomeRequests ==
  {Ask(Alias)} \cup
  {[Ask(Base("q41")) EXCEPT !.gguf = g] : g \in SUBSET GgufOptions} \cup
  {[Ask(Base(f)) EXCEPT !.image = TRUE, !.lora = {"file"}] : f \in {"klein", "edit", "bf16"}} \cup
  {Ask(Bare(n)) : n \in {2, 3, 4}} \cup
  {[Ask([LoraId(f, n) EXCEPT !.prefix = p]) EXCEPT !.lora = {"source"}] :
     f \in {"klein", "bf16"}, n \in {2, 3, 4, 5}, p \in {"dash", "other"}} \cup
  {[Ask([Generic(f) EXCEPT !.encoded = e]) EXCEPT !.lora = l] :
     f \in Families, e \in BOOLEAN, l \in {{}, {"file"}, {"dir"}}} \cup
  {[Ask([Generic(f) EXCEPT !.prefix = "colon"]) EXCEPT !.prompt = {"anime"}] :
     f \in Families} \cup
  {[Ask(Generic(f)) EXCEPT !.prompt = p] : f \in Flux, p \in Prompts}
NameRequests ==
  {Ask([LoraId("klein", n) EXCEPT !.prefix = "other"]) : n \in Names}

=============================================================================
