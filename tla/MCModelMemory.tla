--------------------------- MODULE MCModelMemory ---------------------------
(***************************************************************************)
(* Instances of ModelMemory for TLC: the catalog, what clients select in   *)
(* their chats and what they ask for.                                      *)
(***************************************************************************)
EXTENDS ModelMemory

CONSTANTS c1, c2

TwoConns == {c1, c2}

Model(base, lora) == [base |-> base, lora |-> lora, alt |-> FALSE]
Spelled(m) == [m EXCEPT !.alt = TRUE]

Alias == Model("alias", "no")
Flux == Model("flux", "no")
FluxLora == Model("flux", "generic")
FluxStyle == Model("flux", "style")
FluxDetail == Model("flux", "detail")
EditBase == Model("flux-edit", "no")
EditStyle == Model("flux-edit", "style")
ZImageLora == Model("z-image-bf16", "generic")
ZImageStyle == Model("z-image-bf16", "style")

LoraCatalog == {FluxStyle, FluxDetail, EditStyle, ZImageStyle}

Ask(route, m, prompt) ==
  [route |-> route, model |-> m, prompt |-> prompt, text |-> None]

Select(m) == [model |-> m, mentions |-> IF IsEdit(m) THEN {m} ELSE {}]
\* OpenWebUI's chat model with an image model picked in its settings.
Mention(m) == [model |-> Alias, mentions |-> {EditBase, m}]

\* OpenWebUI: aliases on both routes.  Other clients name a generic LoRA, or the
\* model itself, or set it in the options.
SomeRequests ==
  {Ask("image", Alias, ZImageStyle), Ask("edit", Alias, None),
   [Ask("edit", Alias, None) EXCEPT !.text = EditStyle],
   Ask("image", FluxLora, None), Ask("image", FluxLora, FluxDetail),
   Ask("edit", Flux, None), Ask("image", None, None),
   Ask("options", Alias, None), Ask("options", Spelled(FluxStyle), None)}
SomeChats ==
  {Select(Alias), Select(Spelled(FluxStyle)), Select(ZImageStyle), Mention(EditStyle)}
SomeConfigs == {ZImageLora, EditBase}

=============================================================================
