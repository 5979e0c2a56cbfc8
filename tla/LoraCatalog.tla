---------------------------- MODULE LoraCatalog ----------------------------
(***************************************************************************)
(* The LoRA catalog: model ids, the lists of LoRAs that are merged into a  *)
(* catalog, and the look-ups in it.  No state: the files are arguments.    *)
(*                                                                         *)
(* A LoRA's name is a number, in the order of the strings; what the code   *)
(* makes of a name's spelling (decoding it, comparing it loosely) are      *)
(* functions on names, which pick one name of those spelled alike.         *)
(***************************************************************************)
EXTENDS Naturals, Sequences, FiniteSetsExt, SequencesExt

CONSTANTS
  MaxName,      \* how many names there are
  Decoded,      \* url_decode: a name spelled with + or %xx, as it is meant
  Text,         \* normalize_lora_lookup_text: the sign for "times" is an x
  Slug,         \* safe_lora_id: punctuation and case do not count
  Key,          \* lora_loose_lookup_key: only letters and digits do
  Words,        \* words of prompts and of LoRAs
  Tokens,       \* the words of a name, its source and its file
  Alike,        \* pairs of words of which one is in the other and not short
  Sources, Dirs, Files,
  NameOf,       \* safe_lora_id of a source or directory, for lack of an id
  PrefersBf16,  \* configured_prefers_bf16_lora_ids
  NoName, None, NoEntry, Missing

Names == 1 .. MaxName
Flux == {"klein", "edit"}
ZImage == {"bf16", "q41"}
Families == Flux \cup ZImage

\* A model id: the family its prefix says ("none" for a bare name); is it one of
\* the family's LoRAs; the prefix, in full with a dash or a colon, or in another
\* spelling; the name, absent in the family's generic LoRA.  "encoded" ids are
\* spelled with + or %xx in the prefix.
ModelId ==
  [family : Families \cup {"none"}, lora : BOOLEAN, prefix : {"dash", "colon", "other"},
   name : Names \cup {NoName}, encoded : BOOLEAN]

LoraId(family, name) ==
  [family |-> family, lora |-> TRUE, prefix |-> "dash", name |-> name, encoded |-> FALSE]

\* An object of a LoRA list, whose id is absent, a bare name or a prefixed one,
\* and what becomes of it.
Item ==
  [id : {id \in ModelId : id.lora /\ id.name # NoName /\ ~id.encoded} \cup {None},
   enabled : BOOLEAN, source : Sources \cup {None},
   dir : Dirs \cup {None}, file : Files \cup {None}]
CatalogDirs == {"flux catalog", "z-image catalog", "own child"}
Entry ==
  [id : ModelId, dir : Dirs \cup CatalogDirs, source : Sources \cup {None},
   file : Files \cup {None}]

ListNames == {"q41", "bf16", "flux", "edit", "any"}
\* A list is missing if none is configured and none is in a default place; one that
\* cannot be read or does not parse holds nothing.
Lists == [ListNames -> Seq(Item) \cup {Missing}]

ASSUME NamesAssumption ==
  /\ MaxName \in Nat
  /\ \A f \in {Decoded, Text, Slug, Key} : f \in [Names -> Names]
  /\ \A n \in Names : Decoded[Decoded[n]] = Decoded[n]
  /\ Tokens \in [Names -> SUBSET Words] /\ \A n \in Names : IsFiniteSet(Tokens[n])
  /\ Alike \subseteq Words \X Words
  /\ NameOf \in [Sources \cup Dirs -> Names]
  /\ PrefersBf16 \in BOOLEAN

ASSUME NullsAssumption ==
  /\ NoName \notin Names
  /\ None \notin Sources \cup Dirs \cup Files \cup ModelId
  /\ NoEntry \notin Entry

Decode(id) ==
  [id EXCEPT !.encoded = FALSE, !.name = IF @ = NoName THEN @ ELSE Decoded[@]]
Lookup(id) == [id EXCEPT !.name = IF @ = NoName THEN @ ELSE Text[@]]

-----------------------------------------------------------------------------
(* What an id asks for.                                                     *)

\* flux_klein_lora_variant_from_model_id, z_image_lora_variant_from_model_id.
FluxVariant(id) == IF id.lora /\ id.family \in Flux THEN id.family ELSE "none"
ZImageVariant(id) == IF id.lora /\ id.family \in ZImage THEN id.family ELSE "none"

\* ..._lora_name_from_model_id: a prefix and a name.
NamesLora(id) == id.lora /\ id.family # "none" /\ id.name # NoName

\* is_base_z_image_lora_model_id: any prefix without a name.
IsGenericZImage(id) == ZImageVariant(id) # "none" /\ id.name = NoName

\* is_base_flux_klein_lora_model_id compares whole ids as they are: a prefix
\* that ends in a separator is none of them, and an encoded id neither.
IsGenericFlux(id) ==
  FluxVariant(id) # "none" /\ id.name = NoName /\ id.prefix # "colon" /\ ~id.encoded

\* lora_model_family_matches_request: any entry, unless the request says a family.
FamilyMatches(id, entry) ==
  IF FluxVariant(id) # "none" THEN FluxVariant(entry.id) = FluxVariant(id)
  ELSE ZImageVariant(id) # "none" => ZImageVariant(entry.id) = ZImageVariant(id)

-----------------------------------------------------------------------------
(* The catalog.                                                             *)

\* append_lora_model_list_entries skips what is disabled or has no files.
Usable(item) == item.enabled /\ (item.source # None \/ item.dir # None)

ItemId(item) ==
  IF item.id # None THEN item.id
  ELSE LoraId("none", NameOf[IF item.source # None THEN item.source ELSE item.dir])

\* The family of a bare name: its list's, or the one the server prefers.
DefaultFamily(list) ==
  CASE list = "flux" -> "klein"
    [] list = "any"  -> IF PrefersBf16 THEN "bf16" ELSE "q41"
    [] OTHER         -> list

\* normalize_flux_klein_lora_model_id keeps an id with a full prefix as it is;
\* normalize_z_image_lora_model_id decodes the name that follows a prefix.
EntryId(list, id) ==
  IF id.family = "none" THEN LoraId(DefaultFamily(list), id.name)
  ELSE IF id.family \in Flux
    THEN [id EXCEPT !.prefix = IF @ = "other" THEN "dash" ELSE @]
  ELSE LoraId(id.family, Decoded[id.name])

\* An item with a source but no directory is exported to its family's.
EntryOf(list, item) ==
  LET id == EntryId(list, ItemId(item)) IN
  [id |-> id,
   dir |-> IF item.dir # None THEN item.dir
           ELSE IF id.family \in Flux THEN "flux catalog" ELSE "z-image catalog",
   source |-> item.source,
   file |-> item.file]

\* The entries of a list's items, in their order; an item that is skipped makes none.
EntriesOf(lists, list) ==
  IF lists[list] = Missing THEN << >>
  ELSE [i \in 1 .. Len(lists[list]) |->
          IF Usable(lists[list][i]) THEN EntryOf(list, lists[list][i]) ELSE NoEntry]

\* Those of all lists, in the order in which the lists are read.
AllEntries(lists) ==
  EntriesOf(lists, "q41") \o EntriesOf(lists, "bf16") \o EntriesOf(lists, "flux")
    \o EntriesOf(lists, "edit") \o EntriesOf(lists, "any")

\* Mutant: an id of a later list replaces that of an earlier one.
ReplaceEntry(entries, e) ==
  IF e = NoEntry THEN entries
  ELSE Append(SelectSeq(entries, LAMBDA f : f.id # e.id), e)

\* add_lora_entry_if_new.
AddEntry(entries, e) ==
  IF e = NoEntry \/ \E i \in DOMAIN entries : entries[i].id = e.id THEN entries
  ELSE Append(entries, e)

\* read_lora_model_list_entries.
ReadLists(lists) ==
  LET all == AllEntries(lists)
      read[n \in 0 .. Len(all)] ==
        IF n = 0 THEN << >> ELSE AddEntry(read[n - 1], all[n])
  IN  read[Len(all)]

\* Directories with LoRA weights in the catalog directory are entries only if no
\* list is configured or found in a default place.
Discovered(lists, exports) ==
  IF \A list \in ListNames : lists[list] = Missing THEN exports ELSE {}
Exported(n) ==
  [id |-> LoraId(IF PrefersBf16 THEN "bf16" ELSE "q41", n), dir |-> "own child",
   source |-> None, file |-> None]

\* The order of the ids as strings.
Rank(id) ==
  LET family == CHOOSE i \in 1 .. 4 : <<"edit", "klein", "bf16", "q41">>[i] = id.family
  IN  (2 * family + (IF id.prefix = "colon" THEN 1 ELSE 0)) * (MaxName + 1) + id.name

\* list_lora_model_entries sorts them.
CatalogSet(lists, exports) ==
  ToSet(ReadLists(lists)) \cup {Exported(n) : n \in Discovered(lists, exports)}
Catalog(lists, exports) ==
  LET entries == CatalogSet(lists, exports)
  IN  CHOOSE s \in [1 .. Cardinality(entries) -> entries] :
        \A i, j \in DOMAIN s : i < j => Rank(s[i].id) < Rank(s[j].id)

-----------------------------------------------------------------------------
(* The look-ups.  Each is the first entry, in some order, that will do.     *)

FirstOf(entries, places) == IF places = {} THEN NoEntry ELSE entries[Min(places)]

\* Mutant: the family is not looked at, and names are compared loosely.
EntryOfAnyFamily(entries, id) ==
  FirstOf(entries, {i \in 1 .. Len(entries) :
    /\ id.name # NoName
    /\ Key[Text[Decoded[entries[i].id.name]]] = Key[Text[Decoded[id.name]]]})

\* lora_entry_for_catalog_model_id: by the whole id ...
EntryById(entries, id) ==
  FirstOf(entries, {i \in 1 .. Len(entries) :
    \/ entries[i].id = Decode(id)
    \/ Lookup(entries[i].id) = Lookup(Decode(id))})

\* ... and then by the name, however it is spelled.
SameName(m, n) ==
  LET a == Text[Decoded[m]]  b == Text[Decoded[n]]
  IN  a = b \/ Slug[a] = Slug[b] \/ Key[a] = Key[b]
EntryByName(entries, id) ==
  FirstOf(entries, {i \in 1 .. Len(entries) :
    /\ id.name # NoName
    /\ FamilyMatches(id, entries[i])
    /\ SameName(entries[i].id.name, id.name)})

\* lora_prompt_match_score.
Score(entry, prompt) ==
  Cardinality({w \in Tokens[entry.id.name] :
    \E p \in prompt : w = p \/ <<w, p>> \in Alike})

\* lora_entry_for_prompt_match: the entry that scores higher than all others.
EntryByPrompt(entries, id, prompt) ==
  LET candidates == {i \in 1 .. Len(entries) : FamilyMatches(id, entries[i])}
      score == [i \in candidates |-> Score(entries[i], prompt)]
  IN  FirstOf(entries, {i \in candidates :
        score[i] > 0 /\ \A j \in candidates \ {i} : score[j] < score[i]})

\* Mutant: an entry that scores as high as the best is not a tie.
BestTakingFirst(best, scored) ==
  IF scored.score > best.score
    THEN [entry |-> scored.entry, score |-> scored.score, tied |-> FALSE]
    ELSE best

\* The same as the code finds it: one round of its loop, and the loop.
Best(best, scored) ==
  IF scored.score > best.score
    THEN [entry |-> scored.entry, score |-> scored.score, tied |-> FALSE]
    ELSE [best EXCEPT !.tied = @ \/ (scored.score > 0 /\ scored.score = best.score)]
BestOfLoop(entries, id, prompt) ==
  LET best[n \in 0 .. Len(entries)] ==
        IF n = 0 THEN [entry |-> NoEntry, score |-> 0, tied |-> FALSE]
        ELSE IF FamilyMatches(id, entries[n])
          THEN Best(best[n - 1],
                    [entry |-> entries[n], score |-> Score(entries[n], prompt)])
        ELSE best[n - 1]
      last == best[Len(entries)]
  IN  IF last.tied THEN NoEntry ELSE last.entry

\* default_lora_entry_for_base_model_id, in one of the two orders it tries.
EntryByFamily(entries, id) ==
  FirstOf(entries, {i \in 1 .. Len(entries) :
    IsGenericZImage(Decode(id)) /\ FamilyMatches(id, entries[i])})

=============================================================================
