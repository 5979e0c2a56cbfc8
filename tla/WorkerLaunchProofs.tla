------------------------- MODULE WorkerLaunchProofs -------------------------
(***************************************************************************)
(* Proofs about WorkerLaunch, for any spelling of names, any lists of      *)
(* LoRAs, changed at any time, any requests and any configuration.         *)
(***************************************************************************)
EXTENDS WorkerLaunch, FiniteSetTheorems, SequenceTheorems, WellFoundedInduction, TLAPS

\* A set of places that is not empty has a first one.
LEMMA FirstPlace ==
  ASSUME NEW S \in SUBSET Nat, S # {}
  PROVE  \E m \in S : \A i \in S : m <= i
<1>1. IsWellFoundedOn(OpToRel(<, Nat), Nat)
  BY NatLessThanWellFounded
<1>2. \E x \in S : \A y \in S : ~ (<<y, x>> \in OpToRel(<, Nat))
  BY <1>1, WFMin
<1>3. \A x, y \in Nat : x < y => <<x, y>> \in OpToRel(<, Nat)
  BY Zenon DEF OpToRel
<1>4. \E x \in S : \A y \in S : ~ (y < x)
  BY <1>2, <1>3, Zenon
<1> QED BY <1>4

\* A look-up returns nothing or an entry that is in one of the places.
LEMMA FirstOfPlaces ==
  ASSUME NEW entries, NEW places \in SUBSET Nat, FirstOf(entries, places) # NoEntry
  PROVE  \E i \in places : FirstOf(entries, places) = entries[i]
<1>1. places # {}
  BY DEF FirstOf
<1>2. Min(places) \in places
  BY <1>1, FirstPlace DEF Min
<1> QED BY <1>1, <1>2 DEF FirstOf

\* A family's entries match a request of the family, and no others do.
LEMMA FamiliesMatch ==
  ASSUME NEW id \in ModelId, NEW entry, FamilyMatches(id, entry), id.lora,
         id.family # "none"
  PROVE  entry.id.family = id.family
  BY DEF FamilyMatches, FluxVariant, ZImageVariant, ModelId, Families, Flux, ZImage

\* Ids that read the same are of one family and have names that read the same.
LEMMA SameReading ==
  ASSUME NEW id \in ModelId, NEW entry,
         entry.id = Decode(id) \/ Lookup(entry.id) = Lookup(Decode(id))
  PROVE  /\ FamilyMatches(id, entry)
         /\ NamesLora(id) => Named(entry, id)
<1> USE NamesAssumption, NullsAssumption DEF ModelId
<1>1. /\ Decode(id) \in ModelId
      /\ Decode(id).family = id.family /\ Decode(id).lora = id.lora
      /\ id.name # NoName => Decode(id).name = Decoded[id.name]
  BY DEF Decode
<1>2. CASE entry.id = Decode(id)
  BY <1>1, <1>2 DEF FamilyMatches, FluxVariant, ZImageVariant, NamesLora, Named
<1>3. CASE Lookup(entry.id) = Lookup(Decode(id))
  <2>1. entry.id.family = id.family /\ entry.id.lora = id.lora
    BY <1>1, <1>3 DEF Lookup
  <2>2. id.name # NoName => Text[entry.id.name] = Text[Decoded[id.name]]
    BY <1>1, <1>3 DEF Lookup
  <2> QED BY <2>1, <2>2 DEF FamilyMatches, FluxVariant, ZImageVariant, NamesLora, Named
<1> QED BY <1>2, <1>3

\* What each look-up finds serves the request.
LEMMA FoundById ==
  ASSUME NEW entries, NEW id \in ModelId, EntryById(entries, id) # NoEntry
  PROVE  /\ FamilyMatches(id, EntryById(entries, id))
         /\ NamesLora(id) => Named(EntryById(entries, id), id)
<1> DEFINE places == {i \in 1 .. Len(entries) :
      \/ entries[i].id = Decode(id)
      \/ Lookup(entries[i].id) = Lookup(Decode(id))}
<1>1. EntryById(entries, id) = FirstOf(entries, places) /\ places \in SUBSET Nat
  BY DEF EntryById
<1>2. PICK i \in places : EntryById(entries, id) = entries[i]
  BY <1>1, FirstOfPlaces
<1> QED BY <1>2, SameReading

LEMMA FoundByName ==
  ASSUME NEW entries, NEW id \in ModelId, EntryByName(entries, id) # NoEntry
  PROVE  /\ FamilyMatches(id, EntryByName(entries, id))
         /\ Named(EntryByName(entries, id), id)
<1> DEFINE places == {i \in 1 .. Len(entries) :
      /\ id.name # NoName
      /\ FamilyMatches(id, entries[i])
      /\ SameName(entries[i].id.name, id.name)}
<1>1. EntryByName(entries, id) = FirstOf(entries, places) /\ places \in SUBSET Nat
  BY DEF EntryByName
<1>2. PICK i \in places : EntryByName(entries, id) = entries[i]
  BY <1>1, FirstOfPlaces
<1> QED BY <1>2 DEF Named

LEMMA FoundByPrompt ==
  ASSUME NEW entries, NEW id \in ModelId, NEW prompt,
         EntryByPrompt(entries, id, prompt) # NoEntry
  PROVE  FamilyMatches(id, EntryByPrompt(entries, id, prompt))
<1> DEFINE candidates == {i \in 1 .. Len(entries) : FamilyMatches(id, entries[i])}
<1> DEFINE score == [i \in candidates |-> Score(entries[i], prompt)]
<1> DEFINE places == {i \in candidates :
      score[i] > 0 /\ \A j \in candidates \ {i} : score[j] < score[i]}
<1>1. EntryByPrompt(entries, id, prompt) = FirstOf(entries, places)
  BY DEF EntryByPrompt
<1>2. places \in SUBSET Nat
  OBVIOUS
<1>3. PICK i \in places : EntryByPrompt(entries, id, prompt) = entries[i]
  BY <1>1, <1>2, FirstOfPlaces
<1> QED BY <1>3

LEMMA FoundByFamily ==
  ASSUME NEW entries, NEW id \in ModelId, EntryByFamily(entries, id) # NoEntry
  PROVE  FamilyMatches(id, EntryByFamily(entries, id)) /\ id.name = NoName
<1> DEFINE places == {i \in 1 .. Len(entries) :
      IsGenericZImage(Decode(id)) /\ FamilyMatches(id, entries[i])}
<1>1. EntryByFamily(entries, id) = FirstOf(entries, places) /\ places \in SUBSET Nat
  BY DEF EntryByFamily
<1>2. PICK i \in places : EntryByFamily(entries, id) = entries[i]
  BY <1>1, FirstOfPlaces
<1>3. id.name # NoName => Decode(id).name # NoName
  BY NamesAssumption, NullsAssumption DEF Decode, ModelId
<1> QED BY <1>2, <1>3 DEF IsGenericZImage

\* Nothing is selected at first.
LEMMA InitIInv == Init => IInv
  BY DEF Init, IInv, SelectionSound, LineSound

\* A look-up leaves a selection that serves the request, if any.
LEMMA FoundSound ==
  ASSUME IInv, pc \in LookUps, NEW entry, NEW otherwise, Found(entry, otherwise),
         otherwise \in LookUps \cup {"selecting"},
         otherwise = "prompt" => AsksPrompt(req.model),
         entry # NoEntry => /\ FamilyMatches(req.model, entry)
                            /\ NamesLora(req.model) => Named(entry, req.model)
  PROVE  IInv'
  BY DEF IInv, SelectionSound, LineSound, Found, LookUps

\* Every step keeps the selection sound and the command line what it says.
LEMMA NextIInv == IInv /\ [Next]_vars => IInv'
<1> SUFFICES ASSUME IInv, [Next]_vars PROVE IInv'
  OBVIOUS
<1>1. CASE EditLists
  BY <1>1 DEF EditLists, IInv, SelectionSound, LineSound, NoLora, Arguments,
     ChosenModel, LoraOrigin, GivenByEntry, GgufOrigin
<1>2. CASE Receive
  <2>1. PICK r \in Requests :
          req' = [r EXCEPT !.model = IF @ = Alias THEN ConfigModel ELSE @]
    BY <1>2 DEF Receive
  <2>2. req'.model \in ModelId
    BY <2>1, RequestsAssumption DEF RequestType
  <2> QED BY <1>2, <2>2 DEF Receive, IInv, SelectionSound, LineSound
<1>3. CASE FindById
  <2> DEFINE entry == EntryById(Catalog(lists, Exports), req.model)
  <2>1. pc = "id" /\ req.model \in ModelId /\ Found(entry, "name")
    BY <1>3 DEF FindById, IInv, SelectionSound
  <2>2. entry # NoEntry => /\ FamilyMatches(req.model, entry)
                           /\ NamesLora(req.model) => Named(entry, req.model)
    BY <2>1, FoundById
  <2> HIDE DEF entry
  <2> QED BY <2>1, <2>2, FoundSound DEF LookUps
<1>4. CASE FindByName
  <2> DEFINE entry == EntryByName(Catalog(lists, Exports), req.model)
             otherwise == IF HasDirectLoraOptions(req) THEN "selecting"
                          ELSE IF AsksPrompt(req.model) THEN "prompt" ELSE "lists"
  <2>1. pc = "name" /\ req.model \in ModelId /\ Found(entry, otherwise)
    BY <1>4 DEF FindByName, IInv, SelectionSound
  <2>2. entry # NoEntry => FamilyMatches(req.model, entry) /\ Named(entry, req.model)
    BY <2>1, FoundByName
  <2>3. /\ otherwise \in LookUps \cup {"selecting"}
        /\ otherwise = "prompt" => AsksPrompt(req.model)
    BY DEF LookUps
  <2> HIDE DEF entry, otherwise
  <2> QED BY <2>1, <2>2, <2>3, FoundSound DEF LookUps
<1>5. CASE FindByPrompt
  <2> DEFINE entry == EntryByPrompt(Catalog(lists, Exports), req.model, req.prompt)
  <2>1. /\ pc = "prompt" /\ req.model \in ModelId /\ Found(entry, "lists")
        /\ ~NamesLora(req.model)
    BY <1>5 DEF FindByPrompt, IInv, SelectionSound, AsksPrompt, NamesLora
  <2>2. entry # NoEntry => FamilyMatches(req.model, entry)
    BY <2>1, FoundByPrompt
  <2> HIDE DEF entry
  <2> QED BY <2>1, <2>2, FoundSound DEF LookUps
<1>6. CASE FindInLists
  <2> DEFINE entry == EntryByFamily(ReadLists(lists), req.model)
  <2>1. pc = "lists" /\ req.model \in ModelId /\ Found(entry, "catalog")
    BY <1>6 DEF FindInLists, IInv, SelectionSound
  <2>2. entry # NoEntry => FamilyMatches(req.model, entry) /\ ~NamesLora(req.model)
    BY <2>1, FoundByFamily DEF NamesLora
  <2> HIDE DEF entry
  <2> QED BY <2>1, <2>2, FoundSound DEF LookUps
<1>7. CASE FindInCatalog
  <2> DEFINE entry == EntryByFamily(Catalog(lists, Exports), req.model)
  <2>1. pc = "catalog" /\ req.model \in ModelId /\ Found(entry, "selecting")
    BY <1>7 DEF FindInCatalog, IInv, SelectionSound
  <2>2. entry # NoEntry => FamilyMatches(req.model, entry) /\ ~NamesLora(req.model)
    BY <2>1, FoundByFamily DEF NamesLora
  <2> HIDE DEF entry
  <2> QED BY <2>1, <2>2, FoundSound DEF LookUps
<1>8. CASE Launch
  <2>1. req' = req /\ selected' = selected /\ NoLora' = NoLora /\ Arguments' = Arguments
    BY <1>8 DEF Launch, NoLora, Arguments, ChosenModel, LoraOrigin, GivenByEntry, GgufOrigin
  <2> QED BY <1>8, <2>1 DEF Launch, IInv, SelectionSound, LineSound
<1>9. CASE Fail
  BY <1>9 DEF Fail, IInv, SelectionSound, LineSound
<1>10. CASE Return
  BY <1>10 DEF Return, IInv, SelectionSound, LineSound
<1>11. CASE UNCHANGED vars
  BY <1>11 DEF vars, IInv, SelectionSound, LineSound, NoLora, Arguments,
     ChosenModel, LoraOrigin, GivenByEntry, GgufOrigin
<1> QED BY <1>1, <1>2, <1>3, <1>4, <1>5, <1>6, <1>7, <1>8, <1>9, <1>10, <1>11 DEF Next

\* The inductive invariant holds in every reachable state.
THEOREM Invariance == Spec => []IInv
<1> QED BY InitIInv, NextIInv, PTL DEF Spec

\* Whatever the lists hold and whenever they change, a request that says a family
\* is served by a worker of that family.
THEOREM FamilyKeptAlways == Spec => []FamilyKept
<1>1. IInv => FamilyKept
  <2> SUFFICES ASSUME IInv, pc = "launched", req.model.lora, req.model.family # "none"
               PROVE  result.target[1] = req.model.family
    BY DEF FamilyKept
  <2>1. result.target = Target(ChosenModel) /\ req.model \in ModelId
    BY DEF IInv, LineSound, SelectionSound, Arguments
  <2>2. CASE selected = NoEntry
    BY <2>1, <2>2 DEF Target, ChosenModel
  <2>3. CASE selected # NoEntry
    BY <2>1, <2>3, FamiliesMatch
       DEF Target, ChosenModel, LoraId, IInv, SelectionSound
  <2> QED BY <2>2, <2>3
<1> QED BY <1>1, Invariance, PTL

\* No worker that was asked for a LoRA runs without one.
THEOREM LoraAlwaysThere == Spec => []LoraNeverDropped
<1>1. IInv => LoraNeverDropped
  <2> SUFFICES ASSUME IInv, pc = "launched" PROVE LoraNeverDropped
    BY DEF LoraNeverDropped
  <2>1. NamesLora(req.model) => selected # NoEntry /\ Named(selected, req.model)
    BY DEF IInv, LineSound, SelectionSound, NoLora
  <2>2. ASSUME IsGenericZImage(req.model) \/ IsGenericFlux(req.model)
        PROVE  result.lora["dir"] # None \/ result.lora["source"] # None
    <3>1. result = Arguments /\ ~NoLora /\ req.model \in ModelId
      BY DEF IInv, LineSound, SelectionSound
    <3>2. AcceptsLora(Target(ChosenModel))
      BY <2>2, <3>1 DEF AcceptsLora, Target, ChosenModel, LoraId, IsGenericZImage,
         IsGenericFlux, ZImageVariant, FluxVariant, ModelId, ZImage, Flux
    <3>3. \A o \in LoraOptions : result.lora[o] = LoraOrigin(o)
      BY <3>1, <3>2 DEF Arguments
    <3>4. CASE selected # NoEntry
      <4>1. LoraOrigin("dir") = "catalog"
        BY <3>4 DEF LoraOrigin, GivenByEntry
      <4> QED BY <3>3, <4>1, RequestsAssumption DEF LoraOptions
    <3>5. CASE selected = NoEntry
      <4>1. PICK o \in {"dir", "source"} : o \in req.lora \cup ConfigLora
        BY <2>2, <3>1, <3>5 DEF NoLora, HasDirectLoraOptions
      <4>2. LoraOrigin(o) \in {"request", "config"}
        BY <3>5, <4>1 DEF LoraOrigin
      <4> QED BY <3>3, <4>1, <4>2, RequestsAssumption DEF LoraOptions
    <3> QED BY <3>4, <3>5
  <2> QED BY <2>1, <2>2 DEF LoraNeverDropped
<1> QED BY <1>1, Invariance, PTL

\* The files of a LoRA of the catalog and those a request names never mix, and the
\* default repository goes with the default file and with no other.
THEOREM NeverMixed == Spec => []OriginsUnmixed
<1>1. IInv => OriginsUnmixed
  <2> SUFFICES ASSUME IInv, pc = "launched" PROVE OriginsUnmixed
    BY DEF OriginsUnmixed
  <2>1. selected # NoEntry => \A o \in LoraOptions : result.lora[o] # "request"
    BY RequestsAssumption
       DEF IInv, LineSound, Arguments, LoraOrigin, GivenByEntry, LoraOptions
  <2>2. /\ result.gguf["repo"] = "default" <=> result.gguf["file"] = "default"
        /\ result.gguf["repo"] = "default" => result.gguf["path"] = None
    BY RequestsAssumption DEF IInv, LineSound, Arguments, GgufOrigin, GgufOptions
  <2> QED BY <2>1, <2>2 DEF OriginsUnmixed
<1> QED BY <1>1, Invariance, PTL

-----------------------------------------------------------------------------
(* The catalog.  Its loops are recursive functions of the number of rounds; *)
(* what holds after every round is shown by the first round after which it  *)
(* would not.                                                               *)

\* What holds of 0, and of n + 1 if of n, holds of every number up to N.
LEMMA UpTo ==
  ASSUME NEW N \in Nat, NEW S, 0 \in S, \A n \in 0 .. N - 1 : n \in S => n + 1 \in S
  PROVE  \A n \in 0 .. N : n \in S
<1> DEFINE rest == {n \in 0 .. N : n \notin S}
<1> SUFFICES ASSUME rest # {} PROVE FALSE
  OBVIOUS
<1>0. rest \in SUBSET Nat
  OBVIOUS
<1>1. PICK m \in rest : \A n \in rest : m <= n
  <2> HIDE DEF rest
  <2> QED BY <1>0, FirstPlace
<1>2. m - 1 \in 0 .. N - 1 /\ m - 1 \notin rest
  BY <1>1
<1>3. m - 1 \in S /\ m - 1 + 1 = m
  BY <1>2
<1> QED BY <1>1, <1>2, <1>3

\* The entries of the catalog: their ids are spelled one way and have a family and
\* a name.
CatalogEntry ==
  {e \in Entry : /\ e.id.family \in Families /\ e.id.lora /\ ~e.id.encoded
                 /\ e.id.prefix # "other" /\ e.id.name \in Names}

\* An item that is used makes such an entry.
LEMMA EntryOfTyped ==
  ASSUME NEW list \in ListNames, NEW item \in Item, Usable(item)
  PROVE  EntryOf(list, item) \in CatalogEntry
<1> DEFINE id == ItemId(item)  made == EntryId(list, id)
<1> USE NamesAssumption, NullsAssumption
<1>1. id \in ModelId /\ id.lora /\ id.name \in Names /\ ~id.encoded
  <2>1. CASE item.id # None
    BY <2>1 DEF Item, ItemId, ModelId
  <2>2. CASE item.id = None
    <3>1. /\ item.source # None => item.source \in Sources
          /\ item.source = None => item.dir \in Dirs
      BY DEF Item, Usable
    <3> DEFINE of == IF item.source # None THEN item.source ELSE item.dir
    <3>2. NameOf[of] \in Names
      BY <3>1
    <3>3. id = LoraId("none", NameOf[of])
      BY <2>2 DEF ItemId
    <3> HIDE DEF of, id
    <3> QED BY <3>2, <3>3 DEF LoraId, ModelId
  <2> QED BY <2>1, <2>2
<1> HIDE DEF id
<1>2. DefaultFamily(list) \in Families
  BY DEF DefaultFamily, ListNames, Families, Flux, ZImage
<1>3. /\ made \in ModelId /\ made.family \in Families /\ made.lora /\ ~made.encoded
      /\ made.prefix # "other" /\ made.name \in Names
  <2>1. CASE id.family = "none"
    <3>1. made = LoraId(DefaultFamily(list), id.name)
      BY <2>1 DEF EntryId
    <3> HIDE DEF made
    <3> QED BY <1>1, <1>2, <3>1 DEF LoraId, ModelId
  <2>2. CASE id.family \in Flux
    <3>1. made = [id EXCEPT !.prefix = IF @ = "other" THEN "dash" ELSE @]
      BY <2>2 DEF EntryId, Flux
    <3> HIDE DEF made
    <3> QED BY <1>1, <2>2, <3>1 DEF ModelId, Families
  <2>3. CASE id.family \in ZImage
    <3>1. made = LoraId(id.family, Decoded[id.name])
      BY <2>3 DEF EntryId, Flux, ZImage
    <3>2. Decoded[id.name] \in Names
      BY <1>1
    <3> HIDE DEF made
    <3> QED BY <1>1, <2>3, <3>1, <3>2 DEF LoraId, ModelId, Families
  <2> QED BY <1>1, <2>1, <2>2, <2>3 DEF ModelId, Families
<1> HIDE DEF made
<1> DEFINE dir == IF item.dir # None THEN item.dir
                  ELSE IF made.family \in Flux THEN "flux catalog" ELSE "z-image catalog"
<1>4. EntryOf(list, item) = [id |-> made, dir |-> dir, source |-> item.source, file |-> item.file]
  BY DEF EntryOf, id, made
<1>5. dir \in Dirs \cup CatalogDirs
  BY DEF Item, CatalogDirs
<1>6. item.source \in Sources \cup {None} /\ item.file \in Files \cup {None}
  BY DEF Item
<1> HIDE DEF dir
<1>7. EntryOf(list, item) \in Entry
  BY <1>3, <1>4, <1>5, <1>6 DEF Entry
<1> QED BY <1>3, <1>4, <1>7 DEF CatalogEntry

\* The lists make a sequence of entries and of places that make none.
LEMMA AllTyped ==
  ASSUME NEW files \in Lists
  PROVE  AllEntries(files) \in Seq(CatalogEntry \cup {NoEntry})
<1> DEFINE T == CatalogEntry \cup {NoEntry}
<1>1. ASSUME NEW list \in ListNames
      PROVE  EntriesOf(files, list) \in Seq(T)
  <2>1. CASE files[list] = Missing
    BY <2>1, EmptySeq DEF EntriesOf
  <2>2. CASE files[list] # Missing
    <3>1. files[list] \in Seq(Item)
      BY <2>2 DEF Lists
    <3>2. Len(files[list]) \in Nat
      BY <3>1, LenProperties
    <3>3. \A i \in 1 .. Len(files[list]) :
            (IF Usable(files[list][i]) THEN EntryOf(list, files[list][i]) ELSE NoEntry) \in T
      <4> TAKE i \in 1 .. Len(files[list])
      <4>1. files[list][i] \in Item
        BY <3>1, ElementOfSeq
      <4> QED BY <4>1, EntryOfTyped
    <3> DEFINE s == [i \in 1 .. Len(files[list]) |->
                      IF Usable(files[list][i]) THEN EntryOf(list, files[list][i]) ELSE NoEntry]
    <3>4. s \in [1 .. Len(files[list]) -> T]
      BY <3>3
    <3>5. EntriesOf(files, list) = s
      BY <2>2 DEF EntriesOf
    <3> HIDE DEF s, T
    <3> QED BY <3>2, <3>4, <3>5
  <2> QED BY <2>1, <2>2
<1>2. {"q41", "bf16", "flux", "edit", "any"} \subseteq ListNames
  BY DEF ListNames
<1> HIDE DEF T
<1>3. AllEntries(files) \in Seq(T)
  BY <1>1, <1>2, ConcatProperties DEF AllEntries
<1> QED BY <1>3 DEF T

\* What the loop over the lists has after each of its rounds.
Rounds(all, read) ==
  read = [n \in 0 .. Len(all) |-> IF n = 0 THEN << >> ELSE AddEntry(read[n - 1], all[n])]

LEMMA RoundsExist ==
  ASSUME NEW T, NEW all \in Seq(T)
  PROVE  \E read : Rounds(all, read)
<1> DEFINE Good(f, k) ==
      f = [n \in 0 .. k |-> IF n = 0 THEN << >> ELSE AddEntry(f[n - 1], all[n])]
    S == {k \in 0 .. Len(all) : \E f : Good(f, k)}
<1>0. Len(all) \in Nat
  BY LenProperties
<1>1. 0 \in S
  <2>1. Good([n \in 0 .. 0 |-> << >>], 0)
    OBVIOUS
  <2>2. 0 \in 0 .. Len(all)
    BY <1>0
  <2> HIDE DEF Good
  <2> QED BY <2>1, <2>2
<1>2. ASSUME NEW k \in 0 .. Len(all) - 1, k \in S
      PROVE  k + 1 \in S
  <2>1. PICK f : Good(f, k)
    BY <1>2
  <2> DEFINE g == [n \in 0 .. k + 1 |->
                    IF n = k + 1 THEN AddEntry(f[k], all[k + 1]) ELSE f[n]]
  <2>2. \A n \in 0 .. k : f[n] = IF n = 0 THEN << >> ELSE AddEntry(f[n - 1], all[n])
    BY <2>1
  <2>3. ASSUME NEW n \in 0 .. k + 1
        PROVE  g[n] = IF n = 0 THEN << >> ELSE AddEntry(g[n - 1], all[n])
    <3>1. CASE n = k + 1
      <4>1. n # 0 /\ n - 1 = k /\ k \in 0 .. k + 1 /\ k # k + 1
        BY <3>1
      <4>2. g[n] = AddEntry(f[k], all[n]) /\ g[n - 1] = f[k]
        BY <3>1, <4>1
      <4> QED BY <4>1, <4>2
    <3>2. CASE n # k + 1
      <4>1. /\ n \in 0 .. k /\ g[n] = f[n]
            /\ n # 0 => n - 1 \in 0 .. k + 1 /\ n - 1 # k + 1
        BY <3>2
      <4>2. n # 0 => g[n - 1] = f[n - 1]
        BY <4>1
      <4> QED BY <2>2, <4>1, <4>2
    <3> QED BY <3>1, <3>2
  <2>4. Good(g, k + 1)
    BY <2>3
  <2> HIDE DEF Good, g
  <2> QED BY <1>0, <2>4
<1>3. Len(all) \in S
  <2> HIDE DEF S
  <2>1. \A n \in 0 .. Len(all) : n \in S
    BY <1>0, <1>1, <1>2, UpTo, Zenon
  <2> QED BY <1>0, <2>1
<1> QED BY <1>3 DEF Rounds

LEMMA ReadRounds ==
  ASSUME NEW files \in Lists
  PROVE  \E read : /\ Rounds(AllEntries(files), read)
                   /\ ReadLists(files) = read[Len(AllEntries(files))]
<1> DEFINE all == AllEntries(files)
           R(f) == [n \in 0 .. Len(all) |-> IF n = 0 THEN << >> ELSE AddEntry(f[n - 1], all[n])]
           read == CHOOSE f : f = R(f)
<1>1. \E f : f = R(f)
  BY AllTyped, RoundsExist DEF Rounds
<1>2. ReadLists(files) = read[Len(all)]
  BY DEF ReadLists
<1>3. read = R(read)
  <2> HIDE DEF R, all
  <2> QED BY <1>1
<1>4. Rounds(all, read)
  <2> HIDE DEF read
  <2> QED BY <1>3 DEF Rounds
<1> QED BY <1>2, <1>4

\* The places of the first entries of their ids, among the first n.
Firsts(all, n) ==
  {i \in 1 .. n : /\ all[i] # NoEntry
                  /\ \A j \in 1 .. n : all[j] # NoEntry /\ j < i => all[j].id # all[i].id}

\* Every entry's id is that of a first one.
LEMMA FirstsCover ==
  ASSUME NEW all, NEW n \in Nat, NEW i \in 1 .. n, all[i] # NoEntry
  PROVE  \E k \in Firsts(all, n) : all[k].id = all[i].id
<1> DEFINE same == {k \in 1 .. n : all[k] # NoEntry /\ all[k].id = all[i].id}
<1>1. same \in SUBSET Nat /\ same # {}
  OBVIOUS
<1>2. PICK k \in same : \A j \in same : k <= j
  <2> HIDE DEF same
  <2> QED BY <1>1, FirstPlace
<1>3. \A j \in 1 .. n : all[j] # NoEntry /\ j < k => all[j].id # all[k].id
  BY <1>2
<1>4. k \in Firsts(all, n)
  BY <1>2, <1>3 DEF Firsts
<1> QED BY <1>2, <1>4

\* No two first entries have one id.
LEMMA FirstsDiffer ==
  ASSUME NEW all, NEW n \in Nat, NEW i \in Firsts(all, n), NEW k \in Firsts(all, n),
         all[i].id = all[k].id
  PROVE  i = k
  BY DEF Firsts

\* One more place adds itself to the first ones, if nothing before it has its id.
LEMMA FirstsGrow ==
  ASSUME NEW all, NEW n \in Nat
  PROVE  Firsts(all, n + 1) =
           IF all[n + 1] = NoEntry \/ \E i \in Firsts(all, n) : all[i].id = all[n + 1].id
             THEN Firsts(all, n) ELSE Firsts(all, n) \cup {n + 1}
<1> DEFINE new == all[n + 1] # NoEntry /\ \A i \in Firsts(all, n) : all[i].id # all[n + 1].id
<1>1. \A i \in 1 .. n + 1 : i \in 1 .. n \/ i = n + 1
  OBVIOUS
<1>2. \A i \in 1 .. n : i \in 1 .. n + 1 /\ i # n + 1 /\ i < n + 1
  OBVIOUS
<1>3. \A i \in 1 .. n : i \in Firsts(all, n + 1) <=> i \in Firsts(all, n)
  BY <1>1, <1>2 DEF Firsts
<1>4. n + 1 \in Firsts(all, n + 1) <=> new
  <2>1. n + 1 \in Firsts(all, n + 1) =>
          all[n + 1] # NoEntry /\ \A j \in 1 .. n : all[j] # NoEntry => all[j].id # all[n + 1].id
    BY <1>2 DEF Firsts
  <2>2. \A j \in Firsts(all, n) : j \in 1 .. n /\ all[j] # NoEntry
    BY DEF Firsts
  <2>3. new => \A j \in 1 .. n : all[j] # NoEntry => all[j].id # all[n + 1].id
    BY FirstsCover
  <2>4. ASSUME new PROVE n + 1 \in Firsts(all, n + 1)
    <3>1. \A j \in 1 .. n + 1 : all[j] # NoEntry /\ j < n + 1 => all[j].id # all[n + 1].id
      BY <2>3, <2>4, <1>1
    <3> QED BY <2>4, <3>1 DEF Firsts
  <2> QED BY <2>1, <2>2, <2>4
<1>5. \A i \in Firsts(all, n) : i \in 1 .. n
  BY DEF Firsts
<1>6. \A i \in Firsts(all, n + 1) : i \in 1 .. n + 1
  BY DEF Firsts
<1> HIDE DEF new
<1>7. CASE new
  <2>1. Firsts(all, n + 1) = Firsts(all, n) \cup {n + 1}
    BY <1>1, <1>3, <1>4, <1>5, <1>6, <1>7
  <2> QED BY <1>7, <2>1 DEF new
<1>8. CASE ~new
  <2>1. Firsts(all, n + 1) = Firsts(all, n)
    BY <1>1, <1>2, <1>3, <1>4, <1>5, <1>6, <1>8
  <2> QED BY <1>8, <2>1 DEF new
<1> QED BY <1>7, <1>8

\* One round of the loop keeps what its entries are.
LEMMA AddRound ==
  ASSUME NEW all, NEW n \in Nat, NEW s \in Seq(CatalogEntry),
         all[n + 1] \in CatalogEntry \cup {NoEntry},
         ToSet(s) = {all[i] : i \in Firsts(all, n)}
  PROVE  /\ AddEntry(s, all[n + 1]) \in Seq(CatalogEntry)
         /\ ToSet(AddEntry(s, all[n + 1])) = {all[i] : i \in Firsts(all, n + 1)}
<1> DEFINE e == all[n + 1]
           known == e = NoEntry \/ \E i \in Firsts(all, n) : all[i].id = e.id
<1>1. (\E i \in DOMAIN s : s[i].id = e.id) <=> \E i \in Firsts(all, n) : all[i].id = e.id
  <2>1. \A i \in DOMAIN s : \E k \in Firsts(all, n) : s[i] = all[k]
    BY DEF ToSet
  <2>2. \A k \in Firsts(all, n) : \E i \in DOMAIN s : s[i] = all[k]
    BY DEF ToSet
  <2> QED BY <2>1, <2>2
<1>2. AddEntry(s, e) = IF known THEN s ELSE Append(s, e)
  BY <1>1 DEF AddEntry
<1>3. Firsts(all, n + 1) = IF known THEN Firsts(all, n) ELSE Firsts(all, n) \cup {n + 1}
  BY FirstsGrow
<1>4. CASE known
  <2> HIDE DEF known
  <2> QED BY <1>2, <1>3, <1>4
<1>5. CASE ~known
  <2>1. e \in CatalogEntry
    BY <1>5
  <2> HIDE DEF known
  <2>2. AddEntry(s, e) = Append(s, e) /\ Firsts(all, n + 1) = Firsts(all, n) \cup {n + 1}
    BY <1>2, <1>3, <1>5
  <2>3. /\ Append(s, e) \in Seq(CatalogEntry)
        /\ DOMAIN Append(s, e) = 1 .. Len(s) + 1 /\ DOMAIN s = 1 .. Len(s) /\ Len(s) \in Nat
        /\ \A i \in 1 .. Len(s) : Append(s, e)[i] = s[i]
        /\ Append(s, e)[Len(s) + 1] = e
    BY <2>1
  <2>4. ToSet(Append(s, e)) = ToSet(s) \cup {e}
    <3>1. \A i \in 1 .. Len(s) + 1 : i \in 1 .. Len(s) \/ i = Len(s) + 1
      BY <2>3
    <3>2. \A i \in 1 .. Len(s) : i \in 1 .. Len(s) + 1
      BY <2>3
    <3>3. Len(s) + 1 \in 1 .. Len(s) + 1
      BY <2>3
    <3> HIDE DEF e
    <3> QED BY <2>3, <3>1, <3>2, <3>3 DEF ToSet
  <2>5. {all[i] : i \in Firsts(all, n) \cup {n + 1}} = {all[i] : i \in Firsts(all, n)} \cup {e}
    OBVIOUS
  <2> QED BY <2>2, <2>3, <2>4, <2>5
<1> QED BY <1>4, <1>5

\* The lists are read as the first entry of each id.
LEMMA ListsRead ==
  ASSUME NEW files \in Lists
  PROVE  LET all == AllEntries(files) IN
         /\ ReadLists(files) \in Seq(CatalogEntry)
         /\ ToSet(ReadLists(files)) = {all[i] : i \in Firsts(all, Len(all))}
<1> DEFINE all == AllEntries(files)
<1>1. PICK read : Rounds(all, read) /\ ReadLists(files) = read[Len(all)]
  BY ReadRounds
<1>2. all \in Seq(CatalogEntry \cup {NoEntry}) /\ Len(all) \in Nat
  BY AllTyped, LenProperties
<1>3. \A i \in 1 .. Len(all) : all[i] \in CatalogEntry \cup {NoEntry}
  BY <1>2, ElementOfSeq
<1> HIDE DEF all
<1>4. /\ read[0] = << >>
      /\ \A n \in 0 .. Len(all) - 1 : read[n + 1] = AddEntry(read[n], all[n + 1])
  <2>1. \A n \in 0 .. Len(all) :
          read[n] = IF n = 0 THEN << >> ELSE AddEntry(read[n - 1], all[n])
    BY <1>1 DEF Rounds
  <2>2. 0 \in 0 .. Len(all)
    BY <1>2
  <2>3. ASSUME NEW n \in 0 .. Len(all) - 1
        PROVE  read[n + 1] = AddEntry(read[n], all[n + 1])
    <3>1. n + 1 \in 0 .. Len(all) /\ n + 1 # 0 /\ n + 1 - 1 = n
      BY <1>2
    <3>2. read[n + 1] = AddEntry(read[n + 1 - 1], all[n + 1])
      BY <2>1, <3>1
    <3> QED BY <3>1, <3>2
  <2> QED BY <2>1, <2>2, <2>3
<1> DEFINE holds == {n \in 0 .. Len(all) :
      /\ read[n] \in Seq(CatalogEntry)
      /\ ToSet(read[n]) = {all[i] : i \in Firsts(all, n)}}
<1>5. 0 \in holds
  <2>1. << >> \in Seq(CatalogEntry) /\ ToSet(<< >>) = {}
    BY EmptySeq DEF ToSet
  <2>2. Firsts(all, 0) = {}
    BY DEF Firsts
  <2>3. 0 \in 0 .. Len(all)
    BY <1>2
  <2>4. {all[i] : i \in {}} = {}
    OBVIOUS
  <2> QED BY <1>4, <2>1, <2>2, <2>3, <2>4
<1>6. ASSUME NEW n \in 0 .. Len(all) - 1, n \in holds
      PROVE  n + 1 \in holds
  <2>1. n \in Nat /\ n + 1 \in 0 .. Len(all) /\ n + 1 \in 1 .. Len(all)
    BY <1>2
  <2>2. /\ read[n] \in Seq(CatalogEntry) /\ ToSet(read[n]) = {all[i] : i \in Firsts(all, n)}
        /\ all[n + 1] \in CatalogEntry \cup {NoEntry}
    BY <1>3, <1>6, <2>1
  <2>3. /\ AddEntry(read[n], all[n + 1]) \in Seq(CatalogEntry)
        /\ ToSet(AddEntry(read[n], all[n + 1])) = {all[i] : i \in Firsts(all, n + 1)}
    BY <2>1, <2>2, AddRound
  <2>4. read[n + 1] = AddEntry(read[n], all[n + 1])
    BY <1>4
  <2> QED BY <2>1, <2>3, <2>4
<1>7. Len(all) \in holds
  <2> HIDE DEF holds
  <2>1. \A n \in 0 .. Len(all) : n \in holds
    BY <1>2, <1>5, <1>6, UpTo, Zenon
  <2> QED BY <1>2, <2>1
<1> QED BY <1>1, <1>7 DEF all

\* Two numbers of two digits are the same only digit by digit.
LEMMA SameDigits ==
  ASSUME NEW B \in Nat, NEW k \in Nat, NEW l \in Nat, NEW m \in 1 .. B, NEW n \in 1 .. B,
         k * (B + 1) + m = l * (B + 1) + n
  PROVE  k = l /\ m = n
<1>1. ASSUME NEW p \in Nat, NEW q \in Nat, p < q
      PROVE  q * (B + 1) >= p * (B + 1) + (B + 1)
  <2>1. PICK d \in Nat : q = p + 1 + d
    <3>1. q - p - 1 \in Nat /\ q = p + 1 + (q - p - 1)
      BY <1>1
    <3> QED BY <3>1
  <2>2. q * (B + 1) = p * (B + 1) + (B + 1) + d * (B + 1)
    BY <2>1
  <2>3. d * (B + 1) \in Nat /\ p * (B + 1) \in Nat
    OBVIOUS
  <2> QED BY <2>2, <2>3
<1> DEFINE x == k * (B + 1)  y == l * (B + 1)
<1>2. x \in Nat /\ y \in Nat /\ x + m = y + n
  OBVIOUS
<1>3. k < l => y >= x + (B + 1)
  BY <1>1
<1>4. l < k => x >= y + (B + 1)
  BY <1>1
<1>5. ~(k < l) /\ ~(l < k)
  <2> HIDE DEF x, y
  <2> QED BY <1>2, <1>3, <1>4
<1>6. k = l
  BY <1>5
<1>7. x = y
  BY <1>6
<1> HIDE DEF x, y
<1> QED BY <1>2, <1>6, <1>7

\* Ids of the catalog are ordered, and no two alike.
LEMMA RanksDiffer ==
  ASSUME NEW a \in CatalogEntry, NEW b \in CatalogEntry
  PROVE  /\ Rank(a.id) \in Nat
         /\ Rank(a.id) = Rank(b.id) => a.id = b.id
<1> DEFINE order == <<"edit", "klein", "bf16", "q41">>
           place(id) == CHOOSE n \in 1 .. 4 : order[n] = id.family
           colon(id) == IF id.prefix = "colon" THEN 1 ELSE 0
<1>1. ASSUME NEW e \in CatalogEntry
      PROVE  place(e.id) \in 1 .. 4 /\ order[place(e.id)] = e.id.family
  <2>1. e.id.family \in {"edit", "klein", "bf16", "q41"}
    BY DEF CatalogEntry, Families, Flux, ZImage
  <2>2. order[1] = "edit" /\ order[2] = "klein" /\ order[3] = "bf16" /\ order[4] = "q41"
    OBVIOUS
  <2>3. 1 \in 1 .. 4 /\ 2 \in 1 .. 4 /\ 3 \in 1 .. 4 /\ 4 \in 1 .. 4
    OBVIOUS
  <2> HIDE DEF order
  <2>4. \E n \in 1 .. 4 : order[n] = e.id.family
    BY <2>1, <2>2, <2>3
  <2> QED BY <2>4
<1>2. \A e \in CatalogEntry : Rank(e.id) = (2 * place(e.id) + colon(e.id)) * (MaxName + 1) + e.id.name
  BY DEF Rank
<1>3. \A e \in CatalogEntry : /\ e.id \in ModelId /\ e.id.name \in 1 .. MaxName /\ e.id.lora
                              /\ ~e.id.encoded /\ e.id.prefix \in {"dash", "colon"}
  BY DEF CatalogEntry, Entry, ModelId, Names
<1>4. MaxName \in Nat
  BY NamesAssumption
<1> HIDE DEF order
<1> DEFINE high(id) == 2 * place(id) + colon(id)
<1>5. \A e \in CatalogEntry : high(e.id) \in Nat
  BY <1>1
<1>6. \A e \in CatalogEntry : Rank(e.id) = high(e.id) * (MaxName + 1) + e.id.name
  BY <1>2
<1>7. Rank(a.id) \in Nat
  <2> HIDE DEF high
  <2>1. high(a.id) * (MaxName + 1) \in Nat
    BY <1>4, <1>5
  <2> QED BY <1>3, <1>4, <1>6, <2>1
<1>8. ASSUME Rank(a.id) = Rank(b.id) PROVE a.id = b.id
  <2>1. high(a.id) = high(b.id) /\ a.id.name = b.id.name
    <3> HIDE DEF high
    <3>1. high(a.id) * (MaxName + 1) + a.id.name = high(b.id) * (MaxName + 1) + b.id.name
      BY <1>6, <1>8
    <3> DEFINE k == high(a.id)  l == high(b.id)  m == a.id.name  n == b.id.name
    <3>2. /\ k \in Nat /\ l \in Nat /\ m \in 1 .. MaxName /\ n \in 1 .. MaxName
          /\ k * (MaxName + 1) + m = l * (MaxName + 1) + n
      BY <1>3, <1>5, <3>1
    <3> HIDE DEF k, l, m, n
    <3>3. k = l /\ m = n
      BY <1>4, <3>2, SameDigits
    <3> QED BY <3>3 DEF k, l, m, n
  <2>2. place(a.id) = place(b.id) /\ colon(a.id) = colon(b.id)
    <3>1. place(a.id) \in 1 .. 4 /\ place(b.id) \in 1 .. 4
      BY <1>1
    <3>2. colon(a.id) \in {0, 1} /\ colon(b.id) \in {0, 1}
      OBVIOUS
    <3> HIDE DEF place, colon
    <3> QED BY <2>1, <3>1, <3>2
  <2>3. a.id.family = b.id.family
    BY <1>1, <2>2
  <2>4. a.id.prefix = b.id.prefix
    BY <1>3, <2>2
  <2> HIDE DEF high, place, colon
  <2> QED BY <1>3, <2>1, <2>3, <2>4 DEF ModelId
<1> QED BY <1>7, <1>8

\* Whatever set of such entries is put in order.
Sorted(s) == \A i, j \in DOMAIN s : i < j => Rank(s[i].id) < Rank(s[j].id)

LEMMA SortExists ==
  ASSUME NEW S, IsFiniteSet(S), S \subseteq CatalogEntry,
         \A a, b \in S : a.id = b.id => a = b
  PROVE  \E s \in [1 .. Cardinality(S) -> S] : Sorted(s)
<1> DEFINE N == Cardinality(S)
           Can(n) == \A T \in SUBSET S : Cardinality(T) = n => \E s \in [1 .. n -> T] : Sorted(s)
           can == {n \in 0 .. N : Can(n)}
<1>1. N \in Nat /\ 0 \in 0 .. N
  BY FS_CardinalityType
<1>2. 0 \in can
  <2>1. ASSUME NEW T \in SUBSET S PROVE \E s \in [1 .. 0 -> T] : Sorted(s)
    <3>1. << >> \in [1 .. 0 -> T] /\ Sorted(<< >>)
      BY DEF Sorted
    <3> QED BY <3>1
  <2>2. Can(0)
    BY <2>1
  <2> HIDE DEF Can
  <2> QED BY <1>1, <2>2
<1>3. ASSUME NEW n \in 0 .. N - 1, n \in can
      PROVE  n + 1 \in can
  <2>1. n \in Nat /\ n + 1 \in 0 .. N
    BY <1>1
  <2>2. ASSUME NEW T \in SUBSET S, Cardinality(T) = n + 1
        PROVE  \E s \in [1 .. n + 1 -> T] : Sorted(s)
    <3> DEFINE ranks == {Rank(e.id) : e \in T}
    <3>1. IsFiniteSet(T)
      BY FS_Subset
    <3>2. T # {}
      BY <2>1, <2>2, FS_EmptySet
    <3>3. ranks \in SUBSET Nat /\ ranks # {}
      BY <3>2, RanksDiffer
    <3>4. PICK r \in ranks : \A q \in ranks : r <= q
      <4> HIDE DEF ranks
      <4> QED BY <3>3, FirstPlace
    <3>5. PICK e \in T : r = Rank(e.id)
      BY <3>4
    <3>6. Cardinality(T \ {e}) = n /\ T \ {e} \in SUBSET S
      <4>1. Cardinality(T \ {e}) = Cardinality(T) - 1
        BY <3>1, FS_RemoveElement
      <4> QED BY <2>1, <2>2, <4>1
    <3>7. PICK s \in [1 .. n -> T \ {e}] : Sorted(s)
      BY <1>3, <3>6
    <3>8. \A f \in T \ {e} : Rank(e.id) < Rank(f.id)
      <4> TAKE f \in T \ {e}
      <4>1. Rank(f.id) \in Nat /\ Rank(e.id) \in Nat /\ Rank(f.id) # Rank(e.id)
        BY RanksDiffer
      <4>2. Rank(e.id) <= Rank(f.id)
        BY <3>4, <3>5
      <4> QED BY <4>1, <4>2
    <3> DEFINE t == [i \in 1 .. n + 1 |-> IF i = 1 THEN e ELSE s[i - 1]]
    <3>9. \A i \in 1 .. n + 1 : i # 1 => i - 1 \in 1 .. n /\ t[i] = s[i - 1] /\ t[i] \in T \ {e}
      BY <2>1
    <3>10. 1 \in 1 .. n + 1 /\ t[1] = e
      BY <2>1
    <3>11. t \in [1 .. n + 1 -> T]
      BY <3>9, <3>10
    <3>12. Sorted(t)
      <4> SUFFICES ASSUME NEW i \in 1 .. n + 1, NEW j \in 1 .. n + 1, i < j
                   PROVE  Rank(t[i].id) < Rank(t[j].id)
        BY <3>11 DEF Sorted
      <4>1. j # 1
        BY <2>1
      <4>2. CASE i = 1
        BY <3>8, <3>9, <3>10, <4>1, <4>2
      <4>3. CASE i # 1
        <5>1. i - 1 \in DOMAIN s /\ j - 1 \in DOMAIN s /\ i - 1 < j - 1
          BY <2>1, <3>9, <4>1, <4>3
        <5>2. Rank(s[i - 1].id) < Rank(s[j - 1].id)
          BY <3>7, <5>1 DEF Sorted
        <5> HIDE DEF t
        <5> QED BY <3>9, <4>1, <4>3, <5>2
      <4> QED BY <4>2, <4>3
    <3> QED BY <3>11, <3>12
  <2>3. Can(n + 1)
    BY <2>2
  <2> HIDE DEF Can
  <2> QED BY <2>1, <2>3
<1>4. N \in can
  <2> HIDE DEF can, N
  <2>1. \A n \in 0 .. N : n \in can
    BY <1>1, <1>2, <1>3, UpTo, Zenon
  <2> QED BY <1>1, <2>1
<1>5. S \in SUBSET S /\ Can(N)
  BY <1>4
<1> QED BY <1>5

\* The catalog is a sequence of entries that the lists or the exports have.
LEMMA CatalogTyped ==
  ASSUME NEW files \in Lists, NEW exports \in SUBSET Names
  PROVE  LET entries == CatalogSet(files, exports)
             catalog == Catalog(files, exports)
         IN  /\ Cardinality(entries) \in Nat
             /\ catalog \in [1 .. Cardinality(entries) -> entries]
             /\ Sorted(catalog)
             /\ entries \subseteq CatalogEntry
<1> DEFINE entries == CatalogSet(files, exports)
           all == AllEntries(files)
           listed == ToSet(ReadLists(files))
           found == {Exported(n) : n \in Discovered(files, exports)}
<1>1. ReadLists(files) \in Seq(CatalogEntry) /\ listed = {all[i] : i \in Firsts(all, Len(all))}
  BY ListsRead
<1>2. Len(all) \in Nat /\ all \in Seq(CatalogEntry \cup {NoEntry})
  BY AllTyped, LenProperties
<1>3. Discovered(files, exports) \in SUBSET Names
  BY DEF Discovered
<1>4. ASSUME NEW n \in Names PROVE Exported(n) \in CatalogEntry /\ Exported(n).id.name = n
  <2> DEFINE family == IF PrefersBf16 THEN "bf16" ELSE "q41"
  <2>1. Exported(n) = [id |-> LoraId(family, n), dir |-> "own child", source |-> None, file |-> None]
    BY DEF Exported
  <2>2. family \in Families
    BY DEF Families, ZImage
  <2> HIDE DEF family
  <2>3. LoraId(family, n) \in ModelId
    BY <2>2 DEF LoraId, ModelId
  <2> DEFINE id == LoraId(family, n)
  <2>4. id.family \in Families /\ id.lora /\ ~id.encoded /\ id.prefix # "other" /\ id.name = n
    BY <2>2 DEF LoraId
  <2>5. id \in ModelId
    BY <2>3
  <2> HIDE DEF id
  <2>6. [id |-> id, dir |-> "own child", source |-> None, file |-> None] \in Entry
    BY <2>5 DEF Entry, CatalogDirs
  <2>7. Exported(n).id = id
    BY DEF Exported, id, family
  <2>8. Exported(n) \in Entry
    BY <2>1, <2>6 DEF id
  <2> QED BY <2>4, <2>7, <2>8 DEF CatalogEntry
<1>5. entries = listed \cup found
  BY DEF CatalogSet
<1>6. entries \subseteq CatalogEntry
  <2>1. listed \subseteq CatalogEntry
    <3>1. \A i \in DOMAIN ReadLists(files) : ReadLists(files)[i] \in CatalogEntry
      BY <1>1, LenProperties, ElementOfSeq
    <3> QED BY <3>1 DEF ToSet
  <2> QED BY <1>3, <1>4, <1>5, <2>1
<1>7. IsFiniteSet(entries)
  <2>1. IsFiniteSet(listed)
    <3> DEFINE r == ReadLists(files)
    <3>1. Len(r) \in Nat /\ r \in [1 .. Len(r) -> CatalogEntry] /\ DOMAIN r = 1 .. Len(r)
      BY <1>1, LenProperties
    <3>2. listed = {r[i] : i \in 1 .. Len(r)}
      BY <3>1 DEF ToSet
    <3> HIDE DEF r, listed
    <3>3. r \in Surjection(1 .. Len(r), listed)
      BY <3>1, <3>2 DEF Surjection
    <3>4. IsFiniteSet(1 .. Len(r))
      BY <3>1, FS_Interval
    <3> QED BY <3>3, <3>4, FS_Surjection
  <2>2. IsFiniteSet(found)
    <3> DEFINE D == Discovered(files, exports)  f == [n \in D |-> Exported(n)]
    <3>1. IsFiniteSet(Names)
      BY NamesAssumption, FS_Interval DEF Names
    <3>2. IsFiniteSet(D)
      BY <1>3, <3>1, FS_Subset
    <3> HIDE DEF D
    <3>3. f \in Surjection(D, {Exported(n) : n \in D})
      BY DEF Surjection
    <3>4. IsFiniteSet({Exported(n) : n \in D})
      BY <3>2, <3>3, FS_Surjection
    <3> QED BY <3>4 DEF D
  <2> QED BY <1>5, <2>1, <2>2, FS_Union
<1>8. \A a, b \in entries : a.id = b.id => a = b
  <2>1. \A a, b \in listed : a.id = b.id => a = b
    <3> SUFFICES ASSUME NEW i \in Firsts(all, Len(all)), NEW k \in Firsts(all, Len(all)),
                        all[i].id = all[k].id
                 PROVE  all[i] = all[k]
      BY <1>1
    <3> HIDE DEF all
    <3> QED BY <1>2, FirstsDiffer
  <2>2. found # {} => listed = {}
    <3> SUFFICES ASSUME found # {} PROVE listed = {}
      OBVIOUS
    <3>1. \A list \in ListNames : files[list] = Missing
      BY DEF Discovered
    <3>2. \A list \in ListNames : EntriesOf(files, list) = << >>
      BY <3>1 DEF EntriesOf
    <3>3. all = << >>
      BY <3>2 DEF AllEntries, ListNames
    <3>4. Firsts(all, Len(all)) = {}
      BY <3>3 DEF Firsts
    <3> QED BY <1>1, <3>4
  <2>3. \A a, b \in found : a.id = b.id => a = b
    BY <1>3, <1>4
  <2> HIDE DEF entries, listed, found, all
  <2> QED BY <1>5, <2>1, <2>2, <2>3
<1> DEFINE sorts(s) == \A i, j \in DOMAIN s : i < j => Rank(s[i].id) < Rank(s[j].id)
<1>9. Catalog(files, exports) = CHOOSE s \in [1 .. Cardinality(entries) -> entries] : sorts(s)
  BY DEF Catalog
<1> HIDE DEF entries
<1>10. Cardinality(entries) \in Nat
  BY <1>7, FS_CardinalityType
<1>11. \E s \in [1 .. Cardinality(entries) -> entries] : sorts(s)
  BY <1>6, <1>7, <1>8, SortExists DEF Sorted
<1>12. Catalog(files, exports) \in [1 .. Cardinality(entries) -> entries] /\ sorts(Catalog(files, exports))
  <2> HIDE DEF sorts
  <2> QED BY <1>9, <1>11
<1> QED BY <1>6, <1>10, <1>12 DEF entries, Sorted

\* The lists are always lists.
LEMMA ListsTyped == Spec => [](lists \in Lists)
<1>1. Init => lists \in Lists
  BY RequestsAssumption DEF Init
<1>2. lists \in Lists /\ [Next]_vars => (lists \in Lists)'
  BY RequestsAssumption DEF Next, EditLists, Receive, Found, FindById, FindByName,
     FindByPrompt, FindInLists, FindInCatalog, Launch, Fail, Return, vars
<1> QED BY <1>1, <1>2, PTL DEF Spec

\* A look-up among entries returns one of them or none.
LEMMA LookUpTyped ==
  ASSUME NEW n \in Nat, NEW entries \in [1 .. n -> Entry], NEW id, NEW prompt
  PROVE  /\ EntryById(entries, id) \in Entry \cup {NoEntry}
         /\ EntryByName(entries, id) \in Entry \cup {NoEntry}
         /\ EntryByPrompt(entries, id, prompt) \in Entry \cup {NoEntry}
         /\ EntryByFamily(entries, id) \in Entry \cup {NoEntry}
<1>1. Len(entries) = n
  OBVIOUS
<1>2. ASSUME NEW places \in SUBSET (1 .. n)
      PROVE  FirstOf(entries, places) \in Entry \cup {NoEntry}
  <2>1. places \in SUBSET Nat
    OBVIOUS
  <2>2. FirstOf(entries, places) # NoEntry =>
          \E i \in places : FirstOf(entries, places) = entries[i]
    BY <2>1, FirstOfPlaces
  <2> QED BY <2>2
<1>3. EntryById(entries, id) \in Entry \cup {NoEntry}
  BY <1>1, <1>2 DEF EntryById
<1>4. EntryByName(entries, id) \in Entry \cup {NoEntry}
  BY <1>1, <1>2 DEF EntryByName
<1>5. EntryByPrompt(entries, id, prompt) \in Entry \cup {NoEntry}
  <2> DEFINE candidates == {i \in 1 .. Len(entries) : FamilyMatches(id, entries[i])}
             score == [i \in candidates |-> Score(entries[i], prompt)]
             places == {i \in candidates :
               score[i] > 0 /\ \A j \in candidates \ {i} : score[j] < score[i]}
  <2>1. places \in SUBSET (1 .. n)
    BY <1>1
  <2>2. EntryByPrompt(entries, id, prompt) = FirstOf(entries, places)
    BY DEF EntryByPrompt
  <2> HIDE DEF places
  <2> QED BY <1>2, <2>1, <2>2
<1>6. EntryByFamily(entries, id) \in Entry \cup {NoEntry}
  BY <1>1, <1>2 DEF EntryByFamily
<1> QED BY <1>3, <1>4, <1>5, <1>6

\* What the lists and the catalog hold are sequences of entries.
LEMMA EntriesTyped ==
  ASSUME NEW files \in Lists
  PROVE  /\ \E n \in Nat : Catalog(files, Exports) \in [1 .. n -> Entry]
         /\ \E n \in Nat : ReadLists(files) \in [1 .. n -> Entry]
<1>1. CatalogEntry \subseteq Entry
  BY DEF CatalogEntry
<1>2. \E n \in Nat : Catalog(files, Exports) \in [1 .. n -> Entry]
  <2> DEFINE S == CatalogSet(files, Exports)  N == Cardinality(S)  c == Catalog(files, Exports)
  <2>1. N \in Nat /\ S \subseteq CatalogEntry /\ c \in [1 .. N -> S]
    BY CatalogTyped, RequestsAssumption
  <2> HIDE DEF S, N, c
  <2>2. c \in [1 .. N -> Entry]
    BY <1>1, <2>1
  <2> QED BY <2>1, <2>2 DEF c
<1>3. \E n \in Nat : ReadLists(files) \in [1 .. n -> Entry]
  <2>1. ReadLists(files) \in Seq(CatalogEntry)
    BY ListsRead
  <2>2. \E n \in Nat : ReadLists(files) \in [1 .. n -> CatalogEntry]
    BY <2>1
  <2> QED BY <1>1, <2>2
<1> QED BY <1>2, <1>3

\* A request at work is one of those that may come, its alias resolved.
Asked ==
  {r \in Requests \cup {[s EXCEPT !.model = ConfigModel] : s \in Requests} :
     r.model # Alias}
TypeIInv == IInv /\ TypeOK /\ (pc # "idle" => req \in Asked)

\* The lists, the request, what is selected and the command line have their types: a
\* look-up never selects what is no entry, and no line is made for a family that has
\* no worker.
THEOREM TypeCorrect == Spec => []TypeOK
<1>1. Init => TypeIInv
  BY InitIInv DEF Init, TypeIInv, TypeOK
<1>2. TypeIInv /\ [Next]_vars => TypeIInv'
  <2> SUFFICES ASSUME TypeIInv, [Next]_vars PROVE TypeIInv'
    OBVIOUS
  <2>1. IInv'
    BY NextIInv DEF TypeIInv
  <2> USE DEF TypeIInv, TypeOK
  <2>2. lists \in Lists
    BY RequestsAssumption
  <2>3. ASSUME NEW entry \in Entry \cup {NoEntry}, NEW otherwise \in LookUps \cup {"selecting"},
               pc \in LookUps, Found(entry, otherwise)
        PROVE  TypeIInv'
    BY <2>1, <2>3 DEF Found, LookUps
  <2>4. PICK n \in Nat : Catalog(lists, Exports) \in [1 .. n -> Entry]
    BY <2>2, EntriesTyped
  <2>5. PICK m \in Nat : ReadLists(lists) \in [1 .. m -> Entry]
    BY <2>2, EntriesTyped
  <2>6. CASE EditLists
    BY <2>1, <2>6 DEF EditLists, Asked
  <2>7. CASE Receive
    <3>1. PICK r \in Requests :
            req' = [r EXCEPT !.model = IF @ = Alias THEN ConfigModel ELSE @]
      BY <2>7 DEF Receive
    <3>2. r \in RequestType /\ ConfigModel # Alias
      BY RequestsAssumption
    <3>3. req' \in Asked
      <4>1. CASE r.model = Alias
        <5>1. req' = [r EXCEPT !.model = ConfigModel]
          BY <3>1, <4>1
        <5>2. req'.model = ConfigModel
          BY <3>2, <5>1 DEF RequestType
        <5> QED BY <3>2, <5>1, <5>2 DEF Asked
      <4>2. CASE r.model # Alias
        <5>1. req' = r
          BY <3>1, <3>2, <4>2 DEF RequestType
        <5> QED BY <4>2, <5>1 DEF Asked
      <4> QED BY <4>1, <4>2
    <3> QED BY <2>1, <2>7, <3>3 DEF Receive, LookUps, Asked
  <2>8. CASE FindById
    <3> DEFINE entry == EntryById(Catalog(lists, Exports), req.model)
    <3>1. entry \in Entry \cup {NoEntry}
      BY <2>4, LookUpTyped
    <3>2. pc = "id" /\ Found(entry, "name")
      BY <2>8 DEF FindById
    <3> HIDE DEF entry
    <3> QED BY <2>3, <3>1, <3>2 DEF LookUps
  <2>9. CASE FindByName
    <3> DEFINE entry == EntryByName(Catalog(lists, Exports), req.model)
               otherwise == IF HasDirectLoraOptions(req) THEN "selecting"
                            ELSE IF AsksPrompt(req.model) THEN "prompt" ELSE "lists"
    <3>1. entry \in Entry \cup {NoEntry}
      BY <2>4, LookUpTyped
    <3>2. pc = "name" /\ Found(entry, otherwise) /\ otherwise \in LookUps \cup {"selecting"}
      BY <2>9 DEF FindByName, LookUps
    <3> HIDE DEF entry, otherwise
    <3> QED BY <2>3, <3>1, <3>2 DEF LookUps
  <2>10. CASE FindByPrompt
    <3> DEFINE entry == EntryByPrompt(Catalog(lists, Exports), req.model, req.prompt)
    <3>1. entry \in Entry \cup {NoEntry}
      BY <2>4, LookUpTyped
    <3>2. pc = "prompt" /\ Found(entry, "lists")
      BY <2>10 DEF FindByPrompt
    <3> HIDE DEF entry
    <3> QED BY <2>3, <3>1, <3>2 DEF LookUps
  <2>11. CASE FindInLists
    <3> DEFINE entry == EntryByFamily(ReadLists(lists), req.model)
    <3>1. entry \in Entry \cup {NoEntry}
      BY <2>5, LookUpTyped
    <3>2. pc = "lists" /\ Found(entry, "catalog")
      BY <2>11 DEF FindInLists
    <3> HIDE DEF entry
    <3> QED BY <2>3, <3>1, <3>2 DEF LookUps
  <2>12. CASE FindInCatalog
    <3> DEFINE entry == EntryByFamily(Catalog(lists, Exports), req.model)
    <3>1. entry \in Entry \cup {NoEntry}
      BY <2>4, LookUpTyped
    <3>2. pc = "catalog" /\ Found(entry, "selecting")
      BY <2>12 DEF FindInCatalog
    <3> HIDE DEF entry
    <3> QED BY <2>3, <3>1, <3>2 DEF LookUps
  <2>13. CASE Launch
    <3>1. req \in Asked /\ req \in RequestType
      BY <2>13, RequestsAssumption DEF Launch, Asked, RequestType
    <3>2. Target(ChosenModel) \in Families \X BOOLEAN
      <4>1. ChosenModel.family \in Families \cup {"none"}
        <5>1. CASE selected = NoEntry
          <6>1. req.model \in ModelId
            BY <3>1 DEF Asked, RequestType
          <6> QED BY <5>1, <6>1 DEF ChosenModel, ModelId
        <5>2. CASE selected # NoEntry
          BY <5>2 DEF ChosenModel, LoraId, Entry, ModelId
        <5> QED BY <5>1, <5>2
      <4>2. Target(ChosenModel)[1] = ChosenModel.family
            /\ Target(ChosenModel)[2] \in BOOLEAN
            /\ Target(ChosenModel) = <<Target(ChosenModel)[1], Target(ChosenModel)[2]>>
        <5>1. ChosenModel.lora \in BOOLEAN
          BY <3>1 DEF ChosenModel, LoraId, Entry, ModelId, Asked, RequestType
        <5> QED BY <5>1 DEF Target
      <4>3. ChosenModel.family # "none"
        <5>1. Worker(Target(ChosenModel)) \in Families \cup {"lora_add_q41"}
          BY <2>13, RequestsAssumption DEF Launch
        <5> QED BY <4>2, <5>1 DEF Worker, Families, Flux, ZImage, Target
      <4> QED BY <4>1, <4>2, <4>3
    <3>3. \A o \in LoraOptions : LoraOrigin(o) \in Origins
      BY DEF LoraOrigin, Origins
    <3>4. \A o \in GgufOptions : GgufOrigin(o) \in Origins
      BY DEF GgufOrigin, Origins
    <3>5. req.image \in BOOLEAN /\ None \in Origins
      BY <3>1 DEF RequestType, Origins
    <3>6. Arguments \in CommandLine
      BY <3>2, <3>3, <3>4, <3>5 DEF Arguments, CommandLine, AcceptsImage
    <3> QED BY <2>1, <2>13, <3>6 DEF Launch
  <2>14. CASE Fail
    BY <2>1, <2>14 DEF Fail
  <2>15. CASE Return
    BY <2>1, <2>15 DEF Return
  <2>16. CASE UNCHANGED vars
    BY <2>1, <2>16 DEF vars
  <2> QED BY <2>6, <2>7, <2>8, <2>9, <2>10, <2>11, <2>12, <2>13, <2>14, <2>15, <2>16 DEF Next
<1>3. TypeIInv => TypeOK
  BY DEF TypeIInv
<1> QED BY <1>1, <1>2, <1>3, PTL DEF Spec

\* What an id that the catalog has is resolved to reads the same.
LEMMA OwnIdFound ==
  ASSUME NEW n \in Nat, NEW S, S \subseteq CatalogEntry, NEW catalog \in [1 .. n -> S],
         NEW e \in ToSet(catalog), Decode(e.id) = e.id
  PROVE  /\ EntryById(catalog, e.id) # NoEntry
         /\ Lookup(EntryById(catalog, e.id).id) = Lookup(e.id)
<1> DEFINE places == {i \in 1 .. n : \/ catalog[i].id = e.id
                                     \/ Lookup(catalog[i].id) = Lookup(e.id)}
<1>1. Len(catalog) = n
  OBVIOUS
<1>2. EntryById(catalog, e.id) = FirstOf(catalog, places)
  BY <1>1 DEF EntryById
<1>3. places \in SUBSET Nat /\ places # {}
  <2>1. \E i \in 1 .. n : catalog[i] = e
    BY DEF ToSet
  <2> QED BY <2>1
<1>4. Min(places) \in places
  <2> HIDE DEF places
  <2>1. \E m \in places : \A i \in places : m <= i
    BY <1>3, FirstPlace
  <2> QED BY <2>1 DEF Min
<1>5. EntryById(catalog, e.id) = catalog[Min(places)]
  <2> HIDE DEF places
  <2> QED BY <1>2, <1>3 DEF FirstOf
<1> DEFINE i == Min(places)
<1>6. i \in 1 .. n /\ (catalog[i].id = e.id \/ Lookup(catalog[i].id) = Lookup(e.id))
  BY <1>4
<1> HIDE DEF i
<1>7. catalog[i] \in Entry
  BY <1>6 DEF CatalogEntry
<1> QED BY <1>5, <1>6, <1>7, NullsAssumption DEF i

\* Of all items with one id the first is in the catalog, and ids that the server lists
\* resolve, for any lists, spellings and edits.
THEOREM ListedResolve == Spec => []FirstListedResolves
<1>1. lists \in Lists => FirstListedResolves
  <2> SUFFICES ASSUME lists \in Lists PROVE FirstListedResolves
    OBVIOUS
  <2> DEFINE all == AllEntries(lists)
             listed == {i \in DOMAIN all : all[i] # NoEntry}
             first == {i \in listed : \A j \in listed : j < i => all[j].id # all[i].id}
             catalog == Catalog(lists, Exports)
  <2>1. ToSet(ReadLists(lists)) = {all[i] : i \in Firsts(all, Len(all))}
    BY ListsRead
  <2>2. DOMAIN all = 1 .. Len(all)
    BY AllTyped, LenProperties
  <2>3. first = Firsts(all, Len(all))
    <3> HIDE DEF all
    <3> QED BY <2>2 DEF Firsts
  <2>4. ToSet(ReadLists(lists)) = {all[i] : i \in first}
    BY <2>1, <2>3
  <2> DEFINE S == CatalogSet(lists, Exports)  n == Cardinality(S)
  <2>5. n \in Nat /\ S \subseteq CatalogEntry /\ catalog \in [1 .. n -> S]
    BY CatalogTyped, RequestsAssumption
  <2>6. ASSUME NEW e \in ToSet(catalog), Decode(e.id) = e.id
        PROVE  /\ EntryById(catalog, e.id) # NoEntry
               /\ Lookup(EntryById(catalog, e.id).id) = Lookup(e.id)
    <3> HIDE DEF catalog, S, n
    <3> QED BY <2>5, <2>6, OwnIdFound
  <2> HIDE DEF catalog
  <2> QED BY <2>4, <2>6 DEF FirstListedResolves, catalog
<1> QED BY <1>1, ListsTyped, PTL

\* What the loop over the catalog has after each of its rounds.
MatchRounds(entries, id, prompt, best) ==
  best = [n \in 0 .. Len(entries) |->
    IF n = 0 THEN [entry |-> NoEntry, score |-> 0, tied |-> FALSE]
    ELSE IF FamilyMatches(id, entries[n])
      THEN Best(best[n - 1], [entry |-> entries[n], score |-> Score(entries[n], prompt)])
    ELSE best[n - 1]]

LEMMA MatchRoundsExist ==
  ASSUME NEW entries, Len(entries) \in Nat, NEW id, NEW prompt
  PROVE  \E best : MatchRounds(entries, id, prompt, best)
<1> DEFINE Round(b, n) ==
      IF FamilyMatches(id, entries[n])
        THEN Best(b, [entry |-> entries[n], score |-> Score(entries[n], prompt)])
      ELSE b
    None0 == [entry |-> NoEntry, score |-> 0, tied |-> FALSE]
    Good(f, k) == f = [n \in 0 .. k |-> IF n = 0 THEN None0 ELSE Round(f[n - 1], n)]
    S == {k \in 0 .. Len(entries) : \E f : Good(f, k)}
<1> HIDE DEF Round, None0
<1>1. 0 \in S
  <2>1. Good([n \in 0 .. 0 |-> None0], 0)
    OBVIOUS
  <2>2. 0 \in 0 .. Len(entries)
    OBVIOUS
  <2> HIDE DEF Good
  <2> QED BY <2>1, <2>2
<1>2. ASSUME NEW k \in 0 .. Len(entries) - 1, k \in S
      PROVE  k + 1 \in S
  <2>1. PICK f : Good(f, k)
    BY <1>2
  <2> DEFINE g == [n \in 0 .. k + 1 |-> IF n = k + 1 THEN Round(f[k], k + 1) ELSE f[n]]
  <2>2. \A n \in 0 .. k : f[n] = IF n = 0 THEN None0 ELSE Round(f[n - 1], n)
    BY <2>1
  <2>3. ASSUME NEW n \in 0 .. k + 1
        PROVE  g[n] = IF n = 0 THEN None0 ELSE Round(g[n - 1], n)
    <3>1. CASE n = k + 1
      <4>1. n # 0 /\ n - 1 = k /\ k \in 0 .. k + 1 /\ k # k + 1
        BY <3>1
      <4>2. g[n] = Round(f[k], k + 1) /\ g[n - 1] = f[k]
        BY <3>1, <4>1
      <4> QED BY <3>1, <4>1, <4>2
    <3>2. CASE n # k + 1
      <4>1. /\ n \in 0 .. k /\ g[n] = f[n]
            /\ n # 0 => n - 1 \in 0 .. k + 1 /\ n - 1 # k + 1
        BY <3>2
      <4>2. n # 0 => g[n - 1] = f[n - 1]
        BY <4>1
      <4> QED BY <2>2, <4>1, <4>2
    <3> QED BY <3>1, <3>2
  <2>4. Good(g, k + 1)
    BY <2>3
  <2>5. k + 1 \in 0 .. Len(entries)
    OBVIOUS
  <2> HIDE DEF Good, g
  <2> QED BY <2>4, <2>5
<1>3. Len(entries) \in S
  <2> HIDE DEF S
  <2>1. \A n \in 0 .. Len(entries) : n \in S
    BY <1>1, <1>2, UpTo, Zenon
  <2> QED BY <2>1
<1>4. PICK f : Good(f, Len(entries))
  BY <1>3
<1>5. MatchRounds(entries, id, prompt, f)
  BY <1>4 DEF MatchRounds, Round, None0
<1> QED BY <1>5

\* What the loop has found after n rounds: the best score, an entry that has it, and
\* whether another has it too.
FoundAfter(entries, candidates, score, b) ==
  /\ b \in [entry : {entries[i] : i \in candidates} \cup {NoEntry}, score : Nat, tied : BOOLEAN]
  /\ \A i \in candidates : score[i] <= b.score
  /\ b.score = 0 => b.entry = NoEntry /\ ~b.tied
  /\ b.score > 0 => \E i \in candidates :
       /\ score[i] = b.score /\ b.entry = entries[i]
       /\ b.tied <=> \E j \in candidates \ {i} : score[j] = b.score

\* A round keeps that true.
LEMMA MatchRound ==
  ASSUME NEW entries, NEW C, NEW k, k \notin C, NEW score, \A i \in C \cup {k} : score[i] \in Nat,
         NEW b, FoundAfter(entries, C, score, b)
  PROVE  FoundAfter(entries, C \cup {k}, score,
                    Best(b, [entry |-> entries[k], score |-> score[k]]))
<1> DEFINE scored == [entry |-> entries[k], score |-> score[k]]
           next == Best(b, scored)
           D == C \cup {k}
<1>1. /\ b.score \in Nat /\ b.tied \in BOOLEAN /\ score[k] \in Nat
      /\ b.entry \in {entries[i] : i \in C} \cup {NoEntry}
      /\ b = [entry |-> b.entry, score |-> b.score, tied |-> b.tied]
  BY DEF FoundAfter
<1>2. scored.score = score[k] /\ scored.entry = entries[k]
  OBVIOUS
<1> HIDE DEF scored
<1>3. CASE score[k] > b.score
  <2>1. next = [entry |-> entries[k], score |-> score[k], tied |-> FALSE]
    BY <1>2, <1>3 DEF Best
  <2>2. \A i \in C : score[i] < score[k]
    BY <1>1, <1>3 DEF FoundAfter
  <2>3. score[k] > 0
    BY <1>1, <1>3
  <2> HIDE DEF next
  <2>4. next \in [entry : {entries[i] : i \in D} \cup {NoEntry}, score : Nat, tied : BOOLEAN]
    BY <1>1, <2>1
  <2>5. \A i \in D : score[i] <= next.score
    BY <1>1, <2>1, <2>2
  <2>6. /\ k \in D /\ score[k] = next.score /\ next.entry = entries[k]
        /\ next.tied <=> \E j \in D \ {k} : score[j] = next.score
    BY <1>1, <2>1, <2>2
  <2>7. next.score # 0
    BY <2>1, <2>3
  <2> QED BY <2>4, <2>5, <2>6, <2>7 DEF FoundAfter, next, scored
<1>4. CASE ~(score[k] > b.score)
  <2>1. next = [entry |-> b.entry, score |-> b.score,
                tied |-> b.tied \/ (score[k] > 0 /\ score[k] = b.score)]
    BY <1>1, <1>2, <1>4 DEF Best
  <2> HIDE DEF next
  <2>2. next.score = b.score /\ next.entry = b.entry
        /\ next.tied = (b.tied \/ (score[k] > 0 /\ score[k] = b.score))
    BY <2>1
  <2>3. next \in [entry : {entries[i] : i \in D} \cup {NoEntry}, score : Nat, tied : BOOLEAN]
    BY <1>1, <2>1
  <2>4. \A i \in D : score[i] <= next.score
    BY <1>1, <1>4, <2>2 DEF FoundAfter
  <2>5. next.score = 0 => next.entry = NoEntry /\ ~next.tied
    BY <1>1, <2>2 DEF FoundAfter
  <2>6. ASSUME next.score > 0
        PROVE  \E i \in D :
                 /\ score[i] = next.score /\ next.entry = entries[i]
                 /\ next.tied <=> \E j \in D \ {i} : score[j] = next.score
    <3>1. PICK i \in C : /\ score[i] = b.score /\ b.entry = entries[i]
                         /\ b.tied <=> \E j \in C \ {i} : score[j] = b.score
      BY <2>2, <2>6 DEF FoundAfter
    <3>2. i # k /\ i \in D
      BY <3>1
    <3>3. next.tied <=> \E j \in D \ {i} : score[j] = next.score
      <4>1. (\E j \in D \ {i} : score[j] = b.score) <=>
              (\E j \in C \ {i} : score[j] = b.score) \/ score[k] = b.score
        BY <3>2
      <4> QED BY <1>1, <2>2, <2>6, <3>1, <4>1
    <3> QED BY <2>2, <3>1, <3>2, <3>3
  <2> QED BY <2>3, <2>4, <2>5, <2>6 DEF FoundAfter, next, scored
<1> QED BY <1>3, <1>4

\* The loop finds what scores higher than all the others.
LEMMA LoopDecides ==
  ASSUME NEW entries, NEW N \in Nat, NEW S, S \subseteq CatalogEntry,
         entries \in [1 .. N -> S], NEW id, NEW prompt
  PROVE  BestOfLoop(entries, id, prompt) = EntryByPrompt(entries, id, prompt)
<1> DEFINE C(n) == {i \in 1 .. n : FamilyMatches(id, entries[i])}
           score == [i \in 1 .. N |-> Score(entries[i], prompt)]
<1>0. Len(entries) = N
  OBVIOUS
<1>1. \A i \in 1 .. N : score[i] \in Nat
  <2> SUFFICES ASSUME NEW i \in 1 .. N PROVE Score(entries[i], prompt) \in Nat
    OBVIOUS
  <2> DEFINE T == Tokens[entries[i].id.name]
             U == {w \in T : \E p \in prompt : w = p \/ <<w, p>> \in Alike}
  <2>1. entries[i].id.name \in Names
    BY DEF CatalogEntry
  <2>2. IsFiniteSet(T)
    BY <2>1, NamesAssumption
  <2>3. IsFiniteSet(U)
    <3>1. U \in SUBSET T
      OBVIOUS
    <3> HIDE DEF T, U
    <3> QED BY <2>2, <3>1, FS_Subset
  <2>4. Cardinality(U) \in Nat
    <3> HIDE DEF U
    <3> QED BY <2>3, FS_CardinalityType
  <2> QED BY <2>4 DEF Score
<1> DEFINE R(f) == [n \in 0 .. Len(entries) |->
      IF n = 0 THEN [entry |-> NoEntry, score |-> 0, tied |-> FALSE]
      ELSE IF FamilyMatches(id, entries[n])
        THEN Best(f[n - 1], [entry |-> entries[n], score |-> Score(entries[n], prompt)])
      ELSE f[n - 1]]
    best == CHOOSE f : f = R(f)
<1>2. \E f : f = R(f)
  BY <1>0, MatchRoundsExist DEF MatchRounds
<1>3. BestOfLoop(entries, id, prompt) =
        IF best[Len(entries)].tied THEN NoEntry ELSE best[Len(entries)].entry
  BY DEF BestOfLoop
<1>4. best = R(best)
  <2> HIDE DEF R
  <2> QED BY <1>2
<1> HIDE DEF best
<1>5. /\ best[0] = [entry |-> NoEntry, score |-> 0, tied |-> FALSE]
      /\ \A n \in 0 .. N - 1 :
           best[n + 1] = IF FamilyMatches(id, entries[n + 1])
             THEN Best(best[n], [entry |-> entries[n + 1], score |-> score[n + 1]])
             ELSE best[n]
  <2>0. \A m \in 0 .. N : best[m] =
          IF m = 0 THEN [entry |-> NoEntry, score |-> 0, tied |-> FALSE]
          ELSE IF FamilyMatches(id, entries[m])
            THEN Best(best[m - 1], [entry |-> entries[m], score |-> Score(entries[m], prompt)])
          ELSE best[m - 1]
    BY <1>0, <1>4
  <2>1. best[0] = [entry |-> NoEntry, score |-> 0, tied |-> FALSE]
    <3>1. 0 \in 0 .. N
      OBVIOUS
    <3> QED BY <2>0, <3>1, Zenon
  <2>2. ASSUME NEW n \in 0 .. N - 1
        PROVE  best[n + 1] = IF FamilyMatches(id, entries[n + 1])
             THEN Best(best[n], [entry |-> entries[n + 1], score |-> score[n + 1]])
             ELSE best[n]
    <3>1. n + 1 \in 0 .. N /\ n + 1 # 0 /\ n + 1 - 1 = n /\ n + 1 \in 1 .. N
      OBVIOUS
    <3>2. best[n + 1] = IF FamilyMatches(id, entries[n + 1])
             THEN Best(best[n + 1 - 1],
                       [entry |-> entries[n + 1], score |-> Score(entries[n + 1], prompt)])
             ELSE best[n + 1 - 1]
      BY <2>0, <3>1
    <3>3. score[n + 1] = Score(entries[n + 1], prompt)
      BY <3>1
    <3> HIDE DEF score
    <3> QED BY <3>1, <3>2, <3>3
  <2> QED BY <2>1, <2>2
<1> HIDE DEF score, R
<1> DEFINE holds == {n \in 0 .. N : FoundAfter(entries, C(n), score, best[n])}
<1>6. 0 \in holds
  <2>1. C(0) = {}
    OBVIOUS
  <2>2. FoundAfter(entries, {}, score, [entry |-> NoEntry, score |-> 0, tied |-> FALSE])
    BY DEF FoundAfter
  <2>3. 0 \in 0 .. N
    OBVIOUS
  <2> HIDE DEF C
  <2>4. FoundAfter(entries, C(0), score, best[0])
    BY <1>5, <2>1, <2>2
  <2> QED BY <2>3, <2>4
<1>7. ASSUME NEW n \in 0 .. N - 1, n \in holds
      PROVE  n + 1 \in holds
  <2>1. n + 1 \in 0 .. N /\ n + 1 \in 1 .. N /\ FoundAfter(entries, C(n), score, best[n])
    BY <1>7
  <2>2. CASE FamilyMatches(id, entries[n + 1])
    <3>1. C(n + 1) = C(n) \cup {n + 1} /\ n + 1 \notin C(n) /\ C(n) \cup {n + 1} \subseteq 1 .. N
      BY <2>2
    <3>2. best[n + 1] = Best(best[n], [entry |-> entries[n + 1], score |-> score[n + 1]])
      BY <1>5, <2>2
    <3>3. \A i \in C(n) \cup {n + 1} : score[i] \in Nat
      BY <1>1, <3>1
    <3> HIDE DEF C
    <3>4. FoundAfter(entries, C(n) \cup {n + 1}, score, best[n + 1])
      BY <2>1, <3>1, <3>2, <3>3, MatchRound
    <3> QED BY <2>1, <3>1, <3>4
  <2>3. CASE ~FamilyMatches(id, entries[n + 1])
    <3>1. C(n + 1) = C(n)
      BY <2>3
    <3>2. best[n + 1] = best[n]
      BY <1>5, <2>3
    <3> HIDE DEF C
    <3> QED BY <2>1, <3>1, <3>2
  <2> QED BY <2>2, <2>3
<1>8. FoundAfter(entries, C(N), score, best[N])
  <2> HIDE DEF holds
  <2>1. \A n \in 0 .. N : n \in holds
    BY <1>6, <1>7, UpTo, Zenon
  <2>2. N \in holds
    BY <2>1
  <2> QED BY <2>2 DEF holds
<1> DEFINE highest == {i \in C(N) : score[i] > 0 /\ \A j \in C(N) \ {i} : score[j] < score[i]}
<1>9. EntryByPrompt(entries, id, prompt) = FirstOf(entries, highest)
  <2> DEFINE own == [i \in C(N) |-> Score(entries[i], prompt)]
             highest1 == {i \in C(N) : own[i] > 0 /\ \A j \in C(N) \ {i} : own[j] < own[i]}
  <2>1. EntryByPrompt(entries, id, prompt) = FirstOf(entries, highest1)
    BY <1>0 DEF EntryByPrompt
  <2>2. \A i \in C(N) : own[i] = score[i]
    BY DEF score
  <2>3. highest1 = highest
    <3> HIDE DEF C, own
    <3> QED BY <2>2
  <2> QED BY <2>1, <2>3
<1> DEFINE b == best[N]
<1>10. BestOfLoop(entries, id, prompt) = IF b.tied THEN NoEntry ELSE b.entry
  BY <1>0, <1>3
<1>11. \A i \in C(N) : score[i] \in Nat /\ i \in Nat
  BY <1>1
<1> HIDE DEF C, b
<1>12. FoundAfter(entries, C(N), score, b)
  BY <1>8 DEF b
<1>13. CASE b.score = 0
  <2>1. highest = {}
    BY <1>11, <1>12, <1>13 DEF FoundAfter
  <2> QED BY <1>9, <1>10, <1>12, <1>13, <2>1 DEF FirstOf, FoundAfter
<1>14. CASE b.score > 0
  <2>1. PICK i \in C(N) : /\ score[i] = b.score /\ b.entry = entries[i]
                          /\ b.tied <=> \E j \in C(N) \ {i} : score[j] = b.score
    BY <1>12, <1>14 DEF FoundAfter
  <2>2. CASE b.tied
    <3>1. PICK j \in C(N) \ {i} : score[j] = b.score
      BY <2>1, <2>2
    <3>2. highest = {}
      BY <1>11, <1>12, <2>1, <3>1 DEF FoundAfter
    <3> QED BY <1>9, <1>10, <2>2, <3>2 DEF FirstOf
  <2>3. CASE ~b.tied
    <3>1. \A j \in C(N) \ {i} : score[j] < score[i]
      BY <1>11, <1>12, <2>1, <2>3 DEF FoundAfter
    <3>2. highest = {i}
      BY <1>11, <1>14, <2>1, <3>1
    <3>3. Min({i}) = i
      BY <1>11 DEF Min
    <3>4. FirstOf(entries, {i}) = entries[i]
      BY <3>3 DEF FirstOf
    <3> HIDE DEF highest
    <3> QED BY <1>9, <1>10, <2>1, <2>3, <3>2, <3>4
  <2> QED BY <2>2, <2>3
<1>15. b.score \in Nat
  BY <1>12 DEF FoundAfter
<1> QED BY <1>13, <1>14, <1>15

\* Two entries that match a prompt equally well decide nothing, and the one that
\* matches best is taken, in whatever order the catalog has them.
THEOREM TiesDecideNothing == Spec => []TiesUndecided
<1>1. lists \in Lists => TiesUndecided
  <2> SUFFICES ASSUME lists \in Lists, NEW family \in Flux, NEW prompt
               PROVE  BestOfLoop(Catalog(lists, Exports), LoraId(family, NoName), prompt) =
                        EntryByPrompt(Catalog(lists, Exports), LoraId(family, NoName), prompt)
    BY DEF TiesUndecided
  <2> DEFINE S == CatalogSet(lists, Exports)  N == Cardinality(S)  catalog == Catalog(lists, Exports)
  <2>1. N \in Nat /\ S \subseteq CatalogEntry /\ catalog \in [1 .. N -> S]
    BY CatalogTyped, RequestsAssumption
  <2> HIDE DEF S, N, catalog
  <2>2. BestOfLoop(catalog, LoraId(family, NoName), prompt) =
          EntryByPrompt(catalog, LoraId(family, NoName), prompt)
    BY <2>1, LoopDecides
  <2> QED BY <2>2 DEF catalog
<1> QED BY <1>1, ListsTyped, PTL

=============================================================================
