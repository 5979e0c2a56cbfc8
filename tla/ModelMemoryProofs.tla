-------------------------- MODULE ModelMemoryProofs --------------------------
(***************************************************************************)
(* Proofs about ModelMemory, for any catalog, any models, any number of    *)
(* clients and any number of selections (the bounds on polls, time and     *)
(* updates only prune steps).                                              *)
(***************************************************************************)
EXTENDS ModelMemory, FiniteSetTheorems, TLAPS

\* Another spelling of a model is a model of the same base and LoRA.
LEMMA Spellings ==
  ASSUME NEW m \in ModelId
  PROVE  /\ Canonical(m) \in ModelId
         /\ Canonical(m).base = m.base /\ Canonical(m).lora = m.lora
         /\ CanonicalEdit(m) \in ModelId
         /\ CanonicalEdit(m).base = m.base /\ CanonicalEdit(m).lora = m.lora
  BY DEF Canonical, CanonicalEdit, ModelId

LEMMA SpellingsTarget ==
  ASSUME NEW m \in ModelId
  PROVE  /\ Target(Canonical(m)) = Target(m)
         /\ Target(CanonicalEdit(m)) = Target(m)
  BY Spellings DEF Target, IsAlias

\* What chats select are models, in their own kind.
LEMMA ChatSelects ==
  ASSUME NEW chat \in Chats, NEW m \in Selected(chat)
  PROVE  m \in ModelId
<1>1. chat \in ChatType
  BY ModelsAssumption
<1>2. \A e \in chat.mentions : CanonicalEdit(e) \in ModelId
  BY <1>1, Spellings DEF ChatType, EditModels
<1> QED BY <1>1, <1>2 DEF Selected, ChatType

-----------------------------------------------------------------------------
(* The threads that only look on.                                           *)

\* What was chosen and posted stays, more may follow.
Grows(models, more) ==
  /\ Len(models) <= Len(more)
  /\ \A i \in 1 .. Len(models) : more[i] = models[i]

HistoryGrows ==
  /\ config' = config
  /\ \A k \in Kinds : Grows(chosen[k], chosen'[k])
  /\ Grows(posted, posted')

LocalsKept(c) ==
  /\ pc'[c] = pc[c] /\ req'[c] = req[c] /\ result'[c] = result[c] /\ origin'[c] = origin[c]
  /\ before'[c] = before[c] /\ seen'[c] = seen[c]
  /\ snap'[c].generation = snap[c].generation /\ snap'[c].model = snap[c].model

\* Its own prefix of the history is all a thread depends on.
LEMMA Onlooker ==
  ASSUME Types, Types', NEW c \in Conns, ThreadSound(c), HistoryGrows, LocalsKept(c)
  PROVE  ThreadSound(c)'
<1> USE DEF LocalsKept
<1>1. pc'[c] # "idle" => RequestSound(req'[c])
  BY DEF ThreadSound
<1>2. ASSUME pc'[c] \in {"deciding", "polling"}
      PROVE  CopySound(c)'
  <2>1. CopySound(c)
    BY <1>2 DEF ThreadSound
  <2>2. Kind(c) \in Kinds /\ Kind(c)' = Kind(c)
    BY <2>1 DEF CopySound, AsksMemory, Kind, Kinds
  <2>3. before[c] \in Nat /\ Len(chosen[Kind(c)]) \in Nat /\ Len(chosen'[Kind(c)]) \in Nat
    BY <2>2 DEF Types
  <2>4. Grows(chosen[Kind(c)], chosen'[Kind(c)])
    BY <2>2 DEF HistoryGrows
  <2>5. HeldAt(chosen'[Kind(c)], before[c]) = HeldAt(chosen[Kind(c)], before[c])
    BY <2>1, <2>3, <2>4 DEF Grows, HeldAt, CopySound
  <2>6. before[c] <= Len(chosen'[Kind(c)])
    BY <2>1, <2>3, <2>4 DEF Grows, CopySound
  <2> QED BY <2>1, <2>2, <2>5, <2>6 DEF CopySound
<1>3. ASSUME pc'[c] = "posted"
      PROVE  PostSound(c)'
  <2>1. PostSound(c)
    BY <1>3 DEF ThreadSound
  <2>2. before[c] \in Nat /\ Len(posted) \in Nat /\ Len(posted') \in Nat /\ Len(posted) <= Len(posted')
    BY DEF Types, HistoryGrows, Grows
  <2> QED BY <2>1, <2>2 DEF PostSound, Kind
<1>4. ASSUME pc'[c] = "resolved"
      PROVE  ResultSound(c)'
  <2>1. ResultSound(c)
    BY <1>4 DEF ThreadSound
  <2>2. Kind(c)' = Kind(c)
    BY DEF Kind
  <2>3. before[c] \in Nat /\ seen[c] \in Nat
    BY DEF Types
  <2>4. \A m : Target(m)' = Target(m)
    BY DEF HistoryGrows, Target, IsAlias
  <2>5. ASSUME origin'[c] = "memory"
        PROVE  /\ Kind(c)' \in Kinds
               /\ seen'[c] \in 1 .. Len(chosen'[Kind(c)])
               /\ result'[c] = chosen'[Kind(c)][seen'[c]]
    <3>1. Kind(c) \in Kinds /\ seen[c] \in 1 .. Len(chosen[Kind(c)])
          /\ result[c] = chosen[Kind(c)][seen[c]]
      BY <2>1, <2>5 DEF ResultSound
    <3>2. Len(chosen[Kind(c)]) \in Nat /\ Len(chosen'[Kind(c)]) \in Nat
          /\ Grows(chosen[Kind(c)], chosen'[Kind(c)])
      BY <3>1 DEF HistoryGrows, Types
    <3> QED BY <2>2, <3>1, <3>2 DEF Grows
  <2>6. ASSUME Kind(c)' = "options"
        PROVE  /\ seen'[c] <= Len(posted')
               /\ req'[c].model # None =>
                    /\ before'[c] > 0
                    /\ \E i \in before'[c] .. seen'[c] : result'[c] = posted'[i]
    <3>1. seen[c] <= Len(posted)
      BY <2>1, <2>2, <2>6 DEF ResultSound
    <3>2. Len(posted) \in Nat /\ Len(posted') \in Nat /\ Grows(posted, posted')
      BY DEF HistoryGrows, Types
    <3>3. seen'[c] <= Len(posted')
      BY <2>3, <3>1, <3>2 DEF Grows
    <3>4. ASSUME req'[c].model # None
          PROVE  /\ before'[c] > 0
                 /\ \E i \in before'[c] .. seen'[c] : result'[c] = posted'[i]
      <4>1. before[c] > 0
        BY <2>1, <2>2, <2>6, <3>4 DEF ResultSound
      <4>2. PICK i \in before[c] .. seen[c] : result[c] = posted[i]
        BY <2>1, <2>2, <2>6, <3>4 DEF ResultSound
      <4>3. i \in 1 .. Len(posted)
        BY <2>3, <3>1, <3>2, <4>1, <4>2
      <4> QED BY <4>1, <4>2, <4>3, <3>2 DEF Grows
    <3> QED BY <3>3, <3>4
  <2>7. origin'[c] = "fallback" /\ IsAlias(req'[c].model) => before'[c] = seen'[c]
    BY <2>1 DEF ResultSound
  <2>8. Kind(c)' # "options" /\ ~IsAlias(req'[c].model) =>
          Target(result[c])' = Target(req[c].model)'
    BY <2>1, <2>2, <2>4 DEF ResultSound
  <2>9. req'[c].prompt # None /\ IsGenericLora(req'[c].model) /\ Kind(c)' = "image"
          /\ Target(req[c].prompt)' = Target(req[c].model)' /\ before'[c] = seen'[c] =>
          result'[c] = req'[c].prompt
    BY <2>1, <2>2, <2>4 DEF ResultSound
  <2> QED BY <2>2, <2>5, <2>6, <2>7, <2>8, <2>9 DEF ResultSound
<1> QED BY <1>1, <1>2, <1>3, <1>4 DEF ThreadSound
-----------------------------------------------------------------------------
(* Steps of one thread, and what is shared.                                 *)

SharedKept == UNCHANGED <<config, checkpoint, posted, memory, chosen>>

LEMMA SharedStays ==
  ASSUME Types, MemoriesHold, SharedKept
  PROVE  HistoryGrows /\ MemoriesHold'
<1>1. HistoryGrows
  BY DEF SharedKept, HistoryGrows, Grows, Types
<1>2. MemoriesHold'
  BY DEF SharedKept, MemoriesHold
<1> QED BY <1>1, <1>2

\* It is enough to look at the thread that takes the step.
LEMMA OneThread ==
  ASSUME IInv, Types', HistoryGrows, MemoriesHold', NEW c \in Conns,
         \A d \in Conns \ {c} : LocalsKept(d), ThreadSound(c)'
  PROVE  IInv'
<1>1. \A d \in Conns \ {c} : ThreadSound(d)'
  BY Onlooker DEF IInv
<1> QED BY <1>1 DEF IInv

\* A selection is remembered.
LEMMA Remembered ==
  ASSUME Types, MemoriesHold, NEW k \in Kinds, NEW m \in ModelId, ~IsAlias(m),
         IsEdit(m) <=> k = "edit", Remember(k, m), UNCHANGED options
  PROVE  /\ memory' \in [Kinds -> [model : ModelId \cup {None}, generation : Nat, age : Ages]]
         /\ chosen' \in [Kinds -> Seq(ModelId)]
         /\ HistoryGrows
         /\ MemoriesHold'
<1> USE DEF Remember, options
<1>1. /\ chosen \in [Kinds -> Seq(ModelId)] /\ chosen[k] \in Seq(ModelId)
      /\ memory[k].generation \in Nat /\ memory[k].generation = Len(chosen[k])
  BY DEF Types, MemoriesHold
<1>2. chosen'[k] = Append(chosen[k], m) /\ \A j \in Kinds \ {k} : chosen'[j] = chosen[j]
  BY <1>1
<1>3. /\ memory'[k] = [model |-> m, generation |-> memory[k].generation + 1, age |-> 0]
      /\ \A j \in Kinds \ {k} : memory'[j] = memory[j]
  BY DEF Types
<1>4. Len(chosen'[k]) = Len(chosen[k]) + 1 /\ chosen'[k][Len(chosen[k]) + 1] = m
      /\ \A i \in 1 .. Len(chosen[k]) : chosen'[k][i] = chosen[k][i]
  BY <1>1, <1>2
<1>5. 0 \in Ages
  BY BoundsAssumption DEF Ages, Old
<1>6. memory' \in [Kinds -> [model : ModelId \cup {None}, generation : Nat, age : Ages]]
  BY <1>1, <1>3, <1>5 DEF Types
<1>7. chosen' \in [Kinds -> Seq(ModelId)]
  BY <1>1
<1>8. HistoryGrows
  <2>1. \A j \in Kinds : Grows(chosen[j], chosen'[j])
    BY <1>1, <1>2, <1>4 DEF Grows
  <2> QED BY <2>1 DEF HistoryGrows, Grows, Types
<1>9. MemoriesHold'
  <2>1. \A j \in Kinds \ {k} :
          /\ memory'[j].generation = Len(chosen'[j])
          /\ memory'[j].model = HeldAt(chosen'[j], Len(chosen'[j]))
          /\ \A i \in 1 .. Len(chosen'[j]) :
               ~IsAlias(chosen'[j][i]) /\ (IsEdit(chosen'[j][i]) <=> j = "edit")
    BY <1>2, <1>3 DEF MemoriesHold
  <2>2. Len(chosen[k]) \in Nat
    BY <1>1
  <2>3. memory'[k].generation = Len(chosen'[k])
    BY <1>1, <1>3, <1>4
  <2>4. memory'[k].model = HeldAt(chosen'[k], Len(chosen'[k]))
    BY <1>3, <1>4, <2>2 DEF HeldAt
  <2>5. ASSUME NEW i \in 1 .. Len(chosen'[k])
        PROVE  ~IsAlias(chosen'[k][i]) /\ (IsEdit(chosen'[k][i]) <=> k = "edit")
    <3>1. CASE i = Len(chosen[k]) + 1
      BY <1>4, <3>1
    <3>2. CASE i # Len(chosen[k]) + 1
      <4>1. i \in 1 .. Len(chosen[k])
        BY <1>4, <2>2, <3>2
      <4> QED BY <1>4, <4>1 DEF MemoriesHold
    <3> QED BY <3>1, <3>2
  <2> QED BY <2>1, <2>3, <2>4, <2>5 DEF MemoriesHold
<1> QED BY <1>6, <1>7, <1>8, <1>9

-----------------------------------------------------------------------------
(* The steps.                                                               *)

LEMMA InitSound == Init => IInv
<1> SUFFICES ASSUME Init PROVE IInv
  OBVIOUS
<1>1. Unset \in [model : ModelId \cup {None}, generation : Nat, age : Ages]
  BY BoundsAssumption DEF Unset, Ages, Old
<1>2. Types
  BY <1>1 DEF Init, Types
<1>3. MemoriesHold
  BY DEF Init, MemoriesHold, HeldAt, Unset
<1>4. \A c \in Conns : ThreadSound(c)
  BY DEF Init, ThreadSound
<1> QED BY <1>2, <1>3, <1>4 DEF IInv

LEMMA ChatSound == ASSUME IInv, Chat PROVE IInv'
<1>0. PICK chat \in Chats : \E m \in Selected(chat) :
        /\ ~IsAlias(m)
        /\ IF IsEdit(m) THEN Remember("edit", CanonicalEdit(m))
                        ELSE Remember("image", Canonical(m))
        /\ UNCHANGED <<options, pc, req, snap, polls, slept, result, before, seen, origin>>
  BY DEF Chat
<1>1. PICK m \in Selected(chat) :
        /\ ~IsAlias(m)
        /\ IF IsEdit(m) THEN Remember("edit", CanonicalEdit(m))
                        ELSE Remember("image", Canonical(m))
        /\ UNCHANGED <<options, pc, req, snap, polls, slept, result, before, seen, origin>>
  BY <1>0
<1>2. m \in ModelId
  BY ChatSelects
<1>3. \E k \in Kinds, n \in ModelId :
        ~IsAlias(n) /\ (IsEdit(n) <=> k = "edit") /\ Remember(k, n)
  <2>1. CASE IsEdit(m)
    <3>1. "edit" \in Kinds /\ CanonicalEdit(m) \in ModelId
          /\ IsEdit(CanonicalEdit(m)) /\ ~IsAlias(CanonicalEdit(m))
      BY <1>1, <1>2, <2>1, Spellings DEF Kinds, IsEdit, IsAlias
    <3> QED BY <1>1, <2>1, <3>1
  <2>2. CASE ~IsEdit(m)
    <3>1. "image" \in Kinds /\ Canonical(m) \in ModelId
          /\ ~IsEdit(Canonical(m)) /\ ~IsAlias(Canonical(m))
      BY <1>1, <1>2, <2>2, Spellings DEF Kinds, IsEdit, IsAlias
    <3> QED BY <1>1, <2>2, <3>1
  <2> QED BY <2>1, <2>2
<1>4. /\ memory' \in [Kinds -> [model : ModelId \cup {None}, generation : Nat, age : Ages]]
      /\ chosen' \in [Kinds -> Seq(ModelId)]
      /\ HistoryGrows /\ MemoriesHold'
  BY <1>1, <1>3, Remembered DEF IInv
<1>5. Types'
  BY <1>1, <1>4 DEF IInv, Types, options
<1>6. \A c \in Conns : LocalsKept(c)
  BY <1>1 DEF LocalsKept
<1>7. \A c \in Conns : ThreadSound(c)'
  BY <1>4, <1>5, <1>6, Onlooker DEF IInv
<1> QED BY <1>4, <1>5, <1>7 DEF IInv

LEMMA TickSound == ASSUME IInv, Tick PROVE IInv'
<1> USE DEF Tick
<1>1. \A m \in [model : ModelId \cup {None}, generation : Nat, age : Ages] :
        /\ Older(m) \in [model : ModelId \cup {None}, generation : Nat, age : Ages]
        /\ Older(m).model = m.model /\ Older(m).generation = m.generation
  BY BoundsAssumption DEF Older, Ages, Old
<1>2. Types'
  BY <1>1 DEF IInv, Types, options
<1>3. /\ \A k \in Kinds : memory'[k].model = memory[k].model
                          /\ memory'[k].generation = memory[k].generation
      /\ \A c \in Conns : snap'[c].model = snap[c].model
                          /\ snap'[c].generation = snap[c].generation
  BY <1>1 DEF IInv, Types
<1>4. MemoriesHold'
  BY <1>3 DEF IInv, MemoriesHold, options
<1>5. HistoryGrows
  BY DEF HistoryGrows, Grows, IInv, Types, options
<1>6. \A c \in Conns : LocalsKept(c)
  BY <1>3 DEF LocalsKept
<1>7. \A c \in Conns : ThreadSound(c)'
  BY <1>2, <1>5, <1>6, Onlooker DEF IInv
<1> QED BY <1>2, <1>4, <1>7 DEF IInv

LEMMA ArriveSound == ASSUME IInv, NEW c \in Conns, Arrive(c) PROVE IInv'
<1>1. PICK r \in Requests : req' = [req EXCEPT ![c] = Request(r)]
  BY DEF Arrive
<1>2. RequestSound(Request(r))
  <2>1. r \in RequestType /\ (r.route = "edit" => r.model # None)
        /\ (r.model # None => PlainAlias(r.model))
    BY ModelsAssumption DEF PlainAlias
  <2>2. CASE r.route = "edit" /\ IsAlias(r.model) /\ r.text # None
    <3>1. r.text \in ModelId /\ r.text.base = "flux-edit"
      BY <2>1, <2>2 DEF RequestType, EditModels, IsEdit
    <3>2. CanonicalEdit(r.text) \in ModelId /\ ~IsAlias(CanonicalEdit(r.text))
      BY <3>1, Spellings DEF IsAlias
    <3> QED BY <2>1, <2>2, <3>2, NoneAssumption
            DEF Request, RequestSound, RequestType, PlainAlias
  <2>3. CASE r.route = "image" /\ r.model = None
    <3>1. Checkpoint \in ModelId /\ PlainAlias(Checkpoint)
      BY ModelsAssumption DEF Checkpoint, IInv, Types, MemoriesHold, PlainAlias
    <3> QED BY <2>1, <2>3, <3>1, NoneAssumption
            DEF Request, RequestSound, RequestType, PlainAlias
  <2> QED BY <2>1, <2>2, <2>3 DEF Request, RequestSound, RequestType
<1>3. pc' = [pc EXCEPT ![c] = "arrived"] /\ pc'[c] = "arrived" /\ req'[c] = Request(r)
  BY <1>1 DEF Arrive, IInv, Types
<1>4. Types'
  BY <1>1, <1>3 DEF Arrive, IInv, Types, options
<1>5. SharedKept
  BY DEF Arrive, SharedKept, options
<1>6. \A d \in Conns \ {c} : LocalsKept(d)
  BY <1>1, <1>3 DEF Arrive, LocalsKept, IInv, Types
<1>7. ThreadSound(c)'
  BY <1>2, <1>3 DEF ThreadSound, RequestSound
<1> QED BY <1>4, <1>5, <1>6, <1>7, SharedStays, OneThread DEF IInv

LEMMA LeaveSound == ASSUME IInv, NEW c \in Conns, Leave(c) PROVE IInv'
<1>1. Unset \in [model : ModelId \cup {None}, generation : Nat, age : Ages]
  BY BoundsAssumption DEF Unset, Ages, Old
<1>2. Types'
  BY <1>1 DEF Leave, IInv, Types, options
<1>3. SharedKept
  BY DEF Leave, SharedKept, options
<1>4. \A d \in Conns \ {c} : LocalsKept(d)
  BY DEF Leave, LocalsKept, IInv, Types
<1>5. ThreadSound(c)'
  BY DEF Leave, ThreadSound, IInv, Types
<1> QED BY <1>2, <1>3, <1>4, <1>5, SharedStays, OneThread DEF IInv

\* A thread that resolves its request leaves the shared state and every other thread
\* alone.
LEMMA ResolveSound ==
  ASSUME IInv, NEW c \in Conns, pc[c] # "idle", NEW m, NEW from,
         from \in {"request", "memory", "fallback", "options"},
         Resolve(c, m, from), SharedKept, req' = req, before' = before, slept' = slept,
         polls' = polls,
         snap' \in [Conns -> [model : ModelId \cup {None}, generation : Nat, age : Ages]],
         seen' \in [Conns -> Nat],
         \A d \in Conns \ {c} : snap'[d] = snap[d] /\ seen'[d] = seen[d],
         ResultSound(c)'
  PROVE  IInv'
<1>1. Types'
  BY DEF IInv, Types, Resolve, SharedKept
<1>2. \A d \in Conns \ {c} : LocalsKept(d)
  BY DEF LocalsKept, Resolve, IInv, Types
<1>3. pc'[c] = "resolved"
  BY DEF Resolve, IInv, Types
<1>4. RequestSound(req'[c])
  BY DEF IInv, ThreadSound
<1>5. ThreadSound(c)'
  BY <1>3, <1>4 DEF ThreadSound
<1> QED BY <1>1, <1>2, <1>5, SharedStays, OneThread DEF IInv

LEMMA PostOptionsSound == ASSUME IInv, NEW c \in Conns, PostOptions(c) PROVE IInv'
<1> USE DEF PostOptions
<1>1. RequestSound(req[c]) /\ Kind(c) = "options"
  BY DEF IInv, ThreadSound
<1>2. req[c].model # None => req[c].model \in ModelId
  BY <1>1 DEF RequestSound, RequestType
<1>3. posted \in Seq(ModelId) /\ Len(posted) \in Nat
  BY DEF IInv, Types
<1>4. /\ posted' \in Seq(ModelId) /\ Len(posted') \in Nat
      /\ Grows(posted, posted')
      /\ req[c].model # None => Len(posted') > 0 /\ posted'[Len(posted')] = req[c].model
  BY <1>2, <1>3 DEF Grows
<1>5. Types'
  BY <1>2, <1>4 DEF IInv, Types
<1>6. HistoryGrows
  BY <1>4 DEF HistoryGrows, Grows, IInv, Types
<1>7. MemoriesHold'
  <2>1. CASE req[c].model = None
    BY <2>1 DEF IInv, MemoriesHold
  <2>2. CASE req[c].model # None
    BY <1>1, <1>4, <2>2 DEF IInv, MemoriesHold, HeldAt, RequestSound
  <2> QED BY <2>1, <2>2
<1>8. \A d \in Conns \ {c} : LocalsKept(d)
  BY DEF LocalsKept, IInv, Types
<1>9. pc'[c] = "posted" /\ before'[c] = Len(posted') /\ req'[c] = req[c]
  BY DEF IInv, Types
<1>10. PostSound(c)'
  BY <1>1, <1>4, <1>9 DEF PostSound, Kind
<1>11. ThreadSound(c)'
  BY <1>1, <1>9, <1>10 DEF ThreadSound
<1> QED BY <1>5, <1>6, <1>7, <1>8, <1>11, OneThread

LEMMA AnswerOptionsSound == ASSUME IInv, NEW c \in Conns, AnswerOptions(c) PROVE IInv'
<1> USE DEF AnswerOptions
<1>1. PostSound(c)
  BY DEF IInv, ThreadSound
<1>2. seen'[c] = Len(posted) /\ result'[c] = Checkpoint /\ origin'[c] = "options"
      /\ Len(posted) \in Nat /\ before[c] \in Nat
  BY DEF Resolve, IInv, Types
<1>3. ASSUME req[c].model # None
      PROVE  before[c] > 0 /\ Len(posted) \in before[c] .. Len(posted)
             /\ Checkpoint = posted[Len(posted)]
  <2>1. before[c] > 0 /\ before[c] <= Len(posted)
    BY <1>1, <1>3 DEF PostSound
  <2>2. Len(posted) # 0 /\ posted[Len(posted)] \in ModelId
    BY <1>2, <2>1 DEF IInv, Types
  <2>3. checkpoint = posted[Len(posted)]
    BY <2>2 DEF IInv, MemoriesHold, HeldAt
  <2> QED BY <1>2, <2>1, <2>2, <2>3, NoneAssumption DEF Checkpoint
<1>4. /\ SharedKept /\ req' = req /\ before' = before /\ snap' = snap /\ posted' = posted
  BY DEF SharedKept, options
<1>5. Kind(c)' = "options"
  BY <1>1, <1>4 DEF PostSound, Kind
<1>6. Kind(c)' = "options" =>
        /\ seen'[c] <= Len(posted')
        /\ req'[c].model # None =>
             before'[c] > 0 /\ \E i \in before'[c] .. seen'[c] : result'[c] = posted'[i]
  BY <1>2, <1>3, <1>4
<1>7. ResultSound(c)'
  BY <1>2, <1>5, <1>6 DEF ResultSound
<1>8. seen' \in [Conns -> Nat] /\ \A d \in Conns \ {c} : seen'[d] = seen[d]
  BY <1>2 DEF IInv, Types
<1>9. Resolve(c, Checkpoint, "options") /\ pc[c] # "idle"
  OBVIOUS
<1> QED BY <1>4, <1>7, <1>8, <1>9, ResolveSound DEF IInv, Types

LEMMA NameImageModelSound == ASSUME IInv, NEW c \in Conns, NameImageModel(c) PROVE IInv'
<1> USE DEF NameImageModel
<1>1. RequestSound(req[c]) /\ Kind(c) = "image"
  BY DEF IInv, ThreadSound
<1>2. req[c].model \in ModelId
  BY <1>1 DEF RequestSound, RequestType, Kind
<1>3. SharedKept /\ req' = req /\ before' = before /\ snap' = snap /\ seen' = seen
  BY DEF SharedKept, options
<1>4. /\ result'[c] = Canonical(req[c].model) /\ origin'[c] = "request"
      /\ Kind(c)' = "image" /\ config' = config
  BY <1>1, <1>3 DEF Resolve, IInv, Types, Kind, SharedKept
<1>5. Target(result[c])' = Target(req[c].model)'
  BY <1>2, <1>3, <1>4, SpellingsTarget DEF Target, IsAlias
<1>6. ~IsGenericLora(req'[c].model)
  BY <1>3 DEF IsGenericLora
<1>7. ResultSound(c)'
  BY <1>4, <1>5, <1>6 DEF ResultSound
<1>8. Resolve(c, Canonical(req[c].model), "request") /\ pc[c] # "idle"
  OBVIOUS
<1> QED BY <1>3, <1>7, <1>8, ResolveSound DEF IInv, Types

LEMMA SnapshotSound == ASSUME IInv, NEW c \in Conns, Snapshot(c) PROVE IInv'
<1> USE DEF Snapshot, Look
<1>1. RequestSound(req[c])
  BY DEF IInv, ThreadSound
<1>2. Kind(c) \in Kinds /\ AsksMemory(req[c])
  BY <1>1 DEF RequestSound, RequestType, Kind, Kinds, AsksMemory
<1>3. Types'
  BY <1>2 DEF IInv, Types, options
<1>4. SharedKept
  BY DEF SharedKept, options
<1>5. \A d \in Conns \ {c} : LocalsKept(d)
  BY DEF LocalsKept, IInv, Types
<1>6. /\ pc'[c] = "deciding" /\ req' = req /\ chosen' = chosen
      /\ before'[c] = Len(chosen[Kind(c)]) /\ seen'[c] = Len(chosen[Kind(c)])
      /\ snap'[c] = memory[Kind(c)]
  BY DEF IInv, Types
<1>7. CopySound(c)'
  BY <1>2, <1>6 DEF CopySound, Kind, IInv, Types, MemoriesHold
<1>8. ThreadSound(c)'
  BY <1>1, <1>6, <1>7 DEF ThreadSound
<1> QED BY <1>3, <1>4, <1>5, <1>8, SharedStays, OneThread DEF IInv

LEMMA TakeRecentSound == ASSUME IInv, NEW c \in Conns, TakeRecent(c) PROVE IInv'
<1> USE DEF TakeRecent
<1>1. CopySound(c) /\ RequestSound(req[c])
  BY DEF IInv, ThreadSound
<1>2. Kind(c) \in Kinds /\ IsAlias(req[c].model) /\ req[c].model \in ModelId
  BY <1>1 DEF CopySound, AsksMemory, Kind, Kinds, RequestSound, RequestType
<1>3. SharedKept /\ req' = req /\ before' = before /\ snap' = snap /\ seen' = seen
      /\ chosen' = chosen
  BY DEF SharedKept, options
<1>4. /\ result'[c] = snap[c].model /\ origin'[c] = "memory" /\ Kind(c)' = Kind(c)
  BY <1>3 DEF Resolve, IInv, Types, Kind
<1>5. seen[c] \in 1 .. Len(chosen[Kind(c)]) /\ snap[c].model = chosen[Kind(c)][seen[c]]
  <2>1. before[c] \in Nat /\ Len(chosen[Kind(c)]) \in Nat
    BY <1>2 DEF IInv, Types
  <2>2. snap[c].model # None
    BY DEF IsRecent
  <2> QED BY <1>1, <2>1, <2>2 DEF CopySound, HeldAt
<1>6. ~IsGenericLora(req[c].model)
  BY <1>1, <1>2, NoneAssumption DEF RequestSound, PlainAlias, IsGenericLora
<1>7. Kind(c)' \in Kinds /\ Kind(c)' # "options"
  BY <1>2, <1>4 DEF Kinds
<1>8. ResultSound(c)'
  BY <1>2, <1>3, <1>4, <1>5, <1>6, <1>7 DEF ResultSound
<1>9. Resolve(c, snap[c].model, "memory") /\ pc[c] # "idle"
  OBVIOUS
<1> QED BY <1>3, <1>8, <1>9, ResolveSound DEF IInv, Types

LEMMA StartWaitingSound == ASSUME IInv, NEW c \in Conns, StartWaiting(c) PROVE IInv'
<1> USE DEF StartWaiting
<1>1. CopySound(c) /\ RequestSound(req[c])
  BY DEF IInv, ThreadSound
<1>2. Types'
  BY DEF IInv, Types, options
<1>3. SharedKept /\ req' = req /\ before' = before /\ snap' = snap /\ chosen' = chosen
  BY DEF SharedKept, options
<1>4. \A d \in Conns \ {c} : LocalsKept(d)
  BY DEF LocalsKept, IInv, Types
<1>5. pc'[c] = "polling"
  BY DEF IInv, Types
<1>6. CopySound(c)'
  BY <1>1, <1>3, <1>5 DEF CopySound, Kind
<1>7. ThreadSound(c)'
  BY <1>1, <1>3, <1>5, <1>6 DEF ThreadSound
<1> QED BY <1>2, <1>3, <1>4, <1>7, SharedStays, OneThread DEF IInv

LEMMA KeepWaitingSound == ASSUME IInv, NEW c \in Conns, KeepWaiting(c) PROVE IInv'
<1> USE DEF KeepWaiting, Look
<1>1. CopySound(c) /\ RequestSound(req[c])
  BY DEF IInv, ThreadSound
<1>2. Kind(c) \in Kinds
  BY <1>1 DEF CopySound, AsksMemory, Kind, Kinds
<1>3. Types'
  BY <1>2 DEF IInv, Types, options
<1>4. SharedKept /\ req' = req /\ before' = before /\ snap' = snap /\ chosen' = chosen
      /\ pc' = pc
  BY DEF SharedKept, options
<1>5. \A d \in Conns \ {c} : LocalsKept(d)
  BY DEF LocalsKept, IInv, Types
<1>6. CopySound(c)'
  BY <1>1, <1>4 DEF CopySound, Kind
<1>7. ThreadSound(c)'
  BY <1>1, <1>4, <1>6 DEF ThreadSound
<1> QED BY <1>3, <1>4, <1>5, <1>7, SharedStays, OneThread DEF IInv

\* What was chosen while the thread slept is the last of what was chosen.
LEMMA TakeFreshSound == ASSUME IInv, NEW c \in Conns, TakeFresh(c) PROVE IInv'
<1> DEFINE m == req[c].model
           fresh == memory[Kind(c)]
           n == Len(chosen[Kind(c)])
<1>1. CopySound(c) /\ RequestSound(req[c])
  BY DEF TakeFresh, IInv, ThreadSound
<1>2. Kind(c) \in Kinds /\ m \in ModelId
  BY <1>1 DEF CopySound, AsksMemory, Kind, Kinds, RequestSound, RequestType
<1>3. SharedKept /\ req' = req /\ before' = before /\ chosen' = chosen /\ slept' = slept
      /\ polls' = polls /\ config' = config
  BY DEF TakeFresh, SharedKept, options
<1>4. snap' = [snap EXCEPT ![c] = fresh] /\ seen' = [seen EXCEPT ![c] = n] /\ pc[c] # "idle"
  BY DEF TakeFresh, Look
<1>5. /\ snap' \in [Conns -> [model : ModelId \cup {None}, generation : Nat, age : Ages]]
      /\ seen' \in [Conns -> Nat] /\ seen'[c] = n
      /\ \A d \in Conns \ {c} : snap'[d] = snap[d] /\ seen'[d] = seen[d]
  BY <1>2, <1>4 DEF IInv, Types
<1>6. n \in Nat /\ before[c] \in Nat /\ before[c] < n
  <2>1. n \in Nat /\ before[c] \in Nat /\ before[c] <= n
    BY <1>1, <1>2 DEF IInv, Types, CopySound
  <2>2. n # before[c]
    BY <1>1, <1>2 DEF TakeFresh, CopySound, IInv, MemoriesHold
  <2> QED BY <2>1, <2>2
<1>7. n \in 1 .. n /\ fresh.model = chosen[Kind(c)][n]
      /\ ~IsAlias(fresh.model)
  <2>1. n \in 1 .. n
    BY <1>6
  <2> QED BY <1>2, <1>6, <2>1 DEF IInv, MemoriesHold, HeldAt
<1>8. Kind(c)' = Kind(c) /\ Kind(c) # "options"
  BY <1>2, <1>3 DEF Kind, Kinds
<1>9. CASE ShouldApply(m, fresh.model)
  <2>1. Resolve(c, fresh.model, "memory")
    BY <1>9 DEF TakeFresh
  <2>2. result'[c] = fresh.model /\ origin'[c] = "memory"
    BY <2>1 DEF Resolve, IInv, Types
  <2>3. ~IsAlias(req'[c].model) => Target(result[c])' = Target(req[c].model)'
    <3>1. ~IsAlias(m) => Target(fresh.model) = Target(m)
      BY <1>9 DEF ShouldApply
    <3>2. \A x : Target(x)' = Target(x)
      BY <1>3 DEF Target, IsAlias
    <3> QED BY <1>3, <2>2, <3>1, <3>2
  <2>4. Kind(c)' \in Kinds /\ Kind(c)' # "options"
    BY <1>2, <1>8
  <2>5. seen'[c] \in 1 .. Len(chosen'[Kind(c)']) /\ result'[c] = chosen'[Kind(c)'][seen'[c]]
    BY <1>3, <1>5, <1>7, <1>8, <2>2
  <2>6. before'[c] # seen'[c]
    BY <1>3, <1>5, <1>6
  <2>7. ResultSound(c)'
    BY <2>2, <2>3, <2>4, <2>5, <2>6 DEF ResultSound
  <2> QED BY <1>3, <1>4, <1>5, <2>1, <2>7, ResolveSound
<1>10. CASE ~ShouldApply(m, fresh.model)
  <2>1. Resolve(c, m, "fallback")
    BY <1>10 DEF TakeFresh
  <2>2. result'[c] = m /\ origin'[c] = "fallback"
    BY <2>1 DEF Resolve, IInv, Types
  <2>3. ~IsAlias(m)
    BY <1>7, <1>10 DEF ShouldApply
  <2>4. ResultSound(c)'
    BY <1>3, <1>5, <1>6, <1>8, <2>2, <2>3 DEF ResultSound
  <2> QED BY <1>3, <1>4, <1>5, <2>1, <2>4, ResolveSound
<1> QED BY <1>9, <1>10

\* A generic LoRA keeps its target whatever takes its place, and its prompt goes
\* before an old memory.
LEMMA FallbackKeepsTarget ==
  ASSUME NEW r, NEW remembered, RequestSound(r), ~IsAlias(r.model), r.model # None
  PROVE  /\ Target(FallbackImageModel(r, remembered)) = Target(r.model)
         /\ r.prompt # None /\ IsGenericLora(r.model) /\ Target(r.prompt) = Target(r.model) =>
              FallbackImageModel(r, remembered) = r.prompt
  BY DEF FallbackImageModel, ShouldApply

LEMMA GiveUpSound == ASSUME IInv, NEW c \in Conns, GiveUp(c) PROVE IInv'
<1> DEFINE r == req[c]
           m == IF Kind(c) = "edit" THEN FallbackEditModel(r)
                                    ELSE FallbackImageModel(r, snap[c])
<1>1. CopySound(c) /\ RequestSound(r)
  BY DEF GiveUp, IInv, ThreadSound
<1>2. Kind(c) \in Kinds /\ r.model \in ModelId
  BY <1>1 DEF CopySound, AsksMemory, Kind, Kinds, RequestSound, RequestType
<1>3. SharedKept /\ req' = req /\ before' = before /\ chosen' = chosen /\ slept' = slept
      /\ polls' = polls /\ config' = config /\ snap' = snap
  BY DEF GiveUp, SharedKept, options
<1>4. seen' \in [Conns -> Nat] /\ seen'[c] = before[c]
      /\ \A d \in Conns \ {c} : seen'[d] = seen[d]
  <2>1. memory[Kind(c)].generation = Len(chosen[Kind(c)])
        /\ memory[Kind(c)].generation = snap[c].generation
    BY <1>2 DEF GiveUp, IInv, MemoriesHold
  <2> QED BY <1>1, <1>2, <2>1 DEF GiveUp, Look, IInv, Types, CopySound
<1>5. Resolve(c, m, "fallback") /\ pc[c] # "idle"
  BY DEF GiveUp
<1>6. result'[c] = m /\ origin'[c] = "fallback"
  BY <1>5 DEF Resolve, IInv, Types
<1>7. Kind(c)' = Kind(c) /\ Kind(c) # "options"
  BY <1>2, <1>3 DEF Kind, Kinds
<1>8. \A n : Target(n)' = Target(n)
  BY <1>3 DEF Target, IsAlias
<1>9. ASSUME ~IsAlias(r.model)
      PROVE  /\ Target(m) = Target(r.model)
             /\ r.prompt # None /\ IsGenericLora(r.model) /\ Target(r.prompt) = Target(r.model) =>
                  m = r.prompt
  <2>1. Kind(c) # "edit"
    BY <1>1, <1>9 DEF CopySound, AsksMemory, Kind
  <2> QED BY <1>1, <1>2, <1>9, <2>1, FallbackKeepsTarget, NoneAssumption
<1>10. IsAlias(r.model) => ~IsGenericLora(r.model)
  BY <1>1, <1>2, NoneAssumption DEF RequestSound, PlainAlias, IsGenericLora
<1>11. ResultSound(c)'
  <2>1. Kind(c)' # "options" /\ ~IsAlias(req'[c].model) =>
          Target(result[c])' = Target(req[c].model)'
    BY <1>3, <1>6, <1>8, <1>9
  <2>2. req'[c].prompt # None /\ IsGenericLora(req'[c].model)
          /\ Target(req[c].prompt)' = Target(req[c].model)' =>
          result'[c] = req'[c].prompt
    BY <1>3, <1>6, <1>8, <1>9, <1>10 DEF IsGenericLora
  <2> QED BY <1>3, <1>4, <1>6, <1>7, <2>1, <2>2 DEF ResultSound
<1> QED BY <1>3, <1>4, <1>5, <1>11, ResolveSound DEF IInv, Types

\* An edit request that names its model is the one step that both selects a model
\* and resolves a request.
LEMMA NameEditModelSound == ASSUME IInv, NEW c \in Conns, NameEditModel(c) PROVE IInv'
<1> DEFINE m == req[c].model
           n == IF IsEdit(m) THEN CanonicalEdit(m) ELSE m
<1>1. RequestSound(req[c]) /\ Kind(c) = "edit" /\ ~IsAlias(m)
  BY DEF NameEditModel, IInv, ThreadSound
<1>2. m \in ModelId
  BY <1>1 DEF RequestSound, RequestType, Kind
<1>3. n \in ModelId /\ ~IsAlias(n) /\ Target(n) = Target(m) /\ (IsEdit(m) => IsEdit(n))
  BY <1>1, <1>2, Spellings, SpellingsTarget DEF IsAlias, IsEdit
<1>4. Resolve(c, n, "request") /\ options' = options /\ req' = req /\ snap' = snap
      /\ before' = before /\ seen' = seen /\ polls' = polls /\ slept' = slept
  BY DEF NameEditModel, options
<1>5. /\ memory' \in [Kinds -> [model : ModelId \cup {None}, generation : Nat, age : Ages]]
      /\ chosen' \in [Kinds -> Seq(ModelId)]
      /\ HistoryGrows /\ MemoriesHold'
  <2>1. CASE IsEdit(m)
    <3>1. Remember("edit", n)
      BY <2>1 DEF NameEditModel
    <3> QED BY <1>3, <1>4, <2>1, <3>1, Remembered DEF IInv, Kinds
  <2>2. CASE ~IsEdit(m)
    <3>1. SharedKept
      BY <2>2 DEF NameEditModel, SharedKept, options
    <3> QED BY <3>1, SharedStays DEF IInv, Types, SharedKept
  <2> QED BY <2>1, <2>2
<1>6. Types'
  BY <1>4, <1>5 DEF IInv, Types, options, Resolve
<1>7. \A d \in Conns \ {c} : LocalsKept(d)
  BY <1>4 DEF LocalsKept, Resolve, IInv, Types
<1>8. pc'[c] = "resolved" /\ result'[c] = n /\ origin'[c] = "request" /\ Kind(c)' = "edit"
      /\ config' = config
  BY <1>1, <1>4 DEF Resolve, IInv, Types, Kind, options
<1>9. Target(result[c])' = Target(req[c].model)'
  BY <1>3, <1>4, <1>8 DEF Target, IsAlias
<1>10. ResultSound(c)'
  BY <1>8, <1>9 DEF ResultSound
<1>11. ThreadSound(c)'
  BY <1>1, <1>4, <1>8, <1>10 DEF ThreadSound
<1> QED BY <1>5, <1>6, <1>7, <1>11, OneThread

LEMMA NextSound == ASSUME IInv, [Next]_vars PROVE IInv'
<1>1. CASE Chat
  BY <1>1, ChatSound
<1>2. CASE Tick
  BY <1>2, TickSound
<1>3. ASSUME NEW c \in Conns, Arrive(c) \/ Step(c) \/ Leave(c) PROVE IInv'
  BY <1>3, ArriveSound, LeaveSound, PostOptionsSound, AnswerOptionsSound,
     NameImageModelSound, NameEditModelSound, SnapshotSound, TakeRecentSound,
     StartWaitingSound, TakeFreshSound, KeepWaitingSound, GiveUpSound DEF Step
<1>4. CASE UNCHANGED vars
  <2>1. SharedKept /\ \A c \in Conns : LocalsKept(c)
    BY <1>4 DEF vars, options, SharedKept, LocalsKept
  <2>2. Types'
    BY <1>4 DEF vars, options, IInv, Types
  <2> QED BY <2>1, <2>2, SharedStays, Onlooker DEF IInv
<1> QED BY <1>1, <1>2, <1>3, <1>4 DEF Next

-----------------------------------------------------------------------------
(* The theorems.                                                            *)

\* The memories hold what was selected last, and every waiting thread a copy that
\* was once true.
THEOREM Invariance == Spec => []IInv
<1> QED BY InitSound, NextSound, PTL DEF Spec

\* The invariant says each of the properties of a thread that has its model.
LEMMA WhatHolds ==
  ASSUME IInv
  PROVE  /\ LatestSelectionWins /\ NoSelectionMissed /\ KindsApart
         /\ TargetKept /\ PromptUsed /\ OptionsAnswered
<1>1. \A c \in Conns : Resolved(c) => ResultSound(c)
  BY DEF IInv, ThreadSound, Resolved
<1>2. LatestSelectionWins
  BY <1>1 DEF LatestSelectionWins, ResultSound
<1>3. NoSelectionMissed
  BY <1>1 DEF NoSelectionMissed, ResultSound
<1>4. KindsApart
  BY <1>1 DEF KindsApart, ResultSound, IInv, MemoriesHold
<1>5. TargetKept
  BY <1>1 DEF TargetKept, ResultSound
<1>6. PromptUsed
  BY <1>1 DEF PromptUsed, ResultSound
<1>7. OptionsAnswered
  BY <1>1 DEF OptionsAnswered, ResultSound
<1> QED BY <1>2, <1>3, <1>4, <1>5, <1>6, <1>7

\* A model that came from a memory is the one selected last when the thread last
\* looked, whoever selected it.
THEOREM LatestSelection == Spec => []LatestSelectionWins
<1> QED BY Invariance, WhatHolds, PTL

\* No thread gives up on an alias if a model was selected while it waited.
THEOREM NothingMissed == Spec => []NoSelectionMissed
<1> QED BY Invariance, WhatHolds, PTL

\* The memory of images never answers an edit, nor the memory of edits an image.
THEOREM KindsNeverMix == Spec => []KindsApart
<1> QED BY Invariance, WhatHolds, PTL

\* A request that names a model is served by the worker of that model.
THEOREM TargetsKept == Spec => []TargetKept
<1> QED BY Invariance, WhatHolds, PTL

\* The prompt decides for a generic LoRA unless a selection came in meanwhile.
THEOREM PromptDecides == Spec => []PromptUsed
<1> QED BY Invariance, WhatHolds, PTL

\* A POST of the options is answered with its own model or a later one.
THEOREM OptionsAnswer == Spec => []OptionsAnswered
<1> QED BY Invariance, WhatHolds, PTL

-----------------------------------------------------------------------------
(* The types, with their bounds.                                            *)

\* A request that is about to add to a history holds the room it will take.
Made == Len(chosen["image"]) + Len(chosen["edit"]) + Len(posted)
UpdatesBounded == IsFiniteSet(Updating) /\ Made + Cardinality(Updating) <= MaxUpdates

LEMMA Lengths ==
  ASSUME Types
  PROVE  /\ Len(chosen["image"]) \in Nat /\ Len(chosen["edit"]) \in Nat /\ Len(posted) \in Nat
         /\ Made \in Nat
  BY DEF Types, Kinds, Made

HistoriesKept == chosen' = chosen /\ posted' = posted

\* A thread that leaves "arrived" makes room.
LEMMA FewerUpdating ==
  ASSUME IInv, UpdatesBounded, HistoriesKept, Updating' \subseteq Updating
  PROVE  UpdatesBounded'
<1>1. IsFiniteSet(Updating') /\ Cardinality(Updating') <= Cardinality(Updating)
  BY FS_Subset DEF UpdatesBounded
<1>2. Cardinality(Updating) \in Nat /\ Cardinality(Updating') \in Nat
  BY <1>1, FS_CardinalityType DEF UpdatesBounded
<1>3. Made' = Made /\ Made \in Nat
  BY Lengths DEF HistoriesKept, Made, IInv
<1> QED BY <1>1, <1>2, <1>3, BoundsAssumption DEF UpdatesBounded

\* A selection or a post has the room that it was let in for.
LEMMA OneLonger ==
  ASSUME IInv, UpdatesBounded, NEW c \in Updating, Updating' \subseteq Updating \ {c},
         Made' = Made + 1
  PROVE  UpdatesBounded'
<1>1. IsFiniteSet(Updating \ {c}) /\ Cardinality(Updating \ {c}) = Cardinality(Updating) - 1
  BY FS_RemoveElement DEF UpdatesBounded
<1>2. IsFiniteSet(Updating') /\ Cardinality(Updating') <= Cardinality(Updating \ {c})
  BY <1>1, FS_Subset
<1>3. Cardinality(Updating) \in Nat /\ Cardinality(Updating') \in Nat
  BY <1>2, FS_CardinalityType DEF UpdatesBounded
<1>4. Made \in Nat
  BY Lengths DEF IInv
<1> QED BY <1>1, <1>2, <1>3, <1>4, BoundsAssumption DEF UpdatesBounded

LEMMA OneMore ==
  ASSUME NEW i \in Nat, NEW e \in Nat, NEW p \in Nat
  PROVE  /\ (i + 1) + e + p = i + e + p + 1
         /\ i + (e + 1) + p = i + e + p + 1
         /\ i + e + (p + 1) = i + e + p + 1
  OBVIOUS

LEMMA RememberLengthens ==
  ASSUME Types, NEW k \in Kinds, NEW m \in ModelId, Remember(k, m), posted' = posted
  PROVE  Made' = Made + 1
<1>1. chosen \in [Kinds -> Seq(ModelId)] /\ chosen[k] \in Seq(ModelId)
  BY DEF Types
<1>2. Len(chosen'[k]) = Len(chosen[k]) + 1 /\ \A j \in Kinds \ {k} : chosen'[j] = chosen[j]
  BY <1>1 DEF Remember
<1>3. CASE k = "image"
  <2>1. "edit" \in Kinds \ {k}
    BY <1>3 DEF Kinds
  <2>2. Len(chosen'["image"]) = Len(chosen["image"]) + 1 /\ chosen'["edit"] = chosen["edit"]
    BY <1>2, <1>3, <2>1
  <2>3. Len(chosen["image"]) \in Nat /\ Len(chosen["edit"]) \in Nat /\ Len(posted) \in Nat
    BY Lengths
  <2>4. Made' = (Len(chosen["image"]) + 1) + Len(chosen["edit"]) + Len(posted)
    BY <2>2 DEF Made
  <2>5. Made = Len(chosen["image"]) + Len(chosen["edit"]) + Len(posted)
    BY DEF Made
  <2> QED BY <2>3, <2>4, <2>5, OneMore
<1>4. CASE k = "edit"
  <2>1. "image" \in Kinds \ {k}
    BY <1>4 DEF Kinds
  <2>2. Len(chosen'["edit"]) = Len(chosen["edit"]) + 1 /\ chosen'["image"] = chosen["image"]
    BY <1>2, <1>4, <2>1
  <2>3. Len(chosen["image"]) \in Nat /\ Len(chosen["edit"]) \in Nat /\ Len(posted) \in Nat
    BY Lengths
  <2>4. Made' = Len(chosen["image"]) + (Len(chosen["edit"]) + 1) + Len(posted)
    BY <2>2 DEF Made
  <2>5. Made = Len(chosen["image"]) + Len(chosen["edit"]) + Len(posted)
    BY DEF Made
  <2> QED BY <2>3, <2>4, <2>5, OneMore
<1> QED BY <1>3, <1>4 DEF Kinds

LEMMA ChatBounded == ASSUME IInv, UpdatesBounded, Chat PROVE UpdatesBounded'
<1>0. PICK chat \in Chats : \E m \in Selected(chat) :
        /\ Room
        /\ IF IsEdit(m) THEN Remember("edit", CanonicalEdit(m))
                        ELSE Remember("image", Canonical(m))
        /\ UNCHANGED <<options, pc, req>>
  BY DEF Chat
<1>1. PICK m \in Selected(chat) :
        /\ Room
        /\ IF IsEdit(m) THEN Remember("edit", CanonicalEdit(m))
                        ELSE Remember("image", Canonical(m))
        /\ UNCHANGED <<options, pc, req>>
  BY <1>0
<1>2. CanonicalEdit(m) \in ModelId /\ Canonical(m) \in ModelId
  BY ChatSelects, Spellings
<1>3. \E k \in Kinds, n \in ModelId : Remember(k, n)
  BY <1>1, <1>2 DEF Kinds
<1>4. Made' = Made + 1
  BY <1>1, <1>3, RememberLengthens DEF IInv, options
<1>5. Updating' = Updating
  BY <1>1 DEF Updating, Updates
<1>6. Cardinality(Updating) \in Nat /\ Made \in Nat
  BY Lengths, FS_CardinalityType DEF UpdatesBounded, IInv
<1>7. Made + Cardinality(Updating) < MaxUpdates
  BY <1>1 DEF Room, Made
<1> QED BY <1>4, <1>5, <1>6, <1>7, BoundsAssumption DEF UpdatesBounded

LEMMA ArriveBounded ==
  ASSUME IInv, UpdatesBounded, NEW c \in Conns, Arrive(c)
  PROVE  UpdatesBounded'
<1>1. PICK r \in Requests :
        (Updates(Request(r)) => Room) /\ req' = [req EXCEPT ![c] = Request(r)]
  BY DEF Arrive
<1>2. req'[c] = Request(r) /\ \A d \in Conns \ {c} : req'[d] = req[d] /\ pc'[d] = pc[d]
  BY <1>1 DEF Arrive, IInv, Types
<1>3. HistoriesKept
  BY DEF Arrive, HistoriesKept, options
<1>4. CASE ~Updates(Request(r))
  <2>1. Updating' \subseteq Updating
    BY <1>2, <1>4 DEF Updating, Updates
  <2> QED BY <1>3, <2>1, FewerUpdating
<1>5. CASE Updates(Request(r))
  <2>1. Updating' \subseteq Updating \cup {c}
    BY <1>2 DEF Updating, Updates
  <2>2. /\ IsFiniteSet(Updating \cup {c}) /\ Cardinality(Updating) \in Nat
        /\ Cardinality(Updating \cup {c}) <= Cardinality(Updating) + 1
    <3>1. IsFiniteSet(Updating) /\ Cardinality(Updating) \in Nat
      BY FS_CardinalityType DEF UpdatesBounded
    <3>2. /\ IsFiniteSet(Updating \cup {c})
          /\ \/ Cardinality(Updating \cup {c}) = Cardinality(Updating)
             \/ Cardinality(Updating \cup {c}) = Cardinality(Updating) + 1
      BY <3>1, FS_AddElement
    <3> QED BY <3>1, <3>2
  <2>3. IsFiniteSet(Updating') /\ Cardinality(Updating') <= Cardinality(Updating \cup {c})
    BY <2>1, <2>2, FS_Subset
  <2>4. Cardinality(Updating) \in Nat /\ Cardinality(Updating') \in Nat
        /\ Cardinality(Updating \cup {c}) \in Nat
    BY <2>2, <2>3, FS_CardinalityType DEF UpdatesBounded
  <2>5. Made' = Made /\ Made \in Nat /\ Made + Cardinality(Updating) < MaxUpdates
    BY <1>1, <1>3, <1>5, Lengths DEF HistoriesKept, Made, Room, IInv
  <2> QED BY <2>2, <2>3, <2>4, <2>5, BoundsAssumption DEF UpdatesBounded
<1> QED BY <1>4, <1>5

LEMMA PostOptionsBounded ==
  ASSUME IInv, UpdatesBounded, NEW c \in Conns, PostOptions(c)
  PROVE  UpdatesBounded'
<1>1. Updating' \subseteq Updating \ {c}
  BY DEF PostOptions, Updating, Updates, IInv, Types
<1>2. CASE req[c].model = None
  BY <1>1, <1>2, FewerUpdating DEF PostOptions, HistoriesKept
<1>3. CASE req[c].model # None
  <2>1. c \in Updating
    BY <1>3 DEF PostOptions, Updating, Updates, Kind
  <2>2. req[c].model \in ModelId
    BY <1>3 DEF PostOptions, IInv, ThreadSound, RequestSound, RequestType
  <2>3. Len(posted') = Len(posted) + 1 /\ chosen' = chosen
    BY <1>3, <2>2 DEF PostOptions, IInv, Types
  <2>4. Made' = Made + 1
    <3>1. Len(chosen["image"]) \in Nat /\ Len(chosen["edit"]) \in Nat /\ Len(posted) \in Nat
      BY Lengths DEF IInv
    <3>2. Made' = Len(chosen["image"]) + Len(chosen["edit"]) + (Len(posted) + 1)
      BY <2>3 DEF Made
    <3>3. Made = Len(chosen["image"]) + Len(chosen["edit"]) + Len(posted)
      BY DEF Made
    <3> QED BY <3>1, <3>2, <3>3, OneMore
  <2> QED BY <1>1, <2>1, <2>4, OneLonger
<1> QED BY <1>2, <1>3

LEMMA NameEditModelBounded ==
  ASSUME IInv, UpdatesBounded, NEW c \in Conns, NameEditModel(c)
  PROVE  UpdatesBounded'
<1> DEFINE m == req[c].model
<1>1. RequestSound(req[c]) /\ Kind(c) = "edit" /\ posted' = posted /\ req' = req
  BY DEF NameEditModel, IInv, ThreadSound, options
<1>2. m \in ModelId
  BY <1>1 DEF RequestSound, RequestType, Kind
<1>3. Updating' \subseteq Updating \ {c}
  BY DEF NameEditModel, Resolve, Updating, Updates, IInv, Types
<1>4. CASE IsEdit(m)
  <2>1. c \in Updating
    BY <1>1, <1>4 DEF NameEditModel, Updating, Updates, Kind
  <2>2. Remember("edit", CanonicalEdit(m)) /\ CanonicalEdit(m) \in ModelId /\ "edit" \in Kinds
    BY <1>2, <1>4, Spellings DEF NameEditModel, Kinds
  <2>3. Made' = Made + 1
    BY <1>1, <2>2, RememberLengthens DEF IInv
  <2> QED BY <1>3, <2>1, <2>3, OneLonger
<1>5. CASE ~IsEdit(m)
  <2>1. HistoriesKept
    BY <1>1, <1>5 DEF NameEditModel, HistoriesKept
  <2> QED BY <1>3, <2>1, FewerUpdating
<1> QED BY <1>4, <1>5

\* The histories never grow past MaxUpdates, the updates in flight included.
THEOREM UpdatesStayBounded == Spec => []UpdatesBounded
<1>1. Init => UpdatesBounded
  <2> SUFFICES ASSUME Init PROVE UpdatesBounded
    OBVIOUS
  <2>1. Updating = {}
    BY DEF Init, Updating
  <2>2. IsFiniteSet(Updating) /\ Cardinality(Updating) = 0
    BY <2>1, FS_EmptySet
  <2>3. Len(chosen["image"]) = 0 /\ Len(chosen["edit"]) = 0 /\ Len(posted) = 0
    BY DEF Init, Kinds
  <2> QED BY <2>2, <2>3, BoundsAssumption DEF UpdatesBounded, Made
<1>2. IInv /\ UpdatesBounded /\ [Next]_vars => UpdatesBounded'
  <2> SUFFICES ASSUME IInv, UpdatesBounded, [Next]_vars PROVE UpdatesBounded'
    OBVIOUS
  <2>1. CASE Tick \/ UNCHANGED vars
    <3>1. HistoriesKept /\ Updating' \subseteq Updating
      BY <2>1 DEF Tick, vars, options, HistoriesKept, Updating, Updates
    <3> QED BY <3>1, FewerUpdating
  <2>2. ASSUME NEW c \in Conns, Leave(c) PROVE UpdatesBounded'
    <3>1. HistoriesKept /\ Updating' \subseteq Updating
      BY <2>2 DEF Leave, options, HistoriesKept, Updating, Updates, IInv, Types
    <3> QED BY <3>1, FewerUpdating
  <2>3. ASSUME NEW c \in Conns, Step(c), ~PostOptions(c), ~NameEditModel(c)
        PROVE  UpdatesBounded'
    <3>1. HistoriesKept
      BY <2>3 DEF Step, AnswerOptions, NameImageModel, Snapshot, TakeRecent, StartWaiting,
             TakeFresh, KeepWaiting, GiveUp, HistoriesKept, options
    <3>2. req' = req /\ \E p \in {"deciding", "polling", "resolved"} :
            pc' = [pc EXCEPT ![c] = p] \/ pc' = pc
      BY <2>3 DEF Step, AnswerOptions, NameImageModel, Snapshot, TakeRecent, StartWaiting,
             TakeFresh, KeepWaiting, GiveUp, Resolve
    <3>3. Updating' \subseteq Updating
      BY <3>2 DEF Updating, Updates, IInv, Types
    <3> QED BY <3>1, <3>3, FewerUpdating
  <2>4. ASSUME NEW c \in Conns, Step(c) PROVE UpdatesBounded'
    BY <2>3, <2>4, PostOptionsBounded, NameEditModelBounded
  <2> QED BY <2>1, <2>2, <2>4, ChatBounded, ArriveBounded DEF Next
<1> QED BY <1>1, <1>2, Invariance, PTL DEF Spec

\* What the bound says of the memories, the checkpoints and the threads' counts.
Bounded(n) == n \in 0 .. MaxUpdates
SharedBounded ==
  /\ Bounded(Len(posted))
  /\ \A k \in Kinds : Bounded(Len(chosen[k])) /\ Bounded(memory[k].generation)

LEMMA SharedIsBounded == IInv /\ UpdatesBounded => SharedBounded
<1> SUFFICES ASSUME IInv, UpdatesBounded PROVE SharedBounded
  OBVIOUS
<1> DEFINE i == Len(chosen["image"])  e == Len(chosen["edit"])  p == Len(posted)
<1>1. i \in Nat /\ e \in Nat /\ p \in Nat
  BY Lengths DEF IInv
<1>2. Cardinality(Updating) \in Nat /\ i + e + p + Cardinality(Updating) <= MaxUpdates
  BY FS_CardinalityType DEF UpdatesBounded, Made
<1> DEFINE u == Cardinality(Updating)
<1> HIDE DEF i, e, p, u
<1>3. i + e + p + u <= MaxUpdates /\ u \in Nat
  BY <1>2 DEF u, i, e, p
<1>4. Bounded(i) /\ Bounded(e) /\ Bounded(p)
  BY <1>1, <1>3, BoundsAssumption DEF Bounded
<1>5. \A k \in Kinds : Bounded(Len(chosen[k]))
  BY <1>4 DEF i, e, Kinds
<1>6. \A k \in Kinds : memory[k].generation = Len(chosen[k])
  BY DEF IInv, MemoriesHold
<1> QED BY <1>4, <1>5, <1>6 DEF SharedBounded, p

LocalsOK ==
  /\ req \in [Conns -> RequestType \cup {None}]
  /\ polls \in [Conns -> 0 .. Polls - 1]
  /\ slept \in [Conns -> BOOLEAN]
  /\ result \in [Conns -> ModelId \cup {None}]
  /\ origin \in [Conns -> {"none", "request", "memory", "fallback", "options"}]
  /\ \A c \in Conns : Bounded(before[c]) /\ Bounded(seen[c]) /\ Bounded(snap[c].generation)

\* A thread that resolves its request resolves it to a model.
LEMMA ResolveTyped ==
  ASSUME LocalsOK, NEW c, NEW m \in ModelId \cup {None},
         NEW from \in {"request", "memory", "fallback", "options"}, Resolve(c, m, from)
  PROVE  /\ result' \in [Conns -> ModelId \cup {None}]
         /\ origin' \in [Conns -> {"none", "request", "memory", "fallback", "options"}]
  BY DEF LocalsOK, Resolve

\* Any model that a wait can end with.
LEMMA FallbackTyped ==
  ASSUME Types, NEW r, RequestSound(r), NEW c \in Conns
  PROVE  /\ FallbackEditModel(r) \in ModelId \cup {None}
         /\ FallbackImageModel(r, snap[c]) \in ModelId \cup {None}
<1>1. config \in ModelId
  BY ModelsAssumption DEF Types
<1>2. CanonicalEdit(config) \in ModelId
  BY <1>1, Spellings
<1>3. r.model \in ModelId \cup {None} /\ r.prompt \in ModelId \cup {None}
  BY ModelsAssumption DEF RequestSound, RequestType
<1>4. snap[c].model \in ModelId \cup {None}
  BY DEF Types
<1> QED BY <1>1, <1>2, <1>3, <1>4 DEF FallbackEditModel, FallbackImageModel

\* What a thread that has not begun or has begun keeps to itself stays of its type.
LEMMA StepTyped ==
  ASSUME IInv, SharedBounded, SharedBounded', LocalsOK, NEW c \in Conns, Step(c)
  PROVE  LocalsOK'
<1>0. /\ before \in [Conns -> Nat] /\ seen \in [Conns -> Nat]
      /\ snap \in [Conns -> [model : ModelId \cup {None}, generation : Nat, age : Ages]]
      /\ \A k \in Kinds : memory[k].model \in ModelId \cup {None}
  BY DEF IInv, Types
<1>1. req' = req
  BY DEF Step, PostOptions, AnswerOptions, NameImageModel, NameEditModel, Snapshot,
         TakeRecent, StartWaiting, TakeFresh, KeepWaiting, GiveUp
<1>2. RequestSound(req[c]) /\ req[c].model \in ModelId \cup {None}
  BY DEF Step, PostOptions, AnswerOptions, NameImageModel, NameEditModel, Snapshot,
         TakeRecent, StartWaiting, TakeFresh, KeepWaiting, GiveUp, IInv, ThreadSound,
         RequestSound, RequestType
<1>3. 0 \in 0 .. Polls - 1
  BY BoundsAssumption
<1>4. polls' \in [Conns -> 0 .. Polls - 1]
  <2>1. CASE KeepWaiting(c)
    <3>1. polls[c] \in 0 .. Polls - 1 /\ polls[c] + 1 < Polls
          /\ polls' = [polls EXCEPT ![c] = polls[c] + 1]
      BY <2>1 DEF KeepWaiting, LocalsOK
    <3>2. polls[c] + 1 \in 0 .. Polls - 1
      BY <3>1, BoundsAssumption
    <3> QED BY <3>1, <3>2 DEF LocalsOK
  <2>2. CASE StartWaiting(c)
    BY <1>3, <2>2 DEF StartWaiting, LocalsOK
  <2>3. CASE ~KeepWaiting(c) /\ ~StartWaiting(c)
    BY <2>3 DEF Step, PostOptions, AnswerOptions, NameImageModel, NameEditModel, Snapshot,
           TakeRecent, TakeFresh, GiveUp, LocalsOK
  <2> QED BY <2>1, <2>2, <2>3
<1>5. slept' \in [Conns -> BOOLEAN]
  BY DEF Step, PostOptions, AnswerOptions, NameImageModel, NameEditModel, Snapshot,
         TakeRecent, StartWaiting, TakeFresh, KeepWaiting, GiveUp, LocalsOK
<1>6. /\ result' \in [Conns -> ModelId \cup {None}]
      /\ origin' \in [Conns -> {"none", "request", "memory", "fallback", "options"}]
  <2>1. CASE PostOptions(c) \/ Snapshot(c) \/ StartWaiting(c) \/ KeepWaiting(c)
    BY <2>1 DEF PostOptions, Snapshot, StartWaiting, KeepWaiting, LocalsOK
  <2>2. CASE AnswerOptions(c)
    <3>1. Checkpoint \in ModelId \cup {None}
      BY ModelsAssumption DEF Checkpoint, IInv, Types
    <3> QED BY <2>2, <3>1, ResolveTyped DEF AnswerOptions
  <2>3. CASE NameImageModel(c)
    <3>1. req[c].model \in ModelId
      BY <1>2, <2>3 DEF NameImageModel, RequestSound, Kind
    <3>2. Canonical(req[c].model) \in ModelId
      BY <3>1, Spellings
    <3> QED BY <2>3, <3>2, ResolveTyped DEF NameImageModel
  <2>4. CASE NameEditModel(c)
    <3>1. req[c].model \in ModelId
      BY <1>2, <2>4 DEF NameEditModel, RequestSound, Kind
    <3>2. CanonicalEdit(req[c].model) \in ModelId
      BY <3>1, Spellings
    <3>3. \/ Resolve(c, CanonicalEdit(req[c].model), "request")
          \/ Resolve(c, req[c].model, "request")
      BY <2>4 DEF NameEditModel
    <3> QED BY <3>1, <3>2, <3>3, ResolveTyped
  <2>5. CASE TakeRecent(c)
    <3>1. snap[c].model \in ModelId \cup {None}
      BY <1>0
    <3> QED BY <2>5, <3>1, ResolveTyped DEF TakeRecent
  <2>6. CASE TakeFresh(c)
    <3>1. Kind(c) \in Kinds
      BY <2>6 DEF TakeFresh, IInv, ThreadSound, CopySound, AsksMemory, Kind, Kinds
    <3>2. memory[Kind(c)].model \in ModelId \cup {None}
      BY <1>0, <3>1
    <3>3. \/ Resolve(c, memory[Kind(c)].model, "memory")
          \/ Resolve(c, req[c].model, "fallback")
      BY <2>6 DEF TakeFresh
    <3> QED BY <1>2, <3>2, <3>3, ResolveTyped
  <2>7. CASE GiveUp(c)
    <3>1. \/ Resolve(c, FallbackEditModel(req[c]), "fallback")
          \/ Resolve(c, FallbackImageModel(req[c], snap[c]), "fallback")
      BY <2>7 DEF GiveUp
    <3> QED BY <1>2, <3>1, FallbackTyped, ResolveTyped DEF IInv
  <2> QED BY <2>1, <2>2, <2>3, <2>4, <2>5, <2>6, <2>7 DEF Step
<1>7. \A d \in Conns :
        Bounded(before'[d]) /\ Bounded(seen'[d]) /\ Bounded(snap'[d].generation)
  <2> DEFINE n == Len(chosen[Kind(c)])
  <2>1. CASE PostOptions(c)
    <3>1. before' = [before EXCEPT ![c] = Len(posted')] /\ seen' = seen /\ snap' = snap
      BY <2>1 DEF PostOptions
    <3> QED BY <1>0, <3>1 DEF LocalsOK, SharedBounded
  <2>2. CASE AnswerOptions(c)
    <3>1. seen' = [seen EXCEPT ![c] = Len(posted)] /\ before' = before /\ snap' = snap
      BY <2>2 DEF AnswerOptions
    <3> QED BY <1>0, <3>1 DEF LocalsOK, SharedBounded
  <2>3. CASE NameImageModel(c) \/ NameEditModel(c) \/ TakeRecent(c) \/ StartWaiting(c)
    <3>1. before' = before /\ seen' = seen /\ snap' = snap
      BY <2>3 DEF NameImageModel, NameEditModel, TakeRecent, StartWaiting
    <3> QED BY <3>1 DEF LocalsOK
  <2>4. CASE Snapshot(c) \/ TakeFresh(c) \/ KeepWaiting(c) \/ GiveUp(c)
    <3>1. Kind(c) \in Kinds
      BY <1>2, <2>4 DEF Snapshot, TakeFresh, KeepWaiting, GiveUp, IInv, ThreadSound,
             CopySound, AsksMemory, RequestSound, RequestType, Kind, Kinds
    <3>2. Bounded(n) /\ Bounded(memory[Kind(c)].generation)
      BY <3>1 DEF SharedBounded
    <3>3. /\ seen' = [seen EXCEPT ![c] = n]
          /\ before' = before \/ before' = [before EXCEPT ![c] = n]
          /\ snap' = snap \/ snap' = [snap EXCEPT ![c] = memory[Kind(c)]]
      BY <2>4 DEF Snapshot, TakeFresh, KeepWaiting, GiveUp, Look
    <3> QED BY <1>0, <3>2, <3>3 DEF LocalsOK
  <2> QED BY <2>1, <2>2, <2>3, <2>4 DEF Step
<1> QED BY <1>1, <1>4, <1>5, <1>6, <1>7 DEF LocalsOK

\* However the clients' requests and selections meet, memories hold models, generations
\* and counts stay within the selections made, and no thread polls once more than it may.
THEOREM TypeCorrect == Spec => []TypeOK
<1>1. Init => LocalsOK
  <2> SUFFICES ASSUME Init PROVE LocalsOK
    OBVIOUS
  <2>1. 0 \in 0 .. Polls - 1 /\ Bounded(0)
    BY BoundsAssumption DEF Bounded
  <2> QED BY <2>1 DEF Init, LocalsOK, Unset
<1>2. IInv /\ IInv' /\ SharedBounded /\ SharedBounded' /\ LocalsOK /\ [Next]_vars => LocalsOK'
  <2> SUFFICES ASSUME IInv, IInv', SharedBounded, SharedBounded', LocalsOK, [Next]_vars
               PROVE  LocalsOK'
    OBVIOUS
  <2>1. CASE Chat \/ UNCHANGED vars
    <3>1. UNCHANGED <<req, polls, slept, result, origin, before, seen, snap>>
      BY <2>1 DEF Chat, vars
    <3> QED BY <3>1 DEF LocalsOK
  <2>2. CASE Tick
    <3>1. \A c \in Conns : snap'[c].generation = snap[c].generation
      BY <2>2 DEF Tick, Older, IInv, Types
    <3>2. slept' \in [Conns -> BOOLEAN]
      BY <2>2 DEF Tick, LocalsOK
    <3> QED BY <2>2, <3>1, <3>2 DEF Tick, LocalsOK
  <2>3. ASSUME NEW c \in Conns, Arrive(c) PROVE LocalsOK'
    <3>1. PICK r \in Requests : req' = [req EXCEPT ![c] = Request(r)]
      BY <2>3 DEF Arrive
    <3>2. pc'[c] = "arrived" /\ req'[c] = Request(r)
      BY <2>3, <3>1 DEF Arrive, IInv, Types
    <3>3. Request(r) \in RequestType
      BY <3>2 DEF IInv, ThreadSound, RequestSound
    <3> QED BY <2>3, <3>1, <3>3 DEF Arrive, LocalsOK
  <2>4. ASSUME NEW c \in Conns, Leave(c) PROVE LocalsOK'
    <3>1. 0 \in 0 .. Polls - 1 /\ Bounded(0)
      BY BoundsAssumption DEF Bounded
    <3>2. /\ \A d \in Conns : before'[d] \in {before[d], 0} /\ seen'[d] \in {seen[d], 0}
          /\ \A d \in Conns : snap'[d].generation \in {snap[d].generation, 0}
      BY <2>4 DEF Leave, Unset, IInv, Types
    <3>3. \A d \in Conns :
            Bounded(before'[d]) /\ Bounded(seen'[d]) /\ Bounded(snap'[d].generation)
      BY <3>1, <3>2 DEF LocalsOK
    <3> QED BY <2>4, <3>1, <3>3 DEF Leave, LocalsOK
  <2> QED BY <2>1, <2>2, <2>3, <2>4, StepTyped DEF Next
<1>3. IInv /\ SharedBounded /\ LocalsOK => TypeOK
  <2> SUFFICES ASSUME IInv, SharedBounded, LocalsOK PROVE TypeOK
    OBVIOUS
  <2>1. memory \in [Kinds -> Memory] /\ snap \in [Conns -> Memory]
    BY DEF IInv, Types, SharedBounded, LocalsOK, Bounded, Memory
  <2>2. before \in [Conns -> 0 .. MaxUpdates] /\ seen \in [Conns -> 0 .. MaxUpdates]
    BY DEF IInv, Types, LocalsOK, Bounded
  <2> QED BY <2>1, <2>2 DEF IInv, Types, LocalsOK, TypeOK
<1> QED BY <1>1, <1>2, <1>3, Invariance, UpdatesStayBounded, SharedIsBounded, PTL DEF Spec

=============================================================================
