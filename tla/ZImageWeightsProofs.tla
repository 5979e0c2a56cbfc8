-------------------------- MODULE ZImageWeightsProofs --------------------------
(***************************************************************************)
(* Proofs about ZImageWeights, for any number of tensors and any of them   *)
(* judged, any local snapshots and any number of checks, failures and      *)
(* crashes.                                                                *)
(***************************************************************************)
EXTENDS ZImageWeights, TLAPS

-----------------------------------------------------------------------------
(* The plan.                                                                *)

StepType ==
  [op : {"fetch", "find", "bin", "json", "copy"}, file : Downloads \cup Outputs]

\* u is s and then t.
Joins(u, s, t) ==
  /\ u \in Seq(StepType)
  /\ Len(u) = Len(s) + Len(t)
  /\ \A i \in 1 .. Len(s) : u[i] = s[i]
  /\ \A i \in 1 .. Len(t) : u[Len(s) + i] = t[i]

LEMMA Joined ==
  ASSUME NEW s \in Seq(StepType), NEW t \in Seq(StepType)
  PROVE  Joins(s \o t, s, t)
  BY DEF Joins

LEMMA Fetches ==
  ASSUME NEW file \in Downloads
  PROVE  Fetch(file) \in Seq(StepType) /\ Len(Fetch(file)) = 1
         /\ Fetch(file)[1] = Step("fetch", file)
  BY DEF Fetch, Step, StepType

LEMMA ListingSteps ==
  /\ Listing \in Seq(StepType) /\ Len(Listing) = 2
  /\ Listing[1] = Step("fetch", "info") /\ Listing[2] = Step("find", "info")
<1> DEFINE find == << Step("find", "info") >>
<1>1. /\ find \in Seq(StepType) /\ Len(find) = 1
      /\ find[1] = Step("find", "info")
  BY DEF Step, StepType, Downloads
<1>2. /\ Fetch("info") \in Seq(StepType) /\ Len(Fetch("info")) = 1
      /\ Fetch("info")[1] = Step("fetch", "info")
  BY Fetches DEF Downloads
<1>3. Joins(Listing, Fetch("info"), find)
  BY <1>1, <1>2, Joined, Zenon DEF Listing
<1> HIDE DEF find
<1>4. Listing \in Seq(StepType) /\ Len(Listing) = 2
  BY <1>1, <1>2, <1>3 DEF Joins
<1>5. Listing[1] = Step("fetch", "info")
  BY <1>2, <1>3 DEF Joins
<1>6. Listing[1 + 1] = Step("find", "info")
  BY <1>1, <1>2, <1>3 DEF Joins
<1> QED BY <1>4, <1>5, <1>6

LEMMA ShardSteps ==
  /\ Shards \in Seq(StepType) /\ Len(Shards) = 3
  /\ Shards[1] = Step("fetch", "transformer") /\ Shards[2] = Step("fetch", "text")
  /\ Shards[3] = Step("fetch", "vae")
<1> DEFINE two == Fetch("transformer") \o Fetch("text")
<1>1. \A c \in Components :
        /\ Fetch(c) \in Seq(StepType) /\ Len(Fetch(c)) = 1
        /\ Fetch(c)[1] = Step("fetch", c)
  BY Fetches DEF Downloads, Files
<1>2. Fetch("transformer") \in Seq(StepType) /\ Fetch("text") \in Seq(StepType)
      /\ Fetch("vae") \in Seq(StepType)
  BY <1>1 DEF Components
<1>3. Joins(two, Fetch("transformer"), Fetch("text"))
  BY <1>2, Joined, Zenon
<1>4. two \in Seq(StepType)
  BY <1>3, Zenon DEF Joins
<1>5. Joins(Shards, two, Fetch("vae"))
  BY <1>2, <1>4, Joined, Zenon DEF Shards
<1> HIDE DEF two
<1>6. Len(two) = 2 /\ two[1] = Step("fetch", "transformer")
  BY <1>1, <1>3 DEF Joins, Components
<1>7. two[1 + 1] = Step("fetch", "text")
  BY <1>1, <1>3 DEF Joins, Components
<1>8. /\ Shards \in Seq(StepType) /\ Len(Shards) = 3
      /\ Shards[1] = two[1] /\ Shards[2] = two[2]
  BY <1>1, <1>5, <1>6 DEF Joins, Components
<1>9. Shards[2 + 1] = Step("fetch", "vae")
  BY <1>1, <1>5, <1>6 DEF Joins, Components
<1> QED BY <1>6, <1>7, <1>8, <1>9

LEMMA TokenizerSteps ==
  /\ CopyTokenizer \in Seq(StepType) /\ Len(CopyTokenizer) = 2
  /\ CopyTokenizer[1] = Step("fetch", "tokenizer")
  /\ CopyTokenizer[2] = Step("copy", Tokenizer)
<1> DEFINE copy == << Step("copy", Tokenizer) >>
<1>1. /\ copy \in Seq(StepType) /\ Len(copy) = 1
      /\ copy[1] = Step("copy", Tokenizer)
  BY DEF Step, StepType, Outputs
<1>2. /\ Fetch("tokenizer") \in Seq(StepType) /\ Len(Fetch("tokenizer")) = 1
      /\ Fetch("tokenizer")[1] = Step("fetch", "tokenizer")
  BY Fetches DEF Downloads, Files
<1>3. Joins(CopyTokenizer, Fetch("tokenizer"), copy)
  BY <1>1, <1>2, Joined, Zenon DEF CopyTokenizer
<1> HIDE DEF copy
<1>4. CopyTokenizer \in Seq(StepType) /\ Len(CopyTokenizer) = 2
  BY <1>1, <1>2, <1>3 DEF Joins
<1>5. CopyTokenizer[1] = Step("fetch", "tokenizer")
  BY <1>2, <1>3 DEF Joins
<1>6. CopyTokenizer[1 + 1] = Step("copy", Tokenizer)
  BY <1>1, <1>2, <1>3 DEF Joins
<1> QED BY <1>4, <1>5, <1>6

LEMMA ExportSteps ==
  ASSUME NEW c \in Components
  PROVE  /\ Export(c) \in Seq(StepType)
         /\ Len(Export(c)) = Tensors + 1
         /\ \A i \in 1 .. Tensors : Export(c)[i] = Step("bin", <<c, i>>)
         /\ Export(c)[Tensors + 1] = Step("json", <<c, 0>>)
<1> DEFINE json == << Step("json", Manifest(c)) >>
<1>0. Tensors \in Nat
  BY StoreAssumption
<1>1. /\ json \in Seq(StepType) /\ Len(json) = 1
      /\ json[1] = Step("json", <<c, 0>>)
  BY <1>0 DEF Step, StepType, Outputs, Manifest
<1>2. /\ Bins(c) \in Seq(StepType) /\ Len(Bins(c)) = Tensors
      /\ \A i \in 1 .. Tensors : Bins(c)[i] = Step("bin", <<c, i>>)
  BY <1>0 DEF Bins, Step, StepType, Outputs
<1>3. Joins(Export(c), Bins(c), json)
  BY <1>1, <1>2, Joined, Zenon DEF Export
<1> HIDE DEF json
<1>4. Export(c) \in Seq(StepType) /\ Len(Export(c)) = Tensors + 1
  BY <1>1, <1>2, <1>3 DEF Joins
<1>5. \A i \in 1 .. Tensors : Export(c)[i] = Step("bin", <<c, i>>)
  BY <1>2, <1>3 DEF Joins
<1>6. Export(c)[Tensors + 1] = json[1]
  BY <1>1, <1>2, <1>3 DEF Joins
<1> QED BY <1>1, <1>4, <1>5, <1>6

\* Which step the plan has where.
LEMMA PlanSteps ==
  /\ Plan \in Seq(StepType) /\ Len(Plan) = 3 * Tensors + 10
  /\ Plan[1] = Step("fetch", "info") /\ Plan[2] = Step("find", "info")
  /\ Plan[3] = Step("fetch", "transformer") /\ Plan[4] = Step("fetch", "text")
  /\ Plan[5] = Step("fetch", "vae")
  /\ \A c \in Components :
       /\ \A i \in 1 .. Tensors : Plan[Base(c) + i] = Step("bin", <<c, i>>)
       /\ Plan[Base(c) + Tensors + 1] = Step("json", <<c, 0>>)
  /\ Plan[2 * Tensors + 8] = Step("fetch", "tokenizer")
  /\ Plan[2 * Tensors + 9] = Step("copy", Tokenizer)
<1> DEFINE p == Listing \o Shards
           q == p \o Export("transformer")
           r == q \o Export("text")
           s == r \o CopyTokenizer
<1>0. Tensors \in Nat
  BY StoreAssumption
<1>1. /\ Listing \in Seq(StepType) /\ Shards \in Seq(StepType)
      /\ CopyTokenizer \in Seq(StepType)
  BY ListingSteps, ShardSteps, TokenizerSteps
<1>2. /\ Export("transformer") \in Seq(StepType) /\ Export("text") \in Seq(StepType)
      /\ Export("vae") \in Seq(StepType)
  BY ExportSteps DEF Components
<1>3. Joins(p, Listing, Shards)
  BY <1>1, Joined, Zenon
<1>4. Joins(q, p, Export("transformer"))
  <2>1. p \in Seq(StepType)
    BY <1>3, Zenon DEF Joins
  <2> QED BY <1>2, <2>1, Joined, Zenon
<1>5. Joins(r, q, Export("text"))
  <2>1. q \in Seq(StepType)
    BY <1>4, Zenon DEF Joins
  <2> QED BY <1>2, <2>1, Joined, Zenon
<1>6. Joins(s, r, CopyTokenizer)
  <2>1. r \in Seq(StepType)
    BY <1>5, Zenon DEF Joins
  <2> QED BY <1>1, <2>1, Joined, Zenon
<1>7. Joins(Plan, s, Export("vae"))
  <2>1. s \in Seq(StepType)
    BY <1>6, Zenon DEF Joins
  <2> QED BY <1>2, <2>1, Joined, Zenon DEF Plan
<1> HIDE DEF p, q, r, s
<1>8. /\ Len(p) = 5
      /\ p[1] = Step("fetch", "info") /\ p[2] = Step("find", "info")
      /\ p[3] = Step("fetch", "transformer") /\ p[4] = Step("fetch", "text")
      /\ p[5] = Step("fetch", "vae")
  <2>1. Len(p) = 5 /\ p[1] = Step("fetch", "info") /\ p[2] = Step("find", "info")
    BY <1>3, ListingSteps, ShardSteps DEF Joins
  <2>2. p[2 + 1] = Shards[1] /\ p[2 + 2] = Shards[2] /\ p[2 + 3] = Shards[3]
    BY <1>3, ListingSteps, ShardSteps DEF Joins
  <2> QED BY <2>1, <2>2, ShardSteps
<1>9. /\ Len(q) = Tensors + 6
      /\ \A i \in 1 .. 5 : q[i] = p[i]
      /\ \A i \in 1 .. Tensors + 1 : q[5 + i] = Export("transformer")[i]
  BY <1>0, <1>4, <1>8, ExportSteps DEF Joins, Components
<1>10. /\ Len(r) = 2 * Tensors + 7
       /\ \A i \in 1 .. Tensors + 6 : r[i] = q[i]
       /\ \A i \in 1 .. Tensors + 1 : r[Tensors + 6 + i] = Export("text")[i]
  <2>1. Len(Export("text")) = Tensors + 1
    BY ExportSteps DEF Components
  <2>2. Len(r) = Tensors + 6 + (Tensors + 1)
    BY <1>5, <1>9, <2>1 DEF Joins
  <2>3. \A i \in 1 .. Tensors + 6 : r[i] = q[i]
    BY <1>5, <1>9 DEF Joins
  <2>4. \A i \in 1 .. Tensors + 1 : r[Tensors + 6 + i] = Export("text")[i]
    BY <1>5, <1>9, <2>1 DEF Joins
  <2> QED BY <1>0, <2>2, <2>3, <2>4
<1>11. /\ Len(s) = 2 * Tensors + 9
       /\ \A i \in 1 .. 2 * Tensors + 7 : s[i] = r[i]
       /\ \A i \in 1 .. 2 : s[2 * Tensors + 7 + i] = CopyTokenizer[i]
  BY <1>0, <1>6, <1>10, TokenizerSteps DEF Joins
<1>12. /\ Plan \in Seq(StepType) /\ Len(Plan) = 3 * Tensors + 10
       /\ \A i \in 1 .. 2 * Tensors + 9 : Plan[i] = s[i]
       /\ \A i \in 1 .. Tensors + 1 : Plan[2 * Tensors + 9 + i] = Export("vae")[i]
  <2>1. Len(Export("vae")) = Tensors + 1
    BY ExportSteps DEF Components
  <2>2. Plan \in Seq(StepType) /\ Len(Plan) = 2 * Tensors + 9 + (Tensors + 1)
    BY <1>7, <1>11, <2>1 DEF Joins
  <2>3. \A i \in 1 .. 2 * Tensors + 9 : Plan[i] = s[i]
    BY <1>7, <1>11 DEF Joins
  <2>4. \A i \in 1 .. Tensors + 1 : Plan[2 * Tensors + 9 + i] = Export("vae")[i]
    BY <1>7, <1>11, <2>1 DEF Joins
  <2> QED BY <1>0, <2>2, <2>3, <2>4
<1>13. \A i \in 1 .. 5 : Plan[i] = p[i]
  BY <1>0, <1>9, <1>10, <1>11, <1>12
<1>14. ASSUME NEW c \in Components
       PROVE  \A i \in 1 .. Tensors + 1 : Plan[Base(c) + i] = Export(c)[i]
  <2>1. CASE c = "transformer"
    <3>1. ASSUME NEW i \in 1 .. Tensors + 1 PROVE Plan[5 + i] = Export(c)[i]
      <4>1. 5 + i \in 1 .. Tensors + 6
        BY <1>0
      <4> QED BY <1>0, <1>9, <1>10, <1>11, <1>12, <2>1, <4>1
    <3> QED BY <2>1, <3>1 DEF Base
  <2>2. CASE c = "text"
    <3>1. ASSUME NEW i \in 1 .. Tensors + 1 PROVE Plan[Tensors + 6 + i] = Export(c)[i]
      <4>1. Tensors + 6 + i \in 1 .. 2 * Tensors + 7
        BY <1>0
      <4>2. Tensors + 6 + i \in 1 .. 2 * Tensors + 9
        BY <1>0
      <4>3. Plan[Tensors + 6 + i] = r[Tensors + 6 + i]
        BY <1>11, <1>12, <4>1, <4>2
      <4> QED BY <1>10, <2>2, <4>3
    <3> QED BY <2>2, <3>1 DEF Base
  <2>3. CASE c = "vae"
    BY <1>12, <2>3 DEF Base
  <2> QED BY <2>1, <2>2, <2>3 DEF Components
<1>15. ASSUME NEW c \in Components
       PROVE  /\ \A i \in 1 .. Tensors : Plan[Base(c) + i] = Step("bin", <<c, i>>)
              /\ Plan[Base(c) + Tensors + 1] = Step("json", <<c, 0>>)
  <2>1. Base(c) \in Nat
    BY <1>0 DEF Base, Components
  <2>2. \A i \in 1 .. Tensors : Plan[Base(c) + i] = Step("bin", <<c, i>>)
    <3>1. \A i \in 1 .. Tensors : i \in 1 .. Tensors + 1
      BY <1>0
    <3> QED BY <1>14, <3>1, ExportSteps
  <2>3. Plan[Base(c) + (Tensors + 1)] = Step("json", <<c, 0>>)
    BY <1>0, <1>14, ExportSteps
  <2>4. Base(c) + (Tensors + 1) = Base(c) + Tensors + 1
    BY <1>0, <2>1
  <2> QED BY <2>2, <2>3, <2>4
<1>16. Plan[2 * Tensors + 8] = Step("fetch", "tokenizer")
       /\ Plan[2 * Tensors + 9] = Step("copy", Tokenizer)
  <2>1. /\ s[2 * Tensors + 7 + 1] = CopyTokenizer[1]
        /\ s[2 * Tensors + 7 + 2] = CopyTokenizer[2]
    BY <1>11
  <2>2. /\ 2 * Tensors + 7 + 1 = 2 * Tensors + 8 /\ 2 * Tensors + 8 \in 1 .. 2 * Tensors + 9
        /\ 2 * Tensors + 7 + 2 = 2 * Tensors + 9 /\ 2 * Tensors + 9 \in 1 .. 2 * Tensors + 9
    BY <1>0
  <2> QED BY <1>12, <2>1, <2>2, TokenizerSteps
<1> QED BY <1>8, <1>12, <1>13, <1>15, <1>16

\* An output file has its step, ...
LEMMA Places ==
  ASSUME NEW f \in Outputs
  PROVE  /\ Place(f) \in 1 .. Len(Plan)
         /\ Plan[Place(f)].file = f
         /\ Plan[Place(f)].op \in {"bin", "json", "copy"}
<1>0. Tensors \in Nat
  BY StoreAssumption
<1>1. CASE f = Tokenizer
  <2>1. Place(f) = 2 * Tensors + 9
    BY <1>1 DEF Place
  <2>2. Plan[2 * Tensors + 9].file = f /\ Plan[2 * Tensors + 9].op = "copy"
    BY <1>1, PlanSteps DEF Step
  <2> QED BY <1>0, <2>1, <2>2, PlanSteps
<1>2. CASE f # Tokenizer
  <2>1. PICK c \in Components, k \in 0 .. Tensors : f = <<c, k>>
    BY <1>2 DEF Outputs
  <2>2. Place(f) = Base(c) + (IF k = 0 THEN Tensors + 1 ELSE k)
    BY <1>2, <2>1 DEF Place
  <2>3. Base(c) \in 5 .. 2 * Tensors + 9
    BY <1>0 DEF Base, Components
  <2>4. Place(f) \in 1 .. 3 * Tensors + 10
    BY <1>0, <2>2, <2>3
  <2>5. CASE k = 0
    <3>1. Base(c) + (Tensors + 1) = Base(c) + Tensors + 1
      BY <1>0, <2>3
    <3>2. Plan[Base(c) + Tensors + 1] = Step("json", <<c, 0>>)
      BY PlanSteps
    <3>3. Step("json", <<c, 0>>).file = <<c, 0>> /\ Step("json", <<c, 0>>).op = "json"
      BY DEF Step
    <3>4. Place(f) = Base(c) + Tensors + 1
      BY <2>2, <2>5, <3>1
    <3>5. Len(Plan) = 3 * Tensors + 10
      BY PlanSteps
    <3> QED BY <2>1, <2>4, <2>5, <3>2, <3>3, <3>4, <3>5
  <2>6. CASE k # 0
    <3>1. k \in 1 .. Tensors
      BY <1>0, <2>6
    <3>2. Plan[Base(c) + k] = Step("bin", <<c, k>>)
      BY <3>1, PlanSteps
    <3>3. Step("bin", <<c, k>>).file = <<c, k>> /\ Step("bin", <<c, k>>).op = "bin"
      BY DEF Step
    <3>4. Len(Plan) = 3 * Tensors + 10
      BY PlanSteps
    <3> QED BY <2>1, <2>2, <2>4, <2>6, <3>2, <3>3, <3>4
  <2> QED BY <2>5, <2>6
<1> QED BY <1>1, <1>2

\* Every step of the plan is one of these.
LEMMA PlanCases ==
  ASSUME NEW i \in 1 .. Len(Plan)
  PROVE  \/ i \in 1 .. 5 \/ i = 2 * Tensors + 8 \/ i = 2 * Tensors + 9
         \/ \E c \in Components, k \in 1 .. Tensors :
              i = Base(c) + k /\ Plan[i] = Step("bin", <<c, k>>)
         \/ \E c \in Components :
              i = Base(c) + (Tensors + 1) /\ Plan[i] = Step("json", <<c, 0>>)
<1>0. Tensors \in Nat /\ i \in 1 .. 3 * Tensors + 10
  BY StoreAssumption, PlanSteps
<1>5. i \in 1 .. 5 \/ i > 5
  BY <1>0
<1>1. SUFFICES ASSUME i > 5, i # 2 * Tensors + 8, i # 2 * Tensors + 9
      PROVE  \/ \E c \in Components, k \in 1 .. Tensors :
                  i = Base(c) + k /\ Plan[i] = Step("bin", <<c, k>>)
             \/ \E c \in Components :
                  i = Base(c) + (Tensors + 1) /\ Plan[i] = Step("json", <<c, 0>>)
  BY <1>5, Zenon
<1>2. PICK c \in Components, k \in 1 .. Tensors + 1 : i = Base(c) + k
  <2>1. CASE i <= Tensors + 6
    <3>1. i = Base("transformer") + (i - 5) /\ i - 5 \in 1 .. Tensors + 1
      <4>1. Base("transformer") = 5
        BY DEF Base
      <4>2. i - 5 \in 1 .. Tensors + 1
        BY <1>0, <1>1, <2>1
      <4> QED BY <1>0, <4>1, <4>2
    <3> QED BY <3>1 DEF Components
  <2>2. CASE i > Tensors + 6 /\ i <= 2 * Tensors + 7
    <3>1. i = Base("text") + (i - (Tensors + 6)) /\ i - (Tensors + 6) \in 1 .. Tensors + 1
      <4>1. Base("text") = Tensors + 6
        BY DEF Base
      <4>2. i - (Tensors + 6) \in 1 .. Tensors + 1
        BY <1>0, <2>2
      <4> QED BY <1>0, <4>1, <4>2
    <3> QED BY <3>1 DEF Components
  <2>3. CASE i > 2 * Tensors + 7
    <3>1. i = Base("vae") + (i - (2 * Tensors + 9))
          /\ i - (2 * Tensors + 9) \in 1 .. Tensors + 1
      <4>1. Base("vae") = 2 * Tensors + 9
        BY DEF Base
      <4>2. i > 2 * Tensors + 9
        BY <1>0, <1>1, <2>3
      <4> QED BY <1>0, <4>1, <4>2
    <3> QED BY <3>1 DEF Components
  <2> QED BY <1>0, <2>1, <2>2, <2>3
<1>3. CASE k = Tensors + 1
  <2>1. Base(c) \in Nat
    BY <1>0 DEF Base, Components
  <2>2. i = Base(c) + Tensors + 1
    BY <1>0, <1>2, <1>3, <2>1
  <2> QED BY <1>2, <1>3, <2>2, PlanSteps
<1>4. CASE k # Tensors + 1
  <2>1. k \in 1 .. Tensors
    BY <1>0, <1>4
  <2>2. Plan[i] = Step("bin", <<c, k>>)
    BY <1>2, <2>1, PlanSteps
  <2> QED BY <1>2, <2>1, <2>2
<1> QED BY <1>3, <1>4

\* ... and no other step writes it.
LEMMA Positions ==
  ASSUME NEW i \in 1 .. Len(Plan), Plan[i].op \in {"bin", "json", "copy"}
  PROVE  /\ Plan[i].file \in Outputs /\ Place(Plan[i].file) = i
         /\ Plan[i].op = "bin" => Plan[i].file \in Components \X (1 .. Tensors)
         /\ Plan[i].op = "json" => Plan[i].file \notin Weights
         /\ Plan[i].op = "copy" => Plan[i].file = Tokenizer
<1>0. Tensors \in Nat
  BY StoreAssumption
<1>1. /\ Plan[1].op = "fetch" /\ Plan[2].op = "find" /\ Plan[3].op = "fetch"
      /\ Plan[4].op = "fetch" /\ Plan[5].op = "fetch"
      /\ Plan[2 * Tensors + 8].op = "fetch"
  BY PlanSteps DEF Step
<1>2. i \notin 1 .. 5 /\ i # 2 * Tensors + 8
  BY <1>1
<1>3. CASE i = 2 * Tensors + 9
  BY <1>3, PlanSteps DEF Step, Place, Outputs
<1>4. CASE \E c \in Components, k \in 1 .. Tensors :
             i = Base(c) + k /\ Plan[i] = Step("bin", <<c, k>>)
  <2>1. PICK c \in Components, k \in 1 .. Tensors :
          i = Base(c) + k /\ Plan[i] = Step("bin", <<c, k>>)
    BY <1>4
  <2>2. <<c, k>> \in Outputs /\ <<c, k>> # Tokenizer
    BY <1>0 DEF Outputs, Tokenizer, Components
  <2>3. Place(<<c, k>>) = Base(c) + k
    BY <2>2 DEF Place
  <2> QED BY <2>1, <2>2, <2>3 DEF Step
<1>5. CASE \E c \in Components :
             i = Base(c) + (Tensors + 1) /\ Plan[i] = Step("json", <<c, 0>>)
  <2>1. PICK c \in Components : i = Base(c) + (Tensors + 1) /\ Plan[i] = Step("json", <<c, 0>>)
    BY <1>5
  <2>2. <<c, 0>> \in Outputs /\ <<c, 0>> # Tokenizer /\ <<c, 0>> \notin Weights
    BY <1>0 DEF Outputs, Tokenizer, Components, Weights
  <2>3. Place(<<c, 0>>) = Base(c) + (Tensors + 1)
    BY <2>2 DEF Place
  <2> QED BY <2>1, <2>2, <2>3 DEF Step
<1> QED BY <1>2, <1>3, <1>4, <1>5, PlanCases

\* A fetch is of something that is downloaded.
LEMMA FetchPositions ==
  ASSUME NEW i \in 1 .. Len(Plan), Plan[i].op = "fetch"
  PROVE  Plan[i].file \in Downloads
<1>1. CASE i \in 1 .. 5 \/ i = 2 * Tensors + 8 \/ i = 2 * Tensors + 9
  <2>1. i \in {1, 2, 3, 4, 5, 2 * Tensors + 8, 2 * Tensors + 9}
    BY <1>1
  <2> QED BY <2>1, PlanSteps DEF Step, Downloads, Files, Components
<1>2. CASE ~(i \in 1 .. 5 \/ i = 2 * Tensors + 8 \/ i = 2 * Tensors + 9)
  <2>1. ASSUME NEW c \in Components, NEW k \in 1 .. Tensors, Plan[i] = Step("bin", <<c, k>>)
        PROVE  FALSE
    BY <2>1 DEF Step
  <2>2. ASSUME NEW c \in Components, Plan[i] = Step("json", <<c, 0>>)
        PROVE  FALSE
    BY <2>2 DEF Step
  <2> QED BY <1>2, <2>1, <2>2, PlanCases, Zenon
<1> QED BY <1>1, <1>2

\* The last judged file comes after all that is judged and all that is not the
\* VAE's.
LEMMA LastPlace ==
  /\ LastJudged \in Required /\ LastJudged \in Outputs /\ LastJudged[1] = "vae"
  /\ Required \subseteq Outputs /\ Weights \subseteq Outputs /\ Tokenizer \in Required
  /\ \A f \in Required : f = LastJudged \/ Place(f) < Place(LastJudged)
  /\ \A f \in Outputs : f[1] # "vae" => Place(f) < Place(LastJudged)
<1> DEFINE last == CHOOSE i \in Judged : \A j \in Judged : j <= i
<1>0. Tensors \in Nat \ {0} /\ Judged \subseteq 1 .. Tensors
  BY StoreAssumption
<1>1. last \in Judged /\ \A j \in Judged : j <= last
  BY StoreAssumption
<1>2. LastJudged = <<"vae", last>>
  BY DEF LastJudged
<1> HIDE DEF last
<1>3. last \in 1 .. Tensors
  BY <1>0, <1>1
<1>4. /\ LastJudged \in Required /\ LastJudged \in Outputs /\ LastJudged[1] = "vae"
      /\ Required \subseteq Outputs /\ Weights \subseteq Outputs /\ Tokenizer \in Required
  <2>1. LastJudged \in Required /\ LastJudged \in Outputs /\ LastJudged[1] = "vae"
    BY <1>0, <1>1, <1>2, <1>3 DEF Required, Outputs, Components
  <2>2. Weights \subseteq Outputs
    BY <1>0 DEF Outputs, Weights
  <2>3. Required \subseteq Outputs /\ Tokenizer \in Required
    <3>1. \A f \in Components \X Judged : f \in Components \X (0 .. Tensors)
      <4>1. \A i \in Judged : i \in 0 .. Tensors
        BY <1>0
      <4> QED BY <4>1
    <3>2. <<"transformer", 0>> \in Components \X (0 .. Tensors)
      BY <1>0 DEF Components
    <3> QED BY <3>1, <3>2 DEF Required, Outputs, Manifest
  <2> QED BY <2>1, <2>2, <2>3
<1>5. Place(LastJudged) = 2 * Tensors + 9 + last
  BY <1>2, <1>3 DEF Place, Base, Tokenizer
<1>6. \A f \in Outputs : f[1] # "vae" => Place(f) < Place(LastJudged)
  <2> SUFFICES ASSUME NEW f \in Outputs, f[1] # "vae" PROVE Place(f) < Place(LastJudged)
    OBVIOUS
  <2>1. CASE f = Tokenizer
    BY <1>0, <1>3, <1>5, <2>1 DEF Place
  <2>2. CASE f # Tokenizer
    <3>1. PICK c \in Components, k \in 0 .. Tensors : f = <<c, k>>
      BY <2>2 DEF Outputs
    <3>2. c \in {"transformer", "text"}
      BY <3>1 DEF Components
    <3>3. Place(f) = Base(c) + (IF k = 0 THEN Tensors + 1 ELSE k)
      BY <2>2, <3>1 DEF Place
    <3>4. Base(c) \in 5 .. Tensors + 6
      BY <1>0, <3>2 DEF Base
    <3> QED BY <1>0, <1>3, <1>5, <3>1, <3>3, <3>4
  <2> QED BY <2>1, <2>2
<1>7. ASSUME NEW f \in Required PROVE f = LastJudged \/ Place(f) < Place(LastJudged)
  <2>1. CASE f[1] # "vae"
    BY <1>4, <1>6, <2>1
  <2>2. CASE f[1] = "vae"
    <3>1. PICK j \in Judged : f = <<"vae", j>>
      BY <2>2 DEF Required, Manifest, Tokenizer
    <3>2. Place(f) = 2 * Tensors + 9 + j
      <4>1. j # 0
        BY <1>0
      <4> QED BY <3>1, <4>1 DEF Place, Base, Tokenizer
    <3> QED BY <1>0, <1>1, <1>2, <1>3, <1>5, <3>1, <3>2
  <2> QED BY <2>1, <2>2
<1> QED BY <1>4, <1>6, <1>7

-----------------------------------------------------------------------------
(* The invariant.                                                           *)

\* What is looked for depends on the snapshot and on force only.
LEMMA SoughtSame ==
  ASSUME UNCHANGED <<force, snapshot>>
  PROVE  Listed' = Listed /\ Sought' = Sought
  BY DEF Listed, Sought, Found, Remote

LEMMA InitIInv == Init => IInv
<1> SUFFICES ASSUME Init PROVE IInv
  OBVIOUS
<1>1. TypeOK
  <2>1. Len(Plan) \in Nat /\ MaxChecks \in Nat
    BY StoreAssumption, PlanSteps
  <2>2. at \in 1 .. Len(Plan) + 1 /\ checks \in 0 .. MaxChecks
    BY <2>1 DEF Init
  <2> QED BY <2>2 DEF Init, TypeOK, FileState
<1>2. StageSound /\ FlagsSound /\ ListFetched /\ PlanFollowed
  BY DEF Init, StageSound, FlagsSound, ListFetched, PlanFollowed, Downloads
<1>3. LastTells
  BY LastPlace DEF Init, LastTells
<1>4. DownloadsWhole /\ PreparationRepairs /\ ArtifactsRemoved
  BY DEF Init, DownloadsWhole, PreparationRepairs, ArtifactsRemoved
<1> QED BY <1>1, <1>2, <1>3, <1>4 DEF IInv

LEMMA TypeStep == IInv /\ [Next]_vars => TypeOK'
<1> SUFFICES ASSUME TypeOK, [Next]_vars PROVE TypeOK'
  BY DEF IInv
<1> USE DEF TypeOK
<1>0. Len(Plan) \in Nat /\ MaxChecks \in Nat
  BY StoreAssumption, PlanSteps
<1>1. CASE UNCHANGED vars
  BY <1>1 DEF vars, process, cache, history
<1>2. CASE Start /\ UNCHANGED snapshot
  <2>1. checks' \in 0 .. MaxChecks
    BY <1>0, <1>2 DEF Start, BeginCheck
  <2>2. forced' \in BOOLEAN
    BY <1>2, Zenon DEF Start
  <2> QED BY <1>2, <2>1, <2>2 DEF Start, cache
<1>3. CASE Request /\ UNCHANGED snapshot
  <2>1. checks' \in 0 .. MaxChecks
    BY <1>0, <1>3 DEF Request, BeginCheck
  <2> QED BY <1>3, <2>1 DEF Request, cache
<1>4. CASE (CheckWeights \/ Serve \/ Crash \/ StartCleaning) /\ UNCHANGED snapshot
  BY <1>0, <1>4 DEF CheckWeights, Serve, Crash, StartCleaning, Settle, Abort, cache, history
<1>5. CASE (FindComponents \/ FetchNothing) /\ UNCHANGED snapshot
  BY <1>0, <1>5 DEF FindComponents, FetchNothing, Taking, Advance, Settle, Abort, cache, history
<1>6. CASE (HfDownload \/ CurlStart \/ CurlSucceeds \/ Rename \/ CurlFails) /\ UNCHANGED snapshot
  <2>1. CASE HfDownload
    <3>1. at' \in 1 .. Len(Plan) + 1
      BY <1>0, <2>1 DEF HfDownload, Taking, Advance
    <3> QED BY <1>6, <2>1, <3>1 DEF HfDownload, Advance, history, FileState
  <2>2. CASE CurlStart
    BY <1>6, <2>2 DEF CurlStart, Enter, history, FileState
  <2>3. CASE CurlSucceeds
    BY <1>6, <2>3 DEF CurlSucceeds, Enter, history, FileState
  <2>4. CASE Rename
    <3>1. at' \in 1 .. Len(Plan) + 1
      BY <1>0, <2>4 DEF Rename, Taking, Advance
    <3>2. cached' \in [Downloads -> FileState] /\ partial' \in [Downloads -> FileState]
      BY <2>4 DEF Rename, FileState
    <3> QED BY <1>6, <2>4, <3>1, <3>2 DEF Rename, Advance, history
  <2>5. CASE CurlFails
    BY <1>0, <1>6, <2>5 DEF CurlFails, Enter, Settle, Abort, history, FileState
  <2> QED BY <1>6, <2>1, <2>2, <2>3, <2>4, <2>5
<1>7. CASE WriteFile /\ UNCHANGED snapshot
  <2>0. CASE NoTensor
    BY <1>0, <1>7, <2>0 DEF NoTensor, Taking, Advance, cache, history
  <2>1. CASE OpenBin
    BY <1>7, <2>1 DEF OpenBin, Enter, cache, history, FileState
  <2>2. CASE CreateFile
    BY <1>7, <2>2 DEF CreateFile, Enter, cache, history, FileState
  <2>3. CASE CopyNothing
    BY <1>0, <1>7, <2>3 DEF CopyNothing, Taking, Advance, Settle, Abort, cache, history
  <2>4. CASE CloseFile
    <3>1. at' \in 1 .. Len(Plan) + 1
      BY <1>0, <2>4 DEF CloseFile, Taking, Advance
    <3> QED BY <1>7, <2>4, <3>1 DEF CloseFile, Advance, cache, history, FileState
  <2>5. CASE LoseJson
    BY <1>0, <1>7, <2>5 DEF LoseJson, Taking, Advance, cache, history
  <2>6. CASE ExportFails
    BY <1>0, <1>7, <2>6 DEF ExportFails, Settle, Abort, cache, history
  <2> QED BY <1>7, <2>0, <2>1, <2>2, <2>3, <2>4, <2>5, <2>6 DEF WriteFile
<1>8. CASE RemoveArtifact /\ UNCHANGED snapshot
  BY <1>8 DEF RemoveArtifact, process, history, FileState
<1>9. CASE FinishPreparation /\ UNCHANGED snapshot
  BY <1>0, <1>9 DEF FinishPreparation, Settle, Abort, cache
<1> QED BY <1>1, <1>2, <1>3, <1>4, <1>5, <1>6, <1>7, <1>8, <1>9
        DEF Next, Check, FetchFile, Clean

\* What the server knows of itself while it checks.
LEMMA FlagsStep == IInv /\ [Next]_vars => FlagsSound'
<1> SUFFICES ASSUME TypeOK, FlagsSound, [Next]_vars PROVE FlagsSound'
  BY DEF IInv
<1> USE DEF FlagsSound
<1>1. CASE UNCHANGED vars
  BY <1>1 DEF vars, process, cache, history
<1>2. CASE Start \/ Request
  BY <1>2 DEF Start, Request
<1>3. CASE CheckWeights \/ Serve \/ Crash \/ StartCleaning \/ FinishPreparation
  BY <1>3 DEF CheckWeights, Serve, Crash, StartCleaning, FinishPreparation, Settle, Abort,
              history
<1>4. CASE FetchFile
  BY <1>4 DEF FetchFile, FindComponents, FetchNothing, HfDownload, CurlStart, CurlSucceeds,
              Rename, CurlFails, Taking, Advance, Enter, Settle, Abort, history
<1>5. CASE WriteFile
  BY <1>5 DEF WriteFile, NoTensor, OpenBin, CreateFile, CopyNothing, CloseFile, LoseJson, ExportFails,
              Taking, Advance, Enter, Settle, Abort, history
<1>6. CASE RemoveArtifact
  BY <1>6 DEF RemoveArtifact, process, history
<1> QED BY <1>1, <1>2, <1>3, <1>4, <1>5, <1>6 DEF Next, Check, Clean

\* Nothing partial is renamed into place.
LEMMA DownloadStep == IInv /\ [Next]_vars => DownloadsWhole'
<1> SUFFICES ASSUME TypeOK, StageSound, DownloadsWhole, [Next]_vars PROVE DownloadsWhole'
  BY DEF IInv
<1> USE DEF DownloadsWhole
<1>1. CASE UNCHANGED cached
  BY <1>1
<1>2. CASE HfDownload
  BY <1>2 DEF HfDownload, TypeOK
<1>3. CASE CurlSucceeds
  BY <1>3 DEF CurlSucceeds, TypeOK
<1>4. CASE Rename
  BY <1>4 DEF Rename, Taking, StageSound, TypeOK
<1>5. CASE RemoveArtifact
  BY <1>5 DEF RemoveArtifact, TypeOK
<1>6. UNCHANGED cached \/ HfDownload \/ CurlSucceeds \/ Rename \/ RemoveArtifact
  BY DEF Next, vars, cache, Start, Request, Check, CheckWeights, FetchFile, FindComponents,
         FetchNothing, CurlStart, CurlFails, WriteFile, NoTensor, OpenBin, CreateFile, CopyNothing,
         CloseFile, LoseJson, ExportFails, Clean, StartCleaning, FinishPreparation, Serve, Crash
<1> QED BY <1>1, <1>2, <1>3, <1>4, <1>5, <1>6

LEMMA StageStep == IInv /\ [Next]_vars => StageSound'
<1> SUFFICES ASSUME TypeOK, StageSound, [Next]_vars PROVE StageSound'
  BY DEF IInv
<1>1. CASE UNCHANGED vars
  BY <1>1, SoughtSame DEF vars, process, cache, StageSound, File
<1>2. CASE CurlSucceeds
  <2>1. File \in Downloads => partial'[File] = "whole"
    BY <1>2 DEF CurlSucceeds, TypeOK
  <2>2. File \in Downloads
    BY <1>2, PlanSteps, FetchPositions DEF CurlSucceeds, Curling, Taking, File, TypeOK
  <2> QED BY <1>2, <2>1, <2>2 DEF CurlSucceeds, Enter, StageSound, File
<1>3. CASE OpenBin /\ UNCHANGED snapshot
  <2>1. Sought' = Sought /\ File' = File
    BY <1>3, SoughtSame DEF OpenBin, Enter, File
  <2> QED BY <1>3, <2>1 DEF OpenBin, Enter, StageSound
<1>4. CASE CreateFile /\ UNCHANGED snapshot
  <2>1. File \in Outputs
    BY <1>4, Positions DEF CreateFile, Taking, File, TypeOK
  <2>2. out'[File] = "part"
    BY <1>4, <2>1 DEF CreateFile, TypeOK
  <2>3. Sought' = Sought /\ File' = File
    BY <1>4, SoughtSame DEF CreateFile, Enter, File
  <2>4. Plan[at].op # "json" => File \in Sought
    <3>1. CASE Taking("bin", "open")
      BY <3>1 DEF Taking, StageSound
    <3>2. CASE Taking("json", "start")
      BY <3>2 DEF Taking
    <3>3. CASE Taking("copy", "start") /\ "tokenizer" \in Listed
      <4>1. File = Tokenizer
        BY <3>3, Positions DEF Taking, File, TypeOK
      <4> QED BY <3>3, <4>1 DEF Sought, Weights
    <3> QED BY <1>4, <3>1, <3>2, <3>3 DEF CreateFile
  <2> QED BY <1>4, <2>2, <2>3, <2>4 DEF CreateFile, Enter, StageSound
<1>5. CASE CurlStart
  <2>1. File \in Downloads
    BY <1>5, PlanSteps, FetchPositions DEF CurlStart, Taking, File, TypeOK
  <2>2. partial'[File] = "part" /\ File' = File
    BY <1>5, <2>1 DEF CurlStart, Enter, File, TypeOK
  <2> QED BY <1>5, <2>2 DEF CurlStart, Enter, StageSound
<1>6. CASE CurlFails
  <2>1. CASE stage = "resume"
    <3>1. UNCHANGED partial /\ stage' = "curl" /\ File' = File /\ pc = "preparing"
      BY <1>6, <2>1 DEF CurlFails, Curling, Taking, Enter, File
    <3> QED BY <2>1, <3>1 DEF StageSound
  <2>2. CASE stage # "resume"
    BY <1>6, <2>2 DEF CurlFails, Settle, Abort, StageSound
  <2> QED BY <2>1, <2>2
<1>7. CASE pc' # "preparing" \/ stage' \notin {"resume", "curl", "rename", "open", "write"}
  BY <1>7 DEF StageSound
<1> QED BY <1>1, <1>2, <1>3, <1>4, <1>5, <1>6, <1>7
        DEF Next, Start, Request, Check, CheckWeights, FetchFile, FindComponents,
         FetchNothing, HfDownload, Rename, WriteFile, NoTensor, CopyNothing, CloseFile, LoseJson, ExportFails, Clean, StartCleaning, RemoveArtifact,
         FinishPreparation, Serve, Crash, Advance, Enter, Settle, Abort, process

\* The first step of the plan, and no other, fetches the list.
LEMMA ListPosition ==
  ASSUME NEW i \in 1 .. Len(Plan), Plan[i].op = "fetch", Plan[i].file = "info"
  PROVE  i = 1
<1>0. Tensors \in Nat
  BY StoreAssumption
<1>1. /\ Plan[2].op = "find" /\ Plan[3].file = "transformer" /\ Plan[4].file = "text"
      /\ Plan[5].file = "vae" /\ Plan[2 * Tensors + 8].file = "tokenizer"
      /\ Plan[2 * Tensors + 9].op = "copy"
  BY PlanSteps DEF Step
<1>2. CASE i \in 1 .. 5
  BY <1>1, <1>2
<1>3. ASSUME NEW c \in Components, NEW k \in 1 .. Tensors, Plan[i] = Step("bin", <<c, k>>)
      PROVE  FALSE
  BY <1>3 DEF Step
<1>4. ASSUME NEW c \in Components, Plan[i] = Step("json", <<c, 0>>)
      PROVE  FALSE
  BY <1>4 DEF Step
<1>5. i # 2 * Tensors + 8 /\ i # 2 * Tensors + 9
  BY <1>1
<1> QED BY <1>2, <1>3, <1>4, <1>5, PlanCases, Zenon

\* Without force, only a list that is not there is begun, and it is then there until
\* the preparation has ended and removed it.
LEMMA ListStep == IInv /\ [Next]_vars => ListFetched'
<1> SUFFICES ASSUME IInv, [Next]_vars, ~forced', partial'["info"] # "absent"
             PROVE  /\ snapshot'.listed = {} /\ cached'["info"] = "absent"
                    /\ pc' # "cleaning" /\ (pc' = "preparing" => at' = 1)
  BY DEF ListFetched
<1> USE DEF IInv, ListFetched
<1>0. TypeOK /\ Len(Plan) \in Nat /\ "info" \in Downloads
  BY PlanSteps DEF Downloads
<1>1. ~forced /\ force = FALSE /\ UNCHANGED snapshot
  <2>1. UNCHANGED forced \/ Start
    BY DEF Next, vars, history, Request, Check, CheckWeights, FetchFile, FindComponents,
         FetchNothing, HfDownload, CurlStart, CurlSucceeds, Rename, CurlFails, WriteFile,
         NoTensor, OpenBin, CreateFile, CopyNothing, CloseFile, LoseJson, ExportFails, Clean,
         StartCleaning, RemoveArtifact, FinishPreparation, Serve, Crash
  <2>2. ~forced
    <3>1. CASE UNCHANGED forced
      BY <3>1, Zenon
    <3>2. CASE Start
      BY <3>2, Zenon DEF Start
    <3> QED BY <2>1, <3>1, <3>2
  <2> QED BY <2>2 DEF FlagsSound, TypeOK, Next, vars
<1>2. ASSUME UNCHANGED cache, pc' # "cleaning" \/ pc = "cleaning" \/ StartCleaning,
             pc' = "preparing" => (pc # "preparing" /\ at' = 1) \/ UNCHANGED <<pc, at>>
      PROVE  snapshot'.listed = {} /\ cached'["info"] = "absent"
             /\ pc' # "cleaning" /\ (pc' = "preparing" => at' = 1)
  <2>1. UNCHANGED <<cached, partial>>
    BY <1>2 DEF cache
  <2>2. ~StartCleaning
    <3>1. Len(Plan) # 0
      BY PlanSteps, StoreAssumption
    <3> QED BY <1>0, <1>1, <2>1, <3>1 DEF StartCleaning
  <2> QED BY <1>1, <1>2, <2>1, <2>2
<1>3. CASE UNCHANGED vars
  BY <1>2, <1>3 DEF vars, process
<1>4. CASE Start \/ Request \/ CheckWeights \/ Serve \/ Crash \/ StartCleaning
           \/ FinishPreparation \/ ExportFails
  BY <1>2, <1>4 DEF Start, Request, CheckWeights, Serve, Crash, StartCleaning,
       FinishPreparation, ExportFails, Taking, Settle, Abort, cache
<1>5. CASE OpenBin \/ CreateFile
  BY <1>2, <1>5 DEF OpenBin, CreateFile, Enter
<1>6. ASSUME pc = "preparing", at \in 1 .. Len(Plan), UNCHANGED cache,
             Plan[at].op \in {"find", "bin", "json", "copy"}
      PROVE  FALSE
  <2>1. at = 1
    BY <1>1, <1>6 DEF cache
  <2> QED BY <1>6, <2>1, PlanSteps DEF Step
<1>7. CASE NoTensor \/ CloseFile \/ CopyNothing \/ LoseJson \/ FindComponents
  BY <1>0, <1>6, <1>7 DEF NoTensor, CloseFile, CopyNothing, LoseJson, FindComponents, Taking,
       TypeOK
<1>8. CASE FetchNothing
  <2>1. pc = "preparing" /\ at = 1 /\ UNCHANGED cache
    BY <1>1, <1>8 DEF FetchNothing, Taking, cache
  <2>2. File = "info" /\ snapshot.listed = {} /\ cached["info"] = "absent"
    BY <1>1, <1>8, <2>1, PlanSteps DEF File, Step, cache
  <2> QED BY <1>8, <2>2 DEF FetchNothing, MustFetch, InSnapshot
<1>9. CASE HfDownload \/ CurlStart \/ CurlSucceeds \/ Rename \/ CurlFails
  <2>1. /\ pc = "preparing" /\ at \in 1 .. Len(Plan) /\ Plan[at].op = "fetch"
        /\ File \in Downloads
    BY <1>0, <1>9, FetchPositions DEF HfDownload, CurlStart, CurlSucceeds, Rename, CurlFails,
         Curling, Taking, File, TypeOK
  <2>2. CASE File = "info"
    <3>1. at = 1
      BY <2>1, <2>2, ListPosition DEF File
    <3>2. CASE HfDownload
      BY <2>2, <3>2 DEF HfDownload, Components
    <3>3. CASE CurlStart
      BY <1>1, <2>2, <3>1, <3>3 DEF CurlStart, Enter, MustFetch, InSnapshot, Taking
    <3>4. CASE CurlSucceeds
      <4>1. partial["info"] # "absent"
        BY <2>2, <3>4 DEF CurlSucceeds, Curling, Taking, StageSound
      <4> QED BY <1>0, <1>1, <2>2, <3>1, <3>4, <4>1 DEF CurlSucceeds, Enter, Curling, Taking, TypeOK
    <3>5. CASE Rename
      BY <1>0, <2>2, <3>5 DEF Rename, TypeOK
    <3>6. CASE CurlFails
      BY <1>0, <1>1, <2>2, <3>1, <3>6 DEF CurlFails, Enter, Settle, Abort, Curling, Taking, TypeOK
    <3> QED BY <1>9, <3>2, <3>3, <3>4, <3>5, <3>6
  <2>3. CASE File # "info"
    <3>1. partial'["info"] = partial["info"]
      BY <1>0, <1>9, <2>3 DEF HfDownload, CurlStart, CurlSucceeds, Rename, CurlFails, TypeOK
    <3>2. at = 1
      BY <1>1, <2>1, <3>1
    <3> QED BY <2>3, <3>2, PlanSteps DEF File, Step
  <2> QED BY <2>2, <2>3
<1>10. CASE RemoveArtifact
  <2>1. partial["info"] # "absent"
    BY <1>0, <1>10 DEF RemoveArtifact, TypeOK
  <2> QED BY <1>1, <1>10, <2>1 DEF RemoveArtifact
<1> QED BY <1>3, <1>4, <1>5, <1>7, <1>8, <1>9, <1>10 DEF Next, Check, FetchFile, WriteFile, Clean

\* A preparation leaves its files behind it, whole, and its end leaves nothing else.
LEMMA PlanStep == IInv /\ [Next]_vars => PlanFollowed'
<1> SUFFICES ASSUME IInv, [Next]_vars PROVE PlanFollowed'
  OBVIOUS
<1> USE DEF IInv, PlanFollowed
<1>0. TypeOK /\ Len(Plan) \in Nat
  BY PlanSteps
<1>1. CASE UNCHANGED vars
  BY <1>1, SoughtSame DEF vars, process, cache, history, Written
<1>2. CASE pc' \notin {"preparing", "cleaning"}
  BY <1>2
<1>3. CASE CheckWeights
  <2>1. \A f \in Outputs : ~(Place(f) < 1)
    BY <1>0, Places
  <2> QED BY <1>3, <2>1 DEF CheckWeights, Settle, Abort
<1>4. CASE StartCleaning /\ UNCHANGED snapshot
  <2>1. \A f \in Outputs : Place(f) < at
    BY <1>0, <1>4, Places DEF StartCleaning
  <2> QED BY <1>4, <2>1, SoughtSame DEF StartCleaning, Settle, Written
<1>5. CASE RemoveArtifact /\ UNCHANGED snapshot
  BY <1>5, SoughtSame DEF RemoveArtifact, process, Written
<1>6. ASSUME pc = "preparing", pc' = "preparing", UNCHANGED <<snapshot, force>>,
             \/ at' = at /\ \A f \in Outputs : Place(f) # at => out'[f] = out[f]
             \/ /\ at' = at + 1 /\ UNCHANGED out
                /\ Plan[at].op \in {"bin", "json", "copy"} => Written(File)
             \/ /\ at' = at + 1 /\ \A f \in Outputs : Place(f) # at => out'[f] = out[f]
                /\ out'[File] = "whole",
             at \in 1 .. Len(Plan)
      PROVE  PlanFollowed'
  <2> SUFFICES ASSUME NEW f \in Outputs, Place(f) < at' PROVE Written(f)'
    BY <1>6
  <2>0. Place(f) \in Nat /\ at \in Nat
    BY <1>0, <1>6, Places
  <2>1. CASE Place(f) < at
    BY <1>6, <2>0, <2>1, SoughtSame DEF Written
  <2>2. CASE Place(f) = at
    <3>1. File = f /\ Plan[at].op \in {"bin", "json", "copy"}
      BY <2>2, Places DEF File
    <3> QED BY <1>6, <2>0, <2>2, <3>1, SoughtSame DEF Written
  <2>3. Place(f) <= at
    BY <1>6, <2>0
  <2> QED BY <2>0, <2>1, <2>2, <2>3
<1>7. CASE FetchFile /\ UNCHANGED snapshot /\ pc' = "preparing"
  <2>1. /\ pc = "preparing" /\ at \in 1 .. Len(Plan) /\ UNCHANGED <<out, force>>
        /\ at' = at \/ (at' = at + 1 /\ Plan[at].op \in {"fetch", "find"})
    BY <1>0, <1>7 DEF FetchFile, FindComponents, FetchNothing, HfDownload, CurlStart,
         CurlSucceeds, Rename, CurlFails, Curling, Taking, Advance, Enter, Settle, Abort, TypeOK
  <2> QED BY <1>6, <1>7, <2>1
<1>8. CASE (OpenBin \/ CreateFile) /\ UNCHANGED snapshot
  <2>1. /\ pc = "preparing" /\ pc' = "preparing" /\ at \in 1 .. Len(Plan)
        /\ at' = at /\ UNCHANGED force /\ Plan[at].op \in {"bin", "json", "copy"}
    BY <1>0, <1>8 DEF OpenBin, CreateFile, Taking, Enter, TypeOK
  <2>2. Place(File) = at
    BY <2>1, Positions DEF File
  <2>3. \A f \in Outputs : Place(f) # at => out'[f] = out[f]
    BY <1>0, <1>8, <2>2 DEF OpenBin, CreateFile, TypeOK
  <2> QED BY <1>6, <1>8, <2>1, <2>3
<1>9. CASE CloseFile /\ UNCHANGED snapshot
  <2>1. /\ pc = "preparing" /\ pc' = "preparing" /\ at \in 1 .. Len(Plan)
        /\ at' = at + 1 /\ UNCHANGED force /\ Plan[at].op \in {"bin", "json", "copy"}
    BY <1>0, <1>9 DEF CloseFile, Taking, Advance, TypeOK
  <2>2. Place(File) = at /\ File \in Outputs
    BY <2>1, Positions DEF File
  <2>3. out'[File] = "whole" /\ \A f \in Outputs : Place(f) # at => out'[f] = out[f]
    BY <1>0, <1>9, <2>2 DEF CloseFile, TypeOK
  <2> QED BY <1>6, <1>9, <2>1, <2>3
<1>10. CASE (NoTensor \/ CopyNothing \/ LoseJson) /\ UNCHANGED snapshot /\ pc' = "preparing"
  <2>1. /\ pc = "preparing" /\ at \in 1 .. Len(Plan) /\ UNCHANGED <<out, force>>
        /\ at' = at + 1 /\ Plan[at].op \in {"bin", "json", "copy"}
    BY <1>0, <1>10 DEF NoTensor, CopyNothing, LoseJson, Taking, Advance, Settle, Abort, TypeOK
  <2>2. CASE CopyNothing
    <3>1. File = Tokenizer
      BY <2>1, <2>2, Positions DEF File, CopyNothing, Taking
    <3>2. Written(File)
      BY <1>10, <2>2, <3>1 DEF CopyNothing, Settle, Abort, Written, Sought
    <3> QED BY <1>6, <1>10, <2>1, <3>2
  <2>3. CASE LoseJson
    <3>1. File \notin Weights
      BY <2>1, <2>3, Positions DEF File, LoseJson, Taking
    <3>2. out[File] # "absent"
      BY <2>1, <2>3 DEF LoseJson, Taking, StageSound
    <3> QED BY <1>6, <1>10, <2>1, <3>1, <3>2 DEF Written, Sought
  <2>4. CASE NoTensor
    <3>1. File \notin Sought /\ File \in Components \X (1 .. Tensors)
      BY <2>1, <2>4, Positions DEF File, NoTensor, Taking
    <3> QED BY <1>6, <1>10, <2>1, <3>1 DEF Written
  <2> QED BY <1>10, <2>2, <2>3, <2>4
<1>11. CASE Start \/ Request \/ Serve \/ Crash \/ FinishPreparation \/ ExportFails
  BY <1>2, <1>11 DEF Start, Request, Serve, Crash, FinishPreparation, ExportFails, Settle, Abort
<1>12. CASE FetchFile \/ CopyNothing
  <2>1. pc' \in {"preparing", "down", "serving"}
    BY <1>12 DEF FetchFile, FindComponents, FetchNothing, HfDownload, CurlStart, CopyNothing,
         CurlSucceeds, Rename, CurlFails, Curling, Taking, Advance, Enter, Settle, Abort
  <2>2. UNCHANGED snapshot
    BY DEF Next, vars
  <2> QED BY <1>2, <1>7, <1>10, <1>12, <2>1, <2>2
<1>13. CASE NoTensor \/ LoseJson
  <2>1. pc' = "preparing" /\ UNCHANGED snapshot
    BY <1>13 DEF NoTensor, LoseJson, Taking, Advance, Next, vars
  <2> QED BY <1>10, <1>13, <2>1
<1> QED BY <1>1, <1>3, <1>4, <1>5, <1>8, <1>9, <1>11, <1>12, <1>13
        DEF Next, Check, WriteFile, Clean

\* A preparation that ended left the weights whole, and nothing of its downloads.
LEMMA RepairStep == IInv /\ [Next]_vars => PreparationRepairs' /\ ArtifactsRemoved'
<1> SUFFICES ASSUME IInv, [Next]_vars PROVE PreparationRepairs' /\ ArtifactsRemoved'
  OBVIOUS
<1> USE DEF IInv, PreparationRepairs, ArtifactsRemoved
<1>1. CASE UNCHANGED vars
  BY <1>1, SoughtSame DEF vars, process, cache, history
<1>2. CASE pc' # "ready" \/ ~prepared'
  BY <1>2
<1>3. CASE FinishPreparation /\ UNCHANGED snapshot
  <2>1. \A f \in Sought : out[f] = "whole"
    BY <1>3, LastPlace DEF FinishPreparation, PlanFollowed, Written, Sought
  <2>2. \A f \in Downloads : cached[f] = "absent"
    <3>1. ASSUME NEW f \in Downloads, cached[f] # "absent" PROVE FALSE
      <4>1. <<"cached", f>> \in Artifacts
        BY <3>1 DEF Artifacts
      <4> QED BY <1>3, <4>1 DEF FinishPreparation
    <3> QED BY <3>1
  <2>3. \A f \in Downloads : partial[f] = "absent" \/ (f = "info" /\ forced)
    <3>1. ASSUME NEW f \in Files, partial[f] # "absent" PROVE FALSE
      <4>1. <<"partial", f>> \in Artifacts
        BY <3>1 DEF Artifacts
      <4> QED BY <1>3, <4>1 DEF FinishPreparation
    <3>2. forced \/ partial["info"] = "absent"
      BY <1>3 DEF FinishPreparation, ListFetched
    <3> QED BY <3>1, <3>2 DEF Downloads
  <2>4. UNCHANGED <<cached, partial, out, force, snapshot, forced>>
    BY <1>3 DEF FinishPreparation, Settle, Abort, cache
  <2> QED BY <2>1, <2>2, <2>3, <2>4, SoughtSame
<1>4. CASE CheckWeights
  BY <1>2, <1>4 DEF CheckWeights, FlagsSound, history
<1>5. pc' # "ready" \/ UNCHANGED vars \/ (FinishPreparation /\ UNCHANGED snapshot) \/ CheckWeights
  BY DEF Next, Start, Request, Check, FetchFile, FindComponents, FetchNothing, HfDownload,
         CurlStart, CurlSucceeds, Rename, CurlFails, WriteFile, NoTensor, OpenBin, CreateFile,
         CopyNothing, CloseFile, LoseJson, ExportFails, Clean, StartCleaning, RemoveArtifact,
         Serve, Crash, Taking, Curling, Advance, Enter, Settle, Abort, process
<1> QED BY <1>1, <1>2, <1>3, <1>4, <1>5

\* What is behind the plan and looked at by readiness is there.
LEMMA RequiredThere ==
  ASSUME NEW f \in Required, ReadyFindable, Written(f)
  PROVE  out[f] # "absent"
<1>1. CASE f \in Weights
  BY <1>1 DEF ReadyFindable, Written
<1>2. CASE f \notin Weights
  <2>1. f = Manifest("transformer")
    <3>1. \A g \in Components \X Judged : g \in Components \X (1 .. Tensors)
      BY StoreAssumption
    <3> QED BY <1>2, <3>1 DEF Required, Weights
  <2>2. f \notin Components \X (1 .. Tensors)
    BY <2>1, StoreAssumption DEF Manifest
  <2> QED BY <2>2 DEF Written
<1> QED BY <1>1, <1>2

\* Where readiness is reached without force, all that it looks at can be found.
LEMMA FindableWhenReady ==
  ASSUME LastTells, ~forced, Ready
  PROVE  ReadyFindable /\ out[LastJudged] # "absent"
<1>1. \A f \in Required : out[f] # "absent"
  BY DEF Ready
<1>2. \A f \in Weights \ Sought : out[f] = "absent"
  BY DEF LastTells
<1> QED BY <1>1, <1>2, LastPlace DEF ReadyFindable

\* As long as nobody forces a preparation, files are removed or written only behind
\* the last judged file, or while that file is not there yet.
LEMMA WriteStep ==
  ASSUME IInv, ~forced, UNCHANGED <<force, forced, snapshot>>,
         OpenBin \/ CreateFile \/ CloseFile
  PROVE  LastTells'
<1> DEFINE V == Place(LastJudged)
<1> USE DEF IInv
<1>0. TypeOK /\ Len(Plan) \in Nat
  BY PlanSteps
<1>1. /\ pc = "preparing" /\ pc' = "preparing" /\ at \in 1 .. Len(Plan)
      /\ Plan[at].op \in {"bin", "json", "copy"}
  BY <1>0 DEF OpenBin, CreateFile, CloseFile, Taking, Enter, Advance, TypeOK
<1>2. File \in Outputs /\ Place(File) = at
  BY <1>1, Positions DEF File
<1>3. \A f \in Outputs : f # File => out'[f] = out[f] /\ Place(f) # at
  <2>1. \A f \in Outputs : Place(f) = at => f = File
    BY Places DEF File
  <2>2. \A f \in Outputs : f # File => out'[f] = out[f]
    BY <1>0, <1>2 DEF OpenBin, CreateFile, CloseFile, TypeOK
  <2> QED BY <2>1, <2>2
<1>4. /\ at' = at \/ (at' = at + 1 /\ stage' = "start")
      /\ OpenBin => at' = at /\ stage # "write" /\ out'[File] = "absent"
      /\ CreateFile => at' = at /\ stage # "write" /\ stage' = "write" /\ out'[File] = "part"
      /\ CloseFile => at' = at + 1 /\ stage = "write" /\ out'[File] = "whole"
  <2>1. OpenBin => at' = at /\ stage # "write" /\ out'[File] = "absent"
    BY <1>0, <1>2 DEF OpenBin, Taking, Enter, TypeOK
  <2>2. CreateFile => /\ at' = at /\ stage # "write" /\ stage' = "write"
                      /\ out'[File] = "part"
    BY <1>0, <1>2 DEF CreateFile, Taking, Enter, TypeOK
  <2>3. CloseFile => /\ at' = at + 1 /\ stage = "write" /\ stage' = "start"
                     /\ out'[File] = "whole"
    BY <1>0, <1>2 DEF CloseFile, Taking, Advance, TypeOK
  <2> QED BY <2>1, <2>2, <2>3
<1>5. LastJudged \in Outputs /\ V \in Nat /\ at \in Nat
      /\ \A f \in Outputs : Place(f) \in Nat
  BY <1>0, <1>1, LastPlace, Places
<1>6. Sought' = Sought
  BY SoughtSame
<1>7. \A f \in Weights \ Sought : out'[f] = "absent"
  <2>1. File \in Weights => File \in Sought
    <3>1. CASE Plan[at].op = "json"
      BY <1>1, <3>1, Positions DEF File
    <3>2. CASE Plan[at].op # "json" /\ stage \in {"open", "write"}
      BY <1>1, <3>2 DEF StageSound
    <3>3. CASE OpenBin
      BY <3>3 DEF OpenBin
    <3>4. CASE Taking("copy", "start") /\ "tokenizer" \in Listed
      <4>1. File = Tokenizer
        BY <1>1, <3>4, Positions DEF Taking, File
      <4> QED BY <3>4, <4>1 DEF Sought
    <3> QED BY <1>1, <3>1, <3>2, <3>3, <3>4 DEF CreateFile, CloseFile, Taking
  <2>2. \A f \in Weights \ Sought : f \in Outputs /\ f # File /\ out[f] = "absent"
    BY <2>1, LastPlace DEF LastTells
  <2> QED BY <1>3, <2>2
<1>8. SUFFICES ASSUME ReadyFindable
      PROVE  /\ out'[LastJudged] # "absent" =>
                  Ready' /\ \A f \in Sought : f[1] # "vae" => out'[f] = "whole"
             /\ out'[LastJudged] = "absent" =>
                  \A f \in Outputs : Place(f) >= V => out'[f] = "absent"
             /\ \A f \in Outputs :
                  Place(f) >= V /\ (Place(f) > at' \/ (Place(f) = at' /\ stage' # "write")) =>
                    out'[f] = "absent"
  BY <1>1, <1>6, <1>7 DEF LastTells, ReadyFindable
<1> HIDE DEF V
<1>9. /\ out[LastJudged] # "absent" =>
           Ready /\ \A f \in Sought : f[1] # "vae" => out[f] = "whole"
      /\ out[LastJudged] = "absent" =>
           \A f \in Outputs : Place(f) >= V => out[f] = "absent"
      /\ \A f \in Outputs :
           Place(f) >= V /\ (Place(f) > at \/ (Place(f) = at /\ stage # "write")) =>
             out[f] = "absent"
  BY <1>1, <1>8 DEF LastTells, V
<1>10. CASE at < V
  <2>1. out[LastJudged] = "absent"
    BY <1>5, <1>9, <1>10 DEF V
  <2>2. \A f \in Outputs : Place(f) >= V => out'[f] = "absent"
    BY <1>2, <1>3, <1>5, <1>9, <1>10, <2>1
  <2>3. out'[LastJudged] = "absent"
    BY <1>5, <2>2 DEF V
  <2> QED BY <2>2, <2>3
<1>11. CASE at = V
  <2>1. File = LastJudged
    BY <1>3, <1>5, <1>11 DEF V
  <2>2. CASE OpenBin
    <3>1. out[LastJudged] = "absent" /\ out'[LastJudged] = "absent"
      BY <1>4, <1>5, <1>9, <1>11, <2>1, <2>2 DEF V
    <3>2. \A f \in Outputs : Place(f) >= V => out'[f] = "absent"
      BY <1>3, <1>9, <2>1, <3>1
    <3> QED BY <3>1, <3>2
  <2>3. CASE CreateFile
    <3>1. \A f \in Outputs : Place(f) < V => Written(f) /\ out'[f] = out[f]
      BY <1>1, <1>3, <1>5, <1>11, <2>1 DEF PlanFollowed, V
    <3>2. Ready'
      <4> SUFFICES ASSUME NEW f \in Required PROVE out'[f] # "absent"
        BY DEF Ready
      <4>1. CASE f = LastJudged
        BY <1>4, <2>1, <2>3, <4>1
      <4>2. CASE f # LastJudged
        <5>1. f \in Outputs /\ Place(f) < V
          BY <4>2, LastPlace DEF V
        <5> QED BY <1>8, <3>1, <5>1, RequiredThere
      <4> QED BY <4>1, <4>2
    <3>3. ASSUME NEW f \in Sought, f[1] # "vae" PROVE out'[f] = "whole"
      <4>1. f \in Outputs /\ Place(f) < V
        BY <3>3, LastPlace DEF Sought, V
      <4> QED BY <3>1, <4>1 DEF Written
    <3>4. ASSUME NEW f \in Outputs, Place(f) >= V,
                 Place(f) > at' \/ (Place(f) = at' /\ stage' # "write")
          PROVE  out'[f] = "absent"
      <4>1. Place(f) > at
        BY <1>4, <1>5, <2>3, <3>4
      <4>2. out[f] = "absent"
        BY <1>9, <3>4, <4>1
      <4>3. f # File
        BY <1>2, <1>5, <4>1
      <4> QED BY <1>3, <4>2, <4>3
    <3>5. out'[LastJudged] # "absent"
      BY <1>4, <2>1, <2>3
    <3> QED BY <3>2, <3>3, <3>4, <3>5
  <2>4. CASE CloseFile
    <3>1. out[LastJudged] # "absent" /\ out'[LastJudged] = "whole"
      BY <1>1, <1>4, <2>1, <2>4 DEF StageSound
    <3>2. Ready /\ \A f \in Sought : f[1] # "vae" => out[f] = "whole"
      BY <1>9, <3>1
    <3>3. Ready' /\ \A f \in Sought : f[1] # "vae" => out'[f] = "whole"
      BY <1>3, <2>1, <3>1, <3>2, LastPlace DEF Ready, Sought
    <3>4. ASSUME NEW f \in Outputs, Place(f) >= V,
                 Place(f) > at' \/ (Place(f) = at' /\ stage' # "write")
          PROVE  out'[f] = "absent"
      <4>1. Place(f) > at
        BY <1>4, <1>5, <2>4, <3>4
      <4>2. out[f] = "absent"
        BY <1>9, <3>4, <4>1
      <4>3. f # File
        BY <1>2, <1>5, <4>1
      <4> QED BY <1>3, <4>2, <4>3
    <3> QED BY <3>1, <3>3, <3>4
  <2> QED BY <2>2, <2>3, <2>4
<1>12. CASE at > V
  <2>1. out[LastJudged] # "absent"
    <3>1. Written(LastJudged)
      BY <1>1, <1>5, <1>12 DEF PlanFollowed, V
    <3> QED BY <1>8, <3>1, LastPlace, RequiredThere
  <2>2. File \notin Required /\ File[1] = "vae"
    BY <1>2, <1>5, <1>12, LastPlace DEF V
  <2>3. Ready /\ \A f \in Sought : f[1] # "vae" => out[f] = "whole"
    BY <1>9, <2>1
  <2>4. Ready' /\ \A f \in Sought : f[1] # "vae" => out'[f] = "whole"
    BY <1>3, <2>2, <2>3, LastPlace DEF Ready, Sought
  <2>5. out'[LastJudged] # "absent"
    BY <1>3, <1>5, <2>1, <2>2, LastPlace
  <2>6. ASSUME NEW f \in Outputs, Place(f) >= V,
               Place(f) > at' \/ (Place(f) = at' /\ stage' # "write")
        PROVE  out'[f] = "absent"
    <3>1. CASE f = File
      <4>1. OpenBin
        BY <1>2, <1>4, <1>5, <2>6, <3>1
      <4> QED BY <1>4, <3>1, <4>1
    <3>2. CASE f # File
      <4>1. Place(f) > at
        BY <1>3, <1>4, <1>5, <2>6, <3>2
      <4>2. out[f] = "absent"
        BY <1>9, <2>6, <4>1
      <4> QED BY <1>3, <3>2, <4>2
    <3> QED BY <3>1, <3>2
  <2> QED BY <2>4, <2>5, <2>6
<1> QED BY <1>5, <1>10, <1>11, <1>12

LEMMA LastStep == IInv /\ [Next]_vars => LastTells'
<1> SUFFICES ASSUME IInv, [Next]_vars PROVE LastTells'
  OBVIOUS
<1> USE DEF IInv
<1>0. TypeOK /\ Len(Plan) \in Nat /\ FlagsSound'
  BY PlanSteps, FlagsStep
<1>1. SUFFICES ASSUME ~forced' PROVE LastTells'
  BY DEF LastTells
<1>2. ~forced /\ force = FALSE /\ force' = FALSE /\ UNCHANGED snapshot
  <2>1. UNCHANGED forced \/ Start
    BY DEF Next, vars, history, Request, Check, CheckWeights, FetchFile, FindComponents,
         FetchNothing, HfDownload, CurlStart, CurlSucceeds, Rename, CurlFails, WriteFile, NoTensor,
         OpenBin, CreateFile, CopyNothing, CloseFile, LoseJson, ExportFails, Clean,
         StartCleaning, RemoveArtifact, FinishPreparation, Serve, Crash
  <2>2. ~forced
    <3>1. CASE UNCHANGED forced
      BY <1>1, <3>1, Zenon
    <3>2. CASE Start
      BY <1>1, <3>2, Zenon DEF Start
    <3> QED BY <2>1, <3>1, <3>2
  <2> QED BY <1>0, <1>1, <2>2 DEF FlagsSound, TypeOK, Next, vars
<1>3. Sought' = Sought /\ ReadyFindable' = ReadyFindable
  BY <1>2, SoughtSame DEF ReadyFindable
<1>4. ASSUME UNCHANGED out,
             pc' = "ready" => pc = "ready" \/ Ready,
             pc' = "preparing" =>
               \/ ~Ready
               \/ pc = "preparing" /\ at' = at /\ (stage # "write" \/ UNCHANGED stage)
               \/ pc = "preparing" /\ at' = at + 1
      PROVE  LastTells'
  <2>1. Ready' = Ready
    BY <1>4 DEF Ready
  <2>2. ASSUME ReadyFindable, pc' = "preparing", NEW f \in Outputs, Place(f) >= Place(LastJudged),
               Place(f) > at' \/ (Place(f) = at' /\ stage' # "write")
        PROVE  out[f] = "absent"
    <3>1. CASE ~Ready
      BY <1>2, <2>2, <3>1 DEF LastTells
    <3>2. CASE pc = "preparing" /\ at' = at /\ (stage # "write" \/ UNCHANGED stage)
      BY <1>2, <2>2, <3>2 DEF LastTells
    <3>3. CASE pc = "preparing" /\ at' = at + 1
      <4>1. Place(f) > at
        BY <1>0, <2>2, <3>3, Places DEF TypeOK
      <4> QED BY <1>2, <2>2, <3>3, <4>1 DEF LastTells
    <3> QED BY <1>4, <2>2, <3>1, <3>2, <3>3
  <2> QED BY <1>2, <1>3, <1>4, <2>1, <2>2 DEF LastTells
<1>5. CASE OpenBin \/ CreateFile \/ CloseFile
  <2>1. UNCHANGED <<force, forced>>
    BY <1>5 DEF OpenBin, CreateFile, CloseFile, Enter, Advance, history
  <2> QED BY <1>2, <1>5, <2>1, WriteStep
<1>6. CASE UNCHANGED vars
  BY <1>4, <1>6 DEF vars, process
<1>7. CASE CheckWeights
  BY <1>2, <1>4, <1>7 DEF CheckWeights, Settle, Abort
<1>8. CASE Start \/ Request \/ Serve \/ Crash \/ StartCleaning \/ RemoveArtifact
           \/ FinishPreparation \/ ExportFails
  BY <1>4, <1>8 DEF Start, Request, Serve, Crash, StartCleaning, RemoveArtifact,
       FinishPreparation, ExportFails, Settle, Abort, process
<1>9. CASE FetchFile
  <2>1. pc = "preparing" /\ UNCHANGED out /\ stage # "write"
    BY <1>9 DEF FetchFile, FindComponents, FetchNothing, HfDownload, CurlStart, CurlSucceeds,
         Rename, CurlFails, Curling, Taking
  <2>2. pc' \in {"down", "serving"} \/ (pc' = "preparing" /\ (at' = at \/ at' = at + 1))
    BY <1>9 DEF FetchFile, FindComponents, FetchNothing, HfDownload, CurlStart, CurlSucceeds,
         Rename, CurlFails, Curling, Taking, Advance, Enter, Settle, Abort
  <2> QED BY <1>4, <2>1, <2>2
<1>10. CASE NoTensor \/ CopyNothing \/ LoseJson
  BY <1>4, <1>10 DEF NoTensor, CopyNothing, LoseJson, Taking, Advance, Settle, Abort
<1> QED BY <1>5, <1>6, <1>7, <1>8, <1>9, <1>10 DEF Next, Check, WriteFile, Clean

LEMMA NextIInv == IInv /\ [Next]_vars => IInv'
  BY TypeStep, StageStep, FlagsStep, ListStep, PlanStep, LastStep, DownloadStep, RepairStep
     DEF IInv

-----------------------------------------------------------------------------
(* What the server promises of its weights.                                 *)

\* The inductive invariant holds, for any number of tensors, checks and crashes.
THEOREM Invariance == Spec => []IInv
<1> QED BY InitIInv, NextIInv, PTL DEF Spec

\* Files, checks and the place in the plan stay what they are declared to be, whatever
\* is killed and begun again.
THEOREM TypeCorrect == Spec => []TypeOK
<1>1. IInv => TypeOK
  BY DEF IInv
<1> QED BY <1>1, Invariance, PTL

\* A preparation that runs to its end leaves every weight file whole that its list of
\* files led it to, whatever earlier ones left half done.
THEOREM Repairs == Spec => []PreparationRepairs
<1>1. IInv => PreparationRepairs
  BY DEF IInv
<1> QED BY <1>1, Invariance, PTL

\* ... and it leaves nothing of its downloads behind, but for the .partial file of
\* the list once a preparation was forced.
THEOREM NoArtifacts == Spec => []ArtifactsRemoved
<1>1. IInv => ArtifactsRemoved
  BY DEF IInv
<1> QED BY <1>1, Invariance, PTL

\* A download is never used before all of it has arrived.
THEOREM OnlyWholeDownloads == Spec => []DownloadsWhole
<1>1. IInv => DownloadsWhole
  BY DEF IInv
<1> QED BY <1>1, Invariance, PTL

\* Without force, the weights that the list of files leads to are whole when they are
\* judged ready but for those of the VAE.
THEOREM ReadyWhole == Spec => []ReadyButForVae
<1>1. IInv => ReadyButForVae
  <2> SUFFICES ASSUME IInv, pc = "ready", ~forced
               PROVE  \A f \in Sought : f[1] # "vae" => out[f] = "whole"
    BY DEF ReadyButForVae
  <2>1. LastTells /\ Ready
    BY DEF IInv, LastTells
  <2>2. ReadyFindable /\ out[LastJudged] # "absent"
    BY <2>1, FindableWhenReady
  <2> QED BY <2>1, <2>2 DEF LastTells
<1> QED BY <1>1, Invariance, PTL

\* Without force, once the files exist that readiness looks at, no file that is whole is
\* opened or removed, whatever is checked, fails or crashes.
THEOREM WholeKept == Spec => WholeStaysWhole
<1>1. IInv /\ [Next]_vars =>
        (Ready /\ ~forced' => \A f \in Outputs : out[f] = "whole" => out'[f] = "whole")
  <2> SUFFICES ASSUME IInv, [Next]_vars, Ready, ~forced'
               PROVE  \A f \in Outputs : out[f] = "whole" => out'[f] = "whole"
    OBVIOUS
  <2>1. CASE UNCHANGED out
    BY <2>1
  <2>2. CASE CloseFile
    BY <2>2 DEF CloseFile, IInv, TypeOK
  <2>3. CASE OpenBin \/ CreateFile
    <3>1. ~forced
      BY <2>3, Zenon DEF OpenBin, CreateFile, history
    <3>2. /\ pc = "preparing" /\ at \in 1 .. Len(Plan) /\ stage # "write"
          /\ Plan[at].op \in {"bin", "json", "copy"}
      BY <2>3, PlanSteps DEF OpenBin, CreateFile, Taking, IInv, TypeOK
    <3>3. File \in Outputs /\ Place(File) = at
      BY <3>2, Positions DEF File
    <3>4. LastTells /\ ReadyFindable /\ out[LastJudged] # "absent"
      BY <3>1, FindableWhenReady DEF IInv
    <3>5. \A f \in Outputs :
            Place(f) >= Place(LastJudged) /\ (Place(f) > at \/ Place(f) = at) =>
              out[f] = "absent"
      BY <3>1, <3>2, <3>4 DEF LastTells
    <3>6. Place(LastJudged) \in Nat /\ at \in Nat /\ LastJudged \in Outputs
      BY <3>2, LastPlace, Places, PlanSteps
    <3>7. Place(LastJudged) < at
      BY <3>4, <3>5, <3>6
    <3>8. out[File] = "absent"
      BY <3>3, <3>5, <3>6, <3>7
    <3>9. \A f \in Outputs : f # File => out'[f] = out[f]
      BY <2>3 DEF OpenBin, CreateFile, IInv, TypeOK
    <3> QED BY <3>8, <3>9
  <2>4. UNCHANGED out \/ CloseFile \/ OpenBin \/ CreateFile
    BY DEF Next, vars, Start, Request, Check, CheckWeights, FetchFile, FindComponents,
         FetchNothing, HfDownload, CurlStart, CurlSucceeds, Rename, CurlFails, WriteFile,
         NoTensor, CopyNothing, LoseJson, ExportFails, Clean, StartCleaning, RemoveArtifact,
         FinishPreparation, Serve, Crash
  <2> QED BY <2>1, <2>2, <2>3, <2>4
<1> QED BY <1>1, Invariance, PTL DEF Spec, WholeStaysWhole

=============================================================================
