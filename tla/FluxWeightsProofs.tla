-------------------------- MODULE FluxWeightsProofs --------------------------
(***************************************************************************)
(* Proofs about the FLUX.2-klein weights, for every repository, number of  *)
(* files, configuration, failure and crash.                                *)
(***************************************************************************)
EXTENDS FluxWeights, SequenceTheorems, TLAPS

-----------------------------------------------------------------------------
(* What the sources have to do is sound: nothing is copied to the place of  *)
(* a file that is otherwise written and renamed.                            *)

\* Two lists make one.
LEMMA Joined ==
  ASSUME NEW S, NEW s \in Seq(S), NEW t \in Seq(S)
  PROVE  s \o t \in Seq(S)
OBVIOUS

\* A list that is given by its places.
LEMMA SeqOf ==
  ASSUME NEW S, NEW n \in Nat, NEW s,
         s = [i \in 1 .. n |-> s[i]], \A i \in 1 .. n : s[i] \in S
  PROVE  s \in Seq(S)
OBVIOUS

LEMMA FetchSound ==
  ASSUME NEW d \in Downloads
  PROVE  Fetch(d) \in Seq(SoundStep)
<1>1. [op |-> "fetch", from |-> d] \in SoundStep
  BY DEF SoundStep
<1>. QED
  BY <1>1 DEF Fetch

LEMMA FilesSound ==
  ASSUME NEW g \in Groups
  PROVE  FilesOf(g) \in Seq(Outputs) /\ Len(FilesOf(g)) = Size[g]
<1>1. Size[g] \in Nat \ {0}
  BY FluxAssumption
<1>2. \A i \in 1 .. Size[g] : <<g, i>> \in Outputs
  BY DEF Outputs
<1>. QED
  BY <1>1, <1>2 DEF FilesOf

LEMMA BinsSound ==
  ASSUME NEW files \in Seq(Outputs)
  PROVE  Bins(files) \in Seq(SoundStep)
<1>1. \A i \in DOMAIN files : Bin(files[i]) \in SoundStep
  BY DEF Bin, SoundStep
<1>. QED
  BY <1>1 DEF Bins

LEMMA ContentsSound ==
  ASSUME NEW pack \in Packs
  PROVE  Contents(pack) \in Seq(Outputs)
<1>1. CASE pack = "denoising"
  <2>. DEFINE files == FilesOf("transformer")
              first == SubSeq(files, 1, 1)
              rest == SubSeq(files, 2, Size["transformer"])
  <2>1. files \in Seq(Outputs) /\ Len(files) = Size["transformer"]
    BY FilesSound DEF Groups
  <2>2. FilesOf("final") \in Seq(Outputs)
    BY FilesSound DEF Groups
  <2>3. Size["transformer"] \in Nat \ {0}
    BY FluxAssumption DEF Groups
  <2>. HIDE DEF files
  <2>4. first \in Seq(Outputs)
    BY <2>1, <2>3, SubSeqProperties
  <2>5. rest \in Seq(Outputs)
    BY <2>1, <2>3, SubSeqProperties
  <2>. HIDE DEF first, rest
  <2>6. first \o FilesOf("final") \in Seq(Outputs)
    BY <2>2, <2>4, Joined, Zenon
  <2>7. (first \o FilesOf("final")) \o rest \in Seq(Outputs)
    BY <2>5, <2>6, Joined, Zenon
  <2>. QED
    BY <1>1, <2>7, Zenon DEF Contents, first, rest, files
<1>2. CASE pack # "denoising"
  <2>1. pack \in Groups
    BY <1>2 DEF Packs, Groups
  <2>. QED
    BY <1>2, <2>1, FilesSound, Zenon DEF Contents
<1>. QED
  BY <1>1, <1>2

\* The files of the tokenizer, and those of a group the repository has one by one.
LEMMA CopySound ==
  ASSUME repo \in RepoType,
         NEW g \in Groups, g \in repo.legacy \cup {"tokenizer"},
         NEW i \in 1 .. Size[g], NEW d \in Downloads
  PROVE  /\ Copy(<<g, i>>, d) \in SoundStep
         /\ g # "tokenizer" => Mirror(<<g, i>>) \in SoundStep
         /\ g # "tokenizer" => LegacyFile(<<g, i>>) \in Downloads
<1>1. <<g, i>> \in Outputs
  BY DEF Outputs
<1>2. <<g, i>> \in CopiedFiles
  BY <1>1 DEF CopiedFiles, Renamed
<1>3. g # "tokenizer" => LegacyFile(<<g, i>>) \in Downloads
  BY <1>1 DEF Downloads
<1>4. [op |-> "copy", file |-> <<g, i>>, from |-> d] \in SoundStep
  BY <1>2 DEF SoundStep
<1>5. ASSUME g # "tokenizer", NEW e \in Downloads
      PROVE  [op |-> "mirror", file |-> <<g, i>>, from |-> e] \in SoundStep
  BY <1>2, <1>5 DEF SoundStep
<1>. QED
  BY <1>3, <1>4, <1>5 DEF Copy, Mirror

LEMMA MirrorGroupSound ==
  ASSUME repo \in RepoType, NEW g \in Groups \ {"tokenizer"}
  PROVE  MirrorGroup(g) \in Seq(SoundStep)
<1>1. Size[g] \in Nat
  BY FluxAssumption
<1>2. ASSUME g \in repo.legacy, NEW i \in 1 .. Size[g]
      PROVE  Mirror(<<g, i>>) \in SoundStep
  <2>1. RawFile("info") \in Downloads
    BY DEF Downloads
  <2>. QED
    BY <1>2, <2>1, CopySound
<1>3. ASSUME g \in repo.legacy
      PROVE  [i \in 1 .. Size[g] |-> Mirror(<<g, i>>)] \in Seq(SoundStep)
  <2>. DEFINE s == [i \in 1 .. Size[g] |-> Mirror(<<g, i>>)]
  <2>1. \A i \in 1 .. Size[g] : Mirror(<<g, i>>) \in SoundStep
    BY <1>2, <1>3
  <2>2. \A i \in 1 .. Size[g] : s[i] \in SoundStep
    BY <2>1, Zenon
  <2>3. s = [i \in 1 .. Size[g] |-> s[i]]
    BY Zenon
  <2>. HIDE DEF s
  <2>4. s \in Seq(SoundStep)
    BY <1>1, <2>2, <2>3, SeqOf, Zenon
  <2>. QED
    BY <2>4, Zenon DEF s
<1>. QED
  BY <1>3 DEF MirrorGroup, When

LEMMA TokenizerSound ==
  ASSUME repo \in RepoType, NEW groups
  PROVE  TokenizerSteps(groups) \in Seq(SoundStep)
<1>1. RawFile("tokenizer") \in Downloads
  BY DEF Downloads
<1>2. "tokenizer" \in Groups /\ 1 \in 1 .. Size["tokenizer"]
  BY FluxAssumption DEF Groups
<1>3. Copy(<<"tokenizer", 1>>, RawFile("tokenizer")) \in SoundStep
  BY <1>1, <1>2, CopySound
<1>. QED
  BY <1>3 DEF TokenizerSteps, When

LEMMA VaeRestSound ==
  ASSUME repo \in RepoType
  PROVE  (IF VaeAtRoot
            THEN [i \in 1 .. Size["vae"] |-> Copy(<<"vae", i>>, LegacyFile(<<"vae", i>>))]
            ELSE << [op |-> "throw"] >>) \in Seq(SoundStep)
<1>. DEFINE files == [i \in 1 .. Size["vae"] |->
                        Copy(<<"vae", i>>, LegacyFile(<<"vae", i>>))]
            stop == << [op |-> "throw"] >>
<1>1. NpuFile("info") \in Downloads /\ "vae" \in Groups
  BY DEF Downloads, Groups
<1>3. Size["vae"] \in Nat
  BY <1>1, FluxAssumption
<1>4. ASSUME "vae" \in repo.legacy, NEW i \in 1 .. Size["vae"]
      PROVE  Copy(<<"vae", i>>, LegacyFile(<<"vae", i>>)) \in SoundStep
  <2>1. LegacyFile(<<"vae", i>>) \in Downloads
    BY <1>1, <1>4, CopySound
  <2>. QED
    BY <1>1, <1>4, <2>1, CopySound
<1>5. "vae" \in repo.legacy => files \in Seq(SoundStep)
  <2>1. "vae" \in repo.legacy =>
          \A i \in 1 .. Size["vae"] : Copy(<<"vae", i>>, LegacyFile(<<"vae", i>>)) \in SoundStep
    BY <1>4
  <2>2. "vae" \in repo.legacy =>
          \A i \in 1 .. Size["vae"] : files[i] \in SoundStep
    BY <2>1, Zenon
  <2>3. files = [i \in 1 .. Size["vae"] |-> files[i]]
    BY Zenon
  <2>. HIDE DEF files
  <2>. QED
    BY <1>3, <2>2, <2>3, SeqOf, Zenon
<1>6. stop \in Seq(SoundStep)
  <2>1. [op |-> "throw"] \in SoundStep
    BY DEF SoundStep
  <2>. QED
    BY <2>1
<1>. HIDE DEF files, stop
<1>7. (IF VaeAtRoot THEN files ELSE stop) \in Seq(SoundStep)
  BY <1>5, <1>6 DEF VaeAtRoot
<1>. QED
  BY <1>7, Zenon DEF files, stop

-----------------------------------------------------------------------------
(* Every source writes the files of a group in an order that ends with the  *)
(* last.                                                                    *)

\* The last file of group g comes after the others.
Ends(files, g) ==
  \A i \in 1 .. Len(files) : files[i] = <<g, Size[g]>> =>
    \A k \in 1 .. Size[g] : \E j \in 1 .. i : files[j] = <<g, k>>
EndsBins(steps, g) ==
  \A i \in 1 .. Len(steps) : steps[i] = Bin(<<g, Size[g]>>) =>
    \A k \in 1 .. Size[g] : \E j \in 1 .. i : steps[j] = Bin(<<g, k>>)

LEMMA EndsEmpty ==
  ASSUME NEW g \in Groups
  PROVE  EndsBins(<< >>, g)
BY DEF EndsBins

LEMMA EndsJoined ==
  ASSUME NEW g \in Groups, NEW S, NEW s \in Seq(S), NEW t \in Seq(S),
         EndsBins(s, g), EndsBins(t, g)
  PROVE  EndsBins(s \o t, g)
<1>. DEFINE u == s \o t
<1>1. /\ Len(u) = Len(s) + Len(t) /\ Len(s) \in Nat /\ Len(t) \in Nat
      /\ \A i \in 1 .. Len(s) : u[i] = s[i]
      /\ \A i \in 1 .. Len(t) : u[Len(s) + i] = t[i]
  OBVIOUS
<1>. HIDE DEF u
<1>2. ASSUME NEW i \in 1 .. Len(u), u[i] = Bin(<<g, Size[g]>>), NEW k \in 1 .. Size[g]
      PROVE  \E j \in 1 .. i : u[j] = Bin(<<g, k>>)
  <2>1. CASE i <= Len(s)
    <3>1. i \in 1 .. Len(s) /\ s[i] = Bin(<<g, Size[g]>>)
      BY <1>1, <1>2, <2>1
    <3>2. PICK j \in 1 .. i : s[j] = Bin(<<g, k>>)
      BY <3>1 DEF EndsBins
    <3>3. j \in 1 .. Len(s)
      BY <1>1, <3>1
    <3>. QED
      BY <1>1, <3>2, <3>3
  <2>2. CASE i > Len(s)
    <3>. DEFINE m == i - Len(s)
    <3>1. m \in 1 .. Len(t) /\ i = Len(s) + m
      BY <1>1, <2>2
    <3>2. t[m] = Bin(<<g, Size[g]>>)
      BY <1>1, <1>2, <3>1
    <3>3. PICK j \in 1 .. m : t[j] = Bin(<<g, k>>)
      BY <3>1, <3>2 DEF EndsBins
    <3>4. j \in 1 .. Len(t) /\ Len(s) + j \in 1 .. i
      BY <1>1, <3>1
    <3>. QED
      BY <1>1, <3>3, <3>4
  <2>3. i <= Len(s) \/ i > Len(s)
    BY <1>1
  <2>. QED
    BY <2>1, <2>2, <2>3, Zenon
<1>3. EndsBins(u, g)
  BY <1>2 DEF EndsBins
<1>. QED
  BY <1>3 DEF u

\* Steps that write no tensors.
LEMMA EndsOthers ==
  ASSUME NEW g \in Groups, NEW s, \A i \in 1 .. Len(s) : s[i].op # "bin"
  PROVE  EndsBins(s, g)
<1>1. Bin(<<g, Size[g]>>).op = "bin"
  BY DEF Bin
<1>. QED
  BY <1>1 DEF EndsBins

LEMMA EndsFetch ==
  ASSUME NEW g \in Groups, NEW d
  PROVE  EndsBins(Fetch(d), g)
<1>1. \A i \in 1 .. Len(Fetch(d)) : Fetch(d)[i].op # "bin"
  BY DEF Fetch
<1>. QED
  BY <1>1, EndsOthers

LEMMA EndsOfBins ==
  ASSUME NEW g \in Groups, NEW files \in Seq(Outputs), Ends(files, g)
  PROVE  EndsBins(Bins(files), g)
<1>1. \A a, b : Bin(a) = Bin(b) <=> a = b
  BY DEF Bin
<1>2. Len(Bins(files)) = Len(files) /\ Len(files) \in Nat
      /\ \A i \in 1 .. Len(files) : Bins(files)[i] = Bin(files[i])
  BY DEF Bins
<1>3. ASSUME NEW i \in 1 .. Len(files), Bins(files)[i] = Bin(<<g, Size[g]>>),
             NEW k \in 1 .. Size[g]
      PROVE  \E j \in 1 .. i : Bins(files)[j] = Bin(<<g, k>>)
  <2>1. files[i] = <<g, Size[g]>>
    BY <1>1, <1>2, <1>3
  <2>2. PICK j \in 1 .. i : files[j] = <<g, k>>
    BY <2>1 DEF Ends
  <2>3. j \in 1 .. Len(files)
    BY <1>2
  <2>. QED
    BY <1>2, <2>2, <2>3
<1>. QED
  BY <1>2, <1>3 DEF EndsBins

LEMMA EndsFiles ==
  ASSUME NEW g \in Groups, NEW h \in Groups
  PROVE  Ends(FilesOf(h), g)
<1>1. Size[h] \in Nat \ {0} /\ Size[g] \in Nat \ {0}
  BY FluxAssumption
<1>2. \A i \in 1 .. Size[h] : FilesOf(h)[i] = <<h, i>>
  BY DEF FilesOf
<1>3. Len(FilesOf(h)) = Size[h]
  BY FilesSound
<1>. QED
  BY <1>1, <1>2, <1>3 DEF Ends

\* The tensors of the transformer stand around those of the final layer.
LEMMA DenoisingPlaces ==
  /\ Contents("denoising") \in Seq(Outputs)
  /\ Len(Contents("denoising")) = Size["final"] + Size["transformer"]
  /\ Contents("denoising")[1] = <<"transformer", 1>>
  /\ \A i \in 1 .. Size["final"] : Contents("denoising")[1 + i] = <<"final", i>>
  /\ \A i \in 1 .. Size["transformer"] - 1 :
       Contents("denoising")[1 + Size["final"] + i] = <<"transformer", 1 + i>>
<1>. DEFINE n == Size["transformer"]
            m == Size["final"]
            files == FilesOf("transformer")
            last == FilesOf("final")
            first == SubSeq(files, 1, 1)
            rest == SubSeq(files, 2, n)
            c == (first \o last) \o rest
<1>1. n \in Nat \ {0} /\ m \in Nat \ {0}
  BY FluxAssumption DEF Groups
<1>2. /\ files \in Seq(Outputs) /\ Len(files) = n
      /\ last \in Seq(Outputs) /\ Len(last) = m
  BY FilesSound DEF Groups
<1>3. /\ \A i \in 1 .. n : files[i] = <<"transformer", i>>
      /\ \A i \in 1 .. m : last[i] = <<"final", i>>
  BY DEF FilesOf
<1>. HIDE DEF n, m, files, last
<1>4. first \in Seq(Outputs) /\ Len(first) = 1 /\ first[1] = files[1]
  BY <1>1, <1>2, SubSeqProperties
<1>5. /\ rest \in Seq(Outputs) /\ Len(rest) = n - 1
      /\ \A i \in 1 .. n - 1 : rest[i] = files[i + 1]
  <2>1. \A i \in 2 .. n : files[i] \in Outputs
    BY <1>1, <1>2
  <2>2. /\ rest \in Seq(Outputs) /\ Len(rest) = IF 2 <= n THEN n - 2 + 1 ELSE 0
        /\ \A i \in 1 .. n - 2 + 1 : rest[i] = files[2 + i - 1]
    BY <1>1, <2>1, SubSeqProperties
  <2>. HIDE DEF rest
  <2>. QED
    BY <1>1, <2>2
<1>. HIDE DEF first, rest
<1>. DEFINE b == first \o last
<1>6. b \in Seq(Outputs)
  BY <1>2, <1>4, Joined, Zenon
<1>7. /\ Len(b) = 1 + m /\ b[1] = <<"transformer", 1>>
      /\ \A i \in 1 .. m : b[1 + i] = <<"final", i>>
  <2>1. /\ Len(b) = Len(first) + Len(last)
        /\ \A i \in 1 .. Len(first) : b[i] = first[i]
        /\ \A i \in 1 .. Len(last) : b[Len(first) + i] = last[i]
    <3>1. first \in Seq(Outputs) /\ last \in Seq(Outputs)
      BY <1>2, <1>4
    <3>. QED
      BY <3>1
  <2>. HIDE DEF b
  <2>. QED
    BY <1>1, <1>2, <1>3, <1>4, <2>1
<1>8. /\ Len(c) = Len(b) + Len(rest)
      /\ \A i \in 1 .. Len(b) : c[i] = b[i]
      /\ \A i \in 1 .. Len(rest) : c[Len(b) + i] = rest[i]
  <2>. HIDE DEF b
  <2>. DEFINE d == b \o rest
  <2>1. /\ Len(d) = Len(b) + Len(rest)
        /\ \A i \in 1 .. Len(b) : d[i] = b[i]
        /\ \A i \in 1 .. Len(rest) : d[Len(b) + i] = rest[i]
    <3>1. b \in Seq(Outputs) /\ rest \in Seq(Outputs)
      BY <1>5, <1>6
    <3>. QED
      BY <3>1
  <2>. QED
    BY <2>1, Zenon DEF b
<1>. HIDE DEF c, b
<1>9. /\ Len(c) = m + n
      /\ c[1] = <<"transformer", 1>>
      /\ \A i \in 1 .. m : c[1 + i] = <<"final", i>>
      /\ \A i \in 1 .. n - 1 : c[1 + m + i] = <<"transformer", 1 + i>>
  <2>1. Len(c) = m + n
    BY <1>1, <1>5, <1>7, <1>8
  <2>2. c[1] = <<"transformer", 1>>
    BY <1>1, <1>7, <1>8
  <2>3. ASSUME NEW i \in 1 .. m
        PROVE  c[1 + i] = <<"final", i>>
    BY <1>1, <1>7, <1>8, 1 + i \in 1 .. 1 + m
  <2>4. ASSUME NEW i \in 1 .. n - 1
        PROVE  c[1 + m + i] = <<"transformer", 1 + i>>
    <3>1. i + 1 \in 1 .. n /\ i + 1 = 1 + i
      BY <1>1
    <3>2. c[1 + m + i] = rest[i]
      BY <1>1, <1>5, <1>7, <1>8
    <3>. QED
      BY <1>3, <1>5, <3>1, <3>2
  <2>. QED
    BY <2>1, <2>2, <2>3, <2>4
<1>10. c \in Seq(Outputs) /\ c = Contents("denoising")
  BY ContentsSound, Zenon DEF Contents, Packs, c, b, first, last, rest, files, n
<1>. QED
  BY <1>9, <1>10, Zenon DEF n, m

LEMMA EndsContents ==
  ASSUME NEW g \in Groups, NEW pack \in Packs
  PROVE  Ends(Contents(pack), g)
<1>1. CASE pack # "denoising"
  <2>1. pack \in Groups
    BY <1>1 DEF Packs, Groups
  <2>. QED
    BY <1>1, <2>1, EndsFiles DEF Contents
<1>2. CASE pack = "denoising"
  <2>. DEFINE n == Size["transformer"]
              m == Size["final"]
              c == Contents("denoising")
  <2>1. n \in Nat \ {0} /\ m \in Nat \ {0}
    BY FluxAssumption DEF Groups
  <2>2. /\ Len(c) = m + n
        /\ c[1] = <<"transformer", 1>>
        /\ \A i \in 1 .. m : c[1 + i] = <<"final", i>>
        /\ \A i \in 1 .. n - 1 : c[1 + m + i] = <<"transformer", 1 + i>>
    BY DenoisingPlaces, Zenon
  <2>3. n = Size["transformer"] /\ m = Size["final"]
    OBVIOUS
  <2>. HIDE DEF n, m, c
  <2>4. ASSUME NEW i \in 1 .. m + n
        PROVE  \/ i = 1
               \/ i \in 2 .. 1 + m /\ c[i] = <<"final", i - 1>>
               \/ i \in 2 + m .. m + n /\ c[i] = <<"transformer", i - m>>
    <3>1. CASE i \in 2 .. 1 + m
      <4>. DEFINE j == i - 1
      <4>1. j \in 1 .. m /\ i = 1 + j
        BY <2>1, <3>1
      <4>. HIDE DEF j
      <4>2. c[i] = <<"final", j>>
        BY <2>2, <4>1
      <4>. QED
        BY <3>1, <4>2 DEF j
    <3>2. CASE i \in 2 + m .. m + n
      <4>. DEFINE j == i - m - 1
      <4>1. j \in 1 .. n - 1 /\ i = 1 + m + j /\ 1 + j = i - m
        BY <2>1, <3>2
      <4>. HIDE DEF j
      <4>2. c[i] = <<"transformer", 1 + j>>
        BY <2>2, <4>1
      <4>. QED
        BY <3>2, <4>1, <4>2
    <3>3. i = 1 \/ i \in 2 .. 1 + m \/ i \in 2 + m .. m + n
      BY <2>1
    <3>. QED
      BY <3>1, <3>2, <3>3, Zenon
  <2>5. ASSUME NEW i \in 1 .. m + n, c[i] = <<g, Size[g]>>, NEW k \in 1 .. Size[g]
        PROVE  \E j \in 1 .. i : c[j] = <<g, k>>
    <3>1. CASE i = 1
      <4>1. g = "transformer" /\ Size[g] = 1 /\ k = 1
        BY <2>2, <2>5, <3>1
      <4>. QED
        BY <2>5, <3>1, <4>1
    <3>2. CASE i \in 2 .. 1 + m /\ c[i] = <<"final", i - 1>>
      <4>1. g = "final" /\ Size[g] = i - 1
        BY <2>5, <3>2
      <4>2. 1 + k \in 1 .. i /\ k \in 1 .. m
        BY <2>1, <3>2, <4>1
      <4>. QED
        BY <2>2, <4>1, <4>2
    <3>3. CASE i \in 2 + m .. m + n /\ c[i] = <<"transformer", i - m>>
      <4>1. g = "transformer" /\ Size[g] = i - m
        BY <2>5, <3>3
      <4>2. CASE k = 1
        BY <2>2, <4>1, <4>2
      <4>3. CASE k # 1
        <5>1. m + k \in 2 + m .. m + n /\ m + k \in 1 .. i
          BY <2>1, <3>3, <4>1, <4>3
        <5>2. c[m + k] = <<"transformer", k>>
          BY <2>1, <2>4, <5>1
        <5>. QED
          BY <4>1, <5>1, <5>2
      <4>. QED
        BY <4>2, <4>3
    <3>. QED
      BY <2>4, <3>1, <3>2, <3>3
  <2>. QED
    BY <1>2, <2>2, <2>5 DEF Ends, c
<1>. QED
  BY <1>1, <1>2

Sealing(steps, g) == steps \in Seq(SoundStep) /\ EndsBins(steps, g)

LEMMA SealingJoined ==
  ASSUME NEW g \in Groups, NEW s, NEW t, Sealing(s, g), Sealing(t, g)
  PROVE  Sealing(s \o t, g)
<1>1. s \in Seq(SoundStep) /\ t \in Seq(SoundStep) /\ EndsBins(s, g) /\ EndsBins(t, g)
  BY DEF Sealing
<1>2. s \o t \in Seq(SoundStep)
  BY <1>1, Joined, Zenon
<1>3. EndsBins(s \o t, g)
  BY <1>1, EndsJoined, Zenon
<1>. QED
  BY <1>2, <1>3, Zenon DEF Sealing

LEMMA SealingWhen ==
  ASSUME NEW g \in Groups, NEW condition, NEW s, Sealing(s, g)
  PROVE  Sealing(When(condition, s), g)
<1>1. Sealing(<< >>, g)
  BY EndsEmpty DEF Sealing
<1>. QED
  BY <1>1 DEF When

LEMMA SealingFetch ==
  ASSUME NEW g \in Groups, NEW d \in Downloads
  PROVE  Sealing(Fetch(d), g)
BY FetchSound, EndsFetch DEF Sealing

LEMMA PackedSealing ==
  ASSUME NEW g \in Groups, NEW groups
  PROVE  Sealing(PackedSteps(groups), g)
<1>. DEFINE one == When(groups \cap {"transformer", "final"} # {}, Unpack("denoising"))
            two == When("text" \in groups, Unpack("text"))
            three == When("vae" \in groups, Unpack("vae"))
<1>1. ASSUME NEW pack \in Packs
      PROVE  Sealing(Unpack(pack), g)
  <2>1. NpuFile(pack) \in Downloads
    BY DEF Downloads
  <2>2. Sealing(Fetch(NpuFile(pack)), g)
    BY <2>1, SealingFetch
  <2>3. Sealing(Bins(Contents(pack)), g)
    BY ContentsSound, BinsSound, EndsContents, EndsOfBins DEF Sealing
  <2>. QED
    BY <2>2, <2>3, SealingJoined, Zenon DEF Unpack
<1>2. {"denoising", "text", "vae"} \subseteq Packs
  BY DEF Packs
<1>3. Sealing(one, g) /\ Sealing(two, g) /\ Sealing(three, g)
  BY <1>1, <1>2, SealingWhen
<1>. HIDE DEF one, two, three
<1>4. Sealing(one \o two, g)
  BY <1>3, SealingJoined, Zenon
<1>5. Sealing((one \o two) \o three, g)
  BY <1>3, <1>4, SealingJoined, Zenon
<1>. QED
  BY <1>5, Zenon DEF PackedSteps, one, two, three

LEMMA MirrorSealing ==
  ASSUME repo \in RepoType, NEW g \in Groups
  PROVE  Sealing(MirrorSteps, g)
<1>. DEFINE one == Fetch(NpuFile("info")) \o MirrorGroup("transformer")
            two == one \o MirrorGroup("final")
            three == two \o MirrorGroup("text")
            four == three \o MirrorGroup("vae")
<1>1. NpuFile("info") \in Downloads
  BY DEF Downloads
<1>2. Sealing(Fetch(NpuFile("info")), g)
  BY <1>1, SealingFetch
<1>3. ASSUME NEW h \in Groups \ {"tokenizer"}
      PROVE  Sealing(MirrorGroup(h), g)
  <2>1. \A i \in 1 .. Len(MirrorGroup(h)) : MirrorGroup(h)[i].op # "bin"
    <3>1. Size[h] \in Nat
      BY FluxAssumption
    <3>2. CASE h \in repo.legacy
      <4>1. MirrorGroup(h) = [i \in 1 .. Size[h] |-> Mirror(<<h, i>>)]
        BY <3>2, Zenon DEF MirrorGroup, When
      <4>2. Len(MirrorGroup(h)) = Size[h]
        BY <3>1, <4>1
      <4>3. \A f : Mirror(f).op # "bin"
        BY DEF Mirror
      <4>. QED
        BY <4>1, <4>2, <4>3, Zenon
    <3>3. CASE h \notin repo.legacy
      BY <3>3 DEF MirrorGroup, When
    <3>. QED
      BY <3>2, <3>3
  <2>. QED
    BY <2>1, MirrorGroupSound, EndsOthers, Zenon DEF Sealing
<1>4. {"transformer", "final", "text", "vae"} \subseteq Groups \ {"tokenizer"}
  BY DEF Groups
<1>5. Sealing(one, g)
  BY <1>2, <1>3, <1>4, SealingJoined, Zenon
<1>. HIDE DEF one
<1>6. Sealing(two, g)
  BY <1>3, <1>4, <1>5, SealingJoined, Zenon
<1>. HIDE DEF two
<1>7. Sealing(three, g)
  BY <1>3, <1>4, <1>6, SealingJoined, Zenon
<1>. HIDE DEF three
<1>8. Sealing(four, g)
  BY <1>3, <1>4, <1>7, SealingJoined, Zenon
<1>. QED
  BY <1>8, Zenon DEF MirrorSteps, one, two, three, four

LEMMA TokenizerSealing ==
  ASSUME repo \in RepoType, NEW g \in Groups, NEW groups
  PROVE  Sealing(TokenizerSteps(groups), g)
<1>1. \A i \in 1 .. Len(TokenizerSteps(groups)) : TokenizerSteps(groups)[i].op # "bin"
  BY DEF TokenizerSteps, When, Copy
<1>. QED
  BY <1>1, TokenizerSound, EndsOthers, Zenon DEF Sealing

LEMMA VaeSealing ==
  ASSUME repo \in RepoType, NEW g \in Groups
  PROVE  Sealing(VaeSteps, g)
<1>. DEFINE files == [i \in 1 .. Size["vae"] |->
                        Copy(<<"vae", i>>, LegacyFile(<<"vae", i>>))]
            stop == << [op |-> "throw"] >>
            rest == IF VaeAtRoot THEN files ELSE stop
<1>1. Size["vae"] \in Nat
  BY FluxAssumption DEF Groups
<1>2. \A f, d : Copy(f, d).op # "bin"
  BY DEF Copy
<1>3. Len(files) = Size["vae"] /\ \A i \in 1 .. Len(files) : files[i].op # "bin"
  <2>1. Len(files) = Size["vae"]
    BY <1>1
  <2>. QED
    BY <1>2, <2>1, Zenon
<1>4. \A i \in 1 .. Len(stop) : stop[i].op # "bin"
  OBVIOUS
<1>5. rest \in Seq(SoundStep) /\ NpuFile("info") \in Downloads
  BY VaeRestSound DEF Downloads
<1>. HIDE DEF files, stop
<1>6. \A i \in 1 .. Len(rest) : rest[i].op # "bin"
  BY <1>3, <1>4
<1>7. Sealing(rest, g)
  BY <1>5, <1>6, EndsOthers, Zenon DEF Sealing
<1>. HIDE DEF rest
<1>8. Sealing(Fetch(NpuFile("info")) \o rest, g)
  BY <1>5, <1>7, SealingFetch, SealingJoined, Zenon
<1>. QED
  BY <1>8, Zenon DEF VaeSteps, rest, files, stop

LEMMA RawSealing ==
  ASSUME repo \in RepoType, NEW g \in Groups, NEW groups
  PROVE  Sealing(RawSteps(groups), g)
<1>. DEFINE shards(n) == Fetch(RawFile(n)) \o Bins(FilesOf(n))
            info == When(groups \cap {"transformer", "text"} # {}, Fetch(RawFile("info")))
            transformer == When("transformer" \in groups, shards("transformer"))
            text == When("text" \in groups, shards("text"))
            final == When("final" \in groups, shards("final"))
            vae == When("vae" \in groups, VaeSteps)
<1>1. Sealing(Fetch(RawFile("info")), g)
  <2>1. RawFile("info") \in Downloads
    BY DEF Downloads
  <2>. QED
    BY <2>1, SealingFetch
<1>2. ASSUME NEW n \in {"transformer", "text", "final"}
      PROVE  Sealing(shards(n), g)
  <2>1. RawFile(n) \in Downloads /\ n \in Groups
    BY DEF Downloads, Groups
  <2>2. Sealing(Fetch(RawFile(n)), g)
    BY <2>1, SealingFetch
  <2>3. Sealing(Bins(FilesOf(n)), g)
    BY <2>1, FilesSound, BinsSound, EndsFiles, EndsOfBins DEF Sealing
  <2>. QED
    BY <2>2, <2>3, SealingJoined, Zenon
<1>. HIDE DEF shards
<1>3. Sealing(info, g)
  BY <1>1, SealingWhen
<1>4. Sealing(transformer, g) /\ Sealing(text, g) /\ Sealing(final, g)
  BY <1>2, SealingWhen
<1>5. Sealing(vae, g)
  BY VaeSealing, SealingWhen
<1>6. Sealing(TokenizerSteps(groups), g)
  BY TokenizerSealing
<1>. HIDE DEF info, transformer, text, final, vae
<1>. DEFINE one == info \o transformer
            two == one \o text
            three == two \o TokenizerSteps(groups)
            four == three \o final
            five == four \o vae
<1>7. Sealing(one, g)
  BY <1>3, <1>4, SealingJoined, Zenon
<1>. HIDE DEF one
<1>8. Sealing(two, g)
  BY <1>4, <1>7, SealingJoined, Zenon
<1>. HIDE DEF two
<1>9. Sealing(three, g)
  BY <1>6, <1>8, SealingJoined, Zenon
<1>. HIDE DEF three
<1>10. Sealing(four, g)
  BY <1>4, <1>9, SealingJoined, Zenon
<1>. HIDE DEF four
<1>11. Sealing(five, g)
  BY <1>5, <1>10, SealingJoined, Zenon
<1>. QED
  BY <1>11, Zenon DEF RawSteps, one, two, three, four, info, transformer, text, final,
     vae, shards

LEMMA StepsSound ==
  ASSUME repo \in RepoType, NEW groups
  PROVE  /\ PackedSteps(groups) \in Seq(SoundStep)
         /\ MirrorSteps \in Seq(SoundStep)
         /\ RawSteps(groups) \in Seq(SoundStep)
<1>1. "text" \in Groups
  BY DEF Groups
<1>. QED
  BY <1>1, PackedSealing, MirrorSealing, RawSealing DEF Sealing

-----------------------------------------------------------------------------
(* Where a check may go.                                                    *)

\* What the type invariant and IInv say of the server and of what is left to do.
Control ==
  /\ pc \in {"down", "checking", "preparing", "cleaning", "ready", "serving"}
  /\ boot \in BOOLEAN /\ config \in ConfigType
  /\ need \subseteq Groups
  /\ source \in {"none", "packs", "mirror", "tokenizer", "raw"}
  /\ stage \in {"start", "download", "fetched", "copying", "rename"}
  /\ pc # "preparing" => source = "none" /\ todo = << >> /\ stage = "start"
  /\ pc = "preparing" => source # "none"
  /\ todo \in Seq(SoundStep)

\* A step of a preparation that goes on, or fails.
Moved ==
  /\ Control' /\ pc' \in {"preparing", "cleaning", "down", "serving"}
  /\ wanted' = wanted /\ prepared' = prepared /\ forced' = forced
  /\ fellback' \in BOOLEAN

LEMMA Still ==
  ASSUME UNCHANGED repo
  PROVE  SoundStep' = SoundStep /\ Renamed' = Renamed /\ Led' = Led
BY DEF SoundStep, CopiedFiles, Renamed, Led

LEMMA Known ==
  ASSUME IInv
  PROVE  Control /\ repo \in RepoType
BY FluxAssumption DEF IInv, TypeOK, Control

LEMMA SettleControl ==
  ASSUME IInv, UNCHANGED repo,
         NEW label \in {"down", "cleaning", "ready", "serving"}, Settle(label)
  PROVE  Control' /\ pc' = label
<1>1. << >> \in Seq(SoundStep')
  OBVIOUS
<1>. QED
  BY <1>1, Known DEF Settle, TakeFrom, Control

LEMMA AbortControl ==
  ASSUME IInv, UNCHANGED repo, Abort
  PROVE  Control' /\ pc' \in {"down", "serving"}
<1>1. CASE boot
  BY <1>1, SettleControl DEF Abort
<1>2. CASE ~boot
  BY <1>2, SettleControl DEF Abort
<1>. QED
  BY <1>1, <1>2

LEMMA TakeControl ==
  ASSUME IInv, UNCHANGED repo, pc' = "preparing",
         NEW s \in {"packs", "mirror", "tokenizer", "raw"},
         NEW groups \in SUBSET Groups, NEW steps \in Seq(SoundStep),
         TakeFrom(s, groups, steps)
  PROVE  Control'
BY Known, Still DEF TakeFrom, Control

LEMMA ThrowMoves ==
  ASSUME IInv, UNCHANGED repo, pc = "preparing", Throw
  PROVE  Moved
<1>1. Control /\ repo \in RepoType
  BY Known
<1>2. fellback \in BOOLEAN
  BY DEF IInv, TypeOK
<1>3. CASE source = "packs"
  <2>1. MirrorSteps \in Seq(SoundStep) /\ need \in SUBSET Groups
    BY <1>1, StepsSound DEF Control
  <2>2. TakeFrom("mirror", need, MirrorSteps) /\ pc' = "preparing"
    BY <1>3 DEF Throw
  <2>3. Control'
    BY <2>1, <2>2, TakeControl
  <2>4. fellback' \in BOOLEAN /\ UNCHANGED <<wanted, prepared, forced>>
    BY <1>3 DEF Throw
  <2>. QED
    BY <2>2, <2>3, <2>4 DEF Moved
<1>4. CASE source # "packs"
  <2>1. Abort /\ UNCHANGED history
    BY <1>4 DEF Throw
  <2>. QED
    BY <1>2, <2>1, AbortControl DEF Moved, history
<1>. QED
  BY <1>3, <1>4

LEMMA AdvanceMoves ==
  ASSUME IInv, UNCHANGED repo, pc = "preparing", todo # << >>, Advance,
         UNCHANGED history
  PROVE  Moved
<1>1. Control /\ fellback \in BOOLEAN
  BY Known DEF IInv, TypeOK
<1>2. Tail(todo) \in Seq(SoundStep)
  BY <1>1, HeadTailProperties DEF Control
<1>. QED
  BY <1>1, <1>2, Still DEF Advance, Control, Moved, history

LEMMA EnterMoves ==
  ASSUME IInv, UNCHANGED repo, pc = "preparing", UNCHANGED history,
         NEW s \in {"download", "fetched", "copying", "rename"}, Enter(s)
  PROVE  Moved
<1>1. Control /\ fellback \in BOOLEAN
  BY Known DEF IInv, TypeOK
<1>. QED
  BY <1>1, Still DEF Enter, Control, Moved, history

LEMMA FetchedMoves ==
  ASSUME IInv, UNCHANGED repo, pc = "preparing", todo # << >>, Fetched,
         UNCHANGED history
  PROVE  Moved
<1>1. CASE Head(todo).op = "fetch"
  BY <1>1, AdvanceMoves DEF Fetched
<1>2. CASE Head(todo).op # "fetch"
  BY <1>2, EnterMoves DEF Fetched
<1>. QED
  BY <1>1, <1>2

\* A step of a preparation keeps the invariant if it keeps what is on the disk.
LEMMA MovedIInv ==
  ASSUME IInv, UNCHANGED repo, pc = "preparing", Moved,
         partial' \subseteq Downloads, cached' \subseteq Downloads,
         out' \in [Outputs -> FileState], NeverTorn', UNCHANGED checks
  PROVE  IInv'
<1>1. ~prepared'
  BY DEF IInv, Moved
<1>2. wanted' \subseteq Groups /\ forced' \in BOOLEAN /\ prepared' \in BOOLEAN
  BY DEF IInv, TypeOK, Moved
<1>3. fellback' \in BOOLEAN /\ checks' \in 0 .. MaxChecks /\ repo' \in Repos
  BY DEF IInv, TypeOK, Moved
<1>4. TypeOK'
  BY <1>2, <1>3 DEF TypeOK, Moved, Control
<1>5. ArtifactsRemoved'
  BY <1>1 DEF ArtifactsRemoved
<1>. QED
  BY <1>1, <1>4, <1>5 DEF IInv, Moved, Control

LEMMA Steps ==
  ASSUME IInv, todo # << >>
  PROVE  /\ Head(todo).op = "bin" => File \in Outputs
         /\ Head(todo).op \in {"copy", "mirror"} => File \in CopiedFiles
         /\ Head(todo).op \in {"fetch", "copy", "mirror"} => From \in Downloads
<1>1. Head(todo) \in SoundStep
  BY HeadTailProperties DEF IInv
<1>. QED
  BY <1>1 DEF SoundStep, File, From

-----------------------------------------------------------------------------
(* The steps.                                                               *)

\* What is on the disk stays as it should be.
LEMMA SameFiles ==
  ASSUME IInv, UNCHANGED <<repo, out>>
  PROVE  out' \in [Outputs -> FileState] /\ NeverTorn'
BY Still DEF IInv, TypeOK, NeverTorn

LEMMA NewFile ==
  ASSUME IInv, UNCHANGED repo, NEW f \in Outputs, NEW s \in FileState,
         f \in CopiedFiles \/ s \in {"absent", "whole"},
         out' = [out EXCEPT ![f] = s]
  PROVE  out' \in [Outputs -> FileState] /\ NeverTorn'
<1>1. out \in [Outputs -> FileState] /\ NeverTorn
  BY DEF IInv, TypeOK
<1>2. ASSUME NEW g \in Outputs, g[1] \in Renamed'
      PROVE  out'[g] \in {"absent", "whole"}
  BY <1>1, <1>2, Still DEF NeverTorn, CopiedFiles
<1>. QED
  BY <1>1, <1>2 DEF NeverTorn

LEMMA FetchStep ==
  ASSUME IInv, UNCHANGED repo, FetchFile
  PROVE  IInv'
<1>. USE SameFiles, Steps
<1>1. partial \subseteq Downloads /\ cached \subseteq Downloads
  BY DEF IInv, TypeOK
<1>2. CASE SkipFetch
  <2>1. pc = "preparing" /\ todo # << >> /\ Advance /\ UNCHANGED <<cache, out, checks, history>>
    BY <1>2 DEF SkipFetch, Taking
  <2>2. Moved
    BY <2>1, AdvanceMoves
  <2>. QED
    BY <1>1, <2>1, <2>2, MovedIInv DEF cache
<1>3. CASE UseCached
  <2>1. pc = "preparing" /\ todo # << >> /\ Fetched /\ UNCHANGED <<cache, out, checks, history>>
    BY <1>3 DEF UseCached, Fetching, Taking
  <2>2. Moved
    BY <2>1, FetchedMoves
  <2>. QED
    BY <1>1, <2>1, <2>2, MovedIInv DEF cache
<1>4. CASE StartDownload
  <2>1. /\ pc = "preparing" /\ Enter("download")
        /\ From \in Downloads /\ partial' = partial \cup {From}
        /\ UNCHANGED <<cached, out, checks, history>>
    BY <1>4 DEF StartDownload, Fetching, Taking
  <2>2. Moved
    BY <2>1, EnterMoves
  <2>. QED
    BY <1>1, <2>1, <2>2, MovedIInv
<1>5. CASE FinishDownload
  <2>1. /\ pc = "preparing" /\ todo # << >> /\ Fetched
        /\ From \in Downloads /\ partial' \subseteq partial /\ cached' = cached \cup {From}
        /\ UNCHANGED <<out, checks, history>>
    BY <1>5 DEF FinishDownload, Downloading, Taking
  <2>2. Moved
    BY <2>1, FetchedMoves
  <2>. QED
    BY <1>1, <2>1, <2>2, MovedIInv
<1>6. CASE DownloadFails
  <2>1. /\ pc = "preparing" /\ Throw
        /\ partial' \subseteq partial /\ UNCHANGED <<cached, out, checks>>
    BY <1>6 DEF DownloadFails, Downloading, Taking
  <2>2. Moved
    BY <2>1, ThrowMoves
  <2>. QED
    BY <1>1, <2>1, <2>2, MovedIInv
<1>. QED
  BY <1>2, <1>3, <1>4, <1>5, <1>6 DEF FetchFile

LEMMA BinStep ==
  ASSUME IInv, UNCHANGED repo, WriteBin
  PROVE  IInv'
<1>1. partial \subseteq Downloads /\ cached \subseteq Downloads
  BY DEF IInv, TypeOK
<1>2. CASE NoTensor \/ KeepBin
  <2>1. pc = "preparing" /\ todo # << >> /\ Advance /\ UNCHANGED <<cache, out, checks, history>>
    BY <1>2 DEF NoTensor, KeepBin, Taking
  <2>2. Moved
    BY <2>1, AdvanceMoves
  <2>. QED
    BY <1>1, <2>1, <2>2, SameFiles, MovedIInv DEF cache
<1>3. CASE ReplaceBin
  <2>1. /\ pc = "preparing" /\ Enter("rename")
        /\ File \in Outputs /\ out' = [out EXCEPT ![File] = "absent"]
        /\ UNCHANGED <<cache, checks, history>>
    BY <1>3, Steps DEF ReplaceBin, Taking
  <2>2. Moved
    BY <2>1, EnterMoves
  <2>3. out' \in [Outputs -> FileState] /\ NeverTorn'
    BY <2>1, NewFile DEF FileState
  <2>. QED
    BY <1>1, <2>1, <2>2, <2>3, MovedIInv DEF cache
<1>4. CASE RenameBin
  <2>1. /\ pc = "preparing" /\ todo # << >> /\ Advance
        /\ File \in Outputs /\ out' = [out EXCEPT ![File] = "whole"]
        /\ UNCHANGED <<cache, checks, history>>
    BY <1>4, Steps DEF RenameBin, Taking
  <2>2. Moved
    BY <2>1, AdvanceMoves
  <2>3. out' \in [Outputs -> FileState] /\ NeverTorn'
    BY <2>1, NewFile DEF FileState
  <2>. QED
    BY <1>1, <2>1, <2>2, <2>3, MovedIInv DEF cache
<1>5. CASE BinFails
  <2>1. pc = "preparing" /\ Throw /\ UNCHANGED <<cache, out, checks>>
    BY <1>5 DEF BinFails, Taking
  <2>2. Moved
    BY <2>1, ThrowMoves
  <2>. QED
    BY <1>1, <2>1, <2>2, SameFiles, MovedIInv DEF cache
<1>. QED
  BY <1>2, <1>3, <1>4, <1>5 DEF WriteBin

LEMMA CopyStep ==
  ASSUME IInv, UNCHANGED repo, CopyFile
  PROVE  IInv'
<1>1. partial \subseteq Downloads /\ cached \subseteq Downloads
  BY DEF IInv, TypeOK
<1>2. CASE KeepCopy
  <2>1. pc = "preparing" /\ todo # << >> /\ Advance /\ UNCHANGED <<cache, out, checks, history>>
    BY <1>2 DEF KeepCopy, Copying, Taking
  <2>2. Moved
    BY <2>1, AdvanceMoves
  <2>. QED
    BY <1>1, <2>1, <2>2, SameFiles, MovedIInv DEF cache
<1>3. CASE BeginCopy
  <2>1. /\ pc = "preparing" /\ Enter("copying")
        /\ File \in CopiedFiles
        /\ \E begun \in {"empty", "part"} : out' = [out EXCEPT ![File] = begun]
        /\ UNCHANGED <<cache, checks, history>>
    BY <1>3, Steps DEF BeginCopy, Copying, Taking
  <2>2. Moved
    BY <2>1, EnterMoves
  <2>3. PICK begun \in {"empty", "part"} : out' = [out EXCEPT ![File] = begun]
    BY <2>1
  <2>4. File \in Outputs
    BY <2>1 DEF CopiedFiles
  <2>5. out' \in [Outputs -> FileState] /\ NeverTorn'
    BY <2>1, <2>3, <2>4, NewFile DEF FileState
  <2>. QED
    BY <1>1, <2>1, <2>2, <2>5, MovedIInv DEF cache
<1>4. CASE EndCopy
  <2>1. /\ pc = "preparing" /\ todo # << >> /\ Advance
        /\ File \in CopiedFiles /\ out' = [out EXCEPT ![File] = "whole"]
        /\ UNCHANGED <<cache, checks, history>>
    BY <1>4, Steps DEF EndCopy, Copying, Taking
  <2>2. Moved
    BY <2>1, AdvanceMoves
  <2>3. File \in Outputs
    BY <2>1 DEF CopiedFiles
  <2>4. out' \in [Outputs -> FileState] /\ NeverTorn'
    BY <2>1, <2>3, NewFile DEF FileState
  <2>. QED
    BY <1>1, <2>1, <2>2, <2>4, MovedIInv DEF cache
<1>5. CASE CopyFails \/ NoVaeFiles
  <2>1. pc = "preparing" /\ Throw /\ UNCHANGED <<cache, out, checks>>
    BY <1>5 DEF CopyFails, NoVaeFiles, Copying, Taking
  <2>2. Moved
    BY <2>1, ThrowMoves
  <2>. QED
    BY <1>1, <2>1, <2>2, SameFiles, MovedIInv DEF cache
<1>. QED
  BY <1>2, <1>3, <1>4, <1>5 DEF CopyFile

LEMMA SourceStep ==
  ASSUME IInv, UNCHANGED repo, NextSource
  PROVE  IInv'
<1>1. pc = "preparing" /\ UNCHANGED <<cache, out, checks, history>>
  BY DEF NextSource
<1>2. Control /\ repo \in RepoType
  BY Known
<1>3. fellback \in BOOLEAN /\ partial \subseteq Downloads /\ cached \subseteq Downloads
  BY DEF IInv, TypeOK
<1>4. Control' /\ pc' \in {"preparing", "cleaning", "down", "serving"}
  <2>1. CASE source \in {"packs", "mirror"}
    <3>1. TakeFrom("tokenizer", need, TokenizerSteps(need)) /\ pc' = "preparing"
      BY <1>1, <2>1 DEF NextSource
    <3>2. TokenizerSteps(need) \in Seq(SoundStep) /\ need \in SUBSET Groups
      BY <1>2, TokenizerSound DEF Control
    <3>. QED
      BY <3>1, <3>2, TakeControl
  <2>2. CASE source = "tokenizer"
    <3>. DEFINE left == Needed(FALSE)
    <3>1. TakeFrom("raw", left, RawSteps(left)) /\ pc' = "preparing"
      BY <1>1, <2>2 DEF NextSource, TakeRaw
    <3>2. RawSteps(left) \in Seq(SoundStep) /\ left \in SUBSET Groups
      BY <1>2, StepsSound DEF Needed
    <3>. HIDE DEF left
    <3>. QED
      BY <3>1, <3>2, TakeControl
  <2>3. CASE source = "raw"
    <3>1. Settle("cleaning") \/ Abort
      BY <2>3 DEF NextSource
    <3>. QED
      BY <3>1, SettleControl, AbortControl
  <2>4. source # "none"
    BY <1>1, <1>2 DEF Control
  <2>. QED
    BY <1>2, <2>1, <2>2, <2>3, <2>4 DEF Control
<1>5. Moved
  BY <1>1, <1>3, <1>4 DEF Moved, history
<1>. QED
  BY <1>1, <1>3, <1>5, SameFiles, MovedIInv DEF cache


LEMMA CleanStep ==
  ASSUME IInv, UNCHANGED repo, Clean
  PROVE  IInv'
<1>1. CASE RemoveArtifact
  <2>1. pc = "cleaning" /\ UNCHANGED <<process, out, checks, history>>
    BY <1>1 DEF RemoveArtifact
  <2>2. partial' \subseteq Downloads /\ cached' \subseteq Downloads
    BY <1>1 DEF RemoveArtifact, IInv, TypeOK
  <2>3. TypeOK'
    BY <2>1, <2>2 DEF IInv, TypeOK, process, history
  <2>4. NeverTorn'
    BY <2>1, SameFiles
  <2>5. ArtifactsRemoved'
    BY <2>1 DEF ArtifactsRemoved, process
  <2>6. todo' \in Seq(SoundStep') /\ ~prepared' /\ pc' = pc
    BY <2>1, Still DEF IInv, process, history
  <2>. QED
    BY <2>1, <2>3, <2>4, <2>5, <2>6 DEF IInv
<1>2. CASE FinishPreparation
  <2>1. /\ Conclude /\ prepared' = TRUE /\ cached = {} /\ partial \subseteq Lists
        /\ UNCHANGED <<cache, out, checks, wanted, fellback, forced>>
    BY <1>2 DEF FinishPreparation, Artifacts
  <2>2. Control' /\ pc' \in {"ready", "down", "serving"}
    BY <2>1, SettleControl, AbortControl DEF Conclude
  <2>3. TypeOK'
    BY <2>1, <2>2, SameFiles DEF IInv, TypeOK, Control, cache
  <2>4. ArtifactsRemoved'
    BY <2>1 DEF ArtifactsRemoved, cache
  <2>. QED
    BY <2>1, <2>2, <2>3, <2>4, SameFiles DEF IInv, Control
<1>. QED
  BY <1>1, <1>2 DEF Clean

LEMMA BeginStep ==
  ASSUME IInv, UNCHANGED repo, Start \/ Request
  PROVE  IInv'
<1>1. /\ BeginCheck /\ boot' \in BOOLEAN /\ config' \in ConfigType
      /\ forced' \in BOOLEAN /\ pc # "preparing"
  BY FluxAssumption DEF Start, Request, IInv, TypeOK, ConfigType
<1>2. checks' \in 0 .. MaxChecks
  BY <1>1, FluxAssumption DEF BeginCheck, IInv, TypeOK
<1>3. /\ pc' = "checking" /\ ~prepared' /\ prepared' \in BOOLEAN
      /\ fellback' \in BOOLEAN /\ wanted' \subseteq Groups
      /\ UNCHANGED <<need, source, todo, stage, cache, out>>
  BY <1>1 DEF BeginCheck
<1>4. TypeOK'
  BY <1>1, <1>2, <1>3 DEF IInv, TypeOK, cache
<1>5. NeverTorn' /\ ArtifactsRemoved'
  BY <1>3, SameFiles DEF ArtifactsRemoved
<1>6. todo' \in Seq(SoundStep')
  BY <1>3, Still DEF IInv
<1>. QED
  BY <1>3, <1>4, <1>5, <1>6 DEF IInv

LEMMA CheckStep ==
  ASSUME IInv, UNCHANGED repo, CheckWeights
  PROVE  IInv'
<1>1. /\ pc = "checking" /\ ~prepared
      /\ wanted' = need' /\ UNCHANGED <<cache, out, checks, fellback, prepared, forced>>
  BY DEF CheckWeights, IInv
<1>2. Control /\ repo \in RepoType
  BY Known
<1>. DEFINE groups == Needed(config.force)
<1>3. Control'
  <2>1. CASE Settle("ready") \/ Abort
    BY <2>1, SettleControl, AbortControl
  <2>2. CASE BeginPreparation /\ groups = {}
    BY <2>2, SettleControl, AbortControl DEF BeginPreparation, Conclude
  <2>3. CASE BeginPreparation /\ groups # {}
    <3>1. /\ pc' = "preparing"
          /\ \/ TakeFrom("packs", groups, PackedSteps(groups))
             \/ TakeFrom("raw", groups, RawSteps(groups))
      BY <2>3 DEF BeginPreparation
    <3>2. groups \in SUBSET Groups
      BY DEF Needed
    <3>. HIDE DEF groups
    <3>3. PackedSteps(groups) \in Seq(SoundStep) /\ RawSteps(groups) \in Seq(SoundStep)
      BY <1>2, StepsSound
    <3>. QED
      BY <3>1, <3>2, <3>3, TakeControl
  <2>. QED
    BY <2>1, <2>2, <2>3 DEF CheckWeights
<1>4. TypeOK'
  BY <1>1, <1>3, SameFiles DEF IInv, TypeOK, Control, cache
<1>5. ArtifactsRemoved' /\ ~prepared'
  BY <1>1 DEF ArtifactsRemoved
<1>. QED
  BY <1>1, <1>3, <1>4, <1>5, SameFiles DEF IInv, Control

\* The server goes on to serve, or is killed.
LEMMA LeaveStep ==
  ASSUME IInv, UNCHANGED repo, Serve \/ Crash
  PROVE  IInv'
<1>1. /\ Settle("serving") \/ Settle("down")
      /\ UNCHANGED <<cache, out, checks, history>>
  BY DEF Serve, Crash
<1>2. Control' /\ pc' \in {"serving", "down"}
  BY <1>1, SettleControl
<1>3. TypeOK'
  BY <1>1, <1>2, SameFiles DEF IInv, TypeOK, Control, cache, history
<1>4. NeverTorn' /\ ArtifactsRemoved'
  BY <1>1, <1>2, SameFiles DEF ArtifactsRemoved
<1>. QED
  BY <1>2, <1>3, <1>4 DEF IInv, Control

-----------------------------------------------------------------------------
(* The theorems.                                                            *)

LEMMA InitIInv ==
  ASSUME Init
  PROVE  IInv
<1>1. TypeOK
  <2>1. config \in ConfigType
    BY DEF Init, ConfigType
  <2>2. checks \in 0 .. MaxChecks
    BY FluxAssumption DEF Init
  <2>3. out \in [Outputs -> FileState]
    BY DEF Init, FileState
  <2>. QED
    BY <2>1, <2>2, <2>3 DEF Init, TypeOK
<1>. QED
  BY <1>1 DEF Init, IInv, NeverTorn, ArtifactsRemoved

LEMMA NextIInv ==
  ASSUME IInv, [Next]_vars
  PROVE  IInv'
<1>1. CASE Next
  <2>1. UNCHANGED repo
    BY <1>1 DEF Next
  <2>2. CASE Start \/ Request
    BY <2>1, <2>2, BeginStep
  <2>3. CASE Check
    BY <2>1, <2>3, CheckStep, FetchStep, BinStep, CopyStep, SourceStep, CleanStep DEF Check
  <2>4. CASE Serve \/ Crash
    BY <2>1, <2>4, LeaveStep
  <2>. QED
    BY <1>1, <2>2, <2>3, <2>4 DEF Next
<1>2. CASE UNCHANGED vars
  <2>1. UNCHANGED <<repo, pc, boot, config, need, source, todo, stage>>
    BY <1>2 DEF vars, process
  <2>2. UNCHANGED <<partial, cached, out, checks, wanted, fellback, prepared, forced>>
    BY <1>2 DEF vars, cache, history
  <2>3. TypeOK'
    BY <2>1, <2>2 DEF IInv, TypeOK
  <2>4. NeverTorn' /\ ArtifactsRemoved'
    BY <2>1, <2>2, SameFiles DEF IInv, ArtifactsRemoved
  <2>. QED
    BY <2>1, <2>2, <2>3, <2>4, Still DEF IInv
<1>. QED
  BY <1>1, <1>2

\* The inductive invariant: what is left to do is sound for this repository, a
\* check that goes on has not prepared yet, and the disk is as it should be.
THEOREM Invariance == Spec => []IInv
<1>1. Init => IInv
  BY InitIInv
<1>2. IInv /\ [Next]_vars => IInv'
  BY NextIInv
<1>. QED
  BY <1>1, <1>2, PTL DEF Spec

\* The tensors that are written and renamed are whole or not there, after any
\* failure and crash, for any repository and number of files.
THEOREM WholeOrAbsent == Spec => []NeverTorn
<1>1. IInv => NeverTorn
  BY DEF IInv
<1>. QED
  BY <1>1, Invariance, PTL

\* A preparation that finishes leaves no download behind, whichever configuration
\* and process began it, except for one of a list of files that was killed.
THEOREM NoArtifacts == Spec => []ArtifactsRemoved
<1>1. IInv => ArtifactsRemoved
  BY DEF IInv
<1>. QED
  BY <1>1, Invariance, PTL

\* Every variable has its type in every state.
THEOREM TypeCorrect == Spec => []TypeOK
<1>1. IInv => TypeOK
  BY DEF IInv
<1>. QED
  BY <1>1, Invariance, PTL

\* No step removes or tears a whole file unless the server was started with force.
LEMMA KeptStep ==
  ASSUME IInv, Next, NEW f \in Outputs, out[f] = "whole", ~config.force
  PROVE  out'[f] = "whole"
<1>1. out \in [Outputs -> FileState]
  BY DEF IInv, TypeOK
<1>2. CASE UNCHANGED out
  BY <1>2
<1>3. CASE ReplaceBin
  BY <1>1, <1>3 DEF ReplaceBin, Keeps, Present
<1>4. CASE RenameBin
  BY <1>1, <1>4 DEF RenameBin
<1>5. CASE BeginCopy
  BY <1>1, <1>5 DEF BeginCopy, Keeps, Present
<1>6. CASE EndCopy
  BY <1>1, <1>6 DEF EndCopy
<1>7. UNCHANGED out \/ ReplaceBin \/ RenameBin \/ BeginCopy \/ EndCopy
  <2>1. CASE Start \/ Request \/ Serve \/ Crash \/ CheckWeights \/ NextSource \/ Clean
    BY <2>1 DEF Start, Request, BeginCheck, Serve, Crash, CheckWeights, NextSource,
       Clean, RemoveArtifact, FinishPreparation
  <2>2. CASE FetchFile
    BY <2>2 DEF FetchFile, SkipFetch, UseCached, StartDownload, FinishDownload,
       DownloadFails
  <2>3. CASE WriteBin \/ CopyFile
    BY <2>3 DEF WriteBin, NoTensor, KeepBin, BinFails, CopyFile, KeepCopy, CopyFails,
       NoVaeFiles
  <2>. QED
    BY <2>1, <2>2, <2>3 DEF Next, Check
<1>. QED
  BY <1>2, <1>3, <1>4, <1>5, <1>6, <1>7

THEOREM WholeKept == Spec => NothingUndone
<1>. DEFINE Kept == \A f \in Outputs : out[f] = "whole" /\ ~config.force => out'[f] = "whole"
<1>1. ASSUME IInv, Next
      PROVE  Kept
  BY <1>1, KeptStep
<1>2. ASSUME UNCHANGED vars
      PROVE  Kept
  BY <1>2 DEF vars
<1>3. IInv /\ [Next]_vars => [Kept]_vars
  BY <1>1, <1>2
<1>. QED
  BY <1>3, Invariance, PTL DEF Spec, NothingUndone

-----------------------------------------------------------------------------
(* Groups that end with their last file.                                    *)

LEMMA LastPlaces ==
  ASSUME NEW g \in Groups
  PROVE  /\ Size[g] \in Nat \ {0} /\ Size[g] \in 1 .. Size[g]
         /\ \A k \in 1 .. Size[g] : <<g, k>> \in Outputs
BY FluxAssumption DEF Outputs

\* A source is begun, or given up.
SourceBegins == UNCHANGED out /\ \A g \in Groups : EndsBins(todo', g)

\* The first step is done, and it was not to write a tensor.
OtherDone ==
  /\ todo # << >> /\ todo' = Tail(todo) /\ UNCHANGED out
  /\ Head(todo).op # "bin"

LEMMA SettleBegins ==
  ASSUME NEW label, Settle(label), UNCHANGED out
  PROVE  SourceBegins
<1>1. todo' = << >>
  BY DEF Settle, TakeFrom
<1>. QED
  BY <1>1, EndsEmpty DEF SourceBegins

LEMMA AbortBegins ==
  ASSUME Abort, UNCHANGED out
  PROVE  SourceBegins
BY SettleBegins DEF Abort

LEMMA ThrowBegins ==
  ASSUME IInv, Throw, UNCHANGED out
  PROVE  SourceBegins
<1>1. CASE source = "packs"
  <2>1. todo' = MirrorSteps
    BY <1>1 DEF Throw, TakeFrom
  <2>2. \A g \in Groups : EndsBins(MirrorSteps, g)
    BY Known, MirrorSealing DEF Sealing
  <2>. QED
    BY <2>1, <2>2 DEF SourceBegins
<1>2. CASE source # "packs"
  BY <1>2, AbortBegins DEF Throw
<1>. QED
  BY <1>1, <1>2

LEMMA Effects ==
  ASSUME IInv, Next
  PROVE  \/ UNCHANGED <<todo, out>>
         \/ SourceBegins
         \/ OtherDone
         \/ NoTensor \/ KeepBin \/ ReplaceBin \/ RenameBin \/ BeginCopy \/ EndCopy
<1>. USE SettleBegins, AbortBegins, ThrowBegins
<1>1. CASE Start \/ Request
  BY <1>1 DEF Start, Request, BeginCheck
<1>2. CASE Serve \/ Crash
  BY <1>2 DEF Serve, Crash
<1>3. CASE CheckWeights
  <2>. DEFINE groups == Needed(config.force)
  <2>1. UNCHANGED out
    BY <1>3 DEF CheckWeights
  <2>2. CASE Settle("ready") \/ Abort
    BY <2>1, <2>2
  <2>3. CASE BeginPreparation /\ groups = {}
    BY <2>1, <2>3 DEF BeginPreparation, Conclude
  <2>4. CASE BeginPreparation /\ groups # {}
    <3>1. todo' = PackedSteps(groups) \/ todo' = RawSteps(groups)
      BY <2>4 DEF BeginPreparation, TakeFrom
    <3>. HIDE DEF groups
    <3>2. \A g \in Groups : EndsBins(PackedSteps(groups), g) /\ EndsBins(RawSteps(groups), g)
      BY Known, PackedSealing, RawSealing DEF Sealing
    <3>. QED
      BY <2>1, <3>1, <3>2 DEF SourceBegins
  <2>. QED
    BY <1>3, <2>2, <2>3, <2>4 DEF CheckWeights
<1>4. CASE FetchFile
  <2>1. CASE SkipFetch
    BY <2>1 DEF SkipFetch, Taking, Advance, OtherDone
  <2>2. CASE UseCached \/ FinishDownload
    <3>1. Fetched /\ todo # << >> /\ UNCHANGED out
      BY <2>2 DEF UseCached, FinishDownload, Fetching, Downloading, Taking
    <3>. QED
      BY <3>1 DEF Fetched, Advance, Enter, OtherDone
  <2>3. CASE StartDownload
    BY <2>3 DEF StartDownload, Enter
  <2>4. CASE DownloadFails
    BY <2>4 DEF DownloadFails
  <2>. QED
    BY <1>4, <2>1, <2>2, <2>3, <2>4 DEF FetchFile
<1>5. CASE WriteBin
  <2>1. CASE BinFails
    BY <2>1 DEF BinFails
  <2>. QED
    BY <1>5, <2>1 DEF WriteBin
<1>6. CASE CopyFile
  <2>1. CASE KeepCopy
    BY <2>1 DEF KeepCopy, Copying, Taking, Advance, OtherDone
  <2>2. CASE CopyFails \/ NoVaeFiles
    BY <2>2 DEF CopyFails, NoVaeFiles
  <2>. QED
    BY <1>6, <2>1, <2>2 DEF CopyFile
<1>7. CASE NextSource
  <2>1. UNCHANGED out /\ source \in {"packs", "mirror", "tokenizer", "raw"}
    BY <1>7, Known DEF NextSource, Control
  <2>2. CASE source \in {"packs", "mirror"}
    <3>1. todo' = TokenizerSteps(need)
      BY <1>7, <2>2 DEF NextSource, TakeFrom
    <3>2. \A g \in Groups : EndsBins(TokenizerSteps(need), g)
      BY Known, TokenizerSealing DEF Sealing
    <3>. QED
      BY <2>1, <3>1, <3>2 DEF SourceBegins
  <2>3. CASE source = "tokenizer"
    <3>. DEFINE left == Needed(FALSE)
    <3>1. todo' = RawSteps(left)
      BY <1>7, <2>3 DEF NextSource, TakeRaw, TakeFrom
    <3>. HIDE DEF left
    <3>2. \A g \in Groups : EndsBins(RawSteps(left), g)
      BY Known, RawSealing DEF Sealing
    <3>. QED
      BY <2>1, <3>1, <3>2 DEF SourceBegins
  <2>4. CASE source = "raw"
    BY <1>7, <2>1, <2>4 DEF NextSource
  <2>. QED
    BY <2>1, <2>2, <2>3, <2>4
<1>8. CASE Clean
  <2>1. CASE RemoveArtifact
    BY <2>1 DEF RemoveArtifact, process
  <2>2. CASE FinishPreparation
    BY <2>2 DEF FinishPreparation, Conclude
  <2>. QED
    BY <1>8, <2>1, <2>2 DEF Clean
<1>. QED
  BY <1>1, <1>2, <1>3, <1>4, <1>5, <1>6, <1>7, <1>8 DEF Next, Check


\* What is left of the list is in order, if what was first is done.
LEMMA TailInOrder ==
  ASSUME NEW g \in Groups, todo \in Seq(SoundStep), todo # << >>, todo' = Tail(todo),
         InOrder(g),
         \A k \in 1 .. Size[g] : out[<<g, k>>] = "whole" => out'[<<g, k>>] = "whole",
         \A k \in 1 .. Size[g] : Head(todo) = Bin(<<g, k>>) => out'[<<g, k>>] = "whole"
  PROVE  InOrder(g)'
<1>1. /\ Len(todo') = Len(todo) - 1 /\ Len(todo) \in Nat
      /\ \A i \in 1 .. Len(todo') : todo'[i] = todo[i + 1]
      /\ Head(todo) = todo[1]
  BY HeadTailProperties
<1>2. ASSUME NEW i \in 1 .. Len(todo'), todo'[i] = Bin(<<g, Size[g]>>),
             NEW k \in 1 .. Size[g], out'[<<g, k>>] # "whole"
      PROVE  \E j \in 1 .. i : todo'[j] = Bin(<<g, k>>)
  <2>1. i + 1 \in 1 .. Len(todo) /\ todo[i + 1] = Bin(<<g, Size[g]>>)
    BY <1>1, <1>2
  <2>2. PICK j \in 1 .. i + 1 : todo[j] = Bin(<<g, k>>)
    BY <1>2, <2>1 DEF InOrder
  <2>3. j # 1
    BY <1>1, <1>2, <2>2
  <2>4. j - 1 \in 1 .. i /\ j - 1 \in 1 .. Len(todo') /\ (j - 1) + 1 = j
    BY <1>1, <1>2, <2>2, <2>3
  <2>5. todo'[j - 1] = Bin(<<g, k>>)
    BY <1>1, <2>2, <2>4
  <2>. QED
    BY <2>4, <2>5
<1>. QED
  BY <1>2 DEF InOrder

LEMMA GroupStep ==
  ASSUME IInv, IInv', Next, ~config.force, NEW g \in Renamed \cap Led,
         LastSeals(g), InOrder(g)
  PROVE  LastSeals(g)' /\ InOrder(g)'
<1>. DEFINE last == Size[g]
<1>1. g \in Groups /\ last \in 1 .. last
  BY LastPlaces DEF Renamed
<1>2. ASSUME NEW k \in 1 .. last
      PROVE  /\ <<g, k>> \in Outputs
             /\ out[<<g, k>>] \in {"absent", "whole"}
             /\ out[<<g, k>>] = "whole" => out'[<<g, k>>] = "whole"
             /\ <<g, k>> \notin CopiedFiles
  <2>1. <<g, k>> \in Outputs
    BY <1>1, LastPlaces
  <2>2. out[<<g, k>>] \in {"absent", "whole"}
    BY <2>1 DEF IInv, NeverTorn
  <2>. QED
    BY <2>1, <2>2, KeptStep DEF CopiedFiles
<1>3. todo \in Seq(SoundStep) /\ out \in [Outputs -> FileState]
  BY DEF IInv, TypeOK
<1>4. ASSUME out'[<<g, last>>] = "whole" => out[<<g, last>>] = "whole"
      PROVE  LastSeals(g)'
  BY <1>1, <1>2, <1>4 DEF LastSeals, Whole
<1>5. \A f : Head(todo) = Bin(f) => File = f /\ Head(todo).op = "bin"
  BY DEF Bin, File
<1>6. CASE UNCHANGED <<todo, out>>
  BY <1>6 DEF LastSeals, Whole, InOrder
<1>7. CASE SourceBegins
  BY <1>1, <1>4, <1>7 DEF SourceBegins, EndsBins, InOrder
<1>8. CASE OtherDone
  <2>1. \A k \in 1 .. last : Head(todo) # Bin(<<g, k>>)
    BY <1>5, <1>8 DEF OtherDone
  <2>2. InOrder(g)'
    BY <1>1, <1>2, <1>3, <1>8, <2>1, TailInOrder DEF OtherDone
  <2>. QED
    BY <1>4, <1>8, <2>2 DEF OtherDone
<1>9. CASE KeepBin
  <2>1. todo # << >> /\ todo' = Tail(todo) /\ UNCHANGED out /\ Present(File)
    BY <1>9 DEF KeepBin, Taking, Advance, Keeps
  <2>2. \A k \in 1 .. last : Head(todo) = Bin(<<g, k>>) => out'[<<g, k>>] = "whole"
    BY <1>2, <1>5, <2>1 DEF Present
  <2>3. InOrder(g)'
    BY <1>1, <1>2, <1>3, <2>1, <2>2, TailInOrder
  <2>. QED
    BY <1>4, <2>1, <2>3
<1>13. CASE NoTensor
  <2>1. /\ todo # << >> /\ todo' = Tail(todo) /\ UNCHANGED out
        /\ File[1] \in DOMAIN repo.raw /\ File[2] \notin repo.raw[File[1]]
    BY <1>13 DEF NoTensor, InShards, Taking, Advance
  <2>2. ASSUME NEW k \in 1 .. last
        PROVE  Head(todo) # Bin(<<g, k>>)
    <3>1. g \in DOMAIN repo.raw => repo.raw[g] = 1 .. last
      BY DEF Led
    <3>2. File = <<g, k>> => File[1] = g /\ File[2] = k
      OBVIOUS
    <3>3. File # <<g, k>>
      BY <2>1, <2>2, <3>1, <3>2
    <3>. QED
      BY <1>5, <3>3
  <2>3. InOrder(g)'
    BY <1>1, <1>2, <1>3, <2>1, <2>2, TailInOrder
  <2>. QED
    BY <1>4, <2>1, <2>3
<1>10. CASE ReplaceBin \/ BeginCopy
  <2>1. todo' = todo
    BY <1>10 DEF ReplaceBin, BeginCopy, Enter
  <2>2. InOrder(g)'
    BY <1>2, <2>1 DEF InOrder
  <2>3. out'[<<g, last>>] = "whole" => out[<<g, last>>] = "whole"
    BY <1>1, <1>2, <1>3, <1>10 DEF ReplaceBin, BeginCopy
  <2>. QED
    BY <1>4, <2>2, <2>3
<1>11. CASE RenameBin
  <2>1. /\ todo # << >> /\ todo' = Tail(todo) /\ Head(todo).op = "bin"
        /\ File \in Outputs /\ out' = [out EXCEPT ![File] = "whole"]
    BY <1>11, Steps DEF RenameBin, Taking, Advance
  <2>2. out'[File] = "whole" /\ \A f \in Outputs : f # File => out'[f] = out[f]
    BY <1>3, <2>1
  <2>3. \A k \in 1 .. last : Head(todo) = Bin(<<g, k>>) => out'[<<g, k>>] = "whole"
    BY <1>5, <2>2
  <2>4. InOrder(g)'
    BY <1>1, <1>2, <1>3, <2>1, <2>3, TailInOrder
  <2>5. CASE File # <<g, last>>
    <3>1. <<g, last>> \in Outputs
      BY <1>1, <1>2
    <3>. QED
      BY <1>4, <2>2, <2>4, <2>5, <3>1
  <2>6. CASE File = <<g, last>>
    <3>1. Head(todo) = Bin(<<g, last>>)
      <4>1. Head(todo) \in SoundStep
        BY <1>3, <2>1, HeadTailProperties
      <4>. QED
        BY <2>1, <2>6, <4>1 DEF SoundStep, Bin, File
    <3>2. Len(todo) \in Nat /\ Len(todo) >= 1 /\ todo[1] = Head(todo)
      BY <1>3, <2>1
    <3>3. ASSUME NEW k \in 1 .. last
          PROVE  out'[<<g, k>>] = "whole"
      <4>1. out[<<g, k>>] = "whole" \/ \E j \in 1 .. 1 : todo[j] = Bin(<<g, k>>)
        BY <3>1, <3>2 DEF InOrder
      <4>2. out[<<g, k>>] = "whole" \/ Head(todo) = Bin(<<g, k>>)
        BY <3>2, <4>1
      <4>. QED
        BY <1>2, <2>3, <4>2
    <3>. QED
      BY <2>4, <3>3 DEF LastSeals, Whole
  <2>. QED
    BY <2>5, <2>6
<1>12. CASE EndCopy
  <2>1. /\ todo # << >> /\ todo' = Tail(todo) /\ Head(todo).op # "bin"
        /\ File \in CopiedFiles /\ out' = [out EXCEPT ![File] = "whole"]
    BY <1>12, Steps DEF EndCopy, Copying, Taking, Advance
  <2>2. \A k \in 1 .. last : Head(todo) # Bin(<<g, k>>)
    BY <1>5, <2>1
  <2>3. InOrder(g)'
    BY <1>1, <1>2, <1>3, <2>1, <2>2, TailInOrder
  <2>4. out'[<<g, last>>] = out[<<g, last>>]
    BY <1>1, <1>2, <1>3, <2>1 DEF CopiedFiles
  <2>. QED
    BY <1>4, <2>3, <2>4
<1>. QED
  BY <1>6, <1>7, <1>8, <1>9, <1>10, <1>11, <1>12, <1>13, Effects

\* The weights are judged ready by the list of the server.
LEMMA ReadyStep ==
  ASSUME IInv, Next, pc' = "ready"
  PROVE  ServerReady /\ UNCHANGED out
<1>1. CASE CheckWeights
  BY <1>1 DEF CheckWeights, BeginPreparation, Conclude, Abort, Settle, TakeFrom
<1>2. CASE FinishPreparation
  BY <1>2 DEF FinishPreparation, Conclude, Abort, Settle, TakeFrom
<1>3. CASE Start \/ Request \/ Serve \/ Crash \/ RemoveArtifact
  BY <1>3 DEF Start, Request, BeginCheck, Serve, Crash, Settle, RemoveArtifact, process
<1>4. CASE NextSource
  <2>1. source \in {"packs", "mirror", "tokenizer", "raw"}
    BY <1>4, Known DEF NextSource, Control
  <2>. QED
    BY <1>4, <2>1 DEF NextSource, TakeRaw, Abort, Settle
<1>5. CASE FetchFile \/ WriteBin \/ CopyFile
  <2>1. Throw => pc' # "ready" \/ pc' = pc
    BY DEF Throw, Abort, Settle
  <2>2. pc = "preparing"
    BY <1>5 DEF FetchFile, SkipFetch, UseCached, StartDownload, FinishDownload,
       DownloadFails, Fetching, Downloading, WriteBin, NoTensor, KeepBin, ReplaceBin,
       RenameBin, BinFails, CopyFile, KeepCopy, BeginCopy, EndCopy, CopyFails, NoVaeFiles, Copying,
       Taking
  <2>3. pc' = pc \/ Throw
    BY <1>5 DEF FetchFile, SkipFetch, UseCached, StartDownload, FinishDownload,
       DownloadFails, WriteBin, NoTensor, KeepBin, ReplaceBin,
       RenameBin, BinFails, CopyFile, KeepCopy, BeginCopy, EndCopy, CopyFails, NoVaeFiles, Fetched,
       Advance, Enter
  <2>. QED
    BY <2>1, <2>2, <2>3
<1>. QED
  BY <1>1, <1>2, <1>3, <1>4, <1>5 DEF Next, Check, Clean

\* Force is remembered, and a configuration stays until the next start.
LEMMA ForceStep ==
  ASSUME IInv, Next, config.force => forced
  PROVE  /\ config'.force => forced'
         /\ forced => forced'
<1>1. CASE Start
  BY <1>1, Zenon DEF Start
<1>2. CASE ~Start
  <2>1. UNCHANGED forced
    BY <1>2 DEF Next, Request, Serve, Crash, Check, FetchFile, SkipFetch, UseCached,
       StartDownload, FinishDownload, DownloadFails, WriteBin, NoTensor, KeepBin, ReplaceBin,
       RenameBin, BinFails, CopyFile, KeepCopy, BeginCopy, EndCopy, CopyFails, NoVaeFiles, NextSource,
       Clean, RemoveArtifact, FinishPreparation, CheckWeights, Throw, history
  <2>2. NextSource => source \in {"packs", "mirror", "tokenizer", "raw"}
    BY Known DEF NextSource, Control
  <2>3. UNCHANGED config
    BY <1>2, <2>2 DEF Next, Request, Serve, Crash, Check, FetchFile, SkipFetch, UseCached,
       StartDownload, FinishDownload, DownloadFails, WriteBin, NoTensor, KeepBin, ReplaceBin,
       RenameBin, BinFails, CopyFile, KeepCopy, BeginCopy, EndCopy, CopyFails, NoVaeFiles, NextSource,
       Clean, RemoveArtifact, FinishPreparation, CheckWeights, BeginPreparation, Conclude,
       Throw, Abort, Settle, TakeFrom, TakeRaw, Fetched, Advance, Enter, process
  <2>. QED
    BY <2>1, <2>3, Zenon
<1>. QED
  BY <1>1, <1>2


LEMMA InitSeal ==
  ASSUME Init
  PROVE  SealIInv
<1>1. ~config.force /\ pc # "ready" /\ todo = << >>
  BY DEF Init
<1>2. ASSUME NEW g \in Renamed \cap Led
      PROVE  LastSeals(g) /\ InOrder(g)
  <2>1. <<g, Size[g]>> \in Outputs
    BY LastPlaces DEF Renamed
  <2>2. out[<<g, Size[g]>>] = "absent"
    BY <2>1 DEF Init
  <2>. QED
    BY <1>1, <2>2 DEF LastSeals, InOrder
<1>. QED
  BY <1>1, <1>2 DEF SealIInv

LEMMA NextSeal ==
  ASSUME IInv, IInv', SealIInv, Next
  PROVE  SealIInv'
<1>1. /\ config'.force => forced'
      /\ forced => forced'
  BY ForceStep DEF SealIInv
<1>2. pc' = "ready" => ServerReady'
  <2>1. pc' = "ready" => ServerReady /\ UNCHANGED out
    BY ReadyStep
  <2>. QED
    BY <2>1 DEF ServerReady, Exists
<1>3. ASSUME ~forced', NEW g \in Renamed' \cap Led'
      PROVE  LastSeals(g)' /\ InOrder(g)'
  <2>1. ~forced /\ ~config.force
    BY <1>1, <1>3, Zenon DEF SealIInv
  <2>2. g \in Renamed \cap Led
    BY Still DEF Next
  <2>3. LastSeals(g) /\ InOrder(g)
    BY <2>1, <2>2 DEF SealIInv
  <2>. QED
    BY <2>1, <2>2, <2>3, GroupStep
<1>. QED
  BY <1>1, <1>2, <1>3 DEF SealIInv

\* The invariant of the order: without force, a group's last file is never there
\* before the others, whatever has failed, been killed or begun again.
THEOREM SealInvariance == Spec => []SealIInv
<1>1. Init => SealIInv
  BY InitSeal
<1>2. ASSUME IInv, IInv', SealIInv, [Next]_vars
      PROVE  SealIInv'
  <2>1. CASE Next
    BY <1>2, <2>1, NextSeal
  <2>2. CASE UNCHANGED vars
    <3>1. UNCHANGED <<repo, pc, config, todo, out, forced>>
      BY <2>2 DEF vars, process, history
    <3>. QED
      BY <1>2, <3>1 DEF SealIInv, LastSeals, Whole, InOrder, Renamed, Led, ServerReady, Exists
  <2>. QED
    BY <1>2, <2>1, <2>2
<1>3. IInv /\ IInv' /\ SealIInv /\ [Next]_vars => SealIInv'
  BY <1>2
<1>. QED
  BY <1>1, <1>3, Invariance, PTL DEF Spec

\* Without force, weights that are judged ready are complete in every group whose
\* last file the server's own list names.
THEOREM SealedWhole == Spec => []SealedGroupsWhole
<1>1. ASSUME IInv, SealIInv
      PROVE  SealedGroupsWhole
  <2>1. ASSUME pc = "ready", ~forced, NEW g \in Renamed \cap Led, Size[g] \in Asked[g]
        PROVE  Whole(g)
    <3>1. g \in Groups /\ <<g, Size[g]>> \in Outputs
      BY LastPlaces DEF Renamed
    <3>2. out[<<g, Size[g]>>] # "absent"
      BY <1>1, <2>1, <3>1 DEF SealIInv, ServerReady, Exists
    <3>3. out[<<g, Size[g]>>] = "whole"
      BY <1>1, <2>1, <3>1, <3>2 DEF IInv, NeverTorn
    <3>4. LastSeals(g)
      BY <1>1, <2>1 DEF SealIInv
    <3>. QED
      BY <3>3, <3>4 DEF LastSeals
  <2>. QED
    BY <2>1 DEF SealedGroupsWhole
<1>2. IInv /\ SealIInv => SealedGroupsWhole
  BY <1>1
<1>. QED
  BY <1>2, Invariance, SealInvariance, PTL


-----------------------------------------------------------------------------
(* Groups that were found wanting.                                          *)

LEMMA LeadsJoined ==
  ASSUME NEW S, NEW s \in Seq(S), NEW t \in Seq(S), NEW f,
         Leads(s, f) \/ Leads(t, f)
  PROVE  Leads(s \o t, f)
<1>. DEFINE u == s \o t
<1>1. /\ Len(u) = Len(s) + Len(t) /\ Len(s) \in Nat /\ Len(t) \in Nat
      /\ \A i \in 1 .. Len(s) : u[i] = s[i]
      /\ \A i \in 1 .. Len(t) : u[Len(s) + i] = t[i]
  OBVIOUS
<1>. HIDE DEF u
<1>2. CASE Leads(s, f)
  <2>1. PICK i \in 1 .. Len(s) : \/ s[i].op \in {"bin", "copy"} /\ s[i].file = f
                                \/ s[i].op = "throw"
    BY <1>2 DEF Leads
  <2>2. i \in 1 .. Len(u) /\ u[i] = s[i]
    BY <1>1
  <2>3. Leads(u, f)
    BY <2>1, <2>2 DEF Leads
  <2>. QED
    BY <2>3 DEF u
<1>3. CASE Leads(t, f)
  <2>1. PICK i \in 1 .. Len(t) : \/ t[i].op \in {"bin", "copy"} /\ t[i].file = f
                                \/ t[i].op = "throw"
    BY <1>3 DEF Leads
  <2>2. Len(s) + i \in 1 .. Len(u) /\ u[Len(s) + i] = t[i]
    BY <1>1
  <2>3. Leads(u, f)
    BY <2>1, <2>2 DEF Leads
  <2>. QED
    BY <2>3 DEF u
<1>. QED
  BY <1>2, <1>3

LEMMA LeadsBins ==
  ASSUME NEW files \in Seq(Outputs), NEW i \in 1 .. Len(files)
  PROVE  Leads(Bins(files), files[i])
<1>1. Len(Bins(files)) = Len(files) /\ Bins(files)[i] = Bin(files[i])
  BY DEF Bins
<1>2. Bin(files[i]).op = "bin" /\ Bin(files[i]).file = files[i]
  BY DEF Bin
<1>. QED
  BY <1>1, <1>2 DEF Leads

LEMMA LeadsFiles ==
  ASSUME NEW g \in Groups, NEW k \in 1 .. Size[g]
  PROVE  Leads(Bins(FilesOf(g)), <<g, k>>)
<1>1. FilesOf(g) \in Seq(Outputs) /\ Len(FilesOf(g)) = Size[g]
  BY FilesSound
<1>2. FilesOf(g)[k] = <<g, k>>
  BY DEF FilesOf
<1>3. Leads(Bins(FilesOf(g)), FilesOf(g)[k])
  BY <1>1, LeadsBins
<1>. QED
  BY <1>2, <1>3


LEMMA LeadsContents ==
  ASSUME NEW pack \in Packs, NEW g \in Groups, NEW k \in 1 .. Size[g],
         pack = g \/ (pack = "denoising" /\ g \in {"transformer", "final"})
  PROVE  Leads(Unpack(pack), <<g, k>>)
<1>. DEFINE c == Contents(pack)
<1>1. c \in Seq(Outputs)
  BY ContentsSound
<1>2. \E i \in 1 .. Len(c) : c[i] = <<g, k>>
  <2>1. Size[g] \in Nat
    BY FluxAssumption
  <2>2. CASE pack # "denoising"
    <3>1. c = FilesOf(g) /\ Len(FilesOf(g)) = Size[g]
      BY <2>2, FilesSound DEF Contents
    <3>. QED
      BY <3>1 DEF FilesOf
  <2>3. CASE pack = "denoising" /\ g = "final"
    <3>1. /\ Len(c) = Size["final"] + Size["transformer"]
          /\ \A i \in 1 .. Size["final"] : c[1 + i] = <<"final", i>>
      BY <2>3, DenoisingPlaces, Zenon
    <3>2. Size["transformer"] \in Nat \ {0}
      BY FluxAssumption DEF Groups
    <3>. HIDE DEF c
    <3>3. 1 + k \in 1 .. Len(c) /\ c[1 + k] = <<g, k>>
      BY <2>1, <2>3, <3>1, <3>2
    <3>. QED
      BY <3>3
  <2>4. CASE pack = "denoising" /\ g = "transformer"
    <3>. DEFINE m == Size["final"]
    <3>1. m \in Nat
      BY FluxAssumption DEF Groups
    <3>2. /\ Len(c) = m + Size[g] /\ c[1] = <<g, 1>>
          /\ \A i \in 1 .. Size[g] - 1 : c[1 + m + i] = <<g, 1 + i>>
      BY <2>4, DenoisingPlaces, Zenon
    <3>. HIDE DEF c, m
    <3>3. CASE k = 1
      BY <2>1, <3>1, <3>2, <3>3
    <3>4. CASE k # 1
      <4>. DEFINE i == k - 1
      <4>1. i \in 1 .. Size[g] - 1 /\ 1 + i = k /\ 1 + m + i \in 1 .. Len(c)
        BY <2>1, <3>1, <3>2, <3>4
      <4>. HIDE DEF i
      <4>. QED
        BY <3>2, <4>1
    <3>. QED
      BY <3>3, <3>4
  <2>. QED
    BY <2>2, <2>3, <2>4 DEF Groups
<1>. HIDE DEF c
<1>3. Leads(Bins(c), <<g, k>>) /\ Bins(c) \in Seq(SoundStep)
  BY <1>1, <1>2, LeadsBins, BinsSound
<1>4. Fetch(NpuFile(pack)) \in Seq(SoundStep)
  <2>1. NpuFile(pack) \in Downloads
    BY DEF Downloads
  <2>. QED
    BY <2>1, FetchSound
<1>. QED
  BY <1>3, <1>4, LeadsJoined, Zenon DEF Unpack, c

LEMMA WhenSound ==
  ASSUME NEW s \in Seq(SoundStep), NEW condition
  PROVE  When(condition, s) \in Seq(SoundStep)
BY DEF When

\* Three lists, for the packs, and six, for the raw repository.
LEMMA LeadsThree ==
  ASSUME NEW a \in Seq(SoundStep), NEW b \in Seq(SoundStep), NEW c \in Seq(SoundStep),
         NEW f, Leads(a, f) \/ Leads(b, f) \/ Leads(c, f)
  PROVE  (a \o b) \o c \in Seq(SoundStep) /\ Leads((a \o b) \o c, f)
<1>1. a \o b \in Seq(SoundStep)
  BY Joined, Zenon
<1>2. (a \o b) \o c \in Seq(SoundStep)
  BY <1>1, Joined, Zenon
<1>3. Leads(a, f) \/ Leads(b, f) => Leads(a \o b, f)
  BY LeadsJoined, Zenon
<1>4. Leads(a \o b, f) \/ Leads(c, f) => Leads((a \o b) \o c, f)
  BY <1>1, LeadsJoined, Zenon
<1>. QED
  BY <1>2, <1>3, <1>4, Zenon

LEMMA LeadsPacked ==
  ASSUME NEW groups, NEW g \in Groups \ {"tokenizer"}, g \in groups, NEW k \in 1 .. Size[g]
  PROVE  Leads(PackedSteps(groups), <<g, k>>)
<1>. DEFINE one == When(groups \cap {"transformer", "final"} # {}, Unpack("denoising"))
            two == When("text" \in groups, Unpack("text"))
            three == When("vae" \in groups, Unpack("vae"))
<1>1. ASSUME NEW pack \in Packs
      PROVE  Unpack(pack) \in Seq(SoundStep)
  <2>1. NpuFile(pack) \in Downloads
    BY DEF Downloads
  <2>2. Fetch(NpuFile(pack)) \in Seq(SoundStep)
    BY <2>1, FetchSound
  <2>3. Bins(Contents(pack)) \in Seq(SoundStep)
    BY ContentsSound, BinsSound
  <2>. QED
    BY <2>2, <2>3, Joined, Zenon DEF Unpack
<1>2. {"denoising", "text", "vae"} \subseteq Packs
  BY DEF Packs
<1>3. one \in Seq(SoundStep) /\ two \in Seq(SoundStep) /\ three \in Seq(SoundStep)
  BY <1>1, <1>2, WhenSound
<1>4. CASE g \in {"transformer", "final"}
  <2>1. one = Unpack("denoising")
    BY <1>4 DEF When
  <2>2. Leads(one, <<g, k>>)
    BY <1>2, <1>4, <2>1, LeadsContents
  <2>. QED
    BY <1>3, <2>2, LeadsThree, Zenon DEF PackedSteps
<1>5. CASE g = "text"
  <2>1. two = Unpack("text")
    BY <1>5 DEF When
  <2>2. Leads(two, <<g, k>>)
    BY <1>2, <1>5, <2>1, LeadsContents
  <2>. QED
    BY <1>3, <2>2, LeadsThree, Zenon DEF PackedSteps
<1>6. CASE g = "vae"
  <2>1. three = Unpack("vae")
    BY <1>6 DEF When
  <2>2. Leads(three, <<g, k>>)
    BY <1>2, <1>6, <2>1, LeadsContents
  <2>. QED
    BY <1>3, <2>2, LeadsThree, Zenon DEF PackedSteps
<1>. QED
  BY <1>4, <1>5, <1>6 DEF Groups

LEMMA LeadsTokenizer ==
  ASSUME NEW groups, "tokenizer" \in groups
  PROVE  Leads(TokenizerSteps(groups), Tokenizer)
<1>1. TokenizerSteps(groups) = << Copy(Tokenizer, RawFile("tokenizer")) >>
  BY Zenon DEF TokenizerSteps, When, Tokenizer
<1>2. Copy(Tokenizer, RawFile("tokenizer")).op = "copy" /\
      Copy(Tokenizer, RawFile("tokenizer")).file = Tokenizer
  BY DEF Copy
<1>. QED
  BY <1>1, <1>2 DEF Leads

LEMMA LeadsRaw ==
  ASSUME repo \in RepoType, NEW groups, NEW g \in Renamed \cup {"tokenizer"},
         g \in groups, NEW k \in 1 .. Size[g]
  PROVE  Leads(RawSteps(groups), <<g, k>>)
<1>. DEFINE shards(n) == Fetch(RawFile(n)) \o Bins(FilesOf(n))
            info == When(groups \cap {"transformer", "text"} # {}, Fetch(RawFile("info")))
            transformer == When("transformer" \in groups, shards("transformer"))
            text == When("text" \in groups, shards("text"))
            tokenizer == TokenizerSteps(groups)
            final == When("final" \in groups, shards("final"))
            vae == When("vae" \in groups, VaeSteps)
            f == <<g, k>>
<1>1. info \in Seq(SoundStep)
  <2>1. RawFile("info") \in Downloads
    BY DEF Downloads
  <2>. QED
    BY <2>1, FetchSound, WhenSound
<1>2. ASSUME NEW n \in {"transformer", "text", "final"}
      PROVE  shards(n) \in Seq(SoundStep) /\ (n = g => Leads(shards(n), f))
  <2>1. RawFile(n) \in Downloads /\ n \in Groups
    BY DEF Downloads, Groups
  <2>2. Fetch(RawFile(n)) \in Seq(SoundStep)
    BY <2>1, FetchSound
  <2>3. Bins(FilesOf(n)) \in Seq(SoundStep)
    BY <2>1, FilesSound, BinsSound
  <2>4. shards(n) \in Seq(SoundStep)
    BY <2>2, <2>3, Joined, Zenon
  <2>5. n = g => Leads(Bins(FilesOf(n)), f)
    BY <2>1, LeadsFiles
  <2>6. n = g => Leads(shards(n), f)
    BY <2>2, <2>3, <2>5, LeadsJoined, Zenon
  <2>. QED
    BY <2>4, <2>6
<1>3. VaeSteps \in Seq(SoundStep) /\ (g = "vae" => Leads(VaeSteps, f))
  <2>1. "text" \in Groups
    BY DEF Groups
  <2>2. VaeSteps \in Seq(SoundStep)
    BY <2>1, VaeSealing DEF Sealing
  <2>3. ASSUME g = "vae"
        PROVE  Leads(VaeSteps, f)
    <3>1. VaeSteps = Fetch(NpuFile("info")) \o << [op |-> "throw"] >>
      BY <2>3, Zenon DEF VaeSteps, VaeAtRoot, Renamed
    <3>2. NpuFile("info") \in Downloads
      BY DEF Downloads
    <3>3. [op |-> "throw"] \in SoundStep
      BY DEF SoundStep
    <3>. DEFINE stop == << [op |-> "throw"] >>
    <3>4. stop \in Seq(SoundStep) /\ Leads(stop, f)
      BY <3>3 DEF Leads
    <3>. HIDE DEF stop
    <3>5. Fetch(NpuFile("info")) \in Seq(SoundStep)
      BY <3>2, FetchSound
    <3>6. Leads(Fetch(NpuFile("info")) \o stop, f)
      BY <3>4, <3>5, LeadsJoined, Zenon
    <3>. QED
      BY <3>1, <3>6, Zenon DEF stop
  <2>. QED
    BY <2>2, <2>3
<1>. HIDE DEF shards
<1>4. transformer \in Seq(SoundStep) /\ text \in Seq(SoundStep) /\ final \in Seq(SoundStep)
  BY <1>2, WhenSound
<1>5. vae \in Seq(SoundStep) /\ tokenizer \in Seq(SoundStep)
  BY <1>3, WhenSound, TokenizerSound
<1>6. \/ Leads(transformer, f) \/ Leads(text, f) \/ Leads(tokenizer, f)
      \/ Leads(final, f) \/ Leads(vae, f)
  <2>1. CASE g = "transformer"
    BY <1>2, <2>1 DEF When
  <2>2. CASE g = "text"
    BY <1>2, <2>2 DEF When
  <2>3. CASE g = "final"
    BY <1>2, <2>3 DEF When
  <2>4. CASE g = "vae"
    BY <1>3, <2>4 DEF When
  <2>5. CASE g = "tokenizer"
    <3>1. f = Tokenizer
      BY <2>5, FluxAssumption DEF Tokenizer
    <3>. QED
      BY <2>5, <3>1, LeadsTokenizer
  <2>. QED
    BY <2>1, <2>2, <2>3, <2>4, <2>5 DEF Renamed, Groups
<1>. HIDE DEF info, transformer, text, tokenizer, final, vae, f
<1>. DEFINE three == (info \o transformer) \o text
<1>7. /\ three \in Seq(SoundStep)
      /\ Leads(transformer, f) \/ Leads(text, f) => Leads(three, f)
  <2>1. info \o transformer \in Seq(SoundStep)
    BY <1>1, <1>4, Joined, Zenon
  <2>2. three \in Seq(SoundStep)
    BY <1>4, <2>1, Joined, Zenon
  <2>. QED
    BY <1>1, <1>4, <2>2, LeadsThree, Zenon
<1>. HIDE DEF three
<1>. DEFINE five == (three \o tokenizer) \o final
<1>8. /\ five \in Seq(SoundStep)
      /\ Leads(three, f) \/ Leads(tokenizer, f) \/ Leads(final, f) => Leads(five, f)
  <2>1. three \o tokenizer \in Seq(SoundStep)
    BY <1>5, <1>7, Joined, Zenon
  <2>2. five \in Seq(SoundStep)
    BY <1>4, <2>1, Joined, Zenon
  <2>. QED
    BY <1>4, <1>5, <1>7, <2>2, LeadsThree, Zenon
<1>. HIDE DEF five
<1>9. Leads(five \o vae, f)
  BY <1>5, <1>6, <1>7, <1>8, LeadsJoined, Zenon
<1>. QED
  BY <1>9, Zenon DEF RawSteps, five, three, info, transformer, text, tokenizer, final,
     vae, shards, f


\* The server goes on with the first step, or with the next.
Goes ==
  /\ pc = "preparing" /\ todo # << >>
  /\ todo' \in {todo, Tail(todo)}
  /\ UNCHANGED <<pc, config, need, source, history>>

StepTaken ==
  \/ UNCHANGED <<todo, out>> /\ stage # "copying"
  \/ OtherDone /\ Head(todo).op = "fetch" /\ stage # "copying"
  \/ SkipFetch \/ NoTensor \/ KeepBin \/ ReplaceBin \/ RenameBin
  \/ KeepCopy \/ BeginCopy \/ EndCopy

LEMMA TailLeads ==
  ASSUME IInv, todo # << >>, todo' = Tail(todo), NEW f, Leads(todo, f),
         Head(todo).op # "throw",
         Head(todo).op \in {"bin", "copy"} => File # f
  PROVE  Leads(todo', f)
<1>1. todo \in Seq(SoundStep)
  BY DEF IInv
<1>2. /\ Len(todo') = Len(todo) - 1 /\ Len(todo) \in Nat
      /\ \A i \in 1 .. Len(todo') : todo'[i] = todo[i + 1]
      /\ Head(todo) = todo[1]
  BY <1>1, HeadTailProperties
<1>3. PICK i \in 1 .. Len(todo) : \/ todo[i].op \in {"bin", "copy"} /\ todo[i].file = f
                                 \/ todo[i].op = "throw"
  BY DEF Leads
<1>4. i # 1
  BY <1>2, <1>3 DEF File
<1>5. i - 1 \in 1 .. Len(todo') /\ (i - 1) + 1 = i
  BY <1>2, <1>3, <1>4
<1>6. todo'[i - 1] = todo[i]
  BY <1>2, <1>5
<1>. QED
  BY <1>3, <1>5, <1>6 DEF Leads

LEMMA HeadLeads ==
  ASSUME IInv, todo # << >>, Head(todo).op \in {"bin", "copy"}
  PROVE  Leads(todo, File)
<1>1. Len(todo) \in Nat /\ Len(todo) >= 1 /\ Head(todo) = todo[1]
  BY DEF IInv
<1>2. 1 \in 1 .. Len(todo) /\ todo[1].op \in {"bin", "copy"} /\ todo[1].file = File
  BY <1>1 DEF File
<1>. QED
  BY <1>2 DEF Leads

\* What is done with the first step leaves every wanted file there or due.
LEMMA DueStep ==
  ASSUME IInv, Goes, NotTorn,
         NEW g \in Filled, NEW k \in 1 .. Size[g], Due(g, k),
         StepTaken
  PROVE  Due(g, k)'
<1>. DEFINE f == <<g, k>>
<1>1. g \in Groups /\ f \in Outputs /\ out \in [Outputs -> FileState]
  <2>1. g \in Groups
    BY DEF Filled, Renamed, Groups
  <2>. QED
    BY <2>1, LastPlaces DEF IInv, TypeOK
<1>2. /\ g \in Renamed => out[f] \in {"absent", "whole"} /\ f \notin CopiedFiles
      /\ g \notin Renamed => f = Tokenizer /\ g = "tokenizer"
  BY <1>1, FluxAssumption DEF IInv, NeverTorn, CopiedFiles, Filled, Tokenizer
<1>3. CASE out[f] = "whole" /\ out'[f] = "whole"
  BY <1>3 DEF Due
<1>4. CASE g = "tokenizer" /\ source = "packs"
  BY <1>4 DEF Due, Goes
<1>5. ASSUME todo' = todo, Leads(todo, f)
      PROVE  Due(g, k)'
  BY <1>5 DEF Due
<1>6. ASSUME todo' = Tail(todo), Leads(todo, f), Head(todo).op # "throw",
             Head(todo).op \in {"bin", "copy"} => File # f
      PROVE  Due(g, k)'
  BY <1>6, TailLeads DEF Due, Goes
<1>7. out[f] = "whole" \/ Leads(todo, f) \/ (g = "tokenizer" /\ source = "packs")
  BY DEF Due
<1>8. CASE UNCHANGED <<todo, out>>
  BY <1>3, <1>4, <1>5, <1>7, <1>8
<1>9. CASE OtherDone /\ Head(todo).op = "fetch"
  BY <1>3, <1>4, <1>6, <1>7, <1>9 DEF OtherDone
<1>10. CASE SkipFetch
  <2>1. todo' = Tail(todo) /\ UNCHANGED out /\ Head(todo).op = "mirror"
    BY <1>10 DEF SkipFetch, Taking, Advance
  <2>. QED
    BY <1>3, <1>4, <1>6, <1>7, <2>1
<1>14. CASE NoTensor
  <2>1. /\ todo' = Tail(todo) /\ UNCHANGED out /\ Head(todo).op = "bin"
        /\ File[1] \in DOMAIN repo.raw /\ File[2] \notin repo.raw[File[1]]
    BY <1>14 DEF NoTensor, InShards, Taking, Advance
  <2>2. g \in DOMAIN repo.raw => repo.raw[g] = 1 .. Size[g]
    BY DEF Filled, Led
  <2>3. File = f => File[1] = g /\ File[2] = k
    OBVIOUS
  <2>4. File # f
    BY <2>1, <2>2, <2>3
  <2>. QED
    BY <1>3, <1>4, <1>6, <1>7, <2>1, <2>4
<1>11. CASE KeepBin \/ KeepCopy
  <2>1. /\ todo' = Tail(todo) /\ UNCHANGED out /\ Head(todo).op \in {"bin", "copy", "mirror"}
        /\ Present(File) /\ ~config.force /\ stage # "copying"
    BY <1>11 DEF KeepBin, KeepCopy, Copying, Taking, Advance, Keeps
  <2>2. CASE File = f
    <3>1. out[f] \in {"part", "whole"}
      BY <2>1, <2>2 DEF Present
    <3>2. g \notin Renamed => out[f] # "part"
      BY <1>2, <2>1 DEF NotTorn, Filled
    <3>. QED
      BY <1>2, <1>3, <2>1, <3>1, <3>2
  <2>3. CASE File # f
    BY <1>3, <1>4, <1>6, <1>7, <2>1, <2>3
  <2>. QED
    BY <2>2, <2>3
<1>12. CASE ReplaceBin \/ BeginCopy
  <2>1. todo' = todo /\ Head(todo).op \in {"bin", "copy", "mirror"}
    BY <1>12 DEF ReplaceBin, BeginCopy, Copying, Taking, Enter
  <2>2. CASE File = f
    <3>1. Head(todo).op # "mirror"
      <4>1. Head(todo) \in SoundStep
        BY HeadTailProperties DEF IInv, Goes
      <4>2. Head(todo).op = "mirror" => File \in CopiedFiles /\ File[1] # "tokenizer"
        BY <4>1 DEF SoundStep, File
      <4>. QED
        BY <1>2, <2>2, <4>2
    <3>. QED
      BY <1>5, <2>1, <2>2, <3>1, HeadLeads DEF Goes
  <2>3. CASE File # f
    <3>1. out'[f] = out[f]
      BY <1>1, <1>12, <2>3 DEF ReplaceBin, BeginCopy
    <3>. QED
      BY <1>3, <1>4, <1>5, <1>7, <2>1, <3>1
  <2>. QED
    BY <2>2, <2>3
<1>13. CASE RenameBin \/ EndCopy
  <2>1. /\ todo' = Tail(todo) /\ Head(todo).op \in {"bin", "copy", "mirror"}
        /\ out' = [out EXCEPT ![File] = "whole"]
    BY <1>13 DEF RenameBin, EndCopy, Copying, Taking, Advance
  <2>2. CASE File = f
    <3>1. out'[f] = "whole"
      BY <1>1, <2>1, <2>2
    <3>. QED
      BY <3>1 DEF Due
  <2>3. CASE File # f
    <3>1. out'[f] = out[f]
      BY <1>1, <2>1, <2>3
    <3>. QED
      BY <1>3, <1>4, <1>6, <1>7, <2>1, <2>3, <3>1
  <2>. QED
    BY <2>2, <2>3
<1>. QED
  BY <1>8, <1>9, <1>10, <1>11, <1>12, <1>13, <1>14 DEF StepTaken


LEMMA NotTornStep ==
  ASSUME IInv, Goes, NotTorn, StepTaken
  PROVE  NotTorn'
<1>. SUFFICES ASSUME "tokenizer" \in wanted, out'[Tokenizer] = "part", ~config.force
              PROVE  (todo # << >> /\ File = Tokenizer /\ stage = "copying")'
  BY DEF NotTorn, Goes, history
<1>1. out \in [Outputs -> FileState] /\ Tokenizer \in Outputs
  BY FluxAssumption, LastPlaces DEF IInv, TypeOK, Tokenizer, Groups
<1>2. ASSUME stage # "copying"
      PROVE  out[Tokenizer] # "part"
  BY <1>2 DEF NotTorn
<1>3. CASE UNCHANGED out /\ stage # "copying"
  BY <1>2, <1>3
<1>4. CASE SkipFetch \/ NoTensor \/ KeepBin \/ KeepCopy
  BY <1>3, <1>4 DEF SkipFetch, NoTensor, KeepBin, KeepCopy, Copying, Taking
<1>5. CASE ReplaceBin \/ RenameBin
  <2>1. stage # "copying" /\ \E s \in {"absent", "whole"} : out' = [out EXCEPT ![File] = s]
    BY <1>5 DEF ReplaceBin, RenameBin, Taking
  <2>. QED
    BY <1>1, <1>2, <2>1
<1>6. CASE BeginCopy
  <2>1. /\ stage # "copying" /\ todo' = todo /\ stage' = "copying"
        /\ \E s \in {"empty", "part"} : out' = [out EXCEPT ![File] = s]
    BY <1>6 DEF BeginCopy, Copying, Taking, Enter
  <2>2. File = Tokenizer
    BY <1>1, <1>2, <2>1
  <2>. QED
    BY <2>1, <2>2 DEF Goes, File
<1>7. CASE EndCopy
  <2>1. out' = [out EXCEPT ![File] = "whole"]
    BY <1>7 DEF EndCopy
  <2>2. CASE File = Tokenizer
    BY <1>1, <2>1, <2>2
  <2>3. CASE File # Tokenizer
    BY <1>1, <2>1, <2>3 DEF NotTorn
  <2>. QED
    BY <2>2, <2>3
<1>. QED
  BY <1>3, <1>4, <1>5, <1>6, <1>7 DEF StepTaken, OtherDone

\* How a preparation goes on that has not given up the packs.
LEMMA GoesOn ==
  ASSUME IInv, Next, pc' = "preparing", ~fellback'
  PROVE  (Goes /\ StepTaken) \/ NextSource \/ CheckWeights
<1>1. ~Throw
  BY DEF Throw, Abort, Settle
<1>2. CASE Start \/ Request \/ Serve \/ Crash
  BY <1>2 DEF Start, Request, BeginCheck, Serve, Crash, Settle
<1>3. CASE Clean
  BY <1>3 DEF Clean, RemoveArtifact, FinishPreparation, Conclude, Abort, Settle, process
<1>4. CASE SkipFetch \/ NoTensor \/ KeepBin \/ RenameBin \/ KeepCopy \/ EndCopy
  <2>1. Goes
    BY <1>4 DEF SkipFetch, NoTensor, KeepBin, RenameBin, KeepCopy, EndCopy, Copying, Taking,
       Advance,
       Goes
  <2>. QED
    BY <1>4, <2>1 DEF StepTaken
<1>5. CASE ReplaceBin \/ BeginCopy
  <2>1. Goes
    BY <1>5 DEF ReplaceBin, BeginCopy, Copying, Taking, Enter, Goes
  <2>. QED
    BY <1>5, <2>1 DEF StepTaken
<1>6. CASE UseCached \/ FinishDownload
  <2>1. /\ pc = "preparing" /\ todo # << >> /\ stage # "copying"
        /\ Fetched /\ UNCHANGED <<out, history>>
    BY <1>6 DEF UseCached, FinishDownload, Fetching, Downloading, Taking
  <2>2. Goes
    BY <2>1 DEF Fetched, Advance, Enter, Goes
  <2>3. StepTaken
    BY <2>1 DEF Fetched, Advance, Enter, StepTaken, OtherDone
  <2>. QED
    BY <2>2, <2>3
<1>7. CASE StartDownload
  <2>1. /\ pc = "preparing" /\ todo # << >> /\ stage # "copying"
        /\ Enter("download") /\ UNCHANGED <<out, history>>
    BY <1>7 DEF StartDownload, Fetching, Taking
  <2>2. Goes
    BY <2>1 DEF Enter, Goes
  <2>. QED
    BY <2>1, <2>2 DEF Enter, StepTaken
<1>8. CASE DownloadFails \/ BinFails \/ CopyFails \/ NoVaeFiles
  BY <1>1, <1>8 DEF DownloadFails, BinFails, CopyFails, NoVaeFiles
<1>. QED
  BY <1>2, <1>3, <1>4, <1>5, <1>6, <1>7, <1>8 DEF Next, Check, FetchFile, WriteBin, CopyFile


LEMMA SourceWanted ==
  ASSUME IInv, WantedIInv, NextSource, UNCHANGED repo, ~fellback
  PROVE  WantedIInv'
<1>1. /\ pc = "preparing" /\ todo = << >> /\ UNCHANGED <<out, history>>
      /\ source # "mirror" /\ (source = "packs" => need = wanted)
      /\ Filled' = Filled
  BY DEF NextSource, WantedIInv, Filled, Renamed, Led, history
<1>2. ASSUME NEW g \in Filled, NEW k \in 1 .. Size[g]
      PROVE  out[<<g, k>>] = "whole" \/ (g = "tokenizer" /\ source = "packs")
  <2>1. Due(g, k)
    BY <1>1 DEF WantedIInv
  <2>2. ~Leads(todo, <<g, k>>)
    BY <1>1 DEF Leads
  <2>. QED
    BY <2>1, <2>2 DEF Due
<1>3. NotTorn /\ repo \in RepoType
  BY <1>1, Known DEF WantedIInv
<1>4. ASSUME UNCHANGED config
      PROVE  NotTorn'
  BY <1>1, <1>3, <1>4 DEF NotTorn, history
<1>5. CASE source = "packs"
  <2>1. TakeFrom("tokenizer", need, TokenizerSteps(need)) /\ pc' = "preparing"
    BY <1>1, <1>5 DEF NextSource
  <2>2. source' = "tokenizer" /\ todo' = TokenizerSteps(need) /\ UNCHANGED config
    BY <2>1 DEF TakeFrom
  <2>3. ASSUME NEW g \in Filled, NEW k \in 1 .. Size[g]
        PROVE  Due(g, k)'
    <3>1. CASE out[<<g, k>>] = "whole"
      BY <1>1, <3>1 DEF Due
    <3>2. CASE g = "tokenizer"
      <4>1. <<g, k>> = Tokenizer /\ "tokenizer" \in need
        BY <1>1, <1>5, <3>2, FluxAssumption DEF Tokenizer, Filled
      <4>. QED
        BY <2>2, <4>1, LeadsTokenizer DEF Due
    <3>. QED
      BY <1>2, <3>1, <3>2
  <2>. QED
    BY <1>1, <1>4, <2>1, <2>2, <2>3 DEF WantedIInv
<1>6. CASE source = "tokenizer"
  <2>1. pc' = "preparing" /\ source' = "raw" /\ UNCHANGED config
    BY <1>1, <1>6 DEF NextSource, TakeRaw, TakeFrom
  <2>2. ASSUME NEW g \in Filled, NEW k \in 1 .. Size[g]
        PROVE  Due(g, k)'
    BY <1>1, <1>2, <1>6, <2>2 DEF Due
  <2>. QED
    BY <1>1, <1>4, <2>1, <2>2 DEF WantedIInv
<1>7. CASE source = "raw"
  <2>1. pc' \in {"cleaning", "down", "serving"}
    BY <1>7 DEF NextSource, Settle, Abort
  <2>2. \A g \in Filled' : Whole(g)'
    BY <1>1, <1>2, <1>7 DEF Whole
  <2>. QED
    BY <2>1, <2>2 DEF WantedIInv
<1>. QED
  BY <1>1, <1>5, <1>6, <1>7, Known DEF Control

LEMMA CheckWanted ==
  ASSUME IInv, CheckWeights, UNCHANGED repo
  PROVE  WantedIInv'
<1>. DEFINE groups == Needed(config.force)
<1>1. /\ pc = "checking" /\ ~prepared
      /\ wanted' = need' /\ UNCHANGED <<out, fellback, prepared>>
      /\ pc' # "cleaning"
  BY DEF CheckWeights, BeginPreparation, Conclude, Abort, Settle, IInv
<1>2. ASSUME pc' = "preparing"
      PROVE  /\ source' # "mirror" /\ (source' = "packs" => need' = wanted')
             /\ \A g \in Filled' : \A k \in 1 .. Size[g] : Due(g, k)'
             /\ NotTorn'
  <2>1. /\ groups # {}
        /\ \/ TakeFrom("packs", groups, PackedSteps(groups))
           \/ TakeFrom("raw", groups, RawSteps(groups))
    BY <1>2 DEF CheckWeights, BeginPreparation, Conclude, Abort, Settle
  <2>2. /\ wanted' = groups /\ need' = groups /\ UNCHANGED config
        /\ \/ source' = "packs" /\ todo' = PackedSteps(groups)
           \/ source' = "raw" /\ todo' = RawSteps(groups)
    BY <1>1, <2>1 DEF TakeFrom
  <2>3. ASSUME "tokenizer" \in groups, ~config.force
        PROVE  out[Tokenizer] # "part"
    <3>1. ~GroupReady("tokenizer")
      BY <2>3 DEF Needed
    <3>2. Judged["tokenizer"] \subseteq 1 .. 1
      BY FluxAssumption DEF Groups
    <3>. QED
      BY <3>1, <3>2 DEF GroupReady, Present, Tokenizer
  <2>. HIDE DEF groups
  <2>4. NotTorn'
    BY <1>1, <2>2, <2>3 DEF NotTorn
  <2>5. ASSUME NEW g \in Filled', NEW k \in 1 .. Size[g]
        PROVE  Due(g, k)'
    <3>1. g \in groups /\ g \in Renamed \cup {"tokenizer"} /\ g \in Groups
      BY <2>2, Still DEF Filled, Renamed, Groups
    <3>2. CASE source' = "packs" /\ todo' = PackedSteps(groups)
      BY <3>1, <3>2, LeadsPacked DEF Due
    <3>3. CASE source' = "raw" /\ todo' = RawSteps(groups)
      BY <3>1, <3>3, LeadsRaw, Known DEF Due
    <3>. QED
      BY <2>2, <3>2, <3>3
  <2>. QED
    BY <2>2, <2>4, <2>5
<1>. QED
  BY <1>1, <1>2 DEF WantedIInv

LEMMA NextWanted ==
  ASSUME IInv, WantedIInv, Next
  PROVE  WantedIInv'
<1>1. UNCHANGED repo /\ Renamed' = Renamed /\ Led' = Led
  BY Still DEF Next
<1>2. CASE NextSource /\ ~fellback
  BY <1>1, <1>2, SourceWanted
<1>3. CASE CheckWeights
  BY <1>1, <1>3, CheckWanted
<1>4. CASE NextSource /\ fellback
  <2>1. fellback' = TRUE
    BY <1>4 DEF NextSource, history, IInv, TypeOK
  <2>. QED
    BY <2>1 DEF WantedIInv
<1>5. CASE ~NextSource /\ ~CheckWeights
  <2>1. ASSUME pc' = "preparing", ~fellback'
        PROVE  /\ source' # "mirror" /\ (source' = "packs" => need' = wanted')
               /\ \A g \in Filled' : \A k \in 1 .. Size[g] : Due(g, k)'
               /\ NotTorn'
    <3>1. Goes /\ StepTaken
      BY <1>5, <2>1, GoesOn
    <3>2. /\ source # "mirror" /\ (source = "packs" => need = wanted)
          /\ \A g \in Filled : \A k \in 1 .. Size[g] : Due(g, k)
          /\ NotTorn
      BY <2>1, <3>1 DEF Goes, history, WantedIInv
    <3>3. NotTorn'
      BY <3>1, <3>2, NotTornStep
    <3>4. Filled' = Filled
      BY <1>1, <3>1 DEF Filled, Goes, history
    <3>5. \A g \in Filled : \A k \in 1 .. Size[g] : Due(g, k)'
      BY <3>1, <3>2, DueStep
    <3>. QED
      BY <3>1, <3>2, <3>3, <3>4, <3>5 DEF Goes, history
  <2>2. ASSUME pc' = "cleaning" \/ (pc' = "ready" /\ prepared'), ~fellback',
               NEW g \in Filled'
        PROVE  Whole(g)'
    <3>1. pc = "cleaning" /\ UNCHANGED <<out, wanted, fellback>>
      <4>1. CASE Clean
        BY <4>1 DEF Clean, RemoveArtifact, FinishPreparation, history
      <4>2. CASE Start \/ Request \/ Serve \/ Crash
        BY <2>2, <4>2 DEF Start, Request, BeginCheck, Serve, Crash, Settle
      <4>3. CASE FetchFile \/ WriteBin \/ CopyFile
        <5>1. pc = "preparing"
          BY <4>3 DEF FetchFile, SkipFetch, UseCached, StartDownload, FinishDownload,
             DownloadFails, Fetching, Downloading, WriteBin, NoTensor, KeepBin, ReplaceBin,
       RenameBin,
             BinFails, CopyFile, KeepCopy, BeginCopy, EndCopy, CopyFails, NoVaeFiles,
             Copying, Taking
        <5>2. pc' = pc \/ Throw
          BY <4>3 DEF FetchFile, SkipFetch, UseCached, StartDownload, FinishDownload,
             DownloadFails, WriteBin, NoTensor, KeepBin, ReplaceBin, RenameBin, BinFails, CopyFile,
             KeepCopy, BeginCopy, EndCopy, CopyFails, NoVaeFiles, Fetched, Advance, Enter
        <5>. QED
          BY <2>2, <5>1, <5>2 DEF Throw, Abort, Settle
      <4>. QED
        BY <1>5, <4>1, <4>2, <4>3 DEF Next, Check
    <3>2. g \in Filled
      BY <1>1, <2>2, <3>1 DEF Filled
    <3>3. Whole(g)
      BY <2>2, <3>1, <3>2 DEF WantedIInv
    <3>. QED
      BY <3>1, <3>3 DEF Whole
  <2>. QED
    BY <2>1, <2>2 DEF WantedIInv
<1>. QED
  BY <1>2, <1>3, <1>4, <1>5

\* The invariant of what was wanted: every such file is there or due, until the
\* preparation finishes, fails or gives up the packs.
THEOREM WantedInvariance == Spec => []WantedIInv
<1>1. Init => WantedIInv
  BY DEF Init, WantedIInv
<1>2. ASSUME IInv, WantedIInv, [Next]_vars
      PROVE  WantedIInv'
  <2>1. CASE Next
    BY <1>2, <2>1, NextWanted
  <2>2. CASE UNCHANGED vars
    <3>1. /\ UNCHANGED <<repo, pc, config, need, source, todo, stage, out>>
          /\ UNCHANGED <<wanted, fellback, prepared>>
      BY <2>2 DEF vars, process, history
    <3>2. Filled' = Filled /\ (NotTorn => NotTorn')
      BY <3>1 DEF Filled, Renamed, Led, NotTorn, File
    <3>3. \A g, k : Due(g, k) => Due(g, k)'
      BY <3>1 DEF Due
    <3>4. \A g : Whole(g) => Whole(g)'
      BY <3>1 DEF Whole
    <3>. QED
      BY <1>2, <3>1, <3>2, <3>3, <3>4 DEF WantedIInv
  <2>. QED
    BY <1>2, <2>1, <2>2
<1>3. IInv /\ WantedIInv /\ [Next]_vars => WantedIInv'
  BY <1>2
<1>. QED
  BY <1>1, <1>3, Invariance, PTL DEF Spec

\* A preparation that did not have to give up the packs leaves the groups it found
\* wanting complete, whatever crashes and failures went before it.
THEOREM WantedWhole == Spec => []WantedGroupsWhole
<1>1. WantedIInv => WantedGroupsWhole
  BY DEF WantedIInv, WantedGroupsWhole, Filled
<1>. QED
  BY <1>1, WantedInvariance, PTL

=============================================================================
