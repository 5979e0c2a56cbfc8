------------------------- MODULE RequestParserProofs -------------------------
(***************************************************************************)
(* Proofs about how a server starts and what it makes of a request's body,  *)
(* for any installations, any arguments and any body the readers are sent:  *)
(* the paths main settles on are of one installation, the pictures it keeps *)
(* are not in a folder it deletes, and a form is read part by part as the   *)
(* client meant it, the same as an object that says the same.               *)
(***************************************************************************)
EXTENDS RequestParser, FiniteSetTheorems, SequenceTheorems, WellFoundedInduction, TLAPS

\* A set of places has a first one.
LEMMA FirstOfSet ==
  ASSUME NEW S \in SUBSET Nat, S # {}
  PROVE  Min(S) \in S /\ \A k \in S : Min(S) <= k
<1>1. IsWellFoundedOn(OpToRel(<, Nat), Nat)
  BY NatLessThanWellFounded
<1>2. \E x \in S : \A y \in S : ~ (<<y, x>> \in OpToRel(<, Nat))
  BY <1>1, WFMin
<1>3. \A x, y \in Nat : x < y => <<x, y>> \in OpToRel(<, Nat)
  BY Zenon DEF OpToRel
<1>4. \E x \in S : \A y \in S : ~ (y < x)
  BY <1>2, <1>3, Zenon
<1>5. \E x \in S : \A y \in S : x <= y
  BY <1>4
<1> QED BY <1>5 DEF Min

\* 2 ^ n counts the subsets of a set of n.
LEMMA PowerPositive ==
  ASSUME NEW n \in Nat
  PROVE  2 ^ n \in Nat /\ 2 ^ n > 0
<1> DEFINE S == 1 .. n
<1>1. IsFiniteSet(S) /\ Cardinality(S) = n
  <2>1. IsFiniteSet(S) /\ Cardinality(S) = IF 1 > n THEN 0 ELSE n - 1 + 1
    BY FS_Interval
  <2> QED BY <2>1
<1> HIDE DEF S
<1>2. IsFiniteSet(SUBSET S) /\ Cardinality(SUBSET S) = 2 ^ n
  BY <1>1, FS_SUBSET
<1>3. Cardinality(SUBSET S) \in Nat /\ Cardinality(SUBSET S) # 0
  <2>1. S \in SUBSET S
    OBVIOUS
  <2> QED BY <1>2, <2>1, FS_CardinalityType, FS_EmptySet
<1> QED BY <1>2, <1>3

\* The ints are not empty.
LEMMA IntHalfPositive == IntHalf \in Nat /\ IntHalf > 0
<1>1. IntBits - 1 \in Nat
  BY StartAssumption
<1> QED BY <1>1, PowerPositive DEF IntHalf

\* The search finds a complete installation, and the first one on its way, if there is
\* any.
LEMMA RootFound ==
  /\ InstallRoot = None \/ InstallRoot \in start.installs
  /\ InstallRoot # None =>
       \E k \in DOMAIN Candidates :
         /\ InstallRoot = Candidates[k]
         /\ \A j \in DOMAIN Candidates : Candidates[j] \in start.installs => k <= j
<1> DEFINE complete == {k \in DOMAIN Candidates : Candidates[k] \in start.installs}
<1>1. complete \in SUBSET Nat
  <2>1. DOMAIN Candidates = 1 .. 2 * Len(SearchRoots)
    BY DEF Candidates
  <2>2. \A k \in 1 .. 2 * Len(SearchRoots) : k \in Nat
    OBVIOUS
  <2> QED BY <2>1, <2>2
<1>2. complete # {} => Min(complete) \in complete /\ \A k \in complete : Min(complete) <= k
  BY <1>1, FirstOfSet
<1>3. InstallRoot = IF complete = {} THEN None ELSE Candidates[Min(complete)]
  BY DEF InstallRoot
<1>4. CASE complete = {}
  BY <1>3, <1>4
<1>5. CASE complete # {}
  BY <1>2, <1>3, <1>5
<1> QED BY <1>4, <1>5

\* Initially nothing is searched, read or chosen.
LEMMA StartInitIInv == StartInit => StartIInv
<1> SUFFICES ASSUME StartInit PROVE StartIInv
  OBVIOUS
<1>1. start.cwd \in Dirs \cup {None} /\ start.installs \subseteq Places
  BY StartAssumption DEF StartInit
<1>2. PathsOfOneRoot
  BY DEF StartInit, PathsOfOneRoot, Defaults
<1>3. OutputChosen
  BY DEF StartInit, OutputChosen
<1> QED BY <1>1, <1>2, <1>3 DEF StartIInv, StartInit

\* The paths stay those of one installation, flag by flag.
LEMMA PathsStep == StartIInv /\ StartNext => PathsOfOneRoot'
<1> SUFFICES ASSUME StartIInv, StartNext PROVE PathsOfOneRoot'
  OBVIOUS
<1> USE DEF StartIInv, Next1, Next2, Reading
<1>1. CASE FindInstall
  <2>1. InstallRoot \in Places \cup {None}
    BY RootFound
  <2>2. given = [f \in PathFields |-> None] /\ given' = given
    BY <1>1 DEF FindInstall, PathsOfOneRoot
  <2>3. paths' = PathsOf(InstallRoot) /\ phase' = "arguments"
    BY <1>1 DEF FindInstall
  <2>4. DOMAIN paths' = PathFields
    BY <2>3 DEF PathsOf, Defaults
  <2> QED BY <2>1, <2>2, <2>3, <2>4 DEF PathsOfOneRoot
<1>2. CASE TakePath
  <2> DEFINE field == Field(argv[i])
  <2>1. field \in PathFields
    BY <1>2 DEF TakePath, PathFields
  <2>2. Value # None
    <3>1. argv \in Seq(STRING) /\ i \in Nat /\ i < Len(argv)
      BY <1>2, StartAssumption DEF TakePath, HasValue
    <3>2. i + 1 \in DOMAIN argv
      BY <3>1
    <3> QED BY <3>2, StartAssumption DEF Value
  <2>3. PICK root \in Places \cup {None} : \A f \in PathFields :
          paths[f] = IF given[f] # None THEN <<given[f]>> ELSE PathsOf(root)[f]
    BY <1>2 DEF TakePath, PathsOfOneRoot
  <2>4. /\ paths' = [paths EXCEPT ![field] = <<Value>>]
        /\ given' = [given EXCEPT ![field] = Value]
        /\ phase' = "arguments"
    BY <1>2 DEF TakePath
  <2>5. DOMAIN paths = PathFields /\ DOMAIN given = PathFields
    BY DEF PathsOfOneRoot
  <2> HIDE DEF field
  <2>6. \A f \in PathFields :
          paths'[f] = IF given'[f] # None THEN <<given'[f]>> ELSE PathsOf(root)[f]
    BY <2>1, <2>2, <2>3, <2>4, <2>5
  <2> QED BY <2>4, <2>5, <2>6 DEF PathsOfOneRoot
<1>3. ASSUME UNCHANGED <<paths, given>>, phase # "search", phase' # "search"
      PROVE  PathsOfOneRoot'
  BY <1>3 DEF PathsOfOneRoot
<1>4. CASE TakeModel \/ TakeOutput \/ TakePort \/ TakeNumber \/ TakeKeep \/ TakeSwitch
  BY <1>3, <1>4 DEF TakeModel, TakeOutput, TakePort, TakeNumber, TakeKeep, TakeSwitch
<1>5. CASE Help \/ RejectArguments \/ LoseOutput \/ Fail
  BY <1>3, <1>5 DEF Help, RejectArguments, LoseOutput, Fail, Exit
<1>6. CASE ChooseOutput \/ Proceed
  BY <1>3, <1>6 DEF ChooseOutput, Proceed
<1> QED BY <1>1, <1>2, <1>4, <1>5, <1>6 DEF StartNext

\* Where pictures go is chosen from all the flags, and from nothing else.
LEMMA OutputStep == StartIInv /\ StartNext => OutputChosen'
<1> SUFFICES ASSUME StartIInv, StartNext PROVE OutputChosen'
  OBVIOUS
<1> USE DEF StartIInv, Next1, Next2, Reading
<1>1. CASE ChooseOutput
  <2>1. /\ output' = Absolute(Chosen) /\ phase' = "output"
        /\ UNCHANGED <<start, specified, settings>>
        /\ IsAbsolute(Chosen) \/ start.cwd # None
    BY <1>1 DEF ChooseOutput
  <2>2. output = IF specified THEN <<output[1]>> ELSE <<"..", "images">>
    BY <1>1 DEF ChooseOutput, OutputChosen
  <2>3. Chosen = IF ~settings.keep /\ ~specified THEN Temp ELSE output
    BY DEF Chosen
  <2>4. CASE IsAbsolute(Chosen)
    <3>1. output' = Chosen
      BY <2>1, <2>4 DEF Absolute
    <3>2. IsAbsolute(output)'
      BY <2>4, <3>1 DEF IsAbsolute
    <3>3. settings.keep /\ ~specified => output' # Temp
      BY <2>2, <2>3, <3>1 DEF Temp
    <3>4. ~settings.keep /\ ~specified => output' = Temp
      BY <2>3, <3>1
    <3> QED BY <2>1, <3>2, <3>3, <3>4 DEF OutputChosen
  <2>5. CASE ~IsAbsolute(Chosen)
    <3>1. output' = <<start.cwd>> \o Chosen /\ Chosen = output
      BY <2>1, <2>3, <2>5 DEF Absolute, IsAbsolute
    <3>2. output'[1] = start.cwd /\ (~specified => Len(output') = 3)
      <4>1. CASE specified
        <5> DEFINE value == output[1]
        <5>1. output' = <<start.cwd>> \o <<value>>
          BY <2>2, <3>1, <4>1
        <5>2. <<start.cwd>> \in Seq({start.cwd, value}) /\ <<value>> \in Seq({start.cwd, value})
          OBVIOUS
        <5> HIDE DEF value
        <5>3. output'[1] = start.cwd
          BY <5>1, <5>2, ConcatProperties
        <5> QED BY <4>1, <5>3
      <4>2. CASE ~specified
        <5> DEFINE S == {start.cwd, "..", "images"}
        <5>1. output' = <<start.cwd>> \o <<"..", "images">>
          BY <2>2, <3>1, <4>2
        <5>2. <<start.cwd>> \in Seq(S) /\ <<"..", "images">> \in Seq(S)
          OBVIOUS
        <5> HIDE DEF S
        <5>3. output'[1] = start.cwd /\ Len(output') = 3
          BY <5>1, <5>2, ConcatProperties
        <5> QED BY <4>2, <5>3
      <4> QED BY <4>1, <4>2
    <3>3. output'[1] \in Dirs
      BY <2>1, <2>5, <3>2
    <3>4. settings.keep /\ ~specified => output' # Temp
      <4>1. Len(Temp) = 1
        BY DEF Temp
      <4> QED BY <3>2, <4>1
    <3>5. settings.keep \/ specified
      BY <2>3, <2>5 DEF IsAbsolute
    <3> QED BY <2>1, <3>3, <3>4, <3>5 DEF OutputChosen
  <2> QED BY <2>4, <2>5
<1>2. CASE TakeOutput
  BY <1>2 DEF TakeOutput, OutputChosen
<1>3. ASSUME UNCHANGED <<output, specified>>, phase \in {"search", "arguments"},
             phase' = "arguments"
      PROVE  OutputChosen'
  BY <1>3 DEF OutputChosen
<1>4. CASE FindInstall \/ TakeModel \/ TakePath \/ TakePort \/ TakeNumber \/ TakeKeep
           \/ TakeSwitch
  BY <1>3, <1>4 DEF FindInstall, TakeModel, TakePath, TakePort, TakeNumber, TakeKeep, TakeSwitch
<1>5. CASE Help \/ RejectArguments \/ LoseOutput \/ Fail
  BY <1>5 DEF Help, RejectArguments, LoseOutput, Fail, Exit, OutputChosen
<1>6. CASE Proceed
  BY <1>6 DEF Proceed, OutputChosen, IsAbsolute
<1> QED BY <1>1, <1>2, <1>4, <1>5, <1>6 DEF StartNext

\* The other parts of StartIInv.
LEMMA PlainStep ==
  StartIInv /\ StartNext =>
    /\ start' = start /\ argv' = argv /\ i' \in Nat \ {0}
    /\ url' = port'
<1> SUFFICES ASSUME StartIInv, StartNext
             PROVE  /\ start' = start /\ argv' = argv /\ i' \in Nat \ {0}
                    /\ url' = port'
  OBVIOUS
<1> USE DEF StartIInv, Next1, Next2, Reading, Exit
<1>1. CASE FindInstall \/ ChooseOutput \/ Proceed
  BY <1>1 DEF FindInstall, ChooseOutput, Proceed
<1>2. CASE TakeModel
  <2>1. UNCHANGED <<start, argv, port, url>> /\ i' = i + 1
    BY <1>2, Zenon DEF TakeModel
  <2> QED BY <2>1
<1>3. CASE TakePath
  BY <1>3 DEF TakePath
<1>4. CASE TakeOutput
  BY <1>4 DEF TakeOutput
<1>5. CASE TakePort \/ TakeNumber
  BY <1>5 DEF TakePort, TakeNumber
<1>6. CASE TakeKeep \/ TakeSwitch
  BY <1>6 DEF TakeKeep, TakeSwitch
<1>7. CASE Help \/ RejectArguments \/ LoseOutput \/ Fail
  BY <1>7 DEF Help, RejectArguments, LoseOutput, Fail
<1> QED BY <1>1, <1>2, <1>3, <1>4, <1>5, <1>6, <1>7 DEF StartNext

\* StartIInv holds from the command line on; reading requests does not touch what it is
\* about.
THEOREM StartInvariance == Spec => []StartIInv
<1>1. Init => StartIInv
  BY StartInitIInv DEF Init
<1>2. StartIInv /\ [Next]_allVars => StartIInv'
  <2> SUFFICES ASSUME StartIInv, [Next]_allVars PROVE StartIInv'
    OBVIOUS
  <2>1. CASE StartNext
    BY <2>1, PathsStep, OutputStep, PlainStep DEF StartIInv
  <2>2. ASSUME UNCHANGED startVars PROVE StartIInv'
    BY <2>2 DEF startVars, StartIInv, PathsOfOneRoot, OutputChosen, IsAbsolute
  <2>3. CASE ReceiveForm \/ ReadPart \/ EndForm
    BY <2>2, <2>3 DEF ReceiveForm, ReadPart, EndForm
  <2>4. CASE ReceiveObject \/ ReadObject \/ ReadFallback
    BY <2>2, <2>4 DEF ReceiveObject, ReadObject, ReadFallback
  <2>5. CASE UNCHANGED allVars
    BY <2>2, <2>5 DEF allVars
  <2> QED BY <2>1, <2>3, <2>4, <2>5 DEF Next
<1> QED BY <1>1, <1>2, PTL DEF Spec

\* A serving server uses one installation, but for the paths that flags gave it.
THEOREM InstallationIsOne == Spec => []OneInstallation
<1>1. StartIInv => OneInstallation
  BY DEF StartIInv, PathsOfOneRoot, OneInstallation
<1> QED BY <1>1, StartInvariance, PTL

\* Pictures to be kept go nowhere temporary unless a flag asks for it, workers and
\* server agree on the directory, and the server is where its URLs say.
THEOREM PicturesAreSafe == Spec => []KeptPicturesSafe
<1>1. StartIInv => KeptPicturesSafe
  BY DEF StartIInv, OutputChosen, KeptPicturesSafe
<1> QED BY <1>1, StartInvariance, PTL

\* Numbers that flags give are ints, the port has the width of a port, and the argument
\* read next is one of the command line or its end.
THEOREM StartTypeCorrect == Spec => []StartTypeOK
<1>0. /\ 2 ^ PortBits \in Nat /\ 2 ^ PortBits > 0
      /\ IntHalf \in Nat /\ IntHalf > 0 /\ 4 \in Ints
  <2>1. PortBits \in Nat /\ 4 < IntHalf
    BY StartAssumption DEF IntHalf
  <2> QED BY <2>1, PowerPositive, IntHalfPositive DEF Ints
<1>1. Init => StartTypeOK
  <2> SUFFICES ASSUME StartInit PROVE StartTypeOK
    BY DEF Init
  <2>1. argv \in CommandLines /\ argv \in Seq(STRING) /\ i = 1
    BY StartAssumption DEF StartInit
  <2>2. i \in 1 .. Len(argv) + 1
    BY <2>1
  <2>3. port \in 0 .. 2 ^ PortBits - 1
    <3> DEFINE width == 2 ^ PortBits  default == 11283
    <3>1. port = default % width /\ width \in Nat /\ width > 0 /\ default \in Nat
      BY <1>0 DEF StartInit
    <3> HIDE DEF width, default
    <3>2. default % width \in 0 .. width - 1
      BY <3>1
    <3> QED BY <3>1, <3>2 DEF width
  <2>4. settings \in Settings
    <3>1. settings = [model |-> "flux.2-klein-4B", keep |-> FALSE, steps |-> 4, auto |-> TRUE]
      BY SMT DEF StartInit
    <3>2. 4 \in Ints
      BY <1>0
    <3> QED BY <3>1, <3>2 DEF Settings
  <2>5. phase = "search" /\ paths = Defaults /\ specified = FALSE
    BY SMT DEF StartInit
  <2>6. DOMAIN paths = PathFields
    BY <2>5 DEF Defaults
  <2> QED BY <2>1, <2>2, <2>3, <2>4, <2>5, <2>6 DEF StartTypeOK, Phases
<1>2. StartIInv /\ StartTypeOK /\ [Next]_allVars => StartTypeOK'
  <2> SUFFICES ASSUME StartIInv, StartTypeOK, [Next]_allVars PROVE StartTypeOK'
    OBVIOUS
  <2>1. argv \in CommandLines /\ argv \in Seq(STRING) /\ Len(argv) \in Nat
    BY StartAssumption DEF StartTypeOK
  <2>2. ASSUME UNCHANGED startVars PROVE StartTypeOK'
    BY <2>2 DEF startVars, StartTypeOK
  <2>3. ASSUME StartNext PROVE StartTypeOK'
    <3> USE DEF StartTypeOK, Next1, Next2, Reading, HasValue
    <3>1. CASE FindInstall
      <4>1. DOMAIN PathsOf(InstallRoot) = PathFields
        BY DEF PathsOf, Defaults
      <4> QED BY <3>1, <4>1 DEF FindInstall, Phases
    <3>2. CASE TakeModel
      <4>1. /\ i <= Len(argv) /\ settings' = [settings EXCEPT !.model = argv[i]]
            /\ i' = i + 1 /\ UNCHANGED <<argv, phase, paths, specified, port>>
        BY <3>2, Zenon DEF TakeModel
      <4>2. argv[i] \in STRING /\ i' \in 1 .. Len(argv) + 1
        BY <2>1, <4>1
      <4>3. settings' \in Settings
        BY <4>1, <4>2 DEF Settings
      <4> QED BY <4>1, <4>2, <4>3
    <3>3. CASE TakePath
      <4>1. argv' = argv /\ i' = i + 2 /\ i' \in 1 .. Len(argv) + 1
        BY <2>1, <3>3 DEF TakePath
      <4> QED BY <3>3, <4>1 DEF TakePath
    <3>4. CASE TakeOutput
      <4>1. argv' = argv /\ i' = i + 2 /\ i' \in 1 .. Len(argv) + 1
        BY <2>1, <3>4 DEF TakeOutput
      <4> QED BY <3>4, <4>1 DEF TakeOutput
    <3>5. CASE TakePort
      <4>1. argv' = argv /\ i' = i + 2 /\ i' \in 1 .. Len(argv) + 1
        BY <2>1, <3>5 DEF TakePort
      <4> DEFINE width == 2 ^ PortBits  n == Numbers[Value]
      <4>2. port' = n % width /\ n \in Int /\ width \in Nat /\ width > 0
        BY <1>0, <3>5, StartAssumption DEF TakePort, IsNumber
      <4> HIDE DEF width, n
      <4>3. port' \in 0 .. width - 1
        BY <4>2
      <4> QED BY <3>5, <4>1, <4>3 DEF TakePort, width
    <3>6. CASE TakeNumber
      <4>1. argv' = argv /\ i' = i + 2 /\ i' \in 1 .. Len(argv) + 1
        BY <2>1, <3>6 DEF TakeNumber
      <4>2. settings' \in Settings
        BY <3>6 DEF TakeNumber, IsNumber, Settings
      <4> QED BY <3>6, <4>1, <4>2 DEF TakeNumber
    <3>7. CASE TakeKeep
      <4>1. argv' = argv /\ i' = i + 2 /\ i' \in 1 .. Len(argv) + 1
        BY <2>1, <3>7 DEF TakeKeep
      <4> DEFINE keep == Value \in {"true", "1"}
      <4>2. settings' = [settings EXCEPT !.keep = keep] /\ keep \in BOOLEAN
        BY <3>7 DEF TakeKeep
      <4> HIDE DEF keep
      <4>3. settings' \in Settings
        BY <4>2 DEF Settings
      <4> QED BY <3>7, <4>1, <4>3 DEF TakeKeep
    <3>8. CASE TakeSwitch
      <4>1. argv' = argv /\ i' = i + 1 /\ i' \in 1 .. Len(argv) + 1
        BY <2>1, <3>8 DEF TakeSwitch
      <4>2. settings' \in Settings
        BY <3>8 DEF TakeSwitch, Settings
      <4> QED BY <3>8, <4>1, <4>2 DEF TakeSwitch
    <3>9. CASE Help \/ RejectArguments \/ LoseOutput \/ Fail
      BY <3>9 DEF Help, RejectArguments, LoseOutput, Fail, Exit, Phases
    <3>10. CASE ChooseOutput \/ Proceed
      BY <3>10 DEF ChooseOutput, Proceed, Phases
    <3> QED BY <2>3, <3>1, <3>2, <3>3, <3>4, <3>5, <3>6, <3>7, <3>8, <3>9, <3>10 DEF StartNext
  <2>4. CASE ReceiveForm \/ ReadPart \/ EndForm
    BY <2>2, <2>4 DEF ReceiveForm, ReadPart, EndForm
  <2>5. CASE ReceiveObject \/ ReadObject \/ ReadFallback
    BY <2>2, <2>5 DEF ReceiveObject, ReadObject, ReadFallback
  <2>6. CASE UNCHANGED allVars
    BY <2>2, <2>6 DEF allVars
  <2> QED BY <2>3, <2>4, <2>5, <2>6 DEF Next
<1> QED BY <1>1, <1>2, StartInvariance, PTL DEF Spec

-----------------------------------------------------------------------------
(* Reading bodies.                                                          *)

\* What holds of 0, and of n + 1 if of n, holds of every number up to N.
LEMMA UpTo ==
  ASSUME NEW N \in Nat, NEW S, 0 \in S, \A n \in 0 .. N - 1 : n \in S => n + 1 \in S
  PROVE  \A n \in 0 .. N : n \in S
<1> DEFINE rest == {n \in 0 .. N : n \notin S}
<1> SUFFICES ASSUME rest # {} PROVE FALSE
  OBVIOUS
<1>0. rest \in SUBSET Nat
  OBVIOUS
<1> DEFINE m == Min(rest)
<1>1. m \in rest /\ \A n \in rest : m <= n
  <2> HIDE DEF rest
  <2> QED BY <1>0, FirstOfSet
<1> HIDE DEF m
<1>2. m - 1 \in 0 .. N - 1 /\ m - 1 \notin rest
  BY <1>1
<1>3. m - 1 \in S /\ m - 1 + 1 = m
  BY <1>1, <1>2
<1> QED BY <1>1, <1>2, <1>3

\* An int that fits is not wrapped.
LEMMA WrapKeeps ==
  ASSUME NEW n \in Ints
  PROVE  Wrap(n) = n
<1>1. IntHalf \in Nat /\ IntHalf > 0
  BY IntHalfPositive
<1>2. n \in Int /\ 0 <= n + IntHalf /\ n + IntHalf < 2 * IntHalf
  BY <1>1 DEF Ints
<1>3. (n + IntHalf) % (2 * IntHalf) = n + IntHalf
  BY <1>1, <1>2
<1> QED BY <1>1, <1>2, <1>3 DEF Wrap

\* What the parts of a form mean, part by part.
LEMMA MeantSteps ==
  ASSUME NEW parts, Len(parts) \in Nat
  PROVE  /\ Meant(parts)[0] = DefaultParams
         /\ \A n \in 0 .. Len(parts) - 1 : Meant(parts)[n + 1] =
              IF parts[n + 1].names = << >> THEN Meant(parts)[n]
              ELSE ApplyField(Meant(parts)[n], parts[n + 1].names[1], parts[n + 1].data)
<1> DEFINE Round(p, n) == IF parts[n].names = << >> THEN p
                          ELSE ApplyField(p, parts[n].names[1], parts[n].data)
    Good(f, k) == f = [n \in 0 .. k |-> IF n = 0 THEN DefaultParams ELSE Round(f[n - 1], n)]
    S == {k \in 0 .. Len(parts) : \E f : Good(f, k)}
    meant == CHOOSE f : Good(f, Len(parts))
<1>1. 0 \in S
  <2>1. Good([n \in 0 .. 0 |-> DefaultParams], 0)
    OBVIOUS
  <2>2. 0 \in 0 .. Len(parts)
    OBVIOUS
  <2> HIDE DEF Good
  <2> QED BY <2>1, <2>2
<1> HIDE DEF Round
<1>2. ASSUME NEW k \in 0 .. Len(parts) - 1, k \in S
      PROVE  k + 1 \in S
  <2>1. PICK f : Good(f, k)
    BY <1>2
  <2> DEFINE g == [n \in 0 .. k + 1 |-> IF n = k + 1 THEN Round(f[k], k + 1) ELSE f[n]]
  <2>2. \A n \in 0 .. k : f[n] = IF n = 0 THEN DefaultParams ELSE Round(f[n - 1], n)
    BY <2>1
  <2>3. ASSUME NEW n \in 0 .. k + 1
        PROVE  g[n] = IF n = 0 THEN DefaultParams ELSE Round(g[n - 1], n)
    <3>1. CASE n = k + 1
      <4>1. n # 0 /\ n - 1 = k /\ k \in 0 .. k + 1 /\ k # k + 1
        BY <3>1
      <4>2. g[n] = Round(f[k], k + 1) /\ g[n - 1] = f[k]
        BY <3>1, <4>1
      <4> QED BY <3>1, <4>1, <4>2
    <3>2. CASE n # k + 1
      <4>1. /\ n \in 0 .. k /\ g[n] = f[n]
            /\ n # 0 => n - 1 \in 0 .. k + 1 /\ n - 1 # k + 1
        BY <3>2
      <4>2. n # 0 => g[n - 1] = f[n - 1]
        BY <4>1
      <4> QED BY <2>2, <4>1, <4>2
    <3> QED BY <3>1, <3>2
  <2>4. Good(g, k + 1)
    BY <2>3
  <2>5. k + 1 \in 0 .. Len(parts)
    OBVIOUS
  <2> HIDE DEF Good, g
  <2> QED BY <2>4, <2>5
<1>3. Len(parts) \in S
  <2> HIDE DEF S
  <2>1. \A n \in 0 .. Len(parts) : n \in S
    BY <1>1, <1>2, UpTo, Zenon
  <2> QED BY <2>1
<1>4. Good(meant, Len(parts))
  <2> HIDE DEF Good
  <2> QED BY <1>3
<1>5. Meant(parts) = meant
  BY DEF Meant, MeantFrom, Round
<1>6. \A n \in 0 .. Len(parts) :
        meant[n] = IF n = 0 THEN DefaultParams ELSE Round(meant[n - 1], n)
  <2> HIDE DEF meant
  <2> QED BY <1>4
<1> HIDE DEF meant
<1>7. meant[0] = DefaultParams
  <2>1. 0 \in 0 .. Len(parts)
    OBVIOUS
  <2> QED BY <1>6, <2>1, Zenon
<1>8. ASSUME NEW n \in 0 .. Len(parts) - 1
      PROVE  meant[n + 1] = Round(meant[n], n + 1)
  <2>1. n + 1 \in 0 .. Len(parts) /\ n + 1 # 0 /\ n + 1 - 1 = n
    OBVIOUS
  <2>2. meant[n + 1] = Round(meant[n + 1 - 1], n + 1)
    BY <1>6, <2>1
  <2> QED BY <2>1, <2>2
<1> QED BY <1>5, <1>7, <1>8 DEF Round


\* What a switch is before anything is read, and a request, field by field; the steps
\* are those of the command line.
Off == FALSE
Switch(v) == v \in Truths
Request(a, b, c, d, e) ==
  [model |-> a, prompt |-> b, size |-> c, steps |-> settings.steps,
   force |-> d, rank |-> e, images |-> << >>, threw |-> Off]

\* What a part of an object's field does: a text, a size, a switch, a number.
LEMMA TextApplies ==
  ASSUME NEW a, NEW b, NEW c, NEW d, NEW e, NEW data
  PROVE  /\ ApplyField(Request(a, b, c, d, e), "model", data) = Request(data, b, c, d, e)
         /\ ApplyField(Request(a, b, c, d, e), "prompt", data) = Request(a, data, c, d, e)
<1> DEFINE q == Request(a, b, c, d, e)
<1>1. q.threw = FALSE
  BY DEF Request, Off
<1>2. /\ ApplyField(q, "model", data) = [q EXCEPT !.model = data]
      /\ ApplyField(q, "prompt", data) = [q EXCEPT !.prompt = data]
  BY <1>1 DEF ApplyField
<1>3. [q EXCEPT !.model = data] = Request(data, b, c, d, e)
  BY DEF Request
<1>4. [q EXCEPT !.prompt = data] = Request(a, data, c, d, e)
  BY DEF Request
<1> QED BY <1>2, <1>3, <1>4

LEMMA SizeApplies ==
  ASSUME NEW a, NEW b, NEW c, NEW d, NEW e, NEW v
  PROVE  ApplyField(Request(a, b, c, d, e), "size", <<Text(v)>>) =
           Request(a, b, IF Preset(v) = None THEN c ELSE Preset(v), d, e)
<1> DEFINE q == Request(a, b, c, d, e)
<1>1. q.threw = FALSE /\ TextOf(<<Text(v)>>) = v
  BY DEF Request, Off, TextOf, Text
<1>2. ApplyField(q, "size", <<Text(v)>>) = WithSize(q, v)
  BY <1>1 DEF ApplyField
<1>3. CASE Preset(v) = None
  BY <1>2, <1>3 DEF WithSize
<1>4. CASE Preset(v) # None
  <2>1. WithSize(q, v) = [q EXCEPT !.size = Preset(v)]
    BY <1>4 DEF WithSize
  <2> QED BY <1>2, <1>4, <2>1 DEF Request
<1> QED BY <1>3, <1>4

LEMMA SwitchApplies ==
  ASSUME NEW a, NEW b, NEW c, NEW d, NEW e, NEW v
  PROVE  ApplyField(Request(a, b, c, d, e), "lora_force", <<Text(v)>>) =
           Request(a, b, c, Switch(v), e)
<1> DEFINE q == Request(a, b, c, d, e)
<1>1. q.threw = FALSE /\ TextOf(<<Text(v)>>) = v
  BY DEF Request, Off, TextOf, Text
<1>2. ApplyField(q, "lora_force", <<Text(v)>>) = [q EXCEPT !.force = v \in Truths]
  BY <1>1 DEF ApplyField
<1> QED BY <1>2 DEF Request, Switch

LEMMA NumberApplies ==
  ASSUME NEW a, NEW b, NEW c, NEW d, NEW e, NEW v, IsNumber(v)
  PROVE  ApplyField(Request(a, b, c, d, e), "lora_rank", <<Text(v)>>) =
           Request(a, b, c, d, Numbers[v])
<1> DEFINE q == Request(a, b, c, d, e)
<1>1. q.threw = FALSE /\ TextOf(<<Text(v)>>) = v
  BY DEF Request, Off, TextOf, Text
<1>2. ApplyField(q, "lora_rank", <<Text(v)>>) = [q EXCEPT !.rank = Numbers[v]]
  BY <1>1 DEF ApplyField
<1> QED BY <1>2 DEF Request

LEMMA NoNumberThrows ==
  ASSUME NEW a, NEW b, NEW c, NEW d, NEW e, NEW v, ~IsNumber(v)
  PROVE  ApplyField(Request(a, b, c, d, e), "lora_rank", <<Text(v)>>).threw
<1> DEFINE q == Request(a, b, c, d, e)
<1>1. q.threw = FALSE /\ TextOf(<<Text(v)>>) = v /\ "threw" \in DOMAIN q
  BY DEF Request, Off, TextOf, Text
<1>2. ApplyField(q, "lora_rank", <<Text(v)>>) = [q EXCEPT !.threw = TRUE]
  BY <1>1 DEF ApplyField
<1> QED BY <1>1, <1>2

\* Field f of an object, read as a form reads it.
FieldRead(p, o, f) ==
  IF f \in DOMAIN o /\ o[f][1] = TypeOf(f) THEN ApplyField(p, f, <<Text(o[f][2])>>) ELSE p

\* The form of an object's fields is read field by field.
LEMMA FormOfFields ==
  ASSUME NEW o
  PROVE  LET form == Meant(AsParts(o))[Len(Shared)]
         IN  form = FieldRead(FieldRead(FieldRead(FieldRead(FieldRead(DefaultParams,
                      o, "model"), o, "prompt"), o, "size"), o, "lora_force"), o, "lora_rank")
<1> DEFINE parts == AsParts(o)
           m == Meant(parts)
           Said(f, q) == IF AsPart(o, f).names = << >> THEN q
                         ELSE ApplyField(q, AsPart(o, f).names[1], AsPart(o, f).data)
<1>1. /\ Len(Shared) = 5 /\ Shared[1] = "model" /\ Shared[2] = "prompt" /\ Shared[3] = "size"
      /\ Shared[4] = "lora_force" /\ Shared[5] = "lora_rank"
  BY DEF Shared
<1>2. parts = [k \in 1 .. 5 |-> AsPart(o, Shared[k])]
  BY <1>1 DEF AsParts
<1>3. /\ Len(parts) = 5 /\ parts[1] = AsPart(o, "model") /\ parts[2] = AsPart(o, "prompt")
      /\ parts[3] = AsPart(o, "size") /\ parts[4] = AsPart(o, "lora_force")
      /\ parts[5] = AsPart(o, "lora_rank")
  BY <1>1, <1>2
<1> HIDE DEF parts
<1>4. ASSUME NEW f, NEW q PROVE Said(f, q) = FieldRead(q, o, f)
  <2>1. CASE f \in DOMAIN o /\ o[f][1] = TypeOf(f)
    <3>1. AsPart(o, f) = [names |-> <<f>>, data |-> <<Text(o[f][2])>>]
      BY <2>1 DEF AsPart
    <3> QED BY <2>1, <3>1 DEF FieldRead
  <2>2. CASE ~(f \in DOMAIN o /\ o[f][1] = TypeOf(f))
    <3>1. AsPart(o, f).names = << >>
      BY <2>2 DEF AsPart
    <3> QED BY <2>2, <3>1 DEF FieldRead
  <2> QED BY <2>1, <2>2
<1>5. /\ m[0] = DefaultParams
      /\ \A n \in 0 .. Len(parts) - 1 : m[n + 1] =
           IF parts[n + 1].names = << >> THEN m[n]
           ELSE ApplyField(m[n], parts[n + 1].names[1], parts[n + 1].data)
  <2>1. Len(parts) \in Nat
    BY <1>3
  <2> QED BY <2>1, MeantSteps
<1> HIDE DEF m
<1>6. m[0 + 1] = Said("model", m[0])
  <2>1. 0 \in 0 .. Len(parts) - 1 /\ parts[0 + 1] = AsPart(o, "model")
    BY <1>3
  <2> QED BY <1>5, <2>1
<1>7. m[1 + 1] = Said("prompt", m[1])
  <2>1. 1 \in 0 .. Len(parts) - 1 /\ parts[1 + 1] = AsPart(o, "prompt")
    BY <1>3
  <2> QED BY <1>5, <2>1
<1>8. m[2 + 1] = Said("size", m[2])
  <2>1. 2 \in 0 .. Len(parts) - 1 /\ parts[2 + 1] = AsPart(o, "size")
    BY <1>3
  <2> QED BY <1>5, <2>1
<1>9. m[3 + 1] = Said("lora_force", m[3])
  <2>1. 3 \in 0 .. Len(parts) - 1 /\ parts[3 + 1] = AsPart(o, "lora_force")
    BY <1>3
  <2> QED BY <1>5, <2>1
<1>10. m[4 + 1] = Said("lora_rank", m[4])
  <2>1. 4 \in 0 .. Len(parts) - 1 /\ parts[4 + 1] = AsPart(o, "lora_rank")
    BY <1>3
  <2> QED BY <1>5, <2>1
<1> HIDE DEF Said
<1>11. /\ m[1] = FieldRead(m[0], o, "model") /\ m[2] = FieldRead(m[1], o, "prompt")
       /\ m[3] = FieldRead(m[2], o, "size") /\ m[4] = FieldRead(m[3], o, "lora_force")
       /\ m[5] = FieldRead(m[4], o, "lora_rank")
  BY <1>4, <1>6, <1>7, <1>8, <1>9, <1>10
<1> QED BY <1>1, <1>5, <1>11 DEF m, parts

\* What ReadObject makes of an object.
ObjectParams(o) ==
  [DefaultParams EXCEPT
     !.model = IF "model" \in DOMAIN o /\ o["model"][1] = "text"
                 THEN <<Text(o["model"][2])>> ELSE @,
     !.prompt = IF "prompt" \in DOMAIN o /\ o["prompt"][1] = "text"
                 THEN <<Text(o["prompt"][2])>> ELSE @,
     !.steps = IF "steps" \in DOMAIN o /\ o["steps"][1] = "number"
                 THEN Wrap(Numbers[o["steps"][2]]) ELSE @,
     !.size = IF "size" \in DOMAIN o /\ o["size"][1] = "text"
                THEN WithSize(DefaultParams, o["size"][2]).size ELSE @,
     !.force = IF "lora_force" \in DOMAIN o /\ o["lora_force"][1] = "boolean"
                 THEN o["lora_force"][2] = "true" ELSE @,
     !.rank = IF "lora_rank" \in DOMAIN o /\ o["lora_rank"][1] = "number"
                THEN Wrap(Numbers[o["lora_rank"][2]]) ELSE @]

\* An object means what the form with its fields means.
LEMMA ObjectMeansForm ==
  ASSUME NEW o \in Objects
  PROVE  LET form == Meant(AsParts(o))[Len(Shared)]
         IN  form.threw \/ [ObjectParams(o) EXCEPT !.steps = settings.steps] = form
<1>0. PICK off : off = Off
  OBVIOUS
<1> DEFINE has(f, t) == f \in DOMAIN o /\ o[f][1] = t
           v(f) == o[f][2]
           model0 == <<Text(settings.model)>>
           prompt0 == <<Text("default")>>
           model == IF has("model", "text") THEN <<Text(v("model"))>> ELSE model0
           prompt == IF has("prompt", "text") THEN <<Text(v("prompt"))>> ELSE prompt0
           size == IF has("size", "text")
                     THEN (IF Preset(v("size")) = None THEN "default" ELSE Preset(v("size")))
                     ELSE "default"
           force == IF has("lora_force", "boolean") THEN Switch(v("lora_force")) ELSE off
           F1 == FieldRead(DefaultParams, o, "model")
           F2 == FieldRead(F1, o, "prompt")
           F3 == FieldRead(F2, o, "size")
           F4 == FieldRead(F3, o, "lora_force")
           F5 == FieldRead(F4, o, "lora_rank")
<1>1. DefaultParams = Request(model0, prompt0, "default", off, 0)
  BY <1>0 DEF DefaultParams, Request, Off
<1>2. /\ TypeOf("model") = "text" /\ TypeOf("prompt") = "text" /\ TypeOf("size") = "text"
      /\ TypeOf("lora_force") = "boolean" /\ TypeOf("lora_rank") = "number"
  BY DEF TypeOf
<1>3. F1 = Request(model, prompt0, "default", off, 0)
  <2>1. CASE has("model", "text")
    <3>1. F1 = ApplyField(DefaultParams, "model", <<Text(v("model"))>>)
      BY <1>2, <2>1 DEF FieldRead
    <3>2. ApplyField(Request(model0, prompt0, "default", off, 0), "model", <<Text(v("model"))>>) =
            Request(<<Text(v("model"))>>, prompt0, "default", off, 0)
      BY TextApplies
    <3> QED BY <1>1, <2>1, <3>1, <3>2
  <2>2. CASE ~has("model", "text")
    BY <1>1, <1>2, <2>2 DEF FieldRead
  <2> QED BY <2>1, <2>2
<1> HIDE DEF F1, model
<1>4. F2 = Request(model, prompt, "default", off, 0)
  <2>1. CASE has("prompt", "text")
    <3>1. F2 = ApplyField(F1, "prompt", <<Text(v("prompt"))>>)
      BY <1>2, <2>1 DEF FieldRead
    <3>2. ApplyField(Request(model, prompt0, "default", off, 0), "prompt", <<Text(v("prompt"))>>) =
            Request(model, <<Text(v("prompt"))>>, "default", off, 0)
      BY TextApplies
    <3> QED BY <1>3, <2>1, <3>1, <3>2
  <2>2. CASE ~has("prompt", "text")
    BY <1>2, <1>3, <2>2 DEF FieldRead
  <2> QED BY <2>1, <2>2
<1> HIDE DEF F2, prompt
<1>5. F3 = Request(model, prompt, size, off, 0)
  <2>1. CASE has("size", "text")
    <3>1. F3 = ApplyField(F2, "size", <<Text(v("size"))>>)
      BY <1>2, <2>1 DEF FieldRead
    <3>2. ApplyField(Request(model, prompt, "default", off, 0), "size", <<Text(v("size"))>>) =
            Request(model, prompt,
              IF Preset(v("size")) = None THEN "default" ELSE Preset(v("size")), off, 0)
      BY SizeApplies
    <3> QED BY <1>4, <2>1, <3>1, <3>2
  <2>2. CASE ~has("size", "text")
    BY <1>2, <1>4, <2>2 DEF FieldRead
  <2> QED BY <2>1, <2>2
<1> HIDE DEF F3, size
<1>6. F4 = Request(model, prompt, size, force, 0)
  <2>1. CASE has("lora_force", "boolean")
    <3>1. F4 = ApplyField(F3, "lora_force", <<Text(v("lora_force"))>>)
      BY <1>2, <2>1 DEF FieldRead
    <3>2. ApplyField(Request(model, prompt, size, off, 0), "lora_force", <<Text(v("lora_force"))>>) =
            Request(model, prompt, size, Switch(v("lora_force")), 0)
      BY SwitchApplies
    <3> QED BY <1>5, <2>1, <3>1, <3>2
  <2>2. CASE ~has("lora_force", "boolean")
    BY <1>2, <1>5, <2>2 DEF FieldRead
  <2> QED BY <2>1, <2>2
<1> HIDE DEF F4, force
<1>7. Meant(AsParts(o))[Len(Shared)] = F5
  BY FormOfFields DEF F1, F2, F3, F4
<1>8. CASE has("lora_rank", "number") /\ ~IsNumber(v("lora_rank"))
  <2>1. F5.threw
    <3>1. F5 = ApplyField(F4, "lora_rank", <<Text(v("lora_rank"))>>)
      BY <1>2, <1>8 DEF FieldRead
    <3>2. ApplyField(Request(model, prompt, size, force, 0), "lora_rank",
                     <<Text(v("lora_rank"))>>).threw
      BY <1>8, NoNumberThrows
    <3> QED BY <1>6, <3>1, <3>2
  <2> QED BY <1>7, <2>1
<1>9. CASE ~(has("lora_rank", "number") /\ ~IsNumber(v("lora_rank")))
  <2> DEFINE rank == IF has("lora_rank", "number") THEN Numbers[v("lora_rank")] ELSE 0
             p == ObjectParams(o)
             D == DefaultParams
  <2>1. F5 = Request(model, prompt, size, force, rank)
    <3>1. CASE has("lora_rank", "number")
      <4>1. F5 = ApplyField(F4, "lora_rank", <<Text(v("lora_rank"))>>)
        BY <1>2, <3>1 DEF FieldRead
      <4>2. ApplyField(Request(model, prompt, size, force, 0), "lora_rank",
                       <<Text(v("lora_rank"))>>)
              = Request(model, prompt, size, force, Numbers[v("lora_rank")])
        BY <1>9, <3>1, NumberApplies
      <4> QED BY <1>6, <3>1, <4>1, <4>2
    <3>2. CASE ~has("lora_rank", "number")
      BY <1>2, <1>6, <3>2 DEF FieldRead
    <3> QED BY <3>1, <3>2
  <2>2. /\ D.model = model0 /\ D.prompt = prompt0 /\ D.size = "default" /\ D.force = off
        /\ D.rank = 0
    BY <1>0 DEF DefaultParams, Off
  <2>3. (IF has("lora_rank", "number") THEN Wrap(Numbers[v("lora_rank")]) ELSE D.rank) = rank
    BY <1>9, <2>2, WrapKeeps DEF IsNumber
  <2>4. (IF has("lora_force", "boolean") THEN v("lora_force") = "true" ELSE D.force) = force
    <3>1. CASE has("lora_force", "boolean")
      <4>1. v("lora_force") \in {"true", "false"}
        BY <3>1, BodyAssumption
      <4> HIDE DEF v
      <4> QED BY <3>1, <4>1 DEF force, Switch, Truths
    <3>2. CASE ~has("lora_force", "boolean")
      BY <2>2, <3>2 DEF force
    <3> QED BY <3>1, <3>2
  <2>5. (IF has("size", "text") THEN WithSize(D, v("size")).size ELSE D.size) = size
    <3>1. CASE Preset(v("size")) = None
      BY <2>2, <3>1 DEF WithSize, size
    <3>2. CASE Preset(v("size")) # None
      <4>1. WithSize(D, v("size")) = [D EXCEPT !.size = Preset(v("size"))]
        BY <3>2 DEF WithSize
      <4>2. WithSize(D, v("size")).size = Preset(v("size"))
        BY <4>1 DEF DefaultParams
      <4> QED BY <2>2, <3>2, <4>2 DEF size
    <3> QED BY <3>1, <3>2
  <2>6. /\ (IF has("model", "text") THEN <<Text(v("model"))>> ELSE D.model) = model
        /\ (IF has("prompt", "text") THEN <<Text(v("prompt"))>> ELSE D.prompt) = prompt
    BY <2>2 DEF model, prompt
  <2>7. \E s : p = [D EXCEPT !.model = model, !.prompt = prompt, !.steps = s, !.size = size,
                             !.force = force, !.rank = rank]
    <3> DEFINE s == IF has("steps", "number") THEN Wrap(Numbers[v("steps")]) ELSE D.steps
    <3>1. p = [D EXCEPT !.model = model, !.prompt = prompt, !.steps = s, !.size = size,
                        !.force = force, !.rank = rank]
      BY <2>3, <2>4, <2>5, <2>6 DEF ObjectParams
    <3> QED BY <3>1
  <2> HIDE DEF p, rank
  <2>8. PICK s : p = [D EXCEPT !.model = model, !.prompt = prompt, !.steps = s, !.size = size,
                             !.force = force, !.rank = rank]
    BY <2>7
  <2>9. [p EXCEPT !.steps = settings.steps] = Request(model, prompt, size, force, rank)
    <3>1. p = [model |-> model, prompt |-> prompt, size |-> size, steps |-> s,
               force |-> force, rank |-> rank, images |-> << >>, threw |-> Off]
      <4>1. D = [model |-> model0, prompt |-> prompt0, size |-> "default",
                 steps |-> settings.steps, force |-> Off, rank |-> 0, images |-> << >>,
                 threw |-> Off]
        BY DEF DefaultParams, Off
      <4> QED BY <2>8, <4>1
    <3> QED BY <3>1 DEF Request
  <2> QED BY <1>7, <2>1, <2>9 DEF p
<1> QED BY <1>8, <1>9

-----------------------------------------------------------------------------
(* How a form lies in its body.                                             *)

\* The parts of a form are encoded one after another.
LEMMA EncodedSteps ==
  ASSUME NEW parts, Len(parts) \in Nat
  PROVE  /\ Encoded(parts)[0] = << >>
         /\ \A n \in 0 .. Len(parts) - 1 :
              Encoded(parts)[n + 1] = Encoded(parts)[n] \o EncodePart(parts[n + 1])
<1> DEFINE Round(p, n) == p \o EncodePart(parts[n])
    Good(f, k) == f = [n \in 0 .. k |-> IF n = 0 THEN << >> ELSE Round(f[n - 1], n)]
    S == {k \in 0 .. Len(parts) : \E f : Good(f, k)}
    encoded == CHOOSE f : Good(f, Len(parts))
<1>1. 0 \in S
  <2>1. Good([n \in 0 .. 0 |-> << >>], 0)
    OBVIOUS
  <2>2. 0 \in 0 .. Len(parts)
    OBVIOUS
  <2> HIDE DEF Good
  <2> QED BY <2>1, <2>2
<1> HIDE DEF Round
<1>2. ASSUME NEW k \in 0 .. Len(parts) - 1, k \in S
      PROVE  k + 1 \in S
  <2>1. PICK f : Good(f, k)
    BY <1>2
  <2> DEFINE g == [n \in 0 .. k + 1 |-> IF n = k + 1 THEN Round(f[k], k + 1) ELSE f[n]]
  <2>2. \A n \in 0 .. k : f[n] = IF n = 0 THEN << >> ELSE Round(f[n - 1], n)
    BY <2>1
  <2>3. ASSUME NEW n \in 0 .. k + 1
        PROVE  g[n] = IF n = 0 THEN << >> ELSE Round(g[n - 1], n)
    <3>1. CASE n = k + 1
      <4>1. n # 0 /\ n - 1 = k /\ k \in 0 .. k + 1 /\ k # k + 1
        BY <3>1
      <4>2. g[n] = Round(f[k], k + 1) /\ g[n - 1] = f[k]
        BY <3>1, <4>1
      <4> QED BY <3>1, <4>1, <4>2
    <3>2. CASE n # k + 1
      <4>1. /\ n \in 0 .. k /\ g[n] = f[n]
            /\ n # 0 => n - 1 \in 0 .. k + 1 /\ n - 1 # k + 1
        BY <3>2
      <4>2. n # 0 => g[n - 1] = f[n - 1]
        BY <4>1
      <4> QED BY <2>2, <4>1, <4>2
    <3> QED BY <3>1, <3>2
  <2>4. Good(g, k + 1)
    BY <2>3
  <2>5. k + 1 \in 0 .. Len(parts)
    OBVIOUS
  <2> HIDE DEF Good, g
  <2> QED BY <2>4, <2>5
<1>3. Len(parts) \in S
  <2> HIDE DEF S
  <2>1. \A n \in 0 .. Len(parts) : n \in S
    BY <1>1, <1>2, UpTo, Zenon
  <2> QED BY <2>1
<1>4. Good(encoded, Len(parts))
  <2> HIDE DEF Good
  <2> QED BY <1>3
<1>5. Encoded(parts) = encoded
  BY DEF Encoded, Round
<1>6. \A n \in 0 .. Len(parts) :
        encoded[n] = IF n = 0 THEN << >> ELSE Round(encoded[n - 1], n)
  <2> HIDE DEF encoded
  <2> QED BY <1>4
<1> HIDE DEF encoded
<1>7. encoded[0] = << >>
  <2>1. 0 \in 0 .. Len(parts)
    OBVIOUS
  <2> QED BY <1>6, <2>1, Zenon
<1>8. ASSUME NEW n \in 0 .. Len(parts) - 1
      PROVE  encoded[n + 1] = Round(encoded[n], n + 1)
  <2>1. n + 1 \in 0 .. Len(parts) /\ n + 1 # 0 /\ n + 1 - 1 = n
    OBVIOUS
  <2>2. encoded[n + 1] = Round(encoded[n + 1 - 1], n + 1)
    BY <1>6, <2>1
  <2> QED BY <2>1, <2>2
<1> QED BY <1>5, <1>7, <1>8 DEF Round

\* The tokens that clients do not choose, and that no two of them are alike.
LEMMA Tokens ==
  /\ Delimiter \in Token /\ CRLF \in Token /\ Dashes \in Token
  /\ Delimiter # CRLF /\ Delimiter # Dashes /\ CRLF # Dashes
  /\ Delimiter[1] # "line" /\ CRLF[1] # "line" /\ Dashes[1] # "line"
  /\ \A names \in Seq(Word) :
       /\ Line(names) \in Token
       /\ Line(names)[1] = "line" /\ Len(Line(names)) = 1 + Len(names)
       /\ \A n \in DOMAIN names : Line(names)[1 + n] = names[n]
       /\ Line(names) # Delimiter /\ Line(names) # CRLF
<1>1. /\ Delimiter \in Seq(Word) /\ CRLF \in Seq(Word) /\ Dashes \in Seq(Word)
      /\ Delimiter # << >> /\ CRLF # << >> /\ Dashes # << >>
  BY DEF Delimiter, CRLF, Dashes, Word
<1>2. /\ Delimiter[1] = "delimiter" /\ CRLF[1] = "CRLF" /\ Dashes[1] = "--"
  BY DEF Delimiter, CRLF, Dashes
<1>3. ASSUME NEW names \in Seq(Word)
      PROVE  /\ Line(names) \in Token
             /\ Line(names)[1] = "line" /\ Len(Line(names)) = 1 + Len(names)
             /\ \A n \in DOMAIN names : Line(names)[1 + n] = names[n]
  <2>1. <<"line">> \in Seq(Word) /\ Len(<<"line">>) = 1 /\ <<"line">>[1] = "line"
    BY DEF Word
  <2> DEFINE line == <<"line">>
  <2> HIDE DEF line
  <2>2. /\ line \o names \in Seq(Word)
        /\ Len(line \o names) = Len(line) + Len(names)
        /\ \A n \in 1 .. Len(line) + Len(names) :
             (line \o names)[n] = IF n <= Len(line) THEN line[n] ELSE names[n - Len(line)]
    BY <2>1, ConcatProperties DEF line
  <2>3. Line(names) = line \o names
    BY DEF Line, line
  <2>4. Len(names) \in Nat /\ DOMAIN names = 1 .. Len(names)
    OBVIOUS
  <2>5. /\ Len(line) = 1 /\ line[1] = "line"
    BY <2>1 DEF line
  <2>6. Line(names) # << >>
    BY <2>2, <2>3, <2>4, <2>5
  <2>7. ASSUME NEW n \in DOMAIN names PROVE Line(names)[1 + n] = names[n]
    BY <2>2, <2>3, <2>4, <2>5
  <2>8. Line(names)[1] = "line" /\ Len(Line(names)) = 1 + Len(names)
    BY <2>2, <2>3, <2>4, <2>5
  <2> QED BY <2>2, <2>3, <2>6, <2>7, <2>8 DEF Token
<1> QED BY <1>1, <1>2, <1>3 DEF Token

\* Tokens one after another, and what stands where.
LEMMA Joined ==
  ASSUME NEW S, NEW s \in Seq(S), NEW t \in Seq(S)
  PROVE  /\ s \o t \in Seq(S)
         /\ Len(s \o t) = Len(s) + Len(t)
         /\ \A n \in 1 .. Len(s) : (s \o t)[n] = s[n]
         /\ \A n \in 1 .. Len(t) : (s \o t)[Len(s) + n] = t[n]
<1>1. /\ s \o t \in Seq(S)
      /\ Len(s \o t) = Len(s) + Len(t)
      /\ \A n \in 1 .. Len(s) + Len(t) :
           (s \o t)[n] = IF n <= Len(s) THEN s[n] ELSE t[n - Len(s)]
  BY ConcatProperties
<1>2. Len(s) \in Nat /\ Len(t) \in Nat
  OBVIOUS
<1>3. ASSUME NEW n \in 1 .. Len(s) PROVE (s \o t)[n] = s[n]
  BY <1>1, <1>2
<1>4. ASSUME NEW n \in 1 .. Len(t) PROVE (s \o t)[Len(s) + n] = t[n]
  <2>1. Len(s) + n \in 1 .. Len(s) + Len(t) /\ ~(Len(s) + n <= Len(s)) /\ Len(s) + n - Len(s) = n
    BY <1>2
  <2> QED BY <1>1, <2>1
<1> QED BY <1>1, <1>3, <1>4

\* How long the headers of a part are.
HeadOf(part) == IF part.names = << >> THEN 3 ELSE 5

\* A part of a form: its headers, then its data.
LEMMA PartLayout ==
  ASSUME NEW parts \in Forms, NEW k \in DOMAIN parts
  PROVE  LET part == parts[k]
             tokens == EncodePart(part)
             head == HeadOf(part)
         IN /\ part.names \in Seq(Word) /\ part.data \in Seq(Token)
            /\ tokens \in Seq(Token)
            /\ Len(tokens) = head + Len(part.data) + 1
            /\ tokens[1] = Delimiter /\ tokens[2] = CRLF
            /\ part.names # << >> => tokens[3] = Line(part.names) /\ tokens[4] = CRLF
            /\ tokens[head] = CRLF
            /\ \A n \in 1 .. Len(part.data) : tokens[head + n] = part.data[n]
            /\ tokens[head + Len(part.data) + 1] = CRLF
<1> DEFINE part == parts[k]
           begin == <<Delimiter, CRLF>>
           line == IF part.names = << >> THEN << >> ELSE <<Line(part.names), CRLF>>
           end == <<CRLF>>
           first == begin \o line
           second == first \o end
           third == second \o part.data
           tokens == EncodePart(part)
           head == HeadOf(part)
<1>1. part.names \in Seq(Word) /\ part.data \in Seq(Token)
  <2>1. parts \in Seq(Part)
    BY BodyAssumption
  <2>2. parts[k] \in Part
    BY <2>1
  <2> QED BY <2>2 DEF Part
<1> HIDE DEF part
<1>2. begin \in Seq(Token) /\ Len(begin) = 2 /\ begin[1] = Delimiter /\ begin[2] = CRLF
  BY Tokens
<1>3. end \in Seq(Token) /\ Len(end) = 1 /\ end[1] = CRLF
  BY Tokens
<1>4. /\ line \in Seq(Token)
      /\ part.names = << >> => Len(line) = 0
      /\ part.names # << >> =>
           Len(line) = 2 /\ line[1] = Line(part.names) /\ line[2] = CRLF
  BY <1>1, Tokens
<1>5. tokens = third \o end
  BY DEF EncodePart
<1> HIDE DEF begin, line, end, first, second, third, tokens
<1>6. /\ first \in Seq(Token)
      /\ Len(first) = Len(begin) + Len(line)
      /\ \A n \in 1 .. Len(begin) : first[n] = begin[n]
      /\ \A n \in 1 .. Len(line) : first[Len(begin) + n] = line[n]
  <2>1. LET s == begin \o line IN
        /\ s \in Seq(Token)
        /\ Len(s) = Len(begin) + Len(line)
        /\ \A n \in 1 .. Len(begin) : s[n] = begin[n]
        /\ \A n \in 1 .. Len(line) : s[Len(begin) + n] = line[n]
    <3>1. begin \in Seq(Token) /\ line \in Seq(Token)
      BY <1>2, <1>4
    <3> QED BY <3>1, Joined
  <2>2. first = begin \o line
    BY DEF first
  <2> QED BY <2>1, <2>2
<1>7. /\ second \in Seq(Token)
      /\ Len(second) = Len(first) + Len(end)
      /\ \A n \in 1 .. Len(first) : second[n] = first[n]
      /\ \A n \in 1 .. Len(end) : second[Len(first) + n] = end[n]
  <2>1. LET s == first \o end IN
        /\ s \in Seq(Token)
        /\ Len(s) = Len(first) + Len(end)
        /\ \A n \in 1 .. Len(first) : s[n] = first[n]
        /\ \A n \in 1 .. Len(end) : s[Len(first) + n] = end[n]
    <3>1. first \in Seq(Token) /\ end \in Seq(Token)
      BY <1>3, <1>6
    <3> QED BY <3>1, Joined
  <2>2. second = first \o end
    BY DEF second
  <2> QED BY <2>1, <2>2
<1>8. /\ third \in Seq(Token)
      /\ Len(third) = Len(second) + Len(part.data)
      /\ \A n \in 1 .. Len(second) : third[n] = second[n]
      /\ \A n \in 1 .. Len(part.data) : third[Len(second) + n] = part.data[n]
  <2>1. LET s == second \o part.data IN
        /\ s \in Seq(Token)
        /\ Len(s) = Len(second) + Len(part.data)
        /\ \A n \in 1 .. Len(second) : s[n] = second[n]
        /\ \A n \in 1 .. Len(part.data) : s[Len(second) + n] = part.data[n]
    <3>1. second \in Seq(Token) /\ part.data \in Seq(Token)
      BY <1>1, <1>7
    <3> QED BY <3>1, Joined
  <2>2. third = second \o part.data
    BY DEF third
  <2> QED BY <2>1, <2>2
<1>9. /\ tokens \in Seq(Token)
      /\ Len(tokens) = Len(third) + Len(end)
      /\ \A n \in 1 .. Len(third) : tokens[n] = third[n]
      /\ \A n \in 1 .. Len(end) : tokens[Len(third) + n] = end[n]
  <2>1. LET s == third \o end IN
        /\ s \in Seq(Token)
        /\ Len(s) = Len(third) + Len(end)
        /\ \A n \in 1 .. Len(third) : s[n] = third[n]
        /\ \A n \in 1 .. Len(end) : s[Len(third) + n] = end[n]
    BY <1>3, <1>8, Joined
  <2> QED BY <1>5, <2>1
<1>10. Len(part.data) \in Nat
  BY <1>1
<1>11. Len(first) = head - 1 /\ head \in {3, 5} /\ (head = 5 <=> part.names # << >>)
  <2>1. CASE part.names = << >>
    BY <1>2, <1>4, <1>6, <2>1 DEF HeadOf
  <2>2. CASE part.names # << >>
    <3>1. head = 5
      BY <2>2 DEF HeadOf, head
    <3> QED BY <1>2, <1>4, <1>6, <2>2, <3>1
  <2> QED BY <2>1, <2>2
<1> HIDE DEF head
<1>12. Len(second) = head /\ Len(third) = head + Len(part.data)
       /\ Len(tokens) = head + Len(part.data) + 1
  BY <1>3, <1>7, <1>8, <1>9, <1>10, <1>11
<1>13. \A n \in 1 .. head - 1 : tokens[n] = first[n]
  <2> SUFFICES ASSUME NEW n \in 1 .. head - 1 PROVE tokens[n] = first[n]
    OBVIOUS
  <2>1. n \in 1 .. Len(first) /\ n \in 1 .. Len(second) /\ n \in 1 .. Len(third)
    BY <1>10, <1>11, <1>12
  <2> QED BY <1>7, <1>8, <1>9, <2>1
<1>14. tokens[1] = Delimiter /\ tokens[2] = CRLF
  <2>1. 1 \in 1 .. head - 1 /\ 2 \in 1 .. head - 1 /\ 1 \in 1 .. Len(begin) /\ 2 \in 1 .. Len(begin)
    BY <1>2, <1>11
  <2> QED BY <1>2, <1>6, <1>13, <2>1
<1>15. ASSUME part.names # << >> PROVE tokens[3] = Line(part.names) /\ tokens[4] = CRLF
  <2>1. 3 \in 1 .. head - 1 /\ 4 \in 1 .. head - 1
    BY <1>11, <1>15
  <2>2. 1 \in 1 .. Len(line) /\ 2 \in 1 .. Len(line) /\ Len(begin) + 1 = 3 /\ Len(begin) + 2 = 4
    BY <1>2, <1>4, <1>15
  <2>3. first[Len(begin) + 1] = line[1] /\ first[Len(begin) + 2] = line[2]
    BY <1>6, <2>2
  <2> QED BY <1>4, <1>13, <1>15, <2>1, <2>2, <2>3
<1>16. tokens[head] = CRLF
  <2>1. 1 \in 1 .. Len(end) /\ Len(first) + 1 = head /\ head \in 1 .. Len(second)
        /\ head \in 1 .. Len(third)
    BY <1>3, <1>10, <1>11, <1>12
  <2>2. second[Len(first) + 1] = end[1]
    BY <1>7, <2>1
  <2> QED BY <1>3, <1>8, <1>9, <2>1, <2>2
<1>17. ASSUME NEW n \in 1 .. Len(part.data) PROVE tokens[head + n] = part.data[n]
  <2>1. head + n \in 1 .. Len(third) /\ Len(second) + n = head + n
    BY <1>10, <1>11, <1>12
  <2> QED BY <1>8, <1>9, <2>1
<1>18. tokens[head + Len(part.data) + 1] = CRLF
  <2>1. 1 \in 1 .. Len(end) /\ Len(third) + 1 = head + Len(part.data) + 1
    BY <1>3, <1>12
  <2>2. tokens[Len(third) + 1] = end[1]
    BY <1>9, <2>1
  <2> QED BY <1>3, <2>1, <2>2
<1> QED BY <1>1, <1>9, <1>12, <1>14, <1>15, <1>16, <1>17, <1>18 DEF part, tokens, head

\* Where part k of a form ends in its body.
EndOf(parts, k) == Len(Encoded(parts)[k])

\* A part comes right after the ones before it, which stay as they were.
LEMMA PartsFollow ==
  ASSUME NEW parts \in Forms
  PROVE  /\ Len(parts) \in Nat /\ DOMAIN parts = 1 .. Len(parts)
         /\ EndOf(parts, 0) = 0
         /\ \A k \in 0 .. Len(parts) :
              Encoded(parts)[k] \in Seq(Token) /\ EndOf(parts, k) \in Nat
         /\ \A k \in 0 .. Len(parts) - 1 :
              /\ Len(EncodePart(parts[k + 1])) \in Nat
              /\ Len(EncodePart(parts[k + 1])) >= 4
              /\ EndOf(parts, k + 1) = EndOf(parts, k) + Len(EncodePart(parts[k + 1]))
              /\ \A w \in 1 .. EndOf(parts, k) : Encoded(parts)[k + 1][w] = Encoded(parts)[k][w]
              /\ \A w \in 1 .. Len(EncodePart(parts[k + 1])) :
                   Encoded(parts)[k + 1][EndOf(parts, k) + w] = EncodePart(parts[k + 1])[w]
<1> DEFINE N == Len(parts)
           c == Encoded(parts)
           S == {k \in 0 .. N : c[k] \in Seq(Token)}
<1>1. N \in Nat /\ DOMAIN parts = 1 .. N
  <2>1. parts \in Seq(Part)
    BY BodyAssumption
  <2> QED BY <2>1
<1> HIDE DEF N
<1>2. /\ c[0] = << >>
      /\ \A k \in 0 .. N - 1 : c[k + 1] = c[k] \o EncodePart(parts[k + 1])
  BY <1>1, EncodedSteps DEF N
<1>3. ASSUME NEW k \in 0 .. N - 1
      PROVE  /\ EncodePart(parts[k + 1]) \in Seq(Token)
             /\ Len(EncodePart(parts[k + 1])) \in Nat
             /\ Len(EncodePart(parts[k + 1])) >= 4
  <2>1. k + 1 \in DOMAIN parts
    BY <1>1
  <2> DEFINE data == parts[k + 1].data
             tokens == EncodePart(parts[k + 1])
             head == HeadOf(parts[k + 1])
  <2>2. data \in Seq(Token) /\ tokens \in Seq(Token) /\ Len(tokens) = head + Len(data) + 1
    BY <2>1, PartLayout
  <2>3. head \in {3, 5}
    BY DEF HeadOf
  <2> HIDE DEF data, tokens, head
  <2>4. Len(data) \in Nat
    BY <2>2
  <2> QED BY <2>2, <2>3, <2>4 DEF tokens
<1> HIDE DEF c
<1>4. \A k \in 0 .. N : k \in S
  <2>1. 0 \in S
    <3>1. 0 \in 0 .. N
      BY <1>1
    <3>2. << >> \in Seq(Token)
      BY EmptySeq
    <3> QED BY <1>2, <3>1, <3>2
  <2>2. ASSUME NEW k \in 0 .. N - 1, k \in S PROVE k + 1 \in S
    <3>1. k + 1 \in 0 .. N
      BY <1>1
    <3>2. c[k] \in Seq(Token) /\ EncodePart(parts[k + 1]) \in Seq(Token)
      BY <1>3, <2>2
    <3>3. c[k] \o EncodePart(parts[k + 1]) \in Seq(Token)
      BY <3>2, Joined
    <3> QED BY <1>2, <3>1, <3>3
  <2> HIDE DEF S
  <2> QED BY <1>1, <2>1, <2>2, UpTo, Zenon
<1>5. \A k \in 0 .. N : c[k] \in Seq(Token) /\ EndOf(parts, k) \in Nat
  <2> SUFFICES ASSUME NEW k \in 0 .. N PROVE c[k] \in Seq(Token) /\ EndOf(parts, k) \in Nat
    OBVIOUS
  <2>1. c[k] \in Seq(Token)
    BY <1>4
  <2>2. Len(c[k]) \in Nat
    BY <2>1
  <2> QED BY <2>1, <2>2 DEF EndOf, c
<1>6. EndOf(parts, 0) = 0
  <2>1. Len(c[0]) = 0
    BY <1>2
  <2> QED BY <2>1 DEF EndOf, c
<1>7. ASSUME NEW k \in 0 .. N - 1
      PROVE  /\ EndOf(parts, k + 1) = EndOf(parts, k) + Len(EncodePart(parts[k + 1]))
             /\ \A w \in 1 .. EndOf(parts, k) : c[k + 1][w] = c[k][w]
             /\ \A w \in 1 .. Len(EncodePart(parts[k + 1])) :
                  c[k + 1][EndOf(parts, k) + w] = EncodePart(parts[k + 1])[w]
  <2> DEFINE s == c[k]
             t == EncodePart(parts[k + 1])
  <2>1. s \in Seq(Token) /\ t \in Seq(Token)
    <3>1. k \in 0 .. N
      BY <1>1
    <3> QED BY <1>3, <1>5, <3>1
  <2>2. c[k + 1] = s \o t
    BY <1>2
  <2> HIDE DEF s, t
  <2>3. /\ Len(s \o t) = Len(s) + Len(t)
        /\ \A n \in 1 .. Len(s) : (s \o t)[n] = s[n]
        /\ \A n \in 1 .. Len(t) : (s \o t)[Len(s) + n] = t[n]
    BY <2>1, Joined
  <2>4. EndOf(parts, k) = Len(s) /\ EndOf(parts, k + 1) = Len(c[k + 1])
    BY DEF EndOf, s, c
  <2> QED BY <2>2, <2>3, <2>4 DEF s, t
<1> QED BY <1>1, <1>3, <1>5, <1>6, <1>7 DEF N, c

\* Parts have at least four tokens.
LEMMA EndsApart ==
  ASSUME NEW parts \in Forms, NEW j \in 0 .. Len(parts), NEW k \in 0 .. Len(parts), j < k
  PROVE  EndOf(parts, j) + 4 <= EndOf(parts, k)
<1> DEFINE N == Len(parts)
           E(n) == EndOf(parts, n)
           S == {n \in 0 .. N : j < n => E(j) + 4 <= E(n)}
<1>1. N \in Nat /\ \A n \in 0 .. N : E(n) \in Nat
  BY PartsFollow
<1>2. ASSUME NEW n \in 0 .. N - 1 PROVE E(n) + 4 <= E(n + 1)
  <2> DEFINE l == Len(EncodePart(parts[n + 1]))
  <2>1. l \in Nat /\ l >= 4 /\ E(n + 1) = E(n) + l
    BY PartsFollow
  <2>2. n \in 0 .. N
    BY <1>1
  <2> HIDE DEF l, E
  <2> QED BY <1>1, <2>1, <2>2
<1> HIDE DEF N, E
<1>3. 0 \in S
  BY <1>1 DEF N
<1>4. ASSUME NEW n \in 0 .. N - 1, n \in S PROVE n + 1 \in S
  <2>1. n + 1 \in 0 .. N /\ n \in 0 .. N /\ E(n) \in Nat /\ E(n + 1) \in Nat /\ E(j) \in Nat
    BY <1>1 DEF N
  <2>2. E(n) + 4 <= E(n + 1)
    BY <1>2
  <2>3. j < n => E(j) + 4 <= E(n)
    BY <1>4
  <2>4. j < n + 1 => j < n \/ j = n
    BY <1>1, <2>1 DEF N
  <2>5. j < n + 1 => E(j) + 4 <= E(n + 1)
    BY <2>1, <2>2, <2>3, <2>4
  <2> QED BY <2>1, <2>5
<1>5. \A n \in 0 .. N : n \in S
  <2> HIDE DEF S
  <2> QED BY <1>1, <1>3, <1>4, UpTo, Zenon
<1> QED BY <1>5 DEF N, E

\* What the first parts are does not change with those that follow.
LEMMA PrefixKept ==
  ASSUME NEW parts \in Forms, NEW k \in 0 .. Len(parts), NEW m \in 0 .. Len(parts), k <= m,
         NEW w \in 1 .. EndOf(parts, k)
  PROVE  Encoded(parts)[m][w] = Encoded(parts)[k][w]
<1> DEFINE N == Len(parts)
           c == Encoded(parts)
           S == {n \in 0 .. N : k <= n => c[n][w] = c[k][w]}
<1>1. N \in Nat /\ \A n \in 0 .. N : EndOf(parts, n) \in Nat
  BY PartsFollow
<1>2. 0 \in S
  <2>1. 0 \in 0 .. N /\ (k <= 0 => k = 0)
    BY <1>1
  <2> QED BY <2>1
<1>3. ASSUME NEW n \in 0 .. N - 1, n \in S PROVE n + 1 \in S
  <2>1. n + 1 \in 0 .. N /\ n \in 0 .. N /\ (k <= n + 1 => k = n + 1 \/ k <= n)
    BY <1>1
  <2>2. k <= n => w \in 1 .. EndOf(parts, n)
    <3>1. k < n => EndOf(parts, k) + 4 <= EndOf(parts, n)
      BY <2>1, EndsApart
    <3>2. EndOf(parts, k) \in Nat /\ EndOf(parts, n) \in Nat
      BY <1>1, <2>1
    <3>3. k <= n => k = n \/ k < n
      BY <1>1
    <3> QED BY <3>1, <3>2, <3>3
  <2>3. \A j \in 1 .. EndOf(parts, n) : c[n + 1][j] = c[n][j]
    BY PartsFollow
  <2>4. k <= n => c[n][w] = c[k][w]
    BY <1>3
  <2>5. k <= n => c[n + 1][w] = c[k][w]
    BY <2>2, <2>3, <2>4
  <2> QED BY <2>1, <2>5
<1>4. \A n \in 0 .. N : n \in S
  <2> HIDE DEF S
  <2> QED BY <1>1, <1>2, <1>3, UpTo, Zenon
<1> QED BY <1>4

\* The parts of a form, and what closes it.
LEMMA FormLayout ==
  ASSUME NEW parts \in Forms
  PROVE  LET last == EndOf(parts, Len(parts))
             all == Encode(parts)
         IN /\ all \in Seq(Token) /\ Len(all) = last + 3
            /\ \A k \in DOMAIN parts : \A w \in 1 .. Len(EncodePart(parts[k])) :
                 all[EndOf(parts, k - 1) + w] = EncodePart(parts[k])[w]
            /\ all[last + 1] = Delimiter /\ all[last + 2] = Dashes /\ all[last + 3] = CRLF
<1> DEFINE N == Len(parts)
           last == EndOf(parts, N)
           all == Encode(parts)
           s == Encoded(parts)[N]
           t == <<Delimiter, Dashes, CRLF>>
<1>1. /\ N \in Nat /\ DOMAIN parts = 1 .. N
      /\ \A k \in 0 .. N : Encoded(parts)[k] \in Seq(Token) /\ EndOf(parts, k) \in Nat
  BY PartsFollow
<1>2. s \in Seq(Token) /\ Len(s) = last /\ last \in Nat
  <2>1. N \in 0 .. N
    BY <1>1
  <2> QED BY <1>1, <2>1 DEF EndOf
<1>3. t \in Seq(Token) /\ Len(t) = 3 /\ t[1] = Delimiter /\ t[2] = Dashes /\ t[3] = CRLF
  BY Tokens
<1>4. all = s \o t
  BY DEF Encode
<1> HIDE DEF s, t, all, last
<1>5. /\ s \o t \in Seq(Token)
      /\ Len(s \o t) = Len(s) + Len(t)
      /\ \A n \in 1 .. Len(s) : (s \o t)[n] = s[n]
      /\ \A n \in 1 .. Len(t) : (s \o t)[Len(s) + n] = t[n]
  <2>1. s \in Seq(Token) /\ t \in Seq(Token)
    BY <1>2, <1>3
  <2> QED BY <2>1, Joined
<1>6. all \in Seq(Token) /\ Len(all) = last + 3
  BY <1>2, <1>3, <1>4, <1>5
<1>7. all[last + 1] = Delimiter /\ all[last + 2] = Dashes /\ all[last + 3] = CRLF
  <2>1. 1 \in 1 .. Len(t) /\ 2 \in 1 .. Len(t) /\ 3 \in 1 .. Len(t)
    BY <1>3
  <2> QED BY <1>2, <1>3, <1>4, <1>5, <2>1
<1>8. ASSUME NEW k \in DOMAIN parts, NEW w \in 1 .. Len(EncodePart(parts[k]))
      PROVE  all[EndOf(parts, k - 1) + w] = EncodePart(parts[k])[w]
  <2> DEFINE j == k - 1
             l == Len(EncodePart(parts[k]))
             p == EndOf(parts, j) + w
  <2>1. j \in 0 .. N - 1 /\ j + 1 = k /\ k \in 0 .. N /\ j \in 0 .. N /\ k <= N /\ N \in 0 .. N
    BY <1>1
  <2>2. /\ l \in Nat /\ EndOf(parts, k) = EndOf(parts, j) + l
        /\ Encoded(parts)[k][p] = EncodePart(parts[k])[w]
    BY <2>1, PartsFollow
  <2>3. EndOf(parts, j) \in Nat /\ EndOf(parts, k) \in Nat
    BY <1>1, <2>1
  <2>4. p \in 1 .. EndOf(parts, k)
    BY <2>2, <2>3
  <2>5. s[p] = Encoded(parts)[k][p]
    BY <2>1, <2>4, PrefixKept DEF s
  <2>6. p \in 1 .. Len(s)
    <3>1. k < N => EndOf(parts, k) + 4 <= EndOf(parts, N)
      BY <2>1, EndsApart
    <3>2. k < N \/ k = N
      BY <1>1
    <3>3. EndOf(parts, N) \in Nat /\ Len(s) = EndOf(parts, N)
      BY <1>2 DEF last
    <3> QED BY <2>3, <2>4, <3>1, <3>2, <3>3
  <2> QED BY <1>4, <1>5, <2>2, <2>5, <2>6
<1> QED BY <1>6, <1>7, <1>8 DEF all, last

\* Every token before the close is in some part.
LEMMA Located ==
  ASSUME NEW parts \in Forms, NEW w \in 1 .. EndOf(parts, Len(parts))
  PROVE  \E m \in DOMAIN parts : EndOf(parts, m - 1) < w /\ w <= EndOf(parts, m)
<1> DEFINE N == Len(parts)
           S == {n \in 0 .. N : w <= EndOf(parts, n)}
           m == Min(S)
<1>1. /\ N \in Nat /\ DOMAIN parts = 1 .. N /\ EndOf(parts, 0) = 0
      /\ \A k \in 0 .. N : EndOf(parts, k) \in Nat
  BY PartsFollow
<1>2. S \in SUBSET Nat /\ S # {}
  <2>1. N \in 0 .. N /\ w <= EndOf(parts, N)
    BY <1>1
  <2> QED BY <1>1, <2>1
<1>3. m \in S /\ \A n \in S : m <= n
  <2> HIDE DEF S
  <2> QED BY <1>2, FirstOfSet
<1> HIDE DEF m
<1>4. m # 0
  <2>1. w \in Nat /\ ~(w <= 0)
    BY <1>1
  <2> QED BY <1>1, <1>3, <2>1
<1>5. m \in DOMAIN parts /\ m - 1 \in 0 .. N /\ ~(m <= m - 1)
  BY <1>1, <1>3, <1>4
<1>6. m - 1 \notin S
  BY <1>3, <1>5
<1>7. EndOf(parts, m - 1) < w
  <2>1. EndOf(parts, m - 1) \in Nat /\ w \in Int
    BY <1>1, <1>5
  <2>2. ~(w <= EndOf(parts, m - 1))
    BY <1>5, <1>6
  <2> QED BY <2>1, <2>2
<1> QED BY <1>3, <1>5, <1>7

\* A part of a form where it lies in the body.
LEMMA PartAt ==
  ASSUME NEW parts \in Forms, NEW k \in DOMAIN parts
  PROVE  LET part == parts[k]
             from == EndOf(parts, k - 1)
             to == EndOf(parts, k)
             head == HeadOf(part)
             l == Len(part.data)
             all == Encode(parts)
         IN /\ part.names \in Seq(Word) /\ part.data \in Seq(Token)
            /\ from \in Nat /\ l \in Nat /\ to = from + head + l + 1
            /\ to <= EndOf(parts, Len(parts)) /\ EndOf(parts, Len(parts)) \in Nat
            /\ all[from + 1] = Delimiter /\ all[from + 2] = CRLF
            /\ part.names # << >> => all[from + 3] = Line(part.names) /\ all[from + 4] = CRLF
            /\ all[from + head] = CRLF
            /\ \A n \in 1 .. l : all[from + head + n] = part.data[n]
            /\ all[from + head + l + 1] = CRLF
<1> DEFINE N == Len(parts)
           part == parts[k]
           from == EndOf(parts, k - 1)
           to == EndOf(parts, k)
           head == HeadOf(part)
           l == Len(part.data)
           all == Encode(parts)
           tokens == EncodePart(part)
<1>1. /\ part.names \in Seq(Word) /\ part.data \in Seq(Token)
      /\ tokens \in Seq(Token)
      /\ Len(tokens) = head + l + 1
      /\ tokens[1] = Delimiter /\ tokens[2] = CRLF
      /\ part.names # << >> => tokens[3] = Line(part.names) /\ tokens[4] = CRLF
      /\ tokens[head] = CRLF
      /\ \A n \in 1 .. l : tokens[head + n] = part.data[n]
      /\ tokens[head + l + 1] = CRLF
  BY PartLayout
<1>2. l \in Nat
  BY <1>1
<1>3. head \in {3, 5} /\ (part.names # << >> => head = 5)
  BY DEF HeadOf
<1>4. N \in Nat /\ k \in 1 .. N /\ k - 1 \in 0 .. N - 1 /\ k - 1 + 1 = k /\ k \in 0 .. N
      /\ k - 1 \in 0 .. N /\ N \in 0 .. N
  BY PartsFollow
<1>5. to = from + Len(tokens)
  <2> DEFINE j == k - 1
  <2>1. EndOf(parts, j + 1) = EndOf(parts, j) + Len(EncodePart(parts[j + 1]))
    BY <1>4, PartsFollow
  <2> QED BY <1>4, <2>1
<1>6. from \in Nat /\ to \in Nat /\ EndOf(parts, N) \in Nat
  BY <1>4, PartsFollow
<1>7. to <= EndOf(parts, N)
  <2>1. k < N => EndOf(parts, k) + 4 <= EndOf(parts, N)
    BY <1>4, EndsApart
  <2>2. k < N \/ k = N
    BY <1>4
  <2> QED BY <1>6, <2>1, <2>2
<1>8. \A w \in 1 .. Len(tokens) : all[from + w] = tokens[w]
  BY FormLayout
<1> HIDE DEF tokens, from, to, head, l, all, part
<1>9. all[from + 1] = Delimiter /\ all[from + 2] = CRLF
  <2>1. 1 \in 1 .. Len(tokens) /\ 2 \in 1 .. Len(tokens)
    BY <1>1, <1>2, <1>3
  <2> QED BY <1>1, <1>8, <2>1
<1>10. ASSUME part.names # << >>
       PROVE  all[from + 3] = Line(part.names) /\ all[from + 4] = CRLF
  <2>1. 3 \in 1 .. Len(tokens) /\ 4 \in 1 .. Len(tokens)
    BY <1>1, <1>2, <1>3, <1>10
  <2> QED BY <1>1, <1>8, <1>10, <2>1
<1>11. all[from + head] = CRLF
  <2>1. head \in 1 .. Len(tokens)
    BY <1>1, <1>2, <1>3
  <2> QED BY <1>1, <1>8, <2>1
<1>12. ASSUME NEW n \in 1 .. l PROVE all[from + head + n] = part.data[n]
  <2>1. head + n \in 1 .. Len(tokens) /\ from + (head + n) = from + head + n
    BY <1>1, <1>2, <1>3, <1>6
  <2>2. all[from + (head + n)] = tokens[head + n]
    BY <1>8, <2>1
  <2> QED BY <1>1, <2>1, <2>2
<1>13. all[from + head + l + 1] = CRLF
  <2>1. head + l + 1 \in 1 .. Len(tokens) /\ from + (head + l + 1) = from + head + l + 1
    BY <1>1, <1>2, <1>3, <1>6
  <2>2. all[from + (head + l + 1)] = tokens[head + l + 1]
    BY <1>8, <2>1
  <2> QED BY <1>1, <2>1, <2>2
<1>14. to = from + head + l + 1
  BY <1>1, <1>2, <1>3, <1>5, <1>6
<1> QED BY <1>1, <1>2, <1>6, <1>7, <1>9, <1>10, <1>11, <1>12, <1>13, <1>14
        DEF from, to, head, l, all, part, N

\* A part has no delimiter but its first token, and a header line only if it is named.
LEMMA PartWords ==
  ASSUME NEW parts \in Forms, NEW k \in DOMAIN parts, NEW w \in Int,
         EndOf(parts, k - 1) < w, w <= EndOf(parts, k)
  PROVE  /\ w # EndOf(parts, k - 1) + 1 => Encode(parts)[w] # Delimiter
         /\ parts[k].names = << >> => Encode(parts)[w][1] # "line"
<1> DEFINE part == parts[k]
           from == EndOf(parts, k - 1)
           to == EndOf(parts, k)
           head == HeadOf(part)
           l == Len(part.data)
           all == Encode(parts)
           fits(t, first) == /\ ~first => t # Delimiter
                             /\ part.names = << >> => t[1] # "line"
<1>1. /\ part.names \in Seq(Word) /\ part.data \in Seq(Token)
      /\ from \in Nat /\ l \in Nat /\ to = from + head + l + 1
      /\ all[from + 1] = Delimiter /\ all[from + 2] = CRLF
      /\ part.names # << >> => all[from + 3] = Line(part.names) /\ all[from + 4] = CRLF
      /\ all[from + head] = CRLF
      /\ \A n \in 1 .. l : all[from + head + n] = part.data[n]
      /\ all[from + head + l + 1] = CRLF
  BY PartAt
<1>2. /\ part.names = << >> => head = 3
      /\ part.names # << >> => head = 5
  BY DEF HeadOf
<1>3. \A n \in 1 .. l : part.data[n] # Delimiter /\ (part.names = << >> => part.data[n][1] # "line")
  <2>1. DOMAIN part.data = 1 .. l
    BY <1>1
  <2> QED BY <2>1, BodyAssumption
<1>4. from < w /\ w <= to
  OBVIOUS
<1> HIDE DEF part, from, to, head, l, all
<1>5. CASE w = from + 1
  BY <1>1, <1>5, Tokens DEF part, from, all
<1>6. CASE w = from + 2
  BY <1>1, <1>6, Tokens DEF part, from, all
<1>7. CASE w = from + 3 /\ head = 5
  BY <1>1, <1>2, <1>7, Tokens DEF part, from, all
<1>8. CASE w = from + 4 /\ head = 5
  BY <1>1, <1>2, <1>8, Tokens DEF part, from, all
<1>9. CASE w = from + head \/ w = from + head + l + 1
  BY <1>1, <1>9, Tokens DEF part, from, all
<1>10. CASE from + head < w /\ w < from + head + l + 1
  <2> DEFINE n == w - (from + head)
  <2>1. head \in Nat
    BY <1>2
  <2>2. n \in 1 .. l /\ from + head + n = w
    BY <1>1, <1>10, <2>1
  <2>3. all[w] = part.data[n]
    BY <1>1, <2>2
  <2> QED BY <1>3, <2>2, <2>3 DEF part, from, all
<1>11. \/ w = from + 1 \/ w = from + 2
       \/ w = from + 3 /\ head = 5
       \/ w = from + 4 /\ head = 5
       \/ w = from + head \/ w = from + head + l + 1
       \/ from + head < w /\ w < from + head + l + 1
  <2>1. head \in {3, 5}
    BY <1>2
  <2>2. from \in Nat /\ l \in Nat /\ from < w /\ w <= from + head + l + 1
    BY <1>1, <1>4
  <2> QED BY <2>1, <2>2
<1> QED BY <1>5, <1>6, <1>7, <1>8, <1>9, <1>10, <1>11

\* The delimiters of a form are where its parts end.
LEMMA Delimiters ==
  ASSUME NEW parts \in Forms
  PROVE  /\ \A k \in 0 .. Len(parts) :
              /\ EndOf(parts, k) + 1 \in 1 .. Len(Encode(parts))
              /\ Encode(parts)[EndOf(parts, k) + 1] = Delimiter
         /\ \A w \in 1 .. Len(Encode(parts)) : Encode(parts)[w] = Delimiter =>
              \E k \in 0 .. Len(parts) : w = EndOf(parts, k) + 1
<1> DEFINE N == Len(parts)
           last == EndOf(parts, N)
           all == Encode(parts)
<1>1. /\ N \in Nat /\ DOMAIN parts = 1 .. N
      /\ \A k \in 0 .. N : EndOf(parts, k) \in Nat
  BY PartsFollow
<1>2. /\ Len(all) = last + 3
      /\ all[last + 1] = Delimiter /\ all[last + 2] = Dashes /\ all[last + 3] = CRLF
  BY FormLayout
<1>3. last \in Nat
  <2>1. N \in 0 .. N
    BY <1>1
  <2> QED BY <1>1, <2>1
<1>4. ASSUME NEW k \in 0 .. N
      PROVE  EndOf(parts, k) + 1 \in 1 .. Len(all) /\ all[EndOf(parts, k) + 1] = Delimiter
  <2>1. CASE k = N
    BY <1>2, <1>3, <2>1
  <2>2. CASE k < N
    <3> DEFINE m == k + 1
    <3>1. m \in DOMAIN parts /\ m - 1 = k /\ N \in 0 .. N
      BY <1>1, <2>2
    <3>2. all[EndOf(parts, m - 1) + 1] = Delimiter
      BY <3>1, PartAt
    <3>3. EndOf(parts, k) + 4 <= last
      BY <2>2, <3>1, EndsApart
    <3>4. EndOf(parts, k) \in Nat
      BY <1>1
    <3> QED BY <1>2, <1>3, <3>1, <3>2, <3>3, <3>4
  <2>3. k = N \/ k < N
    <3>1. N \in Nat
      BY <1>1
    <3> HIDE DEF N
    <3> QED BY <3>1
  <2> QED BY <2>1, <2>2, <2>3
<1>5. ASSUME NEW w \in 1 .. Len(all), all[w] = Delimiter
      PROVE  \E k \in 0 .. N : w = EndOf(parts, k) + 1
  <2>1. CASE w <= last
    <3>1. w \in 1 .. EndOf(parts, Len(parts))
      BY <1>2, <1>3, <2>1
    <3>2. PICK m \in DOMAIN parts : EndOf(parts, m - 1) < w /\ w <= EndOf(parts, m)
      BY <3>1, Located
    <3>3. w \in Int
      BY <1>2, <1>3
    <3>4. w = EndOf(parts, m - 1) + 1
      BY <1>5, <3>2, <3>3, PartWords
    <3>5. m - 1 \in 0 .. N
      BY <1>1
    <3> QED BY <3>4, <3>5
  <2>2. CASE ~(w <= last)
    <3>1. w = last + 1 \/ w = last + 2 \/ w = last + 3
      BY <1>2, <1>3, <2>2
    <3>2. w = last + 1
      BY <1>2, <1>5, <3>1, Tokens
    <3>3. N \in 0 .. N
      BY <1>1
    <3> QED BY <3>2, <3>3
  <2> QED BY <2>1, <2>2
<1> QED BY <1>4, <1>5

\* Two line ends after another are in some part, and not in the headers of a named one
\* but at their end.
LEMMA BlankLines ==
  ASSUME NEW parts \in Forms, NEW h \in Nat, h >= 1, h + 1 <= Len(Encode(parts)),
         Encode(parts)[h] = CRLF, Encode(parts)[h + 1] = CRLF
  PROVE  \E m \in DOMAIN parts :
           /\ EndOf(parts, m - 1) < h /\ h < EndOf(parts, m)
           /\ parts[m].names # << >> => EndOf(parts, m - 1) + 4 <= h
<1> DEFINE N == Len(parts)
           last == EndOf(parts, N)
           all == Encode(parts)
<1>1. /\ N \in Nat /\ DOMAIN parts = 1 .. N
      /\ \A k \in 0 .. N : EndOf(parts, k) \in Nat
  BY PartsFollow
<1>2. /\ Len(all) = last + 3
      /\ all[last + 1] = Delimiter /\ all[last + 2] = Dashes
  BY FormLayout
<1>3. last \in Nat
  <2>1. N \in 0 .. N
    BY <1>1
  <2> QED BY <1>1, <2>1
<1>4. h <= last
  <2>1. h # last + 1 /\ h # last + 2
    BY <1>2, Tokens
  <2>2. h + 1 <= last + 3
    BY <1>2
  <2> HIDE DEF last
  <2> QED BY <1>3, <2>1, <2>2
<1>5. PICK m \in DOMAIN parts : EndOf(parts, m - 1) < h /\ h <= EndOf(parts, m)
  <2>1. h \in 1 .. EndOf(parts, Len(parts))
    BY <1>3, <1>4
  <2> QED BY <2>1, Located
<1> DEFINE from == EndOf(parts, m - 1)
           to == EndOf(parts, m)
<1>6. h < to
  <2>1. m \in 0 .. N
    BY <1>1
  <2>2. all[to + 1] = Delimiter /\ to \in Nat
    BY <1>1, <2>1, Delimiters
  <2>3. h # to
    BY <2>2, Tokens
  <2> HIDE DEF to
  <2> QED BY <1>5, <2>2, <2>3 DEF to
<1>7. ASSUME parts[m].names # << >> PROVE from + 4 <= h
  <2>1. /\ from \in Nat /\ parts[m].names \in Seq(Word)
        /\ all[from + 1] = Delimiter /\ all[from + 2] = CRLF
        /\ all[from + 3] = Line(parts[m].names)
    BY <1>7, PartAt
  <2>2. h # from + 1
    BY <2>1, Tokens
  <2>3. all[from + 3] # CRLF
    BY <2>1, Tokens
  <2>4. h # from + 3
    BY <2>3
  <2>5. h # from + 2
    <3>1. SUFFICES ASSUME h = from + 2 PROVE FALSE
      OBVIOUS
    <3>2. h + 1 = from + 3
      BY <2>1, <3>1
    <3> QED BY <2>3, <3>2
  <2> HIDE DEF from
  <2> QED BY <1>5, <2>1, <2>2, <2>4, <2>5 DEF from
<1> QED BY <1>5, <1>6, <1>7

\* The least of a set of places, as Find chooses it.
LEMMA LeastChosen ==
  ASSUME NEW S \in SUBSET Nat, S # {}
  PROVE  LET least == CHOOSE j \in S : \A k \in S : j <= k
         IN  least \in S /\ \A k \in S : least <= k
<1>1. \E j \in S : \A k \in S : j <= k
  BY FirstOfSet
<1> QED BY <1>1

\* Where Find finds one token.
LEMMA FindOne ==
  ASSUME body \in Seq(Token), NEW t, NEW from \in Nat, from >= 1
  PROVE  LET at == Find(<<t>>, from)
         IN /\ at = 0 => \A j \in from .. Len(body) : body[j] # t
            /\ at # 0 => /\ at \in from .. Len(body) /\ body[at] = t
                         /\ \A j \in from .. Len(body) : body[j] = t => at <= j
<1> DEFINE n == Len(body)
           found == {j \in from .. Len(body) - Len(<<t>>) + 1 :
                       SubSeq(body, j, j + Len(<<t>>) - 1) = <<t>>}
           least == CHOOSE j \in found : \A k \in found : j <= k
           at == Find(<<t>>, from)
<1>1. n \in Nat
  OBVIOUS
<1>2. ASSUME NEW j \in from .. n PROVE SubSeq(body, j, j) = <<t>> <=> body[j] = t
  <2>1. j \in 1 .. n /\ j - j + 1 = 1
    BY <1>1
  <2>2. SubSeq(body, j, j) = <<body[j]>>
    <3> DEFINE s == SubSeq(body, j, j)
    <3>1. \A w \in j .. j : body[w] \in Token
      BY <2>1
    <3>2. /\ s \in Seq(Token) /\ Len(s) = IF j <= j THEN j - j + 1 ELSE 0
          /\ \A w \in 1 .. j - j + 1 : s[w] = body[j + w - 1]
      <4>1. j \in Int
        BY <2>1
      <4> QED BY <3>1, <4>1, SubSeqProperties
    <3>3. Len(s) = 1 /\ s[1] = body[j + 1 - 1] /\ j + 1 - 1 = j
      BY <2>1, <3>2
    <3> HIDE DEF s
    <3> DEFINE u == <<body[j]>>
    <3>4. u \in Seq(Token) /\ Len(u) = 1 /\ u[1] = body[j]
      BY <3>1, <2>1
    <3> HIDE DEF u
    <3>5. \A w \in 1 .. Len(s) : s[w] = u[w]
      BY <3>3, <3>4
    <3>6. s = u
      BY <3>2, <3>3, <3>4, <3>5, SeqEqual
    <3> QED BY <3>6 DEF s, u
  <2> QED BY <2>2
<1>3. Len(<<t>>) = 1
  OBVIOUS
<1>4. found = {j \in from .. n : body[j] = t}
  <2>1. n - 1 + 1 = n /\ \A j \in from .. n : j + 1 - 1 = j
    BY <1>1
  <2>2. found = {j \in from .. n : SubSeq(body, j, j) = <<t>>}
    BY <1>3, <2>1
  <2> QED BY <1>2, <2>2
<1>5. at = IF found = {} THEN 0 ELSE least
  BY DEF Find
<1> HIDE DEF at, found, n
<1>6. found \in SUBSET Nat
  BY <1>1, <1>4
<1>7. found # {} => least \in found /\ \A k \in found : least <= k
  BY <1>6, LeastChosen
<1> HIDE DEF least
<1>8. CASE found = {}
  <2>1. at = 0 /\ \A j \in from .. n : body[j] # t
    BY <1>4, <1>5, <1>8
  <2> QED BY <2>1 DEF at, n
<1>9. CASE found # {}
  <2>1. at \in found /\ \A k \in found : at <= k
    BY <1>5, <1>7, <1>9
  <2>2. at \in from .. n /\ body[at] = t /\ \A j \in from .. n : body[j] = t => at <= j
    BY <1>4, <2>1
  <2>3. at # 0
    BY <1>1, <2>2
  <2> QED BY <2>2, <2>3 DEF at, n
<1> QED BY <1>8, <1>9

\* Where Find finds two line ends.
LEMMA FindTwo ==
  ASSUME body \in Seq(Token), NEW from \in Nat, from >= 1
  PROVE  LET at == Find(<<CRLF, CRLF>>, from)
             blank(j) == body[j] = CRLF /\ body[j + 1] = CRLF
         IN /\ at = 0 => \A j \in from .. Len(body) - 1 : ~blank(j)
            /\ at # 0 => /\ at \in from .. Len(body) - 1 /\ blank(at)
                         /\ \A j \in from .. Len(body) - 1 : blank(j) => at <= j
<1> DEFINE n == Len(body)
           two == <<CRLF, CRLF>>
           blank(j) == body[j] = CRLF /\ body[j + 1] = CRLF
           found == {j \in from .. Len(body) - Len(two) + 1 :
                       SubSeq(body, j, j + Len(two) - 1) = two}
           least == CHOOSE j \in found : \A k \in found : j <= k
           at == Find(two, from)
<1>1. n \in Nat
  OBVIOUS
<1>2. ASSUME NEW j \in from .. n - 1 PROVE SubSeq(body, j, j + 1) = two <=> blank(j)
  <2>1. j \in 1 .. n /\ j + 1 \in 1 .. n /\ j + 1 - j + 1 = 2 /\ j <= j + 1
    BY <1>1
  <2>2. SubSeq(body, j, j + 1) = <<body[j], body[j + 1]>>
    <3> DEFINE s == SubSeq(body, j, j + 1)
    <3>1. \A w \in j .. j + 1 : body[w] \in Token
      BY <2>1
    <3>2. /\ s \in Seq(Token) /\ Len(s) = IF j <= j + 1 THEN j + 1 - j + 1 ELSE 0
          /\ \A w \in 1 .. j + 1 - j + 1 : s[w] = body[j + w - 1]
      <4>1. j \in Int /\ j + 1 \in Int
        BY <2>1
      <4> QED BY <3>1, <4>1, SubSeqProperties
    <3>3. /\ Len(s) = 2 /\ s[1] = body[j + 1 - 1] /\ s[2] = body[j + 2 - 1]
          /\ j + 1 - 1 = j /\ j + 2 - 1 = j + 1
      BY <2>1, <3>2
    <3> HIDE DEF s
    <3> DEFINE t == <<body[j], body[j + 1]>>
    <3>4. t \in Seq(Token) /\ Len(t) = 2 /\ t[1] = body[j] /\ t[2] = body[j + 1]
      BY <3>1, <2>1
    <3> HIDE DEF t
    <3>5. \A w \in 1 .. Len(s) : s[w] = t[w]
      BY <3>3, <3>4
    <3>6. s = t
      BY <3>2, <3>3, <3>4, <3>5, SeqEqual
    <3> QED BY <3>6 DEF s, t
  <2> QED BY <2>2
<1>3. Len(two) = 2
  OBVIOUS
<1>4. found = {j \in from .. n - 1 : blank(j)}
  <2>1. n - 2 + 1 = n - 1 /\ \A j \in from .. n - 1 : j + 2 - 1 = j + 1
    BY <1>1
  <2>2. found = {j \in from .. n - 1 : SubSeq(body, j, j + 1) = two}
    <3> HIDE DEF two
    <3> QED BY <1>3, <2>1
  <2> HIDE DEF found, two, blank
  <2> QED BY <1>2, <2>2
<1>5. at = IF found = {} THEN 0 ELSE least
  BY DEF Find
<1> HIDE DEF at, found, n, blank
<1>6. found \in SUBSET Nat
  BY <1>1, <1>4
<1>7. found # {} => least \in found /\ \A k \in found : least <= k
  BY <1>6, LeastChosen
<1> HIDE DEF least
<1>8. CASE found = {}
  <2>1. at = 0 /\ \A j \in from .. n - 1 : ~blank(j)
    BY <1>4, <1>5, <1>8
  <2> QED BY <2>1 DEF at, n, blank
<1>9. CASE found # {}
  <2>1. at \in found /\ \A k \in found : at <= k
    BY <1>5, <1>7, <1>9
  <2>2. at \in from .. n - 1 /\ blank(at) /\ \A j \in from .. n - 1 : blank(j) => at <= j
    BY <1>4, <2>1
  <2>3. at # 0
    BY <1>1, <2>2
  <2> QED BY <2>2, <2>3 DEF at, n, blank
<1> QED BY <1>8, <1>9

-----------------------------------------------------------------------------
(* The scan of a form.                                                      *)

\* The scan of the first n tokens of a form stands after part k.
Scanning(parts, n, k) ==
  /\ parts \in Forms /\ n \in 0 .. Len(Encode(parts)) /\ k \in 0 .. Len(parts)
  /\ body = SubSeq(Encode(parts), 1, n)
  /\ pos = EndOf(parts, k) + 1
  /\ k > 0 => pos <= n

LEMMA BodyIs ==
  ASSUME NEW parts, NEW n, NEW k, Scanning(parts, n, k)
  PROVE  /\ parts \in Forms /\ k \in 0 .. Len(parts) /\ Len(parts) \in Nat
         /\ DOMAIN parts = 1 .. Len(parts)
         /\ n \in Nat /\ n <= Len(Encode(parts))
         /\ body \in Seq(Token) /\ Len(body) = n /\ DOMAIN body = 1 .. n
         /\ \A w \in 1 .. n : body[w] = Encode(parts)[w]
         /\ pos \in Nat /\ pos >= 1 /\ EndOf(parts, k) \in Nat
         /\ Encode(parts) \in Seq(Token) /\ Len(Encode(parts)) \in Nat
<1> DEFINE all == Encode(parts)
<1>1. /\ parts \in Forms /\ n \in 0 .. Len(all) /\ k \in 0 .. Len(parts)
      /\ body = SubSeq(all, 1, n)
      /\ pos = EndOf(parts, k) + 1
  BY DEF Scanning
<1>2. all \in Seq(Token)
  BY <1>1, FormLayout
<1> HIDE DEF all
<1>3. Len(all) \in Nat /\ n \in Nat /\ n <= Len(all)
  BY <1>1, <1>2
<1>4. /\ body \in Seq(Token)
      /\ Len(body) = IF 1 <= n THEN n - 1 + 1 ELSE 0
      /\ \A w \in 1 .. n - 1 + 1 : body[w] = all[1 + w - 1]
  <2>1. \A w \in 1 .. n : all[w] \in Token
    BY <1>2, <1>3
  <2>2. 1 \in Int /\ n \in Int
    BY <1>3
  <2> QED BY <1>1, <2>1, <2>2, SubSeqProperties
<1>5. Len(body) = n /\ DOMAIN body = 1 .. n /\ \A w \in 1 .. n : body[w] = all[w]
  <2>1. n - 1 + 1 = n /\ \A w \in 1 .. n : 1 + w - 1 = w
    BY <1>3
  <2>2. Len(body) = n
    BY <1>3, <1>4
  <2>3. DOMAIN body = 1 .. n
    BY <1>4, <2>2
  <2> QED BY <1>4, <2>1, <2>2, <2>3
<1>6. Len(parts) \in Nat /\ EndOf(parts, k) \in Nat /\ DOMAIN parts = 1 .. Len(parts)
  BY <1>1, PartsFollow
<1>7. pos \in Nat /\ pos >= 1
  BY <1>1, <1>6
<1> QED BY <1>1, <1>2, <1>3, <1>4, <1>5, <1>6, <1>7 DEF all

\* Parts without names say nothing, nor does any after reading threw.
LEMMA NothingSaid ==
  ASSUME NEW parts \in Forms, NEW j \in 0 .. Len(parts), NEW m \in 0 .. Len(parts), j <= m,
         \/ Meant(parts)[j].threw
         \/ \A w \in DOMAIN parts : j < w /\ w <= m => parts[w].names = << >>
  PROVE  Meant(parts)[m] = Meant(parts)[j]
<1> DEFINE N == Len(parts)
           said == Meant(parts)
           S == {n \in 0 .. N : j <= n /\ n <= m => said[n] = said[j]}
<1>1. N \in Nat /\ DOMAIN parts = 1 .. N
  BY PartsFollow
<1>2. \A n \in 0 .. N - 1 : said[n + 1] =
        IF parts[n + 1].names = << >> THEN said[n]
        ELSE ApplyField(said[n], parts[n + 1].names[1], parts[n + 1].data)
  BY <1>1, MeantSteps
<1> HIDE DEF said
<1>3. 0 \in S
  <2>1. 0 \in 0 .. N /\ (j <= 0 => j = 0)
    BY <1>1
  <2> QED BY <2>1
<1>4. ASSUME NEW n \in 0 .. N - 1, n \in S PROVE n + 1 \in S
  <2>1. n + 1 \in 0 .. N /\ n + 1 \in DOMAIN parts
    BY <1>1
  <2> SUFFICES ASSUME j <= n + 1, n + 1 <= m PROVE said[n + 1] = said[j]
    BY <2>1
  <2>2. CASE j = n + 1
    BY <2>2
  <2>3. CASE j # n + 1
    <3>1. j <= n /\ n <= m /\ j < n + 1
      BY <1>1, <2>3
    <3>2. said[n] = said[j]
      BY <1>4, <3>1
    <3>3. CASE said[j].threw
      <4>1. \A name, data : ApplyField(said[n], name, data) = said[n]
        BY <3>2, <3>3 DEF ApplyField
      <4> QED BY <1>2, <3>2, <4>1
    <3>4. CASE ~said[j].threw
      <4>1. parts[n + 1].names = << >>
        BY <2>1, <3>1, <3>4 DEF said
      <4> QED BY <1>2, <3>2, <4>1
    <3> QED BY <3>3, <3>4
  <2> QED BY <2>2, <2>3
<1>5. \A n \in 0 .. N : n \in S
  <2> HIDE DEF S
  <2> QED BY <1>1, <1>3, <1>4, UpTo, Zenon
<1>6. said[m] = said[j]
  <2>1. m \in S /\ m <= m
    BY <1>1, <1>5
  <2> QED BY <2>1
<1> QED BY <1>6 DEF said

\* The scan finds the delimiter at which it stands, if that has arrived.
LEMMA PartStart ==
  ASSUME NEW parts, NEW n, NEW k, Scanning(parts, n, k)
  PROVE  /\ pos <= n => Find(<<Delimiter>>, pos) = pos /\ Start = EndOf(parts, k) + 3
         /\ ~(pos <= n) => Find(<<Delimiter>>, pos) = 0 /\ k = 0 /\ n = 0
<1>1. /\ parts \in Forms /\ k \in 0 .. Len(parts) /\ Len(parts) \in Nat
      /\ n \in Nat /\ body \in Seq(Token) /\ Len(body) = n
      /\ \A w \in 1 .. n : body[w] = Encode(parts)[w]
      /\ pos \in Nat /\ pos >= 1 /\ EndOf(parts, k) \in Nat
  BY BodyIs
<1>2. pos = EndOf(parts, k) + 1 /\ (k > 0 => pos <= n)
  BY DEF Scanning
<1> DEFINE at == Find(<<Delimiter>>, pos)
<1>3. /\ at = 0 => \A j \in pos .. n : body[j] # Delimiter
      /\ at # 0 => /\ at \in pos .. n /\ body[at] = Delimiter
                   /\ \A j \in pos .. n : body[j] = Delimiter => at <= j
  BY <1>1, FindOne
<1>4. CASE pos <= n
  <2>1. pos \in 1 .. n /\ pos \in pos .. n
    BY <1>1, <1>4
  <2>2. body[pos] = Delimiter
    BY <1>1, <1>2, <2>1, Delimiters
  <2>3. at # 0 /\ at <= pos /\ at \in pos .. n
    BY <1>3, <2>1, <2>2
  <2>4. at = pos
    <3> HIDE DEF at
    <3> QED BY <1>1, <2>3
  <2>5. Start = at + 2
    BY DEF Start
  <2>6. Start = EndOf(parts, k) + 3
    <3> HIDE DEF at
    <3> QED BY <1>1, <1>2, <2>4, <2>5
  <2> QED BY <1>4, <2>4, <2>6
<1>5. CASE ~(pos <= n)
  <2>1. k = 0
    BY <1>1, <1>2, <1>5
  <2>2. EndOf(parts, k) = 0
    BY <1>1, <2>1, PartsFollow
  <2>3. n = 0
    BY <1>1, <1>2, <1>5, <2>2
  <2>4. at = 0
    <3> HIDE DEF at
    <3> QED BY <1>1, <1>3, <1>5
  <2> QED BY <1>5, <2>1, <2>3, <2>4
<1> QED BY <1>4, <1>5

\* The headers that the scan finds are those of the next named part, or lie in parts
\* without names.
LEMMA HeaderFound ==
  ASSUME NEW parts, NEW n, NEW k, Scanning(parts, n, k), pos <= n, HeaderEnd # 0
  PROVE  \E m \in DOMAIN parts :
           /\ k < m
           /\ EndOf(parts, k) + 3 <= HeaderEnd /\ HeaderEnd + 1 <= n
           /\ EndOf(parts, m - 1) < HeaderEnd /\ HeaderEnd < EndOf(parts, m)
           /\ \A j \in DOMAIN parts : k < j /\ j <= m - 1 => parts[j].names = << >>
           /\ parts[m].names # << >> => HeaderEnd = EndOf(parts, m - 1) + 4
           /\ NextDelimiter =
                IF EndOf(parts, m) + 1 <= n THEN EndOf(parts, m) + 1 ELSE 0
<1> DEFINE N == Len(parts)
           all == Encode(parts)
           h == HeaderEnd
           E(w) == EndOf(parts, w)
           blank(w) == body[w] = CRLF /\ body[w + 1] = CRLF
<1>1. /\ parts \in Forms /\ k \in 0 .. N /\ N \in Nat /\ DOMAIN parts = 1 .. N
      /\ n \in Nat /\ n <= Len(all) /\ body \in Seq(Token) /\ Len(body) = n
      /\ \A w \in 1 .. n : body[w] = all[w]
      /\ E(k) \in Nat /\ Len(all) \in Nat
  BY BodyIs
<1>2. \A w \in 0 .. N : E(w) \in Nat
  BY <1>1, PartsFollow
<1>3. \A w \in 0 .. N, j \in 0 .. N : w < j => E(w) + 4 <= E(j)
  BY <1>1, EndsApart
<1>4. Start = E(k) + 3
  BY PartStart
<1>5. /\ h \in E(k) + 3 .. n - 1 /\ blank(h)
      /\ \A j \in E(k) + 3 .. n - 1 : blank(j) => h <= j
  <2> DEFINE begin == E(k) + 3
  <2>1. begin \in Nat /\ begin >= 1
    BY <1>1
  <2>2. h = Find(<<CRLF, CRLF>>, begin)
    BY <1>4 DEF HeaderEnd
  <2> HIDE DEF begin
  <2> DEFINE at == Find(<<CRLF, CRLF>>, begin)
  <2>3. at # 0 => /\ at \in begin .. Len(body) - 1 /\ blank(at)
                  /\ \A j \in begin .. Len(body) - 1 : blank(j) => at <= j
    BY <1>1, <2>1, FindTwo
  <2> QED BY <1>1, <2>2, <2>3 DEF begin
<1> HIDE DEF h, N
<1>6. /\ h \in Nat /\ h >= 1 /\ h + 1 <= n /\ h \in 1 .. n /\ h + 1 \in 1 .. n
      /\ E(k) + 3 <= h
  <2> HIDE DEF E
  <2> QED BY <1>1, <1>5
<1>7. PICK m \in DOMAIN parts :
        /\ E(m - 1) < h /\ h < E(m)
        /\ parts[m].names # << >> => E(m - 1) + 4 <= h
  <2>1. all[h] = CRLF /\ all[h + 1] = CRLF /\ h + 1 <= Len(all)
    <3>1. body[h] = all[h] /\ body[h + 1] = all[h + 1]
      BY <1>1, <1>6
    <3>2. h + 1 <= Len(all)
      <4> HIDE DEF all, E
      <4> QED BY <1>1, <1>6
    <3> QED BY <1>5, <3>1, <3>2
  <2> QED BY <1>1, <1>6, <2>1, BlankLines
<1>8. m \in 0 .. N /\ m - 1 \in 0 .. N /\ m \in 1 .. N
  BY <1>1
<1>9. k < m
  <2>1. SUFFICES ASSUME ~(k < m) PROVE FALSE
    OBVIOUS
  <2>2. m = k \/ m < k
    BY <1>1, <1>8, <2>1
  <2>3. E(m) <= E(k)
    <3>1. m < k => E(m) + 4 <= E(k)
      BY <1>1, <1>3, <1>8
    <3>2. E(m) \in Nat /\ E(k) \in Nat
      BY <1>1, <1>2, <1>8
    <3> HIDE DEF E
    <3> QED BY <2>2, <3>1, <3>2
  <2>4. E(m) \in Nat
    BY <1>2, <1>8
  <2> HIDE DEF E
  <2> QED BY <1>1, <1>6, <1>7, <2>3, <2>4
\* The headers of a named part end in two line ends.
<1>10. ASSUME NEW j \in DOMAIN parts, k < j, parts[j].names # << >>, E(j - 1) + 5 <= n
       PROVE  h <= E(j - 1) + 4
  <2>1. /\ all[E(j - 1) + 4] = CRLF /\ all[E(j - 1) + HeadOf(parts[j])] = CRLF
    BY <1>1, <1>10, PartAt
  <2>2. HeadOf(parts[j]) = 5
    BY <1>10 DEF HeadOf
  <2>3. j - 1 \in 0 .. N /\ (k < j - 1 \/ k = j - 1)
    BY <1>1, <1>10
  <2>4. E(k) <= E(j - 1) /\ E(j - 1) \in Nat
    <3>1. k < j - 1 => E(k) + 4 <= E(j - 1)
      BY <1>1, <1>3, <2>3
    <3>2. E(j - 1) \in Nat /\ E(k) \in Nat
      BY <1>1, <1>2, <2>3
    <3>3. k = j - 1 => E(k) = E(j - 1)
      OBVIOUS
    <3> HIDE DEF E
    <3> QED BY <2>3, <3>1, <3>2, <3>3
  <2> DEFINE p == E(j - 1) + 4
  <2>5. all[p] = CRLF /\ all[p + 1] = CRLF
    <3>1. p + 1 = E(j - 1) + 5
      BY <2>4
    <3> QED BY <2>1, <2>2, <3>1
  <2>6. p \in E(k) + 3 .. n - 1 /\ p \in 1 .. n /\ p + 1 \in 1 .. n
    <3> HIDE DEF E
    <3> QED BY <1>1, <1>10, <2>4
  <2>7. blank(p)
    BY <1>1, <2>5, <2>6
  <2> QED BY <1>5, <2>6, <2>7
<1>11. ASSUME NEW j \in DOMAIN parts, k < j, j <= m - 1
       PROVE  parts[j].names = << >>
  <2>1. SUFFICES ASSUME parts[j].names # << >> PROVE FALSE
    OBVIOUS
  <2>2. /\ E(j - 1) \in Nat /\ Len(parts[j].data) \in Nat
        /\ E(j) = E(j - 1) + HeadOf(parts[j]) + Len(parts[j].data) + 1
    BY <1>1, PartAt
  <2>3. HeadOf(parts[j]) = 5
    BY <2>1 DEF HeadOf
  <2>4. j \in 0 .. N /\ (j < m - 1 \/ j = m - 1)
    BY <1>1, <1>8, <1>11
  <2>5. E(j) <= E(m - 1) /\ E(m - 1) \in Nat
    <3>1. j < m - 1 => E(j) + 4 <= E(m - 1)
      BY <1>3, <1>8, <2>4
    <3>2. E(j) \in Nat /\ E(m - 1) \in Nat
      BY <1>2, <1>8, <2>4
    <3>3. j = m - 1 => E(j) = E(m - 1)
      OBVIOUS
    <3> HIDE DEF E
    <3> QED BY <2>4, <3>1, <3>2, <3>3
  <2>6. E(j - 1) + 6 <= E(j)
    <3> DEFINE l == Len(parts[j].data)
    <3> HIDE DEF E, l
    <3> QED BY <2>2, <2>3 DEF l
  <2>7. E(j) \in Nat
    BY <1>2, <2>4
  <2>8. E(j - 1) + 5 <= n
    <3>1. n \in Nat /\ h \in Nat /\ h + 1 <= n /\ E(m - 1) < h
      BY <1>1, <1>6, <1>7
    <3>2. E(j - 1) \in Nat
      BY <2>2
    <3> HIDE DEF E
    <3> QED BY <2>5, <2>6, <2>7, <3>1, <3>2
  <2>9. h <= E(j - 1) + 4
    BY <1>10, <1>11, <2>1, <2>8
  <2> HIDE DEF E
  <2> QED BY <1>6, <1>7, <2>2, <2>5, <2>6, <2>7, <2>9
<1>12. ASSUME parts[m].names # << >> PROVE h = E(m - 1) + 4
  <2>1. E(m - 1) + 4 <= h /\ E(m - 1) \in Nat
    BY <1>2, <1>7, <1>8, <1>12
  <2>2. E(m - 1) + 5 <= n
    <3> HIDE DEF E
    <3> QED BY <1>1, <1>6, <2>1
  <2>3. h <= E(m - 1) + 4
    BY <1>9, <1>10, <1>12, <2>2
  <2> HIDE DEF E
  <2> QED BY <1>6, <2>1, <2>3
<1>13. NextDelimiter = IF E(m) + 1 <= n THEN E(m) + 1 ELSE 0
  <2> DEFINE from == h + 2
             at == Find(<<Delimiter>>, from)
  <2>1. NextDelimiter = at
    BY DEF NextDelimiter, BodyStart, h
  <2>2. from \in Nat /\ from >= 1
    BY <1>6
  <2> HIDE DEF from
  <2>3. /\ at = 0 => \A j \in from .. n : body[j] # Delimiter
        /\ at # 0 => /\ at \in from .. n /\ body[at] = Delimiter
                     /\ \A j \in from .. n : body[j] = Delimiter => at <= j
    BY <1>1, <2>2, FindOne
  <2> HIDE DEF at
  <2>4. E(m) \in Nat /\ E(m - 1) \in Nat
    BY <1>2, <1>8
  <2>5. E(m) + 1 \in 1 .. Len(all) /\ all[E(m) + 1] = Delimiter
    BY <1>1, <1>8, Delimiters DEF N
  <2>6. at # 0 => at >= E(m) + 1
    <3>1. SUFFICES ASSUME at # 0 PROVE at >= E(m) + 1
      OBVIOUS
    <3>2. at \in from .. n /\ at \in 1 .. n
      BY <1>1, <2>2, <2>3, <3>1
    <3>3. all[at] = Delimiter /\ at \in 1 .. Len(all)
      <4>1. body[at] = all[at] /\ body[at] = Delimiter
        BY <1>1, <2>3, <3>1, <3>2
      <4>2. at \in 1 .. Len(all)
        <5> HIDE DEF all, E
        <5> QED BY <1>1, <3>2
      <4> QED BY <4>1, <4>2
    <3>4. PICK w \in 0 .. N : at = E(w) + 1
      BY <1>1, <3>3, Delimiters DEF N
    <3>5. SUFFICES ASSUME w < m PROVE FALSE
      <4>1. E(w) \in Nat
        BY <1>2
      <4>2. w = m \/ (m < w /\ E(m) + 4 <= E(w)) \/ w < m
        <5>1. w = m \/ m < w \/ w < m
          BY <1>1, <1>8
        <5>2. m < w => E(m) + 4 <= E(w)
          BY <1>3, <1>8
        <5> QED BY <5>1, <5>2
      <4>3. w = m => E(w) = E(m)
        OBVIOUS
      <4> HIDE DEF E
      <4> QED BY <2>4, <3>4, <3>5, <4>1, <4>2, <4>3
    <3>6. E(w) <= E(m - 1) /\ E(w) \in Nat
      <4>1. E(w) \in Nat
        BY <1>2
      <4>2. w = m - 1 \/ w < m - 1
        BY <1>1, <1>8, <3>5
      <4>3. w < m - 1 => E(w) + 4 <= E(m - 1)
        BY <1>3, <1>8
      <4>4. w = m - 1 => E(w) = E(m - 1)
        OBVIOUS
      <4> HIDE DEF E
      <4> QED BY <2>4, <4>1, <4>2, <4>3, <4>4
    <3> HIDE DEF E
    <3> QED BY <1>1, <1>6, <1>7, <2>4, <3>2, <3>4, <3>6 DEF from
  <2>7. CASE E(m) + 1 <= n
    <3>1. E(m) + 1 \in from .. n /\ E(m) + 1 \in 1 .. n
      <4> HIDE DEF E
      <4> QED BY <1>1, <1>6, <1>7, <2>4, <2>7 DEF from
    <3>2. body[E(m) + 1] = Delimiter
      BY <1>1, <2>5, <3>1
    <3>3. at # 0 /\ at <= E(m) + 1 /\ at \in from .. n
      BY <2>3, <3>1, <3>2
    <3>4. at = E(m) + 1
      <4> HIDE DEF E
      <4> QED BY <1>1, <2>2, <2>4, <2>6, <3>3
    <3> QED BY <2>1, <2>7, <3>4
  <2>8. CASE ~(E(m) + 1 <= n)
    <3>1. at = 0
      <4> HIDE DEF E
      <4> QED BY <1>1, <2>2, <2>3, <2>4, <2>6, <2>8
    <3> QED BY <2>1, <2>8, <3>1
  <2> QED BY <2>7, <2>8
<1> QED BY <1>6, <1>7, <1>9, <1>11, <1>12, <1>13 DEF h

\* What the scan reads: the first name and the data of a named part, and no name where
\* there is none.
LEMMA PartRead ==
  ASSUME NEW parts, NEW n, NEW k, Scanning(parts, n, k), pos <= n,
         NEW m \in DOMAIN parts, k < m,
         EndOf(parts, k) + 3 <= HeaderEnd, HeaderEnd + 1 <= n,
         EndOf(parts, m - 1) < HeaderEnd, HeaderEnd < EndOf(parts, m), HeaderEnd \in Nat,
         \A j \in DOMAIN parts : k < j /\ j <= m - 1 => parts[j].names = << >>,
         parts[m].names # << >> => HeaderEnd = EndOf(parts, m - 1) + 4,
         NextDelimiter = EndOf(parts, m) + 1, EndOf(parts, m) + 1 <= n
  PROVE  /\ parts[m].names = << >> => HeaderName = ""
         /\ parts[m].names # << >> =>
              HeaderName = parts[m].names[1] /\ HeaderName # "" /\ PartData = parts[m].data
<1> DEFINE N == Len(parts)
           all == Encode(parts)
           h == HeaderEnd
           E(w) == EndOf(parts, w)
           named == {w \in Start .. h - 1 :
                      body[w][1] = "line" /\ \E q \in 2 .. Len(body[w]) : body[w][q] # ""}
           line == body[Min(named)]
           from == E(m - 1)
           names == parts[m].names
           data == parts[m].data
<1>1. /\ parts \in Forms /\ k \in 0 .. N /\ N \in Nat /\ DOMAIN parts = 1 .. N
      /\ n \in Nat /\ n <= Len(all) /\ body \in Seq(Token) /\ Len(body) = n
      /\ \A w \in 1 .. n : body[w] = all[w]
      /\ E(k) \in Nat /\ Len(all) \in Nat
  BY BodyIs
<1>2. Start = E(k) + 3
  BY PartStart
<1>3. HeaderName = IF named = {} THEN "" ELSE line[Min({q \in 2 .. Len(line) : line[q] # ""})]
  BY DEF HeaderName
<1>4. \A w \in 0 .. N : E(w) \in Nat
  BY <1>1, PartsFollow
<1>5. m \in 0 .. N /\ m - 1 \in 0 .. N /\ N \in 0 .. N
  BY <1>1
\* Tokens of the parts before m are no header lines.
<1>6. ASSUME NEW w \in Int, E(k) + 3 <= w, w <= from PROVE all[w][1] # "line"
  <2>1. w \in 1 .. E(N)
    <3>1. from <= E(N) /\ from \in Nat /\ E(N) \in Nat
      <4>1. m - 1 < N => E(m - 1) + 4 <= E(N)
        BY <1>1, <1>5, EndsApart
      <4>2. E(m - 1) \in Nat /\ E(N) \in Nat
        BY <1>4, <1>5
      <4>3. m - 1 < N
        BY <1>1
      <4> HIDE DEF E
      <4> QED BY <4>1, <4>2, <4>3 DEF from
    <3> HIDE DEF E, from
    <3> QED BY <1>1, <1>6, <3>1
  <2>2. PICK j \in DOMAIN parts : E(j - 1) < w /\ w <= E(j)
    BY <1>1, <2>1, Located
  <2>3. j \in 0 .. N /\ j - 1 \in 0 .. N
    BY <1>1
  <2>4. k < j
    <3>1. SUFFICES ASSUME ~(k < j) PROVE FALSE
      OBVIOUS
    <3>2. j = k \/ j < k
      BY <1>1, <2>3, <3>1
    <3>3. j < k => E(j) + 4 <= E(k)
      BY <1>1, <2>3, EndsApart
    <3>4. j = k => E(j) = E(k)
      OBVIOUS
    <3>5. E(j) \in Nat
      BY <1>4, <2>3
    <3> HIDE DEF E
    <3> QED BY <1>1, <1>6, <2>2, <3>2, <3>3, <3>4, <3>5
  <2>5. j <= m - 1
    <3>1. SUFFICES ASSUME ~(j <= m - 1) PROVE FALSE
      OBVIOUS
    <3>2. m - 1 = j - 1 \/ m - 1 < j - 1
      BY <1>1, <1>5, <2>3, <3>1
    <3>3. m - 1 < j - 1 => E(m - 1) + 4 <= E(j - 1)
      BY <1>1, <1>5, <2>3, EndsApart
    <3>4. m - 1 = j - 1 => E(m - 1) = E(j - 1)
      OBVIOUS
    <3>5. E(j - 1) \in Nat /\ E(m - 1) \in Nat
      BY <1>4, <1>5, <2>3
    <3> HIDE DEF E
    <3> QED BY <1>6, <2>2, <3>2, <3>3, <3>4, <3>5 DEF from
  <2>6. parts[j].names = << >>
    BY <2>4, <2>5
  <2> QED BY <1>1, <2>2, <2>6, PartWords
<1>7. ASSUME NEW w \in Start .. h - 1 PROVE w \in Int /\ w \in 1 .. n /\ body[w] = all[w]
  <2>1. w \in Int /\ w \in 1 .. n
    <3> HIDE DEF E
    <3> QED BY <1>1, <1>2, <1>7
  <2> QED BY <1>1, <2>1
<1>8. CASE names = << >>
  <2>1. ASSUME NEW w \in Start .. h - 1 PROVE body[w][1] # "line"
    <3>1. w \in Int /\ body[w] = all[w] /\ E(k) + 3 <= w /\ w <= h
      BY <1>1, <1>2, <1>7, <2>1
    <3>2. CASE w <= from
      BY <1>6, <3>1, <3>2
    <3>3. CASE ~(w <= from)
      <4>1. E(m - 1) < w /\ w <= E(m)
        <5>1. E(m - 1) \in Nat /\ E(m) \in Nat /\ h < E(m) /\ h \in Nat
          BY <1>4, <1>5
        <5> HIDE DEF E, h
        <5> QED BY <3>1, <3>3, <5>1 DEF from
      <4> QED BY <1>1, <1>8, <3>1, <4>1, PartWords
    <3> QED BY <3>2, <3>3
  <2>2. named = {}
    BY <2>1
  <2> QED BY <1>3, <1>8, <2>2
<1>9. CASE names # << >>
  <2> DEFINE p == from + 3
  <2>1. /\ names \in Seq(Word) /\ data \in Seq(Token) /\ from \in Nat
        /\ Len(data) \in Nat /\ E(m) = from + HeadOf(parts[m]) + Len(data) + 1
        /\ all[from + 1] = Delimiter /\ all[from + 2] = CRLF
        /\ all[p] = Line(names)
        /\ \A w \in 1 .. Len(data) : all[from + HeadOf(parts[m]) + w] = data[w]
    BY <1>1, <1>9, PartAt
  <2>2. HeadOf(parts[m]) = 5 /\ h = from + 4
    BY <1>9 DEF HeadOf
  <2>3. names[1] # "" /\ Len(names) \in Nat /\ Len(names) >= 1 /\ 1 \in DOMAIN names
    <3>1. names[1] # ""
      BY <1>1, <1>9, BodyAssumption
    <3>2. Len(names) \in Nat \ {0} /\ DOMAIN names = 1 .. Len(names)
      BY <1>9, <2>1, EmptySeq
    <3> HIDE DEF names
    <3>3. Len(names) \in Nat /\ Len(names) >= 1
      BY <3>2
    <3>4. 1 \in DOMAIN names
      BY <3>2, <3>3
    <3> QED BY <3>1, <3>3, <3>4
  <2>4. /\ all[p][1] = "line" /\ Len(all[p]) \in Nat /\ Len(all[p]) >= 2
        /\ all[p][2] = names[1]
    <3> HIDE DEF names, p
    <3>1. /\ all[p][1] = "line" /\ Len(all[p]) = 1 + Len(names) /\ all[p][1 + 1] = names[1]
      BY <2>1, <2>3, Tokens
    <3>2. Len(all[p]) \in Nat /\ Len(all[p]) >= 2
      <4>1. Len(names) \in Nat /\ Len(names) >= 1
        BY <2>3
      <4>2. Len(all[p]) = 1 + Len(names)
        BY <3>1
      <4> QED BY <4>1, <4>2
    <3>3. all[p][2] = names[1]
      BY <3>1
    <3> QED BY <3>1, <3>2, <3>3
  <2>5. E(k) <= from
    <3>1. k = m - 1 \/ k < m - 1
      BY <1>1, <1>5
    <3>2. k < m - 1 => E(k) + 4 <= E(m - 1)
      BY <1>1, <1>5, EndsApart
    <3>3. k = m - 1 => E(k) = E(m - 1)
      OBVIOUS
    <3>4. E(m - 1) \in Nat
      BY <1>4, <1>5
    <3> HIDE DEF E
    <3> QED BY <1>1, <3>1, <3>2, <3>3, <3>4 DEF from
  <2>6. p \in Start .. h - 1
    <3> HIDE DEF E, h, from
    <3> QED BY <1>1, <1>2, <2>1, <2>2, <2>5
  <2>7. body[p] = all[p]
    BY <1>7, <2>6
  <2>8. p \in named
    <3>1. 2 \in 2 .. Len(body[p]) /\ body[p][2] # ""
      <4> HIDE DEF names, p
      <4>1. body[p][2] = names[1] /\ names[1] # ""
        BY <2>3, <2>4, <2>7
      <4>2. 2 \in 2 .. Len(body[p])
        BY <2>4, <2>7
      <4> QED BY <4>1, <4>2
    <3> HIDE DEF p
    <3> QED BY <2>4, <2>6, <2>7, <3>1
  <2>9. ASSUME NEW w \in named PROVE p <= w
    <3>1. w \in Start .. h - 1 /\ body[w][1] = "line"
      OBVIOUS
    <3> HIDE DEF named
    <3>2. w \in Int /\ body[w] = all[w]
      BY <1>7, <3>1
    <3>3. E(k) + 3 <= w
      <4> DEFINE first == E(k) + 3
                 last == h - 1
      <4>1. first \in Int /\ last \in Int /\ w \in first .. last
        BY <1>1, <1>2, <3>1
      <4> HIDE DEF first, last
      <4>2. first <= w
        BY <4>1
      <4> QED BY <4>2 DEF first
    <3>4. ~(w <= from)
      BY <1>6, <3>1, <3>2, <3>3
    <3>5. w # from + 1 /\ w # from + 2
      BY <2>1, <3>1, <3>2, Tokens
    <3> HIDE DEF from
    <3> QED BY <2>1, <3>2, <3>4, <3>5
  <2>10. Min(named) = p
    <3>1. named \in SUBSET Nat /\ named # {}
      <4>1. \A w \in Start .. h - 1 : w \in Nat
        BY <1>1, <1>7
      <4> QED BY <2>8, <4>1
    <3>2. Min(named) \in named /\ Min(named) <= p
      <4> HIDE DEF named, p
      <4> QED BY <2>8, <3>1, FirstOfSet
    <3>3. p <= Min(named) /\ Min(named) \in Nat
      <4> HIDE DEF named, p
      <4> QED BY <2>9, <3>1, <3>2
    <3>4. p \in Nat
      BY <2>1
    <3> HIDE DEF named, p
    <3> QED BY <3>2, <3>3, <3>4
  <2>11. line = all[p]
    BY <2>7, <2>10
  <2> DEFINE words == {q \in 2 .. Len(line) : line[q] # ""}
  <2>12. Min(words) = 2
    <3>1. 2 \in words
      <4> HIDE DEF names, p, line
      <4>1. line[2] = names[1] /\ names[1] # ""
        BY <2>3, <2>4, <2>11
      <4>2. 2 \in 2 .. Len(line)
        BY <2>4, <2>11
      <4> QED BY <4>1, <4>2
    <3>2. words \in SUBSET Nat /\ \A q \in words : 2 <= q
      <4>1. Len(line) \in Nat
        <5> HIDE DEF line, p, names
        <5> QED BY <2>4, <2>11
      <4> HIDE DEF line
      <4>2. \A q \in 2 .. Len(line) : q \in Nat /\ 2 <= q
        BY <4>1
      <4> QED BY <4>2
    <3>3. Min(words) \in words /\ Min(words) <= 2
      <4> HIDE DEF words
      <4> QED BY <3>1, <3>2, FirstOfSet
    <3>4. 2 <= Min(words) /\ Min(words) \in Nat
      <4> HIDE DEF words
      <4> QED BY <3>2, <3>3
    <3> HIDE DEF words
    <3> QED BY <3>3, <3>4
  <2>13. HeaderName = names[1]
    <3>1. named # {}
      BY <2>8
    <3>2. HeaderName = line[2]
      <4> HIDE DEF named, line
      <4> QED BY <1>3, <2>12, <3>1
    <3>3. line[2] = names[1]
      <4> HIDE DEF line, names, p
      <4> QED BY <2>4, <2>11
    <3> HIDE DEF line, names
    <3> QED BY <3>2, <3>3
  <2>14. PartData = data
    <3> DEFINE first == from + 6
               to == E(m) - 1
               s == SubSeq(body, first, to)
               l == Len(data)
    <3>1. PartData = s
      <4>1. BodyStart = first
        <5>1. h + 2 = from + 6
          <6> HIDE DEF from, h
          <6> QED BY <2>1, <2>2
        <5> QED BY <5>1 DEF BodyStart, h
      <4>2. NextDelimiter - 2 = to
        <5>1. E(m) \in Nat /\ NextDelimiter = E(m) + 1
          BY <1>4, <1>5
        <5> HIDE DEF E
        <5> QED BY <5>1
      <4> QED BY <4>1, <4>2 DEF PartData
    <3>2. /\ to = from + 5 + l /\ l \in Nat /\ first \in Int /\ to \in Int /\ E(m) = to + 1
          /\ E(m) <= n
      <4>1. E(m) = from + 5 + l + 1 /\ l \in Nat
        BY <2>1, <2>2
      <4>2. E(m) + 1 <= n /\ from \in Nat /\ n \in Nat
        BY <1>1, <2>1
      <4> HIDE DEF E, from, l
      <4> QED BY <4>1, <4>2
    <3> HIDE DEF to, E
    <3>3. ASSUME NEW w \in first .. to
          PROVE  w \in 1 .. n /\ w - (from + 5) \in 1 .. l
      <4>1. from \in Nat /\ n \in Nat
        BY <1>1, <2>1
      <4> HIDE DEF from, l
      <4> QED BY <3>2, <4>1
    <3>4. /\ s \in Seq(Token)
          /\ Len(s) = IF first <= to THEN to - first + 1 ELSE 0
          /\ \A w \in 1 .. to - first + 1 : s[w] = body[first + w - 1]
      <4>1. \A w \in first .. to : body[w] \in Token
        BY <1>1, <3>3
      <4> HIDE DEF first
      <4> QED BY <3>2, <4>1, SubSeqProperties
    <3>5. to - first + 1 = l /\ Len(s) = l
      <4>1. to - first + 1 = l /\ (first <= to <=> l >= 1)
        <5> HIDE DEF from, l
        <5> QED BY <2>1, <3>2
      <4> HIDE DEF s, first, l
      <4> QED BY <3>2, <3>4, <4>1
    <3>6. ASSUME NEW w \in 1 .. l PROVE s[w] = data[w]
      <4> DEFINE q == first + w - 1
      <4>1. q \in 1 .. n /\ q = from + 5 + w
        <5>1. from \in Nat /\ n \in Nat
          BY <1>1, <2>1
        <5> HIDE DEF from, l
        <5> QED BY <3>2, <5>1
      <4>2. s[w] = body[q]
        BY <3>4, <3>5
      <4>3. body[q] = all[q]
        <5> HIDE DEF q
        <5> QED BY <1>1, <4>1
      <4>4. all[from + 5 + w] = data[w]
        BY <2>1, <2>2
      <4> HIDE DEF q, s
      <4> QED BY <4>1, <4>2, <4>3, <4>4
    <3>7. s = data
      <4> HIDE DEF s, data, first
      <4> QED BY <2>1, <3>4, <3>5, <3>6, SeqEqual DEF l
    <3> QED BY <3>1, <3>7
  <2> QED BY <1>9, <2>3, <2>13, <2>14
<1> QED BY <1>8, <1>9

\* One step of the scan: it reads what the parts up to the next delimiter say.
LEMMA PartMeans ==
  ASSUME NEW parts, NEW n, NEW k, Scanning(parts, n, k), params = Meant(parts)[k], HasPart
  PROVE  \E m \in DOMAIN parts :
           /\ (IF HeaderName = "" THEN params ELSE ApplyField(params, HeaderName, PartData))
                = Meant(parts)[m]
           /\ NextDelimiter = EndOf(parts, m) + 1 /\ EndOf(parts, m) + 1 <= n
<1>1. /\ parts \in Forms /\ k \in 0 .. Len(parts) /\ Len(parts) \in Nat
      /\ DOMAIN parts = 1 .. Len(parts)
  BY BodyIs
<1>2. Find(<<Delimiter>>, pos) # 0 /\ HeaderEnd # 0 /\ NextDelimiter # 0
  BY DEF HasPart
<1>3. pos <= n
  BY <1>2, PartStart
<1>4. PICK m \in DOMAIN parts :
        /\ k < m
        /\ EndOf(parts, k) + 3 <= HeaderEnd /\ HeaderEnd + 1 <= n
        /\ EndOf(parts, m - 1) < HeaderEnd /\ HeaderEnd < EndOf(parts, m)
        /\ \A j \in DOMAIN parts : k < j /\ j <= m - 1 => parts[j].names = << >>
        /\ parts[m].names # << >> => HeaderEnd = EndOf(parts, m - 1) + 4
        /\ NextDelimiter = IF EndOf(parts, m) + 1 <= n THEN EndOf(parts, m) + 1 ELSE 0
  BY <1>2, <1>3, HeaderFound
<1>5. NextDelimiter = EndOf(parts, m) + 1 /\ EndOf(parts, m) + 1 <= n
  BY <1>2, <1>4
<1>6. HeaderEnd \in Nat
  <2>1. body \in Seq(Token) /\ Start \in Nat /\ Start >= 1
    <3>1. body \in Seq(Token) /\ Start = EndOf(parts, k) + 3 /\ EndOf(parts, k) \in Nat
      BY <1>3, BodyIs, PartStart
    <3> QED BY <3>1
  <2> DEFINE at == Find(<<CRLF, CRLF>>, Start)
  <2>2. HeaderEnd = at
    BY DEF HeaderEnd
  <2>3. at # 0 => at \in Start .. Len(body) - 1
    BY <2>1, FindTwo
  <2>4. Len(body) \in Nat
    BY <2>1
  <2> HIDE DEF at
  <2> QED BY <2>1, <2>2, <2>3, <2>4
<1>7. /\ parts[m].names = << >> => HeaderName = ""
      /\ parts[m].names # << >> =>
           HeaderName = parts[m].names[1] /\ HeaderName # "" /\ PartData = parts[m].data
  BY <1>3, <1>4, <1>5, <1>6, PartRead
<1> DEFINE said == Meant(parts)
           j == m - 1
<1>8. j \in 0 .. Len(parts) - 1 /\ j \in 0 .. Len(parts) /\ j + 1 = m /\ k <= j
  BY <1>1, <1>4
<1>9. said[j] = said[k]
  <2>1. \A w \in DOMAIN parts : k < w /\ w <= j => parts[w].names = << >>
    BY <1>4
  <2> HIDE DEF j
  <2> QED BY <1>1, <1>8, <2>1, NothingSaid
<1>10. said[j + 1] = IF parts[j + 1].names = << >> THEN said[j]
                     ELSE ApplyField(said[j], parts[j + 1].names[1], parts[j + 1].data)
  <2> HIDE DEF j
  <2> QED BY <1>1, <1>8, MeantSteps
<1>11. said[m] = IF parts[m].names = << >> THEN params
                 ELSE ApplyField(params, parts[m].names[1], parts[m].data)
  <2> HIDE DEF j, said
  <2>1. params = said[k]
    BY DEF said
  <2> QED BY <1>8, <1>9, <1>10, <2>1
<1>12. CASE parts[m].names = << >>
  BY <1>5, <1>7, <1>11, <1>12
<1>13. CASE parts[m].names # << >>
  BY <1>5, <1>7, <1>11, <1>13
<1> QED BY <1>12, <1>13

\* The delimiters that have arrived are those of the parts that are complete, and one.
LEMMA DelimitersSeen ==
  ASSUME NEW parts, NEW n, NEW k, Scanning(parts, n, k)
  PROVE  LET complete == Cardinality({w \in DOMAIN body : body[w] = Delimiter}) - 1
         IN /\ complete \in Int /\ -1 <= complete /\ complete <= Len(parts)
            /\ \A j \in 0 .. Len(parts) : EndOf(parts, j) + 1 <= n <=> j <= complete
<1> DEFINE N == Len(parts)
           all == Encode(parts)
           E(w) == EndOf(parts, w)
           J == {j \in 0 .. N : E(j) + 1 <= n}
           rest == {j \in 0 .. N : ~(E(j) + 1 <= n)}
           c == IF rest = {} THEN N ELSE Min(rest) - 1
           seen == {w \in DOMAIN body : body[w] = Delimiter}
           f == [j \in J |-> E(j) + 1]
<1>1. /\ parts \in Forms /\ N \in Nat /\ n \in Nat /\ n <= Len(all) /\ Len(all) \in Nat
      /\ DOMAIN body = 1 .. n
      /\ \A w \in 1 .. n : body[w] = all[w]
  BY BodyIs
<1>2. \A w \in 0 .. N : E(w) \in Nat
  BY <1>1, PartsFollow
<1>3. \A w \in 0 .. N, j \in 0 .. N : w < j => E(w) + 4 <= E(j)
  BY <1>1, EndsApart
<1> HIDE DEF N, E
<1>4. rest # {} => Min(rest) \in rest /\ \A j \in rest : Min(rest) <= j
  <2>1. rest \in SUBSET Nat
    BY <1>1
  <2> HIDE DEF rest
  <2> QED BY <2>1, FirstOfSet
<1>5. /\ c \in Int /\ -1 <= c /\ c <= N
      /\ \A j \in 0 .. N : E(j) + 1 <= n <=> j <= c
  <2>1. CASE rest = {}
    <3>1. c = N
      BY <2>1
    <3>2. \A j \in 0 .. N : E(j) + 1 <= n
      BY <2>1
    <3> HIDE DEF c
    <3> QED BY <1>1, <3>1, <3>2
  <2>2. CASE rest # {}
    <3> DEFINE least == Min(rest)
    <3>1. least \in rest /\ (\A j \in rest : least <= j) /\ c = least - 1
      BY <1>4, <2>2
    <3>2. least \in 0 .. N /\ ~(E(least) + 1 <= n)
      BY <3>1
    <3> HIDE DEF least, c
    <3>3. c \in Int /\ -1 <= c /\ c <= N
      BY <1>1, <3>1, <3>2
    <3>4. ASSUME NEW j \in 0 .. N, j <= c PROVE E(j) + 1 <= n
      <4>1. ~(least <= j)
        BY <1>1, <3>1, <3>2, <3>4
      <4>2. j \notin rest
        BY <3>1, <4>1
      <4> QED BY <4>2
    <3>5. ASSUME NEW j \in 0 .. N, E(j) + 1 <= n PROVE j <= c
      <4>1. SUFFICES ASSUME least <= j PROVE FALSE
        BY <1>1, <3>1, <3>2
      <4>2. least = j \/ least < j
        BY <1>1, <3>2, <4>1
      <4>3. least < j => E(least) + 4 <= E(j)
        BY <1>3, <3>2
      <4>4. E(least) \in Nat /\ E(j) \in Nat
        BY <1>2, <3>2
      <4> QED BY <1>1, <3>2, <3>5, <4>2, <4>3, <4>4
    <3> QED BY <3>3, <3>4, <3>5
  <2> QED BY <2>1, <2>2
<1> HIDE DEF c, rest
<1>6. J = 0 .. c
  <2>1. ASSUME NEW j \in J PROVE j \in 0 .. c
    BY <1>1, <1>5
  <2>2. ASSUME NEW j \in 0 .. c PROVE j \in J
    <3>1. j \in 0 .. N
      BY <1>1, <1>5
    <3> QED BY <1>1, <1>5, <3>1
  <2> QED BY <2>1, <2>2
<1>7. IsFiniteSet(J) /\ Cardinality(J) = c + 1
  <2>1. IsFiniteSet(0 .. c) /\ Cardinality(0 .. c) = IF 0 > c THEN 0 ELSE c - 0 + 1
    BY <1>5, FS_Interval
  <2>2. (IF 0 > c THEN 0 ELSE c - 0 + 1) = c + 1
    BY <1>5
  <2> QED BY <1>6, <2>1, <2>2
<1>8. f \in Bijection(J, seen)
  <2>1. ASSUME NEW j \in J PROVE f[j] \in seen
    <3>1. j \in 0 .. N /\ E(j) + 1 <= n /\ f[j] = E(j) + 1 /\ E(j) \in Nat
      BY <1>2
    <3>2. E(j) + 1 \in 1 .. n
      BY <1>1, <3>1
    <3>3. all[E(j) + 1] = Delimiter
      BY <1>1, <3>1, Delimiters DEF E, N
    <3> QED BY <1>1, <3>1, <3>2, <3>3
  <2>2. ASSUME NEW w \in J, NEW j \in J, f[w] = f[j] PROVE w = j
    <3>1. w \in 0 .. N /\ j \in 0 .. N /\ E(w) + 1 = E(j) + 1
      BY <2>2
    <3>2. E(w) = E(j) /\ E(w) \in Nat /\ E(j) \in Nat
      BY <1>2, <3>1
    <3>3. ~(w < j) /\ ~(j < w)
      <4>1. w < j => E(w) + 4 <= E(j)
        BY <1>3, <3>1
      <4>2. j < w => E(j) + 4 <= E(w)
        BY <1>3, <3>1
      <4> QED BY <3>2, <4>1, <4>2
    <3> QED BY <1>1, <3>1, <3>3
  <2>3. ASSUME NEW w \in seen PROVE \E j \in J : f[j] = w
    <3>1. w \in 1 .. n /\ all[w] = Delimiter /\ w \in 1 .. Len(all)
      BY <1>1
    <3>2. PICK j \in 0 .. N : w = E(j) + 1
      BY <1>1, <3>1, Delimiters DEF E, N
    <3>3. j \in J
      BY <1>1, <3>1, <3>2
    <3> QED BY <3>2, <3>3
  <2> HIDE DEF seen, J
  <2>4. f \in [J -> seen]
    BY <2>1
  <2> HIDE DEF f
  <2>5. f \in Injection(J, seen)
    BY <2>2, <2>4 DEF Injection, IsInjective
  <2>6. f \in Surjection(J, seen)
    BY <2>3, <2>4 DEF Surjection
  <2> QED BY <2>5, <2>6 DEF Bijection
<1>9. Cardinality(seen) = c + 1
  <2> HIDE DEF f, J, seen
  <2>1. ExistsBijection(J, seen)
    BY <1>8 DEF ExistsBijection
  <2> QED BY <1>7, <2>1, FS_Bijection
<1>10. Cardinality(seen) - 1 = c
  <2> HIDE DEF seen
  <2> QED BY <1>5, <1>9
<1> QED BY <1>5, <1>10 DEF N, E

\* Where the scan ends, all that the complete parts say has been read.
LEMMA FormEnds ==
  ASSUME NEW parts, NEW n, NEW k, Scanning(parts, n, k), params = Meant(parts)[k],
         params.threw \/ ~HasPart
  PROVE  LET complete == Cardinality({w \in DOMAIN body : body[w] = Delimiter}) - 1
         IN  params = Meant(parts)[IF complete < 0 THEN 0 ELSE complete]
<1> DEFINE N == Len(parts)
           c == Cardinality({w \in DOMAIN body : body[w] = Delimiter}) - 1
           all == Encode(parts)
           E(w) == EndOf(parts, w)
<1>1. /\ parts \in Forms /\ k \in 0 .. N /\ N \in Nat /\ DOMAIN parts = 1 .. N
      /\ n \in Nat /\ n <= Len(all) /\ body \in Seq(Token) /\ Len(body) = n
      /\ DOMAIN body = 1 .. n
      /\ \A w \in 1 .. n : body[w] = all[w]
      /\ E(k) \in Nat /\ Len(all) \in Nat
  BY BodyIs
<1>2. pos = E(k) + 1 /\ (k > 0 => pos <= n)
  BY DEF Scanning
<1>3. /\ c \in Int /\ -1 <= c /\ c <= N
      /\ \A j \in 0 .. N : E(j) + 1 <= n <=> j <= c
  BY DelimitersSeen
<1>4. \A w \in 0 .. N : E(w) \in Nat
  BY <1>1, PartsFollow
<1> HIDE DEF c, N
<1>5. CASE ~(pos <= n)
  <2>1. k = 0
    BY <1>5, PartStart
  <2>2. ~(k <= c)
    BY <1>1, <1>2, <1>3, <1>5
  <2>3. c < 0
    BY <1>3, <2>1, <2>2
  <2> QED BY <2>1, <2>3 DEF c
<1>6. CASE pos <= n
  <2>1. k <= c
    BY <1>1, <1>2, <1>3, <1>6
  <2>2. c \in 0 .. N /\ ~(c < 0)
    BY <1>1, <1>3, <2>1
  <2>3. SUFFICES Meant(parts)[c] = Meant(parts)[k]
    BY <2>2, <2>3 DEF c
  <2>4. SUFFICES ASSUME ~Meant(parts)[k].threw,
                        NEW w \in DOMAIN parts, k < w, w <= c
                 PROVE  parts[w].names = << >>
    <3>1. c \in 0 .. Len(parts) /\ k \in 0 .. Len(parts)
      BY <1>1, <2>2 DEF N
    <3> QED BY <1>1, <2>1, <2>4, <3>1, NothingSaid
  <2>5. ~HasPart
    BY <2>4
  <2>6. Find(<<Delimiter>>, pos) = pos /\ Start = E(k) + 3 /\ pos # 0
    <3>1. pos # 0
      BY <1>1, <1>2
    <3> QED BY <1>6, <3>1, PartStart
  <2>7. w \in 0 .. N /\ w - 1 \in 0 .. N /\ k < N /\ E(w) + 1 <= n
    BY <1>1, <1>3, <2>4
  \* The delimiter is not the last one.
  <2>8. Start - 1 \in DOMAIN body => body[Start - 1] # Dashes
    <3> DEFINE j == k + 1
    <3>1. j \in DOMAIN parts /\ j - 1 = k
      BY <1>1, <2>7
    <3>2. all[E(j - 1) + 2] = CRLF
      <4> HIDE DEF j
      <4> QED BY <1>1, <3>1, PartAt
    <3>3. Start - 1 = E(k) + 2
      <4> HIDE DEF E
      <4> QED BY <1>1, <2>6
    <3>4. all[Start - 1] = CRLF
      BY <3>1, <3>2, <3>3
    <3> QED BY <1>1, <3>4, Tokens
  <2>9. HeaderEnd = 0 \/ NextDelimiter = 0
    BY <2>5, <2>6, <2>8 DEF HasPart
  <2>10. CASE HeaderEnd = 0
    <3>1. SUFFICES ASSUME parts[w].names # << >> PROVE FALSE
      OBVIOUS
    <3> DEFINE p == E(w - 1) + 4
               begin == E(k) + 3
               at == Find(<<CRLF, CRLF>>, begin)
    <3>2. /\ all[p] = CRLF /\ all[E(w - 1) + HeadOf(parts[w])] = CRLF
          /\ E(w) = E(w - 1) + HeadOf(parts[w]) + Len(parts[w].data) + 1
          /\ Len(parts[w].data) \in Nat
      BY <1>1, <3>1, PartAt
    <3>3. HeadOf(parts[w]) = 5
      BY <3>1 DEF HeadOf
    <3>4. E(k) <= E(w - 1) /\ E(w - 1) \in Nat /\ E(w) \in Nat
      <4>1. k = w - 1 \/ k < w - 1
        BY <1>1, <2>4, <2>7
      <4>2. k < w - 1 => E(k) + 4 <= E(w - 1)
        BY <1>1, <2>7, EndsApart DEF N
      <4>3. E(w - 1) \in Nat /\ E(w) \in Nat
        BY <1>4, <2>7
      <4>4. k = w - 1 => E(k) = E(w - 1)
        OBVIOUS
      <4> HIDE DEF E
      <4> QED BY <1>1, <4>1, <4>2, <4>3, <4>4
    <3>5. all[p + 1] = CRLF
      <4>1. p + 1 = E(w - 1) + 5
        BY <3>4
      <4> QED BY <3>2, <3>3, <4>1
    <3>6. p \in begin .. n - 1 /\ p \in 1 .. n /\ p + 1 \in 1 .. n
      <4> DEFINE l == Len(parts[w].data)
      <4>1. E(w) = E(w - 1) + 5 + l + 1 /\ l \in Nat
        BY <3>2, <3>3
      <4>2. n \in Nat /\ E(k) \in Nat /\ E(w) + 1 <= n
        BY <1>1, <2>7
      <4> HIDE DEF E, l
      <4> QED BY <3>4, <4>1, <4>2
    <3>7. body[p] = CRLF /\ body[p + 1] = CRLF
      BY <1>1, <3>2, <3>5, <3>6
    <3>8. at = 0
      BY <2>6, <2>10 DEF HeaderEnd
    <3>9. at = 0 => \A j \in begin .. n - 1 : ~(body[j] = CRLF /\ body[j + 1] = CRLF)
      <4>1. begin \in Nat /\ begin >= 1
        BY <1>1
      <4> HIDE DEF begin
      <4> QED BY <1>1, <4>1, FindTwo
    <3> HIDE DEF at, p, begin
    <3> QED BY <3>6, <3>7, <3>8, <3>9
  <2>11. CASE HeaderEnd # 0 /\ NextDelimiter = 0
    <3>1. PICK m \in DOMAIN parts :
            /\ \A j \in DOMAIN parts : k < j /\ j <= m - 1 => parts[j].names = << >>
            /\ NextDelimiter = IF E(m) + 1 <= n THEN E(m) + 1 ELSE 0
      BY <1>6, <2>11, HeaderFound
    <3>2. m \in 0 .. N
      BY <1>1
    <3>3. E(m) + 1 # 0
      <4>1. E(m) \in Nat
        BY <1>4, <3>2
      <4> HIDE DEF E
      <4> QED BY <4>1
    <3>4. ~(E(m) + 1 <= n)
      BY <2>11, <3>1, <3>3
    <3>5. ~(m <= c)
      BY <1>3, <3>2, <3>4
    <3>6. w <= m - 1
      BY <1>1, <1>3, <2>4, <2>7, <3>2, <3>5
    <3> QED BY <2>4, <3>1, <3>6
  <2> QED BY <2>9, <2>10, <2>11
<1> QED BY <1>5, <1>6

\* A serving server has started: none of its steps is one of main's.
LEMMA Started == StartNext => phase # "serving"
<1>1. CASE FindInstall
  BY <1>1 DEF FindInstall
<1>2. CASE TakeModel \/ TakePath \/ TakeOutput \/ TakePort
  BY <1>2 DEF TakeModel, TakePath, TakeOutput, TakePort, Reading
<1>3. CASE TakeNumber \/ TakeKeep \/ TakeSwitch \/ Help
  BY <1>3 DEF TakeNumber, TakeKeep, TakeSwitch, Help, Reading
<1>4. CASE RejectArguments \/ ChooseOutput \/ LoseOutput
  BY <1>4 DEF RejectArguments, ChooseOutput, LoseOutput
<1>5. CASE Proceed \/ Fail
  BY <1>5 DEF Proceed, Fail
<1> QED BY <1>1, <1>2, <1>3, <1>4, <1>5 DEF StartNext

\* The bodies of requests.
LEMMA ParserInitIInv == Init => ParserIInv
  BY DEF Init, ParserInit, ParserIInv, ReadSoFar, PartsRead, FormsAgree

\* What the scan has read, as a predicate of its place.
LEMMA ScanPlace ==
  ASSUME ReadSoFar, reading = "form"
  PROVE  \E n, k : Scanning(sent.parts, n, k) /\ params = Meant(sent.parts)[k]
  BY DEF ReadSoFar, Scanning, EndOf

LEMMA FormReceived ==
  ASSUME ParserIInv, ReceiveForm
  PROVE  ParserIInv'
<1>0. PICK parts \in Forms : \E n \in 0 .. Len(Encode(parts)) :
        /\ sent' = [kind |-> "form", parts |-> parts]
        /\ body' = SubSeq(Encode(parts), 1, n)
  BY DEF ReceiveForm
<1>1. PICK n \in 0 .. Len(Encode(parts)) :
        /\ sent' = [kind |-> "form", parts |-> parts]
        /\ body' = SubSeq(Encode(parts), 1, n)
  BY <1>0
<1>2. /\ phase' = "serving" /\ reading' = "form" /\ params' = DefaultParams
      /\ settings' = settings /\ pos' = 1
  BY DEF ParserIInv, ReceiveForm, startVars
<1>3. sent'.kind = "form" /\ sent'.parts = parts
  BY <1>1
<1>4. Meant(sent.parts)'[0] = params' /\ Len(Encoded(parts)[0]) = 0 /\ 0 \in 0 .. Len(parts)
  <2>1. DefaultParams' = DefaultParams
    BY <1>2 DEF DefaultParams
  <2>2. Meant(sent.parts)' = Meant(parts)
    BY <1>3, <2>1 DEF Meant
  <2>3. Len(parts) \in Nat /\ EndOf(parts, 0) = 0
    BY PartsFollow
  <2>4. Meant(parts)[0] = DefaultParams
    BY <2>3, MeantSteps
  <2> QED BY <1>2, <2>2, <2>3, <2>4 DEF EndOf
<1>5. ReadSoFar'
  BY <1>1, <1>2, <1>3, <1>4 DEF ReadSoFar
<1> QED BY <1>2, <1>5 DEF ParserIInv, PartsRead, FormsAgree

LEMMA ObjectReceived ==
  ASSUME ParserIInv, ReceiveObject
  PROVE  ParserIInv'
<1>1. PICK o \in Objects, whole \in BOOLEAN :
        sent' = [kind |-> "object", object |-> o, whole |-> whole]
  BY DEF ReceiveObject
<1>2. /\ phase' = "serving" /\ reading' = "object" /\ params' = DefaultParams
      /\ settings' = settings
  BY DEF ReceiveObject, startVars
<1>3. sent'.kind = "object" /\ sent'.object \in Objects
  BY <1>1
<1>4. DefaultParams' = DefaultParams
  BY <1>2 DEF DefaultParams
<1> QED BY <1>2, <1>3, <1>4 DEF ParserIInv, ReadSoFar, PartsRead, FormsAgree

LEMMA PartIsRead ==
  ASSUME ParserIInv, ReadPart
  PROVE  ParserIInv'
<1>1. /\ reading = "form" /\ HasPart /\ pos' = NextDelimiter
      /\ params' = IF HeaderName = "" THEN params ELSE ApplyField(params, HeaderName, PartData)
      /\ UNCHANGED <<startVars, sent, body, reading>>
  BY DEF ReadPart
<1>2. PICK n, k : Scanning(sent.parts, n, k) /\ params = Meant(sent.parts)[k]
  BY <1>1, ScanPlace DEF ParserIInv
<1> DEFINE parts == sent.parts
<1>3. PICK m \in DOMAIN parts :
        /\ params' = Meant(parts)[m]
        /\ NextDelimiter = EndOf(parts, m) + 1 /\ EndOf(parts, m) + 1 <= n
  <2> HIDE DEF parts
  <2> QED BY <1>1, <1>2, PartMeans DEF parts
<1>4. Meant(sent.parts)' = Meant(parts)
  <2>1. sent' = sent /\ settings' = settings
    BY <1>1 DEF startVars
  <2>2. DefaultParams' = DefaultParams
    BY <2>1 DEF DefaultParams
  <2> QED BY <2>1, <2>2 DEF Meant
<1>5. m \in 0 .. Len(parts) /\ parts \in Forms
  BY <1>2, BodyIs
<1>6. ReadSoFar'
  <2>1. /\ n \in 0 .. Len(Encode(parts)) /\ body' = SubSeq(Encode(parts), 1, n)
        /\ sent.kind = "form"
    BY <1>1, <1>2 DEF Scanning, ParserIInv, ReadSoFar
  <2>2. pos' = Len(Encoded(parts)[m]) + 1 /\ pos' <= n
    BY <1>1, <1>3 DEF EndOf
  <2>3. sent' = sent
    BY <1>1
  <2> HIDE DEF parts
  <2> QED BY <1>3, <1>4, <1>5, <2>1, <2>2, <2>3 DEF ReadSoFar, parts
<1>7. reading' = "form" /\ phase' = phase
  BY <1>1 DEF startVars
<1> QED BY <1>1, <1>6, <1>7 DEF ParserIInv, PartsRead, FormsAgree

LEMMA FormIsRead ==
  ASSUME ParserIInv, EndForm
  PROVE  ParserIInv'
<1>1. /\ reading = "form" /\ (params.threw \/ ~HasPart) /\ reading' = "done"
      /\ UNCHANGED <<startVars, sent, body, pos, params>>
  BY DEF EndForm
<1>2. PICK n, k : Scanning(sent.parts, n, k) /\ params = Meant(sent.parts)[k]
  BY <1>1, ScanPlace DEF ParserIInv
<1>3. LET complete == Cardinality({w \in DOMAIN body : body[w] = Delimiter}) - 1
      IN  params = Meant(sent.parts)[IF complete < 0 THEN 0 ELSE complete]
  BY <1>1, <1>2, FormEnds
<1>4. Meant(sent.parts)' = Meant(sent.parts)
  <2>1. sent' = sent /\ settings' = settings
    BY <1>1 DEF startVars
  <2>2. DefaultParams' = DefaultParams
    BY <2>1 DEF DefaultParams
  <2> QED BY <2>1, <2>2 DEF Meant
<1>5. PartsRead'
  <2>1. body' = body /\ params' = params
    BY <1>1
  <2> QED BY <1>3, <1>4, <2>1 DEF PartsRead
<1>6. sent.kind = "form" /\ sent' = sent /\ phase' = phase
  BY <1>1 DEF ParserIInv, ReadSoFar, startVars
<1>7. FormsAgree'
  BY <1>6 DEF FormsAgree
<1> QED BY <1>1, <1>5, <1>6, <1>7 DEF ParserIInv, ReadSoFar

LEMMA ObjectIsRead ==
  ASSUME ParserIInv, ReadObject
  PROVE  ParserIInv'
<1>1. /\ reading = "object" /\ sent.whole /\ reading' = "done"
      /\ UNCHANGED <<startVars, sent, body, pos>>
  BY DEF ReadObject
<1>2. sent.kind = "object" /\ sent.object \in Objects /\ params = DefaultParams
  BY <1>1 DEF ParserIInv
<1>3. params' = ObjectParams(sent.object)
  BY <1>2 DEF ReadObject, ObjectParams, Has, ValueOf
<1> DEFINE o == sent.object
           form == Meant(AsParts(o))[Len(Shared)]
<1>4. form.threw \/ [ObjectParams(o) EXCEPT !.steps = settings.steps] = form
  <2> HIDE DEF o
  <2> QED BY <1>2, ObjectMeansForm DEF o
<1>5. sent' = sent /\ settings' = settings /\ phase' = phase
  BY <1>1 DEF startVars
<1>6. Meant(AsParts(sent.object))' = Meant(AsParts(o))
  <2>1. DefaultParams' = DefaultParams
    BY <1>5 DEF DefaultParams
  <2> QED BY <1>5, <2>1 DEF Meant
<1>7. FormsAgree'
  <2> HIDE DEF form
  <2>1. Meant(AsParts(sent.object))'[Len(Shared)] = form
    BY <1>6 DEF form
  <2> QED BY <1>3, <1>4, <1>5, <2>1 DEF FormsAgree
<1> QED BY <1>1, <1>2, <1>5, <1>7 DEF ParserIInv, ReadSoFar, PartsRead

LEMMA FallbackIsRead ==
  ASSUME ParserIInv, ReadFallback
  PROVE  ParserIInv'
<1>1. /\ reading = "object" /\ ~sent.whole /\ reading' = "done"
      /\ UNCHANGED <<startVars, sent, body, pos>>
  BY DEF ReadFallback
<1>2. sent.kind = "object" /\ sent' = sent /\ phase' = phase
  BY <1>1 DEF ParserIInv, startVars
<1> QED BY <1>1, <1>2 DEF ParserIInv, ReadSoFar, PartsRead, FormsAgree

\* ParserIInv is inductive.  The settings a body is read with stay as they were: main
\* is done with them when the first request arrives.
THEOREM ParserInvariance == Spec => []ParserIInv
<1>1. Init => ParserIInv
  BY ParserInitIInv
<1>2. ParserIInv /\ [Next]_allVars => ParserIInv'
  <2> SUFFICES ASSUME ParserIInv, [Next]_allVars PROVE ParserIInv'
    OBVIOUS
  <2>1. CASE StartNext /\ UNCHANGED parserVars
    <3>1. reading = "no" /\ pos = 1
      BY <2>1, Started DEF ParserIInv
    <3>2. reading' = "no" /\ pos' = 1
      BY <2>1, <3>1 DEF parserVars
    <3> QED BY <3>2 DEF ParserIInv, ReadSoFar, PartsRead, FormsAgree
  <2>2. CASE ReceiveForm
    BY <2>2, FormReceived
  <2>3. CASE ReadPart
    BY <2>3, PartIsRead
  <2>4. CASE EndForm
    BY <2>4, FormIsRead
  <2>5. CASE ReceiveObject
    BY <2>5, ObjectReceived
  <2>6. CASE ReadObject
    BY <2>6, ObjectIsRead
  <2>7. CASE ReadFallback
    BY <2>7, FallbackIsRead
  <2>8. CASE UNCHANGED allVars
    <3>1. /\ sent' = sent /\ body' = body /\ pos' = pos /\ reading' = reading
          /\ params' = params /\ settings' = settings /\ phase' = phase
      BY <2>8 DEF allVars, parserVars, startVars
    <3> QED BY <3>1 DEF ParserIInv, ReadSoFar, PartsRead, FormsAgree, Meant, DefaultParams
  <2> QED BY <2>1, <2>2, <2>3, <2>4, <2>5, <2>6, <2>7, <2>8 DEF Next
<1> QED BY <1>1, <1>2, PTL DEF Spec

\* A form is read as it was meant, whatever its data look like and wherever it was cut
\* off: all that its complete parts say, in their order, and nothing else.
THEOREM FormsAreReadAsMeant == Spec => []PartsRead
<1>1. ParserIInv => PartsRead
  BY DEF ParserIInv
<1> QED BY <1>1, ParserInvariance, PTL

\* The two readers agree on every object of fields that a form can have, too.
THEOREM ReadersAgree == Spec => []FormsAgree
<1>1. ParserIInv => FormsAgree
  BY DEF ParserIInv
<1> QED BY <1>1, ParserInvariance, PTL

-----------------------------------------------------------------------------
(* Types of what is read.                                                   *)

\* A text is a token.
LEMMA TextIsToken ==
  ASSUME NEW v \in Word
  PROVE  <<Text(v)>> \in Seq(Token)
<1>1. "text" \in Word
  BY DEF Word
<1>2. <<"text", v>> \in Seq(Word) /\ <<"text", v>> # << >>
  BY <1>1
<1>3. Text(v) \in Token
  BY <1>2 DEF Text, Token
<1> HIDE DEF Text, Token
<1> QED BY <1>3

\* Numbers that are taken are ints, whether they are refused or wrapped otherwise.
LEMMA WrapsToInt ==
  ASSUME NEW n \in Int
  PROVE  Wrap(n) \in Ints
<1> DEFINE H == IntHalf  r == (n + H) % (2 * H)
<1>1. H \in Nat /\ H > 0
  BY IntHalfPositive
<1> HIDE DEF H
<1>2. n + H \in Int /\ 2 * H \in Nat /\ 2 * H > 0
  BY <1>1
<1>3. r \in 0 .. 2 * H - 1
  BY <1>2
<1> HIDE DEF r
<1>4. r - H \in -H .. H - 1
  BY <1>1, <1>3
<1> QED BY <1>4 DEF Wrap, Ints, H, r

\* The parameters a reader starts from.
LEMMA DefaultsTyped ==
  ASSUME StartTypeOK
  PROVE  DefaultParams \in GenParams
<1>1. settings.model \in Word /\ settings.steps \in Ints
  BY DEF StartTypeOK, Settings, Word
<1>2. "default" \in Word
  BY DEF Word
<1>3. <<Text(settings.model)>> \in Seq(Token) /\ <<Text("default")>> \in Seq(Token)
  BY <1>1, <1>2, TextIsToken
<1>4. 0 \in Ints /\ "default" \in Sizes
  BY IntHalfPositive DEF Ints, Sizes
<1>5. << >> \in Seq(Seq(Token))
  OBVIOUS
<1> HIDE DEF Text
<1> QED BY <1>1, <1>3, <1>4, <1>5 DEF DefaultParams, GenParams

\* A size that is taken is one of the presets.
LEMMA SizeTyped ==
  ASSUME NEW p \in GenParams, NEW value
  PROVE  WithSize(p, value) \in GenParams
<1>1. Preset(value) # None => Preset(value) \in Sizes
  BY DEF Preset, Sizes
<1> HIDE DEF Preset
<1> QED BY <1>1 DEF WithSize, GenParams

\* A part of a form leaves parameters as they should be.
LEMMA FieldTyped ==
  ASSUME NEW p \in GenParams, NEW name, NEW data \in Seq(Token)
  PROVE  ApplyField(p, name, data) \in GenParams
<1>1. IsNumber(TextOf(data)) => Numbers[TextOf(data)] \in Ints
  BY DEF IsNumber
<1>2. <<data>> \in Seq(Seq(Token))
  OBVIOUS
<1> DEFINE truth == TextOf(data) \in Truths
<1>3. truth \in BOOLEAN
  OBVIOUS
<1>4. WithSize(p, TextOf(data)) \in GenParams
  BY SizeTyped
<1> HIDE DEF truth
<1>5. /\ [p EXCEPT !.prompt = data] \in GenParams
      /\ [p EXCEPT !.model = data] \in GenParams
      /\ [p EXCEPT !.force = truth] \in GenParams
      /\ [p EXCEPT !.threw = TRUE] \in GenParams
      /\ [p EXCEPT !.images = <<data>>] \in GenParams
      /\ IsNumber(TextOf(data)) => [p EXCEPT !.rank = Numbers[TextOf(data)]] \in GenParams
  BY <1>1, <1>2, <1>3 DEF GenParams
<1>6. ApplyField(p, name, data) \in
        {p, [p EXCEPT !.prompt = data], [p EXCEPT !.model = data], WithSize(p, TextOf(data)),
         [p EXCEPT !.force = truth], [p EXCEPT !.threw = TRUE], [p EXCEPT !.images = <<data>>]}
          \cup {[p EXCEPT !.rank = n] : n \in {Numbers[TextOf(data)]}}
  BY DEF ApplyField, truth
<1>7. name = "lora_rank" /\ ~IsNumber(TextOf(data)) =>
        ApplyField(p, name, data) \in {p, [p EXCEPT !.threw = TRUE]}
  BY DEF ApplyField
<1>8. ApplyField(p, name, data) = [p EXCEPT !.rank = Numbers[TextOf(data)]] =>
        ApplyField(p, name, data) \in GenParams
  <2>1. CASE IsNumber(TextOf(data))
    BY <1>5, <2>1
  <2>2. CASE ~IsNumber(TextOf(data)) /\ name = "lora_rank"
    BY <1>5, <1>7, <2>2
  <2>3. CASE name # "lora_rank"
    <3>1. ApplyField(p, name, data) \in
            {p, [p EXCEPT !.prompt = data], [p EXCEPT !.model = data], WithSize(p, TextOf(data)),
             [p EXCEPT !.force = truth], [p EXCEPT !.images = <<data>>]}
      BY <2>3 DEF ApplyField, truth
    <3> QED BY <1>4, <1>5, <3>1
  <2> QED BY <2>1, <2>2, <2>3
<1> QED BY <1>4, <1>5, <1>6, <1>8

\* What the first parts of a form say are parameters as they should be.
LEMMA MeantTyped ==
  ASSUME StartTypeOK, NEW parts \in Forms
  PROVE  \A k \in 0 .. Len(parts) : Meant(parts)[k] \in GenParams
<1> DEFINE N == Len(parts)
           S == {k \in 0 .. N : Meant(parts)[k] \in GenParams}
<1>1. N \in Nat /\ DOMAIN parts = 1 .. N
  BY PartsFollow
<1>2. 0 \in S
  BY <1>1, DefaultsTyped, MeantSteps
<1>3. ASSUME NEW n \in 0 .. N - 1, n \in S
      PROVE  n + 1 \in S
  <2>1. n + 1 \in 1 .. N /\ n + 1 \in 0 .. N
    BY <1>1
  <2>2. parts[n + 1].data \in Seq(Token)
    <3>1. parts \in Seq(Part)
      BY BodyAssumption
    <3>2. parts[n + 1] \in Part
      BY <1>1, <2>1, <3>1
    <3> QED BY <3>2 DEF Part
  <2>3. Meant(parts)[n + 1] =
          IF parts[n + 1].names = << >> THEN Meant(parts)[n]
          ELSE ApplyField(Meant(parts)[n], parts[n + 1].names[1], parts[n + 1].data)
    BY <1>1, MeantSteps
  <2>4. Meant(parts)[n] \in GenParams
    BY <1>3
  <2>5. Meant(parts)[n + 1] \in GenParams
    BY <2>2, <2>3, <2>4, FieldTyped
  <2> QED BY <2>1, <2>5
<1> HIDE DEF S
<1>4. \A k \in 0 .. N : k \in S
  BY <1>1, <1>2, <1>3, UpTo
<1> QED BY <1>4 DEF S

\* What an object and what its fall-back make of the defaults.
LEMMA ObjectTyped ==
  ASSUME StartTypeOK, ParserIInv, ReadObject
  PROVE  params' \in GenParams
<1> DEFINE o == sent.object  p == DefaultParams
<1>1. o \in Objects /\ params = p /\ p \in GenParams
  BY DefaultsTyped DEF ParserIInv, ReadObject
<1>2. params' = ObjectParams(o)
  BY <1>1 DEF ReadObject, ObjectParams, Has, ValueOf
<1>3. /\ \A f \in DOMAIN o : o[f][2] \in Word
      /\ \A f \in DOMAIN o : o[f][1] = "number" => Numbers[o[f][2]] \in Int
  BY <1>1, BodyAssumption, StartAssumption DEF Word
<1> DEFINE model == IF "model" \in DOMAIN o /\ o["model"][1] = "text"
                      THEN <<Text(o["model"][2])>> ELSE p.model
           prompt == IF "prompt" \in DOMAIN o /\ o["prompt"][1] = "text"
                      THEN <<Text(o["prompt"][2])>> ELSE p.prompt
           steps == IF "steps" \in DOMAIN o /\ o["steps"][1] = "number"
                      THEN Wrap(Numbers[o["steps"][2]]) ELSE p.steps
           size == IF "size" \in DOMAIN o /\ o["size"][1] = "text"
                     THEN WithSize(p, o["size"][2]).size ELSE p.size
           switch == (o["lora_force"][2] = "true")
           force == IF "lora_force" \in DOMAIN o /\ o["lora_force"][1] = "boolean"
                      THEN switch ELSE p.force
           rank == IF "lora_rank" \in DOMAIN o /\ o["lora_rank"][1] = "number"
                     THEN Wrap(Numbers[o["lora_rank"][2]]) ELSE p.rank
<1>4. params' = [p EXCEPT !.model = model, !.prompt = prompt, !.steps = steps, !.size = size,
                          !.force = force, !.rank = rank]
  BY <1>2 DEF ObjectParams
<1> HIDE DEF p, o, Text, Wrap
<1>5. model \in Seq(Token) /\ prompt \in Seq(Token)
  BY <1>1, <1>3, TextIsToken DEF GenParams
<1>6. steps \in Ints /\ rank \in Ints
  BY <1>1, <1>3, WrapsToInt DEF GenParams
<1>7. size \in Sizes
  BY <1>1, SizeTyped DEF GenParams
<1>8. force \in BOOLEAN
  <2>1. switch \in BOOLEAN
    OBVIOUS
  <2> HIDE DEF switch
  <2> QED BY <1>1, <2>1 DEF GenParams
<1> HIDE DEF model, prompt, steps, size, force, rank
<1> QED BY <1>1, <1>4, <1>5, <1>6, <1>7, <1>8 DEF GenParams

LEMMA FallbackTyped ==
  ASSUME StartTypeOK, ParserIInv, ReadFallback
  PROVE  params' \in GenParams
<1> DEFINE o == sent.object  p == DefaultParams
           digits == Has("steps", "number") /\ Numbers[ValueOf("steps")] >= 0
           holds == digits => IsNumber(ValueOf("steps"))
           size == IF NoneShown THEN p.size ELSE Preset(Ratios[FirstShown])
           steps == IF digits /\ holds THEN Numbers[ValueOf("steps")] ELSE p.steps
           prompt == IF Has("prompt", "text") /\ holds THEN <<Text(ValueOf("prompt"))>>
                     ELSE p.prompt
           refused == ~holds
<1>1. o \in Objects /\ params = p /\ p \in GenParams
  BY DefaultsTyped DEF ParserIInv, ReadFallback
<1>2. params' = [p EXCEPT !.size = size, !.steps = steps, !.prompt = prompt, !.threw = refused]
  BY <1>1 DEF ReadFallback
<1>3. size \in Sizes
  <2> DEFINE First(n) == Ratios[n] \in Shown /\ \A m \in 1 .. n - 1 : Ratios[m] \notin Shown
  <2>1. ASSUME ~NoneShown PROVE \E n \in DOMAIN Ratios : First(n)
    <3>1. DOMAIN Ratios = 1 .. 5
      BY DEF Ratios
    <3>2. Ratios[1] \in Shown \/ Ratios[2] \in Shown \/ Ratios[3] \in Shown
          \/ Ratios[4] \in Shown \/ Ratios[5] \in Shown
      <4>1. \A n \in 1 .. 5 : n = 1 \/ n = 2 \/ n = 3 \/ n = 4 \/ n = 5
        OBVIOUS
      <4> QED BY <2>1, <3>1, <4>1 DEF NoneShown
    <3> DEFINE has(n) == Ratios[n] \in Shown
    <3>3. has(1) \/ has(2) \/ has(3) \/ has(4) \/ has(5)
      BY <3>2
    <3> HIDE DEF has
    <3>4. \E n \in 1 .. 5 : has(n) /\ \A m \in 1 .. n - 1 : ~has(m)
      BY <3>3
    <3> QED BY <3>1, <3>4 DEF has
  <2>2. ~NoneShown => FirstShown \in DOMAIN Ratios
    BY <2>1 DEF FirstShown
  <2>3. \A n \in DOMAIN Ratios : Preset(Ratios[n]) \in Sizes
    BY DEF Ratios, Preset, Sizes
  <2>4. p.size \in Sizes
    BY <1>1 DEF GenParams
  <2> QED BY <2>2, <2>3, <2>4
<1>4. steps \in Ints
  <2>1. p.steps \in Ints
    BY <1>1 DEF GenParams
  <2> QED BY <2>1 DEF IsNumber
<1>5. prompt \in Seq(Token)
  <2>1. Has("prompt", "text") => ValueOf("prompt") \in Word
    BY <1>1, BodyAssumption DEF Has, ValueOf, Word
  <2>2. Has("prompt", "text") => <<Text(ValueOf("prompt"))>> \in Seq(Token)
    BY <2>1, TextIsToken
  <2>3. p.prompt \in Seq(Token)
    BY <1>1 DEF GenParams
  <2> QED BY <2>2, <2>3
<1>6. refused \in BOOLEAN
  OBVIOUS
<1> HIDE DEF p, size, steps, prompt, refused
<1> QED BY <1>1, <1>2, <1>3, <1>4, <1>5, <1>6 DEF GenParams

\* Whatever bodies come, the parameters are those of a request: sizes are presets, the
\* numbers of steps and ranks are ints, and a scan never leaves its body's tokens.
THEOREM ParserTypeCorrect == Spec => []ParserTypeOK
<1>1. Init /\ StartTypeOK => ParserTypeOK
  <2> SUFFICES ASSUME ParserInit, StartTypeOK PROVE ParserTypeOK
    BY DEF Init
  <2>1. << >> \in Seq(Token)
    OBVIOUS
  <2> QED BY <2>1, DefaultsTyped DEF ParserInit, ParserTypeOK
<1>2. ParserTypeOK /\ ParserIInv /\ StartTypeOK /\ [Next]_allVars => ParserTypeOK'
  <2> SUFFICES ASSUME ParserTypeOK, ParserIInv, StartTypeOK, [Next]_allVars
               PROVE  ParserTypeOK'
    OBVIOUS
  <2>1. CASE (StartNext /\ UNCHANGED parserVars) \/ UNCHANGED allVars
    BY <2>1 DEF allVars, parserVars, ParserTypeOK
  <2>2. CASE ReceiveForm
    <3>0. PICK parts \in Forms : \E n \in 0 .. Len(Encode(parts)) :
            body' = SubSeq(Encode(parts), 1, n)
      BY <2>2 DEF ReceiveForm
    <3>1. PICK n \in 0 .. Len(Encode(parts)) : body' = SubSeq(Encode(parts), 1, n)
      BY <3>0
    <3> DEFINE all == Encode(parts)
    <3>2. all \in Seq(Token)
      BY FormLayout
    <3> HIDE DEF all
    <3>3. body' \in Seq(Token)
      <4>1. n \in Int /\ 1 \in Int /\ \A w \in 1 .. n : all[w] \in Token
        BY <3>2 DEF all
      <4> QED BY <3>1, <3>2, <4>1, SubSeqProperties DEF all
    <3>4. params' \in GenParams /\ reading' = "form" /\ pos' = pos
      BY <2>2, DefaultsTyped DEF ReceiveForm
    <3> QED BY <3>3, <3>4 DEF ParserTypeOK
  <2>3. CASE ReceiveObject
    BY <2>3, DefaultsTyped DEF ReceiveObject, ParserTypeOK
  <2>4. CASE ReadPart
    <3>1. reading = "form" /\ HasPart /\ pos' = NextDelimiter /\ UNCHANGED <<body, reading>>
          /\ params' = IF HeaderName = "" THEN params
                       ELSE ApplyField(params, HeaderName, PartData)
      BY <2>4 DEF ReadPart
    <3>2. PICK n, k : Scanning(sent.parts, n, k) /\ params = Meant(sent.parts)[k]
      BY <3>1, ScanPlace DEF ParserIInv
    <3> DEFINE parts == sent.parts
    <3>3. parts \in Forms /\ DOMAIN parts = 1 .. Len(parts)
      BY <3>2, BodyIs
    <3> HIDE DEF parts
    <3>4. PICK m \in DOMAIN parts :
            params' = Meant(parts)[m] /\ NextDelimiter = EndOf(parts, m) + 1
      BY <3>1, <3>2, PartMeans DEF parts
    <3>5. m \in 0 .. Len(parts) /\ EndOf(parts, m) \in Nat
      BY <3>3, <3>4, PartsFollow
    <3>6. params' \in GenParams
      BY <3>3, <3>4, <3>5, MeantTyped
    <3>7. pos' \in Nat \ {0}
      <4>1. pos' = EndOf(parts, m) + 1
        BY <3>1, <3>4
      <4> QED BY <3>5, <4>1
    <3> QED BY <3>1, <3>6, <3>7 DEF ParserTypeOK
  <2>5. CASE EndForm
    BY <2>5 DEF EndForm, ParserTypeOK
  <2>6. CASE ReadObject
    <3>1. params' \in GenParams
      BY <2>6, ObjectTyped
    <3>2. reading' = "done" /\ UNCHANGED <<body, pos>>
      BY <2>6 DEF ReadObject
    <3> QED BY <3>1, <3>2 DEF ParserTypeOK
  <2>7. CASE ReadFallback
    <3>1. params' \in GenParams
      BY <2>7, FallbackTyped
    <3>2. reading' = "done" /\ UNCHANGED <<body, pos>>
      BY <2>7 DEF ReadFallback
    <3> QED BY <3>1, <3>2 DEF ParserTypeOK
  <2> QED BY <2>1, <2>2, <2>3, <2>4, <2>5, <2>6, <2>7 DEF Next
<1> QED BY <1>1, <1>2, ParserInvariance, StartTypeCorrect, PTL DEF Spec

=============================================================================
