--------------------------- MODULE VgfServeProofs ---------------------------
(***************************************************************************)
(* Proofs about VgfServe: what earlier lives of the server left is safe    *)
(* from the requests, the workers and the restarts of later ones.          *)
(***************************************************************************)
EXTENDS VgfServe, InferenceServerProofs

\* The server writes and removes only the pictures its threads have named, names
\* them by the clock as it is, and finishes only those.
Frame ==
  /\ clock <= clock'
  /\ \A c \in Conns : out'[c] \in {None, out[c]} \/ out'[c] = OutputName(clock, jobs + 1)
  /\ \A f \in OutputNames :
       outputs'[f] # outputs[f] => \E c \in Conns : out[c] = f
  /\ \A d \in done' : d \in done \/ \E c \in Conns : out[c] # None /\ d.out = out[c]

LEMMA ServeFrame == IInv /\ [Next]_vars => Frame
<1> SUFFICES ASSUME IInv, [Next]_vars PROVE Frame
  OBVIOUS
<1> USE NullsAssumption, BoundsAssumption
    DEF IInv, TypeOK, Goto, Answer, Shape, OwnsOutput, Frame, Ms, shared, files,
        locals, history
<1>1. ASSUME NEW e \in Conns, Accept(e) PROVE Frame
  BY <1>1 DEF Accept
<1>2. ASSUME NEW e \in Conns, Disconnect(e) PROVE Frame
  BY <1>2 DEF Disconnect
<1>3. ASSUME NEW e \in Conns, Receive(e) PROVE Frame
  BY <1>3 DEF Receive
<1>4. ASSUME NEW e \in Conns, Respond(e) PROVE Frame
  BY <1>4 DEF Respond
<1>5. ASSUME NEW e \in Conns, AcquireInfer(e) PROVE Frame
  BY <1>5 DEF AcquireInfer
<1>6. ASSUME NEW e \in Conns, Reject(e) PROVE Frame
  BY <1>6 DEF Reject
<1>7. ASSUME NEW e \in Conns, ParseImageRequest(e) PROVE Frame
  BY <1>7 DEF ParseImageRequest
<1>8. ASSUME NEW e \in Conns, OpenUpload(e) PROVE Frame
  BY <1>8 DEF OpenUpload
<1>9. ASSUME NEW e \in Conns, WriteUpload(e) PROVE Frame
  BY <1>9 DEF WriteUpload
<1>10. ASSUME NEW e \in Conns, PrepareFails(e) PROVE Frame
  BY <1>10 DEF PrepareFails, Unwind
<1>11. ASSUME NEW e \in Conns, LaunchWorker(e) PROVE Frame
  BY <1>11 DEF LaunchWorker
<1>12. ASSUME NEW e \in Conns, ReleaseInfer(e) PROVE Frame
  BY <1>12 DEF ReleaseInfer
<1>13. ASSUME NEW e \in Conns, BuildResponse(e) PROVE Frame
  BY <1>13 DEF BuildResponse
<1>14. ASSUME NEW e \in Conns, BuildFails(e) PROVE Frame
  BY <1>14 DEF BuildFails
<1>15. ASSUME NEW e \in Conns, CleanOutput(e) PROVE Frame
  BY <1>15 DEF CleanOutput, Serialize
<1>16. ASSUME NEW e \in Conns, CleanUploads(e) PROVE Frame
  BY <1>16 DEF CleanUploads, Serialize
<1>17. ASSUME NEW e \in Conns, CatchUploads(e) PROVE Frame
  BY <1>17 DEF CatchUploads
<1>18. ASSUME NEW e \in Conns, FindImage(e) PROVE Frame
  BY <1>18 DEF FindImage
<1>19. ASSUME NEW e \in Conns, FetchImage(e) PROVE Frame
  BY <1>19 DEF FetchImage
<1>20. ASSUME NEW e \in Conns, Chat(e) PROVE Frame
  BY <1>20 DEF Chat
<1>21. ASSUME NEW e \in Conns, WorkerReads(e) PROVE Frame
  BY <1>21 DEF WorkerReads
<1>22. ASSUME NEW e \in Conns, WorkerSucceeds(e) PROVE Frame
  BY <1>22 DEF WorkerSucceeds
<1>23. ASSUME NEW e \in Conns, WorkerFails(e) PROVE Frame
  BY <1>23 DEF WorkerFails, Unwind
<1>24. CASE Tick
  BY <1>24 DEF Tick
<1>25. CASE UNCHANGED vars
  BY <1>25 DEF vars
<1> QED BY <1>1, <1>2, <1>3, <1>4, <1>5, <1>6, <1>7, <1>8, <1>9, <1>10, <1>11, <1>12,
         <1>13, <1>14, <1>15, <1>16, <1>17, <1>18, <1>19, <1>20, <1>21, <1>22, <1>23, <1>24, <1>25
       DEF Next, Session, Handler, Worker

\* LifeIInv holds initially: IInv does, and there was no earlier life.
LEMMA InitLifeIInv == LifeInit => LifeIInv
<1> SUFFICES ASSUME LifeInit PROVE LifeIInv
  OBVIOUS
<1>1. IInv
  BY InitIInv DEF LifeInit
<1> QED BY <1>1, CrashesAssumption, BoundsAssumption
     DEF LifeInit, Init, LifeIInv, LifeTypeOK, IInv, NamesOfLives, OfThePast, ArchiveKept,
         OneOrphanPerLife, Ms

\* A step of the living server leaves the past alone.
LEMMA ServingStep == LifeIInv /\ (Serve \/ TimePasses) => LifeIInv'
<1> SUFFICES ASSUME LifeIInv, Serve \/ TimePasses PROVE LifeIInv'
  OBVIOUS
<1>1. [Next]_vars /\ UNCHANGED life
  BY DEF Serve, TimePasses, Next
<1>2. IInv' /\ Frame
  BY <1>1, NextIInv, ServeFrame DEF LifeIInv
<1>3. up \/ UNCHANGED <<outputs, out, done, pc>>
  BY DEF Serve, TimePasses, Tick, locals, history, files
<1>4. LifeTypeOK'
  BY <1>1, <1>2 DEF LifeIInv, LifeTypeOK, IInv, life
<1>5. NamesOfLives'
  <2>0. born \in Nat /\ clock \in Nat /\ clock' \in Nat /\ born <= clock /\ clock <= clock'
    BY <1>2 DEF Frame, LifeIInv, LifeTypeOK, IInv, TypeOK, NamesOfLives, Ms
  <2>1. ASSUME NEW c \in Conns, up, out'[c] # None PROVE out'[c][1] \in born .. clock'
    <3>1. CASE out'[c] = out[c]
      BY <2>0, <2>1, <3>1 DEF LifeIInv, NamesOfLives
    <3>2. CASE out'[c] = OutputName(clock, jobs + 1)
      BY <2>0, <3>2 DEF OutputName
    <3> QED BY <1>2, <2>1, <3>1, <3>2 DEF Frame
  <2>2. ASSUME NEW d \in done', up PROVE d.out[1] \in born .. clock'
    BY <1>2, <2>0, <2>2 DEF Frame, LifeIInv, NamesOfLives
  <2>3. born <= clock'
    BY <2>0
  <2>4. UNCHANGED <<up, born, orphans, archive>>
    BY <1>1 DEF life
  <2>5. /\ \A o \in orphans' : OfThePast(o.out)'
        /\ \A d \in archive' : OfThePast(d.out)'
        /\ \A o \in orphans', d \in archive' : o.out # d.out
    BY <2>4 DEF LifeIInv, NamesOfLives, OfThePast
  <2>6. ~up => (\A c \in Conns : pc'[c] = "closed") /\ done' = {}
    BY <1>3 DEF LifeIInv, NamesOfLives
  <2> QED BY <2>1, <2>2, <2>3, <2>4, <2>5, <2>6 DEF NamesOfLives
<1>6. ArchiveKept'
  <2> SUFFICES ASSUME NEW d \in archive PROVE outputs'[d.out] = outputs[d.out]
    BY <1>1 DEF ArchiveKept, LifeIInv, life, Retained
  <2>1. CASE ~up
    BY <1>3, <2>1
  <2>2. CASE up
    <3>1. d.out \in OutputNames /\ d.out[1] \in Nat /\ d.out[1] < born /\ born \in Nat
      BY <2>2 DEF LifeIInv, LifeTypeOK, NamesOfLives, OfThePast, OutputNames, Ms
    <3>2. ASSUME NEW c \in Conns, out[c] = d.out PROVE FALSE
      <4>1. out[c] # None
        BY <3>1, <3>2, NullsAssumption
      <4>2. d.out[1] \in born .. clock
        BY <2>2, <3>2, <4>1 DEF LifeIInv, NamesOfLives
      <4> QED BY <3>1, <4>2
    <3> QED BY <1>2, <3>1, <3>2 DEF Frame
  <2> QED BY <2>1, <2>2
<1> QED BY <1>1, <1>2, <1>4, <1>5, <1>6 DEF LifeIInv, life, OneOrphanPerLife

\* The end of the process: nothing of it remains but files and at most one worker,
\* whose picture is no finished one.
LEMMA CrashStep == LifeIInv /\ Crash => LifeIInv'
<1> SUFFICES ASSUME LifeIInv, Crash PROVE LifeIInv'
  OBVIOUS
<1> USE DEF Crash, NoThreads, files
<1>1. IInv'
  <2>1. TypeOK'
    BY BoundsAssumption DEF LifeIInv, LifeTypeOK, TypeOK, Ms, PCs
  <2>2. Shape' /\ OneWorkerAtATime' /\ PictureFollowed' /\ OwnPicture'
    BY NullsAssumption
    DEF Shape, OneWorkerAtATime, PictureFollowed, OwnPicture, Published, IsIdle,
        OwnsOutput, Critical
  <2>3. NamesApart' /\ RetentionPolicy'
    BY DEF NamesApart, RetentionPolicy, OwnsOutput
  <2> QED BY <2>1, <2>2, <2>3 DEF IInv
<1>2. \A o \in orphans' : o \in orphans \/ o \in RunningWorkers
  OBVIOUS
<1>3. ASSUME NEW o \in RunningWorkers
      PROVE  \E c \in Conns : /\ o = WorkerOf(c)
                              /\ pc[c] \in {"running", "rendering"}
                              /\ out[c] \in OutputNames
                              /\ out[c][1] \in born .. clock
                              /\ infer = c
  <2>1. PICK c \in Conns : o = WorkerOf(c) /\ pc[c] \in {"running", "rendering"}
    BY DEF RunningWorkers
  <2>2. out[c] \in OutputNames /\ out[c] # None
    BY <2>1, NullsAssumption DEF LifeIInv, IInv, Shape, OwnsOutput
  <2> QED BY <2>1, <2>2 DEF LifeIInv, IInv, OneWorkerAtATime, Critical, NamesOfLives
<1>4. LifeTypeOK'
  <2>1. ASSUME NEW o \in RunningWorkers PROVE o \in OrphanType
    <3>1. PICK c \in Conns : o = WorkerOf(c) /\ pc[c] \in {"running", "rendering"}
                             /\ out[c] \in OutputNames
      BY <1>3, <2>1
    <3>2. rid[c] \in Ids
      BY <3>1, BoundsAssumption DEF LifeIInv, IInv, Shape, IsIdle, TypeOK, Ids
    <3> QED BY <3>1, <3>2, CrashesAssumption
         DEF LifeIInv, LifeTypeOK, TypeOK, WorkerOf, OrphanType
  <2>2. clock \in Ms /\ crashes + 1 \in 0 .. MaxCrashes
    BY CrashesAssumption DEF LifeIInv, LifeTypeOK, TypeOK
  <2> QED BY <1>1, <1>2, <2>1, <2>2 DEF LifeIInv, LifeTypeOK, TypeOK, IInv
<1>5. \A d \in archive : d.out[1] \in Nat /\ d.out[1] < born
  BY DEF LifeIInv, LifeTypeOK, NamesOfLives, OfThePast, OutputNames, Ms
<1>6. \A o \in orphans : o.out[1] \in Nat /\ o.out[1] < born
  BY DEF LifeIInv, LifeTypeOK, OrphanType, NamesOfLives, OfThePast, OutputNames, Ms
<1>7. \A d \in done : d.out[1] \in born .. clock
  BY DEF LifeIInv, NamesOfLives
<1>8. born \in Nat /\ clock \in Nat /\ born <= clock
  BY DEF LifeIInv, LifeTypeOK, TypeOK, NamesOfLives, Ms
<1>9. \A o \in RunningWorkers : o.out[1] \in born .. clock /\ o.life = crashes
  BY <1>3 DEF WorkerOf
<1>10. NamesOfLives'
  <2>1. ASSUME NEW o \in orphans', NEW d \in archive' PROVE o.out # d.out
    <3>1. CASE o \in RunningWorkers /\ d \in done
      <4>1. PICK c \in Conns : o = WorkerOf(c) /\ pc[c] \in {"running", "rendering"}
        BY <1>3, <3>1
      <4> QED BY <3>1, <4>1 DEF WorkerOf, LifeIInv, IInv, NamesApart, OwnsOutput
    <3>2. CASE o \in orphans /\ d \in archive
      BY <3>2 DEF LifeIInv, NamesOfLives
    <3>3. CASE o \in RunningWorkers /\ d \in archive
      BY <3>3, <1>5, <1>8, <1>9
    <3>4. CASE o \in orphans /\ d \in done
      BY <3>4, <1>6, <1>7, <1>8
    <3> QED BY <1>2, <2>1, <3>1, <3>2, <3>3, <3>4
  <2>2. \A o \in orphans' : o.out[1] <= clock
    BY <1>2, <1>6, <1>8, <1>9
  <2>3. \A d \in archive' : d.out[1] <= clock
    BY <1>5, <1>7, <1>8
  <2> QED BY <1>8, <2>1, <2>2, <2>3 DEF NamesOfLives, OfThePast
<1>11. ArchiveKept'
  BY DEF ArchiveKept, LifeIInv, IInv, RetentionPolicy, Retained
<1>12. OneOrphanPerLife' /\ \A o \in orphans' : o.life < crashes'
  <2>1. crashes \in Nat /\ \A o \in orphans : o.life \in Nat /\ o.life < crashes
    BY DEF LifeIInv, LifeTypeOK, OrphanType
  <2>2. \A o, p \in RunningWorkers : o = p
    BY <1>3
  <2> QED BY <1>2, <1>9, <2>1, <2>2 DEF LifeIInv, OneOrphanPerLife
<1> QED BY <1>1, <1>4, <1>10, <1>11, <1>12 DEF LifeIInv

\* A new life begins in a later millisecond than all names of the earlier ones.
LEMMA RestartStep == LifeIInv /\ Restart => LifeIInv'
<1> SUFFICES ASSUME LifeIInv, Restart PROVE LifeIInv'
  OBVIOUS
<1> USE DEF Restart
<1>1. UNCHANGED vars
  OBVIOUS
<1>2. IInv'
  BY <1>1, NextIInv DEF LifeIInv
<1>3. LifeTypeOK'
  BY <1>1, <1>2 DEF LifeIInv, LifeTypeOK, IInv, TypeOK, vars, shared
<1>4. \A c \in Conns : out[c] = None
  BY DEF LifeIInv, IInv, Shape, IsIdle, NamesOfLives
<1>5. /\ \A o \in orphans : o.out[1] \in Nat
      /\ \A d \in archive : d.out[1] \in Nat
      /\ born \in Nat /\ clock \in Nat
  BY DEF LifeIInv, LifeTypeOK, TypeOK, OrphanType, OutputNames, Ms
<1>6. NamesOfLives'
  BY <1>1, <1>4, <1>5
  DEF LifeIInv, NamesOfLives, OfThePast, vars, shared, locals, history
<1>7. ArchiveKept' /\ OneOrphanPerLife'
  BY <1>1 DEF LifeIInv, ArchiveKept, OneOrphanPerLife, Retained, vars, files
<1> QED BY <1>2, <1>3, <1>6, <1>7 DEF LifeIInv

\* A write by an orphan meets no picture of a living request and no finished one.
LEMMA OrphanWrite ==
  ASSUME LifeIInv, NEW o \in orphans, NEW v \in OutputContent,
         outputs' = [outputs EXCEPT ![o.out] = v],
         NEW p \in OrphanType, p.out = o.out, p.life = o.life,
         orphans' \subseteq (orphans \ {o}) \cup {p},
         UNCHANGED <<shared, uploads, received, pc, locals, history, up, born,
                     crashes, archive>>
  PROVE  LifeIInv'
<1> USE DEF shared, locals, history
<1>1. o \in OrphanType /\ o.out \in OutputNames
  BY DEF LifeIInv, LifeTypeOK, OrphanType
<1>0. up => o.out[1] \in Nat /\ born \in Nat /\ o.out[1] < born
  BY <1>1, BoundsAssumption
  DEF LifeIInv, LifeTypeOK, NamesOfLives, OfThePast, OutputNames, Ms
<1>2. ASSUME NEW c \in Conns, pc[c] \in OwnsOutput PROVE out[c] # o.out
  <2>1. up /\ out[c] # None
    BY <1>1, <1>2, NullsAssumption DEF LifeIInv, IInv, Shape, NamesOfLives, OwnsOutput
  <2>2. out[c][1] \in born .. clock
    BY <2>1 DEF LifeIInv, NamesOfLives
  <2> QED BY <1>0, <2>1, <2>2
<1>3. ASSUME NEW d \in done PROVE d.out # o.out
  <2>1. up /\ d.out[1] \in born .. clock
    BY DEF LifeIInv, NamesOfLives
  <2> QED BY <1>0, <2>1
<1>4. \A f \in OutputNames : f # o.out => outputs'[f] = outputs[f]
  BY DEF LifeIInv, LifeTypeOK, TypeOK
<1>5. TypeOK'
  BY <1>1 DEF LifeIInv, LifeTypeOK, TypeOK
<1>6. IInv'
  <2>1. Shape' /\ NamesApart' /\ OneWorkerAtATime'
    BY DEF LifeIInv, IInv, Shape, IsIdle, Renders, NamesApart, OneWorkerAtATime
  <2>2. OwnPicture'
    BY DEF LifeIInv, IInv, OwnPicture, Published, Renders
  <2>3. PictureFollowed'
    <3>1. \A c \in Conns : pc[c] \in OwnsOutput => outputs'[out[c]] = outputs[out[c]]
      BY <1>2, <1>4 DEF LifeIInv, IInv, Shape
    <3>2. PictureFollowed /\ UNCHANGED <<pc, out, rid, reply>>
      BY DEF LifeIInv, IInv
    <3> QED BY <3>1, <3>2 DEF PictureFollowed, OwnsOutput
  <2>4. RetentionPolicy'
    BY <1>3, <1>4 DEF LifeIInv, IInv, LifeTypeOK, TypeOK, RetentionPolicy, Retained
  <2> QED BY <1>5, <2>1, <2>2, <2>3, <2>4 DEF IInv
<1>7. /\ orphans' \subseteq OrphanType
      /\ \A q \in orphans' : \E r \in orphans :
           q.out = r.out /\ q.life = r.life /\ ((q = r /\ q # o) \/ (q = p /\ r = o))
  <2>1. ASSUME NEW q \in orphans'
        PROVE  /\ q \in OrphanType
               /\ \E r \in orphans : q.out = r.out /\ q.life = r.life
                                      /\ ((q = r /\ q # o) \/ (q = p /\ r = o))
    <3>1. CASE q \in orphans /\ q # o
      <4>1. q \in OrphanType
        BY <3>1 DEF LifeIInv, LifeTypeOK
      <4> QED BY <3>1, <4>1
    <3>2. CASE q = p
      BY <3>2
    <3> QED BY <3>1, <3>2
  <2> QED BY <2>1
<1>8. ArchiveKept'
  <2> SUFFICES ASSUME NEW d \in archive PROVE outputs'[d.out] = outputs[d.out]
    BY DEF LifeIInv, ArchiveKept, Retained
  <2>1. d.out \in OutputNames /\ d.out # o.out
    BY DEF LifeIInv, LifeTypeOK, NamesOfLives
  <2> QED BY <1>4, <2>1
<1>9. NamesOfLives'
  <2>1. UNCHANGED <<clock, pc, out, done, up, born, archive>>
    OBVIOUS
  <2>2. \A q \in orphans' :
          OfThePast(q.out)' /\ \A d \in archive : q.out # d.out
    BY <1>7, <2>1 DEF LifeIInv, NamesOfLives, OfThePast
  <2> QED BY <2>1, <2>2 DEF LifeIInv, NamesOfLives, OfThePast
<1>10. LifeTypeOK'
  BY <1>5, <1>7 DEF LifeIInv, LifeTypeOK
<1>11. OneOrphanPerLife' /\ \A q \in orphans' : q.life < crashes'
  BY <1>7 DEF LifeIInv, OneOrphanPerLife
<1> QED BY <1>6, <1>8, <1>9, <1>10, <1>11 DEF LifeIInv

\* What a worker can do without its server.
LEMMA OrphanStep ==
  ASSUME LifeIInv, NEW o \in orphans,
         OrphanReads(o) \/ OrphanSucceeds(o) \/ OrphanStops(o)
  PROVE  LifeIInv'
<1>0. o \in OrphanType
  BY DEF LifeIInv, LifeTypeOK
<1>1. CASE OrphanReads(o)
  <2> DEFINE x == IF o.image = None THEN None ELSE uploads[o.image]
  <2> DEFINE p == [o EXCEPT !.phase = "rendering", !.seen = x]
  <2>1. x \in UploadContent \cup {None}
    BY <1>0 DEF OrphanType, LifeIInv, LifeTypeOK, TypeOK
  <2>2. p \in OrphanType /\ p.out = o.out /\ p.life = o.life
    BY <1>0, <2>1 DEF OrphanType
  <2>3. orphans' = (orphans \ {o}) \cup {p}
    BY <1>1 DEF OrphanReads
  <2>4. Partial \in OutputContent
    BY ContentsTyped
  <2> HIDE DEF p
  <2> QED BY <1>1, <2>2, <2>3, <2>4, OrphanWrite DEF OrphanReads
<1>2. CASE OrphanSucceeds(o)
  <2>1. [request |-> o.request, input |-> o.seen] \in OutputContent
    BY <1>0, ContentsTyped DEF OrphanType
  <2>2. orphans' \subseteq (orphans \ {o}) \cup {o}
    BY <1>2 DEF OrphanSucceeds
  <2> QED BY <1>0, <1>2, <2>1, <2>2, OrphanWrite DEF OrphanSucceeds
<1>3. CASE OrphanStops(o)
  <2>1. UNCHANGED <<vars, up, born, crashes, archive>> /\ orphans' \subseteq orphans
    BY <1>3 DEF OrphanStops
  <2>2. IInv'
    BY <2>1, NextIInv DEF LifeIInv
  <2>3. LifeTypeOK'
    BY <2>1, <2>2 DEF LifeIInv, LifeTypeOK, IInv
  <2>4. NamesOfLives'
    BY <2>1
    DEF LifeIInv, NamesOfLives, OfThePast, vars, shared, locals, history
  <2>5. ArchiveKept'
    BY <2>1 DEF LifeIInv, ArchiveKept, Retained, vars, files
  <2>6. OneOrphanPerLife' /\ \A q \in orphans' : q.life < crashes'
    BY <2>1 DEF LifeIInv, OneOrphanPerLife
  <2> QED BY <2>2, <2>3, <2>4, <2>5, <2>6 DEF LifeIInv
<1> QED BY <1>1, <1>2, <1>3

\* LifeIInv holds in every reachable state of every life.
THEOREM LifeInvariance == LifeSpec => []LifeIInv
<1>1. LifeInit => LifeIInv
  BY InitLifeIInv
<1>2. LifeIInv /\ [LifeNext]_lifeVars => LifeIInv'
  <2> SUFFICES ASSUME LifeIInv, [LifeNext]_lifeVars PROVE LifeIInv'
    OBVIOUS
  <2>1. CASE Serve \/ TimePasses
    BY <2>1, ServingStep
  <2>2. CASE Crash
    BY <2>2, CrashStep
  <2>3. CASE Restart
    BY <2>3, RestartStep
  <2>4. ASSUME NEW o \in orphans, OrphanReads(o) \/ OrphanSucceeds(o) \/ OrphanStops(o)
        PROVE  LifeIInv'
    BY <2>4, OrphanStep
  <2>5. CASE UNCHANGED lifeVars
    <3>1. UNCHANGED vars /\ UNCHANGED life
      BY <2>5 DEF lifeVars
    <3>2. IInv'
      BY <3>1, NextIInv DEF LifeIInv
    <3>3. LifeTypeOK'
      BY <3>1, <3>2 DEF LifeIInv, LifeTypeOK, IInv, life
    <3>4. NamesOfLives'
      BY <3>1 DEF LifeIInv, NamesOfLives, OfThePast, vars, life, shared, locals, history
    <3>5. ArchiveKept' /\ OneOrphanPerLife' /\ \A o \in orphans' : o.life < crashes'
      BY <3>1 DEF LifeIInv, ArchiveKept, OneOrphanPerLife, Retained, vars, files, life
    <3> QED BY <3>2, <3>3, <3>4, <3>5 DEF LifeIInv
  <2> QED BY <2>1, <2>2, <2>3, <2>4, <2>5 DEF LifeNext
<1> QED BY <1>1, <1>2, PTL DEF LifeSpec

\* Every variable of a life, its orphans and what earlier lives kept have their types in
\* every life.
THEOREM LifeTypeCorrect == LifeSpec => []LifeTypeOK
<1>1. LifeIInv => LifeTypeOK
  BY DEF LifeIInv
<1> QED BY <1>1, LifeInvariance, PTL

\* Pictures of earlier lives stay as clean-up left them: no request, worker or
\* restart of a later life, and no orphan, touches their files.
THEOREM ArchiveAlwaysKept == LifeSpec => []ArchiveKept
<1>1. LifeIInv => ArchiveKept
  BY DEF LifeIInv
<1> QED BY <1>1, LifeInvariance, PTL

\* A life that ends leaves at most one worker behind, because the mutex admitted no
\* second one.
THEOREM OrphansBounded == LifeSpec => []OneOrphanPerLife
<1>1. LifeIInv => OneOrphanPerLife
  BY DEF LifeIInv
<1> QED BY <1>1, LifeInvariance, PTL

\* A step of a thread towards a file that holds a picture finds it and answers with
\* it, or fails to read the disk.
LEMMA FetchStep ==
  ASSUME IInv, [Next]_vars, NEW c \in Conns, NEW f \in OutputNames,
         outputs[f] \in Picture, target'[c] = f, pc'[c] # pc[c]
  PROVE  /\ pc[c] = "parsing" => pc'[c] = "fetching"
         /\ pc[c] = "fetching" =>
              \/ reply'[c] = Image(outputs[f])
              \/ DiskFaults /\ reply'[c] = Error(500)
<1> DEFINE Found == /\ pc[c] = "parsing" => pc'[c] = "fetching"
                    /\ pc[c] = "fetching" =>
                         \/ reply'[c] = Image(outputs[f])
                         \/ DiskFaults /\ reply'[c] = Error(500)
<1>0. outputs[f] # Absent /\ f # None
  BY NullsAssumption
<1> USE NullsAssumption, <1>0 DEF IInv, TypeOK, Goto, Answer, Shape, locals
<1>1. ASSUME NEW e \in Conns, Accept(e) PROVE Found
  BY <1>1 DEF Accept
<1>2. ASSUME NEW e \in Conns, Disconnect(e) PROVE Found
  BY <1>2 DEF Disconnect
<1>3. ASSUME NEW e \in Conns, Receive(e) PROVE Found
  BY <1>3 DEF Receive
<1>4. ASSUME NEW e \in Conns, Respond(e) PROVE Found
  BY <1>4 DEF Respond
<1>5. ASSUME NEW e \in Conns, AcquireInfer(e) PROVE Found
  BY <1>5 DEF AcquireInfer
<1>6. ASSUME NEW e \in Conns, Reject(e) PROVE Found
  BY <1>6 DEF Reject
<1>7. ASSUME NEW e \in Conns, ParseImageRequest(e) PROVE Found
  BY <1>7 DEF ParseImageRequest
<1>8. ASSUME NEW e \in Conns, OpenUpload(e) PROVE Found
  BY <1>8 DEF OpenUpload
<1>9. ASSUME NEW e \in Conns, WriteUpload(e) PROVE Found
  BY <1>9 DEF WriteUpload
<1>10. ASSUME NEW e \in Conns, PrepareFails(e) PROVE Found
  BY <1>10 DEF PrepareFails, Unwind
<1>11. ASSUME NEW e \in Conns, LaunchWorker(e) PROVE Found
  BY <1>11 DEF LaunchWorker
<1>12. ASSUME NEW e \in Conns, ReleaseInfer(e) PROVE Found
  BY <1>12 DEF ReleaseInfer
<1>13. ASSUME NEW e \in Conns, BuildResponse(e) PROVE Found
  BY <1>13 DEF BuildResponse
<1>14. ASSUME NEW e \in Conns, BuildFails(e) PROVE Found
  BY <1>14 DEF BuildFails
<1>15. ASSUME NEW e \in Conns, CleanOutput(e) PROVE Found
  BY <1>15 DEF CleanOutput, Serialize
<1>16. ASSUME NEW e \in Conns, CleanUploads(e) PROVE Found
  BY <1>16 DEF CleanUploads, Serialize
<1>17. ASSUME NEW e \in Conns, CatchUploads(e) PROVE Found
  BY <1>17 DEF CatchUploads
<1>18. ASSUME NEW e \in Conns, FindImage(e) PROVE Found
  BY <1>18 DEF FindImage
<1>19. ASSUME NEW e \in Conns, FetchImage(e) PROVE Found
  BY <1>19 DEF FetchImage
<1>20. ASSUME NEW e \in Conns, Chat(e) PROVE Found
  BY <1>20 DEF Chat
<1>21. ASSUME NEW e \in Conns, WorkerReads(e) PROVE Found
  BY <1>21 DEF WorkerReads
<1>22. ASSUME NEW e \in Conns, WorkerSucceeds(e) PROVE Found
  BY <1>22 DEF WorkerSucceeds
<1>23. ASSUME NEW e \in Conns, WorkerFails(e) PROVE Found
  BY <1>23 DEF WorkerFails, Unwind
<1>24. CASE Tick
  BY <1>24 DEF Tick
<1>25. CASE UNCHANGED vars
  BY <1>25 DEF vars
<1> QED BY <1>1, <1>2, <1>3, <1>4, <1>5, <1>6, <1>7, <1>8, <1>9, <1>10, <1>11, <1>12,
         <1>13, <1>14, <1>15, <1>16, <1>17, <1>18, <1>19, <1>20, <1>21, <1>22, <1>23, <1>24, <1>25
       DEF Next, Session, Handler, Worker

\* A GET of a picture that an earlier life retained is served from disk, as if the
\* server had never ended.
THEOREM ArchiveServed == LifeSpec => ArchivedPictureServed
<1>1. LifeIInv /\ [LifeNext]_lifeVars => ServeArchived
  <2> SUFFICES ASSUME LifeIInv, [LifeNext]_lifeVars, NEW c \in Conns, NEW d \in archive,
                      up', Retained(d), target'[c] = d.out, pc'[c] # pc[c]
               PROVE  /\ pc[c] = "parsing" => pc'[c] = "fetching"
                      /\ pc[c] = "fetching" =>
                           \/ reply'[c] = Image(d.picture)
                           \/ DiskFaults /\ reply'[c] = Error(500)
    BY DEF ServeArchived
  <2>1. CASE Serve \/ TimePasses
    <3>1. [Next]_vars
      BY <2>1 DEF Serve, TimePasses, Next
    <3>2. d.out \in OutputNames /\ d.picture \in Picture /\ outputs[d.out] = d.picture
      BY DEF LifeIInv, LifeTypeOK, ArchiveKept
    <3> QED BY <3>1, <3>2, FetchStep DEF LifeIInv
  <2>2. CASE Crash
    BY <2>2 DEF Crash
  <2>3. CASE Restart
    BY <2>3 DEF Restart, vars
  <2>4. ASSUME NEW o \in orphans, OrphanReads(o) \/ OrphanSucceeds(o) \/ OrphanStops(o)
        PROVE  pc' = pc
    BY <2>4 DEF OrphanReads, OrphanSucceeds, OrphanStops, vars
  <2>5. CASE UNCHANGED lifeVars
    BY <2>5 DEF lifeVars, vars
  <2> QED BY <2>1, <2>2, <2>3, <2>4, <2>5 DEF LifeNext
<1> QED BY <1>1, LifeInvariance, PTL DEF ArchivedPictureServed, LifeSpec

\* In every life, what the server promises of one life holds.
THEOREM EveryLifeSafe ==
  LifeSpec => [](OneWorkerAtATime /\ OwnPicture /\ RetentionPolicy)
<1>1. LifeIInv => OneWorkerAtATime /\ OwnPicture /\ RetentionPolicy
  BY DEF LifeIInv, IInv
<1> QED BY <1>1, LifeInvariance, PTL

\* No orphan writes the output file of a thread.
LEMMA OrphansApart ==
  ASSUME LifeIInv, NEW o \in orphans, NEW c \in Conns, pc[c] \in OwnsOutput
  PROVE  out[c] # o.out
<1>1. up /\ out[c] # None
  BY NullsAssumption DEF LifeIInv, IInv, Shape, NamesOfLives, OwnsOutput
<1>2. out[c][1] \in born .. clock
  BY <1>1 DEF LifeIInv, NamesOfLives
<1>3. o.out[1] \in Nat /\ born \in Nat /\ o.out[1] < born
  BY <1>1, BoundsAssumption
  DEF LifeIInv, LifeTypeOK, OrphanType, NamesOfLives, OfThePast, OutputNames, Ms
<1> QED BY <1>2, <1>3

\* What a life knows of its requests' images and of its generation info.
OfOneLife == InputIInv /\ InfoOfRenderedPicture

\* It goes with the threads.
LEMMA CrashForgets == Crash => OfOneLife'
<1> SUFFICES ASSUME Crash PROVE OfOneLife'
  OBVIOUS
<1>1. \A c \in Conns : pc'[c] = "closed" /\ upload'[c] = None
  BY DEF Crash, NoThreads
<1>2. ClashesNoted' /\ UploadsMatch' /\ InputFollowed'
  BY <1>1 DEF ClashesNoted, UploadsMatch, InputFollowed, IsIdle
<1>3. OwnInput'
  BY <1>1 DEF OwnInput, Published
<1>4. InfoOfRenderedPicture'
  BY DEF Crash, InfoOfRenderedPicture
<1> QED BY <1>2, <1>3, <1>4 DEF OfOneLife, InputIInv

\* A write to the file of an orphan is none to a file that a thread will read.
LEMMA OrphanWritesApart ==
  ASSUME LifeIInv, OfOneLife, NEW o \in orphans, NEW v,
         outputs' = [outputs EXCEPT ![o.out] = v],
         UNCHANGED <<shared, uploads, received, pc, locals, history>>
  PROVE  OfOneLife'
<1> USE DEF shared, locals, history
<1>1. \A c \in Conns : pc[c] \in OwnsOutput => outputs'[out[c]] = outputs[out[c]]
  BY OrphansApart DEF LifeIInv, LifeTypeOK, TypeOK, IInv, Shape, OwnsOutput
<1>2. ClashesNoted' /\ UploadsMatch' /\ OwnInput'
  BY DEF OfOneLife, InputIInv, ClashesNoted, UploadsMatch, OwnInput, IsIdle, Published,
         Renders
<1>3. InputFollowed'
  <2> SUFFICES ASSUME NEW c \in Conns, Followed(c) PROVE Followed(c)'
    BY DEF OfOneLife, InputIInv, InputFollowed
  <2> QED BY <1>1 DEF Followed, Whole, OwnsOutput
<1>4. InfoOfRenderedPicture'
  BY DEF OfOneLife, InfoOfRenderedPicture
<1> QED BY <1>2, <1>3, <1>4 DEF OfOneLife, InputIInv

\* OfOneLife holds in every life: threads keep it, orphans do not disturb it, a crash
\* leaves nothing to say.
THEOREM EveryLifeReports == LifeSpec => []OfOneLife
<1>1. LifeInit => OfOneLife
  BY InitInput DEF LifeInit, OfOneLife
<1>2. LifeIInv /\ OfOneLife /\ [LifeNext]_lifeVars => OfOneLife'
  <2> SUFFICES ASSUME LifeIInv, OfOneLife, [LifeNext]_lifeVars PROVE OfOneLife'
    OBVIOUS
  <2>1. ASSUME [Next]_vars PROVE OfOneLife'
    BY <2>1, NextInput, InfoStep DEF LifeIInv, OfOneLife
  <2>2. CASE Serve \/ TimePasses
    BY <2>1, <2>2 DEF Serve, TimePasses, Next
  <2>3. CASE Crash
    BY <2>3, CrashForgets
  <2>4. CASE Restart
    BY <2>1, <2>4 DEF Restart
  <2>5. ASSUME NEW o \in orphans, OrphanReads(o) \/ OrphanSucceeds(o) \/ OrphanStops(o)
        PROVE  OfOneLife'
    <3>1. CASE OrphanReads(o)
      BY <3>1, OrphanWritesApart DEF OrphanReads
    <3>2. CASE OrphanSucceeds(o)
      BY <3>2, OrphanWritesApart DEF OrphanSucceeds
    <3>3. CASE OrphanStops(o)
      BY <2>1, <3>3 DEF OrphanStops
    <3> QED BY <2>5, <3>1, <3>2, <3>3
  <2>6. CASE UNCHANGED lifeVars
    BY <2>1, <2>6 DEF lifeVars
  <2> QED BY <2>2, <2>3, <2>4, <2>5, <2>6 DEF LifeNext
<1> QED BY <1>1, <1>2, LifeInvariance, PTL DEF LifeSpec

\* Whatever earlier lives left in the output directory, and although their workers
\* may still be writing there: an edit is made from its own image, ...
THEOREM EveryLifeOwnsInput == LifeSpec => []OwnInput
<1>1. OfOneLife => OwnInput
  BY DEF OfOneLife, InputIInv
<1> QED BY <1>1, EveryLifeReports, PTL

\* ... and chat completions tell of a picture that this life rendered.
THEOREM EveryLifeInfo == LifeSpec => []InfoOfRenderedPicture
<1>1. OfOneLife => InfoOfRenderedPicture
  BY DEF OfOneLife
<1> QED BY <1>1, EveryLifeReports, PTL

\* A process that does not end runs as InferenceServer, so all that is proved of
\* InferenceServer holds of it.
THEOREM OneLife == MaxCrashes = 0 => (LifeSpec => Spec)
<1> SUFFICES ASSUME MaxCrashes = 0 PROVE LifeSpec => Spec
  OBVIOUS
<1>1. LifeInit => Init
  BY DEF LifeInit
<1>2. LifeIInv /\ [LifeNext]_lifeVars => [Next]_vars
  <2> SUFFICES ASSUME LifeIInv, [LifeNext]_lifeVars PROVE [Next]_vars
    OBVIOUS
  <2>1. crashes = 0
    BY DEF LifeIInv, LifeTypeOK
  <2>2. orphans = {}
    BY <2>1 DEF LifeIInv, LifeTypeOK, OrphanType
  <2>3. ~Crash
    BY <2>1 DEF Crash
  <2> QED BY <2>2, <2>3 DEF LifeNext, Serve, TimePasses, Restart, Next, lifeVars
<1> QED BY <1>1, <1>2, LifeInvariance, PTL DEF LifeSpec, Spec

\* As long as the process lives, it implements the abstract service.
THEOREM LifeImplementsService == MaxCrashes = 0 => (LifeSpec => ImplementsService)
  BY OneLife, ServiceImplemented

=============================================================================
