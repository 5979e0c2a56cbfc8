----------------------- MODULE InferenceServerProofs -----------------------
(***************************************************************************)
(* Proofs about InferenceServer, for any set of connections, any set of    *)
(* requests and any bounds.                                                *)
(*                                                                         *)
(* IInv is inductive: Init implies it (InitIInv), and each of its parts is *)
(* preserved by every step (TypeStep, ShapeStep, ...); the first theorems  *)
(* follow from it.  Given IInv, InputIInv is inductive too, and so is      *)
(* UploadsHeld where the code lets it be: the next theorems follow from    *)
(* these.                                                                  *)
(*                                                                         *)
(* Then the server implements ImageService: a thread's place in the code   *)
(* is its phase, the pictures that are on disk as their requests left them *)
(* are the gallery.  What a step does to them is known from IInv before    *)
(* and after it.                                                           *)
(***************************************************************************)
EXTENDS InferenceServer, TLAPS

\* The answers that handlers build are replies.
LEMMA RepliesTyped ==
  /\ \A p \in Picture \cup {Partial} : Image(p) \in Reply
  /\ \A i \in Ids \cup {None} : Info(i) \in Reply
  /\ Error(400) \in Reply /\ Error(404) \in Reply /\ Error(500) \in Reply
  BY DEF Image, Info, Error, Reply

\* The names made from the clock and the job counter name files.
LEMMA NamesTyped ==
  /\ \A m \in Ms : UploadName(m) \in UploadNames
  /\ \A m \in Ms, j \in Ids : OutputName(m, j) \in OutputNames
  BY DEF UploadName, OutputName, UploadNames, OutputNames

\* What threads and workers write is file content.
LEMMA ContentsTyped ==
  /\ Ids \cup {Absent, Partial} \subseteq UploadContent
  /\ Picture \cup {Absent, Partial} \subseteq OutputContent
  /\ \A i \in Ids, x \in UploadContent \cup {None} :
       [request |-> i, input |-> x] \in Picture
  BY DEF UploadContent, OutputContent, Picture

\* IInv holds initially: nobody is connected and there are no files.
LEMMA InitIInv == Init => IInv
<1> SUFFICES ASSUME Init PROVE IInv
  OBVIOUS
<1> USE BoundsAssumption, NullsAssumption, ContentsTyped DEF Init
<1>1. TypeOK
  BY DEF TypeOK, Ids, Ms, PCs
<1>2. Shape /\ PictureFollowed /\ OwnPicture
  BY DEF Shape, PictureFollowed, OwnPicture, Published, IsIdle, OwnsOutput
<1>3. NamesApart /\ OneWorkerAtATime /\ RetentionPolicy
  BY DEF NamesApart, OneWorkerAtATime, RetentionPolicy, Critical
<1> QED BY <1>1, <1>2, <1>3 DEF IInv

\* Every step keeps the types.
LEMMA TypeStep == IInv /\ [Next]_vars => TypeOK'
<1> SUFFICES ASSUME IInv, [Next]_vars PROVE TypeOK'
  OBVIOUS
<1> USE RequestsAssumption, BoundsAssumption, NullsAssumption, RepliesTyped,
     NamesTyped, ContentsTyped
  DEF IInv, TypeOK, Goto, Answer, shared, files, locals, history, Shape, PCs,
     Critical
<1>1. ASSUME NEW c \in Conns, Accept(c) PROVE TypeOK'
  BY <1>1 DEF Accept
<1>2. ASSUME NEW c \in Conns, Disconnect(c) PROVE TypeOK'
  BY <1>2 DEF Disconnect
<1>3. ASSUME NEW c \in Conns, Receive(c) PROVE TypeOK'
  BY <1>3 DEF Receive, Ids, IsIdle
<1>4. ASSUME NEW c \in Conns, Respond(c) PROVE TypeOK'
  BY <1>4 DEF Respond
<1>5. ASSUME NEW c \in Conns, AcquireInfer(c) PROVE TypeOK'
  BY <1>5 DEF AcquireInfer
<1>6. ASSUME NEW c \in Conns, Reject(c) PROVE TypeOK'
  BY <1>6 DEF Reject
<1>7. ASSUME NEW c \in Conns, ParseImageRequest(c) PROVE TypeOK'
  BY <1>7 DEF ParseImageRequest
<1>8. ASSUME NEW c \in Conns, OpenUpload(c) PROVE TypeOK'
  BY <1>8 DEF OpenUpload, Ms
<1>9. ASSUME NEW c \in Conns, WriteUpload(c) PROVE TypeOK'
  <2>1. rid[c] \in Ids /\ upload[c] \in UploadNames
    BY <1>9 DEF WriteUpload, IsIdle, Ids
  <2>2. WrittenUpload(c) \subseteq UploadContent
    BY <2>1 DEF WrittenUpload
  <2> QED BY <1>9, <2>2 DEF WriteUpload
<1>10. ASSUME NEW c \in Conns, PrepareFails(c) PROVE TypeOK'
  BY <1>10 DEF PrepareFails, Unwind
<1>11. ASSUME NEW c \in Conns, LaunchWorker(c) PROVE TypeOK'
  BY <1>11 DEF LaunchWorker, Ids
<1>12. ASSUME NEW c \in Conns, ReleaseInfer(c) PROVE TypeOK'
  BY <1>12 DEF ReleaseInfer
<1>13. ASSUME NEW c \in Conns, BuildResponse(c) PROVE TypeOK'
  <2>1. rid[c] \in Ids
    BY <1>13 DEF BuildResponse, IsIdle, Ids
  <2>2. outputs[out[c]] \in Picture
    BY <1>13 DEF BuildResponse, PictureFollowed
  <2> QED BY <1>13, <2>1, <2>2 DEF BuildResponse
<1>14. ASSUME NEW c \in Conns, BuildFails(c) PROVE TypeOK'
  BY <1>14 DEF BuildFails
<1>15. ASSUME NEW c \in Conns, CleanOutput(c) PROVE TypeOK'
  <2>1. /\ out[c] \in OutputNames
        /\ req[c].url \in BOOLEAN
        /\ reply[c].image \in Picture
    BY <1>15 DEF CleanOutput, PictureFollowed, OwnsOutput, IsIdle, RequestType
  <2>2. done' \subseteq [out : OutputNames, url : BOOLEAN, picture : Picture]
    BY <1>15, <2>1 DEF CleanOutput
  <2>3. outputs' \in [OutputNames -> OutputContent]
    BY <1>15, <2>1 DEF CleanOutput
  <2>4. pc' \in [Conns -> PCs] /\ reply' \in [Conns -> Reply \cup {None}]
    BY <1>15 DEF CleanOutput, Serialize
  <2> QED BY <1>15, <2>2, <2>3, <2>4 DEF CleanOutput
<1>16. ASSUME NEW c \in Conns, CleanUploads(c) PROVE TypeOK'
  BY <1>16 DEF CleanUploads, Serialize, RemoveUploads
<1>17. ASSUME NEW c \in Conns, CatchUploads(c) PROVE TypeOK'
  BY <1>17 DEF CatchUploads, RemoveUploads
<1>18. ASSUME NEW c \in Conns, FindImage(c) PROVE TypeOK'
  BY <1>18 DEF FindImage, OutputContent
<1>19. ASSUME NEW c \in Conns, FetchImage(c) PROVE TypeOK'
  BY <1>19 DEF FetchImage, OutputContent
<1>20. ASSUME NEW c \in Conns, Chat(c) PROVE TypeOK'
  BY <1>20 DEF Chat
<1>21. ASSUME NEW c \in Conns, WorkerReads(c) PROVE TypeOK'
  BY <1>21 DEF WorkerReads, OwnsOutput
<1>22. ASSUME NEW c \in Conns, WorkerSucceeds(c) PROVE TypeOK'
  BY <1>22 DEF WorkerSucceeds, IsIdle, OwnsOutput, Ids
<1>23. ASSUME NEW c \in Conns, WorkerFails(c) PROVE TypeOK'
  BY <1>23 DEF WorkerFails, Unwind
<1>24. CASE Tick
  BY <1>24 DEF Tick, Ms
<1>25. CASE UNCHANGED vars
  BY <1>25 DEF vars
<1> HIDE DEF IInv, TypeOK, Shape, PCs, Critical
<1>26. ASSUME NEW c \in Conns, Handler(c) PROVE TypeOK'
  BY <1>6, <1>7, <1>8, <1>9, <1>10, <1>11, <1>12, <1>13, <1>14, <1>15, <1>16, <1>17, <1>18,
     <1>19, <1>20, <1>26 DEF Handler
<1>27. ASSUME NEW c \in Conns, Session(c) \/ Worker(c) PROVE TypeOK'
  BY <1>1, <1>2, <1>3, <1>4, <1>21, <1>22, <1>23, <1>27 DEF Session, Worker
<1> QED BY <1>5, <1>24, <1>25, <1>26, <1>27 DEF Next

\* Every step leaves the locals of a thread what its next step expects.
LEMMA ShapeStep == IInv /\ [Next]_vars => Shape'
<1> SUFFICES ASSUME IInv, [Next]_vars PROVE Shape'
  OBVIOUS
<1> USE RequestsAssumption, BoundsAssumption, NullsAssumption, RepliesTyped,
     NamesTyped, ContentsTyped
  DEF IInv, TypeOK, Goto, Answer, shared, files, locals, history, Shape,
     IsIdle, OwnsOutput, Renders, PCs, Critical
<1>1. ASSUME NEW c \in Conns, Accept(c) PROVE Shape'
  BY <1>1 DEF Accept
<1>2. ASSUME NEW c \in Conns, Disconnect(c) PROVE Shape'
  BY <1>2 DEF Disconnect
<1>3. ASSUME NEW c \in Conns, Receive(c) PROVE Shape'
  BY <1>3 DEF Receive, RequestType, WellFormed
<1>4. ASSUME NEW c \in Conns, Respond(c) PROVE Shape'
  BY <1>4 DEF Respond
<1>5. ASSUME NEW c \in Conns, AcquireInfer(c) PROVE Shape'
  BY <1>5 DEF AcquireInfer
<1>6. ASSUME NEW c \in Conns, Reject(c) PROVE Shape'
  BY <1>6 DEF Reject
<1>7. ASSUME NEW c \in Conns, ParseImageRequest(c) PROVE Shape'
  BY <1>7 DEF ParseImageRequest
<1>8. ASSUME NEW c \in Conns, OpenUpload(c) PROVE Shape'
  BY <1>8 DEF OpenUpload, RequestType, WellFormed, Ms
<1>9. ASSUME NEW c \in Conns, WriteUpload(c) PROVE Shape'
  BY <1>9 DEF WriteUpload
<1>10. ASSUME NEW c \in Conns, PrepareFails(c) PROVE Shape'
  BY <1>10 DEF PrepareFails, Unwind
<1>11. ASSUME NEW c \in Conns, LaunchWorker(c) PROVE Shape'
  BY <1>11 DEF LaunchWorker, Ids
<1>12. ASSUME NEW c \in Conns, ReleaseInfer(c) PROVE Shape'
  BY <1>12 DEF ReleaseInfer
<1>13. ASSUME NEW c \in Conns, BuildResponse(c) PROVE Shape'
  BY <1>13 DEF BuildResponse
<1>14. ASSUME NEW c \in Conns, BuildFails(c) PROVE Shape'
  BY <1>14 DEF BuildFails
<1>15. ASSUME NEW c \in Conns, CleanOutput(c) PROVE Shape'
  BY <1>15 DEF CleanOutput, Serialize, KeepOutput
<1>16. ASSUME NEW c \in Conns, CleanUploads(c) PROVE Shape'
  BY <1>16 DEF CleanUploads, Serialize, RemoveUploads
<1>17. ASSUME NEW c \in Conns, CatchUploads(c) PROVE Shape'
  BY <1>17 DEF CatchUploads, RemoveUploads
<1>18. ASSUME NEW c \in Conns, FindImage(c) PROVE Shape'
  BY <1>18 DEF FindImage
<1>19. ASSUME NEW c \in Conns, FetchImage(c) PROVE Shape'
  BY <1>19 DEF FetchImage
<1>20. ASSUME NEW c \in Conns, Chat(c) PROVE Shape'
  BY <1>20 DEF Chat
<1>21. ASSUME NEW c \in Conns, WorkerReads(c) PROVE Shape'
  BY <1>21 DEF WorkerReads
<1>22. ASSUME NEW c \in Conns, WorkerSucceeds(c) PROVE Shape'
  BY <1>22 DEF WorkerSucceeds
<1>23. ASSUME NEW c \in Conns, WorkerFails(c) PROVE Shape'
  BY <1>23 DEF WorkerFails, Unwind
<1>24. CASE Tick
  BY <1>24 DEF Tick
<1>25. CASE UNCHANGED vars
  BY <1>25 DEF vars
<1> HIDE DEF IInv, TypeOK, Shape, Renders, PCs, Critical
<1>26. ASSUME NEW c \in Conns, Handler(c) PROVE Shape'
  BY <1>6, <1>7, <1>8, <1>9, <1>10, <1>11, <1>12, <1>13, <1>14, <1>15, <1>16, <1>17, <1>18,
     <1>19, <1>20, <1>26 DEF Handler
<1>27. ASSUME NEW c \in Conns, Session(c) \/ Worker(c) PROVE Shape'
  BY <1>1, <1>2, <1>3, <1>4, <1>21, <1>22, <1>23, <1>27 DEF Session, Worker
<1> QED BY <1>5, <1>24, <1>25, <1>26, <1>27 DEF Next

\* g_infer_mutex is taken only when free and given back on every way out.
LEMMA WorkerStep == IInv /\ [Next]_vars => OneWorkerAtATime'
<1> SUFFICES ASSUME IInv, [Next]_vars PROVE OneWorkerAtATime'
  OBVIOUS
<1> USE RequestsAssumption, BoundsAssumption, NullsAssumption, RepliesTyped,
     NamesTyped, ContentsTyped
  DEF IInv, TypeOK, Goto, Answer, shared, files, locals, history,
     OneWorkerAtATime, Critical, PCs
<1>1. ASSUME NEW c \in Conns, Accept(c) PROVE OneWorkerAtATime'
  BY <1>1 DEF Accept
<1>2. ASSUME NEW c \in Conns, Disconnect(c) PROVE OneWorkerAtATime'
  BY <1>2 DEF Disconnect
<1>3. ASSUME NEW c \in Conns, Receive(c) PROVE OneWorkerAtATime'
  BY <1>3 DEF Receive
<1>4. ASSUME NEW c \in Conns, Respond(c) PROVE OneWorkerAtATime'
  BY <1>4 DEF Respond
<1>5. ASSUME NEW c \in Conns, AcquireInfer(c) PROVE OneWorkerAtATime'
  BY <1>5 DEF AcquireInfer
<1>6. ASSUME NEW c \in Conns, Reject(c) PROVE OneWorkerAtATime'
  BY <1>6 DEF Reject
<1>7. ASSUME NEW c \in Conns, ParseImageRequest(c) PROVE OneWorkerAtATime'
  BY <1>7 DEF ParseImageRequest
<1>8. ASSUME NEW c \in Conns, OpenUpload(c) PROVE OneWorkerAtATime'
  BY <1>8 DEF OpenUpload
<1>9. ASSUME NEW c \in Conns, WriteUpload(c) PROVE OneWorkerAtATime'
  BY <1>9 DEF WriteUpload
<1>10. ASSUME NEW c \in Conns, PrepareFails(c) PROVE OneWorkerAtATime'
  BY <1>10 DEF PrepareFails, Unwind
<1>11. ASSUME NEW c \in Conns, LaunchWorker(c) PROVE OneWorkerAtATime'
  BY <1>11 DEF LaunchWorker
<1>12. ASSUME NEW c \in Conns, ReleaseInfer(c) PROVE OneWorkerAtATime'
  BY <1>12 DEF ReleaseInfer
<1>13. ASSUME NEW c \in Conns, BuildResponse(c) PROVE OneWorkerAtATime'
  BY <1>13 DEF BuildResponse
<1>14. ASSUME NEW c \in Conns, BuildFails(c) PROVE OneWorkerAtATime'
  BY <1>14 DEF BuildFails
<1>15. ASSUME NEW c \in Conns, CleanOutput(c) PROVE OneWorkerAtATime'
  BY <1>15 DEF CleanOutput, Serialize, KeepOutput
<1>16. ASSUME NEW c \in Conns, CleanUploads(c) PROVE OneWorkerAtATime'
  BY <1>16 DEF CleanUploads, Serialize, RemoveUploads
<1>17. ASSUME NEW c \in Conns, CatchUploads(c) PROVE OneWorkerAtATime'
  BY <1>17 DEF CatchUploads, RemoveUploads
<1>18. ASSUME NEW c \in Conns, FindImage(c) PROVE OneWorkerAtATime'
  BY <1>18 DEF FindImage
<1>19. ASSUME NEW c \in Conns, FetchImage(c) PROVE OneWorkerAtATime'
  BY <1>19 DEF FetchImage
<1>20. ASSUME NEW c \in Conns, Chat(c) PROVE OneWorkerAtATime'
  BY <1>20 DEF Chat
<1>21. ASSUME NEW c \in Conns, WorkerReads(c) PROVE OneWorkerAtATime'
  BY <1>21 DEF WorkerReads
<1>22. ASSUME NEW c \in Conns, WorkerSucceeds(c) PROVE OneWorkerAtATime'
  BY <1>22 DEF WorkerSucceeds
<1>23. ASSUME NEW c \in Conns, WorkerFails(c) PROVE OneWorkerAtATime'
  BY <1>23 DEF WorkerFails, Unwind
<1>24. CASE Tick
  BY <1>24 DEF Tick
<1>25. CASE UNCHANGED vars
  BY <1>25 DEF vars
<1> HIDE DEF IInv, TypeOK, OneWorkerAtATime, Critical, PCs
<1>26. ASSUME NEW c \in Conns, Handler(c) PROVE OneWorkerAtATime'
  BY <1>6, <1>7, <1>8, <1>9, <1>10, <1>11, <1>12, <1>13, <1>14, <1>15, <1>16, <1>17, <1>18,
     <1>19, <1>20, <1>26 DEF Handler
<1>27. ASSUME NEW c \in Conns, Session(c) \/ Worker(c) PROVE OneWorkerAtATime'
  BY <1>1, <1>2, <1>3, <1>4, <1>21, <1>22, <1>23, <1>27 DEF Session, Worker
<1> QED BY <1>5, <1>24, <1>25, <1>26, <1>27 DEF Next

\* Job numbers tell the output files apart.
LEMMA NamesStep == IInv /\ [Next]_vars => NamesApart'
<1> SUFFICES ASSUME IInv, [Next]_vars PROVE NamesApart'
  OBVIOUS
<1> USE RequestsAssumption, BoundsAssumption, NullsAssumption, RepliesTyped,
     NamesTyped, ContentsTyped
  DEF IInv, TypeOK, Goto, Answer, shared, files, locals, history, NamesApart,
     Shape, IsIdle, OwnsOutput
<1>1. ASSUME NEW c \in Conns, Accept(c) PROVE NamesApart'
  BY <1>1 DEF Accept
<1>2. ASSUME NEW c \in Conns, Disconnect(c) PROVE NamesApart'
  BY <1>2 DEF Disconnect
<1>3. ASSUME NEW c \in Conns, Receive(c) PROVE NamesApart'
  BY <1>3 DEF Receive
<1>4. ASSUME NEW c \in Conns, Respond(c) PROVE NamesApart'
  BY <1>4 DEF Respond
<1>5. ASSUME NEW c \in Conns, AcquireInfer(c) PROVE NamesApart'
  BY <1>5 DEF AcquireInfer
<1>6. ASSUME NEW c \in Conns, Reject(c) PROVE NamesApart'
  BY <1>6 DEF Reject
<1>7. ASSUME NEW c \in Conns, ParseImageRequest(c) PROVE NamesApart'
  BY <1>7 DEF ParseImageRequest
<1>8. ASSUME NEW c \in Conns, OpenUpload(c) PROVE NamesApart'
  BY <1>8 DEF OpenUpload
<1>9. ASSUME NEW c \in Conns, WriteUpload(c) PROVE NamesApart'
  BY <1>9 DEF WriteUpload
<1>10. ASSUME NEW c \in Conns, PrepareFails(c) PROVE NamesApart'
  BY <1>10 DEF PrepareFails, Unwind
<1>11. ASSUME NEW c \in Conns, LaunchWorker(c) PROVE NamesApart'
  BY <1>11 DEF LaunchWorker, OutputName, OutputNames, Ids, Ms
<1>12. ASSUME NEW c \in Conns, ReleaseInfer(c) PROVE NamesApart'
  BY <1>12 DEF ReleaseInfer
<1>13. ASSUME NEW c \in Conns, BuildResponse(c) PROVE NamesApart'
  BY <1>13 DEF BuildResponse
<1>14. ASSUME NEW c \in Conns, BuildFails(c) PROVE NamesApart'
  BY <1>14 DEF BuildFails
<1>15. ASSUME NEW c \in Conns, CleanOutput(c) PROVE NamesApart'
  <2>1. out[c][2] \in 1 .. jobs
    BY <1>15 DEF CleanOutput
  <2>2. \A e \in done' : e \in done \/ e.out = out[c]
    BY <1>15 DEF CleanOutput
  <2>3. pc'[c] \notin OwnsOutput /\ \A d \in Conns : d # c => pc'[d] = pc[d]
    BY <1>15 DEF CleanOutput, Serialize
  <2>4. UNCHANGED <<out, jobs>>
    BY <1>15 DEF CleanOutput
  <2>5. \A d \in Conns : d # c /\ pc[d] \in OwnsOutput => out[d][2] # out[c][2]
    BY <1>15 DEF CleanOutput
  <2>6. \A e \in done', d \in Conns : pc'[d] \in OwnsOutput => out'[d][2] # e.out[2]
    BY <2>2, <2>3, <2>4, <2>5
  <2> QED BY <2>1, <2>2, <2>4, <2>6
<1>16. ASSUME NEW c \in Conns, CleanUploads(c) PROVE NamesApart'
  BY <1>16 DEF CleanUploads, Serialize, RemoveUploads
<1>17. ASSUME NEW c \in Conns, CatchUploads(c) PROVE NamesApart'
  BY <1>17 DEF CatchUploads, RemoveUploads
<1>18. ASSUME NEW c \in Conns, FindImage(c) PROVE NamesApart'
  BY <1>18 DEF FindImage
<1>19. ASSUME NEW c \in Conns, FetchImage(c) PROVE NamesApart'
  BY <1>19 DEF FetchImage
<1>20. ASSUME NEW c \in Conns, Chat(c) PROVE NamesApart'
  BY <1>20 DEF Chat
<1>21. ASSUME NEW c \in Conns, WorkerReads(c) PROVE NamesApart'
  BY <1>21 DEF WorkerReads
<1>22. ASSUME NEW c \in Conns, WorkerSucceeds(c) PROVE NamesApart'
  BY <1>22 DEF WorkerSucceeds
<1>23. ASSUME NEW c \in Conns, WorkerFails(c) PROVE NamesApart'
  BY <1>23 DEF WorkerFails, Unwind
<1>24. CASE Tick
  BY <1>24 DEF Tick
<1>25. CASE UNCHANGED vars
  BY <1>25 DEF vars
<1> HIDE DEF IInv, TypeOK, NamesApart, Shape
<1>26. ASSUME NEW c \in Conns, Handler(c) PROVE NamesApart'
  BY <1>6, <1>7, <1>8, <1>9, <1>10, <1>11, <1>12, <1>13, <1>14, <1>15, <1>16, <1>17, <1>18,
     <1>19, <1>20, <1>26 DEF Handler
<1>27. ASSUME NEW c \in Conns, Session(c) \/ Worker(c) PROVE NamesApart'
  BY <1>1, <1>2, <1>3, <1>4, <1>21, <1>22, <1>23, <1>27 DEF Session, Worker
<1> QED BY <1>5, <1>24, <1>25, <1>26, <1>27 DEF Next

\* A request's picture stays its own until its answer is built: no other thread
\* names its file.
LEMMA PictureStep == IInv /\ [Next]_vars => PictureFollowed'
<1> SUFFICES ASSUME IInv, [Next]_vars PROVE PictureFollowed'
  OBVIOUS
<1> USE RequestsAssumption, BoundsAssumption, NullsAssumption, RepliesTyped,
     NamesTyped, ContentsTyped
  DEF IInv, TypeOK, Goto, Answer, shared, files, locals, history,
     PictureFollowed, NamesApart, Shape, IsIdle, OwnsOutput
<1>1. ASSUME NEW c \in Conns, Accept(c) PROVE PictureFollowed'
  BY <1>1 DEF Accept
<1>2. ASSUME NEW c \in Conns, Disconnect(c) PROVE PictureFollowed'
  BY <1>2 DEF Disconnect
<1>3. ASSUME NEW c \in Conns, Receive(c) PROVE PictureFollowed'
  BY <1>3 DEF Receive
<1>4. ASSUME NEW c \in Conns, Respond(c) PROVE PictureFollowed'
  BY <1>4 DEF Respond
<1>5. ASSUME NEW c \in Conns, AcquireInfer(c) PROVE PictureFollowed'
  BY <1>5 DEF AcquireInfer
<1>6. ASSUME NEW c \in Conns, Reject(c) PROVE PictureFollowed'
  BY <1>6 DEF Reject, Error
<1>7. ASSUME NEW c \in Conns, ParseImageRequest(c) PROVE PictureFollowed'
  BY <1>7 DEF ParseImageRequest
<1>8. ASSUME NEW c \in Conns, OpenUpload(c) PROVE PictureFollowed'
  BY <1>8 DEF OpenUpload
<1>9. ASSUME NEW c \in Conns, WriteUpload(c) PROVE PictureFollowed'
  BY <1>9 DEF WriteUpload
<1>10. ASSUME NEW c \in Conns, PrepareFails(c) PROVE PictureFollowed'
  BY <1>10 DEF PrepareFails, Unwind, Error
<1>11. ASSUME NEW c \in Conns, LaunchWorker(c) PROVE PictureFollowed'
  BY <1>11 DEF LaunchWorker
<1>12. ASSUME NEW c \in Conns, ReleaseInfer(c) PROVE PictureFollowed'
  BY <1>12 DEF ReleaseInfer
<1>13. ASSUME NEW c \in Conns, BuildResponse(c) PROVE PictureFollowed'
  BY <1>13 DEF BuildResponse, Image, Picture
<1>14. ASSUME NEW c \in Conns, BuildFails(c) PROVE PictureFollowed'
  BY <1>14 DEF BuildFails
<1>15. ASSUME NEW c \in Conns, CleanOutput(c) PROVE PictureFollowed'
  <2>1. \A d \in Conns : d # c /\ pc[d] \in OwnsOutput => out[d] # out[c]
    BY <1>15 DEF CleanOutput
  <2>2. \A d \in Conns : d # c =>
          /\ pc'[d] = pc[d] /\ reply'[d] = reply[d] /\ out'[d] = out[d]
          /\ rid'[d] = rid[d]
          /\ pc[d] \in OwnsOutput => outputs'[out[d]] = outputs[out[d]]
    BY <1>15, <2>1 DEF CleanOutput, Serialize
  <2>3. pc'[c] \in {"sweeping", "responding"} /\ rid'[c] = rid[c]
    BY <1>15 DEF CleanOutput, Serialize
  <2>4. /\ pc'[c] = "sweeping" => reply'[c] = reply[c]
        /\ reply'[c] \in Reply
    BY <1>15 DEF CleanOutput, Serialize
  <2> QED BY <1>15, <2>2, <2>3, <2>4 DEF CleanOutput
<1>16. ASSUME NEW c \in Conns, CleanUploads(c) PROVE PictureFollowed'
  BY <1>16 DEF CleanUploads, Serialize, RemoveUploads
<1>17. ASSUME NEW c \in Conns, CatchUploads(c) PROVE PictureFollowed'
  BY <1>17 DEF CatchUploads, RemoveUploads
<1>18. ASSUME NEW c \in Conns, FindImage(c) PROVE PictureFollowed'
  BY <1>18 DEF FindImage
<1>19. ASSUME NEW c \in Conns, FetchImage(c) PROVE PictureFollowed'
  BY <1>19 DEF FetchImage, OutputContent
<1>20. ASSUME NEW c \in Conns, Chat(c) PROVE PictureFollowed'
  BY <1>20 DEF Chat
<1>21. ASSUME NEW c \in Conns, WorkerReads(c) PROVE PictureFollowed'
  <2>1. \A d \in Conns : d # c /\ pc[d] \in OwnsOutput => out[d] # out[c]
    BY <1>21 DEF WorkerReads
  <2> QED BY <1>21, <2>1 DEF WorkerReads
<1>22. ASSUME NEW c \in Conns, WorkerSucceeds(c) PROVE PictureFollowed'
  <2>1. \A d \in Conns : d # c /\ pc[d] \in OwnsOutput => out[d] # out[c]
    BY <1>22 DEF WorkerSucceeds
  <2>2. out[c] \in OutputNames /\ rid[c] \in Ids
    BY <1>22 DEF WorkerSucceeds, Ids
  <2>3. outputs'[out[c]] = [request |-> rid[c], input |-> seen[c]]
    BY <1>22, <2>2 DEF WorkerSucceeds
  <2>4. outputs'[out[c]] \in Picture
    BY <2>2, <2>3
  <2> QED BY <1>22, <2>1, <2>3, <2>4 DEF WorkerSucceeds
<1>23. ASSUME NEW c \in Conns, WorkerFails(c) PROVE PictureFollowed'
  BY <1>23 DEF WorkerFails, Unwind, Error
<1>24. CASE Tick
  BY <1>24 DEF Tick
<1>25. CASE UNCHANGED vars
  BY <1>25 DEF vars
<1> HIDE DEF IInv, TypeOK, PictureFollowed, NamesApart, Shape
<1>26. ASSUME NEW c \in Conns, Handler(c) PROVE PictureFollowed'
  BY <1>6, <1>7, <1>8, <1>9, <1>10, <1>11, <1>12, <1>13, <1>14, <1>15, <1>16, <1>17, <1>18,
     <1>19, <1>20, <1>26 DEF Handler
<1>27. ASSUME NEW c \in Conns, Session(c) \/ Worker(c) PROVE PictureFollowed'
  BY <1>1, <1>2, <1>3, <1>4, <1>21, <1>22, <1>23, <1>27 DEF Session, Worker
<1> QED BY <1>5, <1>24, <1>25, <1>26, <1>27 DEF Next

\* An image answer is the picture its thread built.
LEMMA OwnStep == IInv /\ [Next]_vars => OwnPicture'
<1> SUFFICES ASSUME IInv, [Next]_vars PROVE OwnPicture'
  OBVIOUS
<1> USE RequestsAssumption, BoundsAssumption, NullsAssumption, RepliesTyped,
     NamesTyped, ContentsTyped
  DEF IInv, TypeOK, Goto, Answer, shared, files, locals, history, OwnPicture,
     PictureFollowed, Published, Shape, IsIdle, OwnsOutput, Renders, Error,
     Image, Info
<1>1. ASSUME NEW c \in Conns, Accept(c) PROVE OwnPicture'
  BY <1>1 DEF Accept
<1>2. ASSUME NEW c \in Conns, Disconnect(c) PROVE OwnPicture'
  BY <1>2 DEF Disconnect
<1>3. ASSUME NEW c \in Conns, Receive(c) PROVE OwnPicture'
  BY <1>3 DEF Receive
<1>4. ASSUME NEW c \in Conns, Respond(c) PROVE OwnPicture'
  BY <1>4 DEF Respond
<1>5. ASSUME NEW c \in Conns, AcquireInfer(c) PROVE OwnPicture'
  BY <1>5 DEF AcquireInfer
<1>6. ASSUME NEW c \in Conns, Reject(c) PROVE OwnPicture'
  BY <1>6 DEF Reject
<1>7. ASSUME NEW c \in Conns, ParseImageRequest(c) PROVE OwnPicture'
  BY <1>7 DEF ParseImageRequest
<1>8. ASSUME NEW c \in Conns, OpenUpload(c) PROVE OwnPicture'
  BY <1>8 DEF OpenUpload
<1>9. ASSUME NEW c \in Conns, WriteUpload(c) PROVE OwnPicture'
  BY <1>9 DEF WriteUpload
<1>10. ASSUME NEW c \in Conns, PrepareFails(c) PROVE OwnPicture'
  BY <1>10 DEF PrepareFails, Unwind
<1>11. ASSUME NEW c \in Conns, LaunchWorker(c) PROVE OwnPicture'
  BY <1>11 DEF LaunchWorker
<1>12. ASSUME NEW c \in Conns, ReleaseInfer(c) PROVE OwnPicture'
  BY <1>12 DEF ReleaseInfer
<1>13. ASSUME NEW c \in Conns, BuildResponse(c) PROVE OwnPicture'
  BY <1>13 DEF BuildResponse
<1>14. ASSUME NEW c \in Conns, BuildFails(c) PROVE OwnPicture'
  BY <1>14 DEF BuildFails
<1>15. ASSUME NEW c \in Conns, CleanOutput(c) PROVE OwnPicture'
  BY <1>15 DEF CleanOutput, Serialize, KeepOutput
<1>16. ASSUME NEW c \in Conns, CleanUploads(c) PROVE OwnPicture'
  BY <1>16 DEF CleanUploads, Serialize, RemoveUploads
<1>17. ASSUME NEW c \in Conns, CatchUploads(c) PROVE OwnPicture'
  BY <1>17 DEF CatchUploads, RemoveUploads
<1>18. ASSUME NEW c \in Conns, FindImage(c) PROVE OwnPicture'
  BY <1>18 DEF FindImage
<1>19. ASSUME NEW c \in Conns, FetchImage(c) PROVE OwnPicture'
  BY <1>19 DEF FetchImage
<1>20. ASSUME NEW c \in Conns, Chat(c) PROVE OwnPicture'
  BY <1>20 DEF Chat
<1>21. ASSUME NEW c \in Conns, WorkerReads(c) PROVE OwnPicture'
  BY <1>21 DEF WorkerReads
<1>22. ASSUME NEW c \in Conns, WorkerSucceeds(c) PROVE OwnPicture'
  BY <1>22 DEF WorkerSucceeds
<1>23. ASSUME NEW c \in Conns, WorkerFails(c) PROVE OwnPicture'
  BY <1>23 DEF WorkerFails, Unwind
<1>24. CASE Tick
  BY <1>24 DEF Tick
<1>25. CASE UNCHANGED vars
  BY <1>25 DEF vars
<1> HIDE DEF IInv, TypeOK, OwnPicture, PictureFollowed, Published, Shape, Renders, Error, Image, Info
<1>26. ASSUME NEW c \in Conns, Handler(c) PROVE OwnPicture'
  BY <1>6, <1>7, <1>8, <1>9, <1>10, <1>11, <1>12, <1>13, <1>14, <1>15, <1>16, <1>17, <1>18,
     <1>19, <1>20, <1>26 DEF Handler
<1>27. ASSUME NEW c \in Conns, Session(c) \/ Worker(c) PROVE OwnPicture'
  BY <1>1, <1>2, <1>3, <1>4, <1>21, <1>22, <1>23, <1>27 DEF Session, Worker
<1> QED BY <1>5, <1>24, <1>25, <1>26, <1>27 DEF Next

\* No step touches the file of a finished request.
LEMMA RetentionStep == IInv /\ [Next]_vars => RetentionPolicy'
<1> SUFFICES ASSUME IInv, [Next]_vars PROVE RetentionPolicy'
  OBVIOUS
<1> USE RequestsAssumption, BoundsAssumption, NullsAssumption, RepliesTyped,
     NamesTyped, ContentsTyped
  DEF IInv, TypeOK, Goto, Answer, shared, files, locals, history,
     RetentionPolicy, Retained, PictureFollowed, NamesApart, Shape, IsIdle,
     OwnsOutput
<1>1. ASSUME NEW c \in Conns, Accept(c) PROVE RetentionPolicy'
  BY <1>1 DEF Accept
<1>2. ASSUME NEW c \in Conns, Disconnect(c) PROVE RetentionPolicy'
  BY <1>2 DEF Disconnect
<1>3. ASSUME NEW c \in Conns, Receive(c) PROVE RetentionPolicy'
  BY <1>3 DEF Receive
<1>4. ASSUME NEW c \in Conns, Respond(c) PROVE RetentionPolicy'
  BY <1>4 DEF Respond
<1>5. ASSUME NEW c \in Conns, AcquireInfer(c) PROVE RetentionPolicy'
  BY <1>5 DEF AcquireInfer
<1>6. ASSUME NEW c \in Conns, Reject(c) PROVE RetentionPolicy'
  BY <1>6 DEF Reject
<1>7. ASSUME NEW c \in Conns, ParseImageRequest(c) PROVE RetentionPolicy'
  BY <1>7 DEF ParseImageRequest
<1>8. ASSUME NEW c \in Conns, OpenUpload(c) PROVE RetentionPolicy'
  BY <1>8 DEF OpenUpload
<1>9. ASSUME NEW c \in Conns, WriteUpload(c) PROVE RetentionPolicy'
  BY <1>9 DEF WriteUpload
<1>10. ASSUME NEW c \in Conns, PrepareFails(c) PROVE RetentionPolicy'
  BY <1>10 DEF PrepareFails, Unwind
<1>11. ASSUME NEW c \in Conns, LaunchWorker(c) PROVE RetentionPolicy'
  BY <1>11 DEF LaunchWorker
<1>12. ASSUME NEW c \in Conns, ReleaseInfer(c) PROVE RetentionPolicy'
  BY <1>12 DEF ReleaseInfer
<1>13. ASSUME NEW c \in Conns, BuildResponse(c) PROVE RetentionPolicy'
  BY <1>13 DEF BuildResponse
<1>14. ASSUME NEW c \in Conns, BuildFails(c) PROVE RetentionPolicy'
  BY <1>14 DEF BuildFails
<1>15. ASSUME NEW c \in Conns, CleanOutput(c) PROVE RetentionPolicy'
  BY <1>15 DEF CleanOutput, Serialize, KeepOutput, RequestType, WellFormed
<1>16. ASSUME NEW c \in Conns, CleanUploads(c) PROVE RetentionPolicy'
  BY <1>16 DEF CleanUploads, Serialize, RemoveUploads
<1>17. ASSUME NEW c \in Conns, CatchUploads(c) PROVE RetentionPolicy'
  BY <1>17 DEF CatchUploads, RemoveUploads
<1>18. ASSUME NEW c \in Conns, FindImage(c) PROVE RetentionPolicy'
  BY <1>18 DEF FindImage
<1>19. ASSUME NEW c \in Conns, FetchImage(c) PROVE RetentionPolicy'
  BY <1>19 DEF FetchImage
<1>20. ASSUME NEW c \in Conns, Chat(c) PROVE RetentionPolicy'
  BY <1>20 DEF Chat
<1>21. ASSUME NEW c \in Conns, WorkerReads(c) PROVE RetentionPolicy'
  BY <1>21 DEF WorkerReads
<1>22. ASSUME NEW c \in Conns, WorkerSucceeds(c) PROVE RetentionPolicy'
  BY <1>22 DEF WorkerSucceeds
<1>23. ASSUME NEW c \in Conns, WorkerFails(c) PROVE RetentionPolicy'
  BY <1>23 DEF WorkerFails, Unwind
<1>24. CASE Tick
  BY <1>24 DEF Tick
<1>25. CASE UNCHANGED vars
  BY <1>25 DEF vars
<1> HIDE DEF IInv, TypeOK, RetentionPolicy, Retained, PictureFollowed, NamesApart, Shape
<1>26. ASSUME NEW c \in Conns, Handler(c) PROVE RetentionPolicy'
  BY <1>6, <1>7, <1>8, <1>9, <1>10, <1>11, <1>12, <1>13, <1>14, <1>15, <1>16, <1>17, <1>18,
     <1>19, <1>20, <1>26 DEF Handler
<1>27. ASSUME NEW c \in Conns, Session(c) \/ Worker(c) PROVE RetentionPolicy'
  BY <1>1, <1>2, <1>3, <1>4, <1>21, <1>22, <1>23, <1>27 DEF Session, Worker
<1> QED BY <1>5, <1>24, <1>25, <1>26, <1>27 DEF Next

\* IInv is preserved by every step.
LEMMA NextIInv == IInv /\ [Next]_vars => IInv'
  BY TypeStep, ShapeStep, WorkerStep, NamesStep, PictureStep, OwnStep,
     RetentionStep DEF IInv

\* IInv holds in every reachable state.
THEOREM Invariance == Spec => []IInv
<1>1. Init => IInv
  BY InitIInv
<1>2. IInv /\ [Next]_vars => IInv'
  BY NextIInv
<1> QED BY <1>1, <1>2, PTL DEF Spec

\* The variables keep their types, whatever the threads do.
THEOREM TypeCorrect == Spec => []TypeOK
<1>1. IInv => TypeOK
  BY DEF IInv
<1> QED BY <1>1, Invariance, PTL

\* One worker at a time, run by the owner of g_infer_mutex, on every path of
\* run_worker and its callers.
THEOREM MutualExclusion == Spec => []OneWorkerAtATime
<1>1. IInv => OneWorkerAtATime
  BY DEF IInv
<1> QED BY <1>1, Invariance, PTL

\* An image answer carries the picture of the request it answers.
THEOREM OwnPictureAnswered == Spec => []OwnPicture
<1>1. IInv => OwnPicture
  BY DEF IInv
<1> QED BY <1>1, Invariance, PTL

\* Once its request has cleaned up, a picture is kept intact for ever or gone,
\* as keep_images and the response format say.
THEOREM Retention == Spec => []RetentionPolicy
<1>1. IInv => RetentionPolicy
  BY DEF IInv
<1> QED BY <1>1, Invariance, PTL

\* If disk reads do not fail, a step of a GET for a retained picture finds the
\* file, or reads the picture.
LEMMA ServeStep == ~DiskFaults /\ IInv /\ [Next]_vars => ServeRetained
<1> SUFFICES ASSUME ~DiskFaults, IInv, [Next]_vars,
                    NEW c \in Conns, NEW d \in done,
                    Retained(d), target'[c] = d.out, pc'[c] # pc[c],
                    pc[c] \in {"parsing", "fetching"}
             PROVE  /\ pc[c] = "parsing" => pc'[c] = "fetching"
                    /\ pc[c] = "fetching" => reply'[c] = Image(d.picture)
  BY DEF ServeRetained
<1> DEFINE Served == /\ pc[c] = "parsing" => pc'[c] = "fetching"
                     /\ pc[c] = "fetching" => reply'[c] = Image(d.picture)
<1>0. outputs[d.out] = d.picture /\ d.picture # Absent /\ d.out # None
  BY NullsAssumption DEF IInv, TypeOK, RetentionPolicy
<1> USE NullsAssumption, <1>0 DEF IInv, TypeOK, Goto, Answer, Shape
<1>1. ASSUME NEW e \in Conns, Accept(e) PROVE Served
  BY <1>1 DEF Accept, locals
<1>2. ASSUME NEW e \in Conns, Disconnect(e) PROVE Served
  BY <1>2 DEF Disconnect, locals
<1>3. ASSUME NEW e \in Conns, Receive(e) PROVE Served
  BY <1>3 DEF Receive, locals
<1>4. ASSUME NEW e \in Conns, Respond(e) PROVE Served
  BY <1>4 DEF Respond, locals
<1>5. ASSUME NEW e \in Conns, AcquireInfer(e) PROVE Served
  BY <1>5 DEF AcquireInfer, locals
<1>6. ASSUME NEW e \in Conns, Reject(e) PROVE Served
  BY <1>6 DEF Reject, locals
<1>7. ASSUME NEW e \in Conns, ParseImageRequest(e) PROVE Served
  BY <1>7 DEF ParseImageRequest, locals
<1>8. ASSUME NEW e \in Conns, OpenUpload(e) PROVE Served
  BY <1>8 DEF OpenUpload, locals
<1>9. ASSUME NEW e \in Conns, WriteUpload(e) PROVE Served
  BY <1>9 DEF WriteUpload, locals
<1>10. ASSUME NEW e \in Conns, PrepareFails(e) PROVE Served
  BY <1>10 DEF PrepareFails, locals, Unwind
<1>11. ASSUME NEW e \in Conns, LaunchWorker(e) PROVE Served
  BY <1>11 DEF LaunchWorker, locals
<1>12. ASSUME NEW e \in Conns, ReleaseInfer(e) PROVE Served
  BY <1>12 DEF ReleaseInfer, locals
<1>13. ASSUME NEW e \in Conns, BuildResponse(e) PROVE Served
  BY <1>13 DEF BuildResponse, locals
<1>14. ASSUME NEW e \in Conns, BuildFails(e) PROVE Served
  BY <1>14 DEF BuildFails, locals
<1>15. ASSUME NEW e \in Conns, CleanOutput(e) PROVE Served
  BY <1>15 DEF CleanOutput, locals, Serialize
<1>16. ASSUME NEW e \in Conns, CleanUploads(e) PROVE Served
  BY <1>16 DEF CleanUploads, locals, Serialize
<1>17. ASSUME NEW e \in Conns, CatchUploads(e) PROVE Served
  BY <1>17 DEF CatchUploads, locals
<1>18. ASSUME NEW e \in Conns, FindImage(e) PROVE Served
  BY <1>18 DEF FindImage, locals
<1>19. ASSUME NEW e \in Conns, FetchImage(e) PROVE Served
  BY <1>19 DEF FetchImage, locals
<1>20. ASSUME NEW e \in Conns, Chat(e) PROVE Served
  BY <1>20 DEF Chat, locals
<1>21. ASSUME NEW e \in Conns, WorkerReads(e) PROVE Served
  BY <1>21 DEF WorkerReads, locals
<1>22. ASSUME NEW e \in Conns, WorkerSucceeds(e) PROVE Served
  BY <1>22 DEF WorkerSucceeds, locals
<1>23. ASSUME NEW e \in Conns, WorkerFails(e) PROVE Served
  BY <1>23 DEF WorkerFails, locals, Unwind
<1>24. CASE Tick
  BY <1>24 DEF Tick
<1>25. CASE UNCHANGED vars
  BY <1>25 DEF vars
<1> QED BY <1>1, <1>2, <1>3, <1>4, <1>5, <1>6, <1>7, <1>8, <1>9, <1>10, <1>11, <1>12,
         <1>13, <1>14, <1>15, <1>16, <1>17, <1>18, <1>19, <1>20, <1>21, <1>22, <1>23, <1>24, <1>25
       DEF Next, Session, Handler, Worker

\* If disk reads do not fail, a retained picture is found and served whole.
THEOREM RetainedServed == ~DiskFaults => (Spec => RetainedPictureServed)
<1> SUFFICES ASSUME ~DiskFaults PROVE Spec => RetainedPictureServed
  OBVIOUS
<1>1. IInv /\ [Next]_vars => ServeRetained
  BY ServeStep
<1> QED BY <1>1, Invariance, PTL DEF RetainedPictureServed, Spec

\* The generation info is remembered with a picture in hand, which clean-up records.
LEMMA InfoStep == IInv /\ InfoOfRenderedPicture /\ [Next]_vars => InfoOfRenderedPicture'
<1> SUFFICES ASSUME IInv, InfoOfRenderedPicture, [Next]_vars PROVE InfoOfRenderedPicture'
  OBVIOUS
<1> USE NullsAssumption
    DEF IInv, TypeOK, Goto, Answer, shared, files, locals, history, InfoOfRenderedPicture
<1>1. ASSUME NEW c \in Conns, Accept(c) PROVE InfoOfRenderedPicture'
  BY <1>1 DEF Accept
<1>2. ASSUME NEW c \in Conns, Disconnect(c) PROVE InfoOfRenderedPicture'
  BY <1>2 DEF Disconnect
<1>3. ASSUME NEW c \in Conns, Receive(c) PROVE InfoOfRenderedPicture'
  BY <1>3 DEF Receive
<1>4. ASSUME NEW c \in Conns, Respond(c) PROVE InfoOfRenderedPicture'
  BY <1>4 DEF Respond
<1>5. ASSUME NEW c \in Conns, AcquireInfer(c) PROVE InfoOfRenderedPicture'
  BY <1>5 DEF AcquireInfer
<1>6. ASSUME NEW c \in Conns, Reject(c) PROVE InfoOfRenderedPicture'
  BY <1>6 DEF Reject
<1>7. ASSUME NEW c \in Conns, ParseImageRequest(c) PROVE InfoOfRenderedPicture'
  BY <1>7 DEF ParseImageRequest
<1>8. ASSUME NEW c \in Conns, OpenUpload(c) PROVE InfoOfRenderedPicture'
  BY <1>8 DEF OpenUpload
<1>9. ASSUME NEW c \in Conns, WriteUpload(c) PROVE InfoOfRenderedPicture'
  BY <1>9 DEF WriteUpload
<1>10. ASSUME NEW c \in Conns, PrepareFails(c) PROVE InfoOfRenderedPicture'
  BY <1>10 DEF PrepareFails, Unwind
<1>11. ASSUME NEW c \in Conns, LaunchWorker(c) PROVE InfoOfRenderedPicture'
  BY <1>11 DEF LaunchWorker
<1>12. ASSUME NEW c \in Conns, ReleaseInfer(c) PROVE InfoOfRenderedPicture'
  BY <1>12 DEF ReleaseInfer
<1>13. ASSUME NEW c \in Conns, BuildResponse(c) PROVE InfoOfRenderedPicture'
  BY <1>13 DEF BuildResponse
<1>14. ASSUME NEW c \in Conns, BuildFails(c) PROVE InfoOfRenderedPicture'
  BY <1>14 DEF BuildFails
<1>15. ASSUME NEW c \in Conns, CleanOutput(c) PROVE InfoOfRenderedPicture'
  <2>1. reply[c].image.request = rid[c]
    BY <1>15 DEF CleanOutput, PictureFollowed
  <2> DEFINE e == [out |-> out[c], url |-> req[c].url, picture |-> reply[c].image]
  <2>2. e \in done' /\ e.picture.request = rid[c]
    BY <1>15, <2>1 DEF CleanOutput
  <2> HIDE DEF e
  <2>3. done \subseteq done' /\ info' = info /\ rid' = rid
        /\ \A d \in Conns : d # c => pc'[d] = pc[d]
    BY <1>15 DEF CleanOutput, Serialize
  <2> QED BY <2>2, <2>3
<1>16. ASSUME NEW c \in Conns, CleanUploads(c) PROVE InfoOfRenderedPicture'
  BY <1>16 DEF CleanUploads, Serialize, RemoveUploads
<1>17. ASSUME NEW c \in Conns, CatchUploads(c) PROVE InfoOfRenderedPicture'
  BY <1>17 DEF CatchUploads, RemoveUploads
<1>18. ASSUME NEW c \in Conns, FindImage(c) PROVE InfoOfRenderedPicture'
  BY <1>18 DEF FindImage
<1>19. ASSUME NEW c \in Conns, FetchImage(c) PROVE InfoOfRenderedPicture'
  BY <1>19 DEF FetchImage
<1>20. ASSUME NEW c \in Conns, Chat(c) PROVE InfoOfRenderedPicture'
  BY <1>20 DEF Chat
<1>21. ASSUME NEW c \in Conns, WorkerReads(c) PROVE InfoOfRenderedPicture'
  BY <1>21 DEF WorkerReads
<1>22. ASSUME NEW c \in Conns, WorkerSucceeds(c) PROVE InfoOfRenderedPicture'
  BY <1>22 DEF WorkerSucceeds
<1>23. ASSUME NEW c \in Conns, WorkerFails(c) PROVE InfoOfRenderedPicture'
  BY <1>23 DEF WorkerFails, Unwind
<1>24. CASE Tick
  BY <1>24 DEF Tick
<1>25. CASE UNCHANGED vars
  BY <1>25 DEF vars
<1> QED BY <1>1, <1>2, <1>3, <1>4, <1>5, <1>6, <1>7, <1>8, <1>9, <1>10, <1>11, <1>12,
         <1>13, <1>14, <1>15, <1>16, <1>17, <1>18, <1>19, <1>20, <1>21, <1>22, <1>23, <1>24, <1>25
       DEF Next, Session, Handler, Worker

\* A second thread that takes an upload name notes the clash.
LEMMA ClashStep == IInv /\ InputIInv /\ [Next]_vars => ClashesNoted' /\ clashed \subseteq clashed'
<1> SUFFICES ASSUME IInv, InputIInv, [Next]_vars
             PROVE  ClashesNoted' /\ clashed \subseteq clashed'
  OBVIOUS
<1> USE NullsAssumption
    DEF IInv, InputIInv, TypeOK, Goto, Answer, shared, files, locals, history, ClashesNoted
<1>1. ASSUME NEW c \in Conns, Accept(c) PROVE ClashesNoted' /\ clashed \subseteq clashed'
  BY <1>1 DEF Accept
<1>2. ASSUME NEW c \in Conns, Disconnect(c) PROVE ClashesNoted' /\ clashed \subseteq clashed'
  BY <1>2 DEF Disconnect
<1>3. ASSUME NEW c \in Conns, Receive(c) PROVE ClashesNoted' /\ clashed \subseteq clashed'
  BY <1>3 DEF Receive
<1>4. ASSUME NEW c \in Conns, Respond(c) PROVE ClashesNoted' /\ clashed \subseteq clashed'
  BY <1>4 DEF Respond
<1>5. ASSUME NEW c \in Conns, AcquireInfer(c) PROVE ClashesNoted' /\ clashed \subseteq clashed'
  BY <1>5 DEF AcquireInfer
<1>6. ASSUME NEW c \in Conns, Reject(c) PROVE ClashesNoted' /\ clashed \subseteq clashed'
  BY <1>6 DEF Reject
<1>7. ASSUME NEW c \in Conns, ParseImageRequest(c) PROVE ClashesNoted' /\ clashed \subseteq clashed'
  BY <1>7 DEF ParseImageRequest
<1>8. ASSUME NEW c \in Conns, OpenUpload(c) PROVE ClashesNoted' /\ clashed \subseteq clashed'
  BY <1>8 DEF OpenUpload
<1>9. ASSUME NEW c \in Conns, WriteUpload(c) PROVE ClashesNoted' /\ clashed \subseteq clashed'
  BY <1>9 DEF WriteUpload
<1>10. ASSUME NEW c \in Conns, PrepareFails(c) PROVE ClashesNoted' /\ clashed \subseteq clashed'
  BY <1>10 DEF PrepareFails, Unwind
<1>11. ASSUME NEW c \in Conns, LaunchWorker(c) PROVE ClashesNoted' /\ clashed \subseteq clashed'
  BY <1>11 DEF LaunchWorker
<1>12. ASSUME NEW c \in Conns, ReleaseInfer(c) PROVE ClashesNoted' /\ clashed \subseteq clashed'
  BY <1>12 DEF ReleaseInfer
<1>13. ASSUME NEW c \in Conns, BuildResponse(c) PROVE ClashesNoted' /\ clashed \subseteq clashed'
  BY <1>13 DEF BuildResponse
<1>14. ASSUME NEW c \in Conns, BuildFails(c) PROVE ClashesNoted' /\ clashed \subseteq clashed'
  BY <1>14 DEF BuildFails
<1>15. ASSUME NEW c \in Conns, CleanOutput(c) PROVE ClashesNoted' /\ clashed \subseteq clashed'
  BY <1>15 DEF CleanOutput, Serialize
<1>16. ASSUME NEW c \in Conns, CleanUploads(c) PROVE ClashesNoted' /\ clashed \subseteq clashed'
  BY <1>16 DEF CleanUploads, Serialize, RemoveUploads
<1>17. ASSUME NEW c \in Conns, CatchUploads(c) PROVE ClashesNoted' /\ clashed \subseteq clashed'
  BY <1>17 DEF CatchUploads, RemoveUploads
<1>18. ASSUME NEW c \in Conns, FindImage(c) PROVE ClashesNoted' /\ clashed \subseteq clashed'
  BY <1>18 DEF FindImage
<1>19. ASSUME NEW c \in Conns, FetchImage(c) PROVE ClashesNoted' /\ clashed \subseteq clashed'
  BY <1>19 DEF FetchImage
<1>20. ASSUME NEW c \in Conns, Chat(c) PROVE ClashesNoted' /\ clashed \subseteq clashed'
  BY <1>20 DEF Chat
<1>21. ASSUME NEW c \in Conns, WorkerReads(c) PROVE ClashesNoted' /\ clashed \subseteq clashed'
  BY <1>21 DEF WorkerReads
<1>22. ASSUME NEW c \in Conns, WorkerSucceeds(c) PROVE ClashesNoted' /\ clashed \subseteq clashed'
  BY <1>22 DEF WorkerSucceeds
<1>23. ASSUME NEW c \in Conns, WorkerFails(c) PROVE ClashesNoted' /\ clashed \subseteq clashed'
  BY <1>23 DEF WorkerFails, Unwind
<1>24. CASE Tick
  BY <1>24 DEF Tick
<1>25. CASE UNCHANGED vars
  BY <1>25 DEF vars
<1> QED BY <1>1, <1>2, <1>3, <1>4, <1>5, <1>6, <1>7, <1>8, <1>9, <1>10, <1>11, <1>12,
         <1>13, <1>14, <1>15, <1>16, <1>17, <1>18, <1>19, <1>20, <1>21, <1>22, <1>23, <1>24, <1>25
       DEF Next, Session, Handler, Worker

\* Requests with an image save it, and no others do.
LEMMA MatchStep == IInv /\ InputIInv /\ [Next]_vars => UploadsMatch'
<1> SUFFICES ASSUME IInv, InputIInv, [Next]_vars PROVE UploadsMatch'
  OBVIOUS
<1> USE RequestsAssumption, NullsAssumption, NamesTyped
    DEF IInv, InputIInv, TypeOK, Goto, Answer, shared, files, locals, history,
        UploadsMatch, Shape, IsIdle, RequestType, WellFormed, PCs, Critical, Renders
<1>1. ASSUME NEW c \in Conns, Accept(c) PROVE UploadsMatch'
  BY <1>1 DEF Accept
<1>2. ASSUME NEW c \in Conns, Disconnect(c) PROVE UploadsMatch'
  BY <1>2 DEF Disconnect
<1>3. ASSUME NEW c \in Conns, Receive(c) PROVE UploadsMatch'
  BY <1>3 DEF Receive
<1>4. ASSUME NEW c \in Conns, Respond(c) PROVE UploadsMatch'
  BY <1>4 DEF Respond
<1>5. ASSUME NEW c \in Conns, AcquireInfer(c) PROVE UploadsMatch'
  BY <1>5 DEF AcquireInfer
<1>6. ASSUME NEW c \in Conns, Reject(c) PROVE UploadsMatch'
  BY <1>6 DEF Reject
<1>7. ASSUME NEW c \in Conns, ParseImageRequest(c) PROVE UploadsMatch'
  BY <1>7 DEF ParseImageRequest
<1>8. ASSUME NEW c \in Conns, OpenUpload(c) PROVE UploadsMatch'
  BY <1>8 DEF OpenUpload, UploadName, Ms
<1>9. ASSUME NEW c \in Conns, WriteUpload(c) PROVE UploadsMatch'
  BY <1>9 DEF WriteUpload
<1>10. ASSUME NEW c \in Conns, PrepareFails(c) PROVE UploadsMatch'
  BY <1>10 DEF PrepareFails, Unwind
<1>11. ASSUME NEW c \in Conns, LaunchWorker(c) PROVE UploadsMatch'
  BY <1>11 DEF LaunchWorker
<1>12. ASSUME NEW c \in Conns, ReleaseInfer(c) PROVE UploadsMatch'
  BY <1>12 DEF ReleaseInfer
<1>13. ASSUME NEW c \in Conns, BuildResponse(c) PROVE UploadsMatch'
  BY <1>13 DEF BuildResponse
<1>14. ASSUME NEW c \in Conns, BuildFails(c) PROVE UploadsMatch'
  BY <1>14 DEF BuildFails
<1>15. ASSUME NEW c \in Conns, CleanOutput(c) PROVE UploadsMatch'
  BY <1>15 DEF CleanOutput, Serialize
<1>16. ASSUME NEW c \in Conns, CleanUploads(c) PROVE UploadsMatch'
  BY <1>16 DEF CleanUploads, Serialize, RemoveUploads
<1>17. ASSUME NEW c \in Conns, CatchUploads(c) PROVE UploadsMatch'
  BY <1>17 DEF CatchUploads, RemoveUploads
<1>18. ASSUME NEW c \in Conns, FindImage(c) PROVE UploadsMatch'
  BY <1>18 DEF FindImage
<1>19. ASSUME NEW c \in Conns, FetchImage(c) PROVE UploadsMatch'
  BY <1>19 DEF FetchImage
<1>20. ASSUME NEW c \in Conns, Chat(c) PROVE UploadsMatch'
  BY <1>20 DEF Chat
<1>21. ASSUME NEW c \in Conns, WorkerReads(c) PROVE UploadsMatch'
  BY <1>21 DEF WorkerReads
<1>22. ASSUME NEW c \in Conns, WorkerSucceeds(c) PROVE UploadsMatch'
  BY <1>22 DEF WorkerSucceeds
<1>23. ASSUME NEW c \in Conns, WorkerFails(c) PROVE UploadsMatch'
  BY <1>23 DEF WorkerFails, Unwind
<1>24. CASE Tick
  BY <1>24 DEF Tick
<1>25. CASE UNCHANGED vars
  BY <1>25 DEF vars
<1> QED BY <1>1, <1>2, <1>3, <1>4, <1>5, <1>6, <1>7, <1>8, <1>9, <1>10, <1>11, <1>12,
         <1>13, <1>14, <1>15, <1>16, <1>17, <1>18, <1>19, <1>20, <1>21, <1>22, <1>23, <1>24, <1>25
       DEF Next, Session, Handler, Worker

\* No other thread touches an upload whose name is one thread's, or the output file
\* that it named; and what is read from them is kept until the answer.
LEMMA InputStep == IInv /\ InputIInv /\ [Next]_vars => InputFollowed'
<1> SUFFICES ASSUME IInv, InputIInv, [Next]_vars,
                    NEW d \in Conns, upload'[d] # None, upload'[d] \notin clashed'
             PROVE  Followed(d)'
  BY DEF InputFollowed
<1>a. clashed \subseteq clashed'
  BY ClashStep
<1>b. upload'[d] = upload[d] =>
        /\ Followed(d)
        /\ \A c \in Conns \ {d} : upload[c] # upload[d]
  BY <1>a DEF InputIInv, InputFollowed, ClashesNoted
<1>c. pc[d] \in OwnsOutput =>
        out[d] \in OutputNames /\ \A c \in Conns \ {d} : out[c] # None => out[c] # out[d]
  BY NullsAssumption DEF IInv, Shape, OwnsOutput, NamesApart
<1> USE <1>b, <1>c, NullsAssumption
    DEF IInv, TypeOK, Goto, Answer, shared, files, locals, history,
        Followed, Whole, OwnsOutput
<1>1. ASSUME NEW c \in Conns, Accept(c) PROVE Followed(d)'
  BY <1>1 DEF Accept
<1>2. ASSUME NEW c \in Conns, Disconnect(c) PROVE Followed(d)'
  BY <1>2 DEF Disconnect
<1>3. ASSUME NEW c \in Conns, Receive(c) PROVE Followed(d)'
  BY <1>3 DEF Receive
<1>4. ASSUME NEW c \in Conns, Respond(c) PROVE Followed(d)'
  BY <1>4 DEF Respond
<1>5. ASSUME NEW c \in Conns, AcquireInfer(c) PROVE Followed(d)'
  BY <1>5 DEF AcquireInfer
<1>6. ASSUME NEW c \in Conns, Reject(c) PROVE Followed(d)'
  BY <1>6 DEF Reject
<1>7. ASSUME NEW c \in Conns, ParseImageRequest(c) PROVE Followed(d)'
  BY <1>7 DEF ParseImageRequest, Shape
<1>8. ASSUME NEW c \in Conns, OpenUpload(c) PROVE Followed(d)'
  <2>1. CASE d = c
    BY <1>8, <2>1 DEF OpenUpload, UploadName, UploadNames
  <2>2. CASE d # c
    <3>1. upload'[d] = upload[d] /\ upload[d] # UploadName(clock)
      BY <1>8, <2>2 DEF OpenUpload
    <3> QED BY <1>8, <2>2, <3>1 DEF OpenUpload
  <2> QED BY <2>1, <2>2
<1>9. ASSUME NEW c \in Conns, WriteUpload(c) PROVE Followed(d)'
  <2>1. upload[c] \in UploadNames
    BY <1>9 DEF WriteUpload, Shape
  <2>2. CASE d = c
    <3>1. uploads[upload[c]] = Partial /\ upload' = upload
      BY <1>9, <2>2 DEF WriteUpload
    <3>2. \A content \in WrittenUpload(c) : Whole(c, content)
      BY <3>1 DEF WrittenUpload
    <3>3. Whole(c, uploads'[upload[c]])
      BY <1>9, <2>1, <3>2 DEF WriteUpload
    <3>4. pc'[c] \in {"responding", "waiting"}
      BY <1>9 DEF WriteUpload
    <3> QED BY <1>9, <2>2, <3>3, <3>4 DEF WriteUpload
  <2>3. CASE d # c
    BY <1>9, <2>1, <2>3 DEF WriteUpload
  <2> QED BY <2>2, <2>3
<1>10. ASSUME NEW c \in Conns, PrepareFails(c) PROVE Followed(d)'
  BY <1>10 DEF PrepareFails, Unwind
<1>11. ASSUME NEW c \in Conns, LaunchWorker(c) PROVE Followed(d)'
  BY <1>11 DEF LaunchWorker
<1>12. ASSUME NEW c \in Conns, ReleaseInfer(c) PROVE Followed(d)'
  BY <1>12 DEF ReleaseInfer
<1>13. ASSUME NEW c \in Conns, BuildResponse(c) PROVE Followed(d)'
  <2>1. CASE d = c
    <3>1. reply'[c] = Image(outputs[out[c]]) /\ pc'[c] = "cleaning" /\ pc[c] = "building"
      BY <1>13 DEF BuildResponse
    <3>2. UNCHANGED <<req, rid, upload>>
      BY <1>13 DEF BuildResponse
    <3> QED BY <2>1, <3>1, <3>2 DEF Image
  <2>2. CASE d # c
    BY <1>13, <2>2 DEF BuildResponse
  <2> QED BY <2>1, <2>2
<1>14. ASSUME NEW c \in Conns, BuildFails(c) PROVE Followed(d)'
  BY <1>14 DEF BuildFails
<1>15. ASSUME NEW c \in Conns, CleanOutput(c) PROVE Followed(d)'
  <2>1. CASE d = c
    <3>1. /\ pc[c] = "cleaning" /\ pc'[c] \in {"sweeping", "responding"}
          /\ pc'[c] = "sweeping" => reply' = reply
      BY <1>15 DEF CleanOutput, Serialize
    <3>2. UNCHANGED <<req, rid, upload>>
      BY <1>15 DEF CleanOutput
    <3> QED BY <2>1, <3>1, <3>2
  <2>2. CASE d # c
    <3>1. /\ pc'[d] = pc[d] /\ reply'[d] = reply[d]
          /\ UNCHANGED <<uploads, req, rid, upload, out, seen>>
      BY <1>15, <2>2 DEF CleanOutput, Serialize
    <3>2. pc[d] \in OwnsOutput => outputs'[out[d]] = outputs[out[d]]
      BY <1>15, <2>2 DEF CleanOutput, Shape
    <3> QED BY <3>1, <3>2
  <2> QED BY <2>1, <2>2
<1>16. ASSUME NEW c \in Conns, CleanUploads(c) PROVE Followed(d)'
  <2>1. CASE d = c
    BY <1>16, <2>1 DEF CleanUploads, Serialize
  <2>2. CASE d # c
    <3>1. /\ pc'[d] = pc[d] /\ reply'[d] = reply[d]
          /\ UNCHANGED <<outputs, req, rid, upload, out, seen>>
      BY <1>16, <2>2 DEF CleanUploads, Serialize
    <3>2. uploads'[upload[d]] = uploads[upload[d]]
      BY <1>16, <2>2 DEF CleanUploads, RemoveUploads
    <3> QED BY <3>1, <3>2
  <2> QED BY <2>1, <2>2
<1>17. ASSUME NEW c \in Conns, CatchUploads(c) PROVE Followed(d)'
  <2>1. CASE d = c
    BY <1>17, <2>1 DEF CatchUploads
  <2>2. CASE d # c
    <3>1. pc'[d] = pc[d] /\ UNCHANGED <<outputs, req, rid, upload, out, seen, reply>>
      BY <1>17, <2>2 DEF CatchUploads
    <3>2. uploads'[upload[d]] = uploads[upload[d]]
      BY <1>17, <2>2 DEF CatchUploads, RemoveUploads
    <3> QED BY <3>1, <3>2
  <2> QED BY <2>1, <2>2
<1>18. ASSUME NEW c \in Conns, FindImage(c) PROVE Followed(d)'
  BY <1>18 DEF FindImage
<1>19. ASSUME NEW c \in Conns, FetchImage(c) PROVE Followed(d)'
  BY <1>19 DEF FetchImage
<1>20. ASSUME NEW c \in Conns, Chat(c) PROVE Followed(d)'
  BY <1>20 DEF Chat
<1>21. ASSUME NEW c \in Conns, WorkerReads(c) PROVE Followed(d)'
  <2>1. CASE d = c
    BY <1>21, <2>1 DEF WorkerReads
  <2>2. CASE d # c
    <3>1. /\ pc'[d] = pc[d] /\ seen'[d] = seen[d]
          /\ UNCHANGED <<uploads, req, rid, upload, out, reply>>
      BY <1>21, <2>2 DEF WorkerReads
    <3>2. pc[d] \in OwnsOutput => outputs'[out[d]] = outputs[out[d]]
      BY <1>21, <2>2 DEF WorkerReads, Shape
    <3> QED BY <3>1, <3>2
  <2> QED BY <2>1, <2>2
<1>22. ASSUME NEW c \in Conns, WorkerSucceeds(c) PROVE Followed(d)'
  <2>1. CASE d = c
    <3>1. outputs'[out[c]].input = seen[c]
      BY <1>22, <2>1 DEF WorkerSucceeds
    <3> QED BY <1>22, <2>1, <3>1 DEF WorkerSucceeds
  <2>2. CASE d # c
    <3>1. pc'[d] = pc[d] /\ UNCHANGED <<uploads, req, rid, upload, out, reply, seen>>
      BY <1>22, <2>2 DEF WorkerSucceeds
    <3>2. pc[d] \in OwnsOutput => outputs'[out[d]] = outputs[out[d]]
      BY <1>22, <2>2 DEF WorkerSucceeds, Shape
    <3> QED BY <3>1, <3>2
  <2> QED BY <2>1, <2>2
<1>23. ASSUME NEW c \in Conns, WorkerFails(c) PROVE Followed(d)'
  BY <1>23 DEF WorkerFails, Unwind
<1>24. CASE Tick
  BY <1>24 DEF Tick
<1>25. CASE UNCHANGED vars
  BY <1>25 DEF vars
<1> QED BY <1>1, <1>2, <1>3, <1>4, <1>5, <1>6, <1>7, <1>8, <1>9, <1>10, <1>11, <1>12,
         <1>13, <1>14, <1>15, <1>16, <1>17, <1>18, <1>19, <1>20, <1>21, <1>22, <1>23, <1>24, <1>25
       DEF Next, Session, Handler, Worker

\* The answer to an edit is made from its image.
LEMMA OwnInputStep == IInv /\ InputIInv /\ [Next]_vars => OwnInput'
<1> SUFFICES ASSUME IInv, InputIInv, [Next]_vars PROVE OwnInput'
  OBVIOUS
<1>0. clashed \subseteq clashed'
  BY ClashStep
<1> USE <1>0, RequestsAssumption, NullsAssumption
    DEF IInv, InputIInv, TypeOK, Goto, Answer, shared, files, locals, history, OwnInput,
        Published, Renders, InputFollowed, Followed, Whole, UploadsMatch, Shape, IsIdle, Error, Image,
        Info, RequestType, WellFormed
<1>1. ASSUME NEW c \in Conns, Accept(c) PROVE OwnInput'
  BY <1>1 DEF Accept
<1>2. ASSUME NEW c \in Conns, Disconnect(c) PROVE OwnInput'
  BY <1>2 DEF Disconnect
<1>3. ASSUME NEW c \in Conns, Receive(c) PROVE OwnInput'
  BY <1>3 DEF Receive
<1>4. ASSUME NEW c \in Conns, Respond(c) PROVE OwnInput'
  BY <1>4 DEF Respond
<1>5. ASSUME NEW c \in Conns, AcquireInfer(c) PROVE OwnInput'
  BY <1>5 DEF AcquireInfer
<1>6. ASSUME NEW c \in Conns, Reject(c) PROVE OwnInput'
  BY <1>6 DEF Reject
<1>7. ASSUME NEW c \in Conns, ParseImageRequest(c) PROVE OwnInput'
  BY <1>7 DEF ParseImageRequest
<1>8. ASSUME NEW c \in Conns, OpenUpload(c) PROVE OwnInput'
  BY <1>8 DEF OpenUpload
<1>9. ASSUME NEW c \in Conns, WriteUpload(c) PROVE OwnInput'
  BY <1>9 DEF WriteUpload
<1>10. ASSUME NEW c \in Conns, PrepareFails(c) PROVE OwnInput'
  BY <1>10 DEF PrepareFails, Unwind
<1>11. ASSUME NEW c \in Conns, LaunchWorker(c) PROVE OwnInput'
  BY <1>11 DEF LaunchWorker
<1>12. ASSUME NEW c \in Conns, ReleaseInfer(c) PROVE OwnInput'
  BY <1>12 DEF ReleaseInfer
<1>13. ASSUME NEW c \in Conns, BuildResponse(c) PROVE OwnInput'
  BY <1>13 DEF BuildResponse
<1>14. ASSUME NEW c \in Conns, BuildFails(c) PROVE OwnInput'
  BY <1>14 DEF BuildFails
<1>15. ASSUME NEW c \in Conns, CleanOutput(c) PROVE OwnInput'
  BY <1>15 DEF CleanOutput, Serialize
<1>16. ASSUME NEW c \in Conns, CleanUploads(c) PROVE OwnInput'
  <2>1. /\ pc[c] = "sweeping" /\ UNCHANGED <<req, rid, upload, clashed>>
        /\ reply'[c].status = 200 => reply'[c] = reply[c]
    BY <1>16 DEF CleanUploads, Serialize
  <2>2. \A d \in Conns : d # c => pc'[d] = pc[d] /\ reply'[d] = reply[d]
    BY <1>16 DEF CleanUploads, Serialize
  <2>3. reply'[c].status = 200 /\ req[c].edit /\ upload[c] \notin clashed =>
          Whole(c, reply[c].image.input)
    <3>1. req[c].edit => upload[c] # None
      BY <2>1
    <3> QED BY <2>1, <3>1
  <2> QED BY <2>1, <2>2, <2>3
<1>17. ASSUME NEW c \in Conns, CatchUploads(c) PROVE OwnInput'
  <2>1. /\ pc[c] = "catching" /\ reply[c].status = 500
        /\ UNCHANGED <<req, rid, upload, clashed, reply>>
    BY <1>17 DEF CatchUploads, PictureFollowed
  <2>2. \A d \in Conns : d # c => pc'[d] = pc[d]
    BY <1>17 DEF CatchUploads
  <2> QED BY <2>1, <2>2
<1>18. ASSUME NEW c \in Conns, FindImage(c) PROVE OwnInput'
  BY <1>18 DEF FindImage
<1>19. ASSUME NEW c \in Conns, FetchImage(c) PROVE OwnInput'
  BY <1>19 DEF FetchImage
<1>20. ASSUME NEW c \in Conns, Chat(c) PROVE OwnInput'
  BY <1>20 DEF Chat
<1>21. ASSUME NEW c \in Conns, WorkerReads(c) PROVE OwnInput'
  BY <1>21 DEF WorkerReads
<1>22. ASSUME NEW c \in Conns, WorkerSucceeds(c) PROVE OwnInput'
  BY <1>22 DEF WorkerSucceeds
<1>23. ASSUME NEW c \in Conns, WorkerFails(c) PROVE OwnInput'
  BY <1>23 DEF WorkerFails, Unwind
<1>24. CASE Tick
  BY <1>24 DEF Tick
<1>25. CASE UNCHANGED vars
  BY <1>25 DEF vars
<1> QED BY <1>1, <1>2, <1>3, <1>4, <1>5, <1>6, <1>7, <1>8, <1>9, <1>10, <1>11, <1>12,
         <1>13, <1>14, <1>15, <1>16, <1>17, <1>18, <1>19, <1>20, <1>21, <1>22, <1>23, <1>24, <1>25
       DEF Next, Session, Handler, Worker

\* A step that leaves the uploads alone and lets go of none keeps UploadsHeld.
LEMMA HeldFrame ==
  ASSUME UploadsHeld, uploads' = uploads, upload' = upload,
         \A c \in Conns : pc[c] \in HoldsUpload /\ upload[c] # None => pc'[c] \in HoldsUpload
  PROVE  UploadsHeld'
<1> SUFFICES ASSUME NEW f \in UploadNames, uploads[f] # Absent
             PROVE  \E c \in Conns : pc'[c] \in HoldsUpload /\ upload[c] = f
  BY DEF UploadsHeld
<1>1. PICK c \in Conns : pc[c] \in HoldsUpload /\ upload[c] = f
  BY DEF UploadsHeld
<1>2. f # None
  BY NullsAssumption DEF UploadNames, Ms
<1> QED BY <1>1, <1>2

\* A thread that removes its upload holds none any more.
LEMMA RemovedNotHeld ==
  ASSUME UploadsHeld, NEW c \in Conns, RemoveUploads(c), upload' = upload,
         uploads \in [UploadNames -> UploadContent],
         \A d \in Conns : d # c => pc'[d] = pc[d]
  PROVE  UploadsHeld'
<1> SUFFICES ASSUME NEW f \in UploadNames, uploads'[f] # Absent
             PROVE  \E d \in Conns : pc'[d] \in HoldsUpload /\ upload[d] = f
  BY DEF UploadsHeld
<1>1. upload[c] # f /\ uploads[f] # Absent
  BY NullsAssumption DEF RemoveUploads, UploadNames, Ms
<1>2. PICK d \in Conns : pc[d] \in HoldsUpload /\ upload[d] = f
  BY <1>1 DEF UploadsHeld
<1> QED BY <1>1, <1>2

\* Without late parse errors and failed reads, a file loses its owner only with
\* itself.
LEMMA HeldStep ==
  ASSUME ~DiskFaults, \A r \in Requests : r.fault # "late",
         IInv, UploadsMatch, UploadsHeld, [Next]_vars
  PROVE  UploadsHeld'
<1>0. \A c \in Conns : upload[c] # None => req[c].route = "edits" /\ req[c].fault # "late"
  BY RequestsAssumption DEF UploadsMatch, RequestType, WellFormed
<1> USE <1>0, HeldFrame, NullsAssumption
    DEF IInv, TypeOK, Goto, Answer, shared, files, locals, history, HoldsUpload, Critical, PCs
<1>1. ASSUME NEW c \in Conns, Accept(c) PROVE UploadsHeld'
  BY <1>1 DEF Accept
<1>2. ASSUME NEW c \in Conns, Disconnect(c) PROVE UploadsHeld'
  BY <1>2 DEF Disconnect
<1>3. ASSUME NEW c \in Conns, Receive(c) PROVE UploadsHeld'
  BY <1>3 DEF Receive
<1>4. ASSUME NEW c \in Conns, Respond(c) PROVE UploadsHeld'
  <2> SUFFICES ASSUME NEW f \in UploadNames, uploads[f] # Absent
               PROVE  \E d \in Conns : pc'[d] \in HoldsUpload /\ upload'[d] = f
    BY <1>4 DEF Respond, UploadsHeld
  <2>1. PICK d \in Conns : pc[d] \in HoldsUpload /\ upload[d] = f
    BY DEF UploadsHeld
  <2> QED BY <1>4, <2>1 DEF Respond
<1>5. ASSUME NEW c \in Conns, AcquireInfer(c) PROVE UploadsHeld'
  BY <1>5 DEF AcquireInfer
<1>6. ASSUME NEW c \in Conns, Reject(c) PROVE UploadsHeld'
  BY <1>6 DEF Reject
<1>7. ASSUME NEW c \in Conns, ParseImageRequest(c) PROVE UploadsHeld'
  BY <1>7 DEF ParseImageRequest
<1>8. ASSUME NEW c \in Conns, OpenUpload(c) PROVE UploadsHeld'
  <2> SUFFICES ASSUME NEW f \in UploadNames, uploads'[f] # Absent
               PROVE  \E d \in Conns : pc'[d] \in HoldsUpload /\ upload'[d] = f
    BY DEF UploadsHeld
  <2>1. CASE f = UploadName(clock)
    BY <1>8, <2>1 DEF OpenUpload
  <2>2. CASE f # UploadName(clock)
    <3>1. PICK d \in Conns : pc[d] \in HoldsUpload /\ upload[d] = f
      BY <1>8, <2>2 DEF OpenUpload, UploadsHeld
    <3> QED BY <1>8, <3>1 DEF OpenUpload
  <2> QED BY <2>1, <2>2
<1>9. ASSUME NEW c \in Conns, WriteUpload(c) PROVE UploadsHeld'
  <2>1. /\ pc' = [pc EXCEPT ![c] = "waiting"] /\ upload' = upload
        /\ upload[c] \in UploadNames
    BY <1>9 DEF WriteUpload, Shape, UploadNames, Ms
  <2> SUFFICES ASSUME NEW f \in UploadNames, uploads'[f] # Absent
               PROVE  \E d \in Conns : pc'[d] \in HoldsUpload /\ upload[d] = f
    BY <2>1 DEF UploadsHeld
  <2>2. CASE f = upload[c]
    BY <2>1, <2>2
  <2>3. CASE f # upload[c]
    <3>1. PICK d \in Conns : pc[d] \in HoldsUpload /\ upload[d] = f
      BY <1>9, <2>3 DEF WriteUpload, UploadsHeld
    <3> QED BY <2>1, <3>1
  <2> QED BY <2>2, <2>3
<1>10. ASSUME NEW c \in Conns, PrepareFails(c) PROVE UploadsHeld'
  BY <1>10 DEF PrepareFails, Unwind
<1>11. ASSUME NEW c \in Conns, LaunchWorker(c) PROVE UploadsHeld'
  BY <1>11 DEF LaunchWorker
<1>12. ASSUME NEW c \in Conns, ReleaseInfer(c) PROVE UploadsHeld'
  BY <1>12 DEF ReleaseInfer
<1>13. ASSUME NEW c \in Conns, BuildResponse(c) PROVE UploadsHeld'
  BY <1>13 DEF BuildResponse
<1>14. ASSUME NEW c \in Conns, BuildFails(c) PROVE UploadsHeld'
  BY <1>14 DEF BuildFails, PictureFollowed
<1>15. ASSUME NEW c \in Conns, CleanOutput(c) PROVE UploadsHeld'
  <2>1. pc[c] = "cleaning" /\ UNCHANGED <<uploads, upload>>
    BY <1>15 DEF CleanOutput
  <2>2. \A d \in Conns : d # c => pc'[d] = pc[d]
    BY <1>15 DEF CleanOutput, Serialize
  <2>3. upload[c] # None => pc'[c] = "sweeping"
    BY <1>15 DEF CleanOutput
  <2> QED BY <2>1, <2>2, <2>3
<1>16. ASSUME NEW c \in Conns, CleanUploads(c) PROVE UploadsHeld'
  <2>1. RemoveUploads(c) /\ upload' = upload /\ \A d \in Conns : d # c => pc'[d] = pc[d]
    BY <1>16 DEF CleanUploads, Serialize
  <2> QED BY <2>1, RemovedNotHeld
<1>17. ASSUME NEW c \in Conns, CatchUploads(c) PROVE UploadsHeld'
  <2>1. RemoveUploads(c) /\ upload' = upload /\ \A d \in Conns : d # c => pc'[d] = pc[d]
    BY <1>17 DEF CatchUploads
  <2> QED BY <2>1, RemovedNotHeld
<1>18. ASSUME NEW c \in Conns, FindImage(c) PROVE UploadsHeld'
  BY <1>18 DEF FindImage
<1>19. ASSUME NEW c \in Conns, FetchImage(c) PROVE UploadsHeld'
  BY <1>19 DEF FetchImage
<1>20. ASSUME NEW c \in Conns, Chat(c) PROVE UploadsHeld'
  BY <1>20 DEF Chat
<1>21. ASSUME NEW c \in Conns, WorkerReads(c) PROVE UploadsHeld'
  BY <1>21 DEF WorkerReads
<1>22. ASSUME NEW c \in Conns, WorkerSucceeds(c) PROVE UploadsHeld'
  BY <1>22 DEF WorkerSucceeds
<1>23. ASSUME NEW c \in Conns, WorkerFails(c) PROVE UploadsHeld'
  BY <1>23 DEF WorkerFails, Unwind
<1>24. CASE Tick
  BY <1>24 DEF Tick
<1>25. CASE UNCHANGED vars
  BY <1>25 DEF vars
<1> QED BY <1>1, <1>2, <1>3, <1>4, <1>5, <1>6, <1>7, <1>8, <1>9, <1>10, <1>11, <1>12,
         <1>13, <1>14, <1>15, <1>16, <1>17, <1>18, <1>19, <1>20, <1>21, <1>22, <1>23, <1>24, <1>25
       DEF Next, Session, Handler, Worker

\* What the invariants of the input say holds of no files.
LEMMA InitInput == Init => InputIInv /\ InfoOfRenderedPicture /\ UploadsHeld
<1> SUFFICES ASSUME Init PROVE InputIInv /\ InfoOfRenderedPicture /\ UploadsHeld
  OBVIOUS
<1> QED BY DEF Init, InputIInv, ClashesNoted, UploadsMatch, InputFollowed, OwnInput, Published,
         IsIdle, InfoOfRenderedPicture, UploadsHeld

\* Where an edit's image is, is known at every moment.
LEMMA NextInput == IInv /\ InputIInv /\ [Next]_vars => InputIInv'
  BY ClashStep, MatchStep, InputStep, OwnInputStep DEF InputIInv

\* InputIInv holds in every reachable state: OwnInput alone is not inductive, the bytes
\* have to be followed from the upload through the worker to the answer.
THEOREM InputInvariance == Spec => []InputIInv
<1>1. Init => InputIInv
  BY InitInput
<1>2. IInv /\ InputIInv /\ [Next]_vars => InputIInv'
  BY NextInput
<1> QED BY <1>1, <1>2, Invariance, PTL DEF Spec

\* An edit is made from the image that came with it, all of it unless the disk
\* lost a write, unless two uploads were given one name and that is on record.
THEOREM InputOwned == Spec => []OwnInput
<1>1. InputIInv => OwnInput
  BY DEF InputIInv
<1> QED BY <1>1, InputInvariance, PTL

\* Chat completions tell of pictures that were rendered and read back, and of no
\* failed run.
THEOREM InfoRendered == Spec => []InfoOfRenderedPicture
<1>1. Init => InfoOfRenderedPicture
  BY InitInput
<1>2. IInv /\ InfoOfRenderedPicture /\ [Next]_vars => InfoOfRenderedPicture'
  BY InfoStep
<1> QED BY <1>1, <1>2, Invariance, PTL DEF Spec

\* If no number is late and the disk does not fail, every upload file on disk is
\* that of a request in flight.
THEOREM UploadsHaveOwners ==
  ~DiskFaults /\ (\A r \in Requests : r.fault # "late") => (Spec => []UploadsOwned)
<1> SUFFICES ASSUME ~DiskFaults, \A r \in Requests : r.fault # "late"
             PROVE  Spec => []UploadsOwned
  OBVIOUS
<1>1. Init => UploadsHeld
  BY InitInput
<1>2. IInv /\ InputIInv /\ UploadsHeld /\ [Next]_vars => UploadsHeld'
  BY HeldStep DEF InputIInv
<1>3. UploadsHeld => UploadsOwned
  BY DEF UploadsHeld, UploadsOwned
<1> QED BY <1>1, <1>2, <1>3, Invariance, InputInvariance, PTL DEF Spec

-----------------------------------------------------------------------------
(* The server implements ImageService.                                      *)

\* The service's view of the server.
Phase == [c \in Conns |-> PhaseOf(c)]
AnswerOf(c) == IF Published(c) THEN reply[c].image.request ELSE None
Answers == [c \in Conns |-> AnswerOf(c)]
Gallery == {d.picture.request : d \in {e \in done : outputs[e.out] = e.picture}}

\* The gallery holds what was to be retained, no more and no less: RetentionPolicy.
LEMMA GalleryRetained ==
  IInv => Gallery = {d.picture.request : d \in {e \in done : Retained(e)}}
<1> SUFFICES ASSUME IInv PROVE Gallery = {d.picture.request : d \in {e \in done : Retained(e)}}
  OBVIOUS
<1>1. \A e \in done : outputs[e.out] = e.picture <=> Retained(e)
  <2> SUFFICES ASSUME NEW e \in done PROVE outputs[e.out] = e.picture <=> Retained(e)
    OBVIOUS
  <2>1. e.picture # Absent
    BY NullsAssumption DEF IInv, TypeOK
  <2>2. outputs[e.out] = IF Retained(e) THEN e.picture ELSE Absent
    BY DEF IInv, RetentionPolicy
  <2> QED BY <2>1, <2>2
<1>2. {e \in done : outputs[e.out] = e.picture} = {e \in done : Retained(e)}
  BY <1>1
<1> QED BY <1>2 DEF Gallery

\* The same after a step.
LEMMA GalleryRetainedNext ==
  IInv' => Gallery' = {d.picture.request : d \in {e \in done' : Retained(e)}}
<1> SUFFICES ASSUME IInv'
             PROVE  Gallery' = {d.picture.request : d \in {e \in done' : Retained(e)}}
  OBVIOUS
<1>1. \A e \in done' : outputs'[e.out] = e.picture <=> Retained(e)
  <2> SUFFICES ASSUME NEW e \in done' PROVE outputs'[e.out] = e.picture <=> Retained(e)
    OBVIOUS
  <2>1. e.picture # Absent
    BY NullsAssumption DEF IInv, TypeOK
  <2>2. outputs'[e.out] = IF Retained(e) THEN e.picture ELSE Absent
    BY DEF IInv, RetentionPolicy, Retained
  <2> QED BY <2>1, <2>2
<1>2. {e \in done' : outputs'[e.out] = e.picture} = {e \in done' : Retained(e)}
  BY <1>1
<1> QED BY <1>2 DEF Gallery

\* Whatever happens to files, the gallery only changes with the record of what was
\* cleaned up.
LEMMA GallerySame == IInv /\ IInv' /\ done' = done => Gallery' = Gallery
<1> SUFFICES ASSUME IInv, IInv', done' = done PROVE Gallery' = Gallery
  OBVIOUS
<1>1. Gallery' = {d.picture.request : d \in {e \in done' : Retained(e)}}
  BY GalleryRetainedNext
<1> QED BY <1>1, GalleryRetained

\* The phase of a thread, by the places in the code.
LEMMA PhaseTable ==
  ASSUME NEW c \in Conns
  PROVE  /\ pc[c] \in {"closed", "reading"} => PhaseOf(c) = "idle"
         /\ pc[c] \in {"parsing", "saving", "waiting", "fetching"} => PhaseOf(c) = "pending"
         /\ pc[c] \in Critical => PhaseOf(c) = "rendering"
         /\ pc[c] \in {"building", "cleaning", "sweeping"} => PhaseOf(c) = "rendered"
         /\ pc[c] \in {"catching", "responding"} => PhaseOf(c) = "answered"
  BY DEF PhaseOf, Critical

\* The same after a step.
LEMMA PhaseTableNext ==
  ASSUME NEW c \in Conns
  PROVE  /\ pc'[c] \in {"closed", "reading"} => PhaseOf(c)' = "idle"
         /\ pc'[c] \in {"parsing", "saving", "waiting", "fetching"} => PhaseOf(c)' = "pending"
         /\ pc'[c] \in Critical => PhaseOf(c)' = "rendering"
         /\ pc'[c] \in {"building", "cleaning", "sweeping"} => PhaseOf(c)' = "rendered"
         /\ pc'[c] \in {"catching", "responding"} => PhaseOf(c)' = "answered"
  BY DEF PhaseOf, Critical

\* A step of one thread changes the view of no other.
LEMMA OneMoves ==
  ASSUME NEW c \in Conns,
         \A d \in Conns \ {c} :
           pc'[d] = pc[d] /\ req'[d] = req[d] /\ reply'[d] = reply[d]
  PROVE  /\ Phase' = [Phase EXCEPT ![c] = PhaseOf(c)']
         /\ Answers' = [Answers EXCEPT ![c] = AnswerOf(c)']
<1>1. \A d \in Conns \ {c} : PhaseOf(d)' = PhaseOf(d) /\ AnswerOf(d)' = AnswerOf(d)
  BY DEF PhaseOf, AnswerOf, Published
<1> QED BY <1>1 DEF Phase, Answers

\* A step that moves a thread within its phase, and publishes nothing, is none of
\* the service's.
LEMMA Stutters ==
  ASSUME IInv, IInv', NEW c \in Conns,
         \A d \in Conns \ {c} : pc'[d] = pc[d] /\ req'[d] = req[d] /\ reply'[d] = reply[d],
         PhaseOf(c)' = PhaseOf(c), AnswerOf(c)' = AnswerOf(c),
         UNCHANGED <<rid, received, done>>
  PROVE  UNCHANGED Service!vars
<1>1. Phase' = Phase /\ Answers' = Answers
  BY OneMoves DEF Phase, Answers
<1>2. Gallery' = Gallery
  BY GallerySame
<1> QED BY <1>1, <1>2 DEF Service!vars, Phase, Answers, AnswerOf, Gallery

\* An answer without a picture of its own is a refusal.
LEMMA Refuses ==
  ASSUME IInv, IInv', NEW c \in Conns,
         \A d \in Conns \ {c} : pc'[d] = pc[d] /\ req'[d] = req[d] /\ reply'[d] = reply[d],
         PhaseOf(c) \in {"pending", "rendering", "rendered"}, PhaseOf(c)' = "answered",
         AnswerOf(c) = None, AnswerOf(c)' = None,
         UNCHANGED <<rid, received, done>>
  PROVE  Service!Refuse(c)
<1>1. Phase' = [Phase EXCEPT ![c] = "answered"] /\ Answers' = Answers
  BY OneMoves DEF Phase, Answers
<1>2. Gallery' = Gallery /\ Phase[c] = PhaseOf(c)
  BY GallerySame DEF Phase
<1> QED BY <1>1, <1>2
     DEF Service!Refuse, Service!MayKeep, Phase, Answers, AnswerOf, Gallery

\* A step of c alone.
Alone(c) ==
  \A d \in Conns \ {c} : pc'[d] = pc[d] /\ req'[d] = req[d] /\ reply'[d] = reply[d]

\* Only a thread about to answer has something published.
LEMMA NothingPublished ==
  ASSUME NEW c \in Conns
  PROVE  /\ pc[c] # "responding" => AnswerOf(c) = None
         /\ pc'[c] # "responding" => AnswerOf(c)' = None
         /\ ~Renders(req'[c]) => AnswerOf(c)' = None
         /\ reply'[c].status # 200 => AnswerOf(c)' = None
  BY DEF AnswerOf, Published

\* Steps within a phase.
LEMMA WithinPhase ==
  ASSUME IInv, IInv', NEW c \in Conns,
         \/ Accept(c) \/ Disconnect(c) \/ ParseImageRequest(c) \/ OpenUpload(c)
         \/ LaunchWorker(c) \/ WorkerReads(c) \/ WorkerSucceeds(c)
         \/ BuildResponse(c) \/ CatchUploads(c)
  PROVE  UNCHANGED Service!vars
<1> USE DEF IInv, TypeOK, Goto, Answer, shared, files, locals, history, Alone
<1>1. CASE Accept(c)
  <2>1. Alone(c) /\ UNCHANGED <<rid, received, done>>
    BY <1>1 DEF Accept
  <2>2. PhaseOf(c)' = PhaseOf(c)
    BY <1>1, PhaseTable, PhaseTableNext DEF Accept
  <2>3. AnswerOf(c)' = AnswerOf(c)
    BY <1>1, NothingPublished DEF Accept
  <2> QED BY <2>1, <2>2, <2>3, Stutters
<1>2. CASE Disconnect(c)
  <2>1. Alone(c) /\ UNCHANGED <<rid, received, done>>
    BY <1>2 DEF Disconnect
  <2>2. PhaseOf(c)' = PhaseOf(c)
    BY <1>2, PhaseTable, PhaseTableNext DEF Disconnect
  <2>3. AnswerOf(c)' = AnswerOf(c)
    BY <1>2, NothingPublished DEF Disconnect
  <2> QED BY <2>1, <2>2, <2>3, Stutters
<1>3. CASE ParseImageRequest(c)
  <2>1. Alone(c) /\ UNCHANGED <<rid, received, done>>
    BY <1>3 DEF ParseImageRequest
  <2>2. PhaseOf(c)' = PhaseOf(c)
    BY <1>3, PhaseTable, PhaseTableNext DEF ParseImageRequest
  <2>3. AnswerOf(c)' = AnswerOf(c)
    BY <1>3, NothingPublished DEF ParseImageRequest
  <2> QED BY <2>1, <2>2, <2>3, Stutters
<1>4. CASE OpenUpload(c)
  <2>1. Alone(c) /\ UNCHANGED <<rid, received, done>>
    BY <1>4 DEF OpenUpload
  <2>2. PhaseOf(c)' = PhaseOf(c)
    BY <1>4, PhaseTable, PhaseTableNext DEF OpenUpload
  <2>3. AnswerOf(c)' = AnswerOf(c)
    BY <1>4, NothingPublished DEF OpenUpload
  <2> QED BY <2>1, <2>2, <2>3, Stutters
<1>5. CASE LaunchWorker(c)
  <2>1. Alone(c) /\ UNCHANGED <<rid, received, done>>
    BY <1>5 DEF LaunchWorker, Critical
  <2>2. PhaseOf(c)' = PhaseOf(c)
    BY <1>5, PhaseTable, PhaseTableNext DEF LaunchWorker, Critical
  <2>3. AnswerOf(c)' = AnswerOf(c)
    BY <1>5, NothingPublished DEF LaunchWorker, Critical
  <2> QED BY <2>1, <2>2, <2>3, Stutters
<1>6. CASE WorkerReads(c)
  <2>1. Alone(c) /\ UNCHANGED <<rid, received, done>>
    BY <1>6 DEF WorkerReads, Critical
  <2>2. PhaseOf(c)' = PhaseOf(c)
    BY <1>6, PhaseTable, PhaseTableNext DEF WorkerReads, Critical
  <2>3. AnswerOf(c)' = AnswerOf(c)
    BY <1>6, NothingPublished DEF WorkerReads, Critical
  <2> QED BY <2>1, <2>2, <2>3, Stutters
<1>7. CASE WorkerSucceeds(c)
  <2>1. Alone(c) /\ UNCHANGED <<rid, received, done>>
    BY <1>7 DEF WorkerSucceeds, Critical
  <2>2. PhaseOf(c)' = PhaseOf(c)
    BY <1>7, PhaseTable, PhaseTableNext DEF WorkerSucceeds, Critical
  <2>3. AnswerOf(c)' = AnswerOf(c)
    BY <1>7, NothingPublished DEF WorkerSucceeds, Critical
  <2> QED BY <2>1, <2>2, <2>3, Stutters
<1>8. CASE BuildResponse(c)
  <2>1. Alone(c) /\ UNCHANGED <<rid, received, done>>
    BY <1>8 DEF BuildResponse
  <2>2. PhaseOf(c)' = PhaseOf(c)
    BY <1>8, PhaseTable, PhaseTableNext DEF BuildResponse
  <2>3. AnswerOf(c)' = AnswerOf(c)
    BY <1>8, NothingPublished DEF BuildResponse
  <2> QED BY <2>1, <2>2, <2>3, Stutters
<1>9. CASE CatchUploads(c)
  <2>1. Alone(c) /\ UNCHANGED <<rid, received, done>>
    BY <1>9 DEF CatchUploads, RemoveUploads, PictureFollowed
  <2>2. PhaseOf(c)' = PhaseOf(c)
    BY <1>9, PhaseTable, PhaseTableNext DEF CatchUploads, RemoveUploads, PictureFollowed
  <2>3. AnswerOf(c)' = AnswerOf(c)
    BY <1>9, NothingPublished DEF CatchUploads, RemoveUploads, PictureFollowed
  <2> QED BY <2>1, <2>2, <2>3, Stutters
<1> QED BY <1>1, <1>2, <1>3, <1>4, <1>5, <1>6, <1>7, <1>8, <1>9

\* Steps that answer without a picture.
LEMMA RefusingSteps ==
  ASSUME IInv, IInv', NEW c \in Conns,
         \/ Reject(c) \/ PrepareFails(c) \/ WorkerFails(c) \/ BuildFails(c)
         \/ FetchImage(c) \/ Chat(c)
  PROVE  Service!Refuse(c)
<1> USE DEF IInv, TypeOK, Goto, Answer, shared, files, locals, history, Alone
<1>1. CASE Reject(c)
  <2>1. Alone(c) /\ UNCHANGED <<rid, received, done>>
    BY <1>1 DEF Reject, Error
  <2>2. PhaseOf(c) \in {"pending", "rendering", "rendered"} /\ PhaseOf(c)' = "answered"
    BY <1>1, PhaseTable, PhaseTableNext DEF Reject, Error
  <2>3. AnswerOf(c) = None /\ AnswerOf(c)' = None
    BY <1>1, NothingPublished DEF Reject, Error
  <2> QED BY <2>1, <2>2, <2>3, Refuses
<1>2. CASE PrepareFails(c)
  <2>1. Alone(c) /\ UNCHANGED <<rid, received, done>>
    BY <1>2 DEF PrepareFails, Unwind, Error, Critical
  <2>2. PhaseOf(c) \in {"pending", "rendering", "rendered"} /\ PhaseOf(c)' = "answered"
    BY <1>2, PhaseTable, PhaseTableNext DEF PrepareFails, Unwind, Error, Critical
  <2>3. AnswerOf(c) = None /\ AnswerOf(c)' = None
    BY <1>2, NothingPublished DEF PrepareFails, Unwind, Error, Critical
  <2> QED BY <2>1, <2>2, <2>3, Refuses
<1>3. CASE WorkerFails(c)
  <2>1. Alone(c) /\ UNCHANGED <<rid, received, done>>
    BY <1>3 DEF WorkerFails, Unwind, Error, Critical
  <2>2. PhaseOf(c) \in {"pending", "rendering", "rendered"} /\ PhaseOf(c)' = "answered"
    BY <1>3, PhaseTable, PhaseTableNext DEF WorkerFails, Unwind, Error, Critical
  <2>3. AnswerOf(c) = None /\ AnswerOf(c)' = None
    BY <1>3, NothingPublished DEF WorkerFails, Unwind, Error, Critical
  <2> QED BY <2>1, <2>2, <2>3, Refuses
<1>4. CASE BuildFails(c)
  <2>1. Alone(c) /\ UNCHANGED <<rid, received, done>>
    BY <1>4 DEF BuildFails, Error
  <2>2. PhaseOf(c) \in {"pending", "rendering", "rendered"} /\ PhaseOf(c)' = "answered"
    BY <1>4, PhaseTable, PhaseTableNext DEF BuildFails, Error
  <2>3. AnswerOf(c) = None /\ AnswerOf(c)' = None
    BY <1>4, NothingPublished DEF BuildFails, Error
  <2> QED BY <2>1, <2>2, <2>3, Refuses
<1>5. CASE FetchImage(c)
  <2>1. Alone(c) /\ UNCHANGED <<rid, received, done>>
    BY <1>5 DEF FetchImage, Shape, Renders
  <2>2. PhaseOf(c) \in {"pending", "rendering", "rendered"} /\ PhaseOf(c)' = "answered"
    BY <1>5, PhaseTable, PhaseTableNext DEF FetchImage, Shape, Renders
  <2>3. AnswerOf(c) = None /\ AnswerOf(c)' = None
    BY <1>5, NothingPublished DEF FetchImage, Shape, Renders
  <2> QED BY <2>1, <2>2, <2>3, Refuses
<1>6. CASE Chat(c)
  <2>1. Alone(c) /\ UNCHANGED <<rid, received, done>>
    BY <1>6 DEF Chat, Renders
  <2>2. PhaseOf(c) \in {"pending", "rendering", "rendered"} /\ PhaseOf(c)' = "answered"
    BY <1>6, PhaseTable, PhaseTableNext DEF Chat, Renders
  <2>3. AnswerOf(c) = None /\ AnswerOf(c)' = None
    BY <1>6, NothingPublished DEF Chat, Renders
  <2> QED BY <2>1, <2>2, <2>3, Refuses
<1> QED BY <1>1, <1>2, <1>3, <1>4, <1>5, <1>6

\* Steps from one phase to the next, which change neither gallery nor answers.
LEMMA PhaseSteps ==
  ASSUME IInv, IInv', NEW c \in Conns
  PROVE  /\ Receive(c) => Service!Submit(c)
         /\ AcquireInfer(c) => Service!Begin(c)
         /\ ReleaseInfer(c) => Service!Finish(c)
<1> USE DEF IInv, TypeOK, Goto, Answer, shared, files, locals, history, Alone
<1>1. ASSUME Receive(c) PROVE Service!Submit(c)
  <2>1. Alone(c) /\ done' = done
    BY <1>1 DEF Receive
  <2>2. PhaseOf(c) = "idle" /\ PhaseOf(c)' = "pending"
    BY <1>1, PhaseTable, PhaseTableNext DEF Receive
  <2>3. AnswerOf(c) = None /\ AnswerOf(c)' = None
    BY <1>1, NothingPublished DEF Receive
  <2>4. /\ Phase' = [Phase EXCEPT ![c] = "pending"]
        /\ Answers' = [Answers EXCEPT ![c] = None]
    BY <2>1, <2>2, <2>3, OneMoves
  <2>5. Answers' = Answers
    BY <2>3, <2>4 DEF Answers
  <2> QED BY <1>1, <2>1, <2>2, <2>4, <2>5, GallerySame
       DEF Receive, Service!Submit, Phase, Answers, AnswerOf, Gallery
<1>2. ASSUME AcquireInfer(c) PROVE Service!Begin(c)
  <2>1. Alone(c) /\ UNCHANGED <<rid, received, done>>
    BY <1>2 DEF AcquireInfer
  <2>2. PhaseOf(c) = "pending" /\ PhaseOf(c)' = "rendering"
    BY <1>2, PhaseTable, PhaseTableNext DEF AcquireInfer, Critical
  <2>3. AnswerOf(c) = None /\ AnswerOf(c)' = None
    BY <1>2, NothingPublished DEF AcquireInfer
  <2>4. \A d \in Conns : PhaseOf(d) # "rendering"
    <3> SUFFICES ASSUME NEW d \in Conns PROVE PhaseOf(d) # "rendering"
      OBVIOUS
    <3>1. pc[d] \notin Critical
      BY <1>2, NullsAssumption DEF AcquireInfer, OneWorkerAtATime
    <3> QED BY <3>1 DEF PhaseOf
  <2>5. /\ Phase' = [Phase EXCEPT ![c] = "rendering"]
        /\ Answers' = [Answers EXCEPT ![c] = None]
    BY <2>1, <2>2, <2>3, OneMoves
  <2>6. Answers' = Answers
    BY <2>3, <2>5 DEF Answers
  <2> QED BY <2>1, <2>2, <2>4, <2>5, <2>6, GallerySame
       DEF Service!Begin, Phase, Answers, AnswerOf, Gallery
<1>3. ASSUME ReleaseInfer(c) PROVE Service!Finish(c)
  <2>1. Alone(c) /\ UNCHANGED <<rid, received, done>>
    BY <1>3 DEF ReleaseInfer
  <2>2. PhaseOf(c) = "rendering" /\ PhaseOf(c)' = "rendered"
    BY <1>3, PhaseTable, PhaseTableNext DEF ReleaseInfer, Critical
  <2>3. AnswerOf(c) = None /\ AnswerOf(c)' = None
    BY <1>3, NothingPublished DEF ReleaseInfer
  <2>4. /\ Phase' = [Phase EXCEPT ![c] = "rendered"]
        /\ Answers' = [Answers EXCEPT ![c] = None]
    BY <2>1, <2>2, <2>3, OneMoves
  <2>5. Answers' = Answers
    BY <2>3, <2>4 DEF Answers
  <2> QED BY <2>1, <2>2, <2>4, <2>5, GallerySame
       DEF Service!Finish, Phase, Answers, AnswerOf, Gallery
<1> QED BY <1>1, <1>2, <1>3

\* The answer goes out and the request is over.
LEMMA RespondDelivers ==
  ASSUME IInv, IInv', NEW c \in Conns, Respond(c)
  PROVE  Service!Deliver(c)
<1> USE DEF IInv, TypeOK, Goto, Answer, shared, files, locals, history, Alone
<1>1. Alone(c) /\ UNCHANGED <<received, done>> /\ rid' = [rid EXCEPT ![c] = 0]
  BY DEF Respond
<1>2. PhaseOf(c) = "answered" /\ PhaseOf(c)' = "idle"
  BY PhaseTable, PhaseTableNext DEF Respond
<1>3. AnswerOf(c)' = None
  BY NothingPublished DEF Respond
<1>4. /\ Phase' = [Phase EXCEPT ![c] = "idle"]
      /\ Answers' = [Answers EXCEPT ![c] = None]
  BY <1>1, <1>2, <1>3, OneMoves
<1> QED BY <1>1, <1>2, <1>4, GallerySame
     DEF Service!Deliver, Phase, Answers, AnswerOf, Gallery

\* Writing an upload goes unnoticed, unless a part after it is refused.
LEMMA WriteUploadStep ==
  ASSUME IInv, IInv', NEW c \in Conns, WriteUpload(c)
  PROVE  UNCHANGED Service!vars \/ Service!Refuse(c)
<1> USE DEF IInv, TypeOK, Goto, Answer, shared, files, locals, history, Alone
<1>1. Alone(c) /\ UNCHANGED <<rid, received, done>>
  BY DEF WriteUpload
<1>2. PhaseOf(c) = "pending" /\ AnswerOf(c) = None
  BY PhaseTable, NothingPublished DEF WriteUpload
<1>3. CASE req[c].fault = "late"
  <2>1. PhaseOf(c)' = "answered" /\ AnswerOf(c)' = None
    BY <1>3, PhaseTableNext, NothingPublished DEF WriteUpload, Error
  <2> QED BY <1>1, <1>2, <2>1, Refuses
<1>4. CASE req[c].fault # "late"
  <2>1. PhaseOf(c)' = "pending" /\ AnswerOf(c)' = None
    BY <1>4, PhaseTableNext, NothingPublished DEF WriteUpload
  <2> QED BY <1>1, <1>2, <2>1, Stutters
<1> QED BY <1>3, <1>4

\* Looking for a file goes unnoticed, unless there is none.
LEMMA FindImageStep ==
  ASSUME IInv, IInv', NEW c \in Conns, FindImage(c)
  PROVE  UNCHANGED Service!vars \/ Service!Refuse(c)
<1> USE DEF IInv, TypeOK, Goto, Answer, shared, files, locals, history, Alone
<1>1. Alone(c) /\ UNCHANGED <<rid, received, done>>
  BY DEF FindImage
<1>2. PhaseOf(c) = "pending" /\ AnswerOf(c) = None
  BY PhaseTable, NothingPublished DEF FindImage
<1>3. AnswerOf(c)' = None
  BY NothingPublished DEF FindImage, Renders
<1>4. PhaseOf(c)' \in {"pending", "answered"}
  BY PhaseTableNext DEF FindImage
<1> QED BY <1>1, <1>2, <1>3, <1>4, Refuses, Stutters

\* What an answer is when its JSON is serialized: the picture, or an error.
LEMMA SerializedAnswer ==
  ASSUME IInv, IInv', NEW c \in Conns, Serialize(c),
         req'[c] = req[c], rid'[c] = rid[c], Renders(req[c]),
         reply[c].status = 200, reply[c].image.request = rid[c]
  PROVE  PhaseOf(c)' = "answered" /\ AnswerOf(c)' \in {None, rid[c]}
<1> USE DEF IInv, TypeOK, Goto, Answer
<1>1. PhaseOf(c)' = "answered"
  BY PhaseTableNext DEF Serialize
<1>2. CASE req[c].fault = "text"
  BY <1>1, <1>2, NothingPublished DEF Serialize, Error
<1>3. CASE req[c].fault # "text"
  BY <1>1, <1>3 DEF Serialize, AnswerOf, Published
<1> QED BY <1>2, <1>3

\* The clean-up of a rendered request decides about its own picture only.
LEMMA GalleryCleaned ==
  ASSUME IInv, IInv', NEW c \in Conns, CleanOutput(c)
  PROVE  Gallery' \in {Gallery, Gallery \cup {rid[c]}}
<1> DEFINE e == [out |-> out[c], url |-> req[c].url, picture |-> reply[c].image]
<1>1. done' = done \cup {e} /\ e.picture.request = rid[c]
  BY DEF CleanOutput, IInv, PictureFollowed
<1>2. Gallery = {d.picture.request : d \in {x \in done : Retained(x)}}
  BY GalleryRetained
<1>3. Gallery' = {d.picture.request : d \in {x \in done' : Retained(x)}}
  BY GalleryRetainedNext
<1>4. CASE Retained(e)
  <2>1. {x \in done' : Retained(x)} = {x \in done : Retained(x)} \cup {e}
    BY <1>1, <1>4
  <2> QED BY <1>1, <1>2, <1>3, <2>1
<1>5. CASE ~Retained(e)
  <2>1. {x \in done' : Retained(x)} = {x \in done : Retained(x)}
    BY <1>1, <1>5
  <2> QED BY <1>2, <1>3, <2>1
<1> QED BY <1>4, <1>5

\* An edit's picture may be kept before its upload is removed; the other routes
\* answer at once.
LEMMA CleanOutputStep ==
  ASSUME IInv, IInv', NEW c \in Conns, CleanOutput(c)
  PROVE  Service!Keep(c) \/ Service!Publish(c) \/ Service!Refuse(c)
<1> USE DEF IInv, TypeOK, Goto, Answer, shared, files, locals, history, Alone
<1>1. Alone(c) /\ UNCHANGED <<rid, received>>
  BY DEF CleanOutput, Serialize
<1>2. PhaseOf(c) = "rendered" /\ AnswerOf(c) = None
  BY PhaseTable, NothingPublished DEF CleanOutput
<1>3. Gallery' \in {Gallery, Gallery \cup {rid[c]}}
  BY GalleryCleaned
<1>4. CASE req[c].route = "edits"
  <2>1. PhaseOf(c)' = "rendered" /\ AnswerOf(c)' = None
    BY <1>4, PhaseTableNext, NothingPublished DEF CleanOutput
  <2>2. Phase' = Phase /\ Answers' = Answers
    <3>1. /\ Phase' = [Phase EXCEPT ![c] = "rendered"]
          /\ Answers' = [Answers EXCEPT ![c] = None]
      BY <1>1, <2>1, OneMoves
    <3> QED BY <1>2, <3>1 DEF Phase, Answers
  <2>3. Service!Keep(c)
    BY <1>1, <1>2, <1>3, <2>2
       DEF Service!Keep, Service!MayKeep, Phase, Answers, AnswerOf, Gallery
  <2> QED BY <2>3
<1>5. CASE req[c].route # "edits"
  <2>1. PhaseOf(c)' = "answered" /\ AnswerOf(c)' \in {None, rid[c]}
    <3>1. Serialize(c) /\ req' = req
      BY <1>5 DEF CleanOutput
    <3>2. /\ Renders(req[c])
          /\ reply[c].status = 200 /\ reply[c].image.request = rid[c]
      BY DEF CleanOutput, Shape, OwnsOutput, PictureFollowed
    <3> QED BY <1>1, <3>1, <3>2, SerializedAnswer
  <2>2. /\ Phase' = [Phase EXCEPT ![c] = "answered"]
        /\ Answers' = [Answers EXCEPT ![c] = AnswerOf(c)']
    BY <1>1, <2>1, OneMoves
  <2>3. AnswerOf(c)' = None => Answers' = Answers
    BY <1>2, <2>2 DEF Answers
  <2>4. AnswerOf(c)' = rid[c] => Service!Publish(c)
    BY <1>1, <1>2, <1>3, <2>2
       DEF Service!Publish, Service!MayKeep, Phase, Answers, AnswerOf, Gallery
  <2>5. AnswerOf(c)' = None => Service!Refuse(c)
    BY <1>1, <1>2, <1>3, <2>2, <2>3
       DEF Service!Refuse, Service!MayKeep, Phase, Answers, AnswerOf, Gallery
  <2> QED BY <2>1, <2>4, <2>5
<1> QED BY <1>4, <1>5

\* An edit answers once its upload is removed.
LEMMA CleanUploadsStep ==
  ASSUME IInv, IInv', NEW c \in Conns, CleanUploads(c)
  PROVE  Service!Publish(c) \/ Service!Refuse(c)
<1> USE DEF IInv, TypeOK, Goto, Answer, shared, files, locals, history, Alone
<1>1. Alone(c) /\ UNCHANGED <<rid, received, done>>
  BY DEF CleanUploads, Serialize
<1>2. PhaseOf(c) = "rendered" /\ AnswerOf(c) = None
  BY PhaseTable, NothingPublished DEF CleanUploads
<1>3. PhaseOf(c)' = "answered" /\ AnswerOf(c)' \in {None, rid[c]}
  <2>1. Serialize(c) /\ req' = req
    BY DEF CleanUploads
  <2>2. /\ Renders(req[c])
        /\ reply[c].status = 200 /\ reply[c].image.request = rid[c]
    BY DEF CleanUploads, Shape, PictureFollowed
  <2> QED BY <1>1, <2>1, <2>2, SerializedAnswer
<1>4. /\ Phase' = [Phase EXCEPT ![c] = "answered"]
      /\ Answers' = [Answers EXCEPT ![c] = AnswerOf(c)']
      /\ Gallery' = Gallery
  BY <1>1, <1>3, OneMoves, GallerySame
<1>5. AnswerOf(c)' = rid[c] => Service!Publish(c)
  BY <1>1, <1>2, <1>4
     DEF Service!Publish, Service!MayKeep, Phase, Answers, AnswerOf, Gallery
<1>6. AnswerOf(c)' = None => Service!Refuse(c)
  BY <1>1, <1>2, <1>3, <1>4, Refuses
<1> QED BY <1>3, <1>5, <1>6

\* Initially nobody is connected and nothing is kept.
LEMMA ServiceInit == Init => Service!Init
<1> SUFFICES ASSUME Init PROVE Service!Init
  OBVIOUS
<1>1. \A c \in Conns : PhaseOf(c) = "idle" /\ ~Published(c)
  <2> SUFFICES ASSUME NEW c \in Conns PROVE PhaseOf(c) = "idle" /\ ~Published(c)
    OBVIOUS
  <2>1. pc[c] = "closed"
    BY DEF Init
  <2> QED BY <2>1, PhaseTable DEF Published
<1>2. {d.picture.request : d \in {e \in done : outputs[e.out] = e.picture}} = {}
  BY DEF Init
<1> QED BY <1>1, <1>2 DEF Init, Service!Init

\* Every step of a thread is a step of the service, or none.
LEMMA ServiceStep == IInv /\ IInv' /\ [Next]_vars => [Service!Next]_Service!vars
<1> SUFFICES ASSUME IInv, IInv', [Next]_vars PROVE [Service!Next]_Service!vars
  OBVIOUS
<1>1. ASSUME NEW c \in Conns,
             Session(c) \/ AcquireInfer(c) \/ Handler(c) \/ Worker(c)
      PROVE  \/ Service!Submit(c) \/ Service!Begin(c) \/ Service!Finish(c)
             \/ Service!Keep(c) \/ Service!Publish(c) \/ Service!Refuse(c)
             \/ Service!Deliver(c) \/ UNCHANGED Service!vars
  BY <1>1, WithinPhase, RefusingSteps, PhaseSteps, RespondDelivers, WriteUploadStep,
     FindImageStep, CleanOutputStep, CleanUploadsStep
  DEF Session, Handler, Worker
<1>2. ASSUME UNCHANGED <<pc, req, rid, reply, received, done>>
      PROVE  UNCHANGED Service!vars
  <2>1. \A c \in Conns : PhaseOf(c)' = PhaseOf(c) /\ AnswerOf(c)' = AnswerOf(c)
    BY <1>2 DEF PhaseOf, AnswerOf, Published
  <2>2. Gallery' = Gallery
    BY <1>2, GallerySame
  <2> QED BY <1>2, <2>1, <2>2 DEF Service!vars, AnswerOf, Gallery
<1>3. CASE Tick
  BY <1>2, <1>3 DEF Tick, locals, history
<1>4. CASE UNCHANGED vars
  BY <1>2, <1>4 DEF vars, locals, history
<1> QED BY <1>1, <1>3, <1>4 DEF Next, Service!Next

\* The server, with its threads, its mutex and its files, implements the abstract
\* service: one rendering at a time, each answer its own picture, and no kept
\* picture ever lost.
THEOREM ServiceImplemented == Spec => ImplementsService
<1>1. Spec => []IInv
  BY Invariance
<1>2. QED
  BY <1>1, ServiceInit, ServiceStep, PTL DEF Spec, ImplementsService, Service!Spec

=============================================================================
