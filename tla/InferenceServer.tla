-------------------------- MODULE InferenceServer --------------------------
(***************************************************************************)
(* The request path of vgf-serve: one thread per connection, the routes    *)
(* of handle_request, the inference mutex, the external worker process,    *)
(* and the image files that requests share in the output directory.        *)
(*                                                                         *)
(* A connection's thread is pc[c]; every step is the code between two      *)
(* accesses to something another thread can see (the mutex, a file, the    *)
(* remembered generation info, the clock).                                 *)
(***************************************************************************)
EXTENDS Naturals

CONSTANTS
  Conns,        \* connection slots; each is served by a thread of its own
  Requests,     \* the requests clients may send
  KeepImages,   \* config::keep_images
  DiskFaults,   \* may a file write be lost, may a file read fail?
  MaxRequests,  \* bound: requests received in a behaviour
  MaxMs,        \* bound: milliseconds the system clock advances
  None, Absent, Partial

Routes == {"generations", "txt2img", "edits", "images", "chat"}

\* What may be wrong with a request: rejected while it is parsed; a bad number
\* in a part that follows the uploaded image; a prompt that is not UTF-8.
Faults == {"none", "rejected", "late", "text"}

RequestType ==
  [route : Routes, url : BOOLEAN, upload : BOOLEAN, edit : BOOLEAN, fault : Faults]

\* Only generations take a response_format; only edits carry an image, which an
\* edit model is given and any other model is not; a late number needs an image
\* before it; txt2img swallows its parse errors.
WellFormed(r) ==
  /\ r.url => r.route = "generations"
  /\ r.upload => r.route = "edits"
  /\ r.edit => r.upload
  /\ r.fault = "late" => r.upload
  /\ r.fault \in {"rejected", "text"} => r.route \in {"generations", "edits"}

ASSUME RequestsAssumption ==
  /\ Requests \subseteq RequestType
  /\ \A r \in Requests : WellFormed(r)

ASSUME BoundsAssumption ==
  /\ KeepImages \in BOOLEAN
  /\ DiskFaults \in BOOLEAN
  /\ MaxRequests \in Nat
  /\ MaxMs \in Nat

VARIABLES
  clock,     \* system_clock in milliseconds
  infer,     \* the thread that owns g_infer_mutex, or None
  jobs,      \* job_counter of run_worker
  info,      \* g_last_generation_info, by the request it describes
  uploads,   \* the upload files of the output directory
  outputs,   \* the output files of the output directory
  received,  \* requests received so far; numbers the requests
  pc,        \* where each connection's thread is
  req,       \* the request it handles
  rid,       \* that request's number
  upload,    \* params.input_images: the name of its upload, or None
  out,       \* fullpath in run_worker, then WorkerResult::image_path
  seen,      \* what the worker read from the --input_image file
  target,    \* the file a GET /images/ asks for
  reply      \* the response under construction

\* History variables: they record the past and guard no step.
VARIABLES
  done,      \* every image whose request got as far as cleaning up after it
  clashed    \* upload names that two requests used at the same time

files == <<uploads, outputs>>
shared == <<clock, infer, jobs, info>>
locals == <<req, rid, upload, out, seen, target, reply>>
history == <<done, clashed>>
vars == <<shared, files, received, pc, locals, history>>

Ids == 1 .. MaxRequests
Ms == 0 .. MaxMs

\* "upload_<ms>_<n>.png": n is params.input_images.size() before the push, and
\* only a request's first image is saved, so n is always 0.
UploadName(ms) == ms
UploadNames == Ms

\* Mutant: the name without the job counter.
OutputNameWithoutJob(ms, job) == <<ms, 1>>

\* Mutant: the name without the clock.
OutputNameByJob(ms, job) == <<0, job>>

\* "output_<ms>_<job>.png".
OutputName(ms, job) == <<ms, job>>
OutputNames == Ms \X Ids

\* A file holds the picture or the bytes of a request, part of them, or is not
\* there.
UploadContent == Ids \cup {Absent, Partial}
Picture == [request : Ids, input : UploadContent \cup {None}]
OutputContent == Picture \cup {Absent, Partial}

ASSUME NullsAssumption ==
  /\ None \notin Conns \cup Nat \cup OutputNames \cup Picture
  /\ Absent \notin Nat \cup Picture
  /\ Partial \notin Nat \cup Picture
  /\ None # Absent /\ None # Partial /\ Absent # Partial

Reply ==
  [status : {200, 400, 404, 500},
   image : Picture \cup {Partial, None},
   info : Ids \cup {None}]
Image(p) == [status |-> 200, image |-> p, info |-> None]
Info(i) == [status |-> 200, image |-> None, info |-> i]
Error(status) == [status |-> status, image |-> None, info |-> None]

\* Threads inside run_worker, which is only called with g_infer_mutex held.
Critical == {"preparing", "running", "rendering", "rendered"}

PCs == Critical \cup
  {"closed", "reading", "parsing", "saving", "waiting", "building", "cleaning",
   "sweeping", "catching", "fetching", "responding"}

TypeOK ==
  /\ clock \in Ms
  /\ infer \in Conns \cup {None}
  /\ jobs \in 0 .. MaxRequests
  /\ info \in Ids \cup {None}
  /\ uploads \in [UploadNames -> UploadContent]
  /\ outputs \in [OutputNames -> OutputContent]
  /\ received \in 0 .. MaxRequests
  /\ pc \in [Conns -> PCs]
  /\ req \in [Conns -> Requests \cup {None}]
  /\ rid \in [Conns -> 0 .. MaxRequests]
  /\ upload \in [Conns -> UploadNames \cup {None}]
  /\ out \in [Conns -> OutputNames \cup {None}]
  /\ seen \in [Conns -> UploadContent \cup {None}]
  /\ target \in [Conns -> OutputNames \cup {None}]
  /\ reply \in [Conns -> Reply \cup {None}]
  /\ done \subseteq [out : OutputNames, url : BOOLEAN, picture : Picture]
  /\ clashed \subseteq UploadNames

Init ==
  /\ clock = 0
  /\ infer = None
  /\ jobs = 0
  /\ info = None
  /\ uploads = [f \in UploadNames |-> Absent]
  /\ outputs = [f \in OutputNames |-> Absent]
  /\ received = 0
  /\ pc = [c \in Conns |-> "closed"]
  /\ req = [c \in Conns |-> None]
  /\ rid = [c \in Conns |-> 0]
  /\ upload = [c \in Conns |-> None]
  /\ out = [c \in Conns |-> None]
  /\ seen = [c \in Conns |-> None]
  /\ target = [c \in Conns |-> None]
  /\ reply = [c \in Conns |-> None]
  /\ done = {}
  /\ clashed = {}

Goto(c, label) == pc' = [pc EXCEPT ![c] = label]
Answer(c, r) == reply' = [reply EXCEPT ![c] = r]

-----------------------------------------------------------------------------
(* The connection: run_server's accept loop and do_session's read loop.    *)

Accept(c) ==
  /\ pc[c] = "closed"
  /\ Goto(c, "reading")
  /\ UNCHANGED <<shared, files, received, locals, history>>

\* The client went away, or the read failed.
Disconnect(c) ==
  /\ pc[c] = "reading"
  /\ Goto(c, "closed")
  /\ UNCHANGED <<shared, files, received, locals, history>>

Receive(c) ==
  /\ pc[c] = "reading"
  /\ received < MaxRequests
  /\ received' = received + 1
  /\ rid' = [rid EXCEPT ![c] = received + 1]
  /\ \E r \in Requests : req' = [req EXCEPT ![c] = r]
  /\ Goto(c, "parsing")
  /\ UNCHANGED <<shared, files, upload, out, seen, target, reply, history>>

\* The response is written, or the write fails; the connection stays open
\* (keep-alive) or ends.  The request's locals go out of scope.
Respond(c) ==
  /\ pc[c] = "responding"
  /\ \E label \in {"reading", "closed"} : Goto(c, label)
  /\ req' = [req EXCEPT ![c] = None]
  /\ rid' = [rid EXCEPT ![c] = 0]
  /\ upload' = [upload EXCEPT ![c] = None]
  /\ out' = [out EXCEPT ![c] = None]
  /\ seen' = [seen EXCEPT ![c] = None]
  /\ target' = [target EXCEPT ![c] = None]
  /\ Answer(c, None)
  /\ UNCHANGED <<shared, files, received, history>>

-----------------------------------------------------------------------------
(* Parsing: parse_request, parse_automatic1111_txt2img_request and          *)
(* parse_multipart_request.                                                 *)

\* A number too long for std::stoi, a missing multipart boundary, an output
\* directory that cannot be created (500), or a wrong Content-Type (400).
Reject(c) ==
  /\ pc[c] = "parsing"
  /\ req[c].fault = "rejected"
  /\ \/ Answer(c, Error(500))
     \/ req[c].route = "edits" /\ Answer(c, Error(400))
  /\ Goto(c, "responding")
  /\ UNCHANGED <<shared, files, received, req, rid, upload, out, seen, target,
                 history>>

\* The request is parsed and its model alias resolved; no upload to save.
ParseImageRequest(c) ==
  /\ pc[c] = "parsing"
  /\ req[c].route \in {"generations", "txt2img", "edits"}
  /\ req[c].fault # "rejected" /\ ~req[c].upload
  /\ Goto(c, "waiting")
  /\ UNCHANGED <<shared, files, received, locals, history>>

\* std::ofstream(save_path) creates the file, or truncates the one another
\* request made in the same millisecond.
OpenUpload(c) ==
  LET name == UploadName(clock) IN
  /\ pc[c] = "parsing"
  /\ req[c].upload /\ req[c].fault # "rejected"
  /\ upload' = [upload EXCEPT ![c] = name]
  /\ uploads' = [uploads EXCEPT ![name] = Partial]
  /\ clashed' = IF \E d \in Conns : upload[d] = name THEN clashed \cup {name}
                                                     ELSE clashed
  /\ Goto(c, "saving")
  /\ UNCHANGED <<shared, outputs, received, req, rid, out, seen, target, reply,
                 done>>

\* What is in the file once c has written and closed it: nothing reaches a
\* file that was unlinked meanwhile, two writers of one file mix their bytes,
\* and a failed write goes unnoticed.
WrittenUpload(c) ==
  LET found == uploads[upload[c]] IN
  CASE found = Absent  -> {Absent}
    [] found = Partial -> {rid[c]} \cup (IF DiskFaults THEN {Partial} ELSE {})
    [] OTHER           -> {rid[c], Partial}

\* The rest of the upload and of the parts after it.  A number that does not
\* parse throws out of the handler before its try block.
WriteUpload(c) ==
  /\ pc[c] = "saving"
  /\ \E content \in WrittenUpload(c) :
       uploads' = [uploads EXCEPT ![upload[c]] = content]
  /\ IF req[c].fault = "late"
       THEN Goto(c, "responding") /\ Answer(c, Error(500))
       ELSE Goto(c, "waiting") /\ UNCHANGED reply
  /\ UNCHANGED <<shared, outputs, received, req, rid, upload, out, seen, target,
                 history>>

-----------------------------------------------------------------------------
(* run_worker, under g_infer_mutex.                                         *)

\* Mutant: run_worker called without the lock_guard.
AcquireInferUnguarded(c) ==
  /\ pc[c] = "waiting"
  /\ infer' = c
  /\ Goto(c, "preparing")
  /\ UNCHANGED <<clock, jobs, info, files, received, locals, history>>

\* std::lock_guard<std::mutex> lock(g_infer_mutex).
AcquireInfer(c) ==
  /\ pc[c] = "waiting"
  /\ infer = None
  /\ infer' = c
  /\ Goto(c, "preparing")
  /\ UNCHANGED <<clock, jobs, info, files, received, locals, history>>

\* Mutant: lock() and unlock() by hand, the latter skipped by the exception.
UnwindLocked(c) ==
  /\ infer' = infer
  /\ Answer(c, Error(500))
  /\ Goto(c, IF req[c].route = "edits" THEN "catching" ELSE "responding")

\* An exception leaves run_worker: the lock_guard unlocks, and an edit goes on
\* to its catch block.
Unwind(c) ==
  /\ infer' = None
  /\ Answer(c, Error(500))
  /\ Goto(c, IF req[c].route = "edits" THEN "catching" ELSE "responding")

\* No such LoRA, weights that cannot be prepared, or missing worker files.
PrepareFails(c) ==
  /\ pc[c] = "preparing"
  /\ Unwind(c)
  /\ UNCHANGED <<clock, jobs, info, files, received, req, rid, upload, out,
                 seen, target, history>>

\* The output file is named and the worker process started.
LaunchWorker(c) ==
  /\ pc[c] = "preparing"
  /\ jobs < MaxRequests
  /\ jobs' = jobs + 1
  /\ out' = [out EXCEPT ![c] = OutputName(clock, jobs + 1)]
  /\ Goto(c, "running")
  /\ UNCHANGED <<clock, infer, info, files, received, req, rid, upload, seen,
                 target, reply, history>>

\* The worker reads its input image and starts to write its output.
WorkerReads(c) ==
  /\ pc[c] = "running"
  /\ seen' = [seen EXCEPT
       ![c] = IF req[c].edit /\ upload[c] # None THEN uploads[upload[c]] ELSE None]
  /\ outputs' = [outputs EXCEPT ![out[c]] = Partial]
  /\ Goto(c, "rendering")
  /\ UNCHANGED <<shared, uploads, received, req, rid, upload, out, target, reply,
                 history>>

\* Mutant: the info is remembered by run_worker, before the read-back.
WorkerSucceedsRemembered(c) ==
  /\ pc[c] = "rendering"
  /\ outputs' = [outputs EXCEPT ![out[c]] = [request |-> rid[c], input |-> seen[c]]]
  /\ info' = rid[c]
  /\ Goto(c, "rendered")
  /\ UNCHANGED <<clock, infer, jobs, uploads, received, locals, history>>

\* The worker closes its output and exits with code 0, which is taken to mean that
\* the picture is whole: run_worker looks at the code and that there is a file.
WorkerSucceeds(c) ==
  /\ pc[c] = "rendering"
  /\ outputs' = [outputs EXCEPT ![out[c]] = [request |-> rid[c], input |-> seen[c]]]
  /\ Goto(c, "rendered")
  /\ UNCHANGED <<shared, uploads, received, locals, history>>

\* The worker cannot be started, exits with a non-zero code wherever it is, or
\* exits with code 0 and no output file.
WorkerFails(c) ==
  /\ pc[c] \in {"running", "rendering"}
  /\ Unwind(c)
  /\ UNCHANGED <<clock, jobs, info, files, received, req, rid, upload, out,
                 seen, target, history>>

\* run_worker returns and the lock_guard unlocks.
ReleaseInfer(c) ==
  /\ pc[c] = "rendered"
  /\ infer' = None
  /\ Goto(c, "building")
  /\ UNCHANGED <<clock, jobs, info, files, received, locals, history>>

-----------------------------------------------------------------------------
(* After the worker, outside the mutex.                                     *)

\* build_image_response_body and build_automatic1111_response_body: read the
\* output file, remember the generation info, build the JSON.
BuildResponse(c) ==
  /\ pc[c] = "building"
  /\ outputs[out[c]] # Absent
  /\ Answer(c, Image(outputs[out[c]]))
  /\ info' = rid[c]
  /\ Goto(c, "cleaning")
  /\ UNCHANGED <<clock, infer, jobs, files, received, req, rid, upload, out,
                 seen, target, history>>

\* read_binary_file throws; nothing was remembered, nothing is cleaned up.
BuildFails(c) ==
  /\ pc[c] = "building"
  /\ outputs[out[c]] = Absent \/ DiskFaults
  /\ Answer(c, Error(500))
  /\ Goto(c, "responding")
  /\ UNCHANGED <<shared, files, received, req, rid, upload, out, seen, target,
                 history>>

\* Mutant: the response format is forgotten.
KeepOutputByFlag(r) == KeepImages

\* A "url" response format keeps a generation's image; the other two routes go
\* by the flag alone.
KeepOutput(r) == KeepImages \/ (r.route = "generations" /\ r.url)

\* make_json_response: body.dump() throws on a prompt that is not UTF-8.
Serialize(c) ==
  /\ IF req[c].fault = "text" THEN Answer(c, Error(500)) ELSE UNCHANGED reply
  /\ Goto(c, "responding")

\* cleanup_generated_image, the last thing the routes but edits do.
CleanOutput(c) ==
  /\ pc[c] = "cleaning"
  /\ outputs' = IF KeepOutput(req[c]) THEN outputs
                                      ELSE [outputs EXCEPT ![out[c]] = Absent]
  /\ done' = done \cup
       {[out |-> out[c], url |-> req[c].url, picture |-> reply[c].image]}
  /\ IF req[c].route = "edits" THEN Goto(c, "sweeping") /\ UNCHANGED reply
                               ELSE Serialize(c)
  /\ UNCHANGED <<shared, uploads, received, req, rid, upload, out, seen, target,
                 clashed>>

\* Mutant: the name of the upload is made again instead of remembered.
RemoveUploadsByClock(c) == uploads' = [uploads EXCEPT ![UploadName(clock)] = Absent]

\* cleanup_uploaded_images.
RemoveUploads(c) ==
  uploads' = IF upload[c] = None THEN uploads
                                 ELSE [uploads EXCEPT ![upload[c]] = Absent]

CleanUploads(c) ==
  /\ pc[c] = "sweeping"
  /\ RemoveUploads(c)
  /\ Serialize(c)
  /\ UNCHANGED <<shared, outputs, received, req, rid, upload, out, seen, target,
                 history>>

\* Mutant: no catch block around the locked run_worker.
CatchNothing(c) ==
  /\ pc[c] = "catching"
  /\ Goto(c, "responding")
  /\ UNCHANGED <<shared, files, received, locals, history>>

\* The catch block of handle_image_edit.
CatchUploads(c) ==
  /\ pc[c] = "catching"
  /\ RemoveUploads(c)
  /\ Goto(c, "responding")
  /\ UNCHANGED <<shared, outputs, received, locals, history>>

-----------------------------------------------------------------------------
(* The routes that render nothing.                                          *)

\* handle_get_image_file: the file exists, or 404.
FindImage(c) ==
  /\ pc[c] = "parsing"
  /\ req[c].route = "images"
  /\ \E f \in OutputNames :
       /\ target' = [target EXCEPT ![c] = f]
       /\ IF outputs[f] = Absent
            THEN Goto(c, "responding") /\ Answer(c, Error(404))
            ELSE Goto(c, "fetching") /\ UNCHANGED reply
  /\ UNCHANGED <<shared, files, received, req, rid, upload, out, seen, history>>

\* ... and is read, unless it was removed since.
FetchImage(c) ==
  /\ pc[c] = "fetching"
  /\ \/ outputs[target[c]] # Absent /\ Answer(c, Image(outputs[target[c]]))
     \/ (outputs[target[c]] = Absent \/ DiskFaults) /\ Answer(c, Error(500))
  /\ Goto(c, "responding")
  /\ UNCHANGED <<shared, files, received, req, rid, upload, out, seen, target,
                 history>>

\* /v1/chat/completions: the answer carries the last generation info.
Chat(c) ==
  /\ pc[c] = "parsing"
  /\ req[c].route = "chat"
  /\ Answer(c, Info(info))
  /\ Goto(c, "responding")
  /\ UNCHANGED <<shared, files, received, req, rid, upload, out, seen, target,
                 history>>

Tick ==
  /\ clock < MaxMs
  /\ clock' = clock + 1
  /\ UNCHANGED <<infer, jobs, info, files, received, pc, locals, history>>

-----------------------------------------------------------------------------
Session(c) == Accept(c) \/ Disconnect(c) \/ Receive(c) \/ Respond(c)

Worker(c) == WorkerReads(c) \/ WorkerSucceeds(c) \/ WorkerFails(c)

\* The steps a handler takes on its own, once it has what it waits for.
Handler(c) ==
  \/ Reject(c) \/ ParseImageRequest(c) \/ OpenUpload(c) \/ WriteUpload(c)
  \/ PrepareFails(c) \/ LaunchWorker(c) \/ ReleaseInfer(c)
  \/ BuildResponse(c) \/ BuildFails(c)
  \/ CleanOutput(c) \/ CleanUploads(c) \/ CatchUploads(c)
  \/ FindImage(c) \/ FetchImage(c) \/ Chat(c)

Next ==
  \/ Tick
  \/ \E c \in Conns :
       Session(c) \/ AcquireInfer(c) \/ Handler(c) \/ Worker(c)

Spec == Init /\ [][Next]_vars

\* Threads run and the worker executable terminates; the mutex, once free, goes
\* to some waiting thread, of the operating system's choice.  Nothing is asked
\* of clients, nor of the clock.
Fairness ==
  /\ \A c \in Conns : WF_vars(Handler(c)) /\ WF_vars(Worker(c))
  /\ WF_vars(\E c \in Conns : AcquireInfer(c))

-----------------------------------------------------------------------------
(* What must hold.                                                          *)

\* The route's handler calls run_worker.
Renders(r) == r.route \in {"generations", "txt2img", "edits"}

\* c is about to send a picture it asked for.
Published(c) ==
  pc[c] = "responding" /\ Renders(req[c]) /\ reply[c].status = 200

\* A picture whose request asked for it to stay, or that the flag keeps.
Retained(d) == KeepImages \/ d.url

\* At most one worker runs at any moment, and only for the thread that owns
\* g_infer_mutex: every way out of run_worker, thrown or returned, unlocks it.
OneWorkerAtATime ==
  \A c \in Conns : pc[c] \in Critical <=> infer = c

\* An image answer carries the picture of the request it answers, and all of it,
\* although the output file is read back after the mutex is released and other
\* workers may be writing theirs by then.
OwnPicture ==
  \A c \in Conns :
    Published(c) => reply[c].image \in Picture /\ reply[c].image.request = rid[c]

\* An edit is made from the image it was sent with, unless another request in flight
\* saved its image under the same name; from all of it unless the disk lost a write.
OwnInput ==
  \A c \in Conns :
    Published(c) /\ req[c].edit /\ upload[c] \notin clashed =>
      \/ reply[c].image.input = rid[c]
      \/ DiskFaults /\ reply[c].image.input = Partial

\* From the clean-up of a request on, for ever: its picture is on disk, intact,
\* if keep_images or its response format says so, and gone otherwise.
RetentionPolicy ==
  \A d \in done :
    outputs[d.out] = IF Retained(d) THEN d.picture ELSE Absent

\* An upload file never outlives the request that saved it.  (True as long as
\* neither a late parse error nor a failed read-back is possible; see
\* UploadsRemovedAfterRequests.)
UploadsOwned ==
  \A f \in UploadNames :
    uploads[f] # Absent => \E c \in Conns : upload[c] = f

\* The remembered generation info, which chat completions answer with, is the
\* info of a picture that was rendered and read back, never of a failed run.
InfoOfRenderedPicture ==
  info # None =>
    \/ \E d \in done : d.picture.request = info
    \/ \E c \in Conns : pc[c] = "cleaning" /\ rid[c] = info

\* A GET of a picture whose request is over and that is retained is answered
\* with that picture, whole: it finds the file, and the file is still there and
\* unchanged when it is read.  (Unless the disk read itself fails.)
ServeRetained ==
  \A c \in Conns, d \in done :
    Retained(d) /\ target'[c] = d.out /\ pc'[c] # pc[c] =>
      /\ pc[c] = "parsing" => pc'[c] = "fetching"
      /\ pc[c] = "fetching" => reply'[c] = Image(d.picture)

RetainedPictureServed == [][ServeRetained]_vars

\* Every request the server has received is answered, also behind a queue of
\* other requests and behind failed workers (the load being finite).
EveryRequestAnswered ==
  \A c \in Conns : pc[c] = "parsing" ~> pc[c] = "responding"

\* The server implements the abstract service.
PhaseOf(c) ==
  CASE pc[c] \in {"closed", "reading"} -> "idle"
    [] pc[c] \in {"parsing", "saving", "waiting", "fetching"} -> "pending"
    [] pc[c] \in Critical -> "rendering"
    [] pc[c] \in {"building", "cleaning", "sweeping"} -> "rendered"
    [] OTHER -> "answered"

Service == INSTANCE ImageService WITH
  phase <- [c \in Conns |-> PhaseOf(c)],
  ticket <- rid,
  issued <- received,
  answer <- [c \in Conns |-> IF Published(c) THEN reply[c].image.request ELSE None],
  gallery <- {d.picture.request : d \in {e \in done : outputs[e.out] = e.picture}}

\* Every step of the threads is a step of the service or none: one rendering at
\* a time, each answer its own picture, and nothing kept ever lost.
ImplementsService == Service!Spec

-----------------------------------------------------------------------------
(* The inductive invariant of the proofs.                                   *)

IsIdle(c) == pc[c] \in {"closed", "reading"}

\* Threads whose output file is named and not yet given up or handed over.
OwnsOutput == {"running", "rendering", "rendered", "building", "cleaning"}

\* What the locals of a thread hold, by where the thread is.
Shape ==
  \A c \in Conns :
    /\ IsIdle(c) => upload[c] = None /\ out[c] = None /\ reply[c] = None
    /\ ~IsIdle(c) => req[c] \in Requests /\ rid[c] \in 1 .. received
    /\ pc[c] = "parsing" => upload[c] = None
    /\ pc[c] = "saving" => upload[c] \in UploadNames
    /\ pc[c] \in {"parsing", "saving", "waiting", "preparing", "fetching"} =>
         out[c] = None
    /\ pc[c] \in OwnsOutput \cup {"sweeping"} => out[c] \in OutputNames
    /\ pc[c] \in OwnsOutput \cup {"saving", "waiting", "preparing", "sweeping"} =>
         Renders(req[c])
    /\ pc[c] \notin {"fetching", "responding"} => target[c] = None
    /\ pc[c] = "fetching" => target[c] \in OutputNames /\ ~Renders(req[c])

\* Requests in progress are told apart by their numbers, output files by their
\* job: no two threads name the same file, and the file of a finished request
\* is named by no thread that may still write or remove it.
NamesApart ==
  /\ \A c \in Conns : out[c] # None => out[c][2] \in 1 .. jobs
  /\ \A c, d \in Conns : c # d /\ out[c] # None /\ out[d] # None =>
       out[c][2] # out[d][2]
  /\ \A e \in done : e.out[2] \in 1 .. jobs
  /\ \A e \in done, c \in Conns : pc[c] \in OwnsOutput => out[c][2] # e.out[2]

\* From the worker's exit to the answer, a request's picture is its own, in its
\* file first and in its response then.
PictureFollowed ==
  \A c \in Conns :
    /\ pc[c] \in {"rendered", "building"} =>
         outputs[out[c]] \in Picture /\ outputs[out[c]].request = rid[c]
    /\ pc[c] = "cleaning" => outputs[out[c]] = reply[c].image
    /\ pc[c] \in {"cleaning", "sweeping"} =>
         /\ reply[c] \in Reply /\ reply[c].status = 200
         /\ reply[c].image \in Picture /\ reply[c].image.request = rid[c]
    /\ pc[c] = "catching" => reply[c].status = 500
    /\ pc[c] \in {"catching", "responding"} => reply[c] \in Reply

\* RetentionPolicy and OwnPicture are not inductive: whether a finished picture
\* stays what it is depends on who may still name its file.
IInv ==
  /\ TypeOK
  /\ Shape
  /\ NamesApart
  /\ OneWorkerAtATime
  /\ PictureFollowed
  /\ OwnPicture
  /\ RetentionPolicy

\* An upload name is shared only where the clash was noted.
ClashesNoted ==
  \A c, d \in Conns :
    c # d /\ upload[c] # None /\ upload[c] = upload[d] => upload[c] \in clashed

\* From the upload to the answer: a thread whose upload name is its own finds its
\* image in the file, in what the worker read, in the picture, in the response.
Whole(c, content) == content = rid[c] \/ (DiskFaults /\ content = Partial)

Followed(c) ==
  /\ pc[c] = "saving" => uploads[upload[c]] = Partial
  /\ pc[c] \in {"waiting", "preparing", "running"} => Whole(c, uploads[upload[c]])
  /\ req[c].edit =>
       /\ pc[c] = "rendering" => Whole(c, seen[c])
       /\ pc[c] \in {"rendered", "building"} => Whole(c, outputs[out[c]].input)
       /\ pc[c] \in {"cleaning", "sweeping"} => Whole(c, reply[c].image.input)

InputFollowed ==
  \A c \in Conns : upload[c] # None /\ upload[c] \notin clashed => Followed(c)

\* Requests that bring an image, and no others, have an upload once it is saved.
UploadsMatch ==
  \A c \in Conns :
    /\ upload[c] # None => req[c] \in Requests /\ req[c].upload
    /\ ~IsIdle(c) /\ pc[c] \notin {"parsing", "responding"} /\ req[c].upload =>
         upload[c] # None

InputIInv == ClashesNoted /\ UploadsMatch /\ InputFollowed /\ OwnInput

\* Threads that still have to remove their upload.
HoldsUpload ==
  {"saving", "waiting", "cleaning", "sweeping", "catching", "building"} \cup Critical

\* UploadsOwned, with the reason: who owns a file is not done with it yet.
UploadsHeld ==
  \A f \in UploadNames :
    uploads[f] # Absent => \E c \in Conns : pc[c] \in HoldsUpload /\ upload[c] = f

-----------------------------------------------------------------------------
(* What worker.hpp says of the clean-up, and the code does not do.          *)

Idle == \A c \in Conns : pc[c] \in {"closed", "reading"}

\* "Remove generated or uploaded images after a request": no upload is left when
\* no request is in flight.
UploadsRemovedAfterRequests == Idle => \A f \in UploadNames : uploads[f] = Absent

\* ... and no picture is, unless it is to be kept.
OutputsRemovedAfterRequests ==
  Idle => \A f \in OutputNames :
    outputs[f] # Absent => \E d \in done : d.out = f /\ Retained(d)

\* "... after a request", not before: an upload is still there when the worker
\* of its request is about to read it.
UploadOutlivesItsUse ==
  \A c \in Conns :
    pc[c] \in {"waiting", "preparing", "running"} /\ upload[c] # None =>
      uploads[upload[c]] # Absent

=============================================================================
