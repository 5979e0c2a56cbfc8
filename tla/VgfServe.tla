------------------------------ MODULE VgfServe ------------------------------
(***************************************************************************)
(* The life of the server process.  It may end at any moment: killed, or   *)
(* by an exception that leaves a connection's thread.  Threads, the mutex, *)
(* the remembered info and the job counter go with it; the output          *)
(* directory stays, and so may a worker, which is a process of its own:    *)
(* it goes on reading and writing files while the server is down and while *)
(* the next one serves.                                                    *)
(***************************************************************************)
EXTENDS InferenceServer

CONSTANT MaxCrashes  \* bound: how often the process ends

ASSUME CrashesAssumption == MaxCrashes \in Nat

VARIABLES
  up,       \* does the process run?
  born,     \* the millisecond in which it began to serve
  crashes,  \* how often it has ended
  orphans,  \* workers of processes that ended
  archive   \* history: done, of the processes that ended

life == <<up, born, crashes, orphans, archive>>
lifeVars == <<vars, life>>

OrphanType ==
  [phase : {"running", "rendering"}, life : Nat, out : OutputNames, request : Ids,
   image : UploadNames \cup {None}, seen : UploadContent \cup {None}]

LifeTypeOK ==
  /\ TypeOK
  /\ up \in BOOLEAN
  /\ born \in Ms
  /\ crashes \in 0 .. MaxCrashes
  /\ orphans \subseteq OrphanType
  /\ archive \subseteq [out : OutputNames, url : BOOLEAN, picture : Picture]

LifeInit ==
  /\ Init
  /\ up = TRUE
  /\ born = 0
  /\ crashes = 0
  /\ orphans = {}
  /\ archive = {}

Serve == up /\ (\E c \in Conns :
                  Session(c) \/ AcquireInfer(c) \/ Handler(c) \/ Worker(c))
            /\ UNCHANGED life

TimePasses == Tick /\ UNCHANGED life

\* The worker that c waits for, as a process of its own: what it was told.
WorkerOf(c) ==
  [phase |-> pc[c], life |-> crashes, out |-> out[c], request |-> rid[c],
   image |-> IF req[c].edit THEN upload[c] ELSE None, seen |-> seen[c]]
RunningWorkers == {WorkerOf(c) : c \in {d \in Conns : pc[d] \in {"running", "rendering"}}}

\* The locals of threads that are gone.
NoThreads ==
  /\ pc' = [c \in Conns |-> "closed"]
  /\ req' = [c \in Conns |-> None]
  /\ rid' = [c \in Conns |-> 0]
  /\ upload' = [c \in Conns |-> None]
  /\ out' = [c \in Conns |-> None]
  /\ seen' = [c \in Conns |-> None]
  /\ target' = [c \in Conns |-> None]
  /\ reply' = [c \in Conns |-> None]

\* The process ends; its worker may end with it or not.  (Before MaxMs, so that the
\* bound on the clock leaves a millisecond for the next life.)
Crash ==
  /\ up /\ crashes < MaxCrashes /\ clock < MaxMs
  /\ up' = FALSE
  /\ born' = clock
  /\ crashes' = crashes + 1
  /\ \E left \in {RunningWorkers, {}} : orphans' = orphans \cup left
  /\ archive' = archive \cup done
  /\ NoThreads
  /\ infer' = None /\ info' = None /\ jobs' = 0
  /\ done' = {} /\ clashed' = {}
  /\ UNCHANGED <<clock, files, received>>

\* main, up to run_server: directories are made and weights prepared, in more than
\* a millisecond.  The system's clock is taken not to have been set back.
Restart ==
  /\ ~up /\ clock > born
  /\ up' = TRUE
  /\ born' = clock
  /\ UNCHANGED <<vars, crashes, orphans, archive>>

\* An orphan does what WorkerReads and WorkerSucceeds have a worker do, ...
OrphanReads(o) ==
  /\ o.phase = "running"
  /\ orphans' = (orphans \ {o}) \cup
       {[o EXCEPT !.phase = "rendering",
                  !.seen = IF o.image = None THEN None ELSE uploads[o.image]]}
  /\ outputs' = [outputs EXCEPT ![o.out] = Partial]
  /\ UNCHANGED <<shared, uploads, received, pc, locals, history, up, born, crashes, archive>>

OrphanSucceeds(o) ==
  /\ o.phase = "rendering"
  /\ orphans' = orphans \ {o}
  /\ outputs' = [outputs EXCEPT ![o.out] = [request |-> o.request, input |-> o.seen]]
  /\ UNCHANGED <<shared, uploads, received, pc, locals, history, up, born, crashes, archive>>

\* ... or stops, for one because nobody reads what it prints.
OrphanStops(o) ==
  /\ orphans' = orphans \ {o}
  /\ UNCHANGED <<vars, up, born, crashes, archive>>

LifeNext ==
  \/ Serve \/ TimePasses \/ Crash \/ Restart
  \/ \E o \in orphans : OrphanReads(o) \/ OrphanSucceeds(o) \/ OrphanStops(o)

LifeSpec == LifeInit /\ [][LifeNext]_lifeVars

\* As long as nothing ends the process (MaxCrashes = 0), its threads run as in
\* InferenceServer.
FairLifeSpec == LifeSpec /\ Fairness

-----------------------------------------------------------------------------
(* What must hold.                                                          *)

\* What clean-up left of the pictures of earlier lives stays: those to be kept are
\* there, whole, whatever requests, workers and restarts come after, and the
\* others are gone for good.
ArchiveKept ==
  \A d \in archive :
    outputs[d.out] = IF Retained(d) THEN d.picture ELSE Absent

\* One life leaves at most one worker behind: they pile up with crashes only.
OneOrphanPerLife ==
  \A o, p \in orphans : o.life = p.life => o = p

\* A GET of a picture that an earlier life retained is answered with that picture,
\* as in RetainedPictureServed, unless the disk cannot be read.
ServeArchived ==
  \A c \in Conns, d \in archive :
    up' /\ Retained(d) /\ target'[c] = d.out /\ pc'[c] # pc[c] =>
      /\ pc[c] = "parsing" => pc'[c] = "fetching"
      /\ pc[c] = "fetching" =>
           \/ reply'[c] = Image(d.picture)
           \/ DiskFaults /\ reply'[c] = Error(500)
ArchivedPictureServed == [][ServeArchived]_lifeVars

-----------------------------------------------------------------------------
(* The inductive invariant of the proofs.                                   *)

\* No name of an earlier life can come up again.
OfThePast(name) == IF up THEN name[1] < born ELSE name[1] <= born

NamesOfLives ==
  /\ born <= clock
  /\ \A o \in orphans : OfThePast(o.out)
  /\ \A d \in archive : OfThePast(d.out)
  /\ \A o \in orphans, d \in archive : o.out # d.out
  /\ up => /\ \A c \in Conns : out[c] # None => out[c][1] \in born .. clock
           /\ \A d \in done : d.out[1] \in born .. clock
  /\ ~up => (\A c \in Conns : pc[c] = "closed") /\ done = {}

\* IInv, in every life, and what earlier lives left.
LifeIInv ==
  /\ LifeTypeOK
  /\ IInv
  /\ NamesOfLives
  /\ ArchiveKept
  /\ OneOrphanPerLife
  /\ \A o \in orphans : o.life < crashes

=============================================================================
