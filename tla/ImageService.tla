---------------------------- MODULE ImageService ----------------------------
(***************************************************************************)
(* What the image server promises, with no threads, mutexes or files.      *)
(*                                                                         *)
(* A connection submits a request and gets a ticket of its own.  Requests  *)
(* render one at a time.  A request that rendered may be published: its own *)
(* picture is in the answer.  A refusal may come at any moment before.  A  *)
(* rendered picture may also enter the gallery of pictures kept on disk.   *)
(* What is in the gallery stays in it.                                     *)
(*                                                                         *)
(* InferenceServer is shown to implement this module.                      *)
(***************************************************************************)
EXTENDS Naturals

CONSTANTS Conns, None

VARIABLES
  phase,    \* where each connection's request is
  ticket,   \* the number of each connection's request, 0 without one
  issued,   \* how many tickets were given out
  answer,   \* the ticket of the picture in a ready answer, None without one
  gallery   \* the tickets whose picture the server keeps

vars == <<phase, ticket, issued, answer, gallery>>

Phases == {"idle", "pending", "rendering", "rendered", "answered"}

TypeOK ==
  /\ phase \in [Conns -> Phases]
  /\ issued \in Nat
  /\ ticket \in [Conns -> 0 .. issued]
  /\ answer \in [Conns -> (1 .. issued) \cup {None}]
  /\ gallery \subseteq 1 .. issued

Init ==
  /\ phase = [c \in Conns |-> "idle"]
  /\ ticket = [c \in Conns |-> 0]
  /\ issued = 0
  /\ answer = [c \in Conns |-> None]
  /\ gallery = {}

Submit(c) ==
  /\ phase[c] = "idle"
  /\ phase' = [phase EXCEPT ![c] = "pending"]
  /\ issued' = issued + 1
  /\ ticket' = [ticket EXCEPT ![c] = issued + 1]
  /\ UNCHANGED <<answer, gallery>>

Begin(c) ==
  /\ phase[c] = "pending"
  /\ \A d \in Conns : phase[d] # "rendering"
  /\ phase' = [phase EXCEPT ![c] = "rendering"]
  /\ UNCHANGED <<ticket, issued, answer, gallery>>

Finish(c) ==
  /\ phase[c] = "rendering"
  /\ phase' = [phase EXCEPT ![c] = "rendered"]
  /\ UNCHANGED <<ticket, issued, answer, gallery>>

\* The picture of a rendered request may enter the gallery, before its answer
\* or together with it, and whatever the answer is.
MayKeep(c) == gallery' \in {gallery, gallery \cup {ticket[c]}}

Keep(c) ==
  /\ phase[c] = "rendered"
  /\ MayKeep(c)
  /\ UNCHANGED <<phase, ticket, issued, answer>>

Publish(c) ==
  /\ phase[c] = "rendered"
  /\ phase' = [phase EXCEPT ![c] = "answered"]
  /\ answer' = [answer EXCEPT ![c] = ticket[c]]
  /\ MayKeep(c)
  /\ UNCHANGED <<ticket, issued>>

\* An answer without a picture of its own: an error, or a request for none.
Refuse(c) ==
  /\ phase[c] \in {"pending", "rendering", "rendered"}
  /\ phase' = [phase EXCEPT ![c] = "answered"]
  /\ IF phase[c] = "rendered" THEN MayKeep(c) ELSE UNCHANGED gallery
  /\ UNCHANGED <<ticket, issued, answer>>

Deliver(c) ==
  /\ phase[c] = "answered"
  /\ phase' = [phase EXCEPT ![c] = "idle"]
  /\ ticket' = [ticket EXCEPT ![c] = 0]
  /\ answer' = [answer EXCEPT ![c] = None]
  /\ UNCHANGED <<issued, gallery>>

Next ==
  \E c \in Conns :
    \/ Submit(c) \/ Begin(c) \/ Finish(c) \/ Keep(c)
    \/ Publish(c) \/ Refuse(c) \/ Deliver(c)

Spec == Init /\ [][Next]_vars

=============================================================================
