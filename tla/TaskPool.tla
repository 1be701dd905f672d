------------------------------- MODULE TaskPool -------------------------------
(***************************************************************************)
(* What a thread pool promises to the code that uses it, whatever threads, *)
(* locks and wake-ups it is made of: submitted tasks are started in the    *)
(* order of submission, each is run at most once and never both run and    *)
(* discarded, and the pool is closed only when nothing of it is left       *)
(* running and nothing is queued that was not abandoned.  Making the pool  *)
(* smaller gives its threads up: what they execute is not waited for.      *)
(* ThreadPool implements this module; BlockLoop is written against it.     *)
(***************************************************************************)
EXTENDS Sequences

CONSTANTS
  Tasks,       \* the tasks a client may submit, each at most once
  MayAbandon,  \* BOOLEAN: the client throws queued tasks away, or stops the pool by
               \* hand and may go on submitting
  MayShrink    \* BOOLEAN: the client makes the pool smaller

VARIABLES
  waiting,     \* the submitted tasks no thread has started, oldest first
  running,     \* the tasks being executed
  loose,       \* those executed by threads that the pool has given up
  finished,    \* the tasks whose result is available
  discarded,   \* the tasks deleted without having been run
  closed       \* the pool no longer exists

poolVars == <<waiting, running, loose, finished, discarded, closed>>

Waiting == {waiting[i] : i \in DOMAIN waiting}

Init ==
  /\ waiting = <<>>
  /\ running = {}
  /\ loose = {}
  /\ finished = {}
  /\ discarded = {}
  /\ closed = FALSE

Submit(t) ==
  /\ ~closed
  /\ t \notin Waiting \cup running \cup loose \cup finished \cup discarded
  /\ waiting' = Append(waiting, t)
  /\ UNCHANGED <<running, loose, finished, discarded, closed>>

Begin ==
  /\ waiting # <<>>
  /\ waiting' = Tail(waiting)
  /\ \/ /\ ~closed
        /\ running' = running \cup {Head(waiting)}
        /\ UNCHANGED loose
     \/ /\ MayShrink
        /\ loose' = loose \cup {Head(waiting)}
        /\ UNCHANGED running
  /\ UNCHANGED <<finished, discarded, closed>>

Finish(t) ==
  /\ (t \in running /\ ~closed) \/ t \in loose
  /\ running' = running \ {t}
  /\ loose' = loose \ {t}
  /\ finished' = finished \cup {t}
  /\ UNCHANGED <<waiting, discarded, closed>>

GiveUp(T) ==
  /\ ~closed
  /\ MayShrink
  /\ T \subseteq running
  /\ running' = running \ T
  /\ loose' = loose \cup T
  /\ UNCHANGED <<waiting, finished, discarded, closed>>

Discard ==
  /\ ~closed
  /\ MayAbandon
  /\ waiting # <<>>
  /\ waiting' = Tail(waiting)
  /\ discarded' = discarded \cup {Head(waiting)}
  /\ UNCHANGED <<running, loose, finished, closed>>

Close ==
  /\ ~closed
  /\ waiting = <<>> \/ MayAbandon
  /\ running = {}
  /\ closed' = TRUE
  /\ UNCHANGED <<waiting, running, loose, finished, discarded>>

Next ==
  \/ \E t \in Tasks : Submit(t) \/ Finish(t)
  \/ Begin
  \/ \E T \in SUBSET running : GiveUp(T)
  \/ Discard
  \/ Close

Spec == Init /\ [][Next]_poolVars

(***************************************************************************)
(* The promise with its liveness: what was submitted gets started, and     *)
(* what was started gets finished.                                         *)
(***************************************************************************)
FairSpec ==
  /\ Spec
  /\ WF_poolVars(Begin)
  /\ \A t \in Tasks : WF_poolVars(Finish(t))
===============================================================================
