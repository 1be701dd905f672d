--------------------------- MODULE ThreadPoolProofs ---------------------------
(***************************************************************************)
(* Theorems about the thread pool, for any number of workers and functors. *)
(* Whatever the client calls: the mutex keeps the wait section exclusive,  *)
(* each functor has one owner at a time, no thread outlives the pool, no   *)
(* wake-up is lost, and every step is one that TaskPool promises.  For     *)
(* the client ReSampler is, which only pushes and destroys, the destructor *)
(* returns only when every functor has been executed.                      *)
(***************************************************************************)
EXTENDS ThreadPool, FiniteSetTheorems, TLAPS
-------------------------------------------------------------------------------
(***************************************************************************)
(* The mutex and n_idle, for a client that calls any methods in any order. *)
(***************************************************************************)
\* The mutex is held exactly by the worker that evaluates the predicate of cv.wait.
Exclusion == \A w \in Workers : mutex = w <=> pc[w] \in InPredicate

Waiting == {w \in Workers : pc[w] \in InWait}

WaitInv ==
  /\ pc \in [Workers -> WorkerPlaces]
  /\ mutex \in Workers \cup {NoWorker}
  /\ Exclusion
  /\ nWaiting = Cardinality(Waiting)

\* Where a worker goes decides whether it is among those that wait.
LEMMA WaitingMoves ==
  ASSUME pc \in [Workers -> WorkerPlaces], NEW w \in Workers, NEW there \in WorkerPlaces,
         Goto(w, there)
  PROVE  /\ pc' \in [Workers -> WorkerPlaces]
         /\ pc'[w] = there /\ \A v \in Workers : v # w => pc'[v] = pc[v]
         /\ Waiting' = IF there \in InWait THEN Waiting \cup {w} ELSE Waiting \ {w}
         /\ w \in Waiting <=> pc[w] \in InWait
<1>1. /\ pc' \in [Workers -> WorkerPlaces]
      /\ pc'[w] = there /\ \A v \in Workers : v # w => pc'[v] = pc[v]
  BY DEF Goto
<1> QED
  BY <1>1 DEF Waiting

\* A worker is counted when it begins to wait, and no more when it has left.
LEMMA WorkerIsCounted ==
  ASSUME WaitInv, NEW w \in Workers, WorkerStep(w) \/ SpuriousWake(w)
  PROVE  /\ pc' \in [Workers -> WorkerPlaces] /\ mutex' \in Workers \cup {NoWorker}
         /\ Exclusion'
         /\ \/ Waiting' = Waiting /\ nWaiting' = nWaiting
            \/ w \notin Waiting /\ Waiting' = Waiting \cup {w} /\ nWaiting' = nWaiting + 1
            \/ w \in Waiting /\ Waiting' = Waiting \ {w} /\ nWaiting' = nWaiting - 1
<1> USE ThreadPoolAssumption
    DEF WaitInv, Exclusion, At, poolState, clientState, WorkerPlaces, InWait, InPredicate
<1>1. CASE PopSome(w)
  BY <1>1, WaitingMoves DEF PopSome
<1>2. CASE PopNone(w)
  <2>1. pc[w] = "pop" /\ Goto(w, "lock") /\ UNCHANGED <<mutex, nWaiting>>
    BY <1>2 DEF PopNone
  <2> QED
    BY <2>1, WaitingMoves
<1>3. CASE Run(w)
  BY <1>3, WaitingMoves DEF Run
<1>4. CASE CheckFlag(w)
  <2>1. PICK there \in {"exited", "pop"} : Goto(w, there)
    BY <1>4 DEF CheckFlag
  <2> QED
    BY <1>4, <2>1, WaitingMoves DEF CheckFlag
<1>5. CASE LockAndWait(w)
  BY <1>5, WaitingMoves DEF LockAndWait
<1>6. CASE TestPopSome(w)
  BY <1>6, WaitingMoves DEF TestPopSome, LeaveWait
<1>7. CASE TestPopNone(w)
  <2>1. pc[w] = "test_pop" /\ Goto(w, "test_done") /\ UNCHANGED <<mutex, nWaiting>>
    BY <1>7 DEF TestPopNone
  <2> QED
    BY <2>1, WaitingMoves
<1>8. CASE TestDone(w)
  <2>1. CASE isDone
    BY <1>8, <2>1, WaitingMoves DEF TestDone, LeaveWait
  <2>2. CASE ~isDone
    BY <1>8, <2>2, WaitingMoves DEF TestDone
  <2> QED
    BY <2>1, <2>2
<1>9. CASE TestFlagExit(w)
  BY <1>9, WaitingMoves DEF TestFlagExit, LeaveWait
<1>10. CASE Sleep(w)
  BY <1>10, WaitingMoves DEF Sleep
<1>11. CASE Relock(w)
  BY <1>11, WaitingMoves DEF Relock
<1>12. CASE SpuriousWake(w)
  BY <1>12, WaitingMoves DEF SpuriousWake
<1> QED
  BY <1>1, <1>2, <1>3, <1>4, <1>5, <1>6,
     <1>7, <1>8, <1>9, <1>10, <1>11, <1>12 DEF WorkerStep

\* The client only wakes sleepers, who are still waiting, and starts threads.
LEMMA ClientLeavesWaiting ==
  ASSUME WaitInv, ClientProgress \/ ClientCall
  PROVE  /\ UNCHANGED <<mutex, nWaiting>>
         /\ pc' \in [Workers -> WorkerPlaces]
         /\ \A v \in Workers : /\ pc'[v] \in InPredicate <=> pc[v] \in InPredicate
                               /\ pc'[v] \in InWait <=> pc[v] \in InWait
<1> USE DEF WaitInv, poolState, workerState, WorkerPlaces, InWait, InPredicate
<1>1. CASE UNCHANGED <<mutex, nWaiting, pc>>
  BY <1>1
<1>2. CASE NotifyOne
  <2>1. CASE Asleep = {}
    BY <1>2, <2>1 DEF NotifyOne
  <2>2. CASE \E v \in Asleep : Goto(v, "woken")
    BY <1>2, <2>2 DEF NotifyOne, Goto, Asleep
  <2> QED
    BY <1>2, <2>1, <2>2 DEF NotifyOne
<1>3. CASE NotifyAll
  BY <1>3 DEF NotifyAll, Asleep
<1>4. CASE \E S \in SUBSET Unborn : Grow(S)
  BY <1>4 DEF Grow, Unborn
<1>5. NotifyOne \/ NotifyAll \/ (\E S \in SUBSET Unborn : Grow(S))
      \/ UNCHANGED <<mutex, nWaiting, pc>>
  BY DEF ClientProgress, ClientCall, ClearSome, ClearDone, Join, Stopped, Push, ClearQueue, Pop,
         Shrink, StopNow, StopWait, Destroy
<1> QED
  BY <1>1, <1>2, <1>3, <1>4, <1>5

LEMMA WaitInvariant == Spec => []WaitInv
<1>1. Init => WaitInv
  <2> SUFFICES ASSUME Init PROVE WaitInv
    OBVIOUS
  <2>1. Waiting = {}
    BY DEF Init, Waiting, InWait, InPredicate
  <2>2. pc \in [Workers -> WorkerPlaces] /\ mutex \in Workers \cup {NoWorker}
    BY DEF Init, WorkerPlaces
  <2>3. Exclusion
    BY ThreadPoolAssumption DEF Init, Exclusion, InPredicate
  <2> QED
    BY <2>1, <2>2, <2>3, FS_EmptySet DEF Init, WaitInv
<1>2. WaitInv /\ [Next]_vars => WaitInv'
  <2> SUFFICES ASSUME WaitInv, [Next]_vars PROVE WaitInv'
    OBVIOUS
  <2>1. ASSUME NEW w \in Workers, WorkerStep(w) \/ SpuriousWake(w) PROVE WaitInv'
    <3>1. IsFiniteSet(Waiting)
      BY ThreadPoolAssumption, FS_Subset DEF Waiting
    <3>2. nWaiting' = Cardinality(Waiting')
      BY <2>1, <3>1, WorkerIsCounted, FS_AddElement, FS_RemoveElement DEF WaitInv
    <3> QED
      BY <2>1, <3>2, WorkerIsCounted DEF WaitInv
  <2>2. CASE ClientProgress \/ ClientCall
    <3>1. Waiting' = Waiting
      BY <2>2, ClientLeavesWaiting DEF Waiting
    <3>2. Exclusion'
      BY <2>2, ClientLeavesWaiting DEF WaitInv, Exclusion
    <3> QED
      BY <2>2, <3>1, <3>2, ClientLeavesWaiting DEF WaitInv
  <2>3. CASE UNCHANGED vars
    BY <2>3 DEF vars, WaitInv, Exclusion, Waiting
  <2> QED
    BY <2>1, <2>2, <2>3 DEF Next
<1> QED
  BY <1>1, <1>2, PTL DEF Spec

\* One thread at a time is between the lock and cv.wait, and n_idle counts those inside,
\* whatever the client calls; resize, stop and the destructor rely on both.
THEOREM WaitIsExclusive == Spec => []WaitSection
<1>1. WaitInv => WaitSection
  BY DEF WaitInv, Exclusion, Waiting, WaitSection
<1> QED
  BY <1>1, WaitInvariant, PTL
-------------------------------------------------------------------------------
(***************************************************************************)
(* Where a functor is, for a client that calls any methods in any order.   *)
(***************************************************************************)
\* The domains of the variables a functor can be in.
Kinds ==
  /\ q \in Seq(Tasks)
  /\ threads \in Seq(Workers)
  /\ pc \in [Workers -> WorkerPlaces]
  /\ held \in [Workers -> Tasks \cup {NoTask}]
  /\ ran \in [Tasks -> Nat]
  /\ dropped \subseteq Tasks

\* A worker holds a functor exactly while it is about to execute it.
HoldsToRun == \A w \in Workers : held[w] # NoTask <=> pc[w] = "run"

\* The threads of the pool have been started; one that was given up while it runs was
\* given up by a resize, for stop and the destructor join those they take out.
Started ==
  \A w \in Workers :
    /\ w \in Pool => pc[w] # "unborn"
    /\ w \notin Pool => pc[w] \in {"unborn", "exited"} \/ "shrink" \in Ops

\* While a pool that was told to finish has threads, a stop or the destructor is on its
\* way to join them; once joined they stay out.
Stopping == client \in {"clear", "notify_all", "join", "final_clear"} /\ call \in {"stop", "destroy"}

Joining ==
  /\ isDone \/ isStop => threads = <<>> \/ Stopping
  /\ client = "destroyed" => threads = <<>>
  /\ client = "final_clear" => \A w \in Pool : pc[w] = "exited"

OwnerInv == Kinds /\ HoldsToRun /\ OneOwner /\ Started /\ Joining

\* The steps, by what they do to the functors and to the threads of the pool.
Takes(w) ==
  /\ pc[w] \in {"pop", "test_pop"} /\ Goto(w, "run") /\ TakeHead(w)
  /\ UNCHANGED <<ran, dropped, threads, client, call, isDone, isStop>>

Drops ==
  /\ client \in {"clear", "final_clear"} \/ (client = "idle" /\ "pop" \in Ops)
  /\ q # <<>> /\ q' = Tail(q) /\ dropped' = dropped \cup {Head(q)}
  /\ UNCHANGED <<held, ran, pc, threads, client, call, isDone, isStop>>

\* A worker goes to another place without a functor, from none of which it is unborn.
Moves(w) ==
  /\ pc[w] \notin {"unborn", "run", "exited"}
  /\ \E there \in WorkerPlaces \ {"unborn", "run"} : Goto(w, there)
  /\ UNCHANGED <<q, held, ran, dropped, threads, client, call, isDone, isStop>>

LEMMA WorkerEffects ==
  ASSUME NEW w \in Workers, WorkerStep(w) \/ SpuriousWake(w)
  PROVE  Takes(w) \/ Run(w) \/ Moves(w)
<1> USE DEF At, poolState, clientState, WorkerPlaces, InWait, InPredicate
<1>1. CASE PopSome(w)
  BY <1>1 DEF PopSome, Takes
<1>2. CASE PopNone(w)
  BY <1>2 DEF PopNone, Moves
<1>3. CASE CheckFlag(w)
  BY <1>3 DEF CheckFlag, Moves
<1>4. CASE LockAndWait(w)
  BY <1>4 DEF LockAndWait, Moves
<1>5. CASE TestPopSome(w)
  BY <1>5 DEF TestPopSome, Takes
<1>6. CASE TestPopNone(w)
  BY <1>6 DEF TestPopNone, Moves
<1>7. CASE TestDone(w)
  <2>1. CASE isDone
    BY <1>7, <2>1 DEF TestDone, Moves
  <2>2. CASE ~isDone
    BY <1>7, <2>2 DEF TestDone, Moves
  <2> QED
    BY <2>1, <2>2
<1>8. CASE TestFlagExit(w)
  BY <1>8 DEF TestFlagExit, Moves
<1>9. CASE Sleep(w)
  BY <1>9 DEF Sleep, Moves
<1>10. CASE Relock(w)
  BY <1>10 DEF Relock, Moves
<1>11. CASE SpuriousWake(w)
  BY <1>11 DEF SpuriousWake, Moves
<1> QED
  BY <1>1, <1>2, <1>3, <1>4, <1>5, <1>6, <1>7, <1>8, <1>9, <1>10, <1>11 DEF WorkerStep

\* What is queued after a Tail, and after an Append.
LEMMA QueuedByTail ==
  ASSUME q \in Seq(Tasks), q # <<>>, q' = Tail(q), \A i, j \in DOMAIN q : q[i] = q[j] => i = j
  PROVE  /\ q' \in Seq(Tasks) /\ Head(q) \in Tasks
         /\ \A i, j \in DOMAIN q' : q'[i] = q'[j] => i = j
         /\ Queued' = Queued \ {Head(q)} /\ Head(q) \in Queued
<1>1. /\ Len(q') = Len(q) - 1 /\ q' \in Seq(Tasks)
      /\ \A i \in 1 .. Len(q) - 1 : q'[i] = q[i + 1]
      /\ Head(q) = q[1] /\ 1 \in DOMAIN q /\ Head(q) \in Tasks
  OBVIOUS
<1>2. \A i \in DOMAIN q' : i + 1 \in DOMAIN q /\ q'[i] = q[i + 1] /\ i \in Nat \ {0}
  BY <1>1
<1>3. \A i \in DOMAIN q : i = 1 \/ (i - 1 \in DOMAIN q' /\ q'[i - 1] = q[i])
  BY <1>1
<1>4. \A i \in DOMAIN q' : q'[i] # Head(q)
  <2> SUFFICES ASSUME NEW i \in DOMAIN q', q'[i] = Head(q) PROVE FALSE
    OBVIOUS
  <2>1. i + 1 \in DOMAIN q /\ q[i + 1] = q[1] /\ 1 \in DOMAIN q /\ i \in Nat \ {0}
    BY <1>1, <1>2
  <2>2. i + 1 = 1
    BY <2>1
  <2> QED
    BY <2>1, <2>2
<1>5. \A i, j \in DOMAIN q' : q'[i] = q'[j] => i = j
  <2> SUFFICES ASSUME NEW i \in DOMAIN q', NEW j \in DOMAIN q', q'[i] = q'[j] PROVE i = j
    OBVIOUS
  <2>1. i + 1 = j + 1
    BY <1>2
  <2> QED
    BY <1>2, <2>1
<1>6. Queued' \subseteq Queued \ {Head(q)} /\ Head(q) \in Queued
  BY <1>1, <1>2, <1>4 DEF Queued
<1>7. ASSUME NEW i \in DOMAIN q, q[i] # Head(q)
      PROVE  q[i] \in Queued'
  <2>1. i # 1
    BY <1>1, <1>7
  <2> QED
    BY <1>3, <2>1 DEF Queued
<1>8. Queued \ {Head(q)} \subseteq Queued'
  BY <1>7 DEF Queued
<1> QED
  BY <1>1, <1>5, <1>6, <1>8

LEMMA QueuedByAppend ==
  ASSUME q \in Seq(Tasks), NEW t \in Tasks, t \notin Queued, q' = Append(q, t),
         \A i, j \in DOMAIN q : q[i] = q[j] => i = j
  PROVE  /\ q' \in Seq(Tasks)
         /\ \A i, j \in DOMAIN q' : q'[i] = q'[j] => i = j
         /\ Queued' = Queued \cup {t}
<1>1. /\ DOMAIN q' = 1 .. Len(q) + 1 /\ Len(q) \in Nat /\ DOMAIN q = 1 .. Len(q)
      /\ q' \in Seq(Tasks)
      /\ q'[Len(q) + 1] = t
      /\ \A i \in 1 .. Len(q) : q'[i] = q[i]
  OBVIOUS
<1>2. /\ \A i \in DOMAIN q' : i \in DOMAIN q \/ i = Len(q) + 1
      /\ Len(q) + 1 \in DOMAIN q'
      /\ \A i \in DOMAIN q : i \in DOMAIN q' /\ q'[i] = q[i]
  BY <1>1
<1>3. Queued' \subseteq Queued \cup {t}
  BY <1>1, <1>2 DEF Queued
<1>4. t \in Queued' /\ Queued \subseteq Queued'
  BY <1>1, <1>2 DEF Queued
<1>5. \A i \in 1 .. Len(q) : q[i] # t
  BY <1>1 DEF Queued
<1> QED
  BY <1>1, <1>3, <1>4, <1>5

\* A functor taken out of the queue by a worker is held by it and by nobody else.
LEMMA TakenIsHeld ==
  ASSUME Kinds, HoldsToRun, OneOwner, NEW w \in Workers, Takes(w)
  PROVE  /\ OneOwner' /\ Kinds' /\ HoldsToRun'
         /\ Head(q) \in Tasks /\ held[w] = NoTask
         /\ \A v \in Workers : held'[v] = IF v = w THEN Head(q) ELSE held[v]
<1> USE DEF Kinds
<1>1. /\ q # <<>> /\ q' = Tail(q) /\ held' = [held EXCEPT ![w] = Head(q)]
      /\ pc' = [pc EXCEPT ![w] = "run"] /\ UNCHANGED <<ran, dropped, threads>>
  BY DEF Takes, TakeHead, Goto
<1>2. /\ q' \in Seq(Tasks) /\ Head(q) \in Tasks
      /\ \A i, j \in DOMAIN q' : q'[i] = q'[j] => i = j
      /\ Queued' = Queued \ {Head(q)} /\ Head(q) \in Queued
  BY <1>1, QueuedByTail DEF OneOwner
<1>3. held[w] = NoTask
  BY DEF HoldsToRun, Takes
<1>4. \A v \in Workers : held'[v] = IF v = w THEN Head(q) ELSE held[v]
  BY <1>1
<1>5. HeldBy(Workers)' = HeldBy(Workers) \cup {Head(q)}
  <2>1. Head(q) # NoTask
    BY <1>2, ThreadPoolAssumption
  <2>2. HeldBy(Workers)' = {held'[v] : v \in Workers} \ {NoTask}
    BY DEF HeldBy
  <2>3. ASSUME NEW v \in Workers
        PROVE  held'[v] \in {held[u] : u \in Workers} \cup {Head(q)}
    BY <1>4
  <2>4. ASSUME NEW v \in Workers, held[v] # NoTask
        PROVE  held'[v] = held[v]
    BY <1>3, <1>4, <2>4
  <2>5. held'[w] = Head(q)
    BY <1>4
  <2> QED
    BY <2>1, <2>2, <2>3, <2>4, <2>5 DEF HeldBy
<1>6. \A u, v \in Workers : held'[u] = held'[v] /\ held'[u] # NoTask => u = v
  <2>1. Head(q) \notin HeldBy(Workers)
    BY <1>2 DEF OneOwner
  <2>2. \A v \in Workers : held[v] # Head(q)
    BY <1>2, <2>1, ThreadPoolAssumption DEF HeldBy
  <2> QED
    BY <1>4, <2>2 DEF OneOwner
<1>7. OneOwner'
  BY <1>1, <1>2, <1>5, <1>6 DEF OneOwner
<1>8. Kinds' /\ HoldsToRun'
  BY <1>1, <1>2, <1>4, ThreadPoolAssumption DEF HoldsToRun, WorkerPlaces
<1> QED
  BY <1>2, <1>3, <1>4, <1>7, <1>8

\* A functor that was run is nobody's.
LEMMA RunIsDone ==
  ASSUME Kinds, HoldsToRun, OneOwner, NEW w \in Workers, Run(w)
  PROVE  /\ OneOwner' /\ Kinds' /\ HoldsToRun'
         /\ held[w] \in Tasks /\ ran[held[w]] = 0
         /\ \A u \in Tasks : ran'[u] = IF u = held[w] THEN 1 ELSE ran[u]
         /\ \A v \in Workers : /\ held'[v] = IF v = w THEN NoTask ELSE held[v]
                               /\ v # w => held[v] # held[w]
<1> USE DEF Kinds
<1> DEFINE t == held[w]
<1>1. t \in Tasks /\ t # NoTask
  BY DEF Run, At, HoldsToRun
<1>2. /\ ran' = [ran EXCEPT ![t] = @ + 1] /\ held' = [held EXCEPT ![w] = NoTask]
      /\ pc' = [pc EXCEPT ![w] = "check_flag"]
      /\ UNCHANGED <<q, dropped, threads>>
  BY DEF Run, Goto, poolState, clientState
<1>3. t \in HeldBy(Workers)
  BY <1>1 DEF HeldBy
<1>4. ran[t] = 0 /\ t \notin Queued /\ t \notin dropped
  BY <1>1, <1>3 DEF OneOwner
<1>5. /\ \A v \in Workers : held'[v] = IF v = w THEN NoTask ELSE held[v]
      /\ \A v \in Workers : v # w => held[v] # t
  BY <1>1, <1>2 DEF OneOwner
<1>6. HeldBy(Workers)' = HeldBy(Workers) \ {t}
  BY <1>1, <1>5 DEF HeldBy
<1>7. Queued' = Queued
  BY <1>2 DEF Queued
<1>8. \A u \in Tasks : ran'[u] = IF u = t THEN 1 ELSE ran[u]
  BY <1>1, <1>2, <1>4
<1>9. \A u, v \in Workers : held'[u] = held'[v] /\ held'[u] # NoTask => u = v
  BY <1>5 DEF OneOwner
<1>10. ran' \in [Tasks -> Nat]
  BY <1>1, <1>2
<1>11. Kinds' /\ HoldsToRun'
  BY <1>1, <1>2, <1>5, <1>10 DEF HoldsToRun, WorkerPlaces
<1> HIDE DEF t
<1>12. OneOwner'
  BY <1>2, <1>4, <1>6, <1>7, <1>8, <1>9 DEF OneOwner
<1> QED
  BY <1>1, <1>4, <1>5, <1>8, <1>11, <1>12 DEF t

LEMMA DroppedIsGone ==
  ASSUME Kinds, HoldsToRun, OneOwner, Drops
  PROVE  OneOwner' /\ Kinds' /\ HoldsToRun'
<1> USE DEF Kinds
<1>1. /\ q # <<>> /\ q' = Tail(q) /\ dropped' = dropped \cup {Head(q)}
      /\ UNCHANGED <<held, ran, pc, threads>>
  BY DEF Drops
<1>2. /\ q' \in Seq(Tasks) /\ Head(q) \in Tasks
      /\ \A i, j \in DOMAIN q' : q'[i] = q'[j] => i = j
      /\ Queued' = Queued \ {Head(q)} /\ Head(q) \in Queued
  BY <1>1, QueuedByTail DEF OneOwner
<1>3. HeldBy(Workers)' = HeldBy(Workers)
  BY <1>1 DEF HeldBy
<1>4. OneOwner'
  BY <1>1, <1>2, <1>3 DEF OneOwner
<1> QED
  BY <1>1, <1>2, <1>4 DEF HoldsToRun

LEMMA PushedIsQueued ==
  ASSUME Kinds, HoldsToRun, OneOwner, NEW t \in Tasks, Push(t)
  PROVE  OneOwner' /\ Kinds' /\ HoldsToRun'
<1> USE DEF Kinds
<1>1. q' = Append(q, t) /\ UNCHANGED <<held, ran, dropped, pc, threads>>
  BY DEF Push, workerState
<1>2. t \notin Queued /\ t \notin HeldBy(Workers) /\ t \notin dropped /\ ran[t] = 0
  BY DEF Push, Submitted
<1>3. /\ q' \in Seq(Tasks)
      /\ \A i, j \in DOMAIN q' : q'[i] = q'[j] => i = j
      /\ Queued' = Queued \cup {t}
  BY <1>1, <1>2, QueuedByAppend DEF OneOwner
<1>4. HeldBy(Workers)' = HeldBy(Workers)
  BY <1>1 DEF HeldBy
<1>5. OneOwner'
  BY <1>1, <1>2, <1>3, <1>4 DEF OneOwner
<1> QED
  BY <1>1, <1>3, <1>5 DEF HoldsToRun
\* The other steps of the client leave the functors where they are; it wakes sleepers.
Rests ==
  /\ pc' \in [Workers -> WorkerPlaces]
  /\ \A v \in Workers : pc'[v] = pc[v] \/ (pc[v] = "asleep" /\ pc'[v] = "woken")
  /\ UNCHANGED <<q, held, ran, dropped>>

\* A notification wakes threads that are asleep, one of them or all, and does no more.
LEMMA NotifyWakes ==
  ASSUME pc \in [Workers -> WorkerPlaces], NotifyOne \/ NotifyAll
  PROVE  /\ Rests
         /\ mutex = NoWorker
         /\ UNCHANGED <<poolState, flag, held, ran, spurious, threads, dropped>>
<1> USE DEF Asleep, WorkerPlaces, InWait, InPredicate, Rests, poolState
<1>1. CASE NotifyOne
  <2>1. CASE Asleep = {}
    BY <1>1, <2>1 DEF NotifyOne
  <2>2. CASE \E v \in Asleep : Goto(v, "woken")
    BY <1>1, <2>2 DEF NotifyOne, Goto
  <2> QED
    BY <1>1, <2>1, <2>2 DEF NotifyOne
<1>2. CASE NotifyAll
  BY <1>2 DEF NotifyAll
<1> QED
  BY <1>1, <1>2

LEMMA ClientEffects ==
  ASSUME Kinds, ClientProgress \/ ClientCall
  PROVE  \/ Drops
         \/ \E t \in Tasks : Push(t)
         \/ \E S \in SUBSET Unborn : Grow(S)
         \/ \E n \in 0 .. Len(threads) : Shrink(n)
         \/ Stopped /\ Rests
         \/ Rests /\ threads' = threads
<1> USE DEF poolState, workerState
<1>1. CASE NotifyOne \/ NotifyAll
  BY <1>1, NotifyWakes DEF Kinds
<1>2. CASE ClearSome
  BY <1>2 DEF ClearSome, Drops
<1>3. CASE Pop
  BY <1>3 DEF Pop, Starts, Drops
<1>4. CASE ClearDone \/ Join \/ Stopped \/ ClearQueue \/ StopNow \/ StopWait \/ Destroy
  BY <1>4 DEF ClearDone, Join, Stopped, ClearQueue, StopNow, StopWait, Destroy, Kinds, Rests
<1> QED
  BY <1>1, <1>2, <1>3, <1>4 DEF ClientProgress, ClientCall

\* All of the threads that resize starts, and no others, are added to the pool.
LEMMA GrownPool ==
  ASSUME threads \in Seq(Workers), NEW S \in SUBSET Unborn, Grow(S)
  PROVE  threads' \in Seq(Workers) /\ Pool' = Pool \cup S
<1> DEFINE m == Cardinality(S)
<1>1. PICK s \in SetToSeqs(S) : threads' = threads \o s
  BY DEF Grow
<1>2. IsFiniteSet(S) /\ m \in Nat /\ S \subseteq Workers
  BY ThreadPoolAssumption, FS_Subset, FS_CardinalityType DEF Unborn
<1>3. s \in [1 .. m -> S] /\ \A i, j \in 1 .. m : i # j => s[i] # s[j]
  BY <1>1 DEF SetToSeqs
<1>4. s \in Injection(1 .. m, S)
  BY <1>3 DEF Injection, IsInjective
<1>5. Cardinality(1 .. m) = m
  BY <1>2, FS_Interval
<1>6. s \in Surjection(1 .. m, S)
  BY <1>2, <1>4, <1>5, FS_Injection
<1>7. \A w \in S : \E i \in 1 .. m : s[i] = w
  BY <1>6 DEF Surjection
<1> HIDE DEF m
<1>8. s \in Seq(Workers) /\ Len(s) = m
  BY <1>2, <1>3
<1>9. /\ threads' \in Seq(Workers) /\ Len(threads) \in Nat
      /\ DOMAIN threads = 1 .. Len(threads)
      /\ DOMAIN threads' = 1 .. Len(threads) + m
      /\ \A i \in 1 .. Len(threads) : threads'[i] = threads[i]
      /\ \A i \in 1 .. m : threads'[Len(threads) + i] = s[i]
  <2> HIDE DEF m
  <2> DEFINE k == Len(threads)
  <2>1. k \in Nat /\ m \in Nat /\ DOMAIN threads = 1 .. k /\ threads \in Seq(Workers)
    BY <1>2
  <2>2. threads' \in Seq(Workers)
    BY <1>1, <1>8, <2>1
  <2>3. Len(threads') = k + m
    BY <1>1, <1>8, <2>1
  <2>4. DOMAIN threads' = 1 .. k + m
    BY <2>2, <2>3
  <2>5. \A i \in 1 .. k + m : threads'[i] = IF i <= k THEN threads[i] ELSE s[i - k]
    BY <1>1, <1>8, <2>1
  <2> HIDE DEF k
  <2>6. \A i \in 1 .. k : threads'[i] = threads[i]
    BY <2>1, <2>5
  <2>7. \A i \in 1 .. m : k + i \in 1 .. k + m /\ ~(k + i <= k) /\ (k + i) - k = i
    BY <2>1
  <2>8. \A i \in 1 .. m : threads'[k + i] = s[i]
    BY <2>5, <2>7
  <2> QED
    BY <2>1, <2>2, <2>4, <2>6, <2>8 DEF k
<1>10. Pool' \subseteq Pool \cup S
  <2> SUFFICES ASSUME NEW i \in DOMAIN threads' PROVE threads'[i] \in Pool \cup S
    BY DEF Pool
  <2>1. CASE i \in 1 .. Len(threads)
    BY <1>9, <2>1 DEF Pool
  <2>2. CASE i \notin 1 .. Len(threads)
    <3>1. i - Len(threads) \in 1 .. m /\ Len(threads) + (i - Len(threads)) = i
      BY <1>2, <1>9, <2>2
    <3> QED
      BY <1>3, <1>9, <3>1
  <2> QED
    BY <2>1, <2>2
<1>11. Pool \subseteq Pool'
  <2>1. \A i \in DOMAIN threads : i \in DOMAIN threads' /\ threads'[i] = threads[i]
    BY <1>2, <1>9
  <2> QED
    BY <2>1 DEF Pool
<1>12. S \subseteq Pool'
  <2> SUFFICES ASSUME NEW w \in S PROVE w \in Pool'
    OBVIOUS
  <2>1. PICK i \in 1 .. m : s[i] = w
    BY <1>7
  <2>2. Len(threads) + i \in DOMAIN threads' /\ threads'[Len(threads) + i] = w
    BY <1>2, <1>9, <2>1
  <2> QED
    BY <2>2 DEF Pool
<1> QED
  BY <1>9, <1>10, <1>11, <1>12

\* A resize to fewer threads keeps the first ones.
LEMMA ShrunkPool ==
  ASSUME threads \in Seq(Workers), NEW n \in 0 .. Len(threads), Shrink(n)
  PROVE  threads' \in Seq(Workers) /\ Pool' \subseteq Pool
<1>1. /\ threads' \in Seq(Workers) /\ Len(threads) \in Nat
      /\ \A i \in DOMAIN threads' : i \in DOMAIN threads /\ threads'[i] = threads[i]
  <2>1. threads' = SubSeq(threads, 1, n)
    BY DEF Shrink
  <2>2. n \in Nat /\ n <= Len(threads) /\ Len(threads) \in Nat
    OBVIOUS
  <2>3. DOMAIN threads' = 1 .. n /\ DOMAIN threads = 1 .. Len(threads)
    BY <2>1, <2>2
  <2>4. \A i \in 1 .. n : threads'[i] = threads[i]
    BY <2>1, <2>2
  <2>5. threads' \in Seq(Workers)
    BY <2>1, <2>2
  <2> QED
    BY <2>2, <2>3, <2>4, <2>5
<1> QED
  BY <1>1 DEF Pool

\* The functors of the threads stay where they are when the pool's threads change.
LEMMA NothingMoves ==
  ASSUME Kinds, HoldsToRun, OneOwner, Rests \/ (\E S \in SUBSET Unborn : Grow(S)) \/
                                      (\E n \in 0 .. Len(threads) : Shrink(n))
  PROVE  /\ OneOwner' /\ HoldsToRun' /\ UNCHANGED <<q, held, ran, dropped>>
         /\ pc' \in [Workers -> WorkerPlaces]
<1> USE DEF Kinds
<1>1. UNCHANGED <<q, held, ran, dropped>>
  BY DEF Rests, Grow, Shrink, poolState
<1>2. OneOwner'
  BY <1>1 DEF OneOwner, Queued, HeldBy
<1>3. CASE Rests
  BY <1>1, <1>2, <1>3 DEF Rests, HoldsToRun
<1>4. CASE \E S \in SUBSET Unborn : Grow(S)
  <2>1. PICK S \in SUBSET Unborn : Grow(S)
    BY <1>4
  <2>2. pc' = [w \in Workers |-> IF w \in S THEN "pop" ELSE pc[w]]
    BY <2>1 DEF Grow
  <2>3. \A w \in S : pc[w] = "unborn"
    BY DEF Unborn
  <2> QED
    BY <1>1, <1>2, <2>2, <2>3 DEF HoldsToRun, WorkerPlaces
<1>5. CASE \E n \in 0 .. Len(threads) : Shrink(n)
  BY <1>1, <1>2, <1>5 DEF Shrink, HoldsToRun
<1> QED
  BY <1>3, <1>4, <1>5

LEMMA WorkerKeepsOwners ==
  ASSUME OwnerInv, NEW w \in Workers, WorkerStep(w) \/ SpuriousWake(w)
  PROVE  OwnerInv'
<1> USE DEF OwnerInv
<1>1. Kinds' /\ HoldsToRun' /\ OneOwner'
  <2>1. CASE Moves(w)
    <3>1. OneOwner'
      BY <2>1 DEF Moves, OneOwner, Queued, HeldBy
    <3> QED
      BY <2>1, <3>1 DEF Moves, Kinds, HoldsToRun, Goto
  <2> QED
    BY <2>1, WorkerEffects, TakenIsHeld, RunIsDone
<1>2. /\ pc[w] \notin {"unborn", "exited"} /\ pc'[w] # "unborn"
      /\ \A v \in Workers : v # w => pc'[v] = pc[v]
      /\ UNCHANGED <<threads, client, call, isDone, isStop>>
  <2>1. CASE Takes(w)
    BY <2>1 DEF Takes, Kinds, Goto
  <2>2. CASE Run(w)
    BY <2>2 DEF Run, Kinds, Goto, At, poolState, clientState
  <2>3. CASE Moves(w)
    BY <2>3 DEF Moves, Kinds, Goto
  <2> QED
    BY <2>1, <2>2, <2>3, WorkerEffects
<1>3. Pool' = Pool
  BY <1>2 DEF Pool
<1>4. Started'
  BY <1>2, <1>3 DEF Started
<1>5. Joining'
  <2>1. \A v \in Pool : v \in Workers
    BY DEF Kinds, Pool
  <2>2. ASSUME client' = "final_clear", NEW v \in Pool' PROVE pc'[v] = "exited"
    <3>1. client = "final_clear" /\ v \in Pool /\ v \in Workers
      BY <1>2, <1>3, <2>1, <2>2
    <3>2. pc[v] = "exited"
      BY <3>1 DEF Joining
    <3> QED
      BY <1>2, <3>1, <3>2
  <2>3. Stopping' = Stopping
    BY <1>2 DEF Stopping
  <2>4. (isDone' \/ isStop' => (threads' = <<>> \/ Stopping')) /\ (client' = "destroyed" => threads' = <<>>)
    BY <1>2, <2>3 DEF Joining
  <2> QED
    BY <2>2, <2>4 DEF Joining
<1> QED
  BY <1>1, <1>4, <1>5

LEMMA JoiningStep ==
  ASSUME OwnerInv, ClientProgress \/ ClientCall
  PROVE  Joining'
<1> USE DEF OwnerInv, Kinds, Joining, Stopping, poolState, workerState
<1>0. ASSUME threads' = threads PROVE Pool' = Pool
  BY <1>0 DEF Pool
<1>1. ASSUME NEW t \in Tasks, Push(t) PROVE Joining'
  BY <1>0, <1>1 DEF Push, Starts
<1>2. CASE ClearQueue
  BY <1>0, <1>2 DEF ClearQueue, Starts
<1>3. CASE Pop
  BY <1>0, <1>3 DEF Pop, Starts
<1>4. CASE \E S \in SUBSET Unborn : Grow(S)
  BY <1>4 DEF Grow, Starts
<1>5. CASE \E n \in 0 .. Len(threads) : Shrink(n)
  BY <1>5 DEF Shrink, Starts
<1>6. CASE StopNow
  BY <1>0, <1>6 DEF StopNow, Starts
<1>7. CASE StopWait
  BY <1>0, <1>7 DEF StopWait, Starts
<1>8. CASE Destroy
  BY <1>0, <1>8 DEF Destroy, Starts
<1>9. CASE NotifyOne
  BY <1>0, <1>9 DEF NotifyOne
<1>10. CASE ClearSome
  BY <1>0, <1>10 DEF ClearSome
<1>11. CASE ClearDone
  BY <1>0, <1>11 DEF ClearDone
<1>12. CASE NotifyAll
  BY <1>0, <1>12 DEF NotifyAll
<1>13. CASE Join
  BY <1>0, <1>13 DEF Join, At
<1>14. CASE Stopped
  BY <1>14 DEF Stopped
<1> QED
  BY <1>1, <1>2, <1>3, <1>4, <1>5, <1>6, <1>7, <1>8, <1>9, <1>10, <1>11, <1>12, <1>13, <1>14
     DEF ClientProgress, ClientCall

LEMMA StartedStep ==
  ASSUME OwnerInv, ClientProgress \/ ClientCall
  PROVE  Started' /\ threads' \in Seq(Workers)
<1> USE DEF OwnerInv, Kinds
<1>1. CASE Drops \/ (Rests /\ threads' = threads)
  <2>1. Pool' = Pool
    BY <1>1 DEF Drops, Pool
  <2> QED
    BY <1>1, <2>1 DEF Drops, Rests, Started
<1>2. CASE \E t \in Tasks : Push(t)
  <2>1. UNCHANGED <<threads, pc>>
    BY <1>2 DEF Push, workerState
  <2> QED
    BY <2>1 DEF Started, Pool
<1>3. ASSUME NEW S \in SUBSET Unborn, Grow(S)
      PROVE  Started' /\ threads' \in Seq(Workers)
  <2>1. Pool' = Pool \cup S /\ threads' \in Seq(Workers)
    BY <1>3, GrownPool
  <2>2. pc' = [w \in Workers |-> IF w \in S THEN "pop" ELSE pc[w]]
    BY <1>3 DEF Grow
  <2> QED
    BY <2>1, <2>2 DEF Started
<1>4. ASSUME NEW n \in 0 .. Len(threads), Shrink(n)
      PROVE  Started' /\ threads' \in Seq(Workers)
  <2>1. "shrink" \in Ops /\ pc' = pc
    BY <1>4 DEF Shrink, Starts
  <2> QED
    BY <1>4, <2>1, ShrunkPool DEF Started
<1>5. CASE Stopped /\ Rests
  <2>1. threads' = <<>> /\ \A w \in Pool : pc[w] = "exited"
    BY <1>5 DEF Stopped, Joining
  <2>2. Pool' = {}
    BY <2>1 DEF Pool
  <2>3. \A v \in Workers : pc'[v] = pc[v]
    BY <1>5 DEF Stopped, workerState
  <2> QED
    BY <2>1, <2>2, <2>3 DEF Started
<1> QED
  BY <1>1, <1>2, <1>3, <1>4, <1>5, ClientEffects

LEMMA ClientKeepsOwners ==
  ASSUME OwnerInv, ClientProgress \/ ClientCall
  PROVE  OwnerInv'
<1> USE DEF OwnerInv
<1>1. Started' /\ threads' \in Seq(Workers) /\ Joining'
  BY StartedStep, JoiningStep
<1>2. CASE Drops
  BY <1>1, <1>2, DroppedIsGone
<1>3. CASE \E t \in Tasks : Push(t)
  BY <1>1, <1>3, PushedIsQueued
<1>4. CASE ~Drops /\ ~\E t \in Tasks : Push(t)
  BY <1>1, <1>4, ClientEffects, NothingMoves DEF Kinds
<1> QED
  BY <1>2, <1>3, <1>4

LEMMA OwnerInit == Init => OwnerInv
<1> SUFFICES ASSUME Init PROVE OwnerInv
  OBVIOUS
<1>1. PICK n \in InitialSizes : threads \in [1 .. n -> Workers]
  BY DEF Init
<1>2. threads \in Seq(Workers)
  BY <1>1, ThreadPoolAssumption
<1>3. Kinds
  BY <1>2 DEF Init, Kinds, WorkerPlaces
<1>4. HoldsToRun /\ Started /\ Joining
  BY DEF Init, HoldsToRun, Started, Joining
<1>5. OneOwner
  BY DEF Init, OneOwner, Queued, HeldBy
<1> QED
  BY <1>3, <1>4, <1>5 DEF OwnerInv

LEMMA OwnerStep ==
  ASSUME OwnerInv, [Next]_vars
  PROVE  OwnerInv'
<1>1. CASE UNCHANGED vars
  BY <1>1 DEF vars, OwnerInv, Kinds, HoldsToRun, OneOwner, Started, Joining, Stopping,
              Queued, HeldBy, Pool
<1> QED
  BY <1>1, WorkerKeepsOwners, ClientKeepsOwners DEF Next

LEMMA OwnerInvariant == Spec => []OwnerInv
BY OwnerInit, OwnerStep, PTL DEF Spec

\* No functor is executed twice, deleted twice or lost between the queue and a worker,
\* whatever the client calls.
THEOREM EveryFunctorHasOneOwner == Spec => []OneOwner
<1>1. OwnerInv => OneOwner
  BY DEF OwnerInv
<1> QED
  BY <1>1, OwnerInvariant, PTL

\* The buffers and converters the functors refer to may be destroyed after the pool: no
\* thread is left in its code, unless the client has made the pool smaller.
THEOREM NoThreadOutlivesThePool ==
  ASSUME "shrink" \notin Ops
  PROVE  Spec => []NoUseAfterDestroy
<1>1. OwnerInv => NoUseAfterDestroy
  BY DEF OwnerInv, Joining, Started, Pool, NoUseAfterDestroy
<1> QED
  BY <1>1, OwnerInvariant, PTL
-------------------------------------------------------------------------------
(***************************************************************************)
(* No wake-up is lost, for a client that calls any methods in any order.   *)
(***************************************************************************)
\* The workers that will look at the queue before they can fall asleep or exit, and the
\* notification that a push still owes.
LookPlaces == {"pop", "lock", "test_pop", "woken"}
Lookers    == {w \in Workers : pc[w] \in LookPlaces}
Owed       == IF client = "notify_one" THEN 1 ELSE 0

\* The places after the predicate of cv.wait has found the queue empty.
SeenEmpty == {w \in Workers : pc[w] \in {"test_done", "test_flag"}}

\* While a thread sleeps there is a look to come for every queued functor, so that no
\* matter which of the awake ones exit, the functors are found; and one that is about
\* to fall asleep is overtaken only by a push that will wake it.
WakeInv ==
  /\ Asleep # {} => Len(q) <= Cardinality(Lookers) + Owed
  /\ SeenEmpty # {} => Len(q) <= Owed

\* A step of a worker takes a functor with its look, keeps the looks, or is of one that
\* found the queue empty.
LEMMA WorkerLooks ==
  ASSUME Kinds, NEW w \in Workers, WorkerStep(w) \/ SpuriousWake(w), WakeInv
  PROVE  \/ Takes(w)
         \/ /\ UNCHANGED <<q, client>>
            /\ Len(q) <= Owed \/ (/\ Asleep' \subseteq Asleep /\ Lookers \subseteq Lookers'
                                 /\ SeenEmpty' \subseteq SeenEmpty)
<1> USE DEF Kinds, At, Goto, poolState, clientState, Asleep, Lookers, LookPlaces, SeenEmpty
<1>1. CASE PopSome(w) \/ TestPopSome(w)
  BY <1>1 DEF PopSome, TestPopSome, Takes
<1>2. CASE PopNone(w)
  BY <1>2 DEF PopNone
<1>3. CASE Run(w)
  BY <1>3 DEF Run
<1>4. CASE CheckFlag(w)
  BY <1>4 DEF CheckFlag
<1>5. CASE LockAndWait(w)
  BY <1>5 DEF LockAndWait
<1>6. CASE TestPopNone(w)
  BY <1>6 DEF TestPopNone, Owed
<1>7. CASE TestDone(w) \/ TestFlagExit(w) \/ Sleep(w)
  <2>1. w \in SeenEmpty
    BY <1>7 DEF TestDone, TestFlagExit, Sleep
  <2>2. UNCHANGED <<q, client>>
    BY <1>7 DEF TestDone, TestFlagExit, Sleep
  <2> QED
    BY <2>1, <2>2 DEF WakeInv
<1>8. CASE SpuriousWake(w)
  BY <1>8 DEF SpuriousWake
<1>9. CASE Relock(w)
  BY <1>9 DEF Relock
<1> QED
  BY <1>1, <1>2, <1>3, <1>4, <1>5, <1>6, <1>7, <1>8, <1>9 DEF WorkerStep

LEMMA LookersAreFinite ==
  /\ IsFiniteSet(Lookers) /\ Cardinality(Lookers) \in Nat
  /\ IsFiniteSet(Lookers') /\ Cardinality(Lookers') \in Nat
BY ThreadPoolAssumption, FS_Subset, FS_CardinalityType DEF Lookers

\* A step that leaves every look to come, or more, and no more to be found.
LEMMA LooksKept ==
  ASSUME Kinds, WakeInv, Len(q') \in Nat, Len(q') <= Len(q), Owed' = Owed,
         Asleep' \subseteq Asleep, Lookers \subseteq Lookers', SeenEmpty' \subseteq SeenEmpty
  PROVE  WakeInv'
<1>1. Cardinality(Lookers) <= Cardinality(Lookers')
  BY LookersAreFinite, FS_Subset
<1>2. Len(q) \in Nat /\ Owed \in Nat
  BY DEF Kinds, Owed
<1> QED
  BY <1>1, <1>2, LookersAreFinite DEF WakeInv

LEMMA WorkerKeepsLooks ==
  ASSUME OwnerInv, WakeInv, NEW w \in Workers, WorkerStep(w) \/ SpuriousWake(w)
  PROVE  WakeInv'
<1> USE DEF OwnerInv
<1>1. Len(q) \in Nat /\ Owed \in Nat
  BY DEF Kinds, Owed
<1>2. CASE Takes(w)
  <2>1. Len(q') = Len(q) - 1 /\ Owed' = Owed
    BY <1>2 DEF Takes, TakeHead, Kinds, Owed
  <2>2. /\ w \in Lookers /\ Lookers' = Lookers \ {w}
        /\ Asleep' = Asleep /\ SeenEmpty' = SeenEmpty
    BY <1>2 DEF Takes, Goto, Kinds, Lookers, LookPlaces, Asleep, SeenEmpty
  <2>3. Cardinality(Lookers') = Cardinality(Lookers) - 1
    BY <2>2, LookersAreFinite, FS_RemoveElement
  <2> QED
    BY <1>1, <2>1, <2>2, <2>3, LookersAreFinite DEF WakeInv
<1>3. CASE UNCHANGED <<q, client>> /\ Len(q) <= Owed
  BY <1>1, <1>3, LookersAreFinite DEF WakeInv, Owed
<1>4. CASE /\ UNCHANGED <<q, client>> /\ SeenEmpty' \subseteq SeenEmpty
           /\ Asleep' \subseteq Asleep /\ Lookers \subseteq Lookers'
  BY <1>1, <1>4, LooksKept DEF Owed
<1> QED
  BY <1>2, <1>3, <1>4, WorkerLooks

LEMMA ClientKeepsLooks ==
  ASSUME OwnerInv, WaitInv, WakeInv, ClientProgress \/ ClientCall
  PROVE  WakeInv'
<1> USE DEF OwnerInv, Kinds
<1>0. Len(q) \in Nat /\ Owed \in Nat
  BY DEF Owed
<1>1. ASSUME NEW t \in Tasks, Push(t) PROVE WakeInv'
  <2>1. Owed = 0 /\ Owed' = 1 /\ Len(q') = Len(q) + 1
    BY <1>1 DEF Push, Starts, Owed
  <2>2. Asleep' = Asleep /\ Lookers' = Lookers /\ SeenEmpty' = SeenEmpty
    BY <1>1 DEF Push, workerState, Asleep, Lookers, SeenEmpty
  <2> QED
    BY <1>0, <2>1, <2>2, LookersAreFinite DEF WakeInv
<1>2. CASE NotifyOne
  <2>1. Owed = 1 /\ Owed' = 0 /\ q' = q
    BY <1>2 DEF NotifyOne, Owed, poolState
  <2>2. SeenEmpty' = {}
    <3>1. \A v \in Workers : pc[v] \notin InPredicate
      BY <1>2, ThreadPoolAssumption DEF NotifyOne, WaitInv, Exclusion
    <3> QED
      BY <1>2, <3>1, NotifyWakes DEF SeenEmpty, Rests, InPredicate
  <2>3. CASE Asleep = {}
    <3>1. Asleep' = {}
      BY <1>2, <2>3 DEF NotifyOne, Asleep
    <3> QED
      BY <2>2, <3>1 DEF WakeInv
  <2>4. ASSUME NEW v \in Asleep, Goto(v, "woken") PROVE WakeInv'
    <3>1. v \notin Lookers /\ Lookers' = Lookers \cup {v}
      BY <2>4 DEF Goto, Lookers, LookPlaces, Asleep
    <3>2. Cardinality(Lookers') = Cardinality(Lookers) + 1
      BY <3>1, LookersAreFinite, FS_AddElement
    <3> QED
      BY <1>0, <2>1, <2>2, <2>4, <3>2, LookersAreFinite DEF WakeInv
  <2> QED
    BY <1>2, <2>3, <2>4 DEF NotifyOne
<1>3. CASE ~NotifyOne /\ ~\E t \in Tasks : Push(t)
  <2>1. Owed' = Owed
    BY <1>3 DEF Owed, ClientProgress, ClientCall, ClearSome, ClearDone, NotifyAll, Join, Stopped,
                ClearQueue, Pop, Grow, Shrink, StopNow, StopWait, Destroy, Starts
  <2>2. Len(q') \in Nat /\ Len(q') <= Len(q)
    <3>1. q' = q \/ (q # <<>> /\ q' = Tail(q))
      BY <1>3, ClientEffects DEF Drops, Rests, Grow, Shrink, poolState
    <3> QED
      BY <3>1
  <2>3. /\ Asleep' \subseteq Asleep /\ Lookers \subseteq Lookers'
        /\ SeenEmpty' \subseteq SeenEmpty
    <3> USE DEF Asleep, Lookers, LookPlaces, SeenEmpty
    <3>1. CASE Drops
      BY <3>1 DEF Drops
    <3>2. CASE Rests
      BY <3>2 DEF Rests
    <3>3. CASE \E S \in SUBSET Unborn : Grow(S)
      BY <3>3 DEF Grow, Unborn
    <3>4. CASE \E n \in 0 .. Len(threads) : Shrink(n)
      BY <3>4 DEF Shrink
    <3> QED
      BY <1>3, <3>1, <3>2, <3>3, <3>4, ClientEffects
  <2> QED
    BY <2>1, <2>2, <2>3, LooksKept
<1> QED
  BY <1>1, <1>2, <1>3

LEMMA WakeInvariant == Spec => []WakeInv
<1>1. Init => WakeInv
  BY DEF Init, WakeInv, Asleep, SeenEmpty
<1>2. OwnerInv /\ WaitInv /\ WakeInv /\ [Next]_vars => WakeInv'
  <2>1. UNCHANGED vars /\ WakeInv => WakeInv'
    BY DEF vars, WakeInv, Asleep, SeenEmpty, Lookers, Owed
  <2> QED
    BY <2>1, WorkerKeepsLooks, ClientKeepsLooks DEF Next
<1> QED
  BY <1>1, <1>2, OwnerInvariant, WaitInvariant, PTL DEF Spec

\* A push that has returned has woken a thread, or found one that will look at the queue,
\* and no resize, stop or pop makes that look be missed.
THEOREM NoWakeUpIsLost == Spec => []NoStranded
<1>1. OwnerInv /\ WakeInv => NoStranded
  <2> SUFFICES ASSUME OwnerInv, WakeInv, q # <<>>, client = "idle",
                      NEW v \in Pool, pc[v] # "exited"
               PROVE  \E w \in Workers : pc[w] \notin {"unborn", "asleep", "exited"}
    BY DEF NoStranded
  <2>1. v \in Workers /\ pc[v] # "unborn"
    BY DEF OwnerInv, Kinds, Started, Pool
  <2>2. CASE pc[v] = "asleep"
    <3>1. Len(q) <= Cardinality(Lookers) + 0 /\ Len(q) \in Nat /\ Len(q) > 0
      BY <2>1, <2>2 DEF WakeInv, Asleep, Owed, OwnerInv, Kinds
    <3>2. Cardinality({}) = 0
      BY FS_EmptySet
    <3>3. Cardinality(Lookers) # 0
      BY <3>1
    <3>4. Lookers # {}
      BY <3>2, <3>3
    <3> QED
      BY <3>4 DEF Lookers, LookPlaces
  <2> QED
    BY <2>1, <2>2
<1> QED
  BY <1>1, OwnerInvariant, WakeInvariant, PTL
-------------------------------------------------------------------------------
(***************************************************************************)
(* The pool as ReSampler uses it: one thread pushes functors and destroys  *)
(* the pool at the end.                                                    *)
(***************************************************************************)
\* What convert() does with the pool.
OnlyPushAndDestroy == Ops \subseteq {"push", "destroy"} /\ 0 \notin InitialSizes

Ending == {"notify_all", "join", "final_clear", "destroyed"}

\* Nobody is told to stop before the queue is empty, and a thread exits, and is joined,
\* only when the queue is empty for good.
UsedInv ==
  /\ flag = [w \in Workers |-> FALSE]
  /\ isStop = FALSE /\ isDone \in BOOLEAN
  /\ dropped = {}
  /\ client \in {"idle", "notify_one"} \cup Ending
  /\ isDone <=> client \in Ending
  /\ client \in Ending => call = "destroy"
  /\ \A w \in Workers : pc[w] = "exited" => isDone /\ q = <<>>
  /\ client # "destroyed" => threads # <<>>
  /\ client \in {"final_clear", "destroyed"} => q = <<>>

LEMMA UsedInit ==
  ASSUME OnlyPushAndDestroy, Init
  PROVE  UsedInv
<1>1. PICK n \in InitialSizes : threads \in [1 .. n -> Workers]
  BY DEF Init
<1>2. threads # <<>>
  BY <1>1, ThreadPoolAssumption DEF OnlyPushAndDestroy
<1> QED
  BY <1>2 DEF Init, UsedInv, Ending

\* The steps such a client can take.
LEMMA UsedSteps ==
  ASSUME OnlyPushAndDestroy, UsedInv, ClientProgress \/ ClientCall
  PROVE  (\E t \in Tasks : Push(t)) \/ NotifyOne \/ Destroy \/ NotifyAll \/ Join \/ Stopped
<1>1. ~ClearQueue /\ ~Pop /\ ~StopNow /\ ~StopWait
  BY DEF OnlyPushAndDestroy, ClearQueue, Pop, StopNow, StopWait, Starts
<1>2. ~(\E S \in SUBSET Unborn : Grow(S)) /\ ~(\E n \in 0 .. Len(threads) : Shrink(n))
  BY DEF OnlyPushAndDestroy, Grow, Shrink, Starts
<1>3. ~ClearDone /\ ~ClearSome
  BY DEF UsedInv, Ending, ClearDone, ClearSome
<1> QED
  BY <1>1, <1>2, <1>3 DEF ClientProgress, ClientCall

\* A worker whose flag is down exits after it has found the queue empty and the pool
\* told to finish.
LEMMA WorkerExits ==
  ASSUME Kinds, NEW w \in Workers, ~flag[w], WorkerStep(w) \/ SpuriousWake(w), pc'[w] = "exited"
  PROVE  pc[w] = "test_done" /\ isDone /\ q' = q
BY DEF WorkerStep, PopSome, PopNone, Run, CheckFlag, LockAndWait, TestPopSome, TestPopNone, TestDone,
       TestFlagExit, Sleep, Relock, SpuriousWake, Kinds, At, Goto

LEMMA UsedByWorkers ==
  ASSUME OwnerInv, WakeInv, UsedInv, NEW w \in Workers, WorkerStep(w) \/ SpuriousWake(w)
  PROVE  UsedInv'
<1> USE DEF OwnerInv, UsedInv
<1>1. /\ UNCHANGED <<flag, isStop, isDone, dropped, client, call, threads>>
      /\ q' = q \/ (q # <<>> /\ q' = Tail(q))
      /\ \A v \in Workers : v # w => pc'[v] = pc[v]
  <2>1. UNCHANGED flag
    BY DEF WorkerStep, PopSome, PopNone, Run, CheckFlag, LockAndWait, TestPopSome, TestPopNone,
           TestDone, TestFlagExit, Sleep, Relock, SpuriousWake
  <2>2. CASE Takes(w)
    BY <2>1, <2>2 DEF Takes, TakeHead, Kinds, Goto
  <2>3. CASE Run(w)
    BY <2>1, <2>3 DEF Run, Kinds, Goto, poolState, clientState
  <2>4. CASE Moves(w)
    BY <2>1, <2>4 DEF Moves, Kinds, Goto
  <2> QED
    BY <2>2, <2>3, <2>4, WorkerEffects
<1>2. ASSUME NEW v \in Workers, pc'[v] = "exited" PROVE isDone' /\ q' = <<>>
  <2>1. CASE v # w
    BY <1>1, <1>2, <2>1
  <2>2. CASE v = w
    <3>1. pc[w] = "test_done" /\ isDone /\ q' = q
      BY <1>2, <2>2, WorkerExits
    <3>2. w \in SeenEmpty /\ client # "notify_one"
      BY <3>1 DEF SeenEmpty, Ending
    <3>3. Len(q) <= 0
      BY <3>2 DEF WakeInv, Owed
    <3>4. q = <<>>
      BY <3>3 DEF Kinds
    <3> QED
      BY <1>1, <3>1, <3>4
  <2> QED
    BY <2>1, <2>2
<1>3. client' \in {"final_clear", "destroyed"} => q' = <<>>
  BY <1>1
<1> QED
  BY <1>1, <1>2, <1>3

LEMMA UsedByClient ==
  ASSUME OnlyPushAndDestroy, OwnerInv, UsedInv, ClientProgress \/ ClientCall
  PROVE  UsedInv'
<1> USE DEF OwnerInv, UsedInv, Ending
<1>1. CASE \E t \in Tasks : Push(t)
  BY <1>1 DEF Push, Starts, workerState
<1>2. CASE NotifyOne
  BY <1>2, NotifyWakes DEF NotifyOne, Rests, Kinds, poolState
<1>3. CASE Destroy
  BY <1>3 DEF Destroy, Starts, workerState
<1>4. CASE NotifyAll
  BY <1>4, NotifyWakes DEF NotifyAll, Rests, Kinds, poolState
<1>5. CASE Join
  <2>1. threads # <<>> /\ threads \in Seq(Workers)
    BY <1>5 DEF Join, Kinds
  <2>2. 1 \in DOMAIN threads /\ threads[1] \in Workers
    BY <2>1
  <2>3. pc[threads[1]] = "exited"
    BY <1>5, <2>2 DEF Join, At, Pool
  <2>4. q = <<>>
    BY <2>2, <2>3
  <2> QED
    BY <1>5, <2>4 DEF Join, poolState, workerState
<1>6. CASE Stopped
  BY <1>6 DEF Stopped, poolState, workerState
<1> QED
  BY <1>1, <1>2, <1>3, <1>4, <1>5, <1>6, UsedSteps

LEMMA UsedInvariant ==
  ASSUME OnlyPushAndDestroy
  PROVE  Spec => []UsedInv
<1>1. OwnerInv /\ WakeInv /\ UsedInv /\ [Next]_vars => UsedInv'
  <2>1. UNCHANGED vars /\ UsedInv => UsedInv'
    BY DEF vars, UsedInv
  <2> QED
    BY <2>1, UsedByWorkers, UsedByClient DEF Next
<1> QED
  BY <1>1, UsedInit, OwnerInvariant, WakeInvariant, PTL DEF Spec

\* "the destructor waits for all the functions in the queue to be finished", for every
\* number of threads and of functors, whatever is overtaken by what.
THEOREM DestructorWaitsForAll ==
  ASSUME OnlyPushAndDestroy
  PROVE  Spec => []DestructorWaits
<1>1. OwnerInv /\ UsedInv => DestructorWaits
  <2> SUFFICES ASSUME OwnerInv, UsedInv, client = "destroyed", NEW t \in Submitted
               PROVE  ran[t] = 1
    BY DEF DestructorWaits
  <2>1. Queued = {} /\ dropped = {}
    BY DEF UsedInv, Queued
  <2>2. \A w \in Workers : pc[w] \in {"unborn", "exited"}
    BY DEF OwnerInv, Joining, Started, Pool, OnlyPushAndDestroy
  <2>3. HeldBy(Workers) = {}
    BY <2>2 DEF OwnerInv, HoldsToRun, HeldBy
  <2>4. t \in Tasks /\ ran[t] > 0
    BY <2>1, <2>3 DEF Submitted
  <2>5. ran[t] \in Nat /\ ran[t] <= 1
    BY <2>4 DEF OwnerInv, OneOwner, Kinds
  <2> QED
    BY <2>4, <2>5
<1> QED
  BY <1>1, OwnerInvariant, UsedInvariant, PTL
-------------------------------------------------------------------------------
(***************************************************************************)
(* The pool implements TaskPool, step by step.  A client that may abandon  *)
(* tasks (clear_queue, pop, stop) may call anything else as well; one that *)
(* may not is the one of ReSampler, whose destructor has nothing to drop.  *)
(***************************************************************************)
Abandons == Ops \cap {"clear_queue", "pop", "stop_now", "stop_wait"} # {}

NothingToAbandon ==
  /\ client \in {"final_clear", "destroyed"} => q = <<>>
  /\ client # "clear"
  /\ client = "idle" => ~isDone /\ ~isStop

Finished == {t \in Tasks : ran[t] > 0}

\* The steps of TaskPool, in the variables of the pool.
TaskPoolStep ==
  \/ Abstract!Next
  \/ UNCHANGED <<q, HeldBy(Pool), HeldBy(Workers \ Pool), Finished, dropped, client = "destroyed">>

LEMMA TakeIsBegin ==
  ASSUME OwnerInv, NEW w \in Workers, Takes(w)
  PROVE  Abstract!Begin
<1> USE DEF OwnerInv
<1>1. /\ q # <<>> /\ q' = Tail(q) /\ Pool' = Pool /\ Finished' = Finished
      /\ UNCHANGED <<dropped, client>>
  BY DEF Takes, TakeHead, Pool, Finished
<1>2. /\ Head(q) # NoTask /\ held[w] = NoTask
      /\ \A v \in Workers : held'[v] = IF v = w THEN Head(q) ELSE held[v]
      /\ Pool \subseteq Workers
  BY TakenIsHeld, ThreadPoolAssumption DEF Kinds, Pool
<1>3. HeldBy(Pool)' = {held'[v] : v \in Pool} \ {NoTask}
  BY <1>1 DEF HeldBy
<1>4. HeldBy(Workers \ Pool)' = {held'[v] : v \in Workers \ Pool} \ {NoTask}
  BY <1>1 DEF HeldBy
<1>5. CASE w \in Pool
  <2>1. client # "destroyed"
    BY <1>5 DEF Joining, Pool
  <2>2. HeldBy(Pool)' = HeldBy(Pool) \cup {Head(q)}
    <3>1. held'[w] = Head(q) /\ \A v \in Pool : v # w => held'[v] = held[v]
      BY <1>2
    <3> QED
      BY <1>2, <1>3, <1>5, <3>1 DEF HeldBy
  <2>3. HeldBy(Workers \ Pool)' = HeldBy(Workers \ Pool)
    BY <1>2, <1>4, <1>5 DEF HeldBy
  <2> QED
    BY <1>1, <2>1, <2>2, <2>3 DEF Abstract!Begin, Finished
<1>6. CASE w \notin Pool
  <2>1. "shrink" \in Ops
    BY <1>6 DEF Started, Takes
  <2>2. HeldBy(Workers \ Pool)' = HeldBy(Workers \ Pool) \cup {Head(q)}
    <3>1. held'[w] = Head(q) /\ \A v \in Workers \ Pool : v # w => held'[v] = held[v]
      BY <1>2
    <3>2. w \in Workers \ Pool
      BY <1>6
    <3> QED
      BY <1>2, <1>4, <3>1, <3>2 DEF HeldBy
  <2>3. HeldBy(Pool)' = HeldBy(Pool)
    BY <1>2, <1>3, <1>6 DEF HeldBy
  <2> QED
    BY <1>1, <2>1, <2>2, <2>3 DEF Abstract!Begin, Finished
<1> QED
  BY <1>5, <1>6

LEMMA RunIsFinish ==
  ASSUME OwnerInv, NEW w \in Workers, Run(w)
  PROVE  \E t \in Tasks : Abstract!Finish(t)
<1> USE DEF OwnerInv
<1>0. PICK t \in Tasks : t = held[w]
  BY RunIsDone
<1>1. t \in Tasks /\ t # NoTask
  BY ThreadPoolAssumption
<1>2. Pool' = Pool /\ UNCHANGED <<q, dropped, client>>
  BY DEF Run, poolState, clientState, Pool
<1>3. Finished' = Finished \cup {t}
  BY <1>0, <1>1, RunIsDone DEF Finished
<1>4. /\ \A v \in Workers : held'[v] = IF v = w THEN NoTask ELSE held[v]
      /\ \A v \in Workers : v # w => held[v] # t
  BY <1>0, RunIsDone
<1>5. Pool \subseteq Workers
  BY DEF Kinds, Pool
<1>6. \A W \in SUBSET Workers : {held'[v] : v \in W} \ {NoTask} = HeldBy(W) \ {t}
  BY <1>0, <1>1, <1>4 DEF HeldBy
<1>7. HeldBy(Pool)' = HeldBy(Pool) \ {t} /\ HeldBy(Workers \ Pool)' = HeldBy(Workers \ Pool) \ {t}
  BY <1>2, <1>5, <1>6 DEF HeldBy
<1>8. (t \in HeldBy(Pool) /\ client # "destroyed") \/ t \in HeldBy(Workers \ Pool)
  <2>1. CASE w \in Pool
    BY <1>0, <1>1, <2>1 DEF HeldBy, Joining, Pool
  <2>2. CASE w \notin Pool
    BY <1>0, <1>1, <2>2 DEF HeldBy
  <2> QED
    BY <2>1, <2>2
<1> QED
  BY <1>1, <1>2, <1>3, <1>7, <1>8 DEF Abstract!Finish, Finished

LEMMA WorkerRefines ==
  ASSUME OwnerInv, NEW w \in Workers, WorkerStep(w) \/ SpuriousWake(w)
  PROVE  TaskPoolStep
<1>1. CASE Takes(w)
  BY <1>1, TakeIsBegin DEF TaskPoolStep, Abstract!Next
<1>2. CASE Run(w)
  <2>1. \E t \in Tasks : Abstract!Finish(t)
    BY <1>2, RunIsFinish
  <2> QED
    BY <2>1 DEF TaskPoolStep, Abstract!Next
<1>3. CASE Moves(w)
  BY <1>3 DEF Moves, TaskPoolStep, HeldBy, Pool, Finished
<1> QED
  BY <1>1, <1>2, <1>3, WorkerEffects

LEMMA PushIsSubmit ==
  ASSUME OwnerInv, NEW t \in Tasks, Push(t)
  PROVE  Abstract!Submit(t)
<1>1. /\ q' = Append(q, t) /\ Pool' = Pool /\ Finished' = Finished /\ UNCHANGED <<held, dropped>>
      /\ client = "idle" /\ client' = "notify_one"
  BY DEF Push, Starts, workerState, Pool, Finished
<1>2. t \notin Queued /\ t \notin HeldBy(Workers) /\ t \notin dropped /\ t \notin Finished
  BY DEF Push, Submitted, Finished
<1>3. HeldBy(Pool) \subseteq HeldBy(Workers) /\ HeldBy(Workers \ Pool) \subseteq HeldBy(Workers)
  BY DEF HeldBy, Pool, OwnerInv, Kinds
<1>4. HeldBy(Pool)' = HeldBy(Pool) /\ HeldBy(Workers \ Pool)' = HeldBy(Workers \ Pool)
  BY <1>1 DEF HeldBy
<1> QED
  BY <1>1, <1>2, <1>3, <1>4 DEF Abstract!Submit, Abstract!Waiting, Queued, Finished

LEMMA DropIsDiscard ==
  ASSUME Abandons, Drops
  PROVE  Abstract!Discard
<1>1. /\ q # <<>> /\ q' = Tail(q) /\ dropped' = dropped \cup {Head(q)}
      /\ client # "destroyed" /\ client' = client
      /\ Pool' = Pool /\ Finished' = Finished /\ held' = held
  BY DEF Drops, Pool, Finished
<1>2. HeldBy(Pool)' = HeldBy(Pool) /\ HeldBy(Workers \ Pool)' = HeldBy(Workers \ Pool)
  BY <1>1 DEF HeldBy
<1> QED
  BY <1>1, <1>2 DEF Abstract!Discard, Abandons, Finished

\* New threads hold nothing.
LEMMA GrowIsHidden ==
  ASSUME OwnerInv, NEW S \in SUBSET Unborn, Grow(S)
  PROVE  TaskPoolStep
<1> USE DEF OwnerInv
<1>1. /\ Pool' = Pool \cup S /\ Finished' = Finished
      /\ UNCHANGED <<q, held, dropped, client>>
  BY GrownPool DEF Kinds, Grow, poolState, Finished
<1>2. \A w \in S : w \in Workers /\ w \notin Pool /\ held[w] = NoTask
  BY DEF Unborn, Started, HoldsToRun
<1>3. HeldBy(Pool)' = HeldBy(Pool)
  BY <1>1, <1>2 DEF HeldBy
<1>4. HeldBy(Workers \ Pool)' = HeldBy(Workers \ Pool)
  BY <1>1, <1>2 DEF HeldBy
<1> QED
  BY <1>1, <1>3, <1>4 DEF TaskPoolStep

LEMMA ShrinkIsGiveUp ==
  ASSUME OwnerInv, NEW n \in 0 .. Len(threads), Shrink(n)
  PROVE  \E T \in SUBSET HeldBy(Pool) : Abstract!GiveUp(T)
<1> USE DEF OwnerInv
<1>1. /\ Finished' = Finished /\ UNCHANGED <<q, held, dropped>>
      /\ client = "idle" /\ client' = "notify_all" /\ "shrink" \in Ops
  BY DEF Shrink, Starts, poolState, Finished
<1>2. Pool' \subseteq Pool /\ Pool \subseteq Workers
  <2>1. threads \in Seq(Workers)
    BY DEF Kinds
  <2>2. \A i \in DOMAIN threads : threads[i] \in Workers
    BY <2>1
  <2> QED
    BY <2>1, <2>2, ShrunkPool DEF Pool
<1> DEFINE T == HeldBy(Pool) \ HeldBy(Pool)'
<1>3. HeldBy(Pool)' = {held[w] : w \in Pool'} \ {NoTask}
  BY <1>1 DEF HeldBy
<1>4. HeldBy(Pool)' = HeldBy(Pool) \ T
  BY <1>2, <1>3 DEF HeldBy
<1>5. HeldBy(Workers \ Pool)' = {held[w] : w \in Workers \ Pool'} \ {NoTask}
  BY <1>1 DEF HeldBy
<1>6. ASSUME NEW w \in Pool, w \notin Pool', held[w] # NoTask
      PROVE  held[w] \in T
  <2>1. \A v \in Pool' : held[v] # held[w]
    BY <1>2, <1>6 DEF OneOwner
  <2> QED
    BY <1>3, <1>6, <2>1 DEF HeldBy
<1>7. ASSUME NEW w \in Pool, held[w] \in T
      PROVE  w \notin Pool' /\ w \in Workers
  BY <1>2, <1>3, <1>7 DEF HeldBy
<1>8. HeldBy(Workers \ Pool)' = HeldBy(Workers \ Pool) \cup T
  <2>1. HeldBy(Workers \ Pool)' \subseteq HeldBy(Workers \ Pool) \cup T
    BY <1>2, <1>5, <1>6 DEF HeldBy
  <2>2. HeldBy(Workers \ Pool) \subseteq HeldBy(Workers \ Pool)'
    BY <1>2, <1>5 DEF HeldBy
  <2>3. T \subseteq HeldBy(Workers \ Pool)'
    BY <1>5, <1>7 DEF HeldBy
  <2> QED
    BY <2>1, <2>2, <2>3
<1>9. T \in SUBSET HeldBy(Pool)
  OBVIOUS
<1> HIDE DEF T
<1>10. Abstract!GiveUp(T)
  BY <1>1, <1>4, <1>8, <1>9 DEF Abstract!GiveUp, Finished
<1> QED
  BY <1>9, <1>10

\* A pool whose threads have been joined may be closed.
LEMMA ClientCloses ==
  ASSUME ClientProgress \/ ClientCall
  PROVE  /\ client # "destroyed"
         /\ client' = "destroyed" => Stopped \/ (client = "idle" /\ (isDone \/ isStop))
BY DEF ClientProgress, ClientCall, NotifyOne, ClearSome, ClearDone, NotifyAll, Join, Stopped, Push,
       ClearQueue, Pop, Grow, Shrink, StopNow, StopWait, Destroy, Starts

LEMMA RestIsClose ==
  ASSUME OwnerInv, Abandons \/ NothingToAbandon, ClientProgress \/ ClientCall,
         Rests, Stopped \/ threads' = threads
  PROVE  TaskPoolStep
<1> USE DEF OwnerInv
<1>1. UNCHANGED <<q, held, dropped>> /\ Finished' = Finished
  BY DEF Rests, Finished
<1>2. HeldBy(Pool)' = HeldBy(Pool) /\ HeldBy(Workers \ Pool)' = HeldBy(Workers \ Pool)
  <2>1. CASE Stopped
    <3>1. Pool' = {}
      BY <2>1 DEF Stopped, Pool
    <3>2. \A w \in Pool : w \in Workers /\ held[w] = NoTask
      BY <2>1 DEF Stopped, Joining, HoldsToRun, Kinds, Pool
    <3> QED
      BY <1>1, <3>1, <3>2 DEF HeldBy
  <2>2. CASE threads' = threads
    BY <1>1, <2>2 DEF HeldBy, Pool
  <2> QED
    BY <2>1, <2>2
<1>3. CASE client' # "destroyed"
  BY <1>1, <1>2, <1>3, ClientCloses DEF TaskPoolStep
<1>4. CASE client' = "destroyed"
  <2>1. client # "destroyed"
    BY ClientCloses
  <2>2. \A w \in Pool : w \in Workers /\ held[w] = NoTask
    <3>1. CASE Stopped
      BY <3>1 DEF Stopped, Joining, HoldsToRun, Kinds, Pool
    <3>2. CASE client = "idle" /\ (isDone \/ isStop)
      BY <3>2 DEF Joining, Stopping, Pool
    <3> QED
      BY <1>4, <3>1, <3>2, ClientCloses
  <2>3. HeldBy(Pool) = {}
    BY <2>2 DEF HeldBy
  <2>4. q = <<>> \/ Abandons
    BY <1>4, ClientCloses DEF Stopped, NothingToAbandon
  <2>5. Abstract!Close
    BY <1>1, <1>2, <1>4, <2>1, <2>3, <2>4 DEF Abstract!Close, Abandons, Finished
  <2> QED
    BY <2>5 DEF TaskPoolStep, Abstract!Next
<1> QED
  BY <1>3, <1>4

LEMMA ClientRefines ==
  ASSUME OwnerInv, Abandons \/ NothingToAbandon, ClientProgress \/ ClientCall
  PROVE  TaskPoolStep
<1>1. CASE Drops
  <2>1. CASE Abandons
    BY <1>1, <2>1, DropIsDiscard DEF TaskPoolStep, Abstract!Next
  <2>2. CASE ~Abandons
    BY <1>1, <2>2 DEF Drops, NothingToAbandon, Abandons
  <2> QED
    BY <2>1, <2>2
<1>2. CASE \E t \in Tasks : Push(t)
  BY <1>2, PushIsSubmit DEF TaskPoolStep, Abstract!Next
<1>3. CASE \E S \in SUBSET Unborn : Grow(S)
  BY <1>3, GrowIsHidden
<1>4. CASE \E n \in 0 .. Len(threads) : Shrink(n)
  <2>1. \E T \in SUBSET HeldBy(Pool) : Abstract!GiveUp(T)
    BY <1>4, ShrinkIsGiveUp
  <2> QED
    BY <2>1 DEF TaskPoolStep, Abstract!Next
<1>5. CASE Rests /\ (Stopped \/ threads' = threads)
  BY <1>5, RestIsClose
<1>6. Drops \/ (\E t \in Tasks : Push(t)) \/ (\E S \in SUBSET Unborn : Grow(S))
      \/ (\E n \in 0 .. Len(threads) : Shrink(n)) \/ (Rests /\ (Stopped \/ threads' = threads))
  BY ClientEffects DEF OwnerInv
<1> QED
  BY <1>1, <1>2, <1>3, <1>4, <1>5, <1>6

\* A task handed to the pool is started in its turn, run at most once and never both run and
\* dropped, and the pool is gone only when nothing of it runs: TaskPool's promise, kept by
\* every step of threads, queue, mutex and condition variable.
THEOREM PoolKeepsItsPromise ==
  ASSUME Abandons \/ OnlyPushAndDestroy
  PROVE  Spec => ImplementsTaskPool
<1>1. Init => Abstract!Init
  <2> SUFFICES ASSUME Init PROVE Abstract!Init
    OBVIOUS
  <2>1. \A w \in Workers : held[w] = NoTask
    BY DEF Init
  <2>2. Pool \subseteq Workers
    BY OwnerInit DEF OwnerInv, Kinds, Pool
  <2> QED
    BY <2>1, <2>2 DEF Init, Abstract!Init, HeldBy
<1>2. OwnerInv /\ (Abandons \/ NothingToAbandon) /\ [Next]_vars => [Abstract!Next]_(Abstract!poolVars)
  <2> SUFFICES ASSUME OwnerInv, Abandons \/ NothingToAbandon, [Next]_vars
               PROVE  TaskPoolStep
    BY DEF TaskPoolStep, Abstract!poolVars, Finished
  <2>1. UNCHANGED vars => TaskPoolStep
    BY DEF vars, TaskPoolStep, HeldBy, Pool, Finished
  <2> QED
    BY <2>1, WorkerRefines, ClientRefines DEF Next
<1>3. CASE Abandons
  BY <1>1, <1>2, <1>3, OwnerInvariant, PTL DEF Spec, ImplementsTaskPool, Abstract!Spec
<1>4. CASE OnlyPushAndDestroy
  <2>1. UsedInv => NothingToAbandon
    BY DEF UsedInv, NothingToAbandon, Ending
  <2> QED
    BY <1>1, <1>2, <1>4, <2>1, OwnerInvariant, UsedInvariant, PTL DEF Spec, ImplementsTaskPool, Abstract!Spec
<1> QED
  BY <1>3, <1>4
===============================================================================
