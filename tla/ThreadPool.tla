------------------------------ MODULE ThreadPool ------------------------------
(***************************************************************************)
(* ctpl::thread_pool of ctpl/ctpl_stl.h: a locked queue of functors, a     *)
(* mutex and a condition variable, and one loop per worker thread.  The    *)
(* client is the one thread that may call the pool's methods (the header   *)
(* asks for that); a step of the model is one access to what the threads   *)
(* share, so a worker can be overtaken between any two of them.            *)
(***************************************************************************)
EXTENDS Integers, Sequences, FiniteSets, SequencesExt

CONSTANTS
  Tasks,        \* the functors the client may push, each once
  Workers,      \* std::thread identities; a thread that exits is not reused
  InitialSizes, \* the arguments of the constructor
  Ops,          \* the methods the client uses
  MaxSpurious,  \* how often cv.wait may return without a notification
  NoTask,       \* the worker holds no functor
  NoWorker      \* the pool's mutex is free

AllOps == {"push", "clear_queue", "pop", "grow", "shrink", "stop_now",
           "stop_wait", "destroy"}

ASSUME ThreadPoolAssumption ==
  /\ IsFiniteSet(Workers)
  /\ InitialSizes \subseteq 0 .. Cardinality(Workers)
  /\ Ops \subseteq AllOps
  /\ MaxSpurious \in Nat
  /\ NoTask \notin Tasks
  /\ NoWorker \notin Workers

VARIABLES
  q,         \* detail::Queue: pointers to the functors, oldest first
  threads,   \* thread_pool::threads: the joinable threads, by index
  flag,      \* thread_pool::flags: the thread has been told to finish
  mutex,     \* thread_pool::mutex: its owner
  isDone, isStop, nWaiting,
  pc,        \* where each worker is in the loop of set_thread
  held,      \* the functor a worker has popped and owns (func)
  client,    \* where the client is in the method it called
  call,      \* that method
  ran,       \* how many times each functor has been executed
  dropped,   \* the functors taken out of the queue and not executed
  spurious   \* spurious wake-ups so far

poolState   == <<q, mutex, isDone, isStop, nWaiting>>
workerState == <<flag, pc, held, ran, spurious>>
clientState == <<threads, client, call, dropped>>
vars == <<q, threads, flag, mutex, isDone, isStop, nWaiting, pc, held,
          client, call, ran, dropped, spurious>>

Queued     == {q[i] : i \in DOMAIN q}
HeldBy(W)  == {held[w] : w \in W} \ {NoTask}
Submitted  == Queued \cup HeldBy(Workers) \cup dropped
                     \cup {t \in Tasks : ran[t] > 0}
Pool       == {threads[i] : i \in DOMAIN threads}
Unborn     == {w \in Workers : pc[w] = "unborn"}
Asleep     == {w \in Workers : pc[w] = "asleep"}
InPredicate == {"test_pop", "test_done", "test_flag"}
InWait      == InPredicate \cup {"asleep", "woken"}

Init ==
  /\ q = <<>>
  /\ \E n \in InitialSizes :
       threads \in {s \in [1 .. n -> Workers] : IsInjective(s)}
  /\ pc = [w \in Workers |-> IF w \in Pool THEN "pop" ELSE "unborn"]
  /\ flag = [w \in Workers |-> FALSE]
  /\ mutex = NoWorker
  /\ isDone = FALSE
  /\ isStop = FALSE
  /\ nWaiting = 0
  /\ held = [w \in Workers |-> NoTask]
  /\ client = "idle"
  /\ call = "none"
  /\ ran = [t \in Tasks |-> 0]
  /\ dropped = {}
  /\ spurious = 0
-------------------------------------------------------------------------------
(***************************************************************************)
(* The worker's loop.                                                      *)
(***************************************************************************)
At(w, here) == pc[w] = here
Goto(w, there) == pc' = [pc EXCEPT ![w] = there]

\* Mutant: the functor is copied but left in the queue.
TakeHeadKeeping(w) ==
  /\ q # <<>>
  /\ held' = [held EXCEPT ![w] = Head(q)]
  /\ UNCHANGED q

\* Mutant: the newest functor is taken.
TakeNewest(w) ==
  /\ q # <<>>
  /\ held' = [held EXCEPT ![w] = Last(q)]
  /\ q' = Front(q)

\* q.pop(_f): the oldest functor is now this worker's.
TakeHead(w) ==
  /\ q # <<>>
  /\ held' = [held EXCEPT ![w] = Head(q)]
  /\ q' = Tail(q)

PopSome(w) ==
  /\ At(w, "pop")
  /\ TakeHead(w)
  /\ Goto(w, "run")
  /\ UNCHANGED <<mutex, isDone, isStop, nWaiting, flag, ran, spurious, clientState>>

PopNone(w) ==
  /\ At(w, "pop")
  /\ q = <<>>
  /\ Goto(w, "lock")
  /\ UNCHANGED <<poolState, flag, held, ran, spurious, clientState>>

\* (*_f)(i): the packaged task makes its future ready.
Run(w) ==
  /\ At(w, "run")
  /\ ran' = [ran EXCEPT ![held[w]] = @ + 1]
  /\ held' = [held EXCEPT ![w] = NoTask]
  /\ Goto(w, "check_flag")
  /\ UNCHANGED <<poolState, flag, spurious, clientState>>

CheckFlag(w) ==
  /\ At(w, "check_flag")
  /\ Goto(w, IF flag[w] THEN "exited" ELSE "pop")
  /\ UNCHANGED <<poolState, flag, held, ran, spurious, clientState>>

LockAndWait(w) ==
  /\ At(w, "lock")
  /\ mutex = NoWorker
  /\ mutex' = w
  /\ nWaiting' = nWaiting + 1
  /\ Goto(w, "test_pop")
  /\ UNCHANGED <<q, isDone, isStop, flag, held, ran, spurious, clientState>>

\* Mutant: nWaiting is not decremented.
LeaveWaitUncounted ==
  /\ mutex' = NoWorker
  /\ UNCHANGED nWaiting

\* Leaving cv.wait: --nWaiting, and the lock goes out of scope.
LeaveWait ==
  /\ mutex' = NoWorker
  /\ nWaiting' = nWaiting - 1

TestPopSome(w) ==
  /\ At(w, "test_pop")
  /\ TakeHead(w)
  /\ LeaveWait
  /\ Goto(w, "run")
  /\ UNCHANGED <<isDone, isStop, flag, ran, spurious, clientState>>

TestPopNone(w) ==
  /\ At(w, "test_pop")
  /\ q = <<>>
  /\ Goto(w, "test_done")
  /\ UNCHANGED <<poolState, flag, held, ran, spurious, clientState>>

TestDone(w) ==
  /\ At(w, "test_done")
  /\ IF isDone
       THEN LeaveWait /\ Goto(w, "exited")
       ELSE Goto(w, "test_flag") /\ UNCHANGED <<mutex, nWaiting>>
  /\ UNCHANGED <<q, isDone, isStop, flag, held, ran, spurious, clientState>>

TestFlagExit(w) ==
  /\ At(w, "test_flag")
  /\ flag[w]
  /\ LeaveWait
  /\ Goto(w, "exited")
  /\ UNCHANGED <<q, isDone, isStop, flag, held, ran, spurious, clientState>>

\* Releasing the mutex and starting to wait is one step of the condition variable.
Sleep(w) ==
  /\ At(w, "test_flag")
  /\ ~flag[w]
  /\ mutex' = NoWorker
  /\ Goto(w, "asleep")
  /\ UNCHANGED <<q, isDone, isStop, nWaiting, flag, held, ran, spurious, clientState>>

SpuriousWake(w) ==
  /\ At(w, "asleep")
  /\ spurious < MaxSpurious
  /\ spurious' = spurious + 1
  /\ Goto(w, "woken")
  /\ UNCHANGED <<poolState, flag, held, ran, clientState>>

Relock(w) ==
  /\ At(w, "woken")
  /\ mutex = NoWorker
  /\ mutex' = w
  /\ Goto(w, "test_pop")
  /\ UNCHANGED <<q, isDone, isStop, nWaiting, flag, held, ran, spurious, clientState>>

WorkerStep(w) ==
  \/ PopSome(w) \/ PopNone(w) \/ Run(w) \/ CheckFlag(w) \/ LockAndWait(w)
  \/ TestPopSome(w) \/ TestPopNone(w) \/ TestDone(w) \/ TestFlagExit(w)
  \/ Sleep(w) \/ Relock(w)
-------------------------------------------------------------------------------
(***************************************************************************)
(* The client's calls.                                                     *)
(***************************************************************************)
Starts(op) == client = "idle" /\ op \in Ops

\* push: the functor is queued before the mutex is taken.
Push(t) ==
  /\ Starts("push")
  /\ t \notin Submitted
  /\ q' = Append(q, t)
  /\ client' = "notify_one"
  /\ call' = "push"
  /\ UNCHANGED <<mutex, isDone, isStop, nWaiting, threads, dropped, workerState>>

\* Mutant: notify_one without taking the mutex.
NotifyOneUnlocked ==
  /\ client = "notify_one"
  /\ \/ \E w \in Asleep : Goto(w, "woken")
     \/ Asleep = {} /\ UNCHANGED pc
  /\ client' = "idle"
  /\ call' = "none"
  /\ UNCHANGED <<poolState, flag, held, ran, spurious, threads, dropped>>

\* The lock around cv.notify_one, and the return of the future.
NotifyOne ==
  /\ client = "notify_one"
  /\ mutex = NoWorker
  /\ \/ \E w \in Asleep : Goto(w, "woken")
     \/ Asleep = {} /\ UNCHANGED pc
  /\ client' = "idle"
  /\ call' = "none"
  /\ UNCHANGED <<poolState, flag, held, ran, spurious, threads, dropped>>

ClearQueue ==
  /\ Starts("clear_queue")
  /\ client' = "clear"
  /\ call' = "clear_queue"
  /\ UNCHANGED <<poolState, threads, dropped, workerState>>

\* One turn of clear_queue's loop.
ClearSome ==
  /\ client \in {"clear", "final_clear"}
  /\ q # <<>>
  /\ q' = Tail(q)
  /\ dropped' = dropped \cup {Head(q)}
  /\ UNCHANGED <<mutex, isDone, isStop, nWaiting, threads, client, call, workerState>>

\* clear_queue finds the queue empty: stop goes on to wake the threads.
ClearDone ==
  /\ client = "clear"
  /\ q = <<>>
  /\ IF call = "clear_queue"
       THEN client' = "idle" /\ call' = "none"
       ELSE client' = "notify_all" /\ UNCHANGED call
  /\ UNCHANGED <<poolState, threads, dropped, workerState>>

\* pop: the functor is handed to the caller.
Pop ==
  /\ Starts("pop")
  /\ q # <<>>
  /\ q' = Tail(q)
  /\ dropped' = dropped \cup {Head(q)}
  /\ UNCHANGED <<mutex, isDone, isStop, nWaiting, threads, client, call, workerState>>

Grow(S) ==
  /\ Starts("grow")
  /\ ~isStop /\ ~isDone
  /\ S # {}
  /\ \E s \in SetToSeqs(S) : threads' = threads \o s
  /\ pc' = [w \in Workers |-> IF w \in S THEN "pop" ELSE pc[w]]
  /\ UNCHANGED <<poolState, flag, held, ran, spurious, client, call, dropped>>

\* resize to fewer threads: the flags are raised and the threads detached;
\* only the client reads the vector of threads, so it is cut here.
Shrink(n) ==
  /\ Starts("shrink")
  /\ ~isStop /\ ~isDone
  /\ n < Len(threads)
  /\ flag' = [w \in Workers |->
                flag[w] \/ \E i \in n + 1 .. Len(threads) : threads[i] = w]
  /\ threads' = SubSeq(threads, 1, n)
  /\ client' = "notify_all"
  /\ call' = "resize"
  /\ UNCHANGED <<poolState, pc, held, ran, spurious, dropped>>

StopNow ==
  /\ Starts("stop_now")
  /\ ~isStop
  /\ isStop' = TRUE
  /\ flag' = [w \in Workers |-> flag[w] \/ w \in Pool]
  /\ client' = "clear"
  /\ call' = "stop"
  /\ UNCHANGED <<q, mutex, isDone, nWaiting, pc, held, ran, spurious, threads, dropped>>

StopWait ==
  /\ Starts("stop_wait")
  /\ ~isDone /\ ~isStop
  /\ isDone' = TRUE
  /\ client' = "notify_all"
  /\ call' = "stop"
  /\ UNCHANGED <<q, mutex, isStop, nWaiting, threads, dropped, workerState>>

\* ~thread_pool is stop(true), which returns at once in a stopped pool.
Destroy ==
  /\ Starts("destroy")
  /\ IF isDone \/ isStop
       THEN client' = "destroyed" /\ UNCHANGED isDone
       ELSE client' = "notify_all" /\ isDone' = TRUE
  /\ call' = "destroy"
  /\ UNCHANGED <<q, mutex, isStop, nWaiting, threads, dropped, workerState>>

\* Mutant: notify_all without taking the mutex.
NotifyAllUnlocked ==
  /\ client = "notify_all"
  /\ pc' = [w \in Workers |-> IF w \in Asleep THEN "woken" ELSE pc[w]]
  /\ IF call = "resize"
       THEN client' = "idle" /\ call' = "none"
       ELSE client' = "join" /\ UNCHANGED call
  /\ UNCHANGED <<poolState, flag, held, ran, spurious, threads, dropped>>

NotifyAll ==
  /\ client = "notify_all"
  /\ mutex = NoWorker
  /\ pc' = [w \in Workers |-> IF w \in Asleep THEN "woken" ELSE pc[w]]
  /\ IF call = "resize"
       THEN client' = "idle" /\ call' = "none"
       ELSE client' = "join" /\ UNCHANGED call
  /\ UNCHANGED <<poolState, flag, held, ran, spurious, threads, dropped>>

\* Mutant: the threads are detached instead of joined.
JoinNobody ==
  /\ client = "join"
  /\ client' = "final_clear"
  /\ UNCHANGED <<poolState, threads, call, dropped, workerState>>

\* The joins return when every joinable thread has left its loop.
Join ==
  /\ client = "join"
  /\ \A w \in Pool : At(w, "exited")
  /\ client' = "final_clear"
  /\ UNCHANGED <<poolState, threads, call, dropped, workerState>>

Stopped ==
  /\ client = "final_clear"
  /\ q = <<>>
  /\ threads' = <<>>
  /\ client' = IF call = "destroy" THEN "destroyed" ELSE "idle"
  /\ call' = IF call = "destroy" THEN call ELSE "none"
  /\ UNCHANGED <<poolState, dropped, workerState>>

\* The steps that finish a call the client has begun.
ClientProgress ==
  NotifyOne \/ ClearSome \/ ClearDone \/ NotifyAll \/ Join \/ Stopped

ClientCall ==
  \/ \E t \in Tasks : Push(t)
  \/ ClearQueue
  \/ Pop
  \/ \E S \in SUBSET Unborn : Grow(S)
  \/ \E n \in 0 .. Len(threads) : Shrink(n)
  \/ StopNow
  \/ StopWait
  \/ Destroy

Next ==
  \/ \E w \in Workers : WorkerStep(w) \/ SpuriousWake(w)
  \/ ClientProgress
  \/ ClientCall

Spec == Init /\ [][Next]_vars

(***************************************************************************)
(* The operating system runs every thread that can run, and a call that    *)
(* was begun goes on; nothing obliges the client to make another call, or  *)
(* the condition variable to wake up by itself.                            *)
(***************************************************************************)
Fairness ==
  /\ \A w \in Workers : WF_vars(WorkerStep(w))
  /\ WF_vars(ClientProgress)

FairSpec == Spec /\ Fairness
-------------------------------------------------------------------------------
(***************************************************************************)
(* Properties.                                                             *)
(***************************************************************************)
WorkerPlaces == {"unborn", "pop", "run", "check_flag", "lock", "exited"} \cup InWait
ClientPlaces == {"idle", "notify_one", "clear", "notify_all", "join",
                 "final_clear", "destroyed"}
Calls == {"none", "push", "clear_queue", "resize", "stop", "destroy"}

TypeOK ==
  /\ q \in Seq(Tasks)
  /\ threads \in Seq(Workers)
  /\ flag \in [Workers -> BOOLEAN]
  /\ mutex \in Workers \cup {NoWorker}
  /\ isDone \in BOOLEAN /\ isStop \in BOOLEAN
  /\ nWaiting \in 0..Cardinality(Workers)
  /\ pc \in [Workers -> WorkerPlaces]
  /\ held \in [Workers -> Tasks \cup {NoTask}]
  /\ client \in ClientPlaces
  /\ call \in Calls
  /\ ran \in [Tasks -> Nat]
  /\ dropped \subseteq Tasks
  /\ spurious \in 0..MaxSpurious

\* A functor is deleted by whoever took it out of the queue, so it must be in
\* one place only: queued once, held by one worker, executed, or dropped.
OneOwner ==
  /\ \A i, j \in DOMAIN q : q[i] = q[j] => i = j
  /\ \A v, w \in Workers : held[v] = held[w] /\ held[v] # NoTask => v = w
  /\ \A t \in Tasks :
       /\ ran[t] <= 1
       /\ t \in Queued => ran[t] = 0 /\ t \notin HeldBy(Workers) \cup dropped
       /\ t \in HeldBy(Workers) => ran[t] = 0 /\ t \notin dropped
       /\ t \in dropped => ran[t] = 0

\* The mutex protects the part of the loop between lock and cv.wait: at most one
\* worker is in it, and n_idle counts exactly the threads inside cv.wait.
WaitSection ==
  /\ \A w \in Workers : mutex = w <=> pc[w] \in InPredicate
  /\ nWaiting = Cardinality({w \in Workers : pc[w] \in InWait})

\* No lost wake-up: once a push has returned, a queued functor is never left with
\* every remaining thread of the pool asleep.
NoStranded ==
  q # <<>> /\ client = "idle" /\ (\E w \in Pool : pc[w] # "exited")
    => \E w \in Workers : pc[w] \notin {"unborn", "asleep", "exited"}

\* The destructor's comment, "waits for all the functions in the queue to be
\* finished": when it returns, every functor that was pushed has been executed.  It
\* would not hold for a client that shrinks the pool.
DestructorWaits ==
  client = "destroyed" => \A t \in Submitted : ran[t] = 1

\* When the destructor has returned no thread is still in the pool's code.
NoUseAfterDestroy ==
  client = "destroyed" => \A w \in Workers : pc[w] \in {"unborn", "exited"}

\* A call to a method of the pool returns.
CallsReturn == (client # "idle") ~> (client \in {"idle", "destroyed"})
-------------------------------------------------------------------------------
Abstract == INSTANCE TaskPool WITH
  MayAbandon <- Ops \cap {"clear_queue", "pop", "stop_now", "stop_wait"} # {},
  waiting    <- q,
  MayShrink  <- "shrink" \in Ops,
  running    <- HeldBy(Pool),
  loose      <- HeldBy(Workers \ Pool),
  finished   <- {t \in Tasks : ran[t] > 0},
  discarded  <- dropped,
  closed     <- client = "destroyed"

\* The pool implements the abstract one ...
ImplementsTaskPool == Abstract!Spec
\* ... with the liveness its futures rely on.
ImplementsFairTaskPool == Abstract!FairSpec
===============================================================================
