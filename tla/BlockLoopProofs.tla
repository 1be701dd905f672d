--------------------------- MODULE BlockLoopProofs ---------------------------
(***************************************************************************)
(* For any number of channels and threads, any ratio, any length of file   *)
(* and any size of block: the buffers are the loop's whenever it reads,    *)
(* writes or ends, and what the tasks make fits into them; what is written *)
(* is what a loop without threads and blocks writes, with the delay cut    *)
(* off; and the fades are where they were asked for.                       *)
(***************************************************************************)
EXTENDS BlockLoop, SequenceTheorems, WellFoundedInduction, TLAPS

\* The tasks that may touch the buffers.
Live == Pool!Waiting \cup running

\* A task is queued once, and is queued, running or finished.
OnePlace ==
  /\ waiting \in Seq(Nat \X Channels)
  /\ \A i, j \in DOMAIN waiting : waiting[i] = waiting[j] => i = j
  /\ Pool!Waiting \cap running = {}
  /\ Live \cap finished = {}

Places == {"read", "process", "push", "collect", "write", "close", "done"}

\* Only tasks of this block are alive: those that were pushed, and then those that were
\* not collected.
TasksOfBlock ==
  /\ pc \in Places /\ ch \in Channels /\ block \in Nat
  /\ Live \subseteq {block} \X Channels
  /\ pc = "push" => \A t \in Live : t[2] < ch
  /\ pc = "collect" => \A t \in Live : t[2] >= ch
  /\ pc \notin {"push", "collect"} => Live = {}

Sizes ==
  /\ inputFrames \in Nat /\ groupDelay \in Nat /\ totalRead \in Nat
  /\ chunk \in Nat \X (0 .. BUFFERSIZE)
  /\ position \in [Channels -> Nat]
  /\ made \in [Channels -> 0 .. Made(BUFFERSIZE)]
  /\ outputBlockIndex \in 0 .. Made(BUFFERSIZE)

LoopInv == OnePlace /\ TasksOfBlock /\ Sizes
-------------------------------------------------------------------------------
(***************************************************************************)
(* The pool.                                                               *)
(***************************************************************************)
LEMMA TaskSubmitted ==
  ASSUME OnePlace, NEW t \in Nat \X Channels, Pool!Submit(t)
  PROVE  OnePlace' /\ Live' = Live \cup {t}
<1>1. /\ waiting' = Append(waiting, t) /\ t \notin Pool!Waiting
      /\ t \notin running /\ t \notin finished
      /\ UNCHANGED <<running, finished>>
  BY DEF Pool!Submit
<1>2. /\ waiting' \in Seq(Nat \X Channels)
      /\ Len(waiting) \in Nat /\ DOMAIN waiting = 1 .. Len(waiting)
      /\ DOMAIN waiting' = 1 .. Len(waiting) + 1
      /\ waiting'[Len(waiting) + 1] = t
      /\ \A i \in 1 .. Len(waiting) : waiting'[i] = waiting[i]
  BY <1>1 DEF OnePlace
<1>3. \A i \in DOMAIN waiting : waiting[i] # t
  BY <1>1 DEF Pool!Waiting
<1>4. \A i, j \in DOMAIN waiting' : waiting'[i] = waiting'[j] => i = j
  <2>1. \A i \in DOMAIN waiting' : i \in DOMAIN waiting \/ i = Len(waiting) + 1
    BY <1>2
  <2> QED
    BY <1>2, <1>3, <2>1 DEF OnePlace
<1>5. Pool!Waiting' = Pool!Waiting \cup {t}
  <2>1. Pool!Waiting' \subseteq Pool!Waiting \cup {t}
    <3>1. \A i \in DOMAIN waiting' : i \in DOMAIN waiting \/ i = Len(waiting) + 1
      BY <1>2
    <3> QED
      BY <1>2, <3>1 DEF Pool!Waiting
  <2>2. t \in Pool!Waiting'
    <3>1. Len(waiting) + 1 \in DOMAIN waiting'
      BY <1>2
    <3> QED
      BY <1>2, <3>1 DEF Pool!Waiting
  <2>3. Pool!Waiting \subseteq Pool!Waiting'
    <3>1. \A i \in DOMAIN waiting : i \in DOMAIN waiting' /\ waiting'[i] = waiting[i]
      BY <1>2
    <3> QED
      BY <3>1 DEF Pool!Waiting
  <2> QED
    BY <2>1, <2>2, <2>3
<1>6. Live' = Live \cup {t}
  BY <1>1, <1>5 DEF Live
<1> QED
  BY <1>1, <1>2, <1>4, <1>5, <1>6 DEF OnePlace

LEMMA TaskBegun ==
  ASSUME OnePlace, Pool!Begin
  PROVE  OnePlace' /\ Live' \subseteq Live
<1>1. /\ waiting # <<>> /\ waiting' = Tail(waiting)
      /\ running' = running \cup {Head(waiting)} /\ finished' = finished
  BY DEF Pool!Begin
<1>2. /\ waiting' \in Seq(Nat \X Channels)
      /\ 1 \in DOMAIN waiting /\ Head(waiting) = waiting[1]
      /\ \A i \in DOMAIN waiting' :
           i \in Nat \ {0} /\ i + 1 \in DOMAIN waiting /\ waiting'[i] = waiting[i + 1]
  BY <1>1 DEF OnePlace
<1>3. Head(waiting) \in Pool!Waiting
  BY <1>2 DEF Pool!Waiting
<1>4. Pool!Waiting' \subseteq Pool!Waiting
  BY <1>2 DEF Pool!Waiting
<1>5. \A i \in DOMAIN waiting' : waiting'[i] # Head(waiting)
  <2> SUFFICES ASSUME NEW i \in DOMAIN waiting', waiting'[i] = Head(waiting) PROVE FALSE
    OBVIOUS
  <2>1. i + 1 = 1
    BY <1>2 DEF OnePlace
  <2> QED
    BY <1>2, <2>1
<1>6. Head(waiting) \notin Pool!Waiting'
  BY <1>5 DEF Pool!Waiting
<1>7. \A i, j \in DOMAIN waiting' : waiting'[i] = waiting'[j] => i = j
  <2> SUFFICES ASSUME NEW i \in DOMAIN waiting', NEW j \in DOMAIN waiting',
                      waiting'[i] = waiting'[j]
               PROVE  i = j
    OBVIOUS
  <2>1. i + 1 = j + 1
    BY <1>2 DEF OnePlace
  <2> QED
    BY <1>2, <2>1
<1>8. Live' \subseteq Live
  BY <1>1, <1>3, <1>4 DEF Live
<1>9. Pool!Waiting' \cap running' = {}
  BY <1>1, <1>4, <1>6 DEF OnePlace
<1> QED
  BY <1>1, <1>2, <1>7, <1>8, <1>9 DEF OnePlace

LEMMA TaskFinished ==
  ASSUME OnePlace, NEW t, Pool!Finish(t)
  PROVE  OnePlace' /\ Live' \subseteq Live /\ t \in Live
<1>1. /\ t \in running /\ running' = running \ {t} /\ finished' = finished \cup {t}
      /\ waiting' = waiting
  BY DEF Pool!Finish
<1>2. Pool!Waiting' = Pool!Waiting
  BY <1>1 DEF Pool!Waiting
<1>3. Live' \subseteq Live /\ t \in Live /\ t \notin Live'
  BY <1>1, <1>2 DEF Live, OnePlace
<1> QED
  BY <1>1, <1>2, <1>3 DEF OnePlace
-------------------------------------------------------------------------------
(***************************************************************************)
(* The sizes.                                                              *)
(***************************************************************************)
\* The ceiling of a quotient, by what it is multiplied out.
LEMMA CeilBounds ==
  ASSUME NEW a \in Nat, NEW b \in Nat \ {0}
  PROVE  /\ CeilDiv(a, b) \in Nat
         /\ b * CeilDiv(a, b) >= a
         /\ b * CeilDiv(a, b) < a + b
<1> DEFINE q == (a + b - 1) \div b
           r == (a + b - 1) % b
<1>1. q \in Nat /\ r \in 0 .. b - 1 /\ a + b - 1 = b * q + r
  OBVIOUS
<1> HIDE DEF q, r
<1>2. b * q \in Nat
  BY <1>1
<1>3. b * q >= a /\ b * q < a + b
  BY <1>1, <1>2
<1> QED
  BY <1>1, <1>3 DEF CeilDiv, q

\* Of two multiples of b, the one that is less than a multiple above the other is not more.
LEMMA MultiplesCompare ==
  ASSUME NEW b \in Nat \ {0}, NEW x \in Int, NEW y \in Int, b * x < b * y + b
  PROVE  x <= y
<1> SUFFICES ASSUME x >= y + 1 PROVE FALSE
  OBVIOUS
<1>1. b * (x - y - 1) >= 0
  OBVIOUS
<1>2. b * (x - y - 1) = b * x - b * y - b
  OBVIOUS
<1> QED
  BY <1>1, <1>2

LEMMA MadeBounds ==
  ASSUME NEW n \in Nat
  PROVE  /\ Made(n) \in Nat /\ n * L \in Nat
         /\ M * Made(n) >= n * L
         /\ M * Made(n) < n * L + M
<1>1. n * L \in Nat
  BY BlockLoopAssumption
<1> QED
  BY <1>1, CeilBounds, BlockLoopAssumption DEF Made

\* A block makes no more in the middle of a stream than at its start, and a full one no
\* less than another.
LEMMA BlockMakes ==
  ASSUME NEW p \in Nat, NEW n \in 0 .. BUFFERSIZE
  PROVE  Made(p + n) - Made(p) \in 0 .. Made(BUFFERSIZE)
<1> DEFINE B == BUFFERSIZE
<1>1. B \in Nat /\ n \in Nat /\ p + n \in Nat /\ L \in Nat /\ M \in Nat \ {0}
  BY BlockLoopAssumption
<1>2. /\ Made(p) \in Nat /\ p * L \in Nat /\ M * Made(p) >= p * L /\ M * Made(p) < p * L + M
  BY <1>1, MadeBounds
<1>3. /\ Made(p + n) \in Nat /\ (p + n) * L \in Nat
      /\ M * Made(p + n) >= (p + n) * L /\ M * Made(p + n) < (p + n) * L + M
  BY <1>1, MadeBounds
<1>4. /\ Made(B) \in Nat /\ B * L \in Nat /\ M * Made(B) >= B * L
  BY <1>1, MadeBounds
<1>5. (p + n) * L = p * L + n * L /\ n * L \in Nat
  BY <1>1
<1>6. n * L <= B * L
  <2>1. (B - n) * L >= 0 /\ (B - n) * L = B * L - n * L
    BY <1>1
  <2> QED
    BY <1>4, <1>5, <2>1
<1>7. Made(p) <= Made(p + n)
  <2>1. M * Made(p) \in Int /\ M * Made(p + n) \in Int
    BY <1>1, <1>2, <1>3
  <2>2. M * Made(p) < M * Made(p + n) + M
    BY <1>1, <1>2, <1>3, <1>5, <2>1
  <2> QED
    BY <1>1, <1>2, <1>3, <2>2, MultiplesCompare
<1>8. Made(p + n) <= Made(p) + Made(B)
  <2>1. /\ M * Made(p) \in Int /\ M * Made(p + n) \in Int /\ M * Made(B) \in Int
        /\ M * (Made(p) + Made(B)) = M * Made(p) + M * Made(B)
    BY <1>1, <1>2, <1>3, <1>4
  <2>2. M * Made(p + n) < M * (Made(p) + Made(B)) + M
    BY <1>1, <1>2, <1>3, <1>4, <1>5, <1>6, <2>1
  <2> QED
    BY <1>1, <1>2, <1>3, <1>4, <2>2, MultiplesCompare
<1> QED
  BY <1>2, <1>3, <1>4, <1>7, <1>8
-------------------------------------------------------------------------------
(***************************************************************************)
(* The loop.                                                               *)
(***************************************************************************)
LEMMA MadeOfFullBlock == BUFFERSIZE \in Nat /\ Made(BUFFERSIZE) \in Nat
BY MadeBounds, BlockLoopAssumption

LEMMA FirstChannel == 1 \in Channels /\ nChannels \in Channels
BY BlockLoopAssumption DEF Channels

LEMMA InitEstablishes == Init => LoopInv
<1> SUFFICES ASSUME Init PROVE LoopInv
  OBVIOUS
<1>1. waiting = <<>> /\ running = {} /\ finished = {}
  BY DEF Init, Pool!Init
<1>2. Pool!Waiting = {} /\ Live = {} /\ DOMAIN waiting = {}
  BY <1>1 DEF Pool!Waiting, Live
<1>3. OnePlace
  BY <1>1, <1>2 DEF OnePlace
<1>4. TasksOfBlock
  BY <1>2, FirstChannel DEF Init, TasksOfBlock, Places
<1>5. Sizes
  <2>1. \A s \in Settings : s.delay \in Nat
    BY BlockLoopAssumption
  <2>2. inputFrames \in Nat /\ groupDelay \in Nat
    BY <2>1, BlockLoopAssumption DEF Init
  <2> QED
    BY <2>2, MadeOfFullBlock DEF Init, Sizes
<1> QED
  BY <1>3, <1>4, <1>5 DEF LoopInv

\* What a channel's converter does keeps to the sizes.
LEMMA ProcessKeepsSizes ==
  ASSUME Sizes, NEW c \in Channels, Process(c)
  PROVE  /\ position' \in [Channels -> Nat]
         /\ made' \in [Channels -> 0 .. Made(BUFFERSIZE)]
         /\ made'[c] \in 0 .. Made(BUFFERSIZE)
<1> DEFINE n == Made(position[c] + chunk[2]) - Made(position[c])
<1>1. position[c] \in Nat /\ chunk[2] \in 0 .. BUFFERSIZE /\ BUFFERSIZE \in Nat
  BY BlockLoopAssumption DEF Sizes
<1>2. n \in 0 .. Made(BUFFERSIZE)
  BY <1>1, BlockMakes
<1>3. position' = [position EXCEPT ![c] = @ + chunk[2]] /\ made' = [made EXCEPT ![c] = n]
  BY DEF Process
<1> HIDE DEF n
<1>4. position[c] + chunk[2] \in Nat
  BY <1>1
<1> QED
  BY <1>2, <1>3, <1>4 DEF Sizes

\* While the pool is left alone, its tasks have their places.
LEMMA PoolLeftAlone ==
  ASSUME OnePlace, UNCHANGED <<waiting, running, finished>>
  PROVE  OnePlace' /\ Live' = Live
<1>1. Pool!Waiting' = Pool!Waiting
  BY DEF Pool!Waiting
<1> QED
  BY <1>1 DEF OnePlace, Live

LEMMA ReadKeeps ==
  ASSUME LoopInv, Read
  PROVE  LoopInv'
<1>1. UNCHANGED <<waiting, running, finished, inputFrames, groupDelay, position, made>>
  BY DEF Read, poolVars, options, convert
<1>2. OnePlace' /\ Live' = Live
  BY <1>1, PoolLeftAlone DEF LoopInv
<1>3. Live = {}
  BY DEF LoopInv, TasksOfBlock, Read
<1>4. TasksOfBlock'
  <2>1. pc' \in {"push", "process"} /\ ch' = 1 /\ block' = block + 1
    BY DEF Read
  <2>2. block' \in Nat /\ pc' \in Places
    BY <2>1 DEF LoopInv, TasksOfBlock, Places
  <2> QED
    BY <1>2, <1>3, <2>1, <2>2, FirstChannel DEF TasksOfBlock
<1>5. Sizes'
  <2> DEFINE left == inputFrames - totalRead
             n == IF left > 0 THEN Lower(left, BUFFERSIZE) ELSE Lower(tailFrames, BUFFERSIZE)
  <2>1. tailFrames \in Nat
    <3>1. groupDelay * M \in Nat
      BY BlockLoopAssumption DEF LoopInv, Sizes
    <3> QED
      BY <3>1, CeilBounds, BlockLoopAssumption DEF tailFrames
  <2>2. left \in Int /\ BUFFERSIZE \in Nat
    BY BlockLoopAssumption DEF LoopInv, Sizes
  <2>3. n \in 0 .. BUFFERSIZE
    BY <2>1, <2>2 DEF Lower
  <2>4. chunk' = <<totalRead, n>> /\ totalRead' = totalRead + n /\ outputBlockIndex' = 0
    BY DEF Read
  <2> HIDE DEF n
  <2>5. totalRead \in Nat /\ totalRead + n \in Nat
    BY <2>2, <2>3 DEF LoopInv, Sizes
  <2> QED
    BY <1>1, <2>3, <2>4, <2>5, MadeOfFullBlock DEF LoopInv, Sizes
<1> QED
  BY <1>2, <1>4, <1>5 DEF LoopInv

LEMMA ProcessInTurnKeeps ==
  ASSUME LoopInv, ProcessInTurn
  PROVE  LoopInv'
<1>1. UNCHANGED <<waiting, running, finished, inputFrames, groupDelay, chunk, totalRead, block>>
  BY DEF ProcessInTurn, poolVars, options, input
<1>2. OnePlace' /\ Live' = Live /\ Live = {}
  BY <1>1, PoolLeftAlone DEF LoopInv, TasksOfBlock, ProcessInTurn
<1>3. ch \in Channels /\ Process(ch) /\ outputBlockIndex' = made'[ch]
  BY DEF LoopInv, TasksOfBlock, ProcessInTurn
<1>4. ch' \in Channels /\ pc' \in {"process", "write"}
  BY <1>3, BlockLoopAssumption DEF ProcessInTurn, NextChannel, Channels
<1>5. TasksOfBlock'
  BY <1>1, <1>2, <1>4 DEF LoopInv, TasksOfBlock, Places
<1>6. Sizes'
  BY <1>1, <1>3, ProcessKeepsSizes DEF LoopInv, Sizes
<1> QED
  BY <1>2, <1>5, <1>6 DEF LoopInv

LEMMA PushSizes ==
  ASSUME LoopInv, PushTask
  PROVE  Sizes'
BY DEF LoopInv, Sizes, PushTask, options, input, convert

LEMMA PushTaskKeeps ==
  ASSUME LoopInv, PushTask
  PROVE  LoopInv'
<1> DEFINE t == <<block, ch>>
<1>1. block \in Nat /\ ch \in Channels /\ t \in Nat \X Channels /\ t[2] = ch
  BY DEF LoopInv, TasksOfBlock
<1>2. OnePlace' /\ Live' = Live \cup {t}
  BY <1>1, TaskSubmitted DEF LoopInv, PushTask
<1>3. pc = "push" /\ block' = block
  BY DEF PushTask
<1>4. Live \subseteq {block} \X Channels /\ \A u \in Live : u[2] < ch
  BY <1>3 DEF LoopInv, TasksOfBlock
<1>5. Live' \subseteq {block} \X Channels
  BY <1>1, <1>2, <1>4
<1>6. CASE ch = nChannels
  <2>1. ch' = 1 /\ pc' = "collect"
    BY <1>6 DEF PushTask, NextChannel
  <2>2. \A u \in Live' : u[2] >= 1
    BY <1>5, BlockLoopAssumption DEF Channels
  <2> QED
    BY <1>1, <1>2, <1>3, <1>5, <2>1, <2>2, FirstChannel, PushSizes
       DEF LoopInv, TasksOfBlock, Places
<1>7. CASE ch # nChannels
  <2>1. ch' = ch + 1 /\ pc' = "push"
    BY <1>3, <1>7 DEF PushTask, NextChannel
  <2>2. ch' \in Channels
    BY <1>1, <1>7, <2>1, BlockLoopAssumption DEF Channels
  <2>3. \A u \in Live' : u[2] < ch + 1
    <3>1. ch \in Nat
      BY <1>1 DEF Channels
    <3>2. \A u \in Live : u[2] \in Nat
      BY <1>4 DEF Channels
    <3> QED
      BY <1>1, <1>2, <1>4, <3>1, <3>2
  <2> QED
    BY <1>1, <1>2, <1>3, <1>5, <2>1, <2>2, <2>3, PushSizes
       DEF LoopInv, TasksOfBlock, Places
<1> QED
  BY <1>6, <1>7

LEMMA TaskBeginsKeeps ==
  ASSUME LoopInv, TaskBegins
  PROVE  LoopInv'
<1>1. OnePlace' /\ Live' \subseteq Live
  BY TaskBegun DEF LoopInv, TaskBegins
<1>2. UNCHANGED <<pc, ch, block>>
  BY DEF TaskBegins
<1>3. TasksOfBlock'
  BY <1>1, <1>2 DEF LoopInv, TasksOfBlock
<1>4. Sizes'
  BY DEF LoopInv, Sizes, TaskBegins, options, input, convert
<1> QED
  BY <1>1, <1>3, <1>4 DEF LoopInv

LEMMA TaskFinishesKeeps ==
  ASSUME LoopInv, NEW t, TaskFinishes(t)
  PROVE  LoopInv'
<1>1. OnePlace' /\ Live' \subseteq Live /\ t \in Live
  BY TaskFinished DEF LoopInv, TaskFinishes
<1>2. UNCHANGED <<pc, ch, block>>
  BY DEF TaskFinishes
<1>3. TasksOfBlock'
  BY <1>1, <1>2 DEF LoopInv, TasksOfBlock
<1>4. t[2] \in Channels
  BY <1>1 DEF LoopInv, TasksOfBlock
<1>5. Sizes'
  <2>1. UNCHANGED <<inputFrames, groupDelay, chunk, totalRead, outputBlockIndex>>
    BY DEF TaskFinishes, options, input
  <2> QED
    BY <1>4, <2>1, ProcessKeepsSizes DEF LoopInv, Sizes, TaskFinishes
<1> QED
  BY <1>1, <1>3, <1>5 DEF LoopInv

LEMMA CollectKeeps ==
  ASSUME LoopInv, Collect
  PROVE  LoopInv'
<1>1. UNCHANGED <<waiting, running, finished, inputFrames, groupDelay, chunk, totalRead, block,
                  position, made>>
  BY DEF Collect, poolVars, options, input, convert
<1>2. OnePlace' /\ Live' = Live
  BY <1>1, PoolLeftAlone DEF LoopInv
<1>3. /\ pc = "collect" /\ ch \in Channels
      /\ Live \subseteq {block} \X Channels /\ \A t \in Live : t[2] >= ch
  BY DEF LoopInv, TasksOfBlock, Collect
<1>4. <<block, ch>> \notin Live
  BY DEF LoopInv, OnePlace, Collect
\* The channel collected is no longer alive, so those that are come after it.
<1>5. \A t \in Live : t[2] \in Channels /\ t[2] > ch
  <2> SUFFICES ASSUME NEW t \in Live PROVE t[2] \in Channels /\ t[2] > ch
    OBVIOUS
  <2>1. t = <<block, t[2]>> /\ t[2] \in Channels
    BY <1>3
  <2>2. t[2] # ch
    BY <1>4, <2>1
  <2> QED
    BY <1>3, <2>1, <2>2 DEF Channels
<1>6. TasksOfBlock'
  <2>1. CASE ch = nChannels
    <3>1. Live = {}
      BY <1>5, <2>1, BlockLoopAssumption DEF Channels
    <3>2. ch' = 1 /\ pc' = "write"
      BY <2>1 DEF Collect, NextChannel
    <3> QED
      BY <1>1, <1>2, <3>1, <3>2, FirstChannel DEF LoopInv, TasksOfBlock, Places
  <2>2. CASE ch # nChannels
    <3>1. ch' = ch + 1 /\ pc' = "collect"
      BY <1>3, <2>2 DEF Collect, NextChannel
    <3>2. ch' \in Channels
      BY <1>3, <2>2, <3>1, BlockLoopAssumption DEF Channels
    <3>3. \A t \in Live : t[2] >= ch + 1
      BY <1>3, <1>5 DEF Channels
    <3> QED
      BY <1>1, <1>2, <1>3, <3>1, <3>2, <3>3 DEF LoopInv, TasksOfBlock, Places
  <2> QED
    BY <2>1, <2>2
<1>7. Sizes'
  <2>1. outputBlockIndex' \in 0 .. Made(BUFFERSIZE)
    BY <1>3 DEF LoopInv, Sizes, Collect
  <2> QED
    BY <1>1, <2>1 DEF LoopInv, Sizes
<1> QED
  BY <1>2, <1>6, <1>7 DEF LoopInv

LEMMA WriteKeeps ==
  ASSUME LoopInv, Write
  PROVE  LoopInv'
<1>1. /\ UNCHANGED <<waiting, running, finished, inputFrames, groupDelay, chunk, totalRead,
                     block, ch, position, made, outputBlockIndex>>
      /\ pc = "write" /\ pc' \in {"close", "read"}
  BY DEF Write, poolVars, options, input, convert
<1>2. OnePlace' /\ Live' = Live /\ Live = {}
  BY <1>1, PoolLeftAlone DEF LoopInv, TasksOfBlock
<1>3. TasksOfBlock'
  BY <1>1, <1>2 DEF LoopInv, TasksOfBlock, Places
<1>4. Sizes'
  BY <1>1 DEF LoopInv, Sizes
<1> QED
  BY <1>2, <1>3, <1>4 DEF LoopInv

LEMMA DestroyPoolKeeps ==
  ASSUME LoopInv, DestroyPool
  PROVE  LoopInv'
<1>1. /\ UNCHANGED <<waiting, running, finished, inputFrames, groupDelay, chunk, totalRead,
                     block, ch, position, made, outputBlockIndex>>
      /\ pc = "close" /\ pc' = "done"
  BY DEF DestroyPool, Pool!Close, options, input, convert
<1>2. OnePlace' /\ Live' = Live /\ Live = {}
  BY <1>1, PoolLeftAlone DEF LoopInv, TasksOfBlock
<1>3. TasksOfBlock'
  BY <1>1, <1>2 DEF LoopInv, TasksOfBlock, Places
<1>4. Sizes'
  BY <1>1 DEF LoopInv, Sizes
<1> QED
  BY <1>2, <1>3, <1>4 DEF LoopInv

LEMMA StepKeeps == LoopInv /\ [Next]_vars => LoopInv'
<1> SUFFICES ASSUME LoopInv, [Next]_vars PROVE LoopInv'
  OBVIOUS
<1>1. CASE Loop
  BY <1>1, ReadKeeps, ProcessInTurnKeeps, PushTaskKeeps, CollectKeeps, WriteKeeps,
     DestroyPoolKeeps DEF Loop
<1>2. CASE TaskBegins
  BY <1>2, TaskBeginsKeeps
<1>3. ASSUME NEW t \in Tasks, TaskFinishes(t) PROVE LoopInv'
  BY <1>3, TaskFinishesKeeps
<1>4. CASE UNCHANGED vars
  <2>1. OnePlace' /\ Live' = Live
    BY <1>4, PoolLeftAlone DEF LoopInv, vars, poolVars
  <2>2. TasksOfBlock' /\ Sizes'
    BY <1>4, <2>1 DEF LoopInv, TasksOfBlock, Sizes, vars, options, input, convert
  <2> QED
    BY <2>1, <2>2 DEF LoopInv
<1> QED
  BY <1>1, <1>2, <1>3, <1>4 DEF Next

LEMMA InvariantImplies == LoopInv => BuffersAreOurs
<1> SUFFICES ASSUME LoopInv PROVE BuffersAreOurs
  OBVIOUS
<1>1. ASSUME Live = {} PROVE waiting = <<>> /\ running = {}
  <2>1. DOMAIN waiting = {}
    BY <1>1 DEF Live, Pool!Waiting
  <2> QED
    BY <1>1, <2>1 DEF Live, LoopInv, OnePlace
<1>2. pc \in {"read", "write", "close", "done"} => Live = {}
  BY DEF LoopInv, TasksOfBlock
<1>3. /\ \A c \in Channels : made[c] \in 0 .. outputChannelBufferSize
      /\ outputBlockIndex \in 0 .. outputBlockFrames
  BY MadeOfFullBlock DEF LoopInv, Sizes, outputChannelBufferSize, outputBlockFrames
<1> QED
  BY <1>1, <1>2, <1>3 DEF BuffersAreOurs

\* For every number of channels, ratio, block and file: the loop reads, writes and ends
\* only when no task of the pool has the buffers, and no task makes more than they hold.
THEOREM BuffersStayOurs == Spec => []BuffersAreOurs
<1>1. Spec => []LoopInv
  BY InitEstablishes, StepKeeps, PTL DEF Spec
<1> QED
  BY <1>1, InvariantImplies, PTL
-------------------------------------------------------------------------------
(***************************************************************************)
(* The pass writes the converted stream.                                   *)
(***************************************************************************)
\* The effects work on a block from its start, so they suit a stream without a delay.
EffectsSuit(delay, stereo, fadeIn, fadeOut) == delay > 0 => ~stereo /\ fadeIn = 0 /\ fadeOut = 0

\* The delay is over in the first block, and one block of silence makes up for it.
DelayFits(frames, delay) ==
  /\ delay <= Made(Lower(frames, BUFFERSIZE))
  /\ CeilDiv(delay * M, L) <= BUFFERSIZE

OptionsFit ==
  /\ inputFrames \in Nat \ {0}
  /\ DelayFits(inputFrames, groupDelay)
  /\ EffectsSuit(groupDelay, bAdjustStereoWidth, fadeInTime, fadeOutTime)

\* Between a read and the write that goes with it.
Working == {"process", "push", "collect", "write"}

\* How far the input has been read, and the output written.
ReadInv ==
  /\ eof \in BOOLEAN /\ consumed \in Nat
  /\ eof => totalRead = inputFrames + tailFrames
  /\ ~eof => totalRead <= inputFrames
  /\ pc = "read" => ~eof
  /\ pc = "close" => eof
  /\ pc \in Working => chunk[1] = consumed /\ totalRead = consumed + chunk[2]
  /\ pc \notin Working => consumed = totalRead
  /\ pc \in Working /\ consumed = 0 => totalRead = Lower(inputFrames, BUFFERSIZE)

\* A channel's converter has not yet, or has, taken the input buffer.
Fresh(c) == position[c] = consumed
Converted(c) ==
  /\ position[c] = totalRead
  /\ made[c] = Made(totalRead) - Made(consumed)
  /\ \A f \in Slots : f < made[c] => outputBlock[f][c] = Made(consumed) + f

ChannelsInv ==
  /\ \A t \in finished : t[1] \in 0 .. block
  /\ outputBlock \in [Slots -> [Channels -> Int]]
  /\ pc = "read" => \A c \in Channels : Fresh(c)
  /\ pc = "process" => \A c \in Channels : IF c < ch THEN Converted(c) ELSE Fresh(c)
  /\ pc = "push" => \A c \in Channels : c >= ch => Fresh(c)
  /\ pc \in {"push", "collect"} =>
       \A c \in Channels : /\ <<block, c>> \in finished => Converted(c)
                           /\ <<block, c>> \in Live => Fresh(c)
  /\ pc = "collect" => \A c \in Channels : c < ch => Converted(c)
  /\ pc = "write" => /\ \A c \in Channels : Converted(c)
                     /\ outputBlockIndex = Made(totalRead) - Made(consumed)

\* What has been written is the stream so far, without the delay.
FileInv ==
  /\ file = [k \in 1 .. Serial!Kept(consumed) |-> file[k]]
  /\ \A k \in DOMAIN file : file[k].frame = [c \in Channels |-> groupDelay + k - 1]
  /\ IF consumed = 0 THEN outStartOffset = groupDelay
                     ELSE outStartOffset = 0 /\ groupDelay <= Made(consumed)

StreamInv == OptionsFit /\ ReadInv /\ ChannelsInv /\ FileInv
-------------------------------------------------------------------------------
LEMMA MadeNothing == Made(0) = 0
<1>1. 0 * L = 0 /\ M \in Nat \ {0}
  BY BlockLoopAssumption
<1>2. (0 + M - 1) \div M = 0
  BY <1>1
<1> QED
  BY <1>1, <1>2 DEF Made, CeilDiv

\* More input never makes less output.
LEMMA MadeGrows ==
  ASSUME NEW m \in Nat, NEW n \in Nat, m <= n
  PROVE  Made(m) <= Made(n)
<1>1. /\ Made(m) \in Nat /\ m * L \in Nat /\ M * Made(m) < m * L + M
      /\ Made(n) \in Nat /\ n * L \in Nat /\ M * Made(n) >= n * L
  BY MadeBounds
<1>2. m * L <= n * L
  <2>1. (n - m) * L >= 0 /\ (n - m) * L = n * L - m * L
    BY BlockLoopAssumption
  <2> QED
    BY <1>1, <2>1
<1>3. M \in Nat \ {0} /\ M * Made(m) \in Int /\ M * Made(n) \in Int
  BY <1>1, BlockLoopAssumption
<1>4. M * Made(m) < M * Made(n) + M
  BY <1>1, <1>2, <1>3
<1> QED
  BY <1>1, <1>3, <1>4, MultiplesCompare

\* The silence at the end makes the frames that the delay has cost.
LEMMA TailMakesUp ==
  ASSUME groupDelay \in Nat, NEW n \in Nat
  PROVE  tailFrames \in Nat /\ Made(n) + groupDelay <= Made(n + tailFrames)
<1> DEFINE t == tailFrames
<1>1. /\ L \in Nat \ {0} /\ M \in Nat \ {0} /\ groupDelay * M \in Nat
  BY BlockLoopAssumption
<1>2. t \in Nat /\ L * t >= groupDelay * M
  BY <1>1, CeilBounds DEF tailFrames
<1> HIDE DEF t
<1>3. n + t \in Nat /\ (n + t) * L = n * L + L * t /\ n * L \in Nat /\ L * t \in Nat
  BY <1>1, <1>2
<1>4. /\ Made(n) \in Nat /\ M * Made(n) < n * L + M
      /\ Made(n + t) \in Nat /\ M * Made(n + t) >= (n + t) * L
  BY <1>3, MadeBounds
<1> DEFINE x == Made(n) + groupDelay   y == Made(n + t)
<1>5. x \in Int /\ y \in Int /\ M * x = M * Made(n) + groupDelay * M
  BY <1>1, <1>4
<1>6. M * Made(n) \in Int /\ M * y \in Int
  BY <1>1, <1>4
<1>7. M * x < M * y + M
  BY <1>1, <1>2, <1>3, <1>4, <1>5, <1>6
<1>8. x <= y
  <2> HIDE DEF x, y
  <2> QED
    BY <1>1, <1>5, <1>7, MultiplesCompare
<1> QED
  BY <1>2, <1>8 DEF t

LEMMA TailFits ==
  ASSUME Sizes, OptionsFit
  PROVE  tailFrames \in 0 .. BUFFERSIZE
<1>1. tailFrames \in Nat
  BY TailMakesUp DEF Sizes
<1> QED
  BY <1>1, BlockLoopAssumption DEF OptionsFit, DelayFits, tailFrames

\* The slots of the output block are enough for what a full block makes.
LEMMA EnoughSlots ==
  ASSUME NEW f \in Nat, f < Made(BUFFERSIZE)
  PROVE  f \in Slots
BY MadeOfFullBlock DEF Slots, outputBlockFrames, outputChannelBufferSize
-------------------------------------------------------------------------------
\* What does not touch a channel leaves it as fresh, or as converted, as it was.
LEMMA OthersStay ==
  ASSUME UNCHANGED <<position, made, outputBlock, totalRead, consumed>>
  PROVE  \A c \in Channels : (Fresh(c)' <=> Fresh(c)) /\ (Converted(c)' <=> Converted(c))
BY DEF Fresh, Converted

\* The conversion of a channel concerns only that channel.
LEMMA ProcessConverts ==
  ASSUME Sizes, outputBlock \in [Slots -> [Channels -> Int]], consumed \in Nat,
         chunk[1] = consumed, totalRead = consumed + chunk[2],
         NEW c \in Channels, Fresh(c), Process(c), UNCHANGED <<totalRead, consumed>>
  PROVE  /\ Converted(c)'
         /\ made'[c] = Made(totalRead) - Made(consumed)
         /\ outputBlock' \in [Slots -> [Channels -> Int]]
         /\ \A d \in Channels \ {c} : (Fresh(d) => Fresh(d)') /\ (Converted(d) => Converted(d)')
<1> DEFINE n == Made(totalRead) - Made(consumed)
           base == Made(consumed)
<1>1. /\ position \in [Channels -> Nat] /\ made \in [Channels -> 0 .. Made(BUFFERSIZE)]
      /\ position[c] = consumed /\ position[c] + chunk[2] = totalRead /\ totalRead \in Nat
  BY DEF Sizes, Fresh
<1>2. /\ position' = [position EXCEPT ![c] = @ + chunk[2]]
      /\ made' = [made EXCEPT ![c] = n]
      /\ outputBlock' = [f \in Slots |->
           IF f < n THEN [outputBlock[f] EXCEPT ![c] = base + f] ELSE outputBlock[f]]
  BY <1>1 DEF Process
<1>3. base \in Nat /\ n \in Int
  BY <1>1, MadeBounds
<1> HIDE DEF n, base
<1>4. position'[c] = totalRead /\ made'[c] = n
  BY <1>1, <1>2
<1>5. \A f \in Slots : f \in Int
  BY DEF Slots
<1>6. ASSUME NEW f \in Slots
      PROVE  /\ outputBlock'[f] \in [Channels -> Int]
             /\ f < n => outputBlock'[f][c] = base + f
             /\ \A d \in Channels \ {c} : outputBlock'[f][d] = outputBlock[f][d]
  <2>1. outputBlock[f] \in [Channels -> Int] /\ base + f \in Int
    BY <1>3, <1>5
  <2>2. outputBlock'[f] = IF f < n THEN [outputBlock[f] EXCEPT ![c] = base + f] ELSE outputBlock[f]
    BY <1>2
  <2> QED
    BY <2>1, <2>2
<1>7. outputBlock' \in [Slots -> [Channels -> Int]]
  BY <1>2, <1>6
<1>8. \A d \in Channels \ {c} : position'[d] = position[d] /\ made'[d] = made[d]
  BY <1>1, <1>2
<1>9. Converted(c)'
  <2>1. made'[c] = Made(totalRead') - Made(consumed')
    BY <1>4 DEF n
  <2>2. \A f \in Slots : f < made'[c] => outputBlock'[f][c] = Made(consumed') + f
    BY <1>4, <1>6 DEF base
  <2>3. position'[c] = totalRead'
    BY <1>4
  <2> QED
    BY <2>1, <2>2, <2>3 DEF Converted
<1>10. ASSUME NEW d \in Channels \ {c}
       PROVE  (Fresh(d) => Fresh(d)') /\ (Converted(d) => Converted(d)')
  BY <1>6, <1>8 DEF Fresh, Converted
<1> QED
  BY <1>4, <1>7, <1>9, <1>10 DEF n
-------------------------------------------------------------------------------
LEMMA StreamRead ==
  ASSUME LoopInv, StreamInv, Read
  PROVE  StreamInv'
<1> DEFINE left == inputFrames - totalRead
           n == IF left > 0 THEN Lower(left, BUFFERSIZE) ELSE Lower(tailFrames, BUFFERSIZE)
<1>1. /\ pc = "read" /\ pc' \in {"push", "process"} /\ ch' = 1 /\ block' = block + 1
      /\ eof' = (left <= 0) /\ chunk' = <<totalRead, n>> /\ totalRead' = totalRead + n
      /\ UNCHANGED <<inputFrames, groupDelay, bAdjustStereoWidth, fadeInTime, fadeOutTime,
                     position, made, outputBlock, outStartOffset, file, consumed,
                     waiting, running, finished>>
  BY DEF Read, options, convert, output, poolVars
<1>2. /\ inputFrames \in Nat \ {0} /\ totalRead \in Nat /\ consumed = totalRead /\ block \in Nat
      /\ totalRead <= inputFrames /\ tailFrames \in 0 .. BUFFERSIZE /\ BUFFERSIZE \in Nat \ {0}
  BY <1>1, TailFits, BlockLoopAssumption
  DEF LoopInv, Sizes, TasksOfBlock, StreamInv, ReadInv, OptionsFit, Working
<1>3. /\ left > 0 => n > 0 /\ totalRead + n <= inputFrames
      /\ ~(left > 0) => totalRead + n = inputFrames + tailFrames
      /\ n \in Nat
      /\ totalRead = 0 => n = Lower(inputFrames, BUFFERSIZE)
  BY <1>2 DEF Lower
<1>4. tailFrames' = tailFrames
  BY <1>1 DEF tailFrames
<1> HIDE DEF n
<1>5. OptionsFit'
  BY <1>1 DEF StreamInv, OptionsFit
<1>6. ReadInv'
  <2>1. eof' \in BOOLEAN /\ consumed' \in Nat
    BY <1>1, <1>2
  <2>2. /\ eof' => totalRead' = inputFrames' + tailFrames'
        /\ ~eof' => totalRead' <= inputFrames'
    <3>1. left \in Int /\ (eof' <=> ~(left > 0))
      <4>1. eof' = (left <= 0)
        BY <1>1
      <4>2. left \in Int
        BY <1>2
      <4>3. (left <= 0) <=> ~(left > 0)
        BY <4>2
      <4> QED
        BY <4>1, <4>2, <4>3, Zenon
    <3> QED
      BY <1>1, <1>3, <1>4, <3>1
  <2>3. pc' # "read" /\ pc' # "close" /\ pc' \in Working
    BY <1>1 DEF Working
  <2>4. chunk'[1] = consumed' /\ totalRead' = consumed' + chunk'[2]
    BY <1>1, <1>2
  <2>5. consumed' = 0 => totalRead' = Lower(inputFrames', BUFFERSIZE)
    BY <1>1, <1>2, <1>3
  <2> QED
    BY <2>1, <2>2, <2>3, <2>4, <2>5 DEF ReadInv
<1>7. ChannelsInv'
  <2>1. \A c \in Channels : Fresh(c)'
    BY <1>1 DEF StreamInv, ChannelsInv, Fresh
  <2>2. \A t \in finished : t[1] \in 0 .. block
    BY DEF StreamInv, ChannelsInv
  <2>3. OnePlace' /\ Live' = {}
    BY <1>1, PoolLeftAlone DEF LoopInv, TasksOfBlock
  <2>4. \A c \in Channels : c \in Nat /\ ~(c < ch') /\ <<block', c>> \notin finished'
    <3> SUFFICES ASSUME NEW c \in Channels
                 PROVE  c \in Nat /\ ~(c < ch') /\ <<block', c>> \notin finished'
      OBVIOUS
    <3>1. c \in Nat /\ c >= 1
      BY DEF Channels
    <3>2. ASSUME <<block', c>> \in finished PROVE FALSE
      <4>1. <<block', c>>[1] \in 0 .. block
        BY <2>2, <3>2
      <4> QED
        BY <1>1, <1>2, <4>1
    <3> QED
      BY <1>1, <3>1, <3>2
  <2>5. \A t \in finished' : t[1] \in 0 .. block'
    BY <1>1, <1>2, <2>2
  <2> QED
    BY <1>1, <2>1, <2>3, <2>4, <2>5 DEF StreamInv, ChannelsInv
<1>8. FileInv'
  BY <1>1 DEF StreamInv, FileInv, Serial!Kept
<1> QED
  BY <1>5, <1>6, <1>7, <1>8 DEF StreamInv

\* What happens between a read and a write neither reads nor writes.
LEMMA WorkingStep ==
  ASSUME StreamInv, pc \in Working, pc' \in Working,
         UNCHANGED <<inputFrames, groupDelay, bAdjustStereoWidth, fadeInTime, fadeOutTime,
                     eof, chunk, totalRead, consumed, outStartOffset, file>>
  PROVE  OptionsFit' /\ ReadInv' /\ FileInv'
<1>1. OptionsFit'
  BY DEF StreamInv, OptionsFit
<1>2. tailFrames' = tailFrames
  BY DEF tailFrames
<1>3. ReadInv'
  BY <1>2 DEF StreamInv, ReadInv, Working
<1>4. FileInv'
  BY DEF StreamInv, FileInv, Serial!Kept
<1> QED
  BY <1>1, <1>3, <1>4

LEMMA StreamProcessInTurn ==
  ASSUME LoopInv, StreamInv, ProcessInTurn
  PROVE  StreamInv'
<1>1. /\ pc = "process" /\ Process(ch) /\ NextChannel("write") /\ outputBlockIndex' = made'[ch]
      /\ UNCHANGED <<inputFrames, groupDelay, bAdjustStereoWidth, fadeInTime, fadeOutTime,
                     eof, chunk, totalRead, consumed, outStartOffset, file, block, finished>>
  BY DEF ProcessInTurn, options, input, output, poolVars
<1>2. ch \in Channels /\ Fresh(ch) /\ Sizes
  <2>1. ch \in Channels /\ ~(ch < ch)
    BY DEF LoopInv, TasksOfBlock, Channels
  <2> QED
    BY <1>1, <2>1 DEF LoopInv, StreamInv, ChannelsInv
<1> PICK this \in Channels : this = ch
  BY <1>2
<1>3. /\ Converted(this)'
      /\ made'[this] = Made(totalRead) - Made(consumed)
      /\ outputBlock' \in [Slots -> [Channels -> Int]]
      /\ \A d \in Channels \ {this} : (Fresh(d) => Fresh(d)') /\ (Converted(d) => Converted(d)')
  <2>1. chunk[1] = consumed /\ totalRead = consumed + chunk[2] /\ consumed \in Nat
    BY <1>1 DEF StreamInv, ReadInv, Working
  <2>2. outputBlock \in [Slots -> [Channels -> Int]]
    BY DEF StreamInv, ChannelsInv
  <2> QED
    BY <1>1, <1>2, <2>1, <2>2, ProcessConverts
<1>4. \A c \in Channels : IF c < ch THEN Converted(c) ELSE Fresh(c)
  BY <1>1 DEF StreamInv, ChannelsInv
<1>5. \A c \in Channels : IF c <= this THEN Converted(c)' ELSE Fresh(c)'
  <2> SUFFICES ASSUME NEW c \in Channels PROVE IF c <= this THEN Converted(c)' ELSE Fresh(c)'
    OBVIOUS
  <2>1. c \in Int /\ this \in Int
    BY <1>2 DEF Channels
  <2>2. CASE c = this
    BY <1>3, <2>1, <2>2
  <2>3. CASE c < this
    <3>1. Converted(c) /\ c # this /\ c <= this
      BY <1>4, <2>1, <2>3
    <3> QED
      BY <1>3, <3>1
  <2>4. CASE c > this
    <3>1. Fresh(c) /\ c # this /\ ~(c <= this)
      BY <1>4, <2>1, <2>4
    <3> QED
      BY <1>3, <3>1
  <2> QED
    BY <2>1, <2>2, <2>3, <2>4
<1>6. CASE ch = nChannels
  <2>1. pc' = "write"
    BY <1>1, <1>6 DEF NextChannel
  <2>2. \A c \in Channels : Converted(c)'
    BY <1>5, <1>6, BlockLoopAssumption DEF Channels
  <2>3. ChannelsInv'
    BY <1>1, <1>3, <2>1, <2>2 DEF StreamInv, ChannelsInv
  <2> QED
    BY <1>1, <2>1, <2>3, WorkingStep DEF StreamInv, Working
<1>7. CASE ch # nChannels
  <2>1. pc' = "process" /\ ch' = ch + 1
    BY <1>1, <1>7 DEF NextChannel
  <2>2. \A c \in Channels : IF c < ch' THEN Converted(c)' ELSE Fresh(c)'
    <3>1. \A c \in Channels : c < ch' <=> c <= this
      BY <1>2, <2>1 DEF Channels
    <3> QED
      BY <1>5, <3>1
  <2>3. ChannelsInv'
    BY <1>1, <1>3, <2>1, <2>2 DEF StreamInv, ChannelsInv
  <2> QED
    BY <1>1, <2>1, <2>3, WorkingStep DEF StreamInv, Working
<1> QED
  BY <1>6, <1>7

LEMMA StreamPushTask ==
  ASSUME LoopInv, StreamInv, PushTask
  PROVE  StreamInv'
<1> DEFINE t == <<block, ch>>
<1>1. /\ pc = "push" /\ Pool!Submit(t) /\ NextChannel("collect") /\ finished' = finished
      /\ UNCHANGED <<inputFrames, groupDelay, bAdjustStereoWidth, fadeInTime, fadeOutTime,
                     eof, chunk, totalRead, consumed, outStartOffset, file, block,
                     position, made, outputBlock>>
  BY DEF PushTask, options, input, convert, output, Pool!Submit
<1>2. /\ ch \in Channels /\ block \in Nat /\ t \in Nat \X Channels
      /\ \A u \in Live : u[2] < ch
  BY <1>1 DEF LoopInv, TasksOfBlock
<1>3. Live' = Live \cup {t} /\ t \notin finished
  BY <1>1, <1>2, TaskSubmitted DEF LoopInv, Pool!Submit
<1>4. \A c \in Channels : (Fresh(c)' <=> Fresh(c)) /\ (Converted(c)' <=> Converted(c))
  BY <1>1, OthersStay
<1>5. \A c \in Channels : c >= ch => Fresh(c)
  BY <1>1 DEF StreamInv, ChannelsInv
<1>6. \A c \in Channels : /\ <<block, c>> \in finished' => Converted(c)'
                          /\ <<block, c>> \in Live' => Fresh(c)'
  <2> SUFFICES ASSUME NEW c \in Channels
               PROVE  /\ <<block, c>> \in finished' => Converted(c)'
                      /\ <<block, c>> \in Live' => Fresh(c)'
    OBVIOUS
  <2>1. Fresh(ch)
    <3>1. ch >= ch
      BY <1>2 DEF Channels
    <3> QED
      BY <1>2, <1>5, <3>1
  <2> QED
    BY <1>1, <1>3, <1>4, <2>1 DEF StreamInv, ChannelsInv
<1>7. CASE ch = nChannels
  <2>1. pc' = "collect" /\ ch' = 1
    BY <1>1, <1>7 DEF NextChannel
  <2>2. \A c \in Channels : ~(c < ch')
    BY <2>1 DEF Channels
  <2>3. ChannelsInv'
    BY <1>1, <1>6, <2>1, <2>2 DEF StreamInv, ChannelsInv
  <2> QED
    BY <1>1, <2>1, <2>3, WorkingStep DEF StreamInv, Working
<1>8. CASE ch # nChannels
  <2>1. pc' = "push" /\ ch' = ch + 1
    BY <1>1, <1>8 DEF NextChannel
  <2>2. \A c \in Channels : c >= ch' => Fresh(c)'
    <3>1. \A c \in Channels : c >= ch' => c >= ch
      BY <1>2, <2>1 DEF Channels
    <3> QED
      BY <1>4, <1>5, <3>1
  <2>3. ChannelsInv'
    BY <1>1, <1>6, <2>1, <2>2 DEF StreamInv, ChannelsInv
  <2> QED
    BY <1>1, <2>1, <2>3, WorkingStep DEF StreamInv, Working
<1> QED
  BY <1>7, <1>8

LEMMA StreamTaskBegins ==
  ASSUME LoopInv, StreamInv, TaskBegins
  PROVE  StreamInv'
<1>1. /\ Live' \subseteq Live /\ finished' = finished
      /\ UNCHANGED <<inputFrames, groupDelay, bAdjustStereoWidth, fadeInTime, fadeOutTime,
                     eof, chunk, totalRead, consumed, outStartOffset, file, block, pc, ch,
                     position, made, outputBlock, outputBlockIndex>>
  BY TaskBegun DEF LoopInv, TaskBegins, options, input, convert, output, Pool!Begin
<1>2. Live # {}
  <2>1. Head(waiting) \in Pool!Waiting
    <3>1. waiting # <<>> /\ waiting \in Seq(Nat \X Channels)
      BY DEF TaskBegins, Pool!Begin, LoopInv, OnePlace
    <3>2. 1 \in DOMAIN waiting /\ Head(waiting) = waiting[1]
      BY <3>1
    <3> QED
      BY <3>2 DEF Pool!Waiting
  <2> QED
    BY <2>1 DEF Live
<1>3. pc \in Working
  BY <1>2 DEF LoopInv, TasksOfBlock, Working
<1>4. \A c \in Channels : (Fresh(c)' <=> Fresh(c)) /\ (Converted(c)' <=> Converted(c))
  BY <1>1, OthersStay
<1>5. ChannelsInv'
  BY <1>1, <1>4 DEF StreamInv, ChannelsInv
<1> QED
  BY <1>1, <1>3, <1>5, WorkingStep DEF StreamInv

LEMMA StreamTaskFinishes ==
  ASSUME LoopInv, StreamInv, NEW t, TaskFinishes(t)
  PROVE  StreamInv'
<1> DEFINE c == t[2]
<1>1. /\ Live' \subseteq Live /\ t \in Live /\ t \notin Live'
      /\ finished' = finished \cup {t} /\ Process(c)
      /\ UNCHANGED <<inputFrames, groupDelay, bAdjustStereoWidth, fadeInTime, fadeOutTime,
                     eof, chunk, totalRead, consumed, outStartOffset, file, block, pc, ch,
                     outputBlockIndex>>
  <2>1. OnePlace' /\ Live' \subseteq Live /\ t \in Live /\ finished' = finished \cup {t}
    BY TaskFinished DEF LoopInv, TaskFinishes, Pool!Finish
  <2>2. t \notin Live'
    BY <2>1 DEF OnePlace
  <2> QED
    BY <2>1, <2>2 DEF TaskFinishes, options, input, output
<1>2. t = <<block, c>> /\ c \in Channels /\ block \in Nat /\ pc \in {"push", "collect"}
  BY <1>1 DEF LoopInv, TasksOfBlock
<1>3. Fresh(c)
  BY <1>1, <1>2 DEF StreamInv, ChannelsInv
<1>4. /\ Converted(c)'
      /\ outputBlock' \in [Slots -> [Channels -> Int]]
      /\ \A d \in Channels \ {c} : (Fresh(d) => Fresh(d)') /\ (Converted(d) => Converted(d)')
  BY <1>1, <1>2, <1>3, ProcessConverts DEF LoopInv, StreamInv, ReadInv, ChannelsInv, Working
<1>5. ASSUME pc = "push", NEW d \in Channels, d >= ch PROVE Fresh(d)'
  <2>1. c < ch
    BY <1>1, <1>5 DEF LoopInv, TasksOfBlock
  <2>2. d # c
    BY <1>2, <1>5, <2>1 DEF LoopInv, TasksOfBlock, Channels
  <2> QED
    BY <1>4, <1>5, <2>2 DEF StreamInv, ChannelsInv
<1>6. ASSUME pc = "collect", NEW d \in Channels, d < ch PROVE Converted(d)'
  BY <1>4, <1>6 DEF StreamInv, ChannelsInv
<1>7. ASSUME NEW d \in Channels
      PROVE  /\ <<block, d>> \in finished' => Converted(d)'
             /\ <<block, d>> \in Live' => Fresh(d)'
  <2>1. CASE d = c
    BY <1>1, <1>2, <1>4, <2>1
  <2>2. CASE d # c
    <3>1. <<block, d>> # t
      BY <1>2, <2>2
    <3> QED
      BY <1>1, <1>2, <1>4, <2>2, <3>1 DEF StreamInv, ChannelsInv
  <2> QED
    BY <2>1, <2>2
<1>8. \A u \in finished' : u[1] \in 0 .. block'
  <2>1. t[1] \in 0 .. block
    BY <1>2
  <2> QED
    BY <1>1, <2>1 DEF StreamInv, ChannelsInv
<1>9. ChannelsInv'
  BY <1>1, <1>2, <1>4, <1>5, <1>6, <1>7, <1>8 DEF ChannelsInv
<1> QED
  BY <1>1, <1>2, <1>9, WorkingStep DEF StreamInv, Working

LEMMA StreamCollect ==
  ASSUME LoopInv, StreamInv, Collect
  PROVE  StreamInv'
<1>1. /\ pc = "collect" /\ <<block, ch>> \in finished /\ outputBlockIndex' = made[ch]
      /\ NextChannel("write")
      /\ UNCHANGED <<inputFrames, groupDelay, bAdjustStereoWidth, fadeInTime, fadeOutTime,
                     eof, chunk, totalRead, consumed, outStartOffset, file, block,
                     position, made, outputBlock, waiting, running, finished>>
  BY DEF Collect, options, input, convert, output, poolVars
<1>2. Live' = Live
  BY <1>1, PoolLeftAlone DEF LoopInv
<1>3. ch \in Channels /\ Converted(ch)
  BY <1>1 DEF LoopInv, TasksOfBlock, StreamInv, ChannelsInv
<1>4. \A c \in Channels : (Fresh(c)' <=> Fresh(c)) /\ (Converted(c)' <=> Converted(c))
  BY <1>1, OthersStay
<1>5. \A c \in Channels : c <= ch => Converted(c)
  <2> SUFFICES ASSUME NEW c \in Channels, c <= ch PROVE Converted(c)
    OBVIOUS
  <2>1. c < ch \/ c = ch
    BY <1>3 DEF Channels
  <2> QED
    BY <1>1, <1>3, <2>1 DEF StreamInv, ChannelsInv
<1>6. CASE ch = nChannels
  <2>1. pc' = "write"
    BY <1>1, <1>6 DEF NextChannel
  <2>2. \A c \in Channels : Converted(c)'
    BY <1>4, <1>5, <1>6, BlockLoopAssumption DEF Channels
  <2>3. outputBlockIndex' = Made(totalRead') - Made(consumed')
    BY <1>1, <1>3 DEF Converted
  <2>4. ChannelsInv'
    BY <1>1, <2>1, <2>2, <2>3 DEF StreamInv, ChannelsInv
  <2> QED
    BY <1>1, <2>1, <2>4, WorkingStep DEF StreamInv, Working
<1>7. CASE ch # nChannels
  <2>1. pc' = "collect" /\ ch' = ch + 1
    BY <1>1, <1>7 DEF NextChannel
  <2>2. \A c \in Channels : c < ch' => Converted(c)'
    <3>1. \A c \in Channels : c < ch' => c <= ch
      BY <1>3, <2>1 DEF Channels
    <3> QED
      BY <1>4, <1>5, <3>1
  <2>3. ChannelsInv'
    BY <1>1, <1>2, <1>4, <2>1, <2>2 DEF StreamInv, ChannelsInv
  <2> QED
    BY <1>1, <2>1, <2>3, WorkingStep DEF StreamInv, Working
<1> QED
  BY <1>6, <1>7
-------------------------------------------------------------------------------
(***************************************************************************)
(* The write.                                                              *)
(***************************************************************************)
\* The effects leave the frames as they are where all channels have the same.
LEMMA EffectsKeepFrames ==
  ASSUME NEW n \in Nat, FX!process(outputFrames, n),
         outputBlock \in [Slots -> [Channels -> Int]],
         \A f \in Slots : f < n => \A c, d \in Channels : outputBlock[f][c] = outputBlock[f][d]
  PROVE  \A f \in Slots : f < n => FX!Processed(outputFrames)[f].frame = outputBlock[f]
<1> SUFFICES ASSUME NEW f \in Slots, f < n
             PROVE  FX!Processed(outputFrames)[f].frame = outputBlock[f]
  OBVIOUS
<1>1. FX!Higher(0, n) = n
  BY DEF FX!Higher
<1>2. outputFrames[f] = [frame |-> outputBlock[f], gain |-> 0]
  BY DEF outputFrames
<1>3. ASSUME FX!hasStereoImager
      PROVE  imagerBuffer'[f] = [frame |-> outputBlock[f], gain |-> 0]
  <2>1. imagerBuffer' = FX!Imaged(outputFrames, n)
    BY <1>1, <1>3 DEF FX!process
  <2>2. imagerBuffer'[f] =
          [frame |-> [c \in Channels |-> IF \A d \in Channels : outputBlock[f][d] = outputBlock[f][c]
                                           THEN outputBlock[f][c] ELSE Garbled],
           gain |-> 0]
    BY <1>2, <2>1 DEF FX!Imaged
  <2>3. \A c, d \in Channels : outputBlock[f][d] = outputBlock[f][c]
    OBVIOUS
  <2>4. outputBlock[f] = [c \in Channels |-> outputBlock[f][c]]
    OBVIOUS
  <2>5. imagerBuffer'[f] = [frame |-> [c \in Channels |-> outputBlock[f][c]], gain |-> 0]
    BY <2>2, <2>3
  <2> QED
    BY <2>4, <2>5
<1> DEFINE given == IF FX!hasStereoImager THEN imagerBuffer' ELSE outputFrames
<1>4. given[f] = [frame |-> outputBlock[f], gain |-> 0]
  BY <1>2, <1>3
<1>5. FX!Fade(given, n)
  BY <1>1 DEF FX!process
<1>6. CASE FX!bypass
  <2>1. FX!Processed(outputFrames) = given
    BY <1>6 DEF FX!Processed
  <2> QED
    BY <1>4, <2>1
<1>7. CASE ~FX!bypass
  <2> HIDE DEF given
  <2>1. FX!Processed(outputFrames) = fadeBuffer'
    BY <1>7 DEF FX!Processed
  <2>2. fadeBuffer'[f] = [given[f] EXCEPT !.gain = FX!AfterFrames(n)[f].gain]
    BY <1>5, <1>7 DEF FX!Fade
  <2> QED
    BY <1>4, <2>1, <2>2
<1> QED
  BY <1>6, <1>7

\* Without effects nothing is done.
LEMMA NoEffects ==
  ASSUME NEW n, FX!process(outputFrames, n),
         ~bAdjustStereoWidth, fadeInTime = 0, fadeOutTime = 0
  PROVE  FX!Processed(outputFrames) = outputFrames
BY DEF FX!Processed, FX!bypass, FX!hasFade, FX!hasStereoImager

LEMMA FramesJoined ==
  ASSUME NEW S, NEW s \in Seq(S), NEW t \in Seq(S)
  PROVE  s \o t = [k \in 1 .. Len(s) + Len(t) |-> IF k <= Len(s) THEN s[k] ELSE t[k - Len(s)]]
<1> DEFINE u == s \o t
<1>1. /\ u \in Seq(S) /\ Len(u) = Len(s) + Len(t)
      /\ \A k \in 1 .. Len(s) + Len(t) : u[k] = IF k <= Len(s) THEN s[k] ELSE t[k - Len(s)]
  BY ConcatProperties
<1> HIDE DEF u
<1>2. u = [k \in 1 .. Len(u) |-> u[k]]
  BY <1>1
<1>3. u = [k \in 1 .. Len(s) + Len(t) |-> u[k]]
  BY <1>1, <1>2
<1>4. u = [k \in 1 .. Len(s) + Len(t) |-> IF k <= Len(s) THEN s[k] ELSE t[k - Len(s)]]
  BY <1>1, <1>3
<1> QED
  BY <1>4 DEF u

LEMMA StreamWrite ==
  ASSUME LoopInv, StreamInv, Write
  PROVE  StreamInv' /\ consumed' >= consumed /\ consumed' = totalRead
<1> DEFINE n == outputFrameCount
           written == FX!Processed(outputFrames)
           base == Made(consumed)
<1>1. /\ pc = "write" /\ pc' = IF eof THEN "close" ELSE "read"
      /\ FX!process(outputFrames, n)
      /\ file' = file \o [k \in 1 .. n |-> written[outStartOffset + k - 1]]
      /\ consumed' = totalRead /\ outStartOffset' = 0
      /\ UNCHANGED <<inputFrames, groupDelay, bAdjustStereoWidth, fadeInTime, fadeOutTime,
                     eof, chunk, totalRead, block, ch, position, made, outputBlock,
                     outputBlockIndex, waiting, running, finished>>
  BY DEF Write, WriteOut, OffsetOnce, options, input, convert, poolVars
<1>2. /\ consumed \in Nat /\ totalRead \in Nat /\ groupDelay \in Nat
      /\ totalRead = consumed + chunk[2] /\ chunk[2] \in Nat /\ BUFFERSIZE \in Nat \ {0}
      /\ inputFrames \in Nat \ {0}
      /\ outputBlock \in [Slots -> [Channels -> Int]]
      /\ \A c \in Channels : Converted(c)
      /\ outputBlockIndex = Made(totalRead) - base
      /\ outputBlockIndex \in 0 .. Made(BUFFERSIZE)
  BY <1>1, BlockLoopAssumption
  DEF LoopInv, Sizes, StreamInv, ReadInv, ChannelsInv, OptionsFit, Working
<1>3. /\ base \in Nat /\ Made(totalRead) \in Nat /\ base <= Made(totalRead)
      /\ Made(BUFFERSIZE) \in Nat
  BY <1>2, MadeBounds, MadeGrows
\* The delay is over when the first block has been made.
<1>4. /\ IF consumed = 0 THEN outStartOffset = groupDelay /\ base = 0
                         ELSE outStartOffset = 0 /\ groupDelay <= base
      /\ groupDelay <= Made(totalRead)
      /\ totalRead > 0
  <2>1. CASE consumed = 0
    <3>1. totalRead = Lower(inputFrames, BUFFERSIZE)
      BY <1>1, <2>1 DEF StreamInv, ReadInv, Working
    <3>2. groupDelay <= Made(totalRead) /\ totalRead > 0
      BY <1>2, <3>1 DEF StreamInv, OptionsFit, DelayFits, Lower
    <3> QED
      BY <2>1, <3>2, MadeNothing DEF StreamInv, FileInv
  <2>2. CASE consumed # 0
    <3>1. outStartOffset = 0 /\ groupDelay <= base
      BY <2>2 DEF StreamInv, FileInv
    <3> QED
      BY <1>2, <1>3, <2>2, <3>1
  <2> QED
    BY <2>1, <2>2
<1>5. outStartOffset \in Nat /\ n \in Nat /\ outStartOffset + n = outputBlockIndex
  BY <1>2, <1>3, <1>4 DEF outputFrameCount
\* What the converters have put into the frames of the block.
<1>6. ASSUME NEW f \in Nat, f < outputBlockIndex
      PROVE  f \in Slots /\ outputBlock[f] = [c \in Channels |-> base + f]
  <2>1. f \in Slots
    BY <1>2, <1>3, <1>6, EnoughSlots
  <2>2. \A c \in Channels : outputBlock[f][c] = base + f
    BY <1>2, <1>6, <2>1 DEF Converted
  <2>3. outputBlock[f] \in [Channels -> Int]
    BY <1>2, <2>1
  <2> QED
    BY <2>1, <2>2, <2>3
\* What the effects make of them.
<1>7. ASSUME NEW k \in 1 .. n
      PROVE  written[outStartOffset + k - 1].frame
               = [c \in Channels |-> base + (outStartOffset + k - 1)]
  <2> DEFINE f == outStartOffset + k - 1
  <2>1. f \in Nat /\ f < outputBlockIndex
    BY <1>5, <1>7
  <2>2. f \in Slots /\ outputBlock[f] = [c \in Channels |-> base + f]
    BY <1>6, <2>1
  <2>3. written[f].frame = outputBlock[f]
    <3>1. CASE groupDelay > 0
      <4>1. written = outputFrames
        BY <1>1, <3>1, NoEffects DEF StreamInv, OptionsFit, EffectsSuit
      <4> QED
        BY <2>2, <4>1 DEF outputFrames
    <3>2. CASE groupDelay = 0
      <4>1. outStartOffset = 0 /\ f < n
        BY <1>4, <1>5, <3>2, <2>1
      <4>2. \A g \in Slots : g < n => \A c, d \in Channels : outputBlock[g][c] = outputBlock[g][d]
        <5> SUFFICES ASSUME NEW g \in Slots, g < n, NEW c \in Channels, NEW d \in Channels
                     PROVE  outputBlock[g][c] = outputBlock[g][d]
          OBVIOUS
        <5>1. g \in Nat /\ g < outputBlockIndex
          BY <1>5, <4>1 DEF Slots
        <5>2. outputBlock[g] = [e \in Channels |-> base + g]
          BY <1>6, <5>1
        <5> HIDE DEF base
        <5> QED
          BY <5>2
      <4> HIDE DEF n, f
      <4> QED
        BY <1>1, <1>2, <1>5, <2>2, <4>1, <4>2, EffectsKeepFrames
    <3> QED
      BY <1>2, <3>1, <3>2
  <2> QED
    BY <2>2, <2>3
<1>8. Serial!Kept(consumed) = IF base > groupDelay THEN base - groupDelay ELSE 0
  BY DEF Serial!Kept, Serial!Made, Made, CeilDiv
<1>9. Serial!Kept(totalRead) = Serial!Kept(consumed) + n /\ Serial!Kept(consumed) \in Nat
  <2>1. Serial!Kept(totalRead)
          = IF Made(totalRead) > groupDelay THEN Made(totalRead) - groupDelay ELSE 0
    BY DEF Serial!Kept, Serial!Made, Made, CeilDiv
  <2> QED
    BY <1>2, <1>3, <1>4, <1>5, <1>8, <2>1
<1> HIDE DEF n, written, base
<1>10. /\ file' = [k \in 1 .. Serial!Kept(totalRead) |-> file'[k]]
       /\ \A k \in DOMAIN file' : file'[k].frame = [c \in Channels |-> groupDelay + k - 1]
  <2> DEFINE m == Serial!Kept(consumed)
             more == [k \in 1 .. n |-> written[outStartOffset + k - 1]]
             Elements == {file[k] : k \in 1 .. m} \cup {more[k] : k \in 1 .. n}
  <2>1. file = [k \in 1 .. m |-> file[k]] /\ m \in Nat
    BY <1>9 DEF StreamInv, FileInv
  <2>2. file \in Seq(Elements) /\ Len(file) = m
    <3> HIDE DEF m, more
    <3>1. \A k \in 1 .. m : file[k] \in Elements
      OBVIOUS
    <3> HIDE DEF Elements
    <3>2. [k \in 1 .. m |-> file[k]] \in Seq(Elements)
      BY <2>1, <3>1
    <3>3. Len([k \in 1 .. m |-> file[k]]) = m
      BY <2>1
    <3> QED
      BY <2>1, <3>2, <3>3
  <2>3. more \in Seq(Elements) /\ Len(more) = n
    <3>1. \A k \in 1 .. n : more[k] \in Elements
      OBVIOUS
    <3>2. more = [k \in 1 .. n |-> more[k]]
      OBVIOUS
    <3> HIDE DEF Elements, more
    <3>3. [k \in 1 .. n |-> more[k]] \in Seq(Elements) /\ Len([k \in 1 .. n |-> more[k]]) = n
      BY <1>5, <3>1
    <3> QED
      BY <3>2, <3>3
  <2>4. file' = [k \in 1 .. m + n |-> IF k <= m THEN file[k] ELSE more[k - m]]
    <3>1. file' = file \o more
      BY <1>1
    <3> HIDE DEF more, m, Elements
    <3>2. file \o more = [k \in 1 .. Len(file) + Len(more) |->
                            IF k <= Len(file) THEN file[k] ELSE more[k - Len(file)]]
      BY <2>2, <2>3, FramesJoined
    <3> QED
      BY <2>2, <2>3, <3>1, <3>2
  <2>5. file' = [k \in 1 .. Serial!Kept(totalRead) |-> file'[k]]
    BY <1>9, <2>4
  <2>6. ASSUME NEW k \in 1 .. m + n
        PROVE  file'[k].frame = [c \in Channels |-> groupDelay + k - 1]
    <3>1. CASE k <= m
      <4>1. k \in DOMAIN file /\ file'[k] = file[k]
        BY <2>1, <2>4, <3>1, <1>5
      <4> QED
        BY <4>1 DEF StreamInv, FileInv
    <3>2. CASE k > m
      <4>1. k - m \in 1 .. n /\ file'[k] = written[outStartOffset + (k - m) - 1]
        BY <1>5, <2>1, <2>4, <3>2
      <4>2. file'[k].frame = [c \in Channels |-> base + (outStartOffset + (k - m) - 1)]
        BY <1>7, <4>1
      <4>3. base + (outStartOffset + (k - m) - 1) = groupDelay + k - 1
        <5>1. base + outStartOffset = groupDelay + m
          BY <1>2, <1>3, <1>4, <1>8
        <5> HIDE DEF m
        <5> QED
          <6>1. base \in Int /\ outStartOffset \in Int /\ m \in Int /\ groupDelay \in Int
            BY <1>2, <1>3, <1>5, <2>1
          <6>2. k \in Int
            BY <1>5, <2>1
          <6> QED
            BY <5>1, <6>1, <6>2
      <4> QED
        BY <4>2, <4>3
    <3> QED
      BY <1>5, <2>1, <3>1, <3>2
  <2> QED
    BY <1>9, <2>5, <2>6
<1>11. FileInv'
  <2>1. Serial!Kept(totalRead)' = Serial!Kept(totalRead)
    BY <1>1 DEF Serial!Kept
  <2>2. Serial!Kept(consumed)' = Serial!Kept(totalRead)
    BY <1>1 DEF Serial!Kept
  <2>3. consumed' # 0 /\ outStartOffset' = 0 /\ groupDelay' <= Made(consumed')
    BY <1>1, <1>2, <1>4
  <2> QED
    BY <1>1, <1>10, <2>2, <2>3 DEF FileInv
<1>12. OptionsFit'
  BY <1>1 DEF StreamInv, OptionsFit
<1>13. ReadInv'
  <2>1. tailFrames' = tailFrames
    BY <1>1 DEF tailFrames
  <2>2. eof \in BOOLEAN /\ (pc' = "close" <=> eof) /\ (pc' = "read" <=> ~eof) /\ pc' \notin Working
    <3>1. eof \in BOOLEAN
      BY DEF StreamInv, ReadInv
    <3> QED
      BY <1>1, <3>1 DEF Working
  <2> QED
    BY <1>1, <1>2, <2>1, <2>2 DEF StreamInv, ReadInv
<1>14. ChannelsInv'
  <2>1. pc' \in {"close", "read"} /\ \A c \in Channels : Fresh(c)'
    BY <1>1, <1>2 DEF Converted, Fresh
  <2> QED
    BY <1>1, <2>1 DEF StreamInv, ChannelsInv
<1> QED
  BY <1>1, <1>2, <1>11, <1>12, <1>13, <1>14 DEF StreamInv

LEMMA StreamDestroyPool ==
  ASSUME LoopInv, StreamInv, DestroyPool
  PROVE  StreamInv'
<1>1. /\ pc = "close" /\ pc' = "done"
      /\ UNCHANGED <<inputFrames, groupDelay, bAdjustStereoWidth, fadeInTime, fadeOutTime,
                     eof, chunk, totalRead, consumed, outStartOffset, file, block, ch,
                     outputBlock, finished>>
  BY DEF DestroyPool, Pool!Close, options, input, convert, output
<1>2. OptionsFit' /\ FileInv'
  BY <1>1 DEF StreamInv, OptionsFit, FileInv, Serial!Kept
<1>3. tailFrames' = tailFrames
  BY <1>1 DEF tailFrames
<1>4. ReadInv'
  BY <1>1, <1>3 DEF StreamInv, ReadInv, Working
<1>5. ChannelsInv'
  BY <1>1 DEF StreamInv, ChannelsInv
<1> QED
  BY <1>2, <1>4, <1>5 DEF StreamInv

LEMMA StreamStays ==
  ASSUME LoopInv, StreamInv, UNCHANGED vars
  PROVE  StreamInv'
<1>1. /\ UNCHANGED <<inputFrames, groupDelay, bAdjustStereoWidth, fadeInTime, fadeOutTime,
                     eof, chunk, totalRead, consumed, outStartOffset, file, block, ch, pc,
                     position, made, outputBlock, outputBlockIndex, waiting, running, finished>>
  BY DEF vars, options, input, convert, output, poolVars
<1>2. OptionsFit' /\ FileInv'
  BY <1>1 DEF StreamInv, OptionsFit, FileInv, Serial!Kept
<1>3. tailFrames' = tailFrames /\ Live' = Live
  BY <1>1, PoolLeftAlone DEF LoopInv, tailFrames
<1>4. ReadInv'
  BY <1>1, <1>3 DEF StreamInv, ReadInv, Working
<1>5. \A c \in Channels : (Fresh(c)' <=> Fresh(c)) /\ (Converted(c)' <=> Converted(c))
  BY <1>1, OthersStay
<1>6. ChannelsInv'
  BY <1>1, <1>3, <1>5 DEF StreamInv, ChannelsInv
<1> QED
  BY <1>2, <1>4, <1>6 DEF StreamInv

LEMMA StreamStep ==
  ASSUME LoopInv, StreamInv, [Next]_vars
  PROVE  StreamInv'
<1>1. CASE Loop
  BY <1>1, StreamRead, StreamProcessInTurn, StreamPushTask, StreamCollect, StreamWrite,
     StreamDestroyPool DEF Loop
<1>2. CASE TaskBegins
  BY <1>2, StreamTaskBegins
<1>3. ASSUME NEW t \in Tasks, TaskFinishes(t) PROVE StreamInv'
  BY <1>3, StreamTaskFinishes
<1>4. CASE UNCHANGED vars
  BY <1>4, StreamStays
<1> QED
  BY <1>1, <1>2, <1>3, <1>4 DEF Next

\* The settings a pass is made for.
SettingsSuit ==
  \A s \in Settings :
    /\ EffectsSuit(s.delay, s.stereo, s.fadeIn, s.fadeOut)
    /\ \A frames \in FileLengths : DelayFits(frames, s.delay)

LEMMA StreamInit ==
  ASSUME SettingsSuit, Init
  PROVE  StreamInv
<1>1. PICK s \in Settings : /\ groupDelay = s.delay /\ bAdjustStereoWidth = s.stereo
                            /\ fadeInTime = s.fadeIn /\ fadeOutTime = s.fadeOut
  BY DEF Init
<1>2. inputFrames \in FileLengths /\ groupDelay \in Nat /\ inputFrames \in Nat \ {0}
  BY <1>1, BlockLoopAssumption DEF Init
<1>3. OptionsFit
  BY <1>1, <1>2 DEF OptionsFit, SettingsSuit
<1>4. /\ pc = "read" /\ eof = FALSE /\ totalRead = 0 /\ consumed = 0 /\ finished = {}
      /\ outStartOffset = Lower(groupDelay, outputBlockFrames - 1) /\ file = <<>>
      /\ position = [c \in Channels |-> 0]
      /\ outputBlock = [f \in Slots |-> [c \in Channels |-> Unset]]
  BY DEF Init, Pool!Init
<1>5. ReadInv
  <2>1. pc \notin Working /\ pc # "close" /\ totalRead <= inputFrames /\ consumed \in Nat
    BY <1>2, <1>4 DEF Working
  <2> QED
    BY <1>4, <2>1 DEF ReadInv
<1>6. ChannelsInv
  BY <1>4 DEF ChannelsInv, Fresh, Unset
<1>7. FileInv
  <2>1. Serial!Kept(consumed) = 0
    BY <1>2, <1>4, MadeNothing DEF Serial!Kept, Serial!Made, Made, CeilDiv
  <2>2. file = [k \in 1 .. 0 |-> file[k]] /\ DOMAIN file = {}
    BY <1>4
  <2>3. outStartOffset = groupDelay
    <3>1. Lower(inputFrames, BUFFERSIZE) \in Nat /\ Lower(inputFrames, BUFFERSIZE) <= BUFFERSIZE
      BY <1>2, BlockLoopAssumption DEF Lower
    <3>2. Made(Lower(inputFrames, BUFFERSIZE)) <= Made(BUFFERSIZE)
      BY <3>1, MadeGrows, BlockLoopAssumption
    <3>3. Made(Lower(inputFrames, BUFFERSIZE)) \in Nat
      BY <3>1, MadeBounds
    <3>4. groupDelay <= outputBlockFrames - 1
      BY <1>2, <1>3, <3>2, <3>3, MadeOfFullBlock
      DEF OptionsFit, DelayFits, outputBlockFrames, outputChannelBufferSize
    <3>5. outputBlockFrames - 1 \in Int
      BY MadeOfFullBlock DEF outputBlockFrames, outputChannelBufferSize
    <3> QED
      BY <1>2, <1>4, <3>4, <3>5 DEF Lower
  <2> QED
    BY <1>4, <2>1, <2>2, <2>3 DEF FileInv
<1> QED
  BY <1>3, <1>5, <1>6, <1>7 DEF StreamInv

\* What has been written, as the abstract specification sees it.
Frames == [k \in DOMAIN file |-> file[k].frame]
FramesInv == Frames = Serial!StreamUpTo(consumed)

LEMMA FramesAreStream == StreamInv => FramesInv
<1> SUFFICES ASSUME StreamInv PROVE FramesInv
  OBVIOUS
<1>1. DOMAIN file = 1 .. Serial!Kept(consumed)
  BY DEF StreamInv, FileInv
<1>2. \A k \in DOMAIN file : file[k].frame = [c \in Channels |-> groupDelay + k - 1]
  BY DEF StreamInv, FileInv
<1>3. Frames = [k \in 1 .. Serial!Kept(consumed) |-> [c \in Channels |-> groupDelay + k - 1]]
  BY <1>1, <1>2 DEF Frames
<1> QED
  BY <1>3 DEF FramesInv, Serial!StreamUpTo

\* Every step is a block of the serial pass, its end, or none of its steps.
LEMMA SerialStep ==
  ASSUME LoopInv, StreamInv, FramesInv, FramesInv', [Next]_vars
  PROVE  [Serial!Next]_Serial!passVars
<1>1. ASSUME UNCHANGED <<inputFrames, groupDelay, consumed, file>>, (pc = "done") <=> (pc' = "done")
      PROVE  UNCHANGED Serial!passVars
  BY <1>1 DEF Serial!passVars
<1>2. CASE Read
  <2>1. UNCHANGED <<inputFrames, groupDelay, consumed, file>> /\ pc # "done" /\ pc' # "done"
    BY <1>2 DEF Read, options, output
  <2> QED
    BY <1>1, <2>1
<1>3. CASE ProcessInTurn \/ PushTask \/ Collect
  <2>1. UNCHANGED <<inputFrames, groupDelay, consumed, file>> /\ pc # "done" /\ pc' # "done"
    BY <1>3 DEF ProcessInTurn, PushTask, Collect, NextChannel, options, output
  <2> QED
    BY <1>1, <2>1
<1>4. CASE Write
  <2>1. /\ consumed' >= consumed /\ pc # "done" /\ pc' # "done"
        /\ UNCHANGED <<inputFrames, groupDelay>>
    BY <1>4, StreamWrite DEF Write, options
  <2>2. Frames' = Serial!StreamUpTo(consumed)'
    BY DEF FramesInv
  <2>3. Serial!StreamUpTo(consumed)' = Serial!StreamUpTo(consumed')
    BY <2>1 DEF Serial!StreamUpTo, Serial!Kept
  <2> QED
    BY <2>1, <2>2, <2>3 DEF Serial!Next, Serial!Block, Frames
<1>5. CASE DestroyPool
  <2>1. /\ pc = "close" /\ pc' = "done"
        /\ UNCHANGED <<inputFrames, groupDelay, consumed, file>>
    BY <1>5 DEF DestroyPool, options, output
  <2>2. consumed = inputFrames + tailFrames
    BY <2>1 DEF StreamInv, ReadInv, Working
  <2>3. groupDelay \in Nat /\ inputFrames \in Nat
    BY DEF LoopInv, Sizes
  <2>4. tailFrames \in Nat /\ Made(inputFrames) + groupDelay <= Made(consumed)
    BY <2>2, <2>3, TailMakesUp
  <2>5. Made(inputFrames) \in Nat /\ Made(consumed) \in Nat
    BY <2>2, <2>3, <2>4, MadeBounds
  <2>6. /\ Serial!Kept(consumed) \in Nat
        /\ Serial!Kept(consumed) >= Serial!Made(inputFrames)
    BY <2>3, <2>4, <2>5 DEF Serial!Kept, Serial!Made, Made, CeilDiv
  <2>7. Len(Frames) = Serial!Kept(consumed)
    BY <2>6 DEF FramesInv, Serial!StreamUpTo
  <2>8. Len(Frames) >= Serial!Made(inputFrames)
    BY <2>6, <2>7
  <2> QED
    BY <2>1, <2>8 DEF Serial!Next, Serial!End, Frames
<1>6. CASE TaskBegins \/ \E t \in Tasks : TaskFinishes(t)
  BY <1>1, <1>6 DEF TaskBegins, TaskFinishes, options, output
<1>7. CASE UNCHANGED vars
  BY <1>1, <1>7 DEF vars, options, output
<1> QED
  BY <1>2, <1>3, <1>4, <1>5, <1>6, <1>7 DEF Next, Loop

LEMMA StreamInvariant ==
  ASSUME SettingsSuit
  PROVE  Spec => [](LoopInv /\ StreamInv /\ FramesInv)
<1>1. Init => LoopInv /\ StreamInv
  BY InitEstablishes, StreamInit
<1>2. LoopInv /\ StreamInv /\ [Next]_vars => LoopInv' /\ StreamInv'
  BY StepKeeps, StreamStep
<1> QED
  BY <1>1, <1>2, FramesAreStream, PTL DEF Spec

\* Whatever the channels, threads, ratio, blocks and length of file: what a pass writes is
\* at every moment the stream that a single thread would have made so far, on every
\* channel, from the delay on, and it ends no earlier than with the input's length.
THEOREM PassIsSerial ==
  ASSUME SettingsSuit
  PROVE  Spec => Serial!Spec
<1>1. Init => Serial!Init
  <2> SUFFICES ASSUME Init PROVE Serial!Init
    OBVIOUS
  <2>1. inputFrames \in Nat /\ groupDelay \in Nat /\ consumed = 0 /\ pc # "done" /\ file = <<>>
    BY InitEstablishes DEF Init, LoopInv, Sizes
  <2> QED
    BY <2>1 DEF Serial!Init
<1>2. LoopInv /\ StreamInv /\ FramesInv /\ FramesInv' /\ [Next]_vars
        => [Serial!Next]_Serial!passVars
  BY SerialStep
<1> QED
  BY <1>1, <1>2, StreamInvariant, PTL DEF Spec, Serial!Spec

\* "process output (with Group Delay Compensation)": without effects on a delayed stream
\* every frame written is the next one of the stream after the delay, on every channel.
THEOREM DelayTrimmed ==
  ASSUME SettingsSuit
  PROVE  Spec => []DelayIsTrimmed
<1>1. StreamInv => DelayIsTrimmed
  BY DEF StreamInv, FileInv, DelayIsTrimmed
<1> QED
  BY <1>1, StreamInvariant, PTL
-------------------------------------------------------------------------------
(***************************************************************************)
(* The fades.                                                              *)
(***************************************************************************)
LEMMA LeastNatural ==
  ASSUME NEW T \in SUBSET Nat, T # {}
  PROVE  \E n \in T : \A k \in T : n <= k
<1> DEFINE R == OpToRel(<, Nat)
<1>1. \A x, y \in Nat : <<x, y>> \in R <=> x < y
  BY Zenon DEF OpToRel
<1>2. IsWellFoundedOn(R, Nat)
  BY Zenon, NatLessThanWellFounded
<1> HIDE DEF R
<1>3. PICK x \in T : \A y \in T : ~(<<y, x>> \in R)
  BY <1>2, WFMin
<1>4. \A y \in T : x \in Nat /\ y \in Nat /\ ~(y < x)
  BY <1>1, <1>3
<1> QED
  BY <1>3, <1>4

\* Induction for the elements of a set.
LEMMA InductiveSet ==
  ASSUME NEW S, 0 \in S, \A n \in Nat : n \in S => n + 1 \in S
  PROVE  Nat \subseteq S
<1> SUFFICES ASSUME Nat \ S # {} PROVE FALSE
  OBVIOUS
<1>1. PICK n \in Nat \ S : \A k \in Nat \ S : n <= k
  BY LeastNatural
<1>2. n - 1 \in Nat /\ n - 1 \notin Nat \ S
  BY <1>1
<1> QED
  BY <1>1, <1>2

Rises == FX!FadesIn
Falls == FX!FadesOut
Top   == FX!fadeInStopPosition
Edge  == FX!fadeOutStartPosition
Up    == FX!gainIncreaseRate
Down  == FX!gainDecreaseRate

TimesOK == inputFrames \in Nat /\ fadeInTime \in Nat /\ fadeOutTime \in Nat

\* The fade in is complete before the fade out starts.
LEMMA FadeNumbers ==
  ASSUME TimesOK
  PROVE  /\ Rises \in BOOLEAN /\ Falls \in BOOLEAN
         /\ Rises => Top \in Nat \ {0}
         /\ Falls => Edge \in Nat
         /\ Rises /\ Falls => Top <= Edge
         /\ Up \in Nat \ {0} /\ Down \in Nat \ {0}
<1> DEFINE total == (inputFrames * L) \div M
<1>1. total \in Nat
  <2>1. inputFrames * L \in Nat
    BY BlockLoopAssumption DEF TimesOK
  <2> QED
    BY <2>1, BlockLoopAssumption
<1> HIDE DEF total
<1>2. Top = IF fadeInTime >= 2 THEN (IF fadeInTime < total - 1 THEN fadeInTime ELSE total - 1) ELSE 0
  BY DEF Top, FX!fadeInStopPosition, FX!shortestPossibleFade, FX!Lower, total
<1>3. Edge = IF Top > total - 1 - fadeOutTime THEN Top ELSE total - 1 - fadeOutTime
  BY DEF Edge, Top, FX!fadeOutStartPosition, FX!Higher, total
<1>4. Rises = (Top > 0)
  BY DEF Rises, Top, FX!FadesIn
<1>5. Falls = (fadeOutTime >= 2 /\ Edge < total - 1)
  BY DEF Falls, Edge, FX!FadesOut, FX!shortestPossibleFade, total
<1>6. Up = IF Falls THEN total - Edge ELSE 1
  BY DEF Up, Falls, Edge, FX!gainIncreaseRate, total
<1>7. Down = IF Rises THEN Top ELSE 1
  BY DEF Down, Rises, Top, FX!gainDecreaseRate
<1>8. Top \in Int /\ Edge \in Int
  BY <1>1, <1>2, <1>3 DEF TimesOK
<1> HIDE DEF Rises, Falls, Top, Edge, Up, Down
<1>9. (Rises <=> Top > 0) /\ (Falls <=> fadeOutTime >= 2 /\ Edge < total - 1)
  BY <1>4, <1>5
<1>10. Falls => Edge \in Nat
  <2> SUFFICES ASSUME Falls PROVE Edge \in Nat
    OBVIOUS
  <2>1. Edge < total - 1 /\ Edge >= Top
    BY <1>1, <1>3, <1>8, <1>9 DEF TimesOK
  <2>2. Top # total - 1
    BY <1>1, <1>8, <2>1
  <2>3. Top >= 0
    BY <1>2, <2>2 DEF TimesOK
  <2> QED
    BY <1>8, <2>1, <2>3
<1> QED
  BY <1>1, <1>3, <1>4, <1>5, <1>6, <1>7, <1>8, <1>9, <1>10 DEF TimesOK

Rise(p) == IF Rises /\ p < Top THEN -((Top - p) * Up) ELSE 0
Fall(p) == IF Falls /\ p > Edge THEN (p - Edge) * Down ELSE 0

LEMMA ShapeIs ==
  ASSUME NEW p
  PROVE  FX!Shape(p) = Rise(p) - Fall(p)
BY DEF FX!Shape, Rise, Fall, Rises, Falls, Top, Edge, Up, Down

\* The fade's state at a place in the file.
FadeAt(p) ==
  [fadeType |-> (IF Rises /\ p < Top THEN {"in"} ELSE {}) \cup (IF Falls THEN {"out"} ELSE {}),
   position |-> p,
   gain     |-> Rise(p) - Fall(p)]

\* From each place to the next.
LEMMA NextPlace ==
  ASSUME TimesOK, NEW p \in Nat
  PROVE  FX!NextFrame(FadeAt(p)) = FadeAt(p + 1)
<1>1. /\ Rises \in BOOLEAN /\ Falls \in BOOLEAN
      /\ Rises => Top \in Nat \ {0}
      /\ Falls => Edge \in Nat
      /\ Rises /\ Falls => Top <= Edge
      /\ Up \in Nat \ {0} /\ Down \in Nat \ {0}
  BY FadeNumbers
<1> DEFINE s        == FadeAt(p)
           risen    == s.gain + Up
           rises    == "in" \in s.fadeType /\ s.gain < 0
           complete == rises /\ risen >= 0
           gain     == IF complete THEN 0 ELSE IF rises THEN risen ELSE s.gain
           falls    == "out" \in s.fadeType /\ s.position >= Edge
           next     == [fadeType |-> IF complete THEN s.fadeType \ {"in"} ELSE s.fadeType,
                        position |-> s.position + 1,
                        gain     |-> IF falls THEN gain - Down ELSE gain]
<1>2. FX!NextFrame(s) = next
  BY DEF FX!NextFrame, Up, Down, Edge
<1> HIDE DEF Rises, Falls, Top, Edge, Up, Down
<1>3. /\ s.position = p /\ s.gain = Rise(p) - Fall(p)
      /\ "in" \in s.fadeType <=> Rises /\ p < Top
      /\ "out" \in s.fadeType <=> Falls
      /\ s.fadeType \ {"in"} = IF Falls THEN {"out"} ELSE {}
  BY DEF FadeAt
<1>4. CASE Rises /\ p < Top
  <2> DEFINE left == Top - p
  <2>1. left \in Nat \ {0} /\ (p + 1 < Top <=> left > 1)
    BY <1>1, <1>4
  <2>2. Fall(p) = 0 /\ Fall(p + 1) = 0 /\ ~(Falls /\ p >= Edge)
    BY <1>1, <1>4 DEF Fall
  <2>3. Rise(p) = -(left * Up)
    BY <1>4 DEF Rise
  <2>4. Rise(p + 1) = IF left > 1 THEN -((left - 1) * Up) ELSE 0
    <3>1. Top - (p + 1) = left - 1
      BY <1>1, <1>4
    <3> QED
      BY <1>4, <2>1, <3>1 DEF Rise
  <2> HIDE DEF left
  <2>5. left * Up \in Nat /\ left * Up >= Up /\ (left - 1) * Up = left * Up - Up
    <3>1. left * Up \in Nat /\ (left - 1) * Up \in Nat /\ (left - 1) * Up = left * Up - Up
      BY <1>1, <2>1
    <3> QED
      BY <1>1, <3>1
  <2>6. left > 1 => (left - 1) * Up > 0
    BY <1>1, <2>1
  <2>7. s.gain = -(left * Up) /\ s.gain < 0 /\ rises /\ risen = -((left - 1) * Up)
    <3>1. s.gain = -(left * Up)
      <4>1. s.gain = Rise(p) - 0
        BY <1>3, <2>2
      <4> QED
        BY <2>3, <2>5, <4>1
    <3>2. s.gain < 0
      BY <1>1, <2>5, <3>1
    <3>3. rises
      BY <1>3, <1>4, <3>2
    <3>4. risen = -((left - 1) * Up)
      BY <1>1, <2>5, <3>1
    <3> QED
      BY <3>1, <3>2, <3>3, <3>4
  <2>8. complete <=> ~(left > 1)
    <3>1. (left - 1) * Up \in Int /\ (left > 1 <=> (left - 1) * Up > 0)
      <4>1. ~(left > 1) => (left - 1) * Up = 0
        BY <1>1, <2>1
      <4> QED
        BY <1>1, <2>1, <2>6, <4>1
    <3> HIDE DEF rises, risen
    <3>2. risen >= 0 <=> ~((left - 1) * Up > 0)
      BY <2>7, <3>1
    <3> QED
      BY <2>7, <3>1, <3>2
  <2>9. gain = Rise(p + 1) /\ ~falls
    BY <1>3, <2>2, <2>4, <2>7, <2>8
  <2>10. Rise(p + 1) - Fall(p + 1) = Rise(p + 1)
    BY <1>1, <2>1, <2>2, <2>4, <2>5
  <2>11. (IF complete THEN s.fadeType \ {"in"} ELSE s.fadeType)
           = (IF Rises /\ p + 1 < Top THEN {"in"} ELSE {}) \cup (IF Falls THEN {"out"} ELSE {})
    BY <1>3, <1>4, <2>1, <2>8 DEF FadeAt
  <2> HIDE DEF gain, falls, complete
  <2> QED
    BY <1>2, <1>3, <2>9, <2>10, <2>11 DEF FadeAt
<1>5. CASE ~(Rises /\ p < Top)
  <2>1. Rise(p) = 0 /\ Rise(p + 1) = 0 /\ ~rises /\ ~(Rises /\ p + 1 < Top)
    BY <1>1, <1>3, <1>5 DEF Rise
  <2>2. Fall(p) \in Int /\ gain = -Fall(p)
    <3>1. Fall(p) \in Int
      BY <1>1 DEF Fall
    <3> QED
      BY <1>3, <2>1, <3>1
  <2>3. (IF falls THEN gain - Down ELSE gain) = Rise(p + 1) - Fall(p + 1)
    <3>1. CASE Falls /\ p >= Edge
      <4> DEFINE past == p - Edge
      <4>1. past \in Nat /\ Fall(p) = past * Down /\ Fall(p + 1) = (past + 1) * Down
        BY <1>1, <3>1 DEF Fall
      <4>2. (past + 1) * Down = past * Down + Down /\ past * Down \in Int
        BY <1>1, <4>1
      <4> HIDE DEF past
      <4> QED
        BY <1>1, <1>3, <2>1, <2>2, <3>1, <4>1, <4>2
    <3>2. CASE ~(Falls /\ p >= Edge)
      <4>1. Fall(p) = 0 /\ Fall(p + 1) = 0 /\ ~falls
        BY <1>1, <1>3, <3>2 DEF Fall
      <4> QED
        BY <2>1, <2>2, <4>1
    <3> QED
      BY <3>1, <3>2
  <2>4. (IF complete THEN s.fadeType \ {"in"} ELSE s.fadeType)
          = (IF Rises /\ p + 1 < Top THEN {"in"} ELSE {}) \cup (IF Falls THEN {"out"} ELSE {})
    BY <1>5, <2>1 DEF FadeAt
  <2> HIDE DEF gain, falls, complete
  <2> QED
    BY <1>2, <1>3, <2>3, <2>4 DEF FadeAt
<1> QED
  BY <1>4, <1>5

\* A block's frames are the next ones of the fade.
LEMMA FadeOfBlock ==
  ASSUME TimesOK, NEW p \in Nat, NEW n \in Nat, fade = FadeAt(p)
  PROVE  \A i \in 0 .. n : FX!AfterFrames(n)[i] = FadeAt(p + i)
<1> DEFINE D == 0 .. n
           After(f) == [i \in D |-> IF i = 0 THEN fade ELSE FX!NextFrame(f[i - 1])]
           along == [i \in D |-> FadeAt(p + i)]
           after == FX!AfterFrames(n)
<1>1. along = After(along)
  <2> SUFFICES ASSUME NEW i \in D
               PROVE  FadeAt(p + i) = IF i = 0 THEN fade ELSE FX!NextFrame(along[i - 1])
    OBVIOUS
  <2>1. CASE i = 0
    <3>1. p + i = p
      BY <2>1
    <3> QED
      BY <2>1, <3>1
  <2>2. CASE i # 0
    <3>1. i - 1 \in D /\ p + (i - 1) \in Nat /\ (p + (i - 1)) + 1 = p + i
      BY <2>2
    <3>2. FX!NextFrame(FadeAt(p + (i - 1))) = FadeAt((p + (i - 1)) + 1)
      BY <3>1, NextPlace
    <3>3. along[i - 1] = FadeAt(p + (i - 1))
      BY <3>1
    <3> QED
      BY <2>2, <3>1, <3>2, <3>3
  <2> QED
    BY <2>1, <2>2
<1>2. after = After(after)
  <2>1. after = CHOOSE f : f = After(f)
    BY DEF FX!AfterFrames
  <2> HIDE DEF after, After, along
  <2> QED
    BY <1>1, <2>1
<1> DEFINE S == {i \in Nat : i \in D => after[i] = along[i]}
<1>3. 0 \in S
  <2>1. ASSUME 0 \in D PROVE after[0] = along[0]
    <3>1. after[0] = After(after)[0] /\ along[0] = After(along)[0]
      BY <1>1, <1>2
    <3> HIDE DEF after, along
    <3> QED
      BY <2>1, <3>1
  <2> QED
    BY <2>1
<1>4. ASSUME NEW i \in Nat, i \in S PROVE i + 1 \in S
  <2>1. ASSUME i + 1 \in D PROVE after[i + 1] = along[i + 1]
    <3>1. i \in D /\ (i + 1) - 1 = i /\ i + 1 # 0
      BY <2>1
    <3>2. after[i] = along[i]
      BY <1>4, <3>1
    <3>3. after[i + 1] = After(after)[i + 1] /\ along[i + 1] = After(along)[i + 1]
      BY <1>1, <1>2
    <3> HIDE DEF after, along
    <3>4. /\ After(after)[i + 1] = FX!NextFrame(after[i])
          /\ After(along)[i + 1] = FX!NextFrame(along[i])
      BY <2>1, <3>1
    <3> QED
      BY <3>2, <3>3, <3>4
  <2> QED
    BY <2>1
<1>5. Nat \subseteq S
  <2> HIDE DEF S
  <2> QED
    BY <1>3, <1>4, InductiveSet
<1> QED
  <2> SUFFICES ASSUME NEW i \in D PROVE after[i] = FadeAt(p + i)
    OBVIOUS
  <2>1. after[i] = along[i]
    <3> HIDE DEF after, along
    <3>1. i \in S
      BY <1>5
    <3> QED
      BY <3>1
  <2> QED
    BY <2>1

\* The fade has come as far as the file, or has nothing more to do.
FadeDone(p) == fade.fadeType = {} /\ \A k \in Nat : k >= p => FX!Shape(k) = 0
Faded(p) == fade = FadeAt(p) \/ FadeDone(p)

\* There is no fade where there is a delay.
FadesSuit ==
  IF groupDelay = 0 THEN outStartOffset = 0
                    ELSE fadeInTime = 0 /\ fadeOutTime = 0 /\ outStartOffset \in Nat

FadeInv ==
  /\ TimesOK /\ FadesSuit
  /\ Len(file) \in Nat /\ file = [k \in 1 .. Len(file) |-> file[k]]
  /\ Faded(Len(file))
  /\ \A k \in DOMAIN file : file[k].gain = FX!Shape(k - 1)
  /\ \A f \in Slots : imagerBuffer[f].gain = 0

LEMMA ShapeStays ==
  ASSUME UNCHANGED <<inputFrames, fadeInTime, fadeOutTime>>
  PROVE  /\ \A k : FX!Shape(k)' = FX!Shape(k)
         /\ \A k : FadeAt(k)' = FadeAt(k)
         /\ TimesOK' <=> TimesOK
<1>1. /\ Top' = Top /\ Edge' = Edge
  BY DEF Top, Edge, FX!fadeInStopPosition, FX!fadeOutStartPosition, FX!Lower, FX!Higher
<1>2. /\ Rises' = Rises /\ Falls' = Falls
  BY <1>1 DEF Rises, Falls, Top, Edge, FX!FadesIn, FX!FadesOut
<1>3. Up' = Up /\ Down' = Down
  BY <1>1, <1>2 DEF Up, Down, Rises, Falls, Top, Edge, FX!gainIncreaseRate, FX!gainDecreaseRate
<1>4. \A k : Rise(k)' = Rise(k) /\ Fall(k)' = Fall(k)
  <2> HIDE DEF Rises, Falls, Top, Edge, Up, Down
  <2> QED
    BY <1>1, <1>2, <1>3 DEF Rise, Fall
<1>5. ASSUME NEW k PROVE FX!Shape(k)' = FX!Shape(k)
  <2>1. FX!Shape(k) = Rise(k) - Fall(k)
    BY ShapeIs
  <2>2. FX!Shape(k)' = Rise(k)' - Fall(k)'
    BY DEF FX!Shape, Rise, Fall, Rises, Falls, Top, Edge, Up, Down
  <2> QED
    BY <1>4, <2>1, <2>2
<1>6. ASSUME NEW k PROVE FadeAt(k)' = FadeAt(k)
  BY <1>1, <1>2, <1>4 DEF FadeAt
<1> QED
  BY <1>5, <1>6 DEF TimesOK

\* Where the fade has nothing to do, it has nothing to do any more.
LEMMA NothingMore ==
  ASSUME TimesOK, NEW p \in Nat, Faded(p), fade.fadeType = {}
  PROVE  FadeDone(p)
<1>1. CASE fade = FadeAt(p)
  <2>1. ~(Rises /\ p < Top) /\ ~Falls
    <3>1. (IF Rises /\ p < Top THEN {"in"} ELSE {}) \cup (IF Falls THEN {"out"} ELSE {}) = {}
      BY <1>1 DEF FadeAt
    <3> QED
      BY <3>1
  <2>2. ASSUME NEW k \in Nat, k >= p PROVE FX!Shape(k) = 0
    <3>1. Rises => Top \in Nat \ {0}
      BY FadeNumbers
    <3>2. ~(Rises /\ k < Top)
      BY <2>1, <2>2, <3>1
    <3>3. Rise(k) = 0 /\ Fall(k) = 0
      BY <2>1, <3>2 DEF Rise, Fall
    <3> QED
      BY <3>3, ShapeIs
  <2> QED
    BY <2>2 DEF FadeDone
<1> QED
  BY <1>1 DEF Faded

LEMMA FadeWrite ==
  ASSUME LoopInv, FadeInv, Write
  PROVE  FadeInv'
<1> DEFINE n == outputFrameCount
           m == Len(file)
           written == FX!Processed(outputFrames)
           given == IF FX!hasStereoImager THEN imagerBuffer' ELSE outputFrames
           more == [k \in 1 .. n |-> written[outStartOffset + k - 1]]
<1>1. /\ FX!process(outputFrames, n)
      /\ file' = file \o more
      /\ outStartOffset' = 0
      /\ UNCHANGED <<inputFrames, groupDelay, fadeInTime, fadeOutTime>>
  BY DEF Write, WriteOut, OffsetOnce, options
<1>2. /\ outputBlockIndex \in 0 .. Made(BUFFERSIZE) /\ Made(BUFFERSIZE) \in Nat
      /\ outStartOffset \in Nat /\ n = outputBlockIndex - outStartOffset /\ n \in Int
      /\ m \in Nat /\ file = [k \in 1 .. m |-> file[k]]
      /\ TimesOK /\ Faded(m)
  BY MadeOfFullBlock DEF LoopInv, Sizes, FadeInv, FadesSuit, outputFrameCount
<1> DEFINE count == IF n > 0 THEN n ELSE 0
<1>3. count \in Nat /\ FX!Higher(0, n) = count /\ 1 .. n = 1 .. count
  <2>1. CASE n > 0
    BY <1>2, <2>1 DEF FX!Higher
  <2>2. CASE ~(n > 0)
    <3>1. 1 .. n = {} /\ 1 .. 0 = {}
      BY <1>2, <2>2
    <3> QED
      BY <1>2, <2>2, <3>1 DEF FX!Higher
  <2> QED
    BY <2>1, <2>2
<1>4. ASSUME NEW k \in 1 .. count
      PROVE  /\ outStartOffset + k - 1 \in Slots
             /\ outStartOffset = 0 => outStartOffset + k - 1 = k - 1 /\ k - 1 < count
  <2>1. k \in Nat /\ k >= 1 /\ k <= n
    BY <1>2, <1>4
  <2>2. outStartOffset + k - 1 \in Nat /\ outStartOffset + k - 1 < Made(BUFFERSIZE)
    BY <1>2, <2>1
  <2>3. outStartOffset = 0 => outStartOffset + k - 1 = k - 1 /\ k - 1 < count
    BY <1>2, <2>1
  <2> QED
    BY <2>2, <2>3, EnoughSlots
<1>5. FX!Fade(given, count)
  BY <1>1, <1>3 DEF FX!process
\* The imager leaves the gains to the fade.
<1>6. ASSUME NEW f \in Slots
      PROVE  /\ imagerBuffer'[f].gain = 0 /\ given[f].gain = 0
             /\ f < count => \E frame : given[f] = [frame |-> frame, gain |-> 0]
  <2>1. outputFrames[f] = [frame |-> outputBlock[f], gain |-> 0]
    BY DEF outputFrames
  <2>2. CASE FX!hasStereoImager
    <3>1. imagerBuffer' = FX!Imaged(outputFrames, count)
      BY <1>1, <1>3, <2>2 DEF FX!process
    <3>2. CASE f < count
      <4> DEFINE mixed == [c \in Channels |-> IF \A d \in Channels : outputBlock[f][d] = outputBlock[f][c]
                                                THEN outputBlock[f][c] ELSE Garbled]
      <4>1. imagerBuffer'[f] = [frame |-> mixed, gain |-> 0]
        BY <2>1, <3>1, <3>2 DEF FX!Imaged
      <4>2. given = imagerBuffer'
        BY <2>2
      <4> HIDE DEF mixed, given, written, more, n, m, count
      <4>3. [frame |-> mixed, gain |-> 0].gain = 0
        OBVIOUS
      <4>4. imagerBuffer'[f].gain = 0
        BY <4>1, <4>3
      <4>5. \E frame : imagerBuffer'[f] = [frame |-> frame, gain |-> 0]
        BY <4>1
      <4> QED
        BY <4>2, <4>4, <4>5
    <3>3. CASE ~(f < count)
      <4>1. imagerBuffer'[f] = imagerBuffer[f]
        BY <3>1, <3>3 DEF FX!Imaged
      <4> QED
        BY <2>2, <3>3, <4>1 DEF FadeInv
    <3> QED
      BY <3>2, <3>3
  <2>3. CASE ~FX!hasStereoImager
    <3>1. imagerBuffer' = imagerBuffer /\ given = outputFrames
      BY <1>1, <2>3 DEF FX!process
    <3>2. imagerBuffer[f].gain = 0
      BY DEF FadeInv
    <3> HIDE DEF given, written, more, n, m, count
    <3>3. outputFrames[f].gain = 0 /\ \E frame : outputFrames[f] = [frame |-> frame, gain |-> 0]
      BY <2>1
    <3> QED
      BY <3>1, <3>2, <3>3
  <2> QED
    BY <2>2, <2>3
<1> HIDE DEF n, count
\* What the fade does to the frames that are written, and its state after them.
<1>7. /\ \A k \in 1 .. count : written[outStartOffset + k - 1].gain = FX!Shape(m + k - 1)
      /\ fade' = FadeAt(m + count) \/ (fade' = fade /\ FadeDone(m + count))
  <2>1. CASE FX!bypass
    <3>1. FadeDone(m)
      <4>1. fade.fadeType = {}
        <5>1. CASE FX!hasFade
          BY <2>1, <5>1 DEF FX!bypass
        <5>2. CASE ~FX!hasFade
          <6>1. fadeInTime = 0 /\ fadeOutTime = 0
            BY <1>2, <5>2 DEF FX!hasFade, TimesOK
          <6>2. ~Rises /\ ~Falls
            BY <6>1 DEF Rises, Falls, FX!FadesIn, FX!FadesOut, FX!fadeInStopPosition,
                        FX!shortestPossibleFade
          <6> QED
            BY <1>2, <6>2 DEF Faded, FadeAt, FadeDone
        <5> QED
          BY <5>1, <5>2
      <4> QED
        BY <1>2, <4>1, NothingMore
    <3>2. FadeDone(m + count)
      BY <1>2, <1>3, <3>1 DEF FadeDone
    <3>3. fade' = fade /\ written = given
      BY <1>5, <2>1 DEF FX!Fade, FX!Processed
    <3>4. ASSUME NEW k \in 1 .. count
          PROVE  written[outStartOffset + k - 1].gain = FX!Shape(m + k - 1)
      <4> DEFINE f == outStartOffset + k - 1
      <4>1. f \in Slots /\ m + k - 1 \in Nat /\ m + k - 1 >= m
        BY <1>2, <1>3, <1>4
      <4>2. FX!Shape(m + k - 1) = 0
        BY <3>1, <4>1 DEF FadeDone
      <4>3. given[f].gain = 0
        BY <1>6, <4>1
      <4> QED
        BY <3>3, <4>2, <4>3
    <3> QED
      BY <3>2, <3>3, <3>4
  <2>2. CASE ~FX!bypass
    <3>1. outStartOffset = 0
      <4>1. fadeInTime > 0 \/ fadeOutTime > 0
        BY <2>2 DEF FX!bypass, FX!hasFade
      <4> QED
        BY <4>1 DEF FadeInv, FadesSuit
    <3>2. fade = FadeAt(m)
      BY <1>2, <2>2 DEF Faded, FadeDone, FX!bypass
    <3>3. \A i \in 0 .. count : FX!AfterFrames(count)[i] = FadeAt(m + i)
      BY <1>2, <1>3, <3>2, FadeOfBlock
    <3>4. fade' = FadeAt(m + count)
      BY <1>3, <1>5, <2>2, <3>3 DEF FX!Fade
    <3>5. ASSUME NEW k \in 1 .. count
          PROVE  written[outStartOffset + k - 1].gain = FX!Shape(m + k - 1)
      <4>1. /\ outStartOffset + k - 1 = k - 1 /\ k - 1 \in Slots /\ k - 1 < count
            /\ k - 1 \in 0 .. count /\ m + (k - 1) = m + k - 1
        BY <1>2, <1>3, <1>4, <3>1
      <4>2. written = fadeBuffer'
        BY <2>2 DEF FX!Processed
      <4>3. fadeBuffer'[k - 1] = [given[k - 1] EXCEPT !.gain = FX!AfterFrames(count)[k - 1].gain]
        BY <1>5, <2>2, <4>1 DEF FX!Fade
      <4>4. PICK frame : given[k - 1] = [frame |-> frame, gain |-> 0]
        BY <1>6, <4>1
      <4>5. fadeBuffer'[k - 1].gain = FadeAt(m + (k - 1)).gain
        BY <3>3, <4>1, <4>3, <4>4
      <4>6. FadeAt(m + (k - 1)).gain = Rise(m + (k - 1)) - Fall(m + (k - 1))
        BY DEF FadeAt
      <4>7. FX!Shape(m + (k - 1)) = Rise(m + (k - 1)) - Fall(m + (k - 1))
        BY ShapeIs
      <4> QED
        BY <4>1, <4>2, <4>5, <4>6, <4>7
    <3> QED
      BY <3>4, <3>5
  <2> QED
    BY <2>1, <2>2
\* What is in the file then.
<1> DEFINE Elements == {file[k] : k \in 1 .. m} \cup {more[k] : k \in 1 .. n}
<1>8. file' = [k \in 1 .. m + count |-> IF k <= m THEN file[k] ELSE more[k - m]]
  <2>1. file \in Seq(Elements) /\ Len(file) = m
    <3> HIDE DEF m, more
    <3>1. \A k \in 1 .. m : file[k] \in Elements
      OBVIOUS
    <3> HIDE DEF Elements
    <3>2. [k \in 1 .. m |-> file[k]] \in Seq(Elements) /\ Len([k \in 1 .. m |-> file[k]]) = m
      BY <1>2, <3>1
    <3> QED
      BY <1>2, <3>2
  <2>2. more \in Seq(Elements) /\ Len(more) = count
    <3>1. \A k \in 1 .. count : more[k] \in Elements
      BY <1>3
    <3>2. more = [k \in 1 .. count |-> more[k]]
      BY <1>3
    <3> HIDE DEF Elements, more
    <3>3. /\ [k \in 1 .. count |-> more[k]] \in Seq(Elements)
          /\ Len([k \in 1 .. count |-> more[k]]) = count
      BY <1>3, <3>1
    <3> QED
      BY <3>2, <3>3
  <2> HIDE DEF more, m, Elements
  <2>3. file \o more = [k \in 1 .. Len(file) + Len(more) |->
                          IF k <= Len(file) THEN file[k] ELSE more[k - Len(file)]]
    BY <2>1, <2>2, FramesJoined
  <2> QED
    BY <1>1, <2>1, <2>2, <2>3
<1>9. ASSUME NEW k \in 1 .. m + count
      PROVE  file'[k].gain = FX!Shape(k - 1)
  <2>1. CASE k <= m
    <3>1. k \in 1 .. m /\ k \in DOMAIN file /\ file'[k] = file[k]
      BY <1>2, <1>3, <1>8, <1>9, <2>1
    <3> QED
      BY <3>1 DEF FadeInv
  <2>2. CASE k > m
    <3>1. k - m \in 1 .. count /\ m + (k - m) - 1 = k - 1
      BY <1>2, <1>3, <1>9, <2>2
    <3>2. file'[k] = written[outStartOffset + (k - m) - 1]
      BY <1>2, <1>3, <1>8, <1>9, <2>2, <3>1
    <3>3. written[outStartOffset + (k - m) - 1].gain = FX!Shape(m + (k - m) - 1)
      BY <1>7, <3>1
    <3> QED
      BY <3>1, <3>2, <3>3
  <2> QED
    BY <1>2, <1>3, <1>9, <2>1, <2>2
<1>10. Len(file') = m + count /\ DOMAIN file' = 1 .. m + count /\ m + count \in Nat
       /\ file' = [k \in 1 .. m + count |-> file'[k]]
  <2> HIDE DEF m, more
  <2> QED
    BY <1>2, <1>3, <1>8
<1>11. /\ \A k : FX!Shape(k)' = FX!Shape(k)
       /\ \A k : FadeAt(k)' = FadeAt(k)
       /\ TimesOK'
  BY <1>1, <1>2, ShapeStays
<1> HIDE DEF m, more, written, given
<1>12. Faded(Len(file))'
  <2>1. \A k : FadeDone(k)' <=> fade'.fadeType = {} /\ \A j \in Nat : j >= k => FX!Shape(j) = 0
    BY <1>11 DEF FadeDone
  <2>2. Faded(Len(file))' <=> fade' = FadeAt(m + count)
                               \/ (fade'.fadeType = {} /\ \A j \in Nat : j >= m + count => FX!Shape(j) = 0)
    BY <1>10, <1>11 DEF Faded, FadeDone
  <2> QED
    BY <1>7, <2>2 DEF FadeDone
<1>13. FadesSuit'
  BY <1>1 DEF FadeInv, FadesSuit
<1> QED
  BY <1>6, <1>9, <1>10, <1>11, <1>12, <1>13 DEF FadeInv

LEMMA FadeStep ==
  ASSUME LoopInv, FadeInv, [Next]_vars
  PROVE  FadeInv'
<1>1. ASSUME UNCHANGED <<inputFrames, groupDelay, fadeInTime, fadeOutTime, effects,
                         outStartOffset, file>>
      PROVE  FadeInv'
  <2>1. /\ \A k : FX!Shape(k)' = FX!Shape(k)
        /\ \A k : FadeAt(k)' = FadeAt(k)
        /\ TimesOK'
    BY <1>1, ShapeStays DEF FadeInv
  <2>2. fade' = fade /\ imagerBuffer' = imagerBuffer
    BY <1>1 DEF effects
  <2>3. Faded(Len(file))'
    BY <1>1, <2>1, <2>2 DEF FadeInv, Faded, FadeDone
  <2>4. FadesSuit'
    BY <1>1 DEF FadeInv, FadesSuit
  <2> QED
    BY <1>1, <2>1, <2>2, <2>3, <2>4 DEF FadeInv
<1>2. CASE Write
  BY <1>2, FadeWrite
<1>3. CASE Read \/ ProcessInTurn \/ PushTask \/ Collect \/ DestroyPool
  BY <1>1, <1>3 DEF Read, ProcessInTurn, PushTask, Collect, DestroyPool, options, output
<1>4. CASE TaskBegins \/ \E t \in Tasks : TaskFinishes(t)
  BY <1>1, <1>4 DEF TaskBegins, TaskFinishes, options, output
<1>5. CASE UNCHANGED vars
  BY <1>1, <1>5 DEF vars, options, output
<1> QED
  BY <1>2, <1>3, <1>4, <1>5 DEF Next, Loop

LEMMA FadeInit ==
  ASSUME \A s \in Settings : s.delay > 0 => s.fadeIn = 0 /\ s.fadeOut = 0, Init
  PROVE  FadeInv
<1>1. PICK s \in Settings : groupDelay = s.delay /\ fadeInTime = s.fadeIn /\ fadeOutTime = s.fadeOut
  BY DEF Init
<1>2. /\ groupDelay \in Nat /\ TimesOK
      /\ groupDelay > 0 => fadeInTime = 0 /\ fadeOutTime = 0
  BY <1>1, BlockLoopAssumption DEF Init, TimesOK
<1>3. FadesSuit
  <2> DEFINE last == outputBlockFrames - 1
  <2>1. outStartOffset = Lower(groupDelay, last) /\ last \in Nat
    BY MadeOfFullBlock DEF Init, outputBlockFrames, outputChannelBufferSize
  <2> HIDE DEF last
  <2>2. CASE groupDelay = 0
    <3>1. Lower(0, last) = 0
      BY <2>1 DEF Lower
    <3> QED
      BY <2>1, <2>2, <3>1 DEF FadesSuit
  <2>3. CASE groupDelay > 0
    <3>1. outStartOffset \in Nat
      BY <1>2, <2>1 DEF Lower
    <3> QED
      BY <1>2, <2>3, <3>1 DEF FadesSuit
  <2> QED
    BY <1>2, <2>2, <2>3
<1>4. file = <<>> /\ Len(file) = 0 /\ DOMAIN file = {} /\ file = [k \in 1 .. Len(file) |-> file[k]]
  BY DEF Init
<1>5. Faded(0)
  <2>1. FX!InitChain
    BY DEF Init
  <2>2. fade = [fadeType |-> (IF Rises THEN {"in"} ELSE {}) \cup (IF Falls THEN {"out"} ELSE {}),
                position |-> 0, gain |-> IF Rises THEN -(Top * Up) ELSE 0]
    BY <2>1 DEF FX!InitChain, Rises, Falls, Top, Up
  <2>3. /\ Rises => Top \in Nat \ {0}
        /\ Falls => Edge \in Nat
        /\ Up \in Nat \ {0}
    BY <1>2, FadeNumbers
  <2>4. (Rises /\ 0 < Top) = Rises
    BY <1>2, <2>3, FadeNumbers
  <2>5. Rise(0) - Fall(0) = IF Rises THEN -(Top * Up) ELSE 0
    <3>1. Fall(0) = 0
      BY <2>3 DEF Fall
    <3>2. Rises => Top - 0 = Top /\ Top * Up \in Int /\ 0 < Top
      BY <2>3
    <3> QED
      BY <3>1, <3>2 DEF Rise
  <2> QED
    BY <2>2, <2>4, <2>5 DEF Faded, FadeAt
<1>6. \A f \in Slots : imagerBuffer[f].gain = 0
  BY DEF Init, FX!InitChain, FX!outputBuffer
<1> QED
  BY <1>2, <1>3, <1>4, <1>5, <1>6 DEF FadeInv

\* Where fades are made of a stream without a delay, every frame of the file has the gain
\* of its place in it, for all lengths of the fades, of the file and of the blocks, and
\* whatever is done between two blocks.
THEOREM FadesStayInPlace ==
  ASSUME \A s \in Settings : s.delay > 0 => s.fadeIn = 0 /\ s.fadeOut = 0
  PROVE  Spec => []FadesInPlace
<1>1. Init => LoopInv /\ FadeInv
  BY InitEstablishes, FadeInit
<1>2. LoopInv /\ FadeInv /\ [Next]_vars => LoopInv' /\ FadeInv'
  BY StepKeeps, FadeStep
<1>3. FadeInv => FadesInPlace
  BY DEF FadeInv, FadesInPlace
<1> QED
  BY <1>1, <1>2, <1>3, PTL DEF Spec
===============================================================================
