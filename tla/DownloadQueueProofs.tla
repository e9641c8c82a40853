-------------------------- MODULE DownloadQueueProofs --------------------------
(* Proofs about DownloadQueue, for any list of files, any number of threads *)
(* and any capacity of vDownloadInfo.                                       *)
EXTENDS DownloadQueue, DataInduction, TLAPS

--------------------------------------------------------------------------------
(* Sequences *)

\* Appending an element, as push() does: the length grows by one, the old
\* elements stay where they are.
LEMMA AppendFacts ==
  ASSUME NEW S, NEW q \in Seq(S), NEW e \in S
  PROVE  /\ Append(q, e) \in Seq(S)
         /\ DOMAIN Append(q, e) = 1 .. Len(q) + 1
         /\ \A i \in 1 .. Len(q) : Append(q, e)[i] = q[i]
         /\ Append(q, e)[Len(q) + 1] = e
  OBVIOUS

\* Removing the head, as try_pop() does: the rest moves up by one.
LEMMA TailFacts ==
  ASSUME NEW S, NEW q \in Seq(S), q # <<>>
  PROVE  /\ Tail(q) \in Seq(S)
         /\ Head(q) \in S
         /\ Head(q) = q[1]
         /\ Len(q) \in Nat \ {0}
         /\ DOMAIN Tail(q) = 1 .. Len(q) - 1
         /\ \A i \in 1 .. Len(q) - 1 : Tail(q)[i] = q[i + 1]
  OBVIOUS

Elements(q) == {q[i] : i \in DOMAIN q}
Injective(q) == \A i, j \in DOMAIN q : q[i] = q[j] => i = j

\* push() adds one element, and keeps the queue free of duplicates if the
\* element is new.
LEMMA AppendElements ==
  ASSUME NEW S, NEW q \in Seq(S), NEW e \in S
  PROVE  /\ Elements(Append(q, e)) = Elements(q) \union {e}
         /\ Injective(q) /\ e \notin Elements(q) => Injective(Append(q, e))
  <1>1. /\ DOMAIN q = 1 .. Len(q) /\ Len(q) \in Nat
        /\ DOMAIN Append(q, e) = 1 .. Len(q) + 1
        /\ \A i \in 1 .. Len(q) : Append(q, e)[i] = q[i]
        /\ Append(q, e)[Len(q) + 1] = e
    BY AppendFacts
  <1>2. Elements(Append(q, e)) = Elements(q) \union {e}
    <2> DEFINE r == Append(q, e)
    <2>1. \A i \in DOMAIN r : r[i] \in Elements(q) \union {e}
      BY <1>1 DEF Elements
    <2>2. \A i \in DOMAIN q : \E j \in DOMAIN r : r[j] = q[i]
      BY <1>1
    <2>3. \E j \in DOMAIN r : r[j] = e
      BY <1>1
    <2> QED BY <2>1, <2>2, <2>3 DEF Elements
  <1>3. Injective(q) /\ e \notin Elements(q) => Injective(Append(q, e))
    BY <1>1 DEF Injective, Elements
  <1> QED BY <1>2, <1>3

\* try_pop() removes one element from a queue free of duplicates.
LEMMA TailElements ==
  ASSUME NEW S, NEW q \in Seq(S), q # <<>>
  PROVE  /\ Elements(q) = {Head(q)} \union Elements(Tail(q))
         /\ Injective(q) => Head(q) \notin Elements(Tail(q))
         /\ Injective(q) => Injective(Tail(q))
  <1>1. /\ DOMAIN q = 1 .. Len(q) /\ Len(q) \in Nat \ {0}
        /\ Head(q) = q[1]
        /\ DOMAIN Tail(q) = 1 .. Len(q) - 1
        /\ \A i \in 1 .. Len(q) - 1 : Tail(q)[i] = q[i + 1]
    BY TailFacts
  <1>2. Elements(q) = {Head(q)} \union Elements(Tail(q))
    <2>1. \A i \in DOMAIN q : q[i] \in {Head(q)} \union Elements(Tail(q))
      <3> TAKE i \in DOMAIN q
      <3>1. CASE i = 1
        BY <3>1, <1>1
      <3>2. CASE i # 1
        <4>1. i - 1 \in DOMAIN Tail(q) /\ Tail(q)[i - 1] = q[i]
          BY <3>2, <1>1
        <4> QED BY <4>1 DEF Elements
      <3> QED BY <3>1, <3>2
    <2>2. \A i \in DOMAIN Tail(q) : Tail(q)[i] \in Elements(q)
      BY <1>1 DEF Elements
    <2>3. Head(q) \in Elements(q)
      BY <1>1 DEF Elements
    <2> QED BY <2>1, <2>2, <2>3 DEF Elements
  <1>3. ASSUME Injective(q) PROVE Head(q) \notin Elements(Tail(q))
    BY <1>1, <1>3 DEF Injective, Elements
  <1>4. ASSUME Injective(q) PROVE Injective(Tail(q))
    BY <1>1, <1>4 DEF Injective
  <1> QED BY <1>2, <1>3, <1>4

--------------------------------------------------------------------------------
(* The inductive invariant *)

\* Where the main thread is determines how many elements and threads exist.
SpawnInv ==
  /\ mpc \in {"enqueue", "exit"} => spawned = 0
  /\ mpc \in {"enqueue", "spawn", "realloc"} => size = spawned
  /\ mpc = "create" => size = spawned + 1
  /\ mpc \in {"realloc", "create"} => spawned < NumThreads
  /\ mpc \in {"print", "join"} => spawned = NumThreads /\ size = NumThreads
  /\ mpc \in {"xml", "done"} => spawned = NumThreads \/ queue = <<>>
  /\ mpc = "print" => next <= size
  /\ \A t \in Workers : At(t, "none") <=> t >= spawned

\* A thread holds a file exactly while it works on one.
HoldInv ==
  \A t \in Workers :
    Holding(t) <=> pc[t] \in {"popped", "starting", "prepare", "transfer"}

\* dlQueue and the threads hold only files download() has pushed, and all of
\* them are pushed before the first thread runs.
FedInv ==
  /\ Queued \subseteq 1 .. fed
  /\ Held \subseteq 1 .. fed
  /\ mpc # "enqueue" => fed = NFiles

\* A thread that left its loop on an empty dlQueue left it empty for good.
EmptyInv ==
  \A t \in Workers : pc[t] \in {"cleanup", "done"} => queue = <<>>

\* XML is queued, and made, only of files that were given back.
XMLInv ==
  /\ Elements(xmlQueue) \subseteq 1 .. fed
  /\ Elements(xmlQueue) \intersect (Queued \union Held) = {}
  /\ mpc \in {"enqueue", "spawn", "realloc", "create", "print", "join", "exit"}
       => xmls = {}
  /\ mpc = "enqueue" => xmlQueue = <<>>

IInv ==
  /\ TypeOK
  /\ SpawnInv
  /\ HoldInv
  /\ FedInv
  /\ ExclusiveFiles
  /\ EmptyInv
  /\ ClearedAfterThreads
  /\ NothingLeftBehind
  /\ XMLInv

--------------------------------------------------------------------------------
(* Preservation, one lemma per conjunct *)

\* Every action keeps the variables in their types.
LEMMA TypeStep ==
  ASSUME IInv, [Next]_vars
  PROVE  TypeOK'
  <1> USE CountsAssumption
      DEF IInv, TypeOK, SpawnInv, mainVars, vector, workVars, Goto, At,
          SetStatus, Files, Workers, NumThreads, NoFile, Status, NOTSTARTED,
          STARTING, RUNNING, FINISHED, MainPC, WorkerPC
  <1>1. CASE ReadStatus
    <2>1. next \in Workers
      BY <1>1 DEF ReadStatus
    <2>2. seen' \subseteq Status \ {NOTSTARTED}
      <3>1. status[next] \in Status
        BY <2>1
      <3> QED BY <3>1, <1>1 DEF ReadStatus
    <2>3. next' \in 0 .. NumThreads
      BY <1>1 DEF ReadStatus
    <2> QED BY <2>2, <2>3, <1>1 DEF ReadStatus
  <1>2. CASE CreateXML
    <2>1. Head(xmlQueue) \in Files /\ Tail(xmlQueue) \in Seq(Files)
      BY <1>2, TailFacts DEF CreateXML
    <2> QED BY <2>1, <1>2 DEF CreateXML
  <1>3. CASE Enqueue
    BY <1>3 DEF Enqueue
  <1>4. CASE AllQueued
    BY <1>4 DEF AllQueued
  <1>5. CASE PushBack
    <2>1. CASE size < capacity
      <3>1. /\ status' = [status EXCEPT ![size] = NOTSTARTED]
            /\ size' = size + 1 /\ mpc' = "create" /\ copy' = copy
        BY <1>5, <2>1 DEF PushBack
      <3>2. spawned < NumThreads /\ size = spawned
        BY <1>5 DEF PushBack
      <3>3. size' \in 0 .. NumThreads
        BY <3>1, <3>2
      <3>4. status' \in [Workers -> Status]
        BY <3>1
      <3> QED BY <1>5, <3>1, <3>3, <3>4 DEF PushBack
    <2>2. CASE ~(size < capacity)
      BY <1>5, <2>2 DEF PushBack
    <2> QED BY <2>1, <2>2
  <1>6. CASE Publish
    BY <1>6 DEF Publish
  <1>7. CASE CreateThread
    BY <1>7 DEF CreateThread
  <1>8. CASE AllSpawned
    BY <1>8 DEF AllSpawned
  <1>9. CASE EndPass
    BY <1>9 DEF EndPass
  <1>10. CASE Join
    BY <1>10 DEF Join
  <1>11. CASE Return
    BY <1>11 DEF Return
  <1>12. ASSUME NEW t \in Workers, Worker(t) PROVE TypeOK'
    <2>1. CASE TryPop(t)
      <3>1. CASE queue = <<>>
        BY <2>1, <3>1 DEF TryPop
      <3>2. CASE queue # <<>>
        <4>1. Head(queue) \in Files /\ Tail(queue) \in Seq(Files)
          BY <3>2, TailFacts
        <4>2. cur' \in [Workers -> Files \union {NoFile}]
          <5>1. cur' = [cur EXCEPT ![t] = Head(queue)]
            BY <2>1, <3>2 DEF TryPop
          <5>2. cur \in [Workers -> Files \union {NoFile}]
            OBVIOUS
          <5> HIDE DEF IInv, Files
          <5> QED BY <4>1, <5>1, <5>2
        <4>3. queue' \in Seq(Files) /\ pc' \in [Workers -> WorkerPC]
          BY <2>1, <3>2, <4>1 DEF TryPop
        <4> QED BY <2>1, <4>2, <4>3 DEF TryPop
      <3> QED BY <3>1, <3>2
    <2>2. CASE EndTransfer(t)
      <3>1. xmlQueue' \in Seq(Files)
        <4>1. \A f \in Files : Append(xmlQueue, f) \in Seq(Files)
          BY AppendFacts
        <4>2. \/ xmlQueue' = xmlQueue
              \/ cur[t] \in XMLFiles /\ xmlQueue' = Append(xmlQueue, cur[t])
          BY <2>2, Zenon DEF EndTransfer
        <4>3. XMLFiles \subseteq Files
          BY XMLAssumption
        <4>4. xmlQueue \in Seq(Files)
          OBVIOUS
        <4> HIDE DEF IInv, Files
        <4> QED BY <4>1, <4>2, <4>3, <4>4
      <3> QED BY <2>2, <3>1 DEF EndTransfer
    <2>3. CASE Login(t)
      BY <2>3 DEF Login
    <2>4. CASE Starting(t)
      BY <2>4 DEF Starting
    <2>5. CASE CountDown(t)
      <3>1. remaining' \in Int
        <4>1. cur[t] \in Files
          BY <2>5 DEF CountDown, HoldInv, Holding
        <4>2. Size[cur[t]] \in Nat
          BY <4>1, SizeAssumption
        <4>3. remaining \in Int /\ remaining' = remaining - Size[cur[t]]
          BY <2>5 DEF CountDown
        <4> HIDE DEF IInv
        <4> QED BY <4>2, <4>3
      <3>2. pc' \in [Workers -> WorkerPC]
        BY <2>5 DEF CountDown
      <3> QED BY <2>5, <3>1, <3>2 DEF CountDown
    <2>6. CASE Skip(t)
      BY <2>6 DEF Skip
    <2>7. CASE TokenLost(t)
      BY <2>7 DEF TokenLost
    <2>8. CASE Transfer(t)
      BY <2>8 DEF Transfer
    <2>9. CASE Progress(t)
      BY <2>9 DEF Progress
    <2>10. CASE Finish(t)
      BY <2>10 DEF Finish
    <2> QED
        BY <1>12, <2>1, <2>2, <2>3, <2>4, <2>5, <2>6, <2>7, <2>8, <2>9, <2>10
        DEF Worker
  <1>13. CASE UNCHANGED vars
    BY <1>13 DEF vars
  <1> QED
      BY <1>1, <1>2, <1>3, <1>4, <1>5, <1>6, <1>7, <1>8, <1>9, <1>10, <1>11,
          <1>12, <1>13
      DEF Next, Main, Terminated

\* What a thread leaves alone: the main thread's place, the length of
\* vDownloadInfo, an empty dlQueue; and it moves no thread but itself.
LEMMA WorkerEffect ==
  ASSUME IInv, NEW t \in Workers, Worker(t)
  PROVE  /\ UNCHANGED <<mainVars, vector>>
         /\ queue = <<>> => queue' = <<>>
         /\ pc[t] # "none"
         /\ \E label \in WorkerPC \ {"none"} : pc' = [pc EXCEPT ![t] = label]
  <1>1. UNCHANGED <<mainVars, vector>>
    BY Zenon DEF Worker, Login, TryPop, Starting, CountDown, Skip, TokenLost,
                 Transfer, Progress, EndTransfer, Finish
  <1>2. queue = <<>> => queue' = <<>>
    BY Zenon DEF Worker, Login, TryPop, Starting, CountDown, Skip, TokenLost,
                 Transfer, Progress, EndTransfer, Finish
  <1>3. pc[t] # "none"
    BY DEF Worker, Login, TryPop, Starting, CountDown, Skip, TokenLost,
           Transfer, Progress, EndTransfer, Finish, At
  <1>4. \E label \in WorkerPC \ {"none"} : pc' = [pc EXCEPT ![t] = label]
    <2>1. CASE Progress(t)
      <3>1. pc' = [pc EXCEPT ![t] = pc[t]] /\ pc[t] = "transfer"
        BY <2>1 DEF Progress, At, workVars, IInv, TypeOK
      <3> QED BY <3>1 DEF WorkerPC
    <2>2. CASE Login(t)
      BY <2>2 DEF Login, Goto, WorkerPC
    <2>3. CASE TryPop(t)
      BY <2>3 DEF TryPop, Goto, WorkerPC
    <2>4. CASE Finish(t)
      BY <2>4 DEF Finish, Goto, WorkerPC
    <2>5. CASE Starting(t) \/ CountDown(t) \/ Skip(t) \/ TokenLost(t) \/
               Transfer(t) \/ EndTransfer(t)
      BY <2>5 DEF Starting, CountDown, Skip, TokenLost, Transfer, EndTransfer,
                  Goto, WorkerPC
    <2> QED BY <2>1, <2>2, <2>3, <2>4, <2>5 DEF Worker
  <1> QED BY <1>1, <1>2, <1>3, <1>4

\* The spawn loop keeps the vector and the threads in step.
LEMMA SpawnStep ==
  ASSUME IInv, [Next]_vars
  PROVE  SpawnInv'
  <1> USE CountsAssumption
      DEF IInv, TypeOK, SpawnInv, mainVars, vector, workVars, Goto, At,
          SetStatus, Workers, NumThreads, WorkerPC
  <1>1. CASE Enqueue
    BY <1>1 DEF Enqueue
  <1>2. CASE AllQueued
    BY <1>2 DEF AllQueued
  <1>3. CASE PushBack
    BY <1>3 DEF PushBack
  <1>4. CASE Publish
    BY <1>4 DEF Publish
  <1>5. CASE CreateThread
    BY <1>5 DEF CreateThread
  <1>6. CASE AllSpawned
    BY <1>6 DEF AllSpawned
  <1>7. CASE ReadStatus
    BY <1>7 DEF ReadStatus
  <1>8. CASE EndPass
    BY <1>8 DEF EndPass
  <1>9. CASE Join
    BY <1>9 DEF Join
  <1>10. CASE CreateXML
    BY <1>10 DEF CreateXML
  <1>11. CASE Return
    BY <1>11 DEF Return
  <1>12. ASSUME NEW t \in Workers, Worker(t) PROVE SpawnInv'
    <2>1. /\ UNCHANGED <<mpc, spawned, size, next>>
          /\ queue = <<>> => queue' = <<>>
          /\ pc[t] # "none"
      BY <1>12, WorkerEffect
    <2>2. PICK label \in WorkerPC \ {"none"} : pc' = [pc EXCEPT ![t] = label]
      BY <1>12, WorkerEffect
    <2>3. \A w \in Workers : pc'[w] = "none" <=> pc[w] = "none"
      BY <2>1, <2>2
    <2> QED BY <2>1, <2>3
  <1>13. CASE UNCHANGED vars
    BY <1>13 DEF vars
  <1> QED
      BY <1>1, <1>2, <1>3, <1>4, <1>5, <1>6, <1>7, <1>8, <1>9, <1>10, <1>11,
          <1>12, <1>13
      DEF Next, Main, Terminated

\* What an action does to the set of queued and the set of held files.
LEMMA UntouchedEffect ==
  ASSUME UNCHANGED <<queue, cur>>
  PROVE  Queued' = Queued /\ Held' = Held
  BY DEF Queued, Held, Holding

\* Enqueue adds the next file of the list, which is nowhere yet.
LEMMA EnqueueEffect ==
  ASSUME IInv, Enqueue
  PROVE  /\ Queued' = Queued \union {fed + 1}
         /\ Held' = Held
         /\ fed + 1 \in Files
         /\ fed + 1 \notin Queued
         /\ Injective(queue)'
  <1>1. fed + 1 \in Files /\ fed \in Nat /\ queue' = Append(queue, fed + 1)
    BY CountsAssumption DEF IInv, TypeOK, Enqueue, Files
  <1>2. fed + 1 \notin Queued
    BY <1>1 DEF IInv, FedInv
  <1>3. Queued = Elements(queue) /\ Queued' = Elements(queue')
    BY DEF Queued, Elements
  <1>4. Injective(queue)
    BY DEF IInv, ExclusiveFiles, Injective
  <1>5. queue \in Seq(Files)
    BY DEF IInv, TypeOK
  <1>6. Held' = Held
    BY DEF Enqueue, workVars, Held, Holding
  <1>7. Queued' = Queued \union {fed + 1} /\ Injective(queue')
    BY <1>1, <1>2, <1>3, <1>4, <1>5, AppendElements
  <1> QED BY <1>1, <1>2, <1>6, <1>7 DEF Injective

\* A successful try_pop moves one file from dlQueue to the thread's hands.
LEMMA PopEffect ==
  ASSUME IInv, NEW t \in Workers, TryPop(t), queue # <<>>
  PROVE  /\ Head(queue) \in Files
         /\ Queued = {Head(queue)} \union Queued'
         /\ Head(queue) \notin Queued'
         /\ Held' = Held \union {Head(queue)}
         /\ Head(queue) \notin Held
         /\ Injective(queue)'
  <1>1. queue \in Seq(Files) /\ queue' = Tail(queue)
    BY DEF IInv, TypeOK, TryPop
  <1>2. Queued = Elements(queue) /\ Queued' = Elements(queue')
    BY DEF Queued, Elements
  <1>3. Injective(queue) /\ Held \intersect Queued = {}
    BY DEF IInv, ExclusiveFiles, Injective
  <1>4. Head(queue) \in Files
    BY <1>1, TailFacts
  <1>5. /\ Queued = {Head(queue)} \union Queued'
        /\ Head(queue) \notin Queued' /\ Injective(queue')
    BY <1>1, <1>2, <1>3, TailElements
  <1>6. cur' = [cur EXCEPT ![t] = Head(queue)] /\ cur[t] = NoFile
        /\ cur \in [Workers -> Files \union {NoFile}]
    BY DEF IInv, TypeOK, HoldInv, Holding, TryPop, At
  <1>7. Head(queue) # NoFile
    BY <1>4, CountsAssumption DEF Files, NoFile
  <1>8. Held' = Held \union {Head(queue)}
    <2>1. \A w \in Workers : cur'[w] = IF w = t THEN Head(queue) ELSE cur[w]
      BY <1>6
    <2> QED BY <1>6, <1>7, <2>1 DEF Held, Holding
  <1> QED BY <1>3, <1>4, <1>5, <1>8 DEF Injective

\* A thread that lets go of its file takes it from the held files.
LEMMA ReleaseEffect ==
  ASSUME IInv, NEW t \in Workers, Holding(t), queue' = queue,
         cur' = [cur EXCEPT ![t] = NoFile]
  PROVE  /\ Queued' = Queued
         /\ Held' = Held \ {cur[t]}
         /\ cur[t] \in Held
  <1>1. Queued' = Queued
    BY DEF Queued
  <1>2. cur[t] \in Held
    BY DEF Held
  <1>3. \A w \in Workers : cur'[w] = IF w = t THEN NoFile ELSE cur[w]
    BY DEF IInv, TypeOK
  <1>4. \A w \in Workers : Holding(w) /\ cur[w] = cur[t] => w = t
    BY DEF IInv, ExclusiveFiles
  <1>5. Held' = Held \ {cur[t]}
    BY <1>3, <1>4 DEF Held, Holding
  <1> QED BY <1>1, <1>2, <1>5

\* The files a thread gives back.
LEMMA ReleaseActions ==
  ASSUME IInv, NEW t \in Workers, Skip(t) \/ TokenLost(t) \/ EndTransfer(t)
  PROVE  /\ Queued' = Queued
         /\ Held' = Held \ {cur[t]}
         /\ cur[t] \in Held
  <1>1. Holding(t)
    BY DEF IInv, HoldInv, Skip, TokenLost, EndTransfer, At
  <1>2. queue' = queue /\ cur' = [cur EXCEPT ![t] = NoFile]
    BY DEF Skip, TokenLost, EndTransfer
  <1> QED BY <1>1, <1>2, ReleaseEffect

\* A thread holds a file exactly from try_pop to the end of the loop's body.
LEMMA HoldStep ==
  ASSUME IInv, [Next]_vars
  PROVE  HoldInv'
  <1> USE CountsAssumption
      DEF IInv, TypeOK, SpawnInv, HoldInv, mainVars, vector, workVars, Goto,
          At, Holding, Workers, NoFile, WorkerPC
  <1>1. CASE Enqueue \/ AllQueued \/ PushBack \/ Publish \/ AllSpawned \/
             ReadStatus \/ EndPass \/ Join \/ CreateXML \/ Return
    <2>1. UNCHANGED workVars
      BY <1>1, Zenon DEF Enqueue, AllQueued, PushBack, Publish, AllSpawned,
                         ReadStatus, EndPass, Join, CreateXML, Return
    <2> QED BY <2>1
  <1>2. CASE CreateThread
    BY <1>2 DEF CreateThread
  <1>3. ASSUME NEW t \in Workers, Worker(t) PROVE HoldInv'
    <2>1. CASE TryPop(t)
      <3>1. CASE queue = <<>>
        BY <2>1, <3>1 DEF TryPop
      <3>2. CASE queue # <<>>
        <4>1. Head(queue) # NoFile
          <5>1. Head(queue) \in Files
            BY <3>2, TailFacts
          <5> QED BY <5>1, CountsAssumption DEF Files, NoFile
        <4>2. cur' = [cur EXCEPT ![t] = Head(queue)] /\ pc' = [pc EXCEPT ![t] = "popped"]
          BY <2>1, <3>2 DEF TryPop
        <4> QED BY <4>1, <4>2
      <3> QED BY <3>1, <3>2
    <2>2. CASE Login(t)
      BY <2>2 DEF Login
    <2>3. CASE Starting(t) \/ CountDown(t)
      BY <2>3 DEF Starting, CountDown
    <2>4. CASE Transfer(t) \/ Finish(t)
      BY <2>4 DEF Transfer, Finish
    <2>5. CASE Progress(t)
      BY <2>5 DEF Progress
    <2>6. CASE Skip(t) \/ TokenLost(t)
      BY <2>6 DEF Skip, TokenLost
    <2>7. CASE EndTransfer(t)
      BY <2>7 DEF EndTransfer
    <2> QED BY <1>3, <2>1, <2>2, <2>3, <2>4, <2>5, <2>6, <2>7 DEF Worker
  <1>4. CASE UNCHANGED vars
    BY <1>4 DEF vars
  <1> QED BY <1>1, <1>2, <1>3, <1>4 DEF Next, Main, Terminated

\* Nothing enters dlQueue or a thread's hands but the files of the list.
LEMMA FedStep ==
  ASSUME IInv, [Next]_vars
  PROVE  FedInv'
  <1> USE CountsAssumption DEF IInv, TypeOK, FedInv, mainVars, vector, workVars
  <1>1. CASE Enqueue
    <2>1. fed' = fed + 1 /\ fed \in Nat /\ mpc' = "enqueue"
      BY <1>1 DEF Enqueue
    <2>2. 1 .. fed' = (1 .. fed) \union {fed + 1}
      BY <2>1
    <2> QED BY <1>1, <2>1, <2>2, EnqueueEffect
  <1>2. CASE AllQueued \/ PushBack \/ Publish \/ CreateThread \/ AllSpawned \/
             ReadStatus \/ EndPass \/ Join \/ CreateXML \/ Return
    BY <1>2, UntouchedEffect DEF AllQueued, PushBack, Publish, CreateThread,
                                 AllSpawned, ReadStatus, EndPass, Join,
                                 CreateXML, Return
  <1>3. ASSUME NEW t \in Workers, Worker(t) PROVE FedInv'
    <2>1. CASE TryPop(t)
      <3>1. CASE queue = <<>>
        BY <2>1, <3>1, UntouchedEffect DEF TryPop
      <3>2. CASE queue # <<>>
        BY <2>1, <3>2, PopEffect DEF TryPop
      <3> QED BY <3>1, <3>2
    <2>2. CASE Skip(t)
      BY <2>2, ReleaseActions DEF Skip
    <2>3. CASE TokenLost(t)
      BY <2>3, ReleaseActions DEF TokenLost
    <2>4. CASE EndTransfer(t)
      BY <2>4, ReleaseActions DEF EndTransfer
    <2>5. CASE Login(t) \/ Starting(t) \/ CountDown(t) \/ Transfer(t) \/
               Progress(t) \/ Finish(t)
      BY <2>5, UntouchedEffect DEF Login, Starting, CountDown, Transfer,
                                   Progress, Finish
    <2> QED BY <1>3, <2>1, <2>2, <2>3, <2>4, <2>5 DEF Worker
  <1>4. CASE UNCHANGED vars
    BY <1>4, UntouchedEffect DEF vars
  <1> QED BY <1>1, <1>2, <1>3, <1>4 DEF Next, Main, Terminated

\* Two threads never get the same file from dlQueue.
LEMMA ExclusiveStep ==
  ASSUME IInv, [Next]_vars
  PROVE  ExclusiveFiles'
  <1> USE CountsAssumption
      DEF IInv, TypeOK, ExclusiveFiles, mainVars, vector, workVars
  <1>1. CASE Enqueue
    <2>1. Queued' = Queued \union {fed + 1} /\ Held' = Held /\ Injective(queue')
      BY <1>1, EnqueueEffect DEF Injective
    <2>2. fed + 1 \notin Held
      BY DEF FedInv
    <2>3. UNCHANGED cur
      BY <1>1 DEF Enqueue
    <2> QED BY <2>1, <2>2, <2>3 DEF Injective, Holding
  <1>2. CASE AllQueued \/ PushBack \/ Publish \/ CreateThread \/ AllSpawned \/
             ReadStatus \/ EndPass \/ Join \/ CreateXML \/ Return
    BY <1>2, UntouchedEffect DEF AllQueued, PushBack, Publish, CreateThread,
                                 AllSpawned, ReadStatus, EndPass, Join,
                                 CreateXML, Return, Holding
  <1>3. ASSUME NEW t \in Workers, Worker(t) PROVE ExclusiveFiles'
    <2>1. CASE TryPop(t)
      <3>1. CASE queue = <<>>
        BY <2>1, <3>1, UntouchedEffect DEF TryPop, Holding
      <3>2. CASE queue # <<>>
        <4>1. /\ Queued = {Head(queue)} \union Queued' /\ Head(queue) \notin Queued'
              /\ Held' = Held \union {Head(queue)} /\ Head(queue) \notin Held
              /\ Injective(queue')
          BY <2>1, <3>2, PopEffect DEF Injective
        <4>2. \A w \in Workers : cur'[w] = IF w = t THEN Head(queue) ELSE cur[w]
          BY <2>1, <3>2 DEF TryPop
        <4>3. \A w \in Workers : Holding(w) => cur[w] # Head(queue)
          BY <4>1 DEF Held
        <4> QED BY <4>1, <4>2, <4>3 DEF Injective, Holding
      <3> QED BY <3>1, <3>2
    <2>2. CASE Skip(t)
      <3>1. Queued' = Queued /\ Held' = Held \ {cur[t]} /\ queue' = queue
        BY <2>2, ReleaseActions DEF Skip
      <3>2. \A w \in Workers : cur'[w] = IF w = t THEN NoFile ELSE cur[w]
        BY <2>2 DEF Skip
      <3> QED BY <3>1, <3>2 DEF Holding
    <2>3. CASE TokenLost(t)
      <3>1. Queued' = Queued /\ Held' = Held \ {cur[t]} /\ queue' = queue
        BY <2>3, ReleaseActions DEF TokenLost
      <3>2. \A w \in Workers : cur'[w] = IF w = t THEN NoFile ELSE cur[w]
        BY <2>3 DEF TokenLost
      <3> QED BY <3>1, <3>2 DEF Holding
    <2>4. CASE EndTransfer(t)
      <3>1. Queued' = Queued /\ Held' = Held \ {cur[t]} /\ queue' = queue
        BY <2>4, ReleaseActions DEF EndTransfer
      <3>2. \A w \in Workers : cur'[w] = IF w = t THEN NoFile ELSE cur[w]
        BY <2>4 DEF EndTransfer
      <3> QED BY <3>1, <3>2 DEF Holding
    <2>5. CASE Login(t) \/ Starting(t) \/ CountDown(t) \/ Transfer(t) \/
               Progress(t) \/ Finish(t)
      BY <2>5, UntouchedEffect DEF Login, Starting, CountDown, Transfer,
                                   Progress, Finish, Holding
    <2> QED BY <1>3, <2>1, <2>2, <2>3, <2>4, <2>5 DEF Worker
  <1>4. CASE UNCHANGED vars
    BY <1>4, UntouchedEffect DEF vars, Holding
  <1> QED BY <1>1, <1>2, <1>3, <1>4 DEF Next, Main, Terminated

\* Once a thread has found dlQueue empty it stays empty.
LEMMA EmptyStep ==
  ASSUME IInv, [Next]_vars
  PROVE  EmptyInv'
  <1> USE CountsAssumption
      DEF IInv, TypeOK, SpawnInv, EmptyInv, mainVars, vector, workVars, Goto,
          At, Workers, NumThreads, WorkerPC
  <1>1. CASE Enqueue \/ AllQueued \/ PushBack \/ Publish \/ CreateThread \/
             AllSpawned \/ ReadStatus \/ EndPass \/ Join \/ CreateXML \/ Return
    BY <1>1 DEF Enqueue, AllQueued, PushBack, Publish, CreateThread, AllSpawned,
                ReadStatus, EndPass, Join, CreateXML, Return
  <1>2. ASSUME NEW t \in Workers, Worker(t) PROVE EmptyInv'
    BY <1>2 DEF Worker, Login, TryPop, Starting, CountDown, Skip, TokenLost,
                Transfer, Progress, EndTransfer, Finish
  <1>3. CASE UNCHANGED vars
    BY <1>3 DEF vars
  <1> QED BY <1>1, <1>2, <1>3 DEF Next, Main, Terminated

\* Only join() lets the main thread past the threads.
LEMMA ClearedStep ==
  ASSUME IInv, [Next]_vars
  PROVE  ClearedAfterThreads'
  <1> USE CountsAssumption
      DEF IInv, TypeOK, SpawnInv, ClearedAfterThreads, mainVars, vector,
          workVars, Goto, At, Gone, Workers, NumThreads, WorkerPC
  <1>1. CASE Enqueue \/ AllQueued \/ PushBack \/ Publish \/ CreateThread \/
             AllSpawned \/ ReadStatus \/ EndPass \/ Join \/ CreateXML \/ Return
    BY <1>1 DEF Enqueue, AllQueued, PushBack, Publish, CreateThread, AllSpawned,
                ReadStatus, EndPass, Join, CreateXML, Return
  <1>2. ASSUME NEW t \in Workers, Worker(t) PROVE ClearedAfterThreads'
    BY <1>2 DEF Worker, Login, TryPop, Starting, CountDown, Skip, TokenLost,
                Transfer, Progress, EndTransfer, Finish
  <1>3. CASE UNCHANGED vars
    BY <1>3 DEF vars
  <1> QED BY <1>1, <1>2, <1>3 DEF Next, Main, Terminated

\* A nonempty dlQueue at the end means that every thread aborted.
LEMMA LeftStep ==
  ASSUME IInv, [Next]_vars
  PROVE  NothingLeftBehind'
  <1> USE CountsAssumption
      DEF IInv, TypeOK, SpawnInv, EmptyInv, ClearedAfterThreads,
          NothingLeftBehind, mainVars, vector, workVars, Goto, At, Gone,
          Workers, NumThreads, WorkerPC
  <1>1. CASE Enqueue \/ PushBack \/ Publish \/ CreateThread \/ AllSpawned \/
             ReadStatus \/ EndPass
    <2>1. mpc' \notin {"xml", "done"}
      BY <1>1 DEF Enqueue, PushBack, Publish, CreateThread, AllSpawned,
                  ReadStatus, EndPass
    <2> QED BY <2>1
  <1>2. CASE AllQueued
    BY <1>2 DEF AllQueued
  <1>3. CASE Join
    BY <1>3 DEF Join
  <1>4. CASE CreateXML \/ Return
    BY <1>4 DEF CreateXML, Return
  <1>5. ASSUME NEW t \in Workers, Worker(t) PROVE NothingLeftBehind'
    BY <1>5 DEF Worker, Login, TryPop, Starting, CountDown, Skip, TokenLost,
                Transfer, Progress, EndTransfer, Finish
  <1>6. CASE UNCHANGED vars
    BY <1>6 DEF vars
  <1> QED BY <1>1, <1>2, <1>3, <1>4, <1>5, <1>6 DEF Next, Main, Terminated

\* Only a file that was given back is queued for XML creation.
LEMMA XMLStep ==
  ASSUME IInv, [Next]_vars
  PROVE  XMLInv'
  <1> USE CountsAssumption DEF IInv, TypeOK, XMLInv, mainVars, vector, workVars
  <1>1. CASE Enqueue
    <2>1. Elements(xmlQueue) = {} /\ Elements(xmlQueue') = {}
      BY <1>1 DEF Enqueue, Elements
    <2> QED BY <1>1, <2>1 DEF Enqueue
  <1>2. CASE CreateXML
    <2>1. Elements(xmlQueue') \subseteq Elements(xmlQueue)
      BY <1>2, TailElements DEF CreateXML
    <2>2. Queued' = Queued /\ Held' = Held
      BY <1>2, UntouchedEffect DEF CreateXML
    <2> QED BY <1>2, <2>1, <2>2 DEF CreateXML
  <1>3. CASE AllQueued \/ PushBack \/ Publish \/ CreateThread \/ AllSpawned \/
             ReadStatus \/ EndPass \/ Join \/ Return
    BY <1>3, UntouchedEffect DEF AllQueued, PushBack, Publish, CreateThread,
                                 AllSpawned, ReadStatus, EndPass, Join, Return
  <1>4. ASSUME NEW t \in Workers, Worker(t) PROVE XMLInv'
    <2>1. CASE TryPop(t)
      <3>1. Queued' \union Held' = Queued \union Held
        <4>1. CASE queue = <<>>
          BY <2>1, <4>1, UntouchedEffect DEF TryPop
        <4>2. CASE queue # <<>>
          BY <2>1, <4>2, PopEffect DEF TryPop
        <4> QED BY <4>1, <4>2
      <3> QED BY <2>1, <3>1 DEF TryPop
    <2>2. CASE Skip(t)
      BY <2>2, ReleaseActions DEF Skip
    <2>3. CASE TokenLost(t)
      BY <2>3, ReleaseActions DEF TokenLost
    <2>4. CASE EndTransfer(t)
      <3>1. Queued' = Queued /\ Held' = Held \ {cur[t]} /\ cur[t] \in Held
        BY <2>4, ReleaseActions
      <3>2. Elements(xmlQueue') \subseteq Elements(xmlQueue) \union {cur[t]}
        <4>1. \/ xmlQueue' = xmlQueue
              \/ cur[t] \in XMLFiles /\ xmlQueue' = Append(xmlQueue, cur[t])
          BY <2>4, Zenon DEF EndTransfer
        <4>2. xmlQueue \in Seq(Files)
          OBVIOUS
        <4>3. cur[t] \in XMLFiles => cur[t] \in Files
          BY XMLAssumption
        <4>4. cur[t] \in Files =>
                 Elements(Append(xmlQueue, cur[t])) = Elements(xmlQueue) \union {cur[t]}
          <5> HIDE DEF IInv
          <5> QED BY <4>2, AppendElements
        <4> HIDE DEF IInv
        <4> QED BY <4>1, <4>3, <4>4
      <3>3. cur[t] \in 1 .. fed /\ cur[t] \notin Queued
        BY <3>1 DEF FedInv, ExclusiveFiles
      <3>4. mpc' = mpc /\ mpc # "enqueue" /\ xmls' = xmls /\ fed' = fed
        BY <2>4 DEF EndTransfer, SpawnInv, At, Workers
      <3> QED BY <3>1, <3>2, <3>3, <3>4
    <2>5. CASE Login(t) \/ Starting(t) \/ CountDown(t) \/ Transfer(t) \/
               Progress(t) \/ Finish(t)
      BY <2>5, UntouchedEffect DEF Login, Starting, CountDown, Transfer,
                                   Progress, Finish
    <2> QED BY <1>4, <2>1, <2>2, <2>3, <2>4, <2>5 DEF Worker
  <1>5. CASE UNCHANGED vars
    BY <1>5, UntouchedEffect DEF vars
  <1> QED BY <1>1, <1>2, <1>3, <1>4, <1>5 DEF Next, Main, Terminated

--------------------------------------------------------------------------------
(* The counter *)

Accounted == Queued \union Uncounted

\* A file popped and not yet subtracted is held.
LEMMA UncountedHeld ==
  ASSUME IInv
  PROVE  /\ Uncounted \subseteq Held
         /\ Accounted \subseteq Files
         /\ \A t \in Workers : pc[t] \in {"popped", "starting"} => cur[t] \in Uncounted
  <1>1. Uncounted \subseteq Held
    BY DEF Uncounted, Held, IInv, HoldInv
  <1>2. Queued \subseteq Files /\ Held \subseteq Files
    BY CountsAssumption DEF IInv, FedInv, TypeOK, Files
  <1> QED BY <1>1, <1>2 DEF Accounted, Uncounted

\* A step that leaves the queue, the held files and the threads between
\* try_pop and the subtraction alone.
LEMMA UncountedSame ==
  ASSUME queue' = queue, remaining' = remaining,
         \A t \in Workers :
           /\ pc'[t] \in {"popped", "starting"} <=> pc[t] \in {"popped", "starting"}
           /\ pc[t] \in {"popped", "starting"} => cur'[t] = cur[t]
  PROVE  Accounted' = Accounted /\ remaining' = remaining
  <1>1. Queued' = Queued
    BY DEF Queued
  <1>2. Uncounted' = Uncounted
    BY DEF Uncounted
  <1> QED BY <1>1, <1>2 DEF Accounted

LEMMA EnqueueCounts ==
  ASSUME IInv, Enqueue
  PROVE  /\ fed + 1 \in Files /\ fed + 1 \notin Accounted
         /\ Accounted' = Accounted \union {fed + 1}
         /\ remaining' = remaining + Size[fed + 1]
  <1>1. Queued' = Queued \union {fed + 1} /\ fed + 1 \in Files /\ fed + 1 \notin Queued
    BY EnqueueEffect
  <1>2. fed + 1 \notin Uncounted
    <2>1. Held \subseteq 1 .. fed /\ fed \in Nat
      BY DEF IInv, FedInv, TypeOK
    <2> QED BY <2>1, UncountedHeld
  <1>3. Uncounted' = Uncounted
    BY DEF Enqueue, workVars, Uncounted
  <1> QED BY <1>1, <1>2, <1>3 DEF Accounted, Enqueue

LEMMA PopCounts ==
  ASSUME IInv, NEW t \in Workers, TryPop(t)
  PROVE  Accounted' = Accounted /\ remaining' = remaining
  <1>1. /\ pc[t] = "loop" /\ remaining' = remaining
        /\ pc \in [Workers -> WorkerPC] /\ cur \in [Workers -> Files \union {NoFile}]
    BY DEF TryPop, At, IInv, TypeOK
  <1>2. CASE queue = <<>>
    <2>1. queue' = queue /\ cur' = cur /\ pc' = [pc EXCEPT ![t] = "cleanup"]
      BY <1>2 DEF TryPop, Goto
    <2> QED BY <1>1, <2>1, UncountedSame
  <1>3. CASE queue # <<>>
    <2> DEFINE h == Head(queue)
    <2>1. Queued = {h} \union Queued'
      BY <1>3, PopEffect
    <2>2. cur' = [cur EXCEPT ![t] = h] /\ pc' = [pc EXCEPT ![t] = "popped"]
      BY <1>3 DEF TryPop, Goto
    <2> HIDE DEF h
    <2>3. \A w \in Workers : /\ pc'[w] = IF w = t THEN "popped" ELSE pc[w]
                             /\ cur'[w] = IF w = t THEN h ELSE cur[w]
      BY <1>1, <2>2
    <2>4. Uncounted' = Uncounted \union {h}
      BY <1>1, <2>3 DEF Uncounted
    <2> QED BY <1>1, <2>1, <2>4 DEF Accounted
  <1> QED BY <1>2, <1>3

LEMMA CountDownCounts ==
  ASSUME IInv, NEW t \in Workers, CountDown(t)
  PROVE  /\ cur[t] \in Accounted
         /\ Accounted' = Accounted \ {cur[t]}
         /\ remaining' = remaining - Size[cur[t]]
  <1>1. /\ pc[t] = "starting" /\ queue' = queue /\ cur' = cur
        /\ pc' = [pc EXCEPT ![t] = "prepare"]
        /\ pc \in [Workers -> WorkerPC]
        /\ remaining' = remaining - Size[cur[t]]
    BY DEF CountDown, At, Goto, IInv, TypeOK
  <1>2. cur[t] \in Uncounted /\ cur[t] \in Held
    BY <1>1, UncountedHeld
  <1>3. cur[t] \notin Queued
    BY <1>2 DEF IInv, ExclusiveFiles
  <1>4. \A w \in Workers : pc[w] \in {"popped", "starting"} /\ cur[w] = cur[t] => w = t
    BY <1>1 DEF IInv, ExclusiveFiles, HoldInv
  <1>5. \A w \in Workers : pc'[w] = IF w = t THEN "prepare" ELSE pc[w]
    BY <1>1
  <1>6. Uncounted' = Uncounted \ {cur[t]}
    BY <1>1, <1>4, <1>5 DEF Uncounted
  <1>7. Queued' = Queued
    BY <1>1 DEF Queued
  <1> QED BY <1>1, <1>2, <1>3, <1>6, <1>7 DEF Accounted

\* Every other step leaves the counter and what it stands for alone.
LEMMA OthersCount ==
  ASSUME IInv, [Next]_vars, ~ Enqueue, \A t \in Workers : ~ CountDown(t)
  PROVE  Accounted' = Accounted /\ remaining' = remaining
  <1>1. CASE AllQueued \/ PushBack \/ Publish \/ AllSpawned \/ ReadStatus \/ EndPass \/
             Join \/ CreateXML \/ Return
    <2>1. UNCHANGED <<queue, remaining, workVars>>
      BY <1>1, Zenon DEF AllQueued, PushBack, Publish, AllSpawned, ReadStatus, EndPass,
                         Join, CreateXML, Return
    <2> QED BY <2>1, UncountedSame DEF workVars
  <1>2. CASE CreateThread
    <2>1. /\ queue' = queue /\ remaining' = remaining /\ cur' = cur
          /\ pc' = [pc EXCEPT ![spawned] = "init"]
      BY <1>2 DEF CreateThread, Goto
    <2>2. spawned \in Workers => pc[spawned] = "none"
      BY CountsAssumption DEF IInv, SpawnInv, At, TypeOK, Workers
    <2>3. \A w \in Workers : pc'[w] = IF w = spawned THEN "init" ELSE pc[w]
      BY <2>1 DEF IInv, TypeOK
    <2> QED BY <2>1, <2>2, <2>3, UncountedSame
  <1>3. ASSUME NEW t \in Workers, Worker(t)
        PROVE  Accounted' = Accounted /\ remaining' = remaining
    <2>1. CASE TryPop(t)
      BY <2>1, PopCounts
    <2>2. CASE Starting(t)
      <3>1. /\ queue' = queue /\ remaining' = remaining /\ cur' = cur /\ pc[t] = "popped"
            /\ pc' = [pc EXCEPT ![t] = "starting"]
        BY <2>2 DEF Starting, Goto, At
      <3> QED BY <3>1, UncountedSame DEF IInv, TypeOK
    <2>3. CASE Progress(t)
      BY <2>3, UncountedSame DEF Progress, workVars
    <2>4. CASE Login(t) \/ Transfer(t) \/ Finish(t)
      <3>1. /\ queue' = queue /\ remaining' = remaining /\ cur' = cur
            /\ pc[t] \notin {"popped", "starting"}
            /\ \E label \in WorkerPC \ {"popped", "starting"} : pc' = [pc EXCEPT ![t] = label]
        BY <2>4 DEF Login, Transfer, Finish, Goto, At, WorkerPC
      <3> QED BY <3>1, UncountedSame DEF IInv, TypeOK
    <2>5. CASE Skip(t) \/ TokenLost(t) \/ EndTransfer(t)
      <3>1. /\ queue' = queue /\ remaining' = remaining
            /\ cur' = [cur EXCEPT ![t] = NoFile]
            /\ pc[t] \notin {"popped", "starting"}
            /\ \E label \in WorkerPC \ {"popped", "starting"} : pc' = [pc EXCEPT ![t] = label]
        BY <2>5 DEF Skip, TokenLost, EndTransfer, Goto, At, WorkerPC
      <3> QED BY <3>1, UncountedSame DEF IInv, TypeOK
    <2> QED BY <1>3, <2>1, <2>2, <2>3, <2>4, <2>5 DEF Worker
  <1>4. CASE UNCHANGED vars
    BY <1>4, UncountedSame DEF vars, workVars
  <1> QED BY <1>1, <1>2, <1>3, <1>4 DEF Next, Main, Terminated

\* The sizes to be added up, by any of the files and the rest.
LEMMA SizeSum ==
  /\ SumOver(Size, {}) = 0
  /\ \A S \in SUBSET Files :
       /\ SumOver(Size, S) \in Int
       /\ \A f \in S : SumOver(Size, S) = Size[f] + SumOver(Size, S \ {f})
  <1>1. IsFiniteSet(Files)
    BY CountsAssumption, FS_Interval DEF Files
  <1>2. Size \in [Files -> Int]
    BY SizeAssumption
  <1> QED BY <1>1, <1>2, SumFacts

Bytes == remaining = SumOver(Size, Accounted)

LEMMA BytesStep ==
  ASSUME IInv, Bytes, [Next]_vars
  PROVE  Bytes'
  <1> DEFINE Sum(S) == SumOver(Size, S)
  <1>0. Accounted \in SUBSET Files /\ Size \in [Files -> Nat]
    BY UncountedHeld, SizeAssumption
  <1>1. CASE Enqueue
    <2> DEFINE f == fed + 1
    <2>1. /\ f \in Files /\ f \notin Accounted
          /\ Accounted' = Accounted \union {f}
          /\ remaining' = remaining + Size[f]
      BY <1>1, EnqueueCounts
    <2> HIDE DEF f
    <2>2. (Accounted \union {f}) \in SUBSET Files /\ (Accounted \union {f}) \ {f} = Accounted
      BY <1>0, <2>1
    <2>3. SumOver(Size, Accounted \union {f}) = Size[f] + SumOver(Size, Accounted)
      BY <2>2, SizeSum
    <2>4. SumOver(Size, Accounted) \in Int /\ Size[f] \in Int
      BY <1>0, <2>1, SizeSum
    <2>5. remaining' = SumOver(Size, Accounted')
      BY <2>1, <2>3, <2>4 DEF Bytes
    <2> QED BY <2>5 DEF Bytes
  <1>2. CASE \E t \in Workers : CountDown(t)
    <2>1. PICK t \in Workers : CountDown(t)
      BY <1>2
    <2>2. PICK f : f = cur[t]
      OBVIOUS
    <2>3. f \in Accounted /\ Accounted' = Accounted \ {f} /\ remaining' = remaining - Size[f]
      BY <2>1, <2>2, CountDownCounts
    <2>4. SumOver(Size, Accounted) = Size[f] + SumOver(Size, Accounted \ {f})
      BY <1>0, <2>3, SizeSum
    <2>5. SumOver(Size, Accounted \ {f}) \in Int /\ Size[f] \in Int
      BY <1>0, <2>3, SizeSum
    <2>6. remaining' = SumOver(Size, Accounted')
      BY <2>3, <2>4, <2>5 DEF Bytes
    <2> QED BY <2>6 DEF Bytes
  <1>3. CASE ~ Enqueue /\ \A t \in Workers : ~ CountDown(t)
    BY <1>3, OthersCount DEF Bytes
  <1> QED BY <1>1, <1>2, <1>3

--------------------------------------------------------------------------------
(* The theorems *)

\* The inductive invariant holds before download() queues its first file.
LEMMA InitInv ==
  ASSUME Init
  PROVE  IInv
  <1> USE CountsAssumption DEF Init
  <1>1. Queued = {} /\ Held = {} /\ Elements(xmlQueue) = {}
    BY DEF Queued, Held, Holding, Elements
  <1>2. TypeOK
    BY DEF TypeOK, Files, NumThreads, Status, NOTSTARTED, MainPC, WorkerPC, NoFile
  <1>3. SpawnInv /\ HoldInv /\ EmptyInv
    BY DEF SpawnInv, HoldInv, EmptyInv, At, Holding, NoFile, Workers
  <1>4. FedInv /\ XMLInv
    BY <1>1 DEF FedInv, XMLInv
  <1>5. ExclusiveFiles
    BY <1>1 DEF ExclusiveFiles, Holding
  <1>6. ClearedAfterThreads /\ NothingLeftBehind
    BY DEF ClearedAfterThreads, NothingLeftBehind
  <1> QED BY <1>2, <1>3, <1>4, <1>5, <1>6 DEF IInv

\* Every step of the main thread or of a worker keeps the inductive invariant.
LEMMA NextInv ==
  ASSUME IInv, [Next]_vars
  PROVE  IInv'
  BY TypeStep, SpawnStep, HoldStep, FedStep, ExclusiveStep, EmptyStep,
     ClearedStep, LeftStep, XMLStep
  DEF IInv

\* The inductive invariant holds throughout.
THEOREM Inductive == Spec => []IInv
  <1>1. Init => IInv
    BY InitInv
  <1>2. IInv /\ [Next]_vars => IInv'
    BY NextInv
  <1> QED BY <1>1, <1>2, PTL DEF Spec

\* Every variable of download() keeps its type: in particular no thread ever
\* indexes vDownloadInfo or the file list out of range.
THEOREM TypeCorrect == Spec => []TypeOK
  <1>1. IInv => TypeOK
    BY DEF IInv
  <1> QED BY <1>1, Inductive, PTL

\* No file is given to two threads, whatever the interleaving.
THEOREM NoFileTwice == Spec => []ExclusiveFiles
  <1>1. IInv => ExclusiveFiles
    BY DEF IInv
  <1> QED BY <1>1, Inductive, PTL

\* The counter is the sum of the sizes of what it stands for.
LEMMA BytesInductive == Spec => [](IInv /\ Bytes)
  <1>1. Init => Bytes
    <2> SUFFICES ASSUME Init PROVE Bytes
      OBVIOUS
    <2>1. Accounted = {} /\ remaining = 0
      BY DEF Init, Accounted, Queued, Uncounted
    <2> QED BY <2>1, SizeSum DEF Bytes
  <1>2. IInv /\ Bytes /\ [Next]_vars => Bytes'
    BY BytesStep
  <1> QED BY Inductive, <1>1, <1>2, PTL DEF Spec

\* iTotalRemainingBytes never counts a byte twice or loses one: it is the size
\* of the files not yet begun, whatever the order in which the threads pop and
\* subtract.
THEOREM BytesCorrect == Spec => []BytesAccounted
  <1>1. Bytes => BytesAccounted
    BY DEF Bytes, BytesAccounted, Accounted, SumOver
  <1> QED BY BytesInductive, <1>1, PTL

\* So the unsigned counter never wraps below zero, although it is decreased
\* without being looked at (processDownloadQueue).
THEOREM NeverBelowZero == Spec => [](remaining >= 0)
  <1>1. IInv /\ Bytes => remaining >= 0
    <2> SUFFICES ASSUME IInv, Bytes PROVE remaining \in Nat
      OBVIOUS
    <2>1. IsFiniteSet(Files)
      BY CountsAssumption, FS_Interval DEF Files
    <2>2. SumOver(Size, Accounted) \in Nat
      BY <2>1, SizeAssumption, UncountedHeld, SumNat
    <2> QED BY <2>2 DEF Bytes
  <1> QED BY BytesInductive, <1>1, PTL

\* download() leaves a file in dlQueue only if every thread lost its login.
THEOREM LeftOnlyByAborted == Spec => []NothingLeftBehind
  <1>1. IInv => NothingLeftBehind
    BY DEF IInv
  <1> QED BY <1>1, Inductive, PTL

\* vDownloadInfo is cleared and XML is created only after the last thread,
\* even though the print loop may end early.
THEOREM ThreadsJoined == Spec => []ClearedAfterThreads
  <1>1. IInv => ClearedAfterThreads
    BY DEF IInv
  <1> QED BY <1>1, Inductive, PTL
--------------------------------------------------------------------------------
(* Refinement of WorkLedger *)

\* Before the first file is queued every file is waiting.
LEMMA LedgerInit == Init => Ledger!Init
  <1> SUFFICES ASSUME Init PROVE Ledger!Init
    OBVIOUS
  <1> USE CountsAssumption
  <1>1. Queued = {} /\ Held = {} /\ fed = 0 /\ xmls = {} /\ mpc = "enqueue"
    BY DEF Init, Queued, Held, Holding
  <1>2. 1 .. fed = {} /\ (fed + 1) .. NFiles = Files
    BY <1>1 DEF Files
  <1> QED BY <1>1, <1>2 DEF Ledger!Init

\* A step that leaves the abstract variables alone.
LEMMA LedgerStutter ==
  ASSUME Queued' = Queued, Held' = Held, fed' = fed, xmls' = xmls,
         (mpc \in {"xml", "done", "exit"})' = (mpc \in {"xml", "done", "exit"})
  PROVE  UNCHANGED Ledger!ledger
  BY DEF Ledger!ledger

\* Every step is a step of the ledger or leaves it alone.
LEMMA LedgerStep ==
  ASSUME IInv, [Next]_vars
  PROVE  [Ledger!Next]_(Ledger!ledger)
  <1> USE CountsAssumption DEF mainVars, vector, workVars
  <1>a. /\ fed \in 0 .. NFiles /\ mpc \in MainPC
        /\ Queued \subseteq 1 .. fed /\ Held \subseteq 1 .. fed
        /\ Held \intersect Queued = {}
        /\ Elements(xmlQueue) \subseteq (1 .. fed) \ (Queued \union Held)
    BY DEF IInv, TypeOK, FedInv, ExclusiveFiles, XMLInv
  <1>1. CASE Enqueue
    <2>1. /\ Queued' = Queued \union {fed + 1} /\ Held' = Held
          /\ fed + 1 \in Files /\ fed' = fed + 1 /\ mpc' = mpc /\ xmls' = xmls
      BY <1>1, EnqueueEffect DEF Enqueue
    <2>2. ((fed' + 1) .. NFiles) \union Queued' = ((fed + 1) .. NFiles) \union Queued
      BY <1>a, <2>1 DEF Files
    <2>3. (1 .. fed') \ (Queued' \union Held') = (1 .. fed) \ (Queued \union Held)
      BY <1>a, <2>1
    <2> QED BY <2>1, <2>2, <2>3 DEF Ledger!ledger
  <1>2. CASE AllQueued
    <2>1. UNCHANGED <<queue, cur, fed, xmls>> /\ mpc = "enqueue"
          /\ (mpc' = "spawn" \/ mpc' \in {"xml", "exit"})
      BY <1>2 DEF AllQueued
    <2>2. Queued' = Queued /\ Held' = Held
      BY <2>1, UntouchedEffect
    <2>3. Held = {}
      <3>1. \A t \in Workers : pc[t] = "none"
        BY <2>1 DEF IInv, SpawnInv, At, Workers
      <3>2. \A t \in Workers : ~Holding(t)
        BY <3>1 DEF IInv, HoldInv
      <3> QED BY <3>2 DEF Held
    <2>4. CASE mpc' = "spawn"
      BY <2>1, <2>2, <2>4, LedgerStutter
    <2>5. CASE mpc' \in {"xml", "exit"}
      BY <2>1, <2>2, <2>3, <2>5 DEF Ledger!Next, Ledger!Close
    <2> QED BY <2>1, <2>4, <2>5
  <1>3. CASE PushBack \/ Publish \/ CreateThread \/ AllSpawned \/ ReadStatus \/ EndPass
    <2>1. UNCHANGED <<queue, cur, fed, xmls>> /\ mpc \notin {"xml", "done", "exit"}
          /\ mpc' \notin {"xml", "done", "exit"}
      BY <1>3 DEF PushBack, Publish, CreateThread, AllSpawned, ReadStatus, EndPass
    <2> QED BY <2>1, UntouchedEffect, LedgerStutter
  <1>4. CASE Join
    <2>1. UNCHANGED <<queue, cur, fed, xmls>> /\ mpc' = "xml"
      BY <1>4 DEF Join
    <2>2. Queued' = Queued /\ Held' = Held
      BY <2>1, UntouchedEffect
    <2>3. ASSUME NEW t \in Workers PROVE ~Holding(t)
      <3>1. At(t, "none") \/ t \in 0 .. spawned - 1
        BY DEF IInv, SpawnInv, TypeOK, Workers, NumThreads
      <3>2. At(t, "none") \/ Gone(t)
        BY <3>1, <1>4 DEF Join
      <3> QED BY <3>2 DEF IInv, HoldInv, At, Gone
    <2>4. Held = {}
      BY <2>3 DEF Held
    <2> QED BY <2>1, <2>2, <2>4 DEF Ledger!Next, Ledger!Close
  <1>5. CASE CreateXML
    <2> DEFINE f == Head(xmlQueue)
    <2>1. f \in Elements(xmlQueue)
      BY <1>5, TailElements DEF CreateXML, IInv, TypeOK
    <2>2. UNCHANGED <<queue, cur, fed, mpc>> /\ mpc = "xml" /\ xmls' = xmls \union {f}
      BY <1>5 DEF CreateXML
    <2>3. Queued' = Queued /\ Held' = Held
      BY <2>2, UntouchedEffect
    <2>4. f \in Files
      BY <1>a, <2>1 DEF Files
    <2>5. Ledger!Describe(f)
      BY <1>a, <2>1, <2>2, <2>3 DEF Ledger!Describe
    <2> QED BY <2>4, <2>5 DEF Ledger!Next
  <1>6. CASE Return
    <2>1. UNCHANGED <<queue, cur, fed, xmls>> /\ mpc = "xml" /\ mpc' = "done"
      BY <1>6 DEF Return
    <2> QED BY <2>1, UntouchedEffect, LedgerStutter
  <1>7. ASSUME NEW t \in Workers, Worker(t) PROVE [Ledger!Next]_(Ledger!ledger)
    <2>1. UNCHANGED <<mpc, fed, xmls>>
      BY <1>7 DEF Worker, Login, TryPop, Starting, CountDown, Skip, TokenLost,
                  Transfer, Progress, EndTransfer, Finish
    <2>2. CASE TryPop(t) /\ queue # <<>>
      <3> DEFINE f == Head(queue)
      <3>1. mpc \notin {"xml", "done", "exit"}
        BY <2>2 DEF IInv, ClearedAfterThreads, Gone, At, TryPop
      <3>2. /\ f \in Files /\ Queued = {f} \union Queued' /\ f \notin Queued'
            /\ Held' = Held \union {f} /\ f \notin Held
        BY <2>2, PopEffect
      <3>3. f \notin (fed + 1) .. NFiles
        BY <1>a, <3>2
      <3>4. Ledger!Take(f)
        BY <1>a, <2>1, <3>1, <3>2, <3>3 DEF Ledger!Take
      <3> QED BY <3>2, <3>4 DEF Ledger!Next
    <2>3. CASE Skip(t) \/ TokenLost(t) \/ EndTransfer(t)
      <3> DEFINE f == cur[t]
      <3>1. Queued' = Queued /\ Held' = Held \ {f} /\ f \in Held
        BY <2>3, ReleaseActions
      <3>2. f \notin Queued /\ f \in 1 .. fed
        BY <1>a, <3>1
      <3>5. f \in Files
        BY <1>a, <3>2 DEF Files
      <3>3. (1 .. fed) \ (Queued' \union Held')
              = ((1 .. fed) \ (Queued \union Held)) \union {f}
        BY <3>1, <3>2
      <3>4. Ledger!Settle(f)
        BY <2>1, <3>1, <3>3 DEF Ledger!Settle
      <3> QED BY <3>5, <3>4 DEF Ledger!Next
    <2>4. CASE \/ TryPop(t) /\ queue = <<>>
               \/ Login(t) \/ Starting(t) \/ CountDown(t) \/ Transfer(t)
               \/ Progress(t) \/ Finish(t)
      <3>1. UNCHANGED <<queue, cur>>
        BY <2>4 DEF TryPop, Login, Starting, CountDown, Transfer, Progress, Finish
      <3> QED BY <2>1, <3>1, UntouchedEffect, LedgerStutter
    <2> QED BY <1>7, <2>2, <2>3, <2>4 DEF Worker
  <1>8. CASE UNCHANGED vars
    BY <1>8, UntouchedEffect, LedgerStutter DEF vars
  <1> QED
    BY <1>1, <1>2, <1>3, <1>4, <1>5, <1>6, <1>7, <1>8 DEF Next, Main, Terminated

\* The threads, the queues and the early end of the print loop are invisible
\* in what happens to the files: download() implements the ledger.
THEOREM Refinement == Spec => ImplementsLedger
  <1>1. IInv /\ [Next]_vars => [Ledger!Next]_(Ledger!ledger)
    BY LedgerStep
  <1> QED BY <1>1, LedgerInit, Inductive, PTL
    DEF Spec, ImplementsLedger, Ledger!Spec
================================================================================
