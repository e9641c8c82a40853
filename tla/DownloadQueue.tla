----------------------------- MODULE DownloadQueue -----------------------------
(***************************************************************************)
(* Downloader::download and its worker threads (processDownloadQueue,      *)
(* progressCallbackForThread), the queues they share (dlQueue,             *)
(* createXMLQueue), the counter iTotalRemainingBytes and the vector        *)
(* vDownloadInfo through which the workers tell printProgress what they    *)
(* do.  One action is one access to a shared object; what a worker does to *)
(* the file it holds is the subject of module FileDownload.  Log messages  *)
(* are left out.                                                           *)
(***************************************************************************)
EXTENDS Integers, Sequences, FiniteSets, FiniteSetsExt

CONSTANTS
  NFiles,          \* files in the list, in the order download() queues them
  Size,            \* Size[f]: gf.size as a number, 0 when it cannot be parsed
  XMLFiles,        \* files whose XML is created locally after the download
  Threads,         \* the option --threads (iThreads)
  Capacity,        \* capacity vDownloadInfo kept from its earlier users
  FreeSpaceCheck,  \* the option --check-free-space (bFreeSpaceCheck)
  FreeSpaces       \* what the target file system may report as available

Files == 1 .. NFiles
Workers == 0 .. Threads - 1

\* download() takes the minimum of iThreads and dlQueue.size() before any
\* thread runs, when dlQueue still holds the whole list.
NumThreads == IF Threads < NFiles THEN Threads ELSE NFiles

ASSUME CountsAssumption ==
  NFiles \in Nat /\ Threads \in Nat \ {0} /\ Capacity \in Nat
ASSUME SizeAssumption == Size \in [Files -> Nat]
ASSUME XMLAssumption == XMLFiles \subseteq Files
ASSUME SpaceAssumption ==
  FreeSpaceCheck \in BOOLEAN /\ FreeSpaces # {} /\ \A a \in FreeSpaces : a \in Nat

NOTSTARTED == 0
STARTING == 1
RUNNING == 2
FINISHED == 4
Status == {NOTSTARTED, STARTING, RUNNING, FINISHED}

NoFile == 0

VARIABLES
  \* the main thread
  mpc,         \* where download() is
  fed,         \* files pushed to dlQueue so far
  spawned,     \* threads created so far (vThreads.size())
  next,        \* index i of printProgress's loop over vDownloadInfo
  seen,        \* dl_status: the nonzero status bits or-ed in this pass
  xmls,        \* files Util::createXML was called for
  \* shared
  queue,       \* dlQueue
  remaining,   \* iTotalRemainingBytes
  xmlQueue,    \* createXMLQueue
  size,        \* vDownloadInfo.size()
  capacity,    \* vDownloadInfo.capacity()
  status,      \* the elements of vDownloadInfo
  copy,        \* their copies while push_back moves to a larger block
  \* the workers
  pc,          \* where each thread is
  cur          \* gf, the file each thread holds

mainVars == <<mpc, fed, spawned, next, seen, xmls>>
vector == <<size, capacity, copy>>
workVars == <<pc, cur>>
vars == <<mainVars, queue, remaining, xmlQueue, vector, status, workVars>>

MainPC == {"enqueue", "spawn", "realloc", "create", "print", "join", "xml",
           "done", "exit"}
WorkerPC == {"none", "init", "loop", "popped", "starting", "prepare",
             "transfer", "cleanup", "failing", "done", "aborted"}

Init ==
  /\ mpc = "enqueue" /\ fed = 0 /\ spawned = 0 /\ next = 0 /\ seen = {}
  /\ xmls = {}
  /\ queue = <<>> /\ remaining = 0 /\ xmlQueue = <<>>
  /\ size = 0 /\ capacity = Capacity
  /\ status = [t \in Workers |-> NOTSTARTED]
  /\ copy = status
  /\ pc = [t \in Workers |-> "none"]
  /\ cur = [t \in Workers |-> NoFile]

Goto(t, label) == pc' = [pc EXCEPT ![t] = label]
At(t, label) == pc[t] = label

Gone(t) == pc[t] \in {"done", "aborted"}
Holding(t) == cur[t] # NoFile
Queued == {queue[i] : i \in DOMAIN queue}
Held == {cur[t] : t \in {w \in Workers : Holding(w)}}

--------------------------------------------------------------------------------
(* The main thread: Downloader::download and printProgress *)

Enqueue ==
  /\ mpc = "enqueue" /\ fed < NFiles
  /\ fed' = fed + 1
  /\ queue' = Append(queue, fed + 1)
  /\ remaining' = remaining + Size[fed + 1]
  /\ UNCHANGED <<mpc, spawned, next, seen, xmls, xmlQueue, vector, status, workVars>>

EnoughSpace(available) == ~FreeSpaceCheck \/ available >= remaining

AllQueued ==
  /\ mpc = "enqueue" /\ fed = NFiles
  /\ \/ queue = <<>> /\ mpc' = "xml"
     \/ /\ queue # <<>>
        /\ \E available \in FreeSpaces :
             mpc' = IF EnoughSpace(available) THEN "spawn" ELSE "exit"
  /\ UNCHANGED <<fed, spawned, next, seen, xmls, queue, remaining, xmlQueue,
                 vector, status, workVars>>

\* vDownloadInfo.push_back: in place while the block has room; otherwise the
\* elements are copied to a larger block ...
PushBack ==
  /\ mpc = "spawn" /\ spawned < NumThreads
  /\ IF size < capacity
       THEN /\ status' = [status EXCEPT ![size] = NOTSTARTED]
            /\ size' = size + 1
            /\ mpc' = "create"
            /\ UNCHANGED copy
       ELSE /\ copy' = status
            /\ mpc' = "realloc"
            /\ UNCHANGED <<status, size>>
  /\ UNCHANGED <<fed, spawned, next, seen, xmls, queue, remaining, xmlQueue,
                 capacity, workVars>>

\* ... which then replaces the old one.  The threads already running write to
\* vDownloadInfo[tid] without a lock on the vector, so what they write after
\* their element was copied is lost.
Publish ==
  /\ mpc = "realloc"
  /\ status' = [copy EXCEPT ![size] = NOTSTARTED]
  /\ size' = size + 1
  /\ capacity' = IF capacity = 0 THEN 1 ELSE 2 * capacity
  /\ mpc' = "create"
  /\ UNCHANGED <<fed, spawned, next, seen, xmls, queue, remaining, xmlQueue,
                 copy, workVars>>

CreateThread ==
  /\ mpc = "create"
  /\ Goto(spawned, "init")
  /\ spawned' = spawned + 1
  /\ mpc' = "spawn"
  /\ UNCHANGED <<fed, next, seen, xmls, queue, remaining, xmlQueue, vector,
                 status, cur>>

AllSpawned ==
  /\ mpc = "spawn" /\ spawned = NumThreads
  /\ mpc' = "print"
  /\ UNCHANGED <<fed, spawned, next, seen, xmls, queue, remaining, xmlQueue,
                 vector, status, workVars>>

ReadStatus ==
  /\ mpc = "print" /\ next < size
  /\ seen' = seen \union ({status[next]} \ {NOTSTARTED})
  /\ next' = next + 1
  /\ UNCHANGED <<mpc, fed, spawned, xmls, queue, remaining, xmlQueue, vector,
                 status, workVars>>

\* while (dl_status != DLSTATUS_FINISHED)
EndPass ==
  /\ mpc = "print" /\ next = size
  /\ mpc' = IF seen = {FINISHED} THEN "join" ELSE "print"
  /\ next' = 0
  /\ seen' = {}
  /\ UNCHANGED <<fed, spawned, xmls, queue, remaining, xmlQueue, vector, status,
                 workVars>>

\* Mutant: the threads are detached instead of joined.
JoinDetached ==
  /\ mpc = "join"
  /\ size' = 0
  /\ mpc' = "xml"
  /\ UNCHANGED <<fed, spawned, next, seen, xmls, queue, remaining, xmlQueue,
                 capacity, copy, status, workVars>>

Join ==
  /\ mpc = "join"
  /\ \A t \in 0 .. spawned - 1 : Gone(t)
  /\ size' = 0
  /\ mpc' = "xml"
  /\ UNCHANGED <<fed, spawned, next, seen, xmls, queue, remaining, xmlQueue,
                 capacity, copy, status, workVars>>

CreateXML ==
  /\ mpc = "xml" /\ xmlQueue # <<>>
  /\ xmls' = xmls \union {Head(xmlQueue)}
  /\ xmlQueue' = Tail(xmlQueue)
  /\ UNCHANGED <<mpc, fed, spawned, next, seen, queue, remaining, vector, status,
                 workVars>>

Return ==
  /\ mpc = "xml" /\ xmlQueue = <<>>
  /\ mpc' = "done"
  /\ UNCHANGED <<fed, spawned, next, seen, xmls, queue, remaining, xmlQueue,
                 vector, status, workVars>>

Main ==
  \/ Enqueue \/ AllQueued \/ PushBack \/ Publish \/ CreateThread \/ AllSpawned
  \/ ReadStatus \/ EndPass \/ Join \/ CreateXML \/ Return

--------------------------------------------------------------------------------
(* A worker thread: Downloader::processDownloadQueue *)

\* Mutant: the new status is or-ed to the old one.
SetStatusBits(t, s) == status' = [status EXCEPT ![t] = IF @ = s THEN s ELSE @ + s]

SetStatus(t, s) == status' = [status EXCEPT ![t] = s]

\* galaxy->init(), and refreshLogin() when the token has expired
Login(t) ==
  /\ At(t, "init")
  /\ \E ok \in BOOLEAN : Goto(t, IF ok THEN "loop" ELSE "failing")
  /\ UNCHANGED <<mainVars, queue, remaining, xmlQueue, vector, status, cur>>

\* Mutant: front() without pop().
TryPopFront(t) ==
  /\ At(t, "loop")
  /\ IF queue # <<>> THEN cur' = [cur EXCEPT ![t] = Head(queue)] /\ Goto(t, "popped")
                     ELSE Goto(t, "cleanup") /\ UNCHANGED cur
  /\ UNCHANGED <<mainVars, queue, remaining, xmlQueue, vector, status>>

TryPop(t) ==
  /\ At(t, "loop")
  /\ IF queue # <<>>
       THEN /\ cur' = [cur EXCEPT ![t] = Head(queue)]
            /\ queue' = Tail(queue)
            /\ Goto(t, "popped")
       ELSE /\ Goto(t, "cleanup")
            /\ UNCHANGED <<cur, queue>>
  /\ UNCHANGED <<mainVars, remaining, xmlQueue, vector, status>>

Starting(t) ==
  /\ At(t, "popped")
  /\ SetStatus(t, STARTING)
  /\ Goto(t, "starting")
  /\ UNCHANGED <<mainVars, queue, remaining, xmlQueue, vector, cur>>

\* Mutant: the bytes of a file without a size count as one.
CountDownOne(t) ==
  /\ At(t, "starting")
  /\ remaining' = remaining - (IF Size[cur[t]] = 0 THEN 1 ELSE Size[cur[t]])
  /\ Goto(t, "prepare")
  /\ UNCHANGED <<mainVars, queue, xmlQueue, vector, status, cur>>

CountDown(t) ==
  /\ At(t, "starting")
  /\ remaining' = remaining - Size[cur[t]]
  /\ Goto(t, "prepare")
  /\ UNCHANGED <<mainVars, queue, xmlQueue, vector, status, cur>>

\* Mutant: break instead of continue.
SkipBreaks(t) ==
  /\ At(t, "prepare")
  /\ cur' = [cur EXCEPT ![t] = NoFile]
  /\ Goto(t, "cleanup")
  /\ UNCHANGED <<mainVars, queue, remaining, xmlQueue, vector, status>>

\* Every continue of the loop before the transfer: blacklisted, no directory, no
\* downlink, rename failed, already complete.
Skip(t) ==
  /\ At(t, "prepare")
  /\ cur' = [cur EXCEPT ![t] = NoFile]
  /\ Goto(t, "loop")
  /\ UNCHANGED <<mainVars, queue, remaining, xmlQueue, vector, status>>

\* Mutant: the file is given back to the queue.
TokenLostReturned(t) ==
  /\ At(t, "prepare")
  /\ queue' = Append(queue, cur[t])
  /\ cur' = [cur EXCEPT ![t] = NoFile]
  /\ Goto(t, "failing")
  /\ UNCHANGED <<mainVars, remaining, xmlQueue, vector, status>>

\* The token expired and refreshLogin() failed: the thread gives up its file.
TokenLost(t) ==
  /\ At(t, "prepare")
  /\ cur' = [cur EXCEPT ![t] = NoFile]
  /\ Goto(t, "failing")
  /\ UNCHANGED <<mainVars, queue, remaining, xmlQueue, vector, status>>

Transfer(t) ==
  /\ At(t, "prepare")
  /\ Goto(t, "transfer")
  /\ UNCHANGED <<mainVars, queue, remaining, xmlQueue, vector, status, cur>>

\* progressCallbackForThread, called by curl during the transfer
Progress(t) ==
  /\ At(t, "transfer")
  /\ SetStatus(t, RUNNING)
  /\ UNCHANGED <<mainVars, queue, remaining, xmlQueue, vector, workVars>>

\* The retry loop is over, with CURLE_OK or not.
EndTransfer(t) ==
  /\ At(t, "transfer")
  /\ \E ok \in BOOLEAN :
       xmlQueue' = IF ok /\ cur[t] \in XMLFiles THEN Append(xmlQueue, cur[t])
                                               ELSE xmlQueue
  /\ cur' = [cur EXCEPT ![t] = NoFile]
  /\ Goto(t, "loop")
  /\ UNCHANGED <<mainVars, queue, remaining, vector, status>>

\* Mutant: a thread that gives up returns without setting its status.
FinishSilent(t) ==
  /\ pc[t] \in {"cleanup", "failing"}
  /\ IF At(t, "cleanup") THEN SetStatus(t, FINISHED) ELSE UNCHANGED status
  /\ Goto(t, IF At(t, "cleanup") THEN "done" ELSE "aborted")
  /\ UNCHANGED <<mainVars, queue, remaining, xmlQueue, vector, cur>>

Finish(t) ==
  /\ pc[t] \in {"cleanup", "failing"}
  /\ SetStatus(t, FINISHED)
  /\ Goto(t, IF At(t, "cleanup") THEN "done" ELSE "aborted")
  /\ UNCHANGED <<mainVars, queue, remaining, xmlQueue, vector, cur>>

Worker(t) ==
  \/ Login(t) \/ TryPop(t) \/ Starting(t) \/ CountDown(t) \/ Skip(t)
  \/ TokenLost(t) \/ Transfer(t) \/ Progress(t) \/ EndTransfer(t) \/ Finish(t)

Terminated == mpc \in {"done", "exit"} /\ UNCHANGED vars

Next == Main \/ (\E t \in Workers : Worker(t)) \/ Terminated

Spec == Init /\ [][Next]_vars

\* The scheduler runs every thread that can run, and a transfer ends: curl
\* gives up on a stalled connection (CURLOPT_LOW_SPEED_TIME, iTimeout).
Fairness == WF_vars(Main) /\ \A t \in Workers : WF_vars(Worker(t))
FairSpec == Spec /\ Fairness

--------------------------------------------------------------------------------
TypeOK ==
  /\ mpc \in MainPC
  /\ fed \in 0 .. NFiles
  /\ spawned \in 0 .. NumThreads
  /\ size \in 0 .. NumThreads
  /\ next \in 0 .. NumThreads
  /\ seen \subseteq Status \ {NOTSTARTED}
  /\ xmls \subseteq Files
  /\ queue \in Seq(Files)
  /\ xmlQueue \in Seq(Files)
  /\ remaining \in Int
  /\ capacity \in Nat
  /\ status \in [Workers -> Status]
  /\ copy \in [Workers -> Status]
  /\ pc \in [Workers -> WorkerPC]
  /\ cur \in [Workers -> Files \union {NoFile}]

\* No file is worked on twice: the files in dlQueue are distinct, the files
\* the threads hold are distinct, and a held file is no longer in dlQueue.
\* Two threads on one file would write to it through two FILE handles.
ExclusiveFiles ==
  /\ \A i, j \in DOMAIN queue : queue[i] = queue[j] => i = j
  /\ \A t, u \in Workers : Holding(t) /\ cur[t] = cur[u] => t = u
  /\ Held \intersect Queued = {}

\* iTotalRemainingBytes is at all times the size of the files in dlQueue and
\* of the files popped but not yet subtracted; so the unsigned counter never
\* wraps below zero, whatever the threads' order.
Uncounted == {cur[t] : t \in {w \in Workers : pc[w] \in {"popped", "starting"}}}
BytesAccounted ==
  remaining = MapThenSumSet(LAMBDA f : Size[f], Queued \union Uncounted)

\* A file is left in dlQueue after download() returns only if every thread
\* gave up on the login: one surviving thread empties the queue.
NothingLeftBehind ==
  mpc \in {"xml", "done"} /\ queue # <<>> =>
    \A t \in 0 .. NumThreads - 1 : At(t, "aborted")

\* vDownloadInfo is cleared, and XML is made of downloaded files, only when
\* no thread can touch either any more, although the loop of printProgress may
\* have ended while threads still run.
ClearedAfterThreads ==
  mpc \in {"xml", "done", "exit"} =>
    \A t \in Workers : At(t, "none") \/ Gone(t)

\* download() implements the ledger of files.
Ledger == INSTANCE WorkLedger WITH
  waiting <- ((fed + 1) .. NFiles) \union Queued,
  active <- Held,
  settled <- (1 .. fed) \ (Queued \union Held),
  described <- xmls,
  closed <- mpc \in {"xml", "done", "exit"}
ImplementsLedger == Ledger!Spec

\* download() returns: the threads end, printProgress notices, the XML queue
\* is worked off.
DownloadReturns == <>(mpc \in {"done", "exit"})

\* "Print progress information until all threads have finished their tasks"
\* (the comment on the loop of printProgress): once all threads have finished,
\* the loop is left.
NoticesAllFinished ==
  (mpc = "print" /\ \A t \in 0 .. spawned - 1 : Gone(t)) ~> (mpc = "join")
================================================================================
