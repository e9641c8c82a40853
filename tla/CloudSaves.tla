------------------------------- MODULE CloudSaves -------------------------------
(***************************************************************************)
(* Upload, download and deletion of cloud saves: the choice of the saves   *)
(* to transfer by their times, the threads of processCloudSaveUploadQueue  *)
(* and processCloudSaveDownloadQueue, and what a crash between two steps   *)
(* leaves behind.  The player and another device write new versions at any *)
(* time.                                                                   *)
(*                                                                         *)
(* Version v of a save is SizeOf[v] blocks tagged v, written at second     *)
(* 2 * v; its first block is what comes before its first white space.  One *)
(* process runs one operation.  How vDownloadInfo grows and is read is the *)
(* subject of DownloadQueue: here the threads are created in one step and  *)
(* printProgress sees all statuses at once.                                *)
(***************************************************************************)
EXTENDS Integers, Sequences, FiniteSets, SequencesExt

CONSTANTS
  NSaves,       \* saves of the game
  NVersions,    \* versions written by the player and the other device
  SizeOf,       \* SizeOf[v]: blocks of version v
  Options,      \* --cloud-force, and the saves that --cloud-whitelist and
                \* --cloud-blacklist name
  Threads,      \* iThreads
  Retries,      \* iRetries
  MaxFaults     \* bound on failures, crashes and deletions elsewhere

Saves == 1 .. NSaves
Versions == 1 .. NVersions
Workers == 1 .. Threads
Full(v) == [i \in 1 .. SizeOf[v] |-> v]

ASSUME CountsAssumption ==
  /\ NSaves \in Nat \ {0} /\ NVersions \in Nat /\ Threads \in Nat \ {0}
  /\ Retries \in Nat /\ MaxFaults \in Nat
  /\ SizeOf \in [Versions -> Nat \ {0}]
ASSUME OptionsAssumption ==
  Options \subseteq [force : BOOLEAN, white : SUBSET Saves, black : SUBSET Saves]

VARIABLES
  written,   \* versions written so far, also the clock
  local,     \* local[s]: modification time and content, time 0 if there is none
  part,      \* part[s]: the same of its .~incomplete file
  remote,    \* remote[s]: the time in the listing, Last-Modified and content
  replaced,  \* history: saves whose remote copy changed since their
             \* .~incomplete file was begun
  op,        \* the operation that runs
  printing,  \* printProgress runs
  queue,     \* dlCloudSaveQueue
  lock,      \* the thread that holds mtx_create_directories, 0 for none
  threads,   \* the threads
  faults

disk == <<local, part>>
server == <<remote, replaced>>
process == <<op, printing, queue, lock, threads>>
vars == <<written, disk, server, process, faults>>

Now == 2 * written
NoFile == [time |-> 0, content |-> <<>>]
NoRemote == [listed |-> 0, modified |-> 0, content |-> <<>>]
HasLocal(s) == local[s].time > 0
HasPart(s) == part[s].time > 0
HasRemote(s) == remote[s].listed > 0

NoThread == [pc |-> "none", status |-> "none", save |-> 0, time |-> 0,
             body |-> <<>>, spoiled |-> FALSE, tries |-> 0, resume |-> FALSE,
             start |-> 0, got |-> 0, served |-> NoRemote, result |-> "none"]

Init ==
  /\ written = 0
  /\ local = [s \in Saves |-> NoFile] /\ part = local
  /\ remote = [s \in Saves |-> NoRemote] /\ replaced = {}
  /\ op = "idle" /\ printing = FALSE /\ queue = <<>> /\ lock = 0
  /\ threads = [t \in Workers |-> NoThread]
  /\ faults = 0

Fault == faults < MaxFaults /\ faults' = faults + 1
FaultUnless(ok) == IF ok THEN UNCHANGED faults ELSE Fault

\* Every change of a remote copy.
SetRemote(s, copy) ==
  /\ remote' = [remote EXCEPT ![s] = copy]
  /\ replaced' = IF HasPart(s) THEN replaced \union {s} ELSE replaced

--------------------------------------------------------------------------------
(* The player, the other device, and the end of the process *)

PlayerSaves(s) ==
  /\ written < NVersions
  /\ written' = written + 1
  /\ local' = [local EXCEPT ![s] =
                 [time |-> 2 * written', content |-> Full(written')]]
  /\ UNCHANGED <<part, server, process, faults>>

OtherDeviceUploads(s) ==
  /\ written < NVersions
  /\ written' = written + 1
  /\ SetRemote(s, [listed |-> 2 * written', modified |-> 2 * written',
                   content |-> Full(written')])
  /\ UNCHANGED <<disk, process, faults>>

OtherDeviceDeletes(s) ==
  /\ HasRemote(s)
  /\ Fault
  /\ SetRemote(s, NoRemote)
  /\ UNCHANGED <<written, disk, process>>

EndProcess ==
  /\ op' = "idle" /\ printing' = FALSE /\ queue' = <<>> /\ lock' = 0
  /\ threads' = [t \in Workers |-> NoThread]
  /\ UNCHANGED <<written, disk, server>>

Crash == op # "idle" /\ Fault /\ EndProcess

--------------------------------------------------------------------------------
(* The choice of the saves *)

Selected(o, s) == IF o.white # {} THEN s \in o.white ELSE s \notin o.black

\* The listing; one that cannot be fetched is an empty list.
Listed(o, ok) == {s \in Saves : ok /\ HasRemote(s) /\ Selected(o, s)}

\* Local times are rounded down by a second.
LocalModified(s) == local[s].time - 1

\* Mutant: the comparison of the download is used for the upload too.
OutdatedSwapped(s) == remote[s].listed > LocalModified(s)
\* The remote copy is older than the local save.
Outdated(s) == remote[s].listed < LocalModified(s)

\* "Already up to date -- skipping"
SkippedDownload(s) == HasLocal(s) /\ LocalModified(s) <= remote[s].listed

ToDownload(o, ok) == {s \in Listed(o, ok) : o.force \/ ~SkippedDownload(s)}

Uploadable(o) == {s \in Saves : HasLocal(s) /\ Selected(o, s)}

\* The queue elements: the save, and the time an upload sends along.
InOrder(S, time) ==
  LET order == SetToSeq(S)
  IN [i \in DOMAIN order |-> [save |-> order[i], time |-> time[order[i]]]]
NoTimes == [s \in Saves |-> 0]

\* The saves of the list that are outdated, then those the list does not have.
UploadOrder(o, ok) ==
  LET local_csf == Uploadable(o)
      listed == Listed(o, ok) \intersect local_csf
      times == [s \in Saves |-> LocalModified(s)]
  IN InOrder({s \in listed : o.force \/ Outdated(s)}, times)
       \o InOrder(local_csf \ listed, times)

\* The thread count is limited to the number of items in the queue.
ThreadsOfQueue(n) == {t \in Workers : t <= n}

Begin(kind, saves, ok) ==
  /\ op = "idle"
  /\ FaultUnless(ok)
  /\ op' = kind
  /\ queue' = saves
  /\ printing' = (kind # "delete" /\ saves # <<>>)
  /\ threads' = [t \in Workers |->
                   IF printing' /\ t \in ThreadsOfQueue(Len(saves))
                     THEN [NoThread EXCEPT !.pc = "login"] ELSE NoThread]
  /\ UNCHANGED <<written, disk, server, lock>>

BeginDownload(o, ok) == Begin("download", InOrder(ToDownload(o, ok), NoTimes), ok)

BeginUpload(o, ok) == Begin("upload", UploadOrder(o, ok), ok)

\* Without --cloud-force a whitelist is needed.
BeginDelete(o, ok) ==
  /\ o.white # {} \/ o.force
  /\ Begin("delete", InOrder(Listed(o, ok), NoTimes), ok)

DeleteRemote(ok) ==
  /\ op = "delete" /\ queue # <<>>
  /\ FaultUnless(ok)
  /\ queue' = Tail(queue)
  /\ IF ok THEN SetRemote(Head(queue).save, NoRemote) ELSE UNCHANGED server
  /\ UNCHANGED <<written, disk, op, printing, lock, threads>>

NothingToDo ==
  /\ op # "idle" /\ queue = <<>>
  /\ \A t \in Workers : threads[t].pc = "none"
  /\ EndProcess /\ UNCHANGED faults

--------------------------------------------------------------------------------
(* printProgress, and the joining of the threads *)

\* The or of all statuses is DLSTATUS_FINISHED; DLSTATUS_NOTSTARTED is 0.
StopPrinting ==
  /\ printing
  /\ \E t \in Workers : threads[t].status = "finished"
  /\ \A t \in Workers : threads[t].status # "running"
  /\ printing' = FALSE
  /\ UNCHANGED <<written, disk, server, op, queue, lock, threads, faults>>

Returned(t) == threads[t].pc = "returned"
Started == {t \in Workers : threads[t].pc # "none"}

JoinThreads ==
  /\ Started # {} /\ ~printing
  /\ \A t \in Started : Returned(t)
  /\ EndProcess /\ UNCHANGED faults

\* All threads are gone and none of them said so.
Hung == printing /\ \A t \in Started : Returned(t) /\ threads[t].status = "none"

\* The user ends a program that hangs.
Interrupt == Hung /\ EndProcess /\ UNCHANGED faults

--------------------------------------------------------------------------------
(* A thread *)

Set(t, th) == threads' = [threads EXCEPT ![t] = th]
Finished(th) == [th EXCEPT !.pc = "returned", !.status = "finished"]

\* Mutant: a thread that cannot log in does not set its status.
RefusedSilently(th) == [th EXCEPT !.pc = "returned"]
Refused(th) == Finished(th)

\* galaxy->init(), refreshLogin(): with a token, or without one and status
\* DLSTATUS_FINISHED.
Login(t, ok) ==
  /\ threads[t].pc = "login"
  /\ FaultUnless(ok)
  /\ Set(t, IF ok THEN [threads[t] EXCEPT !.pc = "loop"] ELSE Refused(threads[t]))
  /\ UNCHANGED <<written, disk, server, op, printing, queue, lock>>

\* The token expired after the login: an upload thread just returns.
TokenExpired(t) ==
  /\ threads[t].pc = "login" /\ op = "upload"
  /\ Fault
  /\ Set(t, [threads[t] EXCEPT !.pc = "returned"])
  /\ UNCHANGED <<written, disk, server, op, printing, queue, lock>>

NoMore(t) ==
  /\ threads[t].pc = "loop" /\ queue = <<>>
  /\ Set(t, Finished(threads[t]))
  /\ UNCHANGED <<written, disk, server, op, printing, queue, lock, faults>>

\* Mutant: front() and pop() without the lock between them.
TryPopFront(t, th) == Set(t, th) /\ queue' \in {queue, Tail(queue)}
TryPop(t, th) == Set(t, th) /\ queue' = Tail(queue)

Take(t) ==
  /\ threads[t].pc = "loop" /\ queue # <<>>
  /\ TryPop(t, [threads[t] EXCEPT
                  !.pc = IF op = "upload" THEN "read" ELSE "lock",
                  !.save = Head(queue).save, !.time = Head(queue).time,
                  !.resume = op = "download" /\ HasPart(Head(queue).save)])
  /\ UNCHANGED <<written, disk, server, op, printing, lock, faults>>

\* The rest of a thread that ends with its save: only its status outlives it.
BackToLoop(t) == [NoThread EXCEPT !.pc = "loop", !.status = threads[t].status]

\* Mutant: one retry more.
RetriesLeftOneMore(t) == threads[t].tries <= Retries
\* iRetryCount <= iRetries, once it is counted up.
RetriesLeft(t) == threads[t].tries + 1 <= Retries

--------------------------------------------------------------------------------
(* An upload thread *)

\* The progress callback has set DLSTATUS_RUNNING.
Sent(t) == [BackToLoop(t) EXCEPT !.status = "running"]
SendAgain(t, spoiled) ==
  [threads[t] EXCEPT !.tries = @ + 1, !.spoiled = spoiled, !.status = "running"]

\* operator>> reads up to the first white space.
FirstWord(content) == IF content = <<>> THEN <<>> ELSE <<Head(content)>>

ReadFile(t) ==
  /\ threads[t].pc = "read"
  /\ Set(t, [threads[t] EXCEPT !.pc = "put",
               !.body = FirstWord(local[threads[t].save].content)])
  /\ UNCHANGED <<written, disk, server, op, printing, queue, lock, faults>>

\* The time in the listing after an upload: the one sent along, or the
\* server's.
ListedTimes(t) == {threads[t].time, Now}

\* The server stores a body that has the MD5 sum of the Etag header.  The
\* answer may be lost; the body is then read to its end.
PutStores(t, answered) ==
  /\ threads[t].pc = "put" /\ ~threads[t].spoiled
  /\ FaultUnless(answered)
  /\ \E listed \in ListedTimes(t) :
       SetRemote(threads[t].save,
                 [listed |-> listed, modified |-> Now, content |-> threads[t].body])
  /\ Set(t, IF answered \/ ~RetriesLeft(t) THEN Sent(t) ELSE SendAgain(t, TRUE))
  /\ UNCHANGED <<written, disk, op, printing, queue, lock>>

\* A body of which a part was sent before is refused with 422: no retry.
PutRefused(t) ==
  /\ threads[t].pc = "put" /\ threads[t].spoiled
  /\ Set(t, Sent(t))
  /\ UNCHANGED <<written, disk, server, op, printing, queue, lock, faults>>

\* An error, retried or not; nothing rewinds the body for a retry.
PutFails(t, spoiled) ==
  /\ threads[t].pc = "put"
  /\ Fault
  /\ threads[t].spoiled => spoiled
  /\ \/ Set(t, Sent(t))
     \/ RetriesLeft(t) /\ Set(t, SendAgain(t, spoiled))
  /\ UNCHANGED <<written, disk, server, op, printing, queue, lock>>

--------------------------------------------------------------------------------
(* A download thread *)

\* The mutex is held until the end of the iteration.  The directory may be
\* impossible to create.
Lock(t, directory) ==
  /\ threads[t].pc = "lock" /\ lock = 0
  /\ FaultUnless(directory)
  /\ lock' = IF directory THEN t ELSE 0
  /\ Set(t, IF directory THEN [threads[t] EXCEPT !.pc = "open"] ELSE BackToLoop(t))
  /\ UNCHANGED <<written, disk, server, op, printing, queue>>

\* Mutant: the position is the one of the first attempt.
ResumePositionOnce(t) ==
  IF threads[t].tries = 0 THEN Len(part[threads[t].save].content) ELSE threads[t].start
ResumePosition(t) == Len(part[threads[t].save].content)

\* An attempt: append to the .~incomplete file, or create it empty, and ask
\* for the rest of the copy the server has now.
Open(t) ==
  /\ threads[t].pc = "open"
  /\ LET s == threads[t].save
         resume == threads[t].resume
     IN /\ part' = IF resume THEN part
                   ELSE [part EXCEPT ![s] = [time |-> Now, content |-> <<>>]]
        /\ replaced' = IF resume THEN replaced ELSE replaced \ {s}
        /\ Set(t, [threads[t] EXCEPT !.pc = "receive", !.status = "running",
                     !.start = IF resume THEN ResumePosition(t) ELSE 0,
                     !.got = 0, !.served = remote[s]])
  /\ UNCHANGED <<written, local, remote, op, printing, queue, lock, faults>>

OpenFails(t) ==
  /\ threads[t].pc = "open"
  /\ Fault
  /\ Set(t, [threads[t] EXCEPT !.pc = "settle"])
  /\ UNCHANGED <<written, disk, server, op, printing, queue, lock>>

Position(t) == threads[t].start + threads[t].got
Served(t) == threads[t].served.content

Receive(t) ==
  /\ threads[t].pc = "receive" /\ Position(t) < Len(Served(t))
  /\ part' = [part EXCEPT ![threads[t].save] =
                [time |-> Now, content |-> Append(@.content, Served(t)[Position(t) + 1])]]
  /\ Set(t, [threads[t] EXCEPT !.got = @ + 1])
  /\ UNCHANGED <<written, local, server, op, printing, queue, lock, faults>>

\* curl_easy_perform: CURLE_OK after the last block; 416 or CURLE_RANGE_ERROR
\* when there is nothing at the position; an HTTP error when the copy is gone.
Absent(t) == threads[t].served = NoRemote
Natural(t) ==
  CASE Absent(t) -> {"http"}
    [] ~Absent(t) /\ threads[t].start >= Len(Served(t)) /\ threads[t].start > 0 ->
         {"range"}
    [] ~Absent(t) /\ (threads[t].start < Len(Served(t)) \/ threads[t].start = 0) ->
         IF Position(t) = Len(Served(t)) THEN {"ok"} ELSE {}

\* Errors that come without a reason in the state.
Errors(t) ==
  {"recv", "fatal"} \union (IF Position(t) < Len(Served(t)) THEN {"partial"} ELSE {})
    \union (IF threads[t].got = 0 THEN {"http"} ELSE {})
Retryable == {"partial", "recv", "http"}

EndAttempt(t, result) ==
  /\ threads[t].pc = "receive"
  /\ \/ result \in Natural(t) /\ UNCHANGED faults
     \/ result \in Errors(t) \ Natural(t) /\ Fault
  /\ LET retry == result \in Retryable
     IN Set(t, [threads[t] EXCEPT
                  !.result = result,
                  !.tries = IF retry THEN @ + 1 ELSE @,
                  !.resume = @ \/ retry,
                  !.pc = IF retry /\ RetriesLeft(t) THEN "open" ELSE "settle"])
  /\ UNCHANGED <<written, disk, server, op, printing, queue, lock>>

Success(t) == threads[t].result \in {"ok", "range"}

\* The end of an iteration, which releases the mutex.
Release(t) == lock' = 0 /\ Set(t, BackToLoop(t))

\* Rename, when the server told the time of its copy: the file keeps the time
\* of the last write until SetTime.
Rename(t) ==
  /\ threads[t].pc = "settle" /\ Success(t)
  /\ LET s == threads[t].save
     IN /\ local' = [local EXCEPT ![s] = part[s]]
        /\ part' = [part EXCEPT ![s] = NoFile]
        /\ replaced' = replaced \ {s}
  /\ Set(t, [threads[t] EXCEPT !.pc = "settime"])
  /\ UNCHANGED <<written, remote, op, printing, queue, lock, faults>>

\* The time is unknown, which a 416 answer may cause, or the rename fails.
KeepsPart(t) ==
  /\ threads[t].pc = "settle" /\ Success(t)
  /\ FaultUnless(threads[t].result = "range")
  /\ Release(t)
  /\ UNCHANGED <<written, disk, server, op, printing, queue>>

SetTime(t, ok) ==
  /\ threads[t].pc = "settime"
  /\ FaultUnless(ok)
  /\ local' = IF ok THEN [local EXCEPT ![threads[t].save].time =
                                         threads[t].served.modified]
                    ELSE local
  /\ Release(t)
  /\ UNCHANGED <<written, part, server, op, printing, queue>>

\* A failed download is deleted unless it was a resume, so is an empty file.
GiveUp(t) ==
  /\ threads[t].pc = "settle" /\ ~Success(t)
  /\ LET s == threads[t].save
         delete == /\ HasPart(s)
                   /\ \/ threads[t].result # "partial" /\ ~threads[t].resume
                      \/ part[s].content = <<>>
     IN /\ part' = IF delete THEN [part EXCEPT ![s] = NoFile] ELSE part
        /\ replaced' = IF delete THEN replaced \ {s} ELSE replaced
  /\ Release(t)
  /\ UNCHANGED <<written, local, remote, op, printing, queue, faults>>

--------------------------------------------------------------------------------
Worker(t) ==
  \/ \E ok \in BOOLEAN : Login(t, ok) \/ Lock(t, ok) \/ SetTime(t, ok)
                           \/ PutStores(t, ok) \/ PutFails(t, ok)
  \/ TokenExpired(t) \/ NoMore(t) \/ Take(t)
  \/ ReadFile(t) \/ PutRefused(t)
  \/ Open(t) \/ OpenFails(t) \/ Receive(t)
  \/ (\E result \in Retryable \union {"ok", "range", "fatal"} : EndAttempt(t, result))
  \/ Rename(t) \/ KeepsPart(t) \/ GiveUp(t)

Work ==
  \/ (\E ok \in BOOLEAN : DeleteRemote(ok))
  \/ NothingToDo \/ StopPrinting \/ JoinThreads
  \/ \E t \in Workers : Worker(t)

Environment ==
  \/ Crash \/ Interrupt
  \/ \E s \in Saves : PlayerSaves(s) \/ OtherDeviceUploads(s) \/ OtherDeviceDeletes(s)

BeginAny ==
  \E o \in Options, ok \in BOOLEAN :
    BeginDownload(o, ok) \/ BeginUpload(o, ok) \/ BeginDelete(o, ok)

Next == Environment \/ BeginAny \/ Work

Spec == Init /\ [][Next]_vars

\* All saves are uploaded now and then, also after an upload that hung, and
\* the threads are scheduled.
Unrestricted == {o \in Options : o.white = {} /\ o.black = {}}
FairSpec ==
  /\ Spec
  /\ WF_vars(Work) /\ WF_vars(op = "upload" /\ Interrupt)
  /\ SF_vars(\E o \in Unrestricted, ok \in BOOLEAN : BeginUpload(o, ok))

--------------------------------------------------------------------------------
Held == {t \in Workers : threads[t].save # 0}

Times == 0 .. 2 * NVersions
LocalFiles == [time : Times, content : Seq(Versions)]
Copies == [listed : Times, modified : Times, content : Seq(Versions)]
Steps == {"none", "login", "loop", "read", "put", "lock", "open", "receive", "settle",
          "settime", "returned"}
Results == {"none", "ok", "range", "fatal"} \union Retryable
ThreadStates ==
  [pc : Steps, status : {"none", "running", "finished"}, save : {0} \union Saves,
   time : Times, body : Seq(Versions), spoiled : BOOLEAN, tries : 0 .. Retries + 1,
   resume : BOOLEAN, start : Nat, got : Nat, served : Copies, result : Results]

TypeOK ==
  /\ written \in 0 .. NVersions /\ faults \in 0 .. MaxFaults
  /\ local \in [Saves -> LocalFiles] /\ part \in [Saves -> LocalFiles]
  /\ remote \in [Saves -> Copies]
  /\ replaced \subseteq {s \in Saves : HasPart(s)}
  /\ op \in {"idle", "download", "upload", "delete"} /\ printing \in BOOLEAN
  /\ queue \in Seq([save : Saves, time : Times])
  /\ threads \in [Workers -> ThreadStates]
  /\ lock \in {0} \union {t \in Workers : op = "download" /\ threads[t].save # 0}

\* No save is queued twice, or queued while a thread transfers it, or
\* transferred by two threads: two transfers never write one .~incomplete file.
ExclusiveSaves ==
  /\ \A i, j \in DOMAIN queue : i # j => queue[i].save # queue[j].save
  /\ \A t \in Held :
       /\ \A i \in DOMAIN queue : queue[i].save # threads[t].save
       /\ \A w \in Held : threads[w].save = threads[t].save => w = t

\* Whatever failures, retries, crashes and resumes lie in between, a save that
\* is put in place is exactly the server's, if the server's copy is the one
\* the .~incomplete file was begun with.
InPlaceAsOnServer ==
  [][\A t \in Workers :
       LET s == threads[t].save
       IN threads[t].pc = "settle" /\ threads'[t].pc = "settime" /\ s \notin replaced
            => local'[s].content = remote[s].content]_vars

\* Every operation ends: printProgress notices that the threads are gone,
\* except those of an upload that all found their token expired.
OperationEnds == op # "idle" ~> op = "idle" \/ (op = "upload" /\ Hung)

\* Whatever was written where, uploads and downloads in any order and a crash
\* at any time: if all saves are uploaded now and then, the server has
\* infinitely often no save older than the local one.
UploadsReach ==
  \A s \in Saves :
    []<>(HasLocal(s) => HasRemote(s) /\ remote[s].listed >= local[s].time - 1)

================================================================================
