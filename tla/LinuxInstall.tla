------------------------------ MODULE LinuxInstall ------------------------------
(***************************************************************************)
(* Galaxy install for Linux: galaxyInstallGame_MojoSetupHack, its threads  *)
(* (processGalaxyDownloadQueue_MojoSetupHack) and the combining of split   *)
(* files, over any number of runs with crashes and new releases.           *)
(*                                                                         *)
(* Every file is a range of an installer (MojoSetup): downloaded into      *)
(* memory or into a .lgogdltmp file, and extracted to its path.  A big     *)
(* file is split into parts, which are appended to each other at the end   *)
(* of a run and leave only the base file.                                  *)
(*                                                                         *)
(* Left out: directories, permissions and times.  A path is a file or a    *)
(* link in all releases.  The releases of several games stand in one row   *)
(* (Games), each with the number of threads it is installed with: one game *)
(* is chosen at the beginning.                                             *)
(***************************************************************************)
EXTENDS MojoSetup, FiniteSets, Functions

CONSTANTS
  Installers,   \* Installers[r]: those of release r, base game first, DLCs after
  Games,        \* first releases: those of a game go on to the next game's first
  Listed,       \* Listed[r]: base files named by its support/split_files
  Blacklisted,  \* paths the blacklist matches
  MemoryLimit,  \* max_size_memory: compressed sizes from here on need a .lgogdltmp file
  Retries,      \* iRetries
  Threads,      \* largest iThreads
  ThreadsFor,   \* ThreadsFor[r]: iThreads of the runs that install release r
  MaxFaults     \* bound on failures and crashes in a behaviour

Releases == DOMAIN Installers
Workers == 1 .. Threads

\* A file of a release: its installer and its place there.
Places(r) ==
  UNION {{<<u, k>> : k \in DOMAIN Installers[r][u].files} : u \in DOMAIN Installers[r]}
FileAt(r, p) == Installers[r][p[1]].files[p[2]]

ASSUME ReleaseAssumption ==
  /\ IsList(Installers) /\ Installers # <<>>
  /\ \A r \in Releases :
       /\ IsList(Installers[r])
       /\ \A u \in DOMAIN Installers[r] :
            IsInstaller(Installers[r][u]) /\ Listable(Installers[r][u])
\* The paths of a release are distinct, and so are their ranks.
ASSUME NamesAssumption ==
  \A r \in Releases : \A p, q \in Places(r) :
    LET f == FileAt(r, p) g == FileAt(r, q)
    IN /\ f.path \notin Listed[r]
       /\ p # q => f.path # g.path
       /\ p # q /\ {f.base, g.base} \subseteq Listed[r] => f.part # g.part
\* A piece of data stands for the bytes at one place of a file.
ASSUME PiecesAssumption ==
  \A r, s \in Releases : \A p \in Places(r), q \in Places(s) :
    LET f == FileAt(r, p) g == FileAt(s, q)
    IN f.path = g.path =>
         \A i \in DOMAIN f.data, j \in DOMAIN g.data : f.data[i] = g.data[j] => i = j
ASSUME CountsAssumption ==
  /\ Threads \in Nat \ {0} /\ Retries \in Nat /\ MaxFaults \in Nat
  /\ \A r \in Releases : ThreadsFor[r] \in 1 .. Threads
ASSUME GamesAssumption == Games # {} /\ Games \subseteq Releases

VARIABLES
  server,    \* release the server offers
  \* the disk: functions on the paths that exist
  file,      \* files
  tmp,       \* their .lgogdltmp files
  link,      \* symbolic links
  \* one run of the program
  mpc,       \* position of the main thread
  rel,       \* release the run found
  bases,     \* vSplitFileBasePaths
  queue,     \* dlQueueGalaxy_MojoSetupHack: places in Entries
  started,   \* number of threads
  stale,     \* threads that vDownloadInfo, or the copy being made of it, says are at work
  todo,      \* base files still to combine
  part,      \* place of the part to append next
  pc, item, resume, tries, pos,   \* of each thread; pos: next offset asked for
  \* history
  sure,      \* base files this run is sure to leave right, by what it found
  dirty,     \* something failed, or a release appeared, in this run
  clean,     \* undisturbed runs since then
  faults

disk == <<file, tmp, link>>
threads == <<pc, item, resume, tries, pos>>
plan == <<rel, bases, started, stale, sure>>
history == <<dirty, clean, faults>>
vars == <<server, disk, mpc, plan, queue, todo, part, threads, history>>

Without(f, p) == Restrict(f, DOMAIN f \ {p})
With(f, p, v) == [q \in DOMAIN f \union {p} |-> IF q = p THEN v ELSE f[q]]
Nothing == [p \in {} |-> 0]

Init ==
  /\ server \in Games
  /\ file = Nothing /\ tmp = Nothing /\ link = Nothing
  /\ mpc = "idle" /\ rel = server /\ bases = {} /\ queue = <<>>
  /\ started = 0 /\ stale = {}
  /\ todo = {} /\ part = 0 /\ sure = {}
  /\ pc = [t \in Workers |-> "done"]
  /\ item = [t \in Workers |-> 0] /\ resume = item /\ tries = item /\ pos = item
  /\ dirty = FALSE /\ clean = 0 /\ faults = 0

Fault == faults < MaxFaults /\ faults' = faults + 1 /\ dirty' = TRUE /\ clean' = 0

--------------------------------------------------------------------------------
(* The files of a release *)

Images == [r \in Releases |-> [u \in DOMAIN Installers[r] |-> Image(Installers[r][u])]]

\* zipFileEntries: what the directories of all installers list.
Entries == [r \in Releases |->
  FlattenSeq([u \in DOMAIN Installers[r] |->
    FileVector(Images[r][u], ZipOffset(Installers[r][u]), u)])]

Entry(n) == Entries[rel][n]
Installable(n) == Entry(n).kind \in {"file", "link"}
IsPart(bs, n) == Entry(n).kind = "file" /\ Entry(n).base \in bs

\* std::sort: the elements of S by their rank, which is different for each.
Sorted(S, rank(_)) ==
  [i \in 1 .. Cardinality(S) |->
     CHOOSE n \in S : Cardinality({m \in S : rank(m) < rank(n)}) = i - 1]

\* Mutant: the parts are left in the order of the directory.
PartsUnsorted(bs, b) ==
  Sorted({n \in DOMAIN Entries[rel] : IsPart(bs, n) /\ Entry(n).base = b}, LAMBDA n : n)

\* The parts of a base file, in the order of their names.
Parts(bs, b) ==
  Sorted({n \in DOMAIN Entries[rel] : IsPart(bs, n) /\ Entry(n).base = b},
         LAMBDA n : Entry(n).part)

\* splitFileStartOffset
SizeOf == [m \in DOMAIN Entries[rel] |-> Entry(m).uncomp]
SplitStart(n) ==
  MapThenSumSet(LAMBDA m : SizeOf[m],
    {m \in DOMAIN Entries[rel] : IsPart(bases, m) /\ Entry(m).base = Entry(n).base
                                 /\ Entry(m).part < Entry(n).part})

\* Whether the range of a part in the base file has the part's CRC.  Past the
\* end of the base file getFileHashRange returns an uninitialized text.
InBase(n) ==
  LET b == Entry(n).base
      from == SplitStart(n)
      to == from + Entry(n).uncomp
      len == Len(file[b])
  IN IF b \notin DOMAIN file THEN {FALSE}
     ELSE IF len < from THEN BOOLEAN
     ELSE {SubSeq(file[b], from + 1, IF to > len THEN len ELSE to) = Entry(n).crc}

\* A .lgogdltmp file shorter than the compressed data is resumed, whatever is in it.
Resumed(n) == Entry(n).path \in DOMAIN tmp /\ Len(tmp[Entry(n).path]) < Entry(n).comp

\* Plain files, then the parts sorted by path, then the links.
Queue(bs) ==
  LET wanted(S) == {n \in S : Installable(n) /\ Entry(n).path \notin Blacklisted}
      all == wanted(DOMAIN Entries[rel])
      parts == {n \in all : IsPart(bs, n)}
      links == {n \in all : Entry(n).kind = "link"}
      inOrder(S) == Sorted(S, LAMBDA n : n)
  IN inOrder(all \ (parts \union links))
       \o Sorted(parts, LAMBDA n : Entry(n).part)
       \o inOrder(links)

\* What the release is to bring for a base file.
Whole(r, b) ==
  LET ns == Sorted({n \in DOMAIN Entries[r] : Entries[r][n].kind = "file" /\ Entries[r][n].base = b},
                   LAMBDA n : Entries[r][n].part)
  IN FlattenSeq([i \in DOMAIN ns |-> Entries[r][ns[i]].crc])

\* What a run finds of a base file that makes it sure to leave it right: all
\* parts are to be downloaded and none is resumed; or it is right, and not all
\* parts are there to be combined once more.
Sure(b) ==
  LET ns == ToSet(Parts(bases, b))
  IN \/ /\ ns # {}
        /\ \A n \in ns : Entry(n).path \notin Blacklisted /\ TRUE \notin InBase(n) /\ ~Resumed(n)
     \/ /\ b \in DOMAIN file /\ file[b] = Whole(rel, b)
        /\ \E n \in ns : Entry(n).path \notin DOMAIN file

--------------------------------------------------------------------------------
(* The environment *)

Publish ==
  /\ server + 1 \in Releases \ Games
  /\ server' = server + 1
  /\ clean' = 0 /\ dirty' = TRUE
  /\ UNCHANGED <<disk, mpc, plan, queue, todo, part, threads, faults>>

Crash ==
  /\ mpc # "idle"
  /\ Fault
  /\ mpc' = "idle" /\ queue' = <<>> /\ stale' = {} /\ todo' = {} /\ part' = 0
  /\ pc' = [t \in Workers |-> "done"]
  /\ UNCHANGED <<server, disk, rel, bases, started, sure, item, resume, tries, pos>>

--------------------------------------------------------------------------------
(* The main thread *)

\* The lists of all installers are there (with one missing, a directory that
\* cannot be made or too little space the run ends before it has changed
\* anything).  Without the list of split files every part is a plain file.
Begin(known) ==
  /\ mpc = "idle"
  /\ rel' = server
  /\ bases' = IF known THEN Listed[server] ELSE {}
  /\ IF known \/ Listed[server] = {}
       THEN dirty' = FALSE /\ UNCHANGED <<clean, faults>>
       ELSE Fault
  /\ mpc' = "queue"
  /\ UNCHANGED <<server, disk, queue, started, stale, sure, todo, part, threads>>

StartThreads ==
  /\ mpc = "queue"
  /\ queue' = Queue(bases)
  /\ started' = IF Len(queue') < ThreadsFor[rel] THEN Len(queue') ELSE ThreadsFor[rel]
  /\ pc' = [t \in Workers |-> IF t <= started' THEN "new" ELSE "done"]
  /\ mpc' = IF started' = 0 THEN "print" ELSE "create"
  /\ stale' = {}
  /\ sure' = {b \in bases : Sure(b)}
  /\ UNCHANGED <<server, disk, rel, bases, todo, part, item, resume, tries, pos, history>>

\* The next thread and its element of vDownloadInfo: "start" until it has set a
\* status.
Uncreated == {t \in Workers : pc[t] = "new"}
CreateNext ==
  /\ \E t \in Uncreated :
       (\A u \in Uncreated : t <= u) /\ pc' = [pc EXCEPT ![t] = "start"]
  /\ mpc' = IF Cardinality(Uncreated) = 1 THEN "print" ELSE "create"
  /\ UNCHANGED <<server, disk, rel, bases, started, sure, queue, todo, part, item,
                 resume, tries, pos, history>>

\* push_back with room left from earlier uses of vDownloadInfo
CreateThread ==
  /\ mpc = "create"
  /\ CreateNext
  /\ UNCHANGED stale

\* push_back without: the elements are copied to a larger block, and a status
\* that one of the threads sets from here on is lost ...
Working(t) == pc[t] \notin {"new", "start", "done"}

CopyStatuses ==
  /\ mpc = "create"
  /\ stale' = stale \union {t \in Workers : Working(t)}
  /\ mpc' = "move"
  /\ UNCHANGED <<server, disk, rel, bases, started, sure, queue, todo, part, threads,
                 history>>

\* ... until the copy takes the place of the old block.  Threads still there set
\* their status once more; one that has ended stays at work for ever.
MoveStatuses ==
  /\ mpc = "move"
  /\ CreateNext
  /\ stale' = {t \in stale : pc[t] = "done"}

\* printProgress prints on until every thread shows that it has finished, and
\* for ever when there is no thread.
AllFinished == started > 0 /\ stale = {} /\ \A t \in Workers : pc[t] = "done"

PrintProgress ==
  /\ mpc = "print"
  /\ UNCHANGED vars

\* Mutant: the loop waits for the queue to be empty.
JoinThreadsEmptyQueue ==
  /\ mpc = "print" /\ AllFinished /\ queue = <<>>
  /\ mpc' = "combine"
  /\ todo' = {b \in bases : Parts(bases, b) # <<>>}
  /\ UNCHANGED <<server, disk, plan, queue, part, threads, history>>

JoinThreads ==
  /\ mpc = "print" /\ AllFinished
  /\ mpc' = "combine"
  /\ todo' = {b \in bases : Parts(bases, b) # <<>>}
  /\ UNCHANGED <<server, disk, plan, queue, part, threads, history>>

\* CombineSplitFiles, one base file after another
PartPath(b, i) == Entry(Parts(bases, b)[i]).path
FirstPart(b) == PartPath(b, 1)
AllPartsExist(b) == \A i \in DOMAIN Parts(bases, b) : PartPath(b, i) \in DOMAIN file
Current == CHOOSE b \in todo : TRUE

SkipBase ==
  /\ mpc = "combine" /\ todo # {} /\ ~AllPartsExist(Current)
  /\ todo' = todo \ {Current}
  /\ UNCHANGED <<server, disk, mpc, plan, queue, part, threads, history>>

\* The old base file is deleted and the first part opened for appending.
StartCombining ==
  /\ mpc = "combine" /\ todo # {} /\ AllPartsExist(Current)
  /\ file' = Without(file, Current)
  /\ part' = 2 /\ mpc' = "append"
  /\ UNCHANGED <<server, tmp, link, plan, queue, todo, threads, history>>

\* The old base file cannot be deleted, and is kept; or the first part cannot
\* be opened, and is renamed as it is.
StartFails ==
  /\ mpc = "combine" /\ todo # {} /\ AllPartsExist(Current)
  /\ Fault
  /\ \/ Current \in DOMAIN file /\ todo' = todo \ {Current} /\ UNCHANGED <<file, mpc>>
     \/ file' = Without(file, Current) /\ mpc' = "rename" /\ UNCHANGED todo
  /\ UNCHANGED <<server, tmp, link, plan, queue, part, threads>>

Remaining == part <= Len(Parts(bases, Current))

\* A part is appended; on a full disk it is not, and nothing says so.
AppendPart(written) ==
  /\ mpc = "append" /\ Remaining
  /\ PartPath(Current, part) \in DOMAIN file
  /\ IF written
       THEN /\ UNCHANGED history
            /\ file' = [file EXCEPT ![FirstPart(Current)] = @ \o file[PartPath(Current, part)]]
       ELSE Fault /\ UNCHANGED file
  /\ mpc' = "remove"
  /\ UNCHANGED <<server, tmp, link, plan, queue, todo, part, threads>>

\* A part that cannot be read ends the loop.
AppendFails ==
  /\ mpc = "append" /\ Remaining
  /\ Fault
  /\ mpc' = "rename"
  /\ UNCHANGED <<server, disk, plan, queue, todo, part, threads>>

RemovePart(removed) ==
  /\ mpc = "remove"
  /\ IF removed THEN file' = Without(file, PartPath(Current, part)) /\ UNCHANGED history
                ELSE UNCHANGED file /\ Fault
  /\ part' = part + 1 /\ mpc' = "append"
  /\ UNCHANGED <<server, tmp, link, plan, queue, todo, threads>>

AllAppended ==
  /\ mpc = "append" /\ ~Remaining
  /\ mpc' = "rename"
  /\ UNCHANGED <<server, disk, plan, queue, todo, part, threads, history>>

RenameFirst(renamed) ==
  /\ mpc = "rename"
  /\ IF renamed
       THEN /\ file' = Without(With(file, Current, file[FirstPart(Current)]), FirstPart(Current))
            /\ UNCHANGED history
       ELSE UNCHANGED file /\ Fault
  /\ todo' = todo \ {Current}
  /\ mpc' = "combine"
  /\ UNCHANGED <<server, tmp, link, plan, queue, part, threads>>

End ==
  /\ mpc = "combine" /\ todo = {}
  /\ mpc' = "idle" /\ part' = 0
  /\ clean' = IF dirty THEN 0 ELSE IF clean < 2 THEN clean + 1 ELSE 2
  /\ UNCHANGED <<server, disk, plan, queue, todo, threads, dirty, faults>>

--------------------------------------------------------------------------------
(* The threads *)

E(t) == Entry(item[t])
Path(t) == E(t).path
Goto(t, p) == pc' = [pc EXCEPT ![t] = p]
MainSame == UNCHANGED <<server, mpc, plan, todo, part>>

Pop(t) ==
  /\ pc[t] \in {"start", "pop"} /\ queue # <<>>
  /\ item' = [item EXCEPT ![t] = Head(queue)]
  /\ queue' = Tail(queue)
  /\ Goto(t, "examine")
  /\ MainSame /\ UNCHANGED <<disk, resume, tries, pos, history>>

\* The directory is not one or cannot be made: the thread ends.
DirectoryFails(t) ==
  /\ pc[t] = "examine"
  /\ Fault
  /\ Goto(t, "done")
  /\ MainSame /\ UNCHANGED <<disk, queue, item, resume, tries, pos>>

\* Mutant: only the size is compared.
SameSize(n) == Len(file[Entry(n).path]) = Entry(n).uncomp

\* The file is as long as it should be and has the right CRC.
Same(n) == file[Entry(n).path] = Entry(n).crc

\* A right file, a part that is in the base file, and any link are left alone.
UpToDate(n, inBase) ==
  IF Entry(n).kind = "link" THEN Entry(n).path \in DOMAIN link
  ELSE \/ IsPart(bases, n) /\ inBase
       \/ (Entry(n).path \in DOMAIN file /\ Same(n))

Keep(t, inBase) ==
  /\ pc[t] = "examine" /\ UpToDate(item[t], inBase)
  /\ Goto(t, "pop")
  /\ MainSame /\ UNCHANGED <<disk, queue, item, resume, tries, pos, history>>

Resumable(t) == Resumed(item[t])

\* Anything else at the path is deleted, and so is a .lgogdltmp file as long
\* as the compressed data.
Replace(t, inBase) ==
  /\ pc[t] = "examine" /\ ~UpToDate(item[t], inBase)
  /\ file' = Without(file, Path(t))
  /\ tmp' = IF Resumable(t) THEN tmp ELSE Without(tmp, Path(t))
  /\ resume' = [resume EXCEPT ![t] = IF Resumable(t) THEN Len(tmp[Path(t)]) ELSE 0]
  /\ tries' = [tries EXCEPT ![t] = 0]
  /\ Goto(t, CASE E(t).kind = "link" -> "link"
               [] E(t).kind = "file" /\ E(t).comp < MemoryLimit -> "create"
               [] OTHER -> "open")
  /\ MainSame /\ UNCHANGED <<link, queue, item, pos, history>>

\* What is to be deleted cannot be deleted.
ReplaceFails(t) ==
  /\ pc[t] = "examine"
  /\ Path(t) \in DOMAIN file \union DOMAIN tmp
  /\ Fault
  /\ Goto(t, "pop")
  /\ MainSame /\ UNCHANGED <<disk, queue, item, resume, tries, pos>>

DlRange(t) == Bytes(Images[rel][E(t).url], E(t).start, E(t).end)

\* An extraction, or one cut short by a full disk, which nothing says.
Outcomes(s, whole) ==
  IF whole THEN Extractions(s)
  ELSE {[ok |-> TRUE, out |-> SubSeq(x.out, 1, Len(x.out) - 1)] :
          x \in {y \in Extractions(s) : y.ok /\ y.out # <<>>}}

MakeLink(t, ok) ==
  /\ pc[t] = "link"
  /\ IF ok
       THEN /\ UNCHANGED history
            /\ \E x \in Extractions(DlRange(t)) :
                 link' = IF x.ok /\ Path(t) \notin DOMAIN file THEN With(link, Path(t), x.out)
                                                               ELSE link
       ELSE Fault /\ UNCHANGED link
  /\ Goto(t, "pop")
  /\ MainSame /\ UNCHANGED <<file, tmp, queue, item, resume, tries, pos>>

\* Small files: the path is created first, the data come into memory.
Create(t) ==
  /\ pc[t] = "create"
  /\ file' = With(file, Path(t), <<>>)
  /\ Goto(t, "memory")
  /\ MainSame /\ UNCHANGED <<tmp, link, queue, item, resume, tries, pos, history>>

FetchSmall(t, whole) ==
  /\ pc[t] = "memory"
  /\ IF whole THEN UNCHANGED history ELSE Fault
  /\ \E x \in Outcomes(DlRange(t), whole) :
       file' = IF x.ok THEN With(file, Path(t), x.out) ELSE Without(file, Path(t))
  /\ Goto(t, "pop")
  /\ MainSame /\ UNCHANGED <<tmp, link, queue, item, resume, tries, pos>>

\* The download failed: the file is removed, if it can be.
FetchSmallFails(t) ==
  /\ pc[t] \in {"create", "memory"}
  /\ Fault
  /\ file' \in {file, Without(file, Path(t))}
  /\ Goto(t, "pop")
  /\ MainSame /\ UNCHANGED <<tmp, link, queue, item, resume, tries, pos>>

\* Mutant: a resumed transfer starts one byte early.
FirstEarly(t) == E(t).start + (IF resume[t] > 0 THEN resume[t] - 1 ELSE 0)

\* First byte asked for
First(t) == E(t).start + resume[t]

\* Others go to a .lgogdltmp file, in up to Retries + 1 attempts.
Open(t) ==
  /\ pc[t] = "open"
  /\ tmp' = IF resume[t] > 0 THEN tmp ELSE With(tmp, Path(t), <<>>)
  /\ pos' = [pos EXCEPT ![t] = First(t)]
  /\ Goto(t, "receive")
  /\ MainSame /\ UNCHANGED <<file, link, queue, item, resume, tries, history>>

Receive(t) ==
  /\ pc[t] = "receive" /\ pos[t] <= E(t).end
  /\ tmp' = [tmp EXCEPT ![Path(t)] =
               @ \o Bytes(Images[rel][E(t).url], pos[t], pos[t])]
  /\ pos' = [pos EXCEPT ![t] = @ + 1]
  /\ MainSame /\ UNCHANGED <<file, link, queue, pc, item, resume, tries, history>>

Received(t) ==
  /\ pc[t] = "receive" /\ pos[t] > E(t).end
  /\ Goto(t, "extract")
  /\ MainSame /\ UNCHANGED <<disk, queue, item, resume, tries, pos, history>>

\* Mutant: one retry too many.
RetriesLeftMore(n) == n <= Retries + 1
RetriesLeft(n) == n <= Retries

\* CURLE_PARTIAL_FILE, CURLE_OPERATION_TIMEDOUT or CURLE_RECV_ERROR: another
\* attempt, at the size of the .lgogdltmp file.
Interrupted(t) ==
  /\ pc[t] = "receive" /\ pos[t] <= E(t).end
  /\ Fault
  /\ tries' = [tries EXCEPT ![t] = @ + 1]
  /\ resume' = [resume EXCEPT ![t] = Len(tmp[Path(t)])]
  /\ Goto(t, IF RetriesLeft(tries'[t]) THEN "open" ELSE "pop")
  /\ MainSame /\ UNCHANGED <<disk, queue, item, pos>>

\* Any other result, or the .lgogdltmp file cannot be opened.
TransferFails(t) ==
  /\ pc[t] \in {"open", "receive"}
  /\ Fault
  /\ Goto(t, "pop")
  /\ MainSame /\ UNCHANGED <<disk, queue, item, resume, tries, pos>>

\* extractFile creates the file, then writes it.
Extract(t) ==
  /\ pc[t] = "extract"
  /\ file' = With(file, Path(t), <<>>)
  /\ Goto(t, "extracting")
  /\ MainSame /\ UNCHANGED <<tmp, link, queue, item, resume, tries, pos, history>>

\* After a failed extraction both files stay.
Extracted(t, whole) ==
  /\ pc[t] = "extracting"
  /\ IF whole THEN UNCHANGED history ELSE Fault
  /\ \E x \in Outcomes(tmp[Path(t)], whole) :
       /\ file' = With(file, Path(t), x.out)
       /\ tmp' = IF x.ok THEN Without(tmp, Path(t)) ELSE tmp
  /\ Goto(t, "pop")
  /\ MainSame /\ UNCHANGED <<link, queue, item, resume, tries, pos>>

ExtractFails(t) ==
  /\ pc[t] = "extract"
  /\ Fault
  /\ Goto(t, "pop")
  /\ MainSame /\ UNCHANGED <<disk, queue, item, resume, tries, pos>>

Finish(t) ==
  /\ pc[t] \in {"start", "pop"} /\ queue = <<>>
  /\ Goto(t, "done")
  /\ MainSame /\ UNCHANGED <<disk, queue, item, resume, tries, pos, history>>

--------------------------------------------------------------------------------
Worker(t) ==
  \/ Pop(t) \/ DirectoryFails(t) \/ ReplaceFails(t)
  \/ (pc[t] = "examine" /\ \E inBase \in InBase(item[t]) : Keep(t, inBase) \/ Replace(t, inBase))
  \/ (\E ok \in BOOLEAN : MakeLink(t, ok) \/ FetchSmall(t, ok) \/ Extracted(t, ok))
  \/ Create(t) \/ FetchSmallFails(t)
  \/ Open(t) \/ Receive(t) \/ Received(t) \/ Interrupted(t) \/ TransferFails(t)
  \/ Extract(t) \/ ExtractFails(t) \/ Finish(t)

Main ==
  \/ StartThreads \/ CreateThread \/ CopyStatuses \/ MoveStatuses
  \/ PrintProgress \/ JoinThreads
  \/ SkipBase \/ StartCombining \/ StartFails
  \/ (\E ok \in BOOLEAN : AppendPart(ok) \/ RemovePart(ok) \/ RenameFirst(ok))
  \/ AppendFails \/ AllAppended \/ End

Start == \E known \in BOOLEAN : Begin(known)
Next == Publish \/ Crash \/ Start \/ Main \/ \E t \in Workers : Worker(t)

Spec == Init /\ [][Next]_vars
FairSpec == Spec /\ WF_vars(Main) /\ \A t \in Workers : WF_vars(Worker(t))

--------------------------------------------------------------------------------
TypeOK ==
  /\ server \in Releases /\ rel \in Releases
  /\ \A p \in DOMAIN file : file[p] \in Seq(Int)
  /\ mpc \in {"idle", "queue", "create", "move", "print", "combine", "append", "remove",
              "rename"}
  /\ pc \in [Workers -> {"new", "start", "done", "pop", "examine", "link", "create", "memory",
                         "open", "receive", "extract", "extracting"}]
  /\ \A t \in Workers : pc[t] \in {"open", "receive"} => tries[t] <= Retries
  /\ \A t \in Workers : pc[t] \in {"extract", "extracting"} => Path(t) \in DOMAIN tmp
  /\ started \in 0 .. Threads /\ stale \subseteq Workers
  /\ clean \in 0 .. 2 /\ faults \in 0 .. MaxFaults
  /\ (mpc \in {"append", "remove", "rename"} => todo # {} /\ FirstPart(Current) \in DOMAIN file)

\* Every file of every installer is listed, and nothing else is; and each range
\* is the local header and the data of its file and nothing else, also when
\* offsets or the number of files do not fit their fields and when the
\* directory begins before the tail.
RangeOf(e, r, p) ==
  /\ e.url = p[1] /\ e.path = FileAt(r, p).path
  /\ Bytes(Images[r][e.url], e.start, e.end) = Local(FileAt(r, p))

RangesExact ==
  LET listed == ToSet(Entries[server])
  IN /\ \A p \in Places(server) : \E e \in listed : RangeOf(e, server, p)
     /\ \A e \in listed : \E p \in Places(server) : RangeOf(e, server, p)

\* A transfer that ends well, in however many attempts and runs, leaves the
\* range of the file, unless it began with another file's bytes.
TransfersWhole ==
  \A t \in Workers :
    pc[t] = "extract" /\ ToSet(tmp[Path(t)]) \subseteq ToSet(DlRange(t)) => tmp[Path(t)] = DlRange(t)

Settled == mpc = "idle" /\ clean = 2 /\ rel = server

\* Two undisturbed runs bring every plain file of the release to disk,
\* whatever crashes, failures and earlier releases left behind.  One may not:
\* it may extract a .lgogdltmp file begun for another release.
PlainFilesRight ==
  Settled =>
    \A e \in ToSet(Entries[rel]) :
      e.kind = "file" /\ e.base \notin Listed[rel] /\ e.path \notin Blacklisted =>
        e.path \in DOMAIN file /\ file[e.path] = e.crc

\* One undisturbed run brings a split file of which it finds no part in the
\* base file and none half transferred, whatever parts, base file and combined
\* parts earlier runs and releases left; and it keeps a right one.  Otherwise a
\* part that happens to be right in the old base file, or is compared with an
\* uninitialized text past its end, is not downloaded, and the others are
\* never combined or combined with an old one.
SplitFilesRight ==
  mpc = "idle" /\ clean >= 1 =>
    \A b \in sure : b \in DOMAIN file /\ file[b] = Whole(rel, b)

\* Every run ends, however threads fail or give up, unless there is nothing to
\* download or a thread ended while its status was being moved: then the main
\* thread prints on for ever.
PrintsForever == mpc = "print" /\ (started = 0 \/ stale # {})
RunEnds == mpc # "idle" ~> mpc = "idle" \/ PrintsForever
================================================================================
