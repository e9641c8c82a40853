# Verification of lgogdownloader

lgogdownloader is a command line client for GOG.com: it lists the games of an
account, downloads, resumes, checks and repairs their installers and extras,
installs games through the Galaxy API and keeps cloud saves in sync. This
directory holds TLA+ models of its core, TLC runs that check them on small
instances, and TLAPS proofs about the parts where a theorem for every instance
is within reach: the parallel download, one file on disk with the status check,
repair, the Galaxy installs, cloud saves, and the listing of an account with
its details, cache and orphan check.

`PROJECT.json` lists the components, the runs, the source lines every
definition models (`map`), the hazards of the code, the known disagreements
between code and documentation (`findings`) and the proved theorems.

- `tlc -config MCDownloadQueue_safety.cfg MCDownloadQueue` runs a check.
- `tlapm DownloadQueueProofs.tla` checks the proofs of a module.

Line numbers without a file name are those of `src/src/downloader.cpp`.

## 1. The system

### Components, their state and how they interact

| Component | State | Operations | Model |
|---|---|---|---|
| Parallel download: `download`, `processDownloadQueue`, `progressCallbackForThread`, `printProgress` | `dlQueue`, `createXMLQueue`, `vDownloadInfo`, `iTotalRemainingBytes`, the threads | queue the files, start threads, pop, report a status, print until all is finished, join, create XML | `DownloadQueue`, `WorkLedger` |
| One file on disk (`processDownloadQueue`, `Util::getLocalFileHash`, `Util::createXML`) | the file, its XML file in the XML directory, `*.old` copies | compare with the server, rename, save XML, transfer with retries, delete, describe | `FileDownload` |
| Status check: `checkStatus`, `getRemoteFileHash` | none of its own | compare file, XML and server | `CheckStatus` |
| Repair: `repair`, `repairFile`, `downloadFile` | the file and its XML, the options on one shared curl handle, `retries` | verify chunk by chunk, fetch chunks, download whole files | `Repair` |
| Galaxy install: `galaxyInstallGameById`, `processGalaxyDownloadQueue`, `galaxyGetOrphanedFiles` | the install directory, its `.info` file | get manifests, delete old files, download chunks, extract small files, delete orphans | `GalaxyInstall` |
| Galaxy install on Linux ("MojoSetup hack"): `galaxyInstallGame_MojoSetupHack`, its threads, `mojoSetupGetFileVector`, the reader of ZIP directories | the install directory, `.lgogdltmp` files, split files and their base files | list the archives of installers by ranges, download ranges, extract, combine split files | `MojoSetup`, `LinuxInstall` |
| Cloud saves: `uploadCloudSavesById`, `downloadCloudSavesById`, `deleteCloudSavesById`, their threads | local saves and their times, `.~incomplete` files, `dlCloudSaveQueue`, a mutex around directory creation | choose by time, upload, download with resume, delete | `CloudSaves` |
| Game details: `getGameDetails`, `getGameDetailsThread`, `Website::getGames` | `gameItemQueue`, `gameDetailsQueue`, `games` | list the account page by page, ask for each game in parallel, filter | `GameDetails`, `GameFiles` |
| Game details cache | one JSON file with a version and a date | load, save, update | `GameDetails`, `GameFiles` |
| Orphan check: `checkOrphans` | none of its own | compare the game directories with the details, delete | `GameDetails` |
| Galaxy token: `GalaxyConfig`, `galaxyAPI::refreshLogin` | the token, one mutex | read, check for expiry, refresh, from several threads | `GameDetails` |
| HTTP requests: `Util::CurlHandleGetResponse` | retry counter | request, retry | `GameDetails` (action `Ask`) |
| Filters: `gameDetails`, `gameFile` | none | pure functions | `GameFiles` |
| Blacklist and ignorelist | lists of expressions | match a path | which paths match is a constant of `GalaxyInstall` and `LinuxInstall` |
| Options, login window, formatting, listing, serials and changelogs | - | - | not modelled, see section 6 |

`main` calls one operation after another on one `Downloader`. Within an
operation the main thread feeds a thread-safe queue, starts threads, prints
their statuses every 100 ms until all say that they are finished, and joins
them. All threads share the queues, `vDownloadInfo` (without a lock on the
vector itself), the counters, the Galaxy token and the file system. Across
runs of the program the file system is the only memory: what a crash leaves
behind is the next run's input.

### What is hard, and what makes each component correct

- *Parallel download.* Interleavings of the threads with each other and with a
  main thread that still extends `vDownloadInfo`; threads that give up with a
  file in their hands; a print loop that samples statuses one by one and so
  may stop early. Correct: no file is processed twice or forgotten while a
  thread is left to take it, nothing shared is torn down under a running
  thread, the byte counter never wraps, the call returns.
- *One file.* Four writes per file (rename, XML, data, XML again) with a crash
  possible between any two, versions that change on the server between and
  during runs, several sources for a size. Correct: an XML file that matches
  the server never describes bytes of something else, complete files of other
  versions are kept, what is reported as done is done, repeated runs converge.
- *Status check.* It trusts the XML file for the hash, with the fast check
  without reading the file. Correct: what it calls fine is the server's
  version, after any history of interrupted runs.
- *Repair.* Options that stay on the curl handle from one file to the next; a
  chunk retry limit. Correct: "repaired" means every chunk is right, a fetch
  writes only where it belongs, the loop ends.
- *Galaxy install.* Two builds, depots that fail silently, resumed files, a
  container of small files. Correct: repeated runs install the build, nothing
  else is left, nothing intact is destroyed.
- *Linux install.* Ranges computed from a directory whose fields may not hold
  their values, partial files resumed by their size alone, big files that
  exist as parts or combined, and lose their parts one by one while they are
  combined. Correct: a range is its file's, repeated runs bring every file.
- *Cloud saves.* Times as the only versioning, three parties writing, a
  partial file that outlives the process. Correct: what is put in place is the
  server's copy, one transfer per save, every operation ends, a local save
  reaches the server in the end.
- *Game details.* A listing of pages that move while they are read, one token
  that several threads refresh at once and that expires between a look and
  its use, requests that fail one by one and leave an entry incomplete, a
  cache that keeps what was incomplete, and a check that deletes what is not
  in the entries. Correct: nothing is missing without a failure, the cache
  says what asking would have said, and a file GOG has is no orphan.

## 2. Modules

| Module | Role |
|---|---|
| `WorkLedger` | abstract: files are waiting, active, settled, described |
| `DownloadQueue` | the threads of a download; implements `WorkLedger` |
| `FileDownload` | one file over many runs; refines what `DownloadQueue` calls "prepare" and "transfer" |
| `CheckStatus` | the status check, on what `FileDownload` leaves on disk |
| `Repair` | repair and plain download on one curl handle |
| `GalaxyInstall` | the install directory over many runs |
| `MojoSetup` | pure: installers with their archives, the ranges found in them, extraction |
| `LinuxInstall` | the install directory of a Linux game over many runs and releases; uses `MojoSetup` |
| `CloudSaves` | cloud saves on both sides over many operations |
| `GameFiles` | pure: the files of a product, filters, what the cache gives back |
| `GameDetails` | listing, threads with one token, cache, orphan check over many runs; uses `GameFiles` |
| `DownloadQueueProofs`, `FileDownloadProofs`, `RepairProofs`, `GalaxyInstallProofs`, `CloudSavesProofs`, `GameDetailsProofs`, `LinuxInstallProofs` | theorems about the modules they are named after (and about `CheckStatus`) |
| `DataInduction` | lemmas about recursive functions, sums and flattened sequences, used by the proofs |
| `MC*` | values of the constants for TLC (`MCDetails` adds to `MCGameDetails` an evaluation of `ListsRight`, which section 5 is about) |

Each module works at the level of detail its hazards need, and cuts out what
another one covers: `DownloadQueue` knows nothing of the contents of files,
the others do not model how the elements of `vDownloadInfo` are read one by one, and
only `LinuxInstall` how it grows.

### DownloadQueue

One action per access to a shared object. `mpc` is the position of `download`:
`Enqueue` is the loop that fills `dlQueue` and `iTotalRemainingBytes`;
`AllQueued` is the early return for an empty queue, and the exit when
`--check-free-space` finds too little space; `PushBack`, `Publish` and
`CreateThread` are one turn of the loop at 816-821; `ReadStatus` and `EndPass` are
`printProgress`; `Join`, `CreateXML` and `Return` are 828-843. `pc[t]` is the position of thread `t` in
`processDownloadQueue`. `Skip` stands for every `continue`, `TokenLost` for the
return at 3046, `Progress` for the callback, `Finish` for the two places that
set `DLSTATUS_FINISHED`.

Two details carry the interesting behaviour. `vDownloadInfo.push_back` on a
full vector copies the elements to a larger block, and a status a running
thread writes in between goes to the old block: `PushBack` takes the copy,
`Publish` installs it. (A use of freed memory in between is undefined
behaviour too; the model takes the mildest outcome, the lost write.) And
`printProgress` or-s the statuses it samples, so "not started" (0) leaves no
trace: the loop may end while a thread has not begun.

### FileDownload

Version `v` is a sequence of blocks tagged `v`, so that a file stitched
together from two versions can be told from both, and equal MD5 sums are equal
sequences. `Publish` is a new version on the server, `Crash` the end of the
process at any step. `Compare` is 3073-3293 (the choice between complete,
resume, rename and create), with `SameInstaller` (by hash) and `SameExtra` (by
size, from up to three sources) as its cases; `OpenXML` and `FillXML` are the
two halves of each write of an XML file, since a crash in between leaves one that cannot be
parsed (`OpenXMLFails`: the file cannot be created, and the run goes on); `Open`,
`Receive`, `EndAttempt` are the retry loop; `Settle` what follows it. The download
link pins one version; a new one on the server does not change the bytes behind an
old link.

### CheckStatus

`Status` is `checkStatus` for one file, by what `getRemoteFileHash` answered
(`RemoteHashes`), the fast check and `--size-only`. `CheckedHash` is the
local hash: from the XML file with the fast check if there is one, from the
content otherwise. The module has no actions of its own: it is a function of the
states `FileDownload` reaches between runs, and its property is an invariant
of `FileDownload`.

### Repair

Chunks are numbers; right chunk `i` holds `i`. `range` and `resumeFrom` are
what `curl_easy_setopt` last set on the shared handle, and `Request` says what
libcurl then asks for (a resume position wins over a range). `Examine*` are
the early parts of `repairFile`, `VerifyRight`, `VerifyWrong` and `FetchChunk`
its loop, `SkipComplete`, `OpenFile` and `Perform` are `downloadFile`, whose
retry by recursion is a loop here. When the remote XML cannot be parsed but a local
XML file exists, `repairFile` goes on with a size and a number of chunks it never
set: any outcome of the comparison is possible, and when the sizes happen to agree,
either there is no chunk to look at and the file is reported as repaired
(1420-1427), or the first look at a chunk throws. `RepairedIsRight` therefore speaks
of the files whose XML data could be parsed (the history variable `parsed`).

### GalaxyInstall

`Manifest` gives the depots of each build; a chunk stands for its MD5 sum.
`Begin` is everything up to "Delete old files" (4043-4183): which depots
answered, whether the small files container is used, which paths only the
installed build has. `Kept` is the merge of items with equal paths. `Take`
decides between complete, resume and restart, `FetchChunk` appends a chunk
whether or not it could be written, `Extract` cuts small files out of
containers, `Delete` serves old files and orphans, `Crash` may leave torn
chunks. `ManifestAssumption` says of manifests what `galaxyapi.cpp:258-312`
makes of them: a small file has one offset and size in its depot's container,
and the container is an item of the depot only.

### MojoSetup and LinuxInstall

An installer is a sequence of cells: a local header, a piece of compressed data, a
record of the central directory are one each. `Image` builds what is on the
server, with fields too narrow for their values (`Narrow`) and the zip64 records
that then carry them. `Records` and `FileVector` are `mojoSetupGetFileVector`:
the tail, the end records, the directory (downloaded by itself when it begins before
the tail), and the range of each file, which ends where the next entry begins.
`Extractions` says what `extractFile` and `extractStream` may make of the bytes
of a range: of right ones their content, of bytes stitched together an error or
something else. The tail is assumed to have room for the end records
(`TailSize` above 1; 200 KiB in the code).

`LinuxInstall` runs over many runs and releases. `Begin` is the listing of the
installers and of their split files (`known`: `support/split_files` could be
read); `Queue` the order plain files, parts, links. The threads are created one
by one while those before already work: `CreateThread` is a turn of the loop at
5814-5820 in which `vDownloadInfo` has room, `CopyStatuses` and `MoveStatuses` one in
which its elements move to a larger block. A thread that ends between the two never
shows that it has finished (`stale`). Which turn needs a larger block depends on
what earlier operations left of the vector, so each turn may. The releases of
several games stand in one row; `Games` are those a game begins with, and `Init`
chooses the game. A thread examines (`Keep`,
`Replace`: by size and CRC, for a part also by its range in the combined base
file), then makes a link, fetches a small file in memory (`Create`,
`FetchSmall`), or fetches a `.lgogdltmp` file in several attempts (`Open` to
`TransferFails`) and extracts it in two steps, between which a crash leaves an
empty file. `StartCombining` to `RenameFirst` are `CombineSplitFiles`, with a
step for each append and each deletion. Past the end of a base file
`getFileHashRange` returns an uninitialized text: `InBase` leaves its answer
open. `sure` is a history variable for `SplitFilesRight`: the base files for
which the run found, when its threads started, that it depends on nothing old
(`Sure`).

### CloudSaves

Times are seconds, two per version, because local times are rounded down by
one. `Begin` is the choice of the saves for each operation from a listing that may have
failed (then it is empty); `ReadFile` to `PutFails` are an upload thread with a
body that is not rewound for a retry; `Lock` to `GiveUp` a download thread with
its `.~incomplete` file; `StopPrinting`, `JoinThreads` the end of the main
thread's wait. `replaced` is a history variable: the remote copies that
changed since their `.~incomplete` file was begun. The server stores a body if its MD5
sum is the one announced; whether the time it then lists is the one sent along
or its own is left open.

### GameFiles and GameDetails

`GameFiles` is the data half: `FileVector` and `Details` make an entry of what
the API answered, as a function of the requests that were `lost`; `Best`,
`FilterLists` and `Filtered` are the priorities and the type filter of
`gameDetails`; `Loaded` is `getGameDetailsFromJsonNode`. Bit masks are sets, and so
are the lists of files once they are made: nothing the code does with them depends
on their order but which of several files of one path is kept, the first
(`Merged`).

Two assumptions of `GameDetails` say which data the program meets.
`ProductsAssumption`: a path is offered for one platform only (the duplicate
handler adds languages to a file but keeps the platform of the first,
`galaxyapi.cpp:536-551`), and DLCs are products. `ConfigsAssumption`: what is
wanted of platforms and languages is in `PLATFORMS` and `LANGUAGES`, and the
languages wanted are those that have a priority, if any has (`parseOptionString`
makes both of one option, `util.cpp:563-579`). The one way
around it is left out: a game-specific configuration that gives a language as a
number changes what is wanted and keeps the priorities of the command line
(`util.cpp:273-288`).

`GameDetails` is the control half. `Start` is one run of the program for an
update of the cache, a download, an orphan check or a download followed by
one; `GetOwned`, `GetPage` list the account, which `Buy` may extend anywhere
at any time (pages are sorted by title, `website.cpp:117`); `StartThreads` and `JoinThreads` enclose the threads. A thread
logs in, pops a game, looks at the token (`Pop`), refreshes it if it has expired
(`Refresh` asks, `SetToken` keeps the answer, with other threads in between),
and makes the requests of the game one by one (`Ask`): answered after some
failed tries, given up after the last, or refused. `Push` filters and stores
the entry, with whatever is missing. The token has two ages: until the server
refuses it and until `expires_at`, which `setJSON` counts from the moment the
answer is kept. `OpenCache` truncates, `WriteCache` writes. `CheckOrphans`
deletes what no entry lists in the directory of its game; an entry without a
name has the directory of all games. `failed`, `quit` and `calm` are history
variables for the properties.

## 3. Runs

Deadlock is checked in every run. The bounds are the constants of the cfg files;
no other constraint is used.

| Run | Shows | Bounds and why they suffice |
|---|---|---|
| `queue_safety` | types; `ExclusiveFiles`, `BytesAccounted`, `NothingLeftBehind`, `ClearedAfterThreads`; implements `WorkLedger` | 3 files, 3 threads, a vector that grows 0-1-2-4: two growths under running threads, one thread per file or one for all; a size that cannot be parsed; too little space. 1.2 million states |
| `queue_returns` | `DownloadReturns` | 2 threads on 3 files, capacity 2, so that the vector does not move |
| `queue_stuck` (violation) | `NoticesAllFinished` | as above with capacity 0 |
| `file_versions` | `XMLVouches`, `WholeWhenDone`, `StatusSound`, `OldVersionKept`, `DescribedExtraKept`, `Converges` | 3 versions of 2, 3, 2 blocks (longer, shorter and equally long successors), 1 retry, 3 failures or crashes; installers and extras; with and without `--automatic-xml-creation` and `--trust-api-for-extras`. 238 000 states |
| `repair_files` | `RepairedIsRight`, `DownloadedIsWhole`, `RightChunksKept`, `RepairEnds` | 2 files of 3 and 2 chunks, each missing, empty, short, whole or with any one chunk corrupt; remote XML data right, missing or unparsable; 4 failed transfers, one more than the chunk limit of 3. 109 000 states |
| `repair_begin` (violation) | `StartsFromTheBeginning` | the same, 1 failed transfer |
| `galaxy_install` | `TwoRunsSuffice`, `OnlyTheBuildLeft`, `IntactFilesKept` | 2 builds, 3 depots plus a DLC's, 8 paths: shared, dropped, empty, small and blacklisted files, a replaced one; 2 threads, 2 failures or crashes |
| `linux_install` | `RangesExact`, `TransfersWhole`, `PlainFilesRight`, `SplitFilesRight`, `RunEnds` | One game of 3 releases with 1 and 2 installers: plain, stored, deflated, split, linked, blacklisted and other entries; fields that overflow at 5 and a tail of 6 cells, so that the zip64 records and a directory before the tail occur; a split file of two parts, of 1 and 3 bytes: releases 1 and 2 differ in the second, 1 and 3 in the first. It is installed with one thread: the threads share only the queue and their statuses, as paths are distinct, and the statuses matter to `RunEnds` alone. A second game for `RunEnds`, with 2 threads, each of whose creations may move the vector: a release of three files, then one with nothing but a blacklisted file, so that the queue is empty. 1 retry, 2 failures or crashes. 300 000 states |
| `cloud_transfers` | `ExclusiveSaves`, `InPlaceAsOnServer`, `OperationEnds`, `UploadsReach` | 2 saves, 2 versions (the second shorter), 2 threads, 1 retry, 2 failures; with force and a whitelist, or a blacklist. 190 000 states |
| `game_details` | `ListingComplete`, `DetailsRight` | 2 threads, an account of one game that grows by one before or after it, pages of one game, a token that may expire after every step, 1 retry and 1 failure. 845 000 states |
| `game_library` | `CachedLikeAsked`, `OrphansUnwanted` | 2 games, one with a DLC and one with a configuration of its own, 2 configurations, all operations, 1 thread, 1 failure or crash. 1.1 million states |
| `library_orphans` (violation) | `OrphansNotOnServer` | the same games without their own configuration, downloads and orphan checks |

Most passing runs also check `TypeOK` of their module. Definitions whose
comment begins with "Mutant:" are plausible bugs of the definition they
precede; each property is violated when one of them takes the place of the
original (`mutants` in `PROJECT.json`), which shows that the bounds reach the
case the property is about.

`MaxFaults` bounds failures and crashes together, in each module that has it.
Two or three are enough for a failure, the recovery from it and one failure
during the recovery; they are not a claim about the code. In `CloudSaves` the
versions written bound the environment's writes in the same way. In
`GameDetails` one fault is what the state space allows: it is one failed request,
one lost cache or one thread that gives up, next to any number of ticks of the
token and retries that the other thread makes.

### Qualifications that the checks forced

Some properties hold only with the exception they state, and the exceptions are
facts about the code:

- `WholeWhenDone`, `OldVersionKept`, `Converges`: a local XML file cut short by
  a crash gives an empty local hash from then on; the version check is left
  out and the file never replaced (3281, `Util::getLocalFileHash`).
- `XMLVouches`, `WholeWhenDone`, `OldVersionKept` are not claimed with
  `--size-only`, which leaves out the hashes (3100).
- `StatusSound` is one-sided: a whole file next to an XML file of another
  version is reported as "FS" or "MD5".
- `DownloadedIsWhole` is about the first file of a repair only, and
  `RightChunksKept` excludes a resume position left on the handle: later files
  inherit the options of earlier ones (1394).
- `TwoRunsSuffice` says two runs, since one may resume a file whose earlier
  chunks are another build's, or cut small files out of a wrong container.
- `PlainFilesRight` also needs two runs: the first may extract a
  `.lgogdltmp` file begun for another release, which is resumed by its size alone;
  `TransfersWhole` excludes such a beginning: it speaks of files that hold nothing but
  bytes of the range.
- `SplitFilesRight` speaks of the base files a run is sure of (`Sure`). When the
  range of some part is already right in a base file of another release, or the
  base file ends before a part begins, that part may be taken for up to date and not
  downloaded: the others then stay beside the old base file, and a later run
  may combine them with a part of an earlier release. This happens after an
  interrupted combination and when a new release changes only some parts. The comment at 5864-5866 ("Base file exist
  and we're missing parts. This should mean that we already have complete file.")
  overlooks it.
- `RepairedIsRight` excludes files whose XML data could not be parsed
  (1420): one of them may be reported as repaired with no chunk checked.
- `RunEnds` of `LinuxInstall` excludes two ways of printing for ever
  (`PrintsForever`): no thread is started when everything is blacklisted (5810), and
  a thread that ends while `vDownloadInfo` moves never shows it (5818). Only the first
  is left with one thread, or when the vector has room from earlier installs.
- `InPlaceAsOnServer` excludes a copy replaced on the server while its
  `.~incomplete` file existed: the rest of the new copy is then appended to
  the beginning of the old one.
- `OperationEnds` excludes an upload whose threads all found their token
  expired after the login (2606): none sets `DLSTATUS_FINISHED`.
- `DetailsRight` excludes games for which a request failed to the end or whose
  thread gave up; that nothing at all fails is claimed only while nothing else
  does and no time passes (`calm`), since a token may expire between the look
  at it and its use.
- `CachedLikeAsked` is about games whose entry was complete when it was saved
  (nothing in the cache tells) and excludes a DLC whose game-specific
  configuration differs from its base game's (`OneConfig`): the cache filters it by
  its own (2121).
- `OrphansUnwanted` excludes games for which a request failed, games with a
  configuration of their own (which is not replaced by "everything", 1683),
  with the cache also games that have a DLC with one (2147 takes the configuration
  of the DLC's name, so what that one leaves out is an orphan), and
  every game as soon as one entry has no name (1720, run `library_orphans`).

## 4. Fairness

Safety runs use `Spec` without fairness. The temporal properties assume:

- *Threads are scheduled.* `WF` of each thread and of the main thread in
  `DownloadQueue` and `LinuxInstall`, of `Step` in `Repair`, of `Run` in
  `FileDownload`, of `Work` in `CloudSaves`. That a transfer ends is part of it:
  every curl handle is given a low-speed limit and time, after which curl gives
  up.
- *Users come back.* In `FileDownload` `Run` includes `Start`: the program is
  run again and again. In `CloudSaves` an upload that hung is interrupted
  (`WF` of `Interrupt`), and all saves are uploaded again and again (`SF` of
  `BeginUpload` without lists, as other operations may take the turn each
  time it is possible).
- *Failures end.* Not a fairness condition, but implied by `MaxFaults`:
  `Converges` and `UploadsReach` say what happens once nothing fails any more.

Nothing is assumed of the environment's other steps: no version need appear, no
player need save, no release need be published. `GameDetails` states no
liveness: its state space is too large for TLC's liveness check in reasonable
time, and its waiting is the one of `DownloadQueue`.

In `DownloadQueue` `Progress` may be taken for ever instead of `EndTransfer`
under `WF` of the thread alone; since a repeated `Progress` changes nothing it
is a stutter, and fairness is about steps that change something.

## 5. Proofs

`DownloadQueueProofs` proves, for every number of files and threads, every
size, every capacity of `vDownloadInfo` and every answer of the file system:

| Theorem | States |
|---|---|
| `TypeCorrect` | `Spec => []TypeOK` |
| `NoFileTwice` | `Spec => []ExclusiveFiles` |
| `LeftOnlyByAborted` | `Spec => []NothingLeftBehind` |
| `ThreadsJoined` | `Spec => []ClearedAfterThreads` |
| `BytesCorrect` | `Spec => []BytesAccounted` |
| `NeverBelowZero` | `Spec => [](remaining >= 0)`: the unsigned counter never wraps |
| `Refinement` | `Spec => Ledger!Spec`, under the refinement mapping of `DownloadQueue` |

The assumptions are those of `DownloadQueue`: counts are naturals, at least one thread
(`CountsAssumption`), sizes are naturals (`SizeAssumption`), `XMLFiles` are
files (`XMLAssumption`), reported free space is a natural (`SpaceAssumption`).

None of the invariants is inductive on its own. `IInv` joins them with

- `SpawnInv`: where the main thread is determines how many elements and
  threads there are. Needed because the index written by a push is in range
  only then, and because a thread that was never created must not move;
- `HoldInv`: a thread holds a file exactly between pop and release; without
  it a `TryPop` could overwrite a file still held, and `Held` in the
  refinement would lose it;
- `FedInv`: the files in flight are among those pushed, and pushing is over
  before the first thread runs; that makes a pushed file new;
- `EmptyInv`: a thread in its clean-up saw an empty `dlQueue`, which stays
  empty. This is the heart of `NothingLeftBehind`: a non-empty queue at the end
  means that no thread got there, i.e. that all of them aborted;
- `XMLInv`: the XML queue holds only files given back, and none is described
  before the threads are joined: what `Describe` of the ledger requires.

The proof has one lemma per conjunct (`TypeStep`, `SpawnStep`, `HoldStep`, ...),
each by cases on the actions that can disturb it. What `Enqueue`, `TryPop` and the
releasing actions do to `Queued` and `Held` is stated once (`EnqueueEffect`,
`PopEffect`, `ReleaseEffect`) and cited by `ExclusiveStep`, `FedStep` and
`XMLStep`; what no thread's step touches is `WorkerEffect`. The refinement maps `TryPop` to `Take`, the releases to `Settle`,
`CreateXML` to `Describe`, the steps that end the work to `Close` and all
others to stutters.

`BytesAccounted` says that `remaining` is a sum over a set, which `MapThenSumSet`
defines by recursion: what it does when a file is added or taken away is
an induction. `DataInduction` does such inductions without a theorem that takes
an operator as a parameter: a *set* of naturals that contains 0 and is closed under
`+ 1` contains all (`Induction`); that the recursive functions exist
(`RecursionOnNat`) and that the sum does not depend on the order in which elements
are chosen (`SumIsSums`, `SumFacts`) follow with sets made for the purpose. `BytesStep`
then needs only that a step moves one file into or out of the sum, and
`UncountedHeld`: a file popped and not yet subtracted is held by its thread, so by
`ExclusiveFiles` it is in the sum once.

`FileDownloadProofs` proves, for versions of any number and sizes, any options
but `--size-only` (`NoSizeOnly`, a hypothesis of each theorem), any number of
retries, faults and runs, from `VersionsAssumption` (a version has at least one
block) and `ParametersAssumption`:

| Theorem | States |
|---|---|
| `TypeCorrect` | `Spec => []TypeOK` |
| `VouchedCorrect` | `Spec => []XMLVouches` |
| `WholeCorrect` | `Spec => []WholeWhenDone` |
| `StatusCorrect` | `Spec => []StatusSound`, of the status check |
| `OldVersionCorrect` | `Spec => OldVersionKept` |
| `DescribedExtraCorrect` | `Spec => DescribedExtraKept` |

`XMLVouches` speaks of the states between runs and of the server's version; a step
of a run is about the version its downlink pins, which need not be the
server's any more. `Inv` adds what connects them (`Vouched`): while a run is busy an
XML file of the server's version means that the run is of that version; an XML
file of the run's version vouches for the content at every moment; when an XML
file is about to be saved the content is a beginning of that version already;
and it is saved before the first block is received. `Shape` says what the
program counter tells of the variables, `Outcome` what has become of the file,
in particular that a file that is not whole and of the same version is resumed
and not skipped. The content of a version is compared through
`Prefix`: `WholePrefix` (a beginning as long as the version is the version)
and `LongerPrefix` (one more block) carry `Receive` and `Settle`. The
lemmas `SameMeans` and `CompleteMeans` say what the hash and size
comparisons of `Compare` establish, `CompareInv` has a case for each of its
outcomes.

`DescribedExtraKept` is about extras, which no hash of the server vouches for, so
`Vouched` says nothing of them. A file is resumed when it is shorter
than some size, and its XML file may be the one of a longer file that was there before;
what has to be excluded is that the resumed file reaches, in the middle of a
transfer, just what that XML file describes while blocks of an older version are in
it. `Described` is why it cannot: an XML file of an extra is made from a
complete local file, so a shorter one was begun later, and none of its
blocks is older than the last block described. Versions only grow, so a file that
becomes what is described while it is received is all of the run's version
(`ReceiveExtra`).

`RepairProofs` proves, for any files with any contents, any number of retries
and failed transfers, from `RepairAssumption`:

| Theorem | States |
|---|---|
| `TypeCorrect` | `Spec => []TypeOK` |
| `RepairedCorrect` | `Spec => []RepairedIsRight` |
| `DownloadedCorrect` | `Spec => []DownloadedIsWhole` |
| `FetchCorrect` | `Spec => RightChunksKept` |

The curl handle is what makes this hard: what a transfer fetches depends on
options set for other files. `RequestFacts`, `DeliveredFacts` and `WrittenFacts`
say, for any options, where the bytes of a request come from and go to. `Verified`
is the loop invariant: the chunks before the current one are right, and the
range on the handle is the current chunk whenever a chunk is fetched. With a
resume position left over from a download, a fetch may damage chunks, and the
proof shows that it still reports nothing wrong, because each chunk is
verified again before the next. `FirstFile` is what makes the first file
special: no range has been set yet, so that its bytes arrive in order.
`Progress` ties reports to the order of the files, and a report without a check
to a file that is not in `parsed`.

`GalaxyInstallProofs` proves, for any builds, depots, DLCs and small files, any
black- and ignorelist, number of threads, failures and crashes, from
`ManifestAssumption` and `OptionsAssumption`:

| Theorem | States |
|---|---|
| `TypeCorrect` | `Spec => []TypeOK` |
| `KeptCorrect` | `Spec => IntactFilesKept` |
| `OnlyBuildCorrect` | `Spec => []OnlyTheBuildLeft` |
| `TwoRunsCorrect` | `Spec => []TwoRunsSuffice`, if `Containers \intersect FullMatch = {}` |

The hypothesis of the last is needed: when the blacklist matches a container, its
small files are set aside and never made (4082, 4127). It does not hide the
other cases: `FullMatch` may hold any other file.

What a run does is decided in `Begin`; the properties speak of the build. `PlanFull`
joins the two: with all manifests, items and small files are the wanted files
(`ItemsFacts`, `FullFacts`, from what `Kept` chooses: `KeptFacts`, by induction
over the depots). `TodoOK` says what may still be deleted, downloaded or extracted: only
paths that are not `Known` are ever deleted, and a small file still in its
container is not on disk. `SafeInv` joins both with `TypeOK` and is inductive
(`SafeStep`, one lemma per action). Then

- `IntactFilesKept` is an action property that follows from `SafeInv` alone
  (`KeepsStep`): deleted files are not wanted ones, a file that is taken and
  intact is complete, one being fetched is shorter than the build's, and
  an extracted one was not there;
- `OnlyTheBuildLeft` needs to know what is left of the container and the old files
  in each phase (`LeftOK`): in a run without failures the orphan check finds
  whatever is not the build's, and the containers are gone before;
- `TwoRunsSuffice` spans runs (`RunsOK`): after a first run without failures every
  wanted file has its size, but perhaps not its contents. So the second has no small
  files set aside, and each of its items is taken with its full size: it is
  hashed, and either right or begun anew, never resumed; then the chunks
  fetched so far are those of the item (`RunOK`, for each item by its place
  in `todo`, `busy` or neither). `clean` counts the runs.

`CloudSavesProofs` proves, for any number of saves, versions of any size, any
lists and times of the player, of another device and of the server, any number
of threads, retries and faults, from `CountsAssumption` and `OptionsAssumption`:

| Theorem | States |
|---|---|
| `TypeCorrect` | `Spec => []TypeOK` |
| `ExclusiveCorrect` | `Spec => []ExclusiveSaves` |
| `InPlaceCorrect` | `Spec => InPlaceAsOnServer` |

`InPlaceAsOnServer` is about the step that renames a `.~incomplete` file; what
makes it true was settled many steps, and perhaps several crashes, before.
`Inv` says it of every moment: `Parts`, that the file is a beginning of the
server's copy unless that copy changed, survives the end of the process, and a
later resume begins from it; `Download`, that the position of the transfer is
the end of the file and the copy being served is the server's, survives retries
because `ResumePosition` is read again for each attempt. `BeginningFacts` (the
next block of a beginning, and a beginning as long as the copy) carry `Receive`
and `EndAttempt`, where both a complete transfer and a `416` answer end in a
file that is all of the copy. `RemoteStep` is the case that the copy changes,
`OnlyRename` shows that no other step puts a save in place. `ExclusiveSaves`
is inductive once the queue an operation begins with is `Orderly`: that of a
download comes from one set of saves, that of an upload from two that have no
save in common (`ConcatOrderly`). `Shape` ties the program counters to the mutex
and to the operation, so that the one thread between `Open` and `SetTime` is the
only one that writes (`LockFacts`, `FetchStep`); `Clock` gives the first write
of a file a time other than 0, which stands for no file.

`GameDetailsProofs` proves, for any account, games bought at any time and at any
place of the listing, any page size, configurations, number of threads, retries and
failures, and any products, from `GamesAssumption`, `OpsAssumption`, `CountsAssumption`,
`ProductsAssumption` and `ConfigsAssumption`:

| Theorem | States |
|---|---|
| `TypeCorrect` | `Spec => []TypeOK` |
| `ListingCorrect` | `Spec => []ListingComplete` |
| `ListsCorrect` | `ListsRight` |
| `DetailsCorrect` | `Spec => []DetailsRight` |
| `CacheCorrect` | `Spec => CachedLikeAsked` |
| `OrphansCorrect` | `Spec => OrphansUnwanted` |

`ListingComplete` speaks of the moment the threads are started; a page is a
part of an account that has changed since the last one was read. `Listing` is what
holds in between: a game of the account as it was is among the items, or its place
is still `Ahead` of the pages read. A purchase keeps it because it moves a game by one place
to later pages or not at all (`Inserted`), never back to a page already read; the last page has everything
that was ahead because the number of pages is that of the account as it is now
(`PageFacts`); and what the regular expression keeps of a page is neither less nor
more (`FoundFacts`, by `FlattenFacts`). A page without an answer changes nothing. `Shape` adds to
`TypeOK` what a thread holds at each place: no game but from `Pop` on, no lost
requests of the one before.

The last three speak of files, and the lists of files are made by
`GameFiles`: selections, duplicates, scores and filters. That these lists are the ones
a user asks for is a statement about data, `ListsRight`: it has no variables, and
compares what is got by asking, and what is got from a saved entry, with
`RightPaths`, which says the same without any order, duplicates or scores.
`ListsCorrect` proves it in four steps, each about one list:

- *what is asked for*: `CandidatesAre` takes the flattened list of nodes apart (by
  `FlattenFacts` of `DataInduction`), `FilesAre` says what the duplicate handler may
  do with it (`MadeOf`), and `AskedListed` that the result is `Listed`: a file for
  every path, platform and language offered, and nothing else. Here a path must
  have one platform;
- *what is preferred*: files that share a path may share their languages out
  in any way (`Matches`). The score of a file is never better than the rank of its
  path (`ScoreAbove`) and for one file of each path as good (`ScoreReached`), so the best files
  are those of the best paths (`BestPaths`). A file for a language without a
  priority would score like the first one: that is where `ConfigsAssumption` is
  needed;
- *what is saved*: an update asks for everything without priorities, so its filters
  leave everything (`SavedEntry`), and what a configuration takes from it is
  `Listed` for that configuration (`SavedListed`). A merged file comes out of the cache
  with more languages than it would have been asked for with; they have no
  priority, so the score does not tell;
- *DLCs*: those without files are left out at both ends, and those have none that are wanted
  (`DLCParts`); a DLC out of the cache is filtered twice, which is once (`FilterTwice`).

`MCDetails` has TLC evaluate `ListsRight` on the instance of `game_details` too.
The other theorems say that threads, cache and orphan check hand these lists on,
whatever happens in between. `MoreInv` joins five parts:

- `Run`: which configuration a run has; that of an orphan check is already "everything"
  (`EverythingTwice`), and that of an update includes every game;
- `Entries`: an entry, with a thread's results or in `games`, is the one that follows
  when every request is answered, or its game is in `failed`, or it has no name. `AskMore`
  is the step that puts a game there, `PushMore` the one that makes the entry, of
  exactly the requests that were `lost`;
- `Accounted`: a listed game waits in the queue, is with a thread or has an entry; a
  thread that ends without having given up saw the queue empty. At `JoinThreads`
  games can thus be left in the queue only if all threads gave up;
- `Calm`: without faults and without time passing, the program never takes the token
  for valid longer than the server does, although several threads refresh it at once:
  each answer on its way is as good as new, and so is the one token when
  one is kept (`SetTokenMore`);
- `Saved`: what a cache has of a game not in `bad` is the entry that an update made of
  it, with what was then known of owned games. It survives runs, crashes and
  the loading of the cache; only `OpenCache` ends it, after which the cache
  is no saved one until it has been written (`WriteCacheMore`).

`CacheRight` joins `Saved` and `ListsCorrect`; `LoadedOne` says that one entry's
way out of the cache does not depend on the others. `OrphansCorrect` has both
ways: a file that no entry lists, of a game whose entry has a name, is not among the
files of `RightPaths`. The proof needs that the entry speaks of all owned DLCs,
which is why failed requests for the owned games are harmless there (no DLC is
left out), and it did not go through for a game whose DLC has a configuration of its
own; the exemption in `OrphansUnwanted` was found that way. With a configuration for
the DLC `blood` among the constants of `game_library`, and without the exemption, TLC
shows the deleted file. The run itself has no such DLC: with the cache a game with one is
excepted from both properties, and a third game is more than the state space allows.

`LinuxInstallProofs` proves, for installers of any number, with any files, on both
sides of every limit of a ZIP archive, and any number of releases, threads,
retries and failures, from `FieldsAssumption` of `MojoSetup` and
`ReleaseAssumption`, `NamesAssumption`, `PiecesAssumption`, `CountsAssumption` and
`GamesAssumption` of `LinuxInstall`:

| Theorem | States |
|---|---|
| `TypeCorrect` | `Spec => []TypeOK` |
| `RangesCorrect` | `Spec => []RangesExact` |
| `TransfersCorrect` | `Spec => []TransfersWhole` |
| `PlainFilesCorrect` | `Spec => []PlainFilesRight` |
| `SplitFilesCorrect` | `Spec => []SplitFilesRight` |

`RangesExact` is a statement about the parser alone: what
`mojoSetupGetFileVector` reads of an archive it did not see is right for every archive. The
lemmas follow the code: where local headers, data, records and end records are in an
installer (`ArchiveFacts`, `ImageFacts`), which of its last bytes the search
backwards finds (`LastOfKind`, `TailFacts`), that the directory starts where the
narrow or the wide end record says, in the tail or downloaded by itself
(`DirectoryFound`, `StreamFacts`), that an offset or size too large for its field is taken
from the right one of the wide fields (`OverflowFacts`, `WideFacts`), and that a range
which ends one byte before the next record's file is the local header and the
data (`VectorFacts`, `RangeFacts`; the last file ends where the directory starts).

`TransfersWhole` needs an invariant of the whole run. `IInv` joins the types with

- `QueueOK`: an entry is in the queue once or with one thread (`SortedByPlace`,
  `SortedByPart` and `QueueFacts` say that the three sorted lists the queue is made of
  have no entry in common). Two threads therefore never write to one
  `.lgogdltmp` file, since paths are distinct (`OtherPath`);
- `TmpOK`: every byte of a `.lgogdltmp` file is at the place it has in the range of
  some release's file of that path. This survives crashes, and resumes by
  another run of another release;
- `TransferOK`: the next offset asked for, the resume position and the length
  of the file agree at every place of a transfer, and a finished transfer is as long as
  the range. A resumed one is so only because the size is read again for each attempt;
- `CombineOK`: while parts are appended, the first part exists and is none of those
  deleted, and the base file is not a part (`PartsFacts`).

A finished file that has only bytes of the range then has each at its place
(`WholeTransfer`; `PiecesAssumption` says that pieces stand for places). TLC
checked `IInv`, and likewise `PlainOK` and `SplitOK`, with the constants of the run
before they were proved.

`PlainFilesRight` spans runs. `PlainOK` says what `k` undisturbed runs have
brought about for each plain file (`Good`): after one, the file is right or
its `.lgogdltmp` file is none that would be resumed; after two, it is right. While the
threads run, an entry is waiting in the queue, in work or done, and in work it
has come as far as its thread (`Doing`: once an undisturbed run is behind, what
has been received is a beginning of the range, and what is extracted all of it).
`DoingStep` has a case for each step of a thread on an entry, `StatusWorker` adds
that the other threads leave the entry alone. A thread ends undisturbed
only on an empty queue (`EndsWorker`), so at `JoinThreads` every entry is done.
`ExtractedGood` carries the first run: when a stitched
file is extracted without an error, what is at the path may be wrong, but no
`.lgogdltmp` file is left. Combining touches no plain file (`PlainFrame`).

`SplitFilesRight` is about one run, but its second half, the combining, only
starts when the threads have ended. (The creation of the threads disturbs neither:
it only lets one at `"new"` start, `CreationFacts`.) `SplitOK` follows a base file of `sure`
through both. If its parts are to be fetched, the base file stays as it is while the
threads run (`BaseWorker`), so that no part is ever found in it, and each part goes
the way of a plain file that one undisturbed run has already seen to
(`ToFetch`, by `StatusWorker` again). If it is right and a part is missing, every
part is found in it (`RightInBase`) and the missing one stays missing
(`ToKeep`). `CombineState` and `Combining` are the loop invariant of
`CombineSplitFiles`: the file of the first part is the first parts joined, and those
from the next on are untouched, which needs that all paths differ
(`OtherBase`, `CurrentParts`). The order of the parts comes in twice: `JoinSteps` says
that joining them in the order of their ranks makes the file (`Whole`),
`StartIs` that the offset at which a part is looked for in the base file, the sum
of the sizes of those before it, is where that joining puts it.

Every invariant and every action property of the passing runs is stated by
one of these theorems. Only model-checked are the temporal properties with fairness
(`DownloadReturns`, `Converges`, `RepairEnds`, `RunEnds`, `OperationEnds`,
`UploadsReach`), which are outside the reach of the provers, as is `ENABLED`.

## 6. Findings and observations

Violated statements of the repository's own documents and comments (details
and quotations under `findings` in `PROJECT.json`):

| Run | Code | What |
|---|---|---|
| `queue_stuck` | 819 | a thread's last status is lost while `vDownloadInfo` grows; the print loop never ends |
| `repair_begin` | 1030 | a new download after a repaired chunk asks for that chunk's range only |
| `library_orphans` | 1720 | a game without product information makes every file of every game an orphan |

Seen while modelling, without a run: most of it no document contradicts, and
each is an action or an exception of a property in the models unless it says
"outside the model".

Downloads and installs:

- the print loop may end before every thread has started (3522); harmless, as
  the joins follow (`ClearedAfterThreads` rests on them alone);
- `DLSTATUS_FINISHED` is set before the last message is pushed (3443), which may
  then not be printed (outside the model);
- when the remote XML data cannot be parsed, a local XML file exists and `--download`
  is given, `repairFile` compares and reports with `filesize` (1147) and `chunks`
  (1149) uninitialized: if they come out as the size of the file and nothing, the file
  is reported as "Repaired [0/n]" although the loop under "Check all chunks" (1345)
  checked none (action `ExamineSize`, exception of `RepairedIsRight`);
- two renames of one file within a second have the same name (3243; outside
  the model);
- `--size-only` leaves out the hash also for files whose size differs (3100);
- `galaxyInstallGameById` and its Linux counterpart with an empty item list
  start no thread and never leave the print loop (4250, 5810; action
  `PrintProgress` of either module);
- both create their threads while `vDownloadInfo` grows (4246, 5818), so that a last
  status can be lost as in run `queue_stuck`; `LinuxInstall` has it
  (`CopyStatuses`, `MoveStatuses`), `GalaxyInstall`, which states no liveness, does not;
- a manifest that cannot be fetched makes the installed files of its depot
  orphans (4319; actions `Begin` and the orphan check of `GalaxyInstall`);
- a blacklist that matches a small files container leaves its files unmade in a
  run that ends as if complete (4082, 4127; excluded in `TwoRunsCorrect`);
- the blacklist is matched with the full path at install time (4082) and with
  the relative path in the orphan check (`FullMatch`, `RelativeMatch`).

Linux install:

- a link that exists is never updated;
- parts are sorted as text, which puts `.split10` before `.split2` (the model
  has the rank of a part as a number);
- when the list of split files cannot be read the parts stay plain files; with
  a part torn by a crash among them, a later run combines it into the base
  file, and the run after has to mend it;
- a full disk while a part is appended or a file is extracted goes unnoticed;
- two installers of a release that contain one path would be written by two
  threads at once (outside the model, which takes paths as distinct);
- `CURLOPT_RANGE` stays on `curlhandle` after the tail of an installer was
  fetched, and applies to the request for the length of the next (6489), and
  installers shorter than 200 KiB cannot be listed (outside the model).

Cloud saves:

- a save is skipped as up to date when the server's copy is newer, and
  downloaded when it is older (5321; `SkippedDownload`);
- an upload sends a save only up to its first white space (2624; `FirstWord`);
- a listing that cannot be fetched is an empty one, so an upload then replaces
  newer copies on the server (5135).

Game details, cache and orphan check:

- `getGameDetails` returns normally when games are missing, and an incomplete
  list is saved as a valid cache with a fresh date, although the comment at 2226
  says "Make sure that all details get cached";
- DLCs from the cache are filtered with the game-specific configuration of their own
  name, although the comment at 2121 speaks of the game's;
- a game-specific configuration makes the files it excludes orphans, although
  1683 says "Always check everything when checking for orphaned files"; with
  the cache so does the one of a DLC, which an orphan check that asks ignores;
- a listing page without an answer is asked for again without end
  (`website.cpp:122`); a failed request for the owned games means that no DLC
  is left out;
- `gameItemQueue` is static: what threads that gave up leave there stays for a
  later listing of the same process;
- several threads may refresh the token at once; the last `setJSON` wins, and
  `expires_at` is counted from it and not from the answer;
- a file that matches no priority scores 0, as if it matched the first;
- a directory template without the game's name makes the files of other games
  orphans, and the loop over platforms in `checkOrphans` does not use its
  variable (outside the model).

### Not modelled, and why

The login window, the login forms, formatting and listing keep no state that a
property could be about; of the options only the dispatch to operations is
modelled. Serials, changelogs and product files are single writes. Log messages
(`msgQueue`) are left out of `DownloadQueue`: nothing but output depends on
them. Disk space is checked before the threads start and may run out later;
that is one of the failures of a transfer. `cloudSaveLocations` is left out of
`CloudSaves`: without locations nothing happens. Of the ZIP reader the dates and
the search for the end of the script are left out, of the website the
wishlist, tags and hidden games. Directory templates and the parser of the
blacklist are string functions: paths are names, and what an expression matches
is a constant. Of the Galaxy token neither the file nor the clients of single
games are modelled: a run begins with the token the last one left, and refreshes it first when it
has expired.

## 7. What is left

The order was: the parallel download with its proofs, one file on disk,
repair, Galaxy install, cloud saves; then the status check, the Linux
install, game details with cache, token and orphan check, and the proofs about
one file, repair, both installs, cloud saves and game details. Worth adding:

1. An abstract specification of `GameDetails` like `WorkLedger`, whose
   liveness could be checked on the smaller state space.
2. Galaxy items of several chunks without an MD5 sum of their own
   (`galaxyapi.cpp:345`), as one more kind of item in `GalaxyInstall`.
3. The token file across runs, and the tokens of single games.
