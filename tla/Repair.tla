--------------------------------- MODULE Repair ---------------------------------
(***************************************************************************)
(* Downloader::repair, repairFile and downloadFile working through the     *)
(* game files one after the other.  All of their transfers share one curl  *)
(* handle, and what curl_easy_setopt set on it for one file is still set   *)
(* for the next.                                                           *)
(*                                                                         *)
(* The server's file f is the sequence 1, 2, ..., SizeOf[f] of chunks; a   *)
(* chunk on disk is right when it holds its own number, 0 is a corrupt     *)
(* one.  Local XML files are taken to describe the server's version.       *)
(***************************************************************************)
EXTENDS Integers, Sequences

CONSTANTS
  NFiles, SizeOf,
  InitialDisk,  \* InitialDisk[f]: contents file f may start with
  Download,     \* the option --download next to --repair (bDownload)
  Retries,      \* iRetries
  MaxFaults     \* bound on failed transfers

Files == 1 .. NFiles
Whole(f) == [i \in 1 .. SizeOf[f] |-> i]
ChunkRetryLimit == 3
NoRange == 0

ASSUME RepairAssumption ==
  /\ NFiles \in Nat \ {0} /\ SizeOf \in [Files -> Nat \ {0}]
  /\ \A g \in Files : InitialDisk[g] \subseteq Seq(0 .. SizeOf[g])
  /\ Download \in BOOLEAN /\ Retries \in Nat /\ MaxFaults \in Nat

VARIABLES
  \* the disk
  present,      \* files that exist
  disk,         \* their chunks
  localXML,     \* files with an XML file
  \* the curl handle
  range,        \* CURLOPT_RANGE, as a chunk number
  resumeFrom,   \* CURLOPT_RESUME_FROM(_LARGE), in chunks
  \* repair() and repairFile()
  phase,
  f,            \* the file being repaired
  source,       \* where the XML data come from
  parsed,       \* history: files whose XML data could be parsed
  existed,      \* bFileExists
  chunk,        \* i, the chunk being verified
  chunkRetries, \* iChunkRetryCount
  limit,        \* bChunkRetryLimitReached
  \* downloadFile()
  resumed,      \* bResume
  retries,      \* this->retries
  report,       \* what the user is told about each file
  faults

disks == <<present, disk, localXML>>
handle == <<range, resumeFrom>>
chunks == <<chunk, chunkRetries, limit>>
vars == <<disks, handle, phase, f, source, parsed, existed, chunks, resumed,
          retries, report, faults>>

Sources == {"remote", "local", "none", "garbage"}

Init ==
  /\ present \in SUBSET Files
  /\ disk \in [Files -> UNION {InitialDisk[g] : g \in Files}]
  /\ \A g \in Files : disk[g] \in InitialDisk[g] /\ (g \notin present => disk[g] = <<>>)
  /\ localXML \in SUBSET Files
  /\ range = NoRange /\ resumeFrom = 0
  /\ phase = "next" /\ f = 0 /\ source = "remote" /\ parsed = {}
  /\ existed = FALSE
  /\ chunk = 1 /\ chunkRetries = 0 /\ limit = FALSE
  /\ resumed = FALSE /\ retries = 0
  /\ report = [g \in Files |-> "none"]
  /\ faults = 0

Say(g, what) == report' = [report EXCEPT ![g] = what]
Fault == faults < MaxFaults /\ faults' = faults + 1

--------------------------------------------------------------------------------
(* Transfers *)

\* What libcurl asks for: a resume position overrides a range.
Request(rng, from, g) ==
  IF from # 0 THEN (from + 1) .. SizeOf[g]
  ELSE IF rng # NoRange THEN {i \in {rng} : i <= SizeOf[g]}
  ELSE 1 .. SizeOf[g]

First(request) == CHOOSE i \in request : \A j \in request : i <= j

\* The file after the first n chunks of the request were written to it, from
\* chunk position p on.
Written(c, p, request, n) ==
  IF n = 0 THEN c
  ELSE [i \in 1 .. (IF p + n > Len(c) THEN p + n ELSE Len(c)) |->
          IF i \in p + 1 .. p + n THEN First(request) + i - p - 1 ELSE c[i]]

Delivered(request) == LET k == IF request = {} THEN 0
                               ELSE SizeOf[f] - First(request) + 1
                      IN IF range # NoRange /\ resumeFrom = 0 /\ k > 1 THEN 1 ELSE k

--------------------------------------------------------------------------------
(* repair(): the loop over the files *)

\* Skipped: other type, blacklisted, no downlink, or no XML data for a file
\* that is not an extra.
NextFile ==
  /\ phase = "next" /\ f < NFiles
  /\ f' = f + 1
  /\ source' \in Sources
  /\ source' = "local" => f' \in localXML
  /\ source' = "none" => f' \notin localXML
  /\ parsed' = IF source' \in {"remote", "local"} THEN parsed \union {f'} ELSE parsed
  /\ phase' \in {"next", "examine"}
  /\ existed' = (f' \in present)
  /\ UNCHANGED <<disks, handle, chunks, resumed, retries, report, faults>>

\* The last file is done, or the login cannot be refreshed.
Stop ==
  /\ phase = "next"
  /\ phase' = "end"
  /\ UNCHANGED <<disks, handle, f, source, parsed, existed, chunks, resumed, retries,
                 report, faults>>

--------------------------------------------------------------------------------
(* repairFile() *)

ParsingFailed == source \in {"none", "garbage"}

\* No usable XML data and no local XML file: plain download.
ExamineNoXML ==
  /\ phase = "examine"
  /\ ParsingFailed
  /\ ~Download \/ f \notin localXML
  /\ phase' = IF Download THEN "download" ELSE "next"
  /\ UNCHANGED <<disks, handle, f, source, parsed, existed, chunks, resumed, retries,
                 report, faults>>

ExamineMissing ==
  /\ phase = "examine"
  /\ ParsingFailed => Download /\ f \in localXML
  /\ f \notin present
  /\ phase' = IF Download THEN "download" ELSE "next"
  /\ UNCHANGED <<disks, handle, f, source, parsed, existed, chunks, resumed, retries,
                 report, faults>>

\* When the remote XML cannot be parsed but a local XML file exists, filesize
\* and chunks are read uninitialized: any comparison may come out, and with
\* chunks <= 0 no chunk is verified and the file is reported all the same.
SizeMatches == IF ParsingFailed THEN BOOLEAN ELSE {Len(disk[f]) = SizeOf[f]}

ExamineSize(matches) ==
  /\ phase = "examine"
  /\ ParsingFailed => Download /\ f \in localXML
  /\ f \in present
  /\ matches \in SizeMatches
  /\ \/ /\ matches /\ ~ParsingFailed
        /\ phase' = "chunk" /\ chunk' = 1 /\ chunkRetries' = 0 /\ limit' = FALSE
        /\ UNCHANGED <<disks, report>>
     \/ /\ matches /\ ParsingFailed   \* chunks <= 0
        /\ Say(f, "repaired")
        /\ phase' = "next"
        /\ UNCHANGED <<disks, chunks>>
     \/ /\ matches /\ ParsingFailed   \* chunk_from.at(0) throws
        /\ phase' = "aborted"
        /\ UNCHANGED <<disks, chunks, report>>
     \/ /\ ~matches /\ Download       \* renamed, XML file removed
        /\ present' = present \ {f}
        /\ disk' = [disk EXCEPT ![f] = <<>>]
        /\ localXML' = localXML \ {f}
        /\ phase' = "download"
        /\ UNCHANGED <<chunks, report>>
     \/ /\ ~matches                   \* or not renamed
        /\ phase' = "next"
        /\ UNCHANGED <<disks, chunks, report>>
  /\ UNCHANGED <<handle, f, source, parsed, existed, resumed, retries, faults>>

ChunkRight == disk[f][chunk] = chunk

VerifyRight ==
  /\ phase = "chunk" /\ chunk <= SizeOf[f]
  /\ ChunkRight
  /\ chunk' = chunk + 1 /\ chunkRetries' = 0 /\ limit' = FALSE
  /\ UNCHANGED <<disks, handle, phase, f, source, parsed, existed, resumed, retries,
                 report, faults>>

\* Mutant: continue instead of break at the limit.
VerifyWrongContinues ==
  /\ phase = "chunk" /\ chunk <= SizeOf[f]
  /\ ~ChunkRight
  /\ IF limit THEN chunk' = chunk + 1 /\ UNCHANGED <<phase, range>>
              ELSE phase' = "fetch" /\ range' = chunk /\ UNCHANGED chunk
  /\ UNCHANGED <<disks, resumeFrom, f, source, parsed, existed, chunkRetries, limit,
                 resumed, retries, report, faults>>

VerifyWrong ==
  /\ phase = "chunk" /\ chunk <= SizeOf[f]
  /\ ~ChunkRight
  /\ IF limit THEN phase' = "next" /\ Say(f, "failed") /\ UNCHANGED range
              ELSE phase' = "fetch" /\ range' = chunk /\ UNCHANGED report
  /\ UNCHANGED <<disks, resumeFrom, f, source, parsed, existed, chunks, resumed, retries,
                 faults>>

\* Mutant: iChunkRetryCount is declared inside the loop.
FetchedInLoop == 1

\* iChunkRetryCount after one more fetch
Fetched == chunkRetries + 1

\* Mutant: no fseeko back over the chunk just read.
WritePositionAfterRead == chunk

WritePosition == chunk - 1

\* The outcome of the transfer is not looked at; the chunk is verified again.
FetchChunk(n) ==
  /\ phase = "fetch"
  /\ LET request == Request(range, resumeFrom, f)
         all == Delivered(request)
     IN /\ n <= all
        /\ IF n < all THEN Fault ELSE UNCHANGED faults
        /\ disk' = [disk EXCEPT ![f] = Written(@, WritePosition, request, n)]
  /\ chunkRetries' = Fetched
  /\ limit' = (Fetched >= ChunkRetryLimit)
  /\ phase' = "chunk"
  /\ UNCHANGED <<present, localXML, handle, f, source, parsed, existed, chunk, resumed,
                 retries, report>>

AllVerified ==
  /\ phase = "chunk" /\ chunk > SizeOf[f]
  /\ Say(f, "repaired")
  /\ phase' = "next"
  /\ UNCHANGED <<disks, handle, f, source, parsed, existed, chunks, resumed, retries,
                 faults>>

--------------------------------------------------------------------------------
(* downloadFile() *)

RemoteData == source \in {"remote", "garbage"}
SavedXML == IF RemoteData THEN localXML \union {f} ELSE localXML

SkipComplete ==
  /\ phase = "download"
  /\ f \in present /\ source = "remote" /\ Len(disk[f]) = SizeOf[f]
  /\ localXML' = SavedXML
  /\ Say(f, "downloaded")
  /\ phase' = "next"
  /\ UNCHANGED <<present, disk, handle, f, source, parsed, existed, chunks, resumed,
                 retries, faults>>

\* Mutant: the handle keeps the resume position it has.
ResumePositionKept == resumeFrom

\* CURLOPT_RESUME_FROM_LARGE: the end of the local file, 0 for a new one
ResumePosition == Len(disk[f])

OpenFile ==
  /\ phase = "download"
  /\ ~(f \in present /\ source = "remote" /\ Len(disk[f]) = SizeOf[f])
  /\ resumed' = (f \in present)
  /\ resumeFrom' = ResumePosition
  /\ present' = present \union {f}
  /\ localXML' = SavedXML
  /\ phase' = "perform"
  /\ UNCHANGED <<disk, range, f, source, parsed, existed, chunks, retries, report,
                 faults>>

Errors == {"partial", "timeout", "recv", "other"}

\* Mutant: one retry too many.
RetriedOnceMore(r) == r \in {"partial", "timeout", "recv"} /\ retries <= Retries

Retried(r) == r \in {"partial", "timeout", "recv"} /\ retries < Retries

\* curl_easy_perform and what follows: delete, retry, report.
Perform(r, n) ==
  /\ phase = "perform"
  /\ LET request == Request(range, resumeFrom, f)
         all == Delivered(request)
         refused == request = {}
     IN /\ n <= all
        /\ \/ r = "ok" /\ ~refused /\ n = all /\ UNCHANGED faults
           \/ r = "range" /\ refused /\ UNCHANGED faults
           \/ r \in Errors /\ Fault
        /\ r = "partial" => n < all
        /\ IF r \in {"ok", "partial", "timeout"} \/ resumed
             THEN /\ disk' = [disk EXCEPT ![f] = Written(@, Len(@), request, n)]
                  /\ UNCHANGED present
             ELSE /\ disk' = [disk EXCEPT ![f] = <<>>]
                  /\ present' = present \ {f}
  /\ IF Retried(r)
       THEN /\ retries' = retries + 1
            /\ phase' = "download"
            /\ UNCHANGED <<report, localXML>>
       ELSE /\ retries' = 0
            /\ phase' = "next"
            /\ LET fine == r = "ok" \/ (r = "range" /\ ParsingFailed /\ existed)
               IN /\ Say(f, IF fine THEN "downloaded" ELSE "failed")
                  /\ localXML' \in {localXML, IF fine THEN localXML \union {f}
                                              ELSE localXML}
  /\ UNCHANGED <<handle, f, source, parsed, existed, chunks, resumed>>

--------------------------------------------------------------------------------
Step ==
  \/ NextFile \/ Stop \/ ExamineNoXML \/ ExamineMissing
  \/ (\E matches \in BOOLEAN : ExamineSize(matches))
  \/ VerifyRight \/ VerifyWrong
  \/ (f > 0 /\ \E n \in 0 .. SizeOf[f] : FetchChunk(n))
  \/ AllVerified \/ SkipComplete \/ OpenFile
  \/ (f > 0 /\ \E r \in Errors \union {"ok", "range"}, n \in 0 .. SizeOf[f] :
                Perform(r, n))

Ended == phase \in {"end", "aborted"} /\ UNCHANGED vars

Next == Step \/ Ended
Spec == Init /\ [][Next]_vars

\* A single thread runs, and curl gives up on a stalled transfer.
FairSpec == Spec /\ WF_vars(Step)

TypeOK ==
  /\ present \subseteq Files /\ localXML \subseteq Files
  /\ disk \in [Files -> Seq(Nat)]
  /\ \A g \in Files : disk[g] \in Seq(0 .. SizeOf[g])
  /\ \A g \in Files \ present : disk[g] = <<>>
  /\ range \in Nat /\ resumeFrom \in Nat
  /\ f \in 0 .. NFiles /\ source \in Sources /\ parsed \subseteq Files
  /\ chunk \in Nat \ {0} /\ chunkRetries \in 0 .. ChunkRetryLimit
  /\ phase \in {"chunk", "fetch"} => chunk <= SizeOf[f] + 1
  /\ limit \in BOOLEAN /\ resumed \in BOOLEAN /\ existed \in BOOLEAN
  /\ retries \in 0 .. Retries /\ faults \in 0 .. MaxFaults
  /\ report \in [Files -> {"none", "failed", "repaired", "downloaded"}]

Right(g) == Len(disk[g]) >= SizeOf[g] /\ \A i \in 1 .. SizeOf[g] : disk[g][i] = i

\* A file whose XML data could be parsed is reported as repaired only if every
\* chunk of it is right, even when transfers of earlier files left options on
\* the handle: the chunks are verified in order and nothing before the current
\* one is written.  Without XML data there is nothing to verify with.
RepairedIsRight ==
  \A g \in parsed : report[g] = "repaired" => Right(g)

\* repair() ends: no chunk is fetched for ever.
RepairEnds == <>(phase \in {"end", "aborted"})

\* A right chunk of the file under repair is not made wrong, as long as no
\* resume position is left on the handle from an earlier download.
RightChunksKept ==
  [][phase = "fetch" /\ resumeFrom = 0 =>
       \A i \in DOMAIN disk[f] : disk[f][i] = i => disk'[f][i] = i]_vars

\* A new download that is reported as done is the server's file, across
\* retries and resumes, provided XML data were there to check it with.  That
\* holds for the first file only: the handle has no options of others yet.
DownloadedIsWhole ==
  f = 1 /\ ~ParsingFailed /\ report[f] = "downloaded" => disk[f] = Whole(f)

\* "// start downloading from the beginning of file" (the comment where the
\* resume position is set to 0): the transfer asks for the whole file.
StartsFromTheBeginning ==
  phase = "perform" /\ ~resumed =>
    Request(range, resumeFrom, f) = 1 .. SizeOf[f]
================================================================================
