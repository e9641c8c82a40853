------------------------------ MODULE FileDownload ------------------------------
(***************************************************************************)
(* What a thread of processDownloadQueue does to one file, over any number *)
(* of runs of the program, with crashes between its disk writes and new    *)
(* versions appearing on the server between runs.                          *)
(*                                                                         *)
(* Version v of the file is SizeOf[v] blocks, each tagged v, so a file     *)
(* stitched together from two versions is a sequence with two tags, and    *)
(* comparing MD5 sums is comparing sequences.  A download link names one   *)
(* version.                                                                *)
(***************************************************************************)
EXTENDS Integers, Sequences

CONSTANTS
  NVersions,    \* versions the server publishes, one after the other
  SizeOf,       \* SizeOf[v]: blocks of version v
  Types,        \* values of gf.type: "installer" (or patch), "extra"
  Options,      \* Options[t]: the options a run for a file of type t may have
  Retries,      \* iRetries
  MaxFaults     \* bound on failures and crashes in a behaviour

Versions == 1 .. NVersions
Full(v) == [i \in 1 .. SizeOf[v] |-> v]

ASSUME VersionsAssumption ==
  NVersions \in Nat \ {0} /\ SizeOf \in [Versions -> Nat \ {0}]
ASSUME ParametersAssumption ==
  Types \subseteq {"installer", "extra"} /\ Retries \in Nat /\ MaxFaults \in Nat

VARIABLES
  type,      \* gf.type, which stays what it is
  server,    \* version the server offers
  \* the disk
  exists,    \* the file exists
  content,   \* its blocks
  xml,       \* its local XML file
  old,       \* contents renamed to *.old
  \* one run of the program
  pc,
  opt,       \* its options
  listed,    \* gf.size, from the game details
  pin,       \* version named by the download link and the remote XML
  hadXML,    \* bLocalXMLExists
  fetched,   \* !xml.empty(): the remote XML was fetched
  same,      \* bSameVersion
  resume,    \* bResume
  tries,     \* iRetryCount
  start,     \* iResumePosition of the attempt
  result,    \* outcome of the last attempt, or "skip"
  faults

disk == <<exists, content, xml, old>>
run == <<opt, listed, pin, hadXML, fetched, same, resume, tries, start, result>>
vars == <<type, server, disk, pc, run, faults>>

\* A local XML file is missing, unreadable (cut short), or gives the MD5 sum
\* and the size of a content.
NoXML == [kind |-> "none"]
BadXML == [kind |-> "bad"]
XMLOf(c) == [kind |-> "ok", of |-> c]

Init ==
  /\ type \in Types
  /\ server = 1
  /\ exists = FALSE /\ content = <<>> /\ xml = NoXML /\ old = {}
  /\ pc = "idle"
  /\ opt \in Options[type]
  /\ listed = 0 /\ pin = 1 /\ hadXML = FALSE /\ fetched = FALSE /\ same = TRUE
  /\ resume = FALSE /\ tries = 0 /\ start = 0 /\ result = "none"
  /\ faults = 0

Fault == faults < MaxFaults /\ faults' = faults + 1

--------------------------------------------------------------------------------
(* The environment *)

Publish ==
  /\ server < NVersions
  /\ server' = server + 1
  /\ UNCHANGED <<disk, pc, run, faults>>

Crash ==
  /\ pc # "idle"
  /\ Fault
  /\ pc' = "idle"
  /\ result' = "none"
  /\ UNCHANGED <<server, disk, opt, listed, pin, hadXML, fetched, same, resume,
                 tries, start>>

--------------------------------------------------------------------------------
(* One run *)

\* The game details are fetched, then the file is popped from the queue.  The
\* size they give is there, and is that of the server's version.
Start ==
  /\ pc = "idle"
  /\ opt' \in Options[type]
  /\ listed' = SizeOf[server]
  /\ pc' = "downlink"
  /\ tries' = 0 /\ start' = 0 /\ result' = "none"
  /\ UNCHANGED <<server, disk, pin, hadXML, fetched, same, resume, faults>>

\* The downlink JSON; an empty or invalid one skips the file.
Downlink(ok) ==
  /\ pc = "downlink"
  /\ IF ok THEN UNCHANGED faults ELSE Fault
  /\ pc' = IF ok THEN "compare" ELSE "idle"
  /\ pin' = IF ok THEN server ELSE pin
  /\ hadXML' = (xml.kind # "none")
  /\ UNCHANGED <<server, disk, opt, listed, fetched, same, resume, tries, start,
                 result>>

\* Mutant: a file without an XML file is not hashed.
LocalHashOfXML == IF xml.kind = "ok" THEN {xml.of} ELSE {}

\* Util::getLocalFileHash: the XML file wins over the file itself; no hash
\* when the XML file cannot be parsed.
LocalHash ==
  CASE xml.kind = "ok" -> {xml.of}
    [] xml.kind = "bad" -> {}
    [] xml.kind = "none" -> IF exists THEN {content} ELSE {}

\* Mutant: no version check.
SameInstallerUnchecked(got) == got => TRUE

\* Installers and patches: by hash, if there is a remote and a local one.
SameInstaller(got) == got /\ ~opt.sizeOnly => LocalHash \subseteq {Full(pin)}

\* Extras: by size.  A local file as long as its XML file says is complete.
LocalAssumedComplete == xml.kind = "ok" /\ Len(xml.of) = Len(content) /\ xml.of # <<>>
\* Mutant: any local file not longer than the server's is resumed.
SameExtraShorter(compare) == Len(content) <= compare

SameExtra(compare) ==
  IF LocalAssumedComplete THEN Len(content) = compare
                          ELSE Len(content) <= compare

\* What curl gives as the content length after a failed HEAD request: unknown,
\* or that of an empty error page.
FailedHead == {-1, 0}

\* The size an extra is compared with: the API's, or the content length of a
\* HEAD request whose outcome is not looked at.
CompareSizes ==
  CASE type = "installer" -> {SizeOf[pin]}
    [] type = "extra" -> IF opt.trustAPI THEN {listed}
                                         ELSE {SizeOf[pin]} \union FailedHead

WantsXML == type = "installer" /\ opt.remoteXML

\* bSameVersion, bIsComplete, and the need to rename the local file, given
\* whether the remote XML was got and the size to compare an extra with.
Same(got, compare) ==
  IF type = "installer" THEN SameInstaller(got) ELSE exists => SameExtra(compare)
\* Mutant: an installer of the right size is complete.
CompleteBySize(got, compare) ==
  /\ exists
  /\ IF type = "installer" THEN got /\ Len(content) = SizeOf[pin]
                            ELSE Len(content) = compare

Complete(got, compare) ==
  /\ exists
  /\ IF type = "installer"
       THEN got /\ Same(got, compare) /\ Len(content) = SizeOf[pin]
       ELSE Len(content) = compare
Differs(got, compare) ==
  exists /\ ~Same(got, compare) /\ ~Complete(got, compare)

\* The remote XML could not be fetched, or the HEAD request failed.
CompareFault(got, compare) ==
  \/ WantsXML /\ ~got
  \/ type = "extra" /\ compare \in FailedHead

\* Mutant: the remote XML is saved only when there is no local one.
SavesMissingXML(got, sameVersion) == got /\ ~hadXML

\* The remote XML is saved when there is no local one, or one that does not
\* match.
SavesXML(got, sameVersion) == got /\ (hadXML => ~sameVersion)

Compare(got, compare) ==
  /\ pc = "compare"
  /\ got => WantsXML
  /\ IF CompareFault(got, compare) THEN Fault ELSE UNCHANGED faults
  /\ fetched' = got
  /\ same' = Same(got, compare)
  /\ resume' = (exists /\ same' /\ ~Complete(got, compare))
  /\ IF Differs(got, compare)
       THEN exists' = FALSE /\ content' = <<>> /\ old' = old \union {content}
       ELSE UNCHANGED <<exists, content, old>>
  /\ result' = IF Complete(got, compare) THEN "skip" ELSE "recv"
  /\ pc' = IF SavesXML(got, same') THEN "saveXML"
           ELSE IF Complete(got, compare) THEN "idle" ELSE "open"
  /\ UNCHANGED <<server, xml, opt, listed, pin, hadXML, tries, start>>

\* The file is of another version but cannot be renamed: it is skipped.
RenameFails(got, compare) ==
  /\ pc = "compare"
  /\ got => WantsXML
  /\ Differs(got, compare)
  /\ Fault
  /\ fetched' = got
  /\ same' = FALSE
  /\ pc' = "idle"
  /\ UNCHANGED <<server, disk, opt, listed, pin, hadXML, resume, tries, start,
                 result>>

\* std::ofstream truncates the XML file, then it is filled: with the remote
\* XML, or by Util::createXML with the description of the local file.
OpenXML ==
  /\ pc \in {"saveXML", "createXML"}
  /\ xml' = BadXML
  /\ pc' = IF pc = "saveXML" THEN "fillXML" ELSE "describe"
  /\ UNCHANGED <<server, exists, content, old, run, faults>>

\* The local XML file cannot be created: what was there stays, and the run goes on.
OpenXMLFails ==
  /\ pc \in {"saveXML", "createXML"}
  /\ Fault
  /\ pc' = IF pc = "saveXML" /\ result # "skip" THEN "open" ELSE "idle"
  /\ UNCHANGED <<server, disk, opt, listed, pin, hadXML, fetched, same, resume,
                 tries, start, result>>

FillXML ==
  /\ pc \in {"fillXML", "describe"}
  /\ xml' = XMLOf(IF pc = "fillXML" THEN Full(pin) ELSE content)
  /\ pc' = IF pc = "fillXML" /\ result # "skip" THEN "open" ELSE "idle"
  /\ UNCHANGED <<server, exists, content, old, run, faults>>

\* The start of an attempt: append to the file, or create it empty.
Open ==
  /\ pc = "open"
  /\ start' = IF resume THEN Len(content) ELSE 0
  /\ exists' = TRUE
  /\ content' = IF resume THEN content ELSE <<>>
  /\ pc' = "receiving"
  /\ UNCHANGED <<server, xml, old, opt, listed, pin, hadXML, fetched, same, resume,
                 tries, result, faults>>

\* fopen failed: the loop is left with the outcome of the attempt before,
\* CURLE_RECV_ERROR if there was none.
OpenFails ==
  /\ pc = "open"
  /\ Fault
  /\ pc' = "ended"
  /\ UNCHANGED <<server, disk, run>>

Receive ==
  /\ pc = "receiving"
  /\ Len(content) < SizeOf[pin]
  /\ content' = Append(content, pin)
  /\ UNCHANGED <<server, exists, xml, old, pc, run, faults>>

\* curl_easy_perform: a range that starts beyond the file is refused (416 or
\* CURLE_RANGE_ERROR); otherwise CURLE_OK after the last block, or an error.
Good(r) ==
  \/ r = "range" /\ start >= SizeOf[pin]
  \/ r = "ok" /\ start < SizeOf[pin] /\ Len(content) = SizeOf[pin]

Retryable == {"partial", "timeout", "recv", "http"}
Errors == Retryable \union {"fatal"}

\* Mutant: the retry counter is not looked at.
RetriesForever(r) == r \in Retryable

\* while (bShouldRetry && iRetryCount <= iRetries)
Retried(r) == r \in Retryable /\ tries + 1 <= Retries

EndAttempt(r) ==
  /\ pc = "receiving"
  /\ \/ Good(r) /\ UNCHANGED faults
     \/ /\ r \in Errors /\ Fault
        /\ r = "http" => Len(content) = start
        /\ r = "partial" => Len(content) < SizeOf[pin]
  /\ result' = r
  /\ tries' = IF r \in Retryable THEN tries + 1 ELSE tries
  /\ resume' = (resume \/ r \in Retryable)
  /\ pc' = IF Retried(r) THEN "open" ELSE "ended"
  /\ UNCHANGED <<server, disk, opt, listed, pin, hadXML, fetched, same, start>>

Success == result \in {"ok", "range"}

\* After the loop: a failed new download is deleted, so is an empty file; XML
\* creation is requested for files the server gave no XML of.
Settle ==
  /\ pc = "ended"
  /\ LET delete == /\ exists /\ ~Success
                   /\ \/ result \notin {"partial", "timeout"} /\ ~resume
                      \/ content = <<>>
         describe == /\ opt.automaticXML /\ result = "ok"
                     /\ \/ type = "extra"
                        \/ opt.remoteXML /\ ~hadXML /\ ~fetched
     IN /\ exists' = (exists /\ ~delete)
        /\ content' = IF delete THEN <<>> ELSE content
        /\ pc' = IF describe THEN "createXML" ELSE "idle"
  /\ UNCHANGED <<server, xml, old, run, faults>>

Results == Errors \union {"ok", "range"}

Run ==
  \/ Start \/ (\E ok \in BOOLEAN : Downlink(ok))
  \/ (\E got \in BOOLEAN, compare \in CompareSizes :
        Compare(got, compare) \/ RenameFails(got, compare))
  \/ OpenXML \/ OpenXMLFails \/ FillXML \/ Open \/ OpenFails \/ Receive
  \/ (\E r \in Results : EndAttempt(r)) \/ Settle

Next == UNCHANGED type /\ (Publish \/ Crash \/ Run)

Spec == Init /\ [][Next]_vars

\* The user keeps running the program and the threads are scheduled; failures
\* and crashes are limited by MaxFaults, so in the end attempts go well.
FairSpec == Spec /\ WF_vars(UNCHANGED type /\ Run)

--------------------------------------------------------------------------------
Prefix(c, d) == Len(c) <= Len(d) /\ \A i \in DOMAIN c : c[i] = d[i]

TypeOK ==
  /\ type \in Types
  /\ server \in Versions
  /\ exists \in BOOLEAN
  /\ content \in Seq(Versions)
  /\ ~exists => content = <<>>
  /\ xml.kind \in {"none", "bad", "ok"}
  /\ pc \in {"idle", "downlink", "compare", "saveXML", "fillXML", "open",
             "receiving", "ended", "createXML", "describe"}
  /\ opt \in Options[type]
  /\ listed \in Nat /\ pin \in 1 .. server
  /\ tries \in 0 .. Retries + 1
  /\ start \in Nat
  /\ result \in Results \union {"none", "skip"}
  /\ faults \in 0 .. MaxFaults

\* A local XML file that matches the server's version vouches for the local
\* file: whatever is there is a beginning of that version, so resuming it is
\* right.  It rests on the order of the writes: rename, XML, data.
XMLVouches ==
  type = "installer" /\ xml = XMLOf(Full(server)) => Prefix(content, Full(server))

\* When a run that had the remote XML reports the file as downloaded or skips
\* it as complete, the file is the version the XML describes -- unless the
\* local XML file was cut short by a crash: then there is no local hash, the
\* version check is silently left out, and the XML file is never replaced.
WholeWhenDone ==
  result \in {"ok", "range", "skip"} /\ fetched /\ xml.kind = "ok" =>
    content = Full(pin)

\* A run that had the remote XML never destroys a complete file of another
\* version: it leaves the disk only under the name *.old.
OldVersionKept ==
  [][\A v \in Versions \ {pin'} :
       /\ exists /\ content = Full(v)
       /\ content' # content
       /\ fetched' /\ xml.kind # "bad"
       => content \in old']_vars

\* An extra that its XML file describes as complete is replaced only by
\* renaming it, never written over or resumed with another version's bytes.
DescribedExtraKept ==
  [][/\ type = "extra" /\ exists /\ xml = XMLOf(content)
     /\ content # <<>> /\ \E i \in DOMAIN content : content[i] # pin'
     /\ content' # content
     => content \in old']_vars

\* If the failures end, repeated runs leave the server's version of an
\* installer on disk for good -- unless a crash cut its local XML file short,
\* which nothing repairs.
Converges ==
  type = "installer" =>
    <>[](xml = BadXML \/ (exists /\ content = Full(server)))

================================================================================
