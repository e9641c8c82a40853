------------------------------ MODULE RepairProofs ------------------------------
(* Proofs about Repair, for any files of any sizes, with any contents on     *)
(* disk, any number of retries and of failed transfers.                      *)
EXTENDS Repair, TLAPS

--------------------------------------------------------------------------------
(* Requests and writes *)

\* The chunks of a file are what the file is a sequence of.
LEMMA ElementFact ==
  ASSUME NEW S, NEW c \in Seq(S), NEW i \in 1 .. Len(c)
  PROVE  c[i] \in S
  OBVIOUS

\* A sequence over a set is one over a larger set.
LEMMA SeqSubset ==
  ASSUME NEW T, NEW S \in SUBSET T, NEW c \in Seq(S)
  PROVE  c \in Seq(T)
  OBVIOUS

\* The first chunk of a request is its least one.
LEMMA FirstFact ==
  ASSUME NEW r \in SUBSET Int, NEW a \in r, \A j \in r : a <= j
  PROVE  First(r) = a
  <1>1. \E i \in r : \A j \in r : i <= j
    OBVIOUS
  <1>2. First(r) \in r /\ \A j \in r : First(r) <= j
    BY <1>1 DEF First
  <1>3. First(r) \in Int /\ a \in Int /\ a <= First(r) /\ First(r) <= a
    BY <1>2
  <1> QED BY <1>3

\* What the handle asks for: nothing, the chunks after the resume position, the
\* chunk of the range, or everything.
LEMMA RequestFacts ==
  ASSUME NEW g \in Files, NEW rng \in Nat, NEW from \in Nat,
         Request(rng, from, g) # {}
  PROVE  /\ First(Request(rng, from, g)) \in 1 .. SizeOf[g]
         /\ from # 0 => First(Request(rng, from, g)) = from + 1
         /\ from = 0 /\ rng # NoRange => First(Request(rng, from, g)) = rng
         /\ from = 0 /\ rng = NoRange => First(Request(rng, from, g)) = 1
  <1>1. SizeOf[g] \in Nat \ {0}
    BY RepairAssumption
  <1>2. CASE from # 0
    <2>1. Request(rng, from, g) = (from + 1) .. SizeOf[g]
      BY <1>2 DEF Request
    <2>2. from + 1 \in Request(rng, from, g)
      BY <1>1, <2>1
    <2>3. /\ Request(rng, from, g) \in SUBSET Int
          /\ \A j \in Request(rng, from, g) : from + 1 <= j
      BY <1>1, <2>1
    <2>4. First(Request(rng, from, g)) = from + 1
      BY <2>2, <2>3, FirstFact
    <2> QED BY <1>1, <1>2, <2>1, <2>2, <2>4
  <1>3. CASE from = 0 /\ rng # NoRange
    <2>1. Request(rng, from, g) = {rng} /\ rng <= SizeOf[g]
      BY <1>3 DEF Request
    <2>2. First(Request(rng, from, g)) = rng
      BY <2>1, FirstFact
    <2> QED BY <1>1, <1>3, <2>1, <2>2 DEF NoRange
  <1>4. CASE from = 0 /\ rng = NoRange
    <2>1. Request(rng, from, g) = 1 .. SizeOf[g]
      BY <1>4 DEF Request
    <2>2. /\ Request(rng, from, g) \in SUBSET Int /\ 1 \in Request(rng, from, g)
          /\ \A j \in Request(rng, from, g) : 1 <= j
      BY <1>1, <2>1
    <2>3. First(Request(rng, from, g)) = 1
      BY <2>2, FirstFact
    <2> QED BY <1>1, <1>4, <2>3
  <1> QED BY <1>2, <1>3, <1>4

\* No more chunks arrive than there are from the first one on, and one only
\* when a range is set.
LEMMA DeliveredFacts ==
  ASSUME f \in Files, range \in Nat, resumeFrom \in Nat
  PROVE  LET request == Request(range, resumeFrom, f)
         IN /\ request = {} => Delivered(request) = 0
            /\ request # {} =>
                 /\ Delivered(request) \in 1 .. SizeOf[f] - First(request) + 1
                 /\ range # NoRange /\ resumeFrom = 0 => Delivered(request) = 1
                 /\ range = NoRange =>
                      Delivered(request) = SizeOf[f] - First(request) + 1
  <1> DEFINE request == Request(range, resumeFrom, f)
  <1>1. SizeOf[f] \in Nat \ {0}
    BY RepairAssumption
  <1>2. CASE request = {}
    BY <1>2 DEF Delivered
  <1>3. CASE request # {}
    <2>1. First(request) \in 1 .. SizeOf[f]
      BY <1>3, RequestFacts
    <2> DEFINE k == SizeOf[f] - First(request) + 1
    <2>2. k \in Nat \ {0}
      BY <1>1, <2>1
    <2> HIDE DEF request
    <2>3. Delivered(request) =
            IF range # NoRange /\ resumeFrom = 0 /\ k > 1 THEN 1 ELSE k
      BY <1>3 DEF Delivered
    <2> HIDE DEF k
    <2>4. /\ Delivered(request) \in 1 .. k
          /\ range # NoRange /\ resumeFrom = 0 => Delivered(request) = 1
          /\ range = NoRange => Delivered(request) = k
      BY <2>2, <2>3
    <2> QED BY <1>3, <2>4 DEF k, request
  <1> QED BY <1>2, <1>3

\* Writing n consecutive chunks at position p, inside the file or at its end:
\* what is written is there, what is not stays.
LEMMA WrittenFacts ==
  ASSUME NEW g \in Files, NEW c \in Seq(0 .. SizeOf[g]), NEW p \in 0 .. Len(c),
         NEW request, NEW n \in Nat,
         n > 0 => First(request) \in 1 .. SizeOf[g] /\ n <= SizeOf[g] - First(request) + 1
  PROVE  /\ Written(c, p, request, n) \in Seq(0 .. SizeOf[g])
         /\ Len(Written(c, p, request, n)) = IF p + n > Len(c) THEN p + n ELSE Len(c)
         /\ \A i \in 1 .. Len(c) :
              i \notin p + 1 .. p + n => Written(c, p, request, n)[i] = c[i]
         /\ \A i \in p + 1 .. p + n :
              Written(c, p, request, n)[i] = First(request) + i - p - 1
  <1>1. SizeOf[g] \in Nat \ {0} /\ Len(c) \in Nat /\ p \in Nat
    BY RepairAssumption
  <1>2. \A i \in 1 .. Len(c) : c[i] \in 0 .. SizeOf[g]
    BY ElementFact
  <1>3. CASE n = 0
    BY <1>1, <1>3 DEF Written
  <1>4. CASE n > 0
    <2> DEFINE len == IF p + n > Len(c) THEN p + n ELSE Len(c)
               first == First(request)
               at(i) == IF i \in p + 1 .. p + n THEN first + i - p - 1 ELSE c[i]
    <2>1. Written(c, p, request, n) = [i \in 1 .. len |-> at(i)]
      BY <1>4 DEF Written
    <2>2. first \in 1 .. SizeOf[g] /\ n <= SizeOf[g] - first + 1
      BY <1>4
    <2>3. len \in Nat /\ len >= Len(c) /\ len >= p + n
      BY <1>1
    <2> HIDE DEF first
    <2>4. \A i \in 1 .. len : at(i) \in 0 .. SizeOf[g]
      <3> SUFFICES ASSUME NEW i \in 1 .. len PROVE at(i) \in 0 .. SizeOf[g]
        OBVIOUS
      <3>1. CASE i \in p + 1 .. p + n
        BY <3>1, <1>1, <2>2
      <3>2. CASE i \notin p + 1 .. p + n
        <4>1. i \in 1 .. Len(c)
          BY <3>2, <1>1
        <4>2. c[i] \in 0 .. SizeOf[g]
          BY <4>1, <1>2
        <4> QED BY <4>2, <3>2
      <3> QED BY <3>1, <3>2
    <2> HIDE DEF at, len
    <2>5. /\ [i \in 1 .. len |-> at(i)] \in Seq(0 .. SizeOf[g])
          /\ Len([i \in 1 .. len |-> at(i)]) = len
      BY <2>3, <2>4
    <2>6. \A i \in 1 .. len : Written(c, p, request, n)[i] = at(i)
      BY <2>1
    <2>7. \A i \in 1 .. Len(c) : i \in 1 .. len
      BY <1>1, <2>3
    <2>8. \A i \in p + 1 .. p + n : i \in 1 .. len
      BY <1>1, <2>3
    <2> QED BY <2>1, <2>5, <2>6, <2>7, <2>8 DEF at, len, first
  <1> QED BY <1>3, <1>4

\* Writing at the end of the file makes it longer by what is written.
LEMMA AppendedFacts ==
  ASSUME NEW g \in Files, NEW c \in Seq(0 .. SizeOf[g]), NEW request, NEW n \in Nat,
         n > 0 => First(request) \in 1 .. SizeOf[g] /\ n <= SizeOf[g] - First(request) + 1
  PROVE  LET d == Written(c, Len(c), request, n)
         IN /\ d \in Seq(0 .. SizeOf[g])
            /\ Len(d) = Len(c) + n
            /\ \A i \in 1 .. Len(c) : d[i] = c[i]
            /\ \A i \in Len(c) + 1 .. Len(c) + n : d[i] = First(request) + i - Len(c) - 1
  <1> DEFINE p == Len(c)
  <1>1. p \in 0 .. Len(c) /\ p \in Nat
    OBVIOUS
  <1> HIDE DEF p
  <1>2. /\ Written(c, p, request, n) \in Seq(0 .. SizeOf[g])
        /\ Len(Written(c, p, request, n)) = IF p + n > Len(c) THEN p + n ELSE Len(c)
        /\ \A i \in 1 .. Len(c) :
             i \notin p + 1 .. p + n => Written(c, p, request, n)[i] = c[i]
        /\ \A i \in p + 1 .. p + n :
             Written(c, p, request, n)[i] = First(request) + i - p - 1
    BY <1>1, WrittenFacts
  <1>3. p = Len(c)
    BY DEF p
  <1>4. /\ Len(Written(c, p, request, n)) = p + n
        /\ \A i \in 1 .. Len(c) : Written(c, p, request, n)[i] = c[i]
    BY <1>1, <1>2, <1>3
  <1> QED BY <1>2, <1>4 DEF p

--------------------------------------------------------------------------------
(* The inductive invariant *)

Working == phase \in {"examine", "chunk", "fetch", "download", "perform"}

\* A beginning of file g.
Beginning(c, g) == Len(c) <= SizeOf[g] /\ \A i \in 1 .. Len(c) : c[i] = i

\* The files are worked through in their order, one report for each at the end.
Progress ==
  /\ phase \in {"next", "examine", "chunk", "fetch", "download", "perform", "end",
                "aborted"}
  /\ phase \notin {"next", "end"} => f \in Files
  /\ \A g \in Files : g > f => report[g] = "none"
  /\ Working => report[f] = "none"
  /\ phase \in {"chunk", "fetch", "perform"} => f \in present
  /\ \A g \in parsed : g <= f
  /\ f \in parsed => source \in {"remote", "local"}

\* The chunks before the current one are right, and the range is the current one.
Verified ==
  /\ phase \in {"chunk", "fetch"} =>
       /\ Len(disk[f]) >= SizeOf[f]
       /\ \A i \in 1 .. SizeOf[f] : i < chunk => disk[f][i] = i
       /\ limit <=> chunkRetries >= ChunkRetryLimit
  /\ phase = "fetch" => range = chunk /\ ~limit /\ chunk <= SizeOf[f]

\* The first file is downloaded in order, with no range on the handle.
FirstFile ==
  /\ f = 0 => range = NoRange
  /\ f = 1 /\ phase \in {"examine", "download", "perform"} => range = NoRange
  /\ f = 1 /\ phase \in {"download", "perform"} /\ ~ParsingFailed =>
       Beginning(disk[1], 1)
  /\ phase = "perform" => resumeFrom = Len(disk[f])

Inv == /\ TypeOK /\ Progress /\ Verified /\ FirstFile
       /\ RepairedIsRight /\ DownloadedIsWhole

\* A beginning of the first file that is as long as the file is the file.
LEMMA WholeBeginning ==
  ASSUME NEW g \in Files, NEW c \in Seq(Nat), Beginning(c, g), Len(c) >= SizeOf[g]
  PROVE  c = Whole(g)
  <1>1. SizeOf[g] \in Nat \ {0} /\ Len(c) \in Nat
    BY RepairAssumption
  <1>2. Len(c) = SizeOf[g] /\ \A i \in 1 .. SizeOf[g] : c[i] = i
    BY <1>1 DEF Beginning
  <1>3. c = [i \in 1 .. Len(c) |-> c[i]]
    OBVIOUS
  <1> QED BY <1>2, <1>3 DEF Whole

\* The file under repair is one of the files and has a size and contents.
LEMMA Known ==
  ASSUME Inv, f \in Files
  PROVE  /\ f \in Nat \ {0} /\ SizeOf[f] \in Nat \ {0}
         /\ disk[f] \in Seq(0 .. SizeOf[f]) /\ disk[f] \in Seq(Nat)
         /\ Len(disk[f]) \in Nat
  BY RepairAssumption DEF Inv, TypeOK, Files

\* repair() starts in the invariant.
LEMMA InitInv == ASSUME Init PROVE Inv
  <1>1. NFiles \in Nat \ {0} /\ 0 \in 0 .. NFiles
    BY RepairAssumption
  <1>2. \A g \in Files : disk[g] \in Seq(0 .. SizeOf[g])
    BY RepairAssumption DEF Init
  <1>3. \A g \in Files : disk[g] \in Seq(Nat)
    <2> SUFFICES ASSUME NEW g \in Files PROVE disk[g] \in Seq(Nat)
      OBVIOUS
    <2>1. SizeOf[g] \in Nat /\ 0 .. SizeOf[g] \subseteq Nat
      BY RepairAssumption
    <2> QED BY <1>2, <2>1
  <1>4. disk \in [Files -> Seq(Nat)]
    BY <1>3 DEF Init
  <1>5. TypeOK
    <2>1. /\ present \subseteq Files /\ localXML \subseteq Files
          /\ \A g \in Files \ present : disk[g] = <<>>
          /\ report \in [Files -> {"none", "failed", "repaired", "downloaded"}]
      BY DEF Init
    <2>2. /\ range \in Nat /\ resumeFrom \in Nat /\ f \in 0 .. NFiles
          /\ chunk \in Nat \ {0} /\ chunkRetries \in 0 .. ChunkRetryLimit
          /\ retries \in 0 .. Retries /\ faults \in 0 .. MaxFaults
      BY <1>1, RepairAssumption DEF Init, NoRange, ChunkRetryLimit
    <2> QED BY <1>2, <1>4, <2>1, <2>2 DEF Init, TypeOK, Sources
  <1>6. Progress /\ Verified /\ FirstFile
    BY <1>1 DEF Init, Progress, Verified, FirstFile, Working, Files, NoRange
  <1>7. RepairedIsRight /\ DownloadedIsWhole
    BY DEF Init, RepairedIsRight, Right, DownloadedIsWhole
  <1> QED BY <1>5, <1>6, <1>7 DEF Inv

--------------------------------------------------------------------------------
(* Steps *)

LEMMA NextFileInv == ASSUME Inv, NextFile PROVE Inv'
  <1> USE DEF NextFile, disks, handle, chunks
  <1>1. /\ f \in Nat /\ f' \in Files /\ f' = f + 1 /\ f' \in 0 .. NFiles
        /\ phase' \in {"next", "examine"}
    BY RepairAssumption DEF Inv, TypeOK, Files
  <1>2. report[f'] = "none"
    BY <1>1 DEF Inv, Progress
  <1>3. TypeOK'
    BY <1>1 DEF Inv, TypeOK
  <1>4. Progress'
    BY <1>1, <1>2 DEF Inv, TypeOK, Progress, Working, Files
  <1>5. Verified' /\ FirstFile'
    BY <1>1 DEF Inv, Verified, FirstFile
  <1>6. RepairedIsRight' /\ DownloadedIsWhole'
    BY <1>2 DEF Inv, RepairedIsRight, Right, DownloadedIsWhole
  <1> QED BY <1>3, <1>4, <1>5, <1>6 DEF Inv

LEMMA StopInv == ASSUME Inv, Stop PROVE Inv'
  BY DEF Stop, disks, handle, chunks, Inv, TypeOK, Progress, Verified, FirstFile,
         Working, RepairedIsRight, Right, DownloadedIsWhole, ParsingFailed

LEMMA ExamineNoXMLInv == ASSUME Inv, ExamineNoXML PROVE Inv'
  <1> USE DEF ExamineNoXML, disks, handle, chunks
  <1>1. TypeOK' /\ Progress'
    BY DEF Inv, TypeOK, Progress, Working
  <1>2. Verified' /\ FirstFile'
    BY DEF Inv, Verified, FirstFile, ParsingFailed
  <1>3. RepairedIsRight' /\ DownloadedIsWhole'
    BY DEF Inv, RepairedIsRight, Right, DownloadedIsWhole, ParsingFailed
  <1> QED BY <1>1, <1>2, <1>3 DEF Inv

\* A file that is missing is a beginning.
LEMMA ExamineMissingInv == ASSUME Inv, ExamineMissing PROVE Inv'
  <1> USE DEF ExamineMissing, disks, handle, chunks
  <1>1. TypeOK' /\ Progress'
    BY DEF Inv, TypeOK, Progress, Working
  <1>2. f \in Files
    BY DEF Inv, Progress
  <1>3. f = 1 => Beginning(disk[1], 1)
    <2>1. disk[f] = <<>> /\ SizeOf[f] \in Nat
      BY <1>2, Known DEF Inv, TypeOK
    <2> QED BY <2>1 DEF Beginning
  <1>4. Verified' /\ FirstFile'
    BY <1>3 DEF Inv, Verified, FirstFile, ParsingFailed
  <1>5. RepairedIsRight' /\ DownloadedIsWhole'
    BY DEF Inv, RepairedIsRight, Right, DownloadedIsWhole, ParsingFailed
  <1> QED BY <1>1, <1>4, <1>5 DEF Inv

LEMMA VerifyRightInv == ASSUME Inv, VerifyRight PROVE Inv'
  <1> USE DEF VerifyRight, disks, handle
  <1>1. /\ f \in Files /\ SizeOf[f] \in Nat /\ chunk \in Nat \ {0}
        /\ chunk <= SizeOf[f] /\ disk[f][chunk] = chunk
    BY Known DEF Inv, TypeOK, Progress, ChunkRight
  <1>2. TypeOK' /\ Progress'
    <2>1. /\ chunk' \in Nat \ {0} /\ chunk' <= SizeOf[f] + 1
          /\ chunkRetries' \in 0 .. ChunkRetryLimit
      BY <1>1 DEF ChunkRetryLimit
    <2>2. TypeOK'
      BY <2>1 DEF Inv, TypeOK
    <2>3. Progress'
      BY DEF Inv, Progress, Working
    <2> QED BY <2>2, <2>3
  <1>3. \A i \in 1 .. SizeOf[f] : i < chunk + 1 => disk[f][i] = i
    BY <1>1 DEF Inv, Verified
  <1>4. Verified'
    BY <1>3 DEF Inv, Verified, ChunkRetryLimit
  <1>5. FirstFile' /\ RepairedIsRight' /\ DownloadedIsWhole'
    BY DEF Inv, FirstFile, RepairedIsRight, Right, DownloadedIsWhole, ParsingFailed
  <1> QED BY <1>2, <1>4, <1>5 DEF Inv

LEMMA VerifyWrongInv == ASSUME Inv, VerifyWrong PROVE Inv'
  <1> USE DEF VerifyWrong, disks, chunks
  <1>1. f \in Files /\ f \in Nat \ {0} /\ report[f] = "none"
    BY Known DEF Inv, Progress, Working
  <1>2. /\ report' \in {report, [report EXCEPT ![f] = "failed"]}
        /\ report \in [Files -> {"none", "failed", "repaired", "downloaded"}]
    BY DEF Inv, TypeOK, Say
  <1>3. /\ report' \in [Files -> {"none", "failed", "repaired", "downloaded"}]
        /\ \A g \in Files : g # f => report'[g] = report[g]
        /\ report'[f] \in {"none", "failed"}
    BY <1>1, <1>2
  <1>4. TypeOK'
    BY <1>3 DEF Inv, TypeOK
  <1>5. Progress'
    BY <1>1, <1>3 DEF Inv, Progress, Working
  <1>6. Verified' /\ FirstFile'
    BY <1>1 DEF Inv, Verified, FirstFile, ParsingFailed
  <1>7. RepairedIsRight' /\ DownloadedIsWhole'
    BY <1>1, <1>3 DEF Inv, TypeOK, RepairedIsRight, Right, DownloadedIsWhole, ParsingFailed
  <1> QED BY <1>4, <1>5, <1>6, <1>7 DEF Inv

\* A write to the file under repair leaves the other files alone.
LEMMA DiskUpdate ==
  ASSUME Inv, f \in Files, NEW c \in Seq(0 .. SizeOf[f]), disk' = [disk EXCEPT ![f] = c]
  PROVE  /\ disk' \in [Files -> Seq(Nat)]
         /\ \A g \in Files : disk'[g] \in Seq(0 .. SizeOf[g])
         /\ disk'[f] = c
         /\ \A g \in Files : g # f => disk'[g] = disk[g]
  <1>1. disk \in [Files -> Seq(Nat)] /\ \A g \in Files : disk[g] \in Seq(0 .. SizeOf[g])
    BY DEF Inv, TypeOK
  <1>2. c \in Seq(Nat)
    <2>1. 0 .. SizeOf[f] \subseteq Nat
      BY Known
    <2> QED BY <2>1, SeqSubset
  <1> QED BY <1>1, <1>2

\* A write to a file that has no report yet keeps what the reports say.
LEMMA ReportsKept ==
  ASSUME Inv, f \in Files, report[f] = "none",
         \A g \in Files : g # f => disk'[g] = disk[g],
         UNCHANGED <<report, f, source, parsed>>
  PROVE  RepairedIsRight' /\ DownloadedIsWhole'
  BY DEF Inv, TypeOK, RepairedIsRight, Right, DownloadedIsWhole, ParsingFailed

\* A report on the file under repair leaves the other reports alone.
LEMMA ReportUpdate ==
  ASSUME Inv, f \in Files, NEW what \in {"none", "failed", "repaired", "downloaded"},
         Say(f, what)
  PROVE  /\ report' \in [Files -> {"none", "failed", "repaired", "downloaded"}]
         /\ report'[f] = what
         /\ \A g \in Files : g # f => report'[g] = report[g]
         /\ f' = f => \A g \in Files : g > f' => report'[g] = "none"
  <1>1. report \in [Files -> {"none", "failed", "repaired", "downloaded"}]
    BY DEF Inv, TypeOK
  <1>2. /\ report' \in [Files -> {"none", "failed", "repaired", "downloaded"}]
        /\ report'[f] = what
        /\ \A g \in Files : g # f => report'[g] = report[g]
    BY <1>1 DEF Say
  <1>3. f \in Nat
    BY DEF Files
  <1> QED BY <1>2, <1>3 DEF Inv, Progress

\* The file is verified from the first chunk on, renamed and downloaded anew, or
\* left as it is.
LEMMA ExamineSizeInv ==
  ASSUME Inv, NEW matches \in BOOLEAN, ExamineSize(matches) PROVE Inv'
  <1> USE DEF ExamineSize, handle
  <1>1. /\ phase = "examine" /\ f \in Files /\ f \in present /\ report[f] = "none"
        /\ SizeOf[f] \in Nat \ {0} /\ <<>> \in Seq(0 .. SizeOf[f])
    BY Known DEF Inv, Progress, Working
  <1>2. CASE /\ matches /\ ~ParsingFailed
             /\ phase' = "chunk" /\ chunk' = 1 /\ chunkRetries' = 0 /\ limit' = FALSE
             /\ UNCHANGED <<disks, report>>
    <2>1. Len(disk[f]) = SizeOf[f]
      BY <1>2 DEF SizeMatches
    <2>2. TypeOK'
      <3>1. /\ chunk' \in Nat \ {0} /\ chunk' <= SizeOf[f] + 1
            /\ chunkRetries' \in 0 .. ChunkRetryLimit
        BY <1>1, <1>2 DEF ChunkRetryLimit
      <3> QED BY <1>2, <3>1 DEF disks, Inv, TypeOK
    <2>3. Progress' /\ FirstFile'
      BY <1>1, <1>2 DEF disks, Inv, Progress, Working, FirstFile
    <2>4. Verified'
      BY <1>1, <1>2, <2>1 DEF disks, Verified, ChunkRetryLimit
    <2>5. RepairedIsRight' /\ DownloadedIsWhole'
      BY <1>1, <1>2, ReportsKept DEF disks
    <2> QED BY <2>2, <2>3, <2>4, <2>5 DEF Inv
  <1>3. CASE phase' \in {"next", "aborted"} /\ UNCHANGED <<disks, chunks, report>>
    <2>1. TypeOK' /\ Progress'
      BY <1>1, <1>3 DEF disks, chunks, Inv, TypeOK, Progress, Working
    <2>2. Verified' /\ FirstFile'
      BY <1>1, <1>3 DEF Inv, Verified, FirstFile
    <2>3. RepairedIsRight' /\ DownloadedIsWhole'
      BY <1>1, <1>3, ReportsKept DEF disks
    <2> QED BY <2>1, <2>2, <2>3 DEF Inv
  <1>4. CASE /\ present' = present \ {f}
             /\ disk' = [disk EXCEPT ![f] = <<>>]
             /\ localXML' = localXML \ {f}
             /\ phase' = "download"
             /\ UNCHANGED <<chunks, report>>
    <2>1. /\ disk' \in [Files -> Seq(Nat)] /\ disk'[f] = <<>>
          /\ \A g \in Files : disk'[g] \in Seq(0 .. SizeOf[g])
          /\ \A g \in Files : g # f => disk'[g] = disk[g]
      BY <1>1, <1>4, DiskUpdate
    <2>2. TypeOK'
      BY <1>1, <1>4, <2>1 DEF chunks, Inv, TypeOK
    <2>3. Progress' /\ Verified'
      BY <1>1, <1>4 DEF Inv, Progress, Working, Verified
    <2>4. FirstFile'
      BY <1>1, <1>4, <2>1 DEF Inv, FirstFile, Beginning
    <2>5. RepairedIsRight' /\ DownloadedIsWhole'
      BY <1>1, <1>4, <2>1, ReportsKept
    <2> QED BY <2>2, <2>3, <2>4, <2>5 DEF Inv
  <1>5. CASE /\ ParsingFailed /\ Say(f, "repaired")
             /\ phase' = "next" /\ UNCHANGED <<disks, chunks>>
    <2>1. /\ report' \in [Files -> {"none", "failed", "repaired", "downloaded"}]
          /\ report'[f] = "repaired"
          /\ \A g \in Files : g # f => report'[g] = report[g]
          /\ \A g \in Files : g > f' => report'[g] = "none"
      BY <1>1, <1>5, ReportUpdate
    <2>2. TypeOK'
      BY <1>5, <2>1 DEF disks, chunks, Inv, TypeOK
    <2>3. Progress' /\ Verified' /\ FirstFile'
      BY <1>1, <1>5, <2>1 DEF disks, chunks, Inv, Progress, Working, Verified, FirstFile
    <2>4. f \notin parsed
      BY <1>1, <1>5 DEF Inv, Progress, ParsingFailed
    <2>5. RepairedIsRight'
      BY <1>5, <2>1, <2>4 DEF disks, Inv, TypeOK, RepairedIsRight, Right
    <2>6. DownloadedIsWhole'
      BY <1>5, <2>1 DEF DownloadedIsWhole
    <2> QED BY <2>2, <2>3, <2>5, <2>6 DEF Inv
  <1> QED BY <1>2, <1>3, <1>4, <1>5

\* A fetched chunk is written where the current chunk is.
LEMMA FetchFacts ==
  ASSUME Inv, NEW n \in Nat, FetchChunk(n)
  PROVE  /\ f \in Files /\ f \in present /\ report[f] = "none"
         /\ disk' \in [Files -> Seq(Nat)]
         /\ \A g \in Files : disk'[g] \in Seq(0 .. SizeOf[g])
         /\ \A g \in Files : g # f => disk'[g] = disk[g]
         /\ Len(disk'[f]) \in Nat /\ Len(disk'[f]) >= Len(disk[f])
         /\ \A i \in 1 .. Len(disk[f]) : i < chunk => disk'[f][i] = disk[f][i]
         /\ resumeFrom = 0 =>
              \A i \in 1 .. Len(disk[f]) : disk[f][i] = i => disk'[f][i] = i
  <1> DEFINE request == Request(range, resumeFrom, f)
             c == Written(disk[f], chunk - 1, request, n)
  <1>1. /\ f \in Files /\ f \in present /\ report[f] = "none" /\ phase = "fetch"
        /\ range \in Nat \ {0} /\ resumeFrom \in Nat /\ range = chunk
        /\ chunk \in Nat \ {0} /\ chunk <= SizeOf[f]
        /\ Len(disk[f]) >= SizeOf[f]
    BY DEF FetchChunk, Inv, TypeOK, Progress, Working, Verified
  <1>2. /\ SizeOf[f] \in Nat \ {0} /\ disk[f] \in Seq(0 .. SizeOf[f])
        /\ Len(disk[f]) \in Nat
    BY <1>1, Known
  <1>3. n <= Delivered(request) /\ disk' = [disk EXCEPT ![f] = c]
    BY <1>1 DEF FetchChunk, WritePosition, Inv, TypeOK
  <1>4. chunk - 1 \in 0 .. Len(disk[f])
    BY <1>1, <1>2
  <1>5. CASE n = 0
    <2>1. c = disk[f]
      BY <1>5 DEF Written
    <2>2. disk' = disk
      BY <1>1, <1>3, <2>1 DEF Inv, TypeOK
    <2> QED BY <1>1, <1>2, <2>2 DEF Inv, TypeOK
  <1>6. CASE n > 0
    <2>1. request # {}
      BY <1>1, <1>3, <1>6, DeliveredFacts
    <2>2. First(request) \in 1 .. SizeOf[f] /\ (resumeFrom = 0 => First(request) = range)
      BY <1>1, <2>1, RequestFacts DEF NoRange
    <2>3. /\ n <= SizeOf[f] - First(request) + 1
          /\ resumeFrom = 0 => n = 1
      <3>1. /\ Delivered(request) \in 1 .. SizeOf[f] - First(request) + 1
            /\ resumeFrom = 0 => Delivered(request) = 1
        BY <1>1, <2>1, DeliveredFacts DEF NoRange
      <3> HIDE DEF request
      <3> QED BY <1>2, <1>3, <1>6, <2>2, <3>1
    <2> HIDE DEF request
    <2>4. /\ c \in Seq(0 .. SizeOf[f]) /\ Len(c) \in Nat /\ Len(c) >= Len(disk[f])
          /\ \A i \in 1 .. Len(disk[f]) :
               i \notin (chunk - 1) + 1 .. (chunk - 1) + n => c[i] = disk[f][i]
          /\ \A i \in (chunk - 1) + 1 .. (chunk - 1) + n :
               c[i] = First(request) + i - (chunk - 1) - 1
      <3> DEFINE p == chunk - 1
      <3>1. p \in 0 .. Len(disk[f]) /\ p \in Nat /\ c = Written(disk[f], p, request, n)
        BY <1>1, <1>4
      <3> HIDE DEF c, p
      <3>2. /\ c \in Seq(0 .. SizeOf[f])
            /\ Len(c) = IF p + n > Len(disk[f]) THEN p + n ELSE Len(disk[f])
            /\ \A i \in 1 .. Len(disk[f]) : i \notin p + 1 .. p + n => c[i] = disk[f][i]
            /\ \A i \in p + 1 .. p + n : c[i] = First(request) + i - p - 1
        <4>1. /\ f \in Files /\ disk[f] \in Seq(0 .. SizeOf[f])
              /\ n > 0 => /\ First(request) \in 1 .. SizeOf[f]
                          /\ n <= SizeOf[f] - First(request) + 1
          BY <1>1, <1>2, <2>2, <2>3
        <4> QED BY <3>1, <4>1, WrittenFacts
      <3>3. Len(c) \in Nat /\ Len(c) >= Len(disk[f])
        BY <1>2, <3>1, <3>2
      <3> QED BY <3>2, <3>3 DEF p
    <2> HIDE DEF c
    <2>5. /\ disk' \in [Files -> Seq(Nat)] /\ disk'[f] = c
          /\ \A g \in Files : disk'[g] \in Seq(0 .. SizeOf[g])
          /\ \A g \in Files : g # f => disk'[g] = disk[g]
      BY <1>1, <1>3, <2>4, DiskUpdate
    <2>6. \A i \in 1 .. Len(disk[f]) : i < chunk => c[i] = disk[f][i]
      BY <1>1, <1>2, <2>4
    <2>7. ASSUME resumeFrom = 0, NEW i \in 1 .. Len(disk[f]), disk[f][i] = i
          PROVE  c[i] = i
      <3>1. CASE i = chunk
        <4>1. i \in (chunk - 1) + 1 .. (chunk - 1) + n
          BY <1>1, <2>3, <2>7, <3>1
        <4>2. c[i] = First(request) + i - (chunk - 1) - 1
          BY <2>4, <4>1
        <4> QED BY <1>1, <2>2, <2>7, <3>1, <4>2
      <3>2. CASE i # chunk
        <4>1. i \notin (chunk - 1) + 1 .. (chunk - 1) + n
          BY <1>1, <2>3, <2>7, <3>2
        <4> QED BY <2>4, <2>7, <4>1
      <3> QED BY <3>1, <3>2
    <2> QED BY <1>1, <2>4, <2>5, <2>6, <2>7
  <1> QED BY <1>5, <1>6

LEMMA FetchChunkInv == ASSUME Inv, NEW n \in Nat, FetchChunk(n) PROVE Inv'
  <1>1. /\ phase' = "chunk" /\ phase = "fetch"
        /\ UNCHANGED <<present, localXML, handle, f, source, parsed, existed, chunk,
                       resumed, retries, report>>
        /\ chunkRetries' = chunkRetries + 1
        /\ limit' = (chunkRetries + 1 >= ChunkRetryLimit)
    BY DEF FetchChunk, Fetched
  <1>2. faults' \in 0 .. MaxFaults
    BY RepairAssumption DEF FetchChunk, Fault, Inv, TypeOK
  <1>3. chunkRetries \in Nat /\ chunkRetries + 1 \in 0 .. ChunkRetryLimit
    BY <1>1 DEF Inv, TypeOK, Verified, ChunkRetryLimit
  <1>4. TypeOK'
    <2>1. limit' \in BOOLEAN
      BY <1>1
    <2>2. \A g \in Files \ present' : disk'[g] = <<>>
      BY <1>1, FetchFacts DEF Inv, TypeOK
    <2>3. chunk <= SizeOf[f] + 1
      BY <1>1 DEF Inv, TypeOK
    <2> QED BY <1>1, <1>2, <1>3, <2>1, <2>2, <2>3, FetchFacts DEF handle, Inv, TypeOK
  <1>5. Progress' /\ FirstFile'
    BY <1>1 DEF handle, Inv, Progress, Working, FirstFile
  <1>6. Verified'
    <2>1. SizeOf[f] \in Nat /\ Len(disk[f]) \in Nat
      BY FetchFacts, Known
    <2>2. Len(disk'[f]) >= SizeOf[f]
      BY <1>1, <2>1, FetchFacts DEF Inv, Verified
    <2>3. \A i \in 1 .. SizeOf[f] : i < chunk => disk'[f][i] = i
      <3> SUFFICES ASSUME NEW i \in 1 .. SizeOf[f], i < chunk PROVE disk'[f][i] = i
        OBVIOUS
      <3>1. disk[f][i] = i /\ Len(disk[f]) >= SizeOf[f]
        BY <1>1 DEF Inv, Verified
      <3>2. i \in 1 .. Len(disk[f])
        BY <2>1, <3>1
      <3> QED BY <3>1, <3>2, FetchFacts
    <2> QED BY <1>1, <2>2, <2>3 DEF Verified
  <1>7. RepairedIsRight' /\ DownloadedIsWhole'
    BY <1>1, FetchFacts, ReportsKept
  <1> QED BY <1>4, <1>5, <1>6, <1>7 DEF Inv

\* When the last chunk is verified, all are right.
LEMMA AllVerifiedInv == ASSUME Inv, AllVerified PROVE Inv'
  <1> USE DEF AllVerified, disks, handle, chunks
  <1>1. /\ f \in Files /\ report[f] = "none" /\ SizeOf[f] \in Nat
        /\ chunk \in Nat /\ chunk > SizeOf[f]
    BY Known DEF Inv, TypeOK, Progress, Working
  <1>2. /\ report' \in [Files -> {"none", "failed", "repaired", "downloaded"}]
        /\ report'[f] = "repaired"
        /\ \A g \in Files : g # f => report'[g] = report[g]
        /\ \A g \in Files : g > f' => report'[g] = "none"
    BY <1>1, ReportUpdate
  <1>3. TypeOK'
    BY <1>2 DEF Inv, TypeOK
  <1>4. Progress' /\ Verified' /\ FirstFile'
    BY <1>1, <1>2 DEF Progress, Verified, FirstFile, Working, Inv
  <1>5. RepairedIsRight'
    <2>1. Right(f)
      BY <1>1 DEF Inv, Verified, Right
    <2> QED BY <1>2, <2>1 DEF Inv, TypeOK, RepairedIsRight, Right
  <1>6. DownloadedIsWhole'
    BY <1>1, <1>2 DEF DownloadedIsWhole
  <1> QED BY <1>3, <1>4, <1>5, <1>6 DEF Inv

\* The first file is skipped as complete only when it is whole.
LEMMA SkipCompleteInv == ASSUME Inv, SkipComplete PROVE Inv'
  <1> USE DEF SkipComplete, handle, chunks
  <1>1. /\ f \in Files /\ report[f] = "none" /\ localXML' \subseteq Files
        /\ disk[f] \in Seq(Nat) /\ SizeOf[f] \in Nat
    BY Known DEF Inv, TypeOK, Progress, Working, SavedXML
  <1>2. /\ report' \in [Files -> {"none", "failed", "repaired", "downloaded"}]
        /\ report'[f] = "downloaded"
        /\ \A g \in Files : g # f => report'[g] = report[g]
        /\ \A g \in Files : g > f' => report'[g] = "none"
    BY <1>1, ReportUpdate
  <1>3. TypeOK'
    BY <1>1, <1>2 DEF Inv, TypeOK
  <1>4. Progress' /\ Verified' /\ FirstFile'
    BY <1>1, <1>2 DEF Progress, Verified, FirstFile, Working, Inv
  <1>5. RepairedIsRight'
    BY <1>2 DEF Inv, TypeOK, RepairedIsRight, Right
  <1>6. DownloadedIsWhole'
    <2> SUFFICES ASSUME f = 1, ~ParsingFailed PROVE disk[f] = Whole(f)
      BY DEF DownloadedIsWhole, ParsingFailed
    <2>1. Beginning(disk[f], f)
      BY DEF Inv, FirstFile
    <2>2. Len(disk[f]) >= SizeOf[f]
      BY <1>1
    <2> QED BY <1>1, <2>1, <2>2, WholeBeginning
  <1> QED BY <1>3, <1>4, <1>5, <1>6 DEF Inv

LEMMA OpenFileInv == ASSUME Inv, OpenFile PROVE Inv'
  <1> USE DEF OpenFile, chunks
  <1>1. /\ f \in Files /\ report[f] = "none" /\ localXML' \subseteq Files
        /\ resumeFrom' = Len(disk[f]) /\ resumeFrom' \in Nat
        /\ resumed' \in BOOLEAN
    BY Known DEF Inv, TypeOK, Progress, Working, SavedXML, ResumePosition
  <1>2. TypeOK'
    BY <1>1 DEF Inv, TypeOK
  <1>3. Progress' /\ Verified'
    BY <1>1 DEF Inv, Progress, Working, Verified
  <1>4. FirstFile'
    BY <1>1 DEF Inv, FirstFile, ParsingFailed
  <1>5. RepairedIsRight' /\ DownloadedIsWhole'
    BY <1>1, ReportsKept
  <1> QED BY <1>2, <1>3, <1>4, <1>5 DEF Inv

\* The chunks of a transfer are appended to the file; those of the first file
\* make a beginning longer, and whole when all of them have come.
LEMMA AppendFacts ==
  ASSUME Inv, phase = "perform", NEW n \in Nat,
         n <= Delivered(Request(range, resumeFrom, f))
  PROVE  LET request == Request(range, resumeFrom, f)
             c == Written(disk[f], Len(disk[f]), request, n)
         IN /\ c \in Seq(0 .. SizeOf[f])
            /\ f = 1 /\ ~ParsingFailed =>
                 /\ Beginning(c, f)
                 /\ request # {} /\ n = Delivered(request) => Len(c) >= SizeOf[f]
  <1> DEFINE request == Request(range, resumeFrom, f)
             len == Len(disk[f])
             c == Written(disk[f], len, request, n)
  <1>1. /\ f \in Files /\ resumeFrom = len /\ range \in Nat
        /\ f = 1 => range = NoRange
        /\ f = 1 /\ ~ParsingFailed => Beginning(disk[f], f)
    BY DEF Inv, TypeOK, Progress, FirstFile
  <1>2. /\ SizeOf[f] \in Nat \ {0} /\ disk[f] \in Seq(0 .. SizeOf[f])
        /\ len \in Nat
    BY <1>1, Known
  <1>3. request # {} =>
          /\ First(request) \in 1 .. SizeOf[f]
          /\ f = 1 => First(request) = len + 1
          /\ Delivered(request) \in 1 .. SizeOf[f] - First(request) + 1
          /\ f = 1 => Delivered(request) = SizeOf[f] - First(request) + 1
    BY <1>1, <1>2, RequestFacts, DeliveredFacts
  <1>4. request = {} => n = 0
    BY <1>1, <1>2, DeliveredFacts
  <1>5. n > 0 => /\ First(request) \in 1 .. SizeOf[f]
                 /\ n <= SizeOf[f] - First(request) + 1
    <2>1. n <= Delivered(request)
      OBVIOUS
    <2> HIDE DEF request
    <2> QED BY <1>2, <1>3, <1>4, <2>1
  <1>6. /\ c \in Seq(0 .. SizeOf[f])
        /\ Len(c) = len + n
        /\ \A i \in 1 .. len : c[i] = disk[f][i]
        /\ \A i \in len + 1 .. len + n : c[i] = First(request) + i - len - 1
    <2>1. /\ f \in Files /\ disk[f] \in Seq(0 .. SizeOf[f])
          /\ n > 0 => /\ First(request) \in 1 .. SizeOf[f]
                      /\ n <= SizeOf[f] - First(request) + 1
      BY <1>1, <1>2, <1>5
    <2> DEFINE old == disk[f]
    <2>2. /\ f \in Files /\ old \in Seq(0 .. SizeOf[f])
          /\ n > 0 => /\ First(request) \in 1 .. SizeOf[f]
                      /\ n <= SizeOf[f] - First(request) + 1
          /\ c = Written(old, Len(old), request, n) /\ len = Len(old)
      BY <2>1
    <2> HIDE DEF request, old, c, len
    <2>3. /\ Written(old, Len(old), request, n) \in Seq(0 .. SizeOf[f])
          /\ Len(Written(old, Len(old), request, n)) = Len(old) + n
          /\ \A i \in 1 .. Len(old) : Written(old, Len(old), request, n)[i] = old[i]
          /\ \A i \in Len(old) + 1 .. Len(old) + n :
               Written(old, Len(old), request, n)[i] = First(request) + i - Len(old) - 1
      BY <2>2, AppendedFacts
    <2> QED BY <2>2, <2>3 DEF old
  <1>7. ASSUME f = 1, ~ParsingFailed
        PROVE  /\ Beginning(c, f)
               /\ request # {} /\ n = Delivered(request) => Len(c) >= SizeOf[f]
    <2>1. len <= SizeOf[f] /\ \A i \in 1 .. len : disk[f][i] = i
      BY <1>1, <1>7 DEF Beginning
    <2> HIDE DEF request, c, len
    <2>2. n > 0 => First(request) = len + 1
      BY <1>3, <1>4, <1>7
    <2>3. Len(c) <= SizeOf[f]
      <3>1. CASE n = 0
        BY <1>2, <1>6, <2>1, <3>1
      <3>2. CASE n > 0
        BY <1>2, <1>5, <1>6, <2>2, <3>2
      <3> QED BY <3>1, <3>2
    <2>4. \A i \in 1 .. Len(c) : c[i] = i
      <3> SUFFICES ASSUME NEW i \in 1 .. len + n PROVE c[i] = i
        BY <1>6
      <3>1. CASE i \in 1 .. len
        BY <1>2, <1>6, <2>1, <3>1
      <3>2. CASE i \in len + 1 .. len + n
        <4>1. n > 0
          BY <1>2, <3>2
        <4> QED BY <1>2, <1>6, <2>2, <3>2, <4>1
      <3> QED BY <1>2, <3>1, <3>2
    <2>5. request # {} /\ n = Delivered(request) => Len(c) >= SizeOf[f]
      BY <1>2, <1>3, <1>6, <1>7
    <2> QED BY <2>3, <2>4, <2>5 DEF Beginning
  <1> QED BY <1>6, <1>7

\* A transfer appends, or deletes a file that was not resumed; what is said to
\* be downloaded came in whole.
LEMMA PerformInv ==
  ASSUME Inv, NEW r \in Errors \union {"ok", "range"}, NEW n \in Nat, Perform(r, n)
  PROVE  Inv'
  <1> DEFINE request == Request(range, resumeFrom, f)
             c == Written(disk[f], Len(disk[f]), request, n)
             fine == r = "ok" \/ (r = "range" /\ ParsingFailed /\ existed)
  <1>1. /\ phase = "perform" /\ f \in Files /\ f \in present /\ report[f] = "none"
        /\ UNCHANGED <<handle, f, source, parsed, existed, chunks, resumed>>
        /\ disk \in [Files -> Seq(Nat)]
    BY DEF Perform, Inv, TypeOK, Progress, Working
  <1>2. n <= Delivered(request) /\ (r = "ok" => request # {} /\ n = Delivered(request))
    BY DEF Perform, Errors
  <1>3. /\ c \in Seq(0 .. SizeOf[f])
        /\ f = 1 /\ ~ParsingFailed =>
             /\ Beginning(c, f)
             /\ r = "ok" => Len(c) >= SizeOf[f]
    BY <1>1, <1>2, AppendFacts
  <1>4. \/ disk' = [disk EXCEPT ![f] = c] /\ present' = present
        \/ /\ disk' = [disk EXCEPT ![f] = <<>>] /\ present' = present \ {f}
           /\ r # "ok"
    BY <1>1 DEF Perform
  <1>5. /\ faults' \in 0 .. MaxFaults
        /\ \/ /\ phase' = "download" /\ retries' \in 0 .. Retries
              /\ UNCHANGED <<report, localXML>>
           \/ /\ phase' = "next" /\ retries' \in 0 .. Retries
              /\ localXML' \subseteq Files
              /\ Say(f, IF fine THEN "downloaded" ELSE "failed")
    <2>1. faults' \in 0 .. MaxFaults
      BY RepairAssumption DEF Perform, Fault, Inv, TypeOK
    <2>2. CASE Retried(r)
      BY <2>1, <2>2, RepairAssumption DEF Perform, Retried, Inv, TypeOK
    <2>3. CASE ~Retried(r)
      <3>1. /\ retries' = 0 /\ phase' = "next"
            /\ Say(f, IF fine THEN "downloaded" ELSE "failed")
            /\ localXML' \in {localXML, IF fine THEN localXML \union {f} ELSE localXML}
        BY <2>3 DEF Perform
      <3>2. localXML' \subseteq Files /\ 0 \in 0 .. Retries
        BY <1>1, <3>1, RepairAssumption DEF Inv, TypeOK
      <3> QED BY <2>1, <3>1, <3>2
    <2> QED BY <2>2, <2>3
  <1> HIDE DEF c, request, fine
  <1>6. /\ disk' \in [Files -> Seq(Nat)] /\ disk'[f] \in {c, <<>>}
        /\ \A g \in Files : disk'[g] \in Seq(0 .. SizeOf[g])
        /\ \A g \in Files : g # f => disk'[g] = disk[g]
        /\ f \notin present' => disk'[f] = <<>>
        /\ r = "ok" => disk'[f] = c
    <2>1. CASE disk' = [disk EXCEPT ![f] = c] /\ present' = present
      BY <1>1, <1>3, <2>1, DiskUpdate
    <2>2. CASE /\ disk' = [disk EXCEPT ![f] = <<>>] /\ present' = present \ {f}
               /\ r # "ok"
      <3>1. <<>> \in Seq(0 .. SizeOf[f])
        OBVIOUS
      <3> QED BY <1>1, <2>2, <3>1, DiskUpdate
    <2> QED BY <1>4, <2>1, <2>2
  <1>7. f = 1 /\ ~ParsingFailed => Beginning(disk'[f], f)
    <2>1. Beginning(<<>>, f)
      BY <1>1, Known DEF Beginning
    <2> QED BY <1>3, <1>6, <2>1
  <1>8. /\ report' \in [Files -> {"none", "failed", "repaired", "downloaded"}]
        /\ report'[f] \in {"none", "failed", "downloaded"}
        /\ report'[f] = "downloaded" => fine
        /\ phase' = "download" => report'[f] = "none"
        /\ \A g \in Files : g # f => report'[g] = report[g]
        /\ \A g \in Files : g > f => report'[g] = "none"
    <2>1. CASE UNCHANGED report /\ phase' = "download"
      BY <1>1, <2>1 DEF Inv, TypeOK, Progress
    <2>2. CASE /\ phase' = "next"
               /\ Say(f, IF fine THEN "downloaded" ELSE "failed")
      <3>1. f' = f
        BY <1>1
      <3>2. CASE fine
        <4>1. Say(f, "downloaded")
          BY <2>2, <3>2
        <4> QED BY <1>1, <2>2, <3>1, <3>2, <4>1, ReportUpdate
      <3>3. CASE ~fine
        <4>1. Say(f, "failed")
          BY <2>2, <3>3
        <4> QED BY <1>1, <2>2, <3>1, <4>1, ReportUpdate
      <3> QED BY <3>2, <3>3
    <2> QED BY <1>5, <2>1, <2>2
  <1>9. TypeOK'
    <2>1. /\ present' \subseteq Files /\ localXML' \subseteq Files
          /\ \A g \in Files \ present' : disk'[g] = <<>>
      BY <1>1, <1>4, <1>5, <1>6 DEF Inv, TypeOK
    <2> QED BY <1>1, <1>5, <1>6, <1>8, <2>1 DEF handle, chunks, Inv, TypeOK
  <1>10. Progress' /\ Verified'
    BY <1>1, <1>5, <1>8 DEF handle, chunks, Inv, Progress, Verified, Working
  <1>11. FirstFile'
    BY <1>1, <1>5, <1>7 DEF handle, Inv, FirstFile, ParsingFailed
  <1>12. RepairedIsRight'
    BY <1>1, <1>6, <1>8 DEF Inv, TypeOK, RepairedIsRight, Right
  <1>13. DownloadedIsWhole'
    <2> SUFFICES ASSUME f = 1, ~ParsingFailed, report'[f] = "downloaded"
                 PROVE  disk'[f] = Whole(f)
      BY <1>1 DEF DownloadedIsWhole, ParsingFailed
    <2>1. r = "ok"
      BY <1>8 DEF fine
    <2>2. Len(disk'[f]) >= SizeOf[f] /\ disk'[f] \in Seq(Nat)
      BY <1>1, <1>3, <1>6, <2>1
    <2> QED BY <1>1, <1>7, <2>2, WholeBeginning
  <1> QED BY <1>9, <1>10, <1>11, <1>12, <1>13 DEF Inv

\* Every step keeps the invariant.
LEMMA NextInv == ASSUME Inv, [Next]_vars PROVE Inv'
  <1>1. CASE NextFile
    BY <1>1, NextFileInv
  <1>2. CASE Stop
    BY <1>2, StopInv
  <1>3. CASE ExamineNoXML
    BY <1>3, ExamineNoXMLInv
  <1>4. CASE ExamineMissing
    BY <1>4, ExamineMissingInv
  <1>5. CASE \E matches \in BOOLEAN : ExamineSize(matches)
    BY <1>5, ExamineSizeInv
  <1>6. CASE VerifyRight
    BY <1>6, VerifyRightInv
  <1>7. CASE VerifyWrong
    BY <1>7, VerifyWrongInv
  <1>8. CASE f > 0 /\ \E n \in 0 .. SizeOf[f] : FetchChunk(n)
    BY <1>8, FetchChunkInv
  <1>9. CASE AllVerified
    BY <1>9, AllVerifiedInv
  <1>10. CASE SkipComplete
    BY <1>10, SkipCompleteInv
  <1>11. CASE OpenFile
    BY <1>11, OpenFileInv
  <1>12. CASE f > 0 /\ \E r \in Errors \union {"ok", "range"}, n \in 0 .. SizeOf[f] :
                         Perform(r, n)
    BY <1>12, PerformInv
  <1>13. CASE UNCHANGED vars
    <2>1. TypeOK' /\ Progress'
      BY <1>13 DEF vars, disks, handle, chunks, Inv, TypeOK, Progress, Working
    <2>2. Verified' /\ FirstFile'
      BY <1>13 DEF vars, disks, handle, chunks, Inv, Verified, FirstFile, ParsingFailed
    <2>3. RepairedIsRight' /\ DownloadedIsWhole'
      BY <1>13 DEF vars, disks, Inv, RepairedIsRight, Right, DownloadedIsWhole,
                    ParsingFailed
    <2> QED BY <2>1, <2>2, <2>3 DEF Inv
  <1> QED BY <1>1, <1>2, <1>3, <1>4, <1>5, <1>6, <1>7, <1>8, <1>9, <1>10, <1>11, <1>12,
             <1>13 DEF Next, Step, Ended

--------------------------------------------------------------------------------
(* Theorems *)

\* The invariant holds in every state.
THEOREM Invariance == Spec => []Inv
  <1>1. Init => Inv
    BY InitInv
  <1>2. Inv /\ [Next]_vars => Inv'
    BY NextInv
  <1> QED BY <1>1, <1>2, PTL DEF Spec

\* The variables keep their types; no file grows a chunk it does not have, even
\* where a resume position left on the handle makes it longer.
THEOREM TypeCorrect == Spec => []TypeOK
  <1>1. Inv => TypeOK
    BY DEF Inv
  <1> QED BY <1>1, Invariance, PTL

\* What repairFile reports as repaired has every chunk right, with whatever
\* options earlier transfers left on the handle, if its XML data could be parsed.
THEOREM RepairedCorrect == Spec => []RepairedIsRight
  <1>1. Inv => RepairedIsRight
    BY DEF Inv
  <1> QED BY <1>1, Invariance, PTL

\* What downloadFile reports as downloaded is the server's file, for the first
\* file, across retries and resumes.
THEOREM DownloadedCorrect == Spec => []DownloadedIsWhole
  <1>1. Inv => DownloadedIsWhole
    BY DEF Inv
  <1> QED BY <1>1, Invariance, PTL

\* With no resume position left on the handle, fetching a chunk makes no right
\* chunk wrong: the range is one chunk, and it is written where it belongs.
THEOREM FetchCorrect == Spec => RightChunksKept
  <1> DEFINE Kept ==
        phase = "fetch" /\ resumeFrom = 0 =>
          \A i \in DOMAIN disk[f] : disk[f][i] = i => disk'[f][i] = i
  <1>1. ASSUME Inv, [Next]_vars PROVE Kept
    <2> SUFFICES ASSUME phase = "fetch", resumeFrom = 0, NEW i \in DOMAIN disk[f],
                        disk[f][i] = i
                 PROVE  disk'[f][i] = i
      OBVIOUS
    <2>1. \/ \E n \in Nat : FetchChunk(n)
          \/ UNCHANGED disk
      <3>1. 0 .. SizeOf[f] \subseteq Nat
        OBVIOUS
      <3> QED BY <1>1, <3>1
              DEF Next, Step, Ended, NextFile, Stop, ExamineNoXML, ExamineMissing,
                  ExamineSize, VerifyRight, VerifyWrong, AllVerified, SkipComplete,
                  OpenFile, Perform, vars, disks
    <2>2. CASE \E n \in Nat : FetchChunk(n)
      <3>1. f \in Files /\ disk[f] \in Seq(Nat)
        BY <1>1, <2>2, FetchFacts, Known
      <3>2. i \in 1 .. Len(disk[f])
        BY <3>1
      <3> QED BY <1>1, <2>2, <3>2, FetchFacts
    <2>3. CASE UNCHANGED disk
      BY <2>3
    <2> QED BY <2>1, <2>2, <2>3
  <1>2. Inv /\ [Next]_vars => [Kept]_vars
    BY <1>1
  <1>3. Spec => [][Kept]_vars
    BY <1>2, Invariance, PTL DEF Spec
  <1> QED BY <1>3, PTL DEF RightChunksKept
================================================================================
