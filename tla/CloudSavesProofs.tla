---------------------------- MODULE CloudSavesProofs ----------------------------
(* Proofs about CloudSaves, for any saves and versions, any lists, any number *)
(* of threads, retries and faults.                                            *)
EXTENDS CloudSaves, FiniteSetTheorems, TLAPS

--------------------------------------------------------------------------------
(* The order of the saves *)

\* The saves are finitely many.
LEMMA SavesFinite == \A S \in SUBSET Saves : IsFiniteSet(S)
  <1>1. IsFiniteSet(Saves)
    BY FS_Interval, CountsAssumption DEF Saves
  <1> QED BY <1>1, FS_Subset

\* SetToSeq lists the elements of a finite set, each once.
LEMMA ListFacts ==
  ASSUME NEW S \in SUBSET Saves
  PROVE  /\ Cardinality(S) \in Nat
         /\ SetToSeq(S) \in [1 .. Cardinality(S) -> S]
         /\ \A i, j \in 1 .. Cardinality(S) : SetToSeq(S)[i] = SetToSeq(S)[j] => i = j
  <1>1. Cardinality(S) \in Nat /\ ExistsBijection(1 .. Cardinality(S), S)
    BY SavesFinite, FS_CardinalityType
  <1>2. PICK b \in Bijection(1 .. Cardinality(S), S) : TRUE
    BY <1>1 DEF ExistsBijection
  <1>3. b \in [1 .. Cardinality(S) -> S] /\ IsInjective(b)
    BY <1>2 DEF Bijection, Injection
  <1>4. SetToSeq(S) \in [1 .. Cardinality(S) -> S] /\ IsInjective(SetToSeq(S))
    BY <1>3 DEF SetToSeq
  <1> QED BY <1>1, <1>4 DEF IsInjective

\* A queue element for each save of the set, and none twice.
LEMMA OrderFacts ==
  ASSUME NEW S \in SUBSET Saves, NEW time, \A s \in S : time[s] \in Times
  PROVE  /\ InOrder(S, time) \in Seq([save : Saves, time : Times])
         /\ \A i \in DOMAIN InOrder(S, time) : InOrder(S, time)[i].save \in S
         /\ \A i, j \in DOMAIN InOrder(S, time) :
              i # j => InOrder(S, time)[i].save # InOrder(S, time)[j].save
  <1> DEFINE order == SetToSeq(S)
             n == Cardinality(S)
  <1>1. /\ n \in Nat /\ order \in [1 .. n -> S] /\ DOMAIN order = 1 .. n
        /\ \A i, j \in 1 .. n : order[i] = order[j] => i = j
    BY ListFacts
  <1>2. InOrder(S, time) = [i \in 1 .. n |-> [save |-> order[i], time |-> time[order[i]]]]
    BY <1>1 DEF InOrder
  <1> HIDE DEF order, n
  <1>3. \A i \in 1 .. n : /\ order[i] \in S
                          /\ [save |-> order[i], time |-> time[order[i]]]
                                \in [save : Saves, time : Times]
    BY <1>1
  <1>4. InOrder(S, time) \in Seq([save : Saves, time : Times])
    BY <1>1, <1>2, <1>3
  <1>5. /\ DOMAIN InOrder(S, time) = 1 .. n
        /\ \A i \in 1 .. n : InOrder(S, time)[i].save = order[i]
    BY <1>2
  <1> QED BY <1>1, <1>3, <1>4, <1>5

--------------------------------------------------------------------------------
(* The inductive invariant *)

Holding == {"read", "put", "lock", "open", "receive", "settle", "settime"}
Locked == {"open", "receive", "settle", "settime"}
Beginning(c, r) == Len(c) <= Len(r) /\ \A i \in 1 .. Len(c) : c[i] = r[i]

\* What the position of a thread says of its save, the operation, the lock and
\* the retries.
ThreadShape(t) ==
  LET th == threads[t]
  IN /\ th.save # 0 <=> th.pc \in Holding
     /\ th.pc \in {"read", "put"} => op = "upload"
     /\ th.pc \in {"lock"} \union Locked => op = "download"
     /\ th.pc \in Locked <=> lock = t
     /\ op \in {"idle", "delete"} => th.pc = "none"
     /\ th.pc \in {"read", "put", "lock", "open", "receive"} => th.tries <= Retries
     /\ th.pc \in {"login", "loop"} => th.tries = 0 /\ th.result = "none"

Shape == (op = "idle" => queue = <<>>) /\ \A t \in Workers : ThreadShape(t)

\* Nothing is transferred before something was written.
Clock ==
  written = 0 =>
    /\ queue = <<>>
    /\ \A s \in Saves : ~HasLocal(s) /\ ~HasRemote(s)
    /\ \A t \in Workers : threads[t].save = 0

\* A .~incomplete file is a beginning of the server's copy, unless that changed.
Parts ==
  \A s \in Saves :
    HasPart(s) /\ s \notin replaced => Beginning(part[s].content, remote[s].content)

\* A resumed file is there; the position of a transfer is the end of the file,
\* and the copy served is the server's, unless that changed; after a success
\* the file is all of it.
Download(t) ==
  LET th == threads[t]
      s == th.save
  IN /\ th.pc \in {"lock", "open"} => (th.resume => HasPart(s)) /\ ~Success(t)
     /\ th.pc = "receive" =>
          /\ HasPart(s) /\ th.start + th.got = Len(part[s].content)
          /\ s \notin replaced => th.served = remote[s]
     /\ th.pc = "settle" /\ Success(t) =>
          HasPart(s) /\ (s \notin replaced => part[s].content = remote[s].content)

Downloads == \A t \in Workers : Download(t)

Inv == TypeOK /\ Shape /\ Clock /\ Parts /\ Downloads /\ ExclusiveSaves

\* The records have the types they are meant to have.
LEMMA Constants ==
  /\ NVersions \in Nat /\ Retries \in Nat /\ MaxFaults \in Nat /\ NSaves \in Nat
  /\ NoFile \in LocalFiles /\ NoRemote \in Copies /\ NoThread \in ThreadStates
  /\ 0 \notin Workers /\ 0 \notin Saves
  /\ NoThread.pc = "none" /\ NoThread.save = 0 /\ NoFile.time = 0 /\ NoRemote.listed = 0
  <1>1. /\ NVersions \in Nat /\ Retries \in Nat /\ MaxFaults \in Nat
        /\ NSaves \in Nat /\ Threads \in Nat
    BY CountsAssumption
  <1>2. 0 \notin Workers /\ 0 \notin Saves
    BY <1>1 DEF Workers, Saves
  <1>3. 0 \in Times /\ <<>> \in Seq(Versions) /\ 0 \in 0 .. Retries + 1
    BY <1>1 DEF Times
  <1>4. NoFile \in LocalFiles
    BY <1>3 DEF NoFile, LocalFiles
  <1>5. NoRemote \in Copies
    BY <1>3 DEF NoRemote, Copies
  <1>6. NoThread \in ThreadStates
    BY <1>3, <1>5 DEF NoThread, ThreadStates, Steps, Results
  <1> QED BY <1>1, <1>2, <1>4, <1>5, <1>6 DEF NoThread, NoFile, NoRemote

\* The program begins in the invariant.
LEMMA InitInv == ASSUME Init PROVE Inv
  <1> USE Constants
  <1>1. TypeOK
    <2>1. local \in [Saves -> LocalFiles] /\ part \in [Saves -> LocalFiles]
      BY DEF Init
    <2>2. remote \in [Saves -> Copies] /\ threads \in [Workers -> ThreadStates]
      BY DEF Init
    <2>3. written \in 0 .. NVersions /\ faults \in 0 .. MaxFaults
      BY DEF Init
    <2>4. queue \in Seq([save : Saves, time : Times])
      BY DEF Init
    <2> QED BY <2>1, <2>2, <2>3, <2>4 DEF Init, TypeOK
  <1>2. \A t \in Workers : threads[t].pc = "none" /\ threads[t].save = 0
    BY DEF Init
  <1>3. Shape
    BY <1>2 DEF Init, Shape, ThreadShape, Holding, Locked
  <1>4. Clock
    BY <1>2 DEF Init, Clock, HasLocal, HasRemote
  <1>5. Parts
    BY DEF Init, Parts, HasPart
  <1>6. Downloads
    BY <1>2 DEF Downloads, Download
  <1>7. ExclusiveSaves
    BY <1>2 DEF Init, ExclusiveSaves, Held
  <1> QED BY <1>1, <1>3, <1>4, <1>5, <1>6, <1>7 DEF Inv

--------------------------------------------------------------------------------
(* Steps that do not transfer *)

\* A fault is counted, or not, within its bound.
LEMMA FaultBound ==
  ASSUME TypeOK, NEW ok \in BOOLEAN, Fault \/ FaultUnless(ok) \/ UNCHANGED faults
  PROVE  faults' \in 0 .. MaxFaults
  BY Constants DEF TypeOK, Fault, FaultUnless

\* A thread that has not begun to resume is as sound after a change of other
\* things than its save, its .~incomplete file and the copy on the server.
LEMMA DownloadKept ==
  ASSUME NEW t \in Workers, Download(t), threads'[t] = threads[t],
         part'[threads[t].save] = part[threads[t].save],
         threads[t].save \in replaced => threads[t].save \in replaced',
         remote'[threads[t].save] = remote[threads[t].save]
  PROVE  Download(t)'
  BY DEF Download, HasPart, Success

\* A change on the server leaves everything sound.
LEMMA RemoteStep ==
  ASSUME TypeOK, Parts, NEW s \in Saves, NEW copy \in Copies,
         UNCHANGED part, SetRemote(s, copy)
  PROVE  /\ remote' \in [Saves -> Copies]
         /\ replaced' \subseteq {r \in Saves : HasPart(r)'}
         /\ Parts'
         /\ \A t \in Workers : Download(t) /\ threads'[t] = threads[t] => Download(t)'
  <1>1. /\ remote' \in [Saves -> Copies] /\ remote'[s] = copy
        /\ \A r \in Saves \ {s} : remote'[r] = remote[r]
    BY DEF TypeOK, SetRemote
  <1>2. /\ replaced \subseteq replaced' /\ replaced' \subseteq replaced \union {s}
        /\ HasPart(s) => s \in replaced'
        /\ \A r : HasPart(r)' <=> HasPart(r)
    BY DEF SetRemote, HasPart
  <1>3. replaced' \subseteq {r \in Saves : HasPart(r)'}
    BY <1>2 DEF TypeOK, SetRemote
  <1>4. ASSUME NEW r \in Saves, HasPart(r)', r \notin replaced'
        PROVE  Beginning(part'[r].content, remote'[r].content)
    <2>1. HasPart(r) /\ r \notin replaced /\ r # s
      BY <1>2, <1>4
    <2> QED BY <1>1, <2>1 DEF Parts
  <1>5. Parts'
    BY <1>4 DEF Parts
  <1>6. ASSUME NEW t \in Workers, Download(t), threads'[t] = threads[t]
        PROVE  Download(t)'
    <2> DEFINE r == threads[t].save
    <2>1. CASE r = s
      <3>1. HasPart(r) => r \in replaced'
        BY <1>2, <2>1
      <3> QED BY <1>2, <1>6, <3>1 DEF Download, HasPart, Success
    <2>2. CASE r \in Saves \ {s}
      BY <1>1, <1>2, <1>6, <2>2, DownloadKept
    <2>3. CASE r \notin Saves
      <3>1. remote'[r] = remote[r]
        BY <1>1, <2>3 DEF SetRemote
      <3> QED BY <1>2, <1>6, <3>1, DownloadKept
    <2> QED BY <2>1, <2>2, <2>3
  <1> QED BY <1>1, <1>3, <1>5, <1>6

\* The first element of a sequence over a set is in the set.
LEMMA HeadFact ==
  ASSUME NEW S, NEW q \in Seq(S), q # <<>>
  PROVE  Head(q) \in S
  OBVIOUS

\* The process ends.
LEMMA EndInv ==
  ASSUME Inv, EndProcess, faults' \in 0 .. MaxFaults
  PROVE  Inv'
  <1> USE Constants
  <1>1. /\ TypeOK /\ Clock /\ Parts /\ UNCHANGED <<written, local, part, remote, replaced>>
        /\ op' = "idle" /\ printing' = FALSE /\ queue' = <<>> /\ lock' = 0
        /\ threads' = [t \in Workers |-> NoThread]
    BY DEF Inv, EndProcess, disk, server
  <1>2. \A t \in Workers : threads'[t].pc = "none" /\ threads'[t].save = 0
    BY <1>1
  <1>3. TypeOK'
    <2>1. threads' \in [Workers -> ThreadStates]
      BY <1>1
    <2>2. queue' \in Seq([save : Saves, time : Times])
      BY <1>1
    <2> QED BY <1>1, <2>1, <2>2 DEF TypeOK, HasPart
  <1>4. Shape'
    BY <1>1, <1>2 DEF Shape, ThreadShape, Holding, Locked
  <1>5. Clock'
    BY <1>1, <1>2 DEF Clock, HasLocal, HasRemote
  <1>6. Parts'
    BY <1>1 DEF Parts, HasPart
  <1>7. Downloads'
    BY <1>2 DEF Downloads, Download
  <1>8. ExclusiveSaves'
    BY <1>1, <1>2 DEF ExclusiveSaves, Held
  <1> QED BY <1>3, <1>4, <1>5, <1>6, <1>7, <1>8 DEF Inv

\* The threads that hold no save have none to share.
LEMMA ExclusiveKept ==
  ASSUME ExclusiveSaves, UNCHANGED queue,
         \A t \in Workers : threads'[t].save \in {0, threads[t].save}
  PROVE  ExclusiveSaves'
  BY DEF ExclusiveSaves, Held

\* The player writes a version.
LEMMA PlayerSavesInv ==
  ASSUME Inv, NEW s \in Saves, PlayerSaves(s)
  PROVE  Inv'
  <1> USE Constants
  <1>1. /\ written \in 0 .. NVersions /\ written < NVersions /\ written' = written + 1
        /\ UNCHANGED <<part, remote, replaced, op, printing, queue, lock, threads, faults>>
    BY DEF Inv, TypeOK, PlayerSaves, server, process
  <1>2. written' \in Versions /\ 2 * written' \in Times
    BY <1>1 DEF Versions, Times
  <1>3. Full(written') \in Seq(Versions)
    BY <1>2, CountsAssumption DEF Full
  <1>4. [time |-> 2 * written', content |-> Full(written')] \in LocalFiles
    BY <1>2, <1>3 DEF LocalFiles
  <1>5. local' \in [Saves -> LocalFiles]
    BY <1>4 DEF PlayerSaves, Inv, TypeOK
  <1>6. written' \in 0 .. NVersions /\ written' # 0
    BY <1>1
  <1>7. TypeOK'
    BY <1>1, <1>5, <1>6 DEF Inv, TypeOK, HasPart
  <1>8. Shape'
    BY <1>1 DEF Inv, Shape, ThreadShape
  <1>9. Parts' /\ Downloads'
    BY <1>1 DEF Inv, Parts, Downloads, Download, HasPart, Success
  <1> QED BY <1>1, <1>6, <1>7, <1>8, <1>9 DEF Inv, Clock, ExclusiveSaves, Held

\* The server's copy is changed from elsewhere, or by the deletion of saves,
\* which takes the first one from the queue.
LEMMA ElsewhereInv ==
  ASSUME Inv, NEW s \in Saves, NEW copy \in Copies, SetRemote(s, copy),
         UNCHANGED <<disk, op, printing, lock, threads>>,
         written' \in 0 .. NVersions, written' >= written,
         written' = 0 => copy.listed = 0,
         faults' \in 0 .. MaxFaults,
         queue' = queue \/ (queue' = Tail(queue) /\ queue # <<>>)
  PROVE  Inv'
  <1> USE Constants
  <1>1. /\ UNCHANGED <<local, part, op, printing, lock, threads>> /\ written \in 0 .. NVersions
        /\ TypeOK /\ Parts /\ Downloads
    BY DEF Inv, TypeOK, disk
  <1>2. /\ remote' \in [Saves -> Copies] /\ replaced' \subseteq {r \in Saves : HasPart(r)'}
        /\ Parts' /\ Downloads'
    BY <1>1, RemoteStep DEF Downloads
  <1>3. /\ queue' \in Seq([save : Saves, time : Times])
        /\ DOMAIN queue' \subseteq DOMAIN queue
        /\ queue = <<>> => queue' = <<>>
        /\ \/ \A i \in DOMAIN queue' : queue'[i] = queue[i]
           \/ \A i \in DOMAIN queue' : i + 1 \in DOMAIN queue /\ queue'[i] = queue[i + 1]
    <2>1. queue \in Seq([save : Saves, time : Times])
      BY <1>1 DEF TypeOK
    <2>2. CASE queue' = queue
      BY <2>1, <2>2
    <2>3. CASE queue' = Tail(queue) /\ queue # <<>>
      BY <2>1, <2>3
    <2> QED BY <2>2, <2>3
  <1>4. TypeOK'
    BY <1>1, <1>2, <1>3 DEF TypeOK, HasPart
  <1>5. Shape'
    BY <1>1, <1>3 DEF Inv, Shape, ThreadShape
  <1>6. Clock'
    <2> SUFFICES ASSUME written' = 0 PROVE Clock'
      BY DEF Clock
    <2>1. written = 0 /\ Clock
      BY <1>1 DEF Inv
    <2>2. /\ \A r \in Saves : ~HasLocal(r) /\ ~HasRemote(r)
          /\ queue = <<>> /\ \A t \in Workers : threads[t].save = 0
      BY <2>1 DEF Clock
    <2>3. \A r \in Saves : remote'[r] \in {remote[r], copy}
      BY <1>1 DEF SetRemote, TypeOK
    <2>4. \A r \in Saves : ~HasRemote(r)'
      BY <2>2, <2>3 DEF HasRemote
    <2> QED BY <1>1, <1>3, <2>2, <2>4 DEF Clock, HasLocal
  <1>7. ExclusiveSaves'
    <2>1. /\ \A i, j \in DOMAIN queue : i # j => queue[i].save # queue[j].save
          /\ \A t \in Held : \A i \in DOMAIN queue : queue[i].save # threads[t].save
          /\ \A t, w \in Held : threads[w].save = threads[t].save => w = t
      BY DEF Inv, ExclusiveSaves
    <2>2. DOMAIN queue \subseteq Int
      BY <1>1 DEF TypeOK
    <2>3. ASSUME NEW i \in DOMAIN queue', NEW j \in DOMAIN queue', i # j
          PROVE  queue'[i].save # queue'[j].save
      <3>1. i \in Int /\ j \in Int /\ i + 1 # j + 1
        BY <1>3, <2>2, <2>3
      <3>2. CASE \A k \in DOMAIN queue' : queue'[k] = queue[k]
        BY <1>3, <2>1, <2>3, <3>2
      <3>3. CASE \A k \in DOMAIN queue' : k + 1 \in DOMAIN queue /\ queue'[k] = queue[k + 1]
        <4>1. /\ i + 1 \in DOMAIN queue /\ queue'[i] = queue[i + 1]
              /\ j + 1 \in DOMAIN queue /\ queue'[j] = queue[j + 1]
          BY <2>3, <3>3
        <4>2. queue[i + 1].save # queue[j + 1].save
          BY <2>1, <3>1, <4>1
        <4> QED BY <4>1, <4>2
      <3> QED BY <1>3, <3>2, <3>3
    <2>4. \A t \in Held : \A i \in DOMAIN queue' : queue'[i].save # threads[t].save
      BY <1>3, <2>1
    <2> QED BY <1>1, <2>1, <2>3, <2>4 DEF ExclusiveSaves, Held
  <1> QED BY <1>2, <1>4, <1>5, <1>6, <1>7 DEF Inv

\* Another device uploads a version.
LEMMA OtherDeviceUploadsInv ==
  ASSUME Inv, NEW s \in Saves, OtherDeviceUploads(s)
  PROVE  Inv'
  <1> DEFINE copy == [listed |-> 2 * written', modified |-> 2 * written',
                      content |-> Full(written')]
  <1>1. /\ written \in 0 .. NVersions /\ written < NVersions /\ written' = written + 1
        /\ SetRemote(s, copy)
        /\ UNCHANGED <<disk, queue, op, printing, lock, threads, faults>>
    BY DEF Inv, TypeOK, OtherDeviceUploads, process
  <1>2. written' \in Versions /\ 2 * written' \in Times
    BY <1>1, Constants DEF Versions, Times
  <1>3. Full(written') \in Seq(Versions)
    BY <1>2, CountsAssumption DEF Full
  <1>4. copy \in Copies
    BY <1>2, <1>3 DEF Copies
  <1>5. /\ written' \in 0 .. NVersions /\ written' >= written /\ written' # 0
        /\ faults' \in 0 .. MaxFaults
    BY <1>1, Constants DEF Inv, TypeOK
  <1> HIDE DEF copy
  <1>6. UNCHANGED <<disk, op, printing, lock, threads>> /\ queue' = queue
    BY <1>1
  <1> QED BY <1>1, <1>4, <1>5, <1>6, ElsewhereInv

\* It deletes one.
LEMMA OtherDeviceDeletesInv ==
  ASSUME Inv, NEW s \in Saves, OtherDeviceDeletes(s)
  PROVE  Inv'
  <1>1. /\ SetRemote(s, NoRemote) /\ Fault
        /\ UNCHANGED <<written, disk, queue, op, printing, lock, threads>>
    BY DEF OtherDeviceDeletes, process
  <1>2. written' \in 0 .. NVersions /\ written' >= written /\ faults' \in 0 .. MaxFaults
    BY <1>1, FaultBound, Constants DEF Inv, TypeOK
  <1>3. UNCHANGED <<disk, op, printing, lock, threads>> /\ queue' = queue
    BY <1>1
  <1>4. NoRemote \in Copies /\ NoRemote.listed = 0
    BY Constants
  <1> QED BY <1>1, <1>2, <1>3, <1>4, ElsewhereInv

\* A save of the list is deleted, or not.
LEMMA DeleteRemoteInv ==
  ASSUME Inv, NEW ok \in BOOLEAN, DeleteRemote(ok)
  PROVE  Inv'
  <1>1. /\ queue # <<>> /\ queue' = Tail(queue) /\ FaultUnless(ok)
        /\ op = "delete"
        /\ UNCHANGED <<written, disk, op, printing, lock, threads>>
        /\ IF ok THEN SetRemote(Head(queue).save, NoRemote) ELSE UNCHANGED server
    BY DEF DeleteRemote
  <1>2. /\ written' \in 0 .. NVersions /\ written' >= written /\ faults' \in 0 .. MaxFaults
        /\ Head(queue).save \in Saves
    <2>1. faults' \in 0 .. MaxFaults
      BY <1>1, FaultBound DEF Inv
    <2>2. queue \in Seq([save : Saves, time : Times]) /\ written \in 0 .. NVersions
      BY DEF Inv, TypeOK
    <2>3. Head(queue) \in [save : Saves, time : Times]
      BY <1>1, <2>2, HeadFact
    <2> QED BY <1>1, <2>1, <2>2, <2>3, Constants
  <1>3. CASE ok
    BY <1>1, <1>2, <1>3, Constants, ElsewhereInv
  <1>4. CASE ~ok
    <2>1. UNCHANGED <<local, part, remote, replaced>>
      BY <1>1, <1>4 DEF server, disk
    <2>2. /\ queue' \in Seq([save : Saves, time : Times])
          /\ \A i \in DOMAIN queue' : i \in Int /\ i + 1 \in DOMAIN queue
                                       /\ queue'[i] = queue[i + 1]
      BY <1>1 DEF Inv, TypeOK
    <2>3. TypeOK'
      BY <1>1, <1>2, <2>1, <2>2 DEF Inv, TypeOK, HasPart
    <2>4. Shape'
      BY <1>1 DEF Inv, Shape, ThreadShape
    <2>5. Clock'
      BY <1>1, <2>1 DEF Inv, Clock, HasLocal, HasRemote
    <2>6. Parts' /\ Downloads'
      BY <1>1, <2>1 DEF Inv, Parts, Downloads, Download, HasPart, Success
    <2>7. ExclusiveSaves'
      <3>1. /\ \A i, j \in DOMAIN queue : i # j => queue[i].save # queue[j].save
            /\ \A t \in Held : \A i \in DOMAIN queue : queue[i].save # threads[t].save
            /\ \A t, w \in Held : threads[w].save = threads[t].save => w = t
        BY DEF Inv, ExclusiveSaves
      <3>2. ASSUME NEW i \in DOMAIN queue', NEW j \in DOMAIN queue', i # j
            PROVE  queue'[i].save # queue'[j].save
        <4>1. i + 1 # j + 1
          BY <2>2, <3>2
        <4> QED BY <2>2, <3>1, <4>1
      <3> QED BY <1>1, <2>2, <3>1, <3>2 DEF ExclusiveSaves, Held
    <2> QED BY <2>3, <2>4, <2>5, <2>6, <2>7 DEF Inv
  <1> QED BY <1>3, <1>4

\* The main thread stops printing.
LEMMA StopPrintingInv == ASSUME Inv, StopPrinting PROVE Inv'
  <1>1. /\ printing' = FALSE
        /\ UNCHANGED <<written, local, part, remote, replaced, op, queue, lock, threads, faults>>
    BY DEF StopPrinting, disk, server
  <1>2. TypeOK'
    BY <1>1 DEF Inv, TypeOK, HasPart
  <1>3. Shape' /\ Clock' /\ Parts'
    BY <1>1 DEF Inv, Shape, ThreadShape, Clock, Parts, HasLocal, HasRemote, HasPart
  <1>4. Downloads' /\ ExclusiveSaves'
    BY <1>1 DEF Inv, Downloads, Download, HasPart, Success, ExclusiveSaves, Held
  <1> QED BY <1>2, <1>3, <1>4 DEF Inv

\* The steps that end the process.
LEMMA CrashInv == ASSUME Inv, Crash PROVE Inv'
  <1>1. faults' \in 0 .. MaxFaults
    BY FaultBound DEF Inv, Crash
  <1> QED BY <1>1, EndInv DEF Crash

LEMMA ReturnInv ==
  ASSUME Inv, Interrupt \/ NothingToDo \/ JoinThreads
  PROVE  Inv'
  <1>1. EndProcess /\ faults' \in 0 .. MaxFaults
    BY DEF Interrupt, NothingToDo, JoinThreads, Inv, TypeOK
  <1> QED BY <1>1, EndInv

--------------------------------------------------------------------------------
(* The beginning of an operation *)

\* The elements of a queue are saves, no save twice.
Orderly(q) ==
  /\ q \in Seq([save : Saves, time : Times])
  /\ \A i, j \in DOMAIN q : i # j => q[i].save # q[j].save

\* An operation begins with such a queue, empty if nothing was written.
LEMMA BeginInv ==
  ASSUME Inv, NEW kind \in {"download", "upload", "delete"}, NEW saves, Orderly(saves),
         NEW ok \in BOOLEAN, Begin(kind, saves, ok), written = 0 => saves = <<>>
  PROVE  Inv'
  <1> USE Constants
  <1>1. /\ op = "idle" /\ FaultUnless(ok) /\ op' = kind /\ queue' = saves
        /\ printing' = (kind # "delete" /\ saves # <<>>)
        /\ threads' = [t \in Workers |->
                          IF printing' /\ t \in ThreadsOfQueue(Len(saves))
                            THEN [NoThread EXCEPT !.pc = "login"] ELSE NoThread]
        /\ UNCHANGED <<written, local, part, remote, replaced, lock>>
    BY DEF Begin, disk, server
  <1>2. printing' \in BOOLEAN /\ (printing' => kind # "delete")
    BY <1>1
  <1>3. /\ [NoThread EXCEPT !.pc = "login"] \in ThreadStates
        /\ [NoThread EXCEPT !.pc = "login"].pc = "login"
        /\ [NoThread EXCEPT !.pc = "login"].save = 0
        /\ [NoThread EXCEPT !.pc = "login"].tries = 0
        /\ [NoThread EXCEPT !.pc = "login"].result = "none"
    BY DEF ThreadStates, Steps, NoThread
  <1>4. /\ threads' \in [Workers -> ThreadStates]
        /\ \A t \in Workers : threads'[t].save = 0 /\ threads'[t].pc \in {"none", "login"}
        /\ kind = "delete" => \A t \in Workers : threads'[t].pc = "none"
        /\ \A t \in Workers :
             threads'[t].pc = "login" => threads'[t].tries = 0 /\ threads'[t].result = "none"
    BY <1>1, <1>2, <1>3
  <1>5. faults' \in 0 .. MaxFaults
    BY <1>1, FaultBound DEF Inv
  <1>6. \A t \in Workers : lock # t
    BY <1>1 DEF Inv, Shape, ThreadShape, Locked
  <1>7. TypeOK'
    <2>1. lock' = 0
      BY <1>1, <1>6 DEF Inv, TypeOK
    <2> QED BY <1>1, <1>2, <1>4, <1>5, <2>1 DEF Inv, TypeOK, HasPart, Orderly
  <1>8. Shape'
    BY <1>1, <1>4, <1>6 DEF Shape, ThreadShape, Holding, Locked
  <1>9. Clock'
    BY <1>1, <1>4 DEF Inv, Clock, HasLocal, HasRemote
  <1>10. Parts' /\ Downloads'
    BY <1>1, <1>4 DEF Inv, Parts, HasPart, Downloads, Download
  <1>11. ExclusiveSaves'
    BY <1>1, <1>4 DEF ExclusiveSaves, Held, Orderly
  <1> QED BY <1>7, <1>8, <1>9, <1>10, <1>11 DEF Inv

\* Lists are subsets of the saves.
LEMMA ListedFacts ==
  ASSUME NEW o \in Options, NEW ok \in BOOLEAN
  PROVE  /\ Listed(o, ok) \subseteq {s \in Saves : HasRemote(s)}
         /\ ToDownload(o, ok) \subseteq Listed(o, ok)
         /\ Uploadable(o) \subseteq {s \in Saves : HasLocal(s)}
  BY DEF Listed, ToDownload, Uploadable

\* The queue of a set of saves.
LEMMA InOrderOrderly ==
  ASSUME NEW S \in SUBSET Saves, NEW time, \A s \in S : time[s] \in Times
  PROVE  /\ Orderly(InOrder(S, time))
         /\ \A i \in DOMAIN InOrder(S, time) : InOrder(S, time)[i].save \in S
         /\ S = {} => InOrder(S, time) = <<>>
  <1> DEFINE q == InOrder(S, time)
  <1>1. /\ q \in Seq([save : Saves, time : Times])
        /\ \A i \in DOMAIN q : q[i].save \in S
        /\ \A i, j \in DOMAIN q : i # j => q[i].save # q[j].save
    BY OrderFacts
  <1> HIDE DEF q
  <1>2. Orderly(q)
    BY <1>1 DEF Orderly
  <1>3. ASSUME S = {} PROVE q = <<>>
    <2>1. DOMAIN q = {} /\ DOMAIN q = 1 .. Len(q) /\ Len(q) \in Nat
      BY <1>1, <1>3
    <2>2. Len(q) = 0
      BY <2>1
    <2> QED BY <1>1, <2>2
  <1> QED BY <1>1, <1>2, <1>3 DEF q

\* Two queues of different saves, one after the other.
LEMMA ConcatOrderly ==
  ASSUME NEW p, NEW q, Orderly(p), Orderly(q),
         \A i \in DOMAIN p, j \in DOMAIN q : p[i].save # q[j].save
  PROVE  Orderly(p \o q)
  <1>1. p \in Seq([save : Saves, time : Times]) /\ q \in Seq([save : Saves, time : Times])
    BY DEF Orderly
  <1>2. /\ p \o q \in Seq([save : Saves, time : Times])
        /\ DOMAIN (p \o q) = 1 .. Len(p) + Len(q)
        /\ Len(p) \in Nat /\ Len(q) \in Nat
        /\ DOMAIN p = 1 .. Len(p) /\ DOMAIN q = 1 .. Len(q)
        /\ \A i \in 1 .. Len(p) : (p \o q)[i] = p[i]
        /\ \A i \in Len(p) + 1 .. Len(p) + Len(q) : (p \o q)[i] = q[i - Len(p)]
    BY <1>1
  <1>3. ASSUME NEW i \in DOMAIN (p \o q), NEW j \in DOMAIN (p \o q), i # j
        PROVE  (p \o q)[i].save # (p \o q)[j].save
    <2>1. CASE i <= Len(p) /\ j <= Len(p)
      <3>1. i \in DOMAIN p /\ j \in DOMAIN p
        BY <1>2, <2>1
      <3> QED BY <1>2, <1>3, <3>1 DEF Orderly
    <2>2. CASE i > Len(p) /\ j > Len(p)
      <3>1. i - Len(p) \in DOMAIN q /\ j - Len(p) \in DOMAIN q /\ i - Len(p) # j - Len(p)
        BY <1>2, <1>3, <2>2
      <3>2. (p \o q)[i] = q[i - Len(p)] /\ (p \o q)[j] = q[j - Len(p)]
        BY <1>2, <2>2
      <3> QED BY <3>1, <3>2 DEF Orderly
    <2>3. CASE i <= Len(p) /\ j > Len(p)
      <3>1. i \in DOMAIN p /\ j - Len(p) \in DOMAIN q
        BY <1>2, <2>3
      <3>2. (p \o q)[i] = p[i] /\ (p \o q)[j] = q[j - Len(p)]
        BY <1>2, <2>3
      <3> QED BY <3>1, <3>2
    <2>4. CASE i > Len(p) /\ j <= Len(p)
      <3>1. i - Len(p) \in DOMAIN q /\ j \in DOMAIN p
        BY <1>2, <2>4
      <3>2. (p \o q)[i] = q[i - Len(p)] /\ (p \o q)[j] = p[j]
        BY <1>2, <2>4
      <3> QED BY <3>1, <3>2
    <2> QED BY <1>2, <2>1, <2>2, <2>3, <2>4
  <1> QED BY <1>2, <1>3 DEF Orderly

\* A download begins with the listed saves that are not skipped, a deletion
\* with all listed ones.
LEMMA BeginDownloadInv ==
  ASSUME Inv, NEW o \in Options, NEW ok \in BOOLEAN,
         BeginDownload(o, ok) \/ BeginDelete(o, ok)
  PROVE  Inv'
  <1>1. PICK S \in SUBSET {s \in Saves : HasRemote(s)},
             kind \in {"download", "delete"} :
          Begin(kind, InOrder(S, NoTimes), ok)
    BY ListedFacts DEF BeginDownload, BeginDelete
  <1>2. \A s \in S : NoTimes[s] \in Times
    BY Constants DEF NoTimes, Times
  <1>3. S \in SUBSET Saves
    BY <1>1
  <1>4. Orderly(InOrder(S, NoTimes)) /\ (S = {} => InOrder(S, NoTimes) = <<>>)
    BY <1>2, <1>3, InOrderOrderly
  <1>5. written = 0 => S = {}
    BY <1>1 DEF Inv, Clock
  <1> QED BY <1>1, <1>4, <1>5, BeginInv

\* An upload begins with the outdated saves of the list and those not in it.
LEMMA BeginUploadInv ==
  ASSUME Inv, NEW o \in Options, NEW ok \in BOOLEAN, BeginUpload(o, ok)
  PROVE  Inv'
  <1> DEFINE mine == Uploadable(o)
             listed == Listed(o, ok) \intersect mine
             times == [s \in Saves |-> LocalModified(s)]
             old == {s \in listed : o.force \/ Outdated(s)}
             new == mine \ listed
  <1>1. UploadOrder(o, ok) = InOrder(old, times) \o InOrder(new, times)
    BY DEF UploadOrder
  <1>2. /\ old \subseteq {s \in Saves : HasLocal(s)}
        /\ new \subseteq {s \in Saves : HasLocal(s)}
        /\ old \intersect new = {}
    BY ListedFacts
  <1>3. ASSUME NEW s \in Saves, HasLocal(s) PROVE times[s] \in Times
    <2>1. local[s].time \in Times /\ local[s].time > 0
      BY <1>3 DEF Inv, TypeOK, LocalFiles, HasLocal
    <2> QED BY <2>1, Constants DEF LocalModified, Times
  <1> HIDE DEF mine, listed, times, old, new
  <1>4. /\ Orderly(InOrder(old, times)) /\ Orderly(InOrder(new, times))
        /\ \A i \in DOMAIN InOrder(old, times) : InOrder(old, times)[i].save \in old
        /\ \A i \in DOMAIN InOrder(new, times) : InOrder(new, times)[i].save \in new
        /\ old = {} => InOrder(old, times) = <<>>
        /\ new = {} => InOrder(new, times) = <<>>
    <2>1. /\ old \in SUBSET Saves /\ \A s \in old : times[s] \in Times
          /\ new \in SUBSET Saves /\ \A s \in new : times[s] \in Times
      BY <1>2, <1>3
    <2> QED BY <2>1, InOrderOrderly
  <1>5. Orderly(UploadOrder(o, ok))
    <2>1. \A i \in DOMAIN InOrder(old, times), j \in DOMAIN InOrder(new, times) :
            InOrder(old, times)[i].save # InOrder(new, times)[j].save
      BY <1>2, <1>4
    <2> QED BY <1>1, <1>4, <2>1, ConcatOrderly
  <1>6. ASSUME written = 0 PROVE UploadOrder(o, ok) = <<>>
    <2>1. old = {} /\ new = {}
      BY <1>2, <1>6 DEF Inv, Clock
    <2>2. InOrder(old, times) = <<>> /\ InOrder(new, times) = <<>>
      BY <1>4, <2>1
    <2> QED BY <1>1, <2>2
  <1>7. Begin("upload", UploadOrder(o, ok), ok)
    BY DEF BeginUpload
  <1> QED BY <1>5, <1>6, <1>7, BeginInv

--------------------------------------------------------------------------------
(* Threads that do not hold the lock *)

\* A step of a thread changes that thread only.
LEMMA SetFacts ==
  ASSUME TypeOK, NEW t \in Workers, NEW th \in ThreadStates, Set(t, th)
  PROVE  /\ threads' \in [Workers -> ThreadStates] /\ threads'[t] = th
         /\ \A w \in Workers \ {t} : threads'[w] = threads[w]
  BY DEF TypeOK, Set

\* A thread without the lock goes to another place where it does not fetch,
\* with its save or without one; the server may store what it sent.
LEMMA QuietStep ==
  ASSUME Inv, NEW t \in Workers, NEW th \in ThreadStates, Set(t, th),
         threads[t].pc \notin {"none", "lock"} \union Locked,
         th.pc \notin {"none", "lock"} \union Locked,
         th.save \in {0, threads[t].save}, th.save # 0 <=> th.pc \in Holding,
         th.pc \in {"read", "put"} => op = "upload" /\ th.tries <= Retries,
         th.pc \in {"login", "loop"} => th.tries = 0 /\ th.result = "none",
         UNCHANGED <<written, disk, op, printing, queue, lock>>,
         faults' \in 0 .. MaxFaults,
         \/ UNCHANGED server
         \/ \E copy \in Copies : SetRemote(threads[t].save, copy) /\ threads[t].save # 0
  PROVE  Inv'
  <1> USE Constants
  <1>1. /\ threads' \in [Workers -> ThreadStates] /\ threads'[t] = th
        /\ \A w \in Workers \ {t} : threads'[w] = threads[w]
    BY SetFacts DEF Inv
  <1>2. UNCHANGED <<written, local, part, op, printing, queue, lock>> /\ TypeOK
    BY DEF disk, Inv
  <1>3. /\ remote' \in [Saves -> Copies] /\ replaced' \subseteq {r \in Saves : HasPart(r)'}
        /\ Parts'
        /\ \A w \in Workers \ {t} : Download(w)'
        /\ remote' = remote \/ written # 0
    <2>1. CASE UNCHANGED server
      <3>1. UNCHANGED <<remote, replaced>>
        BY <2>1 DEF server
      <3> QED BY <1>1, <1>2, <3>1 DEF Inv, TypeOK, HasPart, Parts, Downloads, Download, Success
    <2>2. CASE \E copy \in Copies : SetRemote(threads[t].save, copy) /\ threads[t].save # 0
      <3>1. threads[t].save \in Saves
        BY <1>2, <2>2 DEF TypeOK, ThreadStates
      <3>2. written # 0
        BY <2>2 DEF Inv, Clock
      <3>3. PICK copy \in Copies : SetRemote(threads[t].save, copy)
        BY <2>2
      <3> QED BY <1>1, <1>2, <3>1, <3>2, <3>3, RemoteStep DEF Inv, Downloads
    <2> QED BY <2>1, <2>2
  <1>4. TypeOK'
    <2>1. lock' \in {0} \union {w \in Workers : op' = "download" /\ threads'[w].save # 0}
      <3>1. lock \in {0} \union {w \in Workers : op = "download" /\ threads[w].save # 0}
        BY <1>2 DEF TypeOK
      <3>2. lock # t
        BY DEF Inv, Shape, ThreadShape
      <3> QED BY <1>1, <1>2, <3>1, <3>2
    <2> QED BY <1>1, <1>2, <1>3, <2>1 DEF TypeOK
  <1>5. Shape'
    <2>1. \A w \in Workers \ {t} : ThreadShape(w)'
      BY <1>1, <1>2 DEF Inv, Shape, ThreadShape
    <2>2. ThreadShape(t)'
      BY <1>1, <1>2 DEF Inv, Shape, ThreadShape, Locked
    <2> QED BY <1>2, <2>1, <2>2 DEF Inv, Shape
  <1>6. Clock'
    BY <1>1, <1>2, <1>3 DEF Inv, Clock, HasLocal, HasRemote
  <1>7. Downloads'
    <2>1. Download(t)'
      BY <1>1 DEF Download, Locked
    <2> QED BY <1>3, <2>1 DEF Downloads
  <1>8. ExclusiveSaves'
    BY <1>1, <1>2, ExclusiveKept DEF Inv
  <1> QED BY <1>3, <1>4, <1>5, <1>6, <1>7, <1>8 DEF Inv

\* The bounds of the fields that a step of a thread changes.
LEMMA ThreadFacts ==
  ASSUME Inv, NEW t \in Workers
  PROVE  /\ threads[t] \in ThreadStates
         /\ BackToLoop(t) \in ThreadStates
         /\ BackToLoop(t).pc = "loop" /\ BackToLoop(t).save = 0
         /\ BackToLoop(t).tries = 0 /\ BackToLoop(t).result = "none"
         /\ threads[t].pc \in Holding => threads[t].save \in Saves /\ written # 0
  <1>1. threads[t] \in ThreadStates
    BY DEF Inv, TypeOK
  <1>2. /\ BackToLoop(t) \in ThreadStates /\ BackToLoop(t).pc = "loop"
        /\ BackToLoop(t).save = 0
        /\ BackToLoop(t).tries = 0 /\ BackToLoop(t).result = "none"
    BY <1>1, Constants DEF BackToLoop, ThreadStates, Steps, NoThread
  <1>3. threads[t].pc \in Holding => threads[t].save # 0
    BY DEF Inv, Shape, ThreadShape
  <1>4. threads[t].save # 0 => threads[t].save \in Saves /\ written # 0
    BY <1>1 DEF Inv, Clock, ThreadStates
  <1> QED BY <1>1, <1>2, <1>3, <1>4

\* Login, and the ways out of the loop.
LEMMA LeaveInv ==
  ASSUME Inv, NEW t \in Workers, NEW ok \in BOOLEAN,
         Login(t, ok) \/ TokenExpired(t) \/ NoMore(t)
  PROVE  Inv'
  <1>1. /\ threads[t] \in ThreadStates /\ threads[t].pc \in {"login", "loop"}
        /\ threads[t].save = 0 /\ threads[t].tries = 0 /\ threads[t].result = "none"
    <2>1. threads[t].pc \in {"login", "loop"}
      BY DEF Login, TokenExpired, NoMore
    <2>2. threads[t].save = 0 /\ threads[t].tries = 0 /\ threads[t].result = "none"
      BY <2>1 DEF Inv, Shape, ThreadShape, Holding
    <2> QED BY <2>1, <2>2, ThreadFacts
  <1>2. PICK th \in ThreadStates :
          /\ Set(t, th) /\ th.pc \in {"loop", "returned"} /\ th.save = 0
          /\ th.tries = 0 /\ th.result = "none"
    <2>1. /\ [threads[t] EXCEPT !.pc = "loop"] \in ThreadStates
          /\ [threads[t] EXCEPT !.pc = "returned"] \in ThreadStates
          /\ [threads[t] EXCEPT !.pc = "returned", !.status = "finished"] \in ThreadStates
      BY <1>1 DEF ThreadStates, Steps
    <2> QED BY <1>1, <2>1 DEF Login, TokenExpired, NoMore, Finished, Refused, ThreadStates
  <1>3. UNCHANGED <<written, disk, op, printing, queue, lock>> /\ UNCHANGED server
    BY DEF Login, TokenExpired, NoMore
  <1>4. faults' \in 0 .. MaxFaults
    BY FaultBound DEF Inv, Login, TokenExpired, NoMore
  <1>5. /\ threads[t].pc \notin {"none", "lock"} \union Locked
        /\ th.pc \notin {"none", "lock"} \union Locked
        /\ th.pc \notin Holding /\ th.pc \notin {"read", "put"}
    BY <1>1, <1>2 DEF Locked, Holding
  <1> QED BY <1>1, <1>2, <1>3, <1>4, <1>5, QuietStep

\* The first word of a content is one, too.
LEMMA FirstWordFact == \A c \in Seq(Versions) : FirstWord(c) \in Seq(Versions)
  BY HeadFact DEF FirstWord

\* An upload thread reads the save, and sends it until it is stored, refused
\* or there are no retries left.
LEMMA UploadStepInv ==
  ASSUME Inv, NEW t \in Workers, NEW ok \in BOOLEAN,
         ReadFile(t) \/ PutRefused(t) \/ PutStores(t, ok) \/ PutFails(t, ok)
  PROVE  Inv'
  <1> DEFINE th0 == threads[t]
  <1>1. /\ th0 \in ThreadStates /\ th0.pc \in {"read", "put"}
        /\ th0.save \in Saves /\ th0.tries <= Retries /\ op = "upload"
        /\ BackToLoop(t) \in ThreadStates
        /\ BackToLoop(t).pc = "loop" /\ BackToLoop(t).save = 0
        /\ BackToLoop(t).tries = 0 /\ BackToLoop(t).result = "none"
    <2>1. th0.pc \in {"read", "put"}
      BY DEF ReadFile, PutRefused, PutStores, PutFails
    <2>2. th0.pc \in Holding
      BY <2>1 DEF Holding
    <2> QED BY <2>1, <2>2, ThreadFacts DEF Inv, Shape, ThreadShape
  <1>2. /\ Sent(t) \in ThreadStates /\ Sent(t).pc = "loop" /\ Sent(t).save = 0
        /\ Sent(t).tries = 0 /\ Sent(t).result = "none"
    BY <1>1 DEF Sent, ThreadStates
  <1>3. ASSUME NEW spoiled \in BOOLEAN, RetriesLeft(t), th0.pc = "put"
        PROVE  /\ SendAgain(t, spoiled) \in ThreadStates
               /\ SendAgain(t, spoiled).pc = "put" /\ SendAgain(t, spoiled).save = th0.save
               /\ SendAgain(t, spoiled).tries <= Retries
    <2>1. th0.tries \in Nat /\ th0.tries + 1 <= Retries /\ th0.tries + 1 \in 0 .. Retries + 1
      <3>1. th0.tries \in 0 .. Retries + 1
        BY <1>1 DEF ThreadStates
      <3>2. th0.tries + 1 <= Retries
        BY <1>3 DEF RetriesLeft
      <3> HIDE DEF th0
      <3> QED BY <3>1, <3>2, Constants
    <2> QED BY <1>1, <1>3, <2>1 DEF SendAgain, ThreadStates
  <1>4. ASSUME ReadFile(t)
        PROVE  \E th \in ThreadStates :
                 Set(t, th) /\ th.pc = "put" /\ th.save = th0.save /\ th.tries <= Retries
    <2>1. FirstWord(local[th0.save].content) \in Seq(Versions)
      BY <1>1, FirstWordFact DEF Inv, TypeOK, LocalFiles
    <2>2. [th0 EXCEPT !.pc = "put", !.body = FirstWord(local[th0.save].content)]
            \in ThreadStates
      BY <1>1, <2>1 DEF ThreadStates, Steps
    <2> QED BY <1>1, <1>4, <2>2 DEF ReadFile, ThreadStates
  <1> HIDE DEF th0
  <1>5. PICK th \in ThreadStates :
          /\ Set(t, th)
          /\ \/ th.pc = "put" /\ th.save = th0.save /\ th.tries <= Retries
             \/ th.pc = "loop" /\ th.save = 0 /\ th.tries = 0 /\ th.result = "none"
    <2>1. CASE ReadFile(t)
      BY <1>4, <2>1
    <2>2. CASE PutRefused(t)
      BY <1>2, <2>2 DEF PutRefused
    <2>3. CASE PutStores(t, ok)
      BY <1>2, <1>3, <2>3 DEF PutStores, th0
    <2>4. CASE PutFails(t, ok)
      BY <1>2, <1>3, <2>4 DEF PutFails, th0
    <2> QED BY <2>1, <2>2, <2>3, <2>4
  <1>6. UNCHANGED <<written, disk, op, printing, queue, lock>>
    BY DEF ReadFile, PutRefused, PutStores, PutFails
  <1>7. faults' \in 0 .. MaxFaults
    BY FaultBound DEF Inv, ReadFile, PutRefused, PutStores, PutFails
  <1>8. \/ UNCHANGED server
        \/ \E copy \in Copies : SetRemote(th0.save, copy) /\ th0.save # 0
    <2>1. CASE PutStores(t, ok)
      <3>1. PICK listed \in ListedTimes(t) :
              SetRemote(th0.save,
                        [listed |-> listed, modified |-> Now, content |-> th0.body])
        BY <2>1 DEF PutStores, th0
      <3>2. Now \in Times
        BY Constants DEF Inv, TypeOK, Now, Times
      <3>3. listed \in Times /\ th0.body \in Seq(Versions)
        BY <1>1, <3>2 DEF ListedTimes, ThreadStates, th0
      <3>4. [listed |-> listed, modified |-> Now, content |-> th0.body] \in Copies
        BY <3>2, <3>3 DEF Copies
      <3> QED BY <1>1, <3>1, <3>4, Constants
    <2>2. CASE ReadFile(t) \/ PutRefused(t) \/ PutFails(t, ok)
      BY <2>2 DEF ReadFile, PutRefused, PutFails
    <2> QED BY <2>1, <2>2
  <1>9. /\ th0.pc \notin {"none", "lock"} \union Locked
        /\ th.pc \notin {"none", "lock"} \union Locked
        /\ th.save \in {0, th0.save}
        /\ th.save # 0 <=> th.pc \in Holding
        /\ th.pc \in {"read", "put"} => op = "upload" /\ th.tries <= Retries
        /\ th.pc \in {"login", "loop"} => th.tries = 0 /\ th.result = "none"
    BY <1>1, <1>5, Constants DEF Locked, Holding
  <1> QED BY <1>5, <1>6, <1>7, <1>8, <1>9, QuietStep DEF th0

\* A thread takes the first save of the queue.
LEMMA TakeInv == ASSUME Inv, NEW t \in Workers, Take(t) PROVE Inv'
  <1> USE Constants
  <1>1. /\ threads[t].pc = "loop" /\ queue # <<>> /\ queue' = Tail(queue)
        /\ UNCHANGED <<written, local, part, remote, replaced, op, printing, lock, faults>>
    BY DEF Take, TryPop, disk, server
  <1>2. TypeOK /\ queue \in Seq([save : Saves, time : Times])
    BY DEF Inv, TypeOK
  <1>3. /\ Head(queue) \in [save : Saves, time : Times]
        /\ Head(queue) = queue[1] /\ 1 \in DOMAIN queue
    <2>1. Head(queue) \in [save : Saves, time : Times]
      BY <1>1, <1>2, HeadFact
    <2>2. Head(queue) = queue[1] /\ 1 \in DOMAIN queue
      BY <1>1, <1>2
    <2> QED BY <2>1, <2>2
  <1>4. /\ queue' \in Seq([save : Saves, time : Times])
        /\ \A i \in DOMAIN queue' : i \in Nat \ {0} /\ i + 1 \in DOMAIN queue
                                     /\ queue'[i] = queue[i + 1]
    BY <1>1, <1>2
  <1>5. /\ threads[t] \in ThreadStates /\ threads[t].save = 0
        /\ threads[t].tries = 0 /\ threads[t].result = "none"
        /\ op \in {"upload", "download"} /\ lock # t
    BY <1>1, ThreadFacts DEF Inv, TypeOK, Shape, ThreadShape, Holding, Locked
  <1>6. PICK th \in ThreadStates :
          /\ Set(t, th)
          /\ th.save = Head(queue).save /\ th.tries = 0 /\ th.result = "none"
          /\ th.pc = IF op = "upload" THEN "read" ELSE "lock"
          /\ th.resume => HasPart(th.save)
    <2> DEFINE th == [threads[t] EXCEPT
                        !.pc = IF op = "upload" THEN "read" ELSE "lock",
                        !.save = Head(queue).save, !.time = Head(queue).time,
                        !.resume = op = "download" /\ HasPart(Head(queue).save)]
    <2>1. Set(t, th)
      BY DEF Take, TryPop
    <2>2. /\ (op = "download" /\ HasPart(Head(queue).save)) \in BOOLEAN
          /\ (IF op = "upload" THEN "read" ELSE "lock") \in Steps
          /\ Head(queue).save \in Saves /\ Head(queue).time \in Times
      BY <1>3 DEF Steps
    <2>3. /\ th \in ThreadStates
          /\ th.save = Head(queue).save /\ th.tries = 0 /\ th.result = "none"
          /\ th.pc = IF op = "upload" THEN "read" ELSE "lock"
          /\ th.resume => HasPart(th.save)
      BY <1>5, <2>2 DEF ThreadStates
    <2> QED BY <2>1, <2>3
  <1>7. th.save \in Saves /\ th.save = queue[1].save /\ written # 0
    BY <1>1, <1>3, <1>6 DEF Inv, Clock
  <1>8. /\ threads' \in [Workers -> ThreadStates] /\ threads'[t] = th
        /\ \A w \in Workers \ {t} : threads'[w] = threads[w]
    BY <1>2, <1>6, SetFacts
  <1>9. TypeOK'
    <2>1. lock' \in {0} \union {w \in Workers : op' = "download" /\ threads'[w].save # 0}
      BY <1>1, <1>2, <1>5, <1>8 DEF TypeOK
    <2> QED BY <1>1, <1>2, <1>4, <1>8, <2>1 DEF TypeOK, HasPart
  <1>10. Shape'
    <2>1. \A w \in Workers \ {t} : ThreadShape(w)'
      BY <1>1, <1>8 DEF Inv, Shape, ThreadShape
    <2>2. ThreadShape(t)'
      BY <1>1, <1>5, <1>6, <1>7, <1>8 DEF ThreadShape, Holding, Locked
    <2> QED BY <1>1, <1>5, <2>1, <2>2 DEF Shape
  <1>11. Clock' /\ Parts'
    BY <1>1, <1>7 DEF Inv, Clock, Parts, HasPart
  <1>12. Downloads'
    <2>1. \A w \in Workers \ {t} : Download(w)'
      BY <1>1, <1>8 DEF Inv, Downloads, Download, HasPart, Success
    <2>2. Download(t)'
      BY <1>1, <1>6, <1>8 DEF Download, HasPart, Success
    <2> QED BY <2>1, <2>2 DEF Downloads
  <1>13. ExclusiveSaves'
    <2>1. /\ \A i, j \in DOMAIN queue : i # j => queue[i].save # queue[j].save
          /\ \A w \in Held : \A i \in DOMAIN queue : queue[i].save # threads[w].save
          /\ \A v, w \in Held : threads[w].save = threads[v].save => w = v
      BY DEF Inv, ExclusiveSaves
    <2>2. Held' = Held \union {t} /\ t \notin Held
      BY <1>5, <1>7, <1>8 DEF Held
    <2>3. ASSUME NEW i \in DOMAIN queue' PROVE queue'[i].save # th.save
      <3>1. i + 1 # 1
        BY <1>4
      <3> QED BY <1>3, <1>4, <1>7, <2>1, <3>1
    <2>4. ASSUME NEW i \in DOMAIN queue', NEW j \in DOMAIN queue', i # j
          PROVE  queue'[i].save # queue'[j].save
      <3>1. i + 1 # j + 1
        BY <1>4, <2>4
      <3> QED BY <1>4, <2>1, <3>1
    <2>5. \A w \in Held : w # t /\ w \in Workers \ {t} /\ threads'[w] = threads[w]
      BY <1>8, <2>2 DEF Held
    <2>6. \A w \in Held : threads[w].save # th.save
      BY <1>3, <1>7, <2>1
    <2>7. \A w \in Held' : \A i \in DOMAIN queue' : queue'[i].save # threads'[w].save
      BY <1>4, <1>8, <2>1, <2>2, <2>3, <2>5
    <2>8. \A v, w \in Held' : threads'[w].save = threads'[v].save => w = v
      BY <1>8, <2>1, <2>2, <2>5, <2>6
    <2> QED BY <2>4, <2>7, <2>8 DEF ExclusiveSaves
  <1> QED BY <1>9, <1>10, <1>11, <1>12, <1>13 DEF Inv

--------------------------------------------------------------------------------
(* The thread that holds the lock *)

\* It is the only one, and no other thread has its save.
LEMMA LockFacts ==
  ASSUME Inv, NEW t \in Workers, threads[t].pc \in {"lock"} \union Locked
  PROVE  /\ threads[t] \in ThreadStates /\ threads[t].save \in Saves
         /\ written # 0 /\ op = "download" /\ Now \in Times /\ Now > 0
         /\ threads[t].pc \in Locked => lock = t
         /\ \A w \in Workers \ {t} : threads[w].save # threads[t].save
         /\ \A w \in Workers \ {t} : threads[t].pc \in Locked => threads[w].pc \notin Locked
  <1>1. threads[t].pc \in Holding
    BY DEF Holding, Locked
  <1>2. /\ threads[t] \in ThreadStates /\ threads[t].save \in Saves
        /\ written # 0 /\ op = "download"
    BY <1>1, ThreadFacts DEF Inv, Shape, ThreadShape
  <1>3. Now \in Times /\ Now > 0
    BY <1>2, Constants DEF Inv, TypeOK, Now, Times
  <1>4. \A w \in Workers : threads[w].pc \in Locked <=> lock = w
    BY DEF Inv, Shape, ThreadShape
  <1>5. \A w \in Workers \ {t} : threads[w].save # threads[t].save
    BY <1>2, Constants DEF Inv, ExclusiveSaves, Held
  <1> QED BY <1>2, <1>3, <1>4, <1>5

\* A step of it, or one that takes the lock, changes its thread, its save and
\* its .~incomplete file only; it keeps lock and save, or gives up both.
LEMMA FetchStep ==
  ASSUME Inv, NEW t \in Workers, NEW s \in Saves, threads[t].save = s,
         NEW th \in ThreadStates, Set(t, th),
         threads[t].pc \in Locked \/ (threads[t].pc = "lock" /\ lock = 0),
         UNCHANGED <<written, remote, op, printing, queue>>,
         faults' \in 0 .. MaxFaults,
         local' \in [Saves -> LocalFiles], part' \in [Saves -> LocalFiles],
         \A r \in Saves \ {s} :
           part'[r] = part[r] /\ (r \in replaced' <=> r \in replaced),
         replaced' \subseteq Saves,
         s \in replaced' => HasPart(s)',
         HasPart(s)' /\ s \notin replaced' => Beginning(part'[s].content, remote[s].content),
         \/ th.pc \in Locked /\ th.save = s /\ lock' = t
         \/ th.pc = "loop" /\ th.save = 0 /\ lock' = 0 /\ th.tries = 0 /\ th.result = "none",
         th.pc \in {"open", "receive"} => th.tries <= Retries,
         Download(t)'
  PROVE  Inv'
  <1> USE Constants
  <1>1. /\ threads' \in [Workers -> ThreadStates] /\ threads'[t] = th
        /\ \A w \in Workers \ {t} : threads'[w] = threads[w]
    BY SetFacts DEF Inv
  <1>2. /\ s \in Saves /\ written # 0 /\ op = "download" /\ lock \in {0, t}
        /\ \A w \in Workers \ {t} : threads[w].save # s /\ threads[w].pc \notin Locked
    <2>1. /\ s \in Saves /\ written # 0 /\ op = "download"
          /\ \A w \in Workers \ {t} : threads[w].save # s
      BY LockFacts
    <2>2. lock \in {0, t}
      BY LockFacts
    <2>3. \A w \in Workers : threads[w].pc \in Locked <=> lock = w
      BY DEF Inv, Shape, ThreadShape
    <2> QED BY <2>1, <2>2, <2>3
  <1>3. TypeOK /\ Shape /\ Clock /\ Parts /\ Downloads /\ ExclusiveSaves
    BY DEF Inv
  <1>4. \A r \in Saves \ {s} : HasPart(r)' <=> HasPart(r)
    BY DEF HasPart
  <1>5. TypeOK'
    <2>1. ASSUME NEW r \in replaced' PROVE r \in Saves /\ HasPart(r)'
      <3>1. CASE r = s
        BY <2>1, <3>1
      <3>2. CASE r # s
        <4>1. r \in Saves \ {s} /\ r \in replaced
          BY <2>1, <3>2
        <4> QED BY <1>3, <1>4, <4>1 DEF TypeOK
      <3> QED BY <3>1, <3>2
    <2>2. lock' \in {0} \union {w \in Workers : op' = "download" /\ threads'[w].save # 0}
      BY <1>1, <1>2
    <2> QED BY <1>1, <1>3, <2>1, <2>2 DEF TypeOK
  <1>6. Shape'
    <2>1. \A w \in Workers \ {t} : ThreadShape(w)'
      BY <1>1, <1>2, <1>3 DEF Shape, ThreadShape
    <2>2. ThreadShape(t)'
      BY <1>1, <1>2 DEF ThreadShape, Holding, Locked
    <2> QED BY <1>2, <2>1, <2>2 DEF Shape
  <1>7. Clock'
    BY <1>2 DEF Clock
  <1>8. Parts'
    <2>1. ASSUME NEW r \in Saves, HasPart(r)', r \notin replaced'
          PROVE  Beginning(part'[r].content, remote'[r].content)
      <3>1. CASE r = s
        BY <2>1, <3>1
      <3>2. CASE r \in Saves \ {s}
        <4>1. HasPart(r) /\ r \notin replaced
          BY <1>4, <2>1, <3>2
        <4>2. Beginning(part[r].content, remote[r].content)
          BY <1>3, <3>2, <4>1 DEF Parts
        <4> QED BY <3>2, <4>2
      <3> QED BY <2>1, <3>1, <3>2
    <2> QED BY <2>1 DEF Parts
  <1>9. Downloads'
    <2>1. ASSUME NEW w \in Workers \ {t} PROVE Download(w)'
      <3>1. threads'[w] = threads[w] /\ threads[w].pc \notin Locked /\ Download(w)
        BY <1>1, <1>2, <1>3 DEF Downloads
      <3>2. CASE threads[w].pc = "lock"
        <4>1. threads[w].save \in Saves \ {s}
          BY <1>2, <3>2, LockFacts
        <4> QED BY <1>4, <3>1, <3>2, <4>1 DEF Download, Success, Locked
      <3>3. CASE threads[w].pc # "lock"
        BY <3>1, <3>3 DEF Download, Locked
      <3> QED BY <3>2, <3>3
    <2> QED BY <2>1 DEF Downloads
  <1>10. ExclusiveSaves'
    <2>1. \A w \in Workers : threads'[w].save \in {0, threads[w].save}
      BY <1>1
    <2> QED BY <1>3, <2>1, ExclusiveKept
  <1> QED BY <1>5, <1>6, <1>7, <1>8, <1>9, <1>10 DEF Inv

\* The beginnings of a copy: nothing, the next element after a beginning, and
\* all of it.
LEMMA BeginningFacts ==
  ASSUME NEW c \in Seq(Versions), NEW r \in Seq(Versions)
  PROVE  /\ Beginning(<<>>, r)
         /\ Beginning(c, r) /\ Len(c) < Len(r) => Beginning(Append(c, r[Len(c) + 1]), r)
         /\ Beginning(c, r) /\ Len(c) >= Len(r) => c = r
         /\ Len(c) \in Nat /\ Len(r) \in Nat
         /\ Len(c) < Len(r) => /\ Append(c, r[Len(c) + 1]) \in Seq(Versions)
                               /\ Len(Append(c, r[Len(c) + 1])) = Len(c) + 1
  <1>1. Beginning(<<>>, r) /\ Len(c) \in Nat /\ Len(r) \in Nat
    BY DEF Beginning
  <1>2. ASSUME Len(c) < Len(r)
        PROVE  /\ Append(c, r[Len(c) + 1]) \in Seq(Versions)
               /\ Len(Append(c, r[Len(c) + 1])) = Len(c) + 1
               /\ Beginning(c, r) => Beginning(Append(c, r[Len(c) + 1]), r)
    <2>1. r[Len(c) + 1] \in Versions
      BY <1>1, <1>2
    <2> QED BY <1>1, <1>2, <2>1 DEF Beginning
  <1>3. Beginning(c, r) /\ Len(c) >= Len(r) => c = r
    BY DEF Beginning
  <1> QED BY <1>1, <1>2, <1>3

\* It takes the mutex, unless the directory cannot be created.
LEMMA LockInv ==
  ASSUME Inv, NEW t \in Workers, NEW directory \in BOOLEAN, Lock(t, directory)
  PROVE  Inv'
  <1>1. /\ threads[t].pc = "lock" /\ lock = 0 /\ FaultUnless(directory)
        /\ UNCHANGED <<written, local, part, remote, replaced, op, printing, queue>>
    BY DEF Lock, disk, server
  <1>2. /\ threads[t] \in ThreadStates /\ threads[t].save \in Saves
        /\ threads[t].tries <= Retries
        /\ threads[t].resume => HasPart(threads[t].save)
        /\ ~Success(t)
    BY <1>1, LockFacts DEF Inv, Shape, ThreadShape, Downloads, Download
  <1>3. PICK s \in Saves : s = threads[t].save
    BY <1>2
  <1>4. faults' \in 0 .. MaxFaults
    BY <1>1, FaultBound DEF Inv
  <1>5. PICK th \in ThreadStates :
          /\ Set(t, th)
          /\ \/ /\ th.pc = "open" /\ th.save = s /\ lock' = t /\ th.tries <= Retries
                /\ th.resume = threads[t].resume /\ th.result = threads[t].result
             \/ th.pc = "loop" /\ th.save = 0 /\ lock' = 0 /\ th.tries = 0 /\ th.result = "none"
    <2>1. CASE directory
      <3> DEFINE th == [threads[t] EXCEPT !.pc = "open"]
      <3>1. /\ th \in ThreadStates /\ th.pc = "open" /\ th.save = s
            /\ th.tries = threads[t].tries
            /\ th.resume = threads[t].resume /\ th.result = threads[t].result
        BY <1>2, <1>3 DEF ThreadStates, Steps
      <3>2. Set(t, th) /\ lock' = t
        BY <2>1 DEF Lock
      <3> HIDE DEF th
      <3> QED BY <1>2, <3>1, <3>2
    <2>2. CASE ~directory
      BY <2>2, ThreadFacts DEF Lock
    <2> QED BY <2>1, <2>2
  <1>6. threads'[t] = th
    BY <1>5, SetFacts DEF Inv
  <1>7. Download(t)'
    BY <1>1, <1>2, <1>3, <1>5, <1>6 DEF Download, HasPart, Success
  <1>8. /\ local' \in [Saves -> LocalFiles] /\ part' \in [Saves -> LocalFiles]
        /\ replaced' \subseteq Saves
        /\ s \in replaced' => HasPart(s)'
        /\ HasPart(s)' /\ s \notin replaced' => Beginning(part'[s].content, remote[s].content)
    BY <1>1 DEF Inv, TypeOK, Parts, HasPart
  <1>9. /\ \/ th.pc \in Locked /\ th.save = s /\ lock' = t
           \/ th.pc = "loop" /\ th.save = 0 /\ lock' = 0 /\ th.tries = 0 /\ th.result = "none"
        /\ th.pc \in {"open", "receive"} => th.tries <= Retries
    BY <1>5 DEF Locked
  <1>10. \A r \in Saves \ {s} : part'[r] = part[r] /\ (r \in replaced' <=> r \in replaced)
    BY <1>1
  <1> QED BY <1>1, <1>3, <1>4, <1>5, <1>7, <1>8, <1>9, <1>10, FetchStep

\* What the steps of the thread with the lock rest on.
LEMMA FetchFacts ==
  ASSUME Inv, NEW t \in Workers, threads[t].pc \in Locked
  PROVE  /\ threads[t] \in ThreadStates /\ threads[t].save \in Saves /\ lock = t
         /\ Now \in Times /\ Now > 0
         /\ local \in [Saves -> LocalFiles] /\ part \in [Saves -> LocalFiles]
         /\ remote \in [Saves -> Copies]
         /\ replaced \subseteq Saves
         /\ \A r \in Saves : r \in replaced => HasPart(r)
         /\ \A r \in Saves :
              HasPart(r) /\ r \notin replaced => Beginning(part[r].content, remote[r].content)
         /\ Download(t) /\ faults \in 0 .. MaxFaults
         /\ threads[t].pc \in {"open", "receive"} => threads[t].tries <= Retries
  <1>1. /\ threads[t] \in ThreadStates /\ threads[t].save \in Saves /\ lock = t
        /\ Now \in Times /\ Now > 0
    BY LockFacts
  <1>2. TypeOK /\ Parts /\ Downloads /\ ThreadShape(t)
    BY DEF Inv, Shape
  <1> QED BY <1>1, <1>2 DEF TypeOK, Parts, Downloads, ThreadShape

\* It begins an attempt.
LEMMA OpenInv == ASSUME Inv, NEW t \in Workers, Open(t) PROVE Inv'
  <1> DEFINE resume == threads[t].resume
             th == [threads[t] EXCEPT !.pc = "receive", !.status = "running",
                      !.start = IF resume THEN ResumePosition(t) ELSE 0,
                      !.got = 0, !.served = remote[threads[t].save]]
  <1>1. threads[t].pc = "open" /\ threads[t].pc \in Locked
        /\ UNCHANGED <<written, local, remote, op, printing, queue, lock, faults>>
    BY DEF Open, Locked
  <1>2. PICK s \in Saves : s = threads[t].save
    BY <1>1, FetchFacts
  <1>3. /\ part' = IF resume THEN part
                   ELSE [part EXCEPT ![s] = [time |-> Now, content |-> <<>>]]
        /\ replaced' = IF resume THEN replaced ELSE replaced \ {s}
        /\ Set(t, th)
    BY <1>2 DEF Open
  <1>4. /\ part[s].content \in Seq(Versions) /\ remote[s] \in Copies
        /\ remote[s].content \in Seq(Versions)
    BY <1>1, FetchFacts DEF LocalFiles, Copies
  <1>5. ResumePosition(t) = Len(part[s].content) /\ ResumePosition(t) \in Nat
    BY <1>2, <1>4 DEF ResumePosition
  <1>6. resume \in BOOLEAN /\ (resume => HasPart(s))
    BY <1>1, <1>2, FetchFacts DEF Download, ThreadStates
  <1>7. /\ th \in ThreadStates /\ th.pc = "receive" /\ th.save = s
        /\ th.tries = threads[t].tries /\ th.got = 0 /\ th.served = remote[s]
        /\ th.start = IF resume THEN ResumePosition(t) ELSE 0
    <2>1. PICK begin : begin = IF resume THEN ResumePosition(t) ELSE 0
      OBVIOUS
    <2>2. begin \in Nat
      BY <1>5, <2>1
    <2>3. threads[t] \in ThreadStates
      BY <1>1, FetchFacts
    <2>4. th = [threads[t] EXCEPT !.pc = "receive", !.status = "running",
                  !.start = begin, !.got = 0, !.served = remote[s]]
      BY <1>2, <2>1
    <2> HIDE DEF th, resume
    <2>5. PICK x \in ThreadStates : x = threads[t]
      BY <2>3
    <2>6. PICK c \in Copies : c = remote[s]
      BY <1>4
    <2>7. [x EXCEPT !.pc = "receive", !.status = "running", !.start = begin, !.got = 0,
             !.served = c] \in ThreadStates
      BY <2>2 DEF ThreadStates, Steps
    <2>8. th = [x EXCEPT !.pc = "receive", !.status = "running", !.start = begin, !.got = 0,
                  !.served = c]
      BY <2>4, <2>5, <2>6
    <2>9. /\ th.pc = "receive" /\ th.save = x.save /\ th.tries = x.tries /\ th.got = 0
          /\ th.served = c /\ th.start = begin
      BY <2>8 DEF ThreadStates
    <2> QED BY <1>2, <2>1, <2>5, <2>6, <2>7, <2>8, <2>9
  <1> HIDE DEF th, resume
  <1>8. [time |-> Now, content |-> <<>>] \in LocalFiles
    BY <1>1, FetchFacts DEF LocalFiles
  <1>9. /\ part' \in [Saves -> LocalFiles] /\ local' \in [Saves -> LocalFiles]
        /\ \A r \in Saves \ {s} : part'[r] = part[r]
        /\ part'[s] = IF resume THEN part[s] ELSE [time |-> Now, content |-> <<>>]
    BY <1>1, <1>3, <1>8, FetchFacts
  <1>10. /\ replaced' \subseteq Saves /\ HasPart(s)'
         /\ \A r \in Saves \ {s} : r \in replaced' <=> r \in replaced
         /\ s \notin replaced' => Beginning(part'[s].content, remote[s].content)
    <2>1. HasPart(s)'
      BY <1>1, <1>6, <1>9, FetchFacts DEF HasPart
    <2>2. s \notin replaced' => Beginning(part'[s].content, remote[s].content)
      BY <1>1, <1>3, <1>4, <1>6, <1>9, FetchFacts, BeginningFacts
    <2> QED BY <1>1, <1>3, <2>1, <2>2, FetchFacts
  <1>11. threads'[t] = th
    BY <1>3, <1>7, SetFacts DEF Inv
  <1>12. Download(t)'
    <2>1. th.start + th.got = Len(part'[s].content)
      BY <1>5, <1>7, <1>9
    <2> QED BY <1>1, <1>7, <1>10, <1>11, <2>1 DEF Download, HasPart
  <1>13. lock' = t /\ th.tries <= Retries /\ th.pc \in Locked /\ faults' \in 0 .. MaxFaults
    BY <1>1, <1>7, FetchFacts DEF Locked
  <1> QED BY <1>1, <1>2, <1>3, <1>7, <1>9, <1>10, <1>12, <1>13, FetchStep

\* It receives the next block.
LEMMA ReceiveInv == ASSUME Inv, NEW t \in Workers, Receive(t) PROVE Inv'
  <1> DEFINE th == [threads[t] EXCEPT !.got = @ + 1]
             old == part[threads[t].save].content
             new == Append(old, Served(t)[Position(t) + 1])
  <1>1. /\ threads[t].pc = "receive" /\ threads[t].pc \in Locked
        /\ Position(t) < Len(Served(t))
        /\ UNCHANGED <<written, local, remote, replaced, op, printing, queue, lock, faults>>
    BY DEF Receive, Locked, server
  <1>2. PICK s \in Saves : s = threads[t].save
    BY <1>1, FetchFacts
  <1>3. /\ HasPart(s) /\ Position(t) = Len(old)
        /\ s \notin replaced => Served(t) = remote[s].content
    BY <1>1, <1>2, FetchFacts DEF Download, Position, Served
  <1>4. /\ old = part[s].content /\ old \in Seq(Versions)
        /\ Served(t) \in Seq(Versions) /\ remote[s].content \in Seq(Versions)
    BY <1>1, <1>2, FetchFacts DEF LocalFiles, Copies, ThreadStates, Served
  <1>5. /\ part' = [part EXCEPT ![s] = [time |-> Now, content |-> new]]
        /\ Set(t, th)
    <2>1. part' = [part EXCEPT ![s] =
                     [time |-> Now, content |-> Append(@.content, Served(t)[Position(t) + 1])]]
      BY <1>2 DEF Receive
    <2>2. part \in [Saves -> LocalFiles]
      BY <1>1, FetchFacts
    <2> QED BY <1>2, <2>1, <2>2 DEF Receive
  <1>6. /\ th \in ThreadStates /\ th.pc = "receive" /\ th.save = s
        /\ th.tries = threads[t].tries /\ th.served = threads[t].served
        /\ th.start + th.got = Position(t) + 1
    <2>1. threads[t] \in ThreadStates
      BY <1>1, FetchFacts
    <2>2. threads[t].got \in Nat /\ threads[t].start \in Nat
      BY <2>1 DEF ThreadStates
    <2>3. th \in ThreadStates
      BY <2>1, <2>2 DEF ThreadStates
    <2>4. /\ th.pc = "receive" /\ th.save = s /\ th.tries = threads[t].tries
          /\ th.served = threads[t].served /\ th.start = threads[t].start
          /\ th.got = threads[t].got + 1
      BY <1>1, <1>2, <2>1 DEF ThreadStates
    <2> QED BY <2>2, <2>3, <2>4 DEF Position
  <1>7. /\ new \in Seq(Versions) /\ Len(new) = Position(t) + 1
        /\ s \notin replaced => Beginning(new, remote[s].content)
    <2>1. Len(old) < Len(Served(t)) /\ new = Append(old, Served(t)[Len(old) + 1])
      BY <1>1, <1>3
    <2>2. new \in Seq(Versions) /\ Len(new) = Position(t) + 1
      BY <1>3, <1>4, <2>1, BeginningFacts
    <2>3. s \notin replaced => Beginning(old, remote[s].content)
      BY <1>1, <1>3, <1>4, FetchFacts
    <2>4. s \notin replaced => Beginning(new, remote[s].content)
      BY <1>3, <1>4, <2>1, <2>3, BeginningFacts
    <2> QED BY <2>2, <2>4
  <1> HIDE DEF th, old, new
  <1>8. [time |-> Now, content |-> new] \in LocalFiles
    BY <1>1, <1>7, FetchFacts DEF LocalFiles
  <1>9. /\ part' \in [Saves -> LocalFiles] /\ local' \in [Saves -> LocalFiles]
        /\ \A r \in Saves \ {s} : part'[r] = part[r]
        /\ part'[s] = [time |-> Now, content |-> new]
    BY <1>1, <1>5, <1>8, FetchFacts
  <1>10. HasPart(s)' /\ part'[s].content = new
    BY <1>1, <1>9, FetchFacts DEF HasPart
  <1>11. threads'[t] = th
    BY <1>5, <1>6, SetFacts DEF Inv
  <1>12. Download(t)'
    <2>1. th.start + th.got = Len(part'[s].content)
      BY <1>6, <1>7, <1>10
    <2>2. s \notin replaced => th.served = remote[s]
      BY <1>1, <1>2, <1>6, FetchFacts DEF Download
    <2> QED BY <1>1, <1>6, <1>10, <1>11, <2>1, <2>2 DEF Download, HasPart
  <1>13. lock' = t /\ th.tries <= Retries /\ th.pc \in Locked /\ faults' \in 0 .. MaxFaults
         /\ replaced' \subseteq Saves
    BY <1>1, <1>6, FetchFacts
  <1> QED BY <1>1, <1>2, <1>5, <1>6, <1>7, <1>9, <1>10, <1>12, <1>13, FetchStep

\* It ends an attempt, or cannot open the file.
LEMMA AttemptInv ==
  ASSUME Inv, NEW t \in Workers, NEW result \in Retryable \union {"ok", "range", "fatal"},
         OpenFails(t) \/ EndAttempt(t, result)
  PROVE  Inv'
  <1>1. /\ threads[t].pc \in {"open", "receive"} /\ threads[t].pc \in Locked
        /\ UNCHANGED <<written, local, part, remote, replaced, op, printing, queue, lock>>
    BY DEF OpenFails, EndAttempt, Locked, disk, server
  <1>2. PICK s \in Saves : s = threads[t].save
    BY <1>1, FetchFacts
  <1>3. faults' \in 0 .. MaxFaults
    BY FaultBound DEF Inv, OpenFails, EndAttempt
  <1>4. /\ threads[t] \in ThreadStates /\ threads[t].tries \in Nat
        /\ threads[t].tries <= Retries /\ threads[t].tries + 1 \in 0 .. Retries + 1
    BY <1>1, FetchFacts, Constants DEF ThreadStates
  <1>5. ASSUME threads[t].pc = "receive", result \in {"ok", "range"}, result \in Natural(t),
               s \notin replaced
        PROVE  part[s].content = remote[s].content
    <2>1. /\ HasPart(s) /\ Position(t) = Len(part[s].content)
          /\ Served(t) = remote[s].content
      BY <1>1, <1>2, <1>5, FetchFacts DEF Download, Position, Served
    <2>2. /\ part[s].content \in Seq(Versions) /\ remote[s].content \in Seq(Versions)
          /\ Beginning(part[s].content, remote[s].content)
      BY <1>1, <1>5, <2>1, FetchFacts DEF LocalFiles, Copies
    <2>3. threads[t].start \in Nat /\ threads[t].got \in Nat
      BY <1>4 DEF ThreadStates
    <2>4. ~Absent(t)
      BY <1>5 DEF Natural
    <2>5. Position(t) >= Len(Served(t))
      <3> DEFINE past == threads[t].start >= Len(Served(t)) /\ threads[t].start > 0
      <3>1. Len(Served(t)) \in Nat
        BY <2>1, <2>2
      <3>2. CASE past
        BY <2>3, <3>1, <3>2 DEF Position
      <3>3. CASE ~past
        <4>1. threads[t].start < Len(Served(t)) \/ threads[t].start = 0
          BY <2>3, <3>1, <3>3
        <4>2. Position(t) = Len(Served(t))
          BY <1>5, <2>4, <3>3, <4>1 DEF Natural
        <4> QED BY <3>1, <4>2
      <3> QED BY <3>2, <3>3
    <2> QED BY <2>1, <2>2, <2>5, BeginningFacts
  <1>6. PICK th \in ThreadStates :
          /\ Set(t, th) /\ th.save = s /\ th.pc \in {"open", "settle"}
          /\ th.pc = "open" => th.tries <= Retries /\ th.resume /\ th.result \in Retryable
          /\ th.pc = "open" => threads[t].pc = "receive"
          /\ th.result \in {"ok", "range"} =>
               \/ threads[t].pc = "open" /\ th.result = threads[t].result
               \/ /\ threads[t].pc = "receive" /\ th.result = result
                  /\ result \in Natural(t)
    <2>1. CASE OpenFails(t)
      <3> DEFINE th == [threads[t] EXCEPT !.pc = "settle"]
      <3>1. /\ th \in ThreadStates /\ th.save = s /\ th.pc = "settle"
            /\ th.result = threads[t].result
        BY <1>2, <1>4 DEF ThreadStates, Steps
      <3>2. Set(t, th) /\ threads[t].pc = "open"
        BY <2>1 DEF OpenFails
      <3> HIDE DEF th
      <3> QED BY <3>1, <3>2
    <2>2. CASE EndAttempt(t, result)
      <3> DEFINE retry == result \in Retryable
                 th == [threads[t] EXCEPT
                          !.result = result,
                          !.tries = IF retry THEN @ + 1 ELSE @,
                          !.resume = @ \/ retry,
                          !.pc = IF retry /\ RetriesLeft(t) THEN "open" ELSE "settle"]
      <3>1. Set(t, th) /\ threads[t].pc = "receive"
        BY <2>2 DEF EndAttempt
      <3>2. /\ th.save = s /\ th.result = result
            /\ th.pc = IF retry /\ RetriesLeft(t) THEN "open" ELSE "settle"
            /\ th.tries = IF retry THEN threads[t].tries + 1 ELSE threads[t].tries
            /\ th.resume = (threads[t].resume \/ retry)
        BY <1>2, <1>4 DEF ThreadStates
      <3>3. th \in ThreadStates
        <4>1. /\ retry \in BOOLEAN /\ (threads[t].resume \/ retry) \in BOOLEAN
              /\ result \in Results
              /\ (IF retry /\ RetriesLeft(t) THEN "open" ELSE "settle") \in Steps
              /\ (IF retry THEN threads[t].tries + 1 ELSE threads[t].tries) \in 0 .. Retries + 1
          BY <1>4, Constants DEF Results, Steps, ThreadStates
        <4> HIDE DEF retry
        <4> QED BY <1>4, <4>1 DEF ThreadStates
      <3>4. result \in {"ok", "range"} => result \in Natural(t)
        BY <2>2 DEF EndAttempt, Errors, Retryable
      <3> HIDE DEF th
      <3> QED BY <3>1, <3>2, <3>3, <3>4 DEF RetriesLeft
    <2> QED BY <2>1, <2>2
  <1>7. threads'[t] = th
    BY <1>6, SetFacts DEF Inv
  <1>8. Download(t)'
    <2>1. Download(t)
      BY <1>1, FetchFacts
    <2>2. threads[t].pc = "receive" => HasPart(s)
      BY <1>2, <2>1 DEF Download
    <2>3. CASE th.pc = "open"
      <3>1. th.resume /\ th.result \notin {"ok", "range"} /\ HasPart(s)
        BY <1>6, <2>2, <2>3 DEF Retryable
      <3> QED BY <1>1, <1>6, <1>7, <2>3, <3>1 DEF Download, Success, HasPart
    <2>4. CASE th.pc = "settle" /\ th.result \in {"ok", "range"}
      <3>1. threads[t].pc = "open" => ~Success(t)
        BY <2>1 DEF Download
      <3>2. threads[t].pc = "receive" /\ th.result = result /\ result \in Natural(t)
        BY <1>6, <2>4, <3>1 DEF Success
      <3>3. HasPart(s) /\ (s \notin replaced => part[s].content = remote[s].content)
        BY <1>5, <2>2, <2>4, <3>2
      <3> QED BY <1>1, <1>6, <1>7, <2>4, <3>3 DEF Download, Success, HasPart
    <2>5. CASE th.pc = "settle" /\ th.result \notin {"ok", "range"}
      BY <1>7, <2>5 DEF Download, Success
    <2> QED BY <1>6, <2>3, <2>4, <2>5
  <1>9. /\ local' \in [Saves -> LocalFiles] /\ part' \in [Saves -> LocalFiles]
        /\ replaced' \subseteq Saves
        /\ s \in replaced' => HasPart(s)'
        /\ HasPart(s)' /\ s \notin replaced' => Beginning(part'[s].content, remote[s].content)
    BY <1>1, FetchFacts DEF HasPart
  <1>10. \A r \in Saves \ {s} : part'[r] = part[r] /\ (r \in replaced' <=> r \in replaced)
    BY <1>1
  <1>11. /\ th.pc \in Locked /\ th.save = s /\ lock' = t
         /\ th.pc \in {"open", "receive"} => th.tries <= Retries
    BY <1>1, <1>6, FetchFacts DEF Locked
  <1> QED BY <1>1, <1>2, <1>3, <1>6, <1>8, <1>9, <1>10, <1>11, FetchStep

\* It puts the save in place.
LEMMA RenameInv == ASSUME Inv, NEW t \in Workers, Rename(t) PROVE Inv'
  <1> DEFINE th == [threads[t] EXCEPT !.pc = "settime"]
  <1>1. /\ threads[t].pc = "settle" /\ threads[t].pc \in Locked
        /\ UNCHANGED <<written, remote, op, printing, queue, lock, faults>>
    BY DEF Rename, Locked
  <1>2. PICK s \in Saves : s = threads[t].save
    BY <1>1, FetchFacts
  <1>3. /\ local' = [local EXCEPT ![s] = part[s]]
        /\ part' = [part EXCEPT ![s] = NoFile]
        /\ replaced' = replaced \ {s}
        /\ Set(t, th)
    BY <1>2 DEF Rename
  <1>4. th \in ThreadStates /\ th.pc = "settime" /\ th.save = s
    BY <1>1, <1>2, FetchFacts DEF ThreadStates, Steps
  <1>5. /\ local' \in [Saves -> LocalFiles] /\ part' \in [Saves -> LocalFiles]
        /\ \A r \in Saves \ {s} : part'[r] = part[r] /\ (r \in replaced' <=> r \in replaced)
        /\ part'[s] = NoFile /\ replaced' \subseteq Saves /\ s \notin replaced'
    BY <1>1, <1>3, FetchFacts, Constants
  <1>6. ~HasPart(s)'
    BY <1>5, Constants DEF HasPart
  <1>7. threads'[t] = th
    BY <1>3, <1>4, SetFacts DEF Inv
  <1> HIDE DEF th
  <1>8. Download(t)'
    BY <1>4, <1>7 DEF Download
  <1>9. lock' = t /\ th.pc \in Locked /\ faults' \in 0 .. MaxFaults
        /\ th.pc \notin {"open", "receive"}
    BY <1>1, <1>4, FetchFacts DEF Locked
  <1> QED BY <1>1, <1>2, <1>3, <1>4, <1>5, <1>6, <1>8, <1>9, FetchStep

\* It leaves the save, with or without the .~incomplete file.
LEMMA ReleaseInv ==
  ASSUME Inv, NEW t \in Workers, NEW ok \in BOOLEAN,
         KeepsPart(t) \/ SetTime(t, ok) \/ GiveUp(t)
  PROVE  Inv'
  <1> DEFINE th == BackToLoop(t)
  <1>1. /\ threads[t].pc \in Locked /\ Set(t, th) /\ lock' = 0
        /\ UNCHANGED <<written, remote, op, printing, queue>>
    BY DEF KeepsPart, SetTime, GiveUp, Release, Locked, server
  <1>2. PICK s \in Saves : s = threads[t].save
    BY <1>1, FetchFacts
  <1>3. /\ th \in ThreadStates /\ th.pc = "loop" /\ th.save = 0 /\ th.tries = 0
        /\ th.result = "none"
    BY ThreadFacts
  <1> HIDE DEF th
  <1>4. faults' \in 0 .. MaxFaults
    <2>1. CASE KeepsPart(t)
      <3>1. threads[t].result = "range" \/ threads[t].result # "range"
        OBVIOUS
      <3> QED BY <2>1, FaultBound DEF Inv, KeepsPart
    <2>2. CASE SetTime(t, ok)
      BY <2>2, FaultBound DEF Inv, SetTime
    <2>3. CASE GiveUp(t)
      BY <1>1, <2>3, FetchFacts DEF GiveUp
    <2> QED BY <2>1, <2>2, <2>3
  <1>5. local' \in [Saves -> LocalFiles]
    <2>1. CASE SetTime(t, ok)
      <3>1. local[s] \in LocalFiles /\ threads[t].served.modified \in Times
        BY <1>1, FetchFacts DEF ThreadStates, Copies
      <3>2. [local[s] EXCEPT !.time = threads[t].served.modified] \in LocalFiles
        BY <3>1 DEF LocalFiles
      <3>3. local' = IF ok THEN [local EXCEPT ![s].time = threads[t].served.modified]
                           ELSE local
        BY <1>2, <2>1 DEF SetTime
      <3> QED BY <1>1, <3>2, <3>3, FetchFacts
    <2>2. CASE KeepsPart(t) \/ GiveUp(t)
      <3>1. local' = local
        BY <2>2 DEF KeepsPart, GiveUp, disk
      <3> QED BY <1>1, <3>1, FetchFacts
    <2> QED BY <2>1, <2>2
  <1>6. \/ UNCHANGED <<part, replaced>>
        \/ part' = [part EXCEPT ![s] = NoFile] /\ replaced' = replaced \ {s}
    BY <1>2 DEF KeepsPart, SetTime, GiveUp, disk, server
  <1>7. /\ part' \in [Saves -> LocalFiles] /\ replaced' \subseteq Saves
        /\ \A r \in Saves \ {s} : part'[r] = part[r] /\ (r \in replaced' <=> r \in replaced)
        /\ s \in replaced' => HasPart(s)'
        /\ HasPart(s)' /\ s \notin replaced' => Beginning(part'[s].content, remote[s].content)
    <2>1. CASE UNCHANGED <<part, replaced>>
      BY <1>1, <2>1, FetchFacts DEF HasPart
    <2>2. CASE part' = [part EXCEPT ![s] = NoFile] /\ replaced' = replaced \ {s}
      <3>1. /\ part' \in [Saves -> LocalFiles] /\ replaced' \subseteq Saves
            /\ \A r \in Saves \ {s} : part'[r] = part[r] /\ (r \in replaced' <=> r \in replaced)
            /\ part'[s] = NoFile /\ s \notin replaced'
        BY <1>1, <2>2, FetchFacts, Constants
      <3>2. ~HasPart(s)'
        BY <3>1, Constants DEF HasPart
      <3> QED BY <3>1, <3>2
    <2> QED BY <1>6, <2>1, <2>2
  <1>8. threads'[t] = th
    BY <1>1, <1>3, SetFacts DEF Inv
  <1>9. Download(t)'
    BY <1>3, <1>8 DEF Download
  <1>10. th.pc \notin {"open", "receive"}
    BY <1>3
  <1> QED BY <1>1, <1>2, <1>3, <1>4, <1>5, <1>7, <1>9, <1>10, FetchStep

--------------------------------------------------------------------------------
(* All steps *)

\* Every step of a thread preserves the invariant.
LEMMA WorkerInv == ASSUME Inv, NEW t \in Workers, Worker(t) PROVE Inv'
  <1>1. CASE \E ok \in BOOLEAN : Login(t, ok) \/ Lock(t, ok) \/ SetTime(t, ok)
                                   \/ PutStores(t, ok) \/ PutFails(t, ok)
    BY <1>1, LeaveInv, LockInv, ReleaseInv, UploadStepInv
  <1>2. CASE TokenExpired(t) \/ NoMore(t)
    BY <1>2, LeaveInv
  <1>3. CASE Take(t)
    BY <1>3, TakeInv
  <1>4. CASE ReadFile(t) \/ PutRefused(t)
    BY <1>4, UploadStepInv
  <1>5. CASE Open(t) \/ Receive(t) \/ Rename(t)
    BY <1>5, OpenInv, ReceiveInv, RenameInv
  <1>6. CASE OpenFails(t)
    <2>1. "ok" \in Retryable \union {"ok", "range", "fatal"}
      OBVIOUS
    <2> QED BY <1>6, <2>1, AttemptInv
  <1>7. CASE \E result \in Retryable \union {"ok", "range", "fatal"} : EndAttempt(t, result)
    BY <1>7, AttemptInv
  <1>8. CASE KeepsPart(t) \/ GiveUp(t)
    BY <1>8, ReleaseInv
  <1> QED BY <1>1, <1>2, <1>3, <1>4, <1>5, <1>6, <1>7, <1>8 DEF Worker

\* Every step preserves the invariant.
LEMMA NextInv == ASSUME Inv, [Next]_vars PROVE Inv'
  <1>1. CASE Environment
    BY <1>1, CrashInv, ReturnInv, PlayerSavesInv, OtherDeviceUploadsInv,
       OtherDeviceDeletesInv DEF Environment
  <1>2. CASE BeginAny
    BY <1>2, BeginDownloadInv, BeginUploadInv DEF BeginAny
  <1>3. CASE Work
    BY <1>3, DeleteRemoteInv, ReturnInv, StopPrintingInv, WorkerInv DEF Work
  <1>4. CASE UNCHANGED vars
    <2>1. /\ UNCHANGED <<written, local, part, remote, replaced, op, printing, queue, lock>>
          /\ UNCHANGED <<threads, faults>>
      BY <1>4 DEF vars, disk, server, process
    <2>2. TypeOK' /\ Shape'
      BY <2>1 DEF Inv, TypeOK, HasPart, Shape, ThreadShape
    <2>3. Clock' /\ Parts'
      BY <2>1 DEF Inv, Clock, Parts, HasLocal, HasRemote, HasPart
    <2>4. Downloads' /\ ExclusiveSaves'
      BY <2>1 DEF Inv, Downloads, Download, HasPart, Success, ExclusiveSaves, Held
    <2> QED BY <2>2, <2>3, <2>4 DEF Inv
  <1> QED BY <1>1, <1>2, <1>3, <1>4 DEF Next

\* The invariant holds whatever is written where, and whatever fails.
THEOREM Invariance == Spec => []Inv
  <1>1. Init => Inv
    BY InitInv
  <1>2. Inv /\ [Next]_vars => Inv'
    BY NextInv
  <1> QED BY <1>1, <1>2, PTL DEF Spec

\* Times, contents, positions and retries stay in their ranges; the history of
\* replaced copies is about .~incomplete files that exist, and the mutex of
\* processCloudSaveDownloadQueue is held by a download thread with a save.
THEOREM TypeCorrect == Spec => []TypeOK
  <1>1. Inv => TypeOK
    BY DEF Inv
  <1> QED BY <1>1, Invariance, PTL

\* No save is queued twice, or queued while a thread transfers it, or
\* transferred by two threads: what uploadCloudSaves and downloadCloudSaves put
\* into dlCloudSaveQueue, the threads take apart without sharing a save.
THEOREM ExclusiveCorrect == Spec => []ExclusiveSaves
  <1>1. Inv => ExclusiveSaves
    BY DEF Inv
  <1> QED BY <1>1, Invariance, PTL

--------------------------------------------------------------------------------
(* A save that is put in place *)

\* Only a rename takes a thread from the end of a transfer to the setting of
\* the time.
LEMMA OnlyRename ==
  ASSUME Inv, NEW t \in Workers, [Next]_vars,
         threads[t].pc = "settle", threads'[t].pc = "settime"
  PROVE  Rename(t)
  <1>1. TypeOK
    BY DEF Inv
  <1>2. ~Environment
    <2>1. EndProcess => threads'[t].pc = "none"
      BY Constants DEF EndProcess
    <2> QED BY <2>1 DEF Environment, Crash, Interrupt, PlayerSaves, OtherDeviceUploads,
              OtherDeviceDeletes, process
  <1>3. ~BeginAny
    <2>1. op # "idle"
      BY DEF Inv, Shape, ThreadShape
    <2> QED BY <2>1 DEF BeginAny, BeginDownload, BeginUpload, BeginDelete, Begin
  <1>4. threads' # threads
    OBVIOUS
  <1>5. PICK w \in Workers : Worker(w)
    <2>1. EndProcess => threads'[t].pc = "none"
      BY Constants DEF EndProcess
    <2> QED BY <1>2, <1>3, <1>4, <2>1 DEF Next, vars, process, Work, DeleteRemote, NothingToDo,
              StopPrinting, JoinThreads
  <1>6. ASSUME NEW th, Set(w, th) PROVE w = t /\ th.pc = "settime"
    <2>1. threads' = [threads EXCEPT ![w] = th]
      BY <1>6 DEF Set
    <2>2. threads \in [Workers -> ThreadStates]
      BY <1>1 DEF TypeOK
    <2> QED BY <2>1, <2>2
  <1>7. BackToLoop(t).pc = "loop"
    BY ThreadFacts
  <1>8. ~(KeepsPart(w) \/ GiveUp(w) \/ \E ok \in BOOLEAN : SetTime(w, ok))
    BY <1>6, <1>7 DEF KeepsPart, GiveUp, SetTime, Release
  <1>9. ~(TokenExpired(w) \/ NoMore(w) \/ \E ok \in BOOLEAN : Login(w, ok))
    BY <1>6 DEF TokenExpired, NoMore, Login
  <1>10. ~(Take(w) \/ ReadFile(w) \/ PutRefused(w))
    BY <1>6 DEF Take, TryPop, ReadFile, PutRefused
  <1>11. ~\E ok \in BOOLEAN : PutStores(w, ok) \/ PutFails(w, ok) \/ Lock(w, ok)
    BY <1>6 DEF PutStores, PutFails, Lock
  <1>12. ~(Open(w) \/ OpenFails(w) \/ Receive(w))
    BY <1>6 DEF Open, OpenFails, Receive
  <1>13. ~\E result \in Retryable \union {"ok", "range", "fatal"} : EndAttempt(w, result)
    BY <1>6 DEF EndAttempt
  <1>14. Rename(w)
    BY <1>5, <1>8, <1>9, <1>10, <1>11, <1>12, <1>13 DEF Worker
  <1> QED BY <1>6, <1>14 DEF Rename

\* Whatever failures, retries, crashes and resumes lie in between, a save that
\* a download thread renames into place has exactly the server's content, if
\* the server's copy did not change since the .~incomplete file was begun.
THEOREM InPlaceCorrect == Spec => InPlaceAsOnServer
  <1> DEFINE Same(t) ==
        LET s == threads[t].save
        IN threads[t].pc = "settle" /\ threads'[t].pc = "settime" /\ s \notin replaced
             => local'[s].content = remote[s].content
  <1>1. ASSUME Inv, [Next]_vars PROVE \A t \in Workers : Same(t)
    <2>1. ASSUME NEW t \in Workers, threads[t].pc = "settle", threads'[t].pc = "settime",
                 threads[t].save \notin replaced
          PROVE  local'[threads[t].save].content = remote[threads[t].save].content
      <3>1. Rename(t) /\ threads[t].pc \in Locked
        BY <1>1, <2>1, OnlyRename DEF Locked
      <3>2. PICK s \in Saves : s = threads[t].save
        BY <1>1, <3>1, FetchFacts
      <3>3. Success(t) /\ local' = [local EXCEPT ![s] = part[s]]
        BY <3>1, <3>2 DEF Rename
      <3>4. local'[s] = part[s]
        BY <1>1, <3>1, <3>3, FetchFacts
      <3>5. part[s].content = remote[s].content
        BY <1>1, <2>1, <3>1, <3>2, <3>3, FetchFacts DEF Download
      <3> QED BY <3>2, <3>4, <3>5
    <2> QED BY <2>1
  <1>2. Inv /\ [Next]_vars => [\A t \in Workers : Same(t)]_vars
    BY <1>1
  <1> QED BY <1>2, Invariance, PTL DEF Spec, InPlaceAsOnServer

=================================================================================
