--------------------------- MODULE FileDownloadProofs ---------------------------
(* Proofs about FileDownload and CheckStatus, for any versions of any sizes, *)
(* any options but --size-only, any number of retries, faults and runs.      *)
EXTENDS CheckStatus, TLAPS

\* No run compares installers by size only (--size-only), the option that
\* leaves the hashes out.
NoSizeOnly == \A t \in Types : \A o \in Options[t] : ~o.sizeOnly

--------------------------------------------------------------------------------
(* Versions and beginnings of versions *)

\* A version has at least one block, and all its blocks are tagged with it.
LEMMA FullFacts ==
  ASSUME NEW v \in Versions
  PROVE  /\ SizeOf[v] \in Nat \ {0}
         /\ Len(Full(v)) = SizeOf[v]
         /\ DOMAIN Full(v) = 1 .. SizeOf[v]
         /\ \A i \in 1 .. SizeOf[v] : Full(v)[i] = v
         /\ Full(v)[1] = v
         /\ Full(v) # <<>>
  <1>1. SizeOf[v] \in Nat \ {0}
    BY VersionsAssumption
  <1>2. /\ Len(Full(v)) = SizeOf[v]
        /\ DOMAIN Full(v) = 1 .. SizeOf[v]
        /\ \A i \in 1 .. SizeOf[v] : Full(v)[i] = v
    BY <1>1 DEF Full
  <1>3. 1 \in 1 .. SizeOf[v]
    BY <1>1
  <1>4. Full(v) # <<>>
    BY <1>1, <1>2
  <1> QED BY <1>1, <1>2, <1>3, <1>4

\* The content of a version is a sequence of its tag.
LEMMA FullType ==
  ASSUME NEW v \in Versions, NEW S, v \in S
  PROVE  Full(v) \in Seq(S)
  BY VersionsAssumption DEF Full

\* Contents of two versions differ.
LEMMA FullDistinct ==
  ASSUME NEW v \in Versions, NEW w \in Versions, Full(v) = Full(w)
  PROVE  v = w
  <1>1. Full(v)[1] = v
    BY FullFacts
  <1>2. Full(w)[1] = w
    BY FullFacts
  <1> QED BY <1>1, <1>2

\* A beginning of a version that is as long as the version is the version.
LEMMA WholePrefix ==
  ASSUME NEW v \in Versions, NEW S, NEW c \in Seq(S), Prefix(c, Full(v)),
         Len(c) >= SizeOf[v]
  PROVE  c = Full(v)
  <1>1. /\ SizeOf[v] \in Nat \ {0}
        /\ Len(Full(v)) = SizeOf[v]
        /\ DOMAIN Full(v) = 1 .. SizeOf[v]
    BY FullFacts
  <1>2. Len(c) \in Nat /\ DOMAIN c = 1 .. Len(c) /\ c = [i \in 1 .. Len(c) |-> c[i]]
    OBVIOUS
  <1>3. Len(c) <= Len(Full(v)) /\ \A i \in DOMAIN c : c[i] = Full(v)[i]
    BY DEF Prefix
  <1>4. Len(c) = SizeOf[v]
    BY <1>1, <1>2, <1>3
  <1>5. \A i \in 1 .. SizeOf[v] : c[i] = v
    <2>1. \A i \in 1 .. SizeOf[v] : Full(v)[i] = v
      BY FullFacts
    <2> QED BY <2>1, <1>2, <1>3, <1>4
  <1> QED BY <1>2, <1>4, <1>5 DEF Full

\* A block of the version received after a beginning of it makes a longer
\* beginning of it.
LEMMA LongerPrefix ==
  ASSUME NEW v \in Versions, NEW S, NEW c \in Seq(S), v \in S,
         Prefix(c, Full(v)), Len(c) < SizeOf[v]
  PROVE  Prefix(Append(c, v), Full(v))
  <1>1. /\ Len(Append(c, v)) = Len(c) + 1
        /\ DOMAIN Append(c, v) = 1 .. Len(c) + 1
        /\ \A i \in 1 .. Len(c) : Append(c, v)[i] = c[i]
        /\ Append(c, v)[Len(c) + 1] = v
        /\ Len(c) \in Nat /\ DOMAIN c = 1 .. Len(c)
    OBVIOUS
  <1>2. \A i \in 1 .. Len(c) : c[i] = Full(v)[i]
    BY <1>1 DEF Prefix
  <1>3. SizeOf[v] \in Nat /\ Len(Full(v)) = SizeOf[v]
    BY FullFacts
  <1>4. \A i \in 1 .. SizeOf[v] : Full(v)[i] = v
    BY FullFacts
  <1>5. Len(Append(c, v)) <= Len(Full(v))
    BY <1>1, <1>3
  <1>6. ASSUME NEW i \in 1 .. Len(c) + 1 PROVE Append(c, v)[i] = Full(v)[i]
    <2>1. CASE i \in 1 .. Len(c)
      BY <2>1, <1>1, <1>2
    <2>2. CASE i = Len(c) + 1
      BY <2>2, <1>1, <1>3, <1>4
    <2> QED BY <2>1, <2>2, <1>1
  <1> QED BY <1>1, <1>5, <1>6 DEF Prefix

\* Nothing is a beginning of everything, and a version of itself.
LEMMA TrivialPrefix ==
  ASSUME NEW v \in Versions
  PROVE  Prefix(<<>>, Full(v)) /\ Prefix(Full(v), Full(v))
  BY FullFacts DEF Prefix

--------------------------------------------------------------------------------
(* The inductive invariant *)

Installer == type = "installer"
Busy == pc \notin {"idle", "downlink"}
Attempting == pc \in {"open", "receiving", "ended"}
Saving == pc \in {"saveXML", "fillXML"}

\* What the variables are, and what the program counter says of them.
Shape ==
  /\ content \in Seq(1 .. server)
  /\ \/ xml \in {NoXML, BadXML}
     \/ xml.of \in Seq(1 .. server) /\ xml = XMLOf(xml.of)
  /\ fetched \in BOOLEAN /\ hadXML \in BOOLEAN /\ resume \in BOOLEAN
  /\ pc \in {"downlink", "compare", "saveXML", "fillXML", "open", "receiving"} =>
       tries <= Retries
  /\ pc = "receiving" => exists /\ start <= Len(content)
  /\ ~Installer => ~fetched /\ ~Saving
  /\ pc \in {"createXML", "describe"} => ~fetched
  /\ pc = "compare" => hadXML = (xml.kind # "none")

\* What has become of the file when, and that it is resumed unless it is whole
\* or of another version.
Outcome ==
  /\ pc \in {"downlink", "compare"} => result = "none"
  /\ pc \in {"open", "receiving"} => result \in Retryable
  /\ pc = "ended" => result \in Results
  /\ Saving => result \in {"skip", "recv"}
  /\ Saving /\ result = "skip" => content = Full(pin)
  /\ /\ Saving \/ pc = "open"
     /\ result # "skip" /\ fetched /\ exists
     => resume

\* XML files are of the version of the run, and vouch for the file, before the
\* first block of it is received, or the file is a beginning of that version.
Vouched ==
  /\ Busy /\ xml = XMLOf(Full(server)) => pin = server
  /\ Installer /\ Busy /\ xml = XMLOf(Full(pin)) => Prefix(content, Full(pin))
  /\ Saving => Prefix(content, Full(pin))
  /\ fetched /\ Attempting => xml = BadXML \/ Prefix(content, Full(pin))

Inv == TypeOK /\ Shape /\ Outcome /\ Vouched /\ XMLVouches /\ WholeWhenDone

\* The records of XML files.
LEMMA XMLFacts ==
  /\ NoXML.kind = "none" /\ BadXML.kind = "bad"
  /\ \A c : XMLOf(c).kind = "ok" /\ XMLOf(c).of = c
  /\ \A c, d : XMLOf(c) = XMLOf(d) => c = d
  /\ \A c : XMLOf(c) \notin {NoXML, BadXML}
  /\ NoXML # BadXML
  BY DEF NoXML, BadXML, XMLOf

\* The program begins in the invariant.
LEMMA InitInv == ASSUME Init PROVE Inv
  <1> USE XMLFacts
  <1>1. server \in Versions /\ pin \in 1 .. server /\ listed \in Nat
    BY VersionsAssumption DEF Init, Versions
  <1>2. content = <<>> /\ content \in Seq(Versions) /\ content \in Seq(1 .. server)
    BY DEF Init
  <1>3. /\ tries \in 0 .. Retries + 1 /\ tries <= Retries
        /\ faults \in 0 .. MaxFaults /\ start \in Nat
    BY ParametersAssumption DEF Init
  <1>4. TypeOK
    BY <1>1, <1>2, <1>3 DEF Init, TypeOK
  <1>5. Shape
    BY <1>2, <1>3 DEF Init, Shape, Installer, Saving
  <1>6. Outcome
    BY DEF Init, Outcome, Saving
  <1>7. Vouched
    BY DEF Init, Vouched, Busy, Saving, Attempting
  <1>8. XMLVouches /\ WholeWhenDone
    BY DEF Init, XMLVouches, WholeWhenDone
  <1> QED BY <1>4, <1>5, <1>6, <1>7, <1>8 DEF Inv

--------------------------------------------------------------------------------
(* Steps *)

\* The versions and the type of a state of the invariant.
LEMMA Known ==
  ASSUME Inv
  PROVE  /\ server \in Versions /\ pin \in Versions /\ pin \in 1 .. server
         /\ server \in Nat /\ server >= 1
         /\ Full(pin) \in Seq(1 .. server) /\ Full(server) \in Seq(1 .. server)
         /\ Full(pin) # <<>> /\ Full(server) # <<>>
         /\ SizeOf[pin] \in Nat /\ SizeOf[server] \in Nat
         /\ Len(Full(pin)) = SizeOf[pin] /\ Len(Full(server)) = SizeOf[server]
         /\ content \in Seq(1 .. server) /\ Len(content) \in Nat
         /\ Full(pin) = Full(server) => pin = server
  <1>1. /\ server \in Versions /\ pin \in 1 .. server /\ content \in Seq(1 .. server)
    BY DEF Inv, TypeOK, Shape
  <1>2. pin \in Versions /\ server \in Nat /\ server >= 1 /\ server \in 1 .. server
    BY <1>1, VersionsAssumption DEF Versions
  <1>3. Full(pin) \in Seq(1 .. server) /\ Full(server) \in Seq(1 .. server)
    BY <1>1, <1>2, FullType
  <1>4. /\ Full(pin) # <<>> /\ SizeOf[pin] \in Nat /\ Len(Full(pin)) = SizeOf[pin]
    BY <1>2, FullFacts
  <1>5. /\ Full(server) # <<>> /\ SizeOf[server] \in Nat
        /\ Len(Full(server)) = SizeOf[server]
    BY <1>1, FullFacts
  <1>6. Full(pin) = Full(server) => pin = server
    BY <1>1, <1>2, FullDistinct
  <1> QED BY <1>1, <1>2, <1>3, <1>4, <1>5, <1>6

\* A new version: no XML file and no block is of it yet.
LEMMA PublishInv == ASSUME Inv, Publish, UNCHANGED type PROVE Inv'
  <1> USE DEF Publish, disk, run
  <1>1. /\ server \in Versions /\ server \in Nat /\ server >= 1
        /\ server' = server + 1 /\ server' \in Versions
        /\ 1 .. server \subseteq 1 .. server'
    <2>1. server \in Versions /\ server \in Nat /\ server >= 1
      BY Known
    <2> QED BY <2>1, VersionsAssumption DEF Versions
  <1>2. Full(server') \notin Seq(1 .. server)
    <2>1. /\ SizeOf[server'] \in Nat \ {0} /\ Len(Full(server')) = SizeOf[server']
          /\ Full(server')[1] = server'
      BY <1>1, FullFacts
    <2>2. ASSUME NEW c \in Seq(1 .. server), Len(c) \in Nat \ {0}, c[1] = server'
          PROVE  FALSE
      BY <1>1, <2>2
    <2> QED BY <2>1, <2>2
  <1>3. xml # XMLOf(Full(server'))
    BY <1>2, XMLFacts DEF Inv, Shape
  <1>4. TypeOK'
    BY <1>1 DEF Inv, TypeOK
  <1>5. Shape'
    BY <1>1 DEF Inv, Shape, Installer, Saving
  <1>6. Outcome'
    BY DEF Inv, Outcome, Saving
  <1>7. Vouched'
    BY <1>3 DEF Inv, Vouched, Installer, Busy, Saving, Attempting
  <1>8. XMLVouches' /\ WholeWhenDone'
    BY <1>3 DEF Inv, XMLVouches, WholeWhenDone
  <1> QED BY <1>4, <1>5, <1>6, <1>7, <1>8 DEF Inv

LEMMA CrashInv == ASSUME Inv, Crash, UNCHANGED type PROVE Inv'
  <1> USE DEF Crash, Fault, disk
  <1>1. TypeOK'
    BY ParametersAssumption DEF Inv, TypeOK
  <1>2. Shape'
    BY DEF Inv, Shape, Installer, Saving
  <1>3. Outcome' /\ Vouched' /\ XMLVouches' /\ WholeWhenDone'
    BY DEF Inv, Outcome, Vouched, XMLVouches, WholeWhenDone, Busy, Saving, Attempting
  <1> QED BY <1>1, <1>2, <1>3 DEF Inv

LEMMA StartInv == ASSUME Inv, Start, UNCHANGED type PROVE Inv'
  <1> USE DEF Start, disk
  <1>1. TypeOK'
    BY Known, ParametersAssumption DEF Inv, TypeOK
  <1>2. Shape'
    BY ParametersAssumption DEF Inv, Shape, Installer, Saving
  <1>3. Outcome' /\ Vouched' /\ XMLVouches' /\ WholeWhenDone'
    BY DEF Inv, Outcome, Vouched, XMLVouches, WholeWhenDone, Busy, Saving, Attempting
  <1> QED BY <1>1, <1>2, <1>3 DEF Inv

LEMMA DownlinkInv ==
  ASSUME Inv, NEW ok \in BOOLEAN, Downlink(ok), UNCHANGED type PROVE Inv'
  <1> USE DEF Downlink, Fault, disk
  <1>1. TypeOK'
    <2>1. pin' \in 1 .. server /\ server' = server
      BY Known
    <2>2. faults' \in 0 .. MaxFaults
      BY ParametersAssumption DEF Inv, TypeOK
    <2>3. pc' \in {"compare", "idle"}
      OBVIOUS
    <2> QED BY <2>1, <2>2, <2>3 DEF Inv, TypeOK
  <1>2. Shape'
    BY DEF Inv, Shape, Installer, Saving
  <1>3. Outcome'
    BY DEF Inv, Outcome, Saving
  <1>4. Vouched'
    BY DEF Inv, Vouched, XMLVouches, Installer, Busy, Saving, Attempting
  <1>5. XMLVouches' /\ WholeWhenDone'
    BY DEF Inv, Outcome, XMLVouches, WholeWhenDone
  <1> QED BY <1>1, <1>2, <1>3, <1>4, <1>5 DEF Inv

LEMMA OpenXMLInv == ASSUME Inv, OpenXML, UNCHANGED type PROVE Inv'
  <1> USE DEF OpenXML, run
  <1>1. xml' = BadXML /\ \A c : xml' # XMLOf(c)
    BY XMLFacts
  <1>2. TypeOK'
    BY XMLFacts DEF Inv, TypeOK
  <1>3. Shape'
    BY <1>1 DEF Inv, Shape, Installer, Saving
  <1>4. Outcome'
    BY DEF Inv, Outcome, Saving
  <1>5. Vouched'
    BY <1>1 DEF Inv, Vouched, Installer, Busy, Saving, Attempting
  <1>6. XMLVouches' /\ WholeWhenDone'
    BY <1>1, XMLFacts DEF XMLVouches, WholeWhenDone
  <1> QED BY <1>2, <1>3, <1>4, <1>5, <1>6 DEF Inv

LEMMA OpenXMLFailsInv == ASSUME Inv, OpenXMLFails, UNCHANGED type PROVE Inv'
  <1> USE DEF OpenXMLFails, Fault, disk
  <1>1. TypeOK'
    BY ParametersAssumption DEF Inv, TypeOK
  <1>2. Shape'
    BY DEF Inv, Shape, Installer, Saving
  <1>3. Outcome'
    BY DEF Inv, Outcome, Shape, Saving, Retryable
  <1>4. Vouched'
    BY DEF Inv, Vouched, Shape, Installer, Busy, Saving, Attempting
  <1>5. XMLVouches'
    BY DEF Inv, XMLVouches
  <1>6. WholeWhenDone'
    BY DEF Inv, Outcome, Shape, Saving, WholeWhenDone
  <1> QED BY <1>1, <1>2, <1>3, <1>4, <1>5, <1>6 DEF Inv

\* The XML file is complete: it describes the version of the run, or what has
\* been downloaded without an XML file of the server.
LEMMA FillXMLInv == ASSUME Inv, FillXML, UNCHANGED type PROVE Inv'
  <1> USE DEF FillXML, run
  <1>1. CASE pc = "fillXML"
    <2>1. /\ xml' = XMLOf(Full(pin)) /\ xml'.kind = "ok" /\ xml'.of = Full(pin)
          /\ \A c : xml' = XMLOf(c) => c = Full(pin)
      BY <1>1, XMLFacts
    <2>2. Installer /\ Prefix(content, Full(pin)) /\ result \in {"skip", "recv"}
      BY <1>1 DEF Inv, Shape, Vouched, Outcome, Saving
    <2>3. xml' = XMLOf(Full(server)) => pin = server
      BY <2>1, Known
    <2>4. TypeOK'
      BY <1>1, <2>1 DEF Inv, TypeOK
    <2>5. Shape'
      BY <1>1, <2>1, Known DEF Inv, Shape, Installer, Saving
    <2>6. Outcome'
      BY <1>1, <2>2 DEF Inv, Outcome, Saving, Retryable
    <2>7. Vouched'
      BY <1>1, <2>1, <2>2, <2>3 DEF Inv, Vouched, Installer, Busy, Saving, Attempting
    <2>8. XMLVouches' /\ WholeWhenDone'
      BY <1>1, <2>1, <2>2, <2>3 DEF Inv, Outcome, Saving, XMLVouches, WholeWhenDone
    <2> QED BY <2>4, <2>5, <2>6, <2>7, <2>8 DEF Inv
  <1>2. CASE pc = "describe"
    <2>1. /\ xml' = XMLOf(content) /\ xml'.kind = "ok" /\ xml'.of = content
          /\ \A c : xml' = XMLOf(c) => c = content
          /\ pc' = "idle"
      BY <1>2, XMLFacts
    <2>2. ~fetched
      BY <1>2 DEF Inv, Shape
    <2>3. TypeOK'
      BY <2>1 DEF Inv, TypeOK
    <2>4. Shape'
      BY <2>1, Known DEF Inv, Shape, Installer, Saving
    <2>5. Outcome' /\ Vouched' /\ WholeWhenDone'
      BY <2>1, <2>2 DEF Inv, Outcome, Vouched, WholeWhenDone, Busy, Saving, Attempting
    <2>6. XMLVouches'
      <3>1. Prefix(Full(server), Full(server))
        BY Known, TrivialPrefix
      <3> QED BY <2>1, <3>1 DEF XMLVouches
    <2> QED BY <2>3, <2>4, <2>5, <2>6 DEF Inv
  <1> QED BY <1>1, <1>2

\* An attempt goes on where the file ends, or starts a new file.
LEMMA OpenInv == ASSUME Inv, Open, UNCHANGED type PROVE Inv'
  <1> USE DEF Open
  <1>1. /\ Len(content) \in Nat /\ Len(<<>>) = 0
        /\ content' \in {content, <<>>}
        /\ content' \in Seq(1 .. server) /\ content' \in Seq(Versions)
        /\ start' \in Nat /\ start' <= Len(content')
    <2>1. /\ content \in Seq(1 .. server) /\ content \in Seq(Versions)
          /\ Len(content) \in Nat
      BY Known DEF Inv, TypeOK
    <2>2. <<>> \in Seq(1 .. server) /\ <<>> \in Seq(Versions) /\ Len(<<>>) = 0
      OBVIOUS
    <2>3. \/ content' = content /\ start' = Len(content)
          \/ content' = <<>> /\ start' = 0
      OBVIOUS
    <2>4. CASE content' = content /\ start' = Len(content)
      BY <2>4, <2>1, <2>2
    <2>5. CASE content' = <<>> /\ start' = 0
      <3>1. Len(content') = 0 /\ content' \in Seq(1 .. server)
            /\ content' \in Seq(Versions)
        BY <2>5, <2>2
      <3> QED BY <3>1, <2>5, <2>1, <2>2
    <2> QED BY <2>3, <2>4, <2>5
  <1>2. Prefix(<<>>, Full(pin)) /\ Prefix(<<>>, Full(server))
    BY Known, TrivialPrefix
  <1>3. result \in Retryable
    BY DEF Inv, Outcome
  <1>4. TypeOK'
    BY <1>1 DEF Inv, TypeOK
  <1>5. Shape'
    BY <1>1 DEF Inv, Shape, Installer, Saving
  <1>6. Outcome'
    BY <1>3 DEF Inv, Outcome, Saving
  <1>7. Vouched'
    BY <1>1, <1>2 DEF Inv, Vouched, Installer, Busy, Saving, Attempting
  <1>8. XMLVouches' /\ WholeWhenDone'
    BY <1>1, <1>2, <1>3 DEF Inv, XMLVouches, WholeWhenDone, Retryable
  <1> QED BY <1>4, <1>5, <1>6, <1>7, <1>8 DEF Inv

LEMMA OpenFailsInv == ASSUME Inv, OpenFails, UNCHANGED type PROVE Inv'
  <1> USE DEF OpenFails, Fault, disk, run
  <1>1. TypeOK'
    BY ParametersAssumption DEF Inv, TypeOK
  <1>2. Shape'
    BY DEF Inv, Shape, Installer, Saving
  <1>3. Outcome'
    BY DEF Inv, Outcome, Saving, Results, Errors
  <1>4. Vouched'
    BY DEF Inv, Vouched, Installer, Busy, Saving, Attempting
  <1>5. XMLVouches' /\ WholeWhenDone'
    BY DEF Inv, XMLVouches, WholeWhenDone
  <1> QED BY <1>1, <1>2, <1>3, <1>4, <1>5 DEF Inv

\* A block arrives: a beginning of the version stays one.
LEMMA ReceiveInv == ASSUME Inv, Receive, UNCHANGED type PROVE Inv'
  <1> USE DEF Receive, run
  <1>1. /\ content' = Append(content, pin) /\ Len(content') = Len(content) + 1
        /\ Len(content) \in Nat
        /\ content' \in Seq(1 .. server) /\ content' \in Seq(Versions)
    <2>1. /\ content \in Seq(1 .. server) /\ content \in Seq(Versions)
          /\ pin \in 1 .. server /\ pin \in Versions
      BY Known DEF Inv, TypeOK
    <2> QED BY <2>1
  <1>2. Prefix(content, Full(pin)) => Prefix(content', Full(pin))
    <2>1. /\ pin \in Versions /\ pin \in 1 .. server /\ content \in Seq(1 .. server)
          /\ Len(content) < SizeOf[pin]
      BY Known
    <2> QED BY <2>1, <1>1, LongerPrefix
  <1>3. result \in Retryable /\ exists /\ start <= Len(content) /\ start \in Nat
    BY DEF Inv, Outcome, Shape, TypeOK
  <1>4. TypeOK'
    BY <1>1, <1>3 DEF Inv, TypeOK
  <1>5. Shape'
    BY <1>1, <1>3 DEF Inv, Shape, Installer, Saving
  <1>6. Outcome'
    BY DEF Inv, Outcome, Saving
  <1>7. Vouched'
    BY <1>2 DEF Inv, Vouched, Installer, Busy, Saving, Attempting
  <1>8. XMLVouches'
    BY <1>2 DEF Inv, Vouched, Busy, XMLVouches, Installer
  <1>9. WholeWhenDone'
    BY <1>3 DEF WholeWhenDone, Retryable
  <1> QED BY <1>4, <1>5, <1>6, <1>7, <1>8, <1>9 DEF Inv

\* A file that ends well is as long as the version, and a beginning of it.
LEMMA EndAttemptInv ==
  ASSUME Inv, NEW r \in Results, EndAttempt(r), UNCHANGED type PROVE Inv'
  <1> USE DEF EndAttempt, Fault, disk
  <1>1. tries <= Retries /\ tries \in 0 .. Retries + 1
    BY DEF Inv, Shape, TypeOK
  <1>2. TypeOK'
    BY <1>1, ParametersAssumption DEF Inv, TypeOK
  <1>3. Shape'
    BY <1>1, ParametersAssumption DEF Inv, Shape, Installer, Saving, Retried, TypeOK
  <1>4. Outcome'
    BY DEF Inv, Shape, Outcome, Saving, Retried
  <1>5. Vouched' /\ XMLVouches'
    BY DEF Inv, Vouched, XMLVouches, Installer, Busy, Saving, Attempting
  <1>6. WholeWhenDone'
    <2> SUFFICES ASSUME r \in {"ok", "range"}, fetched, xml.kind = "ok"
                 PROVE  content = Full(pin)
      BY DEF WholeWhenDone, Results, Errors, Retryable
    <2>1. xml # BadXML
      BY XMLFacts
    <2>2. Prefix(content, Full(pin))
      BY <2>1 DEF Inv, Vouched, Attempting
    <2>3. Good(r)
      BY DEF Errors, Retryable
    <2>4. start \in Nat /\ start <= Len(content)
      BY DEF Inv, TypeOK, Shape
    <2>5. Len(content) >= SizeOf[pin]
      BY <2>3, <2>4, Known DEF Good
    <2> QED BY <2>2, <2>5, Known, WholePrefix
  <1> QED BY <1>2, <1>3, <1>4, <1>5, <1>6 DEF Inv

\* A file that is deleted leaves nothing, a beginning of everything.
LEMMA SettleInv == ASSUME Inv, Settle, UNCHANGED type PROVE Inv'
  <1> USE DEF Settle, run
  <1>1. /\ content' \in {content, <<>>} /\ exists' \in BOOLEAN
        /\ content' \in Seq(1 .. server)
        /\ ~exists' => content' = <<>>
        /\ content' # content => ~Success
        /\ pc' \in {"idle", "createXML"}
    <2>1. /\ content \in Seq(1 .. server) /\ exists \in BOOLEAN
          /\ ~exists => content = <<>>
      BY DEF Inv, TypeOK, Shape
    <2>2. <<>> \in Seq(1 .. server)
      OBVIOUS
    <2>3. content' \in {content, <<>>}
      OBVIOUS
    <2> QED BY <2>1, <2>2, <2>3
  <1>2. Prefix(<<>>, Full(pin)) /\ Prefix(<<>>, Full(server))
    BY Known, TrivialPrefix
  <1>3. TypeOK'
    BY <1>1 DEF Inv, TypeOK
  <1>4. Shape'
    <2>1. pc' = "createXML" => ~fetched'
      BY ParametersAssumption DEF Inv, TypeOK, Shape, Installer
    <2> QED BY <1>1, <2>1 DEF Inv, Shape, Installer, Saving
  <1>5. Outcome'
    BY <1>1 DEF Outcome, Saving
  <1>6. Vouched'
    BY <1>1, <1>2 DEF Inv, Vouched, Installer, Busy, Saving, Attempting
  <1>7. XMLVouches'
    BY <1>1, <1>2 DEF Inv, XMLVouches
  <1>8. WholeWhenDone'
    BY <1>1 DEF Inv, Outcome, WholeWhenDone, Success, Results, Errors, Retryable
  <1> QED BY <1>3, <1>4, <1>5, <1>6, <1>7, <1>8 DEF Inv

\* What the comparison of an installer with the remote XML's hash means: the
\* local XML file, or the file without one, is of the version of the run --
\* unless the XML file is cut short.
LEMMA SameMeans ==
  ASSUME Inv, NoSizeOnly, Installer, NEW compare, Same(TRUE, compare)
  PROVE  /\ xml \in {NoXML, BadXML, XMLOf(Full(pin))}
         /\ xml = NoXML /\ exists => content = Full(pin)
  <1>1. ~opt.sizeOnly
    BY DEF Inv, TypeOK, NoSizeOnly
  <1>2. LocalHash \subseteq {Full(pin)}
    BY <1>1 DEF Same, SameInstaller, Installer
  <1>3. CASE xml = NoXML
    <2>1. LocalHash = IF exists THEN {content} ELSE {}
      BY <1>3, XMLFacts DEF LocalHash
    <2> QED BY <2>1, <1>2, <1>3
  <1>4. CASE xml = BadXML
    BY <1>4, XMLFacts
  <1>5. CASE xml = XMLOf(xml.of)
    <2>1. xml.kind = "ok"
      BY <1>5, XMLFacts
    <2>2. LocalHash = {xml.of}
      BY <2>1 DEF LocalHash
    <2>3. xml # NoXML
      BY <2>1, XMLFacts
    <2> QED BY <2>2, <2>3, <1>2, <1>5
  <1> QED BY <1>3, <1>4, <1>5 DEF Inv, Shape

\* A complete installer has the size and the hash of the version of the run.
LEMMA CompleteMeans ==
  ASSUME Inv, Installer, NEW got \in BOOLEAN, NEW compare, Complete(got, compare)
  PROVE  got /\ Same(TRUE, compare) /\ exists /\ Len(content) = SizeOf[pin]
  BY DEF Complete, Installer

\* The file is renamed, or stays and is complete, resumed or left.
LEMMA CompareInv ==
  ASSUME Inv, NoSizeOnly, NEW got \in BOOLEAN, NEW compare, Compare(got, compare),
         UNCHANGED type
  PROVE  Inv'
  <1>1. /\ pc = "compare" /\ fetched' = got /\ same' = Same(got, compare)
        /\ resume' = (exists /\ same' /\ ~Complete(got, compare))
        /\ result' = IF Complete(got, compare) THEN "skip" ELSE "recv"
        /\ pc' = IF SavesXML(got, same') THEN "saveXML"
                 ELSE IF Complete(got, compare) THEN "idle" ELSE "open"
        /\ UNCHANGED <<type, server, xml, opt, listed, pin, hadXML, tries, start>>
        /\ got => Installer
        /\ faults' \in 0 .. MaxFaults
    BY ParametersAssumption DEF Compare, Fault, Inv, TypeOK, WantsXML, Installer
  <1>2. \/ content' = content /\ exists' = exists /\ ~Differs(got, compare)
        \/ content' = <<>> /\ exists' = FALSE /\ Differs(got, compare)
    BY DEF Compare
  <1>3. Complete(got, compare) => content' = content
    BY <1>2 DEF Differs
  <1>4. got => /\ hadXML = (xml # NoXML)
               /\ Same(got, compare) =>
                    /\ xml \in {NoXML, BadXML, XMLOf(Full(pin))}
                    /\ xml = NoXML /\ exists => content = Full(pin)
               /\ Complete(got, compare) =>
                    Same(got, compare) /\ exists /\ Len(content) = SizeOf[pin]
    <2> SUFFICES ASSUME got PROVE <1>4!2
      OBVIOUS
    <2>1. Installer /\ got = TRUE
      BY <1>1
    <2>2. hadXML = (xml # NoXML)
      <3>1. hadXML = (xml.kind # "none")
        BY <1>1 DEF Inv, Shape
      <3>2. xml = NoXML \/ xml = BadXML \/ xml = XMLOf(xml.of)
        BY DEF Inv, Shape
      <3> QED BY <3>1, <3>2, XMLFacts
    <2>3. Complete(got, compare) =>
            Same(got, compare) /\ exists /\ Len(content) = SizeOf[pin]
      BY <2>1, CompleteMeans
    <2> QED BY <2>1, <2>2, <2>3, SameMeans
  <1>5. Prefix(<<>>, Full(pin)) /\ Prefix(<<>>, Full(server)) /\ Prefix(Full(pin), Full(pin))
    BY Known, TrivialPrefix
  <1>6. pc' = "saveXML" => got /\ (hadXML => ~Same(got, compare))
    BY <1>1 DEF SavesXML
  <1>7. got /\ pc' = "open" => hadXML /\ Same(got, compare) /\ ~Complete(got, compare)
    BY <1>1 DEF SavesXML
  <1>8. content' \in Seq(1 .. server) /\ content' \in Seq(Versions)
        /\ (~exists' => content' = <<>>) /\ exists' \in BOOLEAN
    <2>1. /\ content \in Seq(1 .. server) /\ content \in Seq(Versions)
          /\ (~exists => content = <<>>) /\ exists \in BOOLEAN
      BY DEF Inv, TypeOK, Shape
    <2>2. <<>> \in Seq(1 .. server) /\ <<>> \in Seq(Versions)
      OBVIOUS
    <2> QED BY <2>1, <2>2, <1>2
  <1>9. TypeOK'
    <2>1. /\ pc' \in {"saveXML", "idle", "open"}
          /\ result' \in Results \union {"none", "skip"}
      BY <1>1 DEF Results, Errors, Retryable
    <2> QED BY <1>1, <1>8, <2>1 DEF Inv, TypeOK
  <1>10. Shape'
    BY <1>1, <1>6, <1>8 DEF Inv, Shape, Installer, Saving
  <1>11. Outcome'
    <2>1. pc' \in {"saveXML", "idle", "open"} /\ result' \in {"skip", "recv"}
      BY <1>1
    <2>2. pc' = "open" => result' = "recv"
      BY <1>1
    <2>3. pc' = "saveXML" /\ result' = "skip" => content' = Full(pin)
      BY <1>1, <1>3, <1>4, <1>6
    <2>4. result' # "skip" /\ fetched' /\ exists' => resume'
      BY <1>1, <1>2 DEF Differs
    <2> QED BY <1>1, <2>1, <2>2, <2>3, <2>4 DEF Outcome, Saving, Retryable
  <1>12. Vouched'
    <2>1. xml = XMLOf(Full(server)) => pin = server
      BY <1>1 DEF Inv, Vouched, Busy
    <2>2. Installer /\ xml = XMLOf(Full(pin)) => Prefix(content', Full(pin))
      BY <1>1, <1>2, <1>5 DEF Inv, Vouched, Busy
    <2>3. pc' = "saveXML" => Prefix(content', Full(pin))
      <3> SUFFICES ASSUME pc' = "saveXML", content' = content, ~Differs(got, compare)
                   PROVE  Prefix(content', Full(pin))
        BY <1>2, <1>5
      <3>1. CASE ~exists
        BY <3>1, <1>5 DEF Inv, TypeOK
      <3>2. CASE exists
        <4>1. Same(got, compare)
          BY <3>2, <1>4, <1>6 DEF Differs
        <4> QED BY <4>1, <3>2, <1>4, <1>5, <1>6
      <3> QED BY <3>1, <3>2
    <2>4. fetched' /\ pc' = "open" => xml = BadXML \/ Prefix(content', Full(pin))
      <3> SUFFICES ASSUME got, pc' = "open", xml # BadXML PROVE Prefix(content', Full(pin))
        BY <1>1
      <3>1. xml = XMLOf(Full(pin)) /\ Installer
        BY <1>1, <1>4, <1>7
      <3> QED BY <2>2, <3>1
    <2>5. pc' \in {"saveXML", "idle", "open"}
      BY <1>1
    <2> QED BY <1>1, <2>1, <2>2, <2>3, <2>4, <2>5
            DEF Vouched, Installer, Busy, Saving, Attempting
  <1>13. XMLVouches'
    BY <1>1, <1>2, <1>5 DEF Inv, XMLVouches
  <1>14. WholeWhenDone'
    <2> SUFFICES ASSUME Complete(got, compare), got, xml.kind = "ok"
                 PROVE  content = Full(pin)
      BY <1>1, <1>3 DEF WholeWhenDone
    <2>1. xml = XMLOf(Full(pin)) /\ Len(content) = SizeOf[pin]
      BY <1>4, XMLFacts
    <2>2. Prefix(content, Full(pin))
      BY <1>1, <2>1 DEF Inv, Vouched, Busy
    <2>3. Len(content) >= SizeOf[pin]
      BY <2>1, Known
    <2> QED BY <2>2, <2>3, Known, WholePrefix
  <1> QED BY <1>9, <1>10, <1>11, <1>12, <1>13, <1>14 DEF Inv

LEMMA RenameFailsInv ==
  ASSUME Inv, NEW got \in BOOLEAN, NEW compare, RenameFails(got, compare),
         UNCHANGED type
  PROVE  Inv'
  <1> USE DEF RenameFails, Fault, disk
  <1>1. result = "none" /\ (got => Installer)
    BY DEF Inv, Outcome, WantsXML, Installer
  <1>2. TypeOK'
    BY ParametersAssumption DEF Inv, TypeOK
  <1>3. Shape'
    BY <1>1 DEF Inv, Shape, Installer, Saving
  <1>4. Outcome' /\ Vouched' /\ XMLVouches' /\ WholeWhenDone'
    BY <1>1 DEF Inv, Outcome, Vouched, XMLVouches, WholeWhenDone, Busy, Saving,
                Attempting
  <1> QED BY <1>2, <1>3, <1>4 DEF Inv

\* Every step keeps the invariant.
LEMMA NextInv == ASSUME NoSizeOnly, Inv, [Next]_vars PROVE Inv'
  <1>1. CASE Next
    <2> USE <1>1
    <2>0. UNCHANGED type /\ (Publish \/ Crash \/ Run)
      BY DEF Next
    <2>1. CASE Publish
      BY <2>0, <2>1, PublishInv
    <2>2. CASE Crash
      BY <2>0, <2>2, CrashInv
    <2>3. CASE Run
      <3>1. CASE Start
        BY <2>0, <3>1, StartInv
      <3>2. CASE \E ok \in BOOLEAN : Downlink(ok)
        BY <2>0, <3>2, DownlinkInv
      <3>3. CASE \E got \in BOOLEAN, compare \in CompareSizes : Compare(got, compare)
        BY <2>0, <3>3, CompareInv
      <3>4. CASE \E got \in BOOLEAN, compare \in CompareSizes : RenameFails(got, compare)
        BY <2>0, <3>4, RenameFailsInv
      <3>5. CASE OpenXML
        BY <2>0, <3>5, OpenXMLInv
      <3>6. CASE FillXML
        BY <2>0, <3>6, FillXMLInv
      <3>12. CASE OpenXMLFails
        BY <2>0, <3>12, OpenXMLFailsInv
      <3>7. CASE Open
        BY <2>0, <3>7, OpenInv
      <3>8. CASE OpenFails
        BY <2>0, <3>8, OpenFailsInv
      <3>9. CASE Receive
        BY <2>0, <3>9, ReceiveInv
      <3>10. CASE \E r \in Results : EndAttempt(r)
        BY <2>0, <3>10, EndAttemptInv
      <3>11. CASE Settle
        BY <2>0, <3>11, SettleInv
      <3> QED BY <2>3, <3>1, <3>2, <3>3, <3>4, <3>5, <3>6, <3>7, <3>8, <3>9, <3>10,
                 <3>11, <3>12 DEF Run
    <2> QED BY <2>0, <2>1, <2>2, <2>3
  <1>2. CASE UNCHANGED vars
    <2>1. TypeOK' /\ Shape'
      BY <1>2 DEF vars, disk, run, Inv, TypeOK, Shape, Installer, Saving
    <2>2. Outcome' /\ Vouched'
      BY <1>2 DEF vars, disk, run, Inv, Outcome, Vouched, Installer, Saving, Busy,
                  Attempting
    <2>3. XMLVouches' /\ WholeWhenDone'
      BY <1>2 DEF vars, disk, run, Inv, XMLVouches, WholeWhenDone
    <2> QED BY <2>1, <2>2, <2>3 DEF Inv
  <1> QED BY <1>1, <1>2

--------------------------------------------------------------------------------
(* Theorems *)

\* The invariant holds in every state, if no run has --size-only.
THEOREM Invariance == ASSUME NoSizeOnly PROVE Spec => []Inv
  <1>1. Init => Inv
    BY InitInv
  <1>2. Inv /\ [Next]_vars => Inv'
    BY NextInv
  <1> QED BY <1>1, <1>2, PTL DEF Spec

\* The variables keep their types.
THEOREM TypeCorrect == ASSUME NoSizeOnly PROVE Spec => []TypeOK
  <1>1. Inv => TypeOK
    BY DEF Inv
  <1> QED BY <1>1, Invariance, PTL

\* A local XML file of the server's version vouches for the local file.
THEOREM VouchedCorrect == ASSUME NoSizeOnly PROVE Spec => []XMLVouches
  <1>1. Inv => XMLVouches
    BY DEF Inv
  <1> QED BY <1>1, Invariance, PTL

\* What a run that had the remote XML says is downloaded or complete is the
\* version the XML describes.
THEOREM WholeCorrect == ASSUME NoSizeOnly PROVE Spec => []WholeWhenDone
  <1>1. Inv => WholeWhenDone
    BY DEF Inv
  <1> QED BY <1>1, Invariance, PTL

\* What the status check calls fine is the server's version: the XML file
\* vouches for the beginning, its size for the end.
THEOREM StatusCorrect == ASSUME NoSizeOnly PROVE Spec => []StatusSound
  <1>1. Inv => StatusSound
    <2> SUFFICES ASSUME Inv, NEW remote \in RemoteHashes \ {{}},
                        NEW fastCheck \in BOOLEAN,
                        Status(remote, fastCheck, FALSE) = "OK"
                 PROVE  content = Full(server)
      BY DEF StatusSound
    <2>1. remote = {Full(server)} /\ Installer
      BY DEF RemoteHashes, Installer
    <2>2. remote = CheckedHash(fastCheck) /\ ~SizeDiffers
      BY <2>1 DEF Status
    <2>3. CASE fastCheck /\ xml.kind # "none"
      <3>1. xml.kind = "ok" /\ xml.of = Full(server)
        BY <2>1, <2>2, <2>3 DEF CheckedHash
      <3>2. xml = XMLOf(Full(server))
        BY <3>1, XMLFacts DEF Inv, Shape
      <3>3. Prefix(content, Full(server))
        BY <3>2, <2>1 DEF Inv, XMLVouches, Installer
      <3>4. Len(content) = Len(Full(server))
        BY <3>1, <2>2, Known DEF SizeDiffers
      <3>5. Len(content) >= SizeOf[server]
        BY <3>4, Known
      <3> QED BY <3>3, <3>5, Known, WholePrefix
    <2>4. CASE ~(fastCheck /\ xml.kind # "none")
      BY <2>1, <2>2, <2>4 DEF CheckedHash
    <2> QED BY <2>3, <2>4
  <1> QED BY <1>1, Invariance, PTL

\* A run that had the remote XML never destroys a complete file of another
\* version: whatever it writes over is a beginning of its own version, or has
\* been renamed.
THEOREM OldVersionCorrect == ASSUME NoSizeOnly PROVE Spec => OldVersionKept
  <1> DEFINE Kept ==
        \A v \in Versions \ {pin'} :
          /\ exists /\ content = Full(v)
          /\ content' # content
          /\ fetched' /\ xml.kind # "bad"
          => content \in old'
  <1>1. ASSUME Inv, [Next]_vars PROVE Kept
    <2> SUFFICES ASSUME NEW v \in Versions \ {pin'}, exists, content = Full(v),
                        content' # content, fetched', xml.kind # "bad"
                 PROVE  content \in old'
      OBVIOUS
    <2>1. \/ \E got \in BOOLEAN, compare \in CompareSizes : Compare(got, compare)
          \/ Open \/ Receive \/ Settle
      BY <1>1 DEF Next, Run, Publish, Crash, Start, Downlink, RenameFails, OpenXML,
                  OpenXMLFails, FillXML, OpenFails, EndAttempt, vars, disk, run
    <2>2. ASSUME pc \in {"receiving", "ended"}, fetched, pin' = pin PROVE FALSE
      <3>1. xml # BadXML
        BY XMLFacts
      <3>2. Prefix(content, Full(pin))
        BY <1>1, <2>2, <3>1 DEF Inv, Vouched, Attempting
      <3>3. Full(v)[1] = v /\ 1 \in DOMAIN Full(v)
        BY FullFacts
      <3>4. Full(v)[1] = Full(pin)[1]
        BY <3>2, <3>3 DEF Prefix
      <3>5. Full(pin)[1] = pin
        BY <1>1, Known, FullFacts
      <3> QED BY <3>3, <3>4, <3>5, <2>2
    <2>3. CASE \E got \in BOOLEAN, compare \in CompareSizes : Compare(got, compare)
      BY <2>3 DEF Compare
    <2>4. CASE Open
      <3>1. resume
        BY <1>1, <2>4 DEF Open, Inv, Outcome, Saving, Retryable
      <3> QED BY <2>4, <3>1 DEF Open
    <2>5. CASE Receive
      BY <2>5, <2>2 DEF Receive, run
    <2>6. CASE Settle
      BY <2>6, <2>2 DEF Settle, run
    <2> QED BY <2>1, <2>3, <2>4, <2>5, <2>6
  <1>2. Inv /\ [Next]_vars => [Kept]_vars
    BY <1>1
  <1>3. Spec => [][Kept]_vars
    BY <1>2, Invariance, PTL DEF Spec
  <1> QED BY <1>3, PTL DEF OldVersionKept

--------------------------------------------------------------------------------
(* Extras *)

LastOf(c) == c[Len(c)]

\* The file of an extra whose XML file describes something longer has been begun
\* after that: its blocks are of the last version described, or later ones.  So
\* a file that becomes what its XML file describes while it is received is of
\* the version of the run, and any other is complete for the comparison.
Described ==
  /\ content \in Seq(1 .. pin)
  /\ xml.kind = "ok" =>
       /\ xml.of # <<>> /\ LastOf(xml.of) <= pin
       /\ Len(content) < Len(xml.of) =>
            \A i \in 1 .. Len(content) : content[i] >= LastOf(xml.of)
  /\ Attempting /\ xml = XMLOf(content) =>
       \A i \in 1 .. Len(content) : content[i] = pin
  /\ pc \in {"createXML", "describe"} => content # <<>>
  /\ pc = "ended" /\ result = "ok" => content # <<>>

ExtraInv == ~Installer => Described

\* Nothing is a content, without blocks.
LEMMA EmptyFacts ==
  ASSUME NEW S
  PROVE  <<>> \in Seq(S) /\ Len(<<>>) = 0 /\ \A i \in 1 .. 0 : FALSE
  OBVIOUS

\* The last block is one of the blocks.
LEMMA LastFacts ==
  ASSUME NEW S, NEW c \in Seq(S), c # <<>>
  PROVE  LastOf(c) \in S /\ Len(c) \in Nat
  <1>1. Len(c) \in 1 .. Len(c)
    OBVIOUS
  <1> QED BY <1>1 DEF LastOf

\* The program begins with nothing on disk.
LEMMA InitExtra == ASSUME Init PROVE ExtraInv
  <1>1. content = <<>> /\ xml.kind = "none" /\ pc = "idle"
    BY XMLFacts DEF Init
  <1>2. Len(content) = 0 /\ content \in Seq(1 .. pin)
    BY <1>1, EmptyFacts
  <1> QED BY <1>1, <1>2 DEF ExtraInv, Described, Attempting

\* Steps that leave the disk and the version of the run alone.
LEMMA SameExtraInv ==
  ASSUME Inv, ExtraInv, UNCHANGED <<type, content, xml, pin>>,
         \/ pc' \in {"idle", "downlink", "compare"}
         \/ Attempting /\ pc' = "open"
         \/ Attempting /\ pc' = "ended" /\ (result' = "ok" => content # <<>>)
         \/ pc = "createXML" /\ pc' = "describe"
         \/ pc' = pc /\ result' = result
  PROVE  ExtraInv'
  BY DEF ExtraInv, Described, Attempting, Installer

\* A link that names a later version.
LEMMA DownlinkExtra ==
  ASSUME Inv, ExtraInv, NEW ok \in BOOLEAN, Downlink(ok), UNCHANGED type
  PROVE  ExtraInv'
  <1> SUFFICES ASSUME ~Installer PROVE Described'
    BY DEF ExtraInv, Installer
  <1>1. UNCHANGED <<content, xml>> /\ pc' \in {"idle", "compare"}
    BY DEF Downlink, disk
  <1>2. pin \in Nat /\ pin' \in Nat /\ pin <= pin' /\ 1 .. pin \subseteq 1 .. pin'
    <2>1. server \in Nat /\ pin \in 1 .. server /\ pin' \in {pin, server}
      BY Known DEF Downlink
    <2> QED BY <2>1
  <1>3. Described
    BY DEF ExtraInv
  <1>4. content' \in Seq(1 .. pin')
    BY <1>1, <1>2, <1>3 DEF Described
  <1>5. xml.kind = "ok" => LastOf(xml.of) \in Int
    <2> SUFFICES ASSUME xml.kind = "ok" PROVE LastOf(xml.of) \in Int
      OBVIOUS
    <2>1. xml.of \in Seq(1 .. server) /\ xml.of # <<>>
      BY <1>3, XMLFacts DEF Inv, Shape, Described
    <2>2. LastOf(xml.of) \in 1 .. server
      BY <2>1, LastFacts
    <2> QED BY <2>2, Known
  <1>6. xml.kind = "ok" => LastOf(xml.of) <= pin'
    BY <1>2, <1>3, <1>5 DEF Described
  <1> QED BY <1>1, <1>3, <1>4, <1>6 DEF Described, Attempting

\* Nothing is left of the file.
LEMMA EmptiedExtra ==
  ASSUME ExtraInv, UNCHANGED <<type, xml, pin>>, content' = <<>>,
         pc' \notin {"createXML", "describe"}, pc' = "ended" => result' # "ok"
  PROVE  ExtraInv'
  <1>1. Len(content') = 0 /\ content' \in Seq(1 .. pin')
    BY EmptyFacts
  <1>2. \A i \in 1 .. Len(content') : FALSE
    BY <1>1
  <1> QED BY <1>1, <1>2 DEF ExtraInv, Described, Installer

\* A file that its XML file describes is renamed, or complete.
LEMMA CompareExtra ==
  ASSUME Inv, ExtraInv, NEW got \in BOOLEAN, NEW compare, Compare(got, compare),
         UNCHANGED type
  PROVE  ExtraInv'
  <1> SUFFICES ASSUME ~Installer PROVE Described'
    BY DEF ExtraInv, Installer
  <1>1. type = "extra"
    BY ParametersAssumption DEF Inv, TypeOK, Installer
  <1>2. UNCHANGED <<xml, pin>> /\ pc' \in {"idle", "open"} /\ ~got
    BY <1>1 DEF Compare, SavesXML, WantsXML
  <1>3. CASE content' = <<>>
    BY <1>2, <1>3, EmptiedExtra DEF ExtraInv, Installer
  <1>4. CASE content' # <<>>
    <2>1. UNCHANGED content /\ ~Differs(got, compare)
      BY <1>4 DEF Compare
    <2>2. exists /\ content # <<>>
      BY <1>4, <2>1 DEF Inv, TypeOK
    <2>3. ASSUME pc' = "open", xml = XMLOf(content) PROVE FALSE
      <3>1. ~Complete(got, compare)
        BY <1>2, <2>3 DEF Compare, SavesXML
      <3>2. Len(content) # compare
        BY <3>1, <1>1, <2>2 DEF Complete
      <3>3. LocalAssumedComplete
        BY <2>2, <2>3, XMLFacts DEF LocalAssumedComplete
      <3>4. ~Same(got, compare)
        BY <3>2, <3>3, <1>1, <2>2 DEF Same, SameExtra
      <3> QED BY <3>1, <3>4, <2>1, <2>2 DEF Differs
    <2> QED BY <1>2, <2>1, <2>3 DEF ExtraInv, Described, Attempting
  <1> QED BY <1>3, <1>4

\* An XML file that is opened describes nothing; one that is written describes
\* the file, whose last block is of the version of the run or an earlier one.
LEMMA XMLExtra ==
  ASSUME Inv, ExtraInv, OpenXML \/ FillXML, UNCHANGED type
  PROVE  ExtraInv'
  <1> SUFFICES ASSUME ~Installer PROVE Described'
    BY DEF ExtraInv, Installer
  <1>1. pc \in {"createXML", "describe"}
    BY DEF OpenXML, FillXML, Inv, Shape, Saving
  <1>2. content # <<>> /\ content \in Seq(1 .. pin) /\ pin \in Nat
    BY <1>1, Known DEF ExtraInv, Described
  <1>3. UNCHANGED <<content, pin>> /\ pc' \in {"describe", "idle"}
    BY <1>1 DEF OpenXML, FillXML, run
  <1>4. CASE OpenXML
    <2>1. xml'.kind = "bad"
      BY <1>4, XMLFacts DEF OpenXML
    <2> QED BY <2>1, <1>2, <1>3 DEF Described, Attempting
  <1>5. CASE FillXML
    <2>1. pc' = "idle" /\ xml' = XMLOf(content)
      BY <1>1, <1>5, <1>3 DEF FillXML, Inv, Shape, Saving
    <2>2. xml'.kind = "ok" /\ xml'.of = content
      BY <2>1, XMLFacts
    <2>3. LastOf(content) <= pin
      <3>1. Len(content) \in 1 .. Len(content)
        BY <1>2
      <3> QED BY <3>1, <1>2 DEF LastOf
    <2>4. ~(Len(content) < Len(content))
      BY <1>2
    <2> QED BY <2>1, <2>2, <2>3, <2>4, <1>2, <1>3 DEF Described, Attempting
  <1> QED BY <1>4, <1>5

\* A block that makes the file what its XML file describes is the last one
\* described: then no block is of an earlier version.
LEMMA ReceiveExtra ==
  ASSUME Inv, ExtraInv, Receive, UNCHANGED type PROVE ExtraInv'
  <1> SUFFICES ASSUME ~Installer PROVE Described'
    BY DEF ExtraInv, Installer
  <1>0. Described
    BY DEF ExtraInv
  <1>1. /\ content' = Append(content, pin) /\ UNCHANGED <<xml, pin, pc>>
        /\ pc = "receiving"
    BY DEF Receive, run
  <1>2. content \in Seq(1 .. pin) /\ pin \in 1 .. pin /\ pin \in Nat
    <2>1. pin \in 1 .. server /\ server \in Nat
      BY Known
    <2> QED BY <1>0, <2>1 DEF Described
  <1>3. /\ Len(content') = Len(content) + 1 /\ Len(content) \in Nat
        /\ content' \in Seq(1 .. pin)
        /\ \A i \in 1 .. Len(content) : content'[i] = content[i]
        /\ \A i \in 1 .. Len(content) : content[i] \in 1 .. pin
        /\ content'[Len(content) + 1] = pin
    BY <1>1, <1>2
  <1>4. ASSUME xml.kind = "ok"
        PROVE  /\ LastOf(xml.of) \in Int /\ LastOf(xml.of) <= pin
               /\ Len(xml.of) \in Nat
    <2>1. xml.of \in Seq(1 .. server) /\ xml.of # <<>>
      BY <1>0, <1>4, XMLFacts DEF Inv, Shape, Described
    <2>2. LastOf(xml.of) \in 1 .. server /\ Len(xml.of) \in Nat
      BY <2>1, LastFacts
    <2> QED BY <2>2, <1>0, <1>4, Known DEF Described
  <1>5. ASSUME xml.kind = "ok", Len(content') < Len(xml.of), NEW i \in 1 .. Len(content')
        PROVE  content'[i] >= LastOf(xml.of)
    <2>1. Len(content) < Len(xml.of)
      BY <1>3, <1>4, <1>5
    <2>2. CASE i \in 1 .. Len(content)
      BY <2>1, <2>2, <1>0, <1>3, <1>5 DEF Described
    <2>3. CASE i = Len(content) + 1
      BY <2>3, <1>3, <1>4, <1>5, <1>2
    <2> QED BY <2>2, <2>3, <1>3
  <1>6. ASSUME xml = XMLOf(content'), NEW i \in 1 .. Len(content')
        PROVE  content'[i] = pin
    <2>1. xml.kind = "ok" /\ xml.of = content'
      BY <1>6, XMLFacts
    <2>2. LastOf(xml.of) = pin /\ Len(content) < Len(xml.of)
      BY <2>1, <1>3 DEF LastOf
    <2>3. CASE i \in 1 .. Len(content)
      <3>1. content[i] >= pin
        BY <2>1, <2>2, <2>3, <1>0 DEF Described
      <3> QED BY <3>1, <2>3, <1>2, <1>3
    <2>4. CASE i = Len(content) + 1
      BY <2>4, <1>3
    <2> QED BY <2>3, <2>4, <1>3
  <1>7. xml.kind = "ok" => xml.of # <<>> /\ LastOf(xml.of) <= pin
    BY <1>0 DEF Described
  <1> QED BY <1>1, <1>3, <1>5, <1>6, <1>7 DEF Described

\* A file that ended well is not empty.
LEMMA EndAttemptExtra ==
  ASSUME Inv, ExtraInv, NEW r \in Results, EndAttempt(r), UNCHANGED type
  PROVE  ExtraInv'
  <1>1. /\ UNCHANGED <<content, xml, pin>> /\ pc = "receiving"
        /\ pc' \in {"open", "ended"} /\ result' = r
    BY DEF EndAttempt, disk
  <1>2. r = "ok" => content # <<>>
    <2> SUFFICES ASSUME r = "ok" PROVE content # <<>>
      OBVIOUS
    <2>1. start < SizeOf[pin] /\ Len(content) = SizeOf[pin] /\ start \in Nat
      BY DEF EndAttempt, Good, Errors, Retryable, Inv, TypeOK
    <2>2. Len(content) # 0
      BY <2>1, Known
    <2> QED BY <2>2
  <1> QED BY <1>1, <1>2, SameExtraInv DEF Attempting

\* XML creation is requested for files that ended well.
LEMMA SettleExtra == ASSUME Inv, ExtraInv, Settle, UNCHANGED type PROVE ExtraInv'
  <1>1. /\ UNCHANGED <<xml, pin, result>> /\ pc = "ended"
        /\ pc' \in {"createXML", "idle"} /\ (pc' = "createXML" => result = "ok")
        /\ content' = content \/ (content' = <<>> /\ ~Success)
    BY DEF Settle, run
  <1>2. CASE pc' = "createXML"
    <2>1. content' = content /\ result = "ok"
      BY <1>1, <1>2 DEF Success
    <2> QED BY <2>1, <1>1, <1>2 DEF ExtraInv, Described, Attempting, Installer
  <1>3. CASE pc' = "idle" /\ content' = content
    BY <1>1, <1>3, SameExtraInv
  <1>4. CASE pc' = "idle" /\ content' = <<>>
    BY <1>1, <1>4, EmptiedExtra
  <1> QED BY <1>1, <1>2, <1>3, <1>4

\* Every step keeps the invariant of extras.
LEMMA NextExtra == ASSUME Inv, ExtraInv, [Next]_vars PROVE ExtraInv'
  <1>1. CASE UNCHANGED vars
    BY <1>1, SameExtraInv DEF vars, disk, run
  <1>2. CASE Next
    <2>0. UNCHANGED type /\ (Publish \/ Crash \/ Run)
      BY <1>2 DEF Next
    <2>1. CASE Publish \/ Crash \/ Start
      BY <2>0, <2>1, SameExtraInv DEF Publish, Crash, Start, disk, run
    <2>2. CASE \E ok \in BOOLEAN : Downlink(ok)
      BY <2>0, <2>2, DownlinkExtra
    <2>3. CASE \E got \in BOOLEAN, compare \in CompareSizes : Compare(got, compare)
      BY <2>0, <2>3, CompareExtra
    <2>4. CASE \E got \in BOOLEAN, compare \in CompareSizes : RenameFails(got, compare)
      BY <2>0, <2>4, SameExtraInv DEF RenameFails, disk
    <2>5. CASE OpenXML \/ FillXML
      BY <2>0, <2>5, XMLExtra
    <2>11. CASE OpenXMLFails
      <3>1. CASE Installer
        BY <2>0, <3>1 DEF ExtraInv, Installer
      <3>2. CASE ~Installer
        <4>1. pc' = "idle"
          BY <2>11, <3>2 DEF OpenXMLFails, Inv, Shape, Saving
        <4> QED BY <2>0, <2>11, <4>1, SameExtraInv DEF OpenXMLFails, disk
      <3> QED BY <3>1, <3>2
    <2>6. CASE Open
      <3>1. CASE resume
        BY <2>0, <2>6, <3>1 DEF Open, ExtraInv, Described, Attempting, Installer
      <3>2. CASE ~resume
        BY <2>0, <2>6, <3>2, EmptiedExtra DEF Open
      <3> QED BY <3>1, <3>2
    <2>7. CASE OpenFails
      <3>1. result # "ok"
        BY <2>7 DEF OpenFails, Inv, Outcome, Retryable
      <3> QED BY <3>1, <2>0, <2>7, SameExtraInv DEF OpenFails, disk, run, Attempting
    <2>8. CASE Receive
      BY <2>0, <2>8, ReceiveExtra
    <2>9. CASE \E r \in Results : EndAttempt(r)
      BY <2>0, <2>9, EndAttemptExtra
    <2>10. CASE Settle
      BY <2>0, <2>10, SettleExtra
    <2> QED BY <2>0, <2>1, <2>2, <2>3, <2>4, <2>5, <2>6, <2>7, <2>8, <2>9, <2>10,
               <2>11 DEF Run
  <1> QED BY <1>1, <1>2

\* The invariant of extras holds in every state.
LEMMA ExtraInvariance == ASSUME NoSizeOnly PROVE Spec => []ExtraInv
  <1>1. Init => ExtraInv
    BY InitExtra
  <1>2. Inv /\ ExtraInv /\ [Next]_vars => ExtraInv'
    BY NextExtra
  <1> QED BY <1>1, <1>2, Invariance, PTL DEF Spec

\* An extra that its XML file describes is replaced only by renaming it: it is
\* never written over, resumed or deleted, also when it was itself put together
\* from several versions and the size it is compared with is that of a failed
\* request.
THEOREM DescribedExtraCorrect == ASSUME NoSizeOnly PROVE Spec => DescribedExtraKept
  <1> DEFINE Kept ==
        /\ type = "extra" /\ exists /\ xml = XMLOf(content)
        /\ content # <<>> /\ \E i \in DOMAIN content : content[i] # pin'
        /\ content' # content
        => content \in old'
  <1>1. ASSUME Inv, ExtraInv, [Next]_vars PROVE Kept
    <2> SUFFICES ASSUME type = "extra", xml = XMLOf(content),
                        NEW i \in DOMAIN content, content[i] # pin', content' # content
                 PROVE  content \in old'
      OBVIOUS
    <2>1. \/ \E got \in BOOLEAN, compare \in CompareSizes : Compare(got, compare)
          \/ Open \/ Receive \/ Settle
      BY <1>1 DEF Next, Run, Publish, Crash, Start, Downlink, RenameFails, OpenXML,
                  OpenXMLFails, FillXML, OpenFails, EndAttempt, vars, disk, run
    <2>2. ASSUME Attempting, pin' = pin PROVE FALSE
      <3>1. i \in 1 .. Len(content)
        BY <1>1, Known
      <3>2. content[i] = pin
        BY <1>1, <2>2, <3>1 DEF ExtraInv, Described, Installer
      <3> QED BY <3>2, <2>2
    <2>3. CASE \E got \in BOOLEAN, compare \in CompareSizes : Compare(got, compare)
      <3>1. PICK got \in BOOLEAN, compare \in CompareSizes : Compare(got, compare)
        BY <2>3
      <3> QED BY <3>1 DEF Compare
    <2>4. CASE Open \/ Receive \/ Settle
      BY <2>2, <2>4 DEF Open, Receive, Settle, run, Attempting
    <2> QED BY <2>1, <2>3, <2>4
  <1>2. Inv /\ ExtraInv /\ [Next]_vars => [Kept]_vars
    BY <1>1
  <1>3. Spec => [][Kept]_vars
    BY <1>2, Invariance, ExtraInvariance, PTL DEF Spec
  <1> QED BY <1>3, PTL DEF DescribedExtraKept
================================================================================
