--------------------------- MODULE LinuxInstallProofs ---------------------------
EXTENDS LinuxInstall, DataInduction, TLAPS

--------------------------------------------------------------------------------
(* The archive of an installer *)

LEMMA UnpackFacts ==
  ASSUME NEW stored \in BOOLEAN, NEW x \in Int \ {0}
  PROVE  Unpack(stored, x) \in Seq(Int \ {0})
  <1>1. CASE stored
    BY <1>1 DEF Unpack
  <1>2. CASE ~stored
    <2>1. -x \in Int \ {0}
      OBVIOUS
    <2> QED BY <1>2, <2>1 DEF Unpack
  <1> QED BY <1>1, <1>2

LEMMA ContentFacts ==
  ASSUME NEW f, IsFile(f)
  PROVE  Content(f) \in Seq(Int \ {0})
  <1> DEFINE s == [i \in DOMAIN f.data |-> Unpack(f.stored, f.data[i])]
  <1>1. DOMAIN f.data = 1 .. Len(f.data) /\ Len(f.data) \in Nat /\ f.stored \in BOOLEAN
    BY DEF IsFile
  <1>2. \A i \in DOMAIN f.data : f.data[i] \in Int \ {0}
    BY DEF IsFile
  <1>3. \A i \in DOMAIN f.data : Unpack(f.stored, f.data[i]) \in Seq(Int \ {0})
    BY <1>1, <1>2, UnpackFacts
  <1>4. s \in Seq(Seq(Int \ {0}))
    BY <1>1, <1>3
  <1> HIDE DEF s
  <1>5. FlattenSeq(s) \in Seq(Int \ {0})
    BY <1>4, FlattenFacts
  <1> QED BY <1>5 DEF s, Content

\* The cells before the end records.
BodyCells(fs) ==
  {[kind |-> "other"]} \union (UNION {ToSet(Local(fs[k])) : k \in DOMAIN fs})
    \union {Record(fs, k) : k \in DOMAIN fs}

LEMMA LocalFacts ==
  ASSUME NEW f, IsFile(f)
  PROVE  /\ Local(f) \in Seq(ToSet(Local(f))) /\ Len(Local(f)) = Len(f.data) + 1
         /\ Local(f)[1] = Header(f)
         /\ \A i \in 1 .. Len(f.data) : Local(f)[i + 1] = Piece(f.data[i])
  <1> DEFINE T == {Header(f)} \union {Piece(x) : x \in Int}
             b == [i \in DOMAIN f.data |-> Piece(f.data[i])]
  <1>1. DOMAIN f.data = 1 .. Len(f.data) /\ Len(f.data) \in Nat
        /\ \A i \in DOMAIN f.data : f.data[i] \in Int
    BY DEF IsFile
  <1>2. b \in Seq(T) /\ Len(b) = Len(f.data) /\ \A i \in 1 .. Len(f.data) : b[i] = Piece(f.data[i])
    <2> HIDE DEF T
    <2>1. \A i \in DOMAIN f.data : Piece(f.data[i]) \in T
      BY <1>1 DEF T
    <2> QED BY <1>1, <2>1
  <1>3. <<Header(f)>> \in Seq(T)
    OBVIOUS
  <1> HIDE DEF T, b
  <1>4. PICK a : a = <<Header(f)>>
    OBVIOUS
  <1>5. a \in Seq(T) /\ Len(a) = 1 /\ a[1] = Header(f)
    BY <1>3, <1>4
  <1>6. PICK c : c = a \o b
    OBVIOUS
  <1>7. c = Local(f)
    BY <1>4, <1>6 DEF b, Local
  <1>8. c \in Seq(T) /\ Len(c) = Len(b) + 1 /\ c[1] = a[1] /\ \A i \in 1 .. Len(b) : c[i + 1] = b[i]
    <2>1. /\ a \o b \in Seq(T) /\ Len(a \o b) = Len(a) + Len(b)
          /\ \A j \in 1 .. Len(a) : (a \o b)[j] = a[j]
          /\ \A j \in 1 .. Len(b) : (a \o b)[j + Len(a)] = b[j]
      <3>1. a \in Seq(T) /\ b \in Seq(T)
        BY <1>2, <1>5
      <3> QED BY <3>1
    <2>2. Len(b) \in Nat /\ 1 \in 1 .. 1
      BY <1>2
    <2> QED BY <1>5, <1>6, <2>1, <2>2
  <1>9. c \in Seq(ToSet(c))
    BY <1>8 DEF ToSet
  <1> QED BY <1>2, <1>5, <1>7, <1>8, <1>9

\* The kinds that are no end records.
LEMMA BodyKinds ==
  ASSUME NEW fs, \A k \in DOMAIN fs : IsFile(fs[k]), NEW c \in BodyCells(fs)
  PROVE  c.kind \notin {"eocd", "eocd64"}
  <1>1. CASE c.kind = "other" \/ \E k \in DOMAIN fs : c = Record(fs, k)
    BY <1>1 DEF Record
  <1>2. ASSUME NEW k \in DOMAIN fs, c \in ToSet(Local(fs[k]))
        PROVE  c.kind \in {"header", "data"}
    <2>1. PICK f : f = fs[k] /\ IsFile(f) /\ c \in ToSet(Local(f))
      BY <1>2
    <2>2. PICK l : l = Local(f)
      OBVIOUS
    <2>3. PICK n : n = Len(f.data) /\ n \in Nat
      BY <2>1 DEF IsFile
    <2>4. /\ l \in Seq(ToSet(l)) /\ Len(l) = n + 1 /\ l[1] = Header(f)
          /\ \A i \in 1 .. n : l[i + 1] = Piece(f.data[i])
      BY <2>1, <2>2, <2>3, LocalFacts, Zenon
    <2>5. PICK i \in 1 .. n + 1 : c = l[i]
      BY <2>1, <2>2, <2>4 DEF ToSet
    <2>6. CASE i = 1
      BY <2>4, <2>5, <2>6 DEF Header
    <2>7. CASE i # 1
      <3>1. i - 1 \in 1 .. n /\ (i - 1) + 1 = i
        BY <2>3, <2>7
      <3>2. c = Piece(f.data[i - 1])
        BY <2>4, <2>5, <3>1
      <3> QED BY <3>2 DEF Piece
    <2> QED BY <2>6, <2>7
  <1>3. \/ c = [kind |-> "other"] \/ \E k \in DOMAIN fs : c = Record(fs, k)
        \/ \E k \in DOMAIN fs : c \in ToSet(Local(fs[k]))
    BY DEF BodyCells
  <1> QED BY <1>1, <1>2, <1>3

\* The beginning of an archive is the archive of the first files.
LEMMA ArchivePrefix ==
  ASSUME NEW T, NEW fs \in Seq(T), NEW k \in 0 .. Len(fs)
  PROVE  Archive(SubSeq(fs, 1, k)) = FlattenSeq(SubSeq([i \in DOMAIN fs |-> Local(fs[i])], 1, k))
  <1> DEFINE s == [i \in DOMAIN fs |-> Local(fs[i])]
             a == SubSeq(fs, 1, k)
             b == SubSeq(s, 1, k)
             c == [i \in DOMAIN a |-> Local(a[i])]
  <1>1. Len(fs) \in Nat /\ DOMAIN fs = 1 .. Len(fs) /\ k \in Nat /\ k <= Len(fs)
    OBVIOUS
  <1>2. s = [i \in 1 .. Len(fs) |-> Local(fs[i])]
    BY <1>1
  <1>3. DOMAIN a = 1 .. k /\ \A i \in 1 .. k : a[i] = fs[i]
    BY <1>1
  <1>4. b = [i \in 1 .. k |-> s[i]]
    <2> DEFINE U == {Local(fs[i]) : i \in DOMAIN fs}
    <2>1. s \in Seq(U) /\ Len(s) = Len(fs)
      BY <1>2
    <2> HIDE DEF s, U
    <2> QED BY <1>1, <2>1
  <1>5. \A i \in 1 .. k : s[i] = Local(a[i])
    BY <1>1, <1>3
  <1>6. c = b
    <2> HIDE DEF s, a, b
    <2> QED BY <1>3, <1>4, <1>5
  <1> QED BY <1>6 DEF Archive

LEMMA ArchiveFacts ==
  ASSUME NEW T, NEW fs, IsList(fs),
         \A k \in DOMAIN fs : IsFile(fs[k]) /\ Local(fs[k]) \in Seq(T)
  PROVE  /\ Archive(fs) \in Seq(T)
         /\ \A k \in 1 .. Len(fs) :
              /\ LocalOffset(fs, k) \in Nat
              /\ PartAt(Archive(fs), LocalOffset(fs, k), Local(fs[k]))
              /\ LocalOffset(fs, k) + Len(fs[k].data) + 1
                   = IF k = Len(fs) THEN Len(Archive(fs)) ELSE LocalOffset(fs, k + 1)
  <1>11. PICK s : s = [i \in DOMAIN fs |-> Local(fs[i])]
    OBVIOUS
  <1>1. fs \in Seq(ToSet(fs)) /\ Len(fs) \in Nat /\ DOMAIN fs = 1 .. Len(fs)
    BY DEF IsList
  <1>2. s \in Seq(Seq(T)) /\ Len(s) = Len(fs) /\ \A i \in 1 .. Len(fs) : s[i] = Local(fs[i])
    <2>1. \A i \in 1 .. Len(fs) : Local(fs[i]) \in Seq(T)
      BY <1>1
    <2>2. s = [i \in 1 .. Len(fs) |-> Local(fs[i])]
      BY <1>1, <1>11
    <2> QED BY <1>1, <2>1, <2>2
  <1>3. Archive(fs) = FlattenSeq(s)
    BY <1>11 DEF Archive
  <1>4. \A k \in 0 .. Len(fs) : Archive(SubSeq(fs, 1, k)) = FlattenSeq(SubSeq(s, 1, k))
    BY <1>1, <1>11, ArchivePrefix
  <1>5. PICK g : Flattens(T, g, s)
    BY <1>2, FlattensExist
  <1>6. PICK n \in Nat : n = Len(fs) /\ n = Len(s)
    BY <1>1, <1>2
  <1>7. \A k \in 0 .. n : g[k] \in Seq(T)
    BY <1>5, <1>6 DEF Flattens
  <1>8. Archive(fs) = g[n]
    BY <1>3, <1>5, <1>6, FlattenIs
  <1>9. ASSUME NEW k \in 1 .. n + 1 PROVE LocalOffset(fs, k) = Len(g[k - 1])
    <2>1. k - 1 \in 0 .. n
      BY <1>6
    <2>2. FlattenSeq(SubSeq(s, 1, k - 1)) = g[k - 1]
      BY <1>5, <1>6, <2>1, FlattenPrefix
    <2> QED BY <1>4, <1>6, <2>1, <2>2 DEF LocalOffset
  <1>10. ASSUME NEW k \in 1 .. n
         PROVE  /\ LocalOffset(fs, k) \in Nat
                /\ PartAt(Archive(fs), LocalOffset(fs, k), Local(fs[k]))
                /\ LocalOffset(fs, k) + Len(fs[k].data) + 1
                     = IF k = n THEN Len(Archive(fs)) ELSE LocalOffset(fs, k + 1)
    <2>1. n \in 0 .. n /\ k \in 1 .. n + 1 /\ k + 1 \in 1 .. n + 1 /\ (k + 1) - 1 = k /\ k - 1 \in 0 .. n
      BY <1>6
    <2>2. PartAt(g[n], Len(g[k - 1]), s[k]) /\ Longer(g[k], g[k - 1], s[k])
      <3>1. n \in 0 .. Len(s) /\ k \in 1 .. n
        BY <1>6
      <3>2. \A m \in 0 .. Len(s) : \A i \in 1 .. m :
              PartAt(g[m], Len(g[i - 1]), s[i]) /\ Longer(g[i], g[i - 1], s[i])
        BY <1>5, FlattenPlaces, Zenon
      <3> QED BY <3>1, <3>2, Zenon
    <2>3. LocalOffset(fs, k) = Len(g[k - 1]) /\ LocalOffset(fs, k + 1) = Len(g[k])
      BY <1>9, <2>1
    <2>4. PICK a : a = g[k - 1] /\ a \in Seq(T)
      BY <1>7, <2>1
    <2>5. Len(a) \in Nat
      BY <2>4
    <2>6. IsFile(fs[k]) /\ s[k] = Local(fs[k])
      BY <1>1, <1>2, <1>6
    <2>7. Len(s[k]) = Len(fs[k].data) + 1 /\ Len(fs[k].data) \in Nat
      BY <2>6, LocalFacts DEF IsFile
    <2>8. PICK x, y, z : x = Len(g[k - 1]) /\ y = Len(fs[k].data) /\ z = Len(g[k])
      OBVIOUS
    <2>9. x + y + 1 = z
      <3>1. x \in Nat /\ y \in Nat /\ z = x + (y + 1)
        BY <2>2, <2>4, <2>5, <2>7, <2>8, Zenon DEF Longer
      <3> QED BY <3>1
    <2>10. k = n => Len(Archive(fs)) = z
      BY <1>8, <2>8
    <2> QED BY <1>8, <2>2, <2>3, <2>4, <2>5, <2>6, <2>8, <2>9, <2>10, Zenon
  <1> QED BY <1>6, <1>7, <1>8, <1>10

--------------------------------------------------------------------------------
(* The installer *)

\* Where its directory is, and whether it needs the zip64 end record.
DirectoryAt(inst) == ZipOffset(inst) + Len(Archive(inst.files))
IsWide(inst) == Len(Archive(inst.files)) >= MaxOffset \/ Len(inst.files) >= MaxCount

EndCell(inst) ==
  [kind |-> "eocd", offset |-> Narrow(Len(Archive(inst.files)), MaxOffset),
   total |-> Narrow(Len(inst.files), MaxCount)]
EndCell64(inst) ==
  [kind |-> "eocd64", offset |-> Len(Archive(inst.files)), total |-> Len(inst.files)]
Cells(inst) == BodyCells(inst.files) \union {EndCell(inst), EndCell64(inst)}

LEMMA InstallerFacts ==
  ASSUME NEW inst, IsInstaller(inst)
  PROVE  /\ Archive(inst.files) \in Seq(BodyCells(inst.files))
         /\ Len(Archive(inst.files)) \in Nat /\ Len(inst.files) \in Nat
         /\ DOMAIN inst.files = 1 .. Len(inst.files)
         /\ ZipOffset(inst) \in Nat /\ DirectoryAt(inst) \in Nat
         /\ \A k \in DOMAIN inst.files : IsFile(inst.files[k])
  <1>1. PICK fs : fs = inst.files
    OBVIOUS
  <1>2. /\ fs \in Seq(ToSet(fs)) /\ IsList(fs) /\ \A k \in DOMAIN fs : IsFile(fs[k])
        /\ inst.script \in Nat /\ inst.binary \in Nat
    BY <1>1 DEF IsInstaller, IsList
  <1>3. Len(fs) \in Nat /\ DOMAIN fs = 1 .. Len(fs)
    BY <1>2
  <1>4. ASSUME NEW k \in DOMAIN fs PROVE Local(fs[k]) \in Seq(BodyCells(fs))
    <2>1. ToSet(Local(fs[k])) \subseteq BodyCells(fs)
      BY DEF BodyCells
    <2>2. PICK l : l = Local(fs[k]) /\ l \in Seq(ToSet(l))
      BY <1>2, LocalFacts
    <2>3. l \in Seq(BodyCells(fs))
      <3>1. PICK A, B : A = ToSet(l) /\ B = BodyCells(fs)
        OBVIOUS
      <3>2. l \in Seq(A) /\ A \subseteq B
        BY <2>1, <2>2, <3>1
      <3>3. l \in Seq(B)
        BY <3>2
      <3> QED BY <3>1, <3>3
    <2> QED BY <2>2, <2>3
  <1>5. Archive(fs) \in Seq(BodyCells(fs))
    BY <1>2, <1>4, ArchiveFacts
  <1>6. Len(Archive(fs)) \in Nat
    <2>1. PICK a, B : a = Archive(fs) /\ B = BodyCells(fs)
      OBVIOUS
    <2>2. a \in Seq(B)
      BY <1>5, <2>1
    <2>3. Len(a) \in Nat
      BY <2>2
    <2> QED BY <2>1, <2>3
  <1>7. ZipOffset(inst) \in Nat
    BY <1>2 DEF ZipOffset
  <1>8. DirectoryAt(inst) \in Nat
    BY <1>1, <1>6, <1>7 DEF DirectoryAt
  <1> QED BY <1>1, <1>2, <1>3, <1>5, <1>6, <1>7, <1>8

Joined(T, w, a, b) ==
  w \in Seq(T) /\ Longer(w, a, b) /\ PartAt(w, 0, a) /\ PartAt(w, Len(a), b)

LEMMA JoinFacts ==
  ASSUME NEW T, NEW a \in Seq(T), NEW b \in Seq(T)
  PROVE  Joined(T, a \o b, a, b)
  <1>1. a \o b \in Seq(T)
    OBVIOUS
  <1> QED BY <1>1, AtEnd DEF Joined, Longer

\* Sequences one after the other: what is where.
Lined(T, w, a, b, c, d, e) ==
  /\ w \in Seq(T) /\ Len(w) = Len(a) + Len(b) + Len(c) + Len(d) + Len(e)
  /\ \A i \in 1 .. Len(a) + Len(b) + Len(c) : w[i] = (a \o b \o c)[i]
  /\ PartAt(w, Len(a), b) /\ PartAt(w, Len(a) + Len(b), c)
  /\ PartAt(w, Len(a) + Len(b) + Len(c), d)
  /\ PartAt(w, Len(a) + Len(b) + Len(c) + Len(d), e)

LEMMA FiveParts ==
  ASSUME NEW T, NEW a \in Seq(T), NEW b \in Seq(T), NEW c \in Seq(T), NEW d \in Seq(T),
         NEW e \in Seq(T)
  PROVE  Lined(T, a \o b \o c \o d \o e, a, b, c, d, e)
  <1>1. PICK ab : ab = a \o b
    OBVIOUS
  <1>2. ab \in Seq(T) /\ Len(ab) = Len(a) + Len(b) /\ PartAt(ab, Len(a), b)
    BY <1>1, AtEnd
  <1>3. PICK abc : abc = ab \o c
    OBVIOUS
  <1>4. abc \in Seq(T) /\ Len(abc) = Len(ab) + Len(c) /\ PartAt(abc, Len(ab), c)
    BY <1>2, <1>3, JoinFacts DEF Joined, Longer
  <1>5. PICK abcd : abcd = abc \o d
    OBVIOUS
  <1>6. abcd \in Seq(T) /\ Len(abcd) = Len(abc) + Len(d) /\ PartAt(abcd, Len(abc), d)
        /\ PartAt(abcd, 0, abc)
    BY <1>4, <1>5, JoinFacts DEF Joined, Longer
  <1>7. PICK w : w = abcd \o e
    OBVIOUS
  <1>8. w \in Seq(T) /\ Len(w) = Len(abcd) + Len(e) /\ PartAt(w, Len(abcd), e)
    BY <1>6, <1>7, JoinFacts DEF Joined, Longer
  <1>9. {Len(a), Len(b), Len(c), Len(d), Len(e), Len(ab), Len(abc), Len(abcd)} \subseteq Nat
    BY <1>2, <1>4, <1>6
  <1>10. PartAt(abc, Len(a), b)
    BY <1>2, <1>3, <1>9, AtLonger
  <1>11. PartAt(abcd, Len(a), b) /\ PartAt(abcd, Len(ab), c)
    BY <1>4, <1>5, <1>9, <1>10, AtLonger
  <1>12. PartAt(w, Len(a), b) /\ PartAt(w, Len(ab), c)
    BY <1>6, <1>7, <1>9, <1>11, AtLonger
  <1>13. PartAt(w, Len(abc), d)
    BY <1>6, <1>7, <1>9, AtLonger
  <1>14. PartAt(w, 0, abc)
    BY <1>4, <1>6, <1>7, AtLonger
  <1>15. \A i \in 1 .. Len(abc) : w[i] = abc[i]
    <2>1. \A i \in 1 .. Len(abc) : w[0 + i] = abc[i]
      BY <1>14 DEF PartAt
    <2>2. \A i \in 1 .. Len(abc) : 0 + i = i
      BY <1>9
    <2> QED BY <2>1, <2>2
  <1>16. w = a \o b \o c \o d \o e /\ abc = a \o b \o c
    BY <1>1, <1>3, <1>5, <1>7
  <1>17. Len(abc) = Len(a) + Len(b) + Len(c) /\ Len(abcd) = Len(a) + Len(b) + Len(c) + Len(d)
         /\ Len(w) = Len(a) + Len(b) + Len(c) + Len(d) + Len(e)
    BY <1>2, <1>4, <1>6, <1>8
  <1> QED BY <1>2, <1>8, <1>12, <1>13, <1>15, <1>16, <1>17, Zenon DEF Lined

LEMMA ImageFacts ==
  ASSUME NEW inst, IsInstaller(inst)
  PROVE  LET w == Image(inst) n == Len(inst.files)
         IN /\ w \in Seq(Cells(inst))
            /\ Len(w) = DirectoryAt(inst) + n + (IF IsWide(inst) THEN 2 ELSE 1)
            /\ \A i \in 1 .. DirectoryAt(inst) + n : w[i] \in BodyCells(inst.files)
            /\ PartAt(w, ZipOffset(inst), Archive(inst.files))
            /\ \A k \in 1 .. n : w[DirectoryAt(inst) + k] = Record(inst.files, k)
            /\ w[Len(w)] = EndCell(inst)
            /\ IsWide(inst) => w[Len(w) - 1] = EndCell64(inst)
  <1>1. PICK fs : fs = inst.files
    OBVIOUS
  <1>2. PICK n : n = Len(fs)
    OBVIOUS
  <1>3. PICK cd : cd = Len(Archive(fs))
    OBVIOUS
  <1>4. PICK B : B = BodyCells(fs)
    OBVIOUS
  <1>5. PICK T : T = B \union {EndCell(inst), EndCell64(inst)}
    OBVIOUS
  <1>6. PICK b : b = Archive(fs)
    OBVIOUS
  <1>7. PICK z : z = inst.script + inst.binary
    OBVIOUS
  <1>8. PICK a : a = [i \in 1 .. z |-> [kind |-> "other"]]
    OBVIOUS
  <1>9. PICK c : c = [k \in DOMAIN fs |-> Record(fs, k)]
    OBVIOUS
  <1>10. PICK d : d = IF IsWide(inst) THEN EndRecord("eocd64", cd, n) ELSE <<>>
    OBVIOUS
  <1>11. PICK e : e = EndRecord("eocd", Narrow(cd, MaxOffset), Narrow(n, MaxCount))
    OBVIOUS
  <1>12. z \in Nat /\ n \in Nat /\ cd \in Nat /\ DOMAIN fs = 1 .. n
    BY <1>1, <1>2, <1>3, <1>7, InstallerFacts DEF ZipOffset
  <1>13. z = ZipOffset(inst) /\ DirectoryAt(inst) = z + cd
    BY <1>1, <1>3, <1>7 DEF ZipOffset, DirectoryAt
  <1>14. b \in Seq(B) /\ Len(b) = cd
    BY <1>1, <1>3, <1>4, <1>6, InstallerFacts
  <1>15. a \in Seq(B) /\ Len(a) = z
    <2>1. [kind |-> "other"] \in B
      BY <1>4 DEF BodyCells
    <2> QED BY <1>8, <1>12, <2>1
  <1>16. c \in Seq(B) /\ Len(c) = n /\ \A k \in 1 .. n : c[k] = Record(fs, k)
    <2>1. \A k \in 1 .. n : Record(fs, k) \in B
      BY <1>4, <1>12 DEF BodyCells
    <2>2. c = [k \in 1 .. n |-> Record(fs, k)]
      BY <1>9, <1>12
    <2> QED BY <1>12, <2>1, <2>2
  <1>17. e = <<EndCell(inst)>> /\ EndCell(inst) \in T
    BY <1>1, <1>2, <1>3, <1>5, <1>11 DEF EndRecord, EndCell
  <1>18. d = (IF IsWide(inst) THEN <<EndCell64(inst)>> ELSE <<>>) /\ EndCell64(inst) \in T
    BY <1>1, <1>2, <1>3, <1>5, <1>10 DEF EndRecord, EndCell64
  <1>19. PICK m \in Nat : m = IF IsWide(inst) THEN 1 ELSE 0
    OBVIOUS
  <1>20. /\ d \in Seq(T) /\ Len(d) = m /\ e \in Seq(T) /\ Len(e) = 1
         /\ e[1] = EndCell(inst) /\ (IsWide(inst) => d[1] = EndCell64(inst))
    BY <1>17, <1>18, <1>19
  <1>21. a \in Seq(T) /\ b \in Seq(T) /\ c \in Seq(T)
    <2>1. B \subseteq T
      BY <1>5
    <2> QED BY <1>14, <1>15, <1>16, <2>1
  <1>22. PICK w : w = a \o b \o c \o d \o e
    OBVIOUS
  <1>23. w = Image(inst)
    BY <1>1, <1>2, <1>3, <1>6, <1>7, <1>8, <1>9, <1>10, <1>11, <1>22 DEF Image, IsWide
  <1>24. PICK body : body = a \o b \o c
    OBVIOUS
  <1>25. body \in Seq(B) /\ Len(body) = z + cd + n
    <2>1. PICK ab : ab = a \o b
      OBVIOUS
    <2>2. ab \in Seq(B) /\ Len(ab) = z + cd
      BY <1>14, <1>15, <2>1, JoinFacts DEF Joined, Longer
    <2> QED BY <1>16, <1>24, <2>1, <2>2, JoinFacts DEF Joined, Longer
  <1>26. /\ w \in Seq(T) /\ Len(w) = z + cd + n + m + 1
         /\ \A i \in 1 .. z + cd + n : w[i] = body[i]
         /\ PartAt(w, z, b) /\ PartAt(w, z + cd, c) /\ PartAt(w, z + cd + n, d)
         /\ PartAt(w, z + cd + n + m, e)
    <2>1. /\ w \in Seq(T) /\ Len(w) = Len(a) + Len(b) + Len(c) + Len(d) + Len(e)
          /\ \A i \in 1 .. Len(a) + Len(b) + Len(c) : w[i] = body[i]
          /\ PartAt(w, Len(a), b) /\ PartAt(w, Len(a) + Len(b), c)
          /\ PartAt(w, Len(a) + Len(b) + Len(c), d)
          /\ PartAt(w, Len(a) + Len(b) + Len(c) + Len(d), e)
      <3>1. Lined(T, w, a, b, c, d, e)
        BY <1>20, <1>21, <1>22, FiveParts
      <3> QED BY <1>24, <3>1, Zenon DEF Lined
    <2> QED BY <1>14, <1>15, <1>16, <1>20, <2>1, Zenon
  <1>27. \A i \in 1 .. z + cd + n : body[i] \in B
    BY <1>12, <1>25
  <1>28. \A k \in 1 .. n : w[z + cd + k] = Record(fs, k)
    BY <1>16, <1>26 DEF PartAt
  <1>29. w[Len(w)] = EndCell(inst)
    <2>1. w[z + cd + n + m + 1] = e[1]
      BY <1>20, <1>26 DEF PartAt
    <2> QED BY <1>20, <1>26, <2>1, Zenon
  <1>30. IsWide(inst) => w[Len(w) - 1] = EndCell64(inst)
    <2> SUFFICES ASSUME IsWide(inst) PROVE w[Len(w) - 1] = EndCell64(inst)
      OBVIOUS
    <2>1. m = 1
      BY <1>19
    <2>2. w[z + cd + n + 1] = d[1]
      BY <1>20, <1>26, <2>1 DEF PartAt
    <2>3. Len(w) - 1 = z + cd + n + 1
      BY <1>12, <1>26, <2>1
    <2> QED BY <1>20, <2>2, <2>3, Zenon
  <1>31. Len(w) = DirectoryAt(inst) + n + (IF IsWide(inst) THEN 2 ELSE 1)
    BY <1>12, <1>13, <1>19, <1>26
  <1> QED BY <1>1, <1>2, <1>4, <1>5, <1>6, <1>13, <1>23, <1>26, <1>27, <1>28, <1>29, <1>30,
             <1>31, Zenon DEF Cells

--------------------------------------------------------------------------------
(* What the program reads of it *)

LEMMA SubSeqFacts ==
  ASSUME NEW T, NEW w \in Seq(T), NEW m \in Nat, NEW n \in Nat, m <= n, n <= Len(w)
  PROVE  /\ SubSeq(w, m + 1, n) \in Seq(T) /\ Len(SubSeq(w, m + 1, n)) = n - m
         /\ \A j \in 1 .. n - m : SubSeq(w, m + 1, n)[j] = w[m + j]
  OBVIOUS

\* The largest number of a set that has one.
LEMMA MaxIs ==
  ASSUME NEW I \in SUBSET Int, NEW m \in I, \A i \in I : m >= i
  PROVE  Max(I) = m
  <1>1. \E x \in I : \A y \in I : x >= y
    OBVIOUS
  <1>2. Max(I) \in I /\ \A y \in I : Max(I) >= y
    BY <1>1 DEF Max
  <1>3. Max(I) >= m /\ m >= Max(I)
    BY <1>2
  <1>4. Max(I) \in Int
    BY <1>2
  <1> QED BY <1>3, <1>4

\* The last signature of a kind in a stream.
LEMMA LastOfKind ==
  ASSUME NEW s, NEW kind, Len(s) \in Nat
  PROVE  /\ (\A i \in 1 .. Len(s) : s[i].kind # kind) => EOCD(s, kind) = 0
         /\ \A k \in 1 .. Len(s) :
              s[k].kind = kind /\ (\A i \in k + 1 .. Len(s) : s[i].kind # kind)
                => EOCD(s, kind) = k
  <1>1. PICK I : I = {i \in 1 .. Len(s) : s[i].kind = kind}
    OBVIOUS
  <1>2. EOCD(s, kind) = IF I # {} THEN Max(I) ELSE 0
    BY <1>1 DEF EOCD, SelectLastInSeq
  <1>3. ASSUME NEW k \in 1 .. Len(s), s[k].kind = kind,
               \A i \in k + 1 .. Len(s) : s[i].kind # kind
        PROVE  EOCD(s, kind) = k
    <2>1. k \in I /\ I \in SUBSET Int
      BY <1>1, <1>3
    <2>2. ASSUME NEW i \in I PROVE k >= i
      <3>1. i \in 1 .. Len(s) /\ s[i].kind = kind
        BY <1>1
      <3>2. i \notin k + 1 .. Len(s)
        BY <1>3, <3>1
      <3> QED BY <3>1, <3>2
    <2>3. Max(I) = k
      BY <2>1, <2>2, MaxIs
    <2> QED BY <1>2, <2>1, <2>3
  <1> QED BY <1>1, <1>2, <1>3

LEMMA TailFacts ==
  ASSUME NEW inst, IsInstaller(inst), Listable(inst)
  PROVE  LET w == Image(inst) tail == Tail200(w)
         IN /\ Len(w) >= TailSize /\ tail \in Seq(Cells(inst)) /\ Len(tail) = TailSize
            /\ \A j \in 1 .. TailSize : tail[j] = w[Len(w) - TailSize + j]
            /\ EOCD(tail, "eocd") = TailSize
            /\ EOCD(tail, "eocd64") = IF IsWide(inst) THEN TailSize - 1 ELSE 0
            /\ tail[TailSize] = EndCell(inst)
            /\ IsWide(inst) => tail[TailSize - 1] = EndCell64(inst)
  <1>1. PICK w : w = Image(inst)
    OBVIOUS
  <1>2. PICK T : T = Cells(inst)
    OBVIOUS
  <1>3. PICK n, d, B : n = Len(inst.files) /\ d = DirectoryAt(inst) /\ B = BodyCells(inst.files)
    OBVIOUS
  <1>4. PICK m : m = IF IsWide(inst) THEN 2 ELSE 1
    OBVIOUS
  <1>5. n \in Nat /\ d \in Nat /\ m \in {1, 2} /\ TailSize \in Nat /\ TailSize >= 2
    BY <1>3, <1>4, InstallerFacts, FieldsAssumption
  <1>6. /\ w \in Seq(T) /\ Len(w) = d + n + m /\ w[Len(w)] = EndCell(inst)
        /\ \A i \in 1 .. d + n : w[i] \in B
        /\ IsWide(inst) => w[Len(w) - 1] = EndCell64(inst)
    BY <1>1, <1>2, <1>3, <1>4, ImageFacts
  <1>7. Len(w) >= TailSize
    BY <1>1 DEF Listable
  <1>8. PICK tail : tail = Tail200(w)
    OBVIOUS
  <1>9. PICK a \in Nat : a = Len(w) - TailSize
    BY <1>5, <1>6, <1>7
  <1>10. tail = SubSeq(w, a + 1, Len(w))
    <2>1. tail = Bytes(w, Len(w) - TailSize, Len(w))
      BY <1>8 DEF Tail200
    <2>2. ~(Len(w) < Len(w))
      BY <1>5, <1>6
    <2>3. tail = SubSeq(w, Len(w) - TailSize + 1, Len(w))
      BY <2>1, <2>2, Zenon DEF Bytes
    <2> QED BY <1>9, <2>3
  <1>11. Len(w) \in Nat /\ a <= Len(w) /\ Len(w) - a = TailSize
    BY <1>5, <1>6, <1>7, <1>9
  <1>12. tail \in Seq(T) /\ Len(tail) = TailSize /\ \A j \in 1 .. TailSize : tail[j] = w[a + j]
    <2>1. /\ SubSeq(w, a + 1, Len(w)) \in Seq(T) /\ Len(SubSeq(w, a + 1, Len(w))) = Len(w) - a
          /\ \A j \in 1 .. Len(w) - a : SubSeq(w, a + 1, Len(w))[j] = w[a + j]
      BY <1>6, <1>11, SubSeqFacts
    <2> QED BY <1>10, <1>11, <2>1, Zenon
  <1>13. tail[TailSize] = EndCell(inst)
    <2>1. TailSize \in 1 .. TailSize /\ a + TailSize = Len(w)
      BY <1>5, <1>11
    <2> QED BY <1>6, <1>12, <2>1, Zenon
  <1>14. IsWide(inst) => tail[TailSize - 1] = EndCell64(inst)
    <2>1. TailSize - 1 \in 1 .. TailSize /\ a + (TailSize - 1) = Len(w) - 1
      BY <1>5, <1>11
    <2> QED BY <1>6, <1>12, <2>1, Zenon
  <1>15. \A c \in B : c.kind # "eocd" /\ c.kind # "eocd64"
    <2>1. \A k \in DOMAIN inst.files : IsFile(inst.files[k])
      BY InstallerFacts
    <2>2. \A c \in BodyCells(inst.files) : c.kind \notin {"eocd", "eocd64"}
      BY <2>1, BodyKinds
    <2> QED BY <1>3, <2>2
  <1>16. EndCell(inst).kind = "eocd" /\ EndCell64(inst).kind = "eocd64"
    BY DEF EndCell, EndCell64
  <1>17. EOCD(tail, "eocd") = TailSize
    <2>1. TailSize \in 1 .. Len(tail) /\ tail[TailSize].kind = "eocd"
      BY <1>5, <1>12, <1>13, <1>16
    <2>2. \A i \in TailSize + 1 .. Len(tail) : tail[i].kind # "eocd"
      BY <1>5, <1>12
    <2> QED BY <1>5, <1>12, <2>1, <2>2, LastOfKind
  <1>18. EOCD(tail, "eocd64") = IF IsWide(inst) THEN TailSize - 1 ELSE 0
    <2>1. CASE IsWide(inst)
      <3>1. TailSize - 1 \in 1 .. Len(tail) /\ tail[TailSize - 1].kind = "eocd64"
        BY <1>5, <1>12, <1>14, <1>16, <2>1
      <3>2. \A i \in (TailSize - 1) + 1 .. Len(tail) : tail[i].kind # "eocd64"
        <4>1. \A i \in (TailSize - 1) + 1 .. Len(tail) : i = TailSize
          BY <1>5, <1>12
        <4> QED BY <1>13, <1>16, <4>1
      <3>3. EOCD(tail, "eocd64") = TailSize - 1
        BY <1>5, <1>12, <3>1, <3>2, LastOfKind
      <3> QED BY <2>1, <3>3
    <2>2. CASE ~IsWide(inst)
      <3>1. ASSUME NEW i \in 1 .. TailSize, i # TailSize PROVE tail[i].kind # "eocd64"
        <4>1. a + i \in 1 .. d + n
          BY <1>4, <1>5, <1>6, <1>9, <2>2, <3>1
        <4>2. tail[i] \in B
          BY <1>6, <1>12, <4>1
        <4> QED BY <1>15, <4>2
      <3>2. \A i \in 1 .. Len(tail) : tail[i].kind # "eocd64"
        BY <1>12, <1>13, <1>16, <3>1
      <3>3. EOCD(tail, "eocd64") = 0
        BY <1>5, <1>12, <3>2, LastOfKind
      <3> QED BY <2>2, <3>3
    <2> QED BY <2>1, <2>2
  <1> QED BY <1>1, <1>2, <1>7, <1>8, <1>9, <1>12, <1>13, <1>14, <1>17, <1>18

LEMMA DirectoryFound ==
  ASSUME NEW inst, IsInstaller(inst), Listable(inst)
  PROVE  DirectoryOf(Tail200(Image(inst)))
           = [offset |-> Len(Archive(inst.files)), total |-> Len(inst.files)]
  <1>1. PICK tail : tail = Tail200(Image(inst))
    OBVIOUS
  <1>2. PICK cd, n : cd = Len(Archive(inst.files)) /\ n = Len(inst.files)
    OBVIOUS
  <1>3. cd \in Nat /\ n \in Nat /\ MaxOffset \in Nat /\ MaxCount \in Nat /\ TailSize \in Nat \ {0, 1}
    BY <1>2, InstallerFacts, FieldsAssumption
  <1>4. /\ EOCD(tail, "eocd") = TailSize
        /\ EOCD(tail, "eocd64") = IF IsWide(inst) THEN TailSize - 1 ELSE 0
        /\ tail[TailSize] = EndCell(inst)
        /\ IsWide(inst) => tail[TailSize - 1] = EndCell64(inst)
    BY <1>1, TailFacts
  <1>5. EndCell(inst).offset = Narrow(cd, MaxOffset) /\ EndCell(inst).total = Narrow(n, MaxCount)
        /\ EndCell64(inst).offset = cd /\ EndCell64(inst).total = n
    BY <1>2 DEF EndCell, EndCell64
  <1>6. IsWide(inst) <=> (cd >= MaxOffset \/ n >= MaxCount)
    BY <1>2 DEF IsWide
  <1>7. DirectoryOf(tail) = [offset |-> cd, total |-> n]
    <2>1. CASE ~IsWide(inst)
      <3>1. Narrow(cd, MaxOffset) = cd /\ Narrow(n, MaxCount) = n
        BY <1>3, <1>6, <2>1 DEF Narrow
      <3> QED BY <1>4, <1>5, <2>1, <3>1 DEF DirectoryOf, Directory
    <2>2. CASE IsWide(inst)
      <3>1. TailSize - 1 # 0
        BY <1>3
      <3>2. Widened(Narrow(cd, MaxOffset), MaxOffset, cd) = cd
            /\ Widened(Narrow(n, MaxCount), MaxCount, n) = n
        BY <1>3 DEF Narrow, Widened
      <3> QED BY <1>4, <1>5, <2>2, <3>1, <3>2 DEF DirectoryOf, Directory
    <2> QED BY <2>1, <2>2
  <1> QED BY <1>1, <1>2, <1>7

LEMMA StreamFacts ==
  ASSUME NEW inst, IsInstaller(inst), Listable(inst)
  PROVE  LET cells == SubSeq(DirectoryStream(Image(inst), DirectoryAt(inst)), 1, Len(inst.files))
         IN /\ DOMAIN cells = 1 .. Len(inst.files)
            /\ \A k \in 1 .. Len(inst.files) : cells[k] = Record(inst.files, k)
            /\ Len(cells) = Len(inst.files)
  <1>1. PICK w, T, n, d : w = Image(inst) /\ T = Cells(inst) /\ n = Len(inst.files) /\ d = DirectoryAt(inst)
    OBVIOUS
  <1>2. n \in Nat /\ d \in Nat /\ TailSize \in Nat /\ TailSize >= 2
    BY <1>1, InstallerFacts, FieldsAssumption
  <1>3. w \in Seq(T) /\ d + n < Len(w) /\ \A k \in 1 .. n : w[d + k] = Record(inst.files, k)
    <2>1. PICK m : m = IF IsWide(inst) THEN 2 ELSE 1
      OBVIOUS
    <2>2. w \in Seq(T) /\ Len(w) = d + n + m /\ \A k \in 1 .. n : w[d + k] = Record(inst.files, k)
      BY <1>1, <2>1, ImageFacts
    <2>3. m >= 1 /\ m \in Nat
      BY <2>1
    <2> QED BY <1>2, <2>2, <2>3
  <1>4. PICK tail : tail = Tail200(w)
    OBVIOUS
  <1>5. /\ Len(w) >= TailSize /\ tail \in Seq(T) /\ Len(tail) = TailSize
        /\ \A j \in 1 .. TailSize : tail[j] = w[Len(w) - TailSize + j]
    BY <1>1, <1>4, TailFacts
  <1>6. PICK s : s = DirectoryStream(w, d)
    OBVIOUS
  <1>7. s \in Seq(T) /\ Len(s) >= n /\ \A j \in 1 .. n : s[j] = w[d + j]
    <2>1. Len(w) \in Nat
      BY <1>3
    <2>2. CASE Len(w) - d > TailSize
      <3>1. s = SubSeq(w, d + 1, Len(w))
        <4>1. s = Bytes(w, d, Len(w)) /\ ~(Len(w) < Len(w))
          BY <1>6, <2>1, <2>2 DEF DirectoryStream
        <4> QED BY <4>1 DEF Bytes
      <3>2. s \in Seq(T) /\ Len(s) = Len(w) - d /\ \A j \in 1 .. Len(w) - d : s[j] = w[d + j]
        BY <1>2, <1>3, <2>1, <3>1, SubSeqFacts
      <3> QED BY <1>2, <1>3, <2>1, <3>2
    <2>3. CASE ~(Len(w) - d > TailSize)
      <3>1. PICK a \in Nat : a = TailSize - (Len(w) - d)
        BY <1>2, <2>1, <2>3
      <3>2. s = SubSeq(tail, a + 1, TailSize)
        BY <1>4, <1>6, <2>3, <3>1 DEF DirectoryStream
      <3>3. a <= TailSize /\ TailSize <= Len(tail)
        BY <1>2, <1>3, <1>5, <2>1, <3>1
      <3>4. s \in Seq(T) /\ Len(s) = TailSize - a /\ \A j \in 1 .. TailSize - a : s[j] = tail[a + j]
        BY <1>2, <1>5, <3>2, <3>3, SubSeqFacts
      <3>5. ASSUME NEW j \in 1 .. n PROVE s[j] = w[d + j]
        <4>1. j \in 1 .. TailSize - a /\ a + j \in 1 .. TailSize /\ Len(w) - TailSize + (a + j) = d + j
          BY <1>2, <1>3, <2>1, <3>1
        <4> QED BY <1>5, <3>4, <4>1
      <3>6. Len(s) >= n
        BY <1>2, <1>3, <2>1, <3>1, <3>4
      <3> QED BY <3>4, <3>5, <3>6
    <2> QED BY <2>2, <2>3
  <1>8. PICK c : c = SubSeq(s, 1, n)
    OBVIOUS
  <1>9. DOMAIN c = 1 .. n /\ Len(c) = n /\ \A k \in 1 .. n : c[k] = s[k]
    BY <1>2, <1>7, <1>8
  <1>10. \A k \in 1 .. n : c[k] = Record(inst.files, k)
    BY <1>3, <1>7, <1>9
  <1> QED BY <1>1, <1>6, <1>8, <1>9, <1>10

\* What a field or the extra field gives is the value.
LEMMA OverflowFacts ==
  ASSUME NEW n \in Nat
  PROVE  /\ n >= MaxOffset => Narrow(n, MaxOffset) = MaxOffset /\ Overflow(n) = <<n>>
         /\ n < MaxOffset =>
              Narrow(n, MaxOffset) = n /\ n # MaxOffset /\ Overflow(n) = <<>>
  <1>1. MaxOffset \in Nat
    BY FieldsAssumption
  <1> QED BY <1>1 DEF Narrow, Overflow

LEMMA WideFacts ==
  ASSUME NEW fs, NEW k, NEW u \in Nat, NEW c \in Nat, NEW o \in Nat,
         u = Len(Content(fs[k])), c = Len(fs[k].data), o = LocalOffset(fs, k)
  PROVE  Wide(Record(fs, k)) = [uncomp |-> u, comp |-> c, offset |-> o]
  <1>1. PICK r : r = Record(fs, k)
    OBVIOUS
  <1>2. r.uncomp = Narrow(u, MaxOffset) /\ r.comp = Narrow(c, MaxOffset)
        /\ r.offset = Narrow(o, MaxOffset)
        /\ r.extra = Overflow(u) \o Overflow(c) \o Overflow(o)
    BY <1>1 DEF Record
  <1>3. PICK e : e = r.extra
    OBVIOUS
  <1>4. CASE u >= MaxOffset
    <2>1. r.uncomp = MaxOffset /\ Overflow(u) = <<u>>
      BY <1>2, <1>4, OverflowFacts
    <2>2. CASE c >= MaxOffset
      <3>1. r.comp = MaxOffset /\ Overflow(c) = <<c>>
        BY <1>2, <2>2, OverflowFacts
      <3>2. CASE o >= MaxOffset
        <4>1. r.offset = MaxOffset /\ Overflow(o) = <<o>>
          BY <1>2, <3>2, OverflowFacts
        <4>2. e[1] = u /\ e[2] = c /\ e[3] = o
          BY <1>2, <1>3, <2>1, <3>1, <4>1
        <4> QED BY <1>1, <1>3, <2>1, <3>1, <4>1, <4>2 DEF Wide
      <3>3. CASE ~(o >= MaxOffset)
        <4>1. r.offset = o /\ o # MaxOffset /\ Overflow(o) = <<>>
          BY <1>2, <3>3, OverflowFacts, FieldsAssumption
        <4>2. e[1] = u /\ e[2] = c
          BY <1>2, <1>3, <2>1, <3>1, <4>1
        <4> QED BY <1>1, <1>3, <2>1, <3>1, <4>1, <4>2 DEF Wide
      <3> QED BY <3>2, <3>3
    <2>3. CASE ~(c >= MaxOffset)
      <3>1. r.comp = c /\ c # MaxOffset /\ Overflow(c) = <<>>
        BY <1>2, <2>3, OverflowFacts, FieldsAssumption
      <3>2. CASE o >= MaxOffset
        <4>1. r.offset = MaxOffset /\ Overflow(o) = <<o>>
          BY <1>2, <3>2, OverflowFacts
        <4>2. e[1] = u /\ e[2] = o
          BY <1>2, <1>3, <2>1, <3>1, <4>1
        <4> QED BY <1>1, <1>3, <2>1, <3>1, <4>1, <4>2 DEF Wide
      <3>3. CASE ~(o >= MaxOffset)
        <4>1. r.offset = o /\ o # MaxOffset /\ Overflow(o) = <<>>
          BY <1>2, <3>3, OverflowFacts, FieldsAssumption
        <4>2. e[1] = u
          BY <1>2, <1>3, <2>1, <3>1, <4>1
        <4> QED BY <1>1, <1>3, <2>1, <3>1, <4>1, <4>2 DEF Wide
      <3> QED BY <3>2, <3>3
    <2> QED BY <2>2, <2>3
  <1>5. CASE ~(u >= MaxOffset)
    <2>1. r.uncomp = u /\ u # MaxOffset /\ Overflow(u) = <<>>
      BY <1>2, <1>5, OverflowFacts, FieldsAssumption
    <2>2. CASE c >= MaxOffset
      <3>1. r.comp = MaxOffset /\ Overflow(c) = <<c>>
        BY <1>2, <2>2, OverflowFacts
      <3>2. CASE o >= MaxOffset
        <4>1. r.offset = MaxOffset /\ Overflow(o) = <<o>>
          BY <1>2, <3>2, OverflowFacts
        <4>2. e[1] = c /\ e[2] = o
          BY <1>2, <1>3, <2>1, <3>1, <4>1
        <4> QED BY <1>1, <1>3, <2>1, <3>1, <4>1, <4>2 DEF Wide
      <3>3. CASE ~(o >= MaxOffset)
        <4>1. r.offset = o /\ o # MaxOffset /\ Overflow(o) = <<>>
          BY <1>2, <3>3, OverflowFacts, FieldsAssumption
        <4>2. e[1] = c
          BY <1>2, <1>3, <2>1, <3>1, <4>1
        <4> QED BY <1>1, <1>3, <2>1, <3>1, <4>1, <4>2 DEF Wide
      <3> QED BY <3>2, <3>3
    <2>3. CASE ~(c >= MaxOffset)
      <3>1. r.comp = c /\ c # MaxOffset /\ Overflow(c) = <<>>
        BY <1>2, <2>3, OverflowFacts, FieldsAssumption
      <3>2. CASE o >= MaxOffset
        <4>1. r.offset = MaxOffset /\ Overflow(o) = <<o>>
          BY <1>2, <3>2, OverflowFacts
        <4>2. e[1] = o
          BY <1>2, <1>3, <2>1, <3>1, <4>1
        <4> QED BY <1>1, <1>3, <2>1, <3>1, <4>1, <4>2 DEF Wide
      <3>3. CASE ~(o >= MaxOffset)
        <4>1. r.offset = o /\ o # MaxOffset /\ Overflow(o) = <<>>
          BY <1>2, <3>3, OverflowFacts, FieldsAssumption
        <4> QED BY <1>1, <1>3, <2>1, <3>1, <4>1 DEF Wide
      <3> QED BY <3>2, <3>3
    <2> QED BY <2>2, <2>3
  <1> QED BY <1>4, <1>5

--------------------------------------------------------------------------------
(* The entries of an installer *)

\* What the entry of file f says, its local header being at start.
Describes(e, f, url, start) ==
  /\ e.path = f.path /\ e.kind = f.kind /\ e.base = f.base /\ e.part = f.part
  /\ e.crc = Content(f) /\ e.uncomp = Len(Content(f)) /\ e.comp = Len(f.data)
  /\ e.url = url /\ e.start = start /\ start \in Nat /\ e.end = start + Len(f.data)

LEMMA VectorFacts ==
  ASSUME NEW inst, IsInstaller(inst), Listable(inst), NEW url
  PROVE  LET v == FileVector(Image(inst), ZipOffset(inst), url) fs == inst.files
         IN /\ v \in Seq(ToSet(v)) /\ Len(v) = Len(fs)
            /\ \A k \in 1 .. Len(fs) :
                 Describes(v[k], fs[k], url, ZipOffset(inst) + LocalOffset(fs, k))
  <1>1. PICK fs, n, zip : fs = inst.files /\ n = Len(inst.files) /\ zip = ZipOffset(inst)
    OBVIOUS
  <1>2. PICK cd : cd = Len(Archive(fs))
    OBVIOUS
  <1>3. /\ n \in Nat /\ zip \in Nat /\ cd \in Nat /\ DOMAIN fs = 1 .. n
        /\ \A k \in 1 .. n : IsFile(fs[k])
    BY <1>1, <1>2, InstallerFacts
  <1>4. PICK cells : cells = SubSeq(DirectoryStream(Image(inst), zip + cd), 1, n)
    OBVIOUS
  <1>5. DOMAIN cells = 1 .. n /\ Len(cells) = n /\ \A k \in 1 .. n : cells[k] = Record(fs, k)
    BY <1>1, <1>2, <1>4, StreamFacts DEF DirectoryAt
  <1>6. PICK starts : starts = [k \in DOMAIN cells |-> Wide(cells[k]).offset + zip]
    OBVIOUS
  <1>7. PICK v : v = Entered(cells, starts, zip + cd, url)
    OBVIOUS
  <1>8. v = FileVector(Image(inst), zip, url)
    <2>1. PICK dir : dir = DirectoryOf(Tail200(Image(inst)))
      OBVIOUS
    <2>2. dir.offset = cd /\ dir.total = n
      BY <1>1, <1>2, <2>1, DirectoryFound
    <2> QED BY <1>4, <1>6, <1>7, <2>1, <2>2 DEF FileVector, Records
  <1>9. ASSUME NEW k \in 1 .. n
        PROVE  /\ Len(Content(fs[k])) \in Nat /\ Len(fs[k].data) \in Nat /\ LocalOffset(fs, k) \in Nat
               /\ LocalOffset(fs, k) + Len(fs[k].data) + 1 = IF k = n THEN cd ELSE LocalOffset(fs, k + 1)
    <2>1. Content(fs[k]) \in Seq(Int \ {0})
      BY <1>3, ContentFacts
    <2>2. Len(Content(fs[k])) \in Nat
      <3>1. PICK c : c = Content(fs[k]) /\ c \in Seq(Int \ {0})
        BY <2>1
      <3>2. Len(c) \in Nat
        BY <3>1
      <3> QED BY <3>1, <3>2
    <2>3. Len(fs[k].data) \in Nat
      BY <1>3 DEF IsFile
    <2>4. IsList(fs) /\ \A i \in DOMAIN fs : IsFile(fs[i]) /\ Local(fs[i]) \in Seq(BodyCells(fs))
      <3>1. IsList(fs)
        BY <1>1 DEF IsInstaller
      <3>2. ASSUME NEW i \in DOMAIN fs PROVE Local(fs[i]) \in Seq(BodyCells(fs))
        <4>1. ToSet(Local(fs[i])) \subseteq BodyCells(fs)
          BY DEF BodyCells
        <4>2. Local(fs[i]) \in Seq(ToSet(Local(fs[i])))
          BY <1>3, LocalFacts
        <4>3. PICK l, A, B : l = Local(fs[i]) /\ A = ToSet(Local(fs[i])) /\ B = BodyCells(fs)
          OBVIOUS
        <4>4. l \in Seq(A) /\ A \subseteq B
          BY <4>1, <4>2, <4>3
        <4>5. l \in Seq(B)
          BY <4>4
        <4> QED BY <4>3, <4>5
      <3> QED BY <1>3, <3>1, <3>2
    <2>5. \A i \in 1 .. Len(fs) :
              /\ LocalOffset(fs, i) \in Nat
              /\ LocalOffset(fs, i) + Len(fs[i].data) + 1
                   = IF i = Len(fs) THEN Len(Archive(fs)) ELSE LocalOffset(fs, i + 1)
      BY <2>4, ArchiveFacts
    <2> QED BY <1>1, <1>2, <2>2, <2>3, <2>5
  <1>10. \A k \in 1 .. n : Wide(cells[k]) = [uncomp |-> Len(Content(fs[k])),
                                            comp |-> Len(fs[k].data), offset |-> LocalOffset(fs, k)]
    BY <1>5, <1>9, WideFacts
  <1>11. DOMAIN starts = 1 .. n /\ Len(starts) = n
         /\ \A k \in 1 .. n : starts[k] = zip + LocalOffset(fs, k)
    <2>1. starts = [k \in 1 .. n |-> Wide(cells[k]).offset + zip]
      BY <1>5, <1>6
    <2>2. ASSUME NEW k \in 1 .. n PROVE Wide(cells[k]).offset + zip = zip + LocalOffset(fs, k)
      <3>1. Wide(cells[k]).offset = LocalOffset(fs, k)
        <4>1. PICK u, c, o : u = Len(Content(fs[k])) /\ c = Len(fs[k].data) /\ o = LocalOffset(fs, k)
          OBVIOUS
        <4>2. Wide(cells[k]) = [uncomp |-> u, comp |-> c, offset |-> o]
          BY <1>10, <4>1, Zenon
        <4> QED BY <4>1, <4>2
      <3>2. PICK o \in Nat : o = LocalOffset(fs, k)
        BY <1>9
      <3> QED BY <1>3, <3>1, <3>2
    <2>3. \A k \in 1 .. n : zip + LocalOffset(fs, k) \in Nat
      BY <1>3, <1>9
    <2>4. starts \in Seq(Nat) /\ DOMAIN starts = 1 .. n
      BY <1>3, <2>1, <2>2, <2>3
    <2>5. Len(starts) = n
      BY <1>3, <2>4
    <2> QED BY <2>1, <2>2, <2>4, <2>5
  <1>12. DOMAIN v = 1 .. n /\ \A k \in 1 .. n :
           v[k] = FileEntry(cells[k], Wide(cells[k]), url, starts[k],
                            EndOffset(starts, k, zip + cd))
    BY <1>5, <1>7 DEF Entered
  <1>13. ASSUME NEW k \in 1 .. n
         PROVE  EndOffset(starts, k, zip + cd) = (zip + LocalOffset(fs, k)) + Len(fs[k].data)
    <2>1. CASE k = n
      <3>1. EndOffset(starts, k, zip + cd) = (zip + cd) - 1
        <4>1. k = Len(starts)
          BY <1>11, <2>1
        <4> QED BY <4>1, Zenon DEF EndOffset
      <3>2. PICK x, y : x = LocalOffset(fs, k) /\ y = Len(fs[k].data)
        OBVIOUS
      <3>3. x \in Nat /\ y \in Nat /\ x + y + 1 = cd
        BY <1>9, <2>1, <3>2
      <3>4. (zip + cd) - 1 = (zip + x) + y
        BY <1>3, <3>3
      <3> QED BY <3>1, <3>2, <3>4
    <2>2. CASE k # n
      <3>1. k + 1 \in 1 .. n
        BY <1>3, <2>2
      <3>2. EndOffset(starts, k, zip + cd) = (zip + LocalOffset(fs, k + 1)) - 1
        <4>1. k # Len(starts) /\ starts[k + 1] = zip + LocalOffset(fs, k + 1)
          BY <1>11, <2>2, <3>1
        <4> QED BY <4>1, Zenon DEF EndOffset
      <3>3. PICK x, y, z : x = LocalOffset(fs, k) /\ y = Len(fs[k].data) /\ z = LocalOffset(fs, k + 1)
        OBVIOUS
      <3>4. x \in Nat /\ y \in Nat /\ z \in Nat /\ x + y + 1 = z
        BY <1>9, <2>2, <3>1, <3>3
      <3>5. (zip + z) - 1 = (zip + x) + y
        BY <1>3, <3>4
      <3> QED BY <3>2, <3>3, <3>5, Zenon
    <2> QED BY <2>1, <2>2
  <1>14. ASSUME NEW k \in 1 .. n PROVE Describes(v[k], fs[k], url, zip + LocalOffset(fs, k))
    <2>1. PICK e, c, f, s : e = v[k] /\ c = cells[k] /\ f = fs[k] /\ s = zip + LocalOffset(fs, k)
      OBVIOUS
    <2>2. e = FileEntry(c, [uncomp |-> Len(Content(f)), comp |-> Len(f.data),
                            offset |-> LocalOffset(fs, k)], url, s, s + Len(f.data))
      BY <1>10, <1>11, <1>12, <1>13, <2>1
    <2>3. c.path = f.path /\ c.file = f.kind /\ c.base = f.base /\ c.part = f.part /\ c.crc = Content(f)
      BY <1>5, <2>1 DEF Record
    <2>4. s \in Nat
      BY <1>3, <1>9, <2>1
    <2>5. Describes(e, f, url, s)
      BY <2>2, <2>3, <2>4 DEF Describes, FileEntry
    <2> QED BY <2>1, <2>5
  <1>15. v \in Seq(ToSet(v)) /\ Len(v) = n
    <2>1. v = [k \in 1 .. n |-> v[k]]
      BY <1>5, <1>7, <1>12 DEF Entered
    <2>2. \A k \in 1 .. n : v[k] \in ToSet(v)
      BY <1>12 DEF ToSet
    <2> QED BY <1>3, <2>1, <2>2
  <1> QED BY <1>1, <1>8, <1>14, <1>15

\* The bytes of the range of an entry are the local header and the data.
LEMMA RangeFacts ==
  ASSUME NEW inst, IsInstaller(inst), NEW k \in 1 .. Len(inst.files), NEW e, NEW url,
         Describes(e, inst.files[k], url, ZipOffset(inst) + LocalOffset(inst.files, k))
  PROVE  /\ Bytes(Image(inst), e.start, e.end) = Local(inst.files[k])
         /\ \A j \in 0 .. Len(inst.files[k].data) :
              Bytes(Image(inst), e.start + j, e.start + j) = <<Local(inst.files[k])[j + 1]>>
  <1>1. PICK fs, f, w, l, a : fs = inst.files /\ f = fs[k] /\ w = Image(inst) /\ l = Local(f)
                               /\ a = Archive(fs)
    OBVIOUS
  <1>2. PICK z, o, d : z = ZipOffset(inst) /\ o = LocalOffset(fs, k) /\ d = Len(f.data)
    OBVIOUS
  <1>3. PICK T, B : T = Cells(inst) /\ B = BodyCells(fs)
    OBVIOUS
  <1>4. IsFile(f) /\ z \in Nat /\ a \in Seq(B) /\ IsList(fs) /\ DOMAIN fs = 1 .. Len(fs)
        /\ \A i \in DOMAIN fs : IsFile(fs[i])
    BY <1>1, <1>2, <1>3, InstallerFacts DEF IsInstaller
  <1>5. \A i \in DOMAIN fs : Local(fs[i]) \in Seq(B)
    <2> SUFFICES ASSUME NEW i \in DOMAIN fs PROVE Local(fs[i]) \in Seq(B)
      OBVIOUS
    <2>1. ToSet(Local(fs[i])) \subseteq B
      BY <1>3 DEF BodyCells
    <2>2. PICK m, A : m = Local(fs[i]) /\ A = ToSet(m)
      OBVIOUS
    <2>3. m \in Seq(A)
      BY <1>4, <2>2, LocalFacts
    <2>4. m \in Seq(B)
      BY <2>1, <2>2, <2>3
    <2> QED BY <2>2, <2>4
  <1>6. o \in Nat /\ PartAt(a, o, l)
    BY <1>1, <1>2, <1>4, <1>5, ArchiveFacts
  <1>7. l \in Seq(B) /\ Len(l) = d + 1 /\ d \in Nat
    <2>1. l \in Seq(B)
      BY <1>1, <1>4, <1>5
    <2>2. Len(l) = d + 1
      BY <1>1, <1>2, <1>4, LocalFacts
    <2>3. d \in Nat
      BY <1>2, <1>4 DEF IsFile
    <2> QED BY <2>1, <2>2, <2>3
  <1>8. B \subseteq T
    BY <1>1, <1>3 DEF Cells
  <1>9. a \in Seq(T) /\ l \in Seq(T)
    <2>1. a \in Seq(T)
      BY <1>4, <1>8
    <2>2. l \in Seq(T)
      BY <1>7, <1>8
    <2> QED BY <2>1, <2>2
  <1>10. w \in Seq(T) /\ PartAt(w, z, a)
    BY <1>1, <1>2, <1>3, ImageFacts
  <1>11. PartAt(w, z + o, l)
    BY <1>2, <1>4, <1>6, <1>9, <1>10, AtPart
  <1>12. PICK s : s = z + o /\ s \in Nat
    BY <1>4, <1>6
  <1>13. SubSeq(w, s + 1, s + Len(l)) = l
    BY <1>9, <1>10, <1>11, <1>12, AtSubSeq
  <1>14. s + Len(l) <= Len(w) /\ Len(w) \in Nat
    <2>1. s + Len(l) <= Len(w)
      BY <1>11, <1>12 DEF PartAt
    <2> QED BY <1>10, <2>1
  <1>15. e.start = s /\ e.end = s + d
    BY <1>1, <1>2, <1>12 DEF Describes
  <1>16. s + d < Len(w) /\ (s + d) + 1 = s + Len(l)
    BY <1>7, <1>12, <1>14
  <1>17. Bytes(w, s, s + d) = l
    BY <1>13, <1>16 DEF Bytes
  <1>18. ASSUME NEW j \in 0 .. d PROVE Bytes(w, s + j, s + j) = <<l[j + 1]>>
    <2>1. PICK i \in Nat : i = s + j
      BY <1>7, <1>12
    <2>2. i < Len(w) /\ j + 1 \in 1 .. Len(l) /\ s + (j + 1) = i + 1
      BY <1>7, <1>12, <1>14, <2>1
    <2>3. w[i + 1] = l[j + 1]
      BY <1>11, <1>12, <2>2 DEF PartAt
    <2>4. Bytes(w, i, i) = SubSeq(w, i + 1, i + 1)
      BY <2>2 DEF Bytes
    <2>5. SubSeq(w, i + 1, i + 1) = <<w[i + 1]>>
      <3>1. PICK x, m : x = SubSeq(w, i + 1, m) /\ m = i + 1
        OBVIOUS
      <3>2. x \in Seq(T) /\ Len(x) = m - i /\ \A h \in 1 .. m - i : x[h] = w[i + h]
        <4>1. m \in Nat /\ i <= m /\ m <= Len(w)
          <5>1. PICK n : n = Len(w)
            OBVIOUS
          <5>2. i \in Nat /\ n \in Nat /\ i < n /\ m = i + 1
            BY <1>14, <2>1, <2>2, <3>1, <5>1, Zenon
          <5>3. m \in Nat /\ i <= m /\ m <= n
            BY <5>2
          <5> QED BY <5>1, <5>3
        <4> QED BY <1>10, <3>1, <4>1, SubSeqFacts
      <3>3. Len(x) = 1 /\ x[1] = w[i + 1]
        <4>1. m - i = 1 /\ 1 \in 1 .. 1
          BY <2>1, <3>1
        <4> QED BY <3>2, <4>1
      <3>4. x = <<x[1]>>
        <4>1. x \in Seq(T)
          BY <3>2
        <4> QED BY <3>3, <4>1
      <3> QED BY <3>1, <3>3, <3>4
    <2> QED BY <2>1, <2>3, <2>4, <2>5
  <1> QED BY <1>1, <1>2, <1>15, <1>17, <1>18

--------------------------------------------------------------------------------
(* The entries of a release *)

\* Entry e is of the file at place p.
OfPlace(e, r, p) ==
  LET inst == Installers[r][p[1]]
  IN Describes(e, FileAt(r, p), p[1], ZipOffset(inst) + LocalOffset(inst.files, p[2]))

LEMMA PlaceFacts ==
  ASSUME NEW r \in Releases
  PROVE  /\ Installers[r] \in Seq(ToSet(Installers[r]))
         /\ DOMAIN Installers[r] = 1 .. Len(Installers[r]) /\ Len(Installers[r]) \in Nat
         /\ \A u \in DOMAIN Installers[r] :
              /\ IsInstaller(Installers[r][u]) /\ Listable(Installers[r][u])
              /\ DOMAIN Installers[r][u].files = 1 .. Len(Installers[r][u].files)
              /\ \A k \in DOMAIN Installers[r][u].files : <<u, k>> \in Places(r)
         /\ \A p \in Places(r) :
              /\ p[1] \in DOMAIN Installers[r] /\ p[2] \in DOMAIN Installers[r][p[1]].files
              /\ IsFile(FileAt(r, p)) /\ p = <<p[1], p[2]>>
  <1>1. /\ IsList(Installers[r])
        /\ \A u \in DOMAIN Installers[r] :
             IsInstaller(Installers[r][u]) /\ Listable(Installers[r][u])
    BY ReleaseAssumption
  <1>2. PICK s : s = Installers[r]
    OBVIOUS
  <1>3. s \in Seq(ToSet(s)) /\ DOMAIN s = 1 .. Len(s) /\ Len(s) \in Nat
    <2>1. s \in Seq(ToSet(s))
      BY <1>1, <1>2 DEF IsList
    <2> QED BY <2>1
  <1>4. \A u \in DOMAIN s : /\ DOMAIN s[u].files = 1 .. Len(s[u].files)
                            /\ \A k \in DOMAIN s[u].files : IsFile(s[u].files[k])
    BY <1>1, <1>2, InstallerFacts
  <1>5. \A u \in DOMAIN s : \A k \in DOMAIN s[u].files : <<u, k>> \in Places(r)
    BY <1>2 DEF Places
  <1>6. ASSUME NEW p \in Places(r)
        PROVE  /\ p[1] \in DOMAIN s /\ p[2] \in DOMAIN s[p[1]].files
               /\ IsFile(FileAt(r, p)) /\ p = <<p[1], p[2]>>
    <2>1. PICK u \in DOMAIN s : \E k \in DOMAIN s[u].files : p = <<u, k>>
      BY <1>2 DEF Places
    <2>2. PICK k \in DOMAIN s[u].files : p = <<u, k>>
      BY <2>1
    <2>3. p[1] = u /\ p[2] = k
      BY <2>2
    <2>4. IsFile(s[u].files[k])
      BY <1>4
    <2> QED BY <1>2, <2>2, <2>3, <2>4 DEF FileAt
  <1> QED BY <1>1, <1>2, <1>3, <1>4, <1>5, <1>6

\* The lists of the installers of a release.
Vectors(r) ==
  [u \in DOMAIN Installers[r] |->
     FileVector(Image(Installers[r][u]), ZipOffset(Installers[r][u]), u)]
Listing(r) == UNION {ToSet(Vectors(r)[u]) : u \in DOMAIN Installers[r]}

LEMMA VectorsFacts ==
  ASSUME NEW r \in Releases
  PROVE  /\ Entries[r] = FlattenSeq(Vectors(r))
         /\ Vectors(r) \in Seq(Seq(Listing(r))) /\ Len(Vectors(r)) = Len(Installers[r])
         /\ \A u \in 1 .. Len(Vectors(r)) :
              /\ Len(Vectors(r)[u]) = Len(Installers[r][u].files)
              /\ \A k \in 1 .. Len(Vectors(r)[u]) : OfPlace(Vectors(r)[u][k], r, <<u, k>>)
  <1>1. PICK s : s = Installers[r]
    OBVIOUS
  <1>2. DOMAIN s = 1 .. Len(s) /\ Len(s) \in Nat
        /\ \A u \in DOMAIN s : IsInstaller(s[u]) /\ Listable(s[u])
    BY <1>1, PlaceFacts
  <1>3. PICK v, L : v = Vectors(r) /\ L = Listing(r)
    OBVIOUS
  <1>4. DOMAIN v = 1 .. Len(s)
        /\ \A u \in 1 .. Len(s) : v[u] = FileVector(Image(s[u]), ZipOffset(s[u]), u)
    BY <1>1, <1>2, <1>3 DEF Vectors
  <1>5. ASSUME NEW u \in 1 .. Len(s)
        PROVE  /\ v[u] \in Seq(L) /\ Len(v[u]) = Len(s[u].files)
               /\ \A k \in 1 .. Len(v[u]) : OfPlace(v[u][k], r, <<u, k>>)
    <2>1. PICK inst, fs, x : inst = s[u] /\ fs = inst.files /\ x = v[u]
      OBVIOUS
    <2>2. /\ x \in Seq(ToSet(x)) /\ Len(x) = Len(fs)
          /\ \A k \in 1 .. Len(fs) : Describes(x[k], fs[k], u, ZipOffset(inst) + LocalOffset(fs, k))
      BY <1>2, <1>4, <2>1, VectorFacts
    <2>3. \A k \in 1 .. Len(fs) : OfPlace(x[k], r, <<u, k>>)
      BY <1>1, <2>1, <2>2 DEF OfPlace, FileAt
    <2>4. ToSet(x) \subseteq L
      BY <1>1, <1>2, <1>3, <2>1 DEF Listing
    <2>5. x \in Seq(L)
      <3>1. PICK A : A = ToSet(x)
        OBVIOUS
      <3>2. x \in Seq(A) /\ A \subseteq L
        BY <2>2, <2>4, <3>1
      <3> QED BY <3>2
    <2> QED BY <2>1, <2>2, <2>3, <2>5
  <1>6. v \in Seq(Seq(L)) /\ Len(v) = Len(s)
    <2>1. v = [u \in 1 .. Len(s) |-> v[u]]
      BY <1>1, <1>2, <1>3 DEF Vectors
    <2>2. PICK N : N = Seq(L)
      OBVIOUS
    <2>3. \A u \in 1 .. Len(s) : v[u] \in N
      BY <1>5, <2>2
    <2>4. v \in Seq(N) /\ Len(v) = Len(s)
      BY <1>2, <2>1, <2>3
    <2> QED BY <2>2, <2>4
  <1>7. Entries[r] = FlattenSeq(v)
    <2>1. v = [u \in DOMAIN Installers[r] |->
                 FileVector(Images[r][u], ZipOffset(Installers[r][u]), u)]
      BY <1>3 DEF Vectors, Images
    <2> QED BY <2>1 DEF Entries
  <1> QED BY <1>1, <1>3, <1>5, <1>6, <1>7

LEMMA EntriesFacts ==
  ASSUME NEW r \in Releases
  PROVE  /\ Entries[r] \in Seq(Listing(r)) /\ DOMAIN Entries[r] = 1 .. Len(Entries[r])
         /\ Len(Entries[r]) \in Nat
         /\ \A p \in Places(r) : \E e \in ToSet(Entries[r]) : OfPlace(e, r, p)
         /\ \A e \in ToSet(Entries[r]) :
              \E p \in Places(r) : OfPlace(e, r, p) /\ e = Vectors(r)[p[1]][p[2]]
  <1>1. PICK w, v, L : w = Entries[r] /\ v = Vectors(r) /\ L = Listing(r)
    OBVIOUS
  <1>2. PICK s : s = Installers[r]
    OBVIOUS
  <1>3. /\ w = FlattenSeq(v) /\ v \in Seq(Seq(L)) /\ Len(v) = Len(s)
        /\ \A u \in 1 .. Len(v) : /\ Len(v[u]) = Len(s[u].files)
                                  /\ \A k \in 1 .. Len(v[u]) : OfPlace(v[u][k], r, <<u, k>>)
    BY <1>1, <1>2, VectorsFacts, Zenon
  <1>4. DOMAIN s = 1 .. Len(s) /\ Len(s) \in Nat
        /\ \A u \in DOMAIN s : DOMAIN s[u].files = 1 .. Len(s[u].files)
    BY <1>2, PlaceFacts
  <1>5. w \in Seq(L) /\ \A u \in 1 .. Len(v) : ToSet(v[u]) \subseteq ToSet(w)
    BY <1>3, FlattenFacts
  <1>6. \A x \in ToSet(w) : \E u \in 1 .. Len(v) : x \in ToSet(v[u])
    BY <1>3, FlattenElements
  <1>7. \A u \in 1 .. Len(v) : DOMAIN v[u] = 1 .. Len(v[u])
    <2>1. \A u \in 1 .. Len(v) : v[u] \in Seq(L)
      BY <1>3
    <2> QED BY <2>1
  <1>8. ASSUME NEW p \in Places(r) PROVE \E e \in ToSet(w) : OfPlace(e, r, p)
    <2>1. p[1] \in 1 .. Len(v) /\ p[2] \in 1 .. Len(v[p[1]]) /\ p = <<p[1], p[2]>>
      BY <1>2, <1>3, <1>4, PlaceFacts
    <2>2. PICK u, k : u = p[1] /\ k = p[2]
      OBVIOUS
    <2>3. u \in 1 .. Len(v) /\ k \in 1 .. Len(v[u]) /\ p = <<u, k>>
      BY <2>1, <2>2
    <2>4. OfPlace(v[u][k], r, p)
      BY <1>3, <2>3, Zenon
    <2>5. v[u][k] \in ToSet(v[u])
      BY <1>7, <2>3 DEF ToSet
    <2>6. v[u][k] \in ToSet(w)
      BY <1>5, <2>3, <2>5, Zenon
    <2> QED BY <2>4, <2>6
  <1>9. ASSUME NEW e \in ToSet(w)
        PROVE  \E p \in Places(r) : OfPlace(e, r, p) /\ e = v[p[1]][p[2]]
    <2>1. PICK u \in 1 .. Len(v) : e \in ToSet(v[u])
      BY <1>6
    <2>2. PICK k \in 1 .. Len(v[u]) : e = v[u][k]
      BY <1>7, <2>1 DEF ToSet
    <2>3. OfPlace(e, r, <<u, k>>)
      BY <1>3, <2>1, <2>2, Zenon
    <2>4. u \in DOMAIN s /\ k \in DOMAIN s[u].files
      BY <1>3, <1>4, <2>1, <2>2
    <2>5. <<u, k>> \in Places(r)
      BY <1>2, <2>4, PlaceFacts, Zenon
    <2>6. PICK p : p = <<u, k>>
      OBVIOUS
    <2>7. p \in Places(r) /\ OfPlace(e, r, p) /\ p[1] = u /\ p[2] = k
      BY <2>3, <2>5, <2>6
    <2> QED BY <2>2, <2>7
  <1>10. DOMAIN w = 1 .. Len(w) /\ Len(w) \in Nat
    BY <1>5
  <1> QED BY <1>1, <1>5, <1>8, <1>9, <1>10

LEMMA OfPlaceRange ==
  ASSUME NEW r \in Releases, NEW p \in Places(r), NEW e, OfPlace(e, r, p)
  PROVE  /\ RangeOf(e, r, p)
         /\ \A j \in 0 .. Len(FileAt(r, p).data) :
              Bytes(Images[r][e.url], e.start + j, e.start + j) = <<Local(FileAt(r, p))[j + 1]>>
  <1>1. PICK u, k, inst : u = p[1] /\ k = p[2] /\ inst = Installers[r][u]
    OBVIOUS
  <1>2. u \in DOMAIN Installers[r] /\ IsInstaller(inst) /\ k \in 1 .. Len(inst.files)
    BY <1>1, PlaceFacts
  <1>3. Describes(e, inst.files[k], u, ZipOffset(inst) + LocalOffset(inst.files, k))
        /\ FileAt(r, p) = inst.files[k]
    BY <1>1 DEF OfPlace, FileAt
  <1>4. /\ Bytes(Image(inst), e.start, e.end) = Local(inst.files[k])
        /\ \A j \in 0 .. Len(inst.files[k].data) :
             Bytes(Image(inst), e.start + j, e.start + j) = <<Local(inst.files[k])[j + 1]>>
    BY <1>2, <1>3, RangeFacts
  <1>5. e.url = u /\ e.path = inst.files[k].path
    BY <1>3 DEF Describes
  <1>6. Images[r][u] = Image(inst)
    BY <1>1, <1>2 DEF Images
  <1> QED BY <1>1, <1>3, <1>4, <1>5, <1>6 DEF RangeOf

\* The entries of a release have different paths.
LEMMA PathsDistinct ==
  ASSUME NEW r \in Releases, NEW m \in DOMAIN Entries[r], NEW n \in DOMAIN Entries[r],
         Entries[r][m].path = Entries[r][n].path
  PROVE  m = n
  <1>1. PICK w, v, L : w = Entries[r] /\ v = Vectors(r) /\ L = Listing(r)
    OBVIOUS
  <1>2. /\ w = FlattenSeq(v) /\ v \in Seq(Seq(L)) /\ Len(v) = Len(Installers[r])
        /\ \A u \in 1 .. Len(v) : /\ Len(v[u]) = Len(Installers[r][u].files)
                                  /\ \A k \in 1 .. Len(v[u]) : OfPlace(v[u][k], r, <<u, k>>)
    BY <1>1, VectorsFacts, Zenon
  <1>3. DOMAIN w = 1 .. Len(w)
    BY <1>1, EntriesFacts
  <1>4. \A p, q \in Places(r) : FileAt(r, p).path = FileAt(r, q).path => p = q
    BY NamesAssumption
  <1>5. ASSUME NEW u \in 1 .. Len(v), NEW k \in 1 .. Len(v[u])
        PROVE  <<u, k>> \in Places(r) /\ v[u][k].path = FileAt(r, <<u, k>>).path
    <2>1. u \in DOMAIN Installers[r] /\ k \in DOMAIN Installers[r][u].files
      BY <1>2, PlaceFacts
    <2>2. <<u, k>> \in Places(r)
      BY <2>1, PlaceFacts
    <2>3. OfPlace(v[u][k], r, <<u, k>>)
      BY <1>2
    <2> QED BY <2>2, <2>3 DEF OfPlace, Describes
  <1>6. ASSUME NEW u \in 1 .. Len(v), NEW j \in 1 .. Len(v[u]),
               NEW x \in 1 .. Len(v), NEW k \in 1 .. Len(v[x]), v[u][j].path = v[x][k].path
        PROVE  u = x /\ j = k
    <2>1. <<u, j>> = <<x, k>>
      BY <1>4, <1>5, <1>6
    <2> QED BY <2>1
  <1>7. \A i \in 1 .. Len(v) : \A j, k \in 1 .. Len(v[i]) : v[i][j] = v[i][k] => j = k
    BY <1>6
  <1>8. ASSUME NEW i \in 1 .. Len(v), NEW j \in 1 .. Len(v), NEW e \in ToSet(v[i]) \cap ToSet(v[j])
        PROVE  i = j
    <2>1. \A x \in 1 .. Len(v) : DOMAIN v[x] = 1 .. Len(v[x])
      <3>1. \A x \in 1 .. Len(v) : v[x] \in Seq(L)
        BY <1>2
      <3> QED BY <3>1
    <2>2. PICK k \in 1 .. Len(v[i]) : e = v[i][k]
      BY <2>1 DEF ToSet
    <2>3. PICK l \in 1 .. Len(v[j]) : e = v[j][l]
      BY <2>1 DEF ToSet
    <2>4. v[i][k].path = v[j][l].path
      BY <2>2, <2>3
    <2> QED BY <1>6, <2>2, <2>3, <2>4
  <1>9. \A i, j \in 1 .. Len(v) : i # j => ToSet(v[i]) \cap ToSet(v[j]) = {}
    BY <1>8
  <1>10. \A j, k \in 1 .. Len(w) : w[j] = w[k] => j = k
    BY <1>2, <1>7, <1>9, FlattenDistinct
  <1>11. PICK d, e : d = w[m] /\ e = w[n]
    OBVIOUS
  <1>12. d \in ToSet(w) /\ e \in ToSet(w) /\ d.path = e.path
    BY <1>1, <1>11 DEF ToSet
  <1>13. PICK p \in Places(r) : OfPlace(d, r, p) /\ d = v[p[1]][p[2]]
    BY <1>1, <1>12, EntriesFacts
  <1>14. PICK q \in Places(r) : OfPlace(e, r, q) /\ e = v[q[1]][q[2]]
    BY <1>1, <1>12, EntriesFacts
  <1>15. FileAt(r, p).path = FileAt(r, q).path
    <2>1. d.path = FileAt(r, p).path
      BY <1>13 DEF OfPlace, Describes
    <2>2. e.path = FileAt(r, q).path
      BY <1>14 DEF OfPlace, Describes
    <2> QED BY <1>12, <2>1, <2>2
  <1>16. p = q
    BY <1>4, <1>15
  <1>17. w[m] = w[n]
    BY <1>11, <1>13, <1>14, <1>16
  <1> QED BY <1>1, <1>3, <1>10, <1>17

\* What an entry says, and what its range holds.
LEMMA EntryFacts ==
  ASSUME NEW r \in Releases, NEW n \in DOMAIN Entries[r]
  PROVE  LET e == Entries[r][n]
         IN \E p \in Places(r) :
              /\ IsFile(FileAt(r, p)) /\ e.path = FileAt(r, p).path /\ e.path \notin Listed[r]
              /\ e.kind = FileAt(r, p).kind /\ e.base = FileAt(r, p).base
              /\ e.part = FileAt(r, p).part /\ e.part \in Nat /\ e.comp = Len(FileAt(r, p).data)
              /\ e.crc = Content(FileAt(r, p))
              /\ e.comp \in Nat /\ e.start \in Nat /\ e.end = e.start + e.comp
              /\ Bytes(Images[r][e.url], e.start, e.end) = Local(FileAt(r, p))
              /\ \A j \in 0 .. e.comp :
                   Bytes(Images[r][e.url], e.start + j, e.start + j) = <<Local(FileAt(r, p))[j + 1]>>
  <1>1. PICK e : e = Entries[r][n] /\ e \in ToSet(Entries[r])
    BY DEF ToSet
  <1>2. PICK p \in Places(r) : OfPlace(e, r, p)
    BY <1>1, EntriesFacts
  <1>3. /\ RangeOf(e, r, p)
        /\ \A j \in 0 .. Len(FileAt(r, p).data) :
             Bytes(Images[r][e.url], e.start + j, e.start + j) = <<Local(FileAt(r, p))[j + 1]>>
    BY <1>2, OfPlaceRange
  <1>4. PICK f : f = FileAt(r, p) /\ IsFile(f)
    BY PlaceFacts
  <1>5. f.part \in Nat /\ Len(f.data) \in Nat
    BY <1>4 DEF IsFile
  <1>6. f.path \notin Listed[r]
    BY <1>4, NamesAssumption
  <1>7. /\ e.path = f.path /\ e.kind = f.kind /\ e.base = f.base /\ e.part = f.part
        /\ e.comp = Len(f.data) /\ e.start \in Nat /\ e.end = e.start + Len(f.data)
        /\ e.crc = Content(f)
    BY <1>2, <1>4 DEF OfPlace, Describes
  <1>8. Bytes(Images[r][e.url], e.start, e.end) = Local(f)
    BY <1>3, <1>4 DEF RangeOf
  <1>9. \A j \in 0 .. e.comp :
          Bytes(Images[r][e.url], e.start + j, e.start + j) = <<Local(f)[j + 1]>>
    BY <1>3, <1>4, <1>7
  <1> QED BY <1>1, <1>4, <1>5, <1>6, <1>7, <1>8, <1>9

--------------------------------------------------------------------------------
(* Every file of every installer of the server's release is listed with its    *)
(* exact range, and nothing else is.                                           *)

LEMMA ServerStep ==
  ASSUME server \in Releases, [Next]_vars
  PROVE  server' \in Releases
  <1>1. CASE Publish
    BY <1>1 DEF Publish
  <1>2. CASE UNCHANGED server
    BY <1>2
  <1>3. Publish \/ UNCHANGED server
    <2>1. CASE Crash \/ Start \/ UNCHANGED vars
      <3>1. ASSUME NEW known \in BOOLEAN, Begin(known) PROVE UNCHANGED server
        BY <3>1 DEF Begin
      <3>2. (Crash => UNCHANGED server) /\ (UNCHANGED vars => UNCHANGED server)
        BY DEF vars, Crash
      <3> QED BY <2>1, <3>1, <3>2 DEF Start
    <2>2. CASE Main
      <3>1. CASE StartThreads \/ PrintProgress \/ JoinThreads
        <4>1. (StartThreads => UNCHANGED server) /\ (JoinThreads => UNCHANGED server)
          BY DEF StartThreads, JoinThreads
        <4>2. PrintProgress => UNCHANGED server
          BY DEF PrintProgress, vars
        <4> QED BY <3>1, <4>1, <4>2
      <3>2. CASE SkipBase \/ StartCombining \/ StartFails
        BY <3>2 DEF SkipBase, StartCombining, StartFails
      <3>3. ASSUME NEW ok \in BOOLEAN, AppendPart(ok) \/ RemovePart(ok) \/ RenameFirst(ok)
            PROVE  UNCHANGED server
        BY <3>3 DEF AppendPart, RemovePart, RenameFirst
      <3>4. CASE AppendFails \/ AllAppended \/ End
        BY <3>4 DEF AppendFails, AllAppended, End
      <3>5. CASE CreateThread \/ CopyStatuses \/ MoveStatuses
        BY <3>5 DEF CreateThread, CopyStatuses, MoveStatuses, CreateNext
      <3> QED BY <2>2, <3>1, <3>2, <3>3, <3>4, <3>5 DEF Main
    <2>3. ASSUME NEW t \in Workers, Worker(t) PROVE UNCHANGED server
      <3>1. MainSame
        BY <2>3 DEF Worker, Pop, DirectoryFails, ReplaceFails, Keep, Replace, MakeLink,
                    FetchSmall, Extracted, Create, FetchSmallFails, Open, Receive, Received,
                    Interrupted, TransferFails, Extract, ExtractFails, Finish
      <3> QED BY <3>1 DEF MainSame
    <2> QED BY <2>1, <2>2, <2>3 DEF Next
  <1> QED BY <1>1, <1>2, <1>3

THEOREM RangesCorrect == Spec => []RangesExact
  <1>1. Init => server \in Releases
    BY GamesAssumption DEF Init
  <1>2. server \in Releases /\ [Next]_vars => (server \in Releases)'
    BY ServerStep
  <1>3. server \in Releases => RangesExact
    <2> SUFFICES ASSUME server \in Releases PROVE RangesExact
      OBVIOUS
    <2>1. \A p \in Places(server) : \E e \in ToSet(Entries[server]) : RangeOf(e, server, p)
      BY EntriesFacts, OfPlaceRange
    <2>2. \A e \in ToSet(Entries[server]) : \E p \in Places(server) : RangeOf(e, server, p)
      BY EntriesFacts, OfPlaceRange
    <2> QED BY <2>1, <2>2 DEF RangesExact
  <1> QED BY <1>1, <1>2, <1>3, PTL DEF Spec

--------------------------------------------------------------------------------
(* What is extracted *)

\* The cells of the ranges of all files, and where a cell comes from.
AllCells == UNION {UNION {ToSet(Local(FileAt(r, p))) : p \in Places(r)} : r \in Releases}

CellAt(f, c, k) == k \in 1 .. Len(f.data) + 1 /\ c = Local(f)[k]
CameFrom(c, k, path) ==
  \E r \in Releases : \E p \in Places(r) : FileAt(r, p).path = path /\ CellAt(FileAt(r, p), c, k)

\* The first cell is the header, the others are the data.
LEMMA CellFacts ==
  ASSUME NEW f, IsFile(f), NEW k \in 1 .. Len(f.data) + 1
  PROVE  LET c == Local(f)[k]
         IN /\ c \in ToSet(Local(f))
            /\ k = 1 => c = Header(f)
            /\ k # 1 => k - 1 \in 1 .. Len(f.data) /\ c = Piece(f.data[k - 1])
  <1>1. PICK l, n : l = Local(f) /\ n = Len(f.data)
    OBVIOUS
  <1>2. l \in Seq(ToSet(l)) /\ Len(l) = n + 1 /\ l[1] = Header(f) /\ n \in Nat
        /\ \A i \in 1 .. n : l[i + 1] = Piece(f.data[i])
    BY <1>1, LocalFacts DEF IsFile
  <1>3. l[k] \in ToSet(l)
    BY <1>1, <1>2 DEF ToSet
  <1>4. ASSUME k # 1 PROVE k - 1 \in 1 .. n /\ l[k] = Piece(f.data[k - 1])
    <2>1. k - 1 \in 1 .. n /\ (k - 1) + 1 = k
      BY <1>1, <1>2, <1>4
    <2> QED BY <1>2, <2>1
  <1> QED BY <1>1, <1>2, <1>3, <1>4

LEMMA CellKinds ==
  ASSUME NEW c \in AllCells
  PROVE  \/ c.kind = "header" /\ c.stored \in BOOLEAN /\ c.content \in Seq(Int \ {0})
         \/ c.kind = "data" /\ c.value \in Int \ {0}
  <1>1. PICK r \in Releases : \E p \in Places(r) : c \in ToSet(Local(FileAt(r, p)))
    BY DEF AllCells
  <1>2. PICK p \in Places(r) : c \in ToSet(Local(FileAt(r, p)))
    BY <1>1
  <1>3. PICK f : f = FileAt(r, p) /\ IsFile(f) /\ c \in ToSet(Local(f))
    BY <1>2, PlaceFacts
  <1>4. PICK l, n : l = Local(f) /\ n = Len(f.data)
    OBVIOUS
  <1>5. Len(l) = n + 1 /\ n \in Nat /\ l \in Seq(ToSet(l))
    BY <1>3, <1>4, LocalFacts DEF IsFile
  <1>6. PICK k \in 1 .. n + 1 : c = l[k]
    <2>1. DOMAIN l = 1 .. n + 1
      BY <1>5
    <2> QED BY <1>3, <1>4, <2>1 DEF ToSet
  <1>7. CASE k = 1
    <2>1. c = Header(f)
      BY <1>3, <1>4, <1>6, <1>7, CellFacts
    <2>2. Content(f) \in Seq(Int \ {0})
      BY <1>3, ContentFacts
    <2>3. f.stored \in BOOLEAN
      BY <1>3 DEF IsFile
    <2> QED BY <2>1, <2>2, <2>3 DEF Header
  <1>8. CASE k # 1
    <2>1. k - 1 \in 1 .. n /\ c = Piece(f.data[k - 1])
      BY <1>3, <1>4, <1>6, <1>8, CellFacts
    <2>2. f.data[k - 1] \in Int \ {0}
      BY <1>3, <1>4, <2>1 DEF IsFile
    <2> QED BY <2>1, <2>2 DEF Piece
  <1> QED BY <1>7, <1>8

LEMMA CommonPrefix ==
  ASSUME NEW T, NEW a \in Seq(T), NEW b \in Seq(T)
  PROVE  LongestCommonPrefix({a, b}) \in Seq(T)
  <1> DEFINE C == CommonPrefixes({a, b})
             L == {Len(a) - Len(c) : c \in C}
  <1>1. ASSUME NEW c \in C
        PROVE  c \in Seq(T) /\ Len(c) \in Nat /\ Len(a) - Len(c) \in Nat
    <2>1. c \in UNION {Prefixes(s) : s \in {a, b}} /\ IsPrefix(c, a)
      BY DEF CommonPrefixes
    <2>2. PICK s \in {a, b} : c \in Prefixes(s)
      BY <2>1
    <2>3. s \in Seq(T)
      OBVIOUS
    <2>4. PICK l \in 0 .. Len(s) : c = SubSeq(s, 1, l)
      BY <2>2 DEF Prefixes
    <2>5. c \in Seq(T)
      BY <2>3, <2>4
    <2>6. Len(c) <= Len(a)
      BY <2>1 DEF IsPrefix
    <2> QED BY <2>5, <2>6
  <1>2. <<>> \in C
    <2>1. SubSeq(a, 1, 0) = <<>> /\ SubSeq(b, 1, 0) = <<>> /\ 0 \in 0 .. Len(a)
          /\ Len(<<>>) = 0 /\ SubSeq(<<>>, 1, 0) = <<>> /\ 0 <= Len(a) /\ 0 <= Len(b)
      OBVIOUS
    <2>2. <<>> \in Prefixes(a)
      BY <2>1 DEF Prefixes
    <2>3. \A t \in {a, b} : IsPrefix(<<>>, t)
      BY <2>1 DEF IsPrefix
    <2> QED BY <2>2, <2>3 DEF CommonPrefixes
  <1>3. L \in SUBSET Nat /\ L # {}
    <2> HIDE DEF C
    <2> QED BY <1>1, <1>2
  <1>4. PICK m \in L : \A k \in L : m <= k
    <2> HIDE DEF L
    <2> QED BY <1>3, SmallestElement
  <1>5. PICK c \in C : m = Len(a) - Len(c)
    OBVIOUS
  <1>6. \A d \in C : Len(d) <= Len(c)
    <2> HIDE DEF C
    <2> SUFFICES ASSUME NEW d \in C PROVE Len(d) <= Len(c)
      OBVIOUS
    <2>1. Len(a) - Len(c) <= Len(a) - Len(d)
      BY <1>4, <1>5
    <2>2. Len(d) \in Nat /\ Len(c) \in Nat /\ Len(a) \in Nat
      BY <1>1
    <2> QED BY <2>1, <2>2
  <1>7. LongestCommonPrefix({a, b}) \in C
    <2>1. \E x \in C : \A d \in C : Len(d) <= Len(x)
      BY <1>6
    <2> QED BY <2>1 DEF LongestCommonPrefix
  <1> HIDE DEF C
  <1> QED BY <1>1, <1>7

LEMMA BlocksFacts ==
  ASSUME NEW stored \in BOOLEAN, NEW cs \in Seq(AllCells)
  PROVE  Blocks(stored, cs) \in Seq(Int)
  <1>1. PICK s : s = [i \in DOMAIN cs |->
                        IF cs[i].kind = "data" THEN Unpack(stored, cs[i].value) ELSE <<Unusable>>]
    OBVIOUS
  <1>2. DOMAIN cs = 1 .. Len(cs) /\ Len(cs) \in Nat /\ \A i \in DOMAIN cs : cs[i] \in AllCells
    OBVIOUS
  <1>3. ASSUME NEW i \in DOMAIN cs PROVE s[i] \in Seq(Int)
    <2>1. CASE cs[i].kind = "data"
      <3>1. cs[i].value \in Int \ {0}
        BY <1>2, <2>1, CellKinds
      <3>2. Unpack(stored, cs[i].value) \in Seq(Int \ {0})
        BY <3>1, UnpackFacts
      <3> QED BY <1>1, <2>1, <3>2
    <2>2. CASE cs[i].kind # "data"
      BY <1>1, <2>2 DEF Unusable
    <2> QED BY <2>1, <2>2
  <1>4. s \in Seq(Seq(Int))
    <2>1. PICK N : N = Seq(Int)
      OBVIOUS
    <2>2. s = [i \in 1 .. Len(cs) |-> s[i]] /\ \A i \in 1 .. Len(cs) : s[i] \in N
      BY <1>1, <1>2, <1>3, <2>1
    <2>3. s \in Seq(N)
      BY <1>2, <2>2
    <2> QED BY <2>1, <2>3
  <1>5. FlattenSeq(s) \in Seq(Int)
    BY <1>4, FlattenFacts
  <1> QED BY <1>1, <1>5 DEF Blocks

LEMMA ExtractionFacts ==
  ASSUME NEW s \in Seq(AllCells), NEW whole \in BOOLEAN, NEW x \in Outcomes(s, whole)
  PROVE  x.out \in Seq(Int)
  <1>1. ASSUME NEW y \in Extractions(s) PROVE y.out \in Seq(Int)
    <2>1. CASE s = <<>> \/ s[1].kind # "header"
      <3>1. y = [ok |-> FALSE, out |-> <<>>]
        BY <1>1, <2>1, Zenon DEF Extractions
      <3>2. y.out = <<>> /\ <<>> \in Seq(Int)
        BY <3>1
      <3> QED BY <3>2
    <2>2. CASE s # <<>> /\ s[1].kind = "header"
      <3>1. s[1] \in AllCells /\ Tail(s) \in Seq(AllCells)
        BY <2>2
      <3>2. s[1].stored \in BOOLEAN /\ s[1].content \in Seq(Int \ {0})
        BY <2>2, <3>1, CellKinds
      <3>3. PICK blocks : blocks = Blocks(s[1].stored, Tail(s))
        OBVIOUS
      <3>4. PICK content : content = s[1].content
        OBVIOUS
      <3>5. blocks \in Seq(Int)
        BY <3>1, <3>2, <3>3, BlocksFacts
      <3>6. content \in Seq(Int)
        BY <3>2, <3>4
      <3>7. PICK right : right = LongestCommonPrefix({content, blocks})
        OBVIOUS
      <3>8. right \in Seq(Int) /\ right \o <<Unusable>> \in Seq(Int)
        <4>1. right \in Seq(Int)
          BY <3>5, <3>6, <3>7, CommonPrefix
        <4> QED BY <4>1 DEF Unusable
      <3>9. y \in {[ok |-> TRUE, out |-> blocks], [ok |-> TRUE, out |-> content],
                   [ok |-> FALSE, out |-> right], [ok |-> TRUE, out |-> right \o <<Unusable>>]}
        BY <1>1, <2>2, <3>3, <3>4, <3>7 DEF Extractions
      <3>10. PICK other : other = right \o <<Unusable>>
        OBVIOUS
      <3>11. y.out \in {blocks, content, right, other}
        <4>1. \/ y = [ok |-> TRUE, out |-> blocks] \/ y = [ok |-> TRUE, out |-> content]
              \/ y = [ok |-> FALSE, out |-> right] \/ y = [ok |-> TRUE, out |-> other]
          BY <3>9, <3>10, Zenon
        <4>2. y.out = blocks \/ y.out = content \/ y.out = right \/ y.out = other
          BY <4>1
        <4> QED BY <4>2
      <3>12. {blocks, content, right, other} \subseteq Seq(Int)
        BY <3>5, <3>6, <3>8, <3>10, Zenon
      <3> QED BY <3>11, <3>12
    <2> QED BY <2>1, <2>2
  <1>2. CASE whole
    BY <1>1, <1>2 DEF Outcomes
  <1>3. CASE ~whole
    <2>1. PICK y \in Extractions(s) : y.out # <<>> /\ x = [ok |-> TRUE, out |-> SubSeq(y.out, 1, Len(y.out) - 1)]
      BY <1>3 DEF Outcomes
    <2>2. PICK o : o = y.out /\ o \in Seq(Int) /\ o # <<>>
      BY <1>1, <2>1
    <2>3. SubSeq(o, 1, Len(o) - 1) \in Seq(Int)
      BY <2>2
    <2> QED BY <2>1, <2>2, <2>3
  <1> QED BY <1>2, <1>3

--------------------------------------------------------------------------------
(* The queue and the parts *)

Once(s) == \A i, j \in DOMAIN s : s[i] = s[j] => i = j

LEMMA JoinOnce ==
  ASSUME NEW T, NEW a \in Seq(T), NEW b \in Seq(T), Once(a), Once(b),
         ToSet(a) \cap ToSet(b) = {}
  PROVE  a \o b \in Seq(T) /\ Once(a \o b) /\ ToSet(a \o b) = ToSet(a) \union ToSet(b)
  <1>1. PICK w : w = a \o b
    OBVIOUS
  <1>2. /\ w \in Seq(T) /\ Len(w) = Len(a) + Len(b) /\ Len(a) \in Nat /\ Len(b) \in Nat
        /\ DOMAIN w = 1 .. Len(w) /\ DOMAIN a = 1 .. Len(a) /\ DOMAIN b = 1 .. Len(b)
        /\ \A j \in 1 .. Len(a) : w[j] = a[j]
        /\ \A j \in 1 .. Len(b) : w[j + Len(a)] = b[j]
    BY <1>1
  <1>3. ASSUME NEW j \in 1 .. Len(w)
        PROVE  \/ j \in 1 .. Len(a) /\ w[j] = a[j] /\ w[j] \in ToSet(a)
               \/ j - Len(a) \in 1 .. Len(b) /\ w[j] = b[j - Len(a)] /\ w[j] \in ToSet(b)
    <2>1. CASE j <= Len(a)
      <3>1. j \in 1 .. Len(a)
        BY <1>2, <2>1
      <3> QED BY <1>2, <3>1 DEF ToSet
    <2>2. CASE ~(j <= Len(a))
      <3>1. j - Len(a) \in 1 .. Len(b) /\ (j - Len(a)) + Len(a) = j
        BY <1>2, <2>2
      <3>2. w[j] = b[j - Len(a)]
        BY <1>2, <3>1
      <3> QED BY <1>2, <3>1, <3>2 DEF ToSet
    <2> QED BY <2>1, <2>2
  <1>4. ASSUME NEW j \in 1 .. Len(w), NEW k \in 1 .. Len(w), w[j] = w[k] PROVE j = k
    <2>1. CASE w[j] \in ToSet(a)
      <3>1. /\ j \in 1 .. Len(a) /\ w[j] = a[j] /\ k \in 1 .. Len(a) /\ w[k] = a[k]
        BY <1>3, <1>4, <2>1
      <3> QED BY <1>2, <1>4, <3>1 DEF Once
    <2>2. CASE w[j] \notin ToSet(a)
      <3>1. /\ j - Len(a) \in 1 .. Len(b) /\ w[j] = b[j - Len(a)]
            /\ k - Len(a) \in 1 .. Len(b) /\ w[k] = b[k - Len(a)]
        BY <1>3, <1>4, <2>2
      <3>2. j - Len(a) = k - Len(a)
        BY <1>2, <1>4, <3>1 DEF Once
      <3> QED BY <1>2, <3>2
    <2> QED BY <2>1, <2>2
  <1>5. Once(w)
    BY <1>2, <1>4 DEF Once
  <1>6. ToSet(w) \subseteq ToSet(a) \union ToSet(b)
    BY <1>2, <1>3 DEF ToSet
  <1>7. ToSet(a) \subseteq ToSet(w)
    <2>1. \A j \in 1 .. Len(a) : j \in 1 .. Len(w)
      BY <1>2
    <2> QED BY <1>2, <2>1 DEF ToSet
  <1>8. ToSet(b) \subseteq ToSet(w)
    <2>1. \A j \in 1 .. Len(b) : j + Len(a) \in 1 .. Len(w)
      BY <1>2
    <2>2. \A j \in 1 .. Len(b) : b[j] \in ToSet(w)
      <3> SUFFICES ASSUME NEW j \in 1 .. Len(b) PROVE b[j] \in ToSet(w)
        OBVIOUS
      <3>1. w[j + Len(a)] = b[j] /\ j + Len(a) \in DOMAIN w
        BY <1>2, <2>1
      <3> QED BY <3>1 DEF ToSet
    <2> QED BY <1>2, <2>2 DEF ToSet
  <1> QED BY <1>1, <1>2, <1>5, <1>6, <1>7, <1>8

\* Sorting places in the list, by themselves or by the ranks of their paths.
SortedOk(s, S) ==
  s \in Seq(S) /\ Once(s) /\ ToSet(s) = S /\ DOMAIN s = 1 .. Cardinality(S) /\ Cardinality(S) \in Nat

LEMMA OrderSorted ==
  ASSUME NEW S, IsFiniteSet(S), NEW f \in [S -> Int], \A m, n \in S : f[m] = f[n] => m = n
  PROVE  SortedOk(Order(S, f), S)
  <1>1. PICK o, c : o = Order(S, f) /\ c = Cardinality(S)
    OBVIOUS
  <1>2. /\ o \in Seq(S) /\ Len(o) = c /\ c \in Nat /\ ToSet(o) = S
        /\ \A i, j \in 1 .. c : o[i] = o[j] => i = j
    BY <1>1, OrderFacts
  <1>3. DOMAIN o = 1 .. c
    BY <1>2
  <1> QED BY <1>1, <1>2, <1>3 DEF SortedOk, Once

LEMMA SortedByPlace ==
  ASSUME NEW N \in Nat, NEW S \in SUBSET (1 .. N)
  PROVE  SortedOk(Sorted(S, LAMBDA n : n), S)
  <1>1. PICK f : f = [n \in S |-> n]
    OBVIOUS
  <1>2. IsFiniteSet(S)
    <2>1. IsFiniteSet(1 .. N)
      BY FS_Interval
    <2> QED BY <2>1, FS_Subset
  <1>3. f \in [S -> Int] /\ \A m, n \in S : f[m] = f[n] => m = n
    BY <1>1
  <1>4. SortedOk(Order(S, f), S)
    BY <1>2, <1>3, OrderSorted
  <1>5. \A n \in S : Below(S, f, n) = {m \in S : m < n}
    BY <1>1 DEF Below
  <1>6. Order(S, f) = Sorted(S, LAMBDA n : n)
    <2> DEFINE C == Cardinality(S)
               a(i) == CHOOSE n \in S : Cardinality(Below(S, f, n)) = i - 1
               b(i) == CHOOSE n \in S : Cardinality({m \in S : m < n}) = i - 1
    <2>1. \A i : \A n \in S : (Cardinality(Below(S, f, n)) = i - 1)
                               <=> (Cardinality({m \in S : m < n}) = i - 1)
      BY <1>5
    <2>2. \A i : a(i) = b(i)
      BY <2>1
    <2>3. Order(S, f) = [i \in 1 .. C |-> a(i)]
      BY Zenon DEF Order
    <2>4. Sorted(S, LAMBDA n : n) = [i \in 1 .. C |-> b(i)]
      BY Zenon DEF Sorted
    <2>5. [i \in 1 .. C |-> a(i)] = [i \in 1 .. C |-> b(i)]
      <3> HIDE DEF a, b
      <3> QED BY <2>2
    <2> HIDE DEF a, b, C
    <2> QED BY <2>3, <2>4, <2>5, Zenon
  <1> QED BY <1>4, <1>6

\* The parts of split files have different ranks.
LEMMA PartRanks ==
  ASSUME rel \in Releases, NEW bs, bs \subseteq Listed[rel],
         NEW S \in SUBSET {n \in DOMAIN Entries[rel] : IsPart(bs, n)},
         NEW f, f = [n \in S |-> Entry(n).part]
  PROVE  IsFiniteSet(S) /\ f \in [S -> Int] /\ \A m, n \in S : f[m] = f[n] => m = n
  <1>1. S \in SUBSET DOMAIN Entries[rel] /\ \A n \in S : Entry(n).base \in Listed[rel]
    BY DEF IsPart
  <1>2. IsFiniteSet(S)
    BY <1>1, EntriesFacts, FS_Interval, FS_Subset
  <1>3. ASSUME NEW n \in S PROVE f[n] \in Int
    BY <1>1, EntryFacts DEF Entry
  <1>4. ASSUME NEW m \in S, NEW n \in S, f[m] = f[n] PROVE m = n
    <2>1. PICK d, e : d = Entries[rel][m] /\ e = Entries[rel][n]
      OBVIOUS
    <2>2. PICK p \in Places(rel) : d.path = FileAt(rel, p).path /\ d.base = FileAt(rel, p).base
                                   /\ d.part = FileAt(rel, p).part
      BY <1>1, <2>1, EntryFacts
    <2>3. PICK q \in Places(rel) : e.path = FileAt(rel, q).path /\ e.base = FileAt(rel, q).base
                                   /\ e.part = FileAt(rel, q).part
      BY <1>1, <2>1, EntryFacts
    <2>4. d.base \in Listed[rel] /\ e.base \in Listed[rel] /\ d.part = e.part
      BY <1>1, <1>4, <2>1 DEF Entry
    <2>5. p = q
      BY <2>2, <2>3, <2>4, NamesAssumption
    <2>6. d.path = e.path
      BY <2>2, <2>3, <2>5
    <2> QED BY <1>1, <2>1, <2>6, PathsDistinct
  <1> QED BY <1>2, <1>3, <1>4

LEMMA OrderByPart ==
  ASSUME NEW S, NEW f, f = [n \in S |-> Entry(n).part]
  PROVE  Order(S, f) = Sorted(S, LAMBDA n : Entry(n).part)
  <1> DEFINE C == Cardinality(S)
             a(i) == CHOOSE n \in S : Cardinality(Below(S, f, n)) = i - 1
             b(i) == CHOOSE n \in S : Cardinality({m \in S : Entry(m).part < Entry(n).part}) = i - 1
  <1>1. \A n \in S : Below(S, f, n) = {m \in S : Entry(m).part < Entry(n).part}
    BY DEF Below
  <1>2. \A i : a(i) = b(i)
    BY <1>1
  <1>3. Order(S, f) = [i \in 1 .. C |-> a(i)]
    BY Zenon DEF Order
  <1>4. Sorted(S, LAMBDA n : Entry(n).part) = [i \in 1 .. C |-> b(i)]
    BY Zenon DEF Sorted
  <1>5. [i \in 1 .. C |-> a(i)] = [i \in 1 .. C |-> b(i)]
    <2> HIDE DEF a, b
    <2> QED BY <1>2
  <1> HIDE DEF a, b, C
  <1> QED BY <1>3, <1>4, <1>5, Zenon

LEMMA SortedByPart ==
  ASSUME rel \in Releases, NEW bs, bs \subseteq Listed[rel],
         NEW S \in SUBSET {n \in DOMAIN Entries[rel] : IsPart(bs, n)}
  PROVE  SortedOk(Sorted(S, LAMBDA n : Entry(n).part), S)
  <1>1. PICK f : f = [n \in S |-> Entry(n).part]
    OBVIOUS
  <1>2. IsFiniteSet(S) /\ f \in [S -> Int] /\ \A m, n \in S : f[m] = f[n] => m = n
    BY <1>1, PartRanks
  <1>3. SortedOk(Order(S, f), S)
    BY <1>2, OrderSorted
  <1> QED BY <1>1, <1>3, OrderByPart

LEMMA QueueFacts ==
  ASSUME rel \in Releases, NEW bs, bs \subseteq Listed[rel]
  PROVE  /\ Queue(bs) \in Seq(DOMAIN Entries[rel]) /\ Once(Queue(bs))
         /\ \A n \in DOMAIN Entries[rel] :
              Installable(n) /\ Entry(n).path \notin Blacklisted => n \in ToSet(Queue(bs))
  <1>1. PICK D, N : D = DOMAIN Entries[rel] /\ D = 1 .. N /\ N \in Nat
    BY EntriesFacts
  <1>2. PICK all : all = {n \in D : Installable(n) /\ Entry(n).path \notin Blacklisted}
    OBVIOUS
  <1>3. PICK parts : parts = {n \in all : IsPart(bs, n)}
    OBVIOUS
  <1>4. PICK links : links = {n \in all : Entry(n).kind = "link"}
    OBVIOUS
  <1>5. PICK plain : plain = all \ (parts \union links)
    OBVIOUS
  <1>6. PICK a : a = Sorted(plain, LAMBDA n : n)
    OBVIOUS
  <1>7. PICK b : b = Sorted(parts, LAMBDA n : Entry(n).part)
    OBVIOUS
  <1>8. PICK c : c = Sorted(links, LAMBDA n : n)
    OBVIOUS
  <1>9. Queue(bs) = a \o b \o c
    BY <1>1, <1>2, <1>3, <1>4, <1>5, <1>6, <1>7, <1>8 DEF Queue
  <1>10. plain \in SUBSET D /\ parts \in SUBSET D /\ links \in SUBSET D
         /\ plain \cap parts = {} /\ (plain \union parts) \cap links = {}
    <2>1. \A n \in parts : n \notin links
      BY <1>3, <1>4 DEF IsPart
    <2> QED BY <1>2, <1>3, <1>4, <1>5, <2>1
  <1>11. SortedOk(a, plain) /\ SortedOk(c, links)
    BY <1>1, <1>6, <1>8, <1>10, SortedByPlace
  <1>12. SortedOk(b, parts)
    <2>1. parts \in SUBSET {n \in DOMAIN Entries[rel] : IsPart(bs, n)}
      BY <1>1, <1>2, <1>3
    <2> QED BY <1>7, <2>1, SortedByPart
  <1>13. a \in Seq(D) /\ b \in Seq(D) /\ c \in Seq(D)
         /\ Once(a) /\ Once(b) /\ Once(c)
         /\ ToSet(a) = plain /\ ToSet(b) = parts /\ ToSet(c) = links
    BY <1>10, <1>11, <1>12 DEF SortedOk
  <1>14. PICK ab : ab = a \o b
    OBVIOUS
  <1>15. ab \in Seq(D) /\ Once(ab) /\ ToSet(ab) = plain \union parts
    BY <1>10, <1>13, <1>14, JoinOnce
  <1>16. ab \o c \in Seq(D) /\ Once(ab \o c) /\ ToSet(ab \o c) = (plain \union parts) \union links
    BY <1>10, <1>13, <1>15, JoinOnce
  <1>17. Queue(bs) \in Seq(D) /\ Once(Queue(bs)) /\ ToSet(Queue(bs)) = (plain \union parts) \union links
    BY <1>9, <1>14, <1>16
  <1>18. all \subseteq (plain \union parts) \union links
    BY <1>5
  <1> QED BY <1>1, <1>2, <1>17, <1>18

\* The parts of a base file have different paths, which are no base files.
LEMMA PartsFacts ==
  ASSUME rel \in Releases, bases \subseteq Listed[rel], NEW b \in bases
  PROVE  /\ DOMAIN Parts(bases, b) = 1 .. Len(Parts(bases, b)) /\ Len(Parts(bases, b)) \in Nat
         /\ \A i \in DOMAIN Parts(bases, b) : PartPath(b, i) \notin Listed[rel]
         /\ \A i, j \in DOMAIN Parts(bases, b) : PartPath(b, i) = PartPath(b, j) => i = j
         /\ Parts(bases, b) # <<>> => 1 \in DOMAIN Parts(bases, b)
  <1>1. PICK S : S = {n \in DOMAIN Entries[rel] : IsPart(bases, n) /\ Entry(n).base = b}
    OBVIOUS
  <1>2. PICK s : s = Parts(bases, b)
    OBVIOUS
  <1>3. SortedOk(s, S)
    <2>1. S \in SUBSET {n \in DOMAIN Entries[rel] : IsPart(bases, n)}
      BY <1>1
    <2>2. s = Sorted(S, LAMBDA n : Entry(n).part)
      BY <1>1, <1>2 DEF Parts
    <2> QED BY <2>1, <2>2, SortedByPart
  <1>4. s \in Seq(S) /\ Once(s) /\ S \subseteq DOMAIN Entries[rel]
    BY <1>1, <1>3 DEF SortedOk
  <1>5. DOMAIN s = 1 .. Len(s) /\ Len(s) \in Nat /\ \A i \in DOMAIN s : s[i] \in S
    BY <1>4
  <1>6. \A i \in DOMAIN s : PartPath(b, i) = Entries[rel][s[i]].path
    BY <1>2 DEF PartPath, Entry
  <1>7. ASSUME NEW i \in DOMAIN s PROVE PartPath(b, i) \notin Listed[rel]
    <2>1. s[i] \in DOMAIN Entries[rel]
      BY <1>4, <1>5
    <2> QED BY <1>6, <2>1, EntryFacts
  <1>8. ASSUME NEW i \in DOMAIN s, NEW j \in DOMAIN s, PartPath(b, i) = PartPath(b, j) PROVE i = j
    <2>1. s[i] \in DOMAIN Entries[rel] /\ s[j] \in DOMAIN Entries[rel]
      BY <1>4, <1>5
    <2>2. s[i] = s[j]
      BY <1>6, <1>8, <2>1, PathsDistinct
    <2> QED BY <1>4, <2>2 DEF Once
  <1>9. s # <<>> => 1 \in DOMAIN s
    BY <1>4
  <1> QED BY <1>2, <1>5, <1>7, <1>8, <1>9

--------------------------------------------------------------------------------
(* The inductive invariant *)

\* A thread that has no entry, and the phases of the main thread with threads.
Resting == {"new", "start", "pop", "done"}
Threaded == {"create", "move", "print"}
USE DEF Resting, Threaded

PCs == {"new", "start", "done", "pop", "examine", "link", "create", "memory",
        "open", "receive", "extract", "extracting"}
Active(t) == pc[t] \notin Resting

TypesOK ==
  /\ server \in Releases /\ rel \in Releases /\ bases \subseteq Listed[rel]
  /\ mpc \in {"idle", "queue"} \union Threaded \union {"combine", "append", "remove", "rename"}
  /\ pc \in [Workers -> PCs]
  /\ item \in [Workers -> Nat] /\ resume \in [Workers -> Nat]
  /\ tries \in [Workers -> Nat] /\ pos \in [Workers -> Nat]
  /\ started \in 0 .. Threads /\ clean \in 0 .. 2 /\ faults \in 0 .. MaxFaults
  /\ stale \subseteq Workers
  /\ mpc \notin Threaded => \A t \in Workers : pc[t] = "done"

\* Every entry is worked on by one thread at most.
QueueOK ==
  /\ mpc \in Threaded => queue \in Seq(DOMAIN Entries[rel]) /\ Once(queue)
  /\ \A t \in Workers :
       Active(t) => item[t] \in DOMAIN Entries[rel] /\ item[t] \notin ToSet(queue)
  /\ \A t, u \in Workers : t # u /\ Active(t) /\ Active(u) => item[t] # item[u]

FilesOK == \A p \in DOMAIN file : file[p] \in Seq(Int)

\* Every cell of a .lgogdltmp file is where it is in some release's file of
\* that path.
TmpOK ==
  \A p \in DOMAIN tmp :
    tmp[p] \in Seq(AllCells) /\ \A k \in 1 .. Len(tmp[p]) : CameFrom(tmp[p][k], k, p)

\* A transfer goes on where its .lgogdltmp file ends.
Moving(at, n, from, next, e, d) ==
  /\ at = "open" => /\ n <= Retries /\ from <= e.comp
                    /\ from > 0 => e.path \in DOMAIN d /\ Len(d[e.path]) = from
  /\ at = "receive" => /\ n <= Retries /\ e.path \in DOMAIN d
                       /\ next = e.start + Len(d[e.path]) /\ Len(d[e.path]) <= e.comp + 1
  /\ at \in {"extract", "extracting"} => e.path \in DOMAIN d /\ Len(d[e.path]) = e.comp + 1
TransferOK == \A t \in Workers : Moving(pc[t], tries[t], resume[t], pos[t], E(t), tmp)

\* While the parts of a base file are appended, its first part exists, and no
\* other is appended twice.
CombineOK ==
  /\ mpc \in {"combine", "append", "remove", "rename"} =>
       \A b \in todo : b \in bases /\ Parts(bases, b) # <<>>
  /\ mpc \in {"append", "remove", "rename"} => todo # {} /\ FirstPart(Current) \in DOMAIN file
  /\ mpc \in {"append", "remove"} => part \in Nat /\ part >= 2
  /\ mpc = "remove" => part <= Len(Parts(bases, Current))

IInv == TypesOK /\ QueueOK /\ FilesOK /\ TmpOK /\ TransferOK /\ CombineOK

LEMMA InitInv == Init => IInv
  <1> SUFFICES ASSUME Init PROVE IInv
    OBVIOUS
  <1>1. Games \subseteq Releases /\ Threads \in Nat /\ MaxFaults \in Nat
    BY GamesAssumption, CountsAssumption
  <1>2. TypesOK
    BY <1>1 DEF Init, TypesOK, PCs
  <1>3. QueueOK
    BY DEF Init, QueueOK, Active
  <1>4. FilesOK /\ TmpOK
    BY DEF Init, FilesOK, TmpOK, Nothing
  <1>5. TransferOK
    BY DEF Init, TransferOK, Moving
  <1>6. CombineOK
    BY DEF Init, CombineOK
  <1> QED BY <1>2, <1>3, <1>4, <1>5, <1>6 DEF IInv

\* What a step of a thread may change.
SameAt(f, g, q) == (q \in DOMAIN f <=> q \in DOMAIN g) /\ (q \in DOMAIN f => f[q] = g[q])
Frame(t) ==
  /\ mpc \in Threaded /\ pc[t] # "done"
  /\ UNCHANGED <<server, mpc, rel, bases, started, stale, sure, todo, part>>
  /\ \A u \in Workers : u # t =>
       /\ pc'[u] = pc[u] /\ item'[u] = item[u] /\ resume'[u] = resume[u]
       /\ tries'[u] = tries[u] /\ pos'[u] = pos[u]
  /\ \A q : q # Path(t) => SameAt(tmp, tmp', q)
  /\ UNCHANGED <<queue, item>> \/ Pop(t)
  /\ pc'[t] \in Resting \/ Active(t) \/ Pop(t)
  /\ Active(t) \/ UNCHANGED tmp

LEMMA WithFacts ==
  ASSUME NEW f, NEW p, NEW v
  PROVE  /\ DOMAIN With(f, p, v) = DOMAIN f \union {p} /\ With(f, p, v)[p] = v
         /\ \A q : q # p => SameAt(f, With(f, p, v), q)
         /\ DOMAIN Without(f, p) = DOMAIN f \ {p}
         /\ \A q : q # p => SameAt(f, Without(f, p), q)
         /\ \A q \in DOMAIN f \ {p} : Without(f, p)[q] = f[q] /\ With(f, p, v)[q] = f[q]
  BY DEF With, Without, Restrict, SameAt

LEMMA FrameFacts ==
  ASSUME TypesOK, NEW t \in Workers, Worker(t)
  PROVE  Frame(t)
  <1> USE DEF Goto, MainSame, plan, disk, threads, history
  <1>1. /\ pc \in [Workers -> PCs] /\ item \in [Workers -> Nat] /\ resume \in [Workers -> Nat]
        /\ tries \in [Workers -> Nat] /\ pos \in [Workers -> Nat]
        /\ (pc[t] # "done" => mpc \in Threaded)
    BY DEF TypesOK
  <1>2. \A q : SameAt(tmp, tmp, q)
    BY DEF SameAt
  <1>3. CASE Pop(t)
    BY <1>1, <1>2, <1>3 DEF Pop, Frame
  <1>4. CASE DirectoryFails(t)
    BY <1>1, <1>2, <1>4 DEF DirectoryFails, Frame, Active
  <1>5. CASE ReplaceFails(t)
    BY <1>1, <1>2, <1>5 DEF ReplaceFails, Frame, Active
  <1>6. ASSUME NEW inBase, Keep(t, inBase) PROVE Frame(t)
    BY <1>1, <1>2, <1>6 DEF Keep, Frame, Active
  <1>7. ASSUME NEW inBase, Replace(t, inBase) PROVE Frame(t)
    <2>1. \A q : q # Path(t) => SameAt(tmp, tmp', q)
      BY <1>2, <1>7, WithFacts DEF Replace
    <2> QED BY <1>1, <1>7, <2>1 DEF Replace, Frame, Active
  <1>8. ASSUME NEW ok, MakeLink(t, ok) PROVE Frame(t)
    BY <1>1, <1>2, <1>8 DEF MakeLink, Frame, Active
  <1>9. ASSUME NEW ok, FetchSmall(t, ok) PROVE Frame(t)
    BY <1>1, <1>2, <1>9 DEF FetchSmall, Frame, Active
  <1>10. ASSUME NEW ok, Extracted(t, ok) PROVE Frame(t)
    <2>1. \A q : q # Path(t) => SameAt(tmp, tmp', q)
      <3>1. tmp' = tmp \/ tmp' = Without(tmp, Path(t))
        BY <1>10 DEF Extracted
      <3>2. CASE tmp' = tmp
        BY <1>2, <3>2
      <3>3. CASE tmp' = Without(tmp, Path(t))
        BY <3>3, WithFacts
      <3> QED BY <3>1, <3>2, <3>3
    <2> QED BY <1>1, <1>10, <2>1 DEF Extracted, Frame, Active
  <1>11. CASE Create(t)
    BY <1>1, <1>2, <1>11 DEF Create, Frame, Active
  <1>12. CASE FetchSmallFails(t)
    BY <1>1, <1>2, <1>12 DEF FetchSmallFails, Frame, Active
  <1>13. CASE Open(t)
    <2>1. \A q : q # Path(t) => SameAt(tmp, tmp', q)
      BY <1>2, <1>13, WithFacts DEF Open
    <2> QED BY <1>1, <1>13, <2>1 DEF Open, Frame, Active
  <1>14. CASE Receive(t)
    <2>1. \A q : q # Path(t) => SameAt(tmp, tmp', q)
      BY <1>14 DEF Receive, SameAt
    <2> QED BY <1>1, <1>14, <2>1 DEF Receive, Frame, Active
  <1>15. CASE Received(t)
    BY <1>1, <1>2, <1>15 DEF Received, Frame, Active
  <1>16. CASE Interrupted(t)
    BY <1>1, <1>2, <1>16 DEF Interrupted, Frame, Active
  <1>17. CASE TransferFails(t)
    BY <1>1, <1>2, <1>17 DEF TransferFails, Frame, Active
  <1>18. CASE Extract(t)
    BY <1>1, <1>2, <1>18 DEF Extract, Frame, Active
  <1>19. CASE ExtractFails(t)
    BY <1>1, <1>2, <1>19 DEF ExtractFails, Frame, Active
  <1>20. CASE Finish(t)
    BY <1>1, <1>2, <1>20 DEF Finish, Frame, Active
  <1> QED BY <1>3, <1>4, <1>5, <1>6, <1>7, <1>8, <1>9, <1>10, <1>11, <1>12, <1>13, <1>14,
             <1>15, <1>16, <1>17, <1>18, <1>19, <1>20 DEF Worker

--------------------------------------------------------------------------------
(* Types *)

LEMMA ItemFacts ==
  ASSUME TypesOK, QueueOK, NEW t \in Workers, Active(t)
  PROVE  \E p \in Places(rel) :
           /\ IsFile(FileAt(rel, p)) /\ Path(t) = FileAt(rel, p).path
           /\ E(t).path = Path(t) /\ E(t).comp = Len(FileAt(rel, p).data)
           /\ E(t).crc = Content(FileAt(rel, p))
           /\ E(t).comp \in Nat /\ E(t).start \in Nat /\ E(t).end = E(t).start + E(t).comp
           /\ Bytes(Images[rel][E(t).url], E(t).start, E(t).end) = Local(FileAt(rel, p))
           /\ \A j \in 0 .. E(t).comp :
                Bytes(Images[rel][E(t).url], E(t).start + j, E(t).start + j)
                  = <<Local(FileAt(rel, p))[j + 1]>>
  <1>1. rel \in Releases /\ item[t] \in DOMAIN Entries[rel]
    BY DEF TypesOK, QueueOK
  <1> QED BY <1>1, EntryFacts DEF E, Path, Entry

\* A transfer begins in the range of its file.
LEMMA FirstFacts ==
  ASSUME IInv, NEW t \in Workers, pc[t] = "open"
  PROVE  First(t) \in Nat /\ First(t) = E(t).start + resume[t]
  <1>1. E(t).start \in Nat
    BY ItemFacts DEF IInv, Active
  <1>2. resume[t] \in Nat
    BY DEF IInv, TypesOK
  <1> QED BY <1>1, <1>2 DEF First

LEMMA TypesWorker ==
  ASSUME IInv, NEW t \in Workers, Worker(t)
  PROVE  TypesOK'
  <1>1. TypesOK /\ QueueOK /\ Frame(t)
    BY FrameFacts DEF IInv
  <1>2. /\ server' \in Releases /\ rel' \in Releases /\ bases' \subseteq Listed[rel']
        /\ mpc' \in Threaded /\ started' \in 0 .. Threads /\ stale' \subseteq Workers
    BY <1>1 DEF TypesOK, Frame
  <1>3. /\ pc \in [Workers -> PCs] /\ item \in [Workers -> Nat] /\ resume \in [Workers -> Nat]
        /\ tries \in [Workers -> Nat] /\ pos \in [Workers -> Nat]
        /\ clean \in 0 .. 2 /\ faults \in 0 .. MaxFaults /\ MaxFaults \in Nat
    BY <1>1, CountsAssumption DEF TypesOK
  <1>4. (UNCHANGED history \/ Fault) => clean' \in 0 .. 2 /\ faults' \in 0 .. MaxFaults
    BY <1>3 DEF Fault, history
  <1> DEFINE Counts == UNCHANGED history \/ Fault
             Goes == pc' \in [Workers -> PCs]
  <1> USE DEF Goto, MainSame, PCs
  <1>5. CASE Pop(t)
    <2>1. Head(queue) \in Nat
      <3>1. queue \in Seq(DOMAIN Entries[rel]) /\ queue # <<>> /\ rel \in Releases
        BY <1>1, <1>5 DEF QueueOK, Frame, Pop, TypesOK
      <3>2. DOMAIN Entries[rel] \subseteq Nat
        BY <3>1, EntriesFacts
      <3> QED BY <3>1, <3>2
    <2> QED BY <1>2, <1>3, <1>4, <1>5, <2>1 DEF Pop, TypesOK
  <1>6. CASE DirectoryFails(t) \/ ReplaceFails(t) \/ FetchSmallFails(t)
             \/ TransferFails(t) \/ ExtractFails(t)
    <2>1. Fault /\ UNCHANGED <<item, resume, tries, pos>> /\ Goes
      BY <1>3, <1>6 DEF DirectoryFails, ReplaceFails, FetchSmallFails, TransferFails, ExtractFails
    <2> QED BY <1>2, <1>3, <1>4, <2>1 DEF TypesOK
  <1>7. ASSUME NEW inBase, Keep(t, inBase) PROVE TypesOK'
    BY <1>2, <1>3, <1>4, <1>7 DEF Keep, TypesOK
  <1>8. ASSUME NEW inBase, Replace(t, inBase) PROVE TypesOK'
    <2>1. Resumable(t) => Len(tmp[Path(t)]) \in Nat
      <3> SUFFICES ASSUME Resumable(t) PROVE Len(tmp[Path(t)]) \in Nat
        OBVIOUS
      <3>1. Path(t) \in DOMAIN tmp /\ TmpOK
        BY DEF IInv, Resumable, Resumed, Path, E
      <3>2. tmp[Path(t)] \in Seq(AllCells)
        BY <3>1 DEF TmpOK
      <3> QED BY <3>2
    <2>2. PICK n \in Nat : resume' = [resume EXCEPT ![t] = n]
      BY <1>8, <2>1 DEF Replace
    <2>3. PICK where \in {"link", "create", "open"} : pc' = [pc EXCEPT ![t] = where]
      BY <1>8 DEF Replace
    <2>4. tries' = [tries EXCEPT ![t] = 0] /\ UNCHANGED <<item, pos, history>>
      BY <1>8 DEF Replace
    <2> QED BY <1>2, <1>3, <1>4, <2>2, <2>3, <2>4 DEF TypesOK
  <1>9. ASSUME NEW ok, MakeLink(t, ok) \/ FetchSmall(t, ok) \/ Extracted(t, ok) PROVE TypesOK'
    <2>1. Counts /\ UNCHANGED <<item, resume, tries, pos>> /\ Goes
      BY <1>3, <1>9 DEF MakeLink, FetchSmall, Extracted
    <2> QED BY <1>2, <1>3, <1>4, <2>1 DEF TypesOK
  <1>10. CASE Create(t) \/ Received(t) \/ Extract(t) \/ Finish(t)
    <2>1. UNCHANGED history /\ UNCHANGED <<item, resume, tries, pos>> /\ Goes
      BY <1>3, <1>10 DEF Create, Received, Extract, Finish
    <2> QED BY <1>2, <1>3, <1>4, <2>1 DEF TypesOK
  <1>11. CASE Open(t)
    <2>1. First(t) \in Nat
      BY <1>11, FirstFacts DEF Open
    <2> QED BY <1>2, <1>3, <1>4, <1>11, <2>1 DEF Open, TypesOK
  <1>12. CASE Receive(t)
    <2>1. pos[t] + 1 \in Nat
      BY <1>3
    <2> QED BY <1>2, <1>3, <1>4, <1>12, <2>1 DEF Receive, TypesOK
  <1>13. CASE Interrupted(t)
    <2>1. Len(tmp[Path(t)]) \in Nat
      <3>1. Path(t) \in DOMAIN tmp /\ TmpOK
        BY <1>13 DEF IInv, TransferOK, Moving, Interrupted, Path
      <3>2. tmp[Path(t)] \in Seq(AllCells)
        BY <3>1 DEF TmpOK
      <3> QED BY <3>2
    <2>2. PICK where \in {"open", "pop"} : pc' = [pc EXCEPT ![t] = where]
      BY <1>13 DEF Interrupted
    <2>3. Fault /\ UNCHANGED <<item, pos>> /\ tries[t] + 1 \in Nat
          /\ tries' = [tries EXCEPT ![t] = tries[t] + 1]
          /\ resume' = [resume EXCEPT ![t] = Len(tmp[Path(t)])]
      BY <1>3, <1>13 DEF Interrupted
    <2> QED BY <1>2, <1>3, <1>4, <2>1, <2>2, <2>3 DEF TypesOK
  <1> QED BY <1>5, <1>6, <1>7, <1>8, <1>9, <1>10, <1>11, <1>12, <1>13 DEF Worker

\* The threads are made one after another, and vDownloadInfo is moved.
Creation == CreateThread \/ CopyStatuses \/ MoveStatuses
CreationStep ==
  /\ mpc \in Threaded /\ mpc' \in Threaded
  /\ UNCHANGED <<server, rel, bases, started, sure, queue, todo, part>>
  /\ UNCHANGED <<file, tmp, link, item, resume, tries, pos, dirty, clean, faults>>
  /\ pc' \in [Workers -> PCs] /\ stale' \subseteq Workers
  /\ \A u \in Workers : pc'[u] = pc[u] \/ (pc[u] = "new" /\ pc'[u] = "start")

LEMMA CreationFacts ==
  ASSUME TypesOK, Creation
  PROVE  CreationStep
  <1> USE DEF disk, plan, threads, history
  <1>1. pc \in [Workers -> PCs] /\ stale \subseteq Workers
    BY DEF TypesOK
  <1>2. ASSUME CreateNext, mpc \in Threaded, stale' \subseteq Workers PROVE CreationStep
    <2>1. PICK u \in Workers : pc[u] = "new" /\ pc' = [pc EXCEPT ![u] = "start"]
      BY <1>2 DEF CreateNext, Uncreated
    <2>2. pc' \in [Workers -> PCs]
      BY <1>1, <2>1 DEF PCs
    <2> QED BY <1>1, <1>2, <2>1, <2>2 DEF CreateNext, CreationStep
  <1>3. CASE CreateThread
    BY <1>1, <1>2, <1>3 DEF CreateThread
  <1>4. CASE CopyStatuses
    BY <1>1, <1>4 DEF CopyStatuses, CreationStep
  <1>5. CASE MoveStatuses
    <2>1. stale' \subseteq Workers
      BY <1>1, <1>5 DEF MoveStatuses
    <2> QED BY <1>2, <1>5, <2>1 DEF MoveStatuses
  <1> QED BY <1>3, <1>4, <1>5 DEF Creation

LEMMA TypesOthers ==
  ASSUME IInv, Publish \/ Crash \/ Start \/ Main \/ UNCHANGED vars
  PROVE  TypesOK'
  <1>1. /\ server \in Releases /\ rel \in Releases /\ bases \subseteq Listed[rel]
        /\ mpc \in {"idle", "queue"} \union Threaded \union {"combine", "append", "remove", "rename"}
        /\ pc \in [Workers -> PCs] /\ item \in [Workers -> Nat] /\ resume \in [Workers -> Nat]
        /\ tries \in [Workers -> Nat] /\ pos \in [Workers -> Nat]
        /\ started \in 0 .. Threads /\ clean \in 0 .. 2 /\ faults \in 0 .. MaxFaults
        /\ stale \subseteq Workers
        /\ mpc \notin Threaded => \A t \in Workers : pc[t] = "done"
    BY DEF IInv, TypesOK
  <1>2. MaxFaults \in Nat /\ Threads \in Nat
    BY CountsAssumption
  <1>3. (UNCHANGED history \/ Fault) => clean' \in 0 .. 2 /\ faults' \in 0 .. MaxFaults
    BY <1>1, <1>2 DEF Fault, history
  <1> USE DEF plan, disk, threads
  <1>4. CASE Publish
    <2>1. server' \in Releases /\ clean' = 0 /\ UNCHANGED faults
          /\ UNCHANGED <<rel, bases, mpc, started, stale, pc, item, resume, tries, pos>>
      BY <1>4 DEF Publish
    <2> QED BY <1>1, <2>1 DEF TypesOK
  <1>5. CASE Crash
    <2>1. Fault /\ mpc' = "idle" /\ pc' = [t \in Workers |-> "done"] /\ stale' = {}
          /\ UNCHANGED <<server, rel, bases, started, item, resume, tries, pos>>
      BY <1>5 DEF Crash
    <2> QED BY <1>1, <1>3, <2>1 DEF TypesOK, PCs
  <1>6. ASSUME NEW known \in BOOLEAN, Begin(known) PROVE TypesOK'
    <2>1. (UNCHANGED <<clean, faults>> \/ Fault) /\ mpc' = "queue" /\ mpc = "idle"
          /\ rel' = server /\ bases' \subseteq Listed[server]
          /\ UNCHANGED <<server, started, stale, pc, item, resume, tries, pos>>
      BY <1>6 DEF Begin
    <2> QED BY <1>1, <1>2, <1>3, <2>1 DEF TypesOK
  <1>7. CASE StartThreads
    <2>1. Len(queue') \in Nat
      <3>1. queue' = Queue(bases)
        BY <1>7 DEF StartThreads
      <3>2. queue' \in Seq(DOMAIN Entries[rel])
        BY <1>1, <3>1, QueueFacts
      <3> QED BY <3>2
    <2>2. started' \in 0 .. Threads
      <3>1. ThreadsFor[rel] \in 1 .. Threads
        BY <1>1, CountsAssumption
      <3> QED BY <1>2, <1>7, <2>1, <3>1 DEF StartThreads
    <2>3. mpc' \in {"print", "create"} /\ pc' \in [Workers -> PCs] /\ stale' = {}
          /\ UNCHANGED <<server, rel, bases, item, resume, tries, pos>> /\ UNCHANGED history
      BY <1>7 DEF StartThreads, PCs
    <2> QED BY <1>1, <1>3, <2>2, <2>3 DEF TypesOK
  <1>8. CASE JoinThreads
    <2>1. mpc' = "combine" /\ (\A t \in Workers : pc[t] = "done")
          /\ UNCHANGED <<server, rel, bases, started, stale, pc, item, resume, tries, pos>> /\ UNCHANGED history
      BY <1>8 DEF JoinThreads, AllFinished
    <2> QED BY <1>1, <1>3, <2>1 DEF TypesOK
  <1>9. CASE SkipBase \/ StartCombining \/ StartFails \/ AppendFails \/ AllAppended
             \/ \E ok \in BOOLEAN : AppendPart(ok) \/ RemovePart(ok) \/ RenameFirst(ok)
    <2>1. /\ (UNCHANGED history \/ Fault) /\ mpc' \in {"combine", "append", "remove", "rename"}
          /\ mpc \notin Threaded
          /\ UNCHANGED <<server, rel, bases, started, stale, pc, item, resume, tries, pos>>
      BY <1>9 DEF SkipBase, StartCombining, StartFails, AppendFails, AllAppended, AppendPart,
                  RemovePart, RenameFirst
    <2> QED BY <1>1, <1>3, <2>1 DEF TypesOK
  <1>10. CASE End
    <2>1. /\ mpc = "combine" /\ mpc' = "idle" /\ clean' \in 0 .. 2 /\ UNCHANGED faults
          /\ UNCHANGED <<server, rel, bases, started, stale, pc, item, resume, tries, pos>>
      BY <1>1, <1>10 DEF End
    <2> QED BY <1>1, <2>1 DEF TypesOK
  <1>11. CASE PrintProgress \/ UNCHANGED vars
    <2>1. UNCHANGED vars
      BY <1>11 DEF PrintProgress
    <2> QED BY <1>1, <2>1 DEF TypesOK, vars, history
  <1>12. CASE Creation
    <2>1. TypesOK
      BY DEF IInv
    <2>2. CreationStep
      BY <1>12, <2>1, CreationFacts
    <2> QED BY <1>1, <2>2 DEF TypesOK, CreationStep
  <1> QED BY <1>4, <1>5, <1>6, <1>7, <1>8, <1>9, <1>10, <1>11, <1>12 DEF Start, Main, Creation

--------------------------------------------------------------------------------
(* The queue *)

LEMMA QueueWorker ==
  ASSUME IInv, NEW t \in Workers, Worker(t)
  PROVE  QueueOK'
  <1>1. TypesOK /\ QueueOK /\ Frame(t)
    BY FrameFacts DEF IInv
  <1>2. TypesOK'
    BY TypesWorker
  <1>3. /\ queue \in Seq(DOMAIN Entries[rel]) /\ Once(queue) /\ rel' = rel
        /\ \A u \in Workers : Active(u) => item[u] \in DOMAIN Entries[rel] /\ item[u] \notin ToSet(queue)
        /\ \A u, v \in Workers : u # v /\ Active(u) /\ Active(v) => item[u] # item[v]
    BY <1>1 DEF Frame, QueueOK
  <1>4. \A u \in Workers : u # t => item'[u] = item[u] /\ (Active(u)' <=> Active(u))
    BY <1>1 DEF Frame, Active
  <1>5. CASE Pop(t)
    <2>1. PICK q, h : q = queue /\ h = Head(queue)
      OBVIOUS
    <2>2. q # <<>> /\ queue' = Tail(q) /\ item'[t] = h
      <3>1. item \in [Workers -> Nat]
        BY <1>1 DEF TypesOK
      <3> QED BY <1>5, <2>1, <3>1 DEF Pop
    <2>3. PICK D : D = DOMAIN Entries[rel]
      OBVIOUS
    <2>4. q \in Seq(D) /\ \A i, j \in DOMAIN q : q[i] = q[j] => i = j
      BY <1>3, <2>1, <2>3 DEF Once
    <2>5. PICK r : r = Tail(q)
      OBVIOUS
    <2>6. /\ r \in Seq(D) /\ DOMAIN r = 1 .. Len(q) - 1 /\ DOMAIN q = 1 .. Len(q) /\ Len(q) \in Nat
          /\ \A i \in DOMAIN r : r[i] = q[i + 1] /\ i + 1 \in DOMAIN q
          /\ h = q[1] /\ 1 \in DOMAIN q
      BY <2>1, <2>2, <2>4, <2>5
    <2>7. \A i, j \in DOMAIN r : r[i] = r[j] => i = j
      <3> SUFFICES ASSUME NEW i \in DOMAIN r, NEW j \in DOMAIN r, r[i] = r[j] PROVE i = j
        OBVIOUS
      <3>1. i + 1 = j + 1 /\ i \in Nat /\ j \in Nat
        BY <2>4, <2>6
      <3> QED BY <3>1
    <2>8. \A i \in DOMAIN r : r[i] # h
      <3> SUFFICES ASSUME NEW i \in DOMAIN r, r[i] = h PROVE FALSE
        OBVIOUS
      <3>1. i + 1 = 1 /\ i \in 1 .. Len(q) - 1
        BY <2>4, <2>6
      <3> QED BY <2>6, <3>1
    <2>9. h \in D /\ h \in ToSet(q) /\ h \notin ToSet(r) /\ ToSet(r) \subseteq ToSet(q)
      BY <2>4, <2>6, <2>8 DEF ToSet
    <2>10. queue' \in Seq(DOMAIN Entries[rel']) /\ Once(queue')
      BY <1>3, <2>2, <2>3, <2>5, <2>6, <2>7 DEF Once
    <2>11. ASSUME NEW u \in Workers, Active(u)'
           PROVE  item'[u] \in DOMAIN Entries[rel'] /\ item'[u] \notin ToSet(queue')
      <3>1. CASE u = t
        BY <1>3, <2>2, <2>3, <2>5, <2>9, <3>1
      <3>2. CASE u # t
        BY <1>3, <1>4, <2>1, <2>2, <2>5, <2>9, <2>11, <3>2
      <3> QED BY <3>1, <3>2
    <2>12. ASSUME NEW u \in Workers, NEW v \in Workers, u # v, Active(u)', Active(v)'
           PROVE  item'[u] # item'[v]
      <3>1. \A w \in Workers : w # t /\ Active(w) => item[w] # h
        BY <1>3, <2>1, <2>9
      <3> QED BY <1>3, <1>4, <2>2, <2>12, <3>1
    <2> QED BY <2>10, <2>11, <2>12 DEF QueueOK
  <1>6. CASE UNCHANGED <<queue, item>> /\ ~Pop(t)
    <2>1. \A u \in Workers : Active(u)' => Active(u)
      BY <1>1, <1>4, <1>6 DEF Frame, Active
    <2> QED BY <1>3, <1>6, <2>1 DEF QueueOK
  <1> QED BY <1>1, <1>5, <1>6 DEF Frame

LEMMA QueueOthers ==
  ASSUME IInv, Publish \/ Crash \/ Start \/ Main \/ UNCHANGED vars
  PROVE  QueueOK'
  <1>1. TypesOK /\ QueueOK /\ TypesOK'
    BY TypesOthers DEF IInv
  <1> USE DEF plan, disk, threads
  <1>2. CASE mpc' \notin Threaded
    <2>1. \A t \in Workers : ~Active(t)'
      BY <1>1, <1>2 DEF TypesOK, Active
    <2> QED BY <1>2, <2>1 DEF QueueOK
  <1>3. CASE StartThreads
    <2>1. \A t \in Workers : ~Active(t)'
      BY <1>3 DEF StartThreads, Active
    <2>2. queue' = Queue(bases) /\ rel' = rel
      BY <1>3 DEF StartThreads
    <2>3. queue' \in Seq(DOMAIN Entries[rel']) /\ Once(queue')
      BY <1>1, <2>2, QueueFacts DEF TypesOK
    <2> QED BY <2>1, <2>3 DEF QueueOK
  <1>4. CASE mpc' \in Threaded /\ ~StartThreads /\ ~Creation
    <2>1. UNCHANGED <<mpc, queue, pc, item, rel>>
      BY <1>4 DEF Publish, Crash, Start, Begin, Main, PrintProgress, JoinThreads, SkipBase,
                  StartCombining, StartFails, AppendFails, AllAppended, AppendPart, RemovePart,
                  RenameFirst, End, vars, Creation
    <2> QED BY <1>1, <2>1 DEF QueueOK, Active
  <1>5. CASE Creation
    <2>1. CreationStep
      BY <1>1, <1>5, CreationFacts
    <2>2. \A t \in Workers : Active(t)' <=> Active(t)
      BY <2>1 DEF CreationStep, Active
    <2> QED BY <1>1, <2>1, <2>2 DEF CreationStep, QueueOK
  <1> QED BY <1>2, <1>3, <1>4, <1>5

--------------------------------------------------------------------------------
(* The files *)

\* What a range, or a .lgogdltmp file, gives is a file.
LEMMA RangeCells ==
  ASSUME TypesOK, QueueOK, NEW t \in Workers, Active(t)
  PROVE  DlRange(t) \in Seq(AllCells)
  <1>1. PICK p \in Places(rel) :
          IsFile(FileAt(rel, p)) /\ DlRange(t) = Local(FileAt(rel, p))
    BY ItemFacts DEF DlRange
  <1>2. PICK l, A : l = Local(FileAt(rel, p)) /\ A = ToSet(l)
    OBVIOUS
  <1>3. l \in Seq(A)
    BY <1>1, <1>2, LocalFacts
  <1>4. A \subseteq AllCells
    BY <1>2 DEF AllCells, TypesOK
  <1>5. l \in Seq(AllCells)
    BY <1>3, <1>4
  <1> QED BY <1>1, <1>2, <1>5

LEMMA FileSet ==
  ASSUME FilesOK, NEW p, NEW v \in Seq(Int),
         file' \in {file, Without(file, p), With(file, p, v)}
  PROVE  FilesOK'
  <1>1. \A q \in DOMAIN file : file[q] \in Seq(Int)
    BY DEF FilesOK
  <1>2. CASE file' = file
    BY <1>1, <1>2 DEF FilesOK
  <1>3. CASE file' = Without(file, p)
    <2>1. DOMAIN file' = DOMAIN file \ {p} /\ \A q \in DOMAIN file \ {p} : file'[q] = file[q]
      BY <1>3 DEF Without, Restrict
    <2> QED BY <1>1, <2>1 DEF FilesOK
  <1>4. CASE file' = With(file, p, v)
    <2>1. DOMAIN file' = DOMAIN file \union {p} /\ file'[p] = v
          /\ \A q \in DOMAIN file \ {p} : file'[q] = file[q]
      BY <1>4 DEF With
    <2> QED BY <1>1, <2>1 DEF FilesOK
  <1> QED BY <1>2, <1>3, <1>4

LEMMA FilesWorker ==
  ASSUME IInv, NEW t \in Workers, Worker(t)
  PROVE  FilesOK'
  <1>1. FilesOK /\ TypesOK /\ QueueOK /\ <<>> \in Seq(Int)
    BY DEF IInv
  <1> USE DEF disk, MainSame
  <1>2. CASE Pop(t) \/ DirectoryFails(t) \/ ReplaceFails(t) \/ Open(t) \/ Receive(t) \/ Received(t)
             \/ Interrupted(t) \/ TransferFails(t) \/ ExtractFails(t) \/ Finish(t)
             \/ (\E b \in BOOLEAN : Keep(t, b)) \/ (\E ok \in BOOLEAN : MakeLink(t, ok))
    <2>1. file' = file
      BY <1>2 DEF Pop, DirectoryFails, ReplaceFails, Open, Receive, Received, Interrupted,
                  TransferFails, ExtractFails, Finish, Keep, MakeLink
    <2> QED BY <1>1, <2>1 DEF FilesOK
  <1>3. ASSUME NEW inBase, Keep(t, inBase) \/ Replace(t, inBase) PROVE FilesOK'
    <2>1. file' \in {file, Without(file, Path(t))}
      BY <1>3 DEF Keep, Replace
    <2> QED BY <1>1, <2>1, FileSet
  <1>4. CASE Create(t) \/ Extract(t) \/ FetchSmallFails(t)
    <2>1. file' \in {file, Without(file, Path(t)), With(file, Path(t), <<>>)}
      BY <1>4 DEF Create, Extract, FetchSmallFails
    <2> QED BY <1>1, <2>1, FileSet
  <1>5. ASSUME NEW ok \in BOOLEAN, FetchSmall(t, ok) PROVE FilesOK'
    <2>1. PICK x \in Outcomes(DlRange(t), ok) :
            file' = IF x.ok THEN With(file, Path(t), x.out) ELSE Without(file, Path(t))
      BY <1>5 DEF FetchSmall
    <2>2. DlRange(t) \in Seq(AllCells)
      BY <1>1, <1>5, RangeCells DEF FetchSmall, Active
    <2>3. x.out \in Seq(Int)
      BY <2>2, ExtractionFacts
    <2>4. file' \in {file, Without(file, Path(t)), With(file, Path(t), x.out)}
      BY <2>1
    <2> QED BY <1>1, <2>3, <2>4, FileSet
  <1>6. ASSUME NEW ok \in BOOLEAN, Extracted(t, ok) PROVE FilesOK'
    <2>1. PICK x \in Outcomes(tmp[Path(t)], ok) : file' = With(file, Path(t), x.out)
      BY <1>6 DEF Extracted
    <2>2. Path(t) \in DOMAIN tmp
      BY <1>6 DEF IInv, TransferOK, Moving, Extracted, Path
    <2>3. tmp[Path(t)] \in Seq(AllCells)
      BY <2>2 DEF IInv, TmpOK
    <2>4. x.out \in Seq(Int)
      BY <2>3, ExtractionFacts
    <2> QED BY <1>1, <2>1, <2>4, FileSet
  <1> QED BY <1>2, <1>3, <1>4, <1>5, <1>6 DEF Worker

LEMMA FilesOthers ==
  ASSUME IInv, Publish \/ Crash \/ Start \/ Main \/ UNCHANGED vars
  PROVE  FilesOK'
  <1>1. FilesOK /\ <<>> \in Seq(Int)
    BY DEF IInv
  <1> USE DEF disk, vars
  <1>2. CASE Publish \/ Crash \/ Start \/ StartThreads \/ PrintProgress \/ JoinThreads \/ SkipBase
             \/ AppendFails \/ AllAppended \/ End \/ UNCHANGED vars \/ Creation
    <2>1. file' = file
      BY <1>2 DEF Publish, Crash, Start, Begin, StartThreads, PrintProgress, JoinThreads, SkipBase,
                  AppendFails, AllAppended, End, Creation, CreateThread, CopyStatuses, MoveStatuses,
                  CreateNext
    <2> QED BY <1>1, <2>1 DEF FilesOK
  <1>3. CASE StartCombining \/ StartFails
    <2>1. file' \in {file, Without(file, Current)}
      BY <1>3 DEF StartCombining, StartFails
    <2> QED BY <1>1, <2>1, FileSet
  <1>4. ASSUME NEW ok \in BOOLEAN, AppendPart(ok) PROVE FilesOK'
    <2>1. CASE ok
      <3>1. PICK p, q : p = FirstPart(Current) /\ q = PartPath(Current, part)
        OBVIOUS
      <3>2. q \in DOMAIN file /\ file' = [file EXCEPT ![p] = file[p] \o file[q]]
        BY <1>4, <2>1, <3>1 DEF AppendPart
      <3>3. file[q] \in Seq(Int)
        BY <1>1, <3>2 DEF FilesOK
      <3>4. p \in DOMAIN file => file[p] \o file[q] \in Seq(Int)
        BY <1>1, <3>3 DEF FilesOK
      <3>5. DOMAIN file' = DOMAIN file
            /\ \A x \in DOMAIN file : file'[x] = IF x = p THEN file[p] \o file[q] ELSE file[x]
        BY <3>2
      <3> QED BY <1>1, <3>4, <3>5 DEF FilesOK
    <2>2. CASE ~ok
      <3>1. file' = file
        BY <1>4, <2>2 DEF AppendPart
      <3> QED BY <1>1, <3>1 DEF FilesOK
    <2> QED BY <2>1, <2>2
  <1>5. ASSUME NEW ok \in BOOLEAN, RemovePart(ok) PROVE FilesOK'
    <2>1. file' \in {file, Without(file, PartPath(Current, part))}
      BY <1>5 DEF RemovePart
    <2> QED BY <1>1, <2>1, FileSet
  <1>6. ASSUME NEW ok \in BOOLEAN, RenameFirst(ok) PROVE FilesOK'
    <2>1. CASE ok
      <3>1. PICK p, v : p = FirstPart(Current) /\ v = file[p]
        OBVIOUS
      <3>2. p \in DOMAIN file
        BY <1>6, <3>1 DEF IInv, CombineOK, RenameFirst
      <3>3. v \in Seq(Int)
        BY <1>1, <3>1, <3>2 DEF FilesOK
      <3>4. PICK g : g = With(file, Current, v)
        OBVIOUS
      <3>5. file' = Without(g, p)
        BY <1>6, <2>1, <3>1, <3>4 DEF RenameFirst
      <3>6. \A x \in DOMAIN g : g[x] \in Seq(Int)
        <4>1. DOMAIN g = DOMAIN file \union {Current} /\ g[Current] = v
              /\ \A x \in DOMAIN file \ {Current} : g[x] = file[x]
          BY <3>4 DEF With
        <4> QED BY <1>1, <3>3, <4>1 DEF FilesOK
      <3>7. DOMAIN file' = DOMAIN g \ {p} /\ \A x \in DOMAIN g \ {p} : file'[x] = g[x]
        BY <3>5 DEF Without, Restrict
      <3> QED BY <3>6, <3>7 DEF FilesOK
    <2>2. CASE ~ok
      <3>1. file' = file
        BY <1>6, <2>2 DEF RenameFirst
      <3> QED BY <1>1, <3>1 DEF FilesOK
    <2> QED BY <2>1, <2>2
  <1> QED BY <1>2, <1>3, <1>4, <1>5, <1>6 DEF Main, Creation

--------------------------------------------------------------------------------
(* The transfers *)

\* A piece that arrives is the next one of the file.
LEMMA NextCell ==
  ASSUME IInv, NEW t \in Workers, pc[t] = "receive", pos[t] <= E(t).end
  PROVE  /\ Path(t) \in DOMAIN tmp /\ tmp[Path(t)] \in Seq(AllCells)
         /\ Len(tmp[Path(t)]) \in Nat /\ Len(tmp[Path(t)]) <= E(t).comp
         /\ \E c \in AllCells :
              /\ Bytes(Images[rel][E(t).url], pos[t], pos[t]) = <<c>>
              /\ CameFrom(c, Len(tmp[Path(t)]) + 1, Path(t))
  <1>1. TypesOK /\ QueueOK /\ TmpOK /\ Active(t) /\ Moving(pc[t], tries[t], resume[t], pos[t], E(t), tmp)
    BY DEF IInv, TransferOK, Active
  <1>2. PICK p \in Places(rel) :
          /\ IsFile(FileAt(rel, p)) /\ Path(t) = FileAt(rel, p).path
          /\ E(t).path = Path(t) /\ E(t).comp = Len(FileAt(rel, p).data)
          /\ E(t).comp \in Nat /\ E(t).start \in Nat /\ E(t).end = E(t).start + E(t).comp
          /\ \A j \in 0 .. E(t).comp :
               Bytes(Images[rel][E(t).url], E(t).start + j, E(t).start + j)
                 = <<Local(FileAt(rel, p))[j + 1]>>
    BY <1>1, ItemFacts
  <1>3. PICK d, f : d = tmp[Path(t)] /\ f = FileAt(rel, p)
    OBVIOUS
  <1>4. Path(t) \in DOMAIN tmp /\ pos[t] = E(t).start + Len(d)
    BY <1>1, <1>2, <1>3 DEF Moving
  <1>5. d \in Seq(AllCells) /\ Len(d) \in Nat
    <2>1. d \in Seq(AllCells)
      BY <1>1, <1>3, <1>4 DEF TmpOK
    <2> QED BY <2>1
  <1>6. PICK j : j = Len(d)
    OBVIOUS
  <1>7. j \in Nat /\ j <= E(t).comp
    BY <1>2, <1>4, <1>5, <1>6
  <1>8. PICK c : c = Local(f)[j + 1]
    OBVIOUS
  <1>9. Bytes(Images[rel][E(t).url], pos[t], pos[t]) = <<c>>
    <2>1. j \in 0 .. E(t).comp
      BY <1>2, <1>7
    <2> QED BY <1>2, <1>3, <1>4, <1>6, <1>8, <2>1
  <1>10. j + 1 \in 1 .. Len(f.data) + 1
    BY <1>2, <1>3, <1>7
  <1>11. c \in ToSet(Local(f))
    BY <1>2, <1>3, <1>8, <1>10, CellFacts
  <1>12. rel \in Releases
    BY <1>1 DEF TypesOK
  <1>13. c \in AllCells
    BY <1>3, <1>11, <1>12 DEF AllCells
  <1>14. CameFrom(c, j + 1, Path(t))
    BY <1>2, <1>3, <1>8, <1>10, <1>12 DEF CameFrom, CellAt
  <1> QED BY <1>3, <1>4, <1>5, <1>6, <1>7, <1>9, <1>13, <1>14

LEMMA TmpSet ==
  ASSUME TmpOK, NEW p, NEW v, v \in Seq(AllCells),
         \A k \in 1 .. Len(v) : CameFrom(v[k], k, p),
         tmp' \in {tmp, Without(tmp, p), With(tmp, p, v)}
  PROVE  TmpOK'
  <1>1. \A q \in DOMAIN tmp : /\ tmp[q] \in Seq(AllCells)
                              /\ \A k \in 1 .. Len(tmp[q]) : CameFrom(tmp[q][k], k, q)
    BY DEF TmpOK
  <1>2. ASSUME NEW q \in DOMAIN tmp'
        PROVE  \/ q \in DOMAIN tmp /\ tmp'[q] = tmp[q]
               \/ q = p /\ tmp'[q] = v
    <2>1. CASE tmp' = tmp
      BY <2>1
    <2>2. CASE tmp' = Without(tmp, p)
      BY <2>2 DEF Without, Restrict
    <2>3. CASE tmp' = With(tmp, p, v)
      BY <2>3 DEF With
    <2> QED BY <2>1, <2>2, <2>3
  <1>3. ASSUME NEW q \in DOMAIN tmp'
        PROVE  /\ tmp'[q] \in Seq(AllCells)
               /\ \A k \in 1 .. Len(tmp'[q]) : CameFrom(tmp'[q][k], k, q)
    BY <1>1, <1>2, Zenon
  <1> QED BY <1>3 DEF TmpOK

LEMMA TmpWorker ==
  ASSUME IInv, NEW t \in Workers, Worker(t)
  PROVE  TmpOK'
  <1>1. TmpOK
    BY DEF IInv
  <1>2. PICK e : e = <<>>
    OBVIOUS
  <1>3. e \in Seq(AllCells) /\ \A k \in 1 .. Len(e) : CameFrom(e[k], k, Path(t))
    BY <1>2
  <1> USE DEF disk, MainSame
  <1>4. CASE Pop(t) \/ DirectoryFails(t) \/ ReplaceFails(t) \/ Received(t) \/ Create(t)
             \/ Interrupted(t) \/ TransferFails(t) \/ ExtractFails(t) \/ Finish(t)
             \/ FetchSmallFails(t) \/ Extract(t)
    <2>1. tmp' = tmp
      BY <1>4 DEF Pop, DirectoryFails, ReplaceFails, Received, Interrupted, Create,
                  TransferFails, ExtractFails, Finish, FetchSmallFails, Extract
    <2> QED BY <1>1, <1>3, <2>1, TmpSet
  <1>5. ASSUME NEW inBase, Keep(t, inBase) \/ Replace(t, inBase) PROVE TmpOK'
    <2>1. tmp' \in {tmp, Without(tmp, Path(t))}
      BY <1>5 DEF Keep, Replace
    <2> QED BY <1>1, <1>3, <2>1, TmpSet
  <1>6. ASSUME NEW ok, MakeLink(t, ok) \/ FetchSmall(t, ok) \/ Extracted(t, ok) PROVE TmpOK'
    <2>1. tmp' \in {tmp, Without(tmp, Path(t))}
      BY <1>6 DEF MakeLink, FetchSmall, Extracted
    <2> QED BY <1>1, <1>3, <2>1, TmpSet
  <1>7. CASE Open(t)
    <2>1. tmp' \in {tmp, With(tmp, Path(t), e)}
      BY <1>2, <1>7 DEF Open
    <2> QED BY <1>1, <1>3, <2>1, TmpSet
  <1>8. CASE Receive(t)
    <2>1. pc[t] = "receive" /\ pos[t] <= E(t).end
      BY <1>8 DEF Receive
    <2>2. PICK d, p : p = Path(t) /\ d = tmp[p]
      OBVIOUS
    <2>3. p \in DOMAIN tmp /\ d \in Seq(AllCells) /\ Len(d) \in Nat
      BY <2>1, <2>2, NextCell
    <2>4. PICK c \in AllCells : Bytes(Images[rel][E(t).url], pos[t], pos[t]) = <<c>>
                                /\ CameFrom(c, Len(d) + 1, p)
      BY <2>1, <2>2, NextCell
    <2>5. PICK v : v = d \o <<c>>
      OBVIOUS
    <2>6. tmp' = [tmp EXCEPT ![p] = v]
      BY <1>8, <2>2, <2>4, <2>5 DEF Receive
    <2>7. v \in Seq(AllCells) /\ Len(v) = Len(d) + 1 /\ v[Len(d) + 1] = c
          /\ \A k \in 1 .. Len(d) : v[k] = d[k]
      BY <2>3, <2>4, <2>5
    <2>8. \A k \in 1 .. Len(d) : CameFrom(d[k], k, p)
      BY <1>1, <2>2, <2>3 DEF TmpOK
    <2>9. ASSUME NEW k \in 1 .. Len(v) PROVE CameFrom(v[k], k, p)
      <3>1. CASE k = Len(d) + 1
        BY <2>4, <2>7, <3>1
      <3>2. CASE k # Len(d) + 1
        <4>1. k \in 1 .. Len(d)
          BY <2>3, <2>7, <3>2
        <4> QED BY <2>7, <2>8, <4>1
      <3> QED BY <3>1, <3>2
    <2>10. tmp' = With(tmp, p, v)
      BY <2>3, <2>6 DEF With
    <2> QED BY <1>1, <2>7, <2>9, <2>10, TmpSet
  <1> QED BY <1>4, <1>5, <1>6, <1>7, <1>8 DEF Worker

\* A transfer whose .lgogdltmp file nobody else touches goes on.
LEMMA MovingSame ==
  ASSUME NEW at, NEW n, NEW from, NEW next, NEW e, NEW d, NEW g,
         Moving(at, n, from, next, e, d), SameAt(d, g, e.path)
  PROVE  Moving(at, n, from, next, e, g)
  BY DEF Moving, SameAt

LEMMA OtherPath ==
  ASSUME TypesOK, QueueOK, NEW t \in Workers, NEW u \in Workers, t # u, Active(t), Active(u)
  PROVE  Path(u) # Path(t)
  <1>1. rel \in Releases /\ item[t] \in DOMAIN Entries[rel] /\ item[u] \in DOMAIN Entries[rel]
        /\ item[t] # item[u]
    BY DEF TypesOK, QueueOK
  <1> QED BY <1>1, PathsDistinct DEF Path, E, Entry

LEMMA TransferWorker ==
  ASSUME IInv, NEW t \in Workers, Worker(t)
  PROVE  TransferOK'
  <1>1. /\ TypesOK /\ QueueOK /\ TmpOK /\ Frame(t)
        /\ \A u \in Workers : Moving(pc[u], tries[u], resume[u], pos[u], E(u), tmp)
    BY FrameFacts DEF IInv, TransferOK
  <1>2. /\ pc \in [Workers -> PCs] /\ item \in [Workers -> Nat] /\ resume \in [Workers -> Nat]
        /\ tries \in [Workers -> Nat] /\ pos \in [Workers -> Nat] /\ Retries \in Nat
        /\ UNCHANGED rel
    BY <1>1, CountsAssumption DEF TypesOK, Frame
  <1>3. ASSUME NEW u \in Workers, u # t
        PROVE  Moving(pc'[u], tries'[u], resume'[u], pos'[u], E(u)', tmp')
    <2>1. /\ pc'[u] = pc[u] /\ item'[u] = item[u] /\ resume'[u] = resume[u]
          /\ tries'[u] = tries[u] /\ pos'[u] = pos[u]
      BY <1>1, <1>3 DEF Frame
    <2>2. E(u)' = E(u)
      BY <1>2, <2>1 DEF E, Entry
    <2>3. CASE Active(u)
      <3>1. SameAt(tmp, tmp', Path(u))
        <4>1. CASE Active(t)
          BY <1>1, <1>3, <2>3, <4>1, OtherPath DEF Frame
        <4>2. CASE ~Active(t)
          BY <1>1, <4>2 DEF Frame, SameAt
        <4> QED BY <4>1, <4>2
      <3>2. Path(u) = E(u).path
        BY DEF Path
      <3>3. Moving(pc[u], tries[u], resume[u], pos[u], E(u), tmp')
        BY <1>1, <3>1, <3>2, MovingSame
      <3> QED BY <2>1, <2>2, <3>3
    <2>4. CASE ~Active(u)
      BY <2>1, <2>4 DEF Active, Moving
    <2> QED BY <2>3, <2>4
  <1> SUFFICES Moving(pc'[t], tries'[t], resume'[t], pos'[t], E(t)', tmp')
    BY <1>3 DEF TransferOK
  <1> USE DEF MainSame, Goto, disk
  <1>4. CASE pc'[t] \notin {"open", "receive", "extract", "extracting"}
    BY <1>4 DEF Moving
  <1>5. CASE Pop(t) \/ DirectoryFails(t) \/ ReplaceFails(t) \/ Create(t) \/ FetchSmallFails(t)
             \/ TransferFails(t) \/ ExtractFails(t) \/ Finish(t)
             \/ (\E b \in BOOLEAN : Keep(t, b))
             \/ (\E ok \in BOOLEAN : MakeLink(t, ok) \/ FetchSmall(t, ok) \/ Extracted(t, ok))
    <2>1. pc'[t] \in {"pop", "done", "examine", "memory"}
      BY <1>2, <1>5 DEF Pop, DirectoryFails, ReplaceFails, Create, FetchSmallFails, TransferFails,
                        ExtractFails, Finish, Keep, MakeLink, FetchSmall, Extracted
    <2> QED BY <1>4, <2>1
  <1>6. ASSUME Active(t), item' = item
        PROVE  /\ E(t)' = E(t) /\ E(t).path = Path(t) /\ E(t).comp \in Nat /\ E(t).start \in Nat
               /\ E(t).end = E(t).start + E(t).comp
    <2>1. E(t)' = E(t)
      BY <1>2, <1>6 DEF E, Entry
    <2> QED BY <1>1, <1>6, <2>1, ItemFacts
  <1>7. ASSUME Path(t) \in DOMAIN tmp PROVE Len(tmp[Path(t)]) \in Nat
    <2>1. tmp[Path(t)] \in Seq(AllCells)
      BY <1>1, <1>7 DEF TmpOK
    <2> QED BY <2>1
  <1>8. ASSUME NEW inBase, Replace(t, inBase), pc'[t] = "open"
        PROVE  Moving(pc'[t], tries'[t], resume'[t], pos'[t], E(t)', tmp')
    <2>1. Active(t) /\ item' = item
      BY <1>8 DEF Replace, Active
    <2>2. tries'[t] = 0
      BY <1>2, <1>8 DEF Replace
    <2>3. CASE Resumable(t)
      <3>1. resume'[t] = Len(tmp[Path(t)]) /\ tmp' = tmp
        BY <1>2, <1>8, <2>3 DEF Replace
      <3>2. Path(t) \in DOMAIN tmp /\ Len(tmp[Path(t)]) < E(t).comp
        BY <2>3 DEF Resumable, Resumed, Path, E
      <3>3. Len(tmp[Path(t)]) \in Nat
        BY <1>7, <3>2
      <3>4. E(t)' = E(t) /\ E(t).path = Path(t) /\ E(t).comp \in Nat
        BY <1>6, <2>1
      <3> QED BY <1>2, <1>8, <2>2, <3>1, <3>2, <3>3, <3>4 DEF Moving
    <2>4. CASE ~Resumable(t)
      <3>1. resume'[t] = 0
        BY <1>2, <1>8, <2>4 DEF Replace
      <3>2. E(t)' = E(t) /\ E(t).comp \in Nat
        BY <1>6, <2>1
      <3> QED BY <1>2, <1>8, <2>2, <3>1, <3>2 DEF Moving
    <2> QED BY <2>3, <2>4
  <1>9. CASE Open(t)
    <2>1. Active(t) /\ item' = item /\ pc'[t] = "receive" /\ pos'[t] = First(t)
          /\ tries'[t] = tries[t] /\ pc[t] = "open"
          /\ tmp' = IF resume[t] > 0 THEN tmp ELSE With(tmp, Path(t), <<>>)
      BY <1>2, <1>9 DEF Open, Active
    <2>2. E(t)' = E(t) /\ E(t).path = Path(t) /\ E(t).comp \in Nat /\ E(t).start \in Nat
      BY <1>6, <2>1
    <2>3. tries[t] <= Retries /\ resume[t] <= E(t).comp /\ resume[t] \in Nat
          /\ (resume[t] > 0 => Path(t) \in DOMAIN tmp /\ Len(tmp[Path(t)]) = resume[t])
      BY <1>1, <1>2, <2>1, <2>2 DEF Moving
    <2>4. pos'[t] = E(t).start + resume[t]
      BY <2>1 DEF First
    <2>5. Path(t) \in DOMAIN tmp' /\ Len(tmp'[Path(t)]) = resume[t]
      <3>1. CASE resume[t] > 0
        BY <2>1, <2>3, <3>1
      <3>2. CASE ~(resume[t] > 0)
        <4>1. tmp' = With(tmp, Path(t), <<>>) /\ resume[t] = 0
          BY <2>1, <2>3, <3>2
        <4>2. Path(t) \in DOMAIN tmp' /\ tmp'[Path(t)] = <<>>
          BY <4>1 DEF With
        <4> QED BY <4>1, <4>2
      <3> QED BY <3>1, <3>2
    <2>6. resume[t] <= E(t).comp + 1
      BY <2>2, <2>3
    <2> QED BY <2>1, <2>2, <2>3, <2>4, <2>5, <2>6 DEF Moving
  <1>10. CASE Receive(t)
    <2>1. Active(t) /\ item' = item /\ pc[t] = "receive" /\ pc'[t] = "receive" /\ pos[t] <= E(t).end
          /\ pos'[t] = pos[t] + 1 /\ tries'[t] = tries[t]
          /\ tmp' = [tmp EXCEPT ![Path(t)] = @ \o Bytes(Images[rel][E(t).url], pos[t], pos[t])]
      BY <1>2, <1>10 DEF Receive, Active
    <2>2. E(t)' = E(t) /\ E(t).path = Path(t) /\ E(t).comp \in Nat /\ E(t).start \in Nat
      BY <1>6, <2>1
    <2>3. PICK d, p : p = Path(t) /\ d = tmp[p]
      OBVIOUS
    <2>4. p \in DOMAIN tmp /\ d \in Seq(AllCells) /\ Len(d) \in Nat /\ Len(d) <= E(t).comp
      BY <2>1, <2>3, NextCell
    <2>5. PICK c \in AllCells : Bytes(Images[rel][E(t).url], pos[t], pos[t]) = <<c>>
      BY <2>1, NextCell
    <2>6. p \in DOMAIN tmp' /\ tmp'[p] = d \o <<c>>
      BY <2>1, <2>3, <2>4, <2>5
    <2>7. Len(d \o <<c>>) = Len(d) + 1
      BY <2>4, <2>5
    <2>8. tries[t] <= Retries /\ pos[t] = E(t).start + Len(d)
      BY <1>1, <2>1, <2>2, <2>3 DEF Moving
    <2>9. PICK l, m, s : l = Len(d) /\ m = Len(tmp'[p]) /\ s = E(t).start
      OBVIOUS
    <2>10. m = l + 1 /\ pos'[t] = s + m /\ m <= E(t).comp + 1
      <3>1. l \in Nat /\ s \in Nat /\ l <= E(t).comp /\ pos'[t] = (s + l) + 1 /\ m = l + 1
        BY <2>1, <2>2, <2>4, <2>6, <2>7, <2>8, <2>9
      <3> QED BY <2>2, <3>1
    <2> QED BY <2>1, <2>2, <2>3, <2>6, <2>8, <2>9, <2>10 DEF Moving
  <1>11. CASE Received(t)
    <2>1. Active(t) /\ item' = item /\ pc[t] = "receive" /\ pc'[t] = "extract" /\ pos[t] > E(t).end
          /\ tmp' = tmp
      BY <1>2, <1>11 DEF Received, Active
    <2>2. E(t)' = E(t) /\ E(t).path = Path(t) /\ E(t).comp \in Nat /\ E(t).start \in Nat
          /\ E(t).end = E(t).start + E(t).comp
      BY <1>6, <2>1
    <2>3. Path(t) \in DOMAIN tmp /\ pos[t] = E(t).start + Len(tmp[Path(t)])
          /\ Len(tmp[Path(t)]) <= E(t).comp + 1
      BY <1>1, <2>1, <2>2 DEF Moving
    <2>4. Len(tmp[Path(t)]) = E(t).comp + 1
      <3>1. PICK l : l = Len(tmp[Path(t)]) /\ l \in Nat
        BY <1>7, <2>3
      <3> QED BY <2>1, <2>2, <2>3, <3>1
    <2> QED BY <2>1, <2>2, <2>3, <2>4 DEF Moving
  <1>12. CASE Interrupted(t) /\ pc'[t] = "open"
    <2>1. Active(t) /\ item' = item /\ pc[t] = "receive" /\ pos[t] <= E(t).end /\ tmp' = tmp
          /\ resume'[t] = Len(tmp[Path(t)]) /\ RetriesLeft(tries'[t])
      BY <1>2, <1>12 DEF Interrupted, Active
    <2>2. E(t)' = E(t) /\ E(t).path = Path(t)
      BY <1>6, <2>1
    <2>3. Path(t) \in DOMAIN tmp /\ Len(tmp[Path(t)]) <= E(t).comp
      BY <2>1, NextCell
    <2>4. tries'[t] <= Retries
      BY <2>1 DEF RetriesLeft
    <2> QED BY <1>12, <2>1, <2>2, <2>3, <2>4 DEF Moving
  <1>13. CASE Extract(t)
    <2>1. Active(t) /\ item' = item /\ pc[t] = "extract" /\ pc'[t] = "extracting" /\ tmp' = tmp
      BY <1>2, <1>13 DEF Extract, Active
    <2>2. E(t)' = E(t)
      BY <1>6, <2>1
    <2> QED BY <1>1, <2>1, <2>2 DEF Moving
  <1>14. ASSUME NEW inBase, Replace(t, inBase), pc'[t] # "open"
         PROVE  Moving(pc'[t], tries'[t], resume'[t], pos'[t], E(t)', tmp')
    <2>1. pc'[t] \in {"link", "create"}
      BY <1>2, <1>14 DEF Replace
    <2> QED BY <1>4, <2>1
  <1>15. CASE Interrupted(t) /\ pc'[t] # "open"
    <2>1. pc'[t] = "pop"
      BY <1>2, <1>15 DEF Interrupted
    <2> QED BY <1>4, <2>1
  <1>16. \A b : Keep(t, b) => pc'[t] = "pop"
    BY <1>2 DEF Keep
  <1>17. ASSUME NEW b, Keep(t, b)
         PROVE  Moving(pc'[t], tries'[t], resume'[t], pos'[t], E(t)', tmp')
    BY <1>4, <1>16, <1>17
  <1> QED BY <1>5, <1>8, <1>9, <1>10, <1>11, <1>12, <1>13, <1>14, <1>15, <1>17 DEF Worker

LEMMA TransferOthers ==
  ASSUME IInv, Publish \/ Crash \/ Start \/ Main \/ UNCHANGED vars
  PROVE  TmpOK' /\ TransferOK'
  <1>1. TmpOK /\ TypesOK /\ TypesOK' /\ \A u \in Workers : Moving(pc[u], tries[u], resume[u], pos[u], E(u), tmp)
    BY TypesOthers DEF IInv, TransferOK
  <1> USE DEF disk, vars, plan, threads
  <1>2. UNCHANGED tmp
    BY DEF Publish, Crash, Start, Begin, Main, StartThreads, PrintProgress, JoinThreads, SkipBase,
           StartCombining, StartFails, AppendFails, AllAppended, AppendPart, RemovePart,
           RenameFirst, End, CreateThread, CopyStatuses, MoveStatuses, CreateNext
  <1>3. TmpOK'
    BY <1>1, <1>2 DEF TmpOK
  <1>4. CASE mpc' \notin Threaded \/ StartThreads
    <2>1. \A t \in Workers : pc'[t] \in Resting
      BY <1>1, <1>4 DEF TypesOK, StartThreads
    <2> QED BY <1>3, <2>1 DEF TransferOK, Moving
  <1>5. CASE mpc' \in Threaded /\ ~StartThreads /\ ~Creation
    <2>1. UNCHANGED <<pc, tries, resume, pos, item, rel>>
      BY <1>5 DEF Publish, Crash, Start, Begin, Main, PrintProgress, JoinThreads, SkipBase,
                  StartCombining, StartFails, AppendFails, AllAppended, AppendPart, RemovePart,
                  RenameFirst, End, Creation
    <2>2. \A u : E(u)' = E(u)
      BY <2>1 DEF E, Entry
    <2> QED BY <1>1, <1>2, <1>3, <2>1, <2>2 DEF TransferOK
  <1>6. CASE Creation
    <2>1. CreationStep
      BY <1>1, <1>6, CreationFacts
    <2>2. \A u : E(u)' = E(u)
      BY <2>1 DEF CreationStep, E, Entry
    <2>3. \A u \in Workers : Moving(pc'[u], tries'[u], resume'[u], pos'[u], E(u)', tmp')
      BY <1>1, <2>1, <2>2 DEF CreationStep, Moving
    <2> QED BY <1>3, <2>3 DEF TransferOK
  <1> QED BY <1>4, <1>5, <1>6

--------------------------------------------------------------------------------
(* The parts that are combined *)

LEMMA CombineWorker ==
  ASSUME IInv, NEW t \in Workers, Worker(t)
  PROVE  CombineOK'
  <1>1. mpc' \in Threaded
    BY FrameFacts DEF IInv, Frame
  <1> QED BY <1>1 DEF CombineOK

\* The base file that is combined.
LEMMA CurrentFacts ==
  ASSUME TypesOK, CombineOK, mpc \in {"combine", "append", "remove", "rename"}, todo # {}
  PROVE  /\ Current \in todo /\ Current \in bases
         /\ Current # FirstPart(Current)
         /\ 1 \in DOMAIN Parts(bases, Current)
         /\ AllPartsExist(Current) => FirstPart(Current) \in DOMAIN file
         /\ \A i \in DOMAIN Parts(bases, Current) :
              PartPath(Current, i) = FirstPart(Current) => i = 1
         /\ DOMAIN Parts(bases, Current) = 1 .. Len(Parts(bases, Current))
         /\ Len(Parts(bases, Current)) \in Nat
  <1>1. Current \in todo
    BY DEF Current
  <1>2. PICK b : b = Current
    OBVIOUS
  <1>3. b \in bases /\ Parts(bases, b) # <<>>
    BY <1>1, <1>2 DEF CombineOK
  <1>4. rel \in Releases /\ bases \subseteq Listed[rel]
    BY DEF TypesOK
  <1>5. /\ DOMAIN Parts(bases, b) = 1 .. Len(Parts(bases, b)) /\ Len(Parts(bases, b)) \in Nat
        /\ \A i \in DOMAIN Parts(bases, b) : PartPath(b, i) \notin Listed[rel]
        /\ \A i, j \in DOMAIN Parts(bases, b) : PartPath(b, i) = PartPath(b, j) => i = j
        /\ 1 \in DOMAIN Parts(bases, b)
    BY <1>3, <1>4, PartsFacts
  <1>6. b # FirstPart(b)
    BY <1>3, <1>4, <1>5 DEF FirstPart
  <1>7. AllPartsExist(b) => FirstPart(b) \in DOMAIN file
    BY <1>5 DEF AllPartsExist, FirstPart
  <1>8. \A i \in DOMAIN Parts(bases, b) : PartPath(b, i) = FirstPart(b) => i = 1
    BY <1>5 DEF FirstPart
  <1> QED BY <1>1, <1>2, <1>3, <1>5, <1>6, <1>7, <1>8

\* Which parts there are depends on the release and the base files only.
PartsOf(r, bs, b) ==
  Sorted({n \in DOMAIN Entries[r] : (Entries[r][n].kind = "file" /\ Entries[r][n].base \in bs)
                                   /\ Entries[r][n].base = b},
         LAMBDA n : Entries[r][n].part)

LEMMA PartsAre == \A b : Parts(bases, b) = PartsOf(rel, bases, b)
  BY Zenon DEF Parts, PartsOf, IsPart, Entry

LEMMA PartsSame ==
  ASSUME UNCHANGED <<rel, bases>>
  PROVE  \A b : Parts(bases, b)' = Parts(bases, b)
  <1>1. (\A b : Parts(bases, b) = PartsOf(rel, bases, b))'
    BY PartsAre, PTL
  <1> QED BY <1>1, PartsAre

LEMMA CombineOthers ==
  ASSUME IInv, Publish \/ Crash \/ Start \/ Main \/ UNCHANGED vars
  PROVE  CombineOK'
  <1>1. TypesOK /\ CombineOK
    BY DEF IInv
  <1> USE DEF disk, vars, plan, threads
  <1>2. CASE mpc' \in {"idle", "queue"} \union Threaded
    BY <1>2 DEF CombineOK
  <1>3. ASSUME UNCHANGED <<mpc, rel, bases, todo, part, file>> PROVE CombineOK'
    <2>1. PICK c : c = Current
      OBVIOUS
    <2>2. Current' = c /\ FirstPart(Current)' = FirstPart(Current)
          /\ Parts(bases, Current)' = Parts(bases, Current)
          /\ \A b : Parts(bases, b)' = Parts(bases, b)
      <3>1. \A b : Parts(bases, b)' = Parts(bases, b)
        BY <1>3, PartsSame
      <3> QED BY <1>3, <2>1, <3>1 DEF Current, FirstPart, PartPath, Entry
    <2> QED BY <1>1, <1>3, <2>2 DEF CombineOK
  <1>4. CASE Publish \/ PrintProgress \/ UNCHANGED vars
    <2>1. UNCHANGED <<mpc, rel, bases, todo, part, file>>
      BY <1>4 DEF Publish, PrintProgress
    <2> QED BY <1>3, <2>1
  <1>5. CASE Crash \/ Start \/ StartThreads \/ End \/ Creation
    <2>1. mpc' \in {"idle", "queue"} \union Threaded
      BY <1>1, <1>5, CreationFacts DEF Crash, Start, Begin, StartThreads, End, CreationStep
    <2> QED BY <1>2, <2>1
  <1>6. CASE JoinThreads
    <2>1. mpc' = "combine" /\ UNCHANGED <<rel, bases>>
          /\ todo' = {b \in bases : Parts(bases, b) # <<>>}
      BY <1>6 DEF JoinThreads
    <2>2. \A b : Parts(bases, b)' = Parts(bases, b)
      BY <2>1, PartsSame
    <2> QED BY <2>1, <2>2 DEF CombineOK
  \* In the other steps a base file is combined.
  <1>7. ASSUME SkipBase \/ StartCombining \/ StartFails \/ AppendFails \/ AllAppended
               \/ \E ok \in BOOLEAN : AppendPart(ok) \/ RemovePart(ok) \/ RenameFirst(ok)
        PROVE  CombineOK'
    <2>1. /\ mpc \in {"combine", "append", "remove", "rename"} /\ todo # {}
          /\ mpc' \in {"combine", "append", "remove", "rename"} /\ UNCHANGED <<rel, bases>>
      BY <1>1, <1>7 DEF SkipBase, StartCombining, StartFails, AppendFails, AllAppended, AppendPart,
                  RemovePart, RenameFirst, CombineOK
    <2>2. /\ Current \in todo /\ Current # FirstPart(Current)
          /\ 1 \in DOMAIN Parts(bases, Current)
          /\ (AllPartsExist(Current) => FirstPart(Current) \in DOMAIN file)
          /\ \A i \in DOMAIN Parts(bases, Current) :
               PartPath(Current, i) = FirstPart(Current) => i = 1
          /\ DOMAIN Parts(bases, Current) = 1 .. Len(Parts(bases, Current))
          /\ Len(Parts(bases, Current)) \in Nat
      BY <1>1, <2>1, CurrentFacts
    <2>3. \A b : Parts(bases, b)' = Parts(bases, b)
      BY <2>1, PartsSame
    <2>4. todo' = todo \/ todo' = todo \ {Current}
      BY <1>7 DEF SkipBase, StartCombining, StartFails, AppendFails, AllAppended, AppendPart,
                  RemovePart, RenameFirst
    <2>5. \A b \in todo' : b \in bases' /\ Parts(bases, b)' # <<>>
      BY <1>1, <2>1, <2>3, <2>4 DEF CombineOK
    <2>6. CASE mpc' = "combine"
      BY <2>5, <2>6 DEF CombineOK
    <2>7. CASE mpc' # "combine"
      <3>1. todo' = todo
        BY <1>7, <2>7 DEF SkipBase, StartCombining, StartFails, AppendFails, AllAppended,
                  AppendPart, RemovePart, RenameFirst
      <3>2. Current' = Current /\ FirstPart(Current)' = FirstPart(Current)
            /\ Parts(bases, Current)' = Parts(bases, Current)
        <4>1. Current' = Current
          BY <3>1 DEF Current
        <4>2. \A b : FirstPart(b)' = FirstPart(b)
          BY <2>1, <2>3 DEF FirstPart, PartPath, Entry
        <4> QED BY <2>3, <4>1, <4>2
      <3>3. FirstPart(Current) \in DOMAIN file
            /\ (mpc \in {"append", "remove"} => part \in Nat /\ part >= 2)
            /\ (mpc = "remove" => part <= Len(Parts(bases, Current)))
        BY <1>1, <1>7, <2>2, <2>7 DEF SkipBase, StartCombining, StartFails, AppendFails, AllAppended,
                  AppendPart, RemovePart, RenameFirst, CombineOK
      <3>4. FirstPart(Current) \in DOMAIN file'
        <4>1. CASE StartCombining \/ StartFails
          <5>1. file' = file \/ file' = Without(file, Current)
            BY <4>1 DEF StartCombining, StartFails
          <5> QED BY <2>2, <3>3, <5>1 DEF Without, Restrict
        <4>2. CASE AppendFails \/ AllAppended \/ \E ok \in BOOLEAN : AppendPart(ok)
          <5>1. DOMAIN file' = DOMAIN file
            BY <4>2 DEF AppendFails, AllAppended, AppendPart
          <5> QED BY <3>3, <5>1
        <4>3. ASSUME NEW ok \in BOOLEAN, RemovePart(ok) PROVE FirstPart(Current) \in DOMAIN file'
          <5>1. part \in DOMAIN Parts(bases, Current) /\ part # 1
            BY <2>2, <3>3, <4>3 DEF RemovePart
          <5>2. PartPath(Current, part) # FirstPart(Current)
            BY <2>2, <5>1
          <5>3. file' = file \/ file' = Without(file, PartPath(Current, part))
            BY <4>3 DEF RemovePart
          <5> QED BY <3>3, <5>2, <5>3 DEF Without, Restrict
        <4>4. CASE SkipBase \/ \E ok \in BOOLEAN : RenameFirst(ok)
          BY <2>7, <4>4 DEF SkipBase, RenameFirst
        <4> QED BY <1>7, <4>1, <4>2, <4>3, <4>4
      <3>5. mpc' \in {"append", "remove"} => part' \in Nat /\ part' >= 2
        <4>1. CASE StartCombining
          BY <4>1 DEF StartCombining
        <4>2. CASE \E ok \in BOOLEAN : AppendPart(ok)
          BY <3>3, <4>2 DEF AppendPart
        <4>3. CASE \E ok \in BOOLEAN : RemovePart(ok)
          <5>1. part' = part + 1 /\ part \in Nat /\ part >= 2
            BY <3>3, <4>3 DEF RemovePart
          <5> QED BY <5>1
        <4>4. CASE StartFails \/ AppendFails \/ AllAppended
          BY <2>7, <4>4 DEF StartFails, AppendFails, AllAppended
        <4>5. CASE SkipBase \/ \E ok \in BOOLEAN : RenameFirst(ok)
          BY <2>7, <4>5 DEF SkipBase, RenameFirst
        <4> QED BY <1>7, <4>1, <4>2, <4>3, <4>4, <4>5
      <3>6. mpc' = "remove" => part' <= Len(Parts(bases, Current))
        <4> SUFFICES ASSUME mpc' = "remove" PROVE part' <= Len(Parts(bases, Current))
          OBVIOUS
        <4>1. PICK ok \in BOOLEAN : AppendPart(ok)
          BY <1>7, <2>7 DEF SkipBase, StartCombining, StartFails, AppendFails, AllAppended,
                      AppendPart, RemovePart, RenameFirst
        <4> QED BY <4>1 DEF AppendPart, Remaining
      <3> QED BY <2>1, <2>5, <3>1, <3>2, <3>4, <3>5, <3>6 DEF CombineOK
    <2> QED BY <2>6, <2>7
  <1> QED BY <1>4, <1>5, <1>6, <1>7 DEF Main, Creation

--------------------------------------------------------------------------------
(* The theorems *)

LEMMA NextInv == IInv /\ [Next]_vars => IInv'
  <1> SUFFICES ASSUME IInv, [Next]_vars PROVE IInv'
    OBVIOUS
  <1>1. ASSUME NEW t \in Workers, Worker(t) PROVE IInv'
    <2>1. TypesOK' /\ QueueOK' /\ FilesOK'
      BY <1>1, TypesWorker, QueueWorker, FilesWorker
    <2>2. TmpOK' /\ TransferOK' /\ CombineOK'
      BY <1>1, TmpWorker, TransferWorker, CombineWorker
    <2> QED BY <2>1, <2>2 DEF IInv
  <1>2. CASE Publish \/ Crash \/ Start \/ Main \/ UNCHANGED vars
    <2>1. TypesOK' /\ QueueOK' /\ FilesOK'
      BY <1>2, TypesOthers, QueueOthers, FilesOthers
    <2>2. TmpOK' /\ TransferOK' /\ CombineOK'
      BY <1>2, TransferOthers, CombineOthers
    <2> QED BY <2>1, <2>2 DEF IInv
  <1> QED BY <1>1, <1>2 DEF Next

\* Every file holds extracted bytes; a thread that extracts has its .lgogdltmp
\* file, and one that transfers has attempts left; and while the parts of a base
\* file are appended to its first part, that part is there: between the crashes
\* and failures of any number of runs of galaxyInstallGame_MojoSetupHack.
THEOREM TypeCorrect == Spec => []TypeOK
  <1>1. IInv => TypeOK
    <2> SUFFICES ASSUME IInv PROVE TypeOK
      OBVIOUS
    <2>1. TypesOK /\ FilesOK /\ CombineOK /\ TransferOK
      BY DEF IInv
    <2>2. \A t \in Workers : /\ pc[t] \in {"open", "receive"} => tries[t] <= Retries
                             /\ pc[t] \in {"extract", "extracting"} => Path(t) \in DOMAIN tmp
      BY <2>1 DEF TransferOK, Moving, Path
    <2> QED BY <2>1, <2>2 DEF TypeOK, TypesOK, PCs, FilesOK, CombineOK
  <1> QED BY <1>1, InitInv, NextInv, PTL DEF Spec

\* A .lgogdltmp file that has only bytes of the range is the range.
LEMMA WholeTransfer ==
  ASSUME IInv, NEW t \in Workers, pc[t] = "extract",
         ToSet(tmp[Path(t)]) \subseteq ToSet(DlRange(t))
  PROVE  tmp[Path(t)] = DlRange(t)
  <1>1. TypesOK /\ QueueOK /\ TmpOK /\ Active(t) /\ Moving(pc[t], tries[t], resume[t], pos[t], E(t), tmp)
    BY DEF IInv, TransferOK, Active
  <1>2. PICK p \in Places(rel) :
          /\ IsFile(FileAt(rel, p)) /\ Path(t) = FileAt(rel, p).path
          /\ E(t).path = Path(t) /\ E(t).comp = Len(FileAt(rel, p).data)
          /\ DlRange(t) = Local(FileAt(rel, p))
    BY <1>1, ItemFacts DEF DlRange
  <1>3. PICK d, f, n : d = tmp[Path(t)] /\ f = FileAt(rel, p) /\ n = Len(f.data)
    OBVIOUS
  <1>4. PICK l : l = Local(f)
    OBVIOUS
  <1>5. l \in Seq(ToSet(l)) /\ Len(l) = n + 1 /\ n \in Nat /\ DOMAIN l = 1 .. n + 1
    <2>1. l \in Seq(ToSet(l)) /\ Len(l) = n + 1 /\ n \in Nat
      BY <1>2, <1>3, <1>4, LocalFacts DEF IsFile
    <2> QED BY <2>1
  <1>6. d \in Seq(AllCells) /\ Len(d) = n + 1 /\ \A k \in 1 .. n + 1 : CameFrom(d[k], k, f.path)
    <2>1. Path(t) \in DOMAIN tmp /\ Len(d) = n + 1
      BY <1>1, <1>2, <1>3 DEF Moving
    <2> QED BY <1>1, <1>2, <1>3, <2>1 DEF TmpOK
  <1>7. DOMAIN d = 1 .. n + 1
    BY <1>5, <1>6
  <1>8. ASSUME NEW k \in 1 .. n + 1 PROVE d[k] = l[k]
    <2>1. PICK j \in 1 .. n + 1 : d[k] = l[j]
      <3>1. d[k] \in ToSet(d)
        BY <1>7 DEF ToSet
      <3>2. ToSet(d) \subseteq ToSet(l)
        BY <1>2, <1>3, <1>4
      <3> QED BY <1>5, <3>1, <3>2 DEF ToSet
    <2>2. PICK r \in Releases : \E q \in Places(r) :
            FileAt(r, q).path = f.path /\ CellAt(FileAt(r, q), d[k], k)
      BY <1>6 DEF CameFrom
    <2>3. PICK q \in Places(r) : FileAt(r, q).path = f.path /\ CellAt(FileAt(r, q), d[k], k)
      BY <2>2
    <2>4. PICK g : g = FileAt(r, q) /\ IsFile(g)
      BY PlaceFacts
    <2>5. k \in 1 .. Len(g.data) + 1 /\ d[k] = Local(g)[k] /\ g.path = f.path
      BY <2>3, <2>4 DEF CellAt
    <2>6. (k = 1 => d[k] = Header(g))
          /\ (k # 1 => k - 1 \in 1 .. Len(g.data) /\ d[k] = Piece(g.data[k - 1]))
      BY <2>4, <2>5, CellFacts
    <2>7. (j = 1 => d[k] = Header(f))
          /\ (j # 1 => j - 1 \in 1 .. Len(f.data) /\ d[k] = Piece(f.data[j - 1]))
      BY <1>2, <1>3, <1>4, <2>1, CellFacts
    <2>8. \A v : Header(f) # Piece(v) /\ Header(g) # Piece(v)
      BY DEF Header, Piece
    <2>9. ASSUME j # 1, k # 1 PROVE j = k
      <3>1. g.data[k - 1] = f.data[j - 1]
        BY <2>6, <2>7, <2>9 DEF Piece
      <3>2. rel \in Releases
        BY <1>1 DEF TypesOK
      <3>3. j - 1 \in DOMAIN f.data /\ k - 1 \in DOMAIN g.data
        <4>1. \A h : IsFile(h) => DOMAIN h.data = 1 .. Len(h.data)
          BY DEF IsFile
        <4> QED BY <1>2, <1>3, <2>4, <2>6, <2>7, <2>9, <4>1
      <3>4. k - 1 = j - 1
        BY <1>3, <2>4, <2>5, <3>1, <3>2, <3>3, PiecesAssumption
      <3> QED BY <3>4
    <2>10. j = k
      BY <2>6, <2>7, <2>8, <2>9
    <2> QED BY <2>1, <2>10
  <1>9. d = l
    BY <1>5, <1>6, <1>8
  <1> QED BY <1>2, <1>3, <1>4, <1>9

\* A transfer that ends well leaves the range of its file, in however many
\* attempts of however many runs its bytes came, with crashes between them,
\* unless bytes of another release were in the .lgogdltmp file it went on with:
\* the resume position, the range asked for and the file never disagree.
THEOREM TransfersCorrect == Spec => []TransfersWhole
  <1>1. IInv => TransfersWhole
    BY WholeTransfer DEF TransfersWhole
  <1> QED BY <1>1, InitInv, NextInv, PTL DEF Spec

--------------------------------------------------------------------------------
(* What a right range gives *)

\* The range of a file is extracted to its content, and nothing else.
LEMMA RightExtraction ==
  ASSUME NEW f, IsFile(f), NEW x \in Extractions(Local(f))
  PROVE  x = [ok |-> TRUE, out |-> Content(f)]
  <1> DEFINE b == [i \in DOMAIN f.data |-> Piece(f.data[i])]
  <1>1. PICK s : s = Local(f)
    OBVIOUS
  <1>2. DOMAIN f.data = 1 .. Len(f.data) /\ Len(f.data) \in Nat
    BY DEF IsFile
  <1>3. s # <<>> /\ s[1] = Header(f) /\ Tail(s) = b
    <2>1. PICK T : T = {Header(f)} \union {Piece(f.data[i]) : i \in DOMAIN f.data}
      OBVIOUS
    <2>2. b \in Seq(T) /\ Header(f) \in T
      BY <1>2, <2>1
    <2>3. s = <<Header(f)>> \o b
      BY <1>1 DEF Local
    <2> HIDE DEF b
    <2>4. PICK h : h = Header(f)
      OBVIOUS
    <2>5. h \in T /\ s = <<h>> \o b
      BY <2>2, <2>3, <2>4
    <2>6. s # <<>> /\ s[1] = h /\ Tail(s) = b
      BY <2>2, <2>5
    <2> QED BY <2>4, <2>6
  <1>4. s[1].kind = "header" /\ s[1].stored = f.stored /\ s[1].content = Content(f)
    BY <1>3 DEF Header
  <1>5. Blocks(f.stored, b) = Content(f)
    <2>1. DOMAIN b = DOMAIN f.data
          /\ \A i \in DOMAIN f.data : b[i].kind = "data" /\ b[i].value = f.data[i]
      BY DEF Piece
    <2>2. [i \in DOMAIN b |-> IF b[i].kind = "data" THEN Unpack(f.stored, b[i].value) ELSE <<Unusable>>]
            = [i \in DOMAIN f.data |-> Unpack(f.stored, f.data[i])]
      <3> HIDE DEF b
      <3> QED BY <2>1
    <2> HIDE DEF b
    <2> QED BY <2>2 DEF Blocks, Content
  <1>6. IsPrefix(Content(f), Content(f))
    <2>1. PICK c : c = Content(f)
      OBVIOUS
    <2>2. c \in Seq(Int \ {0})
      BY <2>1, ContentFacts
    <2>3. SubSeq(c, 1, Len(c)) = c /\ Len(c) <= Len(c)
      BY <2>2
    <2> QED BY <2>1, <2>3 DEF IsPrefix
  <1> HIDE DEF b
  <1>7. x \in Extractions(s)
    BY <1>1
  <1> QED BY <1>3, <1>4, <1>5, <1>6, <1>7 DEF Extractions

--------------------------------------------------------------------------------
(* What undisturbed runs bring to disk *)

\* The entries of plain files: neither parts nor links nor blacklisted.
PlainFiles ==
  {n \in DOMAIN Entries[rel] : /\ Entry(n).kind = "file" /\ Entry(n).base \notin Listed[rel]
                               /\ Entry(n).path \notin Blacklisted}

\* The file is right; the .lgogdltmp file d will not be resumed.
Right(e, f) == e.path \in DOMAIN f /\ f[e.path] = e.crc
Fresh(e, d) == e.path \in DOMAIN d => ~(Len(d[e.path]) < e.comp)

\* What k undisturbed runs have brought about, and what one more does.
Good(k, e, f, d) == (k = 1 => Right(e, f) \/ Fresh(e, d)) /\ (k = 2 => Right(e, f))
OneMore(k) == IF k < 2 THEN k + 1 ELSE 2

\* What a thread at work on entry e with range s has, k undisturbed runs before.
Doing(k, at, from, e, s, f, d) ==
  /\ at # "link"
  /\ at = "examine" => Good(k, e, f, d)
  /\ at = "open" /\ k # 0 => from = 0
  /\ at = "receive" /\ k # 0 => \A j \in 1 .. Len(d[e.path]) : d[e.path][j] = s[j]
  /\ at \in {"extract", "extracting"} /\ k # 0 => d[e.path] = s

BytesOf(n) == Bytes(Images[rel][Entry(n).url], Entry(n).start, Entry(n).end)

\* An entry is still in the queue, at a thread, or done.
Waiting(n, k) == n \in ToSet(queue) => Good(k, Entry(n), file, tmp)
InWork(n, k) ==
  \A t \in Workers :
    Active(t) /\ item[t] = n => Doing(k, pc[t], resume[t], Entry(n), BytesOf(n), file, tmp)
Done(n, k) ==
  n \notin ToSet(queue) /\ (\A t \in Workers : Active(t) => item[t] # n)
    => Good(OneMore(k), Entry(n), file, tmp)

PlainOK ==
  /\ dirty => clean = 0
  /\ clean # 0 => rel = server
  /\ ~dirty /\ mpc # "idle" => rel = server /\ bases = Listed[rel]
  /\ mpc \in {"idle", "queue"} => \A n \in PlainFiles : Good(clean, Entry(n), file, tmp)
  /\ ~dirty /\ mpc \in Threaded =>
       /\ \A n \in PlainFiles : Waiting(n, clean) /\ InWork(n, clean) /\ Done(n, clean)
       /\ \A t \in 1 .. started : pc[t] = "done" => queue = <<>>
  /\ ~dirty /\ mpc \in {"combine", "append", "remove", "rename"} =>
       \A n \in PlainFiles : Good(OneMore(clean), Entry(n), file, tmp)

LEMMA GoodRight ==
  ASSUME NEW k, NEW e, NEW f, NEW d, Right(e, f)
  PROVE  Good(k, e, f, d)
  BY DEF Good

LEMMA GoodSame ==
  ASSUME NEW k, NEW e, NEW f, NEW d, NEW g, NEW c,
         SameAt(f, g, e.path), SameAt(d, c, e.path)
  PROVE  Good(k, e, f, d) => Good(k, e, g, c)
  BY DEF Good, Right, Fresh, SameAt

LEMMA DoingSame ==
  ASSUME NEW k, NEW at, NEW from, NEW e, NEW s, NEW f, NEW d, NEW g, NEW c,
         SameAt(f, g, e.path), SameAt(d, c, e.path),
         at \in {"receive", "extract", "extracting"} => e.path \in DOMAIN d
  PROVE  Doing(k, at, from, e, s, f, d) => Doing(k, at, from, e, s, g, c)
  BY GoodSame DEF Doing, SameAt

LEMMA SameWith ==
  ASSUME NEW f, NEW p, NEW v
  PROVE  \A q : q # p => SameAt(f, With(f, p, v), q) /\ SameAt(f, Without(f, p), q) /\ SameAt(f, f, q)
  BY DEF With, Without, Restrict, SameAt

\* A thread changes no file but that of its entry.
LEMMA FileFrame ==
  ASSUME NEW t \in Workers, Worker(t)
  PROVE  \A q : q # Path(t) => SameAt(file, file', q)
  <1> USE DEF disk, MainSame
  <1>1. CASE Pop(t) \/ DirectoryFails(t) \/ ReplaceFails(t) \/ Open(t) \/ Receive(t) \/ Received(t)
             \/ Interrupted(t) \/ TransferFails(t) \/ ExtractFails(t) \/ Finish(t)
             \/ (\E b \in BOOLEAN : Keep(t, b)) \/ (\E ok \in BOOLEAN : MakeLink(t, ok))
    <2>1. file' = file
      BY <1>1 DEF Pop, DirectoryFails, ReplaceFails, Open, Receive, Received, Interrupted,
                  TransferFails, ExtractFails, Finish, Keep, MakeLink
    <2> QED BY <2>1 DEF SameAt
  <1>2. ASSUME NEW inBase, Keep(t, inBase) \/ Replace(t, inBase)
        PROVE  \A q : q # Path(t) => SameAt(file, file', q)
    <2>1. file' = file \/ file' = Without(file, Path(t))
      BY <1>2 DEF Keep, Replace
    <2> QED BY <2>1, SameWith
  <1>3. CASE Create(t) \/ Extract(t) \/ FetchSmallFails(t)
    <2>1. file' = file \/ file' = Without(file, Path(t)) \/ file' = With(file, Path(t), <<>>)
      BY <1>3 DEF Create, Extract, FetchSmallFails
    <2> QED BY <2>1, SameWith
  <1>4. ASSUME NEW ok \in BOOLEAN, FetchSmall(t, ok) \/ Extracted(t, ok)
        PROVE  \A q : q # Path(t) => SameAt(file, file', q)
    <2>1. \E v : file' = Without(file, Path(t)) \/ file' = With(file, Path(t), v)
      BY <1>4 DEF FetchSmall, Extracted
    <2> QED BY <2>1, SameWith
  <1> QED BY <1>1, <1>2, <1>3, <1>4 DEF Worker

\* In an undisturbed run nothing fails.
LEMMA NoFault == ~dirty' => ~Fault
  BY DEF Fault

\* What a step on an entry leaves: one still worked on, or a good one.
After(t, k) ==
  IF pc'[t] \in Resting
    THEN Good(OneMore(k), E(t), file', tmp')
    ELSE Doing(k, pc'[t], resume'[t], E(t), DlRange(t), file', tmp')

\* Small files: extracted from memory.
LEMMA FetchedSmall ==
  ASSUME TypesOK, QueueOK, NEW t \in Workers, Active(t), FetchSmall(t, TRUE)
  PROVE  Right(E(t), file')
  <1>1. PICK p \in Places(rel) :
          /\ IsFile(FileAt(rel, p)) /\ E(t).path = Path(t) /\ E(t).crc = Content(FileAt(rel, p))
          /\ DlRange(t) = Local(FileAt(rel, p))
    BY ItemFacts DEF DlRange
  <1>2. PICK x \in Extractions(DlRange(t)) :
          file' = IF x.ok THEN With(file, Path(t), x.out) ELSE Without(file, Path(t))
    BY DEF FetchSmall, Outcomes
  <1>3. x = [ok |-> TRUE, out |-> Content(FileAt(rel, p))]
    BY <1>1, <1>2, RightExtraction
  <1>4. PICK v : v = E(t).crc
    OBVIOUS
  <1>5. file' = With(file, Path(t), v)
    BY <1>1, <1>2, <1>3, <1>4
  <1> QED BY <1>1, <1>4, <1>5 DEF Right, With

\* Others: what is extracted of a .lgogdltmp file, which is the range when a run
\* before was undisturbed.
LEMMA ExtractedGood ==
  ASSUME TypesOK, QueueOK, TransferOK, NEW t \in Workers, Active(t), Extracted(t, TRUE),
         NEW k \in 0 .. 2, k # 0 => tmp[Path(t)] = DlRange(t)
  PROVE  Good(OneMore(k), E(t), file', tmp')
  <1>1. PICK p \in Places(rel) :
          /\ IsFile(FileAt(rel, p)) /\ E(t).path = Path(t) /\ E(t).crc = Content(FileAt(rel, p))
          /\ DlRange(t) = Local(FileAt(rel, p)) /\ E(t).comp \in Nat
    BY ItemFacts DEF DlRange
  <1>2. PICK x \in Extractions(tmp[Path(t)]) :
          file' = With(file, Path(t), x.out)
          /\ tmp' = IF x.ok THEN Without(tmp, Path(t)) ELSE tmp
    BY DEF Extracted, Outcomes
  <1>3. CASE k # 0
    <2>1. x = [ok |-> TRUE, out |-> Content(FileAt(rel, p))]
      BY <1>1, <1>2, <1>3, RightExtraction
    <2>2. PICK v : v = E(t).crc
      OBVIOUS
    <2>3. file' = With(file, Path(t), v)
      BY <1>1, <1>2, <2>1, <2>2
    <2>4. Right(E(t), file')
      BY <1>1, <2>2, <2>3 DEF Right, With
    <2> QED BY <2>4, GoodRight
  <1>4. CASE k = 0
    <2>1. pc[t] = "extracting" /\ Len(tmp[Path(t)]) = E(t).comp + 1
      BY <1>1 DEF Extracted, TransferOK, Moving
    <2>2. Fresh(E(t), tmp')
      <3>1. CASE x.ok
        <4>1. Path(t) \notin DOMAIN tmp'
          BY <1>2, <3>1 DEF Without, Restrict
        <4> QED BY <1>1, <4>1 DEF Fresh
      <3>2. CASE ~x.ok
        <4>1. tmp' = tmp
          BY <1>2, <3>2
        <4>2. ~(Len(tmp[Path(t)]) < E(t).comp)
          BY <1>1, <2>1
        <4> QED BY <1>1, <4>1, <4>2 DEF Fresh
      <3> QED BY <3>1, <3>2
    <2>3. OneMore(k) = 1
      BY <1>4 DEF OneMore
    <2> QED BY <2>2, <2>3 DEF Good
  <1> QED BY <1>3, <1>4

\* A file that is replaced, and resumed only where no run before was undisturbed.
LEMMA ReplaceGood ==
  ASSUME TypesOK, NEW t \in Workers, NEW inBase, Replace(t, inBase), E(t).kind = "file",
         NEW k \in 0 .. 2, Good(k, E(t), file, tmp)
  PROVE  After(t, k)
  <1>1. /\ pc \in [Workers -> PCs] /\ resume \in [Workers -> Nat] /\ k \in 0 .. 2
        /\ Path(t) = E(t).path /\ E(t) = Entry(item[t])
    BY DEF TypesOK, Path, E
  <1>2. pc'[t] \in {"create", "open"}
    BY <1>1 DEF Replace, Goto
  <1>3. ~Right(E(t), file)
    BY <1>1 DEF Replace, UpToDate, Right, Same
  <1>4. k # 0 => resume'[t] = 0
    <2> SUFFICES ASSUME k # 0 PROVE resume'[t] = 0
      OBVIOUS
    <2>1. Fresh(E(t), tmp)
      BY <1>1, <1>3 DEF Good
    <2>2. ~Resumable(t)
      BY <1>1, <2>1 DEF Fresh, Resumable, Resumed
    <2> QED BY <1>1, <2>2 DEF Replace
  <1> QED BY <1>2, <1>4 DEF After, Doing

\* A transfer of a run after an undisturbed one begins a new .lgogdltmp file.
LEMMA OpenDoing ==
  ASSUME TypesOK, NEW t \in Workers, Open(t),
         NEW k \in 0 .. 2, Doing(k, pc[t], resume[t], E(t), DlRange(t), file, tmp)
  PROVE  After(t, k)
  <1>1. pc \in [Workers -> PCs] /\ pc'[t] = "receive" /\ Path(t) = E(t).path
    BY DEF TypesOK, Open, Goto, Path
  <1>2. ASSUME k # 0
        PROVE  \A j \in 1 .. Len(tmp'[E(t).path]) : tmp'[E(t).path][j] = DlRange(t)[j]
    <2>1. tmp' = With(tmp, Path(t), <<>>)
      BY <1>2 DEF Open, Doing
    <2>2. tmp'[E(t).path] = <<>>
      BY <1>1, <2>1 DEF With
    <2>3. 1 .. Len(<<>>) = {}
      OBVIOUS
    <2> QED BY <2>2, <2>3
  <1> QED BY <1>1, <1>2 DEF After, Doing

\* What arrives next is the next cell of the range.
LEMMA ReceiveDoing ==
  ASSUME IInv, NEW t \in Workers, Receive(t),
         NEW k \in 0 .. 2, Doing(k, pc[t], resume[t], E(t), DlRange(t), file, tmp)
  PROVE  After(t, k)
  <1>1. /\ TypesOK /\ QueueOK /\ TmpOK /\ pc[t] = "receive" /\ pc'[t] = "receive" /\ Active(t)
        /\ Path(t) = E(t).path /\ pos[t] <= E(t).end
        /\ Moving(pc[t], tries[t], resume[t], pos[t], E(t), tmp)
    BY DEF IInv, TransferOK, Receive, Active, Path
  <1>2. PICK p \in Places(rel) :
          /\ E(t).comp \in Nat /\ E(t).start \in Nat /\ E(t).end = E(t).start + E(t).comp
          /\ DlRange(t) = Local(FileAt(rel, p))
          /\ \A j \in 0 .. E(t).comp :
               Bytes(Images[rel][E(t).url], E(t).start + j, E(t).start + j)
                 = <<Local(FileAt(rel, p))[j + 1]>>
    BY <1>1, ItemFacts DEF DlRange
  <1>3. PICK d, s : d = tmp[Path(t)] /\ s = DlRange(t)
    OBVIOUS
  <1>4. Path(t) \in DOMAIN tmp /\ d \in Seq(AllCells) /\ pos[t] = E(t).start + Len(d)
    BY <1>1, <1>3 DEF Moving, TmpOK
  <1>5. PICK j : j = Len(d)
    OBVIOUS
  <1>6. j \in Nat /\ pos[t] = E(t).start + j
    BY <1>4, <1>5
  <1>7. j \in 0 .. E(t).comp
    BY <1>1, <1>2, <1>6
  <1>8. PICK c : c = s[j + 1]
    OBVIOUS
  <1>9. Bytes(Images[rel][E(t).url], pos[t], pos[t]) = <<c>>
    BY <1>2, <1>3, <1>6, <1>7, <1>8
  <1>10. tmp'[Path(t)] = d \o <<c>>
    BY <1>3, <1>4, <1>9 DEF Receive
  <1>11. PICK T : T = AllCells \union {c}
    OBVIOUS
  <1>12. d \in Seq(T) /\ <<c>> \in Seq(T)
    BY <1>4, <1>11
  <1>13. PICK g : g = d \o <<c>>
    OBVIOUS
  <1>14. Len(g) = j + 1 /\ g[j + 1] = c /\ \A i \in 1 .. j : g[i] = d[i]
    BY <1>5, <1>6, <1>12, <1>13
  <1>15. ASSUME k # 0, NEW i \in 1 .. Len(g) PROVE g[i] = s[i]
    <2>1. \A m \in 1 .. j : d[m] = s[m]
      BY <1>1, <1>3, <1>5, <1>15 DEF Doing
    <2>2. i \in 1 .. j \/ i = j + 1
      BY <1>6, <1>14, <1>15
    <2> QED BY <1>8, <1>14, <2>1, <2>2
  <1> QED BY <1>1, <1>3, <1>10, <1>13, <1>15 DEF After, Doing

\* A transfer that is over has the range.
LEMMA ReceivedDoing ==
  ASSUME IInv, NEW t \in Workers, Received(t),
         NEW k \in 0 .. 2, Doing(k, pc[t], resume[t], E(t), DlRange(t), file, tmp)
  PROVE  After(t, k)
  <1>1. /\ TypesOK /\ QueueOK /\ TmpOK /\ pc[t] = "receive" /\ Active(t) /\ UNCHANGED tmp
        /\ Path(t) = E(t).path /\ pos[t] > E(t).end
        /\ Moving(pc[t], tries[t], resume[t], pos[t], E(t), tmp)
    BY DEF IInv, TransferOK, Received, Active, Path, disk
  <1>2. pc'[t] = "extract"
    BY <1>1 DEF Received, Goto, TypesOK
  <1>3. PICK p \in Places(rel) :
          /\ IsFile(FileAt(rel, p)) /\ E(t).comp = Len(FileAt(rel, p).data)
          /\ E(t).comp \in Nat /\ E(t).start \in Nat /\ E(t).end = E(t).start + E(t).comp
          /\ DlRange(t) = Local(FileAt(rel, p))
    BY <1>1, ItemFacts DEF DlRange
  <1>4. PICK d, s, n : d = tmp[Path(t)] /\ s = DlRange(t) /\ n = E(t).comp
    OBVIOUS
  <1>5. Path(t) \in DOMAIN tmp /\ d \in Seq(AllCells)
    BY <1>1, <1>4 DEF Moving, TmpOK
  <1>6. Len(d) \in Nat /\ pos[t] = E(t).start + Len(d) /\ Len(d) <= n + 1
    BY <1>1, <1>4, <1>5 DEF Moving
  <1>7. Len(d) = n + 1 /\ n \in Nat
    <2>1. PICK a, e, q : a = E(t).start /\ e = E(t).end /\ q = pos[t]
      OBVIOUS
    <2>2. a \in Nat /\ n \in Nat /\ e = a + n
      BY <1>3, <1>4, <2>1
    <2>3. q > e /\ q = a + Len(d)
      BY <1>1, <1>6, <2>1
    <2> QED BY <1>6, <2>2, <2>3
  <1>8. s \in Seq(ToSet(s)) /\ Len(s) = n + 1
    BY <1>3, <1>4, LocalFacts
  <1>9. ASSUME k # 0 PROVE d = s
    <2>1. \A j \in 1 .. n + 1 : d[j] = s[j]
      BY <1>1, <1>4, <1>7, <1>9 DEF Doing
    <2>2. DOMAIN d = 1 .. n + 1 /\ DOMAIN s = 1 .. n + 1
      BY <1>5, <1>7, <1>8
    <2> QED BY <1>5, <1>8, <2>1, <2>2
  <1> QED BY <1>1, <1>2, <1>4, <1>9 DEF After, Doing

LEMMA InBaseBoolean == \A n : InBase(n) \subseteq BOOLEAN
  BY DEF InBase

\* Every step of a thread in an undisturbed run, on an entry that is no part of
\* a file or a part not to be found in the base file.
LEMMA DoingStep ==
  ASSUME IInv, NEW t \in Workers, Active(t), Worker(t), ~dirty',
         E(t).kind = "file", ~IsPart(bases, item[t]) \/ TRUE \notin InBase(item[t]),
         NEW k \in 0 .. 2, Doing(k, pc[t], resume[t], E(t), DlRange(t), file, tmp)
  PROVE  After(t, k)
  <1>1. /\ TypesOK /\ QueueOK /\ TransferOK /\ ~Fault
        /\ pc \in [Workers -> PCs] /\ pc[t] \notin Resting \union {"link"}
        /\ Path(t) = E(t).path /\ E(t) = Entry(item[t])
    BY NoFault DEF IInv, TypesOK, Active, Doing, Path, E
  <1> USE DEF Goto, disk
  <1>2. ~(Pop(t) \/ Finish(t) \/ DirectoryFails(t) \/ ReplaceFails(t) \/ FetchSmallFails(t)
          \/ Interrupted(t) \/ TransferFails(t) \/ ExtractFails(t))
    BY <1>1 DEF Pop, Finish, DirectoryFails, ReplaceFails, FetchSmallFails, Interrupted,
                TransferFails, ExtractFails
  <1>3. \A ok \in BOOLEAN : ~MakeLink(t, ok)
    BY <1>1 DEF MakeLink
  <1>4. ASSUME NEW inBase \in InBase(item[t]), Keep(t, inBase) PROVE After(t, k)
    <2>1. pc'[t] = "pop" /\ UNCHANGED <<file, tmp>> /\ UpToDate(item[t], inBase)
      BY <1>1, <1>4 DEF Keep
    <2>2. ~(IsPart(bases, item[t]) /\ inBase)
      BY InBaseBoolean
    <2>3. Right(E(t), file')
      BY <1>1, <2>1, <2>2 DEF UpToDate, Right, Same
    <2> QED BY <2>1, <2>3, GoodRight DEF After
  <1>5. ASSUME NEW inBase, Replace(t, inBase) PROVE After(t, k)
    <2>1. Good(k, E(t), file, tmp)
      BY <1>5 DEF Replace, Doing
    <2> QED BY <1>1, <1>5, <2>1, ReplaceGood
  <1>6. CASE Create(t)
    <2>1. pc'[t] = "memory"
      BY <1>1, <1>6 DEF Create
    <2> QED BY <2>1 DEF After, Doing
  <1>7. ASSUME NEW ok \in BOOLEAN, FetchSmall(t, ok) PROVE After(t, k)
    <2>1. ok = TRUE /\ pc'[t] = "pop"
      BY <1>1, <1>7 DEF FetchSmall
    <2>2. Right(E(t), file')
      BY <1>1, <1>7, <2>1, FetchedSmall
    <2> QED BY <2>1, <2>2, GoodRight DEF After
  <1>8. CASE Open(t)
    BY <1>1, <1>8, OpenDoing
  <1>9. CASE Receive(t)
    BY <1>9, ReceiveDoing
  <1>10. CASE Received(t)
    BY <1>10, ReceivedDoing
  <1>11. CASE Extract(t)
    <2>1. pc[t] = "extract" /\ pc'[t] = "extracting" /\ UNCHANGED tmp
      BY <1>1, <1>11 DEF Extract
    <2> QED BY <2>1 DEF After, Doing
  <1>12. ASSUME NEW ok \in BOOLEAN, Extracted(t, ok) PROVE After(t, k)
    <2>1. ok = TRUE /\ pc'[t] = "pop" /\ pc[t] = "extracting"
      BY <1>1, <1>12 DEF Extracted
    <2>2. k # 0 => tmp[Path(t)] = DlRange(t)
      BY <1>1, <2>1 DEF Doing
    <2>3. Good(OneMore(k), E(t), file', tmp')
      BY <1>1, <1>12, <2>1, <2>2, ExtractedGood
    <2> QED BY <2>1, <2>3 DEF After
  <1> QED BY <1>2, <1>3, <1>4, <1>5, <1>6, <1>7, <1>8, <1>9, <1>10, <1>11, <1>12 DEF Worker

LEMMA PopSets ==
  ASSUME TypesOK, QueueOK, mpc \in Threaded, NEW t \in Workers, Pop(t)
  PROVE  ToSet(queue) = {item'[t]} \union ToSet(queue')
  <1>1. PICK q, r, h : q = queue /\ r = Tail(queue) /\ h = Head(queue)
    OBVIOUS
  <1>2. q # <<>> /\ queue' = r /\ item'[t] = h
    <2>1. item \in [Workers -> Nat]
      BY DEF TypesOK
    <2> QED BY <1>1, <2>1 DEF Pop
  <1>3. PICK D : D = DOMAIN Entries[rel]
    OBVIOUS
  <1>4. q \in Seq(D)
    BY <1>1, <1>3 DEF QueueOK
  <1>5. /\ DOMAIN r = 1 .. Len(q) - 1 /\ DOMAIN q = 1 .. Len(q) /\ Len(q) \in Nat
        /\ \A i \in DOMAIN r : r[i] = q[i + 1]
        /\ h = q[1] /\ 1 \in DOMAIN q
    BY <1>1, <1>2, <1>4
  <1>6. \A i \in DOMAIN q : i # 1 => i - 1 \in DOMAIN r /\ q[i] = r[i - 1]
    <2> SUFFICES ASSUME NEW i \in DOMAIN q, i # 1 PROVE i - 1 \in DOMAIN r /\ q[i] = r[i - 1]
      OBVIOUS
    <2>1. i - 1 \in 1 .. Len(q) - 1 /\ (i - 1) + 1 = i
      BY <1>5
    <2> QED BY <1>5, <2>1
  <1>7. \A i \in DOMAIN r : i + 1 \in DOMAIN q
    BY <1>5
  <1>8. ToSet(q) = {h} \union ToSet(r)
    <2>1. ASSUME NEW x \in ToSet(q) PROVE x \in {h} \union ToSet(r)
      <3>1. PICK i \in DOMAIN q : x = q[i]
        BY DEF ToSet
      <3> QED BY <1>5, <1>6, <3>1 DEF ToSet
    <2>2. ASSUME NEW x \in {h} \union ToSet(r) PROVE x \in ToSet(q)
      BY <1>5, <1>7 DEF ToSet
    <2> QED BY <2>1, <2>2
  <1> QED BY <1>1, <1>2, <1>8

LEMMA IdleWorker ==
  ASSUME NEW t \in Workers, Worker(t), ~Active(t)
  PROVE  (Pop(t) \/ Finish(t)) /\ UNCHANGED <<file, tmp>>
  BY DEF Worker, Active, DirectoryFails, ReplaceFails, Keep, Replace, MakeLink, FetchSmall, Extracted,
         Create, FetchSmallFails, Open, Receive, Received, Interrupted, TransferFails, Extract,
         ExtractFails, Pop, Finish, disk

\* The state of such an entry after a step of a thread.
LEMMA StatusWorker ==
  ASSUME IInv, QueueOK', NEW t \in Workers, Worker(t), ~dirty',
         NEW n \in DOMAIN Entries[rel], Entry(n).kind = "file",
         ~IsPart(bases, n) \/ TRUE \notin InBase(n),
         NEW k \in 0 .. 2, Waiting(n, k), InWork(n, k), Done(n, k)
  PROVE  Waiting(n, k)' /\ InWork(n, k)' /\ Done(n, k)'
  <1>1. TypesOK /\ QueueOK /\ TransferOK /\ Frame(t)
    BY FrameFacts DEF IInv
  <1>2. PICK e, s : e = Entry(n) /\ s = BytesOf(n)
    OBVIOUS
  <1>3. Entry(n)' = e /\ BytesOf(n)' = s /\ UNCHANGED <<rel, mpc>> /\ mpc \in Threaded
    BY <1>1, <1>2 DEF Frame, Entry, BytesOf
  <1>4. rel \in Releases /\ e.kind = "file"
    BY <1>1, <1>2 DEF TypesOK
  <1>5. \A u \in Workers : u # t => item'[u] = item[u] /\ pc'[u] = pc[u] /\ resume'[u] = resume[u]
    BY <1>1 DEF Frame
  <1>6. \A u \in Workers : Active(u) <=> pc[u] \notin Resting
    BY DEF Active
  <1>7. SUFFICES /\ n \in ToSet(queue') => Good(k, e, file', tmp')
                 /\ \A u \in Workers : pc'[u] \notin Resting /\ item'[u] = n
                                         => Doing(k, pc'[u], resume'[u], e, s, file', tmp')
                 /\ n \notin ToSet(queue')
                    /\ (\A u \in Workers : pc'[u] \notin Resting => item'[u] # n)
                      => Good(OneMore(k), e, file', tmp')
    BY <1>3 DEF Waiting, InWork, Done, Active, OneMore
  <1>8. /\ n \in ToSet(queue) => Good(k, e, file, tmp)
        /\ \A u \in Workers : Active(u) /\ item[u] = n => Doing(k, pc[u], resume[u], e, s, file, tmp)
        /\ n \notin ToSet(queue) /\ (\A u \in Workers : Active(u) => item[u] # n)
             => Good(OneMore(k), e, file, tmp)
    BY <1>2 DEF Waiting, InWork, Done
  \* Its own entry.
  <1>9. CASE Active(t) /\ item[t] = n
    <2>1. UNCHANGED <<queue, item>>
      BY <1>1, <1>9 DEF Frame, Pop, Active
    <2>2. E(t) = e /\ DlRange(t) = s
      BY <1>2, <1>9 DEF E, DlRange, BytesOf
    <2>3. After(t, k)
      BY <1>4, <1>8, <1>9, <2>2, DoingStep
    <2>4. n \notin ToSet(queue) /\ \A u \in Workers : u # t /\ Active(u) => item[u] # n
      BY <1>1, <1>9 DEF QueueOK
    <2>5. ASSUME NEW u \in Workers, pc'[u] \notin Resting, item'[u] = n PROVE u = t
      BY <1>5, <1>6, <2>4, <2>5
    <2>6. CASE pc'[t] \in Resting
      BY <2>1, <2>2, <2>3, <2>4, <2>5, <2>6 DEF After
    <2>7. CASE pc'[t] \notin Resting
      BY <1>9, <2>1, <2>2, <2>3, <2>4, <2>5, <2>7 DEF After
    <2> QED BY <2>6, <2>7
  \* Another entry, whose path is another one.
  <1>10. CASE Active(t) /\ item[t] # n
    <2>1. UNCHANGED <<queue, item>>
      BY <1>1, <1>10 DEF Frame, Pop, Active
    <2>2. Path(t) # e.path
      <3>1. item[t] \in DOMAIN Entries[rel]
        BY <1>1, <1>10 DEF QueueOK
      <3> QED BY <1>2, <1>4, <1>10, <3>1, PathsDistinct DEF Path, E, Entry
    <2>3. SameAt(file, file', e.path) /\ SameAt(tmp, tmp', e.path)
      BY <1>1, <2>2, FileFrame DEF Frame
    <2>4. \A i : Good(i, e, file, tmp) => Good(i, e, file', tmp')
      BY <2>3, GoodSame
    <2>5. ASSUME NEW u \in Workers, pc'[u] \notin Resting, item'[u] = n
          PROVE  Doing(k, pc'[u], resume'[u], e, s, file', tmp')
      <3>1. u # t /\ pc'[u] = pc[u] /\ item[u] = n /\ resume'[u] = resume[u] /\ Active(u)
        BY <1>5, <1>6, <1>10, <2>1, <2>5
      <3>2. pc[u] \in {"receive", "extract", "extracting"} => e.path \in DOMAIN tmp
        <4>1. E(u) = e
          BY <1>2, <3>1 DEF E
        <4> QED BY <1>1, <4>1 DEF TransferOK, Moving
      <3>3. Doing(k, pc[u], resume[u], e, s, file, tmp)
        BY <1>8, <3>1
      <3>4. Doing(k, pc[u], resume[u], e, s, file', tmp')
        BY <2>3, <3>2, <3>3, DoingSame
      <3> QED BY <3>1, <3>4
    <2>6. ASSUME \A u \in Workers : pc'[u] \notin Resting => item'[u] # n
          PROVE  \A u \in Workers : Active(u) => item[u] # n
      BY <1>5, <1>6, <1>10, <2>1, <2>6
    <2> QED BY <1>8, <2>1, <2>4, <2>5, <2>6
  \* A thread between two entries.
  <1>11. CASE ~Active(t)
    <2>1. (Pop(t) \/ Finish(t)) /\ UNCHANGED <<file, tmp>>
      BY <1>11, IdleWorker
    <2>2. pc \in [Workers -> PCs] /\ item \in [Workers -> Nat]
      BY <1>1 DEF TypesOK
    <2>3. CASE Finish(t)
      <3>1. UNCHANGED <<queue, item, resume>> /\ pc'[t] = "done"
        BY <2>2, <2>3 DEF Finish, Goto
      <3>2. \A u \in Workers : pc'[u] \notin Resting <=> Active(u)
        BY <1>5, <1>6, <1>11, <3>1
      <3>3. \A u \in Workers : Active(u) => pc'[u] = pc[u]
        BY <1>5, <1>11
      <3> QED BY <1>8, <2>1, <3>1, <3>2, <3>3
    <2>4. CASE Pop(t)
      <3>1. pc'[t] = "examine" /\ ToSet(queue) = {item'[t]} \union ToSet(queue')
        BY <1>1, <1>3, <2>2, <2>4, PopSets DEF Pop, Goto
      <3>2. item'[t] \notin ToSet(queue')
        <4>1. \A u \in Workers : Active(u)' => item'[u] \notin ToSet(queue')
          BY DEF QueueOK
        <4> QED BY <3>1, <4>1 DEF Active
      <3>3. ASSUME NEW u \in Workers, pc'[u] \notin Resting, item'[u] = n
            PROVE  Doing(k, pc'[u], resume'[u], e, s, file', tmp')
        <4>1. CASE u = t
          BY <1>8, <2>1, <3>1, <3>3, <4>1 DEF Doing
        <4>2. CASE u # t
          BY <1>5, <1>6, <1>8, <2>1, <3>3, <4>2
        <4> QED BY <4>1, <4>2
      <3>4. ASSUME n \notin ToSet(queue'), \A u \in Workers : pc'[u] \notin Resting => item'[u] # n
            PROVE  n \notin ToSet(queue) /\ \A u \in Workers : Active(u) => item[u] # n
        <4>1. item'[t] # n
          BY <3>1, <3>4
        <4> QED BY <1>5, <1>6, <1>11, <3>1, <3>4, <4>1
      <3> QED BY <1>8, <2>1, <3>1, <3>3, <3>4
    <2> QED BY <2>1, <2>3, <2>4
  <1> QED BY <1>9, <1>10, <1>11

\* A thread ends undisturbed only when the queue is empty.
LEMMA EndsWorker ==
  ASSUME TypesOK, NEW t \in Workers, Worker(t)
  PROVE  /\ UNCHANGED <<dirty, clean>> \/ Fault
         /\ pc'[t] = "done" /\ ~Fault => queue = <<>> /\ queue' = queue
  <1>1. pc \in [Workers -> PCs]
    BY DEF TypesOK
  <1> USE DEF Goto, MainSame, history
  <1>2. CASE Finish(t)
    BY <1>2 DEF Finish
  <1>3. CASE DirectoryFails(t) \/ ReplaceFails(t) \/ FetchSmallFails(t) \/ Interrupted(t)
             \/ TransferFails(t) \/ ExtractFails(t)
    BY <1>3 DEF DirectoryFails, ReplaceFails, FetchSmallFails, Interrupted, TransferFails, ExtractFails
  <1>4. CASE Pop(t) \/ Create(t) \/ Open(t) \/ Received(t) \/ Extract(t) \/ Receive(t)
    <2>1. UNCHANGED history /\ pc'[t] # "done"
      BY <1>1, <1>4 DEF Pop, Create, Open, Received, Extract, Receive
    <2> QED BY <2>1
  <1>5. ASSUME NEW inBase, Keep(t, inBase) \/ Replace(t, inBase)
        PROVE  UNCHANGED history /\ pc'[t] # "done"
    BY <1>1, <1>5 DEF Keep, Replace
  <1>6. ASSUME NEW ok \in BOOLEAN, MakeLink(t, ok) \/ FetchSmall(t, ok) \/ Extracted(t, ok)
        PROVE  (UNCHANGED history \/ Fault) /\ pc'[t] # "done"
    BY <1>1, <1>6 DEF MakeLink, FetchSmall, Extracted
  <1> QED BY <1>2, <1>3, <1>4, <1>5, <1>6 DEF Worker

LEMMA PlainWorker ==
  ASSUME IInv, PlainOK, NEW t \in Workers, Worker(t)
  PROVE  PlainOK'
  <1>1. TypesOK /\ Frame(t) /\ QueueOK'
    BY FrameFacts, QueueWorker DEF IInv
  <1>2. mpc \in Threaded /\ UNCHANGED <<server, mpc, rel, bases, started>>
        /\ \A u \in Workers : u # t => pc'[u] = pc[u]
    BY <1>1 DEF Frame
  <1>3. UNCHANGED <<dirty, clean>> \/ Fault
    BY <1>1, EndsWorker
  <1>4. CASE dirty'
    <2>1. clean' = 0
      BY <1>3, <1>4 DEF Fault, PlainOK
    <2> QED BY <1>2, <1>4, <2>1 DEF PlainOK
  <1>5. CASE ~dirty'
    <2>1. ~Fault /\ UNCHANGED <<dirty, clean>> /\ ~dirty
      BY <1>3, <1>5 DEF Fault
    <2>2. /\ rel = server /\ bases = Listed[rel] /\ (clean # 0 => rel = server)
          /\ \A n \in PlainFiles : Waiting(n, clean) /\ InWork(n, clean) /\ Done(n, clean)
          /\ \A u \in 1 .. started : pc[u] = "done" => queue = <<>>
      BY <1>2, <2>1 DEF PlainOK
    <2>3. \A n \in PlainFiles : Waiting(n, clean)' /\ InWork(n, clean)' /\ Done(n, clean)'
      <3>1. PICK k \in 0 .. 2 : k = clean
        BY <1>1 DEF TypesOK
      <3>2. ASSUME NEW n \in PlainFiles PROVE Waiting(n, k)' /\ InWork(n, k)' /\ Done(n, k)'
        <4>1. n \in DOMAIN Entries[rel] /\ Entry(n).kind = "file" /\ ~IsPart(bases, n)
          BY <2>2 DEF PlainFiles, IsPart
        <4>2. Waiting(n, k) /\ InWork(n, k) /\ Done(n, k)
          BY <2>2, <3>1
        <4> QED BY <1>1, <1>5, <4>1, <4>2, StatusWorker
      <3>3. clean' = k
        BY <2>1, <3>1
      <3> QED BY <3>2, <3>3 DEF Waiting, InWork, Done
    <2>4. PlainFiles' = PlainFiles
      BY <1>2 DEF PlainFiles, Entry
    <2>5. ASSUME NEW u \in 1 .. started, pc'[u] = "done" PROVE queue' = <<>>
      <3>1. CASE u = t
        BY <1>1, <2>1, <2>5, <3>1, EndsWorker
      <3>2. CASE u # t
        <4>1. u \in Workers
          <5>1. started \in 0 .. Threads /\ Threads \in Nat
            BY <1>1, CountsAssumption DEF TypesOK
          <5> QED BY <5>1 DEF Workers
        <4>2. queue = <<>>
          BY <1>2, <2>2, <2>5, <3>2, <4>1
        <4> QED BY <1>1, <4>2 DEF Frame, Pop
      <3> QED BY <3>1, <3>2
    <2> QED BY <1>2, <2>1, <2>2, <2>3, <2>4, <2>5 DEF PlainOK
  <1> QED BY <1>4, <1>5

--------------------------------------------------------------------------------
(* The main thread leaves plain files alone. *)

\* Combining parts changes no plain file.
LEMMA PlainPaths ==
  ASSUME TypesOK, bases = Listed[rel], NEW n \in PlainFiles, NEW b \in bases
  PROVE  /\ Entry(n).path # b
         /\ \A i \in DOMAIN Parts(bases, b) : PartPath(b, i) # Entry(n).path
  <1>1. rel \in Releases /\ n \in DOMAIN Entries[rel] /\ ~IsPart(bases, n)
    BY DEF TypesOK, PlainFiles, IsPart
  <1>2. Entry(n).path # b
    BY <1>1, EntryFacts DEF Entry
  <1>3. ASSUME NEW i \in DOMAIN Parts(bases, b), PartPath(b, i) = Entry(n).path PROVE FALSE
    <2>1. PICK S : S = {m \in DOMAIN Entries[rel] : IsPart(bases, m) /\ Entry(m).base = b}
      OBVIOUS
    <2>2. PICK s : s = Parts(bases, b)
      OBVIOUS
    <2>3. SortedOk(s, S)
      <3>1. S \in SUBSET {m \in DOMAIN Entries[rel] : IsPart(bases, m)}
        BY <2>1
      <3>2. s = Sorted(S, LAMBDA m : Entry(m).part)
        BY <2>1, <2>2 DEF Parts
      <3> QED BY <1>1, <3>1, <3>2, SortedByPart
    <2>4. s[i] \in S
      BY <1>3, <2>2, <2>3 DEF SortedOk
    <2>5. s[i] \in DOMAIN Entries[rel] /\ IsPart(bases, s[i])
      BY <2>1, <2>4
    <2>6. Entries[rel][s[i]].path = Entries[rel][n].path
      BY <1>3, <2>2 DEF PartPath, Entry
    <2>7. s[i] = n
      BY <1>1, <2>5, <2>6, PathsDistinct
    <2> QED BY <1>1, <2>5, <2>7
  <1> QED BY <1>2, <1>3

\* Combining the parts of a base file changes only their files and the base file.
LEMMA CombineFrame ==
  ASSUME IInv, NEW p, p # Current, \A i \in DOMAIN Parts(bases, Current) : PartPath(Current, i) # p,
         SkipBase \/ StartCombining \/ StartFails \/ AppendFails \/ AllAppended
           \/ \E ok \in BOOLEAN : AppendPart(ok) \/ RemovePart(ok) \/ RenameFirst(ok)
  PROVE  SameAt(file, file', p)
  <1> USE DEF disk
  <1>1. TypesOK /\ CombineOK
    BY DEF IInv
  <1>2. mpc \in {"combine", "append", "remove", "rename"} /\ todo # {}
    BY <1>1 DEF SkipBase, StartCombining, StartFails, AppendFails, AllAppended, AppendPart,
                RemovePart, RenameFirst, CombineOK
  <1>3. /\ Current \in bases /\ 1 \in DOMAIN Parts(bases, Current)
        /\ DOMAIN Parts(bases, Current) = 1 .. Len(Parts(bases, Current))
    BY <1>1, <1>2, CurrentFacts
  <1>4. p # Current /\ p # FirstPart(Current)
        /\ \A i \in DOMAIN Parts(bases, Current) : PartPath(Current, i) # p
    BY <1>3 DEF FirstPart
  <1>5. SameAt(file, file', p)
    <2>1. CASE SkipBase \/ AppendFails \/ AllAppended
      BY <2>1 DEF SkipBase, AppendFails, AllAppended, SameAt
    <2>2. CASE StartCombining \/ StartFails
      <3>1. file' = file \/ file' = Without(file, Current)
        BY <2>2 DEF StartCombining, StartFails
      <3> QED BY <1>4, <3>1, SameWith
    <2>3. ASSUME NEW ok \in BOOLEAN, AppendPart(ok) PROVE SameAt(file, file', p)
      BY <1>4, <2>3 DEF AppendPart, SameAt
    <2>4. ASSUME NEW ok \in BOOLEAN, RemovePart(ok) PROVE SameAt(file, file', p)
      <3>1. part \in DOMAIN Parts(bases, Current)
        <4>1. mpc = "remove"
          BY <2>4 DEF RemovePart
        <4> QED BY <1>1, <1>3, <4>1 DEF CombineOK
      <3>2. file' = file \/ file' = Without(file, PartPath(Current, part))
        BY <2>4 DEF RemovePart
      <3> QED BY <1>4, <3>1, <3>2, SameWith
    <2>5. ASSUME NEW ok \in BOOLEAN, RenameFirst(ok) PROVE SameAt(file, file', p)
      <3>1. PICK g : g = With(file, Current, file[FirstPart(Current)])
        OBVIOUS
      <3>2. file' = file \/ file' = Without(g, FirstPart(Current))
        BY <2>5, <3>1 DEF RenameFirst
      <3>3. SameAt(file, g, p)
        BY <1>4, <3>1, SameWith
      <3>4. SameAt(g, Without(g, FirstPart(Current)), p)
        BY <1>4, SameWith
      <3> QED BY <3>2, <3>3, <3>4 DEF SameAt
    <2> QED BY <2>1, <2>2, <2>3, <2>4, <2>5
  <1> QED BY <1>5

LEMMA PlainFrame ==
  ASSUME IInv, bases = Listed[rel], NEW n \in PlainFiles,
         SkipBase \/ StartCombining \/ StartFails \/ AppendFails \/ AllAppended
           \/ \E ok \in BOOLEAN : AppendPart(ok) \/ RemovePart(ok) \/ RenameFirst(ok)
  PROVE  SameAt(file, file', Entry(n).path) /\ UNCHANGED tmp
  <1>1. TypesOK /\ CombineOK
    BY DEF IInv
  <1>2. mpc \in {"combine", "append", "remove", "rename"} /\ todo # {}
    BY <1>1 DEF SkipBase, StartCombining, StartFails, AppendFails, AllAppended, AppendPart,
                RemovePart, RenameFirst, CombineOK
  <1>3. Current \in bases
    BY <1>1, <1>2, CurrentFacts
  <1>4. PICK p : p = Entry(n).path
    OBVIOUS
  <1>5. p # Current /\ \A i \in DOMAIN Parts(bases, Current) : PartPath(Current, i) # p
    BY <1>1, <1>3, <1>4, PlainPaths
  <1>6. SameAt(file, file', p)
    BY <1>5, CombineFrame
  <1>7. UNCHANGED tmp
    BY DEF SkipBase, StartCombining, StartFails, AppendFails, AllAppended, AppendPart,
           RemovePart, RenameFirst, disk
  <1> QED BY <1>4, <1>6, <1>7

LEMMA PlainOthers ==
  ASSUME IInv, PlainOK, Publish \/ Crash \/ Start \/ Main \/ UNCHANGED vars
  PROVE  PlainOK'
  <1>1. TypesOK /\ TypesOK' /\ clean \in 0 .. 2
    BY TypesOthers DEF IInv, TypesOK
  <1>2. /\ dirty => clean = 0
        /\ clean # 0 => rel = server
        /\ ~dirty /\ mpc # "idle" => rel = server /\ bases = Listed[rel]
        /\ mpc \in {"idle", "queue"} => \A n \in PlainFiles : Good(clean, Entry(n), file, tmp)
        /\ ~dirty /\ mpc \in {"combine", "append", "remove", "rename"} =>
             \A n \in PlainFiles : Good(OneMore(clean), Entry(n), file, tmp)
    BY DEF PlainOK
  <1>3. ASSUME UNCHANGED rel PROVE PlainFiles' = PlainFiles /\ \A n : Entry(n)' = Entry(n)
    BY <1>3 DEF PlainFiles, Entry
  <1>4. ASSUME clean' = 0 PROVE \A n \in PlainFiles' : Good(clean, Entry(n), file, tmp)'
    BY <1>4 DEF Good
  <1> USE DEF disk, plan, threads
  \* A fault or a new release.
  <1>5. ASSUME dirty', clean' = 0 PROVE PlainOK'
    BY <1>4, <1>5 DEF PlainOK
  <1>6. CASE Publish \/ Crash
    <2>1. dirty' /\ clean' = 0
      BY <1>6 DEF Publish, Crash, Fault
    <2> QED BY <1>5, <2>1
  <1>7. ASSUME Fault PROVE PlainOK'
    BY <1>5, <1>7 DEF Fault
  <1>8. ASSUME NEW known \in BOOLEAN, Begin(known), ~Fault PROVE PlainOK'
    <2>1. /\ mpc = "idle" /\ mpc' = "queue" /\ rel' = server /\ bases' = Listed[server]
          /\ ~dirty' /\ UNCHANGED <<server, clean, file, tmp>>
      <3>1. known \/ Listed[server] = {}
        BY <1>8 DEF Begin
      <3> QED BY <1>8, <3>1 DEF Begin
    <2>2. \A n \in PlainFiles' : Good(clean, Entry(n), file, tmp)'
      <3>1. CASE clean = 0
        BY <1>4, <2>1, <3>1
      <3>2. CASE clean # 0
        <4>1. rel' = rel
          BY <1>2, <2>1, <3>2
        <4> QED BY <1>2, <1>3, <2>1, <4>1
      <3> QED BY <3>1, <3>2
    <2> QED BY <2>1, <2>2 DEF PlainOK
  <1>9. CASE StartThreads
    <2>1. /\ mpc = "queue" /\ mpc' \in Threaded /\ queue' = Queue(bases)
          /\ \A t \in Workers : pc'[t] = IF t <= started' THEN "new" ELSE "done"
          /\ UNCHANGED <<server, rel, bases, dirty, clean, file, tmp>>
      BY <1>9 DEF StartThreads, history
    <2>2. \A n \in PlainFiles : n \in ToSet(queue')
      <3>1. rel \in Releases /\ bases \subseteq Listed[rel]
        BY <1>1 DEF TypesOK
      <3> QED BY <2>1, <3>1, QueueFacts DEF PlainFiles, Installable
    <2>3. \A t \in Workers : ~Active(t)'
      BY <2>1 DEF Active
    <2>4. PlainFiles' = PlainFiles /\ \A n : Entry(n)' = Entry(n)
      BY <1>3, <2>1
    <2>5. \A n \in PlainFiles' : Waiting(n, clean)' /\ InWork(n, clean)' /\ Done(n, clean)'
      BY <1>2, <2>1, <2>2, <2>3, <2>4 DEF Waiting, InWork, Done
    <2>6. \A t \in 1 .. started' : pc'[t] # "done"
      <3>1. started' \in 0 .. Threads /\ Threads \in Nat
        BY <1>1, CountsAssumption DEF TypesOK
      <3>2. \A t \in 1 .. started' : t \in Workers /\ t <= started'
        BY <3>1 DEF Workers
      <3> QED BY <2>1, <3>2
    <2> QED BY <1>2, <2>1, <2>5, <2>6 DEF PlainOK
  <1>10. CASE JoinThreads
    <2>1. /\ mpc = "print" /\ mpc' = "combine" /\ AllFinished
          /\ UNCHANGED <<server, rel, bases, dirty, clean, file, tmp>>
      BY <1>10 DEF JoinThreads, history
    <2>2. ASSUME ~dirty PROVE \A n \in PlainFiles : Good(OneMore(clean), Entry(n), file, tmp)
      <3>1. \A t \in Workers : ~Active(t)
        BY <2>1 DEF AllFinished, Active
      <3>2. queue = <<>>
        <4>1. 1 \in 1 .. started /\ 1 \in Workers
          <5>1. started \in 0 .. Threads /\ Threads \in Nat /\ started > 0
            BY <1>1, <2>1, CountsAssumption DEF TypesOK, AllFinished
          <5> QED BY <5>1 DEF Workers
        <4> QED BY <2>1, <2>2, <4>1 DEF PlainOK, AllFinished
      <3>3. ToSet(queue) = {}
        BY <3>2 DEF ToSet
      <3>4. \A n \in PlainFiles : Done(n, clean)
        BY <2>1, <2>2 DEF PlainOK
      <3> QED BY <3>1, <3>3, <3>4 DEF Done
    <2>3. PlainFiles' = PlainFiles /\ \A n : Entry(n)' = Entry(n)
      BY <1>3, <2>1
    <2> QED BY <1>2, <2>1, <2>2, <2>3 DEF PlainOK, OneMore
  <1>11. ASSUME ~Fault, SkipBase \/ StartCombining \/ StartFails \/ AppendFails \/ AllAppended
                  \/ \E ok \in BOOLEAN : AppendPart(ok) \/ RemovePart(ok) \/ RenameFirst(ok)
         PROVE  PlainOK'
    <2>1. /\ mpc \in {"combine", "append", "remove", "rename"}
          /\ mpc' \in {"combine", "append", "remove", "rename"}
          /\ UNCHANGED <<server, rel, bases, dirty, clean>>
      BY <1>11 DEF SkipBase, StartCombining, StartFails, AppendFails, AllAppended, AppendPart,
                   RemovePart, RenameFirst, history
    <2>2. PlainFiles' = PlainFiles /\ \A n : Entry(n)' = Entry(n)
      BY <1>3, <2>1
    <2>3. ASSUME ~dirty, NEW n \in PlainFiles PROVE Good(OneMore(clean), Entry(n), file', tmp')
      <3>1. SameAt(file, file', Entry(n).path) /\ UNCHANGED tmp
        BY <1>2, <1>11, <2>1, <2>3, PlainFrame
      <3>2. SameAt(tmp, tmp', Entry(n).path)
        BY <3>1 DEF SameAt
      <3> QED BY <1>2, <2>1, <2>3, <3>1, <3>2, GoodSame
    <2> QED BY <1>2, <2>1, <2>2, <2>3 DEF PlainOK, OneMore
  <1>12. CASE End
    <2>1. /\ mpc = "combine" /\ mpc' = "idle" /\ UNCHANGED <<server, rel, bases, dirty, file, tmp>>
          /\ clean' = IF dirty THEN 0 ELSE OneMore(clean)
      BY <1>12 DEF End, OneMore
    <2>2. PlainFiles' = PlainFiles /\ \A n : Entry(n)' = Entry(n)
      BY <1>3, <2>1
    <2>3. CASE dirty
      BY <1>5, <2>1, <2>3
    <2>4. CASE ~dirty
      BY <1>2, <2>1, <2>2, <2>4 DEF PlainOK
    <2> QED BY <2>3, <2>4
  <1>13. CASE PrintProgress \/ UNCHANGED vars
    <2>1. UNCHANGED vars
      BY <1>13 DEF PrintProgress
    <2>2. UNCHANGED <<server, rel, bases, mpc, dirty, clean, queue, pc, item, resume, started, file, tmp>>
      BY <2>1 DEF vars, history
    <2>3. PlainFiles' = PlainFiles /\ (\A n : Entry(n)' = Entry(n)) /\ \A n : BytesOf(n)' = BytesOf(n)
      BY <1>3, <2>2 DEF BytesOf
    <2> QED BY <2>2, <2>3 DEF PlainOK, Waiting, InWork, Done, Active, OneMore
  <1>14. CASE Creation
    <2>1. CreationStep
      BY <1>1, <1>14, CreationFacts
    <2>2. PlainFiles' = PlainFiles /\ (\A n : Entry(n)' = Entry(n)) /\ \A n : BytesOf(n)' = BytesOf(n)
      BY <1>3, <2>1 DEF CreationStep, BytesOf
    <2>3. \A n, k : Waiting(n, k) => Waiting(n, k)'
      BY <2>1, <2>2 DEF CreationStep, Waiting
    <2>4. \A t \in Workers : (Active(t)' <=> Active(t)) /\ (Active(t) => pc'[t] = pc[t])
      BY <2>1 DEF CreationStep, Active
    <2>5. \A n, k : (InWork(n, k) => InWork(n, k)') /\ (Done(n, k) => Done(n, k)')
      BY <2>1, <2>2, <2>4 DEF CreationStep, InWork, Done, OneMore
    <2>6. ASSUME ~dirty, NEW t \in 1 .. started, pc'[t] = "done" PROVE queue' = <<>>
      <3>1. started \in 0 .. Threads /\ Threads \in Nat
        BY <1>1, CountsAssumption DEF TypesOK
      <3>2. t \in Workers
        BY <3>1 DEF Workers
      <3> QED BY <2>1, <2>6, <3>2 DEF CreationStep, PlainOK
    <2>7. ASSUME ~dirty, NEW n \in PlainFiles
          PROVE  Waiting(n, clean)' /\ InWork(n, clean)' /\ Done(n, clean)'
      <3>1. PICK k : k = clean /\ clean' = k
        BY <2>1 DEF CreationStep
      <3>2. Waiting(n, k) /\ InWork(n, k) /\ Done(n, k)
        BY <2>1, <2>7, <3>1 DEF CreationStep, PlainOK
      <3>3. Waiting(n, k)' /\ InWork(n, k)' /\ Done(n, k)'
        BY <2>3, <2>5, <3>2
      <3> QED BY <3>1, <3>3 DEF Waiting, InWork, Done
    <2> QED BY <1>2, <2>1, <2>2, <2>6, <2>7 DEF CreationStep, PlainOK
  <1> QED BY <1>6, <1>7, <1>8, <1>9, <1>10, <1>11, <1>12, <1>13, <1>14 DEF Start, Main, Creation

LEMMA InitPlain == Init => PlainOK
  BY DEF Init, PlainOK, Good

LEMMA NextPlain == IInv /\ PlainOK /\ [Next]_vars => PlainOK'
  BY PlainWorker, PlainOthers DEF Next

\* Two runs without failures, crashes and new releases bring every plain file to
\* disk, whatever was there: any files of earlier releases, partial downloads,
\* failed or interrupted extractions.  One may not, since a .lgogdltmp file is
\* resumed by its size alone.
THEOREM PlainFilesCorrect == Spec => []PlainFilesRight
  <1>1. IInv /\ PlainOK => PlainFilesRight
    <2> SUFFICES ASSUME IInv, PlainOK, Settled, NEW e \in ToSet(Entries[rel]),
                        e.kind = "file", e.base \notin Listed[rel], e.path \notin Blacklisted
                 PROVE  e.path \in DOMAIN file /\ file[e.path] = e.crc
      BY DEF PlainFilesRight
    <2>1. PICK n \in DOMAIN Entries[rel] : e = Entries[rel][n]
      BY DEF ToSet
    <2>2. n \in PlainFiles /\ Entry(n) = e
      BY <2>1 DEF PlainFiles, Entry
    <2>3. Good(2, e, file, tmp)
      BY <2>2 DEF PlainOK, Settled
    <2> QED BY <2>3 DEF Good, Right
  <1> QED BY <1>1, InitInv, NextInv, InitPlain, NextPlain, PTL DEF Spec

--------------------------------------------------------------------------------
(* The contents of split files *)

PartSet(b) == {n \in DOMAIN Entries[rel] : IsPart(bases, n) /\ Entry(n).base = b}
Missing(b) == \E n \in PartSet(b) : Entry(n).path \notin DOMAIN file

\* The parts come in the order of their ranks.
LEMMA PartsInOrder ==
  ASSUME rel \in Releases, bases \subseteq Listed[rel], NEW b
  PROVE  /\ SortedOk(Parts(bases, b), PartSet(b))
         /\ \A i, j \in DOMAIN Parts(bases, b) :
              i < j => Entry(Parts(bases, b)[i]).part < Entry(Parts(bases, b)[j]).part
  <1>1. PICK S : S = PartSet(b)
    OBVIOUS
  <1>2. PICK f : f = [n \in S |-> Entry(n).part]
    OBVIOUS
  <1>3. PICK o : o = Order(S, f)
    OBVIOUS
  <1>4. S \in SUBSET {n \in DOMAIN Entries[rel] : IsPart(bases, n)}
    BY <1>1 DEF PartSet
  <1>5. IsFiniteSet(S) /\ f \in [S -> Int] /\ \A m, n \in S : f[m] = f[n] => m = n
    BY <1>2, <1>4, PartRanks
  <1>6. Parts(bases, b) = o
    <2>1. Parts(bases, b) = Sorted(S, LAMBDA n : Entry(n).part)
      BY <1>1, Zenon DEF Parts, PartSet
    <2> QED BY <1>2, <1>3, <2>1, OrderByPart
  <1>7. SortedOk(o, S)
    BY <1>3, <1>5, OrderSorted
  <1>8. \A i, j \in 1 .. Cardinality(S) : i < j => f[o[i]] < f[o[j]]
    BY <1>3, <1>5, OrderFacts
  <1>9. DOMAIN o = 1 .. Cardinality(S) /\ \A i \in DOMAIN o : o[i] \in S
    <2>1. o \in Seq(S) /\ DOMAIN o = 1 .. Cardinality(S)
      BY <1>7 DEF SortedOk
    <2>2. \A i \in DOMAIN o : o[i] \in S
      <3>1. ToSet(o) = S
        BY <1>7 DEF SortedOk
      <3> QED BY <3>1 DEF ToSet
    <2> QED BY <2>1, <2>2
  <1>10. \A i \in DOMAIN o : f[o[i]] = Entry(o[i]).part
    BY <1>2, <1>9
  <1> QED BY <1>1, <1>6, <1>7, <1>8, <1>9, <1>10

\* What the parts bring, one after the other; Whole is all of it.
Crcs(r, bs, b) == [i \in DOMAIN PartsOf(r, bs, b) |-> Entries[r][PartsOf(r, bs, b)[i]].crc]
Together(r, bs, b, k) == FlattenSeq(SubSeq(Crcs(r, bs, b), 1, k))

LEMMA WholeIs ==
  ASSUME bases \subseteq Listed[rel], NEW b \in bases
  PROVE  Whole(rel, b) = FlattenSeq(Crcs(rel, bases, b))
  <1>1. {n \in DOMAIN Entries[rel] : Entries[rel][n].kind = "file" /\ Entries[rel][n].base = b}
          = {n \in DOMAIN Entries[rel] : (Entries[rel][n].kind = "file" /\ Entries[rel][n].base \in bases)
                                         /\ Entries[rel][n].base = b}
    OBVIOUS
  <1>2. Sorted({n \in DOMAIN Entries[rel] : Entries[rel][n].kind = "file" /\ Entries[rel][n].base = b},
               LAMBDA n : Entries[rel][n].part) = PartsOf(rel, bases, b)
    BY <1>1, Zenon DEF PartsOf
  <1> QED BY <1>2, Zenon DEF Whole, Crcs

\* The parts bring numbers, and what the first of them bring together is g.
LEMMA TogetherFacts ==
  ASSUME rel \in Releases, bases \subseteq Listed[rel], NEW b \in bases
  PROVE  LET s == Parts(bases, b) c == Crcs(rel, bases, b)
         IN \E g : /\ Flattens(Int, g, c) /\ Len(c) = Len(s) /\ Len(s) \in Nat
                   /\ \A i \in 1 .. Len(s) : c[i] = Entry(s[i]).crc /\ c[i] \in Seq(Int)
                   /\ \A k \in 0 .. Len(s) : Together(rel, bases, b, k) = g[k]
                   /\ Whole(rel, b) = g[Len(s)]
  <1>1. PICK s, c, n : s = Parts(bases, b) /\ c = Crcs(rel, bases, b) /\ n = Len(s)
    OBVIOUS
  <1>2. s = PartsOf(rel, bases, b)
    BY <1>1, PartsAre
  <1>3. DOMAIN s = 1 .. n /\ n \in Nat /\ \A i \in 1 .. n : s[i] \in DOMAIN Entries[rel]
    <2>1. s \in Seq(PartSet(b))
      BY <1>1, PartsInOrder DEF SortedOk
    <2>2. PartSet(b) \subseteq DOMAIN Entries[rel]
      BY DEF PartSet
    <2> QED BY <1>1, <2>1, <2>2
  <1>4. c = [i \in 1 .. n |-> Entries[rel][s[i]].crc]
    BY <1>1, <1>2, <1>3 DEF Crcs
  <1>5. ASSUME NEW i \in 1 .. n PROVE Entries[rel][s[i]].crc \in Seq(Int)
    <2>1. PICK p \in Places(rel) : IsFile(FileAt(rel, p)) /\ Entries[rel][s[i]].crc = Content(FileAt(rel, p))
      BY <1>3, EntryFacts
    <2>2. PICK d : d = Content(FileAt(rel, p))
      OBVIOUS
    <2>3. d \in Seq(Int \ {0})
      BY <2>1, <2>2, ContentFacts
    <2>4. d \in Seq(Int)
      BY <2>3
    <2> QED BY <2>1, <2>2, <2>4
  <1>6. c \in Seq(Seq(Int)) /\ Len(c) = n
    BY <1>3, <1>4, <1>5
  <1>7. PICK g : Flattens(Int, g, c)
    BY <1>6, FlattensExist
  <1>8. \A k \in 0 .. n : Together(rel, bases, b, k) = g[k]
    BY <1>1, <1>6, <1>7, FlattenPrefix DEF Together
  <1>9. Whole(rel, b) = g[n]
    BY <1>1, <1>6, <1>7, FlattenIs, WholeIs
  <1>10. \A i \in 1 .. n : c[i] = Entry(s[i]).crc /\ c[i] \in Seq(Int)
    BY <1>4, <1>5 DEF Entry
  <1> QED BY <1>1, <1>3, <1>6, <1>7, <1>8, <1>9, <1>10

\* So the first part is a beginning, each part continues it, and all of them
\* are the file.
LEMMA JoinSteps ==
  ASSUME rel \in Releases, bases \subseteq Listed[rel], NEW b \in bases, Parts(bases, b) # <<>>
  PROVE  LET s == Parts(bases, b)
         IN /\ Together(rel, bases, b, 1) = Entry(s[1]).crc
            /\ \A k \in 2 .. Len(s) :
                 Together(rel, bases, b, k) = Together(rel, bases, b, k - 1) \o Entry(s[k]).crc
            /\ Together(rel, bases, b, Len(s)) = Whole(rel, b)
  <1>1. PICK s, c, n : s = Parts(bases, b) /\ c = Crcs(rel, bases, b) /\ n = Len(s)
    OBVIOUS
  <1>2. PICK g : /\ Flattens(Int, g, c) /\ Len(c) = n /\ n \in Nat
                 /\ \A i \in 1 .. n : c[i] = Entry(s[i]).crc /\ c[i] \in Seq(Int)
                 /\ \A k \in 0 .. n : Together(rel, bases, b, k) = g[k]
                 /\ Whole(rel, b) = g[n]
    BY <1>1, TogetherFacts
  <1>3. n \in Nat \ {0}
    <2>1. s \in Seq(PartSet(b))
      BY <1>1, PartsInOrder DEF SortedOk
    <2> QED BY <1>1, <2>1
  <1>4. g[0] = <<>> /\ \A k \in 1 .. n : g[k] = g[k - 1] \o c[k]
    BY <1>2 DEF Flattens
  <1>5. g[1] = c[1]
    <2>1. PICK d : d = c[1]
      OBVIOUS
    <2>2. 1 \in 1 .. n /\ d \in Seq(Int)
      BY <1>2, <1>3, <2>1
    <2>3. PICK k \in 1 .. n : k = 1
      BY <2>2
    <2>4. g[1] = <<>> \o d
      <3>1. k - 1 = 0
        BY <2>3
      <3>2. g[k] = g[k - 1] \o c[k]
        BY <1>4
      <3> QED BY <1>4, <2>1, <2>3, <3>1, <3>2, Zenon
    <2> QED BY <2>1, <2>2, <2>4
  <1>6. Together(rel, bases, b, 1) = Entry(s[1]).crc
    BY <1>2, <1>3, <1>5
  <1>7. ASSUME NEW k \in 2 .. n
        PROVE  Together(rel, bases, b, k) = Together(rel, bases, b, k - 1) \o Entry(s[k]).crc
    <2>1. k \in 1 .. n /\ k \in 0 .. n /\ k - 1 \in 0 .. n
      BY <1>3
    <2> QED BY <1>2, <1>4, <2>1
  <1>8. Together(rel, bases, b, n) = Whole(rel, b)
    <2>1. n \in 0 .. n
      BY <1>3
    <2> QED BY <1>2, <2>1
  <1> QED BY <1>1, <1>6, <1>7, <1>8

--------------------------------------------------------------------------------
(* Where the parts are in the base file *)

\* The listed size of a file is that of its content.
LEMMA UncompFacts ==
  ASSUME NEW r \in Releases, NEW n \in DOMAIN Entries[r]
  PROVE  /\ Entries[r][n].uncomp = Len(Entries[r][n].crc)
         /\ Entries[r][n].crc \in Seq(Int) /\ Len(Entries[r][n].crc) \in Nat
  <1>1. PICK e : e = Entries[r][n] /\ e \in ToSet(Entries[r])
    BY DEF ToSet
  <1>2. PICK p \in Places(r) : OfPlace(e, r, p)
    BY <1>1, EntriesFacts
  <1>3. PICK f : f = FileAt(r, p) /\ IsFile(f)
    BY PlaceFacts
  <1>4. e.crc = Content(f) /\ e.uncomp = Len(Content(f))
    BY <1>2, <1>3 DEF OfPlace, Describes
  <1>5. PICK d : d = Content(f)
    OBVIOUS
  <1>6. d \in Seq(Int \ {0})
    BY <1>3, <1>5, ContentFacts
  <1>7. d \in Seq(Int) /\ Len(d) \in Nat
    BY <1>6
  <1> QED BY <1>1, <1>4, <1>5, <1>7

\* Those of lower rank than a part are the ones before it.
LEMMA BeforePart ==
  ASSUME rel \in Releases, bases \subseteq Listed[rel], NEW b \in bases,
         NEW i \in DOMAIN Parts(bases, b)
  PROVE  {m \in DOMAIN Entries[rel] : /\ IsPart(bases, m)
                                      /\ Entry(m).base = Entry(Parts(bases, b)[i]).base
                                      /\ Entry(m).part < Entry(Parts(bases, b)[i]).part}
           = {Parts(bases, b)[j] : j \in 1 .. i - 1}
  <1>1. PICK s : s = Parts(bases, b)
    OBVIOUS
  <1>2. SortedOk(s, PartSet(b)) /\ \A j, k \in DOMAIN s : j < k => Entry(s[j]).part < Entry(s[k]).part
    BY <1>1, PartsInOrder
  <1>3. DOMAIN s = 1 .. Cardinality(PartSet(b)) /\ Cardinality(PartSet(b)) \in Nat
        /\ ToSet(s) = PartSet(b)
    BY <1>2 DEF SortedOk
  <1>4. \A j \in DOMAIN s : s[j] \in PartSet(b)
    BY <1>3 DEF ToSet
  <1>5. \A m \in PartSet(b) : \E j \in DOMAIN s : m = s[j]
    BY <1>3 DEF ToSet
  <1>6. \A m \in PartSet(b) : Entry(m).part \in Nat
    <2>1. \A m \in PartSet(b) : m \in DOMAIN Entries[rel]
      BY DEF PartSet
    <2> QED BY <2>1, EntryFacts DEF Entry
  <1>7. i \in DOMAIN s /\ Entry(s[i]).base = b /\ i \in Nat
    BY <1>1, <1>3, <1>4 DEF PartSet
  <1>8. ASSUME NEW j \in DOMAIN s PROVE Entry(s[j]).part < Entry(s[i]).part <=> j < i
    <2>1. Entry(s[j]).part \in Nat /\ Entry(s[i]).part \in Nat
      BY <1>4, <1>6, <1>7
    <2>2. j < i => Entry(s[j]).part < Entry(s[i]).part
      BY <1>2, <1>7
    <2>3. i < j => Entry(s[i]).part < Entry(s[j]).part
      BY <1>2, <1>7
    <2>4. i \in Nat /\ j \in Nat
      BY <1>3, <1>7
    <2>5. i = j => Entry(s[j]).part = Entry(s[i]).part
      OBVIOUS
    <2>6. PICK x, y : x = Entry(s[j]).part /\ y = Entry(s[i]).part
      OBVIOUS
    <2> QED BY <2>1, <2>2, <2>3, <2>4, <2>5, <2>6
  <1>9. \A j : j \in DOMAIN s /\ j < i <=> j \in 1 .. i - 1
    BY <1>3, <1>7
  <1>10. PICK P : P = {m \in DOMAIN Entries[rel] : /\ IsPart(bases, m) /\ Entry(m).base = Entry(s[i]).base
                                                   /\ Entry(m).part < Entry(s[i]).part}
    OBVIOUS
  <1>11. P = {m \in PartSet(b) : Entry(m).part < Entry(s[i]).part}
    BY <1>7, <1>10 DEF PartSet
  <1>12. \A m : m \in P <=> \E j \in 1 .. i - 1 : m = s[j]
    BY <1>4, <1>5, <1>8, <1>9, <1>11
  <1> QED BY <1>1, <1>10, <1>12

\* A part begins in the base file where those before it end.
LEMMA StartIs ==
  ASSUME rel \in Releases, bases \subseteq Listed[rel], NEW b \in bases,
         NEW i \in DOMAIN Parts(bases, b),
         NEW g, Flattens(Int, g, Crcs(rel, bases, b))
  PROVE  SplitStart(Parts(bases, b)[i]) = Len(g[i - 1])
  <1>1. PICK s, c, n : s = Parts(bases, b) /\ c = Crcs(rel, bases, b) /\ n = Len(s)
    OBVIOUS
  <1>2. PICK D, w : D = DOMAIN Entries[rel] /\ w = SizeOf
    OBVIOUS
  <1>3. /\ SortedOk(s, PartSet(b)) /\ Len(c) = n /\ n \in Nat
        /\ \A j \in 1 .. n : c[j] = Entry(s[j]).crc /\ c[j] \in Seq(Int)
    BY <1>1, PartsInOrder, TogetherFacts
  <1>4. DOMAIN s = 1 .. n /\ \A j \in 1 .. n : s[j] \in D
    <2>1. s \in Seq(PartSet(b)) /\ ToSet(s) = PartSet(b)
      BY <1>3 DEF SortedOk
    <2>2. DOMAIN s = 1 .. n
      BY <1>1, <2>1
    <2>3. \A j \in 1 .. n : s[j] \in PartSet(b)
      BY <2>1, <2>2 DEF ToSet
    <2> QED BY <1>2, <2>2, <2>3 DEF PartSet
  <1>5. \A j, k \in 1 .. n : s[j] = s[k] => j = k
    BY <1>3, <1>4 DEF SortedOk, Once
  <1>6. IsFiniteSet(D) /\ w \in [D -> Nat] /\ \A j \in 1 .. n : w[s[j]] = Len(c[j])
    <2>1. \A m \in D : Entry(m).uncomp = Len(Entry(m).crc) /\ Len(Entry(m).crc) \in Nat
      BY <1>2, UncompFacts DEF Entry
    <2>2. w = [m \in D |-> Entry(m).uncomp]
      BY <1>2 DEF SizeOf
    <2>3. IsFiniteSet(D)
      BY <1>2, EntriesFacts, FS_Interval
    <2>4. \A m \in D : w[m] = Len(Entry(m).crc) /\ w[m] \in Nat
      BY <2>1, <2>2
    <2> QED BY <1>3, <1>4, <2>2, <2>3, <2>4
  <1>7. w \in [D -> Int]
    BY <1>6
  <1>8. /\ SumOver(w, {}) = 0
        /\ \A S \in SUBSET D : \A x \in S : SumOver(w, S) = w[x] + SumOver(w, S \ {x})
    BY <1>6, <1>7, SumFacts
  <1>9. g[0] = <<>> /\ \A j \in 1 .. n : Len(g[j]) = Len(g[j - 1]) + Len(c[j])
    <2>1. g[0] = <<>>
      BY <1>1 DEF Flattens
    <2>2. \A j \in 1 .. n : Longer(g[j], g[j - 1], c[j])
      <3>1. n \in 0 .. Len(c) /\ Flattens(Int, g, c)
        BY <1>1, <1>3
      <3> QED BY <3>1, FlattenPlaces
    <2> QED BY <2>1, <2>2 DEF Longer
  <1> DEFINE Upto(m) == {s[j] : j \in 1 .. m}
             M == {m \in Nat : m <= n => SumOver(w, Upto(m)) = Len(g[m])}
  <1>10. 0 \in M
    <2>1. Upto(0) = {}
      OBVIOUS
    <2>2. Len(g[0]) = 0
      BY <1>9
    <2> QED BY <1>8, <2>1, <2>2
  <1>11. ASSUME NEW m \in Nat, m \in M PROVE m + 1 \in M
    <2> SUFFICES ASSUME m + 1 <= n PROVE SumOver(w, Upto(m + 1)) = Len(g[m + 1])
      OBVIOUS
    <2>1. SumOver(w, Upto(m)) = Len(g[m])
      BY <1>3, <1>11
    <2>2. m + 1 \in 1 .. n /\ (m + 1) - 1 = m
      BY <1>3
    <2>3. Upto(m + 1) \in SUBSET D /\ s[m + 1] \in Upto(m + 1)
          /\ Upto(m + 1) \ {s[m + 1]} = Upto(m)
      <3>1. \A j \in 1 .. m + 1 : j \in 1 .. n
        BY <1>3
      <3>2. Upto(m + 1) \in SUBSET D /\ s[m + 1] \in Upto(m + 1)
        BY <1>4, <3>1
      <3>3. \A j \in 1 .. m : s[j] # s[m + 1] /\ j \in 1 .. m + 1
        BY <1>5, <2>2, <3>1
      <3>4. \A j \in 1 .. m + 1 : j = m + 1 \/ j \in 1 .. m
        OBVIOUS
      <3> QED BY <3>2, <3>3, <3>4
    <2> HIDE DEF Upto
    <2>4. SumOver(w, Upto(m + 1)) = w[s[m + 1]] + SumOver(w, Upto(m))
      BY <1>8, <2>3
    <2>5. Len(g[m + 1]) = Len(g[m]) + Len(c[m + 1])
      BY <1>9, <2>2
    <2>6. PICK x, y : x = Len(g[m]) /\ y = Len(c[m + 1])
      OBVIOUS
    <2>7. x \in Int /\ y \in Nat
      <3>1. w[s[m + 1]] = y /\ s[m + 1] \in D
        BY <1>4, <1>6, <2>2, <2>6
      <3>2. Upto(m) \in SUBSET D
        BY <2>3
      <3>3. SumOver(w, Upto(m)) \in Int
        BY <1>6, <1>7, <3>2, SumFacts
      <3> QED BY <1>6, <2>1, <2>6, <3>1, <3>3
    <2>8. w[s[m + 1]] = y
      BY <1>6, <2>2, <2>6
    <2>9. SumOver(w, Upto(m + 1)) = y + x /\ Len(g[m + 1]) = x + y
      BY <2>1, <2>4, <2>5, <2>6, <2>8
    <2>10. x + y = y + x
      BY <2>7
    <2> QED BY <2>9, <2>10, Zenon
  <1>12. Nat \subseteq M
    <2> HIDE DEF M
    <2> QED BY <1>10, <1>11, Induction
  <1>13. i \in 1 .. n /\ i - 1 \in Nat /\ i - 1 <= n
    BY <1>1, <1>3, <1>4
  <1>14. SumOver(w, Upto(i - 1)) = Len(g[i - 1])
    BY <1>12, <1>13
  <1>15. SplitStart(s[i]) = SumOver(w, Upto(i - 1))
    <2>1. PICK P : P = {m \in DOMAIN Entries[rel] : /\ IsPart(bases, m)
                                                    /\ Entry(m).base = Entry(s[i]).base
                                                    /\ Entry(m).part < Entry(s[i]).part}
      OBVIOUS
    <2>2. P = Upto(i - 1)
      BY <1>1, <2>1, BeforePart
    <2>3. P = {m \in DOMAIN Entries[rel] : IsPart(bases, m) /\ Entry(m).base = Entry(s[i]).base
                                            /\ Entry(m).part < Entry(s[i]).part}
      BY <2>1
    <2>4. SplitStart(s[i]) = SumOver(SizeOf, P)
      BY <2>3, Zenon DEF SplitStart, SumOver
    <2> QED BY <1>2, <2>2, <2>4
  <1> QED BY <1>1, <1>14, <1>15

\* In a right base file every part is found.
LEMMA RightInBase ==
  ASSUME rel \in Releases, bases \subseteq Listed[rel], NEW b \in bases, NEW n \in PartSet(b),
         b \in DOMAIN file, file[b] = Whole(rel, b)
  PROVE  InBase(n) = {TRUE}
  <1>1. PICK s, c, N : s = Parts(bases, b) /\ c = Crcs(rel, bases, b) /\ N = Len(s)
    OBVIOUS
  <1>2. PICK g : /\ Flattens(Int, g, c) /\ Len(c) = N /\ N \in Nat
                 /\ \A i \in 1 .. N : c[i] = Entry(s[i]).crc /\ c[i] \in Seq(Int)
                 /\ Whole(rel, b) = g[N]
    BY <1>1, TogetherFacts
  <1>3. PICK i \in DOMAIN s : s[i] = n
    BY <1>1, PartsInOrder DEF SortedOk, ToSet
  <1>4. i \in 1 .. N
    <2>1. s \in Seq(PartSet(b))
      BY <1>1, PartsInOrder DEF SortedOk
    <2> QED BY <1>1, <2>1
  <1>5. SplitStart(n) = Len(g[i - 1])
    BY <1>1, <1>2, <1>3, StartIs
  <1>6. PICK whole, piece, from : whole = g[N] /\ piece = c[i] /\ from = Len(g[i - 1])
    OBVIOUS
  <1>7. PartAt(whole, from, piece)
    <2>1. N \in 0 .. Len(c)
      BY <1>2
    <2> QED BY <1>2, <1>4, <1>6, <2>1, FlattenPlaces
  <1>8. whole \in Seq(Int) /\ from \in Nat /\ piece \in Seq(Int)
    <2>1. g \in [0 .. N -> Seq(Int)]
      BY <1>2 DEF Flattens
    <2>2. N \in 0 .. N /\ i - 1 \in 0 .. N
      BY <1>2, <1>4
    <2>3. PICK a : a = g[i - 1]
      OBVIOUS
    <2>4. a \in Seq(Int)
      BY <2>1, <2>2, <2>3
    <2>5. Len(a) \in Nat
      BY <2>4
    <2> QED BY <1>2, <1>4, <1>6, <2>1, <2>2, <2>3, <2>5
  <1>9. /\ Entry(n).base = b /\ Entry(n).crc = piece /\ Entry(n).uncomp = Len(piece)
        /\ file[b] = whole
    <2>1. n \in DOMAIN Entries[rel] /\ Entry(n).base = b
      BY DEF PartSet
    <2>2. Entry(n).uncomp = Len(Entry(n).crc)
      BY <2>1, UncompFacts DEF Entry
    <2> QED BY <1>2, <1>3, <1>4, <1>6, <2>1, <2>2
  <1>10. PICK l, m : l = Len(whole) /\ m = Len(piece)
    OBVIOUS
  <1>11. l \in Nat /\ m \in Nat /\ from + m <= l
    <2>1. l \in Nat /\ m \in Nat
      BY <1>8, <1>10
    <2> QED BY <1>7, <1>10, <2>1 DEF PartAt
  <1>12. ~(l < from) /\ ~(from + m > l)
    BY <1>8, <1>11
  <1>13. SubSeq(whole, from + 1, from + m) = piece
    BY <1>7, <1>8, <1>10, AtSubSeq
  <1> QED BY <1>5, <1>6, <1>9, <1>10, <1>12, <1>13 DEF InBase

--------------------------------------------------------------------------------
(* What an undisturbed run does for the base files it is sure of *)

Brought(b) == b \in DOMAIN file /\ file[b] = Whole(rel, b)

\* Its parts are being brought to disk, as if one undisturbed run had been before.
ToFetch(b) ==
  /\ PartSet(b) # {}
  /\ \A n \in PartSet(b) : TRUE \notin InBase(n) /\ Waiting(n, 1) /\ InWork(n, 1) /\ Done(n, 1)

\* It is right, and its parts are found in it one after the other.
ToKeep(b) ==
  /\ Brought(b) /\ Missing(b)
  /\ \A t \in Workers : Active(t) /\ item[t] \in PartSet(b) => pc[t] = "examine"

RightFrom(b, k) ==
  \A i \in DOMAIN Parts(bases, b) : i >= k => Right(Entry(Parts(bases, b)[i]), file)

\* The first k parts are together in the file of the first.
JoinedUpTo(b, k) ==
  FirstPart(b) \in DOMAIN file /\ file[FirstPart(b)] = Together(rel, bases, b, k)

Combining(b) ==
  /\ mpc = "append" => /\ part <= Len(Parts(bases, b)) + 1
                       /\ JoinedUpTo(b, part - 1) /\ RightFrom(b, part)
  /\ mpc = "remove" => JoinedUpTo(b, part) /\ RightFrom(b, part + 1)
  /\ mpc = "rename" => JoinedUpTo(b, Len(Parts(bases, b)))

\* A base file is done, still to be combined or kept, or being combined.
CombineState(b) ==
  /\ b \notin todo => Brought(b)
  /\ b \in todo /\ (mpc = "combine" \/ b # Current) => RightFrom(b, 1) \/ (Brought(b) /\ Missing(b))
  /\ b \in todo /\ mpc # "combine" /\ b = Current => Combining(b)

SplitOK ==
  /\ ~dirty /\ mpc \notin {"idle", "queue"} => sure \subseteq bases
  /\ ~dirty /\ mpc \in Threaded => \A b \in sure : ToFetch(b) \/ ToKeep(b)
  /\ ~dirty /\ mpc \in {"combine", "append", "remove", "rename"} => \A b \in sure : CombineState(b)
  /\ mpc = "idle" /\ clean >= 1 => \A b \in sure : Brought(b)

\* Where a part starts depends on the release and the base files only.
StartOf(r, bs, n) ==
  MapThenSumSet(LAMBDA m : [x \in DOMAIN Entries[r] |-> Entries[r][x].uncomp][m],
    {m \in DOMAIN Entries[r] : (Entries[r][m].kind = "file" /\ Entries[r][m].base \in bs)
                               /\ Entries[r][m].base = Entries[r][n].base
                               /\ Entries[r][m].part < Entries[r][n].part})

LEMMA StartsAre == \A n : SplitStart(n) = StartOf(rel, bases, n)
  BY Zenon DEF SplitStart, StartOf, SizeOf, Entry, IsPart

LEMMA SplitSame ==
  ASSUME UNCHANGED <<rel, bases>>
  PROVE  /\ \A n : Entry(n)' = Entry(n) /\ SplitStart(n)' = SplitStart(n)
         /\ \A b : /\ Parts(bases, b)' = Parts(bases, b) /\ PartSet(b)' = PartSet(b)
                   /\ Whole(rel, b)' = Whole(rel, b) /\ FirstPart(b)' = FirstPart(b)
         /\ \A b, i : /\ PartPath(b, i)' = PartPath(b, i)
                      /\ Together(rel, bases, b, i)' = Together(rel, bases, b, i)
  <1>1. \A b : Parts(bases, b)' = Parts(bases, b)
    BY PartsSame
  <1>2. (\A n : SplitStart(n) = StartOf(rel, bases, n))'
    BY StartsAre, PTL
  <1>3. \A n : SplitStart(n)' = SplitStart(n)
    BY <1>2, StartsAre
  <1>4. \A n : Entry(n)' = Entry(n)
    BY DEF Entry
  <1>5. \A b : PartSet(b)' = PartSet(b)
    BY <1>4 DEF PartSet, IsPart
  <1>6. \A b : Whole(rel, b)' = Whole(rel, b)
    OBVIOUS
  <1>7. \A b, k : Together(rel, bases, b, k)' = Together(rel, bases, b, k)
    OBVIOUS
  <1>8. \A b, i : PartPath(b, i)' = PartPath(b, i)
    BY <1>1, <1>4 DEF PartPath
  <1>9. \A b : FirstPart(b)' = FirstPart(b)
    BY <1>8 DEF FirstPart
  <1> QED BY <1>1, <1>3, <1>4, <1>5, <1>6, <1>7, <1>8, <1>9

LEMMA InBaseSame ==
  ASSUME UNCHANGED <<rel, bases>>, NEW n, SameAt(file, file', Entry(n).base)
  PROVE  InBase(n)' = InBase(n)
  <1>1. Entry(n)' = Entry(n) /\ SplitStart(n)' = SplitStart(n)
    BY SplitSame
  <1>2. PICK b, e, x : b = Entry(n).base /\ e = Entry(n) /\ x = SplitStart(n)
    OBVIOUS
  <1>3. (b \in DOMAIN file' <=> b \in DOMAIN file) /\ (b \in DOMAIN file => file'[b] = file[b])
    BY <1>2 DEF SameAt
  <1> QED BY <1>1, <1>2, <1>3 DEF InBase

--------------------------------------------------------------------------------
(* The threads *)

\* A thread changes no base file.
LEMMA BaseWorker ==
  ASSUME IInv, NEW t \in Workers, Worker(t), NEW b \in Listed[rel]
  PROVE  SameAt(file, file', b)
  <1>1. CASE Active(t)
    <2>1. rel \in Releases /\ item[t] \in DOMAIN Entries[rel]
      BY <1>1 DEF IInv, TypesOK, QueueOK
    <2>2. Path(t) # b
      BY <2>1, EntryFacts DEF Path, E, Entry
    <2> QED BY <2>2, FileFrame
  <1>2. CASE ~Active(t)
    BY <1>2, IdleWorker DEF SameAt
  <1> QED BY <1>1, <1>2

\* A part found in the base file is left alone.
LEMMA KeepWorker ==
  ASSUME IInv, NEW t \in Workers, Worker(t), ~dirty', pc[t] = "examine",
         IsPart(bases, item[t]), InBase(item[t]) = {TRUE}
  PROVE  pc'[t] = "pop" /\ UNCHANGED <<file, item>>
  <1>1. ~Fault /\ pc \in [Workers -> PCs]
    BY NoFault DEF IInv, TypesOK
  <1>2. ASSUME NEW inBase \in InBase(item[t]) PROVE UpToDate(item[t], inBase)
    BY <1>2 DEF UpToDate, IsPart
  <1>3. PICK inBase \in InBase(item[t]) : Keep(t, inBase) \/ Replace(t, inBase)
    BY <1>1 DEF Worker, Pop, DirectoryFails, ReplaceFails, MakeLink, FetchSmall, Extracted,
         Create, FetchSmallFails, Open, Receive, Received, Interrupted, TransferFails, Extract,
         ExtractFails, Finish
  <1>4. Keep(t, inBase)
    BY <1>2, <1>3 DEF Replace
  <1> QED BY <1>1, <1>4 DEF Keep, Goto, disk

LEMMA FetchWorker ==
  ASSUME IInv, NEW t \in Workers, Worker(t), ~dirty', NEW b \in bases, ToFetch(b)
  PROVE  ToFetch(b)'
  <1>1. TypesOK /\ Frame(t) /\ QueueOK'
    BY FrameFacts, QueueWorker DEF IInv
  <1>2. UNCHANGED <<rel, bases>> /\ rel \in Releases /\ b \in Listed[rel]
    BY <1>1 DEF Frame, TypesOK
  <1>3. PartSet(b)' = PartSet(b)
    BY <1>2, SplitSame
  <1>4. ASSUME NEW n \in PartSet(b)
        PROVE  TRUE \notin InBase(n)' /\ Waiting(n, 1)' /\ InWork(n, 1)' /\ Done(n, 1)'
    <2>1. n \in DOMAIN Entries[rel] /\ Entry(n).kind = "file" /\ Entry(n).base = b
      BY DEF PartSet, IsPart
    <2>2. TRUE \notin InBase(n) /\ Waiting(n, 1) /\ InWork(n, 1) /\ Done(n, 1)
      BY DEF ToFetch
    <2>3. SameAt(file, file', b)
      BY <1>2, BaseWorker
    <2>4. InBase(n)' = InBase(n)
      BY <1>2, <2>1, <2>3, InBaseSame
    <2>5. Waiting(n, 1)' /\ InWork(n, 1)' /\ Done(n, 1)'
      <3>1. 1 \in 0 .. 2
        OBVIOUS
      <3>2. ~IsPart(bases, n) \/ TRUE \notin InBase(n)
        BY <2>2
      <3> QED BY <1>1, <2>1, <2>2, <3>1, <3>2, StatusWorker, Zenon
    <2> QED BY <2>2, <2>4, <2>5
  <1> QED BY <1>3, <1>4 DEF ToFetch

LEMMA KeptWorker ==
  ASSUME IInv, NEW t \in Workers, Worker(t), ~dirty', NEW b \in bases, ToKeep(b)
  PROVE  ToKeep(b)'
  <1>1. TypesOK /\ QueueOK /\ Frame(t)
    BY FrameFacts DEF IInv
  <1>2. UNCHANGED <<rel, bases>> /\ rel \in Releases /\ bases \subseteq Listed[rel]
    BY <1>1 DEF Frame, TypesOK
  <1>3. PartSet(b)' = PartSet(b) /\ Whole(rel, b)' = Whole(rel, b) /\ \A n : Entry(n)' = Entry(n)
    BY <1>2, SplitSame
  <1>4. Brought(b)'
    <2>1. SameAt(file, file', b)
      BY <1>2, BaseWorker
    <2> QED BY <1>3, <2>1 DEF Brought, SameAt, ToKeep
  <1>5. PICK n \in PartSet(b) : Entry(n).path \notin DOMAIN file
    BY DEF ToKeep, Missing
  <1>6. \A u \in Workers : u # t => item'[u] = item[u] /\ pc'[u] = pc[u]
    BY <1>1 DEF Frame
  <1>7. SUFFICES /\ Entry(n).path \notin DOMAIN file'
                 /\ pc'[t] \notin Resting /\ item'[t] \in PartSet(b) => pc'[t] = "examine"
    BY <1>3, <1>4, <1>5, <1>6 DEF ToKeep, Missing, Active
  <1>8. CASE Active(t) /\ item[t] \in PartSet(b)
    <2>1. pc[t] = "examine" /\ IsPart(bases, item[t])
      BY <1>8 DEF ToKeep, PartSet
    <2>2. InBase(item[t]) = {TRUE}
      BY <1>2, <1>8, RightInBase DEF ToKeep, Brought
    <2>3. pc'[t] = "pop" /\ UNCHANGED <<file, item>>
      BY <2>1, <2>2, KeepWorker
    <2> QED BY <1>5, <2>3
  <1>9. CASE Active(t) /\ item[t] \notin PartSet(b)
    <2>1. item[t] \in DOMAIN Entries[rel] /\ n \in DOMAIN Entries[rel] /\ item[t] # n
      BY <1>1, <1>5, <1>9 DEF QueueOK, PartSet
    <2>2. Path(t) # Entry(n).path
      BY <1>2, <2>1, PathsDistinct DEF Path, E, Entry
    <2>3. SameAt(file, file', Entry(n).path)
      BY <2>2, FileFrame
    <2>4. UNCHANGED item
      BY <1>1, <1>9 DEF Frame, Pop, Active
    <2> QED BY <1>5, <1>9, <2>3, <2>4 DEF SameAt
  <1>10. CASE ~Active(t)
    <2>1. (Pop(t) \/ Finish(t)) /\ UNCHANGED file
      BY <1>10, IdleWorker
    <2>2. pc'[t] \in {"examine", "done"}
      BY <1>1, <2>1 DEF Pop, Finish, Goto, TypesOK
    <2> QED BY <1>5, <2>1, <2>2
  <1> QED BY <1>8, <1>9, <1>10

LEMMA SplitWorker ==
  ASSUME IInv, SplitOK, NEW t \in Workers, Worker(t)
  PROVE  SplitOK'
  <1>1. TypesOK /\ Frame(t)
    BY FrameFacts DEF IInv
  <1>2. mpc \in Threaded /\ mpc' \in Threaded /\ UNCHANGED <<bases, sure>>
    BY <1>1 DEF Frame
  <1>3. CASE dirty'
    BY <1>2, <1>3 DEF SplitOK
  <1>4. CASE ~dirty'
    <2>1. ~dirty
      BY <1>1, <1>4, EndsWorker DEF Fault
    <2>2. sure \subseteq bases /\ \A b \in sure : ToFetch(b) \/ ToKeep(b)
      BY <1>2, <2>1 DEF SplitOK
    <2>3. \A b \in sure : ToFetch(b)' \/ ToKeep(b)'
      BY <1>4, <2>2, FetchWorker, KeptWorker
    <2> QED BY <1>2, <2>2, <2>3 DEF SplitOK
  <1> QED BY <1>3, <1>4

--------------------------------------------------------------------------------
(* The combining of the parts *)

\* The set of the parts and their sequence.
LEMMA PartOfBase ==
  ASSUME TypesOK, NEW b \in bases
  PROVE  /\ \A i \in DOMAIN Parts(bases, b) : Parts(bases, b)[i] \in PartSet(b)
         /\ \A n \in PartSet(b) : \E i \in DOMAIN Parts(bases, b) : Entry(n).path = PartPath(b, i)
         /\ \A i : PartPath(b, i) = Entry(Parts(bases, b)[i]).path
         /\ AllPartsExist(b) => ~Missing(b)
         /\ PartSet(b) # {} => Parts(bases, b) # <<>>
  <1>1. PICK s : s = Parts(bases, b)
    OBVIOUS
  <1>2. ToSet(s) = PartSet(b)
    BY <1>1, PartsInOrder DEF TypesOK, SortedOk
  <1>3. \A i \in DOMAIN s : s[i] \in PartSet(b)
    BY <1>2 DEF ToSet
  <1>4. \A i : PartPath(b, i) = Entry(s[i]).path
    BY <1>1 DEF PartPath
  <1>5. \A n \in PartSet(b) : \E i \in DOMAIN s : Entry(n).path = PartPath(b, i)
    <2>1. \A n \in PartSet(b) : \E i \in DOMAIN s : n = s[i]
      BY <1>2 DEF ToSet
    <2> QED BY <1>4, <2>1
  <1>6. AllPartsExist(b) => ~Missing(b)
    BY <1>1, <1>5 DEF AllPartsExist, Missing
  <1>7. PartSet(b) # {} => s # <<>>
    BY <1>5
  <1> QED BY <1>1, <1>3, <1>4, <1>5, <1>6, <1>7

Combines ==
  \/ SkipBase \/ StartCombining \/ StartFails \/ AppendFails \/ AllAppended
  \/ \E ok \in BOOLEAN : AppendPart(ok) \/ RemovePart(ok) \/ RenameFirst(ok)

\* Another base file and its parts are left alone.
LEMMA OtherBase ==
  ASSUME IInv, Combines, NEW b \in bases, b # Current
  PROVE  /\ SameAt(file, file', b)
         /\ \A n \in PartSet(b) : SameAt(file, file', Entry(n).path)
  <1>1. TypesOK /\ CombineOK
    BY DEF IInv
  <1>2. mpc \in {"combine", "append", "remove", "rename"} /\ todo # {}
    BY <1>1 DEF Combines, SkipBase, StartCombining, StartFails, AppendFails, AllAppended, AppendPart,
                RemovePart, RenameFirst, CombineOK
  <1>3. PICK c : c = Current
    OBVIOUS
  <1>4. c \in bases /\ rel \in Releases /\ bases \subseteq Listed[rel]
    BY <1>1, <1>2, <1>3, CurrentFacts DEF TypesOK
  <1>5. /\ \A i \in DOMAIN Parts(bases, c) : PartPath(c, i) \notin Listed[rel]
        /\ \A i \in DOMAIN Parts(bases, c) : Parts(bases, c)[i] \in PartSet(c)
        /\ \A i : PartPath(c, i) = Entry(Parts(bases, c)[i]).path
    BY <1>1, <1>4, PartsFacts, PartOfBase
  <1>6. SameAt(file, file', b)
    <2>1. \A i \in DOMAIN Parts(bases, c) : PartPath(c, i) # b
      BY <1>4, <1>5
    <2> QED BY <1>3, <2>1, CombineFrame DEF Combines
  <1>7. ASSUME NEW n \in PartSet(b) PROVE SameAt(file, file', Entry(n).path)
    <2>1. n \in DOMAIN Entries[rel] /\ Entry(n).base = b
      BY DEF PartSet
    <2>2. PICK p : p = Entry(n).path
      OBVIOUS
    <2>3. p # c
      BY <1>4, <2>1, <2>2, EntryFacts DEF Entry
    <2>4. ASSUME NEW i \in DOMAIN Parts(bases, c), PartPath(c, i) = p PROVE FALSE
      <3>1. PICK m : m = Parts(bases, c)[i] /\ m \in PartSet(c)
        BY <1>5
      <3>2. m \in DOMAIN Entries[rel] /\ Entry(m).base = c
        BY <3>1 DEF PartSet
      <3>3. Entries[rel][m].path = Entries[rel][n].path
        BY <1>5, <2>2, <2>4, <3>1 DEF Entry
      <3>4. m = n
        BY <1>4, <2>1, <3>2, <3>3, PathsDistinct
      <3> QED BY <1>3, <2>1, <3>2, <3>4
    <2> QED BY <1>3, <2>2, <2>3, <2>4, CombineFrame DEF Combines
  <1> QED BY <1>6, <1>7

LEMMA OtherState ==
  ASSUME IInv, Combines, ~Fault, NEW b \in bases, b # Current, CombineState(b)
  PROVE  CombineState(b)'
  <1>1. TypesOK
    BY DEF IInv
  <1>2. UNCHANGED <<rel, bases>> /\ (todo' = todo \/ (todo' = todo \ {Current} /\ mpc' = "combine"))
        /\ mpc \in {"combine", "append", "remove", "rename"}
    BY DEF Combines, SkipBase, StartCombining, StartFails, AppendFails, AllAppended, AppendPart,
           RemovePart, RenameFirst, plan, disk
  <1>3. /\ PartSet(b)' = PartSet(b) /\ Whole(rel, b)' = Whole(rel, b)
        /\ Parts(bases, b)' = Parts(bases, b) /\ \A n : Entry(n)' = Entry(n)
    BY <1>2, SplitSame
  <1>4. SameAt(file, file', b) /\ \A n \in PartSet(b) : SameAt(file, file', Entry(n).path)
    BY OtherBase
  <1>5. b \in todo' <=> b \in todo
    BY <1>2
  <1>6. ~(b \in todo' /\ mpc' # "combine" /\ b = Current')
    <2>1. todo' = todo => Current' = Current
      BY DEF Current
    <2> QED BY <1>2, <2>1
  <1>7. Brought(b) => Brought(b)'
    BY <1>3, <1>4 DEF Brought, SameAt
  <1>8. Missing(b) => Missing(b)'
    BY <1>3, <1>4 DEF Missing, SameAt
  <1>9. RightFrom(b, 1) => RightFrom(b, 1)'
    <2>1. \A i \in DOMAIN Parts(bases, b) : Parts(bases, b)[i] \in PartSet(b)
      BY <1>1, PartOfBase
    <2> QED BY <1>3, <1>4, <2>1 DEF RightFrom, Right, SameAt
  <1> QED BY <1>5, <1>6, <1>7, <1>8, <1>9 DEF CombineState

\* What is used of the base file being combined.
LEMMA CurrentParts ==
  ASSUME IInv, mpc \in {"combine", "append", "remove", "rename"}, todo # {},
         NEW b, b = Current, NEW N, N = Len(Parts(bases, b))
  PROVE  /\ b \in todo /\ b \in bases /\ N \in Nat /\ N >= 1 /\ DOMAIN Parts(bases, b) = 1 .. N
         /\ FirstPart(b) = PartPath(b, 1) /\ b # FirstPart(b)
         /\ \A i \in 1 .. N : /\ PartPath(b, i) = Entry(Parts(bases, b)[i]).path /\ PartPath(b, i) # b
                              /\ PartPath(b, i) = FirstPart(b) => i = 1
         /\ AllPartsExist(b) => FirstPart(b) \in DOMAIN file /\ ~Missing(b)
         /\ Together(rel, bases, b, 1) = Entry(Parts(bases, b)[1]).crc
         /\ \A k \in 2 .. N : Together(rel, bases, b, k)
                                = Together(rel, bases, b, k - 1) \o Entry(Parts(bases, b)[k]).crc
         /\ Together(rel, bases, b, N) = Whole(rel, b)
  <1>1. TypesOK /\ CombineOK /\ rel \in Releases /\ bases \subseteq Listed[rel]
    BY DEF IInv, TypesOK
  <1>2. /\ b \in todo /\ b \in bases /\ b # FirstPart(b)
        /\ 1 \in DOMAIN Parts(bases, b) /\ DOMAIN Parts(bases, b) = 1 .. N /\ N \in Nat
        /\ AllPartsExist(b) => FirstPart(b) \in DOMAIN file
        /\ \A i \in 1 .. N : PartPath(b, i) = FirstPart(b) => i = 1
    BY <1>1, CurrentFacts
  <1>3. \A i \in 1 .. N : PartPath(b, i) # b
    BY <1>1, <1>2, PartsFacts
  <1>4. N >= 1
    BY <1>2
  <1>5. AllPartsExist(b) => ~Missing(b)
    BY <1>1, <1>2, PartOfBase
  <1>6. Parts(bases, b) # <<>>
    BY <1>1, <1>2 DEF CombineOK
  <1>7. /\ Together(rel, bases, b, 1) = Entry(Parts(bases, b)[1]).crc
        /\ \A k \in 2 .. N : Together(rel, bases, b, k)
                               = Together(rel, bases, b, k - 1) \o Entry(Parts(bases, b)[k]).crc
        /\ Together(rel, bases, b, N) = Whole(rel, b)
    BY <1>1, <1>2, <1>6, JoinSteps
  <1> QED BY <1>2, <1>3, <1>4, <1>5, <1>7 DEF FirstPart, PartPath

LEMMA SkipState ==
  ASSUME IInv, SkipBase, CombineState(Current), NEW b, b = Current
  PROVE  CombineState(b)'
  <1>1. /\ mpc = "combine" /\ todo # {} /\ ~AllPartsExist(b) /\ todo' = todo \ {b}
        /\ UNCHANGED <<rel, bases, file>>
    BY DEF SkipBase, plan, disk
  <1>2. b \in todo /\ CombineState(b)
    BY <1>1, CurrentParts
  <1>3. ~RightFrom(b, 1)
    <2>1. \A i \in DOMAIN Parts(bases, b) : i >= 1
      BY <1>1, CurrentParts
    <2> QED BY <1>1, <2>1 DEF RightFrom, Right, AllPartsExist, PartPath
  <1>4. Brought(b)
    BY <1>1, <1>2, <1>3 DEF CombineState
  <1>5. Brought(b)'
    BY <1>1, <1>4, SplitSame DEF Brought
  <1> QED BY <1>1, <1>5 DEF CombineState

\* With all parts there they are the new ones, and the first is begun with.
LEMMA StartState ==
  ASSUME IInv, StartCombining, CombineState(Current), NEW b, b = Current
  PROVE  CombineState(b)'
  <1>1. /\ mpc = "combine" /\ todo # {} /\ AllPartsExist(b) /\ file' = Without(file, b)
        /\ part' = 2 /\ mpc' = "append" /\ UNCHANGED <<rel, bases, todo>>
    BY DEF StartCombining, plan
  <1>2. PICK s, N : s = Parts(bases, b) /\ N = Len(s)
    OBVIOUS
  <1>3. /\ b \in todo /\ N \in Nat /\ N >= 1 /\ DOMAIN s = 1 .. N
        /\ FirstPart(b) = PartPath(b, 1) /\ b # FirstPart(b)
        /\ \A i \in 1 .. N : PartPath(b, i) = Entry(s[i]).path /\ PartPath(b, i) # b
        /\ FirstPart(b) \in DOMAIN file /\ ~Missing(b)
        /\ Together(rel, bases, b, 1) = Entry(s[1]).crc
    <2>1. /\ b \in todo /\ N \in Nat /\ N >= 1 /\ DOMAIN s = 1 .. N
          /\ FirstPart(b) = PartPath(b, 1) /\ b # FirstPart(b)
          /\ FirstPart(b) \in DOMAIN file /\ ~Missing(b)
          /\ Together(rel, bases, b, 1) = Entry(s[1]).crc
      BY <1>1, <1>2, CurrentParts
    <2>2. \A i \in 1 .. N : PartPath(b, i) # b
      BY <1>1, <1>2, CurrentParts
    <2>3. \A i \in 1 .. N : PartPath(b, i) = Entry(s[i]).path
      BY <1>2 DEF PartPath
    <2> QED BY <2>1, <2>2, <2>3
  <1>4. RightFrom(b, 1)
    BY <1>1, <1>3 DEF CombineState
  <1>5. \A i \in 1 .. N : Right(Entry(s[i]), file) /\ Right(Entry(s[i]), file')
    <2>1. \A i \in 1 .. N : Right(Entry(s[i]), file)
      BY <1>2, <1>3, <1>4 DEF RightFrom
    <2>2. \A i \in 1 .. N : SameAt(file, file', Entry(s[i]).path)
      BY <1>1, <1>3, WithFacts
    <2> QED BY <2>1, <2>2 DEF Right, SameAt
  <1>6. /\ Parts(bases, b)' = s /\ FirstPart(b)' = FirstPart(b) /\ Current' = Current
        /\ Together(rel, bases, b, 1)' = Together(rel, bases, b, 1) /\ \A n : Entry(n)' = Entry(n)
    BY <1>1, <1>2, SplitSame DEF Current
  <1>7. RightFrom(b, 2)'
    BY <1>3, <1>5, <1>6 DEF RightFrom
  <1>8. JoinedUpTo(b, 1)'
    <2>1. 1 \in 1 .. N
      BY <1>3
    <2>2. Right(Entry(s[1]), file') /\ Entry(s[1]).path = FirstPart(b)
      BY <1>3, <1>5, <2>1
    <2> QED BY <1>3, <1>6, <2>2 DEF JoinedUpTo, Right
  <1>9. Combining(b)'
    <2>1. part' - 1 = 1 /\ part' <= N + 1
      BY <1>1, <1>3
    <2> QED BY <1>1, <1>2, <1>6, <1>7, <1>8, <2>1 DEF Combining
  <1> QED BY <1>1, <1>3, <1>6, <1>9 DEF CombineState

LEMMA AppendState ==
  ASSUME IInv, AppendPart(TRUE), CombineState(Current), NEW b, b = Current
  PROVE  CombineState(b)'
  <1>1. /\ mpc = "append" /\ mpc' = "remove" /\ UNCHANGED <<rel, bases, todo, part>>
        /\ part <= Len(Parts(bases, b)) /\ PartPath(b, part) \in DOMAIN file
        /\ file' = [file EXCEPT ![FirstPart(b)] = @ \o file[PartPath(b, part)]]
    BY DEF AppendPart, Remaining, plan
  <1>2. PICK s, N : s = Parts(bases, b) /\ N = Len(s)
    OBVIOUS
  <1>3. CombineOK /\ todo # {} /\ part \in Nat /\ part >= 2
    BY <1>1 DEF IInv, CombineOK
  <1>4. /\ b \in todo /\ N \in Nat /\ DOMAIN s = 1 .. N
        /\ \A i \in 1 .. N : PartPath(b, i) = Entry(s[i]).path /\ (PartPath(b, i) = FirstPart(b) => i = 1)
        /\ \A k \in 2 .. N : Together(rel, bases, b, k)
                               = Together(rel, bases, b, k - 1) \o Entry(s[k]).crc
    <2>1. mpc \in {"combine", "append", "remove", "rename"}
      BY <1>1
    <2>2. /\ b \in todo /\ N \in Nat /\ DOMAIN s = 1 .. N
          /\ \A i \in 1 .. N : PartPath(b, i) = FirstPart(b) => i = 1
      BY <1>2, <1>3, <2>1, CurrentParts
    <2>3. \A i \in 1 .. N : PartPath(b, i) = Entry(s[i]).path
      BY <1>2 DEF PartPath
    <2>4. \A k \in 2 .. N : Together(rel, bases, b, k)
                            = Together(rel, bases, b, k - 1) \o Entry(s[k]).crc
      <3>1. b \in bases /\ Parts(bases, b) # <<>> /\ bases \subseteq Listed[rel] /\ rel \in Releases
        BY <1>2, <1>3, <2>1, <2>2 DEF IInv, TypesOK, CombineOK
      <3> QED BY <1>2, <3>1, JoinSteps
    <2> QED BY <2>2, <2>3, <2>4
  <1>5. JoinedUpTo(b, part - 1) /\ RightFrom(b, part)
    BY <1>1, <1>4 DEF CombineState, Combining
  <1>6. part \in 2 .. N /\ part \in 1 .. N
    BY <1>1, <1>2, <1>3, <1>4
  <1>7. file[PartPath(b, part)] = Entry(s[part]).crc
    <2>1. part >= part
      BY <1>3
    <2> QED BY <1>2, <1>4, <1>5, <1>6, <2>1 DEF RightFrom, Right
  <1>8. /\ Parts(bases, b)' = s /\ FirstPart(b)' = FirstPart(b) /\ Current' = Current
        /\ (\A k : Together(rel, bases, b, k)' = Together(rel, bases, b, k))
        /\ \A n : Entry(n)' = Entry(n)
    BY <1>1, <1>2, SplitSame DEF Current
  <1>9. FirstPart(b) \in DOMAIN file' /\ file'[FirstPart(b)] = Together(rel, bases, b, part)
    BY <1>1, <1>4, <1>5, <1>6, <1>7 DEF JoinedUpTo
  <1>10. JoinedUpTo(b, part)'
    <2>1. PICK k : k = part
      OBVIOUS
    <2>2. part' = k /\ Together(rel, bases, b, k)' = Together(rel, bases, b, part)
      BY <1>1, <1>8, <2>1
    <2> QED BY <1>8, <1>9, <2>1, <2>2 DEF JoinedUpTo
  <1>11. RightFrom(b, part + 1)'
    <2>1. ASSUME NEW i \in 1 .. N, i >= part + 1 PROVE Right(Entry(s[i]), file')
      <3>1. i >= part /\ i # 1
        BY <1>3, <2>1
      <3>2. Right(Entry(s[i]), file)
        BY <1>2, <1>4, <1>5, <3>1 DEF RightFrom
      <3>3. Entry(s[i]).path # FirstPart(b)
        BY <1>4, <3>1
      <3> QED BY <1>1, <3>2, <3>3 DEF Right
    <2> QED BY <1>1, <1>4, <1>8, <2>1 DEF RightFrom
  <1>12. Combining(b)'
    BY <1>1, <1>10, <1>11 DEF Combining
  <1> QED BY <1>1, <1>4, <1>8, <1>12 DEF CombineState

LEMMA RemoveState ==
  ASSUME IInv, RemovePart(TRUE), CombineState(Current), NEW b, b = Current
  PROVE  CombineState(b)'
  <1>1. /\ mpc = "remove" /\ mpc' = "append" /\ UNCHANGED <<rel, bases, todo>>
        /\ part' = part + 1 /\ file' = Without(file, PartPath(b, part))
    BY DEF RemovePart, plan
  <1>2. PICK s, N : s = Parts(bases, b) /\ N = Len(s)
    OBVIOUS
  <1>3. CombineOK /\ todo # {} /\ part \in Nat /\ part >= 2 /\ part <= Len(Parts(bases, Current))
    BY <1>1 DEF IInv, CombineOK
  <1>4. /\ b \in todo /\ N \in Nat /\ DOMAIN s = 1 .. N
        /\ \A i \in 1 .. N : PartPath(b, i) = Entry(s[i]).path /\ (PartPath(b, i) = FirstPart(b) => i = 1)
        /\ \A i, j \in 1 .. N : PartPath(b, i) = PartPath(b, j) => i = j
    <2>1. mpc \in {"combine", "append", "remove", "rename"}
      BY <1>1
    <2>2. /\ b \in todo /\ N \in Nat /\ DOMAIN s = 1 .. N
          /\ \A i \in 1 .. N : PartPath(b, i) = FirstPart(b) => i = 1
      BY <1>2, <1>3, <2>1, CurrentParts
    <2>3. \A i, j \in 1 .. N : PartPath(b, i) = PartPath(b, j) => i = j
      <3>1. b \in bases
        BY <1>2, <1>3, <2>1, CurrentParts
      <3>2. rel \in Releases /\ bases \subseteq Listed[rel]
        BY DEF IInv, TypesOK
      <3>3. \A i, j \in DOMAIN s : PartPath(b, i) = PartPath(b, j) => i = j
        BY <1>2, <3>1, <3>2, PartsFacts
      <3> QED BY <2>2, <3>3
    <2>4. \A i \in 1 .. N : PartPath(b, i) = Entry(s[i]).path
      BY <1>2 DEF PartPath
    <2> QED BY <2>2, <2>3, <2>4
  <1>5. JoinedUpTo(b, part) /\ RightFrom(b, part + 1)
    BY <1>1, <1>4 DEF CombineState, Combining
  <1>6. part \in 1 .. N /\ part # 1
    BY <1>2, <1>3, <1>4
  <1>7. \A q : q # PartPath(b, part) => SameAt(file, file', q)
    BY <1>1, WithFacts
  <1>8. /\ Parts(bases, b)' = s /\ FirstPart(b)' = FirstPart(b) /\ Current' = Current
        /\ (\A k : Together(rel, bases, b, k)' = Together(rel, bases, b, k))
        /\ \A n : Entry(n)' = Entry(n)
    BY <1>1, <1>2, SplitSame DEF Current
  <1>9. FirstPart(b) \in DOMAIN file' /\ file'[FirstPart(b)] = Together(rel, bases, b, part)
    BY <1>4, <1>5, <1>6, <1>7 DEF JoinedUpTo, SameAt
  <1>10. JoinedUpTo(b, part - 1)'
    <2>1. PICK k : k = part
      OBVIOUS
    <2>2. (part - 1)' = k
      BY <1>1, <1>3, <2>1
    <2> QED BY <1>8, <1>9, <2>1, <2>2 DEF JoinedUpTo
  <1>11. RightFrom(b, part)'
    <2>1. ASSUME NEW i \in 1 .. N, i >= part + 1 PROVE Right(Entry(s[i]), file')
      <3>1. i # part
        BY <1>3, <2>1
      <3>2. Right(Entry(s[i]), file)
        BY <1>2, <1>4, <1>5, <2>1 DEF RightFrom
      <3>3. Entry(s[i]).path # PartPath(b, part)
        BY <1>4, <1>6, <3>1
      <3> QED BY <1>7, <3>2, <3>3 DEF Right, SameAt
    <2> QED BY <1>1, <1>4, <1>8, <2>1 DEF RightFrom
  <1>12. Combining(b)'
    <2>1. part' <= N + 1
      BY <1>1, <1>4, <1>6
    <2> QED BY <1>1, <1>2, <1>8, <1>10, <1>11, <2>1 DEF Combining
  <1> QED BY <1>1, <1>4, <1>8, <1>12 DEF CombineState

LEMMA AppendedState ==
  ASSUME IInv, AllAppended, CombineState(Current), NEW b, b = Current
  PROVE  CombineState(b)'
  <1>1. /\ mpc = "append" /\ mpc' = "rename" /\ UNCHANGED <<rel, bases, todo, file>>
        /\ ~(part <= Len(Parts(bases, b)))
    BY DEF AllAppended, Remaining, plan, disk
  <1>2. PICK N : N = Len(Parts(bases, b))
    OBVIOUS
  <1>3. CombineOK /\ todo # {} /\ part \in Nat
    BY <1>1 DEF IInv, CombineOK
  <1>4. b \in todo /\ N \in Nat
    BY <1>1, <1>2, <1>3, CurrentParts
  <1>5. JoinedUpTo(b, part - 1) /\ part <= N + 1
    BY <1>1, <1>2, <1>4 DEF CombineState, Combining
  <1>6. part - 1 = N
    BY <1>1, <1>2, <1>3, <1>4, <1>5
  <1>7. /\ Len(Parts(bases, b))' = N /\ FirstPart(b)' = FirstPart(b) /\ Current' = Current
        /\ Together(rel, bases, b, N)' = Together(rel, bases, b, N)
    BY <1>1, <1>2, SplitSame DEF Current
  <1>8. JoinedUpTo(b, N)
    BY <1>5, <1>6
  <1>9. JoinedUpTo(b, N)'
    BY <1>1, <1>7, <1>8 DEF JoinedUpTo
  <1>10. JoinedUpTo(b, Len(Parts(bases, b)))'
    BY <1>1, <1>7, <1>8 DEF JoinedUpTo
  <1> QED BY <1>1, <1>4, <1>7, <1>10 DEF CombineState, Combining

LEMMA RenameState ==
  ASSUME IInv, RenameFirst(TRUE), CombineState(Current), NEW b, b = Current
  PROVE  CombineState(b)'
  <1>1. PICK g : g = With(file, b, file[FirstPart(b)])
    OBVIOUS
  <1>2. /\ mpc = "rename" /\ todo' = todo \ {b} /\ UNCHANGED <<rel, bases>>
        /\ file' = Without(g, FirstPart(b))
    BY <1>1 DEF RenameFirst, plan
  <1>3. PICK N : N = Len(Parts(bases, b))
    OBVIOUS
  <1>4. todo # {}
    BY <1>2 DEF IInv, CombineOK
  <1>5. b \in todo /\ b # FirstPart(b) /\ Together(rel, bases, b, N) = Whole(rel, b)
    BY <1>2, <1>3, <1>4, CurrentParts
  <1>6. file[FirstPart(b)] = Whole(rel, b)
    BY <1>2, <1>3, <1>5 DEF CombineState, Combining, JoinedUpTo
  <1>7. b \in DOMAIN g /\ g[b] = Whole(rel, b)
    <2>1. PICK v : v = file[FirstPart(b)]
      OBVIOUS
    <2>2. DOMAIN g = DOMAIN file \union {b} /\ g[b] = v
      BY <1>1, <2>1 DEF With
    <2> QED BY <1>6, <2>1, <2>2
  <1>8. SameAt(g, file', b)
    BY <1>2, <1>5, WithFacts
  <1>9. Whole(rel, b)' = Whole(rel, b)
    BY <1>2, SplitSame
  <1>10. Brought(b)'
    BY <1>7, <1>8, <1>9 DEF Brought, SameAt
  <1> QED BY <1>2, <1>10 DEF CombineState

LEMMA CombinesState ==
  ASSUME IInv, Combines, ~Fault, NEW b \in bases, CombineState(b)
  PROVE  CombineState(b)'
  <1>1. CASE b # Current
    BY <1>1, OtherState
  <1>2. CASE b = Current
    <2>1. ~StartFails /\ ~AppendFails
      BY DEF StartFails, AppendFails
    <2>2. ASSUME NEW ok \in BOOLEAN, AppendPart(ok) \/ RemovePart(ok) \/ RenameFirst(ok)
          PROVE  ok = TRUE
      BY <2>2 DEF AppendPart, RemovePart, RenameFirst
    <2> QED BY <1>2, <2>1, <2>2, SkipState, StartState, AppendState, RemoveState, AppendedState,
               RenameState DEF Combines
  <1> QED BY <1>1, <1>2

--------------------------------------------------------------------------------
(* The main thread *)

LEMMA StartSplit ==
  ASSUME IInv, StartThreads, NEW b \in bases, Sure(b)
  PROVE  ToFetch(b)' \/ ToKeep(b)'
  <1>1. /\ UNCHANGED <<rel, bases, file, tmp>> /\ queue' = Queue(bases)
        /\ \A t \in Workers : pc'[t] \in Resting
    BY DEF StartThreads, disk
  <1>2. rel \in Releases /\ bases \subseteq Listed[rel]
    BY DEF IInv, TypesOK
  <1>3. ToSet(Parts(bases, b)) = PartSet(b)
    BY <1>2, PartsInOrder DEF SortedOk
  <1>4. \A t \in Workers : ~Active(t)'
    BY <1>1 DEF Active
  <1>5. /\ PartSet(b)' = PartSet(b) /\ Whole(rel, b)' = Whole(rel, b)
        /\ \A n : Entry(n)' = Entry(n)
    BY <1>1, SplitSame
  <1>6. ASSUME PartSet(b) # {},
               \A n \in PartSet(b) : Entry(n).path \notin Blacklisted /\ TRUE \notin InBase(n) /\ ~Resumed(n)
        PROVE  ToFetch(b)'
    <2>1. ASSUME NEW n \in PartSet(b)
          PROVE  TRUE \notin InBase(n)' /\ Waiting(n, 1)' /\ InWork(n, 1)' /\ Done(n, 1)'
      <3>1. InBase(n)' = InBase(n)
        BY <1>1, InBaseSame DEF SameAt
      <3>2. n \in DOMAIN Entries[rel] /\ Installable(n)
        BY DEF PartSet, IsPart, Installable
      <3>3. n \in ToSet(queue')
        BY <1>1, <1>2, <1>6, <3>2, QueueFacts
      <3>4. Fresh(Entry(n), tmp)
        BY <1>6 DEF Fresh, Resumed
      <3>5. Good(1, Entry(n), file, tmp)
        BY <3>4 DEF Good
      <3> QED BY <1>1, <1>4, <1>5, <1>6, <3>1, <3>3, <3>5 DEF Waiting, InWork, Done
    <2> QED BY <1>5, <1>6, <2>1 DEF ToFetch
  <1>7. ASSUME Brought(b), Missing(b) PROVE ToKeep(b)'
    BY <1>1, <1>4, <1>5, <1>7 DEF ToKeep, Brought, Missing
  <1> QED BY <1>3, <1>6, <1>7 DEF Sure, Brought, Missing

LEMMA JoinSplit ==
  ASSUME IInv, JoinThreads, queue = <<>>, NEW b \in bases, ToFetch(b) \/ ToKeep(b)
  PROVE  CombineState(b)'
  <1>1. /\ AllFinished /\ mpc' = "combine" /\ todo' = {c \in bases : Parts(bases, c) # <<>>}
        /\ UNCHANGED <<rel, bases, file>>
    BY DEF JoinThreads, plan, disk
  <1>2. TypesOK /\ \A t \in Workers : ~Active(t)
    BY <1>1 DEF IInv, AllFinished, Active
  <1>3. PartSet(b) # {}
    BY DEF ToFetch, ToKeep, Missing
  <1>4. b \in todo'
    BY <1>1, <1>2, <1>3, PartOfBase
  <1>5. ASSUME ToFetch(b) PROVE RightFrom(b, 1)
    <2>1. \A i \in DOMAIN Parts(bases, b) : Parts(bases, b)[i] \in PartSet(b)
      BY <1>2, PartOfBase
    <2>2. ASSUME NEW n \in PartSet(b) PROVE Right(Entry(n), file)
      <3>1. n \notin ToSet(queue)
        BY DEF ToSet
      <3>2. Good(OneMore(1), Entry(n), file, tmp)
        BY <1>2, <1>5, <3>1 DEF ToFetch, Done
      <3>3. OneMore(1) = 2
        BY DEF OneMore
      <3> QED BY <3>2, <3>3 DEF Good
    <2> QED BY <2>1, <2>2 DEF RightFrom
  <1>6. RightFrom(b, 1) \/ (Brought(b) /\ Missing(b))
    BY <1>5 DEF ToKeep
  <1>7. (RightFrom(b, 1) \/ (Brought(b) /\ Missing(b)))'
    BY <1>1, <1>6, SplitSame DEF RightFrom, Brought, Missing
  <1> QED BY <1>1, <1>4, <1>7 DEF CombineState

\* A step that changes nothing.
LEMMA StillSplit ==
  ASSUME UNCHANGED vars, SplitOK
  PROVE  SplitOK'
  <1>1. UNCHANGED <<rel, bases, file, tmp, mpc, sure, dirty, clean, queue, pc, item, resume, todo, part>>
    BY DEF vars, disk, plan, threads, history
  <1>2. /\ \A n : Entry(n)' = Entry(n) /\ BytesOf(n)' = BytesOf(n)
        /\ \A b : /\ Parts(bases, b)' = Parts(bases, b) /\ PartSet(b)' = PartSet(b)
                  /\ Whole(rel, b)' = Whole(rel, b) /\ FirstPart(b)' = FirstPart(b)
        /\ \A b, k : Together(rel, bases, b, k)' = Together(rel, bases, b, k)
    BY <1>1, SplitSame DEF BytesOf
  <1>3. \A n : InBase(n)' = InBase(n)
    BY <1>1, InBaseSame DEF SameAt
  <1>4. \A b : ToFetch(b)' <=> ToFetch(b)
    BY <1>1, <1>2, <1>3 DEF ToFetch, Waiting, InWork, Done, Active
  <1>5. \A b : (ToKeep(b)' <=> ToKeep(b)) /\ (Brought(b)' <=> Brought(b)) /\ (Missing(b)' <=> Missing(b))
    BY <1>1, <1>2 DEF ToKeep, Brought, Missing, Active
  <1>6. ASSUME NEW b PROVE CombineState(b)' <=> CombineState(b)
    <2>1. \A k : (RightFrom(b, k)' <=> RightFrom(b, k)) /\ (JoinedUpTo(b, k)' <=> JoinedUpTo(b, k))
      BY <1>1, <1>2 DEF RightFrom, JoinedUpTo
    <2>2. Current' = Current /\ (part - 1)' = part - 1 /\ (part + 1)' = part + 1
          /\ Len(Parts(bases, b))' = Len(Parts(bases, b))
      BY <1>1, <1>2 DEF Current
    <2>3. Combining(b)' <=> Combining(b)
      BY <1>1, <1>2, <2>1, <2>2 DEF Combining, RightFrom, JoinedUpTo
    <2>4. RightFrom(b, 1)' <=> RightFrom(b, 1)
      BY <1>1, <1>2 DEF RightFrom
    <2> QED BY <1>1, <1>5, <2>2, <2>3, <2>4 DEF CombineState
  <1> QED BY <1>1, <1>4, <1>5, <1>6 DEF SplitOK

\* A step that makes a thread.
LEMMA CreationSplit ==
  ASSUME TypesOK, Creation, SplitOK
  PROVE  SplitOK'
  <1>1. CreationStep
    BY CreationFacts
  <1>2. /\ \A n : Entry(n)' = Entry(n) /\ BytesOf(n)' = BytesOf(n)
        /\ \A b : PartSet(b)' = PartSet(b) /\ Whole(rel, b)' = Whole(rel, b)
    BY <1>1, SplitSame DEF CreationStep, BytesOf
  <1>3. \A n : InBase(n)' = InBase(n)
    BY <1>1, InBaseSame DEF CreationStep, SameAt
  <1>4. \A t \in Workers : (Active(t)' <=> Active(t)) /\ (Active(t) => pc'[t] = pc[t])
    BY <1>1 DEF CreationStep, Active
  <1>5. \A n : /\ Waiting(n, 1)' <=> Waiting(n, 1)
               /\ InWork(n, 1)' <=> InWork(n, 1)
               /\ Done(n, 1)' <=> Done(n, 1)
    BY <1>1, <1>2, <1>4 DEF CreationStep, Waiting, InWork, Done
  <1>6. \A b : ToFetch(b)' <=> ToFetch(b)
    BY <1>2, <1>3, <1>5 DEF ToFetch
  <1>7. \A b : ToKeep(b)' <=> ToKeep(b)
    BY <1>1, <1>2, <1>4 DEF CreationStep, ToKeep, Brought, Missing
  <1> QED BY <1>1, <1>6, <1>7 DEF CreationStep, SplitOK

LEMMA SplitOthers ==
  ASSUME IInv, PlainOK, SplitOK, Publish \/ Crash \/ Start \/ Main \/ UNCHANGED vars
  PROVE  SplitOK'
  <1>1. TypesOK
    BY DEF IInv
  <1>2. ASSUME dirty', clean' = 0 PROVE SplitOK'
    BY <1>2 DEF SplitOK
  <1>3. CASE Publish \/ Crash
    BY <1>2, <1>3 DEF Publish, Crash, Fault
  <1>4. ASSUME Fault PROVE SplitOK'
    BY <1>2, <1>4 DEF Fault
  <1>5. ASSUME NEW known \in BOOLEAN, Begin(known) PROVE SplitOK'
    <2>1. mpc' = "queue"
      BY <1>5 DEF Begin
    <2> QED BY <2>1 DEF SplitOK
  <1>6. CASE StartThreads
    <2>1. mpc' \in Threaded /\ UNCHANGED bases /\ sure' = {b \in bases : Sure(b)}
      BY <1>6 DEF StartThreads
    <2>2. \A b \in sure' : ToFetch(b)' \/ ToKeep(b)'
      BY <1>6, <2>1, StartSplit
    <2> QED BY <2>1, <2>2 DEF SplitOK
  <1>7. CASE JoinThreads
    <2>1. mpc = "print" /\ mpc' = "combine" /\ AllFinished /\ UNCHANGED <<bases, sure, dirty, clean>>
      BY <1>7 DEF JoinThreads, plan, history
    <2>2. ASSUME ~dirty PROVE sure \subseteq bases /\ \A b \in sure : CombineState(b)'
      <3>1. sure \subseteq bases /\ \A b \in sure : ToFetch(b) \/ ToKeep(b)
        BY <2>1, <2>2 DEF SplitOK
      <3>2. 1 \in 1 .. started /\ 1 \in Workers
        <4>1. started \in 0 .. Threads /\ Threads \in Nat /\ started > 0
          BY <1>1, <2>1, CountsAssumption DEF TypesOK, AllFinished
        <4> QED BY <4>1 DEF Workers
      <3>3. queue = <<>>
        BY <2>1, <2>2, <3>2 DEF PlainOK, AllFinished
      <3> QED BY <1>7, <3>1, <3>3, JoinSplit
    <2> QED BY <2>1, <2>2 DEF SplitOK
  <1>8. ASSUME Combines, ~Fault PROVE SplitOK'
    <2>1. /\ mpc \in {"combine", "append", "remove", "rename"}
          /\ mpc' \in {"combine", "append", "remove", "rename"}
          /\ UNCHANGED <<bases, sure, dirty, clean>>
      BY <1>8 DEF Combines, SkipBase, StartCombining, StartFails, AppendFails, AllAppended, AppendPart,
                  RemovePart, RenameFirst, plan, history
    <2>2. ~dirty => sure \subseteq bases /\ \A b \in sure : CombineState(b)
      BY <2>1 DEF SplitOK
    <2>3. ~dirty => \A b \in sure : CombineState(b)'
      BY <1>8, <2>2, CombinesState
    <2> QED BY <2>1, <2>2, <2>3 DEF SplitOK
  <1>9. CASE End
    <2>1. /\ mpc = "combine" /\ mpc' = "idle" /\ todo = {} /\ UNCHANGED <<rel, sure, dirty, file>>
          /\ dirty => clean' = 0
      BY <1>9 DEF End, plan, disk
    <2>2. CASE dirty
      BY <1>2, <2>1, <2>2
    <2>3. CASE ~dirty
      <3>1. \A b \in sure : Brought(b)
        BY <2>1, <2>3 DEF SplitOK, CombineState
      <3>2. \A b \in sure : Brought(b)'
        BY <2>1, <3>1 DEF Brought
      <3> QED BY <2>1, <3>2 DEF SplitOK
    <2> QED BY <2>2, <2>3
  <1>10. CASE PrintProgress \/ UNCHANGED vars
    BY <1>10, StillSplit DEF PrintProgress
  <1>11. CASE Creation
    BY <1>1, <1>11, CreationSplit
  <1> QED BY <1>3, <1>4, <1>5, <1>6, <1>7, <1>8, <1>9, <1>10, <1>11
          DEF Start, Main, Combines, Creation

LEMMA InitSplit == Init => SplitOK
  BY DEF Init, SplitOK

LEMMA NextSplit == IInv /\ PlainOK /\ SplitOK /\ [Next]_vars => SplitOK'
  BY SplitWorker, SplitOthers DEF Next

\* A run without failures, crashes and new releases brings every split file of
\* which it finds no part in the old base file and none half transferred: each
\* part is downloaded and extracted whole, and CombineSplitFiles joins them in
\* their order.  A right base file is kept while a part is missing.
THEOREM SplitFilesCorrect == Spec => []SplitFilesRight
  <1>1. SplitOK => SplitFilesRight
    BY DEF SplitOK, SplitFilesRight, Brought
  <1> QED BY <1>1, InitInv, NextInv, InitPlain, NextPlain, InitSplit, NextSplit, PTL DEF Spec
================================================================================
