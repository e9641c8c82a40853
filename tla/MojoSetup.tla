------------------------------- MODULE MojoSetup -------------------------------
(***************************************************************************)
(* Where the files of a Linux installer are.  The installer is a shell     *)
(* script, a binary and a ZIP archive; mojoSetupGetFileVector reads its    *)
(* first and last bytes only, and finds from the central directory of the  *)
(* archive the range of every file, which is then downloaded by itself.    *)
(*                                                                         *)
(* An installer is a sequence of cells, at offsets 0, 1, ...: a local      *)
(* header, a piece of compressed data, a record of the central directory   *)
(* are a cell each.  The script is shorter than the head that is read.     *)
(***************************************************************************)
EXTENDS Integers, Sequences, SequencesExt

CONSTANTS
  TailSize,   \* tail_size
  MaxOffset,  \* UINT32_MAX: the value is in the zip64 record
  MaxCount    \* UINT16_MAX

\* The tail holds the end records at least (it is 200 KiB).
ASSUME FieldsAssumption ==
  TailSize \in Nat \ {0, 1} /\ {MaxOffset, MaxCount} \subseteq Nat \ {0}

\* An installer: [script, binary: sizes, files: Seq(file)], a file being
\* [path, kind, base, part, stored, data] with its compressed data in pieces;
\* part is the rank of the path among the split files of the release.
\* A deflated piece gives two blocks of the file, a stored one gives one.
Unpack(stored, piece) == IF stored THEN <<piece>> ELSE <<piece, -piece>>
Content(f) == FlattenSeq([i \in DOMAIN f.data |-> Unpack(f.stored, f.data[i])])

IsList(s) == s \in Seq(ToSet(s))
IsFile(f) ==
  /\ f.kind \in {"file", "link", "other"} /\ f.part \in Nat /\ f.stored \in BOOLEAN
  /\ f.data \in Seq(Int \ {0})
IsInstaller(inst) ==
  /\ inst.script \in Nat /\ inst.binary \in Nat
  /\ IsList(inst.files) /\ \A k \in DOMAIN inst.files : IsFile(inst.files[k])

--------------------------------------------------------------------------------
(* The installer on the server *)

Piece(d) == [kind |-> "data", value |-> d]
Header(f) == [kind |-> "header", stored |-> f.stored, content |-> Content(f)]
Local(f) == <<Header(f)>> \o [i \in DOMAIN f.data |-> Piece(f.data[i])]
Archive(fs) == FlattenSeq([k \in DOMAIN fs |-> Local(fs[k])])
LocalOffset(fs, k) == Len(Archive(SubSeq(fs, 1, k - 1)))

\* Fields are narrow: a value that does not fit is replaced by the maximum,
\* and follows in the zip64 extra field or the zip64 end record.
Narrow(n, max) == IF n < max THEN n ELSE max
Overflow(n) == IF n < MaxOffset THEN <<>> ELSE <<n>>

Record(fs, k) ==
  LET f == fs[k] uncomp == Len(Content(f)) comp == Len(f.data) offset == LocalOffset(fs, k)
  IN [kind |-> "cd", path |-> f.path, file |-> f.kind, base |-> f.base, part |-> f.part,
      crc |-> Content(f),
      uncomp |-> Narrow(uncomp, MaxOffset), comp |-> Narrow(comp, MaxOffset),
      offset |-> Narrow(offset, MaxOffset),
      extra |-> Overflow(uncomp) \o Overflow(comp) \o Overflow(offset)]

EndRecord(kind, offset, total) == << [kind |-> kind, offset |-> offset, total |-> total] >>

Image(inst) ==
  LET fs == inst.files
      cd == Len(Archive(fs))
      wide == cd >= MaxOffset \/ Len(fs) >= MaxCount
  IN [i \in 1 .. inst.script + inst.binary |-> [kind |-> "other"]]
       \o Archive(fs)
       \o [k \in DOMAIN fs |-> Record(fs, k)]
       \o (IF wide THEN EndRecord("eocd64", cd, Len(fs)) ELSE <<>>)
       \o EndRecord("eocd", Narrow(cd, MaxOffset), Narrow(Len(fs), MaxCount))

\* The server's answer to a request for the bytes from a up to and including b.
Bytes(image, a, b) == SubSeq(image, a + 1, IF b < Len(image) THEN b + 1 ELSE Len(image))

--------------------------------------------------------------------------------
(* mojoSetupGetFileVector *)

ZipOffset(inst) == inst.script + inst.binary
Tail200(image) == Bytes(image, Len(image) - TailSize, Len(image))

\* The last place of a signature in a stream, 0 if there is none.
EOCD(stream, kind) == SelectLastInSeq(stream, LAMBDA c : c.kind = kind)

\* The narrow value unless it says that it did not fit.
Widened(narrow, max, wide) == IF narrow = max THEN wide ELSE narrow

\* Offset of the central directory in the archive, and its length.
Directory(tail, at, at64) ==
  IF at64 = 0 THEN [offset |-> tail[at].offset, total |-> tail[at].total]
  ELSE [offset |-> Widened(tail[at].offset, MaxOffset, tail[at64].offset),
        total |-> Widened(tail[at].total, MaxCount, tail[at64].total)]

DirectoryOf(tail) == Directory(tail, EOCD(tail, "eocd"), EOCD(tail, "eocd64"))

\* The stream from the directory, at offset cd of the file, on: of the tail,
\* or a download of its own when the directory begins before the tail.
DirectoryStream(image, cd) ==
  IF Len(image) - cd > TailSize THEN Bytes(image, cd, Len(image))
  ELSE SubSeq(Tail200(image), TailSize - (Len(image) - cd) + 1, TailSize)

\* An installer whose tail can be asked for and whose directory is found.
Listable(inst) ==
  \E image \in {Image(inst)} :
    /\ Len(image) >= TailSize
    /\ EOCD(Tail200(image), "eocd") # 0
    /\ LET cd == ZipOffset(inst) + DirectoryOf(Tail200(image)).offset
       IN cd < Len(image) /\ DirectoryStream(image, cd)[1].kind = "cd"

\* readZipCDEntry: the extra field gives, in this order, the values that did
\* not fit.
Wide(c) ==
  LET given(n) == IF n = MaxOffset THEN 1 ELSE 0
      comp == given(c.uncomp) + 1
      offset == comp + given(c.comp)
  IN [uncomp |-> IF c.uncomp = MaxOffset THEN c.extra[1] ELSE c.uncomp,
      comp |-> IF c.comp = MaxOffset THEN c.extra[comp] ELSE c.comp,
      offset |-> IF c.offset = MaxOffset THEN c.extra[offset] ELSE c.offset]

\* Mutant: a range ends at the first byte of the next file.
EndOffsetNext(starts, k, cd) == IF k = Len(starts) THEN cd ELSE starts[k + 1]

\* A file ends where the next one of the directory, or the directory, begins.
EndOffset(starts, k, cd) == IF k = Len(starts) THEN cd - 1 ELSE starts[k + 1] - 1

\* The entry of one record of a directory.
FileEntry(c, wide, url, start, end) ==
  [path |-> c.path, kind |-> c.file, base |-> c.base, part |-> c.part, crc |-> c.crc,
   url |-> url, comp |-> wide.comp, uncomp |-> wide.uncomp, start |-> start, end |-> end]

Entered(cells, starts, cd, url) ==
  [k \in DOMAIN cells |->
     FileEntry(cells[k], Wide(cells[k]), url, starts[k], EndOffset(starts, k, cd))]

\* vFiles for the image of the installer at url, its archive beginning at zip.
Records(image, zip, directory, url) ==
  LET cells == SubSeq(DirectoryStream(image, zip + directory.offset), 1, directory.total)
  IN Entered(cells, [k \in DOMAIN cells |-> Wide(cells[k]).offset + zip],
             zip + directory.offset, url)

FileVector(image, zip, url) == Records(image, zip, DirectoryOf(Tail200(image)), url)

--------------------------------------------------------------------------------
(* extractFile, extractStream *)

\* Extracting the bytes of a range: [ok, out].  Bytes that begin with no local
\* header have no known compression method.  Stored data are copied whatever
\* they are.  Deflated data end by themselves; data that are not those of one
\* file stop with an error somewhere, or do not, and give something else.
Unusable == 0
Blocks(stored, cs) ==
  FlattenSeq([i \in DOMAIN cs |->
    IF cs[i].kind = "data" THEN Unpack(stored, cs[i].value) ELSE <<Unusable>>])

Extractions(s) ==
  IF s = <<>> \/ s[1].kind # "header" THEN {[ok |-> FALSE, out |-> <<>>]}
  ELSE LET blocks == Blocks(s[1].stored, Tail(s))
       IN IF s[1].stored THEN {[ok |-> TRUE, out |-> blocks]}
          ELSE IF IsPrefix(s[1].content, blocks) THEN {[ok |-> TRUE, out |-> s[1].content]}
          ELSE LET right == LongestCommonPrefix({s[1].content, blocks})
               IN {[ok |-> FALSE, out |-> right], [ok |-> TRUE, out |-> right \o <<Unusable>>]}
================================================================================
