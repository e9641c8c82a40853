------------------------------ MODULE CheckStatus ------------------------------
(***************************************************************************)
(* The status check (--status): what Downloader::checkStatus says of a     *)
(* file that runs of FileDownload have left on disk.  It changes nothing.  *)
(*                                                                         *)
(* A hash is the set of the one content it belongs to, the empty string is *)
(* the empty set.                                                          *)
(***************************************************************************)
EXTENDS FileDownload

\* getRemoteFileHash: GOG has XML files of installers and patches, and of language
\* packs, which are left out (they are downloaded as extras are); no hash when
\* one of the requests fails.
RemoteHashes == IF type = "installer" THEN {{}, {Full(server)}} ELSE {{}}

\* Util::getLocalFileHash: of the XML file only with the fast check.
CheckedHash(fastCheck) ==
  IF fastCheck /\ xml.kind # "none"
    THEN IF xml.kind = "ok" THEN {xml.of} ELSE {}
    ELSE {content}

\* total_size of the XML file is there, and not that of the file.
SizeDiffers == xml.kind = "ok" /\ xml.of # <<>> /\ Len(xml.of) # Len(content)

\* Mutant: a hash that matches is enough.
StatusByHash(remote, fastCheck, sizeOnly) ==
  CASE ~exists -> "ND"
    [] remote # {} /\ remote # CheckedHash(fastCheck) -> "MD5"
    [] OTHER -> "OK"

Status(remote, fastCheck, sizeOnly) ==
  CASE ~exists -> "ND"
    [] exists /\ sizeOnly -> IF SizeDiffers THEN "FS" ELSE "OK"
    [] exists /\ ~sizeOnly /\ remote = {} -> "OK"
    [] exists /\ ~sizeOnly /\ remote # {} ->
         IF remote # CheckedHash(fastCheck) THEN "MD5" ELSE IF SizeDiffers THEN "FS" ELSE "OK"
--------------------------------------------------------------------------------
\* Whatever runs, crashes and new versions came before, an installer that is
\* compared with the server's hash is said to be fine only when it is the
\* server's version, all of it, with the fast check too, which does not read
\* the file: the size tells a download that was interrupted.  (The other way
\* round it may be wrong: a whole file next to an XML file of another version
\* is said to be incomplete, or of another hash.)
StatusSound ==
  pc = "idle" =>
    \A remote \in RemoteHashes \ {{}}, fastCheck \in BOOLEAN :
      Status(remote, fastCheck, FALSE) = "OK" => content = Full(server)
================================================================================
