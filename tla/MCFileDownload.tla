----------------------------- MODULE MCFileDownload -----------------------------
(* Instances of FileDownload and CheckStatus for TLC. *)
EXTENDS CheckStatus

MCSizeOf == <<2, 3, 2>>

Opt(remote, sizeOnly, auto, trust) ==
  [remoteXML |-> remote, sizeOnly |-> sizeOnly, automaticXML |-> auto,
   trustAPI |-> trust]

MCOptions ==
  [installer |-> {Opt(TRUE, FALSE, auto, FALSE) : auto \in BOOLEAN},
   extra |-> {Opt(TRUE, FALSE, TRUE, trust) : trust \in BOOLEAN}]
================================================================================
