---------------------------- MODULE MCDownloadQueue ----------------------------
(* Instances of DownloadQueue for TLC. *)
EXTENDS DownloadQueue

MCSize == [f \in Files |-> f - 1]     \* file 1: a size that cannot be parsed
MCFreeSpaces == {2, 10}                \* too little, enough
MCXMLFiles == {f \in Files : f % 2 = 0}
================================================================================
