----------------------------- MODULE MCLinuxInstall -----------------------------
(* Instances of LinuxInstall for TLC. *)
EXTENDS LinuxInstall

File(p, kind, base, n, stored, data) ==
  [path |-> p, kind |-> kind, base |-> base, part |-> n, stored |-> stored, data |-> data]
Plain(p, stored, data) == File(p, "file", "", 0, stored, data)
SplitPart(p, n, stored, data) == File(p, "file", "pak", n, stored, data)
Installer(script, binary, files) == [script |-> script, binary |-> binary, files |-> files]

\* With TailSize = 6, MaxOffset = 5 and MaxCount = 6: release 1 has a directory
\* that begins before the tail, a zip64 end record and offsets that do not
\* fit; release 2 a second installer whose directory is the tail up to one cell.
Release1 ==
  << Installer(1, 2, << Plain("readme", TRUE, <<11>>), Plain("data", FALSE, <<21, 22>>),
       SplitPart("pak.split2", 2, TRUE, <<35, 36, 39>>), SplitPart("pak.split1", 1, TRUE, <<31>>),
       File("run", "link", "", 0, TRUE, <<51>>), File("meta", "other", "", 0, TRUE, <<61>>) >>) >>

Release2 ==
  << Installer(2, 1, << Plain("data", FALSE, <<23, 24>>),
       SplitPart("pak.split1", 1, TRUE, <<31>>), SplitPart("pak.split2", 2, TRUE, <<37, 38, 40>>) >>),
     Installer(1, 1, << Plain("manual", TRUE, <<71>>), Plain("readme", TRUE, <<12>>) >>) >>

Release3 ==
  << Installer(1, 1, << SplitPart("pak.split1", 1, TRUE, <<32>>),
       SplitPart("pak.split2", 2, TRUE, <<35, 36, 39>>) >>) >>

\* A second game, installed with two threads: three files, then nothing but a
\* blacklisted one.
Release4 ==
  << Installer(1, 1, << Plain("readme", TRUE, <<11>>), SplitPart("pak.split1", 1, TRUE, <<31>>),
       SplitPart("pak.split2", 2, TRUE, <<35>>) >>) >>
Release5 == << Installer(1, 1, << Plain("manual", TRUE, <<71>>) >>) >>

MCInstallers == <<Release1, Release2, Release3, Release4, Release5>>
MCGames == {1, 4}
MCListed == << {"pak"}, {"pak"}, {"pak"}, {"pak"}, {} >>
MCThreadsFor == <<1, 1, 1, 2, 2>>
================================================================================
