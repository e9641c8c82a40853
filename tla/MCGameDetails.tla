------------------------------ MODULE MCGameDetails ------------------------------
(* Instances of GameDetails for TLC. *)
EXTENDS GameDetails

Node(os, language, count, files) ==
  [os |-> os, language |-> language, count |-> count, files |-> files]
Product(installer, extra, dlcs) ==
  [installer |-> installer, patch |-> <<>>, langpack |-> <<>>, extra |-> extra, dlcs |-> dlcs]

\* One installer for two languages, one for another platform, a node without
\* files; a DLC that is owned.
MCProducts ==
  [witcher |-> Product(<<Node("windows", "en", 1, <<"w.exe">>),
                         Node("windows", "fr", 1, <<"w.exe">>),
                         Node("linux", "en", 1, <<"w.sh">>)>>, <<>>, <<"blood">>),
   blood |-> Product(<<>>, <<Node("windows", "en", 1, <<"art.zip">>)>>, <<>>),
   fez |-> Product(<<Node("linux", "en", 0, <<"f.sh">>),
                     Node("windows", "fr", 1, <<"f.exe">>)>>, <<>>, <<>>)]

Conf(names, include, platforms, languages, platformPriority, languagePriority) ==
  [names |-> names, include |-> include, platforms |-> platforms, languages |-> languages,
   platformPriority |-> platformPriority, languagePriority |-> languagePriority,
   duplicates |-> TRUE]

\* French first, on Windows, of everything (--game is empty, which also a name
\* that is missing matches); English Linux installers and all that belongs to
\* the base games.
MCConfigs ==
  {Conf({"witcher", "fez", NoName}, Kinds \X Levels, {"windows", "linux"}, {"en", "fr"},
        <<>>, <<{"fr"}, {"en"}>>),
   Conf({"witcher"}, Kinds \X {"base"}, {"linux"}, {"en"}, <<>>, <<>>)}

MCSpecific ==
  [fez |-> Conf({}, {<<"installer", "base">>}, {"windows"}, {"en", "de"}, <<>>, <<>>)]
MCNoSpecific == [slug \in {} |-> 0]

MCOne == <<"witcher">>
MCTwo == <<"fez", "witcher">>
MCBought == {"fez"}
MCNone == {}

MCJunk == {Location("witcher", "old.exe")}
================================================================================
