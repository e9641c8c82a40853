------------------------------- MODULE GameFiles -------------------------------
(***************************************************************************)
(* The files of a product: what is taken from the answers of the API       *)
(* (galaxyAPI::productInfoJsonToGameDetails), how it is filtered           *)
(* (gameDetails) and what the cache gives back of it                       *)
(* (getGameDetailsFromJsonNode).                                           *)
(*                                                                         *)
(* A product is [installer, patch, langpack, extra: Seq(node), dlcs:       *)
(* Seq(slug)], a node [os, language, count, files: Seq(path)].  An entry   *)
(* (gameDetails) is [game, lists, dlcs], where lists has a set of files    *)
(* for each kind and dlcs is a set of entries: what is done with them does *)
(* not depend on their order.  Bit masks are sets.                         *)
(***************************************************************************)
EXTENDS Integers, Sequences, SequencesExt

CONSTANTS
  Products,  \* Products[slug], base games and DLCs
  Specific   \* game-specific configurations: a function on some slugs

Kinds == {"installer", "patch", "langpack", "extra"}
Levels == {"base", "dlc"}

\* A configuration: [names (that the regular expression finds), include,
\* platforms, languages, platformPriority, languagePriority, duplicates].
Includes(conf, kind) == \E level \in Levels : <<kind, level>> \in conf.include
IncludesDLC(conf) == \E kind \in Kinds : <<kind, "dlc">> \in conf.include

\* Util::getGameSpecificConfig
ConfOf(slug, conf) == IF slug \in DOMAIN Specific THEN Specific[slug] ELSE conf

--------------------------------------------------------------------------------
(* From the answers of the API *)

\* Left out: nodes of other platforms and languages, and those without files,
\* whose count and total_size are 0 (taken together as the count).
Selected(node, kind, conf) ==
  /\ kind = "extra" \/ (node.os \in conf.platforms /\ node.language \in conf.languages)
  /\ node.count > 0

FileOf(node, path, kind, level) ==
  [path |-> path, type |-> <<kind, level>>,
   platform |-> IF kind = "extra" THEN "windows" ELSE node.os,
   languages |-> {IF kind = "extra" THEN "en" ELSE node.language}]

\* The files a list asks a downlink for, in order.
Candidates(slug, kind, level, conf) ==
  FlattenSeq([i \in DOMAIN Products[slug][kind] |->
    LET node == Products[slug][kind][i]
    IN IF Includes(conf, kind) /\ Selected(node, kind, conf)
         THEN [j \in DOMAIN node.files |-> FileOf(node, node.files[j], kind, level)]
         ELSE <<>>])

\* The requests for a game: its product information, that of its DLCs, and the
\* downlink of a file.
Info == [of |-> "product"]
DLCInfo == [of |-> "DLCs"]
Downlink(f) == [file |-> f]

\* bDuplicateHandler: one path for several languages is one file, the first.
Merged(files, same) ==
  [files[Min(same)] EXCEPT !.languages = UNION {files[i].languages : i \in same}]

\* fileJsonNodeToGameFileVector: a file without a downlink is left out.
FileVector(slug, kind, level, conf, lost) ==
  LET files == Candidates(slug, kind, level, conf)
      held == {k \in DOMAIN files : Downlink(files[k]) \notin lost}
  IN IF ~conf.duplicates THEN {files[k] : k \in held}
     ELSE {Merged(files, {i \in held : files[i].path = files[k].path}) : k \in held}

Lists(slug, level, conf, lost) ==
  [kind \in Kinds |-> FileVector(slug, kind, level, conf, lost)]

HasFiles(lists) == \E kind \in Kinds : lists[kind] # {}

\* DLCs that are owned, if it is known which are, and have files.
DLCs(slug, conf, owned, lost) ==
  IF ~IncludesDLC(conf) \/ DLCInfo \in lost THEN {}
  ELSE {d \in {[game |-> name, lists |-> Lists(name, "dlc", conf, lost), dlcs |-> {}] :
                  name \in ToSet(Products[slug].dlcs)} :
          (owned = {} \/ d.game \in owned) /\ HasFiles(d.lists)}

\* productInfoJsonToGameDetails; without product information the entry has
\* neither a name nor files.
NoName == "no name"
Details(slug, conf, owned, lost) ==
  IF Info \in lost
    THEN [game |-> NoName, lists |-> [kind \in Kinds |-> {}], dlcs |-> {}]
    ELSE [game |-> slug, lists |-> Lists(slug, "base", conf, lost),
          dlcs |-> DLCs(slug, conf, owned, lost)]

--------------------------------------------------------------------------------
(* Filters *)

\* The place of the first priority that matches, counted from 0; 0 if none does.
Place(matching) == IF matching = {} THEN 0 ELSE Min(matching) - 1

Score(f, conf) ==
  Place({n \in DOMAIN conf.platformPriority : f.platform \in conf.platformPriority[n]})
    + Place({n \in DOMAIN conf.languagePriority :
               f.languages \intersect conf.languagePriority[n] # {}})

\* filterListWithPriorities: the files with the lowest score, all of them.
Best(files, conf) == {f \in files : \A g \in files : Score(f, conf) <= Score(g, conf)}

FilterLists(lists, conf) ==
  [kind \in Kinds |->
     {f \in IF kind = "extra" THEN lists[kind] ELSE Best(lists[kind], conf) :
        f.type \in conf.include}]

\* filterWithPriorities, then filterWithType.
Filtered(entry, conf) ==
  [entry EXCEPT !.lists = FilterLists(@, conf),
                !.dlcs = {[d EXCEPT !.lists = FilterLists(@, conf)] : d \in @}]

\* getGameFileVector, as a set of paths
ListPaths(lists) == UNION {{f.path : f \in lists[kind]} : kind \in Kinds}
Paths(entry) == ListPaths(entry.lists) \union UNION {ListPaths(d.lists) : d \in entry.dlcs}

--------------------------------------------------------------------------------
(* The cache: getDetailsAsJson keeps all of an entry, getGameDetailsFromJsonNode *)
(* takes from it what the configuration asks for.                               *)

LoadedLists(lists, conf) ==
  [kind \in Kinds |->
     {f \in lists[kind] :
        /\ Includes(conf, kind)
        /\ kind = "extra" \/ (f.platform \in conf.platforms
                               /\ f.languages \intersect conf.languages # {})}]

\* Mutant: the priorities are not applied to what comes from the cache.
LoadedUnfiltered(entry, dlcs, conf) ==
  [game |-> entry.game, lists |-> LoadedLists(entry.lists, conf), dlcs |-> dlcs]

LoadedNode(entry, dlcs, conf) ==
  Filtered([game |-> entry.game, lists |-> LoadedLists(entry.lists, conf), dlcs |-> dlcs], conf)

\* A DLC is a node of its own, with the configuration of its own name.
LoadedDLCs(entry, conf) ==
  IF ~IncludesDLC(ConfOf(entry.game, conf)) THEN {}
  ELSE {LoadedNode(d, {}, ConfOf(d.game, conf)) :
          d \in {e \in entry.dlcs : HasFiles(LoadedLists(e.lists, ConfOf(e.game, conf)))}}

\* The games of a cache: those whose name is found and that have a file; no
\* entry without a name has one.
Loaded(entries, conf) ==
  LET wanted == {e \in entries :
        /\ e.game \in conf.names
        /\ HasFiles(LoadedLists(e.lists, ConfOf(e.game, conf))) \/ LoadedDLCs(e, conf) # {}}
  IN {LoadedNode(e, LoadedDLCs(e, conf), ConfOf(e.game, conf)) : e \in wanted}
================================================================================
