---------------------------- MODULE MCGalaxyInstall ----------------------------
(* Instances of GalaxyInstall for TLC. *)
EXTENDS GalaxyInstall, TLC

CONSTANTS base, dlc

\* Paths: 1 data, 2 the base game's container, 3 .info, 4 and 5 small files,
\* 6 an empty file in build 1 only, 7 the DLC's container, 8 a blacklisted file.
MCContainer == base :> 2 @@ dlc :> 7

\* Build 1 has two depots with a container each: the second one is dropped.
\* Build 2 keeps the second chunk of data and adds a third; its DLC replaces
\* the small file 4 of the base game.
MCManifest ==
  << << [product |-> base,
         files |-> (1 :> <<11, 12>> @@ 2 :> <<41>> @@ 3 :> <<31>> @@ 4 :> <<41>>
                     @@ 8 :> <<81>>),
         slot  |-> 4 :> 1],
        [product |-> base,
         files |-> (2 :> <<51>> @@ 5 :> <<51>> @@ 6 :> <<>>),
         slot  |-> 5 :> 1] >>,
     << [product |-> base,
         files |-> (1 :> <<13, 12, 14>> @@ 2 :> <<42, 52>> @@ 3 :> <<32>> @@ 4 :> <<42>>
                     @@ 5 :> <<52>>),
         slot  |-> (4 :> 1 @@ 5 :> 2)],
        [product |-> dlc,
         files |-> (4 :> <<44>> @@ 7 :> <<44>>),
         slot  |-> 4 :> 1] >> >>
================================================================================
