-------------------------------- MODULE MCDetails --------------------------------
(* The instance of GameDetails for the threads, on which TLC also evaluates  *)
(* ListsRight: it is about data alone, and GameDetailsProofs proves it.      *)
EXTENDS MCGameDetails

ASSUME ListsAssumption == ListsRight
================================================================================
