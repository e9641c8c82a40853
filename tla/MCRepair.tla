-------------------------------- MODULE MCRepair --------------------------------
(* Instances of Repair for TLC. *)
EXTENDS Repair

MCSizeOf == [g \in Files |-> IF g = 1 THEN 3 ELSE 2]

\* Missing or empty, cut short, whole, with one corrupt chunk.
MCInitialDisk ==
  [g \in Files |->
    {<<>>, <<1>>, Whole(g)} \union
    {[Whole(g) EXCEPT ![i] = 0] : i \in 1 .. SizeOf[g]}]
================================================================================
