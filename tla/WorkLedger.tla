------------------------------ MODULE WorkLedger ------------------------------
(***************************************************************************)
(* What Downloader::download promises about the files it was given, with   *)
(* no threads, no queue and no statuses in it: a file is taken up at most  *)
(* once, settled by whoever took it up, and the XML that describes a local *)
(* file is made only from a settled file, once no file is being worked on  *)
(* any more.                                                               *)
(***************************************************************************)
CONSTANT Files

VARIABLES
  waiting,    \* files nobody has taken up
  active,     \* files some thread is working on
  settled,    \* files downloaded, skipped or given up
  described,  \* files an XML description was made of
  closed      \* no file is taken up any more

ledger == <<waiting, active, settled, described, closed>>

Init ==
  /\ waiting = Files
  /\ active = {} /\ settled = {} /\ described = {}
  /\ closed = FALSE

Take(f) ==
  /\ ~closed
  /\ f \in waiting
  /\ waiting' = waiting \ {f}
  /\ active' = active \union {f}
  /\ UNCHANGED <<settled, described, closed>>

Settle(f) ==
  /\ f \in active
  /\ active' = active \ {f}
  /\ settled' = settled \union {f}
  /\ UNCHANGED <<waiting, described, closed>>

Close ==
  /\ active = {}
  /\ closed' = TRUE
  /\ UNCHANGED <<waiting, active, settled, described>>

Describe(f) ==
  /\ closed
  /\ f \in settled
  /\ described' = described \union {f}
  /\ UNCHANGED <<waiting, active, settled, closed>>

Next == Close \/ \E f \in Files : Take(f) \/ Settle(f) \/ Describe(f)

Spec == Init /\ [][Next]_ledger
===============================================================================
