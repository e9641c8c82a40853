-------------------------- MODULE GalaxyInstallProofs --------------------------
(* Proofs about GalaxyInstall, for any builds of any depots, any black- and  *)
(* ignorelist, any number of threads, of runs, of failures and crashes.      *)
EXTENDS GalaxyInstall, FiniteSetTheorems, DataInduction, TLAPS

--------------------------------------------------------------------------------
(* The inductive invariant *)

\* What a run has decided to do, whatever manifests it has.
PlanOK ==
  /\ DOMAIN items \subseteq Paths
  /\ \A p \in DOMAIN items : items[p] \in Seq(Nat \ {Torn})
  /\ DOMAIN smalls \subseteq Paths \ Containers
  /\ \A p \in DOMAIN smalls :
       smalls[p].at \in Containers /\ smalls[p].slot \in Nat \ {0}
  /\ DOMAIN items \intersect DOMAIN smalls = {}
  /\ ~useSFC => DOMAIN smalls = {} /\ DOMAIN items \intersect Containers = {}

\* With all manifests it is to make the files of the build.
PlanFull ==
  phase # "idle" /\ got = Depots(build) =>
    /\ \A p \in DOMAIN items :
         p \in DOMAIN Full[build] /\ items[p] = Full[build][p]
    /\ Known \ Containers = Wanted[build]
    /\ \A p \in DOMAIN smalls :
         Len(Full[build][p]) = 1 /\ smalls[p].at \in DOMAIN items \union FullMatch

\* What is left to do in each phase; no file that is still to be taken out of
\* its container is there before, and the container is.
TodoOK ==
  /\ phase # "download" => DOMAIN busy = {}
  /\ phase \in {"delete", "orphans"} => todo \intersect Known = {}
  /\ phase = "download" => todo \subseteq DOMAIN items
  /\ phase \in {"delete", "download"} => DOMAIN smalls \intersect DOMAIN disk = {}
  /\ phase = "extract" =>
       /\ todo \subseteq (Containers \intersect DOMAIN disk) \union DOMAIN smalls
       /\ todo \intersect DOMAIN smalls \intersect DOMAIN disk = {}
       /\ \A p \in todo \intersect DOMAIN smalls : smalls[p].at \in todo
  /\ \A p \in DOMAIN busy : Len(Content(p)) <= busy[p]

\* Nothing failed: all manifests were fetched, the containers go when their
\* small files are out, and what else does not belong is in the list to delete.
LeftOK ==
  /\ OnlyTheBuildLeft
  /\ ~dirty /\ phase # "idle" =>
       /\ got = Depots(build)
       /\ phase = "extract" /\ useSFC =>
            Containers \intersect DOMAIN items \intersect DOMAIN disk \subseteq todo
       /\ phase = "orphans" /\ DeleteOrphans =>
            DOMAIN disk \subseteq Wanted[build] \union RelativeMatch \union Ignored \union todo

There(p, c) == p \in DOMAIN disk /\ Len(disk[p]) = Len(c)

\* An item that was done in this run: in the second run in which nothing fails
\* its contents are right too.
Done(p) ==
  There(p, items[p]) /\ (clean > 0 /\ p \in Wanted[build] => disk[p] = items[p])

\* Nothing failed in this run so far, and clean runs before it.
RunOK ==
  /\ clean > 0 => DOMAIN smalls = {}
  /\ phase = "delete" =>
       \A p \in DOMAIN items \intersect Wanted[build] : clean > 0 => There(p, items[p])
  /\ phase = "download" =>
       /\ DOMAIN items # {} => alive > 0
       /\ \A p \in todo \intersect Wanted[build] : clean > 0 => There(p, items[p])
       /\ \A p \in DOMAIN busy :
            /\ Len(Content(p)) = busy[p]
            /\ items[p] = <<>> => p \in DOMAIN disk
            /\ clean > 0 /\ p \in Wanted[build] =>
                 \A i \in 1 .. busy[p] : Content(p)[i] = items[p][i]
       /\ \A p \in DOMAIN items \ (todo \union DOMAIN busy) : Done(p)
  /\ phase \in {"extract", "orphans"} =>
       /\ \A p \in DOMAIN items \ Containers : Done(p)
       /\ \A p \in DOMAIN smalls :
            (p \in DOMAIN disk /\ Len(disk[p]) = 1) \/ (phase = "extract" /\ p \in todo)

RunsOK ==
  /\ TwoRunsSuffice
  /\ phase = "idle" /\ clean > 0 => \A p \in Wanted[build] : There(p, Full[build][p])
  /\ phase # "idle" /\ ~dirty => RunOK

SafeInv == TypeOK /\ PlanOK /\ PlanFull /\ TodoOK

--------------------------------------------------------------------------------
(* Helpers *)

LEMMA MinFact ==
  ASSUME NEW S \in SUBSET Paths, S # {}
  PROVE  Min(S) \in S /\ Min(S) \in Paths
  <1>1. S \in SUBSET Nat
    BY DEF Paths
  <1>2. \E m \in S : \A k \in S : m <= k
    BY <1>1, SmallestElement
  <1> QED BY <1>2 DEF Min

LEMMA WithoutFact ==
  ASSUME NEW g, NEW S
  PROVE  /\ DOMAIN Without(g, S) = DOMAIN g \ S
         /\ \A p \in DOMAIN g \ S : Without(g, S)[p] = g[p]
  BY DEF Without, Restrict

LEMMA FinitePaths ==
  ASSUME NEW S \in SUBSET Paths
  PROVE  IsFiniteSet(S) /\ Cardinality(S) \in Nat /\ (S # {} => Cardinality(S) > 0)
  <1>1. IsFiniteSet(Paths)
    BY OptionsAssumption, FS_Interval DEF Paths
  <1>2. IsFiniteSet(S)
    BY <1>1, FS_Subset
  <1>3. Cardinality(S) \in Nat /\ (Cardinality(S) = 0 <=> S = {})
    BY <1>2, FS_CardinalityType, FS_EmptySet
  <1> QED BY <1>2, <1>3

--------------------------------------------------------------------------------
(* Manifests *)

\* One depot's turn in galaxyGetDepotItemVectorFromJson.
Turn(b, ds, p, before, d) ==
  LET depot == Manifest[b][d]
      offers == d \in ds /\ p \in DOMAIN depot.files
      replaces == /\ depot.product # Base
                  /\ \A e \in before : Manifest[b][e].files[p] # depot.files[p]
  IN IF offers /\ (before = {} \/ replaces) THEN {d} ELSE before

\* What is kept after each turn.
Turns(b, ds, p, g) ==
  /\ g[0] = {}
  /\ \A d \in 1 .. Len(Manifest[b]) : g[d] = Turn(b, ds, p, g[d - 1], d)

\* The recursion in Kept has a solution.
LEMMA KeptRecursion ==
  ASSUME NEW b \in Builds, NEW ds, NEW p
  PROVE  \E g : Kept(b, ds, p) = g[Len(Manifest[b])] /\ Turns(b, ds, p, g)
  <1> DEFINE n == Len(Manifest[b])
             T == SUBSET (1 .. n)
             F == [e \in (1 .. n) \X T |-> Turn(b, ds, p, e[2], e[1])]
             R(g) == g = [d \in 0 .. n |-> IF d = 0 THEN {} ELSE Turn(b, ds, p, g[d - 1], d)]
  <1>1. n \in Nat
    BY ManifestAssumption
  <1>2. F \in [(1 .. n) \X T -> T]
    BY DEF Turn
  <1>3. {} \in T
    OBVIOUS
  <1>4. PICK g \in [0 .. n -> T] :
          g[0] = {} /\ \A d \in 1 .. n : g[d] = F[<<d, g[d - 1]>>]
    <2> HIDE DEF F, T, n
    <2>1. \E g \in [0 .. n -> T] : Continues(g, {}, F, n)
      BY <1>1, <1>2, <1>3, RecursionOnNat
    <2> QED BY <2>1 DEF Continues
  <1>5. ASSUME NEW d \in 1 .. n
        PROVE  F[<<d, g[d - 1]>>] = Turn(b, ds, p, g[d - 1], d)
    <2>1. d - 1 \in 0 .. n
      BY <1>1
    <2>2. g[d - 1] \in T
      BY <2>1
    <2>3. ASSUME NEW t \in T PROVE F[<<d, t>>] = Turn(b, ds, p, t, d)
      <3> HIDE DEF T, n, Turn
      <3> QED OBVIOUS
    <2> HIDE DEF F, T
    <2> QED BY <2>2, <2>3
  <1>6. R(g)
    <2> HIDE DEF F, Turn, T
    <2>1. ASSUME NEW d \in 0 .. n
          PROVE  g[d] = IF d = 0 THEN {} ELSE Turn(b, ds, p, g[d - 1], d)
      <3>1. d # 0 => d \in 1 .. n
        BY <1>1
      <3> QED BY <1>4, <1>5, <3>1
    <2>2. g = [d \in 0 .. n |-> g[d]]
      BY <1>4
    <2> QED BY <2>1, <2>2
  <1>7. R(CHOOSE h : R(h))
    <2> HIDE DEF R
    <2> QED BY <1>6
  <1>8. Kept(b, ds, p) = (CHOOSE h : R(h))[n]
    BY DEF Kept, Turn
  <1>9. PICK h : R(h) /\ Kept(b, ds, p) = h[n]
    <2> HIDE DEF R
    <2> QED BY <1>7, <1>8
  <1>10. h[0] = {} /\ \A d \in 1 .. n : h[d] = Turn(b, ds, p, h[d - 1], d)
    <2> HIDE DEF Turn
    <2>1. 0 \in 0 .. n /\ \A d \in 1 .. n : d \in 0 .. n /\ d # 0
      BY <1>1
    <2> HIDE DEF n
    <2> QED BY <1>9, <2>1
  <1> QED BY <1>9, <1>10 DEF Turns

\* The depot whose item is kept for a path is one that offers it, and there is
\* one if any does.
LEMMA KeptFacts ==
  ASSUME NEW b \in Builds, NEW ds, NEW p
  PROVE  /\ \A d \in Kept(b, ds, p) :
              d \in ds /\ d \in Depots(b) /\ p \in DOMAIN Manifest[b][d].files
         /\ \A d \in ds \intersect Depots(b) :
              p \in DOMAIN Manifest[b][d].files => Kept(b, ds, p) # {}
  <1> DEFINE n == Len(Manifest[b])
  <1> DEFINE Offers(d) == d \in ds /\ d \in Depots(b) /\ p \in DOMAIN Manifest[b][d].files
  <1>1. n \in Nat /\ Depots(b) = 1 .. n
    BY ManifestAssumption
  <1>2. PICK g : Kept(b, ds, p) = g[n] /\ Turns(b, ds, p, g)
    BY KeptRecursion
  <1> DEFINE Good(m) == /\ \A d \in g[m] : Offers(d)
                        /\ \A d \in 1 .. m : Offers(d) => g[m] # {}
             S == {m \in Nat : m <= n => Good(m)}
  <1>3. 0 \in S
    BY <1>2 DEF Turns
  <1>4. ASSUME NEW m \in Nat, m \in S PROVE m + 1 \in S
    <2> SUFFICES ASSUME m + 1 <= n PROVE Good(m + 1)
      OBVIOUS
    <2>1. Good(m) /\ m + 1 \in 1 .. n /\ m + 1 \in Depots(b)
      BY <1>1, <1>4
    <2>2. g[m + 1] = Turn(b, ds, p, g[m], m + 1)
      BY <1>2, <2>1 DEF Turns
    <2>3. /\ (g[m + 1] = {m + 1} /\ Offers(m + 1)) \/ g[m + 1] = g[m]
          /\ Offers(m + 1) => g[m + 1] = {m + 1} \/ g[m] # {}
      BY <2>1, <2>2 DEF Turn
    <2>4. \A d \in 1 .. m + 1 : d \in 1 .. m \/ d = m + 1
      OBVIOUS
    <2> HIDE DEF Offers
    <2> QED BY <2>1, <2>3, <2>4
  <1>5. n \in S
    <2> HIDE DEF S
    <2> QED BY <1>1, <1>3, <1>4, Induction
  <1>6. Good(n)
    BY <1>1, <1>5
  <1> QED BY <1>1, <1>2, <1>6

\* The depot an item is from.
LEMMA SourceFacts ==
  ASSUME NEW b \in Builds, NEW ds, NEW p \in ItemPaths(b, ds)
  PROVE  \E d \in ds \intersect Depots(b) :
           Source(b, ds, p) = Manifest[b][d] /\ p \in DOMAIN Manifest[b][d].files
  <1>1. PICK d : d \in Kept(b, ds, p) /\ d = CHOOSE e \in Kept(b, ds, p) : TRUE
    BY DEF ItemPaths
  <1> QED BY <1>1, KeptFacts DEF Source

\* The items of a build: files of whole chunks; the small ones are one chunk in
\* a container that is itself an item and not a small one.
LEMMA ItemsFacts ==
  ASSUME NEW b \in Builds, NEW ds
  PROVE  /\ DOMAIN Items(b, ds) = ItemPaths(b, ds)
         /\ ItemPaths(b, ds) \subseteq Paths
         /\ \A p \in ItemPaths(b, ds) : Items(b, ds)[p] \in Seq(Nat \ {Torn})
         /\ \A p \in ItemPaths(b, ds) : IsSmall(b, ds, p) =>
              /\ p \notin Containers
              /\ Len(Items(b, ds)[p]) = 1
              /\ Small(b, ds, p).at \in Containers \intersect ItemPaths(b, ds)
              /\ Small(b, ds, p).slot \in Nat \ {0}
  <1>1. DOMAIN Items(b, ds) = ItemPaths(b, ds) /\ ItemPaths(b, ds) \subseteq Paths
    BY DEF Items, ItemPaths
  <1>2. ASSUME NEW p \in ItemPaths(b, ds)
        PROVE  /\ Items(b, ds)[p] \in Seq(Nat \ {Torn})
               /\ IsSmall(b, ds, p) =>
                    /\ p \notin Containers
                    /\ Len(Items(b, ds)[p]) = 1
                    /\ Small(b, ds, p).at \in Containers \intersect ItemPaths(b, ds)
                    /\ Small(b, ds, p).slot \in Nat \ {0}
    <2>1. PICK d \in ds \intersect Depots(b) :
                 Source(b, ds, p) = Manifest[b][d] /\ p \in DOMAIN Manifest[b][d].files
      BY SourceFacts
    <2> DEFINE depot == Manifest[b][d]
    <2>2. /\ depot.files[p] \in Seq(Nat \ {Torn})
          /\ DOMAIN depot.files \subseteq Paths
          /\ DOMAIN depot.slot \subseteq DOMAIN depot.files \ Containers
          /\ p \in DOMAIN depot.slot => depot.slot[p] \in Nat \ {0} /\ Len(depot.files[p]) = 1
          /\ depot.product \in DOMAIN Container
          /\ DOMAIN depot.slot # {} => Container[depot.product] \in DOMAIN depot.files
      BY <2>1, ManifestAssumption
    <2>3. Items(b, ds)[p] = depot.files[p]
      BY <2>1 DEF Items
    <2>4. ASSUME IsSmall(b, ds, p)
          PROVE  /\ p \in DOMAIN depot.slot
                 /\ Small(b, ds, p).at = Container[depot.product]
                 /\ Small(b, ds, p).slot = depot.slot[p]
      BY <2>1, <2>4 DEF IsSmall, Small
    <2> DEFINE c == Container[depot.product]
    <2>5. ASSUME IsSmall(b, ds, p)
          PROVE  c \in Containers /\ c \in ItemPaths(b, ds)
      <3>1. c \in DOMAIN depot.files /\ c \in Paths /\ c \in Containers
        BY <2>2, <2>4, <2>5 DEF Containers
      <3>2. Kept(b, ds, c) # {}
        BY <2>1, <3>1, KeptFacts
      <3> QED BY <3>1, <3>2 DEF ItemPaths
    <2> HIDE DEF depot
    <2> QED BY <2>2, <2>3, <2>4, <2>5
  <1> QED BY <1>1, <1>2

\* What is on the server.
LEMMA FullFacts ==
  ASSUME NEW b \in Builds
  PROVE  /\ Full[b] = Items(b, Depots(b))
         /\ DOMAIN Full[b] = ItemPaths(b, Depots(b))
         /\ Wanted[b] = DOMAIN Full[b] \ (FullMatch \union Containers)
         /\ DOMAIN Full[b] \subseteq Paths
  BY ItemsFacts DEF Full, Wanted

--------------------------------------------------------------------------------
(* Types, and what is left to do *)

LEMMA InitSafe == Init => SafeInv
  <1> SUFFICES ASSUME Init PROVE SafeInv
    OBVIOUS
  <1> USE DEF Init, Empty
  <1>1. Cardinality(DOMAIN busy) = 0
    BY FS_EmptySet
  <1>2. TypeOK
    <2>1. Threads \in Nat /\ MaxFaults \in Nat
      BY OptionsAssumption
    <2>2. DOMAIN disk = {} /\ DOMAIN items = {} /\ DOMAIN busy = {}
      OBVIOUS
    <2>3. useSFC \in BOOLEAN /\ dirty \in BOOLEAN
      BY Zenon
    <2>4. DOMAIN items \intersect DOMAIN smalls = {} /\ todo = {}
      OBVIOUS
    <2>5. /\ phase = "idle" /\ build \in Builds /\ got = {} /\ alive = 0 /\ clean = 0
          /\ faults = 0
      OBVIOUS
    <2> QED BY ONLY <1>1, <2>1, <2>2, <2>3, <2>4, <2>5 DEF TypeOK
  <1>3. PlanOK
    BY DEF PlanOK
  <1>4. PlanFull /\ TodoOK
    BY DEF PlanFull, TodoOK
  <1> QED BY <1>2, <1>3, <1>4 DEF SafeInv

LEMMA BeginSafe ==
  ASSUME SafeInv, NEW b \in Builds, NEW ds \in SUBSET Depots(b), NEW oldDs,
         Begin(b, ds, oldDs)
  PROVE  SafeInv' /\ todo' \subseteq DOMAIN disk /\ (~dirty' => got' = Depots(build'))
  <1> DEFINE all == Without(Items(b, ds), FullMatch)
             small == {p \in DOMAIN all : IsSmall(b, ds, p)}
             sfc == small \intersect DOMAIN disk = {}
             rest == Without(all, IF sfc THEN small ELSE Containers)
             old == UNION {ItemPaths(o, oldDs \intersect Depots(o)) : o \in OldBuilds \ {b}}
  <1>1. /\ phase = "idle" /\ phase' = "delete" /\ build' = b /\ got' = ds
        /\ useSFC' = sfc /\ items' = rest
        /\ smalls' = IF sfc THEN [p \in small |-> Small(b, ds, p)] ELSE Empty
        /\ todo' = (old \ DOMAIN rest) \intersect DOMAIN disk
        /\ disk' = disk /\ busy' = busy /\ alive' = alive
        /\ clean' = IF b = build THEN clean ELSE 0
    BY DEF Begin
  <1>2. /\ faults' \in 0 .. MaxFaults /\ dirty' \in BOOLEAN
        /\ ~dirty' => ds = Depots(b)
    <2>1. MaxFaults \in Nat /\ faults \in 0 .. MaxFaults
      BY OptionsAssumption DEF SafeInv, TypeOK
    <2>2. \/ ds = Depots(b) /\ dirty' = FALSE /\ faults' = faults
          \/ Fault
      BY DEF Begin
    <2>3. faults' \in 0 .. MaxFaults
      BY <2>1, <2>2 DEF Fault
    <2>4. dirty' \in BOOLEAN /\ (~dirty' => ds = Depots(b))
      BY <2>2, Zenon DEF Fault
    <2> QED BY <2>3, <2>4
  <1>3. /\ DOMAIN all = ItemPaths(b, ds) \ FullMatch
        /\ \A p \in DOMAIN all : all[p] = Items(b, ds)[p]
        /\ DOMAIN all \subseteq Paths
    <2>1. DOMAIN Items(b, ds) = ItemPaths(b, ds) /\ ItemPaths(b, ds) \subseteq Paths
      BY ItemsFacts
    <2>2. /\ DOMAIN all = DOMAIN Items(b, ds) \ FullMatch
          /\ \A p \in DOMAIN Items(b, ds) \ FullMatch : all[p] = Items(b, ds)[p]
      BY WithoutFact, Zenon
    <2> HIDE DEF all
    <2> QED BY <2>1, <2>2
  <1>4. \A p \in small : /\ p \in Paths \ Containers
                         /\ Len(Items(b, ds)[p]) = 1
                         /\ Small(b, ds, p).at \in Containers
                         /\ Small(b, ds, p).at \in DOMAIN all \union FullMatch
                         /\ Small(b, ds, p).at \notin small
                         /\ Small(b, ds, p).slot \in Nat \ {0}
    BY <1>3, ItemsFacts
  <1>5. /\ sfc => DOMAIN rest = DOMAIN all \ small
        /\ ~sfc => DOMAIN rest = DOMAIN all \ Containers
        /\ \A p \in DOMAIN rest : rest[p] = all[p]
    <2> HIDE DEF all, small, sfc
    <2>1. CASE sfc
      <3>1. rest = Without(all, small)
        BY <2>1
      <3> HIDE DEF rest
      <3>2. DOMAIN rest = DOMAIN all \ small /\ \A p \in DOMAIN all \ small : rest[p] = all[p]
        BY <3>1, WithoutFact
      <3> QED BY <2>1, <3>2
    <2>2. CASE ~sfc
      <3>1. rest = Without(all, Containers)
        BY <2>2
      <3> HIDE DEF rest
      <3>2. /\ DOMAIN rest = DOMAIN all \ Containers
            /\ \A p \in DOMAIN all \ Containers : rest[p] = all[p]
        BY <3>1, WithoutFact
      <3> QED BY <2>2, <3>2
    <2> QED BY <2>1, <2>2
  <1>6. /\ sfc => DOMAIN smalls' = small /\ \A p \in small : smalls'[p] = Small(b, ds, p)
        /\ ~sfc => DOMAIN smalls' = {}
    BY <1>1 DEF Empty
  <1>7. \A p \in DOMAIN rest : p \in ItemPaths(b, ds) /\ rest[p] = Items(b, ds)[p]
    BY <1>3, <1>5
  <1>8. small \subseteq DOMAIN all
    OBVIOUS
  <1>9. ~sfc => small \intersect DOMAIN disk # {}
    OBVIOUS
  <1>10. sfc => small \intersect DOMAIN disk = {}
    OBVIOUS
  <1> HIDE DEF rest, all, small, sfc, old
  <1>11. PlanOK'
    <2>1. \A p \in DOMAIN items' : p \in Paths /\ items'[p] \in Seq(Nat \ {Torn})
      BY <1>1, <1>7, ItemsFacts
    <2> QED BY <2>1, <1>1, <1>3, <1>4, <1>5, <1>6, <1>8 DEF PlanOK
  <1>12. PlanFull'
    <2> SUFFICES ASSUME ds = Depots(b)
                 PROVE  /\ \A p \in DOMAIN rest : p \in DOMAIN Full[b] /\ rest[p] = Full[b][p]
                        /\ (DOMAIN rest \union DOMAIN smalls') \ Containers = Wanted[b]
                        /\ \A p \in DOMAIN smalls' :
                             /\ Len(Full[b][p]) = 1
                             /\ smalls'[p].at \in DOMAIN rest \union FullMatch
      BY <1>1 DEF PlanFull, Known
    <2>1. DOMAIN all = DOMAIN Full[b] \ FullMatch /\ Full[b] = Items(b, ds)
      BY <1>3, FullFacts
    <2>2. Wanted[b] = DOMAIN all \ Containers
      BY <2>1, FullFacts
    <2>3. \A p \in DOMAIN rest : p \in DOMAIN Full[b] /\ rest[p] = Full[b][p]
      BY <2>1, <1>7, ItemsFacts
    <2>4. (DOMAIN rest \union DOMAIN smalls') \ Containers = Wanted[b]
      BY <2>2, <1>5, <1>6, <1>8
    <2>5. ASSUME NEW p \in DOMAIN smalls'
          PROVE  Len(Full[b][p]) = 1 /\ smalls'[p].at \in DOMAIN rest \union FullMatch
      BY <2>1, <1>4, <1>5, <1>6
    <2> QED BY <2>3, <2>4, <2>5
  <1>13. TodoOK'
    BY <1>1, <1>5, <1>6, <1>10 DEF SafeInv, TodoOK, Known, Content
  <1>14. TypeOK'
    <2>1. DOMAIN busy' = {}
      BY <1>1 DEF SafeInv, TodoOK
    <2>2. todo' \subseteq Paths /\ DOMAIN items' \intersect DOMAIN smalls' = {}
      BY <1>1, <1>11 DEF PlanOK, SafeInv, TypeOK
    <2>3. useSFC' \in BOOLEAN
      BY <1>1 DEF sfc
    <2>4. got' \subseteq Depots(build') /\ build' \in Builds
      BY <1>1
    <2>5. clean' \in 0 .. 2 /\ Cardinality(DOMAIN busy') <= alive' /\ alive' \in 0 .. Threads
      BY <1>1 DEF SafeInv, TypeOK
    <2>6. DOMAIN disk' \subseteq Paths /\ \A p \in DOMAIN disk' : disk'[p] \in Seq(Nat)
      BY <1>1 DEF SafeInv, TypeOK
    <2> QED BY <2>1, <2>2, <2>3, <2>4, <2>5, <2>6, <1>1, <1>2 DEF TypeOK
  <1> QED BY <1>1, <1>2, <1>11, <1>12, <1>13, <1>14 DEF SafeInv

\* What a run has decided to do stays decided.
LEMMA PlanKept ==
  ASSUME SafeInv, UNCHANGED plan, phase' # "idle" => phase # "idle"
  PROVE  PlanOK' /\ PlanFull'
  BY DEF SafeInv, PlanOK, PlanFull, plan, Known

LEMMA FaultFact ==
  ASSUME SafeInv
  PROVE  /\ Fault => faults' \in 0 .. MaxFaults /\ dirty' = TRUE
         /\ NoFault => faults' = faults /\ dirty' = dirty
  <1>1. faults \in 0 .. MaxFaults /\ MaxFaults \in Nat
    BY OptionsAssumption DEF SafeInv, TypeOK
  <1> QED BY <1>1 DEF Fault, NoFault

LEMMA DeleteSafe ==
  ASSUME SafeInv, NEW removed \in BOOLEAN, Delete(removed)
  PROVE  SafeInv'
  <1>1. /\ phase \in {"delete", "orphans"} /\ todo # {}
        /\ todo' = todo \ {Min(todo)}
        /\ UNCHANGED <<phase, plan, busy, alive, clean>>
        /\ (disk' = Without(disk, {Min(todo)}) /\ NoFault) \/ (disk' = disk /\ Fault)
    BY DEF Delete
  <1>2. faults' \in 0 .. MaxFaults /\ dirty' \in BOOLEAN
    BY <1>1, FaultFact DEF SafeInv, TypeOK
  <1>3. DOMAIN disk' \subseteq DOMAIN disk /\ \A p \in DOMAIN disk' : disk'[p] = disk[p]
    <2>1. CASE disk' = Without(disk, {Min(todo)})
      <3>1. /\ DOMAIN disk' = DOMAIN disk \ {Min(todo)}
            /\ \A p \in DOMAIN disk \ {Min(todo)} : disk'[p] = disk[p]
        BY <2>1, WithoutFact, Zenon
      <3> QED BY <3>1
    <2> QED BY <1>1, <2>1
  <1>4. DOMAIN busy = {}
    BY <1>1 DEF SafeInv, TodoOK
  <1>5. PlanOK' /\ PlanFull'
    BY <1>1, PlanKept
  <1>6. TypeOK'
    BY <1>1, <1>2, <1>3 DEF SafeInv, TypeOK, plan
  <1>7. TodoOK'
    BY <1>1, <1>3, <1>4 DEF SafeInv, TodoOK, plan, Known
  <1> QED BY <1>5, <1>6, <1>7 DEF SafeInv

LEMMA StartThreadsSafe ==
  ASSUME SafeInv, StartThreads
  PROVE  SafeInv' /\ (DOMAIN items' # {} => alive' > 0)
  <1> DEFINE n == Cardinality(DOMAIN items)
  <1>1. /\ phase = "delete" /\ phase' = "download" /\ todo' = DOMAIN items
        /\ alive' = IF n < Threads THEN n ELSE Threads
        /\ UNCHANGED <<disk, plan, busy, dirty, clean, faults>>
    BY DEF StartThreads
  <1>2. DOMAIN items \subseteq Paths
    BY DEF SafeInv, PlanOK
  <1>3. n \in Nat /\ (DOMAIN items # {} => n > 0)
    BY <1>2, FinitePaths
  <1> HIDE DEF n
  <1>4. alive' \in 0 .. Threads /\ (DOMAIN items # {} => alive' > 0)
    BY <1>1, <1>3, OptionsAssumption
  <1>5. DOMAIN busy = {} /\ Cardinality(DOMAIN busy) = 0
    BY <1>1, FS_EmptySet DEF SafeInv, TodoOK
  <1>6. PlanOK' /\ PlanFull'
    BY <1>1, PlanKept
  <1>7. TypeOK'
    BY <1>1, <1>2, <1>4, <1>5 DEF SafeInv, TypeOK, plan
  <1>8. TodoOK'
    BY <1>1, <1>5 DEF SafeInv, TodoOK, plan
  <1> QED BY <1>1, <1>4, <1>6, <1>7, <1>8 DEF SafeInv, plan

LEMMA JoinThreadsSafe ==
  ASSUME SafeInv, JoinThreads
  PROVE  SafeInv'
  <1> DEFINE sfcs == Containers \intersect DOMAIN items \intersect DOMAIN disk
             open == IF useSFC THEN sfcs ELSE {}
  <1>1. /\ phase = "download" /\ phase' = "extract" /\ DOMAIN busy = {}
        /\ todo' = open \union {p \in DOMAIN smalls : smalls[p].at \in open}
        /\ UNCHANGED <<disk, plan, busy, alive, dirty, clean, faults>>
    BY DEF JoinThreads, ThreadsDone
  <1>2. open \subseteq Containers \intersect DOMAIN items \intersect DOMAIN disk
    OBVIOUS
  <1> HIDE DEF open
  <1>3. PlanOK' /\ PlanFull'
    BY <1>1, PlanKept
  <1>4. TypeOK'
    BY <1>1, <1>2 DEF SafeInv, TypeOK, plan, PlanOK
  <1>5. TodoOK'
    BY <1>1, <1>2 DEF SafeInv, TodoOK, plan, PlanOK
  <1> QED BY <1>3, <1>4, <1>5 DEF SafeInv

\* In the extract phase some container is open, and it is on disk.
LEMMA CurrentFact ==
  ASSUME SafeInv, phase = "extract", todo # {}
  PROVE  /\ Current \in todo \intersect Containers \intersect DOMAIN disk
         /\ Current \notin DOMAIN smalls
  <1>1. todo \intersect Containers # {} /\ todo \subseteq Paths
    BY DEF SafeInv, TypeOK, PlanOK, TodoOK
  <1>2. Current \in todo \intersect Containers
    BY <1>1, MinFact DEF Current
  <1> QED BY <1>2 DEF SafeInv, TodoOK, PlanOK

\* The next small file is not on disk.
LEMMA RestFact ==
  ASSUME SafeInv, Extracting
  PROVE  /\ Min(Rest) \in todo \intersect DOMAIN smalls
         /\ Min(Rest) \notin DOMAIN disk /\ Min(Rest) \notin Containers
         /\ Min(Rest) \in Paths
         /\ smalls[Min(Rest)].at = Current
  <1>1. Rest # {} /\ Rest \subseteq Paths
    BY DEF Extracting, Rest, SafeInv, TypeOK
  <1>2. Min(Rest) \in Rest /\ Min(Rest) \in Paths
    BY <1>1, MinFact
  <1> QED BY <1>2 DEF Rest, Extracting, SafeInv, PlanOK, TodoOK

\* A small file is one chunk, or what malloc returned.
LEMMA ExtractedFact ==
  ASSUME SafeInv, Extracting
  PROVE  Extracted(Min(Rest)) \in Seq(Nat) /\ Len(Extracted(Min(Rest))) = 1
  <1>1. Current \in DOMAIN disk
    BY CurrentFact DEF Extracting
  <1>2. disk[Current] \in Seq(Nat)
    BY <1>1 DEF SafeInv, TypeOK
  <1> DEFINE i == smalls[Min(Rest)].slot
             c == disk[Current]
  <1>3. \A v : v \in Nat => <<v>> \in Seq(Nat) /\ Len(<<v>>) = 1
    OBVIOUS
  <1>4. i \in DOMAIN c => c[i] \in Nat
    BY <1>2
  <1>5. Extracted(Min(Rest)) = IF i \in DOMAIN c THEN <<c[i]>> ELSE <<Garbage>>
    BY DEF Extracted
  <1>6. Garbage \in Nat
    BY DEF Garbage
  <1> HIDE DEF c, i
  <1> QED BY <1>3, <1>4, <1>5, <1>6

LEMMA ExtractSafe ==
  ASSUME SafeInv, Extract
  PROVE  SafeInv'
  <1> DEFINE m == Min(Rest)
  <1>1. /\ Extracting /\ phase = "extract"
        /\ disk' = With(disk, m, Extracted(m))
        /\ todo' = todo \ {m}
        /\ UNCHANGED <<phase, plan, busy, alive, dirty, clean, faults>>
    BY DEF Extract, Extracting
  <1>2. m \in todo \intersect DOMAIN smalls /\ m \notin DOMAIN disk /\ m \notin Containers
        /\ m \in Paths
    BY <1>1, RestFact
  <1>3. /\ DOMAIN disk' = DOMAIN disk \union {m}
        /\ disk'[m] \in Seq(Nat)
        /\ \A p \in DOMAIN disk : disk'[p] = disk[p]
    <2>1. /\ DOMAIN disk' = DOMAIN disk \union {m}
          /\ disk'[m] = Extracted(m)
          /\ \A p \in DOMAIN disk : p # m => disk'[p] = disk[p]
      BY <1>1 DEF With
    <2> QED BY <1>1, <1>2, <2>1, ExtractedFact
  <1>4. DOMAIN busy = {}
    BY <1>1 DEF SafeInv, TodoOK
  <1> HIDE DEF m
  <1>5. PlanOK' /\ PlanFull'
    BY <1>1, PlanKept
  <1>6. TypeOK'
    BY <1>1, <1>2, <1>3 DEF SafeInv, TypeOK, plan
  <1>7. TodoOK'
    BY <1>1, <1>2, <1>3, <1>4 DEF SafeInv, TodoOK, plan, PlanOK
  <1> QED BY <1>5, <1>6, <1>7 DEF SafeInv

LEMMA ExtractFailsSafe ==
  ASSUME SafeInv, ExtractFails
  PROVE  SafeInv'
  <1> DEFINE m == Min(Rest)
  <1>1. /\ Extracting /\ phase = "extract" /\ Fault
        /\ todo' = todo \ {m}
        /\ UNCHANGED <<disk, phase, plan, busy, alive, clean>>
    BY DEF ExtractFails, Extracting
  <1>2. m \notin Containers
    BY <1>1, RestFact
  <1>3. faults' \in 0 .. MaxFaults /\ dirty' \in BOOLEAN
    BY <1>1, FaultFact
  <1>4. DOMAIN busy = {}
    BY <1>1 DEF SafeInv, TodoOK
  <1> HIDE DEF m
  <1>5. PlanOK' /\ PlanFull'
    BY <1>1, PlanKept
  <1>6. TypeOK'
    BY <1>1, <1>2, <1>3 DEF SafeInv, TypeOK, plan
  <1>7. TodoOK'
    BY <1>1, <1>2, <1>4 DEF SafeInv, TodoOK, plan, PlanOK
  <1> QED BY <1>5, <1>6, <1>7 DEF SafeInv

LEMMA RemoveContainerSafe ==
  ASSUME SafeInv, NEW removed \in BOOLEAN, RemoveContainer(removed)
  PROVE  SafeInv'
  <1> DEFINE m == Current
  <1>1. /\ phase = "extract" /\ todo # {} /\ Rest = {}
        /\ todo' = todo \ {m}
        /\ UNCHANGED <<phase, plan, busy, alive, clean>>
        /\ (disk' = Without(disk, {m}) /\ NoFault) \/ (disk' = disk /\ Fault)
    BY DEF RemoveContainer
  <1>2. m \in todo \intersect Containers \intersect DOMAIN disk /\ m \notin DOMAIN smalls
    BY <1>1, CurrentFact
  <1>3. faults' \in 0 .. MaxFaults /\ dirty' \in BOOLEAN
    BY <1>1, FaultFact DEF SafeInv, TypeOK
  <1>4. /\ DOMAIN disk' \subseteq DOMAIN disk /\ DOMAIN disk \ {m} \subseteq DOMAIN disk'
        /\ \A p \in DOMAIN disk' : disk'[p] = disk[p]
    <2>1. CASE disk' = Without(disk, {m})
      <3>1. /\ DOMAIN disk' = DOMAIN disk \ {m}
            /\ \A p \in DOMAIN disk \ {m} : disk'[p] = disk[p]
        BY <2>1, WithoutFact, Zenon
      <3> QED BY <3>1
    <2> QED BY <1>1, <2>1
  <1>5. \A p \in todo \intersect DOMAIN smalls : smalls[p].at # m
    BY <1>1 DEF Rest
  <1>6. DOMAIN busy = {}
    BY <1>1 DEF SafeInv, TodoOK
  <1> HIDE DEF m
  <1>7. PlanOK' /\ PlanFull'
    BY <1>1, PlanKept
  <1>8. TypeOK'
    BY <1>1, <1>2, <1>3, <1>4 DEF SafeInv, TypeOK, plan
  <1>9. TodoOK'
    BY <1>1, <1>2, <1>4, <1>5, <1>6 DEF SafeInv, TodoOK, plan, PlanOK
  <1> QED BY <1>7, <1>8, <1>9 DEF SafeInv

LEMMA CheckOrphansSafe ==
  ASSUME SafeInv, CheckOrphans
  PROVE  SafeInv'
  <1>1. /\ phase = "extract" /\ phase' = "orphans"
        /\ todo' \subseteq DOMAIN disk \ Known
        /\ UNCHANGED <<disk, plan, busy, alive, dirty, clean, faults>>
    BY DEF CheckOrphans, Orphans
  <1>2. DOMAIN busy = {}
    BY <1>1 DEF SafeInv, TodoOK
  <1>3. PlanOK' /\ PlanFull'
    BY <1>1, PlanKept
  <1>4. TypeOK'
    BY <1>1, <1>2 DEF SafeInv, TypeOK, plan
  <1>5. TodoOK'
    BY <1>1, <1>2 DEF SafeInv, TodoOK, plan, Known
  <1> QED BY <1>3, <1>4, <1>5 DEF SafeInv

LEMMA EndSafe ==
  ASSUME SafeInv, End
  PROVE  SafeInv'
  <1>1. /\ phase = "orphans" /\ phase' = "idle" /\ clean' \in 0 .. 2
        /\ UNCHANGED <<disk, plan, todo, busy, alive, dirty, faults>>
    BY DEF End, SafeInv, TypeOK
  <1>2. DOMAIN busy = {}
    BY <1>1 DEF SafeInv, TodoOK
  <1>3. PlanOK' /\ PlanFull'
    BY <1>1, PlanKept
  <1>4. TypeOK'
    BY <1>1 DEF SafeInv, TypeOK, plan
  <1>5. TodoOK'
    BY <1>1, <1>2 DEF SafeInv, TodoOK
  <1> QED BY <1>3, <1>4, <1>5 DEF SafeInv

--------------------------------------------------------------------------------
(* The threads *)

LEMMA BusyCount ==
  ASSUME SafeInv, NEW p \in Paths
  PROVE  /\ Cardinality(DOMAIN busy) \in Nat
         /\ Cardinality(DOMAIN busy \union {p}) <= Cardinality(DOMAIN busy) + 1
         /\ p \in DOMAIN busy =>
              Cardinality(DOMAIN busy \ {p}) = Cardinality(DOMAIN busy) - 1
  <1>1. DOMAIN busy \subseteq Paths
    BY DEF SafeInv, TypeOK, PlanOK
  <1>2. IsFiniteSet(DOMAIN busy) /\ Cardinality(DOMAIN busy) \in Nat
    BY <1>1, FinitePaths
  <1> QED BY <1>2, FS_AddElement, FS_RemoveElement

\* Taking an item leaves it alone, resumes it, or starts it.
LEMMA TakeCases ==
  ASSUME SafeInv, Take
  PROVE  LET p == Min(todo)
             c == items[p]
         IN /\ phase = "download" /\ p \in todo /\ p \in DOMAIN items
            /\ c \in Seq(Nat \ {Torn})
            /\ todo' = todo \ {p}
            /\ Cardinality(DOMAIN busy) < alive
            /\ NoFault /\ UNCHANGED <<phase, plan, alive, clean>>
            /\ \/ p \in DOMAIN disk /\ disk[p] = c /\ disk' = disk /\ busy' = busy
               \/ /\ p \in DOMAIN disk /\ disk[p] # c /\ disk' = disk
                  /\ Len(disk[p]) \in 1 .. Len(c) - 1
                  /\ busy' = With(busy, p, Len(disk[p]))
               \/ /\ p \in DOMAIN disk => disk[p] # c
                  /\ busy' = With(busy, p, 0)
                  /\ disk' = IF c = <<>> THEN With(disk, p, <<>>) ELSE Without(disk, {p})
  <1> DEFINE p == Min(todo)
             c == items[p]
  <1>1. /\ phase = "download" /\ todo # {} /\ Cardinality(DOMAIN busy) < alive
        /\ todo' = todo \ {p}
        /\ NoFault /\ UNCHANGED <<phase, plan, alive, clean>>
    BY DEF Take, TryPop
  <1>2. p \in todo
    BY <1>1, MinFact DEF SafeInv, TypeOK
  <1>3. p \in DOMAIN items /\ c \in Seq(Nat \ {Torn})
    BY <1>1, <1>2 DEF SafeInv, TodoOK, PlanOK
  <1>4. p \in DOMAIN disk => (Intact(p) <=> disk[p] = c)
    <2>1. ASSUME p \in DOMAIN disk, disk[p] = c PROVE Sized(disk[p], Len(c))
      BY <1>3, <2>1 DEF Sized
    <2> QED BY <2>1 DEF Intact
  <1>5. p \in DOMAIN disk /\ Resumable(p) => Len(disk[p]) \in 1 .. Len(c) - 1
    BY DEF Resumable
  <1>6. \/ p \in DOMAIN disk /\ Intact(p) /\ disk' = disk /\ busy' = busy
        \/ /\ p \in DOMAIN disk /\ ~Intact(p) /\ Resumable(p) /\ disk' = disk
           /\ busy' = With(busy, p, Len(disk[p]))
        \/ /\ p \in DOMAIN disk => ~Intact(p)
           /\ busy' = With(busy, p, 0)
           /\ disk' = IF c = <<>> THEN With(disk, p, <<>>) ELSE Without(disk, {p})
    BY DEF Take
  <1> HIDE DEF p, c
  <1>7. \/ p \in DOMAIN disk /\ disk[p] = c /\ disk' = disk /\ busy' = busy
        \/ /\ p \in DOMAIN disk /\ disk[p] # c /\ disk' = disk
           /\ Len(disk[p]) \in 1 .. Len(c) - 1
           /\ busy' = With(busy, p, Len(disk[p]))
        \/ /\ p \in DOMAIN disk => disk[p] # c
           /\ busy' = With(busy, p, 0)
           /\ disk' = IF c = <<>> THEN With(disk, p, <<>>) ELSE Without(disk, {p})
    BY <1>4, <1>5, <1>6
  <1> QED BY <1>1, <1>2, <1>3, <1>7 DEF p, c

\* What becomes of the item and of the others.
LEMMA TakeEffect ==
  ASSUME SafeInv, Take, NEW p, p = Min(todo)
  PROVE  /\ DOMAIN busy' \subseteq DOMAIN busy \union {p}
         /\ DOMAIN busy \subseteq DOMAIN busy'
         /\ \A q \in DOMAIN busy : q # p => busy'[q] = busy[q]
         /\ DOMAIN disk' \subseteq DOMAIN disk \union {p}
         /\ DOMAIN disk \ {p} \subseteq DOMAIN disk'
         /\ \A q \in DOMAIN disk : q # p => disk'[q] = disk[q]
         /\ p \in DOMAIN busy' =>
              /\ busy'[p] \in 0 .. Len(items[p])
              /\ Len(Content(p)') = busy'[p]
              /\ items[p] = <<>> => p \in DOMAIN disk'
              /\ busy'[p] # 0 => p \in DOMAIN disk /\ Len(disk[p]) # Len(items[p])
         /\ p \notin DOMAIN busy' => p \in DOMAIN disk /\ disk' = disk /\ disk[p] = items[p]
         /\ p \in DOMAIN disk' => disk'[p] \in Seq(Nat)
         /\ p \in DOMAIN disk /\ disk[p] = items[p] => disk' = disk
  <1> DEFINE c == items[p]
  <1>1. /\ p \in todo /\ p \in DOMAIN items /\ c \in Seq(Nat \ {Torn})
        /\ \/ p \in DOMAIN disk /\ disk[p] = c /\ disk' = disk /\ busy' = busy
           \/ /\ p \in DOMAIN disk /\ disk[p] # c /\ disk' = disk
              /\ Len(disk[p]) \in 1 .. Len(c) - 1
              /\ busy' = With(busy, p, Len(disk[p]))
           \/ /\ p \in DOMAIN disk => disk[p] # c
              /\ busy' = With(busy, p, 0)
              /\ disk' = IF c = <<>> THEN With(disk, p, <<>>) ELSE Without(disk, {p})
    BY TakeCases
  <1>2. p \notin DOMAIN busy /\ Len(c) \in Nat /\ (p \in DOMAIN disk => disk[p] \in Seq(Nat))
    BY <1>1 DEF SafeInv, TypeOK
  <1> HIDE DEF c
  <1>3. CASE p \in DOMAIN disk /\ disk[p] = c /\ disk' = disk /\ busy' = busy
    BY <1>2, <1>3 DEF c
  <1>4. CASE /\ p \in DOMAIN disk /\ disk[p] # c /\ disk' = disk
             /\ Len(disk[p]) \in 1 .. Len(c) - 1
             /\ busy' = With(busy, p, Len(disk[p]))
    <2>1. /\ DOMAIN busy' = DOMAIN busy \union {p} /\ busy'[p] = Len(disk[p])
          /\ \A q \in DOMAIN busy : q # p => busy'[q] = busy[q]
      BY <1>4 DEF With
    <2>2. Content(p)' = disk[p] /\ c # <<>> /\ Len(disk[p]) \in 0 .. Len(c)
      BY <1>2, <1>4 DEF Content
    <2> QED BY <1>2, <1>4, <2>1, <2>2 DEF c
  <1>5. CASE /\ p \in DOMAIN disk => disk[p] # c
             /\ busy' = With(busy, p, 0)
             /\ disk' = IF c = <<>> THEN With(disk, p, <<>>) ELSE Without(disk, {p})
    <2>1. /\ DOMAIN busy' = DOMAIN busy \union {p} /\ busy'[p] = 0
          /\ \A q \in DOMAIN busy : q # p => busy'[q] = busy[q]
      BY <1>5 DEF With
    <2>2. CASE c = <<>>
      <3>1. disk' = With(disk, p, <<>>)
        BY <1>5, <2>2
      <3>2. /\ DOMAIN disk' = DOMAIN disk \union {p} /\ disk'[p] = <<>>
            /\ \A q \in DOMAIN disk : q # p => disk'[q] = disk[q]
        BY <3>1 DEF With
      <3>3. Content(p)' = <<>>
        BY <3>2 DEF Content
      <3>4. 0 \in 0 .. Len(c) /\ Len(<<>>) = 0 /\ <<>> \in Seq(Nat)
        BY <1>2
      <3>5. p \in DOMAIN busy' /\ Len(Content(p)') = busy'[p] /\ busy'[p] = 0
        BY <2>1, <3>3, <3>4
      <3>6. ~ (p \in DOMAIN disk /\ disk[p] = items[p])
        BY <1>5 DEF c
      <3> QED BY <2>1, <3>2, <3>4, <3>5, <3>6 DEF c
    <2>3. CASE c # <<>>
      <3>1. disk' = Without(disk, {p})
        BY <1>5, <2>3
      <3>2. /\ DOMAIN disk' = DOMAIN disk \ {p}
            /\ \A q \in DOMAIN disk \ {p} : disk'[q] = disk[q]
        BY <3>1 DEF Without, Restrict
      <3>3. Content(p)' = <<>>
        BY <3>2 DEF Content
      <3>4. 0 \in 0 .. Len(c) /\ Len(<<>>) = 0 /\ <<>> \in Seq(Nat)
        BY <1>2
      <3>5. p \in DOMAIN busy' /\ Len(Content(p)') = busy'[p] /\ busy'[p] = 0
        BY <2>1, <3>3, <3>4
      <3>6. ~ (p \in DOMAIN disk /\ disk[p] = items[p])
        BY <1>5 DEF c
      <3> QED BY <2>1, <2>3, <3>2, <3>4, <3>5, <3>6 DEF c
    <2> QED BY <2>2, <2>3
  <1> QED BY <1>1, <1>3, <1>4, <1>5

LEMMA TakeSafe ==
  ASSUME SafeInv, Take
  PROVE  SafeInv'
  <1>1. PICK p : p = Min(todo)
    OBVIOUS
  <1>2. /\ phase = "download" /\ p \in todo /\ p \in DOMAIN items
        /\ todo' = todo \ {p} /\ Cardinality(DOMAIN busy) < alive
        /\ NoFault /\ UNCHANGED <<phase, plan, alive, clean>>
    BY <1>1, TakeCases
  <1>3. /\ DOMAIN busy' \subseteq DOMAIN busy \union {p}
        /\ DOMAIN busy \subseteq DOMAIN busy'
        /\ \A q \in DOMAIN busy : q # p => busy'[q] = busy[q]
        /\ DOMAIN disk' \subseteq DOMAIN disk \union {p}
        /\ \A q \in DOMAIN disk : q # p => disk'[q] = disk[q]
        /\ DOMAIN disk \ {p} \subseteq DOMAIN disk'
        /\ p \in DOMAIN busy' =>
             busy'[p] \in 0 .. Len(items[p]) /\ Len(Content(p)') = busy'[p]
        /\ p \in DOMAIN disk' => disk'[p] \in Seq(Nat)
    BY <1>1, TakeEffect
  <1>4. p \in Paths /\ p \notin DOMAIN busy
    BY <1>2 DEF SafeInv, TypeOK
  <1>5. Cardinality(DOMAIN busy') <= alive'
    <2>1. DOMAIN busy' = DOMAIN busy \/ DOMAIN busy' = DOMAIN busy \union {p}
      BY <1>3
    <2>2. alive \in Nat
      BY DEF SafeInv, TypeOK
    <2>3. Cardinality(DOMAIN busy') <= Cardinality(DOMAIN busy) + 1
      BY <1>4, <2>1, BusyCount
    <2>4. Cardinality(DOMAIN busy) \in Nat /\ DOMAIN busy' \subseteq Paths
      BY <1>4, <2>1, BusyCount DEF SafeInv, TypeOK, PlanOK
    <2>5. Cardinality(DOMAIN busy') \in Nat
      BY <2>4, FinitePaths
    <2> QED BY <1>2, <2>2, <2>3, <2>4, <2>5
  <1>6. PlanOK' /\ PlanFull'
    BY <1>2, PlanKept
  <1>7. faults' \in 0 .. MaxFaults /\ dirty' \in BOOLEAN
    BY <1>2, FaultFact DEF SafeInv, TypeOK
  <1>8. TypeOK'
    BY <1>2, <1>3, <1>4, <1>5, <1>7 DEF SafeInv, TypeOK, plan
  <1>9. ASSUME NEW q \in DOMAIN busy' PROVE Len(Content(q)') <= busy'[q]
    <2>1. CASE q = p
      BY <1>3, <2>1
    <2>2. CASE q # p
      <3>1. q \in DOMAIN busy /\ busy'[q] = busy[q] /\ Content(q)' = Content(q)
        BY <1>3, <2>2 DEF Content
      <3> QED BY <3>1 DEF SafeInv, TodoOK
    <2> QED BY <2>1, <2>2
  <1>10. TodoOK'
    BY <1>2, <1>3, <1>9 DEF SafeInv, TodoOK, plan, PlanOK
  <1> QED BY <1>6, <1>8, <1>10 DEF SafeInv

LEMMA ThreadFailsSafe ==
  ASSUME SafeInv, TakeFails \/ LoginFails
  PROVE  SafeInv'
  <1>1. /\ phase = "download" /\ Cardinality(DOMAIN busy) < alive
        /\ Fault /\ alive' \in {alive, alive - 1} /\ todo' \subseteq todo
        /\ UNCHANGED <<disk, phase, plan, busy, clean>>
    BY DEF TakeFails, LoginFails, TryPop
  <1>2. Cardinality(DOMAIN busy) \in Nat
    BY FinitePaths DEF SafeInv, TypeOK, PlanOK
  <1>3. alive' \in 0 .. Threads /\ Cardinality(DOMAIN busy) <= alive'
    BY <1>1, <1>2, OptionsAssumption DEF SafeInv, TypeOK
  <1>4. PlanOK' /\ PlanFull'
    BY <1>1, PlanKept
  <1>5. faults' \in 0 .. MaxFaults /\ dirty' \in BOOLEAN
    BY <1>1, FaultFact
  <1>6. TypeOK'
    BY <1>1, <1>3, <1>5 DEF SafeInv, TypeOK, plan
  <1>7. TodoOK'
    BY <1>1 DEF SafeInv, TodoOK, plan, Content
  <1> QED BY <1>4, <1>6, <1>7 DEF SafeInv

\* A chunk is appended to the file, or lost.
LEMMA FetchEffect ==
  ASSUME SafeInv, NEW p \in DOMAIN busy, NEW written \in BOOLEAN, FetchChunk(p, written)
  PROVE  LET n == busy[p]
         IN /\ phase = "download" /\ p \in DOMAIN items
            /\ n \in 0 .. Len(items[p]) - 1
            /\ items[p] \in Seq(Nat \ {Torn})
            /\ Content(p) \in Seq(Nat)
            /\ UNCHANGED <<phase, plan, todo, alive, clean>>
            /\ DOMAIN busy' = DOMAIN busy /\ busy'[p] = n + 1
            /\ \A q \in DOMAIN busy : q # p => busy'[q] = busy[q]
            /\ \/ disk' = disk /\ Fault
               \/ /\ NoFault
                  /\ DOMAIN disk' = DOMAIN disk \union {p}
                  /\ disk'[p] = Append(Content(p), items[p][n + 1])
                  /\ items[p][n + 1] \in Nat
                  /\ \A q \in DOMAIN disk : q # p => disk'[q] = disk[q]
  <1> DEFINE n == busy[p]
             v == items[p][n + 1]
             c == Append(Content(p), v)
  <1>1. phase = "download"
    BY DEF SafeInv, TodoOK
  <1>2. p \in DOMAIN items /\ n \in 0 .. Len(items[p]) /\ items[p] \in Seq(Nat \ {Torn})
    BY DEF SafeInv, TypeOK, PlanOK
  <1>3. /\ n < Len(items[p])
        /\ busy' = [busy EXCEPT ![p] = @ + 1]
        /\ UNCHANGED <<phase, plan, todo, alive, clean>>
        /\ (disk' = disk /\ Fault) \/ (disk' = With(disk, p, c) /\ NoFault)
    BY DEF FetchChunk
  <1>4. n \in 0 .. Len(items[p]) - 1 /\ v \in Nat
    BY <1>2, <1>3
  <1>5. /\ DOMAIN busy' = DOMAIN busy /\ busy'[p] = n + 1
        /\ \A q \in DOMAIN busy : q # p => busy'[q] = busy[q]
    BY <1>3
  <1>6. Content(p) \in Seq(Nat)
    BY DEF Content, SafeInv, TypeOK
  <1>7. \/ disk' = disk /\ Fault
        \/ /\ NoFault
           /\ DOMAIN disk' = DOMAIN disk \union {p} /\ disk'[p] = c
           /\ \A q \in DOMAIN disk : q # p => disk'[q] = disk[q]
    <2>1. ASSUME disk' = With(disk, p, c)
          PROVE  /\ DOMAIN disk' = DOMAIN disk \union {p} /\ disk'[p] = c
                 /\ \A q \in DOMAIN disk : q # p => disk'[q] = disk[q]
      <3> HIDE DEF c
      <3> QED BY <2>1 DEF With
    <2> HIDE DEF c
    <2> QED BY <1>3, <2>1
  <1> QED BY <1>1, <1>2, <1>3, <1>4, <1>5, <1>6, <1>7

LEMMA FetchChunkSafe ==
  ASSUME SafeInv, NEW p \in DOMAIN busy, NEW written \in BOOLEAN, FetchChunk(p, written)
  PROVE  SafeInv'
  <1> DEFINE n == busy[p]
  <1>1. /\ phase = "download" /\ p \in DOMAIN items
        /\ n \in 0 .. Len(items[p]) - 1 /\ Content(p) \in Seq(Nat)
        /\ UNCHANGED <<phase, plan, todo, alive, clean>>
        /\ DOMAIN busy' = DOMAIN busy /\ busy'[p] = n + 1
        /\ \A q \in DOMAIN busy : q # p => busy'[q] = busy[q]
        /\ \/ disk' = disk /\ Fault
           \/ /\ NoFault
              /\ DOMAIN disk' = DOMAIN disk \union {p}
              /\ disk'[p] = Append(Content(p), items[p][n + 1])
              /\ items[p][n + 1] \in Nat
              /\ \A q \in DOMAIN disk : q # p => disk'[q] = disk[q]
    BY FetchEffect
  <1>2. p \in Paths /\ Len(items[p]) \in Nat /\ Len(Content(p)) <= n
    BY <1>1 DEF SafeInv, PlanOK, TodoOK
  <1>3. /\ DOMAIN disk' \subseteq DOMAIN disk \union {p}
        /\ \A q \in DOMAIN disk : q # p => disk'[q] = disk[q]
        /\ DOMAIN disk \subseteq DOMAIN disk'
        /\ p \in DOMAIN disk' => disk'[p] \in Seq(Nat)
        /\ Len(Content(p)') <= n + 1
    <2>1. CASE disk' = disk
      <3>1. p \in DOMAIN disk => disk[p] \in Seq(Nat)
        BY DEF SafeInv, TypeOK
      <3>2. Content(p)' = Content(p)
        BY <2>1 DEF Content
      <3>3. Len(Content(p)) \in Nat
        BY <1>1
      <3> QED BY <1>1, <1>2, <2>1, <3>1, <3>2, <3>3
    <2>2. CASE /\ DOMAIN disk' = DOMAIN disk \union {p}
               /\ disk'[p] = Append(Content(p), items[p][n + 1])
               /\ items[p][n + 1] \in Nat
               /\ \A q \in DOMAIN disk : q # p => disk'[q] = disk[q]
      <3>1. Content(p)' = Append(Content(p), items[p][n + 1])
        BY <2>2 DEF Content
      <3>2. /\ Append(Content(p), items[p][n + 1]) \in Seq(Nat)
            /\ Len(Append(Content(p), items[p][n + 1])) = Len(Content(p)) + 1
            /\ Len(Content(p)) \in Nat
        BY <1>1, <2>2
      <3> QED BY <1>1, <1>2, <2>2, <3>1, <3>2
    <2> QED BY <1>1, <2>1, <2>2
  <1>4. faults' \in 0 .. MaxFaults /\ dirty' \in BOOLEAN
    BY <1>1, FaultFact DEF SafeInv, TypeOK
  <1>5. PlanOK' /\ PlanFull'
    BY <1>1, PlanKept
  <1>6. TypeOK'
    <2>1. /\ phase' = phase /\ build' = build /\ got' = got /\ useSFC' = useSFC
          /\ items' = items /\ smalls' = smalls /\ todo' = todo /\ alive' = alive
          /\ clean' = clean
      BY <1>1 DEF plan
    <2>2. \A q \in DOMAIN busy' : busy'[q] \in 0 .. Len(items[q])
      <3>1. n + 1 \in 0 .. Len(items[p])
        <4>1. n \in 0 .. Len(items[p]) - 1 /\ Len(items[p]) \in Nat
          BY <1>1, <1>2
        <4> HIDE DEF n
        <4> QED BY <4>1
      <3>2. \A q \in DOMAIN busy : busy[q] \in 0 .. Len(items[q])
        BY DEF SafeInv, TypeOK
      <3> HIDE DEF n
      <3> QED BY <1>1, <3>1, <3>2
    <2>3. DOMAIN disk' \subseteq Paths /\ \A q \in DOMAIN disk' : disk'[q] \in Seq(Nat)
      BY <1>2, <1>3 DEF SafeInv, TypeOK
    <2>4. DOMAIN busy' = DOMAIN busy
      BY <1>1
    <2> QED BY <1>4, <2>1, <2>2, <2>3, <2>4 DEF SafeInv, TypeOK
  <1>7. ASSUME NEW q \in DOMAIN busy' PROVE Len(Content(q)') <= busy'[q]
    <2>1. CASE q = p
      BY <1>1, <1>3, <2>1
    <2>2. CASE q # p
      <3>1. q \in DOMAIN busy /\ busy'[q] = busy[q] /\ Content(q)' = Content(q)
        BY <1>1, <1>3, <2>2 DEF Content
      <3> QED BY <3>1 DEF SafeInv, TodoOK
    <2> QED BY <2>1, <2>2
  <1>8. TodoOK'
    BY <1>1, <1>3, <1>7 DEF SafeInv, TodoOK, plan, PlanOK
  <1> QED BY <1>5, <1>6, <1>8 DEF SafeInv

LEMMA ItemLeftSafe ==
  ASSUME SafeInv, NEW p \in DOMAIN busy, ChunkFails(p) \/ ItemDone(p)
  PROVE  SafeInv'
  <1>1. /\ busy' = Without(busy, {p})
        /\ UNCHANGED <<disk, phase, plan, todo, clean>>
        /\ \/ Fault /\ alive' \in {alive, alive - 1}
           \/ UNCHANGED <<alive, dirty, faults>>
    BY DEF ChunkFails, ItemDone
  <1>2. phase = "download" /\ p \in Paths
    BY DEF SafeInv, TodoOK, TypeOK, PlanOK
  <1>3. DOMAIN busy' = DOMAIN busy \ {p} /\ \A q \in DOMAIN busy' : busy'[q] = busy[q]
    BY <1>1 DEF Without, Restrict
  <1>4. alive' \in 0 .. Threads /\ Cardinality(DOMAIN busy') <= alive'
    <2>1. /\ Cardinality(DOMAIN busy) \in Nat
          /\ Cardinality(DOMAIN busy') = Cardinality(DOMAIN busy) - 1
      BY <1>2, <1>3, BusyCount
    <2>2. DOMAIN busy' \subseteq Paths
      BY <1>3 DEF SafeInv, TypeOK, PlanOK
    <2>3. Cardinality(DOMAIN busy') \in Nat
      BY <2>2, FinitePaths
    <2> QED BY <1>1, <2>1, <2>3, OptionsAssumption DEF SafeInv, TypeOK
  <1>5. faults' \in 0 .. MaxFaults /\ dirty' \in BOOLEAN
    BY <1>1, FaultFact DEF SafeInv, TypeOK
  <1>6. PlanOK' /\ PlanFull'
    BY <1>1, PlanKept
  <1>7. TypeOK'
    BY <1>1, <1>3, <1>4, <1>5 DEF SafeInv, TypeOK, plan
  <1>8. TodoOK'
    BY <1>1, <1>2, <1>3 DEF SafeInv, TodoOK, plan, Content
  <1> QED BY <1>6, <1>7, <1>8 DEF SafeInv

\* A crash leaves the files that were whole, and torn ones where it happened.
LEMMA CrashEffect ==
  ASSUME SafeInv, Crash
  PROVE  /\ phase' = "idle" /\ todo' = {} /\ DOMAIN busy' = {} /\ alive' = 0 /\ clean' = 0
         /\ dirty' = TRUE /\ faults' \in 0 .. MaxFaults /\ UNCHANGED plan
         /\ DOMAIN disk \subseteq DOMAIN disk'
         /\ DOMAIN disk' \subseteq Paths
         /\ \A p \in DOMAIN disk' : disk'[p] \in Seq(Nat)
         /\ \A p \in DOMAIN disk : disk'[p] # disk[p] =>
              p \in DOMAIN busy /\ Len(disk[p]) < Len(items[p])
  <1> DEFINE open == {p \in DOMAIN busy : busy[p] < Len(items[p])}
  <1>1. /\ phase' = "idle" /\ todo' = {} /\ DOMAIN busy' = {} /\ alive' = 0 /\ clean' = 0
        /\ Fault /\ UNCHANGED plan
    BY DEF Crash, Empty
  <1>2. dirty' = TRUE /\ faults' \in 0 .. MaxFaults
    BY <1>1, FaultFact
  <1>3. /\ DOMAIN disk \subseteq Paths /\ \A p \in DOMAIN disk : disk[p] \in Seq(Nat)
        /\ DOMAIN busy \subseteq Paths
    BY DEF SafeInv, TypeOK, PlanOK
  <1>4. Torn \in Nat
    BY DEF Torn
  <1>5. \/ \E cut \in SUBSET open :
             disk' = [p \in DOMAIN disk \union cut |->
                        IF p \in cut THEN Append(Content(p), Torn) ELSE disk[p]]
        \/ Extracting /\ disk' = With(disk, Min(Rest), <<Torn>>)
    BY DEF Crash
  <1>6. ASSUME NEW cut \in SUBSET open,
               disk' = [p \in DOMAIN disk \union cut |->
                          IF p \in cut THEN Append(Content(p), Torn) ELSE disk[p]]
        PROVE  /\ DOMAIN disk \subseteq DOMAIN disk'
               /\ DOMAIN disk' \subseteq Paths
               /\ \A p \in DOMAIN disk' : disk'[p] \in Seq(Nat)
               /\ \A p \in DOMAIN disk : disk'[p] # disk[p] =>
                    p \in DOMAIN busy /\ Len(disk[p]) < Len(items[p])
    <2>1. /\ DOMAIN disk' = DOMAIN disk \union cut
          /\ \A p \in cut : disk'[p] = Append(Content(p), Torn)
          /\ \A p \in DOMAIN disk \ cut : disk'[p] = disk[p]
      BY <1>6
    <2>2. \A p \in cut : p \in DOMAIN busy /\ busy[p] < Len(items[p])
      OBVIOUS
    <2>3. ASSUME NEW p PROVE Content(p) \in Seq(Nat)
      BY <1>3 DEF Content
    <2>4. ASSUME NEW p \in cut PROVE disk'[p] \in Seq(Nat)
      BY <2>1, <2>3, <1>4
    <2>5. ASSUME NEW p \in DOMAIN disk, disk'[p] # disk[p]
          PROVE  p \in DOMAIN busy /\ Len(disk[p]) < Len(items[p])
      <3>1. p \in cut
        BY <2>1, <2>5
      <3>2. /\ Len(disk[p]) <= busy[p] /\ busy[p] < Len(items[p])
            /\ busy[p] \in Nat /\ Len(items[p]) \in Nat /\ Len(disk[p]) \in Nat
        BY <1>3, <2>2, <3>1 DEF SafeInv, TodoOK, Content, TypeOK, PlanOK
      <3> QED BY <2>2, <3>1, <3>2
    <2> QED BY <1>3, <2>1, <2>2, <2>4, <2>5
  <1>7. ASSUME Extracting, disk' = With(disk, Min(Rest), <<Torn>>)
        PROVE  /\ DOMAIN disk \subseteq DOMAIN disk'
               /\ DOMAIN disk' \subseteq Paths
               /\ \A p \in DOMAIN disk' : disk'[p] \in Seq(Nat)
               /\ \A p \in DOMAIN disk : disk'[p] = disk[p]
    <2> DEFINE m == Min(Rest)
    <2>1. m \in Paths /\ m \notin DOMAIN disk
      BY <1>7, RestFact
    <2>2. /\ DOMAIN disk' = DOMAIN disk \union {m} /\ disk'[m] = <<Torn>>
          /\ \A p \in DOMAIN disk : p # m => disk'[p] = disk[p]
      <3> HIDE DEF m
      <3>1. disk' = With(disk, m, <<Torn>>)
        BY <1>7 DEF m
      <3> QED BY <3>1 DEF With
    <2>3. <<Torn>> \in Seq(Nat)
      BY <1>4
    <2> HIDE DEF m
    <2> QED BY <1>3, <2>1, <2>2, <2>3
  <1> HIDE DEF open
  <1> QED BY <1>1, <1>2, <1>5, <1>6, <1>7

LEMMA CrashSafe ==
  ASSUME SafeInv, Crash
  PROVE  SafeInv'
  <1>1. /\ phase' = "idle" /\ todo' = {} /\ DOMAIN busy' = {} /\ alive' = 0 /\ clean' = 0
        /\ dirty' = TRUE /\ faults' \in 0 .. MaxFaults /\ UNCHANGED plan
        /\ DOMAIN disk' \subseteq Paths
        /\ \A p \in DOMAIN disk' : disk'[p] \in Seq(Nat)
    BY CrashEffect
  <1>2. PlanOK' /\ PlanFull'
    BY <1>1, PlanKept
  <1>3. Cardinality(DOMAIN busy') = 0
    BY <1>1, FS_EmptySet
  <1>4. TypeOK'
    BY <1>1, <1>3, OptionsAssumption DEF SafeInv, TypeOK, plan
  <1>5. TodoOK'
    BY <1>1 DEF TodoOK
  <1> QED BY <1>2, <1>4, <1>5 DEF SafeInv

\* A stuttering step; printing progress forever is one.
LEMMA StutterSafe ==
  ASSUME SafeInv, UNCHANGED vars
  PROVE  SafeInv'
  <1>1. UNCHANGED <<disk, phase, plan, todo, busy, alive, dirty, clean, faults>>
    BY DEF vars
  <1>2. PlanOK' /\ PlanFull'
    BY <1>1, PlanKept
  <1>3. TypeOK'
    BY <1>1 DEF SafeInv, TypeOK, plan
  <1>4. TodoOK'
    BY <1>1 DEF SafeInv, TodoOK, plan, Known, Content
  <1> QED BY <1>2, <1>3, <1>4 DEF SafeInv

LEMMA SafeStep ==
  ASSUME SafeInv, [Next]_vars
  PROVE  SafeInv'
  <1>1. CASE Main
    BY <1>1, BeginSafe, DeleteSafe, RemoveContainerSafe, StartThreadsSafe, StutterSafe,
       JoinThreadsSafe, ExtractSafe, ExtractFailsSafe, CheckOrphansSafe, EndSafe
       DEF Main, PrintProgress
  <1>2. CASE Workers
    BY <1>2, TakeSafe, ThreadFailsSafe, FetchChunkSafe, ItemLeftSafe DEF Workers
  <1> QED BY <1>1, <1>2, CrashSafe, StutterSafe DEF Next

\* Paths on disk are ones of the install directory with sequences of chunks as
\* contents, no path is both to be downloaded and to be taken out of a
\* container, and no more threads are at work than have not given up
\* (Downloader::processGalaxyDownloadQueue, from any number of threads).
THEOREM TypeCorrect == Spec => []TypeOK
  <1>1. SafeInv => TypeOK
    BY DEF SafeInv
  <1> QED BY InitSafe, SafeStep, <1>1, PTL DEF Spec

--------------------------------------------------------------------------------
(* Intact files are kept *)

\* What IntactFilesKept says of a step.
Keeps ==
  \A p \in Wanted[build'] \intersect DOMAIN disk :
    got' = Depots(build') /\ disk[p] = Full[build'][p] =>
      p \in DOMAIN disk' /\ disk'[p] = disk[p]

\* A file of the build is one to be downloaded or taken out of a container.
LEMMA WantedFact ==
  ASSUME SafeInv, phase # "idle", got = Depots(build), NEW p \in Wanted[build]
  PROVE  /\ p \in Known /\ p \notin Containers
         /\ p \in DOMAIN items => items[p] = Full[build][p]
  BY DEF SafeInv, PlanFull, Wanted

LEMMA DeleteKeeps ==
  ASSUME SafeInv, NEW removed \in BOOLEAN, Delete(removed)
  PROVE  Keeps
  <1>1. /\ phase \in {"delete", "orphans"} /\ todo # {} /\ UNCHANGED <<phase, plan>>
        /\ disk' = Without(disk, {Min(todo)}) \/ disk' = disk
    BY DEF Delete
  <1>2. Min(todo) \in todo
    BY <1>1, MinFact DEF SafeInv, TypeOK
  <1>3. Min(todo) \notin Known
    BY <1>1, <1>2 DEF SafeInv, TodoOK
  <1>4. DOMAIN disk \ {Min(todo)} \subseteq DOMAIN disk' /\
        \A p \in DOMAIN disk \ {Min(todo)} : disk'[p] = disk[p]
    <2>1. CASE disk' = Without(disk, {Min(todo)})
      BY <2>1, WithoutFact, Zenon
    <2> QED BY <1>1, <2>1
  <1>5. build' = build /\ got' = got
    BY <1>1 DEF plan
  <1>6. SUFFICES ASSUME NEW p \in Wanted[build] \intersect DOMAIN disk, got = Depots(build)
                 PROVE  p \in DOMAIN disk' /\ disk'[p] = disk[p]
    BY <1>5 DEF Keeps
  <1>7. p \in Known
    BY <1>1, <1>6, WantedFact
  <1> QED BY <1>3, <1>4, <1>7

LEMMA ExtractKeeps ==
  ASSUME SafeInv, Extract
  PROVE  Keeps
  <1> DEFINE m == Min(Rest)
  <1>1. Extracting /\ disk' = With(disk, m, Extracted(m))
    BY DEF Extract
  <1>2. m \notin DOMAIN disk
    BY <1>1, RestFact
  <1>3. DOMAIN disk \subseteq DOMAIN disk' /\ \A p \in DOMAIN disk : p # m => disk'[p] = disk[p]
    <2> DEFINE v == Extracted(m)
    <2> HIDE DEF m, v
    <2>1. disk' = With(disk, m, v)
      BY <1>1 DEF v
    <2> QED BY <2>1 DEF With
  <1> HIDE DEF m
  <1> QED BY <1>2, <1>3 DEF Keeps

LEMMA RemoveContainerKeeps ==
  ASSUME SafeInv, NEW removed \in BOOLEAN, RemoveContainer(removed)
  PROVE  Keeps
  <1>1. /\ phase = "extract" /\ todo # {} /\ UNCHANGED <<phase, plan>>
        /\ disk' = Without(disk, {Current}) \/ disk' = disk
    BY DEF RemoveContainer
  <1>2. Current \in Containers
    BY <1>1, CurrentFact
  <1>3. DOMAIN disk \ {Current} \subseteq DOMAIN disk' /\
        \A p \in DOMAIN disk \ {Current} : disk'[p] = disk[p]
    <2>1. CASE disk' = Without(disk, {Current})
      BY <2>1, WithoutFact, Zenon
    <2> QED BY <1>1, <2>1
  <1>4. build' = build /\ got' = got
    BY <1>1 DEF plan
  <1>5. SUFFICES ASSUME NEW p \in Wanted[build] \intersect DOMAIN disk, got = Depots(build)
                 PROVE  p \in DOMAIN disk' /\ disk'[p] = disk[p]
    BY <1>4 DEF Keeps
  <1>6. p \notin Containers
    BY <1>1, <1>5, WantedFact
  <1> QED BY <1>2, <1>3, <1>6

LEMMA TakeKeeps ==
  ASSUME SafeInv, Take
  PROVE  Keeps
  <1>1. PICK p : p = Min(todo)
    OBVIOUS
  <1>2. phase = "download" /\ p \in DOMAIN items /\ build' = build /\ got' = got
    BY <1>1, TakeCases DEF plan
  <1>3. /\ DOMAIN disk \ {p} \subseteq DOMAIN disk'
        /\ \A q \in DOMAIN disk : q # p => disk'[q] = disk[q]
        /\ p \in DOMAIN disk /\ disk[p] = items[p] => disk' = disk
    BY <1>1, TakeEffect
  <1>4. SUFFICES ASSUME NEW q \in Wanted[build] \intersect DOMAIN disk, got = Depots(build),
                        disk[q] = Full[build][q]
                 PROVE  q \in DOMAIN disk' /\ disk'[q] = disk[q]
    BY <1>2 DEF Keeps
  <1>5. q = p => disk[q] = items[q]
    BY <1>2, <1>4, WantedFact
  <1> QED BY <1>3, <1>5

LEMMA FetchChunkKeeps ==
  ASSUME SafeInv, NEW p \in DOMAIN busy, NEW written \in BOOLEAN, FetchChunk(p, written)
  PROVE  Keeps
  <1>1. /\ phase = "download" /\ p \in DOMAIN items /\ build' = build /\ got' = got
        /\ busy[p] \in 0 .. Len(items[p]) - 1
        /\ DOMAIN disk \subseteq DOMAIN disk'
        /\ \A q \in DOMAIN disk : q # p => disk'[q] = disk[q]
    BY FetchEffect DEF plan
  <1>2. SUFFICES ASSUME NEW q \in Wanted[build] \intersect DOMAIN disk, got = Depots(build),
                        disk[q] = Full[build][q]
                 PROVE  q # p
    BY <1>1 DEF Keeps
  <1>3. ASSUME q = p PROVE FALSE
    <2>1. disk[p] = items[p]
      BY <1>1, <1>2, <1>3, WantedFact
    <2>2. Len(disk[p]) <= busy[p] /\ Len(items[p]) \in Nat
      BY <1>1, <1>3 DEF SafeInv, TodoOK, Content, PlanOK
    <2> QED BY <1>1, <2>1, <2>2
  <1> QED BY <1>3

LEMMA CrashKeeps ==
  ASSUME SafeInv, Crash
  PROVE  Keeps
  <1>1. /\ build' = build /\ got' = got /\ DOMAIN disk \subseteq DOMAIN disk'
        /\ \A p \in DOMAIN disk : disk'[p] # disk[p] =>
             p \in DOMAIN busy /\ Len(disk[p]) < Len(items[p])
    BY CrashEffect DEF plan
  <1>2. phase # "idle"
    BY DEF Crash
  <1>3. SUFFICES ASSUME NEW p \in Wanted[build] \intersect DOMAIN disk, got = Depots(build),
                        disk[p] = Full[build][p], disk'[p] # disk[p]
                 PROVE  FALSE
    BY <1>1 DEF Keeps
  <1>4. p \in DOMAIN items /\ Len(disk[p]) < Len(items[p])
    BY <1>1, <1>3 DEF SafeInv, TypeOK
  <1>5. disk[p] = items[p] /\ Len(items[p]) \in Nat
    BY <1>2, <1>3, <1>4, WantedFact DEF SafeInv, PlanOK
  <1> QED BY <1>4, <1>5

LEMMA KeepsStep ==
  ASSUME SafeInv, [Next]_vars
  PROVE  Keeps
  <1>1. ASSUME disk' = disk PROVE Keeps
    BY <1>1 DEF Keeps
  <1>2. CASE Main
    <2>1. ASSUME NEW b \in Builds, NEW ds \in SUBSET Depots(b), NEW oldDs, Begin(b, ds, oldDs)
          PROVE  disk' = disk
      BY <2>1 DEF Begin
    <2>2. StartThreads \/ PrintProgress \/ JoinThreads \/ ExtractFails \/ CheckOrphans \/ End
            => disk' = disk
      BY DEF StartThreads, PrintProgress, JoinThreads, ExtractFails, CheckOrphans, End, vars
    <2> QED BY <1>1, <1>2, <2>1, <2>2, DeleteKeeps, ExtractKeeps, RemoveContainerKeeps
            DEF Main
  <1>3. CASE Workers
    <2>1. TakeFails \/ LoginFails => disk' = disk
      BY DEF TakeFails, LoginFails
    <2>2. \A p \in DOMAIN busy : ChunkFails(p) \/ ItemDone(p) => disk' = disk
      BY DEF ChunkFails, ItemDone
    <2> QED BY <1>1, <1>3, <2>1, <2>2, TakeKeeps, FetchChunkKeeps DEF Workers
  <1>4. CASE UNCHANGED vars
    BY <1>1, <1>4 DEF vars
  <1> QED BY <1>2, <1>3, <1>4, CrashKeeps DEF Next

\* An intact file of the build is neither deleted nor rewritten by a run that
\* has all manifests: not as a file only the old build has, not as an orphan,
\* not when its size and MD5 sum are compared, not from the container, not by a
\* crash (Downloader::galaxyInstallGameById).
THEOREM KeptCorrect == Spec => IntactFilesKept
  <1>1. SafeInv /\ [Next]_vars =>
          [\A p \in Wanted[build'] \intersect DOMAIN disk :
             got' = Depots(build') /\ disk[p] = Full[build'][p] =>
               p \in DOMAIN disk' /\ disk'[p] = disk[p]]_vars
    BY KeepsStep DEF Keeps
  <1> QED BY InitSafe, SafeStep, <1>1, PTL DEF Spec, IntactFilesKept

--------------------------------------------------------------------------------
(* Nothing else is left *)

LEMMA LeftBegin ==
  ASSUME SafeInv, NEW b \in Builds, NEW ds \in SUBSET Depots(b), NEW oldDs,
         Begin(b, ds, oldDs)
  PROVE  LeftOK'
  <1>1. ~dirty' => got' = Depots(build')
    BY BeginSafe
  <1>2. phase' = "delete"
    BY DEF Begin
  <1> QED BY <1>1, <1>2 DEF LeftOK, OnlyTheBuildLeft

LEMMA LeftDelete ==
  ASSUME SafeInv, LeftOK, NEW removed \in BOOLEAN, Delete(removed)
  PROVE  LeftOK'
  <1> DEFINE m == Min(todo)
  <1>1. /\ phase \in {"delete", "orphans"} /\ todo' = todo \ {m}
        /\ UNCHANGED <<phase, plan, clean>>
        /\ (disk' = Without(disk, {m}) /\ dirty' = dirty) \/ dirty' = TRUE
    BY FaultFact DEF Delete
  <1>2. disk' = Without(disk, {m}) => DOMAIN disk' = DOMAIN disk \ {m}
    BY WithoutFact, Zenon
  <1> HIDE DEF m
  <1> QED BY <1>1, <1>2 DEF LeftOK, OnlyTheBuildLeft, plan

LEMMA LeftJoinThreads ==
  ASSUME SafeInv, LeftOK, JoinThreads
  PROVE  LeftOK'
  <1>1. /\ phase = "download" /\ phase' = "extract"
        /\ UNCHANGED <<disk, plan, dirty, clean>>
        /\ useSFC => Containers \intersect DOMAIN items \intersect DOMAIN disk \subseteq todo'
    BY DEF JoinThreads
  <1> QED BY <1>1 DEF LeftOK, OnlyTheBuildLeft, plan

LEMMA LeftExtract ==
  ASSUME SafeInv, LeftOK, Extract \/ ExtractFails
  PROVE  LeftOK'
  <1> DEFINE m == Min(Rest)
  <1>1. /\ Extracting /\ phase = "extract" /\ todo' = todo \ {m}
        /\ UNCHANGED <<phase, plan, clean>>
        /\ (disk' = With(disk, m, Extracted(m)) /\ dirty' = dirty) \/ dirty' = TRUE
    BY FaultFact DEF Extract, ExtractFails, Extracting
  <1>2. m \notin Containers
    BY <1>1, RestFact
  <1>3. disk' = With(disk, m, Extracted(m)) => DOMAIN disk' = DOMAIN disk \union {m}
    BY DEF With
  <1> HIDE DEF m
  <1> QED BY <1>1, <1>2, <1>3 DEF LeftOK, OnlyTheBuildLeft, plan

LEMMA LeftRemoveContainer ==
  ASSUME SafeInv, LeftOK, NEW removed \in BOOLEAN, RemoveContainer(removed)
  PROVE  LeftOK'
  <1> DEFINE m == Current
  <1>1. /\ phase = "extract" /\ todo' = todo \ {m}
        /\ UNCHANGED <<phase, plan, clean>>
        /\ (disk' = Without(disk, {m}) /\ dirty' = dirty) \/ dirty' = TRUE
    BY FaultFact DEF RemoveContainer
  <1>2. disk' = Without(disk, {m}) => DOMAIN disk' = DOMAIN disk \ {m}
    BY WithoutFact, Zenon
  <1> HIDE DEF m
  <1> QED BY <1>1, <1>2 DEF LeftOK, OnlyTheBuildLeft, plan

LEMMA LeftCheckOrphans ==
  ASSUME SafeInv, LeftOK, CheckOrphans
  PROVE  LeftOK'
  <1>1. /\ phase = "extract" /\ todo = {} /\ phase' = "orphans"
        /\ todo' = IF DeleteOrphans THEN Orphans ELSE {}
        /\ UNCHANGED <<disk, plan, dirty, clean>>
    BY DEF CheckOrphans
  <1>2. SUFFICES ASSUME ~dirty, DeleteOrphans
                 PROVE  DOMAIN disk \subseteq
                          Wanted[build] \union RelativeMatch \union Ignored \union todo'
    BY <1>1 DEF LeftOK, OnlyTheBuildLeft, plan
  <1>3. got = Depots(build) /\ Known \ Containers = Wanted[build]
    BY <1>1, <1>2 DEF LeftOK, SafeInv, PlanFull
  <1>4. Known \intersect Containers \intersect DOMAIN disk = {}
    BY <1>1, <1>2 DEF LeftOK, SafeInv, PlanOK, Known
  <1>5. todo' = DOMAIN disk \ (Known \union RelativeMatch \union Ignored)
    BY <1>1, <1>2 DEF Orphans
  <1> QED BY <1>3, <1>4, <1>5

LEMMA LeftEnd ==
  ASSUME SafeInv, LeftOK, End
  PROVE  LeftOK'
  <1>1. /\ phase = "orphans" /\ todo = {} /\ phase' = "idle"
        /\ clean' > 0 => ~dirty
        /\ UNCHANGED <<disk, plan>>
    BY DEF End
  <1> QED BY <1>1 DEF LeftOK, OnlyTheBuildLeft, plan

\* In the download phase nothing is left to be shown.
LEMMA LeftWorkers ==
  ASSUME SafeInv, LeftOK, Workers \/ StartThreads
  PROVE  LeftOK'
  <1>1. /\ phase' = "download" /\ phase # "idle" /\ UNCHANGED plan
        /\ dirty' = dirty \/ dirty' = TRUE
    <2>1. CASE StartThreads
      BY <2>1 DEF StartThreads
    <2>2. CASE Take
      BY <2>2, FaultFact DEF Take, TryPop
    <2>3. CASE TakeFails \/ LoginFails
      BY <2>3, FaultFact DEF TakeFails, LoginFails, TryPop
    <2>4. CASE \E p \in DOMAIN busy :
                 (\E written \in BOOLEAN : FetchChunk(p, written)) \/ ChunkFails(p) \/ ItemDone(p)
      <3>1. PICK p \in DOMAIN busy :
                (\E written \in BOOLEAN : FetchChunk(p, written)) \/ ChunkFails(p) \/ ItemDone(p)
        BY <2>4
      <3>2. phase = "download"
        BY DEF SafeInv, TodoOK
      <3> QED BY <3>1, <3>2, FaultFact DEF FetchChunk, ChunkFails, ItemDone
    <2> QED BY <2>1, <2>2, <2>3, <2>4 DEF Workers
  <1> QED BY <1>1 DEF LeftOK, OnlyTheBuildLeft, plan

LEMMA LeftStep ==
  ASSUME SafeInv, LeftOK, [Next]_vars
  PROVE  LeftOK'
  <1>1. CASE UNCHANGED vars
    BY <1>1 DEF vars, plan, LeftOK, OnlyTheBuildLeft
  <1>2. CASE Main
    BY <1>1, <1>2, LeftBegin, LeftDelete, LeftWorkers, LeftJoinThreads, LeftExtract,
       LeftRemoveContainer, LeftCheckOrphans, LeftEnd DEF Main, PrintProgress
  <1>3. CASE Crash
    BY <1>3, CrashEffect DEF LeftOK, OnlyTheBuildLeft
  <1> QED BY <1>1, <1>2, <1>3, LeftWorkers DEF Next

\* With --delete-orphans, when a run in which nothing failed has ended only
\* files of its build and listed ones are on disk: what old builds, crashes and
\* failures left behind is gone, and so are the containers
\* (Downloader::galaxyInstallGameById).
THEOREM OnlyBuildCorrect == Spec => []OnlyTheBuildLeft
  <1>1. Init => SafeInv /\ LeftOK
    BY InitSafe DEF Init, LeftOK, OnlyTheBuildLeft
  <1>2. SafeInv /\ LeftOK /\ [Next]_vars => (SafeInv /\ LeftOK)'
    BY SafeStep, LeftStep
  <1>3. LeftOK => OnlyTheBuildLeft
    BY DEF LeftOK
  <1> QED BY <1>1, <1>2, <1>3, PTL DEF Spec

--------------------------------------------------------------------------------
(* Two runs suffice *)

LEMMA RunsBegin ==
  ASSUME SafeInv, RunsOK, NEW b \in Builds, NEW ds \in SUBSET Depots(b), NEW oldDs,
         Begin(b, ds, oldDs)
  PROVE  RunsOK'
  <1>1. /\ phase = "idle" /\ phase' = "delete" /\ build' = b /\ disk' = disk
        /\ clean' > 0 => clean > 0 /\ b = build
    BY DEF Begin
  <1>2. SafeInv' /\ (~dirty' => got' = Depots(build'))
    BY BeginSafe
  <1>3. SUFFICES ASSUME ~dirty', clean' > 0
                 PROVE  /\ DOMAIN smalls' = {}
                        /\ \A p \in DOMAIN items' \intersect Wanted[b] :
                             p \in DOMAIN disk /\ Len(disk[p]) = Len(items'[p])
    BY <1>1 DEF RunsOK, RunOK, TwoRunsSuffice, There
  <1>4. \A p \in Wanted[b] : p \in DOMAIN disk /\ Len(disk[p]) = Len(Full[b][p])
    BY <1>1, <1>3 DEF RunsOK, There
  <1>5. /\ \A p \in DOMAIN items' : items'[p] = Full[b][p]
        /\ (DOMAIN items' \union DOMAIN smalls') \ Containers = Wanted[b]
    BY <1>1, <1>2, <1>3 DEF SafeInv, PlanFull, Known
  <1>6. DOMAIN smalls' \intersect Containers = {} /\ DOMAIN smalls' \intersect DOMAIN disk = {}
    BY <1>1, <1>2 DEF SafeInv, PlanOK, TodoOK
  <1> QED BY <1>4, <1>5, <1>6

LEMMA RunsDelete ==
  ASSUME SafeInv, RunsOK, NEW removed \in BOOLEAN, Delete(removed)
  PROVE  RunsOK'
  <1> DEFINE m == Min(todo)
  <1>1. /\ phase \in {"delete", "orphans"} /\ todo # {} /\ todo' = todo \ {m}
        /\ UNCHANGED <<phase, plan, busy, alive, clean>>
        /\ (disk' = Without(disk, {m}) /\ dirty' = dirty) \/ dirty' = TRUE
    BY FaultFact DEF Delete
  <1>2. m \in todo
    BY <1>1, MinFact DEF SafeInv, TypeOK
  <1>3. m \notin DOMAIN items /\ m \notin DOMAIN smalls
    BY <1>1, <1>2 DEF SafeInv, TodoOK, Known
  <1>4. SUFFICES ASSUME ~dirty, disk' = Without(disk, {m}) PROVE RunOK'
    BY <1>1 DEF RunsOK, TwoRunsSuffice
  <1>5. RunOK
    BY <1>1, <1>4 DEF RunsOK
  <1>6. DOMAIN disk' = DOMAIN disk \ {m} /\ \A p \in DOMAIN disk \ {m} : disk'[p] = disk[p]
    BY <1>4, WithoutFact, Zenon
  <1> HIDE DEF m
  <1> QED BY <1>1, <1>3, <1>5, <1>6 DEF RunOK, Done, There, plan

LEMMA RunsStartThreads ==
  ASSUME SafeInv, RunsOK, StartThreads
  PROVE  RunsOK'
  <1>1. /\ phase = "delete" /\ phase' = "download" /\ todo' = DOMAIN items
        /\ UNCHANGED <<disk, plan, busy, dirty, clean>>
    BY DEF StartThreads
  <1>2. SUFFICES ASSUME ~dirty PROVE RunOK'
    BY <1>1 DEF RunsOK, TwoRunsSuffice
  <1>3. RunOK /\ DOMAIN busy = {}
    BY <1>1, <1>2 DEF RunsOK, SafeInv, TodoOK
  <1>4. DOMAIN items' # {} => alive' > 0
    BY StartThreadsSafe
  <1> QED BY <1>1, <1>3, <1>4 DEF RunOK, There, plan

\* Nothing failed, so every item is done: with a container on disk for every
\* small file.
LEMMA RunsJoinThreads ==
  ASSUME Containers \intersect FullMatch = {}, SafeInv, LeftOK, RunsOK, JoinThreads
  PROVE  RunsOK'
  <1> DEFINE sfcs == Containers \intersect DOMAIN items \intersect DOMAIN disk
             open == IF useSFC THEN sfcs ELSE {}
  <1>1. /\ phase = "download" /\ phase' = "extract"
        /\ DOMAIN items # {} /\ DOMAIN busy = {} /\ (todo = {} \/ alive = 0)
        /\ todo' = open \union {p \in DOMAIN smalls : smalls[p].at \in open}
        /\ UNCHANGED <<disk, plan, dirty, clean>>
    BY DEF JoinThreads, ThreadsDone
  <1>2. useSFC => open = sfcs
    OBVIOUS
  <1> HIDE DEF open
  <1>3. SUFFICES ASSUME ~dirty PROVE RunOK'
    BY <1>1 DEF RunsOK, TwoRunsSuffice
  <1>4. RunOK /\ got = Depots(build)
    BY <1>1, <1>3 DEF RunsOK, LeftOK
  <1>5. \A p \in DOMAIN items : Done(p)
    BY <1>1, <1>4 DEF RunOK
  <1>6. ASSUME NEW p \in DOMAIN smalls PROVE p \in todo'
    <2>1. useSFC /\ smalls[p].at \in Containers /\ smalls[p].at \in DOMAIN items
      BY <1>1, <1>4 DEF SafeInv, PlanOK, PlanFull
    <2>2. smalls[p].at \in sfcs
      BY <1>5, <2>1 DEF Done, There
    <2> QED BY <1>1, <1>2, <2>1, <2>2
  <1> QED BY <1>1, <1>4, <1>5, <1>6 DEF RunOK, Done, There, plan

LEMMA RunsExtract ==
  ASSUME SafeInv, RunsOK, Extract \/ ExtractFails
  PROVE  RunsOK'
  <1> DEFINE m == Min(Rest)
             v == Extracted(m)
  <1>1. /\ Extracting /\ phase = "extract" /\ todo' = todo \ {m}
        /\ UNCHANGED <<phase, plan, clean>>
        /\ (disk' = With(disk, m, v) /\ dirty' = dirty) \/ dirty' = TRUE
    BY FaultFact DEF Extract, ExtractFails, Extracting
  <1>2. m \in DOMAIN smalls /\ m \notin DOMAIN items /\ Len(v) = 1
    BY <1>1, RestFact, ExtractedFact DEF SafeInv, TypeOK
  <1> HIDE DEF m, v
  <1>3. SUFFICES ASSUME ~dirty, disk' = With(disk, m, v) PROVE RunOK'
    BY <1>1 DEF RunsOK, TwoRunsSuffice
  <1>4. RunOK
    BY <1>1, <1>3 DEF RunsOK
  <1>5. /\ DOMAIN disk' = DOMAIN disk \union {m} /\ disk'[m] = v
        /\ \A p \in DOMAIN disk : p # m => disk'[p] = disk[p]
    BY <1>3 DEF With
  <1> QED BY <1>1, <1>2, <1>4, <1>5 DEF RunOK, Done, There, plan

LEMMA RunsRemoveContainer ==
  ASSUME SafeInv, RunsOK, NEW removed \in BOOLEAN, RemoveContainer(removed)
  PROVE  RunsOK'
  <1> DEFINE m == Current
  <1>1. /\ phase = "extract" /\ todo # {} /\ todo' = todo \ {m}
        /\ UNCHANGED <<phase, plan, clean>>
        /\ (disk' = Without(disk, {m}) /\ dirty' = dirty) \/ dirty' = TRUE
    BY FaultFact DEF RemoveContainer
  <1>2. m \in Containers /\ m \notin DOMAIN smalls
    BY <1>1, CurrentFact
  <1>3. SUFFICES ASSUME ~dirty, disk' = Without(disk, {m}) PROVE RunOK'
    BY <1>1 DEF RunsOK, TwoRunsSuffice
  <1>4. RunOK
    BY <1>1, <1>3 DEF RunsOK
  <1>5. DOMAIN disk' = DOMAIN disk \ {m} /\ \A p \in DOMAIN disk \ {m} : disk'[p] = disk[p]
    BY <1>3, WithoutFact, Zenon
  <1> HIDE DEF m
  <1> QED BY <1>1, <1>2, <1>4, <1>5 DEF RunOK, Done, There, plan

LEMMA RunsCheckOrphans ==
  ASSUME SafeInv, RunsOK, CheckOrphans
  PROVE  RunsOK'
  <1>1. /\ phase = "extract" /\ todo = {} /\ phase' = "orphans"
        /\ UNCHANGED <<disk, plan, dirty, clean>>
    BY DEF CheckOrphans
  <1> QED BY <1>1 DEF RunsOK, TwoRunsSuffice, RunOK, Done, There, plan

\* The files of the build were items or small files; in the second such run
\* there is no small file to be taken out of a container.
LEMMA RunsEnd ==
  ASSUME SafeInv, LeftOK, RunsOK, End
  PROVE  RunsOK'
  <1>1. /\ phase = "orphans" /\ phase' = "idle" /\ clean \in 0 .. 2
        /\ clean' > 0 => ~dirty
        /\ clean' = 2 => clean > 0
        /\ UNCHANGED <<disk, plan>>
    BY DEF End, SafeInv, TypeOK
  <1>2. SUFFICES ASSUME clean' > 0, NEW p \in Wanted[build]
                 PROVE  There(p, Full[build][p]) /\ (clean > 0 => disk[p] = Full[build][p])
    BY <1>1 DEF RunsOK, TwoRunsSuffice, There, plan
  <1>3. RunOK /\ got = Depots(build)
    BY <1>1, <1>2 DEF RunsOK, LeftOK
  <1>4. p \in DOMAIN items \/ p \in DOMAIN smalls
    BY <1>1, <1>3, WantedFact DEF Known
  <1>5. p \notin Containers /\ (p \in DOMAIN items => items[p] = Full[build][p])
    BY <1>1, <1>3, WantedFact
  <1>6. CASE p \in DOMAIN items
    BY <1>1, <1>2, <1>3, <1>5, <1>6 DEF RunOK, Done
  <1>7. CASE p \in DOMAIN smalls
    <2>1. Len(Full[build][p]) = 1
      BY <1>1, <1>3, <1>7 DEF SafeInv, PlanFull
    <2>2. p \in DOMAIN disk /\ Len(disk[p]) = 1 /\ ~ (clean > 0)
      BY <1>1, <1>3, <1>7 DEF RunOK
    <2> QED BY <2>1, <2>2 DEF There
  <1> QED BY <1>4, <1>6, <1>7

LEMMA RunsTake ==
  ASSUME SafeInv, RunsOK, Take
  PROVE  RunsOK'
  <1>1. PICK p : p = Min(todo)
    OBVIOUS
  <1>2. /\ phase = "download" /\ p \in todo /\ p \in DOMAIN items /\ todo' = todo \ {p}
        /\ UNCHANGED <<phase, plan, alive, clean, dirty>>
    BY <1>1, TakeCases DEF NoFault
  <1>3. /\ DOMAIN busy' \subseteq DOMAIN busy \union {p}
        /\ DOMAIN busy \subseteq DOMAIN busy'
        /\ \A q \in DOMAIN busy : q # p => busy'[q] = busy[q]
        /\ DOMAIN disk' \subseteq DOMAIN disk \union {p}
        /\ DOMAIN disk \ {p} \subseteq DOMAIN disk'
        /\ \A q \in DOMAIN disk : q # p => disk'[q] = disk[q]
        /\ p \in DOMAIN busy' =>
             /\ Len(Content(p)') = busy'[p]
             /\ items[p] = <<>> => p \in DOMAIN disk'
             /\ busy'[p] # 0 => p \in DOMAIN disk /\ Len(disk[p]) # Len(items[p])
        /\ p \notin DOMAIN busy' => p \in DOMAIN disk /\ disk' = disk /\ disk[p] = items[p]
    BY <1>1, TakeEffect
  <1>4. SUFFICES ASSUME ~dirty PROVE RunOK'
    BY <1>2 DEF RunsOK, TwoRunsSuffice
  <1>5. RunOK
    BY <1>2, <1>4 DEF RunsOK
  <1>6. \A q : q # p => Content(q)' = Content(q)
    BY <1>3 DEF Content
  <1>7. ASSUME NEW q \in DOMAIN busy'
        PROVE  /\ Len(Content(q)') = busy'[q]
               /\ items[q] = <<>> => q \in DOMAIN disk'
               /\ clean > 0 /\ q \in Wanted[build] =>
                    \A i \in 1 .. busy'[q] : Content(q)'[i] = items[q][i]
    <2>1. CASE q = p
      <3>1. clean > 0 /\ p \in Wanted[build] => p \in DOMAIN disk /\ Len(disk[p]) = Len(items[p])
        BY <1>2, <1>5 DEF RunOK, There
      <3>2. clean > 0 /\ p \in Wanted[build] => busy'[p] = 0
        BY <1>3, <2>1, <3>1
      <3> QED BY <1>3, <2>1, <3>2
    <2>2. CASE q # p
      <3>1. q \in DOMAIN busy /\ busy'[q] = busy[q] /\ Content(q)' = Content(q)
        BY <1>3, <1>6, <2>2
      <3>2. q \in DOMAIN disk => q \in DOMAIN disk'
        BY <1>3, <2>2
      <3> QED BY <1>2, <1>5, <3>1, <3>2 DEF RunOK
    <2> QED BY <2>1, <2>2
  <1>8. ASSUME NEW q \in DOMAIN items \ (todo' \union DOMAIN busy') PROVE Done(q)'
    <2>1. CASE q = p
      BY <1>2, <1>3, <2>1 DEF Done, There, plan
    <2>2. CASE q # p
      <3>1. Done(q)
        BY <1>2, <1>3, <1>5, <2>2 DEF RunOK
      <3> QED BY <1>2, <1>3, <2>2, <3>1 DEF Done, There, plan
    <2> QED BY <2>1, <2>2
  <1>9. \A q \in todo' \intersect Wanted[build] : clean > 0 => There(q, items[q])'
    BY <1>2, <1>3, <1>5 DEF RunOK, There, plan
  <1> QED BY <1>2, <1>5, <1>7, <1>8, <1>9 DEF RunOK, plan

LEMMA RunsFetchChunk ==
  ASSUME SafeInv, RunsOK, NEW p \in DOMAIN busy, NEW written \in BOOLEAN,
         FetchChunk(p, written)
  PROVE  RunsOK'
  <1> DEFINE n == busy[p]
             c == Content(p)
             v == items[p][n + 1]
  <1>1. /\ phase = "download" /\ p \in DOMAIN items
        /\ n \in 0 .. Len(items[p]) - 1 /\ c \in Seq(Nat)
        /\ UNCHANGED <<phase, plan, todo, alive, clean>>
        /\ DOMAIN busy' = DOMAIN busy /\ busy'[p] = n + 1
        /\ \A q \in DOMAIN busy : q # p => busy'[q] = busy[q]
        /\ \/ Fault
           \/ /\ NoFault
              /\ DOMAIN disk' = DOMAIN disk \union {p}
              /\ disk'[p] = Append(c, v)
              /\ v \in Nat
              /\ \A q \in DOMAIN disk : q # p => disk'[q] = disk[q]
    BY FetchEffect
  <1>2. SUFFICES ASSUME ~dirty, NoFault,
                        DOMAIN disk' = DOMAIN disk \union {p}, disk'[p] = Append(c, v),
                        v \in Nat,
                        \A q \in DOMAIN disk : q # p => disk'[q] = disk[q]
                 PROVE  RunOK'
    BY <1>1, FaultFact DEF RunsOK, TwoRunsSuffice
  <1>3. RunOK
    BY <1>1, <1>2 DEF RunsOK
  <1>4. p \notin todo
    BY DEF SafeInv, TypeOK
  <1>5. \A q : q # p => Content(q)' = Content(q)
    BY <1>2 DEF Content
  <1>6. Content(p)' = Append(c, v)
    BY <1>2 DEF Content
  <1>7. Len(c) = n /\ (clean > 0 /\ p \in Wanted[build] => \A i \in 1 .. n : c[i] = items[p][i])
    BY <1>1, <1>3 DEF RunOK
  <1>8. /\ Len(Append(c, v)) = n + 1
        /\ clean > 0 /\ p \in Wanted[build] =>
             \A i \in 1 .. n + 1 : Append(c, v)[i] = items[p][i]
    <2> DEFINE w == items[p]
    <2>1. /\ Len(Append(c, v)) = n + 1 /\ Append(c, v)[n + 1] = v
          /\ \A i \in 1 .. n : Append(c, v)[i] = c[i]
      <3> HIDE DEF c, v, n
      <3> QED BY <1>1, <1>2, <1>7
    <2>2. \A i \in 1 .. n + 1 : i \in 1 .. n \/ i = n + 1
      BY <1>1
    <2> QED BY <1>7, <2>1, <2>2
  <1> HIDE DEF c, v
  <1>9. ASSUME NEW q \in DOMAIN busy'
        PROVE  /\ Len(Content(q)') = busy'[q]
               /\ items[q] = <<>> => q \in DOMAIN disk'
               /\ clean > 0 /\ q \in Wanted[build] =>
                    \A i \in 1 .. busy'[q] : Content(q)'[i] = items[q][i]
    <2>1. CASE q = p
      BY <1>1, <1>2, <1>6, <1>8, <2>1
    <2>2. CASE q # p
      <3>1. q \in DOMAIN busy /\ busy'[q] = busy[q] /\ Content(q)' = Content(q)
        BY <1>1, <1>5, <2>2
      <3> QED BY <1>1, <1>2, <1>3, <3>1 DEF RunOK
    <2> QED BY <2>1, <2>2
  <1>10. ASSUME NEW q \in DOMAIN items \ (todo \union DOMAIN busy) PROVE Done(q)'
    <2>1. q # p /\ Done(q)
      BY <1>1, <1>3 DEF RunOK
    <2> QED BY <1>1, <1>2, <2>1 DEF Done, There, plan
  <1>11. \A q \in todo \intersect Wanted[build] : clean > 0 => There(q, items[q])'
    BY <1>1, <1>2, <1>3, <1>4 DEF RunOK, There, plan
  <1> QED BY <1>1, <1>3, <1>9, <1>10, <1>11 DEF RunOK, plan

\* An item is done when all its chunks were fetched; they make the file.
LEMMA RunsItemDone ==
  ASSUME SafeInv, RunsOK, NEW p \in DOMAIN busy, ItemDone(p)
  PROVE  RunsOK'
  <1>1. /\ busy[p] = Len(items[p]) /\ busy' = Without(busy, {p})
        /\ UNCHANGED <<disk, phase, plan, todo, alive, dirty, clean>>
    BY DEF ItemDone
  <1>2. DOMAIN busy' = DOMAIN busy \ {p} /\ \A q \in DOMAIN busy' : busy'[q] = busy[q]
    BY <1>1 DEF Without, Restrict
  <1>3. phase = "download" /\ p \in DOMAIN items /\ items[p] \in Seq(Nat)
    BY DEF SafeInv, TodoOK, TypeOK, PlanOK
  <1>4. SUFFICES ASSUME ~dirty PROVE RunOK'
    BY <1>1, <1>3 DEF RunsOK, TwoRunsSuffice
  <1>5. RunOK
    BY <1>3, <1>4 DEF RunsOK
  <1>6. Done(p)
    <2>1. Len(Content(p)) = Len(items[p]) /\ (items[p] = <<>> => p \in DOMAIN disk)
      BY <1>1, <1>3, <1>5 DEF RunOK
    <2>2. p \in DOMAIN disk
      <3>1. p \notin DOMAIN disk => Len(items[p]) = 0
        BY <2>1 DEF Content
      <3> QED BY <1>3, <2>1, <3>1
    <2>3. ASSUME clean > 0, p \in Wanted[build] PROVE disk[p] = items[p]
      <3>1. \A i \in 1 .. Len(items[p]) : disk[p][i] = items[p][i]
        BY <1>1, <1>3, <1>5, <2>2, <2>3 DEF RunOK, Content
      <3>2. disk[p] \in Seq(Nat) /\ Len(disk[p]) = Len(items[p])
        BY <2>1, <2>2 DEF Content, SafeInv, TypeOK
      <3>3. PICK a, b : a = disk[p] /\ b = items[p]
        OBVIOUS
      <3>4. /\ a \in Seq(Nat) /\ b \in Seq(Nat) /\ Len(a) = Len(b)
            /\ \A i \in 1 .. Len(b) : a[i] = b[i]
        BY <1>3, <3>1, <3>2, <3>3
      <3>5. a = b
        BY <3>4
      <3> QED BY <3>3, <3>5
    <2> QED BY <2>1, <2>2, <2>3 DEF Done, There, Content
  <1>7. /\ \A q \in DOMAIN busy' : Content(q)' = Content(q)
        /\ \A q : Done(q)' = Done(q)
        /\ \A q : There(q, items[q])' = There(q, items[q])
    BY <1>1, <1>3 DEF Content, Done, There, plan
  <1>8. /\ \A q \in DOMAIN items \ (todo \union DOMAIN busy)' : Done(q)
        /\ DOMAIN items # {} => alive > 0
    <2>1. \A q \in DOMAIN items \ (todo \union DOMAIN busy) : Done(q)
      BY <1>3, <1>5 DEF RunOK
    <2>2. DOMAIN items # {} => alive > 0
      BY <1>3, <1>5 DEF RunOK
    <2> QED BY <1>1, <1>2, <1>6, <2>1, <2>2
  <1>9. phase' = "download" /\ DOMAIN items' = DOMAIN items
    BY <1>1, <1>3 DEF plan
  <1>10. \A q \in todo' \intersect Wanted[build]' : clean' > 0 => There(q, items[q])'
    BY <1>1, <1>3, <1>5, <1>7 DEF RunOK, plan
  <1>11. \A q \in DOMAIN busy' :
           /\ Len(Content(q)') = busy'[q]
           /\ items'[q] = <<>> => q \in DOMAIN disk'
           /\ clean' > 0 /\ q \in Wanted[build]' =>
                \A i \in 1 .. busy'[q] : Content(q)'[i] = items'[q][i]
    <2> SUFFICES ASSUME NEW q \in DOMAIN busy'
                 PROVE  /\ Len(Content(q)') = busy'[q]
                        /\ items'[q] = <<>> => q \in DOMAIN disk'
                        /\ clean' > 0 /\ q \in Wanted[build]' =>
                             \A i \in 1 .. busy'[q] : Content(q)'[i] = items'[q][i]
      OBVIOUS
    <2>1. q \in DOMAIN busy /\ busy'[q] = busy[q] /\ Content(q)' = Content(q)
      BY <1>2, <1>7
    <2>2. /\ Len(Content(q)) = busy[q]
          /\ items[q] = <<>> => q \in DOMAIN disk
          /\ clean > 0 /\ q \in Wanted[build] =>
               \A i \in 1 .. busy[q] : Content(q)[i] = items[q][i]
      BY <1>3, <1>5, <2>1 DEF RunOK
    <2> QED BY <1>1, <2>1, <2>2 DEF plan
  <1>12. \A q \in DOMAIN items' \ (todo' \union DOMAIN busy') : Done(q)'
    BY <1>1, <1>7, <1>8 DEF plan
  <1>13. /\ clean' > 0 => DOMAIN smalls' = {}
         /\ DOMAIN items' # {} => alive' > 0
    BY <1>1, <1>5, <1>8 DEF RunOK, plan
  <1> QED BY <1>9, <1>10, <1>11, <1>12, <1>13 DEF RunOK

LEMMA RunsStep ==
  ASSUME Containers \intersect FullMatch = {}, SafeInv, LeftOK, RunsOK, [Next]_vars
  PROVE  RunsOK'
  <1>1. CASE UNCHANGED vars
    BY <1>1 DEF vars, plan, RunsOK, TwoRunsSuffice, RunOK, Done, There, Content
  <1>2. CASE Main
    BY <1>1, <1>2, RunsBegin, RunsDelete, RunsStartThreads, RunsJoinThreads, RunsExtract,
       RunsRemoveContainer, RunsCheckOrphans, RunsEnd DEF Main, PrintProgress
  <1>3. CASE Workers
    <2>1. ASSUME TakeFails \/ LoginFails \/ \E p \in DOMAIN busy : ChunkFails(p)
          PROVE  RunsOK'
      <3>1. phase = "download" /\ phase' = phase /\ dirty' = TRUE
        BY <2>1 DEF TakeFails, LoginFails, TryPop, ChunkFails, Fault, SafeInv, TodoOK
      <3> QED BY <3>1 DEF RunsOK, TwoRunsSuffice
    <2> QED BY <1>3, <2>1, RunsTake, RunsFetchChunk, RunsItemDone DEF Workers
  <1>4. CASE Crash
    BY <1>4, CrashEffect DEF RunsOK, TwoRunsSuffice
  <1> QED BY <1>1, <1>2, <1>3, <1>4 DEF Next

\* Two runs of one build in which nothing fails make every file of the build,
\* whatever was on disk before, provided the blacklist does not hide a container
\* from the items (Downloader::galaxyInstallGameById).
THEOREM TwoRunsCorrect ==
  ASSUME Containers \intersect FullMatch = {}
  PROVE  Spec => []TwoRunsSuffice
  <1>1. Init => SafeInv /\ LeftOK /\ RunsOK
    BY InitSafe DEF Init, LeftOK, OnlyTheBuildLeft, RunsOK, TwoRunsSuffice
  <1>2. SafeInv /\ LeftOK /\ RunsOK /\ [Next]_vars => (SafeInv /\ LeftOK /\ RunsOK)'
    BY SafeStep, LeftStep, RunsStep
  <1>3. RunsOK => TwoRunsSuffice
    BY DEF RunsOK
  <1> QED BY <1>1, <1>2, <1>3, PTL DEF Spec
================================================================================
