----------------------------- MODULE GalaxyInstall -----------------------------
(***************************************************************************)
(* Downloader::galaxyInstallGameById and its threads                       *)
(* (processGalaxyDownloadQueue) on one install directory, over any number  *)
(* of runs that install one build or another, with crashes and failures.   *)
(*                                                                         *)
(* A file is the sequence of its chunks; a chunk stands for its MD5 sum.   *)
(* All chunks are equally long, and Torn is a chunk cut short, so a file   *)
(* that ends in Torn has the size of no whole number of chunks.            *)
(***************************************************************************)
EXTENDS Integers, Sequences, FiniteSets, FiniteSetsExt, Functions

CONSTANTS
  Manifest,       \* Manifest[b]: the depots of build b, in their order; a
                  \*   depot gives its product, its files and the slots of
                  \*   the small ones in the product's container
  NPaths,         \* the paths are numbered in the order of item_map
  Base,           \* baseProductId; other products are DLCs
  Container,      \* the path of each product's small files container
  Info,           \* goggame-<id>.info, which names the build
  FullMatch,      \* paths the blacklist matches as full paths
  RelativeMatch,  \* paths it matches relative to --directory
  Ignored,        \* paths the ignorelist matches relative to --directory
  DeleteOrphans,  \* the option --delete-orphans
  Threads,        \* iThreads
  MaxFaults       \* bound on failures and crashes in a behaviour

Paths == 1 .. NPaths
Builds == DOMAIN Manifest
Depots(b) == DOMAIN Manifest[b]
Containers == {Container[g] : g \in DOMAIN Container}
Torn == 0
Garbage == 99

\* The chunks of a file have MD5 sums, a small file is one chunk, and a depot
\* with small files has a container, which is none of them.
ASSUME ManifestAssumption ==
  \A b \in Builds :
    /\ Len(Manifest[b]) \in Nat /\ Depots(b) = 1 .. Len(Manifest[b])
    /\ \A d \in Depots(b) :
         LET depot == Manifest[b][d]
         IN /\ DOMAIN depot.files \subseteq Paths
            /\ \A p \in DOMAIN depot.files : depot.files[p] \in Seq(Nat \ {Torn})
            /\ DOMAIN depot.slot \subseteq DOMAIN depot.files \ Containers
            /\ \A p \in DOMAIN depot.slot :
                 depot.slot[p] \in Nat \ {0} /\ Len(depot.files[p]) = 1
            /\ depot.product \in DOMAIN Container
            /\ DOMAIN depot.slot # {} => Container[depot.product] \in DOMAIN depot.files
ASSUME OptionsAssumption ==
  /\ Base \in DOMAIN Container /\ Container \in Injection(DOMAIN Container, Paths)
  /\ Info \in Paths /\ NPaths \in Nat
  /\ FullMatch \subseteq Paths /\ RelativeMatch \subseteq Paths /\ Ignored \subseteq Paths
  /\ DeleteOrphans \in BOOLEAN /\ Threads \in Nat \ {0} /\ MaxFaults \in Nat

VARIABLES
  disk,     \* the files in the install directory, by path
  \* one run
  phase,
  build,    \* the build it installs
  got,      \* the depots whose manifests were fetched
  useSFC,   \* bUseSmallFilesContainer
  items,    \* items: the chunks of each file to download
  smalls,   \* items_smallfiles: the container and the slot of each
  todo,     \* the paths left to delete, download or extract
  busy,     \* the files some thread works on, each with its next chunk
  alive,    \* threads that have not given up
  \* history
  dirty,    \* something failed in this run
  clean,    \* runs of this build since then that ended without a failure
  faults

plan == <<build, got, useSFC, items, smalls>>
vars == <<disk, phase, plan, todo, busy, alive, dirty, clean, faults>>

Empty == [p \in {} |-> 0]

Init ==
  /\ disk = Empty
  /\ phase = "idle" /\ build \in Builds /\ got = {} /\ useSFC = FALSE
  /\ items = Empty /\ smalls = Empty /\ todo = {} /\ busy = Empty /\ alive = 0
  /\ dirty = FALSE /\ clean = 0 /\ faults = 0

Without(g, S) == Restrict(g, DOMAIN g \ S)
With(g, p, v) == [q \in DOMAIN g \union {p} |-> IF q = p THEN v ELSE g[q]]

Fault == faults < MaxFaults /\ faults' = faults + 1 /\ dirty' = TRUE
NoFault == UNCHANGED <<faults, dirty>>

--------------------------------------------------------------------------------
(* Manifests *)

\* galaxyGetDepotItemVectorFromJson: of two items with one path the first is
\* kept, unless a later one differs and is a DLC's; that goes for containers
\* too.  A manifest that cannot be fetched is no error: its depot has no items.
Kept(b, ds, p) ==
  LET kept[d \in 0 .. Len(Manifest[b])] ==
        IF d = 0 THEN {}
        ELSE LET before == kept[d - 1]
                 depot == Manifest[b][d]
                 offers == d \in ds /\ p \in DOMAIN depot.files
                 replaces == /\ depot.product # Base
                             /\ \A e \in before : Manifest[b][e].files[p] # depot.files[p]
             IN IF offers /\ (before = {} \/ replaces) THEN {d} ELSE before
  IN kept[Len(Manifest[b])]

ItemPaths(b, ds) == {p \in Paths : Kept(b, ds, p) # {}}
Source(b, ds, p) == Manifest[b][CHOOSE d \in Kept(b, ds, p) : TRUE]
Items(b, ds) == [p \in ItemPaths(b, ds) |-> Source(b, ds, p).files[p]]
IsSmall(b, ds, p) == p \in DOMAIN Source(b, ds, p).slot
Small(b, ds, p) == LET depot == Source(b, ds, p)
                   IN [at |-> Container[depot.product], slot |-> depot.slot[p]]

\* What is on the server, with every manifest
Full == [b \in Builds |-> Items(b, Depots(b))]
Wanted == [b \in Builds |-> DOMAIN Full[b] \ (FullMatch \union Containers)]

\* The build whose .info file is on disk; no .info file, or one that cannot be
\* parsed, names none.
OldBuilds == {b \in Builds : Info \in DOMAIN disk /\ Info \in DOMAIN Full[b]
                                /\ disk[Info] = Full[b][Info]}

--------------------------------------------------------------------------------
(* The main thread *)

\* Everything up to "Delete old files": the items, whether the small files
\* come from their container, and the paths only the old build has.
Begin(b, ds, oldDs) ==
  /\ phase = "idle"
  /\ IF ds = Depots(b) /\ (\A o \in OldBuilds \ {b} : oldDs = Depots(o))
       THEN dirty' = FALSE /\ UNCHANGED faults
       ELSE Fault
  /\ build' = b /\ got' = ds
  /\ LET all == Without(Items(b, ds), FullMatch)
         small == {p \in DOMAIN all : IsSmall(b, ds, p)}
         sfc == small \intersect DOMAIN disk = {}
         rest == Without(all, IF sfc THEN small ELSE Containers)
         old == UNION {ItemPaths(o, oldDs \intersect Depots(o)) : o \in OldBuilds \ {b}}
     IN /\ useSFC' = sfc
        /\ items' = rest
        /\ smalls' = IF sfc THEN [p \in small |-> Small(b, ds, p)] ELSE Empty
        /\ todo' = (old \ DOMAIN rest) \intersect DOMAIN disk
  /\ phase' = "delete"
  /\ clean' = IF b = build THEN clean ELSE 0
  /\ UNCHANGED <<disk, busy, alive>>

Delete(removed) ==
  /\ phase \in {"delete", "orphans"} /\ todo # {}
  /\ todo' = todo \ {Min(todo)}
  /\ IF removed THEN disk' = Without(disk, {Min(todo)}) /\ NoFault
                ELSE UNCHANGED disk /\ Fault
  /\ UNCHANGED <<phase, plan, busy, alive, clean>>

StartThreads ==
  /\ phase = "delete" /\ todo = {}
  /\ phase' = "download"
  /\ todo' = DOMAIN items
  /\ alive' = IF Cardinality(todo') < Threads THEN Cardinality(todo') ELSE Threads
  /\ UNCHANGED <<disk, plan, busy, dirty, clean, faults>>

\* printProgress never ends when there is no thread: then no status is ever
\* DLSTATUS_FINISHED.
ThreadsDone == DOMAIN items # {} /\ DOMAIN busy = {} /\ (todo = {} \/ alive = 0)

\* printProgress prints on when there never was a thread.
PrintProgress ==
  /\ phase = "download" /\ DOMAIN items = {}
  /\ UNCHANGED vars

JoinThreads ==
  /\ phase = "download"
  /\ ThreadsDone
  /\ LET sfcs == Containers \intersect DOMAIN items \intersect DOMAIN disk
         open == IF useSFC THEN sfcs ELSE {}
     IN todo' = open \union {p \in DOMAIN smalls : smalls[p].at \in open}
  /\ phase' = "extract"
  /\ UNCHANGED <<disk, plan, busy, alive, dirty, clean, faults>>

\* The container being extracted, and the small files it still has to give.
Current == Min(todo \intersect Containers)
Rest == {p \in todo \intersect DOMAIN smalls : smalls[p].at = Current}
Extracting == phase = "extract" /\ todo # {} /\ Rest # {}

\* The bytes at the slot of a small file; past the end of a short container
\* the buffer keeps what malloc returned.
Extracted(p) == IF smalls[p].slot \in DOMAIN disk[Current]
                  THEN <<disk[Current][smalls[p].slot]>> ELSE <<Garbage>>

Extract ==
  /\ Extracting
  /\ disk' = With(disk, Min(Rest), Extracted(Min(Rest)))
  /\ todo' = todo \ {Min(Rest)}
  /\ UNCHANGED <<phase, plan, busy, alive, dirty, clean, faults>>

\* The directory cannot be made or the file not be opened: it is skipped.
ExtractFails ==
  /\ Extracting
  /\ Fault
  /\ todo' = todo \ {Min(Rest)}
  /\ UNCHANGED <<disk, phase, plan, busy, alive, clean>>

\* Mutant: the container is left where it is.
ContainerStays(removed) ==
  /\ removed /\ phase = "extract" /\ todo # {} /\ Rest = {}
  /\ todo' = todo \ {Current}
  /\ UNCHANGED <<disk, phase, plan, busy, alive, dirty, clean, faults>>

RemoveContainer(removed) ==
  /\ phase = "extract" /\ todo # {} /\ Rest = {}
  /\ IF removed THEN disk' = Without(disk, {Current}) /\ NoFault
                ELSE UNCHANGED disk /\ Fault
  /\ todo' = todo \ {Current}
  /\ UNCHANGED <<phase, plan, busy, alive, clean>>

\* Mutant: the small files are not added back to the items.
ItemsOnly == DOMAIN items

\* The paths galaxyGetOrphanedFiles knows: small files from the container are
\* added back to the items.
Known == DOMAIN items \union DOMAIN smalls

Orphans == DOMAIN disk \ (Known \union RelativeMatch \union Ignored)

CheckOrphans ==
  /\ phase = "extract" /\ todo = {}
  /\ phase' = "orphans"
  /\ todo' = IF DeleteOrphans THEN Orphans ELSE {}
  /\ UNCHANGED <<disk, plan, busy, alive, dirty, clean, faults>>

End ==
  /\ phase = "orphans" /\ todo = {}
  /\ phase' = "idle"
  /\ clean' = IF dirty THEN 0 ELSE IF clean < 2 THEN clean + 1 ELSE 2
  /\ UNCHANGED <<disk, plan, todo, busy, alive, dirty, faults>>

--------------------------------------------------------------------------------
(* The threads *)

Content(p) == IF p \in DOMAIN disk THEN disk[p] ELSE <<>>
Sized(c, n) == Len(c) = n /\ (n > 0 => c[n] # Torn)

\* Mutant: a file of the right size is taken to be right.
IntactBySize(p) == Sized(disk[p], Len(items[p]))

\* A file of the right size and MD5 sum is left alone.
Intact(p) == Sized(disk[p], Len(items[p])) /\ disk[p] = items[p]

\* A shorter file is resumed when it ends where a chunk ends and its last
\* chunk is right; the chunks before are not looked at.
Resumable(p) ==
  LET n == Len(disk[p])
  IN n \in 1 .. Len(items[p]) - 1 /\ disk[p][n] = items[p][n]

\* Mutant: the item stays in the queue.
TryPopFront ==
  /\ phase = "download" /\ todo # {}
  /\ Cardinality(DOMAIN busy) < alive
  /\ UNCHANGED todo

TryPop ==
  /\ phase = "download" /\ todo # {}
  /\ Cardinality(DOMAIN busy) < alive
  /\ todo' = todo \ {Min(todo)}

\* An item that is complete, or one to be (re)started or resumed.
Take ==
  /\ TryPop
  /\ LET p == Min(todo)
     IN CASE p \in DOMAIN disk /\ Intact(p) -> UNCHANGED <<disk, busy>>
          [] p \in DOMAIN disk /\ ~Intact(p) /\ Resumable(p) ->
               busy' = With(busy, p, Len(disk[p])) /\ UNCHANGED disk
          [] OTHER ->
               /\ busy' = With(busy, p, 0)
               /\ disk' = IF items[p] = <<>> THEN With(disk, p, <<>>)
                                             ELSE Without(disk, {p})
  /\ NoFault
  /\ UNCHANGED <<phase, plan, alive, clean>>

\* The old file cannot be removed or read, so the item is skipped; or the
\* directory cannot be made, and the thread ends.
TakeFails ==
  /\ TryPop
  /\ Fault
  /\ alive' \in {alive, alive - 1}
  /\ UNCHANGED <<disk, phase, plan, busy, clean>>

\* A new thread cannot log in.
LoginFails ==
  /\ phase = "download" /\ Cardinality(DOMAIN busy) < alive
  /\ Fault
  /\ alive' = alive - 1
  /\ UNCHANGED <<disk, phase, plan, todo, busy, clean>>

\* A chunk whose MD5 sum is right is appended.  Whether it could be written is
\* not looked at.
FetchChunk(p, written) ==
  /\ p \in DOMAIN busy /\ busy[p] < Len(items[p])
  /\ IF written
       THEN disk' = With(disk, p, Append(Content(p), items[p][busy[p] + 1])) /\ NoFault
       ELSE UNCHANGED disk /\ Fault
  /\ busy' = [busy EXCEPT ![p] = @ + 1]
  /\ UNCHANGED <<phase, plan, todo, alive, clean>>

\* No link, or the retries are used up: the item is skipped; or the login is
\* lost, and the thread ends.
ChunkFails(p) ==
  /\ p \in DOMAIN busy /\ busy[p] < Len(items[p])
  /\ Fault
  /\ busy' = Without(busy, {p})
  /\ alive' \in {alive, alive - 1}
  /\ UNCHANGED <<disk, phase, plan, todo, clean>>

ItemDone(p) ==
  /\ p \in DOMAIN busy /\ busy[p] = Len(items[p])
  /\ busy' = Without(busy, {p})
  /\ UNCHANGED <<disk, phase, plan, todo, alive, dirty, clean, faults>>

--------------------------------------------------------------------------------
\* The process dies, or exits for lack of space: chunks being appended and the
\* small file being extracted may be cut short.
Crash ==
  /\ phase # "idle"
  /\ Fault
  /\ LET open == {p \in DOMAIN busy : busy[p] < Len(items[p])}
     IN \/ \E cut \in SUBSET open :
             disk' = [p \in DOMAIN disk \union cut |->
                        IF p \in cut THEN Append(Content(p), Torn) ELSE disk[p]]
        \/ /\ Extracting
           /\ disk' = With(disk, Min(Rest), <<Torn>>)
  /\ phase' = "idle"
  /\ todo' = {} /\ busy' = Empty /\ alive' = 0
  /\ clean' = 0
  /\ UNCHANGED plan

Main ==
  \/ (\E b \in Builds :
        \E ds \in SUBSET Depots(b), oldDs \in SUBSET UNION {Depots(o) : o \in OldBuilds \ {b}} :
          Begin(b, ds, oldDs))
  \/ (\E removed \in BOOLEAN : Delete(removed) \/ RemoveContainer(removed))
  \/ StartThreads \/ PrintProgress \/ JoinThreads \/ Extract \/ ExtractFails
  \/ CheckOrphans \/ End

Workers ==
  \/ Take \/ TakeFails \/ LoginFails
  \/ \E p \in DOMAIN busy :
       (\E written \in BOOLEAN : FetchChunk(p, written)) \/ ChunkFails(p) \/ ItemDone(p)

Next == Main \/ Workers \/ Crash
Spec == Init /\ [][Next]_vars

--------------------------------------------------------------------------------
TypeOK ==
  /\ DOMAIN disk \subseteq Paths
  /\ \A p \in DOMAIN disk : disk[p] \in Seq(Nat)
  /\ phase \in {"idle", "delete", "download", "extract", "orphans"}
  /\ build \in Builds /\ got \subseteq Depots(build)
  /\ useSFC \in BOOLEAN
  /\ DOMAIN items \intersect DOMAIN smalls = {}
  /\ todo \subseteq Paths
  /\ DOMAIN busy \subseteq DOMAIN items /\ DOMAIN busy \intersect todo = {}
  /\ \A p \in DOMAIN busy : busy[p] \in 0 .. Len(items[p])
  /\ Cardinality(DOMAIN busy) <= alive /\ alive \in 0 .. Threads
  /\ faults \in 0 .. MaxFaults /\ clean \in 0 .. 2 /\ dirty \in BOOLEAN

\* Two runs for the same build in which nothing fails leave every file of the
\* build intact, whatever earlier builds, crashes and failures left behind.
\* One run may not: a file resumed on the strength of its last chunk, a small
\* file cut from a broken container or from that of another depot has the
\* right size and the wrong contents until the next run hashes it.
TwoRunsSuffice ==
  phase = "idle" /\ clean = 2 =>
    \A p \in Wanted[build] : p \in DOMAIN disk /\ disk[p] = Full[build][p]

\* With --delete-orphans a run without failures leaves nothing behind but the
\* files of the build and listed ones: no file of another build, no
\* container, no remains of a crash.
OnlyTheBuildLeft ==
  DeleteOrphans /\ phase = "idle" /\ clean > 0 =>
    DOMAIN disk \subseteq Wanted[build] \union RelativeMatch \union Ignored

\* A run that has all manifests does not delete or rewrite an intact file of
\* the build: neither as a file only the old build had, nor as an orphan, nor
\* from the container.
IntactFilesKept ==
  [][\A p \in Wanted[build'] \intersect DOMAIN disk :
       got' = Depots(build') /\ disk[p] = Full[build'][p] =>
         p \in DOMAIN disk' /\ disk'[p] = disk[p]]_vars

================================================================================
