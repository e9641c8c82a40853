------------------------------ MODULE GameDetails ------------------------------
(***************************************************************************)
(* The details of the games of an account: the listing page by page, the   *)
(* threads that ask for the details of each game with one shared Galaxy    *)
(* token, the cache on disk, and the check for orphaned files that relies  *)
(* on them.  Any number of runs of the program, with crashes.              *)
(*                                                                         *)
(* Time is what is left of things: ticks until a token expires, ticks      *)
(* since the cache was saved.  How the main thread follows the statuses of *)
(* the threads is in DownloadQueue; here it waits for all of them.         *)
(***************************************************************************)
EXTENDS GameFiles, FiniteSets, Functions

CONSTANTS
  Platforms,  \* PLATFORMS
  Languages,  \* LANGUAGES
  Ops,        \* what runs are for
  Account,    \* games of the account at the beginning, as pages list them
  Bought,     \* games that may be bought later
  OwnedDLCs,
  PageSize,
  Configs,    \* configurations a run may have
  Threads,    \* iInfoThreads
  Retries,    \* std::min(3, iRetries)
  TokenLife,  \* expires_in
  CacheValid, \* iCacheValid
  Files,      \* files in the game directories at the beginning
  MaxFaults   \* bound on failures and crashes in a behaviour

Workers == 1 .. Threads
NoItem == "none"
Games == ToSet(Account) \union Bought

ASSUME GamesAssumption == Account \in Seq(Games) /\ {NoItem, NoName} \intersect Games = {}
ASSUME OpsAssumption == Ops \subseteq {"update", "download", "orphans", "both"}
\* What GOG offers: the names of files are those of one platform (files are not
\* told apart by it where one path is one file), and DLCs are products.  A
\* platform or language that the program does not know is never selected.
ASSUME ProductsAssumption ==
  /\ Games \subseteq DOMAIN Products
  /\ \A slug \in DOMAIN Products :
       /\ Products[slug].dlcs \in Seq(DOMAIN Products)
       /\ \A kind \in Kinds : LET nodes == Products[slug][kind] IN
            /\ nodes \in Seq(ToSet(nodes))
            /\ \A i \in DOMAIN nodes :
                 /\ nodes[i].files \in Seq(ToSet(nodes[i].files))
                 /\ kind # "extra" => nodes[i].os \in Platforms /\ nodes[i].language \in Languages
            /\ kind # "extra" =>
                 \A i, j \in DOMAIN nodes :
                   ToSet(nodes[i].files) \intersect ToSet(nodes[j].files) # {} =>
                     nodes[i].os = nodes[j].os

\* What Util::parseOptionString makes of an option: the priorities, and all that
\* is in one of them as what is wanted.
ASSUME ConfigsAssumption ==
  \A c \in Configs \union {Specific[slug] : slug \in DOMAIN Specific} :
    /\ DOMAIN c = {"names", "include", "platforms", "languages", "platformPriority",
                   "languagePriority", "duplicates"}
    /\ c.platforms \subseteq Platforms /\ c.languages \subseteq Languages
    /\ c.platformPriority \in Seq(SUBSET Platforms)
    /\ c.languagePriority \in Seq(SUBSET Languages)
    /\ c.languagePriority = <<>> \/ UNION ToSet(c.languagePriority) = c.languages

ASSUME CountsAssumption ==
  /\ {PageSize, Threads} \subseteq Nat \ {0}
  /\ {Retries, TokenLife, CacheValid, MaxFaults} \subseteq Nat

VARIABLES
  account,
  token,     \* ticks left: [server] until it is refused, [client] until expires_at
  \* the disk
  cache,     \* gamedetails.json
  disk,      \* files: [game (directory), path]
  \* one run
  mpc, op, useCache, conf,
  page, items,   \* iPage, gameItems
  owned,         \* vOwnedGamesIds
  queue,         \* gameItemQueue
  results,       \* gameDetailsQueue, as a set of entries
  games,         \* this->games, as a set of entries
  \* the threads
  pc, item,
  ask,       \* requests left for the game
  answer,    \* ticks left to the token that was answered
  lost,      \* requests without an answer
  \* history
  before,    \* the account when the listing began
  failed,    \* games some request for which failed
  quit,      \* threads that gave up
  calm,      \* since the threads started nothing failed and no time passed, and
             \* the token was not one that was kept long after it was answered
  faults

env == <<account, token>>
main == <<op, useCache, conf, page, items, owned, games>>
thread == <<pc, item, ask, answer, lost>>
history == <<before, failed, quit, calm>>
vars == <<env, cache, disk, mpc, main, queue, results, thread, history, faults>>

NoConf == "none"
NoCache == [kind |-> "none"]
CutCache == [kind |-> "cut"]
\* bad, from: history of what is saved
CacheOf(entries, version, bad, ownedThen) ==
  [kind |-> "saved", games |-> entries, age |-> 0, version |-> version,
   bad |-> bad, owned |-> ownedThen]

\* Where the files of a game and its DLCs are (makeFilepaths): in the
\* directory of the game, under different names.
Location(game, path) == [game |-> game, path |-> path]

AllKinds == Kinds \X Levels
Everything(c) ==
  [c EXCEPT !.include = AllKinds, !.platforms = Platforms, !.languages = Languages,
            !.platformPriority = <<>>, !.languagePriority = <<>>]

Idle ==
  /\ mpc = "idle" /\ op = "none" /\ useCache = FALSE /\ conf = NoConf
  /\ page = 1 /\ items = <<>> /\ owned = {} /\ queue = <<>> /\ results = {} /\ games = {}
  /\ pc = [t \in Workers |-> "done"] /\ item = [t \in Workers |-> NoItem]
  /\ ask = [t \in Workers |-> <<>>] /\ answer = [t \in Workers |-> -1]
  /\ lost = [t \in Workers |-> {}]
  /\ before = <<>> /\ failed = {} /\ quit = {} /\ calm = TRUE

\* Everything that does not outlive the process.
Exit ==
  /\ mpc' = "idle" /\ op' = "none" /\ useCache' = FALSE /\ conf' = NoConf
  /\ page' = 1 /\ items' = <<>> /\ owned' = {} /\ queue' = <<>> /\ results' = {} /\ games' = {}
  /\ pc' = [t \in Workers |-> "done"] /\ item' = [t \in Workers |-> NoItem]
  /\ ask' = [t \in Workers |-> <<>>] /\ answer' = [t \in Workers |-> -1]
  /\ lost' = [t \in Workers |-> {}]
  /\ before' = <<>> /\ failed' = {} /\ quit' = {} /\ calm' = TRUE

Init ==
  /\ Idle
  /\ account = Account /\ faults = 0
  /\ token = [server |-> -1, client |-> -1]
  /\ cache \in {NoCache, CacheOf({}, 0, {}, {})}
  /\ disk = Files

Fault == faults < MaxFaults /\ faults' = faults + 1

--------------------------------------------------------------------------------
(* The environment *)

Down(n) == IF n > -1 THEN n - 1 ELSE -1

Tick ==
  /\ token' = [server |-> Down(token.server), client |-> Down(token.client)]
  /\ answer' = [t \in Workers |-> Down(answer[t])]
  /\ cache' = IF cache.kind = "saved" /\ cache.age <= CacheValid
                THEN [cache EXCEPT !.age = @ + 1] ELSE cache
  /\ calm' = FALSE
  /\ UNCHANGED <<account, disk, mpc, main, queue, results, pc, item, ask, lost,
                 before, failed, quit, faults>>

\* The pages are sorted by title, so a new game may come between others.
Buy ==
  /\ \E s \in Bought \ ToSet(account), i \in 0 .. Len(account) :
       account' = SubSeq(account, 1, i) \o <<s>> \o SubSeq(account, i + 1, Len(account))
  /\ UNCHANGED <<token, cache, disk, mpc, main, queue, results, thread, history, faults>>

Crash ==
  /\ mpc # "idle"
  /\ Fault /\ Exit
  /\ UNCHANGED <<env, cache, disk>>

--------------------------------------------------------------------------------
(* The main thread *)

Expired == token.client < 0
\* Mutant: the token is thought to live longer than it does.
NewTokenLonger(left) == [server |-> left, client |-> TokenLife + 1]
NewToken(left) == [server |-> left, client |-> TokenLife]

\* main, Downloader::init: without a login the program ends.  The update asks
\* for everything, so does the orphan check.
Start(o, cached, c) ==
  /\ mpc = "idle"
  /\ token' = IF Expired THEN NewToken(TokenLife) ELSE token
  /\ op' = o /\ useCache' = (cached /\ o # "update")
  /\ conf' = CASE o = "update" -> [Everything(c) EXCEPT !.names = Games]
               [] o = "orphans" -> Everything(c)
               [] OTHER -> c
  /\ mpc' = IF useCache' THEN "load" ELSE "owned"
  /\ UNCHANGED <<account, cache, disk, page, items, owned, games, queue, results, thread,
                 history, faults>>

\* getOwnedGamesIds: without an answer no game is owned, and none is left out.
GetOwned(ok) ==
  /\ mpc = "owned"
  /\ owned' = IF ok THEN ToSet(account) \union OwnedDLCs ELSE {}
  /\ IF ok THEN UNCHANGED faults ELSE Fault
  /\ before' = account
  /\ mpc' = "list"
  /\ UNCHANGED <<env, cache, disk, op, useCache, conf, page, items, games, queue, results,
                 thread, failed, quit, calm>>

TotalPages == (Len(account) + PageSize - 1) \div PageSize
PageOf(n) ==
  SubSeq(account, (n - 1) * PageSize + 1,
         IF n * PageSize < Len(account) THEN n * PageSize ELSE Len(account))

\* Mutant: the number of pages is the one the listing began with.
LastPageBefore == page = (Len(before) + PageSize - 1) \div PageSize \/ TotalPages = 0
LastPage == page = TotalPages \/ TotalPages = 0

\* Those of the page that the regular expression finds.
Found == LET shown == PageOf(page)
         IN FlattenSeq([i \in DOMAIN shown |->
                          IF shown[i] \in conf.names THEN <<shown[i]>> ELSE <<>>])

\* One page; without an answer it is asked for again.
GetPage(ok) ==
  /\ mpc = "list"
  /\ IF ok
       THEN /\ items' = items \o Found
            /\ page' = IF LastPage THEN 1 ELSE page + 1
            /\ mpc' = IF ~LastPage THEN "list" ELSE IF items' = <<>> THEN "ready" ELSE "start"
            /\ UNCHANGED faults
       ELSE Fault /\ UNCHANGED <<items, page, mpc>>
  /\ UNCHANGED <<env, cache, disk, op, useCache, conf, owned, games, queue, results,
                 thread, history>>

StartThreads ==
  /\ mpc = "start"
  /\ queue' = queue \o items
  /\ pc' = [t \in Workers |-> IF t <= Len(queue') THEN "login" ELSE "done"]
  /\ item' = [t \in Workers |-> NoItem] /\ ask' = [t \in Workers |-> <<>>]
  /\ calm' = (token.server >= token.client) /\ quit' = {}
  /\ mpc' = "wait"
  /\ UNCHANGED <<env, cache, disk, main, results, answer, lost, before, failed, faults>>

\* The threads are joined and gameDetailsQueue emptied.
JoinThreads ==
  /\ mpc = "wait" /\ \A t \in Workers : pc[t] = "done"
  /\ games' = results /\ results' = {}
  /\ mpc' = "ready"
  /\ UNCHANGED <<env, cache, disk, op, useCache, conf, page, items, owned, queue, thread,
                 history, faults>>

Version == 1

\* loadGameDetailsCache
Loadable == cache.kind = "saved" /\ cache.age <= CacheValid /\ cache.version = Version

LoadCache ==
  /\ mpc = "load" /\ Loadable
  /\ games' = Loaded(cache.games, conf)
  /\ failed' = cache.bad
  /\ mpc' = "ready"
  /\ UNCHANGED <<env, cache, disk, op, useCache, conf, page, items, owned, queue, results,
                 thread, before, quit, calm, faults>>

LoadFails ==
  /\ mpc = "load" /\ ~Loadable
  /\ Exit
  /\ UNCHANGED <<env, cache, disk, faults>>

\* updateCache: std::ofstream truncates the file, then it is written.
OpenCache(ok) ==
  /\ mpc = "ready" /\ op = "update"
  /\ IF games # {} /\ ok
       THEN /\ cache' = CutCache /\ mpc' = "write"
            /\ UNCHANGED <<main, queue, results, thread, history, faults>>
       ELSE /\ IF games = {} THEN UNCHANGED faults ELSE Fault
            /\ Exit /\ UNCHANGED cache
  /\ UNCHANGED <<env, disk>>

WriteCache ==
  /\ mpc = "write"
  /\ cache' = CacheOf(games, Version, failed \union ToSet(queue), owned)
  /\ Exit
  /\ UNCHANGED <<env, disk, faults>>

\* The files of the games are downloaded, all or only some of them; the
\* orphan check after a download begins anew.
Download(all) ==
  /\ mpc = "ready" /\ op \in {"download", "both"}
  /\ LET wanted == UNION {{Location(e.game, p) : p \in Paths(e)} : e \in games}
     IN IF all THEN disk' = disk \union wanted /\ UNCHANGED faults
               ELSE disk' \in {disk \union (wanted \ {f}) : f \in wanted} /\ Fault
  /\ IF op = "download" THEN Exit
     ELSE /\ op' = "orphans" /\ conf' = Everything(conf)
          /\ mpc' = IF useCache THEN "load" ELSE "owned"
          /\ items' = <<>> /\ games' = {} /\ failed' = {}
          /\ UNCHANGED <<useCache, page, owned, queue, results, thread, before, quit, calm>>
  /\ UNCHANGED <<env, cache>>

\* The directory an entry's files are looked for in: without a name it is
\* that of all games.
InDirectory(e, f) == e.game = NoName \/ f.game = e.game

\* Mutant: the files of the DLCs are not looked at.
PresentBase(e, f) == f.path \in ListPaths(e.lists)
Present(e, f) == f.path \in Paths(e)

Orphans == {f \in disk : \E e \in games : InDirectory(e, f) /\ ~Present(e, f)}

\* checkOrphans with --delete-orphans
CheckOrphans ==
  /\ mpc = "ready" /\ op = "orphans"
  /\ disk' = disk \ Orphans
  /\ Exit
  /\ UNCHANGED <<env, cache, faults>>

--------------------------------------------------------------------------------
(* The threads *)

Goto(t, p) == pc' = [pc EXCEPT ![t] = p]
MainSame == UNCHANGED <<account, cache, disk, mpc, main>>
Disturbed == Fault /\ calm' = FALSE
Undisturbed == UNCHANGED <<faults, calm>>

\* getGameDetailsThread begins: galaxyAPI::init.
Login(t) ==
  /\ pc[t] = "login"
  /\ Goto(t, IF Expired THEN "refresh" ELSE "site")
  /\ MainSame /\ Undisturbed
  /\ UNCHANGED <<token, queue, results, item, ask, answer, lost, before,
                 failed, quit>>

\* refreshLogin: a request, whose answer is kept later.  A thread that cannot
\* refresh the token ends, with the game it has taken.
Refresh(t, ok) ==
  /\ pc[t] = "refresh"
  /\ IF ok
       THEN /\ answer' = [answer EXCEPT ![t] = TokenLife] /\ Goto(t, "set")
            /\ Undisturbed /\ UNCHANGED <<quit, failed>>
       ELSE /\ Goto(t, "done") /\ quit' = quit \union {t}
            /\ failed' = failed \union ({item[t]} \ {NoItem})
            /\ Disturbed /\ UNCHANGED answer
  /\ MainSame /\ UNCHANGED <<token, queue, results, item, ask, lost, before>>

\* GalaxyConfig::setJSON: the expiry is counted from here.
SetToken(t) ==
  /\ pc[t] = "set"
  /\ token' = NewToken(answer[t])
  /\ answer' = [answer EXCEPT ![t] = -1]
  /\ Goto(t, IF item[t] = NoItem THEN "site" ELSE "ask")
  /\ MainSame /\ Undisturbed
  /\ UNCHANGED <<queue, results, item, ask, lost, before, failed, quit>>

\* Website::IsLoggedIn
CheckSite(t, ok) ==
  /\ pc[t] = "site"
  /\ Goto(t, IF ok THEN "pop" ELSE "done")
  /\ quit' = IF ok THEN quit ELSE quit \union {t}
  /\ IF ok THEN Undisturbed ELSE Disturbed
  /\ MainSame
  /\ UNCHANGED <<token, queue, results, item, ask, answer, lost, before, failed>>

\* The update takes no game-specific configuration.
RunConf(slug) == IF op = "update" THEN conf ELSE ConfOf(slug, conf)

\* What is asked for a game, in order: the product, its DLCs, and a downlink
\* for each file.
Downlinks(slug, level, c) ==
  FlattenSeq([i \in 1 .. 4 |->
    LET files == Candidates(slug, <<"installer", "extra", "patch", "langpack">>[i], level, c)
    IN [k \in DOMAIN files |-> Downlink(files[k])]])

Requests(slug, c) ==
  LET dlcs == Products[slug].dlcs
      asked == IF ~IncludesDLC(c) THEN <<>>
               ELSE SelectSeq(dlcs, LAMBDA d : owned = {} \/ d \in owned)
  IN (IF dlcs = <<>> THEN <<Info>> ELSE <<Info, DLCInfo>>)
       \o Downlinks(slug, "base", c)
       \o FlattenSeq([i \in DOMAIN asked |-> Downlinks(asked[i], "dlc", c)])

\* What is left to ask when the first request has been answered, or lost.
Rest(t, answered) ==
  CASE answered \/ Head(ask[t]) \notin {Info, DLCInfo} -> Tail(ask[t])
    [] Head(ask[t]) = Info -> <<>>
    [] OTHER -> Downlinks(item[t], "base", RunConf(item[t]))

\* A game is taken from the queue and the token looked at; the look at the
\* token commutes with what is done to the queue.
Pop(t) ==
  /\ pc[t] = "pop" /\ queue # <<>>
  /\ item' = [item EXCEPT ![t] = Head(queue)]
  /\ ask' = [ask EXCEPT ![t] = Requests(Head(queue), RunConf(Head(queue)))]
  /\ queue' = Tail(queue)
  /\ Goto(t, IF Expired THEN "refresh" ELSE "ask")
  /\ MainSame /\ Undisturbed
  /\ UNCHANGED <<token, results, answer, lost, before, failed, quit>>

Finish(t) ==
  /\ pc[t] = "pop" /\ queue = <<>>
  /\ Goto(t, "done")
  /\ MainSame /\ Undisturbed
  /\ UNCHANGED <<token, queue, results, item, ask, answer, lost, before,
                 failed, quit>>

\* galaxyAPI::getResponse: without a token in its header when it is expired.
\* Downlinks are for logged in users only.
Refused(t) ==
  (Expired \/ token.server < 0) /\ Head(ask[t]) \notin {Info, DLCInfo}

\* Mutant: the last retry is not made.
TriesFewer == Retries
Tries == Retries + 1

\* CurlHandleGetResponse: a request is made again as long as it fails in a way
\* that may pass and there are tries left.  n tries fail before there is an
\* answer, all fail, or there is another error (403 and 404 among them) after n.
\* A token that the server refuses while the client holds it to be valid is
\* assumed to make no product request fail.
Ask(t, n, r) ==
  /\ pc[t] = "ask" /\ ask[t] # <<>>
  /\ r = "answered" => ~Refused(t)
  /\ n = Tries <=> r = "exhausted"
  /\ ask' = [ask EXCEPT ![t] = Rest(t, r = "answered")]
  /\ lost' = IF r = "answered" THEN lost ELSE [lost EXCEPT ![t] = @ \union {Head(ask[t])}]
  /\ LET failures == CASE r = "answered" -> n
                       [] r = "error" -> n + 1
                       [] r = "exhausted" -> IF Refused(t) THEN 0 ELSE n
     IN /\ faults + failures <= MaxFaults /\ faults' = faults + failures
        /\ calm' = (calm /\ r # "error" /\ failures <= Retries)
  /\ MainSame
  /\ UNCHANGED <<token, queue, results, pc, item, answer, before, failed, quit>>

\* The entry is complete, whatever it lacks.
Push(t) ==
  /\ pc[t] = "ask" /\ ask[t] = <<>>
  /\ LET c == RunConf(item[t])
     IN results' = results \union {Filtered(Details(item[t], c, owned, lost[t]), c)}
  /\ failed' = IF lost[t] = {} THEN failed ELSE failed \union {item[t]}
  /\ item' = [item EXCEPT ![t] = NoItem]
  /\ lost' = [lost EXCEPT ![t] = {}]
  /\ Goto(t, "pop")
  /\ MainSame /\ Undisturbed
  /\ UNCHANGED <<token, queue, ask, answer, before, quit>>

--------------------------------------------------------------------------------
Worker(t) ==
  \/ Login(t) \/ SetToken(t) \/ Pop(t) \/ Finish(t) \/ Push(t)
  \/ (\E ok \in BOOLEAN : Refresh(t, ok) \/ CheckSite(t, ok))
  \/ (\E n \in 0 .. Tries, r \in {"answered", "exhausted", "error"} : Ask(t, n, r))

Main ==
  \/ (\E ok \in BOOLEAN : GetOwned(ok) \/ GetPage(ok) \/ OpenCache(ok) \/ Download(ok))
  \/ StartThreads \/ JoinThreads \/ LoadCache \/ LoadFails \/ WriteCache \/ CheckOrphans

Begin ==
  \E o \in Ops, cached \in BOOLEAN, c \in Configs :
    Start(o, cached, c)

Next == Tick \/ Buy \/ Crash \/ Begin \/ Main \/ \E t \in Workers : Worker(t)

Spec == Init /\ [][Next]_vars
--------------------------------------------------------------------------------
TypeOK ==
  /\ mpc \in {"idle", "load", "owned", "list", "start", "wait", "ready", "write"}
  /\ op \in {"none", "update", "download", "orphans", "both"}
  /\ token \in [server : -1 .. TokenLife, client : -1 .. TokenLife]
  /\ pc \in [Workers -> {"done", "login", "refresh", "set", "site", "pop", "ask"}]
  /\ item \in [Workers -> Games \union {NoItem}]
  /\ ToSet(items) \union ToSet(queue) \subseteq Games
  /\ \A t \in Workers :
       /\ pc[t] = "ask" <=> item[t] # NoItem /\ pc[t] \notin {"refresh", "set", "done"}
       /\ pc[t] = "pop" => ask[t] = <<>> /\ lost[t] = {}
  /\ failed \subseteq Games /\ quit \subseteq Workers /\ faults \in 0 .. MaxFaults

\* The listing misses no game that was in the account when it began, also when
\* games are bought, which move the others to later pages, and when pages have
\* to be asked for again.
ListingComplete ==
  mpc = "start" =>
    \A s \in ToSet(before) : s \in conf.names => s \in ToSet(items)

\* What is offered of a product: paths, each for platforms and languages.
Offers(nodes, kind, c) ==
  UNION {{[path |-> p, os |-> nodes[i].os, language |-> nodes[i].language] :
            p \in ToSet(nodes[i].files)} : i \in {j \in DOMAIN nodes : Selected(nodes[j], kind, c)}}

\* The first priorities that a path meets for platform and language, and a user
\* prefers lower ones.
First(S) == IF S = {} THEN 1 ELSE CHOOSE n \in S : \A m \in S : n <= m
Rank(path, offers, c) ==
  LET of == {o \in offers : o.path = path}
  IN First({n \in DOMAIN c.platformPriority : \E o \in of : o.os \in c.platformPriority[n]})
       + First({n \in DOMAIN c.languagePriority :
                  \E o \in of : o.language \in c.languagePriority[n]})

\* What a user asks for, said without the code's order of doing things.
Chosen(nodes, kind, level, c) ==
  LET offers == Offers(nodes, kind, c)
      paths == {o.path : o \in offers}
  IN IF <<kind, level>> \notin c.include THEN {}
     ELSE IF kind = "extra" THEN paths
     ELSE {p \in paths : \A q \in paths : Rank(p, offers, c) <= Rank(q, offers, c)}

RightPaths(slug, c, dlcs) ==
  (UNION {Chosen(Products[slug][kind], kind, "base", c) : kind \in Kinds})
    \union UNION {Chosen(Products[d][kind], kind, "dlc", c) : kind \in Kinds, d \in dlcs}

\* The DLCs of a game that are owned, as far as it is known which are.
KnownDLCs(slug, known) == {d \in ToSet(Products[slug].dlcs) : known = {} \/ d \in known}

Right(s) == RightPaths(s, RunConf(s), KnownDLCs(s, owned))

\* When the threads are joined every listed game has an entry with the files
\* the configuration asks for, unless a request for it failed to the end, or
\* all threads gave up.  Nothing fails without a failure of the server or of
\* the network, or time passing between a look at the token and its use:
\* several threads may refresh the one token at once.
DetailsRight ==
  mpc = "ready" /\ ~useCache =>
    /\ \A s \in ToSet(items) \ failed :
         \/ \E e \in games : e.game = s /\ Paths(e) = Right(s)
         \/ s \in ToSet(queue) /\ \A t \in Workers : t <= Len(items) => t \in quit
    /\ calm => failed = {} /\ queue = <<>>

\* A DLC in the cache is filtered with the configuration of its own name, and
\* not with that of its base game.
OneConfig(s, c) == \A d \in ToSet(Products[s].dlcs) : ConfOf(d, c) = ConfOf(s, c)

\* The configurations of runs: the user's, that of the orphan check, and that of
\* the update.
RunConfs == Configs \union {Everything(c) : c \in Configs}
UpdateConfs == {[Everything(c) EXCEPT !.names = Games] : c \in Configs}

\* What may be known of the games that are owned.
Knowns == {{}} \union {A \union OwnedDLCs : A \in SUBSET Games}

\* The entry of a game for which every request was answered.
EntryOf(s, c, known) == Filtered(Details(s, c, known, {}), c)

\* A run that asks, and one that loads what an update has saved, find of a game
\* the files the configuration asks for: duplicates, languages and priorities
\* are treated alike on both ways.
ListsRight ==
  \A s \in Games, known \in Knowns :
    /\ \A c \in UpdateConfs \union {ConfOf(s, run) : run \in RunConfs} :
         Paths(EntryOf(s, c, known)) = RightPaths(s, c, KnownDLCs(s, known))
    /\ \A saved \in UpdateConfs, run \in RunConfs :
         s \in run.names /\ OneConfig(s, run) =>
           LET right == RightPaths(s, ConfOf(s, run), KnownDLCs(s, known))
               found == {Paths(e) : e \in Loaded({EntryOf(s, saved, known)}, run)}
           IN IF right = {} THEN found \subseteq {{}} ELSE found = {right}

\* A run that uses the cache finds the files it would have found by asking, for
\* every game whose entry was complete when the cache was saved (a game with a
\* configuration of its own and DLCs is excepted: see OneConfig), and it never
\* begins with a cache that was cut short, is of another version or too old.
CachedLikeAsked ==
  [][mpc = "load" /\ mpc' = "ready" =>
       /\ cache.kind = "saved" /\ cache.version = Version /\ cache.age <= CacheValid
       /\ \A s \in {e.game : e \in cache.games} \ (cache.bad \union {NoName}) :
            s \in conf.names /\ OneConfig(s, conf) =>
              LET right == RightPaths(s, ConfOf(s, conf), KnownDLCs(s, cache.owned))
                  found == {Paths(e) : e \in {g \in games' : g.game = s}}
              IN IF right = {} THEN found \subseteq {{}} ELSE found = {right}]_vars

\* What GOG has of a game and the DLCs owned
OnServer(f) ==
  /\ f.game \in ToSet(account)
  /\ f.path \in RightPaths(f.game, Everything(conf),
                          ToSet(Products[f.game].dlcs) \intersect OwnedDLCs)

\* The orphan check deletes no file that GOG has, unless a request for its game
\* failed (in this run or in the one that saved the cache), the game has a
\* configuration of its own, or a DLC of it in the cache has, or there is an
\* entry without a name: that one is looked up in the directory of all games.
OrphansUnwanted ==
  [][mpc = "ready" /\ op = "orphans" =>
       \A f \in disk \ disk' :
         OnServer(f) => \/ f.game \in failed \/ f.game \in DOMAIN Specific
                        \/ useCache /\ ~OneConfig(f.game, conf)
                        \/ \E e \in games : e.game = NoName]_vars

\* "Check for orphaned files (files found on local filesystem that are not
\* found on GOG servers)" (--check-orphans)
OrphansNotOnServer ==
  [][mpc = "ready" /\ op = "orphans" => \A f \in disk \ disk' : ~OnServer(f)]_vars
================================================================================
