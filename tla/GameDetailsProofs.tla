--------------------------- MODULE GameDetailsProofs ---------------------------
(* Proofs about GameDetails: types, that the listing by pages misses no game,  *)
(* that the lists of files are what a configuration asks for, also out of the  *)
(* cache, and that the threads, the cache and the orphan check find of a game  *)
(* what a user asks for, for any account, products, configurations, games      *)
(* bought meanwhile, page size, threads, retries and failures.                 *)
EXTENDS GameDetails, DataInduction, TLAPS

--------------------------------------------------------------------------------
(* The inductive invariant *)

\* What the lists are of, and what a thread holds at each place.
Shape ==
  /\ account \in Seq(Games) /\ before \in Seq(Games)
  /\ items \in Seq(Games) /\ queue \in Seq(Games)
  /\ answer \in [Workers -> -1 .. TokenLife]
  /\ DOMAIN ask = Workers /\ DOMAIN lost = Workers
  /\ \A t \in Workers :
       /\ pc[t] \in {"login", "site", "pop"} => item[t] = NoItem
       /\ pc[t] = "ask" => item[t] # NoItem
       /\ item[t] = NoItem => ask[t] = <<>>
       /\ pc[t] # "ask" => lost[t] = {}
       /\ pc[t] # "done" => mpc = "wait"
  /\ cache.kind = "saved" => cache.bad \subseteq Games

TypeInv == TypeOK /\ Shape

\* The game is in the account, behind the pages seen so far.
Ahead(s) == \E i \in 1 .. Len(account) : account[i] = s /\ i > (page - 1) * PageSize

\* A game of the account is among the items already, or still ahead.
Listing ==
  /\ page \in Nat \ {0} /\ (mpc # "list" => page = 1)
  /\ mpc = "list" =>
       \A s \in ToSet(before) : s \in conf.names => s \in ToSet(items) \/ Ahead(s)
  /\ ListingComplete

--------------------------------------------------------------------------------
(* Lists *)

LEMMA ToSetFacts ==
  ASSUME NEW S, NEW a \in Seq(S)
  PROVE  /\ ToSet(a) \subseteq S
         /\ \A x : x \in ToSet(a) <=> \E i \in 1 .. Len(a) : a[i] = x
  BY DEF ToSet

LEMMA ConcatSet ==
  ASSUME NEW S, NEW a \in Seq(S), NEW b \in Seq(S)
  PROVE  a \o b \in Seq(S) /\ ToSet(a \o b) = ToSet(a) \union ToSet(b)
  <1>1. a \o b \in Seq(S) /\ Len(a) \in Nat /\ Len(b) \in Nat /\ Len(a \o b) = Len(a) + Len(b)
    OBVIOUS
  <1>2. /\ \A i \in 1 .. Len(a) : (a \o b)[i] = a[i]
        /\ \A i \in 1 .. Len(b) : (a \o b)[Len(a) + i] = b[i]
    OBVIOUS
  <1>3. ASSUME NEW x \in ToSet(a \o b) PROVE x \in ToSet(a) \union ToSet(b)
    <2>1. PICK i \in 1 .. Len(a \o b) : (a \o b)[i] = x
      BY <1>1, ToSetFacts
    <2>2. CASE i \in 1 .. Len(a)
      BY <1>2, <2>1, <2>2, ToSetFacts
    <2>3. CASE i \notin 1 .. Len(a)
      <3>1. PICK k \in 1 .. Len(b) : i = Len(a) + k
        <4>1. i - Len(a) \in 1 .. Len(b) /\ i = Len(a) + (i - Len(a))
          BY <1>1, <2>3
        <4> QED BY <4>1
      <3>2. b[k] = x
        BY <1>2, <2>1, <3>1
      <3> QED BY <3>2, ToSetFacts
    <2> QED BY <2>2, <2>3
  <1>4. ASSUME NEW x \in ToSet(a) PROVE x \in ToSet(a \o b)
    <2>1. PICK i \in 1 .. Len(a) : a[i] = x
      BY ToSetFacts
    <2>2. i \in 1 .. Len(a \o b) /\ (a \o b)[i] = x
      BY <1>1, <1>2, <2>1
    <2> QED BY <1>1, <2>2, ToSetFacts
  <1>5. ASSUME NEW x \in ToSet(b) PROVE x \in ToSet(a \o b)
    <2>1. PICK i \in 1 .. Len(b) : b[i] = x
      BY ToSetFacts
    <2>2. Len(a) + i \in 1 .. Len(a \o b) /\ (a \o b)[Len(a) + i] = x
      BY <1>1, <1>2, <2>1
    <2> QED BY <1>1, <2>2, ToSetFacts
  <1> QED BY <1>1, <1>3, <1>4, <1>5

\* A page that is not the last is full.
LEMMA PageFacts ==
  ASSUME account \in Seq(Games), page \in Nat \ {0}
  PROVE  /\ PageOf(page) \in Seq(Games)
         /\ \A i \in 1 .. Len(account) : i > (page - 1) * PageSize /\ i <= page * PageSize =>
              \E k \in 1 .. Len(PageOf(page)) : PageOf(page)[k] = account[i]
         /\ LastPage => Len(account) <= page * PageSize
  <1> DEFINE L == Len(account)
  <1>0. L \in Nat /\ PageSize \in Nat \ {0}
    BY CountsAssumption
  <1>1. PICK x, y : x = (page - 1) * PageSize /\ y = page * PageSize
    OBVIOUS
  <1>2. x \in Nat /\ y \in Nat /\ y = x + PageSize
    BY <1>0, <1>1
  <1>3. PICK e : e = IF y < L THEN y ELSE L
    OBVIOUS
  <1>4. PageOf(page) = SubSeq(account, x + 1, e) /\ e \in Nat /\ e <= L
    <2>1. PageOf(page) = SubSeq(account, x + 1, IF y < L THEN y ELSE L)
      BY <1>1, Zenon DEF PageOf
    <2>2. e \in Nat /\ e <= L
      BY <1>0, <1>2, <1>3
    <2> QED BY <1>3, <2>1, <2>2
  <1>5. SubSeq(account, x + 1, e) \in Seq(Games)
    BY <1>2, <1>4
  <1>6. ASSUME NEW i \in 1 .. L, i > x, i <= y
        PROVE  \E k \in 1 .. Len(SubSeq(account, x + 1, e)) :
                 SubSeq(account, x + 1, e)[k] = account[i]
    <2>1. i - x \in 1 .. Len(SubSeq(account, x + 1, e)) /\ x + (i - x) = i
      BY <1>2, <1>3, <1>4, <1>6
    <2>2. SubSeq(account, x + 1, e)[i - x] = account[i]
      BY <1>2, <1>4, <2>1
    <2> QED BY <2>1, <2>2
  <1>7. LastPage => L <= y
    <2>1. CASE TotalPages = 0
      BY <1>0, <2>1, <1>2 DEF TotalPages
    <2>2. CASE page = TotalPages
      BY <1>0, <1>1, <1>2, <2>2 DEF TotalPages
    <2> QED BY <2>1, <2>2 DEF LastPage
  <1> QED BY <1>1, <1>4, <1>5, <1>6, <1>7

LEMMA FoundFacts ==
  ASSUME account \in Seq(Games), page \in Nat \ {0}
  PROVE  /\ Found \in Seq(Games)
         /\ \A k \in 1 .. Len(PageOf(page)) :
              PageOf(page)[k] \in conf.names => PageOf(page)[k] \in ToSet(Found)
  <1>1. PICK p : p = PageOf(page)
    OBVIOUS
  <1> DEFINE n == Len(p)
             s == [i \in 1 .. n |-> IF p[i] \in conf.names THEN <<p[i]>> ELSE <<>>]
  <1>2. p \in Seq(Games) /\ n \in Nat /\ DOMAIN p = 1 .. n
    BY <1>1, PageFacts
  <1>3. s \in Seq(Seq(Games)) /\ Len(s) = n
    BY <1>2
  <1>4. Found = FlattenSeq(s)
    BY <1>1, <1>2 DEF Found
  <1>5. ASSUME NEW k \in 1 .. n, p[k] \in conf.names PROVE p[k] \in ToSet(Found)
    <2>1. s[k] = <<p[k]>>
      BY <1>5
    <2>2. PICK w : w = FlattenSeq(s)
      OBVIOUS
    <2>3. k \in 1 .. Len(s) /\ p[k] \in ToSet(s[k])
      BY <1>3, <2>1 DEF ToSet
    <2> HIDE DEF s
    <2>4. ToSet(s[k]) \subseteq ToSet(w)
      BY <1>3, <2>2, <2>3, FlattenFacts
    <2> QED BY <1>4, <2>2, <2>3, <2>4
  <1> HIDE DEF s
  <1>6. Found \in Seq(Games)
    BY <1>3, <1>4, FlattenFacts
  <1> QED BY <1>1, <1>5, <1>6

--------------------------------------------------------------------------------
(* Types *)

LEMMA InitType == Init => TypeInv
  <1> SUFFICES ASSUME Init PROVE TypeInv
    OBVIOUS
  <1> USE DEF Init, Idle
  <1>1. account \in Seq(Games) /\ before \in Seq(Games) /\ items \in Seq(Games) /\ queue \in Seq(Games)
    BY GamesAssumption
  <1>2. ToSet(items) = {} /\ ToSet(queue) = {}
    BY DEF ToSet
  <1>3. cache.kind = "saved" => cache.bad \subseteq Games
    BY DEF NoCache, CacheOf
  <1>4. TypeOK
    <2>1. token \in [server : -1 .. TokenLife, client : -1 .. TokenLife]
      BY CountsAssumption
    <2>2. faults \in 0 .. MaxFaults
      BY CountsAssumption
    <2> QED BY <1>2, <2>1, <2>2 DEF TypeOK
  <1>5. answer \in [Workers -> -1 .. TokenLife]
    BY CountsAssumption
  <1>6. Shape
    BY <1>1, <1>3, <1>5 DEF Shape
  <1> QED BY <1>4, <1>6 DEF TypeInv

LEMMA FaultFact ==
  ASSUME TypeOK, Fault
  PROVE  faults' \in 0 .. MaxFaults
  BY CountsAssumption DEF TypeOK, Fault

\* A process that ends, or begins, holds nothing.
LEMMA ExitType ==
  ASSUME TypeInv, Exit, account' \in Seq(Games), token' = token,
         faults' \in 0 .. MaxFaults, cache'.kind = "saved" => cache'.bad \subseteq Games
  PROVE  TypeInv'
  <1> USE DEF Exit
  <1>1. before' \in Seq(Games) /\ items' \in Seq(Games) /\ queue' \in Seq(Games)
    OBVIOUS
  <1>2. ToSet(items') = {} /\ ToSet(queue') = {}
    BY DEF ToSet
  <1>3. TypeOK'
    BY <1>2 DEF TypeInv, TypeOK
  <1>4. answer' \in [Workers -> -1 .. TokenLife]
    BY CountsAssumption
  <1>5. Shape'
    BY <1>1, <1>4 DEF Shape
  <1> QED BY <1>3, <1>5 DEF TypeInv

LEMMA TickType == TypeInv /\ Tick => TypeInv'
  <1> SUFFICES ASSUME TypeInv, Tick PROVE TypeInv'
    OBVIOUS
  <1> USE DEF TypeInv, Tick, main, thread
  <1>1. \A n \in -1 .. TokenLife : Down(n) \in -1 .. TokenLife
    BY CountsAssumption DEF Down
  <1>2. token' \in [server : -1 .. TokenLife, client : -1 .. TokenLife]
    BY <1>1 DEF TypeOK
  <1>3. answer' \in [Workers -> -1 .. TokenLife]
    BY <1>1 DEF Shape
  <1>4. cache'.kind = "saved" => cache'.bad \subseteq Games
    BY DEF Shape
  <1>5. TypeOK'
    BY <1>2 DEF TypeOK
  <1>6. Shape'
    BY <1>3, <1>4 DEF Shape
  <1> QED BY <1>5, <1>6

LEMMA BuyType == TypeInv /\ Buy => TypeInv'
  <1> SUFFICES ASSUME TypeInv, Buy PROVE TypeInv'
    OBVIOUS
  <1> USE DEF TypeInv, Buy, main, thread, history
  <1>1. account' \in Seq(Games)
    <2>1. PICK s \in Bought, i \in 0 .. Len(account) :
            account' = SubSeq(account, 1, i) \o <<s>> \o SubSeq(account, i + 1, Len(account))
      OBVIOUS
    <2>2. account \in Seq(Games) /\ s \in Games
      BY DEF Shape, Games
    <2>3. SubSeq(account, 1, i) \in Seq(Games) /\ SubSeq(account, i + 1, Len(account)) \in Seq(Games)
      BY <2>2
    <2>4. <<s>> \in Seq(Games)
      BY <2>2
    <2> QED BY <2>1, <2>3, <2>4, ConcatSet
  <1>2. TypeOK'
    BY DEF TypeOK
  <1>3. Shape'
    BY <1>1 DEF Shape
  <1> QED BY <1>2, <1>3

LEMMA CrashType == TypeInv /\ Crash => TypeInv'
  <1> SUFFICES ASSUME TypeInv, Crash PROVE TypeInv'
    OBVIOUS
  <1>1. faults' \in 0 .. MaxFaults
    BY FaultFact DEF Crash, TypeInv
  <1>2. /\ account' \in Seq(Games) /\ token' = token /\ Exit
        /\ cache'.kind = "saved" => cache'.bad \subseteq Games
    BY DEF Crash, TypeInv, Shape, env
  <1> QED BY <1>1, <1>2, ExitType

LEMMA BeginType == TypeInv /\ Begin => TypeInv'
  <1> SUFFICES ASSUME TypeInv, NEW o \in Ops, NEW cached \in BOOLEAN, NEW c \in Configs,
                      Start(o, cached, c)
               PROVE  TypeInv'
    BY DEF Begin
  <1> USE DEF TypeInv, Start, thread, history
  <1>1. token' \in [server : -1 .. TokenLife, client : -1 .. TokenLife]
    BY CountsAssumption DEF TypeOK, NewToken
  <1>2. mpc' \in {"load", "owned"} /\ op' \in {"update", "download", "orphans", "both"}
    BY OpsAssumption
  <1>3. TypeOK'
    BY <1>1, <1>2 DEF TypeOK
  <1>4. Shape'
    BY DEF Shape
  <1> QED BY <1>3, <1>4

LEMMA GetOwnedType == \A ok \in BOOLEAN : TypeInv /\ GetOwned(ok) => TypeInv'
  <1> SUFFICES ASSUME NEW ok \in BOOLEAN, TypeInv, GetOwned(ok) PROVE TypeInv'
    OBVIOUS
  <1> USE DEF TypeInv, GetOwned, env, thread
  <1>1. faults' \in 0 .. MaxFaults
    BY FaultFact DEF TypeOK
  <1>2. TypeOK'
    BY <1>1 DEF TypeOK
  <1>3. Shape'
    BY DEF Shape
  <1> QED BY <1>2, <1>3

LEMMA GetPageType ==
  ASSUME NEW ok \in BOOLEAN, TypeInv, page \in Nat \ {0}, GetPage(ok)
  PROVE  TypeInv'
  <1> USE DEF TypeInv, GetPage, env, thread, history
  <1>1. faults' \in 0 .. MaxFaults /\ mpc' \in {"list", "ready", "start"}
    BY FaultFact DEF TypeOK
  <1>2. items' \in Seq(Games)
    <2>1. account \in Seq(Games) /\ items \in Seq(Games)
      BY DEF Shape
    <2>2. items' \in {items, items \o Found}
      OBVIOUS
    <2>3. Found \in Seq(Games)
      BY <2>1, FoundFacts
    <2>4. items \o Found \in Seq(Games)
      BY <2>1, <2>3, ConcatSet
    <2> QED BY <2>1, <2>2, <2>4
  <1>3. ToSet(items') \subseteq Games
    BY <1>2, ToSetFacts
  <1>4. TypeOK'
    BY <1>1, <1>3 DEF TypeOK
  <1>5. Shape'
    BY <1>2 DEF Shape
  <1> QED BY <1>4, <1>5

LEMMA StartThreadsType == TypeInv /\ StartThreads => TypeInv'
  <1> SUFFICES ASSUME TypeInv, StartThreads PROVE TypeInv'
    OBVIOUS
  <1> USE DEF TypeInv, StartThreads, env, main
  <1>1. queue' \in Seq(Games)
    BY ConcatSet DEF Shape
  <1>2. ToSet(queue') \subseteq Games
    BY <1>1, ToSetFacts
  <1>3. \A t \in Workers : pc'[t] \in {"login", "done"} /\ item'[t] = NoItem /\ ask'[t] = <<>>
    OBVIOUS
  <1>4. TypeOK'
    BY <1>2, <1>3 DEF TypeOK
  <1>5. \A t \in Workers : lost'[t] = {}
    BY DEF Shape
  <1>6. Shape'
    BY <1>1, <1>3, <1>5 DEF Shape
  <1> QED BY <1>4, <1>6

LEMMA JoinThreadsType == TypeInv /\ JoinThreads => TypeInv'
  <1> SUFFICES ASSUME TypeInv, JoinThreads PROVE TypeInv'
    OBVIOUS
  <1> USE DEF TypeInv, JoinThreads, env, thread, history
  <1>1. TypeOK'
    BY DEF TypeOK
  <1>2. Shape'
    BY DEF Shape
  <1> QED BY <1>1, <1>2

LEMMA LoadCacheType == TypeInv /\ LoadCache => TypeInv'
  <1> SUFFICES ASSUME TypeInv, LoadCache PROVE TypeInv'
    OBVIOUS
  <1> USE DEF TypeInv, LoadCache, env, thread
  <1>1. failed' \subseteq Games
    BY DEF Shape, Loadable
  <1>2. TypeOK'
    BY <1>1 DEF TypeOK
  <1>3. Shape'
    BY DEF Shape
  <1> QED BY <1>2, <1>3

LEMMA OpenCacheType == \A ok \in BOOLEAN : TypeInv /\ OpenCache(ok) => TypeInv'
  <1> SUFFICES ASSUME NEW ok \in BOOLEAN, TypeInv, OpenCache(ok) PROVE TypeInv'
    OBVIOUS
  <1> USE DEF OpenCache, env
  <1>1. CASE games # {} /\ ok
    <2> USE DEF TypeInv, main, thread, history
    <2>1. cache'.kind # "saved"
      BY <1>1 DEF CutCache
    <2>2. TypeOK'
      BY <1>1 DEF TypeOK
    <2>3. Shape'
      BY <1>1, <2>1 DEF Shape
    <2> QED BY <2>2, <2>3
  <1>2. CASE ~(games # {} /\ ok)
    <2>1. faults' \in 0 .. MaxFaults
      BY <1>2, FaultFact DEF TypeInv, TypeOK
    <2>2. /\ Exit /\ account' \in Seq(Games) /\ token' = token
          /\ cache'.kind = "saved" => cache'.bad \subseteq Games
      BY <1>2 DEF TypeInv, Shape
    <2> QED BY <2>1, <2>2, ExitType
  <1> QED BY <1>1, <1>2

LEMMA WriteCacheType == TypeInv /\ WriteCache => TypeInv'
  <1> SUFFICES ASSUME TypeInv, WriteCache PROVE TypeInv'
    OBVIOUS
  <1> USE DEF WriteCache, env
  <1>1. cache'.bad = failed \union ToSet(queue)
    BY DEF CacheOf
  <1>2. cache'.bad \subseteq Games
    BY <1>1 DEF TypeInv, TypeOK
  <1>3. Exit /\ account' \in Seq(Games) /\ token' = token /\ faults' \in 0 .. MaxFaults
    BY DEF TypeInv, TypeOK, Shape
  <1> QED BY <1>2, <1>3, ExitType

LEMMA DownloadType == \A all \in BOOLEAN : TypeInv /\ Download(all) => TypeInv'
  <1> SUFFICES ASSUME NEW all \in BOOLEAN, TypeInv, Download(all) PROVE TypeInv'
    OBVIOUS
  <1>1. faults' \in 0 .. MaxFaults
    BY FaultFact DEF Download, TypeInv, TypeOK
  <1>2. CASE op = "download"
    <2>1. /\ Exit /\ account' \in Seq(Games) /\ token' = token
          /\ cache'.kind = "saved" => cache'.bad \subseteq Games
      BY <1>2 DEF Download, TypeInv, Shape, env
    <2> QED BY <1>1, <2>1, ExitType
  <1>3. CASE op # "download"
    <2>1. /\ op' = "orphans" /\ mpc' \in {"load", "owned"} /\ items' = <<>> /\ failed' = {}
          /\ UNCHANGED <<env, cache, page, owned, queue, results, thread, before, quit, calm>>
          /\ mpc = "ready"
      BY <1>3 DEF Download
    <2> USE DEF TypeInv, env, thread
    <2>2. ToSet(items') = {}
      BY <2>1 DEF ToSet
    <2>3. TypeOK'
      BY <1>1, <2>1, <2>2 DEF TypeOK
    <2>4. Shape'
      BY <2>1 DEF Shape
    <2> QED BY <2>3, <2>4
  <1> QED BY <1>2, <1>3

LEMMA EndType == TypeInv /\ (LoadFails \/ CheckOrphans) => TypeInv'
  <1> SUFFICES ASSUME TypeInv, LoadFails \/ CheckOrphans PROVE TypeInv'
    OBVIOUS
  <1>1. /\ Exit /\ account' \in Seq(Games) /\ token' = token /\ faults' \in 0 .. MaxFaults
        /\ cache'.kind = "saved" => cache'.bad \subseteq Games
    BY DEF LoadFails, CheckOrphans, TypeInv, TypeOK, Shape, env
  <1> QED BY <1>1, ExitType

--------------------------------------------------------------------------------
(* Types: the threads *)

\* What all of their steps leave alone
LEMMA WorkerType ==
  ASSUME TypeInv, MainSame, before' = before,
         token' \in [server : -1 .. TokenLife, client : -1 .. TokenLife],
         pc' \in [Workers -> {"done", "login", "refresh", "set", "site", "pop", "ask"}],
         item' \in [Workers -> Games \union {NoItem}],
         queue' \in Seq(Games), answer' \in [Workers -> -1 .. TokenLife],
         DOMAIN ask' = Workers, DOMAIN lost' = Workers,
         failed' \subseteq Games, quit' \subseteq Workers, faults' \in 0 .. MaxFaults,
         mpc = "wait",
         \A t \in Workers :
           /\ pc'[t] \in {"login", "site", "pop"} => item'[t] = NoItem
           /\ pc'[t] = "ask" => item'[t] # NoItem
           /\ item'[t] = NoItem => ask'[t] = <<>>
           /\ pc'[t] # "ask" => lost'[t] = {}
  PROVE  TypeInv'
  <1> USE DEF TypeInv, MainSame, main
  <1>1. ToSet(queue') \subseteq Games
    BY ToSetFacts
  <1>2. ToSet(items') \union ToSet(queue') \subseteq Games
    BY <1>1 DEF TypeOK
  <1>3. TypeOK'
    BY <1>2 DEF TypeOK
  <1>4. Shape'
    BY DEF Shape
  <1> QED BY <1>3, <1>4

LEMMA LoginType ==
  ASSUME NEW t \in Workers, TypeInv, Login(t)
  PROVE  TypeInv'
  <1> USE DEF TypeInv, Login, Goto, Undisturbed
  <1>1. /\ MainSame /\ before' = before /\ mpc = "wait"
        /\ failed' \subseteq Games /\ quit' \subseteq Workers
    BY DEF TypeOK, Shape
  <1>2. /\ token' \in [server : -1 .. TokenLife, client : -1 .. TokenLife]
        /\ answer' \in [Workers -> -1 .. TokenLife]
    BY DEF TypeOK, Shape
  <1>3. faults' \in 0 .. MaxFaults
    BY DEF TypeOK
  <1>4. queue' \in Seq(Games)
    BY DEF Shape
  <1>5. /\ pc' \in [Workers -> {"done", "login", "refresh", "set", "site", "pop", "ask"}]
        /\ item' \in [Workers -> Games \union {NoItem}]
    BY DEF TypeOK, Shape
  <1>6. DOMAIN ask' = Workers /\ DOMAIN lost' = Workers
    BY DEF Shape
  <1>7. ASSUME NEW u \in Workers
        PROVE  /\ pc'[u] \in {"login", "site", "pop"} => item'[u] = NoItem
               /\ pc'[u] = "ask" => item'[u] # NoItem
               /\ item'[u] = NoItem => ask'[u] = <<>>
               /\ pc'[u] # "ask" => lost'[u] = {}
    BY DEF TypeOK, Shape
  <1> QED BY <1>1, <1>2, <1>3, <1>4, <1>5, <1>6, <1>7, WorkerType

LEMMA RefreshType ==
  ASSUME NEW t \in Workers, NEW ok \in BOOLEAN, TypeInv, Refresh(t, ok)
  PROVE  TypeInv'
  <1> USE DEF TypeInv, Refresh, Goto, Undisturbed
  <1>1. /\ MainSame /\ before' = before /\ mpc = "wait"
        /\ failed' \subseteq Games /\ quit' \subseteq Workers
    BY DEF TypeOK, Shape
  <1>2. /\ token' \in [server : -1 .. TokenLife, client : -1 .. TokenLife]
        /\ answer' \in [Workers -> -1 .. TokenLife]
    <2>1. TokenLife \in -1 .. TokenLife /\ answer \in [Workers -> -1 .. TokenLife]
      BY CountsAssumption DEF Shape
    <2>2. answer' = answer \/ answer' = [answer EXCEPT ![t] = TokenLife]
      OBVIOUS
    <2>3. answer' \in [Workers -> -1 .. TokenLife]
      BY <2>1, <2>2
    <2>4. token' \in [server : -1 .. TokenLife, client : -1 .. TokenLife]
      BY <2>1 DEF TypeOK
    <2> QED BY <2>3, <2>4
  <1>3. faults' \in 0 .. MaxFaults
    BY FaultFact DEF TypeOK, Disturbed
  <1>4. queue' \in Seq(Games)
    BY DEF Shape
  <1>5. /\ pc' \in [Workers -> {"done", "login", "refresh", "set", "site", "pop", "ask"}]
        /\ item' \in [Workers -> Games \union {NoItem}]
    BY DEF TypeOK, Shape
  <1>6. DOMAIN ask' = Workers /\ DOMAIN lost' = Workers
    BY DEF Shape
  <1>7. ASSUME NEW u \in Workers
        PROVE  /\ pc'[u] \in {"login", "site", "pop"} => item'[u] = NoItem
               /\ pc'[u] = "ask" => item'[u] # NoItem
               /\ item'[u] = NoItem => ask'[u] = <<>>
               /\ pc'[u] # "ask" => lost'[u] = {}
    BY DEF TypeOK, Shape
  <1> QED BY <1>1, <1>2, <1>3, <1>4, <1>5, <1>6, <1>7, WorkerType

LEMMA SetTokenType ==
  ASSUME NEW t \in Workers, TypeInv, SetToken(t)
  PROVE  TypeInv'
  <1> USE DEF TypeInv, SetToken, Goto, Undisturbed
  <1>1. /\ MainSame /\ before' = before /\ mpc = "wait"
        /\ failed' \subseteq Games /\ quit' \subseteq Workers
    BY DEF TypeOK, Shape
  <1>2. /\ token' \in [server : -1 .. TokenLife, client : -1 .. TokenLife]
        /\ answer' \in [Workers -> -1 .. TokenLife]
    BY CountsAssumption DEF TypeOK, Shape, NewToken
  <1>3. faults' \in 0 .. MaxFaults
    BY DEF TypeOK
  <1>4. queue' \in Seq(Games)
    BY DEF Shape
  <1>5. /\ pc' \in [Workers -> {"done", "login", "refresh", "set", "site", "pop", "ask"}]
        /\ item' \in [Workers -> Games \union {NoItem}]
    BY DEF TypeOK, Shape
  <1>6. DOMAIN ask' = Workers /\ DOMAIN lost' = Workers
    BY DEF Shape
  <1>7. ASSUME NEW u \in Workers
        PROVE  /\ pc'[u] \in {"login", "site", "pop"} => item'[u] = NoItem
               /\ pc'[u] = "ask" => item'[u] # NoItem
               /\ item'[u] = NoItem => ask'[u] = <<>>
               /\ pc'[u] # "ask" => lost'[u] = {}
    BY DEF TypeOK, Shape
  <1> QED BY <1>1, <1>2, <1>3, <1>4, <1>5, <1>6, <1>7, WorkerType

LEMMA CheckSiteType ==
  ASSUME NEW t \in Workers, NEW ok \in BOOLEAN, TypeInv, CheckSite(t, ok)
  PROVE  TypeInv'
  <1> USE DEF TypeInv, CheckSite, Goto, Undisturbed
  <1>1. /\ MainSame /\ before' = before /\ mpc = "wait"
        /\ failed' \subseteq Games /\ quit' \subseteq Workers
    BY DEF TypeOK, Shape
  <1>2. /\ token' \in [server : -1 .. TokenLife, client : -1 .. TokenLife]
        /\ answer' \in [Workers -> -1 .. TokenLife]
    BY DEF TypeOK, Shape
  <1>3. faults' \in 0 .. MaxFaults
    BY FaultFact DEF TypeOK, Disturbed
  <1>4. queue' \in Seq(Games)
    BY DEF Shape
  <1>5. /\ pc' \in [Workers -> {"done", "login", "refresh", "set", "site", "pop", "ask"}]
        /\ item' \in [Workers -> Games \union {NoItem}]
    BY DEF TypeOK, Shape
  <1>6. DOMAIN ask' = Workers /\ DOMAIN lost' = Workers
    BY DEF Shape
  <1>7. ASSUME NEW u \in Workers
        PROVE  /\ pc'[u] \in {"login", "site", "pop"} => item'[u] = NoItem
               /\ pc'[u] = "ask" => item'[u] # NoItem
               /\ item'[u] = NoItem => ask'[u] = <<>>
               /\ pc'[u] # "ask" => lost'[u] = {}
    BY DEF TypeOK, Shape
  <1> QED BY <1>1, <1>2, <1>3, <1>4, <1>5, <1>6, <1>7, WorkerType

LEMMA PopType ==
  ASSUME NEW t \in Workers, TypeInv, Pop(t)
  PROVE  TypeInv'
  <1> USE DEF TypeInv, Pop, Goto, Undisturbed
  <1>1. /\ MainSame /\ before' = before /\ mpc = "wait"
        /\ failed' \subseteq Games /\ quit' \subseteq Workers
    BY DEF TypeOK, Shape
  <1>2. /\ token' \in [server : -1 .. TokenLife, client : -1 .. TokenLife]
        /\ answer' \in [Workers -> -1 .. TokenLife]
    BY DEF TypeOK, Shape
  <1>3. faults' \in 0 .. MaxFaults
    BY DEF TypeOK
  <1>4. queue' \in Seq(Games)
    BY DEF Shape
  <1>5. /\ pc' \in [Workers -> {"done", "login", "refresh", "set", "site", "pop", "ask"}]
        /\ item' \in [Workers -> Games \union {NoItem}]
    BY DEF TypeOK, Shape
  <1>6. DOMAIN ask' = Workers /\ DOMAIN lost' = Workers
    BY DEF Shape
  <1>7. ASSUME NEW u \in Workers
        PROVE  /\ pc'[u] \in {"login", "site", "pop"} => item'[u] = NoItem
               /\ pc'[u] = "ask" => item'[u] # NoItem
               /\ item'[u] = NoItem => ask'[u] = <<>>
               /\ pc'[u] # "ask" => lost'[u] = {}
    <2>1. Head(queue) \in Games /\ Head(queue) # NoItem
      BY GamesAssumption DEF Shape
    <2>2. CASE u = t
      <3>1. item'[t] = Head(queue) /\ pc'[t] \in {"refresh", "ask"} /\ lost'[t] = {}
        BY DEF TypeOK, Shape
      <3> QED BY <2>1, <2>2, <3>1
    <2>3. CASE u # t
      BY <2>3 DEF TypeOK, Shape
    <2> QED BY <2>2, <2>3
  <1> QED BY <1>1, <1>2, <1>3, <1>4, <1>5, <1>6, <1>7, WorkerType

LEMMA FinishType ==
  ASSUME NEW t \in Workers, TypeInv, Finish(t)
  PROVE  TypeInv'
  <1> USE DEF TypeInv, Finish, Goto, Undisturbed
  <1>1. /\ MainSame /\ before' = before /\ mpc = "wait"
        /\ failed' \subseteq Games /\ quit' \subseteq Workers
    BY DEF TypeOK, Shape
  <1>2. /\ token' \in [server : -1 .. TokenLife, client : -1 .. TokenLife]
        /\ answer' \in [Workers -> -1 .. TokenLife]
    BY DEF TypeOK, Shape
  <1>3. faults' \in 0 .. MaxFaults
    BY DEF TypeOK
  <1>4. queue' \in Seq(Games)
    BY DEF Shape
  <1>5. /\ pc' \in [Workers -> {"done", "login", "refresh", "set", "site", "pop", "ask"}]
        /\ item' \in [Workers -> Games \union {NoItem}]
    BY DEF TypeOK, Shape
  <1>6. DOMAIN ask' = Workers /\ DOMAIN lost' = Workers
    BY DEF Shape
  <1>7. ASSUME NEW u \in Workers
        PROVE  /\ pc'[u] \in {"login", "site", "pop"} => item'[u] = NoItem
               /\ pc'[u] = "ask" => item'[u] # NoItem
               /\ item'[u] = NoItem => ask'[u] = <<>>
               /\ pc'[u] # "ask" => lost'[u] = {}
    BY DEF TypeOK, Shape
  <1> QED BY <1>1, <1>2, <1>3, <1>4, <1>5, <1>6, <1>7, WorkerType

LEMMA AskType ==
  ASSUME NEW t \in Workers, NEW n \in 0 .. Tries, NEW r \in {"answered", "exhausted", "error"}, TypeInv, Ask(t, n, r)
  PROVE  TypeInv'
  <1> USE DEF TypeInv, Ask, Goto, Undisturbed
  <1>1. /\ MainSame /\ before' = before /\ mpc = "wait"
        /\ failed' \subseteq Games /\ quit' \subseteq Workers
    BY DEF TypeOK, Shape
  <1>2. /\ token' \in [server : -1 .. TokenLife, client : -1 .. TokenLife]
        /\ answer' \in [Workers -> -1 .. TokenLife]
    BY DEF TypeOK, Shape
  <1>3. faults' \in 0 .. MaxFaults
    <2>1. PICK failures : failures = CASE r = "answered" -> n
                       [] r = "error" -> n + 1
                       [] r = "exhausted" -> IF Refused(t) THEN 0 ELSE n
      OBVIOUS
    <2>2. Tries \in Nat /\ n \in Nat
      BY CountsAssumption DEF Tries
    <2>3. failures \in Nat
      BY <2>1, <2>2
    <2>4. faults + failures <= MaxFaults /\ faults' = faults + failures
      BY <2>1
    <2>5. faults \in Nat /\ MaxFaults \in Nat
      BY CountsAssumption DEF TypeOK
    <2> QED BY <2>3, <2>4, <2>5
  <1>4. queue' \in Seq(Games)
    BY DEF Shape
  <1>5. /\ pc' \in [Workers -> {"done", "login", "refresh", "set", "site", "pop", "ask"}]
        /\ item' \in [Workers -> Games \union {NoItem}]
    BY DEF TypeOK, Shape
  <1>6. DOMAIN ask' = Workers /\ DOMAIN lost' = Workers
    BY DEF Shape
  <1>7. ASSUME NEW u \in Workers
        PROVE  /\ pc'[u] \in {"login", "site", "pop"} => item'[u] = NoItem
               /\ pc'[u] = "ask" => item'[u] # NoItem
               /\ item'[u] = NoItem => ask'[u] = <<>>
               /\ pc'[u] # "ask" => lost'[u] = {}
    BY DEF TypeOK, Shape
  <1> QED BY <1>1, <1>2, <1>3, <1>4, <1>5, <1>6, <1>7, WorkerType

LEMMA PushType ==
  ASSUME NEW t \in Workers, TypeInv, Push(t)
  PROVE  TypeInv'
  <1> USE DEF TypeInv, Push, Goto, Undisturbed
  <1>1. /\ MainSame /\ before' = before /\ mpc = "wait"
        /\ failed' \subseteq Games /\ quit' \subseteq Workers
    BY DEF TypeOK, Shape
  <1>2. /\ token' \in [server : -1 .. TokenLife, client : -1 .. TokenLife]
        /\ answer' \in [Workers -> -1 .. TokenLife]
    BY DEF TypeOK, Shape
  <1>3. faults' \in 0 .. MaxFaults
    BY DEF TypeOK
  <1>4. queue' \in Seq(Games)
    BY DEF Shape
  <1>5. /\ pc' \in [Workers -> {"done", "login", "refresh", "set", "site", "pop", "ask"}]
        /\ item' \in [Workers -> Games \union {NoItem}]
    BY DEF TypeOK, Shape
  <1>6. DOMAIN ask' = Workers /\ DOMAIN lost' = Workers
    BY DEF Shape
  <1>7. ASSUME NEW u \in Workers
        PROVE  /\ pc'[u] \in {"login", "site", "pop"} => item'[u] = NoItem
               /\ pc'[u] = "ask" => item'[u] # NoItem
               /\ item'[u] = NoItem => ask'[u] = <<>>
               /\ pc'[u] # "ask" => lost'[u] = {}
    BY DEF TypeOK, Shape
  <1> QED BY <1>1, <1>2, <1>3, <1>4, <1>5, <1>6, <1>7, WorkerType

LEMMA WorkersType == \A t \in Workers : TypeInv /\ Worker(t) => TypeInv'
  <1> SUFFICES ASSUME NEW t \in Workers, TypeInv, Worker(t) PROVE TypeInv'
    OBVIOUS
  <1>1. CASE \E ok \in BOOLEAN : Refresh(t, ok) \/ CheckSite(t, ok)
    BY <1>1, RefreshType, CheckSiteType
  <1>2. CASE \E n \in 0 .. Tries, r \in {"answered", "exhausted", "error"} : Ask(t, n, r)
    BY <1>2, AskType
  <1>3. CASE Login(t) \/ SetToken(t) \/ Pop(t) \/ Finish(t) \/ Push(t)
    BY <1>3, LoginType, SetTokenType, PopType, FinishType, PushType
  <1> QED BY <1>1, <1>2, <1>3 DEF Worker

--------------------------------------------------------------------------------
(* The listing *)

LEMMA InitListing == Init => Listing
  BY DEF Init, Idle, Listing, ListingComplete

\* A process that is not listing has page 1 to begin with.
LEMMA NotListing ==
  ASSUME page' = 1, mpc' \notin {"list", "start"}
  PROVE  Listing'
  BY DEF Listing, ListingComplete

LEMMA Between ==
  ASSUME NEW T, NEW a \in Seq(T), NEW x \in T, NEW c \in Seq(T)
  PROVE  /\ Len(a \o <<x>> \o c) = Len(a) + 1 + Len(c)
         /\ \A j \in 1 .. Len(a) : (a \o <<x>> \o c)[j] = a[j]
         /\ \A j \in 1 .. Len(c) : (a \o <<x>> \o c)[j + (Len(a) + 1)] = c[j]
  <1>1. PICK b : b = a \o <<x>>
    OBVIOUS
  <1>2. <<x>> \in Seq(T) /\ Len(<<x>>) = 1
    OBVIOUS
  <1>3. b \in Seq(T) /\ Len(b) = Len(a) + 1 /\ \A j \in 1 .. Len(a) : b[j] = a[j]
    BY <1>1, <1>2, ConcatPlaces
  <1>4. /\ Len(b \o c) = Len(b) + Len(c)
        /\ \A j \in 1 .. Len(b) : (b \o c)[j] = b[j]
        /\ \A j \in 1 .. Len(c) : (b \o c)[j + Len(b)] = c[j]
    <2>1. b \in Seq(T)
      BY <1>3
    <2> QED BY <2>1, ConcatPlaces
  <1>5. \A j \in 1 .. Len(a) : j \in 1 .. Len(b)
    BY <1>3
  <1>6. /\ Len(b \o c) = Len(a) + 1 + Len(c)
        /\ \A j \in 1 .. Len(a) : (b \o c)[j] = a[j]
        /\ \A j \in 1 .. Len(c) : (b \o c)[j + (Len(a) + 1)] = c[j]
    BY <1>3, <1>4, <1>5, Zenon
  <1> QED BY <1>1, <1>6, Zenon

\* Inserting x behind the k-th element moves the i-th by one place or not at all.
Moved(q, x, k, i) ==
  \E j \in {i, i + 1} :
    LET r == SubSeq(q, 1, k) \o <<x>> \o SubSeq(q, k + 1, Len(q))
    IN j \in 1 .. Len(r) /\ r[j] = q[i]

LEMMA Inserted ==
  ASSUME NEW T, NEW q, NEW x, NEW k, NEW i
  PROVE  q \in Seq(T) /\ x \in T /\ k \in 0 .. Len(q) /\ i \in 1 .. Len(q) => Moved(q, x, k, i)
  <1>1. SUFFICES ASSUME q \in Seq(T) /\ x \in T /\ k \in 0 .. Len(q) /\ i \in 1 .. Len(q)
        PROVE  Moved(q, x, k, i)
    OBVIOUS
  <1>2. PICK n \in Nat : n = Len(q)
    BY <1>1
  <1>3. PICK a : a = SubSeq(q, 1, k)
    OBVIOUS
  <1>4. PICK c : c = SubSeq(q, k + 1, Len(q))
    OBVIOUS
  <1>5. a \in Seq(T) /\ Len(a) = k /\ \A j \in 1 .. k : a[j] = q[j]
    BY <1>1, <1>3
  <1>6. c \in Seq(T) /\ Len(c) = n - k /\ \A j \in 1 .. n - k : c[j] = q[j + k]
    BY <1>1, <1>2, <1>4
  <1>7. k \in Nat /\ i \in Nat /\ k <= n /\ 1 <= i /\ i <= n
    BY <1>1, <1>2
  <1>8. PICK r : r = a \o <<x>> \o c
    OBVIOUS
  <1>9. /\ Len(r) = Len(a) + 1 + Len(c)
        /\ \A j \in 1 .. Len(a) : r[j] = a[j]
        /\ \A j \in 1 .. Len(c) : r[j + (Len(a) + 1)] = c[j]
    <2>1. a \in Seq(T) /\ x \in T /\ c \in Seq(T)
      BY <1>1, <1>5, <1>6
    <2>2. /\ Len(a \o <<x>> \o c) = Len(a) + 1 + Len(c)
          /\ \A j \in 1 .. Len(a) : (a \o <<x>> \o c)[j] = a[j]
          /\ \A j \in 1 .. Len(c) : (a \o <<x>> \o c)[j + (Len(a) + 1)] = c[j]
      BY <2>1, Between
    <2> QED BY <1>8, <2>2, Zenon
  <1>10. PICK m : m = Len(r)
    OBVIOUS
  <1>11. m = k + 1 + (n - k)
    BY <1>5, <1>6, <1>9, <1>10, Zenon
  <1>12. CASE i <= k
    <2>1. i \in 1 .. k /\ i \in 1 .. m
      BY <1>7, <1>11, <1>12
    <2>2. r[i] = q[i]
      BY <1>5, <1>9, <2>1, Zenon
    <2> QED BY <1>3, <1>4, <1>8, <1>10, <2>1, <2>2, Zenon DEF Moved
  <1>13. CASE i > k
    <2>1. /\ i - k \in 1 .. n - k /\ (i - k) + (k + 1) = i + 1 /\ (i - k) + k = i
          /\ i + 1 \in 1 .. m
      BY <1>7, <1>11, <1>13
    <2>2. r[(i - k) + (k + 1)] = c[i - k] /\ c[i - k] = q[(i - k) + k]
      BY <1>5, <1>6, <1>9, <2>1, Zenon
    <2>3. r[i + 1] = q[i]
      BY <2>1, <2>2, Zenon
    <2> QED BY <1>3, <1>4, <1>8, <1>10, <2>1, <2>3, Zenon DEF Moved
  <1>14. i <= k \/ i > k
    BY <1>7
  <1> QED BY <1>12, <1>13, <1>14, Zenon

\* The place of a game only ever moves to later pages.
LEMMA BuyListing == TypeInv /\ Listing /\ Buy => Listing'
  <1> SUFFICES ASSUME TypeInv, Listing, Buy PROVE Listing'
    OBVIOUS
  <1> USE DEF Buy, main, history
  <1>1. account \in Seq(Games) /\ page \in Nat \ {0} /\ (page - 1) * PageSize \in Int
    <2>1. PageSize \in Nat
      BY CountsAssumption
    <2> QED BY <2>1 DEF TypeInv, Shape, Listing
  <1>2. PICK s \in Bought, k \in 0 .. Len(account) :
          account' = SubSeq(account, 1, k) \o <<s>> \o SubSeq(account, k + 1, Len(account))
    OBVIOUS
  <1>3. ASSUME NEW g, Ahead(g) PROVE Ahead(g)'
    <2>1. PICK i \in 1 .. Len(account) : account[i] = g /\ i > (page - 1) * PageSize
      BY <1>3 DEF Ahead
    <2>2. PICK i2 \in {i, i + 1} : i2 \in 1 .. Len(account') /\ account'[i2] = account[i]
      <3>1. s \in Games
        BY DEF Games
      <3> HIDE DEF Buy
      <3>2. Moved(account, s, k, i)
        <4>1. /\ account \in Seq(Games) /\ s \in Games
              /\ k \in 0 .. Len(account) /\ i \in 1 .. Len(account)
          BY <1>1, <1>2, <2>1, <3>1
        <4> QED BY <4>1, Inserted
      <3> QED BY <1>2, <3>2, Zenon DEF Moved
    <2>3. i2 > (page - 1) * PageSize
      <3>1. PICK x \in Int : x = (page - 1) * PageSize
        BY <1>1
      <3>2. i > x
        BY <2>1, <3>1
      <3>3. i2 > x
        BY <3>2
      <3> QED BY <3>1, <3>3
    <2>4. page' = page
      OBVIOUS
    <2> QED BY <2>1, <2>2, <2>3, <2>4 DEF Ahead
  <1>4. UNCHANGED <<page, mpc, before, conf, items>>
    OBVIOUS
  <1> QED BY <1>3, <1>4 DEF Listing, ListingComplete

\* A page that was answered leaves no game behind; the last one none ahead.
LEMMA GetPageListing ==
  ASSUME NEW ok \in BOOLEAN, TypeInv, Listing, GetPage(ok)
  PROVE  Listing'
  <1> USE DEF GetPage, env, history
  <1>1. account \in Seq(Games) /\ page \in Nat \ {0} /\ items \in Seq(Games)
    BY DEF TypeInv, Shape, Listing
  <1>2. account' = account /\ before' = before /\ conf' = conf
    OBVIOUS
  <1>3. CASE ~ok
    BY <1>2, <1>3 DEF Listing, ListingComplete, Ahead
  <1>4. CASE ok
    <2>1. PICK f : f = Found /\ f \in Seq(Games)
      BY <1>1, FoundFacts
    <2>2. ToSet(items') = ToSet(items) \union ToSet(f)
      <3>1. items' = items \o f
        BY <1>4, <2>1
      <3> QED BY <1>1, <2>1, <3>1, ConcatSet
    <2>3. PICK x, y : x = (page - 1) * PageSize /\ y = page * PageSize
      OBVIOUS
    <2>4. x \in Int /\ y \in Int
      <3>1. PageSize \in Nat
        BY CountsAssumption
      <3> QED BY <1>1, <2>3, <3>1
    <2>5. ASSUME NEW i \in 1 .. Len(account), i > x, i <= y, account[i] \in conf.names
          PROVE  account[i] \in ToSet(items')
      <3>1. PICK k \in 1 .. Len(PageOf(page)) : PageOf(page)[k] = account[i]
        BY <1>1, <2>3, <2>5, PageFacts
      <3> QED BY <1>1, <2>1, <2>2, <2>5, <3>1, FoundFacts
    <2>6. CASE LastPage
      <3>1. page' = 1 /\ mpc' \in {"ready", "start"}
        BY <1>4, <2>6
      <3>2. Len(account) <= y
        BY <1>1, <2>3, <2>6, PageFacts
      <3>3. ASSUME NEW g \in ToSet(before), g \in conf.names PROVE g \in ToSet(items')
        <4>1. g \in ToSet(items) \/ Ahead(g)
          BY <3>3 DEF Listing
        <4>2. CASE g \in ToSet(items)
          BY <2>2, <4>2
        <4>3. CASE Ahead(g)
          <5>1. PICK i \in 1 .. Len(account) : account[i] = g /\ i > x
            BY <2>3, <4>3 DEF Ahead
          <5>2. i <= y
            BY <1>1, <2>4, <3>2
          <5> QED BY <2>5, <3>3, <5>1, <5>2
        <4> QED BY <4>1, <4>2, <4>3
      <3> QED BY <1>2, <3>1, <3>3 DEF Listing, ListingComplete
    <2>7. CASE ~LastPage
      <3>1. page' = page + 1 /\ mpc' = "list"
        BY <1>4, <2>7
      <3>2. (page' - 1) * PageSize = y
        BY <1>1, <2>3, <3>1
      <3>3. ASSUME NEW g \in ToSet(before), g \in conf.names
            PROVE  g \in ToSet(items') \/ Ahead(g)'
        <4>1. g \in ToSet(items) \/ Ahead(g)
          BY <3>3 DEF Listing
        <4>2. CASE g \in ToSet(items)
          BY <2>2, <4>2
        <4>3. CASE Ahead(g)
          <5>1. PICK i \in 1 .. Len(account) : account[i] = g /\ i > x
            BY <2>3, <4>3 DEF Ahead
          <5>2. CASE i <= y
            BY <2>5, <3>3, <5>1, <5>2
          <5>3. CASE i > y
            BY <1>2, <3>2, <5>1, <5>3 DEF Ahead
          <5> QED BY <2>4, <5>2, <5>3
        <4> QED BY <4>1, <4>2, <4>3
      <3>4. page' \in Nat \ {0}
        BY <1>1, <3>1
      <3> QED BY <1>2, <3>1, <3>3, <3>4 DEF Listing, ListingComplete
    <2> QED BY <2>6, <2>7
  <1> QED BY <1>3, <1>4

LEMMA GetOwnedListing ==
  ASSUME NEW ok \in BOOLEAN, TypeInv, Listing, GetOwned(ok)
  PROVE  Listing'
  <1> USE DEF GetOwned, env
  <1>1. /\ page' = 1 /\ mpc' = "list" /\ before' = account /\ account' = account
        /\ account \in Seq(Games) /\ PageSize \in Nat
    BY CountsAssumption DEF TypeInv, Shape, Listing
  <1>2. ASSUME NEW s \in ToSet(before') PROVE Ahead(s)'
    <2>1. PICK i \in 1 .. Len(account) : account[i] = s
      BY <1>1, <1>2, ToSetFacts
    <2>2. (page' - 1) * PageSize = 0
      BY <1>1
    <2> QED BY <1>1, <2>1, <2>2 DEF Ahead
  <1> QED BY <1>1, <1>2 DEF Listing, ListingComplete

\* The threads, and time, do not touch the listing.
LEMMA SameListing ==
  ASSUME Listing, UNCHANGED <<account, page, mpc, before, conf, items>>
  PROVE  Listing'
  BY DEF Listing, ListingComplete, Ahead

LEMMA WorkerListing == \A t \in Workers : Listing /\ Worker(t) => Listing'
  <1> SUFFICES ASSUME NEW t \in Workers, Listing, Worker(t) PROVE Listing'
    OBVIOUS
  <1>1. UNCHANGED <<account, mpc, main, before>>
    <2>1. CASE \E ok \in BOOLEAN : Refresh(t, ok) \/ CheckSite(t, ok)
      BY <2>1 DEF Refresh, CheckSite, MainSame
    <2>2. CASE \E n \in 0 .. Tries, r \in {"answered", "exhausted", "error"} : Ask(t, n, r)
      BY <2>2 DEF Ask, MainSame
    <2>3. CASE Login(t) \/ SetToken(t) \/ Pop(t) \/ Finish(t) \/ Push(t)
      BY <2>3 DEF Login, SetToken, Pop, Finish, Push, MainSame
    <2> QED BY <2>1, <2>2, <2>3 DEF Worker
  <1> QED BY <1>1, SameListing DEF main

\* All other steps are of a process that is not listing, and that does not begin to.
LEMMA OtherListing ==
  ASSUME Listing,
         \/ Crash \/ Begin \/ StartThreads \/ JoinThreads \/ LoadCache \/ LoadFails
         \/ WriteCache \/ CheckOrphans \/ \E ok \in BOOLEAN : OpenCache(ok) \/ Download(ok)
  PROVE  Listing'
  <1>1. page' = 1 /\ mpc' \notin {"list", "start"}
    <2>1. CASE Crash
      BY <2>1 DEF Crash, Exit
    <2>2. CASE Begin
      BY <2>2 DEF Begin, Start, Listing
    <2>3. CASE StartThreads \/ JoinThreads \/ LoadCache
      BY <2>3 DEF StartThreads, JoinThreads, LoadCache, main, Listing
    <2>4. CASE LoadFails \/ WriteCache \/ CheckOrphans
      BY <2>4 DEF LoadFails, WriteCache, CheckOrphans, Exit
    <2>5. CASE \E ok \in BOOLEAN : OpenCache(ok)
      BY <2>5 DEF OpenCache, Exit, main, Listing
    <2>6. CASE \E ok \in BOOLEAN : Download(ok)
      BY <2>6 DEF Download, Exit, Listing
    <2> QED BY <2>1, <2>2, <2>3, <2>4, <2>5, <2>6
  <1> QED BY <1>1, NotListing

--------------------------------------------------------------------------------
(* The theorems *)

LEMMA InvNext == TypeInv /\ Listing /\ [Next]_vars => TypeInv' /\ Listing'
  <1> SUFFICES ASSUME TypeInv, Listing, [Next]_vars PROVE TypeInv' /\ Listing'
    OBVIOUS
  <1>1. CASE Tick
    <2>1. Listing'
      BY <1>1, SameListing DEF Tick, main
    <2> QED BY <1>1, <2>1, TickType
  <1>2. CASE Buy
    BY <1>2, BuyType, BuyListing
  <1>3. CASE Crash
    BY <1>3, CrashType, OtherListing
  <1>4. CASE Begin
    BY <1>4, BeginType, OtherListing
  <1>5. CASE \E t \in Workers : Worker(t)
    BY <1>5, WorkersType, WorkerListing
  <1>6. CASE StartThreads \/ JoinThreads \/ LoadCache \/ LoadFails \/ WriteCache \/ CheckOrphans
    BY <1>6, StartThreadsType, JoinThreadsType, LoadCacheType, WriteCacheType, EndType, OtherListing
  <1>7. ASSUME NEW ok \in BOOLEAN, OpenCache(ok) \/ Download(ok) PROVE TypeInv' /\ Listing'
    BY <1>7, OpenCacheType, DownloadType, OtherListing
  <1>8. ASSUME NEW ok \in BOOLEAN, GetOwned(ok) PROVE TypeInv' /\ Listing'
    BY <1>8, GetOwnedType, GetOwnedListing
  <1>9. ASSUME NEW ok \in BOOLEAN, GetPage(ok) PROVE TypeInv' /\ Listing'
    <2>1. page \in Nat \ {0}
      BY DEF Listing
    <2> QED BY <1>9, <2>1, GetPageType, GetPageListing
  <1>10. CASE Main
    BY <1>6, <1>7, <1>8, <1>9, <1>10 DEF Main
  <1>11. CASE UNCHANGED vars
    <2>1. Listing'
      BY <1>11, SameListing DEF vars, env, main, history
    <2>2. TypeInv'
      BY <1>11 DEF vars, env, main, thread, history, TypeInv, TypeOK, Shape
    <2> QED BY <2>1, <2>2
  <1> QED BY <1>1, <1>2, <1>3, <1>4, <1>5, <1>10, <1>11 DEF Next

LEMMA Invariant == Spec => [](TypeInv /\ Listing)
  <1>1. Init => TypeInv /\ Listing
    BY InitType, InitListing
  <1> QED BY <1>1, InvNext, PTL DEF Spec

\* Types, with any number of threads, pages and failures: a thread has a game
\* exactly while it asks for its details or refreshes a token before that, and
\* nothing is left of it when it takes the next one (getGameDetailsThread).
THEOREM TypeCorrect == Spec => []TypeOK
  <1>1. TypeInv /\ Listing => TypeOK
    BY DEF TypeInv
  <1> QED BY <1>1, Invariant, PTL

\* The listing by pages (Website::getGames) misses no game that was in the
\* account when it began, whatever is bought while it goes on and however often
\* a page has to be asked for again: a game that is not among the items yet is
\* on a page still to come, since other games only ever move it to later ones.
THEOREM ListingCorrect == Spec => []ListingComplete
  <1>1. TypeInv /\ Listing => ListingComplete
    BY DEF Listing
  <1> QED BY <1>1, Invariant, PTL

--------------------------------------------------------------------------------
(* Entries: what the threads, the cache and the main thread have of the games *)

\* What a run is for, and its configuration.
Run ==
  /\ calm \in BOOLEAN /\ useCache \in BOOLEAN
  /\ mpc \in {"owned", "list", "start", "wait", "write"} => ~useCache
  /\ mpc = "load" => useCache
  /\ mpc = "write" => op = "update"
  /\ mpc # "idle" => op # "none"
  /\ op \in {"download", "both"} => conf \in Configs
  /\ op = "orphans" => conf \in {Everything(c) : c \in Configs}
  /\ op = "update" => conf \in UpdateConfs /\ ~useCache
  /\ owned \in Knowns

\* An entry of no game, of a game some request for which failed, or the one of
\* a game for which every request was answered.
Whole(e) ==
  \/ e.game = NoName
  \/ /\ e.game \in Games
     /\ e.game \in failed \/ e = EntryOf(e.game, RunConf(e.game), owned)

Entries ==
  /\ mpc # "wait" => results = {}
  /\ mpc \notin {"ready", "write"} => games = {}
  /\ \A e \in results : Whole(e)
  /\ ~useCache => \A e \in games : Whole(e)

\* No game is lost: it waits in the queue, a thread has it, it has an entry, or
\* a request for it failed; and a thread that has ended without giving up found
\* the queue empty.
Accounted ==
  /\ mpc \in {"start", "wait"} => items # <<>>
  /\ mpc = "wait" =>
       /\ \A s \in ToSet(items) \ failed :
            \/ s \in ToSet(queue)
            \/ \E t \in Workers : item[t] = s /\ pc[t] # "done"
            \/ \E e \in results : e.game = s
       /\ \A t \in Workers :
            pc[t] = "done" /\ t \notin quit /\ t <= Len(items) => queue = <<>>
  /\ mpc = "ready" /\ ~useCache =>
       \A s \in ToSet(items) \ failed :
         \/ \E e \in games : e.game = s
         \/ s \in ToSet(queue) /\ \A t \in Workers : t <= Len(items) => t \in quit

\* Without failures and without time passing the one token is one that the
\* server takes, whichever threads refresh it.
Calm ==
  /\ mpc \in {"idle", "owned", "list", "start"} => failed = {}
  /\ calm /\ ~useCache => failed = {}
  /\ calm /\ mpc # "wait" => queue = <<>>
  /\ calm /\ mpc = "wait" =>
       /\ token.client <= token.server /\ quit = {}
       /\ \A t \in Workers :
            /\ lost[t] = {}
            /\ pc[t] = "ask" => token.client >= 0
            /\ pc[t] = "set" => answer[t] = TokenLife

\* What is saved of a game for which no request failed, and what is loaded.
Saved ==
  /\ cache.kind = "saved" =>
       /\ cache.owned \in Knowns
       /\ \A e \in cache.games :
            e.game # NoName /\ e.game \notin cache.bad =>
              /\ e.game \in Games
              /\ \E u \in UpdateConfs : e = EntryOf(e.game, u, cache.owned)
  /\ mpc = "ready" /\ useCache =>
       cache.kind = "saved" /\ failed = cache.bad /\ games = Loaded(cache.games, conf)

--------------------------------------------------------------------------------
(* Entries and configurations *)

LEMMA FilteredGame ==
  ASSUME NEW g, NEW l, NEW d, NEW c
  PROVE  Filtered([game |-> g, lists |-> l, dlcs |-> d], c).game = g
  BY DEF Filtered

LEMMA DetailsGame ==
  ASSUME NEW s, NEW c, NEW known, NEW l
  PROVE  Filtered(Details(s, c, known, l), c).game = IF Info \in l THEN NoName ELSE s
  BY FilteredGame DEF Details

LEMMA EntryGame ==
  ASSUME NEW s, NEW c, NEW known
  PROVE  EntryOf(s, c, known).game = s
  BY DetailsGame DEF EntryOf

\* What is loaded is loaded entry by entry.
LEMMA LoadedGame ==
  ASSUME NEW E, NEW c, NEW x \in Loaded(E, c)
  PROVE  \E e \in E : e.game = x.game /\ e.game \in c.names /\ x \in Loaded({e}, c)
  <1>1. PICK e \in E :
          /\ e.game \in c.names
          /\ HasFiles(LoadedLists(e.lists, ConfOf(e.game, c))) \/ LoadedDLCs(e, c) # {}
          /\ x = LoadedNode(e, LoadedDLCs(e, c), ConfOf(e.game, c))
    BY Zenon DEF Loaded
  <1>2. x.game = e.game
    BY <1>1, FilteredGame DEF LoadedNode
  <1>3. x \in Loaded({e}, c)
    BY <1>1, Zenon DEF Loaded
  <1> QED BY <1>1, <1>2, <1>3

LEMMA LoadedOne ==
  ASSUME NEW E, NEW c, NEW e \in E
  PROVE  /\ Loaded({e}, c) \subseteq Loaded(E, c)
         /\ \A x \in Loaded({e}, c) : x.game = e.game
  <1>1. Loaded({e}, c) \subseteq Loaded(E, c)
    BY Zenon DEF Loaded
  <1>2. ASSUME NEW x \in Loaded({e}, c) PROVE x.game = e.game
    <2>1. PICK one : one = {e}
      OBVIOUS
    <2>2. x \in Loaded(one, c)
      BY <1>2, <2>1
    <2>3. PICK d \in one : d.game = x.game
      BY <2>2, LoadedGame
    <2> QED BY <2>1, <2>3
  <1> QED BY <1>1, <1>2

\* Everything is all there is, of the same games.
LEMMA EverythingTwice ==
  ASSUME NEW c
  PROVE  Everything(Everything(c)) = Everything(c)
  BY DEF Everything

\* Nothing of what is known depends on the rest.
LEMMA RightMore ==
  ASSUME NEW s, NEW c, NEW D, NEW E, D \subseteq E
  PROVE  RightPaths(s, c, D) \subseteq RightPaths(s, c, E)
  BY DEF RightPaths

--------------------------------------------------------------------------------
(* Entries: the steps of the threads *)

MoreInv == Run /\ Entries /\ Accounted /\ Calm /\ Saved

\* What the steps of the threads leave alone.
LEMMA WorkerRun ==
  ASSUME Run, Saved, MainSame, calm' \in BOOLEAN, mpc = "wait"
  PROVE  Run' /\ Saved'
  <1>1. Run'
    BY DEF Run, MainSame, main
  <1>2. Saved'
    BY DEF Saved, MainSame, main
  <1> QED BY <1>1, <1>2

LEMMA WorkerEntries ==
  ASSUME Entries, MainSame, mpc = "wait", failed \subseteq failed',
         \A e \in results' \ results : Whole(e)'
  PROVE  Entries'
  <1>1. ASSUME NEW e, Whole(e) PROVE Whole(e)'
    BY <1>1 DEF Whole, MainSame, main, RunConf
  <1>2. \A e \in results' : Whole(e)'
    BY <1>1 DEF Entries
  <1>3. games' = {} /\ mpc' = "wait"
    BY DEF Entries, MainSame, main
  <1> QED BY <1>2, <1>3 DEF Entries

\* No game gets lost in a step: one in the queue stays there or is taken, and
\* one that a thread has it keeps, or it has an entry, or failed.
LEMMA WorkerAccounted ==
  ASSUME Accounted, MainSame, mpc = "wait",
         failed \subseteq failed', results \subseteq results', quit \subseteq quit',
         items \in Seq(Games),
         \A s \in ToSet(queue) :
           s \in ToSet(queue') \/ \E t \in Workers : item'[t] = s /\ pc'[t] # "done",
         \A t \in Workers :
           pc[t] # "done" /\ item[t] \in Games =>
             \/ item'[t] = item[t] /\ pc'[t] # "done"
             \/ item[t] \in failed'
             \/ \E e \in results' : e.game = item[t],
         \A t \in Workers :
           pc'[t] = "done" /\ t \notin quit' =>
             queue' = <<>> \/ (pc[t] = "done" /\ t \notin quit /\ (queue = <<>> => queue' = <<>>))
  PROVE  Accounted'
  <1>1. mpc' = "wait" /\ items' = items
    BY DEF MainSame, main
  <1>2. ASSUME NEW s \in ToSet(items) \ failed'
        PROVE  \/ s \in ToSet(queue')
               \/ \E t \in Workers : item'[t] = s /\ pc'[t] # "done"
               \/ \E e \in results' : e.game = s
    <2>1. s \in ToSet(items) \ failed /\ s \in Games
      BY ToSetFacts
    <2>2. CASE s \in ToSet(queue)
      BY <2>2
    <2>3. CASE \E t \in Workers : item[t] = s /\ pc[t] # "done"
      BY <2>1, <2>3
    <2>4. CASE \E e \in results : e.game = s
      BY <2>4
    <2> QED BY <2>1, <2>2, <2>3, <2>4 DEF Accounted
  <1>3. ASSUME NEW t \in Workers, pc'[t] = "done", t \notin quit', t <= Len(items)
        PROVE  queue' = <<>>
    BY <1>3 DEF Accounted
  <1>4. items # <<>>
    BY DEF Accounted
  <1> QED BY <1>1, <1>2, <1>3, <1>4 DEF Accounted

\* In a calm step of a thread nothing fails and the token stays good.
LEMMA WorkerCalm ==
  ASSUME Calm, MainSame, mpc = "wait", Run,
         calm' => /\ calm /\ failed' = failed /\ quit' = quit
                  /\ token'.client <= token'.server
                  /\ \A t \in Workers :
                       /\ lost'[t] = {}
                       /\ pc'[t] = "ask" => token'.client >= 0
                       /\ pc'[t] = "set" => answer'[t] = TokenLife
  PROVE  Calm'
  <1>1. mpc' = "wait" /\ useCache' = useCache /\ ~useCache
    BY DEF MainSame, main, Run
  <1> QED BY <1>1 DEF Calm

\* What a thread's step needs to know.
LEMMA CalmFacts ==
  ASSUME TypeInv, Calm, mpc = "wait", calm
  PROVE  /\ token.client <= token.server /\ quit = {}
         /\ token.client \in Int /\ token.server \in Int
         /\ \A t \in Workers :
              /\ lost[t] = {}
              /\ pc[t] = "ask" => token.client >= 0
              /\ pc[t] = "set" => answer[t] = TokenLife
  BY CountsAssumption DEF Calm, TypeInv, TypeOK

LEMMA ThreadsWait ==
  ASSUME TypeInv, NEW t \in Workers, pc[t] # "done"
  PROVE  mpc = "wait" /\ items \in Seq(Games) /\ queue \in Seq(Games)
  BY DEF TypeInv, Shape

LEMMA LoginMore ==
  ASSUME NEW t \in Workers, TypeInv, MoreInv, Login(t)
  PROVE  MoreInv'
  <1> USE DEF Login, Goto, Undisturbed
  <1>1. /\ mpc = "wait" /\ items \in Seq(Games) /\ MainSame
        /\ calm' \in BOOLEAN
    BY ThreadsWait DEF MoreInv, Run
  <1>2. Run' /\ Saved'
    BY <1>1, WorkerRun DEF MoreInv
  <1>3. Entries'
    BY <1>1, WorkerEntries DEF MoreInv
  <1>4. Accounted'
    <2>1. \A u \in Workers : (pc'[u] = "done") = (pc[u] = "done")
      BY DEF TypeInv, TypeOK
    <2> QED BY <1>1, <2>1, WorkerAccounted DEF MoreInv
  <1>5. Calm'
    <2>1. ASSUME calm
          PROVE  \A u \in Workers : /\ pc'[u] = "ask" => token.client >= 0
                                    /\ pc'[u] = "set" => answer[u] = TokenLife
      BY <1>1, <2>1, CalmFacts DEF MoreInv, TypeInv, TypeOK
    <2> QED BY <1>1, <2>1, CalmFacts, WorkerCalm DEF MoreInv
  <1> QED BY <1>2, <1>3, <1>4, <1>5 DEF MoreInv

LEMMA RefreshMore ==
  ASSUME NEW t \in Workers, NEW ok \in BOOLEAN, TypeInv, MoreInv, Refresh(t, ok)
  PROVE  MoreInv'
  <1> USE DEF Refresh, Goto, Undisturbed, Disturbed
  <1>1. /\ mpc = "wait" /\ items \in Seq(Games) /\ MainSame
        /\ calm' \in BOOLEAN
    BY ThreadsWait DEF MoreInv, Run
  <1>2. Run' /\ Saved'
    BY <1>1, WorkerRun DEF MoreInv
  <1>3. Entries'
    BY <1>1, WorkerEntries DEF MoreInv
  <1>4. Accounted'
    <2>1. CASE ok
      <3>1. \A u \in Workers : (pc'[u] = "done") = (pc[u] = "done")
        BY <2>1 DEF TypeInv, TypeOK
      <3> QED BY <1>1, <2>1, <3>1, WorkerAccounted DEF MoreInv
    <2>2. CASE ~ok
      <3>1. \A u \in Workers \ {t} : pc'[u] = pc[u]
        BY <2>2 DEF TypeInv, TypeOK
      <3>2. t \in quit' /\ quit \subseteq quit' /\ failed \subseteq failed'
        BY <2>2
      <3>3. item[t] \in Games => item[t] \in failed'
        BY <2>2, GamesAssumption
      <3> QED BY <1>1, <2>2, <3>1, <3>2, <3>3, WorkerAccounted DEF MoreInv
    <2> QED BY <2>1, <2>2
  <1>5. Calm'
    <2>1. CASE ok
      <3>1. ASSUME calm
            PROVE  \A u \in Workers : /\ pc'[u] = "ask" => token.client >= 0
                                      /\ pc'[u] = "set" => answer'[u] = TokenLife
        BY <1>1, <2>1, <3>1, CalmFacts DEF MoreInv, TypeInv, TypeOK, Shape
      <3> QED BY <1>1, <2>1, <3>1, CalmFacts, WorkerCalm DEF MoreInv
    <2>2. CASE ~ok
      BY <1>1, <2>2, WorkerCalm DEF MoreInv
    <2> QED BY <2>1, <2>2
  <1> QED BY <1>2, <1>3, <1>4, <1>5 DEF MoreInv

LEMMA SetTokenMore ==
  ASSUME NEW t \in Workers, TypeInv, MoreInv, SetToken(t)
  PROVE  MoreInv'
  <1> USE DEF SetToken, Goto, Undisturbed
  <1>1. /\ mpc = "wait" /\ items \in Seq(Games) /\ MainSame
        /\ calm' \in BOOLEAN
    BY ThreadsWait DEF MoreInv, Run
  <1>2. Run' /\ Saved'
    BY <1>1, WorkerRun DEF MoreInv
  <1>3. Entries'
    BY <1>1, WorkerEntries DEF MoreInv
  <1>4. Accounted'
    <2>1. \A u \in Workers : (pc'[u] = "done") = (pc[u] = "done")
      BY DEF TypeInv, TypeOK
    <2> QED BY <1>1, <2>1, WorkerAccounted DEF MoreInv
  <1>5. Calm'
    <2>1. ASSUME calm PROVE token'.client = TokenLife /\ token'.server = TokenLife
      <3>1. answer[t] = TokenLife
        BY <1>1, <2>1, CalmFacts DEF MoreInv
      <3> QED BY <3>1 DEF NewToken
    <2>2. ASSUME calm PROVE \A u \in Workers : pc'[u] = "set" => answer'[u] = TokenLife
      BY <1>1, <2>2, CalmFacts DEF MoreInv, TypeInv, TypeOK, Shape
    <2>3. TokenLife >= 0 /\ TokenLife <= TokenLife
      BY CountsAssumption
    <2> QED BY <1>1, <2>1, <2>2, <2>3, CalmFacts, WorkerCalm DEF MoreInv
  <1> QED BY <1>2, <1>3, <1>4, <1>5 DEF MoreInv

LEMMA CheckSiteMore ==
  ASSUME NEW t \in Workers, NEW ok \in BOOLEAN, TypeInv, MoreInv, CheckSite(t, ok)
  PROVE  MoreInv'
  <1> USE DEF CheckSite, Goto, Undisturbed, Disturbed
  <1>1. /\ mpc = "wait" /\ items \in Seq(Games) /\ MainSame
        /\ calm' \in BOOLEAN
    BY ThreadsWait DEF MoreInv, Run
  <1>2. Run' /\ Saved'
    BY <1>1, WorkerRun DEF MoreInv
  <1>3. Entries'
    BY <1>1, WorkerEntries DEF MoreInv
  <1>4. Accounted'
    <2>1. \A u \in Workers \ {t} : pc'[u] = pc[u]
      BY DEF TypeInv, TypeOK
    <2>2. item[t] \notin Games
      BY GamesAssumption DEF TypeInv, Shape
    <2>3. quit \subseteq quit' /\ (pc'[t] = "done" => t \in quit')
      BY DEF TypeInv, TypeOK
    <2> QED BY <1>1, <2>1, <2>2, <2>3, WorkerAccounted DEF MoreInv
  <1>5. Calm'
    <2>1. ASSUME calm
          PROVE  \A u \in Workers : /\ pc'[u] = "ask" => token.client >= 0
                                    /\ pc'[u] = "set" => answer[u] = TokenLife
      BY <1>1, <2>1, CalmFacts DEF MoreInv, TypeInv, TypeOK
    <2>2. calm' => calm /\ quit' = quit
      OBVIOUS
    <2> QED BY <1>1, <2>1, <2>2, CalmFacts, WorkerCalm DEF MoreInv
  <1> QED BY <1>2, <1>3, <1>4, <1>5 DEF MoreInv

\* A game is taken from the queue.
LEMMA PopMore ==
  ASSUME NEW t \in Workers, TypeInv, MoreInv, Pop(t)
  PROVE  MoreInv'
  <1> USE DEF Pop, Goto, Undisturbed
  <1>1. /\ mpc = "wait" /\ items \in Seq(Games) /\ MainSame /\ queue \in Seq(Games)
        /\ calm' \in BOOLEAN
    BY ThreadsWait DEF MoreInv, Run
  <1>2. Run' /\ Saved'
    BY <1>1, WorkerRun DEF MoreInv
  <1>3. Entries'
    BY <1>1, WorkerEntries DEF MoreInv
  <1>4. Accounted'
    <2>1. \A u \in Workers \ {t} : pc'[u] = pc[u] /\ item'[u] = item[u]
      BY DEF TypeInv, TypeOK
    <2>2. item[t] \notin Games /\ item'[t] = Head(queue) /\ pc'[t] # "done"
      BY GamesAssumption DEF TypeInv, TypeOK, Shape
    <2>3. \A s \in ToSet(queue) : s \in ToSet(Tail(queue)) \/ s = Head(queue)
      <3> SUFFICES ASSUME NEW s \in ToSet(queue), s # Head(queue)
                   PROVE  s \in ToSet(Tail(queue))
        OBVIOUS
      <3>1. PICK i \in 1 .. Len(queue) : queue[i] = s
        BY <1>1, ToSetFacts
      <3>2. i # 1
        BY <3>1
      <3>3. PICK rest : rest = Tail(queue)
        OBVIOUS
      <3>4. i - 1 \in 1 .. Len(rest) /\ rest[i - 1] = s /\ rest \in Seq(Games)
        BY <1>1, <3>1, <3>2, <3>3
      <3>5. s \in ToSet(rest)
        BY <3>4, ToSetFacts
      <3> QED BY <3>3, <3>5
    <2>4. \A s \in ToSet(queue) :
            s \in ToSet(queue') \/ \E u \in Workers : item'[u] = s /\ pc'[u] # "done"
      BY <2>2, <2>3
    <2>5. \A u \in Workers :
            pc'[u] = "done" /\ u \notin quit' =>
              pc[u] = "done" /\ u \notin quit /\ (queue = <<>> => queue' = <<>>)
      BY <2>1, <2>2
    <2>6. \A u \in Workers :
            pc[u] # "done" /\ item[u] \in Games => item'[u] = item[u] /\ pc'[u] # "done"
      BY <2>1, <2>2
    <2> QED BY <1>1, <2>4, <2>5, <2>6, WorkerAccounted DEF MoreInv
  <1>5. Calm'
    <2>1. ASSUME calm
          PROVE  \A u \in Workers : /\ pc'[u] = "ask" => token.client >= 0
                                    /\ pc'[u] = "set" => answer[u] = TokenLife
      <3>1. pc'[t] = "ask" => ~(token.client < 0)
        BY DEF Expired, TypeInv, TypeOK
      <3>2. token.client \in Int
        BY <1>1, <2>1, CalmFacts DEF MoreInv
      <3>3. pc'[t] \in {"refresh", "ask"} /\ \A u \in Workers \ {t} : pc'[u] = pc[u]
        BY DEF TypeInv, TypeOK
      <3>4. \A u \in Workers : /\ pc[u] = "ask" => token.client >= 0
                               /\ pc[u] = "set" => answer[u] = TokenLife
        BY <1>1, <2>1, CalmFacts DEF MoreInv
      <3> QED BY <3>1, <3>2, <3>3, <3>4
    <2> QED BY <1>1, <2>1, CalmFacts, WorkerCalm DEF MoreInv
  <1> QED BY <1>2, <1>3, <1>4, <1>5 DEF MoreInv

LEMMA FinishMore ==
  ASSUME NEW t \in Workers, TypeInv, MoreInv, Finish(t)
  PROVE  MoreInv'
  <1> USE DEF Finish, Goto, Undisturbed
  <1>1. /\ mpc = "wait" /\ items \in Seq(Games) /\ MainSame
        /\ calm' \in BOOLEAN
    BY ThreadsWait DEF MoreInv, Run
  <1>2. Run' /\ Saved'
    BY <1>1, WorkerRun DEF MoreInv
  <1>3. Entries'
    BY <1>1, WorkerEntries DEF MoreInv
  <1>4. Accounted'
    <2>1. \A u \in Workers \ {t} : pc'[u] = pc[u]
      BY DEF TypeInv, TypeOK
    <2>2. item[t] \notin Games
      BY GamesAssumption DEF TypeInv, Shape
    <2> QED BY <1>1, <2>1, <2>2, WorkerAccounted DEF MoreInv
  <1>5. Calm'
    <2>1. ASSUME calm
          PROVE  \A u \in Workers : /\ pc'[u] = "ask" => token.client >= 0
                                    /\ pc'[u] = "set" => answer[u] = TokenLife
      BY <1>1, <2>1, CalmFacts DEF MoreInv, TypeInv, TypeOK
    <2> QED BY <1>1, <2>1, CalmFacts, WorkerCalm DEF MoreInv
  <1> QED BY <1>2, <1>3, <1>4, <1>5 DEF MoreInv

\* A request without an answer is a failure: with a good token it is refused
\* only by one, and as many tries as are made do not fail in calm.
LEMMA AskMore ==
  ASSUME NEW t \in Workers, NEW n \in 0 .. Tries,
         NEW r \in {"answered", "exhausted", "error"}, TypeInv, MoreInv, Ask(t, n, r)
  PROVE  MoreInv'
  <1> USE DEF Ask
  <1>1. /\ mpc = "wait" /\ items \in Seq(Games) /\ MainSame
        /\ calm' \in BOOLEAN
    BY ThreadsWait DEF MoreInv, Run
  <1>2. Run' /\ Saved'
    BY <1>1, WorkerRun DEF MoreInv
  <1>3. Entries'
    BY <1>1, WorkerEntries DEF MoreInv
  <1>4. Accounted'
    BY <1>1, WorkerAccounted DEF MoreInv
  <1>5. Calm'
    <2>1. calm' => calm
      OBVIOUS
    <2>2. ASSUME calm' PROVE lost' = lost
      <3>1. calm /\ r # "error"
        BY <2>2
      <3>2. token.client >= 0 /\ token.server >= 0
        <4>1. /\ token.client <= token.server /\ token.client >= 0
              /\ token.client \in Int /\ token.server \in Int
          BY <1>1, <3>1, CalmFacts DEF MoreInv
        <4> QED BY <4>1
      <3>3. ~Refused(t)
        BY <3>2, CountsAssumption DEF Refused, Expired, TypeInv, TypeOK
      <3>4. ASSUME r = "exhausted" PROVE FALSE
        <4>1. n = Tries /\ n <= Retries
          BY <2>2, <3>3, <3>4
        <4> QED BY <4>1, CountsAssumption DEF Tries
      <3> QED BY <3>1, <3>4
    <2> QED BY <1>1, <2>1, <2>2, CalmFacts, WorkerCalm DEF MoreInv
  <1> QED BY <1>2, <1>3, <1>4, <1>5 DEF MoreInv

\* The entry that is pushed is whole, or the game is one of those that failed.
LEMMA PushMore ==
  ASSUME NEW t \in Workers, TypeInv, MoreInv, Push(t)
  PROVE  MoreInv'
  <1> USE DEF Push, Goto, Undisturbed
  <1>1. /\ mpc = "wait" /\ items \in Seq(Games) /\ MainSame
        /\ calm' \in BOOLEAN /\ item[t] \in Games /\ failed \subseteq failed'
    BY ThreadsWait DEF MoreInv, Run, TypeInv, TypeOK, Shape
  <1>2. Run' /\ Saved'
    BY <1>1, WorkerRun DEF MoreInv
  <1>3. PICK s, c, e : /\ s = item[t] /\ c = RunConf(s)
                       /\ e = Filtered(Details(s, c, owned, lost[t]), c)
    OBVIOUS
  <1>4. results' = results \union {e}
    BY <1>3
  <1>5. /\ e.game = IF Info \in lost[t] THEN NoName ELSE s
        /\ lost[t] # {} => s \in failed'
        /\ lost[t] = {} => e = EntryOf(s, c, owned) /\ failed' = failed
    <2>1. e.game = IF Info \in lost[t] THEN NoName ELSE s
      BY <1>3, DetailsGame
    <2>2. lost[t] # {} => s \in failed'
      BY <1>3
    <2>3. lost[t] = {} => e = EntryOf(s, c, owned)
      BY <1>3 DEF EntryOf
    <2>4. lost[t] = {} => failed' = failed
      OBVIOUS
    <2> QED BY <2>1, <2>2, <2>3, <2>4
  <1>6. Whole(e)'
    <2>1. RunConf(s)' = c /\ owned' = owned /\ s \in Games
      BY <1>1, <1>3 DEF RunConf, MainSame, main
    <2> QED BY <1>5, <2>1 DEF Whole
  <1>7. Entries'
    BY <1>1, <1>4, <1>6, WorkerEntries DEF MoreInv
  <1>8. Accounted'
    <2>1. \A u \in Workers \ {t} : pc'[u] = pc[u] /\ item'[u] = item[u]
      BY DEF TypeInv, TypeOK
    <2>2. pc'[t] # "done"
      BY DEF TypeInv, TypeOK
    <2>3. item[t] \in failed' \/ e.game = item[t]
      BY <1>3, <1>5
    <2>4. e \in results' /\ results \subseteq results'
      BY <1>4
    <2>5. \A u \in Workers : (pc'[u] = "done") = (pc[u] = "done")
      BY <2>1, <2>2
    <2>6. \A u \in Workers :
           pc[u] # "done" /\ item[u] \in Games =>
             \/ item'[u] = item[u] /\ pc'[u] # "done"
             \/ item[u] \in failed'
             \/ \E x \in results' : x.game = item[u]
      BY <2>1, <2>3, <2>4
    <2> HIDE DEF Push
    <2>7. queue' = queue /\ quit' = quit
      BY DEF Push
    <2> QED BY <1>1, <2>4, <2>5, <2>6, <2>7, WorkerAccounted DEF MoreInv
  <1>9. Calm'
    <2>1. ASSUME calm
          PROVE  \A u \in Workers : /\ pc'[u] = "ask" => token.client >= 0
                                    /\ pc'[u] = "set" => answer[u] = TokenLife
                                    /\ lost'[u] = {}
      BY <1>1, <2>1, CalmFacts DEF MoreInv, TypeInv, TypeOK, Shape
    <2>2. calm => failed' = failed
      BY <1>1, <1>5, CalmFacts DEF MoreInv
    <2> QED BY <1>1, <2>1, <2>2, CalmFacts, WorkerCalm DEF MoreInv
  <1> QED BY <1>2, <1>7, <1>8, <1>9 DEF MoreInv

LEMMA WorkersMore == \A t \in Workers : TypeInv /\ MoreInv /\ Worker(t) => MoreInv'
  <1> SUFFICES ASSUME NEW t \in Workers, TypeInv, MoreInv, Worker(t) PROVE MoreInv'
    OBVIOUS
  <1>1. CASE \E ok \in BOOLEAN : Refresh(t, ok) \/ CheckSite(t, ok)
    BY <1>1, RefreshMore, CheckSiteMore
  <1>2. CASE \E n \in 0 .. Tries, r \in {"answered", "exhausted", "error"} : Ask(t, n, r)
    BY <1>2, AskMore
  <1>3. CASE Login(t) \/ SetToken(t) \/ Pop(t) \/ Finish(t) \/ Push(t)
    BY <1>3, LoginMore, SetTokenMore, PopMore, FinishMore, PushMore
  <1> QED BY <1>1, <1>2, <1>3 DEF Worker

--------------------------------------------------------------------------------
(* Entries: the steps of the main thread, and time *)

\* A process that has ended has nothing.
LEMMA ExitMore ==
  ASSUME Exit, Saved,
         cache' = cache \/ cache'.kind # "saved"
           \/ /\ cache'.owned \in Knowns
              /\ \A e \in cache'.games :
                   e.game # NoName /\ e.game \notin cache'.bad =>
                     /\ e.game \in Games
                     /\ \E u \in UpdateConfs : e = EntryOf(e.game, u, cache'.owned)
  PROVE  MoreInv'
  <1> USE DEF Exit
  <1>1. Run'
    BY DEF Run, Knowns
  <1>2. Entries' /\ Accounted' /\ Calm'
    BY DEF Entries, Accounted, Calm
  <1>3. Saved'
    BY DEF Saved
  <1> QED BY <1>1, <1>2, <1>3 DEF MoreInv

LEMMA InitMore == Init => MoreInv
  <1> SUFFICES ASSUME Init PROVE MoreInv
    OBVIOUS
  <1> USE DEF Init, Idle
  <1>1. Run
    BY DEF Run, Knowns
  <1>2. Entries /\ Accounted /\ Calm
    BY DEF Entries, Accounted, Calm
  <1>3. Saved
    BY DEF Saved, NoCache, CacheOf, Knowns
  <1> QED BY <1>1, <1>2, <1>3 DEF MoreInv

\* Time disturbs the calm, and what is saved only gets older.
LEMMA TickMore == TypeInv /\ MoreInv /\ Tick => MoreInv'
  <1> SUFFICES ASSUME TypeInv, MoreInv, Tick PROVE MoreInv'
    OBVIOUS
  <1> USE DEF Tick, main
  <1>1. Run'
    BY DEF Run, MoreInv
  <1>2. Entries'
    BY DEF Entries, Whole, RunConf, MoreInv
  <1>3. Accounted'
    BY DEF Accounted, MoreInv
  <1>4. Calm'
    BY DEF Calm, MoreInv
  <1>5. Saved'
    <2>1. /\ cache'.kind = cache.kind
          /\ cache.kind = "saved" =>
               /\ cache'.owned = cache.owned /\ cache'.bad = cache.bad
               /\ cache'.games = cache.games
      OBVIOUS
    <2> QED BY <2>1 DEF Saved, MoreInv
  <1> QED BY <1>1, <1>2, <1>3, <1>4, <1>5 DEF MoreInv

LEMMA SameMore ==
  ASSUME MoreInv, UNCHANGED <<token, cache, mpc, main, queue, results, thread, history>>
  PROVE  MoreInv'
  <1> USE DEF main, thread, history
  <1>1. Run'
    BY DEF Run, MoreInv
  <1>2. Entries'
    BY DEF Entries, Whole, RunConf, MoreInv
  <1>3. Accounted'
    BY DEF Accounted, MoreInv
  <1>4. Calm'
    BY DEF Calm, MoreInv
  <1>5. Saved'
    BY DEF Saved, MoreInv
  <1> QED BY <1>1, <1>2, <1>3, <1>4, <1>5 DEF MoreInv

LEMMA BeginMore == TypeInv /\ MoreInv /\ Begin => MoreInv'
  <1> SUFFICES ASSUME TypeInv, MoreInv, NEW o \in Ops, NEW cached \in BOOLEAN,
                      NEW c \in Configs, Start(o, cached, c)
               PROVE  MoreInv'
    BY DEF Begin
  <1> USE DEF Start, thread, history
  <1>1. Run'
    <2>1. o \in {"update", "download", "orphans", "both"}
      BY OpsAssumption
    <2>2. /\ o = "update" => conf' \in UpdateConfs
          /\ o = "orphans" => conf' \in {Everything(d) : d \in Configs}
          /\ o \in {"download", "both"} => conf' \in Configs
      BY Zenon DEF UpdateConfs
    <2>3. useCache' \in BOOLEAN /\ (o = "update" => ~useCache')
      OBVIOUS
    <2>4. (mpc' = "load" /\ useCache') \/ (mpc' = "owned" /\ ~useCache')
      BY <2>3
    <2>5. op' = o /\ owned' = owned /\ calm' = calm
      OBVIOUS
    <2> HIDE DEF Start
    <2> QED BY <2>1, <2>2, <2>3, <2>4, <2>5 DEF Run, MoreInv
  <1>2. Entries'
    BY DEF Entries, MoreInv
  <1>3. Accounted'
    BY DEF Accounted, MoreInv
  <1>4. Calm'
    BY DEF Calm, MoreInv
  <1>5. Saved'
    BY DEF Saved, MoreInv
  <1> QED BY <1>1, <1>2, <1>3, <1>4, <1>5 DEF MoreInv

LEMMA GetOwnedMore ==
  ASSUME NEW ok \in BOOLEAN, TypeInv, MoreInv, GetOwned(ok)
  PROVE  MoreInv'
  <1> USE DEF GetOwned, env, thread
  <1>1. Run'
    <2>1. ToSet(account) \subseteq Games
      BY ToSetFacts DEF TypeInv, Shape
    <2>2. owned' \in Knowns
      BY <2>1 DEF Knowns
    <2> QED BY <2>2 DEF Run, MoreInv
  <1>2. Entries'
    BY DEF Entries, MoreInv
  <1>3. Accounted'
    BY DEF Accounted, MoreInv
  <1>4. Calm'
    BY DEF Calm, MoreInv
  <1>5. Saved'
    BY DEF Saved, MoreInv
  <1> QED BY <1>1, <1>2, <1>3, <1>4, <1>5 DEF MoreInv

LEMMA GetPageMore ==
  ASSUME NEW ok \in BOOLEAN, TypeInv, MoreInv, GetPage(ok)
  PROVE  MoreInv'
  <1> USE DEF GetPage, env, thread, history
  <1>1. mpc = "list" /\ mpc' \in {"list", "start", "ready"}
    OBVIOUS
  <1>2. Run'
    BY <1>1 DEF Run, MoreInv
  <1>3. Entries'
    BY <1>1 DEF Entries, MoreInv
  <1>4. Accounted'
    <2>1. mpc' = "ready" => ToSet(items') = {}
      BY DEF ToSet
    <2>2. mpc' = "start" => items' # <<>>
      OBVIOUS
    <2> HIDE DEF GetPage
    <2> QED BY <1>1, <2>1, <2>2 DEF Accounted
  <1>5. Calm'
    BY <1>1 DEF Calm, MoreInv
  <1>6. Saved'
    <2>1. ~useCache' /\ cache' = cache
      BY DEF Run, MoreInv
    <2> QED BY <2>1 DEF Saved, MoreInv
  <1> QED BY <1>2, <1>3, <1>4, <1>5, <1>6 DEF MoreInv

\* As many threads begin as there are games, or all.
LEMMA StartThreadsMore == TypeInv /\ MoreInv /\ StartThreads => MoreInv'
  <1> SUFFICES ASSUME TypeInv, MoreInv, StartThreads PROVE MoreInv'
    OBVIOUS
  <1> USE DEF StartThreads, env, main
  <1>1. items \in Seq(Games) /\ queue \in Seq(Games)
    BY DEF TypeInv, Shape
  <1>2. Run'
    BY DEF Run, MoreInv
  <1>3. Entries'
    BY DEF Entries, MoreInv
  <1>4. Accounted'
    <2>1. /\ ToSet(items) \subseteq ToSet(queue') /\ Len(queue') = Len(queue) + Len(items)
          /\ Len(queue) \in Nat /\ Len(items) \in Nat
      BY <1>1, ConcatSet
    <2>2. ASSUME NEW t \in Workers, t <= Len(items) PROVE pc'[t] = "login"
      <3>1. t \in Nat
        BY CountsAssumption DEF Workers
      <3>2. t <= Len(queue')
        BY <2>1, <2>2, <3>1
      <3> QED BY <3>2
    <2>3. items' = items /\ items # <<>> /\ mpc' = "wait"
      BY DEF Accounted, MoreInv
    <2> HIDE DEF StartThreads
    <2> QED BY <2>1, <2>2, <2>3 DEF Accounted
  <1>5. Calm'
    <2>1. failed = {} /\ failed' = failed /\ lost' = lost /\ mpc' = "wait" /\ quit' = {}
      BY DEF Calm, MoreInv
    <2>2. \A t \in Workers : pc'[t] \in {"login", "done"} /\ lost[t] = {}
      BY DEF TypeInv, Shape
    <2>3. calm' => token'.client <= token'.server
      BY DEF TypeInv, TypeOK
    <2> HIDE DEF StartThreads
    <2> QED BY <2>1, <2>2, <2>3 DEF Calm
  <1>6. Saved'
    BY DEF Saved, MoreInv
  <1> QED BY <1>2, <1>3, <1>4, <1>5, <1>6 DEF MoreInv

\* When all threads have ended nobody has a game any more; if one of them did
\* not give up the queue is empty.
LEMMA JoinThreadsMore == TypeInv /\ MoreInv /\ JoinThreads => MoreInv'
  <1> SUFFICES ASSUME TypeInv, MoreInv, JoinThreads PROVE MoreInv'
    OBVIOUS
  <1> USE DEF JoinThreads, env, thread, history
  <1>1. Run'
    BY DEF Run, MoreInv
  <1>2. Entries'
    BY DEF Entries, Whole, RunConf, Run, MoreInv
  <1>3. items \in Seq(Games) /\ items # <<>> /\ Len(items) \in Nat /\ Len(items) >= 1
    <2>1. items \in Seq(Games) /\ items # <<>>
      BY DEF TypeInv, Shape, Accounted, MoreInv
    <2> QED BY <2>1
  <1>4. Accounted'
    <2>1. ASSUME NEW s \in ToSet(items) \ failed
          PROVE  \/ \E e \in results : e.game = s
                 \/ s \in ToSet(queue) /\ \A t \in Workers : t <= Len(items) => t \in quit
      <3>1. s \in ToSet(queue) \/ \E e \in results : e.game = s
        BY DEF Accounted, MoreInv
      <3>2. s \in ToSet(queue) => queue # <<>>
        BY DEF ToSet
      <3> QED BY <3>1, <3>2 DEF Accounted, MoreInv
    <2> QED BY <2>1 DEF Accounted
  <1>5. Calm'
    <2>1. 1 \in Workers
      BY CountsAssumption DEF Workers
    <2>2. calm => queue = <<>>
      BY <1>3, <2>1 DEF Calm, Accounted, MoreInv
    <2> QED BY <2>2 DEF Calm, MoreInv
  <1>6. Saved'
    BY DEF Saved, Run, MoreInv
  <1> QED BY <1>1, <1>2, <1>4, <1>5, <1>6 DEF MoreInv

LEMMA LoadCacheMore == TypeInv /\ MoreInv /\ LoadCache => MoreInv'
  <1> SUFFICES ASSUME TypeInv, MoreInv, LoadCache PROVE MoreInv'
    OBVIOUS
  <1> USE DEF LoadCache, env, thread
  <1>1. Run'
    BY DEF Run, MoreInv
  <1>2. Entries'
    BY DEF Entries, Run, MoreInv
  <1>3. Accounted'
    BY DEF Accounted, Run, MoreInv
  <1>4. Calm'
    BY DEF Calm, Run, MoreInv
  <1>5. Saved'
    BY DEF Saved, Loadable, MoreInv
  <1> QED BY <1>1, <1>2, <1>3, <1>4, <1>5 DEF MoreInv

LEMMA OpenCacheMore ==
  ASSUME NEW ok \in BOOLEAN, TypeInv, MoreInv, OpenCache(ok)
  PROVE  MoreInv'
  <1> USE DEF OpenCache, env
  <1>1. CASE Exit /\ cache' = cache
    BY <1>1, ExitMore DEF MoreInv
  <1>2. CASE /\ cache' = CutCache /\ mpc' = "write"
             /\ UNCHANGED <<main, queue, results, thread, history>>
    <2> USE <1>2 DEF main, thread, history
    <2>1. Run'
      BY DEF Run, MoreInv
    <2>2. Entries'
      BY DEF Entries, Whole, RunConf, MoreInv
    <2>3. Accounted'
      BY DEF Accounted, MoreInv
    <2>4. Calm'
      BY DEF Calm, MoreInv
    <2>5. Saved'
      BY DEF Saved, CutCache
    <2> QED BY <2>1, <2>2, <2>3, <2>4, <2>5 DEF MoreInv
  <1> QED BY <1>1, <1>2

\* What is saved are the entries of an update, and the games that failed.
LEMMA WriteCacheMore == TypeInv /\ MoreInv /\ WriteCache => MoreInv'
  <1> SUFFICES ASSUME TypeInv, MoreInv, WriteCache PROVE MoreInv'
    OBVIOUS
  <1> USE DEF WriteCache
  <1>1. /\ cache'.games = games /\ cache'.bad = failed \union ToSet(queue)
        /\ cache'.owned = owned
    BY DEF CacheOf
  <1>2. op = "update" /\ ~useCache /\ owned \in Knowns /\ conf \in UpdateConfs
    BY DEF Run, MoreInv
  <1>3. ASSUME NEW e \in games, e.game # NoName, e.game \notin failed
        PROVE  /\ e.game \in Games
               /\ \E u \in UpdateConfs : e = EntryOf(e.game, u, owned)
    <2>1. e.game \in Games /\ e = EntryOf(e.game, RunConf(e.game), owned)
      BY <1>2, <1>3 DEF Entries, Whole, MoreInv
    <2>2. RunConf(e.game) = conf
      BY <1>2 DEF RunConf
    <2> QED BY <1>2, <2>1, <2>2
  <1>4. Exit /\ Saved
    BY DEF MoreInv
  <1> QED BY <1>1, <1>2, <1>3, <1>4, ExitMore

LEMMA DownloadMore ==
  ASSUME NEW all \in BOOLEAN, TypeInv, MoreInv, Download(all)
  PROVE  MoreInv'
  <1>1. CASE op = "download"
    <2>1. Exit /\ cache' = cache
      BY <1>1 DEF Download
    <2> QED BY <2>1, ExitMore DEF MoreInv
  <1>2. CASE op # "download"
    <2>1. /\ mpc = "ready" /\ op = "both" /\ op' = "orphans" /\ conf' = Everything(conf)
          /\ mpc' = IF useCache THEN "load" ELSE "owned"
          /\ items' = <<>> /\ games' = {} /\ failed' = {}
          /\ UNCHANGED <<useCache, page, owned, queue, results, thread, before, quit, calm>>
          /\ UNCHANGED cache
      BY <1>2 DEF Download
    <2>2. conf \in Configs
      BY <2>1 DEF Run, MoreInv
    <2>3. Run'
      BY <2>1, <2>2 DEF Run, MoreInv
    <2>4. Entries'
      BY <2>1 DEF Entries, MoreInv
    <2>5. Accounted'
      BY <2>1 DEF Accounted
    <2>6. Calm'
      BY <2>1 DEF Calm, MoreInv
    <2>7. Saved'
      BY <2>1 DEF Saved, MoreInv
    <2> QED BY <2>3, <2>4, <2>5, <2>6, <2>7 DEF MoreInv
  <1> QED BY <1>1, <1>2

LEMMA EndMore ==
  ASSUME MoreInv, Crash \/ LoadFails \/ CheckOrphans
  PROVE  MoreInv'
  <1>1. Exit /\ cache' = cache
    BY DEF Crash, LoadFails, CheckOrphans
  <1> QED BY <1>1, ExitMore DEF MoreInv

LEMMA MoreNext == TypeInv /\ MoreInv /\ [Next]_vars => MoreInv'
  <1> SUFFICES ASSUME TypeInv, MoreInv, [Next]_vars PROVE MoreInv'
    OBVIOUS
  <1>1. CASE Tick \/ Begin
    BY <1>1, TickMore, BeginMore
  <1>2. CASE Buy \/ UNCHANGED vars
    BY <1>2, SameMore DEF Buy, vars, env
  <1>3. CASE Crash
    BY <1>3, EndMore
  <1>4. CASE \E t \in Workers : Worker(t)
    BY <1>4, WorkersMore
  <1>5. CASE Main
    <2>1. ASSUME NEW ok \in BOOLEAN, GetOwned(ok) \/ GetPage(ok) \/ OpenCache(ok) \/ Download(ok)
          PROVE  MoreInv'
      BY <2>1, GetOwnedMore, GetPageMore, OpenCacheMore, DownloadMore
    <2>2. CASE StartThreads \/ JoinThreads \/ LoadCache \/ LoadFails \/ WriteCache \/ CheckOrphans
      BY <2>2, StartThreadsMore, JoinThreadsMore, LoadCacheMore, WriteCacheMore, EndMore
    <2> QED BY <1>5, <2>1, <2>2 DEF Main
  <1> QED BY <1>1, <1>2, <1>3, <1>4, <1>5 DEF Next

LEMMA MoreInvariant == Spec => []MoreInv
  <1>1. Init => MoreInv
    BY InitMore
  <1>2. TypeInv /\ Listing /\ MoreInv /\ [Next]_vars => MoreInv'
    BY MoreNext
  <1> QED BY <1>1, <1>2, Invariant, PTL DEF Spec

--------------------------------------------------------------------------------
(* Priorities *)

\* The first of some priorities, which the code counts from 0, is the lowest.
LEMMA FirstFacts ==
  ASSUME NEW S \in SUBSET Nat
  PROVE  /\ First(S) = Place(S) + 1 /\ First(S) \in Nat
         /\ S = {} => First(S) = 1
         /\ S # {} => First(S) \in S /\ \A m \in S : First(S) <= m
  <1>1. CASE S = {}
    BY <1>1 DEF First, Place
  <1>2. CASE S # {}
    <2>1. PICK x : x = CHOOSE n \in S : \A m \in S : n <= m
      OBVIOUS
    <2>2. x \in S /\ \A m \in S : x <= m
      BY <1>2, <2>1, SmallestElement
    <2>3. First(S) = x
      BY <1>2, <2>1 DEF First
    <2>4. Min(S) = x
      BY <2>1 DEF Min
    <2>5. Place(S) = x - 1 /\ x \in Nat
      BY <1>2, <2>2, <2>4 DEF Place
    <2> QED BY <1>2, <2>2, <2>3, <2>5
  <1> QED BY <1>1, <1>2

\* A part of the numbers that is empty only with the whole begins no sooner.
LEMMA FirstLater ==
  ASSUME NEW S \in SUBSET Nat, NEW T \in SUBSET S, T = {} => S = {}
  PROVE  First(S) <= First(T)
  <1>1. CASE T = {}
    BY <1>1, FirstFacts
  <1>2. CASE T # {}
    <2>1. T \in SUBSET Nat
      OBVIOUS
    <2>2. First(T) \in S
      BY <1>2, <2>1, FirstFacts
    <2> QED BY <2>2, FirstFacts
  <1> QED BY <1>1, <1>2

\* What parseOptionString makes of an option.
Ordered(c) ==
  /\ c.platforms \subseteq Platforms /\ c.languages \subseteq Languages
  /\ c.platformPriority \in Seq(SUBSET Platforms)
  /\ c.languagePriority \in Seq(SUBSET Languages)
  /\ c.languagePriority = <<>> \/ UNION ToSet(c.languagePriority) = c.languages

\* The files of a list are what is offered, in any way that languages may be put
\* together to files.
Matches(files, offers, c) ==
  /\ \A f \in files :
       /\ f.languages \intersect c.languages # {}
       /\ \A l \in f.languages \intersect c.languages :
            [path |-> f.path, os |-> f.platform, language |-> l] \in offers
  /\ \A o \in offers :
       /\ o.language \in c.languages
       /\ \E f \in files : f.path = o.path /\ f.platform = o.os /\ o.language \in f.languages
       /\ \A p \in offers : p.path = o.path => p.os = o.os

OnPlatform(f, c) == {n \in DOMAIN c.platformPriority : f.platform \in c.platformPriority[n]}
InLanguage(f, c) ==
  {n \in DOMAIN c.languagePriority : f.languages \intersect c.languagePriority[n] # {}}
OffersOn(p, offers, c) ==
  {n \in DOMAIN c.platformPriority :
     \E o \in {x \in offers : x.path = p} : o.os \in c.platformPriority[n]}
OffersIn(p, offers, c) ==
  {n \in DOMAIN c.languagePriority :
     \E o \in {x \in offers : x.path = p} : o.language \in c.languagePriority[n]}

\* The priorities that a file or a path meets are numbers.
LEMMA PlacesAreNumbers ==
  ASSUME NEW c, Ordered(c), NEW f, NEW p, NEW offers
  PROVE  /\ OnPlatform(f, c) \in SUBSET Nat /\ InLanguage(f, c) \in SUBSET Nat
         /\ OffersOn(p, offers, c) \in SUBSET Nat /\ OffersIn(p, offers, c) \in SUBSET Nat
  <1>1. DOMAIN c.platformPriority \subseteq Nat /\ DOMAIN c.languagePriority \subseteq Nat
    BY DEF Ordered
  <1> QED BY <1>1 DEF OnPlatform, InLanguage, OffersOn, OffersIn

\* A score is the sum of two places.
LEMMA ScoreIs ==
  ASSUME NEW c, Ordered(c), NEW f
  PROVE  /\ Score(f, c) + 2 = First(OnPlatform(f, c)) + First(InLanguage(f, c))
         /\ Score(f, c) \in Int
  <1>1. OnPlatform(f, c) \in SUBSET Nat /\ InLanguage(f, c) \in SUBSET Nat
    BY PlacesAreNumbers
  <1>2. Score(f, c) = Place(OnPlatform(f, c)) + Place(InLanguage(f, c))
    BY DEF Score, OnPlatform, InLanguage
  <1>3. PICK a, b, x, y : /\ a = Place(OnPlatform(f, c)) /\ b = Place(InLanguage(f, c))
                          /\ x = First(OnPlatform(f, c)) /\ y = First(InLanguage(f, c))
    OBVIOUS
  <1>4. x = a + 1 /\ y = b + 1 /\ x \in Nat /\ y \in Nat
    BY <1>1, <1>3, FirstFacts
  <1>5. a \in Int /\ b \in Int
    <2>1. ASSUME NEW S \in SUBSET Nat PROVE Place(S) \in Int
      <3>1. CASE S = {}
        BY <3>1 DEF Place
      <3>2. CASE S # {}
        <4>1. \E m \in S : \A k \in S : m <= k
          BY <3>2, SmallestElement
        <4>2. Min(S) \in S
          BY <4>1 DEF Min
        <4>3. PICK m : m = Min(S)
          OBVIOUS
        <4>4. Place(S) = m - 1 /\ m \in Nat
          BY <3>2, <4>2, <4>3 DEF Place
        <4> QED BY <4>4
      <3> QED BY <3>1, <3>2
    <2> QED BY <1>1, <1>3, <2>1
  <1>6. Score(f, c) = a + b
    BY <1>2, <1>3
  <1> QED BY <1>3, <1>4, <1>5, <1>6

\* A rank is one too.
LEMMA RankIs ==
  ASSUME NEW c, Ordered(c), NEW p, NEW offers
  PROVE  /\ Rank(p, offers, c) = First(OffersOn(p, offers, c)) + First(OffersIn(p, offers, c))
         /\ Rank(p, offers, c) \in Nat
  <1>1. Rank(p, offers, c) = First(OffersOn(p, offers, c)) + First(OffersIn(p, offers, c))
    BY DEF Rank, OffersOn, OffersIn
  <1>2. First(OffersOn(p, offers, c)) \in Nat /\ First(OffersIn(p, offers, c)) \in Nat
    BY PlacesAreNumbers, FirstFacts
  <1> QED BY <1>1, <1>2

\* With one platform for each path, a file is where its path is.
LEMMA SamePlatform ==
  ASSUME NEW c, NEW F, NEW G, Matches(F, G, c), NEW f \in F
  PROVE  OnPlatform(f, c) = OffersOn(f.path, G, c)
  <1>1. PICK l \in f.languages \intersect c.languages :
          [path |-> f.path, os |-> f.platform, language |-> l] \in G
    BY DEF Matches
  <1>2. PICK o \in G : o.path = f.path /\ o.os = f.platform
    BY <1>1
  <1>3. \A p \in {x \in G : x.path = f.path} : p.os = f.platform
    BY <1>2 DEF Matches
  <1>4. ASSUME NEW n
        PROVE  (\E p \in {x \in G : x.path = f.path} : p.os \in c.platformPriority[n])
                 <=> f.platform \in c.platformPriority[n]
    BY <1>2, <1>3
  <1> QED BY <1>4 DEF OnPlatform, OffersOn

\* The languages of a file are among those its path is offered in.
LEMMA SomeLanguages ==
  ASSUME NEW c, Ordered(c), NEW F, NEW G, Matches(F, G, c), NEW f \in F
  PROVE  /\ InLanguage(f, c) \subseteq OffersIn(f.path, G, c)
         /\ InLanguage(f, c) = {} => OffersIn(f.path, G, c) = {}
  <1>1. ASSUME NEW n \in InLanguage(f, c) PROVE n \in OffersIn(f.path, G, c)
    <2>1. n \in DOMAIN c.languagePriority
      BY DEF InLanguage
    <2>2. PICK l \in f.languages : l \in c.languagePriority[n]
      BY DEF InLanguage
    <2>3. l \in c.languages
      <3>1. c.languagePriority[n] \in ToSet(c.languagePriority)
        BY <2>1 DEF ToSet
      <3>2. c.languagePriority # <<>>
        BY <2>1
      <3> QED BY <2>2, <3>1, <3>2 DEF Ordered
    <2>4. [path |-> f.path, os |-> f.platform, language |-> l] \in G
      BY <2>2, <2>3 DEF Matches
    <2>5. \E o \in {x \in G : x.path = f.path} : o.language = l
      BY <2>4
    <2> QED BY <2>1, <2>2, <2>5 DEF OffersIn
  <1>2. ASSUME NEW n \in OffersIn(f.path, G, c) PROVE InLanguage(f, c) # {}
    <2>1. PICK l \in f.languages \intersect c.languages : TRUE
      BY DEF Matches
    <2>2. UNION ToSet(c.languagePriority) = c.languages
      <3>1. n \in DOMAIN c.languagePriority
        BY DEF OffersIn
      <3> QED BY <3>1 DEF Ordered
    <2>3. PICK S \in ToSet(c.languagePriority) : l \in S
      BY <2>2
    <2>4. PICK k \in DOMAIN c.languagePriority : c.languagePriority[k] = S
      BY <2>3 DEF ToSet, Ordered
    <2> QED BY <2>1, <2>3, <2>4 DEF InLanguage
  <1> QED BY <1>1, <1>2

\* A file has no better score than its path has a rank.
LEMMA ScoreAbove ==
  ASSUME NEW c, Ordered(c), NEW F, NEW G, Matches(F, G, c), NEW f \in F
  PROVE  Rank(f.path, G, c) <= Score(f, c) + 2
  <1>1. First(OnPlatform(f, c)) = First(OffersOn(f.path, G, c))
    BY SamePlatform
  <1>2. First(OffersIn(f.path, G, c)) <= First(InLanguage(f, c))
    BY SomeLanguages, PlacesAreNumbers, FirstLater
  <1>3. /\ First(OffersOn(f.path, G, c)) \in Nat /\ First(OffersIn(f.path, G, c)) \in Nat
        /\ First(InLanguage(f, c)) \in Nat
    BY PlacesAreNumbers, FirstFacts
  <1> QED BY <1>1, <1>2, <1>3, ScoreIs, RankIs

\* Some file of a path has a score as good as its rank.
LEMMA ScoreReached ==
  ASSUME NEW c, Ordered(c), NEW F, NEW G, Matches(F, G, c), NEW o \in G
  PROVE  \E f \in F : f.path = o.path /\ Score(f, c) + 2 <= Rank(o.path, G, c)
  <1>1. PICK N : N = OffersIn(o.path, G, c)
    OBVIOUS
  <1>2. N \in SUBSET Nat
    BY <1>1, PlacesAreNumbers
  <1>3. PICK f \in F : f.path = o.path /\ First(InLanguage(f, c)) <= First(N)
    <2>1. CASE N = {}
      <3>1. PICK f \in F : f.path = o.path
        BY DEF Matches
      <3>2. InLanguage(f, c) = {}
        BY <1>1, <2>1, <3>1, SomeLanguages
      <3>3. First(InLanguage(f, c)) = 1 /\ First(N) = 1
        BY <2>1, <3>2 DEF First
      <3> QED BY <3>1, <3>3
    <2>2. CASE N # {}
      <3>1. First(N) \in N
        BY <1>2, <2>2, FirstFacts
      <3>2. PICK n : n = First(N)
        OBVIOUS
      <3>3. n \in DOMAIN c.languagePriority
        BY <1>1, <3>1, <3>2 DEF OffersIn
      <3>4. PICK p \in G : p.path = o.path /\ p.language \in c.languagePriority[n]
        BY <1>1, <3>1, <3>2 DEF OffersIn
      <3>5. PICK f \in F : f.path = p.path /\ p.language \in f.languages
        BY DEF Matches
      <3>6. n \in InLanguage(f, c)
        BY <3>3, <3>4, <3>5 DEF InLanguage
      <3>7. First(InLanguage(f, c)) <= n
        BY <3>6, PlacesAreNumbers, FirstFacts
      <3> QED BY <3>2, <3>4, <3>5, <3>7
    <2> QED BY <2>1, <2>2
  <1>4. First(OnPlatform(f, c)) = First(OffersOn(o.path, G, c))
    BY <1>3, SamePlatform
  <1>5. /\ First(OnPlatform(f, c)) \in Nat /\ First(InLanguage(f, c)) \in Nat /\ First(N) \in Nat
    BY <1>2, PlacesAreNumbers, FirstFacts
  <1>6. Score(f, c) + 2 <= Rank(o.path, G, c)
    BY <1>1, <1>3, <1>4, <1>5, ScoreIs, RankIs
  <1> QED BY <1>3, <1>6

\* The files that the filter leaves are those of the paths a user prefers.
PathsOf(F) == {f.path : f \in F}
Preferred(G, c) ==
  {p \in PathsOf(G) : \A q \in PathsOf(G) : Rank(p, G, c) <= Rank(q, G, c)}

\* The files with the lowest score are those of the paths with the lowest rank.
LEMMA BestPaths ==
  ASSUME NEW c, Ordered(c), NEW F, NEW G, Matches(F, G, c)
  PROVE  PathsOf(Best(F, c)) = Preferred(G, c)
  <1>0. PICK paths : paths = PathsOf(G)
    OBVIOUS
  <1>1. \A f : Score(f, c) \in Int
    BY ScoreIs
  <1>2. \A p : Rank(p, G, c) \in Nat
    BY RankIs
  <1>3. \A f \in F : f.path \in paths /\ Rank(f.path, G, c) <= Score(f, c) + 2
    <2> SUFFICES ASSUME NEW f \in F
                 PROVE  f.path \in paths /\ Rank(f.path, G, c) <= Score(f, c) + 2
      OBVIOUS
    <2>1. PICK l : [path |-> f.path, os |-> f.platform, language |-> l] \in G
      BY DEF Matches
    <2>2. PICK o \in G : o.path = f.path
      BY <2>1
    <2> QED BY <1>0, <2>2, ScoreAbove DEF PathsOf
  <1>4. \A p \in paths : \E f \in F : f.path = p /\ Score(f, c) + 2 <= Rank(p, G, c)
    BY <1>0, ScoreReached DEF PathsOf
  <1>5. ASSUME NEW f \in Best(F, c), NEW q \in paths
        PROVE  Rank(f.path, G, c) <= Rank(q, G, c)
    <2>1. PICK g \in F : g.path = q /\ Score(g, c) + 2 <= Rank(q, G, c)
      BY <1>4
    <2>2. f \in F /\ Score(f, c) <= Score(g, c)
      BY DEF Best
    <2> QED BY <1>1, <1>2, <1>3, <2>1, <2>2
  <1>6. ASSUME NEW p \in paths, \A q \in paths : Rank(p, G, c) <= Rank(q, G, c)
        PROVE  \E f \in Best(F, c) : f.path = p
    <2>1. PICK f \in F : f.path = p /\ Score(f, c) + 2 <= Rank(p, G, c)
      BY <1>4
    <2>2. ASSUME NEW g \in F PROVE Score(f, c) <= Score(g, c)
      <3>1. Rank(p, G, c) <= Rank(g.path, G, c) /\ Rank(g.path, G, c) <= Score(g, c) + 2
        BY <1>3, <1>6
      <3> QED BY <1>1, <1>2, <2>1, <3>1
    <2>3. f \in Best(F, c)
      BY <2>2 DEF Best
    <2> QED BY <2>1, <2>3
  <1>7. \A f \in Best(F, c) : f.path \in paths
    BY <1>3 DEF Best
  <1>8. ASSUME NEW p PROVE p \in PathsOf(Best(F, c)) <=> p \in Preferred(G, c)
    BY <1>0, <1>5, <1>6, <1>7 DEF PathsOf, Preferred
  <1> QED BY <1>8 DEF Preferred, PathsOf

\* The filter applied twice is the filter.
LEMMA BestTwice ==
  ASSUME NEW F, NEW c
  PROVE  Best(Best(F, c), c) = Best(F, c)
  BY DEF Best

--------------------------------------------------------------------------------
(* The files of a list *)

\* The files a list asks for are those of the selected nodes.
OfSelected(C, nodes, kind, level, c) ==
  /\ C \in Seq(ToSet(C))
  /\ \A f \in ToSet(C) : \E i \in DOMAIN nodes : \E p \in ToSet(nodes[i].files) :
       Selected(nodes[i], kind, c) /\ f = FileOf(nodes[i], p, kind, level)
  /\ Includes(c, kind) =>
       \A i \in DOMAIN nodes : \A p \in ToSet(nodes[i].files) :
         Selected(nodes[i], kind, c) => FileOf(nodes[i], p, kind, level) \in ToSet(C)

LEMMA CandidatesAre ==
  ASSUME NEW slug \in DOMAIN Products, NEW kind \in Kinds, NEW level, NEW c,
         NEW nodes, nodes = Products[slug][kind],
         NEW C, C = Candidates(slug, kind, level, c)
  PROVE  OfSelected(C, nodes, kind, level, c)
  <1> DEFINE on(i) == Includes(c, kind) /\ Selected(nodes[i], kind, c)
             of(i) == [j \in DOMAIN nodes[i].files |->
                         FileOf(nodes[i], nodes[i].files[j], kind, level)]
             s == [i \in DOMAIN nodes |-> IF on(i) THEN of(i) ELSE <<>>]
             T == UNION {{FileOf(nodes[i], p, kind, level) : p \in ToSet(nodes[i].files)} :
                           i \in DOMAIN nodes}
  <1>1. /\ nodes \in Seq(ToSet(nodes))
        /\ \A i \in DOMAIN nodes : nodes[i].files \in Seq(ToSet(nodes[i].files))
    BY ProductsAssumption
  <1>2. C = FlattenSeq(s)
    BY DEF Candidates
  <1>3. ASSUME NEW i \in DOMAIN nodes
        PROVE  /\ of(i) \in Seq(T)
               /\ ToSet(of(i)) = {FileOf(nodes[i], p, kind, level) : p \in ToSet(nodes[i].files)}
    <2>1. PICK a : a = nodes[i].files
      OBVIOUS
    <2>2. a \in Seq(ToSet(a)) /\ DOMAIN a = 1 .. Len(a) /\ Len(a) \in Nat
      BY <1>1, <2>1
    <2>3. \A j \in DOMAIN a : a[j] \in ToSet(a)
      BY DEF ToSet
    <2>4. of(i) = [j \in 1 .. Len(a) |-> FileOf(nodes[i], a[j], kind, level)]
      BY <2>1, <2>2
    <2>5. \A j \in 1 .. Len(a) : FileOf(nodes[i], a[j], kind, level) \in T
      <3>1. \A p \in ToSet(nodes[i].files) : FileOf(nodes[i], p, kind, level) \in T
        OBVIOUS
      <3> HIDE DEF T
      <3> QED BY <2>1, <2>2, <2>3, <3>1
    <2> HIDE DEF T
    <2>6. of(i) \in Seq(T)
      BY <2>2, <2>4, <2>5
    <2>7. ToSet(of(i)) = {FileOf(nodes[i], p, kind, level) : p \in ToSet(a)}
      <3>1. PICK b : b = of(i) /\ b = [j \in 1 .. Len(a) |-> FileOf(nodes[i], a[j], kind, level)]
        BY <2>4
      <3>2. ToSet(b) = {FileOf(nodes[i], p, kind, level) : p \in ToSet(a)}
        BY <2>2, <3>1 DEF ToSet
      <3> QED BY <3>1, <3>2
    <2> QED BY <2>1, <2>6, <2>7
  <1>4. s \in Seq(Seq(T)) /\ Len(s) = Len(nodes) /\ DOMAIN nodes = 1 .. Len(s)
    <2>1. DOMAIN nodes = 1 .. Len(nodes) /\ Len(nodes) \in Nat
      BY <1>1
    <2> HIDE DEF T, of, on
    <2>2. <<>> \in Seq(T)
      OBVIOUS
    <2>3. \A i \in 1 .. Len(nodes) : (IF on(i) THEN of(i) ELSE <<>>) \in Seq(T)
      BY <1>3, <2>1, <2>2
    <2> QED BY <2>1, <2>3
  <1> HIDE DEF T, of, on
  <1>5. \A i \in DOMAIN nodes : s[i] = IF on(i) THEN of(i) ELSE <<>>
    OBVIOUS
  <1> HIDE DEF s
  <1>6. C \in Seq(T) /\ \A i \in 1 .. Len(s) : ToSet(s[i]) \subseteq ToSet(C)
    BY <1>2, <1>4, FlattenFacts
  <1>7. ASSUME NEW f \in ToSet(C)
        PROVE  \E i \in DOMAIN nodes : \E p \in ToSet(nodes[i].files) :
                 Selected(nodes[i], kind, c) /\ f = FileOf(nodes[i], p, kind, level)
    <2>1. PICK i \in DOMAIN nodes : f \in ToSet(s[i])
      BY <1>2, <1>4, FlattenElements
    <2>2. on(i) /\ s[i] = of(i)
      <3>1. ToSet(<<>>) = {}
        BY DEF ToSet
      <3> QED BY <1>5, <2>1, <3>1
    <2>3. f \in {FileOf(nodes[i], p, kind, level) : p \in ToSet(nodes[i].files)}
      BY <1>3, <2>1, <2>2
    <2> QED BY <2>2, <2>3 DEF on
  <1>8. ASSUME Includes(c, kind), NEW i \in DOMAIN nodes, NEW p \in ToSet(nodes[i].files),
               Selected(nodes[i], kind, c)
        PROVE  FileOf(nodes[i], p, kind, level) \in ToSet(C)
    <2>1. s[i] = of(i)
      BY <1>5, <1>8 DEF on
    <2>2. FileOf(nodes[i], p, kind, level) \in ToSet(of(i))
      BY <1>3
    <2> QED BY <1>4, <1>6, <2>1, <2>2
  <1>9. C \in Seq(ToSet(C))
    <2>1. DOMAIN C = 1 .. Len(C) /\ Len(C) \in Nat
      BY <1>6
    <2>2. \A k \in 1 .. Len(C) : C[k] \in ToSet(C)
      BY <2>1 DEF ToSet
    <2> QED BY <1>6, <2>1, <2>2
  <1> QED BY <1>7, <1>8, <1>9 DEF OfSelected

\* Put together or not, the files are the candidates, and none is lost.
MadeOf(F, C) ==
  /\ \A f \in F :
       /\ \E e \in ToSet(C) : f.path = e.path /\ f.platform = e.platform /\ f.type = e.type
       /\ f.languages # {}
       /\ \A l \in f.languages : \E e \in ToSet(C) : e.path = f.path /\ l \in e.languages
  /\ \A e \in ToSet(C) : \E f \in F : f.path = e.path /\ e.languages \subseteq f.languages

LEMMA FilesAre ==
  ASSUME NEW slug, NEW kind, NEW level, NEW c,
         NEW C, C = Candidates(slug, kind, level, c), C \in Seq(ToSet(C)),
         NEW F, F = FileVector(slug, kind, level, c, {}),
         \A f \in ToSet(C) : /\ DOMAIN f = {"path", "type", "platform", "languages"}
                             /\ f.languages # {}
  PROVE  MadeOf(F, C)
  <1> DEFINE held == {k \in DOMAIN C : Downlink(C[k]) \notin {}}
             same(k) == {i \in held : C[i].path = C[k].path}
             merged(k) == Merged(C, same(k))
  <1>0. held = DOMAIN C
    OBVIOUS
  <1>1. \A k \in DOMAIN C : C[k] \in ToSet(C)
    BY DEF ToSet
  <1>2. \A e \in ToSet(C) : \E k \in DOMAIN C : C[k] = e
    BY DEF ToSet
  <1>3. F = IF ~c.duplicates THEN {C[k] : k \in held} ELSE {merged(k) : k \in held}
    BY DEF FileVector
  <1> HIDE DEF held
  <1>4. CASE ~c.duplicates
    <2>1. F = ToSet(C)
      BY <1>0, <1>3, <1>4 DEF ToSet
    <2> QED BY <2>1 DEF MadeOf
  <1>5. CASE c.duplicates
    <2>1. F = {merged(k) : k \in DOMAIN C}
      <3> HIDE DEF merged
      <3> QED BY <1>0, <1>3, <1>5
    <2>2. ASSUME NEW k \in DOMAIN C
          PROVE  /\ Min(same(k)) \in DOMAIN C /\ C[Min(same(k))].path = C[k].path
                 /\ k \in same(k)
      <3>1. same(k) \in SUBSET Nat /\ k \in same(k)
        BY <1>0
      <3>2. PICK S : S = same(k)
        OBVIOUS
      <3>3. \E m \in S : \A n \in S : m <= n
        BY <3>1, <3>2, SmallestElement
      <3>4. Min(S) \in S
        BY <3>3 DEF Min
      <3> QED BY <1>0, <3>1, <3>2, <3>4
    <2>3. ASSUME NEW k \in DOMAIN C
          PROVE  /\ merged(k).path = C[k].path
                 /\ merged(k).platform = C[Min(same(k))].platform
                 /\ merged(k).type = C[Min(same(k))].type
                 /\ merged(k).languages = UNION {C[i].languages : i \in same(k)}
      <3>1. PICK x, L : x = C[Min(same(k))] /\ L = UNION {C[i].languages : i \in same(k)}
        OBVIOUS
      <3>2. DOMAIN x = {"path", "type", "platform", "languages"} /\ x.path = C[k].path
        BY <1>1, <2>2, <3>1
      <3>3. merged(k) = [x EXCEPT !.languages = L]
        BY <3>1 DEF Merged
      <3> HIDE DEF merged
      <3> QED BY <3>1, <3>2, <3>3
    <2> HIDE DEF merged
    <2>4. ASSUME NEW f \in F
          PROVE  /\ \E e \in ToSet(C) : f.path = e.path /\ f.platform = e.platform /\ f.type = e.type
                 /\ f.languages # {}
                 /\ \A l \in f.languages : \E e \in ToSet(C) : e.path = f.path /\ l \in e.languages
      <3>1. PICK k \in DOMAIN C : f = merged(k)
        BY <2>1
      <3>2. /\ f.path = C[k].path /\ f.platform = C[Min(same(k))].platform
            /\ f.type = C[Min(same(k))].type /\ f.languages = UNION {C[i].languages : i \in same(k)}
        BY <2>3, <3>1
      <3>3. \E e \in ToSet(C) : f.path = e.path /\ f.platform = e.platform /\ f.type = e.type
        BY <1>1, <2>2, <3>2
      <3>4. f.languages # {}
        <4>1. C[k].languages \subseteq f.languages /\ C[k].languages # {}
          BY <1>1, <2>2, <3>2
        <4> QED BY <4>1
      <3>5. \A l \in f.languages : \E e \in ToSet(C) : e.path = f.path /\ l \in e.languages
        BY <1>0, <1>1, <3>2
      <3> QED BY <3>3, <3>4, <3>5
    <2>5. ASSUME NEW e \in ToSet(C)
          PROVE  \E f \in F : f.path = e.path /\ e.languages \subseteq f.languages
      <3>1. PICK k \in DOMAIN C : C[k] = e
        BY <1>2
      <3>2. merged(k).path = e.path /\ e.languages \subseteq merged(k).languages
        <4>1. k \in same(k) /\ merged(k).path = C[k].path
          BY <2>2, <2>3
        <4>2. merged(k).languages = UNION {C[i].languages : i \in same(k)}
          BY <2>3
        <4> HIDE DEF same
        <4> QED BY <3>1, <4>1, <4>2
      <3> QED BY <2>1, <3>2
    <2> QED BY <2>4, <2>5 DEF MadeOf
  <1> QED BY <1>4, <1>5

\* What is offered is what the selected nodes have.
LEMMA OffersAre ==
  ASSUME NEW nodes, NEW kind, NEW c
  PROVE  /\ \A o \in Offers(nodes, kind, c) : \E i \in DOMAIN nodes : \E p \in ToSet(nodes[i].files) :
              /\ Selected(nodes[i], kind, c)
              /\ o = [path |-> p, os |-> nodes[i].os, language |-> nodes[i].language]
         /\ \A i \in DOMAIN nodes : \A p \in ToSet(nodes[i].files) :
              Selected(nodes[i], kind, c) =>
                [path |-> p, os |-> nodes[i].os, language |-> nodes[i].language]
                  \in Offers(nodes, kind, c)
  BY DEF Offers

\* A path is offered on one platform.
LEMMA OnePlatform ==
  ASSUME NEW slug \in DOMAIN Products, NEW kind \in Kinds, kind # "extra",
         NEW nodes, nodes = Products[slug][kind]
  PROVE  /\ \A i \in DOMAIN nodes : nodes[i].os \in Platforms /\ nodes[i].language \in Languages
         /\ \A i, j \in DOMAIN nodes : \A p \in ToSet(nodes[i].files) :
              p \in ToSet(nodes[j].files) => nodes[i].os = nodes[j].os
  BY ProductsAssumption

\* A list of a product has what is offered of its kind, as far as it is wanted.
Listed(files, slug, kind, level, c) ==
  /\ \A f \in files : f.type = <<kind, level>>
  /\ <<kind, level>> \in c.include =>
       LET offers == Offers(Products[slug][kind], kind, c)
       IN IF kind = "extra" THEN PathsOf(files) = PathsOf(offers)
          ELSE Matches(files, offers, c)

\* Every file has a path and languages of selected nodes, and none is missing.
LEMMA FilesOffered ==
  ASSUME NEW slug \in DOMAIN Products, NEW kind \in Kinds, NEW level, NEW c,
         NEW nodes, nodes = Products[slug][kind],
         NEW F, F = FileVector(slug, kind, level, c, {})
  PROVE  /\ \A f \in F :
              /\ f.type = <<kind, level>> /\ f.languages # {}
              /\ \E i \in DOMAIN nodes :
                   /\ f.path \in ToSet(nodes[i].files) /\ Selected(nodes[i], kind, c)
                   /\ kind # "extra" => f.platform = nodes[i].os
              /\ kind # "extra" =>
                   \A l \in f.languages : \E i \in DOMAIN nodes :
                     /\ f.path \in ToSet(nodes[i].files) /\ Selected(nodes[i], kind, c)
                     /\ l = nodes[i].language
         /\ Includes(c, kind) =>
              \A i \in DOMAIN nodes : \A p \in ToSet(nodes[i].files) :
                Selected(nodes[i], kind, c) =>
                  \E f \in F : f.path = p /\ (kind # "extra" => nodes[i].language \in f.languages)
  <1>1. PICK C : C = Candidates(slug, kind, level, c)
    OBVIOUS
  <1>2. OfSelected(C, nodes, kind, level, c)
    BY <1>1, CandidatesAre
  <1>3. \A f \in ToSet(C) : \E i \in DOMAIN nodes : \E p \in ToSet(nodes[i].files) :
          Selected(nodes[i], kind, c) /\ f = FileOf(nodes[i], p, kind, level)
    BY <1>2 DEF OfSelected
  <1>4. Includes(c, kind) =>
          \A i \in DOMAIN nodes : \A p \in ToSet(nodes[i].files) :
            Selected(nodes[i], kind, c) => FileOf(nodes[i], p, kind, level) \in ToSet(C)
    BY <1>2 DEF OfSelected
  <1>6. ASSUME NEW e \in ToSet(C)
        PROVE  /\ DOMAIN e = {"path", "type", "platform", "languages"}
               /\ e.languages # {} /\ e.type = <<kind, level>>
               /\ \E i \in DOMAIN nodes :
                    /\ e.path \in ToSet(nodes[i].files) /\ Selected(nodes[i], kind, c)
                    /\ kind # "extra" => e.platform = nodes[i].os /\ e.languages = {nodes[i].language}
    <2>1. PICK i \in DOMAIN nodes : \E p \in ToSet(nodes[i].files) :
            Selected(nodes[i], kind, c) /\ e = FileOf(nodes[i], p, kind, level)
      BY <1>3
    <2>2. PICK p \in ToSet(nodes[i].files) : e = FileOf(nodes[i], p, kind, level)
      BY <2>1
    <2>3. /\ DOMAIN e = {"path", "type", "platform", "languages"}
          /\ e.languages # {} /\ e.path = p /\ e.type = <<kind, level>>
          /\ kind # "extra" => e.platform = nodes[i].os /\ e.languages = {nodes[i].language}
      BY <2>2 DEF FileOf
    <2> QED BY <2>1, <2>2, <2>3
  <1>7. MadeOf(F, C)
    <2>1. \A e \in ToSet(C) : /\ DOMAIN e = {"path", "type", "platform", "languages"}
                              /\ e.languages # {}
      BY <1>6
    <2>2. C \in Seq(ToSet(C))
      BY <1>2 DEF OfSelected
    <2> QED BY <1>1, <2>1, <2>2, FilesAre
  <1>8. \A e \in ToSet(C) : \E f \in F : f.path = e.path /\ e.languages \subseteq f.languages
    BY <1>7 DEF MadeOf
  <1>9. ASSUME NEW f \in F
        PROVE  /\ f.type = <<kind, level>> /\ f.languages # {}
               /\ \E i \in DOMAIN nodes :
                    /\ f.path \in ToSet(nodes[i].files) /\ Selected(nodes[i], kind, c)
                    /\ kind # "extra" => f.platform = nodes[i].os
    <2>1. PICK e \in ToSet(C) : f.path = e.path /\ f.platform = e.platform /\ f.type = e.type
      BY <1>7 DEF MadeOf
    <2>2. f.languages # {}
      BY <1>7 DEF MadeOf
    <2> QED BY <1>6, <2>1, <2>2
  <1>10. ASSUME kind # "extra", NEW f \in F, NEW l \in f.languages
         PROVE  \E i \in DOMAIN nodes :
                  /\ f.path \in ToSet(nodes[i].files) /\ Selected(nodes[i], kind, c)
                  /\ l = nodes[i].language
    <2>1. PICK e \in ToSet(C) : e.path = f.path /\ l \in e.languages
      BY <1>7 DEF MadeOf
    <2> QED BY <1>6, <1>10, <2>1
  <1>11. ASSUME Includes(c, kind), NEW i \in DOMAIN nodes, NEW p \in ToSet(nodes[i].files),
                Selected(nodes[i], kind, c)
         PROVE  \E f \in F : f.path = p /\ (kind # "extra" => nodes[i].language \in f.languages)
    <2>1. PICK e : e = FileOf(nodes[i], p, kind, level)
      OBVIOUS
    <2>2. e \in ToSet(C)
      BY <1>4, <1>11, <2>1
    <2>3. e.path = p /\ (kind # "extra" => e.languages = {nodes[i].language})
      BY <2>1 DEF FileOf
    <2>4. PICK f \in F : f.path = e.path /\ e.languages \subseteq f.languages
      BY <1>8, <2>2
    <2> QED BY <2>3, <2>4
  <1> QED BY <1>9, <1>10, <1>11

\* So a list that is asked for has what is offered, if no answer is lost.
LEMMA AskedListed ==
  ASSUME NEW slug \in DOMAIN Products, NEW kind \in Kinds, NEW level \in Levels, NEW c
  PROVE  Listed(FileVector(slug, kind, level, c, {}), slug, kind, level, c)
  <1>1. PICK nodes, F, G :
          /\ nodes = Products[slug][kind] /\ F = FileVector(slug, kind, level, c, {})
          /\ G = Offers(nodes, kind, c)
    OBVIOUS
  <1>2. \A f \in F :
          /\ f.type = <<kind, level>> /\ f.languages # {}
          /\ \E i \in DOMAIN nodes :
               /\ f.path \in ToSet(nodes[i].files) /\ Selected(nodes[i], kind, c)
               /\ kind # "extra" => f.platform = nodes[i].os
    BY <1>1, FilesOffered
  <1>3. kind # "extra" =>
          \A f \in F : \A l \in f.languages : \E i \in DOMAIN nodes :
            /\ f.path \in ToSet(nodes[i].files) /\ Selected(nodes[i], kind, c)
            /\ l = nodes[i].language
    BY <1>1, FilesOffered
  <1>4. Includes(c, kind) =>
          \A i \in DOMAIN nodes : \A p \in ToSet(nodes[i].files) :
            Selected(nodes[i], kind, c) =>
              \E f \in F : f.path = p /\ (kind # "extra" => nodes[i].language \in f.languages)
    BY <1>1, FilesOffered
  <1>5. \A o \in G : \E i \in DOMAIN nodes :
          /\ o.path \in ToSet(nodes[i].files) /\ Selected(nodes[i], kind, c)
          /\ o.os = nodes[i].os /\ o.language = nodes[i].language
    BY <1>1, OffersAre
  <1>6. ASSUME NEW i \in DOMAIN nodes, NEW p \in ToSet(nodes[i].files), Selected(nodes[i], kind, c)
        PROVE  [path |-> p, os |-> nodes[i].os, language |-> nodes[i].language] \in G
    BY <1>1, <1>6, OffersAre
  <1>7. ASSUME <<kind, level>> \in c.include, kind = "extra"
        PROVE  PathsOf(F) = PathsOf(G)
    <2>1. ASSUME NEW f \in F PROVE \E o \in G : o.path = f.path
      <3>1. PICK i \in DOMAIN nodes : f.path \in ToSet(nodes[i].files) /\ Selected(nodes[i], kind, c)
        BY <1>2
      <3>2. [path |-> f.path, os |-> nodes[i].os, language |-> nodes[i].language] \in G
        BY <1>6, <3>1
      <3> QED BY <3>2
    <2>2. ASSUME NEW o \in G PROVE \E f \in F : f.path = o.path
      <3>1. Includes(c, kind)
        BY <1>7 DEF Includes
      <3> QED BY <1>4, <1>5, <1>7, <3>1
    <2> QED BY <2>1, <2>2 DEF PathsOf
  <1>8. ASSUME <<kind, level>> \in c.include, kind # "extra" PROVE Matches(F, G, c)
    <2>1. \A i, j \in DOMAIN nodes : \A p \in ToSet(nodes[i].files) :
            p \in ToSet(nodes[j].files) => nodes[i].os = nodes[j].os
      BY <1>1, <1>8, OnePlatform
    <2>2. Includes(c, kind)
      BY <1>8 DEF Includes
    <2>3. ASSUME NEW f \in F
          PROVE  /\ f.languages \intersect c.languages # {}
                 /\ \A l \in f.languages :
                      /\ l \in c.languages
                      /\ [path |-> f.path, os |-> f.platform, language |-> l] \in G
      <3>1. PICK i \in DOMAIN nodes : f.path \in ToSet(nodes[i].files) /\ f.platform = nodes[i].os
        BY <1>2, <1>8
      <3>2. ASSUME NEW l \in f.languages
            PROVE  /\ l \in c.languages
                   /\ [path |-> f.path, os |-> f.platform, language |-> l] \in G
        <4>1. PICK j \in DOMAIN nodes : /\ f.path \in ToSet(nodes[j].files)
                                        /\ Selected(nodes[j], kind, c) /\ l = nodes[j].language
          BY <1>3, <1>8
        <4>2. nodes[j].os = f.platform
          BY <2>1, <3>1, <4>1
        <4>3. l \in c.languages
          BY <1>8, <4>1 DEF Selected
        <4>4. [path |-> f.path, os |-> nodes[j].os, language |-> nodes[j].language] \in G
          BY <1>6, <4>1
        <4> QED BY <4>1, <4>2, <4>3, <4>4
      <3> QED BY <1>2, <3>2
    <2>4. ASSUME NEW o \in G
          PROVE  /\ o.language \in c.languages
                 /\ \E f \in F : f.path = o.path /\ f.platform = o.os /\ o.language \in f.languages
                 /\ \A q \in G : q.path = o.path => q.os = o.os
      <3>1. PICK i \in DOMAIN nodes : /\ o.path \in ToSet(nodes[i].files)
                                      /\ Selected(nodes[i], kind, c)
                                      /\ o.os = nodes[i].os /\ o.language = nodes[i].language
        BY <1>5
      <3>2. o.language \in c.languages
        BY <1>8, <3>1 DEF Selected
      <3>3. PICK f \in F : f.path = o.path /\ o.language \in f.languages
        BY <1>4, <1>8, <2>2, <3>1
      <3>4. f.platform = o.os
        <4>1. PICK j \in DOMAIN nodes : f.path \in ToSet(nodes[j].files) /\ f.platform = nodes[j].os
          BY <1>2, <1>8
        <4> QED BY <2>1, <3>1, <3>3, <4>1
      <3>5. ASSUME NEW q \in G, q.path = o.path PROVE q.os = o.os
        <4>1. PICK j \in DOMAIN nodes : q.path \in ToSet(nodes[j].files) /\ q.os = nodes[j].os
          BY <1>5
        <4> QED BY <2>1, <3>1, <3>5, <4>1
      <3> QED BY <3>2, <3>3, <3>4, <3>5
    <2> QED BY <2>3, <2>4 DEF Matches
  <1> QED BY <1>1, <1>2, <1>7, <1>8 DEF Listed

\* An update asks for everything.
LEMMA EverythingFields ==
  ASSUME NEW c \in Configs
  PROVE  /\ DOMAIN Everything(c) = DOMAIN c
         /\ Everything(c).include = AllKinds /\ Everything(c).platforms = Platforms
         /\ Everything(c).languages = Languages
         /\ Everything(c).platformPriority = <<>> /\ Everything(c).languagePriority = <<>>
  <1>1. DOMAIN c = {"names", "include", "platforms", "languages", "platformPriority",
                    "languagePriority", "duplicates"}
    BY ConfigsAssumption
  <1> QED BY <1>1 DEF Everything

\* So does the configuration of an update.
LEMMA UpdateFields ==
  ASSUME NEW u \in UpdateConfs
  PROVE  /\ u.include = AllKinds /\ u.platforms = Platforms /\ u.languages = Languages
         /\ u.platformPriority = <<>> /\ u.languagePriority = <<>>
  <1>1. PICK c \in Configs : u = [Everything(c) EXCEPT !.names = Games]
    BY DEF UpdateConfs
  <1>2. PICK e : e = Everything(c)
    OBVIOUS
  <1>3. /\ e.include = AllKinds /\ e.platforms = Platforms /\ e.languages = Languages
        /\ e.platformPriority = <<>> /\ e.languagePriority = <<>>
        /\ DOMAIN e = {"names", "include", "platforms", "languages", "platformPriority",
                       "languagePriority", "duplicates"}
    BY <1>2, EverythingFields, ConfigsAssumption
  <1>4. u = [e EXCEPT !.names = Games]
    BY <1>1, <1>2
  <1> QED BY <1>3, <1>4

\* Configurations are what parseOptionString makes them.
LEMMA RunConfsOrdered ==
  /\ \A u \in UpdateConfs : Ordered(u)
  /\ \A run \in RunConfs : \A s : Ordered(ConfOf(s, run))
  <1>1. \A c \in Configs \union {Specific[slug] : slug \in DOMAIN Specific} : Ordered(c)
    BY ConfigsAssumption DEF Ordered
  <1>2. <<>> \in Seq(SUBSET Platforms) /\ <<>> \in Seq(SUBSET Languages)
    OBVIOUS
  <1>3. \A c \in Configs : Ordered(Everything(c))
    BY <1>2, EverythingFields DEF Ordered
  <1>4. \A u \in UpdateConfs : Ordered(u)
    BY <1>2, UpdateFields DEF Ordered
  <1>5. ASSUME NEW run \in RunConfs, NEW s PROVE Ordered(ConfOf(s, run))
    <2>1. Ordered(run)
      BY <1>1, <1>3 DEF RunConfs
    <2>2. CASE s \in DOMAIN Specific
      BY <1>1, <2>2 DEF ConfOf
    <2>3. CASE s \notin DOMAIN Specific
      BY <2>1, <2>3 DEF ConfOf
    <2> QED BY <2>2, <2>3
  <1> QED BY <1>4, <1>5

\* What an update has saved, with all that there is, has what is wanted.
LEMMA SavedListed ==
  ASSUME NEW slug \in DOMAIN Products, NEW kind \in Kinds, NEW level \in Levels,
         NEW u \in UpdateConfs, NEW c, Ordered(c), NEW F, Listed(F, slug, kind, level, u),
         NEW H, H = {f \in F : /\ Includes(c, kind)
                               /\ kind = "extra" \/ (f.platform \in c.platforms
                                                      /\ f.languages \intersect c.languages # {})}
  PROVE  Listed(H, slug, kind, level, c)
  <1>1. PICK nodes, U, G :
          nodes = Products[slug][kind] /\ U = Offers(nodes, kind, u) /\ G = Offers(nodes, kind, c)
    OBVIOUS
  <1>2. u.include = AllKinds /\ u.platforms = Platforms /\ u.languages = Languages
    BY UpdateFields
  <1>3. <<kind, level>> \in u.include
    BY <1>2 DEF AllKinds
  <1>4. H \subseteq F /\ \A f \in H : f.type = <<kind, level>>
    BY DEF Listed
  <1>5. ASSUME <<kind, level>> \in c.include PROVE Includes(c, kind)
    BY <1>5 DEF Includes
  <1>6. ASSUME <<kind, level>> \in c.include, kind = "extra"
        PROVE  PathsOf(H) = PathsOf(G)
    <2>1. H = F
      BY <1>5, <1>6
    <2>2. U = G
      <3>1. \A i \in DOMAIN nodes : Selected(nodes[i], kind, u) <=> Selected(nodes[i], kind, c)
        BY <1>6 DEF Selected
      <3>2. {i \in DOMAIN nodes : Selected(nodes[i], kind, u)}
              = {i \in DOMAIN nodes : Selected(nodes[i], kind, c)}
        BY <3>1
      <3> QED BY <1>1, <3>2 DEF Offers
    <2>3. PathsOf(F) = PathsOf(U)
      BY <1>1, <1>3, <1>6 DEF Listed
    <2> QED BY <2>1, <2>2, <2>3
  <1>7. ASSUME <<kind, level>> \in c.include, kind # "extra" PROVE Matches(H, G, c)
    <2>1. Matches(F, U, u)
      BY <1>1, <1>3, <1>7 DEF Listed
    <2>2. \A i \in DOMAIN nodes : nodes[i].os \in Platforms /\ nodes[i].language \in Languages
      BY <1>1, <1>7, OnePlatform
    <2>3. ASSUME NEW o
          PROVE  o \in G <=> o \in U /\ o.os \in c.platforms /\ o.language \in c.languages
      <3>1. ASSUME NEW i \in DOMAIN nodes
            PROVE  Selected(nodes[i], kind, c)
                     <=> /\ Selected(nodes[i], kind, u)
                         /\ nodes[i].os \in c.platforms /\ nodes[i].language \in c.languages
        BY <1>2, <1>7, <2>2 DEF Selected
      <3>2. ASSUME o \in G
            PROVE  o \in U /\ o.os \in c.platforms /\ o.language \in c.languages
        <4>1. PICK i \in DOMAIN nodes : \E p \in ToSet(nodes[i].files) :
                /\ Selected(nodes[i], kind, c)
                /\ o = [path |-> p, os |-> nodes[i].os, language |-> nodes[i].language]
          BY <1>1, <3>2, OffersAre
        <4>2. PICK p \in ToSet(nodes[i].files) :
                o = [path |-> p, os |-> nodes[i].os, language |-> nodes[i].language]
          BY <4>1
        <4>3. /\ Selected(nodes[i], kind, u)
              /\ nodes[i].os \in c.platforms /\ nodes[i].language \in c.languages
          BY <3>1, <4>1
        <4>4. o \in U
          BY <1>1, <4>2, <4>3, OffersAre
        <4> QED BY <4>2, <4>3, <4>4
      <3>3. ASSUME o \in U, o.os \in c.platforms, o.language \in c.languages
            PROVE  o \in G
        <4>1. PICK i \in DOMAIN nodes : \E p \in ToSet(nodes[i].files) :
                /\ Selected(nodes[i], kind, u)
                /\ o = [path |-> p, os |-> nodes[i].os, language |-> nodes[i].language]
          BY <1>1, <3>3, OffersAre
        <4>2. PICK p \in ToSet(nodes[i].files) :
                o = [path |-> p, os |-> nodes[i].os, language |-> nodes[i].language]
          BY <4>1
        <4>3. Selected(nodes[i], kind, c)
          BY <3>1, <3>3, <4>1, <4>2
        <4> QED BY <1>1, <4>2, <4>3, OffersAre
      <3> QED BY <3>2, <3>3
    <2>4. Includes(c, kind)
      BY <1>5, <1>7
    <2>5. \A f \in F : f \in H <=> /\ f.platform \in c.platforms
                                   /\ f.languages \intersect c.languages # {}
      BY <1>7, <2>4
    <2>6. c.languages \subseteq u.languages
      BY <1>2 DEF Ordered
    <2>7. ASSUME NEW f \in H
          PROVE  /\ f.languages \intersect c.languages # {}
                 /\ \A l \in f.languages \intersect c.languages :
                      [path |-> f.path, os |-> f.platform, language |-> l] \in G
      <3>1. f \in F /\ f.platform \in c.platforms /\ f.languages \intersect c.languages # {}
        BY <1>4, <2>5
      <3>2. ASSUME NEW l \in f.languages \intersect c.languages
            PROVE  [path |-> f.path, os |-> f.platform, language |-> l] \in G
        <4>1. PICK o : o = [path |-> f.path, os |-> f.platform, language |-> l]
          OBVIOUS
        <4>2. o \in U
          BY <2>1, <2>6, <3>1, <4>1 DEF Matches
        <4>3. o.os \in c.platforms /\ o.language \in c.languages
          BY <3>1, <4>1
        <4> QED BY <2>3, <4>1, <4>2, <4>3
      <3> QED BY <3>1, <3>2
    <2>8. ASSUME NEW o \in G
          PROVE  /\ o.language \in c.languages
                 /\ \E f \in H : f.path = o.path /\ f.platform = o.os /\ o.language \in f.languages
                 /\ \A p \in G : p.path = o.path => p.os = o.os
      <3>1. o \in U /\ o.os \in c.platforms /\ o.language \in c.languages
        BY <2>3
      <3>2. PICK f \in F : f.path = o.path /\ f.platform = o.os /\ o.language \in f.languages
        BY <2>1, <3>1 DEF Matches
      <3>3. f \in H
        BY <2>5, <3>1, <3>2
      <3>4. ASSUME NEW p \in G, p.path = o.path PROVE p.os = o.os
        <4>1. p \in U
          BY <2>3
        <4> QED BY <2>1, <3>1, <3>4, <4>1 DEF Matches
      <3> QED BY <3>1, <3>2, <3>3, <3>4
    <2> QED BY <2>7, <2>8 DEF Matches
  <1> QED BY <1>1, <1>4, <1>6, <1>7 DEF Listed

--------------------------------------------------------------------------------
(* The files of an entry *)

\* The lists of a product, as they are asked for or loaded.
AllListed(lists, slug, level, c) ==
  \A kind \in Kinds : Listed(lists[kind], slug, kind, level, c)

\* What a user asks for of one product.
Part(slug, level, c) ==
  UNION {Chosen(Products[slug][kind], kind, level, c) : kind \in Kinds}

\* The files that the filters leave of a list are those a user asks for.
LEMMA FilteredList ==
  ASSUME NEW slug, NEW kind \in Kinds, NEW level \in Levels, NEW c, Ordered(c),
         NEW lists, Listed(lists[kind], slug, kind, level, c)
  PROVE  PathsOf(FilterLists(lists, c)[kind]) = Chosen(Products[slug][kind], kind, level, c)
  <1>1. PICK F, S, G : /\ F = lists[kind] /\ S = FilterLists(lists, c)[kind]
                       /\ G = Offers(Products[slug][kind], kind, c)
    OBVIOUS
  <1>3. S = {f \in IF kind = "extra" THEN F ELSE Best(F, c) : f.type \in c.include}
    BY <1>1 DEF FilterLists
  <1>4. \A f \in F : f.type = <<kind, level>>
    BY <1>1 DEF Listed
  <1>5. Best(F, c) \subseteq F
    BY DEF Best
  <1>6. Chosen(Products[slug][kind], kind, level, c)
          = IF <<kind, level>> \notin c.include THEN {}
            ELSE IF kind = "extra" THEN PathsOf(G)
            ELSE Preferred(G, c)
    BY <1>1, Zenon DEF Chosen, PathsOf, Preferred
  <1>7. CASE <<kind, level>> \notin c.include
    <2>1. S = {}
      BY <1>3, <1>4, <1>5, <1>7
    <2> QED BY <1>1, <1>6, <1>7, <2>1 DEF PathsOf
  <1>8. CASE <<kind, level>> \in c.include /\ kind = "extra"
    <2>1. S = F
      BY <1>3, <1>4, <1>8
    <2>2. PathsOf(F) = PathsOf(G)
      BY <1>1, <1>8 DEF Listed
    <2> QED BY <1>1, <1>6, <1>8, <2>1, <2>2
  <1>9. CASE <<kind, level>> \in c.include /\ kind # "extra"
    <2>1. S = Best(F, c)
      BY <1>3, <1>4, <1>5, <1>9
    <2>2. Matches(F, G, c)
      BY <1>1, <1>9 DEF Listed
    <2>3. PathsOf(Best(F, c)) = Preferred(G, c)
      BY <2>2, BestPaths
    <2> QED BY <1>1, <1>6, <1>9, <2>1, <2>3
  <1> QED BY <1>7, <1>8, <1>9

\* The same for all lists of a product, and without files nothing is wanted.
LEMMA FilteredPart ==
  ASSUME NEW slug, NEW level \in Levels, NEW c, Ordered(c),
         NEW lists, AllListed(lists, slug, level, c)
  PROVE  /\ ListPaths(FilterLists(lists, c)) = Part(slug, level, c)
         /\ ~HasFiles(lists) => Part(slug, level, c) = {}
  <1>1. \A kind \in Kinds : PathsOf(FilterLists(lists, c)[kind])
                              = Chosen(Products[slug][kind], kind, level, c)
    BY FilteredList DEF AllListed
  <1>2. ListPaths(FilterLists(lists, c)) = Part(slug, level, c)
    BY <1>1 DEF ListPaths, PathsOf, Part
  <1>3. ASSUME ~HasFiles(lists) PROVE Part(slug, level, c) = {}
    <2>1. ASSUME NEW kind \in Kinds PROVE FilterLists(lists, c)[kind] = {}
      <3>1. lists[kind] = {}
        BY <1>3 DEF HasFiles
      <3> QED BY <3>1 DEF FilterLists, Best
    <2>2. ListPaths(FilterLists(lists, c)) = {}
      BY <2>1 DEF ListPaths
    <2> QED BY <1>2, <2>2
  <1> QED BY <1>2, <1>3

\* Filtering twice is filtering once.
LEMMA FilterTwice ==
  ASSUME NEW lists, NEW c
  PROVE  FilterLists(FilterLists(lists, c), c) = FilterLists(lists, c)
  <1>1. PICK L : L = FilterLists(lists, c)
    OBVIOUS
  <1>2. ASSUME NEW kind \in Kinds PROVE FilterLists(L, c)[kind] = L[kind]
    <2>1. PICK F : F = lists[kind]
      OBVIOUS
    <2>2. L[kind] = {f \in IF kind = "extra" THEN F ELSE Best(F, c) : f.type \in c.include}
      BY <1>1, <2>1 DEF FilterLists
    <2>3. FilterLists(L, c)[kind]
            = {f \in IF kind = "extra" THEN L[kind] ELSE Best(L[kind], c) : f.type \in c.include}
      BY DEF FilterLists
    <2>4. CASE kind = "extra"
      BY <2>2, <2>3, <2>4
    <2>5. CASE kind # "extra"
      <3>1. L[kind] \subseteq Best(F, c) /\ \A f \in L[kind] : f.type \in c.include
        BY <2>2, <2>5
      <3>2. Best(L[kind], c) = L[kind]
        BY <3>1 DEF Best
      <3> QED BY <2>3, <2>5, <3>1, <3>2
    <2> QED BY <2>4, <2>5
  <1>3. L = [kind \in Kinds |-> L[kind]]
    BY <1>1 DEF FilterLists
  <1>4. FilterLists(L, c) = [kind \in Kinds |-> FilterLists(L, c)[kind]]
    BY DEF FilterLists
  <1> QED BY <1>1, <1>2, <1>3, <1>4

\* The paths of DLCs when the filters are applied, and those a user asks for.
FilteredDLCs(D, c) == UNION {ListPaths(FilterLists(d.lists, c)) : d \in D}
FilteredOf(lists, E, c) == UNION {ListPaths(FilterLists(lists[x], c)) : x \in E}
Parts(D, c) == UNION {Part(x, "dlc", c) : x \in D}

\* The paths of an entry that has been filtered.
LEMMA FilteredPaths ==
  ASSUME NEW g, NEW lists, NEW D, NEW c,
         \A d \in D : DOMAIN d = {"game", "lists", "dlcs"}
  PROVE  Paths(Filtered([game |-> g, lists |-> lists, dlcs |-> D], c))
           = ListPaths(FilterLists(lists, c)) \union FilteredDLCs(D, c)
  <1>1. PICK e : e = Filtered([game |-> g, lists |-> lists, dlcs |-> D], c)
    OBVIOUS
  <1>2. /\ e.lists = FilterLists(lists, c)
        /\ e.dlcs = {[d EXCEPT !.lists = FilterLists(@, c)] : d \in D}
    BY <1>1 DEF Filtered
  <1>3. \A d \in D : [d EXCEPT !.lists = FilterLists(@, c)].lists = FilterLists(d.lists, c)
    OBVIOUS
  <1>4. {ListPaths(d.lists) : d \in e.dlcs} = {ListPaths(FilterLists(d.lists, c)) : d \in D}
    <2>1. \A x \in e.dlcs : \E d \in D : x.lists = FilterLists(d.lists, c)
      BY <1>2, <1>3
    <2>2. \A d \in D : \E x \in e.dlcs : x.lists = FilterLists(d.lists, c)
      BY <1>2, <1>3
    <2> QED BY <2>1, <2>2
  <1> QED BY <1>1, <1>2, <1>4 DEF Paths, FilteredDLCs

\* The DLCs among entries are as good as all that are known, when those left out
\* have no files.
LEMMA DLCParts ==
  ASSUME NEW c, Ordered(c), NEW D, NEW lists,
         \A x \in D : AllListed(lists[x], x, "dlc", c),
         NEW E, \A x \in D : x \notin E => ~HasFiles(lists[x]), E \subseteq D
  PROVE  FilteredOf(lists, E, c) = Parts(D, c)
  <1>1. \A x \in D : /\ ListPaths(FilterLists(lists[x], c)) = Part(x, "dlc", c)
                     /\ x \notin E => Part(x, "dlc", c) = {}
    BY FilteredPart DEF Levels
  <1>2. \A x \in E : ListPaths(FilterLists(lists[x], c)) = Part(x, "dlc", c)
    BY <1>1
  <1>3. UNION {ListPaths(FilterLists(lists[x], c)) : x \in E} = UNION {Part(x, "dlc", c) : x \in E}
    BY <1>2
  <1>4. UNION {Part(x, "dlc", c) : x \in E} = UNION {Part(x, "dlc", c) : x \in D}
    BY <1>1
  <1> QED BY <1>3, <1>4 DEF FilteredOf, Parts

\* What a user asks for is the part of the game and those of its DLCs.
LEMMA RightParts ==
  ASSUME NEW s, NEW c, NEW D
  PROVE  RightPaths(s, c, D) = Part(s, "base", c) \union Parts(D, c)
  <1>1. UNION {Chosen(Products[d][kind], kind, "dlc", c) : kind \in Kinds, d \in D}
          = UNION {Part(x, "dlc", c) : x \in D}
    BY DEF Part
  <1> QED BY <1>1 DEF RightPaths, Part, Parts

\* Without DLCs in the configuration none of their files is wanted.
LEMMA NoDLCs ==
  ASSUME NEW c, ~IncludesDLC(c), NEW D
  PROVE  Parts(D, c) = {}
  <1>1. \A x, kind : kind \in Kinds => Chosen(Products[x][kind], kind, "dlc", c) = {}
    BY DEF IncludesDLC, Chosen
  <1>2. \A x : Part(x, "dlc", c) = {}
    BY <1>1 DEF Part
  <1> QED BY <1>2 DEF Parts


--------------------------------------------------------------------------------
(* Asking finds what is wanted *)

DLCEntry(x, c) == [game |-> x, lists |-> Lists(x, "dlc", c, {}), dlcs |-> {}]
WithFiles(slug, c, known) == {x \in KnownDLCs(slug, known) : HasFiles(Lists(x, "dlc", c, {}))}

\* The DLCs that are asked for, when no request is lost.
LEMMA DLCsAre ==
  ASSUME NEW slug, NEW c, NEW known, IncludesDLC(c)
  PROVE  DLCs(slug, c, known, {}) = {DLCEntry(x, c) : x \in WithFiles(slug, c, known)}
  <1>1. PICK D : D = DLCs(slug, c, known, {})
    OBVIOUS
  <1>2. D = {d \in {DLCEntry(x, c) : x \in ToSet(Products[slug].dlcs)} :
               (known = {} \/ d.game \in known) /\ HasFiles(d.lists)}
    BY <1>1 DEF DLCs, DLCEntry
  <1>3. \A x : DLCEntry(x, c).game = x /\ DLCEntry(x, c).lists = Lists(x, "dlc", c, {})
    BY DEF DLCEntry
  <1>4. ASSUME NEW d \in D PROVE \E x \in WithFiles(slug, c, known) : d = DLCEntry(x, c)
    <2>1. PICK x \in ToSet(Products[slug].dlcs) : d = DLCEntry(x, c)
      BY <1>2
    <2>2. (known = {} \/ x \in known) /\ HasFiles(Lists(x, "dlc", c, {}))
      BY <1>2, <1>3, <2>1
    <2> QED BY <2>1, <2>2 DEF WithFiles, KnownDLCs
  <1>5. ASSUME NEW x \in WithFiles(slug, c, known) PROVE DLCEntry(x, c) \in D
    <2>1. /\ x \in ToSet(Products[slug].dlcs) /\ (known = {} \/ x \in known)
          /\ HasFiles(Lists(x, "dlc", c, {}))
      BY DEF WithFiles, KnownDLCs
    <2>2. PICK d : d = DLCEntry(x, c)
      OBVIOUS
    <2>3. d.game = x /\ d.lists = Lists(x, "dlc", c, {})
      BY <1>3, <2>2
    <2> QED BY <1>2, <2>1, <2>2, <2>3
  <1> QED BY <1>1, <1>4, <1>5

\* The entry of a game, before it is filtered.
LEMMA DetailsAre ==
  ASSUME NEW s, NEW c, NEW known
  PROVE  EntryOf(s, c, known)
           = Filtered([game |-> s, lists |-> Lists(s, "base", c, {}),
                       dlcs |-> DLCs(s, c, known, {})], c)
  BY DEF EntryOf, Details

\* All lists that are asked for have what is offered.
LEMMA AskedLists ==
  ASSUME NEW slug \in DOMAIN Products, NEW level \in Levels, NEW c
  PROVE  AllListed(Lists(slug, level, c, {}), slug, level, c)
  BY AskedListed DEF AllListed, Lists

\* DLCs are products.
LEMMA KnownProducts ==
  ASSUME NEW slug \in DOMAIN Products, NEW known
  PROVE  KnownDLCs(slug, known) \subseteq DOMAIN Products
  BY ProductsAssumption, ToSetFacts DEF KnownDLCs

\* The entry of a game that was asked for without a failure has the files that
\* the configuration asks for.
LEMMA AskRight ==
  ASSUME NEW s \in DOMAIN Products, NEW known, NEW c, Ordered(c)
  PROVE  Paths(EntryOf(s, c, known)) = RightPaths(s, c, KnownDLCs(s, known))
  <1>1. PICK D, K : D = DLCs(s, c, known, {}) /\ K = KnownDLCs(s, known)
    OBVIOUS
  <1>2. PICK lists : lists = [x \in K |-> Lists(x, "dlc", c, {})]
    OBVIOUS
  <1>3. \A d \in D : DOMAIN d = {"game", "lists", "dlcs"}
    BY <1>1 DEF DLCs
  <1>4. Paths(EntryOf(s, c, known))
          = ListPaths(FilterLists(Lists(s, "base", c, {}), c))
              \union FilteredDLCs(D, c)
    <2>1. PICK L : L = Lists(s, "base", c, {})
      OBVIOUS
    <2>2. EntryOf(s, c, known) = Filtered([game |-> s, lists |-> L, dlcs |-> D], c)
      BY <1>1, <2>1, DetailsAre
    <2>3. Paths(Filtered([game |-> s, lists |-> L, dlcs |-> D], c))
            = ListPaths(FilterLists(L, c)) \union FilteredDLCs(D, c)
      BY <1>3, FilteredPaths
    <2> QED BY <2>1, <2>2, <2>3
  <1>5. ListPaths(FilterLists(Lists(s, "base", c, {}), c)) = Part(s, "base", c)
    BY AskedLists, FilteredPart DEF Levels
  <1>6. FilteredDLCs(D, c) = Parts(K, c)
    <2>1. CASE ~IncludesDLC(c)
      <3>1. D = {}
        BY <1>1, <2>1 DEF DLCs
      <3> QED BY <2>1, <3>1, NoDLCs DEF FilteredDLCs
    <2>2. CASE IncludesDLC(c)
      <3>1. PICK E : E = WithFiles(s, c, known)
        OBVIOUS
      <3>2. E \subseteq K /\ \A x \in K : x \notin E => ~HasFiles(lists[x])
        BY <1>1, <1>2, <3>1 DEF WithFiles
      <3>3. \A x \in K : AllListed(lists[x], x, "dlc", c)
        BY <1>1, <1>2, AskedLists, KnownProducts DEF Levels
      <3>4. FilteredOf(lists, E, c) = Parts(K, c)
        BY <3>2, <3>3, DLCParts
      <3>5. D = {DLCEntry(x, c) : x \in E}
        BY <1>1, <2>2, <3>1, DLCsAre
      <3>6. \A x \in E : DLCEntry(x, c).lists = lists[x]
        BY <1>2, <3>2 DEF DLCEntry
      <3>7. {ListPaths(FilterLists(d.lists, c)) : d \in D} = {ListPaths(FilterLists(lists[x], c)) : x \in E}
        BY <3>5, <3>6
      <3> QED BY <3>4, <3>7 DEF FilteredOf, FilteredDLCs
    <2> QED BY <2>1, <2>2
  <1> QED BY <1>1, <1>4, <1>5, <1>6, RightParts

--------------------------------------------------------------------------------
(* What an update has saved *)

\* The filters of an update leave every file.
LEMMA UpdateKeepsAll ==
  ASSUME NEW u \in UpdateConfs, NEW level \in Levels, NEW slug, NEW lists,
         AllListed(lists, slug, level, u), DOMAIN lists = Kinds, lists = [kind \in Kinds |-> lists[kind]]
  PROVE  FilterLists(lists, u) = lists
  <1>1. \A f : Score(f, u) = Place({}) + Place({})
    <2>1. DOMAIN u.platformPriority = {} /\ DOMAIN u.languagePriority = {}
      BY UpdateFields
    <2> QED BY <2>1 DEF Score
  <1>2. Place({}) + Place({}) <= Place({}) + Place({})
    BY DEF Place
  <1>3. \A F : Best(F, u) = F
    BY <1>1, <1>2 DEF Best
  <1>4. ASSUME NEW kind \in Kinds PROVE FilterLists(lists, u)[kind] = lists[kind]
    <2>1. \A f \in lists[kind] : f.type \in u.include
      <3>1. <<kind, level>> \in u.include
        BY UpdateFields DEF AllKinds
      <3> QED BY <3>1 DEF AllListed, Listed
    <2> QED BY <1>3, <2>1 DEF FilterLists
  <1>5. FilterLists(lists, u) = [kind \in Kinds |-> FilterLists(lists, u)[kind]]
    BY DEF FilterLists
  <1> QED BY <1>4, <1>5

\* So they leave every file of the lists that the update asked for.
LEMMA SavedLists ==
  ASSUME NEW u \in UpdateConfs, NEW level \in Levels, NEW slug \in DOMAIN Products
  PROVE  FilterLists(Lists(slug, level, u, {}), u) = Lists(slug, level, u, {})
  <1>1. PICK lists : lists = Lists(slug, level, u, {})
    OBVIOUS
  <1>2. DOMAIN lists = Kinds /\ lists = [kind \in Kinds |-> lists[kind]]
    BY <1>1 DEF Lists
  <1> QED BY <1>1, <1>2, AskedLists, UpdateKeepsAll

\* The entry that an update saves has all files and all known DLCs with files.
LEMMA SavedEntry ==
  ASSUME NEW u \in UpdateConfs, NEW s \in DOMAIN Products, NEW known,
         NEW e, e = EntryOf(s, u, known)
  PROVE  /\ e.game = s /\ e.lists = Lists(s, "base", u, {})
         /\ e.dlcs = {DLCEntry(x, u) : x \in WithFiles(s, u, known)}
  <1>1. PICK D, W, L : /\ D = DLCs(s, u, known, {}) /\ W = WithFiles(s, u, known)
                       /\ L = Lists(s, "base", u, {})
    OBVIOUS
  <1>2. e = Filtered([game |-> s, lists |-> L, dlcs |-> D], u)
    BY <1>1, DetailsAre
  <1>3. /\ e.game = s /\ e.lists = FilterLists(L, u)
        /\ e.dlcs = {[d EXCEPT !.lists = FilterLists(@, u)] : d \in D}
    BY <1>2 DEF Filtered
  <1>4. FilterLists(L, u) = L
    BY <1>1, SavedLists DEF Levels
  <1>5. IncludesDLC(u)
    BY UpdateFields DEF IncludesDLC, AllKinds, Kinds, Levels
  <1>6. D = {DLCEntry(x, u) : x \in W}
    BY <1>1, <1>5, DLCsAre
  <1>7. W \subseteq DOMAIN Products
    BY <1>1, KnownProducts DEF WithFiles
  <1>8. ASSUME NEW x \in W
        PROVE  [DLCEntry(x, u) EXCEPT !.lists = FilterLists(@, u)] = DLCEntry(x, u)
    <2>1. PICK l : l = Lists(x, "dlc", u, {})
      OBVIOUS
    <2>2. FilterLists(l, u) = l
      BY <1>7, <2>1, SavedLists DEF Levels
    <2>3. DLCEntry(x, u) = [game |-> x, lists |-> l, dlcs |-> {}]
      BY <2>1 DEF DLCEntry
    <2> QED BY <2>2, <2>3
  <1>9. \A d \in D : [d EXCEPT !.lists = FilterLists(@, u)] = d
    BY <1>6, <1>8
  <1>10. e.dlcs = D
    BY <1>3, <1>9
  <1> QED BY <1>1, <1>3, <1>4, <1>6, <1>10

\* What is loaded of the lists that an update has saved.
LEMMA LoadedListed ==
  ASSUME NEW u \in UpdateConfs, NEW slug \in DOMAIN Products, NEW level \in Levels,
         NEW c, Ordered(c), NEW lists, lists = LoadedLists(Lists(slug, level, u, {}), c)
  PROVE  /\ AllListed(lists, slug, level, c)
         /\ HasFiles(lists) => HasFiles(Lists(slug, level, u, {}))
  <1>1. PICK saved : saved = Lists(slug, level, u, {})
    OBVIOUS
  <1>2. \A kind \in Kinds :
          lists[kind] = {f \in saved[kind] :
                           /\ Includes(c, kind)
                           /\ kind = "extra" \/ (f.platform \in c.platforms
                                                  /\ f.languages \intersect c.languages # {})}
    BY <1>1 DEF LoadedLists
  <1>3. \A kind \in Kinds : Listed(saved[kind], slug, kind, level, u)
    BY <1>1, AskedLists DEF AllListed
  <1>4. ASSUME NEW kind \in Kinds PROVE Listed(lists[kind], slug, kind, level, c)
    BY <1>2, <1>3, SavedListed
  <1>5. HasFiles(lists) => HasFiles(saved)
    BY <1>2 DEF HasFiles
  <1> QED BY <1>1, <1>4, <1>5 DEF AllListed

--------------------------------------------------------------------------------
(* Loading finds what is wanted *)

\* The DLCs that are loaded of a game: those that the update has saved and that
\* have files for the configuration.
LEMMA LoadedDLCsAre ==
  ASSUME NEW u \in UpdateConfs, NEW run, NEW s \in DOMAIN Products, NEW known,
         OneConfig(s, run), NEW c, c = ConfOf(s, run), IncludesDLC(c),
         NEW K, K = KnownDLCs(s, known),
         NEW lists, lists = [x \in K |-> LoadedLists(Lists(x, "dlc", u, {}), c)],
         NEW E, E = {x \in WithFiles(s, u, known) : HasFiles(lists[x])}
  PROVE  LET D == LoadedDLCs(EntryOf(s, u, known), run)
         IN /\ D = {} <=> E = {}
            /\ \A d \in D : DOMAIN d = {"game", "lists", "dlcs"}
            /\ FilteredDLCs(D, c) = FilteredOf(lists, E, c)
  <1>1. PICK e, W, D : /\ e = EntryOf(s, u, known) /\ W = WithFiles(s, u, known)
                       /\ D = LoadedDLCs(e, run)
    OBVIOUS
  <1>2. e.game = s /\ e.dlcs = {DLCEntry(x, u) : x \in W}
    BY <1>1, SavedEntry
  <1>3. PICK N : N = {d \in e.dlcs : HasFiles(LoadedLists(d.lists, ConfOf(d.game, run)))}
    OBVIOUS
  <1>4. D = {LoadedNode(d, {}, ConfOf(d.game, run)) : d \in N}
    BY <1>1, <1>2, <1>3 DEF LoadedDLCs
  <1>5. W \subseteq K /\ E \subseteq W
    BY <1>1 DEF WithFiles
  <1>6. ASSUME NEW x \in W
        PROVE  /\ ConfOf(x, run) = c /\ DLCEntry(x, u).game = x
               /\ LoadedLists(DLCEntry(x, u).lists, c) = lists[x]
    <2>1. ConfOf(x, run) = c
      BY <1>1 DEF WithFiles, KnownDLCs, OneConfig
    <2>2. DLCEntry(x, u).game = x /\ DLCEntry(x, u).lists = Lists(x, "dlc", u, {})
      BY DEF DLCEntry
    <2> QED BY <1>5, <2>1, <2>2
  <1>7. N = {DLCEntry(x, u) : x \in E}
    <2>1. ASSUME NEW d \in N PROVE \E x \in E : d = DLCEntry(x, u)
      <3>1. PICK x \in W : d = DLCEntry(x, u)
        BY <1>2, <1>3
      <3>2. HasFiles(lists[x])
        BY <1>3, <1>6, <3>1
      <3> QED BY <1>1, <3>1, <3>2
    <2>2. ASSUME NEW x \in E PROVE DLCEntry(x, u) \in N
      <3>1. x \in W /\ HasFiles(lists[x])
        BY <1>1
      <3>2. PICK d : d = DLCEntry(x, u)
        OBVIOUS
      <3>3. d \in e.dlcs
        BY <1>2, <3>1, <3>2
      <3>4. HasFiles(LoadedLists(d.lists, ConfOf(d.game, run)))
        BY <1>6, <3>1, <3>2
      <3> QED BY <1>3, <3>2, <3>3, <3>4
    <2> QED BY <2>1, <2>2
  <1>8. ASSUME NEW x \in E
        PROVE  LET d == LoadedNode(DLCEntry(x, u), {}, ConfOf(DLCEntry(x, u).game, run))
               IN /\ DOMAIN d = {"game", "lists", "dlcs"}
                  /\ FilterLists(d.lists, c) = FilterLists(lists[x], c)
    <2>1. PICK n, d : n = DLCEntry(x, u) /\ d = LoadedNode(n, {}, ConfOf(n.game, run))
      OBVIOUS
    <2>2. ConfOf(n.game, run) = c /\ LoadedLists(n.lists, c) = lists[x]
      BY <1>5, <1>6, <2>1
    <2>3. d = Filtered([game |-> n.game, lists |-> lists[x], dlcs |-> {}], c)
      BY <2>1, <2>2 DEF LoadedNode
    <2>4. DOMAIN d = {"game", "lists", "dlcs"} /\ d.lists = FilterLists(lists[x], c)
      BY <2>3 DEF Filtered
    <2> QED BY <2>1, <2>4, FilterTwice
  <1>9. \A d \in D : \E x \in E : d = LoadedNode(DLCEntry(x, u), {}, ConfOf(DLCEntry(x, u).game, run))
    BY <1>4, <1>7
  <1>10. \A x \in E : LoadedNode(DLCEntry(x, u), {}, ConfOf(DLCEntry(x, u).game, run)) \in D
    BY <1>4, <1>7
  <1>11. \A d \in D : /\ DOMAIN d = {"game", "lists", "dlcs"}
                      /\ \E x \in E : FilterLists(d.lists, c) = FilterLists(lists[x], c)
    BY <1>8, <1>9
  <1>12. \A x \in E : \E d \in D : FilterLists(d.lists, c) = FilterLists(lists[x], c)
    BY <1>8, <1>10
  <1>13. {ListPaths(FilterLists(d.lists, c)) : d \in D} = {ListPaths(FilterLists(lists[x], c)) : x \in E}
    BY <1>11, <1>12
  <1>14. D = {} <=> E = {}
    BY <1>11, <1>12
  <1>15. FilteredDLCs(D, c) = FilteredOf(lists, E, c)
    BY <1>13 DEF FilteredDLCs, FilteredOf
  <1> QED BY <1>1, <1>11, <1>14, <1>15

\* They have the files of DLCs that are wanted.
LEMMA LoadedDLCsRight ==
  ASSUME NEW u \in UpdateConfs, NEW run, NEW s \in DOMAIN Products, NEW known,
         OneConfig(s, run), NEW c, c = ConfOf(s, run), Ordered(c),
         NEW D, D = LoadedDLCs(EntryOf(s, u, known), run)
  PROVE  /\ \A d \in D : DOMAIN d = {"game", "lists", "dlcs"}
         /\ FilteredDLCs(D, c) = Parts(KnownDLCs(s, known), c)
  <1>1. CASE ~IncludesDLC(c)
    <2>1. EntryOf(s, u, known).game = s
      BY SavedEntry
    <2>2. D = {}
      BY <1>1, <2>1 DEF LoadedDLCs
    <2> QED BY <1>1, <2>2, NoDLCs DEF FilteredDLCs
  <1>2. CASE IncludesDLC(c)
    <2>1. PICK K : K = KnownDLCs(s, known)
      OBVIOUS
    <2>2. PICK lists : lists = [x \in K |-> LoadedLists(Lists(x, "dlc", u, {}), c)]
      OBVIOUS
    <2>3. PICK E : E = {x \in WithFiles(s, u, known) : HasFiles(lists[x])}
      OBVIOUS
    <2>4. ASSUME NEW x \in K
          PROVE  /\ AllListed(lists[x], x, "dlc", c)
                 /\ x \notin E => ~HasFiles(lists[x])
      <3>1. lists[x] = LoadedLists(Lists(x, "dlc", u, {}), c)
        BY <2>2
      <3>2. x \in DOMAIN Products
        BY <2>1, KnownProducts
      <3>3. AllListed(lists[x], x, "dlc", c) /\ (HasFiles(lists[x]) => HasFiles(Lists(x, "dlc", u, {})))
        BY <3>1, <3>2, LoadedListed DEF Levels
      <3> QED BY <2>1, <2>3, <3>3 DEF WithFiles
    <2>5. E \subseteq K
      BY <2>1, <2>3 DEF WithFiles
    <2>6. FilteredOf(lists, E, c) = Parts(K, c)
      BY <2>4, <2>5, DLCParts
    <2> QED BY <1>2, <2>1, <2>2, <2>3, <2>6, LoadedDLCsAre
  <1> QED BY <1>1, <1>2

\* A run that loads what an update has saved of a game finds the files that its
\* configuration asks for.
LEMMA LoadedIsRight ==
  ASSUME NEW u \in UpdateConfs, NEW run, NEW s \in DOMAIN Products, NEW known,
         s \in run.names, OneConfig(s, run), NEW c, c = ConfOf(s, run), Ordered(c),
         NEW e, e = EntryOf(s, u, known),
         NEW right, right = RightPaths(s, c, KnownDLCs(s, known))
  PROVE  LET found == {Paths(g) : g \in Loaded({e}, run)}
         IN IF right = {} THEN found \subseteq {{}} ELSE found = {right}
  <1>1. PICK lists, D, node :
          /\ lists = LoadedLists(Lists(s, "base", u, {}), c)
          /\ D = LoadedDLCs(e, run) /\ node = LoadedNode(e, D, c)
    OBVIOUS
  <1>2. e.game = s /\ e.lists = Lists(s, "base", u, {})
    BY SavedEntry
  <1>3. node = Filtered([game |-> s, lists |-> lists, dlcs |-> D], c)
    BY <1>1, <1>2 DEF LoadedNode
  <1>4. /\ \A d \in D : DOMAIN d = {"game", "lists", "dlcs"}
        /\ FilteredDLCs(D, c) = Parts(KnownDLCs(s, known), c)
    BY <1>1, LoadedDLCsRight
  <1>5. /\ ListPaths(FilterLists(lists, c)) = Part(s, "base", c)
        /\ ~HasFiles(lists) => Part(s, "base", c) = {}
    BY <1>1, LoadedListed, FilteredPart DEF Levels
  <1>6. right = Part(s, "base", c) \union Parts(KnownDLCs(s, known), c)
    BY RightParts
  <1>7. Paths(node) = right
    BY <1>3, <1>4, <1>5, <1>6, FilteredPaths
  <1>8. \A g \in Loaded({e}, run) : g = node
    BY <1>1, <1>2 DEF Loaded
  <1>9. ASSUME node \notin Loaded({e}, run) PROVE right = {}
    <2>1. ~HasFiles(lists) /\ D = {}
      BY <1>1, <1>2, <1>9 DEF Loaded
    <2>2. Parts(KnownDLCs(s, known), c) = {}
      BY <1>4, <2>1 DEF FilteredDLCs
    <2> QED BY <1>5, <1>6, <2>1, <2>2
  <1>10. CASE node \in Loaded({e}, run)
    <2>1. {Paths(g) : g \in Loaded({e}, run)} = {right}
      BY <1>7, <1>8, <1>10
    <2> QED BY <2>1
  <1>11. CASE node \notin Loaded({e}, run)
    <2>1. {Paths(g) : g \in Loaded({e}, run)} = {}
      BY <1>8, <1>11
    <2> QED BY <1>9, <1>11, <2>1
  <1> QED BY <1>10, <1>11

\* The files that are found are those that are asked for, by asking and by
\* loading what an update has saved: the property ListsRight of the model, for
\* all products and configurations.
THEOREM ListsCorrect == ListsRight
  <1>1. ASSUME NEW s \in Games, NEW known \in Knowns,
               NEW c \in UpdateConfs \union {ConfOf(s, run) : run \in RunConfs}
        PROVE  Paths(EntryOf(s, c, known)) = RightPaths(s, c, KnownDLCs(s, known))
    <2>1. Ordered(c)
      BY RunConfsOrdered
    <2>2. s \in DOMAIN Products
      BY ProductsAssumption
    <2> QED BY <2>1, <2>2, AskRight
  <1>2. ASSUME NEW s \in Games, NEW known \in Knowns, NEW saved \in UpdateConfs,
               NEW run \in RunConfs, s \in run.names, OneConfig(s, run)
        PROVE  LET right == RightPaths(s, ConfOf(s, run), KnownDLCs(s, known))
                   found == {Paths(e) : e \in Loaded({EntryOf(s, saved, known)}, run)}
               IN IF right = {} THEN found \subseteq {{}} ELSE found = {right}
    <2>1. PICK c, e, right : /\ c = ConfOf(s, run) /\ e = EntryOf(s, saved, known)
                             /\ right = RightPaths(s, c, KnownDLCs(s, known))
      OBVIOUS
    <2>2. Ordered(c) /\ s \in DOMAIN Products
      BY <2>1, RunConfsOrdered, ProductsAssumption
    <2>3. IF right = {} THEN {Paths(g) : g \in Loaded({e}, run)} \subseteq {{}}
          ELSE {Paths(g) : g \in Loaded({e}, run)} = {right}
      BY <1>2, <2>1, <2>2, LoadedIsRight
    <2> QED BY <2>1, <2>3
  <1> QED BY <1>1, <1>2 DEF ListsRight

--------------------------------------------------------------------------------
(* What the lists give *)

\* A configuration of a run, and what is known of the games that are owned.
LEMMA RunFacts ==
  ASSUME MoreInv, mpc # "idle", TypeOK
  PROVE  /\ owned \in Knowns
         /\ op = "update" => conf \in UpdateConfs
         /\ op # "update" => conf \in RunConfs
         /\ op = "orphans" => Everything(conf) = conf
         /\ \A s : RunConf(s) \in UpdateConfs \union {ConfOf(s, run) : run \in RunConfs}
  <1>1. /\ owned \in Knowns
        /\ op = "update" => conf \in UpdateConfs
        /\ op \in {"download", "both"} => conf \in Configs
        /\ op = "orphans" => conf \in {Everything(c) : c \in Configs}
        /\ op \in {"update", "download", "orphans", "both"}
    BY DEF MoreInv, Run, TypeOK
  <1>2. op # "update" => conf \in RunConfs
    BY <1>1 DEF RunConfs
  <1>3. op = "orphans" => Everything(conf) = conf
    BY <1>1, EverythingTwice
  <1>4. \A s : RunConf(s) \in UpdateConfs \union {ConfOf(s, run) : run \in RunConfs}
    BY <1>1, <1>2 DEF RunConf
  <1> QED BY <1>1, <1>2, <1>3, <1>4

\* The whole entry of a game has the files that the configuration asks for.
LEMMA WholeRight ==
  ASSUME MoreInv, TypeOK, mpc = "ready", ~useCache,
         NEW e \in games, e.game \in Games, e.game # NoName, e.game \notin failed
  PROVE  Paths(e) = Right(e.game)
  <1>1. e = EntryOf(e.game, RunConf(e.game), owned)
    BY DEF MoreInv, Entries, Whole
  <1>2. PICK s, c : s = e.game /\ c = RunConf(s)
    OBVIOUS
  <1>3. c \in UpdateConfs \union {ConfOf(s, run) : run \in RunConfs} /\ owned \in Knowns
    BY <1>2, RunFacts
  <1>4. Paths(EntryOf(s, c, owned)) = RightPaths(s, c, KnownDLCs(s, owned))
    BY <1>2, <1>3, ListsCorrect DEF ListsRight
  <1> QED BY <1>1, <1>2, <1>4 DEF Right

\* What one saved entry gives when it is loaded.
LEMMA LoadedRight ==
  ASSUME NEW s \in Games, NEW known \in Knowns, NEW saved \in UpdateConfs,
         NEW run \in RunConfs, s \in run.names, OneConfig(s, run),
         NEW right, right = RightPaths(s, ConfOf(s, run), KnownDLCs(s, known))
  PROVE  /\ \A x \in Loaded({EntryOf(s, saved, known)}, run) : Paths(x) = right
         /\ right # {} => \E x \in Loaded({EntryOf(s, saved, known)}, run) : Paths(x) = right
  <1>1. PICK L : L = Loaded({EntryOf(s, saved, known)}, run)
    OBVIOUS
  <1>2. IF right = {} THEN {Paths(x) : x \in L} \subseteq {{}} ELSE {Paths(x) : x \in L} = {right}
    BY <1>1, ListsCorrect, Zenon DEF ListsRight
  <1>3. PICK found : found = {Paths(x) : x \in L}
    OBVIOUS
  <1>4. IF right = {} THEN found \subseteq {{}} ELSE found = {right}
    BY <1>2, <1>3
  <1>5. ASSUME NEW x \in L PROVE Paths(x) = right
    <2>1. Paths(x) \in found
      BY <1>3
    <2> QED BY <1>4, <2>1
  <1>6. ASSUME right # {} PROVE \E x \in L : Paths(x) = right
    <2>1. right \in found
      BY <1>4, <1>6
    <2> QED BY <1>3, <2>1
  <1> QED BY <1>1, <1>5, <1>6

\* What a run that uses the cache has of a game whose entry was complete: the
\* files the configuration asks for.
LEMMA CacheRight ==
  ASSUME MoreInv, TypeOK, mpc \in {"load", "ready"}, useCache,
         cache.kind = "saved", NEW s, s # NoName, s \notin cache.bad,
         s \in conf.names, OneConfig(s, conf),
         NEW right, right = RightPaths(s, ConfOf(s, conf), KnownDLCs(s, cache.owned))
  PROVE  /\ \A x \in Loaded(cache.games, conf) : x.game = s => Paths(x) = right
         /\ right # {} /\ (\E e \in cache.games : e.game = s) =>
              \E x \in Loaded(cache.games, conf) : x.game = s /\ Paths(x) = right
  <1>1. conf \in RunConfs /\ cache.owned \in Knowns
    BY RunFacts DEF MoreInv, Saved, Run
  <1>2. ASSUME NEW e \in cache.games, e.game = s
        PROVE  /\ \A x \in Loaded({e}, conf) : Paths(x) = right
               /\ right # {} => \E x \in Loaded({e}, conf) : Paths(x) = right
    <2>1. PICK u \in UpdateConfs : s \in Games /\ e = EntryOf(s, u, cache.owned)
      BY <1>2 DEF MoreInv, Saved
    <2>2. /\ \A x \in Loaded({EntryOf(s, u, cache.owned)}, conf) : Paths(x) = right
          /\ right # {} => \E x \in Loaded({EntryOf(s, u, cache.owned)}, conf) : Paths(x) = right
      BY <1>1, <2>1, LoadedRight
    <2> QED BY <2>1, <2>2
  <1>3. ASSUME NEW x \in Loaded(cache.games, conf), x.game = s
        PROVE  Paths(x) = right
    <2>1. PICK e \in cache.games : e.game = x.game /\ x \in Loaded({e}, conf)
      BY LoadedGame
    <2> QED BY <1>2, <1>3, <2>1
  <1>4. ASSUME right # {}, NEW e \in cache.games, e.game = s
        PROVE  \E x \in Loaded(cache.games, conf) : x.game = s /\ Paths(x) = right
    <2>1. PICK y \in Loaded({e}, conf) : Paths(y) = right
      BY <1>2, <1>4
    <2>2. y \in Loaded(cache.games, conf) /\ y.game = s
      BY <1>4, <2>1, LoadedOne
    <2> QED BY <2>1, <2>2
  <1> QED BY <1>3, <1>4

--------------------------------------------------------------------------------
(* The theorems about entries *)

\* Every listed game has an entry with the files the configuration asks for, or
\* a request for it failed to the end, or all threads gave up; and in calm, with
\* any number of threads refreshing the one token, nothing fails
\* (getGameDetailsThread).
THEOREM DetailsCorrect == Spec => []DetailsRight
  <1>1. TypeInv /\ MoreInv => DetailsRight
    <2> SUFFICES ASSUME TypeInv, MoreInv, mpc = "ready", ~useCache
                 PROVE  /\ \A s \in ToSet(items) \ failed :
                             \/ \E e \in games : e.game = s /\ Paths(e) = Right(s)
                             \/ s \in ToSet(queue) /\ \A t \in Workers :
                                                        t <= Len(items) => t \in quit
                        /\ calm => failed = {} /\ queue = <<>>
      BY DEF DetailsRight
    <2>1. ASSUME NEW s \in ToSet(items) \ failed
          PROVE  \/ \E e \in games : e.game = s /\ Paths(e) = Right(s)
                 \/ s \in ToSet(queue) /\ \A t \in Workers : t <= Len(items) => t \in quit
      <3>1. s \in Games /\ s # NoName
        BY GamesAssumption DEF TypeInv, TypeOK
      <3>2. ASSUME NEW e \in games, e.game = s PROVE Paths(e) = Right(s)
        BY <3>1, <3>2, WholeRight DEF TypeInv
      <3> QED BY <3>2 DEF MoreInv, Accounted
    <2>2. calm => failed = {} /\ queue = <<>>
      BY DEF MoreInv, Calm
    <2> QED BY <2>1, <2>2
  <1> QED BY <1>1, Invariant, MoreInvariant, PTL

\* A run that uses the cache finds the files it would have found by asking, and
\* never begins with a cache that is cut short, of another version or too old
\* (loadGameDetailsCache, getGameDetailsFromJsonNode).
THEOREM CacheCorrect == Spec => CachedLikeAsked
  <1> DEFINE Alike ==
        mpc = "load" /\ mpc' = "ready" =>
          /\ cache.kind = "saved" /\ cache.version = Version /\ cache.age <= CacheValid
          /\ \A s \in {e.game : e \in cache.games} \ (cache.bad \union {NoName}) :
               s \in conf.names /\ OneConfig(s, conf) =>
                 LET right == RightPaths(s, ConfOf(s, conf), KnownDLCs(s, cache.owned))
                     found == {Paths(e) : e \in {g \in games' : g.game = s}}
                 IN IF right = {} THEN found \subseteq {{}} ELSE found = {right}
  <1>1. ASSUME TypeInv, MoreInv, [Next]_vars PROVE Alike
    <2> SUFFICES ASSUME mpc = "load", mpc' = "ready"
                 PROVE  /\ cache.kind = "saved" /\ cache.version = Version
                        /\ cache.age <= CacheValid
                        /\ \A s \in {e.game : e \in cache.games} \ (cache.bad \union {NoName}) :
                             s \in conf.names /\ OneConfig(s, conf) =>
                               LET right == RightPaths(s, ConfOf(s, conf), KnownDLCs(s, cache.owned))
                                   found == {Paths(e) : e \in {g \in games' : g.game = s}}
                               IN IF right = {} THEN found \subseteq {{}} ELSE found = {right}
      OBVIOUS
    <2>1. LoadCache
      <3>1. \A t \in Workers : ~Worker(t)
        <4> SUFFICES ASSUME NEW t \in Workers, Worker(t) PROVE FALSE
          OBVIOUS
        <4>1. pc[t] # "done"
          BY DEF Worker, Login, SetToken, Pop, Finish, Push, Refresh, CheckSite, Ask
        <4> QED BY <1>1, <4>1, ThreadsWait
      <3> QED BY <1>1, <3>1 DEF Next, Main, Begin, Start, Tick, Buy, Crash, Exit, vars, GetOwned,
                   GetPage, OpenCache, Download, StartThreads, JoinThreads, LoadFails,
                   WriteCache, CheckOrphans
    <2>2. cache.kind = "saved" /\ cache.version = Version /\ cache.age <= CacheValid
      BY <2>1 DEF LoadCache, Loadable
    <2>3. useCache /\ games' = Loaded(cache.games, conf) /\ TypeOK
      BY <1>1, <2>1 DEF LoadCache, MoreInv, Run, TypeInv
    <2>4. ASSUME NEW s \in {e.game : e \in cache.games} \ (cache.bad \union {NoName}),
                 s \in conf.names, OneConfig(s, conf)
          PROVE  LET right == RightPaths(s, ConfOf(s, conf), KnownDLCs(s, cache.owned))
                     found == {Paths(e) : e \in {g \in games' : g.game = s}}
                 IN IF right = {} THEN found \subseteq {{}} ELSE found = {right}
      <3>1. s # NoName
        BY <2>4
      <3>2. PICK right : right = RightPaths(s, ConfOf(s, conf), KnownDLCs(s, cache.owned))
        OBVIOUS
      <3>3. PICK found : found = {Paths(e) : e \in {g \in games' : g.game = s}}
        OBVIOUS
      <3>4. /\ MoreInv /\ TypeOK /\ mpc \in {"load", "ready"} /\ useCache
            /\ cache.kind = "saved" /\ s \in conf.names /\ OneConfig(s, conf)
            /\ s \notin cache.bad /\ \E e \in cache.games : e.game = s
        BY <1>1, <2>2, <2>3, <2>4
      <3>5. \A x \in Loaded(cache.games, conf) : x.game = s => Paths(x) = right
        BY <3>1, <3>2, <3>4, CacheRight
      <3>6. right # {} =>
              \E x \in Loaded(cache.games, conf) : x.game = s /\ Paths(x) = right
        BY <3>1, <3>2, <3>4, CacheRight
      <3>7. IF right = {} THEN found \subseteq {{}} ELSE found = {right}
        BY <2>3, <3>3, <3>5, <3>6
      <3> QED BY <3>2, <3>3, <3>7
    <2> QED BY <2>2, <2>4
  <1>2. TypeInv /\ Listing /\ MoreInv /\ [Next]_vars => [Alike]_vars
    BY <1>1
  <1>3. Spec => [][Alike]_vars
    BY <1>2, Invariant, MoreInvariant, PTL DEF Spec
  <1> QED BY <1>3, PTL DEF CachedLikeAsked

\* The orphan check deletes no file that GOG has, but for what OrphansUnwanted
\* excepts: with any number of files, failures and crashes, whether the games
\* were asked for or loaded (checkOrphans).
THEOREM OrphansCorrect == Spec => OrphansUnwanted
  <1> DEFINE Unwanted ==
        mpc = "ready" /\ op = "orphans" =>
          \A f \in disk \ disk' :
            OnServer(f) => \/ f.game \in failed \/ f.game \in DOMAIN Specific
                           \/ useCache /\ ~OneConfig(f.game, conf)
                           \/ \E e \in games : e.game = NoName
  <1>1. ASSUME TypeInv, MoreInv, [Next]_vars PROVE Unwanted
    <2> SUFFICES ASSUME mpc = "ready", op = "orphans", NEW f \in disk \ disk', OnServer(f),
                        f.game \notin failed, f.game \notin DOMAIN Specific,
                        useCache => OneConfig(f.game, conf),
                        \A e \in games : e.game # NoName
                 PROVE  FALSE
      OBVIOUS
    <2>1. CheckOrphans
      <3>1. \A t \in Workers : ~Worker(t)
        <4> SUFFICES ASSUME NEW t \in Workers, Worker(t) PROVE FALSE
          OBVIOUS
        <4>1. pc[t] # "done"
          BY DEF Worker, Login, SetToken, Pop, Finish, Push, Refresh, CheckSite, Ask
        <4> QED BY <1>1, <4>1, ThreadsWait
      <3>2. disk' # disk
        OBVIOUS
      <3> QED BY <1>1, <3>1, <3>2 DEF Next, Main, Begin, Start, Tick, Buy, Crash, vars,
                   GetOwned, GetPage, OpenCache, Download, StartThreads, JoinThreads,
                   LoadCache, LoadFails, WriteCache
    <2>2. PICK e \in games : InDirectory(e, f) /\ ~Present(e, f)
      BY <2>1 DEF CheckOrphans, Orphans
    <2>3. e.game = f.game /\ f.game # NoName /\ f.path \notin Paths(e)
      BY <2>2 DEF InDirectory, Present
    <2>4. PICK s : s = f.game
      OBVIOUS
    <2>5. /\ conf \in RunConfs /\ Everything(conf) = conf /\ owned \in Knowns
          /\ ConfOf(s, conf) = conf
      BY <1>1, <2>4, RunFacts DEF TypeInv, ConfOf
    <2>6. PICK D : D = ToSet(Products[s].dlcs) \intersect OwnedDLCs
      OBVIOUS
    <2>7. s \in ToSet(account) /\ f.path \in RightPaths(s, conf, D)
      BY <2>4, <2>5, <2>6 DEF OnServer
    <2>8. s \in Games
      BY <1>1, <2>7, ToSetFacts DEF TypeInv, Shape
    <2>9. ASSUME NEW known \in Knowns PROVE f.path \in RightPaths(s, conf, KnownDLCs(s, known))
      <3>1. D \subseteq KnownDLCs(s, known)
        BY <2>6, <2>9 DEF Knowns, KnownDLCs
      <3> QED BY <3>1, <2>7, RightMore
    <2>10. CASE ~useCache
      <3>1. Paths(e) = Right(s)
        BY <1>1, <2>3, <2>4, <2>8, <2>10, WholeRight DEF TypeInv
      <3>2. Right(s) = RightPaths(s, conf, KnownDLCs(s, owned))
        BY <2>5 DEF Right, RunConf
      <3> QED BY <3>1, <3>2, <2>3, <2>5, <2>9
    <2>11. CASE useCache
      <3>1. cache.kind = "saved" /\ failed = cache.bad /\ games = Loaded(cache.games, conf)
        BY <1>1, <2>11 DEF MoreInv, Saved
      <3>2. s \in conf.names /\ OneConfig(s, conf) /\ s \notin cache.bad /\ s # NoName
        <4>1. \E g \in cache.games : g.game = e.game /\ g.game \in conf.names
          BY <3>1, LoadedGame
        <4> QED BY <4>1, <2>3, <2>4, <2>11, <3>1
      <3>3. PICK right : right = RightPaths(s, ConfOf(s, conf), KnownDLCs(s, cache.owned))
        OBVIOUS
      <3>4. cache.owned \in Knowns
        BY <1>1, <3>1 DEF MoreInv, Saved
      <3>5. f.path \in right
        BY <2>5, <2>9, <3>3, <3>4
      <3>6. Paths(e) = right
        BY <1>1, <2>3, <2>4, <2>11, <3>1, <3>2, <3>3, CacheRight DEF TypeInv
      <3> QED BY <2>3, <3>5, <3>6
    <2> QED BY <2>10, <2>11
  <1>2. TypeInv /\ Listing /\ MoreInv /\ [Next]_vars => [Unwanted]_vars
    BY <1>1
  <1>3. Spec => [][Unwanted]_vars
    BY <1>2, Invariant, MoreInvariant, PTL DEF Spec
  <1> QED BY <1>3, PTL DEF OrphansUnwanted
================================================================================
