--------------------------- MODULE ProcResProofs ---------------------------
(***************************************************************************)
(* Theorems about module ProcRes: descriptor tables are counted exactly,   *)
(* and no file or address space is freed while it is in use, for any       *)
(* number of processes, tables, files and descriptors.                     *)
(***************************************************************************)
EXTENDS ProcRes, FiniteSetTheorems, WellFoundedInduction, TLAPS

\* A non-empty set of numbers has a least element, and Lowest is it.
LEMMA LowestIn ==
    ASSUME NEW S, S \subseteq Nat, S # {}
    PROVE  Lowest(S) \in S /\ \A m \in S : Lowest(S) <= m
<1> DEFINE R == {ss \in Nat \X Nat : ss[1] < ss[2]}
<1>1. IsWellFoundedOn(R, Nat)
  BY NatLessThanWellFounded DEF OpToRel
<1>2. PICK x \in S : \A y \in S : ~ (<<y, x>> \in R)
  <2> HIDE DEF R
  <2> QED BY <1>1, WFMin, Zenon
<1>3. \A y \in S : <<y, x>> \in R <=> y < x
  OBVIOUS
<1>4. \A y \in S : x <= y
  <2> HIDE DEF R
  <2> SUFFICES ASSUME NEW y \in S PROVE x <= y
    OBVIOUS
  <2>1. ~(y < x) /\ x \in Nat /\ y \in Nat
    BY <1>2, <1>3, Zenon
  <2> QED BY <2>1
<1>5. \E n \in S : \A m \in S : n <= m
  BY <1>4
<1> QED BY <1>5, Zenon DEF Lowest

----------------------------------------------------------------------------
(* One descriptor table.                                                   *)

TabRec == [refcount : Nat, file : [Fds -> FileObjs \cup {None}],
           cloexec : SUBSET Fds, next_fd : FirstFd..MaxFds]

\* What LowestFd says of the table r.
GoodTab(r) ==
    /\ r \in TabRec
    /\ \A fd \in FirstFd..(r.next_fd - 1) : r.file[fd] # None
    /\ \A fd \in r.cloexec : r.file[fd] # None

LEMMA FdFacts ==
    /\ FirstFd \in Nat /\ MaxFds \in Nat /\ FirstFd < MaxFds
    /\ FirstFd..(MaxFds - 1) \subseteq Fds /\ Fds \subseteq Nat /\ None \notin FileObjs
BY ProcResAssumption DEF Fds

LEMMA NoTableGood == GoodTab(NoTable) /\ NoTable.refcount = 0
BY FdFacts DEF GoodTab, NoTable, TabRec

\* fd_alloc returns a free descriptor, and none below it is free, or MaxFds.
LEMMA AllocLowest ==
    ASSUME NEW r, GoodTab(r)
    PROVE  \/ fd_alloc(r) = MaxFds
           \/ /\ fd_alloc(r) \in FirstFd..(MaxFds - 1) /\ r.file[fd_alloc(r)] = None
              /\ \A fd \in FirstFd..(fd_alloc(r) - 1) : r.file[fd] # None
<1> DEFINE free == {fd \in FirstFd..(MaxFds - 1) : r.file[fd] = None}
           up   == {fd \in free : fd >= r.next_fd}
<1>1. free \subseteq Nat /\ up \subseteq Nat
  BY FdFacts
<1>2. \A fd \in free : fd >= r.next_fd
  BY FdFacts DEF GoodTab, TabRec
<1>3. free = up
  BY <1>2
<1>4. fd_alloc(r) = IF up # {} THEN Lowest(up) ELSE MaxFds
  BY <1>3, Zenon DEF fd_alloc
<1>5. CASE up = {}
  BY <1>4, <1>5
<1>6. CASE up # {}
  <2> DEFINE n == Lowest(up)
  <2>1. n \in up /\ \A m \in up : n <= m
    BY <1>1, <1>6, LowestIn, Zenon
  <2>2. fd_alloc(r) = n
    BY <1>4, <1>6
  <2> HIDE DEF n
  <2>3. n \in FirstFd..(MaxFds - 1) /\ r.file[n] = None
    BY <2>1
  <2>4. \A fd \in FirstFd..(n - 1) : r.file[fd] # None
    <3> SUFFICES ASSUME NEW fd \in FirstFd..(n - 1), r.file[fd] = None PROVE FALSE
      OBVIOUS
    <3>1. fd \in free
      BY <2>3, FdFacts
    <3> QED BY <1>3, <2>1, <2>3, <3>1, FdFacts
  <2> QED BY <2>2, <2>3, <2>4
<1> QED BY <1>5, <1>6

\* open and dup put a file behind the descriptor that fd_alloc returned.
LEMMA InstallGood ==
    ASSUME NEW r, GoodTab(r), NEW f \in FileObjs, NEW cloexec \in BOOLEAN, fd_alloc(r) < MaxFds
    PROVE  /\ GoodTab(Install(r, fd_alloc(r), f, cloexec))
           /\ Install(r, fd_alloc(r), f, cloexec).refcount = r.refcount
           /\ fd_alloc(r) \in Fds /\ r.file[fd_alloc(r)] = None
           /\ Install(r, fd_alloc(r), f, cloexec).file = [r.file EXCEPT ![fd_alloc(r)] = f]
<1> DEFINE n == fd_alloc(r)
<1>1. /\ n \in FirstFd..(MaxFds - 1) /\ r.file[n] = None
      /\ \A fd \in FirstFd..(n - 1) : r.file[fd] # None
  BY AllocLowest, FdFacts
<1> HIDE DEF n
<1> DEFINE q == Install(r, n, f, cloexec)
<1>2. n \in Fds /\ n \in Nat /\ n + 1 \in FirstFd..MaxFds /\ f # None
  BY <1>1, FdFacts
<1>r. r \in TabRec
  BY DEF GoodTab
<1>3. /\ q.refcount = r.refcount /\ q.file = [r.file EXCEPT ![n] = f] /\ q.next_fd = n + 1
      /\ q.cloexec = IF cloexec THEN r.cloexec \cup {n} ELSE r.cloexec \ {n}
  BY <1>r, Zenon DEF Install, TabRec
<1>4. q \in TabRec
  BY <1>2, <1>r, Zenon DEF Install, TabRec
<1> HIDE DEF q
<1>5. \A fd \in FirstFd..(q.next_fd - 1) : q.file[fd] # None
  BY <1>1, <1>2, <1>3, FdFacts DEF GoodTab, TabRec
<1>6. \A fd \in q.cloexec : q.file[fd] # None
  BY <1>2, <1>3, Zenon DEF GoodTab, TabRec
<1>7. GoodTab(q) /\ q.refcount = r.refcount /\ q.file = [r.file EXCEPT ![n] = f]
  BY <1>3, <1>4, <1>5, <1>6 DEF GoodTab
<1> QED BY <1>1, <1>2, <1>7 DEF n, q

\* close and execve clear descriptors.
LEMMA ClearGood ==
    ASSUME NEW r, GoodTab(r), NEW S \in SUBSET Fds
    PROVE  /\ GoodTab(Clear(r, S)) /\ Clear(r, S).refcount = r.refcount
           /\ Clear(r, S).file = [fd \in Fds |-> IF fd \in S THEN None ELSE r.file[fd]]
<1> DEFINE low == {fd \in S : fd >= FirstFd /\ fd < r.next_fd}
           n == IF low = {} THEN r.next_fd ELSE Lowest(low)
           q == Clear(r, S)
<1>1. low \subseteq Nat
  BY FdFacts, Zenon
<1>2. low # {} => Lowest(low) \in low /\ \A m \in low : Lowest(low) <= m
  <2> HIDE DEF low
  <2> QED BY <1>1, LowestIn, Zenon
<1>r. r \in TabRec
  BY DEF GoodTab
<1>3. /\ q.refcount = r.refcount /\ q.next_fd = n /\ q.cloexec = r.cloexec \ S
      /\ q.file = [fd \in Fds |-> IF fd \in S THEN None ELSE r.file[fd]]
  BY <1>r, Zenon DEF Clear, TabRec
<1>4. n \in FirstFd..MaxFds /\ n <= r.next_fd /\ \A m \in low : n <= m
  BY <1>1, <1>2, FdFacts DEF GoodTab, TabRec
<1> HIDE DEF n
<1>5. q \in TabRec
  <2> DEFINE F == [fd \in Fds |-> IF fd \in S THEN None ELSE r.file[fd]]
  <2>1. F \in [Fds -> FileObjs \cup {None}]
    BY <1>r DEF TabRec
  <2>2. q = [r EXCEPT !.file = F, !.cloexec = r.cloexec \ S, !.next_fd = n]
    BY <1>r, Zenon DEF Clear, n
  <2> HIDE DEF F, q
  <2> QED BY <1>4, <1>r, <2>1, <2>2, Zenon DEF TabRec
<1> HIDE DEF q
<1>6. \A fd \in FirstFd..(q.next_fd - 1) : q.file[fd] # None
  <2> SUFFICES ASSUME NEW fd \in FirstFd..(n - 1) PROVE q.file[fd] # None
    BY <1>3
  <2>1. fd \in Fds /\ fd >= FirstFd /\ fd < r.next_fd /\ fd < n
    BY <1>4, FdFacts DEF GoodTab, TabRec, Fds
  <2>2. fd \notin S
    BY <1>4, <2>1, FdFacts
  <2>3. r.file[fd] # None
    BY <2>1, FdFacts DEF GoodTab, TabRec
  <2> QED BY <1>3, <2>1, <2>2, <2>3
<1>7. \A fd \in q.cloexec : q.file[fd] # None
  BY <1>3 DEF GoodTab, TabRec
<1>8. GoodTab(q) /\ q.refcount = r.refcount
      /\ q.file = [fd \in Fds |-> IF fd \in S THEN None ELSE r.file[fd]]
  BY <1>3, <1>5, <1>6, <1>7 DEF GoodTab
<1> QED BY <1>8 DEF q

Redirected(r, oldfd, fd) ==
    [r EXCEPT !.file[fd] = r.file[oldfd],
              !.cloexec = IF oldfd \in @ THEN @ \cup {fd} ELSE @ \ {fd}]

\* dup2 puts a file behind a descriptor, free or not.
LEMMA RedirectGood ==
    ASSUME NEW r, GoodTab(r), NEW oldfd \in Fds, NEW fd \in Fds, r.file[oldfd] # None
    PROVE  /\ GoodTab(Redirected(r, oldfd, fd))
           /\ Redirected(r, oldfd, fd).refcount = r.refcount
           /\ Redirected(r, oldfd, fd).file = [r.file EXCEPT ![fd] = r.file[oldfd]]
<1> DEFINE q == Redirected(r, oldfd, fd)
           f == r.file[oldfd]
           C == IF oldfd \in r.cloexec THEN r.cloexec \cup {fd} ELSE r.cloexec \ {fd}
<1>1. r \in TabRec /\ f # None
  BY Zenon DEF GoodTab
<1>2. /\ q.refcount = r.refcount /\ q.file = [r.file EXCEPT ![fd] = f]
      /\ q.cloexec = C /\ q.next_fd = r.next_fd
  BY <1>1, Zenon DEF TabRec, Redirected
<1>3. C \in SUBSET Fds /\ C \subseteq r.cloexec \cup {fd} /\ f \in FileObjs \cup {None}
  BY <1>1 DEF TabRec
<1>4. q \in TabRec
  BY <1>1, <1>3, Zenon DEF TabRec, Redirected
<1> HIDE DEF q, C, f
<1>5. \A n \in FirstFd..(q.next_fd - 1) : q.file[n] # None
  BY <1>1, <1>2 DEF GoodTab, TabRec
<1>6. \A n \in q.cloexec : q.file[n] # None
  BY <1>1, <1>2, <1>3, Zenon DEF GoodTab, TabRec
<1>7. GoodTab(q)
  BY <1>4, <1>5, <1>6, Zenon DEF GoodTab
<1> QED BY <1>2, <1>7, Zenon DEF q, f

\* A reference taken or dropped.
LEMMA RecountGood ==
    ASSUME NEW r, GoodTab(r), NEW n \in Nat, NEW q, q = [r EXCEPT !.refcount = n]
    PROVE  GoodTab(q) /\ q.refcount = n /\ q.file = r.file
<1>1. r \in TabRec
  BY Zenon DEF GoodTab
<1>2. /\ q.refcount = n /\ q.file = r.file /\ q.cloexec = r.cloexec /\ q.next_fd = r.next_fd
      /\ q \in TabRec
  BY <1>1, Zenon DEF TabRec
<1> QED BY <1>2, Zenon DEF GoodTab

----------------------------------------------------------------------------
(* The files.                                                              *)

ObjRec == [count : [FileObjs -> Int], open : SUBSET FileObjs]

LEMMA FdsFinite == IsFiniteSet(Fds)
<1>1. 0 \in Int /\ MaxFds - 1 \in Int
  BY FdFacts
<1> QED BY <1>1, FS_Interval, Zenon DEF Fds

HeldSet(r, f) == {fd \in Fds : r.file[fd] = f}

LEMMA HeldType ==
    ASSUME NEW r, NEW f
    PROVE  IsFiniteSet(HeldSet(r, f)) /\ Held(r, f) = Cardinality(HeldSet(r, f)) /\ Held(r, f) \in Nat
<1>1. HeldSet(r, f) \in SUBSET Fds
  BY Zenon DEF HeldSet
<1>2. IsFiniteSet(HeldSet(r, f)) /\ Cardinality(HeldSet(r, f)) \in Nat
  BY <1>1, FdsFinite, FS_Subset, FS_CardinalityType, Zenon
<1> QED BY <1>2, Zenon DEF Held, HeldSet

LEMMA GetType ==
    ASSUME NEW o \in ObjRec, NEW n \in [FileObjs -> Nat]
    PROVE  get_files(o, n) \in ObjRec
<1> DEFINE c == [f \in FileObjs |-> IF f \in o.open THEN o.count[f] + n[f] ELSE 0]
<1>1. c \in [FileObjs -> Int]
  BY DEF ObjRec
<1>2. get_files(o, n) = [o EXCEPT !.count = c]
  BY Zenon DEF get_files, ObjRec
<1> HIDE DEF c
<1> QED BY <1>1, <1>2, Zenon DEF ObjRec

LEMMA PutType ==
    ASSUME NEW o \in ObjRec, NEW n \in [FileObjs -> Nat]
    PROVE  put_files(o, n) \in ObjRec
<1> DEFINE left == {f \in o.open : o.count[f] \notin 1..n[f]}
           c == [f \in FileObjs |-> IF f \in left THEN o.count[f] - n[f] ELSE 0]
<1>1. left \in SUBSET FileObjs
  BY DEF ObjRec
<1>2. c \in [FileObjs -> Int]
  <2> HIDE DEF left
  <2> QED BY DEF ObjRec
<1>3. put_files(o, n) = [count |-> c, open |-> left]
  BY Zenon DEF put_files
<1> HIDE DEF c, left
<1>4. [count |-> c, open |-> left] \in ObjRec
  BY <1>1, <1>2 DEF ObjRec
<1> QED BY <1>3, <1>4, Zenon

LEMMA OnceType ==
    ASSUME NEW f
    PROVE  Once(f) \in [FileObjs -> Nat]
BY DEF Once

HeldFun(r) == [f \in FileObjs |-> Held(r, f)]

LEMMA HeldFunType ==
    ASSUME NEW r
    PROVE  HeldFun(r) \in [FileObjs -> Nat] /\ \A f \in FileObjs : HeldFun(r)[f] = Held(r, f)
BY HeldType DEF HeldFun

\* vfs_open takes a struct file.
LEMMA OpenType ==
    ASSUME NEW o \in ObjRec, NEW f \in FileObjs
    PROVE  [count |-> [o.count EXCEPT ![f] = 1], open |-> o.open \cup {f}] \in ObjRec
BY DEF ObjRec

----------------------------------------------------------------------------
(* The tables and the processes that use them.                             *)

RestOK ==
    /\ life \in [Procs -> {"free", "live", "zombie"}]
    /\ files \in [Procs -> Tables \cup {None}]
    /\ fobj \in ObjRec
    /\ mm \in [Procs -> Spaces \cup {None}]
    /\ space \in [ref : [Spaces -> Nat], live : SUBSET Spaces]
    /\ \A p \in Procs : life[p] # "free" => files[p] \in Tables /\ mm[p] \in Spaces
    /\ \A s \in space.live : space.ref[s] > 0

LEMMA FromOK ==
    ASSUME TablesOK
    PROVE  /\ RestOK /\ TableRefs /\ tab \in [Tables -> TabRec]
           /\ \A t \in Tables : GoodTab(tab[t])
<1>1. RestOK /\ TableRefs /\ tab \in [Tables -> TabRec]
  BY Zenon DEF TablesOK, ResTypeOK, RestOK, ObjRec, TabRec
<1>2. \A t \in Tables : GoodTab(tab[t])
  BY <1>1, Zenon DEF TablesOK, LowestFd, GoodTab
<1> QED BY <1>1, <1>2

LEMMA ToOK ==
    ASSUME RestOK', TableRefs', tab' \in [Tables -> TabRec], \A t \in Tables : GoodTab(tab'[t])
    PROVE  TablesOK'
<1>1. ResTypeOK'
  BY Zenon DEF ResTypeOK, RestOK, ObjRec, TabRec
<1>2. LowestFd'
  BY Zenon DEF LowestFd, GoodTab
<1> QED BY <1>1, <1>2, Zenon DEF TablesOK

LEMMA UsersFinite ==
    ASSUME NEW t
    PROVE  IsFiniteSet(Users(t)) /\ Cardinality(Users(t)) \in Nat
<1>1. Users(t) \in SUBSET Procs
  BY Zenon DEF Users
<1> QED BY <1>1, ProcResAssumption, FS_Subset, FS_CardinalityType, Zenon

\* The counts stay right where no process comes or goes.
LEMMA RefsKept ==
    ASSUME TableRefs, files' = files,
           \A p \in Procs : life'[p] = "free" <=> life[p] = "free",
           \A t \in Tables : tab'[t].refcount = tab[t].refcount
    PROVE  TableRefs'
<1>1. \A t \in Tables : Users(t)' = Users(t)
  BY DEF Users
<1> QED BY <1>1, Zenon DEF TableRefs

Placed(tb, t, r) == [tb EXCEPT ![t] = r]

\* One table changes.
LEMMA OneTable ==
    ASSUME TablesOK, NEW t \in Tables, NEW r, GoodTab(r), tab' = Placed(tab, t, r)
    PROVE  /\ tab' \in [Tables -> TabRec] /\ tab'[t] = r
           /\ \A u \in Tables : u # t => tab'[u] = tab[u]
           /\ \A u \in Tables : GoodTab(tab'[u])
<1>1. tab \in [Tables -> TabRec] /\ r \in TabRec /\ \A u \in Tables : GoodTab(tab[u])
  BY FromOK, Zenon DEF GoodTab
<1>2. tab' \in [Tables -> TabRec] /\ tab'[t] = r /\ \A u \in Tables : u # t => tab'[u] = tab[u]
  BY <1>1, Zenon DEF Placed
<1> QED BY <1>1, <1>2, Zenon

\* The table of a process.
LEMMA LiveTable ==
    ASSUME TablesOK, NEW p \in Procs, life[p] # "free"
    PROVE  /\ files[p] \in Tables /\ mm[p] \in Spaces /\ GoodTab(T(p)) /\ T(p) \in TabRec
           /\ T(p).refcount \in Nat /\ T(p).refcount > 0
<1>1. files[p] \in Tables /\ mm[p] \in Spaces
  BY FromOK, Zenon DEF RestOK
<1>2. GoodTab(T(p))
  BY <1>1, FromOK, Zenon DEF T
<1>3. T(p) \in TabRec
  BY <1>2, Zenon DEF GoodTab
<1>4. p \in Users(files[p])
  BY DEF Users
<1>5. Cardinality(Users(files[p])) # 0
  BY <1>4, UsersFinite, FS_EmptySet, Zenon
<1>6. T(p).refcount = Cardinality(Users(files[p]))
  BY <1>1, FromOK, Zenon DEF TableRefs, T
<1>7. T(p).refcount \in Nat /\ T(p).refcount > 0
  BY <1>5, <1>6, UsersFinite
<1> QED BY <1>1, <1>2, <1>3, <1>7

\* A call of p changes the descriptors of its table, and no process comes or goes.
LEMMA TableStep ==
    ASSUME TablesOK, NEW p \in Procs, Live(p), NEW r, GoodTab(r), r.refcount = T(p).refcount,
           SetT(p, r), UNCHANGED <<life, files>>,
           fobj' \in ObjRec, mm' \in [Procs -> Spaces \cup {None}],
           space' \in [ref : [Spaces -> Nat], live : SUBSET Spaces],
           \A q \in Procs : mm[q] \in Spaces => mm'[q] \in Spaces,
           \A s \in space'.live : space'.ref[s] > 0
    PROVE  TablesOK'
<1>1. files[p] \in Tables
  BY LiveTable, Zenon DEF Live
<1>2. tab' = Placed(tab, files[p], r)
  BY Zenon DEF SetT, Placed
<1>3. /\ tab' \in [Tables -> TabRec] /\ tab'[files[p]] = r
      /\ \A u \in Tables : u # files[p] => tab'[u] = tab[u]
      /\ \A u \in Tables : GoodTab(tab'[u])
  BY <1>1, <1>2, OneTable, Zenon
<1>4. \A u \in Tables : tab'[u].refcount = tab[u].refcount
  BY <1>3, Zenon DEF T
<1>5. TableRefs'
  BY <1>4, FromOK, RefsKept, Zenon
<1>6. RestOK'
  BY FromOK, Zenon DEF RestOK
<1> QED BY <1>3, <1>5, <1>6, ToOK, Zenon

----------------------------------------------------------------------------
(* Each call keeps the tables.                                             *)

\* Memory is left alone.
LEMMA MemoryKept ==
    ASSUME TablesOK, UNCHANGED <<mm, space>>
    PROVE  /\ mm' \in [Procs -> Spaces \cup {None}]
           /\ space' \in [ref : [Spaces -> Nat], live : SUBSET Spaces]
           /\ \A q \in Procs : mm[q] \in Spaces => mm'[q] \in Spaces
           /\ \A s \in space'.live : space'.ref[s] > 0
BY FromOK, Zenon DEF RestOK

\* What a descriptor of a table names.
LEMMA NamesFile ==
    ASSUME NEW r, GoodTab(r), NEW fd \in Fds, r.file[fd] # None
    PROVE  r.file[fd] \in FileObjs
<1>1. r.file \in [Fds -> FileObjs \cup {None}]
  BY Zenon DEF GoodTab, TabRec
<1> QED BY <1>1, Zenon

LEMMA OpenTables ==
    ASSUME TablesOK, NEW p \in Procs, NEW f \in FileObjs, NEW cloexec \in BOOLEAN,
           sys_open(p, f, cloexec)
    PROVE  TablesOK'
<1>1. /\ Live(p) /\ fd_alloc(T(p)) < MaxFds
      /\ SetT(p, Install(T(p), fd_alloc(T(p)), f, cloexec))
      /\ fobj' = [count |-> [fobj.count EXCEPT ![f] = 1], open |-> fobj.open \cup {f}]
      /\ UNCHANGED <<life, files, mm, space>>
  BY Zenon DEF sys_open
<1>2. GoodTab(T(p))
  BY <1>1, LiveTable, Zenon DEF Live
<1>3. fobj' \in ObjRec
  BY <1>1, FromOK, OpenType, Zenon DEF RestOK
<1> QED BY <1>1, <1>2, <1>3, InstallGood, MemoryKept, TableStep, Zenon

LEMMA CloseTables ==
    ASSUME TablesOK, NEW p \in Procs, NEW fd \in Fds, sys_close(p, fd)
    PROVE  TablesOK'
<1>1. /\ Live(p) /\ SetT(p, Clear(T(p), {fd}))
      /\ fobj' = put_files(fobj, Once(T(p).file[fd]))
      /\ UNCHANGED <<life, files, mm, space>>
  BY Zenon DEF sys_close
<1>2. GoodTab(T(p)) /\ {fd} \in SUBSET Fds
  BY <1>1, LiveTable, Zenon DEF Live
<1>3. fobj' \in ObjRec
  BY <1>1, FromOK, OnceType, PutType, Zenon DEF RestOK
<1> QED BY <1>1, <1>2, <1>3, ClearGood, MemoryKept, TableStep, Zenon

LEMMA DupTables ==
    ASSUME TablesOK, NEW p \in Procs, NEW oldfd \in Fds, sys_dup(p, oldfd)
    PROVE  TablesOK'
<1> DEFINE f == T(p).file[oldfd]
           c == oldfd \in T(p).cloexec
<1>1. /\ Live(p) /\ fd_alloc(T(p)) < MaxFds /\ f # None
      /\ SetT(p, Install(T(p), fd_alloc(T(p)), f, c))
      /\ fobj' = get_files(fobj, Once(f))
      /\ UNCHANGED <<life, files, mm, space>>
  BY Zenon DEF sys_dup
<1>2. GoodTab(T(p))
  BY <1>1, LiveTable, Zenon DEF Live
<1>3. f \in FileObjs
  BY <1>1, <1>2, NamesFile, Zenon
<1>5. c \in BOOLEAN
  OBVIOUS
<1> HIDE DEF f, c
<1>4. fobj' \in ObjRec
  BY <1>1, FromOK, OnceType, GetType, Zenon DEF RestOK
<1> QED BY <1>1, <1>2, <1>3, <1>4, <1>5, InstallGood, MemoryKept, TableStep, Zenon

LEMMA Dup2Tables ==
    ASSUME TablesOK, NEW p \in Procs, NEW oldfd \in Fds, NEW newfd \in Fds,
           sys_dup2(p, oldfd, newfd)
    PROVE  TablesOK'
<1> DEFINE f == T(p).file[oldfd]
           old == T(p).file[newfd]
           q == Redirected(T(p), oldfd, newfd)
           o == IF old = None THEN fobj ELSE put_files(fobj, Once(old))
<1>1. /\ Live(p) /\ f # None /\ SetT(p, q)
      /\ fobj' = get_files(o, Once(f))
      /\ UNCHANGED <<life, files, mm, space>>
  BY Zenon DEF sys_dup2, Redirected
<1>2. GoodTab(T(p))
  BY <1>1, LiveTable, Zenon DEF Live
<1>4. fobj \in ObjRec
  BY FromOK, Zenon DEF RestOK
<1>5. o \in ObjRec
  BY <1>4, OnceType, PutType, Zenon
<1>6. fobj' \in ObjRec
  <2> HIDE DEF o, f
  <2> QED BY <1>1, <1>5, OnceType, GetType, Zenon
<1>7. GoodTab(q) /\ q.refcount = T(p).refcount
  BY <1>1, <1>2, RedirectGood, Zenon
<1> HIDE DEF q
<1> QED BY <1>1, <1>6, <1>7, MemoryKept, TableStep, Zenon

\* ioctl, exit and the execve that fails leave the tables alone.
LEMMA OtherTables ==
    ASSUME TablesOK,
           \/ \E p \in Procs, fd \in Fds : sys_ioctl(p, fd)
           \/ \E p \in Procs : do_exit(p)
           \/ \E p \in Procs, f \in FileObjs : execve_fail(p, f)
    PROVE  TablesOK'
<1>1. /\ UNCHANGED <<files, tab, mm, space>>
      /\ fobj' \in ObjRec
      /\ life' \in [Procs -> {"free", "live", "zombie"}]
      /\ \A p \in Procs : life'[p] = "free" <=> life[p] = "free"
  <2>1. CASE \E p \in Procs, fd \in Fds : sys_ioctl(p, fd)
    <3>1. PICK p \in Procs, fd \in Fds : sys_ioctl(p, fd)
      BY <2>1
    <3>2. /\ UNCHANGED <<life, files, tab, mm, space>>
          /\ fobj' = put_files(fobj, Once(T(p).file[fd]))
      BY <3>1, Zenon DEF sys_ioctl
    <3> QED BY <3>2, FromOK, OnceType, PutType, Zenon DEF RestOK
  <2>2. CASE \E p \in Procs : do_exit(p)
    BY <2>2, FromOK DEF do_exit, RestOK, Live
  <2>3. CASE \E p \in Procs, f \in FileObjs : execve_fail(p, f)
    <3>1. PICK p \in Procs, f \in FileObjs : execve_fail(p, f)
      BY <2>3
    <3>2. /\ UNCHANGED <<life, files, tab, mm, space>>
          /\ fobj' = [count |-> [fobj.count EXCEPT ![f] = 1], open |-> fobj.open \cup {f}]
      BY <3>1, Zenon DEF execve_fail
    <3> QED BY <3>2, FromOK, OpenType, Zenon DEF RestOK
  <2> QED BY <2>1, <2>2, <2>3, Zenon
<1>2. TableRefs'
  BY <1>1, FromOK, RefsKept, Zenon
<1>3. RestOK'
  BY <1>1, FromOK, Zenon DEF RestOK
<1> QED BY <1>1, <1>2, <1>3, FromOK, ToOK, Zenon

LEMMA ExecveTables ==
    ASSUME TablesOK, NEW p \in Procs, NEW s \in Spaces, do_execve(p, s)
    PROVE  TablesOK'
<1> DEFINE C == ClosedByExecve(p)
<1>1. /\ Live(p) /\ SetT(p, Clear(T(p), C))
      /\ space' = NewSpace(NoSpace(space, mm[p]), s)
      /\ mm' = [mm EXCEPT ![p] = s]
      /\ UNCHANGED <<life, files, fobj>>
  BY Zenon DEF do_execve
<1>2. GoodTab(T(p)) /\ T(p) \in TabRec /\ mm[p] \in Spaces
  BY <1>1, LiveTable, Zenon DEF Live
<1>3. C \in SUBSET Fds
  BY <1>2, Zenon DEF ClosedByExecve, TabRec
<1>4. /\ fobj' \in ObjRec /\ mm' \in [Procs -> Spaces \cup {None}]
      /\ \A q \in Procs : mm[q] \in Spaces => mm'[q] \in Spaces
  BY <1>1, FromOK, Zenon DEF RestOK
<1>5. /\ space' \in [ref : [Spaces -> Nat], live : SUBSET Spaces]
      /\ \A u \in space'.live : space'.ref[u] > 0
  BY <1>1, <1>2, FromOK DEF RestOK, NewSpace, NoSpace
<1> HIDE DEF C
<1> QED BY <1>1, <1>2, <1>3, <1>4, <1>5, ClearGood, TableStep, Zenon

----------------------------------------------------------------------------
(* fork, and the end of a process.                                         *)

Recounted(r, n) == [r EXCEPT !.refcount = n]

\* fd_table_free of the last reference: the table goes, and its references to files.
LEMMA FreeLast ==
    ASSUME NEW tb, NEW o, NEW t, tb[t].refcount = 1
    PROVE  /\ fd_table_free(tb, o, t).tab = Placed(tb, t, NoTable)
           /\ fd_table_free(tb, o, t).obj = put_files(o, HeldFun(tb[t]))
BY Zenon DEF fd_table_free, HeldFun, Placed

DropsOne(tb, o, t) ==
    /\ fd_table_free(tb, o, t).tab = Placed(tb, t, Recounted(tb[t], tb[t].refcount - 1))
    /\ fd_table_free(tb, o, t).obj = o

\* fd_table_free of another reference.
LEMMA FreeShared ==
    ASSUME NEW tb, NEW o, NEW t, tb[t].refcount # 1
    PROVE  DropsOne(tb, o, t)
<1>1. /\ fd_table_free(tb, o, t).tab = [tb EXCEPT ![t].refcount = @ - 1]
      /\ fd_table_free(tb, o, t).obj = o
  BY Zenon DEF fd_table_free
<1>2. [tb EXCEPT ![t].refcount = @ - 1] = Placed(tb, t, Recounted(tb[t], tb[t].refcount - 1))
  BY Zenon DEF Recounted, Placed
<1> QED BY <1>1, <1>2, Zenon DEF DropsOne

LEMMA RecountedGood ==
    ASSUME NEW r, GoodTab(r), NEW n \in Nat
    PROVE  GoodTab(Recounted(r, n)) /\ Recounted(r, n).refcount = n /\ Recounted(r, n).file = r.file
BY RecountGood, Zenon DEF Recounted

\* The processes that use a table when c starts with the table t.
LEMMA UsersStart ==
    ASSUME RestOK, NEW c \in Procs, life[c] = "free", NEW t \in Tables,
           life' = [life EXCEPT ![c] = "live"], files' = [files EXCEPT ![c] = t], NEW u
    PROVE  Users(u)' = (IF u = t THEN Users(u) \cup {c} ELSE Users(u)) /\ c \notin Users(u)
BY DEF RestOK, Users

\* And when z goes.
LEMMA UsersEnd ==
    ASSUME RestOK, NEW z \in Procs, life[z] # "free",
           life' = [life EXCEPT ![z] = "free"], files' = [files EXCEPT ![z] = None], NEW u
    PROVE  /\ Users(u)' = (IF u = files[z] THEN Users(u) \ {z} ELSE Users(u))
           /\ z \in Users(u) <=> u = files[z]
BY DEF RestOK, Users

SpaceRec == [ref : [Spaces -> Nat], live : SUBSET Spaces]

\* What RestOK says of the address spaces.
GoodSpaces(sp) == sp \in SpaceRec /\ \A s \in sp.live : sp.ref[s] > 0

\* One process more in the address space s.
Joined(sp, s) == [sp EXCEPT !.ref[s] = @ + 1]

LEMMA SpacesGood ==
    ASSUME NEW sp, GoodSpaces(sp), NEW s \in Spaces
    PROVE  /\ GoodSpaces(NewSpace(sp, s)) /\ GoodSpaces(NoSpace(sp, s))
           /\ GoodSpaces(DropSpace(sp, s))
           /\ s \in sp.live => GoodSpaces(Joined(sp, s))
<1>1. GoodSpaces(NewSpace(sp, s))
  BY DEF GoodSpaces, SpaceRec, NewSpace
<1>2. GoodSpaces(NoSpace(sp, s))
  BY DEF GoodSpaces, SpaceRec, NoSpace
<1>3. s \in sp.live => GoodSpaces(Joined(sp, s))
  BY DEF GoodSpaces, SpaceRec, Joined
<1>4. GoodSpaces(DropSpace(sp, s))
  BY <1>2 DEF GoodSpaces, SpaceRec, DropSpace
<1> QED BY <1>1, <1>2, <1>3, <1>4

TableCopied(p, flags, t) ==
    IF "FILES" \in flags
    THEN /\ t = files[p] /\ fobj' = fobj
         /\ tab' = Placed(tab, t, Recounted(tab[t], tab[t].refcount + 1))
    ELSE /\ tab[t].refcount = 0
         /\ fobj' = get_files(fobj, HeldFun(T(p)))
         /\ tab' = Placed(tab, t, Recounted(T(p), 1))

\* copy_files: the child shares the table of p, or gets a copy of it.
LEMMA CopyFiles ==
    ASSUME TablesOK, NEW p \in Procs, NEW c \in Procs, NEW flags, NEW t \in Tables, NEW s,
           do_fork(p, c, flags, t, s)
    PROVE  /\ TableCopied(p, flags, t)
           /\ tab'[t].refcount = tab[t].refcount + 1
           /\ tab' \in [Tables -> TabRec] /\ fobj' \in ObjRec
           /\ \A u \in Tables : GoodTab(tab'[u]) /\ (u # t => tab'[u] = tab[u])
<1>1. Live(p) /\ life[p] # "free"
  BY Zenon DEF do_fork, Live
<1>2. /\ files[p] \in Tables /\ GoodTab(T(p)) /\ tab \in [Tables -> TabRec] /\ fobj \in ObjRec
      /\ GoodTab(tab[t]) /\ T(p) = tab[files[p]]
  BY <1>1, LiveTable, FromOK, Zenon DEF RestOK, T
<1>3. tab[t].refcount \in Nat
  BY <1>2, Zenon DEF TabRec
<1>4. CASE "FILES" \in flags
  <2>1. t = files[p] /\ fobj' = fobj /\ tab' = [tab EXCEPT ![t].refcount = @ + 1]
    BY <1>4, Zenon DEF do_fork
  <2>2. tab' = Placed(tab, t, Recounted(tab[t], tab[t].refcount + 1))
    BY <2>1, Zenon DEF Recounted, Placed
  <2>3. tab[t].refcount + 1 \in Nat
    BY <1>3
  <2>4. /\ GoodTab(Recounted(tab[t], tab[t].refcount + 1))
        /\ Recounted(tab[t], tab[t].refcount + 1).refcount = tab[t].refcount + 1
    BY <1>2, <2>3, RecountedGood, Zenon
  <2> QED BY <1>2, <1>4, <2>1, <2>2, <2>4, OneTable, Zenon DEF TableCopied
<1>5. CASE "FILES" \notin flags
  <2>1. /\ tab[t].refcount = 0 /\ tab' = fd_table_clone(tab, t, T(p))
        /\ fobj' = get_files(fobj, HeldFun(T(p)))
    BY <1>5, Zenon DEF do_fork, HeldFun
  <2>2. tab' = Placed(tab, t, Recounted(T(p), 1))
    BY <2>1, Zenon DEF fd_table_clone, Recounted, Placed
  <2>3. GoodTab(Recounted(T(p), 1)) /\ Recounted(T(p), 1).refcount = 1
    BY <1>2, RecountedGood, Zenon
  <2>4. fobj' \in ObjRec
    BY <1>2, <2>1, HeldFunType, GetType, Zenon
  <2>5. tab'[t].refcount = 1
    BY <2>2, <2>3, OneTable, Zenon
  <2>6. tab'[t].refcount = tab[t].refcount + 1
    BY <2>1, <2>5
  <2> QED BY <1>5, <2>1, <2>2, <2>3, <2>4, <2>6, OneTable, Zenon DEF TableCopied
<1> QED BY <1>4, <1>5, Zenon

\* copy_mm: the child shares the address space of p, or gets a new one.
LEMMA CopyMm ==
    ASSUME TablesOK, NEW p \in Procs, NEW c \in Procs, NEW flags, NEW t \in Tables, NEW s \in Spaces,
           do_fork(p, c, flags, t, s)
    PROVE  GoodSpaces(space')
<1>1. GoodSpaces(space)
  BY FromOK, Zenon DEF RestOK, GoodSpaces, SpaceRec
<1>2. \/ s \in space.live /\ space' = Joined(space, s)
      \/ space' = space
      \/ space' = NewSpace(space, s)
  BY Zenon DEF do_fork, Joined
<1> QED BY <1>1, <1>2, SpacesGood, Zenon

LEMMA ForkTables ==
    ASSUME TablesOK, NEW p \in Procs, NEW c \in Procs, NEW flags, NEW t \in Tables, NEW s \in Spaces,
           do_fork(p, c, flags, t, s)
    PROVE  TablesOK'
<1>1. /\ life[c] = "free" /\ life' = [life EXCEPT ![c] = "live"]
      /\ files' = [files EXCEPT ![c] = t] /\ mm' = [mm EXCEPT ![c] = s]
  BY Zenon DEF do_fork
<1>2. /\ tab'[t].refcount = tab[t].refcount + 1
      /\ tab' \in [Tables -> TabRec] /\ fobj' \in ObjRec
      /\ \A u \in Tables : GoodTab(tab'[u]) /\ (u # t => tab'[u] = tab[u])
  BY CopyFiles, Zenon
<1>3. RestOK /\ TableRefs
  BY FromOK
<1>4. RestOK'
  <2>1. GoodSpaces(space')
    BY CopyMm, Zenon
  <2> QED BY <1>1, <1>2, <1>3, <2>1, Zenon DEF RestOK, GoodSpaces, SpaceRec
<1>5. TableRefs'
  <2> SUFFICES ASSUME NEW u \in Tables PROVE tab'[u].refcount = Cardinality(Users(u)')
    BY DEF TableRefs
  <2>1. tab[u].refcount = Cardinality(Users(u)) /\ IsFiniteSet(Users(u)) /\ Cardinality(Users(u)) \in Nat
    BY <1>3, UsersFinite, Zenon DEF TableRefs
  <2>2. Users(u)' = (IF u = t THEN Users(u) \cup {c} ELSE Users(u)) /\ c \notin Users(u)
    BY <1>1, <1>3, UsersStart, Zenon
  <2>3. CASE u = t
    <3>1. Cardinality(Users(u) \cup {c}) = Cardinality(Users(u)) + 1
      BY <2>1, <2>2, FS_AddElement, Zenon
    <3> QED BY <1>2, <2>1, <2>2, <2>3, <3>1, Zenon
  <2>4. CASE u # t
    BY <1>2, <2>1, <2>2, <2>4, Zenon
  <2> QED BY <2>3, <2>4
<1> QED BY <1>2, <1>4, <1>5, ToOK, Zenon

\* What a fork that fails leaves behind: the table it shared as it was, or the copy freed.
LEMMA ForkFailEffect ==
    ASSUME TablesOK, NEW p \in Procs, NEW flags, NEW t \in Tables, fork_fail(p, flags, t)
    PROVE  /\ UNCHANGED <<life, files, mm, space>>
           /\ \/ tab' = tab /\ fobj' = fobj
              \/ /\ tab[t].refcount = 0 /\ tab' = Placed(tab, t, NoTable)
                 /\ fobj' = put_files(get_files(fobj, HeldFun(T(p))), HeldFun(T(p)))
<1>1. UNCHANGED <<life, files, mm, space>> /\ life[p] # "free"
  BY Zenon DEF fork_fail, Live
<1>2. /\ files[p] \in Tables /\ GoodTab(T(p)) /\ tab \in [Tables -> TabRec]
      /\ GoodTab(tab[t]) /\ T(p) = tab[files[p]] /\ T(p).refcount \in Nat /\ T(p).refcount > 0
  BY <1>1, LiveTable, FromOK, Zenon DEF RestOK, T
<1>3. CASE "FILES" \in flags
  <2> DEFINE r == Recounted(tab[t], tab[t].refcount + 1)
             took == Placed(tab, t, r)
  <2>1. [tab EXCEPT ![t].refcount = @ + 1] = took
    BY Zenon DEF Recounted, Placed
  <2>2. /\ t = files[p] /\ tab' = fd_table_free(took, fobj, t).tab
        /\ fobj' = fd_table_free(took, fobj, t).obj
    BY <1>3, <2>1, Zenon DEF fork_fail
  <2>3. tab[t].refcount + 1 \in Nat /\ tab[t].refcount + 1 # 1 /\ (tab[t].refcount + 1) - 1 = tab[t].refcount
    BY <1>2, <2>2
  <2>4. GoodTab(r) /\ r.refcount = tab[t].refcount + 1
    BY <1>2, <2>3, RecountedGood, Zenon
  <2>5. Recounted(r, tab[t].refcount) = tab[t]
    <3>1. tab[t] \in TabRec
      BY <1>2, Zenon DEF GoodTab
    <3> QED BY <3>1, Zenon DEF Recounted, TabRec
  <2> HIDE DEF r
  <2>6. took \in [Tables -> TabRec] /\ took[t] = r
    BY <1>2, <2>4, Zenon DEF GoodTab, Placed
  <2>7. tab' = Placed(took, t, Recounted(r, r.refcount - 1)) /\ fobj' = fobj
    <3> HIDE DEF took
    <3>1. took[t].refcount # 1
      BY <2>3, <2>4, <2>6, Zenon
    <3>2. DropsOne(took, fobj, t)
      BY <3>1, FreeShared, Zenon
    <3> QED BY <2>2, <2>6, <3>2 DEF DropsOne
  <2>8. tab' = Placed(took, t, tab[t])
    <3> HIDE DEF took
    <3> QED BY <2>3, <2>4, <2>5, <2>7, Zenon
  <2>9. tab' = tab
    BY <1>2, <2>8, Zenon DEF Placed
  <2> QED BY <1>1, <2>7, <2>9, Zenon
<1>4. CASE "FILES" \notin flags
  <2> DEFINE r == Recounted(T(p), 1)
             took == Placed(tab, t, r)
             o == get_files(fobj, HeldFun(T(p)))
  <2>1. fd_table_clone(tab, t, T(p)) = took
    BY Zenon DEF Recounted, fd_table_clone, Placed
  <2>2. /\ tab[t].refcount = 0 /\ tab' = fd_table_free(took, o, t).tab
        /\ fobj' = fd_table_free(took, o, t).obj
    BY <1>4, <2>1, Zenon DEF fork_fail, HeldFun
  <2>3. GoodTab(r) /\ r.refcount = 1 /\ r.file = T(p).file
    BY <1>2, RecountedGood, Zenon
  <2> HIDE DEF r
  <2>4. took \in [Tables -> TabRec] /\ took[t] = r
    BY <1>2, <2>3, Zenon DEF GoodTab, Placed
  <2>5. HeldFun(r) = HeldFun(T(p))
    BY <2>3, Zenon DEF HeldFun, Held
  <2>6. tab' = Placed(took, t, NoTable) /\ fobj' = put_files(o, HeldFun(r))
    <3> HIDE DEF took, o
    <3>1. took[t].refcount = 1
      BY <2>3, <2>4, Zenon
    <3>2. /\ fd_table_free(took, o, t).tab = Placed(took, t, NoTable)
          /\ fd_table_free(took, o, t).obj = put_files(o, HeldFun(took[t]))
      BY <3>1, FreeLast, Zenon
    <3> QED BY <2>2, <2>4, <3>2
  <2>7. tab' = Placed(tab, t, NoTable)
    BY <1>2, <2>6, Zenon DEF Placed
  <2> QED BY <1>1, <2>2, <2>5, <2>6, <2>7, Zenon
<1> QED BY <1>3, <1>4, Zenon

LEMMA ForkFailTables ==
    ASSUME TablesOK, NEW p \in Procs, NEW flags, NEW t \in Tables, fork_fail(p, flags, t)
    PROVE  TablesOK'
<1>1. UNCHANGED <<life, files, mm, space>>
  BY ForkFailEffect, Zenon
<1>2. RestOK /\ TableRefs /\ fobj \in ObjRec /\ tab \in [Tables -> TabRec]
      /\ \A u \in Tables : GoodTab(tab[u])
  BY FromOK, Zenon DEF RestOK
<1>3. CASE tab' = tab /\ fobj' = fobj
  <2>1. RestOK' /\ TableRefs'
    BY <1>1, <1>2, <1>3, RefsKept, Zenon DEF RestOK
  <2> QED BY <1>2, <1>3, <2>1, ToOK, Zenon
<1>4. CASE /\ tab[t].refcount = 0 /\ tab' = Placed(tab, t, NoTable)
           /\ fobj' = put_files(get_files(fobj, HeldFun(T(p))), HeldFun(T(p)))
  <2>1. fobj' \in ObjRec
    BY <1>2, <1>4, HeldFunType, GetType, PutType, Zenon
  <2>2. /\ tab' \in [Tables -> TabRec] /\ tab'[t] = NoTable
        /\ \A u \in Tables : u # t => tab'[u] = tab[u]
        /\ \A u \in Tables : GoodTab(tab'[u])
    BY <1>4, NoTableGood, OneTable, Zenon
  <2>3. \A u \in Tables : tab'[u].refcount = tab[u].refcount
    BY <1>4, <2>2, NoTableGood, Zenon
  <2>4. RestOK' /\ TableRefs'
    BY <1>1, <1>2, <2>1, <2>3, RefsKept, Zenon DEF RestOK
  <2> QED BY <2>2, <2>4, ToOK, Zenon
<1> QED BY <1>3, <1>4, ForkFailEffect, Zenon

LEMMA DestroyTables ==
    ASSUME TablesOK, NEW z \in Procs, process_destroy(z)
    PROVE  TablesOK'
<1> DEFINE t == files[z]
<1>1. /\ life[z] # "free" /\ life' = [life EXCEPT ![z] = "free"]
      /\ tab' = fd_table_free(tab, fobj, t).tab /\ fobj' = fd_table_free(tab, fobj, t).obj
      /\ space' = DropSpace(space, mm[z])
      /\ files' = [files EXCEPT ![z] = None] /\ mm' = [mm EXCEPT ![z] = None]
  BY Zenon DEF process_destroy
<1>2. RestOK /\ TableRefs /\ fobj \in ObjRec /\ tab \in [Tables -> TabRec]
  BY FromOK, Zenon DEF RestOK
<1>3. t \in Tables /\ mm[z] \in Spaces /\ GoodTab(tab[t]) /\ tab[t].refcount \in Nat /\ tab[t].refcount > 0
  BY <1>1, LiveTable, Zenon DEF T
<1>4. tab[t].refcount - 1 \in Nat /\ (tab[t].refcount = 1 => tab[t].refcount - 1 = 0)
  BY <1>3
<1>5. PICK r : /\ tab' = Placed(tab, t, r) /\ fobj' \in ObjRec
               /\ GoodTab(r) /\ r.refcount = tab[t].refcount - 1
  <2> HIDE DEF t
  <2>1. CASE tab[t].refcount = 1
    <3>1. tab' = Placed(tab, t, NoTable) /\ fobj' = put_files(fobj, HeldFun(tab[t]))
      BY <1>1, <2>1, FreeLast, Zenon
    <3>2. fobj' \in ObjRec
      BY <1>2, <3>1, HeldFunType, PutType, Zenon
    <3> QED BY <1>4, <2>1, <3>1, <3>2, NoTableGood, Zenon
  <2>2. CASE tab[t].refcount # 1
    <3>1. DropsOne(tab, fobj, t)
      BY <2>2, FreeShared, Zenon
    <3>2. tab' = Placed(tab, t, Recounted(tab[t], tab[t].refcount - 1)) /\ fobj' \in ObjRec
      BY <1>1, <1>2, <3>1, Zenon DEF DropsOne
    <3> QED BY <1>3, <1>4, <3>2, RecountedGood, Zenon
  <2> QED BY <2>1, <2>2
<1>8. /\ tab' \in [Tables -> TabRec] /\ tab'[t] = r
      /\ \A u \in Tables : u # t => tab'[u] = tab[u]
      /\ \A u \in Tables : GoodTab(tab'[u])
  BY <1>3, <1>5, OneTable, Zenon
<1>9. RestOK'
  <2>1. GoodSpaces(space)
    BY <1>2, Zenon DEF RestOK, GoodSpaces, SpaceRec
  <2>2. GoodSpaces(space')
    BY <1>1, <1>3, <2>1, SpacesGood, Zenon
  <2> QED BY <1>1, <1>2, <1>5, <2>2, Zenon DEF RestOK, GoodSpaces, SpaceRec
<1>10. TableRefs'
  <2> SUFFICES ASSUME NEW u \in Tables PROVE tab'[u].refcount = Cardinality(Users(u)')
    BY DEF TableRefs
  <2>1. tab[u].refcount = Cardinality(Users(u)) /\ IsFiniteSet(Users(u)) /\ Cardinality(Users(u)) \in Nat
    BY <1>2, UsersFinite, Zenon DEF TableRefs
  <2>2. /\ Users(u)' = (IF u = t THEN Users(u) \ {z} ELSE Users(u))
        /\ z \in Users(u) <=> u = t
    BY <1>1, <1>2, UsersEnd, Zenon
  <2>3. CASE u = t
    <3>1. Cardinality(Users(u) \ {z}) = Cardinality(Users(u)) - 1
      BY <2>1, <2>2, <2>3, FS_RemoveElement, Zenon
    <3> QED BY <1>5, <1>8, <2>1, <2>2, <2>3, <3>1, Zenon
  <2>4. CASE u # t
    BY <1>8, <2>1, <2>2, <2>4, Zenon
  <2> QED BY <2>3, <2>4
<1> QED BY <1>8, <1>9, <1>10, ToOK, Zenon

----------------------------------------------------------------------------
(* The tables, whatever the programs call.                                 *)

\* init after its first execve uses the only table.
LEMMA InitTables == ResInit => TablesOK
<1> SUFFICES ASSUME ResInit PROVE TablesOK
  OBVIOUS
<1>1. PICK t \in Tables, s \in Spaces :
        /\ life = [p \in Procs |-> IF p = InitProc THEN "live" ELSE "free"]
        /\ files = [p \in Procs |-> IF p = InitProc THEN t ELSE None]
        /\ tab = [u \in Tables |-> IF u = t THEN Recounted(NoTable, 1) ELSE NoTable]
        /\ fobj = [count |-> [f \in FileObjs |-> 0], open |-> {}]
        /\ mm = [p \in Procs |-> IF p = InitProc THEN s ELSE None]
        /\ space = [ref |-> [u \in Spaces |-> IF u = s THEN 1 ELSE 0], live |-> {s}]
  BY Zenon DEF ResInit, Recounted
<1> DEFINE r == Recounted(NoTable, 1)
<1>2. GoodTab(r) /\ r.refcount = 1 /\ GoodTab(NoTable) /\ NoTable.refcount = 0
  BY NoTableGood, RecountedGood, Zenon
<1> HIDE DEF r
<1>3. tab \in [Tables -> TabRec] /\ (\A u \in Tables : GoodTab(tab[u]))
      /\ \A u \in Tables : tab[u].refcount = IF u = t THEN 1 ELSE 0
  BY <1>1, <1>2 DEF GoodTab, r
<1>4. ResTypeOK
  BY <1>1, <1>3 DEF ResTypeOK, TabRec
<1>5. LowestFd
  BY <1>3, Zenon DEF LowestFd, GoodTab
<1>6. TableRefs
  <2>1. \A u \in Tables : Users(u) = IF u = t THEN {InitProc} ELSE {}
    BY <1>1, ProcResAssumption DEF Users
  <2>2. Cardinality({InitProc}) = 1 /\ Cardinality({}) = 0
    BY FS_Singleton, FS_EmptySet, Zenon
  <2> QED BY <1>3, <2>1, <2>2, Zenon DEF TableRefs
<1> QED BY <1>4, <1>5, <1>6 DEF TablesOK

LEMMA NextTables == TablesOK /\ [ResNext]_resvars => TablesOK'
<1> SUFFICES ASSUME TablesOK, [ResNext]_resvars PROVE TablesOK'
  OBVIOUS
<1>1. CASE UNCHANGED resvars
  <2>1. UNCHANGED <<life, files, tab, fobj, mm, space>>
    BY <1>1, Zenon DEF resvars
  <2>2. RestOK' /\ TableRefs'
    BY <2>1, FromOK, RefsKept, Zenon DEF RestOK
  <2> QED BY <2>1, <2>2, FromOK, ToOK, Zenon
<1>2. ASSUME NEW p \in Procs, NEW f \in FileObjs, NEW cloexec \in BOOLEAN, sys_open(p, f, cloexec)
      PROVE  TablesOK'
  BY <1>2, OpenTables, Zenon
<1>3. ASSUME NEW p \in Procs, NEW fd \in Fds, sys_close(p, fd) \/ sys_dup(p, fd)
      PROVE  TablesOK'
  BY <1>3, CloseTables, DupTables, Zenon
<1>4. ASSUME NEW p \in Procs, NEW oldfd \in Fds, NEW newfd \in Fds, sys_dup2(p, oldfd, newfd)
      PROVE  TablesOK'
  BY <1>4, Dup2Tables, Zenon
<1>5. ASSUME \/ \E p \in Procs, fd \in Fds : sys_ioctl(p, fd)
             \/ \E p \in Procs : do_exit(p)
             \/ \E p \in Procs, f \in FileObjs : execve_fail(p, f)
      PROVE  TablesOK'
  BY <1>5, OtherTables, Zenon
<1>6. ASSUME NEW p \in Procs, NEW c \in Procs, NEW flags, NEW t \in Tables, NEW s \in Spaces,
             do_fork(p, c, flags, t, s)
      PROVE  TablesOK'
  BY <1>6, ForkTables, Zenon
<1>7. ASSUME NEW p \in Procs, NEW flags, NEW t \in Tables, fork_fail(p, flags, t)
      PROVE  TablesOK'
  BY <1>7, ForkFailTables, Zenon
<1>8. ASSUME NEW z \in Procs, process_destroy(z)
      PROVE  TablesOK'
  BY <1>8, DestroyTables, Zenon
<1>9. ASSUME NEW p \in Procs, NEW s \in Spaces, do_execve(p, s)
      PROVE  TablesOK'
  BY <1>9, ExecveTables, Zenon
<1> QED BY <1>1, <1>2, <1>3, <1>4, <1>5, <1>6, <1>7, <1>8, <1>9, Zenon DEF ResNext

\* Whatever processes open, close, duplicate, share by clone and leave behind, and
\* wherever fork and execve fail: the reference count of a descriptor table is the number
\* of its users, and fd_alloc returns the lowest free descriptor.
THEOREM TablesSafe == ResSpec => []TablesOK
BY InitTables, NextTables, PTL DEF ResSpec

----------------------------------------------------------------------------
(* The descriptors that name a file, over all tables.                      *)

DescSet(tb, f) == {d \in Tables \X Fds : tb[d[1]].file[d[2]] = f}
Desc(tb, f) == Cardinality(DescSet(tb, f))
DescFun(tb) == [f \in FileObjs |-> Desc(tb, f)]

\* Those of them in tables other than t.
Others(tb, t, f) == {d \in Tables \X Fds : d[1] # t /\ tb[d[1]].file[d[2]] = f}

LEMMA DescType ==
    ASSUME NEW tb, NEW f
    PROVE  IsFiniteSet(DescSet(tb, f)) /\ Desc(tb, f) \in Nat
<1>1. IsFiniteSet(Tables \X Fds)
  BY ProcResAssumption, FdsFinite, FS_Product, Zenon
<1>2. DescSet(tb, f) \in SUBSET (Tables \X Fds)
  BY Zenon DEF DescSet
<1> QED BY <1>1, <1>2, FS_Subset, FS_CardinalityType, Zenon DEF Desc

\* The descriptors of one table counted apart.
LEMMA DescSplit ==
    ASSUME NEW tb, NEW t \in Tables, NEW f
    PROVE  /\ Cardinality(Others(tb, t, f)) \in Nat
           /\ Desc(tb, f) = Cardinality(Others(tb, t, f)) + Held(tb[t], f)
<1> DEFINE A == Others(tb, t, f)
           H == HeldSet(tb[t], f)
           B == {t} \X H
<1>1. DescSet(tb, f) = A \cup B /\ A \cap B = {}
  BY DEF DescSet, Others, HeldSet
<1>2. IsFiniteSet(DescSet(tb, f)) /\ IsFiniteSet(H)
  BY DescType, HeldType, Zenon
<1>3. A \in SUBSET DescSet(tb, f)
  BY <1>1, Zenon
<1>4. IsFiniteSet(A) /\ Cardinality(A) \in Nat
  BY <1>2, <1>3, FS_Subset, FS_CardinalityType, Zenon
<1>5. IsFiniteSet({t}) /\ Cardinality({t}) = 1
  BY FS_Singleton, Zenon
<1>6. IsFiniteSet(B) /\ Cardinality(B) = 1 * Cardinality(H)
  BY <1>2, <1>5, FS_Product, Zenon
<1>7. Cardinality(H) = Held(tb[t], f) /\ Held(tb[t], f) \in Nat
  BY HeldType, Zenon
<1>8. Cardinality(A \cup B) = Cardinality(A) + Cardinality(B) - Cardinality(A \cap B)
  BY <1>4, <1>6, FS_Union, Zenon
<1>9. Cardinality(A \cap B) = 0
  BY <1>1, FS_EmptySet, Zenon
<1>10. Desc(tb, f) = Cardinality(A \cup B)
  BY <1>1, Zenon DEF Desc
<1> HIDE DEF A, B, H
<1>11. Desc(tb, f) = Cardinality(A) + Held(tb[t], f)
  BY <1>4, <1>6, <1>7, <1>8, <1>9, <1>10
<1> QED BY <1>4, <1>11, Zenon DEF A

\* One table changes: the count of a file changes by what that table holds of it.
DescTrades(tb, t, r, f) ==
    /\ Desc(tb, f) \in Nat /\ Held(tb[t], f) \in Nat /\ Held(r, f) \in Nat
    /\ Held(tb[t], f) <= Desc(tb, f)
    /\ Desc(Placed(tb, t, r), f) = Desc(tb, f) - Held(tb[t], f) + Held(r, f)

LEMMA DescChange ==
    ASSUME NEW tb \in [Tables -> TabRec], NEW t \in Tables, NEW r, NEW f
    PROVE  DescTrades(tb, t, r, f)
<1> DEFINE tb2 == Placed(tb, t, r)
<1>1. tb2[t] = r /\ \A u \in Tables : u # t => tb2[u] = tb[u]
  BY Zenon DEF Placed
<1> HIDE DEF tb2
<1>2. Others(tb2, t, f) = Others(tb, t, f)
  BY <1>1 DEF Others
<1>3. /\ Desc(tb2, f) = Cardinality(Others(tb, t, f)) + Held(r, f)
      /\ Desc(tb, f) = Cardinality(Others(tb, t, f)) + Held(tb[t], f)
      /\ Cardinality(Others(tb, t, f)) \in Nat
  BY <1>1, <1>2, DescSplit, Zenon
<1>4. Held(tb[t], f) \in Nat /\ Held(r, f) \in Nat /\ Desc(tb, f) \in Nat
  BY HeldType, DescType, Zenon
<1>5. Held(tb[t], f) <= Desc(tb, f) /\ Desc(tb2, f) = Desc(tb, f) - Held(tb[t], f) + Held(r, f)
  BY <1>3, <1>4
<1> QED BY <1>4, <1>5, Zenon DEF tb2, DescTrades

LEMMA HeldSame ==
    ASSUME NEW r, NEW q, q.file = r.file, NEW f
    PROVE  Held(q, f) = Held(r, f)
BY Zenon DEF Held

LEMMA HeldSome ==
    ASSUME NEW r, NEW fd \in Fds
    PROVE  Held(r, r.file[fd]) > 0
<1> DEFINE f == r.file[fd]
<1>1. fd \in HeldSet(r, f)
  BY Zenon DEF HeldSet
<1>2. Cardinality(HeldSet(r, f)) # 0
  BY <1>1, HeldType, FS_EmptySet, Zenon
<1> HIDE DEF f
<1>3. Held(r, f) > 0
  BY <1>2, HeldType
<1> QED BY <1>3 DEF f

\* The table q is r but for the descriptor fd, which names b in q.
Renames(r, q, fd, b) == q.file = [r.file EXCEPT ![fd] = b]

HeldMoves(r, q, a, b, f) == Held(q, f) = Held(r, f) + Once(b)[f] - Once(a)[f]

\* One descriptor changes.
LEMMA HeldChange ==
    ASSUME NEW r \in TabRec, NEW q, NEW fd \in Fds, NEW b, Renames(r, q, fd, b),
           NEW f \in FileObjs
    PROVE  HeldMoves(r, q, r.file[fd], b, f)
<1> DEFINE a == r.file[fd]
           X == HeldSet(r, f)
           Y == HeldSet(q, f)
<1>1. r.file \in [Fds -> FileObjs \cup {None}]
  BY Zenon DEF TabRec
<1>2. q.file[fd] = b /\ \A g \in Fds : g # fd => q.file[g] = r.file[g]
  BY <1>1, Zenon DEF Renames
<1>3. /\ IsFiniteSet(X) /\ Held(r, f) = Cardinality(X) /\ Held(r, f) \in Nat
      /\ IsFiniteSet(Y) /\ Held(q, f) = Cardinality(Y) /\ Held(q, f) \in Nat
  BY HeldType, Zenon
<1>4. Once(b)[f] = (IF f = b THEN 1 ELSE 0) /\ Once(a)[f] = (IF f = a THEN 1 ELSE 0)
  BY Zenon DEF Once
<1>5. (fd \in X <=> f = a) /\ (fd \in Y <=> f = b) /\ X \ {fd} = Y \ {fd}
  BY <1>2 DEF HeldSet
<1> HIDE DEF X, Y, a
<1> DEFINE Z == X \ {fd}
<1>6. IsFiniteSet(Z)
  BY <1>3, FS_RemoveElement, Zenon
<1>7. Cardinality(Z) \in Nat
  BY <1>6, FS_CardinalityType, Zenon
<1>8. Cardinality(Z \cup {fd}) = Cardinality(Z) + 1
  <2>1. fd \notin Z
    OBVIOUS
  <2> HIDE DEF Z
  <2> QED BY <2>1, <1>6, FS_AddElement, Zenon
<1>9. (fd \in X => X = Z \cup {fd}) /\ (fd \in Y => Y = Z \cup {fd})
  BY <1>5
<1>10. (fd \notin X => X = Z) /\ (fd \notin Y => Y = Z)
  BY <1>5
<1> HIDE DEF Z
<1>11. /\ Cardinality(X) = Cardinality(Z) + Once(a)[f] /\ Once(a)[f] \in Nat
       /\ Cardinality(Y) = Cardinality(Z) + Once(b)[f] /\ Once(b)[f] \in Nat
  <2>1. Cardinality(X) = Cardinality(Z) + Once(a)[f] /\ Once(a)[f] \in Nat
    <3>1. CASE fd \in X
      <4>1. Cardinality(X) = Cardinality(Z) + 1 /\ Once(a)[f] = 1
        BY <1>4, <1>5, <1>8, <1>9, <3>1, Zenon
      <4> QED BY <4>1
    <3>2. CASE fd \notin X
      <4>1. Cardinality(X) = Cardinality(Z) /\ Once(a)[f] = 0
        BY <1>4, <1>5, <1>10, <3>2, Zenon
      <4> QED BY <4>1, <1>7
    <3> QED BY <3>1, <3>2
  <2>2. Cardinality(Y) = Cardinality(Z) + Once(b)[f] /\ Once(b)[f] \in Nat
    <3>1. CASE fd \in Y
      <4>1. Cardinality(Y) = Cardinality(Z) + 1 /\ Once(b)[f] = 1
        BY <1>4, <1>5, <1>8, <1>9, <3>1, Zenon
      <4> QED BY <4>1
    <3>2. CASE fd \notin Y
      <4>1. Cardinality(Y) = Cardinality(Z) /\ Once(b)[f] = 0
        BY <1>4, <1>5, <1>10, <3>2, Zenon
      <4> QED BY <4>1, <1>7
    <3> QED BY <3>1, <3>2
  <2> QED BY <2>1, <2>2
<1>12. Held(q, f) = Held(r, f) + Once(b)[f] - Once(a)[f]
  BY <1>3, <1>7, <1>11, SMTT(20)
<1> QED BY <1>12 DEF a, HeldMoves

\* execve's descriptors that go.
LEMMA HeldLess ==
    ASSUME NEW r, NEW q, NEW f, \A fd \in Fds : q.file[fd] = f => r.file[fd] = f
    PROVE  Held(q, f) <= Held(r, f)
<1>1. HeldSet(q, f) \in SUBSET HeldSet(r, f)
  BY Zenon DEF HeldSet
<1>2. Cardinality(HeldSet(q, f)) <= Cardinality(HeldSet(r, f))
  BY <1>1, HeldType, FS_Subset, Zenon
<1> QED BY <1>2, HeldType, Zenon

----------------------------------------------------------------------------
(* Counts that cover the descriptors.                                      *)

\* The counts in o cover d[f] descriptors of each file f.
Cov(o, d) ==
    \A f \in FileObjs : (d[f] > 0 => f \in o.open) /\ (f \in o.open => o.count[f] >= d[f])

LEMMA CovMonotone ==
    ASSUME NEW o \in ObjRec, NEW d \in [FileObjs -> Nat], NEW e \in [FileObjs -> Nat],
           Cov(o, d), \A f \in FileObjs : e[f] <= d[f]
    PROVE  Cov(o, e)
BY DEF Cov, ObjRec

LEMMA CovOpen ==
    ASSUME NEW o \in ObjRec, NEW d \in [FileObjs -> Nat], NEW e \in [FileObjs -> Nat],
           Cov(o, d), NEW g \in FileObjs, g \notin o.open,
           \A f \in FileObjs : e[f] <= d[f] + Once(g)[f]
    PROVE  Cov([count |-> [o.count EXCEPT ![g] = 1], open |-> o.open \cup {g}], e)
<1> DEFINE q == [count |-> [o.count EXCEPT ![g] = 1], open |-> o.open \cup {g}]
<1>1. q.count = [o.count EXCEPT ![g] = 1] /\ q.open = o.open \cup {g}
  OBVIOUS
<1>2. o.count \in [FileObjs -> Int]
  BY DEF ObjRec
<1>3. q.count[g] = 1 /\ \A f \in FileObjs : f # g => q.count[f] = o.count[f]
  BY <1>1, <1>2, Zenon
<1> HIDE DEF q
<1>4. \A f \in FileObjs : Once(g)[f] = IF f = g THEN 1 ELSE 0
  BY Zenon DEF Once
<1>5. d[g] = 0
  BY DEF Cov
<1> SUFFICES ASSUME NEW f \in FileObjs
             PROVE  (e[f] > 0 => f \in q.open) /\ (f \in q.open => q.count[f] >= e[f])
  BY Zenon DEF Cov, q
<1>6. CASE f = g
  BY <1>1, <1>3, <1>4, <1>5, <1>6
<1>7. CASE f # g
  <2>1. e[f] <= d[f] /\ d[f] \in Nat /\ e[f] \in Nat /\ o.count[f] \in Int
    BY <1>2, <1>4, <1>7
  <2>2. (d[f] > 0 => f \in o.open) /\ (f \in o.open => o.count[f] >= d[f])
    BY Zenon DEF Cov
  <2> QED BY <1>1, <1>3, <1>7, <2>1, <2>2
<1> QED BY <1>6, <1>7

LEMMA CovGet ==
    ASSUME NEW o \in ObjRec, NEW d \in [FileObjs -> Nat], NEW e \in [FileObjs -> Nat],
           NEW n \in [FileObjs -> Nat], Cov(o, d),
           \A f \in FileObjs : (n[f] > 0 => d[f] > 0) /\ e[f] <= d[f] + n[f]
    PROVE  Cov(get_files(o, n), e)
<1> DEFINE q == get_files(o, n)
           c == [f \in FileObjs |-> IF f \in o.open THEN o.count[f] + n[f] ELSE 0]
<1>1. q.count = c /\ q.open = o.open
  <2>1. q = [o EXCEPT !.count = c]
    BY Zenon DEF get_files
  <2> HIDE DEF q, c
  <2> QED BY <2>1, Zenon DEF ObjRec
<1>2. \A f \in FileObjs : f \in q.open => q.count[f] = o.count[f] + n[f]
  BY <1>1, Zenon
<1> HIDE DEF q, c
<1> SUFFICES ASSUME NEW f \in FileObjs
             PROVE  (e[f] > 0 => f \in q.open) /\ (f \in q.open => q.count[f] >= e[f])
  BY Zenon DEF Cov, q
<1>3. e[f] <= d[f] + n[f] /\ d[f] \in Nat /\ e[f] \in Nat /\ n[f] \in Nat /\ o.count[f] \in Int
      /\ (n[f] > 0 => d[f] > 0)
  BY DEF ObjRec
<1>4. (d[f] > 0 => f \in o.open) /\ (f \in o.open => o.count[f] >= d[f])
  BY Zenon DEF Cov
<1> QED BY <1>1, <1>2, <1>3, <1>4

LEMMA CovPut ==
    ASSUME NEW o \in ObjRec, NEW d \in [FileObjs -> Nat], NEW e \in [FileObjs -> Nat],
           NEW n \in [FileObjs -> Nat], Cov(o, d),
           \A f \in FileObjs : e[f] + n[f] <= d[f]
    PROVE  Cov(put_files(o, n), e)
<1> DEFINE q == put_files(o, n)
           left == {f \in o.open : o.count[f] \notin 1..n[f]}
<1>1. q.open = left /\ \A f \in FileObjs : f \in left => q.count[f] = o.count[f] - n[f]
  BY Zenon DEF put_files
<1> HIDE DEF q
<1> SUFFICES ASSUME NEW f \in FileObjs
             PROVE  (e[f] > 0 => f \in q.open) /\ (f \in q.open => q.count[f] >= e[f])
  BY Zenon DEF Cov, q
<1>3. e[f] + n[f] <= d[f] /\ d[f] \in Nat /\ e[f] \in Nat /\ n[f] \in Nat /\ o.count[f] \in Int
  BY DEF ObjRec
<1>4. (d[f] > 0 => f \in o.open) /\ (f \in o.open => o.count[f] >= d[f])
  BY Zenon DEF Cov
<1>5. f \in left <=> f \in o.open /\ ~(o.count[f] >= 1 /\ o.count[f] <= n[f])
  BY <1>3
<1> HIDE DEF left
<1> QED BY <1>1, <1>3, <1>4, <1>5

\* A get_file for each descriptor of a table, and the put_files that undo them.
LEMMA CovGetPut ==
    ASSUME NEW o \in ObjRec, NEW d \in [FileObjs -> Nat], NEW e \in [FileObjs -> Nat],
           NEW n \in [FileObjs -> Nat], Cov(o, d),
           \A f \in FileObjs : n[f] <= d[f] /\ e[f] <= d[f]
    PROVE  Cov(put_files(get_files(o, n), n), e)
<1> DEFINE m == [f \in FileObjs |-> d[f] + n[f]]
<1>1. m \in [FileObjs -> Nat] /\ get_files(o, n) \in ObjRec
  BY GetType
<1>2. \A f \in FileObjs : m[f] = d[f] + n[f]
  OBVIOUS
<1> HIDE DEF m
<1>3. \A f \in FileObjs : (n[f] > 0 => d[f] > 0) /\ m[f] <= d[f] + n[f]
  BY <1>2
<1>4. Cov(get_files(o, n), m)
  BY <1>1, <1>3, CovGet, Zenon
<1>5. \A f \in FileObjs : e[f] + n[f] <= m[f]
  BY <1>2
<1> QED BY <1>1, <1>4, <1>5, CovPut, SMTT(20)

\* FileRefs, in these terms.
LEMMA FileRefsCov ==
    /\ FileRefs <=> Cov(fobj, DescFun(tab))
    /\ FileRefs' <=> Cov(fobj', DescFun(tab'))
<1>1. ASSUME NEW tb, NEW f
      PROVE  DescSet(tb, f) # {} <=> Desc(tb, f) > 0
  <2>1. DescSet(tb, f) # {} <=> Desc(tb, f) # 0
    BY DescType, FS_EmptySet, Zenon DEF Desc
  <2> QED BY <2>1, DescType
<1>2. ASSUME NEW tb
      PROVE  \A f \in FileObjs : DescFun(tb)[f] = Desc(tb, f)
  BY Zenon DEF DescFun
<1>3. \A f : Descriptors(f) = DescSet(tab, f) /\ Descriptors(f)' = DescSet(tab', f)
  BY Zenon DEF Descriptors, DescSet
<1>4. FileRefs <=> Cov(fobj, DescFun(tab))
  BY <1>1, <1>2, <1>3, Zenon DEF FileRefs, Cov, Desc
<1>5. FileRefs' <=> Cov(fobj', DescFun(tab'))
  BY <1>1, <1>2, <1>3, Zenon DEF FileRefs, Cov, Desc
<1> QED BY <1>4, <1>5

LEMMA DescFunType ==
    ASSUME NEW tb
    PROVE  DescFun(tb) \in [FileObjs -> Nat] /\ \A f \in FileObjs : DescFun(tb)[f] = Desc(tb, f)
BY DescType DEF DescFun

----------------------------------------------------------------------------
(* Each call keeps the counts of the files.                                *)

OneOff(b, f) == IF f = b THEN 1 ELSE 0

LEMMA OnceIs ==
    ASSUME NEW b, NEW f \in FileObjs
    PROVE  Once(b)[f] = OneOff(b, f) /\ OneOff(b, f) \in Nat
BY DEF Once, OneOff

\* In the tables tb a descriptor names b that named a.
DescMoves(tb, a, b, f) ==
    /\ DescFun(tb)[f] = DescFun(tab)[f] + Once(b)[f] - Once(a)[f]
    /\ DescFun(tab)[f] \in Nat /\ DescFun(tb)[f] \in Nat
    /\ Once(b)[f] \in Nat /\ Once(a)[f] \in Nat /\ Once(a)[f] <= DescFun(tab)[f]

\* A call of p that changes what one descriptor of its table names, from a to b.
LEMMA DescStep ==
    ASSUME TablesOK, NEW p \in Procs, Live(p), NEW q, NEW fd \in Fds, NEW b,
           Renames(T(p), q, fd, b), NEW f \in FileObjs
    PROVE  DescMoves(Placed(tab, files[p], q), T(p).file[fd], b, f)
<1> DEFINE t == files[p]
           a == T(p).file[fd]
           tb == Placed(tab, t, q)
<1>1. t \in Tables /\ T(p) \in TabRec /\ T(p) = tab[t] /\ tab \in [Tables -> TabRec]
  BY LiveTable, FromOK, Zenon DEF Live, T
<1>2. Held(q, f) = Held(tab[t], f) + Once(b)[f] - Once(a)[f]
  <2>1. HeldMoves(T(p), q, a, b, f)
    BY <1>1, HeldChange, Zenon
  <2> QED BY <1>1, <2>1, Zenon DEF HeldMoves
<1>3. /\ Desc(tab, f) \in Nat /\ Held(tab[t], f) \in Nat /\ Held(q, f) \in Nat
      /\ Held(tab[t], f) <= Desc(tab, f)
      /\ Desc(tb, f) = Desc(tab, f) - Held(tab[t], f) + Held(q, f)
  <2>1. DescTrades(tab, t, q, f)
    BY <1>1, DescChange, Zenon
  <2> QED BY <2>1, Zenon DEF DescTrades
<1>4. Once(b)[f] \in Nat /\ Once(a)[f] \in Nat /\ Desc(tb, f) \in Nat
  BY OnceIs, DescType, Zenon
<1>5. Once(a)[f] <= Held(tab[t], f)
  <2>1. CASE f = a
    <3>1. Held(tab[t], f) > 0
      BY <1>1, <2>1, HeldSome, Zenon
    <3>2. Once(a)[f] = 1
      BY <2>1, OnceIs DEF OneOff
    <3> QED BY <1>3, <3>1, <3>2
  <2>2. CASE f # a
    <3>1. Once(a)[f] = 0
      BY <2>2, OnceIs DEF OneOff
    <3> QED BY <1>3, <3>1
  <2> QED BY <2>1, <2>2
<1>6. DescFun(tab)[f] = Desc(tab, f) /\ DescFun(tb)[f] = Desc(tb, f)
  BY DescFunType, Zenon
<1> HIDE DEF t, a, tb
<1>7. /\ DescFun(tb)[f] = DescFun(tab)[f] + Once(b)[f] - Once(a)[f]
      /\ Once(a)[f] <= DescFun(tab)[f]
  BY <1>2, <1>3, <1>4, <1>5, <1>6
<1> QED BY <1>3, <1>4, <1>6, <1>7, Zenon DEF t, a, tb, DescMoves

LEMMA NotNone ==
    ASSUME NEW f \in FileObjs
    PROVE  Once(None)[f] = 0
BY FdFacts DEF Once

LEMMA InstallRenames ==
    ASSUME NEW r, GoodTab(r), NEW f \in FileObjs, NEW cloexec \in BOOLEAN, fd_alloc(r) < MaxFds
    PROVE  /\ fd_alloc(r) \in Fds /\ r.file[fd_alloc(r)] = None
           /\ Renames(r, Install(r, fd_alloc(r), f, cloexec), fd_alloc(r), f)
BY InstallGood, SMTT(20) DEF Renames

LEMMA OpenFiles ==
    ASSUME TablesOK, FileRefs, NEW p \in Procs, NEW f \in FileObjs, NEW cloexec \in BOOLEAN,
           sys_open(p, f, cloexec)
    PROVE  FileRefs'
<1> DEFINE fd == fd_alloc(T(p))
           q == Install(T(p), fd, f, cloexec)
<1>1. /\ Live(p) /\ fd < MaxFds /\ f \notin fobj.open
      /\ tab' = Placed(tab, files[p], q)
      /\ fobj' = [count |-> [fobj.count EXCEPT ![f] = 1], open |-> fobj.open \cup {f}]
  BY Zenon DEF sys_open, SetT, Placed
<1>2. fd \in Fds /\ T(p).file[fd] = None /\ Renames(T(p), q, fd, f)
  <2>1. GoodTab(T(p))
    BY <1>1, LiveTable, Zenon DEF Live
  <2> QED BY <1>1, <2>1, InstallRenames, Zenon
<1>3. fobj \in ObjRec /\ Cov(fobj, DescFun(tab))
  BY FromOK, FileRefsCov, Zenon DEF RestOK
<1> HIDE DEF fd, q
<1>4. \A g \in FileObjs : DescFun(tab')[g] <= DescFun(tab)[g] + Once(f)[g]
  <2> SUFFICES ASSUME NEW g \in FileObjs PROVE DescFun(tab')[g] <= DescFun(tab)[g] + Once(f)[g]
    OBVIOUS
  <2>1. DescMoves(tab', None, f, g)
    BY <1>1, <1>2, DescStep, Zenon
  <2> QED BY <2>1, NotNone DEF DescMoves
<1>5. Cov(fobj', DescFun(tab'))
  BY <1>1, <1>3, <1>4, DescFunType, CovOpen, Zenon
<1> QED BY <1>5, FileRefsCov, Zenon

LEMMA CloseFiles ==
    ASSUME TablesOK, FileRefs, NEW p \in Procs, NEW fd \in Fds, sys_close(p, fd)
    PROVE  FileRefs'
<1> DEFINE q == Clear(T(p), {fd})
           a == T(p).file[fd]
<1>1. /\ Live(p) /\ tab' = Placed(tab, files[p], q)
      /\ fobj' = put_files(fobj, Once(a))
  BY Zenon DEF sys_close, SetT, Placed
<1>2. Renames(T(p), q, fd, None)
  <2>1. GoodTab(T(p)) /\ T(p) \in TabRec /\ {fd} \in SUBSET Fds
    BY <1>1, LiveTable, Zenon DEF Live
  <2>2. q.file = [g \in Fds |-> IF g \in {fd} THEN None ELSE T(p).file[g]]
    BY <2>1, ClearGood, Zenon
  <2>3. T(p).file \in [Fds -> FileObjs \cup {None}]
    BY <2>1, Zenon DEF TabRec
  <2> HIDE DEF q
  <2> QED BY <2>2, <2>3 DEF Renames
<1>3. fobj \in ObjRec /\ Cov(fobj, DescFun(tab))
  BY FromOK, FileRefsCov, Zenon DEF RestOK
<1> HIDE DEF q, a
<1>4. \A g \in FileObjs : DescFun(tab')[g] + Once(a)[g] <= DescFun(tab)[g]
  <2> SUFFICES ASSUME NEW g \in FileObjs PROVE DescFun(tab')[g] + Once(a)[g] <= DescFun(tab)[g]
    OBVIOUS
  <2>1. DescMoves(tab', a, None, g)
    BY <1>1, <1>2, DescStep, Zenon DEF a
  <2> QED BY <2>1, NotNone DEF DescMoves
<1>5. Cov(fobj', DescFun(tab'))
  BY <1>1, <1>3, <1>4, DescFunType, OnceType, CovPut, SMTT(20)
<1> QED BY <1>5, FileRefsCov, Zenon

\* A descriptor of p is one of the descriptors that name its file.
LEMMA NamedCounted ==
    ASSUME TablesOK, NEW p \in Procs, Live(p), NEW fd \in Fds, T(p).file[fd] \in FileObjs
    PROVE  DescFun(tab)[T(p).file[fd]] > 0
<1> DEFINE f == T(p).file[fd]
<1>1. files[p] \in Tables /\ T(p) = tab[files[p]] /\ tab \in [Tables -> TabRec]
  BY LiveTable, FromOK, Zenon DEF Live, T
<1>2. Held(T(p), f) > 0
  BY HeldSome, Zenon
<1> HIDE DEF f
<1>3. DescTrades(tab, files[p], T(p), f)
  BY <1>1, DescChange, Zenon
<1>4. DescFun(tab)[f] = Desc(tab, f)
  BY DescFunType, Zenon DEF f
<1>5. DescFun(tab)[f] > 0
  BY <1>1, <1>2, <1>3, <1>4 DEF DescTrades
<1> QED BY <1>5 DEF f

\* And so are two of them.
LEMMA TwiceCounted ==
    ASSUME TablesOK, NEW p \in Procs, Live(p), NEW fd \in Fds, NEW other \in Fds, fd # other,
           T(p).file[fd] \in FileObjs
    PROVE  Once(T(p).file[other])[T(p).file[fd]] < DescFun(tab)[T(p).file[fd]]
<1> DEFINE f == T(p).file[fd]
           a == T(p).file[other]
           q == [T(p) EXCEPT !.file[other] = None]
<1>1. /\ files[p] \in Tables /\ T(p) = tab[files[p]] /\ tab \in [Tables -> TabRec]
      /\ T(p) \in TabRec
  BY LiveTable, FromOK, Zenon DEF Live, T
<1>2. q.file = [T(p).file EXCEPT ![other] = None] /\ q.file[fd] = f
  BY <1>1, Zenon DEF TabRec
<1>3. Renames(T(p), q, other, None)
  BY <1>2, Zenon DEF Renames
<1> HIDE DEF q
<1>4. Held(q, f) > 0
  BY <1>2, HeldSome, Zenon
<1> HIDE DEF f
<1>5. HeldMoves(T(p), q, a, None, f)
  BY <1>1, <1>3, HeldChange, Zenon DEF f
<1>6. DescTrades(tab, files[p], q, f)
  BY <1>1, DescChange, Zenon
<1>7. DescFun(tab)[f] = Desc(tab, f) /\ Once(None)[f] = 0 /\ Once(a)[f] \in Nat
  BY DescFunType, NotNone, OnceIs, Zenon DEF f
<1> HIDE DEF a
<1>8. Once(a)[f] < DescFun(tab)[f]
  BY <1>1, <1>4, <1>5, <1>6, <1>7 DEF DescTrades, HeldMoves
<1> QED BY <1>8 DEF f, a

LEMMA DupFiles ==
    ASSUME TablesOK, FileRefs, NEW p \in Procs, NEW oldfd \in Fds, sys_dup(p, oldfd)
    PROVE  FileRefs'
<1> DEFINE f == T(p).file[oldfd]
           c == oldfd \in T(p).cloexec
           fd == fd_alloc(T(p))
           q == Install(T(p), fd, f, c)
<1>1. /\ Live(p) /\ fd < MaxFds /\ f # None
      /\ tab' = Placed(tab, files[p], q)
      /\ fobj' = get_files(fobj, Once(f))
  BY Zenon DEF sys_dup, SetT, Placed
<1>2. GoodTab(T(p))
  BY <1>1, LiveTable, Zenon DEF Live
<1>3. f \in FileObjs
  BY <1>1, <1>2, NamesFile, Zenon
<1>c. c \in BOOLEAN
  OBVIOUS
<1> HIDE DEF f, c
<1>4. fd \in Fds /\ T(p).file[fd] = None /\ Renames(T(p), q, fd, f)
  BY <1>1, <1>2, <1>3, <1>c, InstallRenames, Zenon
<1>5. fobj \in ObjRec /\ Cov(fobj, DescFun(tab))
  BY FromOK, FileRefsCov, Zenon DEF RestOK
<1> HIDE DEF fd, q
<1>6. \A g \in FileObjs : DescFun(tab')[g] <= DescFun(tab)[g] + Once(f)[g]
  <2> SUFFICES ASSUME NEW g \in FileObjs PROVE DescFun(tab')[g] <= DescFun(tab)[g] + Once(f)[g]
    OBVIOUS
  <2>1. DescMoves(tab', None, f, g)
    BY <1>1, <1>4, DescStep, Zenon
  <2> QED BY <2>1, NotNone DEF DescMoves
<1>7. \A g \in FileObjs : Once(f)[g] > 0 => DescFun(tab)[g] > 0
  <2>1. DescFun(tab)[f] > 0
    BY <1>1, <1>3, NamedCounted, Zenon DEF f
  <2>2. \A g \in FileObjs : Once(f)[g] > 0 => g = f
    BY DEF Once
  <2> QED BY <2>1, <2>2, Zenon
<1>8. Cov(fobj', DescFun(tab'))
  BY <1>1, <1>5, <1>6, <1>7, DescFunType, OnceType, CovGet, SMTT(20)
<1> QED BY <1>8, FileRefsCov, Zenon

\* dup2, in two steps: newfd is closed, and then names what oldfd names.
LEMMA Dup2Files ==
    ASSUME TablesOK, FileRefs, NEW p \in Procs, NEW oldfd \in Fds, NEW newfd \in Fds,
           sys_dup2(p, oldfd, newfd)
    PROVE  FileRefs'
<1> DEFINE f == T(p).file[oldfd]
           old == T(p).file[newfd]
           q == Redirected(T(p), oldfd, newfd)
           o == IF old = None THEN fobj ELSE put_files(fobj, Once(old))
           d == DescFun(tab)
           m == [g \in FileObjs |-> d[g] - Once(old)[g]]
<1>1. /\ Live(p) /\ f # None /\ oldfd # newfd /\ tab' = Placed(tab, files[p], q)
      /\ fobj' = get_files(o, Once(f))
  BY Zenon DEF sys_dup2, Redirected, SetT, Placed
<1>2. GoodTab(T(p)) /\ T(p) \in TabRec
  BY <1>1, LiveTable, Zenon DEF Live
<1>3. f \in FileObjs /\ Renames(T(p), q, newfd, f)
  <2>1. f \in FileObjs
    BY <1>1, <1>2, NamesFile, Zenon
  <2>2. q.file = [T(p).file EXCEPT ![newfd] = f]
    BY <1>1, <1>2, RedirectGood, SMTT(20)
  <2> QED BY <2>1, <2>2, Zenon DEF Renames
<1>4. fobj \in ObjRec /\ Cov(fobj, d) /\ d \in [FileObjs -> Nat]
  BY FromOK, FileRefsCov, DescFunType, Zenon DEF RestOK
<1> HIDE DEF f, q, d
<1>5. \A g \in FileObjs : DescMoves(tab', old, f, g)
  BY <1>1, <1>3, DescStep, Zenon
<1> HIDE DEF old
<1>6. \A g \in FileObjs : /\ m[g] \in Nat /\ m[g] = d[g] - Once(old)[g] /\ Once(old)[g] \in Nat
                          /\ m[g] + Once(old)[g] <= d[g] /\ DescFun(tab')[g] <= m[g] + Once(f)[g]
  BY <1>4, <1>5 DEF DescMoves, d
<1>7. m \in [FileObjs -> Nat]
  BY <1>6
<1>8. o \in ObjRec
  BY <1>4, OnceType, PutType, Zenon
<1>9. Cov(o, m)
  <2> HIDE DEF m
  <2>1. CASE old = None
    <3>1. \A g \in FileObjs : m[g] <= d[g]
      BY <1>4, <1>6
    <3> QED BY <1>4, <1>7, <2>1, <3>1, CovMonotone, Zenon
  <2>2. CASE old # None
    <3>1. \A g \in FileObjs : m[g] + Once(old)[g] <= d[g]
      BY <1>6, Zenon
    <3> QED BY <1>4, <1>7, <2>2, <3>1, OnceType, CovPut, SMTT(20)
  <2> QED BY <2>1, <2>2
<1>10. \A g \in FileObjs : Once(f)[g] > 0 => m[g] > 0
  <2>1. m[f] > 0
    <3>1. Once(old)[f] < d[f]
      BY <1>1, <1>2, <1>3, TwiceCounted DEF f, old, d
    <3> QED BY <1>3, <1>4, <1>6, <3>1, SMTT(30)
  <2>2. \A g \in FileObjs : Once(f)[g] > 0 => g = f
    BY DEF Once
  <2> QED BY <2>1, <2>2, Zenon
<1> HIDE DEF o, m
<1>11. \A g \in FileObjs : (Once(f)[g] > 0 => m[g] > 0) /\ DescFun(tab')[g] <= m[g] + Once(f)[g]
  BY <1>6, <1>10, Zenon
<1>12. Cov(fobj', DescFun(tab'))
  BY <1>1, <1>7, <1>8, <1>9, <1>11, DescFunType, OnceType, CovGet, SMTT(20)
<1> QED BY <1>12, FileRefsCov, Zenon

\* The table t is replaced by r: the files' descriptors before and after.
Replaced(t, r, f) ==
    /\ DescFun(tab')[f] = DescFun(tab)[f] - Held(tab[t], f) + Held(r, f)
    /\ DescFun(tab)[f] \in Nat /\ Held(tab[t], f) \in Nat /\ Held(r, f) \in Nat
    /\ Held(tab[t], f) <= DescFun(tab)[f]

LEMMA DescReplaced ==
    ASSUME TablesOK, NEW t \in Tables, NEW r, tab' = Placed(tab, t, r), NEW f \in FileObjs
    PROVE  Replaced(t, r, f)
<1>1. DescTrades(tab, t, r, f)
  BY FromOK, DescChange, Zenon
<1>2. DescFun(tab)[f] = Desc(tab, f) /\ DescFun(tab')[f] = Desc(tab', f)
  BY DescFunType, Zenon
<1> QED BY <1>1, <1>2, Zenon DEF DescTrades, Replaced

\* The descriptors of p are among those that name a file.
LEMMA HeldCounted ==
    ASSUME TablesOK, NEW p \in Procs, Live(p), NEW f \in FileObjs
    PROVE  Held(T(p), f) <= DescFun(tab)[f]
<1>1. files[p] \in Tables /\ T(p) = tab[files[p]] /\ tab \in [Tables -> TabRec]
  BY LiveTable, FromOK, Zenon DEF Live, T
<1>2. DescTrades(tab, files[p], T(p), f) /\ DescFun(tab)[f] = Desc(tab, f)
  BY <1>1, DescChange, DescFunType, Zenon
<1> QED BY <1>1, <1>2, Zenon DEF DescTrades

\* No more descriptors than before, and the files as they were.
LEMMA FilesFewer ==
    ASSUME TablesOK, FileRefs, NEW t \in Tables, NEW r, tab' = Placed(tab, t, r), fobj' = fobj,
           \A f \in FileObjs : Held(r, f) <= Held(tab[t], f)
    PROVE  FileRefs'
<1>1. fobj \in ObjRec /\ Cov(fobj, DescFun(tab))
  BY FromOK, FileRefsCov, Zenon DEF RestOK
<1>2. \A f \in FileObjs : DescFun(tab')[f] <= DescFun(tab)[f]
  <2> SUFFICES ASSUME NEW f \in FileObjs PROVE DescFun(tab')[f] <= DescFun(tab)[f]
    OBVIOUS
  <2>1. Replaced(t, r, f) /\ Held(r, f) <= Held(tab[t], f)
    BY DescReplaced, Zenon
  <2> QED BY <2>1 DEF Replaced
<1>3. Cov(fobj', DescFun(tab'))
  BY <1>1, <1>2, DescFunType, CovMonotone, Zenon
<1> QED BY <1>3, FileRefsCov, Zenon

LEMMA ExecveFiles ==
    ASSUME TablesOK, FileRefs, NEW p \in Procs, NEW s \in Spaces, do_execve(p, s)
    PROVE  FileRefs'
<1> DEFINE C == ClosedByExecve(p)
           t == files[p]
           q == Clear(T(p), C)
<1>1. Live(p) /\ tab' = Placed(tab, t, q) /\ fobj' = fobj
  BY Zenon DEF do_execve, SetT, Placed
<1>2. GoodTab(T(p)) /\ T(p) \in TabRec /\ t \in Tables /\ T(p) = tab[t]
  BY <1>1, LiveTable, Zenon DEF Live, T
<1>3. C \in SUBSET Fds
  BY <1>2, Zenon DEF ClosedByExecve, TabRec
<1> HIDE DEF C
<1>4. q.file = [fd \in Fds |-> IF fd \in C THEN None ELSE T(p).file[fd]]
  BY <1>2, <1>3, ClearGood, Zenon
<1> HIDE DEF q
<1>5. \A f \in FileObjs : \A fd \in Fds : q.file[fd] = f => tab[t].file[fd] = f
  BY <1>2, <1>4, FdFacts
<1>6. \A f \in FileObjs : Held(q, f) <= Held(tab[t], f)
  BY <1>5, HeldLess, Zenon
<1> QED BY <1>1, <1>2, <1>6, FilesFewer, Zenon

LEMMA ForkFiles ==
    ASSUME TablesOK, FileRefs, NEW p \in Procs, NEW c \in Procs, NEW flags, NEW t \in Tables, NEW s,
           do_fork(p, c, flags, t, s)
    PROVE  FileRefs'
<1>1. TableCopied(p, flags, t) /\ Live(p)
  BY CopyFiles, Zenon DEF do_fork
<1>2. GoodTab(T(p)) /\ files[p] \in Tables /\ T(p) = tab[files[p]] /\ T(p).refcount \in Nat
  BY <1>1, LiveTable, Zenon DEF Live, T
<1>3. CASE "FILES" \in flags
  <2>1. /\ t = files[p] /\ fobj' = fobj
        /\ tab' = Placed(tab, t, Recounted(tab[t], tab[t].refcount + 1))
    BY <1>1, <1>3, Zenon DEF TableCopied
  <2> DEFINE r == Recounted(tab[t], tab[t].refcount + 1)
  <2>2. tab[t].refcount + 1 \in Nat
    BY <1>2, <2>1
  <2>3. r.file = tab[t].file
    BY <1>2, <2>1, <2>2, RecountedGood, Zenon
  <2> HIDE DEF r
  <2>4. \A f \in FileObjs : Held(r, f) = Held(tab[t], f) /\ Held(tab[t], f) \in Nat
    BY <2>3, HeldSame, HeldType, Zenon
  <2>5. \A f \in FileObjs : Held(r, f) <= Held(tab[t], f)
    BY <2>4
  <2> QED BY <2>1, <2>5, FilesFewer, Zenon DEF r
<1>4. CASE "FILES" \notin flags
  <2> DEFINE r == Recounted(T(p), 1)
             n == HeldFun(T(p))
  <2>1. fobj' = get_files(fobj, n) /\ tab' = Placed(tab, t, r)
    BY <1>1, <1>4, Zenon DEF TableCopied
  <2>2. r.file = T(p).file
    BY <1>2, RecountedGood, Zenon
  <2> HIDE DEF r
  <2>3. n \in [FileObjs -> Nat] /\ \A f \in FileObjs : n[f] = Held(T(p), f)
    BY HeldFunType, Zenon
  <2> HIDE DEF n
  <2>4. fobj \in ObjRec /\ Cov(fobj, DescFun(tab))
    BY FromOK, FileRefsCov, Zenon DEF RestOK
  <2>5. \A f \in FileObjs : (n[f] > 0 => DescFun(tab)[f] > 0) /\ DescFun(tab')[f] <= DescFun(tab)[f] + n[f]
    <3> SUFFICES ASSUME NEW f \in FileObjs
                 PROVE  (n[f] > 0 => DescFun(tab)[f] > 0) /\ DescFun(tab')[f] <= DescFun(tab)[f] + n[f]
      OBVIOUS
    <3>1. Replaced(t, r, f) /\ Held(r, f) = n[f] /\ n[f] \in Nat
      BY <2>1, <2>2, <2>3, DescReplaced, HeldSame, Zenon
    <3>2. n[f] <= DescFun(tab)[f]
      BY <1>1, <2>3, HeldCounted, Zenon
    <3> QED BY <3>1, <3>2 DEF Replaced
  <2>6. Cov(fobj', DescFun(tab'))
    BY <2>1, <2>3, <2>4, <2>5, DescFunType, CovGet, SMTT(20)
  <2> QED BY <2>6, FileRefsCov, Zenon
<1> QED BY <1>3, <1>4

LEMMA NoTableHolds ==
    ASSUME NEW f \in FileObjs
    PROVE  Held(NoTable, f) = 0
<1>1. HeldSet(NoTable, f) = {}
  BY FdFacts DEF HeldSet, NoTable
<1> QED BY <1>1, HeldType, FS_EmptySet, Zenon

\* fork_fail: the copy of the table and its references are given back.
LEMMA ForkFailFiles ==
    ASSUME TablesOK, FileRefs, NEW p \in Procs, NEW flags, NEW t \in Tables, fork_fail(p, flags, t)
    PROVE  FileRefs'
<1>1. CASE tab' = tab /\ fobj' = fobj
  BY <1>1, FileRefsCov, Zenon
<1>2. CASE /\ tab' = Placed(tab, t, NoTable)
           /\ fobj' = put_files(get_files(fobj, HeldFun(T(p))), HeldFun(T(p)))
  <2> DEFINE n == HeldFun(T(p))
  <2>1. n \in [FileObjs -> Nat] /\ \A f \in FileObjs : n[f] = Held(T(p), f)
    BY HeldFunType, Zenon
  <2>2. fobj' = put_files(get_files(fobj, n), n)
    BY <1>2
  <2> HIDE DEF n
  <2>3. fobj \in ObjRec /\ Cov(fobj, DescFun(tab))
    BY FromOK, FileRefsCov, Zenon DEF RestOK
  <2>4. Live(p)
    BY Zenon DEF fork_fail
  <2>5. \A f \in FileObjs : n[f] <= DescFun(tab)[f] /\ DescFun(tab')[f] <= DescFun(tab)[f]
    <3> SUFFICES ASSUME NEW f \in FileObjs
                 PROVE  n[f] <= DescFun(tab)[f] /\ DescFun(tab')[f] <= DescFun(tab)[f]
      OBVIOUS
    <3>1. Replaced(t, NoTable, f) /\ Held(NoTable, f) = 0
      BY <1>2, DescReplaced, NoTableHolds, Zenon
    <3>2. n[f] <= DescFun(tab)[f]
      BY <2>1, <2>4, HeldCounted, Zenon
    <3> QED BY <3>1, <3>2 DEF Replaced
  <2>6. Cov(fobj', DescFun(tab'))
    BY <2>1, <2>2, <2>3, <2>5, DescFunType, CovGetPut, SMTT(20)
  <2> QED BY <2>6, FileRefsCov, Zenon
<1> QED BY <1>1, <1>2, ForkFailEffect, Zenon

\* process_destroy: the last user of a table gives back its references.
LEMMA DestroyFiles ==
    ASSUME TablesOK, FileRefs, NEW z \in Procs, process_destroy(z)
    PROVE  FileRefs'
<1> DEFINE t == files[z]
<1>1. /\ life[z] # "free"
      /\ tab' = fd_table_free(tab, fobj, t).tab /\ fobj' = fd_table_free(tab, fobj, t).obj
  BY Zenon DEF process_destroy
<1>2. t \in Tables /\ GoodTab(tab[t]) /\ tab[t].refcount \in Nat /\ tab[t].refcount > 0
  BY <1>1, LiveTable, Zenon DEF T
<1> HIDE DEF t
<1>3. CASE tab[t].refcount = 1
  <2> DEFINE n == HeldFun(tab[t])
  <2>1. tab' = Placed(tab, t, NoTable) /\ fobj' = put_files(fobj, n)
    BY <1>1, <1>3, FreeLast, Zenon
  <2>2. n \in [FileObjs -> Nat] /\ \A f \in FileObjs : n[f] = Held(tab[t], f)
    BY HeldFunType, Zenon
  <2> HIDE DEF n
  <2>3. fobj \in ObjRec /\ Cov(fobj, DescFun(tab))
    BY FromOK, FileRefsCov, Zenon DEF RestOK
  <2>4. \A f \in FileObjs : DescFun(tab')[f] + n[f] <= DescFun(tab)[f]
    <3> SUFFICES ASSUME NEW f \in FileObjs PROVE DescFun(tab')[f] + n[f] <= DescFun(tab)[f]
      OBVIOUS
    <3>1. Replaced(t, NoTable, f) /\ Held(NoTable, f) = 0 /\ n[f] = Held(tab[t], f)
      BY <1>2, <2>1, <2>2, DescReplaced, NoTableHolds, Zenon
    <3> QED BY <3>1 DEF Replaced
  <2>5. Cov(fobj', DescFun(tab'))
    BY <2>1, <2>2, <2>3, <2>4, DescFunType, CovPut, SMTT(20)
  <2> QED BY <2>5, FileRefsCov, Zenon
<1>4. CASE tab[t].refcount # 1
  <2> DEFINE r == Recounted(tab[t], tab[t].refcount - 1)
  <2>1. DropsOne(tab, fobj, t)
    BY <1>4, FreeShared, Zenon
  <2>2. tab' = Placed(tab, t, r) /\ fobj' = fobj
    BY <1>1, <2>1, Zenon DEF DropsOne
  <2>3. tab[t].refcount - 1 \in Nat
    BY <1>2
  <2>4. r.file = tab[t].file
    BY <1>2, <2>3, RecountedGood, Zenon
  <2> HIDE DEF r
  <2>5. \A f \in FileObjs : Held(r, f) = Held(tab[t], f) /\ Held(tab[t], f) \in Nat
    BY <2>4, HeldSame, HeldType, Zenon
  <2>6. \A f \in FileObjs : Held(r, f) <= Held(tab[t], f)
    BY <2>5
  <2> QED BY <1>2, <2>2, <2>6, FilesFewer, Zenon
<1> QED BY <1>3, <1>4

\* execve of a program with an interpreter that fails: the file that stays open has no
\* descriptor.
LEMMA ExecveFailFiles ==
    ASSUME TablesOK, FileRefs, NEW p \in Procs, NEW f \in FileObjs, execve_fail(p, f)
    PROVE  FileRefs'
<1>1. /\ f \notin fobj.open /\ tab' = tab
      /\ fobj' = [count |-> [fobj.count EXCEPT ![f] = 1], open |-> fobj.open \cup {f}]
  BY Zenon DEF execve_fail
<1>2. fobj \in ObjRec /\ Cov(fobj, DescFun(tab)) /\ DescFun(tab) \in [FileObjs -> Nat]
  BY FromOK, FileRefsCov, DescFunType, Zenon DEF RestOK
<1>3. \A g \in FileObjs : DescFun(tab')[g] <= DescFun(tab)[g] + Once(f)[g]
  <2> SUFFICES ASSUME NEW g \in FileObjs PROVE DescFun(tab')[g] <= DescFun(tab)[g] + Once(f)[g]
    OBVIOUS
  <2>1. DescFun(tab)[g] \in Nat /\ Once(f)[g] \in Nat /\ DescFun(tab')[g] = DescFun(tab)[g]
    BY <1>1, <1>2, OnceIs, Zenon
  <2> QED BY <2>1
<1>4. Cov(fobj', DescFun(tab'))
  BY <1>1, <1>2, <1>3, DescFunType, CovOpen, Zenon
<1> QED BY <1>4, FileRefsCov, Zenon

----------------------------------------------------------------------------
(* Each call keeps the counts of the address spaces.                       *)

\* The processes that run in the address space s.
Runners(s) == {p \in Procs : life[p] # "free" /\ mm[p] = s}

SpaceOK(s) == (Runners(s) # {} => s \in space.live)
              /\ (s \in space.live => space.ref[s] = Cardinality(Runners(s)))

LEMMA SpaceRefsOf ==
    /\ SpaceRefs <=> \A s \in Spaces : SpaceOK(s)
    /\ SpaceRefs' <=> \A s \in Spaces : SpaceOK(s)'
BY Zenon DEF SpaceRefs, SpaceOK, Runners

LEMMA RunnersFinite ==
    ASSUME NEW s
    PROVE  IsFiniteSet(Runners(s)) /\ Cardinality(Runners(s)) \in Nat
<1>1. Runners(s) \in SUBSET Procs
  BY Zenon DEF Runners
<1> QED BY <1>1, ProcResAssumption, FS_Subset, FS_CardinalityType, Zenon

\* No process comes or goes, or changes its memory.
LEMMA SpacesKept ==
    ASSUME SpaceRefs, UNCHANGED <<mm, space>>,
           \A p \in Procs : life'[p] = "free" <=> life[p] = "free"
    PROVE  SpaceRefs'
<1>1. \A s : Runners(s)' = Runners(s)
  BY DEF Runners
<1>2. \A s \in Spaces : SpaceOK(s)'
  BY <1>1, SpaceRefsOf, Zenon DEF SpaceOK
<1> QED BY <1>2, SpaceRefsOf, Zenon

\* A process runs in an address space that exists.
LEMMA RunsSomewhere ==
    ASSUME TablesOK, SpaceRefs, NEW p \in Procs, life[p] # "free"
    PROVE  /\ mm[p] \in Spaces /\ mm[p] \in space.live /\ p \in Runners(mm[p])
           /\ space.ref[mm[p]] = Cardinality(Runners(mm[p]))
<1>1. mm[p] \in Spaces
  BY LiveTable, Zenon
<1>2. p \in Runners(mm[p])
  BY DEF Runners
<1>3. SpaceOK(mm[p])
  BY <1>1, SpaceRefsOf, Zenon
<1> QED BY <1>1, <1>2, <1>3, Zenon DEF SpaceOK

LEMMA ForkSpaces ==
    ASSUME TablesOK, SpaceRefs, NEW p \in Procs, NEW c \in Procs, NEW flags, NEW t \in Tables,
           NEW s \in Spaces, do_fork(p, c, flags, t, s)
    PROVE  SpaceRefs'
<1>1. /\ life[p] # "free" /\ life[c] = "free" /\ life' = [life EXCEPT ![c] = "live"]
      /\ mm' = [mm EXCEPT ![c] = s]
  BY Zenon DEF do_fork, Live
<1>2. /\ life \in [Procs -> {"free", "live", "zombie"}] /\ mm \in [Procs -> Spaces \cup {None}]
      /\ space \in SpaceRec
  BY FromOK, Zenon DEF RestOK, SpaceRec
<1>3. \A u : Runners(u)' = (IF u = s THEN Runners(u) \cup {c} ELSE Runners(u)) /\ c \notin Runners(u)
  BY <1>1, <1>2 DEF Runners
<1>4. \A u : Cardinality(Runners(u) \cup {c}) = Cardinality(Runners(u)) + 1
  BY <1>3, RunnersFinite, FS_AddElement, Zenon
<1>5. \A u \in Spaces : SpaceOK(u)
  BY SpaceRefsOf, Zenon
<1>6. CASE "VM" \in flags
  <2>1. s = mm[p]
    BY <1>6, Zenon DEF do_fork
  <2>2. s \in space.live
    BY <1>1, <2>1, RunsSomewhere, Zenon
  <2>3. space' = Joined(space, s)
    BY <1>6, <2>2, Zenon DEF do_fork, Joined
  <2>4. space'.live = space.live /\ space'.ref = [space.ref EXCEPT ![s] = space.ref[s] + 1]
    BY <1>2, <2>3, Zenon DEF Joined, SpaceRec
  <2>5. space.ref \in [Spaces -> Nat]
    BY <1>2, Zenon DEF SpaceRec
  <2>6. space'.ref[s] = space.ref[s] + 1 /\ \A u \in Spaces : u # s => space'.ref[u] = space.ref[u]
    BY <2>4, <2>5, Zenon
  <2>7. SpaceOK(s)'
    BY <1>3, <1>4, <1>5, <2>2, <2>4, <2>6, Zenon DEF SpaceOK
  <2>8. \A u \in Spaces : u # s => SpaceOK(u)'
    BY <1>3, <1>5, <2>4, <2>6, Zenon DEF SpaceOK
  <2> QED BY <2>7, <2>8, SpaceRefsOf, Zenon
<1>7. CASE "VM" \notin flags
  <2>1. s \notin space.live /\ space' = NewSpace(space, s)
    BY <1>7, Zenon DEF do_fork
  <2>2. space'.live = space.live \cup {s} /\ space'.ref = [space.ref EXCEPT ![s] = 1]
    BY <2>1 DEF NewSpace
  <2>3. space.ref \in [Spaces -> Nat]
    BY <1>2, Zenon DEF SpaceRec
  <2>4. space'.ref[s] = 1 /\ \A u \in Spaces : u # s => space'.ref[u] = space.ref[u]
    BY <2>2, <2>3, Zenon
  <2>5. Runners(s) = {}
    BY <1>5, <2>1, Zenon DEF SpaceOK
  <2>6. Cardinality({c}) = 1 /\ Runners(s)' = {c}
    BY <1>3, <2>5, FS_Singleton, Zenon
  <2>7. SpaceOK(s)'
    BY <2>2, <2>4, <2>6, Zenon DEF SpaceOK
  <2>8. \A u \in Spaces : u # s => SpaceOK(u)'
    BY <1>3, <1>5, <2>2, <2>4, Zenon DEF SpaceOK
  <2> QED BY <2>7, <2>8, SpaceRefsOf, Zenon
<1> QED BY <1>6, <1>7

LEMMA DestroySpaces ==
    ASSUME TablesOK, SpaceRefs, NEW z \in Procs, process_destroy(z)
    PROVE  SpaceRefs'
<1>0. PICK s : s = mm[z]
  OBVIOUS
<1>1. /\ life[z] # "free" /\ life' = [life EXCEPT ![z] = "free"]
      /\ mm' = [mm EXCEPT ![z] = None] /\ space' = DropSpace(space, s)
  BY <1>0, Zenon DEF process_destroy
<1>2. /\ life \in [Procs -> {"free", "live", "zombie"}] /\ mm \in [Procs -> Spaces \cup {None}]
      /\ space \in SpaceRec
  BY FromOK, Zenon DEF RestOK, SpaceRec
<1>3. s \in Spaces /\ s \in space.live /\ z \in Runners(s) /\ space.ref[s] = Cardinality(Runners(s))
  BY <1>0, <1>1, RunsSomewhere, Zenon
<1>4. Runners(s)' = Runners(s) \ {z} /\ \A u \in Spaces : u # s => Runners(u)' = Runners(u)
  <2>1. \A q \in Procs : q # z => life'[q] = life[q] /\ mm'[q] = mm[q]
    BY <1>1, <1>2, Zenon
  <2>2. life'[z] = "free"
    BY <1>1, <1>2, Zenon
  <2> QED BY <1>0, <2>1, <2>2 DEF Runners
<1>5. Cardinality(Runners(s) \ {z}) = Cardinality(Runners(s)) - 1 /\ IsFiniteSet(Runners(s) \ {z})
  BY <1>3, RunnersFinite, FS_RemoveElement, Zenon
<1>6. \A u \in Spaces : SpaceOK(u)
  BY SpaceRefsOf, Zenon
<1>7. space.ref \in [Spaces -> Nat]
  BY <1>2, Zenon DEF SpaceRec
<1>8. CASE space.ref[s] = 1
  <2>1. space'.live = space.live \ {s} /\ space'.ref = [space.ref EXCEPT ![s] = 0]
    BY <1>1, <1>8 DEF DropSpace, NoSpace
  <2>2. \A u \in Spaces : u # s => space'.ref[u] = space.ref[u]
    BY <1>7, <2>1, Zenon
  <2>3. Cardinality(Runners(s) \ {z}) = 0
    BY <1>3, <1>5, <1>8
  <2>4. Runners(s)' = {}
    BY <1>4, <1>5, <2>3, FS_EmptySet, Zenon
  <2>5. SpaceOK(s)'
    BY <2>1, <2>4, Zenon DEF SpaceOK
  <2>6. \A u \in Spaces : u # s => SpaceOK(u)'
    BY <1>4, <1>6, <2>1, <2>2, Zenon DEF SpaceOK
  <2> QED BY <2>5, <2>6, SpaceRefsOf, Zenon
<1>9. CASE space.ref[s] # 1
  <2>1. space' = [space EXCEPT !.ref[s] = @ - 1]
    BY <1>1, <1>3, <1>9, Zenon DEF DropSpace
  <2>2. space'.live = space.live /\ space'.ref = [space.ref EXCEPT ![s] = space.ref[s] - 1]
    BY <1>2, <2>1, Zenon DEF SpaceRec
  <2>3. space'.ref[s] = space.ref[s] - 1 /\ \A u \in Spaces : u # s => space'.ref[u] = space.ref[u]
    BY <1>3, <1>7, <2>2, Zenon
  <2>4. SpaceOK(s)'
    BY <1>3, <1>4, <1>5, <2>2, <2>3, Zenon DEF SpaceOK
  <2>5. \A u \in Spaces : u # s => SpaceOK(u)'
    BY <1>4, <1>6, <2>2, <2>3, Zenon DEF SpaceOK
  <2> QED BY <2>4, <2>5, SpaceRefsOf, Zenon
<1> QED BY <1>8, <1>9

\* execve where no program executes while it shares its memory: the address space that is
\* destroyed had no other user.
LEMMA ExecveSpaces ==
    ASSUME TablesOK, SpaceRefs, NEW p \in Procs, NEW s \in Spaces, do_execve(p, s),
           "threads" \notin Syscalls
    PROVE  SpaceRefs'
<1>0. PICK o : o = mm[p]
  OBVIOUS
<1>1. /\ life[p] # "free" /\ life' = life /\ s \notin space.live /\ ~(space.ref[o] > 1)
      /\ mm' = [mm EXCEPT ![p] = s] /\ space' = NewSpace(NoSpace(space, o), s)
  BY <1>0, Zenon DEF do_execve, Live
<1>2. /\ mm \in [Procs -> Spaces \cup {None}] /\ space \in SpaceRec
  BY FromOK, Zenon DEF RestOK, SpaceRec
<1>3. o \in Spaces /\ o \in space.live /\ p \in Runners(o) /\ space.ref[o] = Cardinality(Runners(o))
  BY <1>0, <1>1, RunsSomewhere, Zenon
<1>4. /\ Runners(o)' = Runners(o) \ {p} /\ Runners(s)' = Runners(s) \cup {p} /\ o # s
      /\ \A u \in Spaces : u # s /\ u # o => Runners(u)' = Runners(u)
  <2>1. o # s /\ mm'[p] = s /\ \A q \in Procs : q # p => mm'[q] = mm[q]
    BY <1>1, <1>2, <1>3, Zenon
  <2> QED BY <1>0, <1>1, <2>1, Zenon DEF Runners
<1>5. Cardinality(Runners(o) \ {p}) = Cardinality(Runners(o)) - 1 /\ IsFiniteSet(Runners(o) \ {p})
  BY <1>3, RunnersFinite, FS_RemoveElement, Zenon
<1>6. \A u \in Spaces : SpaceOK(u)
  BY SpaceRefsOf, Zenon
<1>7. space.ref \in [Spaces -> Nat]
  BY <1>2, Zenon DEF SpaceRec
<1>8. /\ space'.live = (space.live \ {o}) \cup {s}
      /\ space'.ref = [[space.ref EXCEPT ![o] = 0] EXCEPT ![s] = 1]
  BY <1>1 DEF NewSpace, NoSpace
<1>9. space'.ref[s] = 1 /\ \A u \in Spaces : u # s /\ u # o => space'.ref[u] = space.ref[u]
  BY <1>7, <1>8
<1>10. Runners(o)' = {}
  <2>1. Cardinality(Runners(o) \ {p}) \in Nat
    BY <1>5, FS_CardinalityType, Zenon
  <2>2. Cardinality(Runners(o) \ {p}) = 0
    BY <1>1, <1>3, <1>5, <2>1, RunnersFinite
  <2> QED BY <1>4, <1>5, <2>2, FS_EmptySet, Zenon
<1>11. Runners(s)' = {p} /\ Cardinality({p}) = 1
  <2>1. Runners(s) = {}
    BY <1>1, <1>6, Zenon DEF SpaceOK
  <2> QED BY <1>4, <2>1, FS_Singleton, Zenon
<1>12. SpaceOK(o)'
  BY <1>4, <1>8, <1>10 DEF SpaceOK
<1>13. SpaceOK(s)'
  BY <1>8, <1>9, <1>11 DEF SpaceOK
<1>14. \A u \in Spaces : u # s /\ u # o => SpaceOK(u)'
  BY <1>4, <1>6, <1>8, <1>9, Zenon DEF SpaceOK
<1> QED BY <1>12, <1>13, <1>14, SpaceRefsOf, Zenon

----------------------------------------------------------------------------
(* The counts, for programs that call no ioctl and do not execute another  *)
(* program while they share their memory.                                  *)

LEMMA InitCounts == ResInit => CountsOK
<1> SUFFICES ASSUME ResInit PROVE CountsOK
  OBVIOUS
<1>1. PICK t \in Tables, s \in Spaces :
        /\ life = [p \in Procs |-> IF p = InitProc THEN "live" ELSE "free"]
        /\ tab = [u \in Tables |-> IF u = t THEN Recounted(NoTable, 1) ELSE NoTable]
        /\ fobj = [count |-> [f \in FileObjs |-> 0], open |-> {}]
        /\ mm = [p \in Procs |-> IF p = InitProc THEN s ELSE None]
        /\ space = [ref |-> [u \in Spaces |-> IF u = s THEN 1 ELSE 0], live |-> {s}]
  BY Zenon DEF ResInit, Recounted
<1>2. FileRefs
  <2>1. Recounted(NoTable, 1).file = NoTable.file
    BY NoTableGood, RecountedGood, Zenon
  <2>2. \A u \in Tables : tab[u].file = NoTable.file
    BY <1>1, <2>1
  <2>3. \A u \in Tables, fd \in Fds : tab[u].file[fd] = None
    BY <2>2 DEF NoTable
  <2>4. \A f \in FileObjs : Descriptors(f) = {}
    BY <2>3, FdFacts, Zenon DEF Descriptors
  <2>5. fobj.open = {}
    BY <1>1
  <2> QED BY <2>4, <2>5, Zenon DEF FileRefs
<1>3. SpaceRefs
  <2>1. \A u \in Spaces : Runners(u) = IF u = s THEN {InitProc} ELSE {}
    BY <1>1, ProcResAssumption DEF Runners
  <2>2. Cardinality({InitProc}) = 1
    BY FS_Singleton, Zenon
  <2>3. space.live = {s} /\ space.ref[s] = 1
    BY <1>1
  <2>4. \A u \in Spaces : SpaceOK(u)
    BY <2>1, <2>2, <2>3 DEF SpaceOK
  <2> QED BY <2>4, SpaceRefsOf, Zenon
<1> QED BY <1>2, <1>3 DEF CountsOK

LEMMA NextFiles ==
    ASSUME TablesOK, FileRefs, [ResNext]_resvars, "ioctl" \notin Syscalls
    PROVE  FileRefs'
<1>1. CASE UNCHANGED <<tab, fobj>>
  BY <1>1, FileRefsCov, Zenon
<1>2. ASSUME NEW p \in Procs, NEW f \in FileObjs, NEW cloexec \in BOOLEAN, sys_open(p, f, cloexec)
      PROVE  FileRefs'
  BY <1>2, OpenFiles, Zenon
<1>3. ASSUME NEW p \in Procs, NEW fd \in Fds, sys_close(p, fd) \/ sys_dup(p, fd)
      PROVE  FileRefs'
  BY <1>3, CloseFiles, DupFiles, Zenon
<1>4. ASSUME NEW p \in Procs, NEW oldfd \in Fds, NEW newfd \in Fds, sys_dup2(p, oldfd, newfd)
      PROVE  FileRefs'
  BY <1>4, Dup2Files, Zenon
<1>5. ASSUME NEW p \in Procs, do_exit(p)
      PROVE  FileRefs'
  BY <1>1, <1>5, Zenon DEF do_exit
<1>6. ASSUME NEW p \in Procs, NEW c \in Procs, NEW flags, NEW t \in Tables, NEW s \in Spaces,
             do_fork(p, c, flags, t, s)
      PROVE  FileRefs'
  BY <1>6, ForkFiles, Zenon
<1>7. ASSUME NEW p \in Procs, NEW flags, NEW t \in Tables, fork_fail(p, flags, t)
      PROVE  FileRefs'
  BY <1>7, ForkFailFiles, Zenon
<1>8. ASSUME NEW z \in Procs, process_destroy(z)
      PROVE  FileRefs'
  BY <1>8, DestroyFiles, Zenon
<1>9. ASSUME NEW p \in Procs, NEW s \in Spaces, do_execve(p, s)
      PROVE  FileRefs'
  BY <1>9, ExecveFiles, Zenon
<1>10. ASSUME NEW p \in Procs, NEW f \in FileObjs, execve_fail(p, f)
      PROVE  FileRefs'
  BY <1>10, ExecveFailFiles, Zenon
<1>11. \A p, fd : ~sys_ioctl(p, fd)
  BY Zenon DEF sys_ioctl
<1>12. CASE UNCHANGED resvars
  BY <1>1, <1>12, Zenon DEF resvars
<1> QED BY <1>2, <1>3, <1>4, <1>5, <1>6, <1>7, <1>8, <1>9, <1>10, <1>11, <1>12, Zenon DEF ResNext

LEMMA NextSpaces ==
    ASSUME TablesOK, SpaceRefs, [ResNext]_resvars, "threads" \notin Syscalls
    PROVE  SpaceRefs'
<1>1. CASE UNCHANGED <<life, mm, space>>
  BY <1>1, SpacesKept, Zenon
<1>2. ASSUME NEW p \in Procs, NEW c \in Procs, NEW flags, NEW t \in Tables, NEW s \in Spaces,
             do_fork(p, c, flags, t, s)
      PROVE  SpaceRefs'
  BY <1>2, ForkSpaces, Zenon
<1>3. ASSUME NEW p \in Procs, do_exit(p)
      PROVE  SpaceRefs'
  <2>1. life \in [Procs -> {"free", "live", "zombie"}]
    BY FromOK, Zenon DEF RestOK
  <2>2. \A q \in Procs : life'[q] = "free" <=> life[q] = "free"
    BY <1>3, <2>1 DEF do_exit, Live
  <2> QED BY <1>3, <2>2, SpacesKept, Zenon DEF do_exit
<1>4. ASSUME NEW z \in Procs, process_destroy(z)
      PROVE  SpaceRefs'
  BY <1>4, DestroySpaces, Zenon
<1>5. ASSUME NEW p \in Procs, NEW s \in Spaces, do_execve(p, s)
      PROVE  SpaceRefs'
  BY <1>5, ExecveSpaces, Zenon
<1>6. CASE \/ UNCHANGED resvars
           \/ \E p \in Procs, f \in FileObjs, cloexec \in BOOLEAN : sys_open(p, f, cloexec)
           \/ \E p \in Procs, fd \in Fds : sys_close(p, fd) \/ sys_dup(p, fd) \/ sys_ioctl(p, fd)
           \/ \E p \in Procs, oldfd, newfd \in Fds : sys_dup2(p, oldfd, newfd)
           \/ \E p \in Procs, flags \in CloneFlags, t \in Tables : fork_fail(p, flags, t)
           \/ \E p \in Procs, f \in FileObjs : execve_fail(p, f)
  <2>1. UNCHANGED <<life, mm, space>>
    BY <1>6, Zenon DEF resvars, sys_open, sys_close, sys_dup, sys_ioctl, sys_dup2, fork_fail, execve_fail
  <2> QED BY <1>1, <2>1
<1> QED BY <1>2, <1>3, <1>4, <1>5, <1>6, Zenon DEF ResNext

\* For programs that call no ioctl (whose put_file has no get_file before it) and do not
\* execute another program while they share their memory: the count of an open file
\* covers every descriptor that names it through dup, dup2, fork, clone, execve and their
\* failures, and the count of an address space is the number of the processes in it, so
\* that neither is freed while it is in use.
THEOREM CountsSafe ==
    ASSUME "ioctl" \notin Syscalls, "threads" \notin Syscalls
    PROVE  ResSpec => []CountsOK
<1>1. ResInit => TablesOK /\ CountsOK
  BY InitTables, InitCounts
<1>2. TablesOK /\ CountsOK /\ [ResNext]_resvars => TablesOK' /\ CountsOK'
  <2> SUFFICES ASSUME TablesOK, CountsOK, [ResNext]_resvars PROVE TablesOK' /\ CountsOK'
    OBVIOUS
  <2>1. FileRefs /\ SpaceRefs
    BY DEF CountsOK
  <2>2. FileRefs' /\ SpaceRefs' /\ TablesOK'
    BY <2>1, NextTables, NextFiles, NextSpaces, Zenon
  <2> QED BY <2>2 DEF CountsOK
<1> QED BY <1>1, <1>2, PTL DEF ResSpec

=============================================================================
