-------------------------------- MODULE Vfs --------------------------------
(* The name space of the kernel: the tree of dentries with their reference *)
(* counts (dentry.c, inode.c), path lookup, mounts, open files and the     *)
(* operations on directories (vfs.c), with AxiomFS and devfs below.        *)
(*                                                                         *)
(* The system call gate keeps interrupts off, so an operation is one step. *)
(* A file system state S is a record that the operators take and return:   *)
(* every dget, dput, ihold and iput of the code changes a count in it.     *)
(* File contents are in AxiomFile.                                         *)
EXTENDS Integers, FiniteSets, SequencesExt

CONSTANTS
    Dentries,   \* what dentry_cache and inode_cache can hold, numbered
    Names,      \* names of directory entries
    Devices,    \* those of them that device_list of devfs has
    Paths,      \* the paths that are passed to system calls
    MaxInodes,  \* MAX_INODES of AxiomFS
    MaxMounts,  \* MAX_MOUNTS
    MaxLost,    \* bound of the model: references that failed mounts leak
    Callers,      \* fsuids; 0 is root
    Modes,      \* what a new object lets others do
    FileIds     \* file structs of file_cache

ASSUME VfsAssumption ==
    /\ Dentries \subseteq Nat \ {0} /\ Devices \subseteq Names
    /\ \A p \in Paths : Range(p) \subseteq Names \cup {".."}
    /\ \A m \in Modes : m \subseteq {"r", "w", "x"}

VARIABLES
    fs,     \* dentries, inodes, the mount table and the live superblocks
    filp,  \* the dentry each open file refers to
    cwd     \* the working directory of the process

vfsvars == <<fs, filp, cwd>>

Absent == 0
Unused == [in_use |-> FALSE]

Dentry(n, p) == [in_use |-> TRUE, d_name |-> n, d_parent |-> p, d_inode |-> Absent, d_count |-> 1,
                 d_subdirs |-> <<>>, removed |-> FALSE]
Inode(t, k, u, m, no) == [in_use |-> TRUE, type |-> t, kind |-> k, i_uid |-> u, others |-> m, i_ino |-> no,
                          i_nlink |-> IF k = "dir" THEN 2 ELSE 1, i_count |-> 1]

InUse(pool) == {x \in Dentries : pool[x].in_use}
Spare(pool) == Dentries \ InUse(pool)

-----------------------------------------------------------------------------
(* Reference counts.                                                       *)

dget(S, d) == [S EXCEPT !.dentry[d].d_count = @ + 1]

\* The last iput of an unlinked AxiomFS inode also frees its number.
iput(S, i) == IF i = Absent THEN S
              ELSE IF S.inode[i].i_count > 1 THEN [S EXCEPT !.inode[i].i_count = @ - 1]
              ELSE [S EXCEPT !.inode[i] = Unused,
                             !.numbers = IF S.inode[i].i_nlink = 0 THEN @ \ {S.inode[i].i_ino} ELSE @]

list_del(S, d) == [S EXCEPT !.dentry[S.dentry[d].d_parent].d_subdirs = Remove(@, d)]

RECURSIVE dput(_, _)

dput(S, d) ==
    LET up == S.dentry[d].d_parent
        parted == IF up = d THEN S ELSE dput(list_del(S, d), up)
    IN  IF S.dentry[d].d_count > 1 THEN [S EXCEPT !.dentry[d].d_count = @ - 1]
        ELSE [iput(parted, S.dentry[d].d_inode) EXCEPT !.dentry[d] = Unused]

\* The new dentry is S.new; Absent when the cache is out of memory.
dentry_alloc(S, p, n) ==
    IF Spare(S.dentry) = {} THEN [S EXCEPT !.new = Absent]
    ELSE LET d == Min(Spare(S.dentry))
             T == [S EXCEPT !.dentry[d] = Dentry(n, p), !.new = d]
         IN  IF p = d THEN T ELSE [dget(T, p) EXCEPT !.dentry[p].d_subdirs = <<d>> \o @]

d_instantiate(S, d, ino) ==
    LET i == Min(Spare(S.inode))
    IN  [S EXCEPT !.inode[i] = ino, !.dentry[d].d_inode = i]

-----------------------------------------------------------------------------
(* Permissions and path lookup. A lookup returns S with the dentry found,  *)
(* with a reference for the caller, in S.at; Absent when there is none.    *)

NodeOf(S, d) == S.inode[S.dentry[d].d_inode]
IsDir(S, d) == NodeOf(S, d).kind = "dir"

generic_permission(S, u, d, mask) ==
    u = 0 \/ u = NodeOf(S, d).i_uid \/ mask \subseteq NodeOf(S, d).others

Failed(S) == [S EXCEPT !.at = Absent]
Found(S, d) == [dget(S, d) EXCEPT !.at = d]

\* devfs makes a dentry and an inode for a device that is looked up; AxiomFS finds
\* nothing that the list of children does not have already.  The new dentry is S.new.
fs_lookup(S, p, n) ==
    IF NodeOf(S, p).type = "devfs" /\ n \in Devices
    THEN [d_instantiate(S, S.new, Inode("devfs", "dev", 0, {"r", "w"}, 0)) EXCEPT !.at = S.new]
    ELSE Failed(dput(S, S.new))

lookup_one(S, p, n) ==
    LET kids == {d \in Range(S.dentry[p].d_subdirs) : S.dentry[d].d_name = n /\ S.dentry[d].d_inode # Absent}
    IN  IF n = ".." THEN Found(S, S.dentry[p].d_parent)
        ELSE IF kids # {} THEN Found(S, CHOOSE d \in kids : TRUE)
        ELSE IF Spare(S.dentry) = {} THEN Failed(S)
        ELSE fs_lookup(dentry_alloc(S, p, n), p, n)

\* Mutant: the reference on the covered directory is not given back.
FollowKeepsRef(S, d) ==
    LET here == SelectInSeq(S.mounts, LAMBDA m : m.mountpoint = d)
    IN  IF here = 0 THEN [S EXCEPT !.at = d] ELSE Found(S, S.mounts[here].root)

RECURSIVE vfs_follow_mounts(_, _)

vfs_follow_mounts(S, d) ==
    LET here == SelectInSeq(S.mounts, LAMBDA m : m.mountpoint = d)
    IN  IF here = 0 THEN [S EXCEPT !.at = d]
        ELSE LET r == S.mounts[here].root IN vfs_follow_mounts(dput(dget(S, r), d), r)

Crossed(S, follow) == IF S.at = Absent \/ ~follow THEN S ELSE vfs_follow_mounts(S, S.at)

Step(S, u, n, follow) ==
    IF S.at = Absent THEN S
    ELSE IF ~IsDir(S, S.at) \/ ~generic_permission(S, u, S.at, {"x"}) THEN Failed(dput(S, S.at))
    ELSE Crossed(dput(lookup_one(S, S.at, n), S.at), follow)

vfs_lookup_at(S, u, path, follow) ==
    FoldLeft(LAMBDA T, n : Step(T, u, n, follow), Found(S, S.mounts[1].root), path)

vfs_lookup(S, u, path) == vfs_lookup_at(S, u, path, TRUE)

-----------------------------------------------------------------------------
(* Operations on directories. denied: the policy engine says no.           *)

\* axiomfs_new_inode takes the lowest free number; 0 when there is none.
Number(S) == LET free == (2 .. MaxInodes - 1) \ S.numbers IN IF free = {} THEN 0 ELSE Min(free)

\* axiomfs_create and axiomfs_mkdir for S.new under p.
Populate(S, u, p, kind, mode) ==
    LET no == Number(S)
        T == d_instantiate(S, S.new, Inode("axiomfs", kind, u, mode, no))
        up == S.dentry[p].d_inode
    IN  [T EXCEPT !.numbers = @ \cup {no},
                  !.inode[up].i_nlink = IF kind = "dir" THEN @ + 1 ELSE @]

Filled(S, u, p, kind, mode, denied) ==
    IF denied \/ Number(S) = 0 THEN dput(S, S.new) ELSE Populate(S, u, p, kind, mode)

\* S.at is the directory that is to have the name.
MakeIn(S, u, n, kind, mode, denied) ==
    IF S.at = Absent THEN S
    ELSE IF \/ ~IsDir(S, S.at) \/ ~generic_permission(S, u, S.at, {"w", "x"})
            \/ NodeOf(S, S.at).type # "axiomfs" \/ Spare(S.dentry) = {}
         THEN dput(S, S.at)
         ELSE dput(Filled(dentry_alloc(S, S.at, n), u, S.at, kind, mode, denied), S.at)

\* S.at is what has the name already.
MakeNew(S, u, path, kind, mode, denied) ==
    IF S.at # Absent THEN dput(S, S.at)
    ELSE MakeIn(vfs_lookup(S, u, Front(path)), u, Last(path), kind, mode, denied)

\* vfs_create and vfs_mkdir.
Make(S, u, path, kind, mode, denied) == MakeNew(vfs_lookup(S, u, path), u, path, kind, mode, denied)

vfs_is_mountpoint(S, d) ==
    S.mounts[1].root = d \/ \E m \in Range(S.mounts) : m.mountpoint = d

\* What vfs_rmdir and vfs_unlink do once d is found.  dir is d's parent, or d itself when
\* d is the root of a mounted file system: the lookup of a mount point leads there, and
\* vfs_is_mountpoint knows the directory that is covered only.  removed remembers that.
\* Neither gives back the reference that the creation of d left (i_nlink has 32 bits: -1
\* is 2^32 - 1).
Drop(S, u, d, nlinks, denied) ==
    LET dir == S.dentry[d].d_parent
        ok == generic_permission(S, u, dir, {"w", "x"}) /\ NodeOf(S, dir).type = "axiomfs" /\ ~denied
    IN  dput(IF ok THEN list_del([S EXCEPT !.inode = nlinks, !.dentry[d].removed = TRUE], d) ELSE S, d)

\* S.at is what the path names.
RmdirAt(S, u, denied) ==
    LET d == S.at
        emptied == [S.inode EXCEPT ![S.dentry[d].d_inode].i_nlink = 0]
    IN  IF d = Absent THEN S
        ELSE IF vfs_is_mountpoint(S, d) \/ ~IsDir(S, d) \/ S.dentry[d].d_subdirs # <<>> THEN dput(S, d)
        ELSE Drop(S, u, d, [emptied EXCEPT ![S.dentry[S.dentry[d].d_parent].d_inode].i_nlink = @ - 1], denied)

vfs_rmdir(S, u, path, denied) == RmdirAt(vfs_lookup(S, u, path), u, denied)

UnlinkAt(S, u, denied) ==
    LET d == S.at
    IN  IF d = Absent THEN S
        ELSE IF IsDir(S, d) THEN dput(S, d)
        ELSE Drop(S, u, d, [S.inode EXCEPT ![S.dentry[d].d_inode].i_nlink = @ - 1], denied)

vfs_unlink(S, u, path, denied) == UnlinkAt(vfs_lookup(S, u, path), u, denied)

-----------------------------------------------------------------------------
(* Mounts. Only root may mount (sys_mount, sys_umount2).                   *)

d_make_root(S, t) ==
    LET d == Min(Spare(S.dentry))
    IN  d_instantiate([S EXCEPT !.dentry[d] = Dentry("/", d), !.new = d], d, Inode(t, "dir", 0, {"r", "x"}, 1))

\* The mountpoint S.at keeps the reference of the lookup. When the file system cannot
\* be made, or the table is full, nobody will ever give it back.
MountAt(S, t) ==
    LET T == d_make_root(S, t)
    IN  IF S.at = Absent THEN S
        ELSE IF Spare(S.dentry) = {} THEN [S EXCEPT !.lost[S.at] = @ + 1]
        ELSE IF Len(S.mounts) < MaxMounts
             THEN [T EXCEPT !.supers = @ \cup {T.new},
                            !.mounts = Append(@, [root |-> T.new, mountpoint |-> S.at])]
             ELSE [T EXCEPT !.supers = @ \cup {T.new}, !.lost[S.at] = @ + 1]

vfs_mount(S, path, t) == MountAt(vfs_lookup(S, 0, path), t)

\* devfs_mount leaves s_type empty: such a file system is not unmounted.
UmountAt(S) ==
    LET i == SelectInSeq(S.mounts, LAMBDA m : m.mountpoint = S.at)
        r == S.mounts[i].root
        killed == [dput(S, r) EXCEPT !.supers = @ \ {r}]
        swapped == [S.mounts EXCEPT ![i] = Last(S.mounts)]
    IN  IF S.at = Absent THEN S
        ELSE IF i = 0 \/ NodeOf(S, r).type = "devfs" THEN dput(S, S.at)
        ELSE dput(dput([killed EXCEPT !.mounts = Front(swapped)], S.at), S.at)

vfs_umount(S, path) == UmountAt(vfs_lookup_at(S, 0, path, FALSE))

-----------------------------------------------------------------------------

Quiet(S) == [S EXCEPT !.new = Absent, !.at = Absent]

VfsInit ==
    LET blank == [dentry |-> [d \in Dentries |-> Unused], inode |-> [d \in Dentries |-> Unused], numbers |-> {},
                  mounts |-> <<>>, supers |-> {}, lost |-> [d \in Dentries |-> 0], new |-> Absent, at |-> Absent]
        T == d_make_root(blank, "axiomfs")
    IN  /\ fs = Quiet([T EXCEPT !.supers = {T.new}, !.mounts = <<[root |-> T.new, mountpoint |-> Absent]>>])
        /\ filp = [f \in FileIds |-> Absent]
        /\ cwd = Absent

make(u, p, k, m, denied) == fs' = Quiet(Make(fs, u, p, k, m, denied)) /\ UNCHANGED <<filp, cwd>>
remove(u, p, denied) ==
    /\ fs' \in {Quiet(vfs_rmdir(fs, u, p, denied)), Quiet(vfs_unlink(fs, u, p, denied))}
    /\ UNCHANGED <<filp, cwd>>
mount(p, t) == SumFunction(fs.lost) < MaxLost /\ fs' = Quiet(vfs_mount(fs, p, t)) /\ UNCHANGED <<filp, cwd>>
umount(p) == fs' = Quiet(vfs_umount(fs, p)) /\ UNCHANGED <<filp, cwd>>

\* S.at is what the name leads to, after it was created if that was asked for.
OpenAt(S, f, u, existed, flags, mask) ==
    LET d == S.at
        refused == \/ existed /\ "excl" \in flags
                   \/ "directory" \in flags /\ ~IsDir(S, d)
                   \/ ~generic_permission(S, u, d, mask)
    IN  IF d = Absent \/ refused
        THEN fs' = Quiet(IF d = Absent THEN S ELSE dput(S, d)) /\ UNCHANGED filp
        ELSE fs' = Quiet(S) /\ filp' = [filp EXCEPT ![f] = d]

Created(S, u, p, flags, mode, denied) ==
    IF S.at = Absent /\ "creat" \in flags
    THEN vfs_lookup(Make(S, u, p, "file", mode, denied), u, p) ELSE S

\* flags: O_CREAT, O_EXCL, O_DIRECTORY; mask: what O_ACCMODE asks for.
vfs_open(f, u, p, flags, mask, mode, denied) ==
    /\ filp[f] = Absent
    /\ LET found == vfs_lookup(fs, u, p)
       IN  OpenAt(Created(found, u, p, flags, mode, denied), f, u, found.at # Absent, flags, mask)
    /\ UNCHANGED cwd

vfs_close(f) ==
    /\ filp[f] # Absent
    /\ fs' = dput(fs, filp[f])
    /\ filp' = [filp EXCEPT ![f] = Absent]
    /\ UNCHANGED cwd

ChdirAt(S, u) ==
    IF S.at = Absent THEN fs' = S /\ UNCHANGED cwd
    ELSE IF IsDir(S, S.at) /\ generic_permission(S, u, S.at, {"x"})
         THEN fs' = Quiet(IF cwd = Absent THEN S ELSE dput(S, cwd)) /\ cwd' = S.at
         ELSE fs' = Quiet(dput(S, S.at)) /\ UNCHANGED cwd

sys_chdir(u, p) == ChdirAt(vfs_lookup(fs, u, p), u) /\ UNCHANGED filp

VfsNext ==
    \/ \E u \in Callers, p \in Paths :
          \/ \E k \in {"dir", "file"}, m \in Modes, b \in BOOLEAN : make(u, p, k, m, b)
          \/ \E b \in BOOLEAN : remove(u, p, b)
          \/ sys_chdir(u, p)
          \/ \E f \in FileIds, fl \in {{}, {"creat"}, {"creat", "excl"}, {"directory"}},
                m \in Modes : vfs_open(f, u, p, fl, {"r", "w"}, m, FALSE)
    \/ \E p \in Paths : umount(p) \/ \E t \in {"axiomfs", "devfs"} : mount(p, t)
    \/ \E f \in FileIds : vfs_close(f)

VfsSpec == VfsInit /\ [][VfsNext]_vfsvars

-----------------------------------------------------------------------------
(* Properties.                                                             *)

IsRoot(d) == fs.dentry[d].d_parent = d
Listed(d) == IsRoot(d) \/ Contains(fs.dentry[fs.dentry[d].d_parent].d_subdirs, d)

\* The references to d that somebody holds: children, open files, the working
\* directory, mounts on d, lost ones, and one for the superblock of a root and for the
\* name of what was created in AxiomFS.
Holders(d) ==
    LET of(S) == Cardinality(S)
        One(b) == IF b THEN 1 ELSE 0
    IN  of({c \in InUse(fs.dentry) \ {d} : fs.dentry[c].d_parent = d}) + of({f \in FileIds : filp[f] = d})
        + of({i \in DOMAIN fs.mounts : fs.mounts[i].mountpoint = d}) + fs.lost[d] + One(cwd = d)
        + One(d \in fs.supers \/ (~IsRoot(d) /\ Listed(d) /\ NodeOf(fs, d).type = "axiomfs"))

\* Every dentry that something refers to is allocated. Its count is the number of
\* references, and one more for ever once its name is gone (vfs_unlink and vfs_rmdir keep
\* the one of its creation): lookup, the error paths of open, create, mount and umount,
\* unlink of open files and the freeing of chains of parents (dput, dentry_free) balance.
RefsOK ==
    /\ Range(filp) \cup {cwd} \cup {m.mountpoint : m \in Range(fs.mounts)} \cup {m.root : m \in Range(fs.mounts)}
          \subseteq InUse(fs.dentry) \cup {Absent}
    /\ \A d \in InUse(fs.dentry) : /\ fs.dentry[d].d_count = Holders(d) + IF Listed(d) THEN 0 ELSE 1
                                   /\ fs.dentry[d].d_inode \in InUse(fs.inode)
    /\ Cardinality(InUse(fs.dentry)) = Cardinality(InUse(fs.inode))

\* The children a directory lists are its own and have different names; the links of a
\* directory are 2 and the directories in it, also in a root, unless vfs_rmdir was called
\* on the root of a mounted file system: it succeeds there, and the links are 3 fewer for
\* ever; what is not listed any more has no link left; and no two AxiomFS objects share
\* an inode number.
TreeOK ==
    \A d \in InUse(fs.dentry) :
        LET kids == Range(fs.dentry[d].d_subdirs)
            dirs == Cardinality({c \in kids : IsDir(fs, c)})
            node == NodeOf(fs, d)
        IN  /\ Cardinality({fs.dentry[c].d_name : c \in kids}) = Len(fs.dentry[d].d_subdirs)
            /\ \A c \in kids : fs.dentry[c].d_parent = d
            /\ node.i_nlink = IF ~Listed(d) THEN 0
                              ELSE IF node.kind # "dir" THEN 1
                              ELSE (IF fs.dentry[d].removed THEN -1 ELSE 2) + dirs
            /\ node.i_ino > 1 => \A e \in InUse(fs.dentry) \ {d} : NodeOf(fs, e).i_ino # node.i_ino

\* Both: the counts that decide when a dentry is freed, and the tree that is reached by
\* names.
VfsOK == RefsOK /\ TreeOK

\* What axiomfs_unlink says of an object without a name (axiomfs/inode.c:426-428): its
\* backing is freed when the inode is destroyed, which is when nothing refers to it.
UnlinkedDestroyed == \A d \in InUse(fs.dentry) : ~Listed(d) => Holders(d) > 0

=============================================================================
