------------------------------- MODULE Paths -------------------------------
(***************************************************************************)
(* How system calls turn a path of a program into an absolute one          *)
(* (syscall.c): a relative path is put behind the path of the working      *)
(* directory or of a directory's descriptor, and that path is made by      *)
(* climbing from dentry to dentry.  The absolute path is then walked from  *)
(* the root again.                                                         *)
(*                                                                         *)
(* The tree of dentries changes under the paths: directories are made and  *)
(* removed, and file systems are mounted.  A removed directory keeps its   *)
(* dentry, with its name and parent: the reference of its creation is      *)
(* never given back (module Vfs).  The root of a file system is called "/" *)
(* and is its own parent.                                                  *)
(***************************************************************************)
EXTENDS Integers, SequencesExt

CONSTANTS
    Nodes,       \* dentries; 1 is the root
    DirNames,    \* names of directories
    MaxDepth,    \* components of a path that fit in PATH_MAX
    PathArgs     \* [abs, comps]: the paths that programs pass

ASSUME PathsAssumption == 1 \in Nodes /\ MaxDepth \in Nat

VARIABLES
    node,        \* the dentries, with name and parent
    linked,      \* those that a walk finds
    over,        \* mount points with the roots mounted on them
    here,        \* current->cwd
    dirfd        \* the directory of a descriptor, or NoNode

pathvars == <<node, linked, over, here, dirfd>>

TheRoot == 1
NoNode == 0
FreeNode == [name |-> "", parent |-> NoNode]

----------------------------------------------------------------------------
IsRoot(n) == node[n].parent = n

\* What is mounted on a directory hides it, and is hidden by what is mounted on it
\* (vfs_follow_mounts).
Over(n) ==
    LET top[m \in Nodes] == IF m \in DOMAIN over THEN top[over[m]] ELSE m
    IN  top[n]

Child(d, name) ==
    IF name = ".." THEN node[d].parent
    ELSE LET s == {n \in linked : node[n] = [name |-> name, parent |-> d]}
         IN  IF s = {} THEN NoNode ELSE CHOOSE n \in s : TRUE

Walk(d, comps) ==
    FoldLeft(LAMBDA at, name : IF at = NoNode \/ Child(at, name) = NoNode THEN NoNode
                               ELSE Over(Child(at, name)), d, comps)

vfs_lookup(comps) == Walk(TheRoot, comps)

TooLong == <<"ENAMETOOLONG">>

Joined(base, comps) ==
    IF base = TooLong \/ Len(base) + Len(comps) > MaxDepth THEN TooLong ELSE base \o comps

\* Mutant of Climb: each name goes behind the ones below it.
ClimbDown(d) ==
    LET up[n \in Nodes] == IF n = TheRoot THEN <<>>
                           ELSE IF IsRoot(n) THEN TooLong
                           ELSE Joined(<<node[n].name>>, up[node[n].parent])
    IN  up[d]

\* The names from a dentry up to the root. The root of another file system is its own
\* parent: the climb goes round there until the buffer is full.
Climb(d) ==
    LET up[n \in Nodes] == IF n = TheRoot THEN <<>>
                           ELSE IF IsRoot(n) THEN TooLong
                           ELSE Joined(up[node[n].parent], <<node[n].name>>)
    IN  up[d]

process_getcwd_path == Climb(here)

resolve_user_path(p) == IF p.abs THEN p.comps ELSE Joined(process_getcwd_path, p.comps)

\* A path relative to the root's descriptor is taken for "/".
resolve_user_at_path(d, p) ==
    IF d = NoNode \/ p.abs THEN resolve_user_path(p)
    ELSE IF d = TheRoot THEN <<>>
    ELSE Joined(Climb(d), p.comps)

Reached(comps) == IF comps = TooLong THEN NoNode ELSE vfs_lookup(comps)

----------------------------------------------------------------------------
Spare == {n \in Nodes : node[n] = FreeNode}
First == CHOOSE n \in Spare : \A m \in Spare : n <= m

PathInit ==
    /\ node = [n \in Nodes |-> IF n = TheRoot THEN [name |-> "/", parent |-> n] ELSE FreeNode]
    /\ linked = {TheRoot} /\ over = <<>> /\ here = TheRoot /\ dirfd = NoNode

\* Fails when the path exists, or its directory does not.
sys_mkdir(p) ==
    LET at == resolve_user_path(p)
        d == vfs_lookup(Front(at))
    IN  /\ at # <<>> /\ Reached(at) = NoNode /\ at # TooLong /\ d # NoNode /\ Last(at) \in DirNames
        /\ Spare # {}
        /\ node' = [node EXCEPT ![First] = [name |-> Last(at), parent |-> d]]
        /\ linked' = linked \cup {First}
        /\ UNCHANGED <<over, here, dirfd>>

\* Mount points (vfs_is_mountpoint) and directories that are not empty stay, and so do
\* the roots, which their own list of children does not have.
sys_rmdir(p) ==
    LET d == Reached(resolve_user_path(p))
    IN  /\ d # NoNode /\ ~IsRoot(d) /\ d \notin DOMAIN over
        /\ \A n \in linked : node[n].parent # d
        /\ linked' = linked \ {d}
        /\ UNCHANGED <<node, over, here, dirfd>>

\* The target is not resolved: it is looked up from the root as it stands.
sys_mount(p) ==
    LET d == Reached(p.comps)
    IN  /\ d # NoNode /\ Spare # {}
        /\ node' = [node EXCEPT ![First] = [name |-> "/", parent |-> First]]
        /\ linked' = linked \cup {First}
        /\ over' = [n \in DOMAIN over \cup {d} |-> IF n = d THEN First ELSE over[n]]
        /\ UNCHANGED <<here, dirfd>>

sys_chdir(p) ==
    LET d == Reached(resolve_user_path(p))
    IN  /\ d # NoNode
        /\ here' = d /\ UNCHANGED <<node, linked, over, dirfd>>

\* openat of a directory, with the descriptor at hand or AT_FDCWD; the old one is closed.
sys_openat(p) ==
    LET d == Reached(resolve_user_at_path(dirfd, p))
    IN  /\ d # NoNode
        /\ dirfd' = d /\ UNCHANGED <<node, linked, over, here>>

close_dir ==
    /\ dirfd # NoNode
    /\ dirfd' = NoNode /\ UNCHANGED <<node, linked, over, here>>

PathNext ==
    \/ \E p \in PathArgs : sys_mkdir(p) \/ sys_rmdir(p) \/ sys_mount(p) \/ sys_chdir(p) \/ sys_openat(p)
    \/ close_dir

PathSpec == PathInit /\ [][PathNext]_pathvars

----------------------------------------------------------------------------
Above(d) ==
    LET up[n \in Nodes] == IF IsRoot(n) THEN {n} ELSE {n} \cup up[node[n].parent]
    IN  up[d]

\* A directory of the root file system that can still be reached, no mount on the way.
Plain(d) == TheRoot \in Above(d) /\ \A n \in Above(d) : n \in linked /\ Over(n) = n

\* A relative path leads where a walk from the directory itself leads, although it takes
\* the way round through the root: from the working directory, and from a descriptor that
\* is not of the root, as long as the directory has not been removed and no file system
\* is mounted on the way.  So the path that getcwd gives leads back to the working
\* directory, whatever was made, removed and mounted elsewhere.
RelativeOK ==
    \A p \in PathArgs : ~p.abs =>
        /\ LET at == resolve_user_path(p)
           IN  Plain(here) /\ at # TooLong => vfs_lookup(at) = Walk(here, p.comps)
        /\ dirfd \notin {NoNode, TheRoot} =>
              LET at == resolve_user_at_path(dirfd, p)
              IN  Plain(dirfd) /\ at # TooLong => vfs_lookup(at) = Walk(dirfd, p.comps)

=============================================================================
