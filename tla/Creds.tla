------------------------------- MODULE Creds -------------------------------
(***************************************************************************)
(* The user and group ids of the processes: the set*id system calls of     *)
(* syscall.c, what fork copies, and what execve takes from a set-id        *)
(* executable, with sys_chmod and sys_chown, which make one.               *)
(*                                                                         *)
(* lent remembers, for each process, the ids that it holds by right: those *)
(* that a call made with euid 0 left it with, or that it got from its      *)
(* parent, or from a set-id executable.                                    *)
(***************************************************************************)
EXTENDS Integers

CONSTANTS Procs, Ids, Exes

ASSUME CredsAssumption == Ids \subseteq Nat /\ 0 \in Ids

Kinds == {"r", "e", "s", "f"}    \* uid, euid, suid, fsuid, and the same of the group

NoId == -1                       \* (uid_t)-1

VARIABLES
    live,    \* the processes that have a struct cred
    cu, cg,  \* the user and the group ids of each process
    lu, lg,  \* the user and the group ids lent to it
    exe      \* owner, group and mode bits of the executables

credvars == <<live, cu, cg, lu, lg, exe>>

Holds(c) == {c[k] : k \in Kinds}

Same(id) == [k \in Kinds |-> id]

\* The first process has the ids of cred_create.
CredInit ==
    /\ live \in {{p} : p \in Procs}
    /\ cu = [p \in Procs |-> Same(0)] /\ cg = [p \in Procs |-> Same(0)]
    /\ lu = [p \in Procs |-> {0}] /\ lg = [p \in Procs |-> {0}]
    /\ exe = [f \in Exes |-> [uid |-> 0, gid |-> 0, bits |-> {}]]

Root(p) == cu[p]["e"] = 0

\* cred_uid_match and cred_gid_match: the fs ids do not count.
Match(c, id) == id \in {c["r"], c["e"], c["s"]}

\* An argument that is not -1 must be one of the three, but for root.
Allowed(p, c, args) == Root(p) \/ \A id \in args \ {NoId} : Match(c, id)

Or(id, old) == IF id = NoId THEN old ELSE id

\* Process p has new ids; they become its own by right if it was root.
SetUids(p, c) ==
    /\ cu' = [cu EXCEPT ![p] = c]
    /\ lu' = [lu EXCEPT ![p] = IF Root(p) THEN Holds(c) ELSE @]
    /\ UNCHANGED <<live, cg, lg, exe>>

SetGids(p, c) ==
    /\ cg' = [cg EXCEPT ![p] = c]
    /\ lg' = [lg EXCEPT ![p] = IF Root(p) THEN Holds(c) ELSE @]
    /\ UNCHANGED <<live, cu, lu, exe>>

----------------------------------------------------------------------------
sys_setuid(p, id) ==
    /\ Root(p) \/ Match(cu[p], id)
    /\ SetUids(p, IF Root(p) THEN Same(id) ELSE [cu[p] EXCEPT !["e"] = id, !["f"] = id])

sys_setgid(p, id) ==
    /\ Root(p) \/ Match(cg[p], id)
    /\ SetGids(p, IF Root(p) THEN Same(id) ELSE [cg[p] EXCEPT !["e"] = id, !["f"] = id])

\* setreuid and setregid: the saved id becomes the effective one, always.
Re(c, r, e) ==
    [k \in Kinds |-> CASE k = "r" -> Or(r, c["r"])
                       [] k = "f" -> Or(e, c["f"])
                       [] OTHER -> Or(e, c["e"])]

\* Mutant of sys_setreuid: the real id is not looked at.
SetreuidAnyReal(p, r, e) ==
    /\ Allowed(p, cu[p], {e})
    /\ SetUids(p, Re(cu[p], r, e))

sys_setreuid(p, r, e) ==
    /\ Allowed(p, cu[p], {r, e})
    /\ SetUids(p, Re(cu[p], r, e))

sys_setregid(p, r, e) ==
    /\ Allowed(p, cg[p], {r, e})
    /\ SetGids(p, Re(cg[p], r, e))

\* setresuid and setresgid.
Res(c, r, e, s) ==
    [k \in Kinds |-> CASE k = "r" -> Or(r, c["r"])
                       [] k = "e" -> Or(e, c["e"])
                       [] k = "s" -> Or(s, c["s"])
                       [] OTHER -> Or(e, c["f"])]

sys_setresuid(p, r, e, s) ==
    /\ Allowed(p, cu[p], {r, e, s})
    /\ SetUids(p, Res(cu[p], r, e, s))

sys_setresgid(p, r, e, s) ==
    /\ Allowed(p, cg[p], {r, e, s})
    /\ SetGids(p, Res(cg[p], r, e, s))

sys_setfsuid(p, id) ==
    /\ Root(p) \/ Match(cu[p], id)
    /\ SetUids(p, [cu[p] EXCEPT !["f"] = id])

sys_setfsgid(p, id) ==
    /\ Root(p) \/ Match(cg[p], id)
    /\ SetGids(p, [cg[p] EXCEPT !["f"] = id])

----------------------------------------------------------------------------
\* The mode bits that matter: set-uid, set-gid, and written by group or others.
sys_chmod(p, f, bits) ==
    /\ cu[p]["f"] \in {0, exe[f].uid}
    /\ exe' = [exe EXCEPT ![f].bits = bits]
    /\ UNCHANGED <<live, cu, cg, lu, lg>>

\* The set-id bits stay as they are.
sys_chown(p, f, uid, gid) ==
    /\ cu[p]["f"] = 0
    /\ exe' = [exe EXCEPT ![f].uid = uid, ![f].gid = gid]
    /\ UNCHANGED <<live, cu, cg, lu, lg>>

\* An executable that others may write is set-id only for its owner and for root.
Applies(p, f, bit) ==
    /\ bit \in exe[f].bits
    /\ "shared" \notin exe[f].bits \/ cu[p]["r"] = exe[f].uid \/ Root(p)

\* The real ids are kept.
Taken(c, id) == [k \in Kinds |-> IF k = "r" THEN c["r"] ELSE id]

do_execve(p, f) ==
    LET u == IF Applies(p, f, "setuid") THEN Taken(cu[p], exe[f].uid) ELSE cu[p]
        g == IF Applies(p, f, "setgid") THEN Taken(cg[p], exe[f].gid) ELSE cg[p]
    IN  /\ cu' = [cu EXCEPT ![p] = u] /\ cg' = [cg EXCEPT ![p] = g]
        /\ lu' = [lu EXCEPT ![p] = IF Applies(p, f, "setuid") THEN Holds(u) ELSE @]
        /\ lg' = [lg EXCEPT ![p] = IF Applies(p, f, "setgid") THEN Holds(g) ELSE @]
        /\ UNCHANGED <<live, exe>>

\* copy_cred.
do_fork(p, child) ==
    /\ child \notin live
    /\ live' = live \cup {child}
    /\ cu' = [cu EXCEPT ![child] = cu[p]] /\ cg' = [cg EXCEPT ![child] = cg[p]]
    /\ lu' = [lu EXCEPT ![child] = lu[p]] /\ lg' = [lg EXCEPT ![child] = lg[p]]
    /\ UNCHANGED exe

cred_free(p) ==
    /\ live # {p}
    /\ live' = live \ {p}
    /\ cu' = [cu EXCEPT ![p] = Same(0)] /\ cg' = [cg EXCEPT ![p] = Same(0)]
    /\ lu' = [lu EXCEPT ![p] = {0}] /\ lg' = [lg EXCEPT ![p] = {0}]
    /\ UNCHANGED exe

Arg == Ids \cup {NoId}

CredNext ==
    \E p \in live :
        \/ \E id \in Ids :
              \/ sys_setuid(p, id) \/ sys_setgid(p, id)
              \/ sys_setfsuid(p, id) \/ sys_setfsgid(p, id)
        \/ \E r, e \in Arg :
              \/ sys_setreuid(p, r, e) \/ sys_setregid(p, r, e)
              \/ \E s \in Arg : sys_setresuid(p, r, e, s) \/ sys_setresgid(p, r, e, s)
        \/ \E f \in Exes :
              \/ do_execve(p, f)
              \/ \E bits \in SUBSET {"setuid", "setgid", "shared"} : sys_chmod(p, f, bits)
              \/ \E uid, gid \in Ids : sys_chown(p, f, uid, gid)
        \/ \E child \in Procs : do_fork(p, child)
        \/ cred_free(p)

CredSpec == CredInit /\ [][CredNext]_credvars

----------------------------------------------------------------------------
\* No process holds an id that was not lent to it: whatever calls a process makes without
\* euid 0, and whatever its children make, it and they only ever have ids that root, a
\* parent or a set-id executable gave them.  A process that root has turned into another
\* user with sys_setuid never has root again but by an executable.
CredsOK ==
    \A p \in live : Holds(cu[p]) \subseteq lu[p] /\ Holds(cg[p]) \subseteq lg[p]

CredTypeOK ==
    /\ live \subseteq Procs
    /\ cu \in [Procs -> [Kinds -> Ids]] /\ cg \in [Procs -> [Kinds -> Ids]]
    /\ lu \in [Procs -> SUBSET Ids] /\ lg \in [Procs -> SUBSET Ids]
    /\ exe \in [Exes -> [uid : Ids, gid : Ids, bits : SUBSET {"setuid", "setgid", "shared"}]]
=============================================================================
