---------------------------- MODULE CredsProofs ----------------------------
(***************************************************************************)
(* No process holds an id that was not lent to it, for any number of       *)
(* processes, ids and executables.                                         *)
(***************************************************************************)
EXTENDS Creds, TLAPS

CredInv == CredTypeOK /\ CredsOK

\* cred_create makes a process of root.
LEMMA InitInv == CredInit => CredInv
<1> SUFFICES ASSUME CredInit PROVE CredInv
  OBVIOUS
<1>1. Same(0) \in [Kinds -> Ids] /\ Holds(Same(0)) = {0}
  BY CredsAssumption DEF Same, Holds, Kinds
<1>2. CredTypeOK
  BY <1>1, CredsAssumption DEF CredInit, CredTypeOK
<1>3. CredsOK
  BY <1>1, ZenonT(20) DEF CredInit, CredsOK
<1>4. QED
  BY <1>2, <1>3 DEF CredInv

\* The ids that a process holds are ids.
LEMMA HoldsType ==
    ASSUME NEW c \in [Kinds -> Ids]
    PROVE  Holds(c) \subseteq Ids
BY DEF Holds

\* New user ids do no harm if they are some of the old ones, or if root sets them.
LEMMA SetUidsStep ==
    ASSUME CredInv, NEW p \in live, NEW c \in [Kinds -> Ids],
           SetUids(p, c), Root(p) \/ Holds(c) \subseteq Holds(cu[p])
    PROVE  CredInv'
<1>1. p \in Procs /\ Holds(c) \subseteq Ids
  BY HoldsType DEF CredInv, CredTypeOK
<1>2. CredTypeOK'
  BY <1>1 DEF CredInv, CredTypeOK, SetUids
<1>3. ASSUME NEW q \in live
      PROVE  Holds(cu'[q]) \subseteq lu'[q] /\ Holds(cg'[q]) \subseteq lg'[q]
  <2>1. q \in Procs /\ Holds(cu[q]) \subseteq lu[q] /\ Holds(cg[q]) \subseteq lg[q]
    BY DEF CredInv, CredTypeOK, CredsOK
  <2>2. CASE q = p
    <3>1. cu'[p] = c /\ lu'[p] = IF Root(p) THEN Holds(c) ELSE lu[p]
      BY <1>1 DEF SetUids, CredInv, CredTypeOK
    <3>2. Holds(cu'[p]) \subseteq lu'[p]
      BY <2>1, <2>2, <3>1
    <3>3. QED
      BY <2>1, <2>2, <3>2 DEF SetUids
  <2>3. CASE q # p
    BY <2>1, <2>3 DEF SetUids, CredInv, CredTypeOK
  <2>4. QED
    BY <2>2, <2>3
<1>4. CredsOK'
  BY <1>3 DEF CredsOK, SetUids
<1>5. QED
  BY <1>2, <1>4 DEF CredInv

\* The same of group ids.
LEMMA SetGidsStep ==
    ASSUME CredInv, NEW p \in live, NEW c \in [Kinds -> Ids],
           SetGids(p, c), Root(p) \/ Holds(c) \subseteq Holds(cg[p])
    PROVE  CredInv'
<1>1. p \in Procs /\ Holds(c) \subseteq Ids
  BY HoldsType DEF CredInv, CredTypeOK
<1>2. CredTypeOK'
  BY <1>1 DEF CredInv, CredTypeOK, SetGids
<1>3. ASSUME NEW q \in live
      PROVE  Holds(cu'[q]) \subseteq lu'[q] /\ Holds(cg'[q]) \subseteq lg'[q]
  <2>1. q \in Procs /\ Holds(cu[q]) \subseteq lu[q] /\ Holds(cg[q]) \subseteq lg[q]
    BY DEF CredInv, CredTypeOK, CredsOK
  <2>2. CASE q = p
    <3>1. cg'[p] = c /\ lg'[p] = IF Root(p) THEN Holds(c) ELSE lg[p]
      BY <1>1 DEF SetGids, CredInv, CredTypeOK
    <3>2. Holds(cg'[p]) \subseteq lg'[p]
      BY <2>1, <2>2, <3>1
    <3>3. QED
      BY <2>1, <2>2, <3>2 DEF SetGids
  <2>3. CASE q # p
    BY <2>1, <2>3 DEF SetGids, CredInv, CredTypeOK
  <2>4. QED
    BY <2>2, <2>3
<1>4. CredsOK'
  BY <1>3 DEF CredsOK, SetGids
<1>5. QED
  BY <1>2, <1>4 DEF CredInv

\* setreuid and setregid mix the arguments with the ids that are there.
LEMMA ReHolds ==
    ASSUME NEW p, NEW c \in [Kinds -> Ids], NEW r \in Arg, NEW e \in Arg, Allowed(p, c, {r, e})
    PROVE  Re(c, r, e) \in [Kinds -> Ids] /\ (Root(p) \/ Holds(Re(c, r, e)) \subseteq Holds(c))
<1>1. Re(c, r, e) \in [Kinds -> Ids]
  BY DEF Re, Or, Arg, Kinds
<1>2. ASSUME ~Root(p) PROVE Holds(Re(c, r, e)) \subseteq Holds(c)
  <2>1. \A id \in {r, e} \ {NoId} : id \in Holds(c)
    BY <1>2 DEF Allowed, Match, Holds, Kinds
  <2>2. \A k \in Kinds : Re(c, r, e)[k] \in Holds(c)
    BY <2>1 DEF Re, Or, Holds, Kinds
  <2>3. QED
    BY <2>2 DEF Holds
<1>3. QED
  BY <1>1, <1>2

\* setresuid and setresgid do the same with three arguments.
LEMMA ResHolds ==
    ASSUME NEW p, NEW c \in [Kinds -> Ids], NEW r \in Arg, NEW e \in Arg, NEW s \in Arg,
           Allowed(p, c, {r, e, s})
    PROVE  /\ Res(c, r, e, s) \in [Kinds -> Ids]
           /\ Root(p) \/ Holds(Res(c, r, e, s)) \subseteq Holds(c)
<1>1. Res(c, r, e, s) \in [Kinds -> Ids]
  BY DEF Res, Or, Arg, Kinds
<1>2. ASSUME ~Root(p) PROVE Holds(Res(c, r, e, s)) \subseteq Holds(c)
  <2>1. \A id \in {r, e, s} \ {NoId} : id \in Holds(c)
    BY <1>2 DEF Allowed, Match, Holds, Kinds
  <2>2. \A k \in Kinds : Res(c, r, e, s)[k] \in Holds(c)
    BY <2>1 DEF Res, Or, Holds, Kinds
  <2>3. QED
    BY <2>2 DEF Holds
<1>3. QED
  BY <1>1, <1>2

\* setuid and setfsuid, and the same of groups, of a process that is not root.
LEMMA ExceptHolds ==
    ASSUME NEW c \in [Kinds -> Ids], NEW id \in Ids
    PROVE  /\ Same(id) \in [Kinds -> Ids]
           /\ [c EXCEPT !["f"] = id] \in [Kinds -> Ids]
           /\ [c EXCEPT !["e"] = id, !["f"] = id] \in [Kinds -> Ids]
           /\ Match(c, id) => /\ Holds([c EXCEPT !["f"] = id]) \subseteq Holds(c)
                              /\ Holds([c EXCEPT !["e"] = id, !["f"] = id]) \subseteq Holds(c)
<1>1. /\ Same(id) \in [Kinds -> Ids]
      /\ [c EXCEPT !["f"] = id] \in [Kinds -> Ids]
      /\ [c EXCEPT !["e"] = id, !["f"] = id] \in [Kinds -> Ids]
  BY DEF Same, Kinds
<1>2. ASSUME Match(c, id)
      PROVE  /\ Holds([c EXCEPT !["f"] = id]) \subseteq Holds(c)
             /\ Holds([c EXCEPT !["e"] = id, !["f"] = id]) \subseteq Holds(c)
  <2>1. id \in Holds(c)
    BY <1>2 DEF Match, Holds, Kinds
  <2>2. \A k \in Kinds : [c EXCEPT !["f"] = id][k] \in Holds(c)
    BY <2>1 DEF Holds, Kinds
  <2>3. \A k \in Kinds : [c EXCEPT !["e"] = id, !["f"] = id][k] \in Holds(c)
    BY <2>1 DEF Holds, Kinds
  <2>4. QED
    BY <2>2, <2>3 DEF Holds
<1>3. QED
  BY <1>1, <1>2, ZenonT(20)

\* do_execve: what a set-id executable gives is lent; the rest stays.
LEMMA ExecStep ==
    ASSUME CredInv, NEW p \in live, NEW f \in Exes, do_execve(p, f)
    PROVE  CredInv'
<1> DEFINE u == IF Applies(p, f, "setuid") THEN Taken(cu[p], exe[f].uid) ELSE cu[p]
           g == IF Applies(p, f, "setgid") THEN Taken(cg[p], exe[f].gid) ELSE cg[p]
<1>1. p \in Procs /\ exe[f].uid \in Ids /\ exe[f].gid \in Ids
  BY DEF CredInv, CredTypeOK
<1>2. u \in [Kinds -> Ids] /\ g \in [Kinds -> Ids]
  BY <1>1 DEF Taken, CredInv, CredTypeOK, Kinds
<1>3. Holds(u) \subseteq Ids /\ Holds(g) \subseteq Ids
  BY <1>2, HoldsType
<1>4. /\ cu' = [cu EXCEPT ![p] = u] /\ cg' = [cg EXCEPT ![p] = g]
      /\ lu' = [lu EXCEPT ![p] = IF Applies(p, f, "setuid") THEN Holds(u) ELSE lu[p]]
      /\ lg' = [lg EXCEPT ![p] = IF Applies(p, f, "setgid") THEN Holds(g) ELSE lg[p]]
      /\ live' = live /\ exe' = exe
  BY DEF do_execve
<1> HIDE DEF u, g
<1>5. CredTypeOK'
  BY <1>1, <1>2, <1>3, <1>4 DEF CredInv, CredTypeOK
<1>6. Holds(u) \subseteq lu'[p] /\ Holds(g) \subseteq lg'[p]
  <2>1. Holds(cu[p]) \subseteq lu[p] /\ Holds(cg[p]) \subseteq lg[p]
    BY DEF CredInv, CredsOK
  <2>2. CASE Applies(p, f, "setuid")
    BY <1>1, <1>4, <2>1, <2>2 DEF CredInv, CredTypeOK, g
  <2>3. CASE ~Applies(p, f, "setuid")
    BY <1>1, <1>4, <2>1, <2>3 DEF CredInv, CredTypeOK, u, g
  <2>4. QED
    BY <2>2, <2>3
<1>7. ASSUME NEW q \in live
      PROVE  Holds(cu'[q]) \subseteq lu'[q] /\ Holds(cg'[q]) \subseteq lg'[q]
  <2>1. CASE q = p
    BY <1>1, <1>4, <1>6, <2>1 DEF CredInv, CredTypeOK
  <2>2. CASE q # p
    BY <1>1, <1>4, <2>2 DEF CredInv, CredTypeOK, CredsOK
  <2>3. QED
    BY <2>1, <2>2
<1>8. QED
  BY <1>4, <1>5, <1>7 DEF CredInv, CredsOK

\* do_fork: the child has the ids of its parent.
LEMMA ForkStep ==
    ASSUME CredInv, NEW p \in live, NEW child \in Procs, do_fork(p, child)
    PROVE  CredInv'
<1>1. p \in Procs
  BY DEF CredInv, CredTypeOK
<1>2. CredTypeOK'
  BY <1>1 DEF CredInv, CredTypeOK, do_fork
<1>3. ASSUME NEW q \in live'
      PROVE  Holds(cu'[q]) \subseteq lu'[q] /\ Holds(cg'[q]) \subseteq lg'[q]
  <2>1. CASE q = child
    BY <1>1, <2>1 DEF CredInv, CredTypeOK, CredsOK, do_fork
  <2>2. CASE q # child
    BY <2>2, <1>3 DEF CredInv, CredTypeOK, CredsOK, do_fork
  <2>3. QED
    BY <2>1, <2>2
<1>4. QED
  BY <1>2, <1>3 DEF CredInv, CredsOK

\* cred_free: the other processes are not touched.
LEMMA FreeStep ==
    ASSUME CredInv, NEW p \in live, cred_free(p)
    PROVE  CredInv'
<1>1. p \in Procs /\ Same(0) \in [Kinds -> Ids]
  BY CredsAssumption DEF CredInv, CredTypeOK, Same
<1>2. CredTypeOK'
  BY <1>1, CredsAssumption DEF CredInv, CredTypeOK, cred_free
<1>3. ASSUME NEW q \in live'
      PROVE  Holds(cu'[q]) \subseteq lu'[q] /\ Holds(cg'[q]) \subseteq lg'[q]
  BY <1>3 DEF CredInv, CredTypeOK, CredsOK, cred_free
<1>4. QED
  BY <1>2, <1>3 DEF CredInv, CredsOK

\* What touches the executables only.
LEMMA FileStep ==
    ASSUME CredInv, UNCHANGED <<live, cu, cg, lu, lg>>,
           exe' \in [Exes -> [uid : Ids, gid : Ids, bits : SUBSET {"setuid", "setgid", "shared"}]]
    PROVE  CredInv'
BY DEF CredInv, CredTypeOK, CredsOK

\* Every system call preserves the invariant.
LEMMA StepInv == CredInv /\ [CredNext]_credvars => CredInv'
<1> SUFFICES ASSUME CredInv, [CredNext]_credvars PROVE CredInv'
  OBVIOUS
<1>1. CASE UNCHANGED credvars
  BY <1>1 DEF CredInv, CredTypeOK, CredsOK, credvars
<1>2. ASSUME NEW p \in live PROVE cu[p] \in [Kinds -> Ids] /\ cg[p] \in [Kinds -> Ids]
  BY DEF CredInv, CredTypeOK
<1>3. ASSUME NEW p \in live, NEW id \in Ids, sys_setuid(p, id) PROVE CredInv'
  <2> DEFINE c == IF Root(p) THEN Same(id) ELSE [cu[p] EXCEPT !["e"] = id, !["f"] = id]
  <2>1. c \in [Kinds -> Ids] /\ (Root(p) \/ Holds(c) \subseteq Holds(cu[p]))
    BY <1>2, <1>3, ExceptHolds, ZenonT(20) DEF sys_setuid
  <2>2. SetUids(p, c)
    BY <1>3 DEF sys_setuid
  <2>3. QED
    BY <2>1, <2>2, SetUidsStep
<1>4. ASSUME NEW p \in live, NEW id \in Ids, sys_setgid(p, id) PROVE CredInv'
  <2> DEFINE c == IF Root(p) THEN Same(id) ELSE [cg[p] EXCEPT !["e"] = id, !["f"] = id]
  <2>1. c \in [Kinds -> Ids] /\ (Root(p) \/ Holds(c) \subseteq Holds(cg[p]))
    BY <1>2, <1>4, ExceptHolds, ZenonT(20) DEF sys_setgid
  <2>2. SetGids(p, c)
    BY <1>4 DEF sys_setgid
  <2>3. QED
    BY <2>1, <2>2, SetGidsStep
<1>5. ASSUME NEW p \in live, NEW id \in Ids, sys_setfsuid(p, id) PROVE CredInv'
  BY <1>2, <1>5, ExceptHolds, SetUidsStep, ZenonT(20) DEF sys_setfsuid
<1>6. ASSUME NEW p \in live, NEW id \in Ids, sys_setfsgid(p, id) PROVE CredInv'
  BY <1>2, <1>6, ExceptHolds, SetGidsStep, ZenonT(20) DEF sys_setfsgid
<1>7. ASSUME NEW p \in live, NEW r \in Arg, NEW e \in Arg, sys_setreuid(p, r, e) PROVE CredInv'
  BY <1>2, <1>7, ReHolds, SetUidsStep DEF sys_setreuid
<1>8. ASSUME NEW p \in live, NEW r \in Arg, NEW e \in Arg, sys_setregid(p, r, e) PROVE CredInv'
  BY <1>2, <1>8, ReHolds, SetGidsStep DEF sys_setregid
<1>9. ASSUME NEW p \in live, NEW r \in Arg, NEW e \in Arg, NEW s \in Arg,
             sys_setresuid(p, r, e, s)
      PROVE  CredInv'
  BY <1>2, <1>9, ResHolds, SetUidsStep DEF sys_setresuid
<1>10. ASSUME NEW p \in live, NEW r \in Arg, NEW e \in Arg, NEW s \in Arg,
              sys_setresgid(p, r, e, s)
       PROVE  CredInv'
  BY <1>2, <1>10, ResHolds, SetGidsStep DEF sys_setresgid
<1>11. ASSUME NEW p \in live, NEW f \in Exes,
              NEW bits \in SUBSET {"setuid", "setgid", "shared"}, sys_chmod(p, f, bits)
       PROVE  CredInv'
  <2>1. exe' \in [Exes -> [uid : Ids, gid : Ids, bits : SUBSET {"setuid", "setgid", "shared"}]]
    BY <1>11, ZenonT(20) DEF sys_chmod, CredInv, CredTypeOK
  <2>2. QED
    BY <1>11, <2>1, FileStep DEF sys_chmod
<1>12. ASSUME NEW p \in live, NEW f \in Exes, NEW uid \in Ids, NEW gid \in Ids,
              sys_chown(p, f, uid, gid)
       PROVE  CredInv'
  <2>1. exe' \in [Exes -> [uid : Ids, gid : Ids, bits : SUBSET {"setuid", "setgid", "shared"}]]
    BY <1>12, ZenonT(20) DEF sys_chown, CredInv, CredTypeOK
  <2>2. QED
    BY <1>12, <2>1, FileStep DEF sys_chown
<1>13. QED
  BY <1>1, <1>3, <1>4, <1>5, <1>6, <1>7, <1>8, <1>9, <1>10, <1>11, <1>12,
     ExecStep, ForkStep, FreeStep DEF CredNext

\* Whatever the set*id calls, fork, execve, chmod and chown do, in whatever order and by
\* whichever processes, no process holds an id that was not lent to it.
THEOREM CredsSafe == CredSpec => []CredsOK
<1>1. CredInit => CredInv
  BY InitInv
<1>2. CredInv /\ [CredNext]_credvars => CredInv'
  BY StepInv
<1>3. CredInv => CredsOK
  BY DEF CredInv
<1>4. QED
  BY <1>1, <1>2, <1>3, PTL DEF CredSpec
=============================================================================
