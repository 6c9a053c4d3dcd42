------------------------------ MODULE Accounts ------------------------------
(* The account tools: useradd, userdel, usermod, passwd and login over the  *)
(* tables of lib/passwd_db.c. A tool loads /etc/passwd and /etc/group,      *)
(* edits its copy and saves each file by writing a ".new" file and renaming *)
(* it; it may be killed between any two system calls. A line of a file is   *)
(* one entry. What is in a ".new" file is left out: nothing but the rename  *)
(* could bring it to anyone.                                                *)
EXTENDS Naturals, SequencesExt, FiniteSets

CONSTANTS
    AcTools,        \* tools that may run at the same time
    Logins,         \* user names beside root
    FirstLogin,     \* the user the image of the root file system comes with
    Uids,           \* ACCT_MIN_UID .. ACCT_MAX_UID, also for groups
    MaxLines,       \* OB_PW_MAX_LINES, OB_GR_MAX_LINES
    MaxRuns         \* bound on the tools started

VARIABLES
    etc,      \* passwd and group
    news,     \* which of the two has a ".new" file beside it
    tool,     \* the tools: where they are, the tables they mean to save
    homes,    \* home directories that exist
    session,  \* the last user that logged in
    stopped,  \* whether a tool has been killed or could not write
    removed,  \* users whose home directory userdel has removed
    runs      \* tools started, at most MaxRuns

acvars == <<etc, news, tool, homes, session, stopped, removed, runs>>

User(n, p, u, g) == [name |-> n, pass |-> p, uid |-> u, gid |-> g]
Group(n, g, mem) == [name |-> n, gid |-> g, members |-> mem]
NoTool == [pc |-> "idle", pw |-> <<>>, gr |-> <<>>, home |-> {}]

AcInit ==
    /\ \E u \in Uids :
          etc = [passwd |-> <<User("root", "hash", 0, 0), User(FirstLogin, "hash", u, u)>>,
                 group |-> <<Group("root", 0, {"root"}), Group(FirstLogin, u, {})>>]
    /\ news = {} /\ tool = [t \in AcTools |-> NoTool]
    /\ homes = {FirstLogin} /\ session = "root"
    /\ stopped = FALSE /\ removed = {} /\ runs = 0

-----------------------------------------------------------------------------
(* lib/passwd_db.c                                                         *)

find_name(db, n) == SelectInSeq(db, LAMBDA e : e.name = n)
find_uid(db, u) == SelectInSeq(db, LAMBDA e : e.uid = u)
find_gid(db, g) == SelectInSeq(db, LAMBDA e : e.gid = g)

\* Lines past the size of the table are not loaded, and so not saved either.
ob_load(file) == SubSeq(file, 1, IF Len(file) < MaxLines THEN Len(file) ELSE MaxLines)

ob_pwdb_next_uid(db) == LET free == {u \in Uids : find_uid(db, u) = 0} IN IF free = {} THEN {} ELSE {Min(free)}
ob_grdb_next_gid(db) == LET free == {g \in Uids : find_gid(db, g) = 0} IN IF free = {} THEN {} ELSE {Min(free)}

ob_grdb_add_member(db, i, n) == [db EXCEPT ![i].members = @ \cup {n}]
ob_grdb_remove_member(db, n) == [i \in DOMAIN db |-> [db[i] EXCEPT !.members = @ \ {n}]]
replace_member_name(db, old, new) ==
    [i \in DOMAIN db |-> [db[i] EXCEPT !.members = IF old \in @ THEN (@ \ {old}) \cup {new} ELSE @]]

\* "*" is a locked account; an empty field asks for no password.
ob_verify_password(stored, input) == stored = "" \/ (stored # "*" /\ stored = input)

-----------------------------------------------------------------------------
(* The tools up to their first save: the whole check and edit is done on    *)
(* what was loaded.                                                         *)

Edited(t, pw, gr, home) ==
    /\ runs < MaxRuns /\ runs' = runs + 1
    /\ tool' = [tool EXCEPT ![t] = [pc |-> "open_passwd", pw |-> pw, gr |-> gr, home |-> home]]
    /\ UNCHANGED <<etc, news, session, stopped>>

\* u: the next free uid, or the one of -u; g: the group of -g, or 0 for a group of the
\* user's own, with the uid as its gid where that is free.
useradd(t, n, g, m) ==
    LET pw == ob_load(etc.passwd)
        gr == ob_load(etc.group)
    IN  /\ tool[t].pc = "idle" /\ find_name(pw, n) = 0
        /\ \E u \in ob_pwdb_next_uid(pw) \cup {v \in Uids : find_uid(pw, v) = 0} :
              /\ Len(pw) < MaxLines
              /\ IF g # 0
                 THEN /\ find_gid(gr, g) # 0
                      /\ Edited(t, Append(pw, User(n, "*", u, g)), ob_grdb_add_member(gr, find_gid(gr, g), n),
                                IF m THEN {n} ELSE {})
                 ELSE /\ find_name(gr, n) = 0 /\ Len(gr) < MaxLines
                      /\ \E own \in IF find_gid(gr, u) = 0 THEN {u} ELSE ob_grdb_next_gid(gr) :
                            Edited(t, Append(pw, User(n, "*", u, own)), Append(gr, Group(n, own, {n})),
                                   IF m THEN {n} ELSE {})
        /\ UNCHANGED <<homes, removed>>

\* The home directory goes first, whatever becomes of the entries.
userdel(t, n, r) ==
    LET pw == ob_load(etc.passwd)
        gr == ob_load(etc.group)
        i == find_name(pw, n)
        out == ob_grdb_remove_member(gr, n)
        j == find_name(out, n)
    IN  /\ tool[t].pc = "idle" /\ i # 0
        /\ r => n \in homes
        /\ homes' = IF r THEN homes \ {n} ELSE homes
        /\ removed' = IF r THEN removed \cup {n} ELSE removed
        /\ Edited(t, RemoveAt(pw, i), IF j # 0 /\ out[j].gid = pw[i].gid THEN RemoveAt(out, j) ELSE out, {})

usermod(t, n, new, u, g) ==
    LET pw == ob_load(etc.passwd)
        gr == ob_load(etc.group)
        i == find_name(pw, n)
        named == [pw EXCEPT ![i].name = new]
        uix == find_uid(named, u)
    IN  /\ tool[t].pc = "idle" /\ i # 0
        /\ new # n => find_name(pw, new) = 0
        /\ uix # 0 => named[uix].name = new
        /\ g = pw[i].gid \/ find_gid(gr, g) # 0
        /\ Edited(t, [named EXCEPT ![i].uid = u, ![i].gid = g], replace_member_name(gr, n, new), {})
        /\ UNCHANGED <<homes, removed>>

\* Only /etc/passwd is saved.
passwd(t, n) ==
    LET pw == ob_load(etc.passwd)
        i == find_name(pw, n)
    IN  /\ tool[t].pc = "idle" /\ i # 0
        /\ Edited(t, [pw EXCEPT ![i].pass = "hash"], <<>>, {})
        /\ UNCHANGED <<homes, removed>>

login(n, input) ==
    LET pw == ob_load(etc.passwd)
        i == find_name(pw, n)
    IN  /\ i # 0 /\ ob_verify_password(pw[i].pass, input)
        /\ session' = n
        /\ UNCHANGED <<etc, news, tool, homes, stopped, removed, runs>>

-----------------------------------------------------------------------------
(* Saving: ob_write_atomic for passwd, then for group, then the home.       *)

Lines(t, f) == IF f = "passwd" THEN tool[t].pw ELSE tool[t].gr
Done(t) == [tool EXCEPT ![t] = NoTool]

open_tmp(t, f) ==
    /\ tool[t].pc = "open_" \o f
    /\ news' = news \cup {f}
    /\ tool' = [tool EXCEPT ![t].pc = "write_" \o f]
    /\ UNCHANGED <<etc, homes, session, stopped, removed, runs>>

\* All of it, or an error, upon which the new file is removed.
write_tmp(t, f) ==
    /\ tool[t].pc = "write_" \o f
    /\ \/ tool' = [tool EXCEPT ![t].pc = "rename_" \o f] /\ UNCHANGED <<news, stopped>>
       \/ tool' = Done(t) /\ news' = news \ {f} /\ stopped' = TRUE
    /\ UNCHANGED <<etc, homes, session, removed, runs>>

\* The kernel's answer to rename.
sys_rename == "ENOSYS"

\* What follows a save: useradd and the others save the groups next, passwd is done.
AfterSave(t, f) ==
    IF f = "passwd" /\ tool[t].gr # <<>> THEN [tool EXCEPT ![t].pc = "open_group"]
    ELSE IF tool[t].home # {} THEN [tool EXCEPT ![t].pc = "home"] ELSE Done(t)

\* rename, or unlink of the new file and an error.
rename_tmp(t, f) ==
    /\ tool[t].pc = "rename_" \o f
    /\ IF sys_rename = "ok" /\ f \in news
       THEN etc' = [etc EXCEPT ![f] = Lines(t, f)] /\ tool' = AfterSave(t, f)
       ELSE tool' = Done(t) /\ UNCHANGED etc
    /\ news' = news \ {f}
    /\ UNCHANGED <<homes, session, stopped, removed, runs>>

\* acct_mkdir_p and chown.
make_home(t) ==
    /\ tool[t].pc = "home"
    /\ homes' = homes \cup tool[t].home
    /\ tool' = Done(t)
    /\ UNCHANGED <<etc, news, session, stopped, removed, runs>>

killed(t) ==
    /\ tool[t].pc # "idle"
    /\ tool' = Done(t) /\ stopped' = TRUE
    /\ UNCHANGED <<etc, news, homes, session, removed, runs>>

AcNext ==
    \/ \E t \in AcTools :
          \/ \E n \in Logins : \/ \E g \in Uids \cup {0}, m \in BOOLEAN : useradd(t, n, g, m)
                               \/ \E r \in BOOLEAN : userdel(t, n, r)
                               \/ \E new \in Logins, u, g \in Uids : usermod(t, n, new, u, g)
                               \/ passwd(t, n)
          \/ \E f \in {"passwd", "group"} :
                open_tmp(t, f) \/ write_tmp(t, f) \/ rename_tmp(t, f)
          \/ make_home(t) \/ killed(t)
    \/ \E n \in Logins, input \in {"hash", "*", ""} : login(n, input)

AcSpec == AcInit /\ [][AcNext]_acvars

-----------------------------------------------------------------------------

\* "Removes the passwd entry and removes LOGIN from all group member lists.", and with -r
\* the home directory: once every tool has come to its end, none of them stopped on the
\* way, a user whose home directory userdel has removed is gone from both files.
RemovedWhole ==
    ~stopped /\ (\A t \in AcTools : tool[t].pc = "idle") =>
        \A n \in removed : /\ find_name(etc.passwd, n) = 0
                           /\ \A i \in DOMAIN etc.group : n \notin etc.group[i].members

=============================================================================
