------------------------------ MODULE Readdir ------------------------------
(***************************************************************************)
(* Listing a directory with getdents64 (syscall.c) over axiomfs_readdir:   *)
(* each call puts as many entries into the buffer as it has room for and   *)
(* leaves the position in the file for the next.  The position counts the  *)
(* entries of the directory's list, to which new entries are added at the  *)
(* front while a listing is under way.                                     *)
(***************************************************************************)
EXTENDS Integers, SequencesExt

CONSTANTS
    Entries,    \* names of entries
    RecLen,     \* bytes of the record of a name, with "." and ".."
    Counts,     \* bytes of the buffers that are passed
    MaxGot      \* bound on the length of a listing

ASSUME ReaddirAssumption ==
    /\ Counts \subseteq Nat /\ MaxGot \in Nat
    /\ RecLen \in [Entries \cup {".", ".."} -> Nat \ {0}]

VARIABLES
    d_subdirs,  \* the directory's list
    dir_pos,    \* the position of the open directory
    listed,     \* what the listing has given so far
    ended,      \* a call has returned 0
    stayed,     \* entries that are there since the listing began
    made, gone, \* an entry was added, or removed, since
    misused     \* a call since had a buffer smaller than the largest record, or not writable

dirvars == <<d_subdirs, dir_pos, listed, ended, stayed, made, gone, misused>>

----------------------------------------------------------------------------
\* S: what a call has put out, the room that is left, and whether an entry did not fit.
filldir_getdents64(S, name, at) ==
    IF RecLen[name] > S.room THEN [S EXCEPT !.full = TRUE]
    ELSE [S EXCEPT !.out = Append(@, name), !.room = @ - RecLen[name], !.pos = at + 1]

\* "." and ".." are at positions 0 and 1. filldir_getdents64 has moved the position behind
\* the entry already, and axiomfs_readdir moves it on once more: "." is followed by 2.
Dots(S, name, at) ==
    LET T == filldir_getdents64(S, name, at)
    IN  IF S.full \/ S.pos # at THEN S
        ELSE IF T.full THEN T ELSE [T EXCEPT !.pos = @ + 1]

\* Mutant of Emit: the entry before the position is given again.
EmitAgain(S, i) == IF ~S.full /\ i + 2 >= S.pos THEN filldir_getdents64(S, d_subdirs[i], i + 1) ELSE S

\* The i-th of the list is at position i + 1.
Emit(S, i) == IF ~S.full /\ i + 1 >= S.pos THEN filldir_getdents64(S, d_subdirs[i], i + 1) ELSE S

axiomfs_readdir(S) ==
    FoldLeft(Emit, Dots(Dots(S, ".", 0), "..", 1), [i \in 1 .. Len(d_subdirs) |-> i])

----------------------------------------------------------------------------
ReaddirInit ==
    /\ d_subdirs = <<>> /\ dir_pos = 0 /\ listed = <<>> /\ ended = FALSE
    /\ stayed = {} /\ made = FALSE /\ gone = FALSE /\ misused = FALSE

\* The directory is opened, or wound back to its start.
rewind ==
    /\ dir_pos' = 0 /\ listed' = <<>> /\ ended' = FALSE
    /\ stayed' = Range(d_subdirs) /\ made' = FALSE /\ gone' = FALSE /\ misused' = FALSE
    /\ UNCHANGED d_subdirs

\* A call without room for the next record returns 0, as at the end. The position has moved
\* on when the entries cannot be copied to the caller (fault).
sys_getdents64(count, fault) ==
    LET S == axiomfs_readdir([out |-> <<>>, room |-> count, pos |-> dir_pos, full |-> FALSE])
        got == IF fault THEN <<>> ELSE S.out
    IN  /\ ~ended /\ Len(listed) + Len(got) <= MaxGot
        /\ dir_pos' = S.pos /\ listed' = listed \o got /\ ended' = (S.out = <<>>)
        /\ misused' = (misused \/ fault \/ count < Max(Range(RecLen)))
        /\ UNCHANGED <<d_subdirs, stayed, made, gone>>

create(name) ==
    /\ name \notin Range(d_subdirs)
    /\ d_subdirs' = <<name>> \o d_subdirs /\ made' = TRUE
    /\ UNCHANGED <<dir_pos, listed, ended, stayed, gone, misused>>

unlink(name) ==
    /\ name \in Range(d_subdirs)
    /\ d_subdirs' = Remove(d_subdirs, name) /\ stayed' = stayed \ {name} /\ gone' = TRUE
    /\ UNCHANGED <<dir_pos, listed, ended, made, misused>>

ReaddirNext ==
    \/ rewind
    \/ \E count \in Counts, fault \in BOOLEAN : sys_getdents64(count, fault)
    \/ \E name \in Entries : create(name) \/ unlink(name)

ReaddirSpec == ReaddirInit /\ [][ReaddirNext]_dirvars

----------------------------------------------------------------------------
\* However the buffers of the calls divide it, a listing during which nothing is removed
\* gives every entry that was there from its start to its end, provided that every buffer
\* is writable and has room for the largest record, and one during which nothing is added
\* gives no name twice.  (An entry added at the front moves the others behind the position
\* once more, and one removed there moves another in front of it.)  "." comes first, and
\* "..", which the comment of dir.c:43 announces, never.
ListingOK ==
    /\ ended /\ ~gone /\ ~misused => stayed \cup {"."} \subseteq Range(listed)
    /\ ~made => IsInjective(listed)
    /\ ".." \notin Range(listed)
    /\ listed # <<>> /\ ~misused => Head(listed) = "."

=============================================================================
