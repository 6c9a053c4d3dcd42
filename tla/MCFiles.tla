------------------------------ MODULE MCFiles ------------------------------
(* The file system, its import at boot, what is read and written through   *)
(* descriptors and what holds them, the policy cache, System V IPC and the *)
(* console, for TLC.  The modules share no variable, so one of them moves  *)
(* and the others rest in their initial states.                            *)
EXTENDS MCVfs, Initramfs, ProcRes, AxiomFile, Policy, Ipc, Input, Readdir, Transfer

MCInodes == [kr |-> 1, kw |-> 2]

\* Records of two lengths, so that a buffer ends between and before records.
MCRecLen == [n \in Entries \cup {".", ".."} |-> IF n \in {"a", ".."} THEN 2 ELSE 1]

BootTags == {[type |-> "module", name |-> "rootfs"], [type |-> "module", name |-> "kernel"],
             [type |-> "acpi_old"], [type |-> "acpi_new"],
             [type |-> "cmdline", tokens |-> <<"quiet", "cli">>]}

Header(t, p, d, l) == [type |-> t, path |-> p, data |-> d, link |-> l]

\* Files that replace each other, one below a directory that has no header of its own, a
\* path with "..", and the types that unpacking treats apart.
TarHeaders ==
    {Header("file", <<"a">>, d, <<>>) : d \in {<<"x">>, <<"y", "y">>}}
        \cup {Header("file", <<"b", "/", "/", "a">>, d, <<>>) : d \in {<<>>, <<"y", "y">>}}
        \cup {Header("dir", <<".", "/", "b">>, <<>>, <<>>),
              Header("symlink", <<"b">>, <<>>, <<"/", "a">>),
              Header("file", <<"b", "/", ".", ".", "/", "a">>, <<"x">>, <<>>),
              Header("other", <<"b">>, <<"x">>, <<>>)}

\* The calls that keep the counts of the files right.
MCShareAll == SUBSET {"VM", "FILES"}
MCCountedCalls == {"dup", "dup2", "execve", "interp"}

VARIABLE part    \* the module that moves

treevars == <<vfsvars, tarvars, resvars>>
iovars == <<afvars, dirvars, xfervars>>
talkvars == <<polvars, ipcvars, invars>>

MCInit ==
    /\ part \in {"vfs", "initramfs", "held", "file", "readdir", "transfer", "policy", "ipc", "input"}
    /\ VfsInit /\ TarInit /\ ResInit /\ AfInit /\ ReaddirInit /\ XferInit
    /\ PolicyInit /\ IpcInit /\ InputInit
    /\ files[InitProc] = (CHOOSE t \in Tables : TRUE) /\ mm[InitProc] = (CHOOSE s \in Spaces : TRUE)

\* At most one descriptor of a table is closed by execve.
FewClosed == \A t \in Tables : Cardinality(tab[t].cloexec) <= 1

MCNext ==
    \/ part = "vfs" /\ VfsNext /\ UNCHANGED <<part, tarvars, resvars, iovars, talkvars>>
    \/ part = "initramfs" /\ TarNext /\ UNCHANGED <<part, vfsvars, resvars, iovars, talkvars>>
    \/ part = "held" /\ ResNext /\ FewClosed' /\ UNCHANGED <<part, vfsvars, tarvars, iovars, talkvars>>
    \/ part = "file" /\ AfNext /\ UNCHANGED <<part, treevars, dirvars, xfervars, talkvars>>
    \/ part = "readdir" /\ ReaddirNext /\ UNCHANGED <<part, treevars, afvars, xfervars, talkvars>>
    \/ part = "transfer" /\ XferNext /\ UNCHANGED <<part, treevars, afvars, dirvars, talkvars>>
    \/ part = "policy" /\ PolicyNext /\ UNCHANGED <<part, treevars, iovars, ipcvars, invars>>
    \/ part = "ipc" /\ IpcNext /\ UNCHANGED <<part, treevars, iovars, polvars, invars>>
    \/ part = "input" /\ InputNext /\ UNCHANGED <<part, treevars, iovars, polvars, ipcvars>>

MCSpec == MCInit /\ [][MCNext]_<<part, treevars, iovars, talkvars>>
=============================================================================
