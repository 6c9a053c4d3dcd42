----------------------------- MODULE MCProcRes -----------------------------
(* ProcRes for TLC: two processes, few files, one reserved descriptor      *)
(* instead of three.                                                       *)
EXTENDS ProcRes, TLC

MCPlain == {{}}

MCAllCalls == {"dup", "dup2", "ioctl", "execve", "threads", "interp"}

MCSymmetry ==
    Permutations(FileObjs) \cup Permutations(Tables) \cup Permutations(Spaces)
        \cup Permutations(Procs \ {InitProc})

============================================================================
