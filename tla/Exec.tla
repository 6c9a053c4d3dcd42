-------------------------------- MODULE Exec --------------------------------
(* do_execve: what it holds at every step and gives back on every error     *)
(* path, how the segments of an image end up in the new address space, the  *)
(* initial user stack, and the packed relocations of the interpreter.       *)
EXTENDS Integers, Sequences, FiniteSets, SequencesExt

CONSTANTS
    Dynamic,     \* CONFIG_EXPERIMENTAL_DYNAMIC_ELF
    PageSz,      \* PAGE_SIZE, in bytes of the scaled-down image
    Segments,    \* program headers: [tls, vaddr, filesz, memsz]
    MaxSegs,     \* program headers of an image
    ArgLens,     \* lengths of argument and environment strings
    MaxStrings,  \* arguments, and environment strings
    StackSize,   \* CONFIG_USER_STACK_SIZE
    RelrWidth,   \* bits of a RELR word
    MaxRelr      \* words of a RELR table

VARIABLES
    x,      \* the call: where it is, what it holds, what the process has
    img,    \* segments loaded so far, the bytes mapped, brk
    stk,    \* strings of argv and envp, and the stack pointer
    relr    \* the relocation pass over the interpreter

execvars == <<x, img, stk, relr>>

NoImg == [segs |-> <<>>, mem |-> [a \in {} |-> 0], brk |-> 0]
NoStk == [argv |-> <<>>, envp |-> <<>>, sp |-> 0]
NoRelr == [words |-> <<>>, where |-> -1, hits |-> [a \in {} |-> 0]]

Fresh == [pc |-> "user", mm |-> "old", cred |-> "old", fs |-> "old", spaces |-> {"old"},
          files |-> {}, strs |-> {}, setid |-> FALSE, interp |-> FALSE, tls |-> FALSE]

ExecInit == x = Fresh /\ img = NoImg /\ stk = NoStk /\ relr = NoRelr

-----------------------------------------------------------------------------
(* The error paths, as the code writes them                                 *)

OthersRest == UNCHANGED <<img, stk, relr>>

\* Before the new address space is the process's: `closes` are the files this path closes.
EarlyFail(closes) == [x EXCEPT !.pc = "failed", !.files = @ \ closes, !.strs = {}, !.spaces = @ \ {"new"}]

\* While the image is loaded.
LoadFail == [x EXCEPT !.pc = "failed", !.mm = "old", !.spaces = @ \ {"new"}, !.strs = {}, !.files = {}]

\* Once the credentials are changed.
StackFail == [x EXCEPT !.pc = "failed", !.cred = "old", !.fs = "old", !.mm = "old",
                       !.spaces = @ \ {"new"}, !.strs = {}, !.files = {}]

Goes(pc) == [x EXCEPT !.pc = pc]

-----------------------------------------------------------------------------

open_file ==
    /\ x.pc = "user"
    /\ \E setid \in BOOLEAN : x' = [x EXCEPT !.pc = "permission", !.files = {"main"}, !.setid = setid]
    /\ OthersRest

\* The execute permission, the header, scripts (ENOEXEC for the shell to handle).
check_header ==
    /\ x.pc = "permission"
    /\ x' \in {EarlyFail({"main"}), Goes("interp")}
    /\ OthersRest

\* No PT_INTERP, the program itself, another file, or an error.
read_elf_interp_path == {"none", "self", "interp", "error"}

open_interp ==
    /\ x.pc = "interp"
    /\ \E r \in read_elf_interp_path :
          x' \in CASE r \in {"none", "self"} -> {Goes("format")}
                   [] r = "error" \/ (r = "interp" /\ ~Dynamic) -> {EarlyFail({"main"})}
                   [] OTHER -> {EarlyFail({"main", "interp"}),
                                [x EXCEPT !.files = @ \cup {"interp"}, !.interp = TRUE, !.pc = "format"]}
    /\ OthersRest

\* validate_exec_format and vmm_create_address_space: their errors close the program only.
create_space ==
    /\ x.pc = "format"
    /\ x' \in {EarlyFail({"main"}), [x EXCEPT !.spaces = @ \cup {"new"}, !.pc = "argv"]}
    /\ OthersRest

\* An empty or too long string is E2BIG.
exec_clone_strv(v, next) ==
    /\ x.pc = v
    /\ x' \in {EarlyFail({"main"}),
               [x EXCEPT !.strs = @ \cup {v}, !.pc = next, !.mm = IF v = "envp" THEN "new" ELSE @]}
    /\ OthersRest

-----------------------------------------------------------------------------
(* load_elf_segments                                                       *)

Down(a) == (a \div PageSz) * PageSz
Up(a) == ((a + PageSz - 1) \div PageSz) * PageSz
PagesOf(s) == Down(s.vaddr) .. Up(s.vaddr + s.memsz) - 1

\* What the file holds for an address: a TLS block is part of a loadable segment and agrees with it.
FileByte(a) == a + 1

\* MAP_FIXED replaces what was mapped, zeroes fill the pages, the file bytes go to their addresses.
Mapped(mem, s) ==
    [a \in DOMAIN mem \cup PagesOf(s) |->
        IF a \notin PagesOf(s) THEN mem[a]
        ELSE IF a >= s.vaddr /\ a < s.vaddr + s.filesz THEN FileByte(a)
        ELSE 0]

\* Mutant: only the pages of the file bytes are mapped.
LoadFileOnly(s) ==
    /\ x.pc = "load" /\ Len(img.segs) < MaxSegs
    /\ img' = [segs |-> Append(img.segs, s),
               mem |-> Mapped(img.mem, [s EXCEPT !.memsz = IF s.filesz > 0 THEN s.filesz ELSE 1]),
               brk |-> IF Up(s.vaddr + s.memsz) > img.brk THEN Up(s.vaddr + s.memsz) ELSE img.brk]
    /\ UNCHANGED <<x, stk, relr>>

load_segment(s) ==
    /\ x.pc = "load" /\ Len(img.segs) < MaxSegs
    /\ IF s.filesz > s.memsz
       THEN x' = LoadFail /\ img' = NoImg
       ELSE /\ img' = IF s.memsz = 0 THEN [img EXCEPT !.segs = Append(@, s)]
                      ELSE [segs |-> Append(img.segs, s),
                            mem |-> Mapped(img.mem, s),
                            brk |-> IF Up(s.vaddr + s.memsz) > img.brk THEN Up(s.vaddr + s.memsz) ELSE img.brk]
            /\ UNCHANGED x
    /\ UNCHANGED <<stk, relr>>

\* No memory, a short read, no program headers in memory; else on to the interpreter or the stack.
load_ends ==
    /\ x.pc = "load"
    /\ \/ x' = LoadFail /\ img' = NoImg
       \/ img.segs # <<>> /\ x' = Goes("loaded") /\ UNCHANGED img
    /\ UNCHANGED <<stk, relr>>

\* Of the segments only a TLS block is looked at again.
segments_done ==
    /\ x.pc = "loaded"
    /\ x' = [x EXCEPT !.pc = IF x.interp THEN "relr" ELSE "cred", !.tls = \E i \in DOMAIN img.segs : img.segs[i].tls]
    /\ img' = NoImg
    /\ UNCHANGED <<stk, relr>>

-----------------------------------------------------------------------------
(* apply_dt_relr: an even word is an address (here its index), an odd one a *)
(* bitmap of the words after the last address.                              *)

Hit(hits, as) == [a \in DOMAIN hits \cup as |-> (IF a \in DOMAIN hits THEN hits[a] ELSE 0) + (IF a \in as THEN 1 ELSE 0)]

relr_word(w) ==
    /\ x.pc = "relr" /\ Len(relr.words) < MaxRelr
    /\ IF w.addr
       THEN /\ relr' = [words |-> Append(relr.words, w), where |-> w.at + 1, hits |-> Hit(relr.hits, {w.at})]
            /\ UNCHANGED x
       ELSE IF relr.where = -1 THEN x' = LoadFail /\ UNCHANGED relr
       ELSE /\ relr' = [words |-> Append(relr.words, w), where |-> relr.where + RelrWidth - 1,
                        hits |-> Hit(relr.hits, {relr.where + i : i \in w.bits})]
            /\ UNCHANGED x
    /\ UNCHANGED <<img, stk>>

\* The symbol table is needed from here on.
relr_ends ==
    /\ x.pc = "relr"
    /\ x' \in {LoadFail, Goes("rela")} /\ relr' = NoRelr
    /\ UNCHANGED <<img, stk>>

\* An entry of DT_RELA or DT_JMPREL: IRELATIVE is left to the loader, an undefined symbol or
\* an unknown type ends the exec.
apply_rela_range(type) ==
    /\ x.pc = "rela"
    /\ x' = IF type \in {"relative", "irelative", "symbol"} THEN x ELSE LoadFail
    /\ OthersRest

relocations_end ==
    /\ x.pc = "rela"
    /\ x' \in {LoadFail, Goes("cred")}
    /\ OthersRest

-----------------------------------------------------------------------------
(* setup_user_stack                                                        *)

apply_setid ==
    /\ x.pc = "cred"
    /\ x' = [x EXCEPT !.cred = IF x.setid THEN "file" ELSE @, !.pc = "stack"]
    /\ OthersRest

push_string(len) ==
    /\ x.pc = "stack" /\ stk.sp = 0
    /\ \/ Len(stk.argv) < MaxStrings /\ stk' = [stk EXCEPT !.argv = Append(@, len)]
       \/ Len(stk.envp) < MaxStrings /\ stk' = [stk EXCEPT !.envp = Append(@, len)]
    /\ UNCHANGED <<x, img, relr>>

AuxPairs == 20
Slots(argc, envc) == 1 + (argc + 1) + (envc + 1) + AuxPairs * 2
StringBytes == FoldSeq(+, 0, stk.argv) + FoldSeq(+, 0, stk.envp) + 8 + 16 + 7

Pad(n) == n % 2

\* From the top: strings, file name, random seed and platform, aligned down; then the vectors.
FinalSp == ((StackSize - StringBytes) \div 16) * 16
           - 8 * (Slots(Len(stk.argv), Len(stk.envp)) + Pad(Slots(Len(stk.argv), Len(stk.envp))))

setup_user_stack ==
    /\ x.pc = "stack" /\ stk.sp = 0
    /\ \/ /\ FinalSp >= 0
          /\ stk' = [stk EXCEPT !.sp = FinalSp]
          /\ x' = [x EXCEPT !.pc = "tls", !.strs = {}]
       \/ stk' = NoStk /\ x' = StackFail
    /\ UNCHANGED <<img, relr>>

\* The image's TLS block, or a page of its own below the stack.
map_tls ==
    /\ x.pc = "tls"
    /\ \/ x' = [x EXCEPT !.fs = "new", !.pc = "commit"]
       \/ ~x.tls /\ x' = StackFail
    /\ OthersRest

\* Nothing can fail any more: the old address space goes, the new program runs.
commit ==
    /\ x.pc = "commit"
    /\ x' = [x EXCEPT !.files = {}, !.spaces = {"new"}, !.pc = "running"]
    /\ OthersRest

again ==
    /\ x.pc \in {"failed", "running"}
    /\ x' = Fresh /\ img' = NoImg /\ stk' = NoStk /\ relr' = NoRelr

Words == [addr : {TRUE}, at : {0, 9}, bits : {{}}] \cup [addr : {FALSE}, at : {0}, bits : SUBSET (0 .. RelrWidth - 2)]

\* Loadable segments do not overlap; a TLS block follows the segment its file bytes are part of.
WellFormed(s) ==
    IF s.tls
    THEN \E i \in DOMAIN img.segs : /\ ~img.segs[i].tls /\ s.vaddr >= img.segs[i].vaddr
                                    /\ s.vaddr + s.filesz <= img.segs[i].vaddr + img.segs[i].filesz
    ELSE \A i \in DOMAIN img.segs :
             img.segs[i].tls \/ (s.vaddr .. s.vaddr + s.memsz - 1)
                                \cap (img.segs[i].vaddr .. img.segs[i].vaddr + img.segs[i].memsz - 1) = {}

ExecNext ==
    \/ open_file \/ check_header \/ open_interp \/ create_space
    \/ exec_clone_strv("argv", "envp") \/ exec_clone_strv("envp", "load")
    \/ \E s \in Segments : WellFormed(s) /\ load_segment(s)
    \/ load_ends \/ segments_done
    \/ \E w \in Words : relr_word(w)
    \/ relr_ends \/ \E t \in {"relative", "irelative", "symbol", "undefined", "other"} : apply_rela_range(t)
    \/ relocations_end \/ apply_setid
    \/ \E len \in ArgLens : push_string(len)
    \/ setup_user_stack \/ map_tls \/ commit \/ again

ExecSpec == ExecInit /\ [][ExecNext]_execvars

-----------------------------------------------------------------------------

\* The words RELR names, from its definition: bit i of the k-th bitmap after an address a
\* stands for the word a + 1 + (k - 1) * (width - 1) + i.
BitmapBase(j) ==
    LET k == CHOOSE k \in 1 .. j : relr.words[k].addr /\ \A l \in k + 1 .. j : ~relr.words[l].addr
    IN  relr.words[k].at + 1 + (j - k - 1) * (RelrWidth - 1)
Named(j) == IF relr.words[j].addr THEN {relr.words[j].at} ELSE {BitmapBase(j) + i : i \in relr.words[j].bits}

Alone(i) == \A j \in DOMAIN img.segs : j # i => PagesOf(img.segs[i]) \cap PagesOf(img.segs[j]) = {}
Loaded(i) ==
    LET s == img.segs[i]
    IN  s.memsz > 0 => /\ PagesOf(s) \subseteq DOMAIN img.mem
                       /\ \A a \in s.vaddr .. s.vaddr + s.memsz - 1 :
                             img.mem[a] = IF a < s.vaddr + s.filesz THEN FileByte(a) ELSE 0

\* A failed exec leaves the process, its credentials and its %fs as they were and frees all it
\* took, but for the interpreter's file when it fails between opening it and loading; one that
\* succeeds drops the old address space. A segment on pages of its own is in memory whole,
\* its bss zero and brk above it; each word RELR names is relocated once per mention; and
\* the stack pointer is aligned to 16 bytes for any number of strings.
ExecOK ==
    /\ x.pc = "failed" => /\ x.mm = "old" /\ x.cred = "old" /\ x.fs = "old" /\ x.spaces = {"old"} /\ x.strs = {}
                          /\ x.files \subseteq {"interp"}
    /\ x.pc = "running" => /\ x.mm = "new" /\ x.spaces = {"new"} /\ x.files = {} /\ x.strs = {}
                           /\ (x.cred = "file") = x.setid
    /\ \A i \in DOMAIN img.segs : /\ Alone(i) => Loaded(i)
                                  /\ img.segs[i].memsz > 0 => img.brk >= img.segs[i].vaddr + img.segs[i].memsz
    /\ relr.hits = FoldSeq(LAMBDA j, h : Hit(h, Named(j)), NoRelr.hits, [j \in DOMAIN relr.words |-> j])
    /\ stk.sp % 16 = 0

=============================================================================
