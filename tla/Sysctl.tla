------------------------------- MODULE Sysctl -------------------------------
(***************************************************************************)
(* The tree of kernel variables (kernel/sysctl) with the system calls and  *)
(* the command that read and write them.  The kernel registers its         *)
(* variables one by one at boot; from then on they are found by path,      *)
(* written as bytes and read as text.                                      *)
(*                                                                         *)
(* A byte is below Base, and 0 ends a string.  The digits, a letter and    *)
(* the sign are the printable ones.  Numbers are little-endian.            *)
(***************************************************************************)
EXTENDS Integers, SequencesExt

CONSTANTS
    Regs,       \* the registrations in their order: [path, type, ro, init]
    Texts,      \* values given to the command sysctl -w
    Width,      \* bytes of an int
    StrLen,     \* bytes of a string variable
    Caps,       \* bytes of the buffer for the list of processes
    Pids,       \* process identifiers
    MaxCount    \* bound on context switches; like the kernel's counters, far below the
                \* numbers all of whose bytes but the last are printable

ASSUME SysctlAssumption ==
    /\ Width \in Nat \ {0} /\ StrLen \in Nat \ {0} /\ Caps \subseteq Nat
    /\ Pids \subseteq Nat /\ MaxCount \in 0 .. 7

VARIABLES
    sysctl_root,   \* the nodes in the order they were made; the first is the root
    done,          \* registrations made
    data,          \* the bytes of each variable
    meant,         \* the last text that a write of the variable reported as done
    count,         \* scheduler_get_switches()
    pid_table      \* the processes there are

sysctlvars == <<sysctl_root, done, data, meant, count, pid_table>>

Base == 8
Radix == 2
Nul == 0
Letter == 4
Sign == 5
Space == 6
Digit(d) == 2 + d
Printable(b) == b \in {Digit(0), Digit(1), Letter, Sign, Space}

Shorter(a, b) == IF a < b THEN a ELSE b

----------------------------------------------------------------------------
\* Conversions.

Number(bytes) == FoldRight(LAMBDA b, n : b + Base * n, bytes, 0)

fmt_ulong(v) ==
    LET f[n \in 0 .. v] == IF n < Radix THEN <<Digit(n)>> ELSE Append(f[n \div Radix], Digit(n % Radix))
    IN  f[v]

fmt_long(v) == IF v < 0 THEN <<Sign>> \o fmt_ulong(-v) ELSE fmt_ulong(v)

\* An int or a long is negative from half of its range on.
Signed(bytes) ==
    LET n == Number(bytes)
        range == Base ^ Len(bytes)
    IN  IF 2 * n >= range THEN n - range ELSE n

\* The bytes up to the first 0 (strncpy, printf).
CString(bytes) ==
    LET end == SelectInSeq(bytes, LAMBDA b : b = Nul)
    IN  IF end = 0 THEN bytes ELSE SubSeq(bytes, 1, end - 1)

----------------------------------------------------------------------------
\* The tree. 0 is no node.

Node(name, parent) == [name |-> name, parent |-> parent, type |-> "node", ro |-> FALSE, reg |-> 0]

\* New children go to the front of the list, so the latest is found first.
ChildOf(tree, at, name) ==
    LET s == {i \in DOMAIN tree : tree[i].parent = at /\ tree[i].name = name}
    IN  IF s = {} THEN 0 ELSE CHOOSE i \in s : \A j \in s : j <= i

\* The name of the root may be left out.
FromRoot(path) == IF path # <<>> /\ Head(path) = "system" THEN Tail(path) ELSE path

sysctl_lookup(path) ==
    FoldLeft(LAMBDA at, name : IF at = 0 THEN 0 ELSE ChildOf(sysctl_root, at, name), 1, FromRoot(path))

register_child(S, name) ==
    LET child == ChildOf(S.tree, S.at, name)
    IN  IF child # 0 THEN [S EXCEPT !.at = child]
        ELSE [tree |-> Append(S.tree, Node(name, S.at)), at |-> Len(S.tree) + 1]

sysctl_register_node(path) == FoldLeft(register_child, [tree |-> sysctl_root, at |-> 1], FromRoot(path))

\* sysctl_register_int, _uint, _long, _ulong, _bool, _string and _handler.
sysctl_register(k) ==
    LET S == sysctl_register_node(Regs[k].path)
    IN  /\ done = k - 1
        /\ sysctl_root' = [S.tree EXCEPT ![S.at].type = Regs[k].type, ![S.at].ro = Regs[k].ro, ![S.at].reg = k]
        /\ done' = k
        /\ UNCHANGED <<data, meant, count, pid_table>>

----------------------------------------------------------------------------
\* Bytes over the first ones of a variable; the rest stays (memcpy).
Copied(old, bytes, n) == SubSeq(bytes, 1, n) \o SubSeq(old, n + 1, Len(old))

hostname_write(old, bytes) ==
    LET n == Shorter(Len(bytes), StrLen - 1)
    IN  Copied(old, SubSeq(bytes, 1, n) \o <<Nul>>, n + 1)

\* What a write leaves in the variable of a node.
sysctl_write(n, bytes) ==
    LET old == data[sysctl_root[n].reg]
    IN  IF sysctl_root[n].type = "hostname" THEN hostname_write(old, bytes)
        ELSE Copied(old, bytes, Shorter(Len(bytes), Len(old)))

\* A variable that is read only, a directory and a path that is not there are refused.
sys_sysctl(path, bytes) ==
    LET n == sysctl_lookup(path)
    IN  /\ n # 0 /\ sysctl_root[n].type # "node" /\ ~sysctl_root[n].ro
        /\ data' = [data EXCEPT ![sysctl_root[n].reg] = sysctl_write(n, bytes)]

\* sysctl -w: the command passes the text with its end.
command_write(k, text) ==
    /\ done = Len(Regs)
    /\ sys_sysctl(Regs[k].path, Append(text, Nul))
    /\ meant' = [meant EXCEPT ![k] = text]
    /\ UNCHANGED <<sysctl_root, done, count, pid_table>>

\* A number of the kernel as the bytes of an unsigned long: switches, uptime, memory, drops.
counter_handler(v) == [i \in 1 .. Width + 1 |-> (v \div Base ^ (i - 1)) % Base]

\* What a handler returns is taken for a string when it ends in its only 0 and is printable.
is_cstr(raw) ==
    /\ raw # <<>> /\ Last(raw) = Nul
    /\ \A i \in 1 .. Len(raw) - 1 : Printable(raw[i])

TrueText == <<Letter>>
FalseText == <<Letter, Letter>>

\* sysctl path: the text that is printed.
sysctl_read_string(path) ==
    LET n == sysctl_root[sysctl_lookup(path)]
        raw == IF n.type = "hostname" THEN Append(CString(data[n.reg]), Nul) ELSE counter_handler(count)
    IN  CASE n.type \in {"int", "long"} -> fmt_long(Signed(data[n.reg]))
          [] n.type \in {"uint", "ulong"} -> fmt_ulong(Number(data[n.reg]))
          [] n.type = "bool" -> IF data[n.reg] = <<0>> THEN FalseText ELSE TrueText
          [] n.type = "string" -> CString(data[n.reg])
          [] n.type \in {"hostname", "counter"} ->
                IF is_cstr(raw) THEN CString(raw) ELSE fmt_ulong(Number(raw))

----------------------------------------------------------------------------
\* The list of processes for ps: a number, a space, a name and the end of the line for
\* each; an error when the buffer has no room left after a piece.
Comm(pid) == IF pid = 1 THEN <<Letter>> ELSE <<Letter, Letter>>
LineEnd == 1
NoRoom == <<-1>>

Line(pid) == fmt_ulong(pid) \o <<Space>> \o Comm(pid) \o <<LineEnd>>

\* A number or a name goes in as far as there is room for a further byte.
PutPiece(cap, out, piece) ==
    IF out = NoRoom THEN out
    ELSE LET fits == Shorter(Len(piece), IF Len(out) + 1 < cap THEN cap - 1 - Len(out) ELSE 0)
         IN  out \o SubSeq(piece, 1, fits)

\* Mutant of put_line: the room is checked once for each line.
PutLineOneCheck(cap, out, pid) ==
    LET number == PutPiece(cap, out, fmt_ulong(pid))
    IN  IF out = NoRoom \/ Len(number) + 1 >= cap THEN NoRoom
        ELSE PutPiece(cap, PutPiece(cap, Append(number, Space), Comm(pid)), <<LineEnd>>)

put_line(cap, out, pid) ==
    LET number == PutPiece(cap, out, fmt_ulong(pid))
        name == PutPiece(cap, Append(number, Space), Comm(pid))
    IN  IF out = NoRoom \/ Len(number) + 1 >= cap \/ Len(name) + 1 >= cap THEN NoRoom
        ELSE Append(name, LineEnd)

InOrder == SetToSortSeq(pid_table, <)

sysctl_proc_list_handler(cap) == FoldLeft(LAMBDA out, pid : put_line(cap, out, pid), <<>>, InOrder)

----------------------------------------------------------------------------
SysctlInit ==
    /\ sysctl_root = <<Node("system", 0)>> /\ done = 0
    /\ data = [k \in DOMAIN Regs |-> Regs[k].init] /\ meant = [k \in DOMAIN Regs |-> CString(Regs[k].init)]
    /\ count = 0 /\ pid_table = {}

switch ==
    /\ done = Len(Regs) /\ count < MaxCount
    /\ count' = count + 1 /\ UNCHANGED <<sysctl_root, done, data, meant, pid_table>>

processes ==
    /\ done = Len(Regs)
    /\ \E pid \in Pids : pid_table' = IF pid \in pid_table THEN pid_table \ {pid} ELSE pid_table \cup {pid}
    /\ UNCHANGED <<sysctl_root, done, data, meant, count>>

SysctlNext ==
    \/ \E k \in DOMAIN Regs : sysctl_register(k)
    \/ \E k \in DOMAIN Regs, text \in Texts : command_write(k, text)
    \/ switch
    \/ processes

SysctlSpec == SysctlInit /\ [][SysctlNext]_sysctlvars

----------------------------------------------------------------------------
\* The value of a text of digits, the inverse of what is printed.
Parsed(text) == FoldLeft(LAMBDA n, c : Radix * n + (c - Digit(0)), 0, text)

\* Every variable registered so far is found under its path, as what it was registered
\* as, whatever was registered after it under a common prefix.  What reads print is what
\* is there: a name that was written comes back, a host name cut to its buffer; a number
\* comes back as the digits of its value, also where the handler's bytes have to be told
\* from a string; a variable that is read only stays as it was.  A list of processes that
\* is returned has every process, whole.
SysctlOK ==
    /\ \A k \in 1 .. done :
          LET n == sysctl_lookup(Regs[k].path)
              shown == sysctl_read_string(Regs[k].path)
          IN  /\ n # 0 /\ sysctl_root[n].type = Regs[k].type /\ sysctl_root[n].reg = k
              /\ CASE Regs[k].type = "hostname" ->
                        shown = SubSeq(meant[k], 1, Shorter(Len(meant[k]), StrLen - 1))
                   [] Regs[k].type = "string" -> Len(meant[k]) < StrLen => shown = meant[k]
                   [] Regs[k].type \in {"uint", "ulong"} -> Parsed(shown) = Number(data[k])
                   [] Regs[k].type = "counter" -> Parsed(shown) = count
                   [] OTHER -> TRUE
              /\ Regs[k].ro => data[k] = Regs[k].init
    /\ \A cap \in Caps :
          LET list == sysctl_proc_list_handler(cap)
          IN  list # NoRoom => list = FlattenSeq([i \in DOMAIN InOrder |-> Line(InOrder[i])])
=============================================================================
