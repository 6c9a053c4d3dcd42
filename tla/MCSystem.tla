------------------------------ MODULE MCSystem ------------------------------
(* Programs, credentials, names and the network, for TLC.                  *)
(* The modules share no variable, so one of them moves and the others rest *)
(* in their initial states.                                                *)
EXTENDS Exec, NetCore, Tcp, Nic, Creds, Sysctl, Paths

\* Segments that start in a page and at its last byte, with and without bytes of the
\* file, with and without bytes behind them.
ElfSegments == [tls : BOOLEAN, vaddr : {0, 3}, filesz : {0, 2}, memsz : {0, 1, 3}]

\* A lease in the subnet of the static address, and one in another without a gateway.
DhcpLeases == {[ip |-> <<1, 7>>, gw |-> <<1, 2>>], [ip |-> <<2, 8>>, gw |-> <<0, 0>>]}

\* A host that is behind the gateway of the static address and of the first lease, and
\* next to the machine under the second.
Peers == {<<2, 3>>}

Reg(p, t, r, i) == [path |-> p, type |-> t, ro |-> r, init |-> i]
Variables == <<
    Reg(<<"system", "kernel", "version">>, "string", TRUE, <<4, 0, 0>>),
    Reg(<<"system", "kernel", "panic">>, "int", FALSE, <<1, 0>>),
    Reg(<<"system", "cpu", "count">>, "uint", TRUE, <<1, 0>>),
    Reg(<<"system", "kernel", "hostname">>, "hostname", FALSE, <<4, 0, 0>>),
    Reg(<<"kernel", "domainname">>, "string", FALSE, <<0, 0, 0>>),
    Reg(<<"system", "kernel", "boot_time">>, "ulong", TRUE, <<2, 0, 1>>),
    Reg(<<"system", "fs", "axiomfs", "policy_enabled">>, "bool", FALSE, <<1>>),
    Reg(<<"system", "cpu", "switches">>, "counter", TRUE, <<>>),
    Reg(<<"system", "scheduler", "timeslice">>, "uint", FALSE, <<5, 1>>)>>
Values == {<<2, 3>>, <<5, 4, 4>>, <<3, 3, 3, 3>>}

Abs(c) == [abs |-> TRUE, comps |-> c]
Rel(c) == [abs |-> FALSE, comps |-> c]
SomePaths == {Abs(<<>>), Abs(<<"a">>), Rel(<<"a">>), Rel(<<"b">>), Rel(<<"..">>), Rel(<<"..", "b">>)}

VARIABLE part    \* the module that moves

commvars == <<netvars, tcpvars, nicvars>>
namevars == <<sysctlvars, pathvars>>

\* The network from the start of the machine, and its ring of events after DHCP gave up.
MCInit ==
    /\ part \in {"exec", "net", "ring", "tcp", "nic", "creds", "sysctl", "paths"}
    /\ ExecInit /\ TcpInit /\ NicInit /\ CredInit /\ SysctlInit /\ PathInit
    /\ IF part = "ring" THEN NetStart(NetGivenUp, Deadline + 1) ELSE NetInit
    /\ part # "creds" => live = {1}
    /\ part # "tcp" => arp

\* One socket, one message of each kind on the way.
OneEach == net.serial <= 1 /\ net.icmp <= 1 /\ \A s \in Socks \ {1} : dgs[s] = NoSock

\* Datagrams in, none out.
RingOnly ==
    /\ net.icmp = 0 /\ net.arp = <<>> /\ net.tx = {}
    /\ \A s \in Socks : dgs[s].type # "raw" /\ dgs[s].call # "send"

\* While there are two processes, each has one user and one group.
Alike == Cardinality(live) = 2 => \A p \in live : Cardinality(lu[p]) = 1 /\ lg[p] = Holds(cg[p]) /\ Cardinality(lg[p]) = 1

\* Processes come and go while the variables are as registered: their list reads none of them.
ListFirst == pid_table = {} \/ data = [k \in DOMAIN Regs |-> Regs[k].init]

MCNext ==
    \/ part = "exec" /\ ExecNext /\ UNCHANGED <<part, commvars, credvars, namevars>>
    \/ part = "net" /\ NetNext /\ OneEach' /\ UNCHANGED <<part, execvars, tcpvars, nicvars, credvars, namevars>>
    \/ part = "ring" /\ NetNext /\ RingOnly' /\ UNCHANGED <<part, execvars, tcpvars, nicvars, credvars, namevars>>
    \/ part = "tcp" /\ TcpNext /\ UNCHANGED <<part, execvars, netvars, nicvars, credvars, namevars>>
    \/ part = "nic" /\ NicNext /\ UNCHANGED <<part, execvars, netvars, tcpvars, credvars, namevars>>
    \/ part = "creds" /\ CredNext /\ Alike' /\ UNCHANGED <<part, execvars, commvars, namevars>>
    \/ part = "sysctl" /\ SysctlNext /\ ListFirst' /\ UNCHANGED <<part, execvars, commvars, credvars, pathvars>>
    \/ part = "paths" /\ PathNext /\ UNCHANGED <<part, execvars, commvars, credvars, sysctlvars>>

\* The fairness of TcpFair.
MCFairness ==
    /\ WF_tcpvars(part = "tcp" /\ irq_tick)
    /\ WF_tcpvars(part = "tcp" /\ connect_loop)
    /\ WF_tcpvars(part = "tcp" /\ send_loop)
    /\ WF_tcpvars(part = "tcp" /\ recv_loop)

MCSpec == MCInit /\ [][MCNext]_<<part, execvars, commvars, credvars, namevars>> /\ MCFairness
=============================================================================
