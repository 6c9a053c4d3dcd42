----------------------------- MODULE Initramfs ------------------------------
(* What the boot loader hands over: the Multiboot2 tags bootinfo_init reads  *)
(* and the root archive: the scanner of initramfs_scan.zig walks it, then    *)
(* initramfs_unpack_tar imports it member by member. The archive is built    *)
(* block by block (a header, a payload, zeros), so that it may end anywhere. *)
(* The scanner also accepts cpio archives of the format newc, which          *)
(* initramfs_unpack_tar then reads as tar.                                   *)
(* A path is a sequence of "/", "." and letters.                             *)
EXTENDS Integers, SequencesExt, FiniteSets

CONSTANTS
    Tags,         \* tags of the boot information
    MaxTags,
    LoadTags,     \* tags when an archive is loaded, at most: the two are independent
    MaxModules,   \* OBELISK_BOOT_MAX_MODULES
    Headers,      \* tar headers: type, path, data (what its payload holds), link
    MaxBlocks     \* blocks of an archive

VARIABLES
    tags,      \* tags read so far
    info,      \* module names, RSDP and command line recorded
    archive,   \* blocks: a header, "payload", "zero" or "noname"; in newc "cpio" or "trailer"
    at,        \* the block unpacking is at
    read,      \* headers unpacking has read
    tree,      \* the root file system: path -> bytes, or Dir
    rpc        \* "tags", "load", "unpack", "done", "rejected", "misread", or the program started

tarvars == <<tags, info, archive, at, read, tree, rpc>>
TarRoot == <<"/">>
Dir == <<"dir">>

TarInit ==
    /\ tags = <<>> /\ info = [modules |-> <<>>, rsdp |-> "none", cmdline |-> <<>>]
    /\ archive = <<>> /\ at = 1 /\ read = <<>> /\ tree = [p \in {TarRoot} |-> Dir] /\ rpc = "tags"

-----------------------------------------------------------------------------
(* bootinfo.c                                                              *)

RsdpOf(old, t) == IF t.type = "acpi_new" \/ (t.type = "acpi_old" /\ old = "none") THEN t.type ELSE old

bootinfo_init(t) ==
    /\ rpc = "tags" /\ Len(tags) < MaxTags
    /\ tags' = Append(tags, t)
    /\ info' = [modules |-> IF t.type = "module" /\ Len(info.modules) < MaxModules
                            THEN Append(info.modules, t.name) ELSE info.modules,
                rsdp |-> RsdpOf(info.rsdp, t),
                cmdline |-> IF t.type = "cmdline" THEN t.tokens ELSE info.cmdline]
    /\ UNCHANGED <<archive, at, read, tree, rpc>>

bootinfo_find_module(name) == Contains(info.modules, name)

\* parse_cmdline: the last token that names an installer wins.
BootMode ==
    FoldLeft(LAMBDA mode, tok : IF tok \in {"cli", "tui"} THEN tok ELSE mode, "init", info.cmdline)

\* Without a module called "rootfs" the boot goes on with an empty root.
import_boot_rootfs ==
    /\ rpc = "tags" /\ Len(tags) <= LoadTags
    /\ rpc' = IF bootinfo_find_module("rootfs") THEN "load" ELSE "done"
    /\ UNCHANGED <<tags, info, archive, at, read, tree>>

\* A newc archive: members, each with a payload, and a trailer.
CpioBlocks == [type : {"cpio", "trailer"}]
Newc(a) == a # <<>> /\ a[1] \in CpioBlocks

\* The archive the boot loader put in memory.
archive_block(b) ==
    /\ rpc = "load" /\ Len(archive) < MaxBlocks
    /\ archive # <<>> => (b \in CpioBlocks \/ b.type = "payload" \/ ~Newc(archive)) /\ (b \in CpioBlocks => Newc(archive))
    /\ archive' = Append(archive, b)
    /\ UNCHANGED <<tags, info, at, read, tree, rpc>>

-----------------------------------------------------------------------------
(* The scanner: block by block, over the whole archive.                    *)

IsHeader(b) == b.type \notin {"payload", "zero", "noname"}
Blocks(h) == IF h.data = <<>> THEN 1 ELSE 2

\* Mutant: the scanner forgets the payload.
ScanHeaders(a) == a # <<>>

\* A second block of an end marker, when there is one, is zero too; a payload is never read.
scan_tar_ustar(a) ==
    LET ok[off \in 1 .. Len(a) + 2] ==
            CASE off = Len(a) + 1 -> TRUE
              [] off > Len(a) + 1 -> FALSE
              [] OTHER -> IF a[off].type = "zero" THEN off = Len(a) \/ a[off + 1].type = "zero"
                          ELSE IF IsHeader(a[off]) THEN ok[off + Blocks(a[off])] ELSE a[off].type = "noname"
    IN  a # <<>> /\ ok[1]

\* Up to the trailer there are members, none of them cut off.
scan_cpio_newc(a) ==
    \E end \in DOMAIN a : /\ end % 2 = 1 /\ a[end].type = "trailer"
                           /\ \A i \in 1 .. end - 1 : i % 2 = 1 => a[i].type = "cpio"

zig_initramfs_scan ==
    /\ rpc = "load" /\ archive # <<>>
    /\ rpc' = IF (IF Newc(archive) THEN scan_cpio_newc(archive) ELSE scan_tar_ustar(archive)) THEN "unpack" ELSE "rejected"
    /\ UNCHANGED <<tags, info, archive, at, read, tree>>

-----------------------------------------------------------------------------
(* Paths of the archive                                                    *)

Ch(p, i) == IF i \in DOMAIN p THEN p[i] ELSE "end"

\* One turn of the loop of normalize_tar_path: where r goes, and what is written.
Turn(p, r) ==
    IF Ch(p, r) = "/" /\ Ch(p, r + 1) = "/" THEN [r |-> r + 1, out |-> <<>>]
    ELSE IF Ch(p, r) = "." /\ Ch(p, r + 1) \in {"/", "end"}
    THEN [r |-> IF Ch(p, r + 1) = "/" THEN r + 2 ELSE r + 1, out |-> <<>>]
    ELSE IF Ch(p, r) = "/" /\ Ch(p, r + 1) = "." /\ Ch(p, r + 2) \in {"/", "end"}
    THEN [r |-> IF Ch(p, r + 2) = "/" THEN r + 3 ELSE r + 2, out |-> <<>>]
    ELSE [r |-> r + 1, out |-> <<p[r]>>]

normalize_tar_path(p) ==
    LET copied[r \in 1 .. Len(p) + 3] ==
            IF r > Len(p) THEN <<>> ELSE Turn(p, r).out \o copied[Turn(p, r).r]
        start == SelectInSeq(p, LAMBDA c : c # "/")
        w == TarRoot \o (IF start = 0 THEN <<>> ELSE copied[start])
    IN  IF Len(w) > 1 /\ Last(w) = "/" THEN Front(w) ELSE w

zig_path_has_dotdot_component(p) ==
    \E i \in DOMAIN p : /\ Ch(p, i) = "." /\ Ch(p, i + 1) = "." /\ Ch(p, i + 2) \in {"/", "end"}
                        /\ (i = 1 \/ p[i - 1] = "/")

Parents(p) == {SubSeq(p, 1, i - 1) : i \in {j \in 2 .. Len(p) : p[j] = "/"}}

-----------------------------------------------------------------------------
(* initramfs_unpack_tar                                                    *)

\* vfs_mkdir answers EEXIST for a file too; the next component below it then fails.
Reachable(t, p) == \A q \in Parents(p) : q \in DOMAIN t => t[q] = Dir
With(t, p, content) ==
    [q \in DOMAIN t \cup Parents(p) \cup {p} |-> IF q = p THEN content ELSE IF q \in DOMAIN t THEN t[q] ELSE Dir]
mkdir_p(t, p) == IF Reachable(t, p) /\ p \notin DOMAIN t THEN With(t, p, Dir) ELSE t

\* vfs_open leaves the content (its O_TRUNC is not implemented), so the write lands on what is there.
\* A directory opens, but has no write.
import_regular_file(t, p, bytes) ==
    CASE ~Reachable(t, p) -> t
      [] Reachable(t, p) /\ p \notin DOMAIN t -> With(t, p, bytes)
      [] Reachable(t, p) /\ p \in DOMAIN t /\ t[p] = Dir -> t
      [] OTHER -> [t EXCEPT ![p] = bytes \o SubSeq(@, Len(bytes) + 1, Len(@))]

\* A link with an absolute target becomes a copy of it, of a directory an empty file.
import_symlink(t, p, link) ==
    IF link \notin DOMAIN t THEN t
    ELSE import_regular_file(t, p, IF t[link] = Dir THEN <<>> ELSE t[link])

Imported(h) ==
    LET p == normalize_tar_path(h.path)
    IN  IF zig_path_has_dotdot_component(p) THEN tree
        ELSE CASE h.type = "dir" -> mkdir_p(tree, p)
               [] h.type = "file" -> import_regular_file(tree, p, h.data)
               [] h.type = "symlink" -> import_symlink(tree, p, h.link)
               [] OTHER -> tree

\* The bytes of a newc archive, taken for tar headers: a file called after the magic number
\* with some of them, a member of another type, a truncated one, or nothing (fewer than 512).
CpioMagic == <<"/", "0", "7">>
unpack_newc ==
    /\ rpc' \in {"done", "misread"} \cup (IF at < Len(archive) THEN {"unpack"} ELSE {})
    /\ tree' \in {tree, import_regular_file(tree, CpioMagic, <<"x">>)}
    /\ at' = at + 1 /\ UNCHANGED read

\* One turn of the loop: an archive that ends inside a member stops it; a payload taken for a
\* header is a misreading.
unpack_tar ==
    IF at > Len(archive) \/ archive[at].type \in {"zero", "noname"}
    THEN rpc' = "done" /\ UNCHANGED <<at, read, tree>>
    ELSE IF archive[at].type = "payload" \/ at + Blocks(archive[at]) - 1 > Len(archive)
    THEN rpc' = "misread" /\ UNCHANGED <<at, read, tree>>
    ELSE /\ at' = at + Blocks(archive[at])
         /\ read' = Append(read, archive[at])
         /\ tree' = Imported(archive[at])
         /\ UNCHANGED rpc

initramfs_unpack_tar ==
    /\ rpc = "unpack"
    /\ IF Newc(archive) THEN unpack_newc ELSE unpack_tar
    /\ UNCHANGED <<tags, info, archive>>

\* Whatever became of the archive, the first program is started.
late_init ==
    /\ rpc \in {"done", "rejected", "misread"}
    /\ rpc' = CASE BootMode = "tui" -> "/sbin/installer-tui" [] BootMode = "cli" -> "/sbin/installer" [] OTHER -> "/sbin/init"
    /\ UNCHANGED <<tags, info, archive, at, read, tree>>

TarNext ==
    \/ \E t \in Tags : bootinfo_init(t)
    \/ import_boot_rootfs
    \/ \E b \in Headers \cup CpioBlocks \cup [type : {"payload", "zero", "noname"}] : archive_block(b)
    \/ zig_initramfs_scan
    \/ initramfs_unpack_tar
    \/ late_init

TarSpec == TarInit /\ [][TarNext]_tarvars

-----------------------------------------------------------------------------
(* Properties.                                                             *)

Writes(i, p) == read[i].type = "file" /\ normalize_tar_path(read[i].path) = p
LastWrite(i, p) == Writes(i, p) /\ \A j \in i + 1 .. Len(read) :
                                      read[j].type = "other" \/ normalize_tar_path(read[j].path) # p

\* A tar archive the scanner accepted never stops the unpacking half-way, and no payload of it
\* is read as a header. (A cpio archive may, or leave a file called after its magic number:
\* the scanner accepts it, as zig_initramfs.h:13 says, and there is nothing that unpacks it.)
\* After any prefix of an archive every path has its directories, and a file that could be
\* created holds what the last member of its name gave it, at its start. The tags are read
\* the way they are meant: the new ACPI tag before the legacy one, the first modules of many.
ImportOK ==
    /\ rpc = "misread" => Newc(archive)
    /\ \A p \in DOMAIN tree : \A q \in Parents(p) : q \in DOMAIN tree /\ tree[q] = Dir
    /\ \A i \in DOMAIN read : \A p \in DOMAIN tree :
          (tree[p] # Dir /\ LastWrite(i, p)) => IsPrefix(read[i].data, tree[p])
    /\ LET kinds == {tags[i].type : i \in DOMAIN tags}
           mods == SelectSeq(tags, LAMBDA t : t.type = "module")
       IN  /\ info.rsdp = IF "acpi_new" \in kinds THEN "acpi_new" ELSE IF "acpi_old" \in kinds THEN "acpi_old" ELSE "none"
           /\ Len(info.modules) <= MaxModules
           /\ \A i \in DOMAIN info.modules : info.modules[i] = mods[i].name
           /\ Len(info.modules) < MaxModules => Len(mods) = Len(info.modules)

=============================================================================
