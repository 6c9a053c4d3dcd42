-------------------------------- MODULE Boot --------------------------------
(* obeliskd, desktop-session and the installer over several boots: which    *)
(* session a boot starts and what it records in boot-state.json. The root   *)
(* file system is made in memory by each boot, from the image that the boot *)
(* loader hands to the kernel.                                              *)
EXTENDS Naturals, FiniteSets

CONSTANTS
    DesktopModes,   \* values of desktop_mode the installer or the user may write
    XdmThreshold,   \* XDM_FAILURE_SUPPRESS_THRESHOLD
    MaxFails,       \* bound on the counter (9999 in the code)
    MaxBoots        \* bound on power cycles

VARIABLES
    image,     \* the image of the root file system
    disk,      \* the root: configuration, sentinels, boot-state.json, installed files
    boot,      \* obeliskd: where it is, the mode it chose, the state in memory
    row,       \* graphical sessions that failed in a row, since one was re-enabled
    boots

bootvars == <<image, disk, boot, row, boots>>

NoState == [there |-> FALSE, last |-> "none", ok |-> FALSE, fails |-> 0]
Off == [pc |-> "off", mode |-> "tty", st |-> NoState]

Programs == {"fb0", "event0", "obwm", "xdm-compat", "xorg-smoke"}

BootInit ==
    /\ \E desk \in DesktopModes \cup {"none"}, force, reenable \in BOOLEAN, profiles \in SUBSET {"xorg.json", "xfce.json"} :
          image = [plan |-> "none", desk |-> desk, force |-> force, reenable |-> reenable,
                   st |-> NoState, files |-> Programs \cup profiles]
    /\ disk = image /\ boot = Off /\ row = 0 /\ boots = 0

-----------------------------------------------------------------------------
(* desktop-session                                                         *)

Has(f) == f \in disk.files

pick_target ==
    IF Has("xdm-compat") /\ Has("xfce.json") THEN "xdm"
    ELSE IF Has("xfce.json") THEN "xfce"
    ELSE IF Has("xorg.json") THEN "xorg"
    ELSE "obwm"

Target(arg) == IF arg = "auto" THEN pick_target ELSE IF arg = "native" THEN "obwm" ELSE arg

validate_native_stack == Has("fb0") /\ Has("event0")

require_profile(target) ==
    /\ target \in {"xfce", "xdm"} => Has("xfce.json")
    /\ target \in {"xorg", "xfce", "xdm"} => Has("xorg.json")

find_launcher(target) ==
    CASE target = "obwm" -> Has("obwm")
      [] target = "xdm"  -> Has("xdm-compat")
      [] target = "xfce" -> Has("xfce.json")
      [] OTHER           -> Has("xorg.json")

\* The statuses it may exit with; past the checks the launched program decides.
desktop_session_main(arg) ==
    LET target == Target(arg)
    IN  IF target \notin {"xorg", "xfce", "xdm", "obwm"} THEN {1}
        ELSE IF target = "obwm" /\ ~validate_native_stack THEN {2}
        ELSE IF target # "obwm" /\ ~Has("xorg-smoke") THEN {2}
        ELSE IF ~require_profile(target) THEN {3}
        ELSE IF ~find_launcher(target) THEN {4}
        ELSE {0, 5} \cup (IF target = "obwm" THEN {} ELSE {2})

-----------------------------------------------------------------------------
(* obeliskd                                                                *)

\* /etc/obelisk-desktop.conf, else the installer's plan, else the default.
loadDesktopMode == IF disk.desk # "none" THEN disk.desk ELSE IF disk.plan # "none" THEN disk.plan ELSE "tty"

EffectiveMode(mode) ==
    IF mode # "auto" THEN mode ELSE IF Has("fb0") /\ Has("event0") THEN "obwm" ELSE "tty"

\* A missing or cut off file gives the defaults.
loadBootState == IF disk.st.there THEN disk.st ELSE NoState

\* saveBootState writes the whole text over the beginning of the old one. vfs_open does not
\* truncate, but of a key the loader takes the first place.
saveBootState(st) == disk' = [disk EXCEPT !.st = [st EXCEPT !.there = TRUE]]

\* The kernel fills a new root from the image and starts obeliskd.
power_on ==
    /\ boot.pc = "off" /\ boots < MaxBoots
    /\ boots' = boots + 1 /\ disk' = image
    /\ boot' = [Off EXCEPT !.pc = "services"]
    /\ UNCHANGED <<image, row>>

SuppressXdm(mode, st) == mode = "xdm" /\ st.fails >= XdmThreshold

launchInteractive ==
    LET mode == EffectiveMode(loadDesktopMode)
        loaded == loadBootState
        again == mode = "xdm" /\ disk.reenable
        st == IF again THEN [loaded EXCEPT !.fails = 0] ELSE loaded
        To(pc, s, last) == /\ boot' = [pc |-> pc, mode |-> mode, st |-> [s EXCEPT !.last = last]]
                           /\ saveBootState([s EXCEPT !.last = last])
    IN  /\ boot.pc = "services"
        /\ IF disk.force \/ mode = "tty"
           THEN To("shell", loaded, "tty") /\ UNCHANGED row
           ELSE /\ row' = IF again THEN 0 ELSE row
                /\ IF SuppressXdm(mode, st) THEN To("shell", st, "tty") ELSE To("session", st, mode)
        /\ UNCHANGED <<image, boots>>

session_ends ==
    /\ boot.pc = "session"
    /\ \E status \in desktop_session_main(boot.mode) :
          /\ saveBootState(IF status = 0 THEN [boot.st EXCEPT !.ok = TRUE, !.fails = 0]
                           ELSE [boot.st EXCEPT !.ok = FALSE, !.fails = IF @ < MaxFails THEN @ + 1 ELSE @])
          /\ row' = IF status = 0 THEN 0 ELSE IF row < MaxFails THEN row + 1 ELSE row
    /\ boot' = [boot EXCEPT !.pc = "shell"]
    /\ UNCHANGED <<image, boots>>

-----------------------------------------------------------------------------
(* At the shell, and the power                                             *)

\* write_install_plan in the live system, then the profiles opkg could install.
installer(mode) ==
    /\ boot.pc = "shell" /\ mode \in {"tty", "xorg", "xfce", "xdm"}
    /\ \E got \in {{}, {"xorg.json"}, {"xorg.json", "xfce.json"}} :
          /\ mode = "tty" => got = {}
          /\ mode = "xorg" => got # {"xorg.json", "xfce.json"}
          /\ disk' = [disk EXCEPT !.plan = mode, !.files = @ \cup got]
    /\ UNCHANGED <<image, boot, row, boots>>

edit_conf(mode) ==
    /\ boot.pc = "shell"
    /\ disk' = [disk EXCEPT !.desk = mode]
    /\ UNCHANGED <<image, boot, row, boots>>

sentinels(force, reenable) ==
    /\ boot.pc = "shell"
    /\ disk' = [disk EXCEPT !.force = force, !.reenable = reenable]
    /\ UNCHANGED <<image, boot, row, boots>>

\* Off from the shell, or without warning anywhere else: the root goes with the memory.
power_off ==
    /\ boot.pc # "off"
    /\ boot' = Off
    /\ UNCHANGED <<image, disk, row, boots>>

BootNext ==
    \/ power_on \/ launchInteractive \/ session_ends \/ power_off
    \/ \E mode \in DesktopModes : installer(mode) \/ edit_conf(mode)
    \/ \E force, reenable \in BOOLEAN : sentinels(force, reenable)

BootSpec == BootInit /\ [][BootNext]_bootvars

-----------------------------------------------------------------------------

\* "tracks failures in /var/lib/obelisk/boot-state.json", "suppresses future auto-XDM
\* launches after 3 consecutive failures": a boot starts no xdm session when as many
\* graphical sessions in a row have failed, and none was re-enabled since.
XdmSuppressed == boot.pc = "session" /\ boot.mode = "xdm" => row < XdmThreshold
=============================================================================
