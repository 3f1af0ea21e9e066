----------------------------- MODULE DaemonStart -----------------------------
(***************************************************************************)
(* How the application starts the daemon, daemon_start.c, and how the      *)
(* daemon records itself and serves, daemon.c.  Two processes share the    *)
(* pid file, the installed executable and the mounts; the user may close   *)
(* the application at any step (its main never returns), the daemon may    *)
(* crash, the package may be updated and the console may be rebooted.      *)
(*                                                                         *)
(* Versions and times are relative to the installed package: an executable *)
(* is "new" when it is a copy of that package's, and stamp says how its    *)
(* modification time compares with the package's.                          *)
(***************************************************************************)
EXTENDS Naturals

CONSTANTS Pids,     \* process numbers the kernel gives to daemons
          NoPid,    \* no process; as a pid file: there is none
          Empty,    \* a pid file that is created and not yet written
          Unset     \* a pid that was never read into p

ASSUME PidAssumption ==
  /\ Pids # {}
  /\ NoPid \notin Pids /\ Empty \notin Pids /\ Unset \notin Pids
  /\ NoPid # Empty /\ NoPid # Unset /\ Empty # Unset

VARIABLES
  app,        \* where the application is in main and start_daemon
  outd, p,    \* start_daemon's locals
  pidfile,    \* /mnt/daemons/HOME00179/pid
  stage,      \* how much of the mounting is done, 0 .. Mounted
  exe,        \* /mnt/daemons/HOME00179/eboot.bin
  stamp,      \* its modification time against the package's
  daemon, dpid, dver,   \* the daemon's process
  lockfile,   \* hamachid.lock
  marks,      \* history: what has gone wrong since the last boot
  crashed     \* the daemon has crashed since the last boot

appVars == <<app, outd, p>>
fileVars == <<stage, exe, stamp>>
daemonVars == <<daemon, dpid, dver, lockfile>>
vars == <<appVars, pidfile, fileVars, daemonVars, marks, crashed>>

\* A start was closed half done; it met a daemon that was about to write its pid file;
\* its copy failed; the launcher refused it (until the next start); a daemon could not
\* write its pid file.
Marks == {"closed", "raced", "copy", "refused", "unrecorded"}
Mark(m) == marks' = marks \cup {m}

AppStates == {"off", "error", "jailbreak", "outdated", "open", "read", "unlink", "kill",
              "mkdir", "mount", "copy", "copying", "launch", "init", "ui"}

\* mkdir /mnt/daemons, the tmpfs, the system's applications in it, the whole over
\* /system/vsh/app, and the applications in there again.
Mounted == 5
Launchable == 4     \* the launcher looks in /system/vsh/app

InLoop == {"idle", "unlocked", "serving"}
Alive == InLoop \cup {"starting", "opened"}

Init ==
  /\ app = "off" /\ outd = "yes" /\ p = Unset
  /\ pidfile = NoPid
  /\ stage = 0 /\ exe = "none" /\ stamp = "older"
  /\ daemon = "none" /\ dpid = NoPid /\ dver = "none"
  /\ lockfile \in {"absent", "present"}
  /\ marks = {} /\ crashed = "no"

---------------------------------------------------------------------------
(* The application. *)

\* main is entered; start_daemon is called.
StartApp ==
  /\ app = "off" /\ app' = "jailbreak"
  /\ outd' = "yes" /\ p' = Unset
  /\ marks' = marks \ {"refused"}
  /\ UNCHANGED <<pidfile, fileVars, daemonVars, crashed>>

\* A failed jailbreak ends in an error screen that is never left.
Jailbreak ==
  /\ app = "jailbreak" /\ app' \in {"outdated", "error"}
  /\ UNCHANGED <<outd, p, pidfile, fileVars, daemonVars, marks, crashed>>

\* Mutant: > instead of >=.
is_daemon_outdated_Later == exe = "none" \/ stamp = "older"

\* st2.st_mtime >= st1.st_mtime; a failed stat counts as outdated.
is_daemon_outdated == exe = "none" \/ stamp \in {"older", "same"}

CheckOutdated ==
  /\ app = "outdated" /\ app' = "open"
  /\ outd' = IF is_daemon_outdated THEN "yes" ELSE "no"
  /\ UNCHANGED <<p, pidfile, fileVars, daemonVars, marks, crashed>>

OpenPid ==
  /\ app = "open"
  /\ app' = IF pidfile = NoPid THEN "mkdir" ELSE "read"
  /\ IF pidfile = NoPid /\ daemon = "starting" THEN Mark("raced") ELSE UNCHANGED marks
  /\ UNCHANGED <<outd, p, pidfile, fileVars, daemonVars, crashed>>

\* read's result is not looked at: nothing is read from a file that the daemon has
\* not written yet.  A version that is not outdated is kept.
ReadPid ==
  /\ app = "read"
  /\ p' = IF pidfile = Empty THEN Unset ELSE pidfile
  /\ app' = IF outd = "no" THEN "init" ELSE "unlink"
  /\ IF pidfile = Empty THEN Mark("raced") ELSE UNCHANGED marks
  /\ UNCHANGED <<outd, pidfile, fileVars, daemonVars, crashed>>

\* Mutant: the pid file stays.
UnlinkPid_Keep ==
  /\ app = "unlink" /\ app' = "kill"
  /\ UNCHANGED <<outd, p, pidfile, fileVars, daemonVars, marks, crashed>>

\* A daemon that has opened the file writes to one that has no name any more.
UnlinkPid ==
  /\ app = "unlink" /\ app' = "kill"
  /\ pidfile' = NoPid
  /\ IF daemon = "opened"
     THEN daemon' = "orphaned" /\ Mark("raced")
     ELSE UNCHANGED <<daemon, marks>>
  /\ UNCHANGED <<outd, p, fileVars, dpid, dver, lockfile, crashed>>

\* Mutant: the daemon is not killed.
KillDaemon_Skip ==
  /\ app = "kill" /\ app' = "mkdir"
  /\ UNCHANGED <<outd, p, pidfile, fileVars, daemonVars, marks, crashed>>

\* kill(p, SIGKILL): the process is there until it is reaped.  An unset p may be
\* any number.
KillDaemon ==
  /\ app = "kill" /\ app' = "mkdir"
  /\ \/ /\ daemon # "none" /\ p \in {dpid, Unset}
        /\ daemon' = "dying"
     \/ p # dpid /\ UNCHANGED daemon
  /\ UNCHANGED <<outd, p, pidfile, fileVars, dpid, dver, lockfile, marks, crashed>>

\* mkdir of the daemon's directory fails, other than with EEXIST, only where
\* /mnt/daemons does not exist.
MakeDir ==
  /\ app = "mkdir"
  /\ app' = IF stage = 0 THEN "mount" ELSE "copy"
  /\ UNCHANGED <<outd, p, pidfile, fileVars, daemonVars, marks, crashed>>

Mount ==
  /\ app = "mount"
  /\ stage' = stage + 1
  /\ app' = IF stage' = Mounted THEN "copy" ELSE "mount"
  /\ UNCHANGED <<outd, p, pidfile, exe, stamp, daemonVars, marks, crashed>>

\* copy_file opens the old executable itself and truncates it (line 202 unlinks a
\* path that does not exist); its result is not looked at.
BeginCopy ==
  /\ app = "copy"
  /\ \/ outd = "no" /\ app' = "launch" /\ UNCHANGED <<exe, stamp, marks>>
     \/ /\ outd = "yes" /\ app' = "copying"
        /\ exe' = "partial" /\ stamp' \in {"same", "newer"}
        /\ UNCHANGED marks
     \/ /\ outd = "yes" /\ app' = "launch"
        /\ Mark("copy") /\ UNCHANGED <<exe, stamp>>
  /\ UNCHANGED <<outd, p, pidfile, stage, daemonVars, crashed>>

EndCopy ==
  /\ app = "copying" /\ app' = "launch"
  /\ \/ exe' = "new" /\ UNCHANGED marks
     \/ Mark("copy") /\ UNCHANGED exe
  /\ stamp' \in IF stamp = "newer" THEN {"newer"} ELSE {"same", "newer"}
  /\ UNCHANGED <<outd, p, pidfile, stage, daemonVars, crashed>>

\* The loop goes on while the launcher says that the daemon is already running.  Half an
\* executable does not run.
LaunchApp ==
  /\ app = "launch" /\ daemon = "none"
  /\ app' = "init"
  /\ IF stage >= Launchable /\ exe \in {"old", "new"}
     THEN daemon' = "starting" /\ dpid' \in Pids /\ dver' = exe
     ELSE UNCHANGED <<daemon, dpid, dver>>
  /\ UNCHANGED <<outd, p, pidfile, fileVars, lockfile, marks, crashed>>

\* Any other answer ends the loop, also one that the daemon could not be launched: for the
\* start it is a success.
LaunchRefused ==
  /\ app = "launch" /\ app' = "init" /\ Mark("refused")
  /\ UNCHANGED <<outd, p, pidfile, fileVars, daemonVars, crashed>>

\* init_daemon, which needs the jailbreak once more, and then the user interface.
InitDaemon ==
  /\ app = "init" /\ app' \in {"ui", "error"}
  /\ UNCHANGED <<outd, p, pidfile, fileVars, daemonVars, marks, crashed>>

AppStep ==
  \/ Jailbreak \/ CheckOutdated \/ OpenPid \/ ReadPid \/ UnlinkPid \/ KillDaemon
  \/ MakeDir \/ Mount \/ BeginCopy \/ EndCopy \/ LaunchApp \/ InitDaemon

\* The user closes the application.  What it leaves half done after the unlink,
\* between two mounts or inside the copy nobody does later.
Harmful == {"kill", "mount", "copying"}
CloseApp ==
  /\ app # "off" /\ app' = "off"
  /\ IF app \in Harmful THEN Mark("closed") ELSE UNCHANGED marks
  /\ outd' = "yes" /\ p' = Unset
  /\ UNCHANGED <<pidfile, fileVars, daemonVars, crashed>>

---------------------------------------------------------------------------
(* The daemon. *)

\* Mutant: O_EXCL, so a file that is there is not written.
OpenPidFile_Excl ==
  /\ daemon = "starting"
  /\ IF pidfile = NoPid THEN pidfile' = Empty /\ daemon' = "opened"
                        ELSE daemon' = "idle" /\ UNCHANGED pidfile
  /\ UNCHANGED <<appVars, fileVars, dpid, dver, lockfile, marks, crashed>>

\* open(.../pid, O_WRONLY | O_CREAT) in daemon_thread.  A daemon whose jailbreak has failed
\* (main does not look at init_daemon's result) goes on without the file.
OpenPidFile ==
  /\ daemon = "starting"
  /\ \/ /\ daemon' = "opened"
        /\ pidfile' = IF pidfile = NoPid THEN Empty ELSE pidfile
        /\ UNCHANGED marks
     \/ daemon' = "idle" /\ Mark("unrecorded") /\ UNCHANGED pidfile
  /\ UNCHANGED <<appVars, fileVars, dpid, dver, lockfile, crashed>>

\* Nor is write's result looked at.
WritePid ==
  /\ \/ daemon = "opened" /\ pidfile' = dpid /\ UNCHANGED marks
     \/ daemon = "opened" /\ UNCHANGED pidfile /\ Mark("unrecorded")
     \/ daemon = "orphaned" /\ UNCHANGED <<pidfile, marks>>
  /\ daemon' = "idle"
  /\ UNCHANGED <<appVars, fileVars, dpid, dver, lockfile, crashed>>

\* Mutant: the lock file is not removed.
UnlinkLock_Never ==
  /\ daemon = "idle" /\ daemon' = "unlocked"
  /\ UNCHANGED <<appVars, pidfile, fileVars, dpid, dver, lockfile, marks, crashed>>

\* Each round of daemon_thread's loop: remove the lock file, run hamachid, which
\* ends at once when it finds one.
UnlinkLock ==
  /\ daemon = "idle" /\ daemon' = "unlocked" /\ lockfile' = "absent"
  /\ UNCHANGED <<appVars, pidfile, fileVars, dpid, dver, marks, crashed>>

Execute ==
  /\ daemon = "unlocked"
  /\ IF lockfile = "absent" THEN daemon' = "serving" /\ lockfile' = "present"
                            ELSE daemon' = "idle" /\ UNCHANGED lockfile
  /\ UNCHANGED <<appVars, pidfile, fileVars, dpid, dver, marks, crashed>>

\* hamachid exits by itself; my_exit returns to the loop.
HamachidExits ==
  /\ daemon = "serving" /\ daemon' = "idle"
  /\ UNCHANGED <<appVars, pidfile, fileVars, dpid, dver, lockfile, marks, crashed>>

DaemonStep == OpenPidFile \/ WritePid \/ UnlinkLock \/ Execute

Gone == daemon' = "none" /\ dpid' = NoPid /\ dver' = "none"

\* The kernel is done with a killed daemon.
Reap ==
  /\ daemon = "dying" /\ Gone
  /\ UNCHANGED <<appVars, pidfile, fileVars, lockfile, marks, crashed>>

\* The daemon dies otherwise: its pid file and lock file stay.
Crash ==
  /\ daemon \notin {"none", "dying"} /\ Gone
  /\ crashed' = "yes"
  /\ UNCHANGED <<appVars, pidfile, fileVars, lockfile, marks>>

---------------------------------------------------------------------------
(* The console. *)

\* Another version of the package is installed.
Update ==
  /\ app = "off"
  /\ exe' = IF exe = "new" THEN "old" ELSE exe
  /\ dver' = IF dver = "new" THEN "old" ELSE dver
  /\ stamp' \in {"older", "same"}
  /\ UNCHANGED <<appVars, pidfile, stage, daemon, dpid, lockfile, marks, crashed>>

\* The tmpfs, the mounts and all processes go; the lock file is on the disk.
Reboot ==
  /\ app' = "off" /\ outd' = "yes" /\ p' = Unset
  /\ pidfile' = NoPid
  /\ stage' = 0 /\ exe' = "none" /\ stamp' = "older"
  /\ Gone
  /\ marks' = {} /\ crashed' = "no"
  /\ UNCHANGED lockfile

Next ==
  \/ StartApp \/ AppStep \/ LaunchRefused \/ CloseApp
  \/ DaemonStep \/ HamachidExits \/ Reap \/ Crash
  \/ Update \/ Reboot

Spec == Init /\ [][Next]_vars

\* Each process runs; nothing makes the user, the package, the launcher or hamachid act.
FairSpec == Spec /\ WF_vars(AppStep) /\ WF_vars(DaemonStep) /\ WF_vars(Reap)

---------------------------------------------------------------------------
(* Properties. *)

YesNo == {"yes", "no"}
TypeOK ==
  /\ app \in AppStates /\ outd \in YesNo /\ p \in Pids \cup {Unset}
  /\ pidfile \in Pids \cup {NoPid, Empty}
  /\ stage \in 0 .. Mounted
  /\ exe \in {"none", "partial", "old", "new"} /\ stamp \in {"older", "same", "newer"}
  /\ daemon \in Alive \cup {"none", "orphaned", "dying"}
  /\ dpid \in Pids \cup {NoPid} /\ dver \in {"none", "old", "new"}
  /\ lockfile \in {"absent", "present"}
  /\ marks \subseteq Marks /\ crashed \in YesNo

Never(M) == crashed = "no" /\ marks \cap M = {}

\* A daemon in its loop can be found by the next start, unless since the last boot one could
\* not write the pid file: the file names it, and never another.  It is missing only between
\* the unlink and the kill, and once a daemon has crashed or a start was closed half done or
\* met a daemon that was about to write (daemon.c:41-47, daemon_start.c:169-179).
Findable ==
  daemon \in InLoop /\ "unrecorded" \notin marks =>
    \/ pidfile = dpid
    \/ pidfile = NoPid /\ (app = "kill" \/ ~Never({"closed", "raced"}))

\* The number that is about to be killed is that of the daemon, and not one that the kernel
\* may have given to another process: unless a daemon has crashed, or this is the number
\* that was never read, of a daemon that had not written it (daemon_start.c:173-179).
NoStranger ==
  app = "kill" /\ crashed = "no" =>
    IF p = Unset THEN "raced" \in marks ELSE p = dpid /\ daemon \in InLoop

\* When start_daemon has returned and in the user interface, a daemon of the installed
\* version is running: unless this start was refused by the launcher, or since the last
\* boot a daemon has crashed, a start was closed half done or met a daemon that was about
\* to write its pid file, or a copy has failed (daemon_start.c:164-213).
FreshDaemon ==
  app \in {"init", "ui"} /\ Never({"closed", "raced", "copy", "refused"}) =>
    daemon \in Alive /\ dver = "new"

\* start_daemon ends, whatever else happens, if it began with no daemon or with one
\* that is recorded: the loop around the launch (daemon_start.c:211) does not wait
\* for a daemon that nobody has killed.
StartEnds ==
  (app = "outdated" /\ (daemon \in {"none", "dying"} \/ pidfile = dpid))
    ~> (app \in {"ui", "error", "off"})

\* A daemon that is left alone gets to serve, also when the lock file of an earlier
\* one is still on the disk (daemon.c:49-55).
DaemonServes == (daemon \in Alive) ~> (daemon \in {"serving", "dying", "none"})
=============================================================================
