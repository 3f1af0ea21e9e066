-------------------------- MODULE DaemonStartProofs --------------------------
(***************************************************************************)
(* Proofs about DaemonStart.  IInv says what the pid file, the daemon and  *)
(* the executable have to do with each other at each step of a start,      *)
(* whatever has gone wrong since the last boot.                            *)
(***************************************************************************)
EXTENDS DaemonStart, TLAPS

Sound == Never({"closed", "raced", "copy"})

\* The attributes of the daemon's process are there while it is.
Process ==
  /\ daemon = "none" <=> dpid = NoPid
  /\ daemon = "none" <=> dver = "none"

\* The file the daemon has open: it has a name unless the start took it away.
OpenFile ==
  /\ daemon = "opened" => pidfile # NoPid
  /\ daemon = "orphaned" => pidfile = NoPid /\ "raced" \in marks

\* Without a crash the pid file is never stale.
NotStale ==
  crashed = "no" =>
    /\ pidfile # NoPid => daemon \in InLoop \cup {"opened"}
    /\ pidfile \in Pids => daemon \in InLoop /\ pidfile = dpid

\* What the start has found in the pid file, until it has used it.
HasRead ==
  /\ app \in {"read", "unlink"} => pidfile # NoPid
  /\ app \in {"unlink", "kill"} /\ p = Unset => "raced" \in marks
  /\ crashed = "no" /\ app = "unlink" /\ p \in Pids => p = pidfile
  /\ crashed = "no" /\ app = "kill" =>
       /\ pidfile = NoPid /\ daemon \in InLoop \cup {"orphaned"}
       /\ p \in Pids => p = dpid /\ daemon \in InLoop

\* From the kill to the launch no daemon runs, but one that could not write the pid file.
Replaced ==
  Sound =>
    /\ app \in {"unlink", "kill"} => p \in Pids
    /\ app \in {"mkdir", "mount", "copy", "copying", "launch"} =>
         \/ daemon \in {"none", "dying"}
         \/ "unrecorded" \in marks /\ daemon \in InLoop /\ pidfile = NoPid

\* An executable that is newer than the package is whole, a daemon the start can find runs
\* the installed executable, and what is launched is up to date and can be found by the
\* launcher.
UpToDate ==
  Sound =>
    /\ stamp = "newer" /\ app # "copying" => exe = "new"
    /\ daemon \in Alive /\ ("unrecorded" \notin marks \/ pidfile # NoPid \/ daemon = "starting") =>
         dver = exe
    /\ app \in {"open", "read", "unlink", "kill", "mkdir", "mount", "copy"} /\ outd = "no" =>
         exe = "new"
    /\ app = "launch" => exe = "new"
    /\ stage \in {0, Mounted} \/ app = "mount"
    /\ app \in {"copy", "copying", "launch"} => stage = Mounted

\* The next mount is one of those that are left.
Mounting == app = "mount" => stage < Mounted

IInv ==
  /\ TypeOK /\ Mounting /\ Process /\ OpenFile /\ NotStale /\ HasRead /\ Replaced /\ UpToDate
  /\ Findable /\ FreshDaemon

LEMMA InitInv == Init => IInv
  BY PidAssumption DEF Init, IInv, Mounting, TypeOK, YesNo, Process, OpenFile, NotStale,
     HasRead, Replaced, UpToDate, Sound, Never, Findable, FreshDaemon, InLoop, Alive, AppStates,
     Mounted, Marks

\* What has never happened, one mark at a time.
LEMMA NeverIs ==
  /\ Sound <=> crashed = "no" /\ "closed" \notin marks /\ "raced" \notin marks /\ "copy" \notin marks
  /\ Never({"closed", "raced"}) <=> crashed = "no" /\ "closed" \notin marks /\ "raced" \notin marks
  /\ Never({"closed", "raced", "copy", "refused"}) <=>
       /\ crashed = "no" /\ "closed" \notin marks /\ "raced" \notin marks /\ "copy" \notin marks
       /\ "refused" \notin marks
  BY DEF Sound, Never

LEMMA NeverIsNext ==
  /\ Sound' <=> crashed' = "no" /\ "closed" \notin marks' /\ "raced" \notin marks' /\ "copy" \notin marks'
  /\ Never({"closed", "raced"})' <=> crashed' = "no" /\ "closed" \notin marks' /\ "raced" \notin marks'
  /\ Never({"closed", "raced", "copy", "refused"})' <=>
       /\ crashed' = "no" /\ "closed" \notin marks' /\ "raced" \notin marks' /\ "copy" \notin marks'
       /\ "refused" \notin marks'
  BY DEF Sound, Never

\* IInv is inductive.
LEMMA NextInv == IInv /\ [Next]_vars => IInv'
<1> SUFFICES ASSUME IInv, [Next]_vars PROVE IInv'
  OBVIOUS
<1> USE PidAssumption, NeverIs, NeverIsNext DEF IInv, Mounting, TypeOK, YesNo, Process, OpenFile,
      NotStale, HasRead, Replaced, UpToDate, Findable, FreshDaemon, InLoop, Alive, AppStates,
      Mounted, Mark, Marks, appVars, fileVars, daemonVars
<1>1. CASE StartApp
  BY <1>1 DEF StartApp
<1>2. CASE Jailbreak
  BY <1>2 DEF Jailbreak
<1>3. CASE CheckOutdated
  BY <1>3 DEF CheckOutdated, is_daemon_outdated
<1>4. CASE OpenPid
  <2>1. CASE marks' = marks \cup {"raced"}
    BY <1>4, <2>1 DEF OpenPid
  <2>2. CASE UNCHANGED marks /\ ~(pidfile = NoPid /\ daemon = "starting")
    BY <1>4, <2>2 DEF OpenPid
  <2> QED
    BY <1>4, <2>1, <2>2 DEF OpenPid
<1>5. CASE ReadPid
  <2>1. CASE marks' = marks \cup {"raced"}
    BY <1>5, <2>1 DEF ReadPid
  <2>2. CASE UNCHANGED marks /\ pidfile # Empty
    BY <1>5, <2>2 DEF ReadPid
  <2> QED
    BY <1>5, <2>1, <2>2 DEF ReadPid
<1>6. CASE UnlinkPid
  <2>1. CASE daemon = "opened" /\ daemon' = "orphaned" /\ marks' = marks \cup {"raced"}
    BY <1>6, <2>1 DEF UnlinkPid
  <2>2. CASE daemon # "opened" /\ UNCHANGED <<daemon, marks>>
    BY <1>6, <2>2 DEF UnlinkPid
  <2> QED
    BY <1>6, <2>1, <2>2 DEF UnlinkPid
<1>7. CASE KillDaemon
  <2>1. CASE daemon # "none" /\ p \in {dpid, Unset} /\ daemon' = "dying"
    BY <1>7, <2>1 DEF KillDaemon
  <2>2. CASE p # dpid /\ UNCHANGED daemon
    <3>1. ~Sound
      BY <1>7, <2>2 DEF KillDaemon
    <3> QED
      BY <1>7, <2>2, <3>1 DEF KillDaemon
  <2> QED
    BY <1>7, <2>1, <2>2 DEF KillDaemon
<1>8. CASE MakeDir
  BY <1>8 DEF MakeDir
<1>9. CASE Mount
  BY <1>9 DEF Mount
<1>10. CASE BeginCopy
  <2>1. CASE outd = "no" /\ app' = "launch" /\ UNCHANGED <<exe, stamp, marks>>
    BY <1>10, <2>1 DEF BeginCopy
  <2>2. CASE app' = "copying" /\ exe' = "partial" /\ UNCHANGED marks
    BY <1>10, <2>2 DEF BeginCopy
  <2>3. CASE app' = "launch" /\ marks' = marks \cup {"copy"} /\ UNCHANGED <<exe, stamp>>
    BY <1>10, <2>3 DEF BeginCopy
  <2> QED
    BY <1>10, <2>1, <2>2, <2>3 DEF BeginCopy
<1>11. CASE EndCopy
  <2>1. CASE exe' = "new" /\ UNCHANGED marks
    BY <1>11, <2>1 DEF EndCopy
  <2>2. CASE marks' = marks \cup {"copy"} /\ UNCHANGED exe
    BY <1>11, <2>2 DEF EndCopy
  <2> QED
    BY <1>11, <2>1, <2>2 DEF EndCopy
<1>12. CASE LaunchApp
  BY <1>12 DEF LaunchApp, Launchable
<1>13. CASE InitDaemon
  BY <1>13 DEF InitDaemon
<1>14. CASE CloseApp
  <2>1. CASE marks' = marks \cup {"closed"}
    BY <1>14, <2>1 DEF CloseApp
  <2>2. CASE app \notin Harmful /\ UNCHANGED marks
    BY <1>14, <2>2 DEF CloseApp, Harmful
  <2> QED
    BY <1>14, <2>1, <2>2 DEF CloseApp
<1>15. CASE OpenPidFile
  <2>1. CASE daemon' = "opened" /\ UNCHANGED marks
    BY <1>15, <2>1 DEF OpenPidFile
  <2>2. CASE daemon' = "idle" /\ marks' = marks \cup {"unrecorded"} /\ UNCHANGED pidfile
    BY <1>15, <2>2 DEF OpenPidFile
  <2> QED
    BY <1>15, <2>1, <2>2 DEF OpenPidFile
<1>16. CASE WritePid
  <2>1. CASE daemon = "opened" /\ pidfile' = dpid /\ UNCHANGED marks
    BY <1>16, <2>1 DEF WritePid
  <2>2. CASE daemon = "opened" /\ marks' = marks \cup {"unrecorded"} /\ UNCHANGED pidfile
    BY <1>16, <2>2 DEF WritePid
  <2>3. CASE daemon = "orphaned" /\ UNCHANGED <<pidfile, marks>>
    BY <1>16, <2>3 DEF WritePid
  <2> QED
    BY <1>16, <2>1, <2>2, <2>3 DEF WritePid
<1>17. CASE UnlinkLock
  BY <1>17 DEF UnlinkLock
<1>18. CASE Execute
  BY <1>18 DEF Execute
<1>19. CASE HamachidExits
  BY <1>19 DEF HamachidExits
<1>20. CASE Reap
  BY <1>20 DEF Reap, Gone
<1>21. CASE Crash
  BY <1>21 DEF Crash, Gone
<1>22. CASE Update
  BY <1>22 DEF Update
<1>23. CASE Reboot
  BY <1>23 DEF Reboot, Gone
<1>24. CASE UNCHANGED vars
  BY <1>24 DEF vars
<1>25. CASE LaunchRefused
  BY <1>25 DEF LaunchRefused
<1> QED
  BY ONLY <1>1, <1>2, <1>3, <1>4, <1>5, <1>6, <1>7, <1>8, <1>9, <1>10, <1>11, <1>12,
     <1>13, <1>14, <1>15, <1>16, <1>17, <1>18, <1>19, <1>20, <1>21, <1>22, <1>23, <1>24, <1>25,
     [Next]_vars DEF Next, AppStep, DaemonStep

\* IInv holds in every state (daemon_start.c:164-213, daemon.c:39-56).
THEOREM Invariance == Spec => []IInv
<1>1. Init => IInv
  BY InitInv
<1>2. IInv /\ [Next]_vars => IInv'
  BY NextInv
<1> QED
  BY <1>1, <1>2, PTL DEF Spec

\* TypeOK of every state: the variables have their types (daemon_start.c:164-213).
THEOREM TypeCorrect == Spec => []TypeOK
<1>1. IInv => TypeOK
  BY DEF IInv
<1> QED
  BY <1>1, Invariance, PTL

\* For any process numbers, and whatever was closed or has crashed: no daemon in its loop
\* has a pid file that names another, and it has none only in the cases Findable names, while
\* daemons can write the file (daemon.c:41-47, daemon_start.c:169-179).
THEOREM DaemonFindable == Spec => []Findable
<1>1. IInv => Findable
  BY DEF IInv
<1> QED
  BY <1>1, Invariance, PTL

\* While no daemon has crashed, a start that has read a number from the pid file kills the
\* daemon and no other process; it has read none only where the daemon was about to write it
\* (daemon_start.c:173-179).
THEOREM KillsOnlyTheDaemon == Spec => []NoStranger
<1>1. IInv => NoStranger
  BY DEF IInv, TypeOK, HasRead, NoStranger
<1> QED
  BY <1>1, Invariance, PTL

\* The user interface finds a daemon of the installed version, until a daemon crashes, a
\* start is closed half done, races a daemon's record or fails to copy, and unless the
\* launcher has refused this start (daemon_start.c:164-213).
THEOREM StartsInstalledVersion == Spec => []FreshDaemon
<1>1. IInv => FreshDaemon
  BY DEF IInv
<1> QED
  BY <1>1, Invariance, PTL
=============================================================================
