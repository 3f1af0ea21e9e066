------------------------------ MODULE Descriptors ------------------------------
(***************************************************************************)
(* File descriptors and FILE streams of the emulated program (src/ldr/      *)
(* glue.c).  The wrapper keeps a resource per descriptor (per_fd_resources) *)
(* and per stream, so that the emulated exit can close them; tun_fd,        *)
(* log_handle and epoll_rs are the descriptors it treats specially.  All of *)
(* them are static variables of the host process and outlive a run of the   *)
(* program.  The registry is the one ResourceSet specifies.  Where the code *)
(* goes wrong the model goes on, and mishaps records what has happened.     *)
(***************************************************************************)
EXTENDS Integers, FiniteSets

CONSTANTS
  Threads,     \* threads of the emulated program
  Main,        \* the one that may call exit (is_main_thread)
  Fds,         \* descriptor numbers the kernel can hand out
  MaxFiles,    \* bound: files opened over all runs
  MaxObjects,  \* bound: resources created over all runs
  MaxRuns      \* bound: runs of the program in the host process

ASSUME DescriptorsAssumption ==
  /\ Main \in Threads
  /\ Fds \subseteq Nat
  /\ MaxFiles \in Nat /\ MaxObjects \in Nat /\ MaxRuns \in Nat

Files == 1 .. MaxFiles
Objects == 1 .. MaxObjects
NONE == 0    \* no file, or a null pointer to a resource
FAILED == -1 \* what open returns when it fails, and the initial tun_fd

VARIABLES
  kernel,    \* kernel[fd]: the open file behind a descriptor
  class,     \* of a file: "none" (not opened yet), "plain", "tun", "conn"
             \* (accepted, or an end of a pipe), "stream" (under a FILE), "log"
  fdno,      \* the descriptor a file was opened with
  nfiles,
  object, proc, orphaned,   \* the resources and the program: see ResourceSet
  cb,        \* the free callback of a resource: "fd", "file", "epoll"
  val,       \* its payload: a descriptor for "fd", a FILE for "file"
  nobj,
  per_fd,    \* per_fd_resources
  tun_fd, log_handle, epoll_rs,
  peers,     \* the program's threads other than Main
  pc, t_fd, t_file, t_obj,   \* a thread's position and locals
  owned,     \* files the program has open, FILE streams excepted
  streams,   \* FILE handles the program has open
  epolls,    \* number of epoll descriptors the program has open
  runs,
  mishaps,   \* history, a set of: "number" (the kernel handed out a number while a
             \* close of it was under way), "stale" (a pointer to a resource that is
             \* no more released whatever has its block now), "log" (two threads
             \* opened the log at once), "index" (a store outside per_fd_resources
             \* hit epoll_rs)
  tun_old,   \* history: tun_fd is what an earlier run has left there
  fault      \* "none", or what ended the process: "magic" (a pointer that is no
             \* resource), "tun" (second TUNSETIFF), "epoll" (second epoll_create),
             \* "index" (outside per_fd_resources), "null" (no log to set up)

fileVars == <<kernel, class, fdno, nfiles>>
regVars == <<object, proc, orphaned, cb, val, nobj>>
glueVars == <<per_fd, tun_fd, log_handle, epoll_rs>>
thVars == <<pc, t_fd, t_file, t_obj>>
progVars == <<peers, owned, streams, epolls, runs>>
histVars == <<mishaps, tun_old, fault>>
vars == <<fileVars, regVars, glueVars, thVars, progVars, histVars>>

R == INSTANCE ResourceSet

TypeOK ==
  /\ kernel \in [Fds -> Files \cup {NONE}]
  /\ class \in [Files -> {"none", "plain", "tun", "conn", "stream", "log"}]
  /\ fdno \in [Files -> Fds \cup {FAILED}]
  /\ nfiles \in 0 .. MaxFiles
  /\ object \in [Objects -> {"none", "live", "released"}]
  /\ proc \in {"running", "exited"}
  /\ orphaned \in BOOLEAN
  /\ cb \in [Objects -> {"fd", "file", "epoll"}]
  /\ val \in [Objects -> Fds \cup Files \cup {FAILED, NONE}]
  /\ nobj \in 0 .. MaxObjects
  /\ per_fd \in [Fds -> Objects \cup {NONE}]
  /\ tun_fd \in Fds \cup {FAILED}
  /\ log_handle \in Files \cup {NONE}
  /\ epoll_rs \in Objects \cup {NONE}
  /\ pc \in [Threads -> {"idle", "track", "open_log", "track_file", "close_free",
                         "close_clear", "close_fd", "handle_free", "epoll_free", "collect"}]
  /\ t_fd \in [Threads -> Fds \cup {FAILED}]
  /\ t_file \in [Threads -> Files \cup {NONE}]
  /\ t_obj \in [Threads -> Objects \cup {NONE}]
  /\ peers \subseteq Threads \ {Main}
  /\ owned \subseteq Files
  /\ streams \subseteq Objects
  /\ epolls \in {0, 1}
  /\ runs \in 0 .. MaxRuns
  /\ mishaps \subseteq {"number", "stale", "log", "index"}
  /\ tun_old \in BOOLEAN
  /\ fault \in {"none", "magic", "tun", "epoll", "index", "null"}

Init ==
  /\ kernel = [d \in Fds |-> NONE]
  /\ class = [f \in Files |-> "none"]
  /\ fdno = [f \in Files |-> FAILED]
  /\ nfiles = 0
  /\ R!Init
  /\ cb = [o \in Objects |-> "fd"]
  /\ val = [o \in Objects |-> FAILED]
  /\ nobj = 0
  /\ per_fd = [d \in Fds |-> NONE]
  /\ tun_fd = FAILED /\ log_handle = NONE /\ epoll_rs = NONE
  /\ pc = [t \in Threads |-> "idle"]
  /\ t_fd = [t \in Threads |-> FAILED]
  /\ t_file = [t \in Threads |-> NONE]
  /\ t_obj = [t \in Threads |-> NONE]
  /\ peers = {} /\ owned = {} /\ streams = {} /\ epolls = 0
  /\ runs = 0
  /\ mishaps = {} /\ tun_old = FALSE /\ fault = "none"

Goto(t, label, fd, f, o) ==
  /\ pc' = [pc EXCEPT ![t] = label]
  /\ t_fd' = [t_fd EXCEPT ![t] = fd]
  /\ t_file' = [t_file EXCEPT ![t] = f]
  /\ t_obj' = [t_obj EXCEPT ![t] = o]

Return(t) == Goto(t, "idle", FAILED, NONE, NONE)

\* The main thread is in exit, up to my_exit.
Exiting == pc[Main] = "collect"

\* A thread that runs the program's code makes a call.  my_exit takes Main out of that
\* code and no one else: impl_exit stops no thread.
Ready(t) == pc[t] = "idle" /\ (t \in peers \/ (t = Main /\ proc = "running"))

\* LOCK() of the registry: resource_collect holds it from its beginning to its end.
Unlocked == ~Exiting

Closing(fd) ==
  \E t \in Threads : t_fd[t] = fd /\ pc[t] \in {"close_free", "close_clear", "close_fd"}

\* The kernel opens a file of class c at the lowest free descriptor, fd.
KernelOpen(c, fd) ==
  /\ kernel[fd] = NONE /\ \A d \in Fds : d < fd => kernel[d] # NONE
  /\ nfiles < MaxFiles
  /\ nfiles' = nfiles + 1
  /\ kernel' = [kernel EXCEPT ![fd] = nfiles + 1]
  /\ class' = [class EXCEPT ![nfiles + 1] = c]
  /\ fdno' = [fdno EXCEPT ![nfiles + 1] = fd]
  /\ UNCHANGED <<tun_old, fault>>

\* What goes wrong when it is opened at fd.
Reused(fd) == IF Closing(fd) THEN {"number"} ELSE {}

\* close(fd) of the kernel: closes whatever is there.
KernelClose(fd) ==
  /\ kernel' = [d \in Fds |-> IF d = fd THEN NONE ELSE kernel[d]]
  /\ UNCHANGED <<class, fdno, nfiles>>

\* resource_alloc, and the store of v into the new resource.
Alloc(callback, v) ==
  /\ Unlocked
  /\ nobj < MaxObjects
  /\ R!Create(nobj + 1)
  /\ nobj' = nobj + 1
  /\ cb' = [cb EXCEPT ![nobj + 1] = callback]
  /\ val' = [val EXCEPT ![nobj + 1] = v]

\* Mutant: res_file closes the log as well.
Callback_Log(o) ==
  /\ CASE cb[o] = "fd" -> KernelClose(val[o])
       [] cb[o] = "file" /\ val[o] # NONE -> KernelClose(fdno[val[o]])
       [] OTHER -> UNCHANGED fileVars
  /\ epoll_rs' = IF cb[o] = "epoll" THEN NONE ELSE epoll_rs

\* Mutant: res_epoll does nothing.
Callback_KeepEpoll(o) ==
  /\ CASE cb[o] = "fd" -> KernelClose(val[o])
       [] cb[o] = "file" /\ val[o] \notin {NONE, log_handle} -> KernelClose(fdno[val[o]])
       [] OTHER -> UNCHANGED fileVars
  /\ UNCHANGED epoll_rs

\* The free callback of resource o: res_fd, res_file or res_epoll.
Callback(o) ==
  /\ CASE cb[o] = "fd" -> KernelClose(val[o])
       [] cb[o] = "file" /\ val[o] \notin {NONE, log_handle} -> KernelClose(fdno[val[o]])
       [] OTHER -> UNCHANGED fileVars
  /\ epoll_rs' = IF cb[o] = "epoll" THEN NONE ELSE epoll_rs

\* resource_free of a pointer to a resource.
ReleaseLive(o) ==
  /\ object[o] = "live"
  /\ R!Release(o) /\ Callback(o)
  /\ UNCHANGED <<mishaps, fault>>

\* resource_free of a pointer to a resource that is no more: the magic number is gone and
\* it aborts; or malloc has given the block to another resource, q, and that one is
\* released; or to a resource that is no descriptor, a piece of the program's memory.
ReleaseStale(o) ==
  /\ object[o] # "live"
  /\ \/ fault' = "magic" /\ UNCHANGED <<fileVars, object, proc, orphaned, epoll_rs, mishaps>>
     \/ /\ mishaps' = mishaps \cup {"stale"} /\ UNCHANGED fault
        /\ \/ \E q \in Objects : object[q] = "live" /\ R!Release(q) /\ Callback(q)
           \/ UNCHANGED <<fileVars, object, proc, orphaned, epoll_rs>>

\* resource_free(h): a null pointer is ignored.
resource_free(h) ==
  /\ Unlocked
  /\ \/ h = NONE /\ UNCHANGED <<fileVars, object, proc, orphaned, epoll_rs, mishaps, fault>>
     \/ h # NONE /\ (ReleaseLive(h) \/ ReleaseStale(h))
  /\ UNCHANGED <<cb, val, nobj, per_fd, tun_fd, log_handle, tun_old>>

-----------------------------------------------------------------------------
(* Opening *)

\* open64 and socket: the system call.
BeginOpen(t, c, fd) ==
  /\ Ready(t)
  /\ KernelOpen(c, fd)
  /\ mishaps' = mishaps \cup Reused(fd)
  /\ Goto(t, "track", fd, nfiles + 1, NONE)
  /\ UNCHANGED <<regVars, glueVars, progVars>>

\* Mutant: the descriptor's resource is recorded without the descriptor.
Track_NoStore(t) ==
  /\ pc[t] = "track"
  /\ Alloc("fd", FAILED)
  /\ per_fd' = [per_fd EXCEPT ![t_fd[t]] = nobj + 1]
  /\ owned' = owned \cup {t_file[t]}
  /\ Return(t)
  /\ UNCHANGED <<fileVars, tun_fd, log_handle, epoll_rs, peers, streams, epolls, runs, histVars>>

\* *(int*)(per_fd_resources[fd] = resource_alloc(sizeof(int), res_fd)) = fd
Track(t) ==
  /\ pc[t] = "track"
  /\ Alloc("fd", t_fd[t])
  /\ per_fd' = [per_fd EXCEPT ![t_fd[t]] = nobj + 1]
  /\ owned' = owned \cup {t_file[t]}
  /\ Return(t)
  /\ UNCHANGED <<fileVars, tun_fd, log_handle, epoll_rs, peers, streams, epolls, runs, histVars>>

\* open64 does not look at a failure: -1 is what is to be closed, and the index.  The word
\* before per_fd_resources belongs to nothing, to epoll_rs, or to some other variable, and
\* then there is no saying what follows.
OpenFails(t) ==
  /\ Ready(t)
  /\ Alloc("fd", FAILED)
  /\ \/ UNCHANGED <<epoll_rs, mishaps, fault>>
     \/ epoll_rs' = nobj + 1 /\ mishaps' = mishaps \cup {"index"} /\ UNCHANGED fault
     \/ fault' = "index" /\ UNCHANGED <<epoll_rs, mishaps>>
  /\ UNCHANGED <<fileVars, per_fd, tun_fd, log_handle, thVars, progVars, tun_old>>

\* accept keeps no resource for the connection, and pipe, which the loader hands to the
\* program as it is, none for its two ends.
accept(t, fd) ==
  /\ Ready(t)
  /\ KernelOpen("conn", fd)
  /\ mishaps' = mishaps \cup Reused(fd)
  /\ owned' = owned \cup {nfiles + 1}
  /\ UNCHANGED <<regVars, glueVars, thVars, peers, streams, epolls, runs>>

\* fopen64 of a file other than the log.
BeginFopen(t, fd) ==
  /\ Ready(t)
  /\ KernelOpen("stream", fd)
  /\ mishaps' = mishaps \cup Reused(fd)
  /\ Goto(t, "track_file", fd, nfiles + 1, NONE)
  /\ UNCHANGED <<regVars, glueVars, progVars>>

\* fopen64 of the log: if (log_handle) ans = log_handle.
FopenLog(t) ==
  /\ Ready(t)
  /\ IF log_handle # NONE THEN Goto(t, "track_file", FAILED, log_handle, NONE)
                          ELSE Goto(t, "open_log", FAILED, NONE, NONE)
  /\ UNCHANGED <<fileVars, regVars, glueVars, progVars, histVars>>

\* else ans = log_handle = fopen(pp, "w"), whatever another thread has stored meanwhile.
OpenLog(t, fd) ==
  /\ pc[t] = "open_log"
  /\ KernelOpen("log", fd)
  /\ log_handle' = nfiles + 1
  /\ mishaps' = mishaps \cup Reused(fd) \cup (IF log_handle # NONE THEN {"log"} ELSE {})
  /\ Goto(t, "track_file", fd, nfiles + 1, NONE)
  /\ UNCHANGED <<regVars, per_fd, tun_fd, epoll_rs, progVars>>

\* setvbuf of a log that could not be opened.
LogFails(t) ==
  /\ pc[t] = "open_log"
  /\ fault' = "null"
  /\ UNCHANGED <<fileVars, regVars, glueVars, thVars, progVars, mishaps, tun_old>>

\* resource_alloc(sizeof(FILE*), res_file), returned to the program as its FILE*.
TrackFile(t) ==
  /\ pc[t] = "track_file"
  /\ Alloc("file", t_file[t])
  /\ streams' = streams \cup {nobj + 1}
  /\ Return(t)
  /\ UNCHANGED <<fileVars, glueVars, peers, owned, epolls, runs, histVars>>

\* A program that has no epoll descriptor creates one.
epoll_create(t) ==
  /\ Ready(t) /\ epolls = 0
  /\ IF epoll_rs # NONE
     THEN fault' = "epoll" /\ UNCHANGED <<regVars, epoll_rs, epolls>>
     ELSE Alloc("epoll", NONE) /\ epoll_rs' = nobj + 1 /\ epolls' = 1 /\ UNCHANGED fault
  /\ UNCHANGED <<fileVars, per_fd, tun_fd, log_handle, thVars, peers, owned, streams, runs,
                 mishaps, tun_old>>

\* ioctl(fd, TUNSETIFF) on an open /dev/net/tun: tun_fd is set before the flags are looked
\* at, so also by a call that fails.
TUNSETIFF(t, f) ==
  /\ Ready(t) /\ f \in owned /\ class[f] = "tun"
  /\ IF tun_fd # FAILED
     THEN fault' = "tun" /\ UNCHANGED tun_fd
     ELSE tun_fd' = fdno[f] /\ UNCHANGED fault
  /\ UNCHANGED <<fileVars, regVars, per_fd, log_handle, epoll_rs, thVars, progVars,
                 mishaps, tun_old>>

-----------------------------------------------------------------------------
(* Closing *)

\* Mutant: the tun descriptor stays registered when it is closed.
BeginClose_KeepTun(t, f) ==
  /\ Ready(t) /\ f \in owned
  /\ owned' = owned \ {f}
  /\ Goto(t, "close_free", fdno[f], NONE, per_fd[fdno[f]])
  /\ UNCHANGED <<fileVars, regVars, glueVars, peers, streams, epolls, runs, histVars>>

\* impl_close(fd), up to the call of resource_free(per_fd_resources[fd]).
BeginClose(t, f) ==
  /\ Ready(t) /\ f \in owned
  /\ owned' = owned \ {f}
  /\ IF tun_fd = fdno[f] THEN tun_fd' = FAILED /\ tun_old' = FALSE
                         ELSE UNCHANGED <<tun_fd, tun_old>>
  /\ Goto(t, "close_free", fdno[f], NONE, per_fd[fdno[f]])
  /\ UNCHANGED <<fileVars, regVars, per_fd, log_handle, epoll_rs, peers, streams, epolls, runs,
                 mishaps, fault>>

CloseFree(t) ==
  /\ pc[t] = "close_free"
  /\ resource_free(t_obj[t])
  /\ Goto(t, "close_clear", t_fd[t], NONE, NONE)
  /\ UNCHANGED progVars

\* per_fd_resources[fd] = 0
CloseClear(t) ==
  /\ pc[t] = "close_clear"
  /\ per_fd' = [per_fd EXCEPT ![t_fd[t]] = NONE]
  /\ Goto(t, "close_fd", t_fd[t], NONE, NONE)
  /\ UNCHANGED <<fileVars, regVars, tun_fd, log_handle, epoll_rs, progVars, histVars>>

\* return close(fd): the resource's callback has closed it already.
CloseFd(t) ==
  /\ pc[t] = "close_fd"
  /\ KernelClose(t_fd[t])
  /\ Return(t)
  /\ UNCHANGED <<regVars, glueVars, progVars, histVars>>

\* close(65536), the epoll descriptor, up to resource_free(epoll_rs).  Without epoll_rs it
\* is taken for a descriptor beyond the end of per_fd_resources.
BeginCloseEpoll(t) ==
  /\ Ready(t) /\ epolls = 1 /\ \A u \in Threads : pc[u] # "epoll_free"
  /\ IF epoll_rs # NONE
     THEN Goto(t, "epoll_free", FAILED, NONE, epoll_rs) /\ UNCHANGED fault
     ELSE fault' = "index" /\ UNCHANGED thVars
  /\ UNCHANGED <<fileVars, regVars, glueVars, progVars, mishaps, tun_old>>

CloseEpoll(t) ==
  /\ pc[t] = "epoll_free"
  /\ resource_free(t_obj[t])
  /\ epolls' = 0
  /\ Return(t)
  /\ UNCHANGED <<peers, owned, streams, runs>>

\* Mutant: *fp is left as it is, and res_file closes the file a second time.
fclose_KeepPointer(t, o) ==
  /\ Ready(t) /\ o \in streams
  /\ IF val[o] = log_handle THEN UNCHANGED fileVars ELSE KernelClose(fdno[val[o]])
  /\ streams' = streams \ {o}
  /\ Goto(t, "handle_free", FAILED, NONE, o)
  /\ UNCHANGED <<object, proc, orphaned, cb, val, nobj, glueVars, peers, owned, epolls, runs,
                 histVars>>

\* impl_fclose: fclose(*fp) unless it is the log; *fp = 0.
fclose(t, o) ==
  /\ Ready(t) /\ o \in streams
  /\ IF val[o] = log_handle THEN UNCHANGED fileVars ELSE KernelClose(fdno[val[o]])
  /\ val' = [val EXCEPT ![o] = NONE]
  /\ streams' = streams \ {o}
  /\ Goto(t, "handle_free", FAILED, NONE, o)
  /\ UNCHANGED <<object, proc, orphaned, cb, nobj, glueVars, peers, owned, epolls, runs, histVars>>

\* resource_free(f)
FcloseFree(t) ==
  /\ pc[t] = "handle_free"
  /\ resource_free(t_obj[t])
  /\ Return(t)
  /\ UNCHANGED progVars

-----------------------------------------------------------------------------
(* Threads, exit and restart *)

\* pthread_create and pthread_exit are the host's own.
pthread_create(u, t) ==
  /\ Ready(u) /\ t # Main /\ t \notin peers
  /\ peers' = peers \cup {t}
  /\ UNCHANGED <<fileVars, regVars, glueVars, thVars, owned, streams, epolls, runs, histVars>>

pthread_exit(t) ==
  /\ pc[t] = "idle" /\ t \in peers
  /\ peers' = peers \ {t}
  /\ UNCHANGED <<fileVars, regVars, glueVars, thVars, owned, streams, epolls, runs, histVars>>

\* impl_exit, in the main thread, whatever the others are doing.
BeginExit ==
  /\ pc[Main] = "idle" /\ proc = "running"
  /\ orphaned' = (orphaned \/ peers # {})
  /\ Goto(Main, "collect", FAILED, NONE, NONE)
  /\ UNCHANGED <<fileVars, object, proc, cb, val, nobj, glueVars, progVars, histVars>>

\* One iteration of resource_collect: the youngest resource goes first.
Collect(o) ==
  /\ Exiting
  /\ object[o] = "live" /\ \A q \in Objects : object[q] = "live" => q <= o
  /\ R!Release(o) /\ Callback(o)
  /\ UNCHANGED <<cb, val, nobj, per_fd, tun_fd, log_handle, thVars, progVars, histVars>>

\* What the program knows is gone, unless peers still know it; static variables stay.
EndExit ==
  /\ Exiting
  /\ R!Exit
  /\ IF peers = {} THEN owned' = {} /\ streams' = {} /\ epolls' = 0
                   ELSE UNCHANGED <<owned, streams, epolls>>
  /\ tun_old' = (tun_fd # FAILED)
  /\ Return(Main)
  /\ UNCHANGED <<fileVars, cb, val, nobj, glueVars, peers, runs, mishaps, fault>>

\* The daemon loop, or the next popen, runs a program in the same process.
Restart ==
  /\ runs < MaxRuns
  /\ R!Start
  /\ runs' = runs + 1
  /\ UNCHANGED <<fileVars, cb, val, nobj, glueVars, thVars, peers, owned, streams, epolls,
                 histVars>>

OpenStep(t) ==
  \/ \E fd \in Fds : \/ \E c \in {"plain", "tun"} : BeginOpen(t, c, fd)
                     \/ accept(t, fd) \/ BeginFopen(t, fd) \/ OpenLog(t, fd)
  \/ Track(t) \/ OpenFails(t) \/ FopenLog(t) \/ LogFails(t) \/ TrackFile(t) \/ epoll_create(t)
  \/ \E f \in Files : TUNSETIFF(t, f)

CloseStep(t) ==
  \/ \E f \in Files : BeginClose(t, f)
  \/ CloseFree(t) \/ CloseClear(t) \/ CloseFd(t) \/ BeginCloseEpoll(t) \/ CloseEpoll(t)
  \/ \E o \in Objects : fclose(t, o)
  \/ FcloseFree(t)

ThreadStep(t) == pthread_exit(t) \/ \E u \in Threads : pthread_create(t, u)

ExitStep == BeginExit \/ (\E o \in Objects : Collect(o)) \/ EndExit \/ Restart

Next ==
  /\ fault = "none"
  /\ (\E t \in Threads : OpenStep(t) \/ CloseStep(t) \/ ThreadStep(t)) \/ ExitStep

Spec == Init /\ [][Next]_vars

-----------------------------------------------------------------------------
(* Properties *)

\* handles.h: the emulated exit leaves no descriptor of the program open, except
\* connections and pipes, for which nothing keeps a resource, and the log; whatever
\* has gone wrong before, unless it left threads behind.
NoLeak ==
  proc = "exited" /\ ~orphaned =>
    \A d \in Fds : kernel[d] # NONE => class[kernel[d]] \in {"conn", "log"}

\* Nothing has gone wrong that lets a call close what is not its own.
Sound == mishaps = {} /\ ~orphaned

\* glue.c: a file the program has opened and not closed is open at its descriptor: in no
\* run does another thread's call close it, or a call on another descriptor.  Until a
\* mishap: see mishaps for the ways the code has to close another's descriptor.
StillOpen == Sound /\ ~Exiting => \A f \in owned : kernel[fdno[f]] = f

\* glue.c: each stream of the program has its file open, and so has the log, through
\* fclose and exit, in every later run; the log is opened once, however many runs use
\* it.  Until a mishap, as above.
StreamsOpen ==
  Sound =>
    /\ Cardinality({d \in Fds : kernel[d] # NONE /\ class[kernel[d]] = "log"}) <= 1
    /\ log_handle # NONE => kernel[fdno[log_handle]] = log_handle
    /\ ~Exiting => \A o \in streams : val[o] \in Files /\ kernel[fdno[val[o]]] = val[o]

\* glue.c: tun_fd, which decides whether read and write go through the ethernet
\* emulation, is the descriptor of an open tun device, until an exit leaves it set
\* and again once a close has reset it.
TunNamesTun ==
  Sound /\ ~Exiting /\ ~tun_old /\ tun_fd # FAILED =>
    kernel[tun_fd] # NONE /\ class[kernel[tun_fd]] = "tun"

\* glue.c:464, "epoll_create called twice!": a program that closes its epoll descriptor,
\* or exits, before it creates another is never stopped by that check, unless a stale
\* pointer or the store at -1 has hit epoll_rs or threads have survived an exit.
EpollNotTwice ==
  mishaps \cap {"stale", "index"} = {} /\ ~orphaned =>
    fault # "epoll" /\ (epolls = 1 /\ ~Exiting => epoll_rs # NONE)

\* glue.c:713, "tried to create 2 tun interfaces!": that stops only a program which has
\* created the first of them itself.
TunNotTwice == fault = "tun" => ~tun_old
=============================================================================
