--------------------------- MODULE DescriptorsProofs ---------------------------
(***************************************************************************)
(* What the descriptor emulation keeps for any number of threads, numbers,  *)
(* files, resources and runs.  Inv says that every open file that has to be *)
(* closed by the exit has a live resource that will close it, or a thread   *)
(* that is about to create one, whatever has gone wrong; EInv that the      *)
(* epoll resource is live exactly while the program has its epoll           *)
(* descriptor; SInv, until a mishap, that each live resource has a file of  *)
(* its own and that no thread closes what is not its own.                   *)
(***************************************************************************)
EXTENDS Descriptors, FiniteSetTheorems, TLAPS

(* The invariant *)

Passing(labels) == {t \in Threads : pc[t] \in labels}
Closers == Passing({"close_free", "close_clear", "close_fd"})

\* Where threads may be: only Main exits, and without orphans it is alone then.
Positions ==
  /\ \A t \in Passing({"collect"}) : t = Main /\ proc = "running"
  /\ \A t \in Threads : pc[t] # "idle" => t \in peers \/ (t = Main /\ proc = "running")
  /\ ~orphaned /\ (Exiting \/ proc = "exited") => peers = {}
  /\ ~orphaned /\ proc = "exited" => \A o \in Objects : object[o] # "live"

\* What pointers lead to, alive or not: a resource of their kind.
IsFd(o, d) == object[o] # "none" /\ cb[o] = "fd" /\ val[o] = d
IsFile(o) == object[o] # "none" /\ cb[o] = "file"
Pointers ==
  /\ \A o \in Objects : cb[o] = "file" => val[o] \in Files \cup {NONE}
  /\ \A o \in streams : IsFile(o) /\ val[o] \in Files
  /\ \A d \in Fds : per_fd[d] # NONE => IsFd(per_fd[d], d)
  /\ \A t \in Passing({"close_free"}) : t_obj[t] # NONE => IsFd(t_obj[t], t_fd[t])
  /\ \A t \in Passing({"handle_free"}) :
       t_obj[t] # NONE /\ IsFile(t_obj[t]) /\ val[t_obj[t]] = NONE

\* What threads have in hand.
Locals ==
  /\ \A t \in Passing({"track"}) : t_file[t] \in Files /\ fdno[t_file[t]] \in Fds
  /\ \A t \in Passing({"track_file"}) : t_file[t] \in Files
  /\ \A t \in Closers \cup Passing({"track"}) : t_fd[t] \in Fds
  /\ \A f \in owned : fdno[f] \in Fds

\* The open files are known, and behind the descriptor they were opened with.
Placed ==
  /\ \A d \in Fds : kernel[d] # NONE =>
       kernel[d] <= nfiles /\ fdno[kernel[d]] = d /\ class[kernel[d]] # "none"
  /\ log_handle # NONE => log_handle <= nfiles /\ class[log_handle] = "log"

HeldFd(d) ==
  \/ \E t \in Passing({"track"}) : t_fd[t] = d
  \/ \E o \in Objects : object[o] = "live" /\ cb[o] = "fd" /\ val[o] = d
HeldStream(f) ==
  \/ \E t \in Passing({"track_file"}) : t_file[t] = f
  \/ \E o \in Objects : object[o] = "live" /\ cb[o] = "file" /\ val[o] = f

\* Every open file has something that will close it.
Held ==
  \A d \in Fds : kernel[d] # NONE =>
    /\ class[kernel[d]] \in {"plain", "tun"} => HeldFd(d)
    /\ class[kernel[d]] = "stream" => HeldStream(kernel[d])

Inv == TypeOK /\ Positions /\ Pointers /\ Locals /\ Placed /\ Held

\* The epoll resource is live exactly while the program has its epoll descriptor.
ESound == mishaps \cap {"stale", "index"} = {} /\ ~orphaned
EpollLive ==
  /\ epoll_rs # NONE => object[epoll_rs] = "live" /\ cb[epoll_rs] = "epoll"
  /\ \A o \in Objects : object[o] = "live" /\ cb[o] = "epoll" => o = epoll_rs
EpollHeld ==
  /\ ~Exiting => (epolls = 1 <=> epoll_rs # NONE)
  /\ \A t \in Passing({"epoll_free"}) : epoll_rs # NONE /\ t_obj[t] = epoll_rs
  /\ \A t, u \in Passing({"epoll_free"}) : t = u
EInv == ESound => EpollLive /\ EpollHeld /\ fault # "epoll"

\* Each live resource has a file of its own.
LiveFd(o, d) == object[o] = "live" /\ cb[o] = "fd" /\ val[o] = d
LiveFile(o, f) == object[o] = "live" /\ cb[o] = "file" /\ val[o] = f
OpenAt(d, classes) == kernel[d] # NONE /\ class[kernel[d]] \in classes
Open(f) == fdno[f] \in Fds /\ kernel[fdno[f]] = f
FdRes ==
  \A o \in Objects, d \in Fds : LiveFd(o, d) => per_fd[d] = o /\ OpenAt(d, {"plain", "tun"})
FileRes ==
  \A o \in Objects, f \in Files : LiveFile(o, f) /\ f # log_handle =>
    /\ class[f] = "stream" /\ Open(f)
    /\ \A q \in Objects : LiveFile(q, f) => q = o
LogOpen ==
  /\ log_handle # NONE => Open(log_handle)
  /\ \A d \in Fds : OpenAt(d, {"log"}) => kernel[d] = log_handle
\* The program's own.
Busy == Closers \cup Passing({"track"})
Owned ==
  ~Exiting => \A f \in owned :
    /\ Open(f) /\ class[f] \in {"plain", "tun", "conn"}
    /\ \A t \in Busy : t_fd[t] # fdno[f]
Streams == ~Exiting => \A o \in streams : object[o] = "live"
TunOpen ==
  ~Exiting /\ ~tun_old /\ tun_fd # FAILED =>
    \E f \in owned : class[f] = "tun" /\ fdno[f] = tun_fd
\* The threads'.
Trackers ==
  \A t \in Passing({"track"}) :
    /\ kernel[t_fd[t]] = t_file[t] /\ class[t_file[t]] \in {"plain", "tun"}
    /\ \A o \in Objects : ~LiveFd(o, t_fd[t])
FileTrackers ==
  \A t \in Passing({"track_file"}) : t_file[t] # log_handle =>
    /\ class[t_file[t]] = "stream" /\ Open(t_file[t])
    /\ \A o \in Objects : ~LiveFile(o, t_file[t])
    /\ \A u \in Passing({"track_file"}) : t_file[u] = t_file[t] => u = t
Closings ==
  \A t \in Closers :
    /\ kernel[t_fd[t]] # NONE => class[kernel[t_fd[t]]] \in {"plain", "tun", "conn"}
    /\ pc[t] = "close_free" => t_obj[t] = per_fd[t_fd[t]]
    /\ pc[t] # "close_free" => \A o \in Objects : ~LiveFd(o, t_fd[t])
Apart == \A t, u \in Busy : t_fd[t] = t_fd[u] => t = u
Sane ==
  /\ FdRes /\ FileRes /\ LogOpen
  /\ Owned /\ Streams /\ TunOpen
  /\ Trackers /\ FileTrackers /\ Closings /\ Apart
SInv == Sound => Sane

-----------------------------------------------------------------------------
(* What the steps are made of, pointwise *)

\* Thread t has gone to a label, with its locals; the others stand where they were.
Moves(t, label, fd, f, o) ==
  /\ pc'[t] = label /\ t_fd'[t] = fd /\ t_file'[t] = f /\ t_obj'[t] = o
  /\ \A u \in Threads : u # t =>
       pc'[u] = pc[u] /\ t_fd'[u] = t_fd[u] /\ t_file'[u] = t_file[u] /\ t_obj'[u] = t_obj[u]
ThreadsOK ==
  /\ pc \in [Threads -> {"idle", "track", "open_log", "track_file", "close_free",
                         "close_clear", "close_fd", "handle_free", "epoll_free", "collect"}]
  /\ t_fd \in [Threads -> Fds \cup {FAILED}]
  /\ t_file \in [Threads -> Files \cup {NONE}]
  /\ t_obj \in [Threads -> Objects \cup {NONE}]

LEMMA GotoMoves ==
  ASSUME TypeOK, NEW t \in Threads,
         NEW label \in {"idle", "track", "open_log", "track_file", "close_free",
           "close_clear", "close_fd", "handle_free", "epoll_free", "collect"},
         NEW fd \in Fds \cup {FAILED}, NEW f \in Files \cup {NONE},
         NEW o \in Objects \cup {NONE}, Goto(t, label, fd, f, o)
  PROVE  ThreadsOK' /\ Moves(t, label, fd, f, o)
BY DEF TypeOK, Goto, ThreadsOK, Moves

LEMMA ReturnMoves ==
  ASSUME TypeOK, NEW t \in Threads, Return(t)
  PROVE  ThreadsOK' /\ Moves(t, "idle", FAILED, NONE, NONE)
BY GotoMoves DEF Return

\* A file of class c has been opened at fd.
Opens(c, fd) ==
  LET n == nfiles + 1 IN
  /\ n \in Files /\ nfiles \in Nat /\ nfiles' = n
  /\ kernel[fd] = NONE /\ kernel'[fd] = n
  /\ \A d \in Fds : d # fd => kernel'[d] = kernel[d]
  /\ class'[n] = c /\ fdno'[n] = fd
  /\ \A f \in Files : f # n => class'[f] = class[f] /\ fdno'[f] = fdno[f]
FilesOK ==
  /\ kernel \in [Fds -> Files \cup {NONE}]
  /\ class \in [Files -> {"none", "plain", "tun", "conn", "stream", "log"}]
  /\ fdno \in [Files -> Fds \cup {FAILED}]
  /\ nfiles \in 0 .. MaxFiles

LEMMA KernelOpens ==
  ASSUME TypeOK, NEW c \in {"plain", "tun", "conn", "stream", "log"}, NEW fd \in Fds,
         KernelOpen(c, fd)
  PROVE  FilesOK' /\ Opens(c, fd)
<1>1. /\ nfiles + 1 \in Files /\ nfiles' \in 0 .. MaxFiles
      /\ nfiles \in Nat /\ nfiles' = nfiles + 1
  BY DescriptorsAssumption DEF TypeOK, KernelOpen, Files
<1>2. FilesOK'
  BY <1>1 DEF TypeOK, KernelOpen, FilesOK
<1>3. Opens(c, fd)
  BY <1>1 DEF TypeOK, KernelOpen, Opens
<1> QED
  BY <1>2, <1>3

\* What was open at number d is closed.
Closes(d) ==
  /\ \A e \in Fds : kernel'[e] = IF e = d THEN NONE ELSE kernel[e]
  /\ UNCHANGED <<class, fdno, nfiles>>

LEMMA KernelCloses ==
  ASSUME TypeOK, NEW d, KernelClose(d)
  PROVE  FilesOK' /\ Closes(d)
BY DEF TypeOK, KernelClose, FilesOK, Closes

\* A resource has been created.
Makes(k, v) ==
  LET n == nobj + 1 IN
  /\ n \in Objects /\ object[n] = "none" /\ object'[n] = "live" /\ cb'[n] = k /\ val'[n] = v
  /\ \A o \in Objects : o # n => object'[o] = object[o] /\ cb'[o] = cb[o] /\ val'[o] = val[o]
  /\ ~Exiting /\ (proc = "running" \/ orphaned) /\ UNCHANGED <<proc, orphaned>>
RegOK ==
  /\ object \in [Objects -> {"none", "live", "released"}]
  /\ proc \in {"running", "exited"}
  /\ orphaned \in BOOLEAN
  /\ cb \in [Objects -> {"fd", "file", "epoll"}]
  /\ val \in [Objects -> Fds \cup Files \cup {FAILED, NONE}]
  /\ nobj \in 0 .. MaxObjects

LEMMA AllocMakes ==
  ASSUME TypeOK, NEW k \in {"fd", "file", "epoll"},
         NEW v \in Fds \cup Files \cup {FAILED, NONE}, Alloc(k, v)
  PROVE  RegOK' /\ Makes(k, v)
<1>1. nobj + 1 \in Objects /\ nobj' \in 0 .. MaxObjects
  BY DescriptorsAssumption DEF TypeOK, Alloc, Objects
<1>2. UNCHANGED <<proc, orphaned>> /\ (proc = "running" \/ orphaned)
  BY DEF Alloc, R!Create, R!Alive
<1>3. /\ object' \in [Objects -> {"none", "live", "released"}]
      /\ cb' \in [Objects -> {"fd", "file", "epoll"}]
      /\ val' \in [Objects -> Fds \cup Files \cup {FAILED, NONE}]
  BY <1>1 DEF TypeOK, Alloc, R!Create
<1>4. RegOK'
  BY <1>1, <1>2, <1>3 DEF TypeOK, RegOK
<1>5. Makes(k, v)
  BY <1>1, <1>2 DEF TypeOK, Alloc, R!Create, Makes, Unlocked
<1> QED
  BY <1>4, <1>5

\* A live resource has been released, with what its callback does.
CallbackCloses(o) ==
  /\ UNCHANGED <<class, fdno, nfiles>>
  /\ \A d \in Fds : kernel'[d] \in {kernel[d], NONE}
  /\ cb[o] = "fd" => \A d \in Fds : kernel'[d] = IF d = val[o] THEN NONE ELSE kernel[d]
  /\ cb[o] = "file" /\ val[o] \notin {NONE, log_handle} => Closes(fdno[val[o]])
  /\ cb[o] = "file" /\ val[o] \in {NONE, log_handle} => UNCHANGED kernel
  /\ cb[o] = "epoll" => UNCHANGED kernel
  /\ epoll_rs' = IF cb[o] = "epoll" THEN NONE ELSE epoll_rs
Frees(o) ==
  /\ object[o] = "live" /\ object'[o] = "released"
  /\ \A q \in Objects : q # o => object'[q] = object[q]
  /\ (proc = "running" \/ orphaned) /\ UNCHANGED <<proc, orphaned, cb, val, nobj, log_handle>>
  /\ CallbackCloses(o)

LEMMA ReleaseFrees ==
  ASSUME TypeOK, NEW o \in Objects, R!Release(o), Callback(o),
         UNCHANGED <<cb, val, nobj, log_handle>>
  PROVE  FilesOK' /\ RegOK' /\ epoll_rs' \in Objects \cup {NONE} /\ Frees(o)
<1>1. /\ object' \in [Objects -> {"none", "live", "released"}]
      /\ object[o] = "live" /\ object'[o] = "released"
      /\ \A q \in Objects : q # o => object'[q] = object[q]
  BY DEF TypeOK, R!Release
<1>2. UNCHANGED <<proc, orphaned>> /\ (proc = "running" \/ orphaned)
  BY DEF R!Release, R!Alive
<1>3. cb[o] \in {"fd", "file", "epoll"}
  BY DEF TypeOK
<1>4. FilesOK' /\ UNCHANGED <<class, fdno, nfiles>>
  BY DEF TypeOK, Callback, KernelClose, fileVars, FilesOK
<1>5. CallbackCloses(o)
  <2>1. CASE cb[o] = "fd"
    <3>1. KernelClose(val[o]) /\ epoll_rs' = epoll_rs
      BY <2>1 DEF Callback
    <3>2. Closes(val[o])
      BY <3>1, KernelCloses
    <3> QED
      BY <2>1, <3>1, <3>2 DEF CallbackCloses, Closes
  <2>2. CASE cb[o] = "file" /\ val[o] \notin {NONE, log_handle}
    <3>1. KernelClose(fdno[val[o]]) /\ epoll_rs' = epoll_rs
      BY <2>2 DEF Callback
    <3>2. Closes(fdno[val[o]])
      BY <3>1, KernelCloses
    <3> QED
      BY <2>2, <3>1, <3>2 DEF CallbackCloses, Closes
  <2>3. CASE cb[o] = "file" /\ val[o] \in {NONE, log_handle}
    BY <2>3 DEF Callback, CallbackCloses, fileVars
  <2>4. CASE cb[o] = "epoll"
    BY <2>4 DEF Callback, CallbackCloses, fileVars
  <2> QED
    BY <1>3, <2>1, <2>2, <2>3, <2>4
<1>6. epoll_rs' \in Objects \cup {NONE}
  BY DEF TypeOK, Callback
<1>7. RegOK'
  BY <1>1, <1>2 DEF TypeOK, RegOK
<1> QED
  BY <1>1, <1>2, <1>4, <1>5, <1>6, <1>7 DEF Frees

\* resource_free(h): nothing is released, for a null pointer or a stale one; or a
\* resource is, which is h unless a stale pointer has been recorded.
KeepsResources ==
  UNCHANGED <<kernel, class, fdno, nfiles, object, proc, orphaned, cb, val, nobj, epoll_rs,
              log_handle>>

LEMMA FreeCases ==
  ASSUME TypeOK, NEW h \in Objects \cup {NONE}, resource_free(h)
  PROVE  /\ FilesOK' /\ RegOK' /\ epoll_rs' \in Objects \cup {NONE}
         /\ mishaps' \subseteq {"number", "stale", "log", "index"} /\ mishaps \subseteq mishaps'
         /\ fault' \in {fault, "magic"}
         /\ UNCHANGED <<per_fd, tun_fd, log_handle, tun_old, proc, orphaned, cb, val>> /\ ~Exiting
         /\ \/ KeepsResources /\ (h # NONE => object[h] # "live")
            \/ \E q \in Objects : Frees(q) /\ (q = h \/ "stale" \in mishaps')
         /\ h # NONE /\ "stale" \notin mishaps' /\ fault' # "magic" => Frees(h)
<1>1. UNCHANGED <<per_fd, tun_fd, log_handle, tun_old, cb, val, nobj>> /\ ~Exiting
  BY DEF resource_free, Unlocked
<1>2. CASE KeepsResources /\ h = NONE /\ UNCHANGED <<mishaps, fault>>
  BY <1>1, <1>2 DEF TypeOK, FilesOK, RegOK, KeepsResources
<1>3. ASSUME NEW q \in Objects, R!Release(q), Callback(q), UNCHANGED fault,
             \/ q = h /\ UNCHANGED mishaps
             \/ h # NONE /\ object[h] # "live" /\ mishaps' = mishaps \cup {"stale"}
      PROVE  /\ FilesOK' /\ RegOK' /\ epoll_rs' \in Objects \cup {NONE} /\ Frees(q)
             /\ mishaps' \subseteq {"number", "stale", "log", "index"}
             /\ mishaps \subseteq mishaps'
             /\ q = h \/ "stale" \in mishaps'
  BY <1>1, <1>3, ReleaseFrees DEF TypeOK
<1>4. CASE /\ KeepsResources /\ h # NONE /\ object[h] # "live"
           /\ \/ fault' = "magic" /\ UNCHANGED mishaps
              \/ mishaps' = mishaps \cup {"stale"} /\ UNCHANGED fault
  BY <1>1, <1>4, ZenonT(60) DEF TypeOK, FilesOK, RegOK, KeepsResources
<1>5. CASE h # NONE /\ ReleaseLive(h)
  BY <1>1, <1>3, <1>5 DEF ReleaseLive, Frees
<1>6. CASE h # NONE /\ ReleaseStale(h)
  <2>1. CASE \E q \in Objects : R!Release(q) /\ Callback(q) /\ UNCHANGED fault
                                /\ mishaps' = mishaps \cup {"stale"}
    BY <1>1, <1>3, <1>6, <2>1 DEF ReleaseStale, Frees
  <2>2. CASE ~(\E q \in Objects : R!Release(q) /\ Callback(q) /\ UNCHANGED fault
                                  /\ mishaps' = mishaps \cup {"stale"})
    BY <1>1, <1>4, <1>6, <2>2 DEF ReleaseStale, KeepsResources, fileVars
  <2> QED
    BY <2>1, <2>2
<1> QED
  BY <1>1, <1>2, <1>5, <1>6 DEF resource_free, KeepsResources, fileVars

-----------------------------------------------------------------------------
(* Types, by parts *)

GlueOK ==
  /\ per_fd \in [Fds -> Objects \cup {NONE}]
  /\ tun_fd \in Fds \cup {FAILED}
  /\ log_handle \in Files \cup {NONE}
  /\ epoll_rs \in Objects \cup {NONE}
ProgOK ==
  /\ peers \subseteq Threads \ {Main}
  /\ owned \subseteq Files
  /\ streams \subseteq Objects
  /\ epolls \in {0, 1}
  /\ runs \in 0 .. MaxRuns
HistOK ==
  /\ mishaps \subseteq {"number", "stale", "log", "index"}
  /\ tun_old \in BOOLEAN
  /\ fault \in {"none", "magic", "tun", "epoll", "index", "null"}


LEMMA TypePartsNext ==
  /\ FilesOK' /\ RegOK' /\ ThreadsOK' /\ GlueOK' /\ ProgOK' /\ HistOK' => TypeOK'
  /\ TypeOK /\ UNCHANGED fileVars => FilesOK'
  /\ TypeOK /\ UNCHANGED regVars => RegOK'
  /\ TypeOK /\ UNCHANGED thVars => ThreadsOK'
  /\ TypeOK /\ UNCHANGED glueVars => GlueOK'
  /\ TypeOK /\ UNCHANGED progVars => ProgOK'
  /\ TypeOK /\ UNCHANGED histVars => HistOK'
<1>1. FilesOK' /\ RegOK' /\ ThreadsOK' /\ GlueOK' /\ ProgOK' /\ HistOK' => TypeOK'
  BY DEF TypeOK, FilesOK, RegOK, ThreadsOK, GlueOK, ProgOK, HistOK
<1>2. TypeOK /\ UNCHANGED fileVars => FilesOK'
  BY DEF TypeOK, fileVars, FilesOK
<1>3. TypeOK /\ UNCHANGED regVars => RegOK'
  BY DEF TypeOK, regVars, RegOK
<1>4. TypeOK /\ UNCHANGED thVars => ThreadsOK'
  BY DEF TypeOK, thVars, ThreadsOK
<1>5. TypeOK /\ UNCHANGED glueVars => GlueOK'
  BY DEF TypeOK, glueVars, GlueOK
<1>6. TypeOK /\ UNCHANGED progVars => ProgOK'
  BY DEF TypeOK, progVars, ProgOK
<1>7. TypeOK /\ UNCHANGED histVars => HistOK'
  BY DEF TypeOK, histVars, HistOK
<1> QED
  BY <1>1, <1>2, <1>3, <1>4, <1>5, <1>6, <1>7

-----------------------------------------------------------------------------
(* What each call does *)

LEMMA BeginOpenDoes ==
  ASSUME TypeOK, NEW t \in Threads, NEW c \in {"plain", "tun"}, NEW fd \in Fds,
         BeginOpen(t, c, fd)
  PROVE  FilesOK' /\ ThreadsOK' /\ Opens(c, fd) /\ Moves(t, "track", fd, nfiles + 1, NONE)
<1>1. FilesOK' /\ Opens(c, fd)
  BY KernelOpens DEF BeginOpen
<1> QED
  BY <1>1, GotoMoves DEF BeginOpen, Opens

LEMMA AcceptDoes ==
  ASSUME TypeOK, NEW t \in Threads, NEW fd \in Fds, accept(t, fd)
  PROVE  FilesOK' /\ Opens("conn", fd)
BY KernelOpens DEF accept

LEMMA BeginFopenDoes ==
  ASSUME TypeOK, NEW t \in Threads, NEW fd \in Fds, BeginFopen(t, fd)
  PROVE  FilesOK' /\ ThreadsOK' /\ Opens("stream", fd)
         /\ Moves(t, "track_file", fd, nfiles + 1, NONE)
<1>1. FilesOK' /\ Opens("stream", fd)
  BY KernelOpens DEF BeginFopen
<1> QED
  BY <1>1, GotoMoves DEF BeginFopen, Opens

LEMMA OpenLogDoes ==
  ASSUME TypeOK, NEW t \in Threads, NEW fd \in Fds, OpenLog(t, fd)
  PROVE  FilesOK' /\ ThreadsOK' /\ Opens("log", fd)
         /\ Moves(t, "track_file", fd, nfiles + 1, NONE)
<1>1. FilesOK' /\ Opens("log", fd)
  BY KernelOpens DEF OpenLog
<1> QED
  BY <1>1, GotoMoves DEF OpenLog, Opens

LEMMA FopenLogDoes ==
  ASSUME TypeOK, NEW t \in Threads, FopenLog(t)
  PROVE  /\ ThreadsOK'
         /\ log_handle # NONE => Moves(t, "track_file", FAILED, log_handle, NONE)
         /\ log_handle = NONE => Moves(t, "open_log", FAILED, NONE, NONE)
<1>1. log_handle \in Files \cup {NONE}
  BY DEF TypeOK
<1> QED
  BY <1>1, GotoMoves DEF FopenLog

LEMMA TrackDoes ==
  ASSUME TypeOK, Locals, NEW t \in Threads, Track(t)
  PROVE  /\ RegOK' /\ ThreadsOK' /\ Makes("fd", t_fd[t])
         /\ Moves(t, "idle", FAILED, NONE, NONE)
         /\ pc[t] = "track" /\ t_fd[t] \in Fds /\ t_file[t] \in Files
         /\ per_fd'[t_fd[t]] = nobj + 1
         /\ \A d \in Fds : d # t_fd[t] => per_fd'[d] = per_fd[d]
<1>1. t_file[t] \in Files /\ t_fd[t] \in Fds
  BY DEF Track, Locals, Passing, Closers
<1>2. RegOK' /\ Makes("fd", t_fd[t])
  BY <1>1, AllocMakes DEF Track
<1>3. ThreadsOK' /\ Moves(t, "idle", FAILED, NONE, NONE)
  BY ReturnMoves DEF Track
<1> QED
  BY <1>1, <1>2, <1>3 DEF Track, TypeOK

LEMMA OpenFailsDoes ==
  ASSUME TypeOK, NEW t \in Threads, OpenFails(t)
  PROVE  RegOK' /\ Makes("fd", FAILED)
BY AllocMakes DEF OpenFails

LEMMA TrackFileDoes ==
  ASSUME TypeOK, Locals, NEW t \in Threads, TrackFile(t)
  PROVE  /\ RegOK' /\ ThreadsOK' /\ Makes("file", t_file[t])
         /\ Moves(t, "idle", FAILED, NONE, NONE)
         /\ pc[t] = "track_file" /\ t_file[t] \in Files
<1>1. t_file[t] \in Files
  BY DEF TrackFile, Locals, Passing
<1>2. RegOK' /\ Makes("file", t_file[t])
  BY <1>1, AllocMakes DEF TrackFile
<1>3. ThreadsOK' /\ Moves(t, "idle", FAILED, NONE, NONE)
  BY ReturnMoves DEF TrackFile
<1> QED
  BY <1>1, <1>2, <1>3 DEF TrackFile

LEMMA EpollCreateDoes ==
  ASSUME TypeOK, NEW t \in Threads, epoll_create(t)
  PROVE  \/ epoll_rs # NONE /\ UNCHANGED <<regVars, epoll_rs, epolls>> /\ fault' = "epoll"
         \/ /\ epoll_rs = NONE /\ RegOK' /\ Makes("epoll", NONE)
            /\ epoll_rs' = nobj + 1 /\ epolls' = 1 /\ UNCHANGED fault
<1>1. CASE epoll_rs = NONE
  BY <1>1, AllocMakes DEF epoll_create
<1>2. CASE epoll_rs # NONE
  BY <1>2 DEF epoll_create
<1> QED
  BY <1>1, <1>2

LEMMA BeginCloseDoes ==
  ASSUME TypeOK, Locals, NEW t \in Threads, NEW f \in Files, BeginClose(t, f)
  PROVE  /\ ThreadsOK' /\ fdno[f] \in Fds /\ per_fd[fdno[f]] \in Objects \cup {NONE}
         /\ Moves(t, "close_free", fdno[f], NONE, per_fd[fdno[f]])
<1>1. fdno[f] \in Fds /\ per_fd[fdno[f]] \in Objects \cup {NONE}
  BY DEF BeginClose, TypeOK, Locals
<1> QED
  BY <1>1, GotoMoves DEF BeginClose, NONE

LEMMA CloseFreeDoes ==
  ASSUME TypeOK, Locals, NEW t \in Threads, CloseFree(t)
  PROVE  /\ ThreadsOK' /\ t_fd[t] \in Fds /\ t_obj[t] \in Objects \cup {NONE}
         /\ Moves(t, "close_clear", t_fd[t], NONE, NONE)
<1>1. t_fd[t] \in Fds /\ t_obj[t] \in Objects \cup {NONE}
  BY DEF CloseFree, TypeOK, Locals, Passing, Closers
<1> QED
  BY <1>1, GotoMoves DEF CloseFree

LEMMA CloseClearDoes ==
  ASSUME TypeOK, Locals, NEW t \in Threads, CloseClear(t)
  PROVE  /\ ThreadsOK' /\ t_fd[t] \in Fds /\ Moves(t, "close_fd", t_fd[t], NONE, NONE)
         /\ \A d \in Fds : per_fd'[d] = IF d = t_fd[t] THEN NONE ELSE per_fd[d]
<1>1. t_fd[t] \in Fds
  BY DEF CloseClear, TypeOK, Locals, Passing, Closers
<1>2. \A d \in Fds : per_fd'[d] = IF d = t_fd[t] THEN NONE ELSE per_fd[d]
  BY DEF CloseClear, TypeOK
<1> QED
  BY <1>1, <1>2, GotoMoves DEF CloseClear

LEMMA CloseFdDoes ==
  ASSUME TypeOK, Locals, NEW t \in Threads, CloseFd(t)
  PROVE  /\ FilesOK' /\ ThreadsOK' /\ t_fd[t] \in Fds /\ Closes(t_fd[t])
         /\ Moves(t, "idle", FAILED, NONE, NONE)
<1>1. t_fd[t] \in Fds
  BY DEF CloseFd, Locals, Passing, Closers
<1> QED
  BY <1>1, KernelCloses, ReturnMoves DEF CloseFd

LEMMA BeginCloseEpollDoes ==
  ASSUME TypeOK, NEW t \in Threads, BeginCloseEpoll(t)
  PROVE  \/ /\ epoll_rs # NONE /\ ThreadsOK' /\ UNCHANGED fault
            /\ Moves(t, "epoll_free", FAILED, NONE, epoll_rs)
         \/ epoll_rs = NONE /\ UNCHANGED thVars /\ fault' = "index"
<1>1. epoll_rs \in Objects \cup {NONE}
  BY DEF TypeOK
<1> QED
  BY <1>1, GotoMoves DEF BeginCloseEpoll, NONE

LEMMA FcloseDoes ==
  ASSUME TypeOK, Pointers, NEW t \in Threads, NEW o \in Objects, fclose(t, o)
  PROVE  /\ FilesOK' /\ RegOK' /\ ThreadsOK'
         /\ Moves(t, "handle_free", FAILED, NONE, o)
         /\ o \in streams /\ IsFile(o) /\ val[o] \in Files /\ val'[o] = NONE
         /\ \A q \in Objects : q # o => val'[q] = val[q]
         /\ val[o] = log_handle => UNCHANGED fileVars
         /\ val[o] # log_handle => Closes(fdno[val[o]])
<1>1. ThreadsOK' /\ Moves(t, "handle_free", FAILED, NONE, o)
  BY GotoMoves DEF fclose, NONE
<1>2. RegOK' /\ val'[o] = NONE /\ \A q \in Objects : q # o => val'[q] = val[q]
  BY DEF fclose, TypeOK, RegOK
<1>3. o \in streams /\ IsFile(o) /\ val[o] \in Files
  BY DEF fclose, Pointers
<1>4. FilesOK'
  BY KernelCloses, TypePartsNext DEF fclose
<1>5. /\ val[o] = log_handle => UNCHANGED fileVars
      /\ val[o] # log_handle => Closes(fdno[val[o]])
  BY KernelCloses DEF fclose
<1> QED
  BY <1>1, <1>2, <1>3, <1>4, <1>5

LEMMA CallReturns ==
  ASSUME TypeOK, NEW t \in Threads, CloseEpoll(t) \/ FcloseFree(t)
  PROVE  /\ ThreadsOK' /\ Moves(t, "idle", FAILED, NONE, NONE)
         /\ t_obj[t] \in Objects \cup {NONE}
BY ReturnMoves DEF CloseEpoll, FcloseFree, TypeOK

LEMMA BeginExitDoes ==
  ASSUME TypeOK, BeginExit
  PROVE  ThreadsOK' /\ Moves(Main, "collect", FAILED, NONE, NONE)
BY DescriptorsAssumption, GotoMoves DEF BeginExit

LEMMA CollectDoes ==
  ASSUME TypeOK, NEW o \in Objects, Collect(o)
  PROVE  FilesOK' /\ RegOK' /\ epoll_rs' \in Objects \cup {NONE} /\ Frees(o)
BY ReleaseFrees DEF Collect

LEMMA EndExitDoes ==
  ASSUME TypeOK, EndExit
  PROVE  ThreadsOK' /\ Moves(Main, "idle", FAILED, NONE, NONE)
BY DescriptorsAssumption, ReturnMoves DEF EndExit

-----------------------------------------------------------------------------
(* Types *)

LEMMA OpenType ==
  ASSUME TypeOK, Locals, NEW t \in Threads, OpenStep(t)
  PROVE  TypeOK'
<1>1. ASSUME NEW fd \in Fds, NEW c \in {"plain", "tun"}, BeginOpen(t, c, fd)
      PROVE  TypeOK'
  <2>1. HistOK'
    BY <1>1 DEF BeginOpen, TypeOK, HistOK, KernelOpen, Reused
  <2> QED
    BY <1>1, <2>1, BeginOpenDoes, TypePartsNext DEF BeginOpen
<1>2. ASSUME NEW fd \in Fds, accept(t, fd)
      PROVE  TypeOK'
  <2>1. HistOK'
    BY <1>2 DEF accept, TypeOK, HistOK, KernelOpen, Reused
  <2>2. ProgOK'
    BY <1>2, AcceptDoes DEF accept, TypeOK, ProgOK, Opens
  <2> QED
    BY <1>2, <2>1, <2>2, AcceptDoes, TypePartsNext DEF accept
<1>3. ASSUME NEW fd \in Fds, BeginFopen(t, fd)
      PROVE  TypeOK'
  <2>1. HistOK'
    BY <1>3 DEF BeginFopen, TypeOK, HistOK, KernelOpen, Reused
  <2> QED
    BY <1>3, <2>1, BeginFopenDoes, TypePartsNext DEF BeginFopen
<1>4. ASSUME NEW fd \in Fds, OpenLog(t, fd)
      PROVE  TypeOK'
  <2>1. HistOK'
    BY <1>4 DEF OpenLog, TypeOK, HistOK, KernelOpen, Reused
  <2>2. GlueOK'
    BY <1>4, OpenLogDoes DEF OpenLog, TypeOK, GlueOK, Opens
  <2> QED
    BY <1>4, <2>1, <2>2, OpenLogDoes, TypePartsNext DEF OpenLog
<1>5. CASE Track(t)
  <2>1. nobj + 1 \in Objects /\ t_file[t] \in Files
    BY <1>5, TrackDoes DEF Makes
  <2>2. GlueOK' /\ ProgOK'
    BY <1>5, <2>1 DEF Track, TypeOK, GlueOK, ProgOK
  <2> QED
    BY <1>5, <2>2, TrackDoes, TypePartsNext DEF Track
<1>6. CASE OpenFails(t)
  <2>1. GlueOK' /\ HistOK'
    BY <1>6, OpenFailsDoes, ZenonT(60) DEF OpenFails, TypeOK, GlueOK, HistOK, Makes
  <2> QED
    BY <1>6, <2>1, OpenFailsDoes, TypePartsNext DEF OpenFails
<1>7. CASE FopenLog(t)
  BY <1>7, FopenLogDoes, TypePartsNext DEF FopenLog
<1>8. CASE LogFails(t)
  <2>1. HistOK'
    BY <1>8 DEF LogFails, TypeOK, HistOK
  <2> QED
    BY <1>8, <2>1, TypePartsNext DEF LogFails
<1>9. CASE TrackFile(t)
  <2>1. ProgOK'
    BY <1>9, TrackFileDoes DEF TrackFile, TypeOK, ProgOK, Makes
  <2> QED
    BY <1>9, <2>1, TrackFileDoes, TypePartsNext DEF TrackFile
<1>10. CASE epoll_create(t)
  <2>1. RegOK' /\ GlueOK'
    BY <1>10, EpollCreateDoes, TypePartsNext DEF epoll_create, TypeOK, GlueOK, Makes
  <2>2. ProgOK' /\ HistOK'
    BY <1>10 DEF epoll_create, TypeOK, ProgOK, HistOK, regVars
  <2> QED
    BY <1>10, <2>1, <2>2, TypePartsNext DEF epoll_create
<1>11. ASSUME NEW f \in Files, TUNSETIFF(t, f)
       PROVE  TypeOK'
  <2>1. GlueOK' /\ HistOK'
    BY <1>11 DEF TUNSETIFF, TypeOK, GlueOK, HistOK
  <2> QED
    BY <1>11, <2>1, TypePartsNext DEF TUNSETIFF
<1> QED
  BY <1>1, <1>2, <1>3, <1>4, <1>5, <1>6, <1>7, <1>8, <1>9, <1>10, <1>11 DEF OpenStep

LEMMA CloseType ==
  ASSUME TypeOK, Locals, Pointers, NEW t \in Threads, CloseStep(t)
  PROVE  TypeOK'
<1>1. ASSUME NEW f \in Files, BeginClose(t, f)
      PROVE  TypeOK'
  <2>1. tun_old' \in BOOLEAN
    BY <1>1 DEF BeginClose, TypeOK
  <2>2. GlueOK' /\ ProgOK' /\ HistOK'
    BY <1>1, <2>1 DEF BeginClose, TypeOK, GlueOK, ProgOK, HistOK
  <2> QED
    BY <1>1, <2>2, BeginCloseDoes, TypePartsNext DEF BeginClose
<1>2. ASSUME resource_free(t_obj[t])
      PROVE  FilesOK' /\ RegOK' /\ GlueOK' /\ HistOK'
  <2>1. t_obj[t] \in Objects \cup {NONE}
    BY DEF TypeOK
  <2> QED
    BY <1>2, <2>1, FreeCases DEF TypeOK, GlueOK, HistOK
<1>3. CASE CloseFree(t)
  BY <1>2, <1>3, CloseFreeDoes, TypePartsNext DEF CloseFree
<1>4. CASE CloseClear(t)
  <2>1. GlueOK'
    BY <1>4 DEF CloseClear, TypeOK, GlueOK
  <2> QED
    BY <1>4, <2>1, CloseClearDoes, TypePartsNext DEF CloseClear
<1>5. CASE CloseFd(t)
  BY <1>5, CloseFdDoes, TypePartsNext DEF CloseFd
<1>6. CASE BeginCloseEpoll(t)
  <2>1. HistOK'
    BY <1>6 DEF BeginCloseEpoll, TypeOK, HistOK
  <2> QED
    BY <1>6, <2>1, BeginCloseEpollDoes, TypePartsNext DEF BeginCloseEpoll
<1>7. CASE CloseEpoll(t)
  <2>1. ProgOK'
    BY <1>7 DEF CloseEpoll, TypeOK, ProgOK
  <2> QED
    BY <1>2, <1>7, <2>1, CallReturns, TypePartsNext DEF CloseEpoll
<1>8. ASSUME NEW o \in Objects, fclose(t, o)
      PROVE  TypeOK'
  <2>1. ProgOK'
    BY <1>8 DEF fclose, TypeOK, ProgOK
  <2> QED
    BY <1>8, <2>1, FcloseDoes, TypePartsNext DEF fclose
<1>9. CASE FcloseFree(t)
  BY <1>2, <1>9, CallReturns, TypePartsNext DEF FcloseFree
<1> QED
  BY <1>1, <1>3, <1>4, <1>5, <1>6, <1>7, <1>8, <1>9 DEF CloseStep

LEMMA TypeKept ==
  ASSUME TypeOK, Locals, Pointers, Next
  PROVE  TypeOK'
<1>1. ASSUME NEW t \in Threads, ThreadStep(t)
      PROVE  TypeOK'
  <2>1. UNCHANGED <<fileVars, regVars, thVars, glueVars, histVars>>
    BY <1>1 DEF ThreadStep, pthread_create, pthread_exit
  <2>2. ProgOK'
    BY <1>1 DEF ThreadStep, pthread_create, pthread_exit, TypeOK, ProgOK
  <2> QED
    BY <2>1, <2>2, TypePartsNext
<1>2. CASE BeginExit
  <2>1. orphaned' \in BOOLEAN
    BY <1>2 DEF BeginExit, TypeOK
  <2>2. RegOK'
    BY <1>2, <2>1 DEF BeginExit, TypeOK, RegOK
  <2> QED
    BY <1>2, <2>2, BeginExitDoes, TypePartsNext DEF BeginExit
<1>3. ASSUME NEW o \in Objects, Collect(o)
      PROVE  TypeOK'
  <2>1. GlueOK'
    BY <1>3, CollectDoes DEF Collect, TypeOK, GlueOK
  <2> QED
    BY <1>3, <2>1, CollectDoes, TypePartsNext DEF Collect
<1>4. CASE EndExit
  <2>1. RegOK' /\ ProgOK'
    BY <1>4 DEF EndExit, R!Exit, TypeOK, RegOK, ProgOK
  <2>2. tun_old' \in BOOLEAN
    BY <1>4 DEF EndExit
  <2>3. HistOK'
    BY <1>4, <2>2 DEF EndExit, TypeOK, HistOK
  <2> QED
    BY <1>4, <2>1, <2>3, EndExitDoes, TypePartsNext DEF EndExit
<1>5. CASE Restart
  <2>1. RegOK' /\ ProgOK'
    BY <1>5, DescriptorsAssumption DEF Restart, R!Start, TypeOK, RegOK, ProgOK
  <2> QED
    BY <1>5, <2>1, TypePartsNext DEF Restart
<1> QED
  BY <1>1, <1>2, <1>3, <1>4, <1>5, OpenType, CloseType DEF Next, ExitStep

-----------------------------------------------------------------------------
(* Positions *)

\* What a call does to where its thread is.
Calls(t) ==
  /\ UNCHANGED <<peers, proc, orphaned>>
  /\ \A u \in Threads : u # t => pc'[u] = pc[u]
  /\ \/ pc'[t] = pc[t]
     \/ pc'[t] # "collect" /\ (Ready(t) \/ pc[t] \notin {"idle", "collect"})
  /\ \/ proc = "running" \/ orphaned
     \/ \A o \in Objects : object'[o] = object[o]

LEMMA OpenCalls ==
  ASSUME TypeOK, Locals, NEW t \in Threads, OpenStep(t)
  PROVE  Calls(t)
<1> USE DEF progVars, Calls, Moves, Makes
<1>1. ASSUME NEW fd \in Fds, NEW c \in {"plain", "tun"}, BeginOpen(t, c, fd)
      PROVE  Calls(t)
  BY <1>1, BeginOpenDoes DEF BeginOpen, regVars
<1>2. ASSUME NEW fd \in Fds, accept(t, fd)
      PROVE  Calls(t)
  BY <1>2 DEF accept, regVars, thVars
<1>3. ASSUME NEW fd \in Fds, BeginFopen(t, fd)
      PROVE  Calls(t)
  BY <1>3, BeginFopenDoes DEF BeginFopen, regVars
<1>4. ASSUME NEW fd \in Fds, OpenLog(t, fd)
      PROVE  Calls(t)
  BY <1>4, OpenLogDoes DEF OpenLog, regVars
<1>5. CASE Track(t)
  BY <1>5, TrackDoes DEF Track
<1>6. CASE OpenFails(t)
  BY <1>6, OpenFailsDoes DEF OpenFails, thVars
<1>7. CASE FopenLog(t)
  BY <1>7, FopenLogDoes DEF FopenLog, regVars
<1>8. CASE LogFails(t)
  BY <1>8 DEF LogFails, regVars, thVars
<1>9. CASE TrackFile(t)
  BY <1>9, TrackFileDoes DEF TrackFile
<1>10. CASE epoll_create(t)
  BY <1>10, EpollCreateDoes DEF epoll_create, regVars, thVars
<1>11. ASSUME NEW f \in Files, TUNSETIFF(t, f)
       PROVE  Calls(t)
  BY <1>11 DEF TUNSETIFF, regVars, thVars
<1> QED
  BY <1>1, <1>2, <1>3, <1>4, <1>5, <1>6, <1>7, <1>8, <1>9, <1>10, <1>11 DEF OpenStep

LEMMA CloseCalls ==
  ASSUME TypeOK, Pointers, Locals, NEW t \in Threads, CloseStep(t)
  PROVE  Calls(t)
<1> USE DEF progVars, Calls, Moves
<1>1. ASSUME NEW f \in Files, BeginClose(t, f)
      PROVE  Calls(t)
  BY <1>1, BeginCloseDoes DEF BeginClose, regVars
<1>2. ASSUME resource_free(t_obj[t])
      PROVE  /\ UNCHANGED <<proc, orphaned>>
             /\ proc = "running" \/ orphaned \/ \A o \in Objects : object'[o] = object[o]
  <2>1. t_obj[t] \in Objects \cup {NONE}
    BY DEF TypeOK
  <2> QED
    BY <1>2, <2>1, FreeCases DEF KeepsResources, Frees
<1>3. CASE CloseFree(t)
  BY <1>2, <1>3, CloseFreeDoes DEF CloseFree
<1>4. CASE CloseClear(t)
  BY <1>4, CloseClearDoes DEF CloseClear, regVars
<1>5. CASE CloseFd(t)
  BY <1>5, CloseFdDoes DEF CloseFd, regVars
<1>6. CASE BeginCloseEpoll(t)
  BY <1>6, BeginCloseEpollDoes DEF BeginCloseEpoll, regVars, thVars
<1>7. CASE CloseEpoll(t)
  BY <1>2, <1>7, CallReturns DEF CloseEpoll
<1>8. ASSUME NEW o \in Objects, fclose(t, o)
      PROVE  Calls(t)
  BY <1>8, FcloseDoes DEF fclose
<1>9. CASE FcloseFree(t)
  BY <1>2, <1>9, CallReturns DEF FcloseFree
<1> QED
  BY <1>1, <1>3, <1>4, <1>5, <1>6, <1>7, <1>8, <1>9 DEF CloseStep

LEMMA PositionsKept ==
  ASSUME TypeOK, Positions, Pointers, Locals, Next
  PROVE  Positions'
<1> USE DescriptorsAssumption
<1>1. ASSUME NEW t \in Threads, Calls(t)
      PROVE  Positions'
  <2>1. \A u \in Threads : pc'[u] = "collect" => pc[u] = "collect"
    BY <1>1 DEF Calls
  <2>2. Exiting' => Exiting
    BY <2>1 DEF Exiting
  <2> QED
    BY <1>1, <2>1, <2>2 DEF Calls, Positions, Passing, Ready
<1>2. ASSUME NEW t \in Threads, ThreadStep(t)
      PROVE  Positions'
  <2>1. CASE pthread_exit(t)
    BY <2>1 DEF pthread_exit, Positions, Passing, Exiting, regVars, thVars
  <2>2. ASSUME NEW u \in Threads, pthread_create(t, u)
        PROVE  Positions'
    BY <2>2 DEF pthread_create, Positions, Passing, Exiting, Ready, regVars, thVars
  <2> QED
    BY <1>2, <2>1, <2>2 DEF ThreadStep
<1>3. CASE BeginExit
  BY <1>3, BeginExitDoes DEF BeginExit, Positions, Passing, Exiting, Moves, progVars
<1>4. ASSUME NEW o \in Objects, Collect(o)
      PROVE  Positions'
  BY <1>4, CollectDoes DEF Collect, Positions, Passing, Exiting, Frees, progVars, thVars
<1>5. CASE EndExit
  <2>1. \A t \in Threads : pc'[t] # "idle" => pc'[t] = pc[t] /\ t # Main
    BY <1>5, EndExitDoes DEF Moves
  <2> QED
    BY <1>5, <2>1 DEF EndExit, R!Exit, Positions, Passing, Exiting
<1>6. CASE Restart
  BY <1>6 DEF Restart, R!Start, Positions, Passing, Exiting, thVars
<1> QED
  BY <1>1, <1>2, <1>3, <1>4, <1>5, <1>6, OpenCalls, CloseCalls DEF Next, ExitStep

-----------------------------------------------------------------------------
(* Pointers *)

\* Resources stay what they are, but for the new one and streams the program closes.
ResourcesKept ==
  \A o \in Objects : object[o] # "none" =>
    object'[o] # "none" /\ cb'[o] = cb[o] /\ val'[o] = val[o]

\* A thread's move disturbs no pointer of another.
LEMMA PointersMove ==
  ASSUME Pointers, ResourcesKept, NEW t \in Threads, NEW label, NEW fd, NEW f, NEW o,
         Moves(t, label, fd, f, o), TypeOK, TypeOK',
         label = "close_free" /\ o # NONE => o \in Objects /\ IsFd(o, fd),
         label = "handle_free" => o \in Objects /\ IsFile(o) /\ val[o] = NONE
  PROVE  /\ \A u \in Passing({"close_free"})' : t_obj'[u] # NONE => IsFd(t_obj[u], t_fd[u])'
         /\ \A u \in Passing({"handle_free"})' :
              t_obj'[u] # NONE /\ IsFile(t_obj[u])' /\ val'[t_obj'[u]] = NONE
<1>1. \A u \in Threads : t_obj[u] \in Objects \cup {NONE} /\ t_obj'[u] \in Objects \cup {NONE}
  BY DEF TypeOK
<1>2. \A u \in Passing({"close_free"})' : t_obj'[u] # NONE => IsFd(t_obj[u], t_fd[u])'
  BY <1>1 DEF Moves, Passing, Pointers, IsFd, ResourcesKept
<1>3. \A u \in Passing({"handle_free"})' :
         t_obj'[u] # NONE /\ IsFile(t_obj[u])' /\ val'[t_obj'[u]] = NONE
  <2> SUFFICES ASSUME NEW u \in Threads, pc'[u] = "handle_free"
               PROVE  t_obj'[u] # NONE /\ IsFile(t_obj[u])' /\ val'[t_obj'[u]] = NONE
    BY DEF Passing
  <2>1. t_obj'[u] \in Objects /\ IsFile(t_obj'[u]) /\ val[t_obj'[u]] = NONE
    BY <1>1 DEF Moves, Passing, Pointers
  <2>2. object'[t_obj'[u]] # "none" /\ cb'[t_obj'[u]] = cb[t_obj'[u]]
        /\ val'[t_obj'[u]] = val[t_obj'[u]]
    BY <2>1 DEF IsFile, ResourcesKept
  <2> QED
    BY <2>1, <2>2 DEF IsFile, NONE, Objects
<1> QED
  BY <1>2, <1>3

\* What does not change the registry, the threads or what the program has.
LEMMA PointersSame ==
  ASSUME TypeOK, Pointers, UNCHANGED <<object, cb, val, per_fd, pc, t_fd, t_obj>>,
         streams' \subseteq streams
  PROVE  Pointers'
BY DEF Pointers, Passing, IsFd, IsFile

\* A new resource, in a step that leaves the threads where they are or lets one return.
LEMMA PointersAlloc ==
  ASSUME TypeOK, TypeOK', Pointers, NEW t \in Threads,
         NEW k \in {"fd", "file", "epoll"}, NEW v \in Fds \cup Files \cup {FAILED, NONE},
         Makes(k, v), k = "file" => v \in Files,
         \/ UNCHANGED per_fd
         \/ k = "fd" /\ v \in Fds /\ per_fd'[v] = nobj + 1
            /\ \A d \in Fds : d # v => per_fd'[d] = per_fd[d],
         \/ UNCHANGED streams
         \/ k = "file" /\ streams' = streams \cup {nobj + 1},
         UNCHANGED <<pc, t_fd, t_file, t_obj>> \/ Moves(t, "idle", FAILED, NONE, NONE)
  PROVE  Pointers'
<1>1. ResourcesKept
  BY DEF Makes, ResourcesKept
<1>2. \A o \in Objects : cb'[o] = "file" => val'[o] \in Files \cup {NONE}
  BY DEF Makes, Pointers
<1>3. \A o \in streams' : IsFile(o)' /\ val'[o] \in Files
  BY DEF TypeOK, Makes, Pointers, IsFile
<1>4. \A d \in Fds : per_fd'[d] # NONE => IsFd(per_fd[d], d)'
  BY DEF TypeOK, Makes, Pointers, IsFd
<1>5. /\ \A u \in Passing({"close_free"})' : t_obj'[u] # NONE => IsFd(t_obj[u], t_fd[u])'
      /\ \A u \in Passing({"handle_free"})' :
           t_obj'[u] # NONE /\ IsFile(t_obj[u])' /\ val'[t_obj'[u]] = NONE
  <2>1. CASE UNCHANGED <<pc, t_fd, t_file, t_obj>>
    <3>1. Moves(t, pc[t], t_fd[t], t_file[t], t_obj[t])
      BY <2>1 DEF Moves
    <3>2. t_obj[t] \in Objects \cup {NONE}
      BY DEF TypeOK
    <3>3. pc[t] = "close_free" /\ t_obj[t] # NONE => t_obj[t] \in Objects /\ IsFd(t_obj[t], t_fd[t])
      BY <3>2 DEF Pointers, Passing
    <3>4. pc[t] = "handle_free" =>
            t_obj[t] \in Objects /\ IsFile(t_obj[t]) /\ val[t_obj[t]] = NONE
      BY <3>2 DEF Pointers, Passing
    <3> QED
      BY <1>1, <3>1, <3>3, <3>4, PointersMove
  <2>2. CASE Moves(t, "idle", FAILED, NONE, NONE)
    BY <1>1, <2>2, PointersMove
  <2> QED
    BY <2>1, <2>2
<1> QED
  BY <1>2, <1>3, <1>4, <1>5 DEF Pointers

\* A thread's move, with registry and streams as they are.
LEMMA PointersGo ==
  ASSUME TypeOK, TypeOK', Pointers, NEW t \in Threads, NEW label, NEW fd, NEW f, NEW o,
         Moves(t, label, fd, f, o), UNCHANGED <<cb, val>>,
         \A q \in Objects : object[q] # "none" => object'[q] # "none",
         label = "close_free" /\ o # NONE => o \in Objects /\ IsFd(o, fd),
         label = "handle_free" => o \in Objects /\ IsFile(o) /\ val[o] = NONE,
         streams' \subseteq streams, \A d \in Fds : per_fd'[d] \in {per_fd[d], NONE}
  PROVE  Pointers'
<1>1. ResourcesKept
  BY DEF ResourcesKept
<1>2. /\ \A u \in Passing({"close_free"})' : t_obj'[u] # NONE => IsFd(t_obj[u], t_fd[u])'
      /\ \A u \in Passing({"handle_free"})' :
           t_obj'[u] # NONE /\ IsFile(t_obj[u])' /\ val'[t_obj'[u]] = NONE
  BY <1>1, PointersMove
<1>3. /\ \A q \in Objects : cb'[q] = "file" => val'[q] \in Files \cup {NONE}
      /\ \A q \in streams' : IsFile(q)' /\ val'[q] \in Files
  BY DEF TypeOK, Pointers, IsFile
<1>4. \A d \in Fds : per_fd'[d] # NONE => IsFd(per_fd[d], d)'
  BY DEF TypeOK, Pointers, IsFd
<1> QED
  BY <1>2, <1>3, <1>4 DEF Pointers

LEMMA OpenPointers ==
  ASSUME TypeOK, TypeOK', Pointers, Locals, NEW t \in Threads, OpenStep(t)
  PROVE  Pointers'
<1> USE DEF progVars, glueVars, regVars
<1>1. ASSUME NEW fd \in Fds, NEW c \in {"plain", "tun"}, BeginOpen(t, c, fd)
      PROVE  Pointers'
  BY <1>1, BeginOpenDoes, PointersGo DEF BeginOpen
<1>2. ASSUME NEW fd \in Fds, accept(t, fd)
      PROVE  Pointers'
  BY <1>2, PointersSame DEF accept, thVars
<1>3. ASSUME NEW fd \in Fds, BeginFopen(t, fd)
      PROVE  Pointers'
  BY <1>3, BeginFopenDoes, PointersGo DEF BeginFopen
<1>4. ASSUME NEW fd \in Fds, OpenLog(t, fd)
      PROVE  Pointers'
  BY <1>4, OpenLogDoes, PointersGo DEF OpenLog
<1>5. CASE Track(t)
  BY <1>5, TrackDoes, PointersAlloc DEF Track
<1>6. CASE OpenFails(t)
  BY <1>6, OpenFailsDoes, PointersAlloc DEF OpenFails, thVars
<1>7. CASE FopenLog(t)
  BY <1>7, FopenLogDoes, PointersGo DEF FopenLog
<1>8. CASE LogFails(t)
  BY <1>8, PointersSame DEF LogFails, thVars
<1>9. CASE TrackFile(t)
  BY <1>9, TrackFileDoes, PointersAlloc DEF TrackFile
<1>10. CASE epoll_create(t)
  <2>1. UNCHANGED <<per_fd, streams, pc, t_fd, t_file, t_obj>>
    BY <1>10 DEF epoll_create, thVars
  <2>2. CASE UNCHANGED regVars
    BY <2>1, <2>2, PointersSame
  <2>3. CASE Makes("epoll", NONE)
    BY <2>1, <2>3, PointersAlloc
  <2> QED
    BY <1>10, <2>2, <2>3, EpollCreateDoes
<1>11. ASSUME NEW f \in Files, TUNSETIFF(t, f)
       PROVE  Pointers'
  BY <1>11, PointersSame DEF TUNSETIFF, thVars
<1> QED
  BY <1>1, <1>2, <1>3, <1>4, <1>5, <1>6, <1>7, <1>8, <1>9, <1>10, <1>11 DEF OpenStep

LEMMA ClosePointers ==
  ASSUME TypeOK, TypeOK', Pointers, Locals, NEW t \in Threads, CloseStep(t)
  PROVE  Pointers'
<1> USE DEF progVars, glueVars, regVars
<1>1. ASSUME NEW f \in Files, BeginClose(t, f)
      PROVE  Pointers'
  <2>1. per_fd[fdno[f]] # NONE => IsFd(per_fd[fdno[f]], fdno[f])
    BY <1>1, BeginCloseDoes DEF Pointers
  <2> QED
    BY <1>1, <2>1, BeginCloseDoes, PointersGo DEF BeginClose
<1>2. ASSUME resource_free(t_obj[t])
      PROVE  /\ UNCHANGED <<cb, val, per_fd>>
             /\ \A q \in Objects : object[q] # "none" => object'[q] # "none"
  <2>1. t_obj[t] \in Objects \cup {NONE}
    BY DEF TypeOK
  <2> QED
    BY <1>2, <2>1, FreeCases DEF KeepsResources, Frees
<1>3. CASE CloseFree(t)
  BY <1>2, <1>3, CloseFreeDoes, PointersGo DEF CloseFree
<1>4. CASE CloseClear(t)
  <2>1. \A d \in Fds : per_fd'[d] \in {per_fd[d], NONE}
    BY <1>4, CloseClearDoes
  <2> QED
    BY <1>4, <2>1, CloseClearDoes, PointersGo DEF CloseClear
<1>5. CASE CloseFd(t)
  BY <1>5, CloseFdDoes, PointersGo DEF CloseFd
<1>6. CASE BeginCloseEpoll(t)
  BY <1>6, BeginCloseEpollDoes, PointersGo, PointersSame DEF BeginCloseEpoll, thVars
<1>7. CASE CloseEpoll(t)
  BY <1>2, <1>7, CallReturns, PointersGo DEF CloseEpoll
<1>8. ASSUME NEW o \in Objects, fclose(t, o)
      PROVE  Pointers'
  <2>1. UNCHANGED <<object, cb, per_fd>> /\ streams' = streams \ {o}
    BY <1>8 DEF fclose
  <2>2. /\ Moves(t, "handle_free", FAILED, NONE, o)
        /\ o \in streams /\ IsFile(o) /\ val[o] \in Files /\ val'[o] = NONE
        /\ \A q \in Objects : q # o => val'[q] = val[q]
    BY <1>8, FcloseDoes
  <2>3. NONE \notin Files /\ NONE \notin Objects
    BY DEF NONE, Files, Objects
  <2>4. /\ \A q \in Objects : cb'[q] = "file" => val'[q] \in Files \cup {NONE}
        /\ \A q \in streams' : IsFile(q)' /\ val'[q] \in Files
    BY <2>1, <2>2 DEF TypeOK, Pointers, IsFile
  <2>5. \A d \in Fds : per_fd'[d] # NONE => IsFd(per_fd[d], d)'
    BY <2>1, <2>2 DEF TypeOK, Pointers, IsFd, IsFile
  <2>6. \A u \in Passing({"close_free"})' : t_obj'[u] # NONE => IsFd(t_obj[u], t_fd[u])'
    BY <2>1, <2>2 DEF Moves, TypeOK, Passing, Pointers, IsFd, IsFile
  <2>7. \A u \in Passing({"handle_free"})' :
           t_obj'[u] # NONE /\ IsFile(t_obj[u])' /\ val'[t_obj'[u]] = NONE
    BY <2>1, <2>2, <2>3 DEF Moves, TypeOK, Passing, Pointers, IsFile
  <2> QED
    BY <2>4, <2>5, <2>6, <2>7 DEF Pointers
<1>9. CASE FcloseFree(t)
  BY <1>2, <1>9, CallReturns, PointersGo DEF FcloseFree
<1> QED
  BY <1>1, <1>3, <1>4, <1>5, <1>6, <1>7, <1>8, <1>9 DEF CloseStep

LEMMA PointersKept ==
  ASSUME TypeOK, TypeOK', Pointers, Locals, Next
  PROVE  Pointers'
<1> USE DescriptorsAssumption DEF progVars, glueVars, regVars
<1>1. ASSUME NEW t \in Threads, ThreadStep(t)
      PROVE  Pointers'
  BY <1>1, PointersSame DEF ThreadStep, pthread_create, pthread_exit, thVars
<1>2. CASE BeginExit
  BY <1>2, BeginExitDoes, PointersGo DEF BeginExit
<1>3. ASSUME NEW o \in Objects, Collect(o)
      PROVE  Pointers'
  <2>1. /\ UNCHANGED <<cb, val, per_fd, streams, pc, t_fd, t_obj>>
        /\ \A q \in Objects : object[q] # "none" => object'[q] # "none"
    BY <1>3, CollectDoes DEF Collect, Frees, thVars
  <2> QED
    BY <2>1 DEF Pointers, Passing, IsFd, IsFile, TypeOK
<1>4. CASE EndExit
  BY <1>4, EndExitDoes, PointersGo DEF EndExit, R!Exit
<1>5. CASE Restart
  BY <1>5, PointersSame DEF Restart, R!Start, thVars
<1> QED
  BY <1>1, <1>2, <1>3, <1>4, <1>5, OpenPointers, ClosePointers DEF Next, ExitStep

-----------------------------------------------------------------------------
(* Locals *)

\* A thread goes to a label with what it needs there.
LEMMA LocalsGo ==
  ASSUME TypeOK, TypeOK', Locals, NEW t \in Threads, NEW label, NEW fd, NEW f, NEW o,
         Moves(t, label, fd, f, o),
         \A g \in Files : fdno[g] \in Fds => fdno'[g] \in Fds,
         label = "track" => f \in Files /\ fdno'[f] \in Fds,
         label = "track_file" => f \in Files,
         label \in {"close_free", "close_clear", "close_fd", "track"} => fd \in Fds,
         \A g \in owned' : g \in owned \/ fdno'[g] \in Fds
  PROVE  Locals'
<1>1. \A u \in Passing({"track"})' : t_file'[u] \in Files /\ fdno'[t_file'[u]] \in Fds
  BY DEF Moves, Locals, Passing
<1>2. \A u \in Passing({"track_file"})' : t_file'[u] \in Files
  BY DEF Moves, Locals, Passing
<1>3. \A u \in Closers' \cup Passing({"track"})' : t_fd'[u] \in Fds
  BY DEF Moves, Locals, Passing, Closers
<1>4. \A g \in owned' : fdno'[g] \in Fds
  BY DEF Locals, TypeOK
<1> QED
  BY <1>1, <1>2, <1>3, <1>4 DEF Locals

LEMMA LocalsSame ==
  ASSUME TypeOK, TypeOK', Locals, UNCHANGED <<pc, t_fd, t_file>>,
         \A g \in Files : fdno[g] \in Fds => fdno'[g] \in Fds,
         \A g \in owned' : g \in owned \/ fdno'[g] \in Fds
  PROVE  Locals'
<1>1. \A g \in owned' : fdno'[g] \in Fds
  BY DEF Locals, TypeOK
<1> QED
  BY <1>1 DEF Locals, Passing, Closers, TypeOK

LEMMA OpensFdno ==
  ASSUME TypeOK, NEW fd \in Fds, NEW c, Opens(c, fd)
  PROVE  /\ \A g \in Files : fdno[g] \in Fds => fdno'[g] \in Fds
         /\ nfiles + 1 \in Files /\ fdno'[nfiles + 1] \in Fds
BY DEF Opens

LEMMA OpenLocals ==
  ASSUME TypeOK, TypeOK', Locals, NEW t \in Threads, OpenStep(t)
  PROVE  Locals'
<1> USE DEF progVars, fileVars
<1>1. ASSUME NEW fd \in Fds, NEW c \in {"plain", "tun"}, BeginOpen(t, c, fd)
      PROVE  Locals'
  BY <1>1, BeginOpenDoes, LocalsGo, OpensFdno DEF BeginOpen
<1>2. ASSUME NEW fd \in Fds, accept(t, fd)
      PROVE  Locals'
  <2>1. UNCHANGED <<pc, t_fd, t_file>> /\ owned' = owned \cup {nfiles + 1}
    BY <1>2 DEF accept, thVars
  <2>2. /\ \A g \in Files : fdno[g] \in Fds => fdno'[g] \in Fds
        /\ \A g \in owned' : g \in owned \/ fdno'[g] \in Fds
    BY <1>2, <2>1, AcceptDoes, OpensFdno
  <2> QED
    BY <2>1, <2>2, LocalsSame
<1>3. ASSUME NEW fd \in Fds, BeginFopen(t, fd)
      PROVE  Locals'
  BY <1>3, BeginFopenDoes, LocalsGo, OpensFdno DEF BeginFopen
<1>4. ASSUME NEW fd \in Fds, OpenLog(t, fd)
      PROVE  Locals'
  BY <1>4, OpenLogDoes, LocalsGo, OpensFdno DEF OpenLog
<1>5. CASE Track(t)
  <2>1. fdno[t_file[t]] \in Fds
    BY <1>5 DEF Track, Locals, Passing
  <2> QED
    BY <1>5, <2>1, TrackDoes, LocalsGo DEF Track
<1>6. CASE OpenFails(t)
  BY <1>6, LocalsSame DEF OpenFails, thVars
<1>7. CASE FopenLog(t)
  <2>1. log_handle \in Files \cup {NONE}
    BY DEF TypeOK
  <2> QED
    BY <1>7, <2>1, FopenLogDoes, LocalsGo DEF FopenLog
<1>8. CASE LogFails(t)
  BY <1>8, LocalsSame DEF LogFails, thVars
<1>9. CASE TrackFile(t)
  BY <1>9, TrackFileDoes, LocalsGo DEF TrackFile
<1>10. CASE epoll_create(t)
  BY <1>10, LocalsSame DEF epoll_create, thVars
<1>11. ASSUME NEW f \in Files, TUNSETIFF(t, f)
       PROVE  Locals'
  BY <1>11, LocalsSame DEF TUNSETIFF, thVars
<1> QED
  BY <1>1, <1>2, <1>3, <1>4, <1>5, <1>6, <1>7, <1>8, <1>9, <1>10, <1>11 DEF OpenStep

LEMMA CloseLocals ==
  ASSUME TypeOK, TypeOK', Pointers, Locals, NEW t \in Threads, CloseStep(t)
  PROVE  Locals'
<1> USE DEF progVars, fileVars
<1>1. ASSUME NEW f \in Files, BeginClose(t, f)
      PROVE  Locals'
  BY <1>1, BeginCloseDoes, LocalsGo DEF BeginClose
<1>2. ASSUME resource_free(t_obj[t])
      PROVE  UNCHANGED fdno
  <2>1. t_obj[t] \in Objects \cup {NONE}
    BY DEF TypeOK
  <2> QED
    BY <1>2, <2>1, FreeCases DEF KeepsResources, Frees, CallbackCloses
<1>3. CASE CloseFree(t)
  BY <1>2, <1>3, CloseFreeDoes, LocalsGo DEF CloseFree
<1>4. CASE CloseClear(t)
  BY <1>4, CloseClearDoes, LocalsGo DEF CloseClear
<1>5. CASE CloseFd(t)
  BY <1>5, CloseFdDoes, LocalsGo DEF CloseFd, Closes
<1>6. CASE BeginCloseEpoll(t)
  BY <1>6, BeginCloseEpollDoes, LocalsGo, LocalsSame DEF BeginCloseEpoll, thVars
<1>7. CASE CloseEpoll(t)
  BY <1>2, <1>7, CallReturns, LocalsGo DEF CloseEpoll
<1>8. ASSUME NEW o \in Objects, fclose(t, o)
      PROVE  Locals'
  BY <1>8, FcloseDoes, LocalsGo DEF fclose, Closes
<1>9. CASE FcloseFree(t)
  BY <1>2, <1>9, CallReturns, LocalsGo DEF FcloseFree
<1> QED
  BY <1>1, <1>3, <1>4, <1>5, <1>6, <1>7, <1>8, <1>9 DEF CloseStep

LEMMA LocalsKept ==
  ASSUME TypeOK, TypeOK', Pointers, Locals, Next
  PROVE  Locals'
<1> USE DescriptorsAssumption DEF progVars, fileVars
<1>1. ASSUME NEW t \in Threads, ThreadStep(t)
      PROVE  Locals'
  BY <1>1, LocalsSame DEF ThreadStep, pthread_create, pthread_exit, thVars
<1>2. CASE BeginExit
  BY <1>2, BeginExitDoes, LocalsGo DEF BeginExit
<1>3. ASSUME NEW o \in Objects, Collect(o)
      PROVE  Locals'
  BY <1>3, CollectDoes, LocalsSame DEF Collect, Frees, CallbackCloses, thVars
<1>4. CASE EndExit
  BY <1>4, EndExitDoes, LocalsGo DEF EndExit
<1>5. CASE Restart
  BY <1>5, LocalsSame DEF Restart, thVars
<1> QED
  BY <1>1, <1>2, <1>3, <1>4, <1>5, OpenLocals, CloseLocals DEF Next, ExitStep

-----------------------------------------------------------------------------
(* Every open file is held *)

\* Threads that are about to record a file stay where they are.
RecordersStay ==
  \A u \in Threads : pc[u] \in {"track", "track_file"} =>
    pc'[u] = pc[u] /\ t_fd'[u] = t_fd[u] /\ t_file'[u] = t_file[u]

\* The registry has only grown, and files have only been closed.
LEMMA HeldKept ==
  ASSUME TypeOK, Placed, Held, RecordersStay,
         \A d \in Fds : kernel'[d] \in {kernel[d], NONE},
         UNCHANGED <<class, fdno, nfiles, log_handle>>,
         \A o \in Objects : object[o] = "live" =>
           object'[o] = "live" /\ cb'[o] = cb[o] /\ val'[o] = val[o]
  PROVE  Placed' /\ Held'
<1>1. Placed'
  BY DEF Placed
<1>2. ASSUME NEW d \in Fds, kernel'[d] # NONE
      PROVE  /\ class'[kernel'[d]] \in {"plain", "tun"} => HeldFd(d)'
             /\ class'[kernel'[d]] = "stream" => HeldStream(kernel[d])'
  <2>1. kernel'[d] = kernel[d] /\ kernel[d] # NONE
    BY <1>2
  <2>2. HeldFd(d) => HeldFd(d)'
    BY DEF HeldFd, Passing, RecordersStay
  <2>3. HeldStream(kernel[d]) => HeldStream(kernel[d])'
    BY <2>1 DEF HeldStream, Passing, RecordersStay
  <2> QED
    BY <2>1, <2>2, <2>3 DEF Held
<1>3. Held'
  BY <1>2 DEF Held, HeldStream
<1> QED
  BY <1>1, <1>3

LEMMA HeldSame ==
  ASSUME TypeOK, Placed, Held, UNCHANGED <<kernel, class, fdno, nfiles, log_handle>>,
         UNCHANGED <<object, cb, val>>, UNCHANGED <<pc, t_fd, t_file>>
  PROVE  Placed' /\ Held'
BY HeldKept DEF RecordersStay

\* Releasing a resource closes what only it would have closed.
LEMMA ReleaseKeeps ==
  ASSUME TypeOK, Placed, Held, NEW o \in Objects, Frees(o), RecordersStay
  PROVE  Placed' /\ Held'
<1>1. /\ UNCHANGED <<class, fdno, nfiles, cb, val, log_handle>>
      /\ \A d \in Fds : kernel'[d] \in {kernel[d], NONE}
      /\ \A q \in Objects : q # o => object'[q] = object[q]
  BY DEF Frees, CallbackCloses
<1>2. Placed'
  BY <1>1 DEF Placed
<1>3. ASSUME NEW d \in Fds, kernel'[d] # NONE, class[kernel[d]] \in {"plain", "tun"}
      PROVE  HeldFd(d)'
  <2>1. kernel'[d] = kernel[d] /\ kernel[d] # NONE
    BY <1>1, <1>3
  <2>2. HeldFd(d)
    BY <1>3, <2>1 DEF Held
  <2>3. cb[o] = "fd" => val[o] # d
    BY <1>3 DEF Frees, CallbackCloses
  <2> QED
    BY <1>1, <2>2, <2>3 DEF HeldFd, Passing, RecordersStay
<1>4. ASSUME NEW d \in Fds, kernel'[d] # NONE, class[kernel[d]] = "stream"
      PROVE  HeldStream(kernel[d])'
  <2>1. kernel'[d] = kernel[d] /\ kernel[d] # NONE
    BY <1>1, <1>4
  <2>2. HeldStream(kernel[d])
    BY <1>4, <2>1 DEF Held
  <2>3. kernel[d] # log_handle /\ fdno[kernel[d]] = d
    BY <1>4, <2>1 DEF Placed
  <2>4. cb[o] = "file" => val[o] # kernel[d]
    BY <1>4, <2>1, <2>3 DEF Frees, CallbackCloses, Closes
  <2> QED
    BY <1>1, <2>1, <2>2, <2>4 DEF HeldStream, Passing, RecordersStay
<1>5. Held'
  BY <1>1, <1>3, <1>4 DEF Held, HeldStream
<1> QED
  BY <1>2, <1>5

\* Opening a file, which the thread holds, or which needs no resource.
LEMMA OpenKeeps ==
  ASSUME TypeOK, Placed, Held, NEW t \in Threads, NEW fd \in Fds,
         NEW c \in {"plain", "tun", "conn", "stream", "log"}, Opens(c, fd),
         UNCHANGED <<object, cb, val>>, pc[t] \notin {"track", "track_file"},
         \A u \in Threads : u # t =>
           pc'[u] = pc[u] /\ t_fd'[u] = t_fd[u] /\ t_file'[u] = t_file[u],
         c \in {"plain", "tun"} => pc'[t] = "track" /\ t_fd'[t] = fd,
         c = "stream" => pc'[t] = "track_file" /\ t_file'[t] = nfiles + 1,
         \/ log_handle' = log_handle
         \/ c = "log" /\ log_handle' = nfiles + 1
  PROVE  Placed' /\ Held'
<1>1. /\ nfiles + 1 \in Files /\ nfiles \in Nat /\ nfiles' = nfiles + 1
      /\ kernel'[fd] = nfiles + 1 /\ class'[nfiles + 1] = c /\ fdno'[nfiles + 1] = fd
      /\ \A d \in Fds : d # fd => kernel'[d] = kernel[d]
      /\ \A f \in Files : f # nfiles + 1 => class'[f] = class[f] /\ fdno'[f] = fdno[f]
  BY DEF Opens
<1>2. RecordersStay
  BY DEF RecordersStay
<1>3. ASSUME NEW d \in Fds, d # fd, kernel[d] # NONE
      PROVE  /\ kernel[d] \in Files /\ kernel[d] <= nfiles + 1
             /\ class'[kernel[d]] = class[kernel[d]] /\ fdno'[kernel[d]] = fdno[kernel[d]]
  <2>1. kernel[d] \in Files /\ kernel[d] <= nfiles
    BY <1>3 DEF TypeOK, Placed
  <2>2. kernel[d] # nfiles + 1 /\ kernel[d] <= nfiles + 1
    BY <1>1, <2>1 DEF Files
  <2> QED
    BY <1>1, <2>1, <2>2
<1>4. ASSUME NEW d \in Fds, kernel'[d] # NONE
      PROVE  kernel'[d] <= nfiles' /\ fdno'[kernel'[d]] = d /\ class'[kernel'[d]] # "none"
  <2>1. CASE d = fd
    BY <1>1, <2>1
  <2>2. CASE d # fd
    BY <1>1, <1>3, <1>4, <2>2 DEF Placed
  <2> QED
    BY <2>1, <2>2
<1>5. log_handle' # NONE => log_handle' <= nfiles' /\ class'[log_handle'] = "log"
  <2>1. CASE c = "log" /\ log_handle' = nfiles + 1
    BY <1>1, <2>1
  <2>2. CASE log_handle' = log_handle /\ log_handle # NONE
    <3>1. log_handle \in Files /\ log_handle <= nfiles /\ class[log_handle] = "log"
      BY <2>2 DEF TypeOK, Placed
    <3>2. log_handle # nfiles + 1 /\ log_handle <= nfiles + 1
      BY <1>1, <3>1 DEF Files
    <3> QED
      BY <1>1, <2>2, <3>1, <3>2
  <2> QED
    BY <2>1, <2>2
<1>6. ASSUME NEW d \in Fds, kernel'[d] # NONE
      PROVE  /\ class'[kernel'[d]] \in {"plain", "tun"} => HeldFd(d)'
             /\ class'[kernel'[d]] = "stream" => HeldStream(kernel[d])' \/ d = fd
  <2>1. CASE d = fd
    BY <1>1, <2>1 DEF HeldFd, Passing
  <2>2. CASE d # fd
    <3>1. /\ kernel'[d] = kernel[d] /\ kernel[d] # NONE
          /\ class'[kernel[d]] = class[kernel[d]]
      BY <1>1, <1>3, <1>6, <2>2
    <3>2. HeldFd(d) => HeldFd(d)'
      BY <1>2 DEF HeldFd, Passing, RecordersStay
    <3>3. HeldStream(kernel[d]) => HeldStream(kernel[d])'
      BY <1>2, <3>1 DEF HeldStream, Passing, RecordersStay
    <3> QED
      BY <3>1, <3>2, <3>3 DEF Held
  <2> QED
    BY <2>1, <2>2
<1>7. Held'
  <2>1. ASSUME NEW d \in Fds, kernel'[d] # NONE, class'[kernel'[d]] = "stream"
        PROVE  \/ \E u \in Threads : pc'[u] = "track_file" /\ t_file'[u] = kernel'[d]
               \/ \E o \in Objects : /\ object'[o] = "live" /\ cb'[o] = "file"
                                     /\ val'[o] = kernel'[d]
    <3>1. CASE d = fd
      BY <1>1, <2>1, <3>1
    <3>2. CASE d # fd
      BY <1>1, <1>6, <2>1, <3>2 DEF HeldStream, Passing
    <3> QED
      BY <3>1, <3>2
  <2> QED
    BY <1>6, <2>1 DEF Held, HeldStream, Passing
<1> QED
  BY <1>4, <1>5, <1>7 DEF Placed

\* The resource that takes the place of the thread.
LEMMA TrackKeeps ==
  ASSUME TypeOK, Locals, Placed, Held, NEW t \in Threads, Track(t) \/ TrackFile(t)
  PROVE  Placed' /\ Held'
<1>1. UNCHANGED <<kernel, class, fdno, nfiles, log_handle>>
  BY DEF Track, TrackFile, fileVars, glueVars
<1>2. /\ Moves(t, "idle", FAILED, NONE, NONE)
      /\ \/ pc[t] = "track" /\ Makes("fd", t_fd[t])
         \/ pc[t] = "track_file" /\ Makes("file", t_file[t])
  BY TrackDoes, TrackFileDoes
<1>3. \A d \in Fds : HeldFd(d) => HeldFd(d)'
  BY <1>2 DEF HeldFd, Passing, Moves, Makes
<1>4. \A f \in Files : HeldStream(f) => HeldStream(f)'
  BY <1>2 DEF HeldStream, Passing, Moves, Makes
<1>5. \A d \in Fds : kernel[d] # NONE => kernel[d] \in Files
  BY DEF TypeOK
<1>6. Held'
  BY <1>1, <1>3, <1>4, <1>5 DEF Held, HeldStream
<1>7. Placed'
  BY <1>1 DEF Placed
<1> QED
  BY <1>6, <1>7

LEMMA OpenHeld ==
  ASSUME TypeOK, Locals, Placed, Held, NEW t \in Threads, OpenStep(t)
  PROVE  Placed' /\ Held'
<1> USE DEF regVars, glueVars
<1>1. ASSUME NEW fd \in Fds, NEW c \in {"plain", "tun"}, BeginOpen(t, c, fd)
      PROVE  Placed' /\ Held'
  BY <1>1, BeginOpenDoes, OpenKeeps DEF BeginOpen, Moves, Ready
<1>2. ASSUME NEW fd \in Fds, accept(t, fd)
      PROVE  Placed' /\ Held'
  BY <1>2, AcceptDoes, OpenKeeps DEF accept, Ready, thVars
<1>3. ASSUME NEW fd \in Fds, BeginFopen(t, fd)
      PROVE  Placed' /\ Held'
  BY <1>3, BeginFopenDoes, OpenKeeps DEF BeginFopen, Moves, Ready
<1>4. ASSUME NEW fd \in Fds, OpenLog(t, fd)
      PROVE  Placed' /\ Held'
  BY <1>4, OpenLogDoes, OpenKeeps DEF OpenLog, Moves
<1>5. CASE Track(t) \/ TrackFile(t)
  BY <1>5, TrackKeeps
<1>6. CASE OpenFails(t)
  BY <1>6, OpenFailsDoes, HeldKept DEF OpenFails, Makes, RecordersStay, thVars, fileVars
<1>7. CASE FopenLog(t)
  <2>1. RecordersStay
    BY <1>7, FopenLogDoes DEF FopenLog, Ready, Moves, RecordersStay
  <2> QED
    BY <1>7, <2>1, HeldKept DEF FopenLog, fileVars
<1>8. CASE LogFails(t)
  BY <1>8, HeldSame DEF LogFails, thVars, fileVars
<1>9. CASE epoll_create(t)
  <2>1. /\ RecordersStay /\ UNCHANGED <<kernel, class, fdno, nfiles, log_handle>>
        /\ UNCHANGED <<pc, t_fd, t_file>>
    BY <1>9 DEF epoll_create, RecordersStay, thVars, fileVars
  <2>2. CASE UNCHANGED regVars
    BY <2>1, <2>2, HeldSame
  <2>3. CASE Makes("epoll", NONE)
    BY <2>1, <2>3, HeldKept DEF Makes
  <2> QED
    BY <1>9, <2>2, <2>3, EpollCreateDoes
<1>10. ASSUME NEW f \in Files, TUNSETIFF(t, f)
       PROVE  Placed' /\ Held'
  BY <1>10, HeldSame DEF TUNSETIFF, thVars, fileVars
<1> QED
  BY <1>1, <1>2, <1>3, <1>4, <1>5, <1>6, <1>7, <1>8, <1>9, <1>10 DEF OpenStep

LEMMA FcloseKeeps ==
  ASSUME TypeOK, Pointers, Placed, Held, NEW t \in Threads, NEW o \in Objects, fclose(t, o)
  PROVE  Placed' /\ Held'
<1>1. /\ UNCHANGED <<class, fdno, nfiles, log_handle, object, cb>>
      /\ \A d \in Fds : kernel'[d] \in {kernel[d], NONE}
  BY FcloseDoes DEF fclose, Closes, fileVars, glueVars
<1>2. /\ IsFile(o) /\ \A q \in Objects : q # o => val'[q] = val[q]
      /\ val[o] # log_handle => Closes(fdno[val[o]])
  BY FcloseDoes
<1>3. RecordersStay
  BY FcloseDoes DEF RecordersStay, Moves, fclose, Ready
<1>4. Placed'
  BY <1>1 DEF Placed
<1>5. ASSUME NEW d \in Fds, kernel'[d] # NONE
      PROVE  /\ class[kernel[d]] \in {"plain", "tun"} => HeldFd(d)'
             /\ class[kernel[d]] = "stream" => HeldStream(kernel[d])'
  <2>1. kernel'[d] = kernel[d] /\ kernel[d] # NONE /\ fdno[kernel[d]] = d
    BY <1>1, <1>5 DEF Placed
  <2>2. class[kernel[d]] = "stream" => val[o] # kernel[d]
    BY <1>2, <1>5, <2>1 DEF Placed, Closes
  <2>3. class[kernel[d]] = "stream" => HeldStream(kernel[d])'
    BY <1>1, <1>2, <1>3, <2>1, <2>2 DEF Held, HeldStream, Passing, RecordersStay
  <2>4. class[kernel[d]] \in {"plain", "tun"} => HeldFd(d)'
    BY <1>1, <1>2, <1>3, <2>1 DEF Held, HeldFd, IsFile, Passing, RecordersStay
  <2> QED
    BY <2>3, <2>4
<1>6. Held'
  BY <1>1, <1>5 DEF Held, HeldStream
<1> QED
  BY <1>4, <1>6

LEMMA CloseHeld ==
  ASSUME TypeOK, Pointers, Locals, Placed, Held, NEW t \in Threads, CloseStep(t)
  PROVE  Placed' /\ Held'
<1> USE DEF regVars, glueVars, fileVars, RecordersStay, Moves
<1>1. ASSUME NEW f \in Files, BeginClose(t, f)
      PROVE  Placed' /\ Held'
  BY <1>1, BeginCloseDoes, HeldKept DEF BeginClose, Ready
<1>2. ASSUME resource_free(t_obj[t]), RecordersStay
      PROVE  Placed' /\ Held'
  <2>1. t_obj[t] \in Objects \cup {NONE} /\ log_handle' = log_handle
    BY <1>2 DEF TypeOK, resource_free
  <2>2. CASE KeepsResources
    BY <1>2, <2>1, <2>2, HeldKept DEF KeepsResources
  <2>3. ASSUME NEW q \in Objects, Frees(q)
        PROVE  Placed' /\ Held'
    BY <1>2, <2>3, ReleaseKeeps
  <2> QED
    BY <1>2, <2>1, <2>2, <2>3, FreeCases
<1>3. CASE CloseFree(t)
  BY <1>2, <1>3, CloseFreeDoes DEF CloseFree
<1>4. CASE CloseClear(t)
  BY <1>4, CloseClearDoes, HeldKept DEF CloseClear
<1>5. CASE CloseFd(t)
  BY <1>5, CloseFdDoes, HeldKept DEF CloseFd, Closes
<1>6. CASE BeginCloseEpoll(t)
  BY <1>6, BeginCloseEpollDoes, HeldKept DEF BeginCloseEpoll, Ready, thVars
<1>7. CASE CloseEpoll(t)
  BY <1>2, <1>7, CallReturns DEF CloseEpoll
<1>8. ASSUME NEW o \in Objects, fclose(t, o)
      PROVE  Placed' /\ Held'
  BY <1>8, FcloseKeeps
<1>9. CASE FcloseFree(t)
  BY <1>2, <1>9, CallReturns DEF FcloseFree
<1> QED
  BY <1>1, <1>3, <1>4, <1>5, <1>6, <1>7, <1>8, <1>9 DEF CloseStep

LEMMA HeldAlways ==
  ASSUME TypeOK, Positions, Pointers, Locals, Placed, Held, Next
  PROVE  Placed' /\ Held'
<1> USE DEF regVars, glueVars, fileVars, RecordersStay, Moves
<1>1. ASSUME NEW t \in Threads, ThreadStep(t)
      PROVE  Placed' /\ Held'
  BY <1>1, HeldSame DEF ThreadStep, pthread_create, pthread_exit, thVars
<1>2. CASE BeginExit
  BY <1>2, BeginExitDoes, HeldKept DEF BeginExit
<1>3. ASSUME NEW o \in Objects, Collect(o)
      PROVE  Placed' /\ Held'
  BY <1>3, CollectDoes, ReleaseKeeps DEF Collect, thVars
<1>4. CASE EndExit
  BY <1>4, EndExitDoes, HeldKept DEF EndExit, R!Exit, Exiting
<1>5. CASE Restart
  BY <1>5, HeldSame DEF Restart, R!Start, thVars
<1> QED
  BY <1>1, <1>2, <1>3, <1>4, <1>5, OpenHeld, CloseHeld DEF Next, ExitStep

-----------------------------------------------------------------------------
(* The invariant *)

LEMMA InvInit == Init => Inv
<1> SUFFICES ASSUME Init  PROVE Inv
  OBVIOUS
<1>1. TypeOK
  <2>1. orphaned \in BOOLEAN /\ tun_old \in BOOLEAN
    BY DEF Init, R!Init
  <2>2. FilesOK /\ RegOK
    BY <2>1, DescriptorsAssumption DEF Init, R!Init, FilesOK, RegOK, Files, Objects, NONE, FAILED
  <2>3. ThreadsOK /\ GlueOK
    BY DescriptorsAssumption DEF Init, ThreadsOK, GlueOK, NONE, FAILED
  <2>4. ProgOK /\ HistOK
    BY <2>1, DescriptorsAssumption DEF Init, ProgOK, HistOK
  <2> QED
    BY <2>2, <2>3, <2>4 DEF TypeOK, FilesOK, RegOK, ThreadsOK, GlueOK, ProgOK, HistOK
<1>2. Positions /\ Pointers /\ Locals /\ Placed /\ Held
  BY DescriptorsAssumption DEF Init, R!Init, Positions, Pointers, Locals, Placed, Held, Passing,
     Closers, Exiting, NONE
<1> QED
  BY <1>1, <1>2 DEF Inv

LEMMA InvNext == Inv /\ Next => Inv'
<1> SUFFICES ASSUME Inv, Next  PROVE Inv'
  OBVIOUS
<1>1. TypeOK /\ Positions /\ Pointers /\ Locals /\ Placed /\ Held
  BY DEF Inv
<1>2. TypeOK'
  BY <1>1, TypeKept
<1>3. Positions' /\ Pointers' /\ Locals' /\ Placed' /\ Held'
  BY <1>1, <1>2, PositionsKept, PointersKept, LocalsKept, HeldAlways
<1> QED
  BY <1>2, <1>3 DEF Inv

LEMMA InvStutter == Inv /\ UNCHANGED vars => Inv'
BY DEF Inv, TypeOK, Positions, Pointers, Locals, Placed, Held, HeldFd, HeldStream, IsFd, IsFile,
   Passing, Closers, Exiting, vars, fileVars, regVars, glueVars, thVars, progVars, histVars

LEMMA InvAlways == Spec => []Inv
BY InvInit, InvNext, InvStutter, PTL DEF Spec

\* The state of the descriptor emulation stays well typed, whatever has gone wrong.
THEOREM TypeCorrect == Spec => []TypeOK
<1>1. Inv => TypeOK
  BY DEF Inv
<1> QED
  BY <1>1, InvAlways, PTL

\* glue.c: once an exit that left no thread behind is over, only connections, pipes and the
\* log are open, for any number of threads, files and runs and whatever has gone wrong
\* before.
THEOREM ExitLeaksNothingTracked == Spec => []NoLeak
<1>1. Inv => NoLeak
  <2> SUFFICES ASSUME Inv, proc = "exited", ~orphaned,
                      NEW d \in Fds, kernel[d] # NONE
               PROVE  class[kernel[d]] \in {"conn", "log"}
    BY DEF NoLeak
  <2>1. TypeOK /\ Positions /\ Placed /\ Held
    BY DEF Inv
  <2>2. \A t \in Threads : pc[t] = "idle"
    BY <2>1 DEF Positions
  <2>3. \A o \in Objects : object[o] # "live"
    BY <2>1 DEF Positions
  <2>4. ~HeldFd(d) /\ ~HeldStream(kernel[d])
    BY <2>2, <2>3 DEF HeldFd, HeldStream, Passing
  <2>5. class[kernel[d]] \in {"none", "plain", "tun", "conn", "stream", "log"}
        /\ class[kernel[d]] # "none"
    BY <2>1 DEF TypeOK, Placed
  <2> QED
    BY <2>1, <2>4, <2>5 DEF Held
<1> QED
  BY <1>1, InvAlways, PTL

-----------------------------------------------------------------------------
(* The epoll descriptor *)

\* History is never forgotten.
LEMMA HistoryGrows ==
  ASSUME TypeOK, Next
  PROVE  mishaps \subseteq mishaps' /\ (orphaned => orphaned')
<1>1. ASSUME NEW t \in Threads, OpenStep(t)
      PROVE  mishaps \subseteq mishaps' /\ UNCHANGED orphaned
  BY <1>1 DEF OpenStep, BeginOpen, accept, BeginFopen, OpenLog, Track, OpenFails, FopenLog,
     LogFails, TrackFile, epoll_create, TUNSETIFF, Alloc, R!Create, regVars, histVars
<1>2. ASSUME NEW t \in Threads, resource_free(t_obj[t])
      PROVE  mishaps \subseteq mishaps' /\ UNCHANGED orphaned
  <2>1. t_obj[t] \in Objects \cup {NONE}
    BY DEF TypeOK
  <2> QED
    BY <1>2, <2>1, FreeCases
<1>3. ASSUME NEW t \in Threads, CloseStep(t)
      PROVE  mishaps \subseteq mishaps' /\ UNCHANGED orphaned
  BY <1>2, <1>3 DEF CloseStep, BeginClose, CloseFree, CloseClear, CloseFd, BeginCloseEpoll,
     CloseEpoll, fclose, FcloseFree, regVars, histVars
<1>4. ASSUME NEW t \in Threads, ThreadStep(t)
      PROVE  mishaps \subseteq mishaps' /\ UNCHANGED orphaned
  BY <1>4 DEF ThreadStep, pthread_create, pthread_exit, regVars, histVars
<1>5. CASE ExitStep
  <2>1. UNCHANGED mishaps
    BY <1>5 DEF ExitStep, BeginExit, Collect, EndExit, Restart, histVars
  <2>2. CASE BeginExit
    BY <2>1, <2>2 DEF BeginExit
  <2>3. CASE ~BeginExit
    BY <1>5, <2>1, <2>3 DEF ExitStep, Collect, EndExit, Restart, R!Release, R!Exit, R!Start
  <2> QED
    BY <2>2, <2>3
<1> QED
  BY <1>1, <1>3, <1>4, <1>5 DEF Next

\* While the program has no orphans, only Main is in the glue during its exit.
LEMMA ExitAlone ==
  ASSUME Positions, ~orphaned, Exiting, NEW t \in Threads
  PROVE  t # Main => pc[t] = "idle"
BY DEF Positions

\* A step that leaves epoll resources, epolls and the threads that close it alone.
LEMMA EpollKept ==
  ASSUME TypeOK, TypeOK', EpollLive, EpollHeld, UNCHANGED <<epoll_rs, epolls>>,
         \A o \in Objects :
           object'[o] = "live" /\ cb'[o] = "epoll" <=> object[o] = "live" /\ cb[o] = "epoll",
         \A u \in Threads : pc'[u] = "epoll_free" => pc[u] = "epoll_free" /\ t_obj'[u] = t_obj[u],
         Exiting => Exiting'
  PROVE  EpollLive' /\ EpollHeld'
<1>1. epoll_rs \in Objects \cup {NONE}
  BY DEF TypeOK
<1>2. EpollLive'
  BY <1>1 DEF EpollLive
<1>3. EpollHeld'
  BY DEF EpollHeld, Passing
<1> QED
  BY <1>2, <1>3

LEMMA OpenEpoll ==
  ASSUME TypeOK, TypeOK', Pointers, Locals, EpollLive, EpollHeld,
         NEW t \in Threads, OpenStep(t), "index" \notin mishaps', fault' # "epoll"
  PROVE  EpollLive' /\ EpollHeld'
<1> USE DEF regVars, glueVars, progVars
<1>0. ASSUME NEW label, NEW fd, NEW f, NEW o, Moves(t, label, fd, f, o),
             label # "epoll_free", pc[t] # "collect"
      PROVE  /\ Exiting => Exiting'
             /\ \A u \in Threads : pc'[u] = "epoll_free" =>
                  pc[u] = "epoll_free" /\ t_obj'[u] = t_obj[u]
  BY <1>0, DescriptorsAssumption DEF Moves, Exiting
<1>1. ASSUME NEW fd \in Fds, NEW c \in {"plain", "tun"}, BeginOpen(t, c, fd)
      PROVE  EpollLive' /\ EpollHeld'
  BY <1>0, <1>1, BeginOpenDoes, EpollKept DEF BeginOpen, Ready
<1>2. ASSUME NEW fd \in Fds, accept(t, fd)
      PROVE  EpollLive' /\ EpollHeld'
  BY <1>2, EpollKept DEF accept, thVars, Exiting
<1>3. ASSUME NEW fd \in Fds, BeginFopen(t, fd)
      PROVE  EpollLive' /\ EpollHeld'
  BY <1>0, <1>3, BeginFopenDoes, EpollKept DEF BeginFopen, Ready
<1>4. ASSUME NEW fd \in Fds, OpenLog(t, fd)
      PROVE  EpollLive' /\ EpollHeld'
  BY <1>0, <1>4, OpenLogDoes, EpollKept DEF OpenLog
<1>5. CASE Track(t)
  BY <1>0, <1>5, TrackDoes, EpollKept DEF Track, Makes
<1>6. CASE OpenFails(t)
  BY <1>6, OpenFailsDoes, EpollKept DEF OpenFails, Makes, thVars, Exiting
<1>7. CASE FopenLog(t)
  BY <1>0, <1>7, FopenLogDoes, EpollKept DEF FopenLog, Ready
<1>8. CASE LogFails(t)
  BY <1>8, EpollKept DEF LogFails, thVars, Exiting
<1>9. CASE TrackFile(t)
  BY <1>0, <1>9, TrackFileDoes, EpollKept DEF TrackFile, Makes
<1>10. CASE epoll_create(t) /\ epoll_rs = NONE
  <2>1. /\ Makes("epoll", NONE) /\ epoll_rs' = nobj + 1 /\ epolls' = 1 /\ epolls = 0
        /\ UNCHANGED <<pc, t_obj>>
    BY <1>10, EpollCreateDoes DEF epoll_create, thVars
  <2>2. EpollLive'
    <3>1. \A o \in Objects : ~(object[o] = "live" /\ cb[o] = "epoll")
      BY <1>10 DEF EpollLive, NONE, Objects
    <3> QED
      BY <2>1, <3>1 DEF EpollLive, Makes
  <2>3. nobj + 1 # NONE
    BY <2>1 DEF Makes, Objects, NONE
  <2>4. EpollHeld'
    BY <1>10, <2>1, <2>3 DEF EpollHeld, Passing, Makes
  <2> QED
    BY <2>2, <2>4
<1>11. CASE epoll_create(t) /\ epoll_rs # NONE
  BY <1>11 DEF epoll_create
<1>12. ASSUME NEW f \in Files, TUNSETIFF(t, f)
       PROVE  EpollLive' /\ EpollHeld'
  BY <1>12, EpollKept DEF TUNSETIFF, thVars, Exiting
<1> QED
  BY <1>1, <1>2, <1>3, <1>4, <1>5, <1>6, <1>7, <1>8, <1>9, <1>10, <1>11, <1>12 DEF OpenStep

LEMMA CloseEpolls ==
  ASSUME TypeOK, TypeOK', Pointers, Locals, EpollLive, EpollHeld,
         NEW t \in Threads, CloseStep(t), "stale" \notin mishaps'
  PROVE  EpollLive' /\ EpollHeld'
<1> USE DEF regVars, glueVars, progVars
<1>0. ASSUME NEW label, NEW fd, NEW f, NEW o, Moves(t, label, fd, f, o),
             label # "epoll_free", pc[t] # "collect"
      PROVE  /\ Exiting => Exiting'
             /\ \A u \in Threads : pc'[u] = "epoll_free" =>
                  pc[u] = "epoll_free" /\ t_obj'[u] = t_obj[u]
  BY <1>0, DescriptorsAssumption DEF Moves, Exiting
<1>1. ASSUME NEW f \in Files, BeginClose(t, f)
      PROVE  EpollLive' /\ EpollHeld'
  BY <1>0, <1>1, BeginCloseDoes, EpollKept DEF BeginClose, Ready
<1>2. ASSUME resource_free(t_obj[t]), t_obj[t] # NONE => cb[t_obj[t]] # "epoll"
      PROVE  /\ UNCHANGED epoll_rs
             /\ \A o \in Objects : object'[o] = "live" /\ cb'[o] = "epoll"
                                   <=> object[o] = "live" /\ cb[o] = "epoll"
  <2>1. t_obj[t] \in Objects \cup {NONE}
    BY DEF TypeOK
  <2>2. CASE KeepsResources
    BY <2>2 DEF KeepsResources
  <2>3. CASE t_obj[t] \in Objects /\ Frees(t_obj[t])
    BY <1>2, <2>3 DEF Frees, CallbackCloses, NONE, Objects
  <2> QED
    BY <1>2, <2>1, <2>2, <2>3, FreeCases
<1>3. CASE CloseFree(t)
  <2>1. t_obj[t] # NONE => cb[t_obj[t]] # "epoll"
    BY <1>3 DEF CloseFree, Pointers, Passing, IsFd
  <2> QED
    BY <1>0, <1>2, <1>3, <2>1, CloseFreeDoes, EpollKept DEF CloseFree
<1>4. CASE CloseClear(t)
  BY <1>0, <1>4, CloseClearDoes, EpollKept DEF CloseClear
<1>5. CASE CloseFd(t)
  BY <1>0, <1>5, CloseFdDoes, EpollKept DEF CloseFd
<1>6. CASE BeginCloseEpoll(t) /\ epoll_rs # NONE
  <2>1. /\ Moves(t, "epoll_free", FAILED, NONE, epoll_rs) /\ pc[t] # "collect"
        /\ \A u \in Threads : pc[u] # "epoll_free"
        /\ UNCHANGED <<epoll_rs, epolls, object, cb>>
    BY <1>6, BeginCloseEpollDoes DEF BeginCloseEpoll, Ready
  <2>2. EpollLive'
    BY <2>1 DEF EpollLive
  <2>3. EpollHeld'
    BY <1>6, <2>1, DescriptorsAssumption DEF EpollHeld, Passing, Moves, Exiting
  <2> QED
    BY <2>2, <2>3
<1>7. CASE BeginCloseEpoll(t) /\ epoll_rs = NONE
  BY <1>7, EpollKept DEF BeginCloseEpoll, thVars, Exiting
<1>8. CASE CloseEpoll(t)
  <2>1. t_obj[t] = epoll_rs /\ epoll_rs # NONE /\ object[epoll_rs] = "live"
        /\ cb[epoll_rs] = "epoll" /\ epoll_rs \in Objects /\ pc[t] = "epoll_free"
    BY <1>8 DEF CloseEpoll, EpollHeld, EpollLive, Passing, TypeOK
  <2>2. Frees(epoll_rs)
    BY <1>8, <2>1, FreeCases DEF CloseEpoll
  <2>3. epoll_rs' = NONE /\ epolls' = 0 /\ Moves(t, "idle", FAILED, NONE, NONE)
    BY <1>8, <2>1, <2>2, CallReturns DEF CloseEpoll, Frees, CallbackCloses
  <2>4. EpollLive'
    BY <2>1, <2>2, <2>3 DEF EpollLive, Frees
  <2>5. \A u \in Threads : pc'[u] # "epoll_free"
    BY <2>1, <2>3 DEF EpollHeld, Passing, Moves
  <2>6. EpollHeld'
    BY <2>3, <2>5 DEF EpollHeld, Passing
  <2> QED
    BY <2>4, <2>6
<1>9. ASSUME NEW o \in Objects, fclose(t, o)
      PROVE  EpollLive' /\ EpollHeld'
  BY <1>0, <1>9, FcloseDoes, EpollKept DEF fclose, Ready
<1>10. CASE FcloseFree(t)
  <2>1. t_obj[t] # NONE => cb[t_obj[t]] # "epoll"
    BY <1>10 DEF FcloseFree, Pointers, Passing, IsFile
  <2> QED
    BY <1>0, <1>2, <1>10, <2>1, CallReturns, EpollKept DEF FcloseFree
<1> QED
  BY <1>1, <1>3, <1>4, <1>5, <1>6, <1>7, <1>8, <1>9, <1>10 DEF CloseStep

LEMMA ExitEpoll ==
  ASSUME TypeOK, TypeOK', Positions, EpollLive, EpollHeld, ~orphaned', ExitStep
  PROVE  EpollLive' /\ EpollHeld'
<1> USE DescriptorsAssumption DEF regVars, glueVars, progVars
<1>1. CASE BeginExit
  <2>1. Exiting' /\ \A u \in Threads : pc'[u] = "epoll_free" =>
                      pc[u] = "epoll_free" /\ t_obj'[u] = t_obj[u]
    BY <1>1, BeginExitDoes DEF Moves, Exiting
  <2> QED
    BY <1>1, <2>1, EpollKept DEF BeginExit
<1>2. ASSUME NEW o \in Objects, Collect(o)
      PROVE  EpollLive' /\ EpollHeld'
  <2>1. /\ Frees(o) /\ Exiting /\ Exiting' /\ UNCHANGED <<epolls, pc>> /\ ~orphaned
    BY <1>2, CollectDoes DEF Collect, Exiting, thVars, Frees
  <2>2. \A u \in Threads : pc'[u] # "epoll_free"
    BY <2>1, ExitAlone DEF Exiting
  <2>3. EpollLive'
    BY <2>1 DEF EpollLive, Frees, CallbackCloses, TypeOK
  <2> QED
    BY <2>1, <2>2, <2>3 DEF EpollHeld, Passing
<1>3. CASE EndExit
  <2>1. /\ Exiting /\ ~orphaned /\ UNCHANGED <<epoll_rs, object, cb>>
        /\ \A o \in Objects : object[o] # "live"
    BY <1>3 DEF EndExit, R!Exit
  <2>2. peers = {}
    BY <2>1 DEF Positions
  <2>3. epolls' = 0 /\ \A u \in Threads : pc'[u] # "epoll_free"
    BY <1>3, <2>1, <2>2, EndExitDoes, ExitAlone DEF EndExit, Moves
  <2>4. epoll_rs = NONE
    BY <2>1 DEF EpollLive, TypeOK
  <2> QED
    BY <2>1, <2>3, <2>4 DEF EpollLive, EpollHeld, Passing
<1>4. CASE Restart
  BY <1>4, EpollKept DEF Restart, R!Start, thVars, Exiting
<1> QED
  BY <1>1, <1>2, <1>3, <1>4 DEF ExitStep

LEMMA EInvInit == Init => EInv
BY DEF Init, R!Init, EInv, EpollLive, EpollHeld, Passing, Exiting, NONE

LEMMA EInvNext == Inv /\ EInv /\ Next => EInv'
<1> SUFFICES ASSUME Inv, EInv, Next, ESound'  PROVE (EpollLive /\ EpollHeld /\ fault # "epoll")'
  BY DEF EInv
<1>1. TypeOK /\ TypeOK' /\ Positions /\ Pointers /\ Locals
  BY InvNext DEF Inv
<1>2. "stale" \notin mishaps' /\ "index" \notin mishaps' /\ ~orphaned' /\ ESound
  BY <1>1, HistoryGrows DEF ESound
<1>3. EpollLive /\ EpollHeld /\ fault = "none"
  BY <1>2 DEF EInv, Next
<1>4. ASSUME NEW t \in Threads, OpenStep(t)
      PROVE  (EpollLive /\ EpollHeld /\ fault # "epoll")'
  <2>1. fault' # "epoll"
    <3>1. ASSUME epoll_create(t)
          PROVE  fault' # "epoll"
      <4>1. ~Exiting
        BY <1>1, <1>2, <3>1, HistoryGrows, DescriptorsAssumption
           DEF epoll_create, Ready, Positions, Exiting
      <4> QED
        BY <1>3, <3>1, <4>1, EpollCreateDoes, <1>1 DEF epoll_create, EpollHeld
    <3> QED
      BY <1>3, <1>4, <3>1 DEF OpenStep, BeginOpen, accept, BeginFopen, OpenLog, KernelOpen, Track,
         OpenFails, FopenLog, LogFails, TrackFile, TUNSETIFF, histVars
  <2> QED
    BY <1>1, <1>2, <1>3, <1>4, <2>1, OpenEpoll
<1>5. ASSUME NEW t \in Threads, CloseStep(t)
      PROVE  (EpollLive /\ EpollHeld /\ fault # "epoll")'
  <2>1. ASSUME resource_free(t_obj[t])
        PROVE  fault' # "epoll"
    <3>1. t_obj[t] \in Objects \cup {NONE}
      BY <1>1 DEF TypeOK
    <3> QED
      BY <1>1, <1>3, <2>1, <3>1, FreeCases
  <2>2. fault' # "epoll"
    BY <1>3, <1>5, <2>1 DEF CloseStep, BeginClose, CloseFree, CloseClear, CloseFd, BeginCloseEpoll,
       CloseEpoll, fclose, FcloseFree, histVars
  <2> QED
    BY <1>1, <1>2, <1>3, <1>5, <2>2, CloseEpolls
<1>6. ASSUME NEW t \in Threads, ThreadStep(t)
      PROVE  (EpollLive /\ EpollHeld /\ fault # "epoll")'
  <2>1. UNCHANGED <<epoll_rs, epolls, object, cb, pc, t_obj, fault>>
    BY <1>6 DEF ThreadStep, pthread_create, pthread_exit, glueVars, regVars, thVars, histVars
  <2> QED
    BY <1>1, <1>3, <2>1, EpollKept DEF Exiting
<1>7. CASE ExitStep
  <2>1. fault' = fault
    BY <1>7 DEF ExitStep, BeginExit, Collect, EndExit, Restart, histVars
  <2> QED
    BY <1>1, <1>2, <1>3, <1>7, <2>1, ExitEpoll
<1> QED
  BY <1>4, <1>5, <1>6, <1>7 DEF Next

LEMMA EInvAlways == Spec => [](Inv /\ EInv)
<1>1. Inv /\ EInv /\ UNCHANGED vars => EInv'
  BY DEF EInv, ESound, EpollLive, EpollHeld, Passing, Exiting, vars, fileVars, regVars, glueVars,
     thVars, progVars, histVars
<1> QED
  BY <1>1, InvInit, InvNext, InvStutter, EInvInit, EInvNext, PTL DEF Spec

\* glue.c:464: for any number of threads, resources and runs, a program that has no epoll
\* descriptor is not stopped for creating one, and epoll_rs is set while it has one.
THEOREM EpollNeverTwice == Spec => []EpollNotTwice
<1>1. EInv => EpollNotTwice
  BY DEF EInv, ESound, EpollHeld, EpollNotTwice
<1> QED
  BY <1>1, EInvAlways, PTL

-----------------------------------------------------------------------------
(* What is open stays open: opening *)

\* Where no orphan is, no thread but Main is in a call during the exit.
LEMMA CallsRun ==
  ASSUME Inv, ~orphaned, NEW t \in Threads,
         Ready(t) \/ pc[t] \notin {"idle", "collect"}
  PROVE  ~Exiting /\ (t \in peers \/ proc = "running")
BY DescriptorsAssumption DEF Inv, Positions, Ready, Exiting

LEMMA FilesAreFiles ==
  ASSUME TypeOK
  PROVE  NONE \notin Files /\ NONE \notin Objects /\ FAILED \notin Fds
         /\ \A d \in Fds : kernel[d] # NONE => kernel[d] \in Files
BY DescriptorsAssumption DEF TypeOK, Files, Objects, NONE, FAILED

\* The files at the other numbers stay as they are.
LEMMA OpensRest ==
  ASSUME Inv, NEW c, NEW fd \in Fds, Opens(c, fd)
  PROVE  /\ \A d \in Fds : d # fd /\ kernel[d] # NONE =>
              /\ kernel'[d] = kernel[d] /\ class'[kernel[d]] = class[kernel[d]]
              /\ kernel[d] # nfiles + 1
         /\ \A f \in Files : Open(f) =>
              /\ Open(f)' /\ f # nfiles + 1 /\ fdno[f] # fd
              /\ class'[f] = class[f] /\ fdno'[f] = fdno[f]
         /\ fdno'[nfiles + 1] \in Fds /\ kernel'[fdno'[nfiles + 1]] = nfiles + 1
<1>1. ASSUME NEW d \in Fds, d # fd, kernel[d] # NONE
      PROVE  /\ kernel'[d] = kernel[d] /\ class'[kernel[d]] = class[kernel[d]]
             /\ kernel[d] # nfiles + 1 /\ fdno'[kernel[d]] = fdno[kernel[d]]
  <2>1. kernel[d] \in Files /\ kernel[d] <= nfiles
    BY <1>1 DEF Inv, TypeOK, Placed
  <2>2. kernel[d] # nfiles + 1
    BY <2>1 DEF Opens, Files
  <2> QED
    BY <1>1, <2>1, <2>2 DEF Opens
<1>2. ASSUME NEW f \in Files, Open(f)
      PROVE  /\ Open(f)' /\ f # nfiles + 1 /\ fdno[f] # fd
             /\ class'[f] = class[f] /\ fdno'[f] = fdno[f]
  <2>1. fdno[f] \in Fds /\ kernel[fdno[f]] = f /\ f # NONE
    BY <1>2, FilesAreFiles DEF Inv, Open
  <2>2. fdno[f] # fd
    BY <2>1 DEF Opens
  <2> QED
    BY <1>1, <2>1, <2>2 DEF Open
<1>3. fdno'[nfiles + 1] \in Fds /\ kernel'[fdno'[nfiles + 1]] = nfiles + 1
  BY DEF Opens
<1> QED
  BY <1>1, <1>2, <1>3

LEMMA OpensSane ==
  ASSUME Inv, Sane, NEW c \in {"plain", "tun", "conn", "stream", "log"}, NEW fd \in Fds,
         Opens(c, fd), UNCHANGED <<object, cb, val, per_fd>>,
         \/ c # "log" /\ log_handle' = log_handle
         \/ c = "log" /\ log_handle = NONE /\ log_handle' = nfiles + 1
  PROVE  FdRes' /\ FileRes' /\ LogOpen'
<1>1. kernel[fd] = NONE /\ class'[nfiles + 1] = c /\ kernel'[fd] = nfiles + 1
      /\ \A d \in Fds : d # fd => kernel'[d] = kernel[d]
  BY DEF Opens
<1>2. FdRes'
  BY <1>1, OpensRest DEF Sane, FdRes, LiveFd, OpenAt
<1>3. FileRes'
  BY OpensRest, FilesAreFiles DEF Inv, Sane, FileRes, LiveFile
<1>4. LogOpen'
  <2>1. CASE c # "log" /\ log_handle' = log_handle
    <3>1. log_handle # NONE => Open(log_handle)'
      BY OpensRest DEF Inv, TypeOK, Sane, LogOpen
    <3>2. \A d \in Fds : OpenAt(d, {"log"})' => kernel'[d] = log_handle
      BY <1>1, <2>1, OpensRest DEF Sane, LogOpen, OpenAt
    <3> QED
      BY <2>1, <3>1, <3>2 DEF LogOpen, Open
  <2>2. CASE log_handle = NONE /\ log_handle' = nfiles + 1
    <3>1. \A d \in Fds : OpenAt(d, {"log"})' => d = fd
      BY <1>1, <2>2, OpensRest DEF Sane, LogOpen, OpenAt
    <3> QED
      BY <1>1, <2>2, <3>1, OpensRest DEF LogOpen, Open
  <2> QED
    BY <2>1, <2>2
<1> QED
  BY <1>2, <1>3, <1>4

\* No thread is at a number that is handed out, unless it is closing it.
LEMMA NoneBusyThere ==
  ASSUME Inv, Sane, NEW fd \in Fds, kernel[fd] = NONE, ~Closing(fd)
  PROVE  /\ \A u \in Busy : t_fd[u] # fd
         /\ \A o \in Objects : ~LiveFd(o, fd)
<1>1. \A u \in Busy : t_fd[u] # fd
  <2>1. \A u \in Closers : t_fd[u] # fd
    BY DEF Closing, Closers, Passing
  <2>2. \A u \in Passing({"track"}) : t_fd[u] # fd
    BY FilesAreFiles DEF Inv, Sane, Trackers, Locals
  <2> QED
    BY <2>1, <2>2 DEF Busy
<1>2. \A o \in Objects : ~LiveFd(o, fd)
  BY DEF Sane, FdRes, OpenAt
<1> QED
  BY <1>1, <1>2

\* The other threads, and what the program has, when a file is opened.
LEMMA OpensThreads ==
  ASSUME Inv, Sane, NEW t \in Threads, NEW fd \in Fds,
         NEW c \in {"plain", "tun", "conn", "stream", "log"},
         Opens(c, fd), ~Closing(fd), ~Exiting, ~Exiting',
         UNCHANGED <<object, cb, val, per_fd, tun_fd, tun_old, streams>>,
         pc[t] \in {"idle", "open_log"},
         \A u \in Threads : u # t =>
           pc'[u] = pc[u] /\ t_fd'[u] = t_fd[u] /\ t_file'[u] = t_file[u] /\ t_obj'[u] = t_obj[u],
         \/ pc'[t] = "idle"
         \/ pc'[t] = "track" /\ t_fd'[t] = fd /\ t_file'[t] = nfiles + 1 /\ c \in {"plain", "tun"}
         \/ pc'[t] = "track_file" /\ t_file'[t] = nfiles + 1 /\ c \in {"stream", "log"},
         \/ owned' = owned
         \/ owned' = owned \cup {nfiles + 1} /\ c = "conn" /\ pc'[t] = "idle",
         \/ c # "log" /\ log_handle' = log_handle
         \/ c = "log" /\ log_handle = NONE /\ log_handle' = nfiles + 1
  PROVE  Sane'
<1>1. /\ kernel[fd] = NONE /\ class'[nfiles + 1] = c /\ fdno'[nfiles + 1] = fd
      /\ kernel'[fd] = nfiles + 1 /\ nfiles + 1 \in Files
      /\ \A d \in Fds : d # fd => kernel'[d] = kernel[d]
  BY DEF Opens
<1>2. /\ \A u \in Busy : t_fd[u] # fd /\ t_fd[u] \in Fds
      /\ \A o \in Objects : ~LiveFd(o, fd)
  BY <1>1, NoneBusyThere DEF Inv, Locals, Busy
<1>3. \A u \in Busy' : (u \in Busy /\ u # t /\ t_fd'[u] = t_fd[u])
                       \/ (u = t /\ pc'[t] = "track" /\ t_fd'[u] = fd)
  BY DEF Busy, Closers, Passing
<1>4. FdRes' /\ FileRes' /\ LogOpen'
  BY OpensSane
<1>5. Owned'
  <2>1. ASSUME NEW f \in owned
        PROVE  /\ Open(f)' /\ class'[f] \in {"plain", "tun", "conn"}
               /\ \A u \in Busy' : t_fd'[u] # fdno'[f]
    <3>1. Open(f) /\ class[f] \in {"plain", "tun", "conn"} /\ f \in Files
          /\ \A u \in Busy : t_fd[u] # fdno[f]
      BY <2>1 DEF Inv, TypeOK, Sane, Owned
    <3>2. Open(f)' /\ fdno[f] # fd /\ class'[f] = class[f] /\ fdno'[f] = fdno[f]
      BY <3>1, OpensRest
    <3> QED
      BY <1>3, <3>1, <3>2
  <2>2. CASE owned' = owned \cup {nfiles + 1} /\ c = "conn" /\ pc'[t] = "idle"
    <3>1. ASSUME NEW f, f = nfiles + 1
          PROVE  /\ Open(f)' /\ class'[f] \in {"plain", "tun", "conn"}
                 /\ \A u \in Busy' : t_fd'[u] # fdno'[f]
      BY <1>1, <1>2, <1>3, <2>2, <3>1 DEF Open
    <3> QED
      BY <2>1, <2>2, <3>1 DEF Owned
  <2> QED
    BY <2>1, <2>2 DEF Owned
<1>6. Streams'
  BY DEF Sane, Streams
<1>7. TunOpen'
  <2>1. \A f \in owned : f \in owned' /\ class'[f] = class[f] /\ fdno'[f] = fdno[f]
    BY OpensRest DEF Inv, TypeOK, Sane, Owned
  <2> QED
    BY <2>1 DEF Sane, TunOpen
<1>8. Trackers'
  <2>1. ASSUME NEW u \in Threads, pc'[u] = "track", u # t
        PROVE  /\ kernel'[t_fd'[u]] = t_file'[u] /\ class'[t_file'[u]] \in {"plain", "tun"}
               /\ \A o \in Objects : ~LiveFd(o, t_fd[u])'
    <3>1. /\ kernel[t_fd[u]] = t_file[u] /\ class[t_file[u]] \in {"plain", "tun"}
          /\ \A o \in Objects : ~LiveFd(o, t_fd[u])
          /\ t_fd[u] # fd /\ t_fd[u] \in Fds /\ t_file[u] # NONE
          /\ t_fd'[u] = t_fd[u] /\ t_file'[u] = t_file[u]
      BY <1>2, <2>1, FilesAreFiles DEF Inv, Locals, Sane, Trackers, Busy, Passing
    <3> QED
      BY <1>1, <3>1, OpensRest DEF LiveFd
  <2>2. CASE pc'[t] = "track"
    BY <1>1, <1>2, <2>1, <2>2 DEF Trackers, Passing, LiveFd
  <2> QED
    BY <2>1, <2>2 DEF Trackers, Passing
<1>9. FileTrackers'
  <2>1. ASSUME NEW u \in Threads, pc'[u] = "track_file", u # t
        PROVE  /\ t_file'[u] = t_file[u] /\ t_file[u] # nfiles + 1
               /\ t_file[u] # log_handle' =>
                    /\ class'[t_file[u]] = "stream" /\ Open(t_file[u])'
                    /\ \A o \in Objects : ~LiveFile(o, t_file[u])
                    /\ \A v \in Passing({"track_file"}) : t_file[v] = t_file[u] => v = u
    <3>1. pc[u] = "track_file" /\ t_file'[u] = t_file[u] /\ t_file[u] \in Files
      BY <2>1 DEF Inv, Locals, Passing
    <3>2. Open(t_file[u])
      BY <3>1, FilesAreFiles DEF Inv, Sane, FileTrackers, LogOpen, Passing
    <3>3. t_file[u] # log_handle' => t_file[u] # log_handle
      BY <3>1, FilesAreFiles DEF Inv
    <3> QED
      BY <3>1, <3>2, <3>3, OpensRest DEF Sane, FileTrackers, Passing
  <2>2. CASE pc'[t] = "track_file" /\ c = "stream"
    <3>1. \A o \in Objects : ~LiveFile(o, nfiles + 1)
      <4>1. nfiles + 1 # log_handle
        BY OpensRest, <1>1, FilesAreFiles DEF Inv, TypeOK, Sane, LogOpen
      <4>2. ~Open(nfiles + 1)
        BY <1>1, OpensRest
      <4> QED
        BY <1>1, <4>1, <4>2 DEF Sane, FileRes
    <3>2. /\ t_file'[t] = nfiles + 1 /\ class'[t_file'[t]] = "stream" /\ Open(t_file[t])'
          /\ \A o \in Objects : ~LiveFile(o, t_file[t])'
      BY <1>1, <2>2, <3>1 DEF LiveFile, Open
    <3>3. \A u \in Threads : pc'[u] = "track_file" /\ u # t =>
            pc[u] = "track_file" /\ t_file'[u] = t_file[u] /\ t_file[u] # nfiles + 1
      BY <2>1
    <3>4. ASSUME NEW u \in Threads, pc'[u] = "track_file", u # t, t_file'[u] # log_handle'
          PROVE  /\ class'[t_file'[u]] = "stream" /\ Open(t_file[u])'
                 /\ \A o \in Objects : ~LiveFile(o, t_file[u])'
                 /\ \A v \in Passing({"track_file"})' : t_file'[v] = t_file'[u] => v = u
      BY <2>1, <3>2, <3>3, <3>4 DEF Passing, LiveFile, Open
    <3> QED
      BY <3>2, <3>3, <3>4 DEF FileTrackers, Passing
  <2>3. CASE pc'[t] = "track_file" /\ c = "log"
    BY <1>1, <2>1, <2>3 DEF FileTrackers, Passing, LiveFile
  <2>4. CASE pc'[t] # "track_file"
    BY <2>1, <2>4 DEF FileTrackers, Passing, LiveFile
  <2> QED
    BY <2>2, <2>3, <2>4
<1>10. Closings'
  <2>1. ASSUME NEW u \in Closers'
        PROVE  /\ u \in Closers /\ t_fd'[u] = t_fd[u] /\ t_fd[u] # fd /\ t_fd[u] \in Fds
               /\ pc'[u] = pc[u] /\ t_obj'[u] = t_obj[u]
    BY <1>2, <2>1 DEF Closers, Busy, Passing
  <2>2. ASSUME NEW u \in Closers'
        PROVE  kernel'[t_fd[u]] # NONE =>
                 class'[kernel'[t_fd[u]]] \in {"plain", "tun", "conn"}
    BY <1>1, <2>1, OpensRest DEF Sane, Closings
  <2> QED
    BY <2>1, <2>2 DEF Sane, Closings, LiveFd
<1>11. Apart'
  BY <1>2, <1>3 DEF Sane, Apart
<1> QED
  BY <1>4, <1>5, <1>6, <1>7, <1>8, <1>9, <1>10, <1>11 DEF Sane

-----------------------------------------------------------------------------
(* What is open stays open: the other steps *)

\* Of the live resources that hold a file, none is new.
NoNewHolders ==
  \A o \in Objects : /\ \A d \in Fds : LiveFd(o, d)' => LiveFd(o, d)
                     /\ \A f \in Files : LiveFile(o, f)' => LiveFile(o, f)
StreamsLive == \A o \in streams' : o \in streams /\ (object[o] = "live" => object'[o] = "live")

\* A thread that takes up nothing new.
LEMMA SaneKept ==
  ASSUME Inv, Sane, NoNewHolders, StreamsLive, TunOpen',
         UNCHANGED <<kernel, class, fdno, log_handle, per_fd, owned>>,
         \A u \in Threads :
           /\ pc'[u] \in {"track", "close_free", "close_clear", "close_fd"} =>
                /\ pc'[u] = pc[u] /\ t_fd'[u] = t_fd[u]
                /\ t_file'[u] = t_file[u] /\ t_obj'[u] = t_obj[u]
           /\ pc'[u] = "track_file" =>
                \/ pc[u] = "track_file" /\ t_file'[u] = t_file[u]
                \/ t_file'[u] = log_handle,
         Exiting => Exiting'
  PROVE  Sane'
<1>1. FdRes'
  BY DEF Sane, FdRes, NoNewHolders, OpenAt
<1>2. FileRes'
  BY DEF Sane, FileRes, NoNewHolders, Open
<1>3. LogOpen'
  BY DEF Sane, LogOpen, OpenAt, Open
<1>4. Owned'
  BY DEF Sane, Owned, Open, Busy, Closers, Passing
<1>5. Streams'
  BY DEF Sane, Streams, StreamsLive
<1>6. Trackers'
  <2> SUFFICES ASSUME NEW u \in Threads, pc'[u] = "track"
               PROVE  /\ kernel'[t_fd'[u]] = t_file'[u] /\ class'[t_file'[u]] \in {"plain", "tun"}
                      /\ \A o \in Objects : ~LiveFd(o, t_fd[u])'
    BY DEF Trackers, Passing, LiveFd
  <2>1. t_fd[u] \in Fds /\ t_fd'[u] = t_fd[u] /\ t_file'[u] = t_file[u] /\ pc[u] = "track"
    BY DEF Inv, Locals, Passing
  <2> QED
    BY <2>1 DEF Sane, Trackers, NoNewHolders, Passing, LiveFd
<1>7. FileTrackers'
  <2> SUFFICES ASSUME NEW u \in Threads, pc'[u] = "track_file", t_file'[u] # log_handle
               PROVE  /\ class'[t_file'[u]] = "stream" /\ Open(t_file[u])'
                      /\ \A o \in Objects : ~LiveFile(o, t_file[u])'
                      /\ \A v \in Passing({"track_file"})' : t_file'[v] = t_file'[u] => v = u
    BY DEF FileTrackers, Passing, LiveFile, Open
  <2>1. t_file[u] \in Files /\ t_file'[u] = t_file[u] /\ pc[u] = "track_file"
    BY DEF Inv, Locals, Passing
  <2> QED
    BY <2>1 DEF Sane, FileTrackers, NoNewHolders, Passing, LiveFile, Open
<1>8. Closings'
  <2> SUFFICES ASSUME NEW u \in Closers'
               PROVE  /\ kernel'[t_fd'[u]] # NONE =>
                           class'[kernel'[t_fd'[u]]] \in {"plain", "tun", "conn"}
                      /\ pc'[u] = "close_free" => t_obj'[u] = per_fd'[t_fd'[u]]
                      /\ pc'[u] # "close_free" => \A o \in Objects : ~LiveFd(o, t_fd[u])'
    BY DEF Closings, LiveFd
  <2>1. /\ u \in Closers /\ t_fd[u] \in Fds
        /\ pc'[u] = pc[u] /\ t_fd'[u] = t_fd[u] /\ t_obj'[u] = t_obj[u]
    BY DEF Inv, Locals, Closers, Passing
  <2> QED
    BY <2>1 DEF Sane, Closings, NoNewHolders, LiveFd
<1>9. Apart'
  BY DEF Sane, Apart, Busy, Closers, Passing
<1> QED
  BY <1>1, <1>2, <1>3, <1>4, <1>5, <1>6, <1>7, <1>8, <1>9 DEF Sane

\* A step of close(d), of the thread that closes it.
LEMMA ClosingSane ==
  ASSUME Inv, Sane, ~Exiting, NEW t \in Closers, NEW d \in Fds, t_fd[t] = d,
         \A e \in Fds : e # d => kernel'[e] = kernel[e] /\ per_fd'[e] = per_fd[e],
         kernel'[d] \in {kernel[d], NONE},
         NoNewHolders, StreamsLive, \A o \in Objects : ~LiveFd(o, d)',
         UNCHANGED <<class, fdno, log_handle, owned, tun_fd, tun_old>>,
         \A u \in Threads : u # t =>
           pc'[u] = pc[u] /\ t_fd'[u] = t_fd[u] /\ t_file'[u] = t_file[u] /\ t_obj'[u] = t_obj[u],
         pc'[t] \in {"close_clear", "close_fd", "idle"}, pc'[t] # "idle" => t_fd'[t] = d
  PROVE  Sane'
<1>1. /\ t \in Busy /\ t \in Threads
      /\ kernel[d] # NONE => class[kernel[d]] \in {"plain", "tun", "conn"}
  BY DEF Sane, Closings, Busy, Closers, Passing
<1>2. \A u \in Busy' : u \in Busy /\ t_fd'[u] = t_fd[u]
  BY <1>1 DEF Busy, Closers, Passing
<1>3. \A u \in Busy : u # t => t_fd[u] # d /\ t_fd[u] \in Fds
  BY <1>1 DEF Sane, Apart, Inv, Locals, Busy
<1>4. \A f \in Files : Open(f) /\ class[f] \in {"stream", "log"} => fdno[f] # d /\ Open(f)'
  BY <1>1, FilesAreFiles DEF Inv, Open
<1>5. FdRes'
  BY DEF Sane, FdRes, NoNewHolders, OpenAt, LiveFd
<1>6. FileRes'
  BY <1>4 DEF Sane, FileRes, NoNewHolders
<1>7. LogOpen'
  <2>1. log_handle # NONE => Open(log_handle)'
    BY <1>4 DEF Inv, TypeOK, Placed, Sane, LogOpen
  <2>2. \A e \in Fds : OpenAt(e, {"log"})' => OpenAt(e, {"log"}) /\ kernel'[e] = kernel[e]
    BY DEF OpenAt
  <2> QED
    BY <2>1, <2>2 DEF Sane, LogOpen, Open
<1>8. Owned'
  <2>1. \A f \in owned : fdno[f] # d
    BY <1>1 DEF Sane, Owned
  <2> QED
    BY <1>2, <2>1 DEF Sane, Owned, Open
<1>9. Streams' /\ TunOpen'
  BY DEF Sane, Streams, StreamsLive, TunOpen
<1>10. Trackers'
  <2> SUFFICES ASSUME NEW u \in Threads, pc'[u] = "track"
               PROVE  /\ kernel'[t_fd'[u]] = t_file'[u] /\ class'[t_file'[u]] \in {"plain", "tun"}
                      /\ \A o \in Objects : ~LiveFd(o, t_fd[u])'
    BY DEF Trackers, Passing, LiveFd
  <2>1. u # t /\ u \in Busy /\ pc[u] = "track" /\ t_fd'[u] = t_fd[u] /\ t_file'[u] = t_file[u]
    BY DEF Busy, Passing
  <2>2. t_fd[u] # d /\ t_fd[u] \in Fds
    BY <1>3, <2>1
  <2> QED
    BY <2>1, <2>2 DEF Sane, Trackers, NoNewHolders, Passing, LiveFd
<1>11. FileTrackers'
  <2> SUFFICES ASSUME NEW u \in Threads, pc'[u] = "track_file", t_file'[u] # log_handle
               PROVE  /\ class'[t_file'[u]] = "stream" /\ Open(t_file[u])'
                      /\ \A o \in Objects : ~LiveFile(o, t_file[u])'
                      /\ \A v \in Passing({"track_file"})' : t_file'[v] = t_file'[u] => v = u
    BY DEF FileTrackers, Passing, LiveFile, Open
  <2>1. \A v \in Threads : pc'[v] = "track_file" =>
          pc[v] = "track_file" /\ t_file'[v] = t_file[v] /\ t_file[v] \in Files
    BY DEF Inv, Locals, Passing
  <2>2. /\ class[t_file[u]] = "stream" /\ Open(t_file[u])
        /\ \A o \in Objects : ~LiveFile(o, t_file[u])
        /\ \A v \in Passing({"track_file"}) : t_file[v] = t_file[u] => v = u
    BY <2>1 DEF Sane, FileTrackers, Passing
  <2>3. Open(t_file[u])'
    BY <1>4, <2>1, <2>2 DEF Open
  <2>4. \A o \in Objects : ~LiveFile(o, t_file[u])'
    BY <2>1, <2>2 DEF NoNewHolders, LiveFile
  <2>5. \A v \in Passing({"track_file"})' : t_file'[v] = t_file'[u] => v = u
    BY <2>1, <2>2 DEF Passing
  <2> QED
    BY <2>1, <2>2, <2>3, <2>4, <2>5
<1>12. Closings'
  <2>1. ASSUME NEW u \in Closers', u # t
        PROVE  /\ u \in Closers /\ t_fd'[u] = t_fd[u] /\ t_fd[u] # d /\ t_fd[u] \in Fds
               /\ pc'[u] = pc[u] /\ t_obj'[u] = t_obj[u]
    BY <1>3, <2>1 DEF Closers, Busy, Passing
  <2>2. ASSUME NEW u \in Closers', u # t
        PROVE  /\ kernel'[t_fd'[u]] # NONE =>
                    class'[kernel'[t_fd'[u]]] \in {"plain", "tun", "conn"}
               /\ pc'[u] = "close_free" => t_obj'[u] = per_fd'[t_fd'[u]]
               /\ pc'[u] # "close_free" => \A o \in Objects : ~LiveFd(o, t_fd[u])'
    BY <2>1, <2>2 DEF Sane, Closings, NoNewHolders, LiveFd
  <2>3. t \in Closers' => t_fd'[t] = d /\ pc'[t] # "close_free"
    BY DEF Closers, Passing
  <2> QED
    BY <1>1, <2>2, <2>3 DEF Closings, LiveFd
<1>13. Apart'
  BY <1>2 DEF Sane, Apart
<1> QED
  BY <1>5, <1>6, <1>7, <1>8, <1>9, <1>10, <1>11, <1>12, <1>13 DEF Sane

LEMMA TrackSane ==
  ASSUME Inv, Sane, ~orphaned, NEW t \in Threads, Track(t)
  PROVE  Sane'
<1> USE DEF fileVars, glueVars, histVars
<1>1. /\ Makes("fd", t_fd[t]) /\ Moves(t, "idle", FAILED, NONE, NONE)
      /\ pc[t] = "track" /\ t_fd[t] \in Fds /\ t_file[t] \in Files
      /\ per_fd'[t_fd[t]] = nobj + 1
      /\ \A d \in Fds : d # t_fd[t] => per_fd'[d] = per_fd[d]
  BY TrackDoes DEF Inv
<1>2. /\ UNCHANGED <<kernel, class, fdno, log_handle, tun_fd, tun_old, streams>>
      /\ owned' = owned \cup {t_file[t]}
  BY DEF Track
<1>3. /\ kernel[t_fd[t]] = t_file[t] /\ class[t_file[t]] \in {"plain", "tun"}
      /\ \A o \in Objects : ~LiveFd(o, t_fd[t])
      /\ fdno[t_file[t]] = t_fd[t] /\ kernel[t_fd[t]] # NONE
  BY <1>1, FilesAreFiles DEF Inv, Placed, Sane, Trackers, Passing
<1>4. /\ ~Exiting /\ t \in Busy
      /\ \A u \in Busy' : u \in Busy /\ u # t /\ t_fd'[u] = t_fd[u] /\ t_fd[u] # t_fd[t]
  BY <1>1, CallsRun DEF Sane, Apart, Busy, Closers, Passing, Moves
<1>5. /\ nobj + 1 \in Objects
      /\ \A o \in Objects, d \in Fds : LiveFd(o, d)' =>
           LiveFd(o, d) \/ (o = nobj + 1 /\ d = t_fd[t])
      /\ \A o \in Objects, f \in Files : LiveFile(o, f)' => LiveFile(o, f)
  BY <1>1 DEF Makes, LiveFd, LiveFile
<1>6. FdRes'
  BY <1>1, <1>2, <1>3, <1>5 DEF Sane, FdRes, OpenAt
<1>7. FileRes'
  BY <1>2, <1>5 DEF Sane, FileRes, Open
<1>8. LogOpen'
  BY <1>2 DEF Sane, LogOpen, OpenAt, Open
<1>9. Owned'
  BY <1>1, <1>2, <1>3, <1>4 DEF Sane, Owned, Open
<1>10. Streams' /\ TunOpen'
  BY <1>1, <1>2, <1>4 DEF Inv, TypeOK, Sane, Streams, TunOpen, Makes
<1>11. \A u \in Threads : pc'[u] \in {"track", "track_file", "close_free", "close_clear", "close_fd"} =>
         u # t /\ pc'[u] = pc[u] /\ t_fd'[u] = t_fd[u] /\ t_file'[u] = t_file[u]
         /\ t_obj'[u] = t_obj[u]
  BY <1>1 DEF Moves
<1>12. Trackers'
  BY <1>2, <1>4, <1>5, <1>11 DEF Sane, Trackers, Inv, Locals, Busy, Passing, LiveFd
<1>13. FileTrackers'
  BY <1>2, <1>5, <1>11 DEF Sane, FileTrackers, Inv, Locals, Passing, LiveFile, Open
<1>14. Closings'
  BY <1>1, <1>2, <1>4, <1>5, <1>11 DEF Sane, Closings, Inv, Locals, Busy, Closers, Passing, LiveFd
<1>15. Apart'
  BY <1>4 DEF Sane, Apart
<1> QED
  BY <1>6, <1>7, <1>8, <1>9, <1>10, <1>12, <1>13, <1>14, <1>15 DEF Sane

LEMMA TrackFileSane ==
  ASSUME Inv, Sane, ~orphaned, NEW t \in Threads, TrackFile(t)
  PROVE  Sane'
<1> USE DEF fileVars, glueVars, histVars
<1>1. /\ Makes("file", t_file[t]) /\ Moves(t, "idle", FAILED, NONE, NONE)
      /\ pc[t] = "track_file" /\ t_file[t] \in Files
  BY TrackFileDoes DEF Inv
<1>2. /\ UNCHANGED <<kernel, class, fdno, log_handle, per_fd, tun_fd, tun_old, owned>>
      /\ streams' = streams \cup {nobj + 1}
  BY DEF TrackFile
<1>3. t_file[t] # log_handle =>
        /\ class[t_file[t]] = "stream" /\ Open(t_file[t])
        /\ \A o \in Objects : ~LiveFile(o, t_file[t])
        /\ \A u \in Passing({"track_file"}) : t_file[u] = t_file[t] => u = t
  BY <1>1 DEF Sane, FileTrackers, Passing
<1>4. ~Exiting /\ \A u \in Busy' : u \in Busy /\ t_fd'[u] = t_fd[u]
  BY <1>1, CallsRun DEF Busy, Closers, Passing, Moves
<1>5. /\ nobj + 1 \in Objects
      /\ \A o \in Objects, d \in Fds : LiveFd(o, d)' => LiveFd(o, d)
      /\ \A o \in Objects, f \in Files : LiveFile(o, f)' =>
           LiveFile(o, f) \/ (o = nobj + 1 /\ f = t_file[t])
  BY <1>1 DEF Makes, LiveFd, LiveFile
<1>6. FdRes'
  BY <1>2, <1>5 DEF Sane, FdRes, OpenAt
<1>7. FileRes'
  BY <1>2, <1>3, <1>5 DEF Sane, FileRes, Open
<1>8. LogOpen'
  BY <1>2 DEF Sane, LogOpen, OpenAt, Open
<1>9. Owned'
  BY <1>2, <1>4 DEF Sane, Owned, Open
<1>10. Streams' /\ TunOpen'
  BY <1>1, <1>2, <1>4 DEF Inv, TypeOK, Sane, Streams, TunOpen, Makes
<1>11. \A u \in Threads : pc'[u] \in {"track", "track_file", "close_free", "close_clear", "close_fd"} =>
         u # t /\ pc'[u] = pc[u] /\ t_fd'[u] = t_fd[u] /\ t_file'[u] = t_file[u]
         /\ t_obj'[u] = t_obj[u]
  BY <1>1 DEF Moves
<1>12. Trackers'
  BY <1>2, <1>5, <1>11 DEF Sane, Trackers, Inv, Locals, Passing, LiveFd
<1>13. FileTrackers'
  <2> SUFFICES ASSUME NEW u \in Threads, pc'[u] = "track_file", t_file'[u] # log_handle
               PROVE  /\ class'[t_file'[u]] = "stream" /\ Open(t_file[u])'
                      /\ \A o \in Objects : ~LiveFile(o, t_file[u])'
                      /\ \A v \in Passing({"track_file"})' : t_file'[v] = t_file'[u] => v = u
    BY <1>2 DEF FileTrackers, Passing, LiveFile, Open
  <2>1. u # t /\ pc[u] = "track_file" /\ t_file'[u] = t_file[u] /\ t_file[u] \in Files
    BY <1>11 DEF Inv, Locals, Passing
  <2>2. t_file[u] # t_file[t]
    BY <1>2, <1>3, <2>1 DEF Passing
  <2> QED
    BY <1>2, <1>5, <1>11, <2>1, <2>2 DEF Sane, FileTrackers, Passing, LiveFile, Open
<1>14. Closings'
  BY <1>2, <1>5, <1>11 DEF Sane, Closings, Inv, Locals, Closers, Passing, LiveFd
<1>15. Apart'
  BY <1>4 DEF Sane, Apart
<1> QED
  BY <1>6, <1>7, <1>8, <1>9, <1>10, <1>12, <1>13, <1>14, <1>15 DEF Sane

LEMMA TunKept ==
  ASSUME TunOpen, UNCHANGED <<tun_fd, tun_old, owned, class, fdno>>, Exiting => Exiting'
  PROVE  TunOpen'
BY DEF TunOpen

LEMMA OpensKeepSane ==
  ASSUME Inv, Sane, NEW t \in Threads, OpenStep(t), ~orphaned, mishaps' = {}
  PROVE  Sane'
<1> USE DEF fileVars, regVars, glueVars, thVars, progVars, histVars
<1>1. UNCHANGED <<object, cb, val, streams>> => NoNewHolders /\ StreamsLive
  BY DEF NoNewHolders, StreamsLive, LiveFd, LiveFile
<1>2. FAILED \notin Fds /\ NONE \notin Files
  BY FilesAreFiles DEF Inv
<1>3. Ready(t) \/ pc[t] \notin {"idle", "collect"} => ~Exiting
  BY CallsRun
<1>4. TunOpen
  BY DEF Sane
<1>5. ASSUME NEW fd \in Fds, NEW c \in {"plain", "tun"}, BeginOpen(t, c, fd)
      PROVE  Sane'
  <2>1. /\ Opens(c, fd) /\ Moves(t, "track", fd, nfiles + 1, NONE)
        /\ UNCHANGED <<object, cb, val, per_fd, tun_fd, tun_old, streams, owned, log_handle>>
        /\ ~Closing(fd) /\ ~Exiting /\ pc[t] = "idle"
    BY <1>3, <1>5, BeginOpenDoes DEF Inv, BeginOpen, KernelOpen, Reused, Ready
  <2>2. ~Exiting'
    BY <2>1, DescriptorsAssumption DEF Moves, Exiting
  <2> QED
    BY <2>1, <2>2, OpensThreads DEF Moves
<1>6. ASSUME NEW fd \in Fds, accept(t, fd)
      PROVE  Sane'
  <2>1. /\ Opens("conn", fd) /\ pc[t] = "idle" /\ owned' = owned \cup {nfiles + 1}
        /\ UNCHANGED <<object, cb, val, per_fd, tun_fd, tun_old, streams, log_handle,
                       pc, t_fd, t_file, t_obj>>
        /\ ~Closing(fd) /\ ~Exiting /\ ~Exiting'
    BY <1>3, <1>6, AcceptDoes DEF Inv, accept, KernelOpen, Reused, Ready, Exiting
  <2> QED
    BY <2>1, OpensThreads
<1>7. ASSUME NEW fd \in Fds, BeginFopen(t, fd)
      PROVE  Sane'
  <2>1. /\ Opens("stream", fd) /\ Moves(t, "track_file", fd, nfiles + 1, NONE)
        /\ UNCHANGED <<object, cb, val, per_fd, tun_fd, tun_old, streams, owned, log_handle>>
        /\ ~Closing(fd) /\ ~Exiting /\ pc[t] = "idle"
    BY <1>3, <1>7, BeginFopenDoes DEF Inv, BeginFopen, KernelOpen, Reused, Ready
  <2>2. ~Exiting'
    BY <2>1, DescriptorsAssumption DEF Moves, Exiting
  <2> QED
    BY <2>1, <2>2, OpensThreads DEF Moves
<1>8. ASSUME NEW fd \in Fds, OpenLog(t, fd)
      PROVE  Sane'
  <2>1. /\ Opens("log", fd) /\ Moves(t, "track_file", fd, nfiles + 1, NONE)
        /\ UNCHANGED <<object, cb, val, per_fd, tun_fd, tun_old, streams, owned>>
        /\ log_handle = NONE /\ log_handle' = nfiles + 1
        /\ ~Closing(fd) /\ ~Exiting /\ pc[t] = "open_log"
    BY <1>3, <1>8, OpenLogDoes DEF Inv, OpenLog, KernelOpen, Reused
  <2>2. ~Exiting'
    BY <2>1, DescriptorsAssumption DEF Moves, Exiting
  <2> QED
    BY <2>1, <2>2, OpensThreads DEF Moves
<1>9. CASE OpenFails(t)
  <2>1. Makes("fd", FAILED)
    BY <1>9, OpenFailsDoes DEF Inv
  <2>2. NoNewHolders /\ StreamsLive
    BY <1>2, <1>9, <2>1 DEF OpenFails, Makes, NoNewHolders, StreamsLive, LiveFd, LiveFile, Inv, TypeOK
  <2> QED
    BY <1>4, <1>9, <2>2, SaneKept, TunKept DEF OpenFails, Exiting
<1>10. CASE FopenLog(t)
  <2>1. /\ \/ Moves(t, "track_file", FAILED, log_handle, NONE)
           \/ Moves(t, "open_log", FAILED, NONE, NONE)
        /\ ~Exiting /\ NoNewHolders /\ StreamsLive
    BY <1>1, <1>3, <1>10, FopenLogDoes DEF Inv, FopenLog
  <2> QED
    BY <1>4, <1>10, <2>1, SaneKept, TunKept DEF FopenLog, Moves
<1>11. CASE LogFails(t)
  BY <1>1, <1>4, <1>11, SaneKept, TunKept DEF LogFails, Exiting
<1>12. CASE epoll_create(t)
  <2>1. NoNewHolders /\ StreamsLive
    <3>1. CASE Makes("epoll", NONE)
      BY <1>12, <3>1 DEF epoll_create, Makes, NoNewHolders, StreamsLive, LiveFd, LiveFile, Inv, TypeOK
    <3>2. CASE UNCHANGED regVars
      BY <1>1, <1>12, <3>2 DEF epoll_create
    <3> QED
      BY <1>12, <3>1, <3>2, EpollCreateDoes DEF Inv
  <2> QED
    BY <1>4, <1>12, <2>1, SaneKept, TunKept DEF epoll_create, Exiting
<1>13. ASSUME NEW f \in Files, TUNSETIFF(t, f)
       PROVE  Sane'
  <2>1. TunOpen'
    <3>1. CASE UNCHANGED tun_fd
      BY <1>4, <1>13, <3>1, TunKept DEF TUNSETIFF, Exiting
    <3>2. CASE tun_fd' = fdno[f]
      BY <1>13, <3>2 DEF TUNSETIFF, TunOpen
    <3> QED
      BY <1>13, <3>1, <3>2 DEF TUNSETIFF
  <2> QED
    BY <1>1, <1>13, <2>1, SaneKept DEF TUNSETIFF, Exiting
<1> QED
  BY <1>5, <1>6, <1>7, <1>8, <1>9, <1>10, <1>11, <1>12, <1>13, TrackSane, TrackFileSane DEF OpenStep

-----------------------------------------------------------------------------
(* What is open stays open: closing *)

LEMMA BeginCloseSane ==
  ASSUME Inv, Sane, ~orphaned, NEW t \in Threads, NEW f \in Files, BeginClose(t, f)
  PROVE  Sane'
<1> USE DEF fileVars, regVars
<1>1. /\ fdno[f] \in Fds /\ Moves(t, "close_free", fdno[f], NONE, per_fd[fdno[f]])
      /\ f \in owned /\ pc[t] = "idle" /\ ~Exiting /\ owned' = owned \ {f}
      /\ UNCHANGED <<kernel, class, fdno, object, cb, val, per_fd, log_handle, streams>>
  BY BeginCloseDoes, CallsRun DEF Inv, BeginClose, Ready
<1>2. /\ kernel[fdno[f]] = f /\ class[f] \in {"plain", "tun", "conn"}
      /\ \A u \in Busy : t_fd[u] # fdno[f]
      /\ \A g \in owned : g # f => fdno[g] # fdno[f]
  BY <1>1 DEF Sane, Owned, Open
<1>3. \A u \in Busy' : \/ u \in Busy /\ u # t /\ t_fd'[u] = t_fd[u]
                       \/ u = t /\ t_fd'[u] = fdno[f]
  BY <1>1 DEF Busy, Closers, Passing, Moves
<1>4. FdRes' /\ FileRes' /\ LogOpen'
  BY <1>1 DEF Sane, FdRes, FileRes, LogOpen, LiveFd, LiveFile, OpenAt, Open
<1>5. Owned'
  BY <1>1, <1>2, <1>3 DEF Sane, Owned, Open
<1>6. Streams'
  BY <1>1 DEF Sane, Streams
<1>7. TunOpen'
  <2>1. CASE tun_fd = fdno[f]
    BY <2>1 DEF BeginClose, TunOpen
  <2>2. CASE tun_fd # fdno[f]
    BY <1>1, <2>2 DEF BeginClose, Sane, TunOpen
  <2> QED
    BY <2>1, <2>2
<1>8. \A u \in Threads : u # t =>
        pc'[u] = pc[u] /\ t_fd'[u] = t_fd[u] /\ t_file'[u] = t_file[u] /\ t_obj'[u] = t_obj[u]
  BY <1>1 DEF Moves
<1>9. pc'[t] = "close_free" /\ t_fd'[t] = fdno[f] /\ t_obj'[t] = per_fd[fdno[f]]
  BY <1>1 DEF Moves
<1>10. Trackers'
  BY <1>1, <1>8, <1>9 DEF Sane, Trackers, Passing, LiveFd
<1>11. FileTrackers'
  BY <1>1, <1>8, <1>9 DEF Sane, FileTrackers, Passing, LiveFile, Open
<1>12. Closings'
  <2>1. ASSUME NEW u \in Closers', u # t
        PROVE  u \in Closers
    BY <1>8, <2>1 DEF Closers, Passing
  <2> QED
    BY <1>1, <1>2, <1>8, <1>9, <2>1 DEF Sane, Closings, LiveFd, Closers, Passing
<1>13. Apart'
  BY <1>2, <1>3 DEF Sane, Apart
<1> QED
  BY <1>4, <1>5, <1>6, <1>7, <1>10, <1>11, <1>12, <1>13 DEF Sane

LEMMA CloseFreeSane ==
  ASSUME Inv, Sane, ~orphaned, mishaps' = {}, NEW t \in Threads, CloseFree(t)
  PROVE  Sane'
<1> DEFINE d == t_fd[t]
           h == t_obj[t]
<1>1. /\ d \in Fds /\ h \in Objects \cup {NONE} /\ Moves(t, "close_clear", d, NONE, NONE)
      /\ pc[t] = "close_free" /\ t \in Closers /\ ~Exiting
      /\ UNCHANGED <<owned, streams>>
  BY CloseFreeDoes, CallsRun DEF Inv, CloseFree, Closers, Passing, progVars
<1>2. h = per_fd[d] /\ (h # NONE => IsFd(h, d))
  BY <1>1 DEF Inv, Pointers, Sane, Closings, Passing
<1>3. /\ UNCHANGED <<per_fd, tun_fd, log_handle, tun_old, cb, val>>
      /\ \/ KeepsResources /\ (h # NONE => object[h] # "live")
         \/ h \in Objects /\ Frees(h)
  BY <1>1, FreeCases DEF Inv, CloseFree
<1>4. \A o \in Objects : LiveFd(o, d) => o = h
  BY <1>1, <1>2 DEF Sane, FdRes
<1>5. /\ UNCHANGED <<class, fdno>> /\ NoNewHolders /\ StreamsLive
      /\ \A e \in Fds : e # d => kernel'[e] = kernel[e]
      /\ kernel'[d] \in {kernel[d], NONE}
      /\ \A o \in Objects : ~LiveFd(o, d)'
  <2>1. CASE KeepsResources /\ (h # NONE => object[h] # "live")
    <3>1. \A o \in Objects : ~LiveFd(o, d)
      BY <1>4, <2>1, FilesAreFiles DEF Inv, LiveFd
    <3> QED
      BY <1>1, <2>1, <3>1 DEF KeepsResources, NoNewHolders, StreamsLive, LiveFd, LiveFile, Moves
  <2>2. CASE h \in Objects /\ Frees(h)
    <3>1. h # NONE /\ cb[h] = "fd" /\ val[h] = d
      BY <1>2, <2>2, FilesAreFiles DEF Inv, IsFd
    <3>2. \A e \in Fds : kernel'[e] = IF e = d THEN NONE ELSE kernel[e]
      BY <2>2, <3>1 DEF Frees, CallbackCloses
    <3>3. h \notin streams /\ streams \subseteq Objects
      BY <3>1 DEF Inv, TypeOK, Pointers, IsFile
    <3>4. NoNewHolders /\ StreamsLive
      BY <1>1, <1>3, <2>2, <3>3 DEF Frees, NoNewHolders, StreamsLive, LiveFd, LiveFile
    <3>5. \A o \in Objects : ~LiveFd(o, d)'
      BY <1>1, <1>3, <1>4, <2>2 DEF Frees, LiveFd, Moves
    <3> QED
      BY <1>1, <2>2, <3>2, <3>4, <3>5 DEF Frees, CallbackCloses
  <2> QED
    BY <1>3, <2>1, <2>2
<1>6. /\ \A e \in Fds : per_fd'[e] = per_fd[e]
      /\ pc'[t] = "close_clear" /\ t_fd'[t] = d
      /\ \A u \in Threads : u # t =>
           pc'[u] = pc[u] /\ t_fd'[u] = t_fd[u] /\ t_file'[u] = t_file[u] /\ t_obj'[u] = t_obj[u]
  BY <1>1, <1>3 DEF Moves
<1> HIDE DEF d, h
<1> QED
  BY <1>1, <1>3, <1>5, <1>6, ClosingSane DEF d

LEMMA CloseClearSane ==
  ASSUME Inv, Sane, ~orphaned, NEW t \in Threads, CloseClear(t)
  PROVE  Sane'
<1> USE DEF fileVars, regVars, progVars, histVars
<1>1. /\ t_fd[t] \in Fds /\ Moves(t, "close_fd", t_fd[t], NONE, NONE)
      /\ pc[t] = "close_clear" /\ t \in Closers /\ ~Exiting
      /\ \A e \in Fds : per_fd'[e] = IF e = t_fd[t] THEN NONE ELSE per_fd[e]
      /\ UNCHANGED <<kernel, class, fdno, object, cb, val, log_handle, owned, streams, tun_fd,
                     tun_old>>
  BY CloseClearDoes, CallsRun DEF Inv, CloseClear, Closers, Passing
<1>2. NoNewHolders /\ StreamsLive
  BY <1>1 DEF NoNewHolders, StreamsLive, LiveFd, LiveFile
<1>3. \A o \in Objects : ~LiveFd(o, t_fd[t])'
  BY <1>1 DEF Sane, Closings, LiveFd, Moves
<1>4. /\ \A e \in Fds : e # t_fd[t] => kernel'[e] = kernel[e] /\ per_fd'[e] = per_fd[e]
      /\ pc'[t] = "close_fd" /\ t_fd'[t] = t_fd[t]
      /\ \A u \in Threads : u # t =>
           pc'[u] = pc[u] /\ t_fd'[u] = t_fd[u] /\ t_file'[u] = t_file[u] /\ t_obj'[u] = t_obj[u]
  BY <1>1 DEF Moves
<1>5. \A d \in Fds : d = t_fd[t] => \A o \in Objects : ~LiveFd(o, d)'
  BY <1>3, <1>4
<1> QED
  BY <1>1, <1>2, <1>4, <1>5, ClosingSane

LEMMA CloseFdSane ==
  ASSUME Inv, Sane, ~orphaned, NEW t \in Threads, CloseFd(t)
  PROVE  Sane'
<1> USE DEF regVars, glueVars, progVars, histVars
<1>1. /\ t_fd[t] \in Fds /\ Moves(t, "idle", FAILED, NONE, NONE)
      /\ pc[t] = "close_fd" /\ t \in Closers /\ ~Exiting /\ Closes(t_fd[t])
      /\ UNCHANGED <<per_fd, object, cb, val, log_handle, owned, streams, tun_fd, tun_old>>
  BY CloseFdDoes, CallsRun DEF Inv, CloseFd, Closers, Passing
<1>2. NoNewHolders /\ StreamsLive
  BY <1>1 DEF NoNewHolders, StreamsLive, LiveFd, LiveFile
<1>3. \A d \in Fds : d = t_fd[t] => \A o \in Objects : ~LiveFd(o, d)'
  BY <1>1 DEF Sane, Closings, LiveFd
<1>4. /\ \A e \in Fds : e # t_fd[t] => kernel'[e] = kernel[e] /\ per_fd'[e] = per_fd[e]
      /\ kernel'[t_fd[t]] = NONE /\ UNCHANGED <<class, fdno>>
      /\ pc'[t] = "idle"
      /\ \A u \in Threads : u # t =>
           pc'[u] = pc[u] /\ t_fd'[u] = t_fd[u] /\ t_file'[u] = t_file[u] /\ t_obj'[u] = t_obj[u]
  BY <1>1 DEF Moves, Closes
<1> QED
  BY <1>1, <1>2, <1>3, <1>4, ClosingSane

\* close of the epoll descriptor, and the end of fclose.
LEMMA ReturnsSane ==
  ASSUME Inv, EInv, Sane, ~orphaned, mishaps' = {}, NEW t \in Threads,
         CloseEpoll(t) \/ FcloseFree(t)
  PROVE  Sane'
<1> DEFINE h == t_obj[t]
<1>1. /\ h \in Objects \cup {NONE} /\ Moves(t, "idle", FAILED, NONE, NONE)
      /\ pc[t] \in {"epoll_free", "handle_free"} /\ ~Exiting
      /\ UNCHANGED <<owned, streams>> /\ resource_free(h)
  BY CallReturns, CallsRun DEF Inv, CloseEpoll, FcloseFree, progVars
<1>2. /\ UNCHANGED <<per_fd, tun_fd, log_handle, tun_old, cb, val>> /\ mishaps = {}
      /\ KeepsResources \/ (h \in Objects /\ Frees(h))
  BY <1>1, FreeCases DEF Inv
<1>3. /\ NONE \notin Files /\ NONE \notin Objects
      /\ h # NONE => cb[h] = "epoll" \/ (cb[h] = "file" /\ val[h] = NONE)
  BY <1>1, <1>2, FilesAreFiles
     DEF Inv, Pointers, IsFile, EInv, ESound, EpollHeld, EpollLive, Passing
<1>4. UNCHANGED <<kernel, class, fdno>> /\ NoNewHolders /\ StreamsLive
  <2>1. CASE KeepsResources
    BY <1>1, <2>1 DEF KeepsResources, NoNewHolders, StreamsLive, LiveFd, LiveFile
  <2>2. CASE h \in Objects /\ Frees(h)
    <3>1. h \notin streams /\ streams \subseteq Objects
      BY <1>3, <2>2 DEF Inv, TypeOK, Pointers, IsFile
    <3>2. UNCHANGED <<kernel, class, fdno>>
      BY <1>3, <2>2 DEF Frees, CallbackCloses
    <3> QED
      BY <1>1, <1>2, <2>2, <3>1, <3>2 DEF Frees, NoNewHolders, StreamsLive, LiveFd, LiveFile
  <2> QED
    BY <1>2, <2>1, <2>2
<1>5. TunOpen'
  BY <1>1, <1>2, <1>4, TunKept DEF Sane
<1> QED
  BY <1>1, <1>2, <1>4, <1>5, SaneKept DEF Moves

LEMMA FcloseSane ==
  ASSUME Inv, Sane, ~orphaned, NEW t \in Threads, NEW o \in Objects, fclose(t, o)
  PROVE  Sane'
<1> USE DEF fileVars, glueVars, histVars
<1> DEFINE f == val[o]
           d == fdno[f]
<1>1. /\ Moves(t, "handle_free", FAILED, NONE, o) /\ pc[t] = "idle" /\ ~Exiting
      /\ o \in streams /\ IsFile(o) /\ f \in Files /\ val'[o] = NONE
      /\ \A q \in Objects : q # o => val'[q] = val[q]
      /\ streams' = streams \ {o}
      /\ UNCHANGED <<object, cb, per_fd, tun_fd, tun_old, log_handle, owned>>
      /\ f = log_handle => UNCHANGED fileVars
      /\ f # log_handle => Closes(d)
  BY FcloseDoes, CallsRun DEF Inv, fclose, Ready
<1>2. NONE \notin Files
  BY FilesAreFiles DEF Inv
<1>3. NoNewHolders /\ StreamsLive
  BY <1>1, <1>2 DEF NoNewHolders, StreamsLive, LiveFd, LiveFile, IsFile
<1>4. \A u \in Threads :
        pc'[u] # "handle_free" => 
          pc'[u] = pc[u] /\ t_fd'[u] = t_fd[u] /\ t_file'[u] = t_file[u] /\ t_obj'[u] = t_obj[u]
  BY <1>1 DEF Moves
<1>5. CASE f = log_handle
  <2>1. TunOpen'
    BY <1>1, <1>5, TunKept DEF Sane
  <2> QED
    BY <1>1, <1>3, <1>4, <1>5, <2>1, SaneKept
<1>6. CASE f # log_handle
  <2>1. LiveFile(o, f)
    BY <1>1 DEF Sane, Streams, LiveFile, IsFile
  <2>2. /\ class[f] = "stream" /\ d \in Fds /\ kernel[d] = f
        /\ \A q \in Objects : LiveFile(q, f) => q = o
    BY <1>1, <1>6, <2>1 DEF Sane, FileRes, Open
  <2>3. UNCHANGED <<class, fdno>> /\ \A e \in Fds : kernel'[e] = IF e = d THEN NONE ELSE kernel[e]
    BY <1>1, <1>6 DEF Closes
  <2>4. \A q \in Objects : ~(object'[q] = "live" /\ cb'[q] = "file" /\ val'[q] = f)
    BY <1>1, <1>2, <2>2 DEF LiveFile
  <2> HIDE DEF d, f
  <2>5. \A g \in Files : Open(g) /\ g # f => Open(g)'
    BY <2>2, <2>3 DEF Open
  <2>6. FdRes'
    BY <1>1, <1>3, <2>2, <2>3 DEF Sane, FdRes, NoNewHolders, OpenAt
  <2>7. FileRes'
    BY <1>1, <1>3, <2>3, <2>4, <2>5 DEF Sane, FileRes, NoNewHolders, LiveFile
  <2>8. LogOpen'
    <3>1. log_handle # NONE => Open(log_handle)'
      BY <1>1, <1>6, <2>5 DEF Inv, TypeOK, Sane, LogOpen
    <3>2. \A e \in Fds : OpenAt(e, {"log"})' => OpenAt(e, {"log"}) /\ kernel'[e] = kernel[e]
      BY <2>3 DEF OpenAt
    <3> QED
      BY <1>1, <3>1, <3>2 DEF Sane, LogOpen, Open
  <2>9. Owned'
    <3>1. f \notin owned
      BY <1>1, <2>2 DEF Sane, Owned
    <3>2. \A u \in Busy' : u \in Busy /\ t_fd'[u] = t_fd[u]
      BY <1>4 DEF Busy, Closers, Passing
    <3> QED
      BY <1>1, <2>3, <2>5, <3>1, <3>2 DEF Inv, TypeOK, Sane, Owned, Open
  <2>10. Streams' /\ TunOpen'
    BY <1>1, <1>3, <2>3, TunKept DEF Sane, Streams, StreamsLive
  <2>11. Trackers'
    <3> SUFFICES ASSUME NEW u \in Threads, pc'[u] = "track"
                 PROVE  /\ kernel'[t_fd'[u]] = t_file'[u] /\ class'[t_file'[u]] \in {"plain", "tun"}
                        /\ \A q \in Objects : ~LiveFd(q, t_fd[u])'
      BY DEF Trackers, Passing, LiveFd
    <3>1. /\ pc[u] = "track" /\ t_fd'[u] = t_fd[u] /\ t_file'[u] = t_file[u] /\ t_fd[u] \in Fds
          /\ kernel[t_fd[u]] = t_file[u] /\ class[t_file[u]] \in {"plain", "tun"}
          /\ \A q \in Objects : ~LiveFd(q, t_fd[u])
      BY <1>4 DEF Sane, Trackers, Inv, Locals, Passing
    <3>2. t_fd[u] # d
      BY <2>2, <3>1
    <3> QED
      BY <1>3, <2>3, <3>1, <3>2 DEF NoNewHolders, LiveFd
  <2>12. FileTrackers'
    <3> SUFFICES ASSUME NEW u \in Threads, pc'[u] = "track_file", t_file'[u] # log_handle
                 PROVE  /\ class'[t_file'[u]] = "stream" /\ Open(t_file[u])'
                        /\ \A q \in Objects : ~LiveFile(q, t_file[u])'
                        /\ \A v \in Passing({"track_file"})' : t_file'[v] = t_file'[u] => v = u
      BY <1>1 DEF FileTrackers, Passing, LiveFile, Open
    <3>1. \A v \in Threads : pc'[v] = "track_file" =>
            pc[v] = "track_file" /\ t_file'[v] = t_file[v] /\ t_file[v] \in Files
      BY <1>4 DEF Inv, Locals, Passing
    <3>2. /\ class[t_file[u]] = "stream" /\ Open(t_file[u])
          /\ \A q \in Objects : ~LiveFile(q, t_file[u])
          /\ \A v \in Passing({"track_file"}) : t_file[v] = t_file[u] => v = u
      BY <3>1 DEF Sane, FileTrackers, Passing
    <3>3. t_file[u] # f
      BY <2>1, <3>2
    <3>4. Open(t_file[u])'
      BY <2>5, <3>1, <3>2, <3>3 DEF Open
    <3>5. \A q \in Objects : ~LiveFile(q, t_file[u])'
      BY <1>3, <3>1, <3>2 DEF NoNewHolders, LiveFile
    <3>6. \A v \in Passing({"track_file"})' : t_file'[v] = t_file'[u] => v = u
      BY <3>1, <3>2 DEF Passing
    <3> QED
      BY <2>3, <3>1, <3>2, <3>4, <3>5, <3>6
  <2>13. Closings'
    <3> SUFFICES ASSUME NEW u \in Closers'
                 PROVE  /\ kernel'[t_fd'[u]] # NONE =>
                             class'[kernel'[t_fd'[u]]] \in {"plain", "tun", "conn"}
                        /\ pc'[u] = "close_free" => t_obj'[u] = per_fd'[t_fd'[u]]
                        /\ pc'[u] # "close_free" => \A q \in Objects : ~LiveFd(q, t_fd[u])'
      BY DEF Closings, LiveFd
    <3>1. /\ u \in Closers /\ t_fd[u] \in Fds
          /\ pc'[u] = pc[u] /\ t_fd'[u] = t_fd[u] /\ t_obj'[u] = t_obj[u]
      BY <1>4 DEF Inv, Locals, Closers, Passing
    <3> QED
      BY <1>1, <1>3, <2>3, <3>1 DEF Sane, Closings, NoNewHolders, LiveFd
  <2>14. Apart'
    BY <1>4 DEF Sane, Apart, Busy, Closers, Passing
  <2> QED
    BY <2>6, <2>7, <2>8, <2>9, <2>10, <2>11, <2>12, <2>13, <2>14 DEF Sane
<1> QED
  BY <1>5, <1>6

LEMMA CloseKeepsSane ==
  ASSUME Inv, EInv, Sane, NEW t \in Threads, CloseStep(t), ~orphaned, mishaps' = {}
  PROVE  Sane'
<1>1. CASE BeginCloseEpoll(t)
  <2> USE DEF fileVars, regVars, glueVars, thVars, progVars
  <2>1. NoNewHolders /\ StreamsLive
    BY <1>1 DEF BeginCloseEpoll, NoNewHolders, StreamsLive, LiveFd, LiveFile
  <2>2. /\ \A u \in Threads : pc'[u] # "epoll_free" =>
             /\ pc'[u] = pc[u] /\ t_fd'[u] = t_fd[u]
             /\ t_file'[u] = t_file[u] /\ t_obj'[u] = t_obj[u]
        /\ Exiting => Exiting'
    BY <1>1, BeginCloseEpollDoes, DescriptorsAssumption
       DEF Inv, BeginCloseEpoll, Ready, Moves, Exiting
  <2>3. TunOpen'
    BY <1>1, <2>2, TunKept DEF BeginCloseEpoll, Sane
  <2> QED
    BY <1>1, <2>1, <2>2, <2>3, SaneKept DEF BeginCloseEpoll
<1> QED
  BY <1>1, BeginCloseSane, CloseFreeSane, CloseClearSane, CloseFdSane, ReturnsSane, FcloseSane
     DEF CloseStep

\* A released resource takes its own file along and no other.
LEMMA ReleaseSane ==
  ASSUME Inv, Sane, NEW o \in Objects, Frees(o), UNCHANGED per_fd
  PROVE  FdRes' /\ FileRes' /\ LogOpen'
<1>1. /\ object[o] = "live" /\ UNCHANGED <<cb, val, log_handle, class, fdno>>
      /\ \A q \in Objects, d \in Fds : LiveFd(q, d)' => q # o /\ LiveFd(q, d)
      /\ \A q \in Objects, f \in Files : LiveFile(q, f)' => q # o /\ LiveFile(q, f)
  BY DEF Frees, CallbackCloses, LiveFd, LiveFile
<1>2. CASE cb[o] = "fd" /\ val[o] \in Fds
  <2>1. LiveFd(o, val[o])
    BY <1>1, <1>2 DEF LiveFd
  <2>2. OpenAt(val[o], {"plain", "tun"}) /\ per_fd[val[o]] = o
        /\ \A d \in Fds : kernel'[d] = IF d = val[o] THEN NONE ELSE kernel[d]
    BY <1>2, <2>1 DEF Sane, FdRes, Frees, CallbackCloses
  <2>3. \A f \in Files : Open(f) /\ class[f] \in {"stream", "log"} => Open(f)'
    BY <1>1, <1>2, <2>2 DEF Open, OpenAt
  <2>4. FdRes'
    BY <1>1, <2>2 DEF Sane, FdRes, OpenAt
  <2>5. FileRes'
    BY <1>1, <2>3 DEF Sane, FileRes
  <2>6. log_handle # NONE => Open(log_handle)'
    BY <1>1, <2>3 DEF Inv, TypeOK, Placed, Sane, LogOpen, Open
  <2>7. \A d \in Fds : OpenAt(d, {"log"})' => OpenAt(d, {"log"}) /\ kernel'[d] = kernel[d]
    BY <1>1, <2>2 DEF OpenAt
  <2> QED
    BY <1>1, <2>4, <2>5, <2>6, <2>7 DEF Sane, LogOpen, Open
<1>3. CASE cb[o] = "file" /\ val[o] \notin {NONE, log_handle}
  <2> DEFINE f == val[o]
  <2>1. f \in Files /\ LiveFile(o, f)
    BY <1>1, <1>3 DEF Inv, Pointers, LiveFile
  <2>2. /\ class[f] = "stream" /\ fdno[f] \in Fds /\ kernel[fdno[f]] = f
        /\ \A q \in Objects : LiveFile(q, f) => q = o
        /\ \A d \in Fds : kernel'[d] = IF d = fdno[f] THEN NONE ELSE kernel[d]
    BY <1>3, <2>1 DEF Sane, FileRes, Open, Frees, CallbackCloses, Closes
  <2> HIDE DEF f
  <2>3. \A g \in Files : Open(g) /\ g # f => Open(g)'
    BY <1>1, <2>2 DEF Open
  <2>4. FdRes'
    BY <1>1, <2>2 DEF Sane, FdRes, OpenAt
  <2>5. FileRes'
    BY <1>1, <2>2, <2>3 DEF Sane, FileRes
  <2>6. log_handle # NONE => Open(log_handle)'
    BY <1>1, <2>2, <2>3 DEF Inv, TypeOK, Placed, Sane, LogOpen, Open
  <2>7. \A d \in Fds : OpenAt(d, {"log"})' => OpenAt(d, {"log"}) /\ kernel'[d] = kernel[d]
    BY <1>1, <2>2 DEF OpenAt
  <2> QED
    BY <1>1, <2>4, <2>5, <2>6, <2>7 DEF Sane, LogOpen, Open
<1>4. CASE \A d \in Fds : kernel'[d] = kernel[d]
  BY <1>1, <1>4 DEF Inv, TypeOK, Sane, FdRes, FileRes, LogOpen, OpenAt, Open
<1>5. cb[o] \in {"fd", "file", "epoll"}
  BY DEF Inv, TypeOK
<1> QED
  BY <1>2, <1>3, <1>4, <1>5 DEF Frees, CallbackCloses

LEMMA ExitKeepsSane ==
  ASSUME Inv, Sane, ~orphaned', ExitStep
  PROVE  Sane'
<1> USE DescriptorsAssumption DEF fileVars, glueVars, thVars, progVars, histVars
<1>1. UNCHANGED <<object, cb, val, streams>> => NoNewHolders /\ StreamsLive
  BY DEF NoNewHolders, StreamsLive, LiveFd, LiveFile
<1>2. CASE BeginExit
  <2>1. Exiting' /\ \A u \in Threads : pc'[u] # "collect" =>
                      pc'[u] = pc[u] /\ t_fd'[u] = t_fd[u] /\ t_file'[u] = t_file[u]
                      /\ t_obj'[u] = t_obj[u]
    BY <1>2, BeginExitDoes DEF Inv, Moves, Exiting
  <2>2. TunOpen'
    BY <2>1 DEF TunOpen
  <2> QED
    BY <1>1, <1>2, <2>1, <2>2, SaneKept DEF BeginExit
<1>3. ASSUME NEW o \in Objects, Collect(o)
      PROVE  Sane'
  <2>1. /\ Frees(o) /\ Exiting /\ Exiting' /\ ~orphaned
        /\ UNCHANGED <<per_fd, pc>>
    BY <1>3, CollectDoes DEF Inv, Collect, Exiting, Frees
  <2>2. \A u \in Threads : pc'[u] \in {"idle", "collect"}
    BY <2>1, ExitAlone DEF Inv, Exiting
  <2>3. FdRes' /\ FileRes' /\ LogOpen'
    BY <2>1, ReleaseSane
  <2> QED
    BY <2>1, <2>2, <2>3
       DEF Sane, Owned, Streams, TunOpen, Trackers, FileTrackers, Closings, Apart, Busy, Closers,
           Passing
<1>4. CASE EndExit
  <2>1. /\ Exiting /\ ~orphaned /\ UNCHANGED <<kernel, class, fdno, object, log_handle, tun_fd>>
        /\ \A o \in Objects : object[o] # "live"
        /\ tun_old' = (tun_fd # FAILED)
    BY <1>4 DEF EndExit, R!Exit
  <2>2. owned' = {} /\ streams' = {}
    BY <1>4, <2>1 DEF EndExit, Inv, Positions
  <2>3. \A u \in Threads : pc'[u] = "idle"
    BY <1>4, <2>1, EndExitDoes, ExitAlone DEF Inv, Moves
  <2>4. FdRes' /\ FileRes' /\ LogOpen'
    BY <2>1 DEF Sane, FdRes, FileRes, LogOpen, LiveFd, LiveFile, OpenAt, Open
  <2>5. Owned' /\ Streams' /\ TunOpen'
    BY <2>1, <2>2 DEF Owned, Streams, TunOpen
  <2> QED
    BY <2>3, <2>4, <2>5
       DEF Sane, Trackers, FileTrackers, Closings, Apart, Busy, Closers, Passing
<1>5. CASE Restart
  <2>1. UNCHANGED object
    BY <1>5 DEF Restart, R!Start
  <2> QED
    BY <1>1, <1>5, <2>1, SaneKept, TunKept DEF Restart, Sane, Exiting
<1> QED
  BY <1>2, <1>3, <1>4, <1>5 DEF ExitStep

LEMMA SInvInit == Init => SInv
BY DEF Init, R!Init, SInv, Sane, FdRes, FileRes, LogOpen, Owned, Streams, TunOpen, Trackers,
   FileTrackers, Closings, Apart, Busy, Closers, Passing, LiveFd, LiveFile, OpenAt, NONE, FAILED

LEMMA SInvNext == Inv /\ EInv /\ SInv /\ Next => SInv'
<1> SUFFICES ASSUME Inv, EInv, SInv, Next, Sound'  PROVE Sane'
  BY DEF SInv
<1>1. ~orphaned /\ mishaps' = {} /\ ~orphaned' /\ Sane
  BY HistoryGrows DEF Inv, SInv, Sound
<1>2. ASSUME NEW t \in Threads, ThreadStep(t)
      PROVE  Sane'
  <2> USE DEF fileVars, regVars, glueVars, thVars, histVars
  <2>1. UNCHANGED <<object, cb, val, streams, kernel, class, fdno, log_handle, per_fd, owned,
                    tun_fd, tun_old, pc, t_fd, t_file, t_obj>>
    BY <1>2 DEF ThreadStep, pthread_create, pthread_exit
  <2>2. NoNewHolders /\ StreamsLive
    BY <2>1 DEF NoNewHolders, StreamsLive, LiveFd, LiveFile
  <2> QED
    BY <1>1, <2>1, <2>2, SaneKept, TunKept DEF Sane, Exiting
<1> QED
  BY <1>1, <1>2, OpensKeepSane, CloseKeepsSane, ExitKeepsSane DEF Next

LEMMA SInvAlways == Spec => [](Inv /\ SInv)
<1>1. SInv /\ UNCHANGED vars => SInv'
  BY DEF SInv, Sound, Sane, FdRes, FileRes, LogOpen, Owned, Streams, TunOpen, Trackers,
     FileTrackers, Closings, Apart, Busy, Closers, Passing, LiveFd, LiveFile, OpenAt, Open, Exiting,
     vars, fileVars, regVars, glueVars, thVars, progVars, histVars
<1> QED
  BY <1>1, InvNext, SInvInit, SInvNext, EInvAlways, PTL DEF Spec

\* glue.c: each file the program has open stays open until it closes it, for any number of
\* threads, files and runs: no call on another descriptor or stream, and no earlier run,
\* closes it, before a mishap has happened or an exit has left threads behind.
THEOREM OwnedStaysOpen == Spec => []StillOpen
<1>1. SInv => StillOpen
  BY DEF SInv, Sane, Owned, Open, StillOpen
<1> QED
  BY <1>1, SInvAlways, PTL

\* glue.c: the streams of the program, and the log, which every run shares, stay open, and
\* the log is opened once, for any number of threads, files and runs, until then.
THEOREM StreamsStayOpen == Spec => []StreamsOpen
<1>1. ASSUME Inv, SInv
      PROVE  StreamsOpen
  <2> SUFFICES ASSUME Sane
               PROVE  /\ Cardinality({d \in Fds : kernel[d] # NONE /\ class[kernel[d]] = "log"}) <= 1
                      /\ log_handle # NONE => kernel[fdno[log_handle]] = log_handle
                      /\ ~Exiting => \A o \in streams :
                           val[o] \in Files /\ kernel[fdno[val[o]]] = val[o]
    BY <1>1 DEF SInv, StreamsOpen
  <2>1. TypeOK /\ Placed /\ Pointers
    BY <1>1 DEF Inv
  <2>2. Cardinality({d \in Fds : kernel[d] # NONE /\ class[kernel[d]] = "log"}) <= 1
    <3> DEFINE D == {d \in Fds : kernel[d] # NONE /\ class[kernel[d]] = "log"}
    <3>1. \A d \in D : d = fdno[log_handle]
      BY <2>1 DEF Sane, LogOpen, OpenAt, Placed
    <3>2. D \subseteq {fdno[log_handle]}
      BY <3>1
    <3>3. IsFiniteSet({fdno[log_handle]}) /\ Cardinality({fdno[log_handle]}) = 1
      BY FS_Singleton
    <3>4. Cardinality(D) <= Cardinality({fdno[log_handle]})
      BY <3>2, <3>3, FS_Subset
    <3> QED
      BY <3>3, <3>4
  <2>3. log_handle # NONE => kernel[fdno[log_handle]] = log_handle
    BY DEF Sane, LogOpen, Open
  <2>4. ASSUME ~Exiting, NEW o \in streams
        PROVE  val[o] \in Files /\ kernel[fdno[val[o]]] = val[o]
    <3>1. o \in Objects /\ val[o] \in Files /\ LiveFile(o, val[o])
      BY <2>1, <2>4 DEF Sane, Streams, Pointers, IsFile, LiveFile, TypeOK
    <3>2. CASE val[o] = log_handle
      BY <2>1, <2>3, <3>1, <3>2, FilesAreFiles
    <3>3. CASE val[o] # log_handle
      BY <3>1, <3>3 DEF Sane, FileRes, Open
    <3> QED
      BY <3>1, <3>2, <3>3
  <2> QED
    BY <2>2, <2>3, <2>4
<1> QED
  BY <1>1, SInvAlways, PTL

\* glue.c: tun_fd, by which read and write know the tun device, is the descriptor of an
\* open tun device, in every run, while it is not what an earlier run has left there and
\* until a mishap, for any number of threads.
THEOREM TunStaysTun == Spec => []TunNamesTun
<1>1. ASSUME Inv, SInv
      PROVE  TunNamesTun
  <2> SUFFICES ASSUME Sane, ~Exiting, ~tun_old, tun_fd # FAILED
               PROVE  kernel[tun_fd] # NONE /\ class[kernel[tun_fd]] = "tun"
    BY <1>1 DEF SInv, TunNamesTun
  <2>1. PICK f \in owned : class[f] = "tun" /\ fdno[f] = tun_fd
    BY DEF Sane, TunOpen
  <2>2. f \in Files /\ kernel[tun_fd] = f
    BY <1>1, <2>1 DEF Inv, TypeOK, Sane, Owned, Open
  <2> QED
    BY <1>1, <2>1, <2>2, FilesAreFiles DEF Inv
<1> QED
  BY <1>1, SInvAlways, PTL
=============================================================================
