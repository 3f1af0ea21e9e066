--------------------------- MODULE TunDriverProofs ---------------------------
(***************************************************************************)
(* Proofs about the kernel tun driver, for any number of slots, threads,    *)
(* files and opens.  What concerns units holds until malloc has handed out  *)
(* the memory of a freed opaque whose destructor has still to read idx.     *)
(***************************************************************************)
EXTENDS TunDriver, TLAPS

-----------------------------------------------------------------------------
(* The inductive invariant *)

NewPCs == {"acquire_idx", "opaque_alloc"}
\* A thread here is the only one that created, or is destroying, its opaque.
OwnPCs == OpenPCs \cup DtorPCs \cup {"release_idx"}
\* The opaque is not in ifaces[]: not yet published, or already cleared.
HiddenPCs == {"set_softc", "release_iface", "dtor_flock", "dtor_detach"}

\* The locals a thread needs at its position have been set.
Locals ==
  \A t \in Threads :
    /\ pc[t] \in NewPCs \cup OpenPCs => t_if[t] \in Ids /\ t_file[t] \in Files
    /\ pc[t] \in OwnPCs \cup FilePCs \cup {"out_lock", "out_send"} => t_op[t] \in Ids
    /\ pc[t] \in OutPCs \cup {"bcast_addr"} => t_if[t] \in Ids
    /\ pc[t] \in OpenPCs \cup {"opaque_alloc", "bcast_acquire", "bcast_addr"}
         => t_slot[t] \in Slots
    /\ pc[t] = "idle" => t_slot[t] = NoSlot

\* An opaque that is being created or destroyed belongs to one thread, an opaque
\* that is open to one file.
Ownership ==
  /\ \A t, u \in Threads :
       t # u /\ pc[t] \in OwnPCs /\ pc[u] \in OwnPCs => t_op[t] # t_op[u]
  /\ \A t \in Threads, f \in Files : pc[t] \in OwnPCs => fpriv[f] # t_op[t]
  /\ \A f, g \in Files : f # g /\ fpriv[f] # NULL => fpriv[f] # fpriv[g]

\* The state of an opaque follows its owner's position.
Lifecycle ==
  /\ \A t \in Threads :
       /\ pc[t] \in OwnPCs \ {"dtor_unlock", "dtor_free", "release_idx"}
            => state[t_op[t]] = "live"
       /\ pc[t] \in {"dtor_unlock", "dtor_free"} => state[t_op[t]] = "closed"
       /\ pc[t] = "release_idx" => state[t_op[t]] = "freed"
  /\ \A f \in Files : fpriv[f] # NULL => state[fpriv[f]] = "live"

\* Opaque c has slot idx[c] until release_idx.
Owning(c) ==
  state[c] \in Holding \/ \E t \in Threads : pc[t] = "release_idx" /\ t_op[t] = c

\* Slots in use are partitioned between the opaques that own one and the threads
\* between acquire_idx and opaque_alloc.
SlotOwners ==
  /\ \A c \in Ids : Owning(c) => used[idx[c]] = 1
  /\ \A c, d \in Ids : c # d /\ Owning(c) /\ Owning(d) => idx[c] # idx[d]
  /\ \A t \in Threads : pc[t] = "opaque_alloc" =>
       /\ used[t_slot[t]] = 1
       /\ \A c \in Ids : Owning(c) => idx[c] # t_slot[t]
       /\ \A u \in Threads \ {t} : pc[u] = "opaque_alloc" => t_slot[u] # t_slot[t]
  /\ \A t \in Threads : pc[t] \in OpenPCs => idx[t_op[t]] = t_slot[t]

\* The ifnet of a tun_open in progress is used by nobody else.
Fresh ==
  /\ \A n \in Ids : n > nopen => state[n] = "none" /\ ifstate[n] = "none"
  /\ \A t \in Threads : pc[t] \in NewPCs =>
       /\ t_if[t] <= nopen
       /\ state[t_if[t]] = "none" /\ ifstate[t_if[t]] = "none"
       /\ \A u \in Threads \ {t} : pc[u] \in NewPCs => t_if[u] # t_if[t]

\* Live opaques have their own attached interfaces.
LiveIfaces ==
  /\ \A c \in Ids : state[c] = "live" =>
       iface[c] \in Ids /\ ifstate[iface[c]] = "attached"
  /\ \A c, d \in Ids :
       c # d /\ state[c] = "live" /\ state[d] = "live" => iface[c] # iface[d]

Published(c) ==
  /\ state[c] = "live"
  /\ \A t \in Threads : pc[t] \in HiddenPCs => t_op[t] # c

\* ifaces[] holds the interfaces of the published opaques, or the token.
Table ==
  /\ \A c \in Ids : Published(c) => ifaces[idx[c]] \in {iface[c], IFACE_ACQUIRED}
  /\ \A i \in Slots : ifaces[i] # NULL => \E c \in Ids : Published(c) /\ idx[c] = i

\* Thread t has the token of slot i, to broadcast or to destroy.
BroadcastHolds(t, i) == t_slot[t] = i /\ pc[t] \in OutPCs \cup {"bcast_addr"}
DtorHolds(t, i) == pc[t] = "dtor_clear" /\ idx[t_op[t]] = i
Holds(t, i) == BroadcastHolds(t, i) \/ DtorHolds(t, i)

\* The token of a slot has one holder, and a broadcaster remembers what to put back.
Token ==
  /\ \A i \in Slots : ifaces[i] = IFACE_ACQUIRED => \E t \in Threads : Holds(t, i)
  /\ \A i \in Slots, t \in Threads : Holds(t, i) => ifaces[i] = IFACE_ACQUIRED
  /\ \A i \in Slots, t, u \in Threads : Holds(t, i) /\ Holds(u, i) => t = u
  /\ \A i \in Slots, t \in Threads, c \in Ids :
       BroadcastHolds(t, i) /\ Published(c) /\ idx[c] = i => t_if[t] = iface[c]

TypeInv == TypeOK /\ Locals
UnitInv == TypeInv /\ Ownership /\ Lifecycle /\ SlotOwners /\ Fresh /\ LiveIfaces
IfaceInv == UnitInv /\ Table /\ Token

-----------------------------------------------------------------------------
(* Type correctness.  TypeOK is split into what threads share and what is theirs. *)

SharedTypes ==
  /\ used \in [Slots -> {0, 1}]
  /\ ifaces \in [Slots -> Ids \cup {NULL, IFACE_ACQUIRED}]
  /\ state \in [Ids -> {"none", "live", "closed", "freed"}]
  /\ idx \in [Ids -> Slots]
  /\ lock \in [Ids -> Threads \cup {NoThread}]
  /\ free_lock \in [Ids -> {0, 1}]
  /\ rcv \in [Ids -> 0 .. SockBuf]
  /\ iface \in [Ids -> Ids \cup {NULL}]
  /\ ifstate \in [Ids -> {"none", "attached", "freed"}]
  /\ if_softc \in [Ids -> Ids \cup {NULL}]
  /\ fpriv \in [Files -> Ids \cup {NULL}]
  /\ nopen \in 0 .. MaxOpens
  /\ idx_lost \in BOOLEAN
  /\ panic \in BOOLEAN

ThreadTypes ==
  /\ pc \in [Threads -> PCs]
  /\ t_slot \in [Threads -> 0 .. NSlots]
  /\ t_file \in [Threads -> Files \cup {NoFile}]
  /\ t_op \in [Threads -> Ids \cup {NULL}]
  /\ t_if \in [Threads -> Ids \cup {NULL}]
  /\ t_left \in [Threads -> 0 .. MaxAddrs]

ThreadInv == ThreadTypes /\ Locals

LEMMA SplitTypes == TypeInv <=> SharedTypes /\ ThreadInv
BY DEF TypeInv, TypeOK, SharedTypes, ThreadTypes, ThreadInv

\* The three ways a handler ends keep the locals typed.
LEMMA ReturnTyped == ASSUME ThreadInv, NEW t \in Threads, Return(t) PROVE ThreadInv'
<1> USE TunAssumption DEF Return, Goto, ThreadInv, ThreadTypes, NoSlot, NULL
<1>1. ThreadTypes'
  BY DEF PCs
<1>2. Locals'
  BY DEF Locals, NewPCs, OwnPCs, OpenPCs, DtorPCs, OutPCs, FilePCs
<1> QED
  BY <1>1, <1>2

LEMMA OutputReturnTyped ==
  ASSUME ThreadInv, NEW t \in Threads, pc[t] \in OutPCs, OutputReturn(t)
  PROVE  ThreadInv'
<1>1. CASE t_slot[t] = NoSlot
  BY <1>1, ReturnTyped DEF OutputReturn
<1>2. CASE t_slot[t] # NoSlot
  <2> USE <1>2, TunAssumption DEF OutputReturn, Goto, ThreadInv, ThreadTypes, NoSlot, NULL, Slots
  <2>1. ThreadTypes'
    BY DEF PCs, OpenPCs, DtorPCs, OutPCs, FilePCs
  <2>2. Locals'
    BY DEF Locals, NewPCs, OwnPCs, OpenPCs, DtorPCs, OutPCs, FilePCs
  <2> QED
    BY <2>1, <2>2
<1> QED
  BY <1>1, <1>2

LEMMA NextSlotTyped ==
  ASSUME ThreadInv, NEW t \in Threads, t_slot[t] \in Slots, NextSlot(t)
  PROVE  ThreadInv'
<1>1. CASE t_slot[t] + 1 = NSlots
  BY <1>1, ReturnTyped DEF NextSlot
<1>2. CASE t_slot[t] + 1 # NSlots
  <2> USE <1>2, TunAssumption DEF NextSlot, Goto, ThreadInv, ThreadTypes, NoSlot, NULL, Slots
  <2>1. ThreadTypes'
    BY DEF PCs, OpenPCs, DtorPCs, OutPCs, FilePCs
  <2>2. Locals'
    BY DEF Locals, NewPCs, OwnPCs, OpenPCs, DtorPCs, OutPCs, FilePCs
  <2> QED
    BY <2>1, <2>2
<1> QED
  BY <1>1, <1>2

LEMMA SharedTypesStep == TypeInv /\ [Next]_vars => SharedTypes'
<1> SUFFICES ASSUME SharedTypes, ThreadTypes, Locals, [Next]_vars PROVE SharedTypes'
  BY SplitTypes DEF ThreadInv
<1> USE TunAssumption DEF SharedTypes, ThreadTypes, NULL, IFACE_ACQUIRED, slotVars, opVars, ifVars
<1>1. ASSUME NEW t \in Threads, NEW f \in Files, BeginOpen(t, f) PROVE SharedTypes'
  BY <1>1 DEF BeginOpen
<1>2. ASSUME NEW t \in Threads, acquire_idx(t) PROVE SharedTypes'
  BY <1>2 DEF acquire_idx
<1>3. ASSUME NEW t \in Threads, NEW c \in Ids, opaque_alloc(t, c) PROVE SharedTypes'
  BY <1>3 DEF opaque_alloc, Locals, NewPCs, OpenPCs
<1>4. ASSUME NEW t \in Threads, SetSoftc(t) PROVE SharedTypes'
  BY <1>4 DEF SetSoftc, Locals, OwnPCs, OpenPCs
<1>5. ASSUME NEW t \in Threads, PublishIface(t) PROVE SharedTypes'
  BY <1>5 DEF PublishIface, Locals, OwnPCs, OpenPCs
<1>6. ASSUME NEW t \in Threads, SetCdevpriv(t) PROVE SharedTypes'
  BY <1>6 DEF SetCdevpriv, Locals, OwnPCs, OpenPCs
<1>7. ASSUME NEW t \in Threads, NEW f \in Files, NEW label, BeginCall(t, f, label) PROVE SharedTypes'
  BY <1>7 DEF BeginCall
<1>8. ASSUME NEW t \in Threads, TinyLock(t) PROVE SharedTypes'
  BY <1>8 DEF TinyLock, tiny_lock
<1>9. ASSUME NEW t \in Threads, tun_read(t) PROVE SharedTypes'
  BY <1>9 DEF tun_read, Locals, FilePCs, tiny_unlock
<1>10. ASSUME NEW t \in Threads, InterruptRead(t) PROVE SharedTypes'
  BY <1>10 DEF InterruptRead, tiny_unlock
<1>11. ASSUME NEW t \in Threads, tun_poll(t) PROVE SharedTypes'
  BY <1>11 DEF tun_poll, tiny_unlock
<1>12. ASSUME NEW t \in Threads, WriteLock(t) PROVE SharedTypes'
  BY <1>12 DEF WriteLock
<1>13. ASSUME NEW t \in Threads, tun_write(t) PROVE SharedTypes'
  BY <1>13 DEF tun_write
<1>14. ASSUME NEW t \in Threads, NEW f \in Files, BeginClose(t, f) PROVE SharedTypes'
  BY <1>14 DEF BeginClose
<1>15. ASSUME NEW t \in Threads, DtorLock(t) PROVE SharedTypes'
  BY <1>15 DEF DtorLock
<1>16. ASSUME NEW t \in Threads, DtorAcquire(t) PROVE SharedTypes'
  BY <1>16 DEF DtorAcquire, acquire_iface
<1>17. ASSUME NEW t \in Threads, DtorClear(t) PROVE SharedTypes'
  BY <1>17 DEF DtorClear
<1>18. ASSUME NEW t \in Threads, DtorTinyLock(t) PROVE SharedTypes'
  <2>1. 0 \in 0 .. SockBuf
    OBVIOUS
  <2>2. rcv' \in [Ids -> 0 .. SockBuf]
    BY <1>18, <2>1 DEF DtorTinyLock
  <2> QED
    BY <1>18, <2>2 DEF DtorTinyLock, tiny_lock
<1>19. ASSUME NEW t \in Threads, DtorDetach(t) PROVE SharedTypes'
  BY <1>19 DEF DtorDetach, tiny_unlock
<1>20. ASSUME NEW t \in Threads, DtorUnlock(t) PROVE SharedTypes'
  BY <1>20 DEF DtorUnlock
<1>21. ASSUME NEW t \in Threads, DtorFree(t) PROVE SharedTypes'
  BY <1>21 DEF DtorFree
<1>22. ASSUME NEW t \in Threads, release_idx(t) PROVE SharedTypes'
  BY <1>22 DEF release_idx
<1>23. ASSUME NEW t \in Threads, NEW n \in Ids, BeginOutput(t, n) PROVE SharedTypes'
  BY <1>23 DEF BeginOutput
<1>24. ASSUME NEW t \in Threads, OutputSoftc(t) PROVE SharedTypes'
  BY <1>24 DEF OutputSoftc
<1>25. ASSUME NEW t \in Threads, OutputLock(t) PROVE SharedTypes'
  BY <1>25, ZenonT(60) DEF OutputLock
<1>26. ASSUME NEW t \in Threads, tun_output(t) PROVE SharedTypes'
  <2>1. CASE UNCHANGED rcv
    BY <1>26, <2>1 DEF tun_output
  <2>2. CASE /\ rcv[t_op[t]] < SockBuf
             /\ rcv' = [rcv EXCEPT ![t_op[t]] = @ + 1]
    <3>1. t_op[t] \in Ids
      BY <1>26 DEF tun_output, Locals
    <3>2. rcv[t_op[t]] + 1 \in 0 .. SockBuf
      BY <2>2, <3>1
    <3>3. rcv' \in [Ids -> 0 .. SockBuf]
      BY <2>2, <3>2
    <3> QED
      BY <1>26, <3>3 DEF tun_output
  <2> QED
    BY <1>26, <2>1, <2>2 DEF tun_output
<1>27. ASSUME NEW t \in Threads, BeginBroadcast(t) PROVE SharedTypes'
  BY <1>27 DEF BeginBroadcast
<1>28. ASSUME NEW t \in Threads, NEW n \in 0 .. MaxAddrs, BroadcastAcquire(t, n) PROVE SharedTypes'
  BY <1>28 DEF BroadcastAcquire, acquire_iface
<1>29. ASSUME NEW t \in Threads, BroadcastSend(t) PROVE SharedTypes'
  BY <1>29 DEF BroadcastSend
<1>30. ASSUME NEW t \in Threads, release_iface(t) PROVE SharedTypes'
  BY <1>30 DEF release_iface, Locals, OutPCs
<1>31. CASE UNCHANGED vars
  BY <1>31 DEF vars
<1> QED
  BY <1>1, <1>2, <1>3, <1>4, <1>5, <1>6, <1>7, <1>8, <1>9, <1>10, <1>11, <1>12,
     <1>13, <1>14, <1>15, <1>16, <1>17, <1>18, <1>19, <1>20, <1>21, <1>22, <1>23,
     <1>24, <1>25, <1>26, <1>27, <1>28, <1>29, <1>30, <1>31 DEF Next, Begin, Step,
     OpenStep, CallStep, DtorStep, OutputStep, BroadcastStep

LEMMA ThreadInvStep == TypeInv /\ [Next]_vars => ThreadInv'
<1> SUFFICES ASSUME SharedTypes, ThreadTypes, Locals, [Next]_vars PROVE ThreadInv'
  BY SplitTypes DEF ThreadInv
<1> USE TunAssumption DEF ThreadInv
<1>1. ASSUME NEW t \in Threads, NEW f \in Files, BeginOpen(t, f) PROVE ThreadInv'
  <2> USE <1>1 DEF BeginOpen, Goto, Slots, NoSlot, NULL, SharedTypes, ThreadTypes
  <2>0. nopen + 1 \in Ids
    BY DEF Ids
  <2>1. ThreadTypes'
    BY <2>0 DEF PCs
  <2>2. Locals'
    BY <2>0 DEF Locals, NewPCs, OwnPCs, OpenPCs, DtorPCs, OutPCs, FilePCs
  <2> QED
    BY <2>1, <2>2
<1>2. ASSUME NEW t \in Threads, acquire_idx(t) PROVE ThreadInv'
  <2>1. CASE Return(t)
    BY <2>1, ReturnTyped
  <2>2. CASE ~Return(t)
    <3> USE <1>2, <2>2 DEF acquire_idx, Goto, NoSlot, NULL, ThreadTypes
    <3>0. t_slot[t] < NSlots => t_slot[t] \in Slots /\ t_slot[t] + 1 \in 0 .. NSlots
      BY DEF Slots
    <3>1. ThreadTypes'
      BY <3>0 DEF PCs, OpenPCs, DtorPCs, OutPCs, FilePCs
    <3>2. Locals'
      BY <3>0 DEF Locals, NewPCs, OwnPCs, OpenPCs, DtorPCs, OutPCs, FilePCs
    <3> QED
      BY <3>1, <3>2
  <2> QED
    BY <2>1, <2>2
<1>3. ASSUME NEW t \in Threads, NEW c \in Ids, opaque_alloc(t, c) PROVE ThreadInv'
  <2> USE <1>3 DEF opaque_alloc, Goto, Slots, NoSlot, NULL, SharedTypes, ThreadTypes
  <2>1. ThreadTypes'
    BY DEF PCs, OpenPCs, DtorPCs, OutPCs, FilePCs
  <2>2. Locals'
    BY DEF Locals, NewPCs, OwnPCs, OpenPCs, DtorPCs, OutPCs, FilePCs
  <2> QED
    BY <2>1, <2>2
<1>4. ASSUME NEW t \in Threads, SetSoftc(t) PROVE ThreadInv'
  <2> USE <1>4 DEF SetSoftc, Goto, Slots, NoSlot, NULL, SharedTypes, ThreadTypes
  <2>1. ThreadTypes'
    BY DEF PCs, OpenPCs, DtorPCs, OutPCs, FilePCs
  <2>2. Locals'
    BY DEF Locals, NewPCs, OwnPCs, OpenPCs, DtorPCs, OutPCs, FilePCs
  <2> QED
    BY <2>1, <2>2
<1>5. ASSUME NEW t \in Threads, PublishIface(t) PROVE ThreadInv'
  <2> USE <1>5 DEF PublishIface, Goto, Slots, NoSlot, NULL, SharedTypes, ThreadTypes
  <2>1. ThreadTypes'
    BY DEF PCs, OpenPCs, DtorPCs, OutPCs, FilePCs
  <2>2. Locals'
    BY DEF Locals, NewPCs, OwnPCs, OpenPCs, DtorPCs, OutPCs, FilePCs
  <2> QED
    BY <2>1, <2>2
<1>6. ASSUME NEW t \in Threads, SetCdevpriv(t) PROVE ThreadInv'
  BY <1>6, ReturnTyped DEF SetCdevpriv
<1>7. ASSUME NEW t \in Threads, NEW f \in Files, NEW label, BeginCall(t, f, label) PROVE ThreadInv'
  <2> USE <1>7 DEF BeginCall, Goto, Slots, NoSlot, NULL, SharedTypes, ThreadTypes
  <2>1. ThreadTypes'
    BY DEF PCs, OpenPCs, DtorPCs, OutPCs, FilePCs
  <2>2. Locals'
    BY DEF Locals, NewPCs, OwnPCs, OpenPCs, DtorPCs, OutPCs, FilePCs
  <2> QED
    BY <2>1, <2>2
<1>8. ASSUME NEW t \in Threads, TinyLock(t) PROVE ThreadInv'
  <2> USE <1>8 DEF TinyLock, Goto, Slots, NoSlot, NULL, SharedTypes, ThreadTypes
  <2>1. ThreadTypes'
    BY DEF PCs, OpenPCs, DtorPCs, OutPCs, FilePCs
  <2>2. Locals'
    BY DEF Locals, NewPCs, OwnPCs, OpenPCs, DtorPCs, OutPCs, FilePCs
  <2> QED
    BY <2>1, <2>2
<1>9. ASSUME NEW t \in Threads, tun_read(t) PROVE ThreadInv'
  BY <1>9, ReturnTyped DEF tun_read
<1>10. ASSUME NEW t \in Threads, InterruptRead(t) PROVE ThreadInv'
  BY <1>10, ReturnTyped DEF InterruptRead
<1>11. ASSUME NEW t \in Threads, tun_poll(t) PROVE ThreadInv'
  BY <1>11, ReturnTyped DEF tun_poll
<1>12. ASSUME NEW t \in Threads, WriteLock(t) PROVE ThreadInv'
  <2> USE <1>12 DEF WriteLock, Goto, Slots, NoSlot, NULL, SharedTypes, ThreadTypes
  <2>1. ThreadTypes'
    BY DEF PCs, OpenPCs, DtorPCs, OutPCs, FilePCs
  <2>2. Locals'
    BY DEF Locals, NewPCs, OwnPCs, OpenPCs, DtorPCs, OutPCs, FilePCs
  <2> QED
    BY <2>1, <2>2
<1>13. ASSUME NEW t \in Threads, tun_write(t) PROVE ThreadInv'
  BY <1>13, ReturnTyped DEF tun_write
<1>14. ASSUME NEW t \in Threads, NEW f \in Files, BeginClose(t, f) PROVE ThreadInv'
  <2> USE <1>14 DEF BeginClose, Goto, Slots, NoSlot, NULL, SharedTypes, ThreadTypes
  <2>1. ThreadTypes'
    BY DEF PCs, OpenPCs, DtorPCs, OutPCs, FilePCs
  <2>2. Locals'
    BY DEF Locals, NewPCs, OwnPCs, OpenPCs, DtorPCs, OutPCs, FilePCs
  <2> QED
    BY <2>1, <2>2
<1>15. ASSUME NEW t \in Threads, DtorLock(t) PROVE ThreadInv'
  <2> USE <1>15 DEF DtorLock, Goto, Slots, NoSlot, NULL, SharedTypes, ThreadTypes
  <2>1. ThreadTypes'
    BY DEF PCs, OpenPCs, DtorPCs, OutPCs, FilePCs
  <2>2. Locals'
    BY DEF Locals, NewPCs, OwnPCs, OpenPCs, DtorPCs, OutPCs, FilePCs
  <2> QED
    BY <2>1, <2>2
<1>16. ASSUME NEW t \in Threads, DtorAcquire(t) PROVE ThreadInv'
  <2> USE <1>16 DEF DtorAcquire, Goto, Slots, NoSlot, NULL, SharedTypes, ThreadTypes
  <2>1. ThreadTypes'
    BY DEF PCs, OpenPCs, DtorPCs, OutPCs, FilePCs
  <2>2. Locals'
    BY DEF Locals, NewPCs, OwnPCs, OpenPCs, DtorPCs, OutPCs, FilePCs
  <2> QED
    BY <2>1, <2>2
<1>17. ASSUME NEW t \in Threads, DtorClear(t) PROVE ThreadInv'
  <2> USE <1>17 DEF DtorClear, Goto, Slots, NoSlot, NULL, SharedTypes, ThreadTypes
  <2>1. ThreadTypes'
    BY DEF PCs, OpenPCs, DtorPCs, OutPCs, FilePCs
  <2>2. Locals'
    BY DEF Locals, NewPCs, OwnPCs, OpenPCs, DtorPCs, OutPCs, FilePCs
  <2> QED
    BY <2>1, <2>2
<1>18. ASSUME NEW t \in Threads, DtorTinyLock(t) PROVE ThreadInv'
  <2> USE <1>18 DEF DtorTinyLock, Goto, Slots, NoSlot, NULL, SharedTypes, ThreadTypes
  <2>1. ThreadTypes'
    BY DEF PCs, OpenPCs, DtorPCs, OutPCs, FilePCs
  <2>2. Locals'
    BY DEF Locals, NewPCs, OwnPCs, OpenPCs, DtorPCs, OutPCs, FilePCs
  <2> QED
    BY <2>1, <2>2
<1>19. ASSUME NEW t \in Threads, DtorDetach(t) PROVE ThreadInv'
  <2> USE <1>19 DEF DtorDetach, Goto, Slots, NoSlot, NULL, SharedTypes, ThreadTypes
  <2>1. ThreadTypes'
    BY DEF PCs, OpenPCs, DtorPCs, OutPCs, FilePCs
  <2>2. Locals'
    BY DEF Locals, NewPCs, OwnPCs, OpenPCs, DtorPCs, OutPCs, FilePCs
  <2> QED
    BY <2>1, <2>2
<1>20. ASSUME NEW t \in Threads, DtorUnlock(t) PROVE ThreadInv'
  <2> USE <1>20 DEF DtorUnlock, Goto, Slots, NoSlot, NULL, SharedTypes, ThreadTypes
  <2>1. ThreadTypes'
    BY DEF PCs, OpenPCs, DtorPCs, OutPCs, FilePCs
  <2>2. Locals'
    BY DEF Locals, NewPCs, OwnPCs, OpenPCs, DtorPCs, OutPCs, FilePCs
  <2> QED
    BY <2>1, <2>2
<1>21. ASSUME NEW t \in Threads, DtorFree(t) PROVE ThreadInv'
  <2> USE <1>21 DEF DtorFree, Goto, Slots, NoSlot, NULL, SharedTypes, ThreadTypes
  <2>1. ThreadTypes'
    BY DEF PCs, OpenPCs, DtorPCs, OutPCs, FilePCs
  <2>2. Locals'
    BY DEF Locals, NewPCs, OwnPCs, OpenPCs, DtorPCs, OutPCs, FilePCs
  <2> QED
    BY <2>1, <2>2
<1>22. ASSUME NEW t \in Threads, release_idx(t) PROVE ThreadInv'
  BY <1>22, ReturnTyped DEF release_idx
<1>23. ASSUME NEW t \in Threads, NEW n \in Ids, BeginOutput(t, n) PROVE ThreadInv'
  <2> USE <1>23 DEF BeginOutput, Goto, Slots, NoSlot, NULL, SharedTypes, ThreadTypes
  <2>1. ThreadTypes'
    BY DEF PCs, OpenPCs, DtorPCs, OutPCs, FilePCs
  <2>2. Locals'
    BY DEF Locals, NewPCs, OwnPCs, OpenPCs, DtorPCs, OutPCs, FilePCs
  <2> QED
    BY <2>1, <2>2
<1>24. ASSUME NEW t \in Threads, OutputSoftc(t) PROVE ThreadInv'
  <2>1. CASE OutputReturn(t)
    BY <1>24, <2>1, OutputReturnTyped DEF OutputSoftc, OutPCs
  <2>2. CASE ~OutputReturn(t)
    <3> USE <1>24, <2>2 DEF OutputSoftc, Goto, Slots, NoSlot, NULL, SharedTypes, ThreadTypes,
          thVars
    <3>1. ThreadTypes'
      BY DEF Locals, PCs, OpenPCs, DtorPCs, OutPCs, FilePCs
    <3>2. Locals'
      BY DEF Locals, NewPCs, OwnPCs, OpenPCs, DtorPCs, OutPCs, FilePCs
    <3> QED
      BY <3>1, <3>2
  <2> QED
    BY <2>1, <2>2
<1>25. ASSUME NEW t \in Threads, OutputLock(t) PROVE ThreadInv'
  <2>0. UNCHANGED <<t_slot, t_file, t_op, t_if, t_left>>
    BY <1>25 DEF OutputLock
  <2>1. CASE UNCHANGED pc
    BY <2>0, <2>1 DEF ThreadTypes, Locals
  <2>2. CASE pc[t] = "out_lock" /\ Goto(t, "out_send")
    <3> USE <2>0, <2>2 DEF Goto, ThreadTypes
    <3>1. ThreadTypes'
      BY DEF PCs, OutPCs
    <3>2. Locals'
      BY DEF Locals, NewPCs, OwnPCs, OpenPCs, DtorPCs, OutPCs, FilePCs
    <3> QED
      BY <3>1, <3>2
  <2> QED
    BY <1>25, <2>1, <2>2 DEF OutputLock
<1>26. ASSUME NEW t \in Threads, tun_output(t) PROVE ThreadInv'
  BY <1>26, OutputReturnTyped DEF tun_output, thVars, OutPCs, ThreadTypes, Locals
<1>27. ASSUME NEW t \in Threads, BeginBroadcast(t) PROVE ThreadInv'
  <2> USE <1>27 DEF BeginBroadcast, Goto, Slots, NoSlot, NULL, SharedTypes, ThreadTypes
  <2>1. ThreadTypes'
    BY DEF PCs, OpenPCs, DtorPCs, OutPCs, FilePCs
  <2>2. Locals'
    BY DEF Locals, NewPCs, OwnPCs, OpenPCs, DtorPCs, OutPCs, FilePCs
  <2> QED
    BY <2>1, <2>2
<1>28. ASSUME NEW t \in Threads, NEW n \in 0 .. MaxAddrs, BroadcastAcquire(t, n) PROVE ThreadInv'
  <2>1. t_slot[t] \in Slots
    BY <1>28 DEF BroadcastAcquire, Locals
  <2>2. CASE NextSlot(t)
    BY <2>1, <2>2, NextSlotTyped
  <2>3. CASE ~NextSlot(t)
    <3>0. PICK got \in Ids : /\ t_if' = [t_if EXCEPT ![t] = got]
                            /\ t_left' = [t_left EXCEPT ![t] = n]
                            /\ Goto(t, "bcast_addr")
                            /\ UNCHANGED <<t_slot, t_file, t_op>>
      BY <1>28, <2>3 DEF BroadcastAcquire
    <3> USE <3>0 DEF Goto, ThreadTypes
    <3>1. ThreadTypes'
      BY DEF PCs
    <3>2. Locals'
      BY <2>1 DEF Locals, NewPCs, OwnPCs, OpenPCs, DtorPCs, OutPCs, FilePCs
    <3> QED
      BY <3>1, <3>2
  <2> QED
    BY <2>2, <2>3
<1>29. ASSUME NEW t \in Threads, BroadcastSend(t) PROVE ThreadInv'
  <2> USE <1>29 DEF BroadcastSend, Goto, Slots, NoSlot, NULL, SharedTypes, ThreadTypes
  <2>1. ThreadTypes'
    BY DEF PCs, OpenPCs, DtorPCs, OutPCs, FilePCs
  <2>2. Locals'
    BY DEF Locals, NewPCs, OwnPCs, OpenPCs, DtorPCs, OutPCs, FilePCs
  <2> QED
    BY <2>1, <2>2
<1>30. ASSUME NEW t \in Threads, release_iface(t) PROVE ThreadInv'
  <2>1. t_slot[t] \in Slots
    BY <1>30 DEF release_iface, Locals
  <2> QED
    BY <1>30, <2>1, NextSlotTyped DEF release_iface
<1>31. CASE UNCHANGED vars
  BY <1>31 DEF vars, thVars, ThreadTypes, Locals
<1> QED
  BY <1>1, <1>2, <1>3, <1>4, <1>5, <1>6, <1>7, <1>8, <1>9, <1>10, <1>11, <1>12,
     <1>13, <1>14, <1>15, <1>16, <1>17, <1>18, <1>19, <1>20, <1>21, <1>22, <1>23,
     <1>24, <1>25, <1>26, <1>27, <1>28, <1>29, <1>30, <1>31 DEF Next, Begin, Step,
     OpenStep, CallStep, DtorStep, OutputStep, BroadcastStep

LEMMA TypeInvInvariant == Spec => []TypeInv
<1>1. Init => TypeInv
  <2> SUFFICES ASSUME Init PROVE TypeInv
    OBVIOUS
  <2> USE TunAssumption DEF Init, NULL, Slots, NoSlot
  <2>0. 0 \in Slots /\ 0 \in 0 .. SockBuf /\ 0 \in 0 .. MaxOpens
    OBVIOUS
  <2>1. SharedTypes
    BY <2>0 DEF SharedTypes
  <2>2. ThreadTypes
    BY DEF ThreadTypes, PCs
  <2>3. Locals
    BY DEF Locals, NewPCs, OwnPCs, OpenPCs, DtorPCs, OutPCs, FilePCs
  <2> QED
    BY <2>1, <2>2, <2>3, SplitTypes DEF ThreadInv
<1>2. TypeInv /\ [Next]_vars => TypeInv'
  <2>1. TypeInv' <=> SharedTypes' /\ ThreadInv'
    BY DEF TypeInv, TypeOK, SharedTypes, ThreadTypes, ThreadInv
  <2> QED
    BY <2>1, SharedTypesStep, ThreadInvStep
<1> QED
  BY <1>1, <1>2, PTL DEF Spec

\* Every variable keeps its type, whatever order the threads, the IP stack and
\* devfs enter the driver in, also when malloc reuses the memory of an opaque early.
THEOREM TypeCorrect == Spec => []TypeOK
BY TypeInvInvariant, PTL DEF TypeInv

-----------------------------------------------------------------------------
(* Units.  Most steps do not touch who owns what: they are quiet (a thread that  *)
(* neither creates nor destroys an opaque) or an owner's advance.                *)

\* Only thread t moves.
Frame(t) ==
  \A u \in Threads \ {t} :
    pc'[u] = pc[u] /\ t_op'[u] = t_op[u] /\ t_if'[u] = t_if[u] /\ t_slot'[u] = t_slot[u]

unitVars == <<used, state, idx, fpriv, nopen, ifstate, iface>>

Quiet(t) ==
  /\ Frame(t)
  /\ pc[t] \notin OwnPCs \cup NewPCs /\ pc'[t] \notin OwnPCs \cup NewPCs
  /\ UNCHANGED unitVars

ClosedPCs == {"dtor_unlock", "dtor_free"}

Advance(t) ==
  /\ Frame(t)
  /\ \/ pc[t] \in OpenPCs /\ pc'[t] \in OpenPCs
     \/ pc[t] \in DtorPCs \ ClosedPCs /\ pc'[t] \in DtorPCs \ ClosedPCs
     \/ pc[t] \in ClosedPCs /\ pc'[t] \in ClosedPCs
  /\ t_op'[t] = t_op[t] /\ t_slot'[t] = t_slot[t]
  /\ UNCHANGED unitVars

LEMMA ReturnFrame ==
  ASSUME ThreadTypes, NEW t \in Threads, Return(t)
  PROVE  Frame(t) /\ pc'[t] = "idle"
BY DEF Return, Goto, Frame, ThreadTypes

LEMMA OutputReturnFrame ==
  ASSUME ThreadTypes, NEW t \in Threads, OutputReturn(t)
  PROVE  Frame(t) /\ pc'[t] \in {"idle", "bcast_addr"}
BY ReturnFrame DEF OutputReturn, Goto, Frame, ThreadTypes

LEMMA NextSlotFrame ==
  ASSUME ThreadTypes, NEW t \in Threads, NextSlot(t)
  PROVE  Frame(t) /\ pc'[t] \in {"idle", "bcast_acquire"}
BY ReturnFrame DEF NextSlot, Goto, Frame, ThreadTypes

LEMMA QuietSteps ==
  ASSUME TypeInv, NEW t \in Threads,
         \/ \E f \in Files, label \in {"read_lock", "poll_lock", "write_lock"} :
               BeginCall(t, f, label)
         \/ \E n \in Ids : BeginOutput(t, n)
         \/ BeginBroadcast(t)
         \/ CallStep(t) \/ InterruptRead(t) \/ OutputStep(t) \/ BroadcastStep(t)
  PROVE  Quiet(t)
<1> ThreadTypes
  BY SplitTypes DEF ThreadInv
<1> USE DEF Quiet, unitVars, NewPCs, OwnPCs, OpenPCs, DtorPCs, slotVars, opVars, ifVars
<1>1. ASSUME NEW f \in Files, NEW label, BeginCall(t, f, label) PROVE Quiet(t)
  BY <1>1 DEF BeginCall, Goto, Frame, ThreadTypes
<1>2. ASSUME TinyLock(t) PROVE Quiet(t)
  BY <1>2 DEF TinyLock, Goto, Frame, ThreadTypes
<1>3. ASSUME tun_read(t) PROVE Quiet(t)
  BY <1>3, ReturnFrame DEF tun_read
<1>4. ASSUME InterruptRead(t) PROVE Quiet(t)
  BY <1>4, ReturnFrame DEF InterruptRead
<1>5. ASSUME tun_poll(t) PROVE Quiet(t)
  BY <1>5, ReturnFrame DEF tun_poll
<1>6. ASSUME WriteLock(t) PROVE Quiet(t)
  BY <1>6 DEF WriteLock, Goto, Frame, ThreadTypes
<1>7. ASSUME tun_write(t) PROVE Quiet(t)
  BY <1>7, ReturnFrame DEF tun_write
<1>8. ASSUME NEW n \in Ids, BeginOutput(t, n) PROVE Quiet(t)
  BY <1>8 DEF BeginOutput, Goto, Frame, ThreadTypes
<1>9. ASSUME OutputSoftc(t) PROVE Quiet(t)
  BY <1>9, OutputReturnFrame DEF OutputSoftc, Goto, Frame, ThreadTypes, thVars
<1>10. ASSUME OutputLock(t) PROVE Quiet(t)
  BY <1>10 DEF OutputLock, Goto, Frame, ThreadTypes
<1>11. ASSUME tun_output(t) PROVE Quiet(t)
  BY <1>11, OutputReturnFrame DEF tun_output, Goto, Frame, ThreadTypes, thVars
<1>12. ASSUME BeginBroadcast(t) PROVE Quiet(t)
  BY <1>12 DEF BeginBroadcast, Goto, Frame, ThreadTypes
<1>13. ASSUME NEW n, BroadcastAcquire(t, n) PROVE Quiet(t)
  BY <1>13, NextSlotFrame DEF BroadcastAcquire, Goto, Frame, ThreadTypes, thVars
<1>14. ASSUME BroadcastSend(t) PROVE Quiet(t)
  BY <1>14 DEF BroadcastSend, Goto, Frame, ThreadTypes
<1>15. ASSUME release_iface(t) PROVE Quiet(t)
  BY <1>15, NextSlotFrame DEF release_iface, Goto, Frame, ThreadTypes, thVars
<1> QED
  BY <1>1, <1>2, <1>3, <1>4, <1>5, <1>6, <1>7, <1>8, <1>9, <1>10, <1>11, <1>12,
     <1>13, <1>14, <1>15 DEF CallStep, OutputStep, BroadcastStep

LEMMA AdvanceSteps ==
  ASSUME TypeInv, NEW t \in Threads,
         \/ SetSoftc(t) \/ PublishIface(t) \/ DtorLock(t) \/ DtorAcquire(t)
         \/ DtorClear(t) \/ DtorTinyLock(t) \/ DtorUnlock(t)
  PROVE  Advance(t)
<1> ThreadTypes
  BY SplitTypes DEF ThreadInv
<1> QED
  BY DEF Advance, Frame, ThreadTypes, unitVars, ClosedPCs, OpenPCs, DtorPCs, slotVars, opVars,
     ifVars, Goto, SetSoftc, PublishIface, DtorLock, DtorAcquire, DtorClear, DtorTinyLock,
     DtorUnlock





\* What a step does to units.
LEMMA UnitCases ==
  ASSUME TypeInv, [Next]_vars
  PROVE  \/ \E t \in Threads : Quiet(t) \/ Advance(t)
         \/ \E t \in Threads, f \in Files : BeginOpen(t, f) \/ BeginClose(t, f)
         \/ \E t \in Threads : acquire_idx(t) \/ SetCdevpriv(t) \/ DtorDetach(t)
         \/ \E t \in Threads : DtorFree(t) \/ release_idx(t)
         \/ \E t \in Threads, c \in Ids : opaque_alloc(t, c)
         \/ UNCHANGED vars
<1>1. CASE UNCHANGED vars
  BY <1>1
<1>2. CASE \E t \in Threads : Begin(t)
  BY <1>2, QuietSteps DEF Begin
<1>3. CASE \E t \in Threads : Step(t) \/ InterruptRead(t)
  BY <1>3, QuietSteps, AdvanceSteps DEF Step, OpenStep, DtorStep
<1> QED
  BY <1>1, <1>2, <1>3 DEF Next

LEMMA NotIds == NULL \notin Ids /\ IFACE_ACQUIRED \notin Ids /\ NULL # IFACE_ACQUIRED
BY TunAssumption DEF NULL, Ids, IFACE_ACQUIRED

\* opaque_alloc by thread t into memory c: the memory is nobody's, the ifnet is
\* fresh, and nothing else of the unit state changes.
Allocatable(t, c) ==
  /\ ~Owning(c)
  /\ \A u \in Threads : pc[u] \in OwnPCs => t_op[u] # c
  /\ \A f \in Files : fpriv[f] # c
  /\ c <= nopen
  /\ \A u \in Threads \ {t} : pc[u] \in NewPCs => t_if[u] # c
  /\ \A d \in Ids : state[d] = "live" => iface[d] # t_if[t]

Allocated(t, c) ==
  /\ Frame(t) /\ pc[t] = "opaque_alloc" /\ pc'[t] = "set_softc"
  /\ t_if[t] \in Ids /\ t_op'[t] = c /\ t_slot'[t] = t_slot[t]
  /\ state'[c] = "live" /\ idx'[c] = t_slot[t] /\ iface'[c] = t_if[t]
  /\ \A d \in Ids \ {c} :
       state'[d] = state[d] /\ idx'[d] = idx[d] /\ iface'[d] = iface[d]
  /\ ifstate'[t_if[t]] = "attached"
  /\ \A n \in Ids \ {t_if[t]} : ifstate'[n] = ifstate[n]
  /\ UNCHANGED <<used, ifaces, fpriv, nopen>>

LEMMA AllocFacts ==
  ASSUME UnitInv, ~idx_lost', NEW t \in Threads, NEW c \in Ids, opaque_alloc(t, c)
  PROVE  Allocatable(t, c)
<1>1. c \in {t_if[t]} \cup {d \in Ids : state[d] = "freed"}
  BY DEF opaque_alloc, Mallocable
<1>2. pc[t] \in NewPCs
  BY DEF opaque_alloc, NewPCs
<1>3. state[c] \in {"none", "freed"} /\ t_if[t] \in Ids
  BY <1>1, <1>2, SplitTypes DEF UnitInv, Fresh, ThreadInv, Locals
<1>4. \A u \in Threads : ~(pc[u] = "release_idx" /\ t_op[u] = c)
  BY DEF opaque_alloc, Releasing
<1>5. ~Owning(c)
  BY <1>3, <1>4 DEF Owning, Holding
<1>6. \A u \in Threads : pc[u] \in OwnPCs => t_op[u] # c
  BY <1>3, <1>4 DEF UnitInv, Lifecycle, OwnPCs, OpenPCs, DtorPCs
<1>7. \A f \in Files : fpriv[f] # c
  BY <1>3, NotIds DEF UnitInv, Lifecycle
<1>8. c <= nopen
  <2> nopen \in Nat /\ c \in Nat
    BY TunAssumption, SplitTypes DEF UnitInv, SharedTypes, Ids
  <2> QED
    BY <1>1, <1>2 DEF UnitInv, Fresh
<1>9. \A u \in Threads \ {t} : pc[u] \in NewPCs => t_if[u] # c
  BY <1>1, <1>2 DEF UnitInv, Fresh
<1>10. \A d \in Ids : state[d] = "live" => iface[d] # t_if[t]
  BY <1>2 DEF UnitInv, Fresh, LiveIfaces
<1> QED
  BY <1>5, <1>6, <1>7, <1>8, <1>9, <1>10 DEF Allocatable

LEMMA AllocEffect ==
  ASSUME UnitInv, NEW t \in Threads, NEW c \in Ids, opaque_alloc(t, c)
  PROVE  Allocated(t, c)
<1> SharedTypes /\ ThreadTypes /\ Locals
  BY SplitTypes DEF ThreadInv, UnitInv
<1>1. pc[t] = "opaque_alloc" /\ t_if[t] \in Ids
  BY DEF opaque_alloc, Locals, NewPCs
<1> QED
  BY <1>1 DEF Allocated, opaque_alloc, Goto, Frame, SharedTypes, ThreadTypes, slotVars

LEMMA OwnershipStep ==
  ASSUME UnitInv, [Next]_vars, ~idx_lost'
  PROVE  Ownership'
<1> SharedTypes /\ ThreadTypes /\ Locals
  BY SplitTypes DEF ThreadInv, UnitInv
<1> Ownership /\ Lifecycle /\ SlotOwners /\ Fresh /\ LiveIfaces
  BY DEF UnitInv
<1> USE NotIds DEF Ownership
<1>1. ASSUME NEW t \in Threads, Quiet(t) PROVE Ownership'
  BY <1>1 DEF Quiet, Frame, unitVars, OwnPCs, OpenPCs, DtorPCs, ClosedPCs
<1>2. ASSUME NEW t \in Threads, Advance(t) PROVE Ownership'
  BY <1>2 DEF Advance, Frame, unitVars, OwnPCs, OpenPCs, DtorPCs, ClosedPCs
<1>3. ASSUME NEW t \in Threads, NEW f \in Files, BeginOpen(t, f) PROVE Ownership'
  BY <1>3 DEF BeginOpen, OwnPCs, OpenPCs, DtorPCs, ClosedPCs, SharedTypes, ThreadTypes, opVars, ifVars, slotVars, Goto, Locals, NewPCs, Lifecycle, Ownership
<1>4. ASSUME NEW t \in Threads, acquire_idx(t) PROVE Ownership'
  BY <1>4, ReturnFrame DEF acquire_idx, OwnPCs, OpenPCs, DtorPCs, ClosedPCs, SharedTypes, ThreadTypes, opVars, ifVars, slotVars, Goto, Frame, Locals, NewPCs
<1>5. ASSUME NEW t \in Threads, NEW c \in Ids, opaque_alloc(t, c) PROVE Ownership'
  <2> HIDE DEF Ownership
  <2>1. Allocatable(t, c) /\ Allocated(t, c)
    BY <1>5, AllocFacts, AllocEffect
  <2> QED
    BY <2>1 DEF Allocatable, Allocated, Frame, OwnPCs, OpenPCs, DtorPCs, ClosedPCs, ThreadTypes, Ownership
<1>6. ASSUME NEW t \in Threads, SetCdevpriv(t) PROVE Ownership'
  BY <1>6, ReturnFrame DEF SetCdevpriv, OwnPCs, OpenPCs, DtorPCs, ClosedPCs, SharedTypes, ThreadTypes, opVars, ifVars, slotVars, Frame, Locals, Lifecycle, Ownership
<1>7. ASSUME NEW t \in Threads, NEW f \in Files, BeginClose(t, f) PROVE Ownership'
  BY <1>7 DEF BeginClose, OwnPCs, OpenPCs, DtorPCs, ClosedPCs, SharedTypes, ThreadTypes, opVars, ifVars, slotVars, Goto, Locals, NewPCs, Lifecycle, Ownership
<1>8. ASSUME NEW t \in Threads, DtorDetach(t) PROVE Ownership'
  BY <1>8 DEF DtorDetach, OwnPCs, OpenPCs, DtorPCs, ClosedPCs, SharedTypes, ThreadTypes, opVars, ifVars, slotVars, Goto, Locals, NewPCs, Lifecycle, Ownership
<1>9. ASSUME NEW t \in Threads, DtorFree(t) PROVE Ownership'
  BY <1>9 DEF DtorFree, OwnPCs, OpenPCs, DtorPCs, ClosedPCs, SharedTypes, ThreadTypes, opVars, ifVars, slotVars, Goto, Locals, NewPCs, Lifecycle, Ownership
<1>10. ASSUME NEW t \in Threads, release_idx(t) PROVE Ownership'
  BY <1>10, ReturnFrame DEF release_idx, OwnPCs, OpenPCs, DtorPCs, ClosedPCs, SharedTypes, ThreadTypes, opVars, ifVars, slotVars, Frame, Locals, Lifecycle, Ownership
<1>11. CASE UNCHANGED vars
  BY <1>11 DEF vars, slotVars, opVars, ifVars, thVars, ClosedPCs
<1> QED
  BY UnitCases, <1>1, <1>2, <1>3, <1>4, <1>5, <1>6, <1>7, <1>8, <1>9, <1>10, <1>11 DEF UnitInv

LEMMA LifecycleStep ==
  ASSUME UnitInv, [Next]_vars, ~idx_lost'
  PROVE  Lifecycle'
<1> SharedTypes /\ ThreadTypes /\ Locals
  BY SplitTypes DEF ThreadInv, UnitInv
<1> Ownership /\ Lifecycle /\ SlotOwners /\ Fresh /\ LiveIfaces
  BY DEF UnitInv
<1> USE NotIds DEF Lifecycle
<1>1. ASSUME NEW t \in Threads, Quiet(t) PROVE Lifecycle'
  BY <1>1 DEF Quiet, Frame, unitVars, OwnPCs, OpenPCs, DtorPCs, ClosedPCs
<1>2. ASSUME NEW t \in Threads, Advance(t) PROVE Lifecycle'
  BY <1>2 DEF Advance, Frame, unitVars, OwnPCs, OpenPCs, DtorPCs, ClosedPCs
<1>3. ASSUME NEW t \in Threads, NEW f \in Files, BeginOpen(t, f) PROVE Lifecycle'
  BY <1>3 DEF BeginOpen, OwnPCs, OpenPCs, DtorPCs, ClosedPCs, SharedTypes, ThreadTypes, opVars, ifVars, slotVars, Goto, Locals, NewPCs, Lifecycle, Ownership
<1>4. ASSUME NEW t \in Threads, acquire_idx(t) PROVE Lifecycle'
  BY <1>4, ReturnFrame DEF acquire_idx, OwnPCs, OpenPCs, DtorPCs, ClosedPCs, SharedTypes, ThreadTypes, opVars, ifVars, slotVars, Goto, Frame, Locals, NewPCs
<1>5. ASSUME NEW t \in Threads, NEW c \in Ids, opaque_alloc(t, c) PROVE Lifecycle'
  <2> HIDE DEF Lifecycle
  <2>1. Allocatable(t, c) /\ Allocated(t, c)
    BY <1>5, AllocFacts, AllocEffect
  <2> QED
    BY <2>1 DEF Allocatable, Allocated, Frame, OwnPCs, OpenPCs, DtorPCs, Lifecycle, Locals,
       SharedTypes
<1>6. ASSUME NEW t \in Threads, SetCdevpriv(t) PROVE Lifecycle'
  BY <1>6, ReturnFrame DEF SetCdevpriv, OwnPCs, OpenPCs, DtorPCs, ClosedPCs, SharedTypes, ThreadTypes, opVars, ifVars, slotVars, Frame, Locals, Lifecycle, Ownership
<1>7. ASSUME NEW t \in Threads, NEW f \in Files, BeginClose(t, f) PROVE Lifecycle'
  BY <1>7 DEF BeginClose, OwnPCs, OpenPCs, DtorPCs, ClosedPCs, SharedTypes, ThreadTypes, opVars, ifVars, slotVars, Goto, Locals, NewPCs, Lifecycle, Ownership
<1>8. ASSUME NEW t \in Threads, DtorDetach(t) PROVE Lifecycle'
  BY <1>8 DEF DtorDetach, OwnPCs, OpenPCs, DtorPCs, ClosedPCs, SharedTypes, ThreadTypes, opVars, ifVars, slotVars, Goto, Locals, NewPCs, Lifecycle, Ownership
<1>9. ASSUME NEW t \in Threads, DtorFree(t) PROVE Lifecycle'
  BY <1>9 DEF DtorFree, OwnPCs, OpenPCs, DtorPCs, ClosedPCs, SharedTypes, ThreadTypes, opVars, ifVars, slotVars, Goto, Locals, NewPCs, Lifecycle, Ownership
<1>10. ASSUME NEW t \in Threads, release_idx(t) PROVE Lifecycle'
  BY <1>10, ReturnFrame DEF release_idx, OwnPCs, OpenPCs, DtorPCs, ClosedPCs, SharedTypes, ThreadTypes, opVars, ifVars, slotVars, Frame, Locals, Lifecycle, Ownership
<1>11. CASE UNCHANGED vars
  BY <1>11 DEF vars, slotVars, opVars, ifVars, thVars, ClosedPCs
<1> QED
  BY UnitCases, <1>1, <1>2, <1>3, <1>4, <1>5, <1>6, <1>7, <1>8, <1>9, <1>10, <1>11 DEF UnitInv

LEMMA SlotOwnersStep ==
  ASSUME UnitInv, [Next]_vars, ~idx_lost'
  PROVE  SlotOwners'
<1> SharedTypes /\ ThreadTypes /\ Locals
  BY SplitTypes DEF ThreadInv, UnitInv
<1> Ownership /\ Lifecycle /\ SlotOwners /\ Fresh /\ LiveIfaces
  BY DEF UnitInv
<1> USE NotIds DEF SlotOwners
<1>1. ASSUME NEW t \in Threads, Quiet(t) PROVE SlotOwners'
  BY <1>1 DEF Quiet, Frame, unitVars, OwnPCs, OpenPCs, DtorPCs, Owning, Holding, NewPCs, ClosedPCs
<1>2. ASSUME NEW t \in Threads, Advance(t) PROVE SlotOwners'
  BY <1>2 DEF Advance, Frame, unitVars, OwnPCs, OpenPCs, DtorPCs, Owning, Holding, NewPCs, ClosedPCs
<1>3. ASSUME NEW t \in Threads, NEW f \in Files, BeginOpen(t, f) PROVE SlotOwners'
  BY <1>3 DEF BeginOpen, OwnPCs, OpenPCs, DtorPCs, Owning, Holding, NewPCs, ClosedPCs, SharedTypes, ThreadTypes, opVars, ifVars, slotVars, Goto, Locals, NewPCs, Lifecycle, Ownership
<1>4. ASSUME NEW t \in Threads, acquire_idx(t) PROVE SlotOwners'
  <2>1. CASE Return(t) /\ UNCHANGED used
    BY <1>4, <2>1, ReturnFrame DEF acquire_idx, Frame, Owning, OpenPCs, opVars, Holding
  <2>2. CASE /\ used[t_slot[t]] = 0 /\ t_slot[t] < NSlots
             /\ used' = [used EXCEPT ![t_slot[t]] = 1]
             /\ Goto(t, "opaque_alloc")
             /\ UNCHANGED <<t_slot, t_file, t_op, t_if, t_left>>
    <3>1. \A d \in Ids : Owning(d)' <=> Owning(d)
      BY <1>4, <2>2 DEF acquire_idx, Goto, Owning, ThreadTypes, opVars
    <3>2. /\ \A i \in Slots : used[i] = 1 => used'[i] = 1
          /\ used'[t_slot[t]] = 1 /\ t_slot[t] \in Slots
      BY <2>2, TunAssumption DEF SharedTypes, ThreadTypes, Slots
    <3> QED
      BY <1>4, <2>2, <3>1, <3>2 DEF acquire_idx, Goto, OpenPCs, opVars, SharedTypes, ThreadTypes
  <2>3. CASE /\ t_slot' = [t_slot EXCEPT ![t] = @ + 1]
             /\ UNCHANGED <<used, pc, t_file, t_op, t_if, t_left>>
    <3>1. \A d \in Ids : Owning(d)' <=> Owning(d)
      BY <1>4, <2>3 DEF acquire_idx, Owning, opVars
    <3> QED
      BY <1>4, <2>3, <3>1 DEF acquire_idx, OpenPCs, opVars, ThreadTypes
  <2> QED
    BY <1>4, <2>1, <2>2, <2>3 DEF acquire_idx
<1>5. ASSUME NEW t \in Threads, NEW c \in Ids, opaque_alloc(t, c) PROVE SlotOwners'
  <2> HIDE DEF SlotOwners
  <2>1. Allocatable(t, c) /\ Allocated(t, c)
    BY <1>5, AllocFacts, AllocEffect
  <2>2. \A d \in Ids : Owning(d)' => d = c \/ Owning(d)
    BY <2>1 DEF Allocatable, Allocated, Frame, Owning, OwnPCs
  <2>3. /\ used[t_slot[t]] = 1
        /\ \A d \in Ids : Owning(d) => idx[d] # t_slot[t]
        /\ \A u \in Threads \ {t} : pc[u] = "opaque_alloc" => t_slot[u] # t_slot[t]
    BY <2>1 DEF SlotOwners, Allocated
  <2>4. /\ \A d \in Ids : Owning(d)' => used'[idx'[d]] = 1
        /\ \A d, e \in Ids : d # e /\ Owning(d)' /\ Owning(e)' => idx'[d] # idx'[e]
    BY <2>1, <2>2, <2>3 DEF SlotOwners, Allocated
  <2>5. \A u \in Threads : pc'[u] = "opaque_alloc" =>
          /\ used'[t_slot'[u]] = 1
          /\ \A d \in Ids : Owning(d)' => idx'[d] # t_slot'[u]
          /\ \A v \in Threads \ {u} : pc'[v] = "opaque_alloc" => t_slot'[v] # t_slot'[u]
    BY <2>1, <2>2, <2>3 DEF SlotOwners, Allocated, Frame
  <2>6. \A u \in Threads : pc'[u] \in OpenPCs => idx'[t_op'[u]] = t_slot'[u]
    BY <2>1 DEF SlotOwners, Allocatable, Allocated, Frame, OwnPCs, Locals
  <2> QED
    BY <2>4, <2>5, <2>6 DEF SlotOwners
<1>6. ASSUME NEW t \in Threads, SetCdevpriv(t) PROVE SlotOwners'
  <2>1. \A d \in Ids : Owning(d)' <=> Owning(d)
    BY <1>6, ReturnFrame DEF SetCdevpriv, Frame, Owning
  <2> QED
    BY <1>6, <2>1, ReturnFrame DEF SetCdevpriv, Goto, Frame, OpenPCs, ThreadTypes, slotVars, opVars
<1>7. ASSUME NEW t \in Threads, NEW f \in Files, BeginClose(t, f) PROVE SlotOwners'
  BY <1>7 DEF BeginClose, OwnPCs, OpenPCs, DtorPCs, Owning, Holding, NewPCs, ClosedPCs, SharedTypes, ThreadTypes, opVars, ifVars, slotVars, Goto, Locals, NewPCs, Lifecycle, Ownership
<1>8. ASSUME NEW t \in Threads, DtorDetach(t) PROVE SlotOwners'
  <2>1. \A d \in Ids : Owning(d)' <=> Owning(d)
    BY <1>8 DEF DtorDetach, Goto, Frame, Owning, Holding, OwnPCs, OpenPCs, DtorPCs, Lifecycle, Ownership, Locals,
       SharedTypes, ThreadTypes, opVars
  <2> QED
    BY <1>8, <2>1 DEF DtorDetach, Goto, Frame, OpenPCs, ThreadTypes, slotVars, opVars
<1>9. ASSUME NEW t \in Threads, DtorFree(t) PROVE SlotOwners'
  <2>1. \A d \in Ids : Owning(d)' <=> Owning(d)
    BY <1>9 DEF DtorFree, Goto, Frame, Owning, Holding, OwnPCs, OpenPCs, DtorPCs, Lifecycle, Ownership, Locals,
       SharedTypes, ThreadTypes, opVars
  <2> QED
    BY <1>9, <2>1 DEF DtorFree, Goto, Frame, OpenPCs, ThreadTypes, slotVars, opVars
<1>10. ASSUME NEW t \in Threads, release_idx(t) PROVE SlotOwners'
  <2>1. \A d \in Ids : Owning(d)' => Owning(d) /\ d # t_op[t]
    BY <1>10, ReturnFrame DEF release_idx, Frame, Owning, Holding, OwnPCs, Lifecycle, Ownership, Locals,
       SharedTypes, ThreadTypes, opVars
  <2>2. t_op[t] \in Ids /\ Owning(t_op[t]) /\ idx[t_op[t]] \in Slots
    BY <1>10 DEF release_idx, Owning, OwnPCs, Locals, SharedTypes
  <2>3. \A i \in Slots : i # idx[t_op[t]] => used'[i] = used[i]
    BY <1>10 DEF release_idx, SharedTypes
  <2>4. /\ \A d \in Ids : Owning(d)' => used'[idx'[d]] = 1
        /\ \A d, e \in Ids : d # e /\ Owning(d)' /\ Owning(e)' => idx'[d] # idx'[e]
    BY <1>10, <2>1, <2>2, <2>3 DEF release_idx, SharedTypes, opVars
  <2>5. \A u \in Threads : pc'[u] = "opaque_alloc" =>
          /\ used'[t_slot'[u]] = 1
          /\ \A d \in Ids : Owning(d)' => idx'[d] # t_slot'[u]
          /\ \A v \in Threads \ {u} : pc'[v] = "opaque_alloc" => t_slot'[v] # t_slot'[u]
    BY <1>10, <2>1, <2>2, <2>3, ReturnFrame DEF release_idx, Frame, Locals, opVars
  <2>6. \A u \in Threads : pc'[u] \in OpenPCs => idx'[t_op'[u]] = t_slot'[u]
    BY <1>10, ReturnFrame DEF release_idx, Frame, OpenPCs, opVars
  <2> QED
    BY <2>4, <2>5, <2>6
<1>11. CASE UNCHANGED vars
  BY <1>11 DEF vars, slotVars, opVars, ifVars, thVars, Owning, Holding, NewPCs, ClosedPCs
<1> QED
  BY UnitCases, <1>1, <1>2, <1>3, <1>4, <1>5, <1>6, <1>7, <1>8, <1>9, <1>10, <1>11 DEF UnitInv

LEMMA FreshStep ==
  ASSUME UnitInv, [Next]_vars, ~idx_lost'
  PROVE  Fresh'
<1> SharedTypes /\ ThreadTypes /\ Locals
  BY SplitTypes DEF ThreadInv, UnitInv
<1> Ownership /\ Lifecycle /\ SlotOwners /\ Fresh /\ LiveIfaces
  BY DEF UnitInv
<1> USE NotIds DEF Fresh
<1>1. ASSUME NEW t \in Threads, Quiet(t) PROVE Fresh'
  BY <1>1 DEF Quiet, Frame, unitVars, OwnPCs, OpenPCs, DtorPCs, NewPCs, ClosedPCs
<1>2. ASSUME NEW t \in Threads, Advance(t) PROVE Fresh'
  BY <1>2 DEF Advance, Frame, unitVars, OwnPCs, OpenPCs, DtorPCs, NewPCs, ClosedPCs
<1>3. ASSUME NEW t \in Threads, NEW f \in Files, BeginOpen(t, f) PROVE Fresh'
  <2>1. nopen \in Nat /\ nopen + 1 \in Ids /\ (\A i \in Ids : i \in Nat)
    BY <1>3, TunAssumption DEF BeginOpen, SharedTypes, Ids
  <2>2. \A u \in Threads : pc[u] \in NewPCs => t_if[u] \in Ids /\ t_if[u] <= nopen
    BY DEF Locals
  <2>3. \A i \in Ids : i > nopen' => state'[i] = "none" /\ ifstate'[i] = "none"
    BY <1>3, <2>1 DEF BeginOpen, opVars, ifVars
  <2>4. state[nopen + 1] = "none" /\ ifstate[nopen + 1] = "none"
    BY <2>1
  <2>5. \A u \in Threads : pc'[u] \in NewPCs =>
          /\ t_if'[u] <= nopen'
          /\ state'[t_if'[u]] = "none" /\ ifstate'[t_if'[u]] = "none"
          /\ \A v \in Threads \ {u} : pc'[v] \in NewPCs => t_if'[v] # t_if'[u]
    BY <1>3, <2>1, <2>2, <2>4 DEF BeginOpen, Goto, NewPCs, ThreadTypes, opVars, ifVars
  <2> QED
    BY <2>3, <2>5
<1>4. ASSUME NEW t \in Threads, acquire_idx(t) PROVE Fresh'
  BY <1>4, ReturnFrame DEF acquire_idx, OwnPCs, OpenPCs, DtorPCs, NewPCs, ClosedPCs, SharedTypes, ThreadTypes, opVars, ifVars, slotVars, Goto, Frame, Locals, NewPCs
<1>5. ASSUME NEW t \in Threads, NEW c \in Ids, opaque_alloc(t, c) PROVE Fresh'
  <2> HIDE DEF Fresh
  <2>1. Allocatable(t, c) /\ Allocated(t, c)
    BY <1>5, AllocFacts, AllocEffect
  <2>2. \A n \in Ids : n > nopen' => state'[n] = "none" /\ ifstate'[n] = "none"
    <3>1. nopen \in Nat /\ t_if[t] \in Nat /\ c \in Nat /\ \A n \in Ids : n \in Nat
      BY <2>1, TunAssumption DEF SharedTypes, Allocated, Ids
    <3>2. t_if[t] <= nopen /\ c <= nopen
      BY <2>1 DEF Fresh, Allocated, Allocatable, NewPCs
    <3>3. /\ nopen' = nopen
          /\ \A d \in Ids \ {c} : state'[d] = state[d]
          /\ \A n \in Ids \ {t_if[t]} : ifstate'[n] = ifstate[n]
      BY <2>1 DEF Allocated
    <3>4. \A n \in Ids : n > nopen => state[n] = "none" /\ ifstate[n] = "none"
      BY DEF Fresh
    <3> SUFFICES ASSUME NEW n \in Ids, n > nopen'
                 PROVE  state'[n] = "none" /\ ifstate'[n] = "none"
      OBVIOUS
    <3>5. n > nopen /\ n # c /\ n # t_if[t]
      BY ONLY <3>1, <3>2, <3>3, n \in Ids, n > nopen'
    <3> QED
      BY ONLY <3>3, <3>4, <3>5, n \in Ids
  <2>3. \A u \in Threads : pc'[u] \in NewPCs =>
          /\ t_if'[u] <= nopen'
          /\ state'[t_if'[u]] = "none" /\ ifstate'[t_if'[u]] = "none"
          /\ \A v \in Threads \ {u} : pc'[v] \in NewPCs => t_if'[v] # t_if'[u]
    BY <2>1 DEF Fresh, Allocated, Allocatable, Frame, NewPCs, Locals
  <2> QED
    BY <2>2, <2>3 DEF Fresh
<1>6. ASSUME NEW t \in Threads, SetCdevpriv(t) PROVE Fresh'
  BY <1>6, ReturnFrame DEF SetCdevpriv, OwnPCs, OpenPCs, DtorPCs, NewPCs, ClosedPCs, SharedTypes, ThreadTypes, opVars, ifVars, slotVars, Frame, Locals, Lifecycle, Ownership, LiveIfaces
<1>7. ASSUME NEW t \in Threads, NEW f \in Files, BeginClose(t, f) PROVE Fresh'
  BY <1>7 DEF BeginClose, OwnPCs, OpenPCs, DtorPCs, NewPCs, ClosedPCs, SharedTypes, ThreadTypes, opVars, ifVars, slotVars, Goto, Locals, NewPCs, Lifecycle, Ownership, LiveIfaces
<1>8. ASSUME NEW t \in Threads, DtorDetach(t) PROVE Fresh'
  BY <1>8 DEF DtorDetach, OwnPCs, OpenPCs, DtorPCs, NewPCs, ClosedPCs, SharedTypes, ThreadTypes, opVars, ifVars, slotVars, Goto, Locals, NewPCs, Lifecycle, Ownership, LiveIfaces
<1>9. ASSUME NEW t \in Threads, DtorFree(t) PROVE Fresh'
  BY <1>9 DEF DtorFree, OwnPCs, OpenPCs, DtorPCs, NewPCs, ClosedPCs, SharedTypes, ThreadTypes, opVars, ifVars, slotVars, Goto, Locals, NewPCs, Lifecycle, Ownership, LiveIfaces
<1>10. ASSUME NEW t \in Threads, release_idx(t) PROVE Fresh'
  BY <1>10, ReturnFrame DEF release_idx, OwnPCs, OpenPCs, DtorPCs, NewPCs, ClosedPCs, SharedTypes, ThreadTypes, opVars, ifVars, slotVars, Frame, Locals, Lifecycle, Ownership, LiveIfaces
<1>11. CASE UNCHANGED vars
  BY <1>11 DEF vars, slotVars, opVars, ifVars, thVars, NewPCs, ClosedPCs
<1> QED
  BY UnitCases, <1>1, <1>2, <1>3, <1>4, <1>5, <1>6, <1>7, <1>8, <1>9, <1>10, <1>11 DEF UnitInv

LEMMA LiveIfacesStep ==
  ASSUME UnitInv, [Next]_vars, ~idx_lost'
  PROVE  LiveIfaces'
<1> SharedTypes /\ ThreadTypes /\ Locals
  BY SplitTypes DEF ThreadInv, UnitInv
<1> Ownership /\ Lifecycle /\ SlotOwners /\ Fresh /\ LiveIfaces
  BY DEF UnitInv
<1> USE NotIds DEF LiveIfaces
<1>1. ASSUME NEW t \in Threads, Quiet(t) PROVE LiveIfaces'
  BY <1>1 DEF Quiet, Frame, unitVars, OwnPCs, OpenPCs, DtorPCs, NewPCs, ClosedPCs
<1>2. ASSUME NEW t \in Threads, Advance(t) PROVE LiveIfaces'
  BY <1>2 DEF Advance, Frame, unitVars, OwnPCs, OpenPCs, DtorPCs, NewPCs, ClosedPCs
<1>3. ASSUME NEW t \in Threads, NEW f \in Files, BeginOpen(t, f) PROVE LiveIfaces'
  BY <1>3 DEF BeginOpen, OwnPCs, OpenPCs, DtorPCs, NewPCs, ClosedPCs, SharedTypes, ThreadTypes, opVars, ifVars, slotVars, Goto, Locals, NewPCs, Lifecycle, Ownership
<1>4. ASSUME NEW t \in Threads, acquire_idx(t) PROVE LiveIfaces'
  BY <1>4, ReturnFrame DEF acquire_idx, OwnPCs, OpenPCs, DtorPCs, NewPCs, ClosedPCs, SharedTypes, ThreadTypes, opVars, ifVars, slotVars, Goto, Frame, Locals, NewPCs
<1>5. ASSUME NEW t \in Threads, NEW c \in Ids, opaque_alloc(t, c) PROVE LiveIfaces'
  <2> HIDE DEF LiveIfaces
  <2>1. Allocatable(t, c) /\ Allocated(t, c)
    BY <1>5, AllocFacts, AllocEffect
  <2> QED
    BY <2>1 DEF Allocatable, Allocated, Frame, OwnPCs, OpenPCs, DtorPCs, NewPCs, ClosedPCs, ThreadTypes, LiveIfaces
<1>6. ASSUME NEW t \in Threads, SetCdevpriv(t) PROVE LiveIfaces'
  BY <1>6, ReturnFrame DEF SetCdevpriv, OwnPCs, OpenPCs, DtorPCs, NewPCs, ClosedPCs, SharedTypes, ThreadTypes, opVars, ifVars, slotVars, Frame, Locals, Lifecycle, Ownership
<1>7. ASSUME NEW t \in Threads, NEW f \in Files, BeginClose(t, f) PROVE LiveIfaces'
  BY <1>7 DEF BeginClose, OwnPCs, OpenPCs, DtorPCs, NewPCs, ClosedPCs, SharedTypes, ThreadTypes, opVars, ifVars, slotVars, Goto, Locals, NewPCs, Lifecycle, Ownership
<1>8. ASSUME NEW t \in Threads, DtorDetach(t) PROVE LiveIfaces'
  BY <1>8 DEF DtorDetach, OwnPCs, OpenPCs, DtorPCs, NewPCs, ClosedPCs, SharedTypes, ThreadTypes, opVars, ifVars, slotVars, Goto, Locals, NewPCs, Lifecycle, Ownership
<1>9. ASSUME NEW t \in Threads, DtorFree(t) PROVE LiveIfaces'
  BY <1>9 DEF DtorFree, OwnPCs, OpenPCs, DtorPCs, NewPCs, ClosedPCs, SharedTypes, ThreadTypes, opVars, ifVars, slotVars, Goto, Locals, NewPCs, Lifecycle, Ownership
<1>10. ASSUME NEW t \in Threads, release_idx(t) PROVE LiveIfaces'
  BY <1>10, ReturnFrame DEF release_idx, OwnPCs, OpenPCs, DtorPCs, NewPCs, ClosedPCs, SharedTypes, ThreadTypes, opVars, ifVars, slotVars, Frame, Locals, Lifecycle, Ownership
<1>11. CASE UNCHANGED vars
  BY <1>11 DEF vars, slotVars, opVars, ifVars, thVars, NewPCs, ClosedPCs
<1> QED
  BY UnitCases, <1>1, <1>2, <1>3, <1>4, <1>5, <1>6, <1>7, <1>8, <1>9, <1>10, <1>11 DEF UnitInv

\* What has been lost stays lost.
LEMMA LostStays == [Next]_vars /\ idx_lost => idx_lost'
<1> SUFFICES ASSUME [Next]_vars, idx_lost  PROVE idx_lost'
  OBVIOUS
<1>1. ASSUME NEW t \in Threads, Begin(t) \/ InterruptRead(t)  PROVE idx_lost'
  BY <1>1 DEF Begin, BeginOpen, BeginCall, BeginClose, BeginOutput, BeginBroadcast, InterruptRead
<1>2. ASSUME NEW t \in Threads, OpenStep(t)  PROVE idx_lost'
  BY <1>2 DEF OpenStep, acquire_idx, opaque_alloc, SetSoftc, PublishIface, SetCdevpriv
<1>3. ASSUME NEW t \in Threads, CallStep(t)  PROVE idx_lost'
  BY <1>3 DEF CallStep, TinyLock, tun_read, tun_poll, WriteLock, tun_write
<1>4. ASSUME NEW t \in Threads, DtorStep(t)  PROVE idx_lost'
  BY <1>4 DEF DtorStep, DtorLock, DtorAcquire, DtorClear, DtorTinyLock, DtorDetach, DtorUnlock,
     DtorFree, release_idx
<1>5. ASSUME NEW t \in Threads, OutputStep(t) \/ BroadcastStep(t)  PROVE idx_lost'
  BY <1>5 DEF OutputStep, OutputSoftc, OutputLock, tun_output, BroadcastStep, BroadcastAcquire,
     BroadcastSend, release_iface
<1>6. CASE UNCHANGED vars
  BY <1>6 DEF vars
<1> QED
  BY <1>1, <1>2, <1>3, <1>4, <1>5, <1>6 DEF Next, Step

LEMMA UnitInvInvariant == Spec => [](idx_lost \/ UnitInv)
<1>1. Init => Ownership /\ Lifecycle /\ SlotOwners /\ Fresh /\ LiveIfaces
  BY NotIds DEF Init, Ownership, Lifecycle, SlotOwners, Fresh, LiveIfaces, Owning, Holding,
     OwnPCs, OpenPCs, DtorPCs, NewPCs
<1>2. UnitInv /\ [Next]_vars /\ ~idx_lost' =>
        Ownership' /\ Lifecycle' /\ SlotOwners' /\ Fresh' /\ LiveIfaces'
  BY OwnershipStep, LifecycleStep, SlotOwnersStep, FreshStep, LiveIfacesStep
<1> DEFINE Rest == Ownership /\ Lifecycle /\ SlotOwners /\ Fresh /\ LiveIfaces
<1>3. Init => Rest
  BY <1>1
<1>4. TypeInv /\ (idx_lost \/ Rest) /\ [Next]_vars => (idx_lost \/ Rest)'
  BY <1>2, LostStays DEF UnitInv
<1>5. UnitInv <=> TypeInv /\ Rest
  BY DEF UnitInv
<1> HIDE DEF Rest
<1>6. Spec => [](TypeInv /\ (idx_lost \/ Rest))
  BY <1>3, <1>4, TypeInvInvariant, PTL DEF Spec
<1> QED
  BY <1>5, <1>6, PTL

\* For any number of slots, threads, files and opens, two descriptors that are open
\* at the same time never share a unit: the compare-and-set scan of acquire_idx and
\* the late release_idx of opaque_free keep idx exclusive while malloc does not
\* recycle the memory that opaque_free reads idx back from.
THEOREM UnitsExclusive == Spec => []UnitExclusive
<1>1. idx_lost \/ UnitInv => UnitExclusive
  BY DEF UnitInv, SlotOwners, Owning, UnitExclusive
<1> QED
  BY <1>1, UnitInvInvariant, PTL


-----------------------------------------------------------------------------
(* The interface table.  A step is silent when it changes neither the table nor  *)
(* who holds the token of a slot.                                                *)

SameTable ==
  /\ UNCHANGED ifaces
  /\ \A c \in Ids : Published(c)' <=> Published(c)
  /\ \A c \in Ids : Published(c) => idx'[c] = idx[c] /\ iface'[c] = iface[c]

SameHolders ==
  \A u \in Threads, i \in Slots :
    /\ DtorHolds(u, i)' <=> DtorHolds(u, i)
    /\ BroadcastHolds(u, i)' <=> BroadcastHolds(u, i)
    /\ BroadcastHolds(u, i) => t_if'[u] = t_if[u]

LEMMA SilentStep ==
  ASSUME IfaceInv, SameTable, SameHolders
  PROVE  Table' /\ Token'
<1>1. SharedTypes
  BY SplitTypes DEF IfaceInv, UnitInv
<1>2. Table'
  BY <1>1 DEF IfaceInv, SameTable, Table, SharedTypes
<1>3. \A i \in Slots, t \in Threads : Holds(t, i)' <=> Holds(t, i)
  BY DEF SameHolders, Holds
<1>4. Token'
  BY <1>1, <1>3 DEF IfaceInv, SameTable, SameHolders, Token, SharedTypes
<1> QED
  BY <1>2, <1>4

\* Published opaques have different slots, and a destructor works on a published one
\* until it has cleared the slot.
LEMMA PublishedFacts ==
  ASSUME UnitInv
  PROVE  /\ \A c \in Ids : Published(c) => iface[c] \in Ids /\ idx[c] \in Slots
         /\ \A c, d \in Ids : Published(c) /\ Published(d) /\ idx[c] = idx[d] => c = d
         /\ \A t \in Threads : pc[t] \in {"unlock_new", "dtor_lock", "dtor_token", "dtor_clear"}
              => t_op[t] \in Ids /\ Published(t_op[t])
<1>1. SharedTypes /\ Locals
  BY SplitTypes DEF UnitInv, ThreadInv
<1>2. \A c \in Ids : Published(c) => Owning(c)
  BY DEF Published, Owning, Holding
<1> QED
  BY <1>1, <1>2 DEF UnitInv, Published, LiveIfaces, SlotOwners, SharedTypes, Locals, Lifecycle,
     Ownership, OwnPCs, OpenPCs, DtorPCs, HiddenPCs

LEMMA KeepTable ==
  ASSUME NEW t \in Threads, Frame(t), UNCHANGED <<ifaces, state, idx, iface>>,
         \/ pc[t] \notin HiddenPCs /\ pc'[t] \notin HiddenPCs
         \/ pc[t] \in HiddenPCs /\ pc'[t] \in HiddenPCs /\ t_op'[t] = t_op[t]
  PROVE  SameTable
BY DEF SameTable, Frame, Published

\* A thread without a token stays without, a broadcaster keeps its slot and interface.
LEMMA KeepHolders ==
  ASSUME NEW t \in Threads, Frame(t), UNCHANGED idx,
         pc[t] # "dtor_clear", pc'[t] # "dtor_clear",
         \/ /\ ~(t_slot[t] \in Slots /\ pc[t] \in OutPCs \cup {"bcast_addr"})
            /\ ~(t_slot'[t] \in Slots /\ pc'[t] \in OutPCs \cup {"bcast_addr"})
         \/ /\ pc[t] \in OutPCs \cup {"bcast_addr"}
            /\ pc'[t] \in OutPCs \cup {"bcast_addr"}
            /\ t_slot'[t] = t_slot[t] /\ t_if'[t] = t_if[t]
  PROVE  SameHolders
BY DEF SameHolders, Frame, DtorHolds, BroadcastHolds

LEMMA ReturnHolders ==
  ASSUME ThreadTypes, NEW t \in Threads, Return(t),
         UNCHANGED <<ifaces, state, idx, iface>>,
         pc[t] \notin HiddenPCs \cup {"dtor_clear", "bcast_addr"},
         pc[t] \in OutPCs => t_slot[t] \notin Slots
  PROVE  SameTable /\ SameHolders
<1>1. Frame(t) /\ pc'[t] = "idle"
  BY ReturnFrame
<1>2. SameTable
  BY <1>1, KeepTable DEF HiddenPCs
<1>3. SameHolders
  BY <1>1, KeepHolders DEF OutPCs
<1> QED
  BY <1>2, <1>3

LEMMA OutputReturnHolders ==
  ASSUME ThreadTypes, NEW t \in Threads, OutputReturn(t), pc[t] \in OutPCs,
         UNCHANGED <<ifaces, state, idx, iface>>
  PROVE  SameTable /\ SameHolders
<1>1. CASE t_slot[t] = NoSlot
  BY <1>1, TunAssumption, ReturnHolders DEF OutputReturn, NoSlot, Slots, HiddenPCs, OutPCs
<1>2. CASE t_slot[t] # NoSlot
  <2>1. /\ Frame(t) /\ pc'[t] = "bcast_addr"
        /\ t_slot'[t] = t_slot[t] /\ t_if'[t] = t_if[t]
    BY <1>2 DEF OutputReturn, Goto, Frame, ThreadTypes
  <2>2. SameTable
    BY <2>1, KeepTable DEF HiddenPCs, OutPCs
  <2>3. SameHolders
    BY <2>1, KeepHolders DEF OutPCs
  <2> QED
    BY <2>2, <2>3
<1> QED
  BY <1>1, <1>2

\* The steps that only move a thread that neither takes nor gives back a token.
SilentAction(t) ==
  \/ \E f \in Files : BeginOpen(t, f) \/ BeginClose(t, f)
  \/ \E f \in Files, label \in {"read_lock", "poll_lock", "write_lock"} :
        BeginCall(t, f, label)
  \/ \E n \in Ids : BeginOutput(t, n)
  \/ BeginBroadcast(t) \/ acquire_idx(t) \/ SetSoftc(t) \/ SetCdevpriv(t)
  \/ CallStep(t) \/ InterruptRead(t) \/ OutputStep(t) \/ BroadcastSend(t)
  \/ DtorLock(t) \/ DtorTinyLock(t) \/ DtorUnlock(t) \/ release_idx(t)

LEMMA SilentActions ==
  ASSUME TypeInv, NEW t \in Threads, SilentAction(t)
  PROVE  SameTable /\ SameHolders
<1> SharedTypes /\ ThreadTypes /\ Locals
  BY SplitTypes DEF ThreadInv
<1> NoSlot \notin Slots
  BY TunAssumption DEF NoSlot, Slots
<1>1. ASSUME NEW f \in Files, BeginOpen(t, f) PROVE SameTable /\ SameHolders
  <2>1. /\ Frame(t) /\ UNCHANGED <<ifaces, state, idx, iface>>
        /\ pc[t] # "dtor_clear" /\ pc'[t] # "dtor_clear"
        /\ \/ pc[t] \notin HiddenPCs /\ pc'[t] \notin HiddenPCs
           \/ pc[t] \in HiddenPCs /\ pc'[t] \in HiddenPCs /\ t_op'[t] = t_op[t]
        /\ \/ /\ ~(t_slot[t] \in Slots /\ pc[t] \in OutPCs \cup {"bcast_addr"})
              /\ ~(t_slot'[t] \in Slots /\ pc'[t] \in OutPCs \cup {"bcast_addr"})
           \/ /\ pc[t] \in OutPCs \cup {"bcast_addr"}
              /\ pc'[t] \in OutPCs \cup {"bcast_addr"}
              /\ t_slot'[t] = t_slot[t] /\ t_if'[t] = t_if[t]
    BY <1>1 DEF BeginOpen, Goto, Frame, ThreadTypes, Locals, HiddenPCs, OutPCs, slotVars, opVars, thVars
  <2> QED
    BY <2>1, KeepTable, KeepHolders
<1>2. ASSUME acquire_idx(t) PROVE SameTable /\ SameHolders
  <2>1. CASE Return(t)
    BY <1>2, <2>1, ReturnHolders DEF acquire_idx, HiddenPCs, OutPCs, opVars
  <2>2. CASE ~Return(t)
    <3>1. Frame(t) /\ pc[t] \in NewPCs /\ pc'[t] \in NewPCs
          /\ UNCHANGED <<ifaces, state, idx, iface>>
      BY <1>2, <2>2 DEF acquire_idx, Goto, Frame, ThreadTypes, NewPCs, opVars
    <3> QED
      BY <3>1, KeepTable, KeepHolders DEF HiddenPCs, OutPCs, NewPCs
  <2> QED
    BY <2>1, <2>2
<1>3. ASSUME SetSoftc(t) PROVE SameTable /\ SameHolders
  <2>1. /\ Frame(t) /\ UNCHANGED <<ifaces, state, idx, iface>>
        /\ pc[t] # "dtor_clear" /\ pc'[t] # "dtor_clear"
        /\ \/ pc[t] \notin HiddenPCs /\ pc'[t] \notin HiddenPCs
           \/ pc[t] \in HiddenPCs /\ pc'[t] \in HiddenPCs /\ t_op'[t] = t_op[t]
        /\ \/ /\ ~(t_slot[t] \in Slots /\ pc[t] \in OutPCs \cup {"bcast_addr"})
              /\ ~(t_slot'[t] \in Slots /\ pc'[t] \in OutPCs \cup {"bcast_addr"})
           \/ /\ pc[t] \in OutPCs \cup {"bcast_addr"}
              /\ pc'[t] \in OutPCs \cup {"bcast_addr"}
              /\ t_slot'[t] = t_slot[t] /\ t_if'[t] = t_if[t]
    BY <1>3 DEF SetSoftc, Goto, Frame, ThreadTypes, Locals, HiddenPCs, OutPCs, slotVars, opVars, thVars
  <2> QED
    BY <2>1, KeepTable, KeepHolders
<1>4. ASSUME SetCdevpriv(t) PROVE SameTable /\ SameHolders
  BY <1>4, ReturnHolders DEF SetCdevpriv, HiddenPCs, OutPCs, slotVars, opVars
<1>5. ASSUME NEW f \in Files, NEW label, BeginCall(t, f, label) PROVE SameTable /\ SameHolders
  <2>1. /\ Frame(t) /\ UNCHANGED <<ifaces, state, idx, iface>>
        /\ pc[t] # "dtor_clear" /\ pc'[t] # "dtor_clear"
        /\ \/ pc[t] \notin HiddenPCs /\ pc'[t] \notin HiddenPCs
           \/ pc[t] \in HiddenPCs /\ pc'[t] \in HiddenPCs /\ t_op'[t] = t_op[t]
        /\ \/ /\ ~(t_slot[t] \in Slots /\ pc[t] \in OutPCs \cup {"bcast_addr"})
              /\ ~(t_slot'[t] \in Slots /\ pc'[t] \in OutPCs \cup {"bcast_addr"})
           \/ /\ pc[t] \in OutPCs \cup {"bcast_addr"}
              /\ pc'[t] \in OutPCs \cup {"bcast_addr"}
              /\ t_slot'[t] = t_slot[t] /\ t_if'[t] = t_if[t]
    BY <1>5 DEF BeginCall, Goto, Frame, ThreadTypes, Locals, HiddenPCs, OutPCs, slotVars, opVars, thVars
  <2> QED
    BY <2>1, KeepTable, KeepHolders
<1>6. ASSUME TinyLock(t) PROVE SameTable /\ SameHolders
  <2>1. /\ Frame(t) /\ UNCHANGED <<ifaces, state, idx, iface>>
        /\ pc[t] # "dtor_clear" /\ pc'[t] # "dtor_clear"
        /\ \/ pc[t] \notin HiddenPCs /\ pc'[t] \notin HiddenPCs
           \/ pc[t] \in HiddenPCs /\ pc'[t] \in HiddenPCs /\ t_op'[t] = t_op[t]
        /\ \/ /\ ~(t_slot[t] \in Slots /\ pc[t] \in OutPCs \cup {"bcast_addr"})
              /\ ~(t_slot'[t] \in Slots /\ pc'[t] \in OutPCs \cup {"bcast_addr"})
           \/ /\ pc[t] \in OutPCs \cup {"bcast_addr"}
              /\ pc'[t] \in OutPCs \cup {"bcast_addr"}
              /\ t_slot'[t] = t_slot[t] /\ t_if'[t] = t_if[t]
    BY <1>6 DEF TinyLock, Goto, Frame, ThreadTypes, Locals, HiddenPCs, OutPCs, slotVars, opVars, thVars
  <2> QED
    BY <2>1, KeepTable, KeepHolders
<1>7. ASSUME tun_read(t) PROVE SameTable /\ SameHolders
  BY <1>7, ReturnHolders DEF tun_read, HiddenPCs, OutPCs, slotVars, opVars
<1>8. ASSUME InterruptRead(t) PROVE SameTable /\ SameHolders
  BY <1>8, ReturnHolders DEF InterruptRead, HiddenPCs, OutPCs, slotVars, opVars
<1>9. ASSUME tun_poll(t) PROVE SameTable /\ SameHolders
  BY <1>9, ReturnHolders DEF tun_poll, HiddenPCs, OutPCs, slotVars, opVars
<1>10. ASSUME WriteLock(t) PROVE SameTable /\ SameHolders
  <2>1. /\ Frame(t) /\ UNCHANGED <<ifaces, state, idx, iface>>
        /\ pc[t] # "dtor_clear" /\ pc'[t] # "dtor_clear"
        /\ \/ pc[t] \notin HiddenPCs /\ pc'[t] \notin HiddenPCs
           \/ pc[t] \in HiddenPCs /\ pc'[t] \in HiddenPCs /\ t_op'[t] = t_op[t]
        /\ \/ /\ ~(t_slot[t] \in Slots /\ pc[t] \in OutPCs \cup {"bcast_addr"})
              /\ ~(t_slot'[t] \in Slots /\ pc'[t] \in OutPCs \cup {"bcast_addr"})
           \/ /\ pc[t] \in OutPCs \cup {"bcast_addr"}
              /\ pc'[t] \in OutPCs \cup {"bcast_addr"}
              /\ t_slot'[t] = t_slot[t] /\ t_if'[t] = t_if[t]
    BY <1>10 DEF WriteLock, Goto, Frame, ThreadTypes, Locals, HiddenPCs, OutPCs, slotVars, opVars, thVars
  <2> QED
    BY <2>1, KeepTable, KeepHolders
<1>11. ASSUME tun_write(t) PROVE SameTable /\ SameHolders
  BY <1>11, ReturnHolders DEF tun_write, HiddenPCs, OutPCs, slotVars, opVars
<1>12. ASSUME NEW f \in Files, BeginClose(t, f) PROVE SameTable /\ SameHolders
  <2>1. /\ Frame(t) /\ UNCHANGED <<ifaces, state, idx, iface>>
        /\ pc[t] # "dtor_clear" /\ pc'[t] # "dtor_clear"
        /\ \/ pc[t] \notin HiddenPCs /\ pc'[t] \notin HiddenPCs
           \/ pc[t] \in HiddenPCs /\ pc'[t] \in HiddenPCs /\ t_op'[t] = t_op[t]
        /\ \/ /\ ~(t_slot[t] \in Slots /\ pc[t] \in OutPCs \cup {"bcast_addr"})
              /\ ~(t_slot'[t] \in Slots /\ pc'[t] \in OutPCs \cup {"bcast_addr"})
           \/ /\ pc[t] \in OutPCs \cup {"bcast_addr"}
              /\ pc'[t] \in OutPCs \cup {"bcast_addr"}
              /\ t_slot'[t] = t_slot[t] /\ t_if'[t] = t_if[t]
    BY <1>12 DEF BeginClose, Goto, Frame, ThreadTypes, Locals, HiddenPCs, OutPCs, slotVars, opVars, thVars
  <2> QED
    BY <2>1, KeepTable, KeepHolders
<1>13. ASSUME DtorLock(t) PROVE SameTable /\ SameHolders
  <2>1. /\ Frame(t) /\ UNCHANGED <<ifaces, state, idx, iface>>
        /\ pc[t] # "dtor_clear" /\ pc'[t] # "dtor_clear"
        /\ \/ pc[t] \notin HiddenPCs /\ pc'[t] \notin HiddenPCs
           \/ pc[t] \in HiddenPCs /\ pc'[t] \in HiddenPCs /\ t_op'[t] = t_op[t]
        /\ \/ /\ ~(t_slot[t] \in Slots /\ pc[t] \in OutPCs \cup {"bcast_addr"})
              /\ ~(t_slot'[t] \in Slots /\ pc'[t] \in OutPCs \cup {"bcast_addr"})
           \/ /\ pc[t] \in OutPCs \cup {"bcast_addr"}
              /\ pc'[t] \in OutPCs \cup {"bcast_addr"}
              /\ t_slot'[t] = t_slot[t] /\ t_if'[t] = t_if[t]
    BY <1>13 DEF DtorLock, Goto, Frame, ThreadTypes, Locals, HiddenPCs, OutPCs, slotVars, opVars, thVars
  <2> QED
    BY <2>1, KeepTable, KeepHolders
<1>14. ASSUME DtorTinyLock(t) PROVE SameTable /\ SameHolders
  <2>1. /\ Frame(t) /\ UNCHANGED <<ifaces, state, idx, iface>>
        /\ pc[t] # "dtor_clear" /\ pc'[t] # "dtor_clear"
        /\ \/ pc[t] \notin HiddenPCs /\ pc'[t] \notin HiddenPCs
           \/ pc[t] \in HiddenPCs /\ pc'[t] \in HiddenPCs /\ t_op'[t] = t_op[t]
        /\ \/ /\ ~(t_slot[t] \in Slots /\ pc[t] \in OutPCs \cup {"bcast_addr"})
              /\ ~(t_slot'[t] \in Slots /\ pc'[t] \in OutPCs \cup {"bcast_addr"})
           \/ /\ pc[t] \in OutPCs \cup {"bcast_addr"}
              /\ pc'[t] \in OutPCs \cup {"bcast_addr"}
              /\ t_slot'[t] = t_slot[t] /\ t_if'[t] = t_if[t]
    BY <1>14 DEF DtorTinyLock, Goto, Frame, ThreadTypes, Locals, HiddenPCs, OutPCs, slotVars, opVars, thVars
  <2> QED
    BY <2>1, KeepTable, KeepHolders
<1>15. ASSUME DtorUnlock(t) PROVE SameTable /\ SameHolders
  <2>1. /\ Frame(t) /\ UNCHANGED <<ifaces, state, idx, iface>>
        /\ pc[t] # "dtor_clear" /\ pc'[t] # "dtor_clear"
        /\ \/ pc[t] \notin HiddenPCs /\ pc'[t] \notin HiddenPCs
           \/ pc[t] \in HiddenPCs /\ pc'[t] \in HiddenPCs /\ t_op'[t] = t_op[t]
        /\ \/ /\ ~(t_slot[t] \in Slots /\ pc[t] \in OutPCs \cup {"bcast_addr"})
              /\ ~(t_slot'[t] \in Slots /\ pc'[t] \in OutPCs \cup {"bcast_addr"})
           \/ /\ pc[t] \in OutPCs \cup {"bcast_addr"}
              /\ pc'[t] \in OutPCs \cup {"bcast_addr"}
              /\ t_slot'[t] = t_slot[t] /\ t_if'[t] = t_if[t]
    BY <1>15 DEF DtorUnlock, Goto, Frame, ThreadTypes, Locals, HiddenPCs, OutPCs, slotVars, opVars, thVars
  <2> QED
    BY <2>1, KeepTable, KeepHolders
<1>16. ASSUME release_idx(t) PROVE SameTable /\ SameHolders
  BY <1>16, ReturnHolders DEF release_idx, HiddenPCs, OutPCs, slotVars, opVars
<1>17. ASSUME NEW n \in Ids, BeginOutput(t, n) PROVE SameTable /\ SameHolders
  <2>1. /\ Frame(t) /\ UNCHANGED <<ifaces, state, idx, iface>>
        /\ pc[t] # "dtor_clear" /\ pc'[t] # "dtor_clear"
        /\ \/ pc[t] \notin HiddenPCs /\ pc'[t] \notin HiddenPCs
           \/ pc[t] \in HiddenPCs /\ pc'[t] \in HiddenPCs /\ t_op'[t] = t_op[t]
        /\ \/ /\ ~(t_slot[t] \in Slots /\ pc[t] \in OutPCs \cup {"bcast_addr"})
              /\ ~(t_slot'[t] \in Slots /\ pc'[t] \in OutPCs \cup {"bcast_addr"})
           \/ /\ pc[t] \in OutPCs \cup {"bcast_addr"}
              /\ pc'[t] \in OutPCs \cup {"bcast_addr"}
              /\ t_slot'[t] = t_slot[t] /\ t_if'[t] = t_if[t]
    BY <1>17 DEF BeginOutput, Goto, Frame, ThreadTypes, Locals, HiddenPCs, OutPCs, slotVars, opVars, thVars
  <2> QED
    BY <2>1, KeepTable, KeepHolders
<1>18. ASSUME OutputSoftc(t) PROVE SameTable /\ SameHolders
  <2>1. CASE OutputReturn(t)
    BY <1>18, <2>1, OutputReturnHolders DEF OutputSoftc, OutPCs, slotVars, opVars
  <2>2. CASE ~OutputReturn(t)
    <3>1. /\ Frame(t) /\ UNCHANGED <<ifaces, state, idx, iface>>
          /\ pc[t] # "dtor_clear" /\ pc'[t] # "dtor_clear"
          /\ \/ pc[t] \notin HiddenPCs /\ pc'[t] \notin HiddenPCs
             \/ pc[t] \in HiddenPCs /\ pc'[t] \in HiddenPCs /\ t_op'[t] = t_op[t]
          /\ \/ /\ ~(t_slot[t] \in Slots /\ pc[t] \in OutPCs \cup {"bcast_addr"})
                /\ ~(t_slot'[t] \in Slots /\ pc'[t] \in OutPCs \cup {"bcast_addr"})
             \/ /\ pc[t] \in OutPCs \cup {"bcast_addr"}
                /\ pc'[t] \in OutPCs \cup {"bcast_addr"}
                /\ t_slot'[t] = t_slot[t] /\ t_if'[t] = t_if[t]
      BY <1>18, <2>2 DEF OutputSoftc, Goto, Frame, ThreadTypes, Locals, HiddenPCs, OutPCs, slotVars, opVars, thVars
    <3> QED
      BY <3>1, KeepTable, KeepHolders
  <2> QED
    BY <2>1, <2>2
<1>19. ASSUME OutputLock(t) PROVE SameTable /\ SameHolders
  <2>1. /\ Frame(t) /\ UNCHANGED <<ifaces, state, idx, iface>>
        /\ pc[t] # "dtor_clear" /\ pc'[t] # "dtor_clear"
        /\ \/ pc[t] \notin HiddenPCs /\ pc'[t] \notin HiddenPCs
           \/ pc[t] \in HiddenPCs /\ pc'[t] \in HiddenPCs /\ t_op'[t] = t_op[t]
        /\ \/ /\ ~(t_slot[t] \in Slots /\ pc[t] \in OutPCs \cup {"bcast_addr"})
              /\ ~(t_slot'[t] \in Slots /\ pc'[t] \in OutPCs \cup {"bcast_addr"})
           \/ /\ pc[t] \in OutPCs \cup {"bcast_addr"}
              /\ pc'[t] \in OutPCs \cup {"bcast_addr"}
              /\ t_slot'[t] = t_slot[t] /\ t_if'[t] = t_if[t]
    BY <1>19 DEF OutputLock, Goto, Frame, ThreadTypes, Locals, HiddenPCs, OutPCs, slotVars, opVars, thVars
  <2> QED
    BY <2>1, KeepTable, KeepHolders
<1>20. ASSUME tun_output(t) PROVE SameTable /\ SameHolders
  <2>1. CASE OutputReturn(t)
    BY <1>20, <2>1, OutputReturnHolders DEF tun_output, OutPCs, slotVars, opVars
  <2>2. CASE ~OutputReturn(t)
    <3>1. /\ Frame(t) /\ UNCHANGED <<ifaces, state, idx, iface>>
          /\ pc[t] # "dtor_clear" /\ pc'[t] # "dtor_clear"
          /\ \/ pc[t] \notin HiddenPCs /\ pc'[t] \notin HiddenPCs
             \/ pc[t] \in HiddenPCs /\ pc'[t] \in HiddenPCs /\ t_op'[t] = t_op[t]
          /\ \/ /\ ~(t_slot[t] \in Slots /\ pc[t] \in OutPCs \cup {"bcast_addr"})
                /\ ~(t_slot'[t] \in Slots /\ pc'[t] \in OutPCs \cup {"bcast_addr"})
             \/ /\ pc[t] \in OutPCs \cup {"bcast_addr"}
                /\ pc'[t] \in OutPCs \cup {"bcast_addr"}
                /\ t_slot'[t] = t_slot[t] /\ t_if'[t] = t_if[t]
      BY <1>20, <2>2 DEF tun_output, Goto, Frame, ThreadTypes, Locals, HiddenPCs, OutPCs, slotVars, opVars, thVars
    <3> QED
      BY <3>1, KeepTable, KeepHolders
  <2> QED
    BY <2>1, <2>2
<1>21. ASSUME BeginBroadcast(t) PROVE SameTable /\ SameHolders
  <2>1. /\ Frame(t) /\ UNCHANGED <<ifaces, state, idx, iface>>
        /\ pc[t] # "dtor_clear" /\ pc'[t] # "dtor_clear"
        /\ \/ pc[t] \notin HiddenPCs /\ pc'[t] \notin HiddenPCs
           \/ pc[t] \in HiddenPCs /\ pc'[t] \in HiddenPCs /\ t_op'[t] = t_op[t]
        /\ \/ /\ ~(t_slot[t] \in Slots /\ pc[t] \in OutPCs \cup {"bcast_addr"})
              /\ ~(t_slot'[t] \in Slots /\ pc'[t] \in OutPCs \cup {"bcast_addr"})
           \/ /\ pc[t] \in OutPCs \cup {"bcast_addr"}
              /\ pc'[t] \in OutPCs \cup {"bcast_addr"}
              /\ t_slot'[t] = t_slot[t] /\ t_if'[t] = t_if[t]
    BY <1>21 DEF BeginBroadcast, Goto, Frame, ThreadTypes, Locals, HiddenPCs, OutPCs, slotVars, opVars, thVars
  <2> QED
    BY <2>1, KeepTable, KeepHolders
<1>22. ASSUME BroadcastSend(t) PROVE SameTable /\ SameHolders
  <2>1. /\ Frame(t) /\ UNCHANGED <<ifaces, state, idx, iface>>
        /\ pc[t] # "dtor_clear" /\ pc'[t] # "dtor_clear"
        /\ \/ pc[t] \notin HiddenPCs /\ pc'[t] \notin HiddenPCs
           \/ pc[t] \in HiddenPCs /\ pc'[t] \in HiddenPCs /\ t_op'[t] = t_op[t]
        /\ \/ /\ ~(t_slot[t] \in Slots /\ pc[t] \in OutPCs \cup {"bcast_addr"})
              /\ ~(t_slot'[t] \in Slots /\ pc'[t] \in OutPCs \cup {"bcast_addr"})
           \/ /\ pc[t] \in OutPCs \cup {"bcast_addr"}
              /\ pc'[t] \in OutPCs \cup {"bcast_addr"}
              /\ t_slot'[t] = t_slot[t] /\ t_if'[t] = t_if[t]
    BY <1>22 DEF BroadcastSend, Goto, Frame, ThreadTypes, Locals, HiddenPCs, OutPCs, slotVars, opVars, thVars
  <2> QED
    BY <2>1, KeepTable, KeepHolders
<1> QED
  BY <1>1, <1>2, <1>3, <1>4, <1>5, <1>6, <1>7, <1>8, <1>9, <1>10, <1>11, <1>12,
     <1>13, <1>14, <1>15, <1>16, <1>17, <1>18, <1>19, <1>20, <1>21, <1>22 DEF
     SilentAction, CallStep, OutputStep

LEMMA SilentAlloc ==
  ASSUME UnitInv, ~idx_lost', NEW t \in Threads, NEW c \in Ids, opaque_alloc(t, c)
  PROVE  SameTable /\ SameHolders
<1>1. Allocatable(t, c) /\ Allocated(t, c)
  BY AllocFacts, AllocEffect
<1>2. Locals
  BY SplitTypes DEF UnitInv, ThreadInv
<1>3. SameTable
  BY <1>1, <1>2 DEF SameTable, Allocatable, Allocated, Frame, Published, Owning, Holding, HiddenPCs,
     OwnPCs, OpenPCs, DtorPCs
<1>4. ASSUME NEW u \in Threads, NEW i \in Slots
      PROVE  DtorHolds(u, i)' <=> DtorHolds(u, i)
  BY <1>1, <1>2 DEF Allocatable, Allocated, Frame, DtorHolds, OwnPCs, DtorPCs, Locals
<1>5. ASSUME NEW u \in Threads, NEW i \in Slots
      PROVE  /\ BroadcastHolds(u, i)' <=> BroadcastHolds(u, i)
             /\ BroadcastHolds(u, i) => t_if'[u] = t_if[u]
  BY <1>1 DEF Allocated, Frame, BroadcastHolds, OutPCs
<1>6. SameHolders
  BY <1>4, <1>5 DEF SameHolders
<1> QED
  BY <1>3, <1>6

LEMMA SilentDtor ==
  ASSUME UnitInv, NEW t \in Threads, DtorDetach(t) \/ DtorFree(t)
  PROVE  SameTable /\ SameHolders
<1>1. SharedTypes /\ ThreadTypes /\ Locals
  BY SplitTypes DEF UnitInv, ThreadInv
<1>2. /\ Frame(t) /\ UNCHANGED <<ifaces, idx, iface>> /\ t_op'[t] = t_op[t]
      /\ \/ pc[t] = "dtor_detach" /\ pc'[t] = "dtor_unlock" /\ state'[t_op[t]] = "closed"
         \/ pc[t] = "dtor_free" /\ pc'[t] = "release_idx" /\ state'[t_op[t]] = "freed"
      /\ \A d \in Ids \ {t_op[t]} : state'[d] = state[d]
  <2>1. t_op[t] \in Ids
    BY <1>1 DEF DtorDetach, DtorFree, Locals, OwnPCs, DtorPCs
  <2> QED
    BY <1>1, <2>1 DEF DtorDetach, DtorFree, Goto, Frame, SharedTypes, ThreadTypes, slotVars
<1>3. \A c \in Ids : Published(c)' <=> Published(c)
  <2>1. ASSUME NEW c \in Ids, c = t_op[t] PROVE ~Published(c) /\ ~Published(c)'
    BY <1>2, <2>1 DEF Published, HiddenPCs, UnitInv, Lifecycle
  <2>2. ASSUME NEW c \in Ids, c # t_op[t] PROVE Published(c)' <=> Published(c)
    BY <1>2, <2>2 DEF Published, HiddenPCs, Frame
  <2> QED
    BY <2>1, <2>2
<1>4. SameTable
  BY <1>2, <1>3 DEF SameTable
<1>5. SameHolders
  BY <1>2, KeepHolders DEF OutPCs
<1> QED
  BY <1>4, <1>5

\* A step that writes v to slot i: what must hold of that slot, the others keep theirs.
OtherSlotsKept(i) ==
  /\ UNCHANGED <<idx, iface>>
  /\ \A c \in Ids : idx[c] # i => (Published(c)' <=> Published(c))
  /\ \A u \in Threads, j \in Slots \ {i} :
       /\ DtorHolds(u, j)' <=> DtorHolds(u, j)
       /\ BroadcastHolds(u, j)' <=> BroadcastHolds(u, j)
       /\ BroadcastHolds(u, j) => t_if'[u] = t_if[u]

SlotGets(i, v) ==
  /\ \A c \in Ids : Published(c)' /\ idx[c] = i => v \in {iface[c], IFACE_ACQUIRED}
  /\ v # NULL => \E c \in Ids : Published(c)' /\ idx[c] = i
  /\ v = IFACE_ACQUIRED => \E u \in Threads : Holds(u, i)'
  /\ \A u \in Threads : Holds(u, i)' => v = IFACE_ACQUIRED
  /\ \A u, w \in Threads : Holds(u, i)' /\ Holds(w, i)' => u = w
  /\ \A u \in Threads, c \in Ids :
       BroadcastHolds(u, i)' /\ Published(c)' /\ idx[c] = i => t_if'[u] = iface[c]

LEMMA SlotStep ==
  ASSUME IfaceInv, NEW i \in Slots, NEW v, ifaces' = [ifaces EXCEPT ![i] = v],
         OtherSlotsKept(i), SlotGets(i, v)
  PROVE  Table' /\ Token'
<1>1. SharedTypes
  BY SplitTypes DEF IfaceInv, UnitInv
<1>2. ifaces'[i] = v /\ \A j \in Slots \ {i} : ifaces'[j] = ifaces[j]
  BY <1>1 DEF SharedTypes
<1>3. Table'
  <2>1. \A c \in Ids : Published(c)' => ifaces'[idx'[c]] \in {iface'[c], IFACE_ACQUIRED}
    BY <1>1, <1>2 DEF SharedTypes, OtherSlotsKept, SlotGets, IfaceInv, Table
  <2>2. \A j \in Slots : ifaces'[j] # NULL => \E c \in Ids : Published(c)' /\ idx'[c] = j
    BY <1>1, <1>2 DEF SharedTypes, OtherSlotsKept, SlotGets, IfaceInv, Table
  <2> QED
    BY <2>1, <2>2 DEF Table
<1>4. \A u \in Threads, j \in Slots \ {i} : Holds(u, j)' <=> Holds(u, j)
  BY DEF Holds, OtherSlotsKept
<1>5. Token'
  <2>1. \A j \in Slots : ifaces'[j] = IFACE_ACQUIRED => \E u \in Threads : Holds(u, j)'
    BY <1>2, <1>4 DEF SlotGets, IfaceInv, Token
  <2>2. \A j \in Slots, u \in Threads : Holds(u, j)' => ifaces'[j] = IFACE_ACQUIRED
    BY <1>2, <1>4 DEF SlotGets, IfaceInv, Token
  <2>3. \A j \in Slots, u, w \in Threads : Holds(u, j)' /\ Holds(w, j)' => u = w
    BY <1>4 DEF SlotGets, IfaceInv, Token
  <2>4. \A j \in Slots, u \in Threads, c \in Ids :
          BroadcastHolds(u, j)' /\ Published(c)' /\ idx'[c] = j => t_if'[u] = iface'[c]
    BY DEF OtherSlotsKept, SlotGets, IfaceInv, Token
  <2> QED
    BY <2>1, <2>2, <2>3, <2>4 DEF Token
<1> QED
  BY <1>3, <1>5

LEMMA PublishStep ==
  ASSUME IfaceInv, NEW t \in Threads, PublishIface(t)
  PROVE  Table' /\ Token'
<1>0. SharedTypes /\ ThreadTypes /\ Locals /\ UnitInv
  BY SplitTypes DEF IfaceInv, UnitInv, ThreadInv
<1>1. PICK i \in Slots, c \in Ids, v \in Ids :
        /\ i = t_slot[t] /\ c = t_op[t] /\ v = iface[c]
        /\ idx[c] = i /\ state[c] = "live"
  BY <1>0 DEF PublishIface, Locals, OwnPCs, OpenPCs, UnitInv, SlotOwners, Lifecycle, LiveIfaces
<1>2. /\ Frame(t) /\ pc[t] = "release_iface" /\ pc'[t] = "unlock_new" /\ t_op'[t] = c
      /\ UNCHANGED <<state, idx, iface>>
  BY <1>0, <1>1 DEF PublishIface, Goto, Frame, ThreadTypes
<1>3. ~Published(c) /\ Published(c)'
  BY <1>0, <1>1, <1>2 DEF Published, HiddenPCs, Frame, UnitInv, Ownership, OwnPCs, OpenPCs, DtorPCs
<1>4. \A d \in Ids \ {c} : Published(d)' <=> Published(d)
  BY <1>1, <1>2 DEF Published, HiddenPCs, Frame
<1>5. \A d \in Ids \ {c} : Published(d) => idx[d] # i
  BY <1>0, <1>1 DEF Published, UnitInv, SlotOwners, Owning, Holding
<1>6. ifaces[i] = NULL
  BY <1>1, <1>3, <1>5 DEF IfaceInv, Table
<1>7. \A u \in Threads, j \in Slots :
        /\ DtorHolds(u, j)' <=> DtorHolds(u, j)
        /\ BroadcastHolds(u, j)' <=> BroadcastHolds(u, j)
        /\ BroadcastHolds(u, j) => t_if'[u] = t_if[u]
  BY <1>2 DEF Frame, DtorHolds, BroadcastHolds, OutPCs
<1>8. \A u \in Threads : ~Holds(u, i)'
  BY <1>1, <1>6, <1>7, NotIds DEF Holds, IfaceInv, Token
<1>9. OtherSlotsKept(i)
  BY <1>1, <1>2, <1>4, <1>7 DEF OtherSlotsKept
<1>10. SlotGets(i, v)
  BY <1>1, <1>3, <1>4, <1>5, <1>8, NotIds DEF SlotGets, Holds
<1>11. ifaces' = [ifaces EXCEPT ![i] = v]
  BY <1>1 DEF PublishIface
<1> QED
  BY <1>1, <1>9, <1>10, <1>11, SlotStep

LEMMA DtorAcquireStep ==
  ASSUME IfaceInv, NEW t \in Threads, DtorAcquire(t)
  PROVE  Table' /\ Token'
<1>0. SharedTypes /\ ThreadTypes /\ Locals /\ UnitInv
  BY SplitTypes DEF IfaceInv, UnitInv, ThreadInv
<1>1. PICK i \in Slots, c \in Ids :
        /\ c = t_op[t] /\ i = idx[c] /\ pc[t] = "dtor_token"
        /\ Published(c) /\ iface[c] \in Ids
  BY <1>0, PublishedFacts DEF DtorAcquire
<1>2. /\ Frame(t) /\ pc'[t] = "dtor_clear" /\ t_op'[t] = c
      /\ UNCHANGED <<state, idx, iface>>
  BY <1>0, <1>1 DEF DtorAcquire, Goto, Frame, ThreadTypes, opVars
<1>3. ifaces[i] = iface[c]
  BY <1>1 DEF DtorAcquire, acquire_iface, IfaceInv, Table
<1>4. ifaces' = [ifaces EXCEPT ![i] = IFACE_ACQUIRED]
  BY <1>1, <1>3, NotIds DEF DtorAcquire, acquire_iface
<1>5. \A u \in Threads : ~Holds(u, i)
  BY <1>1, <1>3, NotIds DEF IfaceInv, Token
<1>6. \A d \in Ids : Published(d)' <=> Published(d)
  BY <1>1, <1>2 DEF Published, HiddenPCs, Frame
<1>7. \A u \in Threads, j \in Slots :
        /\ DtorHolds(u, j)' <=> DtorHolds(u, j) \/ (u = t /\ j = i)
        /\ BroadcastHolds(u, j)' <=> BroadcastHolds(u, j)
        /\ BroadcastHolds(u, j) => t_if'[u] = t_if[u]
  BY <1>1, <1>2 DEF Frame, DtorHolds, BroadcastHolds, OutPCs
<1>8. OtherSlotsKept(i)
  BY <1>2, <1>6, <1>7 DEF OtherSlotsKept
<1>9. SlotGets(i, IFACE_ACQUIRED)
  BY <1>1, <1>5, <1>6, <1>7 DEF SlotGets, Holds
<1> QED
  BY <1>1, <1>4, <1>8, <1>9, SlotStep

LEMMA DtorClearStep ==
  ASSUME IfaceInv, NEW t \in Threads, DtorClear(t)
  PROVE  Table' /\ Token'
<1>0. SharedTypes /\ ThreadTypes /\ Locals /\ UnitInv
  BY SplitTypes DEF IfaceInv, UnitInv, ThreadInv
<1>1. PICK i \in Slots, c \in Ids :
        c = t_op[t] /\ i = idx[c] /\ pc[t] = "dtor_clear" /\ Published(c)
  BY <1>0, PublishedFacts DEF DtorClear
<1>2. /\ Frame(t) /\ pc'[t] = "dtor_flock" /\ t_op'[t] = c
      /\ UNCHANGED <<state, idx, iface>>
  BY <1>0, <1>1 DEF DtorClear, Goto, Frame, ThreadTypes, opVars
<1>3. ifaces' = [ifaces EXCEPT ![i] = NULL]
  BY <1>1 DEF DtorClear
<1>4. \A u \in Threads : Holds(u, i) => u = t
  BY <1>1 DEF IfaceInv, Token, Holds, DtorHolds
<1>5. ~Published(c)' /\ \A d \in Ids \ {c} : Published(d)' <=> Published(d)
  BY <1>1, <1>2 DEF Published, HiddenPCs, Frame
<1>6. \A d \in Ids : Published(d)' => idx[d] # i
  BY <1>0, <1>1, <1>5, PublishedFacts
<1>7. \A u \in Threads, j \in Slots :
        /\ DtorHolds(u, j)' <=> DtorHolds(u, j) /\ u # t
        /\ BroadcastHolds(u, j)' <=> BroadcastHolds(u, j)
        /\ BroadcastHolds(u, j) => t_if'[u] = t_if[u] /\ u # t
  BY <1>1, <1>2 DEF Frame, DtorHolds, BroadcastHolds, OutPCs
<1>8. \A u \in Threads : ~Holds(u, i)'
  BY <1>1, <1>4, <1>7 DEF Holds
<1>9. OtherSlotsKept(i)
  BY <1>1, <1>2, <1>5, <1>7 DEF OtherSlotsKept, DtorHolds
<1>10. SlotGets(i, NULL)
  BY <1>6, <1>8, NotIds DEF SlotGets, Holds
<1> QED
  BY <1>1, <1>3, <1>9, <1>10, SlotStep

LEMMA BroadcastAcquireStep ==
  ASSUME IfaceInv, NEW t \in Threads, NEW n \in 0 .. MaxAddrs, BroadcastAcquire(t, n)
  PROVE  Table' /\ Token'
<1>0. SharedTypes /\ ThreadTypes /\ Locals /\ UnitInv
  BY SplitTypes DEF IfaceInv, UnitInv, ThreadInv
<1>1. PICK i \in Slots :
        i = t_slot[t] /\ pc[t] = "bcast_acquire" /\ UNCHANGED <<state, idx, iface>>
  BY <1>0 DEF BroadcastAcquire, Locals, opVars
<1>2. CASE ifaces[i] = NULL
  <2>1. UNCHANGED ifaces /\ NextSlot(t)
    BY <1>1, <1>2 DEF BroadcastAcquire, acquire_iface
  <2>2. Frame(t) /\ pc'[t] \in {"idle", "bcast_acquire"}
    BY <1>0, <2>1, NextSlotFrame
  <2>3. SameTable
    BY <1>1, <2>1, <2>2, KeepTable DEF HiddenPCs
  <2>4. SameHolders
    BY <1>1, <2>2, KeepHolders DEF OutPCs
  <2> QED
    BY <2>3, <2>4, SilentStep
<1>3. CASE ifaces[i] # NULL
  <2>1. /\ ifaces[i] \in Ids /\ ifaces' = [ifaces EXCEPT ![i] = IFACE_ACQUIRED]
        /\ t_if' = [t_if EXCEPT ![t] = ifaces[i]] /\ Goto(t, "bcast_addr")
        /\ UNCHANGED <<t_slot, t_op>>
    BY <1>1, <1>3 DEF BroadcastAcquire, acquire_iface
  <2>2. /\ Frame(t) /\ pc'[t] = "bcast_addr" /\ t_if'[t] = ifaces[i] /\ t_slot'[t] = i
    BY <1>0, <1>1, <2>1 DEF Goto, Frame, ThreadTypes
  <2>3. \A u \in Threads : ~Holds(u, i)
    BY <1>1, <2>1, NotIds DEF IfaceInv, Token
  <2>4. \A d \in Ids : Published(d)' <=> Published(d)
    BY <1>1, <2>2 DEF Published, HiddenPCs, Frame
  <2>5. \A d \in Ids : Published(d) /\ idx[d] = i => iface[d] = ifaces[i]
    BY <2>1, NotIds DEF IfaceInv, Table
  <2>6. \A u \in Threads, j \in Slots :
          /\ DtorHolds(u, j)' <=> DtorHolds(u, j)
          /\ BroadcastHolds(u, j)' <=> BroadcastHolds(u, j) \/ (u = t /\ j = i)
          /\ BroadcastHolds(u, j) => t_if'[u] = t_if[u]
    BY <1>1, <2>2 DEF Frame, DtorHolds, BroadcastHolds, OutPCs
  <2>7. OtherSlotsKept(i)
    BY <1>1, <2>4, <2>6 DEF OtherSlotsKept
  <2>8. \E d \in Ids : Published(d) /\ idx[d] = i
    BY <1>1, <1>3 DEF IfaceInv, Table
  <2>9. SlotGets(i, IFACE_ACQUIRED)
    BY <1>1, <2>2, <2>3, <2>4, <2>5, <2>6, <2>8 DEF SlotGets, Holds
  <2> QED
    BY <1>1, <2>1, <2>7, <2>9, SlotStep
<1> QED
  BY <1>2, <1>3

LEMMA ReleaseStep ==
  ASSUME IfaceInv, NEW t \in Threads, release_iface(t)
  PROVE  Table' /\ Token'
<1>0. SharedTypes /\ ThreadTypes /\ Locals /\ UnitInv
  BY SplitTypes DEF IfaceInv, UnitInv, ThreadInv
<1>1. PICK i \in Slots, v \in Ids :
      /\ i = t_slot[t] /\ v = t_if[t] /\ pc[t] = "bcast_addr"
      /\ UNCHANGED <<state, idx, iface>> /\ ifaces' = [ifaces EXCEPT ![i] = v]
  BY <1>0 DEF release_iface, Locals, opVars
<1>2. Frame(t) /\ pc'[t] \in {"idle", "bcast_acquire"}
  BY <1>0, NextSlotFrame DEF release_iface
<1>3. BroadcastHolds(t, i)
  BY <1>1 DEF BroadcastHolds
<1>4. \A u \in Threads : Holds(u, i) => u = t
  BY <1>1, <1>3 DEF IfaceInv, Token, Holds
<1>5. \A d \in Ids : Published(d)' <=> Published(d)
  BY <1>1, <1>2 DEF Published, HiddenPCs, Frame
<1>6. \A d \in Ids : Published(d) /\ idx[d] = i => iface[d] = v
  BY <1>1, <1>3 DEF IfaceInv, Token
<1>7. \E d \in Ids : Published(d) /\ idx[d] = i
  BY <1>1, <1>3, NotIds DEF IfaceInv, Token, Table, Holds
<1>8. \A u \in Threads, j \in Slots :
        /\ DtorHolds(u, j)' <=> DtorHolds(u, j)
        /\ BroadcastHolds(u, j)' <=> BroadcastHolds(u, j) /\ u # t
        /\ j # i => ~BroadcastHolds(t, j)
        /\ u # t => t_if'[u] = t_if[u]
  BY <1>1, <1>2 DEF Frame, DtorHolds, BroadcastHolds, OutPCs
<1>9. \A u \in Threads : ~Holds(u, i)'
  <2>1. ~DtorHolds(t, i)
    BY <1>1 DEF DtorHolds
  <2> QED
    BY <1>1, <1>4, <1>8, <2>1 DEF Holds
<1>10. OtherSlotsKept(i)
  BY <1>1, <1>5, <1>8 DEF OtherSlotsKept
<1>11. SlotGets(i, v)
  BY <1>1, <1>5, <1>6, <1>7, <1>9, NotIds DEF SlotGets, Holds
<1> QED
  BY <1>1, <1>10, <1>11, SlotStep

LEMMA IfaceInvStep ==
  ASSUME IfaceInv, [Next]_vars, ~idx_lost'
  PROVE  Table' /\ Token'
<1> TypeInv /\ UnitInv
  BY DEF IfaceInv, UnitInv
<1>1. ASSUME NEW t \in Threads, SilentAction(t) PROVE Table' /\ Token'
  BY <1>1, SilentActions, SilentStep
<1>2. ASSUME NEW t \in Threads, NEW c \in Ids, opaque_alloc(t, c) PROVE Table' /\ Token'
  BY <1>2, SilentAlloc, SilentStep
<1>3. ASSUME NEW t \in Threads, DtorDetach(t) \/ DtorFree(t) PROVE Table' /\ Token'
  BY <1>3, SilentDtor, SilentStep
<1>4. CASE UNCHANGED vars
  <2>1. SameTable
    BY <1>4 DEF SameTable, Published, vars, slotVars, opVars, thVars
  <2>2. SameHolders
    BY <1>4 DEF SameHolders, DtorHolds, BroadcastHolds, vars, opVars, thVars
  <2> QED
    BY <2>1, <2>2, SilentStep
<1>5. ASSUME NEW t \in Threads, Begin(t) PROVE Table' /\ Token'
  BY <1>1, <1>5 DEF Begin, SilentAction
<1>6. ASSUME NEW t \in Threads, Step(t) \/ InterruptRead(t) PROVE Table' /\ Token'
  BY <1>1, <1>2, <1>3, <1>6, PublishStep, DtorAcquireStep, DtorClearStep, BroadcastAcquireStep,
     ReleaseStep DEF Step, OpenStep, DtorStep, BroadcastStep, SilentAction
<1> QED
  BY <1>4, <1>5, <1>6 DEF Next

LEMMA IfaceInvInvariant == Spec => [](idx_lost \/ IfaceInv)
<1>1. Init => Table /\ Token
  BY NotIds DEF Init, Table, Token, Published, Holds, BroadcastHolds, DtorHolds, OutPCs
<1>2. UnitInv /\ (Table /\ Token) /\ [Next]_vars /\ ~idx_lost' => (Table /\ Token)'
  BY IfaceInvStep DEF IfaceInv
<1>3. IfaceInv <=> UnitInv /\ (Table /\ Token)
  BY DEF IfaceInv
<1> DEFINE Rest == Table /\ Token
<1> HIDE DEF Rest
<1>4. Spec => [](idx_lost \/ (UnitInv /\ Rest))
  <2>1. Init => Rest
    BY <1>1 DEF Rest
  <2>2. (idx_lost \/ UnitInv) /\ (idx_lost \/ Rest) /\ [Next]_vars => (idx_lost \/ Rest)'
    BY <1>2, LostStays DEF Rest
  <2> QED
    BY <2>1, <2>2, UnitInvInvariant, PTL DEF Spec
<1>5. IfaceInv <=> UnitInv /\ Rest
  BY <1>3 DEF Rest
<1> QED
  BY <1>4, <1>5, PTL

\* For any number of slots, threads, files and opens, new_udp_send never walks an
\* interface that opaque_free has freed: whoever wants to unpublish an interface has
\* to take the slot's token first, and the broadcaster has it.  An idx overwritten before
\* its destructor read it back ends this, as it ends the three promises that follow.
THEOREM BroadcastSafe == Spec => []HeldIfaceAttached
<1>1. idx_lost \/ IfaceInv => HeldIfaceAttached
  <2> SUFFICES ASSUME IfaceInv, NEW t \in Threads, t_slot[t] # NoSlot,
                      pc[t] \in OutPCs \cup {"bcast_addr"}
               PROVE  ifstate[t_if[t]] = "attached"
    BY DEF HeldIfaceAttached
  <2>1. SharedTypes /\ ThreadTypes
    BY SplitTypes DEF IfaceInv, UnitInv, ThreadInv
  <2>2. t_slot[t] \in Slots
    BY <2>1, TunAssumption DEF ThreadTypes, NoSlot, Slots
  <2>3. BroadcastHolds(t, t_slot[t]) /\ ifaces[t_slot[t]] = IFACE_ACQUIRED
    BY <2>2 DEF BroadcastHolds, Holds, IfaceInv, Token
  <2>4. PICK c \in Ids : Published(c) /\ idx[c] = t_slot[t]
    BY <2>2, <2>3, NotIds DEF IfaceInv, Table
  <2>5. t_if[t] = iface[c]
    BY <2>2, <2>3, <2>4 DEF IfaceInv, Token
  <2> QED
    BY <2>4, <2>5 DEF IfaceInv, UnitInv, LiveIfaces, Published
<1> QED
  BY <1>1, IfaceInvInvariant, PTL

\* For any number of slots, threads, files and opens, the pseudo-pointer
\* IFACE_ACQUIRED works as a lock: acquire_iface never gives a slot to two of the
\* threads that broadcast and destroy, and no release_iface finds it taken away.
THEOREM TokensExclusive == Spec => []TokenExclusive
<1>1. idx_lost \/ IfaceInv => TokenExclusive
  <2>1. \A i \in Slots : Holders(i) = {t \in Threads : Holds(t, i)}
    BY DEF Holders, Holds, BroadcastHolds, DtorHolds
  <2> QED
    BY <2>1 DEF IfaceInv, Token, TokenExclusive
<1> QED
  BY <1>1, IfaceInvInvariant, PTL

\* For any number of slots, threads, files and opens, the unit that the private ioctl
\* reports for a descriptor is the slot of ifaces[] that holds the descriptor's own
\* attached interface, or the slot a broadcaster has borrowed that interface from.
THEOREM UnitNamesInterface == Spec => []IoctlNamesOwnInterface
<1>1. idx_lost \/ IfaceInv => IoctlNamesOwnInterface
  <2> SUFFICES ASSUME IfaceInv, NEW f \in Files, fpriv[f] # NULL
               PROVE  LET op == fpriv[f] IN
                      /\ state[op] = "live" /\ ifstate[iface[op]] = "attached"
                      /\ \/ ifaces[tun_ioctl(f)] = iface[op]
                         \/ /\ ifaces[tun_ioctl(f)] = IFACE_ACQUIRED
                            /\ \E t \in Holders(tun_ioctl(f)) : t_if[t] = iface[op]
    BY DEF IoctlNamesOwnInterface
  <2>1. SharedTypes /\ ThreadTypes /\ Locals /\ UnitInv
    BY SplitTypes DEF IfaceInv, UnitInv, ThreadInv
  <2>2. PICK op \in Ids, i \in Slots : op = fpriv[f] /\ i = idx[op]
    BY <2>1 DEF SharedTypes
  <2>3. state[op] = "live" /\ ifstate[iface[op]] = "attached"
    BY <2>1, <2>2 DEF UnitInv, Lifecycle, LiveIfaces
  <2>4. Published(op)
    BY <2>1, <2>2, <2>3 DEF Published, UnitInv, Ownership, HiddenPCs, OwnPCs, OpenPCs, DtorPCs
  <2>5. ASSUME ifaces[i] = IFACE_ACQUIRED PROVE \E t \in Holders(i) : t_if[t] = iface[op]
    <3>1. PICK t \in Threads : Holds(t, i)
      BY <2>5 DEF IfaceInv, Token
    <3>2. ~DtorHolds(t, i)
      <4> SUFFICES ASSUME DtorHolds(t, i) PROVE FALSE
        OBVIOUS
      <4>1. Published(t_op[t]) /\ t_op[t] \in Ids
        BY <2>1, PublishedFacts DEF DtorHolds
      <4>2. t_op[t] = op
        BY <2>1, <2>2, <2>4, <4>1, PublishedFacts DEF DtorHolds
      <4> QED
        BY <2>1, <2>2, <4>2 DEF DtorHolds, UnitInv, Ownership, OwnPCs, DtorPCs
    <3>3. t_if[t] = iface[op] /\ t \in Holders(i)
      BY <2>2, <2>4, <3>1, <3>2 DEF Holds, BroadcastHolds, Holders, IfaceInv, Token
    <3> QED
      BY <3>3
  <2>6. ifaces[i] \in {iface[op], IFACE_ACQUIRED}
    BY <2>2, <2>4 DEF IfaceInv, Table
  <2> QED
    BY <2>2, <2>3, <2>5, <2>6 DEF tun_ioctl
<1> QED
  BY <1>1, IfaceInvInvariant, PTL

\* For any number of slots, threads, files and opens, opaque_free gives a slot back
\* only when its interface is out of ifaces[], no broadcaster has it in hand, and no
\* descriptor has that unit.
THEOREM SlotsReleasedLast == Spec => SlotReleasedLast
<1> DEFINE A == \A i \in Slots : ~idx_lost /\ used[i] = 1 /\ used'[i] = 0 =>
                  /\ ifaces[i] = NULL /\ Holders(i) = {}
                  /\ \A c \in Ids : state[c] \in Holding => idx[c] # i
                  /\ \A t \in Threads : ~(pc[t] = "opaque_alloc" /\ t_slot[t] = i)
<1>1. (idx_lost \/ IfaceInv) /\ [Next]_vars => A
  <2> SUFFICES ASSUME IfaceInv, [Next]_vars, NEW i \in Slots, used[i] = 1, used'[i] = 0
               PROVE  /\ ifaces[i] = NULL /\ Holders(i) = {}
                      /\ \A c \in Ids : state[c] \in Holding => idx[c] # i
                      /\ \A t \in Threads : ~(pc[t] = "opaque_alloc" /\ t_slot[t] = i)
    OBVIOUS
  <2>1. SharedTypes /\ ThreadTypes /\ Locals /\ UnitInv /\ TypeInv
    BY SplitTypes DEF IfaceInv, UnitInv, ThreadInv
  <2>2. PICK t \in Threads : release_idx(t)
    <3>1. ASSUME NEW t \in Threads, acquire_idx(t) PROVE FALSE
      BY <2>1, <3>1 DEF acquire_idx, SharedTypes
    <3> QED
      BY <2>1, <3>1, UnitCases DEF Quiet, Advance, unitVars, BeginOpen, BeginClose, SetCdevpriv,
         DtorDetach, DtorFree, opaque_alloc, vars, slotVars
  <2>3. PICK c \in Ids : c = t_op[t] /\ idx[c] = i /\ Owning(c) /\ state[c] = "freed"
    BY <2>1, <2>2 DEF release_idx, SharedTypes, Locals, OwnPCs, Owning, UnitInv, Lifecycle
  <2>4. \A d \in Ids : state[d] \in Holding => idx[d] # i
    BY <2>1, <2>3 DEF UnitInv, SlotOwners, Owning, Holding
  <2>5. \A u \in Threads : ~(pc[u] = "opaque_alloc" /\ t_slot[u] = i)
    BY <2>1, <2>3 DEF UnitInv, SlotOwners
  <2>6. ifaces[i] = NULL
    BY <2>4 DEF IfaceInv, Table, Published, Holding
  <2>7. \A u \in Threads : ~Holds(u, i)
    BY <2>6, NotIds DEF IfaceInv, Token
  <2>8. Holders(i) = {}
    BY <2>7 DEF Holders, Holds, BroadcastHolds, DtorHolds
  <2> QED
    BY <2>4, <2>5, <2>6, <2>8
<1>2. SlotReleasedLast <=> [][A]_vars
  BY DEF SlotReleasedLast
<1> HIDE DEF A
<1> QED
  BY <1>1, <1>2, IfaceInvInvariant, PTL DEF Spec

-----------------------------------------------------------------------------
(* Who waits for whom *)

\* A thread here has op->lock of its opaque.
LockPCs ==
  OpenPCs \cup {"dtor_token", "dtor_clear", "dtor_flock", "dtor_detach", "dtor_unlock",
                "netisr", "out_send"}
\* A mutex is had by a thread that works on its opaque, even if another has taken its
\* memory over.
LockOwner ==
  \A c \in Ids, t \in Threads : lock[c] = t => t_op[t] = c /\ pc[t] \in LockPCs

\* if_softc leads back to the opaque, once tun_open has set it.
Softc ==
  /\ \A t \in Threads : pc[t] = "set_softc" => iface[t_op[t]] = t_if[t]
  /\ \A c \in Ids :
       state[c] = "live" /\ (\A t \in Threads : pc[t] = "set_softc" => t_op[t] # c)
         => if_softc[iface[c]] = c

\* Behind a broadcast tun_output works on the opaque of the slot whose token it has.
OutOp ==
  \A t \in Threads, c \in Ids :
    pc[t] \in {"out_lock", "out_send"} /\ t_slot[t] = idx[c] /\ Published(c) => t_op[t] = c

WaitInv == IfaceInv /\ LockOwner /\ Softc /\ OutOp

LEMMA LockOwnerStep == TypeInv /\ LockOwner /\ [Next]_vars => LockOwner'
<1> SUFFICES ASSUME SharedTypes, ThreadTypes, Locals, LockOwner, [Next]_vars  PROVE LockOwner'
  BY SplitTypes DEF ThreadInv
<1> USE TunAssumption DEF LockPCs
\* A step that leaves the mutexes alone.
<1>1. ASSUME NEW t \in Threads, Frame(t), UNCHANGED lock,
             pc[t] \in LockPCs => pc'[t] \in LockPCs /\ t_op'[t] = t_op[t]
      PROVE  LockOwner'
  BY <1>1 DEF LockOwner, Frame
\* One that takes the mutex c, and one that gives its own back.
<1>2. ASSUME NEW t \in Threads, NEW c \in Ids, Frame(t), lock' = [lock EXCEPT ![c] = t],
             pc[t] \notin LockPCs, pc'[t] \in LockPCs, t_op'[t] = c
      PROVE  LockOwner'
  BY <1>2 DEF LockOwner, Frame, SharedTypes
<1>3. ASSUME NEW t \in Threads, Frame(t), t_op[t] \in Ids,
             lock' = [lock EXCEPT ![t_op[t]] = NoThread]
      PROVE  LockOwner'
  BY <1>3 DEF LockOwner, Frame, SharedTypes
<1>4. ASSUME NEW t \in Threads, NEW f \in Files, BeginOpen(t, f) PROVE LockOwner'
  BY <1>1, <1>4 DEF BeginOpen, Goto, Frame, ThreadTypes, opVars, OpenPCs
<1>5. ASSUME NEW t \in Threads, acquire_idx(t) PROVE LockOwner'
  <2>1. Frame(t) /\ UNCHANGED lock /\ pc[t] = "acquire_idx"
    BY <1>5, ReturnFrame DEF acquire_idx, Goto, Frame, ThreadTypes, opVars
  <2> QED
    BY <1>1, <2>1 DEF OpenPCs
<1>6. ASSUME NEW t \in Threads, NEW c \in Ids, opaque_alloc(t, c) PROVE LockOwner'
  BY <1>2, <1>6 DEF opaque_alloc, Goto, Frame, ThreadTypes, OpenPCs
<1>7. ASSUME NEW t \in Threads, SetSoftc(t) PROVE LockOwner'
  BY <1>1, <1>7 DEF SetSoftc, Goto, Frame, ThreadTypes, opVars, OpenPCs
<1>8. ASSUME NEW t \in Threads, PublishIface(t) PROVE LockOwner'
  BY <1>1, <1>8 DEF PublishIface, Goto, Frame, ThreadTypes, OpenPCs
<1>9. ASSUME NEW t \in Threads, SetCdevpriv(t) PROVE LockOwner'
  BY <1>3, <1>9, ReturnFrame DEF SetCdevpriv, Locals, OwnPCs, OpenPCs
<1>10. ASSUME NEW t \in Threads, NEW f \in Files, NEW label, BeginCall(t, f, label) PROVE LockOwner'
  BY <1>1, <1>10 DEF BeginCall, Goto, Frame, ThreadTypes, opVars, OpenPCs
<1>11. ASSUME NEW t \in Threads, TinyLock(t) PROVE LockOwner'
  BY <1>1, <1>11 DEF TinyLock, Goto, Frame, ThreadTypes, OpenPCs
<1>12. ASSUME NEW t \in Threads, tun_read(t) \/ InterruptRead(t) \/ tun_poll(t) PROVE LockOwner'
  BY <1>1, <1>12, ReturnFrame DEF tun_read, InterruptRead, tun_poll, OpenPCs
<1>13. ASSUME NEW t \in Threads, WriteLock(t) PROVE LockOwner'
  <2>1. t_op[t] \in Ids
    BY <1>13 DEF WriteLock, Locals, FilePCs
  <2> QED
    BY <1>2, <1>13, <2>1 DEF WriteLock, Goto, Frame, ThreadTypes, OpenPCs
<1>14. ASSUME NEW t \in Threads, tun_write(t) PROVE LockOwner'
  BY <1>3, <1>14, ReturnFrame DEF tun_write, Locals, FilePCs
<1>15. ASSUME NEW t \in Threads, NEW f \in Files, BeginClose(t, f) PROVE LockOwner'
  BY <1>1, <1>15 DEF BeginClose, Goto, Frame, ThreadTypes, opVars, OpenPCs
<1>16. ASSUME NEW t \in Threads, DtorLock(t) PROVE LockOwner'
  <2>1. t_op[t] \in Ids
    BY <1>16 DEF DtorLock, Locals, OwnPCs, DtorPCs
  <2> QED
    BY <1>2, <1>16, <2>1 DEF DtorLock, Goto, Frame, ThreadTypes, OpenPCs
<1>17. ASSUME NEW t \in Threads, DtorAcquire(t) \/ DtorClear(t) PROVE LockOwner'
  BY <1>1, <1>17 DEF DtorAcquire, DtorClear, Goto, Frame, ThreadTypes, opVars, OpenPCs
<1>18. ASSUME NEW t \in Threads, DtorTinyLock(t) \/ DtorDetach(t) PROVE LockOwner'
  BY <1>1, <1>18 DEF DtorTinyLock, DtorDetach, Goto, Frame, ThreadTypes, OpenPCs
<1>19. ASSUME NEW t \in Threads, DtorUnlock(t) PROVE LockOwner'
  BY <1>3, <1>19 DEF DtorUnlock, Goto, Frame, ThreadTypes, Locals, OwnPCs, DtorPCs
<1>20. ASSUME NEW t \in Threads, DtorFree(t) PROVE LockOwner'
  BY <1>1, <1>20 DEF DtorFree, Goto, Frame, ThreadTypes, OpenPCs
<1>21. ASSUME NEW t \in Threads, release_idx(t) PROVE LockOwner'
  BY <1>1, <1>21, ReturnFrame DEF release_idx, opVars, OpenPCs
<1>22. ASSUME NEW t \in Threads, NEW n \in Ids, BeginOutput(t, n) PROVE LockOwner'
  BY <1>1, <1>22 DEF BeginOutput, Goto, Frame, ThreadTypes, opVars, OpenPCs
<1>23. ASSUME NEW t \in Threads, OutputSoftc(t) PROVE LockOwner'
  <2>1. Frame(t) /\ UNCHANGED lock /\ pc[t] = "out_softc"
    BY <1>23, OutputReturnFrame DEF OutputSoftc, Goto, Frame, ThreadTypes, opVars, thVars
  <2> QED
    BY <1>1, <2>1 DEF OpenPCs
<1>24. ASSUME NEW t \in Threads, OutputLock(t) PROVE LockOwner'
  <2>1. t_op[t] \in Ids /\ pc[t] = "out_lock" /\ Frame(t) /\ UNCHANGED t_op
    BY <1>24 DEF OutputLock, Locals, Goto, Frame, ThreadTypes
  <2>2. \/ lock' = [lock EXCEPT ![t_op[t]] = t] /\ pc'[t] = "out_send"
        \/ UNCHANGED <<lock, pc>>
    BY <1>24 DEF OutputLock, Goto, ThreadTypes
  <2> QED
    BY <1>1, <1>2, <2>1, <2>2 DEF OpenPCs
<1>25. ASSUME NEW t \in Threads, tun_output(t) PROVE LockOwner'
  <2>1. t_op[t] \in Ids
    BY <1>25 DEF tun_output, Locals
  <2>2. \/ lock' = [lock EXCEPT ![t_op[t]] = NoThread] /\ Frame(t)
        \/ UNCHANGED <<lock, thVars>>
    BY <1>25, OutputReturnFrame DEF tun_output
  <2> QED
    BY <1>1, <1>3, <2>1, <2>2 DEF thVars, Frame
<1>26. ASSUME NEW t \in Threads, BeginBroadcast(t) PROVE LockOwner'
  BY <1>1, <1>26 DEF BeginBroadcast, Goto, Frame, ThreadTypes, opVars, OpenPCs
<1>27. ASSUME NEW t \in Threads, NEW n, BroadcastAcquire(t, n) PROVE LockOwner'
  <2>1. Frame(t) /\ UNCHANGED lock /\ pc[t] = "bcast_acquire"
    BY <1>27, NextSlotFrame DEF BroadcastAcquire, Goto, Frame, ThreadTypes, opVars
  <2> QED
    BY <1>1, <2>1 DEF OpenPCs
<1>28. ASSUME NEW t \in Threads, BroadcastSend(t) \/ release_iface(t) PROVE LockOwner'
  <2>1. Frame(t) /\ UNCHANGED lock /\ pc[t] = "bcast_addr"
    BY <1>28, NextSlotFrame DEF BroadcastSend, release_iface, Goto, Frame, ThreadTypes, opVars
  <2> QED
    BY <1>1, <2>1 DEF OpenPCs
<1>29. CASE UNCHANGED vars
  BY <1>29 DEF vars, opVars, thVars, LockOwner
<1> QED
  BY <1>4, <1>5, <1>6, <1>7, <1>8, <1>9, <1>10, <1>11, <1>12, <1>13, <1>14, <1>15, <1>16, <1>17,
     <1>18, <1>19, <1>20, <1>21, <1>22, <1>23, <1>24, <1>25, <1>26, <1>27, <1>28, <1>29
  DEF Next, Begin, Step, OpenStep, CallStep, DtorStep, OutputStep, BroadcastStep

\* Only tun_open writes if_softc, and only its own thread sees the opaque before.
LEMMA SoftcVars ==
  ASSUME TypeInv, [Next]_vars
  PROVE  \/ \E t \in Threads : SetSoftc(t) \/ \E c \in Ids : opaque_alloc(t, c)
         \/ /\ UNCHANGED if_softc
            /\ \A u \in Threads :
                 /\ pc'[u] = "set_softc" <=> pc[u] = "set_softc"
                 /\ pc[u] = "set_softc" => t_op'[u] = t_op[u] /\ t_if'[u] = t_if[u]
<1> DEFINE Kept == /\ UNCHANGED if_softc
                   /\ \A u \in Threads :
                        /\ pc'[u] = "set_softc" <=> pc[u] = "set_softc"
                        /\ pc[u] = "set_softc" => t_op'[u] = t_op[u] /\ t_if'[u] = t_if[u]
<1> ThreadTypes
  BY SplitTypes DEF ThreadInv
<1>1. ASSUME NEW t \in Threads, Frame(t), UNCHANGED if_softc,
             pc[t] # "set_softc", pc'[t] # "set_softc"
      PROVE  Kept
  BY <1>1 DEF Frame
<1>2. ASSUME NEW t \in Threads, Begin(t)  PROVE Kept
  BY <1>1, <1>2
  DEF Begin, BeginOpen, BeginCall, BeginClose, BeginOutput, BeginBroadcast, Goto, Frame, ThreadTypes,
      ifVars
<1>3. ASSUME NEW t \in Threads, acquire_idx(t) \/ PublishIface(t) \/ SetCdevpriv(t)  PROVE Kept
  BY <1>1, <1>3, ReturnFrame
  DEF acquire_idx, PublishIface, SetCdevpriv, Goto, Frame, ThreadTypes, ifVars
<1>4. ASSUME NEW t \in Threads, CallStep(t) \/ InterruptRead(t)  PROVE Kept
  BY <1>1, <1>4, ReturnFrame
  DEF CallStep, InterruptRead, TinyLock, tun_read, tun_poll, WriteLock, tun_write, Goto, Frame,
      ThreadTypes, ifVars
<1>5. ASSUME NEW t \in Threads, DtorStep(t)  PROVE Kept
  BY <1>1, <1>5, ReturnFrame
  DEF DtorStep, DtorLock, DtorAcquire, DtorClear, DtorTinyLock, DtorDetach, DtorUnlock, DtorFree,
      release_idx, Goto, Frame, ThreadTypes, ifVars
<1>6. ASSUME NEW t \in Threads, OutputStep(t)  PROVE Kept
  <2>1. ASSUME UNCHANGED pc  PROVE pc[t] # "set_softc" /\ pc'[t] # "set_softc"
    BY <1>6, <2>1 DEF OutputStep, OutputSoftc, OutputLock, tun_output
  <2> QED
    BY <1>1, <1>6, <2>1, OutputReturnFrame
    DEF OutputStep, OutputSoftc, OutputLock, tun_output, Goto, Frame, ThreadTypes, ifVars, thVars
<1>7. ASSUME NEW t \in Threads, BroadcastStep(t)  PROVE Kept
  BY <1>1, <1>7, NextSlotFrame
  DEF BroadcastStep, BroadcastAcquire, BroadcastSend, release_iface, Goto, Frame, ThreadTypes, ifVars
<1>8. CASE UNCHANGED vars
  BY <1>8 DEF vars, ifVars, thVars
<1> QED
  BY <1>2, <1>3, <1>4, <1>5, <1>6, <1>7, <1>8 DEF Next, Step, OpenStep

LEMMA SoftcStep ==
  ASSUME UnitInv, Softc, ~idx_lost', [Next]_vars  PROVE Softc'
<1>1. TypeInv /\ SharedTypes /\ ThreadTypes /\ Locals
  BY SplitTypes DEF UnitInv, ThreadInv
<1>2. ASSUME NEW t \in Threads, NEW c \in Ids, opaque_alloc(t, c)  PROVE Softc'
  <2>1. Allocatable(t, c) /\ Allocated(t, c)
    BY <1>2, AllocFacts, AllocEffect
  <2>2. if_softc' = [if_softc EXCEPT ![t_if[t]] = NULL] /\ UNCHANGED t_if
    BY <1>2 DEF opaque_alloc
  <2>3. \A u \in Threads : pc'[u] = "set_softc" => iface'[t_op'[u]] = t_if'[u]
    BY <1>1, <2>1, <2>2 DEF Allocatable, Allocated, Frame, Softc, OwnPCs, OpenPCs, Locals
  <2>4. ASSUME NEW d \in Ids, state'[d] = "live", \A u \in Threads : pc'[u] = "set_softc" => t_op'[u] # d
        PROVE  if_softc'[iface'[d]] = d
    <3>1. d # c /\ state[d] = "live" /\ iface'[d] = iface[d] /\ iface[d] # t_if[t]
      BY <2>1, <2>4 DEF Allocatable, Allocated
    <3>2. \A u \in Threads : pc[u] = "set_softc" => t_op[u] # d
      BY <2>1, <2>4 DEF Allocated, Frame
    <3>3. if_softc[iface[d]] = d /\ iface[d] \in Ids
      BY <3>1, <3>2 DEF Softc, UnitInv, LiveIfaces
    <3> QED
      BY <1>1, <2>2, <3>1, <3>3 DEF SharedTypes
  <2> QED
    BY <2>3, <2>4 DEF Softc
<1>3. ASSUME NEW t \in Threads, SetSoftc(t)  PROVE Softc'
  <2>1. /\ pc[t] = "set_softc" /\ t_op[t] \in Ids /\ t_if[t] \in Ids /\ iface[t_op[t]] = t_if[t]
        /\ Frame(t) /\ pc'[t] = "release_iface" /\ UNCHANGED <<iface, state, t_op, t_if>>
        /\ if_softc' = [if_softc EXCEPT ![t_if[t]] = t_op[t]] /\ state[t_op[t]] = "live"
    BY <1>1, <1>3
    DEF SetSoftc, Goto, Frame, ThreadTypes, Locals, OwnPCs, OpenPCs, opVars, Softc, UnitInv, Lifecycle
  <2>2. ASSUME NEW d \in Ids, state[d] = "live", \A u \in Threads : pc'[u] = "set_softc" => t_op[u] # d
        PROVE  if_softc'[iface[d]] = d
    <3>1. iface[d] \in Ids
      BY <2>2 DEF UnitInv, LiveIfaces
    <3>2. CASE d = t_op[t]
      BY <1>1, <2>1, <3>2 DEF SharedTypes
    <3>3. CASE d # t_op[t]
      <4>1. iface[d] # t_if[t]
        BY <2>1, <2>2, <3>3 DEF UnitInv, LiveIfaces
      <4>2. \A u \in Threads : pc[u] = "set_softc" => t_op[u] # d
        BY <2>1, <2>2, <3>3 DEF Frame
      <4> QED
        BY <1>1, <2>1, <2>2, <3>1, <4>1, <4>2 DEF Softc, SharedTypes
    <3> QED
      BY <3>2, <3>3
  <2> QED
    BY <2>1, <2>2 DEF Softc, Frame
<1>4. ASSUME ~\E t \in Threads : SetSoftc(t) \/ \E c \in Ids : opaque_alloc(t, c)  PROVE Softc'
  <2>1. /\ UNCHANGED if_softc
        /\ \A u \in Threads :
             /\ pc'[u] = "set_softc" <=> pc[u] = "set_softc"
             /\ pc[u] = "set_softc" => t_op'[u] = t_op[u] /\ t_if'[u] = t_if[u]
    BY <1>1, <1>4, SoftcVars
  <2>2. UNCHANGED iface /\ \A c \in Ids : state'[c] = "live" => state[c] = "live"
    BY <1>1, <1>4, UnitCases
    DEF Quiet, Advance, unitVars, BeginOpen, BeginClose, acquire_idx, SetCdevpriv, DtorDetach,
        DtorFree, release_idx, vars, opVars, SharedTypes
  <2> QED
    BY <2>1, <2>2 DEF Softc
<1> QED
  BY <1>2, <1>3, <1>4

LEMMA OutOpStep ==
  ASSUME IfaceInv, Softc, OutOp, ~idx_lost', [Next]_vars  PROVE OutOp'
<1> DEFINE Out == {"out_lock", "out_send"}
<1>1. UnitInv /\ TypeInv /\ SharedTypes /\ ThreadTypes /\ Locals
  BY SplitTypes DEF IfaceInv, UnitInv, ThreadInv
\* Steps that publish nothing and do not enter tun_output's use of the opaque.
<1>2. ASSUME NEW t \in Threads, Frame(t),
             \A c \in Ids : Published(c)' => Published(c) /\ idx'[c] = idx[c],
             pc'[t] \in Out => pc[t] \in Out /\ t_op'[t] = t_op[t] /\ t_slot'[t] = t_slot[t]
      PROVE  OutOp'
  BY <1>2 DEF OutOp, Frame
<1>3. ASSUME NEW t \in Threads, SilentAction(t), ~OutputSoftc(t)  PROVE OutOp'
  <2>1. \A c \in Ids : Published(c)' => Published(c) /\ idx'[c] = idx[c]
    BY <1>1, <1>3, SilentActions DEF SameTable
  <2>2. CASE OutputLock(t)
    <3>1. Frame(t) /\ pc[t] = "out_lock" /\ UNCHANGED <<t_op, t_slot>>
      BY <1>1, <2>2 DEF OutputLock, Goto, Frame, ThreadTypes
    <3> QED
      BY <1>2, <2>1, <3>1
  <2>3. CASE tun_output(t)
    <3>1. \/ Frame(t) /\ pc'[t] \notin Out
          \/ UNCHANGED thVars
      BY <1>1, <2>3, OutputReturnFrame DEF tun_output
    <3> QED
      BY <1>2, <2>1, <2>3, <3>1 DEF thVars, Frame, tun_output
  <2>4. CASE ~OutputStep(t)
    <3>1. Quiet(t) \/ Advance(t) \/ (\E f \in Files : BeginOpen(t, f) \/ BeginClose(t, f))
          \/ acquire_idx(t) \/ SetCdevpriv(t) \/ release_idx(t)
      BY <1>1, <1>3, <2>4, QuietSteps, AdvanceSteps DEF SilentAction, BroadcastStep
    <3>2. Frame(t)
      BY <1>1, <3>1, ReturnFrame
      DEF Quiet, Advance, BeginOpen, BeginClose, acquire_idx, SetCdevpriv, release_idx, Goto, Frame,
          ThreadTypes
    <3>3. pc'[t] \notin Out
      BY <1>1, <1>3, <2>4, ReturnFrame
      DEF SilentAction, BeginOpen, BeginClose, BeginCall, BeginOutput, BeginBroadcast, acquire_idx,
          SetSoftc, SetCdevpriv, CallStep, TinyLock, tun_read, tun_poll, WriteLock, tun_write,
          InterruptRead, BroadcastSend, DtorLock, DtorTinyLock, DtorUnlock, release_idx, Goto,
          ThreadTypes
    <3> QED
      BY <1>2, <2>1, <3>2, <3>3
  <2> QED
    BY <1>3, <2>2, <2>3, <2>4 DEF OutputStep
<1>4. ASSUME NEW t \in Threads, OutputSoftc(t)  PROVE OutOp'
  <2>1. \A c \in Ids : Published(c)' => Published(c) /\ idx'[c] = idx[c]
    BY <1>1, <1>4, SilentActions DEF SameTable, SilentAction, OutputStep
  <2>2. CASE pc'[t] \notin Out
    <3>1. Frame(t)
      BY <1>1, <1>4, <2>2, OutputReturnFrame DEF OutputSoftc, Goto, Frame, ThreadTypes, thVars
    <3> QED
      BY <1>2, <2>1, <2>2, <3>1
  <2>3. CASE pc'[t] \in Out
    <3>1. /\ pc[t] = "out_softc" /\ Frame(t) /\ t_op'[t] = if_softc[t_if[t]] /\ t_slot'[t] = t_slot[t]
      BY <1>1, <1>4, <2>3, OutputReturnFrame DEF OutputSoftc, Goto, Frame, ThreadTypes, thVars
    <3>2. ASSUME NEW c \in Ids, t_slot[t] = idx[c], Published(c)  PROVE if_softc[t_if[t]] = c
      <4>1. BroadcastHolds(t, idx[c]) /\ idx[c] \in Slots
        BY <1>1, <3>1, <3>2 DEF BroadcastHolds, OutPCs, SharedTypes
      <4>2. t_if[t] = iface[c]
        BY <3>2, <4>1 DEF IfaceInv, Token
      <4> QED
        BY <3>2, <4>2 DEF Softc, Published, HiddenPCs
    <3> QED
      BY <2>1, <2>3, <3>1, <3>2 DEF OutOp, Frame
  <2> QED
    BY <2>2, <2>3
<1>5. ASSUME NEW t \in Threads, NEW c \in Ids, opaque_alloc(t, c)  PROVE OutOp'
  <2>1. Frame(t) /\ pc'[t] = "set_softc"
    BY <1>1, <1>5, AllocEffect DEF Allocated
  <2>2. SameTable
    BY <1>1, <1>5, SilentAlloc
  <2> QED
    BY <1>2, <2>1, <2>2 DEF SameTable
<1>6. ASSUME NEW t \in Threads, DtorDetach(t) \/ DtorFree(t)  PROVE OutOp'
  <2>1. Frame(t) /\ pc'[t] \notin Out
    BY <1>1, <1>6 DEF DtorDetach, DtorFree, Goto, Frame, ThreadTypes
  <2>2. SameTable
    BY <1>1, <1>6, SilentDtor
  <2> QED
    BY <1>2, <2>1, <2>2 DEF SameTable
<1>7. ASSUME NEW t \in Threads, PublishIface(t)  PROVE OutOp'
  <2>1. PICK c \in Ids : /\ c = t_op[t] /\ pc[t] = "release_iface" /\ state[c] = "live"
                         /\ t_slot[t] \in Slots /\ idx[c] = t_slot[t]
    BY <1>1, <1>7 DEF PublishIface, Locals, OwnPCs, OpenPCs, UnitInv, Lifecycle, SlotOwners
  <2>2. ~Published(c)
    BY <2>1 DEF Published, HiddenPCs
  <2>3. \A d \in Ids : Published(d) => idx[d] # idx[c]
    <3>1. Owning(c) /\ \A d \in Ids : Published(d) => Owning(d) /\ d # c
      BY <2>1, <2>2 DEF Published, Owning, Holding
    <3> QED
      BY <1>1, <3>1 DEF UnitInv, SlotOwners
  <2>4. \A u \in Threads : ~BroadcastHolds(u, idx[c])
    BY <2>1, <2>3, NotIds DEF IfaceInv, Table, Token, Holds
  <2>5. /\ Frame(t) /\ pc'[t] = "unlock_new" /\ UNCHANGED <<state, idx, t_op>>
    BY <1>1, <1>7 DEF PublishIface, Goto, Frame, ThreadTypes
  <2>6. \A d \in Ids \ {c} : Published(d)' => Published(d)
    BY <2>1, <2>5 DEF Published, HiddenPCs, Frame
  <2> QED
    BY <2>4, <2>5, <2>6 DEF OutOp, Frame, BroadcastHolds, OutPCs
<1>8. ASSUME NEW t \in Threads, DtorAcquire(t) \/ DtorClear(t)  PROVE OutOp'
  <2>1. /\ Frame(t) /\ pc[t] \notin HiddenPCs /\ pc'[t] \notin Out /\ UNCHANGED <<state, idx, t_op>>
    BY <1>1, <1>8 DEF DtorAcquire, DtorClear, Goto, Frame, ThreadTypes, opVars, HiddenPCs
  <2> QED
    BY <1>2, <2>1 DEF Published, Frame
<1>9. ASSUME NEW t \in Threads, release_iface(t) \/ \E n \in 0 .. MaxAddrs : BroadcastAcquire(t, n)
      PROVE  OutOp'
  <2>1. /\ Frame(t) /\ pc[t] \notin HiddenPCs /\ pc'[t] \notin Out \cup HiddenPCs /\ UNCHANGED <<state, idx>>
    BY <1>1, <1>9, NextSlotFrame
    DEF release_iface, BroadcastAcquire, Goto, Frame, ThreadTypes, opVars, HiddenPCs
  <2> QED
    BY <1>2, <2>1 DEF Published, Frame
<1>10. CASE UNCHANGED vars
  BY <1>10 DEF vars, thVars, opVars, OutOp, Published
<1> QED
  BY <1>3, <1>4, <1>5, <1>6, <1>7, <1>8, <1>9, <1>10
  DEF Next, Begin, Step, OpenStep, DtorStep, BroadcastStep, SilentAction

LEMMA WaitInvInvariant == Spec => [](idx_lost \/ WaitInv)
<1> DEFINE Rest == LockOwner /\ Softc /\ OutOp
<1>1. Init => Rest
  <2> SUFFICES ASSUME Init  PROVE LockOwner /\ Softc /\ OutOp
    OBVIOUS
  <2>1. LockOwner
    BY TunAssumption DEF Init, LockOwner
  <2> QED
    BY <2>1 DEF Init, Softc, OutOp
<1>2. (idx_lost \/ IfaceInv) /\ (idx_lost \/ Rest) /\ [Next]_vars => (idx_lost \/ Rest)'
  <2>1. IfaceInv => UnitInv /\ TypeInv
    BY DEF IfaceInv, UnitInv
  <2> QED
    BY <2>1, LostStays, LockOwnerStep, SoftcStep, OutOpStep
<1>3. WaitInv <=> IfaceInv /\ Rest
  BY DEF WaitInv
<1> HIDE DEF Rest
<1> QED
  BY <1>1, <1>2, <1>3, IfaceInvInvariant, PTL DEF Spec

\* For any number of slots, threads, files and opens, tun_output behind a broadcast works on
\* a live opaque, that of the interface the broadcast has acquired, though it reads if_softc
\* before it takes the opaque's lock.
THEOREM BroadcastSendsAlive == Spec => []BroadcastOutputSafe
<1>1. idx_lost \/ WaitInv => BroadcastOutputSafe
  <2> SUFFICES ASSUME WaitInv, NEW t \in Threads, t_slot[t] # NoSlot,
                      pc[t] \in {"out_lock", "out_send"}
               PROVE  state[t_op[t]] = "live" /\ iface[t_op[t]] = t_if[t]
    BY DEF BroadcastOutputSafe
  <2>1. SharedTypes /\ ThreadTypes
    BY SplitTypes DEF WaitInv, IfaceInv, UnitInv, ThreadInv
  <2>2. t_slot[t] \in Slots
    BY <2>1, TunAssumption DEF ThreadTypes, NoSlot, Slots
  <2>3. BroadcastHolds(t, t_slot[t])
    BY DEF BroadcastHolds, OutPCs
  <2>4. ifaces[t_slot[t]] = IFACE_ACQUIRED
    BY <2>2, <2>3 DEF WaitInv, IfaceInv, Token, Holds
  <2>5. PICK c \in Ids : Published(c) /\ idx[c] = t_slot[t]
    BY <2>2, <2>4 DEF WaitInv, IfaceInv, Table, IFACE_ACQUIRED, NULL
  <2>6. t_op[t] = c
    BY <2>5 DEF WaitInv, OutOp
  <2>7. t_if[t] = iface[c]
    BY <2>2, <2>3, <2>5 DEF WaitInv, IfaceInv, Token
  <2> QED
    BY <2>5, <2>6, <2>7 DEF Published
<1> QED
  BY <1>1, WaitInvInvariant, PTL

\* What a thread that waits has taken before, by what it is waited for: a reader or
\* poller's spin lock or that of a tun_open is never waited for in a cycle.
LEMMA WaitingHolders ==
  ASSUME NEW t \in Threads, WaitsFor(t) # {}
  PROVE  /\ pc[t] \in {"dtor_lock", "write_lock", "out_lock", "dtor_token", "bcast_acquire",
                       "read_lock", "poll_lock", "dtor_flock"}
         /\ pc[t] \in LockPCs => pc[t] \in {"dtor_token", "dtor_flock"}
         /\ \A i : t \in Holders(i) => pc[t] = "out_lock" /\ t_slot[t] = i
BY DEF WaitsFor, LockPCs, OpenPCs, Holders, OutPCs

\* For any number of slots, threads, files and opens, threads of the driver that wait for
\* each other for ever are a destructor and a broadcaster on one interface, and whoever
\* waits for them: no other order in which locks are taken can stop it.
THEOREM DeadlockIsOneCycle == Spec => []OneDeadlock
<1>1. idx_lost \/ WaitInv => OneDeadlock
  <2> SUFFICES ASSUME WaitInv, NEW S \in SUBSET {t \in Threads : WaitsFor(t) # {}}, S # {},
                      \A t \in S : WaitsFor(t) \subseteq S
               PROVE  \E t, u \in S : /\ pc[t] = "dtor_token" /\ pc[u] = "out_lock"
                                      /\ t_op[t] = t_op[u] /\ t_slot[u] = idx[t_op[t]]
    BY DEF OneDeadlock
  <2>1. UnitInv /\ SharedTypes /\ ThreadTypes /\ Locals
    BY SplitTypes DEF WaitInv, IfaceInv, UnitInv, ThreadInv
  \* The destructor waits for a broadcaster.
  <2>2. ASSUME NEW t \in S, pc[t] = "dtor_token"
        PROVE  \E u \in S : pc[u] = "out_lock" /\ t_op[t] = t_op[u] /\ t_slot[u] = idx[t_op[t]]
    <3>1. PICK u \in S : u \in Holders(idx[t_op[t]])
      BY <2>2 DEF WaitsFor
    <3>2. pc[u] = "out_lock" /\ t_slot[u] = idx[t_op[t]]
      BY <3>1, WaitingHolders
    <3>3. Published(t_op[t]) /\ t_op[t] \in Ids
      BY <2>1, <2>2, PublishedFacts
    <3>4. t_op[u] = t_op[t]
      BY <3>2, <3>3 DEF WaitInv, OutOp
    <3> QED
      BY <3>1, <3>2, <3>4
  \* The broadcaster waits for a destructor, which has not cleared the slot yet.
  <2>3. ASSUME NEW u \in S, NEW i, u \in Holders(i), i \in Slots
        PROVE  \E t \in S : pc[t] = "dtor_token"
    <3>1. pc[u] = "out_lock" /\ t_slot[u] = i
      BY <2>3, WaitingHolders
    <3>2. PICK t \in S : t = lock[t_op[u]] /\ t_op[u] \in Ids
      BY <2>1, <3>1 DEF WaitsFor, Locals
    <3>3. t_op[t] = t_op[u] /\ pc[t] \in {"dtor_token", "dtor_flock"}
      BY <3>2, WaitingHolders DEF WaitInv, LockOwner
    <3>4. ifaces[i] = IFACE_ACQUIRED
      BY <2>3, <3>1 DEF WaitInv, IfaceInv, Token, Holds, BroadcastHolds, OutPCs
    <3>5. PICK c \in Ids : Published(c) /\ idx[c] = i
      BY <2>3, <3>4, NotIds DEF WaitInv, IfaceInv, Table
    <3>6. t_op[u] = c
      BY <3>1, <3>5 DEF WaitInv, OutOp
    <3>7. pc[t] # "dtor_flock"
      BY <3>3, <3>5, <3>6 DEF Published, HiddenPCs
    <3> QED
      BY <3>3, <3>7
  \* One step along who waits, and two.
  <2>4. PICK t \in S, u \in S : u \in WaitsFor(t)
    OBVIOUS
  <2>5. \/ pc[u] = "dtor_token" \/ pc[u] = "dtor_flock"
        \/ \E i \in Slots : u \in Holders(i)
    <3>1. CASE pc[t] \in {"dtor_lock", "write_lock", "out_lock"}
      <4>1. lock[t_op[t]] = u /\ t_op[t] \in Ids
        BY <2>1, <2>4, <3>1 DEF WaitsFor, Locals, OwnPCs, DtorPCs, FilePCs
      <4> QED
        BY <4>1, WaitingHolders DEF WaitInv, LockOwner
    <3>2. CASE pc[t] = "dtor_token"
      <4>1. u \in Holders(idx[t_op[t]]) /\ idx[t_op[t]] \in Slots
        BY <2>1, <2>4, <3>2 DEF WaitsFor, Locals, OwnPCs, DtorPCs, SharedTypes
      <4> QED
        BY <4>1
    <3>3. CASE pc[t] = "bcast_acquire"
      <4>1. u \in Holders(t_slot[t]) /\ t_slot[t] \in Slots
        BY <2>1, <2>4, <3>3 DEF WaitsFor, Locals
      <4> QED
        BY <4>1
    <3>4. CASE pc[t] \in {"read_lock", "poll_lock", "dtor_flock"}
      <4>1. pc[u] \in {"set_softc", "release_iface", "soreceive", "sopoll", "dtor_detach"}
        BY <2>4, <3>4 DEF WaitsFor
      <4> QED
        BY <4>1, WaitingHolders
    <3> QED
      BY <3>1, <3>2, <3>3, <3>4, WaitingHolders
  <2>6. pc[u] # "dtor_flock"
    <3> SUFFICES ASSUME pc[u] = "dtor_flock"  PROVE FALSE
      OBVIOUS
    <3>1. PICK v \in S : v \in WaitsFor(u)
      OBVIOUS
    <3>2. pc[v] \in {"set_softc", "release_iface", "soreceive", "sopoll", "dtor_detach"}
      BY <3>1 DEF WaitsFor
    <3> QED
      BY <3>2, WaitingHolders
  <2> QED
    BY <2>2, <2>3, <2>5, <2>6
<1> QED
  BY <1>1, WaitInvInvariant, PTL

-----------------------------------------------------------------------------
(* The refinement of UnitTable *)

\* A tun_open in progress is alone with its file, which has no opaque yet.
OpeningPCs == NewPCs \cup OpenPCs
OpenFiles ==
  \A t \in Threads : pc[t] \in OpeningPCs =>
    /\ fpriv[t_file[t]] = NULL
    /\ \A u \in Threads \ {t} : t_file[u] # t_file[t]

\* No thread comes to a file, nobody starts a tun_open and no file gets an opaque.
FilesKept ==
  /\ \A u \in Threads : t_file'[u] \in {t_file[u], NoFile}
  /\ \A u \in Threads : pc'[u] \in OpeningPCs => pc[u] \in OpeningPCs /\ t_file'[u] = t_file[u]
  /\ \A f \in Files : fpriv'[f] \in {fpriv[f], NULL}

LEMMA FilesKeptSteps ==
  ASSUME TypeInv, NEW t \in Threads,
         \/ acquire_idx(t) \/ \E c \in Ids : opaque_alloc(t, c)
         \/ SetSoftc(t) \/ PublishIface(t)
         \/ CallStep(t) \/ DtorStep(t) \/ OutputStep(t) \/ BroadcastStep(t)
         \/ InterruptRead(t) \/ \E f \in Files : BeginClose(t, f)
         \/ \E n \in Ids : BeginOutput(t, n)
         \/ BeginBroadcast(t)
  PROVE  FilesKept
<1> SharedTypes /\ ThreadTypes
  BY SplitTypes DEF ThreadInv
<1> USE DEF FilesKept, OpeningPCs, NewPCs, OpenPCs, ThreadTypes, SharedTypes
<1>1. ASSUME Return(t), UNCHANGED fpriv  PROVE FilesKept
  BY <1>1 DEF Return, Goto
<1>2. ASSUME UNCHANGED <<t_file, fpriv>>,
             \/ \E label : label \notin OpeningPCs /\ pc' = [pc EXCEPT ![t] = label]
             \/ pc[t] \in OpeningPCs /\ \E label : pc' = [pc EXCEPT ![t] = label]
             \/ UNCHANGED pc
      PROVE FilesKept
  BY <1>2
<1>3. ASSUME acquire_idx(t)  PROVE FilesKept
  BY <1>1, <1>2, <1>3 DEF acquire_idx, Goto
<1>4. ASSUME NEW c \in Ids, opaque_alloc(t, c)  PROVE FilesKept
  BY <1>2, <1>4 DEF opaque_alloc, Goto
<1>5. ASSUME SetSoftc(t) \/ PublishIface(t)  PROVE FilesKept
  BY <1>2, <1>5 DEF SetSoftc, PublishIface, Goto
<1>6. ASSUME CallStep(t) \/ InterruptRead(t)  PROVE FilesKept
  BY <1>1, <1>2, <1>6 DEF CallStep, InterruptRead, TinyLock, tun_read, tun_poll, WriteLock,
     tun_write, Goto
<1>7. ASSUME DtorStep(t)  PROVE FilesKept
  BY <1>1, <1>2, <1>7 DEF DtorStep, DtorLock, DtorAcquire, DtorClear, DtorTinyLock, DtorDetach,
     DtorUnlock, DtorFree, release_idx, Goto
<1>8. ASSUME OutputReturn(t), UNCHANGED fpriv  PROVE FilesKept
  BY <1>1, <1>2, <1>8 DEF OutputReturn, Goto
<1>9. ASSUME OutputStep(t)  PROVE FilesKept
  BY <1>2, <1>8, <1>9 DEF OutputStep, OutputSoftc, OutputLock, tun_output, Goto, thVars
<1>10. ASSUME NextSlot(t), UNCHANGED fpriv  PROVE FilesKept
  BY <1>1, <1>2, <1>10 DEF NextSlot, Goto
<1>11. ASSUME BroadcastStep(t)  PROVE FilesKept
  BY <1>2, <1>10, <1>11 DEF BroadcastStep, BroadcastAcquire, BroadcastSend, release_iface, Goto
<1>12. ASSUME NEW f \in Files, BeginClose(t, f)  PROVE FilesKept
  BY <1>12 DEF BeginClose, Goto
<1>13. ASSUME BeginBroadcast(t) \/ \E n \in Ids : BeginOutput(t, n)  PROVE FilesKept
  BY <1>2, <1>13 DEF BeginBroadcast, BeginOutput, Goto
<1> HIDE DEF FilesKept
<1> QED
  BY <1>3, <1>4, <1>5, <1>6, <1>7, <1>9, <1>11, <1>12, <1>13

LEMMA OpenFilesStep == TypeInv /\ OpenFiles /\ [Next]_vars => OpenFiles'
<1> SUFFICES ASSUME TypeInv, OpenFiles, [Next]_vars  PROVE OpenFiles'
  OBVIOUS
<1> SharedTypes /\ ThreadTypes /\ Locals
  BY SplitTypes DEF ThreadInv
<1> USE TunAssumption, NotIds
<1>0. \A t \in Threads : pc[t] \in OpeningPCs => t_file[t] \in Files
  BY DEF Locals, OpeningPCs
<1>1. ASSUME FilesKept  PROVE OpenFiles'
  <2> SUFFICES ASSUME NEW t \in Threads, pc'[t] \in OpeningPCs
               PROVE  /\ fpriv'[t_file'[t]] = NULL
                      /\ \A u \in Threads \ {t} : t_file'[u] # t_file'[t]
    BY DEF OpenFiles
  <2>1. pc[t] \in OpeningPCs /\ t_file'[t] = t_file[t] /\ t_file[t] \in Files
    BY <1>0, <1>1 DEF FilesKept
  <2>2. fpriv[t_file[t]] = NULL /\ \A u \in Threads \ {t} : t_file[u] # t_file[t]
    BY <2>1 DEF OpenFiles
  <2> QED
    BY <1>1, <2>1, <2>2 DEF FilesKept
<1>2. ASSUME NEW t \in Threads, NEW f \in Files, BeginOpen(t, f)  PROVE OpenFiles'
  BY <1>0, <1>2 DEF BeginOpen, Goto, Referenced, OpenFiles, OpeningPCs, ThreadTypes
<1>3. ASSUME NEW t \in Threads, NEW f \in Files,
             NEW label \in {"read_lock", "poll_lock", "write_lock"}, BeginCall(t, f, label)
      PROVE  OpenFiles'
  BY <1>0, <1>3 DEF BeginCall, Goto, OpenFiles, OpeningPCs, NewPCs, OpenPCs, ThreadTypes
<1>4. ASSUME NEW t \in Threads, SetCdevpriv(t)  PROVE OpenFiles'
  <2>1. pc[t] \in OpeningPCs /\ t_file[t] \in Files
    BY <1>0, <1>4 DEF SetCdevpriv, OpeningPCs, OpenPCs
  <2> QED
    BY <1>0, <1>4, <2>1 DEF SetCdevpriv, Return, Goto, OpenFiles, OpeningPCs, NewPCs, OpenPCs,
       ThreadTypes, SharedTypes
<1>5. CASE UNCHANGED vars
  BY <1>5 DEF vars, thVars, OpenFiles
<1> QED
  BY <1>1, <1>2, <1>3, <1>4, <1>5, FilesKeptSteps DEF Next, Begin, Step, OpenStep

-----------------------------------------------------------------------------
\* A thread is making an opaque for unit i.
Opener(t, i) == pc[t] \in OpenPCs \cup {"opaque_alloc"} /\ t_slot[t] = i

\* Unit i is taken, by nobody but an opaque that is being closed.
Unclaimed(i) ==
  /\ \A f \in Files : UnitOf[f] # i
  /\ \A t \in Threads : ~Opener(t, i)

LEMMA UnitFacts ==
  ASSUME UnitInv
  PROVE  /\ \A f \in Files : UnitOf[f] # NoSlot =>
              /\ fpriv[f] \in Ids /\ UnitOf[f] = idx[fpriv[f]] /\ UnitOf[f] \in Slots
              /\ used[UnitOf[f]] = 1
              /\ \A g \in Files \ {f} : UnitOf[g] # UnitOf[f]
              /\ \A t \in Threads : ~Opener(t, UnitOf[f])
         /\ \A t \in Threads : pc[t] \in DtorPCs \cup {"release_idx"} =>
              used[idx[t_op[t]]] = 1 /\ idx[t_op[t]] \in Slots /\ Unclaimed(idx[t_op[t]])
         /\ \A t \in Threads, i \in Slots : Opener(t, i) =>
              used[i] = 1 /\ \A f \in Files : UnitOf[f] # i
<1>1. SharedTypes /\ ThreadTypes /\ Locals
  BY SplitTypes DEF UnitInv, ThreadInv
<1>2. \A i \in Slots : i # NoSlot
  BY TunAssumption DEF Slots, NoSlot
<1>3. ASSUME NEW f \in Files, UnitOf[f] # NoSlot
      PROVE  /\ fpriv[f] \in Ids /\ UnitOf[f] = idx[fpriv[f]] /\ UnitOf[f] \in Slots
             /\ state[fpriv[f]] = "live" /\ Owning(fpriv[f])
  BY <1>1, <1>3 DEF UnitOf, tun_ioctl, SharedTypes, UnitInv, Lifecycle, Owning, Holding
<1>4. ASSUME NEW t \in Threads, pc[t] \in OwnPCs
      PROVE  /\ t_op[t] \in Ids /\ Owning(t_op[t])
             /\ \A f \in Files : fpriv[f] # t_op[t]
  BY <1>1, <1>4 DEF Locals, UnitInv, Lifecycle, Ownership, Owning, Holding, OwnPCs, OpenPCs,
     DtorPCs
<1>5. ASSUME NEW t \in Threads, NEW f \in Files, UnitOf[f] # NoSlot  PROVE ~Opener(t, UnitOf[f])
  BY <1>1, <1>3, <1>4, <1>5 DEF Opener, UnitInv, SlotOwners, OwnPCs
<1>6. ASSUME NEW f \in Files, UnitOf[f] # NoSlot, NEW g \in Files \ {f}
      PROVE  UnitOf[g] # UnitOf[f]
  <2>1. fpriv[f] # fpriv[g]
    BY <1>3, <1>6, NotIds DEF UnitInv, Ownership
  <2> QED
    BY <1>3, <1>6, <2>1 DEF UnitInv, SlotOwners
<1>7. ASSUME NEW t \in Threads, pc[t] \in DtorPCs \cup {"release_idx"}
      PROVE  used[idx[t_op[t]]] = 1 /\ idx[t_op[t]] \in Slots /\ Unclaimed(idx[t_op[t]])
  <2>1. t_op[t] \in Ids /\ Owning(t_op[t]) /\ idx[t_op[t]] \in Slots
    BY <1>1, <1>4, <1>7 DEF OwnPCs, SharedTypes
  <2>2. ASSUME NEW f \in Files  PROVE UnitOf[f] # idx[t_op[t]]
    BY <1>2, <1>3, <1>4, <1>7, <2>1 DEF UnitInv, SlotOwners, OwnPCs
  <2>3. ASSUME NEW u \in Threads  PROVE ~Opener(u, idx[t_op[t]])
    <3>1. CASE pc[u] = "opaque_alloc"
      BY <2>1, <3>1 DEF Opener, UnitInv, SlotOwners
    <3>2. CASE pc[u] \in OpenPCs
      <4>1. t_op[u] # t_op[t] /\ t_op[u] \in Ids /\ Owning(t_op[u]) /\ idx[t_op[u]] = t_slot[u]
        BY <1>4, <1>7, <3>2 DEF UnitInv, Ownership, SlotOwners, OwnPCs, OpenPCs, DtorPCs
      <4> QED
        BY <2>1, <4>1 DEF Opener, UnitInv, SlotOwners
    <3> QED
      BY <3>1, <3>2 DEF Opener
  <2> QED
    BY <2>1, <2>2, <2>3 DEF Unclaimed, UnitInv, SlotOwners
<1>8. ASSUME NEW t \in Threads, NEW i \in Slots, Opener(t, i)
      PROVE  used[i] = 1 /\ \A f \in Files : UnitOf[f] # i
  <2>1. used[i] = 1
    BY <1>4, <1>8 DEF Opener, UnitInv, SlotOwners, OwnPCs
  <2> QED
    BY <1>2, <1>5, <1>8, <2>1
<1> QED
  BY <1>3, <1>5, <1>6, <1>7, <1>8 DEF UnitInv, SlotOwners

\* What decides the phase of the units; what does not touch it leaves them alone.
OfferKept(i) == ifaces'[i] = NULL <=> ifaces[i] = NULL

LEMMA PhaseKept ==
  ASSUME UNCHANGED <<used, UnitOf>>,
         \A t \in Threads, i \in Slots : Opener(t, i)' <=> Opener(t, i),
         \A i \in Slots : Opening(i) \/ OfferKept(i)
  PROVE  UNCHANGED Phase
<1>1. \A i \in Slots : Opening(i)' <=> Opening(i)
  BY DEF Opening, Opener
<1>2. ASSUME NEW i \in Slots  PROVE Phase'[i] = Phase[i]
  BY <1>1 DEF Phase, OfferKept
<1> QED
  BY <1>2 DEF Phase

\* One unit changes its phase.
LEMMA PhaseMoves ==
  ASSUME NEW i \in Slots, NEW p, Phase'[i] = p,
         \A j \in Slots \ {i} :
           /\ used'[j] = used[j] /\ OfferKept(j)
           /\ \A f \in Files : UnitOf'[f] = j <=> UnitOf[f] = j
           /\ \A t \in Threads : Opener(t, j)' <=> Opener(t, j)
  PROVE  Phase' = [Phase EXCEPT ![i] = p]
<1>1. ASSUME NEW j \in Slots \ {i}  PROVE Phase'[j] = Phase[j]
  <2>1. Opening(j)' <=> Opening(j)
    BY DEF Opening, Opener
  <2> QED
    BY <2>1 DEF Phase, OfferKept
<1>2. Phase = [j \in Slots |-> Phase[j]] /\ Phase' = [j \in Slots |-> Phase'[j]]
  BY DEF Phase
<1> QED
  BY <1>1, <1>2

\* A step that neither takes nor gives a unit, nor opens or closes a file.
LEMMA PhaseQuiet ==
  ASSUME UnitInv, ~idx_lost', NEW t \in Threads,
         \/ Quiet(t) \/ Advance(t) \/ \E f \in Files : BeginOpen(t, f)
         \/ \E c \in Ids : opaque_alloc(t, c)
         \/ DtorDetach(t) \/ DtorFree(t),
         \A i \in Slots : Opening(i) \/ OfferKept(i)
  PROVE  UNCHANGED <<UnitOf, Phase>>
<1>1. SharedTypes /\ ThreadTypes /\ Locals
  BY SplitTypes DEF UnitInv, ThreadInv
<1> USE DEF OwnPCs, NewPCs, OpenPCs, DtorPCs, ClosedPCs
<1>2. ASSUME UNCHANGED <<fpriv, idx, used>>,
             \A u \in Threads, i \in Slots : Opener(u, i)' <=> Opener(u, i)
      PROVE  UNCHANGED <<UnitOf, Phase>>
  <2>1. UNCHANGED UnitOf
    BY <1>2 DEF UnitOf, tun_ioctl
  <2> QED
    BY <1>2, <2>1, PhaseKept
<1>3. CASE Quiet(t)
  BY <1>2, <1>3 DEF Quiet, Frame, unitVars, Opener
<1>4. CASE Advance(t)
  BY <1>2, <1>4 DEF Advance, Frame, unitVars, Opener
<1>5. ASSUME NEW f \in Files, BeginOpen(t, f)  PROVE UNCHANGED <<UnitOf, Phase>>
  BY <1>1, <1>2, <1>5 DEF BeginOpen, Goto, Opener, ThreadTypes, slotVars, opVars
<1>6. ASSUME NEW c \in Ids, opaque_alloc(t, c)  PROVE UNCHANGED <<UnitOf, Phase>>
  <2>1. Allocatable(t, c) /\ Allocated(t, c)
    BY <1>6, AllocFacts, AllocEffect
  <2>2. UNCHANGED UnitOf
    <3>1. ASSUME NEW f \in Files  PROVE UnitOf'[f] = UnitOf[f]
      BY <1>1, <2>1 DEF UnitOf, tun_ioctl, Allocatable, Allocated, SharedTypes
    <3> QED
      BY <3>1 DEF UnitOf
  <2>3. \A u \in Threads, i \in Slots : Opener(u, i)' <=> Opener(u, i)
    BY <2>1 DEF Opener, Allocated, Frame
  <2> QED
    BY <2>1, <2>2, <2>3, PhaseKept DEF Allocated
<1>7. CASE DtorDetach(t) \/ DtorFree(t)
  BY <1>1, <1>2, <1>7 DEF DtorDetach, DtorFree, Goto, Opener, ThreadTypes, slotVars
<1> QED
  BY <1>3, <1>4, <1>5, <1>6, <1>7

LEMMA TakesUnit ==
  ASSUME UnitInv, NEW t \in Threads, acquire_idx(t), UNCHANGED Users
  PROVE  \/ UNCHANGED <<UnitOf, Phase>>
         \/ \E i \in Slots : UnitPromise!Take(i)
<1>1. SharedTypes /\ ThreadTypes /\ Locals
  BY SplitTypes DEF UnitInv, ThreadInv
<1>2. UNCHANGED UnitOf
  BY DEF acquire_idx, UnitOf, tun_ioctl, opVars
<1>3. CASE UNCHANGED used
  <2>1. \A u \in Threads, i \in Slots : Opener(u, i)' <=> Opener(u, i)
    BY <1>1, <1>3, ReturnFrame DEF acquire_idx, Opener, Frame, OpenPCs, SharedTypes, ThreadTypes,
       Goto, Slots
  <2> QED
    BY <1>2, <1>3, <2>1, PhaseKept DEF OfferKept, acquire_idx
<1>4. CASE ~UNCHANGED used
  <2>1. PICK i \in Slots :
          /\ i = t_slot[t] /\ used[i] = 0 /\ used' = [used EXCEPT ![i] = 1]
          /\ pc' = [pc EXCEPT ![t] = "opaque_alloc"] /\ UNCHANGED t_slot
          /\ pc[t] = "acquire_idx" /\ UNCHANGED ifaces
    BY <1>1, <1>4, TunAssumption DEF acquire_idx, Goto, Slots, ThreadTypes
  <2>2. \A j \in Slots \ {i}, u \in Threads : Opener(u, j)' <=> Opener(u, j)
    BY <1>1, <2>1 DEF Opener, OpenPCs, ThreadTypes
  <2>3. Opener(t, i)'
    BY <1>1, <2>1 DEF Opener, ThreadTypes
  <2>4. \A f \in Files : UnitOf[f] # i
    BY <1>1, <2>1, UnitFacts, TunAssumption DEF Slots, NoSlot
  <2>5. Phase[i] = "free" /\ Phase'[i] = "opening"
    <3>1. Opening(i)'
      BY <2>3 DEF Opening, Opener
    <3> QED
      BY <1>1, <1>2, <2>1, <2>4, <3>1 DEF Phase, SharedTypes
  <2>6. Phase' = [Phase EXCEPT ![i] = "opening"]
    BY <1>1, <1>2, <2>1, <2>2, <2>5, PhaseMoves DEF SharedTypes, OfferKept
  <2> QED
    BY <1>2, <2>5, <2>6 DEF UnitPromise!Take
<1> QED
  BY <1>3, <1>4

LEMMA OpensUnit ==
  ASSUME UnitInv, OpenFiles, NEW t \in Threads, SetCdevpriv(t), UNCHANGED Users
  PROVE  \E i \in Slots, f \in Files : UnitPromise!Open(i, f)
<1>1. SharedTypes /\ ThreadTypes /\ Locals
  BY SplitTypes DEF UnitInv, ThreadInv
<1>2. PICK i \in Slots, f \in Files, c \in Ids :
        /\ i = t_slot[t] /\ f = t_file[t] /\ c = t_op[t] /\ idx[c] = i
        /\ fpriv[f] = NULL /\ pc[t] = "unlock_new"
  BY <1>1 DEF SetCdevpriv, Locals, OwnPCs, OpenPCs, UnitInv, SlotOwners, OpenFiles, OpeningPCs
<1>3. /\ fpriv' = [fpriv EXCEPT ![f] = c] /\ UNCHANGED <<used, ifaces, idx>>
      /\ Frame(t) /\ pc'[t] = "idle"
  BY <1>1, <1>2, ReturnFrame DEF SetCdevpriv, slotVars
<1>4. Opener(t, i)
  BY <1>2 DEF Opener, OpenPCs
<1>5. UnitOf[f] = NoSlot /\ UnitOf' = [UnitOf EXCEPT ![f] = i]
  BY <1>1, <1>2, <1>3, NotIds DEF UnitOf, tun_ioctl, SharedTypes
<1>6. used[i] = 1 /\ \A g \in Files : UnitOf[g] # i
  BY <1>4, UnitFacts
<1>7. Phase[i] = "opening" /\ Phase'[i] = "open"
  <2>1. Opening(i)
    BY <1>4 DEF Opening, Opener
  <2>2. UnitOf'[f] = i /\ used'[i] = 1
    BY <1>3, <1>5, <1>6 DEF UnitOf
  <2> QED
    BY <1>6, <2>1, <2>2 DEF Phase
<1>8. Phase' = [Phase EXCEPT ![i] = "open"]
  <2>1. \A j \in Slots \ {i}, u \in Threads : Opener(u, j)' <=> Opener(u, j)
    BY <1>2, <1>3 DEF Opener, Frame, OpenPCs
  <2>2. \A j \in Slots \ {i}, g \in Files : UnitOf'[g] = j <=> UnitOf[g] = j
    <3>1. \A j \in Slots : j # NoSlot
      BY TunAssumption DEF Slots, NoSlot
    <3>2. \A g \in Files : UnitOf'[g] = IF g = f THEN i ELSE UnitOf[g]
      BY <1>5 DEF UnitOf
    <3> QED
      BY <1>5, <3>1, <3>2
  <2> QED
    BY <1>3, <1>7, <2>1, <2>2, PhaseMoves DEF OfferKept
<1> QED
  BY <1>2, <1>5, <1>7, <1>8 DEF UnitPromise!Open

LEMMA ClosesUnit ==
  ASSUME IfaceInv, NEW t \in Threads, NEW f \in Files, BeginClose(t, f), UNCHANGED Users
  PROVE  UnitPromise!Close(f)
<1>1. SharedTypes /\ ThreadTypes /\ Locals /\ UnitInv
  BY SplitTypes DEF IfaceInv, UnitInv, ThreadInv
<1>2. PICK i \in Slots : UnitOf[f] = i /\ UnitOf[f] # NoSlot /\ i = idx[fpriv[f]]
  BY <1>1, TunAssumption DEF BeginClose, UnitOf, tun_ioctl, SharedTypes, Slots, NoSlot
<1>3. /\ fpriv' = [fpriv EXCEPT ![f] = NULL] /\ UNCHANGED <<used, ifaces, idx, t_slot>>
      /\ pc' = [pc EXCEPT ![t] = "dtor_lock"] /\ pc[t] = "idle"
  BY DEF BeginClose, Goto, slotVars, opVars
<1>4. UnitOf' = [UnitOf EXCEPT ![f] = NoSlot]
  BY <1>1, <1>3 DEF UnitOf, tun_ioctl, SharedTypes
<1>5. /\ used[i] = 1 /\ \A g \in Files \ {f} : UnitOf[g] # i
      /\ \A u \in Threads : ~Opener(u, i)
  BY <1>1, <1>2, UnitFacts
<1>6. ifaces[i] # NULL
  <2>1. fpriv[f] \in Ids /\ Published(fpriv[f])
    BY <1>1, <1>2, UnitFacts DEF Published, UnitInv, Lifecycle, Ownership, HiddenPCs, OwnPCs, OpenPCs,
       DtorPCs, BeginClose
  <2>2. ifaces[i] \in {iface[fpriv[f]], IFACE_ACQUIRED} /\ iface[fpriv[f]] \in Ids
    BY <1>1, <1>2, <2>1, PublishedFacts DEF IfaceInv, Table
  <2> QED
    BY <2>2, NotIds
<1>7. \A j \in Slots, u \in Threads : Opener(u, j)' <=> Opener(u, j)
  BY <1>1, <1>3 DEF Opener, OpenPCs, ThreadTypes
<1>8. Phase[i] = "open" /\ Phase'[i] = "closing"
  <2>1. ~Opening(i)'
    BY <1>5, <1>7 DEF Opening, Opener
  <2>2. \A g \in Files : UnitOf'[g] # i
    BY <1>2, <1>4, <1>5 DEF UnitOf
  <2>3. used'[i] = 1 /\ ifaces'[i] # NULL
    BY <1>3, <1>5, <1>6
  <2> QED
    BY <1>2, <1>5, <2>1, <2>2, <2>3 DEF Phase
<1>9. Phase' = [Phase EXCEPT ![i] = "closing"]
  <2>1. \A j \in Slots \ {i}, g \in Files : UnitOf'[g] = j <=> UnitOf[g] = j
    <3>1. \A j \in Slots : j # NoSlot
      BY TunAssumption DEF Slots, NoSlot
    <3>2. \A g \in Files : UnitOf'[g] = IF g = f THEN NoSlot ELSE UnitOf[g]
      BY <1>4 DEF UnitOf
    <3> QED
      BY <1>2, <3>1, <3>2
  <2> QED
    BY <1>3, <1>7, <1>8, <2>1, PhaseMoves DEF OfferKept
<1> QED
  BY <1>2, <1>4, <1>8, <1>9 DEF UnitPromise!Close

LEMMA FreesUnit ==
  ASSUME IfaceInv, NEW t \in Threads, release_idx(t), UNCHANGED Users
  PROVE  \E i \in Slots : UnitPromise!Free(i)
<1>1. SharedTypes /\ ThreadTypes /\ Locals /\ UnitInv
  BY SplitTypes DEF IfaceInv, UnitInv, ThreadInv
<1>2. PICK i \in Slots, c \in Ids :
        /\ c = t_op[t] /\ i = idx[c] /\ pc[t] = "release_idx"
        /\ used[i] = 1 /\ Unclaimed(i) /\ state[c] = "freed" /\ Owning(c)
  BY <1>1, UnitFacts DEF release_idx, Locals, OwnPCs, UnitInv, Lifecycle, Owning
<1>3. /\ used' = [used EXCEPT ![i] = 0] /\ UNCHANGED <<fpriv, ifaces, idx>>
      /\ Frame(t) /\ pc'[t] = "idle"
  BY <1>1, <1>2, ReturnFrame DEF release_idx, opVars
<1>4. ifaces[i] = NULL
  <2>1. \A d \in Ids : ~(Published(d) /\ idx[d] = i)
    BY <1>1, <1>2 DEF Published, UnitInv, SlotOwners, Owning, Holding
  <2> QED
    BY <2>1 DEF IfaceInv, Table
<1>5. UNCHANGED UnitOf
  BY <1>3 DEF UnitOf, tun_ioctl
<1>6. Phase[i] = "closed" /\ Phase'[i] = "free"
  <2>1. ~Opening(i)
    BY <1>2 DEF Opening, Opener, Unclaimed
  <2> QED
    BY <1>1, <1>2, <1>3, <1>4, <2>1 DEF Phase, Unclaimed, SharedTypes
<1>7. Phase' = [Phase EXCEPT ![i] = "free"]
  <2>1. \A j \in Slots \ {i}, u \in Threads : Opener(u, j)' <=> Opener(u, j)
    BY <1>2, <1>3 DEF Opener, Frame, OpenPCs
  <2> QED
    BY <1>1, <1>3, <1>5, <1>6, <2>1, PhaseMoves DEF SharedTypes, OfferKept
<1>8. Users[i] = {}
  <2>1. \A u \in Threads : ~Holds(u, i)
    BY <1>4, NotIds DEF IfaceInv, Token
  <2> QED
    BY <2>1 DEF Users, Holders, Holds, BroadcastHolds, DtorHolds
<1> QED
  BY <1>5, <1>6, <1>7, <1>8 DEF UnitPromise!Free

\* One thread takes the interface of a unit, which is taken; or gives it back.
LEMMA UsersMove ==
  ASSUME NEW i \in Slots, NEW U, Users'[i] = U,
         \A j \in Slots \ {i}, u \in Threads : Holds(u, j)' <=> Holds(u, j)
  PROVE  Users' = [Users EXCEPT ![i] = U]
<1>1. ASSUME NEW j \in Slots \ {i}  PROVE Users'[j] = Users[j]
  BY DEF Users, Holders, Holds, BroadcastHolds, DtorHolds
<1>2. Users = [j \in Slots |-> Users[j]] /\ Users' = [j \in Slots |-> Users'[j]]
  BY DEF Users
<1> QED
  BY <1>1, <1>2

\* A step after which thread t alone has the interface of unit i, which nobody had.
LEMMA BorrowsUnit ==
  ASSUME IfaceInv, NEW t \in Threads, NEW i \in Slots, UNCHANGED <<UnitOf, Phase>>,
         ifaces[i] \in Ids,
         \A u \in Threads, j \in Slots : Holds(u, j)' <=> Holds(u, j) \/ (u = t /\ j = i)
  PROVE  UnitPromise!Borrow(i, t)
<1>1. PICK c \in Ids : Published(c) /\ idx[c] = i
  BY NotIds DEF IfaceInv, Table
<1>2. used[i] = 1
  BY <1>1 DEF IfaceInv, UnitInv, SlotOwners, Owning, Published, Holding
<1>3. \A u \in Threads : ~Holds(u, i)
  BY NotIds DEF IfaceInv, Token
<1>4. Users[i] = {}
  BY <1>3 DEF Users, Holders, Holds, BroadcastHolds, DtorHolds
<1>5. Users'[i] = {t}
  BY <1>3 DEF Users, Holders, Holds, BroadcastHolds, DtorHolds
<1>6. Users' = [Users EXCEPT ![i] = {t}]
  BY <1>5, UsersMove
<1>7. Phase[i] \notin {"free", "closed"}
  BY <1>2, NotIds DEF Phase
<1> QED
  BY <1>4, <1>6, <1>7 DEF UnitPromise!Borrow

\* A step after which thread t no longer has the interface of unit i.
LEMMA GivesUnitBack ==
  ASSUME IfaceInv, NEW t \in Threads, NEW i \in Slots, UNCHANGED <<UnitOf, Phase>>,
         Holds(t, i),
         \A u \in Threads, j \in Slots : Holds(u, j)' <=> Holds(u, j) /\ ~(u = t /\ j = i)
  PROVE  UnitPromise!GiveBack(i, t)
<1>1. \A u \in Threads : Holds(u, i) <=> u = t
  BY DEF IfaceInv, Token
<1>2. Users[i] = {t}
  BY <1>1 DEF Users, Holders, Holds, BroadcastHolds, DtorHolds
<1>3. Users'[i] = {}
  BY <1>1 DEF Users, Holders, Holds, BroadcastHolds, DtorHolds
<1>4. Users' = [Users EXCEPT ![i] = {}]
  BY <1>3, UsersMove
<1> QED
  BY <1>2, <1>4 DEF UnitPromise!GiveBack

\* A step after which nobody has the interface of unit i, because the destructor t that had
\* it has withdrawn it.
LEMMA WithdrawsUnit ==
  ASSUME IfaceInv, NEW t \in Threads, NEW i \in Slots, UNCHANGED <<used, idx, fpriv>>,
         pc[t] = "dtor_clear", i = idx[t_op[t]], ifaces' = [ifaces EXCEPT ![i] = NULL],
         \A u \in Threads, j \in Slots : Opener(u, j)' <=> Opener(u, j),
         \A u \in Threads, j \in Slots : Holds(u, j)' <=> Holds(u, j) /\ ~(u = t /\ j = i)
  PROVE  UnitPromise!Withdraw(i, t)
<1>1. SharedTypes /\ UnitInv
  BY SplitTypes DEF IfaceInv, UnitInv
<1>2. Holds(t, i)
  BY DEF Holds, DtorHolds
<1>3. \A u \in Threads : Holds(u, i) <=> u = t
  BY <1>2 DEF IfaceInv, Token
<1>4. Users[i] = {t}
  BY <1>3 DEF Users, Holders, Holds, BroadcastHolds, DtorHolds
<1>5. Users'[i] = {}
  BY <1>3 DEF Users, Holders, Holds, BroadcastHolds, DtorHolds
<1>6. Users' = [Users EXCEPT ![i] = {}]
  BY <1>5, UsersMove
<1>7. UNCHANGED UnitOf
  BY DEF UnitOf, tun_ioctl
<1>8. used[i] = 1 /\ Unclaimed(i)
  BY <1>1, UnitFacts DEF DtorPCs
<1>9. ifaces[i] = IFACE_ACQUIRED /\ ifaces'[i] = NULL
  BY <1>1, <1>2 DEF IfaceInv, Token, SharedTypes
<1>10. Phase[i] = "closing" /\ Phase'[i] = "closed"
  <2>1. ~Opening(i) /\ ~Opening(i)'
    BY <1>8 DEF Opening, Opener, Unclaimed
  <2> QED
    BY <1>7, <1>8, <1>9, <2>1, NotIds DEF Phase, Unclaimed
<1>11. Phase' = [Phase EXCEPT ![i] = "closed"]
  <2>1. \A j \in Slots \ {i} : OfferKept(j)
    BY <1>1 DEF SharedTypes, OfferKept
  <2> QED
    BY <1>7, <1>10, <2>1, PhaseMoves
<1> QED
  BY <1>4, <1>6, <1>7, <1>10, <1>11 DEF UnitPromise!Withdraw

\* The four steps that take or give back an interface.
LEMMA UserSteps ==
  ASSUME IfaceInv, ~idx_lost', NEW t \in Threads,
         \/ DtorAcquire(t) \/ DtorClear(t) \/ release_iface(t)
         \/ \E n \in 0 .. MaxAddrs : BroadcastAcquire(t, n)
  PROVE  \/ UNCHANGED <<UnitOf, Phase, Users>>
         \/ \E i \in Slots : \/ UnitPromise!Borrow(i, t) \/ UnitPromise!GiveBack(i, t)
                            \/ UnitPromise!Withdraw(i, t)
<1>1. SharedTypes /\ ThreadTypes /\ Locals /\ UnitInv /\ TypeInv
  BY SplitTypes DEF IfaceInv, UnitInv, ThreadInv
<1>2. ASSUME \/ DtorAcquire(t) \/ release_iface(t)
             \/ \E n \in 0 .. MaxAddrs : BroadcastAcquire(t, n),
             \A i \in Slots : OfferKept(i)
      PROVE  UNCHANGED <<UnitOf, Phase>>
  BY <1>1, <1>2, QuietSteps, AdvanceSteps, PhaseQuiet DEF BroadcastStep
<1>3. CASE DtorAcquire(t)
  <2>1. PICK i \in Slots, c \in Ids :
          /\ c = t_op[t] /\ i = idx[c] /\ pc[t] = "dtor_token"
          /\ Published(c) /\ iface[c] \in Ids
    BY <1>1, <1>3, PublishedFacts DEF DtorAcquire
  <2>2. Frame(t) /\ pc'[t] = "dtor_clear" /\ t_op'[t] = c /\ UNCHANGED idx
    BY <1>1, <1>3, <2>1 DEF DtorAcquire, Goto, Frame, ThreadTypes, opVars
  <2>3. ifaces[i] \in Ids
    BY <1>3, <2>1 DEF DtorAcquire, acquire_iface, IfaceInv, Table
  <2>4. \A u \in Threads, j \in Slots : Holds(u, j)' <=> Holds(u, j) \/ (u = t /\ j = i)
    BY <2>1, <2>2 DEF Frame, Holds, DtorHolds, BroadcastHolds, OutPCs
  <2>5. \A j \in Slots : OfferKept(j)
    BY <1>1, <1>3, <2>1, <2>3, NotIds DEF DtorAcquire, acquire_iface, OfferKept, SharedTypes
  <2> QED
    BY <1>2, <1>3, <2>3, <2>4, <2>5, BorrowsUnit
<1>4. CASE DtorClear(t)
  <2>1. PICK i \in Slots : i = idx[t_op[t]] /\ pc[t] = "dtor_clear"
    BY <1>1, <1>4, PublishedFacts DEF DtorClear
  <2>2. /\ Frame(t) /\ pc'[t] = "dtor_flock" /\ t_op'[t] = t_op[t]
        /\ UNCHANGED <<used, idx, fpriv>> /\ ifaces' = [ifaces EXCEPT ![i] = NULL]
    BY <1>1, <1>4, <2>1 DEF DtorClear, Goto, Frame, ThreadTypes, opVars
  <2>3. \A u \in Threads, j \in Slots : Opener(u, j)' <=> Opener(u, j)
    BY <2>1, <2>2 DEF Frame, Opener, OpenPCs
  <2>4. \A u \in Threads, j \in Slots : Holds(u, j)' <=> Holds(u, j) /\ ~(u = t /\ j = i)
    BY <2>1, <2>2 DEF Frame, Holds, DtorHolds, BroadcastHolds, OutPCs
  <2>5. UNCHANGED used /\ UNCHANGED idx /\ UNCHANGED fpriv
    BY <2>2
  <2>6. UnitPromise!Withdraw(i, t)
    BY <2>1, <2>2, <2>3, <2>4, <2>5, WithdrawsUnit
  <2> QED
    BY <2>6
<1>5. CASE release_iface(t)
  <2>1. PICK i \in Slots : i = t_slot[t] /\ pc[t] = "bcast_addr" /\ UNCHANGED idx
    BY <1>1, <1>5 DEF release_iface, Locals, opVars
  <2>2. Frame(t) /\ pc'[t] \in {"idle", "bcast_acquire"}
    BY <1>1, <1>5, NextSlotFrame DEF release_iface
  <2>3. Holds(t, i)
    BY <2>1 DEF Holds, BroadcastHolds
  <2>4. \A u \in Threads, j \in Slots : Holds(u, j)' <=> Holds(u, j) /\ ~(u = t /\ j = i)
    BY <2>1, <2>2 DEF Frame, Holds, DtorHolds, BroadcastHolds, OutPCs
  <2>5. \A j \in Slots : OfferKept(j)
    <3>1. ifaces[i] = IFACE_ACQUIRED /\ t_if[t] \in Ids
      BY <1>1, <2>1, <2>3 DEF IfaceInv, Token, Locals
    <3>2. ifaces' = [ifaces EXCEPT ![i] = t_if[t]]
      BY <1>5, <2>1 DEF release_iface
    <3> QED
      BY <1>1, <3>1, <3>2, NotIds DEF OfferKept, SharedTypes
  <2> QED
    BY <1>2, <1>5, <2>3, <2>4, <2>5, GivesUnitBack
<1>6. ASSUME NEW n \in 0 .. MaxAddrs, BroadcastAcquire(t, n)
      PROVE  \/ UNCHANGED <<UnitOf, Phase, Users>>
             \/ \E i \in Slots : UnitPromise!Borrow(i, t)
  <2>1. PICK i \in Slots : i = t_slot[t] /\ pc[t] = "bcast_acquire" /\ UNCHANGED idx
    BY <1>1, <1>6 DEF BroadcastAcquire, Locals, opVars
  <2>2. CASE ifaces[i] = NULL
    <3>1. Frame(t) /\ pc'[t] \in {"idle", "bcast_acquire"}
      BY <1>1, <1>6, <2>1, <2>2, NextSlotFrame DEF BroadcastAcquire, acquire_iface
    <3>2. \A u \in Threads, j \in Slots : Holds(u, j)' <=> Holds(u, j)
      BY <2>1, <3>1 DEF Frame, Holds, DtorHolds, BroadcastHolds, OutPCs
    <3>3. UNCHANGED Users
      BY <3>2 DEF Users, Holders, Holds, BroadcastHolds, DtorHolds
    <3>4. \A j \in Slots : OfferKept(j)
      BY <1>6, <2>1, <2>2 DEF BroadcastAcquire, acquire_iface, OfferKept
    <3> QED
      BY <1>2, <1>6, <3>3, <3>4
  <2>3. CASE ifaces[i] # NULL
    <3>1. /\ ifaces[i] \in Ids /\ Goto(t, "bcast_addr")
          /\ t_if' = [t_if EXCEPT ![t] = ifaces[i]] /\ UNCHANGED <<t_slot, t_op>>
      BY <1>6, <2>1, <2>3 DEF BroadcastAcquire, acquire_iface
    <3>2. Frame(t) /\ pc'[t] = "bcast_addr" /\ t_slot'[t] = i
      BY <1>1, <2>1, <3>1 DEF Goto, Frame, ThreadTypes
    <3>3. \A u \in Threads, j \in Slots : Holds(u, j)' <=> Holds(u, j) \/ (u = t /\ j = i)
      BY <2>1, <3>2 DEF Frame, Holds, DtorHolds, BroadcastHolds, OutPCs
    <3>4. \A j \in Slots : OfferKept(j)
      BY <1>1, <1>6, <2>1, <2>3, NotIds DEF BroadcastAcquire, acquire_iface, OfferKept, SharedTypes
    <3> QED
      BY <1>2, <1>6, <3>1, <3>3, <3>4, BorrowsUnit
  <2> QED
    BY <2>2, <2>3
<1> QED
  BY <1>3, <1>4, <1>5, <1>6

LEMMA SameUsers == SameHolders => UNCHANGED Users
<1> SUFFICES ASSUME SameHolders  PROVE UNCHANGED Users
  OBVIOUS
<1>1. ASSUME NEW i \in Slots  PROVE Holders(i)' = Holders(i)
  BY DEF SameHolders, Holders, BroadcastHolds, DtorHolds
<1> QED
  BY <1>1 DEF Users

LEMMA UnitStep ==
  ASSUME IfaceInv, OpenFiles, [Next]_vars, ~idx_lost'
  PROVE  [UnitPromise!Kept]_<<UnitOf, Phase, Users>>
<1> UnitInv /\ TypeInv
  BY DEF IfaceInv, UnitInv
<1> USE DEF UnitPromise!Kept
<1>1. ASSUME NEW t \in Threads, SilentAction(t)
      PROVE  [UnitPromise!Kept]_<<UnitOf, Phase, Users>>
  <2>1. UNCHANGED Users /\ \A i \in Slots : OfferKept(i)
    BY <1>1, SilentActions, SameUsers DEF SameTable, OfferKept
  <2>2. CASE acquire_idx(t)
    BY <2>1, <2>2, TakesUnit
  <2>3. CASE SetCdevpriv(t)
    BY <2>1, <2>3, OpensUnit
  <2>4. ASSUME NEW f \in Files, BeginClose(t, f)  PROVE UnitPromise!Kept
    BY <2>1, <2>4, ClosesUnit
  <2>5. CASE release_idx(t)
    BY <2>1, <2>5, FreesUnit
  <2>6. ASSUME \/ \E f \in Files : BeginOpen(t, f)
               \/ \E f \in Files, label \in {"read_lock", "poll_lock", "write_lock"} :
                     BeginCall(t, f, label)
               \/ \E n \in Ids : BeginOutput(t, n)
               \/ BeginBroadcast(t) \/ SetSoftc(t)
               \/ CallStep(t) \/ InterruptRead(t) \/ OutputStep(t) \/ BroadcastSend(t)
               \/ DtorLock(t) \/ DtorTinyLock(t) \/ DtorUnlock(t)
        PROVE  UNCHANGED <<UnitOf, Phase>>
    BY <2>1, <2>6, QuietSteps, AdvanceSteps, PhaseQuiet DEF BroadcastStep
  <2> QED
    BY <1>1, <2>1, <2>2, <2>3, <2>4, <2>5, <2>6 DEF SilentAction
<1>2. ASSUME NEW t \in Threads,
             \/ \E c \in Ids : opaque_alloc(t, c)
             \/ DtorDetach(t) \/ DtorFree(t)
      PROVE  UNCHANGED <<UnitOf, Phase, Users>>
  <2>1. UNCHANGED Users /\ \A i \in Slots : OfferKept(i)
    BY <1>2, SilentAlloc, SilentDtor, SameUsers DEF SameTable, OfferKept
  <2> QED
    BY <1>2, <2>1, PhaseQuiet
<1>3. ASSUME NEW t \in Threads, PublishIface(t)  PROVE UNCHANGED <<UnitOf, Phase, Users>>
  <2>1. SharedTypes /\ ThreadTypes
    BY SplitTypes DEF ThreadInv
  <2>2. Frame(t) /\ pc[t] = "release_iface" /\ pc'[t] = "unlock_new" /\ UNCHANGED idx
    BY <1>3, <2>1 DEF PublishIface, Goto, Frame, ThreadTypes
  <2>3. \A i \in Slots : Opening(i) \/ OfferKept(i)
    BY <1>3, <2>1, <2>2 DEF PublishIface, Opening, OfferKept, OpenPCs, SharedTypes
  <2> QED
    BY <1>3, <2>2, <2>3, PhaseQuiet, AdvanceSteps, KeepHolders, SameUsers DEF OutPCs
<1>4. CASE UNCHANGED vars
  BY <1>4 DEF vars, slotVars, opVars, thVars, UnitOf, tun_ioctl, Phase, Opening, Users, Holders
<1>5. ASSUME NEW t \in Threads, Begin(t)  PROVE [UnitPromise!Kept]_<<UnitOf, Phase, Users>>
  BY <1>1, <1>5 DEF Begin, SilentAction
<1>6. ASSUME NEW t \in Threads, Step(t) \/ InterruptRead(t)
      PROVE  [UnitPromise!Kept]_<<UnitOf, Phase, Users>>
  <2> HIDE DEF UnitPromise!Kept
  <2>1. ASSUME \/ DtorAcquire(t) \/ DtorClear(t) \/ release_iface(t)
               \/ \E n \in 0 .. MaxAddrs : BroadcastAcquire(t, n)
        PROVE  [UnitPromise!Kept]_<<UnitOf, Phase, Users>>
    BY <2>1, UserSteps DEF UnitPromise!Kept
  <2> QED
    BY <1>1, <1>2, <1>3, <1>6, <2>1 DEF Step, OpenStep, DtorStep, BroadcastStep, SilentAction
<1> QED
  BY <1>4, <1>5, <1>6 DEF Next

\* For any number of slots, threads, files and opens, the slot table, the interface table
\* and the handlers keep what UnitTable promises of units: each file has its own while it
\* is open, one thread at a time works with the interface, and a unit is taken again only
\* after the whole of opaque_free.
THEOREM KeepsUnits == Spec => ImplementsUnits
<1>1. Init => OpenFiles /\ UnitPromise!Init
  <2> SUFFICES ASSUME Init  PROVE OpenFiles /\ UnitPromise!Init
    OBVIOUS
  <2> idx_lost = FALSE
    BY DEF Init
  <2>1. OpenFiles
    BY DEF Init, OpenFiles, OpeningPCs, NewPCs, OpenPCs
  <2>2. UnitOf = [f \in Files |-> NoSlot]
    BY DEF Init, UnitOf
  <2>3. Phase = [i \in Slots |-> "free"]
    BY DEF Init, Phase
  <2>4. Users = [i \in Slots |-> {}]
    <3>1. \A i \in Slots : Holders(i) = {}
      BY DEF Init, Holders, OutPCs
    <3> QED
      BY <3>1 DEF Users
  <2> QED
    BY <2>1, <2>2, <2>3, <2>4 DEF UnitPromise!Init
<1>2. (idx_lost \/ IfaceInv) /\ (idx_lost \/ OpenFiles) /\ [Next]_vars => (idx_lost \/ OpenFiles)'
  BY OpenFilesStep, LostStays DEF IfaceInv, UnitInv
<1>3. TypeOK /\ TypeOK' /\ (idx_lost \/ IfaceInv) /\ (idx_lost \/ OpenFiles) /\ [Next]_vars
      => [UnitPromise!Next]_<<UnitOf, Phase, Users, idx_lost>>
  <2> SUFFICES ASSUME TypeOK, TypeOK', idx_lost \/ IfaceInv, idx_lost \/ OpenFiles, [Next]_vars
               PROVE  [UnitPromise!Next]_<<UnitOf, Phase, Users, idx_lost>>
    OBVIOUS
  <2>1. CASE idx_lost'
    BY <2>1 DEF UnitPromise!Next
  <2>2. CASE ~idx_lost'
    <3>1. ~idx_lost /\ IfaceInv /\ OpenFiles
      BY <2>2, LostStays
    <3>2. [UnitPromise!Kept]_<<UnitOf, Phase, Users>>
      BY <2>2, <3>1, UnitStep
    <3>3. idx_lost = FALSE /\ idx_lost' = FALSE
      BY <2>2, <3>1 DEF TypeOK
    <3> QED
      BY <3>2, <3>3 DEF UnitPromise!Next
  <2> QED
    BY <2>1, <2>2
<1> QED
  BY <1>1, <1>2, <1>3, IfaceInvInvariant, TypeCorrect, PTL DEF Spec, ImplementsUnits, UnitPromise!Spec
=============================================================================
