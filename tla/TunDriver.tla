------------------------------ MODULE TunDriver ------------------------------
(***************************************************************************)
(* The kernel tun driver (src/tun/main.c), in the build of src/tun/Makefile *)
(* (-DPS4, no IFNET_CACHE): the slot table used[], the published interface  *)
(* table ifaces[], one struct opaque per open /dev/tun descriptor, and the  *)
(* threads that run tun_open, tun_read, tun_write, tun_poll, the descriptor *)
(* destructor opaque_free, tun_output and the UDP hook new_udp_send.        *)
(*                                                                         *)
(* A step of a thread is one access to state that other threads see;        *)
(* accesses that nobody can observe separately (initialising memory that    *)
(* is still private, what is done last under a lock and the unlock) are one *)
(* step.  Kernel services (malloc, mutexes, sockets, ifnets, devfs) are     *)
(* external and modelled by what the driver relies on.                      *)
(***************************************************************************)
EXTENDS Integers, FiniteSets

CONSTANTS
  NSlots,    \* length of used[] and ifaces[] (10 in the code)
  Threads,   \* kernel threads entering the driver
  NoThread,  \* owner of a free mutex
  Files,     \* open-file objects that refer to /dev/tun
  NoFile,
  MaxOpens,  \* bound: number of tun_open calls
  SockBuf,   \* bound: datagrams the receiver's socket buffer holds
  MaxAddrs   \* bound: usable addresses on one interface

ASSUME TunAssumption ==
  /\ NSlots \in Nat \ {0}
  /\ NoThread \notin Threads
  /\ NoFile \notin Files
  /\ MaxOpens \in Nat
  /\ SockBuf \in Nat
  /\ MaxAddrs \in Nat

Slots == 0 .. NSlots - 1
Ids == 1 .. MaxOpens        \* addresses of opaques, and of ifnets
NULL == 0
IFACE_ACQUIRED == -1

VARIABLES
  used,       \* used[i]: slot i is taken
  ifaces,     \* ifaces[i]: NULL, IFACE_ACQUIRED or a published ifnet
  state,      \* of an opaque: "none", "live", "closed" (sockets closed), "freed"
  idx,        \* op->idx
  lock,       \* owner of op->lock
  free_lock,  \* op->free_lock
  rcv,        \* datagrams queued on op->receiver
  iface,      \* op->iface
  ifstate,    \* of an ifnet: "none", "attached", "freed"
  if_softc,   \* ifnet->if_softc
  fpriv,      \* cdevpriv of an open file
  pc, t_slot, t_file, t_op, t_if, t_left,   \* a thread's position and locals
  nopen,      \* number of tun_open calls so far
  idx_lost,   \* history: malloc has handed out the memory of an opaque before its
              \* destructor read op->idx back from it (main.c:172-174)
  panic       \* the kernel has touched freed memory and stopped

slotVars == <<used, ifaces>>
opVars == <<state, idx, lock, free_lock, rcv, iface>>
ifVars == <<ifstate, if_softc>>
thVars == <<pc, t_slot, t_file, t_op, t_if, t_left>>
vars == <<slotVars, opVars, ifVars, fpriv, thVars, nopen, idx_lost, panic>>

OpenPCs == {"set_softc", "release_iface", "unlock_new"}
DtorPCs == {"dtor_lock", "dtor_token", "dtor_clear", "dtor_flock", "dtor_detach",
            "dtor_unlock", "dtor_free"}
OutPCs == {"out_softc", "out_lock", "out_send"}
FilePCs == {"read_lock", "soreceive", "poll_lock", "sopoll", "write_lock", "netisr"}
PCs == {"idle", "acquire_idx", "opaque_alloc", "release_idx",
        "bcast_acquire", "bcast_addr"}
       \cup OpenPCs \cup DtorPCs \cup OutPCs \cup FilePCs

\* No slot in hand.
NoSlot == NSlots

TypeOK ==
  /\ used \in [Slots -> {0, 1}]
  /\ ifaces \in [Slots -> Ids \cup {NULL, IFACE_ACQUIRED}]
  /\ state \in [Ids -> {"none", "live", "closed", "freed"}]
  /\ idx \in [Ids -> Slots]
  /\ lock \in [Ids -> Threads \cup {NoThread}]
  /\ free_lock \in [Ids -> {0, 1}]
  /\ rcv \in [Ids -> 0 .. SockBuf]
  /\ iface \in [Ids -> Ids \cup {NULL}]
  /\ ifstate \in [Ids -> {"none", "attached", "freed"}]
  /\ if_softc \in [Ids -> Ids \cup {NULL}]
  /\ fpriv \in [Files -> Ids \cup {NULL}]
  /\ pc \in [Threads -> PCs]
  /\ t_slot \in [Threads -> 0 .. NSlots]
  /\ t_file \in [Threads -> Files \cup {NoFile}]
  /\ t_op \in [Threads -> Ids \cup {NULL}]
  /\ t_if \in [Threads -> Ids \cup {NULL}]
  /\ t_left \in [Threads -> 0 .. MaxAddrs]
  /\ nopen \in 0 .. MaxOpens
  /\ idx_lost \in BOOLEAN
  /\ panic \in BOOLEAN

Init ==
  /\ used = [i \in Slots |-> 0]
  /\ ifaces = [i \in Slots |-> NULL]
  /\ state = [c \in Ids |-> "none"]
  /\ idx = [c \in Ids |-> 0]
  /\ lock = [c \in Ids |-> NoThread]
  /\ free_lock = [c \in Ids |-> 0]
  /\ rcv = [c \in Ids |-> 0]
  /\ iface = [c \in Ids |-> NULL]
  /\ ifstate = [n \in Ids |-> "none"]
  /\ if_softc = [n \in Ids |-> NULL]
  /\ fpriv = [f \in Files |-> NULL]
  /\ pc = [t \in Threads |-> "idle"]
  /\ t_slot = [t \in Threads |-> NoSlot]
  /\ t_file = [t \in Threads |-> NoFile]
  /\ t_op = [t \in Threads |-> NULL]
  /\ t_if = [t \in Threads |-> NULL]
  /\ t_left = [t \in Threads |-> 0]
  /\ nopen = 0
  /\ idx_lost = FALSE
  /\ panic = FALSE

Goto(t, label) == pc' = [pc EXCEPT ![t] = label]

\* The thread leaves the driver.
Return(t) ==
  /\ Goto(t, "idle")
  /\ t_slot' = [t_slot EXCEPT ![t] = NoSlot]
  /\ t_file' = [t_file EXCEPT ![t] = NoFile]
  /\ t_op' = [t_op EXCEPT ![t] = NULL]
  /\ t_if' = [t_if EXCEPT ![t] = NULL]
  /\ t_left' = [t_left EXCEPT ![t] = 0]

\* A system call in flight holds a reference to its file (external: fget/fdrop).
Referenced(f) == \E t \in Threads : t_file[t] = f

-----------------------------------------------------------------------------
(* tun_open *)

BeginOpen(t, f) ==
  /\ pc[t] = "idle" /\ fpriv[f] = NULL /\ ~Referenced(f)
  /\ nopen < MaxOpens
  /\ nopen' = nopen + 1
  /\ Goto(t, "acquire_idx")
  /\ t_file' = [t_file EXCEPT ![t] = f]
  /\ t_slot' = [t_slot EXCEPT ![t] = 0]
  /\ t_if' = [t_if EXCEPT ![t] = nopen + 1]
  /\ UNCHANGED <<slotVars, opVars, ifVars, fpriv, t_op, t_left, idx_lost, panic>>

\* One iteration of the compare-and-set loop; ENOMEM once every slot was tried.
acquire_idx(t) ==
  /\ pc[t] = "acquire_idx"
  /\ UNCHANGED <<ifaces, opVars, ifVars, fpriv, nopen, idx_lost, panic>>
  /\ \/ /\ t_slot[t] = NSlots
        /\ Return(t)
        /\ UNCHANGED used
     \/ /\ t_slot[t] < NSlots /\ used[t_slot[t]] = 0
        /\ used' = [used EXCEPT ![t_slot[t]] = 1]
        /\ Goto(t, "opaque_alloc")
        /\ UNCHANGED <<t_slot, t_file, t_op, t_if, t_left>>
     \/ /\ t_slot[t] < NSlots /\ used[t_slot[t]] = 1
        /\ t_slot' = [t_slot EXCEPT ![t] = @ + 1]
        /\ UNCHANGED <<used, pc, t_file, t_op, t_if, t_left>>

\* The memory malloc may return to thread t: fresh, or a freed opaque's, whether or
\* not its destructor is done with it.
Mallocable(t) == {t_if[t]} \cup {c \in Ids : state[c] = "freed"}

\* Destructors that still have to read op->idx back from the freed opaque at c.
Releasing(c) == {u \in Threads : pc[u] = "release_idx" /\ t_op[u] = c}

\* Up to if_attach: the opaque is still private, the ifnet becomes reachable
\* with if_softc = NULL.
opaque_alloc(t, c) ==
  /\ pc[t] = "opaque_alloc"
  /\ c \in Mallocable(t)
  /\ state' = [state EXCEPT ![c] = "live"]
  /\ idx' = [idx EXCEPT ![c] = t_slot[t]]
  /\ lock' = [lock EXCEPT ![c] = t]
  /\ free_lock' = [free_lock EXCEPT ![c] = 1]
  /\ rcv' = [rcv EXCEPT ![c] = 0]
  /\ iface' = [iface EXCEPT ![c] = t_if[t]]
  /\ ifstate' = [ifstate EXCEPT ![t_if[t]] = "attached"]
  /\ if_softc' = [if_softc EXCEPT ![t_if[t]] = NULL]
  /\ t_op' = [t_op EXCEPT ![t] = c]
  /\ idx_lost' = (idx_lost \/ Releasing(c) # {})
  /\ Goto(t, "set_softc")
  /\ UNCHANGED <<slotVars, fpriv, t_slot, t_file, t_if, t_left, nopen, panic>>

\* op->iface->if_softc = op
SetSoftc(t) ==
  /\ pc[t] = "set_softc"
  /\ if_softc' = [if_softc EXCEPT ![t_if[t]] = t_op[t]]
  /\ Goto(t, "release_iface")
  /\ UNCHANGED <<slotVars, opVars, ifstate, fpriv, t_slot, t_file, t_op, t_if,
                 t_left, nopen, idx_lost, panic>>

\* Mutant: opaque_alloc forgets to publish the interface.
PublishIface_NoStore(t) ==
  /\ pc[t] = "release_iface"
  /\ free_lock' = [free_lock EXCEPT ![t_op[t]] = 0]
  /\ Goto(t, "unlock_new")
  /\ UNCHANGED <<slotVars, state, idx, lock, rcv, iface, ifVars, fpriv, t_slot, t_file,
                 t_op, t_if, t_left, nopen, idx_lost, panic>>

\* tiny_unlock(&op->free_lock); release_iface(idx, op->iface)
PublishIface(t) ==
  /\ pc[t] = "release_iface"
  /\ free_lock' = [free_lock EXCEPT ![t_op[t]] = 0]
  /\ ifaces' = [ifaces EXCEPT ![t_slot[t]] = iface[t_op[t]]]
  /\ Goto(t, "unlock_new")
  /\ UNCHANGED <<used, state, idx, lock, rcv, iface, ifVars, fpriv, t_slot, t_file,
                 t_op, t_if, t_left, nopen, idx_lost, panic>>

\* mtx_unlock(&op->lock); devfs_set_cdevpriv(op, opaque_free): only this thread
\* knows the file until tun_open returns.
SetCdevpriv(t) ==
  /\ pc[t] = "unlock_new"
  /\ lock' = [lock EXCEPT ![t_op[t]] = NoThread]
  /\ fpriv' = [fpriv EXCEPT ![t_file[t]] = t_op[t]]
  /\ Return(t)
  /\ UNCHANGED <<slotVars, state, idx, free_lock, rcv, iface, ifVars, nopen, idx_lost, panic>>

-----------------------------------------------------------------------------
(* tun_read, tun_poll, tun_write, tun_ioctl *)

\* devfs_get_cdevpriv in a system call on an open file.  The early errors of
\* tun_write (oversized packet, no memory, uiomove) return without effect.
BeginCall(t, f, label) ==
  /\ pc[t] = "idle" /\ fpriv[f] # NULL
  /\ label \in {"read_lock", "poll_lock", "write_lock"}
  /\ Goto(t, label)
  /\ t_file' = [t_file EXCEPT ![t] = f]
  /\ t_op' = [t_op EXCEPT ![t] = fpriv[f]]
  /\ UNCHANGED <<slotVars, opVars, ifVars, fpriv, t_slot, t_if, t_left, nopen, idx_lost, panic>>

tiny_lock(c) ==
  /\ free_lock[c] = 0
  /\ free_lock' = [free_lock EXCEPT ![c] = 1]

tiny_unlock(c) == free_lock' = [free_lock EXCEPT ![c] = 0]

\* tun_read and tun_poll spin on free_lock.
TinyLock(t) ==
  /\ pc[t] \in {"read_lock", "poll_lock"}
  /\ tiny_lock(t_op[t])
  /\ Goto(t, IF pc[t] = "read_lock" THEN "soreceive" ELSE "sopoll")
  /\ UNCHANGED <<slotVars, state, idx, lock, rcv, iface, ifVars, fpriv, t_slot, t_file,
                 t_op, t_if, t_left, nopen, idx_lost, panic>>

\* soreceive sleeps until a datagram is queued, with free_lock held.
tun_read(t) ==
  /\ pc[t] = "soreceive"
  /\ rcv[t_op[t]] > 0
  /\ rcv' = [rcv EXCEPT ![t_op[t]] = @ - 1]
  /\ tiny_unlock(t_op[t])
  /\ Return(t)
  /\ UNCHANGED <<slotVars, state, idx, lock, iface, ifVars, fpriv, nopen, idx_lost, panic>>

\* A signal ends the sleep of tun_read with an error.
InterruptRead(t) ==
  /\ pc[t] = "soreceive"
  /\ tiny_unlock(t_op[t])
  /\ Return(t)
  /\ UNCHANGED <<slotVars, state, idx, lock, rcv, iface, ifVars, fpriv, nopen, idx_lost, panic>>

tun_poll(t) ==
  /\ pc[t] = "sopoll"
  /\ tiny_unlock(t_op[t])
  /\ Return(t)
  /\ UNCHANGED <<slotVars, state, idx, lock, rcv, iface, ifVars, fpriv, nopen, idx_lost, panic>>

WriteLock(t) ==
  /\ pc[t] = "write_lock"
  /\ lock[t_op[t]] = NoThread
  /\ lock' = [lock EXCEPT ![t_op[t]] = t]
  /\ Goto(t, "netisr")
  /\ UNCHANGED <<slotVars, state, idx, free_lock, rcv, iface, ifVars, fpriv, t_slot,
                 t_file, t_op, t_if, t_left, nopen, idx_lost, panic>>

\* Mutant: tun_write returns without mtx_unlock.
tun_write_NoUnlock(t) ==
  /\ pc[t] = "netisr"
  /\ Return(t)
  /\ UNCHANGED <<slotVars, opVars, ifVars, fpriv, nopen, idx_lost, panic>>

\* m_devget and netisr_queue (or ENOMEM), then mtx_unlock.
tun_write(t) ==
  /\ pc[t] = "netisr"
  /\ lock' = [lock EXCEPT ![t_op[t]] = NoThread]
  /\ Return(t)
  /\ UNCHANGED <<slotVars, state, idx, free_lock, rcv, iface, ifVars, fpriv, nopen,
                 idx_lost, panic>>

\* The unit number the private ioctl 0x4004beef reports for a descriptor.
tun_ioctl(f) == idx[fpriv[f]]

-----------------------------------------------------------------------------
(* opaque_free, run by devfs when the last reference to the file goes away *)

BeginClose(t, f) ==
  /\ pc[t] = "idle" /\ fpriv[f] # NULL /\ ~Referenced(f)
  /\ fpriv' = [fpriv EXCEPT ![f] = NULL]
  /\ Goto(t, "dtor_lock")
  /\ t_op' = [t_op EXCEPT ![t] = fpriv[f]]
  /\ UNCHANGED <<slotVars, opVars, ifVars, t_slot, t_file, t_if, t_left, nopen, idx_lost, panic>>

\* Mutant: the destructor closes the sockets before it waits for the token.
DtorLock_CloseFirst(t) ==
  /\ pc[t] = "dtor_lock"
  /\ lock[t_op[t]] = NoThread
  /\ lock' = [lock EXCEPT ![t_op[t]] = t]
  /\ state' = [state EXCEPT ![t_op[t]] = "closed"]
  /\ Goto(t, "dtor_token")
  /\ UNCHANGED <<slotVars, idx, free_lock, rcv, iface, ifVars, fpriv, t_slot,
                 t_file, t_op, t_if, t_left, nopen, idx_lost, panic>>

\* mtx_lock(&op->lock)
DtorLock(t) ==
  /\ pc[t] = "dtor_lock"
  /\ lock[t_op[t]] = NoThread
  /\ lock' = [lock EXCEPT ![t_op[t]] = t]
  /\ Goto(t, "dtor_token")
  /\ UNCHANGED <<slotVars, state, idx, free_lock, rcv, iface, ifVars, fpriv, t_slot,
                 t_file, t_op, t_if, t_left, nopen, idx_lost, panic>>

\* Mutant: acquire_iface returns the pointer without leaving the token.
acquire_iface_NoToken(i, got) ==
  /\ ifaces[i] # IFACE_ACQUIRED
  /\ got = ifaces[i]
  /\ ifaces' = ifaces

\* acquire_iface(i) in thread t: NULL at once, an ifnet once nobody has it.
acquire_iface(i, got) ==
  /\ ifaces[i] # IFACE_ACQUIRED
  /\ got = ifaces[i]
  /\ ifaces' = IF got = NULL THEN ifaces
               ELSE [ifaces EXCEPT ![i] = IFACE_ACQUIRED]

\* Mutant: the destructor does not wait for the token.
DtorAcquire_NoWait(t) ==
  /\ pc[t] = "dtor_token"
  /\ Goto(t, "dtor_clear")
  /\ UNCHANGED <<slotVars, opVars, ifVars, fpriv, t_slot, t_file, t_op, t_if, t_left, nopen,
                 idx_lost, panic>>

DtorAcquire(t) ==
  /\ pc[t] = "dtor_token"
  /\ \E got \in Ids \cup {NULL} : acquire_iface(idx[t_op[t]], got)
  /\ Goto(t, "dtor_clear")
  /\ UNCHANGED <<used, opVars, ifVars, fpriv, t_slot, t_file, t_op, t_if, t_left, nopen,
                 idx_lost, panic>>

\* Mutant: the destructor puts the interface back instead of NULL.
DtorClear_PutBack(t) ==
  /\ pc[t] = "dtor_clear"
  /\ ifaces' = [ifaces EXCEPT ![idx[t_op[t]]] = iface[t_op[t]]]
  /\ Goto(t, "dtor_flock")
  /\ UNCHANGED <<used, opVars, ifVars, fpriv, t_slot, t_file, t_op, t_if, t_left, nopen,
                 idx_lost, panic>>

\* Mutant: the destructor gives the slot back together with the interface pointer.
DtorClear_ReleaseEarly(t) ==
  /\ pc[t] = "dtor_clear"
  /\ ifaces' = [ifaces EXCEPT ![idx[t_op[t]]] = NULL]
  /\ used' = [used EXCEPT ![idx[t_op[t]]] = 0]
  /\ Goto(t, "dtor_flock")
  /\ UNCHANGED <<opVars, ifVars, fpriv, t_slot, t_file, t_op, t_if, t_left, nopen, idx_lost, panic>>

\* atomic_store_rel_ptr(ifaces + op->idx, 0)
DtorClear(t) ==
  /\ pc[t] = "dtor_clear"
  /\ ifaces' = [ifaces EXCEPT ![idx[t_op[t]]] = NULL]
  /\ Goto(t, "dtor_flock")
  /\ UNCHANGED <<used, opVars, ifVars, fpriv, t_slot, t_file, t_op, t_if, t_left, nopen,
                 idx_lost, panic>>

\* soshutdown(op->receiver); tiny_lock(&op->free_lock)
DtorTinyLock(t) ==
  /\ pc[t] = "dtor_flock"
  /\ tiny_lock(t_op[t])
  /\ rcv' = [rcv EXCEPT ![t_op[t]] = 0]
  /\ Goto(t, "dtor_detach")
  /\ UNCHANGED <<slotVars, state, idx, lock, iface, ifVars, fpriv, t_slot, t_file, t_op,
                 t_if, t_left, nopen, idx_lost, panic>>

\* if_detach, if_free, soclose of both sockets, tiny_unlock.
DtorDetach(t) ==
  /\ pc[t] = "dtor_detach"
  /\ ifstate' = [ifstate EXCEPT ![iface[t_op[t]]] = "freed"]
  /\ state' = [state EXCEPT ![t_op[t]] = "closed"]
  /\ tiny_unlock(t_op[t])
  /\ Goto(t, "dtor_unlock")
  /\ UNCHANGED <<slotVars, idx, lock, rcv, iface, if_softc, fpriv, t_slot, t_file, t_op,
                 t_if, t_left, nopen, idx_lost, panic>>

\* mtx_unlock(&op->lock): a thread waiting for the mutex may get it now.
DtorUnlock(t) ==
  /\ pc[t] = "dtor_unlock"
  /\ lock' = [lock EXCEPT ![t_op[t]] = NoThread]
  /\ Goto(t, "dtor_free")
  /\ UNCHANGED <<slotVars, state, idx, free_lock, rcv, iface, ifVars, fpriv, t_slot,
                 t_file, t_op, t_if, t_left, nopen, idx_lost, panic>>

\* mtx_destroy(&op->lock); free(op)
DtorFree(t) ==
  /\ pc[t] = "dtor_free"
  /\ state' = [state EXCEPT ![t_op[t]] = "freed"]
  /\ Goto(t, "release_idx")
  /\ UNCHANGED <<slotVars, idx, lock, free_lock, rcv, iface, ifVars, fpriv, t_slot,
                 t_file, t_op, t_if, t_left, nopen, idx_lost, panic>>

\* int idx = op->idx, read from freed memory; release_idx(idx).  The memory still
\* holds the old value unless malloc has given it to another open.
release_idx(t) ==
  /\ pc[t] = "release_idx"
  /\ used' = [used EXCEPT ![idx[t_op[t]]] = 0]
  /\ Return(t)
  /\ UNCHANGED <<ifaces, opVars, ifVars, fpriv, nopen, idx_lost, panic>>

-----------------------------------------------------------------------------
(* tun_output, called by the IP stack on an attached interface *)

BeginOutput(t, n) ==
  /\ pc[t] = "idle" /\ ifstate[n] = "attached"
  /\ Goto(t, "out_softc")
  /\ t_if' = [t_if EXCEPT ![t] = n]
  /\ UNCHANGED <<slotVars, opVars, ifVars, fpriv, t_slot, t_file, t_op, t_left, nopen,
                 idx_lost, panic>>

\* Back to the caller: the IP stack, or the address loop of new_udp_send.
OutputReturn(t) ==
  IF t_slot[t] = NoSlot THEN Return(t)
  ELSE /\ Goto(t, "bcast_addr")
       /\ t_op' = [t_op EXCEPT ![t] = NULL]
       /\ UNCHANGED <<t_slot, t_file, t_if, t_left>>

\* op = i->if_softc; return 0 if there is none yet.  On a freed ifnet the read
\* yields what the memory still holds, or faults.
OutputSoftc(t) ==
  /\ pc[t] = "out_softc"
  /\ UNCHANGED <<slotVars, opVars, ifVars, fpriv, nopen, idx_lost>>
  /\ \/ /\ if_softc[t_if[t]] = NULL
        /\ OutputReturn(t) /\ UNCHANGED panic
     \/ /\ if_softc[t_if[t]] # NULL
        /\ t_op' = [t_op EXCEPT ![t] = if_softc[t_if[t]]]
        /\ Goto(t, "out_lock")
        /\ UNCHANGED <<t_slot, t_file, t_if, t_left, idx_lost, panic>>
     \/ /\ ifstate[t_if[t]] = "freed"
        /\ panic' = TRUE /\ UNCHANGED thVars

\* mtx_lock(&op->lock); a destroyed mutex faults.
OutputLock(t) ==
  /\ pc[t] = "out_lock"
  /\ UNCHANGED <<slotVars, state, idx, free_lock, rcv, iface, ifVars, fpriv, t_slot,
                 t_file, t_op, t_if, t_left, nopen, idx_lost>>
  /\ \/ /\ state[t_op[t]] # "freed" /\ lock[t_op[t]] = NoThread
        /\ lock' = [lock EXCEPT ![t_op[t]] = t]
        /\ Goto(t, "out_send") /\ UNCHANGED panic
     \/ /\ state[t_op[t]] = "freed"
        /\ panic' = TRUE /\ UNCHANGED <<lock, pc>>

\* sosend(op->sender, ..., MSG_DONTWAIT) of an IPv4 packet, dropped when the
\* buffer is full (other packets are not sent); mtx_unlock; m_freem.  On a closed
\* socket or a freed opaque the call sends nothing or faults.
tun_output(t) ==
  /\ pc[t] = "out_send"
  /\ UNCHANGED <<slotVars, state, idx, free_lock, iface, ifVars, fpriv, nopen, idx_lost>>
  /\ \/ /\ \/ /\ state[t_op[t]] = "live" /\ rcv[t_op[t]] < SockBuf
              /\ rcv' = [rcv EXCEPT ![t_op[t]] = @ + 1]
           \/ UNCHANGED rcv
        /\ lock' = [lock EXCEPT ![t_op[t]] = NoThread]
        /\ OutputReturn(t) /\ UNCHANGED panic
     \/ /\ state[t_op[t]] # "live"
        /\ panic' = TRUE /\ UNCHANGED <<rcv, lock, thVars>>

-----------------------------------------------------------------------------
(* new_udp_send with destination INADDR_BROADCAST; any other destination goes *)
(* straight to old_udp_send and never enters the driver's tables.             *)

BeginBroadcast(t) ==
  /\ pc[t] = "idle"
  /\ Goto(t, "bcast_acquire")
  /\ t_slot' = [t_slot EXCEPT ![t] = 0]
  /\ UNCHANGED <<slotVars, opVars, ifVars, fpriv, t_file, t_op, t_if, t_left, nopen,
                 idx_lost, panic>>

\* Next slot of the loop; after the last one the original datagram is sent.
NextSlot(t) ==
  IF t_slot[t] + 1 = NSlots THEN Return(t)
  ELSE /\ t_slot' = [t_slot EXCEPT ![t] = @ + 1]
       /\ t_if' = [t_if EXCEPT ![t] = NULL]
       /\ t_left' = [t_left EXCEPT ![t] = 0]
       /\ Goto(t, "bcast_acquire")
       /\ UNCHANGED <<t_file, t_op>>

\* acquire_iface(i); continue if there is no interface.  n is the number of
\* usable addresses on if_addrhead.  IF_ADDR_MTX, held while they are walked, is
\* taken by nobody but the thread that has the token.
BroadcastAcquire(t, n) ==
  /\ pc[t] = "bcast_acquire"
  /\ UNCHANGED <<used, opVars, ifVars, fpriv, nopen, idx_lost, panic>>
  /\ \E got \in Ids \cup {NULL} :
       /\ acquire_iface(t_slot[t], got)
       /\ IF got = NULL THEN NextSlot(t)
          ELSE /\ t_if' = [t_if EXCEPT ![t] = got]
               /\ t_left' = [t_left EXCEPT ![t] = n]
               /\ Goto(t, "bcast_addr")
               /\ UNCHANGED <<t_slot, t_file, t_op>>

\* old_udp_send to the broadcast address of the interface: the IP stack either
\* fails (external) or calls tun_output on that interface in this thread.
BroadcastSend(t) ==
  /\ pc[t] = "bcast_addr" /\ t_left[t] > 0
  /\ t_left' = [t_left EXCEPT ![t] = @ - 1]
  /\ \/ Goto(t, "out_softc")
     \/ UNCHANGED pc
  /\ UNCHANGED <<slotVars, opVars, ifVars, fpriv, t_slot, t_file, t_op, t_if, nopen,
                 idx_lost, panic>>

\* release_iface(i, iface) after the last address.
release_iface(t) ==
  /\ pc[t] = "bcast_addr" /\ t_left[t] = 0
  /\ ifaces' = [ifaces EXCEPT ![t_slot[t]] = t_if[t]]
  /\ NextSlot(t)
  /\ UNCHANGED <<used, opVars, ifVars, fpriv, nopen, idx_lost, panic>>

-----------------------------------------------------------------------------
OpenStep(t) ==
  \/ acquire_idx(t)
  \/ \E c \in Ids : opaque_alloc(t, c)
  \/ SetSoftc(t) \/ PublishIface(t) \/ SetCdevpriv(t)
CallStep(t) == TinyLock(t) \/ tun_read(t) \/ tun_poll(t) \/ WriteLock(t) \/ tun_write(t)
DtorStep(t) ==
  \/ DtorLock(t) \/ DtorAcquire(t) \/ DtorClear(t) \/ DtorTinyLock(t) \/ DtorDetach(t)
  \/ DtorUnlock(t) \/ DtorFree(t) \/ release_idx(t)
OutputStep(t) == OutputSoftc(t) \/ OutputLock(t) \/ tun_output(t)
BroadcastStep(t) ==
  \/ \E n \in 0 .. MaxAddrs : BroadcastAcquire(t, n)
  \/ BroadcastSend(t) \/ release_iface(t)

\* A thread that is inside the driver goes on.
Step(t) == OpenStep(t) \/ CallStep(t) \/ DtorStep(t) \/ OutputStep(t) \/ BroadcastStep(t)

\* A thread enters the driver.
Begin(t) ==
  \/ \E f \in Files : BeginOpen(t, f)
  \/ \E f \in Files, label \in {"read_lock", "poll_lock", "write_lock"} :
        BeginCall(t, f, label)
  \/ \E f \in Files : BeginClose(t, f)
  \/ \E n \in Ids : BeginOutput(t, n)
  \/ BeginBroadcast(t)

Next == ~panic /\ \E t \in Threads : Begin(t) \/ Step(t) \/ InterruptRead(t)

Spec == Init /\ [][Next]_vars

-----------------------------------------------------------------------------
(* Properties *)

Holding == {"live", "closed"}

\* Threads that own the token of slot i: a broadcaster between acquire_iface and
\* release_iface, or a destructor between acquire_iface and the store of NULL.
Holders(i) ==
  {t \in Threads :
     \/ t_slot[t] = i /\ pc[t] \in OutPCs \cup {"bcast_addr"}
     \/ pc[t] = "dtor_clear" /\ idx[t_op[t]] = i}

\* Until a tun_open overwrites the idx that a destructor has still to read back, no two
\* open descriptors share a unit: opaques that are not yet freed have different idx, and
\* the slot of each is marked used (acquire_idx, release_idx).
UnitExclusive ==
  ~idx_lost => \A c \in Ids : state[c] \in Holding =>
    /\ used[idx[c]] = 1
    /\ \A d \in Ids \ {c} : state[d] \in Holding => idx[d] # idx[c]

\* Until then the unit number tun_ioctl reports for a descriptor names the interface that
\* new_udp_send finds in ifaces[] under that number: the descriptor's own,
\* published or borrowed by the thread that holds the token, and attached.
IoctlNamesOwnInterface ==
  ~idx_lost => \A f \in Files : fpriv[f] # NULL =>
    LET op == fpriv[f] IN
    /\ state[op] = "live" /\ ifstate[iface[op]] = "attached"
    /\ \/ ifaces[tun_ioctl(f)] = iface[op]
       \/ /\ ifaces[tun_ioctl(f)] = IFACE_ACQUIRED
          /\ \E t \in Holders(tun_ioctl(f)) : t_if[t] = iface[op]

\* Until then the pseudo-pointer IFACE_ACQUIRED is a lock: while a slot holds it exactly
\* one thread is between acquire_iface and the store that gives it back, and nobody
\* believes to have acquired a slot that holds something else.
TokenExclusive ==
  ~idx_lost => \A i \in Slots :
    /\ ifaces[i] = IFACE_ACQUIRED => \E t \in Holders(i) : Holders(i) = {t}
    /\ ifaces[i] # IFACE_ACQUIRED => Holders(i) = {}

\* Until then, while new_udp_send walks if_addrhead of the interface it acquired, and
\* until it puts the pointer back, opaque_free has not detached and freed that interface.
HeldIfaceAttached ==
  ~idx_lost => \A t \in Threads :
    t_slot[t] # NoSlot /\ pc[t] \in OutPCs \cup {"bcast_addr"}
      => ifstate[t_if[t]] = "attached"

\* tun_output reads if_softc before it locks the opaque it names (main.c:113, 116).  Until
\* an idx is lost that is safe behind a broadcast, and only there, since the destructor waits
\* for the token: the opaque is neither closed nor freed, and it is that of the interface
\* which the broadcast has acquired.
BroadcastOutputSafe ==
  ~idx_lost => \A t \in Threads :
    t_slot[t] # NoSlot /\ pc[t] \in {"out_lock", "out_send"}
      => state[t_op[t]] = "live" /\ iface[t_op[t]] = t_if[t]

\* A slot is given back last: when opaque_free clears used[i], the interface of unit
\* i is unpublished, no broadcaster still has it in hand to put it back, and no
\* opaque, attached or being attached, has that unit, until an idx has been overwritten.
SlotReleasedLast ==
  [][\A i \in Slots : ~idx_lost /\ used[i] = 1 /\ used'[i] = 0 =>
        /\ ifaces[i] = NULL /\ Holders(i) = {}
        /\ \A c \in Ids : state[c] \in Holding => idx[c] # i
        /\ \A t \in Threads : ~(pc[t] = "opaque_alloc" /\ t_slot[t] = i)]_vars

\* The units as UnitTable sees them.
UnitOf == [f \in Files |-> IF fpriv[f] = NULL THEN NoSlot ELSE tun_ioctl(f)]

Opening(i) == \E t \in Threads : pc[t] \in OpenPCs \cup {"opaque_alloc"} /\ t_slot[t] = i

Phase ==
  [i \in Slots |-> IF used[i] = 0 THEN "free"
                   ELSE IF \E f \in Files : UnitOf[f] = i THEN "open"
                   ELSE IF Opening(i) THEN "opening"
                   ELSE IF ifaces[i] # NULL THEN "closing" ELSE "closed"]

Users == [i \in Slots |-> Holders(i)]

UnitPromise == INSTANCE UnitTable WITH
  Units <- Slots, NoUnit <- NoSlot, unit <- UnitOf, phase <- Phase, users <- Users,
  broken <- idx_lost

\* The slot table, the interface table and the handlers between them keep what
\* UnitTable promises: a file's unit is its own and stays the same while it is open,
\* and a unit comes free only after a whole close, in which its interface has been taken
\* from everybody and withdrawn for good.  The promise ends where a tun_open overwrites
\* the idx that opaque_free reads from the opaque it has freed, and nowhere else.
ImplementsUnits == UnitPromise!Spec

\* Who has the lock that thread t waits for: op->lock, the token of a slot, or
\* op->free_lock.
WaitsFor(t) ==
  {u \in Threads :
     \/ pc[t] \in {"dtor_lock", "write_lock", "out_lock"} /\ lock[t_op[t]] = u
     \/ pc[t] = "dtor_token" /\ u \in Holders(idx[t_op[t]])
     \/ pc[t] = "bcast_acquire" /\ u \in Holders(t_slot[t])
     \/ /\ pc[t] \in {"read_lock", "poll_lock", "dtor_flock"}
        /\ pc[u] \in {"set_softc", "release_iface", "soreceive", "sopoll", "dtor_detach"}
        /\ t_op[u] = t_op[t]}

\* There is one deadlock, where the driver takes two locks in both orders: among threads
\* that wait for each other's locks are always a destructor that has op->lock and wants
\* the token (main.c:147, 148), and a broadcaster that has the token and wants the same
\* op->lock in tun_output (main.c:116), until an idx has been overwritten.
OneDeadlock ==
  ~idx_lost => \A S \in SUBSET {t \in Threads : WaitsFor(t) # {}} :
    S # {} /\ (\A t \in S : WaitsFor(t) \subseteq S) =>
      \E t, u \in S :
        /\ pc[t] = "dtor_token" /\ pc[u] = "out_lock"
        /\ t_op[t] = t_op[u] /\ t_slot[u] = idx[t_op[t]]

\* opaque_free gives back its own unit: no two open descriptors have one unit.
UnitsDistinct ==
  \A f, g \in Files : f # g /\ fpriv[f] # NULL /\ fpriv[g] # NULL => tun_ioctl(f) # tun_ioctl(g)
=============================================================================
