-------------------------------- MODULE Handles --------------------------------
(***************************************************************************)
(* The registry of an emulated process's objects (src/ldr/handles.c): a     *)
(* list of struct Resource linked by next pointers and by the address of    *)
(* the pointer that leads to each, guarded by the spin lock LOCK().  Every  *)
(* malloc, FILE*, descriptor and addrinfo of the wrapped Linux program is   *)
(* in it.  What a thread does under LOCK is one step, except for the loop   *)
(* of resource_collect, whose iterations are steps.                         *)
(***************************************************************************)
EXTENDS Integers, FiniteSets

CONSTANTS
  Threads,     \* threads of the emulated program
  Main,        \* the one that may call exit (is_main_thread)
  Addrs,       \* addresses malloc can return
  NULL, HEAD,  \* the null pointer, and &list as a value of prev
  MaxObjects   \* bound: number of resource_alloc calls

ASSUME HandlesAssumption ==
  /\ Main \in Threads
  /\ NULL \notin Addrs /\ HEAD \notin Addrs
  /\ MaxObjects \in Nat

Objects == 1 .. MaxObjects

VARIABLES
  mem,               \* of a block of the heap: "free" or "used"
  list, next, prev,  \* the list; prev[a] = b stands for &b->next
  lock,              \* lock
  obj,               \* the object a block belongs to
  calls,             \* calls[o]: how often the free callback of o ran
  nobj,              \* objects created so far
  held,              \* held[a]: how often the program has a pointer to a which it
                     \* has not given back
  peers,             \* the program's threads other than Main
  pc, arg,           \* a thread's position, and the pointer it was called with
  proc,              \* the emulated program: "running" or "exited"
  orphaned,          \* history: an exit began while there were peers
  fault              \* "none", or what the process has died of: "null"
                     \* (store through a null pointer), "dangling" (access to
                     \* a freed block) or "nomem" (malloc returned null)

heapVars == <<mem, list, next, prev>>
objVars == <<obj, calls, nobj>>
threadVars == <<pc, arg, peers, proc, orphaned>>
vars == <<heapVars, lock, objVars, held, threadVars, fault>>

Free == {a \in Addrs : mem[a] = "free"}

\* Blocks resource_free has taken off the list and not yet given back to malloc.
Unlinked == {a \in Addrs : \E t \in Threads : pc[t] = "free_block" /\ arg[t] = a}

\* Blocks that are resources.
Live == {a \in Addrs : mem[a] = "used"} \ Unlinked

TypeOK ==
  /\ mem \in [Addrs -> {"free", "used"}]
  /\ list \in Addrs \cup {NULL}
  /\ next \in [Addrs -> Addrs \cup {NULL}]
  /\ prev \in [Addrs -> Addrs \cup {HEAD}]
  /\ lock \in {0, 1}
  /\ obj \in [Addrs -> 0 .. MaxObjects]
  /\ calls \in [Objects -> Nat]
  /\ nobj \in 0 .. MaxObjects
  /\ held \in [Addrs -> Nat]
  /\ peers \subseteq Threads \ {Main}
  /\ pc \in [Threads -> {"idle", "realloc", "free", "free_block", "collect"}]
  /\ arg \in [Threads -> Addrs \cup {NULL}]
  /\ proc \in {"running", "exited"}
  /\ orphaned \in BOOLEAN
  /\ fault \in {"none", "null", "dangling", "nomem"}

Init ==
  /\ mem = [a \in Addrs |-> "free"]
  /\ list = NULL
  /\ next = [a \in Addrs |-> NULL]
  /\ prev = [a \in Addrs |-> HEAD]
  /\ lock = 0
  /\ obj = [a \in Addrs |-> 0]
  /\ calls = [o \in Objects |-> 0]
  /\ nobj = 0
  /\ held = [a \in Addrs |-> 0]
  /\ peers = {}
  /\ pc = [t \in Threads |-> "idle"]
  /\ arg = [t \in Threads |-> NULL]
  /\ proc = "running"
  /\ orphaned = FALSE
  /\ fault = "none"

Goto(t, label, h) ==
  /\ pc' = [pc EXCEPT ![t] = label]
  /\ arg' = [arg EXCEPT ![t] = h]
  /\ UNCHANGED <<peers, orphaned>>

\* The threads that run the program's code.  my_exit takes Main out of it and no
\* one else: impl_exit stops no thread.
Running == peers \cup {t \in {Main} : proc = "running"}

\* *loc = v for a pointer cell loc of the list, in the links nx.
Store(nx, loc, v) ==
  IF loc = HEAD THEN list' = v /\ next' = nx
  ELSE next' = [nx EXCEPT ![loc] = v] /\ UNCHANGED list

-----------------------------------------------------------------------------

\* Mutant: the old head's prev is not updated.
resource_alloc_NoBackLink(t, a) ==
  /\ pc[t] = "idle" /\ t \in Running /\ lock = 0
  /\ nobj < MaxObjects
  /\ a \in Free
  /\ mem' = [mem EXCEPT ![a] = "used"]
  /\ prev' = [prev EXCEPT ![a] = HEAD]
  /\ next' = [next EXCEPT ![a] = list]
  /\ list' = a
  /\ nobj' = nobj + 1
  /\ obj' = [obj EXCEPT ![a] = nobj + 1]
  /\ held' = [held EXCEPT ![a] = @ + 1]
  /\ UNCHANGED <<lock, calls, threadVars, fault>>

\* The new block becomes the head of the list.
resource_alloc(t, a) ==
  /\ pc[t] = "idle" /\ t \in Running /\ lock = 0
  /\ nobj < MaxObjects
  /\ a \in Free
  /\ mem' = [mem EXCEPT ![a] = "used"]
  /\ prev' = [b \in Addrs |-> IF b = a THEN HEAD ELSE IF b = list THEN a ELSE prev[b]]
  /\ next' = [next EXCEPT ![a] = list]
  /\ list' = a
  /\ nobj' = nobj + 1
  /\ obj' = [obj EXCEPT ![a] = nobj + 1]
  /\ held' = [held EXCEPT ![a] = @ + 1]
  /\ UNCHANGED <<lock, calls, threadVars, fault>>

\* malloc or realloc returns null, and the header is written through it.
NoMemory(t) ==
  /\ pc[t] \in {"idle", "realloc"} /\ t \in Running /\ lock = 0
  /\ Free = {}
  /\ fault' = "nomem"
  /\ UNCHANGED <<heapVars, lock, objVars, held, threadVars>>

\* The program passes a pointer it has to free or realloc.
BeginCall(t, h, label) ==
  /\ pc[t] = "idle" /\ t \in Running
  /\ held[h] > 0 /\ label \in {"free", "realloc"}
  /\ held' = [held EXCEPT ![h] = @ - 1]
  /\ Goto(t, label, h)
  /\ UNCHANGED <<heapVars, lock, objVars, proc, fault>>

\* cur->magic is read: in a block that is no resource it aborts, or worse.  A block
\* that has become another resource meanwhile passes for the one meant.
Dangling(t) ==
  /\ pc[t] \in {"realloc", "free"} /\ lock = 0
  /\ arg[t] \notin Live
  /\ fault' = "dangling"
  /\ UNCHANGED <<heapVars, lock, objVars, held, threadVars>>

\* Mutant: the pointer to the block is not updated when the block moves.
resource_realloc_NoStore(t, a) ==
  /\ pc[t] = "realloc" /\ lock = 0
  /\ arg[t] \in Live /\ a \in Free \cup {arg[t]}
  /\ LET h == arg[t] IN
     /\ mem' = [mem EXCEPT ![h] = "free", ![a] = "used"]
     /\ obj' = [obj EXCEPT ![a] = obj[h]]
     /\ next' = [next EXCEPT ![a] = next[h]]
     /\ list' = list
     /\ prev' = [b \in Addrs |-> IF b = a THEN prev[h] ELSE
                                 IF b = next[h] THEN a ELSE prev[b]]
     /\ fault' = IF next[h] = NULL THEN "null" ELSE fault
     /\ held' = [held EXCEPT ![a] = @ + 1]
  /\ Goto(t, "idle", NULL)
  /\ UNCHANGED <<lock, calls, nobj, proc>>

\* Mutant: the old pointer is returned.
resource_realloc_OldPointer(t, a) ==
  /\ pc[t] = "realloc" /\ lock = 0
  /\ arg[t] \in Live /\ a \in Free \cup {arg[t]}
  /\ LET h == arg[t] IN
     /\ mem' = [mem EXCEPT ![h] = "free", ![a] = "used"]
     /\ obj' = [obj EXCEPT ![a] = obj[h]]
     /\ Store([next EXCEPT ![a] = next[h]], prev[h], a)
     /\ prev' = [b \in Addrs |-> IF b = a THEN prev[h] ELSE
                                 IF b = next[h] THEN a ELSE prev[b]]
     /\ fault' = IF next[h] = NULL THEN "null" ELSE fault
     /\ held' = [held EXCEPT ![h] = @ + 1]
  /\ Goto(t, "idle", NULL)
  /\ UNCHANGED <<lock, calls, nobj, proc>>

\* realloc moves the block with its header to a (or leaves it in place);
\* *cur->prev = cur; cur->next->prev = &cur->next.
resource_realloc(t, a) ==
  /\ pc[t] = "realloc" /\ lock = 0
  /\ arg[t] \in Live /\ a \in Free \cup {arg[t]}
  /\ LET h == arg[t] IN
     /\ mem' = [mem EXCEPT ![h] = "free", ![a] = "used"]
     /\ obj' = [obj EXCEPT ![a] = obj[h]]
     /\ Store([next EXCEPT ![a] = next[h]], prev[h], a)
     /\ prev' = [b \in Addrs |-> IF b = a THEN prev[h] ELSE
                                 IF b = next[h] THEN a ELSE prev[b]]
     /\ fault' = IF next[h] = NULL THEN "null" ELSE fault
     /\ held' = [held EXCEPT ![a] = @ + 1]
  /\ Goto(t, "idle", NULL)
  /\ UNCHANGED <<lock, calls, nobj, proc>>

\* res->free(h); *res->prev = res->next; res->next->prev = res->prev.
resource_free(t) ==
  /\ pc[t] = "free" /\ lock = 0
  /\ arg[t] \in Live
  /\ LET h == arg[t] IN
     /\ calls' = [calls EXCEPT ![obj[h]] = @ + 1]
     /\ Store(next, prev[h], next[h])
     /\ prev' = [b \in Addrs |-> IF b = next[h] THEN prev[h] ELSE prev[b]]
     /\ fault' = IF next[h] = NULL THEN "null" ELSE fault
     /\ Goto(t, "free_block", h)
  /\ UNCHANGED <<mem, lock, obj, nobj, held, proc>>

\* free(res), after UNLOCK.
FreeBlock(t) ==
  /\ pc[t] = "free_block"
  /\ mem' = [mem EXCEPT ![arg[t]] = "free"]
  /\ Goto(t, "idle", NULL)
  /\ UNCHANGED <<list, next, prev, lock, objVars, held, proc, fault>>

\* pthread_create and pthread_exit, which the loader hands to the program as they are.
pthread_create(u, t) ==
  /\ pc[u] = "idle" /\ u \in Running
  /\ t # Main /\ t \notin peers
  /\ peers' = peers \cup {t}
  /\ UNCHANGED <<heapVars, lock, objVars, held, pc, arg, proc, orphaned, fault>>

pthread_exit(t) ==
  /\ pc[t] = "idle" /\ t \in peers
  /\ peers' = peers \ {t}
  /\ UNCHANGED <<heapVars, lock, objVars, held, pc, arg, proc, orphaned, fault>>

\* impl_exit: only in the main thread, and whatever the others are doing.
BeginCollect ==
  /\ pc[Main] = "idle" /\ proc = "running" /\ lock = 0
  /\ lock' = 1
  /\ pc' = [pc EXCEPT ![Main] = "collect"]
  /\ orphaned' = (orphaned \/ peers # {})
  /\ UNCHANGED <<heapVars, objVars, held, arg, peers, proc, fault>>

\* Mutant: the iteration frees the head but skips its successor.
resource_collect_Skip ==
  /\ pc[Main] = "collect" /\ list # NULL
  /\ calls' = [calls EXCEPT ![obj[list]] = @ + 1]
  /\ mem' = [mem EXCEPT ![list] = "free"]
  /\ list' = IF next[list] = NULL THEN NULL ELSE next[next[list]]
  /\ UNCHANGED <<next, prev, lock, obj, nobj, held, threadVars, fault>>

\* One iteration: cur->free(cur + 1); list = cur->next; free(cur).
resource_collect ==
  /\ pc[Main] = "collect" /\ list # NULL
  /\ calls' = [calls EXCEPT ![obj[list]] = @ + 1]
  /\ mem' = [mem EXCEPT ![list] = "free"]
  /\ list' = next[list]
  /\ UNCHANGED <<next, prev, lock, obj, nobj, held, threadVars, fault>>

\* UNLOCK; my_exit leaves the emulated program.  Its pointers are gone with it, except
\* those that peers still know.
EndCollect ==
  /\ pc[Main] = "collect" /\ list = NULL
  /\ lock' = 0 /\ proc' = "exited"
  /\ held' = IF peers = {} THEN [a \in Addrs |-> 0] ELSE held
  /\ Goto(Main, "idle", NULL)
  /\ UNCHANGED <<heapVars, objVars, fault>>

\* execute() starts the program again.
Restart ==
  /\ proc = "exited"
  /\ proc' = "running"
  /\ UNCHANGED <<heapVars, lock, objVars, held, pc, arg, peers, orphaned, fault>>

Step(t) ==
  \/ \E a \in Addrs : resource_alloc(t, a) \/ resource_realloc(t, a)
  \/ \E h \in Addrs, label \in {"free", "realloc"} : BeginCall(t, h, label)
  \/ \E u \in Threads : pthread_create(t, u)
  \/ pthread_exit(t)
  \/ NoMemory(t) \/ Dangling(t) \/ resource_free(t) \/ FreeBlock(t)

Next ==
  /\ fault = "none"
  /\ (\E t \in Threads : Step(t)) \/ BeginCollect \/ resource_collect \/ EndCollect \/ Restart

Spec == Init /\ [][Next]_vars

-----------------------------------------------------------------------------
(* Properties *)

\* No live resource is older than a and younger than b: b follows a on the list.
Follows(b, a) ==
  IF b = NULL THEN \A c \in Live : obj[c] >= obj[a]
  ELSE /\ b \in Live /\ obj[b] < obj[a]
       /\ \A c \in Live : ~(obj[b] < obj[c] /\ obj[c] < obj[a])

\* The list is exactly the live resources, youngest first, each object's block
\* once: its head is the youngest and each next pointer leads to the next older one.
\* resource_collect, which walks it, therefore meets every resource and ends.
ListExact ==
  fault = "none" =>
    /\ IF list = NULL THEN Live = {}
       ELSE list \in Live /\ \A c \in Live : obj[c] <= obj[list]
    /\ \A a \in Live : Follows(next[a], a)
    /\ \A a, b \in Live : obj[a] = obj[b] => a = b

\* While no exit is in progress, *a->prev is the pointer that leads to a, so that
\* resource_free and resource_realloc store into the right cell.
BackLinks ==
  fault = "none" /\ lock = 0 =>
    \A a \in Live : IF prev[a] = HEAD THEN list = a
                    ELSE prev[a] \in Live /\ next[prev[a]] = a

\* A program that frees each pointer once never makes the registry touch a block that is
\* no resource, unless it has exited while it had other threads.  That it may do:
\* resource_collect then frees the blocks those threads go on using, or wait at LOCK
\* with.
NoDanglingPointer == fault = "dangling" => orphaned

\* The objects as ResourceSet sees them.
ObjectState ==
  [o \in Objects |-> IF o > nobj THEN "none" ELSE IF calls[o] = 0 THEN "live" ELSE
                     IF calls[o] = 1 THEN "released" ELSE "released twice"]

Promise == INSTANCE ResourceSet WITH object <- ObjectState

\* handles.c keeps what handles.h promises: every object is released exactly once,
\* none is live when the emulated exit is over, and none comes or goes between an
\* exit and the next run unless a thread has survived an exit.
ImplementsPromise == Promise!Spec
=============================================================================
