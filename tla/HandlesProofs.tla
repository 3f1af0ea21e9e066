----------------------------- MODULE HandlesProofs -----------------------------
(***************************************************************************)
(* The registry of handles.c is correct for any number of threads, blocks   *)
(* and objects.  The inductive invariant says, besides what ListExact and   *)
(* BackLinks say, which object each block belongs to and which threads are  *)
(* between UNLOCK and free(res) in resource_free.                           *)
(***************************************************************************)
EXTENDS Handles, TLAPS

\* Who is where.
Positions ==
  /\ lock = 1 <=> pc[Main] = "collect"
  /\ \A t \in Threads : pc[t] = "collect" => t = Main
  /\ \A t \in Threads : pc[t] \in {"free", "realloc", "free_block"} => arg[t] \in Addrs
  /\ \A t \in Threads : pc[t] = "free_block" => mem[arg[t]] = "used"
  /\ \A t, u \in Threads :
       pc[t] = "free_block" /\ pc[u] = "free_block" /\ arg[t] = arg[u] => t = u
  /\ lock = 1 => proc = "running"
  /\ \A t \in Threads : pc[t] # "idle" => t \in Running
  /\ ~orphaned /\ (lock = 1 \/ proc = "exited") => peers = {}

Head == IF list = NULL THEN Live = {}
        ELSE list \in Live /\ \A c \in Live : obj[c] <= obj[list]

Chain == \A a \in Live : Follows(next[a], a)

Distinct == \A a, b \in Live : obj[a] = obj[b] => a = b

Back == lock = 0 => \A a \in Live : IF prev[a] = HEAD THEN list = a
                                    ELSE prev[a] \in Live /\ next[prev[a]] = a

\* The blocks of the objects whose callback has not run are live, and no others.
Calls ==
  /\ \A a \in Live : obj[a] \in 1 .. nobj /\ calls[obj[a]] = 0
  /\ \A o \in Objects : /\ calls[o] \in {0, 1}
                        /\ o > nobj => calls[o] = 0
                        /\ o <= nobj /\ calls[o] = 0 => \E a \in Live : obj[a] = o

ListInv == Head /\ Chain /\ Distinct /\ Back

Inv == TypeOK /\ (fault = "none" => Positions /\ ListInv /\ Calls)

-----------------------------------------------------------------------------
LEMMA LiveSub == Live \subseteq Addrs
BY DEF Live

LEMMA InitInv == Init => Inv
<1> SUFFICES ASSUME Init  PROVE Inv
  OBVIOUS
<1>1. Live = {}
  BY DEF Init, Live
<1>2. TypeOK
  <2>1. orphaned \in BOOLEAN /\ held \in [Addrs -> Nat] /\ peers \subseteq Threads \ {Main}
    BY DEF Init
  <2> QED
    BY <2>1, HandlesAssumption DEF Init, TypeOK
<1>3. Positions
  BY <1>1, HandlesAssumption DEF Init, Positions, Running
<1>4. ListInv
  BY <1>1 DEF Init, ListInv, Head, Chain, Distinct, Back
<1>5. Calls
  BY <1>1, HandlesAssumption DEF Init, Calls, Objects
<1> QED
  BY <1>2, <1>3, <1>4, <1>5 DEF Inv

\* What resource_alloc does to the list.
LEMMA AllocInv ==
  ASSUME Inv, fault = "none", NEW t \in Threads, NEW a \in Addrs, resource_alloc(t, a)
  PROVE  Inv'
<1> USE DEF resource_alloc, threadVars
<1>1. TypeOK /\ Positions /\ Head /\ Chain /\ Distinct /\ Back /\ Calls
  BY DEF Inv, ListInv
<1>2. Live' = Live \cup {a} /\ a \notin Live
  <2>1. mem[a] = "free" /\ Unlinked' = Unlinked
    BY DEF Free, Unlinked
  <2>2. a \notin Unlinked
    BY <1>1, <2>1 DEF Positions, Unlinked
  <2> QED
    BY <1>1, <2>1, <2>2 DEF Live, TypeOK
<1>3. nobj \in Nat /\ nobj + 1 \in Objects /\ nobj' = nobj + 1
  BY <1>1, HandlesAssumption DEF TypeOK, Objects
<1>4. /\ obj'[a] = nobj + 1 /\ next'[a] = list /\ prev'[a] = HEAD
      /\ \A c \in Live : obj'[c] = obj[c] /\ next'[c] = next[c] /\ obj[c] \in 1 .. nobj
  BY <1>1, <1>2, LiveSub DEF TypeOK, Calls
<1>5. TypeOK'
  BY <1>1, <1>3 DEF TypeOK, Objects, Free
<1>6. Positions'
  BY <1>1, <1>2 DEF Positions, TypeOK, Running
<1>7. Head'
  BY <1>2, <1>3, <1>4, HandlesAssumption DEF Head
<1>8. Chain'
  <2> SUFFICES ASSUME NEW c \in Live'  PROVE Follows(next[c], c)'
    BY DEF Chain
  <2>1. CASE c = a
    BY <1>1, <1>2, <1>3, <1>4, <2>1, HandlesAssumption, LiveSub DEF Head, Follows
  <2>2. CASE c \in Live
    <3>1. Follows(next[c], c)
      BY <1>1, <2>2 DEF Chain
    <3> QED
      BY <1>2, <1>3, <1>4, <2>2, <3>1 DEF Follows
  <2> QED
    BY <1>2, <2>1, <2>2
<1>9. Distinct'
  BY <1>1, <1>2, <1>3, <1>4 DEF Distinct
<1>10. Back'
  <2> SUFFICES ASSUME NEW c \in Live'
      PROVE  IF prev'[c] = HEAD THEN list' = c
             ELSE prev'[c] \in Live' /\ next'[prev'[c]] = c
    BY DEF Back
  <2>1. CASE c = a
    BY <1>4, <2>1
  <2>2. CASE c \in Live /\ c = list
    BY <1>2, <1>4, <2>2, HandlesAssumption, LiveSub
  <2>3. CASE c \in Live /\ c # list
    <3>1. prev'[c] = prev[c]
      BY <1>2, <2>3, LiveSub
    <3>2. prev[c] # HEAD /\ prev[c] \in Live /\ next[prev[c]] = c
      BY <1>1, <2>3 DEF Back
    <3> QED
      BY <1>2, <1>4, <3>1, <3>2
  <2> QED
    BY <1>2, <2>1, <2>2, <2>3
<1>11. Calls'
  <2>1. \A c \in Live' : obj'[c] \in 1 .. nobj' /\ calls'[obj'[c]] = 0
    BY <1>1, <1>2, <1>3, <1>4 DEF Calls
  <2>2. \A o \in Objects : /\ calls'[o] \in {0, 1}
                           /\ o > nobj' => calls'[o] = 0
                           /\ o <= nobj' /\ calls'[o] = 0 => \E c \in Live' : obj'[c] = o
    <3> SUFFICES ASSUME NEW o \in Objects
        PROVE  /\ calls'[o] \in {0, 1}
               /\ o > nobj' => calls'[o] = 0
               /\ o <= nobj' /\ calls'[o] = 0 => \E c \in Live' : obj'[c] = o
      OBVIOUS
    <3>1. o \in Nat
      BY DEF Objects
    <3>2. o <= nobj' => o <= nobj \/ o = nobj + 1
      BY <1>3, <3>1
    <3> QED
      BY <1>1, <1>2, <1>3, <1>4, <3>1, <3>2 DEF Calls
  <2> QED
    BY <2>1, <2>2 DEF Calls
<1> QED
  BY <1>5, <1>6, <1>7, <1>8, <1>9, <1>10, <1>11 DEF Inv, ListInv

\* Two blocks with the same successor are the same block.
LEMMA OnePredecessor ==
  ASSUME TypeOK, Chain, Distinct, Calls, NEW h \in Live, NEW b \in Live, NEW c \in Live,
         next[b] = h, next[c] = h
  PROVE  b = c
<1>1. h # NULL
  BY HandlesAssumption, LiveSub
<1>2. Follows(h, b) /\ Follows(h, c)
  BY DEF Chain
<1>3. obj[h] \in Nat /\ obj[b] \in Nat /\ obj[c] \in Nat
  BY LiveSub DEF TypeOK
<1>4. obj[b] = obj[c]
  BY <1>1, <1>2, <1>3 DEF Follows
<1> QED
  BY <1>4 DEF Distinct

\* What resource_free leaves of the list, as long as it does not fault.
LEMMA FreeInv ==
  ASSUME Inv, fault = "none", NEW t \in Threads, resource_free(t)
  PROVE  Inv'
<1> DEFINE h == arg[t]
<1>1. TypeOK /\ Positions /\ Head /\ Chain /\ Distinct /\ Back /\ Calls
  BY DEF Inv, ListInv
<1>2. /\ h \in Live /\ lock = 0
      /\ calls' = [calls EXCEPT ![obj[h]] = @ + 1]
      /\ Store(next, prev[h], next[h])
      /\ prev' = [b \in Addrs |-> IF b = next[h] THEN prev[h] ELSE prev[b]]
      /\ fault' = IF next[h] = NULL THEN "null" ELSE fault
      /\ Goto(t, "free_block", h)
      /\ UNCHANGED <<mem, lock, obj, nobj, held, proc>>
  BY DEF resource_free
<1>3. h \in Addrs /\ obj[h] \in 1 .. nobj /\ obj[h] \in Objects /\ nobj \in Nat
  BY <1>1, <1>2, LiveSub, HandlesAssumption DEF Calls, TypeOK, Objects
<1> HIDE DEF h
<1>4. TypeOK'
  BY <1>1, <1>2, <1>3 DEF TypeOK, Store, Goto
<1> SUFFICES ASSUME fault' = "none"  PROVE (Positions /\ ListInv /\ Calls)'
  BY <1>4 DEF Inv
<1>5. next[h] # NULL
  BY <1>2
<1>6. next[h] \in Live /\ obj[next[h]] < obj[h] /\ Follows(next[h], h)
  BY <1>1, <1>2, <1>5 DEF Chain, Follows
<1>7. Live' = Live \ {h}
  <2>1. Unlinked' = Unlinked \cup {h}
    <3>1. pc' = [pc EXCEPT ![t] = "free_block"] /\ arg' = [arg EXCEPT ![t] = h]
      BY <1>2 DEF Goto
    <3>2. pc[t] = "free"
      BY DEF resource_free
    <3> QED
      BY <1>1, <1>3, <3>1, <3>2 DEF Unlinked, TypeOK
  <2> QED
    BY <1>2, <2>1 DEF Live
<1>8. \A c \in Live : obj[c] \in Nat /\ obj'[c] = obj[c] /\ next[c] \in Addrs \cup {NULL}
  BY <1>1, <1>2, LiveSub DEF TypeOK
<1>9. Positions'
  <2>1. /\ pc' = [pc EXCEPT ![t] = "free_block"] /\ arg' = [arg EXCEPT ![t] = h]
        /\ pc[t] = "free" /\ UNCHANGED <<peers, orphaned>>
    BY <1>2 DEF Goto, resource_free
  <2>2. \A u \in Threads : pc[u] = "free_block" => arg[u] # h
    BY <1>2 DEF Live, Unlinked
  <2> QED
    BY <1>1, <1>2, <1>3, <1>7, <2>1, <2>2, HandlesAssumption
    DEF Positions, TypeOK, Live, Running
<1>10. ASSUME prev[h] = HEAD  PROVE ListInv'
  <2>1. list = h /\ list' = next[h] /\ next' = next
    BY <1>1, <1>2, <1>10 DEF Back, Store
  <2>2. \A c \in Live' : next[c] # h
    <3> SUFFICES ASSUME NEW c \in Live', next[c] = h  PROVE FALSE
      OBVIOUS
    <3>1. Follows(h, c) /\ c \in Live /\ h # NULL
      BY <1>1, <1>3, <1>7, HandlesAssumption DEF Chain
    <3> QED
      BY <1>1, <1>8, <2>1, <3>1, HandlesAssumption DEF Follows, Head
  <2>3. Head'
    BY <1>1, <1>5, <1>6, <1>7, <1>8, <2>1 DEF Head, Follows, Distinct
  <2>4. Chain'
    BY <1>1, <1>2, <1>7, <1>8, <2>1, <2>2 DEF Chain, Follows
  <2>5. Distinct'
    BY <1>1, <1>7, <1>8 DEF Distinct
  <2>6. Back'
    <3> SUFFICES ASSUME NEW c \in Live'
        PROVE  IF prev'[c] = HEAD THEN list' = c
               ELSE prev'[c] \in Live' /\ next'[prev'[c]] = c
      BY DEF Back
    <3>1. CASE c = next[h]
      BY <1>2, <1>7, <1>10, <2>1, <3>1, LiveSub
    <3>2. CASE c # next[h]
      <4>1. prev'[c] = prev[c] /\ c \in Live /\ c # h
        BY <1>2, <1>7, <3>2, LiveSub
      <4>2. prev[c] # HEAD /\ prev[c] \in Live /\ next[prev[c]] = c
        BY <1>1, <1>2, <2>1, <4>1 DEF Back
      <4>3. prev[c] # h
        BY <3>2, <4>2
      <4> QED
        BY <1>7, <2>1, <4>1, <4>2, <4>3
    <3> QED
      BY <3>1, <3>2
  <2> QED
    BY <2>3, <2>4, <2>5, <2>6 DEF ListInv
<1>11. ASSUME prev[h] # HEAD  PROVE ListInv'
  <2> DEFINE b == prev[h]
  <2>1. /\ b \in Live /\ next[b] = h /\ list' = list
        /\ next' = [next EXCEPT ![b] = next[h]]
    BY <1>1, <1>2, <1>11 DEF Back, Store
  <2>2. Follows(h, b) /\ h # NULL
    BY <1>1, <1>3, <2>1, HandlesAssumption DEF Chain
  <2>3. obj[h] < obj[b] /\ b # h /\ \A c \in Live : ~(obj[h] < obj[c] /\ obj[c] < obj[b])
    BY <1>2, <1>8, <2>1, <2>2 DEF Follows
  <2>4. next'[b] = next[h] /\ \A c \in Live : c # b => next'[c] = next[c]
    BY <1>1, <2>1, LiveSub DEF TypeOK
  <2> HIDE DEF b
  <2>5. Head'
    <3>1. list # NULL /\ list \in Live /\ \A c \in Live : obj[c] <= obj[list]
      BY <1>1, <1>2 DEF Head
    <3>2. list # h
      BY <1>2, <1>8, <2>1, <2>3, <3>1
    <3> QED
      BY <1>7, <1>8, <2>1, <3>1, <3>2 DEF Head
  <2>6. Chain'
    <3> SUFFICES ASSUME NEW c \in Live'  PROVE Follows(next[c], c)'
      BY DEF Chain
    <3>1. c \in Live /\ c # h
      BY <1>7
    <3>2. CASE c = b
      <4>1. \A d \in Live' : ~(obj[next[h]] < obj[d] /\ obj[d] < obj[b])
        <5> SUFFICES ASSUME NEW d \in Live', obj[next[h]] < obj[d], obj[d] < obj[b]
                     PROVE  FALSE
          OBVIOUS
        <5>1. d \in Live /\ d # h /\ obj[d] \in Nat /\ obj[h] \in Nat
          BY <1>2, <1>7, <1>8
        <5>2. ~(obj[next[h]] < obj[d] /\ obj[d] < obj[h])
          BY <1>5, <1>6, <5>1 DEF Follows
        <5>3. obj[d] # obj[h]
          BY <1>1, <1>2, <5>1 DEF Distinct
        <5> QED
          BY <2>3, <5>1, <5>2, <5>3
      <4>2. next[h] \in Live' /\ obj[next[h]] < obj[b]
        BY <1>2, <1>6, <1>7, <1>8, <2>1, <2>3
      <4> QED
        BY <1>5, <1>7, <1>8, <2>1, <2>4, <3>2, <4>1, <4>2 DEF Follows
    <3>3. CASE c # b
      <4>1. next'[c] = next[c] /\ next[c] # h
        BY <1>1, <1>2, <2>1, <2>4, <3>1, <3>3, OnePredecessor
      <4>2. Follows(next[c], c)
        BY <1>1, <3>1 DEF Chain
      <4> QED
        BY <1>7, <1>8, <3>1, <4>1, <4>2 DEF Follows
    <3> QED
      BY <3>2, <3>3
  <2>7. Distinct'
    BY <1>1, <1>7, <1>8 DEF Distinct
  <2>8. Back'
    <3> SUFFICES ASSUME NEW c \in Live'
        PROVE  IF prev'[c] = HEAD THEN list' = c
               ELSE prev'[c] \in Live' /\ next'[prev'[c]] = c
      BY DEF Back
    <3>1. CASE c = next[h]
      <4>1. prev'[c] = b
        BY <1>2, <1>7, <3>1, LiveSub DEF b
      <4>2. b # HEAD
        BY <2>1, HandlesAssumption, LiveSub
      <4> QED
        BY <1>7, <2>1, <2>3, <2>4, <3>1, <4>1, <4>2
    <3>2. CASE c # next[h]
      <4>1. prev'[c] = prev[c] /\ c \in Live /\ c # h
        BY <1>2, <1>7, <3>2, LiveSub
      <4>2. CASE prev[c] = HEAD
        BY <1>1, <1>2, <2>1, <4>1, <4>2 DEF Back
      <4>3. CASE prev[c] # HEAD
        <5>1. prev[c] \in Live /\ next[prev[c]] = c
          BY <1>1, <1>2, <4>1, <4>3 DEF Back
        <5>2. prev[c] # h /\ prev[c] # b
          BY <2>1, <3>2, <4>1, <5>1
        <5> QED
          BY <1>7, <2>4, <4>1, <4>3, <5>1, <5>2
      <4> QED
        BY <4>2, <4>3
    <3> QED
      BY <3>1, <3>2
  <2> QED
    BY <2>5, <2>6, <2>7, <2>8 DEF ListInv
<1>12. Calls'
  <2>1. calls[obj[h]] = 0 /\ calls'[obj[h]] = 1
        /\ \A o \in Objects : o # obj[h] => calls'[o] = calls[o]
    BY <1>1, <1>2, <1>3 DEF Calls, TypeOK
  <2>2. \A c \in Live' : obj'[c] \in 1 .. nobj' /\ calls'[obj'[c]] = 0
    <3> SUFFICES ASSUME NEW c \in Live'
        PROVE  obj'[c] \in 1 .. nobj' /\ calls'[obj'[c]] = 0
      OBVIOUS
    <3>1. c \in Live /\ c # h /\ obj[c] # obj[h]
      BY <1>1, <1>2, <1>7 DEF Distinct
    <3>2. obj[c] \in Objects
      BY <1>1, <1>3, <3>1, HandlesAssumption DEF Calls, Objects, TypeOK
    <3> QED
      BY <1>1, <1>2, <2>1, <3>1, <3>2 DEF Calls
  <2>3. ASSUME NEW o \in Objects
        PROVE  /\ calls'[o] \in {0, 1}
               /\ o > nobj' => calls'[o] = 0
               /\ o <= nobj' /\ calls'[o] = 0 => \E c \in Live' : obj'[c] = o
    <3>1. CASE o = obj[h]
      BY <1>2, <1>3, <2>1, <3>1
    <3>2. CASE o # obj[h]
      <4>1. /\ calls'[o] = calls[o] /\ calls[o] \in {0, 1}
            /\ o > nobj => calls[o] = 0
            /\ o <= nobj /\ calls[o] = 0 => \E c \in Live : obj[c] = o
        BY <1>1, <2>1, <3>2 DEF Calls
      <4> QED
        BY <1>2, <1>7, <1>8, <3>2, <4>1
    <3> QED
      BY <3>1, <3>2
  <2> QED
    BY <2>2, <2>3 DEF Calls
<1> QED
  BY <1>9, <1>10, <1>11, <1>12

\* resource_realloc renames one block and nothing else.
LEMMA ReallocInv ==
  ASSUME Inv, fault = "none", NEW t \in Threads, NEW a \in Addrs, resource_realloc(t, a)
  PROVE  Inv'
<1> DEFINE h == arg[t]
<1>1. TypeOK /\ Positions /\ Head /\ Chain /\ Distinct /\ Back /\ Calls
  BY DEF Inv, ListInv
<1>2. /\ h \in Live /\ lock = 0 /\ a \in Free \cup {h} /\ pc[t] = "realloc"
      /\ mem' = [mem EXCEPT ![h] = "free", ![a] = "used"]
      /\ obj' = [obj EXCEPT ![a] = obj[h]]
      /\ Store([next EXCEPT ![a] = next[h]], prev[h], a)
      /\ prev' = [b \in Addrs |-> IF b = a THEN prev[h] ELSE
                                  IF b = next[h] THEN a ELSE prev[b]]
      /\ fault' = IF next[h] = NULL THEN "null" ELSE fault
      /\ held' = [held EXCEPT ![a] = @ + 1]
      /\ Goto(t, "idle", NULL)
      /\ UNCHANGED <<lock, calls, nobj, proc>>
  BY DEF resource_realloc
<1>3. h \in Addrs /\ mem[h] = "used" /\ obj[h] \in 1 .. nobj /\ nobj \in Nat
  BY <1>1, <1>2, LiveSub DEF Calls, TypeOK, Live
<1> HIDE DEF h
<1>4. TypeOK'
  BY <1>1, <1>2, <1>3 DEF TypeOK, Store, Goto
<1> SUFFICES ASSUME fault' = "none"  PROVE (Positions /\ ListInv /\ Calls)'
  BY <1>4 DEF Inv
<1>5. /\ pc' = [pc EXCEPT ![t] = "idle"] /\ arg' = [arg EXCEPT ![t] = NULL]
      /\ UNCHANGED <<peers, orphaned>>
      /\ \A u \in Threads : pc[u] = "free_block" => arg[u] # h /\ arg[u] # a
  BY <1>1, <1>2, <1>3 DEF Goto, Live, Unlinked, Free, Positions
<1>6. Live' = (Live \ {h}) \cup {a} /\ (a # h => a \notin Live)
  <2>1. Unlinked' = Unlinked
    BY <1>1, <1>2, <1>5 DEF Unlinked, TypeOK
  <2>2. a \notin Unlinked
    BY <1>5 DEF Unlinked
  <2>3. \A c \in Addrs : mem'[c] = IF c = a THEN "used" ELSE IF c = h THEN "free" ELSE mem[c]
    BY <1>1, <1>2, <1>3 DEF TypeOK
  <2> QED
    BY <1>2, <1>3, <2>1, <2>2, <2>3 DEF Live, Free
<1> DEFINE n == next[h]
<1>7. n \in Live /\ n # h /\ n # a /\ n # NULL /\ obj[n] < obj[h]
  <2>1. n # NULL
    BY <1>2
  <2>2. n \in Live /\ obj[n] < obj[h]
    BY <1>1, <1>2, <2>1 DEF Chain, Follows
  <2> QED
    BY <1>3, <1>6, <2>1, <2>2
<1>8. /\ obj'[a] = obj[h]
      /\ \A c \in Live \ {h} : c # a /\ c \in Live' /\ obj'[c] = obj[c]
      /\ \A c \in Live : obj[c] \in Nat
  BY <1>1, <1>2, <1>6, LiveSub DEF TypeOK
<1>9. /\ list' = IF list = h THEN a ELSE list
      /\ next'[a] = n
      /\ \A c \in Live \ {h} : next'[c] = IF next[c] = h THEN a ELSE next[c]
      /\ prev[h] # HEAD => prev[h] \in Live \ {h} /\ next[prev[h]] = h
      /\ prev[h] = HEAD => list = h
  <2>1. CASE prev[h] = HEAD
    <3>1. list = h /\ list' = a /\ next' = [next EXCEPT ![a] = n]
      BY <1>1, <1>2, <2>1 DEF Back, Store
    <3>2. \A c \in Live \ {h} : next[c] # h
      <4> SUFFICES ASSUME NEW c \in Live \ {h}, next[c] = h  PROVE FALSE
        OBVIOUS
      <4>1. Follows(h, c) /\ h # NULL
        BY <1>1, <1>3, HandlesAssumption DEF Chain
      <4> QED
        BY <1>1, <1>8, <3>1, <4>1 DEF Follows, Head
    <3> QED
      BY <1>1, <1>8, <2>1, <3>1, <3>2, LiveSub DEF TypeOK
  <2>2. CASE prev[h] # HEAD
    <3> DEFINE b == prev[h]
    <3>1. b \in Live /\ next[b] = h /\ list' = list
          /\ next' = [next EXCEPT ![a] = n, ![b] = a]
      BY <1>1, <1>2, <2>2 DEF Back, Store
    <3>2. obj[h] < obj[b] /\ b # h
      <4>1. Follows(h, b) /\ h # NULL
        BY <1>1, <1>3, <3>1, HandlesAssumption DEF Chain
      <4> QED
        BY <1>2, <1>8, <3>1, <4>1 DEF Follows
    <3>3. list # h
      BY <1>1, <1>2, <1>8, <3>1, <3>2 DEF Head
    <3>4. b # a
      BY <1>8, <3>1, <3>2
    <3>5. \A c \in Live \ {h} : c # b => next[c] # h
      BY <1>1, <1>2, <3>1, OnePredecessor
    <3>6. \A c \in Addrs : next'[c] = IF c = b THEN a ELSE IF c = a THEN n ELSE next[c]
      BY <1>1, <3>1, LiveSub DEF TypeOK
    <3> QED
      BY <1>8, <2>2, <3>1, <3>2, <3>3, <3>4, <3>5, <3>6, LiveSub
  <2> QED
    BY <2>1, <2>2
<1>10. /\ prev'[a] = prev[h] /\ prev'[n] = a
       /\ \A c \in Live \ {h, n} : prev'[c] = prev[c]
  BY <1>2, <1>7, <1>8, LiveSub
<1> HIDE DEF n
<1>11. Positions'
  BY <1>1, <1>2, <1>3, <1>5, <1>6, HandlesAssumption DEF Positions, TypeOK, Running
<1>12. Head'
  BY <1>1, <1>2, <1>3, <1>6, <1>8, <1>9, HandlesAssumption DEF Head
<1>13. Chain'
  <2> SUFFICES ASSUME NEW c \in Live'  PROVE Follows(next[c], c)'
    BY DEF Chain
  <2>1. \A d \in Live' : obj'[d] = IF d = a THEN obj[h] ELSE obj[d]
    BY <1>6, <1>8
  <2>2. CASE c = a
    <3>1. Follows(n, h)
      BY <1>1, <1>2 DEF Chain, n
    <3> QED
      BY <1>2, <1>6, <1>7, <1>8, <1>9, <2>1, <2>2, <3>1 DEF Follows
  <2>3. CASE c # a
    <3>1. c \in Live \ {h} /\ Follows(next[c], c)
      BY <1>1, <1>6, <2>3 DEF Chain
    <3>2. CASE next[c] = h
      <4>1. h # NULL /\ a # NULL /\ next'[c] = a
        BY <1>3, <1>9, <3>1, <3>2, HandlesAssumption
      <4> QED
        BY <1>2, <1>6, <1>8, <2>1, <2>3, <3>1, <3>2, <4>1 DEF Follows
    <3>3. CASE next[c] # h
      BY <1>2, <1>6, <1>8, <1>9, <2>1, <2>3, <3>1, <3>3 DEF Follows
    <3> QED
      BY <3>2, <3>3
  <2> QED
    BY <2>2, <2>3
<1>14. Distinct'
  BY <1>1, <1>2, <1>6, <1>8 DEF Distinct
<1>15. Back'
  <2> SUFFICES ASSUME NEW c \in Live'
      PROVE  IF prev'[c] = HEAD THEN list' = c
             ELSE prev'[c] \in Live' /\ next'[prev'[c]] = c
    BY DEF Back
  <2>1. CASE c = a
    BY <1>8, <1>9, <1>10, <2>1
  <2>2. CASE c = n
    BY <1>6, <1>9, <1>10, <2>2, HandlesAssumption
  <2>3. CASE c # a /\ c # n
    <3>1. c \in Live \ {h, n} /\ prev'[c] = prev[c]
      BY <1>6, <1>10, <2>3
    <3>2. IF prev[c] = HEAD THEN list = c ELSE prev[c] \in Live /\ next[prev[c]] = c
      BY <1>1, <1>2, <3>1 DEF Back
    <3>3. prev[c] # HEAD => prev[c] # h
      BY <3>1, <3>2 DEF n
    <3> QED
      BY <1>8, <1>9, <3>1, <3>2, <3>3
  <2> QED
    BY <2>1, <2>2, <2>3
<1>16. Calls'
  <2>1. \A c \in Live' : obj'[c] \in 1 .. nobj' /\ calls'[obj'[c]] = 0
    BY <1>1, <1>2, <1>6, <1>8 DEF Calls
  <2>2. \A o \in Objects : (\E c \in Live : obj[c] = o) => (\E c \in Live' : obj'[c] = o)
    <3> SUFFICES ASSUME NEW o \in Objects, NEW c \in Live, obj[c] = o
                 PROVE  \E d \in Live' : obj'[d] = o
      OBVIOUS
    <3>1. CASE c = h
      BY <1>6, <1>8, <3>1
    <3>2. CASE c # h
      BY <1>8, <3>2
    <3> QED
      BY <3>1, <3>2
  <2> QED
    BY <1>1, <1>2, <2>1, <2>2 DEF Calls
<1> QED
  BY <1>11, <1>12, <1>13, <1>14, <1>15, <1>16 DEF ListInv

\* The steps that leave the list alone.
LEMMA FreeBlockInv ==
  ASSUME Inv, fault = "none", NEW t \in Threads, FreeBlock(t)
  PROVE  Inv'
<1> USE DEF FreeBlock, Goto, objVars, threadVars
<1>1. TypeOK /\ Positions /\ Head /\ Chain /\ Distinct /\ Back /\ Calls
  BY DEF Inv, ListInv
<1>2. arg[t] \in Addrs /\ \A u \in Threads : u # t /\ pc[u] = "free_block" => arg[u] # arg[t]
  BY <1>1 DEF Positions
<1>3. Live' = Live
  <2>1. Unlinked' = Unlinked \ {arg[t]} /\ arg[t] \in Unlinked
    BY <1>1, <1>2 DEF Unlinked, TypeOK
  <2> QED
    BY <1>1, <1>2, <2>1 DEF Live, TypeOK
<1>4. TypeOK'
  BY <1>1, <1>2 DEF TypeOK
<1>5. Positions'
  BY <1>1, <1>2, <1>3, HandlesAssumption DEF Positions, TypeOK, Running
<1>6. ListInv' /\ Calls'
  BY <1>1, <1>3 DEF ListInv, Head, Chain, Follows, Distinct, Back, Calls
<1> QED
  BY <1>4, <1>5, <1>6 DEF Inv

LEMMA BeginInv ==
  ASSUME Inv, fault = "none",
         BeginCollect \/ \E t \in Threads, h \in Addrs, label \in {"free", "realloc"} :
                           BeginCall(t, h, label)
  PROVE  Inv'
<1> USE DEF BeginCollect, BeginCall, Goto, heapVars, objVars, threadVars
<1>1. TypeOK /\ Positions /\ Head /\ Chain /\ Distinct /\ Back /\ Calls
  BY DEF Inv, ListInv
<1>2. TypeOK'
  <2>1. CASE BeginCollect
    <3>1. orphaned' \in BOOLEAN
      BY <2>1
    <3> QED
      BY <1>1, <2>1, <3>1, HandlesAssumption DEF TypeOK
  <2>2. ASSUME NEW t \in Threads, NEW h \in Addrs, NEW label \in {"free", "realloc"},
               BeginCall(t, h, label)
        PROVE  TypeOK'
    <3>1. held' \in [Addrs -> Nat]
      BY <1>1, <2>2 DEF TypeOK
    <3> QED
      BY <1>1, <2>2, <3>1 DEF TypeOK
  <2> QED
    BY <2>1, <2>2
<1>3. Live' = Live
  <2>1. Unlinked' = Unlinked
    BY <1>1, HandlesAssumption DEF Unlinked, TypeOK
  <2> QED
    BY <2>1 DEF Live
<1>4. Positions'
  <2>1. CASE BeginCollect
    <3>1. ~orphaned' => peers = {}
      BY <2>1
    <3>2. \A t \in Threads : pc'[t] = IF t = Main THEN "collect" ELSE pc[t]
      BY <1>1, <2>1 DEF TypeOK
    <3>3. Running' = Running /\ Main \in Running
      BY <2>1 DEF Running
    <3> QED
      BY <1>1, <1>3, <2>1, <3>1, <3>2, <3>3, HandlesAssumption DEF Positions, TypeOK
  <2>2. ASSUME NEW t \in Threads, NEW h \in Addrs, NEW label \in {"free", "realloc"},
               BeginCall(t, h, label)
        PROVE  Positions'
    BY <1>1, <1>3, <2>2, HandlesAssumption DEF Positions, TypeOK, Running
  <2> QED
    BY <2>1, <2>2
<1>5. ListInv' /\ Calls'
  BY <1>1, <1>3 DEF ListInv, Head, Chain, Follows, Distinct, Back, Calls
<1> QED
  BY <1>2, <1>4, <1>5 DEF Inv

\* One iteration of resource_collect.
LEMMA CollectInv ==
  ASSUME Inv, fault = "none", resource_collect
  PROVE  Inv'
<1> USE DEF resource_collect, threadVars
<1>1. TypeOK /\ Positions /\ Head /\ Chain /\ Distinct /\ Back /\ Calls
  BY DEF Inv, ListInv
<1> DEFINE h == list
<1>2. h \in Live /\ h \in Addrs /\ lock = 1 /\ \A c \in Live : obj[c] <= obj[h]
  BY <1>1, LiveSub DEF Head, Positions
<1>3. \A c \in Live : obj[c] \in Nat /\ obj[c] \in Objects /\ obj[c] <= nobj
  BY <1>1, LiveSub, HandlesAssumption DEF TypeOK, Calls, Objects
<1>4. Live' = Live \ {h}
  BY <1>1, <1>2 DEF Live, Unlinked, TypeOK
<1>5. TypeOK'
  BY <1>1, <1>2, <1>3 DEF TypeOK
<1>6. Positions'
  <2>1. \A u \in Threads : pc[u] = "free_block" => arg[u] # h
    BY <1>2 DEF Live, Unlinked
  <2> QED
    BY <1>1, <1>2, <1>4, <2>1 DEF Positions, TypeOK, Running
<1>7. Follows(next[h], h)
  BY <1>1, <1>2 DEF Chain
<1>8. \A c \in Live' : c \in Live /\ obj[c] < obj[h]
  BY <1>1, <1>2, <1>3, <1>4 DEF Distinct
<1>9. Head'
  <2>1. CASE next[h] = NULL
    BY <1>3, <1>4, <1>7, <1>8, <2>1, <1>2 DEF Head, Follows
  <2>2. CASE next[h] # NULL
    <3>1. next[h] \in Live' /\ \A c \in Live' : obj[c] <= obj[next[h]]
      BY <1>2, <1>3, <1>4, <1>7, <1>8, <2>2 DEF Follows
    <3> QED
      BY <2>2, <3>1 DEF Head
  <2> QED
    BY <2>1, <2>2
<1>10. Chain'
  <2> SUFFICES ASSUME NEW c \in Live'  PROVE Follows(next[c], c)'
    BY DEF Chain
  <2>1. c \in Live /\ obj[c] < obj[h] /\ Follows(next[c], c)
    BY <1>1, <1>8 DEF Chain
  <2>2. next[c] # NULL => next[c] # h
    BY <1>2, <1>3, <2>1 DEF Follows
  <2> QED
    BY <1>4, <2>1, <2>2 DEF Follows
<1>11. Distinct' /\ Back'
  BY <1>1, <1>2, <1>4 DEF Distinct, Back
<1>12. Calls'
  <2>1. /\ calls[obj[h]] = 0 /\ calls'[obj[h]] = 1
        /\ \A o \in Objects : o # obj[h] => calls'[o] = calls[o]
    BY <1>1, <1>2, <1>3 DEF Calls, TypeOK
  <2>2. \A c \in Live' : obj'[c] \in 1 .. nobj' /\ calls'[obj'[c]] = 0
    <3> SUFFICES ASSUME NEW c \in Live'
        PROVE  obj'[c] \in 1 .. nobj' /\ calls'[obj'[c]] = 0
      OBVIOUS
    <3>1. c \in Live /\ obj[c] # obj[h] /\ obj[c] \in Objects
      BY <1>2, <1>3, <1>8
    <3> QED
      BY <1>1, <2>1, <3>1 DEF Calls
  <2>3. ASSUME NEW o \in Objects
        PROVE  /\ calls'[o] \in {0, 1}
               /\ o > nobj' => calls'[o] = 0
               /\ o <= nobj' /\ calls'[o] = 0 => \E c \in Live' : obj'[c] = o
    <3>1. CASE o = obj[h]
      BY <1>1, <1>2, <1>3, <2>1, <3>1 DEF TypeOK
    <3>2. CASE o # obj[h]
      <4>1. /\ calls'[o] = calls[o] /\ calls[o] \in {0, 1}
            /\ o > nobj => calls[o] = 0
            /\ o <= nobj /\ calls[o] = 0 => \E c \in Live : obj[c] = o
        BY <1>1, <2>1, <3>2 DEF Calls
      <4> QED
        BY <1>4, <3>2, <4>1
    <3> QED
      BY <3>1, <3>2
  <2> QED
    BY <2>2, <2>3 DEF Calls
<1> QED
  BY <1>5, <1>6, <1>9, <1>10, <1>11, <1>12 DEF Inv, ListInv

LEMMA EndCollectInv ==
  ASSUME Inv, fault = "none", EndCollect
  PROVE  Inv'
<1> USE DEF EndCollect, Goto, heapVars, objVars, threadVars
<1>1. TypeOK /\ Positions /\ Head /\ Chain /\ Distinct /\ Back /\ Calls
  BY DEF Inv, ListInv
<1>2. Live = {} /\ Live' = {}
  <2>1. Unlinked' = Unlinked
    BY <1>1, HandlesAssumption DEF Unlinked, TypeOK
  <2>2. Live = {}
    BY <1>1 DEF Head
  <2> QED
    BY <2>1, <2>2 DEF Live
<1>3. TypeOK'
  BY <1>1, HandlesAssumption DEF TypeOK
<1>4. Positions'
  BY <1>1, <1>2, HandlesAssumption DEF Positions, TypeOK, Running
<1>5. ListInv' /\ Calls'
  BY <1>1, <1>2 DEF ListInv, Head, Chain, Distinct, Back, Calls
<1> QED
  BY <1>3, <1>4, <1>5 DEF Inv

\* Threads come and go, the program starts again, or it dies.
LEMMA OtherInv ==
  ASSUME Inv, fault = "none",
         \/ Restart
         \/ \E t \in Threads : NoMemory(t) \/ Dangling(t) \/ pthread_exit(t)
         \/ \E t, u \in Threads : pthread_create(t, u)
  PROVE  Inv'
<1> USE DEF Restart, NoMemory, Dangling, pthread_create, pthread_exit, heapVars, objVars,
            threadVars
<1>1. TypeOK /\ Positions /\ ListInv /\ Calls
  BY DEF Inv
<1>2. TypeOK'
  BY <1>1 DEF TypeOK
<1>3. Live' = Live
  BY DEF Live, Unlinked
<1>4. CASE Restart \/ \E t \in Threads : pthread_exit(t) \/ \E u \in Threads : pthread_create(u, t)
  <2>1. UNCHANGED <<list, next, prev, lock, obj, calls, nobj, pc, arg, mem, orphaned>>
    BY <1>4
  <2>2. Positions'
    <3>1. Running' = peers' \cup {t \in {Main} : proc' = "running"}
      BY DEF Running
    <3>2. \A t \in Threads : pc[t] # "idle" => t \in Running'
      BY <1>1, <1>4, <3>1, HandlesAssumption DEF Positions, Running
    <3>3. ~orphaned /\ (lock = 1 \/ proc' = "exited") => peers' = {}
      BY <1>1, <1>4, HandlesAssumption DEF Positions, Running
    <3>4. lock = 1 => proc' = "running"
      BY <1>1, <1>4 DEF Positions
    <3> QED
      BY <1>1, <2>1, <3>2, <3>3, <3>4 DEF Positions
  <2>3. ListInv' /\ Calls'
    BY <1>1, <1>3, <2>1 DEF ListInv, Head, Chain, Follows, Distinct, Back, Calls
  <2> QED
    BY <1>2, <2>2, <2>3 DEF Inv
<1>5. CASE \E t \in Threads : NoMemory(t) \/ Dangling(t)
  BY <1>2, <1>5 DEF Inv
<1> QED
  BY <1>4, <1>5

LEMMA StutterInv ==
  ASSUME Inv, UNCHANGED vars
  PROVE  Inv'
BY DEF vars, heapVars, objVars, threadVars, Running, Inv, TypeOK, Positions, ListInv, Head, Chain, Follows, Distinct,
       Back, Calls, Live, Unlinked

LEMMA NextInv ==
  ASSUME Inv, [Next]_vars
  PROVE  Inv'
BY StutterInv, AllocInv, ReallocInv, FreeInv, FreeBlockInv, BeginInv, CollectInv,
   EndCollectInv, OtherInv DEF Next, Step

LEMMA InvAlways == Spec => []Inv
BY InitInv, NextInv, PTL DEF Spec

-----------------------------------------------------------------------------
\* The registry's variables keep their types.
THEOREM TypeCorrect == Spec => []TypeOK
<1>1. Inv => TypeOK
  BY DEF Inv
<1> QED
  BY <1>1, InvAlways, PTL

\* handles.c: the list holds exactly the live resources, youngest first.
THEOREM ListIsExact == Spec => []ListExact
<1>1. Inv => ListExact
  BY DEF Inv, ListInv, ListExact, Head, Chain, Distinct
<1> QED
  BY <1>1, InvAlways, PTL

\* handles.c: prev always is the address of the pointer that leads to the block.
THEOREM BackLinksCorrect == Spec => []BackLinks
<1>1. Inv => BackLinks
  BY DEF Inv, ListInv, BackLinks, Back
<1> QED
  BY <1>1, InvAlways, PTL

-----------------------------------------------------------------------------
(* What the objects look like from outside. *)

LEMMA ObjectStates ==
  ASSUME TypeOK, Calls, NEW o \in Objects
  PROVE  ObjectState[o] = IF o > nobj THEN "none" ELSE IF calls[o] = 0 THEN "live" ELSE "released"
<1>1. o \in Nat /\ nobj \in Nat /\ calls[o] \in {0, 1}
  BY HandlesAssumption DEF TypeOK, Calls, Objects
<1>2. CASE o > nobj
  BY <1>1, <1>2 DEF ObjectState
<1>3. CASE ~(o > nobj)
  BY <1>1, <1>3 DEF ObjectState
<1> QED
  BY <1>2, <1>3

LEMMA ObjectStatesNext ==
  ASSUME TypeOK', Calls', NEW o \in Objects
  PROVE  ObjectState'[o] = IF o > nobj' THEN "none" ELSE IF calls'[o] = 0 THEN "live"
                                                      ELSE "released"
<1>1. calls'[o] \in {0, 1}
  BY DEF Calls
<1> QED
  BY <1>1 DEF ObjectState

\* Whoever acts, the promise lets objects come and go.
LEMMA AliveRunning ==
  ASSUME TypeOK, Positions, NEW t \in Running
  PROVE  Promise!Alive
BY DEF TypeOK, Positions, Running, Promise!Alive

LEMMA CreateStep ==
  ASSUME Inv, fault = "none", NEW t \in Threads, NEW a \in Addrs, resource_alloc(t, a)
  PROVE  Promise!Next
<1> DEFINE o == nobj + 1
<1>0. Promise!Alive /\ UNCHANGED <<proc, orphaned>>
  <2>1. t \in Running /\ UNCHANGED <<proc, orphaned>>
    BY DEF resource_alloc, threadVars
  <2> QED
    BY <2>1, AliveRunning DEF Inv
<1>1. TypeOK /\ Calls /\ TypeOK' /\ Calls'
  <2>1. Inv' /\ fault' = "none"
    BY AllocInv DEF resource_alloc
  <2> QED
    BY <2>1 DEF Inv
<1>2. o \in Objects /\ nobj \in Nat /\ nobj' = o /\ calls' = calls /\ calls[o] = 0
  <2>1. o \in Objects /\ nobj \in Nat /\ nobj' = o /\ calls' = calls /\ o > nobj
    BY <1>1, HandlesAssumption DEF resource_alloc, TypeOK, Objects
  <2> QED
    BY <1>1, <2>1 DEF Calls
<1>3. ObjectState[o] = "none"
  <2>1. o > nobj
    BY <1>2
  <2> HIDE DEF o
  <2> QED
    BY <1>1, <1>2, <2>1, ObjectStates
<1>4. ASSUME NEW q \in Objects
      PROVE  ObjectState'[q] = IF q = o THEN "live" ELSE ObjectState[q]
  <2>1. /\ ObjectState[q] = IF q > nobj THEN "none" ELSE IF calls[q] = 0 THEN "live"
                                                       ELSE "released"
        /\ ObjectState'[q] = IF q > nobj' THEN "none" ELSE IF calls'[q] = 0 THEN "live"
                                                         ELSE "released"
    BY <1>1, ObjectStates, ObjectStatesNext
  <2>2. q \in Nat
    BY DEF Objects
  <2> QED
    BY <1>2, <2>1, <2>2
<1> HIDE DEF o
<1>5. ObjectState' = [ObjectState EXCEPT ![o] = "live"]
  <2>1. ObjectState = [q \in Objects |-> ObjectState[q]]
        /\ ObjectState' = [q \in Objects |-> ObjectState'[q]]
    BY DEF ObjectState
  <2> QED
    BY <1>4, <2>1
<1> QED
  BY <1>0, <1>2, <1>3, <1>5 DEF Promise!Next, Promise!Create

\* Counting one call of the callback of a live object releases it.
LEMMA ReleaseStep ==
  ASSUME TypeOK, Calls, NEW o \in Objects, o <= nobj, calls[o] = 0,
         calls' = [calls EXCEPT ![o] = @ + 1], nobj' = nobj, Promise!Alive,
         UNCHANGED <<proc, orphaned>>
  PROVE  Promise!Next
<1>1. o \in Nat /\ nobj \in Nat
  BY HandlesAssumption DEF TypeOK, Objects
<1>2. ObjectState[o] = "live"
  BY <1>1, ObjectStates
<1>3. calls'[o] = 1 /\ \A q \in Objects : q # o => calls'[q] = calls[q]
  BY DEF TypeOK
<1>4. ASSUME NEW q \in Objects
      PROVE  ObjectState'[q] = IF q = o THEN "released" ELSE ObjectState[q]
  <2>1. CASE q = o
    BY <1>1, <1>3, <2>1 DEF ObjectState
  <2>2. CASE q # o
    BY <1>3, <2>2 DEF ObjectState
  <2> QED
    BY <2>1, <2>2
<1>5. ObjectState' = [ObjectState EXCEPT ![o] = "released"]
  <2>1. ObjectState = [q \in Objects |-> ObjectState[q]]
        /\ ObjectState' = [q \in Objects |-> ObjectState'[q]]
    BY DEF ObjectState
  <2> QED
    BY <1>4, <2>1
<1> QED
  BY <1>2, <1>5 DEF Promise!Next, Promise!Release

LEMMA PromiseNext ==
  ASSUME Inv, [Next]_vars
  PROVE  [Promise!Next]_<<ObjectState, proc, orphaned>>
<1>1. CASE UNCHANGED vars
  BY <1>1 DEF vars, objVars, threadVars, ObjectState
<1> SUFFICES ASSUME Next  PROVE [Promise!Next]_<<ObjectState, proc, orphaned>>
  BY <1>1
<1>2. TypeOK /\ Positions /\ Head /\ Calls /\ fault = "none"
  BY DEF Inv, ListInv, Next
<1>3. \A c \in Live : obj[c] \in Objects /\ obj[c] <= nobj /\ calls[obj[c]] = 0
  BY <1>2, HandlesAssumption DEF TypeOK, Calls, Objects
<1>4. ASSUME NEW t \in Threads, NEW a \in Addrs, resource_alloc(t, a)
      PROVE  Promise!Next
  BY <1>2, <1>4, CreateStep
<1>5. ASSUME NEW t \in Threads, resource_free(t)
      PROVE  Promise!Next
  <2>1. arg[t] \in Live /\ t \in Running /\ UNCHANGED <<proc, orphaned>>
    BY <1>2, <1>5 DEF resource_free, Positions, Goto
  <2>2. Promise!Alive
    BY <1>2, <2>1, AliveRunning
  <2> QED
    BY <1>2, <1>3, <1>5, <2>1, <2>2, ReleaseStep DEF resource_free
<1>6. ASSUME resource_collect  PROVE Promise!Next
  <2>1. list \in Live /\ Promise!Alive /\ UNCHANGED <<proc, orphaned>>
    BY <1>2, <1>6 DEF resource_collect, Positions, Head, threadVars, Promise!Alive
  <2> QED
    BY <1>2, <1>3, <1>6, <2>1, ReleaseStep DEF resource_collect
<1>7. ASSUME EndCollect  PROVE Promise!Next
  <2>1. /\ Live = {} /\ proc = "running" /\ proc' = "exited"
        /\ UNCHANGED <<ObjectState, orphaned>>
    BY <1>2, <1>7 DEF EndCollect, Goto, Head, Positions, ObjectState, objVars
  <2>2. \A o \in Objects : ObjectState[o] # "live"
    <3> SUFFICES ASSUME NEW o \in Objects  PROVE ObjectState[o] # "live"
      OBVIOUS
    <3>1. o > nobj \/ calls[o] # 0
      BY <1>2, <2>1, HandlesAssumption DEF Calls, TypeOK, Objects
    <3> QED
      BY <1>2, <3>1, ObjectStates
  <2> QED
    BY <2>1, <2>2 DEF Promise!Next, Promise!Exit
<1>8. ASSUME Restart  PROVE Promise!Next
  <2>1. proc = "exited" /\ proc' = "running" /\ UNCHANGED <<ObjectState, orphaned>>
    BY <1>8 DEF Restart, ObjectState, objVars
  <2> QED
    BY <2>1 DEF Promise!Next, Promise!Start
<1>9. ASSUME BeginCollect  PROVE [Promise!Next]_<<ObjectState, proc, orphaned>>
  <2>1. UNCHANGED <<ObjectState, proc>>
    BY <1>9 DEF BeginCollect, ObjectState, objVars
  <2>2. orphaned' \in {orphaned, TRUE}
    BY <1>2, <1>9 DEF BeginCollect, TypeOK
  <2> QED
    BY <2>1, <2>2 DEF Promise!Next, Promise!Orphan
<1>10. ASSUME UNCHANGED <<calls, nobj, proc, orphaned>>
       PROVE  UNCHANGED <<ObjectState, proc, orphaned>>
  BY <1>10 DEF ObjectState
<1>11. ASSUME \E t \in Threads :
                \/ \E a \in Addrs : resource_realloc(t, a)
                \/ \E h \in Addrs, label \in {"free", "realloc"} : BeginCall(t, h, label)
                \/ \E u \in Threads : pthread_create(t, u)
                \/ NoMemory(t) \/ Dangling(t) \/ FreeBlock(t) \/ pthread_exit(t)
       PROVE  UNCHANGED <<calls, nobj, proc, orphaned>>
  BY <1>11 DEF resource_realloc, BeginCall, pthread_create, pthread_exit, NoMemory, Dangling,
               FreeBlock, Goto, objVars, threadVars
<1> QED
  BY <1>4, <1>5, <1>6, <1>7, <1>8, <1>9, <1>10, <1>11 DEF Next, Step

\* handles.c implements what handles.h promises: for any number of threads, blocks and
\* objects, each object is released once, and none is live after the emulated exit.
THEOREM KeepsPromise == Spec => ImplementsPromise
<1>1. Init => Promise!Init
  <2> SUFFICES ASSUME Init  PROVE Promise!Init
    OBVIOUS
  <2>1. ASSUME NEW o \in Objects  PROVE ObjectState[o] = "none"
    BY <2>1 DEF Init, ObjectState, Objects
  <2> QED
    BY <2>1 DEF Init, Promise!Init, ObjectState
<1>2. Inv /\ [Next]_vars => [Promise!Next]_<<ObjectState, proc, orphaned>>
  BY PromiseNext
<1> QED
  BY <1>1, <1>2, InvAlways, PTL DEF Spec, ImplementsPromise, Promise!Spec

-----------------------------------------------------------------------------
(* Pointers in the program's hands. *)

\* As long as no exit has left threads behind, a pointer is with the program or with one
\* call, and is a live resource.
Owned ==
  /\ lock = 0 => \A a \in Addrs : held[a] # 0 => a \in Live /\ held[a] = 1
  /\ \A t \in Threads : pc[t] \in {"free", "realloc"} => arg[t] \in Live /\ held[arg[t]] = 0
  /\ \A t, u \in Threads :
       /\ pc[t] \in {"free", "realloc"} /\ pc[u] \in {"free", "realloc"}
       /\ arg[t] = arg[u]
       => t = u

\* During an exit that leaves no thread behind, and after it, nobody is in a call.
LEMMA NobodyCalls ==
  ASSUME TypeOK, Positions, ~orphaned, lock = 1 \/ proc = "exited", NEW t \in Threads
  PROVE  pc[t] \notin {"free", "realloc"}
<1>1. peers = {}
  BY DEF Positions
<1>2. pc[t] # "idle" => t = Main /\ lock = 1
  BY <1>1 DEF Positions, Running, TypeOK
<1> QED
  BY <1>2 DEF Positions

LEMMA OwnedAlloc ==
  ASSUME Inv, fault = "none", Owned, NEW t \in Threads, NEW a \in Addrs, resource_alloc(t, a)
  PROVE  Owned'
<1>1. TypeOK /\ Positions
  BY DEF Inv
<1>2. Live' = Live \cup {a} /\ a \notin Live
  <2>1. mem[a] = "free" /\ mem' = [mem EXCEPT ![a] = "used"] /\ Unlinked' = Unlinked
    BY DEF resource_alloc, Free, Unlinked, threadVars
  <2>2. a \notin Unlinked
    BY <1>1, <2>1 DEF Positions, Unlinked
  <2> QED
    BY <1>1, <2>1, <2>2 DEF Live, TypeOK
<1>3. held[a] = 0 /\ held' = [held EXCEPT ![a] = @ + 1] /\ UNCHANGED <<pc, arg, lock>>
  BY <1>2 DEF resource_alloc, Owned, threadVars
<1>4. \A b \in Addrs : held'[b] = IF b = a THEN 1 ELSE held[b]
  BY <1>1, <1>3 DEF TypeOK
<1>5. \A u \in Threads : pc[u] \in {"free", "realloc"} => arg[u] \in Addrs /\ arg[u] # a
  BY <1>1, <1>2 DEF Owned, Positions
<1> QED
  BY <1>1, <1>2, <1>3, <1>4, <1>5 DEF Owned

LEMMA OwnedFree ==
  ASSUME Inv, fault = "none", Owned, NEW t \in Threads, resource_free(t) \/ FreeBlock(t)
  PROVE  Owned'
<1>1. TypeOK /\ Positions
  BY DEF Inv
<1>2. CASE resource_free(t)
  <2>1. /\ pc[t] = "free" /\ arg[t] \in Live /\ mem' = mem /\ held' = held
        /\ pc' = [pc EXCEPT ![t] = "free_block"] /\ arg' = [arg EXCEPT ![t] = arg[t]]
        /\ lock = 0 /\ lock' = 0
    BY <1>2 DEF resource_free, Goto
  <2>2. Unlinked' = Unlinked \cup {arg[t]} /\ arg' = arg
    BY <1>1, <2>1, LiveSub DEF Unlinked, TypeOK
  <2>3. Live' = Live \ {arg[t]}
    BY <2>1, <2>2 DEF Live
  <2> QED
    BY <1>1, <2>1, <2>2, <2>3 DEF Owned, TypeOK
<1>3. CASE FreeBlock(t)
  <2>1. /\ pc[t] = "free_block" /\ mem' = [mem EXCEPT ![arg[t]] = "free"] /\ held' = held
        /\ pc' = [pc EXCEPT ![t] = "idle"] /\ arg' = [arg EXCEPT ![t] = NULL]
        /\ lock' = lock
    BY <1>3 DEF FreeBlock, Goto
  <2>2. arg[t] \in Unlinked /\ Unlinked' = Unlinked \ {arg[t]}
    BY <1>1, <2>1 DEF Unlinked, Positions, TypeOK
  <2>3. Live' = Live
    BY <1>1, <2>1, <2>2 DEF Live, TypeOK
  <2> QED
    BY <1>1, <2>1, <2>3 DEF Owned, TypeOK
<1> QED
  BY <1>2, <1>3

LEMMA OwnedRealloc ==
  ASSUME Inv, fault = "none", Owned, NEW t \in Threads, NEW a \in Addrs, resource_realloc(t, a)
  PROVE  Owned'
<1>1. TypeOK /\ Positions
  BY DEF Inv
<1>2. /\ pc[t] = "realloc" /\ arg[t] \in Live /\ a \in Free \cup {arg[t]}
      /\ mem' = [mem EXCEPT ![arg[t]] = "free", ![a] = "used"]
      /\ held' = [held EXCEPT ![a] = @ + 1]
      /\ pc' = [pc EXCEPT ![t] = "idle"] /\ arg' = [arg EXCEPT ![t] = NULL]
      /\ lock = 0 /\ lock' = 0
  BY DEF resource_realloc, Goto
<1>3. a \notin Unlinked /\ Unlinked' = Unlinked /\ a \notin Live \ {arg[t]}
  BY <1>1, <1>2 DEF Unlinked, Positions, TypeOK, Live, Free
<1>4. \A c \in Addrs : mem'[c] = IF c = a THEN "used" ELSE IF c = arg[t] THEN "free" ELSE mem[c]
  BY <1>1, <1>2, LiveSub DEF TypeOK
<1>5. Live' = (Live \ {arg[t]}) \cup {a}
  <2>1. ASSUME NEW c \in Addrs
        PROVE  c \in Live' <=> c \in (Live \ {arg[t]}) \cup {a}
    <3>1. c \in Live' <=> mem'[c] = "used" /\ c \notin Unlinked
      BY <1>3 DEF Live
    <3>2. c \in Live <=> mem[c] = "used" /\ c \notin Unlinked
      BY DEF Live
    <3> QED
      BY <1>3, <1>4, <3>1, <3>2
  <2>2. Live' \subseteq Addrs /\ Live \subseteq Addrs
    BY DEF Live
  <2> QED
    BY <2>1, <2>2
<1>6. held[a] = 0 /\ held[arg[t]] = 0
  BY <1>1, <1>2, <1>3 DEF Owned, Positions
<1>7. \A b \in Addrs : held'[b] = IF b = a THEN 1 ELSE held[b]
  BY <1>1, <1>2, <1>6 DEF TypeOK
<1>8. \A u \in Threads : pc'[u] \in {"free", "realloc"} =>
                           /\ u # t /\ pc[u] = pc'[u] /\ arg'[u] = arg[u]
                           /\ arg[u] \in Live \ {arg[t]} /\ arg[u] # a
  <2> SUFFICES ASSUME NEW u \in Threads, pc'[u] \in {"free", "realloc"}
               PROVE  /\ u # t /\ pc[u] = pc'[u] /\ arg'[u] = arg[u]
                      /\ arg[u] \in Live \ {arg[t]} /\ arg[u] # a
    OBVIOUS
  <2>1. u # t /\ pc[u] = pc'[u] /\ arg'[u] = arg[u]
    BY <1>1, <1>2 DEF TypeOK
  <2>2. arg[u] \in Live \ {arg[t]}
    BY <1>2, <2>1 DEF Owned
  <2> QED
    BY <1>3, <2>1, <2>2
<1>9. \A b \in Addrs : held'[b] # 0 => b \in Live' /\ held'[b] = 1
  BY <1>2, <1>5, <1>6, <1>7 DEF Owned
<1>10. \A u \in Threads : pc'[u] \in {"free", "realloc"} => arg'[u] \in Live' /\ held'[arg'[u]] = 0
  BY <1>5, <1>7, <1>8, LiveSub DEF Owned
<1>11. \A u, v \in Threads :
         /\ pc'[u] \in {"free", "realloc"} /\ pc'[v] \in {"free", "realloc"}
         /\ arg'[u] = arg'[v]
         => u = v
  BY <1>8 DEF Owned
<1> QED
  BY <1>2, <1>9, <1>10, <1>11 DEF Owned

LEMMA OwnedOther ==
  ASSUME Inv, fault = "none", Owned, ~orphaned',
         \/ \E t \in Threads, h \in Addrs, label \in {"free", "realloc"} : BeginCall(t, h, label)
         \/ \E t, u \in Threads : pthread_create(t, u) \/ pthread_exit(t)
         \/ BeginCollect \/ resource_collect \/ EndCollect \/ Restart
  PROVE  Owned'
<1>1. TypeOK /\ Positions
  BY DEF Inv
<1>2. ASSUME NEW t \in Threads, NEW h \in Addrs, NEW label \in {"free", "realloc"},
             BeginCall(t, h, label)
      PROVE  Owned'
  <2>1. /\ pc[t] = "idle" /\ held[h] > 0 /\ held' = [held EXCEPT ![h] = @ - 1] /\ mem' = mem
        /\ pc' = [pc EXCEPT ![t] = label] /\ arg' = [arg EXCEPT ![t] = h]
        /\ lock' = lock /\ t \in Running /\ ~orphaned
    BY <1>1, <1>2 DEF BeginCall, Goto, heapVars
  <2>2. lock = 0
    <3>1. lock = 1 => peers = {} /\ t = Main
      BY <1>1, <2>1 DEF Positions, Running
    <3> QED
      BY <1>1, <2>1, <3>1 DEF Positions, TypeOK
  <2>3. Unlinked' = Unlinked
    BY <1>1, <2>1 DEF Unlinked, TypeOK
  <2>4. Live' = Live
    BY <2>1, <2>3 DEF Live
  <2>5. h \in Live /\ held[h] = 1
    BY <1>1, <2>1, <2>2 DEF Owned, TypeOK
  <2>6. \A b \in Addrs : held'[b] = IF b = h THEN 0 ELSE held[b]
    BY <1>1, <2>1, <2>5 DEF TypeOK
  <2>7. \A u \in Threads : u # t => pc'[u] = pc[u] /\ arg'[u] = arg[u]
    BY <1>1, <2>1 DEF TypeOK
  <2>8. pc'[t] = label /\ arg'[t] = h
    BY <1>1, <2>1 DEF TypeOK
  <2>9. \A u \in Threads : pc[u] \in {"free", "realloc"} => arg[u] # h /\ arg[u] \in Addrs
    BY <1>1, <2>5 DEF Owned, Positions
  <2>10. \A b \in Addrs : held'[b] # 0 => b \in Live' /\ held'[b] = 1
    BY <2>2, <2>4, <2>6 DEF Owned
  <2>11. \A u \in Threads : pc'[u] \in {"free", "realloc"} => arg'[u] \in Live' /\ held'[arg'[u]] = 0
    BY <2>4, <2>5, <2>6, <2>7, <2>8, <2>9 DEF Owned
  <2>12. \A u, v \in Threads :
           /\ pc'[u] \in {"free", "realloc"} /\ pc'[v] \in {"free", "realloc"}
           /\ arg'[u] = arg'[v]
           => u = v
    BY <2>7, <2>8, <2>9 DEF Owned
  <2> QED
    BY <2>10, <2>11, <2>12 DEF Owned
<1>3. CASE BeginCollect
  <2>1. /\ lock' = 1 /\ pc' = [pc EXCEPT ![Main] = "collect"] /\ peers = {} /\ arg' = arg
        /\ pc[Main] = "idle" /\ proc = "running"
    BY <1>1, <1>3 DEF BeginCollect, TypeOK
  <2>2. \A t \in Threads : pc'[t] \in {"idle", "collect"}
    BY <1>1, <2>1 DEF Positions, Running, TypeOK
  <2> QED
    BY <2>1, <2>2 DEF Owned
<1>4. CASE resource_collect
  <2>1. lock' = 1 /\ lock = 1 /\ UNCHANGED <<pc, arg, peers, orphaned>>
    BY <1>1, <1>4 DEF resource_collect, Positions, threadVars
  <2>2. \A t \in Threads : pc'[t] \notin {"free", "realloc"}
    BY <1>1, <2>1, NobodyCalls
  <2> QED
    BY <2>1, <2>2 DEF Owned
<1>5. CASE EndCollect
  <2>1. /\ lock = 1 /\ ~orphaned /\ peers = {} /\ pc' = [pc EXCEPT ![Main] = "idle"]
        /\ held' = [a \in Addrs |-> 0]
    BY <1>1, <1>5 DEF EndCollect, Goto, Positions
  <2>2. \A t \in Threads : pc'[t] \notin {"free", "realloc"}
    BY <1>1, <2>1, NobodyCalls DEF TypeOK
  <2> QED
    BY <2>1, <2>2 DEF Owned
<1>6. CASE Restart \/ \E t, u \in Threads : pthread_create(t, u) \/ pthread_exit(t)
  <2>1. UNCHANGED <<mem, lock, held, pc, arg>>
    BY <1>6 DEF Restart, pthread_create, pthread_exit, heapVars
  <2>2. Live' = Live
    BY <2>1 DEF Live, Unlinked
  <2> QED
    BY <2>1, <2>2 DEF Owned
<1> QED
  BY <1>2, <1>3, <1>4, <1>5, <1>6

\* For any number of threads, blocks and objects and across any number of exits and
\* restarts: as long as the program has not exited with other threads running, one that
\* frees each pointer once never makes resource_free or resource_realloc touch a block
\* that is no resource.
THEOREM PointersNeverDangle == Spec => []NoDanglingPointer
<1> DEFINE Safe == NoDanglingPointer /\ (fault = "none" /\ ~orphaned => Owned)
<1>1. Init => Safe
  BY DEF Init, Owned, NoDanglingPointer
<1>2. Inv /\ Safe /\ [Next]_vars => Safe'
  <2> SUFFICES ASSUME Inv, Safe, [Next]_vars  PROVE Safe'
    OBVIOUS
  <2>1. CASE UNCHANGED vars
    BY <2>1 DEF vars, heapVars, objVars, threadVars, NoDanglingPointer, Owned, Live, Unlinked
  <2> SUFFICES ASSUME Next, fault = "none"  PROVE Safe'
    BY <2>1 DEF Next
  <2>2. ASSUME orphaned  PROVE Safe'
    <3>1. orphaned' = TRUE
      BY <2>2, ZenonT(60) DEF Next, Step, resource_alloc, resource_realloc, BeginCall, NoMemory, Dangling,
                  resource_free, FreeBlock, BeginCollect, resource_collect, EndCollect, Restart,
                  pthread_create, pthread_exit, Goto, threadVars, Inv, TypeOK
    <3> QED
      BY <3>1 DEF NoDanglingPointer
  <2> SUFFICES ASSUME ~orphaned, Owned  PROVE Safe'
    BY <2>2
  <2>3. ASSUME NEW t \in Threads, Dangling(t)  PROVE FALSE
    BY <2>3 DEF Dangling, Owned
  <2>4. fault' # "dangling"
    BY <2>3 DEF Next, Step, resource_alloc, resource_realloc, BeginCall, NoMemory, resource_free,
                FreeBlock, BeginCollect, resource_collect, EndCollect, Restart, pthread_create,
                pthread_exit
  <2>5. ASSUME NEW t \in Threads, NoMemory(t)  PROVE fault' # "none"
    BY <2>5 DEF NoMemory
  <2>6. fault' = "none" /\ ~orphaned' => Owned'
    BY <2>3, <2>5, OwnedAlloc, OwnedFree, OwnedRealloc, OwnedOther DEF Next, Step
  <2> QED
    BY <2>4, <2>6 DEF NoDanglingPointer
<1>3. Safe => NoDanglingPointer
  OBVIOUS
<1> QED
  BY <1>1, <1>2, <1>3, InvAlways, PTL DEF Spec
=============================================================================
