------------------------------- MODULE UnitTable -------------------------------
(***************************************************************************)
(* What src/tun/main.c promises of tun units: an open file has a unit of    *)
(* its own from tun_open until it is closed, the interface of a unit is in  *)
(* one thread's hands at a time, and a unit is taken again only when        *)
(* opaque_free is done with it and nobody has its interface.  All this up   *)
(* to a failure of a kind that the implementation has to name.              *)
(***************************************************************************)
CONSTANTS
  Units,    \* tun0, tun1, ...
  NoUnit,
  Files,    \* open-file objects
  Threads   \* threads that use interfaces

VARIABLES
  unit,     \* unit[f]: the unit of an open file, or NoUnit
  phase,    \* phase[i]: "free", "opening", "open", "closing", "closed"
  users,    \* users[i]: the threads that have the interface of unit i in hand
  broken    \* the failure has happened: nothing is promised any more

Init ==
  /\ broken = FALSE
  /\ unit = [f \in Files |-> NoUnit]
  /\ phase = [i \in Units |-> "free"]
  /\ users = [i \in Units |-> {}]

\* tun_open finds a free unit.
Take(i) ==
  /\ phase[i] = "free"
  /\ phase' = [phase EXCEPT ![i] = "opening"]
  /\ UNCHANGED <<unit, users>>

\* tun_open ends: file f has the unit.
Open(i, f) ==
  /\ phase[i] = "opening" /\ unit[f] = NoUnit
  /\ phase' = [phase EXCEPT ![i] = "open"]
  /\ unit' = [unit EXCEPT ![f] = i]
  /\ UNCHANGED users

\* The last reference to file f goes away.
Close(f) ==
  /\ unit[f] # NoUnit /\ phase[unit[f]] = "open"
  /\ phase' = [phase EXCEPT ![unit[f]] = "closing"]
  /\ unit' = [unit EXCEPT ![f] = NoUnit]
  /\ UNCHANGED users

\* opaque_free, once it has the interface, withdraws it for good.
Withdraw(i, t) ==
  /\ phase[i] = "closing" /\ users[i] = {t}
  /\ phase' = [phase EXCEPT ![i] = "closed"]
  /\ users' = [users EXCEPT ![i] = {}]
  /\ UNCHANGED unit

\* opaque_free ends.
Free(i) ==
  /\ phase[i] = "closed" /\ users[i] = {}
  /\ phase' = [phase EXCEPT ![i] = "free"]
  /\ UNCHANGED <<unit, users>>

\* A broadcast, or opaque_free, takes the interface, which the unit has; others wait.
Borrow(i, t) ==
  /\ phase[i] \notin {"free", "closed"} /\ users[i] = {}
  /\ users' = [users EXCEPT ![i] = {t}]
  /\ UNCHANGED <<unit, phase>>

GiveBack(i, t) ==
  /\ users[i] = {t}
  /\ users' = [users EXCEPT ![i] = {}]
  /\ UNCHANGED <<unit, phase>>

Kept ==
  \/ \E i \in Units : Take(i) \/ Free(i)
  \/ \E i \in Units, f \in Files : Open(i, f)
  \/ \E f \in Files : Close(f)
  \/ \E i \in Units, t \in Threads : Borrow(i, t) \/ GiveBack(i, t) \/ Withdraw(i, t)

Next == (Kept /\ UNCHANGED broken) \/ broken'

Spec == Init /\ [][Next]_<<unit, phase, users, broken>>
=============================================================================
