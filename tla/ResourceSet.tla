------------------------------ MODULE ResourceSet ------------------------------
(***************************************************************************)
(* What src/ldr/handles.h promises of the objects of an emulated process:   *)
(* each is released exactly once, by the program or by the emulated exit,   *)
(* and an exit leaves none behind.                                          *)
(***************************************************************************)
EXTENDS Naturals

CONSTANT Objects  \* every object ever created

VARIABLES
  object,   \* of an object: "none" before it is created, "live", "released"
  proc,     \* the emulated program: "running" or "exited"
  orphaned  \* a thread of the program may have survived an exit

Init ==
  /\ object = [o \in Objects |-> "none"]
  /\ proc = "running"
  /\ orphaned = FALSE

\* Some thread runs the program's code.
Alive == proc = "running" \/ orphaned

Create(o) ==
  /\ Alive /\ object[o] = "none"
  /\ object' = [object EXCEPT ![o] = "live"]
  /\ UNCHANGED <<proc, orphaned>>

Release(o) ==
  /\ Alive /\ object[o] = "live"
  /\ object' = [object EXCEPT ![o] = "released"]
  /\ UNCHANGED <<proc, orphaned>>

\* The emulated exit is over.
Exit ==
  /\ proc = "running" /\ \A o \in Objects : object[o] # "live"
  /\ proc' = "exited"
  /\ UNCHANGED <<object, orphaned>>

Start == proc = "exited" /\ proc' = "running" /\ UNCHANGED <<object, orphaned>>

\* An exit begins while the program has other threads.
Orphan == orphaned' = TRUE /\ UNCHANGED <<object, proc>>

Next == (\E o \in Objects : Create(o) \/ Release(o)) \/ Exit \/ Start \/ Orphan

Spec == Init /\ [][Next]_<<object, proc, orphaned>>
=============================================================================
