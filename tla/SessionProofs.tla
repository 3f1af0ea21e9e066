---------------------------- MODULE SessionProofs ----------------------------
(***************************************************************************)
(* Proofs about Session.  IInv says, for each place of main, which of its  *)
(* pointers are live and what the selection and the form are good for.     *)
(***************************************************************************)
EXTENDS Session, FiniteSetTheorems, SequenceTheorems, TLAPS

\* The selection is good from the question to the answer of a second command.
Selection ==
  /\ at = "browse" /\ Len(shown) > 0 => netid < Len(shown)
  /\ \/ at \in {"ask_leave", "ask_delete"}
     \/ at \in {"run", "answer"} /\ cmd \in {"leave", "delete"}
     => netid < Len(shown)

\* netlist is live from the listing to action_fail, and not there in the first command.
ListBlock ==
  /\ at = "list" => netlist # "live"
  /\ at \in {"run", "answer"} /\ cmd # "login" => netlist = "live"
  /\ at \in {"enter", "browse", "form", "ime", "dialog", "action_fail", "ask_leave",
             "ask_delete"} => netlist = "live"
  /\ cmd = "login" /\ at \in {"run", "answer", "errscreen"} => netlist = "null"

\* buf is used from a command to its answer, errs until it is shown.
Buffers ==
  /\ at # "answer" => buf = "null"
  /\ at # "abort"
  /\ errs = "live" => cmd = "login" \/ at \in {"run", "answer", "dialog"}
  /\ at \in {"dialog", "errscreen"} => errs = "live"

\* What gui_login returned is freed after the one command that it is for.
Texts ==
  /\ at = "run" /\ cmd \in {"create", "join"} <=> login = "live"
  /\ at = "run" /\ cmd \in {"create", "join"} <=> password = "live"

\* A text is empty until its block has been enlarged, and the dialog works on a field
\* whose block has been.
Form ==
  /\ at \in {"form", "ime"} => /\ action \in {"create", "join"}
                              /\ \A f \in Fields : (len[f] = 0 /\ cap[f] = 1) \/ cap[f] = FormSize
  /\ at = "ime" => idx \in Fields /\ cap[idx] = FormSize

IInv == TypeOK /\ Selection /\ ListBlock /\ Buffers /\ Texts /\ Form

LEMMA ListTyped ==
  ASSUME IInv, NEW n \in 0 .. Cardinality(joined), NEW q \in [1 .. n -> joined]
  PROVE  q \in Seq(Networks)
<1>1. IsFiniteSet(joined)
  BY SessionAssumption, FS_Subset DEF IInv, TypeOK
<1>2. n \in Nat
  BY <1>1, FS_CardinalityType
<1>3. q \in [1 .. n -> Networks]
  BY DEF IInv, TypeOK
<1> QED
  BY <1>2, <1>3

LEMMA InitInv == Init => IInv
  BY SessionAssumption DEF Init, IInv, TypeOK, Pointers, Commands, Answers, Places, Fields,
     Button, FormSize, Wide, Selection, ListBlock, Buffers, Texts, Form

\* Every step of main keeps IInv.
LEMMA NextInv == IInv /\ [Next]_vars => IInv'
<1> SUFFICES ASSUME IInv, [Next]_vars PROVE IInv'
  OBVIOUS
<1> USE SessionAssumption DEF IInv, TypeOK, Pointers, Commands, Answers, Places, Fields, Button,
      FormSize, Wide, Selection, ListBlock, Buffers, Texts, Form, listVars, cmdVars, formVars
<1>1. CASE my_popen
  BY <1>1 DEF my_popen, popen_get, Outcome
<1>2. CASE Answered
  BY <1>2 DEF Answered, error_string
<1>3. CASE action_fail
  BY <1>3 DEF action_fail
<1>4. ASSUME NEW n \in 0 .. Cardinality(joined), NEW q \in [1 .. n -> joined],
              list_networks(q)
      PROVE  IInv'
  <2>1. q \in Seq(Networks)
    BY ListTyped
  <2> QED
    BY <1>4, <2>1 DEF list_networks
<1>5. CASE EnterList
  BY <1>5 DEF EnterList
<1>6. CASE Move
  BY <1>6 DEF Move
<1>7. CASE BeginForm
  BY <1>7 DEF BeginForm
<1>8. CASE BeginLeave
  BY <1>8 DEF BeginLeave
<1>9. CASE Question
  BY <1>9 DEF Question, Run
<1>10. CASE Dialog
  BY <1>10 DEF Dialog
<1>11. CASE Focus
  BY <1>11 DEF Focus
<1>12. CASE CancelForm
  BY <1>12 DEF CancelForm
<1>13. CASE Cross
  BY <1>13 DEF Cross, Press, Run
<1>14. CASE Ime
  BY <1>14 DEF Ime, Press, Run
<1>15. CASE Membership
  BY <1>15 DEF Membership
<1>16. CASE UNCHANGED vars
  BY <1>16 DEF vars
<1> QED
  BY ONLY <1>1, <1>2, <1>3, <1>4, <1>5, <1>6, <1>7, <1>8, <1>9, <1>10, <1>11, <1>12,
     <1>13, <1>14, <1>15, <1>16, [Next]_vars DEF Next, UserStep, FormStep

\* IInv holds in every state (main.c:72-185).
THEOREM Invariance == Spec => []IInv
<1>1. Init => IInv
  BY InitInv
<1>2. IInv /\ [Next]_vars => IInv'
  BY NextInv
<1> QED
  BY <1>1, <1>2, PTL DEF Spec

\* TypeOK of every state: the variables have their types (main.c:72-185).
THEOREM TypeCorrect == Spec => []TypeOK
<1>1. IInv => TypeOK
  BY DEF IInv
<1> QED
  BY <1>1, Invariance, PTL

\* However many networks there are and however they come and go, netlist[netid] is in
\* the list (main.c:144-182, gui.cpp:346-363).
THEOREM SelectionInList == Spec => []SelectionShown
<1>1. IInv => SelectionShown
  BY DEF IInv, Selection, ListBlock, SelectionShown
<1> QED
  BY <1>1, Invariance, PTL

\* my_popen never aborts, nothing is used after it is freed and a round frees what it
\* made, but for what the list command wrote (main.c:88-185, utils.c:36-83).
THEOREM OwnsMemory == Spec => []Owned
<1>1. IInv => Owned
  BY DEF IInv, Buffers, Texts, ListBlock, Owned
<1> QED
  BY <1>1, Invariance, PTL

\* Texts of up to 2047 characters fit blocks of 4096 bytes (gui.cpp:417-470).
THEOREM TextFits == Spec => []FormFits
<1>1. IInv => FormFits
  <2> SUFFICES ASSUME IInv PROVE FormFits
    OBVIOUS
  <2>0. TypeOK /\ Form
    BY DEF IInv
  <2>1. ASSUME NEW f \in Fields PROVE len[f] \in Nat /\ len[f] <= 2047
    <3>1. MaxText = 2047
      BY DEF MaxText
    <3>2. len[f] \in 0 .. MaxText
      <4>1. 0 \in 0 .. MaxText
        BY <3>1
      <4>2. len[f] \in Lengths \cup {0}
        BY <2>0 DEF TypeOK
      <4> QED
        BY <4>1, <4>2, SessionAssumption
    <3>3. MaxText \in Nat
      BY <3>1
    <3>4. len[f] \in Nat /\ len[f] <= MaxText
      BY <3>2, <3>3
    <3> QED
      BY <3>1, <3>4
  <2>2. ASSUME at \in {"form", "ime"}, NEW f \in Fields PROVE len[f] < cap[f]
    <3>1. CASE len[f] = 0 /\ cap[f] = 1
      BY <3>1
    <3>2. CASE cap[f] = 4096
      BY <2>1, <3>2
    <3> QED
      BY <2>0, <2>2, <3>1, <3>2 DEF Form, FormSize
  <2>3. ASSUME at = "ime" PROVE Wide(len[idx]) <= cap[idx]
    <3>1. idx \in Fields /\ cap[idx] = 4096
      BY <2>0, <2>3 DEF Form, FormSize
    <3> QED
      BY <2>1, <3>1 DEF Wide
  <2> QED
    BY <2>2, <2>3 DEF FormFits
<1> QED
  BY <1>1, Invariance, PTL
=============================================================================
