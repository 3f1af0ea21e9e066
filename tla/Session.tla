------------------------------- MODULE Session -------------------------------
(***************************************************************************)
(* The application's session, main.c:72-185, with the list, the question   *)
(* and the form of gui.cpp, list_networks and error_string of utils.c, and *)
(* one hamachi command, my_popen in daemon.c with popen.c.                 *)
(*                                                                         *)
(* The networks the daemon is a member of change by themselves: another    *)
(* member may delete one, and a command's effect may come late.  A pointer *)
(* is null, live or freed; a text is its length, its block the size.       *)
(***************************************************************************)
EXTENDS Naturals, Sequences, FiniteSets

CONSTANTS Networks,   \* names of networks
          Lengths     \* of the texts the user enters

\* realloc(ptrs[idx], 4096), and maxTextLength of the text dialog.
FormSize == 4096
MaxText == 2047

ASSUME SessionAssumption == IsFiniteSet(Networks) /\ Lengths \subseteq 0 .. MaxText

VARIABLES
  joined,            \* the networks the daemon is a member of
  at,                \* where main is
  action,            \* what the user chose
  cmd, answer,       \* the last hamachi command and what it wrote
  shown, netlist,    \* the names in netlist, and the block that holds them
  listed,            \* what the last list command wrote, in list_networks' buf
  netid,             \* the selected one, from 0
  buf, errs,         \* main's buf with sz, and its errs
  login, password,   \* what gui_login returns
  idx, len, cap,     \* gui_login: the focused field, length and size of each text
  choice             \* gui_show_question: 1 when OK has the focus

listVars == <<shown, netlist, listed, netid>>
cmdVars == <<cmd, answer, buf, errs>>
formVars == <<idx, len, cap>>
vars == <<joined, at, action, cmdVars, listVars, login, password, formVars, choice>>

Fields == {0, 1}
Button == 2

\* What convertFromAscii makes of a text of n characters and the null: two bytes each.
Wide(n) == 2 * (n + 1)

Pointers == {"null", "live", "freed"}
Commands == {"login", "create", "join", "leave", "delete"}
Answers == {"ok", "already", "denied", "error"}
Places == {"run", "answer", "errscreen", "abort", "list", "enter", "browse", "form", "ime",
           "ask_leave", "ask_delete", "dialog", "action_fail"}

Init ==
  /\ joined \in SUBSET Networks
  /\ at = "run" /\ cmd = "login" /\ answer = "ok" /\ action = "none"
  /\ shown = << >> /\ netlist = "null" /\ listed = "null" /\ netid = 0
  /\ buf = "null" /\ errs = "null" /\ login = "null" /\ password = "null"
  /\ idx = 0 /\ len = [f \in Fields |-> 0] /\ cap = [f \in Fields |-> 0]
  /\ choice = 0

Run(c) == at' = "run" /\ cmd' = c

\* The network main names in its messages and commands.
Selected == shown[netid + 1]

---------------------------------------------------------------------------
(* Commands. *)

\* What the daemon does for the command, and what the command says of it.
Outcome ==
  \/ answer' \in {"ok", "error"} \cup (IF cmd = "login" THEN {"already"} ELSE {})
       /\ joined' = joined
  \/ /\ cmd \in {"leave", "delete"} /\ Selected \in joined
     /\ answer' = "ok" /\ joined' = joined \ {Selected}
  \/ /\ cmd = "leave" /\ Selected \in joined
     /\ answer' = "denied" /\ joined' = joined

\* popen_get hands over what popen_write has collected, a null pointer if that is
\* nothing, and starts anew.
popen_get == buf' = "live" \/ (answer' = "error" /\ buf' = "null")

\* my_popen aborts unless *ptr and *sz are 0; then the command runs to its my_exit.
\* main frees the texts of the form.
my_popen ==
  /\ at = "run"
  /\ IF buf # "null"
     THEN at' = "abort" /\ UNCHANGED <<joined, answer, buf, login, password>>
     ELSE /\ at' = "answer" /\ popen_get /\ Outcome
          /\ login' = IF login = "live" THEN "freed" ELSE login
          /\ password' = IF password = "live" THEN "freed" ELSE password
  /\ UNCHANGED <<action, cmd, errs, listVars, formVars, choice>>

\* Mutant: buf is not reset before the second question.
error_string_KeepBuf ==
  /\ buf' = IF cmd = "leave" /\ answer = "denied" THEN "freed" ELSE "null"
  /\ errs' = IF answer = "ok" THEN "null"
             ELSE IF cmd = "leave" /\ answer = "denied" THEN "freed" ELSE "live"

\* error_string frees what ends in ". ok\n" and turns the rest into errs; then main
\* sets buf and sz to 0, and goes by the command and the answer.
error_string ==
  /\ buf' = "null"
  /\ errs' = IF answer = "ok" THEN "null"
             ELSE IF cmd = "leave" /\ answer = "denied" THEN "freed" ELSE "live"

Answered ==
  /\ at = "answer" /\ error_string
  /\ at' = IF cmd = "login" THEN IF answer \in {"ok", "already"} THEN "list" ELSE "errscreen"
           ELSE IF answer = "ok" THEN "action_fail"
           ELSE IF cmd = "leave" /\ answer = "denied" THEN "ask_delete" ELSE "dialog"
  /\ choice' = 0
  /\ UNCHANGED <<joined, action, cmd, answer, listVars, login, password, formVars>>

\* gui_show_error_dialog until CROSS; free(errs).
Dialog ==
  /\ at = "dialog" /\ at' = "action_fail" /\ errs' = "freed"
  /\ UNCHANGED <<joined, action, cmd, answer, buf, listVars, login, password, formVars,
                 choice>>

\* action_fail: free(netlist), and the next round.
action_fail ==
  /\ at = "action_fail" /\ at' = "list" /\ netlist' = "freed"
  /\ UNCHANGED <<joined, action, cmdVars, shown, listed, netid, login, password, formVars, choice>>

---------------------------------------------------------------------------
(* The list. *)

\* The names between "[" and "]", in the order the daemon lists them; none when it
\* does not answer.
Listing(q) ==
  \/ q = << >>
  \/ /\ Len(q) = Cardinality(joined)
     /\ {q[i] : i \in DOMAIN q} = joined

\* The list command has a buf of its own, null before each my_popen.  Reallocated and
\* read, it is left behind: the names are copied, and nobody frees it.
list_networks(q) ==
  /\ at = "list" /\ at' = "enter"
  /\ Listing(q)
  /\ shown' = q /\ netlist' = "live" /\ listed' = "live"
  /\ UNCHANGED <<joined, action, cmdVars, netid, login, password, formVars, choice>>

\* Mutant: the selection is not corrected.
EnterList_NoClamp ==
  /\ at = "enter" /\ at' = "browse"
  /\ UNCHANGED <<joined, action, cmdVars, listVars, login, password, formVars, choice>>

\* The head of gui_show_network_list.
EnterList ==
  /\ at = "enter" /\ at' = "browse"
  /\ netid' = IF Len(shown) > 0 /\ netid >= Len(shown) THEN Len(shown) - 1 ELSE netid
  /\ UNCHANGED <<joined, action, cmdVars, shown, netlist, listed, login, password, formVars,
                 choice>>

Move ==
  /\ at = "browse" /\ Len(shown) > 0
  /\ \/ netid > 0 /\ netid' = netid - 1
     \/ netid + 1 < Len(shown) /\ netid' = netid + 1
  /\ UNCHANGED <<joined, at, action, cmdVars, shown, netlist, listed, login, password,
                 formVars, choice>>

\* TRIANGLE and SQUARE: gui_login with two empty texts.
BeginForm ==
  /\ at = "browse" /\ at' = "form"
  /\ action' \in {"create", "join"}
  /\ idx' = 0
  /\ len' = [f \in Fields |-> 0] /\ cap' = [f \in Fields |-> 1]
  /\ UNCHANGED <<joined, cmdVars, listVars, login, password, choice>>

\* CIRCLE, which an empty list does not take.
BeginLeave ==
  /\ at = "browse" /\ Len(shown) > 0
  /\ at' = "ask_leave" /\ action' = "leave" /\ choice' = 0
  /\ UNCHANGED <<joined, cmdVars, listVars, login, password, formVars>>

\* gui_show_question: LEFT and RIGHT, CIRCLE for no, CROSS for the choice.
Question ==
  /\ at \in {"ask_leave", "ask_delete"}
  /\ \/ choice' \in {0, 1} /\ UNCHANGED <<at, cmd>>
     \/ at' = "action_fail" /\ UNCHANGED <<cmd, choice>>
     \/ /\ choice = 1 /\ UNCHANGED choice
        /\ Run(IF at = "ask_leave" THEN "leave" ELSE "delete")
  /\ UNCHANGED <<joined, action, answer, buf, errs, listVars, login, password, formVars>>

---------------------------------------------------------------------------
(* The form, gui_login. *)

Focus ==
  /\ at = "form" /\ idx' \in {idx - 1, idx + 1} \cap (Fields \cup {Button})
  /\ UNCHANGED <<joined, at, action, cmdVars, listVars, login, password, len, cap, choice>>

\* CIRCLE frees both texts and returns null pointers.
CancelForm ==
  /\ at = "form" /\ at' = "action_fail"
  /\ login' = "null" /\ password' = "null"
  /\ cap' = [f \in Fields |-> 0]
  /\ UNCHANGED <<joined, action, cmdVars, listVars, idx, len, choice>>

\* The body of the loop under CROSS, from the field i: the button returns the texts, a
\* field is made large enough for the dialog, which works on 16-bit characters.
Press(i) ==
  IF i = Button
  THEN /\ Run(action)
       /\ login' = "live" /\ password' = "live"
       /\ cap' = cap
  ELSE /\ at' = "ime"
       /\ cap' = [cap EXCEPT ![i] = FormSize]
       /\ UNCHANGED <<cmd, login, password>>

Cross ==
  /\ at = "form" /\ Press(idx)
  /\ UNCHANGED <<joined, action, answer, buf, errs, listVars, idx, len, choice>>

\* Mutant: a maxTextLength of 2048.
Ime_OneMore ==
  /\ at = "ime"
  /\ \E n \in Lengths \cup {MaxText + 1} : len' = [len EXCEPT ![idx] = n]
  /\ \/ idx' = idx + 1 /\ Press(idx + 1)
     \/ at' = "form" /\ UNCHANGED <<idx, cap, cmd, login, password>>
  /\ UNCHANGED <<joined, action, answer, buf, errs, listVars, choice>>

\* The dialog ends with a text of at most maxTextLength characters; OK goes on to the
\* next field and returns after the last one, anything else leaves the loop.
Ime ==
  /\ at = "ime"
  /\ \E n \in Lengths : len' = [len EXCEPT ![idx] = n]
  /\ \/ idx' = idx + 1 /\ Press(idx + 1)
     \/ at' = "form" /\ UNCHANGED <<idx, cap, cmd, login, password>>
  /\ UNCHANGED <<joined, action, answer, buf, errs, listVars, choice>>

\* Networks come and go: other members, and effects that come late.
Membership ==
  /\ joined' \in SUBSET Networks
  /\ UNCHANGED <<at, action, cmdVars, listVars, login, password, formVars, choice>>

UserStep == Move \/ BeginForm \/ BeginLeave \/ Question \/ Dialog
FormStep == Focus \/ CancelForm \/ Cross \/ Ime
Next ==
  \/ my_popen \/ Answered \/ action_fail
  \/ \E n \in 0 .. Cardinality(joined) : \E q \in [1 .. n -> joined] : list_networks(q)
  \/ EnterList \/ UserStep \/ FormStep \/ Membership

Spec == Init /\ [][Next]_vars

---------------------------------------------------------------------------
(* Properties. *)

TypeOK ==
  /\ joined \subseteq Networks
  /\ at \in Places /\ action \in {"none", "create", "join", "leave"}
  /\ cmd \in Commands /\ answer \in Answers
  /\ shown \in Seq(Networks) /\ netid \in Nat
  /\ {netlist, listed, buf, errs, login, password} \subseteq Pointers
  /\ idx \in Fields \cup {Button} /\ choice \in {0, 1}
  /\ len \in [Fields -> Lengths \cup {0}]
  /\ cap \in [Fields -> {0, 1, FormSize}]

\* The selection is in the list it selects from, wherever main reads netlist[netid] and
\* wherever the list is drawn, although the list is a new one in each round and may
\* have become shorter or empty in between (main.c:144-182, gui.cpp:346-363).
SelectionShown ==
  /\ at = "browse" /\ Len(shown) > 0 => netid < Len(shown)
  /\ at \in {"ask_leave", "ask_delete"} \/ (at = "run" /\ cmd \in {"leave", "delete"})
     => netid < Len(shown) /\ netlist = "live"

\* On every path through main's loop my_popen finds the null buffer it aborts without,
\* what is used is live, and a round frees what it made (main.c:88-185), but for what the
\* list command wrote, which each round leaks (utils.c:36-83), and for the text of
\* "Already logged in.", which outlives the first.
Owned ==
  /\ at = "run" => buf = "null"
  /\ at = "run" /\ cmd \in {"create", "join"} => login = "live" /\ password = "live"
  /\ at \in {"dialog", "errscreen"} => errs = "live"
  /\ at \in {"enter", "browse", "form", "ime", "dialog", "action_fail"} => netlist = "live"
  /\ at = "list" => /\ netlist # "live" /\ login # "live" /\ password # "live"
                    /\ errs = "live" => cmd = "login"

\* A text fits its block: with its null while it is shown, in 16-bit characters in the
\* dialog, also when the longest is edited again or its field is left and comes back
\* (gui.cpp:417-470).
FormFits ==
  /\ at \in {"form", "ime"} => \A f \in Fields : len[f] < cap[f]
  /\ at = "ime" => Wide(len[idx]) <= cap[idx]
=============================================================================
