--------------------------------- MODULE Loader ---------------------------------
(***************************************************************************)
(* src/ldr/main.c and ldr.c: each emulated run of a program loads cpp.elf,   *)
(* the C++ library, and then the executable, into the process of the runs    *)
(* before it, whose static variables (lookup.c, glue.c) are still there.     *)
(* A read may fail at any step; a run may end anywhere.                      *)
(***************************************************************************)
EXTENDS Integers, Sequences, FiniteSets

CONSTANTS
  Host, Cpp,   \* symbol tables: functions from a name to "fn" or "data"
  CppRelocs,   \* relocations of cpp.elf
  Exes,        \* the relocations of each executable that may be installed
  Opts,        \* the variables of getopt
  Rep,         \* the empty representation of strings, _S_empty_rep_storage
  RepCell,     \* the cell at 0x97c4e0, where the one executable of blobs/Makefile copies it
  Values       \* values of getopt's variables

\* A relocation is for a cell, 8 bytes of the image; cells of .rela.plt follow those of
\* .rela.dyn.
Reloc(r) == DOMAIN r = {"at", "name", "kind", "plt"} /\ r.kind \in {5, 6, 7} /\ r.plt \in BOOLEAN
CellsOf(rs) == {rs[i].at : i \in DOMAIN rs}
Distinct(rs) == \A i, j \in DOMAIN rs : rs[i].at = rs[j].at => i = j
Copies(rs, n) == {rs[i].at : i \in {j \in DOMAIN rs : rs[j].kind = 5 /\ rs[j].name = n}}

ASSUME LoaderAssumption ==
  /\ \A f \in {Host, Cpp} : \A n \in DOMAIN f : f[n] \in {"fn", "data"}
  /\ IsFiniteSet(DOMAIN Cpp)
  /\ \A rs \in Exes \cup {CppRelocs} :
       /\ Len(rs) \in Nat /\ DOMAIN rs = 1 .. Len(rs)
       /\ Distinct(rs) /\ \A i \in DOMAIN rs : Reloc(rs[i])
  /\ \A rs \in Exes : CellsOf(rs) \cap CellsOf(CppRelocs) = {}
  \* A static link leaves no relocation for a name the image has itself.
  /\ \A i \in DOMAIN CppRelocs : CppRelocs[i].name \notin DOMAIN Cpp
  /\ \A n \in Opts : n \in DOMAIN Host /\ Host[n] = "data"
  /\ Rep \in DOMAIN Cpp \ DOMAIN Host /\ Cpp[Rep] = "data"
  \* No image has two copies of a variable.
  /\ \A rs \in Exes \cup {CppRelocs}, n \in Opts \cup {Rep} : \A a, b \in Copies(rs, n) : a = b
  /\ \A n \in Opts : Copies(CppRelocs, n) = {}

VARIABLES
  exe,         \* the executable's relocations; it does not change
  step, img, rel,  \* where load_elf is, in which image, at which relocation
  image,       \* what is mapped of each image
  cell,        \* the relocated cells, of both images
  aux, naux,   \* auxsymbols and nauxsymbols
  reloc_addr,  \* of each data symbol
  p_opt, empty_rep_storage,  \* static variables of impl_getopt and impl_free
  zero,        \* the variable all of getopt's symbols point to
  told, freed  \* getopt's last values in this run; what resource_free last got
load == <<step, img, rel>>
statics == <<aux, naux, p_opt, empty_rep_storage, zero>>
ldrVars == <<exe, load, image, cell, statics, reloc_addr, told, freed>>

Images == {"cpp", "exe"}
Relocs(im) == IF im = "cpp" THEN CppRelocs ELSE exe
Cells == CellsOf(exe) \cup CellsOf(CppRelocs)
Data == {n \in DOMAIN Host : Host[n] = "data"} \cup {n \in DOMAIN Cpp \ DOMAIN Host : Cpp[n] = "data"}

\* Contents of a cell, and addresses that are not cells.
Fn(where, n) == <<"fn", where, n>>
Stub(n) == <<"fn", "stub", n>>
Word(where, n) == <<"word", where, n>>  \* the first 8 bytes of a variable
Dead(n) == <<"dead", "none", n>>
Unset == <<"unset", "none", "none">>
Opt(v) == <<"opt", "none", v>>
Address(where, n) == <<"address", where, n>>
CellAt(a) == Address("cell", a)
NIL == Address("none", "none")

-----------------------------------------------------------------------------
(* Lookup *)

\* The host's table first; then cpp.elf's, of which nauxsymbols entries are searched.
lookup(n) ==
  IF n \in DOMAIN Host THEN "host"
  ELSE IF naux >= Cardinality(DOMAIN Cpp) /\ n \in DOMAIN Cpp THEN "cpp" ELSE "none"
IsFn(n) == IF n \in DOMAIN Host THEN Host[n] = "fn" ELSE Cpp[n] = "fn"

\* Mutant: is_fn is not looked at.
lookup_function_AnyKind(n) == IF lookup(n) # "none" THEN Fn(lookup(n), n) ELSE Stub(n)
lookup_function(n) == IF lookup(n) # "none" /\ IsFn(n) THEN Fn(lookup(n), n) ELSE Stub(n)

Found(n) == lookup(n) # "none" /\ ~IsFn(n)
\* lookup_data with the address of a cell: the content to copy there, one word.  What a
\* longer variable has after it is not copied.
Content(n) ==
  IF ~Found(n) THEN Dead(n)
  ELSE IF n \in Opts THEN zero ELSE Word(lookup(n), n)
\* Mutant: 1 asks for the copy as 0 does.
lookup_data_Copy(n, tgt) ==
  IF ~Found(n) THEN Dead(n)
  ELSE IF reloc_addr[n] # NIL THEN reloc_addr[n] ELSE Address(lookup(n), n)
\* Mutant: 0 asks for the symbol's own address as 1 does.
lookup_data_Own(n, tgt) == IF ~Found(n) THEN Dead(n) ELSE Address(lookup(n), n)
\* lookup_data with 0, the copy if there is one, and with 1, the symbol's own address.
lookup_data(n, tgt) ==
  IF ~Found(n) THEN Dead(n)
  ELSE IF tgt = 0 /\ reloc_addr[n] # NIL THEN reloc_addr[n] ELSE Address(lookup(n), n)

\* The count goes on from where the last run left it, to the first empty name.
setauxsymbols ==
  /\ aux' = "cpp" /\ naux' = IF naux < Cardinality(DOMAIN Cpp) THEN Cardinality(DOMAIN Cpp) ELSE naux
  /\ UNCHANGED <<p_opt, empty_rep_storage, zero>>

-----------------------------------------------------------------------------
(* load_elf *)

LdrInit ==
  /\ exe \in Exes /\ step = "idle" /\ img = "cpp" /\ rel = 1
  /\ image = [im \in Images |-> "none"] /\ cell = [a \in Cells |-> Unset]
  /\ aux = "none" /\ naux = 0 /\ reloc_addr = [n \in Data |-> NIL]
  /\ p_opt = [n \in Opts |-> NIL] /\ empty_rep_storage = NIL /\ zero = Opt("0")
  /\ told = Unset /\ freed = NIL
At(s) == step = s
Goto(s) == step' = s /\ UNCHANGED <<img, rel>>
\* load_elf and main return 1, and my_exit goes back to where the next run starts.
Return1 == Goto("idle") /\ UNCHANGED <<exe, image, cell, statics, reloc_addr, told, freed>>

main ==
  /\ At("idle")
  /\ step' = "open" /\ img' = "cpp" /\ rel' = 1 /\ told' = Unset /\ freed' = NIL
  /\ UNCHANGED <<exe, image, cell, statics, reloc_addr>>

\* The file is opened and its headers are read; munmap has no effect.
OpenImage ==
  /\ At("open")
  /\ \/ Return1
     \/ Goto("map") /\ UNCHANGED <<exe, image, cell, statics, reloc_addr, told, freed>>

\* Anonymous memory over all segments, which clears what an earlier run has left there.
MapImage ==
  /\ At("map")
  /\ \/ Return1
     \/ /\ Goto("read")
        /\ image' = [image EXCEPT ![img] = "blank"]
        /\ cell' = [a \in Cells |-> IF a \in CellsOf(Relocs(img)) THEN Unset ELSE cell[a]]
        /\ UNCHANGED <<exe, statics, reloc_addr, told, freed>>

Loaded ==
  /\ image' = [image EXCEPT ![img] = "read"]
  /\ reloc_addr' = [n \in Data |-> IF img = "cpp" /\ n \notin DOMAIN Host THEN NIL ELSE reloc_addr[n]]

\* Mutant: the result of readall is not looked at.
ReadSegments_Unchecked ==
  /\ At("read")
  /\ Loaded \/ UNCHANGED <<image, reloc_addr>>
  /\ Goto("relocate") /\ UNCHANGED <<exe, cell, statics, told, freed>>
\* The symbols of cpp.elf are part of its segments, with their reloc_addr.
ReadSegments ==
  /\ At("read")
  /\ \/ Return1
     \/ Loaded /\ Goto("relocate") /\ UNCHANGED <<exe, cell, statics, told, freed>>

\* A relocation of kind 6 in .rela.plt is left alone.
Write(r, v) == cell' = [cell EXCEPT ![r.at] = v]
Relocate ==
  /\ At("relocate") /\ rel <= Len(Relocs(img))
  /\ LET r == Relocs(img)[rel] IN
       \/ /\ r.kind = 5 /\ Write(r, Content(r.name))
          /\ reloc_addr' = IF Found(r.name) THEN [reloc_addr EXCEPT ![r.name] = CellAt(r.at)] ELSE reloc_addr
       \/ r.kind = 6 /\ r.plt /\ UNCHANGED <<cell, reloc_addr>>
       \/ /\ r.kind = 7 \/ (r.kind = 6 /\ ~r.plt)
          /\ Write(r, lookup_function(r.name)) /\ UNCHANGED reloc_addr
  /\ rel' = rel + 1 /\ UNCHANGED <<exe, step, img, image, statics, told, freed>>

\* Both images: main goes on with the executable, or calls its entry.
EndLoad ==
  /\ At("relocate") /\ rel > Len(Relocs(img))
  /\ \/ img = "cpp" /\ setauxsymbols /\ step' = "open" /\ img' = "exe" /\ rel' = 1
     \/ img = "exe" /\ Goto("run") /\ UNCHANGED statics
  /\ UNCHANGED <<exe, image, cell, reloc_addr, told, freed>>

-----------------------------------------------------------------------------
(* The program *)

\* Where getopt's results are stored: at the addresses found by the first call.
impl_getopt(v) ==
  LET p == [n \in Opts |-> IF p_opt[n] = NIL THEN lookup_data(n, 0) ELSE p_opt[n]] IN
  /\ At("run")
  /\ p_opt' = p
  /\ cell' = [a \in Cells |-> IF \E n \in Opts : p[n] = CellAt(a) THEN Opt(v) ELSE cell[a]]
  /\ zero' = IF \E n \in Opts : p[n] = Address("host", n) THEN Opt(v) ELSE zero
  /\ told' = Opt(v)
  /\ UNCHANGED <<exe, load, image, aux, naux, empty_rep_storage, reloc_addr, freed>>

impl_free(ptr) ==
  LET rep == IF empty_rep_storage = NIL THEN lookup_data(Rep, 1) ELSE empty_rep_storage IN
  /\ At("run")
  /\ empty_rep_storage' = rep
  /\ freed' = IF ptr = CellAt(RepCell) \/ ptr = rep THEN freed ELSE ptr
  /\ UNCHANGED <<exe, load, image, cell, aux, naux, p_opt, zero, reloc_addr, told>>

\* A function that is in no table is a stub, which aborts; the
\* next process starts as this one has.
CallStub ==
  /\ At("run") /\ (\E a \in Cells : cell[a][2] = "stub") /\ Goto("aborted")
  /\ UNCHANGED <<exe, image, cell, statics, reloc_addr, told, freed>>

Exit == At("run") /\ Return1

\* What a program may free: a block of the heap, or the empty string of the library, or
\* its copy of it.
Reps == {CellAt(a) : a \in Copies(exe, Rep)}
Heap == Address("heap", Rep)
LdrNext ==
  \/ main \/ OpenImage \/ MapImage \/ ReadSegments \/ Relocate \/ EndLoad
  \/ \E v \in Values : impl_getopt(v)
  \/ \E ptr \in Reps \cup {Address("cpp", Rep), Heap} : impl_free(ptr)
  \/ CallStub \/ Exit

LdrSpec == LdrInit /\ [][LdrNext]_ldrVars

-----------------------------------------------------------------------------
(* Properties *)

LdrTypeOK ==
  /\ exe \in Exes /\ step \in {"idle", "open", "map", "read", "relocate", "run", "aborted"}
  /\ img \in Images /\ rel \in 1..(Len(Relocs(img)) + 1)
  /\ image \in [Images -> {"none", "blank", "read"}] /\ aux \in {"none", "cpp"} /\ naux \in Nat
  /\ DOMAIN cell = Cells /\ reloc_addr \in [Data -> {CellAt(a) : a \in Cells} \cup {NIL}]

\* lookup.c: whatever runs and failed loads came before, while relocations are looked up
\* the auxiliary table is one that has been read, and its count is its length.
AuxTable ==
  naux > 0 => /\ aux = "cpp" /\ naux = Cardinality(DOMAIN Cpp)
              /\ step = "relocate" => image["cpp"] = "read"

Owner(n) == IF n \in DOMAIN Host THEN "host" ELSE IF n \in DOMAIN Cpp THEN "cpp" ELSE "none"
Expected(r) ==
  IF r.kind = 6 /\ r.plt THEN Unset
  ELSE IF r.kind = 5
  THEN IF r.name \in Data THEN Word(Owner(r.name), r.name) ELSE Dead(r.name)
  ELSE IF Owner(r.name) # "none" /\ IsFn(r.name) THEN Fn(Owner(r.name), r.name) ELSE Stub(r.name)

\* ldr.c: in every run of the process the program is linked as in the first: each cell
\* has the function, the first word of the variable or the stub that the two tables say.
Linked ==
  step = "run" => \A im \in Images : \A j \in DOMAIN Relocs(im) :
    LET r == Relocs(im)[j] IN r.name \notin Opts => cell[r.at] = Expected(r)

\* glue.c: in every run the program's own variables have the values getopt has set.
GetoptReaches ==
  told # Unset => \A n \in Opts : \A a \in Copies(exe, n) : cell[a] = told

\* glue.c: the library's empty string is never given to the heap, through copies the
\* executable may have of it.  Of those, the code knows the one at RepCell.
RepsKept == freed # Address("cpp", Rep)

===============================================================================
