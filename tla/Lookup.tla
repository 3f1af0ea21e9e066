-------------------------------- MODULE Lookup --------------------------------
(***************************************************************************)
(* How the loader binds an imported name (src/ldr/lookup.c): lookup searches *)
(* the built-in table, then the auxiliary table of libstdc++ symbols, with   *)
(* lookup_in, which narrows the range of candidates one character at a time  *)
(* by two binary searches per character.  A step is one iteration of a loop. *)
(***************************************************************************)
EXTENDS Integers

CONSTANTS
  MaxLen,   \* longest name
  MaxByte,  \* bytes of a name are 0 .. MaxByte, 0 ends it
  Tables,   \* pairs <<symbols, auxsymbols>> to search
  Names     \* names to look up

\* A C string in a buffer of MaxLen + 1 bytes; the bytes after the first 0 are 0.
Strings ==
  {s \in [0 .. MaxLen -> 0 .. MaxByte] :
     /\ s[MaxLen] = 0
     /\ \A j, k \in 0 .. MaxLen : j < k /\ s[j] = 0 => s[k] = 0}

\* struct symbol_desc symbols[n], reduced to the names.
IsTable(T) == /\ T.n \in Nat
              /\ T.name \in [0 .. T.n - 1 -> Strings]

ASSUME LookupAssumption ==
  /\ MaxLen \in Nat
  /\ MaxByte \in Nat
  /\ Names \subseteq Strings
  /\ \A tt \in Tables : IsTable(tt[1]) /\ IsTable(tt[2])

\* strcmp(a, b) < 0
Precedes(a, b) ==
  \E k \in 0 .. MaxLen : a[k] < b[k] /\ \A j \in 0 .. k - 1 : a[j] = b[j]

\* What the comment on the table asks for.
Sorted(T) == \A i, j \in 0 .. T.n - 1 : i < j => Precedes(T.name[i], T.name[j])

VARIABLES
  tables, name,        \* the two tables and the argument of lookup
  tab,                 \* which table lookup_in searches
  start, end, idx,     \* candidates start .. end - 1 agree with name before idx
  l, h,                \* bounds of the binary search
  pc,
  result               \* <<table, index>> of the symbol, or NotFound

NotFound == <<0, 0>>
args == <<tables, name>>
vars == <<tables, name, tab, start, end, idx, l, h, pc, result>>

symbols == tables[tab].name
nsymbols == tables[tab].n

TypeOK ==
  /\ tables \in Tables /\ name \in Names /\ tab \in {1, 2}
  /\ start \in 0 .. nsymbols /\ end \in 0 .. nsymbols
  /\ idx \in 0 .. MaxLen
  /\ l \in -1 .. nsymbols /\ h \in 0 .. nsymbols
  /\ pc \in {"lower", "upper", "done"}
  /\ result \in {NotFound} \cup {<<t, i>> : t \in {1, 2}, i \in 0 .. nsymbols - 1}

Init ==
  /\ tables \in Tables /\ name \in Names
  /\ tab = 1
  /\ start = 0 /\ end = nsymbols /\ idx = 0
  /\ l = -1 /\ h = nsymbols
  /\ pc = "lower"
  /\ result = NotFound

m == (l + h) \div 2

\* Mutant: the byte found is not compared with name[idx].
NoMatch_NoCompare == h = end

\* No candidate has the byte name[idx].
NoMatch == h # end => symbols[h][idx] > name[idx]

\* Mutant: > instead of >= in the first search.
LowerStep_Strict ==
  /\ pc = "lower" /\ h - l > 1
  /\ IF symbols[m][idx] > name[idx] THEN h' = m /\ UNCHANGED l
                                    ELSE l' = m /\ UNCHANGED h
  /\ UNCHANGED <<args, tab, start, end, idx, pc, result>>

\* One iteration of the search for the first candidate whose byte is >= name[idx].
LowerStep ==
  /\ pc = "lower" /\ h - l > 1
  /\ IF symbols[m][idx] >= name[idx] THEN h' = m /\ UNCHANGED l
                                     ELSE l' = m /\ UNCHANGED h
  /\ UNCHANGED <<args, tab, start, end, idx, pc, result>>

\* lookup_in returns NULL: lookup goes on with auxsymbols, or has no symbol.
Miss ==
  /\ pc = "lower" /\ h - l <= 1
  /\ NoMatch
  /\ IF tab = 1
     THEN /\ tab' = 2
          /\ start' = 0 /\ end' = tables[2].n /\ idx' = 0
          /\ l' = -1 /\ h' = tables[2].n
          /\ UNCHANGED pc
     ELSE /\ pc' = "done"
          /\ UNCHANGED <<tab, start, end, idx, l, h>>
  /\ UNCHANGED <<args, result>>

\* The terminating 0 of name matched.
Hit ==
  /\ pc = "lower" /\ h - l <= 1
  /\ ~NoMatch
  /\ name[idx] = 0
  /\ start' = h
  /\ result' = <<tab, h>>
  /\ pc' = "done"
  /\ UNCHANGED <<args, tab, end, idx, l, h>>

\* start = h; search for the end of the run of candidates with this byte.
BeginUpper ==
  /\ pc = "lower" /\ h - l <= 1
  /\ ~NoMatch
  /\ name[idx] # 0
  /\ start' = h
  /\ l' = h - 1 /\ h' = end
  /\ pc' = "upper"
  /\ UNCHANGED <<args, tab, end, idx, result>>

UpperStep ==
  /\ pc = "upper" /\ h - l > 1
  /\ IF symbols[m][idx] > name[idx] THEN h' = m /\ UNCHANGED l
                                    ELSE l' = m /\ UNCHANGED h
  /\ UNCHANGED <<args, tab, start, end, idx, pc, result>>

\* Mutant: idx is not advanced.
NextByte_SameIdx ==
  /\ pc = "upper" /\ h - l <= 1
  /\ end' = h
  /\ l' = start - 1
  /\ pc' = "lower"
  /\ UNCHANGED <<args, tab, start, idx, h, result>>

\* Mutant: every search starts at the beginning of the table.
NextByte_FromZero ==
  /\ pc = "upper" /\ h - l <= 1
  /\ end' = h
  /\ idx' = idx + 1
  /\ l' = -1
  /\ pc' = "lower"
  /\ UNCHANGED <<args, tab, start, h, result>>

\* end = h; idx++; and the bounds of the next character's first search.
NextByte ==
  /\ pc = "upper" /\ h - l <= 1
  /\ end' = h
  /\ idx' = idx + 1
  /\ l' = start - 1
  /\ pc' = "lower"
  /\ UNCHANGED <<args, tab, start, h, result>>

Next == LowerStep \/ Miss \/ Hit \/ BeginUpper \/ UpperStep \/ NextByte

Spec == Init /\ [][Next]_vars
FairSpec == Spec /\ WF_vars(Next)

-----------------------------------------------------------------------------
(* Properties *)

\* Every byte lookup_in compares is inside the table and inside the strings: the
\* midpoint is a candidate, and idx never runs past the end of name.
InBounds ==
  /\ h - l > 1 /\ pc # "done" => m \in start .. end - 1
  /\ pc # "done" => \A k \in 0 .. idx - 1 : name[k] # 0

\* A name is bound to the symbol of that name, and to one of symbols[] before one of
\* auxsymbols.
FoundIsRight ==
  pc = "done" /\ result # NotFound =>
    /\ tables[result[1]].name[result[2]] = name
    /\ result[1] = 2 => \A i \in 0 .. tables[1].n - 1 : tables[1].name[i] # name

\* A name that one of the tables has is never bound to a stub.
FoundIfPresent ==
  pc = "done" /\ result = NotFound =>
    \A t \in {1, 2} : \A i \in 0 .. tables[t].n - 1 : tables[t].name[i] # name

\* The nested loops end for every name.
Terminates == <>(pc = "done")
=============================================================================
