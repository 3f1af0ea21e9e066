----------------------------- MODULE LookupProofs -----------------------------
(***************************************************************************)
(* lookup is correct for every pair of sorted tables and every name, and so  *)
(* is what the loader does with it: whatever runs and failed loads came       *)
(* before, a program is linked as the tables say.                            *)
(***************************************************************************)
EXTENDS Lookup, Loader, FiniteSetTheorems, TLAPS

\* Symbol i of T agrees with name on the first n bytes.
Agrees(T, i, n) == \A k \in 0 .. n - 1 : T.name[i][k] = name[k]

Absent(T) == \A i \in 0 .. T.n - 1 : T.name[i] # name

Types ==
  /\ tables \in Tables /\ name \in Names /\ tab \in {1, 2}
  /\ start \in Nat /\ end \in Nat /\ idx \in Nat /\ l \in Int /\ h \in Nat
  /\ pc \in {"lower", "upper", "done"}

Bounds ==
  /\ start - 1 <= l /\ l < h /\ h <= end /\ end <= nsymbols
  /\ idx <= MaxLen
  /\ \A k \in 0 .. idx - 1 : name[k] # 0

\* Before and in the first search of a character.
LowerInv ==
  /\ \A i \in 0 .. nsymbols - 1 :
       i >= start /\ i < end <=> Agrees(tables[tab], i, idx)
  /\ \A i \in 0 .. nsymbols - 1 :
       /\ i >= start /\ i <= l => symbols[i][idx] < name[idx]
       /\ i >= h /\ i < end => symbols[i][idx] >= name[idx]

\* In the second search.
UpperInv ==
  /\ name[idx] # 0
  /\ \A i \in 0 .. nsymbols - 1 :
       /\ Agrees(tables[tab], i, idx + 1) => i >= start /\ i < end
       /\ i >= start /\ i < end =>
            Agrees(tables[tab], i, idx) /\ symbols[i][idx] >= name[idx]
       /\ i >= start /\ i <= l => symbols[i][idx] <= name[idx]
       /\ i >= h /\ i < end => symbols[i][idx] > name[idx]

DoneInv ==
  \/ result = NotFound /\ Absent(tables[1]) /\ Absent(tables[2])
  \/ \E t \in {1, 2} : \E i \in 0 .. tables[t].n - 1 :
       /\ result = <<t, i>> /\ tables[t].name[i] = name
       /\ t = 2 => Absent(tables[1])

IInv ==
  /\ Types
  /\ pc # "done" => Bounds /\ result = NotFound /\ (tab = 2 => Absent(tables[1]))
  /\ pc = "lower" => LowerInv
  /\ pc = "upper" => UpperInv
  /\ pc = "done" => DoneInv

AllSorted == \A tt \in Tables : Sorted(tt[1]) /\ Sorted(tt[2])

-----------------------------------------------------------------------------
LEMMA StringBytes ==
  ASSUME NEW s \in Strings
  PROVE  /\ \A k \in 0 .. MaxLen : s[k] \in Nat
         /\ s[MaxLen] = 0
         /\ \A j, k \in 0 .. MaxLen : j < k /\ s[j] = 0 => s[k] = 0
         /\ s = [k \in 0 .. MaxLen |-> s[k]]
BY LookupAssumption DEF Strings

\* Two names that agree up to the terminating 0 of one of them are equal.
LEMMA EqualStrings ==
  ASSUME NEW a \in Strings, NEW b \in Strings, NEW n \in 0 .. MaxLen,
         \A k \in 0 .. n - 1 : a[k] = b[k], a[n] = 0, b[n] = 0
  PROVE  a = b
<1>1. \A k \in 0 .. MaxLen : a[k] = b[k]
  BY LookupAssumption, StringBytes
<1> QED
  BY <1>1, StringBytes

\* In a sorted table the symbols with a common prefix are ordered by the next byte.
LEMMA NextByteOrdered ==
  ASSUME NEW T, IsTable(T), Sorted(T), NEW n \in 0 .. MaxLen,
         NEW i \in 0 .. T.n - 1, NEW j \in 0 .. T.n - 1, i <= j,
         \A k \in 0 .. n - 1 : T.name[i][k] = T.name[j][k]
  PROVE  T.name[i][n] <= T.name[j][n]
<1>1. T.name[i] \in Strings /\ T.name[j] \in Strings
  BY DEF IsTable
<1>2. T.name[i][n] \in Nat /\ T.name[j][n] \in Nat
  BY <1>1, StringBytes
<1>3. CASE i = j
  BY <1>2, <1>3
<1>4. CASE i < j
  <2>1. PICK k \in 0 .. MaxLen : /\ T.name[i][k] < T.name[j][k]
                                 /\ \A q \in 0 .. k - 1 : T.name[i][q] = T.name[j][q]
    BY <1>4 DEF Sorted, Precedes
  <2>2. T.name[i][k] \in Nat /\ T.name[j][k] \in Nat
    BY <1>1, StringBytes
  <2>3. k >= n
    BY <2>1, <2>2
  <2> QED
    BY <1>2, <2>1, <2>3
<1> QED
  BY <1>3, <1>4

\* What the types say about the table being searched.
LEMMA CurrentTable ==
  ASSUME Types, AllSorted
  PROVE  /\ IsTable(tables[tab]) /\ Sorted(tables[tab])
         /\ nsymbols \in Nat /\ name \in Strings
         /\ \A i \in 0 .. nsymbols - 1 : symbols[i] \in Strings
BY LookupAssumption DEF Types, AllSorted, IsTable, nsymbols, symbols

LEMMA MidPoint ==
  ASSUME Types, Bounds, h - l > 1
  PROVE  m \in Nat /\ l < m /\ m < h
BY DEF Types, Bounds, m

\* Candidates are ordered by the byte at idx.
LEMMA CandidatesOrdered ==
  ASSUME Types, AllSorted, Bounds, NEW i \in 0 .. nsymbols - 1, NEW j \in 0 .. nsymbols - 1,
         i <= j, Agrees(tables[tab], i, idx), Agrees(tables[tab], j, idx)
  PROVE  /\ symbols[i][idx] <= symbols[j][idx]
         /\ symbols[i][idx] \in Nat /\ symbols[j][idx] \in Nat /\ name[idx] \in Nat
<1>1. idx \in 0 .. MaxLen
  BY LookupAssumption DEF Types, Bounds
<1>2. \A k \in 0 .. idx - 1 : tables[tab].name[i][k] = tables[tab].name[j][k]
  BY DEF Agrees
<1>3. tables[tab].name[i][idx] <= tables[tab].name[j][idx]
  BY <1>1, <1>2, CurrentTable, NextByteOrdered DEF nsymbols
<1> QED
  BY <1>1, <1>3, CurrentTable, StringBytes DEF symbols

\* A table in which a name is not to be found below the candidates' first match.
LEMMA NoMatchAbsent ==
  ASSUME Types, AllSorted, Bounds, LowerInv, h - l <= 1, NoMatch
  PROVE  Absent(tables[tab])
<1> SUFFICES ASSUME NEW i \in 0 .. nsymbols - 1, symbols[i] = name
             PROVE  FALSE
  BY DEF Absent, nsymbols, symbols
<1>1. nsymbols \in Nat /\ idx \in 0 .. MaxLen /\ l = h - 1
  BY CurrentTable, LookupAssumption DEF Types, Bounds
<1>2. Agrees(tables[tab], i, idx)
  BY DEF Agrees, symbols
<1>3. i >= start /\ i < end
  BY <1>2 DEF LowerInv
<1>4. symbols[i][idx] = name[idx] /\ name[idx] \in Nat
  BY <1>1, CurrentTable, StringBytes
<1>5. i >= h
  BY <1>1, <1>3, <1>4 DEF LowerInv, Types
<1>6. h \in 0 .. nsymbols - 1 /\ h >= start /\ h < end /\ h # end
  BY <1>1, <1>3, <1>5 DEF Types, Bounds
<1>7. Agrees(tables[tab], h, idx)
  BY <1>6 DEF LowerInv
<1>8. symbols[h][idx] <= symbols[i][idx] /\ symbols[h][idx] \in Nat
  BY <1>2, <1>5, <1>6, <1>7, CandidatesOrdered
<1> QED
  BY <1>4, <1>6, <1>8 DEF NoMatch

\* What the first search leaves when it found the byte.
LEMMA MatchFound ==
  ASSUME Types, AllSorted, Bounds, LowerInv, h - l <= 1, ~NoMatch
  PROVE  /\ h \in 0 .. nsymbols - 1 /\ h >= start /\ h < end /\ l = h - 1
         /\ symbols[h][idx] = name[idx]
         /\ Agrees(tables[tab], h, idx)
<1>1. nsymbols \in Nat /\ idx \in 0 .. MaxLen /\ l = h - 1
  BY CurrentTable, LookupAssumption DEF Types, Bounds
<1>2. h # end /\ ~(symbols[h][idx] > name[idx])
  BY DEF NoMatch
<1>3. h \in 0 .. nsymbols - 1 /\ h >= start /\ h < end
  BY <1>1, <1>2 DEF Types, Bounds
<1>4. Agrees(tables[tab], h, idx) /\ symbols[h][idx] >= name[idx]
  BY <1>3 DEF LowerInv, Types
<1>5. symbols[h][idx] \in Nat /\ name[idx] \in Nat
  BY <1>1, <1>3, CurrentTable, StringBytes
<1> QED
  BY <1>1, <1>2, <1>3, <1>4, <1>5

-----------------------------------------------------------------------------
LEMMA InitInv ==
  ASSUME Init  PROVE IInv
<1>1. nsymbols \in Nat /\ MaxLen \in Nat
  BY LookupAssumption DEF Init, IsTable, nsymbols
<1>2. Types
  BY <1>1 DEF Init, Types
<1>3. Bounds /\ LowerInv
  BY <1>1 DEF Init, Bounds, LowerInv, Agrees
<1> QED
  BY <1>2, <1>3 DEF Init, IInv

LEMMA LowerStepInv ==
  ASSUME IInv, AllSorted, LowerStep  PROVE IInv'
<1> USE DEF LowerStep, args
<1>1. Types /\ Bounds /\ LowerInv /\ result = NotFound /\ (tab = 2 => Absent(tables[1]))
  BY DEF IInv
<1>2. m \in Nat /\ l < m /\ m < h
  BY <1>1, MidPoint
<1>3. nsymbols' = nsymbols /\ symbols' = symbols /\ nsymbols \in Nat
  BY <1>1, CurrentTable DEF nsymbols, symbols
<1>4. Types'
  BY <1>1, <1>2 DEF Types
<1>5. Bounds'
  BY <1>1, <1>2, <1>3 DEF Bounds, Types
<1>6. m \in 0 .. nsymbols - 1 /\ m >= start /\ m < end
  BY <1>1, <1>2, <1>3 DEF Bounds, Types
<1>7. \A i \in 0 .. nsymbols - 1 :
        /\ i >= start /\ i <= l' => symbols[i][idx] < name[idx]
        /\ i >= h' /\ i < end => symbols[i][idx] >= name[idx]
  <2> SUFFICES ASSUME NEW i \in 0 .. nsymbols - 1, i >= start, i < end
      PROVE  /\ i <= l' => symbols[i][idx] < name[idx]
             /\ i >= h' => symbols[i][idx] >= name[idx]
    BY <1>1, <1>2, <1>3 DEF Bounds, Types
  <2>1. Agrees(tables[tab], i, idx) /\ Agrees(tables[tab], m, idx)
    BY <1>1, <1>6 DEF LowerInv
  <2>2. i <= m => /\ symbols[i][idx] <= symbols[m][idx]
                  /\ symbols[i][idx] \in Nat /\ symbols[m][idx] \in Nat /\ name[idx] \in Nat
    BY <1>1, <1>6, <2>1, CandidatesOrdered
  <2>3. m <= i => /\ symbols[m][idx] <= symbols[i][idx]
                  /\ symbols[i][idx] \in Nat /\ symbols[m][idx] \in Nat /\ name[idx] \in Nat
    BY <1>1, <1>6, <2>1, CandidatesOrdered
  <2>4. /\ i <= l => symbols[i][idx] < name[idx]
        /\ i >= h => symbols[i][idx] >= name[idx]
    BY <1>1 DEF LowerInv
  <2> QED
    BY <1>1, <1>2, <2>2, <2>3, <2>4 DEF Types
<1>8. LowerInv'
  BY <1>1, <1>3, <1>7 DEF LowerInv, Agrees
<1> QED
  BY <1>1, <1>4, <1>5, <1>8 DEF IInv, Absent

LEMMA MissInv ==
  ASSUME IInv, AllSorted, Miss  PROVE IInv'
<1> USE DEF Miss, args
<1>1. Types /\ Bounds /\ LowerInv /\ result = NotFound /\ (tab = 2 => Absent(tables[1]))
  BY DEF IInv
<1>2. Absent(tables[tab])
  BY <1>1, NoMatchAbsent
<1>3. CASE tab = 1
  <2>1. tables[2].n \in Nat /\ MaxLen \in Nat
    BY <1>1, LookupAssumption DEF Types, IsTable
  <2>2. Types'
    BY <1>1, <1>3, <2>1 DEF Types
  <2>3. nsymbols' = tables[2].n
    BY <1>3 DEF nsymbols
  <2>4. Bounds' /\ LowerInv'
    BY <1>3, <2>1, <2>3 DEF Bounds, LowerInv, Agrees
  <2>5. Absent(tables[1])' /\ pc' = "lower" /\ result' = NotFound
    BY <1>1, <1>2, <1>3 DEF Absent
  <2> QED
    BY <2>2, <2>4, <2>5 DEF IInv
<1>4. CASE tab = 2
  <2>1. Types'
    BY <1>1, <1>4 DEF Types
  <2>2. DoneInv' /\ pc' = "done"
    BY <1>1, <1>2, <1>4 DEF DoneInv, Absent
  <2> QED
    BY <2>1, <2>2 DEF IInv
<1> QED
  BY <1>1, <1>3, <1>4 DEF Types

LEMMA HitInv ==
  ASSUME IInv, AllSorted, Hit  PROVE IInv'
<1> USE DEF Hit, args
<1>1. Types /\ Bounds /\ LowerInv /\ (tab = 2 => Absent(tables[1]))
  BY DEF IInv
<1>2. /\ h \in 0 .. nsymbols - 1 /\ symbols[h][idx] = name[idx]
      /\ Agrees(tables[tab], h, idx)
  BY <1>1, MatchFound
<1>3. symbols[h] \in Strings /\ name \in Strings /\ idx \in 0 .. MaxLen
  BY <1>1, <1>2, CurrentTable, LookupAssumption DEF Types, Bounds
<1>4. symbols[h] = name
  BY <1>2, <1>3, EqualStrings DEF Agrees, symbols
<1>5. Types'
  BY <1>1 DEF Types
<1>6. tab \in {1, 2} /\ h \in 0 .. tables[tab].n - 1 /\ tables[tab].name[h] = name
  BY <1>1, <1>2, <1>4 DEF Types, symbols, nsymbols
<1>7. DoneInv'
  BY <1>1, <1>6 DEF DoneInv, Absent
<1> QED
  BY <1>5, <1>7 DEF IInv

LEMMA BeginUpperInv ==
  ASSUME IInv, AllSorted, BeginUpper  PROVE IInv'
<1> USE DEF BeginUpper, args
<1>1. Types /\ Bounds /\ LowerInv /\ result = NotFound /\ (tab = 2 => Absent(tables[1]))
  BY DEF IInv
<1>2. /\ h \in 0 .. nsymbols - 1 /\ h >= start /\ h < end /\ l = h - 1
      /\ symbols[h][idx] = name[idx]
  BY <1>1, MatchFound
<1>3. nsymbols' = nsymbols /\ symbols' = symbols /\ nsymbols \in Nat
  BY <1>1, CurrentTable DEF nsymbols, symbols
<1>4. idx \in 0 .. MaxLen /\ name[idx] \in Nat
  BY <1>1, CurrentTable, StringBytes, LookupAssumption DEF Types, Bounds
<1>5. Types'
  BY <1>1, <1>2 DEF Types
<1>6. Bounds'
  BY <1>1, <1>2, <1>3 DEF Bounds, Types
<1>7. \A i \in 0 .. nsymbols - 1 :
        /\ Agrees(tables[tab], i, idx + 1) => i >= h /\ i < end
        /\ i >= h /\ i < end =>
             Agrees(tables[tab], i, idx) /\ symbols[i][idx] >= name[idx]
        /\ i >= h /\ i <= h - 1 => symbols[i][idx] <= name[idx]
        /\ i >= end /\ i < end => symbols[i][idx] > name[idx]
  <2> SUFFICES ASSUME NEW i \in 0 .. nsymbols - 1
      PROVE  /\ Agrees(tables[tab], i, idx + 1) => i >= h /\ i < end
             /\ i >= h /\ i < end =>
                  Agrees(tables[tab], i, idx) /\ symbols[i][idx] >= name[idx]
    BY <1>1, <1>2, <1>3 DEF Types
  <2>1. ASSUME Agrees(tables[tab], i, idx + 1)
        PROVE  i >= h /\ i < end
    <3>1. Agrees(tables[tab], i, idx) /\ symbols[i][idx] = name[idx]
      BY <1>4, <2>1 DEF Agrees, symbols
    <3>2. i >= start /\ i < end
      BY <1>1, <3>1 DEF LowerInv
    <3> QED
      BY <1>1, <1>2, <1>4, <3>1, <3>2 DEF LowerInv, Types
  <2>2. ASSUME i >= h, i < end
        PROVE  Agrees(tables[tab], i, idx) /\ symbols[i][idx] >= name[idx]
    BY <1>1, <1>2, <1>3, <2>2 DEF LowerInv, Types
  <2> QED
    BY <2>1, <2>2
<1>8. UpperInv'
  BY <1>1, <1>3, <1>7 DEF UpperInv, Agrees
<1> QED
  BY <1>1, <1>5, <1>6, <1>8 DEF IInv, Absent

LEMMA UpperStepInv ==
  ASSUME IInv, AllSorted, UpperStep  PROVE IInv'
<1> USE DEF UpperStep, args
<1>1. Types /\ Bounds /\ UpperInv /\ result = NotFound /\ (tab = 2 => Absent(tables[1]))
  BY DEF IInv
<1>2. m \in Nat /\ l < m /\ m < h
  BY <1>1, MidPoint
<1>3. nsymbols' = nsymbols /\ symbols' = symbols /\ nsymbols \in Nat
  BY <1>1, CurrentTable DEF nsymbols, symbols
<1>4. Types'
  BY <1>1, <1>2 DEF Types
<1>5. Bounds'
  BY <1>1, <1>2, <1>3 DEF Bounds, Types
<1>6. m \in 0 .. nsymbols - 1 /\ m >= start /\ m < end
  BY <1>1, <1>2, <1>3 DEF Bounds, Types
<1>7. \A i \in 0 .. nsymbols - 1 :
        /\ i >= start /\ i <= l' => symbols[i][idx] <= name[idx]
        /\ i >= h' /\ i < end => symbols[i][idx] > name[idx]
  <2> SUFFICES ASSUME NEW i \in 0 .. nsymbols - 1, i >= start, i < end
      PROVE  /\ i <= l' => symbols[i][idx] <= name[idx]
             /\ i >= h' => symbols[i][idx] > name[idx]
    BY <1>1, <1>2, <1>3 DEF Bounds, Types
  <2>1. Agrees(tables[tab], i, idx) /\ Agrees(tables[tab], m, idx)
    BY <1>1, <1>6 DEF UpperInv
  <2>2. i <= m => /\ symbols[i][idx] <= symbols[m][idx]
                  /\ symbols[i][idx] \in Nat /\ symbols[m][idx] \in Nat /\ name[idx] \in Nat
    BY <1>1, <1>6, <2>1, CandidatesOrdered
  <2>3. m <= i => /\ symbols[m][idx] <= symbols[i][idx]
                  /\ symbols[i][idx] \in Nat /\ symbols[m][idx] \in Nat /\ name[idx] \in Nat
    BY <1>1, <1>6, <2>1, CandidatesOrdered
  <2>4. /\ i <= l => symbols[i][idx] <= name[idx]
        /\ i >= h => symbols[i][idx] > name[idx]
    BY <1>1 DEF UpperInv
  <2> QED
    BY <1>1, <1>2, <2>2, <2>3, <2>4 DEF Types
<1>8. UpperInv'
  BY <1>1, <1>3, <1>7 DEF UpperInv, Agrees
<1> QED
  BY <1>1, <1>4, <1>5, <1>8 DEF IInv, Absent

LEMMA NextByteInv ==
  ASSUME IInv, AllSorted, NextByte  PROVE IInv'
<1> USE DEF NextByte, args
<1>1. Types /\ Bounds /\ UpperInv /\ result = NotFound /\ (tab = 2 => Absent(tables[1]))
  BY DEF IInv
<1>2. nsymbols' = nsymbols /\ symbols' = symbols /\ nsymbols \in Nat
  BY <1>1, CurrentTable DEF nsymbols, symbols
<1>3. idx \in 0 .. MaxLen /\ name[MaxLen] = 0 /\ name[idx] # 0 /\ name[idx] \in Nat
  BY <1>1, CurrentTable, StringBytes, LookupAssumption DEF Types, Bounds, UpperInv
<1>4. idx + 1 <= MaxLen
  BY <1>3, LookupAssumption
<1>5. Types'
  BY <1>1 DEF Types
<1>6. Bounds'
  BY <1>1, <1>2, <1>3, <1>4 DEF Bounds, Types
<1>7. \A i \in 0 .. nsymbols - 1 : i >= start /\ i < h <=> Agrees(tables[tab], i, idx + 1)
  <2> SUFFICES ASSUME NEW i \in 0 .. nsymbols - 1
      PROVE  i >= start /\ i < h <=> Agrees(tables[tab], i, idx + 1)
    OBVIOUS
  <2>1. symbols[i][idx] \in Nat
    BY <1>1, <1>3, CurrentTable, StringBytes
  <2>2. ASSUME i >= start, i < h  PROVE Agrees(tables[tab], i, idx + 1)
    <3>1. i < end /\ i <= l
      BY <1>1, <2>2 DEF Bounds, Types
    <3>2. Agrees(tables[tab], i, idx) /\ symbols[i][idx] = name[idx]
      BY <1>1, <1>3, <2>1, <2>2, <3>1 DEF UpperInv
    <3> QED
      BY <1>3, <3>2 DEF Agrees, symbols
  <2>3. ASSUME Agrees(tables[tab], i, idx + 1)  PROVE i >= start /\ i < h
    <3>1. symbols[i][idx] = name[idx]
      BY <1>3, <2>3 DEF Agrees, symbols
    <3>2. i >= start /\ i < end
      BY <1>1, <2>3 DEF UpperInv
    <3> QED
      BY <1>1, <1>3, <3>1, <3>2 DEF UpperInv, Types
  <2> QED
    BY <2>2, <2>3
<1>8. LowerInv'
  BY <1>1, <1>2, <1>7 DEF LowerInv, Agrees, Types
<1> QED
  BY <1>1, <1>5, <1>6, <1>8 DEF IInv, Absent

LEMMA NextInv ==
  ASSUME IInv, AllSorted, [Next]_vars  PROVE IInv'
<1>1. CASE UNCHANGED vars
  BY <1>1 DEF vars, IInv, Types, Bounds, LowerInv, UpperInv, DoneInv, Absent, Agrees,
              symbols, nsymbols
<1> QED
  BY <1>1, LowerStepInv, MissInv, HitInv, BeginUpperInv, UpperStepInv, NextByteInv DEF Next

LEMMA InvAlways ==
  ASSUME AllSorted  PROVE Spec => []IInv
BY InitInv, NextInv, PTL DEF Spec

-----------------------------------------------------------------------------
\* With both tables sorted, the symbol a name is bound to is the one of that name,
\* however many symbols the tables have and however long the names are.
THEOREM LookupSound ==
  ASSUME AllSorted  PROVE Spec => []FoundIsRight
<1>1. IInv => FoundIsRight
  <2> SUFFICES ASSUME IInv, pc = "done", result # NotFound
      PROVE  /\ tables[result[1]].name[result[2]] = name
             /\ result[1] = 2 => \A i \in 0 .. tables[1].n - 1 : tables[1].name[i] # name
    BY DEF FoundIsRight
  <2> QED
    BY DEF IInv, DoneInv, Absent
<1> QED
  BY <1>1, InvAlways, PTL

\* With both tables sorted, a name one of them has is never bound to a stub.
THEOREM LookupComplete ==
  ASSUME AllSorted  PROVE Spec => []FoundIfPresent
<1>1. IInv => FoundIfPresent
  <2> SUFFICES ASSUME IInv, pc = "done", result = NotFound
      PROVE  \A t \in {1, 2} : \A i \in 0 .. tables[t].n - 1 : tables[t].name[i] # name
    BY DEF FoundIfPresent
  <2>1. ~ \E t \in {1, 2} : \E i \in 0 .. tables[t].n - 1 : result = <<t, i>>
    BY DEF NotFound
  <2> QED
    BY <2>1 DEF IInv, DoneInv, Absent
<1> QED
  BY <1>1, InvAlways, PTL

\* With both tables sorted, lookup_in reads no byte outside the table or past the
\* end of name.
THEOREM LookupInBounds ==
  ASSUME AllSorted  PROVE Spec => []InBounds
<1>1. IInv => InBounds
  <2> SUFFICES ASSUME IInv, pc # "done"
      PROVE  /\ h - l > 1 => m \in start .. end - 1
             /\ \A k \in 0 .. idx - 1 : name[k] # 0
    BY DEF InBounds
  <2>1. Types /\ Bounds
    BY DEF IInv
  <2> QED
    BY <2>1, MidPoint DEF Types, Bounds
<1> QED
  BY <1>1, InvAlways, PTL

\* The indices stay in the table that is searched, also when the search has ended.
LEMMA TypeStep ==
  ASSUME TypeOK, IInv, AllSorted, [Next]_vars
  PROVE  TypeOK'
<1>1. tables \in Tables /\ tables[1].n \in Nat /\ tables[2].n \in Nat
  BY LookupAssumption DEF TypeOK, IsTable
<1>2. IInv'
  BY NextInv
<1>3. pc # "done" => Bounds
  BY DEF IInv
<1>4. CASE LowerStep \/ UpperStep
  <2>1. h - l > 1 /\ Bounds /\ Types
    BY <1>3, <1>4 DEF LowerStep, UpperStep, IInv
  <2>2. m \in 0 .. nsymbols
    <3>1. m \in Nat /\ l < m /\ m < h
      BY <2>1, MidPoint
    <3>2. nsymbols \in Nat
      BY <1>1 DEF TypeOK, nsymbols
    <3>3. h \in 0 .. nsymbols
      BY DEF TypeOK
    <3> QED  BY <3>1, <3>2, <3>3
  <2>3. /\ l' \in {l, m} /\ h' \in {h, m}
        /\ UNCHANGED <<tables, name, tab, start, end, idx, pc, result>>
    BY <1>4 DEF LowerStep, UpperStep, args
  <2>4. l' \in -1 .. nsymbols /\ h' \in 0 .. nsymbols
    BY <1>1, <2>2, <2>3 DEF TypeOK
  <2> QED  BY <2>3, <2>4 DEF TypeOK, nsymbols
<1>5. CASE Miss
  <2>1. result = NotFound
    BY <1>5 DEF Miss, IInv
  <2>2. CASE tab = 1
    <3>1. /\ tab' = 2 /\ start' = 0 /\ end' = tables[2].n /\ idx' = 0 /\ l' = -1
          /\ h' = tables[2].n /\ result' = NotFound /\ UNCHANGED <<tables, name, pc>>
      BY <1>5, <2>1, <2>2 DEF Miss, args
    <3>2. nsymbols' = tables[2].n
      BY <3>1 DEF nsymbols
    <3>3. start' \in 0 .. nsymbols' /\ end' \in 0 .. nsymbols' /\ l' \in -1 .. nsymbols'
          /\ h' \in 0 .. nsymbols' /\ idx' \in 0 .. MaxLen
      BY <1>1, <3>1, <3>2, LookupAssumption
    <3> QED  BY <3>1, <3>3 DEF TypeOK
  <2>3. CASE tab # 1
    BY <1>5, <2>1, <2>3 DEF Miss, TypeOK, args, nsymbols
  <2> QED  BY <2>2, <2>3
<1>6. CASE Hit
  <2>1. Bounds /\ h # end
    BY <1>3, <1>6 DEF Hit, NoMatch
  <2>2. h \in 0 .. nsymbols - 1
    BY <1>1, <2>1 DEF Bounds, TypeOK, nsymbols
  <2> QED  BY <1>6, <2>2 DEF Hit, TypeOK, args, nsymbols
<1>7. CASE BeginUpper
  BY <1>1, <1>3, <1>7 DEF BeginUpper, TypeOK, args, nsymbols, Bounds
<1>8. CASE NextByte
  <2>1. Bounds'
    BY <1>2, <1>8 DEF NextByte, IInv
  <2>2. idx' \in 0 .. MaxLen
    BY <1>8, <2>1 DEF NextByte, Bounds, TypeOK
  <2> QED  BY <1>1, <1>8, <2>2 DEF NextByte, TypeOK, args, nsymbols
<1>9. CASE UNCHANGED vars
  BY <1>9 DEF vars, TypeOK, nsymbols
<1> QED  BY <1>4, <1>5, <1>6, <1>7, <1>8, <1>9 DEF Next

\* The state of the search stays well typed: every index is one of the table searched.
THEOREM TypeCorrect ==
  ASSUME AllSorted  PROVE Spec => []TypeOK
<1>1. Init => TypeOK
  <2> SUFFICES ASSUME Init  PROVE TypeOK
    OBVIOUS
  <2>1. tables \in Tables /\ tables[1].n \in Nat
    BY LookupAssumption DEF Init, IsTable
  <2> QED  BY <2>1, LookupAssumption DEF Init, TypeOK, nsymbols
<1>2. TypeOK /\ IInv /\ [Next]_vars => TypeOK'
  BY TypeStep
<1> QED
  BY <1>1, <1>2, InvAlways, PTL DEF Spec

\* A step of the search gets ahead: the range of the binary search, which is never empty,
\* shrinks, or the second search of the byte, the next byte or the second table begins, or
\* the search ends.
Advances ==
  /\ pc # "done"
  /\ \/ pc' = "done"
     \/ tab' > tab
     \/ tab' = tab /\ idx' > idx
     \/ tab' = tab /\ idx' = idx /\ pc = "lower" /\ pc' = "upper"
     \/ tab' = tab /\ idx' = idx /\ pc' = pc /\ 1 <= h' - l' /\ h' - l' < h - l

\* lookup.c: on sorted tables of any size no step of the three nested loops goes back, so
\* that, with the bounds TypeOK gives to tab, idx, l and h, every search is finite.
THEOREM SearchAdvances ==
  ASSUME AllSorted  PROVE Spec => [][Advances]_vars
<1>1. IInv /\ [Next]_vars => [Advances]_vars
  <2> SUFFICES ASSUME IInv, Next  PROVE Advances
    OBVIOUS
  <2>1. Types
    BY DEF IInv
  <2>2. CASE LowerStep \/ UpperStep
    <3>1. Bounds /\ h - l > 1
      BY <2>2 DEF IInv, LowerStep, UpperStep
    <3>2. m \in Nat /\ l < m /\ m < h
      BY <2>1, <3>1, MidPoint
    <3>3. /\ \/ h' = m /\ l' = l
             \/ h' = h /\ l' = m
          /\ tab' = tab /\ idx' = idx /\ pc' = pc /\ pc # "done"
      BY <2>2 DEF LowerStep, UpperStep
    <3> QED
      BY <2>1, <3>2, <3>3 DEF Types, Advances
  <2>3. CASE Miss
    BY <2>1, <2>3 DEF Miss, Types, Advances
  <2>4. CASE Hit
    BY <2>4 DEF Hit, Advances
  <2>5. CASE BeginUpper
    BY <2>5 DEF BeginUpper, Advances
  <2>6. CASE NextByte
    BY <2>1, <2>6 DEF NextByte, Types, Advances
  <2> QED
    BY <2>2, <2>3, <2>4, <2>5, <2>6 DEF Next
<1> QED
  BY <1>1, InvAlways, PTL DEF Spec

-----------------------------------------------------------------------------
(* The loads of a run *)

\* cpp.elf is loaded, and the executable is being loaded or runs.
CppLoaded == At("run") \/ (img = "exe" /\ step \in {"open", "map", "read", "relocate"})

AuxInv ==
  /\ naux = 0 \/ (aux = "cpp" /\ naux = Cardinality(DOMAIN Cpp))
  /\ CppLoaded => naux = Cardinality(DOMAIN Cpp) /\ image["cpp"] = "read"
  /\ At("relocate") => image["cpp"] = "read"

\* The first k - 1 relocations of an image are done.
LinkedBefore(im, k) ==
  \A j \in DOMAIN Relocs(im) :
    LET r == Relocs(im)[j] IN j < k /\ r.name \notin Opts => cell[r.at] = Expected(r)
\* The cells of the others are as MapImage has left them.
UnsetFrom(im, k) == \A j \in DOMAIN Relocs(im) : j >= k => cell[Relocs(im)[j].at] = Unset

LinkInv ==
  /\ step \in {"open", "map", "read"} => rel = 1
  /\ At("run") => img = "exe"
  /\ CppLoaded => LinkedBefore("cpp", Len(CppRelocs) + 1)
  /\ At("read") => UnsetFrom(img, 1)
  /\ At("relocate") => LinkedBefore(img, rel) /\ UnsetFrom(img, rel)
  /\ At("run") => LinkedBefore("exe", Len(exe) + 1)

\* Where getopt's variables are: the executable's copy, if it has one.
CopyOf(n) == {CellAt(a) : a \in Copies(exe, n)}
OptInv ==
  \A n \in Opts :
    /\ reloc_addr[n] \in {NIL} \cup CopyOf(n)
    /\ p_opt[n] \in {NIL} \cup CopyOf(n) \/ (p_opt[n] = Address("host", n) /\ CopyOf(n) = {})
    /\ At("run") /\ CopyOf(n) # {} => reloc_addr[n] # NIL
    /\ At("relocate") /\ img = "exe" => \A j \in DOMAIN exe :
         j < rel /\ exe[j].kind = 5 /\ exe[j].name = n => reloc_addr[n] # NIL
    /\ told # Unset => \A a \in Copies(exe, n) : cell[a] = told
ToldInv == told # Unset => step \in {"run", "idle", "aborted"}

RepInv == empty_rep_storage \in {NIL, Address("cpp", Rep)} /\ freed # Address("cpp", Rep)

LdrInv ==
  /\ LdrTypeOK /\ DOMAIN p_opt = Opts
  /\ AuxInv /\ LinkInv /\ OptInv /\ ToldInv /\ RepInv

\* What the assumptions say of the tables of relocations.
LEMMA RelocFacts ==
  ASSUME LdrTypeOK, NEW im \in Images
  PROVE  /\ Len(Relocs(im)) \in Nat /\ DOMAIN Relocs(im) = 1 .. Len(Relocs(im))
         /\ \A j \in DOMAIN Relocs(im) :
              /\ Relocs(im)[j].at \in Cells
              /\ Relocs(im)[j].kind \in {5, 6, 7} /\ Relocs(im)[j].plt \in BOOLEAN
         /\ \A j, k \in DOMAIN Relocs(im) : Relocs(im)[j].at = Relocs(im)[k].at => j = k
<1>1. Relocs(im) \in Exes \cup {CppRelocs} /\ CellsOf(Relocs(im)) \subseteq Cells
  BY DEF Relocs, Images, LdrTypeOK, Cells
<1>2. \A j \in DOMAIN Relocs(im) : Relocs(im)[j].at \in CellsOf(Relocs(im))
  BY DEF CellsOf
<1> QED
  BY <1>1, <1>2, LoaderAssumption DEF Reloc, Distinct

LEMMA CellsApart ==
  ASSUME LdrTypeOK, NEW j \in DOMAIN CppRelocs, NEW k \in DOMAIN exe
  PROVE  CppRelocs[j].at # exe[k].at
<1>1. CppRelocs[j].at \in CellsOf(CppRelocs) /\ exe[k].at \in CellsOf(exe)
  BY DEF CellsOf
<1> QED
  BY <1>1, LoaderAssumption DEF LdrTypeOK

LEMMA AuxCount == Cardinality(DOMAIN Cpp) \in Nat \ {0}
<1>1. DOMAIN Cpp # {} /\ IsFiniteSet(DOMAIN Cpp)
  BY LoaderAssumption
<1> QED
  BY <1>1, FS_CardinalityType, FS_EmptySet

\* Whatever the auxiliary table was, a name it can have is looked up once it is there.
LEMMA LookupIsOwner ==
  ASSUME NEW n, n \notin DOMAIN Cpp \/ naux = Cardinality(DOMAIN Cpp)
  PROVE  lookup(n) = Owner(n)
BY AuxCount DEF lookup, Owner

LEMMA FoundIsData ==
  ASSUME NEW n, n \notin DOMAIN Cpp \/ naux = Cardinality(DOMAIN Cpp)
  PROVE  /\ Found(n) <=> n \in Data
         /\ n \notin Opts => Content(n) = IF n \in Data THEN Word(Owner(n), n) ELSE Dead(n)
         /\ lookup_function(n) =
              IF Owner(n) # "none" /\ IsFn(n) THEN Fn(Owner(n), n) ELSE Stub(n)
<1>1. lookup(n) = Owner(n)
  BY LookupIsOwner
<1>2. Found(n) <=> n \in Data
  BY <1>1, LoaderAssumption DEF Found, Owner, IsFn, Data
<1> QED
  BY <1>1, <1>2 DEF Content, lookup_function

\* getopt's variables are the host's; cpp.elf has no copies of them.
LEMMA OptFacts ==
  ASSUME NEW n \in Opts
  PROVE  /\ n \in Data /\ n \in DOMAIN Host /\ Found(n) /\ lookup(n) = "host"
         /\ \A j \in DOMAIN CppRelocs : CppRelocs[j].kind = 5 => CppRelocs[j].name # n
<1>1. n \in DOMAIN Host /\ Host[n] = "data" /\ Copies(CppRelocs, n) = {}
  BY LoaderAssumption
<1>2. n \in Data /\ lookup(n) = "host" /\ Found(n)
  BY <1>1 DEF Data, lookup, Found, IsFn
<1>3. \A j \in DOMAIN CppRelocs : CppRelocs[j].kind = 5 => CppRelocs[j].name # n
  BY <1>1 DEF Copies
<1> QED
  BY <1>1, <1>2, <1>3

LEMMA InitLdr == LdrInit => LdrInv
<1> SUFFICES ASSUME LdrInit  PROVE LdrInv
  OBVIOUS
<1>1. LdrTypeOK /\ DOMAIN p_opt = Opts
  <2>1. Len(Relocs(img)) \in Nat
    BY LoaderAssumption DEF LdrInit, Relocs
  <2> QED
    BY <2>1 DEF LdrInit, LdrTypeOK, Images, Cells
<1>2. AuxInv /\ LinkInv
  BY DEF LdrInit, AuxInv, LinkInv, CppLoaded, At
<1>3. OptInv
  <2> SUFFICES ASSUME NEW n \in Opts
               PROVE  reloc_addr[n] = NIL /\ p_opt[n] = NIL /\ ~At("run") /\ ~At("relocate") /\ told = Unset
    BY DEF OptInv
  <2> QED
    BY OptFacts DEF LdrInit, At
<1>4. ToldInv /\ RepInv
  BY DEF LdrInit, ToldInv, RepInv, NIL, Address
<1> QED
  BY <1>1, <1>2, <1>3, <1>4 DEF LdrInv

\* Steps that go from one place of a load to another, or give it up, and leave the
\* memory alone.
LEMMA MoveInv ==
  ASSUME LdrInv, UNCHANGED <<exe, image, cell, statics, reloc_addr>>,
         told' = told \/ told' = Unset, freed' = freed \/ freed' = NIL,
         img' \in Images, rel' \in 1 .. (Len(Relocs(img')) + 1),
         step' \in {"idle", "open", "map", "aborted", "run"},
         step' \in {"open", "map"} => rel' = 1 /\ told' = Unset,
         step' \in {"open", "map"} /\ img' = "exe" => CppLoaded,
         step' = "run" => At("relocate") /\ img = "exe" /\ img' = "exe" /\ rel > Len(exe)
  PROVE  LdrInv'
<1> USE DEF statics
<1>1. LdrTypeOK /\ DOMAIN p_opt = Opts /\ AuxInv /\ LinkInv /\ OptInv /\ ToldInv /\ RepInv
  BY DEF LdrInv
<1>2. LdrTypeOK' /\ DOMAIN p_opt' = Opts
  BY <1>1 DEF LdrTypeOK, Relocs, Cells, Data, Images
<1>3. CppLoaded' => CppLoaded
  BY DEF CppLoaded, At
<1>4. AuxInv'
  BY <1>1, <1>3 DEF AuxInv, At
<1>5. LinkInv'
  <2>1. ASSUME At("run")'
        PROVE  LinkedBefore("exe", Len(exe) + 1)' /\ img' = "exe"
    <3>1. LinkedBefore("exe", rel) /\ Len(exe) \in Nat /\ DOMAIN exe = 1 .. Len(exe) /\ rel \in Nat
          /\ Relocs("exe") = exe
      BY <1>1, <2>1, LoaderAssumption DEF LinkInv, At, LdrTypeOK, Relocs
    <3>2. \A j \in DOMAIN exe : j < rel
      BY <2>1, <3>1 DEF At
    <3> QED
      BY <2>1, <3>1, <3>2 DEF LinkedBefore, At, Relocs, Expected, Data, Owner, IsFn
  <2>2. CppLoaded' => LinkedBefore("cpp", Len(CppRelocs) + 1)'
    BY <1>1, <1>3 DEF LinkInv, LinkedBefore, Relocs, Expected, Data, Owner, IsFn
  <2> QED
    BY <2>1, <2>2 DEF LinkInv, At
<1>6. OptInv'
  <2> SUFFICES ASSUME NEW n \in Opts, At("run")', CopyOf(n)' # {}
               PROVE  reloc_addr[n] # NIL
    BY <1>1 DEF OptInv, CopyOf, Copies, CellAt, Address, Unset, At
  <2>1. PICK a \in Copies(exe, n) : TRUE
    BY DEF CopyOf
  <2>2. PICK j \in DOMAIN exe : exe[j].kind = 5 /\ exe[j].name = n
    BY <2>1 DEF Copies
  <2>3. j < rel
    BY <1>1, LoaderAssumption DEF At, LdrTypeOK
  <2> QED
    BY <1>1, <2>2, <2>3 DEF OptInv, At
<1>7. ToldInv' /\ RepInv'
  BY <1>1 DEF ToldInv, RepInv, At, NIL, Address
<1> QED
  BY <1>2, <1>4, <1>5, <1>6, <1>7 DEF LdrInv

LEMMA Return1Inv == LdrInv /\ Return1 => LdrInv'
<1> SUFFICES ASSUME LdrInv, Return1  PROVE LdrInv'
  OBVIOUS
<1>1. LdrTypeOK
  BY DEF LdrInv
<1> QED
  BY <1>1, MoveInv DEF Return1, Goto, LdrTypeOK, Relocs

\* MapImage clears the image's own cells, none of which is the other image's.
LEMMA MapImageInv == LdrInv /\ MapImage => LdrInv'
<1> SUFFICES ASSUME LdrInv, MapImage, ~Return1  PROVE LdrInv'
  BY Return1Inv
<1> USE DEF statics
<1>1. LdrTypeOK /\ DOMAIN p_opt = Opts /\ AuxInv /\ LinkInv /\ OptInv /\ ToldInv /\ RepInv
  BY DEF LdrInv
<1>2. /\ At("map") /\ step' = "read" /\ img' = img /\ rel' = rel /\ rel = 1
      /\ image' = [image EXCEPT ![img] = "blank"]
      /\ cell' = [a \in Cells |-> IF a \in CellsOf(Relocs(img)) THEN Unset ELSE cell[a]]
      /\ UNCHANGED <<exe, statics, reloc_addr, told, freed>> /\ told = Unset
  BY <1>1 DEF MapImage, Goto, At, LinkInv, ToldInv
<1>3. LdrTypeOK' /\ DOMAIN p_opt' = Opts
  BY <1>1, <1>2 DEF LdrTypeOK, Relocs, Cells, Data, Images
<1>4. CppLoaded' => CppLoaded /\ img = "exe"
  BY <1>2 DEF CppLoaded, At
<1>5. AuxInv'
  BY <1>1, <1>2, <1>4 DEF AuxInv, At, LdrTypeOK, Images
<1>6. LinkInv'
  <2>1. ASSUME CppLoaded'
        PROVE  LinkedBefore("cpp", Len(CppRelocs) + 1)'
    <3> SUFFICES ASSUME NEW j \in DOMAIN CppRelocs
                 PROVE  cell'[CppRelocs[j].at] = cell[CppRelocs[j].at]
      BY <1>1, <1>4, <2>1 DEF LinkInv, LinkedBefore, Relocs, Expected, Data, Owner, IsFn
    <3>1. CppRelocs[j].at \in Cells /\ CppRelocs[j].at \notin CellsOf(exe)
      BY <1>1, RelocFacts, CellsApart DEF Images, Relocs, CellsOf
    <3> QED
      BY <1>2, <1>4, <2>1, <3>1 DEF Relocs
  <2>2. UnsetFrom(img, 1)'
    <3> SUFFICES ASSUME NEW j \in DOMAIN Relocs(img)
                 PROVE  cell'[Relocs(img)[j].at] = Unset
      BY <1>2 DEF UnsetFrom, Relocs
    <3>1. Relocs(img)[j].at \in Cells /\ Relocs(img)[j].at \in CellsOf(Relocs(img))
      BY <1>1, RelocFacts DEF LdrTypeOK, CellsOf
    <3> QED
      BY <1>2, <3>1
  <2> QED
    BY <1>2, <2>1, <2>2 DEF LinkInv, At
<1>7. OptInv'
  BY <1>1, <1>2 DEF OptInv, CopyOf, Copies, CellAt, Address, Unset, At
<1>8. ToldInv' /\ RepInv'
  BY <1>1, <1>2 DEF ToldInv, RepInv
<1> QED
  BY <1>3, <1>5, <1>6, <1>7, <1>8 DEF LdrInv

\* The segments bring cpp.elf's own symbols back without copies, and getopt's are
\* not among them.
LEMMA ReadSegmentsInv == LdrInv /\ ReadSegments => LdrInv'
<1> SUFFICES ASSUME LdrInv, ReadSegments, ~Return1  PROVE LdrInv'
  BY Return1Inv
<1> USE DEF statics
<1>1. LdrTypeOK /\ DOMAIN p_opt = Opts /\ AuxInv /\ LinkInv /\ OptInv /\ ToldInv /\ RepInv
  BY DEF LdrInv
<1>2. /\ At("read") /\ step' = "relocate" /\ img' = img /\ rel' = rel /\ rel = 1
      /\ image' = [image EXCEPT ![img] = "read"]
      /\ reloc_addr' = [n \in Data |-> IF img = "cpp" /\ n \notin DOMAIN Host THEN NIL ELSE reloc_addr[n]]
      /\ UNCHANGED <<exe, cell, statics, told, freed>> /\ told = Unset
  BY <1>1 DEF ReadSegments, Loaded, Goto, At, LinkInv, ToldInv
<1>3. LdrTypeOK' /\ DOMAIN p_opt' = Opts
  BY <1>1, <1>2 DEF LdrTypeOK, Relocs, Cells, Data, Images
<1>4. CppLoaded' => CppLoaded /\ img = "exe"
  BY <1>2 DEF CppLoaded, At
<1>5. AuxInv'
  <2>1. image'["cpp"] = "read"
    BY <1>1, <1>2 DEF AuxInv, CppLoaded, LdrTypeOK, Images, At
  <2> QED
    BY <1>1, <1>2, <1>4, <2>1 DEF AuxInv
<1>6. LinkInv'
  <2>1. CppLoaded' => LinkedBefore("cpp", Len(CppRelocs) + 1)'
    BY <1>1, <1>2, <1>4 DEF LinkInv, LinkedBefore, Relocs, Expected, Data, Owner, IsFn
  <2>2. LinkedBefore(img, rel)'
    <3>1. \A j \in DOMAIN Relocs(img) : ~(j < 1)
      BY <1>1, RelocFacts DEF LdrTypeOK
    <3> QED
      BY <1>2, <3>1 DEF LinkedBefore, Relocs
  <2>3. UnsetFrom(img, rel)'
    BY <1>1, <1>2 DEF LinkInv, UnsetFrom, Relocs
  <2> QED
    BY <1>2, <2>1, <2>2, <2>3 DEF LinkInv, At
<1>7. OptInv'
  <2>1. \A j \in DOMAIN exe : ~(j < 1)
    BY <1>1, LoaderAssumption DEF LdrTypeOK
  <2>2. \A n \in Opts : reloc_addr'[n] = reloc_addr[n]
    BY <1>2, OptFacts
  <2> QED
    BY <1>1, <1>2, <2>1, <2>2 DEF OptInv, CopyOf, Copies, CellAt, Address, Unset, At
<1>8. ToldInv' /\ RepInv'
  BY <1>1, <1>2 DEF ToldInv, RepInv
<1> QED
  BY <1>3, <1>5, <1>6, <1>7, <1>8 DEF LdrInv

\* A relocation writes its own cell, with what both tables say of its name.
LEMMA RelocateInv == LdrInv /\ Relocate => LdrInv'
<1> SUFFICES ASSUME LdrInv, Relocate  PROVE LdrInv'
  OBVIOUS
<1> USE DEF statics
<1> DEFINE r == Relocs(img)[rel]
<1>1. LdrTypeOK /\ DOMAIN p_opt = Opts /\ AuxInv /\ LinkInv /\ OptInv /\ ToldInv /\ RepInv
  BY DEF LdrInv
<1>2. /\ At("relocate") /\ step' = step /\ img' = img /\ rel' = rel + 1
      /\ UNCHANGED <<exe, image, statics, told, freed>> /\ told = Unset
      /\ LinkedBefore(img, rel) /\ UnsetFrom(img, rel)
  BY <1>1 DEF Relocate, At, LinkInv, ToldInv
<1>3. img \in Images /\ rel \in DOMAIN Relocs(img) /\ rel \in Nat
  BY <1>1, RelocFacts DEF LdrTypeOK, Relocate
<1>4. /\ r.at \in Cells /\ r.kind \in {5, 6, 7} /\ r.plt \in BOOLEAN
      /\ \A j \in DOMAIN Relocs(img) : Relocs(img)[j].at = r.at => j = rel
  BY <1>1, <1>3, RelocFacts
<1>5. r.name \notin DOMAIN Cpp \/ naux = Cardinality(DOMAIN Cpp)
  BY <1>1, <1>2, <1>3, LoaderAssumption DEF AuxInv, CppLoaded, At, Images, Relocs
<1>6. /\ DOMAIN cell' = Cells /\ \A a \in Cells : a # r.at => cell'[a] = cell[a]
      /\ r.name \notin Opts => cell'[r.at] = Expected(r)
  <2>1. CASE r.kind = 5
    <3>1. cell' = [cell EXCEPT ![r.at] = Content(r.name)]
      BY <2>1 DEF Relocate, Write
    <3> QED
      BY <1>1, <1>4, <1>5, <2>1, <3>1, FoundIsData DEF Expected, LdrTypeOK
  <2>2. CASE r.kind = 6 /\ r.plt
    <3>1. cell' = cell
      BY <2>2 DEF Relocate
    <3>2. cell[r.at] = Unset
      BY <1>2, <1>3 DEF UnsetFrom
    <3> QED
      BY <1>1, <2>2, <3>1, <3>2 DEF Expected, LdrTypeOK
  <2>3. CASE r.kind = 7 \/ (r.kind = 6 /\ ~r.plt)
    <3>1. cell' = [cell EXCEPT ![r.at] = lookup_function(r.name)]
      BY <2>3 DEF Relocate, Write
    <3> QED
      BY <1>1, <1>4, <1>5, <2>3, <3>1, FoundIsData DEF Expected, LdrTypeOK
  <2> QED
    BY <1>4, <2>1, <2>2, <2>3
<1>7. /\ reloc_addr' \in [Data -> {CellAt(a) : a \in Cells} \cup {NIL}]
      /\ \A n \in Opts : reloc_addr'[n] =
           IF r.kind = 5 /\ r.name = n THEN CellAt(r.at) ELSE reloc_addr[n]
  <2>1. reloc_addr' = IF r.kind = 5 /\ Found(r.name) THEN [reloc_addr EXCEPT ![r.name] = CellAt(r.at)]
                      ELSE reloc_addr
    BY <1>4 DEF Relocate
  <2>2. (Found(r.name) <=> r.name \in Data) /\ \A n \in Opts : n \in Data /\ Found(n)
    BY <1>5, FoundIsData, OptFacts
  <2>3. reloc_addr \in [Data -> {CellAt(a) : a \in Cells} \cup {NIL}]
    BY <1>1 DEF LdrTypeOK
  <2> QED
    BY <1>4, <2>1, <2>2, <2>3
<1>8. \A n \in Opts : r.kind = 5 /\ r.name = n =>
        img = "exe" /\ CellAt(r.at) \in CopyOf(n) /\ CellAt(r.at) # NIL
  <2> SUFFICES ASSUME NEW n \in Opts, r.kind = 5, r.name = n
               PROVE  img = "exe" /\ r.at \in Copies(exe, n)
    BY DEF CopyOf, CellAt, NIL, Address
  <2>1. img = "exe"
    BY <1>3, OptFacts DEF Relocs, Images
  <2> QED
    BY <1>3, <2>1 DEF Copies, Relocs
<1>9. LdrTypeOK' /\ DOMAIN p_opt' = Opts
  <2>1. rel + 1 \in 1 .. (Len(Relocs(img)) + 1)
    BY <1>1, <1>3, RelocFacts
  <2> QED
    BY <1>1, <1>2, <1>6, <1>7, <2>1 DEF LdrTypeOK, Relocs, Cells, Data, Images
<1>10. CppLoaded' => CppLoaded /\ img = "exe"
  BY <1>2 DEF CppLoaded, At
<1>11. AuxInv'
  BY <1>1, <1>2, <1>10 DEF AuxInv, At
<1>12. LinkInv'
  <2>1. ASSUME CppLoaded'
        PROVE  LinkedBefore("cpp", Len(CppRelocs) + 1)'
    <3> SUFFICES ASSUME NEW j \in DOMAIN CppRelocs
                 PROVE  cell'[CppRelocs[j].at] = cell[CppRelocs[j].at]
      BY <1>1, <1>10, <2>1 DEF LinkInv, LinkedBefore, Relocs, Expected, Data, Owner, IsFn
    <3>1. CppRelocs[j].at \in Cells
      BY <1>1, RelocFacts DEF Images, Relocs
    <3>2. CppRelocs[j].at # r.at
      BY <1>1, <1>3, <1>10, <2>1, CellsApart DEF Relocs
    <3> QED
      BY <1>6, <3>1, <3>2
  <2>2. LinkedBefore(img, rel)'
    <3> SUFFICES ASSUME NEW j \in DOMAIN Relocs(img), j < rel + 1, Relocs(img)[j].name \notin Opts
                 PROVE  cell'[Relocs(img)[j].at] = Expected(Relocs(img)[j])
      BY <1>2 DEF LinkedBefore, Relocs, Expected, Data, Owner, IsFn
    <3>1. j \in Nat /\ Relocs(img)[j].at \in Cells
      BY <1>1, <1>3, RelocFacts
    <3>2. CASE j = rel
      BY <1>6, <3>2
    <3>3. CASE j < rel
      <4>1. cell[Relocs(img)[j].at] = Expected(Relocs(img)[j])
        BY <1>2, <3>3 DEF LinkedBefore
      <4> QED
        BY <1>3, <1>4, <1>6, <3>1, <3>3, <4>1
    <3> QED
      BY <1>3, <3>1, <3>2, <3>3
  <2>3. UnsetFrom(img, rel)'
    <3> SUFFICES ASSUME NEW j \in DOMAIN Relocs(img), j >= rel + 1
                 PROVE  cell'[Relocs(img)[j].at] = Unset
      BY <1>2 DEF UnsetFrom, Relocs
    <3>1. j \in Nat /\ Relocs(img)[j].at \in Cells
      BY <1>1, <1>3, RelocFacts
    <3>2. cell[Relocs(img)[j].at] = Unset /\ j # rel
      BY <1>2, <1>3, <3>1 DEF UnsetFrom
    <3> QED
      BY <1>4, <1>6, <3>1, <3>2
  <2> QED
    BY <1>2, <2>1, <2>2, <2>3 DEF LinkInv, At
<1>13. OptInv'
  <2> SUFFICES ASSUME NEW n \in Opts
               PROVE  /\ reloc_addr'[n] \in {NIL} \cup CopyOf(n)
                      /\ img = "exe" => \A j \in DOMAIN exe :
                           j < rel + 1 /\ exe[j].kind = 5 /\ exe[j].name = n => reloc_addr'[n] # NIL
    BY <1>1, <1>2 DEF OptInv, CopyOf, Copies, CellAt, Address, Unset, At
  <2>1. reloc_addr'[n] \in {NIL} \cup CopyOf(n) /\ (reloc_addr[n] # NIL => reloc_addr'[n] # NIL)
    BY <1>1, <1>7, <1>8 DEF OptInv
  <2>2. ASSUME img = "exe", NEW j \in DOMAIN exe, j < rel + 1, exe[j].kind = 5, exe[j].name = n
        PROVE  reloc_addr'[n] # NIL
    <3>1. j \in Nat
      BY <1>1, LoaderAssumption DEF LdrTypeOK
    <3>2. CASE j = rel
      BY <1>7, <1>8, <2>2, <3>2 DEF Relocs
    <3>3. CASE j < rel
      BY <1>1, <1>2, <2>1, <2>2, <3>3 DEF OptInv
    <3> QED
      BY <1>3, <2>2, <3>1, <3>2, <3>3
  <2> QED
    BY <2>1, <2>2
<1>14. ToldInv' /\ RepInv'
  BY <1>1, <1>2 DEF ToldInv, RepInv
<1> QED
  BY <1>9, <1>11, <1>12, <1>13, <1>14 DEF LdrInv

\* After cpp.elf its table is the auxiliary one, and all of it is searched.
LEMMA EndLoadInv == LdrInv /\ EndLoad => LdrInv'
<1> SUFFICES ASSUME LdrInv, EndLoad  PROVE LdrInv'
  OBVIOUS
<1>1. LdrTypeOK /\ DOMAIN p_opt = Opts /\ AuxInv /\ LinkInv /\ OptInv /\ ToldInv /\ RepInv
  BY DEF LdrInv
<1>2. CASE img = "exe"
  <2>1. At("relocate") /\ rel > Len(exe) /\ step' = "run" /\ img' = img /\ rel' = rel
    BY <1>2 DEF EndLoad, Goto, Relocs
  <2>2. UNCHANGED <<exe, image, cell, statics, reloc_addr, told, freed>>
    BY <1>2 DEF EndLoad
  <2>3. img' \in Images /\ rel' \in 1 .. (Len(Relocs(img')) + 1)
    BY <1>1, <2>1, <2>2 DEF LdrTypeOK, Relocs
  <2> QED
    BY <1>2, <2>1, <2>2, <2>3, MoveInv
<1>3. CASE img = "cpp"
  <2>1. /\ At("relocate") /\ rel > Len(CppRelocs) /\ step' = "open" /\ img' = "exe" /\ rel' = 1
        /\ setauxsymbols /\ UNCHANGED <<exe, image, cell, reloc_addr, told, freed>> /\ told = Unset
    BY <1>1, <1>3 DEF EndLoad, Relocs, ToldInv, At
  <2>2. naux' = Cardinality(DOMAIN Cpp) /\ aux' = "cpp" /\ UNCHANGED <<p_opt, empty_rep_storage, zero>>
    BY <1>1, <2>1, AuxCount DEF setauxsymbols, AuxInv
  <2>3. LdrTypeOK' /\ DOMAIN p_opt' = Opts
    <3>1. rel' \in 1 .. (Len(Relocs(img')) + 1)
      BY <1>1, <2>1, LoaderAssumption DEF LdrTypeOK, Relocs
    <3> QED
      BY <1>1, <2>1, <2>2, <3>1, AuxCount DEF LdrTypeOK, Cells, Data, Images
  <2>4. AuxInv'
    BY <1>1, <2>1, <2>2 DEF AuxInv, At
  <2>5. LinkInv'
    <3>1. \A j \in DOMAIN CppRelocs : j < rel
      BY <1>1, <2>1, LoaderAssumption DEF LdrTypeOK
    <3>2. LinkedBefore("cpp", Len(CppRelocs) + 1)'
      BY <1>1, <1>3, <2>1, <3>1 DEF LinkInv, LinkedBefore, Relocs, Expected, Data, Owner, IsFn
    <3> QED
      BY <2>1, <3>2 DEF LinkInv, At
  <2>6. OptInv'
    BY <1>1, <2>1, <2>2 DEF OptInv, CopyOf, Copies, CellAt, Address, Unset, At
  <2>7. ToldInv' /\ RepInv'
    BY <1>1, <2>1, <2>2 DEF ToldInv, RepInv
  <2> QED
    BY <2>3, <2>4, <2>5, <2>6, <2>7 DEF LdrInv
<1> QED
  BY <1>1, <1>2, <1>3 DEF LdrTypeOK, Images

\* getopt writes to copies of its own variables, and to all of them: the first call
\* of the process has the addresses of the executable's copies.
LEMMA GetoptInv == \A v \in Values : LdrInv /\ impl_getopt(v) => LdrInv'
<1> SUFFICES ASSUME NEW v \in Values, LdrInv, impl_getopt(v)  PROVE LdrInv'
  OBVIOUS
<1> DEFINE p == [n \in Opts |-> IF p_opt[n] = NIL THEN lookup_data(n, 0) ELSE p_opt[n]]
<1>1. LdrTypeOK /\ DOMAIN p_opt = Opts /\ AuxInv /\ LinkInv /\ OptInv /\ ToldInv /\ RepInv
  BY DEF LdrInv
<1>2. /\ At("run") /\ p_opt' = p /\ told' = Opt(v)
      /\ cell' = [a \in Cells |-> IF \E n \in Opts : p[n] = CellAt(a) THEN Opt(v) ELSE cell[a]]
      /\ UNCHANGED <<exe, load, image, aux, naux, empty_rep_storage, reloc_addr, freed>>
  BY DEF impl_getopt
<1>3. UNCHANGED <<step, img, rel>>
  BY <1>2 DEF load
<1>4. ASSUME NEW n \in Opts
      PROVE  p[n] \in CopyOf(n) \/ (p[n] = Address("host", n) /\ CopyOf(n) = {})
  <2>1. lookup_data(n, 0) = IF reloc_addr[n] # NIL THEN reloc_addr[n] ELSE Address("host", n)
    BY OptFacts DEF lookup_data
  <2>2. reloc_addr[n] \in {NIL} \cup CopyOf(n) /\ (CopyOf(n) # {} => reloc_addr[n] # NIL)
    BY <1>1, <1>2 DEF OptInv
  <2>3. p_opt[n] \in {NIL} \cup CopyOf(n) \/ (p_opt[n] = Address("host", n) /\ CopyOf(n) = {})
    BY <1>1 DEF OptInv
  <2> QED
    BY <2>1, <2>2, <2>3
<1>5. \A n \in Opts, a \in Cells : p[n] = CellAt(a) => a \in Copies(exe, n)
  BY <1>4 DEF CopyOf, CellAt, Address
<1>6. ASSUME NEW im \in Images, NEW j \in DOMAIN Relocs(im), Relocs(im)[j].name \notin Opts
      PROVE  cell'[Relocs(im)[j].at] = cell[Relocs(im)[j].at]
  <2>1. Relocs(im)[j].at \in Cells
    BY <1>1, RelocFacts
  <2>2. ASSUME NEW n \in Opts, Relocs(im)[j].at \in Copies(exe, n)  PROVE FALSE
    <3>1. PICK k \in DOMAIN exe : exe[k].name = n /\ exe[k].at = Relocs(im)[j].at
      BY <2>2 DEF Copies
    <3>2. CASE im = "exe"
      <4>1. j = k
        BY <1>1, <3>1, <3>2, RelocFacts DEF Relocs, Images
      <4> QED
        BY <1>6, <3>1, <3>2, <4>1 DEF Relocs
    <3>3. CASE im = "cpp"
      BY <1>1, <3>1, <3>3, CellsApart DEF Relocs
    <3> QED
      BY <3>2, <3>3 DEF Images
  <2> QED
    BY <1>2, <1>5, <2>1, <2>2
<1>7. LdrTypeOK' /\ DOMAIN p_opt' = Opts
  BY <1>1, <1>2, <1>3 DEF LdrTypeOK, Relocs, Cells, Data, Images
<1>8. AuxInv'
  BY <1>1, <1>2, <1>3 DEF AuxInv, CppLoaded, At
<1>9. LinkInv'
  <2>1. LinkedBefore("cpp", Len(CppRelocs) + 1) /\ LinkedBefore("exe", Len(exe) + 1) /\ img = "exe"
    BY <1>1, <1>2 DEF LinkInv, CppLoaded
  <2>2. LinkedBefore("cpp", Len(CppRelocs) + 1)' /\ LinkedBefore("exe", Len(exe) + 1)'
    BY <1>2, <1>6, <2>1 DEF LinkedBefore, Relocs, Images, Expected, Data, Owner, IsFn
  <2> QED
    BY <1>2, <1>3, <2>1, <2>2 DEF LinkInv, At
<1>10. OptInv'
  <2> SUFFICES ASSUME NEW n \in Opts
               PROVE  /\ (p[n] \in CopyOf(n) \/ (p[n] = Address("host", n) /\ CopyOf(n) = {}))
                      /\ \A a \in Copies(exe, n) : cell'[a] = Opt(v)
    <3>1. ~At("relocate")' /\ (At("run")' <=> At("run")) /\ told' = Opt(v)
      BY <1>2, <1>3 DEF At
    <3>2. \A n \in Opts : CopyOf(n)' = CopyOf(n) /\ Copies(exe, n)' = Copies(exe, n)
      BY <1>2 DEF CopyOf, Copies, CellAt, Address
    <3> QED
      BY <1>1, <1>2, <3>1, <3>2 DEF OptInv, Address, NIL
  <2>1. ASSUME NEW a \in Copies(exe, n)  PROVE cell'[a] = Opt(v)
    <3>1. PICK b \in Copies(exe, n) : p[n] = CellAt(b)
      BY <1>4, <2>1 DEF CopyOf
    <3>2. a = b
      BY <1>1, <2>1, <3>1, LoaderAssumption DEF LdrTypeOK
    <3>3. a \in Cells
      BY <2>1 DEF Copies, Cells, CellsOf
    <3> QED
      BY <1>2, <3>1, <3>2, <3>3
  <2> QED
    BY <1>4, <2>1
<1>11. ToldInv' /\ RepInv'
  BY <1>1, <1>2, <1>3 DEF ToldInv, RepInv, At
<1> QED
  BY <1>7, <1>8, <1>9, <1>10, <1>11 DEF LdrInv

\* A program runs only when cpp.elf's table is searched, so the library's
\* empty string is found; it is then never given to the heap.
LEMMA FreeInv ==
  \A ptr \in Reps \cup {Address("cpp", Rep), Heap} : LdrInv /\ impl_free(ptr) => LdrInv'
<1> SUFFICES ASSUME NEW ptr \in Reps \cup {Address("cpp", Rep), Heap}, LdrInv, impl_free(ptr)
             PROVE  LdrInv'
  OBVIOUS
<1> DEFINE rep == IF empty_rep_storage = NIL THEN lookup_data(Rep, 1) ELSE empty_rep_storage
<1>1. LdrTypeOK /\ DOMAIN p_opt = Opts /\ AuxInv /\ LinkInv /\ OptInv /\ ToldInv /\ RepInv
  BY DEF LdrInv
<1>2. /\ At("run") /\ empty_rep_storage' = rep
      /\ freed' = IF ptr = CellAt(RepCell) \/ ptr = rep THEN freed ELSE ptr
      /\ UNCHANGED <<exe, load, image, cell, aux, naux, p_opt, zero, reloc_addr, told>>
  BY DEF impl_free
<1>3. rep = Address("cpp", Rep)
  <2>1. naux = Cardinality(DOMAIN Cpp)
    BY <1>1, <1>2 DEF AuxInv, CppLoaded
  <2>2. Rep \in DOMAIN Cpp /\ Rep \notin DOMAIN Host /\ Cpp[Rep] = "data"
    BY LoaderAssumption
  <2>3. lookup(Rep) = "cpp" /\ Found(Rep)
    BY <2>1, <2>2, AuxCount DEF lookup, Found, IsFn
  <2>4. lookup_data(Rep, 1) = Address("cpp", Rep)
    BY <2>3 DEF lookup_data
  <2> QED
    BY <1>1, <2>4 DEF RepInv
<1>4. RepInv'
  BY <1>1, <1>2, <1>3 DEF RepInv, Heap, Address
<1>5. UNCHANGED <<step, img, rel>>
  BY <1>2 DEF load
<1>6. LdrTypeOK' /\ DOMAIN p_opt' = Opts /\ AuxInv' /\ ToldInv'
  BY <1>1, <1>2, <1>5 DEF LdrTypeOK, Relocs, Cells, Data, Images, AuxInv, CppLoaded, At, ToldInv
<1>7. LinkInv'
  BY <1>1, <1>2, <1>5
  DEF LinkInv, CppLoaded, At, LinkedBefore, UnsetFrom, Relocs, Expected, Data, Owner, IsFn
<1>8. OptInv'
  BY <1>1, <1>2, <1>5 DEF OptInv, CopyOf, Copies, CellAt, Address, Unset, At
<1> QED
  BY <1>4, <1>6, <1>7, <1>8 DEF LdrInv

LEMMA LdrInductive == LdrSpec => []LdrInv
<1>1. LdrInv /\ [LdrNext]_ldrVars => LdrInv'
  <2> SUFFICES ASSUME LdrInv, [LdrNext]_ldrVars  PROVE LdrInv'
    OBVIOUS
  <2>1. LdrTypeOK /\ LinkInv /\ ToldInv
    BY DEF LdrInv
  <2>2. CASE main
    <3>1. rel' \in 1 .. (Len(Relocs(img')) + 1)
      BY <2>2, LoaderAssumption DEF main, Relocs
    <3> QED
      BY <2>2, <3>1, MoveInv DEF main, Images
  <2>3. CASE OpenImage
    <3>1. ASSUME ~Return1
          PROVE  /\ At("open") /\ step' = "map" /\ img' = img /\ rel' = rel
                 /\ UNCHANGED <<exe, image, cell, statics, reloc_addr, told, freed>>
      BY <2>3, <3>1 DEF OpenImage, Goto
    <3>2. ASSUME ~Return1
          PROVE  /\ rel' = 1 /\ told' = Unset /\ (img = "exe" => CppLoaded)
                 /\ img' \in Images /\ rel' \in 1 .. (Len(Relocs(img')) + 1)
      BY <2>1, <3>1, <3>2 DEF LinkInv, ToldInv, CppLoaded, At, LdrTypeOK, Relocs
    <3> QED
      BY <3>1, <3>2, MoveInv, Return1Inv
  <2>4. CASE CallStub
    BY <2>1, <2>4, MoveInv DEF CallStub, Goto, LdrTypeOK, Relocs
  <2>5. CASE Exit
    BY <2>5, Return1Inv DEF Exit
  <2>6. CASE UNCHANGED ldrVars
    <3>1. UNCHANGED <<exe, step, img, rel, image, cell, statics, reloc_addr, told, freed>>
      BY <2>6 DEF ldrVars, load
    <3>2. (LdrTypeOK /\ DOMAIN p_opt = Opts /\ AuxInv /\ ToldInv /\ RepInv)'
      BY <3>1
      DEF LdrInv, statics, LdrTypeOK, Relocs, Cells, Data, Images, AuxInv, CppLoaded, At, ToldInv, RepInv
    <3>3. LinkInv'
      BY <2>1, <3>1
      DEF LinkInv, CppLoaded, At, LinkedBefore, UnsetFrom, Relocs, Expected, Data, Owner, IsFn
    <3>4. OptInv'
      BY <3>1 DEF LdrInv, statics, OptInv, CopyOf, Copies, CellAt, Address, Unset, At
    <3> QED
      BY <3>2, <3>3, <3>4 DEF LdrInv
  <2> QED
    BY <2>2, <2>3, <2>4, <2>5, <2>6, MapImageInv, ReadSegmentsInv, RelocateInv, EndLoadInv,
       GetoptInv, FreeInv
    DEF LdrNext
<1> QED
  BY <1>1, InitLdr, PTL DEF LdrSpec

\* main.c, ldr.c: step, image and relocation of a load are always ones of its files; a
\* copied variable's address is a cell of an image.
THEOREM LoadTypeCorrect == LdrSpec => []LdrTypeOK
<1>1. LdrInv => LdrTypeOK
  BY DEF LdrInv
<1> QED
  BY <1>1, LdrInductive, PTL

\* lookup.c: setauxsymbols starts its count where the last run has left it, yet after any
\* runs and failed loads the count is cpp.elf's length, and the table has been read
\* whenever a relocation is looked up in it.
THEOREM AuxTableRead == LdrSpec => []AuxTable
<1>1. LdrInv => AuxTable
  BY AuxCount DEF LdrInv, AuxInv, AuxTable, At
<1> QED
  BY <1>1, LdrInductive, PTL

\* ldr.c: whatever runs, failed loads and aborted runs came before, a program that runs
\* has in each relocated cell of both images what the two tables say of its name.
THEOREM RunsLinkedAlike == LdrSpec => []Linked
<1>1. LdrInv => Linked
  <2> SUFFICES ASSUME LdrInv, step = "run", NEW im \in Images, NEW j \in DOMAIN Relocs(im),
                      Relocs(im)[j].name \notin Opts
               PROVE  cell[Relocs(im)[j].at] = Expected(Relocs(im)[j])
    BY DEF Linked
  <2>1. LinkedBefore("cpp", Len(CppRelocs) + 1) /\ LinkedBefore("exe", Len(exe) + 1)
    BY DEF LdrInv, LinkInv, CppLoaded, At
  <2>2. j < Len(Relocs(im)) + 1
    BY RelocFacts DEF LdrInv
  <2> QED
    BY <2>1, <2>2 DEF LinkedBefore, Images, Relocs
<1> QED
  BY <1>1, LdrInductive, PTL

\* glue.c: impl_getopt keeps the addresses of its first call for all runs of the process;
\* the program's own optarg, optind... still have, in each run, the values it has set.
THEOREM GetoptFindsCopies == LdrSpec => []GetoptReaches
<1>1. LdrInv => GetoptReaches
  BY DEF LdrInv, OptInv, GetoptReaches
<1> QED
  BY <1>1, LdrInductive, PTL

\* glue.c: impl_free keeps the address of its first call too; in every run the library's
\* empty string, whatever copies of it the executable has, is never given to the heap.
THEOREM EmptyStringsKept == LdrSpec => []RepsKept
<1>1. LdrInv => RepsKept
  BY DEF LdrInv, RepInv, RepsKept
<1> QED
  BY <1>1, LdrInductive, PTL

-----------------------------------------------------------------------------
(* The loader's lookup *)

NamesOf(T) == {T.name[i] : i \in 0 .. T.n - 1}

\* The tables are the loader's, of which setauxsymbols has counted the second or not.
LoaderTables ==
  /\ NamesOf(tables[1]) = DOMAIN Host
  /\ NamesOf(tables[2]) = IF naux >= Cardinality(DOMAIN Cpp) THEN DOMAIN Cpp ELSE {}

\* lookup.c: with both tables sorted, what the bisection returns is what the loader takes
\* it for: the host's symbol if there is one, else cpp.elf's once it has been counted.
THEOREM LoaderLooksUp ==
  ASSUME AllSorted
  PROVE  Spec => [](pc = "done" /\ LoaderTables =>
                      lookup(name) = CASE result = NotFound -> "none"
                                       [] result # NotFound /\ result[1] = 1 -> "host"
                                       [] result # NotFound /\ result[1] = 2 -> "cpp")
<1>1. IInv => (pc = "done" /\ LoaderTables =>
                 lookup(name) = CASE result = NotFound -> "none"
                                  [] result # NotFound /\ result[1] = 1 -> "host"
                                  [] result # NotFound /\ result[1] = 2 -> "cpp")
  <2> SUFFICES ASSUME DoneInv, LoaderTables
               PROVE  lookup(name) = CASE result = NotFound -> "none"
                                       [] result # NotFound /\ result[1] = 1 -> "host"
                                       [] result # NotFound /\ result[1] = 2 -> "cpp"
    BY DEF IInv
  <2>1. CASE result = NotFound /\ Absent(tables[1]) /\ Absent(tables[2])
    <3>1. name \notin DOMAIN Host /\ (naux >= Cardinality(DOMAIN Cpp) => name \notin DOMAIN Cpp)
      BY <2>1 DEF LoaderTables, NamesOf, Absent
    <3> QED
      BY <2>1, <3>1 DEF lookup
  <2>2. ASSUME NEW t \in {1, 2}, NEW i \in 0 .. tables[t].n - 1,
               result = <<t, i>>, tables[t].name[i] = name, t = 2 => Absent(tables[1])
        PROVE  lookup(name) = CASE result = NotFound -> "none"
                                [] result # NotFound /\ result[1] = 1 -> "host"
                                [] result # NotFound /\ result[1] = 2 -> "cpp"
    <3>1. result # NotFound /\ result[1] = t
      BY <2>2 DEF NotFound
    <3>2. CASE t = 1
      <4>1. name \in DOMAIN Host
        BY <2>2, <3>2 DEF LoaderTables, NamesOf
      <4> QED
        BY <3>1, <3>2, <4>1 DEF lookup
    <3>3. CASE t = 2
      <4>1. name \notin DOMAIN Host /\ name \in NamesOf(tables[2])
        BY <2>2, <3>3 DEF LoaderTables, NamesOf, Absent
      <4>2. naux >= Cardinality(DOMAIN Cpp) /\ name \in DOMAIN Cpp
        BY <4>1 DEF LoaderTables
      <4> QED
        BY <3>1, <3>3, <4>1, <4>2 DEF lookup
    <3> QED
      BY <3>2, <3>3
  <2> QED
    BY <2>1, <2>2 DEF DoneInv
<1> QED
  BY <1>1, InvAlways, PTL
=============================================================================
