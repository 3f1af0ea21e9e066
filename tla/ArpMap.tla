--------------------------------- MODULE ArpMap ---------------------------------
(***************************************************************************)
(* The ARP table of src/ldr/map.c: a hash table from the address of a peer  *)
(* to its MAC, as operators on a table.  A chain is the set of its entries, *)
(* whose order nothing depends on because no address is entered twice.  The *)
(* array of buckets comes from malloc and is not cleared, so a chain may    *)
(* end in a pointer nobody wrote.                                           *)
(***************************************************************************)
EXTENDS Integers

CONSTANTS
  Peers,  \* hosts of the virtual network; a peer stands for its address
  Macs,
  NoMac,
  Hash    \* an address, exclusive-or MASK

ASSUME ArpMapAssumption ==
  /\ NoMac \notin Macs
  /\ Hash \in [Peers -> Nat]

\* data, l and cap; wild has the buckets whose chain ends in a wild pointer.
NoTable == [l |-> 0, cap |-> 0, data |-> <<>>, wild |-> {}]

hsh(t, p) == Hash[p] % t.cap
Chain(t, p) == t.data[hsh(t, p)]
Entered(t, p) == t.cap # 0 /\ \E m \in Macs : <<p, m>> \in Chain(t, p)

\* The search for an address that is not there follows the wild pointer.
Wild(t, p) == t.cap # 0 /\ ~Entered(t, p) /\ hsh(t, p) \in t.wild

\* Mutant: the first entry of the bucket is taken without a look at its key.
get_mac_for_ip_NoKey(t, p) ==
  IF t.cap = 0 \/ Chain(t, p) = {} THEN NoMac ELSE (CHOOSE e \in Chain(t, p) : TRUE)[2]

\* NoMac stands for the return value 0.
get_mac_for_ip(t, p) ==
  IF Entered(t, p) THEN CHOOSE m \in Macs : <<p, m>> \in Chain(t, p) ELSE NoMac

\* The tables growing can leave: the entries in the buckets of their new hashes, and a
\* wild pointer wherever the memory was not clear.
Entries(t) == UNION {t.data[i] : i \in DOMAIN t.data}
Rehashed(t, ll) ==
  {[l |-> t.l, cap |-> ll, wild |-> w,
    data |-> [i \in 0 .. ll - 1 |-> {e \in Entries(t) : Hash[e[1]] % ll = i}]] :
    w \in SUBSET (0 .. ll - 1)}
Grown(t) == Rehashed(t, 2 * t.cap + 1)

\* The entry of p is changed or pushed on its chain.
Enter(t, p, m) ==
  [l |-> t.l, cap |-> t.cap, wild |-> t.wild,
   data |-> [t.data EXCEPT ![hsh(t, p)] = {e \in @ : e[1] # p} \cup {<<p, m>>}]]

\* The tables set_mac_for_ip can leave, if its search does not go wild.  Nothing ever
\* increments l, so only the table without buckets grows.
set_mac_for_ip(t, p, m) ==
  {Enter(u, p, m) : u \in IF ~Entered(t, p) /\ t.l = 2 * t.cap THEN Grown(t) ELSE {t}}

\* The tables there can be, and those that calls with these addresses and MACs leave.
Tables ==
  {NoTable} \cup
  [l : {0}, cap : {1}, wild : SUBSET {0}, data : [{0} -> (SUBSET (Peers \X Macs)) \ {{}}]]
Holds(t, f) == \A p \in Peers, m \in Macs : <<p, m>> \in Entries(t) <=> f[p] = m
TablesOf(f) == {t \in Tables : Holds(t, f)}
=================================================================================
