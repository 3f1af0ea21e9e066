---------------------------- MODULE EventLoopProofs ----------------------------
(***************************************************************************)
(* What the event loop promises, for any number of sockets, peers and MACs: *)
(* the fd_sets cover what the program asked for and hold nothing else but   *)
(* what was closed before it was removed, and a packet goes to the MAC      *)
(* announced last.  The inductive invariant relates the sets to the         *)
(* program's registrations, and the ARP table, through its one growth, to   *)
(* the history of announcements.                                            *)
(***************************************************************************)
EXTENDS EventLoop, TLAPS

-----------------------------------------------------------------------------
(* The ARP table *)

\* A table that has grown has one bucket, and nothing else is left to grow.
LEMMA OneBucket ==
  ASSUME NEW t \in Tables, t.cap # 0, NEW p \in Peers
  PROVE  /\ hsh(t, p) = 0 /\ t.l = 0 /\ t.cap = 1 /\ t.wild \in SUBSET {0}
         /\ Entries(t) = t.data[0] /\ t.data \in [{0} -> SUBSET (Peers \X Macs)]
<1>1. /\ t.cap = 1 /\ t.l = 0 /\ t.data \in [{0} -> SUBSET (Peers \X Macs)]
      /\ t.wild \in SUBSET {0}
  BY DEF Tables, NoTable
<1>2. hsh(t, p) = 0
  BY <1>1, ArpMapAssumption DEF hsh
<1>3. Entries(t) = t.data[0]
  BY <1>1 DEF Entries
<1> QED
  BY <1>1, <1>2, <1>3

\* map.c: a lookup finds what Holds says the table holds.
LEMMA GetHeld ==
  ASSUME NEW t \in Tables, NEW f \in [Peers -> Macs \cup {NoMac}], Holds(t, f), NEW p \in Peers
  PROVE  get_mac_for_ip(t, p) = f[p]
<1>1. CASE t.cap = 0
  <2>1. Entries(t) = {}
    BY <1>1 DEF Tables, NoTable, Entries
  <2>2. f[p] = NoMac
    BY <2>1 DEF Holds
  <2> QED
    BY <1>1, <2>2 DEF get_mac_for_ip, Entered
<1>2. CASE t.cap # 0
  <2>1. Chain(t, p) = Entries(t)
    BY <1>2, OneBucket DEF Chain
  <2>2. CASE f[p] = NoMac
    BY <2>1, <2>2, ArpMapAssumption DEF get_mac_for_ip, Entered, Holds
  <2>3. CASE f[p] \in Macs
    <3>1. Entered(t, p)
      BY <1>2, <2>1, <2>3 DEF Entered, Holds
    <3>2. \A m \in Macs : <<p, m>> \in Chain(t, p) <=> m = f[p]
      BY <2>1, <2>3 DEF Holds
    <3> QED
      BY <3>1, <3>2, <2>3 DEF get_mac_for_ip
  <2> QED
    BY <2>2, <2>3
<1> QED
  BY <1>1, <1>2

\* map.c: an entry in a table of one bucket.
LEMMA EnterHeld ==
  ASSUME NEW w \in SUBSET {0}, NEW E \in SUBSET (Peers \X Macs), NEW t,
         t = [l |-> 0, cap |-> 1, wild |-> w, data |-> [i \in {0} |-> E]],
         NEW f \in [Peers -> Macs \cup {NoMac}],
         \A p \in Peers, m \in Macs : <<p, m>> \in E <=> f[p] = m,
         NEW q \in Peers, NEW mac \in Macs
  PROVE  Enter(t, q, mac) \in Tables /\ Holds(Enter(t, q, mac), [f EXCEPT ![q] = mac])
<1> DEFINE F == {e \in E : e[1] # q} \cup {<<q, mac>>}
           D == [i \in {0} |-> F]
           u == [l |-> 0, cap |-> 1, wild |-> w, data |-> D]
<1>1. hsh(t, q) = 0
  BY ArpMapAssumption DEF hsh
<1>2. Enter(t, q, mac) = u
  <2>1. [t.data EXCEPT ![hsh(t, q)] = {e \in @ : e[1] # q} \cup {<<q, mac>>}] = D
    BY <1>1
  <2> QED
    BY <2>1 DEF Enter
<1>3. F \in (SUBSET (Peers \X Macs)) \ {{}}
  <2> DEFINE G == {e \in E : e[1] # q}
             S == Peers \X Macs
  <2>1. <<q, mac>> \in S /\ G \subseteq S
    OBVIOUS
  <2> HIDE DEF G, S
  <2>2. G \cup {<<q, mac>>} \in (SUBSET S) \ {{}}
    BY <2>1
  <2> QED
    BY <2>2 DEF G, S
<1>4. \A p \in Peers, m \in Macs : <<p, m>> \in F <=> [f EXCEPT ![q] = mac][p] = m
  OBVIOUS
<1>5. D \in [{0} -> (SUBSET (Peers \X Macs)) \ {{}}] /\ D[0] = F
  BY <1>3
<1> HIDE DEF F, D
<1>6. u \in Tables
  BY <1>5 DEF Tables
<1>7. Entries(u) = F
  BY <1>5 DEF Entries
<1> QED
  BY <1>2, <1>4, <1>6, <1>7, Zenon DEF Holds

\* map.c: set_mac_for_ip, with or without growth, changes what is held of one address.
LEMMA SetHeld ==
  ASSUME NEW t \in Tables, NEW f \in [Peers -> Macs \cup {NoMac}], Holds(t, f),
         NEW q \in Peers, NEW mac \in Macs, NEW u \in set_mac_for_ip(t, q, mac)
  PROVE  u \in Tables /\ Holds(u, [f EXCEPT ![q] = mac])
<1>1. CASE t.cap = 0
  <2>1. /\ t = NoTable /\ Entries(t) = {} /\ ~Entered(t, q)
    BY <1>1 DEF Tables, NoTable, Entries, Entered
  <2>2. u \in {Enter(v, q, mac) : v \in Rehashed(t, 1)}
    <3>1. 2 * t.cap + 1 = 1 /\ t.l = 2 * t.cap
      BY <2>1 DEF NoTable
    <3> QED
      BY <2>1, <3>1, Zenon DEF set_mac_for_ip, Grown
  <2>3. Rehashed(t, 1) = {[l |-> 0, cap |-> 1, wild |-> w, data |-> [i \in {0} |-> {}]] :
                          w \in SUBSET {0}}
    <3>1. 0 .. (1 - 1) = {0} /\ t.l = 0
      BY <2>1 DEF NoTable
    <3>2. \A i : {e \in Entries(t) : Hash[e[1]] % 1 = i} = {}
      BY <2>1
    <3>3. [i \in {0} |-> {e \in Entries(t) : Hash[e[1]] % 1 = i}] = [i \in {0} |-> {}]
      BY <3>2
    <3> QED
      BY <3>1, <3>3, Zenon DEF Rehashed
  <2>4. PICK w \in SUBSET {0} :
          u = Enter([l |-> 0, cap |-> 1, wild |-> w, data |-> [i \in {0} |-> {}]], q, mac)
    BY <2>2, <2>3, Zenon
  <2>5. \A p \in Peers, m \in Macs : <<p, m>> \in {} <=> f[p] = m
    BY <2>1, Zenon DEF Holds
  <2>6. {} \in SUBSET (Peers \X Macs)
    OBVIOUS
  <2> QED
    BY <2>4, <2>5, <2>6, EnterHeld, Zenon
<1>2. CASE t.cap # 0
  <2>0. /\ t.l = 0 /\ t.cap = 1 /\ t.wild \in SUBSET {0} /\ Entries(t) = t.data[0]
        /\ t.data \in [{0} -> SUBSET (Peers \X Macs)]
    BY <1>2, OneBucket, Zenon
  <2> DEFINE w == t.wild
             E == t.data[0]
  <2>1. t = [l |-> 0, cap |-> 1, wild |-> w, data |-> [i \in {0} |-> E]]
    BY <1>2 DEF Tables, NoTable
  <2>2. u = Enter(t, q, mac)
    BY <2>0 DEF set_mac_for_ip
  <2>3. \A p \in Peers, m \in Macs : <<p, m>> \in E <=> f[p] = m
    <3>1. \A p \in Peers, m \in Macs : <<p, m>> \in Entries(t) <=> f[p] = m
      BY Zenon DEF Holds
    <3>2. Entries(t) = E
      BY <2>0
    <3> QED
      BY <3>1, <3>2, Zenon
  <2>4. E \in SUBSET (Peers \X Macs) /\ w \in SUBSET {0}
    BY <2>0
  <2> HIDE DEF w, E
  <2>5. Enter(t, q, mac) \in Tables /\ Holds(Enter(t, q, mac), [f EXCEPT ![q] = mac])
    BY <2>1, <2>3, <2>4, EnterHeld, Zenon
  <2> QED
    BY <2>2, <2>5, Zenon
<1> QED
  BY <1>1, <1>2

-----------------------------------------------------------------------------
(* The inductive invariant *)

\* The program registers open descriptors only, and what select watches is registered,
\* or was closed while it was.
OpenRegistered == \A i \in interest : i[1] \in open
WatchedRegistered == \A fd \in (epoll_in \cup epoll_out) \ unremoved : Registered(fd)

Inv ==
  /\ TypeOK /\ WantedWatched /\ OpenRegistered /\ WatchedRegistered
  /\ Holds(arp, announced) /\ SentToLastMac

LEMMA InitInv == Init => Inv
<1> SUFFICES ASSUME Init PROVE Inv
  OBVIOUS
<1>1. TypeOK
  BY EventLoopAssumption
  DEF Init, TypeOK, TablesOf, NoFrame, OutFrames, Fds, Events, Frames
<1>2. WantedWatched /\ OpenRegistered /\ WatchedRegistered
  BY DEF Init, WantedWatched, OpenRegistered, WatchedRegistered
<1>3. Holds(arp, announced)
  BY Zenon DEF Init, TablesOf
<1>4. SentToLastMac
  BY DEF Init, SentToLastMac, NoFrame
<1> QED
  BY <1>1, <1>2, <1>3, <1>4 DEF Inv

-----------------------------------------------------------------------------
(* Registrations *)

EpollInv == WantedWatched /\ OpenRegistered /\ WatchedRegistered

\* The steps that register: the events of the mask are asked for and watched.
LEMMA RegisterStep ==
  ASSUME Inv, NEW fd \in Fds, NEW E \in Masks[fd],
         epoll_ctl_add(fd, E) \/ epoll_ctl_mod(fd, E)
  PROVE  /\ EpollInv' /\ interest' \subseteq Events /\ unremoved' \subseteq Socks
         /\ epoll_in' \subseteq Fds /\ epoll_out' \subseteq Fds
<1>1. E \subseteq {EPOLLIN, EPOLLOUT} /\ E # {}
  BY EventLoopAssumption
<1>2. PICK e \in E : e \in {EPOLLIN, EPOLLOUT}
  BY <1>1
<1>3. <<fd, e>> \in interest' /\ fd \in open /\ open' = open /\ unremoved' = unremoved
  BY <1>2 DEF epoll_ctl_add, epoll_ctl_mod, Asked
<1>4. /\ interest' \subseteq interest \cup Asked(fd, E)
      /\ \A i \in interest : i[1] # fd => i \in interest'
  BY DEF epoll_ctl_add, epoll_ctl_mod, Others
<1>5. Asked(fd, E) \subseteq Events /\ \A i \in Asked(fd, E) : i[1] = fd /\ i[2] \in E
  BY <1>1 DEF Asked, Events
<1>6. interest' \subseteq Events
  BY <1>4, <1>5 DEF Inv, TypeOK
<1>7. /\ epoll_in \subseteq epoll_in' /\ epoll_in' \subseteq epoll_in \cup {fd}
      /\ epoll_out \subseteq epoll_out' /\ epoll_out' \subseteq epoll_out \cup {fd}
      /\ EPOLLIN \in E => fd \in epoll_in'
      /\ EPOLLOUT \in E => fd \in epoll_out'
  BY DEF epoll_ctl_add, epoll_ctl_mod, epoll_ctl_set
<1>8. WantedWatched'
  <2> SUFFICES ASSUME NEW i \in interest'
               PROVE  i[1] \in (IF i[2] = EPOLLIN THEN epoll_in' ELSE epoll_out')
    BY DEF WantedWatched
  <2>1. CASE i \in interest
    BY <2>1, <1>7 DEF Inv, WantedWatched
  <2>2. CASE i \in Asked(fd, E)
    BY <2>2, <1>1, <1>5, <1>7
  <2> QED
    BY <1>4, <2>1, <2>2
<1>9. OpenRegistered'
  BY <1>3, <1>4, <1>5 DEF Inv, OpenRegistered
<1>10. WatchedRegistered'
  <2> SUFFICES ASSUME NEW d \in (epoll_in' \cup epoll_out') \ unremoved'
               PROVE  \E x \in {EPOLLIN, EPOLLOUT} : <<d, x>> \in interest'
    BY DEF WatchedRegistered, Registered
  <2>1. CASE d = fd
    BY <2>1, <1>2, <1>3
  <2>2. CASE d # fd
    BY <2>2, <1>3, <1>4, <1>7 DEF Inv, WatchedRegistered, Registered
  <2> QED
    BY <2>1, <2>2
<1> QED
  BY <1>3, <1>6, <1>7, <1>8, <1>9, <1>10 DEF Inv, TypeOK, EpollInv

\* The steps that remove a registration.
LEMMA RemoveStep ==
  ASSUME Inv, NEW s \in Socks, epoll_ctl_del(s) \/ close(s)
  PROVE  /\ EpollInv' /\ interest' \subseteq Events /\ open' \subseteq Fds
         /\ epoll_in' \subseteq Fds /\ epoll_out' \subseteq Fds /\ unremoved' \subseteq Socks
<1>1. interest' = Others(s) /\ open \ {s} \subseteq open' /\ open' \subseteq open
  BY DEF epoll_ctl_del, close
<1>2. /\ \A d : d # s => (d \in epoll_in' <=> d \in epoll_in)
      /\ \A d : d # s => (d \in epoll_out' <=> d \in epoll_out)
      /\ \A d : d # s => (d \in unremoved' <=> d \in unremoved)
      /\ epoll_in' \subseteq epoll_in /\ epoll_out' \subseteq epoll_out
      /\ unremoved' \subseteq Socks
  BY DEF epoll_ctl_del, close, Inv, TypeOK
<1>3. WantedWatched' /\ OpenRegistered'
  BY <1>1, <1>2 DEF Inv, WantedWatched, OpenRegistered, Others
<1>4. WatchedRegistered'
  <2> SUFFICES ASSUME NEW d \in (epoll_in' \cup epoll_out') \ unremoved'
               PROVE  \E x \in {EPOLLIN, EPOLLOUT} : <<d, x>> \in interest'
    BY DEF WatchedRegistered, Registered
  <2>1. d # s
    <3>1. CASE epoll_ctl_del(s)
      BY <3>1 DEF epoll_ctl_del
    <3>2. CASE close(s)
      <4>1. /\ epoll_in' = epoll_in /\ epoll_out' = epoll_out
            /\ Registered(s) => unremoved' = unremoved \cup {s}
            /\ ~Registered(s) => unremoved' = unremoved
        BY <3>2 DEF close
      <4> QED
        BY <4>1 DEF Inv, WatchedRegistered
    <3> QED
      BY <3>1, <3>2
  <2>2. PICK x \in {EPOLLIN, EPOLLOUT} : <<d, x>> \in interest
    BY <1>2, <2>1 DEF Inv, WatchedRegistered, Registered
  <2> QED
    BY <1>1, <2>1, <2>2 DEF Others
<1> QED
  BY <1>1, <1>2, <1>3, <1>4 DEF Inv, TypeOK, EpollInv, Others

-----------------------------------------------------------------------------
(* Frames *)

LEMMA ReadType ==
  ASSUME Inv, HandleTun
  PROVE  /\ rx' \in Seq(Peers \cup {Brd, Runt}) /\ Len(rx') <= RxBuf
         /\ out' \in OutFrames \cup {NoFrame} /\ SentToLastMac'
         /\ asked' \subseteq Peers /\ fake' \in Claims \cup {NoClaim} /\ fault' \in {"none", "wild"}
<1>0. tuntap_read /\ Inv /\ announced' = announced
  BY DEF HandleTun, tuntap_read
<1>1. CASE fake # NoClaim
  <2>1. /\ out' = <<"arp_rep", fake[1], fake[2]>> /\ fake' = NoClaim
        /\ rx' = rx /\ asked' = asked /\ fault' = fault
    BY <1>0, <1>1 DEF tuntap_read
  <2>2. fake[1] \in Peers /\ fake[2] \in Macs
    BY <1>1, EventLoopAssumption DEF Inv, TypeOK
  <2> QED
    BY <2>1, <2>2 DEF Inv, TypeOK, OutFrames, SentToLastMac
<1>2. CASE fake = NoClaim /\ rx = <<>>
  BY <1>0, <1>2 DEF tuntap_read, Inv, TypeOK, SentToLastMac, NoFrame
<1>3. CASE fake = NoClaim /\ rx # <<>>
  <2> DEFINE dst == Head(rx)
  <2>1. dst \in Peers \cup {Brd, Runt} /\ fake' = fake
    BY <1>0, <1>3 DEF tuntap_read, Inv, TypeOK
  <2>2. CASE dst \in Peers /\ Wild(arp, dst)
    <3>1. fault' = "wild" /\ rx' = rx /\ out' = out /\ asked' = asked
      BY <1>0, <1>3, <2>2 DEF tuntap_read
    <3> QED
      BY <1>0, <2>1, <3>1 DEF Inv, TypeOK, SentToLastMac
  <2>3. CASE ~(dst \in Peers /\ Wild(arp, dst))
    <3>1. ReadDevice(dst) /\ fault' = fault
      BY <1>0, <1>3, <2>3 DEF tuntap_read
    <3>2. rx' \in Seq(Peers \cup {Brd, Runt}) /\ Len(rx') <= RxBuf
      BY <1>3, <3>1, EventLoopAssumption DEF ReadDevice, Inv, TypeOK
    <3>3. CASE dst = Runt
      BY <1>0, <2>1, <3>1, <3>2, <3>3 DEF ReadDevice, Inv, TypeOK, SentToLastMac, NoFrame
    <3>4. CASE dst = Brd
      BY <1>0, <2>1, <3>1, <3>2, <3>4, EventLoopAssumption
      DEF ReadDevice, Inv, TypeOK, SentToLastMac, OutFrames
    <3>5. CASE dst \in Peers
      <4>1. get_mac_for_ip(arp, dst) = announced[dst]
        BY <1>0, <3>5, GetHeld DEF Inv, TypeOK
      <4>2. dst # Runt /\ dst # Brd
        BY <3>5, EventLoopAssumption
      <4>3. out' = IF announced[dst] = NoMac THEN <<"arp_req", dst, Brd>>
                   ELSE <<"ip", dst, announced[dst]>>
        BY <3>1, <4>1, <4>2 DEF ReadDevice
      <4>4. announced[dst] \in Macs \cup {NoMac}
        BY <1>0, <3>5 DEF Inv, TypeOK
      <4>5. out' \in OutFrames /\ SentToLastMac'
        BY <1>0, <3>5, <4>3, <4>4 DEF OutFrames, SentToLastMac
      <4>6. asked' \subseteq Peers
        BY <3>1, <3>5 DEF ReadDevice, Inv, TypeOK
      <4> QED
        BY <1>0, <2>1, <3>1, <3>2, <4>5, <4>6 DEF Inv, TypeOK
    <3> QED
      BY <2>1, <3>3, <3>4, <3>5
  <2> QED
    BY <2>2, <2>3
<1> QED
  BY <1>1, <1>2, <1>3

LEMMA WriteType ==
  ASSUME Inv, NEW s \in Socks, HandleSock(s)
  PROVE  /\ inbox' \in [Socks -> Seq(Frames)] /\ \A x \in Socks : Len(inbox'[x]) <= SockBuf
         /\ arp' \in Tables /\ announced' \in [Peers -> Macs \cup {NoMac}]
         /\ Holds(arp', announced')
         /\ fake' \in Claims \cup {NoClaim} /\ fault' \in {"none", "wild"}
<1>1. CASE inbox[s] = <<>>
  <2>1. UNCHANGED <<inbox, arp, announced, fake, fault>>
    BY <1>1 DEF HandleSock, tapVars
  <2> QED
    BY <2>1 DEF Inv, TypeOK
<1>2. CASE inbox[s] # <<>>
  <2> DEFINE f == Head(inbox[s])
  <2>1. inbox' = [inbox EXCEPT ![s] = Tail(@)] /\ tuntap_write(f)
    BY <1>2 DEF HandleSock
  <2>2. inbox[s] \in Seq(Frames) /\ inbox[s] # <<>> /\ Len(inbox[s]) <= SockBuf
    BY <1>2 DEF Inv, TypeOK
  <2>3. f \in Frames /\ Tail(inbox[s]) \in Seq(Frames) /\ Len(Tail(inbox[s])) <= SockBuf
    BY <2>2, EventLoopAssumption
  <2>4. inbox' \in [Socks -> Seq(Frames)] /\ \A x \in Socks : Len(inbox'[x]) <= SockBuf
    BY <2>1, <2>3 DEF Inv, TypeOK
  <2>5. CASE UNCHANGED tapVars
    BY <2>1, <2>4, <2>5 DEF tapVars, tuntap_write, Inv, TypeOK
  <2>6. CASE ~UNCHANGED tapVars
    <3>1. f[1] # "other" /\ Learn(f[1], f[2][1], f[2][2]) /\ fault' = fault
      BY <2>1, <2>6 DEF tuntap_write
    <3>2. f[2] \in Claims /\ f[2] = <<f[2][1], f[2][2]>>
      BY <2>3, <3>1, EventLoopAssumption DEF Frames
    <3>3. f[2][1] \in Peers /\ f[2][2] \in Macs
      BY <3>2, EventLoopAssumption
    <3>4. /\ arp' \in set_mac_for_ip(arp, f[2][1], f[2][2])
          /\ announced' = [announced EXCEPT ![f[2][1]] = f[2][2]]
          /\ fake' \in {f[2], fake}
      BY <3>1, <3>2 DEF Learn
    <3>5. arp' \in Tables /\ Holds(arp', announced')
      BY <3>3, <3>4, SetHeld DEF Inv, TypeOK
    <3>6. announced' \in [Peers -> Macs \cup {NoMac}]
      BY <3>3, <3>4 DEF Inv, TypeOK
    <3> QED
      BY <2>4, <3>1, <3>2, <3>4, <3>5, <3>6 DEF Inv, TypeOK
  <2> QED
    BY <2>5, <2>6
<1> QED
  BY <1>1, <1>2

-----------------------------------------------------------------------------
(* Every step *)

LEMMA NextInv == Inv /\ [Next]_vars => Inv'
<1> SUFFICES ASSUME Inv, [Next]_vars PROVE Inv'
  OBVIOUS
<1> USE DEF Inv
<1>0. NoFrame \in OutFrames \cup {NoFrame} /\ NoFrame[1] # "ip"
  BY DEF NoFrame
<1>1. ASSUME NEW fd \in Fds, NEW E \in Masks[fd], epoll_ctl_add(fd, E) \/ epoll_ctl_mod(fd, E)
      PROVE  Inv'
  <2>1. /\ UNCHANGED <<open, rx, inbox, arp, announced, fake, ev, asked, fault>>
        /\ out' = NoFrame
    BY <1>1 DEF epoll_ctl_add, epoll_ctl_mod, tapVars
  <2>2. /\ EpollInv' /\ interest' \subseteq Events /\ unremoved' \subseteq Socks
        /\ epoll_in' \subseteq Fds /\ epoll_out' \subseteq Fds
    BY <1>1, RegisterStep
  <2>3. TypeOK'
    BY <1>0, <2>1, <2>2 DEF TypeOK
  <2> QED
    BY <1>0, <2>1, <2>2, <2>3 DEF EpollInv, SentToLastMac
<1>2. ASSUME NEW s \in Socks, epoll_ctl_del(s) \/ close(s)
      PROVE  Inv'
  <2>1. /\ UNCHANGED <<rx, arp, announced, fake, ev, asked, fault>>
        /\ out' = NoFrame /\ (inbox' = inbox \/ inbox' = [inbox EXCEPT ![s] = <<>>])
    BY <1>2 DEF epoll_ctl_del, close, tapVars
  <2>2. /\ EpollInv' /\ interest' \subseteq Events /\ open' \subseteq Fds
        /\ epoll_in' \subseteq Fds /\ epoll_out' \subseteq Fds /\ unremoved' \subseteq Socks
    BY <1>2, RemoveStep
  <2>3. inbox' \in [Socks -> Seq(Frames)] /\ \A x \in Socks : Len(inbox'[x]) <= SockBuf
    <3>1. <<>> \in Seq(Frames) /\ Len(<<>>) = 0 /\ 0 <= SockBuf
      BY EventLoopAssumption
    <3>2. CASE inbox' = inbox
      BY <3>2 DEF TypeOK
    <3>3. CASE inbox' = [inbox EXCEPT ![s] = <<>>]
      BY <3>1, <3>3 DEF TypeOK
    <3> QED
      BY <2>1, <3>2, <3>3
  <2>4. TypeOK'
    BY <1>0, <2>1, <2>2, <2>3 DEF TypeOK
  <2> QED
    BY <1>0, <2>1, <2>2, <2>4 DEF EpollInv, SentToLastMac
<1>3. ASSUME NEW s \in Socks, socket(s)
      PROVE  Inv'
  BY <1>0, <1>3 DEF socket, tapVars, epollVars, TypeOK, Fds, WantedWatched, OpenRegistered,
     WatchedRegistered, Registered, SentToLastMac
<1>4. CASE epoll_wait
  <2>1. FirstEvents(Selected) \subseteq Events
    BY DEF FirstEvents, Selected, Events, TypeOK
  <2>2. TypeOK'
    BY <1>0, <1>4, <2>1 DEF epoll_wait, tapVars, epollVars, TypeOK
  <2> QED
    BY <1>0, <1>4, <2>2 DEF epoll_wait, tapVars, epollVars, WantedWatched, OpenRegistered,
       WatchedRegistered, Registered, SentToLastMac
<1>5. CASE HandleTun
  <2>1. /\ UNCHANGED <<open, epoll_in, epoll_out, interest, unremoved, inbox, arp, announced>>
        /\ ev' \subseteq ev
    BY <1>5 DEF HandleTun, tuntap_read, NextEvent, epollVars
  <2>2. TypeOK'
    BY <1>5, <2>1, ReadType DEF TypeOK
  <2> QED
    BY <1>5, <2>1, <2>2, ReadType DEF WantedWatched, OpenRegistered, WatchedRegistered, Registered
<1>6. ASSUME NEW s \in Socks, HandleSock(s)
      PROVE  Inv'
  <2>1. /\ UNCHANGED <<open, epoll_in, epoll_out, interest, unremoved, rx, asked>> /\ ev' \subseteq ev
        /\ out' = NoFrame
    BY <1>6 DEF HandleSock, NextEvent, epollVars
  <2>2. TypeOK'
    BY <1>0, <1>6, <2>1, WriteType DEF TypeOK
  <2> QED
    BY <1>0, <1>6, <2>1, <2>2, WriteType
    DEF WantedWatched, OpenRegistered, WatchedRegistered, Registered, SentToLastMac
<1>7. CASE HandleWritable
  <2>1. /\ UNCHANGED <<open, epoll_in, epoll_out, interest, unremoved, rx, inbox, arp>>
        /\ UNCHANGED <<announced, fake, asked, fault>> /\ ev' \subseteq ev /\ out' = NoFrame
    BY <1>7 DEF HandleWritable, NextEvent, epollVars, tapVars
  <2> QED
    BY <1>0, <2>1 DEF TypeOK, WantedWatched, OpenRegistered, WatchedRegistered, Registered,
       SentToLastMac
<1>8. ASSUME NEW dst \in Peers \cup {Brd, Runt}, Send(dst)
      PROVE  Inv'
  <2>1. rx' \in Seq(Peers \cup {Brd, Runt}) /\ Len(rx') <= RxBuf
    BY <1>8, EventLoopAssumption DEF Send, TypeOK
  <2> QED
    BY <1>0, <1>8, <2>1 DEF Send, epollVars, tapVars, TypeOK, WantedWatched, OpenRegistered,
       WatchedRegistered, Registered, SentToLastMac
<1>9. ASSUME NEW s \in Socks, NEW f \in Frames, Arrive(s, f), asked' \subseteq asked
      PROVE  Inv'
  <2>1. inbox' \in [Socks -> Seq(Frames)] /\ \A x \in Socks : Len(inbox'[x]) <= SockBuf
    BY <1>9, EventLoopAssumption DEF Arrive, TypeOK
  <2> QED
    BY <1>0, <1>9, <2>1 DEF Arrive, epollVars, tapVars, TypeOK, WantedWatched, OpenRegistered,
       WatchedRegistered, Registered, SentToLastMac
<1>10. CASE UNCHANGED vars
  BY <1>10 DEF vars, epollVars, tapVars, TypeOK, WantedWatched, OpenRegistered,
     WatchedRegistered, Registered, SentToLastMac
<1>11. ASSUME NEW p \in Peers, NEW c \in Claims PROVE <<"arp", c>> \in Frames
  BY DEF Frames
<1>12. CASE Next
  <2>1. CASE Program
    BY <2>1, <1>1, <1>2, <1>3, <1>4, <1>5, <1>6, <1>7 DEF Program, Handle
  <2>2. CASE Environment
    BY <2>2, <1>8, <1>9, <1>11 DEF Environment, PeerSend, PeerAnswer
  <2> QED
    BY <1>12, <2>1, <2>2 DEF Next
<1> QED
  BY <1>10, <1>12

-----------------------------------------------------------------------------
(* Theorems *)

THEOREM Invariance == Spec => []Inv
BY InitInv, NextInv, PTL DEF Spec

\* The state is well-typed in every run.
THEOREM TypeCorrect == Spec => []TypeOK
<1>1. Inv => TypeOK
  BY DEF Inv
<1> QED
  BY <1>1, Invariance, PTL

\* glue.c: what the program has asked for is always in the sets that select gets.
THEOREM Watched == Spec => []WantedWatched
<1>1. Inv => WantedWatched
  BY DEF Inv
<1> QED
  BY <1>1, Invariance, PTL

\* glue.c: what select watches is open and registered, or a descriptor that the program
\* closed before it removed it: nothing else makes select fail with EBADF.
THEOREM SelectWorks == Spec => []NoBadFd
<1>1. Inv => NoBadFd
  BY DEF Inv, NoBadFd, WatchedRegistered, OpenRegistered, Registered
<1> QED
  BY <1>1, Invariance, PTL

\* map.c, tuntap.c: a packet is never sent to a MAC its destination has given up.
THEOREM NeverStaleMac == Spec => []SentToLastMac
<1>1. Inv => SentToLastMac
  BY DEF Inv
<1> QED
  BY <1>1, Invariance, PTL
===============================================================================
