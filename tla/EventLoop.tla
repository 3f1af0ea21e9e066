------------------------------- MODULE EventLoop -------------------------------
(***************************************************************************)
(* epoll over select (impl_epoll_create, _ctl, _wait of src/ldr/glue.c) and *)
(* the ethernet emulation on top of the tun device (src/ldr/tuntap.c), in   *)
(* the loop of the emulated daemon that waits for both: frames the peers    *)
(* send it arrive on sockets and are written to tun, packets read from tun  *)
(* leave as frames.  The wrapper answers ARP itself, with a "fake packet"   *)
(* the next read of tun returns, and keeps the MACs it learns in the table  *)
(* of ArpMap.  The fake packet and the table are static: a run of the       *)
(* program starts with those that the last one left.                        *)
(***************************************************************************)
EXTENDS ArpMap, Sequences, FiniteSets

CONSTANTS
  Tun,        \* tun_fd
  Socks,      \* the descriptors of the sockets
  NoPeer,
  Claims,     \* the pairs of address and MAC the peers announce
  Brd,        \* brdaddr
  Runt,       \* a packet tuntap_read skips: shorter than 20 bytes
  RxBuf,      \* bound: packets the tun device queues
  SockBuf,    \* bound: frames a socket queues
  Masks,      \* the sets of events the program asks for, of each descriptor
  MaxEvents   \* maxevents of epoll_wait

Fds == Socks \cup {Tun}
EPOLLIN == 1
EPOLLOUT == 4
Events == Fds \X {EPOLLIN, EPOLLOUT}

ASSUME EventLoopAssumption ==
  /\ Tun \in Nat /\ Socks \subseteq Nat /\ Tun \notin Socks
  /\ Claims \subseteq Peers \X Macs
  /\ NoPeer \notin Peers /\ Brd \notin Peers /\ Runt \notin Peers \cup {Brd}
  /\ RxBuf \in Nat /\ SockBuf \in Nat /\ MaxEvents \in Nat \ {0}
  /\ Masks \in [Fds -> SUBSET ((SUBSET {EPOLLIN, EPOLLOUT}) \ {{}})]

\* What arrives on a socket: an ARP request for our address, another ARP packet, or a
\* frame that is IP or not for us; the first two with the sender's address and MAC.
NoClaim == <<NoPeer, NoMac>>
Frames == ({"arp_req", "arp"} \X Claims) \cup {<<"other", NoClaim>>}

\* What tuntap_read returns: kind, address and ethernet destination.
NoFrame == <<"none", NoPeer, NoMac>>
OutFrames == {"arp_req", "arp_rep", "ip"} \X (Peers \cup {Brd}) \X (Macs \cup {Brd})

VARIABLES
  open,                 \* descriptors open in the kernel
  epoll_in, epoll_out,  \* the fd_sets
  interest,             \* what the program has asked for: <<fd, event>> pairs
  unremoved,            \* history: closed before the program removed them from epoll
  rx,                   \* destinations of the packets queued in the tun device
  inbox,                \* frames queued in each socket
  arp,                  \* the ARP table
  announced,            \* history: the MAC each peer announced last
  fake,                 \* tuntap_fakepkt: an ARP reply to this address and MAC
  ev,                   \* the events epoll_wait returned, not yet handled
  out,                  \* the frame the last step took from tun
  asked,                \* peers that have to answer an ARP request
  fault                 \* the search of the table has followed a wild pointer

epollVars == <<epoll_in, epoll_out, interest, unremoved>>
tapVars == <<arp, announced, fake>>
vars == <<open, epollVars, rx, inbox, tapVars, ev, out, asked, fault>>

TypeOK ==
  /\ open \subseteq Fds /\ epoll_in \subseteq Fds /\ epoll_out \subseteq Fds
  /\ interest \subseteq Events /\ unremoved \subseteq Socks
  /\ rx \in Seq(Peers \cup {Brd, Runt}) /\ Len(rx) <= RxBuf
  /\ inbox \in [Socks -> Seq(Frames)] /\ \A s \in Socks : Len(inbox[s]) <= SockBuf
  /\ announced \in [Peers -> Macs \cup {NoMac}] /\ asked \subseteq Peers
  /\ arp \in Tables
  /\ fake \in Claims \cup {NoClaim} /\ fault \in {"none", "wild"}
  /\ ev \subseteq Events
  /\ out \in OutFrames \cup {NoFrame}

\* An emulated exit leaves the table, and a reply to an address that is in it.
Init ==
  /\ open = Fds
  /\ epoll_in = {} /\ epoll_out = {} /\ interest = {} /\ unremoved = {}
  /\ rx = <<>> /\ inbox = [s \in Socks |-> <<>>]
  /\ announced \in {f \in [Peers -> Macs \cup {NoMac}] :
                      \A p \in Peers : f[p] # NoMac => <<p, f[p]>> \in Claims}
  /\ arp \in TablesOf(announced)
  /\ fake \in {c \in Claims : announced[c[1]] # NoMac} \cup {NoClaim}
  /\ ev = {} /\ out = NoFrame /\ asked = {} /\ fault = "none"

-----------------------------------------------------------------------------
(* epoll *)

Idle == ev = {}
Registered(fd) == \E e \in {EPOLLIN, EPOLLOUT} : <<fd, e>> \in interest
Asked(fd, E) == {<<fd, e>> : e \in E}
Others(fd) == {i \in interest : i[1] # fd}

\* Mutant: a modification replaces the sets, but with EPOLLIN and EPOLLOUT swapped.
epoll_ctl_set_Swapped(fd, E) ==
  /\ epoll_in' = IF EPOLLOUT \in E THEN epoll_in \cup {fd} ELSE epoll_in
  /\ epoll_out' = IF EPOLLIN \in E THEN epoll_out \cup {fd} ELSE epoll_out

\* EPOLL_CTL_ADD and EPOLL_CTL_MOD.  MOD first sets, where it means to clear, the
\* bits of the events that are not asked for.
epoll_ctl_set(fd, E) ==
  /\ epoll_in' = IF EPOLLIN \in E THEN epoll_in \cup {fd} ELSE epoll_in
  /\ epoll_out' = IF EPOLLOUT \in E THEN epoll_out \cup {fd} ELSE epoll_out

epoll_ctl_add(fd, E) ==
  /\ Idle /\ fd \in open /\ ~Registered(fd)
  /\ epoll_ctl_set(fd, E)
  /\ interest' = interest \cup Asked(fd, E)
  /\ out' = NoFrame
  /\ UNCHANGED <<open, unremoved, rx, inbox, tapVars, ev, asked, fault>>

epoll_ctl_mod(fd, E) ==
  /\ Idle /\ fd \in open /\ Registered(fd)
  /\ epoll_in' = epoll_in \cup {fd}
  /\ epoll_out' = epoll_out \cup {fd}
  /\ interest' = Others(fd) \cup Asked(fd, E)
  /\ out' = NoFrame
  /\ UNCHANGED <<open, unremoved, rx, inbox, tapVars, ev, asked, fault>>

\* Mutant: EPOLL_CTL_DEL leaves the write set alone.
epoll_ctl_del_InOnly(fd) ==
  /\ Idle /\ (Registered(fd) \/ fd \in unremoved)
  /\ epoll_in' = epoll_in \ {fd}
  /\ interest' = Others(fd) /\ unremoved' = unremoved \ {fd}
  /\ out' = NoFrame
  /\ UNCHANGED <<open, epoll_out, rx, inbox, tapVars, ev, asked, fault>>

\* EPOLL_CTL_DEL, before or after the descriptor is closed.
epoll_ctl_del(fd) ==
  /\ Idle /\ (Registered(fd) \/ fd \in unremoved)
  /\ epoll_in' = epoll_in \ {fd}
  /\ epoll_out' = epoll_out \ {fd}
  /\ interest' = Others(fd) /\ unremoved' = unremoved \ {fd}
  /\ out' = NoFrame
  /\ UNCHANGED <<open, rx, inbox, tapVars, ev, asked, fault>>

\* impl_close of a socket does not touch the sets; Linux forgets the registration, so
\* a program need not remove it.
close(s) ==
  /\ Idle /\ s \in open
  /\ open' = open \ {s}
  /\ interest' = Others(s)
  /\ unremoved' = IF Registered(s) THEN unremoved \cup {s} ELSE unremoved
  /\ inbox' = [inbox EXCEPT ![s] = <<>>]
  /\ out' = NoFrame
  /\ UNCHANGED <<epoll_in, epoll_out, rx, tapVars, ev, asked, fault>>

socket(s) ==
  /\ Idle /\ s \notin open
  /\ open' = open \cup {s}
  /\ out' = NoFrame
  /\ UNCHANGED <<epollVars, rx, inbox, tapVars, ev, asked, fault>>

Readable(fd) == IF fd = Tun THEN rx # <<>> ELSE inbox[fd] # <<>>

\* select fails if a set holds a closed descriptor; sockets are always writable.
BadFd == ~(epoll_in \cup epoll_out \subseteq open)

\* Mutant: only a readable device is reported.
need_fake_Never == FALSE

\* tun_fd is in the set and tuntap_has_fake_pkt(): select polls, and tun is reported
\* whether the device has a packet or not.
need_fake == Tun \in epoll_in /\ fake # NoClaim

Selected ==
  {<<fd, EPOLLIN>> : fd \in {d \in epoll_in : Readable(d) \/ (d = Tun /\ need_fake)}}
  \cup {<<fd, EPOLLOUT>> : fd \in epoll_out}

\* The loop over the descriptors, up to maxevents events.
Before(a, b) == a[1] < b[1] \/ (a[1] = b[1] /\ a[2] < b[2])
FirstEvents(S) == {e \in S : Cardinality({d \in S : Before(d, e)}) < MaxEvents}

\* A call that returns no event, or EBADF, changes nothing.
epoll_wait ==
  /\ Idle /\ ~BadFd /\ Selected # {}
  /\ ev' = FirstEvents(Selected)
  /\ out' = NoFrame
  /\ UNCHANGED <<open, epollVars, rx, inbox, tapVars, asked, fault>>

-----------------------------------------------------------------------------
(* tuntap.c *)

\* The device's next packet, in a frame to its destination, or replaced by an ARP request
\* if the destination's MAC is not known.
ReadDevice(dst) ==
  /\ rx' = Tail(rx)
  /\ out' = IF dst = Runt THEN NoFrame
            ELSE IF dst = Brd THEN <<"ip", Brd, Brd>>
            ELSE LET mac == get_mac_for_ip(arp, dst)
                 IN IF mac = NoMac THEN <<"arp_req", dst, Brd>> ELSE <<"ip", dst, mac>>
  /\ asked' = IF out'[1] = "arp_req" THEN asked \cup {dst} ELSE asked

tuntap_read ==
  /\ UNCHANGED <<inbox, arp, announced>>
  /\ \/ /\ fake # NoClaim
        /\ out' = <<"arp_rep", fake[1], fake[2]>>
        /\ fake' = NoClaim
        /\ UNCHANGED <<rx, asked, fault>>
     \/ /\ fake = NoClaim /\ rx = <<>>
        /\ out' = NoFrame
        /\ UNCHANGED <<fake, rx, asked, fault>>
     \/ /\ fake = NoClaim /\ rx # <<>>
        /\ IF Head(rx) \in Peers /\ Wild(arp, Head(rx))
           THEN fault' = "wild" /\ UNCHANGED <<rx, out, asked>>
           ELSE ReadDevice(Head(rx)) /\ UNCHANGED fault
        /\ UNCHANGED fake

\* Mutant: only a request teaches the sender's MAC.
Learn_Request(kind, p, mac) ==
  IF kind # "arp_req" THEN UNCHANGED tapVars ELSE
  /\ arp' \in set_mac_for_ip(arp, p, mac)
  /\ announced' = [announced EXCEPT ![p] = mac]
  /\ fake' = <<p, mac>>

\* ARP teaches the sender's MAC, and a request leaves a reply in the one fake packet.
Learn(kind, p, mac) ==
  /\ arp' \in set_mac_for_ip(arp, p, mac)
  /\ announced' = [announced EXCEPT ![p] = mac]
  /\ fake' = IF kind = "arp_req" THEN <<p, mac>> ELSE fake

\* A frame to us.  What is not ARP goes to the device, or nowhere.
tuntap_write(f) ==
  IF f[1] = "other" THEN UNCHANGED <<tapVars, fault>>
  ELSE IF Wild(arp, f[2][1]) THEN fault' = "wild" /\ UNCHANGED tapVars
  ELSE Learn(f[1], f[2][1], f[2][2]) /\ UNCHANGED fault

\* The program handles the events in the order in which it got them.
NextEvent(e) == e \in ev /\ (\A d \in ev : ~Before(d, e)) /\ ev' = ev \ {e}

\* It reads a frame from tun,
HandleTun ==
  /\ NextEvent(<<Tun, EPOLLIN>>)
  /\ tuntap_read
  /\ UNCHANGED <<open, epollVars>>

\* passes one from a socket to it,
HandleSock(s) ==
  /\ NextEvent(<<s, EPOLLIN>>)
  /\ out' = NoFrame
  /\ IF inbox[s] = <<>> THEN UNCHANGED <<inbox, tapVars, fault>>
     ELSE /\ inbox' = [inbox EXCEPT ![s] = Tail(@)]
          /\ tuntap_write(Head(inbox[s]))
  /\ UNCHANGED <<open, epollVars, rx, asked>>

\* or has nothing to write.
HandleWritable ==
  /\ \E fd \in Fds : NextEvent(<<fd, EPOLLOUT>>)
  /\ out' = NoFrame
  /\ UNCHANGED <<open, epollVars, rx, inbox, tapVars, asked, fault>>

Handle == HandleTun \/ HandleWritable \/ \E s \in Socks : HandleSock(s)

-----------------------------------------------------------------------------
(* The console's IP stack and the peers *)

\* The IP stack sends a packet through the tun device.
Send(dst) ==
  /\ Len(rx) < RxBuf
  /\ rx' = Append(rx, dst)
  /\ out' = NoFrame
  /\ UNCHANGED <<open, epollVars, inbox, tapVars, ev, asked, fault>>

Arrive(s, f) ==
  /\ s \in open /\ Len(inbox[s]) < SockBuf
  /\ inbox' = [inbox EXCEPT ![s] = Append(@, f)]
  /\ out' = NoFrame
  /\ UNCHANGED <<open, epollVars, rx, tapVars, ev, fault>>

\* A peer asks for our MAC, announces its own, or sends anything else.
PeerSend(s) == (\E f \in Frames : Arrive(s, f)) /\ UNCHANGED asked

\* A peer answers our ARP request.
PeerAnswer(p, s) ==
  /\ p \in asked
  /\ \E c \in Claims : c[1] = p /\ Arrive(s, <<"arp", c>>)
  /\ asked' = asked \ {p}

Program ==
  \/ \E fd \in Fds : \E E \in Masks[fd] : epoll_ctl_add(fd, E) \/ epoll_ctl_mod(fd, E)
  \/ \E s \in Socks : epoll_ctl_del(s) \/ close(s) \/ socket(s)
  \/ epoll_wait \/ Handle

Environment ==
  \/ \E dst \in Peers \cup {Brd, Runt} : Send(dst)
  \/ \E s \in Socks : PeerSend(s) \/ \E p \in Peers : PeerAnswer(p, s)

Alive == fault = "none"
Next == Alive /\ (Program \/ Environment)

Spec == Init /\ [][Next]_vars

\* The program's thread runs: it waits and handles events again and again; and a peer that
\* was asked answers once a socket takes it.
Fairness ==
  /\ WF_vars(Alive /\ epoll_wait) /\ WF_vars(Alive /\ Handle)
  /\ \A p \in Peers : SF_vars(Alive /\ \E s \in Socks : PeerAnswer(p, s))
FairSpec == Spec /\ Fairness

-----------------------------------------------------------------------------
(* Properties *)

\* glue.c: every event the program has asked for is watched, through any sequence
\* of additions, modifications and removals.
WantedWatched ==
  \A i \in interest : i[1] \in (IF i[2] = EPOLLIN THEN epoll_in ELSE epoll_out)

\* glue.c: select never fails over a closed descriptor, and never reports one that
\* another socket got and nobody registered, but for those that the program closed
\* before it removed them: whatever it added, modified, removed and closed before.
NoBadFd ==
  \A fd \in (epoll_in \cup epoll_out) \ unremoved : fd \in open /\ Registered(fd)

\* map.c, tuntap.c: an IP packet leaves in a frame to the MAC its destination announced
\* last, whatever was entered before, in this run or an earlier one, and whatever the
\* chains end in.
SentToLastMac == out[1] = "ip" /\ out[2] # Brd => out[3] = announced[out[2]]

\* glue.c, tuntap.c: a pending ARP reply, or one that replaces it, is read, whether or not
\* the device ever becomes readable, unless the program dies, stops waiting for tun, or select
\* keeps failing: again and again none is pending.
ReplyIsRead == <>[](~BadFd /\ <<Tun, EPOLLIN>> \in interest) => []<>(fake = NoClaim \/ ~Alive)

\* tuntap.c, glue.c: if the IP stack keeps sending to a peer, the peer keeps getting IP
\* packets, although the first is replaced by an ARP request.  Each read returns one
\* packet and fake ones go first, so this needs that the peers stop asking for our MAC;
\* and that the program keeps waiting for its sockets, to see the answers.
Quiet == \A s \in Socks : \A i \in DOMAIN inbox[s] : inbox[s][i][1] # "arp_req"
Served == \A fd \in Fds : <<fd, EPOLLIN>> \in interest
PeerReached ==
  <>[](Quiet /\ Served /\ Alive) =>
  \A p \in Peers : []<>(\E i \in DOMAIN rx : rx[i] = p) => []<>(out[1] = "ip" /\ out[2] = p)
===============================================================================
