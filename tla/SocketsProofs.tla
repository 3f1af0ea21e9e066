----------------------------- MODULE SocketsProofs -----------------------------
(* Proofs about the socket calls: what the program is told of addresses and    *)
(* flags is true for any descriptors, addresses, remote hosts and lengths.     *)
EXTENDS Sockets, TLAPS, SequenceTheorems

\* Of a descriptor with the kernel's record q and the program's p: what the kernel queues
\* has the socket's family.
Queued(q) == \A k \in 1..Len(q.inq) : q.inq[k][1] = q.fam

\* The names the program knows are the kernel's.
Named(q, p) ==
  /\ Internet(p.name) => q.local = linux_addr_to_bsd_addr(p.name)
  /\ Internet(p.dest) => q.peer = linux_addr_to_bsd_addr(p.dest)

\* The address in the buffer, where it is whole, is the sender's.
Sender(q, p) ==
  p.holds = "whole" => linux_addr_to_bsd_addr(p.from) = p.sender /\ p.sender[1] = q.fam

Flags(q, p) == 2048 \in p.flags => 4 \in q.flags

Good(q, p) == Queued(q) /\ Named(q, p) /\ Sender(q, p) /\ Flags(q, p)
State == TypeOK /\ \A s \in Fds : Good(sock[s], prog[s])
Inv == State /\ NamesKept /\ ReplyReachesSender /\ NonblockingKept

-----------------------------------------------------------------------------
(* Conversions *)

LEMMA Shape ==
  /\ \A b \in BsdAddrs : b = <<b[1], b[2]>>
  /\ \A a \in LinuxAddrs : a = <<a[1], a[2]>>
<1>1. \A a \in Addrs : a = <<a[1], a[2]>>
  BY SocketsAssumption
<1>2. \A b \in Remotes : b = <<b[1], b[2]>>
  BY SocketsAssumption
<1>3. \A a \in Addrs : linux_addr_to_bsd_addr(a) = <<linux_addr_to_bsd_addr(a)[1], linux_addr_to_bsd_addr(a)[2]>>
  BY <1>1 DEF linux_addr_to_bsd_addr, NoAddr
<1>4. \A b \in BsdAddrs : b = <<b[1], b[2]>>
  BY <1>2, <1>3 DEF BsdAddrs, NoAddr
<1>5. \A b \in BsdAddrs : bsd_addr_to_linux_addr(b) = <<bsd_addr_to_linux_addr(b)[1], bsd_addr_to_linux_addr(b)[2]>>
  BY <1>4 DEF bsd_addr_to_linux_addr, NoAddr
<1> QED  BY <1>1, <1>4, <1>5 DEF LinuxAddrs

LEMMA NoAddrIn == NoAddr \in BsdAddrs /\ NoAddr \in LinuxAddrs
<1>1. NoAddr \in BsdAddrs  BY DEF BsdAddrs
<1>2. bsd_addr_to_linux_addr(NoAddr) = NoAddr  BY DEF bsd_addr_to_linux_addr, NoAddr
<1> QED  BY <1>1, <1>2 DEF LinuxAddrs

LEMMA CopiedIn ==
  ASSUME NEW b \in BsdAddrs, NEW cap \in Nat
  PROVE  Copied(b, cap) \in LinuxAddrs
<1> DEFINE a == bsd_addr_to_linux_addr(b)
<1>1. a \in LinuxAddrs /\ a[1] \in {0, 1, 2, 10}
  BY DEF LinuxAddrs, bsd_addr_to_linux_addr, NoAddr
<1>2. a[1] = 0 => LinuxLen(a) <= cap
  BY DEF LinuxLen
<1> HIDE DEF a
<1>3. a[1] \in {2, 10} => <<a[1], "torn">> \in LinuxAddrs
  BY DEF LinuxAddrs
<1>4. Copied(b, cap) = IF LinuxLen(a) <= cap \/ a[1] = 1 THEN a ELSE <<a[1], "torn">>
  BY DEF Copied, a
<1> QED  BY <1>1, <1>2, <1>3, <1>4

\* A length that reaches to the end of the address shows that none of it is cut.
LEMMA CopiedWhole ==
  ASSUME NEW b, NEW cap \in Nat, LinuxLen(Copied(b, cap)) <= cap
  PROVE  Copied(b, cap) = bsd_addr_to_linux_addr(b)
<1> DEFINE a == bsd_addr_to_linux_addr(b)
<1>1. LinuxLen(<<a[1], "torn">>) = LinuxLen(a)
  BY DEF LinuxLen
<1>2. Copied(b, cap) = IF LinuxLen(a) <= cap \/ a[1] = 1 THEN a ELSE <<a[1], "torn">>
  BY DEF Copied
<1>3. LinuxLen(a) \in Nat
  BY DEF LinuxLen
<1> HIDE DEF a
<1>4. Copied(b, cap) = a
  BY <1>1, <1>2, <1>3
<1> QED  BY <1>4 DEF a

LEMMA ToldShort ==
  ASSUME NEW b, NEW cap \in Nat
  PROVE  Told(b, cap) <= cap
BY DEF Told, LinuxLen

LEMMA RoundTrip ==
  ASSUME NEW a \in LinuxAddrs, Internet(a)
  PROVE  bsd_addr_to_linux_addr(linux_addr_to_bsd_addr(a)) = a
BY Shape DEF Internet, bsd_addr_to_linux_addr, linux_addr_to_bsd_addr

LEMMA RemoteTrip ==
  ASSUME NEW b \in Remotes
  PROVE  /\ linux_addr_to_bsd_addr(bsd_addr_to_linux_addr(b)) = b
         /\ SameHost(bsd_addr_to_linux_addr(b), b)
         /\ b \in BsdAddrs
BY SocketsAssumption DEF SameHost, bsd_addr_to_linux_addr, linux_addr_to_bsd_addr, BsdAddrs

\* What fcntl reads, edited or not, it sets again.
LEMMA FlagTrip ==
  ASSUME NEW q \in SUBSET {1, 2, 4}, NEW f \in SUBSET {1, 2, 2048}, NEW how \in {"add", "remove", "keep"},
         2048 \in f => 4 \in q
  PROVE  /\ setfl(Edited(how, getfl(q))) \in SUBSET {1, 2, 4}
         /\ Edited(how, f) \in SUBSET {1, 2, 2048}
         /\ 2048 \in Edited(how, f) => 4 \in setfl(Edited(how, getfl(q)))
<1>1. 2048 \in Edited(how, f) => how = "add" \/ (how = "keep" /\ 4 \in q)
  BY DEF Edited
<1>2. how = "add" => 2048 \in Edited(how, getfl(q))
  BY DEF Edited
<1>3. how = "keep" /\ 4 \in q => 2048 \in Edited(how, getfl(q))
  BY DEF Edited, getfl
<1> QED  BY <1>1, <1>2, <1>3 DEF setfl, Edited

-----------------------------------------------------------------------------
(* Records *)

LEMMA ProgFields ==
  ASSUME NEW p \in Prog
  PROVE  /\ p.flags \in SUBSET {1, 2, 2048} /\ p.name \in LinuxAddrs /\ p.dest \in LinuxAddrs
         /\ p.from \in LinuxAddrs /\ p.sender \in BsdAddrs /\ p.holds \in {"whole", "other"}
         /\ p = [flags |-> p.flags, name |-> p.name, dest |-> p.dest, from |-> p.from,
                 sender |-> p.sender, holds |-> p.holds]
BY DEF Prog

LEMMA ReceivedIn ==
  ASSUME NEW p \in Prog, NEW a \in LinuxAddrs, NEW b \in BsdAddrs, NEW w \in BOOLEAN
  PROVE  LET r == Received(p, a, b, w) IN
         /\ r \in Prog /\ r.from = a /\ r.sender = b /\ (r.holds = "whole" <=> w)
         /\ r.name = p.name /\ r.dest = p.dest /\ r.flags = p.flags
<1> DEFINE h == IF w THEN "whole" ELSE "other"
           r == Received(p, a, b, w)
<1>1. h \in {"whole", "other"} /\ (h = "whole" <=> w)
  OBVIOUS
<1>2. r = [p EXCEPT !.from = a, !.sender = b, !.holds = h]
  BY DEF Received
<1> HIDE DEF h, r
<1>3. r = [flags |-> p.flags, name |-> p.name, dest |-> p.dest, from |-> a, sender |-> b,
           holds |-> h]
  <2> DEFINE p1 == [p EXCEPT !.from = a]
             p2 == [p1 EXCEPT !.sender = b]
  <2>1. r = [p2 EXCEPT !.holds = h]
    BY <1>2
  <2>2. PICK f, n, d, x, y, z : p = [flags |-> f, name |-> n, dest |-> d, from |-> x, sender |-> y,
                                     holds |-> z]
    BY ProgFields
  <2>3. p1 = [flags |-> f, name |-> n, dest |-> d, from |-> a, sender |-> y, holds |-> z]
    BY <2>2
  <2> HIDE DEF p1
  <2>4. p2 = [flags |-> f, name |-> n, dest |-> d, from |-> a, sender |-> b, holds |-> z]
    BY <2>3
  <2> HIDE DEF p2
  <2>5. r = [flags |-> f, name |-> n, dest |-> d, from |-> a, sender |-> b, holds |-> h]
    BY <2>1, <2>4
  <2> QED  BY <2>2, <2>5
<1>4. r \in Prog
  BY <1>1, <1>3, ProgFields DEF Prog
<1>5. /\ r.from = a /\ r.sender = b /\ r.holds = h
      /\ r.name = p.name /\ r.dest = p.dest /\ r.flags = p.flags
  BY <1>3
<1> QED  BY <1>1, <1>4, <1>5 DEF r

LEMMA SpoiledIn ==
  ASSUME NEW p \in Prog, NEW junk \in BsdAddrs, NEW cap \in Nat
  PROVE  LET r == Spoiled(p, junk, cap) IN
         \/ r = p
         \/ /\ r \in Prog /\ r.holds = "other"
            /\ r.name = p.name /\ r.dest = p.dest /\ r.flags = p.flags
<1> DEFINE a == Copied(junk, cap)
           r == Spoiled(p, junk, cap)
<1>1. a \in LinuxAddrs
  BY CopiedIn
<1>2. r = IF a = NoAddr THEN p ELSE [p EXCEPT !.from = a, !.holds = "other"]
  BY DEF Spoiled
<1> HIDE DEF a, r
<1>3. CASE a # NoAddr
  <2>1. r = [flags |-> p.flags, name |-> p.name, dest |-> p.dest, from |-> a,
             sender |-> p.sender, holds |-> "other"]
    <3> DEFINE p1 == [p EXCEPT !.from = a]
    <3>1. r = [p1 EXCEPT !.holds = "other"]
      BY <1>2, <1>3
    <3>2. PICK f, n, d, x, y, z : p = [flags |-> f, name |-> n, dest |-> d, from |-> x,
                                       sender |-> y, holds |-> z]
      BY ProgFields
    <3>3. p1 = [flags |-> f, name |-> n, dest |-> d, from |-> a, sender |-> y, holds |-> z]
      BY <3>2
    <3> HIDE DEF p1
    <3>4. r = [flags |-> f, name |-> n, dest |-> d, from |-> a, sender |-> y, holds |-> "other"]
      BY <3>1, <3>3
    <3> QED  BY <3>2, <3>4
  <2>2. r \in Prog
    BY <1>1, <2>1, ProgFields DEF Prog
  <2>3. r.holds = "other" /\ r.name = p.name /\ r.dest = p.dest /\ r.flags = p.flags
    BY <2>1
  <2> QED  BY <2>2, <2>3 DEF r
<1> QED  BY <1>2, <1>3 DEF r

-----------------------------------------------------------------------------
(* Calls *)

\* A call that fails, or only tells, leaves the state as it is.
LEMMA Same == State /\ UNCHANGED <<sock, prog>> => State'
BY DEF State, TypeOK

\* Any other call changes the records of one descriptor.
LEMMA Update ==
  ASSUME State, NEW s \in Fds, NEW q \in Sock, NEW p \in Prog, Good(q, p),
         sock' = [sock EXCEPT ![s] = q], prog' = [prog EXCEPT ![s] = p]
  PROVE  State'
<1>1. TypeOK'
  BY DEF State, TypeOK
<1>2. sock'[s] = q /\ prog'[s] = p
  BY DEF State, TypeOK
<1>3. \A t \in Fds \ {s} : sock'[t] = sock[t] /\ prog'[t] = prog[t]
  BY DEF State, TypeOK
<1> QED  BY <1>1, <1>2, <1>3, Zenon DEF State

LEMMA Records ==
  ASSUME State, NEW s \in Fds
  PROVE  /\ sock[s] \in Sock /\ prog[s] \in Prog /\ Good(sock[s], prog[s])
         /\ prog = [prog EXCEPT ![s] = prog[s]] /\ sock = [sock EXCEPT ![s] = sock[s]]
BY DEF State, TypeOK

\* Of a call that is none of those the properties are about, only the error number counts.
Plain(op) == op \notin {"getsockname", "getpeername", "accept", "reply"}

LEMMA StateFlags == State' => \A t \in Fds : 2048 \in prog'[t].flags => 4 \in sock'[t].flags
BY DEF State, Good, Flags

LEMMA PlainCall ==
  ASSUME State', Done \/ \E op, s, e : Plain(op) /\ Error(op, s, e) /\ Errno(op, e) \notin {35, 36}
  PROVE  Inv'
<1>1. Plain(call'.op) /\ call'.errno \notin {35, 36}
  BY DEF Done, NoCall, Error, Plain
<1> QED
  BY <1>1, StateFlags DEF Inv, Plain, NamesKept, ReplyReachesSender, NonblockingKept, Nonblocking

LEMMA FailedCall ==
  ASSUME State, NEW op, NEW s, NEW e, Fail(op, s, e), op # "reply",
         op \in {"accept", "read", "write"} \/ Errno(op, e) \notin {35, 36}
  PROVE  Inv'
<1>1. State' /\ call'.op = op /\ call'.addr = NoAddr
  BY Same DEF Fail, Error
<1>2. op \in {"accept", "read", "write"} \/ call'.errno \notin {35, 36}
  BY DEF Fail, Error
<1> QED
  BY <1>1, <1>2, StateFlags DEF Inv, NamesKept, ReplyReachesSender, NonblockingKept, Nonblocking

LEMMA NewRecords ==
  ASSUME NEW k \in Kinds, NEW f \in {0, 1, 2, 28}
  PROVE  New(k, f) \in Sock /\ Fresh \in Prog /\ Good(New(k, f), Fresh)
<1>1. <<>> \in Seq(Remotes)
  OBVIOUS
<1>2. New(k, f) \in Sock /\ Fresh \in Prog
  BY <1>1, NoAddrIn DEF New, Fresh, Sock, Prog
<1>3. Good(New(k, f), Fresh)
  BY DEF New, Fresh, Good, Queued, Named, Sender, Flags, NoAddr, Internet
<1> QED  BY <1>2, <1>3

LEMMA FreeRecords == Free \in Sock /\ Fresh \in Prog /\ Good(Free, Fresh)
BY NewRecords DEF Free, Kinds

LEMMA InitInv == Init => Inv
<1> SUFFICES ASSUME Init  PROVE Inv
  OBVIOUS
<1>1. \A s \in Fds : sock[s] = Free /\ prog[s] = Fresh
  BY DEF Init
<1>2. State
  BY <1>1, FreeRecords DEF Init, State, TypeOK
<1>3. NamesKept /\ ReplyReachesSender /\ NonblockingKept
  BY <1>1 DEF Init, NoCall, NamesKept, ReplyReachesSender, NonblockingKept, Nonblocking, Fresh
<1> QED  BY <1>2, <1>3 DEF Inv

LEMMA SocketStep ==
  ASSUME Inv, NEW s \in Fds, NEW d \in {1, 2, 10}, NEW k \in {"dgram", "stream"}, socket(s, d, k)
  PROVE  Inv'
<1> DEFINE f == IF d = 10 THEN 28 ELSE d
<1>1. f \in {0, 1, 2, 28} /\ k \in Kinds
  BY DEF Kinds
<1>2. State'
  BY <1>1, NewRecords, Update DEF Inv, socket
<1> QED  BY <1>2, PlainCall DEF socket, Plain

LEMMA CloseStep ==
  ASSUME Inv, NEW s \in Fds, close(s)
  PROVE  Inv'
<1>1. State'
  BY FreeRecords, Update DEF Inv, close
<1> QED  BY <1>1, PlainCall DEF close, Plain

LEMMA BindStep ==
  ASSUME Inv, NEW s \in Fds, NEW a \in Addrs, bind(s, a)
  PROVE  Inv'
<1> DEFINE b == linux_addr_to_bsd_addr(a)
<1>1. CASE Fail("bind", s, ENOSYS) \/ Fail("bind", s, Refused)
  BY <1>1, FailedCall DEF Inv, Errno, ENOSYS, Refused
<1>2. CASE /\ sock' = [sock EXCEPT ![s].local = b] /\ prog' = [prog EXCEPT ![s].name = a]
           /\ Done
  <2> DEFINE q == [sock[s] EXCEPT !.local = b]
             p == [prog[s] EXCEPT !.name = a]
  <2>1. b \in BsdAddrs /\ a \in LinuxAddrs
    BY DEF BsdAddrs, LinuxAddrs
  <2>2. q \in Sock /\ p \in Prog
    BY <2>1, Records DEF Inv, Sock, Prog
  <2>3. Good(q, p)
    BY Records DEF Inv, Sock, Prog, Good, Queued, Named, Sender, Flags
  <2>4. sock' = [sock EXCEPT ![s] = q] /\ prog' = [prog EXCEPT ![s] = p]
    BY <1>2
  <2>5. State'
    BY <2>2, <2>3, <2>4, Update DEF Inv
  <2> QED  BY <1>2, <2>5, PlainCall DEF Plain
<1> QED  BY <1>1, <1>2 DEF bind

LEMMA ListenStep ==
  ASSUME Inv, NEW s \in Fds, listen(s)
  PROVE  Inv'
<1> DEFINE q == [sock[s] EXCEPT !.kind = "listen"]
<1>1. q \in Sock /\ Good(q, prog[s])
  <2>1. sock[s] \in Sock /\ Good(sock[s], prog[s])
    BY Records DEF Inv
  <2>2. /\ q \in Sock /\ q.inq = sock[s].inq /\ q.fam = sock[s].fam /\ q.local = sock[s].local
        /\ q.peer = sock[s].peer /\ q.flags = sock[s].flags
    BY <2>1 DEF Sock, Kinds
  <2> QED  BY <2>1, <2>2 DEF Good, Queued, Named, Sender, Flags
<1>2. sock' = [sock EXCEPT ![s] = q] /\ prog' = [prog EXCEPT ![s] = prog[s]]
  BY Records DEF Inv, listen
<1>3. State'
  BY <1>1, <1>2, Records, Update DEF Inv
<1> QED  BY <1>3, PlainCall DEF listen, Plain

LEMMA ConnectStep ==
  ASSUME Inv, NEW s \in Fds, NEW a \in Addrs, connect(s, a)
  PROVE  Inv'
<1> DEFINE b == linux_addr_to_bsd_addr(a)
<1>1. CASE \E e \in {ENOSYS, EHOSTUNREACH, Refused} : Fail("connect", s, e)
  BY <1>1, FailedCall DEF Inv, Errno, ENOSYS, EHOSTUNREACH, Refused
<1>2. CASE /\ sock' = [sock EXCEPT ![s].peer = b] /\ prog' = [prog EXCEPT ![s].dest = a]
           /\ Done \/ Error("connect", s, 36)
  <2> DEFINE q == [sock[s] EXCEPT !.peer = b]
             p == [prog[s] EXCEPT !.dest = a]
  <2>1. b \in BsdAddrs /\ a \in LinuxAddrs
    BY DEF BsdAddrs, LinuxAddrs
  <2>2. q \in Sock /\ p \in Prog
    <3>1. sock[s] \in Sock /\ prog[s] \in Prog
      BY Records DEF Inv
    <3>2. q \in Sock
      BY <2>1, <3>1 DEF Sock
    <3>3. p = [flags |-> prog[s].flags, name |-> prog[s].name, dest |-> a,
               from |-> prog[s].from, sender |-> prog[s].sender, holds |-> prog[s].holds]
      BY <3>1, ProgFields
    <3>4. p \in Prog
      BY <2>1, <3>1, <3>3, ProgFields DEF Prog
    <3> QED  BY <3>2, <3>4
  <2>3. Good(q, p)
    BY Records DEF Inv, Sock, Prog, Good, Queued, Named, Sender, Flags
  <2>4. sock' = [sock EXCEPT ![s] = q] /\ prog' = [prog EXCEPT ![s] = p]
    BY <1>2
  <2>5. State'
    BY <2>2, <2>3, <2>4, Update DEF Inv
  <2>6. Errno("connect", 36) = 115
    BY DEF Errno
  <2> QED  BY <1>2, <2>5, <2>6, PlainCall DEF Plain
<1> QED  BY <1>1, <1>2 DEF connect

\* The head of a queue is a remote host of the socket's family, and so is the rest.
LEMMA Dequeue ==
  ASSUME State, NEW s \in Fds, ~Quiet(s)
  PROVE  LET q == [sock[s] EXCEPT !.inq = Tail(@)] IN
         /\ Head(sock[s].inq) \in Remotes /\ Head(sock[s].inq)[1] = sock[s].fam
         /\ q \in Sock /\ Good(q, prog[s])
         /\ Queued(q) /\ q.fam = sock[s].fam /\ q.flags = sock[s].flags
         /\ q.local = sock[s].local /\ q.peer = sock[s].peer
<1> DEFINE inq == sock[s].inq
           q == [sock[s] EXCEPT !.inq = Tail(@)]
<1>1. inq \in Seq(Remotes) /\ inq # <<>>
  BY Records DEF Quiet, Sock
<1>2. /\ Head(inq) \in Remotes /\ Head(inq) = inq[1] /\ 1 \in 1..Len(inq)
      /\ Tail(inq) \in Seq(Remotes)
      /\ \A k \in 1..Len(Tail(inq)) : k + 1 \in 1..Len(inq) /\ Tail(inq)[k] = inq[k + 1]
  BY <1>1
<1>3. \A k \in 1..Len(inq) : inq[k][1] = sock[s].fam
  BY Records DEF Good, Queued
<1>4. q \in Sock /\ q.inq = Tail(inq) /\ q.fam = sock[s].fam /\ q.flags = sock[s].flags
      /\ q.local = sock[s].local /\ q.peer = sock[s].peer
  BY <1>2, Records DEF Sock
<1>5. Queued(q)
  BY <1>2, <1>3, <1>4 DEF Queued
<1>6. Good(q, prog[s])
  BY <1>4, <1>5, Records DEF Good, Named, Sender, Flags
<1> QED  BY <1>2, <1>3, <1>4, <1>5, <1>6

LEMMA AcceptStep ==
  ASSUME Inv, NEW s \in Fds, NEW t \in Fds, NEW cap \in Caps, accept(s, t, cap)
  PROVE  Inv'
<1> State
  BY DEF Inv
<1>1. CASE Fail("accept", s, 35)
  BY <1>1, FailedCall
<1>2. CASE ~Fail("accept", s, 35)
  <2> DEFINE b == Head(sock[s].inq)
             q == [sock[s] EXCEPT !.inq = Tail(@)]
             r == [kind |-> "stream", fam |-> sock[s].fam, local |-> sock[s].local,
                   peer |-> b, flags |-> sock[s].flags, inq |-> <<>>]
             p == [Fresh EXCEPT !.name = prog[s].name]
  <2>1. /\ ~Quiet(s) /\ sock[t].kind = "free" /\ sock[s].kind = "listen"
        /\ sock' = [sock EXCEPT ![s].inq = Tail(@), ![t] = r]
        /\ prog' = [prog EXCEPT ![t] = p] /\ Return("accept", t, Copied(b, cap), cap, NoAddr)
    BY <1>2 DEF accept
  <2>2. b \in Remotes /\ q \in Sock /\ Good(q, prog[s])
    BY <2>1, Dequeue
  <2>3. /\ r.kind = "stream" /\ r.fam = sock[s].fam /\ r.local = sock[s].local /\ r.peer = b
        /\ r.flags = sock[s].flags /\ r.inq = <<>>
    OBVIOUS
  <2>4. p = [flags |-> {2}, name |-> prog[s].name, dest |-> NoAddr, from |-> NoAddr, sender |-> NoAddr,
              holds |-> "other"]
    BY DEF Fresh
  <2>5. r \in Sock
    <3>1. <<>> \in Seq(Remotes)
      OBVIOUS
    <3> QED  BY <2>2, <3>1, RemoteTrip, Records DEF Sock, Kinds
  <2> HIDE DEF r, p
  <2>6. p \in Prog
    BY <2>4, NoAddrIn, Records DEF Prog
  <2>7. Good(r, p)
    <3>1. Queued(r) /\ Sender(r, p) /\ Flags(r, p)
      BY <2>3, <2>4 DEF Queued, Sender, Flags
    <3>2. Named(r, p)
      BY <2>3, <2>4, Records DEF Good, Named, NoAddr, Internet
    <3> QED  BY <3>1, <3>2 DEF Good
  <2>8. /\ t # s /\ sock'[t] = r /\ prog'[t] = p /\ sock'[s] = q /\ prog'[s] = prog[s]
        /\ \A u \in Fds \ {s, t} : sock'[u] = sock[u] /\ prog'[u] = prog[u]
        /\ DOMAIN sock' = Fds /\ DOMAIN prog' = Fds
        /\ sock' = [u \in Fds |-> sock'[u]] /\ prog' = [u \in Fds |-> prog'[u]]
    BY <2>1, Records DEF State, TypeOK
  <2> HIDE DEF q
  <2>9. \A u \in Fds : sock'[u] \in Sock /\ prog'[u] \in Prog /\ Good(sock'[u], prog'[u])
    <3>1. ASSUME NEW u \in Fds \ {s, t}
          PROVE  sock'[u] \in Sock /\ prog'[u] \in Prog /\ Good(sock'[u], prog'[u])
      BY <2>8, Records, Zenon
    <3>2. prog[s] \in Prog
      BY Records
    <3> QED  BY <2>2, <2>5, <2>6, <2>7, <2>8, <3>1, <3>2, Zenon
  <2>10. State'
    <3>1. TypeOK'
      BY <2>8, <2>9 DEF TypeOK
    <3> QED  BY <2>9, <3>1, Zenon DEF State
  <2>11. r.peer = b
    BY <2>3
  <2>12. cap >= LinuxLen(Copied(b, cap)) => SameHost(Copied(b, cap), b)
    <3>1. cap \in Nat
      BY SocketsAssumption
    <3>2. LinuxLen(Copied(b, cap)) \in Nat
      BY DEF LinuxLen
    <3> QED  BY <2>2, <3>1, <3>2, RemoteTrip, CopiedWhole
  <2>13. /\ call'.op = "accept" /\ call'.fd = t /\ call'.addr = Copied(b, cap) /\ call'.errno = 0
         /\ call'.len = cap
    BY <2>1 DEF Return
  <2>14. NamesKept'
    BY <2>8, <2>11, <2>12, <2>13 DEF NamesKept
  <2> QED
    BY <2>10, <2>13, <2>14, StateFlags DEF Inv, ReplyReachesSender, NonblockingKept, Nonblocking
<1> QED  BY <1>1, <1>2

LEMMA TransferStep ==
  ASSUME Inv, NEW s \in Fds, NEW op \in {"send", "recv", "read", "write"}, transfer(s, op)
  PROVE  Inv'
<1> State
  BY DEF Inv
<1>1. CASE Fail(op, s, 35) \/ Fail(op, s, Refused)
  BY <1>1, FailedCall DEF Errno, Refused
<1>2. CASE Done /\ UNCHANGED <<sock, prog>>
  BY <1>2, Same, PlainCall DEF Plain
<1> QED  BY <1>1, <1>2 DEF transfer

LEMMA RecvfromStep ==
  ASSUME Inv, NEW s \in Fds, NEW cap \in Caps, recvfrom(s, cap)
  PROVE  Inv'
<1> State
  BY DEF Inv
<1> cap \in Nat
  BY SocketsAssumption
<1>1. CASE ~Quiet(s)
  <2> DEFINE b == Head(sock[s].inq)
             a == Copied(b, cap)
             w == LinuxLen(a) <= Told(b, cap)
             q == [sock[s] EXCEPT !.inq = Tail(@)]
             p == Received(prog[s], a, b, w)
  <2>1. /\ prog' = [prog EXCEPT ![s] = Received(@, a, b, w)]
        /\ sock' = [sock EXCEPT ![s].inq = Tail(@)]
        /\ Done
    BY <1>1 DEF recvfrom
  <2>2. /\ b \in Remotes /\ b[1] = sock[s].fam /\ q \in Sock /\ Queued(q)
        /\ q.fam = sock[s].fam /\ q.flags = sock[s].flags /\ q.local = sock[s].local
        /\ q.peer = sock[s].peer
    BY <1>1, Dequeue
  <2>3. a \in LinuxAddrs /\ b \in BsdAddrs
    BY <2>2, RemoteTrip, CopiedIn
  <2>4. w \in BOOLEAN /\ (w => linux_addr_to_bsd_addr(a) = b)
    <3>1. LinuxLen(a) \in Nat /\ Told(b, cap) \in Nat /\ Told(b, cap) <= cap
      BY ToldShort DEF LinuxLen, Told
    <3>2. w => LinuxLen(a) <= cap
      BY <3>1
    <3> QED  BY <2>2, <3>2, CopiedWhole, RemoteTrip
  <2>5. sock' = [sock EXCEPT ![s] = q] /\ prog' = [prog EXCEPT ![s] = p]
    BY <2>1, Records DEF State, TypeOK
  <2> HIDE DEF a, b, q, w
  <2>6. /\ p \in Prog /\ p.from = a /\ p.sender = b /\ (p.holds = "whole" <=> w)
        /\ p.name = prog[s].name /\ p.dest = prog[s].dest /\ p.flags = prog[s].flags
    BY <2>3, <2>4, Records, ReceivedIn
  <2> HIDE DEF p
  <2>7. Good(q, p)
    BY <2>2, <2>4, <2>6, Records DEF Good, Named, Sender, Flags
  <2>8. State'
    BY <2>2, <2>5, <2>6, <2>7, Update
  <2> QED  BY <2>1, <2>8, PlainCall DEF Plain
<1>2. CASE Quiet(s)
  <2>1. PICK junk \in BsdAddrs : prog' = [prog EXCEPT ![s] = Spoiled(@, junk, cap)]
    BY <1>2 DEF recvfrom
  <2> DEFINE p == Spoiled(prog[s], junk, cap)
  <2>2. Error("recvfrom", s, 35) /\ UNCHANGED sock
    BY <1>2 DEF recvfrom
  <2>3. prog' = [prog EXCEPT ![s] = p] /\ sock' = [sock EXCEPT ![s] = sock[s]]
    BY <2>1, <2>2, Records DEF State, TypeOK
  <2>4. \/ p = prog[s]
        \/ /\ p \in Prog /\ p.holds = "other" /\ p.name = prog[s].name
           /\ p.dest = prog[s].dest /\ p.flags = prog[s].flags
    BY Records, SpoiledIn
  <2> HIDE DEF p
  <2>5. p \in Prog /\ Good(sock[s], p)
    BY <2>4, Records DEF Good, Named, Sender, Flags
  <2>6. State'
    BY <2>3, <2>5, Records, Update
  <2>7. Errno("recvfrom", 35) = 11
    BY DEF Errno
  <2> QED  BY <2>2, <2>6, <2>7, PlainCall DEF Plain
<1> QED  BY <1>1, <1>2

LEMMA SendtoStep ==
  ASSUME Inv, NEW s \in Fds, NEW a \in Addrs, sendto(s, a)
  PROVE  Inv'
<1> State
  BY DEF Inv
<1> DEFINE b == linux_addr_to_bsd_addr(a)
<1>1. CASE \E e \in {EINVAL, Refused, 35} : Fail("sendto", s, e)
  BY <1>1, FailedCall DEF Errno, EINVAL, Refused
<1>2. CASE Done /\ UNCHANGED <<sock, prog>>
  BY <1>2, Same, PlainCall DEF Plain
<1> QED  BY <1>1, <1>2 DEF sendto, Transmit

LEMMA ReplyStep ==
  ASSUME Inv, NEW s \in Fds, reply(s)
  PROVE  Inv'
<1> State
  BY DEF Inv
<1> DEFINE b == linux_addr_to_bsd_addr(prog[s].from)
<1>1. prog[s].holds = "whole" => b = prog[s].sender /\ Fits(s, b)
  BY Records DEF Good, Sender, reply, Fits
<1>2. /\ \/ ~Fits(s, b) /\ Error("reply", s, EINVAL)
         \/ \E e \in {Refused, 35} : Error("reply", s, e)
         \/ Return("reply", s, NoAddr, 0, b)
      /\ UNCHANGED <<sock, prog>>
  BY DEF reply, Transmit, Fail
<1>3. Errno("reply", 35) = 11 /\ Errno("reply", Refused) = Refused /\ Errno("reply", EINVAL) = 22
  BY DEF Errno, Refused, EINVAL
<1>4. /\ call'.op = "reply" /\ call'.errno \notin {35, 36} /\ call'.fd = s
      /\ call'.ret = 0 => call'.dst = b
      /\ call'.ret # 0 => ~Fits(s, b) \/ call'.errno \in {11, Refused}
  BY <1>2, <1>3 DEF Error, Return, Refused
<1>5. State' /\ prog' = prog
  BY <1>2, Same
<1>6. ReplyReachesSender'
  BY <1>1, <1>4, <1>5 DEF ReplyReachesSender
<1> QED
  BY <1>4, <1>5, <1>6, StateFlags DEF Inv, NamesKept, NonblockingKept, Nonblocking

LEMMA FcntlStep ==
  ASSUME Inv, NEW s \in Fds, NEW how \in {"add", "remove", "keep"}, fcntl(s, how)
  PROVE  Inv'
<1> State
  BY DEF Inv
<1> DEFINE old == sock[s].flags
           new == setfl(Edited(how, getfl(old)))
           asked == Edited(how, prog[s].flags)
           q == [sock[s] EXCEPT !.flags = new]
           p == [prog[s] EXCEPT !.flags = asked]
<1>1. /\ sock' = [sock EXCEPT ![s].flags = new] /\ prog' = [prog EXCEPT ![s].flags = asked]
      /\ Done
  BY DEF fcntl
<1>2. /\ old \in SUBSET {1, 2, 4} /\ prog[s].flags \in SUBSET {1, 2, 2048}
      /\ 2048 \in prog[s].flags => 4 \in old
  BY Records DEF Sock, Prog, Good, Flags
<1> HIDE DEF old
<1>3. /\ new \in SUBSET {1, 2, 4} /\ asked \in SUBSET {1, 2, 2048}
      /\ 2048 \in asked => 4 \in new
  BY <1>2, FlagTrip
<1> USE DEF old
<1>4. sock' = [sock EXCEPT ![s] = q] /\ prog' = [prog EXCEPT ![s] = p]
  BY <1>1
<1> HIDE DEF new, asked
<1>5. /\ q \in Sock /\ q.inq = sock[s].inq /\ q.fam = sock[s].fam /\ q.local = sock[s].local
      /\ q.peer = sock[s].peer /\ q.flags = new
  BY <1>3, Records DEF Sock
<1>6. /\ p \in Prog /\ p.name = prog[s].name /\ p.dest = prog[s].dest /\ p.from = prog[s].from
      /\ p.sender = prog[s].sender /\ p.flags = asked /\ p.holds = prog[s].holds
  BY <1>3, Records DEF Prog
<1> HIDE DEF q, p
<1>7. Good(q, p)
  BY <1>3, <1>5, <1>6, Records DEF Good, Queued, Named, Sender, Flags
<1>8. State'
  BY <1>4, <1>5, <1>6, <1>7, Update
<1> QED  BY <1>1, <1>8, PlainCall DEF Plain

\* What is told of a bound or connected internet address is that address, unless the
\* length shows that it is cut.
LEMMA NameTold ==
  ASSUME NEW a \in LinuxAddrs, Internet(a), NEW cap \in Nat, NEW b, b = linux_addr_to_bsd_addr(a),
         Told(b, cap) >= LinuxLen(Copied(b, cap))
  PROVE  Copied(b, cap) = a
<1>1. LinuxLen(Copied(b, cap)) \in Nat /\ Told(b, cap) \in Nat /\ Told(b, cap) <= cap
  BY ToldShort DEF LinuxLen, Told
<1>2. LinuxLen(Copied(b, cap)) <= cap
  BY <1>1
<1> QED  BY <1>2, CopiedWhole, RoundTrip

LEMMA GetnameStep ==
  ASSUME Inv, NEW s \in Fds, NEW cap \in Caps, getsockname(s, cap) \/ getpeername(s, cap)
  PROVE  Inv'
<1> State
  BY DEF Inv
<1>1. CASE Fail("getpeername", s, Refused)
  BY <1>1, FailedCall DEF Errno, Refused
<1>2. ASSUME NEW op \in {"getsockname", "getpeername"}, NEW b,
             Return(op, s, Copied(b, cap), Told(b, cap), NoAddr), UNCHANGED <<sock, prog>>,
             b = IF op = "getsockname" THEN sock[s].local ELSE sock[s].peer
      PROVE  Inv'
  <2>1. State' /\ prog' = prog
    BY <1>2, Same
  <2>2. call'.op = op /\ call'.fd = s /\ call'.addr = Copied(b, cap) /\ call'.errno = 0
        /\ call'.len = Told(b, cap)
    BY <1>2 DEF Return
  <2>3. prog[s].name \in LinuxAddrs /\ prog[s].dest \in LinuxAddrs
    BY Records DEF Prog
  <2>4. /\ Internet(prog[s].name) => sock[s].local = linux_addr_to_bsd_addr(prog[s].name)
        /\ Internet(prog[s].dest) => sock[s].peer = linux_addr_to_bsd_addr(prog[s].dest)
    BY Records DEF Good, Named
  <2>5. NamesKept'
    <3>1. cap \in Nat
      BY SocketsAssumption
    <3> QED  BY <1>2, <2>1, <2>2, <2>3, <2>4, <3>1, NameTold DEF NamesKept
  <2> QED
    BY <2>1, <2>2, <2>5, StateFlags DEF Inv, ReplyReachesSender, NonblockingKept, Nonblocking
<1> QED  BY <1>1, <1>2 DEF getsockname, getpeername

LEMMA ArriveStep ==
  ASSUME Inv, NEW s \in Fds, NEW r \in Remotes, Arrive(s, r)
  PROVE  Inv'
<1> State
  BY DEF Inv
<1> DEFINE new == Append(sock[s].inq, r)
           q == [sock[s] EXCEPT !.inq = new]
<1>1. r[1] = sock[s].fam /\ UNCHANGED <<prog, call>> /\ sock' = [sock EXCEPT ![s] = q]
  BY DEF Arrive
<1>2. sock[s].inq \in Seq(Remotes) /\ \A k \in 1..Len(sock[s].inq) : sock[s].inq[k][1] = sock[s].fam
  BY Records DEF Sock, Good, Queued
<1>3. new \in Seq(Remotes) /\ \A k \in 1..Len(new) : new[k][1] = sock[s].fam
  BY <1>1, <1>2
<1> HIDE DEF new
<1>4. /\ q \in Sock /\ q.inq = new /\ q.fam = sock[s].fam /\ q.local = sock[s].local
      /\ q.peer = sock[s].peer /\ q.flags = sock[s].flags
  BY <1>3, Records DEF Sock
<1>5. Good(q, prog[s])
  BY <1>3, <1>4, Records DEF Good, Queued, Named, Sender, Flags
<1>6. sock'[s].peer = sock[s].peer /\ \A t \in Fds : t # s => sock'[t] = sock[t]
  BY <1>1, <1>4 DEF State, TypeOK
<1>7. State'
  <2>1. prog' = [prog EXCEPT ![s] = prog[s]] /\ prog[s] \in Prog
    BY <1>1, Records
  <2>2. q \in Sock
    BY <1>4
  <2> HIDE DEF q
  <2> QED  BY <1>1, <1>5, <2>1, <2>2, Update
<1>8. \A t : call.fd = t /\ call.op = "accept" /\ call.addr # NoAddr => sock'[t].peer = sock[t].peer
  BY <1>1, <1>6, Records DEF State, TypeOK
<1>9. NamesKept'
  BY <1>1, <1>8 DEF Inv, NamesKept
<1> QED
  BY <1>1, <1>7, <1>9, StateFlags DEF Inv, ReplyReachesSender, NonblockingKept, Nonblocking

-----------------------------------------------------------------------------

LEMMA NextInv == Inv /\ [Next]_vars => Inv'
<1> SUFFICES ASSUME Inv, [Next]_vars  PROVE Inv'
  OBVIOUS
<1>1. CASE UNCHANGED vars
  BY <1>1, Same DEF vars, Inv, NamesKept, ReplyReachesSender, NonblockingKept, Nonblocking
<1>2. CASE Next
  BY <1>2, SocketStep, BindStep, ConnectStep, SendtoStep, AcceptStep, RecvfromStep, GetnameStep,
     TransferStep, FcntlStep, CloseStep, ListenStep, ReplyStep, ArriveStep DEF Next
<1> QED  BY <1>1, <1>2

THEOREM Invariance == Spec => []Inv
BY InitInv, NextInv, PTL DEF Spec

\* The state of the socket calls stays well typed.
THEOREM TypeCorrect == Spec => []TypeOK
<1>1. Inv => TypeOK  BY DEF Inv, State
<1> QED  BY <1>1, Invariance, PTL

\* For any descriptors, addresses and lengths, an internet address the program is told is
\* the one it has bound or connected to, or that of the host accept found, unless the length
\* it finds is shorter than the address.
THEOREM NamesAreKept == Spec => []NamesKept
<1>1. Inv => NamesKept  BY DEF Inv
<1> QED  BY <1>1, Invariance, PTL

\* For any remote hosts, and through failed recvfrom calls that write nothing, an answer
\* leaves for the sender as long as the buffer holds its whole address.
THEOREM RepliesReachSender == Spec => []ReplyReachesSender
<1>1. Inv => ReplyReachesSender  BY DEF Inv
<1> QED  BY <1>1, Invariance, PTL

\* Through any sequence of fcntl calls a socket made non-blocking stays so, and
\* all its calls but read, write and accept fail with the Linux number when they would wait.
THEOREM NonblockingIsKept == Spec => []NonblockingKept
<1>1. Inv => NonblockingKept  BY DEF Inv
<1> QED  BY <1>1, Invariance, PTL
=============================================================================
