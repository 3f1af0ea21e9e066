-------------------------------- MODULE Sockets --------------------------------
(***************************************************************************)
(* The socket calls of src/ldr/glue.c: a Linux program names sockets with   *)
(* Linux addresses, flags and error numbers, the kernel below is FreeBSD's. *)
(* A single thread of the program calls; remote hosts send at any time.     *)
(***************************************************************************)
EXTENDS Integers, Sequences

CONSTANTS
  Fds, None,
  Addrs,     \* addresses the program may pass: <<family, rest>>
  Own,       \* those of the console itself, and paths
  Remotes,   \* addresses of remote hosts, as the kernel writes them
  Metadata,  \* 169.254.169.254
  BsdPath,   \* build_fake_path and the cut to 104 bytes, a function of a path
  Junk,      \* what an address the kernel has not written may be
  Caps,      \* lengths the program passes for the address it wants to get
  QueueMax   \* bound: datagrams or connections the kernel queues

\* Families: AF_UNIX, AF_INET, and AF_INET6 in the numbers of Linux and of FreeBSD.
Internet(a) == a[1] \in {2, 10}
Paths == {a \in Addrs : a[1] = 1}

NoAddr == <<0, "none">>
NoPath == "none"

ASSUME SocketsAssumption ==
  /\ \A a \in Addrs : a = <<a[1], a[2]>> /\ a[1] \in Nat \ {0}
  /\ \A a \in Addrs : a[1] = 1 => a[2] \in DOMAIN BsdPath
  /\ \A b \in Remotes : b = <<b[1], b[2]>> /\ b[1] \in {2, 28}
  /\ NoPath \in DOMAIN BsdPath
  /\ Own \subseteq Addrs /\ Metadata \in Addrs /\ Metadata[1] = 2
  /\ Caps \subseteq Nat /\ QueueMax \in Nat

VARIABLES
  sock,  \* the kernel's sockets
  prog,  \* what the program knows of each: what it asked for and what it was told
  call   \* the last call: name, descriptor, result, errno, the address the program got
         \* and the length it finds for it, and the address the kernel was given
vars == <<sock, prog, call>>

-----------------------------------------------------------------------------
(* Conversions *)

\* NoAddr stands for the length 0.
linux_addr_to_bsd_addr(a) ==
  IF a[1] = 2 THEN a
  ELSE IF a[1] = 10 THEN <<28, a[2]>>
  ELSE IF a[1] = 1 THEN <<1, BsdPath[a[2]]>> ELSE NoAddr

\* The path of a unix address is not given back.
bsd_addr_to_linux_addr(b) ==
  IF b[1] = 2 THEN b
  ELSE IF b[1] = 28 THEN <<10, b[2]>>
  ELSE IF b[1] = 1 THEN <<1, NoPath>> ELSE NoAddr

LinuxLen(a) == IF a[1] = 2 THEN 16 ELSE IF a[1] = 10 THEN 28 ELSE IF a[1] = 1 THEN 110 ELSE 0

\* What is in the caller's buffer, of cap bytes, once at most that many are copied: the
\* family and the first bytes of an address that is longer.  A unix address has no more.
Copied(b, cap) ==
  LET a == bsd_addr_to_linux_addr(b) IN
  IF LinuxLen(a) <= cap \/ a[1] = 1 THEN a ELSE <<a[1], "torn">>

\* Mutant: the length is reported as it was before the cut.
Told_Uncut(b, cap) == LinuxLen(bsd_addr_to_linux_addr(b))
\* The length the program is told: what was copied.  accept tells it nothing.
Told(b, cap) ==
  LET l == LinuxLen(bsd_addr_to_linux_addr(b)) IN IF l <= cap THEN l ELSE cap

ENOSYS == 78
EHOSTUNREACH == 65
EINVAL == 22
Refused == 1  \* any other error of the kernel

\* EINPROGRESS after connect, EAGAIN after these four; nothing else is translated, so
\* after accept, read and write the program gets FreeBSD's EAGAIN.
Errno(op, e) ==
  IF op = "connect" /\ e = 36 THEN 115
  ELSE IF op \in {"send", "recv", "sendto", "reply", "recvfrom"} /\ e = 35 THEN 11 ELSE e

\* Mutant: F_GETFL returns the kernel's flags.
getfl_Raw(q) == q
\* fcntl: the access mode and O_NONBLOCK, which is 2048 for Linux and 4 for FreeBSD.
getfl(q) == (q \cap {1, 2}) \cup (IF 4 \in q THEN {2048} ELSE {})
setfl(arg) == (arg \cap {1, 2}) \cup (IF 2048 \in arg THEN {4} ELSE {})

-----------------------------------------------------------------------------
(* State *)

New(k, f) ==
  [kind |-> k, fam |-> f, local |-> NoAddr, peer |-> NoAddr, flags |-> {2}, inq |-> <<>>]
Free == New("free", 0)
Fresh == [flags |-> {2}, name |-> NoAddr, dest |-> NoAddr, from |-> NoAddr, sender |-> NoAddr,
          holds |-> "other"]

BsdAddrs == {NoAddr} \cup Remotes \cup {linux_addr_to_bsd_addr(a) : a \in Addrs}
LinuxAddrs ==
  Addrs \cup {bsd_addr_to_linux_addr(b) : b \in BsdAddrs} \cup {<<f, "torn">> : f \in {2, 10}}
Kinds == {"free", "dgram", "stream", "listen"}

Sock == [kind : Kinds, fam : {0, 1, 2, 28}, local : BsdAddrs, peer : BsdAddrs,
         flags : SUBSET {1, 2, 4}, inq : Seq(Remotes)]
Prog == [flags : SUBSET {1, 2, 2048}, name : LinuxAddrs, dest : LinuxAddrs,
         from : LinuxAddrs,   \* the buffer that it passes to recvfrom
         sender : BsdAddrs,   \* whose datagram it has received last
         holds : {"whole", "other"}]  \* history: whether the buffer holds all the address of
                                      \* that one, and the program has been told so

TypeOK == sock \in [Fds -> Sock] /\ prog \in [Fds -> Prog]

NoCall == [op |-> "none", fd |-> None, ret |-> 0, errno |-> 0, addr |-> NoAddr, len |-> 0,
           dst |-> NoAddr]

Init ==
  /\ sock = [s \in Fds |-> Free] /\ prog = [s \in Fds |-> Fresh]
  /\ call = NoCall

Nonblocking(s) == 4 \in sock[s].flags
Quiet(s) == sock[s].inq = <<>>

\* A call that tells the program of an address, or gives one to the kernel; any other
\* that succeeds; and one that fails.
Return(op, s, addr, len, dst) ==
  call' = [op |-> op, fd |-> s, ret |-> 0, errno |-> 0, addr |-> addr, len |-> len, dst |-> dst]
Done == call' = NoCall
\* Of a failed call the descriptor only counts in an answer.
Error(op, s, e) ==
  call' = [op |-> op, fd |-> IF op = "reply" THEN s ELSE None, ret |-> -1,
           errno |-> Errno(op, e), addr |-> NoAddr, len |-> 0, dst |-> NoAddr]
Fail(op, s, e) == Error(op, s, e) /\ UNCHANGED <<sock, prog>>

\* A Linux address the kernel accepts for this socket, not counting its own reasons.
Fits(s, b) == b # NoAddr /\ b[1] = sock[s].fam

-----------------------------------------------------------------------------
(* Calls *)

socket(s, domain, k) ==
  /\ sock[s].kind = "free"
  /\ sock' = [sock EXCEPT ![s] = New(k, IF domain = 10 THEN 28 ELSE domain)]
  /\ prog' = [prog EXCEPT ![s] = Fresh]
  /\ Done

close(s) ==
  /\ sock[s].kind # "free"
  /\ sock' = [sock EXCEPT ![s] = Free] /\ prog' = [prog EXCEPT ![s] = Fresh]
  /\ Done

bind(s, a) ==
  LET b == linux_addr_to_bsd_addr(a) IN
  /\ sock[s].kind \in {"dgram", "stream"}
  /\ \/ b = NoAddr /\ Fail("bind", s, ENOSYS)
     \/ b # NoAddr /\ Fail("bind", s, Refused)
     \/ /\ a \in Own /\ Fits(s, b) /\ sock[s].local = NoAddr /\ \A t \in Fds : sock[t].local # b
        /\ sock' = [sock EXCEPT ![s].local = b] /\ prog' = [prog EXCEPT ![s].name = a]
        /\ Done

listen(s) ==
  /\ sock[s].kind = "stream" /\ sock[s].local # NoAddr /\ sock[s].peer = NoAddr
  /\ sock' = [sock EXCEPT ![s].kind = "listen"] /\ UNCHANGED prog
  /\ Done

\* A call in progress is one the program will find connected.
connect(s, a) ==
  LET b == linux_addr_to_bsd_addr(a) IN
  /\ sock[s].kind \in {"dgram", "stream"}
  /\ \/ b = NoAddr /\ Fail("connect", s, ENOSYS)
     \/ a = Metadata /\ Fail("connect", s, EHOSTUNREACH)
     \/ b # NoAddr /\ a # Metadata /\ Fail("connect", s, Refused)
     \/ /\ b \in Remotes \/ a \in Paths
        /\ Fits(s, b) /\ a # Metadata /\ sock[s].peer = NoAddr
        /\ sock' = [sock EXCEPT ![s].peer = b] /\ prog' = [prog EXCEPT ![s].dest = a]
        /\ \/ Done
           \/ Nonblocking(s) /\ sock[s].kind = "stream" /\ Error("connect", s, 36)

\* The kernel hands the listener's flags on, which Linux does not.  The length stays what
\* the program has passed.
accept(s, t, cap) ==
  /\ sock[s].kind = "listen"
  /\ \/ Quiet(s) /\ Nonblocking(s) /\ Fail("accept", s, 35)
     \/ /\ ~Quiet(s) /\ sock[t].kind = "free"
        /\ LET b == Head(sock[s].inq)
           IN /\ sock' = [sock EXCEPT
                   ![s].inq = Tail(@),
                   ![t] = [kind |-> "stream", fam |-> sock[s].fam, local |-> sock[s].local,
                           peer |-> b, flags |-> sock[s].flags, inq |-> <<>>]]
              /\ prog' = [prog EXCEPT ![t] = [Fresh EXCEPT !.name = prog[s].name]]
              /\ Return("accept", t, Copied(b, cap), cap, NoAddr)

\* send, recv, read and write on a connection, of whose data nothing is kept.
transfer(s, op) ==
  /\ sock[s].kind = "stream" /\ sock[s].peer # NoAddr
  /\ \/ Nonblocking(s) /\ Fail(op, s, 35)
     \/ Fail(op, s, Refused)
     \/ Done /\ UNCHANGED <<sock, prog>>

\* The program's record p once a datagram from b has come, with a in the buffer.
Received(p, a, b, whole) ==
  [p EXCEPT !.from = a, !.sender = b, !.holds = IF whole THEN "whole" ELSE "other"]

\* What a failed call leaves in the buffer: of junk, an address the kernel has not written,
\* the conversion, if it has one.
Spoiled(p, junk, cap) ==
  LET a == Copied(junk, cap) IN
  IF a = NoAddr THEN p ELSE [p EXCEPT !.from = a, !.holds = "other"]

\* Mutant: the address is converted before the kernel has written it.
recvfrom_Early(s, cap) ==
  /\ sock[s].kind = "dgram" /\ ~Quiet(s)
  /\ \E junk \in Junk \cap BsdAddrs :
       prog' = [prog EXCEPT ![s] =
                  Received(@, Copied(junk, cap), Head(sock[s].inq), junk # NoAddr)]
  /\ sock' = [sock EXCEPT ![s].inq = Tail(@)]
  /\ Done

recvfrom(s, cap) ==
  /\ sock[s].kind = "dgram"
  /\ \/ /\ ~Quiet(s)
        /\ LET b == Head(sock[s].inq)
               a == Copied(b, cap)
           IN prog' = [prog EXCEPT ![s] = Received(@, a, b, LinuxLen(a) <= Told(b, cap))]
        /\ sock' = [sock EXCEPT ![s].inq = Tail(@)]
        /\ Done
     \/ /\ Quiet(s) /\ Nonblocking(s)
        /\ \E junk \in Junk \cap BsdAddrs : prog' = [prog EXCEPT ![s] = Spoiled(@, junk, cap)]
        /\ Error("recvfrom", s, 35)
        /\ UNCHANGED sock

\* The length 0 of an address that has no conversion is passed on.
Transmit(op, s, a) ==
  LET b == linux_addr_to_bsd_addr(a) IN
  /\ sock[s].kind = "dgram"
  /\ \/ ~Fits(s, b) /\ Fail(op, s, EINVAL)
     \/ Fits(s, b) /\ Fail(op, s, Refused)
     \/ Nonblocking(s) /\ Fits(s, b) /\ Fail(op, s, 35)
     \/ /\ Fits(s, b) /\ UNCHANGED <<sock, prog>>
        /\ IF op = "reply" THEN Return(op, s, NoAddr, 0, b) ELSE Done
sendto(s, a) == Transmit("sendto", s, a)

\* The program answers the last datagram it has received, with what is in the buffer; its
\* length is not looked at.
reply(s) == prog[s].sender # NoAddr /\ Transmit("reply", s, prog[s].from)

\* The program reads the flags and writes them back with O_NONBLOCK added or removed,
\* or as they are.
Edited(how, F) ==
  IF how = "add" THEN F \cup {2048} ELSE IF how = "remove" THEN F \ {2048} ELSE F

fcntl(s, how) ==
  /\ sock[s].kind # "free"
  /\ sock' = [sock EXCEPT ![s].flags = setfl(Edited(how, getfl(@)))]
  /\ prog' = [prog EXCEPT ![s].flags = Edited(how, @)]
  /\ Done

getsockname(s, cap) ==
  /\ sock[s].local # NoAddr
  /\ LET b == sock[s].local IN Return("getsockname", s, Copied(b, cap), Told(b, cap), NoAddr)
  /\ UNCHANGED <<sock, prog>>

getpeername(s, cap) ==
  /\ sock[s].kind # "free"
  /\ \/ sock[s].peer = NoAddr /\ Fail("getpeername", s, Refused)
     \/ /\ sock[s].peer # NoAddr
        /\ LET b == sock[s].peer IN Return("getpeername", s, Copied(b, cap), Told(b, cap), NoAddr)
        /\ UNCHANGED <<sock, prog>>

\* A remote host sends a datagram, or asks for a connection.
Arrive(s, r) ==
  /\ sock[s].kind \in {"dgram", "listen"} /\ sock[s].local # NoAddr
  /\ r[1] = sock[s].fam /\ Len(sock[s].inq) < QueueMax
  /\ sock' = [sock EXCEPT ![s].inq = Append(@, r)]
  /\ UNCHANGED <<prog, call>>

Next ==
  \E s \in Fds :
    \/ \E d \in {1, 2, 10}, k \in {"dgram", "stream"} : socket(s, d, k)
    \/ \E a \in Addrs : bind(s, a) \/ connect(s, a) \/ sendto(s, a)
    \/ \E t \in Fds, cap \in Caps : accept(s, t, cap)
    \/ \E cap \in Caps : recvfrom(s, cap) \/ getsockname(s, cap) \/ getpeername(s, cap)
    \/ \E op \in {"send", "recv", "read", "write"} : transfer(s, op)
    \/ \E how \in {"add", "remove", "keep"} : fcntl(s, how)
    \/ close(s) \/ listen(s) \/ reply(s)
    \/ \E r \in Remotes : Arrive(s, r)

Spec == Init /\ [][Next]_vars

-----------------------------------------------------------------------------
(* Properties *)

\* The Linux address a and the kernel's address b are the same internet address.
SameHost(a, b) == a[2] = b[2] /\ <<a[1], b[1]>> \in {<<2, 2>>, <<10, 28>>}

\* glue.c: the internet address the program has bound or connected to is the one it is
\* told when it asks for the name or the peer, and accept tells who has connected: unless
\* the buffer was too short, and then the length the program finds shows it.
NamesKept ==
  call.addr # NoAddr /\ call.len >= LinuxLen(call.addr) =>
    /\ call.op = "getsockname" /\ Internet(prog[call.fd].name) => call.addr = prog[call.fd].name
    /\ call.op = "getpeername" /\ Internet(prog[call.fd].dest) => call.addr = prog[call.fd].dest
    /\ call.op = "accept" => SameHost(call.addr, sock[call.fd].peer)

\* glue.c: an answer leaves for the host whose datagram the program has received last, and
\* its address is never what makes it fail; unless the buffer was too short for it, or a
\* recvfrom has failed since and put into the buffer what the kernel had not written.
ReplyReachesSender ==
  call.op = "reply" /\ prog[call.fd].holds = "whole" =>
    IF call.ret = 0 THEN call.dst = prog[call.fd].sender ELSE call.errno \in {11, Refused}

\* glue.c: a socket the program has made non-blocking stays so; and send, recv, sendto,
\* recvfrom and connect, when they would wait, fail with the Linux number of that error.
\* read, write and accept are the ones that give FreeBSD's.
NonblockingKept ==
  /\ \A s \in Fds : 2048 \in prog[s].flags => Nonblocking(s)
  /\ call.errno \in {35, 36} => call.op \in {"accept", "read", "write"}
===============================================================================
