------------------------------ MODULE MCEventLoop ------------------------------
(* Model-checking instance of the event loop and the ethernet emulation. *)
EXTENDS EventLoop, TLC
CONSTANTS m1, m2
MCPeers == {"p1", "p2"}
MCHash == [p \in MCPeers |-> IF p = "p1" THEN 3 ELSE 4]
\* The first peer changes its MAC.
MCClaims == {<<"p1", m1>>, <<"p1", m2>>, <<"p2", m1>>}
\* Nobody waits to write to tun.
MCMasks == [fd \in Fds |-> IF fd = Tun THEN {{EPOLLIN}} ELSE {{EPOLLIN}, {EPOLLIN, EPOLLOUT}}]
===============================================================================
