------------------------------- MODULE MCSockets -------------------------------
(* Model-checking instance of the socket calls. *)
EXTENDS Sockets, TLC
MCOwn == {<<2, "a">>, <<10, "a">>, <<1, "p">>}
MCMetadata == <<2, "meta">>
MCRemotes == {<<2, "b">>, <<28, "b">>}
MCAddrs == MCOwn \cup {<<2, "b">>, <<10, "b">>, MCMetadata, <<17, "x">>}
MCJunk == {NoAddr, <<28, "b">>}
MCBsdPath == [p \in {"p", NoPath} |-> "fake"]
Symmetry == Permutations(Fds)
===============================================================================
