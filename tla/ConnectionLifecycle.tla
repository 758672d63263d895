------------------------ MODULE ConnectionLifecycle ------------------------
(***************************************************************************)
(* What the rows of connection_sessions promise to the readers of the      *)
(* history: a connection starts, may become active once, and settles for   *)
(* good.                                                                   *)
(***************************************************************************)
CONSTANT Conns

VARIABLE status

Settled == {"ended", "failed"}

Set(c, from, to) ==
  /\ status[c] \in from
  /\ \E s \in to : status' = [status EXCEPT ![c] = s]

Start(c)    == Set(c, {"none"}, {"starting"})
Activate(c) == Set(c, {"starting"}, {"active"})
Settle(c)   == Set(c, {"starting", "active"}, Settled)

Init == status = [c \in Conns |-> "none"]
Spec == Init /\ [][\E c \in Conns : Start(c) \/ Activate(c) \/ Settle(c)]_status
=============================================================================
