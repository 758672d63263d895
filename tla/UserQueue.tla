----------------------------- MODULE UserQueue -----------------------------
(***************************************************************************)
(* What withUserCreateLock promises to the requests of one user: they are  *)
(* served one at a time, in the order in which they came.  It says nothing *)
(* of promises or of the map that holds the last of them; LiveSshCreate    *)
(* shows that those keep the promise.                                      *)
(***************************************************************************)
EXTENDS Sequences

CONSTANT Requests

VARIABLES
  queue,    \* the requests that are waiting or being served, in order of arrival
  served    \* those whose work has begun

line == <<queue, served>>

Waits(r) == \E i \in DOMAIN queue : queue[i] = r

Join(r) == ~Waits(r) /\ queue' = Append(queue, r) /\ served' = served

\* The first in the queue begins when nobody else is at work
Serve ==
  /\ queue # <<>> /\ served = {}
  /\ served' = {Head(queue)} /\ queue' = queue

\* ... and makes room for the next, whether it returned or threw
Finish ==
  /\ queue # <<>> /\ served = {Head(queue)}
  /\ served' = {} /\ queue' = Tail(queue)

\* The process that held the queue is gone
Lose == queue' = <<>> /\ served' = {}

Init == queue = <<>> /\ served = {}
Next == (\E r \in Requests : Join(r)) \/ Serve \/ Finish \/ Lose
Spec == Init /\ [][Next]_line
=============================================================================
