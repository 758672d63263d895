-------------------------- MODULE SessionLifecycle --------------------------
(***************************************************************************)
(* What the row of a live session promises to whoever lists sessions: the  *)
(* legal histories of its status, and whether it carries an expiry.  It    *)
(* says nothing of sockets, shells or tasks; LiveSsh shows that their      *)
(* races never leave these histories.                                      *)
(***************************************************************************)
VARIABLES
  status,   \* the row's status
  timed     \* the row has an expiresAt

life == <<status, timed>>

Live == {"starting", "attached", "detached"}

LifeInit == status = "starting" /\ timed = TRUE

\* Somebody attaches, for the first time or again: no timeout runs
Attach == status \in Live /\ status' = "attached" /\ timed' = FALSE

\* Nobody is attached: the idle timeout runs
Detach == status \in Live /\ status' = "detached" /\ timed' = TRUE

\* A live session ends by request, by expiry or by itself; a stale one is
\* only ever closed
End == /\ status \in Live \cup {"stale"} /\ status' = "ended"
       /\ timed' \in BOOLEAN

Fail == status \in Live /\ status' = "failed" /\ timed' = FALSE

\* The process that held the session is gone
Lose == status \in Live /\ status' = "stale" /\ timed' = timed

\* An attach ticket gives the row time
Extend == status' = status /\ timed' = TRUE

LifeNext == Attach \/ Detach \/ End \/ Fail \/ Lose \/ Extend

LifeSpec == LifeInit /\ [][LifeNext]_life
=============================================================================
