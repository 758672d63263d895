---------------------------- MODULE RdpSessions ----------------------------
(***************************************************************************)
(* The live RDP sessions of one user and the launches that attach to them: *)
(* rows of rdp_live_sessions, and the row of connection_sessions that each *)
(* launch inserts.  A session is a row and nothing more: nobody holds a    *)
(* lock, so a launch acts on what it has read before.  One step of an      *)
(* action is what happens between two awaits of the code.                  *)
(***************************************************************************)
EXTENDS Naturals, FiniteSets

CONSTANTS
  Sessions,   \* the rows that can be created
  Launches,   \* calls of createLiveRdpSession and attachLiveRdpSession
  MaxOpen,    \* maxLiveSessionsPerUser
  NoSession   \* none of them

ASSUME RdpAssumption ==
  IsFiniteSet(Sessions) /\ MaxOpen \in Nat \ {0} /\ NoSession \notin Sessions

VARIABLES
  host,      \* the RDP host exists
  live,      \* status of each row of rdp_live_sessions
  pc,        \* where each launch is
  of,        \* the session each launch is about
  row,       \* status of the connection row of each launch
  stale,     \* launches that have counted before another session opened (history)
  outrun,    \* sessions inserted on such a count (history)
  revived    \* sessions opened again by a launch that had read them open (history)

sessionVars == <<live, stale, outrun, revived>>
launchVars  == <<pc, of>>
serverVars  == <<host, sessionVars, launchVars, row>>

-----------------------------------------------------------------------------
Open       == {s \in Sessions : live[s] \in {"detached", "active"}}
Settled    == {"ended", "failed"}
InFlight   == {"counted", "attach", "checked", "prepared", "ticketed",
               "started", "failing", "unread"}
Places     == InFlight \cup {"idle", "refused", "error", "answered"}
RowStatus  == {"none", "starting", "active"} \cup Settled
LiveStatus == {"none", "detached", "active", "deleted"} \cup Settled

ServerInit ==
  /\ host = TRUE
  /\ live = [s \in Sessions |-> "none"]
  /\ pc = [l \in Launches |-> "idle"]
  /\ of = [l \in Launches |-> NoSession]
  /\ row = [l \in Launches |-> "none"]
  /\ stale = {} /\ outrun = {} /\ revived = {}

ServerTypeOK ==
  /\ host \in BOOLEAN
  /\ live \in [Sessions -> LiveStatus]
  /\ pc \in [Launches -> Places]
  /\ of \in [Launches -> Sessions \cup {NoSession}]
  /\ row \in [Launches -> RowStatus]
  /\ stale \subseteq Launches
  /\ outrun \subseteq Sessions /\ revived \subseteq Sessions

Counted == {l \in Launches : pc[l] = "counted"}

Goto(l, from, to) == pc[l] = from /\ pc' = [pc EXCEPT ![l] = to]

-----------------------------------------------------------------------------
(* Creating a session                                                      *)

\* Mutant of Count: one session too many passes
CountLoosely(l) ==
  /\ host
  /\ Goto(l, "idle", IF Cardinality(Open) > MaxOpen THEN "refused" ELSE "counted")
  /\ UNCHANGED <<host, sessionVars, of, row>>

\* create reads the host, then the user's sessions, and counts the open ones
Count(l) ==
  /\ host
  /\ Goto(l, "idle", IF Cardinality(Open) >= MaxOpen THEN "refused" ELSE "counted")
  /\ UNCHANGED <<host, sessionVars, of, row>>

\* The INSERT; it fails when the host is gone
Insert(l) ==
  \/ /\ host
     /\ Goto(l, "counted", "attach")
     /\ \E s \in Sessions :
          /\ live[s] = "none"
          /\ live' = [live EXCEPT ![s] = "detached"]
          /\ of' = [of EXCEPT ![l] = s]
          /\ outrun' = IF l \in stale THEN outrun \cup {s} ELSE outrun
     /\ stale' = stale \cup Counted
     /\ UNCHANGED <<host, revived, row>>
  \/ /\ ~host
     /\ Goto(l, "counted", "error")
     /\ UNCHANGED <<host, sessionVars, of, row>>

-----------------------------------------------------------------------------
(* Attaching to one                                                        *)

Attach(l, s) ==
  /\ live[s] # "none"
  /\ Goto(l, "idle", "attach")
  /\ of' = [of EXCEPT ![l] = s]
  /\ UNCHANGED <<host, sessionVars, row>>

\* getOpenSession, in prepareAttach
ReadOpen(l) ==
  /\ Goto(l, "attach", IF of[l] \in Open THEN "checked" ELSE "error")
  /\ UNCHANGED <<host, sessionVars, of, row>>

\* The UPDATE of prepareAttach, by id: it opens the row whatever it says by now
Prepare(l) ==
  LET s == of[l] IN
    /\ Goto(l, "checked", IF live[s] = "deleted" THEN "error" ELSE "prepared")
    /\ live' = [live EXCEPT ![s] = IF @ = "deleted" THEN @ ELSE "active"]
    /\ IF live[s] \in Settled
       THEN revived' = revived \cup {s} /\ stale' = stale \cup Counted
       ELSE UNCHANGED <<revived, stale>>
    /\ UNCHANGED <<host, outrun, of, row>>

\* The host, the settings and the ticket; an error here is before the try and
\* leaves the row as it is
MintTicket(l) ==
  /\ \/ host /\ Goto(l, "prepared", "ticketed")
     \/ Goto(l, "prepared", "error")
  /\ UNCHANGED <<host, sessionVars, of, row>>

\* createRdpSessionLaunch consumes the ticket and starts the connection row
Authorize(l) ==
  \/ /\ host
     /\ Goto(l, "ticketed", "started")
     /\ row' = [row EXCEPT ![l] = "starting"]
     /\ UNCHANGED <<host, sessionVars, of>>
  \/ /\ Goto(l, "ticketed", "failing")
     /\ UNCHANGED <<host, sessionVars, of, row>>

\* bootstrap provisions the gateway's tokens; when that fails the connection
\* row is failed first, and an error of the UPDATE is swallowed
Bootstrap(l) ==
  \/ /\ Goto(l, "started", "answered")
     /\ UNCHANGED <<host, sessionVars, of, row>>
  \/ /\ Goto(l, "started", "failing")
     /\ row' \in {row, [row EXCEPT ![l] = "failed"]}
     /\ UNCHANGED <<host, sessionVars, of>>

\* fail reads the row ...
ReadFailing(l) ==
  /\ Goto(l, "failing", IF of[l] \in Open THEN "unread" ELSE "error")
  /\ UNCHANGED <<host, sessionVars, of, row>>

\* ... and updates it by id
Fail(l) ==
  /\ Goto(l, "unread", "error")
  /\ live' = [live EXCEPT ![of[l]] = IF @ = "deleted" THEN @ ELSE "failed"]
  /\ UNCHANGED <<host, stale, outrun, revived, of, row>>

-----------------------------------------------------------------------------
(* Everything else that changes the rows                                   *)

\* closeLiveRdpSession: one UPDATE, with no look at the status
CloseSession(s) ==
  /\ live[s] \notin {"none", "deleted"}
  /\ live' = [live EXCEPT ![s] = "ended"]
  /\ UNCHANGED <<host, stale, outrun, revived, launchVars, row>>

\* The foreign key of rdp_live_sessions cascades, that of connection_sessions
\* is set to null
DeleteHost ==
  /\ host /\ host' = FALSE
  /\ live' = [s \in Sessions |-> IF live[s] = "none" THEN "none" ELSE "deleted"]
  /\ UNCHANGED <<stale, outrun, revived, launchVars, row>>

\* The process stops: the launches under way are lost, the rows stay
Restart ==
  /\ \E l \in Launches : pc[l] \in InFlight
  /\ pc' = [l \in Launches |-> IF pc[l] \in InFlight THEN "error" ELSE pc[l]]
  /\ UNCHANGED <<host, sessionVars, of, row>>

ServerStep ==
  \/ \E l \in Launches :
       \/ Count(l) \/ Insert(l)
       \/ \E s \in Sessions : Attach(l, s)
       \/ ReadOpen(l) \/ Prepare(l) \/ MintTicket(l) \/ Authorize(l)
       \/ Bootstrap(l) \/ ReadFailing(l) \/ Fail(l)
  \/ \E s \in Sessions : CloseSession(s)
  \/ DeleteHost \/ Restart

-----------------------------------------------------------------------------
\* create's limit has no lock: it can be passed, but only by the sessions
\* inserted on a count that another session had made out of date, and by those
\* opened again by a launch that had read them before they were closed
LimitPassedOnlyByRaces ==
  Cardinality(Open \ (outrun \cup revived)) <= MaxOpen
=============================================================================
