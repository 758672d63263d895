------------------------------ MODULE RdpPane ------------------------------
(***************************************************************************)
(* The pane that shows a launch of RdpSessions: it loads the IronRDP       *)
(* component, connects through the gateway, and tells the server how the   *)
(* connection went.  A pane may try again on the launch it has.  The       *)
(* answers of api.connect and of session.run come back in any order, and   *)
(* so do the reports, each of which is a request of its own that may be    *)
(* lost.                                                                   *)
(***************************************************************************)
EXTENDS RdpSessions

CONSTANTS
  Panes,        \* the launches whose answer finds its page still there
  MaxAttempts   \* bound: connect attempts of one pane

ASSUME RdpPaneAssumption == Panes \subseteq Launches /\ MaxAttempts \in Nat

VARIABLES
  ui,        \* connectionState, or that the pane is not there
  api,       \* the component has handed over its api
  attempt,   \* connectAttemptId
  remote,    \* what has become of each attempt
  timer,     \* the attempt that connectTimeout was armed for, 0 if it is not armed
  said,      \* lifecycleFinalized, and by which report
  mail,      \* reports on their way to the server
  lost,      \* panes one of whose reports was lost (history)
  again,     \* panes that connected after they had reported their end (history)
  overtaken  \* panes whose end arrived before an earlier report (history)

paneVars == <<ui, api, attempt, remote, timer, said>>
pastVars == <<lost, again, overtaken>>
vars     == <<serverVars, paneVars, mail, pastVars>>

-----------------------------------------------------------------------------
Attempts == 1 .. MaxAttempts
Shown    == {"loading", "ready", "connecting", "connected", "error", "disconnected"}
Report   == [event : {"connected"} \cup Settled, by : 0 .. MaxAttempts]

Init ==
  /\ ServerInit
  /\ ui = [l \in Launches |-> "none"]
  /\ api = [l \in Launches |-> FALSE]
  /\ attempt = [l \in Launches |-> 0]
  /\ remote = [l \in Launches |-> [n \in Attempts |-> "none"]]
  /\ timer = [l \in Launches |-> 0]
  /\ said = [l \in Launches |-> "none"]
  /\ mail = [l \in Launches |-> {}]
  /\ lost = {} /\ again = {} /\ overtaken = {}

\* Types of the rows, the panes and the reports between them
TypeOK ==
  /\ ServerTypeOK
  /\ ui \in [Launches -> Shown \cup {"none", "gone"}]
  /\ api \in [Launches -> BOOLEAN]
  /\ attempt \in [Launches -> 0 .. MaxAttempts]
  /\ remote \in [Launches -> [Attempts -> {"none", "opening", "running", "unseen", "over"}]]
  /\ timer \in [Launches -> 0 .. MaxAttempts]
  /\ said \in [Launches -> {"none"} \cup Settled]
  /\ mail \in [Launches -> SUBSET Report]
  /\ lost \subseteq Launches /\ again \subseteq Launches /\ overtaken \subseteq Launches

-----------------------------------------------------------------------------
(* recordRdpLifecycle                                                      *)

Post(l, event) == mail' = [mail EXCEPT ![l] = @ \cup {[event |-> event, by |-> attempt[l]]}]

\* Mutant of SayEnd: nothing remembers that the end was reported
SayEndAgain(l, event) == said' = [said EXCEPT ![l] = event] /\ Post(l, event)

\* The first end or failure is reported, the later ones are not
SayEnd(l, event) ==
  IF said[l] = "none"
  THEN said' = [said EXCEPT ![l] = event] /\ Post(l, event)
  ELSE UNCHANGED <<said, mail>>

\* A connection is always reported
SayConnected(l) ==
  /\ Post(l, "connected")
  /\ again' = IF said[l] = "none" THEN again ELSE again \cup {l}

Show(l, state) == ui' = [ui EXCEPT ![l] = state]

Now(l, n, what) == remote' = [remote EXCEPT ![l][n] = what]

\* What the steps of a pane that say nothing about a connection leave alone
Quiet == UNCHANGED <<serverVars, pastVars>>

-----------------------------------------------------------------------------
(* The life of a pane                                                      *)

\* The answer with the launch reaches the browser and the pane is mounted
Mount(l) ==
  /\ l \in Panes /\ pc[l] = "answered" /\ ui[l] = "none"
  /\ Show(l, "loading")
  /\ Quiet /\ UNCHANGED <<api, attempt, remote, timer, said, mail>>

\* The component does not load, or it is ready without an api
MountFails(l) ==
  /\ ui[l] = "loading"
  /\ Show(l, "error") /\ SayEnd(l, "failed")
  /\ Quiet /\ UNCHANGED <<api, attempt, remote, timer>>

\* The synchronous part of connect, up to the call of api.connect
Connect(l) ==
  /\ attempt[l] < MaxAttempts   \* bound
  /\ Show(l, "connecting")
  /\ attempt' = [attempt EXCEPT ![l] = @ + 1]
  /\ timer' = [timer EXCEPT ![l] = attempt[l] + 1]
  /\ Now(l, attempt[l] + 1, "opening")
  /\ Quiet /\ UNCHANGED <<said, mail>>

\* handleReady: a staged password connects at once
Ready(l) ==
  /\ ui[l] = "loading"
  /\ api' = [api EXCEPT ![l] = TRUE]
  /\ \/ Show(l, "ready") /\ Quiet /\ UNCHANGED <<attempt, remote, timer, said, mail>>
     \/ Connect(l)

\* The user enters a password, for the first time or to try again
Submit(l) ==
  /\ ui[l] \in {"ready", "error", "disconnected"} /\ api[l]
  /\ Connect(l)
  /\ UNCHANGED api

\* Mutant of Opened: the answer is taken for the newest attempt's
OpenedAny(l, n) ==
  /\ ui[l] # "gone" /\ remote[l][n] = "opening"
  /\ IF ui[l] = "connecting"
     THEN /\ Show(l, "connected") /\ Now(l, n, "running")
          /\ timer' = [timer EXCEPT ![l] = 0] /\ SayConnected(l)
     ELSE Now(l, n, "unseen") /\ UNCHANGED <<ui, timer, mail, again>>
  /\ UNCHANGED <<serverVars, lost, overtaken, api, attempt, said>>

\* api.connect resolves: it counts if it is the newest attempt's and the pane
\* still waits for it; else the session stays as it is and nobody runs it
Opened(l, n) ==
  /\ ui[l] # "gone" /\ remote[l][n] = "opening"
  /\ IF ui[l] = "connecting" /\ n = attempt[l]
     THEN /\ Show(l, "connected") /\ Now(l, n, "running")
          /\ timer' = [timer EXCEPT ![l] = 0] /\ SayConnected(l)
     ELSE Now(l, n, "unseen") /\ UNCHANGED <<ui, timer, mail, again>>
  /\ UNCHANGED <<serverVars, lost, overtaken, api, attempt, said>>

\* api.connect is rejected: the handler asks neither for which attempt nor
\* whether it has been waited for
Rejected(l, n) ==
  /\ ui[l] # "gone" /\ remote[l][n] = "opening"
  /\ Show(l, "error") /\ Now(l, n, "over") /\ SayEnd(l, "failed")
  /\ timer' = [timer EXCEPT ![l] = 0]
  /\ Quiet /\ UNCHANGED <<api, attempt>>

\* The timeout: connectTimeout is left as it is, but it will not fire again
TimesOut(l) ==
  /\ timer[l] # 0
  /\ timer' = [timer EXCEPT ![l] = 0]
  /\ IF ui[l] = "connecting" /\ timer[l] = attempt[l]
     THEN Show(l, "error") /\ SayEnd(l, "failed")
     ELSE UNCHANGED <<ui, said, mail>>
  /\ Quiet /\ UNCHANGED <<api, attempt, remote>>

\* session.run resolves or is rejected, of this attempt or of one before
RunEnds(l, n) ==
  /\ ui[l] # "gone" /\ remote[l][n] = "running"
  /\ Now(l, n, "over")
  /\ \/ Show(l, "disconnected") /\ SayEnd(l, "ended")
     \/ Show(l, "error") /\ SayEnd(l, "failed")
  /\ Quiet /\ UNCHANGED <<api, attempt, timer>>

\* The user disconnects; session.run will hear of it
Disconnect(l) ==
  /\ ui[l] = "connected"
  /\ Show(l, "disconnected") /\ SayEnd(l, "ended")
  /\ Quiet /\ UNCHANGED <<api, attempt, remote, timer>>

\* Mutant of Dispose: the pane is closed without a report
DisposeSilently(l) ==
  /\ ui[l] \in Shown
  /\ Show(l, "gone") /\ timer' = [timer EXCEPT ![l] = 0]
  /\ Quiet /\ UNCHANGED <<api, attempt, remote, said, mail>>

\* The pane is closed, replaced or the page left in order
Dispose(l) ==
  /\ ui[l] \in Shown
  /\ Show(l, "gone") /\ timer' = [timer EXCEPT ![l] = 0]
  /\ SayEnd(l, IF ui[l] = "error" THEN "failed" ELSE "ended")
  /\ Quiet /\ UNCHANGED <<api, attempt, remote>>

-----------------------------------------------------------------------------
(* recordConnectionSessionLifecycleEvent: the owner is read, then the row  *)
(* is updated by id                                                        *)

Deliver(l, r) ==
  /\ r \in mail[l]
  /\ mail' = [mail EXCEPT ![l] = @ \ {r}]
  /\ row' = [row EXCEPT ![l] = IF r.event = "connected" THEN "active" ELSE r.event]
  /\ overtaken' = IF r.event \in Settled /\ mail[l] # {r}
                  THEN overtaken \cup {l} ELSE overtaken
  /\ UNCHANGED <<host, sessionVars, launchVars, paneVars, lost, again>>

\* The request fails; the browser warns on its console
Lose(l, r) ==
  /\ r \in mail[l]
  /\ mail' = [mail EXCEPT ![l] = @ \ {r}]
  /\ lost' = lost \cup {l}
  /\ UNCHANGED <<serverVars, paneVars, again, overtaken>>

-----------------------------------------------------------------------------
PaneStep ==
  \E l \in Launches :
    \/ Mount(l) \/ MountFails(l) \/ Ready(l) \/ Submit(l)
    \/ \E n \in Attempts : Opened(l, n) \/ Rejected(l, n) \/ RunEnds(l, n)
    \/ TimesOut(l) \/ Disconnect(l) \/ Dispose(l)
    \/ \E r \in mail[l] : Deliver(l, r) \/ Lose(l, r)

Next ==
  \/ ServerStep /\ UNCHANGED <<paneVars, mail, pastVars>>
  \/ PaneStep

Spec == Init /\ [][Next]_vars

-----------------------------------------------------------------------------
\* A pane that shows 'connected' shows its newest attempt, whose session runs;
\* one that shows 'connecting' waits for its newest attempt and has a timeout
\* armed for that very attempt, whatever answers of older attempts come in
PaneShowsNewest ==
  \A l \in Launches :
    /\ ui[l] = "connected" => remote[l][attempt[l]] = "running"
    /\ ui[l] = "connecting" =>
         remote[l][attempt[l]] = "opening" /\ timer[l] = attempt[l]

\* A settled row of a launch that was answered says what the pane reported
\* first, through all its attempts
RowTellsFirstReport ==
  \A l \in Launches :
    pc[l] = "answered" /\ row[l] \in Settled => row[l] = said[l]

\* Once a pane is gone and its reports are in, its row is settled; unless a
\* report was lost or overtaken, or the pane connected again after the end it
\* had reported, for which there is no second report
ClosedPaneSettlesRow ==
  \A l \in Launches :
    /\ ui[l] = "gone" /\ mail[l] = {}
    /\ l \notin lost \cup again \cup overtaken
    => row[l] \in Settled

\* A connection row goes from starting to active to its end, and a settled one
\* is never opened or settled differently, as the readers of the history rely
\* on; unless it is the row of a pane that connected again after the end it had
\* reported, or whose end overtook an earlier report.  A lost report does no
\* such harm
Rows == INSTANCE ConnectionLifecycle WITH Conns <- Launches, status <- row

RowsGoForward ==
  [][\/ \E l \in Launches : Rows!Start(l) \/ Rows!Activate(l) \/ Rows!Settle(l)
     \/ \E l \in again' \cup overtaken' : row' = [row EXCEPT ![l] = row'[l]]]_row
=============================================================================
