--------------------------- MODULE RdpPaneProofs ---------------------------
(***************************************************************************)
(* Theorems about RdpPane and RdpSessions, for any number of sessions,     *)
(* launches and attempts.  Three arguments, each of its own: the pane      *)
(* shows its newest attempt; the reports of a pane and the row they are    *)
(* for (Reported); and the limit of open sessions, which holds as long as  *)
(* the counts it rests on are not stale (Limited).                         *)
(***************************************************************************)
EXTENDS RdpPane, FiniteSetTheorems, TLAPS

USE DEF serverVars, sessionVars, launchVars, paneVars, pastVars, vars, Settled

\* A launch on its way holds a session whose row there is, or was
Held ==
  \A l \in Launches :
    pc[l] \in InFlight \ {"counted"} => of[l] \in Sessions /\ live[of[l]] # "none"

\* The reports of one pane: they are made once it is answered; a settled row
\* tells the first of them, and if nothing went wrong on the way the row is
\* settled or the report that settles it is there, behind no other
ReportedOf(l) ==
  /\ ui[l] # "none" \/ mail[l] # {} \/ said[l] # "none" => pc[l] = "answered"
  /\ (\E n \in Attempts : remote[l][n] # "none") => pc[l] = "answered"
  /\ pc[l] \in {"idle", "counted", "attach", "checked", "prepared", "ticketed"} => row[l] = "none"
  /\ pc[l] = "started" => row[l] = "starting"
  /\ pc[l] = "answered" => row[l] # "none"
  /\ \A r \in mail[l] : r.event \in Settled => r.event = said[l]
  /\ pc[l] = "answered" /\ row[l] \in Settled => row[l] = said[l]
  /\ ui[l] = "gone" => said[l] # "none"
  /\ l \notin again \cup overtaken /\ pc[l] = "answered" /\ row[l] \in Settled => mail[l] = {}
  /\ l \notin lost \cup again \cup overtaken /\ said[l] # "none" =>
       row[l] \in Settled \/ \E r \in mail[l] : r.event \in Settled

Reported == \A l \in Launches : ReportedOf(l)

\* A count that is not stale still is a count of the open sessions
Limited ==
  /\ LimitPassedOnlyByRaces
  /\ \A l \in Launches : pc[l] = "counted" /\ l \notin stale => Cardinality(Open) < MaxOpen

IInv == TypeOK /\ Held /\ PaneShowsNewest /\ Reported /\ Limited

LEMMA RdpInit == Init => TypeOK /\ Held /\ PaneShowsNewest /\ Reported
<1> USE RdpAssumption, RdpPaneAssumption DEF Init, ServerInit
<1>1. Init => ServerTypeOK
  BY DEF ServerTypeOK, LiveStatus, Places, RowStatus
<1>2. Init => TypeOK
  BY <1>1 DEF TypeOK, Attempts
<1> QED
  BY <1>2 DEF Held, PaneShowsNewest, Reported, ReportedOf, InFlight

LEMMA RdpInitLimited == Init => Limited
<1> SUFFICES ASSUME Init PROVE Limited
  OBVIOUS
<1>1. Open \ (outrun \cup revived) = {}
  BY DEF Init, ServerInit, Open
<1>2. Cardinality({}) = 0
  BY FS_EmptySet
<1> QED
  BY <1>1, <1>2, RdpAssumption DEF Limited, LimitPassedOnlyByRaces, Init, ServerInit

\* A step of the server keeps the types of its rows and launches
LEMMA ServerTypeStep == ASSUME ServerTypeOK, Held, ServerStep PROVE ServerTypeOK'
<1> USE RdpAssumption DEF ServerTypeOK, LiveStatus, Places, InFlight, RowStatus, Goto
<1>1. ASSUME NEW l \in Launches, Count(l) PROVE ServerTypeOK'
  BY <1>1 DEF Count
<1>2. ASSUME NEW l \in Launches, Insert(l) PROVE ServerTypeOK'
  BY <1>2 DEF Insert, Counted
<1>3. ASSUME NEW l \in Launches, NEW s \in Sessions, Attach(l, s) PROVE ServerTypeOK'
  BY <1>3 DEF Attach
<1>4. ASSUME NEW l \in Launches, ReadOpen(l) \/ MintTicket(l) \/ ReadFailing(l)
      PROVE  ServerTypeOK'
  BY <1>4 DEF ReadOpen, MintTicket, ReadFailing
<1>5. ASSUME NEW l \in Launches, Prepare(l) PROVE ServerTypeOK'
  <2>1. of[l] \in Sessions
    BY <1>5 DEF Prepare, Held
  <2> QED
    BY <1>5, <2>1 DEF Prepare, Counted
<1>7. ASSUME NEW l \in Launches, Authorize(l) \/ Bootstrap(l) PROVE ServerTypeOK'
  BY <1>7 DEF Authorize, Bootstrap
<1>8. ASSUME NEW l \in Launches, Fail(l) PROVE ServerTypeOK'
  BY <1>8 DEF Fail
<1>9. ASSUME NEW s \in Sessions, CloseSession(s) PROVE ServerTypeOK'
  BY <1>9 DEF CloseSession
<1>10. CASE DeleteHost \/ Restart
  BY <1>10 DEF DeleteHost, Restart
<1> QED
  BY <1>1, <1>2, <1>3, <1>4, <1>5, <1>7, <1>8, <1>9, <1>10 DEF ServerStep

\* Rows are never forgotten, so the session of a launch stays one
LEMMA HeldStep == ASSUME ServerTypeOK, Held, ServerStep PROVE Held'
<1> USE RdpAssumption DEF ServerTypeOK, LiveStatus, InFlight, Goto
<1>2. ASSUME NEW l \in Launches, Count(l) PROVE Held'
  BY <1>2 DEF Count, Held
<1>3. ASSUME NEW l \in Launches, Insert(l) PROVE Held'
  BY <1>3 DEF Insert, Held
<1>4. ASSUME NEW l \in Launches, NEW s \in Sessions, Attach(l, s) PROVE Held'
  BY <1>4 DEF Attach, Held
<1>5. ASSUME NEW l \in Launches, ReadOpen(l) \/ MintTicket(l) \/ ReadFailing(l) PROVE Held'
  BY <1>5 DEF ReadOpen, MintTicket, ReadFailing, Held
<1>6. ASSUME NEW l \in Launches, Prepare(l) PROVE Held'
  BY <1>6 DEF Prepare, Held
<1>7. ASSUME NEW l \in Launches, Authorize(l) \/ Bootstrap(l) PROVE Held'
  BY <1>7 DEF Authorize, Bootstrap, Held
<1>8. ASSUME NEW l \in Launches, Fail(l) PROVE Held'
  BY <1>8 DEF Fail, Held
<1>9. ASSUME NEW s \in Sessions, CloseSession(s) PROVE Held'
  BY <1>9 DEF CloseSession, Held
<1>10. CASE DeleteHost \/ Restart
  BY <1>10 DEF DeleteHost, Restart, Held
<1> QED
  BY <1>2, <1>3, <1>4, <1>5, <1>6, <1>7, <1>8, <1>9, <1>10 DEF ServerStep

-----------------------------------------------------------------------------
(* The pane                                                                *)

LEMMA SayEndTypes ==
  ASSUME TypeOK, NEW l \in Launches, NEW event \in Settled, SayEnd(l, event)
  PROVE  said' \in [Launches -> {"none"} \cup Settled] /\ mail' \in [Launches -> SUBSET Report]
<1> USE RdpPaneAssumption
<1> DEFINE new == [event |-> event, by |-> attempt[l]]
<1>1. new \in Report
  BY DEF TypeOK, Report
<1>2. CASE said[l] = "none"
  <2>1. mail' = [mail EXCEPT ![l] = @ \cup {new}] /\ said' = [said EXCEPT ![l] = event]
    BY <1>2 DEF SayEnd, Post
  <2>2. mail[l] \cup {new} \in SUBSET Report
    BY <1>1 DEF TypeOK
  <2> QED
    BY <2>1, <2>2 DEF TypeOK
<1>3. CASE said[l] # "none"
  BY <1>3 DEF SayEnd, TypeOK
<1> QED
  BY <1>2, <1>3

LEMMA ConnectStep ==
  ASSUME TypeOK, NEW l \in Launches, Connect(l), api' \in [Launches -> BOOLEAN]
  PROVE  TypeOK' /\ (PaneShowsNewest => PaneShowsNewest')
<1> USE RdpPaneAssumption DEF TypeOK, Connect, Show, Now, Quiet, Shown
<1>1. attempt[l] + 1 \in Attempts
  BY DEF Attempts
<1>2. remote' \in [Launches -> [Attempts -> {"none", "opening", "running", "unseen", "over"}]]
  BY <1>1
<1>3. ServerTypeOK'
  BY DEF ServerTypeOK, Open, RowStatus, LiveStatus, Places
<1>4. attempt' \in [Launches -> 0 .. MaxAttempts] /\ timer' \in [Launches -> 0 .. MaxAttempts]
  BY <1>1 DEF Attempts
<1>5. TypeOK'
  BY <1>2, <1>3, <1>4
<1>6. ui'[l] = "connecting" /\ remote'[l][attempt'[l]] = "opening" /\ timer'[l] = attempt'[l]
  BY <1>1
<1>7. \A m \in Launches \ {l} : /\ ui'[m] = ui[m] /\ remote'[m] = remote[m]
                              /\ timer'[m] = timer[m] /\ attempt'[m] = attempt[m]
  OBVIOUS
<1>8. PaneShowsNewest => PaneShowsNewest'
  BY <1>6, <1>7 DEF PaneShowsNewest
<1> QED
  BY <1>5, <1>8

LEMMA PaneTypeStep == ASSUME TypeOK, PaneShowsNewest, PaneStep PROVE TypeOK' /\ PaneShowsNewest'
<1> USE RdpPaneAssumption DEF Show, Now, Quiet, Shown
<1>0. UNCHANGED serverVars => ServerTypeOK'
  BY DEF TypeOK, ServerTypeOK, RowStatus, LiveStatus, Places
<1>1. ASSUME NEW l \in Launches, Mount(l) PROVE TypeOK' /\ PaneShowsNewest'
  BY <1>0, <1>1 DEF Mount, TypeOK, PaneShowsNewest
<1>2. ASSUME NEW l \in Launches, NEW event \in Settled, SayEnd(l, event), Quiet,
             NEW st \in {"error", "disconnected", "gone"}, Show(l, st),
             api' \in [Launches -> BOOLEAN], attempt' = attempt,
             remote' \in [Launches -> [Attempts -> {"none", "opening", "running", "unseen", "over"}]],
             timer' \in [Launches -> 0 .. MaxAttempts],
             \A m \in Launches \ {l} : remote'[m] = remote[m] /\ timer'[m] = timer[m]
      PROVE  TypeOK' /\ PaneShowsNewest'
  <2>1. TypeOK'
    BY <1>0, <1>2, SayEndTypes DEF TypeOK
  <2>2. PaneShowsNewest'
    BY <1>2 DEF TypeOK, PaneShowsNewest
  <2> QED
    BY <2>1, <2>2
<1>3. ASSUME NEW l \in Launches, MountFails(l) \/ Disconnect(l) \/ Dispose(l)
      PROVE  TypeOK' /\ PaneShowsNewest'
  <2>1. /\ api' = api /\ attempt' = attempt /\ remote' = remote /\ Quiet
        /\ timer' = timer \/ timer' = [timer EXCEPT ![l] = 0]
        /\ \E event \in Settled, st \in {"error", "disconnected", "gone"} :
             SayEnd(l, event) /\ Show(l, st)
    BY <1>3 DEF MountFails, Disconnect, Dispose
  <2>2. timer' \in [Launches -> 0 .. MaxAttempts]
    BY <2>1 DEF TypeOK
  <2>3. PICK event \in Settled, st \in {"error", "disconnected", "gone"} :
          SayEnd(l, event) /\ Show(l, st)
    BY <2>1
  <2>4. \A m \in Launches \ {l} : remote'[m] = remote[m] /\ timer'[m] = timer[m]
    BY <2>1 DEF TypeOK
  <2>5. remote' \in [Launches -> [Attempts -> {"none", "opening", "running", "unseen", "over"}]]
        /\ api' \in [Launches -> BOOLEAN]
    BY <2>1 DEF TypeOK
  <2> QED
    BY ONLY <1>2, <2>1, <2>2, <2>3, <2>4, <2>5
<1>4. ASSUME NEW l \in Launches, Ready(l) PROVE TypeOK' /\ PaneShowsNewest'
  <2>1. api' \in [Launches -> BOOLEAN]
    BY <1>4 DEF Ready, TypeOK
  <2>2. CASE Connect(l)
    BY <2>1, <2>2, ConnectStep
  <2>3. CASE Show(l, "ready") /\ Quiet /\ UNCHANGED <<attempt, remote, timer, said, mail>>
    BY <1>0, <2>1, <2>3 DEF TypeOK, PaneShowsNewest
  <2> QED
    BY <1>4, <2>2, <2>3 DEF Ready
<1>5. ASSUME NEW l \in Launches, Submit(l) PROVE TypeOK' /\ PaneShowsNewest'
  BY <1>5, ConnectStep DEF Submit, TypeOK
<1>6. ASSUME NEW l \in Launches, NEW n \in Attempts, Opened(l, n) PROVE TypeOK' /\ PaneShowsNewest'
  <2> DEFINE fits == ui[l] = "connecting" /\ n = attempt[l]
  <2>0. /\ UNCHANGED serverVars /\ said' = said /\ api' = api /\ attempt' = attempt
        /\ lost' = lost /\ overtaken' = overtaken
        /\ remote' = [remote EXCEPT ![l][n] = IF fits THEN "running" ELSE "unseen"]
        /\ ui' = IF fits THEN [ui EXCEPT ![l] = "connected"] ELSE ui
        /\ timer' = IF fits THEN [timer EXCEPT ![l] = 0] ELSE timer
        /\ again' = again \/ again' = again \cup {l}
    BY <1>6 DEF Opened, SayConnected
  <2>1. /\ again' \subseteq Launches
        /\ timer' \in [Launches -> 0 .. MaxAttempts]
        /\ ui' \in [Launches -> Shown \cup {"none", "gone"}]
    BY <2>0 DEF TypeOK
  <2>2. remote' \in [Launches -> [Attempts -> {"none", "opening", "running", "unseen", "over"}]]
    BY <2>0 DEF TypeOK
  <2>3. mail' \in [Launches -> SUBSET Report]
    <3> DEFINE new == [event |-> "connected", by |-> attempt[l]]
    <3>1. new \in Report
      BY DEF TypeOK, Report
    <3>2. mail' = mail \/ mail' = [mail EXCEPT ![l] = @ \cup {new}]
      BY <1>6 DEF Opened, SayConnected, Post
    <3>3. mail[l] \cup {new} \in SUBSET Report
      BY <3>1 DEF TypeOK
    <3> QED
      BY <3>2, <3>3 DEF TypeOK
  <2>4. PaneShowsNewest'
    <3>1. CASE fits
      BY <2>0, <3>1 DEF TypeOK, PaneShowsNewest
    <3>2. CASE ~fits
      BY <1>6, <2>0, <3>2 DEF TypeOK, PaneShowsNewest, Opened
    <3> QED
      BY <3>1, <3>2
  <2> QED
    BY <1>0, <2>0, <2>1, <2>2, <2>3, <2>4 DEF TypeOK
<1>7. ASSUME NEW l \in Launches, NEW n \in Attempts, Rejected(l, n) \/ RunEnds(l, n)
      PROVE  TypeOK' /\ PaneShowsNewest'
  <2>1. /\ api' = api /\ attempt' = attempt /\ Quiet /\ Now(l, n, "over")
        /\ timer' = timer \/ timer' = [timer EXCEPT ![l] = 0]
        /\ \E event \in Settled, st \in {"error", "disconnected", "gone"} :
             SayEnd(l, event) /\ Show(l, st)
    BY <1>7 DEF Rejected, RunEnds
  <2>2. /\ timer' \in [Launches -> 0 .. MaxAttempts]
        /\ remote' \in [Launches -> [Attempts -> {"none", "opening", "running", "unseen", "over"}]]
    BY <2>1 DEF TypeOK
  <2>3. PICK event \in Settled, st \in {"error", "disconnected", "gone"} :
          SayEnd(l, event) /\ Show(l, st)
    BY <2>1
  <2>4. \A m \in Launches \ {l} : remote'[m] = remote[m] /\ timer'[m] = timer[m]
    BY <2>1 DEF TypeOK
  <2>5. api' \in [Launches -> BOOLEAN]
    BY <2>1 DEF TypeOK
  <2> QED
    BY ONLY <1>2, <2>1, <2>2, <2>3, <2>4, <2>5
<1>8. ASSUME NEW l \in Launches, TimesOut(l) PROVE TypeOK' /\ PaneShowsNewest'
  <2>1. timer' \in [Launches -> 0 .. MaxAttempts]
    BY <1>8 DEF TimesOut, TypeOK
  <2>2. CASE Show(l, "error") /\ SayEnd(l, "failed")
    BY <1>2, <1>8, <2>1, <2>2 DEF TimesOut, TypeOK
  <2>3. CASE ~(ui[l] = "connecting" /\ timer[l] = attempt[l]) /\ UNCHANGED <<ui, said, mail>>
    BY <1>0, <1>8, <2>1, <2>3 DEF TimesOut, TypeOK, PaneShowsNewest
  <2> QED
    BY <1>8, <2>2, <2>3 DEF TimesOut
<1>9. ASSUME NEW l \in Launches, NEW m \in mail[l], Deliver(l, m) \/ Lose(l, m)
      PROVE  TypeOK' /\ PaneShowsNewest'
  <2>1. m.event \in {"connected"} \cup Settled
    BY DEF TypeOK, Report
  <2>2. mail' \in [Launches -> SUBSET Report]
    BY <1>9 DEF Deliver, Lose, TypeOK
  <2>3. row' \in [Launches -> RowStatus]
    BY <1>9, <2>1 DEF Deliver, Lose, TypeOK, ServerTypeOK, RowStatus
  <2>4. /\ UNCHANGED <<host, sessionVars, launchVars, paneVars, again>>
        /\ lost' \subseteq Launches /\ overtaken' \subseteq Launches
    BY <1>9 DEF Deliver, Lose, TypeOK
  <2> QED
    BY <2>2, <2>3, <2>4 DEF TypeOK, ServerTypeOK, PaneShowsNewest, LiveStatus, Places
<1> QED
  BY <1>1, <1>3, <1>4, <1>5, <1>6, <1>7, <1>8, <1>9 DEF PaneStep

-----------------------------------------------------------------------------
(* The reports                                                             *)

\* An end that is reported, or not for the second time
LEMMA ReportEnd ==
  ASSUME TypeOK, Reported, NEW l \in Launches, pc[l] = "answered", NEW event \in Settled,
         \A m \in Launches \ {l} : remote'[m] = remote[m],
         SayEnd(l, event), NEW st \in Shown \cup {"gone"}, Show(l, st), Quiet
  PROVE  Reported'
<1> USE DEF Show, Quiet
<1>1. \A m \in Launches \ {l} : ReportedOf(m)'
  <2>1. \A m \in Launches \ {l} : ui'[m] = ui[m] /\ said'[m] = said[m] /\ mail'[m] = mail[m]
    BY DEF SayEnd, Post, TypeOK
  <2> QED
    BY <2>1 DEF Reported, ReportedOf
<1>2. pc[l] = "answered" /\ ui'[l] = st /\ st # "none"
  BY DEF Reported, ReportedOf, TypeOK, Shown
<1>3. CASE said[l] = "none"
  <2> DEFINE new == [event |-> event, by |-> attempt[l]]
  <2>1. said'[l] = event /\ mail'[l] = mail[l] \cup {new} /\ new.event = event
    BY <1>3 DEF SayEnd, Post, TypeOK
  <2>2. row[l] \notin Settled
    BY <1>2, <1>3 DEF Reported, ReportedOf
  <2>3. \A m \in mail[l] : m.event \notin Settled
    BY <1>3 DEF Reported, ReportedOf
  <2>4. ReportedOf(l)'
    BY <1>2, <2>1, <2>2, <2>3 DEF Reported, ReportedOf
  <2> QED
    BY <1>1, <2>4 DEF Reported
<1>4. CASE said[l] # "none"
  <2>1. said' = said /\ mail' = mail
    BY <1>4 DEF SayEnd
  <2>2. ReportedOf(l)'
    BY <1>2, <1>4, <2>1 DEF Reported, ReportedOf
  <2> QED
    BY <1>1, <2>2 DEF Reported
<1> QED
  BY <1>3, <1>4

\* A step of the pane that reports nothing
LEMMA ReportNothing ==
  ASSUME TypeOK, Reported, NEW l \in Launches, pc[l] = "answered", UNCHANGED <<serverVars, said, mail, pastVars>>,
         \A m \in Launches \ {l} : remote'[m] = remote[m],
         ui' = ui \/ \E st \in Shown : Show(l, st)
  PROVE  Reported'
BY DEF Reported, ReportedOf, Show, Shown, TypeOK

LEMMA PaneReportStep == ASSUME TypeOK, Reported, PaneStep PROVE Reported'
<1> USE DEF Quiet
<1>1. ASSUME NEW l \in Launches, Mount(l) PROVE Reported'
  BY <1>1, ReportNothing DEF Mount, Shown
<1>2. ASSUME NEW l \in Launches, ui[l] \notin {"none", "gone"} PROVE pc[l] = "answered"
  BY <1>2 DEF Reported, ReportedOf
<1>3. ASSUME NEW l \in Launches, Connect(l), ui[l] # "none" PROVE Reported'
  <2>1. \A m \in Launches \ {l} : remote'[m] = remote[m]
    BY <1>3 DEF Connect, Now, TypeOK
  <2> QED
    BY <1>3, <2>1, ReportNothing DEF Connect, Shown, Reported, ReportedOf
<1>4. ASSUME NEW l \in Launches, MountFails(l) \/ Disconnect(l) \/ Dispose(l)
      PROVE  Reported'
  <2>1. ui[l] \in Shown /\ remote' = remote
    BY <1>4 DEF MountFails, Disconnect, Dispose, Shown
  <2> QED
    BY <1>2, <1>4, <2>1, ReportEnd DEF MountFails, Disconnect, Dispose, Shown
<1>5. ASSUME NEW l \in Launches, Ready(l) PROVE Reported'
  BY <1>2, <1>3, <1>5, ReportNothing DEF Ready, Shown
<1>6. ASSUME NEW l \in Launches, Submit(l) PROVE Reported'
  BY <1>3, <1>6 DEF Submit
<1>7. ASSUME NEW l \in Launches, NEW n \in Attempts, Opened(l, n) PROVE Reported'
  <2>0. pc[l] = "answered" /\ \A m \in Launches \ {l} : remote'[m] = remote[m]
    BY <1>7 DEF Opened, Now, TypeOK, Reported, ReportedOf
  <2>1. CASE SayConnected(l) /\ ui[l] = "connecting" /\ Show(l, "connected")
    <3> DEFINE new == [event |-> "connected", by |-> attempt[l]]
    <3>1. mail' = [mail EXCEPT ![l] = @ \cup {new}] /\ new.event \notin Settled
      BY <2>1 DEF SayConnected, Post
    <3>2. /\ UNCHANGED <<serverVars, lost, overtaken, said>> /\ again \subseteq again'
          /\ (said[l] # "none" => l \in again')
      BY <1>7, <2>1 DEF Opened, SayConnected
    <3>3. ui' = [ui EXCEPT ![l] = "connected"] /\ pc[l] = "answered"
      BY <1>2, <2>1 DEF Show
    <3>4. \A m \in Launches \ {l} : ReportedOf(m)'
      <4>1. \A m \in Launches \ {l} : ui'[m] = ui[m] /\ mail'[m] = mail[m]
        BY <3>1, <3>3 DEF TypeOK
      <4> QED
        BY <2>0, <3>2, <4>1 DEF Reported, ReportedOf
    <3>5. ReportedOf(l)'
      <4>1. mail'[l] = mail[l] \cup {new} /\ ui'[l] = "connected"
        BY <3>1, <3>3 DEF TypeOK
      <4>2. l \notin again' => said[l] = "none" /\ row[l] \notin Settled
        BY <3>2, <3>3 DEF Reported, ReportedOf
      <4> QED
        BY <3>1, <3>2, <3>3, <4>1, <4>2 DEF Reported, ReportedOf
    <3> QED
      BY <3>4, <3>5 DEF Reported
  <2>2. CASE UNCHANGED <<ui, timer, mail, again>>
    BY <1>7, <2>0, <2>2 DEF Opened, Reported, ReportedOf
  <2> QED
    BY <1>7, <2>1, <2>2 DEF Opened
<1>8. ASSUME NEW l \in Launches, NEW n \in Attempts, Rejected(l, n) \/ RunEnds(l, n)
      PROVE  Reported'
  <2>1. pc[l] = "answered" /\ \A m \in Launches \ {l} : remote'[m] = remote[m]
    BY <1>8 DEF Rejected, RunEnds, Now, TypeOK, Reported, ReportedOf
  <2> QED
    BY <1>8, <2>1, ReportEnd DEF Rejected, RunEnds, Shown
<1>9. ASSUME NEW l \in Launches, TimesOut(l) PROVE Reported'
  <2>1. CASE ui[l] = "connecting" /\ Show(l, "error") /\ SayEnd(l, "failed")
    BY <1>2, <1>9, <2>1, ReportEnd DEF TimesOut, Shown
  <2>2. CASE UNCHANGED <<ui, said, mail>>
    BY <1>9, <2>2 DEF TimesOut, Reported, ReportedOf
  <2> QED
    BY <1>9, <2>1, <2>2 DEF TimesOut
<1>10. ASSUME NEW l \in Launches, NEW r \in mail[l], Deliver(l, r) PROVE Reported'
  <2>1. /\ UNCHANGED <<launchVars, paneVars, lost, again>> /\ overtaken \subseteq overtaken'
        /\ mail'[l] = mail[l] \ {r} /\ r.event \in {"connected"} \cup Settled
        /\ row'[l] = IF r.event = "connected" THEN "active" ELSE r.event
        /\ (r.event \in Settled /\ mail[l] # {r} => l \in overtaken')
    BY <1>10 DEF Deliver, TypeOK, ServerTypeOK, Report
  <2>2. \A m \in Launches \ {l} : row'[m] = row[m] /\ mail'[m] = mail[m]
    BY <1>10 DEF Deliver, TypeOK, ServerTypeOK
  <2>3. \A m \in Launches \ {l} : ReportedOf(m)'
    BY <2>1, <2>2 DEF Reported, ReportedOf
  <2>4. ReportedOf(l)'
    BY <2>1 DEF Reported, ReportedOf
  <2> QED
    BY <2>3, <2>4 DEF Reported
<1>11. ASSUME NEW l \in Launches, NEW r \in mail[l], Lose(l, r) PROVE Reported'
  <2>1. /\ UNCHANGED <<serverVars, paneVars, again, overtaken>> /\ lost' = lost \cup {l}
        /\ mail'[l] \subseteq mail[l]
        /\ \A m \in Launches \ {l} : mail'[m] = mail[m]
    BY <1>11 DEF Lose, TypeOK
  <2> QED
    BY <2>1 DEF Reported, ReportedOf
<1> QED
  BY <1>1, <1>4, <1>5, <1>6, <1>7, <1>8, <1>9, <1>10, <1>11 DEF PaneStep

\* The server answers a launch only when its row has started
LEMMA ServerReportStep ==
  ASSUME TypeOK, Reported, ServerStep, UNCHANGED <<paneVars, mail, pastVars>> PROVE Reported'
<1>1. ASSUME \A m \in Launches :
               /\ LET Unstarted == {"idle", "counted", "attach", "checked", "prepared", "ticketed"}
                  IN  pc'[m] \in Unstarted => pc[m] \in Unstarted /\ row'[m] = row[m]
               /\ pc'[m] = "answered" => pc[m] \in {"answered", "started"}
               /\ pc[m] = "answered" => pc'[m] = "answered"
               /\ pc'[m] = "started" => row'[m] = "starting"
               /\ pc'[m] = "answered" => row'[m] = row[m]
               /\ row[m] \in Settled => row'[m] = row[m] \/ pc'[m] # "answered"
      PROVE  Reported'
  <2>1. \A m \in Launches : said[m] # "none" => pc[m] = "answered"
    BY DEF Reported, ReportedOf
  <2> QED
    BY <1>1, <2>1 DEF Reported, ReportedOf
<1> USE DEF TypeOK, ServerTypeOK, Places, InFlight, RowStatus, Goto
<1>2. ASSUME NEW l \in Launches, \/ Count(l) \/ Insert(l) \/ ReadOpen(l) \/ Prepare(l)
                                 \/ MintTicket(l) \/ ReadFailing(l) \/ Fail(l)
      PROVE  Reported'
  <2>1. PICK from \in Places, to \in Places \ {"answered", "started"} :
          /\ pc[l] = from /\ from # "answered" /\ pc' = [pc EXCEPT ![l] = to] /\ row' = row
          /\ from \in {"failing", "unread"} => to \in {"unread", "error"}
          /\ from \in {"idle", "counted", "attach", "checked", "prepared", "failing", "unread"}
    BY <1>2 DEF Count, Insert, ReadOpen, Prepare, MintTicket, ReadFailing, Fail
  <2> QED
    BY <1>1, <2>1 DEF Reported, ReportedOf
<1>3. ASSUME NEW l \in Launches, NEW s \in Sessions, Attach(l, s) PROVE Reported'
  BY <1>1, <1>3 DEF Attach, Reported, ReportedOf
<1>4. ASSUME NEW l \in Launches, Authorize(l) PROVE Reported'
  BY <1>1, <1>4 DEF Authorize, Reported, ReportedOf
<1>5. ASSUME NEW l \in Launches, Bootstrap(l) PROVE Reported'
  BY <1>1, <1>5 DEF Bootstrap, Reported, ReportedOf
<1>6. ASSUME NEW s \in Sessions, CloseSession(s) PROVE Reported'
  BY <1>1, <1>6 DEF CloseSession, Reported, ReportedOf
<1>7. CASE DeleteHost
  BY <1>1, <1>7 DEF DeleteHost, Reported, ReportedOf
<1>8. CASE Restart
  BY <1>1, <1>8 DEF Restart, Reported, ReportedOf
<1> QED
  BY <1>2, <1>3, <1>4, <1>5, <1>6, <1>7, <1>8 DEF ServerStep

-----------------------------------------------------------------------------
(* The limit                                                               *)

LEMMA OpenFinite == IsFiniteSet(Open) /\ IsFiniteSet(Open')
<1>1. Open \in SUBSET Sessions /\ Open' \in SUBSET Sessions
  BY DEF Open
<1> QED
  BY <1>1, FS_Subset, RdpAssumption

\* No session is opened: the counts that are not stale stay right
LEMMA NoneOpens ==
  ASSUME Limited, Open' \subseteq Open,
         stale \subseteq stale', outrun \subseteq outrun', revived \subseteq revived',
         \A l \in Launches : pc'[l] = "counted" => pc[l] = "counted" \/ Cardinality(Open) < MaxOpen
  PROVE  Limited'
<1>1. Cardinality(Open') <= Cardinality(Open)
  BY OpenFinite, FS_Subset
<1>2. Cardinality(Open' \ (outrun' \cup revived')) <= Cardinality(Open \ (outrun \cup revived))
  <2>1. Open' \ (outrun' \cup revived') \subseteq Open \ (outrun \cup revived)
    OBVIOUS
  <2>2. IsFiniteSet(Open \ (outrun \cup revived))
    BY OpenFinite, FS_Subset
  <2> QED
    BY <2>1, <2>2, FS_Subset
<1>3. /\ Cardinality(Open') \in Nat /\ Cardinality(Open) \in Nat
      /\ Cardinality(Open \ (outrun \cup revived)) \in Nat
      /\ Cardinality(Open' \ (outrun' \cup revived')) \in Nat
  <2>1. /\ IsFiniteSet(Open \ (outrun \cup revived))
        /\ IsFiniteSet(Open' \ (outrun' \cup revived'))
    BY OpenFinite, FS_Subset
  <2> QED
    BY <2>1, OpenFinite, FS_CardinalityType
<1> QED
  BY <1>1, <1>2, <1>3, RdpAssumption DEF Limited, LimitPassedOnlyByRaces

\* A session is opened: every count becomes stale, and either there was room
\* for one more or the session is one of those that raced
LEMMA OneOpens ==
  ASSUME Limited, NEW s \in Sessions, Open' = Open \cup {s},
         outrun \subseteq outrun', revived \subseteq revived',
         s \in outrun' \cup revived' \/ Cardinality(Open) < MaxOpen,
         \A l \in Launches : pc'[l] = "counted" => l \in stale'
  PROVE  Limited'
<1> DEFINE Before == Open \ (outrun \cup revived)
           After  == Open' \ (outrun' \cup revived')
<1>1. IsFiniteSet(Before) /\ IsFiniteSet(After)
  BY OpenFinite, FS_Subset
<1>2. /\ Cardinality(Open') \in Nat /\ Cardinality(Open) \in Nat
      /\ Cardinality(Before) \in Nat /\ Cardinality(After) \in Nat
  BY <1>1, OpenFinite, FS_CardinalityType
<1>3. CASE s \in outrun' \cup revived'
  <2>1. After \subseteq Before
    BY <1>3
  <2>2. Cardinality(After) <= Cardinality(Before)
    BY <1>1, <2>1, FS_Subset
  <2> QED
    BY <1>2, <2>2, RdpAssumption DEF Limited, LimitPassedOnlyByRaces
<1>4. CASE Cardinality(Open) < MaxOpen
  <2>1. Cardinality(Open') <= Cardinality(Open) + 1
    BY <1>2, OpenFinite, FS_AddElement
  <2>2. Cardinality(After) <= Cardinality(Open')
    BY OpenFinite, FS_Subset
  <2> QED
    BY <1>2, <1>4, <2>1, <2>2, RdpAssumption DEF Limited, LimitPassedOnlyByRaces
<1> QED
  BY <1>3, <1>4

LEMMA LimitedStep == ASSUME ServerTypeOK, Held, Limited, ServerStep PROVE Limited'
<1> USE DEF ServerTypeOK, Places, InFlight, LiveStatus, Goto, Open
<1>1. ASSUME NEW l \in Launches, Count(l) PROVE Limited'
  <2>1. pc'[l] = "counted" => ~(Cardinality(Open) >= MaxOpen)
    BY <1>1 DEF Count
  <2>2. Cardinality(Open) \in Nat
    BY OpenFinite, FS_CardinalityType
  <2>3. \A m \in Launches : pc'[m] = "counted" => pc[m] = "counted" \/ Cardinality(Open) < MaxOpen
    BY <1>1, <2>1, <2>2, RdpAssumption DEF Count
  <2> QED
    BY <1>1, <2>3, NoneOpens DEF Count
<1>2. ASSUME NEW l \in Launches, Insert(l) PROVE Limited'
  <2>1. CASE UNCHANGED sessionVars
    BY <1>2, <2>1, NoneOpens DEF Insert
  <2>2. CASE pc[l] = "counted" /\ pc' = [pc EXCEPT ![l] = "attach"] /\ stale' = stale \cup Counted
              /\ UNCHANGED revived
    <3>1. PICK s \in Sessions :
            /\ live' = [live EXCEPT ![s] = "detached"]
            /\ outrun' = IF l \in stale THEN outrun \cup {s} ELSE outrun
      BY <1>2, <2>2 DEF Insert
    <3>2. Open' = Open \cup {s}
      BY <3>1
    <3>3. s \in outrun' \cup revived' \/ Cardinality(Open) < MaxOpen
      BY <2>2, <3>1 DEF Limited
    <3>4. \A m \in Launches : pc'[m] = "counted" => m \in stale'
      BY <2>2 DEF Counted
    <3>5. outrun \subseteq outrun' /\ revived \subseteq revived'
      BY <2>2, <3>1
    <3> HIDE DEF Open
    <3> QED
      BY <3>2, <3>3, <3>4, <3>5, OneOpens
  <2> QED
    BY <1>2, <2>1, <2>2 DEF Insert
<1>3. ASSUME NEW l \in Launches, Prepare(l) PROVE Limited'
  <2>1. of[l] \in Sessions /\ live[of[l]] # "none" /\ pc[l] = "checked" /\ pc'[l] # "counted"
    BY <1>3 DEF Prepare, Held
  <2>2. CASE live[of[l]] \in Settled
    <3>1. Open' = Open \cup {of[l]}
      BY <1>3, <2>1, <2>2 DEF Prepare
    <3>2. of[l] \in revived' /\ revived \subseteq revived' /\ outrun \subseteq outrun'
      BY <1>3, <2>1, <2>2 DEF Prepare
    <3>3. \A m \in Launches : pc'[m] = "counted" => m \in stale'
      BY <1>3, <2>1, <2>2 DEF Prepare, Counted
    <3> HIDE DEF Open
    <3> QED
      BY <2>1, <3>1, <3>2, <3>3, OneOpens
  <2>3. CASE live[of[l]] \notin Settled
    <3>1. Open' \subseteq Open
      BY <1>3, <2>1, <2>3 DEF Prepare
    <3>2. UNCHANGED <<stale, outrun, revived>>
      BY <1>3, <2>3 DEF Prepare
    <3>3. \A m \in Launches : pc'[m] = "counted" => pc[m] = "counted"
      BY <1>3, <2>1 DEF Prepare
    <3> HIDE DEF Open
    <3> QED
      BY <3>1, <3>2, <3>3, NoneOpens
  <2> QED
    BY <2>2, <2>3
<1>4. ASSUME NEW l \in Launches, NEW s \in Sessions, Attach(l, s) PROVE Limited'
  BY <1>4, NoneOpens DEF Attach
<1>5. ASSUME NEW l \in Launches,
             \/ ReadOpen(l) \/ MintTicket(l) \/ ReadFailing(l) \/ Authorize(l) \/ Bootstrap(l)
      PROVE  Limited'
  BY <1>5, NoneOpens DEF ReadOpen, MintTicket, ReadFailing, Authorize, Bootstrap
<1>6. ASSUME NEW l \in Launches, Fail(l) PROVE Limited'
  <2>1. Open' \subseteq Open
    BY <1>6 DEF Fail, Held
  <2>2. UNCHANGED <<stale, outrun, revived>> /\ pc' = [pc EXCEPT ![l] = "error"]
    BY <1>6 DEF Fail
  <2> QED
    BY <2>1, <2>2, NoneOpens
<1>7. ASSUME NEW s \in Sessions, CloseSession(s) PROVE Limited'
  <2>1. Open' \subseteq Open /\ UNCHANGED <<stale, outrun, revived, pc>>
    BY <1>7 DEF CloseSession
  <2> QED
    BY <2>1, NoneOpens
<1>8. CASE DeleteHost
  <2>1. Open' \subseteq Open /\ UNCHANGED <<stale, outrun, revived, pc>>
    BY <1>8 DEF DeleteHost
  <2> QED
    BY <2>1, NoneOpens
<1>9. CASE Restart
  BY <1>9, NoneOpens DEF Restart
<1> QED
  BY <1>1, <1>2, <1>3, <1>4, <1>5, <1>6, <1>7, <1>8, <1>9 DEF ServerStep

-----------------------------------------------------------------------------
(* The invariant and the theorems                                          *)

\* What a pane and its reports leave alone of the server
LEMMA PaneKeepsServer == PaneStep => UNCHANGED <<host, sessionVars, launchVars>>
BY DEF PaneStep, Mount, MountFails, Ready, Connect, Submit, Opened, Rejected, RunEnds, TimesOut,
       Disconnect, Dispose, Deliver, Lose, Quiet

LEMMA IInvStep == IInv /\ [Next]_vars => IInv'
<1> SUFFICES ASSUME IInv, [Next]_vars PROVE IInv'
  OBVIOUS
<1>1. CASE ServerStep /\ UNCHANGED <<paneVars, mail, pastVars>>
  <2>1. ServerTypeOK' /\ Held' /\ Limited'
    BY <1>1, ServerTypeStep, HeldStep, LimitedStep DEF IInv, TypeOK
  <2>2. TypeOK' /\ PaneShowsNewest'
    BY <1>1, <2>1 DEF IInv, TypeOK, PaneShowsNewest
  <2>3. Reported'
    BY <1>1, ServerReportStep DEF IInv
  <2> QED
    BY <2>1, <2>2, <2>3 DEF IInv
<1>2. CASE PaneStep
  <2>1. TypeOK' /\ PaneShowsNewest' /\ Reported'
    BY <1>2, PaneTypeStep, PaneReportStep DEF IInv
  <2>2. UNCHANGED <<host, sessionVars, launchVars>>
    BY <1>2, PaneKeepsServer
  <2>3. Held' /\ Limited'
    BY <2>2 DEF IInv, Held, Limited, LimitPassedOnlyByRaces, Open
  <2> QED
    BY <2>1, <2>3 DEF IInv
<1>3. CASE UNCHANGED vars
  BY <1>3 DEF IInv, TypeOK, ServerTypeOK, Held, PaneShowsNewest, Reported, ReportedOf, Limited,
              LimitPassedOnlyByRaces, Open
<1> QED
  BY <1>1, <1>2, <1>3 DEF Next

LEMMA IInvAlways == Spec => []IInv
<1>1. Init => IInv
  BY RdpInit, RdpInitLimited DEF IInv
<1> QED
  BY <1>1, IInvStep, PTL DEF Spec

\* Types of the rows, the launches, the panes and the reports on their way
THEOREM RdpPaneTypes == Spec => []TypeOK
BY IInvAlways, PTL DEF IInv

\* The limit of open sessions can be passed, the count not being locked, but
\* only by sessions inserted on a stale count and by sessions reopened by a
\* launch that had read them open
THEOREM RdpLimitPassedOnlyByRaces == Spec => []LimitPassedOnlyByRaces
<1>1. IInv => LimitPassedOnlyByRaces
  BY DEF IInv, Limited
<1> QED
  BY <1>1, IInvAlways, PTL

\* A pane that shows a connection, or waits for one, shows its newest attempt
THEOREM RdpPaneShowsNewest == Spec => []PaneShowsNewest
BY IInvAlways, PTL DEF IInv

\* The settled row of an answered launch says what its pane reported first
THEOREM RdpRowTellsFirstReport == Spec => []RowTellsFirstReport
<1>1. IInv => RowTellsFirstReport
  BY DEF IInv, Reported, ReportedOf, RowTellsFirstReport
<1> QED
  BY <1>1, IInvAlways, PTL

\* A pane that is gone has settled its row, unless a report was lost,
\* overtaken, or followed by a connection
THEOREM RdpClosedPaneSettlesRow == Spec => []ClosedPaneSettlesRow
<1>1. IInv => ClosedPaneSettlesRow
  BY DEF IInv, Reported, ReportedOf, ClosedPaneSettlesRow
<1> QED
  BY <1>1, IInvAlways, PTL

\* What a step does to the connection rows
RowStep ==
  \/ \E l \in Launches : Rows!Start(l) \/ Rows!Activate(l) \/ Rows!Settle(l)
  \/ \E l \in again' \cup overtaken' : row' = [row EXCEPT ![l] = row'[l]]

\* The server starts a row once, and fails it only before the pane is answered
LEMMA ServerRowStep ==
  ASSUME TypeOK, Reported, ServerStep, UNCHANGED <<paneVars, mail, pastVars>>
  PROVE  RowStep \/ row' = row
<1> USE DEF TypeOK, ServerTypeOK, Goto
<1>1. ASSUME NEW l \in Launches, Authorize(l) PROVE RowStep \/ row' = row
  <2>1. CASE pc[l] = "ticketed" /\ row' = [row EXCEPT ![l] = "starting"]
    <3>1. row[l] = "none"
      BY <2>1 DEF Reported, ReportedOf
    <3> QED
      BY <2>1, <3>1 DEF RowStep, Rows!Start, Rows!Set
  <2>2. CASE row' = row
    BY <2>2
  <2> QED
    BY <1>1, <2>1, <2>2 DEF Authorize
<1>2. ASSUME NEW l \in Launches, Bootstrap(l) PROVE RowStep \/ row' = row
  <2>1. CASE pc[l] = "started" /\ row' = [row EXCEPT ![l] = "failed"]
    <3>1. row[l] = "starting"
      BY <2>1 DEF Reported, ReportedOf
    <3> QED
      BY <2>1, <3>1 DEF RowStep, Rows!Settle, Rows!Set, Rows!Settled
  <2>2. CASE row' = row
    BY <2>2
  <2> QED
    BY <1>2, <2>1, <2>2 DEF Bootstrap
<1>3. (\A l \in Launches : ~Authorize(l) /\ ~Bootstrap(l)) => row' = row
  BY DEF ServerStep, Count, Insert, Attach, ReadOpen, Prepare, MintTicket, ReadFailing, Fail,
         CloseSession, DeleteHost, Restart
<1> QED
  BY <1>1, <1>2, <1>3

\* A report that arrives activates or settles its row, or has been made
\* obsolete by the history of its pane
LEMMA DeliverRowStep ==
  ASSUME TypeOK, Reported, NEW l \in Launches, NEW r \in mail[l], Deliver(l, r)
  PROVE  RowStep \/ row' = row
<1> USE DEF TypeOK, ServerTypeOK, RowStatus
<1>1. pc[l] = "answered" /\ row[l] # "none"
  BY DEF Reported, ReportedOf
<1>2. r.event \in {"connected"} \cup Settled
  BY DEF Report
<1>3. row' = [row EXCEPT ![l] = IF r.event = "connected" THEN "active" ELSE r.event]
  BY DEF Deliver
<1>4. CASE row[l] \in Settled
  <2>1. CASE r.event = "connected"
    <3>1. l \in again' \cup overtaken'
      BY <1>1, <1>4, <2>1 DEF Reported, ReportedOf, Deliver
    <3> QED
      BY <1>3, <3>1 DEF RowStep
  <2>2. CASE r.event # "connected"
    <3>1. r.event = row[l]
      BY <1>1, <1>2, <1>4, <2>2 DEF Reported, ReportedOf
    <3> QED
      BY <1>3, <2>2, <3>1
  <2> QED
    BY <2>1, <2>2
<1>5. CASE row[l] \in {"starting", "active"}
  <2>1. CASE r.event = "connected"
    BY <1>3, <1>5, <2>1 DEF RowStep, Rows!Activate, Rows!Set
  <2>2. CASE r.event \in Settled
    BY <1>3, <1>5, <2>2 DEF RowStep, Rows!Settle, Rows!Set, Rows!Settled
  <2> QED
    BY <1>2, <2>1, <2>2
<1> QED
  BY <1>1, <1>4, <1>5

\* The rows keep to ConnectionLifecycle, unless a pane connected again after
\* the end it had reported or its end overtook an earlier report
THEOREM RdpRowsGoForward == Spec => RowsGoForward
<1>1. IInv /\ [Next]_vars => [RowStep]_row
  <2> SUFFICES ASSUME IInv, [Next]_vars PROVE RowStep \/ row' = row
    OBVIOUS
  <2>1. CASE ServerStep /\ UNCHANGED <<paneVars, mail, pastVars>>
    BY <2>1, ServerRowStep DEF IInv
  <2>2. ASSUME NEW l \in Launches, NEW r \in mail[l], Deliver(l, r) PROVE RowStep \/ row' = row
    BY <2>2, DeliverRowStep DEF IInv
  <2>3. PaneStep => row' = row \/ \E l \in Launches : \E r \in mail[l] : Deliver(l, r)
    BY DEF PaneStep, Mount, MountFails, Ready, Connect, Submit, Opened, Rejected, RunEnds, TimesOut,
           Disconnect, Dispose, Lose, Quiet
  <2> QED
    BY <2>1, <2>2, <2>3 DEF Next
<1> QED
  BY <1>1, IInvAlways, PTL DEF Spec, RowsGoForward, RowStep
=============================================================================
