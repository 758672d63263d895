---------------------- MODULE WorkspaceSessionsProofs ----------------------
(***************************************************************************)
(* Theorems about WorkspaceSessions, for every set of sessions and panes   *)
(* and any number of launches in flight.  What makes them work is the      *)
(* dismissed list: from the moment an SSH tab is closed until the close    *)
(* settles its session is hidden, so no new attach can name it, and the    *)
(* requests that already do are those whose launch was unanswered          *)
(* (Settling).  Of RDP that holds from the moment the close is confirmed.  *)
(***************************************************************************)
EXTENDS WorkspaceSessions, WellFoundedInduction, TLAPS

USE DEF vars, tabVars, reqVars, pastVars, None, NoPane, Visible, Fresh, Idle

\* Sessions that are closed, or, of SSH, will be when the server has answered
Settling == shut \cup {s \in closing \ late : proto = "ssh"}

\* A session known to the page exists, and one that is settling is neither
\* visible, nor attached, nor asked for
Quiet ==
  /\ closing \cap shut = {} /\ Settling \subseteq hidden /\ done \subseteq closing
  /\ \A s \in listed \cup closing \cup shut : srv[s] # "none"
  /\ \A i \in Panes : attach[i] # None => srv[attach[i]] # "none"
  /\ busy.session # None => srv[busy.session] # "none"
  /\ \A a \in asks : a.session # None => srv[a.session] # "none"
  /\ \A i \in Panes : attach[i] \notin Settling
  /\ busy.session \notin Settling
  /\ \A a \in asks : a.session \notin Settling
  /\ proto = "rdp" => asks = {}

IInv == TypeOK /\ Quiet

LEMMA WorkspaceInit == Init => IInv /\ HiddenIsClosed
<1> SUFFICES ASSUME Init PROVE IInv /\ HiddenIsClosed
  OBVIOUS
<1>1. TypeOK
  BY PanesAssumption DEF Init, TypeOK, Requests, Asks
<1>2. Quiet /\ HiddenIsClosed
  BY DEF Init, Quiet, Settling, HiddenIsClosed
<1> QED
  BY <1>1, <1>2 DEF IInv

-----------------------------------------------------------------------------
\* A set of natural numbers has a least element, in three steps: the library's
\* theorems name a relation
LEMMA LessThanWellFounded ==
  ASSUME NEW R, R = OpToRel(<, Nat)
  PROVE  IsWellFoundedOn(R, Nat)
BY NatLessThanWellFounded

LEMMA MinimalElement ==
  ASSUME NEW R, IsWellFoundedOn(R, Nat), NEW S, S \subseteq Nat, S # {}
  PROVE  \E x \in S : \A y \in S : ~(<<y, x>> \in R)
BY WFMin

LEMMA LeastElement ==
  ASSUME NEW S, S \subseteq Nat, S # {}
  PROVE  \E x \in S : \A y \in S : x =< y
<1>1. PICK R : R = OpToRel(<, Nat)
  OBVIOUS
<1>2. PICK x \in S : \A y \in S : ~(<<y, x>> \in R)
  BY <1>1, LessThanWellFounded, MinimalElement
<1>3. R = {pair \in Nat \X Nat : pair[1] < pair[2]}
  BY <1>1 DEF OpToRel
<1>4. ASSUME NEW y \in S PROVE x =< y
  <2>1. x \in Nat /\ y \in Nat
    OBVIOUS
  <2>2. <<y, x>> \in Nat \X Nat /\ <<y, x>>[1] = y /\ <<y, x>>[2] = x
    BY <2>1
  <2>3. ASSUME y < x PROVE <<y, x>> \in R
    BY <2>2, <2>3, <1>3
  <2> QED
    BY <2>1, <2>3, <1>2
<1> QED
  BY <1>4

LEMMA PreferredIsPane == ASSUME TypeOK PROVE Preferred \in Panes \cup {NoPane}
<1>1. ASSUME NEW S, S \subseteq Panes, S # {} PROVE Min(S) \in S
  BY <1>1, PanesAssumption, LeastElement DEF Min
<1> QED
  BY <1>1 DEF Preferred, TypeOK

\* The records of requests
LEMMA RequestTypes ==
  /\ \A p \in Panes \cup {NoPane}, s \in Sessions \cup {None}, at \in {"asked", "read", "made"} :
       [pane |-> p, session |-> s, at |-> at] \in Requests
  /\ \A b \in Requests : b.pane \in Panes \cup {NoPane} /\ b.session \in Sessions \cup {None}
BY DEF Requests

LEMMA AskTypes ==
  /\ \A p \in Panes, s \in Sessions \cup {None}, by \in {"mount", "retry", "gone"} :
       [pane |-> p, session |-> s, by |-> by] \in Asks
  /\ \A a \in Asks : a.pane \in Panes /\ a.session \in Sessions \cup {None}
  /\ \A a \in Asks, s \in Sessions : [a EXCEPT !.session = s] \in Asks
BY DEF Asks

\* Unmounting launch panes forgets requests, or who sent them, and may open
\* sessions
LEMMA UnmountEffect ==
  ASSUME TypeOK, NEW I \in SUBSET Panes, Unmount(I)
  PROVE  /\ pad' \in [Panes -> {"none", "loading", "failed"}]
         /\ asks' \subseteq Asks
         /\ srv' \in [Sessions -> {"none", "open", "closed"}]
         /\ \A b \in asks' : \E a \in asks : b.session = a.session
         /\ \A s \in Sessions : srv[s] # "none" => srv'[s] = srv[s]
         /\ ignored' \subseteq Panes
<1>1. PICK made \in SUBSET Fresh : srv' = [s \in Sessions |-> IF s \in made THEN "open" ELSE srv[s]]
  BY DEF Unmount
<1>2. ASSUME NEW b \in asks'
      PROVE  \E a \in asks : b \in {a, [a EXCEPT !.by = "gone"]}
  BY DEF Unmount
<1>3. ASSUME NEW b \in asks'
      PROVE  b \in Asks /\ \E a \in asks : b.session = a.session
  <2>1. PICK a \in asks : b \in {a, [a EXCEPT !.by = "gone"]}
    BY <1>2
  <2>2. a \in Asks
    BY DEF TypeOK
  <2> QED
    BY <2>1, <2>2 DEF Asks
<1> QED
  BY <1>1, <1>3 DEF Unmount, TypeOK

\* The steps that unmount launch panes keep the types
LEMMA UnmountTypes ==
  ASSUME TypeOK, proto' = proto,
         \/ Disconnect \/ Reconnect
         \/ \E i \in Panes : ReconnectPane(i) \/ LaunchGoes(i)
  PROVE  TypeOK'
<1>1. /\ pad' \in [Panes -> {"none", "loading", "failed"}]
      /\ asks' \subseteq Asks
      /\ srv' \in [Sessions -> {"none", "open", "closed"}]
      /\ ignored' \subseteq Panes
  <2>1. \E I \in SUBSET Panes : Unmount(I)
    BY DEF Disconnect, Reconnect, ReconnectPane, LaunchGoes
  <2> QED
    BY <2>1, UnmountEffect
<1>2. /\ attach' \in [Panes -> Sessions \cup {None}]
      /\ paused' \in BOOLEAN /\ failed' \in BOOLEAN
  <2>1. ASSUME NEW pane, ClearView(pane)
        PROVE  attach' \in [Panes -> Sessions \cup {None}] /\ failed' \in BOOLEAN
    BY <2>1 DEF TypeOK, ClearView
  <2>2. CASE Disconnect \/ Reconnect
    BY <2>1, <2>2 DEF Disconnect, Reconnect
  <2>3. ASSUME NEW i \in Panes, ReconnectPane(i)
        PROVE  /\ attach' \in [Panes -> Sessions \cup {None}]
               /\ paused' \in BOOLEAN /\ failed' \in BOOLEAN
    BY <2>1, <2>3 DEF TypeOK, ReconnectPane
  <2>4. ASSUME NEW i \in Panes, LaunchGoes(i)
        PROVE  /\ attach' \in [Panes -> Sessions \cup {None}]
               /\ paused' \in BOOLEAN /\ failed' \in BOOLEAN
    BY <2>4 DEF TypeOK, LaunchGoes
  <2> QED
    BY <2>2, <2>3, <2>4
<1>3. busy' \in Requests /\ (busy'.at = "read" => busy'.session # None)
  <2>1. Visible \subseteq Sessions
    BY DEF TypeOK
  <2>2. ASSUME NEW s \in Sessions \cup {None}, busy' = [pane |-> Preferred, session |-> s, at |-> "asked"]
        PROVE  busy' \in Requests /\ busy'.at = "asked"
    BY <2>2, PreferredIsPane, RequestTypes
  <2>3. \/ busy' = busy
        \/ \E s \in Sessions \cup {None} : busy' = [pane |-> Preferred, session |-> s, at |-> "asked"]
    BY <2>1 DEF Disconnect, Reconnect, ReconnectPane, LaunchGoes
  <2> QED
    BY <2>2, <2>3 DEF TypeOK
<1>4. UNCHANGED <<shown, listed, hidden, closing, done, shut, late, revived>>
  BY DEF Disconnect, Reconnect, ReconnectPane, LaunchGoes
<1> QED
  BY <1>1, <1>2, <1>3, <1>4 DEF TypeOK

\* Every step keeps the types
LEMMA WorkspaceTypeStep == ASSUME TypeOK, [Next]_vars PROVE TypeOK'
<1>0. proto' = proto
  BY DEF Next
<1>1. ASSUME \/ Disconnect \/ Reconnect
             \/ \E i \in Panes : ReconnectPane(i) \/ LaunchGoes(i)
      PROVE  TypeOK'
  BY <1>0, <1>1, UnmountTypes
<1> USE <1>0, PanesAssumption DEF TypeOK
<1>2. ASSUME NEW i \in Panes, PaneAppears(i) \/ PaneCloses(i) \/ PaneIsDropped(i)
      PROVE  TypeOK'
  BY <1>2 DEF PaneAppears, PaneCloses, PaneIsDropped
<1>3. ASSUME NEW i \in Panes \cup {NoPane}, NEW s \in Sessions, AttachTab(s, i)
      PROVE  TypeOK'
  BY <1>3, RequestTypes DEF AttachTab, Start
<1>4. ASSUME NEW i \in Panes \cup {NoPane}, CreateTab(i) PROVE TypeOK'
  BY <1>4, RequestTypes DEF CreateTab, Start
<1>5. CASE Answered
  BY <1>5, RequestTypes DEF Answered, Adopt
<1>6. CASE Navigate
  BY <1>6 DEF Navigate, ClearView
<1>7. CASE RefreshList
  BY <1>7 DEF RefreshList
<1>8. ASSUME NEW i \in Panes, LaunchMounts(i) PROVE TypeOK'
  BY <1>8, AskTypes DEF LaunchMounts
<1>9. ASSUME NEW i \in Panes, LaunchRetries(i) PROVE TypeOK'
  BY <1>9, AskTypes DEF LaunchRetries
<1>10. ASSUME NEW i \in Panes, LaunchMountsRdp(i) PROVE TypeOK'
  <2>1. [pane |-> i, session |-> None, at |-> "asked"] \in Requests
    BY RequestTypes
  <2>2. busy' \in Requests /\ (busy'.at = "read" => busy'.session # None)
    BY <1>10, <2>1 DEF LaunchMountsRdp
  <2>3. ignored' \subseteq Panes /\ pad' \in [Panes -> {"none", "loading", "failed"}]
    BY <1>10 DEF LaunchMountsRdp
  <2> QED
    BY <1>10, <2>2, <2>3 DEF LaunchMountsRdp
<1>11. ASSUME NEW i \in Panes, TerminalDrops(i) PROVE TypeOK'
  BY <1>11 DEF TerminalDrops
<1>12. ASSUME NEW a \in asks, LaunchAnswered(a) PROVE TypeOK'
  BY <1>12, AskTypes DEF LaunchAnswered, Adopt
<1>13. ASSUME NEW a \in asks, NEW s \in Sessions, LaunchInserted(a, s) PROVE TypeOK'
  BY <1>13, AskTypes DEF LaunchInserted
<1>14. ASSUME NEW s \in Sessions, Inserted(s) \/ SessionEnds(s) PROVE TypeOK'
  <2>1. CASE Inserted(s)
    <3>1. busy' \in Requests /\ busy'.at # "read"
      BY <2>1 DEF Inserted, Requests
    <3> QED
      BY <2>1, <3>1 DEF Inserted
  <2>2. CASE SessionEnds(s)
    BY <2>2 DEF SessionEnds
  <2> QED
    BY <1>14, <2>1, <2>2
<1>15. CASE Found
  BY <1>15 DEF Found, Requests
<1>16. CASE Prepared
  <2>1. busy.session \in Sessions
    BY <1>16, RequestTypes DEF Prepared
  <2>2. busy' \in Requests /\ busy'.at = "made"
    BY <1>16 DEF Prepared, Requests
  <2> QED
    BY <1>16, <2>1, <2>2 DEF Prepared
<1>17. ASSUME NEW s \in Sessions, CloseTab(s) \/ CloseTabRdp(s) \/ ServerCloses(s)
       PROVE  TypeOK'
  BY <1>17 DEF CloseTab, CloseTabRdp, ServerCloses, WithoutSession
<1>18. ASSUME NEW s \in Sessions, Closed(s) PROVE TypeOK'
  BY <1>18 DEF Closed, Settles
<1>19. ASSUME NEW s \in Sessions, ClosedRdp(s) PROVE TypeOK'
  BY <1>19 DEF ClosedRdp, Settles, WithoutSession
<1>20. CASE UNCHANGED vars
  BY <1>20
<1> QED
  BY <1>1, <1>2, <1>3, <1>4, <1>5, <1>6, <1>7, <1>8, <1>9, <1>10, <1>11, <1>12, <1>13, <1>14, <1>15,
     <1>16, <1>17, <1>18, <1>19, <1>20 DEF Next, Stale

USE DEF Requests, Asks

-----------------------------------------------------------------------------
\* An answer may be adopted when its session is not settling
LEMMA AdoptStep ==
  ASSUME IInv, NEW pane \in Panes \cup {NoPane}, NEW s \in Sessions, s \notin Settling,
         srv[s] # "none", Adopt(pane, s), UNCHANGED <<proto, srv, listed, closing, done, shut, late>>,
         busy' = busy \/ busy' = Idle, asks' \subseteq asks
  PROVE  Quiet'
<1>1. Settling' = Settling
  BY DEF Settling
<1> QED
  BY <1>1, PanesAssumption DEF IInv, TypeOK, Quiet, Adopt, Settling

\* A step that closes nothing, shows nothing and asks for nothing new
LEMMA QuietStep ==
  ASSUME IInv, UNCHANGED <<proto, closing, shut, late>>, done' \subseteq closing,
         hidden \subseteq hidden',
         \A s \in Sessions : srv[s] # "none" => srv'[s] # "none",
         \A s \in listed' : s \in Sessions /\ srv'[s] # "none",
         \A i \in Panes : attach'[i] \in {attach[i], None},
         \/ busy'.session = busy.session
         \/ busy'.session \notin Settling
            /\ (busy'.session # None => srv'[busy'.session] # "none"),
         \A b \in asks' : \/ b.session = None
                          \/ \E a \in asks : b.session = a.session,
         proto = "rdp" => asks' = {}
  PROVE  Quiet'
<1>1. Settling' = Settling
  BY DEF Settling
<1>2. None \notin Settling
  BY PanesAssumption DEF IInv, TypeOK, Settling
<1>3. ASSUME NEW b \in asks'
      PROVE  b.session \notin Settling /\ (b.session # None => srv'[b.session] # "none")
  <2>1. CASE b.session = None
    BY <1>2, <2>1
  <2>2. ASSUME NEW a \in asks, b.session = a.session, b.session # None
        PROVE  b.session \notin Settling /\ srv'[b.session] # "none"
    BY <2>2 DEF IInv, TypeOK, Quiet
  <2> QED
    BY <2>1, <2>2
<1>4. /\ closing' \cap shut' = {} /\ Settling' \subseteq hidden' /\ done' \subseteq closing'
      /\ \A s \in listed' \cup closing' \cup shut' : srv'[s] # "none"
  BY <1>1 DEF IInv, TypeOK, Quiet
<1>5. \A i \in Panes : attach'[i] \notin Settling' /\ (attach'[i] # None => srv'[attach'[i]] # "none")
  BY <1>1, <1>2 DEF IInv, TypeOK, Quiet
<1>6. busy'.session \notin Settling' /\ (busy'.session # None => srv'[busy'.session] # "none")
  BY <1>1 DEF IInv, TypeOK, Quiet
<1> QED
  BY <1>1, <1>3, <1>4, <1>5, <1>6 DEF Quiet

\* The steps that close a session leave it unattached and dismissed when it is
\* settling from then on
LEMMA ClosingStep ==
  ASSUME IInv, NEW s \in Sessions, proto' = proto,
         CloseTab(s) \/ CloseTabRdp(s) \/ ServerCloses(s) \/ Closed(s) \/ ClosedRdp(s)
  PROVE  Quiet'
<1> USE PanesAssumption DEF TypeOK, IInv
<1>1. CASE CloseTab(s)
  <2>1. s \notin shut /\ s \in listed /\ busy.session = None
    BY <1>1 DEF CloseTab, Quiet, Settling
  <2>2. Settling' \subseteq Settling \cup {s}
    BY <1>1 DEF CloseTab, Settling
  <2>3. \A a \in asks' : a.session \notin Settling'
    BY <1>1, <2>2 DEF CloseTab, Quiet, Settling
  <2>4. \A i \in Panes : attach'[i] \notin Settling' /\ (attach'[i] # None => srv'[attach'[i]] # "none")
    BY <1>1, <2>2 DEF CloseTab, WithoutSession, Quiet, Settling
  <2>5. /\ closing' \cap shut' = {} /\ Settling' \subseteq hidden' /\ done' \subseteq closing'
        /\ \A t \in listed' \cup closing' \cup shut' : srv'[t] # "none"
    BY <1>1, <2>1, <2>2 DEF CloseTab, Quiet
  <2>6. busy'.session \notin Settling'
    BY <1>1, <2>1 DEF CloseTab, Settling
  <2> QED
    BY <1>1, <2>1, <2>3, <2>4, <2>5, <2>6 DEF Quiet, CloseTab
<1>2. CASE CloseTabRdp(s)
  <2>1. s \notin shut /\ srv[s] # "none"
    BY <1>2 DEF CloseTabRdp, Quiet, Settling
  <2>2. Settling' = Settling
    BY <1>2 DEF CloseTabRdp, Settling
  <2> QED
    BY <1>2, <2>1, <2>2 DEF CloseTabRdp, Quiet
<1>3. CASE ServerCloses(s)
  <2>1. Settling' = Settling
    BY <1>3 DEF ServerCloses, Settling
  <2> QED
    BY <1>3, <2>1 DEF ServerCloses, Quiet
<1>4. CASE Closed(s)
  <2>1. Settling' \subseteq Settling
    BY <1>4 DEF Closed, Settles, Settling
  <2>2. s \notin Settling' \/ hidden' = hidden
    BY <1>4 DEF Closed, Settles, Settling, Quiet
  <2>3. /\ closing' \cap shut' = {} /\ Settling' \subseteq hidden' /\ done' \subseteq closing'
    BY <1>4, <2>1, <2>2 DEF Closed, Settles, Quiet
  <2>4. \A t \in listed' \cup closing' \cup shut' : srv'[t] # "none"
    BY <1>4 DEF Closed, Settles, Quiet
  <2> QED
    BY <1>4, <2>1, <2>3, <2>4 DEF Closed, Settles, Quiet
<1>5. CASE ClosedRdp(s)
  <2>1. Settling' \subseteq Settling \cup ({s} \ {busy.session}) /\ Settling \subseteq shut
    BY <1>5 DEF ClosedRdp, Settles, Settling
  <2>2. CASE attach' = WithoutSession(s) /\ hidden' = hidden \cup {s}
    <3>1. \A i \in Panes : attach'[i] \notin Settling' /\ (attach'[i] # None => srv'[attach'[i]] # "none")
      BY <1>5, <2>1, <2>2 DEF ClosedRdp, Settles, WithoutSession, Quiet
    <3>2. /\ closing' \cap shut' = {} /\ Settling' \subseteq hidden' /\ done' \subseteq closing'
          /\ \A t \in listed' \cup closing' \cup shut' : srv'[t] # "none"
      BY <1>5, <2>1, <2>2 DEF ClosedRdp, Settles, Quiet
    <3> QED
      BY <1>5, <2>1, <3>1, <3>2 DEF ClosedRdp, Settles, Quiet
  <2>3. CASE UNCHANGED <<hidden, attach, paused, shut>>
    <3>1. Settling' = Settling
      BY <1>5, <2>3 DEF ClosedRdp, Settles, Settling
    <3> QED
      BY <1>5, <2>3, <3>1 DEF ClosedRdp, Settles, Quiet
  <2> QED
    BY <1>5, <2>2, <2>3 DEF ClosedRdp
<1> QED
  BY <1>1, <1>2, <1>3, <1>4, <1>5

LEMMA WorkspaceQuietStep == ASSUME IInv, [Next]_vars PROVE Quiet'
<1>0. proto' = proto
  BY DEF Next
<1> USE <1>0, PanesAssumption DEF TypeOK, IInv
<1>1. ASSUME NEW i \in Panes, PaneAppears(i) \/ PaneCloses(i) \/ PaneIsDropped(i)
      PROVE  Quiet'
  BY <1>1, QuietStep DEF Quiet, PaneAppears, PaneCloses, PaneIsDropped
<1>2. ASSUME NEW i \in Panes \cup {NoPane}, NEW s \in Sessions, AttachTab(s, i)
      PROVE  Quiet'
  <2>1. s \notin Settling /\ srv[s] # "none" /\ busy'.session = s
    BY <1>2 DEF AttachTab, Start, Quiet
  <2> QED
    BY <1>2, <2>1, QuietStep DEF Quiet, AttachTab, Start
<1>3. None \notin Settling /\ \A s \in Visible : s \notin Settling
  BY DEF Settling, Quiet
<1>4. ASSUME NEW i \in Panes \cup {NoPane}, CreateTab(i)
      PROVE  Quiet'
  <2>1. busy'.session = None
    BY <1>4 DEF CreateTab, Start
  <2> QED
    BY <1>4, <1>3, <2>1, QuietStep DEF Quiet, CreateTab, Start
<1>5. CASE Answered
  <2>1. CASE Adopt(busy.pane, busy.session) /\ busy.session \in Sessions
    BY <1>5, <2>1, AdoptStep DEF Quiet, Answered
  <2>2. CASE Adopt(busy.pane, busy.session) /\ busy.session = None
    BY <1>5, <1>3, <2>2 DEF Quiet, Answered, Adopt, Settling
  <2>3. CASE UNCHANGED <<attach, hidden, paused>>
    <3>1. busy'.session = None
      BY <1>5 DEF Answered
    <3> QED
      BY <1>5, <1>3, <2>3, <3>1, QuietStep DEF Quiet, Answered
  <2> QED
    BY <1>5, <2>1, <2>2, <2>3 DEF Answered
<1>6. CASE Disconnect
  BY <1>6, QuietStep, UnmountEffect DEF Quiet, Disconnect, ClearView
<1>7. CASE Reconnect
  <2>1. \/ busy'.session = busy.session
        \/ busy'.session = None
        \/ busy'.session \in Visible
    BY <1>7 DEF Reconnect
  <2>2. \/ busy'.session = busy.session
        \/ busy'.session \notin Settling
           /\ (busy'.session # None => srv'[busy'.session] # "none")
    BY <1>3, <1>7, <2>1, UnmountEffect DEF Reconnect, Quiet
  <2> QED
    BY <1>7, <2>2, QuietStep, UnmountEffect DEF Quiet, Reconnect, ClearView
<1>8. ASSUME NEW i \in Panes, ReconnectPane(i) PROVE Quiet'
  BY <1>8, QuietStep, UnmountEffect DEF Quiet, ReconnectPane, ClearView
<1>9. CASE Navigate
  BY <1>9, QuietStep DEF Quiet, Navigate, ClearView
<1>10. CASE RefreshList
  BY <1>10, QuietStep DEF Quiet, RefreshList
<1>11. ASSUME NEW i \in Panes, LaunchMounts(i) \/ LaunchRetries(i)
       PROVE  Quiet'
  <2>1. \A b \in asks' : b.session = None \/ b \in asks
    BY <1>11 DEF LaunchMounts, LaunchRetries
  <2> QED
    BY <1>11, <2>1, QuietStep DEF Quiet, LaunchMounts, LaunchRetries
<1>12. ASSUME NEW i \in Panes, LaunchMountsRdp(i) PROVE Quiet'
  <2>1. busy'.session = busy.session \/ busy'.session = None
    BY <1>12 DEF LaunchMountsRdp
  <2> QED
    BY <1>12, <1>3, <2>1, QuietStep DEF Quiet, LaunchMountsRdp
<1>13. ASSUME NEW i \in Panes, LaunchGoes(i) PROVE Quiet'
  BY <1>13, QuietStep, UnmountEffect DEF Quiet, LaunchGoes
<1>14. ASSUME NEW i \in Panes, TerminalDrops(i) PROVE Quiet'
  BY <1>14, QuietStep DEF Quiet, TerminalDrops
<1>15. ASSUME NEW a \in asks, LaunchAnswered(a) PROVE Quiet'
  <2>1. CASE a.session # None /\ Adopt(a.pane, a.session)
    BY <1>15, <2>1, AdoptStep DEF Quiet, LaunchAnswered
  <2>2. CASE UNCHANGED <<attach, hidden, paused>>
    BY <1>15, <2>2, QuietStep DEF Quiet, LaunchAnswered
  <2> QED
    BY <1>15, <2>1, <2>2 DEF LaunchAnswered
<1>16. ASSUME NEW a \in asks, NEW s \in Sessions, LaunchInserted(a, s) PROVE Quiet'
  <2>1. s \notin Settling /\ Settling' = Settling /\ proto # "rdp"
    BY <1>16 DEF Quiet, Settling, LaunchInserted
  <2>2. \A b \in asks' : b \in asks \/ b.session = s
    BY <1>16 DEF LaunchInserted
  <2>3. srv' = [srv EXCEPT ![s] = "open"]
    BY <1>16 DEF LaunchInserted
  <2>4. \A b \in asks' : b.session \notin Settling /\ (b.session # None => srv'[b.session] # "none")
    BY <2>1, <2>2, <2>3 DEF Quiet
  <2> QED
    BY <1>16, <2>1, <2>3, <2>4 DEF Quiet, LaunchInserted
<1>17. ASSUME NEW s \in Sessions, Inserted(s) PROVE Quiet'
  <2>1. s \notin Settling /\ busy'.session = s /\ srv' = [srv EXCEPT ![s] = "open"]
    BY <1>17 DEF Quiet, Settling, Inserted
  <2> QED
    BY <1>17, <2>1, QuietStep DEF Quiet, Inserted
<1>18. CASE Found
  BY <1>18, QuietStep DEF Quiet, Found
<1>19. CASE Prepared
  BY <1>19, QuietStep DEF Quiet, Prepared
<1>20. ASSUME NEW s \in Sessions, SessionEnds(s) PROVE Quiet'
  BY <1>20, QuietStep DEF Quiet, SessionEnds
<1>21. ASSUME NEW s \in Sessions,
              CloseTab(s) \/ CloseTabRdp(s) \/ ServerCloses(s) \/ Closed(s) \/ ClosedRdp(s)
       PROVE  Quiet'
  BY <1>21, ClosingStep
<1>22. CASE UNCHANGED vars
  BY <1>22, QuietStep DEF Quiet
<1> QED
  BY <1>1, <1>2, <1>4, <1>5, <1>6, <1>7, <1>8, <1>9, <1>10, <1>11, <1>12, <1>13, <1>14, <1>15,
     <1>16, <1>17, <1>18, <1>19, <1>20, <1>21, <1>22 DEF Next, Stale

-----------------------------------------------------------------------------
\* The state of the workspace is always of its types
THEOREM WorkspaceTypes == Spec => []TypeOK
<1>1. Init => TypeOK
  BY WorkspaceInit DEF IInv
<1>2. TypeOK /\ [Next]_vars => TypeOK'
  BY WorkspaceTypeStep
<1> QED
  BY <1>1, <1>2, PTL DEF Spec

LEMMA WorkspaceIsQuiet == Spec => []IInv
<1>1. Init => IInv
  BY WorkspaceInit
<1>2. IInv /\ [Next]_vars => IInv'
  BY WorkspaceTypeStep, WorkspaceQuietStep DEF IInv
<1> QED
  BY <1>1, <1>2, PTL DEF Spec

\* No pane shows a session the user has closed: closePersistentSshTab clears
\* every attachment, and until the close settles no answer can bring it back
\* but that of a launch which was unanswered; closePersistentRdpSession does so
\* when the close is confirmed
THEOREM WorkspaceClosedIsNotShown == Spec => []ClosedIsNotShown
<1>1. IInv => ClosedIsNotShown
  BY DEF IInv, Quiet, Settling, ClosedIsNotShown
<1> QED
  BY <1>1, WorkspaceIsQuiet, PTL

\* What dismissal means for the server: a close it has carried out stays so but
\* for a revival, and of RDP no tab is dismissed that is attached or being closed
Dismissal ==
  /\ \A s \in done : srv[s] = "closed" \/ s \in revived
  /\ proto = "rdp" => hidden \cap closing = {} /\ \A i \in Panes : attach[i] \notin hidden
  /\ HiddenIsClosed

\* A step that dismisses nothing and ends or revives sessions
LEMMA DismissalKept ==
  ASSUME TypeOK, Dismissal, UNCHANGED <<proto, closing>>, done' = done, hidden' \subseteq hidden,
         \A s \in Sessions : srv[s] = "closed" \/ s \in revived
                                => srv'[s] = "closed" \/ s \in revived',
         \A i \in Panes : attach'[i] \in {attach[i], None} \/ attach'[i] \notin hidden'
  PROVE  Dismissal'
BY PanesAssumption DEF TypeOK, Dismissal, HiddenIsClosed

\* An adopted session is not dismissed any more
LEMMA DismissalAdopted ==
  ASSUME TypeOK, Dismissal, NEW pane, NEW s \in Sessions \cup {None}, Adopt(pane, s),
         UNCHANGED <<proto, srv, closing, done, revived>>
  PROVE  Dismissal'
<1>1. hidden' \subseteq hidden /\ s \notin hidden'
  BY DEF Adopt
<1>2. \A i \in Panes : attach'[i] \in {attach[i], s}
  BY DEF Adopt, TypeOK
<1> QED
  BY <1>1, <1>2, DismissalKept DEF TypeOK

LEMMA DismissalStep == ASSUME IInv, Dismissal, [Next]_vars PROVE Dismissal'
<1>0. proto' = proto
  BY DEF Next
<1> USE <1>0, PanesAssumption DEF TypeOK, IInv
<1>1. ASSUME NEW s \in Sessions, CloseTab(s) \/ CloseTabRdp(s) \/ ServerCloses(s)
      PROVE  Dismissal'
  <2>1. CASE CloseTab(s)
    BY <2>1 DEF CloseTab, Dismissal, HiddenIsClosed
  <2>2. CASE CloseTabRdp(s)
    BY <2>2 DEF CloseTabRdp, Dismissal, HiddenIsClosed
  <2>3. CASE ServerCloses(s)
    BY <2>3 DEF ServerCloses, Dismissal, HiddenIsClosed
  <2> QED
    BY <1>1, <2>1, <2>2, <2>3
<1>2. ASSUME NEW s \in Sessions, Closed(s) PROVE Dismissal'
  BY <1>2 DEF Closed, Settles, Dismissal, HiddenIsClosed
<1>3. ASSUME NEW s \in Sessions, ClosedRdp(s) PROVE Dismissal'
  BY <1>3 DEF ClosedRdp, Settles, WithoutSession, Dismissal, HiddenIsClosed
<1>4. ASSUME NEW s \in Sessions, Inserted(s) \/ SessionEnds(s)
      PROVE  Dismissal'
  BY <1>4, DismissalKept DEF Inserted, Fresh, SessionEnds
<1>5. CASE Found
  BY <1>5, DismissalKept DEF Found
<1>6. CASE Prepared
  BY <1>6, DismissalKept DEF Prepared
<1>7. ASSUME NEW a \in asks, NEW s \in Sessions, LaunchInserted(a, s) PROVE Dismissal'
  BY <1>7, DismissalKept DEF LaunchInserted, Fresh
<1>8. ASSUME NEW a \in asks, LaunchAnswered(a) PROVE Dismissal'
  <2>1. CASE Adopt(a.pane, a.session)
    BY <1>8, <2>1, DismissalAdopted DEF LaunchAnswered
  <2>2. CASE UNCHANGED <<attach, hidden, paused>>
    BY <1>8, <2>2, DismissalKept DEF LaunchAnswered
  <2> QED
    BY <1>8, <2>1, <2>2 DEF LaunchAnswered
<1>9. CASE Answered
  <2>1. CASE Adopt(busy.pane, busy.session)
    BY <1>9, <2>1, DismissalAdopted DEF Answered
  <2>2. CASE UNCHANGED <<attach, hidden, paused>>
    BY <1>9, <2>2, DismissalKept DEF Answered
  <2> QED
    BY <1>9, <2>1, <2>2 DEF Answered
<1>10. ASSUME NEW i \in Panes, \/ PaneAppears(i) \/ PaneCloses(i) \/ PaneIsDropped(i)
                               \/ LaunchMounts(i) \/ LaunchMountsRdp(i) \/ LaunchRetries(i)
                               \/ TerminalDrops(i)
       PROVE  Dismissal'
  BY <1>10, DismissalKept
     DEF PaneAppears, PaneCloses, PaneIsDropped, LaunchMounts, LaunchMountsRdp, LaunchRetries,
         TerminalDrops
<1>11. ASSUME NEW i \in Panes, LaunchGoes(i) PROVE Dismissal'
  BY <1>11, DismissalKept, UnmountEffect DEF LaunchGoes
<1>12. ASSUME NEW i \in Panes \cup {NoPane}, NEW s \in Sessions, AttachTab(s, i)
       PROVE  Dismissal'
  BY <1>12, DismissalKept DEF AttachTab, Start
<1>13. ASSUME NEW i \in Panes \cup {NoPane}, CreateTab(i) PROVE Dismissal'
  <2>1. UNCHANGED <<srv, attach, hidden, closing, done, revived>>
    BY <1>13 DEF CreateTab, Start
  <2> QED
    BY <2>1 DEF Dismissal, HiddenIsClosed
<1>14. CASE Navigate
  <2>1. UNCHANGED <<proto, srv, hidden, closing, done, revived>>
    BY <1>14 DEF Navigate
  <2>2. attach' = attach \/ attach' = [i \in Panes |-> None]
    <3>1. CASE attach' = attach
      BY <3>1
    <3>2. CASE ClearView(NoPane)
      BY <3>2 DEF ClearView
    <3> QED
      BY <1>14, <3>1, <3>2 DEF Navigate
  <2>3. \A i \in Panes : attach'[i] \in {attach[i], None}
    BY <2>2
  <2> QED
    BY <2>1, <2>3, DismissalKept
<1>15. CASE RefreshList \/ UNCHANGED vars
  BY <1>15, DismissalKept DEF RefreshList
<1>16. CASE Disconnect
  BY <1>16, DismissalKept, UnmountEffect DEF Disconnect, ClearView
<1>17. CASE Reconnect
  BY <1>17, DismissalKept, UnmountEffect DEF Reconnect, ClearView
<1>18. ASSUME NEW i \in Panes, ReconnectPane(i) PROVE Dismissal'
  BY <1>18, DismissalKept, UnmountEffect DEF ReconnectPane, ClearView
<1> QED
  BY <1>1, <1>2, <1>3, <1>4, <1>5, <1>6, <1>7, <1>8, <1>9, <1>10, <1>11, <1>12, <1>13, <1>14, <1>15,
     <1>16, <1>17, <1>18 DEF Next, Stale

\* A dismissed tab is closed or being closed, but for an RDP session that was
\* revived: a close of SSH that fails lists the tab again, one of RDP dismisses
\* it when the server has closed it
THEOREM WorkspaceHiddenIsClosed == Spec => []HiddenIsClosed
<1>1. Init => Dismissal
  BY PanesAssumption DEF Init, Dismissal, HiddenIsClosed
<1>2. IInv /\ Dismissal /\ [Next]_vars => Dismissal'
  BY DismissalStep
<1>3. Dismissal => HiddenIsClosed
  BY DEF Dismissal
<1> QED
  BY <1>1, <1>2, <1>3, WorkspaceIsQuiet, PTL DEF Spec

-----------------------------------------------------------------------------
\* A launch pane that is not going to be unmounted and says loading has a
\* request of its own under way, or its call was dropped
Waits(i) ==
  \/ i \in Stale \cup ignored
  \/ \E a \in asks : a.pane = i /\ a.by # "gone"

\* What a step that leaves the launch pane i and its requests alone keeps
LEMMA WaitsKept ==
  ASSUME LaunchPaneWaits, NEW i \in Panes, Stale = {}, pad[i] = "loading",
         i \in ignored => i \in ignored',
         \A a \in asks : a.pane = i /\ a.by # "gone" => a \in asks'
  PROVE  Waits(i)'
BY DEF LaunchPaneWaits, Waits

LEMMA WaitsStep == ASSUME TypeOK, LaunchPaneWaits, [Next]_vars PROVE LaunchPaneWaits'
<1> SUFFICES ASSUME NEW i \in Panes, pad'[i] = "loading" PROVE Waits(i)'
  BY DEF LaunchPaneWaits, Waits
<1> USE PanesAssumption DEF TypeOK
<1>1. ASSUME NEW j \in Stale, LaunchGoes(j) PROVE Waits(i)'
  <2>1. j \in Panes /\ i # j /\ pad[i] = "loading"
    BY <1>1 DEF LaunchGoes, Unmount, Stale
  <2>2. i \in Stale => i \in Stale'
    BY <1>1, <2>1 DEF LaunchGoes, Unmount, Stale, Launches, Attachable, Visible
  <2>3. i \in ignored => i \in ignored'
    BY <1>1, <2>1 DEF LaunchGoes, Unmount
  <2>4. \A a \in asks : a.pane = i => a \in asks'
    BY <1>1, <2>1 DEF LaunchGoes, Unmount
  <2> QED
    BY <2>1, <2>2, <2>3, <2>4 DEF LaunchPaneWaits, Waits
<1>2. CASE UNCHANGED vars
  BY <1>2 DEF LaunchPaneWaits, Waits, Stale, Launches, Attachable, Visible
<1>3. ASSUME Stale = {}, UNCHANGED <<pad, asks, ignored>> PROVE Waits(i)'
  BY <1>3, WaitsKept
<1>4. ASSUME Stale = {}, NEW j \in Panes, LaunchMounts(j) PROVE Waits(i)'
  <2>1. CASE i = j
    <3>1. [pane |-> i, session |-> None, by |-> "mount"] \in asks'
      BY <1>4, <2>1 DEF LaunchMounts
    <3> QED
      BY <3>1 DEF Waits
  <2>2. CASE i # j
    BY <1>4, <2>2, WaitsKept DEF LaunchMounts
  <2> QED
    BY <2>1, <2>2
<1>5. ASSUME Stale = {}, NEW j \in Panes, LaunchRetries(j) PROVE Waits(i)'
  <2>1. CASE i = j
    <3>1. [pane |-> i, session |-> None, by |-> "retry"] \in asks'
      BY <1>5, <2>1 DEF LaunchRetries
    <3> QED
      BY <3>1 DEF Waits
  <2>2. CASE i # j
    BY <1>5, <2>2, WaitsKept DEF LaunchRetries
  <2> QED
    BY <2>1, <2>2
<1>6. ASSUME Stale = {}, NEW j \in Panes, LaunchMountsRdp(j) PROVE Waits(i)'
  <2>1. CASE i = j /\ busy = Idle
    <3>1. busy'.pane = i
      BY <1>6, <2>1 DEF LaunchMountsRdp
    <3> QED
      BY <3>1 DEF Waits, Stale, Launches
  <2>2. CASE i = j /\ busy # Idle
    BY <1>6, <2>2 DEF LaunchMountsRdp, Waits
  <2>3. CASE i # j
    BY <1>6, <2>3, WaitsKept DEF LaunchMountsRdp
  <2> QED
    BY <2>1, <2>2, <2>3
<1>7. ASSUME Stale = {}, NEW a \in asks, LaunchAnswered(a) PROVE Waits(i)'
  <2>1. pad[i] = "loading" /\ ignored' = ignored
    BY <1>7 DEF LaunchAnswered
  <2>2. CASE a.pane = i /\ a.by # "gone"
    <3>1. a.session # None /\ Adopt(a.pane, a.session)
      BY <1>7, <2>2 DEF LaunchAnswered
    <3>2. attach'[i] # None
      BY <2>2, <3>1 DEF Adopt
    <3> QED
      BY <3>2 DEF Waits, Stale, Launches
  <2>3. CASE ~(a.pane = i /\ a.by # "gone")
    BY <1>7, <2>1, <2>3, WaitsKept DEF LaunchAnswered
  <2> QED
    BY <2>2, <2>3
<1>8. ASSUME Stale = {}, NEW a \in asks, NEW s \in Sessions, LaunchInserted(a, s)
      PROVE  Waits(i)'
  <2>1. pad[i] = "loading" /\ ignored' = ignored
    BY <1>8 DEF LaunchInserted
  <2>2. CASE a.pane = i /\ a.by # "gone"
    <3>1. [a EXCEPT !.session = s] \in asks'
      BY <1>8 DEF LaunchInserted
    <3>2. [a EXCEPT !.session = s].pane = i /\ [a EXCEPT !.session = s].by # "gone"
      BY <2>2
    <3> QED
      BY <3>1, <3>2 DEF Waits
  <2>3. CASE ~(a.pane = i /\ a.by # "gone")
    BY <1>8, <2>1, <2>3, WaitsKept DEF LaunchInserted
  <2> QED
    BY <2>2, <2>3
<1>9. ASSUME Unmount(Panes) PROVE FALSE
  BY <1>9 DEF Unmount
<1> QED
  BY <1>1, <1>2, <1>3, <1>4, <1>5, <1>6, <1>7, <1>8, <1>9
     DEF Next, PaneAppears, PaneCloses, PaneIsDropped, CreateTab, AttachTab, Start, Found, Prepared,
         Answered, Disconnect, Reconnect, ReconnectPane, Navigate, RefreshList, TerminalDrops,
         Inserted, CloseTab, CloseTabRdp, ServerCloses, Closed, ClosedRdp, Settles, SessionEnds

\* A launch pane that says loading waits for an answer, however often it was
\* retried or mounted again: Retry and the mounting send a request, whose answer
\* ends the waiting, and what cancels it unmounts the pane
THEOREM WorkspaceLaunchPaneWaits == Spec => []LaunchPaneWaits
<1>1. Init => LaunchPaneWaits
  BY DEF Init, LaunchPaneWaits
<1>2. TypeOK /\ LaunchPaneWaits /\ [Next]_vars => LaunchPaneWaits'
  BY WaitsStep
<1> QED
  BY <1>1, <1>2, WorkspaceTypes, PTL DEF Spec
=============================================================================
