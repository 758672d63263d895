------------------------- MODULE WorkspaceSessions -------------------------
(***************************************************************************)
(* The live sessions of one host as the panes of the workspace show them:  *)
(* which pane is attached to which session, the tabs the page lists and    *)
(* those the user has dismissed.  SSH and RDP have variables and functions *)
(* of their own that never meet; proto says whose these are.  Sessions are *)
(* created and attached by the tab strip and the panes, one at a time, and *)
(* by the launch pane that a pane mounts when there is nothing to attach   *)
(* to.  An SSH tab is dismissed when its close is asked for, an RDP tab    *)
(* when it is confirmed.  The answers of the server come back while the    *)
(* user closes panes and tabs.                                             *)
(*                                                                         *)
(* Of the layout only this is kept: which panes show the protocol and host.*)
(***************************************************************************)
EXTENDS Naturals, FiniteSetsExt

CONSTANTS
  Sessions,   \* the sessions that can be created
  Panes,      \* ids of panes, numbered in the order of the layout
  MaxAsks     \* bound: unanswered requests of launch panes

ASSUME PanesAssumption ==
  Panes \subseteq Nat \ {0} /\ MaxAsks \in Nat /\ "none" \notin Sessions

VARIABLES
  proto,    \* the protocol
  shown,    \* the panes that show it
  srv,      \* status of each session at the server
  listed,   \* what liveSshSessionsQuery holds
  attach,   \* liveSshAttachByPaneId
  hidden,   \* dismissedLiveSshSessionIds
  busy,     \* liveSshBusy: the request of the strip or of a pane's button
  pad,      \* launch pane of each pane: not mounted, loading, failed
  asks,     \* requests of SSH launch panes whose answer is still listened to
  closing,  \* sessions whose close is under way
  done,     \* those that the server has closed
  paused,   \* the host's sessions are paused
  failed,   \* liveSshError is set
  shut,     \* sessions the user closed, all their launches answered (history)
  late,     \* SSH sessions closed before their launch was answered (history)
  revived,  \* RDP sessions an attach has opened again after they ended (history)
  ignored   \* RDP panes whose launch found another request under way (history)

tabVars  == <<attach, hidden, paused, failed>>
reqVars  == <<busy, pad, asks, closing, done>>
pastVars == <<shut, late, revived, ignored>>
vars     == <<proto, shown, srv, listed, tabVars, reqVars, pastVars>>

-----------------------------------------------------------------------------
NoPane     == 0
None       == "none"
Visible    == listed \ hidden
Attachable == Visible \ {attach[i] : i \in Panes}
Requests   == [pane : Panes \cup {NoPane}, session : Sessions \cup {None}, at : {"asked", "read", "made"}]
Asks       == [pane : Panes, session : Sessions \cup {None}, by : {"mount", "retry", "gone"}]
Idle       == [pane |-> NoPane, session |-> None, at |-> "made"]
Fresh      == {s \in Sessions : srv[s] = "none"}

\* preferredLiveSshPaneId: the first ssh pane that is not attached, else the first
Preferred ==
  LET free == {i \in shown : attach[i] = None}
  IN IF shown = {} THEN NoPane ELSE IF free = {} THEN Min(shown) ELSE Min(free)

Init ==
  /\ proto \in {"ssh", "rdp"}
  /\ shown \in SUBSET Panes
  /\ srv \in [Sessions -> {"none", "open"}]
  /\ listed = {s \in Sessions : srv[s] = "open"}
  /\ attach = [i \in Panes |-> None]
  /\ hidden = {} /\ closing = {} /\ done = {} /\ asks = {}
  /\ busy = Idle
  /\ pad = [i \in Panes |-> "none"]
  /\ paused = FALSE /\ failed = FALSE
  /\ shut = {} /\ late = {} /\ revived = {} /\ ignored = {}

TypeOK ==
  /\ proto \in {"ssh", "rdp"}
  /\ shown \subseteq Panes /\ ignored \subseteq Panes
  /\ srv \in [Sessions -> {"none", "open", "closed"}]
  /\ attach \in [Panes -> Sessions \cup {None}]
  /\ pad \in [Panes -> {"none", "loading", "failed"}]
  /\ busy \in Requests
  /\ busy.at = "read" => busy.session # None
  /\ asks \subseteq Asks
  /\ listed \cup hidden \cup closing \cup done \cup shut \cup late \cup revived \subseteq Sessions
  /\ paused \in BOOLEAN /\ failed \in BOOLEAN

-----------------------------------------------------------------------------
(* Creating and attaching with the strip or a button                       *)

Start(pane, session) ==
  /\ busy = Idle
  /\ busy' = [pane |-> pane, session |-> session, at |-> "asked"]
  /\ failed' = FALSE
  /\ UNCHANGED <<shown, srv, listed, attach, hidden, paused, pad, asks, closing, done, pastVars>>

\* createPersistentSshTab: of a pane, or of the strip
CreateTab(pane) ==
  /\ pane \in shown \cup {Preferred}
  /\ Start(pane, None)

\* attachPersistentSshTab, of a tab; the toolbar of an RDP pane attaches its
\* session again
AttachTab(s, pane) ==
  /\ pane \in shown \cup {Preferred}
  /\ \/ s \in Visible
     \/ proto = "rdp" /\ pane # NoPane /\ attach[pane] = s
  /\ Start(pane, s)

\* The server inserts a session; that of RDP is yet to be attached to
Inserted(s) ==
  /\ busy.at = "asked" /\ busy.session = None /\ s \in Fresh
  /\ srv' = [srv EXCEPT ![s] = "open"]
  /\ busy' = [busy EXCEPT !.session = s, !.at = IF proto = "ssh" THEN "made" ELSE @]
  /\ UNCHANGED <<shown, listed, tabVars, pad, asks, closing, done, pastVars>>

\* It finds the session to attach to open
Found ==
  /\ busy.at = "asked" /\ busy.session # None /\ srv[busy.session] = "open"
  /\ busy' = [busy EXCEPT !.at = IF proto = "ssh" THEN "made" ELSE "read"]
  /\ UNCHANGED <<shown, srv, listed, tabVars, pad, asks, closing, done, pastVars>>

\* prepareAttach of RDP opens what it found open, whatever it is by now
Prepared ==
  /\ busy.at = "read"
  /\ busy' = [busy EXCEPT !.at = "made"]
  /\ srv' = [srv EXCEPT ![busy.session] = "open"]
  /\ revived' = IF srv[busy.session] = "closed" THEN revived \cup {busy.session} ELSE revived
  /\ UNCHANGED <<shown, listed, tabVars, pad, asks, closing, done, shut, late, ignored>>

\* What every answer does with a launch
Adopt(pane, s) ==
  /\ attach' = IF pane = NoPane THEN attach ELSE [attach EXCEPT ![pane] = s]
  /\ hidden' = hidden \ {s}
  /\ paused' = FALSE

\* The answer: the pane may have gone in the meantime, nobody looks
Answered ==
  /\ busy # Idle
  /\ busy' = Idle
  /\ \/ /\ busy.at = "made"
        /\ Adopt(busy.pane, busy.session)
        /\ UNCHANGED failed
     \/ failed' = TRUE /\ UNCHANGED <<attach, hidden, paused>>
  /\ UNCHANGED <<shown, srv, listed, pad, asks, closing, done, pastVars>>

-----------------------------------------------------------------------------
(* Launch panes                                                            *)

\* The branch of the template that mounts a launch pane
Launches(i) ==
  /\ i \in shown /\ ~failed /\ busy.pane # i
  /\ attach[i] = None /\ ~paused /\ Attachable = {}

\* Panes whose launch pane the page is about to unmount
Stale == {i \in Panes : pad[i] # "none" /\ ~Launches(i)}

LaunchMounts(i) ==
  /\ proto = "ssh"
  /\ Launches(i) /\ pad[i] = "none" /\ Cardinality(asks) < MaxAsks
  /\ pad' = [pad EXCEPT ![i] = "loading"]
  /\ asks' = asks \cup {[pane |-> i, session |-> None, by |-> "mount"]}
  /\ UNCHANGED <<shown, srv, listed, tabVars, busy, closing, done, pastVars>>

\* RDP's launch pane calls createPersistentRdpSession, which does nothing while
\* another request is under way
LaunchMountsRdp(i) ==
  /\ proto = "rdp"
  /\ Launches(i) /\ pad[i] = "none"
  /\ pad' = [pad EXCEPT ![i] = "loading"]
  /\ IF busy = Idle
     THEN busy' = [pane |-> i, session |-> None, at |-> "asked"] /\ UNCHANGED ignored
     ELSE ignored' = ignored \cup {i} /\ UNCHANGED busy
  /\ UNCHANGED <<shown, srv, listed, tabVars, asks, closing, done, shut, late, revived>>

\* Mutant of Unmount: the requests are cancelled, the pane goes on waiting
UnmountLess(I) ==
  /\ LET cancelled == {a \in asks : a.pane \in I /\ a.by = "mount"} IN
       /\ asks' = (asks \ cancelled)
       /\ \E made \in SUBSET Fresh :
            /\ Cardinality(made) <= Cardinality({a \in cancelled : a.session = None})
            /\ srv' = [s \in Sessions |-> IF s \in made THEN "open" ELSE srv[s]]
  /\ ignored' = ignored \ I /\ UNCHANGED pad

\* The launch panes of I unmount.  onMount's cleanup cancels their first
\* request; one sent by Retry has nobody to cancel it.  A cancelled request may
\* still create its session
Unmount(I) ==
  /\ pad' = [i \in Panes |-> IF i \in I THEN "none" ELSE pad[i]]
  /\ LET cancelled == {a \in asks : a.pane \in I /\ a.by = "mount"}
         left      == {a \in asks : a.pane \in I /\ a.by = "retry"}
     IN
       /\ asks' = (asks \ (cancelled \cup left)) \cup {[a EXCEPT !.by = "gone"] : a \in left}
       /\ \E made \in SUBSET Fresh :
            /\ Cardinality(made) <= Cardinality({a \in cancelled : a.session = None})
            /\ srv' = [s \in Sessions |-> IF s \in made THEN "open" ELSE srv[s]]
  /\ ignored' = ignored \ I

LaunchGoes(i) ==
  /\ i \in Stale
  /\ Unmount({i})
  /\ UNCHANGED <<shown, listed, tabVars, busy, closing, done, shut, late, revived>>

LaunchRetries(i) ==
  /\ proto = "ssh"
  /\ pad[i] = "failed"
  /\ Cardinality(asks) < MaxAsks
  /\ pad' = [pad EXCEPT ![i] = "loading"]
  /\ asks' = asks \cup {[pane |-> i, session |-> None, by |-> "retry"]}
  /\ UNCHANGED <<shown, srv, listed, tabVars, busy, closing, done, pastVars>>

LaunchInserted(a, s) ==
  /\ a.session = None /\ s \in Fresh
  /\ srv' = [srv EXCEPT ![s] = "open"]
  /\ asks' = (asks \ {a}) \cup {[a EXCEPT !.session = s]}
  /\ UNCHANGED <<shown, listed, tabVars, busy, pad, closing, done, pastVars>>

\* handleLiveSshLaunch, which asks for no lock; or the error of the launch pane
\* that sent the request, if it is still there
LaunchAnswered(a) ==
  /\ asks' = asks \ {a}
  /\ \/ /\ a.session # None
        /\ Adopt(a.pane, a.session)
        /\ UNCHANGED pad
     \/ /\ pad' = [pad EXCEPT ![a.pane] = IF a.by = "gone" THEN @ ELSE "failed"]
        /\ UNCHANGED <<attach, hidden, paused>>
  /\ UNCHANGED <<shown, srv, listed, failed, busy, closing, done, pastVars>>

-----------------------------------------------------------------------------
(* Closing                                                                 *)

\* Mutant of WithoutSession: one pane of several is cleared
WithoutFirst(s) == [i \in Panes |->
  IF attach[i] = s /\ \A j \in Panes : attach[j] = s => i <= j THEN None ELSE attach[i]]

\* clearLiveSshAttachBySession
WithoutSession(s) == [i \in Panes |-> IF attach[i] = s THEN None ELSE attach[i]]

\* closePersistentSshTab: the tab is dismissed before the server is asked
CloseTab(s) ==
  /\ proto = "ssh"
  /\ s \in Visible /\ busy = Idle   \* the button is disabled while busy
  /\ s \notin closing               \* bound: one close of a session at a time
  /\ hidden' = hidden \cup {s}
  /\ attach' = WithoutSession(s)
  /\ paused' = TRUE
  /\ closing' = closing \cup {s}
  /\ late' = late \cup {t \in {s} : \E a \in asks : a.session = s}
  /\ UNCHANGED <<shown, srv, listed, failed, busy, pad, asks, done, shut, revived, ignored>>

\* closePersistentRdpSession, of a tab or of the session that a pane shows
CloseTabRdp(s) ==
  /\ proto = "rdp"
  /\ \/ s \in Visible /\ busy = Idle
     \/ ~failed /\ \E i \in shown : attach[i] = s /\ busy.pane # i
  /\ s \notin closing               \* the same bound
  /\ closing' = closing \cup {s}
  /\ UNCHANGED <<shown, srv, listed, tabVars, busy, pad, asks, done, pastVars>>

\* The server carries the close out
ServerCloses(s) ==
  /\ s \in closing \ done
  /\ srv' = [srv EXCEPT ![s] = "closed"]
  /\ done' = done \cup {s} /\ revived' = revived \ {s}
  /\ UNCHANGED <<shown, listed, tabVars, busy, pad, asks, closing, shut, late, ignored>>

\* What the answers to both closes have in common
Settles(s) ==
  /\ s \in closing
  /\ closing' = closing \ {s} /\ done' = done \ {s}
  /\ UNCHANGED <<shown, srv, listed, busy, pad, asks, revived, ignored>>

\* Mutant of Closed: a close that failed leaves the tab dismissed
ClosedForGood(s) ==
  /\ proto = "ssh" /\ Settles(s)
  /\ \/ /\ s \in done /\ shut' = shut \cup ({s} \ late)
        /\ UNCHANGED <<hidden, failed>>
     \/ failed' = TRUE /\ UNCHANGED <<hidden, shut>>
  /\ late' = late \ {s}
  /\ UNCHANGED <<attach, paused>>

\* The close is confirmed, or it fails, at the server or on the way back, and
\* the tab is listed again
Closed(s) ==
  /\ proto = "ssh" /\ Settles(s)
  /\ \/ /\ s \in done /\ shut' = shut \cup ({s} \ late)
        /\ UNCHANGED <<hidden, failed>>
     \/ /\ hidden' = hidden \ {s} /\ failed' = TRUE
        /\ UNCHANGED shut
  /\ late' = late \ {s}
  /\ UNCHANGED <<attach, paused>>

\* Only now the tab of RDP is dismissed; if it fails, nothing has changed.
\* Somebody may be attaching to the session
ClosedRdp(s) ==
  /\ proto = "rdp" /\ Settles(s)
  /\ \/ /\ s \in done
        /\ hidden' = hidden \cup {s}
        /\ attach' = WithoutSession(s)
        /\ paused' = TRUE
        /\ shut' = shut \cup ({s} \ {busy.session})
        /\ UNCHANGED failed
     \/ failed' = TRUE /\ UNCHANGED <<hidden, attach, paused, shut>>
  /\ UNCHANGED late

\* handleLiveSshTerminalState: the terminal of a pane is disconnected
TerminalDrops(i) ==
  /\ proto = "ssh"
  /\ attach[i] # None
  /\ attach' = [attach EXCEPT ![i] = None]
  /\ failed' = FALSE
  /\ UNCHANGED <<shown, srv, listed, hidden, paused, reqVars, pastVars>>

-----------------------------------------------------------------------------
(* Disconnecting, reconnecting, leaving: the nonce remounts every launch pane *)

\* clearLiveSshViewState: of one pane, or of all when there is none
ClearView(pane) ==
  /\ attach' = [i \in Panes |-> IF pane \in {i, NoPane} THEN None ELSE attach[i]]
  /\ failed' = FALSE

Disconnect ==
  /\ paused' = TRUE /\ ClearView(Preferred)
  /\ Unmount(Panes)
  /\ UNCHANGED <<shown, listed, hidden, busy, closing, done, shut, late, revived>>

\* reconnect: attaches a session that is listed, else creates one; but for the
\* view, nothing while another request is under way
Reconnect ==
  /\ paused' = FALSE /\ ClearView(Preferred)
  /\ Unmount(Panes)
  /\ IF busy # Idle THEN UNCHANGED busy
     ELSE \E s \in IF Visible = {} THEN {None} ELSE Visible :
            busy' = [pane |-> Preferred, session |-> s, at |-> "asked"]
  /\ UNCHANGED <<shown, listed, hidden, closing, done, shut, late, revived>>

\* reconnectPane, of one of these panes or of another
ReconnectPane(i) ==
  /\ Unmount(Panes)
  /\ IF i \in shown THEN paused' = FALSE /\ ClearView(i)
     ELSE UNCHANGED <<attach, paused, failed>>
  /\ UNCHANGED <<shown, listed, hidden, busy, closing, done, shut, late, revived>>

\* selectProtocol to this one, which keeps the views, and of RDP the error;
\* selectProtocol to another, selectHostProtocol, setLauncherProtocol and
\* returnToLauncher, which clear them
Navigate ==
  /\ \/ /\ paused' = FALSE /\ UNCHANGED attach
        /\ failed' = (proto = "rdp" /\ failed)
     \/ paused' \in {paused, FALSE} /\ ClearView(NoPane)
  /\ UNCHANGED <<shown, srv, listed, hidden, reqVars, pastVars>>

-----------------------------------------------------------------------------
\* A session ends by itself, or the list is read again
SessionEnds(s) ==
  /\ srv[s] = "open" /\ srv' = [srv EXCEPT ![s] = "closed"]
  /\ UNCHANGED <<shown, listed, tabVars, reqVars, pastVars>>

RefreshList ==
  /\ listed' = {s \in Sessions : srv[s] = "open"}
  /\ UNCHANGED <<shown, srv, tabVars, reqVars, pastVars>>

-----------------------------------------------------------------------------
(* The edits of the layout                                                 *)

\* A pane is split off, a larger layout is selected, a pane is set to the host;
\* or it is set to the protocol, which clears the error
PaneAppears(i) ==
  /\ i \notin shown /\ shown' = shown \cup {i}
  /\ failed' \in {failed, FALSE}
  /\ UNCHANGED <<srv, listed, attach, hidden, paused, reqVars, pastVars>>

\* closePane, selectPaneKind, selectPaneHost: the view of the pane is cleared
PaneCloses(i) ==
  /\ i \in shown /\ shown' = shown \ {i}
  /\ attach' = [attach EXCEPT ![i] = None] /\ failed' = FALSE
  /\ UNCHANGED <<srv, listed, hidden, paused, reqVars, pastVars>>

\* selectLayout to a smaller layout leaves the attachment of the pane
PaneIsDropped(i) ==
  /\ i \in shown /\ shown' = shown \ {i}
  /\ UNCHANGED <<srv, listed, tabVars, reqVars, pastVars>>

Next ==
  /\ UNCHANGED proto
  /\ \/ \E i \in Stale : LaunchGoes(i)
     \/ /\ Stale = {}   \* the page is rendered before anything else can happen
        /\ \/ \E i \in Panes : PaneAppears(i) \/ PaneCloses(i) \/ PaneIsDropped(i)
           \/ \E i \in Panes \cup {NoPane} :
                CreateTab(i) \/ \E s \in Sessions : AttachTab(s, i)
           \/ Found \/ Prepared \/ Answered
           \/ Disconnect \/ Reconnect \/ Navigate \/ RefreshList
           \/ \E i \in Panes : LaunchMounts(i) \/ LaunchMountsRdp(i) \/ LaunchRetries(i)
           \/ \E i \in Panes : TerminalDrops(i) \/ ReconnectPane(i)
           \/ \E a \in asks : LaunchAnswered(a) \/ \E s \in Sessions : LaunchInserted(a, s)
           \/ \E s \in Sessions :
                \/ Inserted(s) \/ CloseTab(s) \/ CloseTabRdp(s) \/ ServerCloses(s)
                \/ Closed(s) \/ ClosedRdp(s) \/ SessionEnds(s)

Spec == Init /\ [][Next]_vars

-----------------------------------------------------------------------------
\* No pane shows a session that the user has closed, however the answers come
\* in; but for a session with a launch unanswered when its SSH tab was closed,
\* or when the close of its RDP tab was confirmed, which is then not in shut:
\* the answer shows it again
ClosedIsNotShown ==
  \A i \in Panes : attach[i] \notin shut

\* A tab that the page hides is closed, or a close of it is under way: no
\* session stays open at the server that the user can neither see nor close;
\* but for an RDP session that an attach under way opened again
HiddenIsClosed ==
  \A s \in hidden : s \in closing \/ srv[s] = "closed" \/ s \in revived

\* A launch pane that says a session is being opened waits for a request of
\* its own, through retries, remounts and answers to earlier ones: it cannot
\* stay that way for good.  But for an RDP pane, which says so when its request
\* was dropped because another was under way
LaunchPaneWaits ==
  \A i \in Panes \ (Stale \cup ignored) :
    pad[i] = "loading" => \E a \in asks : a.pane = i /\ a.by # "gone"
=============================================================================
