------------------------------- MODULE LiveSsh -------------------------------
(***************************************************************************)
(* One persistent SSH session of TermKit, at the grain of its awaits.      *)
(*                                                                         *)
(* Three things describe the session and are updated by different tasks:   *)
(*   - its row in ssh_live_sessions (services/ssh-live-sessions.ts),       *)
(*   - the LiveSshSession object of the in-memory manager, which owns the  *)
(*     shell and at most one attached websocket (ssh-live/manager.ts),     *)
(*   - the websockets that ws/upgrade.ts accepts with single-use attach    *)
(*     tickets and whose end it writes back to the row.                    *)
(* Every query is a step of its own, so that other tasks run between the   *)
(* SELECT and the UPDATE of one operation; a block of code without await   *)
(* is one step.  The manager, the row and the maps of upgrade.ts are keyed *)
(* by session id and share nothing between ids, so one session is enough.  *)
(* The state starts right after createOrReuse inserted the row.            *)
(***************************************************************************)
EXTENDS Integers

CONSTANTS
  Conns,          \* the websocket upgrades that may be tried
  Tickets,        \* the attach tickets that may be minted
  NoConn,         \* no websocket
  NoTicket,       \* no ticket
  TicketTtl,      \* lifetime of a ticket and of a row not yet attached
  IdleTtl,        \* lifetime of a detached row
  MaxTime,        \* bound on the clock
  MaxBoots,       \* bound on process restarts
  SharedManager   \* do the remote functions and server.ts share one manager?

ASSUME NullAssumption == NoConn \notin Conns /\ NoTicket \notin Tickets
ASSUME TimeAssumption ==
  /\ TicketTtl \in Nat \ {0} /\ IdleTtl \in Nat \ {0}
  /\ MaxTime \in Nat /\ MaxBoots \in Nat
ASSUME BundleAssumption == SharedManager \in BOOLEAN

VARIABLES
  clock,      \* Date.now(), in ticks
  boots,      \* number of restarts so far
  staleDue,   \* markStaleOnStartup was issued and its UPDATE has not run
  row,        \* the session's row: status and expiresAt
  ticket,     \* the attach tickets, and the requests that mint them
  conn,       \* progress of each upgrade request through upgrade.ts
  wire,       \* readyState of each websocket
  bye,        \* the close reason a closing or closed websocket reports
  parked,     \* open websockets that sent a detach frame
  shell,      \* the manager's map entry: who started it, who is attached
  after,      \* progress of the persistence of each websocket's close
  reaper,     \* progress of persistLiveSshManagerClose, by starting upgrade
  attachMap,  \* liveSshAttachmentPersistence: whose promise is in the map
  closeMap,   \* liveSshSocketClosePersistence: whose promise is in the map
  kill,       \* pending manager.close calls, by the operation that owes them
  unheard     \* some close reason of the server never came back (history)

dbVars      == <<row, ticket>>
wsVars      == <<wire, bye, parked, shell, unheard>>
persistVars == <<after, reaper, attachMap, closeMap, kill>>
memVars     == <<conn, wsVars, persistVars>>
timeVars    == <<clock, boots, staleDue>>
vars        == <<dbVars, memVars, timeVars>>

-----------------------------------------------------------------------------
NoTime == -1
Stamp  == Nat \cup {NoTime}

Open     == {"starting", "attached", "detached"}   \* isLiveStatus
Final    == {"ended", "failed"}
Statuses == Open \cup Final \cup {"stale"}

Peer    == Conns \cup {NoConn}
NoShell == [by |-> NoConn, att |-> NoConn]

HasShell == shell.by # NoConn

\* LiveSshSession.hasActiveAttachment
HasActiveAttachment == shell.att # NoConn /\ wire[shell.att] = "open"

\* isExpiredLiveSession, for a caller whose now is t
Expired(t) == /\ row.status \in {"starting", "detached"}
              /\ row.exp # NoTime
              /\ row.exp <= t

\* What getLiveSession lets through
Attachable(t) == row.status \in Open /\ ~Expired(t)

\* Mutants of MayBecome: failed is not final; stale is treated as open
MayBecomeUnlessEnded(status) == row.status # "ended"
MayBecomeEvenStale(status)   == row.status \in Open \cup {"stale"}

\* allowedCurrentSshLiveStatusesForUpdate
MayBecome(status) ==
  row.status \in (IF status = "ended" THEN Open \cup {"stale"} ELSE Open)

\* updateSshLiveSession with a status: one guarded UPDATE
UpdateRow(status, exp) ==
  row' = IF MayBecome(status) THEN [status |-> status, exp |-> exp] ELSE row

\* Mutant of Recorded: without finally, a refused upgrade does not resolve it
RecordedIfAttached(c) == conn[c].pc = "recorded"

\* The promise attachmentRecorded of an upgrade is resolved
Recorded(c) == conn[c].pc \in {"recorded", "refusing", "refused"}

\* Mutants of Finish: the attachment is kept; nobody persists a detached end
FinishKeepsAttachment(kind) ==
  LET told == HasActiveAttachment
  IN  /\ shell' = [shell EXCEPT !.by = NoConn]
      /\ wire' = IF told THEN [wire EXCEPT ![shell.att] = "closing"] ELSE wire
      /\ bye' = IF told THEN [bye EXCEPT ![shell.att] = kind] ELSE bye
      /\ UNCHANGED reaper

FinishUnpersisted(kind) ==
  /\ shell' = NoShell
  /\ wire' = IF HasActiveAttachment THEN [wire EXCEPT ![shell.att] = "closing"] ELSE wire
  /\ bye' = IF HasActiveAttachment THEN [bye EXCEPT ![shell.att] = kind] ELSE bye
  /\ UNCHANGED reaper

\* LiveSshSession.finish.  An attached socket that is open is closed with the
\* reason and will report it; else the manager's close listener persists it.
\* The error paths close the socket before they call finish.
Finish(kind) ==
  LET told == HasActiveAttachment
  IN  /\ shell' = NoShell
      /\ wire' = IF told THEN [wire EXCEPT ![shell.att] = "closing"] ELSE wire
      /\ bye'  = IF told THEN [bye EXCEPT ![shell.att] = kind] ELSE bye
      /\ reaper' = IF told /\ kind = "ended" THEN reaper
                   ELSE [reaper EXCEPT ![shell.by] =
                           [st |-> "wait", kind |-> kind, on |-> attachMap]]

\* LiveSshManager.close
ManagerClose ==
  IF HasShell THEN Finish("ended") ELSE UNCHANGED <<shell, wire, bye, reaper>>

-----------------------------------------------------------------------------
Init ==
  /\ clock = 0 /\ boots = 0 /\ staleDue = FALSE
  /\ row = [status |-> "starting", exp |-> TicketTtl]
  /\ ticket = [t \in Tickets |-> [st |-> "none", at |-> 0, extend |-> FALSE]]
  /\ conn = [c \in Conns |-> [pc |-> "idle", ticket |-> NoTicket, seen |-> "none", at |-> 0]]
  /\ wire = [c \in Conns |-> "none"]
  /\ bye = [c \in Conns |-> "none"]
  /\ parked = {}
  /\ shell = NoShell
  /\ after = [c \in Conns |-> "none"]
  /\ reaper = [c \in Conns |-> [st |-> "none", kind |-> "none", on |-> NoConn]]
  /\ attachMap = NoConn /\ closeMap = NoConn
  /\ kill = {}
  /\ unheard = FALSE

-----------------------------------------------------------------------------
(* Minting an attach ticket: createLiveSshAttach, createAttachTicket.      *)

\* getLiveSession's SELECT; a row that is not open makes the request throw
MintRead(t) ==
  /\ ticket[t].st = "none"
  /\ row.status \in Open
  /\ ticket' = [ticket EXCEPT ![t] =
       [st     |-> IF Expired(clock) THEN "expire" ELSE "read",
        at     |-> clock,
        extend |-> \/ row.status = "starting"
                   \/ /\ row.status = "detached"
                      /\ row.exp = NoTime \/ row.exp < clock + TicketTtl]]
  /\ UNCHANGED <<row, memVars, timeVars>>

\* INSERT of the ticket and, when the row read was not attached, UPDATE of its
\* expiresAt without a status: no guard.  Nobody knows the ticket before both.
MintWrite(t) ==
  /\ ticket[t].st = "read"
  /\ ticket' = [ticket EXCEPT ![t].st = "fresh"]
  /\ row' = IF ticket[t].extend THEN [row EXCEPT !.exp = ticket[t].at + TicketTtl] ELSE row
  /\ UNCHANGED <<memVars, timeVars>>

\* endExpiredSession in the process part that serves the remote functions
MintExpire(t) ==
  /\ ticket[t].st = "expire"
  /\ ticket' = [ticket EXCEPT ![t].st = "void"]
  /\ UpdateRow("ended", NoTime)
  /\ kill' = IF SharedManager /\ MayBecome("ended") THEN kill \cup {"expire"} ELSE kill
  /\ UNCHANGED <<wsVars, conn, after, reaper, attachMap, closeMap, timeVars>>

-----------------------------------------------------------------------------
(* An upgrade request: consumeAttachTicket, the second read, the handshake. *)

Goto(c, pc) == conn' = [conn EXCEPT ![c].pc = pc]

\* consumeAttachTicket's reads of the ticket and of the row
UpgradeRead(c, t) ==
  /\ conn[c].pc = "idle"
  /\ ticket[t].st \in {"fresh", "used"}
  /\ LET late == ticket[t].at + TicketTtl <= clock
     IN  conn' = [conn EXCEPT ![c] =
           [pc     |-> IF ticket[t].st = "used" THEN "rejected"
                       ELSE IF Expired(clock) THEN "expire"
                       ELSE IF late \/ row.status \notin Open THEN "rejected" ELSE "consume",
            ticket |-> t, seen |-> "none", at |-> clock]]
  /\ UNCHANGED <<wsVars, dbVars, persistVars, timeVars>>

\* endExpiredSession, then TicketExpiredError or ServiceValidationError
UpgradeExpire(c) ==
  /\ conn[c].pc = "expire"
  /\ Goto(c, IF conn[c].seen = "none" THEN "rejected" ELSE "gone")
  /\ UpdateRow("ended", NoTime)
  /\ kill' = IF MayBecome("ended") THEN kill \cup {"expire"} ELSE kill
  /\ UNCHANGED <<wsVars, ticket, after, reaper, attachMap, closeMap, timeVars>>

\* Mutant of Consume: the UPDATE does not ask for consumed_at IS NULL
ConsumeUnguarded(c) ==
  /\ conn[c].pc = "consume"
  /\ Goto(c, "resolve")
  /\ ticket' = [ticket EXCEPT ![conn[c].ticket].st = "used"]
  /\ UNCHANGED <<wsVars, row, persistVars, timeVars>>

\* consumeSshAttachTicket: UPDATE ... WHERE consumed_at IS NULL
Consume(c) ==
  /\ conn[c].pc = "consume"
  /\ Goto(c, IF ticket[conn[c].ticket].st = "fresh" THEN "resolve" ELSE "rejected")
  /\ ticket' = [ticket EXCEPT ![conn[c].ticket].st = "used"]
  /\ UNCHANGED <<wsVars, row, persistVars, timeVars>>

\* LiveSshAttachTicketConsumer reads the row again and keeps its status; then
\* the host and the credential, which may be gone
Resolve(c) ==
  /\ conn[c].pc = "resolve"
  /\ \/ /\ Attachable(conn[c].at)
        /\ conn' = [conn EXCEPT ![c].pc = "upgrade", ![c].seen = row.status]
     \/ /\ Expired(conn[c].at)
        /\ conn' = [conn EXCEPT ![c].pc = "expire", ![c].seen = row.status]
     \/ Goto(c, "gone")
  /\ UNCHANGED <<wsVars, dbVars, persistVars, timeVars>>

\* Mutant of Attach: the socket attached before stays open
AttachKeepsPrevious(c) ==
  /\ shell' = [by |-> IF HasShell THEN shell.by ELSE c, att |-> c]
  /\ wire' = [wire EXCEPT ![c] = "open"]
  /\ UNCHANGED bye

\* LiveSshSession.attach, of the session in the map or of a new one: the new
\* socket takes over, an open one it replaces is closed
Attach(c) ==
  /\ shell' = [by |-> IF HasShell THEN shell.by ELSE c, att |-> c]
  /\ wire' = [d \in Conns |-> IF d = c THEN "open"
                              ELSE IF d = shell.att /\ HasActiveAttachment THEN "closing"
                              ELSE wire[d]]
  /\ bye' = [d \in Conns |-> IF d = shell.att /\ HasActiveAttachment THEN "reattached"
                             ELSE bye[d]]

\* handleUpgrade, then manager.handle up to the first await: attach to the
\* session in the map, or start one for a row read as starting or detached
Handle(c) ==
  /\ conn[c].pc = "upgrade"
  /\ HasShell \/ conn[c].seen \in {"starting", "detached"}
  /\ Goto(c, "mark")
  /\ Attach(c)
  /\ attachMap' = c
  /\ UNCHANGED <<unheard, dbVars, parked, after, reaper, closeMap, kill, timeVars>>

\* manager.handle throws: the row was attached and the session is gone
HandleRefused(c) ==
  /\ conn[c].pc = "upgrade"
  /\ ~HasShell /\ conn[c].seen = "attached"
  /\ Goto(c, "refusing")
  /\ wire' = [wire EXCEPT ![c] = "closing"]
  /\ bye' = [bye EXCEPT ![c] = "failed"]
  /\ attachMap' = NoConn
  /\ UNCHANGED <<unheard, dbVars, parked, shell, after, reaper, closeMap, kill, timeVars>>

RefusedWrite(c) ==
  /\ conn[c].pc = "refusing"
  /\ Goto(c, "refused")
  /\ UpdateRow("failed", NoTime)
  /\ UNCHANGED <<wsVars, ticket, persistVars, timeVars>>

\* markAttached: SELECT, judged at the time the ticket was consumed.  A row
\* that is no longer open makes it throw, which the caller ignores.
MarkRead(c) ==
  /\ conn[c].pc = "mark"
  /\ IF Attachable(conn[c].at)
     THEN Goto(c, "markWrite") /\ UNCHANGED attachMap
     ELSE IF Expired(conn[c].at)
     THEN Goto(c, "markExpire") /\ UNCHANGED attachMap
     ELSE Goto(c, "recorded") /\ attachMap' = NoConn
  /\ UNCHANGED <<wsVars, dbVars, after, reaper, closeMap, kill, timeVars>>

\* Mutant of MarkWrite: attachmentRecorded is never resolved
MarkWriteUnrecorded(c) ==
  /\ conn[c].pc = "markWrite"
  /\ UpdateRow("attached", NoTime)
  /\ attachMap' = NoConn
  /\ UNCHANGED <<conn, wsVars, ticket, after, reaper, closeMap, kill, timeVars>>

\* UPDATE to attached; the finally block then drops whatever promise the map
\* holds for the session
MarkWrite(c) ==
  /\ conn[c].pc = "markWrite"
  /\ Goto(c, "recorded")
  /\ UpdateRow("attached", NoTime)
  /\ attachMap' = NoConn
  /\ UNCHANGED <<wsVars, ticket, after, reaper, closeMap, kill, timeVars>>

MarkExpire(c) ==
  /\ conn[c].pc = "markExpire"
  /\ Goto(c, "recorded")
  /\ UpdateRow("ended", NoTime)
  /\ attachMap' = NoConn
  /\ IF MayBecome("ended") THEN ManagerClose ELSE UNCHANGED <<shell, wire, bye, reaper>>
  /\ UNCHANGED <<unheard, ticket, parked, after, closeMap, kill, timeVars>>

-----------------------------------------------------------------------------
(* Sockets, frames and the remote end of the shell.                        *)

PeerClose(c) ==
  /\ wire[c] = "open"
  /\ wire' = [wire EXCEPT ![c] = "closing"]
  /\ bye' = [bye EXCEPT ![c] = "peer"]
  /\ UNCHANGED <<unheard, dbVars, conn, parked, shell, persistVars, timeVars>>

\* The close event: the reason is what the peer echoed, or empty when the
\* connection was lost before it did.  Both close listeners run.
CloseEvent(c) ==
  /\ wire[c] = "closing"
  /\ wire' = [wire EXCEPT ![c] = "closed"]
  /\ \E reason \in {bye[c], "peer"} :
       /\ bye' = [bye EXCEPT ![c] = reason]
       /\ unheard' = (unheard \/ reason # bye[c])
  /\ shell' = IF shell.att = c THEN [shell EXCEPT !.att = NoConn] ELSE shell
  /\ parked' = parked \ {c}
  /\ after' = [after EXCEPT ![c] = "wait"]
  /\ closeMap' = c
  /\ UNCHANGED <<dbVars, conn, reaper, attachMap, kill, timeVars>>

DetachFrame(c) ==
  /\ shell.att = c /\ wire[c] = "open"
  /\ shell' = [shell EXCEPT !.att = NoConn]
  /\ parked' = parked \cup {c}
  /\ UNCHANGED <<unheard, dbVars, conn, wire, bye, persistVars, timeVars>>

CloseFrame(c) ==
  /\ shell.att = c /\ wire[c] = "open"
  /\ Finish("ended")
  /\ UNCHANGED <<unheard, dbVars, conn, parked, after, attachMap, closeMap, kill, timeVars>>

\* The shell or the transport ends (remote), or reports an error
ShellEnds ==
  /\ HasShell
  /\ \E kind \in Final : Finish(kind)
  /\ UNCHANGED <<unheard, dbVars, conn, parked, after, attachMap, closeMap, kill, timeVars>>

-----------------------------------------------------------------------------
(* Writing the end of a websocket back to the row.                         *)

\* The promise of this close is settled; finally drops it from the map
Settle(c) == /\ after' = [after EXCEPT ![c] = "done"]
             /\ closeMap' = IF closeMap = c THEN NoConn ELSE closeMap

CloseCheck(c) ==
  /\ after[c] = "wait" /\ Recorded(c)
  /\ IF \/ conn[c].pc # "recorded"
        \/ bye[c] = "reattached"
        \/ HasActiveAttachment
     THEN Settle(c) /\ UNCHANGED conn
     ELSE /\ after' = [after EXCEPT ![c] = IF bye[c] = "peer" THEN "detach" ELSE "write"]
          /\ conn' = [conn EXCEPT ![c].at = clock]
          /\ UNCHANGED closeMap
  /\ UNCHANGED <<wsVars, dbVars, reaper, attachMap, kill, timeVars>>

\* end or fail, by the close reason
CloseWrite(c) ==
  /\ after[c] = "write"
  /\ UpdateRow(bye[c], NoTime)
  /\ Settle(c)
  /\ UNCHANGED <<wsVars, ticket, conn, reaper, attachMap, kill, timeVars>>

\* markDetached: SELECT, then UPDATE
DetachRead(c) ==
  /\ after[c] = "detach"
  /\ IF row.status \in Open
     THEN /\ after' = [after EXCEPT ![c] =
                         IF Expired(conn[c].at) THEN "detachExpire" ELSE "detachWrite"]
          /\ UNCHANGED closeMap
     ELSE Settle(c)
  /\ UNCHANGED <<wsVars, dbVars, conn, reaper, attachMap, kill, timeVars>>

\* Mutant of DetachWrite: detaching clears the expiry
DetachWriteNoExpiry(c) ==
  /\ after[c] = "detachWrite"
  /\ UpdateRow("detached", NoTime)
  /\ Settle(c)
  /\ UNCHANGED <<wsVars, ticket, conn, reaper, attachMap, kill, timeVars>>

DetachWrite(c) ==
  /\ after[c] = "detachWrite"
  /\ UpdateRow("detached", conn[c].at + IdleTtl)
  /\ Settle(c)
  /\ UNCHANGED <<wsVars, ticket, conn, reaper, attachMap, kill, timeVars>>

DetachExpire(c) ==
  /\ after[c] = "detachExpire"
  /\ UpdateRow("ended", NoTime)
  /\ kill' = IF MayBecome("ended") THEN kill \cup {"expire"} ELSE kill
  /\ Settle(c)
  /\ UNCHANGED <<wsVars, ticket, conn, reaper, attachMap, timeVars>>

\* persistLiveSshManagerClose: wait for the attach promise that was in the
\* map, one timer turn, then for the close promise found in the map
ReapTimer(c) ==
  /\ reaper[c].st = "wait"
  /\ reaper[c].on # NoConn => Recorded(reaper[c].on)
  /\ reaper' = [reaper EXCEPT ![c].st = "flush", ![c].on = closeMap]
  /\ UNCHANGED <<wsVars, dbVars, conn, after, attachMap, closeMap, kill, timeVars>>

ReapWrite(c) ==
  /\ reaper[c].st = "flush"
  /\ reaper[c].on # NoConn => after[reaper[c].on] = "done"
  /\ reaper' = [reaper EXCEPT ![c].st = "done", ![c].on = NoConn]
  /\ UpdateRow(reaper[c].kind, NoTime)
  /\ UNCHANGED <<wsVars, ticket, conn, after, attachMap, closeMap, kill, timeVars>>

-----------------------------------------------------------------------------
(* Closing on request, the idle sweep, restarts.                           *)

\* closeLiveSshSession and terminateAdminLiveSshSession: UPDATE to ended,
\* then close on the manager of the bundle that serves remote functions
CloseCommand ==
  /\ "close" \notin kill
  /\ UpdateRow("ended", NoTime)
  /\ kill' = IF SharedManager THEN kill \cup {"close"} ELSE kill
  /\ UNCHANGED <<wsVars, ticket, conn, after, reaper, attachMap, closeMap, timeVars>>

\* expireIdleDetachedSessions: one UPDATE, then close what it returned
Sweep ==
  /\ Expired(clock)
  /\ row' = [row EXCEPT !.status = "ended"]
  /\ kill' = kill \cup {"sweep"}
  /\ UNCHANGED <<wsVars, ticket, conn, after, reaper, attachMap, closeMap, timeVars>>

Kill(k) ==
  /\ k \in kill
  /\ kill' = kill \ {k}
  /\ ManagerClose
  /\ UNCHANGED <<unheard, dbVars, conn, parked, after, attachMap, closeMap, timeVars>>

\* The process dies and starts again: rows and tickets stay
Restart ==
  /\ boots < MaxBoots
  /\ boots' = boots + 1
  /\ staleDue' = TRUE
  /\ ticket' = [t \in Tickets |-> IF ticket[t].st \in {"read", "expire"}
                                  THEN [ticket[t] EXCEPT !.st = "void"] ELSE ticket[t]]
  /\ conn' = [c \in Conns |->
       [conn[c] EXCEPT !.pc = IF @ = "idle" THEN "idle"
                              ELSE IF @ \in {"consume", "rejected"} THEN "rejected"
                              ELSE IF @ = "expire" /\ conn[c].seen = "none" THEN "rejected"
                              ELSE "gone"]]
  /\ wire' = [c \in Conns |-> IF wire[c] = "none" THEN "none" ELSE "closed"]
  /\ bye' = [c \in Conns |-> "none"]
  /\ parked' = {}
  /\ shell' = NoShell
  /\ after' = [c \in Conns |-> "none"]
  /\ reaper' = [c \in Conns |-> [st |-> "none", kind |-> "none", on |-> NoConn]]
  /\ attachMap' = NoConn /\ closeMap' = NoConn
  /\ kill' = {}
  /\ UNCHANGED <<row, clock, unheard>>

\* markStaleSshLiveSessions, issued at start without waiting for it
MarkStale ==
  /\ staleDue
  /\ staleDue' = FALSE
  /\ row' = IF row.status \in Open THEN [row EXCEPT !.status = "stale"] ELSE row
  /\ UNCHANGED <<ticket, memVars, clock, boots>>

Tick ==
  /\ clock < MaxTime
  /\ clock' = clock + 1
  /\ UNCHANGED <<dbVars, memVars, boots, staleDue>>

-----------------------------------------------------------------------------
\* The steps the server takes on its own once they are possible
ServerStep(c) ==
  \/ UpgradeExpire(c) \/ Consume(c) \/ Resolve(c) \/ Handle(c) \/ HandleRefused(c)
  \/ RefusedWrite(c) \/ MarkRead(c) \/ MarkWrite(c) \/ MarkExpire(c)
  \/ CloseEvent(c) \/ CloseCheck(c) \/ CloseWrite(c)
  \/ DetachRead(c) \/ DetachWrite(c) \/ DetachExpire(c)
  \/ ReapTimer(c) \/ ReapWrite(c)

ClientStep(c) ==
  \/ \E t \in Tickets : UpgradeRead(c, t)
  \/ PeerClose(c) \/ DetachFrame(c) \/ CloseFrame(c)

Mint(t) == MintRead(t) \/ MintWrite(t) \/ MintExpire(t)

Maintenance ==
  \/ ShellEnds \/ CloseCommand \/ Sweep \/ MarkStale \/ Restart \/ Tick
  \/ \E k \in {"close", "sweep", "expire"} : Kill(k)

Next ==
  \/ \E c \in Conns : ServerStep(c) \/ ClientStep(c)
  \/ \E t \in Tickets : Mint(t)
  \/ Maintenance

Spec == Init /\ [][Next]_vars

\* Event handlers, promise continuations and queries complete; ws closes a
\* socket whose peer is silent (closeTimeout); nothing is owed by clients, the
\* clock, the remote shell or the sweep.
Fairness ==
  /\ \A c \in Conns : WF_vars(ServerStep(c))
  /\ WF_vars(MarkStale)

FairSpec == Spec /\ Fairness

-----------------------------------------------------------------------------
(* Types                                                                   *)

TicketRecord == [st : {"none", "read", "expire", "fresh", "used", "void"},
                 at : Nat, extend : BOOLEAN]
ConnPcs == {"idle", "rejected", "expire", "consume", "resolve", "upgrade", "refusing", "refused",
            "mark", "markWrite", "markExpire", "recorded", "gone"}
ConnRecord == [pc : ConnPcs, ticket : Tickets \cup {NoTicket},
               seen : Open \cup {"none"}, at : Nat]
Reasons == {"none", "peer", "reattached"} \cup Final
AfterPcs == {"none", "wait", "write", "detach", "detachWrite", "detachExpire", "done"}
ReaperRecord == [st : {"none", "wait", "flush", "done"}, kind : Final \cup {"none"}, on : Peer]

\* Every variable has its type; an attachment belongs to a session in the map.
TypeOK ==
  /\ clock \in Nat /\ boots \in Nat /\ staleDue \in BOOLEAN
  /\ row \in [status : Statuses, exp : Stamp]
  /\ ticket \in [Tickets -> TicketRecord]
  /\ conn \in [Conns -> ConnRecord]
  /\ wire \in [Conns -> {"none", "open", "closing", "closed"}]
  /\ bye \in [Conns -> Reasons]
  /\ parked \subseteq Conns
  /\ shell \in [by : Peer, att : Peer]
  /\ shell.att # NoConn => HasShell
  /\ after \in [Conns -> AfterPcs]
  /\ reaper \in [Conns -> ReaperRecord]
  /\ attachMap \in Peer /\ closeMap \in Peer
  /\ kill \subseteq {"close", "sweep", "expire"}
  /\ unheard \in BOOLEAN

-----------------------------------------------------------------------------
(* Safety                                                                  *)

\* One websocket serves the session: whatever sequence of takeovers, detach
\* frames, shell exits and lost sockets, an open websocket is the attachment
\* of the session in the manager's map, unless it asked to be detached, and an
\* attachment is never a socket whose close event has been delivered.
SocketsAreServed ==
  \A c \in Conns :
    /\ wire[c] = "open" => shell.att = c \/ c \in parked
    /\ shell.att = c => wire[c] \in {"open", "closing"}

\* The upgrade has got past the single-use check of its ticket
Admitted(c) ==
  /\ conn[c].pc \notin {"idle", "consume", "rejected"}
  /\ ~(conn[c].pc = "expire" /\ conn[c].seen = "none")

\* A ticket admits one websocket, even when two upgrades read it before either
\* consumed it, and even across a restart.
AdmittedOnce ==
  \A c, d \in Conns :
    c # d /\ Admitted(c) /\ Admitted(d) => conn[c].ticket # conn[d].ticket

\* A row that is ended or failed keeps that status, whichever of the delayed
\* writers (attach, detach, end, fail, sweep, stale marking) comes last.  It is
\* what FollowsLifecycle says of a final status.
FinalStatusSticks == [][row.status \in Final => row'.status = row.status]_vars

\* Once the stale marking of a restart has run, no task of the new process
\* revives the row, not even an upgrade admitted before the marking.
NoRevivalAfterRestart == boots > 0 /\ ~staleDue => row.status \notin Open

\* A live row nobody is attached to has an expiry, so the sweep can end it,
\* although expiresAt is also written without regard to the status.
UnattachedRowsExpire == row.status \in {"starting", "detached"} => row.exp # NoTime

\* Nothing the server has begun is still under way
Settled ==
  /\ \A c \in Conns :
       /\ conn[c].pc \in {"idle", "rejected", "gone", "recorded", "refused"}
       /\ wire[c] # "closing"
       /\ after[c] \in {"none", "done"}
       /\ reaper[c].st \in {"none", "done"}
  /\ kill = {} /\ ~staleDue

\* The row of a session whose shell is gone does not stay open: when all is
\* settled and each socket told why it closed, a session that a websocket was
\* handed to and that the manager no longer has is not starting, attached or
\* detached.  Attach, detach and close writes race each other to the row.
SettledRowTellsEnd ==
  Settled /\ ~HasShell /\ ~unheard /\ (\E c \in Conns : Recorded(c)) => row.status \notin Open

\* The row lives one of the histories SessionLifecycle allows: starting, then
\* attached and detached in turn, then one final status or stale, which can
\* only be closed; whoever starts or detaches leaves it an expiry.
Lifecycle == INSTANCE SessionLifecycle WITH status <- row.status, timed <- row.exp # NoTime
FollowsLifecycle == Lifecycle!LifeSpec

-----------------------------------------------------------------------------
(* Liveness, under FairSpec                                                *)

\* The promises of upgrade.ts never wait for each other in a circle: the close
\* of every websocket is dealt with (a restart forgets it) ...
SocketClosesSettle ==
  \A c \in Conns :
    wire[c] = "closing" ~> wire[c] = "closed" /\ after[c] \in {"none", "done"}

\* ... and a session that ended with nobody attached gets its row closed.
EndsReachTheRow == \A c \in Conns : reaper[c].st = "wait" ~> row.status \notin Open

-----------------------------------------------------------------------------
(* What the proofs add to make the invariants inductive                    *)

\* An upgrade that may still be handed to the manager has no socket yet
UpgradesStartClosed ==
  \A c \in Conns :
    conn[c].pc \in {"idle", "consume", "resolve", "upgrade"} => wire[c] = "none"

\* Closing sockets know why, close events are handled only of closed sockets,
\* and what is written as an end is one of the two ends
EndsAreKnown ==
  \A c \in Conns :
    /\ wire[c] = "closing" => bye[c] # "none"
    /\ after[c] # "none" => wire[c] = "closed" /\ bye[c] # "none"
    /\ after[c] = "write" => bye[c] \in Final
    /\ reaper[c].st \in {"wait", "flush"} => reaper[c].kind \in Final

\* Whoever got past the single-use check holds a ticket that is used up
AdmissionsAreSpent ==
  \A c \in Conns :
    /\ conn[c].pc # "idle" => conn[c].ticket \in Tickets
    /\ Admitted(c) => ticket[conn[c].ticket].st = "used"

\* An upgrade the manager has answered
Handed(c) == conn[c].pc \in {"mark", "markWrite", "markExpire", "recorded", "refusing", "refused"}

\* Somebody is about to write the end of the session to its row: the close
\* listener of the manager, the websocket c that was told of the end, or the
\* upgrade c that was refused
OwesEnd(c) ==
  \/ reaper[c].st \in {"wait", "flush"}
  \/ bye[c] \in Final /\ (wire[c] = "closing" \/ after[c] \in {"wait", "write"})
  \/ conn[c].pc = "refusing"

\* The end of a session whose shell is gone and whose row is open is owed; a
\* refused upgrade has closed the row.
EndIsOwed ==
  /\ ~HasShell /\ ~unheard /\ ~staleDue /\ row.status \in Open /\ (\E c \in Conns : Handed(c))
        => \E c \in Conns : OwesEnd(c)
  /\ \A c \in Conns : conn[c].pc = "refused" => row.status \notin Open

IInv == TypeOK /\ UpgradesStartClosed /\ EndsAreKnown

\* A step of ServerStep(c) is possible: a query to send or a close event to
\* handle, or a promise that somebody awaits and that is resolved
CanProceed(c) ==
  \/ conn[c].pc \in {"expire", "consume", "resolve", "refusing", "mark", "markWrite", "markExpire"}
  \/ conn[c].pc = "upgrade" /\ (HasShell \/ conn[c].seen # "none")
  \/ wire[c] = "closing"
  \/ after[c] \in {"write", "detach", "detachWrite", "detachExpire"}
  \/ after[c] = "wait" /\ Recorded(c)
  \/ reaper[c].st = "wait" /\ (reaper[c].on # NoConn => Recorded(reaper[c].on))
  \/ reaper[c].st = "flush" /\ (reaper[c].on # NoConn => after[reaper[c].on] = "done")

\* The two promise maps of upgrade.ts and the listeners that wait for what they
\* hold never form a circle, and no promise is left that nobody will resolve:
\* as long as anything the server has begun is under way, some part of it can go
\* on.  It is what SocketClosesSettle and EndsReachTheRow rest on.
NeverStuck == Settled \/ kill # {} \/ staleDue \/ \E c \in Conns : CanProceed(c)

\* What is awaited belongs to an upgrade that the manager has answered, or to a
\* websocket whose close is being dealt with
WaitsAreFounded ==
  /\ attachMap # NoConn => Handed(attachMap)
  /\ closeMap # NoConn => after[closeMap] # "none"
  /\ \A c \in Conns :
       /\ wire[c] \in {"open", "closing"} \/ after[c] # "none" => Handed(c)
       /\ conn[c].pc = "upgrade" => conn[c].seen # "none"
       /\ reaper[c].st = "wait" /\ reaper[c].on # NoConn => Handed(reaper[c].on)
       /\ reaper[c].st = "flush" /\ reaper[c].on # NoConn => after[reaper[c].on] # "none"

\* A session that is over stays over: what LiveSshCreate assumes of the rows it
\* counts, and WorkspaceSessions of the sessions it lists
OverForGood == [][row.status \notin Open => row'.status \notin Open]_vars

-----------------------------------------------------------------------------
(* What the documents say and the code does not do                         *)

\* spec.md: explicit close terminates the SSH shell; so a settled session
\* whose row is ended or failed has no shell.
FinalRowHasNoShell == Settled /\ row.status \in Final => ~HasShell

\* spec.md: the idle timeout ends detached sessions; so the sweep does not end
\* a session whose websocket is open and whose attachment has been recorded.
SweepSparesAttached ==
  [][Sweep => ~(HasActiveAttachment /\ conn[shell.att].pc = "recorded")]_vars
=============================================================================
