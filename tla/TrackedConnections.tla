------------------------- MODULE TrackedConnections -------------------------
(***************************************************************************)
(* What an upgrade does with the ticket it was given: it inserts a row of  *)
(* connection_sessions, completes the handshake, hands the websocket to    *)
(* the adapter of the protocol and records the end of the connection.      *)
(*                                                                         *)
(* The updates of one row go through a queue made of promises, each of     *)
(* which may be rejected and is then forgotten.  The SSH adapter has a     *)
(* client only once it is connected; the adapters of Telnet and VNC have a *)
(* socket from the beginning.  An SSH host may be reached through another, *)
(* by a client of its own that nobody but connectTrustedSsh knows.         *)
(***************************************************************************)
EXTENDS SessionTickets, Sequences

CONSTANT Tcp   \* the targets of a protocol without a connection phase

ASSUME TcpAssumption == Tcp \subseteq Targets

VARIABLES
  row,      \* status of the row of each upgrade
  sock,     \* the client's socket, later the websocket
  target,   \* the adapter's connection to the host
  jump,     \* the client of the jump host the target is reached through
  queue,    \* lifecycleQueue: the updates still to be made
  end,      \* finalized, and with which status
  early,    \* websockets closed before their adapter was connected (history)
  missed    \* upgrades the update of whose end was rejected (history)

connVars == <<row, sock, target, jump, queue, end, early, missed>>
vars     == <<ticketVars, connVars>>

-----------------------------------------------------------------------------
Settled    == {"ended", "failed"}
Alive      == {"connecting", "open"}
Tracked(c) == row[c] # "none"
IsTcp(c)   == snap[shown[c]].host \in Tcp

ConnInit ==
  /\ row = [c \in Opens |-> "none"]
  /\ sock = [c \in Opens |-> "waiting"]
  /\ target = [c \in Opens |-> "none"]
  /\ jump = [c \in Opens |-> "none"]
  /\ queue = [c \in Opens |-> <<>>]
  /\ end = [c \in Opens |-> "none"]
  /\ early = {} /\ missed = {}

\* Only pc[c] changes among the variables of SessionTickets
Goto(c, from, to) ==
  /\ pc[c] = from /\ pc' = [pc EXCEPT ![c] = to]
  /\ UNCHANGED <<rowVars, mintVars, ticket, shown, barred, got, matched, boots>>

-----------------------------------------------------------------------------
(* The upgrade                                                             *)

\* connectionSessions.start: when the INSERT fails the connection goes on
\* without a row
StartRow(c) ==
  /\ Goto(c, "start", "switch")
  /\ \/ host # Gone /\ row' = [row EXCEPT ![c] = "starting"]
     \/ UNCHANGED row
  /\ UNCHANGED <<sock, target, jump, queue, end, early, missed>>

\* The client gives up before the handshake
ClientLeaves(c) ==
  /\ pc[c] \in Consuming \cup {"start", "switch"} /\ sock[c] = "waiting"
  /\ sock' = [sock EXCEPT ![c] = "gone"]
  /\ UNCHANGED <<ticketVars, row, target, jump, queue, end, early, missed>>

\* handleUpgrade destroys the socket of a client that has left and calls
\* nobody; else handleTrackedConnection queues markActive and starts the
\* adapter, which connects to the jump host of an SSH host first, if it has one
Switch(c) ==
  \/ /\ sock[c] = "gone"
     /\ Goto(c, "switch", "turned")
     /\ UNCHANGED connVars
  \/ /\ sock[c] = "waiting"
     /\ Goto(c, "switch", "open")
     /\ sock' = [sock EXCEPT ![c] = "open"]
     /\ queue' = [queue EXCEPT ![c] = IF Tracked(c) THEN <<"active">> ELSE <<>>]
     /\ target' = [target EXCEPT ![c] = "connecting"]
     /\ \E first \in IF IsTcp(c) THEN {"none"} ELSE {"none", "connecting"} :
          jump' = [jump EXCEPT ![c] = first]
     /\ UNCHANGED <<row, end, early, missed>>

-----------------------------------------------------------------------------
(* The queue                                                               *)

\* Mutant of Finalize: every event of the websocket is recorded
FinalizeAgain(c, status) ==
  /\ end' = [end EXCEPT ![c] = IF @ = "none" THEN status ELSE @]
  /\ queue' = [queue EXCEPT ![c] = IF Tracked(c) THEN Append(@, status) ELSE @]

\* finalize: the first end is the one that is recorded
Finalize(c, status) ==
  IF Tracked(c) /\ end[c] = "none"
  THEN /\ end' = [end EXCEPT ![c] = status]
       /\ queue' = [queue EXCEPT ![c] = Append(@, status)]
  ELSE UNCHANGED <<end, queue>>

\* Mutant of Record: the updates are sent at once and arrive in any order
RecordAny(c) ==
  /\ queue[c] # <<>>
  /\ \E i \in 1 .. Len(queue[c]) :
       /\ queue' = [queue EXCEPT ![c] =
            [j \in 1 .. Len(@) - 1 |-> IF j < i THEN @[j] ELSE @[j + 1]]]
       /\ row' = [row EXCEPT ![c] = queue[c][i]]
       /\ UNCHANGED missed
  /\ UNCHANGED <<ticketVars, sock, target, jump, end, early>>

\* markActive, end or fail, by id; a rejected one is swallowed
Record(c) ==
  /\ queue[c] # <<>>
  /\ queue' = [queue EXCEPT ![c] = Tail(@)]
  /\ \/ row' = [row EXCEPT ![c] = Head(queue[c])] /\ UNCHANGED missed
     \/ /\ missed' = missed \cup {d \in {c} : Head(queue[c]) \in Settled}
        /\ UNCHANGED row
  /\ UNCHANGED <<ticketVars, sock, target, jump, end, early>>

-----------------------------------------------------------------------------
(* The websocket and the adapter                                           *)

\* Mutant of Over: the client of the jump host is left to itself
OverTarget(c) == target' = [target EXCEPT ![c] = "over"] /\ UNCHANGED jump

\* The connection to the host is over: connectTrustedSsh ends the jump host's
\* client, in its catch when the host was not reached, else in the listeners it
\* has left with the client of the host
Over(c) == /\ target' = [target EXCEPT ![c] = "over"]
           /\ jump' = [jump EXCEPT ![c] = IF @ = "none" THEN @ ELSE "over"]

\* Mutant of Release: the SSH adapter's, without the listener
ReleaseTcp(c) ==
  /\ IF IsTcp(c) THEN Over(c) ELSE UNCHANGED <<target, jump>>
  /\ early' = early \cup {d \in {c} : target[c] = "connecting"}

\* The listeners of the adapters: proxyTcpBytes destroys its socket; the SSH
\* adapter ends the client if it has one yet
Release(c) ==
  /\ IF target[c] = "open" \/ IsTcp(c) THEN Over(c) ELSE UNCHANGED <<target, jump>>
  /\ early' = early \cup {d \in {c} : target[c] = "connecting"}

\* The websocket closes: with the code the server has sent, or with one of the
\* client's or of the network
Close(c, status) ==
  /\ \/ sock[c] = "open"
     \/ sock[c] = "closing_ended"
     \/ sock[c] = "closing_failed" /\ status = "failed"
  /\ sock' = [sock EXCEPT ![c] = "closed"]
  /\ Finalize(c, status)
  /\ Release(c)
  /\ UNCHANGED <<ticketVars, row, missed>>

\* socket.close of the server, if the websocket is still open
Hangup(c, status) ==
  sock' = [sock EXCEPT ![c] = IF @ # "open" THEN @
                              ELSE IF status = "ended" THEN "closing_ended" ELSE "closing_failed"]

\* The SSH client is ready and assigned, the shell requested; or the TCP socket
\* is connected
Connected(c) ==
  /\ target[c] = "connecting" /\ jump[c] \in {"none", "open"}
  /\ target' = [target EXCEPT ![c] = "open"]
  /\ UNCHANGED <<ticketVars, row, sock, jump, queue, end, early, missed>>

\* The client of the jump host is ready, the channel to the host asked of it
JumpReady(c) ==
  /\ jump[c] = "connecting"
  /\ jump' = [jump EXCEPT ![c] = "open"]
  /\ UNCHANGED <<ticketVars, row, sock, target, queue, end, early, missed>>

\* The jump host hangs up; the channel, and the host's client, notice later.
\* An error of that client has no listener then and takes the process down:
\* Restart.
JumpEnds(c) ==
  /\ jump[c] = "open"
  /\ jump' = [jump EXCEPT ![c] = "over"]
  /\ UNCHANGED <<ticketVars, row, sock, target, queue, end, early, missed>>

\* The jump host or the host is not found, refuses its key or the login, or
\* breaks
TargetFails(c) ==
  /\ target[c] \in Alive
  /\ Over(c)
  /\ Hangup(c, "failed")
  /\ UNCHANGED <<ticketVars, row, queue, end, early, missed>>

\* The far side ends the connection
TargetEnds(c) ==
  /\ target[c] = "open"
  /\ Over(c)
  /\ Hangup(c, "ended")
  /\ UNCHANGED <<ticketVars, row, queue, end, early, missed>>

\* The shell is closed; the SSH client stays until the websocket closes
ShellEnds(c) ==
  /\ target[c] = "open" /\ ~IsTcp(c) /\ sock[c] = "open"
  /\ Hangup(c, "ended")
  /\ UNCHANGED <<ticketVars, row, target, jump, queue, end, early, missed>>

\* adapter.handle is rejected: the client broke before the shell was requested,
\* or the socket could not be made
AdapterFails(c) ==
  /\ target[c] = "connecting" /\ jump[c] # "connecting"
  /\ Over(c)
  /\ Finalize(c, "failed")
  /\ Hangup(c, "failed")
  /\ UNCHANGED <<ticketVars, row, early, missed>>

\* The process dies: the rows stay as they are, nobody marks them
Restart ==
  /\ boots < MaxBoots
  /\ boots' = boots + 1
  /\ mint' = [t \in Tickets |->
       IF mint[t] \in {"credential", "insert"} THEN "refused" ELSE mint[t]]
  /\ pc' = [c \in Opens |->
       IF pc[c] \in Consuming THEN "lost"
       ELSE IF pc[c] \in {"start", "switch", "open"} THEN "cut" ELSE pc[c]]
  /\ sock' = [c \in Opens |-> IF pc[c] = "idle" THEN sock[c] ELSE "closed"]
  /\ target' = [c \in Opens |-> IF target[c] = "none" THEN "none" ELSE "over"]
  /\ jump' = [c \in Opens |-> IF jump[c] = "none" THEN "none" ELSE "over"]
  /\ queue' = [c \in Opens |-> <<>>]
  /\ UNCHANGED <<rowVars, snap, ticket, shown, barred, got, matched, row, end, early, missed>>

ConnStep(c) ==
  \/ StartRow(c) \/ ClientLeaves(c) \/ Switch(c) \/ Record(c)
  \/ \E status \in Settled : Close(c, status)
  \/ JumpReady(c) \/ JumpEnds(c) \/ Connected(c)
  \/ TargetFails(c) \/ TargetEnds(c) \/ ShellEnds(c) \/ AdapterFails(c)

Init == TicketInit /\ ConnInit

Next == \/ TicketStep /\ UNCHANGED connVars
        \/ \E c \in Opens : ConnStep(c)
        \/ Restart

Spec == Init /\ [][Next]_vars

-----------------------------------------------------------------------------
(* Properties                                                              *)

TypeOK ==
  /\ TicketTypeOK
  /\ row \in [Opens -> {"none", "starting", "active"} \cup Settled]
  /\ sock \in [Opens -> {"waiting", "gone", "open", "closing_ended", "closing_failed", "closed"}]
  /\ target \in [Opens -> {"none", "over"} \cup Alive]
  /\ jump \in [Opens -> {"none", "over"} \cup Alive]
  /\ queue \in [Opens -> Seq({"active"} \cup Settled)]
  /\ \A c \in Opens : Len(queue[c]) <= 2
  /\ end \in [Opens -> {"none"} \cup Settled]
  /\ early \subseteq Opens /\ missed \subseteq Opens

\* The history tells how a connection ended: once its websocket is closed and
\* its updates are made, the row has the status of whatever ended it first,
\* also if markActive was rejected, unless the update of the end itself was
RowTellsFirstEnd ==
  \A c \in Opens :
    pc[c] = "open" /\ sock[c] = "closed" /\ Tracked(c) /\ queue[c] = <<>> /\ c \notin missed
      => row[c] = end[c]

\* Whatever events race, the row of a connection starts, is active at most once
\* and settles for good
Lifecycle == INSTANCE ConnectionLifecycle WITH Conns <- Opens, status <- row
RowsFollowLifecycle == Lifecycle!Spec

\* spec.md:359, 548 and 564: the connection to the host is closed with the
\* websocket.  The code keeps that promise but for an SSH client that became
\* ready after its websocket had closed.  The client of a jump host, which the
\* adapter does not know, never outlives that of the host.
OnlyEarlyCloseOrphans ==
  \A c \in Opens :
    /\ sock[c] = "closed" /\ target[c] \in Alive => c \in early /\ ~IsTcp(c)
    /\ jump[c] \in Alive => target[c] \in Alive
=============================================================================
