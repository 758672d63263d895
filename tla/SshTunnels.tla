------------------------------ MODULE SshTunnels ------------------------------
(***************************************************************************)
(* The SSH tunnels of the members of one workspace (or of one user who     *)
(* shares nothing): services/ssh-tunnels.ts and the requests proxied       *)
(* through them (ws/upgrade.ts, protocols/ssh-tunnel.ts).                  *)
(*                                                                         *)
(* A tunnel is a row.  No timer watches it: it grows idle and then ends    *)
(* when somebody lists or inspects it late enough, which every operation   *)
(* does first.  Every member sees, ages and counts the tunnels of all, but *)
(* starts of one user only are serialised, by the promise queue of         *)
(* withUserStartLock (the code of LiveSshCreate once more, here a lock);   *)
(* all other operations read a row, wait, and write it without a guard.    *)
(* The connection rows written beside (connection_sessions) are left out.  *)
(***************************************************************************)
EXTENDS Integers, FiniteSets

CONSTANTS
  Tunnels,     \* the start requests; each inserts at most one tunnel, its own
  Users,       \* the members of the workspace
  Owner,       \* who makes each start request
  Lists,       \* callers of listSessions and inspectSession
  Proxies,     \* the websockets and HTTP requests to be proxied
  NoTunnel,    \* no tunnel
  MaxOpen,     \* maxOpenSessionsPerUser
  IdleAfter,   \* idleAfterMs, in ticks
  MaxTime      \* bound on the clock

ASSUME TunnelsAssumption ==
  IsFiniteSet(Tunnels) /\ NoTunnel \notin Tunnels /\ Owner \in [Tunnels -> Users]
ASSUME TasksAssumption ==
  Tunnels \cap Lists = {} /\ Tunnels \cap Proxies = {} /\ Lists \cap Proxies = {}
ASSUME BoundsAssumption == MaxOpen \in Nat /\ IdleAfter \in Nat \ {0} /\ MaxTime \in Nat

Tasks == Tunnels \cup Lists \cup Proxies

VARIABLES
  clock,     \* Date.now(), in ticks
  row,       \* ssh_tunnel_sessions: status, lastSeenAt, startedAt
  lock,      \* per user, the request past the await of withUserStartLock
  pc,        \* progress of each task
  at,        \* the now each task compares and writes, 0 when it is done with it
  toIdle,    \* tunnels each task found active for too long and will mark idle
  toEnd,     \* tunnels each task found idle for too long and will end
  found,     \* tunnels each start request counts as open
  on,        \* the tunnel each proxied request goes through
  closed,    \* when each tunnel was last ended or failed (history)
  revived    \* tunnels that were opened again after their end (history)

rowVars  == <<row, closed, revived>>
taskVars == <<pc, at, toIdle, toEnd, found, on>>
vars     == <<clock, rowVars, lock, taskVars>>

-----------------------------------------------------------------------------
Open  == {"active", "idle"}          \* isOpenTunnelStatus
Final == {"ended", "failed"}

OpenTunnels == {x \in Tunnels : row[x].status \in Open}

Starting == {"list", "age", "insert"}

Goto(k, step) == pc' = [pc EXCEPT ![k] = step]

\* updateSshTunnelSession: an UPDATE by id, whatever the row has become
\* (lastSeenAt becomes lastUsedAt or else updatedAt, so every write sets it)
UpdateRow(x, status, used) ==
  /\ row' = [row EXCEPT ![x].status = status, ![x].used = used]
  /\ closed' = IF status \in Final THEN [closed EXCEPT ![x] = clock] ELSE closed
  /\ revived' = IF status \in Open /\ row[x].status \in Final
                THEN revived \cup {x} ELSE revived

Init ==
  /\ clock = 0
  /\ row = [x \in Tunnels |-> [status |-> "none", used |-> 0, born |-> 0]]
  /\ lock = [u \in Users |-> NoTunnel]
  /\ pc = [k \in Tasks |-> "ready"]
  /\ at = [k \in Tasks |-> 0]
  /\ toIdle = [k \in Tasks |-> {}] /\ toEnd = [k \in Tasks |-> {}]
  /\ found = [x \in Tunnels |-> {}]
  /\ on = [p \in Proxies |-> NoTunnel]
  /\ closed = [x \in Tunnels |-> 0] /\ revived = {}

-----------------------------------------------------------------------------
(* Growing idle: refreshIdleState, of one row or of all the rows listed    *)

\* Unused for idleAfterMs, as seen by a task whose now is t
Aged(t, x, status) == row[x].status = status /\ t - row[x].used >= IdleAfter

\* The SELECT of task k and what it will do about the rows it read
Inspect(k, rows, t) ==
  /\ toIdle' = [toIdle EXCEPT ![k] = {x \in rows : Aged(t, x, "active")}]
  /\ toEnd'  = [toEnd EXCEPT ![k] = {x \in rows : Aged(t, x, "idle")}]

Inspected(k) == toIdle[k] = {} /\ toEnd[k] = {}

\* Mutant of MarkIdle: lastUsedAt is left as it was
MarkIdleKeepingUse(k, x) ==
  /\ x \in toIdle[k]
  /\ toIdle' = [toIdle EXCEPT ![k] = @ \ {x}]
  /\ UpdateRow(x, "idle", row[x].used)
  /\ UNCHANGED <<clock, lock, pc, at, toEnd, found, on>>

\* The UPDATE of a row read as active
MarkIdle(k, x) ==
  /\ x \in toIdle[k]
  /\ toIdle' = [toIdle EXCEPT ![k] = @ \ {x}]
  /\ UpdateRow(x, "idle", at[k])
  /\ UNCHANGED <<clock, lock, pc, at, toEnd, found, on>>

\* The UPDATE of a row read as idle; a proxied request is then turned away
Expire(k, x) ==
  /\ x \in toEnd[k]
  /\ toEnd' = [toEnd EXCEPT ![k] = @ \ {x}]
  /\ UpdateRow(x, "ended", at[k])
  /\ IF k \in Proxies THEN Goto(k, "refused") ELSE UNCHANGED pc
  /\ UNCHANGED <<clock, lock, at, toIdle, found, on>>

\* listSessions reads all rows, inspectSession one
List(l) ==
  /\ pc[l] = "ready"
  /\ Goto(l, "listed")
  /\ at' = [at EXCEPT ![l] = clock]
  /\ \E rows \in {Tunnels} \cup {{x} : x \in Tunnels} : Inspect(l, rows, clock)
  /\ UNCHANGED <<clock, rowVars, lock, found, on>>

-----------------------------------------------------------------------------
(* startSession and the remote function around it                          *)

Unlock(s) == lock' = [lock EXCEPT ![Owner[s]] = NoTunnel]

\* It is this request's turn in withUserStartLock; resolveStartInput and
\* validateHostAccess follow, whose refusals are a Reject
Acquire(s) ==
  /\ pc[s] = "ready" /\ lock[Owner[s]] = NoTunnel
  /\ lock' = [lock EXCEPT ![Owner[s]] = s]
  /\ Goto(s, "list")
  /\ at' = [at EXCEPT ![s] = clock]
  /\ UNCHANGED <<clock, rowVars, toIdle, toEnd, found, on>>

\* Invalid input, the limit reached, or a rejected query of whichever step; the
\* updates that Promise.all has begun go on
Reject(s) ==
  /\ pc[s] \in Starting
  /\ Unlock(s)
  /\ Goto(s, "refused")
  /\ found' = [found EXCEPT ![s] = {}]
  /\ UNCHANGED <<clock, rowVars, at, toIdle, toEnd, on>>

\* listSessions, of all the members: what it marks idle still counts as open,
\* what it ends does not
StartList(s) ==
  /\ pc[s] = "list"
  /\ Goto(s, "age")
  /\ Inspect(s, Tunnels, at[s])
  /\ found' = [found EXCEPT ![s] = {x \in OpenTunnels : ~Aged(at[s], x, "idle")}]
  /\ UNCHANGED <<clock, rowVars, lock, at, on>>

\* Mutant of Count: off by one
CountLate(s) ==
  /\ pc[s] = "age" /\ Inspected(s)
  /\ Cardinality(found[s]) <= MaxOpen
  /\ Goto(s, "insert")
  /\ UNCHANGED <<clock, rowVars, lock, at, toIdle, toEnd, found, on>>

\* Below the limit; at the limit the request is rejected
Count(s) ==
  /\ pc[s] = "age" /\ Inspected(s)
  /\ Cardinality(found[s]) < MaxOpen
  /\ Goto(s, "insert")
  /\ UNCHANGED <<clock, rowVars, lock, at, toIdle, toEnd, found, on>>

\* Mutant of Insert: the lock is kept
InsertHolding(s) ==
  /\ pc[s] = "insert"
  /\ Goto(s, "record")
  /\ row' = [row EXCEPT ![s] = [status |-> "active", used |-> at[s], born |-> at[s]]]
  /\ found' = [found EXCEPT ![s] = {}]
  /\ at' = [at EXCEPT ![s] = 0]
  /\ UNCHANGED <<clock, lock, closed, revived, toIdle, toEnd, on>>

\* createSshTunnelSession; the finally block of withUserStartLock
Insert(s) ==
  /\ pc[s] = "insert"
  /\ Goto(s, "record")
  /\ row' = [row EXCEPT ![s] = [status |-> "active", used |-> at[s], born |-> at[s]]]
  /\ Unlock(s)
  /\ found' = [found EXCEPT ![s] = {}]
  /\ at' = [at EXCEPT ![s] = 0]
  /\ UNCHANGED <<clock, closed, revived, toIdle, toEnd, on>>

\* startSshTunnelSession records the connection, or fails the tunnel
Record(s) ==
  /\ pc[s] = "record"
  /\ Goto(s, "done")
  /\ UpdateRow(s, "failed", clock) \/ UNCHANGED rowVars
  /\ UNCHANGED <<clock, lock, at, toIdle, toEnd, found, on>>

-----------------------------------------------------------------------------
(* A proxied request                                                       *)

\* Mutant of TouchRead: a failed tunnel is touched
TouchReadFailed(p, x) ==
  /\ pc[p] = "ready" /\ row[x].status # "none"
  /\ at' = [at EXCEPT ![p] = clock] /\ on' = [on EXCEPT ![p] = x]
  /\ Goto(p, IF row[x].status = "ended" THEN "refused" ELSE "touch")
  /\ Inspect(p, {x}, clock)
  /\ UNCHANGED <<clock, rowVars, lock, found>>

\* touchSessionForProxy: inspectSession and its check of the status
TouchRead(p, x) ==
  /\ pc[p] = "ready" /\ row[x].status # "none"
  /\ at' = [at EXCEPT ![p] = clock] /\ on' = [on EXCEPT ![p] = x]
  /\ Goto(p, IF row[x].status \in Final THEN "refused" ELSE "touch")
  /\ Inspect(p, {x}, clock)
  /\ UNCHANGED <<clock, rowVars, lock, found>>

\* ... and its UPDATE
TouchWrite(p) ==
  /\ pc[p] = "touch" /\ Inspected(p)
  /\ Goto(p, "target")
  /\ UpdateRow(on[p], "active", at[p])
  /\ at' = [at EXCEPT ![p] = 0]
  /\ UNCHANGED <<clock, lock, toIdle, toEnd, found, on>>

\* resolveSshTunnelConnectTarget, then the websocket handshake
Target(p) ==
  /\ pc[p] = "target"
  /\ Goto(p, "connect") \/ Goto(p, "fail")
  /\ UNCHANGED <<clock, rowVars, lock, at, toIdle, toEnd, found, on>>

\* connectSsh and forwardOut; the connection lives while pc is open
Connect(p) ==
  /\ pc[p] = "connect"
  /\ Goto(p, "open") \/ Goto(p, "fail")
  /\ UNCHANGED <<clock, rowVars, lock, at, toIdle, toEnd, found, on>>

\* failSession
FailWrite(p) ==
  /\ pc[p] = "fail"
  /\ Goto(p, "failed")
  /\ UpdateRow(on[p], "failed", clock)
  /\ UNCHANGED <<clock, lock, at, toIdle, toEnd, found, on>>

\* Either side closes and cleanup ends the connection; a proxied HTTP request
\* got its answer, or failed to.  A websocket that is closed while Connect is
\* under way goes unnoticed: its listeners come later.
Hangup(p) ==
  /\ pc[p] = "open"
  /\ Goto(p, "closed") \/ Goto(p, "fail")
  /\ UNCHANGED <<clock, rowVars, lock, at, toIdle, toEnd, found, on>>

-----------------------------------------------------------------------------
\* terminateSession and terminateAdminSshTunnelSession: the row, not the connections
Terminate(x) ==
  /\ row[x].status # "none"
  /\ UpdateRow(x, "ended", clock)
  /\ UNCHANGED <<clock, lock, taskVars>>

Tick ==
  /\ clock < MaxTime
  /\ clock' = clock + 1
  /\ UNCHANGED <<rowVars, lock, taskVars>>

Start(s) ==
  Acquire(s) \/ Reject(s) \/ StartList(s) \/ Count(s) \/ Insert(s) \/ Record(s)

Proxy(p) ==
  \/ \E x \in Tunnels : TouchRead(p, x)
  \/ TouchWrite(p) \/ Target(p) \/ Connect(p) \/ FailWrite(p) \/ Hangup(p)

Next ==
  \/ \E s \in Tunnels : Start(s) \/ Terminate(s)
  \/ \E p \in Proxies : Proxy(p)
  \/ \E l \in Lists : List(l)
  \/ \E k \in Tasks, x \in Tunnels : MarkIdle(k, x) \/ Expire(k, x)
  \/ Tick

Spec == Init /\ [][Next]_vars

-----------------------------------------------------------------------------
Pcs == Starting \cup {"ready", "listed", "refused", "record", "done",
                      "touch", "target", "connect", "open", "fail", "failed", "closed"}

\* Whoever holds a lock is at work on a tunnel of that user
Holders ==
  \A u \in Users : lock[u] # NoTunnel => Owner[lock[u]] = u /\ pc[lock[u]] \in Starting

\* Every variable has its type; a lock is held by a request of its user that is
\* at work.
TypeOK ==
  /\ clock \in Nat
  /\ row \in [Tunnels -> [status : Open \cup Final \cup {"none"}, used : Nat, born : Nat]]
  /\ lock \in [Users -> Tunnels \cup {NoTunnel}]
  /\ Holders
  /\ pc \in [Tasks -> Pcs] /\ at \in [Tasks -> Nat]
  /\ toIdle \in [Tasks -> SUBSET Tunnels] /\ toEnd \in [Tasks -> SUBSET Tunnels]
  /\ found \in [Tunnels -> SUBSET Tunnels]
  /\ on \in [Proxies -> Tunnels \cup {NoTunnel}]
  /\ closed \in [Tunnels -> Nat] /\ revived \subseteq Tunnels

OpenOf(u) == {x \in OpenTunnels : Owner[x] = u}

\* Not counting tunnels that a late write opened again after their end, a user
\* has no more open tunnels than allowed, whoever touches, lists, ages and
\* terminates them, or starts others, between the count and the insert.
LimitHolds == \A u \in Users : Cardinality(OpenOf(u) \ revived) <= MaxOpen

\* A tunnel is ended for idleness no earlier than two idle periods after its
\* start: growing idle is recorded as a use, though the two observations may be
\* made, and written late, by different tasks.
IdleEndsLate ==
  \A k \in Tasks : \A x \in toEnd[k] : at[k] >= row[x].born + 2 * IdleAfter

\* Task k is about to write an open status to tunnel x
WouldOpen(k, x) ==
  \/ x \in toIdle[k]
  \/ k \in Proxies /\ pc[k] = "touch" /\ on[k] = x /\ x \notin toEnd[k]

\* Only a task that was already under way when a tunnel ended or failed can
\* open it again; one that begins later is turned away.
OnlyRacesRevive ==
  \A k \in Tasks, x \in Tunnels :
    WouldOpen(k, x) /\ row[x].status \in Final => at[k] <= closed[x]

-----------------------------------------------------------------------------
(* What the proofs add to make the invariants inductive                    *)

\* Who starts a tunnel holds the lock, has no row yet, and has nothing left to
\* refresh except while it lists
Held ==
  \A s \in Tunnels :
    /\ pc[s] \in Starting => lock[Owner[s]] = s
    /\ pc[s] \in Starting \cup {"ready"} => row[s].status = "none"
    /\ pc[s] \in {"ready", "list", "insert"} => Inspected(s)

\* Whatever is about to be written exists
Known ==
  /\ \A s \in Tunnels : pc[s] = "record" => row[s].status # "none"
  /\ \A k \in Tasks : \A x \in toIdle[k] \cup toEnd[k] : row[x].status # "none"
  /\ \A p \in Proxies : pc[p] \in {"touch", "target", "connect", "open", "fail"} =>
       on[p] \in Tunnels /\ row[on[p]].status # "none"

\* The clock, the nows the tasks hold and the times in the rows
Times ==
  /\ \A k \in Tasks : at[k] <= clock
  /\ \A x \in Tunnels :
       /\ row[x].born <= row[x].used /\ row[x].born <= clock
       /\ row[x].status = "idle" => row[x].used >= row[x].born + IdleAfter
  /\ \A k \in Tasks : \A x \in toIdle[k] : at[k] >= row[x].born + IdleAfter
  /\ \A p \in Proxies : pc[p] = "touch" => at[p] >= row[on[p]].born

\* What a start has counted covers its user's open tunnels until it inserts
ListIsCurrent ==
  \A s \in Tunnels :
    /\ pc[s] = "age" => OpenOf(Owner[s]) \ revived \subseteq found[s] \cup toEnd[s]
    /\ pc[s] = "insert" => /\ OpenOf(Owner[s]) \ revived \subseteq found[s]
                           /\ Cardinality(found[s]) < MaxOpen

IInv == TypeOK /\ Held /\ Known /\ Times

-----------------------------------------------------------------------------
(* What the documents say and the code does not do                         *)

\* spec.md: enforce per-user active tunnel limits.
OpenTunnelsLimited == \A u \in Users : Cardinality(OpenOf(u)) <= MaxOpen
=============================================================================
