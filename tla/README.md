# A verification of TermKit

TermKit is a self-hosted web workspace for SSH, SFTP, RDP, VNC, Telnet and FTP
hosts. A SvelteKit application serves the pages and the remote functions; a Node
server (`server.ts`) wraps it, upgrades websockets and proxies them to the
protocols; PostgreSQL holds everything that must survive a restart. This
directory holds TLA+ models of its core, TLC configurations that check them on
small instances, and TLAPS proofs for every value of the constants.

Paths below are relative to the repository; `services/`, `ws/`, `ssh-live/`,
`protocols/` stand for directories of `src/lib/server/`.

## 1. Inventory

| Component | State it keeps | Operations | What makes it correct |
|---|---|---|---|
| Live SSH manager, `ssh-live/manager.ts` | map session id -> `LiveSshSession` (shell, at most one attached websocket, scrollback) | `startWithSize`, `handle`, `attach`, `detach`, frames, `finish`, `close` | one socket serves a session; an end is told to the socket or to the close listener |
| Live SSH service, `services/ssh-live-sessions.ts` | rows of `ssh_live_sessions` and `ssh_attach_tickets`; `createQueues` | create/reuse, rename, ticket mint and consume, mark attached/detached, end, fail, expire, mark stale | the user's limit; a ticket admits once; a final row stays final; whoever is detached expires |
| Websocket upgrade, `ws/upgrade.ts` | `liveSshAttachmentPersistence`, `liveSshSocketClosePersistence` (promises per session) | admit, hand to the manager, persist the attachment, persist the close | every close is written once, in an order that does not undo a later attach; nobody waits forever |
| Maintenance, `server.ts` | timers | stale marking at start, idle sweep | no revival after a restart; only detached sessions are swept |
| SSH tunnels, `services/ssh-tunnels.ts`, `protocols/ssh-tunnel.ts` | tunnel rows, `startQueues`, proxied sockets | start, touch, age to idle and ended, terminate, fail, proxy | the user's limit; a final tunnel stays final; no tunnel ends early |
| Session tickets, `services/session-tickets.ts`, `ws/ticket-consumer.ts` | ticket rows | mint, consume, check the target | single use, for the target it was minted for |
| Connection sessions, `services/connection-sessions.ts` | `connection_sessions` rows | start, mark active, end, fail, client lifecycle reports | an ended connection is not reported active |
| RDP live sessions, `services/rdp-live-sessions.ts`, `remotes/sessions.impl.remote.ts` | rows of `rdp_live_sessions`, a connection row per launch | create, attach, close, fail, the launch that follows | the user's limit; a launch that fails leaves nothing open |
| RDP gateway, `rdp/gateway.ts` | signed tokens; the sessions are in the gateway | bootstrap, proxy | the launch fails as a whole when the bootstrap does |
| SSH connect, host trust | host key rows; chains of clients | connect through jump hosts, trust on first use, enroll | every client of a failed chain is closed; a changed key is refused |
| Protocol adapters: SSH, Telnet, VNC, TCP, SFTP, FTP | per connection | proxy bytes, file operations | the connection to the host goes with its websocket, and the reverse |
| RDP pane, `components/termix/session/rdp` | connection state, attempts, a timer, what was reported | mount, connect, time out, disconnect, dispose, report | late answers of old attempts change nothing; the history hears of every end |
| Client workspace, `components/termix/session/layout` | panes, attachments per pane, dismissed tabs, busy flag, paused hosts | create, attach, launch, close, reconnect, navigate, edit the layout | late answers do not bring closed sessions back; no open session is hidden |
| Client transfers, `components/termix/session/sftp` | directory, one progress bar, one cancel flag, one abort handler | upload, delete, move, download, search, open, cancel | a transfer does all it says it did; cancel stops it; the bar is true |
| Accounts, `auth/session.ts`, `remotes/auth.remote.ts`, `routes/(auth)/auth/microsoft/_oauth.ts`, `services/microsoft-invitations.ts`, `remotes/admin.remote.ts` | rows of users, identities, invitations, sessions; an advisory lock | first run, login, Microsoft callback, logout, create, promote, disable, invite, revoke | one founder; an admin is left; an account is what its invitation says; the disabled are logged out |
| Hosts, credentials, groups, workspaces, settings, import, history | rows | CRUD, import jobs | ownership and validation around single statements |

How they interact: the browser calls remote functions (create, attach, close) and
receives a one-time ticket; it opens a websocket with that ticket;
`ws/upgrade.ts` consumes the ticket, reads the row, and hands the socket to the
manager; the manager starts a shell or attaches to the running one; close events
and manager callbacks lead back to the row. For the other protocols the upgrade
consumes a session ticket, inserts a connection row and hands the socket to an
adapter; for RDP the remote function does so and the browser connects to the
gateway, then reports how it went. There is no transaction and no lock
around any of this: ordering comes from the WHERE clauses of the UPDATEs and from
promises kept in maps and queues. Only accounts have transactions: the first run,
behind an advisory lock, and the Microsoft callback, behind none.

Hard behaviours: tasks interleave at every `await`; a socket's close, the shell's
end and a request to close arrive in any order; the process restarts while rows
stay; close reasons get lost with the connection; limits are read-then-insert;
expiry is compared with a time read earlier. In the browser one page holds the
answers of many requests, and what they are to change may be gone when they come.

## 2. Modules

| Module | What it is |
|---|---|
| `SessionLifecycle` | abstract specification: the legal histories of a live session's row |
| `LiveSsh` | the live SSH core: manager, upgrade, service, row, tickets, maintenance, restart |
| `MCLiveSsh` + 4 cfg | instances of `LiveSsh` |
| `LiveSshProofs` | theorems about `LiveSsh` |
| `UserQueue` | abstract specification: requests served one at a time, in order of arrival |
| `LiveSshCreate` | create/reuse under the per-user promise queue; implements `UserQueue` |
| `MCLiveSshCreate` + cfg | its instance |
| `LiveSshCreateProofs` | theorems about it |
| `SshTunnels` | SSH tunnel sessions of a workspace: starts, ageing, proxied requests, termination |
| `MCSshTunnels` + 2 cfg | its instances |
| `SshTunnelsProofs` | theorems about it |
| `ConnectionLifecycle` | abstract specification: the legal histories of a connection row |
| `SessionTickets` | session tickets: mint, the checks of the consumer, edits meanwhile |
| `TrackedConnections` | what an upgrade does with a ticket: connection row, adapter, queue of updates; extends `SessionTickets` |
| `MCTrackedConnections` + cfg, `TrackedConnectionsProofs` | its instance, its theorems |
| `RdpSessions` | live RDP sessions and the launches about them, at the server |
| `RdpPane` | the panes that show the launches, and their reports; extends `RdpSessions` |
| `MCRdpPane` + cfg, `RdpPaneProofs` | its instance, its theorems |
| `WorkspaceSessions` | the live SSH or RDP sessions of one host in the client workspace |
| `MCWorkspaceSessions` + cfg, `WorkspaceSessionsProofs` | its instance, its theorems |
| `SftpTransfers` | the transfers of one file browser |
| `MCSftpTransfers` + cfg, `SftpTransfersProofs` | its instance, its theorems |
| `Accounts` | users, sessions, the first run, Microsoft sign-in and the commands of admins |
| `MCAccounts` + cfg, `AccountsProofs` | its instance, its theorems |

`LiveSsh` and `LiveSshCreate` share the rows' statuses and no step: the first is
one session from its creation on, the second how sessions come to be. `LiveSsh`
implements `SessionLifecycle` by a refinement mapping, and `LiveSshCreate` in the
same way `UserQueue`. What `LiveSshCreate` and `WorkspaceSessions` assume of a row,
that one that is over stays over, is a theorem about `LiveSsh` (`OverStaysOver`). `SshTunnels` writes tables of
its own; it uses the promise queue of `LiveSshCreate` (the code is the same,
written twice) as the lock that `LiveSshCreateProofs` shows it to be.
`TrackedConnections` composes the consumption of a ticket with the connection it
opens, and implements `ConnectionLifecycle`; `RdpPane` composes the server's
half of a launch with the browser's, and its rows keep to `ConnectionLifecycle` but
for two kinds of race. `WorkspaceSessions` sees of the server only
whether a session is open, which is what `LiveSsh` and `LiveSshCreate` settle.

### LiveSsh

One session, the websocket upgrades `Conns` and the attach tickets `Tickets`.
The manager's map, the row and the two promise maps are keyed by session id and
share nothing between ids, so one session is the general case. Correspondence:

* `row` is the row's `status` and `expiresAt`. `MayBecome` is the WHERE clause
  that `allowedCurrentSshLiveStatusesForUpdate` adds to a status update; an update
  of `expiresAt` alone has no such guard (`MintWrite`).
* `shell` is the manager's map entry: `by` names the upgrade whose `handle`
  started it (the one whose close listener is registered), `att` the attached
  socket. `wire` is `readyState`, `bye` the close reason.
* `conn[c].pc` is where the upgrade of `c` is between its awaits, `at` the `now`
  it compares with, `seen` the `sessionStatus` that travels with the ticket.
* `after[c]` is the close listener of `handleLiveSshConnection`,
  `reaper[c]` is `persistLiveSshManagerClose`, `attachMap` and `closeMap` are
  the two promise maps. "The promise is resolved" is `Recorded(c)` and
  `after[c] = "done"`.
* `kill` holds the `manager.close` calls that follow an UPDATE.

Each query is a step of its own; what runs after a query up to the next await is
part of that step, because nothing else can run in between except the database
(whose next statement is another task's and commutes with code that touches
memory only).

`SharedManager` distinguishes two builds. In the shipped one, `server.ts` loads
the application's `handler.js` at run time while its own bundle inlines a second
copy of the manager and the services: a `close` in a remote function reaches a
manager without sessions. In the unit tests both sides share one module. Runs
use `FALSE` unless they say otherwise; the proofs cover both.

### LiveSshCreate

The requests of one user. `tail` is the promise in `createQueues`, `prev` the
one each request awaits, `Leave` the finally block. The rows' own life is reduced
to live, lapsed and over, and may change between any two steps of a request.
`Reject` is every refusal and every rejected query: the finally block runs then too.
The title (`uniqueLiveSessionTitle`) is left out: it depends on no state here.

`UserQueue` knows no promises. Its queue is `InLine`, the requests that have come and
not gone in the order of their numbers, and whoever it serves is `AtWork`, past the
await. `Enter` is its `Join`, `Start` its `Serve`, `Leave` (and every `Reject`) its
`Finish`; all that a request does in between leaves it alone.

### SshTunnels

The tunnels of the members of one workspace. Correspondence:

* `row` is the row's status, `lastSeenAt` (`used`) and `startedAt` (`born`).
  `UpdateRow` is `updateSshTunnelSession`, which has no guard: what a task writes
  replaces whatever the row has become since the task read it.
* A task (a start, a list or inspection, a proxied request) takes its `now` once;
  `at` is that `now`. `Inspect` is the SELECT and the decisions of
  `refreshIdleState`; `toIdle` and `toEnd` are the UPDATEs that `Promise.all` has
  begun and `MarkIdle` and `Expire` are those UPDATEs, in any order and however late.
* `lock` is `startQueues`, one lock per user. `Starting` are the awaits of
  `startSessionUnlocked`, `found` is its `openSessions`. Tunnels of all members of
  the workspace are listed, aged and counted (`drizzle.ts:668`), though each user
  has a lock of their own; so tunnels of others use up a user's limit.
* `TouchRead` and `TouchWrite` are `touchSessionForProxy`; `Target`, `Connect`,
  `FailWrite` and `Hangup` are the upgrade and `proxyTcpTunnelWebSocket`. Requests
  of the HTTP route take the same steps and share the actions.
* `Terminate` is the user's and the administrator's termination. It writes the
  row; no connection that is open is closed by it.
* `closed` and `revived` are history: when a tunnel last ended, and whether a late
  write opened it again. No guard reads them.

Left out: who is a member (fixed), saved profiles, the order of the queue, and
the connection rows written beside.

### SessionTickets and TrackedConnections

One user, one host, one credential, which are edited and deleted at any time.

* `host`, `secret`, `login` are the rows. A member of `Keyed` stands for the
  fields `assertTargetUnchanged` compares while the host refers to the credential,
  `Bare` for those of a host without one. A secret is the number of the edit that
  encrypted it: two ciphertexts are never equal, while a user name can be set back.
* `mint` and `snap` are `create` between its queries and the snapshot it takes.
* `pc` is where `consume` of `ws/ticket-consumer.ts` waits: validation (ticket,
  host, credential), decryption, the second validation, the UPDATE. `barred` is
  everything decided on arrival: user, protocol, and expiry against the one `now`.
* `row`, `queue` and `end` are `handleTrackedConnection`: the connection row,
  `lifecycleQueue` and `finalized`. `Record` is one link of the promise chain;
  a rejected one is swallowed and the chain goes on.
* `sock` is the client's socket, `target` the adapter's connection. Targets in
  `Tcp` behave like `proxyTcpBytes`, which has its socket from the start; the
  others like `protocols/ssh.ts`, whose close listener ends the client *if there
  is one yet*.
* `jump` is the client of the jump host, which only `connectTrustedSsh` knows; any
  SSH target may name one, the field is part of the data its snapshot stands for.
  `Over` is the end of the host's client with what its listeners, or the `catch`
  around the connecting, do to the other. A jump host that names a jump host
  itself is connected to directly (`protocols/ssh-connect.ts:42`).
* `matched`, `early` and `missed` are history.

### RdpSessions and RdpPane

The sessions of one user; `Launches` are calls of `createLiveRdpSession` and
`attachLiveRdpSession`, at whose awaits `pc` waits.

* `Count` and `Insert` are the SELECT and the INSERT of `create`, without a lock;
  `ReadOpen` and `Prepare` those of `prepareAttach`, `ReadFailing` and `Fail` those of
  `fail`. The UPDATEs go by id alone. `row` is the launch's connection row.
* `ui`, `api`, `attempt`, `timer`, `said` are `connectionState`, the component's
  api, `connectAttemptId`, `connectTimeout` and `lifecycleFinalized`; `remote[l][n]`
  is what has become of attempt `n`, whose handlers run when they run.
* `mail` are the reports under way, each a request of its own: `Deliver` takes
  any of them, `Lose` is a failed one, which the browser logs.
* `stale`, `outrun`, `revived`, `lost`, `again`, `overtaken` are history.

### WorkspaceSessions

The panes and tabs of one host; a step is what runs between two awaits.

* `attach`, `hidden`, `paused`, `failed` are `liveSshAttachByPaneId`,
  `dismissedLiveSshSessionIds`, the host's pause and `liveSshError`; `busy` is
  `liveSshBusy` with the request it stands for, `pad` and `asks` the launch panes
  and their requests, which take no part in `liveSshBusy`.
* The code has all this twice, for SSH and for RDP, in variables that never meet;
  `proto` chooses. The differences are kept: an RDP launch pane goes through
  `liveRdpBusy` (`LaunchMountsRdp`) and has no Retry, an RDP tab is dismissed when
  its close is confirmed (`ClosedRdp`) and not before, and the server attaches to
  an RDP session by an unguarded update after a read (`Found`, `Prepared`).
* `Launches(i)` is the branch of the template in which a launch pane is mounted.
  `Unmount` is what its cleanup does, also when `reconnectNonce` remounts all of
  them (`Disconnect`, `Reconnect`, `ReconnectPane`). Svelte renders before the next
  event is handled: while a launch pane is out of the template (`Stale`) nothing
  but its unmounting can happen.
* `srv` is what the server has, `listed` what the query last returned.
* Of the layout the model keeps which panes show the protocol. A smaller layout drops a
  pane with its attachment left behind (`PaneIsDropped`), as the code does.

### SftpTransfers

Several runs of the loops of `sftp-transfer-operations.ts` over one browser.

* `bar`, `flag`, `abort`, `cwd` are `transfer.status`, `transferCancelled`,
  `activeAbort` and `path`, which all runs share. `run[i]` is where the loop of run
  `i` waits: for the answer about an item, or for the reload at its end.
* `Goes` is `assertTransferActive` and the next request, or the end of the loop;
  `Tolerated` are the failures a loop goes past.
* `said`, `sent`, `stored`, `stopped`, `more`, `disturbed` are history.

### Accounts

Every request happens once; `pc` is the query it sends next. A form is the first run's
or the login's, whichever its user opens.

* `user`, `disabled`, `linked`, `grant`, `accepted`, `revoked` are the columns of
  `users`, `auth_identities` and `microsoft_invitations`; `sessions` names the logins
  whose session row would be accepted, so that an expired one has left it.
* `lock` is `pg_advisory_xact_lock`, held from `TakeLock` to the end of the
  transaction in `CountUsers` or `InsertAdmin`. A callback does not take it.
* `Provision` is the second half of the transaction of `findOrCreateMicrosoftUser`,
  at its commit: the user, the identity and the mark on the invitation. `hadUsers`,
  `held` and `old` are what the callback has read before, outside and inside it.
* `Send` is the hook (`getSessionFromToken`) and `requireAdmin`; what follows runs
  with the rights the admin had then. `DisableUser` and `DeleteSessions` are the two
  statements of `disableAdminUser`.
* `founders`, `crossed`, `joined`, `contested`, `overlapped` are history. Each of the
  last is set by the step that comes *between* a check and its use, never by the
  use, so that a check left out is not excused by it.

Passwords, tokens and the identity provider's protocol are left out; an address has
one Microsoft subject.

## 3. Runs

| Run | Bounds | Shows |
|---|---|---|
| `live_ssh` | 2 upgrades, 2 tickets, 1 restart, clock 0..2 with ticket lifetime 1 and idle lifetime 2; 3.9 million states | types and seven properties, among them that nothing gets stuck and that the row implements `SessionLifecycle` |
| `live_ssh_liveness` | 2 upgrades, no restart, no clock | every closing socket is dealt with; every end nobody was attached to reaches the row |
| `live_ssh_close` | as `live_ssh` without a restart | violation: a closed session's shell survives |
| `live_ssh_sweep` | as `live_ssh` without a restart | violation: the sweep ends an attached session |
| `live_ssh_create` | 4 requests, 2 hosts, limit 2, 1 restart | the promise queue serves one at a time and in order (`UserQueue`), without starvation; the limit holds |
| `ssh_tunnels` | 2 starts of one user under a limit of 1, 1 lister, 2 proxied requests, idle period 1, clock 0..2; 2.5 million states | types, the limit but for revived tunnels, idle ends are not early, only races revive |
| `ssh_tunnels_limit` | 3 starts of two users, 1 lister, 1 proxied request | violation: a revived tunnel exceeds the limit |
| `tracked_connections` | 1 ticket, 2 upgrades, an SSH target with a credential or a Telnet one without, 2 user names, the SSH target with or without a jump host, 2 edits, 1 restart; 1.9 million states | single use, current target, minted secret; the row's story; which targets outlive their websocket |
| `rdp_pane` | 2 sessions, 2 launches under a limit of 1, 1 pane, 2 attempts; 1.4 million states | the limit but for races; the newest attempt is shown; the row tells the first report and goes forward |
| `workspace_sessions` | 2 panes, 2 sessions, 2 unanswered requests of launch panes; 2.4 million states | no closed session is shown again; no open session is hidden; no launch pane waits for nothing |
| `sftp_transfers` | 2 transfers of 2 items, 1 opener, 2 directories; 0.7 million states | what a transfer keeps of its promise alone; when the bar may be wrong |
| `accounts` | 2 users, one of them a configured admin, 2 forms of the first run or the login, 2 callbacks, 2 commands; 5.4 million states | one founder; an admin is left; only the invited or configured sign in; invitations agree with accounts; the disabled are logged out |

Why the bounds are enough: two upgrades give every pairwise race (takeover,
double consumption, close against attach) and each race in the code is between
two tasks of one session; two tickets let the second upgrade use its own or the
first's; the clock passes both lifetimes; one restart puts every operation before
and after it. Four requests let one leave while two wait and another arrives,
with the limit reached twice. For tunnels, three kinds of tasks may each hold a late
write to either row while the second start counts; two idle periods fit the clock
exactly, so that ending one tick early would show. Several users of one workspace
are in the violation run, and in the proofs. Two upgrades of one ticket give
every race for it; two edits change a row and change it back; two attempts give
the late answer of an old one; two panes and two sessions let a pane be attached to
another session, or two panes to one, and two requests let one that was left behind
be answered while its pane waits for another; two transfers overlap, and two items give a
first, a next and a last request; two forms race for the lock while callbacks may come
between, two callbacks may be one user's, and two commands are what two admins need to disable each other, or one to
invite and another to revoke. The safety results are then proved
without bounds.

`CloseCommand` keeps one pending close at a time: the manager's `close` is
idempotent, so a second pending one adds no behaviour.

Fairness: promise continuations, event handlers and queries complete, hence weak
fairness of the server's steps per upgrade or request. The `ws` library closes a
socket whose peer is silent, hence of `CloseEvent` too. Nothing is assumed of
clients, of the remote shell, of the sweep, or of requests being made. The modules
of the second half state no fairness: their properties are safety.

Deadlock checking is off because an instance with every upgrade, ticket or request
used simply stops; that nothing gets stuck earlier is what the liveness runs check,
and `NeverStuck` and `SomebodyProceeds`, which are proved.

## 4. Findings

* `live_ssh_close` (`sessions.impl.remote.ts:371`): closing marks the row ended;
  the shell lives on in the other bundle's manager. spec.md:321 says the shell is
  terminated. Even with one manager, a close that falls between the consumption
  of a ticket and `handle` leaves a shell whose row is final.
* `live_ssh_sweep` (`services/ssh-live-sessions.ts:319`): `hasActiveAttachment`
  is tested before the two queries of `markDetached`; a re-attach in between is
  overwritten by "detached" and the sweep ends the session under its terminal.

* `ssh_tunnels_limit` (`services/ssh-tunnels.ts:210` and `:364`): a touch or an idle mark that
  was decided before a tunnel was terminated is written after it, and the tunnel is
  open again. If a start counted in between, the user is over the limit
  (spec.md:397). A guard on the status in the UPDATE, as for live sessions, would do.

All three were read off counterexamples of TLC. Close reasons that get lost with the
connection leave a session "detached" until it expires; the model has them
(`unheard`), and `SettledRowTellsEnd` is stated for the other executions.

Observations from the modelling of the other parts, stated by the exceptions of
properties that hold:

* spec.md:332 lets *detached* tunnels expire, but only the upgrade of a websocket
  counts as use (`services/ssh-tunnels.ts:352`): an open tunnel ages like an unused
  one and its row ends beneath it, no earlier than `IdleEndsLate` allows.
* Two admins who disable each other at the same time leave no admin who can log in,
  and the first run is closed (`AdminRemains` excepts `crossed`).
* An invitation that is revoked or changed between the reads of a callback and its
  commit still makes the account; one that is accepted while it is being revoked ends
  up both, although `revokeMicrosoftInvitation` refuses accepted ones
  (`AccountsMatchInvitations` excepts `contested`).
* A login past its last check inserts a session for a user disabled meanwhile
  (`overlapped`). The row is of no use: every request asks for `disabledAt` again.
* An attach whose `markAttached` is written late, after a second websocket took over
  and has closed and recorded its detach, leaves the row "attached" with nobody attached: the guard
  lets "attached" follow "detached", and an attached row has no expiry, so nothing ends the
  session but its shell or its user. No property speaks of attached rows; TLC finds
  the behaviour with one that does.
* A websocket that closes while its SSH client still connects leaves that client
  connected, and nothing ends it (`protocols/ssh.ts:34`; `OnlyEarlyCloseOrphans`).
* The client of a jump host has no listener for `error` once it is ready
  (`protocols/ssh-connect.ts:129`), nor has the process one for what nobody handles:
  such an error is a restart of the server, which the model can do at any time.
* RDP sessions may exceed the limit by concurrent creates, and `prepareAttach` may
  open a session that was closed after it was read (`LimitPassedOnlyByRaces`).
* A pane that connects again after it has reported an end leaves its connection row
  active for good, for there is no second report (`ClosedPaneSettlesRow`); so does
  a report that is lost. Connection rows, unlike live sessions, are not marked
  when the server restarts (`Restart` of `TrackedConnections`).
* Closing a tab while another launch of its session is unanswered brings it back
  when the answer comes (`ClosedIsNotShown` excepts these).
* A second RDP pane of a host, opened while the first still asks for its session,
  says "Opening RDP session" until it is mounted again: `createPersistentRdpSession`
  returns at once while busy, and the launch pane calls it only once
  (`LaunchPaneWaits` excepts `ignored`).
* An attach that has read an RDP session opens it again when a close comes between
  (`Prepared`). If the close is confirmed after the attach is answered, the session
  is open and its tab dismissed (`HiddenIsClosed` excepts `revived`).
* A transfer started while another is being cancelled takes the cancellation back,
  and a change of directory sends the rest of an upload elsewhere (`AloneDoesAll`
  excepts those it calls disturbed). Deletes and moves say "complete" although
  items failed, because `request` turns failures into a result nobody reads.

## 5. Proofs

`LiveSshProofs`, for all sets of upgrades and tickets, lifetimes, numbers of
restarts and both builds:

* `Inductive`: `IInv` is an invariant. It adds to `TypeOK` that an upgrade that
  may still be handed over has no socket yet (or attaching could replace itself)
  and that whatever is written as an end is an end (or `UpdateRow` could write a
  close reason that is no status).
* `TypeCorrect`, `SocketsServed`, `TicketsAdmitOnce` (strengthened by
  `AdmissionsAreSpent`: whoever is admitted holds a used ticket), `UnattachedExpire`,
  `NoRevival`, `SettledRowsTellEnd` (strengthened by `EndIsOwed`: while the row of
  a session without a shell is open, the close listener of the manager, a websocket
  that was told of the end or a refused upgrade is about to close it; `DebtKept`
  says which steps cannot disturb that), `FinalStatusesStick` (which the run checks as part of `FollowsLifecycle`).
* `RowFollowsLifecycle`: refinement of `SessionLifecycle`. Each step that
  writes the row maps to a step of the abstract one, every other to a stutter.
* `NothingStuck`: what the liveness properties rest on and fairness does not give. As
  long as anything is under way, a step of the server is possible: a query, a close
  event, or a promise that is awaited and resolved (`CanProceed`). The proof is
  `WaitsAreFounded`: a close listener waits for an upgrade the manager has answered,
  and such an upgrade sends its queries and waits for nobody; a reaper waits for such an
  upgrade, or for a close listener that has begun. Nobody waits for a reaper, so that
  there is no circle. TLC compared `CanProceed(c)` with `ENABLED ServerStep(c)` on the
  states of the liveness run, where they are the same.
* `OverStaysOver`: an action property read off `MayBecome`, for every writer.

`LiveSshCreateProofs`, for any number of requests and any limit:

* `QueueInvariant`: the requests in the queue are numbered consecutively, each
  waits for its predecessor unless that has left, and the map holds the last.
  `order`, `entered` and `left` are history variables that say so; no action's
  guard reads them.
* `Exclusion` follows: only the request numbered `left + 1` can be past its await.
* `FirstComeFirstServed`: refinement of `UserQueue`. `InLine` is a sequence because every
  number from `left + 1` to `entered` is somebody's (`Numbered`) and nobody else's.
  `Enter` appends, `Leave` takes off the head, because only the request numbered
  `left + 1` can be past its await; a restart empties the queue.
* `QueueNeverStuck`: the request numbered `left + 1` awaits a promise that is resolved.
* `LimitIsKept` adds `ListIsCurrent`: what a request counted is a superset of the
  live rows until it inserts. Rows may end, but only the holder of the lock adds
  any; one counted as lapsed is ended before the decision, even if extended.

`SshTunnelsProofs`, for any users, starts, listers, proxied requests, limit and
idle period:

* `RowWrite` says once what an unguarded write may do to a row; `IInv` holds what
  is known of the writes still to come: who is at work holds the lock and has no
  row yet (`Held`), only existing rows are written (`Known`), and no `now` is ahead
  of the clock or behind the start of the tunnel it is compared with (`Times`).
* `IdleEnds` needs both together: an idle row was used an idle period after its
  start at the earliest, which holds because whoever marks it idle saw it unused
  for that long, which in turn restarts the period for whoever ends it.
* `RacesOnly`: a task that would open a final tunnel has a `now` no later than its end.
* `LimitIsKept`: `ListIsCurrent`, as for live sessions; here tasks that know nothing
  of the lock write the rows counted, but `RowWrite` shows they add an open tunnel
  only by reviving one.

`TrackedConnectionsProofs`, for any tickets, upgrades, targets, edits and restarts:

* `IInv` is `TicketInv /\ ConnInv`. `TicketInv` says of each await of `consume` what
  has been established there: what was current since the upgrade arrived
  (`Current`), that the secret that was read is the minted one if the minted one
  is still there (`Secret`: an edit never sets a secret back, though it may a user
  name), and that a ticket some upgrade has taken is used up (`Once`).
* `ConnInv` says that the queue holds what the row still has to be told, in order
  (`QueuedOf`): nothing, the activation, the end, or both. `RowTellsFirstEnd` is
  read off it, and so is the refinement of `ConnectionLifecycle`, through `RowGoes`.

`RdpPaneProofs`, for any sessions, launches, panes, attempts and limit: `Held` says
which session a launch refers to at each await, `Reported` relates the row to the
reports still under way, and `Limited` carries `LimitPassedOnlyByRaces` through the
count: one that is not `stale` leaves room for another session. `RdpRowsGoForward` is
the action property of `ConnectionLifecycle` with its exceptions: `ServerRowStep` for
what the launch writes, `DeliverRowStep` for the reports, where `Reported` says that no
report of an activation is under way behind an end that was delivered.

`WorkspaceSessionsProofs`, for any sessions, panes and requests: sessions that are
settling (shut, or being closed with every launch answered) are dismissed, and
neither attached nor asked for (`Quiet`); so no answer can bring one back. The
attachments to a dismissed RDP session are gone, and a close that has yet to be
carried out or confirmed accounts for the rest (`Dismissal`). A step that takes a
request from a launch pane also ends its waiting, or makes it one the page is about
to unmount (`Waits`).
`PreferredIsPane` rests on the least element of a set of naturals.

`SftpTransfersProofs`, for any runs, directories and number of items: two runs that
work at a time are both disturbed, and the bar says running only while whoever wrote
it waits for an answer (`Shared`); an undisturbed run has sent everything to the
current directory and the flag stays up once it is stopped (`Alone`); every run has
stored each item before the one it waits for (`Progress`).

`AccountsProofs`, for any users and requests. Users only gain (`GainStep`): rows stay,
and so does `isAdmin`. On that rest six arguments that do not need each other:

* `Founding`: whoever has locked or counted holds the lock, and a form that counted no
  users finds no founder.
* `Ruled`: the sender of a disable is an admin and somebody else, so is left by it
  unless disabled before, which sets `crossed`. The first user is an admin because a
  callback that saw no users has a configured name (`Remembered`).
* `Invited`: a command about to write an invitation that is accepted has contested it.
* `LoggedOut`: a login about to insert a session for a disabled user is overlapped.
* `Cleared`: a callback past the check of the invitation holds one or is about a
  configured name. `hasExistingUsers`, by which the invitation is required, was read
  before; it is false only for a configured name, whatever users came since.
* `AccountsAreRooted`: the first row of `users` is a founder's or a configured admin's.
  No other callback finds a server without users open to it.

Every invariant, action property and refinement of the passing runs has a theorem.
`TypeOK` is checked by TLC as a property of a run where it says more than types (`LiveSsh`,
`LiveSshCreate`, `SshTunnels`); in the other modules it is proved only, as are
`OverForGood`, `SomebodyProceeds` and `AccountsAreRooted`, on which TLC agrees.

Only model-checked: the liveness properties (`SocketClosesSettle`, `EndsReachTheRow`,
`EveryRequestEnds`), because fairness and `ENABLED` are beyond the prover. Of each
the safety core is proved instead: somebody can always go on (`NothingStuck`,
`QueueNeverStuck`). What TLC adds is that going on comes to an end.

## 6. Plan

Done: live SSH sessions and their creation, SSH tunnels, session tickets and tracked
connections, RDP sessions and panes, the live sessions of the workspace, transfers, accounts.

Next, in this order:

1. The store of host keys and its enrollment.
2. Pure algorithms: the Telnet filter over split chunks against one over the
   whole stream, scrollback trimming, the operations of the layout tree.
3. Saved tunnel profiles and their limit.
4. Proofs: one abstract one-time ticket that attach tickets and session tickets both
   implement; when a closed session's shell can survive in a build with one manager.

## 7. Not modelled

* Bytes: terminal data, scrollback, resizing, recordings, the Telnet negotiation
  filter, clipboard and files of RDP. No property here depends on them.
* The host key store: a key that is refused is a failed connection. Reading and
  writing it is synchronous, so that requests cannot come between the two.
* The tree of the workspace's layout and its persistence.
* Of transfers: the text editor, new folders, bookmarks, the listing before a
  recursive download, byte counts.
* Of accounts: tokens, cookies, password hashes, the exchange with the identity
  provider before a callback has its claims.
* Workspaces, host groups, snippets, recordings, import, settings:
  mostly validation around single statements; see the plan for the exceptions.
* Data conversion (import, cryptography, formatting), the identity providers and
  the RDP gateway, user interface components, build and acceptance scripts.

A rejected query is modelled where the code's answer to it matters
(`HandleRefused`, `MarkRead` and `Lookup` in `LiveSsh`, `Reject` in `LiveSshCreate`
and `SshTunnels`, `MintFail`, `ConsumeFail`, `StartRow` and `Record` in the tracked
connections, `MintTicket` and `Bootstrap` in `RdpSessions`; in `Accounts` the unique
indexes); elsewhere it is left out.
