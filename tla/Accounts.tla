------------------------------ MODULE Accounts ------------------------------
(***************************************************************************)
(* Who may use the server: user rows and their sessions (auth/session.ts), *)
(* the first-run form (auth.remote.ts), Microsoft sign-in with its         *)
(* identities and invitations (_oauth.ts, microsoft-invitations.ts), and   *)
(* the commands of an admin (admin.remote.ts).  A user is named by the     *)
(* username, which for Microsoft is the email address; one address has one *)
(* Microsoft subject.  A step is one query, or one transaction that others *)
(* see when it commits.  The tables are read at read committed, the        *)
(* isolation of the database, and no row of users is ever deleted.  The    *)
(* password a login needs may be any user's, also one made by a callback,  *)
(* whose password is random: the model has more logins than the program.   *)
(***************************************************************************)
EXTENDS FiniteSets

CONSTANTS
  Names,       \* usernames and email addresses
  Configured,  \* adminEmails
  Forms,       \* submissions of the first-run form or the login form
  SignIns,     \* Microsoft callbacks whose tokens were verified
  Commands,    \* commands an admin sends
  NoOne

ASSUME AccountsAssumption ==
  /\ Configured \subseteq Names
  /\ NoOne \notin Names \cup Forms
  /\ Forms \cap SignIns = {} /\ Commands \cap (Forms \cup SignIns) = {}

VARIABLES
  user,       \* "none", or the isAdmin of the row
  disabled,   \* users with disabledAt
  linked,     \* users with a row in auth_identities
  grant,      \* invitations: "none", or the isAdmin of the row
  accepted,   \* invitations with acceptedAt
  revoked,    \* invitations with revokedAt
  lock,       \* pg_advisory_xact_lock('termkit:first-run-admin')
  sessions,   \* visitors whose session is accepted: it is there and has not expired
  pc,         \* what a request does next
  name,       \* the user it logs in, provisions or is about
  by,         \* the admin who sent a command
  asked,      \* the isAdmin a command asks for, "member" if it asks for none
  hadUsers,   \* hasExistingUsers of a callback
  held,       \* the invitation a callback has read
  old,        \* the existingUser a callback has read
  founders,   \* forms that inserted the initial admin (history)
  crossed,    \* an admin was disabled who was about to disable another (history)
  joined,     \* users linked through an invitation (history)
  contested,  \* invitations changed while they were being accepted (history)
  overlapped  \* visitors disabled after the last check of their login (history)

sentVars   == <<by, asked>>
userVars   == <<user, disabled, linked>>
inviteVars == <<grant, accepted, revoked>>
readVars   == <<hadUsers, held, old>>
pastVars   == <<founders, crossed, joined, contested, overlapped>>
vars       == <<userVars, inviteVars, lock, sessions, pc, name, sentVars, readVars, pastVars>>

-----------------------------------------------------------------------------
Visitors == Forms \cup SignIns
Requests == Visitors \cup Commands
Roles    == {"member", "admin"}
Kinds    == {"create", "promote", "disable", "invite", "revoke"}
Steps    == {"idle", "form", "locked", "counted", "password", "authenticated", "minting",
             "callback", "promoting", "invitation", "existing", "provision",
             "deleting", "updating", "inserting", "revoking", "done"} \cup Kinds

Exists(n) == user[n] # "none"
HasUsers  == \E n \in Names : Exists(n)   \* hasAnyUser, and the count of the first run
Active(n) == grant[n] # "none" /\ n \notin accepted \cup revoked

Goto(r, step) == pc' = [pc EXCEPT ![r] = step]

\* A request is over, and whom it was about is no longer known
Leave(r) == Goto(r, "done") /\ name' = [name EXCEPT ![r] = NoOne]

Answer(c) ==
  /\ Leave(c)
  /\ by' = [by EXCEPT ![c] = NoOne]
  /\ asked' = [asked EXCEPT ![c] = "member"]

\* findOrCreateMicrosoftUser returns or throws
Return(t, step) ==
  /\ Goto(t, step)
  /\ hadUsers' = [hadUsers EXCEPT ![t] = FALSE]
  /\ held' = [held EXCEPT ![t] = "none"]
  /\ old' = [old EXCEPT ![t] = "none"]

Init ==
  /\ user = [n \in Names |-> "none"] /\ disabled = {} /\ linked = {}
  /\ grant = [n \in Names |-> "none"] /\ accepted = {} /\ revoked = {}
  /\ lock = NoOne /\ sessions = {}
  /\ pc = [r \in Requests |-> "idle"]
  /\ name = [r \in Requests |-> NoOne]
  /\ by = [c \in Commands |-> NoOne]
  /\ asked = [c \in Commands |-> "member"]
  /\ hadUsers = [t \in SignIns |-> FALSE]
  /\ held = [t \in SignIns |-> "none"]
  /\ old = [t \in SignIns |-> "none"]
  /\ founders = {} /\ crossed = FALSE /\ joined = {} /\ contested = {} /\ overlapped = {}

\* Types, and the references between the tables
TypeOK ==
  /\ user \in [Names -> {"none"} \cup Roles]
  /\ grant \in [Names -> {"none"} \cup Roles]
  /\ disabled \cup linked \subseteq {n \in Names : Exists(n)}
  /\ accepted \subseteq joined /\ joined \subseteq linked
  /\ accepted \cup revoked \subseteq {n \in Names : grant[n] # "none"}
  /\ lock \in Forms \cup {NoOne}
  /\ sessions \cup overlapped \subseteq Visitors
  /\ pc \in [Requests -> Steps]
  /\ name \in [Requests -> Names \cup {NoOne}]
  /\ by \in [Commands -> Names \cup {NoOne}]
  /\ asked \in [Commands -> Roles]
  /\ hadUsers \in [SignIns -> BOOLEAN]
  /\ held \in [SignIns -> {"none"} \cup Roles]
  /\ old \in [SignIns -> {"none"} \cup Roles]
  /\ founders \subseteq Forms /\ crossed \in BOOLEAN /\ contested \subseteq Names

-----------------------------------------------------------------------------
(* firstRunForm and createFirstRunAdmin                                    *)

\* The form is refused (a redirect to the login) once there is a user
OpenForm(s, n) ==
  /\ pc[s] = "idle" /\ ~HasUsers
  /\ Goto(s, "form")
  /\ name' = [name EXCEPT ![s] = n]
  /\ UNCHANGED <<userVars, inviteVars, lock, sessions, sentVars, readVars, pastVars>>

\* Mutant of TakeLock: the transaction does not wait
TakeNoLock(s) ==
  /\ pc[s] = "form"
  /\ lock' = s
  /\ Goto(s, "locked")
  /\ UNCHANGED <<userVars, inviteVars, sessions, name, sentVars, readVars, pastVars>>

\* The lock is held to the end of the transaction
TakeLock(s) ==
  /\ pc[s] = "form" /\ lock = NoOne
  /\ lock' = s
  /\ Goto(s, "locked")
  /\ UNCHANGED <<userVars, inviteVars, sessions, name, sentVars, readVars, pastVars>>

CountUsers(s) ==
  /\ pc[s] = "locked"
  /\ \/ ~HasUsers /\ Goto(s, "counted") /\ UNCHANGED <<lock, name>>
     \/ HasUsers /\ Leave(s) /\ lock' = NoOne
  /\ UNCHANGED <<userVars, inviteVars, sessions, sentVars, readVars, pastVars>>

\* A callback may have provisioned a user since the count: the insert fails
\* when it is the same name
InsertAdmin(s) ==
  /\ pc[s] = "counted"
  /\ lock' = NoOne
  /\ \/ /\ ~Exists(name[s])
        /\ user' = [user EXCEPT ![name[s]] = "admin"]
        /\ founders' = founders \cup {s}
        /\ Goto(s, "password") /\ UNCHANGED name
     \/ Exists(name[s]) /\ Leave(s) /\ UNCHANGED <<user, founders>>
  /\ UNCHANGED <<disabled, linked, inviteVars, sessions, sentVars, readVars,
                 crossed, joined, contested, overlapped>>

-----------------------------------------------------------------------------
(* Sessions                                                                *)

\* authenticateUser with the password of n, for the login form, and for the
\* first-run form as the admin it has inserted
Authenticate(s, n) ==
  /\ pc[s] = "idle" \/ (pc[s] = "password" /\ name[s] = n)
  /\ Exists(n)
  /\ IF n \in disabled THEN Leave(s)
     ELSE Goto(s, "authenticated") /\ name' = [name EXCEPT ![s] = n]
  /\ UNCHANGED <<userVars, inviteVars, lock, sessions, sentVars, readVars, pastVars>>

\* Mutant of CheckUser: only authenticateUser asks whether the user is disabled
CheckNothing(v) ==
  /\ pc[v] = "authenticated"
  /\ Goto(v, "minting")
  /\ UNCHANGED <<userVars, inviteVars, lock, sessions, name, sentVars, readVars, pastVars>>

\* createSessionForUser refuses disabled users
CheckUser(v) ==
  /\ pc[v] = "authenticated"
  /\ IF name[v] \in disabled THEN Leave(v) ELSE Goto(v, "minting") /\ UNCHANGED name
  /\ UNCHANGED <<userVars, inviteVars, lock, sessions, sentVars, readVars, pastVars>>

InsertSession(v) ==
  /\ pc[v] = "minting"
  /\ sessions' = sessions \cup {v}
  /\ Goto(v, "done")
  /\ UNCHANGED <<userVars, inviteVars, lock, name, sentVars, readVars, pastVars>>

\* logout, or the session expires
EndSession(v) ==
  /\ v \in sessions
  /\ sessions' = sessions \ {v}
  /\ name' = [name EXCEPT ![v] = NoOne]
  /\ UNCHANGED <<userVars, inviteVars, lock, pc, sentVars, readVars, pastVars>>

-----------------------------------------------------------------------------
(* completeMicrosoftCallback and findOrCreateMicrosoftUser                 *)

\* Without users only a configured admin gets in
Callback(t, n) ==
  /\ pc[t] = "idle"
  /\ n \in Configured \/ HasUsers
  /\ hadUsers' = [hadUsers EXCEPT ![t] = HasUsers]
  /\ name' = [name EXCEPT ![t] = n]
  /\ Goto(t, "callback")
  /\ UNCHANGED <<userVars, inviteVars, lock, sessions, sentVars, held, old, pastVars>>

\* The identity is looked up before the transaction and again in it, which
\* makes no difference but when it is: whoever finds it does the same
FindIdentity(t) ==
  /\ pc[t] = "callback"
  /\ IF name[t] \in linked
     THEN Return(t, IF name[t] \in Configured THEN "promoting" ELSE "authenticated")
     ELSE Goto(t, "invitation") /\ UNCHANGED readVars
  /\ UNCHANGED <<userVars, inviteVars, lock, sessions, name, sentVars, pastVars>>

\* promoteMicrosoftAdminIfNeeded
PromoteConfigured(t) ==
  /\ pc[t] = "promoting"
  /\ user' = [user EXCEPT ![name[t]] = "admin"]
  /\ Goto(t, "authenticated")
  /\ UNCHANGED <<disabled, linked, inviteVars, lock, sessions, name, sentVars, readVars, pastVars>>

\* Mutant of RequireInvitation: without one the callback goes on
RequireNothing(t) ==
  /\ pc[t] = "invitation"
  /\ held' = [held EXCEPT ![t] =
       IF hadUsers[t] /\ Active(name[t]) THEN grant[name[t]] ELSE "none"]
  /\ Goto(t, "existing")
  /\ UNCHANGED <<hadUsers, old>>
  /\ UNCHANGED <<userVars, inviteVars, lock, sessions, name, sentVars, pastVars>>

\* requireActiveMicrosoftInvitation, unless there were no users
RequireInvitation(t) ==
  /\ pc[t] = "invitation"
  /\ \/ ~hadUsers[t] /\ Goto(t, "existing") /\ UNCHANGED readVars
     \/ /\ hadUsers[t] /\ Active(name[t])
        /\ held' = [held EXCEPT ![t] = grant[name[t]]]
        /\ Goto(t, "existing") /\ UNCHANGED <<hadUsers, old>>
     \/ hadUsers[t] /\ ~Active(name[t]) /\ Return(t, "done")
  /\ UNCHANGED <<userVars, inviteVars, lock, sessions, name, sentVars, pastVars>>

ReadExisting(t) ==
  /\ pc[t] = "existing"
  /\ old' = [old EXCEPT ![t] = user[name[t]]]
  /\ Goto(t, "provision")
  /\ UNCHANGED <<userVars, inviteVars, lock, sessions, name, sentVars, hadUsers, held, pastVars>>

RoleOf(t) == IF name[t] \in Configured \/ held[t] = "admin" THEN "admin" ELSE "member"

\* The row a user has after the transaction: inserted, raised or left alone
Provisioned(t) ==
  [user EXCEPT ![name[t]] = IF old[t] = "none" \/ RoleOf(t) = "admin" THEN RoleOf(t) ELSE @]

\* Two users or two identities of a name: a unique index refuses the second
Refused(t) == (old[t] = "none" /\ Exists(name[t])) \/ name[t] \in linked

\* Mutant of MarkAccepted: the invitation is left as it is
MarkNothing(t) == UNCHANGED accepted

\* markMicrosoftInvitationAccepted updates an active invitation, or none
MarkAccepted(t) ==
  accepted' = IF held[t] # "none" /\ Active(name[t]) THEN accepted \cup {name[t]} ELSE accepted

\* An admin has changed the invitation since it was read, or is about to
Contested(t) ==
  \/ ~Active(name[t]) \/ grant[name[t]] # held[t]
  \/ \E c \in Commands : name[c] = name[t] /\ pc[c] \in {"updating", "revoking"}

\* The rest of the transaction, when it commits; a refused one changes nothing
Provision(t) ==
  /\ pc[t] = "provision"
  /\ IF Refused(t)
     THEN Return(t, "done") /\ UNCHANGED <<user, linked, accepted, joined, contested>>
     ELSE /\ Return(t, "authenticated")
          /\ user' = Provisioned(t)
          /\ linked' = linked \cup {name[t]}
          /\ MarkAccepted(t)
          /\ joined' = IF held[t] # "none" THEN joined \cup {name[t]} ELSE joined
          /\ contested' = IF held[t] # "none" /\ Contested(t)
                          THEN contested \cup {name[t]} ELSE contested
  /\ UNCHANGED <<disabled, grant, revoked, lock, sessions, name, sentVars,
                 founders, crossed, overlapped>>

-----------------------------------------------------------------------------
(* Commands of an admin                                                    *)

\* Mutant of MaySend: admins may disable their own account
MaySendAny(kind, role, admin, n) ==
  /\ role = "admin" => kind \in {"create", "invite"}
  /\ kind \in {"promote", "disable"} => Exists(n)

\* What a command says: promote and disable name a row, create and invite a
\* role, and admins cannot disable their own account
MaySend(kind, role, admin, n) ==
  /\ role = "admin" => kind \in {"create", "invite"}
  /\ kind \in {"promote", "disable"} => Exists(n)
  /\ kind = "disable" => n # admin

\* handle finds the user of a session, requireAdmin asks for its isAdmin
Send(c, v, kind, role, n) ==
  /\ pc[c] = "idle" /\ v \in sessions
  /\ name[v] \notin disabled /\ user[name[v]] = "admin"
  /\ MaySend(kind, role, name[v], n)
  /\ by' = [by EXCEPT ![c] = name[v]]
  /\ asked' = [asked EXCEPT ![c] = role]
  /\ name' = [name EXCEPT ![c] = n]
  /\ Goto(c, kind)
  /\ UNCHANGED <<userVars, inviteVars, lock, sessions, readVars, pastVars>>

\* A taken name is refused by the unique index
CreateUser(c) ==
  /\ pc[c] = "create"
  /\ user' = [user EXCEPT ![name[c]] = IF @ = "none" THEN asked[c] ELSE @]
  /\ Answer(c)
  /\ UNCHANGED <<disabled, linked, inviteVars, lock, sessions, readVars, pastVars>>

PromoteUser(c) ==
  /\ pc[c] = "promote"
  /\ user' = [user EXCEPT ![name[c]] = "admin"]
  /\ Answer(c)
  /\ UNCHANGED <<disabled, linked, inviteVars, lock, sessions, readVars, pastVars>>

\* disableAdminUser updates the user, then deletes its sessions
DisableUser(c) ==
  /\ pc[c] = "disable"
  /\ disabled' = disabled \cup {name[c]}
  /\ crossed' = (crossed \/ \E d \in Commands \ {c} : pc[d] = "disable" /\ by[d] = name[c])
  /\ overlapped' = overlapped \cup {v \in Visitors : pc[v] = "minting" /\ name[v] = name[c]}
  /\ Goto(c, "deleting")
  /\ UNCHANGED <<user, linked, inviteVars, lock, sessions, name, sentVars, readVars,
                 founders, joined, contested>>

DeleteSessions(c) ==
  /\ pc[c] = "deleting"
  /\ sessions' = {v \in sessions : name[v] # name[c]}
  /\ Answer(c)
  /\ UNCHANGED <<userVars, inviteVars, lock, readVars, pastVars>>

\* createMicrosoftInvitation refuses an accepted invitation
ReadInvitation(c) ==
  /\ pc[c] = "invite"
  /\ IF name[c] \in accepted THEN Answer(c)
     ELSE /\ Goto(c, IF grant[name[c]] # "none" THEN "updating" ELSE "inserting")
          /\ UNCHANGED <<name, sentVars>>
  /\ UNCHANGED <<userVars, inviteVars, lock, sessions, readVars, pastVars>>

\* The UPDATE is by id: it does not ask again whether the row is accepted
UpdateInvitation(c) ==
  /\ pc[c] = "updating"
  /\ grant' = [grant EXCEPT ![name[c]] = asked[c]]
  /\ revoked' = revoked \ {name[c]}
  /\ Answer(c)
  /\ UNCHANGED <<userVars, accepted, lock, sessions, readVars, pastVars>>

\* A second row of an address is refused by the unique index
InsertInvitation(c) ==
  /\ pc[c] = "inserting"
  /\ grant' = [grant EXCEPT ![name[c]] = IF @ = "none" THEN asked[c] ELSE @]
  /\ Answer(c)
  /\ UNCHANGED <<userVars, accepted, revoked, lock, sessions, readVars, pastVars>>

\* Mutant of ReadRevoked: it is only looked up
ReadAnyRevoked(c) ==
  /\ pc[c] = "revoke"
  /\ IF grant[name[c]] = "none"
     THEN Answer(c)
     ELSE Goto(c, "revoking") /\ UNCHANGED <<name, sentVars>>
  /\ UNCHANGED <<userVars, inviteVars, lock, sessions, readVars, pastVars>>

\* revokeMicrosoftInvitation refuses an accepted invitation, or none
ReadRevoked(c) ==
  /\ pc[c] = "revoke"
  /\ IF grant[name[c]] = "none" \/ name[c] \in accepted
     THEN Answer(c)
     ELSE Goto(c, "revoking") /\ UNCHANGED <<name, sentVars>>
  /\ UNCHANGED <<userVars, inviteVars, lock, sessions, readVars, pastVars>>

\* The UPDATE is by id, too
RevokeInvitation(c) ==
  /\ pc[c] = "revoking"
  /\ revoked' = revoked \cup {name[c]}
  /\ Answer(c)
  /\ UNCHANGED <<userVars, grant, accepted, lock, sessions, readVars, pastVars>>

-----------------------------------------------------------------------------
FormStep(s) ==
  \/ \E n \in Names : OpenForm(s, n) \/ Authenticate(s, n)
  \/ TakeLock(s) \/ CountUsers(s) \/ InsertAdmin(s)

VisitorStep(v) == CheckUser(v) \/ InsertSession(v) \/ EndSession(v)

SignInStep(t) ==
  \/ \E n \in Names : Callback(t, n)
  \/ FindIdentity(t) \/ PromoteConfigured(t) \/ RequireInvitation(t)
  \/ ReadExisting(t) \/ Provision(t)

CommandStep(c) ==
  \/ \E v \in Visitors, kind \in Kinds, role \in Roles, n \in Names : Send(c, v, kind, role, n)
  \/ CreateUser(c) \/ PromoteUser(c) \/ DisableUser(c) \/ DeleteSessions(c)
  \/ ReadInvitation(c) \/ UpdateInvitation(c) \/ InsertInvitation(c)
  \/ ReadRevoked(c) \/ RevokeInvitation(c)

Next ==
  \/ \E s \in Forms : FormStep(s)
  \/ \E v \in Visitors : VisitorStep(v)
  \/ \E t \in SignIns : SignInStep(t)
  \/ \E c \in Commands : CommandStep(c)

Spec == Init /\ [][Next]_vars

-----------------------------------------------------------------------------
(* Properties                                                              *)

\* Forms sent at the same time while there is no user, and callbacks in
\* between, insert one initial admin (createFirstRunAdmin)
FoundedOnce == \A s, t \in founders : s = t

\* Once there is a user there is an admin who can log in, whoever set the
\* server up and whatever admins do to each other, unless an admin was
\* disabled between the check of another such command and its UPDATE
\* (disableAdminUser)
AdminRemains ==
  HasUsers /\ ~crossed => \E n \in Names \ disabled : user[n] = "admin"

\* An invitation and the account made from it agree, unless an admin changed
\* the invitation while it was being accepted: it is accepted, not revoked,
\* and its user is what it says (createMicrosoftInvitation,
\* revokeMicrosoftInvitation, findOrCreateMicrosoftUser)
AccountsMatchInvitations ==
  \A n \in joined \ contested :
    n \in accepted \ revoked /\ (grant[n] = "admin" => user[n] = "admin")

\* A user who is disabled has no session left when the command is through,
\* except from a login that had passed its last check (disableAdminUser,
\* createSessionForUser)
DisabledAreLoggedOut ==
  \A v \in sessions \ overlapped :
    name[v] \in disabled => \E c \in Commands : pc[c] = "deleting" /\ name[c] = name[v]

\* Nobody gets an account through Microsoft alone: whoever is linked to an
\* identity had an invitation, or is a configured admin, although the first
\* callbacks need no invitation and other users may appear while they run
\* (completeMicrosoftCallback, findOrCreateMicrosoftUser)
OnlyInvitedSignIn == linked \subseteq joined \cup Configured

\* The first account is an admin's: somebody filled in the first-run form or a
\* configured admin signed in, whatever the callbacks and commands after them
AccountsAreRooted ==
  HasUsers => founders # {} \/ \E n \in Configured : user[n] = "admin"
=============================================================================
