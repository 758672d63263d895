--------------------------- MODULE AccountsProofs ---------------------------
(***************************************************************************)
(* Theorems about Accounts, for any numbers of users and requests.  Six    *)
(* arguments over the types: the forms of the first run exclude each other *)
(* (Founding), an admin is left (Ruled), invitations and accounts agree    *)
(* (Invited), disabled users are logged out (LoggedOut), who signs in was  *)
(* invited or configured (Cleared), and so was who came first              *)
(* (AccountsAreRooted).  They share that users only ever gain: a row       *)
(* stays, and so does isAdmin.                                             *)
(***************************************************************************)
EXTENDS Accounts, TLAPS

USE DEF sentVars, userVars, inviteVars, readVars, pastVars, vars, Visitors, Requests, Exists,
        Active, Goto, Leave, Answer, Roles, Kinds, Steps

\* A request under way has a user; a session belongs to a login that is over
Named ==
  /\ \A r \in Requests : pc[r] \notin {"idle", "done"} => name[r] \in Names
  /\ \A v \in sessions : pc[v] = "done" /\ name[v] \in Names
  /\ \A c \in Commands : pc[c] \notin {"idle", "done"} => by[c] \in Names /\ user[by[c]] = "admin"
  /\ \A c \in Commands : pc[c] = "disable" => Exists(name[c]) /\ by[c] # name[c]
  /\ \A c \in Commands : pc[c] \in {"updating", "revoking"} => grant[name[c]] # "none"

\* What a callback has read of the users still tells of them
Remembered ==
  \A t \in SignIns :
    /\ pc[t] \in {"callback", "invitation", "existing", "provision"} =>
         IF hadUsers[t] THEN HasUsers ELSE name[t] \in Configured
    /\ pc[t] = "provision" /\ old[t] # "none" => Exists(name[t])

\* One form at a time is in its transaction, and none has counted no users
\* once there is a founder
Founding ==
  /\ FoundedOnce
  /\ founders # {} => HasUsers
  /\ \A s \in Forms : pc[s] \in {"locked", "counted"} => lock = s
  /\ \A s \in Forms : pc[s] = "counted" => founders = {}

\* An admin who was disabled has no command to disable another, or crossed
Ruled ==
  /\ AdminRemains
  /\ \A c \in Commands : pc[c] = "disable" /\ by[c] \in disabled => crossed

\* A command that read an invitation before it was accepted contests it
Invited ==
  /\ AccountsMatchInvitations
  /\ \A c \in Commands : pc[c] \in {"updating", "revoking"} /\ name[c] \in accepted
       => name[c] \in contested

\* A disabled user is minted a session by an overlapped login only
LoggedOut ==
  /\ DisabledAreLoggedOut
  /\ \A v \in Visitors : pc[v] = "minting" /\ name[v] \in disabled => v \in overlapped

\* A callback that has passed the invitation holds one or is a configured admin's
Cleared ==
  /\ OnlyInvitedSignIn
  /\ \A t \in SignIns : pc[t] \in {"existing", "provision"} =>
       held[t] # "none" \/ name[t] \in Configured
  /\ \A t \in SignIns : pc[t] = "promoting" => name[t] \in Configured

Base == TypeOK /\ Named /\ Remembered
IInv == Base /\ Founding /\ Ruled /\ Invited /\ LoggedOut /\ Cleared /\ AccountsAreRooted

LEMMA AccountsInit == Init => IInv
<1> SUFFICES ASSUME Init PROVE IInv
  OBVIOUS
<1> USE AccountsAssumption DEF Init
<1>1. TypeOK
  BY DEF TypeOK
<1>2. Named /\ Remembered
  BY DEF Named, Remembered
<1>3. Founding /\ Ruled
  BY DEF Founding, FoundedOnce, Ruled, AdminRemains, HasUsers
<1>4. Invited /\ LoggedOut
  BY DEF Invited, AccountsMatchInvitations, LoggedOut, DisabledAreLoggedOut
<1>5. Cleared /\ AccountsAreRooted
  BY DEF Cleared, OnlyInvitedSignIn, AccountsAreRooted, HasUsers
<1> QED
  BY <1>1, <1>2, <1>3, <1>4, <1>5 DEF IInv, Base

\* Users only gain: rows stay, and so does isAdmin
Gain ==
  /\ \A n \in Names : user[n] # "none" => user'[n] # "none"
  /\ \A n \in Names : user[n] = "admin" => user'[n] = "admin"
  /\ HasUsers => HasUsers'

\* ... which is what every step leaves true, for those that write users
LEMMA GainStep == ASSUME Base, Next PROVE Gain
<1> USE AccountsAssumption DEF Base, TypeOK, Gain, HasUsers
<1>1. ASSUME NEW s \in Forms, FormStep(s) PROVE Gain
  BY <1>1 DEF FormStep, OpenForm, Authenticate, TakeLock, CountUsers, InsertAdmin
<1>2. ASSUME NEW v \in Visitors, VisitorStep(v) PROVE Gain
  BY <1>2 DEF VisitorStep, CheckUser, InsertSession, EndSession
<1>3. ASSUME NEW t \in SignIns, SignInStep(t) PROVE Gain
  <2>1. CASE \E n \in Names : Callback(t, n)
    BY <2>1 DEF Callback
  <2>2. CASE FindIdentity(t) \/ RequireInvitation(t) \/ ReadExisting(t)
    BY <2>2 DEF FindIdentity, RequireInvitation, ReadExisting
  <2>3. CASE PromoteConfigured(t)
    BY <2>3 DEF PromoteConfigured
  <2>4. CASE Provision(t)
    <3>1. CASE Refused(t)
      BY <2>4, <3>1 DEF Provision
    <3>2. CASE ~Refused(t)
      <4>1. name[t] \in Names
        BY <2>4 DEF Provision, Named
      <4> QED
        BY <2>4, <3>2, <4>1 DEF Provision, Provisioned, RoleOf, Refused
    <3> QED
      BY <3>1, <3>2
  <2> QED
    BY <1>3, <2>1, <2>2, <2>3, <2>4 DEF SignInStep
<1>4. ASSUME NEW c \in Commands, CommandStep(c) PROVE Gain
  <2>1. CASE \E v \in Visitors, kind \in Kinds, role \in Roles, n \in Names :
               Send(c, v, kind, role, n)
    BY <2>1 DEF Send
  <2>2. CASE CreateUser(c)
    BY <2>2 DEF CreateUser
  <2>3. CASE PromoteUser(c)
    BY <2>3 DEF PromoteUser
  <2>4. CASE DisableUser(c) \/ DeleteSessions(c)
    BY <2>4 DEF DisableUser, DeleteSessions
  <2>5. CASE ReadInvitation(c) \/ UpdateInvitation(c) \/ InsertInvitation(c)
    BY <2>5 DEF ReadInvitation, UpdateInvitation, InsertInvitation
  <2>6. CASE ReadRevoked(c) \/ RevokeInvitation(c)
    BY <2>6 DEF ReadRevoked, RevokeInvitation
  <2> QED
    BY <1>4, <2>1, <2>2, <2>3, <2>4, <2>5, <2>6 DEF CommandStep
<1> QED
  BY <1>1, <1>2, <1>3, <1>4 DEF Next

LEMMA BaseForm == ASSUME Base, Gain, NEW s \in Forms, FormStep(s) PROVE Base'
<1> USE AccountsAssumption DEF Base, TypeOK, Gain
<1>1. ASSUME NEW n \in Names, OpenForm(s, n) PROVE Base'
  BY <1>1 DEF OpenForm, Named, Remembered, HasUsers
<1>2. CASE TakeLock(s)
  BY <1>2 DEF TakeLock, Named, Remembered, HasUsers
<1>3. CASE CountUsers(s)
  BY <1>3 DEF CountUsers, Named, Remembered, HasUsers
<1>4. CASE InsertAdmin(s)
  <2>1. name[s] \in Names
    BY <1>4 DEF InsertAdmin, Named
  <2>2. TypeOK'
    BY <1>4, <2>1 DEF InsertAdmin
  <2>3. Named'
    BY <1>4, <2>1, <2>2 DEF InsertAdmin, Named
  <2>4. Remembered'
    BY <1>4, <2>1, <2>2 DEF InsertAdmin, Remembered, Named
  <2> QED
    BY <2>2, <2>3, <2>4
<1>5. ASSUME NEW n \in Names, Authenticate(s, n) PROVE Base'
  BY <1>5 DEF Authenticate, Named, Remembered, HasUsers
<1> QED
  BY <1>1, <1>2, <1>3, <1>4, <1>5 DEF FormStep

LEMMA BaseVisitor == ASSUME Base, Gain, NEW v \in Visitors, VisitorStep(v) PROVE Base'
<1> USE AccountsAssumption DEF Base, TypeOK, Gain
<1>2. CASE CheckUser(v)
  BY <1>2 DEF CheckUser, Named, Remembered, HasUsers
<1>3. CASE InsertSession(v)
  BY <1>3 DEF InsertSession, Named, Remembered, HasUsers
<1>4. CASE EndSession(v)
  BY <1>4 DEF EndSession, Named, Remembered, HasUsers
<1> QED
  BY <1>2, <1>3, <1>4 DEF VisitorStep

\* What a callback has read is forgotten when it returns
LEMMA Returned ==
  ASSUME TypeOK, NEW t \in SignIns, NEW step \in Steps, Return(t, step)
  PROVE  /\ pc' \in [Requests -> Steps]
         /\ hadUsers' \in [SignIns -> BOOLEAN]
         /\ held' \in [SignIns -> {"none"} \cup Roles]
         /\ old' \in [SignIns -> {"none"} \cup Roles]
         /\ \A r \in Requests \ {t} : pc'[r] = pc[r]
         /\ pc'[t] = step
         /\ \A u \in SignIns \ {t} : hadUsers'[u] = hadUsers[u] /\ old'[u] = old[u]
BY DEF TypeOK, Return

LEMMA BaseSignIn == ASSUME Base, Gain, NEW t \in SignIns, SignInStep(t) PROVE Base'
<1> USE AccountsAssumption DEF Base, TypeOK, Gain
<1>1. ASSUME NEW n \in Names, Callback(t, n) PROVE Base'
  BY <1>1 DEF Callback, Named, Remembered, HasUsers
<1>2. CASE FindIdentity(t)
  <2>1. TypeOK'
    BY <1>2, Returned DEF FindIdentity
  <2>2. Named' /\ Remembered'
    BY <1>2, Returned DEF FindIdentity, Named, Remembered, HasUsers
  <2> QED
    BY <2>1, <2>2
<1>3. CASE PromoteConfigured(t)
  BY <1>3 DEF PromoteConfigured, Named, Remembered
<1>4. CASE RequireInvitation(t)
  <2>1. TypeOK'
    <3>1. name[t] \in Names
      BY <1>4 DEF RequireInvitation, Named
    <3>2. CASE Return(t, "done")
      BY <1>4, <3>2, Returned DEF RequireInvitation
    <3>3. CASE ~Return(t, "done")
      BY <1>4, <3>1, <3>3 DEF RequireInvitation
    <3> QED
      BY <3>2, <3>3
  <2>2. Named' /\ Remembered'
    BY <1>4, Returned DEF RequireInvitation, Named, Remembered, HasUsers
  <2> QED
    BY <2>1, <2>2
<1>5. CASE ReadExisting(t)
  BY <1>5 DEF ReadExisting, Named, Remembered, HasUsers
<1>6. CASE Provision(t) /\ Refused(t)
  <2>1. TypeOK'
    BY <1>6, Returned DEF Provision
  <2>2. Named' /\ Remembered'
    BY <1>6, Returned DEF Provision, Named, Remembered, HasUsers
  <2> QED
    BY <2>1, <2>2
<1>7. CASE Provision(t) /\ ~Refused(t)
  <2>1. name[t] \in Names /\ pc[t] = "provision"
    BY <1>7 DEF Provision, Named
  <2>2. user' \in [Names -> {"none"} \cup Roles] /\ user'[name[t]] # "none"
    BY <1>7, <2>1 DEF Provision, Provisioned, RoleOf, Remembered
  <2>3. TypeOK'
    <3>1. Return(t, "authenticated")
      BY <1>7 DEF Provision
    <3>2. accepted' \subseteq joined' /\ joined' \subseteq linked' /\ contested' \subseteq Names
      BY <1>7, <2>1 DEF Provision, MarkAccepted
    <3>3. accepted' \cup revoked' \subseteq {n \in Names : grant'[n] # "none"}
      BY <1>7, <2>1 DEF Provision, MarkAccepted
    <3>4. disabled' \cup linked' \subseteq {n \in Names : user'[n] # "none"}
      BY <1>7, <2>1, <2>2 DEF Provision
    <3> QED
      BY <1>7, <2>2, <3>1, <3>2, <3>3, <3>4, Returned DEF Provision
  <2>4. Named'
    BY <1>7, <2>1, <2>2, Returned DEF Provision, Named
  <2>5. Remembered'
    BY <1>7, <2>1, <2>2, Returned DEF Provision, Remembered, Named
  <2> QED
    BY <2>3, <2>4, <2>5
<1> QED
  BY <1>1, <1>2, <1>3, <1>4, <1>5, <1>6, <1>7 DEF SignInStep

LEMMA BaseCommand == ASSUME Base, Gain, NEW c \in Commands, CommandStep(c) PROVE Base'
<1> USE AccountsAssumption DEF Base, TypeOK, Gain
<1>1. ASSUME NEW v \in Visitors, NEW kind \in Kinds, NEW role \in Roles, NEW n \in Names,
             Send(c, v, kind, role, n)
      PROVE  Base'
  <2>1. name[v] \in Names
    BY <1>1 DEF Send, Named
  <2>2. TypeOK'
    BY <1>1, <2>1 DEF Send
  <2>3. Named' /\ Remembered'
    BY <1>1, <2>1 DEF Send, MaySend, Named, Remembered, HasUsers
  <2> QED
    BY <2>2, <2>3
<1>2. CASE CreateUser(c)
  BY <1>2 DEF CreateUser, Named, Remembered
<1>3. CASE PromoteUser(c)
  BY <1>3 DEF PromoteUser, Named, Remembered
<1>4. CASE DisableUser(c)
  BY <1>4 DEF DisableUser, Named, Remembered, HasUsers
<1>5. CASE DeleteSessions(c)
  BY <1>5 DEF DeleteSessions, Named, Remembered, HasUsers
<1>6. CASE ReadInvitation(c)
  BY <1>6 DEF ReadInvitation, Named, Remembered, HasUsers
<1>7. CASE UpdateInvitation(c)
  BY <1>7 DEF UpdateInvitation, Named, Remembered, HasUsers
<1>8. CASE InsertInvitation(c)
  BY <1>8 DEF InsertInvitation, Named, Remembered, HasUsers
<1>9. CASE ReadRevoked(c)
  BY <1>9 DEF ReadRevoked, Named, Remembered, HasUsers
<1>10. CASE RevokeInvitation(c)
  BY <1>10 DEF RevokeInvitation, Named, Remembered, HasUsers
<1> QED
  BY <1>1, <1>2, <1>3, <1>4, <1>5, <1>6, <1>7, <1>8, <1>9, <1>10 DEF CommandStep

LEMMA BaseStep == ASSUME Base, Next PROVE Base'
<1>1. Gain
  BY GainStep
<1> QED
  BY <1>1, BaseForm, BaseVisitor, BaseSignIn, BaseCommand DEF Next

-----------------------------------------------------------------------------
(* The six arguments, a step at a time                                     *)

LEMMA FoundingStep == ASSUME Base, Founding, Gain, Next PROVE Founding'
<1> USE AccountsAssumption DEF Base, TypeOK, Founding, FoundedOnce, Gain
<1>1. ASSUME NEW s \in Forms, FormStep(s) PROVE Founding'
  <2>1. ASSUME NEW n \in Names, OpenForm(s, n) PROVE Founding'
    BY <2>1 DEF OpenForm
  <2>2. CASE TakeLock(s)
    BY <2>2 DEF TakeLock
  <2>3. CASE CountUsers(s)
    BY <2>3 DEF CountUsers
  <2>4. CASE InsertAdmin(s)
    <3>1. \A t \in Forms : pc[t] \in {"locked", "counted"} => t = s
      BY <2>4 DEF InsertAdmin
    <3>2. CASE Exists(name[s])
      BY <2>4, <3>1, <3>2 DEF InsertAdmin
    <3>3. CASE ~Exists(name[s])
      <4>1. founders = {} /\ founders' = {s}
        BY <2>4, <3>3 DEF InsertAdmin
      <4>2. HasUsers'
        BY <2>4, <3>3 DEF InsertAdmin, HasUsers, Named
      <4>3. \A t \in Forms : pc'[t] \notin {"locked", "counted"}
        BY <2>4, <3>1, <3>3 DEF InsertAdmin
      <4> QED
        BY <4>1, <4>2, <4>3
    <3> QED
      BY <3>2, <3>3
  <2>5. ASSUME NEW n \in Names, Authenticate(s, n) PROVE Founding'
    BY <2>5 DEF Authenticate
  <2> QED
    BY <1>1, <2>1, <2>2, <2>3, <2>4, <2>5 DEF FormStep
<1>2. ASSUME NEW v \in Visitors, VisitorStep(v) PROVE Founding'
  BY <1>2 DEF VisitorStep, CheckUser, InsertSession, EndSession
<1>3. ASSUME NEW t \in SignIns, SignInStep(t) PROVE Founding'
  BY <1>3 DEF SignInStep, Return, Callback, FindIdentity, PromoteConfigured, RequireInvitation,
              ReadExisting, Provision
<1>4. ASSUME NEW c \in Commands, CommandStep(c) PROVE Founding'
  BY <1>4 DEF CommandStep, Send, CreateUser, PromoteUser, DisableUser, DeleteSessions,
              ReadInvitation, UpdateInvitation, InsertInvitation, ReadRevoked, RevokeInvitation
<1> QED
  BY <1>1, <1>2, <1>3, <1>4 DEF Next

\* A step that disables nobody keeps the server ruled when users have come
\* from an admin, or an admin is the first
LEMMA StaysRuled ==
  ASSUME Base, Ruled, Gain, disabled' = disabled, crossed' = crossed,
         \A c \in Commands : pc'[c] = "disable" =>
           \/ by'[c] \notin disabled
           \/ pc[c] = "disable" /\ by'[c] = by[c],
         HasUsers' => HasUsers \/ \E n \in Names : user'[n] = "admin"
  PROVE  Ruled'
BY DEF Base, TypeOK, Ruled, AdminRemains, Gain, HasUsers

LEMMA RuledStep == ASSUME Base, Ruled, Gain, Next PROVE Ruled'
<1> USE AccountsAssumption DEF Base, TypeOK, Gain
<1>1. ASSUME NEW s \in Forms, FormStep(s) PROVE Ruled'
  <2>1. CASE InsertAdmin(s)
    <3>1. HasUsers' => HasUsers \/ \E n \in Names : user'[n] = "admin"
      BY <2>1 DEF InsertAdmin, Named, HasUsers
    <3> QED
      BY <2>1, <3>1, StaysRuled DEF InsertAdmin
  <2>2. ASSUME NEW n \in Names, OpenForm(s, n) \/ Authenticate(s, n) PROVE Ruled'
    BY <2>2, StaysRuled DEF OpenForm, Authenticate, HasUsers
  <2>3. CASE TakeLock(s) \/ CountUsers(s)
    BY <2>3, StaysRuled DEF TakeLock, CountUsers, HasUsers
  <2> QED
    BY <1>1, <2>1, <2>2, <2>3 DEF FormStep
<1>2. ASSUME NEW v \in Visitors, VisitorStep(v) PROVE Ruled'
  BY <1>2, StaysRuled DEF VisitorStep, CheckUser, InsertSession, EndSession, HasUsers
<1>3. ASSUME NEW t \in SignIns, SignInStep(t) PROVE Ruled'
  <2>1. CASE Provision(t)
    <3>1. pc[t] = "provision" /\ name[t] \in Names
      BY <2>1 DEF Return, Provision, Named
    <3>2. ASSUME ~HasUsers, HasUsers' PROVE user'[name[t]] = "admin"
      <4>1. name[t] \in Configured
        BY <3>1, <3>2 DEF Remembered
      <4>2. old[t] = "none" \/ RoleOf(t) = "admin"
        BY <4>1 DEF RoleOf
      <4>3. ~Refused(t)
        BY <2>1, <3>2 DEF Return, Provision, HasUsers
      <4> QED
        BY <2>1, <3>1, <4>1, <4>2, <4>3 DEF Return, Provision, Provisioned, RoleOf
    <3>3. HasUsers' => HasUsers \/ \E n \in Names : user'[n] = "admin"
      BY <3>1, <3>2
    <3> QED
      BY <2>1, <3>3, StaysRuled DEF Return, Provision
  <2>2. CASE PromoteConfigured(t)
    BY <2>2, StaysRuled DEF PromoteConfigured, Named, HasUsers
  <2>3. ASSUME NEW n \in Names, Callback(t, n) PROVE Ruled'
    BY <2>3, StaysRuled DEF Callback, HasUsers
  <2>4. CASE FindIdentity(t) \/ RequireInvitation(t) \/ ReadExisting(t)
    BY <2>4, StaysRuled DEF Return, FindIdentity, RequireInvitation, ReadExisting, HasUsers
  <2> QED
    BY <1>3, <2>1, <2>2, <2>3, <2>4 DEF SignInStep
<1>4. ASSUME NEW c \in Commands, CommandStep(c) PROVE Ruled'
  <2>1. pc[c] \notin {"idle", "done"} => HasUsers
    BY DEF Named, HasUsers
  <2>2. ASSUME NEW v \in Visitors, NEW kind \in Kinds, NEW role \in Roles, NEW n \in Names,
               Send(c, v, kind, role, n)
        PROVE  Ruled'
    BY <2>2, StaysRuled DEF Send, HasUsers
  <2>3. CASE CreateUser(c) \/ PromoteUser(c)
    BY <2>1, <2>3, StaysRuled DEF CreateUser, PromoteUser
  <2>4. CASE DisableUser(c)
    <3>1. by[c] \in Names /\ user[by[c]] = "admin" /\ by[c] # name[c] /\ name[c] \in Names
      BY <2>4 DEF DisableUser, Named
    <3>2. ~crossed' => by[c] \in Names \ disabled'
      BY <2>4, <3>1 DEF DisableUser, Ruled
    <3>3. AdminRemains'
      BY <2>4, <3>1, <3>2 DEF DisableUser, AdminRemains
    <3>4. ASSUME NEW d \in Commands, pc'[d] = "disable", by'[d] \in disabled' PROVE crossed'
      <4>1. d # c /\ pc[d] = "disable" /\ by[d] = by'[d]
        BY <2>4, <3>4 DEF DisableUser
      <4> QED
        BY <2>4, <3>4, <4>1 DEF DisableUser, Ruled
    <3> QED
      BY <3>3, <3>4 DEF Ruled
  <2>5. CASE DeleteSessions(c)
    BY <2>5, StaysRuled DEF DeleteSessions, HasUsers
  <2>6. CASE ReadInvitation(c) \/ UpdateInvitation(c) \/ InsertInvitation(c)
    BY <2>6, StaysRuled DEF ReadInvitation, UpdateInvitation, InsertInvitation, HasUsers
  <2>7. CASE ReadRevoked(c) \/ RevokeInvitation(c)
    BY <2>7, StaysRuled DEF ReadRevoked, RevokeInvitation, HasUsers
  <2> QED
    BY <1>4, <2>2, <2>3, <2>4, <2>5, <2>6, <2>7 DEF CommandStep
<1> QED
  BY <1>1, <1>2, <1>3, <1>4 DEF Next

\* A step that leaves the invitations and the identities alone
LEMMA StaysInvited ==
  ASSUME Base, Invited, Gain, UNCHANGED <<inviteVars, linked, joined, contested>>,
         \A c \in Commands : pc'[c] \in {"updating", "revoking"} =>
           name'[c] \notin accepted \/ (pc'[c] = pc[c] /\ name'[c] = name[c])
  PROVE  Invited'
BY DEF Base, TypeOK, Invited, AccountsMatchInvitations, Gain

LEMMA InvitedStep == ASSUME Base, Invited, Gain, Next PROVE Invited'
<1> USE AccountsAssumption DEF Base, TypeOK
<1>1. ASSUME NEW s \in Forms, FormStep(s) PROVE Invited'
  BY <1>1, StaysInvited DEF FormStep, OpenForm, Authenticate, TakeLock, CountUsers, InsertAdmin
<1>2. ASSUME NEW v \in Visitors, VisitorStep(v) PROVE Invited'
  BY <1>2, StaysInvited DEF VisitorStep, CheckUser, InsertSession, EndSession
<1>3. ASSUME NEW t \in SignIns, SignInStep(t) PROVE Invited'
  <2>1. ASSUME NEW n \in Names, Callback(t, n) PROVE Invited'
    BY <2>1, StaysInvited DEF Callback
  <2>2. CASE FindIdentity(t) \/ PromoteConfigured(t) \/ RequireInvitation(t) \/ ReadExisting(t)
    BY <2>2, StaysInvited DEF Return, FindIdentity, PromoteConfigured, RequireInvitation, ReadExisting
  <2>3. CASE Provision(t) /\ Refused(t)
    BY <2>3, StaysInvited DEF Return, Provision
  <2>4. CASE Provision(t) /\ ~Refused(t)
    <3>1. pc[t] = "provision" /\ name[t] \in Names /\ name[t] \notin linked
      BY <2>4 DEF Return, Provision, Refused, Named
    <3>2. ASSUME NEW n \in joined' \ contested'
          PROVE  n \in accepted' \ revoked' /\ (grant'[n] = "admin" => user'[n] = "admin")
      <4>1. CASE n # name[t]
        BY <2>4, <3>2, <4>1 DEF Return, Provision, MarkAccepted, Invited, AccountsMatchInvitations, Gain
      <4>2. CASE n = name[t]
        <5>1. held[t] # "none" /\ ~Contested(t)
          BY <2>4, <3>1, <3>2, <4>2 DEF Return, Provision
        <5>2. Active(n) /\ grant[n] = held[t]
          BY <4>2, <5>1 DEF Contested
        <5>3. n \in accepted' \ revoked'
          BY <2>4, <4>2, <5>1, <5>2 DEF Return, Provision, MarkAccepted
        <5>4. held[t] = "admin" => user'[n] = "admin"
          BY <2>4, <3>1, <4>2 DEF Return, Provision, Provisioned, RoleOf
        <5> QED
          BY <2>4, <5>2, <5>3, <5>4 DEF Return, Provision
      <4> QED
        BY <4>1, <4>2
    <3>3. ASSUME NEW c \in Commands, pc'[c] \in {"updating", "revoking"}, name'[c] \in accepted'
          PROVE  name'[c] \in contested'
      <4>1. pc[c] = pc'[c] /\ name'[c] = name[c]
        BY <2>4, <3>1 DEF Return, Provision
      <4>2. CASE name[c] \in accepted
        BY <2>4, <3>3, <4>1, <4>2 DEF Return, Provision, Invited
      <4>3. CASE name[c] \notin accepted
        <5>1. held[t] # "none" /\ name[c] = name[t]
          BY <2>4, <3>3, <4>1, <4>3 DEF Return, Provision, MarkAccepted
        <5>2. Contested(t)
          BY <3>3, <4>1, <5>1 DEF Contested
        <5> QED
          BY <2>4, <4>1, <5>1, <5>2 DEF Return, Provision
      <4> QED
        BY <4>2, <4>3
    <3> QED
      BY <3>2, <3>3 DEF Invited, AccountsMatchInvitations
  <2> QED
    BY <1>3, <2>1, <2>2, <2>3, <2>4 DEF SignInStep
<1>4. ASSUME NEW c \in Commands, CommandStep(c) PROVE Invited'
  <2>1. ASSUME NEW v \in Visitors, NEW kind \in Kinds, NEW role \in Roles, NEW n \in Names,
               Send(c, v, kind, role, n)
        PROVE  Invited'
    BY <2>1, StaysInvited DEF Send
  <2>2. CASE CreateUser(c) \/ PromoteUser(c)
    BY <2>2, StaysInvited DEF CreateUser, PromoteUser
  <2>3. CASE DisableUser(c) \/ DeleteSessions(c)
    BY <2>3, StaysInvited DEF DisableUser, DeleteSessions
  <2>4. CASE ReadInvitation(c) \/ ReadRevoked(c)
    BY <2>4, StaysInvited DEF ReadInvitation, ReadRevoked
  <2>5. CASE UpdateInvitation(c) \/ RevokeInvitation(c)
    <3>1. name[c] \in joined => name[c] \in contested
      BY <2>5 DEF UpdateInvitation, RevokeInvitation, Invited, AccountsMatchInvitations
    <3> QED
      BY <2>5, <3>1 DEF UpdateInvitation, RevokeInvitation, Invited, AccountsMatchInvitations
  <2>6. CASE InsertInvitation(c)
    BY <2>6 DEF InsertInvitation, Invited, AccountsMatchInvitations
  <2> QED
    BY <1>4, <2>1, <2>2, <2>3, <2>4, <2>5, <2>6 DEF CommandStep
<1> QED
  BY <1>1, <1>2, <1>3, <1>4 DEF Next

\* A step that disables nobody and deletes no sessions
LEMMA StaysLoggedOut ==
  ASSUME Base, LoggedOut, UNCHANGED <<disabled, overlapped>>,
         \A v \in sessions' : v \in Visitors /\ name'[v] = name[v],
         \A v \in sessions' : v \in sessions \/ pc[v] = "minting",
         \A c \in Commands : pc[c] = "deleting" => pc'[c] = "deleting" /\ name'[c] = name[c],
         \A v \in Visitors : pc'[v] = "minting" =>
           name'[v] \notin disabled \/ (pc[v] = "minting" /\ name'[v] = name[v])
  PROVE  LoggedOut'
BY DEF Base, TypeOK, LoggedOut, DisabledAreLoggedOut

LEMMA LoggedOutStep == ASSUME Base, LoggedOut, Next PROVE LoggedOut'
<1> USE AccountsAssumption DEF Base, TypeOK
<1>1. ASSUME NEW s \in Forms, FormStep(s) PROVE LoggedOut'
  BY <1>1, StaysLoggedOut DEF FormStep, OpenForm, Authenticate, TakeLock, CountUsers, InsertAdmin,
                              Named
<1>2. ASSUME NEW v \in Visitors, VisitorStep(v) PROVE LoggedOut'
  <2>2. CASE CheckUser(v)
    BY <2>2, StaysLoggedOut DEF CheckUser, Named
  <2>3. CASE InsertSession(v) \/ EndSession(v)
    BY <2>3, StaysLoggedOut DEF InsertSession, EndSession
  <2> QED
    BY <1>2, <2>2, <2>3 DEF VisitorStep
<1>3. ASSUME NEW t \in SignIns, SignInStep(t) PROVE LoggedOut'
  <2>1. ASSUME NEW n \in Names, Callback(t, n) PROVE LoggedOut'
    BY <2>1, StaysLoggedOut DEF Callback, Named
  <2>2. CASE FindIdentity(t) \/ PromoteConfigured(t) \/ RequireInvitation(t) \/ ReadExisting(t)
    BY <2>2, StaysLoggedOut DEF Return, FindIdentity, PromoteConfigured, RequireInvitation, ReadExisting
  <2>3. CASE Provision(t)
    BY <2>3, StaysLoggedOut DEF Return, Provision
  <2> QED
    BY <1>3, <2>1, <2>2, <2>3 DEF SignInStep
<1>4. ASSUME NEW c \in Commands, CommandStep(c) PROVE LoggedOut'
  <2>1. ASSUME NEW v \in Visitors, NEW kind \in Kinds, NEW role \in Roles, NEW n \in Names,
               Send(c, v, kind, role, n)
        PROVE  LoggedOut'
    BY <2>1, StaysLoggedOut DEF Send
  <2>2. CASE CreateUser(c) \/ PromoteUser(c)
    BY <2>2, StaysLoggedOut DEF CreateUser, PromoteUser
  <2>3. CASE DisableUser(c)
    <3>1. ASSUME NEW v \in sessions' \ overlapped', name'[v] \in disabled'
          PROVE  \E d \in Commands : pc'[d] = "deleting" /\ name'[d] = name'[v]
      BY <2>3, <3>1 DEF DisableUser, LoggedOut, DisabledAreLoggedOut
    <3>2. \A v \in Visitors : pc'[v] = "minting" /\ name'[v] \in disabled' => v \in overlapped'
      BY <2>3 DEF DisableUser, LoggedOut
    <3> QED
      BY <3>1, <3>2 DEF LoggedOut, DisabledAreLoggedOut
  <2>4. CASE DeleteSessions(c)
    BY <2>4 DEF DeleteSessions, LoggedOut, DisabledAreLoggedOut
  <2>5. CASE ReadInvitation(c) \/ UpdateInvitation(c) \/ InsertInvitation(c)
    BY <2>5, StaysLoggedOut DEF ReadInvitation, UpdateInvitation, InsertInvitation
  <2>6. CASE ReadRevoked(c) \/ RevokeInvitation(c)
    BY <2>6, StaysLoggedOut DEF ReadRevoked, RevokeInvitation
  <2> QED
    BY <1>4, <2>1, <2>2, <2>3, <2>4, <2>5, <2>6 DEF CommandStep
<1> QED
  BY <1>1, <1>2, <1>3, <1>4 DEF Next

LEMMA ClearedStep == ASSUME Base, Cleared, Next PROVE Cleared'
<1> USE AccountsAssumption DEF Base, TypeOK, Cleared, OnlyInvitedSignIn
<1>1. ASSUME NEW s \in Forms, FormStep(s) PROVE Cleared'
  BY <1>1 DEF FormStep, OpenForm, Authenticate, TakeLock, CountUsers, InsertAdmin
<1>2. ASSUME NEW v \in Visitors, VisitorStep(v) PROVE Cleared'
  BY <1>2 DEF VisitorStep, CheckUser, InsertSession, EndSession, Named
<1>3. ASSUME NEW t \in SignIns, SignInStep(t) PROVE Cleared'
  <2>1. ASSUME NEW n \in Names, Callback(t, n) PROVE Cleared'
    BY <2>1 DEF Callback
  <2>2. CASE FindIdentity(t) \/ PromoteConfigured(t) \/ ReadExisting(t)
    BY <2>2 DEF Return, FindIdentity, PromoteConfigured, ReadExisting
  <2>3. CASE RequireInvitation(t)
    <3>1. pc'[t] = "existing" => held'[t] # "none" \/ name'[t] \in Configured
      BY <2>3 DEF RequireInvitation, Return, Remembered, Named
    <3>2. pc'[t] \notin {"provision", "promoting"} /\ \A u \in SignIns \ {t} : pc'[u] = pc[u] /\ held'[u] = held[u]
      BY <2>3 DEF RequireInvitation, Return
    <3>3. UNCHANGED <<linked, joined, name>>
      BY <2>3 DEF RequireInvitation
    <3> QED
      BY <3>1, <3>2, <3>3
  <2>4. CASE Provision(t)
    <3>1. pc[t] = "provision"
      BY <2>4 DEF Provision
    <3>2. linked' \subseteq joined' \cup Configured
      BY <2>4, <3>1 DEF Provision
    <3>3. \A u \in SignIns : pc'[u] \in {"existing", "provision", "promoting"} =>
            pc'[u] = pc[u] /\ held'[u] = held[u] /\ name'[u] = name[u]
      BY <2>4 DEF Provision, Return
    <3> QED
      BY <3>2, <3>3
  <2> QED
    BY <1>3, <2>1, <2>2, <2>3, <2>4 DEF SignInStep
<1>4. ASSUME NEW c \in Commands, CommandStep(c) PROVE Cleared'
  <2>1. \A t \in SignIns : pc'[t] = pc[t] /\ held'[t] = held[t] /\ name'[t] = name[t]
    BY <1>4 DEF CommandStep, Send, CreateUser, PromoteUser, DisableUser, DeleteSessions,
                ReadInvitation, UpdateInvitation, InsertInvitation, ReadRevoked, RevokeInvitation
  <2>2. UNCHANGED <<linked, joined>>
    BY <1>4 DEF CommandStep, Send, CreateUser, PromoteUser, DisableUser, DeleteSessions,
                ReadInvitation, UpdateInvitation, InsertInvitation, ReadRevoked, RevokeInvitation
  <2> QED
    BY <2>1, <2>2
<1> QED
  BY <1>1, <1>2, <1>3, <1>4 DEF Next

\* A step that makes no first user
LEMMA StaysRooted ==
  ASSUME Base, AccountsAreRooted, Gain, founders \subseteq founders', HasUsers' => HasUsers
  PROVE  AccountsAreRooted'
BY AccountsAssumption DEF Base, TypeOK, Gain, AccountsAreRooted, HasUsers

LEMMA RootedStep ==
  ASSUME Base, Cleared, AccountsAreRooted, Gain, Next PROVE AccountsAreRooted'
<1> USE AccountsAssumption DEF Base, TypeOK
<1>1. ASSUME NEW s \in Forms, FormStep(s) PROVE AccountsAreRooted'
  <2>1. CASE InsertAdmin(s)
    <3>1. CASE UNCHANGED <<user, founders>>
      BY <3>1, StaysRooted DEF HasUsers
    <3>2. CASE founders' = founders \cup {s}
      BY <3>2 DEF AccountsAreRooted
    <3> QED
      BY <2>1, <3>1, <3>2 DEF InsertAdmin
  <2>2. CASE ~InsertAdmin(s)
    BY <1>1, <2>2, StaysRooted DEF FormStep, OpenForm, Authenticate, TakeLock, CountUsers, HasUsers
  <2> QED
    BY <2>1, <2>2
<1>2. ASSUME NEW v \in Visitors, VisitorStep(v) PROVE AccountsAreRooted'
  BY <1>2, StaysRooted DEF VisitorStep, CheckUser, InsertSession, EndSession, HasUsers
<1>3. ASSUME NEW t \in SignIns, SignInStep(t) PROVE AccountsAreRooted'
  <2>1. CASE Provision(t) /\ ~HasUsers
    <3>1. pc[t] = "provision" /\ name[t] \in Configured
      BY <2>1 DEF Provision, Remembered
    <3>2. CASE Refused(t)
      BY <2>1, <3>2, StaysRooted DEF Provision, HasUsers
    <3>3. CASE ~Refused(t)
      <4>1. user'[name[t]] = "admin"
        BY <2>1, <3>1, <3>3 DEF Provision, Provisioned, RoleOf
      <4> QED
        BY <3>1, <4>1 DEF AccountsAreRooted
    <3> QED
      BY <3>2, <3>3
  <2>2. CASE PromoteConfigured(t)
    <3>1. name[t] \in Configured /\ user'[name[t]] = "admin"
      BY <2>2 DEF PromoteConfigured, Cleared
    <3> QED
      BY <3>1 DEF AccountsAreRooted
  <2>3. CASE Provision(t) /\ HasUsers
    BY <2>3, StaysRooted DEF Provision
  <2>4. CASE ~Provision(t) /\ ~PromoteConfigured(t)
    BY <1>3, <2>4, StaysRooted DEF SignInStep, Callback, FindIdentity, RequireInvitation,
                                   ReadExisting, HasUsers
  <2> QED
    BY <2>1, <2>2, <2>3, <2>4
<1>4. ASSUME NEW c \in Commands, CommandStep(c) PROVE AccountsAreRooted'
  <2>1. pc[c] \notin {"idle", "done"} => HasUsers
    BY DEF Named, HasUsers
  <2>2. CASE CreateUser(c) \/ PromoteUser(c)
    BY <2>1, <2>2, StaysRooted DEF CreateUser, PromoteUser
  <2>3. CASE ~CreateUser(c) /\ ~PromoteUser(c)
    BY <1>4, <2>3, StaysRooted DEF CommandStep, Send, DisableUser, DeleteSessions, ReadInvitation,
       UpdateInvitation, InsertInvitation, ReadRevoked, RevokeInvitation, HasUsers
  <2> QED
    BY <2>2, <2>3
<1> QED
  BY <1>1, <1>2, <1>3, <1>4 DEF Next

LEMMA AccountsStep == IInv /\ [Next]_vars => IInv'
<1> SUFFICES ASSUME IInv, [Next]_vars PROVE IInv'
  OBVIOUS
<1>1. CASE Next
  <2>1. Gain
    BY <1>1, GainStep DEF IInv
  <2> QED
    BY <1>1, <2>1, BaseStep, FoundingStep, RuledStep, InvitedStep, LoggedOutStep, ClearedStep,
       RootedStep DEF IInv
<1>2. CASE UNCHANGED vars
  BY <1>2 DEF IInv, Base, TypeOK, Named, Remembered, Founding, FoundedOnce, Ruled, AdminRemains,
              Invited, AccountsMatchInvitations, LoggedOut, DisabledAreLoggedOut, Cleared,
              OnlyInvitedSignIn, AccountsAreRooted, HasUsers
<1> QED
  BY <1>1, <1>2

LEMMA AccountsInvariant == Spec => []IInv
BY AccountsInit, AccountsStep, PTL DEF Spec

-----------------------------------------------------------------------------
\* Types, and the references between the tables: every identity, invitation
\* accepted and session belongs to a row that is there.
THEOREM AccountsTypes == Spec => []TypeOK
<1>1. IInv => TypeOK
  BY DEF IInv, Base
<1> QED
  BY <1>1, AccountsInvariant, PTL

\* However many forms of the first run are sent, and whatever Microsoft
\* callbacks do in between, one initial admin is inserted.
THEOREM OneFounder == Spec => []FoundedOnce
<1>1. IInv => FoundedOnce
  BY DEF IInv, Founding
<1> QED
  BY <1>1, AccountsInvariant, PTL

\* A server that has users has an admin who can log in, unless two disables
\* crossed.
THEOREM AdminStays == Spec => []AdminRemains
<1>1. IInv => AdminRemains
  BY DEF IInv, Ruled
<1> QED
  BY <1>1, AccountsInvariant, PTL

\* An account made from an invitation nobody contested is what it says, and
\* the invitation stays accepted.
THEOREM InvitationsHold == Spec => []AccountsMatchInvitations
<1>1. IInv => AccountsMatchInvitations
  BY DEF IInv, Invited
<1> QED
  BY <1>1, AccountsInvariant, PTL

\* When a user has been disabled, only an overlapping login keeps a session.
THEOREM DisablingLogsOut == Spec => []DisabledAreLoggedOut
<1>1. IInv => DisabledAreLoggedOut
  BY DEF IInv, LoggedOut
<1> QED
  BY <1>1, AccountsInvariant, PTL

\* Every identity is that of an invited user or of a configured admin, even
\* when the first user appears while a callback is under way.
THEOREM OnlyInvited == Spec => []OnlyInvitedSignIn
<1>1. IInv => OnlyInvitedSignIn
  BY DEF IInv, Cleared
<1> QED
  BY <1>1, AccountsInvariant, PTL

\* The accounts of a server begin with the first-run form or with a configured
\* admin.
THEOREM AccountsRooted == Spec => []AccountsAreRooted
BY AccountsInvariant, PTL DEF IInv
=============================================================================
