--------------------------- MODULE SessionTickets ---------------------------
(***************************************************************************)
(* Session tickets: the short-lived, single-use right to open one          *)
(* connection to one target.  A launch mints a ticket with a snapshot of   *)
(* the host and of its credential; a websocket upgrade presents it.  The   *)
(* consumer validates the ticket against the current rows, decrypts the    *)
(* credential, validates again and only then marks the ticket used.  Every *)
(* query is a step of its own, and host and credential are edited between  *)
(* any two of them.                                                        *)
(*                                                                         *)
(* One user, one host and one credential: rows of others are never read.   *)
(* A target stands for the fields assertTargetUnchanged compares.          *)
(***************************************************************************)
EXTENDS Integers, FiniteSets

CONSTANTS
  Tickets,     \* the launches of a websocket protocol; each mints one ticket
  Opens,       \* the websocket upgrades
  Keyed,       \* targets the host may have while it refers to the credential
  Bare,        \* the target it has while it refers to none
  Logins,      \* user names of the credential
  Gone,        \* no such row
  MaxEdits,    \* bound on edits of the host and of the credential
  MaxBoots     \* bound on process restarts

ASSUME TargetAssumption ==
  /\ Bare \notin Keyed /\ Gone \notin Keyed \cup {Bare} /\ Gone \notin Logins
  /\ Gone \notin Nat \cup Tickets /\ Keyed # {} /\ Logins # {}
ASSUME BoundAssumption == MaxEdits \in Nat /\ MaxBoots \in Nat

VARIABLES
  host,      \* the target of the host row
  secret,    \* the ciphertext of the credential row: no two are ever equal
  login,     \* its user name, which an edit may set back
  edits,     \* number of edits so far
  mint,      \* progress of each launch
  snap,      \* the snapshot each launch takes
  ticket,    \* the row of each ticket
  pc,        \* progress of each upgrade
  shown,     \* the ticket each upgrade presents
  barred,    \* upgrades by another user, for another protocol, or with a ticket
             \* that had expired when they arrived
  got,       \* the credential each upgrade decrypted
  matched,   \* what was current while the upgrade was under way (history)
  boots      \* number of restarts so far

rowVars    == <<host, secret, login, edits>>
mintVars   == <<mint, snap>>
ticketVars == <<rowVars, mintVars, ticket, pc, shown, barred, got, matched, boots>>

-----------------------------------------------------------------------------
Targets  == Keyed \cup {Bare}
Secrets  == 0 .. MaxEdits
NoCredential == [secret |-> Gone, login |-> Gone]
Credentials  == [secret : Secrets, login : Logins] \cup {NoCredential}
Snapshots    == [host : Targets, credential : Credentials]

Credential == IF secret = Gone THEN NoCredential ELSE [secret |-> secret, login |-> login]

\* The steps of SessionTicketConsumer.consume, in their order
Consuming == {"find1", "host1", "cred1", "read", "find2", "host2", "cred2", "take"}
\* The upgrade has been given the ticket; "cut" is one that a restart cut off
Accepted  == {"start", "switch", "open", "turned", "cut"}

TicketInit ==
  /\ host \in Targets /\ secret = 0 /\ login \in Logins /\ edits = 0
  /\ mint = [t \in Tickets |-> "idle"]
  /\ snap = [t \in Tickets |-> [host |-> Bare, credential |-> NoCredential]]
  /\ ticket = [t \in Tickets |-> "none"]
  /\ pc = [c \in Opens |-> "idle"]
  /\ shown = [c \in Opens |-> Gone] /\ barred = {}
  /\ got = [c \in Opens |-> NoCredential]
  /\ matched = [c \in Opens |-> {}]
  /\ boots = 0

-----------------------------------------------------------------------------
(* SessionTicketService.create                                             *)

\* The host; without a credential the snapshot is complete
MintHost(t) ==
  /\ mint[t] = "idle" /\ host # Gone
  /\ snap' = [snap EXCEPT ![t].host = host]
  /\ mint' = [mint EXCEPT ![t] = IF host = Bare THEN "insert" ELSE "credential"]
  /\ UNCHANGED <<rowVars, ticket, pc, shown, barred, got, matched, boots>>

MintCredential(t) ==
  /\ mint[t] = "credential" /\ secret # Gone
  /\ snap' = [snap EXCEPT ![t].credential = Credential]
  /\ mint' = [mint EXCEPT ![t] = "insert"]
  /\ UNCHANGED <<rowVars, ticket, pc, shown, barred, got, matched, boots>>

MintInsert(t) ==
  /\ mint[t] = "insert" /\ host # Gone
  /\ ticket' = [ticket EXCEPT ![t] = "fresh"]
  /\ mint' = [mint EXCEPT ![t] = "done"]
  /\ UNCHANGED <<rowVars, snap, pc, shown, barred, got, matched, boots>>

\* A row is missing, or a query is rejected
MintFail(t) ==
  /\ mint[t] \in {"idle", "credential", "insert"}
  /\ mint' = [mint EXCEPT ![t] = "refused"]
  /\ UNCHANGED <<rowVars, snap, ticket, pc, shown, barred, got, matched, boots>>

\* expiresAt passes
Lapse(t) ==
  /\ ticket[t] = "fresh"
  /\ ticket' = [ticket EXCEPT ![t] = "lapsed"]
  /\ UNCHANGED <<rowVars, mintVars, pc, shown, barred, got, matched, boots>>

-----------------------------------------------------------------------------
(* SessionTicketConsumer.consume                                           *)

\* Mutant of SameHost: the host only has to exist
HostExists(c) == host # Gone

SameHost(c) == host = snap[shown[c]].host

SameCredential(c) ==
  \/ snap[shown[c]].credential = NoCredential
  \/ Credential = snap[shown[c]].credential

\* What of the snapshot is current in a state with these rows (history)
Matching(t, h, cred) ==
  {"host" : x \in {h} \cap {snap[t].host}} \cup
  {"credential" : x \in {cred} \cap {snap[t].credential}}

UnderWay(c) == pc[c] \in Consuming

\* A request arrives with the ticket of some earlier launch; the consumer takes
\* the time once, for all its checks
Arrive(c, t, stranger) ==
  /\ pc[c] = "idle" /\ mint[t] = "done"
  /\ pc' = [pc EXCEPT ![c] = "find1"]
  /\ shown' = [shown EXCEPT ![c] = t]
  /\ barred' = barred \cup {d \in {c} : stranger \/ ticket[t] = "lapsed"}
  /\ matched' = [matched EXCEPT ![c] = Matching(t, host, Credential)]
  /\ UNCHANGED <<rowVars, mintVars, ticket, got, boots>>

Step(c, from, ok, to) ==
  /\ pc[c] = from
  /\ pc' = [pc EXCEPT ![c] = IF ok THEN to ELSE "refused"]

\* getTicketByHash: the row, its user and protocol, unused, not expired
Usable(c) == /\ c \notin barred
             /\ ticket[shown[c]] \in {"fresh", "lapsed"}

Validate(c) ==
  /\ \/ Step(c, "find1", Usable(c), "host1")
     \/ Step(c, "host1", SameHost(c), "cred1")
     \/ Step(c, "cred1", SameCredential(c), "read")
  /\ UNCHANGED <<rowVars, mintVars, ticket, shown, barred, got, matched, boots>>

\* hosts.get and resolveCredential of the credential the snapshot names: none
\* if it names none, or if it is gone
Read(c) ==
  /\ Step(c, "read", host # Gone, "find2")
  /\ got' = [got EXCEPT ![c] =
       IF snap[shown[c]].host = Bare THEN NoCredential ELSE Credential]
  /\ UNCHANGED <<rowVars, mintVars, ticket, shown, barred, matched, boots>>

\* Mutant of Revalidate: consume trusts the validation before
RevalidateTicket(c) ==
  /\ \/ Step(c, "find2", Usable(c), "take")
     \/ Step(c, "host2", TRUE, "cred2")
     \/ Step(c, "cred2", TRUE, "take")
  /\ UNCHANGED <<rowVars, mintVars, ticket, shown, barred, got, matched, boots>>

Revalidate(c) ==
  /\ \/ Step(c, "find2", Usable(c), "host2")
     \/ Step(c, "host2", SameHost(c), "cred2")
     \/ Step(c, "cred2", SameCredential(c), "take")
  /\ UNCHANGED <<rowVars, mintVars, ticket, shown, barred, got, matched, boots>>

\* Mutant of Take: the row is marked used without asking whether it is
TakeAnyway(c) ==
  /\ Step(c, "take", ticket[shown[c]] # "none", "start")
  /\ ticket' = [ticket EXCEPT ![shown[c]] = IF @ = "none" THEN @ ELSE "used"]
  /\ UNCHANGED <<rowVars, mintVars, shown, barred, got, matched, boots>>

\* consumeTicket: UPDATE ... WHERE used_at IS NULL
Take(c) ==
  /\ Step(c, "take", ticket[shown[c]] \in {"fresh", "lapsed"}, "start")
  /\ ticket' = [ticket EXCEPT ![shown[c]] = IF @ = "none" THEN @ ELSE "used"]
  /\ UNCHANGED <<rowVars, mintVars, shown, barred, got, matched, boots>>

\* A query is rejected, or the credential cannot be decrypted
ConsumeFail(c) ==
  /\ UnderWay(c)
  /\ pc' = [pc EXCEPT ![c] = "refused"]
  /\ UNCHANGED <<rowVars, mintVars, ticket, shown, barred, got, matched, boots>>

-----------------------------------------------------------------------------
(* The rows are edited meanwhile                                           *)

\* An upgrade under way sees these rows as well (history)
Witness(h, cred) ==
  matched' = [c \in Opens |-> IF UnderWay(c) THEN matched[c] \cup Matching(shown[c], h, cred)
                                             ELSE matched[c]]

Edit == /\ edits < MaxEdits /\ edits' = edits + 1
        /\ UNCHANGED <<mintVars, pc, shown, barred, got, boots>>

\* hosts.update; a credential has to exist to be referred to
EditHost(h) ==
  /\ Edit
  /\ host # Gone /\ h # host /\ (h \in Keyed => secret # Gone)
  /\ host' = h
  /\ Witness(h, Credential)
  /\ UNCHANGED <<secret, login, ticket>>

\* credentials.update with a secret: a new ciphertext
EditSecret ==
  /\ Edit
  /\ secret # Gone
  /\ secret' = edits + 1
  /\ Witness(host, [Credential EXCEPT !.secret = edits + 1])
  /\ UNCHANGED <<host, login, ticket>>

\* credentials.update without one
EditLogin(l) ==
  /\ Edit
  /\ secret # Gone /\ l # login
  /\ login' = l
  /\ Witness(host, [Credential EXCEPT !.login = l])
  /\ UNCHANGED <<host, secret, ticket>>

\* The foreign key of the host is set to null
DeleteCredential ==
  /\ Edit
  /\ secret # Gone
  /\ secret' = Gone
  /\ host' = IF host = Gone THEN Gone ELSE Bare
  /\ Witness(host', NoCredential)
  /\ UNCHANGED <<login, ticket>>

\* The rows of its tickets go with it
DeleteHost ==
  /\ Edit
  /\ host # Gone
  /\ host' = Gone
  /\ ticket' = [t \in Tickets |-> "none"]
  /\ Witness(Gone, Credential)
  /\ UNCHANGED <<secret, login>>

TicketStep ==
  \/ \E t \in Tickets :
       MintHost(t) \/ MintCredential(t) \/ MintInsert(t) \/ MintFail(t) \/ Lapse(t)
  \/ \E c \in Opens :
       \/ \E t \in Tickets, stranger \in BOOLEAN : Arrive(c, t, stranger)
       \/ Validate(c) \/ Read(c) \/ Revalidate(c) \/ Take(c) \/ ConsumeFail(c)
  \/ \E h \in Targets : EditHost(h)
  \/ \E l \in Logins : EditLogin(l)
  \/ EditSecret \/ DeleteCredential \/ DeleteHost

-----------------------------------------------------------------------------
(* Properties                                                              *)

TicketTypeOK ==
  /\ host \in Targets \cup {Gone} /\ secret \in Secrets \cup {Gone} /\ login \in Logins
  /\ edits \in 0 .. MaxEdits /\ boots \in 0 .. MaxBoots
  /\ secret # Gone => secret <= edits
  /\ mint \in [Tickets -> {"idle", "credential", "insert", "done", "refused"}]
  /\ snap \in [Tickets -> Snapshots]
  /\ ticket \in [Tickets -> {"none", "fresh", "lapsed", "used"}]
  /\ pc \in [Opens -> {"idle", "refused", "lost"} \cup Consuming \cup Accepted]
  /\ shown \in [Opens -> Tickets \cup {Gone}] /\ barred \subseteq Opens
  /\ \A c \in Opens : pc[c] # "idle" => shown[c] # Gone
  /\ got \in [Opens -> Credentials]
  /\ matched \in [Opens -> SUBSET {"host", "credential"}]

\* spec.md:302: a ticket is single-use.  However many upgrades present it, and
\* whatever steps of their consumption overlap, one at most is accepted.
AcceptedOnce ==
  \A c, d \in Opens :
    shown[c] = shown[d] /\ pc[c] \in Accepted /\ pc[d] \in Accepted => c = d

\* An accepted upgrade connects to its snapshot's target, which was the host's
\* target, and uses a credential that was the current one, at some time after
\* it arrived: a ticket does not outlive an edit that was there before.
TargetWasCurrent ==
  \A c \in Opens : pc[c] \in Accepted =>
    /\ "host" \in matched[c]
    /\ snap[shown[c]].credential # NoCredential => "credential" \in matched[c]

\* The secret an accepted upgrade decrypted, between the two validations, is
\* the one its ticket was minted with
SecretIsMinted ==
  \A c \in Opens : pc[c] \in Accepted =>
    got[c].secret = snap[shown[c]].credential.secret
=============================================================================
