---------------------- MODULE TrackedConnectionsProofs ----------------------
(***************************************************************************)
(* Theorems about TrackedConnections and SessionTickets, for any number of *)
(* tickets, upgrades, edits and restarts.  The consumption of a ticket is  *)
(* safe because a ticket that was minted is never minted again (Minted),   *)
(* the row is taken by one UPDATE (Once), no ciphertext comes back         *)
(* (Secret), and what was compared had been current (Current).  The rows   *)
(* of the history are right because the updates of one of them stand in a  *)
(* queue of at most two (Queued).                                          *)
(***************************************************************************)
EXTENDS TrackedConnections, SequenceTheorems, TLAPS

USE DEF rowVars, mintVars, ticketVars, connVars, vars

\* An upgrade that has arrived presents a ticket that was minted
Presented ==
  \A c \in Opens : pc[c] # "idle" => shown[c] \in Tickets /\ mint[shown[c]] = "done"

\* A snapshot is taken once, of one credential or of none, and no ciphertext in
\* it is newer than the last edit; a ticket is there when its launch is done
Minted ==
  \A t \in Tickets :
    /\ mint[t] = "idle" => snap[t].credential = NoCredential
    /\ mint[t] = "credential" => snap[t].credential = NoCredential /\ snap[t].host # Bare
    /\ mint[t] \in {"insert", "done"} => (snap[t].host = Bare <=> snap[t].credential = NoCredential)
    /\ snap[t].credential # NoCredential => snap[t].credential.secret <= edits
    /\ mint[t] # "done" => ticket[t] = "none"

\* An accepted upgrade has taken its ticket
Once ==
  /\ AcceptedOnce
  /\ \A c \in Opens : pc[c] \in Accepted => ticket[shown[c]] \notin {"fresh", "lapsed"}

\* What is current has been seen by the upgrades under way, and what they have
\* compared was current
Current ==
  \A c \in Opens :
    /\ UnderWay(c) =>
         /\ host = snap[shown[c]].host => "host" \in matched[c]
         /\ Credential = snap[shown[c]].credential => "credential" \in matched[c]
    /\ pc[c] \in (Consuming \ {"find1", "host1"}) \cup Accepted => "host" \in matched[c]
    /\ /\ pc[c] \in (Consuming \ {"find1", "host1", "cred1"}) \cup Accepted
       /\ snap[shown[c]].credential # NoCredential
       => "credential" \in matched[c]

\* The secret was read while the ciphertext was the minted one, or that is past
Secret ==
  \A c \in Opens :
    /\ /\ pc[c] \in {"find2", "host2", "cred2"}
       /\ secret = snap[shown[c]].credential.secret \/ snap[shown[c]].credential = NoCredential
       => got[c].secret = snap[shown[c]].credential.secret
    /\ pc[c] \in {"take"} \cup Accepted => got[c].secret = snap[shown[c]].credential.secret

TicketInv == TicketTypeOK /\ Presented /\ Minted /\ Once /\ Current /\ Secret

LEMMA CredentialType ==
  ASSUME TicketTypeOK PROVE Credential \in Credentials /\ Credential.secret = secret
BY DEF TicketTypeOK, Credential, Credentials, NoCredential

LEMMA TicketInitInv == TicketInit => TicketInv
<1> SUFFICES ASSUME TicketInit PROVE TicketInv
  OBVIOUS
<1> USE TargetAssumption, BoundAssumption DEF TicketInit
<1>1. TicketTypeOK
  BY DEF TicketTypeOK, Snapshots, Targets, Credentials, Secrets
<1>2. Presented /\ Minted /\ Once /\ Current /\ Secret
  BY DEF Presented, Minted, Once, AcceptedOnce, Current, Secret, UnderWay, Consuming, Accepted
<1> QED
  BY <1>1, <1>2 DEF TicketInv

-----------------------------------------------------------------------------
(* Types                                                                   *)

LEMMA TicketTypeStep == ASSUME TicketTypeOK, TicketStep PROVE TicketTypeOK'
<1> USE TargetAssumption, BoundAssumption DEF TicketTypeOK
<1>1. ASSUME NEW t \in Tickets, MintHost(t) PROVE TicketTypeOK'
  BY <1>1 DEF MintHost, Snapshots, Targets
<1>2. ASSUME NEW t \in Tickets, MintCredential(t) PROVE TicketTypeOK'
  BY <1>2, CredentialType DEF MintCredential, Snapshots
<1>3. ASSUME NEW t \in Tickets, MintInsert(t) \/ MintFail(t) \/ Lapse(t) PROVE TicketTypeOK'
  BY <1>3 DEF MintInsert, MintFail, Lapse
<1>4. ASSUME NEW c \in Opens, NEW t \in Tickets, NEW stranger \in BOOLEAN, Arrive(c, t, stranger)
      PROVE  TicketTypeOK'
  BY <1>4 DEF Arrive, Matching, Consuming
<1>5. ASSUME NEW c \in Opens, Validate(c) \/ Revalidate(c) \/ ConsumeFail(c) PROVE TicketTypeOK'
  BY <1>5 DEF Validate, Revalidate, ConsumeFail, Step, Consuming, UnderWay
<1>6. ASSUME NEW c \in Opens, Read(c) PROVE TicketTypeOK'
  BY <1>6, CredentialType DEF Read, Step, Consuming, Credentials
<1>7. ASSUME NEW c \in Opens, Take(c) PROVE TicketTypeOK'
  BY <1>7 DEF Take, Step, Consuming, Accepted
<1>8. ASSUME NEW h, NEW cred, Witness(h, cred) PROVE matched' \in [Opens -> SUBSET {"host", "credential"}]
  BY <1>8 DEF Witness, Matching
<1>9. ASSUME NEW h \in Targets, EditHost(h) PROVE TicketTypeOK'
  <2>1. matched' \in [Opens -> SUBSET {"host", "credential"}]
    BY <1>8, <1>9 DEF EditHost
  <2> QED
    BY <1>9, <2>1 DEF EditHost, Edit, Secrets
<1>10. CASE EditSecret
  <2>1. matched' \in [Opens -> SUBSET {"host", "credential"}]
    BY <1>8, <1>10 DEF EditSecret
  <2> QED
    BY <1>10, <2>1 DEF EditSecret, Edit, Secrets
<1>11. ASSUME NEW l \in Logins, EditLogin(l) PROVE TicketTypeOK'
  <2>1. matched' \in [Opens -> SUBSET {"host", "credential"}]
    BY <1>8, <1>11 DEF EditLogin
  <2> QED
    BY <1>11, <2>1 DEF EditLogin, Edit, Secrets
<1>12. CASE DeleteCredential
  <2>1. matched' \in [Opens -> SUBSET {"host", "credential"}]
    BY <1>8, <1>12 DEF DeleteCredential
  <2> QED
    BY <1>12, <2>1 DEF DeleteCredential, Edit, Targets
<1>13. CASE DeleteHost
  <2>1. matched' \in [Opens -> SUBSET {"host", "credential"}]
    BY <1>8, <1>13 DEF DeleteHost
  <2> QED
    BY <1>13, <2>1 DEF DeleteHost, Edit, Secrets
<1> QED
  BY <1>1, <1>2, <1>3, <1>4, <1>5, <1>6, <1>7, <1>9, <1>10, <1>11, <1>12, <1>13 DEF TicketStep

-----------------------------------------------------------------------------
(* Tickets                                                                 *)

\* What the steps of this module do to the launches and to the arrivals
LEMMA TicketFrame ==
  ASSUME TicketTypeOK, TicketStep
  PROVE  /\ \A t \in Tickets : mint[t] = "done" => mint'[t] = "done" /\ snap'[t] = snap[t]
         /\ \A c \in Opens : pc[c] # "idle" => shown'[c] = shown[c] /\ pc'[c] # "idle"
         /\ \A c \in Opens : pc'[c] # pc[c] => pc[c] \in {"idle"} \cup Consuming
         /\ \A c \in Opens : pc'[c] # pc[c] => pc'[c] \in Consuming \cup {"start", "refused"}
         /\ UNCHANGED boots
<1> USE DEF TicketTypeOK
<1>1. ASSUME NEW t \in Tickets,
             MintHost(t) \/ MintCredential(t) \/ MintInsert(t) \/ MintFail(t) \/ Lapse(t)
      PROVE  /\ \A u \in Tickets : mint[u] = "done" => mint'[u] = "done" /\ snap'[u] = snap[u]
             /\ UNCHANGED <<pc, shown, boots>>
  BY <1>1 DEF MintHost, MintCredential, MintInsert, MintFail, Lapse
<1>2. ASSUME NEW c \in Opens, NEW t \in Tickets, NEW stranger \in BOOLEAN, Arrive(c, t, stranger)
      PROVE  UNCHANGED <<mint, snap, boots>> /\ pc[c] = "idle" /\ pc' = [pc EXCEPT ![c] = "find1"]
             /\ shown' = [shown EXCEPT ![c] = t]
  BY <1>2 DEF Arrive
<1>3. ASSUME NEW c \in Opens, Validate(c) \/ Read(c) \/ Revalidate(c) \/ Take(c) \/ ConsumeFail(c)
      PROVE  /\ UNCHANGED <<mint, snap, shown, boots>> /\ pc[c] \in Consuming
             /\ \E to \in Consuming \cup {"start", "refused"} : pc' = [pc EXCEPT ![c] = to]
  BY <1>3 DEF Validate, Read, Revalidate, Take, ConsumeFail, Step, Consuming, UnderWay
<1>4. ASSUME \/ \E h \in Targets : EditHost(h)
             \/ \E l \in Logins : EditLogin(l)
             \/ EditSecret \/ DeleteCredential \/ DeleteHost
      PROVE  UNCHANGED <<mint, snap, pc, shown, boots>>
  BY <1>4 DEF EditHost, EditLogin, EditSecret, DeleteCredential, DeleteHost, Edit
<1>5. CASE \E t \in Tickets : MintHost(t) \/ MintCredential(t) \/ MintInsert(t) \/ MintFail(t) \/ Lapse(t)
  BY <1>1, <1>5
<1>6. CASE \E c \in Opens, t \in Tickets, stranger \in BOOLEAN : Arrive(c, t, stranger)
  BY <1>2, <1>6 DEF Consuming
<1>7. CASE \E c \in Opens : Validate(c) \/ Read(c) \/ Revalidate(c) \/ Take(c) \/ ConsumeFail(c)
  BY <1>3, <1>7 DEF Consuming
<1> QED
  BY <1>4, <1>5, <1>6, <1>7 DEF TicketStep

LEMMA PresentedStep == ASSUME TicketTypeOK, Presented, TicketStep PROVE Presented'
<1>1. CASE \E c \in Opens, t \in Tickets, stranger \in BOOLEAN : Arrive(c, t, stranger)
  BY <1>1 DEF Arrive, Presented, TicketTypeOK
<1>2. CASE \A c \in Opens : pc[c] = "idle" => pc'[c] = "idle"
  BY <1>2, TicketFrame DEF Presented
<1>3. CASE \E t \in Tickets : MintHost(t) \/ MintCredential(t) \/ MintInsert(t) \/ MintFail(t) \/ Lapse(t)
  BY <1>2, <1>3 DEF MintHost, MintCredential, MintInsert, MintFail, Lapse
<1>4. CASE \E c \in Opens : Validate(c) \/ Read(c) \/ Revalidate(c) \/ Take(c) \/ ConsumeFail(c)
  BY <1>2, <1>4 DEF Validate, Read, Revalidate, Take, ConsumeFail, Step, Consuming, UnderWay, TicketTypeOK
<1>5. CASE \/ \E h \in Targets : EditHost(h)
           \/ \E l \in Logins : EditLogin(l)
           \/ EditSecret \/ DeleteCredential \/ DeleteHost
  BY <1>2, <1>5 DEF EditHost, EditLogin, EditSecret, DeleteCredential, DeleteHost, Edit
<1> QED
  BY <1>1, <1>3, <1>4, <1>5 DEF TicketStep

LEMMA MintedStep == ASSUME TicketTypeOK, Presented, Minted, TicketStep PROVE Minted'
<1> USE TargetAssumption, BoundAssumption DEF TicketTypeOK
<1>1. ASSUME NEW t \in Tickets, MintHost(t) PROVE Minted'
  BY <1>1 DEF MintHost, Minted
<1>2. ASSUME NEW t \in Tickets, MintCredential(t) PROVE Minted'
  <2>1. Credential # NoCredential /\ Credential.secret <= edits
    BY <1>2 DEF MintCredential, Credential, NoCredential
  <2> QED
    BY <1>2, <2>1 DEF MintCredential, Minted
<1>3. ASSUME NEW t \in Tickets, MintInsert(t) \/ MintFail(t) \/ Lapse(t) PROVE Minted'
  BY <1>3 DEF MintInsert, MintFail, Lapse, Minted
<1>4. CASE \E c \in Opens, t \in Tickets, stranger \in BOOLEAN : Arrive(c, t, stranger)
  BY <1>4 DEF Arrive, Minted
<1>5. CASE \E c \in Opens : Validate(c) \/ Read(c) \/ Revalidate(c) \/ Take(c) \/ ConsumeFail(c)
  <2>1. UNCHANGED <<mint, snap, edits>>
    BY <1>5 DEF Validate, Read, Revalidate, Take, ConsumeFail
  <2>2. \A t \in Tickets : ticket[t] = "none" => ticket'[t] = "none"
    BY <1>5 DEF Validate, Read, Revalidate, Take, ConsumeFail
  <2> QED
    BY <2>1, <2>2 DEF Minted
<1>6. CASE \/ \E h \in Targets : EditHost(h)
           \/ \E l \in Logins : EditLogin(l)
           \/ EditSecret \/ DeleteCredential \/ DeleteHost
  <2>1. UNCHANGED <<mint, snap>> /\ edits' = edits + 1 /\ (UNCHANGED ticket \/ ticket' = [t \in Tickets |-> "none"])
    BY <1>6 DEF EditHost, EditLogin, EditSecret, DeleteCredential, DeleteHost, Edit
  <2>2. \A t \in Tickets : snap[t].credential # NoCredential => snap[t].credential.secret \in Int
    BY DEF Snapshots, Credentials, Secrets
  <2> QED
    BY <2>1, <2>2 DEF Minted
<1> QED
  BY <1>1, <1>2, <1>3, <1>4, <1>5, <1>6 DEF TicketStep

LEMMA OnceStep == ASSUME TicketTypeOK, Presented, Minted, Once, TicketStep PROVE Once'
<1> USE DEF TicketTypeOK
<1>1. ASSUME NEW c \in Opens, Take(c) PROVE Once'
  <2>1. CASE ticket[shown[c]] \in {"fresh", "lapsed"}
    <3>1. shown[c] \in Tickets
      BY <1>1 DEF Take, Step, Presented
    <3>2. \A d \in Opens : shown[d] = shown[c] => pc[d] \notin Accepted
      BY <2>1 DEF Once
    <3>3. /\ pc' = [pc EXCEPT ![c] = "start"] /\ shown' = shown
          /\ ticket' = [ticket EXCEPT ![shown[c]] = "used"]
      BY <1>1, <2>1 DEF Take, Step
    <3> QED
      BY <3>1, <3>2, <3>3 DEF Once, AcceptedOnce
  <2>2. CASE ticket[shown[c]] \notin {"fresh", "lapsed"}
    <3>1. pc' = [pc EXCEPT ![c] = "refused"] /\ shown' = shown
      BY <1>1, <2>2 DEF Take, Step
    <3>2. \A t \in Tickets : ticket'[t] = ticket[t] \/ ticket'[t] = "used"
      BY <1>1 DEF Take
    <3>3. \A d \in Opens : pc[d] \in Accepted => shown[d] \in Tickets
      BY DEF Presented, Accepted
    <3>4. \A d \in Opens : pc'[d] \in Accepted => pc[d] \in Accepted
      BY <3>1 DEF Accepted
    <3> QED
      BY <3>1, <3>2, <3>3, <3>4 DEF Once, AcceptedOnce
  <2> QED
    BY <2>1, <2>2
<1>2. ASSUME \A c \in Opens : pc'[c] \in Accepted => pc[c] \in Accepted,
             \A t \in Tickets : mint[t] = "done" /\ ticket[t] \notin {"fresh", "lapsed"} =>
                                ticket'[t] \notin {"fresh", "lapsed"}
      PROVE  Once'
  <2>1. \A c \in Opens : pc[c] \in Accepted =>
          shown'[c] = shown[c] /\ shown[c] \in Tickets /\ mint[shown[c]] = "done"
    BY TicketFrame DEF Presented, Accepted
  <2> QED
    BY <1>2, <2>1 DEF Once, AcceptedOnce
<1>3. CASE \E t \in Tickets : MintHost(t) \/ MintCredential(t) \/ MintInsert(t) \/ MintFail(t) \/ Lapse(t)
  BY <1>2, <1>3 DEF MintHost, MintCredential, MintInsert, MintFail, Lapse
<1>4. CASE \E c \in Opens, t \in Tickets, stranger \in BOOLEAN : Arrive(c, t, stranger)
  BY <1>2, <1>4 DEF Arrive, Accepted
<1>5. CASE \E c \in Opens : Validate(c) \/ Read(c) \/ Revalidate(c) \/ ConsumeFail(c)
  BY <1>2, <1>5 DEF Validate, Read, Revalidate, ConsumeFail, Step, Accepted
<1>6. CASE \/ \E h \in Targets : EditHost(h)
           \/ \E l \in Logins : EditLogin(l)
           \/ EditSecret \/ DeleteCredential \/ DeleteHost
  BY <1>2, <1>6 DEF EditHost, EditLogin, EditSecret, DeleteCredential, DeleteHost, Edit
<1> QED
  BY <1>1, <1>3, <1>4, <1>5, <1>6 DEF TicketStep

\* An upgrade goes one step on, the rows being what they are
Goes(c, to) ==
  /\ UNCHANGED <<rowVars, mintVars, shown, matched>>
  /\ UnderWay(c) /\ pc' = [pc EXCEPT ![c] = to]
  /\ \/ to = "refused"
     \/ to = "host1" /\ pc[c] = "find1"
     \/ to = "cred1" /\ SameHost(c)
     \/ to = "read" /\ pc[c] = "cred1" /\ SameCredential(c)
     \/ /\ to \in {"find2", "host2", "cred2", "take", "start"}
        /\ pc[c] \in Consuming \ {"find1", "host1", "cred1"}

LEMMA CurrentGoes ==
  ASSUME TicketTypeOK, Current, NEW c \in Opens, NEW to, Goes(c, to) PROVE Current'
<1> USE DEF Goes
<1>1. \A d \in Opens \ {c} : pc'[d] = pc[d]
  BY DEF TicketTypeOK
<1>2. pc'[c] = to /\ pc[c] \in Consuming
  BY DEF TicketTypeOK, UnderWay
<1>3. Credential' = Credential
  BY DEF Credential
<1>4. to = "cred1" => "host" \in matched[c]
  BY DEF Current, SameHost
<1>5. to = "read" /\ snap[shown[c]].credential # NoCredential => "credential" \in matched[c]
  BY DEF Current, SameCredential
<1> QED
  BY <1>1, <1>2, <1>3, <1>4, <1>5 DEF Current, UnderWay, Consuming, Accepted

\* An edit is seen by the upgrades under way
LEMMA CurrentSees ==
  ASSUME TicketTypeOK, Presented, Current, Witness(host', Credential'),
         UNCHANGED <<mintVars, pc, shown>>
  PROVE  Current'
<1> USE DEF TicketTypeOK
<1>1. ASSUME NEW c \in Opens, UnderWay(c)
      PROVE  /\ matched[c] \subseteq matched'[c]
             /\ host' = snap[shown[c]].host => "host" \in matched'[c]
             /\ Credential' = snap[shown[c]].credential => "credential" \in matched'[c]
  BY <1>1 DEF Witness, Matching
<1>2. ASSUME NEW c \in Opens, ~UnderWay(c) PROVE matched'[c] = matched[c]
  BY <1>2 DEF Witness
<1>3. \A c \in Opens : UnderWay(c)' = UnderWay(c)
  BY DEF UnderWay
<1> QED
  BY <1>1, <1>2, <1>3 DEF Current

LEMMA CurrentStep == ASSUME TicketTypeOK, Presented, Current, TicketStep PROVE Current'
<1>1. ASSUME NEW t \in Tickets,
             MintHost(t) \/ MintCredential(t) \/ MintInsert(t) \/ MintFail(t) \/ Lapse(t)
      PROVE  Current'
  <2>1. UNCHANGED <<rowVars, pc, shown, matched>>
    BY <1>1 DEF MintHost, MintCredential, MintInsert, MintFail, Lapse
  <2>2. \A c \in Opens : pc[c] # "idle" => snap'[shown[c]] = snap[shown[c]]
    BY TicketFrame DEF Presented
  <2> QED
    BY <2>1, <2>2 DEF Current, UnderWay, Credential, Consuming, Accepted
<1>2. ASSUME NEW c \in Opens, NEW t \in Tickets, NEW stranger \in BOOLEAN, Arrive(c, t, stranger)
      PROVE  Current'
  <2>1. /\ pc' = [pc EXCEPT ![c] = "find1"] /\ shown' = [shown EXCEPT ![c] = t]
        /\ matched' = [matched EXCEPT ![c] = Matching(t, host, Credential)]
        /\ UNCHANGED <<rowVars, mintVars>>
    BY <1>2 DEF Arrive
  <2>2. \A d \in Opens \ {c} : pc'[d] = pc[d] /\ shown'[d] = shown[d] /\ matched'[d] = matched[d]
    BY <2>1 DEF TicketTypeOK
  <2>3. pc'[c] = "find1" /\ shown'[c] = t /\ matched'[c] = Matching(t, host, Credential)
    BY <2>1 DEF TicketTypeOK
  <2>4. Credential' = Credential
    BY <2>1 DEF Credential
  <2>5. /\ host = snap[t].host => "host" \in matched'[c]
        /\ Credential = snap[t].credential => "credential" \in matched'[c]
    BY <2>3 DEF Matching
  <2> QED
    BY <2>1, <2>2, <2>3, <2>4, <2>5 DEF Current, UnderWay, Consuming, Accepted
<1>3. ASSUME NEW c \in Opens, Validate(c) \/ Read(c) \/ Revalidate(c) \/ Take(c) \/ ConsumeFail(c)
      PROVE  Current'
  <2>1. UNCHANGED <<rowVars, mintVars, shown, matched>> /\ UnderWay(c)
    BY <1>3 DEF Validate, Read, Revalidate, Take, ConsumeFail, Step, UnderWay, Consuming
  <2>2. CASE Validate(c)
    <3>1. PICK to \in {"refused", "host1", "cred1", "read"} :
            /\ pc' = [pc EXCEPT ![c] = to]
            /\ to = "host1" => pc[c] = "find1"
            /\ to = "cred1" => SameHost(c)
            /\ to = "read" => pc[c] = "cred1" /\ SameCredential(c)
      BY <2>2 DEF Validate, Step
    <3>2. Goes(c, to)
      BY <2>1, <3>1 DEF Goes
    <3> QED
      BY <3>2, CurrentGoes
  <2>3. CASE Read(c) \/ Revalidate(c) \/ Take(c) \/ ConsumeFail(c)
    <3>1. PICK to \in {"refused", "find2", "host2", "cred2", "take", "start"} :
            /\ pc' = [pc EXCEPT ![c] = to]
            /\ to # "refused" => pc[c] \in {"read", "find2", "host2", "cred2", "take"}
      BY <2>3 DEF Read, Revalidate, Take, ConsumeFail, Step
    <3>2. to # "refused" => pc[c] \in Consuming \ {"find1", "host1", "cred1"}
      BY <3>1 DEF Consuming
    <3>3. Goes(c, to)
      BY <2>1, <3>1, <3>2 DEF Goes
    <3> QED
      BY <3>3, CurrentGoes
  <2> QED
    BY <1>3, <2>2, <2>3
<1>4. ASSUME NEW h \in Targets, EditHost(h) PROVE Current'
  <2>1. Credential' = Credential
    BY <1>4 DEF EditHost, Credential
  <2> QED
    BY <1>4, <2>1, CurrentSees DEF EditHost, Edit
<1>5. CASE EditSecret
  <2>1. Credential' = [Credential EXCEPT !.secret = edits + 1]
    BY <1>5, TargetAssumption DEF EditSecret, Credential, TicketTypeOK
  <2>2. host' = host
    BY <1>5 DEF EditSecret
  <2> QED
    BY <1>5, <2>1, <2>2, CurrentSees DEF EditSecret, Edit
<1>6. ASSUME NEW l \in Logins, EditLogin(l) PROVE Current'
  <2>1. Credential' = [Credential EXCEPT !.login = l] /\ host' = host
    BY <1>6 DEF EditLogin, Credential
  <2> QED
    BY <1>6, <2>1, CurrentSees DEF EditLogin, Edit
<1>7. CASE DeleteCredential
  <2>1. Credential' = NoCredential
    BY <1>7 DEF DeleteCredential, Credential
  <2> QED
    BY <1>7, <2>1, CurrentSees DEF DeleteCredential, Edit
<1>8. CASE DeleteHost
  <2>1. Credential' = Credential /\ host' = Gone
    BY <1>8 DEF DeleteHost, Credential
  <2> QED
    BY <1>8, <2>1, CurrentSees DEF DeleteHost, Edit
<1> QED
  BY <1>1, <1>2, <1>3, <1>4, <1>5, <1>6, <1>7, <1>8 DEF TicketStep

LEMMA SecretStep == ASSUME TicketTypeOK, Presented, Minted, Secret, TicketStep PROVE Secret'
<1> USE TargetAssumption DEF TicketTypeOK
<1>0. \A c \in Opens : pc[c] # "idle" => shown'[c] = shown[c] /\ snap'[shown[c]] = snap[shown[c]]
  BY TicketFrame DEF Presented
<1>1. ASSUME NEW t \in Tickets,
             MintHost(t) \/ MintCredential(t) \/ MintInsert(t) \/ MintFail(t) \/ Lapse(t)
      PROVE  Secret'
  <2>1. UNCHANGED <<rowVars, pc, got>>
    BY <1>1 DEF MintHost, MintCredential, MintInsert, MintFail, Lapse
  <2> QED
    BY <1>0, <2>1 DEF Secret, Accepted
<1>2. ASSUME NEW c \in Opens, NEW t \in Tickets, NEW stranger \in BOOLEAN, Arrive(c, t, stranger)
      PROVE  Secret'
  <2>1. pc' = [pc EXCEPT ![c] = "find1"] /\ UNCHANGED <<rowVars, got>>
    BY <1>2 DEF Arrive
  <2> QED
    BY <1>0, <2>1 DEF Secret, Accepted
<1>3. ASSUME NEW c \in Opens, Read(c) PROVE Secret'
  <2>1. \E to \in {"refused", "find2"} : pc' = [pc EXCEPT ![c] = to]
    BY <1>3 DEF Read, Step
  <2>2. /\ UNCHANGED <<rowVars, mintVars, shown>> /\ pc[c] = "read"
        /\ got' = [got EXCEPT ![c] = IF snap[shown[c]].host = Bare THEN NoCredential ELSE Credential]
    BY <1>3 DEF Read, Step
  <2>3. snap[shown[c]].host = Bare <=> snap[shown[c]].credential = NoCredential
    BY <2>2 DEF Presented, Minted
  <2>4. secret = snap[shown[c]].credential.secret \/ snap[shown[c]].credential = NoCredential
           => got'[c].secret = snap[shown[c]].credential.secret
    BY <2>2, <2>3, CredentialType DEF NoCredential
  <2> QED
    BY <2>1, <2>2, <2>4 DEF Secret, Accepted
<1>4. ASSUME NEW c \in Opens, Revalidate(c) PROVE Secret'
  <2>1. UNCHANGED <<rowVars, mintVars, shown, got>>
    BY <1>4 DEF Revalidate
  <2>2. SameCredential(c) => secret = snap[shown[c]].credential.secret
                             \/ snap[shown[c]].credential = NoCredential
    BY CredentialType DEF SameCredential
  <2>3. \E to \in {"refused", "host2", "cred2", "take"} :
          /\ pc' = [pc EXCEPT ![c] = to] /\ pc[c] \in {"find2", "host2", "cred2"}
          /\ to = "take" => SameCredential(c)
    BY <1>4 DEF Revalidate, Step
  <2> QED
    BY <2>1, <2>2, <2>3 DEF Secret, Accepted
<1>5. ASSUME NEW c \in Opens, Validate(c) \/ Take(c) \/ ConsumeFail(c) PROVE Secret'
  <2>1. UNCHANGED <<rowVars, mintVars, shown, got>>
    BY <1>5 DEF Validate, Take, ConsumeFail
  <2>2. \E to \in {"refused", "host1", "cred1", "read", "start"} :
          pc' = [pc EXCEPT ![c] = to] /\ (to = "start" => pc[c] = "take")
    BY <1>5 DEF Validate, Take, ConsumeFail, Step
  <2> QED
    BY <2>1, <2>2 DEF Secret, Accepted
<1>6. ASSUME UNCHANGED <<pc, got>>, secret' = secret PROVE Secret'
  BY <1>0, <1>6 DEF Secret, Accepted
<1>7. ASSUME UNCHANGED <<pc, got>>, secret' = Gone \/ secret' = edits + 1 PROVE Secret'
  <2>1. \A c \in Opens : pc[c] # "idle" /\ snap[shown[c]].credential # NoCredential =>
          secret' # snap[shown[c]].credential.secret
    <3>1. \A t \in Tickets : snap[t].credential # NoCredential =>
            snap[t].credential.secret \in Nat /\ snap[t].credential.secret <= edits
      BY DEF Minted, Snapshots, Credentials, Secrets
    <3> QED
      BY <1>7, <3>1 DEF Presented
  <2> QED
    BY <1>0, <1>7, <2>1 DEF Secret, Accepted
<1>8. CASE (\E h \in Targets : EditHost(h)) \/ (\E l \in Logins : EditLogin(l)) \/ DeleteHost
  BY <1>6, <1>8 DEF EditHost, EditLogin, DeleteHost, Edit
<1>9. CASE EditSecret \/ DeleteCredential
  BY <1>7, <1>9 DEF EditSecret, DeleteCredential, Edit
<1> QED
  BY <1>1, <1>2, <1>3, <1>4, <1>5, <1>8, <1>9 DEF TicketStep

LEMMA TicketInvStep == ASSUME TicketInv, TicketStep PROVE TicketInv'
BY TicketTypeStep, PresentedStep, MintedStep, OnceStep, CurrentStep, SecretStep DEF TicketInv

\* An accepted upgrade goes on, and nothing else happens to the tickets
LEMMA TicketInvGoes ==
  ASSUME TicketInv, NEW c \in Opens, NEW from \in Accepted, NEW to \in Accepted, Goto(c, from, to)
  PROVE  TicketInv'
<1>1. pc' = [pc EXCEPT ![c] = to] /\ pc[c] \in Accepted /\ UNCHANGED <<rowVars, mintVars, ticket, shown, barred, got, matched, boots>>
  BY DEF Goto
<1>2. Credential' = Credential
  BY <1>1 DEF Credential
<1>3. TicketTypeOK'
  BY <1>1 DEF TicketInv, TicketTypeOK, Accepted
<1>4. Presented' /\ Minted' /\ Once' /\ Secret'
  BY <1>1 DEF TicketInv, TicketTypeOK, Presented, Minted, Once, AcceptedOnce, Secret, Accepted
<1>5. Current'
  BY <1>1, <1>2 DEF TicketInv, TicketTypeOK, Current, UnderWay, Consuming, Accepted
<1> QED
  BY <1>3, <1>4, <1>5 DEF TicketInv

LEMMA TicketInvRestart == ASSUME TicketInv, Restart PROVE TicketInv'
<1> USE BoundAssumption DEF TicketInv, TicketTypeOK
<1>1. /\ UNCHANGED <<rowVars, snap, ticket, shown, barred, got, matched>> /\ boots < MaxBoots /\ boots' = boots + 1
      /\ \A t \in Tickets : mint'[t] = IF mint[t] \in {"credential", "insert"} THEN "refused" ELSE mint[t]
      /\ \A c \in Opens : pc'[c] = IF pc[c] \in Consuming THEN "lost"
                                   ELSE IF pc[c] \in {"start", "switch", "open"} THEN "cut" ELSE pc[c]
      /\ mint' \in [Tickets -> {"idle", "credential", "insert", "done", "refused"}]
      /\ pc' \in [Opens -> {"idle", "refused", "lost"} \cup Consuming \cup Accepted]
  BY DEF Restart, Consuming, Accepted
<1>2. Credential' = Credential
  BY <1>1 DEF Credential
<1>3. \A c \in Opens : (pc'[c] \in Accepted => pc[c] \in Accepted) /\ pc'[c] \notin Consuming
                       /\ (pc'[c] = "idle" => pc[c] = "idle") /\ (pc[c] = "idle" => pc'[c] = "idle")
  BY <1>1 DEF Accepted, Consuming
<1>4. TicketTypeOK'
  BY <1>1, <1>3
<1>5. Presented' /\ Minted'
  BY <1>1, <1>3 DEF Presented, Minted
<1>6. Once'
  BY <1>1, <1>3 DEF Once, AcceptedOnce
<1>7. Current' /\ Secret'
  BY <1>1, <1>2, <1>3 DEF Current, Secret, UnderWay, Consuming
<1> QED
  BY <1>4, <1>5, <1>6, <1>7

-----------------------------------------------------------------------------
(* The queue of a row                                                      *)

\* The updates that may be waiting: the first may be rejected
QueueOf(c) ==
  \/ queue[c] = <<>>
  \/ queue[c] = <<"active">> /\ row[c] = "starting" /\ end[c] = "none"
  \/ queue[c] = <<"active", end[c]>> /\ row[c] = "starting" /\ end[c] \in Settled
  \/ queue[c] = <<end[c]>> /\ row[c] \in {"starting", "active"} /\ end[c] \in Settled

\* Before the websocket is open nothing is queued and the adapter has not
\* started; the row of a closed one has its end, made or waiting
QueuedOf(c) ==
  /\ QueueOf(c)
  /\ pc[c] \in {"idle", "start"} \cup Consuming => row[c] = "none"
  /\ row[c] = "none" => queue[c] = <<>> /\ end[c] = "none"
  /\ row[c] \in Settled => end[c] = row[c] /\ queue[c] = <<>>
  /\ pc[c] \notin {"open", "cut"} => queue[c] = <<>> /\ end[c] = "none" /\ target[c] = "none"
  /\ pc[c] \in {"idle", "start", "switch"} \cup Consuming =>
       row[c] \in {"none", "starting"} /\ sock[c] \in {"waiting", "gone"}
  /\ sock[c] \in {"open", "closing_ended", "closing_failed"} => pc[c] = "open"
  /\ pc[c] = "open" /\ sock[c] = "closed" /\ row[c] # "none" => end[c] \in Settled
  /\ pc[c] = "open" /\ end[c] \in Settled /\ queue[c] = <<>> /\ c \notin missed => row[c] = end[c]

Queued == \A c \in Opens : QueuedOf(c)

ConnTypes ==
  /\ row \in [Opens -> {"none", "starting", "active"} \cup Settled]
  /\ sock \in [Opens -> {"waiting", "gone", "open", "closing_ended", "closing_failed", "closed"}]
  /\ target \in [Opens -> {"none", "over"} \cup Alive]
  /\ jump \in [Opens -> {"none", "over"} \cup Alive]
  /\ queue \in [Opens -> Seq({"active"} \cup Settled)]
  /\ end \in [Opens -> {"none"} \cup Settled]
  /\ early \subseteq Opens /\ missed \subseteq Opens

LEMMA Pairs ==
  ASSUME NEW S, NEW a \in S, NEW b \in S
  PROVE  /\ <<>> \in Seq(S) /\ <<a>> \in Seq(S) /\ <<a, b>> \in Seq(S)
         /\ Append(<<>>, a) = <<a>> /\ Append(<<a>>, b) = <<a, b>>
         /\ Head(<<a>>) = a /\ Tail(<<a>>) = <<>>
         /\ Head(<<a, b>>) = a /\ Tail(<<a, b>>) = <<b>>
         /\ Len(<<>>) = 0 /\ Len(<<a>>) = 1 /\ Len(<<a, b>>) = 2
         /\ <<a>> # <<>> /\ <<a, b>> # <<>>
<1>1. <<>> \in Seq(S) /\ <<a>> \in Seq(S) /\ <<a, b>> \in Seq(S)
  OBVIOUS
<1>2. Len(<<>>) = 0 /\ Len(<<a>>) = 1 /\ Len(<<a, b>>) = 2
  OBVIOUS
<1>3. <<a>> # <<>> /\ <<a, b>> # <<>>
  BY <1>2
<1>4. Append(<<>>, a) = <<a>>
  OBVIOUS
<1>5. Append(<<a>>, b) = <<a, b>>
  <2> DEFINE s == Append(<<a>>, b)
             t == <<a, b>>
  <2>1. /\ s \in Seq(S) /\ Len(s) = Len(<<a>>) + 1
        /\ \A i \in 1 .. Len(<<a>>) : s[i] = <<a>>[i]
        /\ s[Len(<<a>>) + 1] = b
    BY <1>1, AppendProperties
  <2>2. Len(s) = 2 /\ s[1] = a /\ s[2] = b
    BY <1>2, <2>1
  <2>3. t \in Seq(S) /\ Len(t) = 2 /\ t[1] = a /\ t[2] = b
    BY <1>1, <1>2
  <2> HIDE DEF s, t
  <2>4. \A i \in 1 .. Len(s) : s[i] = t[i]
    BY <2>2, <2>3
  <2>5. s = t
    BY <2>1, <2>2, <2>3, <2>4, SeqEqual
  <2> QED
    BY <2>5 DEF s, t
<1>6. Head(<<a>>) = a /\ Head(<<a, b>>) = a
  OBVIOUS
<1>7. Tail(<<a>>) = <<>>
  OBVIOUS
<1>8. Tail(<<a, b>>) = <<b>>
  OBVIOUS
<1> QED
  BY <1>1, <1>2, <1>3, <1>4, <1>5, <1>6, <1>7, <1>8

\* The steps of the connection c leave the others alone
Only(c) ==
  \A d \in Opens \ {c} :
    /\ pc'[d] = pc[d] /\ row'[d] = row[d] /\ sock'[d] = sock[d] /\ target'[d] = target[d]
    /\ jump'[d] = jump[d]
    /\ queue'[d] = queue[d] /\ end'[d] = end[d]
    /\ (d \in early' <=> d \in early) /\ (d \in missed' <=> d \in missed)

LEMMA OthersQueued ==
  ASSUME Queued, NEW c \in Opens, Only(c), QueuedOf(c)' PROVE Queued'
BY DEF Queued, QueuedOf, QueueOf, Only

\* finalize of c, which has a websocket
LEMMA Finalizes ==
  ASSUME ConnTypes, Queued, NEW c \in Opens, NEW status \in Settled, Finalize(c, status)
  PROVE  /\ end' \in [Opens -> {"none"} \cup Settled]
         /\ queue' \in [Opens -> Seq({"active"} \cup Settled)]
         /\ \A d \in Opens \ {c} : queue'[d] = queue[d] /\ end'[d] = end[d]
         /\ row[c] = "none" => queue'[c] = <<>> /\ end'[c] = "none"
         /\ row[c] # "none" => end'[c] \in Settled
         /\ end[c] # "none" => end'[c] = end[c] /\ queue'[c] = queue[c]
         /\ row[c] # "none" /\ end[c] = "none" =>
              \/ queue'[c] = <<"active", end'[c]>> /\ row[c] = "starting"
              \/ queue'[c] = <<end'[c]>> /\ row[c] \in {"starting", "active"}
<1> DEFINE S == {"active"} \cup Settled
<1>1. QueuedOf(c)
  BY DEF Queued
<1>2. CASE row[c] # "none" /\ end[c] = "none"
  <2>1. /\ end' = [end EXCEPT ![c] = status]
        /\ queue' = [queue EXCEPT ![c] = Append(@, status)]
    BY <1>2 DEF Finalize, Tracked
  <2>2. \/ queue[c] = <<>> /\ row[c] \in {"starting", "active"}
        \/ queue[c] = <<"active">> /\ row[c] = "starting"
    BY <1>1, <1>2 DEF QueuedOf, QueueOf, Settled, ConnTypes
  <2>3. "active" \in S /\ status \in S
    OBVIOUS
  <2>4. \/ Append(queue[c], status) = <<"active", status>> /\ row[c] = "starting"
        \/ Append(queue[c], status) = <<status>> /\ row[c] \in {"starting", "active"}
    BY <2>2, <2>3, Pairs
  <2>5. Append(queue[c], status) \in Seq(S)
    BY <2>3, <2>4, Pairs
  <2> QED
    BY <1>2, <2>1, <2>4, <2>5 DEF ConnTypes, Settled
<1>3. CASE ~(row[c] # "none" /\ end[c] = "none")
  <2>1. UNCHANGED <<end, queue>>
    BY <1>3 DEF Finalize, Tracked
  <2> QED
    BY <1>1, <1>3, <2>1 DEF ConnTypes, QueuedOf, Settled
<1> QED
  BY <1>2, <1>3

\* One update of c is made or rejected
LEMMA RecordStep ==
  ASSUME ConnTypes, Queued, NEW c \in Opens, Record(c)
  PROVE  /\ ConnTypes' /\ Queued'
         /\ \E now \in {"active"} \cup Settled :
              /\ row[c] = "starting" \/ (row[c] = "active" /\ now \in Settled)
              /\ UNCHANGED row \/ row' = [row EXCEPT ![c] = now]
<1> USE DEF Settled
<1>1. QueuedOf(c)
  BY DEF Queued
<1>2. /\ queue' = [queue EXCEPT ![c] = Tail(@)] /\ queue[c] # <<>>
      /\ UNCHANGED <<pc, sock, target, jump, end, early>>
      /\ \/ row' = [row EXCEPT ![c] = Head(queue[c])] /\ UNCHANGED missed
         \/ /\ missed' = missed \cup {d \in {c} : Head(queue[c]) \in Settled}
            /\ UNCHANGED row
  BY DEF Record
<1>3. \/ /\ queue[c] = <<"active">> /\ row[c] = "starting" /\ end[c] = "none"
         /\ Head(queue[c]) = "active" /\ Tail(queue[c]) = <<>>
      \/ /\ queue[c] = <<"active", end[c]>> /\ row[c] = "starting" /\ end[c] \in Settled
         /\ Head(queue[c]) = "active" /\ Tail(queue[c]) = <<end[c]>>
      \/ /\ queue[c] = <<end[c]>> /\ row[c] \in {"starting", "active"} /\ end[c] \in Settled
         /\ Head(queue[c]) = end[c] /\ Tail(queue[c]) = <<>>
  <2> DEFINE S == {"active"} \cup Settled
  <2>1. ASSUME NEW x \in S, NEW y \in S
        PROVE  /\ Head(<<x>>) = x /\ Tail(<<x>>) = <<>>
               /\ Head(<<x, y>>) = x /\ Tail(<<x, y>>) = <<y>>
    BY Pairs
  <2>2. CASE queue[c] = <<"active">> /\ row[c] = "starting" /\ end[c] = "none"
    BY <2>1, <2>2
  <2>3. CASE queue[c] = <<"active", end[c]>> /\ row[c] = "starting" /\ end[c] \in Settled
    BY <2>1, <2>3
  <2>4. CASE queue[c] = <<end[c]>> /\ row[c] \in {"starting", "active"} /\ end[c] \in Settled
    BY <2>1, <2>4
  <2> QED
    BY <1>1, <1>2, <2>2, <2>3, <2>4 DEF QueuedOf, QueueOf
<1>4. Head(queue[c]) \in {"active"} \cup Settled /\ Tail(queue[c]) \in Seq({"active"} \cup Settled)
  BY <1>3, Pairs
<1>5. ConnTypes'
  BY <1>2, <1>4 DEF ConnTypes
<1>6. Only(c)
  BY <1>2 DEF Only, ConnTypes
<1>7. /\ queue'[c] = Tail(queue[c])
      /\ \/ row'[c] = Head(queue[c]) /\ missed' = missed
         \/ row'[c] = row[c] /\ (Head(queue[c]) \in Settled => c \in missed')
  BY <1>2 DEF ConnTypes
<1>8. QueuedOf(c)'
  <2>1. QueueOf(c)'
    BY <1>2, <1>3, <1>7 DEF QueueOf
  <2>2. row'[c] # "none" /\ row[c] # "none"
    BY <1>3, <1>7
  <2>3. row'[c] \in Settled => end[c] = row'[c] /\ queue'[c] = <<>>
    BY <1>3, <1>7
  <2>4. end[c] \in Settled /\ queue'[c] = <<>> /\ c \notin missed' => row'[c] = end[c]
    <3>1. CASE queue[c] = <<"active", end[c]>> /\ end[c] \in Settled /\ Tail(queue[c]) = <<end[c]>>
      BY <1>7, <3>1, Pairs
    <3>2. CASE queue[c] = <<"active">> /\ end[c] = "none"
      BY <3>2
    <3>3. CASE queue[c] = <<end[c]>> /\ end[c] \in Settled /\ Head(queue[c]) = end[c]
      BY <1>7, <3>3
    <3> QED
      BY <1>3, <3>1, <3>2, <3>3
  <2>5. pc[c] \in {"open", "cut"}
    BY <1>1, <1>2 DEF QueuedOf
  <2> QED
    BY <1>1, <1>2, <2>1, <2>2, <2>3, <2>4, <2>5 DEF QueuedOf, Consuming
<1>9. Queued'
  BY <1>6, <1>8, OthersQueued
<1>10. row[c] = "starting" \/ (row[c] = "active" /\ Head(queue[c]) \in Settled)
  BY <1>3
<1> QED
  BY <1>2, <1>4, <1>5, <1>9, <1>10

-----------------------------------------------------------------------------
(* The websocket and the adapter                                           *)

ConnInv == ConnTypes /\ Queued /\ OnlyEarlyCloseOrphans

\* What a step does to the rows of the history
RowGoes ==
  \/ UNCHANGED row
  \/ \E c \in Opens : row[c] = "none" /\ row' = [row EXCEPT ![c] = "starting"]
  \/ \E c \in Opens, now \in {"active"} \cup Settled :
       /\ row[c] = "starting" \/ (row[c] = "active" /\ now \in Settled)
       /\ row' = [row EXCEPT ![c] = now]

\* A step of an accepted upgrade changes no snapshot
LEMMA SameTargets ==
  ASSUME UNCHANGED <<mintVars, shown>> PROVE \A c \in Opens : IsTcp(c)' <=> IsTcp(c)
BY DEF IsTcp

LEMMA TicketConnStep ==
  ASSUME TicketInv, ConnInv, TicketStep, UNCHANGED connVars PROVE ConnInv'
<1> USE DEF ConnInv
<1>1. ConnTypes'
  BY DEF ConnTypes
<1>2. TicketTypeOK
  BY DEF TicketInv
<1>3. Queued'
  <2>1. ASSUME NEW c \in Opens PROVE QueuedOf(c)'
    <3>1. QueuedOf(c)
      BY DEF Queued
    <3>2. \/ pc'[c] = pc[c]
          \/ /\ pc[c] \in {"idle"} \cup Consuming
             /\ pc'[c] \in Consuming \cup {"start", "refused"} /\ pc'[c] # "idle"
      BY <1>2, TicketFrame DEF Consuming
    <3> QED
      BY <3>1, <3>2 DEF QueuedOf, QueueOf, Consuming
  <2> QED
    BY <2>1 DEF Queued
<1>4. OnlyEarlyCloseOrphans'
  <2>1. ASSUME NEW c \in Opens, target[c] # "none" PROVE IsTcp(c)' <=> IsTcp(c)
    <3>1. pc[c] # "idle"
      BY <2>1 DEF Queued, QueuedOf
    <3>2. shown'[c] = shown[c] /\ snap'[shown[c]] = snap[shown[c]]
      BY <1>2, <3>1, TicketFrame DEF TicketInv, Presented
    <3> QED
      BY <3>2 DEF IsTcp
  <2> QED
    BY <2>1 DEF OnlyEarlyCloseOrphans, Alive
<1> QED
  BY <1>1, <1>3, <1>4

LEMMA StartRowStep ==
  ASSUME TicketInv, ConnInv, NEW c \in Opens, StartRow(c) PROVE TicketInv' /\ ConnInv' /\ RowGoes
<1> USE DEF ConnInv
<1>1. Goto(c, "start", "switch") /\ UNCHANGED <<sock, target, jump, queue, end, early, missed>>
      /\ (row' = [row EXCEPT ![c] = "starting"] \/ UNCHANGED row)
  BY DEF StartRow
<1>2. TicketInv'
  BY <1>1, TicketInvGoes DEF Accepted
<1>3. pc[c] = "start" /\ pc' = [pc EXCEPT ![c] = "switch"] /\ UNCHANGED <<mintVars, shown>>
  BY <1>1 DEF Goto
<1>4. ConnTypes' /\ OnlyEarlyCloseOrphans'
  BY <1>1, <1>3, SameTargets DEF ConnTypes, OnlyEarlyCloseOrphans
<1>5. row[c] = "none" /\ QueuedOf(c)
  BY <1>3 DEF Queued, QueuedOf
<1>6. Only(c)
  BY <1>1, <1>3 DEF Only, ConnTypes, TicketInv, TicketTypeOK
<1>7. pc'[c] = "switch" /\ row'[c] \in {"none", "starting"}
  BY <1>1, <1>3, <1>5 DEF ConnTypes, TicketInv, TicketTypeOK
<1>8. QueuedOf(c)'
  BY <1>1, <1>3, <1>5, <1>7 DEF QueuedOf, QueueOf, Consuming, Settled
<1> QED
  BY <1>1, <1>2, <1>4, <1>5, <1>6, <1>8, OthersQueued DEF RowGoes

LEMMA SwitchStep ==
  ASSUME TicketInv, ConnInv, NEW c \in Opens, Switch(c) PROVE TicketInv' /\ ConnInv'
<1> USE DEF ConnInv
<1>0. QueuedOf(c)
  BY DEF Queued
<1>1. CASE sock[c] = "gone" /\ Goto(c, "switch", "turned") /\ UNCHANGED connVars
  <2>1. TicketInv'
    BY <1>1, TicketInvGoes DEF Accepted
  <2>2. pc[c] = "switch" /\ pc' = [pc EXCEPT ![c] = "turned"] /\ UNCHANGED <<mintVars, shown>>
    BY <1>1 DEF Goto
  <2>3. pc'[c] = "turned"
    BY <2>2 DEF TicketInv, TicketTypeOK
  <2>4. Only(c) /\ QueuedOf(c)'
    BY <1>0, <1>1, <2>2, <2>3 DEF Only, QueuedOf, QueueOf, Consuming, TicketInv, TicketTypeOK
  <2>5. ConnTypes' /\ OnlyEarlyCloseOrphans'
    BY <1>1, <2>2, SameTargets DEF ConnTypes, OnlyEarlyCloseOrphans
  <2> QED
    BY <2>1, <2>4, <2>5, OthersQueued
<1>2. CASE /\ sock[c] = "waiting" /\ Goto(c, "switch", "open")
           /\ sock' = [sock EXCEPT ![c] = "open"]
           /\ queue' = [queue EXCEPT ![c] = IF Tracked(c) THEN <<"active">> ELSE <<>>]
           /\ target' = [target EXCEPT ![c] = "connecting"]
           /\ \E first \in {"none", "connecting"} : jump' = [jump EXCEPT ![c] = first]
           /\ UNCHANGED <<row, end, early, missed>>
  <2>1. TicketInv'
    BY <1>2, TicketInvGoes DEF Accepted
  <2>2. pc[c] = "switch" /\ pc' = [pc EXCEPT ![c] = "open"] /\ UNCHANGED <<mintVars, shown>>
    BY <1>2 DEF Goto
  <2>3. /\ pc'[c] = "open" /\ sock'[c] = "open" /\ target'[c] = "connecting"
        /\ queue'[c] = IF row[c] # "none" THEN <<"active">> ELSE <<>>
    BY <1>2, <2>2 DEF TicketInv, TicketTypeOK, ConnTypes, Tracked
  <2>4. row[c] \in {"none", "starting"} /\ end[c] = "none"
    BY <1>0, <2>2 DEF QueuedOf
  <2>5. Only(c) /\ QueuedOf(c)'
    BY <1>0, <1>2, <2>2, <2>3, <2>4 DEF Only, QueuedOf, QueueOf, Consuming, Settled, ConnTypes, TicketInv, TicketTypeOK
  <2>6. (IF Tracked(c) THEN <<"active">> ELSE <<>>) \in Seq({"active"} \cup Settled)
    BY Pairs
  <2>7. ConnTypes'
    BY <1>2, <2>6 DEF ConnTypes, Alive
  <2>8. OnlyEarlyCloseOrphans'
    BY <1>2, <2>2, SameTargets DEF ConnTypes, OnlyEarlyCloseOrphans, Alive
  <2> QED
    BY <2>1, <2>5, <2>7, <2>8, OthersQueued
<1> QED
  BY <1>1, <1>2 DEF Switch

\* The tickets do not depend on the rest
LEMMA TicketInvStays == ASSUME TicketInv, UNCHANGED ticketVars PROVE TicketInv'
BY DEF TicketInv, TicketTypeOK, Presented, Minted, Once, AcceptedOnce, Current, Secret, Credential, UnderWay

LEMMA LeaveStep == ASSUME TicketInv, ConnInv, NEW c \in Opens, ClientLeaves(c) PROVE ConnInv'
<1> USE DEF ConnInv
<1>1. /\ pc[c] \in Consuming \cup {"start", "switch"} /\ sock' = [sock EXCEPT ![c] = "gone"]
      /\ UNCHANGED <<ticketVars, row, target, jump, queue, end, early, missed>>
  BY DEF ClientLeaves
<1>2. ConnTypes' /\ Only(c) /\ sock'[c] = "gone"
  BY <1>1 DEF ConnTypes, Only
<1>3. QueuedOf(c)
  BY DEF Queued
<1>4. QueuedOf(c)'
  BY <1>1, <1>2, <1>3 DEF QueuedOf, QueueOf, Consuming
<1>5. OnlyEarlyCloseOrphans'
  BY <1>1, SameTargets DEF ConnTypes, OnlyEarlyCloseOrphans
<1> QED
  BY <1>2, <1>4, <1>5, OthersQueued

\* Both connections of c are over
LEMMA OverGoes ==
  ASSUME ConnTypes, NEW c \in Opens, Over(c)
  PROVE  /\ target' \in [Opens -> {"none", "over"} \cup Alive]
         /\ jump' \in [Opens -> {"none", "over"} \cup Alive]
         /\ target'[c] = "over" /\ jump'[c] \notin Alive
         /\ \A d \in Opens \ {c} : target'[d] = target[d] /\ jump'[d] = jump[d]
BY DEF ConnTypes, Over, Alive

\* A websocket closes
LEMMA CloseStep ==
  ASSUME TicketInv, ConnInv, NEW c \in Opens, NEW status \in Settled, Close(c, status) PROVE ConnInv'
<1> USE DEF ConnInv
<1>1. /\ sock[c] \in {"open", "closing_ended", "closing_failed"} /\ sock' = [sock EXCEPT ![c] = "closed"]
      /\ UNCHANGED <<ticketVars, row, missed>> /\ Finalize(c, status)
      /\ IF target[c] = "open" \/ IsTcp(c) THEN Over(c) ELSE UNCHANGED <<target, jump>>
      /\ early' = early \cup {d \in {c} : target[c] = "connecting"}
  BY DEF Close, Release
<1>a. /\ target' \in [Opens -> {"none", "over"} \cup Alive]
      /\ jump' \in [Opens -> {"none", "over"} \cup Alive]
      /\ \A d \in Opens \ {c} : target'[d] = target[d] /\ jump'[d] = jump[d]
      /\ target'[c] = IF target[c] = "open" \/ IsTcp(c) THEN "over" ELSE target[c]
      /\ jump'[c] \in Alive => jump'[c] = jump[c] /\ target'[c] = target[c]
  BY <1>1, OverGoes DEF ConnTypes, Alive
<1>2. QueuedOf(c) /\ pc[c] = "open"
  BY <1>1 DEF Queued, QueuedOf
<1>3. /\ end' \in [Opens -> {"none"} \cup Settled]
      /\ queue' \in [Opens -> Seq({"active"} \cup Settled)]
      /\ \A d \in Opens \ {c} : queue'[d] = queue[d] /\ end'[d] = end[d]
      /\ row[c] = "none" => queue'[c] = <<>> /\ end'[c] = "none"
      /\ row[c] # "none" => end'[c] \in Settled
      /\ end[c] # "none" => end'[c] = end[c] /\ queue'[c] = queue[c]
      /\ row[c] # "none" /\ end[c] = "none" =>
           \/ queue'[c] = <<"active", end'[c]>> /\ row[c] = "starting"
           \/ queue'[c] = <<end'[c]>> /\ row[c] \in {"starting", "active"}
  BY <1>1, Finalizes
<1>4. ConnTypes'
  BY <1>1, <1>a, <1>3 DEF ConnTypes
<1>5. Only(c) /\ sock'[c] = "closed"
  BY <1>1, <1>a, <1>3 DEF Only, ConnTypes
<1>6. QueuedOf(c)'
  <2>1. CASE end[c] # "none"
    BY <1>1, <1>2, <1>3, <2>1 DEF QueuedOf, QueueOf, Consuming, Settled
  <2>2. CASE end[c] = "none" /\ row[c] # "none"
    <3>1. end'[c] \in Settled /\ queue'[c] # <<>>
      <4>1. /\ <<end'[c]>> # <<>>
            /\ <<"active", end'[c]>> # <<>>
        BY Pairs
      <4> QED
        BY <1>3, <2>2, <4>1
    <3> QED
      BY <1>1, <1>2, <1>3, <2>2, <3>1 DEF QueuedOf, QueueOf, Consuming, Settled
  <2>3. CASE row[c] = "none"
    BY <1>1, <1>2, <1>3, <2>3 DEF QueuedOf, QueueOf, Consuming, Settled
  <2> QED
    BY <2>1, <2>2, <2>3
<1>7. OnlyEarlyCloseOrphans'
  BY <1>1, <1>a, <1>4, SameTargets DEF ConnTypes, OnlyEarlyCloseOrphans, Alive
<1> QED
  BY <1>4, <1>5, <1>6, <1>7, OthersQueued

\* The connections to the hosts are made, break or end
LEMMA TargetStep ==
  ASSUME TicketInv, ConnInv, NEW c \in Opens,
         \/ JumpReady(c) \/ JumpEnds(c) \/ Connected(c)
         \/ TargetFails(c) \/ TargetEnds(c) \/ ShellEnds(c)
  PROVE  ConnInv'
<1> USE DEF ConnInv
<1>1. /\ UNCHANGED <<ticketVars, row, queue, end, early, missed>>
      /\ target[c] # "none"
      /\ target' \in [Opens -> {"none", "over"} \cup Alive]
      /\ jump' \in [Opens -> {"none", "over"} \cup Alive]
      /\ \A d \in Opens \ {c} : target'[d] = target[d] /\ jump'[d] = jump[d]
      /\ target'[c] \in Alive => target[c] \in Alive
      /\ jump'[c] \in Alive => target'[c] \in Alive
      /\ target'[c] # "none"
      /\ \/ UNCHANGED sock
         \/ \E now \in {"closing_ended", "closing_failed"} :
              sock' = [sock EXCEPT ![c] = IF sock[c] # "open" THEN sock[c] ELSE now]
  <2>1. CASE ShellEnds(c)
    BY <2>1 DEF ShellEnds, Hangup, ConnTypes, OnlyEarlyCloseOrphans
  <2>2. CASE Connected(c)
    BY <2>2 DEF Connected, ConnTypes, Alive
  <2>3. CASE TargetFails(c) \/ TargetEnds(c)
    BY <2>3, OverGoes DEF TargetFails, TargetEnds, Hangup, Alive
  <2>4. CASE JumpReady(c) \/ JumpEnds(c)
    BY <2>4 DEF JumpReady, JumpEnds, ConnTypes, Alive, OnlyEarlyCloseOrphans
  <2> QED
    BY <2>1, <2>2, <2>3, <2>4
<1>2. QueuedOf(c) /\ pc[c] \in {"open", "cut"}
  BY <1>1 DEF Queued, QueuedOf
<1>3. ConnTypes' /\ Only(c)
  BY <1>1 DEF ConnTypes, Only
<1>4. \/ sock'[c] = sock[c]
      \/ sock[c] = "open" /\ sock'[c] \in {"closing_ended", "closing_failed"}
  BY <1>1 DEF ConnTypes
<1>5. QueuedOf(c)'
  BY <1>1, <1>2, <1>4 DEF QueuedOf, QueueOf, Consuming
<1>6. OnlyEarlyCloseOrphans'
  BY <1>1, <1>3, <1>4, SameTargets DEF Only, OnlyEarlyCloseOrphans
<1> QED
  BY <1>3, <1>5, <1>6, OthersQueued

LEMMA AdapterStep == ASSUME TicketInv, ConnInv, NEW c \in Opens, AdapterFails(c) PROVE ConnInv'
<1> USE DEF ConnInv
<1>1. /\ target[c] = "connecting" /\ Over(c)
      /\ Finalize(c, "failed") /\ UNCHANGED <<ticketVars, row, early, missed>>
      /\ sock' = [sock EXCEPT ![c] = IF sock[c] # "open" THEN sock[c] ELSE "closing_failed"]
  BY DEF AdapterFails, Hangup
<1>2. QueuedOf(c) /\ pc[c] \in {"open", "cut"}
  BY <1>1 DEF Queued, QueuedOf
<1>3. /\ end' \in [Opens -> {"none"} \cup Settled]
      /\ queue' \in [Opens -> Seq({"active"} \cup Settled)]
      /\ \A d \in Opens \ {c} : queue'[d] = queue[d] /\ end'[d] = end[d]
      /\ row[c] = "none" => queue'[c] = <<>> /\ end'[c] = "none"
      /\ row[c] # "none" => end'[c] \in Settled
      /\ end[c] # "none" => end'[c] = end[c] /\ queue'[c] = queue[c]
      /\ row[c] # "none" /\ end[c] = "none" =>
           \/ queue'[c] = <<"active", end'[c]>> /\ row[c] = "starting"
           \/ queue'[c] = <<end'[c]>> /\ row[c] \in {"starting", "active"}
  <2>1. "failed" \in Settled
    BY DEF Settled
  <2> QED
    BY <1>1, <2>1, Finalizes
<1>4. ConnTypes'
  BY <1>1, <1>3, OverGoes DEF ConnTypes
<1>5. /\ Only(c) /\ target'[c] = "over" /\ jump'[c] \notin Alive
      /\ sock'[c] = sock[c] \/ (sock[c] = "open" /\ sock'[c] = "closing_failed")
  BY <1>1, <1>3, OverGoes DEF Only, ConnTypes
<1>6. QueuedOf(c)'
  <2>1. CASE end[c] # "none"
    BY <1>1, <1>2, <1>3, <1>5, <2>1 DEF QueuedOf, QueueOf, Consuming, Settled
  <2>2. CASE end[c] = "none" /\ row[c] # "none"
    <3>1. end'[c] \in Settled /\ queue'[c] # <<>>
      <4>1. /\ <<end'[c]>> # <<>>
            /\ <<"active", end'[c]>> # <<>>
        BY Pairs
      <4> QED
        BY <1>3, <2>2, <4>1
    <3> QED
      BY <1>1, <1>2, <1>3, <1>5, <2>2, <3>1 DEF QueuedOf, QueueOf, Consuming, Settled
  <2>3. CASE row[c] = "none"
    BY <1>1, <1>2, <1>3, <1>5, <2>3 DEF QueuedOf, QueueOf, Consuming, Settled
  <2> QED
    BY <2>1, <2>2, <2>3
<1>7. OnlyEarlyCloseOrphans'
  BY <1>1, <1>5, SameTargets DEF Only, OnlyEarlyCloseOrphans, Alive
<1> QED
  BY <1>4, <1>5, <1>6, <1>7, OthersQueued

LEMMA RestartStep == ASSUME TicketInv, ConnInv, Restart PROVE ConnInv'
<1> USE DEF ConnInv
<1>1. /\ UNCHANGED <<row, end, early, missed>> /\ queue' = [c \in Opens |-> <<>>]
      /\ \A c \in Opens :
           /\ pc'[c] = IF pc[c] \in Consuming THEN "lost"
                       ELSE IF pc[c] \in {"start", "switch", "open"} THEN "cut" ELSE pc[c]
           /\ sock'[c] = IF pc[c] = "idle" THEN sock[c] ELSE "closed"
           /\ target'[c] = IF target[c] = "none" THEN "none" ELSE "over"
           /\ jump'[c] = IF jump[c] = "none" THEN "none" ELSE "over"
  BY DEF Restart, Consuming
<1>2. sock' = [c \in Opens |-> IF pc[c] = "idle" THEN sock[c] ELSE "closed"]
      /\ target' = [c \in Opens |-> IF target[c] = "none" THEN "none" ELSE "over"]
      /\ jump' = [c \in Opens |-> IF jump[c] = "none" THEN "none" ELSE "over"]
  BY DEF Restart
<1>3. <<>> \in Seq({"active"} \cup Settled)
  BY Pairs
<1>4. ConnTypes'
  BY <1>1, <1>2, <1>3 DEF ConnTypes
<1>5. ASSUME NEW c \in Opens PROVE QueuedOf(c)'
  <2>1. QueuedOf(c) /\ queue'[c] = <<>>
    BY <1>1 DEF Queued
  <2> QED
    BY <1>1, <2>1 DEF QueuedOf, QueueOf, Consuming
<1>6. OnlyEarlyCloseOrphans'
  BY <1>1 DEF OnlyEarlyCloseOrphans, Alive
<1> QED
  BY <1>4, <1>5, <1>6 DEF Queued

-----------------------------------------------------------------------------
(* The invariant and the theorems                                          *)

IInv == TicketInv /\ ConnInv

LEMMA IInvInit == Init => IInv
<1> SUFFICES ASSUME Init PROVE IInv
  OBVIOUS
<1>1. TicketInv
  BY TicketInitInv DEF Init
<1>2. ConnTypes
  BY Pairs DEF Init, ConnInit, ConnTypes
<1>3. Queued /\ OnlyEarlyCloseOrphans
  BY DEF Init, ConnInit, TicketInit, Queued, QueuedOf, QueueOf, OnlyEarlyCloseOrphans, Settled,
         Alive
<1> QED
  BY <1>1, <1>2, <1>3 DEF IInv, ConnInv

LEMMA IInvStep == ASSUME IInv, [Next]_vars PROVE IInv' /\ RowGoes
<1> USE DEF IInv
<1>1. CASE TicketStep /\ UNCHANGED connVars
  BY <1>1, TicketInvStep, TicketConnStep DEF RowGoes
<1>2. ASSUME NEW c \in Opens, ConnStep(c) PROVE IInv' /\ RowGoes
  <2>1. CASE StartRow(c)
    BY <2>1, StartRowStep
  <2>2. CASE Switch(c)
    BY <2>2, SwitchStep DEF Switch, RowGoes
  <2>3. CASE Record(c)
    <3>1. TicketInv'
      BY <2>3, TicketInvStays DEF Record
    <3>2. /\ ConnTypes' /\ Queued'
          /\ \E now \in {"active"} \cup Settled :
               /\ row[c] = "starting" \/ (row[c] = "active" /\ now \in Settled)
               /\ UNCHANGED row \/ row' = [row EXCEPT ![c] = now]
      BY <2>3, RecordStep DEF ConnInv
    <3>3. OnlyEarlyCloseOrphans'
      BY <2>3, SameTargets DEF ConnInv, OnlyEarlyCloseOrphans, Record
    <3> QED
      BY <3>1, <3>2, <3>3 DEF ConnInv, RowGoes
  <2>4. CASE ClientLeaves(c)
    BY <2>4, LeaveStep, TicketInvStays DEF ClientLeaves, RowGoes
  <2>5. CASE \E status \in Settled : Close(c, status)
    BY <2>5, CloseStep, TicketInvStays DEF Close, RowGoes
  <2>6. CASE \/ JumpReady(c) \/ JumpEnds(c) \/ Connected(c)
             \/ TargetFails(c) \/ TargetEnds(c) \/ ShellEnds(c)
    <3>1. UNCHANGED <<ticketVars, row>>
      BY <2>6 DEF JumpReady, JumpEnds, Connected, TargetFails, TargetEnds, ShellEnds
    <3> QED
      BY <2>6, <3>1, TargetStep, TicketInvStays DEF RowGoes
  <2>7. CASE AdapterFails(c)
    BY <2>7, AdapterStep, TicketInvStays DEF AdapterFails, RowGoes
  <2> QED
    BY <1>2, <2>1, <2>2, <2>3, <2>4, <2>5, <2>6, <2>7 DEF ConnStep
<1>3. CASE Restart
  BY <1>3, TicketInvRestart, RestartStep DEF Restart, RowGoes
<1>4. CASE UNCHANGED vars
  <2>1. ConnTypes' /\ Queued'
    BY <1>4 DEF ConnInv, ConnTypes, Queued, QueuedOf, QueueOf
  <2>2. OnlyEarlyCloseOrphans'
    BY <1>4, SameTargets DEF ConnInv, OnlyEarlyCloseOrphans
  <2> QED
    BY <1>4, <2>1, <2>2, TicketInvStays DEF ConnInv, RowGoes
<1> QED
  BY <1>1, <1>2, <1>3, <1>4 DEF Next

LEMMA IInvAlways == Spec => []IInv
BY IInvInit, IInvStep, PTL DEF Spec

\* Types of the rows, the tickets, the upgrades and their queues
THEOREM TrackedTypes == Spec => []TypeOK
<1>1. IInv => TypeOK
  <2> SUFFICES ASSUME IInv PROVE TypeOK
    OBVIOUS
  <2>1. ASSUME NEW c \in Opens PROVE Len(queue[c]) <= 2
    <3>1. QueueOf(c)
      BY DEF IInv, ConnInv, Queued, QueuedOf
    <3>2. Len(<<>>) = 0 /\ Len(<<"active">>) = 1
          /\ Len(<<end[c]>>) = 1 /\ Len(<<"active", end[c]>>) = 2
      OBVIOUS
    <3>3. Len(queue[c]) \in {0, 1, 2}
      BY <3>1, <3>2, Zenon DEF QueueOf
    <3>4. \A n \in {0, 1, 2} : n <= 2
      OBVIOUS
    <3> QED
      BY <3>3, <3>4, Zenon
  <2> QED
    BY <2>1 DEF IInv, ConnInv, ConnTypes, TicketInv, TypeOK
<1> QED
  BY <1>1, IInvAlways, PTL

\* However many upgrades present a ticket, one at most is accepted
THEOREM TicketAcceptedOnce == Spec => []AcceptedOnce
<1>1. IInv => AcceptedOnce
  BY DEF IInv, TicketInv, Once
<1> QED
  BY <1>1, IInvAlways, PTL

\* The target and the credential of an accepted upgrade were current at some
\* time after it had arrived
THEOREM TicketTargetWasCurrent == Spec => []TargetWasCurrent
<1>1. IInv => TargetWasCurrent
  BY DEF IInv, TicketInv, Current, TargetWasCurrent
<1> QED
  BY <1>1, IInvAlways, PTL

\* The secret an accepted upgrade uses is the one its ticket was minted with
THEOREM TicketSecretIsMinted == Spec => []SecretIsMinted
<1>1. IInv => SecretIsMinted
  BY DEF IInv, TicketInv, Secret, SecretIsMinted
<1> QED
  BY <1>1, IInvAlways, PTL

\* The row of a closed connection has the status of its first end
THEOREM TrackedRowTellsFirstEnd == Spec => []RowTellsFirstEnd
<1>1. IInv => RowTellsFirstEnd
  BY DEF IInv, ConnInv, Queued, QueuedOf, RowTellsFirstEnd, Tracked
<1> QED
  BY <1>1, IInvAlways, PTL

\* Nothing but an SSH client that was connecting survives its websocket
THEOREM TrackedOnlyEarlyCloseOrphans == Spec => []OnlyEarlyCloseOrphans
BY IInvAlways, PTL DEF IInv, ConnInv

\* The rows of the history implement the life cycle promised to its readers
THEOREM TrackedRowsFollowLifecycle == Spec => RowsFollowLifecycle
<1> USE DEF Lifecycle!Set, Lifecycle!Settled, Lifecycle!Start, Lifecycle!Activate, Lifecycle!Settle
<1>1. Init => Lifecycle!Init
  BY DEF Init, ConnInit, Lifecycle!Init
<1>2. RowGoes => [\E c \in Opens : Lifecycle!Start(c) \/ Lifecycle!Activate(c) \/ Lifecycle!Settle(c)]_row
  BY DEF RowGoes, Settled
<1>3. IInv /\ [Next]_vars => [\E c \in Opens : Lifecycle!Start(c) \/ Lifecycle!Activate(c) \/ Lifecycle!Settle(c)]_row
  BY <1>2, IInvStep
<1> QED
  BY <1>1, <1>3, IInvAlways, PTL DEF Spec, RowsFollowLifecycle, Lifecycle!Spec
=============================================================================
