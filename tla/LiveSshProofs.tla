--------------------------- MODULE LiveSshProofs ---------------------------
(***************************************************************************)
(* Theorems about LiveSsh, for every set of upgrades and tickets, every    *)
(* lifetime, every number of restarts and both bundlings.  TypeOK and what *)
(* sockets know of their end (EndsAreKnown, UpgradesStartClosed) are       *)
(* inductive together; the other invariants follow one by one, those of    *)
(* the row from one lemma that says what any task may do to it (RowMoves). *)
(***************************************************************************)
EXTENDS LiveSsh, TLAPS

USE DEF vars, dbVars, memVars, wsVars, persistVars, timeVars

\* The state right after createOrReuse is well typed.
LEMMA TypeInit == Init => TypeOK
<1> SUFFICES ASSUME Init PROVE TypeOK
  OBVIOUS
<1>1. /\ TicketTtl \in Stamp /\ 0 \in Nat /\ "starting" \in Statuses
      /\ "none" \in Reasons /\ "none" \in AfterPcs /\ "idle" \in ConnPcs
  BY TimeAssumption DEF Stamp, Statuses, Open, Reasons, AfterPcs, ConnPcs
<1>2. row \in [status : Statuses, exp : Stamp] /\ shell \in [by : Peer, att : Peer]
  BY <1>1 DEF Init, NoShell, Peer
<1>3. ticket \in [Tickets -> TicketRecord]
  BY DEF Init, TicketRecord
<1>4. conn \in [Conns -> ConnRecord]
  BY <1>1 DEF Init, ConnRecord
<1>5. reaper \in [Conns -> ReaperRecord]
  BY DEF Init, ReaperRecord, Peer
<1> QED
  BY <1>1, <1>2, <1>3, <1>4, <1>5 DEF Init, TypeOK, NoShell, Peer

\* Moving an upgrade to its next step keeps its record well typed.
LEMMA GotoType ==
  ASSUME TypeOK, NEW c \in Conns, NEW pc \in ConnPcs, Goto(c, pc)
  PROVE  conn' \in [Conns -> ConnRecord]
BY DEF TypeOK, Goto, ConnRecord

\* updateSshLiveSession leaves a well typed row.
LEMMA UpdateRowType ==
  ASSUME TypeOK, NEW status \in Statuses, NEW exp \in Stamp, UpdateRow(status, exp)
  PROVE  row' \in [status : Statuses, exp : Stamp]
BY DEF TypeOK, UpdateRow

\* LiveSshSession.finish empties the map entry and keeps sockets and
\* persisters well typed.
LEMMA FinishType ==
  ASSUME TypeOK, NEW kind \in Final, HasShell, Finish(kind)
  PROVE  /\ shell' \in [by : Peer, att : Peer]
         /\ shell'.att = NoConn
         /\ wire' \in [Conns -> {"none", "open", "closing", "closed"}]
         /\ bye' \in [Conns -> Reasons]
         /\ reaper' \in [Conns -> ReaperRecord]
<1>1. shell.by \in Conns
  BY DEF TypeOK, HasShell, Peer
<1>2. HasActiveAttachment => shell.att \in Conns
  BY DEF TypeOK, HasActiveAttachment, Peer
<1>3. shell' \in [by : Peer, att : Peer] /\ shell'.att = NoConn
  BY DEF Finish, NoShell, Peer
<1>4. wire' \in [Conns -> {"none", "open", "closing", "closed"}]
  BY <1>2 DEF Finish, TypeOK
<1>5. bye' \in [Conns -> Reasons]
  BY <1>2 DEF Finish, TypeOK, Reasons
<1>6. [st |-> "wait", kind |-> kind, on |-> attachMap] \in ReaperRecord
  BY DEF TypeOK, ReaperRecord
<1>7. reaper' \in [Conns -> ReaperRecord]
  BY <1>1, <1>6 DEF Finish, TypeOK
<1> QED
  BY <1>3, <1>4, <1>5, <1>7

\* LiveSshManager.close keeps what it touches well typed.
LEMMA ManagerCloseType ==
  ASSUME TypeOK, ManagerClose
  PROVE  /\ shell' \in [by : Peer, att : Peer]
         /\ shell'.att # NoConn => HasShell'
         /\ wire' \in [Conns -> {"none", "open", "closing", "closed"}]
         /\ bye' \in [Conns -> Reasons]
         /\ reaper' \in [Conns -> ReaperRecord]
BY FinishType DEF ManagerClose, TypeOK, Final, HasShell

\* Settling the promise of a socket close keeps both maps of promises well
\* typed.
LEMMA SettleType ==
  ASSUME TypeOK, NEW c \in Conns, Settle(c)
  PROVE  after' \in [Conns -> AfterPcs] /\ closeMap' \in Peer
BY DEF TypeOK, Settle, AfterPcs, Peer

\* Every step preserves the types.
LEMMA TypeStep == TypeOK /\ EndsAreKnown /\ [Next]_vars => TypeOK'
<1> SUFFICES ASSUME TypeOK, EndsAreKnown, [Next]_vars PROVE TypeOK'
  OBVIOUS
<1>0. /\ {"ended", "failed", "attached", "detached", "stale"} \subseteq Statuses
      /\ NoTime \in Stamp /\ \A n \in Nat : n \in Stamp
  BY DEF Statuses, Open, Final, Stamp
<1>1. {"idle", "rejected", "gone", "resolve", "upgrade", "mark", "refusing", "refused",
       "markWrite", "markExpire", "recorded", "expire", "consume"} = ConnPcs
  BY DEF ConnPcs

<1>2. ASSUME NEW c \in Conns, UpgradeExpire(c)
      PROVE  TypeOK'
  <2>1. conn' \in [Conns -> ConnRecord]
    BY <1>2, <1>1, GotoType DEF UpgradeExpire
  <2>2. row' \in [status : Statuses, exp : Stamp]
    BY <1>2, <1>0, UpdateRowType DEF UpgradeExpire
  <2> QED
    BY <1>2, <2>1, <2>2 DEF UpgradeExpire, TypeOK, HasShell
<1>3. ASSUME NEW c \in Conns, Consume(c)
      PROVE  TypeOK'
  <2>1. conn' \in [Conns -> ConnRecord]
    BY <1>3, <1>1, GotoType DEF Consume
  <2>2. ticket' \in [Tickets -> TicketRecord]
    BY <1>3 DEF Consume, TypeOK, TicketRecord
  <2> QED
    BY <1>3, <2>1, <2>2 DEF Consume, TypeOK, HasShell
<1>4. ASSUME NEW c \in Conns, Resolve(c)
      PROVE  TypeOK'
  <2>1. row.status \in Open => row.status \in Open \cup {"none"}
    OBVIOUS
  <2>2. Attachable(conn[c].at) \/ Expired(conn[c].at) => row.status \in Open
    BY DEF Attachable, Expired, Open
  <2>3. conn' \in [Conns -> ConnRecord]
    BY <1>4, <1>1, <2>2 DEF Resolve, Goto, TypeOK, ConnRecord
  <2> QED
    BY <1>4, <2>1, <2>2, <2>3 DEF Resolve, TypeOK, HasShell
<1>5. ASSUME NEW c \in Conns, Handle(c)
      PROVE  TypeOK'
  <2>1. conn' \in [Conns -> ConnRecord]
    BY <1>5, <1>1, GotoType DEF Handle, Attach
  <2>2. /\ shell' \in [by : Peer, att : Peer]
        /\ shell'.att # NoConn => HasShell'
    BY <1>5, NullAssumption DEF Handle, Attach, TypeOK, Peer, HasShell
  <2>3. /\ wire' \in [Conns -> {"none", "open", "closing", "closed"}]
        /\ bye' \in [Conns -> Reasons]
    BY <1>5 DEF Handle, Attach, TypeOK, Reasons
  <2>4. attachMap' \in Peer
    BY <1>5 DEF Handle, Attach, Peer
  <2> QED
    BY <1>5, <2>1, <2>2, <2>3, <2>4 DEF Handle, Attach, TypeOK, HasShell
<1>6. ASSUME NEW c \in Conns, HandleRefused(c)
      PROVE  TypeOK'
  <2>1. conn' \in [Conns -> ConnRecord]
    BY <1>6, <1>1, GotoType DEF HandleRefused
  <2>2. bye' \in [Conns -> Reasons] /\ NoConn \in Peer
    BY <1>6 DEF HandleRefused, TypeOK, Reasons, Final, Peer
  <2> QED
    BY <1>6, <2>1, <2>2 DEF HandleRefused, TypeOK, HasShell
<1>7. ASSUME NEW c \in Conns, RefusedWrite(c)
      PROVE  TypeOK'
  <2>1. conn' \in [Conns -> ConnRecord]
    BY <1>7, <1>1, GotoType DEF RefusedWrite
  <2>2. row' \in [status : Statuses, exp : Stamp]
    BY <1>7, <1>0, UpdateRowType DEF RefusedWrite
  <2> QED
    BY <1>7, <2>1, <2>2 DEF RefusedWrite, TypeOK, HasShell
<1>8. ASSUME NEW c \in Conns, MarkRead(c)
      PROVE  TypeOK'
  <2>1. conn' \in [Conns -> ConnRecord]
    BY <1>8, <1>1, GotoType DEF MarkRead
  <2>2. attachMap' \in Peer
    BY <1>8 DEF MarkRead, TypeOK, Peer
  <2> QED
    BY <1>8, <2>1, <2>2 DEF MarkRead, TypeOK, HasShell
<1>9. ASSUME NEW c \in Conns, MarkWrite(c)
      PROVE  TypeOK'
  <2>1. conn' \in [Conns -> ConnRecord]
    BY <1>9, <1>1, GotoType DEF MarkWrite
  <2>2. row' \in [status : Statuses, exp : Stamp]
    BY <1>9, <1>0, UpdateRowType DEF MarkWrite
  <2>3. attachMap' \in Peer
    BY <1>9 DEF MarkWrite, Peer
  <2> QED
    BY <1>9, <2>1, <2>2, <2>3 DEF MarkWrite, TypeOK, HasShell
<1>10. ASSUME NEW c \in Conns, MarkExpire(c)
      PROVE  TypeOK'
  <2>1. conn' \in [Conns -> ConnRecord]
    BY <1>10, <1>1, GotoType DEF MarkExpire
  <2>2. row' \in [status : Statuses, exp : Stamp]
    BY <1>10, <1>0, UpdateRowType DEF MarkExpire
  <2>3. attachMap' \in Peer
    BY <1>10 DEF MarkExpire, Peer
  <2>4. /\ shell' \in [by : Peer, att : Peer]
        /\ shell'.att # NoConn => HasShell'
        /\ wire' \in [Conns -> {"none", "open", "closing", "closed"}]
        /\ bye' \in [Conns -> Reasons]
        /\ reaper' \in [Conns -> ReaperRecord]
    BY <1>10, ManagerCloseType DEF MarkExpire, TypeOK, HasShell
  <2> QED
    BY <1>10, <2>1, <2>2, <2>3, <2>4 DEF MarkExpire, TypeOK, HasShell
<1>11. ASSUME NEW c \in Conns, CloseEvent(c)
      PROVE  TypeOK'
  <2>1. shell' \in [by : Peer, att : Peer] /\ (shell'.att # NoConn => HasShell')
    BY <1>11 DEF CloseEvent, TypeOK, Peer, HasShell
  <2>2. bye' \in [Conns -> Reasons] /\ unheard' \in BOOLEAN
    BY <1>11 DEF CloseEvent, TypeOK, Reasons
  <2>3. after' \in [Conns -> AfterPcs] /\ closeMap' \in Peer
    BY <1>11 DEF CloseEvent, TypeOK, AfterPcs, Peer
  <2> QED
    BY <1>11, <2>1, <2>2, <2>3 DEF CloseEvent, TypeOK, HasShell
<1>12. ASSUME NEW c \in Conns, CloseCheck(c)
      PROVE  TypeOK'
  <2>1. after' \in [Conns -> AfterPcs] /\ closeMap' \in Peer
    BY <1>12, SettleType DEF CloseCheck, TypeOK, AfterPcs
  <2>2. conn' \in [Conns -> ConnRecord]
    <3>1. [conn[c] EXCEPT !.at = clock] \in ConnRecord
      BY DEF TypeOK, ConnRecord
    <3>2. conn' = conn \/ conn' = [conn EXCEPT ![c].at = clock]
      BY <1>12 DEF CloseCheck
    <3> QED
      BY <3>1, <3>2 DEF TypeOK
  <2> QED
    BY <1>12, <2>1, <2>2 DEF CloseCheck, TypeOK, HasShell
<1>13. ASSUME NEW c \in Conns, CloseWrite(c)
      PROVE  TypeOK'
  <2>1. after' \in [Conns -> AfterPcs] /\ closeMap' \in Peer
    BY <1>13, SettleType DEF CloseWrite
  <2>2. row' \in [status : Statuses, exp : Stamp]
    BY <1>13, <1>0, UpdateRowType DEF CloseWrite, EndsAreKnown, Final
  <2> QED
    BY <1>13, <2>1, <2>2 DEF CloseWrite, TypeOK, HasShell
<1>14. ASSUME NEW c \in Conns, DetachRead(c)
      PROVE  TypeOK'
  <2>1. after' \in [Conns -> AfterPcs] /\ closeMap' \in Peer
    BY <1>14, SettleType DEF DetachRead, TypeOK, AfterPcs
  <2> QED
    BY <1>14, <2>1 DEF DetachRead, TypeOK, HasShell
<1>15. ASSUME NEW c \in Conns, DetachWrite(c)
      PROVE  TypeOK'
  <2>1. after' \in [Conns -> AfterPcs] /\ closeMap' \in Peer
    BY <1>15, SettleType DEF DetachWrite
  <2>2. conn[c].at + IdleTtl \in Nat
    BY TimeAssumption DEF TypeOK, ConnRecord
  <2>3. row' \in [status : Statuses, exp : Stamp]
    BY <1>15, <1>0, <2>2, UpdateRowType DEF DetachWrite
  <2> QED
    BY <1>15, <2>1, <2>2, <2>3 DEF DetachWrite, TypeOK, HasShell
<1>16. ASSUME NEW c \in Conns, DetachExpire(c)
      PROVE  TypeOK'
  <2>1. after' \in [Conns -> AfterPcs] /\ closeMap' \in Peer
    BY <1>16, SettleType DEF DetachExpire
  <2>2. row' \in [status : Statuses, exp : Stamp]
    BY <1>16, <1>0, UpdateRowType DEF DetachExpire
  <2> QED
    BY <1>16, <2>1, <2>2 DEF DetachExpire, TypeOK, HasShell
<1>17. ASSUME NEW c \in Conns, ReapTimer(c)
      PROVE  TypeOK'
  <2>1. reaper' \in [Conns -> ReaperRecord]
    BY <1>17 DEF ReapTimer, TypeOK, ReaperRecord
  <2> QED
    BY <1>17, <2>1 DEF ReapTimer, TypeOK, HasShell
<1>18. ASSUME NEW c \in Conns, ReapWrite(c)
      PROVE  TypeOK'
  <2>a. reaper \in [Conns -> ReaperRecord]
    BY DEF TypeOK
  <2>b. reaper' = [reaper EXCEPT ![c] = [@ EXCEPT !.st = "done", !.on = NoConn]]
    BY <1>18, <2>a DEF ReapWrite, ReaperRecord
  <2>c. [reaper[c] EXCEPT !.st = "done", !.on = NoConn] \in ReaperRecord
    BY <2>a DEF ReaperRecord, Peer
  <2>1. reaper' \in [Conns -> ReaperRecord]
    BY <2>a, <2>b, <2>c
  <2>2. row' \in [status : Statuses, exp : Stamp]
    BY <1>18, <1>0, UpdateRowType DEF ReapWrite, EndsAreKnown, Final
  <2> QED
    BY <1>18, <2>1, <2>2 DEF ReapWrite, TypeOK, HasShell
<1>19. ASSUME NEW c \in Conns, PeerClose(c)
      PROVE  TypeOK'
  <2>1. bye' \in [Conns -> Reasons]
    BY <1>19 DEF PeerClose, TypeOK, Reasons
  <2> QED
    BY <1>19, <2>1 DEF PeerClose, TypeOK, HasShell
<1>20. ASSUME NEW c \in Conns, DetachFrame(c)
      PROVE  TypeOK'
  <2>1. shell' \in [by : Peer, att : Peer] /\ shell'.att = NoConn
    BY <1>20 DEF DetachFrame, TypeOK, Peer
  <2> QED
    BY <1>20, <2>1 DEF DetachFrame, TypeOK, HasShell
<1>21. ASSUME NEW c \in Conns, CloseFrame(c)
      PROVE  TypeOK'
  <2>1. HasShell
    BY <1>21, NullAssumption DEF CloseFrame, TypeOK
  <2>2. /\ shell' \in [by : Peer, att : Peer] /\ shell'.att = NoConn
        /\ wire' \in [Conns -> {"none", "open", "closing", "closed"}]
        /\ bye' \in [Conns -> Reasons]
        /\ reaper' \in [Conns -> ReaperRecord]
    BY <1>21, <2>1, FinishType DEF CloseFrame, Final
  <2> QED
    BY <1>21, <2>1, <2>2 DEF CloseFrame, TypeOK, HasShell
<1>22. ASSUME NEW c \in Conns, NEW t \in Tickets, UpgradeRead(c, t)
      PROVE  TypeOK'
  <2>1. conn' \in [Conns -> ConnRecord]
    BY <1>22, <1>1 DEF UpgradeRead, TypeOK, ConnRecord
  <2> QED
    BY <1>22, <2>1 DEF UpgradeRead, TypeOK, HasShell
<1>23. ASSUME NEW t \in Tickets, MintRead(t)
      PROVE  TypeOK'
  <2>1. ticket' \in [Tickets -> TicketRecord]
    BY <1>23 DEF MintRead, TypeOK, TicketRecord
  <2> QED
    BY <1>23, <2>1 DEF MintRead, TypeOK, HasShell
<1>24. ASSUME NEW t \in Tickets, MintWrite(t)
      PROVE  TypeOK'
  <2>1. ticket' \in [Tickets -> TicketRecord]
    BY <1>24 DEF MintWrite, TypeOK, TicketRecord
  <2>2. ticket[t].at + TicketTtl \in Stamp
    BY <1>0, TimeAssumption DEF TypeOK, TicketRecord
  <2>3. row' \in [status : Statuses, exp : Stamp]
    BY <1>24, <2>2 DEF MintWrite, TypeOK
  <2> QED
    BY <1>24, <2>1, <2>2, <2>3 DEF MintWrite, TypeOK, HasShell
<1>25. ASSUME NEW t \in Tickets, MintExpire(t)
      PROVE  TypeOK'
  <2>1. ticket' \in [Tickets -> TicketRecord]
    BY <1>25 DEF MintExpire, TypeOK, TicketRecord
  <2>2. row' \in [status : Statuses, exp : Stamp]
    BY <1>25, <1>0, UpdateRowType DEF MintExpire
  <2> QED
    BY <1>25, <2>1, <2>2 DEF MintExpire, TypeOK, HasShell
<1>26. ASSUME ShellEnds
      PROVE  TypeOK'
  <2>1. /\ shell' \in [by : Peer, att : Peer] /\ shell'.att = NoConn
        /\ wire' \in [Conns -> {"none", "open", "closing", "closed"}]
        /\ bye' \in [Conns -> Reasons]
        /\ reaper' \in [Conns -> ReaperRecord]
    BY <1>26, FinishType DEF ShellEnds
  <2> QED
    BY <1>26, <2>1 DEF ShellEnds, TypeOK, HasShell
<1>27. ASSUME CloseCommand
      PROVE  TypeOK'
  <2>1. row' \in [status : Statuses, exp : Stamp]
    BY <1>27, <1>0, UpdateRowType DEF CloseCommand
  <2> QED
    BY <1>27, <2>1 DEF CloseCommand, TypeOK, HasShell
<1>28. ASSUME Sweep
      PROVE  TypeOK'
  <2>1. row' \in [status : Statuses, exp : Stamp]
    BY <1>28, <1>0 DEF Sweep, TypeOK
  <2> QED
    BY <1>28, <2>1 DEF Sweep, TypeOK, HasShell
<1>29. ASSUME MarkStale
      PROVE  TypeOK'
  <2>1. row' \in [status : Statuses, exp : Stamp]
    BY <1>29, <1>0 DEF MarkStale, TypeOK
  <2> QED
    BY <1>29, <2>1 DEF MarkStale, TypeOK, HasShell
<1>30. ASSUME Restart
      PROVE  TypeOK'
  <2>1. ticket' \in [Tickets -> TicketRecord]
    BY <1>30 DEF Restart, TypeOK, TicketRecord
  <2>2. conn' \in [Conns -> ConnRecord]
    <3>1. ASSUME NEW c \in Conns, NEW pc \in ConnPcs
          PROVE  [conn[c] EXCEPT !.pc = pc] \in ConnRecord
      BY <3>1 DEF TypeOK, ConnRecord
    <3> QED
      BY <1>30, <1>1, <3>1 DEF Restart
  <2>3. reaper' \in [Conns -> ReaperRecord] /\ shell' \in [by : Peer, att : Peer]
    BY <1>30 DEF Restart, ReaperRecord, NoShell, Peer
  <2>4. /\ bye' \in [Conns -> Reasons] /\ after' \in [Conns -> AfterPcs]
        /\ attachMap' \in Peer /\ closeMap' \in Peer
    BY <1>30 DEF Restart, Reasons, AfterPcs, Peer
  <2>5. wire' \in [Conns -> {"none", "open", "closing", "closed"}]
    BY <1>30 DEF Restart
  <2> QED
    BY <1>30, <2>1, <2>2, <2>3, <2>4, <2>5 DEF Restart, TypeOK, HasShell, NoShell
<1>31. ASSUME Tick
      PROVE  TypeOK'
  <2> QED
    BY <1>31 DEF Tick, TypeOK, HasShell
<1>32. ASSUME NEW k, Kill(k)
      PROVE  TypeOK'
  <2>1. /\ shell' \in [by : Peer, att : Peer]
        /\ shell'.att # NoConn => HasShell'
        /\ wire' \in [Conns -> {"none", "open", "closing", "closed"}]
        /\ bye' \in [Conns -> Reasons]
        /\ reaper' \in [Conns -> ReaperRecord]
    BY <1>32, ManagerCloseType DEF Kill
  <2> QED
    BY <1>32, <2>1 DEF Kill, TypeOK, HasShell
<1>33. CASE UNCHANGED vars
  BY <1>33 DEF TypeOK, HasShell
<1> QED
  BY <1>2, <1>3, <1>4, <1>5, <1>6, <1>7, <1>8, <1>9, <1>10, <1>11, <1>12, <1>13, <1>14,
     <1>15, <1>16, <1>17, <1>18, <1>19, <1>20, <1>21, <1>22, <1>23, <1>24, <1>25, <1>26,
     <1>27, <1>28, <1>29, <1>30, <1>31, <1>32, <1>33
     DEF Next, ServerStep, ClientStep, Mint, Maintenance

\* An upgrade gets its socket only when the manager gets the upgrade.
LEMMA UpgradesStep ==
  TypeOK /\ UpgradesStartClosed /\ [Next]_vars => UpgradesStartClosed'
<1> SUFFICES ASSUME TypeOK, UpgradesStartClosed, [Next]_vars PROVE UpgradesStartClosed'
  OBVIOUS
<1> USE DEF UpgradesStartClosed
<1>1. ASSUME NEW c \in Conns, UpgradeExpire(c) PROVE UpgradesStartClosed'
  BY <1>1 DEF UpgradeExpire, Goto, TypeOK, ConnRecord
<1>2. ASSUME NEW c \in Conns, Consume(c) PROVE UpgradesStartClosed'
  BY <1>2 DEF Consume, Goto, TypeOK, ConnRecord
<1>3. ASSUME NEW c \in Conns, Resolve(c) PROVE UpgradesStartClosed'
  BY <1>3 DEF Resolve, Goto, TypeOK, ConnRecord
<1>4. ASSUME NEW c \in Conns, Handle(c) PROVE UpgradesStartClosed'
  BY <1>4 DEF Handle, Attach, Goto, HasActiveAttachment, TypeOK, ConnRecord
<1>5. ASSUME NEW c \in Conns, HandleRefused(c) PROVE UpgradesStartClosed'
  BY <1>5 DEF HandleRefused, Goto, TypeOK, ConnRecord
<1>6. ASSUME NEW c \in Conns, RefusedWrite(c) PROVE UpgradesStartClosed'
  BY <1>6 DEF RefusedWrite, Goto, TypeOK, ConnRecord
<1>7. ASSUME NEW c \in Conns, MarkRead(c) PROVE UpgradesStartClosed'
  BY <1>7 DEF MarkRead, Goto, TypeOK, ConnRecord
<1>8. ASSUME NEW c \in Conns, MarkWrite(c) PROVE UpgradesStartClosed'
  BY <1>8 DEF MarkWrite, Goto, TypeOK, ConnRecord
<1>9. ASSUME NEW c \in Conns, MarkExpire(c) PROVE UpgradesStartClosed'
  BY <1>9 DEF MarkExpire, Goto, ManagerClose, Finish, HasActiveAttachment, TypeOK, ConnRecord
<1>10. ASSUME NEW c \in Conns, CloseEvent(c) PROVE UpgradesStartClosed'
  BY <1>10 DEF CloseEvent, Goto, TypeOK, ConnRecord
<1>11. ASSUME NEW c \in Conns, CloseCheck(c) PROVE UpgradesStartClosed'
  BY <1>11 DEF CloseCheck, Goto, TypeOK, ConnRecord
<1>12. ASSUME NEW c \in Conns, CloseWrite(c) PROVE UpgradesStartClosed'
  BY <1>12 DEF CloseWrite, Goto, TypeOK, ConnRecord
<1>13. ASSUME NEW c \in Conns, DetachRead(c) PROVE UpgradesStartClosed'
  BY <1>13 DEF DetachRead, Goto, TypeOK, ConnRecord
<1>14. ASSUME NEW c \in Conns, DetachWrite(c) PROVE UpgradesStartClosed'
  BY <1>14 DEF DetachWrite, Goto, TypeOK, ConnRecord
<1>15. ASSUME NEW c \in Conns, DetachExpire(c) PROVE UpgradesStartClosed'
  BY <1>15 DEF DetachExpire, Goto, TypeOK, ConnRecord
<1>16. ASSUME NEW c \in Conns, ReapTimer(c) PROVE UpgradesStartClosed'
  BY <1>16 DEF ReapTimer, Goto, TypeOK, ConnRecord
<1>17. ASSUME NEW c \in Conns, ReapWrite(c) PROVE UpgradesStartClosed'
  BY <1>17 DEF ReapWrite, Goto, TypeOK, ConnRecord
<1>18. ASSUME NEW c \in Conns, PeerClose(c) PROVE UpgradesStartClosed'
  BY <1>18 DEF PeerClose, Goto, TypeOK, ConnRecord
<1>19. ASSUME NEW c \in Conns, DetachFrame(c) PROVE UpgradesStartClosed'
  BY <1>19 DEF DetachFrame, Goto, TypeOK, ConnRecord
<1>20. ASSUME NEW c \in Conns, CloseFrame(c) PROVE UpgradesStartClosed'
  BY <1>20 DEF CloseFrame, ManagerClose, Finish, HasActiveAttachment, TypeOK, Final
<1>21. ASSUME NEW c \in Conns, NEW t \in Tickets, UpgradeRead(c, t) PROVE UpgradesStartClosed'
  BY <1>21 DEF UpgradeRead, Goto, TypeOK, ConnRecord
<1>22. ASSUME NEW t \in Tickets, MintRead(t) PROVE UpgradesStartClosed'
  BY <1>22 DEF MintRead, Goto, TypeOK, ConnRecord
<1>23. ASSUME NEW t \in Tickets, MintWrite(t) PROVE UpgradesStartClosed'
  BY <1>23 DEF MintWrite, Goto, TypeOK, ConnRecord
<1>24. ASSUME NEW t \in Tickets, MintExpire(t) PROVE UpgradesStartClosed'
  BY <1>24 DEF MintExpire, Goto, TypeOK, ConnRecord
<1>25. ASSUME ShellEnds PROVE UpgradesStartClosed'
  BY <1>25 DEF ShellEnds, ManagerClose, Finish, HasActiveAttachment, TypeOK, Final
<1>26. ASSUME CloseCommand PROVE UpgradesStartClosed'
  BY <1>26 DEF CloseCommand, Goto, TypeOK, ConnRecord
<1>27. ASSUME Sweep PROVE UpgradesStartClosed'
  BY <1>27 DEF Sweep, Goto, TypeOK, ConnRecord
<1>28. ASSUME MarkStale PROVE UpgradesStartClosed'
  BY <1>28 DEF MarkStale, Goto, TypeOK, ConnRecord
<1>29. ASSUME Restart PROVE UpgradesStartClosed'
  BY <1>29 DEF Restart, Goto, TypeOK, ConnRecord
<1>30. ASSUME Tick PROVE UpgradesStartClosed'
  BY <1>30 DEF Tick, Goto, TypeOK, ConnRecord
<1>31. ASSUME NEW k, Kill(k) PROVE UpgradesStartClosed'
  BY <1>31 DEF Kill, ManagerClose, Finish, HasActiveAttachment, TypeOK
<1>32. CASE UNCHANGED vars
  BY <1>32
<1> QED
  BY <1>1, <1>2, <1>3, <1>4, <1>5, <1>6, <1>7, <1>8, <1>9, <1>10, <1>11, <1>12, <1>13,
     <1>14, <1>15, <1>16, <1>17, <1>18, <1>19, <1>20, <1>21, <1>22, <1>23, <1>24, <1>25,
     <1>26, <1>27, <1>28, <1>29, <1>30, <1>31, <1>32
     DEF Next, ServerStep, ClientStep, Mint, Maintenance

\* Every end that is about to be written is one of the two ends.
LEMMA EndsStep ==
  TypeOK /\ UpgradesStartClosed /\ EndsAreKnown /\ [Next]_vars => EndsAreKnown'
<1> SUFFICES ASSUME TypeOK, UpgradesStartClosed, EndsAreKnown, [Next]_vars PROVE EndsAreKnown'
  OBVIOUS
<1> USE DEF EndsAreKnown, Final
<1>1. ASSUME NEW c \in Conns, UpgradeExpire(c) PROVE EndsAreKnown'
  BY <1>1 DEF UpgradeExpire, TypeOK
<1>2. ASSUME NEW c \in Conns, Consume(c) PROVE EndsAreKnown'
  BY <1>2 DEF Consume, TypeOK
<1>3. ASSUME NEW c \in Conns, Resolve(c) PROVE EndsAreKnown'
  BY <1>3 DEF Resolve, TypeOK
<1>4. ASSUME NEW c \in Conns, Handle(c) PROVE EndsAreKnown'
  BY <1>4 DEF Handle, Attach, HasActiveAttachment, TypeOK, UpgradesStartClosed
<1>5. ASSUME NEW c \in Conns, HandleRefused(c) PROVE EndsAreKnown'
  BY <1>5 DEF HandleRefused, TypeOK, UpgradesStartClosed
<1>6. ASSUME NEW c \in Conns, RefusedWrite(c) PROVE EndsAreKnown'
  BY <1>6 DEF RefusedWrite, TypeOK
<1>7. ASSUME NEW c \in Conns, MarkRead(c) PROVE EndsAreKnown'
  BY <1>7 DEF MarkRead, TypeOK
<1>8. ASSUME NEW c \in Conns, MarkWrite(c) PROVE EndsAreKnown'
  BY <1>8 DEF MarkWrite, TypeOK
<1>9. ASSUME NEW c \in Conns, MarkExpire(c) PROVE EndsAreKnown'
  BY <1>9 DEF MarkExpire, ManagerClose, Finish, HasActiveAttachment, TypeOK
<1>10. ASSUME NEW c \in Conns, CloseEvent(c) PROVE EndsAreKnown'
  BY <1>10 DEF CloseEvent, TypeOK
<1>11. ASSUME NEW c \in Conns, CloseCheck(c) PROVE EndsAreKnown'
  BY <1>11 DEF CloseCheck, Settle, TypeOK, Reasons
<1>12. ASSUME NEW c \in Conns, CloseWrite(c) PROVE EndsAreKnown'
  BY <1>12 DEF CloseWrite, Settle, TypeOK
<1>13. ASSUME NEW c \in Conns, DetachRead(c) PROVE EndsAreKnown'
  BY <1>13 DEF DetachRead, Settle, TypeOK
<1>14. ASSUME NEW c \in Conns, DetachWrite(c) PROVE EndsAreKnown'
  BY <1>14 DEF DetachWrite, Settle, TypeOK
<1>15. ASSUME NEW c \in Conns, DetachExpire(c) PROVE EndsAreKnown'
  BY <1>15 DEF DetachExpire, Settle, TypeOK
<1>16. ASSUME NEW c \in Conns, ReapTimer(c) PROVE EndsAreKnown'
  BY <1>16 DEF ReapTimer, TypeOK
<1>17. ASSUME NEW c \in Conns, ReapWrite(c) PROVE EndsAreKnown'
  BY <1>17 DEF ReapWrite, TypeOK
<1>18. ASSUME NEW c \in Conns, PeerClose(c) PROVE EndsAreKnown'
  BY <1>18 DEF PeerClose, TypeOK
<1>19. ASSUME NEW c \in Conns, DetachFrame(c) PROVE EndsAreKnown'
  BY <1>19 DEF DetachFrame, TypeOK
<1>20. ASSUME NEW c \in Conns, CloseFrame(c) PROVE EndsAreKnown'
  BY <1>20 DEF CloseFrame, ManagerClose, Finish, HasActiveAttachment, TypeOK
<1>21. ASSUME NEW c \in Conns, NEW t \in Tickets, UpgradeRead(c, t) PROVE EndsAreKnown'
  BY <1>21 DEF UpgradeRead, TypeOK
<1>22. ASSUME NEW t \in Tickets, MintRead(t) PROVE EndsAreKnown'
  BY <1>22 DEF MintRead, TypeOK
<1>23. ASSUME NEW t \in Tickets, MintWrite(t) PROVE EndsAreKnown'
  BY <1>23 DEF MintWrite, TypeOK
<1>24. ASSUME NEW t \in Tickets, MintExpire(t) PROVE EndsAreKnown'
  BY <1>24 DEF MintExpire, TypeOK
<1>25. ASSUME ShellEnds PROVE EndsAreKnown'
  BY <1>25 DEF ShellEnds, ManagerClose, Finish, HasActiveAttachment, TypeOK
<1>26. ASSUME CloseCommand PROVE EndsAreKnown'
  BY <1>26 DEF CloseCommand, TypeOK
<1>27. ASSUME Sweep PROVE EndsAreKnown'
  BY <1>27 DEF Sweep, TypeOK
<1>28. ASSUME MarkStale PROVE EndsAreKnown'
  BY <1>28 DEF MarkStale, TypeOK
<1>29. ASSUME Restart PROVE EndsAreKnown'
  BY <1>29 DEF Restart, TypeOK
<1>30. ASSUME Tick PROVE EndsAreKnown'
  BY <1>30 DEF Tick, TypeOK
<1>31. ASSUME NEW k, Kill(k) PROVE EndsAreKnown'
  BY <1>31 DEF Kill, ManagerClose, Finish, HasActiveAttachment, TypeOK
<1>32. CASE UNCHANGED vars
  BY <1>32
<1> QED
  BY <1>1, <1>2, <1>3, <1>4, <1>5, <1>6, <1>7, <1>8, <1>9, <1>10, <1>11, <1>12, <1>13,
     <1>14, <1>15, <1>16, <1>17, <1>18, <1>19, <1>20, <1>21, <1>22, <1>23, <1>24, <1>25,
     <1>26, <1>27, <1>28, <1>29, <1>30, <1>31, <1>32
     DEF Next, ServerStep, ClientStep, Mint, Maintenance

\* The inductive invariant the safety theorems rest on.
THEOREM Inductive == Spec => []IInv
<1>1. Init => IInv
  BY TypeInit DEF Init, IInv, UpgradesStartClosed, EndsAreKnown
<1>2. IInv /\ [Next]_vars => IInv'
  BY TypeStep, UpgradesStep, EndsStep DEF IInv
<1> QED
  BY <1>1, <1>2, PTL DEF Spec

\* TypeOK holds whatever the upgrades, the tickets, the lifetimes and the
\* number of restarts are.
THEOREM TypeCorrect == Spec => []TypeOK
<1>1. IInv => TypeOK
  BY DEF IInv
<1> QED
  BY <1>1, Inductive, PTL

\* A socket is opened as the attachment and closed or parked when it stops
\* being it.
LEMMA SocketsStep ==
  IInv /\ SocketsAreServed /\ [Next]_vars => SocketsAreServed'
<1> SUFFICES ASSUME IInv, SocketsAreServed, [Next]_vars PROVE SocketsAreServed'
  OBVIOUS
<1> USE DEF IInv, SocketsAreServed
<1>1. ASSUME NEW c \in Conns, UpgradeExpire(c) PROVE SocketsAreServed'
  BY <1>1, NullAssumption DEF UpgradeExpire, TypeOK
<1>2. ASSUME NEW c \in Conns, Consume(c) PROVE SocketsAreServed'
  BY <1>2, NullAssumption DEF Consume, TypeOK
<1>3. ASSUME NEW c \in Conns, Resolve(c) PROVE SocketsAreServed'
  BY <1>3, NullAssumption DEF Resolve, TypeOK
<1>4. ASSUME NEW c \in Conns, Handle(c) PROVE SocketsAreServed'
  BY <1>4, NullAssumption DEF Handle, Attach, HasActiveAttachment, TypeOK
<1>5. ASSUME NEW c \in Conns, HandleRefused(c) PROVE SocketsAreServed'
  BY <1>5 DEF HandleRefused, HasShell, TypeOK, UpgradesStartClosed
<1>6. ASSUME NEW c \in Conns, RefusedWrite(c) PROVE SocketsAreServed'
  BY <1>6, NullAssumption DEF RefusedWrite, TypeOK
<1>7. ASSUME NEW c \in Conns, MarkRead(c) PROVE SocketsAreServed'
  BY <1>7, NullAssumption DEF MarkRead, TypeOK
<1>8. ASSUME NEW c \in Conns, MarkWrite(c) PROVE SocketsAreServed'
  BY <1>8, NullAssumption DEF MarkWrite, TypeOK
<1>9. ASSUME NEW c \in Conns, MarkExpire(c) PROVE SocketsAreServed'
  BY <1>9, NullAssumption DEF MarkExpire, ManagerClose, Finish, NoShell, HasActiveAttachment, TypeOK
<1>10. ASSUME NEW c \in Conns, CloseEvent(c) PROVE SocketsAreServed'
  BY <1>10, NullAssumption DEF CloseEvent, TypeOK
<1>11. ASSUME NEW c \in Conns, CloseCheck(c) PROVE SocketsAreServed'
  BY <1>11, NullAssumption DEF CloseCheck, TypeOK
<1>12. ASSUME NEW c \in Conns, CloseWrite(c) PROVE SocketsAreServed'
  BY <1>12, NullAssumption DEF CloseWrite, TypeOK
<1>13. ASSUME NEW c \in Conns, DetachRead(c) PROVE SocketsAreServed'
  BY <1>13, NullAssumption DEF DetachRead, TypeOK
<1>14. ASSUME NEW c \in Conns, DetachWrite(c) PROVE SocketsAreServed'
  BY <1>14, NullAssumption DEF DetachWrite, TypeOK
<1>15. ASSUME NEW c \in Conns, DetachExpire(c) PROVE SocketsAreServed'
  BY <1>15, NullAssumption DEF DetachExpire, TypeOK
<1>16. ASSUME NEW c \in Conns, ReapTimer(c) PROVE SocketsAreServed'
  BY <1>16, NullAssumption DEF ReapTimer, TypeOK
<1>17. ASSUME NEW c \in Conns, ReapWrite(c) PROVE SocketsAreServed'
  BY <1>17, NullAssumption DEF ReapWrite, TypeOK
<1>18. ASSUME NEW c \in Conns, PeerClose(c) PROVE SocketsAreServed'
  BY <1>18, NullAssumption DEF PeerClose, TypeOK
<1>19. ASSUME NEW c \in Conns, DetachFrame(c) PROVE SocketsAreServed'
  BY <1>19, NullAssumption DEF DetachFrame, TypeOK
<1>20. ASSUME NEW c \in Conns, CloseFrame(c) PROVE SocketsAreServed'
  BY <1>20, NullAssumption DEF CloseFrame, ManagerClose, Finish, NoShell,
     HasActiveAttachment, TypeOK
<1>21. ASSUME NEW c \in Conns, NEW t \in Tickets, UpgradeRead(c, t) PROVE SocketsAreServed'
  BY <1>21, NullAssumption DEF UpgradeRead, TypeOK
<1>22. ASSUME NEW t \in Tickets, MintRead(t) PROVE SocketsAreServed'
  BY <1>22, NullAssumption DEF MintRead, TypeOK
<1>23. ASSUME NEW t \in Tickets, MintWrite(t) PROVE SocketsAreServed'
  BY <1>23, NullAssumption DEF MintWrite, TypeOK
<1>24. ASSUME NEW t \in Tickets, MintExpire(t) PROVE SocketsAreServed'
  BY <1>24, NullAssumption DEF MintExpire, TypeOK
<1>25. ASSUME ShellEnds PROVE SocketsAreServed'
  BY <1>25, NullAssumption DEF ShellEnds, ManagerClose, Finish, NoShell, HasActiveAttachment, TypeOK
<1>26. ASSUME CloseCommand PROVE SocketsAreServed'
  BY <1>26, NullAssumption DEF CloseCommand, TypeOK
<1>27. ASSUME Sweep PROVE SocketsAreServed'
  BY <1>27, NullAssumption DEF Sweep, TypeOK
<1>28. ASSUME MarkStale PROVE SocketsAreServed'
  BY <1>28, NullAssumption DEF MarkStale, TypeOK
<1>29. ASSUME Restart PROVE SocketsAreServed'
  BY <1>29, NullAssumption DEF Restart, NoShell
<1>30. ASSUME Tick PROVE SocketsAreServed'
  BY <1>30, NullAssumption DEF Tick, TypeOK
<1>31. ASSUME NEW k, Kill(k) PROVE SocketsAreServed'
  BY <1>31, NullAssumption DEF Kill, ManagerClose, Finish, NoShell, HasActiveAttachment, TypeOK
<1>32. CASE UNCHANGED vars
  BY <1>32
<1> QED
  BY <1>1, <1>2, <1>3, <1>4, <1>5, <1>6, <1>7, <1>8, <1>9, <1>10, <1>11, <1>12, <1>13,
     <1>14, <1>15, <1>16, <1>17, <1>18, <1>19, <1>20, <1>21, <1>22, <1>23, <1>24, <1>25,
     <1>26, <1>27, <1>28, <1>29, <1>30, <1>31, <1>32
     DEF Next, ServerStep, ClientStep, Mint, Maintenance

\* One websocket serves the session: an open websocket is the attachment, or
\* was parked by a detach frame.
THEOREM SocketsServed == Spec => []SocketsAreServed
<1>1. Init => SocketsAreServed
  <2>1. Init => shell.att = NoConn /\ \A c \in Conns : wire[c] = "none"
    BY DEF Init, NoShell
  <2> QED
    BY <2>1, NullAssumption DEF SocketsAreServed
<1>2. IInv /\ SocketsAreServed /\ [Next]_vars => SocketsAreServed'
  BY SocketsStep
<1> QED
  BY <1>1, <1>2, Inductive, PTL DEF Spec

\* What leaves the tickets of the upgrades and their admissions alone.
LEMMA AdmissionsKept ==
  ASSUME AdmissionsAreSpent, AdmittedOnce,
         \A c \in Conns : /\ conn'[c].ticket = conn[c].ticket
                          /\ Admitted(c)' => Admitted(c)
                          /\ conn'[c].pc # "idle" => conn[c].pc # "idle",
         \A t \in Tickets : ticket[t].st = "used" => ticket'[t].st = "used"
  PROVE  AdmissionsAreSpent' /\ AdmittedOnce'
<1>1. ASSUME NEW c \in Conns, Admitted(c)
      PROVE  conn[c].ticket \in Tickets /\ ticket[conn[c].ticket].st = "used"
  BY <1>1 DEF AdmissionsAreSpent, Admitted
<1>3. AdmissionsAreSpent'
  BY <1>1 DEF AdmissionsAreSpent
<1>2. AdmittedOnce'
  BY DEF AdmittedOnce, AdmissionsAreSpent
<1> QED
  BY <1>2, <1>3

\* A ticket is used up by the one upgrade that gets past it.
LEMMA AdmissionsStep ==
  TypeOK /\ AdmissionsAreSpent /\ AdmittedOnce /\ [Next]_vars
     => AdmissionsAreSpent' /\ AdmittedOnce'
<1> SUFFICES ASSUME TypeOK, AdmissionsAreSpent, AdmittedOnce, [Next]_vars PROVE AdmissionsAreSpent' /\ AdmittedOnce'
  OBVIOUS
<1> USE DEF AdmissionsAreSpent, AdmittedOnce, Admitted
<1>1. ASSUME NEW c \in Conns, UpgradeExpire(c) PROVE AdmissionsAreSpent' /\ AdmittedOnce'
  BY <1>1 DEF UpgradeExpire, Goto, TypeOK, ConnRecord, TicketRecord
<1>2. ASSUME NEW c \in Conns, Consume(c) PROVE AdmissionsAreSpent' /\ AdmittedOnce'
  BY <1>2 DEF Consume, Goto, TypeOK, ConnRecord, TicketRecord
<1>3. ASSUME NEW c \in Conns, Resolve(c) PROVE AdmissionsAreSpent' /\ AdmittedOnce'
  <2>1. ASSUME NEW d \in Conns
        PROVE  /\ conn'[d].ticket = conn[d].ticket
               /\ Admitted(d)' => Admitted(d)
               /\ conn'[d].pc # "idle" => conn[d].pc # "idle"
    <3>1. conn[c].pc = "resolve" /\ c \in DOMAIN conn /\ conn[c] \in ConnRecord
      BY <1>3 DEF Resolve, TypeOK
    <3>2. CASE d = c
      <4>1. /\ conn'[c].ticket = conn[c].ticket
            /\ conn'[c].pc \in {"upgrade", "expire", "gone"}
        BY <1>3, <3>1 DEF Resolve, Goto, ConnRecord
      <4> QED
        BY <3>1, <3>2, <4>1 DEF Admitted
    <3>3. CASE d # c
      <4>1. conn'[d] = conn[d]
        BY <1>3, <2>1, <3>3 DEF Resolve, Goto, TypeOK
      <4> QED
        BY <4>1 DEF Admitted
    <3> QED
      BY <3>2, <3>3
  <2>2. \A t \in Tickets : ticket[t].st = "used" => ticket'[t].st = "used"
    BY <1>3 DEF Resolve, TypeOK, TicketRecord
  <2> QED
    BY <2>1, <2>2, AdmissionsKept
<1>4. ASSUME NEW c \in Conns, Handle(c) PROVE AdmissionsAreSpent' /\ AdmittedOnce'
  BY <1>4 DEF Handle, Attach, Goto, TypeOK, ConnRecord, TicketRecord
<1>5. ASSUME NEW c \in Conns, HandleRefused(c) PROVE AdmissionsAreSpent' /\ AdmittedOnce'
  BY <1>5 DEF HandleRefused, Goto, TypeOK, ConnRecord, TicketRecord
<1>6. ASSUME NEW c \in Conns, RefusedWrite(c) PROVE AdmissionsAreSpent' /\ AdmittedOnce'
  BY <1>6 DEF RefusedWrite, Goto, TypeOK, ConnRecord, TicketRecord
<1>7. ASSUME NEW c \in Conns, MarkRead(c) PROVE AdmissionsAreSpent' /\ AdmittedOnce'
  <2>1. ASSUME NEW d \in Conns
        PROVE  /\ conn'[d].ticket = conn[d].ticket
               /\ Admitted(d)' => Admitted(d)
               /\ conn'[d].pc # "idle" => conn[d].pc # "idle"
    BY <1>7, <2>1 DEF MarkRead, Goto, TypeOK, ConnRecord, Admitted
  <2>2. \A t \in Tickets : ticket[t].st = "used" => ticket'[t].st = "used"
    BY <1>7 DEF MarkRead, TypeOK, TicketRecord
  <2> QED
    BY <2>1, <2>2, AdmissionsKept
<1>8. ASSUME NEW c \in Conns, MarkWrite(c) PROVE AdmissionsAreSpent' /\ AdmittedOnce'
  BY <1>8 DEF MarkWrite, Goto, TypeOK, ConnRecord, TicketRecord
<1>9. ASSUME NEW c \in Conns, MarkExpire(c) PROVE AdmissionsAreSpent' /\ AdmittedOnce'
  BY <1>9 DEF MarkExpire, Goto, TypeOK, ConnRecord, TicketRecord
<1>10. ASSUME NEW c \in Conns, CloseEvent(c) PROVE AdmissionsAreSpent' /\ AdmittedOnce'
  BY <1>10 DEF CloseEvent
<1>11. ASSUME NEW c \in Conns, CloseCheck(c) PROVE AdmissionsAreSpent' /\ AdmittedOnce'
  <2>1. ASSUME NEW d \in Conns
        PROVE  /\ conn'[d].ticket = conn[d].ticket
               /\ Admitted(d)' => Admitted(d)
               /\ conn'[d].pc # "idle" => conn[d].pc # "idle"
    BY <1>11, <2>1 DEF CloseCheck, Goto, TypeOK, ConnRecord, Admitted
  <2>2. \A t \in Tickets : ticket[t].st = "used" => ticket'[t].st = "used"
    BY <1>11 DEF CloseCheck, TypeOK, TicketRecord
  <2> QED
    BY <2>1, <2>2, AdmissionsKept
<1>12. ASSUME NEW c \in Conns, CloseWrite(c) PROVE AdmissionsAreSpent' /\ AdmittedOnce'
  BY <1>12 DEF CloseWrite
<1>13. ASSUME NEW c \in Conns, DetachRead(c) PROVE AdmissionsAreSpent' /\ AdmittedOnce'
  BY <1>13 DEF DetachRead
<1>14. ASSUME NEW c \in Conns, DetachWrite(c) PROVE AdmissionsAreSpent' /\ AdmittedOnce'
  BY <1>14 DEF DetachWrite
<1>15. ASSUME NEW c \in Conns, DetachExpire(c) PROVE AdmissionsAreSpent' /\ AdmittedOnce'
  BY <1>15 DEF DetachExpire
<1>16. ASSUME NEW c \in Conns, ReapTimer(c) PROVE AdmissionsAreSpent' /\ AdmittedOnce'
  BY <1>16 DEF ReapTimer
<1>17. ASSUME NEW c \in Conns, ReapWrite(c) PROVE AdmissionsAreSpent' /\ AdmittedOnce'
  BY <1>17 DEF ReapWrite
<1>18. ASSUME NEW c \in Conns, PeerClose(c) PROVE AdmissionsAreSpent' /\ AdmittedOnce'
  BY <1>18 DEF PeerClose
<1>19. ASSUME NEW c \in Conns, DetachFrame(c) PROVE AdmissionsAreSpent' /\ AdmittedOnce'
  BY <1>19 DEF DetachFrame
<1>20. ASSUME NEW c \in Conns, CloseFrame(c) PROVE AdmissionsAreSpent' /\ AdmittedOnce'
  BY <1>20 DEF CloseFrame
<1>21. ASSUME NEW c \in Conns, NEW t \in Tickets, UpgradeRead(c, t) PROVE AdmissionsAreSpent' /\ AdmittedOnce'
  BY <1>21 DEF UpgradeRead, Goto, TypeOK, ConnRecord, TicketRecord
<1>22. ASSUME NEW t \in Tickets, MintRead(t) PROVE AdmissionsAreSpent' /\ AdmittedOnce'
  BY <1>22 DEF MintRead, Goto, TypeOK, ConnRecord, TicketRecord
<1>23. ASSUME NEW t \in Tickets, MintWrite(t) PROVE AdmissionsAreSpent' /\ AdmittedOnce'
  BY <1>23 DEF MintWrite, Goto, TypeOK, ConnRecord, TicketRecord
<1>24. ASSUME NEW t \in Tickets, MintExpire(t) PROVE AdmissionsAreSpent' /\ AdmittedOnce'
  BY <1>24 DEF MintExpire, Goto, TypeOK, ConnRecord, TicketRecord
<1>25. ASSUME ShellEnds PROVE AdmissionsAreSpent' /\ AdmittedOnce'
  BY <1>25 DEF ShellEnds
<1>26. ASSUME CloseCommand PROVE AdmissionsAreSpent' /\ AdmittedOnce'
  BY <1>26 DEF CloseCommand
<1>27. ASSUME Sweep PROVE AdmissionsAreSpent' /\ AdmittedOnce'
  BY <1>27 DEF Sweep
<1>28. ASSUME MarkStale PROVE AdmissionsAreSpent' /\ AdmittedOnce'
  BY <1>28 DEF MarkStale
<1>29. ASSUME Restart PROVE AdmissionsAreSpent' /\ AdmittedOnce'
  <2>1. ASSUME NEW d \in Conns
        PROVE  /\ conn'[d].ticket = conn[d].ticket
               /\ Admitted(d)' => Admitted(d)
               /\ conn'[d].pc # "idle" => conn[d].pc # "idle"
    BY <1>29, <2>1 DEF Restart, Goto, TypeOK, ConnRecord, Admitted
  <2>2. \A t \in Tickets : ticket[t].st = "used" => ticket'[t].st = "used"
    BY <1>29 DEF Restart, TypeOK, TicketRecord
  <2> QED
    BY <2>1, <2>2, AdmissionsKept
<1>30. ASSUME Tick PROVE AdmissionsAreSpent' /\ AdmittedOnce'
  BY <1>30 DEF Tick
<1>31. ASSUME NEW k, Kill(k) PROVE AdmissionsAreSpent' /\ AdmittedOnce'
  BY <1>31 DEF Kill
<1>32. CASE UNCHANGED vars
  BY <1>32
<1> QED
  BY <1>1, <1>2, <1>3, <1>4, <1>5, <1>6, <1>7, <1>8, <1>9, <1>10, <1>11, <1>12, <1>13,
     <1>14, <1>15, <1>16, <1>17, <1>18, <1>19, <1>20, <1>21, <1>22, <1>23, <1>24, <1>25,
     <1>26, <1>27, <1>28, <1>29, <1>30, <1>31, <1>32
     DEF Next, ServerStep, ClientStep, Mint, Maintenance

\* A ticket admits one websocket, however many upgrades read it first.
THEOREM TicketsAdmitOnce == Spec => []AdmittedOnce
<1>1. Init => AdmissionsAreSpent /\ AdmittedOnce
  BY DEF Init, AdmissionsAreSpent, AdmittedOnce, Admitted
<1>2. TypeOK /\ AdmissionsAreSpent /\ AdmittedOnce /\ [Next]_vars
        => AdmissionsAreSpent' /\ AdmittedOnce'
  BY AdmissionsStep
<1> QED
  BY <1>1, <1>2, TypeCorrect, PTL DEF Spec

\* A step of SessionLifecycle, or none, as far as the row goes
RowMove == Lifecycle!LifeNext \/ (row'.status = row.status /\ row'.exp = row.exp)

\* The guarded UPDATE: what it may do to a row.
LEMMA UpdateRowMoves ==
  ASSUME IInv, NEW status \in {"attached", "detached", "ended", "failed"}, NEW exp \in Stamp,
         status = "detached" <=> exp # NoTime, UpdateRow(status, exp)
  PROVE  RowMove
<1>1. CASE ~MayBecome(status)
  BY <1>1 DEF UpdateRow, RowMove
<1>2. CASE MayBecome(status)
  <2>1. /\ row'.status = status /\ row'.exp = exp
        /\ row.status \in Open \/ (row.status = "stale" /\ status = "ended")
    BY <1>2 DEF UpdateRow, MayBecome
  <2> QED
    BY <2>1 DEF RowMove, Lifecycle!LifeNext, Lifecycle!Attach, Lifecycle!Detach, Lifecycle!End,
                Lifecycle!Fail, Lifecycle!Live, Open
<1> QED
  BY <1>1, <1>2

\* Every task that writes the row makes a move of SessionLifecycle.
LEMMA RowMoves == IInv /\ [Next]_vars => RowMove
<1> SUFFICES ASSUME IInv, [Next]_vars PROVE RowMove
  OBVIOUS
<1>0. NoTime \in Stamp /\ \A n \in Nat : n \in Stamp /\ n # NoTime
  BY DEF Stamp, NoTime
<1>1. ASSUME NEW c \in Conns, UpgradeExpire(c) PROVE RowMove
  BY <1>1, <1>0, UpdateRowMoves DEF UpgradeExpire
<1>2. ASSUME NEW c \in Conns, Consume(c) PROVE RowMove
  BY <1>2 DEF Consume, RowMove
<1>3. ASSUME NEW c \in Conns, Resolve(c) PROVE RowMove
  BY <1>3 DEF Resolve, RowMove
<1>4. ASSUME NEW c \in Conns, Handle(c) PROVE RowMove
  BY <1>4 DEF Handle, Attach, RowMove
<1>5. ASSUME NEW c \in Conns, HandleRefused(c) PROVE RowMove
  BY <1>5 DEF HandleRefused, RowMove
<1>6. ASSUME NEW c \in Conns, RefusedWrite(c) PROVE RowMove
  BY <1>6, <1>0, UpdateRowMoves DEF RefusedWrite
<1>7. ASSUME NEW c \in Conns, MarkRead(c) PROVE RowMove
  BY <1>7 DEF MarkRead, RowMove
<1>8. ASSUME NEW c \in Conns, MarkWrite(c) PROVE RowMove
  BY <1>8, <1>0, UpdateRowMoves DEF MarkWrite
<1>9. ASSUME NEW c \in Conns, MarkExpire(c) PROVE RowMove
  BY <1>9, <1>0, UpdateRowMoves DEF MarkExpire
<1>10. ASSUME NEW c \in Conns, CloseEvent(c) PROVE RowMove
  BY <1>10 DEF CloseEvent, RowMove
<1>11. ASSUME NEW c \in Conns, CloseCheck(c) PROVE RowMove
  BY <1>11 DEF CloseCheck, RowMove
<1>12. ASSUME NEW c \in Conns, CloseWrite(c) PROVE RowMove
  <2>1. bye[c] \in Final
    BY <1>12 DEF CloseWrite, IInv, EndsAreKnown
  <2> QED
    BY <1>12, <1>0, <2>1, UpdateRowMoves DEF CloseWrite, Final
<1>13. ASSUME NEW c \in Conns, DetachRead(c) PROVE RowMove
  BY <1>13 DEF DetachRead, RowMove
<1>14. ASSUME NEW c \in Conns, DetachWrite(c) PROVE RowMove
  <2>1. conn[c].at + IdleTtl \in Nat
    BY TimeAssumption DEF IInv, TypeOK, ConnRecord
  <2> QED
    BY <1>14, <1>0, <2>1, UpdateRowMoves DEF DetachWrite
<1>15. ASSUME NEW c \in Conns, DetachExpire(c) PROVE RowMove
  BY <1>15, <1>0, UpdateRowMoves DEF DetachExpire
<1>16. ASSUME NEW c \in Conns, ReapTimer(c) PROVE RowMove
  BY <1>16 DEF ReapTimer, RowMove
<1>17. ASSUME NEW c \in Conns, ReapWrite(c) PROVE RowMove
  <2>1. reaper[c].kind \in Final
    BY <1>17 DEF ReapWrite, IInv, EndsAreKnown
  <2> QED
    BY <1>17, <1>0, <2>1, UpdateRowMoves DEF ReapWrite, Final
<1>18. ASSUME NEW c \in Conns, PeerClose(c) PROVE RowMove
  BY <1>18 DEF PeerClose, RowMove
<1>19. ASSUME NEW c \in Conns, DetachFrame(c) PROVE RowMove
  BY <1>19 DEF DetachFrame, RowMove
<1>20. ASSUME NEW c \in Conns, CloseFrame(c) PROVE RowMove
  BY <1>20 DEF CloseFrame, RowMove
<1>21. ASSUME NEW c \in Conns, NEW t \in Tickets, UpgradeRead(c, t) PROVE RowMove
  BY <1>21 DEF UpgradeRead, RowMove
<1>22. ASSUME NEW t \in Tickets, MintRead(t) PROVE RowMove
  BY <1>22 DEF MintRead, RowMove
<1>23. ASSUME NEW t \in Tickets, MintWrite(t) PROVE RowMove
  <2>1. ticket[t].at + TicketTtl \in Nat
    BY TimeAssumption DEF IInv, TypeOK, TicketRecord
  <2>2. CASE ticket[t].extend
    <3>1. row'.status = row.status /\ row'.exp # NoTime
      BY <1>23, <1>0, <2>1, <2>2 DEF MintWrite, IInv, TypeOK
    <3> QED
      BY <3>1 DEF RowMove, Lifecycle!LifeNext, Lifecycle!Extend
  <2>3. CASE ~ticket[t].extend
    BY <1>23, <2>3 DEF MintWrite, RowMove
  <2> QED
    BY <2>2, <2>3
<1>24. ASSUME NEW t \in Tickets, MintExpire(t) PROVE RowMove
  BY <1>24, <1>0, UpdateRowMoves DEF MintExpire
<1>25. ASSUME ShellEnds PROVE RowMove
  BY <1>25 DEF ShellEnds, RowMove
<1>26. ASSUME CloseCommand PROVE RowMove
  BY <1>26, <1>0, UpdateRowMoves DEF CloseCommand
<1>27. ASSUME Sweep PROVE RowMove
  <2>1. row.status \in Open /\ row'.status = "ended"
    BY <1>27 DEF Sweep, Expired, Open, IInv, TypeOK
  <2> QED
    BY <2>1 DEF RowMove, Lifecycle!LifeNext, Lifecycle!End, Lifecycle!Live, Open
<1>28. ASSUME MarkStale PROVE RowMove
  <2>1. CASE row.status \in Open
    <3>1. row'.status = "stale" /\ row'.exp = row.exp
      BY <1>28, <2>1 DEF MarkStale, IInv, TypeOK
    <3> QED
      BY <2>1, <3>1 DEF RowMove, Lifecycle!LifeNext, Lifecycle!Lose, Lifecycle!Live, Open
  <2>2. CASE row.status \notin Open
    BY <1>28, <2>2 DEF MarkStale, RowMove
  <2> QED
    BY <2>1, <2>2
<1>29. ASSUME Restart PROVE RowMove
  BY <1>29 DEF Restart, RowMove
<1>30. ASSUME Tick PROVE RowMove
  BY <1>30 DEF Tick, RowMove
<1>31. ASSUME NEW k, Kill(k) PROVE RowMove
  BY <1>31 DEF Kill, RowMove
<1>32. CASE UNCHANGED vars
  BY <1>32 DEF RowMove
<1> QED
  BY <1>1, <1>2, <1>3, <1>4, <1>5, <1>6, <1>7, <1>8, <1>9, <1>10, <1>11, <1>12, <1>13,
     <1>14, <1>15, <1>16, <1>17, <1>18, <1>19, <1>20, <1>21, <1>22, <1>23, <1>24, <1>25,
     <1>26, <1>27, <1>28, <1>29, <1>30, <1>31, <1>32
     DEF Next, ServerStep, ClientStep, Mint, Maintenance

\* The row of every session, whatever the races, lives a history of
\* SessionLifecycle.
THEOREM RowFollowsLifecycle == Spec => FollowsLifecycle
<1>1. Init => Lifecycle!LifeInit
  BY TimeAssumption DEF Init, Lifecycle!LifeInit, NoTime
<1>2. IInv /\ [Next]_vars => [Lifecycle!LifeNext]_Lifecycle!life
  BY RowMoves DEF RowMove, Lifecycle!life
<1> QED
  BY <1>1, <1>2, Inductive, PTL DEF Spec, FollowsLifecycle, Lifecycle!LifeSpec

\* An ended or failed row keeps its status.
THEOREM FinalStatusesStick == Spec => FinalStatusSticks
<1>1. IInv /\ [Next]_vars => [row.status \in Final => row'.status = row.status]_vars
  BY RowMoves DEF RowMove, Final, Lifecycle!LifeNext, Lifecycle!Attach, Lifecycle!Detach,
                  Lifecycle!End, Lifecycle!Fail, Lifecycle!Lose, Lifecycle!Extend, Lifecycle!Live
<1> QED
  BY <1>1, Inductive, PTL DEF Spec, FinalStatusSticks

\* A row nobody is attached to has an expiry.
THEOREM UnattachedExpire == Spec => []UnattachedRowsExpire
<1>1. Init => UnattachedRowsExpire
  BY TimeAssumption DEF Init, UnattachedRowsExpire, NoTime
<1>2. IInv /\ UnattachedRowsExpire /\ [Next]_vars => UnattachedRowsExpire'
  BY RowMoves DEF UnattachedRowsExpire, RowMove, Lifecycle!LifeNext, Lifecycle!Attach,
                  Lifecycle!Detach, Lifecycle!End, Lifecycle!Fail, Lifecycle!Lose, Lifecycle!Extend
<1> QED
  BY <1>1, <1>2, Inductive, PTL DEF Spec

\* Only a restart and the stale marking it owes touch boots and staleDue.
LEMMA TimersKept ==
  [Next]_vars /\ ~Restart /\ ~MarkStale => boots' = boots /\ staleDue' = staleDue
<1> SUFFICES ASSUME [Next]_vars, ~Restart, ~MarkStale PROVE boots' = boots /\ staleDue' = staleDue
  OBVIOUS
<1>1. CASE \E c \in Conns : ServerStep(c)
  BY <1>1 DEF ServerStep, UpgradeExpire, Consume, Resolve, Handle, Attach, HandleRefused,
     RefusedWrite,
              MarkRead, MarkWrite, MarkExpire, CloseEvent, CloseCheck, CloseWrite, DetachRead,
              DetachWrite, DetachExpire, ReapTimer, ReapWrite
<1>2. CASE \E c \in Conns : ClientStep(c)
  BY <1>2 DEF ClientStep, UpgradeRead, PeerClose, DetachFrame, CloseFrame
<1>3. CASE \E t \in Tickets : Mint(t)
  BY <1>3 DEF Mint, MintRead, MintWrite, MintExpire
<1>4. CASE Maintenance
  BY <1>4 DEF Maintenance, ShellEnds, CloseCommand, Sweep, Tick, Kill
<1>5. CASE UNCHANGED vars
  BY <1>5
<1> QED
  BY <1>1, <1>2, <1>3, <1>4, <1>5 DEF Next

\* After a restart has marked the row, nothing revives it.
THEOREM NoRevival == Spec => []NoRevivalAfterRestart
<1>1. Init => NoRevivalAfterRestart
  BY DEF Init, NoRevivalAfterRestart
<1>2. IInv /\ NoRevivalAfterRestart /\ [Next]_vars => NoRevivalAfterRestart'
  <2> SUFFICES ASSUME IInv, NoRevivalAfterRestart, [Next]_vars PROVE NoRevivalAfterRestart'
    OBVIOUS
  <2>1. row.status \notin Open => row'.status \notin Open
    BY RowMoves DEF RowMove, Open, Lifecycle!LifeNext, Lifecycle!Attach, Lifecycle!Detach,
                    Lifecycle!End, Lifecycle!Fail, Lifecycle!Lose, Lifecycle!Extend, Lifecycle!Live
  <2>2. CASE Restart
    BY <2>2 DEF Restart, NoRevivalAfterRestart
  <2>3. CASE MarkStale
    <3>1. row'.status \notin Open
      BY <2>3 DEF MarkStale, Open, IInv, TypeOK
    <3> QED
      BY <3>1 DEF NoRevivalAfterRestart
  <2>4. CASE ~Restart /\ ~MarkStale
    <3>1. boots' = boots /\ staleDue' = staleDue
      BY <2>4, TimersKept
    <3> QED
      BY <2>1, <3>1 DEF NoRevivalAfterRestart
  <2> QED
    BY <2>2, <2>3, <2>4
<1> QED
  BY <1>1, <1>2, Inductive, PTL DEF Spec

\* A step that leaves the shell alone and drops no debt without closing the
\* row keeps the end owed.
LEMMA DebtKept ==
  ASSUME IInv, EndIsOwed, [Next]_vars,
         HasShell' = HasShell, unheard => unheard', staleDue => staleDue' \/ row'.status \notin Open,
         \A c \in Conns : /\ Handed(c)' => Handed(c) \/ OwesEnd(c)'
                          /\ OwesEnd(c) => OwesEnd(c)' \/ row'.status \notin Open \/ HasShell \/ unheard'
                          /\ conn'[c].pc = "refused" =>
                               conn[c].pc = "refused" \/ row'.status \notin Open
  PROVE  EndIsOwed'
<1>1. row.status \notin Open => row'.status \notin Open
  BY RowMoves DEF RowMove, Open, Lifecycle!LifeNext, Lifecycle!Attach, Lifecycle!Detach,
                  Lifecycle!End, Lifecycle!Fail, Lifecycle!Lose, Lifecycle!Extend, Lifecycle!Live
<1>2. \A c \in Conns : conn'[c].pc = "refused" => row'.status \notin Open
  BY <1>1 DEF EndIsOwed
<1>3. ASSUME ~HasShell', ~unheard', ~staleDue', row'.status \in Open, NEW c \in Conns, Handed(c)'
      PROVE  \E d \in Conns : OwesEnd(d)'
  <2>1. ~HasShell /\ ~unheard /\ ~staleDue /\ row.status \in Open
    BY <1>1, <1>3
  <2>2. CASE Handed(c)
    <3>1. PICK d \in Conns : OwesEnd(d)
      BY <2>1, <2>2 DEF EndIsOwed
    <3> QED
      BY <1>3, <2>1, <3>1
  <2> QED
    BY <1>3, <2>2
<1> QED
  BY <1>2, <1>3 DEF EndIsOwed

\* The end of a session is owed by its close listener or by the websocket that
\* is told.
LEMMA FinishOwes ==
  ASSUME IInv, HasShell, NEW kind \in Final, Finish(kind), UNCHANGED after
  PROVE  \E c \in Conns : OwesEnd(c)'
<1>1. CASE HasActiveAttachment /\ kind = "ended"
  <2>1. shell.att \in Conns
    BY <1>1 DEF HasActiveAttachment, IInv, TypeOK, Peer
  <2>2. wire'[shell.att] = "closing" /\ bye'[shell.att] \in Final
    BY <1>1, <2>1 DEF Finish, IInv, TypeOK
  <2> QED
    BY <2>1, <2>2 DEF OwesEnd
<1>2. CASE ~(HasActiveAttachment /\ kind = "ended")
  <2>1. shell.by \in Conns
    BY DEF HasShell, IInv, TypeOK, Peer
  <2>2. reaper'[shell.by].st = "wait"
    BY <1>2, <2>1 DEF Finish, IInv, TypeOK
  <2> QED
    BY <2>1, <2>2 DEF OwesEnd
<1> QED
  BY <1>1, <1>2

\* Whatever a session's end races with, somebody still owes it to the row.
LEMMA OwedStep == IInv /\ EndIsOwed /\ [Next]_vars => EndIsOwed'
<1> SUFFICES ASSUME IInv, EndIsOwed, [Next]_vars PROVE EndIsOwed'
  OBVIOUS
<1> USE DEF HasShell
<1>1. ASSUME NEW c \in Conns, UpgradeExpire(c) PROVE EndIsOwed'
  BY <1>1, DebtKept DEF UpgradeExpire, Goto, IInv, TypeOK, ConnRecord, Handed, OwesEnd
<1>2. ASSUME NEW c \in Conns, Consume(c) PROVE EndIsOwed'
  BY <1>2, DebtKept DEF Consume, Goto, IInv, TypeOK, ConnRecord, Handed, OwesEnd
<1>3. ASSUME NEW c \in Conns, Resolve(c) PROVE EndIsOwed'
  BY <1>3, DebtKept DEF Resolve, Goto, IInv, TypeOK, ConnRecord, Handed, OwesEnd
<1>4. ASSUME NEW c \in Conns, Handle(c) PROVE EndIsOwed'
  <2>1. HasShell'
    BY <1>4, NullAssumption DEF Handle, Attach
  <2>2. conn'[c].pc = "mark" /\ \A d \in Conns : d # c => conn'[d] = conn[d]
    BY <1>4 DEF Handle, Goto, IInv, TypeOK, ConnRecord
  <2> QED
    BY <1>4, <2>1, <2>2 DEF Handle, EndIsOwed
<1>5. ASSUME NEW c \in Conns, HandleRefused(c) PROVE EndIsOwed'
  <2>1. conn'[c].pc = "refusing" /\ \A d \in Conns : d # c => conn'[d] = conn[d]
    BY <1>5 DEF HandleRefused, Goto, IInv, TypeOK, ConnRecord
  <2> QED
    BY <1>5, <2>1 DEF HandleRefused, EndIsOwed, OwesEnd
<1>6. ASSUME NEW c \in Conns, RefusedWrite(c) PROVE EndIsOwed'
  <2>1. row'.status \notin Open
    BY <1>6 DEF RefusedWrite, UpdateRow, MayBecome, Open, Final, IInv, TypeOK
  <2> QED
    BY <2>1 DEF EndIsOwed
<1>7. ASSUME NEW c \in Conns, MarkRead(c) PROVE EndIsOwed'
  BY <1>7, DebtKept DEF MarkRead, Goto, IInv, TypeOK, ConnRecord, Handed, OwesEnd
<1>8. ASSUME NEW c \in Conns, MarkWrite(c) PROVE EndIsOwed'
  BY <1>8, DebtKept DEF MarkWrite, Goto, IInv, TypeOK, ConnRecord, Handed, OwesEnd
<1>9. ASSUME NEW c \in Conns, MarkExpire(c) PROVE EndIsOwed'
  <2>1. row'.status \notin Open
    BY <1>9 DEF MarkExpire, UpdateRow, MayBecome, Open, IInv, TypeOK
  <2> QED
    BY <2>1 DEF EndIsOwed
<1>10. ASSUME NEW c \in Conns, CloseEvent(c) PROVE EndIsOwed'
  <2>1. ASSUME NEW d \in Conns PROVE OwesEnd(d) => OwesEnd(d)' \/ unheard'
    BY <1>10 DEF CloseEvent, IInv, TypeOK, OwesEnd, Final
  <2> QED
    BY <1>10, <2>1, DebtKept DEF CloseEvent, Handed, IInv, TypeOK
<1>11. ASSUME NEW c \in Conns, CloseCheck(c) PROVE EndIsOwed'
  <2>1. \A d \in Conns : conn'[d].pc = conn[d].pc
    BY <1>11 DEF CloseCheck, IInv, TypeOK, ConnRecord
  <2>2. ASSUME NEW d \in Conns, OwesEnd(d)
        PROVE  OwesEnd(d)' \/ row'.status \notin Open \/ HasShell
    <3>1. CASE d # c \/ reaper[d].st \in {"wait", "flush"} \/ conn[d].pc = "refusing"
      BY <1>11, <2>1, <2>2, <3>1 DEF CloseCheck, Settle, IInv, TypeOK, OwesEnd
    <3>2. CASE d = c /\ bye[c] \in Final /\ conn[c].pc = "recorded" /\ ~HasActiveAttachment
      BY <1>11, <3>2 DEF CloseCheck, IInv, TypeOK, OwesEnd, Final
    <3>3. CASE d = c /\ conn[c].pc = "refused"
      BY <1>11, <3>3 DEF CloseCheck, EndIsOwed
    <3>4. HasActiveAttachment => HasShell
      BY DEF HasActiveAttachment, IInv, TypeOK
    <3>5. conn[c].pc \in {"recorded", "refusing", "refused"} /\ after[c] = "wait"
      BY <1>11 DEF CloseCheck, Recorded
    <3>6. wire[c] = "closed"
      BY <3>5 DEF IInv, EndsAreKnown
    <3> QED
      BY <2>2, <3>1, <3>2, <3>3, <3>4, <3>5, <3>6 DEF OwesEnd
  <2> QED
    BY <1>11, <2>1, <2>2, DebtKept DEF CloseCheck, Handed
<1>12. ASSUME NEW c \in Conns, CloseWrite(c) PROVE EndIsOwed'
  <2>1. row'.status \notin Open
    BY <1>12 DEF CloseWrite, UpdateRow, MayBecome, Open, Final, IInv, TypeOK, EndsAreKnown
  <2> QED
    BY <2>1, <1>12 DEF CloseWrite, EndIsOwed
<1>13. ASSUME NEW c \in Conns, DetachRead(c) PROVE EndIsOwed'
  BY <1>13, DebtKept DEF DetachRead, Settle, IInv, TypeOK, ConnRecord, Handed, OwesEnd
<1>14. ASSUME NEW c \in Conns, DetachWrite(c) PROVE EndIsOwed'
  BY <1>14, DebtKept DEF DetachWrite, Settle, IInv, TypeOK, ConnRecord, Handed, OwesEnd
<1>15. ASSUME NEW c \in Conns, DetachExpire(c) PROVE EndIsOwed'
  BY <1>15, DebtKept DEF DetachExpire, Settle, IInv, TypeOK, ConnRecord, Handed, OwesEnd
<1>16. ASSUME NEW c \in Conns, ReapTimer(c) PROVE EndIsOwed'
  <2>1. \A d \in Conns : reaper[d].st \in {"wait", "flush"} => reaper'[d].st \in {"wait", "flush"}
    BY <1>16 DEF ReapTimer, IInv, TypeOK, ReaperRecord
  <2> QED
    BY <1>16, <2>1, DebtKept DEF ReapTimer, Handed, OwesEnd
<1>17. ASSUME NEW c \in Conns, ReapWrite(c) PROVE EndIsOwed'
  <2>1. row'.status \notin Open
    BY <1>17 DEF ReapWrite, UpdateRow, MayBecome, Open, Final, IInv, TypeOK, EndsAreKnown
  <2> QED
    BY <2>1 DEF EndIsOwed
<1>18. ASSUME NEW c \in Conns, PeerClose(c) PROVE EndIsOwed'
  BY <1>18, DebtKept DEF PeerClose, IInv, TypeOK, EndsAreKnown, Handed, OwesEnd
<1>19. ASSUME NEW c \in Conns, DetachFrame(c) PROVE EndIsOwed'
  BY <1>19, DebtKept DEF DetachFrame, IInv, TypeOK, ConnRecord, Handed, OwesEnd
<1>20. ASSUME NEW c \in Conns, CloseFrame(c) PROVE EndIsOwed'
  <2>1. HasShell
    BY <1>20, NullAssumption DEF CloseFrame, IInv, TypeOK
  <2>2. \E d \in Conns : OwesEnd(d)'
    BY <1>20, <2>1, FinishOwes DEF CloseFrame, Final
  <2> QED
    BY <1>20, <2>2 DEF CloseFrame, EndIsOwed
<1>21. ASSUME NEW c \in Conns, NEW t \in Tickets, UpgradeRead(c, t) PROVE EndIsOwed'
  BY <1>21, DebtKept DEF UpgradeRead, IInv, TypeOK, ConnRecord, Handed, OwesEnd
<1>22. ASSUME NEW t \in Tickets, MintRead(t) PROVE EndIsOwed'
  BY <1>22, DebtKept DEF MintRead, IInv, TypeOK, ConnRecord, Handed, OwesEnd
<1>23. ASSUME NEW t \in Tickets, MintWrite(t) PROVE EndIsOwed'
  BY <1>23, DebtKept DEF MintWrite, IInv, TypeOK, ConnRecord, Handed, OwesEnd
<1>24. ASSUME NEW t \in Tickets, MintExpire(t) PROVE EndIsOwed'
  BY <1>24, DebtKept DEF MintExpire, IInv, TypeOK, ConnRecord, Handed, OwesEnd
<1>25. ASSUME ShellEnds PROVE EndIsOwed'
  <2>1. \E d \in Conns : OwesEnd(d)'
    BY <1>25, FinishOwes DEF ShellEnds
  <2> QED
    BY <1>25, <2>1 DEF ShellEnds, EndIsOwed
<1>26. ASSUME CloseCommand PROVE EndIsOwed'
  BY <1>26, DebtKept DEF CloseCommand, IInv, TypeOK, ConnRecord, Handed, OwesEnd
<1>27. ASSUME Sweep PROVE EndIsOwed'
  BY <1>27, DebtKept DEF Sweep, IInv, TypeOK, ConnRecord, Handed, OwesEnd
<1>28. ASSUME MarkStale PROVE EndIsOwed'
  <2>1. row'.status \notin Open
    BY <1>28 DEF MarkStale, Open, IInv, TypeOK
  <2> QED
    BY <2>1 DEF EndIsOwed
<1>29. ASSUME Restart PROVE EndIsOwed'
  <2>1. \A c \in Conns : conn'[c].pc # "refused"
    BY <1>29 DEF Restart, IInv, TypeOK, ConnRecord
  <2> QED
    BY <1>29, <2>1 DEF Restart, EndIsOwed
<1>30. ASSUME Tick PROVE EndIsOwed'
  BY <1>30, DebtKept DEF Tick, IInv, TypeOK, ConnRecord, Handed, OwesEnd
<1>31. ASSUME NEW k, Kill(k) PROVE EndIsOwed'
  <2>1. CASE HasShell
    <3>1. \E d \in Conns : OwesEnd(d)'
      BY <1>31, <2>1, FinishOwes DEF Kill, ManagerClose, Final
    <3> QED
      BY <1>31, <3>1 DEF Kill, EndIsOwed
  <2>2. CASE ~HasShell
    BY <1>31, <2>2, DebtKept DEF Kill, ManagerClose, Handed, OwesEnd
  <2> QED
    BY <2>1, <2>2
<1>32. CASE UNCHANGED vars
  BY <1>32 DEF EndIsOwed, Handed, OwesEnd
<1> QED
  BY <1>1, <1>2, <1>3, <1>4, <1>5, <1>6, <1>7, <1>8, <1>9, <1>10, <1>11, <1>12, <1>13, <1>14,
     <1>15, <1>16, <1>17, <1>18, <1>19, <1>20, <1>21, <1>22, <1>23, <1>24, <1>25, <1>26,
     <1>27, <1>28, <1>29, <1>30, <1>31, <1>32
     DEF Next, ServerStep, ClientStep, Mint, Maintenance

\* The row of a session whose shell is gone does not stay open.
THEOREM SettledRowsTellEnd == Spec => []SettledRowTellsEnd
<1>1. Init => EndIsOwed
  BY DEF Init, EndIsOwed, Handed
<1>2. IInv /\ EndIsOwed /\ [Next]_vars => EndIsOwed'
  BY OwedStep
<1>3. IInv /\ EndIsOwed => SettledRowTellsEnd
  BY DEF EndIsOwed, SettledRowTellsEnd, Settled, Recorded, Handed, OwesEnd
<1> QED
  BY <1>1, <1>2, <1>3, Inductive, PTL DEF Spec

\* When the shell ends, no socket is opened, and the close listener of the
\* manager waits for what the attach map holds.
LEMMA FinishWaits ==
  ASSUME IInv, NEW kind \in Final, HasShell, Finish(kind)
  PROVE  /\ \A d \in Conns : wire'[d] \in {"open", "closing"} => wire[d] \in {"open", "closing"}
         /\ \A d \in Conns : \/ reaper'[d] = reaper[d]
                             \/ reaper'[d].st = "wait" /\ reaper'[d].on = attachMap
<1>1. \A d \in Conns : wire'[d] \in {"open", "closing"} => wire[d] \in {"open", "closing"}
  BY DEF Finish, HasActiveAttachment, IInv, TypeOK, Peer
<1>2. \A d \in Conns : \/ reaper'[d] = reaper[d]
                       \/ reaper'[d].st = "wait" /\ reaper'[d].on = attachMap
  BY DEF Finish, IInv, TypeOK, ReaperRecord
<1> QED
  BY <1>1, <1>2

\* So does LiveSshManager.close.
LEMMA ManagerCloseWaits ==
  ASSUME IInv, ManagerClose
  PROVE  /\ \A d \in Conns : wire'[d] \in {"open", "closing"} => wire[d] \in {"open", "closing"}
         /\ \A d \in Conns : \/ reaper'[d] = reaper[d]
                             \/ reaper'[d].st = "wait" /\ reaper'[d].on = attachMap
BY FinishWaits DEF ManagerClose, Final

\* What is awaited stays founded: no task forgets whom it waits for, and no
\* task takes a promise out of a map without having resolved it.
LEMMA WaitsStep == IInv /\ WaitsAreFounded /\ [Next]_vars => WaitsAreFounded'
<1> SUFFICES ASSUME IInv, WaitsAreFounded, [Next]_vars PROVE WaitsAreFounded'
  OBVIOUS
<1> USE NullAssumption DEF IInv, TypeOK, WaitsAreFounded, Handed
<1>1. ASSUME NEW c \in Conns, UpgradeExpire(c) PROVE WaitsAreFounded'
  BY <1>1 DEF UpgradeExpire, Goto, ConnRecord, ReaperRecord, Peer
<1>2. ASSUME NEW c \in Conns, Consume(c) PROVE WaitsAreFounded'
  BY <1>2 DEF Consume, Goto, ConnRecord, ReaperRecord, Peer
<1>3. ASSUME NEW c \in Conns, Resolve(c) PROVE WaitsAreFounded'
  <2>1. /\ conn'[c].pc = "upgrade" => conn'[c].seen # "none"
        /\ ~Handed(c)
        /\ \A d \in Conns : d # c => conn'[d] = conn[d]
    BY <1>3 DEF Resolve, Goto, Attachable, Open, ConnRecord
  <2> QED
    BY <1>3, <2>1 DEF Resolve, ReaperRecord, Peer
<1>4. ASSUME NEW c \in Conns, Handle(c) PROVE WaitsAreFounded'
  <2>1. conn'[c].pc = "mark" /\ \A d \in Conns : d # c => conn'[d] = conn[d]
    BY <1>4 DEF Handle, Goto, ConnRecord
  <2>2. \A d \in Conns : d # c => (wire'[d] \in {"open", "closing"} => wire[d] \in {"open", "closing"})
    BY <1>4 DEF Handle, Attach, HasActiveAttachment
  <2> QED
    BY <1>4, <2>1, <2>2 DEF Handle, ReaperRecord, Peer
<1>5. ASSUME NEW c \in Conns, HandleRefused(c) PROVE WaitsAreFounded'
  BY <1>5 DEF HandleRefused, Goto, ConnRecord, ReaperRecord, Peer
<1>6. ASSUME NEW c \in Conns, RefusedWrite(c) PROVE WaitsAreFounded'
  BY <1>6 DEF RefusedWrite, Goto, ConnRecord, ReaperRecord, Peer
<1>7. ASSUME NEW c \in Conns, MarkRead(c) PROVE WaitsAreFounded'
  <2>1. conn'[c].pc \in {"markWrite", "markExpire", "recorded"}
    BY <1>7 DEF MarkRead, Goto, ConnRecord
  <2>2. \A d \in Conns : d # c => conn'[d] = conn[d]
    BY <1>7 DEF MarkRead, Goto
  <2>3. attachMap' \in {attachMap, NoConn}
    BY <1>7 DEF MarkRead
  <2> QED
    BY <1>7, <2>1, <2>2, <2>3 DEF MarkRead, ReaperRecord, Peer
<1>8. ASSUME NEW c \in Conns, MarkWrite(c) PROVE WaitsAreFounded'
  BY <1>8 DEF MarkWrite, Goto, ConnRecord, ReaperRecord, Peer
<1>9. ASSUME NEW c \in Conns, MarkExpire(c) PROVE WaitsAreFounded'
  <2>1. conn'[c].pc = "recorded" /\ \A d \in Conns : d # c => conn'[d] = conn[d]
    BY <1>9 DEF MarkExpire, Goto, ConnRecord
  <2>2. /\ \A d \in Conns : wire'[d] \in {"open", "closing"} => wire[d] \in {"open", "closing"}
        /\ \A d \in Conns : \/ reaper'[d] = reaper[d]
                            \/ reaper'[d].st = "wait" /\ reaper'[d].on = attachMap
    BY <1>9, ManagerCloseWaits DEF MarkExpire
  <2> QED
    BY <1>9, <2>1, <2>2 DEF MarkExpire, ReaperRecord, Peer
<1>10. ASSUME NEW c \in Conns, CloseEvent(c) PROVE WaitsAreFounded'
  BY <1>10 DEF CloseEvent, ConnRecord, ReaperRecord, Peer
<1>11. ASSUME NEW c \in Conns, CloseCheck(c) PROVE WaitsAreFounded'
  <2>1. \A d \in Conns : conn'[d].pc = conn[d].pc /\ conn'[d].seen = conn[d].seen
    BY <1>11 DEF CloseCheck, ConnRecord
  <2>2. /\ \A d \in Conns : after'[d] = after[d] \/ (d = c /\ after'[d] # "none")
        /\ closeMap' \in {closeMap, NoConn}
    BY <1>11 DEF CloseCheck, Settle
  <2> QED
    BY <1>11, <2>1, <2>2 DEF CloseCheck, Recorded, ReaperRecord, Peer
<1>12. ASSUME NEW c \in Conns, CloseWrite(c) PROVE WaitsAreFounded'
  BY <1>12 DEF CloseWrite, Settle, Recorded, ConnRecord, ReaperRecord, Peer
<1>13. ASSUME NEW c \in Conns, DetachRead(c) PROVE WaitsAreFounded'
  BY <1>13 DEF DetachRead, Settle, Recorded, ConnRecord, ReaperRecord, Peer
<1>14. ASSUME NEW c \in Conns, DetachWrite(c) PROVE WaitsAreFounded'
  BY <1>14 DEF DetachWrite, Settle, Recorded, ConnRecord, ReaperRecord, Peer
<1>15. ASSUME NEW c \in Conns, DetachExpire(c) PROVE WaitsAreFounded'
  BY <1>15 DEF DetachExpire, Settle, Recorded, ConnRecord, ReaperRecord, Peer
<1>16. ASSUME NEW c \in Conns, ReapTimer(c) PROVE WaitsAreFounded'
  BY <1>16 DEF ReapTimer, Recorded, ConnRecord, ReaperRecord, Peer
<1>17. ASSUME NEW c \in Conns, ReapWrite(c) PROVE WaitsAreFounded'
  BY <1>17 DEF ReapWrite, ConnRecord, ReaperRecord, Peer
<1>18. ASSUME NEW c \in Conns, PeerClose(c) PROVE WaitsAreFounded'
  BY <1>18 DEF PeerClose, ConnRecord, ReaperRecord, Peer
<1>19. ASSUME NEW c \in Conns, DetachFrame(c) PROVE WaitsAreFounded'
  BY <1>19 DEF DetachFrame, ConnRecord, ReaperRecord, Peer
<1>20. ASSUME NEW c \in Conns, CloseFrame(c) PROVE WaitsAreFounded'
  BY <1>20 DEF CloseFrame, Finish, ConnRecord, ReaperRecord, Peer
<1>21. ASSUME NEW c \in Conns, NEW t \in Tickets, UpgradeRead(c, t) PROVE WaitsAreFounded'
  BY <1>21 DEF UpgradeRead, ConnRecord, ReaperRecord, Peer
<1>22. ASSUME NEW t \in Tickets, MintRead(t) PROVE WaitsAreFounded'
  BY <1>22 DEF MintRead, ConnRecord, ReaperRecord, Peer
<1>23. ASSUME NEW t \in Tickets, MintWrite(t) PROVE WaitsAreFounded'
  BY <1>23 DEF MintWrite, ConnRecord, ReaperRecord, Peer
<1>24. ASSUME NEW t \in Tickets, MintExpire(t) PROVE WaitsAreFounded'
  BY <1>24 DEF MintExpire, ConnRecord, ReaperRecord, Peer
<1>25. ASSUME ShellEnds PROVE WaitsAreFounded'
  <2>1. /\ \A d \in Conns : wire'[d] \in {"open", "closing"} => wire[d] \in {"open", "closing"}
        /\ \A d \in Conns : \/ reaper'[d] = reaper[d]
                            \/ reaper'[d].st = "wait" /\ reaper'[d].on = attachMap
    BY <1>25, FinishWaits DEF ShellEnds
  <2> QED
    BY <1>25, <2>1 DEF ShellEnds, ReaperRecord, Peer
<1>26. ASSUME CloseCommand PROVE WaitsAreFounded'
  BY <1>26 DEF CloseCommand, ConnRecord, ReaperRecord, Peer
<1>27. ASSUME Sweep PROVE WaitsAreFounded'
  BY <1>27 DEF Sweep, ConnRecord, ReaperRecord, Peer
<1>28. ASSUME MarkStale PROVE WaitsAreFounded'
  BY <1>28 DEF MarkStale, ConnRecord, ReaperRecord, Peer
<1>29. ASSUME Restart PROVE WaitsAreFounded'
  BY <1>29 DEF Restart, ConnRecord, ReaperRecord, Peer
<1>30. ASSUME Tick PROVE WaitsAreFounded'
  BY <1>30 DEF Tick, ConnRecord, ReaperRecord, Peer
<1>31. ASSUME NEW k, Kill(k) PROVE WaitsAreFounded'
  <2>1. /\ \A d \in Conns : wire'[d] \in {"open", "closing"} => wire[d] \in {"open", "closing"}
        /\ \A d \in Conns : \/ reaper'[d] = reaper[d]
                            \/ reaper'[d].st = "wait" /\ reaper'[d].on = attachMap
    BY <1>31, ManagerCloseWaits DEF Kill
  <2> QED
    BY <1>31, <2>1 DEF Kill, ReaperRecord, Peer
<1>32. CASE UNCHANGED vars
  BY <1>32
<1> QED
  BY <1>1, <1>2, <1>3, <1>4, <1>5, <1>6, <1>7, <1>8, <1>9, <1>10, <1>11, <1>12, <1>13, <1>14,
     <1>15, <1>16, <1>17, <1>18, <1>19, <1>20, <1>21, <1>22, <1>23, <1>24, <1>25, <1>26,
     <1>27, <1>28, <1>29, <1>30, <1>31, <1>32
     DEF Next, ServerStep, ClientStep, Mint, Maintenance

\* Nothing the server has begun is ever stuck: whatever the promise maps hold,
\* some upgrade, websocket or listener can go on until all is settled.
THEOREM NothingStuck == Spec => []NeverStuck
<1>1. Init => WaitsAreFounded
  BY DEF Init, WaitsAreFounded
<1>2. IInv /\ WaitsAreFounded /\ [Next]_vars => WaitsAreFounded'
  BY WaitsStep
<1>3. IInv /\ WaitsAreFounded => NeverStuck
  <2> SUFFICES ASSUME IInv, WaitsAreFounded, \A c \in Conns : ~CanProceed(c), kill = {}, ~staleDue
               PROVE  Settled
    BY DEF NeverStuck
  <2>1. \A c \in Conns : wire[c] # "closing" /\ (Handed(c) => Recorded(c))
    BY DEF CanProceed, Handed, Recorded
  <2>2. \A c \in Conns : after[c] \in {"none", "done"}
    BY <2>1 DEF IInv, TypeOK, AfterPcs, WaitsAreFounded, CanProceed
  <2>3. \A c \in Conns : reaper[c].st \in {"none", "done"}
    BY <2>1, <2>2 DEF IInv, TypeOK, ReaperRecord, Peer, WaitsAreFounded, CanProceed
  <2>4. \A c \in Conns : conn[c].pc \in {"idle", "rejected", "gone", "recorded", "refused"}
    BY DEF IInv, TypeOK, ConnRecord, ConnPcs, WaitsAreFounded, CanProceed
  <2> QED
    BY <2>1, <2>2, <2>3, <2>4 DEF Settled
<1> QED
  BY <1>1, <1>2, <1>3, Inductive, PTL DEF Spec

\* A session that is over stays over, whichever writer comes last: neither an
\* attach nor a detach that was delayed past the end brings its row back.
THEOREM OverStaysOver == Spec => OverForGood
<1>1. RowMove => (row.status \notin Open => row'.status \notin Open)
  BY DEF RowMove, Open, Lifecycle!LifeNext, Lifecycle!Attach, Lifecycle!Detach, Lifecycle!End,
     Lifecycle!Fail, Lifecycle!Lose, Lifecycle!Extend, Lifecycle!Live
<1>2. IInv /\ [Next]_vars => (row.status \notin Open => row'.status \notin Open)
  BY <1>1, RowMoves
<1> QED
  BY <1>2, Inductive, PTL DEF Spec, OverForGood

=============================================================================
