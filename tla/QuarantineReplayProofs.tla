------------------------ MODULE QuarantineReplayProofs ------------------------
(***************************************************************************)
(* Theorems about QuarantineReplay, for all bodies, handlers and budgets   *)
(* and any number of failures and replays: its types, that no message is   *)
(* lost or given up without a reason, that outcomes are fenced, and that   *)
(* the budget of callbacks is kept.                                        *)
(***************************************************************************)
EXTENDS QuarantineReplay, FiniteSetTheorems, TLAPS

\* A row of inbound_deliveries.  A settled row has no claim, a row whose message
\* is given up has a reason, and a row that does not exist has its defaults.
RowSound(b, r) ==
    /\ r \in Row
    /\ r.completed => r.lease = "none" /\ b \in applied.bodies
    /\ r.quarantined => r.lease = "none" /\ ~r.completed
    /\ r.required => r.lease # "live" /\ ~r.completed
    /\ r.required \/ r.quarantined => r.attempts >= MaxAttempts \/ b \in Poison
    /\ ~r.exists => r = NoRow

RowsSound ==
    /\ row = [b \in Bodies |-> row[b]]
    /\ \A b \in Bodies : RowSound(b, row[b])

\* What is known of the message of b once somebody may acknowledge it.
SafeToAck(b) ==
    b \in applied.bodies \/ row[b].quarantined \/ replayId[b] # confirmed[b]

\* A handler has admitted the row it works on, counts the attempt of the claim
\* it still has, and acknowledges nothing that would be lost.
HandlerSound(h, x) ==
    /\ x \in Handler \cup {Idle}
    /\ x.pc \notin {"idle", "admit", "orphan"} => row[x.body].exists
    /\ x.pc = "succeeded" => x.body \in applied.bodies
    /\ x.pc = "ack" => SafeToAck(x.body)
    /\ /\ x.pc \in {"working", "succeeded", "failed"}
       /\ row[x.body].owner = h /\ row[x.body].lease = "live"
       => row[x.body].attempts = x.attempt

HandlersSound ==
    /\ handler = [h \in Handlers |-> handler[h]]
    /\ \A h \in Handlers : HandlerSound(h, handler[h])

\* The tool knows the replay id it works under; the operator never hears of a
\* confirmation before the reset it belongs to.
ToolSound ==
    /\ tool = Unused \/ tool \in [pc: {"reset", "publish"}, body: Bodies,
                                   id: 1..ReplayBound, was: 0..ReplayBound]
    /\ replayId \in [Bodies -> 0..ReplayBound]
    /\ confirmed \in [Bodies -> 0..ReplayBound]
    /\ \A b \in Bodies : confirmed[b] <= replayId[b]
    /\ tool.pc = "reset" => replayId[tool.body] = tool.was /\ tool.was <= tool.id
    /\ tool.pc = "publish" => replayId[tool.body] = tool.id

\* Who does not consume has no message.
NobodyHolds == \A h \in Handlers : handler[h].pc \in {"idle", "orphan"}

\* A start of a callback is an attempt of the present cycle or of an earlier one.
StartsCounted ==
    /\ starts \in [Bodies -> Nat]
    /\ \A b \in Bodies :
         IF b \in Dates THEN starts[b] = 0
         ELSE starts[b] <= MaxAttempts * replayId[b] + row[b].attempts

BoundsTyped ==
    /\ queue \in [Bodies -> Nat]
    /\ traffic \in [Bodies -> Nat] /\ lastDate \in Dates \cup {NoBody}
    /\ applied \in [bodies: SUBSET Bodies, date: Dates \cup {NoBody}]
    /\ failures \in 0..FailureBound /\ interventions \in 0..InterventionBound
    /\ consuming \in BOOLEAN

\* The inductive invariant.
ReplayInv ==
    /\ RowsSound /\ HandlersSound /\ ToolSound /\ StartsCounted /\ BoundsTyped
    /\ ~consuming => NobodyHolds
    /\ NoMessageLost
-----------------------------------------------------------------------------
(***************************************************************************)
(* What can happen to one row.                                             *)
(***************************************************************************)
ExistingRow(r)  == [r EXCEPT !.exists = TRUE]
StartedOver(r)  == [r EXCEPT !.attempts = 0, !.completed = FALSE, !.due = TRUE]
GivenUpRow(r)   == [r EXCEPT !.required = TRUE, !.quarantined = TRUE,
                             !.lease = "none", !.owner = NoHandler]
ClaimedBy(r, h) == [r EXCEPT !.attempts = @ + 1, !.lease = "live", !.owner = h]
DoneRow(r)      == [r EXCEPT !.completed = TRUE, !.lease = "none", !.owner = NoHandler]
FailedRow(r, t) == [r EXCEPT !.required = t, !.due = FALSE,
                             !.lease = "none", !.owner = NoHandler]
EndedRow(r)     == [r EXCEPT !.lease = "ended"]
DueRow(r)       == [r EXCEPT !.due = TRUE]
ReplayedRow     == [NoRow EXCEPT !.exists = TRUE]

\* The columns of the rows that come about.
LEMMA RowColumns ==
    ASSUME NEW r \in Row
    PROVE  /\ ExistingRow(r) \in Row /\ ExistingRow(r).exists
           /\ ExistingRow(r).attempts = r.attempts /\ ExistingRow(r).lease = r.lease
           /\ ExistingRow(r).owner = r.owner /\ ExistingRow(r).completed = r.completed
           /\ ExistingRow(r).required = r.required
           /\ ExistingRow(r).quarantined = r.quarantined
           /\ EndedRow(r) \in Row /\ EndedRow(r).exists = r.exists
           /\ EndedRow(r).attempts = r.attempts /\ EndedRow(r).lease = "ended"
           /\ EndedRow(r).completed = r.completed /\ EndedRow(r).required = r.required
           /\ EndedRow(r).quarantined = r.quarantined
           /\ DueRow(r) \in Row /\ DueRow(r).exists = r.exists
           /\ DueRow(r).attempts = r.attempts /\ DueRow(r).lease = r.lease
           /\ DueRow(r).owner = r.owner /\ DueRow(r).completed = r.completed
           /\ DueRow(r).required = r.required /\ DueRow(r).quarantined = r.quarantined
  BY DEF ExistingRow, EndedRow, DueRow, Row

LEMMA SettledColumns ==
    ASSUME NEW r \in Row
    PROVE  /\ StartedOver(r) \in Row /\ StartedOver(r).exists = r.exists
           /\ StartedOver(r).attempts = 0 /\ StartedOver(r).lease = r.lease
           /\ ~StartedOver(r).completed /\ StartedOver(r).required = r.required
           /\ StartedOver(r).quarantined = r.quarantined
           /\ GivenUpRow(r) \in Row /\ GivenUpRow(r).exists = r.exists
           /\ GivenUpRow(r).attempts = r.attempts /\ GivenUpRow(r).lease = "none"
           /\ GivenUpRow(r).completed = r.completed /\ GivenUpRow(r).quarantined
           /\ DoneRow(r) \in Row /\ DoneRow(r).exists = r.exists
           /\ DoneRow(r).attempts = r.attempts /\ DoneRow(r).lease = "none"
           /\ DoneRow(r).completed /\ DoneRow(r).required = r.required
           /\ DoneRow(r).quarantined = r.quarantined
<1>1. 0 \in 0..MaxAttempts
  BY InboundAssumption
<1> QED
  BY <1>1 DEF StartedOver, GivenUpRow, DoneRow, Row

LEMMA ClaimColumns ==
    ASSUME NEW r \in Row, NEW h \in Handlers, r.attempts < MaxAttempts
    PROVE  /\ ClaimedBy(r, h) \in Row /\ ClaimedBy(r, h).exists = r.exists
           /\ ClaimedBy(r, h).attempts = r.attempts + 1 /\ ClaimedBy(r, h).lease = "live"
           /\ ClaimedBy(r, h).owner = h /\ ClaimedBy(r, h).completed = r.completed
           /\ ClaimedBy(r, h).required = r.required
           /\ ClaimedBy(r, h).quarantined = r.quarantined
<1>1. r.attempts + 1 \in 0..MaxAttempts
  BY InboundAssumption DEF Row
<1> QED
  BY <1>1 DEF ClaimedBy, Row

LEMMA FailedColumns ==
    ASSUME NEW r \in Row, NEW t \in BOOLEAN
    PROVE  /\ FailedRow(r, t) \in Row /\ FailedRow(r, t).exists = r.exists
           /\ FailedRow(r, t).attempts = r.attempts /\ FailedRow(r, t).lease = "none"
           /\ FailedRow(r, t).completed = r.completed /\ FailedRow(r, t).required = t
           /\ FailedRow(r, t).quarantined = r.quarantined
  BY DEF FailedRow, Row

LEMMA NewColumns ==
    /\ NoRow \in Row /\ ~NoRow.exists /\ NoRow.attempts = 0 /\ NoRow.lease = "none"
    /\ ~NoRow.completed /\ ~NoRow.required /\ ~NoRow.quarantined /\ NoRow.due
    /\ ReplayedRow \in Row /\ ReplayedRow.exists /\ ReplayedRow.attempts = 0
    /\ ReplayedRow.lease = "none" /\ ~ReplayedRow.completed
    /\ ~ReplayedRow.required /\ ~ReplayedRow.quarantined
<1>1. 0 \in 0..MaxAttempts
  BY InboundAssumption
<1> QED
  BY <1>1 DEF NoRow, ReplayedRow, Row

\* The handler that owns the claim of b records how its callback ended.
OwnerRecords(b, h) ==
    LET r == row[b] IN
    /\ r.owner = h /\ r.lease = "live" /\ ~r.completed /\ ~r.quarantined
    /\ handler[h].body = b
    /\ handler'[h].pc \in {"succeeded", "failed", "ack", "read"}
    /\ \/ handler[h].pc = "succeeded" /\ row'[b] = DoneRow(r)
       \/ /\ handler[h].pc = "failed"
          /\ \E t \in BOOLEAN :
               /\ t => b \in Poison \/ handler[h].attempt >= MaxAttempts
               /\ row'[b] = FailedRow(r, t)

RowMoves(b) ==
    LET r == row[b] IN
    \/ row'[b] = r
    \/ HandlerAt(b, "admit") /\ row'[b] = ExistingRow(r)
    \/ HandlerAt(b, "admit") /\ b \in Dates /\ r.completed /\ row'[b] = StartedOver(r)
    \/ HandlerAt(b, "quarantine") /\ MayQuarantine(r) /\ row'[b] = GivenUpRow(r)
    \/ /\ MayClaim(r) /\ r.exists
       /\ \E h \in Handlers :
            handler[h].pc = "claim" /\ handler[h].body = b /\ row'[b] = ClaimedBy(r, h)
    \/ \E h \in Handlers : OwnerRecords(b, h)
    \/ r.lease = "live" /\ row'[b] = EndedRow(r)
    \/ ~r.due /\ row'[b] = DueRow(r)
    \/ r.quarantined /\ replayId'[b] > replayId[b] /\ row'[b] = ReplayedRow

TableMoves ==
    /\ row' = [b \in Bodies |-> row'[b]]
    /\ \A b \in Bodies : RowMoves(b)

\* A sound row stays sound.
LEMMA MoveKeepsRow ==
    ASSUME RowsSound, HandlersSound, NEW b \in Bodies, RowMoves(b),
           applied.bodies \subseteq applied'.bodies
    PROVE  /\ RowSound(b, row[b])'
           /\ row[b].exists => row'[b].exists
<1> DEFINE r == row[b]
           q == row'[b]
<1>1. r \in Row /\ RowSound(b, r) /\ r.attempts \in 0..MaxAttempts
  BY DEF RowsSound, RowSound, Row
<1>2. MaxAttempts \in Nat \ {0}
  BY InboundAssumption
<1>3. CASE q = r
  BY <1>1, <1>3 DEF RowSound
<1>4. CASE q = ExistingRow(r) \/ (r.lease = "live" /\ q = EndedRow(r)) \/ (~r.due /\ q = DueRow(r))
  BY <1>1, <1>4, RowColumns, NewColumns DEF RowSound
<1>5. CASE (r.completed /\ q = StartedOver(r)) \/ (MayQuarantine(r) /\ q = GivenUpRow(r))
  BY <1>1, <1>2, <1>5, SettledColumns, NewColumns DEF RowSound, MayQuarantine
<1>6. CASE \E h \in Handlers : MayClaim(r) /\ r.exists /\ q = ClaimedBy(r, h)
  BY <1>1, <1>6, ClaimColumns DEF RowSound, MayClaim
<1>7. ASSUME NEW h \in Handlers, OwnerRecords(b, h)
      PROVE  RowSound(b, row[b])' /\ (r.exists => q.exists)
  <2>1. /\ r.owner = h /\ r.lease = "live" /\ ~r.completed /\ ~r.quarantined
        /\ handler[h].body = b /\ ~r.required /\ r.exists
    BY <1>1, <1>7, NewColumns DEF OwnerRecords, RowSound
  <2>2. CASE handler[h].pc = "succeeded" /\ q = DoneRow(r)
    <3>1. b \in applied.bodies
      BY <2>1, <2>2 DEF HandlersSound, HandlerSound
    <3> QED
      BY <1>1, <2>1, <2>2, <3>1, SettledColumns DEF RowSound
  <2>3. ASSUME handler[h].pc = "failed",
               NEW t \in BOOLEAN, t => b \in Poison \/ handler[h].attempt >= MaxAttempts,
               q = FailedRow(r, t)
        PROVE  RowSound(b, row[b])' /\ (r.exists => q.exists)
    <3>1. r.attempts = handler[h].attempt
      BY <2>1, <2>3 DEF HandlersSound, HandlerSound
    <3> QED
      BY <1>1, <2>1, <2>3, <3>1, FailedColumns DEF RowSound
  <2> QED
    BY <1>7, <2>2, <2>3 DEF OwnerRecords
<1>8. CASE q = ReplayedRow
  BY <1>8, NewColumns DEF RowSound
<1> QED
  BY <1>3, <1>4, <1>5, <1>6, <1>7, <1>8 DEF RowMoves
-----------------------------------------------------------------------------
(***************************************************************************)
(* What a step of one handler leaves to the others.                        *)
(***************************************************************************)
\* The tables move, commits stay, and the tool only takes up newer replay ids.
TablesAdvance ==
    /\ TableMoves
    /\ applied.bodies \subseteq applied'.bodies
    /\ replayId' \in [Bodies -> 0..ReplayBound] /\ confirmed' = confirmed
    /\ \A b \in Bodies : replayId[b] <= replayId'[b]

LEMMA RowsAdvance ==
    ASSUME ReplayInv, TablesAdvance
    PROVE  /\ RowsSound'
           /\ \A b \in Bodies : row[b].exists => row'[b].exists
  BY MoveKeepsRow DEF ReplayInv, TablesAdvance, TableMoves, RowsSound

\* What could be acknowledged before, still can.
LEMMA SafeStays ==
    ASSUME ReplayInv, TablesAdvance, NEW b \in Bodies, SafeToAck(b)
    PROVE  SafeToAck(b)'
<1>1. /\ confirmed[b] \in 0..ReplayBound /\ replayId[b] \in 0..ReplayBound
      /\ replayId'[b] \in 0..ReplayBound /\ confirmed'[b] = confirmed[b]
      /\ confirmed[b] <= replayId[b] /\ replayId[b] <= replayId'[b]
  BY DEF ReplayInv, ToolSound, TablesAdvance
<1>2. 0..ReplayBound \subseteq Nat
  BY ReplayAssumption
<1>3. CASE b \in applied.bodies
  BY <1>3 DEF SafeToAck, TablesAdvance
<1>4. CASE replayId[b] # confirmed[b]
  BY <1>1, <1>2, <1>4 DEF SafeToAck
<1>5. CASE row[b].quarantined
  <2>1. RowMoves(b) /\ RowSound(b, row[b]) /\ row[b] \in Row
    BY DEF ReplayInv, RowsSound, RowSound, TablesAdvance, TableMoves
  <2>2. row'[b].quarantined \/ replayId'[b] > replayId[b]
    BY <1>5, <2>1, RowColumns, SettledColumns
       DEF RowMoves, MayQuarantine, MayClaim, OwnerRecords, RowSound
  <2> QED
    BY <1>1, <1>2, <2>2 DEF SafeToAck
<1> QED
  BY <1>3, <1>4, <1>5 DEF SafeToAck

\* A handler that does not move stays sound.
LEMMA OthersSound ==
    ASSUME ReplayInv, TablesAdvance, NEW h \in Handlers, NEW x, x = handler[h]
    PROVE  HandlerSound(h, x)'
<1>1. HandlerSound(h, x) /\ x \in Handler \cup {Idle}
  BY DEF ReplayInv, HandlersSound, HandlerSound
<1>2. CASE x = Idle
  BY <1>2 DEF HandlerSound, Idle
<1>3. CASE x \in Handler
  <2> DEFINE b == x.body
  <2>1. b \in Bodies
    BY <1>3 DEF Handler
  <2>2. x.pc \notin {"idle", "admit", "orphan"} => row'[b].exists
    BY <1>1, <2>1, RowsAdvance DEF HandlerSound
  <2>3. x.pc = "succeeded" => b \in applied'.bodies
    BY <1>1 DEF HandlerSound, TablesAdvance
  <2>4. x.pc = "ack" => SafeToAck(b)'
    BY <1>1, <2>1, SafeStays DEF HandlerSound
  <2>5. ASSUME x.pc \in {"working", "succeeded", "failed"},
               row'[b].owner = h, row'[b].lease = "live"
        PROVE  row'[b].attempts = x.attempt
    <3>1. RowMoves(b) /\ RowSound(b, row[b]) /\ row[b] \in Row
      BY <2>1 DEF ReplayInv, RowsSound, RowSound, TablesAdvance, TableMoves
    <3>2. /\ row'[b].attempts = row[b].attempts /\ row[b].owner = h /\ row[b].lease = "live"
      <4>1. CASE row'[b] = row[b] \/ row'[b] = ExistingRow(row[b]) \/ row'[b] = DueRow(row[b])
        BY <2>5, <3>1, <4>1, RowColumns
      <4>2. CASE row'[b] = EndedRow(row[b]) \/ row'[b] = ReplayedRow
        BY <2>5, <3>1, <4>2, RowColumns, NewColumns
      <4>3. CASE row[b].completed /\ row'[b] = StartedOver(row[b])
        BY <2>5, <3>1, <4>3, SettledColumns DEF RowSound
      <4>4. CASE row'[b] = GivenUpRow(row[b])
        BY <2>5, <3>1, <4>4, SettledColumns
      <4>5. ASSUME MayClaim(row[b]), NEW g \in Handlers, handler[g].pc = "claim",
                   row'[b] = ClaimedBy(row[b], g)
            PROVE  FALSE
        <5>1. g = h
          BY <2>5, <3>1, <4>5, ClaimColumns DEF MayClaim
        <5> QED
          BY <2>5, <4>5, <5>1
      <4>6. ASSUME NEW g \in Handlers, OwnerRecords(b, g)
            PROVE  FALSE
        BY <2>5, <3>1, <4>6, SettledColumns, FailedColumns DEF OwnerRecords
      <4> QED
        BY <3>1, <4>1, <4>2, <4>3, <4>4, <4>5, <4>6 DEF RowMoves
    <3> QED
      BY <1>1, <2>5, <3>2 DEF HandlerSound
  <2> QED
    BY <1>3, <2>2, <2>3, <2>4, <2>5 DEF HandlerSound
<1> QED
  BY <1>1, <1>2, <1>3

\* A handler goes on with its message: it and the others stay sound, and the
\* message still waits with it.
LEMMA HolderStep ==
    ASSUME ReplayInv, TablesAdvance, UNCHANGED <<queue, replayId, consuming, tool>>,
           NEW h \in Handlers, NEW x, handler' = [handler EXCEPT ![h] = x],
           handler[h].pc \notin {"idle", "orphan"},
           x.pc \notin {"idle", "orphan"}, x.body = handler[h].body,
           \A b \in Bodies : row'[b].exists => row[b].exists \/ b = x.body,
           HandlerSound(h, x)'
    PROVE  /\ RowsSound' /\ HandlersSound' /\ ToolSound' /\ NoMessageLost'
           /\ (~consuming => NobodyHolds)'
<1>1. /\ handler' = [g \in Handlers |-> handler'[g]]
      /\ \A g \in Handlers : handler'[g] = IF g = h THEN x ELSE handler[g]
  BY DEF ReplayInv, HandlersSound
<1>2. HandlersSound'
  BY <1>1, OthersSound DEF HandlersSound
<1>3. ToolSound'
  BY DEF ReplayInv, ToolSound, TablesAdvance
<1>4. \A b \in Bodies : Pending(b) => Pending(b)'
  BY <1>1 DEF Pending, Holds
<1>5. Pending(x.body)'
  BY <1>1 DEF Pending, Holds
<1>6. NoMessageLost'
  <2> SUFFICES ASSUME NEW b \in Bodies, row'[b].exists
               PROVE  Pending(b)' \/ SafeToAck(b)'
    BY DEF NoMessageLost, SafeToAck
  <2>1. CASE b = x.body
    BY <1>5, <2>1
  <2>2. CASE row[b].exists
    BY <1>4, <2>2, SafeStays DEF ReplayInv, NoMessageLost, SafeToAck
  <2> QED
    BY <2>1, <2>2
<1>7. consuming /\ consuming' = consuming
  BY DEF ReplayInv, NobodyHolds
<1> QED
  BY <1>2, <1>3, <1>6, <1>7, RowsAdvance
-----------------------------------------------------------------------------
(***************************************************************************)
(* The statements a handler executes.                                      *)
(***************************************************************************)
\* A statement moves the row of the handler's message and no other.
Statement(h) ==
    /\ TableMoves
    /\ \A c \in Bodies \ {handler[h].body} : row'[c] = row[c]

LEMMA HolderRecord ==
    ASSUME ReplayInv, NEW h \in Handlers, handler[h].pc # "idle"
    PROVE  /\ handler[h] \in Handler /\ handler[h].body \in Bodies
           /\ HandlerSound(h, handler[h])
           /\ row[handler[h].body] \in Row
           /\ RowSound(handler[h].body, row[handler[h].body])
  BY DEF ReplayInv, HandlersSound, HandlerSound, RowsSound, RowSound, Handler, Idle

LEMMA OneRowMoves ==
    ASSUME ReplayInv, NEW h \in Handlers, handler[h].pc # "idle", NEW r,
           Execute(h, r),
           row'[handler[h].body] = r => RowMoves(handler[h].body)
    PROVE  Statement(h) /\ row'[handler[h].body] = r
<1> DEFINE b == handler[h].body
<1>1. b \in Bodies /\ row = [c \in Bodies |-> row[c]]
  BY HolderRecord DEF ReplayInv, RowsSound
<1>2. row' = [row EXCEPT ![b] = r]
  BY DEF Execute
<1> HIDE DEF b
<1>3. row'[b] = r /\ (\A c \in Bodies \ {b} : row'[c] = row[c])
      /\ row' = [c \in Bodies |-> row'[c]]
  BY <1>1, <1>2
<1> USE DEF b
<1>4. RowMoves(b)
  BY <1>3
<1> QED
  BY <1>3, <1>4 DEF Statement, TableMoves, RowMoves

LEMMA NoRowMoves ==
    ASSUME ReplayInv, row' = row
    PROVE  TableMoves
  BY DEF ReplayInv, RowsSound, TableMoves, RowMoves

LEMMA NoStatement ==
    ASSUME ReplayInv, row' = row, NEW h
    PROVE  Statement(h)
  BY NoRowMoves DEF Statement

LEMMA AdmitStatement ==
    ASSUME ReplayInv, NEW h \in Handlers, handler[h].pc = "admit",
           Execute(h, Admitted(handler[h].body))
    PROVE  Statement(h) /\ row'[handler[h].body].exists
<1> DEFINE b == handler[h].body
<1>1. row[b] \in Row /\ RowSound(b, row[b]) /\ HandlerAt(b, "admit")
  BY HolderRecord DEF HandlerAt, At
<1>2. CASE b \in Dates /\ row[b].completed
  <2>1. Execute(h, StartedOver(row[b]))
    BY <1>2 DEF Admitted, StartedOver
  <2>2. row[b].exists
    BY <1>1, <1>2, NewColumns DEF RowSound
  <2> QED
    BY <1>1, <1>2, <2>1, <2>2, OneRowMoves, SettledColumns DEF RowMoves
<1>3. CASE ~(b \in Dates /\ row[b].completed)
  <2>1. Execute(h, ExistingRow(row[b]))
    BY <1>3 DEF Admitted, ExistingRow
  <2> QED
    BY <1>1, <2>1, OneRowMoves, RowColumns DEF RowMoves
<1> QED
  BY <1>2, <1>3

LEMMA QuarantineStatement ==
    ASSUME ReplayInv, NEW h \in Handlers, handler[h].pc = "quarantine",
           Execute(h, Quarantined(row[handler[h].body]))
    PROVE  /\ Statement(h)
           /\ MayQuarantine(row[handler[h].body]) => row'[handler[h].body].quarantined
<1> DEFINE b == handler[h].body
<1>1. row[b] \in Row /\ HandlerAt(b, "quarantine")
  BY HolderRecord DEF HandlerAt, At
<1>2. CASE MayQuarantine(row[b])
  <2>1. Execute(h, GivenUpRow(row[b]))
    BY <1>2 DEF Quarantined, GivenUpRow
  <2> QED
    BY <1>1, <1>2, <2>1, OneRowMoves, SettledColumns DEF RowMoves
<1>3. CASE ~MayQuarantine(row[b])
  <2>1. Execute(h, row[b])
    BY <1>3 DEF Quarantined
  <2> QED
    BY <1>3, <2>1, OneRowMoves DEF RowMoves
<1> QED
  BY <1>2, <1>3

LEMMA ClaimStatement ==
    ASSUME ReplayInv, NEW h \in Handlers, handler[h].pc = "claim",
           Execute(h, Claimed(row[handler[h].body], h))
    PROVE  /\ Statement(h)
           /\ MayClaim(row[handler[h].body]) =>
                row'[handler[h].body].attempts = row[handler[h].body].attempts + 1
<1> DEFINE b == handler[h].body
<1>1. row[b] \in Row /\ row[b].exists
  BY HolderRecord DEF HandlerSound
<1>2. CASE MayClaim(row[b])
  <2>1. Execute(h, ClaimedBy(row[b], h))
    BY <1>2 DEF Claimed, ClaimedBy
  <2>2. row'[b] = ClaimedBy(row[b], h) => RowMoves(b)
    BY <1>1, <1>2 DEF RowMoves
  <2>3. ClaimedBy(row[b], h).attempts = row[b].attempts + 1
    BY <1>1, <1>2, ClaimColumns DEF MayClaim
  <2> QED
    BY <2>1, <2>2, <2>3, OneRowMoves
<1>3. CASE ~MayClaim(row[b])
  <2>1. Execute(h, row[b])
    BY <1>3 DEF Claimed
  <2> QED
    BY <1>3, <2>1, OneRowMoves DEF RowMoves
<1> QED
  BY <1>2, <1>3

LEMMA OutcomeStatement ==
    ASSUME ReplayInv, NEW h \in Handlers,
           \/ /\ handler[h].pc = "succeeded"
              /\ Execute(h, Completed(row[handler[h].body], h))
           \/ /\ handler[h].pc = "failed"
              /\ Execute(h, Failed(row[handler[h].body], h)),
           handler'[h].pc \in {"succeeded", "failed", "ack", "read"}
    PROVE  Statement(h)
<1> DEFINE b == handler[h].body
<1>1. CASE ~Owns(h)
  <2>1. Execute(h, row[b])
    BY <1>1 DEF Completed, Failed
  <2> QED
    BY <2>1, OneRowMoves DEF RowMoves
<1>2. CASE Owns(h) /\ handler[h].pc = "succeeded"
  <2>1. Execute(h, DoneRow(row[b]))
    BY <1>2 DEF Completed, DoneRow
  <2>2. row'[b] = DoneRow(row[b]) => OwnerRecords(b, h)
    BY <1>2 DEF Owns, OwnerRecords
  <2> QED
    BY <1>2, <2>1, <2>2, OneRowMoves DEF RowMoves
<1>3. CASE Owns(h) /\ handler[h].pc = "failed"
  <2> DEFINE t == IsTerminal(h)
  <2>1. Execute(h, FailedRow(row[b], t))
    BY <1>3 DEF Failed, FailedRow
  <2>2. t \in BOOLEAN /\ (t => b \in Poison \/ handler[h].attempt >= MaxAttempts)
    BY DEF IsTerminal
  <2> HIDE DEF t
  <2>3. row'[b] = FailedRow(row[b], t) => OwnerRecords(b, h)
    BY <1>3, <2>2 DEF Owns, OwnerRecords
  <2> QED
    BY <1>3, <2>1, <2>3, OneRowMoves DEF RowMoves
<1> QED
  BY <1>1, <1>2, <1>3
-----------------------------------------------------------------------------
(***************************************************************************)
(* The steps of a handler that goes on with its message.                   *)
(***************************************************************************)
\* The invariant without its counters.
NothingBroken ==
    /\ RowsSound /\ HandlersSound /\ ToolSound /\ NoMessageLost
    /\ ~consuming => NobodyHolds

\* What a handler that goes on leaves alone.
GoesOn(h) ==
    /\ Statement(h)
    /\ applied.bodies \subseteq applied'.bodies
    /\ UNCHANGED <<queue, replayId, confirmed, consuming, tool>>

\* It goes to pc with the attempt n, and may do so.
ArrivesAt(h, b, pc, n) ==
    /\ b = handler[h].body /\ handler[h].pc \notin {"idle", "orphan"}
    /\ handler' = [handler EXCEPT ![h] = [pc |-> pc, body |-> b, attempt |-> n]]
    /\ row'[b].exists
    /\ pc = "succeeded" => b \in applied'.bodies
    /\ pc = "ack" => SafeToAck(b)'
    /\ /\ pc \in {"working", "succeeded", "failed"}
       /\ row'[b].owner = h /\ row'[b].lease = "live"
       => row'[b].attempts = n

LEMMA HolderGoesOn ==
    ASSUME ReplayInv, NEW h \in Handlers, GoesOn(h), NEW b \in Bodies,
           NEW pc \in Stage \ {"admit", "orphan"}, NEW n \in 0..MaxAttempts,
           ArrivesAt(h, b, pc, n)
    PROVE  TablesAdvance /\ NothingBroken'
<1>1. PICK x : x = [pc |-> pc, body |-> b, attempt |-> n]
  OBVIOUS
<1>2. /\ x \in Handler /\ x.pc = pc /\ x.body = b /\ x.attempt = n
      /\ pc \notin {"idle", "admit", "orphan"}
  BY <1>1 DEF Handler, Stage
<1>3. TablesAdvance
  BY ReplayAssumption DEF GoesOn, Statement, TablesAdvance, ReplayInv, ToolSound
<1>4. HandlerSound(h, x)'
  BY <1>2 DEF HandlerSound, ArrivesAt
<1>5. \A c \in Bodies : row'[c].exists => row[c].exists \/ c = x.body
  BY <1>2 DEF GoesOn, Statement, ArrivesAt
<1> QED
  BY <1>1, <1>2, <1>3, <1>4, <1>5, HolderStep DEF GoesOn, NothingBroken, ArrivesAt

LEMMA HolderStays ==
    ASSUME ReplayInv, NEW h \in Handlers, handler[h].pc \notin {"idle", "orphan"},
           GoesOn(h), handler' = handler
    PROVE  TablesAdvance /\ NothingBroken'
<1>1. PICK x : x = handler[h]
  OBVIOUS
<1>2. TablesAdvance
  BY ReplayAssumption DEF GoesOn, Statement, TablesAdvance, ReplayInv, ToolSound
<1>3. HandlerSound(h, x)'
  BY <1>1, <1>2, OthersSound
<1>4. handler' = [handler EXCEPT ![h] = x]
  BY <1>1 DEF ReplayInv, HandlersSound
<1>5. \A c \in Bodies : row'[c].exists => row[c].exists \/ c = x.body
  BY <1>1 DEF GoesOn, Statement
<1> QED
  BY <1>1, <1>2, <1>3, <1>4, <1>5, HolderStep DEF GoesOn, NothingBroken

\* Updates of a handler's record, spelt out.
LEMMA RecordMoves ==
    ASSUME NEW x \in Handler, NEW pc \in Stage, NEW n \in 0..MaxAttempts
    PROVE  /\ [x EXCEPT !.pc = pc] = [pc |-> pc, body |-> x.body, attempt |-> x.attempt]
           /\ [x EXCEPT !.pc = pc, !.attempt = n] = [pc |-> pc, body |-> x.body, attempt |-> n]
<1> DEFINE y == [x EXCEPT !.pc = pc]
<1>1. y \in [pc: {pc}, body: Bodies, attempt: 0..MaxAttempts] /\ y.pc = pc /\ y.body = x.body
  BY DEF Handler
<1>2. y = [pc |-> pc, body |-> x.body, attempt |-> x.attempt]
  BY DEF Handler
<1>3. [x EXCEPT !.pc = pc, !.attempt = n] = [y EXCEPT !.attempt = n]
  BY SMT DEF Handler
<1> HIDE DEF y
<1>4. [y EXCEPT !.attempt = n] = [pc |-> y.pc, body |-> y.body, attempt |-> n]
  BY <1>1
<1> QED
  BY <1>1, <1>2, <1>3, <1>4 DEF y

LEMMA GotoRecord ==
    ASSUME ReplayInv, NEW h \in Handlers, handler[h].pc # "idle",
           NEW b \in Bodies, b = handler[h].body, NEW pc \in Stage, Goto(h, pc)
    PROVE  /\ handler' = [handler EXCEPT ![h] =
                            [pc |-> pc, body |-> b, attempt |-> handler[h].attempt]]
           /\ handler[h].attempt \in 0..MaxAttempts
<1>1. PICK x \in Handler : x = handler[h]
  BY HolderRecord
<1>2. handler' = [handler EXCEPT ![h] = [x EXCEPT !.pc = pc]]
  BY <1>1 DEF Goto, ReplayInv, HandlersSound
<1>3. x.attempt \in 0..MaxAttempts /\ x.attempt = handler[h].attempt /\ x.body = b
  BY <1>1 DEF Handler
<1>4. [x EXCEPT !.pc = pc] = [pc |-> pc, body |-> x.body, attempt |-> x.attempt]
  BY <1>3, RecordMoves
<1> QED
  BY <1>2, <1>3, <1>4

LEMMA AdmitStep ==
    ASSUME ReplayInv, NEW h \in Handlers, Admit(h),
           UNCHANGED <<replayId, confirmed, consuming, tool>>
    PROVE  TablesAdvance /\ NothingBroken'
<1>1. PICK b \in Bodies : b = handler[h].body
  BY HolderRecord DEF Admit
<1>2. Statement(h) /\ row'[b].exists
  BY <1>1, AdmitStatement DEF Admit
<1>3. handler' = [handler EXCEPT ![h] =
                    [pc |-> "read", body |-> b, attempt |-> handler[h].attempt]]
      /\ handler[h].attempt \in 0..MaxAttempts
  BY <1>1, GotoRecord DEF Admit, Stage
<1>4. GoesOn(h) /\ ArrivesAt(h, b, "read", handler[h].attempt)
  BY <1>1, <1>2, <1>3 DEF Admit, GoesOn, ArrivesAt
<1> QED
  BY <1>3, <1>4, HolderGoesOn DEF Stage

LEMMA ReadStep ==
    ASSUME ReplayInv, NEW h \in Handlers, Read(h),
           UNCHANGED <<replayId, confirmed, consuming, tool>>
    PROVE  TablesAdvance /\ NothingBroken'
<1>1. PICK b \in Bodies : b = handler[h].body
  BY HolderRecord DEF Read
<1>2. /\ Statement(h) /\ GoesOn(h) /\ row'[b] = row[b] /\ row[b].exists
      /\ handler[h].pc = "read" /\ RowSound(b, row[b])
  BY <1>1, NoStatement, HolderRecord DEF Read, HandlerSound, GoesOn
<1>3. PICK pc \in {"ack", "quarantine", "claim"} :
        Goto(h, pc) /\ (pc = "ack" => row[b].completed \/ row[b].quarantined)
  BY <1>1 DEF Read
<1>4. handler' = [handler EXCEPT ![h] =
                    [pc |-> pc, body |-> b, attempt |-> handler[h].attempt]]
      /\ handler[h].attempt \in 0..MaxAttempts
  BY <1>1, <1>2, <1>3, GotoRecord DEF Stage
<1>5. pc = "ack" => SafeToAck(b)'
  BY <1>2, <1>3 DEF SafeToAck, RowSound, Read
<1>6. ArrivesAt(h, b, pc, handler[h].attempt)
  BY <1>1, <1>2, <1>3, <1>4, <1>5 DEF ArrivesAt
<1> QED
  BY <1>2, <1>4, <1>6, HolderGoesOn DEF Stage

LEMMA QuarantineStep ==
    ASSUME ReplayInv, NEW h \in Handlers, Quarantine(h),
           UNCHANGED <<replayId, confirmed, consuming, tool>>
    PROVE  TablesAdvance /\ NothingBroken'
<1>1. PICK b \in Bodies : b = handler[h].body
  BY HolderRecord DEF Quarantine
<1>2. /\ Statement(h) /\ GoesOn(h) /\ handler[h].pc = "quarantine" /\ row[b].exists
      /\ MayQuarantine(row[b]) => row'[b].quarantined
  BY <1>1, QuarantineStatement, HolderRecord DEF Quarantine, HandlerSound, GoesOn
<1>3. PICK pc \in {"ack", "read"} :
        Goto(h, pc) /\ (pc = "ack" => MayQuarantine(row[b]))
  BY <1>1 DEF Quarantine
<1>4. handler' = [handler EXCEPT ![h] =
                    [pc |-> pc, body |-> b, attempt |-> handler[h].attempt]]
      /\ handler[h].attempt \in 0..MaxAttempts
  BY <1>1, <1>2, <1>3, GotoRecord DEF Stage
<1>5. pc = "ack" => SafeToAck(b)'
  BY <1>2, <1>3 DEF SafeToAck
<1>6. row'[b].exists
  BY <1>2, MoveKeepsRow DEF ReplayInv, GoesOn, Statement, TableMoves
<1>7. ArrivesAt(h, b, pc, handler[h].attempt)
  BY <1>1, <1>2, <1>3, <1>4, <1>5, <1>6 DEF ArrivesAt
<1> QED
  BY <1>2, <1>4, <1>7, HolderGoesOn DEF Stage

LEMMA ClaimStep ==
    ASSUME ReplayInv, NEW h \in Handlers, Claim(h),
           UNCHANGED <<replayId, confirmed, consuming, tool>>
    PROVE  TablesAdvance /\ NothingBroken'
<1>1. PICK b \in Bodies : b = handler[h].body
  BY HolderRecord DEF Claim
<1>2. /\ Statement(h) /\ GoesOn(h) /\ handler[h].pc = "claim" /\ row[b].exists
      /\ MayClaim(row[b]) => row'[b].attempts = row[b].attempts + 1
      /\ row[b] \in Row /\ handler[h] \in Handler
  BY <1>1, ClaimStatement, HolderRecord DEF Claim, HandlerSound, GoesOn
<1>3. row'[b].exists
  BY <1>2, MoveKeepsRow DEF ReplayInv, GoesOn, Statement, TableMoves
<1>4. CASE MayClaim(row[b])
  <2> DEFINE n == row[b].attempts + 1
  <2>1. n \in 0..MaxAttempts
    BY <1>2, <1>4, InboundAssumption DEF MayClaim, Row
  <2>2. handler' = [handler EXCEPT ![h] = [pc |-> "working", body |-> b, attempt |-> n]]
    <3>1. handler' = [handler EXCEPT ![h].pc = "working", ![h].attempt = n]
      BY <1>1, <1>4 DEF Claim
    <3> HIDE DEF n
    <3>2. PICK x \in Handler : x = handler[h]
      BY <1>2
    <3>3. handler' = [handler EXCEPT ![h] = [x EXCEPT !.pc = "working", !.attempt = n]]
      BY <3>1, <3>2 DEF ReplayInv, HandlersSound
    <3>4. x.body = b
      BY <1>1, <3>2
    <3> QED
      BY <2>1, <3>3, <3>4, RecordMoves DEF Stage, n
  <2>3. row'[b].attempts = n
    BY <1>2, <1>4
  <2> HIDE DEF n
  <2>4. ArrivesAt(h, b, "working", n)
    BY <1>1, <1>2, <1>3, <2>2, <2>3 DEF ArrivesAt
  <2> QED
    BY <1>2, <2>1, <2>4, HolderGoesOn DEF Stage
<1>5. CASE ~MayClaim(row[b])
  <2>1. handler' = [handler EXCEPT ![h] =
                      [pc |-> "read", body |-> b, attempt |-> handler[h].attempt]]
        /\ handler[h].attempt \in 0..MaxAttempts
    BY <1>1, <1>2, <1>5, GotoRecord DEF Claim, Stage
  <2>2. ArrivesAt(h, b, "read", handler[h].attempt)
    BY <1>1, <1>2, <1>3, <2>1 DEF ArrivesAt
  <2> QED
    BY <1>2, <2>1, <2>2, HolderGoesOn DEF Stage
<1> QED
  BY <1>4, <1>5

\* The callback commits: in time, or after what it failed for is repaired.
LEMMA EffectStep ==
    ASSUME ReplayInv, NEW h \in Handlers, handler[h].pc = "working",
           WithEffect(handler[h].body), Goto(h, "succeeded"),
           UNCHANGED <<queue, row, replayId, confirmed, consuming, tool>>
    PROVE  TablesAdvance /\ NothingBroken'
<1>1. PICK b \in Bodies : b = handler[h].body
  BY HolderRecord
<1>2. /\ Statement(h) /\ GoesOn(h) /\ row'[b] = row[b] /\ row[b].exists
      /\ b \in applied'.bodies
  BY <1>1, NoStatement, HolderRecord DEF HandlerSound, GoesOn, WithEffect
<1>3. handler' = [handler EXCEPT ![h] =
                    [pc |-> "succeeded", body |-> b, attempt |-> handler[h].attempt]]
      /\ handler[h].attempt \in 0..MaxAttempts
  BY <1>1, GotoRecord DEF Stage
<1>4. row[b].owner = h /\ row[b].lease = "live" => row[b].attempts = handler[h].attempt
  BY <1>1, HolderRecord DEF HandlerSound
<1>5. ArrivesAt(h, b, "succeeded", handler[h].attempt)
  BY <1>1, <1>2, <1>3, <1>4 DEF ArrivesAt
<1> QED
  BY <1>2, <1>3, <1>5, HolderGoesOn DEF Stage

LEMMA WorkFailsStep ==
    ASSUME ReplayInv, NEW h \in Handlers, WorkFails(h),
           UNCHANGED <<replayId, confirmed, consuming, tool>>
    PROVE  TablesAdvance /\ NothingBroken'
<1>1. PICK b \in Bodies : b = handler[h].body
  BY HolderRecord DEF WorkFails
<1>2. /\ Statement(h) /\ GoesOn(h) /\ row'[b] = row[b] /\ row[b].exists
      /\ handler[h].pc = "working"
  BY <1>1, NoStatement, HolderRecord DEF HandlerSound, GoesOn, WorkFails
<1>3. handler' = [handler EXCEPT ![h] =
                    [pc |-> "failed", body |-> b, attempt |-> handler[h].attempt]]
      /\ handler[h].attempt \in 0..MaxAttempts
  BY <1>1, GotoRecord DEF Stage, WorkFails
<1>4. row[b].owner = h /\ row[b].lease = "live" => row[b].attempts = handler[h].attempt
  BY <1>1, <1>2, HolderRecord DEF HandlerSound
<1>5. ArrivesAt(h, b, "failed", handler[h].attempt)
  BY <1>1, <1>2, <1>3, <1>4 DEF ArrivesAt
<1> QED
  BY <1>2, <1>3, <1>5, HolderGoesOn DEF Stage

LEMMA RecordStep ==
    ASSUME ReplayInv, NEW h \in Handlers, RecordSuccess(h) \/ RecordFailure(h),
           UNCHANGED <<replayId, confirmed, consuming, tool>>
    PROVE  TablesAdvance /\ NothingBroken'
<1>1. PICK b \in Bodies : b = handler[h].body
  BY HolderRecord DEF RecordSuccess, RecordFailure
<1>2. /\ handler[h].pc \in {"succeeded", "failed"} /\ row[b].exists
      /\ handler[h].pc = "succeeded" => b \in applied.bodies
      /\ UNCHANGED <<queue, applied>>
  BY <1>1, HolderRecord DEF HandlerSound, RecordSuccess, RecordFailure
<1>3. PICK pc \in {"ack", "read"} :
        Goto(h, pc) /\ (pc = "ack" => handler[h].pc = "succeeded")
  BY DEF RecordSuccess, RecordFailure
<1>4. handler' = [handler EXCEPT ![h] =
                    [pc |-> pc, body |-> b, attempt |-> handler[h].attempt]]
      /\ handler[h].attempt \in 0..MaxAttempts
  BY <1>1, <1>2, <1>3, GotoRecord DEF Stage
<1>5. handler'[h].pc = pc
  BY <1>4 DEF ReplayInv, HandlersSound
<1>6. Statement(h) /\ GoesOn(h)
  BY <1>2, <1>3, <1>5, OutcomeStatement DEF RecordSuccess, RecordFailure, GoesOn
<1>7. row'[b].exists
  BY <1>2, <1>6, MoveKeepsRow DEF ReplayInv, GoesOn, Statement, TableMoves
<1>8. pc = "ack" => SafeToAck(b)'
  BY <1>2, <1>3 DEF SafeToAck
<1>9. ArrivesAt(h, b, pc, handler[h].attempt)
  BY <1>1, <1>2, <1>3, <1>4, <1>7, <1>8 DEF ArrivesAt
<1> QED
  BY <1>4, <1>6, <1>9, HolderGoesOn DEF Stage

\* Whether the statement was executed or not, and whatever it was.
LEMMA AnswerLostStep ==
    ASSUME ReplayInv, NEW h \in Handlers, AnswerLost(h),
           UNCHANGED <<replayId, confirmed, consuming, tool>>
    PROVE  TablesAdvance /\ NothingBroken'
<1>1. handler[h].pc \in {"admit", "succeeded", "failed", "quarantine", "claim"}
      /\ UNCHANGED <<queue, applied>>
  BY DEF AnswerLost
<1>2. PICK b \in Bodies : b = handler[h].body
  BY <1>1, HolderRecord
<1>3. CASE handler[h].pc \in {"admit", "succeeded", "failed"} /\ handler' = handler
  <2>1. Statement(h)
    BY <1>1, <1>3, NoStatement, AdmitStatement, OutcomeStatement DEF AnswerLost
  <2> QED
    BY <1>1, <1>3, <2>1, HolderStays DEF GoesOn
<1>4. CASE handler[h].pc \in {"quarantine", "claim"} /\ Goto(h, "read")
  <2>1. Statement(h) /\ GoesOn(h) /\ row[b].exists
    BY <1>1, <1>2, <1>4, NoStatement, QuarantineStatement, ClaimStatement, HolderRecord
       DEF AnswerLost, GoesOn, HandlerSound
  <2>2. handler' = [handler EXCEPT ![h] =
                      [pc |-> "read", body |-> b, attempt |-> handler[h].attempt]]
        /\ handler[h].attempt \in 0..MaxAttempts
    BY <1>1, <1>2, <1>4, GotoRecord DEF Stage
  <2>3. row'[b].exists
    BY <2>1, MoveKeepsRow DEF ReplayInv, GoesOn, Statement, TableMoves
  <2>4. ArrivesAt(h, b, "read", handler[h].attempt)
    BY <1>1, <1>2, <2>2, <2>3 DEF ArrivesAt
  <2> QED
    BY <2>1, <2>2, <2>4, HolderGoesOn DEF Stage
<1> QED
  BY <1>1, <1>3, <1>4 DEF AnswerLost
-----------------------------------------------------------------------------
(***************************************************************************)
(* The steps in which a message changes hands.                             *)
(***************************************************************************)
\* A handler without a row of its own to work on is sound.
LEMMA HandlersAdvance ==
    ASSUME ReplayInv, TablesAdvance,
           handler' = [g \in Handlers |-> handler'[g]],
           \A g \in Handlers :
              \/ handler'[g] = handler[g]
              \/ /\ handler'[g] \in Handler \cup {Idle}
                 /\ handler'[g].pc \in {"idle", "admit", "orphan"}
    PROVE  HandlersSound'
<1> SUFFICES ASSUME NEW g \in Handlers
             PROVE  HandlerSound(g, handler[g])'
  BY DEF HandlersSound
<1>1. PICK x : x = handler'[g]
  OBVIOUS
<1>2. CASE x = handler[g]
  <2>1. HandlerSound(g, x)'
    BY <1>2, OthersSound
  <2> QED
    BY <1>1, <2>1 DEF HandlerSound, SafeToAck
<1>3. CASE x \in Handler \cup {Idle} /\ x.pc \in {"idle", "admit", "orphan"}
  BY <1>1, <1>3 DEF HandlerSound
<1> QED
  BY <1>1, <1>2, <1>3

\* A message that waits goes on waiting, or may be forgotten.
LEMMA NothingLost ==
    ASSUME ReplayInv, TablesAdvance,
           \A b \in Bodies : row'[b].exists => row[b].exists,
           \A b \in Bodies : Pending(b) => Pending(b)' \/ SafeToAck(b)
    PROVE  NoMessageLost'
<1> SUFFICES ASSUME NEW b \in Bodies, row'[b].exists
             PROVE  Pending(b)' \/ SafeToAck(b)'
  BY DEF NoMessageLost, SafeToAck
<1> QED
  BY SafeStays DEF ReplayInv, NoMessageLost, SafeToAck

LEMMA RowsStay ==
    ASSUME ReplayInv, UNCHANGED <<row, replayId, confirmed>>,
           applied.bodies \subseteq applied'.bodies
    PROVE  TablesAdvance /\ RowsSound'
<1>1. TablesAdvance
  BY NoRowMoves, ReplayAssumption DEF TablesAdvance, ReplayInv, ToolSound
<1> QED
  BY <1>1, RowsAdvance

LEMMA DeliverStep ==
    ASSUME ReplayInv, NEW h \in Handlers, NEW b \in Bodies, Deliver(h, b), consuming,
           UNCHANGED <<replayId, confirmed, consuming, tool>>
    PROVE  TablesAdvance /\ NothingBroken'
<1>1. TablesAdvance /\ RowsSound' /\ ToolSound'
  BY RowsStay DEF Deliver, ReplayInv, ToolSound
<1>2. PICK x : x = [pc |-> "admit", body |-> b, attempt |-> 0]
  OBVIOUS
<1>3. x \in Handler /\ x.pc = "admit" /\ x.body = b
  BY <1>2, InboundAssumption DEF Handler, Stage
<1>4. /\ handler' = [g \in Handlers |-> handler'[g]]
      /\ \A g \in Handlers : handler'[g] = IF g = h THEN x ELSE handler[g]
  BY <1>2 DEF Deliver, ReplayInv, HandlersSound
<1>5. HandlersSound'
  BY <1>1, <1>3, <1>4, HandlersAdvance
<1>6. \A c \in Bodies : Pending(c) => Pending(c)'
  <2> SUFFICES ASSUME NEW c \in Bodies, Pending(c), c # b
               PROVE  Pending(c)'
    BY <1>3, <1>4 DEF Pending, Holds
  <2>1. queue'[c] = queue[c]
    BY DEF Deliver, ReplayInv, BoundsTyped
  <2>2. \A g \in Handlers : Holds(g, c) => Holds(g, c)'
    BY <1>4 DEF Deliver, Holds, Idle
  <2> QED
    BY <2>1, <2>2 DEF Pending
<1>7. NoMessageLost'
  BY <1>1, <1>6, NothingLost DEF Deliver
<1> QED
  BY <1>1, <1>5, <1>7 DEF NothingBroken

\* A handler lets go of its message: it acknowledged it, it was not its own any
\* more, or the broker has it again.
LEMMA LetGoStep ==
    ASSUME ReplayInv, NEW h \in Handlers, Ack(h) \/ OrphanEnds(h) \/ LoseChannel(h),
           UNCHANGED <<replayId, confirmed, consuming, tool>>
    PROVE  TablesAdvance /\ NothingBroken'
<1>1. applied.bodies \subseteq applied'.bodies /\ row' = row
  BY DEF Ack, OrphanEnds, LoseChannel, WithEffect
<1>2. TablesAdvance /\ RowsSound' /\ ToolSound'
  BY <1>1, RowsStay DEF ReplayInv, ToolSound
<1>3. handler[h].pc # "idle"
  BY DEF Ack, OrphanEnds, LoseChannel
<1>4. PICK x \in Handler \cup {Idle} :
        handler' = [handler EXCEPT ![h] = x] /\ x.pc \in {"idle", "orphan"}
  <2>1. CASE handler' = [handler EXCEPT ![h] = Idle]
    <3>1. Idle \in Handler \cup {Idle} /\ Idle.pc = "idle"
      BY DEF Idle
    <3> QED
      BY <2>1, <3>1
  <2>2. CASE Goto(h, "orphan")
    <3>1. PICK y \in Handler : y = handler[h]
      BY <1>3, HolderRecord
    <3>2. handler' = [handler EXCEPT ![h] =
                        [pc |-> "orphan", body |-> y.body, attempt |-> y.attempt]]
      BY <1>3, <2>2, <3>1, GotoRecord DEF Stage, Handler
    <3>3. PICK z : z = [pc |-> "orphan", body |-> y.body, attempt |-> y.attempt]
      OBVIOUS
    <3>4. z \in Handler /\ z.pc = "orphan"
      BY <3>3 DEF Handler, Stage
    <3> QED
      BY <3>2, <3>3, <3>4
  <2> QED
    BY <2>1, <2>2 DEF Ack, OrphanEnds, LoseChannel
<1>5. /\ handler' = [g \in Handlers |-> handler'[g]]
      /\ \A g \in Handlers : handler'[g] = IF g = h THEN x ELSE handler[g]
  BY <1>4 DEF ReplayInv, HandlersSound
<1>6. HandlersSound'
  BY <1>2, <1>4, <1>5, HandlersAdvance
<1>7. ASSUME NEW c \in Bodies, Pending(c)
      PROVE  Pending(c)' \/ SafeToAck(c)
  <2>1. queue'[c] = queue[c] \/ (queue'[c] = queue[c] + 1)
    BY DEF Ack, OrphanEnds, LoseChannel, ReplayInv, BoundsTyped
  <2>2. queue[c] \in Nat
    BY DEF ReplayInv, BoundsTyped
  <2>3. CASE queue[c] > 0
    BY <2>1, <2>2, <2>3 DEF Pending
  <2>4. ASSUME NEW g \in Handlers, g # h, Holds(g, c)
        PROVE  Pending(c)'
    BY <1>5, <2>4 DEF Pending, Holds
  <2>5. CASE Holds(h, c)
    <3>1. CASE Ack(h)
      BY <1>3, <2>5, <3>1, HolderRecord DEF Holds, Ack, HandlerSound
    <3>2. CASE LoseChannel(h)
      BY <2>2, <2>5, <3>2 DEF Holds, LoseChannel, Pending, ReplayInv, BoundsTyped
    <3> QED
      BY <2>5, <3>1, <3>2 DEF Holds, OrphanEnds
  <2> QED
    BY <1>7, <2>3, <2>4, <2>5 DEF Pending
<1>8. NoMessageLost'
  BY <1>1, <1>2, <1>7, NothingLost
<1>9. (~consuming => NobodyHolds)'
  BY <1>4, <1>5 DEF ReplayInv, NobodyHolds
<1> QED
  BY <1>2, <1>6, <1>8, <1>9 DEF NothingBroken

LEMMA PublishStep ==
    ASSUME ReplayInv, NEW b \in Bodies, Publish(b),
           UNCHANGED <<replayId, confirmed, consuming, tool>>
    PROVE  TablesAdvance /\ NothingBroken'
<1>1. TablesAdvance /\ RowsSound' /\ ToolSound'
  BY RowsStay DEF Publish, ReplayInv, ToolSound
<1>2. HandlersSound'
  BY <1>1, HandlersAdvance DEF Publish, ReplayInv, HandlersSound
<1>3. \A c \in Bodies : Pending(c) => Pending(c)'
  BY DEF Publish, Pending, Holds, ReplayInv, BoundsTyped
<1> QED
  BY <1>1, <1>2, <1>3, NothingLost DEF NothingBroken, Publish, ReplayInv, NobodyHolds

\* Time passes over a row.
LEMMA TimeStep ==
    ASSUME ReplayInv, NEW b \in Bodies, LeaseEnds(b) \/ BackoffEnds(b),
           UNCHANGED <<replayId, confirmed, consuming, tool>>
    PROVE  TablesAdvance /\ NothingBroken'
<1>1. row[b] \in Row /\ row = [c \in Bodies |-> row[c]]
  BY DEF ReplayInv, RowsSound, RowSound
<1>2. PICK r : \/ LeaseEnds(b) /\ r = EndedRow(row[b])
               \/ BackoffEnds(b) /\ r = DueRow(row[b])
  BY Zenon
<1>3. row' = [row EXCEPT ![b] = r]
  BY <1>2 DEF LeaseEnds, BackoffEnds, EndedRow, DueRow
<1>4. row'[b] = r /\ r.exists = row[b].exists
  BY <1>1, <1>2, <1>3, RowColumns
<1>5. RowMoves(b)
  BY <1>2, <1>4 DEF RowMoves, LeaseEnds, BackoffEnds
<1>6. TableMoves /\ (\A c \in Bodies : row'[c].exists => row[c].exists)
  BY <1>1, <1>3, <1>4, <1>5 DEF TableMoves, RowMoves
<1>7. TablesAdvance
  BY <1>6, ReplayAssumption DEF TablesAdvance, ReplayInv, ToolSound, LeaseEnds, BackoffEnds
<1>8. HandlersSound'
  BY <1>7, HandlersAdvance DEF LeaseEnds, BackoffEnds, ReplayInv, HandlersSound
<1>9. UNCHANGED <<queue, handler>>
  BY DEF LeaseEnds, BackoffEnds
<1>10. NoMessageLost'
  BY <1>6, <1>7, <1>9, NothingLost DEF Pending, Holds
<1> QED
  BY <1>7, <1>8, <1>9, <1>10, RowsAdvance DEF NothingBroken, ReplayInv, ToolSound, NobodyHolds

\* The consumers stop: the broker has every message again.
LEMMA StopStep ==
    ASSUME ReplayInv, StopConsumers
    PROVE  TablesAdvance /\ NothingBroken'
<1>1. TablesAdvance /\ RowsSound' /\ ToolSound'
  BY RowsStay DEF StopConsumers, ReplayInv, ToolSound
<1>2. PICK S \in SUBSET {h \in Handlers : handler[h].pc = "working"} :
        handler' = [h \in Handlers |->
                      IF h \in S THEN [handler[h] EXCEPT !.pc = "orphan"]
                      ELSE IF handler[h].pc = "orphan" THEN handler[h] ELSE Idle]
  BY DEF StopConsumers
<1>3. ASSUME NEW g \in Handlers
      PROVE  \/ handler'[g] = handler[g] /\ handler[g].pc = "orphan"
             \/ /\ handler'[g] \in Handler \cup {Idle}
                /\ handler'[g].pc \in {"idle", "orphan"}
  <2>1. CASE g \in S
    <3>1. PICK y \in Handler : y = handler[g]
      BY <2>1, HolderRecord
    <3>2. handler'[g] = [y EXCEPT !.pc = "orphan"]
      BY <1>2, <2>1, <3>1
    <3>3. [y EXCEPT !.pc = "orphan"] \in Handler /\ [y EXCEPT !.pc = "orphan"].pc = "orphan"
      BY DEF Handler, Stage
    <3> QED
      BY <3>2, <3>3
  <2>2. CASE g \notin S
    BY <1>2, <2>2 DEF Idle
  <2> QED
    BY <2>1, <2>2
<1>4. HandlersSound'
  BY <1>1, <1>2, <1>3, HandlersAdvance
<1>5. ASSUME NEW c \in Bodies, Pending(c)
      PROVE  Pending(c)'
  <2> DEFINE H == {h \in Handlers : Holds(h, c)}
  <2>1. IsFiniteSet(H) /\ Cardinality(H) \in Nat /\ (H # {} => Cardinality(H) > 0)
    BY InboundAssumption, FS_Subset, FS_CardinalityType, FS_EmptySet
  <2>2. queue'[c] = queue[c] + Cardinality(H) /\ queue[c] \in Nat
    BY DEF StopConsumers, ReplayInv, BoundsTyped
  <2>3. queue[c] > 0 \/ H # {}
    BY <1>5 DEF Pending
  <2> HIDE DEF H
  <2> QED
    BY <2>1, <2>2, <2>3 DEF Pending
<1>6. NoMessageLost'
  BY <1>1, <1>5, NothingLost DEF StopConsumers
<1> QED
  BY <1>1, <1>3, <1>4, <1>6 DEF NothingBroken, NobodyHolds

LEMMA StartStep ==
    ASSUME ReplayInv, StartConsumers \/ (\E b \in Bodies, id \in 1..ReplayBound : StartReplay(b, id))
    PROVE  TablesAdvance /\ NothingBroken'
<1>1. TablesAdvance /\ RowsSound' /\ UNCHANGED inboundVars
  BY RowsStay DEF StartConsumers, StartReplay, inboundVars
<1>2. HandlersSound' /\ NoMessageLost'
  BY <1>1, HandlersAdvance, NothingLost
     DEF inboundVars, ReplayInv, HandlersSound, Pending, Holds
<1>3. ToolSound'
  <2>1. CASE StartConsumers
    BY <2>1 DEF StartConsumers, ReplayInv, ToolSound
  <2>2. ASSUME NEW b \in Bodies, NEW id \in 1..ReplayBound, StartReplay(b, id)
        PROVE  ToolSound'
    <3>1. PICK t : t = [pc |-> "reset", body |-> b, id |-> id, was |-> replayId[b]]
      OBVIOUS
    <3>2. /\ t \in [pc: {"reset", "publish"}, body: Bodies, id: 1..ReplayBound, was: 0..ReplayBound]
          /\ t.pc = "reset" /\ t.body = b /\ t.id = id /\ t.was = replayId[b]
          /\ tool' = t /\ UNCHANGED <<replayId, confirmed>> /\ replayId[b] <= id
      BY <2>2, <3>1, ReplayAssumption DEF StartReplay, ReplayInv, ToolSound
    <3> QED
      BY <3>2 DEF ReplayInv, ToolSound
  <2> QED
    BY <2>1, <2>2
<1>4. (~consuming => NobodyHolds)'
  BY <1>1 DEF ReplayInv, NobodyHolds, inboundVars, StartConsumers, StartReplay
<1> QED
  BY <1>1, <1>2, <1>3, <1>4 DEF NothingBroken
-----------------------------------------------------------------------------
(***************************************************************************)
(* The steps of the tool.                                                  *)
(***************************************************************************)
LEMMA ToolRecord ==
    ASSUME ReplayInv, tool.pc \in {"reset", "publish"}
    PROVE  /\ tool \in [pc: {"reset", "publish"}, body: Bodies,
                        id: 1..ReplayBound, was: 0..ReplayBound]
           /\ tool.body \in Bodies /\ tool.id \in 1..ReplayBound
           /\ row[tool.body] \in Row /\ RowSound(tool.body, row[tool.body])
  BY DEF ReplayInv, ToolSound, Unused, RowsSound, RowSound

\* The first run of a replay takes the message out of quarantine; it is lost
\* only if no later run publishes it, and until one does none is confirmed.
LEMMA ResetStep ==
    ASSUME ReplayInv, ResetRow
    PROVE  TablesAdvance /\ NothingBroken'
<1>1. PICK t \in [pc: {"reset", "publish"}, body: Bodies,
                  id: 1..ReplayBound, was: 0..ReplayBound] : t = tool /\ t.pc = "reset"
  BY ToolRecord DEF ResetRow
<1>2. PICK b \in Bodies : b = t.body
  OBVIOUS
<1>3. /\ row[b] \in Row /\ RowSound(b, row[b]) /\ replayId[b] = t.was /\ t.was <= t.id
      /\ t.was \in Nat /\ t.id \in Nat /\ t.id \in 0..ReplayBound
  BY <1>1, <1>2, ToolRecord, ReplayAssumption DEF ReplayInv, ToolSound
<1>4. UNCHANGED <<queue, handler, applied, confirmed, consuming>>
  BY DEF ResetRow
<1>5. TablesAdvance /\ (\A c \in Bodies : row'[c].exists => row[c].exists)
      /\ (Resets(b, t.id) => replayId'[b] = t.id)
      /\ (~Resets(b, t.id) => replayId'[b] = replayId[b])
  <2>1. CASE Resets(b, t.id)
    <3>1. row' = [row EXCEPT ![b] = ReplayedRow] /\ replayId' = [replayId EXCEPT ![b] = t.id]
      BY <1>1, <1>2, <2>1 DEF ResetRow, ReplayedRow
    <3>2. /\ row' = [c \in Bodies |-> row'[c]] /\ row'[b] = ReplayedRow
          /\ \A c \in Bodies \ {b} : row'[c] = row[c] /\ replayId'[c] = replayId[c]
          /\ replayId'[b] = t.id /\ replayId' \in [Bodies -> 0..ReplayBound]
          /\ replayId \in [Bodies -> 0..ReplayBound]
      BY <1>3, <3>1 DEF ReplayInv, RowsSound, ToolSound
    <3>3. replayId'[b] > replayId[b] /\ row[b].quarantined
      BY <1>3, <2>1, <3>2 DEF Resets
    <3>4. RowMoves(b) /\ row[b].exists
      BY <1>3, <3>2, <3>3, NewColumns DEF RowMoves, RowSound
    <3>5. TableMoves
      BY <3>2, <3>4 DEF TableMoves, RowMoves
    <3>6. \A c \in Bodies : replayId[c] <= replayId'[c]
      BY <3>2, <3>3, ReplayAssumption
    <3> QED
      BY <1>4, <2>1, <3>2, <3>4, <3>5, <3>6 DEF TablesAdvance
  <2>2. CASE ~Resets(b, t.id)
    BY <1>1, <1>2, <1>4, <2>2, RowsStay DEF ResetRow
  <2> QED
    BY <2>1, <2>2
<1>6. HandlersSound' /\ NoMessageLost'
  BY <1>4, <1>5, HandlersAdvance, NothingLost DEF ReplayInv, HandlersSound, Pending, Holds
<1>7. ToolSound'
  <2>1. replayId' \in [Bodies -> 0..ReplayBound] /\ confirmed \in [Bodies -> 0..ReplayBound]
        /\ replayId \in [Bodies -> 0..ReplayBound]
        /\ (\A c \in Bodies : confirmed[c] <= replayId[c] /\ replayId[c] <= replayId'[c])
    BY <1>5 DEF ReplayInv, ToolSound, TablesAdvance
  <2>2. \A c \in Bodies : confirmed'[c] <= replayId'[c]
    BY <1>4, <2>1, ReplayAssumption
  <2>3. CASE Resets(b, t.id) \/ t.was = t.id
    <3>1. PICK q : q = [t EXCEPT !.pc = "publish"]
      OBVIOUS
    <3>2. /\ q \in [pc: {"reset", "publish"}, body: Bodies, id: 1..ReplayBound, was: 0..ReplayBound]
          /\ q.pc = "publish" /\ q.body = b /\ q.id = t.id
      BY <1>2, <3>1
    <3>3. tool' = q
      BY <1>1, <1>2, <2>3, <3>1 DEF ResetRow
    <3>4. replayId'[b] = t.id
      BY <1>3, <1>5, <2>3
    <3> QED
      BY <1>4, <2>1, <2>2, <3>2, <3>3, <3>4 DEF ToolSound
  <2>4. CASE ~(Resets(b, t.id) \/ t.was = t.id)
    <3>1. tool' = Unused /\ Unused.pc = "idle"
      BY <1>1, <1>2, <2>4 DEF ResetRow, Unused
    <3> QED
      BY <1>4, <2>1, <2>2, <3>1 DEF ToolSound
  <2> QED
    BY <2>3, <2>4
<1> QED
  BY <1>4, <1>5, <1>6, <1>7, RowsAdvance DEF NothingBroken, ReplayInv, NobodyHolds

\* The broker confirms only what it has.
LEMMA PublishAgainStep ==
    ASSUME ReplayInv, PublishAgain
    PROVE  NothingBroken'
<1>1. tool' = Unused /\ Unused.pc = "idle" /\ UNCHANGED <<row, handler, applied, consuming, replayId>>
  BY DEF PublishAgain, Unused
<1>2. PICK b \in Bodies : b = tool.body
  BY ToolRecord DEF PublishAgain
<1>3. RowsSound'
  BY <1>1 DEF ReplayInv, RowsSound, RowSound
<1>4. (~consuming => NobodyHolds)'
  BY <1>1 DEF ReplayInv, NobodyHolds
<1>5. CASE consuming
  <2>1. UNCHANGED <<queue, confirmed>>
    BY <1>5 DEF PublishAgain
  <2>2. HandlersSound' /\ NoMessageLost'
    BY <1>1, <2>1, RowsStay, HandlersAdvance, NothingLost
       DEF ReplayInv, HandlersSound, Pending, Holds
  <2>3. ToolSound'
    BY <1>1, <2>1 DEF ReplayInv, ToolSound
  <2> QED
    BY <1>3, <1>4, <2>2, <2>3 DEF NothingBroken
<1>6. CASE ~consuming
  <2>1. queue' = [queue EXCEPT ![b] = @ + 1] /\ confirmed' = [confirmed EXCEPT ![b] = tool.id]
    BY <1>2, <1>6 DEF PublishAgain
  <2>2. queue[b] \in Nat /\ queue'[b] = queue[b] + 1 /\ (\A c \in Bodies \ {b} : queue'[c] = queue[c])
    BY <2>1 DEF ReplayInv, BoundsTyped
  <2>3. /\ tool.id = replayId[b] /\ confirmed' \in [Bodies -> 0..ReplayBound]
        /\ confirmed'[b] = tool.id /\ (\A c \in Bodies \ {b} : confirmed'[c] = confirmed[c])
    BY <1>2, <2>1, ToolRecord, ReplayAssumption DEF ReplayInv, ToolSound, PublishAgain
  <2>4. ToolSound'
    <3>1. \A c \in Bodies : confirmed[c] <= replayId[c] /\ replayId[c] \in 0..ReplayBound
      BY DEF ReplayInv, ToolSound
    <3>2. \A c \in Bodies : confirmed'[c] <= replayId'[c]
      BY <1>1, <2>3, <3>1, ReplayAssumption
    <3> QED
      BY <1>1, <2>3, <3>2 DEF ToolSound, ReplayInv
  <2>5. HandlersSound'
    <3>1. NobodyHolds
      BY <1>6 DEF ReplayInv
    <3>2. \A h \in Handlers : handler[h].pc \in {"idle", "orphan"} /\ handler[h] \in Handler \cup {Idle}
      BY <3>1 DEF NobodyHolds, ReplayInv, HandlersSound, HandlerSound
    <3> QED
      BY <1>1, <3>2 DEF ReplayInv, HandlersSound, HandlerSound
  <2>6. NoMessageLost'
    <3> SUFFICES ASSUME NEW c \in Bodies, row'[c].exists
                 PROVE  Pending(c)' \/ SafeToAck(c)'
      BY DEF NoMessageLost, SafeToAck
    <3>1. CASE c = b
      BY <2>2, <3>1 DEF Pending
    <3>2. CASE c # b
      BY <1>1, <2>2, <2>3, <3>2 DEF ReplayInv, NoMessageLost, SafeToAck, Pending, Holds
    <3> QED
      BY <3>1, <3>2
  <2> QED
    BY <1>3, <1>4, <2>4, <2>5, <2>6 DEF NothingBroken
<1> QED
  BY <1>5, <1>6

LEMMA ToolFailsStep ==
    ASSUME ReplayInv, ToolFails
    PROVE  TablesAdvance /\ NothingBroken'
<1>1. /\ tool' = Unused /\ Unused.pc = "idle"
      /\ UNCHANGED <<row, handler, applied, consuming, replayId, confirmed>>
  BY DEF ToolFails, Unused
<1>2. TablesAdvance /\ RowsSound' /\ ToolSound'
  BY <1>1, RowsStay DEF ReplayInv, ToolSound
<1>3. HandlersSound'
  BY <1>1, <1>2, HandlersAdvance DEF ReplayInv, HandlersSound
<1>4. \A c \in Bodies : Pending(c) => Pending(c)'
  <2>1. \A c \in Bodies : queue[c] \in Nat /\ (queue'[c] = queue[c] \/ queue'[c] = queue[c] + 1)
    BY ToolRecord DEF ToolFails, ReplayInv, BoundsTyped
  <2> QED
    BY <1>1, <2>1 DEF Pending, Holds
<1> QED
  BY <1>1, <1>2, <1>3, <1>4, NothingLost DEF NothingBroken, ReplayInv, NobodyHolds
-----------------------------------------------------------------------------
(***************************************************************************)
(* Every step.                                                             *)
(***************************************************************************)
LEMMA HandlerSteps ==
    ASSUME ReplayInv, Progresses \/ Disturbed \/ (consuming /\ Delivered)
                      \/ (\E h \in Handlers : RepairedWorkSucceeds(h)),
           UNCHANGED replayVars
    PROVE  TablesAdvance /\ NothingBroken'
<1>1. UNCHANGED <<replayId, confirmed, consuming, tool>>
  BY DEF replayVars
<1>2. ASSUME NEW h \in Handlers, Runs(h)
      PROVE  TablesAdvance /\ NothingBroken'
  <2>1. CASE Admit(h)
    BY <1>1, <2>1, AdmitStep
  <2>2. CASE Read(h)
    BY <1>1, <2>2, ReadStep
  <2>3. CASE Quarantine(h)
    BY <1>1, <2>3, QuarantineStep
  <2>4. CASE Claim(h)
    BY <1>1, <2>4, ClaimStep
  <2>5. CASE WorkSucceeds(h)
    BY <1>1, <2>5, EffectStep DEF WorkSucceeds
  <2>6. CASE WorkFails(h)
    BY <1>1, <2>6, WorkFailsStep
  <2>7. CASE RecordSuccess(h) \/ RecordFailure(h)
    BY <1>1, <2>7, RecordStep
  <2>8. CASE Ack(h) \/ OrphanEnds(h)
    BY <1>1, <2>8, LetGoStep
  <2> QED
    BY <1>2, <2>1, <2>2, <2>3, <2>4, <2>5, <2>6, <2>7, <2>8 DEF Runs
<1>3. CASE \E b \in Bodies : LeaseEnds(b) \/ BackoffEnds(b) \/ Publish(b)
  BY <1>1, <1>3, TimeStep, PublishStep
<1>4. CASE \E h \in Handlers : AnswerLost(h) \/ LoseChannel(h)
  BY <1>1, <1>4, AnswerLostStep, LetGoStep
<1>5. CASE consuming /\ Delivered
  BY <1>1, <1>5, DeliverStep DEF Delivered
<1>6. CASE \E h \in Handlers : RepairedWorkSucceeds(h)
  <2>1. PICK h \in Handlers : RepairedWorkSucceeds(h)
    BY <1>6
  <2> QED
    BY <1>1, <2>1, EffectStep DEF RepairedWorkSucceeds
<1> QED
  BY <1>2, <1>3, <1>4, <1>5, <1>6 DEF Progresses, Disturbed

\* Rows move, and replay ids grow.
LEMMA EveryStepAdvances ==
    ASSUME ReplayInv, ReplayNext
    PROVE  /\ NothingBroken' /\ TableMoves
           /\ replayId' \in [Bodies -> 0..ReplayBound]
           /\ \A b \in Bodies : replayId[b] <= replayId'[b]
<1>1. CASE PublishAgain
  <2>1. TableMoves /\ replayId' = replayId
    BY <1>1, NoRowMoves DEF PublishAgain
  <2> QED
    BY <1>1, <2>1, PublishAgainStep, ReplayAssumption DEF ReplayInv, ToolSound
<1>2. CASE ~PublishAgain
  <2>1. TablesAdvance /\ NothingBroken'
    BY <1>2, HandlerSteps, StopStep, StartStep, ResetStep, ToolFailsStep
       DEF ReplayNext, Continues
  <2> QED
    BY <2>1 DEF TablesAdvance
<1> QED
  BY <1>1, <1>2


LEMMA BoundsStayTyped ==
    ASSUME ReplayInv, ReplayNext
    PROVE  BoundsTyped'
<1>1. /\ queue \in [Bodies -> Nat] /\ traffic \in [Bodies -> Nat]
      /\ lastDate \in Dates \cup {NoBody}
      /\ applied \in [bodies: SUBSET Bodies, date: Dates \cup {NoBody}]
      /\ failures \in 0..FailureBound /\ interventions \in 0..InterventionBound
      /\ consuming \in BOOLEAN /\ FailureBound \in Nat /\ InterventionBound \in Nat
  BY InboundAssumption, ReplayAssumption DEF ReplayInv, BoundsTyped
<1>2. ASSUME NEW b \in Bodies, WithEffect(b)
      PROVE  applied' \in [bodies: SUBSET Bodies, date: Dates \cup {NoBody}]
  BY <1>1, <1>2 DEF WithEffect
<1>3. ASSUME UNCHANGED <<queue, traffic, lastDate, failures, interventions, consuming>>,
             \/ UNCHANGED applied
             \/ \E h \in Handlers : handler[h].pc # "idle" /\ WithEffect(handler[h].body)
      PROVE  BoundsTyped'
  BY <1>1, <1>2, <1>3, HolderRecord DEF BoundsTyped
<1>4. ASSUME UNCHANGED <<traffic, lastDate, applied, interventions, consuming>>,
             failures < FailureBound, failures' = failures + 1,
             queue' \in [Bodies -> Nat]
      PROVE  BoundsTyped'
  BY <1>1, <1>4 DEF BoundsTyped
<1>5. \A b \in Bodies : [queue EXCEPT ![b] = @ + 1] \in [Bodies -> Nat]
  BY <1>1
<1>6. ASSUME NEW h \in Handlers, Runs(h), UNCHANGED replayVars
      PROVE  BoundsTyped'
  <2>1. UNCHANGED <<interventions, consuming>>
    BY <1>6 DEF replayVars
  <2>2. CASE WorkSucceeds(h) \/ OrphanEnds(h)
    BY <1>3, <2>1, <2>2 DEF WorkSucceeds, OrphanEnds
  <2>3. CASE WorkFails(h)
    BY <1>1, <2>1, <2>3 DEF WorkFails, BoundsTyped
  <2>4. CASE Admit(h) \/ Read(h) \/ Quarantine(h) \/ Claim(h)
    BY <1>3, <2>1, <2>4 DEF Admit, Read, Quarantine, Claim
  <2>5. CASE RecordSuccess(h) \/ RecordFailure(h) \/ Ack(h)
    BY <1>3, <2>1, <2>5 DEF RecordSuccess, RecordFailure, Ack
  <2> QED
    BY <1>6, <2>2, <2>3, <2>4, <2>5 DEF Runs
<1>7. ASSUME Disturbed, UNCHANGED replayVars
      PROVE  BoundsTyped'
  <2>1. UNCHANGED <<interventions, consuming>>
    BY <1>7 DEF replayVars
  <2>2. ASSUME NEW h \in Handlers, AnswerLost(h) \/ LoseChannel(h)
        PROVE  BoundsTyped'
    <3>1. CASE AnswerLost(h)
      BY <1>1, <1>4, <2>1, <3>1 DEF AnswerLost
    <3>2. CASE LoseChannel(h)
      BY <1>4, <1>5, <2>1, <3>2, HolderRecord DEF LoseChannel
    <3> QED
      BY <2>2, <3>1, <3>2
  <2>3. ASSUME NEW b \in Bodies, Publish(b)
        PROVE  BoundsTyped'
    BY <1>1, <1>5, <2>1, <2>3 DEF Publish, BoundsTyped
  <2> QED
    BY <1>7, <2>2, <2>3 DEF Disturbed
<1>8. CASE Continues
  <2>1. ASSUME Progresses \/ (\E h \in Handlers : RepairedWorkSucceeds(h))
                          \/ (consuming /\ Delivered),
               UNCHANGED replayVars
        PROVE  BoundsTyped'
    <3>1. CASE \E b \in Bodies : LeaseEnds(b) \/ BackoffEnds(b)
      BY <1>3, <2>1, <3>1 DEF LeaseEnds, BackoffEnds, replayVars
    <3>2. CASE \E h \in Handlers : RepairedWorkSucceeds(h)
      BY <1>3, <2>1, <3>2 DEF RepairedWorkSucceeds, replayVars
    <3>3. CASE Delivered
      BY <1>1, <2>1, <3>3 DEF Delivered, Deliver, BoundsTyped, replayVars
    <3> QED
      BY <1>6, <2>1, <3>1, <3>2, <3>3 DEF Progresses
  <2>2. CASE StartConsumers
    BY <1>1, <2>2 DEF StartConsumers, inboundVars, BoundsTyped
  <2>3. CASE ResetRow
    BY <1>3, <2>3 DEF ResetRow
  <2>4. CASE PublishAgain
    BY <1>1, <1>5, <2>4, ToolRecord DEF PublishAgain, BoundsTyped
  <2> QED
    BY <1>8, <2>1, <2>2, <2>3, <2>4 DEF Continues
<1>9. CASE StopConsumers
  <2>1. \A b \in Bodies : Cardinality({h \in Handlers : Holds(h, b)}) \in Nat
    BY InboundAssumption, FS_Subset, FS_CardinalityType
  <2>2. queue' \in [Bodies -> Nat]
    BY <1>1, <1>9, <2>1 DEF StopConsumers
  <2>3. interventions' \in 0..InterventionBound
    BY <1>1, <1>9 DEF StopConsumers, Intervenes
  <2>4. consuming' \in BOOLEAN /\ UNCHANGED <<traffic, lastDate, applied, failures>>
    BY <1>9 DEF StopConsumers
  <2> QED
    BY <1>1, <2>2, <2>3, <2>4 DEF BoundsTyped
<1>10. CASE ToolFails
  BY <1>1, <1>4, <1>5, <1>10, ToolRecord DEF ToolFails
<1>11. CASE \E b \in Bodies, id \in 1..ReplayBound : StartReplay(b, id)
  BY <1>1, <1>11 DEF StartReplay, inboundVars, Intervenes, BoundsTyped
<1> QED
  BY <1>7, <1>8, <1>9, <1>10, <1>11 DEF ReplayNext
-----------------------------------------------------------------------------
(***************************************************************************)
(* The starts of callbacks.                                                *)
(***************************************************************************)
\* Only a claim begins a callback, and it takes an attempt.
LEMMA BeginsClaims ==
    ASSUME ReplayInv, Progresses \/ (\E h \in Handlers : RepairedWorkSucceeds(h)) \/ Delivered,
           NEW g \in Handlers, NEW b \in Bodies, Begins(g, b)
    PROVE  row'[b].attempts = row[b].attempts + 1
<1>1. handler[g].pc = "claim" /\ handler[g].body = b /\ handler'[g].pc = "working"
  BY DEF Begins
<1>2. ASSUME NEW h \in Handlers, NEW pc \in Stage, handler[h].pc # "idle",
             Goto(h, pc), pc # "working"
      PROVE  FALSE
  BY <1>1, <1>2 DEF Goto, ReplayInv, HandlersSound
<1>3. ASSUME NEW h \in Handlers, NEW x, handler' = [handler EXCEPT ![h] = x], x.pc # "working"
      PROVE  FALSE
  BY <1>1, <1>3 DEF ReplayInv, HandlersSound
<1>4. ASSUME NEW h \in Handlers, Runs(h)
      PROVE  row'[b].attempts = row[b].attempts + 1
  <2>1. CASE Claim(h)
    <3>1. h = g
      BY <1>1, <2>1 DEF Claim, Goto, ReplayInv, HandlersSound
    <3>2. MayClaim(row[b])
      BY <1>1, <1>2, <2>1, <3>1 DEF Claim, Stage
    <3> QED
      BY <1>1, <2>1, <3>1, <3>2, ClaimStatement DEF Claim
  <2>2. CASE Admit(h) \/ Read(h) \/ Quarantine(h)
    BY <1>2, <2>2 DEF Admit, Read, Quarantine, Stage
  <2>3. CASE WorkSucceeds(h) \/ WorkFails(h) \/ RecordSuccess(h) \/ RecordFailure(h)
    BY <1>2, <2>3 DEF WorkSucceeds, WorkFails, RecordSuccess, RecordFailure, Stage
  <2>4. CASE Ack(h) \/ OrphanEnds(h)
    BY <1>3, <2>4 DEF Ack, OrphanEnds, Idle
  <2> QED
    BY <1>4, <2>1, <2>2, <2>3, <2>4 DEF Runs
<1>5. CASE \E c \in Bodies : LeaseEnds(c) \/ BackoffEnds(c)
  BY <1>1, <1>5 DEF LeaseEnds, BackoffEnds
<1>6. CASE \E h \in Handlers : RepairedWorkSucceeds(h)
  BY <1>2, <1>6 DEF RepairedWorkSucceeds, Stage
<1>7. CASE Delivered
  <2>1. PICK h \in Handlers, c \in Bodies : Deliver(h, c)
    BY <1>7 DEF Delivered
  <2>2. PICK x : x = [pc |-> "admit", body |-> c, attempt |-> 0]
    OBVIOUS
  <2>3. handler' = [handler EXCEPT ![h] = x] /\ x.pc = "admit"
    BY <2>1, <2>2 DEF Deliver
  <2> QED
    BY <1>3, <2>3
<1> QED
  BY <1>4, <1>5, <1>6, <1>7 DEF Progresses

\* No attempt of a purchase is forgotten but by a replay.
LEMMA AttemptsKept ==
    ASSUME ReplayInv, NEW b \in Bodies \ Dates, RowMoves(b)
    PROVE  \/ row'[b].attempts >= row[b].attempts
           \/ replayId'[b] > replayId[b]
<1>1. row[b] \in Row /\ row[b].attempts \in Nat
  BY InboundAssumption DEF ReplayInv, RowsSound, RowSound, Row
<1>2. CASE row'[b] = row[b] \/ row'[b] = ExistingRow(row[b]) \/ row'[b] = EndedRow(row[b])
           \/ row'[b] = DueRow(row[b]) \/ row'[b] = GivenUpRow(row[b])
  BY <1>1, <1>2, RowColumns, SettledColumns
<1>3. ASSUME NEW h \in Handlers, MayClaim(row[b]), row'[b] = ClaimedBy(row[b], h)
      PROVE  row'[b].attempts >= row[b].attempts
  BY <1>1, <1>3, ClaimColumns DEF MayClaim
<1>4. ASSUME NEW h \in Handlers, OwnerRecords(b, h)
      PROVE  row'[b].attempts >= row[b].attempts
  BY <1>1, <1>4, SettledColumns, FailedColumns DEF OwnerRecords
<1> QED
  BY <1>1, <1>2, <1>3, <1>4 DEF RowMoves

LEMMA BudgetOfNextReplay ==
    ASSUME NEW m \in Nat, NEW i \in Nat, NEW j \in Nat, j > i
    PROVE  m * i + m <= m * j
<1>1. PICK d \in Nat : j = i + 1 + d
  <2>1. j - i - 1 \in Nat /\ j = i + 1 + (j - i - 1)
    OBVIOUS
  <2> QED
    BY <2>1
<1>2. m * j = m * i + m + m * d
  BY <1>1
<1>3. m * d \in Nat /\ m * i \in Nat
  OBVIOUS
<1> QED
  BY <1>2, <1>3

LEMMA StartsStayCounted ==
    ASSUME ReplayInv, ReplayNext
    PROVE  StartsCounted'
<1>1. starts \in [Bodies -> Nat]
  BY DEF ReplayInv, StartsCounted
<1>2. /\ starts' \in [Bodies -> Nat]
      /\ \A b \in Bodies : \/ starts'[b] = starts[b]
                           \/ /\ starts'[b] = starts[b] + 1 /\ b \notin Dates
                              /\ row'[b].attempts = row[b].attempts + 1
                              /\ replayId' = replayId
  <2>1. CASE starts' = starts
    BY <1>1, <2>1
  <2>2. ASSUME Progresses \/ (\E h \in Handlers : RepairedWorkSucceeds(h)) \/ Delivered,
               CountStarts, replayId' = replayId
        PROVE  <1>2!:
    <3>1. ASSUME NEW b \in Bodies
          PROVE  \/ starts'[b] = starts[b]
                 \/ /\ starts'[b] = starts[b] + 1 /\ b \notin Dates
                    /\ row'[b].attempts = row[b].attempts + 1
                    /\ replayId' = replayId
      <4>1. CASE \E h \in Handlers : Begins(h, b)
        <5>1. starts'[b] = starts[b] + 1 /\ b \notin Dates
          BY <2>2, <4>1 DEF CountStarts, Begins
        <5> QED
          BY <2>2, <4>1, <5>1, BeginsClaims
      <4>2. CASE ~ \E h \in Handlers : Begins(h, b)
        BY <2>2, <4>2 DEF CountStarts
      <4> QED
        BY <4>1, <4>2
    <3> QED
      BY <1>1, <2>2, <3>1 DEF CountStarts
  <2> QED
    BY <2>1, <2>2 DEF ReplayNext, Continues, replayVars, StartConsumers, ResetRow,
       PublishAgain, StopConsumers, ToolFails, StartReplay
<1>3. SUFFICES ASSUME NEW b \in Bodies
               PROVE  IF b \in Dates THEN starts'[b] = 0
                      ELSE starts'[b] <= MaxAttempts * replayId'[b] + row'[b].attempts
  BY <1>2 DEF StartsCounted
<1>4. CASE b \in Dates
  BY <1>2, <1>4 DEF ReplayInv, StartsCounted
<1>5. CASE b \notin Dates
  <2>1. starts[b] <= MaxAttempts * replayId[b] + row[b].attempts
    BY <1>5 DEF ReplayInv, StartsCounted
  <2>2. /\ replayId[b] \in Nat /\ replayId'[b] \in Nat /\ starts[b] \in Nat
        /\ row[b].attempts \in 0..MaxAttempts /\ row'[b].attempts \in 0..MaxAttempts
        /\ MaxAttempts \in Nat
    BY <1>1, EveryStepAdvances, InboundAssumption, ReplayAssumption
       DEF ReplayInv, ToolSound, NothingBroken, RowsSound, RowSound, Row
  <2>3. PICK p \in Nat : p = MaxAttempts * replayId[b]
    BY <2>2
  <2>4. PICK q \in Nat : q = MaxAttempts * replayId'[b]
    BY <2>2
  <2>5. starts[b] <= p + row[b].attempts
    BY <2>1, <2>3
  <2> SUFFICES starts'[b] <= q + row'[b].attempts
    BY <1>5, <2>4
  <2>6. CASE starts'[b] = starts[b] + 1 /\ row'[b].attempts = row[b].attempts + 1
             /\ replayId' = replayId
    <3>1. p = q
      BY <2>3, <2>4, <2>6
    <3> QED
      BY <2>2, <2>5, <2>6, <3>1
  <2>7. CASE starts'[b] = starts[b] /\ replayId'[b] > replayId[b]
    <3>1. p + MaxAttempts <= q
      BY <2>2, <2>3, <2>4, <2>7, BudgetOfNextReplay
    <3> QED
      BY <2>2, <2>5, <2>7, <3>1
  <2>8. CASE starts'[b] = starts[b] /\ replayId'[b] = replayId[b]
    <3>1. row'[b].attempts >= row[b].attempts
      BY <1>5, <2>2, <2>8, AttemptsKept, EveryStepAdvances DEF TableMoves
    <3>2. p = q
      BY <2>3, <2>4, <2>8
    <3> QED
      BY <2>2, <2>5, <2>8, <3>1, <3>2
  <2> QED
    BY <1>2, <2>2, <2>6, <2>7, <2>8, EveryStepAdvances
<1> QED
  BY <1>4, <1>5
-----------------------------------------------------------------------------
(***************************************************************************)
(* The theorems.                                                           *)
(***************************************************************************)
LEMMA ReplayInvInit == ReplayInit => ReplayInv
<1> SUFFICES ASSUME ReplayInit
             PROVE  ReplayInv
  OBVIOUS
<1> USE DEF ReplayInit, Init
<1>1. RowsSound
  BY NewColumns DEF RowsSound, RowSound
<1>2. HandlersSound /\ NobodyHolds
  BY DEF HandlersSound, HandlerSound, NobodyHolds, Idle
<1>3. ToolSound
  BY ReplayAssumption DEF ToolSound, Unused
<1>4. StartsCounted
  <2>1. \A b \in Bodies : row[b].attempts = 0
    BY NewColumns
  <2> QED
    BY <2>1, InboundAssumption DEF StartsCounted
<1>5. BoundsTyped
  <2>1. queue \in [Bodies -> Nat] /\ traffic \in [Bodies -> Nat]
        /\ lastDate \in Dates \cup {NoBody}
        /\ applied \in [bodies: SUBSET Bodies, date: Dates \cup {NoBody}]
    BY InboundAssumption
  <2>2. failures \in 0..FailureBound /\ interventions \in 0..InterventionBound
    BY InboundAssumption, ReplayAssumption
  <2>3. consuming \in BOOLEAN
    OBVIOUS
  <2> QED
    BY <2>1, <2>2, <2>3 DEF BoundsTyped
<1>6. NoMessageLost
  BY NewColumns DEF NoMessageLost
<1> QED
  BY <1>1, <1>2, <1>3, <1>4, <1>5, <1>6 DEF ReplayInv

LEMMA ReplayInvNext == ReplayInv /\ [ReplayNext]_allVars => ReplayInv'
<1>1. ASSUME ReplayInv, ReplayNext
      PROVE  ReplayInv'
  BY <1>1, EveryStepAdvances, BoundsStayTyped, StartsStayCounted DEF NothingBroken, ReplayInv
<1>2. ASSUME ReplayInv, UNCHANGED allVars
      PROVE  ReplayInv'
  <2>1. UNCHANGED <<queue, row, handler, traffic, lastDate, applied, failures,
                    consuming, replayId, tool, confirmed, interventions, starts>>
    BY <1>2 DEF allVars, inboundVars, replayVars
  <2>2. RowsSound' /\ HandlersSound' /\ ToolSound' /\ StartsCounted'
    BY <1>2, <2>1 DEF ReplayInv, RowsSound, RowSound, HandlersSound, HandlerSound, SafeToAck,
       ToolSound, StartsCounted
  <2>3. BoundsTyped' /\ (~consuming => NobodyHolds)' /\ NoMessageLost'
    BY <1>2, <2>1 DEF ReplayInv, BoundsTyped, NobodyHolds, NoMessageLost, Pending, Holds
  <2> QED
    BY <2>2, <2>3 DEF ReplayInv
<1> QED
  BY <1>1, <1>2

\* The inductive invariant holds of the consumers and the replay tool: rows,
\* handlers and the tool's memory agree, and nothing is lost.
THEOREM ReplayInvariance == ReplaySpec => []ReplayInv
  BY ReplayInvInit, ReplayInvNext, PTL DEF ReplaySpec

LEMMA ReplayInvTypes == ReplayInv => ReplayTypeOK
<1> SUFFICES ASSUME ReplayInv
             PROVE  ReplayTypeOK
  OBVIOUS
<1>1. InboundTypeOK
  BY DEF ReplayInv, RowsSound, RowSound, HandlersSound, HandlerSound, BoundsTyped, InboundTypeOK
<1>2. starts \in [Bodies -> Nat] /\ consuming \in BOOLEAN
      /\ interventions \in 0..InterventionBound
  BY DEF ReplayInv, StartsCounted, BoundsTyped
<1> QED
  BY <1>1, <1>2 DEF ReplayInv, ToolSound, ReplayTypeOK

\* The queue, the journal, the handlers and the tool keep their shapes; a row
\* has at most max_attempts attempts.
THEOREM ReplayTypeCorrectness == ReplaySpec => []ReplayTypeOK
  BY ReplayInvariance, ReplayInvTypes, PTL

\* No message is lost, whatever is delivered twice, fails, crashes, is
\* quarantined and replayed: until its callback has committed or its envelope is
\* saved it waits with the broker or with a handler, or the operator still has
\* to see a replay of it confirmed.
THEOREM MessagesAreNeverLost == ReplaySpec => []NoMessageLost
<1>1. ReplayInv => NoMessageLost
  BY DEF ReplayInv
<1> QED
  BY <1>1, ReplayInvariance, PTL

LEMMA ReplayInvReasons == ReplayInv => QuarantinedForAReason
<1> SUFFICES ASSUME ReplayInv, NEW b \in Bodies, row[b].quarantined
             PROVE  /\ row[b].attempts >= MaxAttempts \/ b \in Poison
                    /\ ~row[b].completed
                    /\ row[b].lease = "none"
  BY DEF QuarantinedForAReason
<1> QED
  BY DEF ReplayInv, RowsSound, RowSound

\* A message is in quarantine only when its attempts are spent or its callback
\* failed for good, and then neither completed nor claimed.
THEOREM QuarantineHasAReason == ReplaySpec => []QuarantinedForAReason
  BY ReplayInvariance, ReplayInvReasons, PTL

LEMMA ReplayInvBudget == ReplayInv => BudgetIsKept
<1> SUFFICES ASSUME ReplayInv, NEW b \in Bodies
             PROVE  starts[b] <= MaxAttempts * (1 + replayId[b])
  BY DEF BudgetIsKept
<1>1. /\ MaxAttempts \in Nat /\ replayId[b] \in Nat /\ starts[b] \in Nat
      /\ row[b].attempts \in 0..MaxAttempts
      /\ starts[b] = 0 \/ starts[b] <= MaxAttempts * replayId[b] + row[b].attempts
  BY InboundAssumption, ReplayAssumption
     DEF ReplayInv, RowsSound, RowSound, Row, ToolSound, StartsCounted
<1>2. PICK p \in Nat : p = MaxAttempts * replayId[b]
  BY <1>1
<1>3. MaxAttempts * (1 + replayId[b]) = p + MaxAttempts
  BY <1>1, <1>2
<1> QED
  BY <1>1, <1>2, <1>3

\* The callback of a purchase is started at most max_attempts times in all, and
\* as often again for each replay id, for any number of copies, crashes, lost
\* answers and runs of the tool.
THEOREM CallbackBudget == ReplaySpec => []BudgetIsKept
  BY ReplayInvariance, ReplayInvBudget, PTL

Fenced(b) ==
    \/ BackoffPasses(b) \/ AbsentRowChanges(b) \/ OpenRowChanges(b)
    \/ LeasedRowChanges(b) \/ CompletedRowChanges(b) \/ QuarantinedRowChanges(b)

\* A claim or a quarantine finds an open row that nobody has leased.
LEMMA OpenRows ==
    ASSUME NEW b \in Bodies, RowSound(b, row[b]),
           MayQuarantine(row[b]) \/ (MayClaim(row[b]) /\ row[b].exists)
    PROVE  /\ row[b].exists /\ ~row[b].completed /\ ~row[b].quarantined
           /\ row[b].lease # "live"
<1>1. MaxAttempts \in Nat \ {0} /\ (~row[b].exists => row[b] = NoRow)
  BY InboundAssumption DEF RowSound
<1>2. ~MayQuarantine(NoRow)
  BY <1>1, NewColumns DEF MayQuarantine
<1> QED
  BY <1>1, <1>2 DEF MayQuarantine, MayClaim

\* The owner's outcome is one of the changes of a leased row.
LEMMA OutcomeIsFenced ==
    ASSUME ReplayInv, NEW b \in Bodies, NEW h \in Handlers, OwnerRecords(b, h)
    PROVE  LeasedRowChanges(b)
<1> DEFINE r == row[b]
<1>1. r \in Row /\ r.owner = h /\ r.lease = "live" /\ ~r.completed /\ ~r.quarantined
  BY DEF ReplayInv, RowsSound, RowSound, OwnerRecords
<1>2. CASE handler[h].pc = "succeeded" /\ row'[b] = DoneRow(r)
  <2>1. At(h, b, "succeeded")
    BY <1>2 DEF At, OwnerRecords
  <2>2. row'[b].completed /\ row'[b].lease = "none"
    BY <1>1, <1>2, SettledColumns
  <2> QED
    BY <1>1, <2>1, <2>2 DEF LeasedRowChanges
<1>3. ASSUME handler[h].pc = "failed", NEW t \in BOOLEAN, row'[b] = FailedRow(r, t)
      PROVE  LeasedRowChanges(b)
  <2>1. At(h, b, "failed")
    BY <1>3 DEF At, OwnerRecords
  <2>2. ~row'[b].completed /\ row'[b].lease = "none"
    BY <1>1, <1>3, FailedColumns
  <2>3. ~row'[b].due
    BY <1>1, <1>3 DEF FailedRow, Row
  <2> QED
    BY <1>1, <2>1, <2>2, <2>3 DEF LeasedRowChanges
<1> QED
  BY <1>2, <1>3 DEF OwnerRecords

\* A row that changes does so in one of the ways its columns allow.
LEMMA MoveIsFenced ==
    ASSUME ReplayInv, NEW b \in Bodies, RowMoves(b), row'[b] # row[b]
    PROVE  Fenced(b)
<1> DEFINE r == row[b]
<1>1. r \in Row /\ RowSound(b, r)
  BY DEF ReplayInv, RowsSound, RowSound
<1>2. CASE HandlerAt(b, "admit") /\ row'[b] = ExistingRow(r)
  <2>1. ~r.exists /\ r = NoRow
    BY <1>1, <1>2 DEF ExistingRow, Row, RowSound
  <2>2. row'[b] = [NoRow EXCEPT !.exists = TRUE]
    BY <1>2, <2>1 DEF ExistingRow
  <2> QED
    BY <1>2, <2>1, <2>2 DEF Fenced, AbsentRowChanges
<1>3. CASE HandlerAt(b, "admit") /\ b \in Dates /\ r.completed /\ row'[b] = StartedOver(r)
  <2>1. ~row'[b].completed /\ row'[b].attempts = 0
    BY <1>1, <1>3, SettledColumns
  <2> QED
    BY <1>3, <2>1 DEF Fenced, CompletedRowChanges
<1>4. CASE HandlerAt(b, "quarantine") /\ MayQuarantine(r) /\ row'[b] = GivenUpRow(r)
  <2>1. row'[b].quarantined
    BY <1>1, <1>4, SettledColumns
  <2>2. r.exists /\ ~r.completed /\ ~r.quarantined /\ r.lease # "live"
    BY <1>1, <1>4, OpenRows
  <2> QED
    BY <1>4, <2>1, <2>2 DEF Fenced, OpenRowChanges
<1>5. ASSUME MayClaim(r), r.exists, NEW h \in Handlers, handler[h].pc = "claim",
             handler[h].body = b, row'[b] = ClaimedBy(r, h)
      PROVE  Fenced(b)
  <2>1. At(h, b, "claim")
    BY <1>5 DEF At
  <2>2. row'[b].owner = h /\ row'[b].lease = "live" /\ row'[b].attempts = r.attempts + 1
    BY <1>1, <1>5, ClaimColumns DEF MayClaim
  <2>3. r.exists /\ ~r.completed /\ ~r.quarantined /\ r.lease # "live"
    BY <1>1, <1>5, OpenRows
  <2> QED
    BY <1>5, <2>1, <2>2, <2>3 DEF Fenced, OpenRowChanges
<1>6. CASE \E h \in Handlers : OwnerRecords(b, h)
  BY <1>6, OutcomeIsFenced DEF Fenced
<1>7. CASE r.lease = "live" /\ row'[b] = EndedRow(r)
  <2>1. ~r.completed /\ ~r.quarantined
    BY <1>1, <1>7 DEF RowSound
  <2> QED
    BY <1>7, <2>1 DEF Fenced, LeasedRowChanges, EndedRow
<1>8. CASE row'[b] = DueRow(r)
  BY <1>8 DEF Fenced, BackoffPasses, DueRow
<1>9. CASE r.quarantined /\ replayId'[b] > replayId[b] /\ row'[b] = ReplayedRow
  <2>1. replayId[b] \in Nat
    BY ReplayAssumption DEF ReplayInv, ToolSound
  <2>2. replayId'[b] # replayId[b]
    BY <1>9, <2>1
  <2> QED
    BY <1>9, <2>2 DEF Fenced, QuarantinedRowChanges, ReplayedRow
<1> QED
  BY <1>2, <1>3, <1>4, <1>5, <1>6, <1>7, <1>8, <1>9 DEF RowMoves

\* An outcome is recorded only by the handler that owns the claim and within its
\* lease; without a live lease an open row changes only by a handler that claims
\* or quarantines it, a completed one only by a date of birth that starts over,
\* a quarantined one only by the first run of a new replay: a late owner changes
\* nothing.
THEOREM InboundOutcomesFenced == ReplaySpec => OutcomesAreFenced
<1> DEFINE AllFenced ==
      \A b \in Bodies : row'[b] # row[b] =>
         \/ BackoffPasses(b) \/ AbsentRowChanges(b) \/ OpenRowChanges(b)
         \/ LeasedRowChanges(b) \/ CompletedRowChanges(b)
         \/ QuarantinedRowChanges(b)
<1>1. ReplayInv /\ [ReplayNext]_allVars => [AllFenced]_allVars
  <2>1. ASSUME ReplayInv, ReplayNext
        PROVE  AllFenced
    BY <2>1, EveryStepAdvances, MoveIsFenced DEF TableMoves, Fenced
  <2> QED
    BY <2>1
<1> QED
  BY <1>1, ReplayInvariance, PTL DEF ReplaySpec, OutcomesAreFenced
=============================================================================
