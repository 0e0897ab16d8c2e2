---------------------------- MODULE OutboxProofs ----------------------------
(***************************************************************************)
(* Proofs about the write path, for every number of writes, QBO records,   *)
(* attempts and faults.  The argument has three layers: TypeOK; then the   *)
(* invariant IInv, which says how the pass's stale copy relates to the     *)
(* saved rows and what an effect at QBO implies; then the theorems.        *)
(***************************************************************************)
EXTENDS Outbox, TLAPS

Sending == pc \in {"find", "send", "save"}
InLoop == pc = "loop" \/ Sending

\* TypeOK with what it needs to be inductive: an update names a record, and a
\* row is being sent exactly while the request is out.
TypeInv ==
    /\ TypeOK
    /\ \A i \in Ids : write[i].op = "update" => write[i].entity \in QboIds
    /\ Sending => cur \in Ids
    /\ pc = "save" => result.kind # "none"
    /\ pc = "save" /\ result.kind = "ok" => result.id \in QboIds

\* Rows that were never queued are empty everywhere, and a write refers only
\* to earlier ones.
FreshAt(i) ==
    /\ i > count => /\ outbox[i].state = "absent" /\ mem[i].state = "absent"
                    /\ effect[i] = {} /\ write[i] = NoWrite
    /\ i <= count => outbox[i].state # "absent"
    /\ write[i].depends < i
Fresh == \A i \in Ids : FreshAt(i)

\* The pass's copy of a row it may still save agrees with the saved row.
CopyFreshAt(i) ==
    /\ pc = "recover" /\ mem[i].state \in {"pending", "in_flight"} => outbox[i] = mem[i]
    /\ InLoop /\ i \in todo /\ mem[i].state = "pending" => outbox[i] = mem[i]
    /\ Sending /\ i = cur =>
         outbox[i] = mem[i] /\ mem[i].state = "in_flight" /\ i \notin todo
CopyFresh == \A i \in Ids : CopyFreshAt(i)

\* Every answer the pass or the store remembers is an effect at QBO.
RememberedAt(i) ==
    /\ requestLog[i] # None => requestLog[i] \in effect[i]
    /\ idMap[i] # None => idMap[i] \in effect[i]
    /\ memMap[i] # None => memMap[i] \in effect[i]
    /\ outbox[i].state = "applied" => effect[i] # {}
    /\ pc = "save" /\ i = cur /\ result.kind = "ok" => result.id \in effect[i]
Remembered == \A i \in Ids : RememberedAt(i)

\* An update QBO carried out is in its request log, so it cannot be stale.
StaleAt(i) ==
    /\ outbox[i].state = "conflicted" => effect[i] = {}
    /\ write[i].op = "update" /\ effect[i] # {} => requestLog[i] # None
    /\ pc = "save" /\ i = cur /\ result.kind = "stale" => effect[i] = {}
    /\ pc = "find" /\ i = cur => write[i].op = "create"
Stale == \A i \in Ids : StaleAt(i)

\* A row is sent only after everything it refers to has landed.
ParentsAt(i) ==
    effect[i] # {} \/ (Sending /\ i = cur) => \A r \in write[i].refs : effect[r] # {}
Parents == \A i \in Ids : ParentsAt(i)

Faults == crashes + ioErrors

\* A queued row has an attempt left, unless a fault paid for it.
AttemptsAt(i) ==
    /\ outbox[i].attempts <= MAX_ATTEMPTS + Faults
    /\ outbox[i].state = "pending" => outbox[i].attempts < MAX_ATTEMPTS + Faults
    /\ outbox[i].state = "in_flight" /\ ~(Sending /\ cur = i)
         => outbox[i].attempts < MAX_ATTEMPTS + Faults
Attempts == \A i \in Ids : AttemptsAt(i)

\* A write later ones need not wait for: it landed, or a person dropped it.
Settled(i) == effect[i] # {} \/ outbox[i].state = "discarded"
Earlier(j) == {i \in Ids : i < j /\ SameEntity(i, j)}

\* What the pass's copy says of a row: an open row it has not loaded is newer
\* than all it has, a terminal one is settled, and one it went past is
\* terminal or blocks its entity.
KnownAt(i) ==
    /\ pc # "idle" /\ mem[i].state = "absent" /\ outbox[i].state \in Open
         => \A j \in Ids : mem[j].state # "absent" => j < i
    /\ pc # "idle" /\ mem[i].state \in Terminal => Settled(i)
    /\ InLoop /\ mem[i].state # "absent" /\ i \notin todo /\ ~(Sending /\ i = cur)
         => mem[i].state \in Terminal \/ i \in blocked
Known == \A i \in Ids : KnownAt(i)

\* So whatever is being sent has only settled writes to its entity before it.
Order == EntityOrder /\ (Sending => \A i \in Earlier(cur) : Settled(i))

IInv ==
    TypeInv /\ Fresh /\ CopyFresh /\ Remembered /\ Stale /\ Parents /\ Attempts /\ Known /\ Order

-----------------------------------------------------------------------------
(* Layer 1: types. *)

USE DEF None, Ids, QboIds, NotMirrored

\* What ResetMemory leaves is well typed.
LEMMA ResetTyped ==
    ASSUME ResetMemory
    PROVE  /\ mem' \in [Ids -> Row] /\ memMap' \in [Ids -> {None} \cup QboIds]
           /\ todo' = {} /\ blocked' = {} /\ landed' = {} /\ cur' = None
           /\ result' \in [kind : {"none", "ok"} \cup Failures, id : {None} \cup QboIds]
BY DEF ResetMemory, AbsentRow, OutboxRow, Row, States, Open, Attention, Terminal

\* A row as outbox.rs makes it from a well-typed row is well typed.
LEMMA RowTyped ==
    ASSUME NEW row \in Row
    PROVE  /\ BeginAttempt(row) \in Row /\ MarkApplied(row) \in Row
           /\ RecoverInFlight(row) \in Row /\ DiscardRow(row) \in Row
BY DEF BeginAttempt, MarkApplied, RecoverInFlight, DiscardRow, OutboxRow, Row, States, Open,
       Attention, Terminal

LEMMA FailedTyped ==
    ASSUME NEW row \in Row, NEW failure
    PROVE  MarkFailed(row, failure) \in Row
BY DEF MarkFailed, FailedState, OutboxRow, Row, States, Open, Attention, Terminal

LEMMA NewTyped ==
    ASSUME NEW base \in Nat
    PROVE  NewRow(base) \in Row /\ ResolveRow(base) \in Row /\ AbsentRow \in Row
BY DEF NewRow, ResolveRow, AbsentRow, OutboxRow, Row, States, Open, Attention, Terminal

LEMMA IoTyped ==
    ASSUME ioErrors \in 0 .. MaxIoErrors, IoError \/ NoIoError
    PROVE  ioErrors' \in 0 .. MaxIoErrors
BY BoundsAssumption DEF IoError, NoIoError

LEMMA TypeInit == Init => TypeInv
<1> SUFFICES ASSUME Init PROVE TypeInv
    OBVIOUS
<1>1. AbsentRow \in Row /\ NoWrite \in Write
      BY NewTyped DEF NoWrite, Write
<1>2. result \in [kind : {"none", "ok"} \cup Failures, id : {None} \cup QboIds]
      BY DEF Init
<1>3. writesOn \in BOOLEAN
      BY DEF Init
<1>4. /\ write \in [Ids -> Write] /\ outbox \in [Ids -> Row] /\ mem \in [Ids -> Row]
      /\ idMap \in [Ids -> {None} \cup QboIds] /\ memMap \in [Ids -> {None} \cup QboIds]
      /\ requestLog \in [Ids -> {None} \cup QboIds] /\ effect \in [Ids -> SUBSET QboIds]
      BY <1>1 DEF Init
<1>5. /\ replica \in [QboIds -> {NotMirrored} \cup Nat]
      /\ names \in [QboIds -> Names \cup {NoName}] /\ tokens \in [QboIds -> Nat]
      BY DEF Init
<1>6. /\ count \in 0 .. MaxRecords /\ held \in 0 .. MaxQboId
      /\ crashes \in 0 .. MaxCrashes /\ ioErrors \in 0 .. MaxIoErrors
      /\ renames \in 0 .. MaxRenames
      BY BoundsAssumption DEF Init
<1>7. /\ pc = "idle" /\ todo = {} /\ blocked = {} /\ landed = {} /\ cur = None
      /\ \A i \in Ids : write[i].op = "none"
      BY DEF Init, NoWrite
<1>8. TypeOK
      BY <1>2, <1>3, <1>4, <1>5, <1>6, <1>7 DEF TypeOK
<1>9. QED
      BY <1>7, <1>8 DEF TypeInv, Sending

LEMMA TypePerson == TypeInv /\ Person => TypeInv'
<1> SUFFICES ASSUME TypeInv, Person PROVE TypeInv'
    OBVIOUS
<1> USE BoundsAssumption DEF TypeInv, TypeOK, Sending
<1>1. ASSUME NEW op \in {"create", "update"}, NEW name \in Names \cup {NoName},
             NEW entity \in {None} \cup QboIds, NEW refs \in SUBSET Ids, NEW base \in Nat,
             op = "update" => entity \in QboIds,
             Queue(op, name, entity, refs, base)
      PROVE  TypeInv'
  <2>1. NewRow(base) \in Row
        BY NewTyped
  <2>2. PICK parent \in {None} \cup Ids :
          write' = [write EXCEPT ![count + 1] =
                      [op |-> op, name |-> name, refs |-> refs,
                       entity |-> entity, depends |-> parent]]
        BY <1>1 DEF Queue
  <2>3. [op |-> op, name |-> name, refs |-> refs, entity |-> entity, depends |-> parent]
          \in Write
        BY DEF Write
  <2>4. /\ count + 1 \in Ids /\ count' = count + 1
        /\ outbox' = [outbox EXCEPT ![count + 1] = NewRow(base)]
        /\ UNCHANGED <<idMap, replica, writesOn, qboVars, pc, memVars, faultVars>>
        BY <1>1 DEF Queue
  <2> HIDE DEF Ids
  <2>5. write' \in [Ids -> Write] /\ outbox' \in [Ids -> Row]
        BY <2>1, <2>2, <2>3, <2>4
  <2>6. \A i \in Ids : write'[i].op = "update" => write'[i].entity \in QboIds
        BY <1>1, <2>2, <2>4
  <2>7. count' \in 0 .. MaxRecords
        BY <2>4 DEF Ids
  <2>8. UNCHANGED <<idMap, memMap, replica, writesOn, names, tokens, held, requestLog, effect,
                    pc, mem, todo, blocked, landed, cur, result, crashes, ioErrors, renames>>
        BY <2>4 DEF qboVars, memVars, faultVars
  <2>9. QED
        BY <2>5, <2>6, <2>7, <2>8
<1>2. CASE QueueCreate
      BY <1>1, <1>2 DEF QueueCreate
<1>3. CASE QueueUpdate
      BY <1>1, <1>3 DEF QueueUpdate
<1>4. CASE SetWriteEnabled
      BY <1>4 DEF SetWriteEnabled, qboVars, memVars, faultVars
<1>5. ASSUME NEW i \in Ids, Retry(i) PROVE TypeInv'
  <2>1. RebasedOn(i) \in Nat
        BY <1>5 DEF RebasedOn, Retry, Row
  <2>2. ResolveRow(RebasedOn(i)) \in Row
        BY <2>1, NewTyped
  <2>3. QED
        BY <1>5, <2>2 DEF Retry, SaveResolved, qboVars, memVars, faultVars
<1>6. ASSUME NEW i \in Ids, Discard(i) PROVE TypeInv'
  <2>1. DiscardRow(outbox[i]) \in Row
        BY RowTyped
  <2>2. QED
        BY <1>6, <2>1 DEF Discard, SaveResolved, qboVars, memVars, faultVars
<1>7. QED
      BY <1>2, <1>3, <1>4, <1>5, <1>6 DEF Person

LEMMA TypeWeb == TypeInv /\ Web => TypeInv'
<1> SUFFICES ASSUME TypeInv, Web PROVE TypeInv'
    OBVIOUS
<1> USE BoundsAssumption DEF TypeInv, TypeOK, Sending, storeVars, qboVars, memVars, faultVars
<1>1. CASE WebCreate
  <2>1. names' \in [QboIds -> Names \cup {NoName}] /\ held' \in 0 .. MaxQboId
        BY <1>1 DEF WebCreate
  <2>2. QED
        BY <1>1, <2>1 DEF WebCreate
<1>2. ASSUME NEW q \in QboIds, WebEdit(q) PROVE TypeInv'
  <2>1. tokens' \in [QboIds -> Nat]
        BY <1>2 DEF WebEdit
  <2>2. QED
        BY <1>2, <2>1 DEF WebEdit
<1>3. ASSUME NEW q \in QboIds, WebRename(q) PROVE TypeInv'
      BY <1>3 DEF WebRename
<1>4. ASSUME NEW q \in QboIds, Sync(q) PROVE TypeInv'
      BY <1>4 DEF Sync
<1>5. QED
      BY <1>1, <1>2, <1>3, <1>4 DEF Web

\* An outcome is well typed, and a success names a record.
OutcomeInv ==
    /\ pc = "save" /\ result.kind # "none"
    /\ result \in [kind : {"none", "ok"} \cup Failures, id : {None} \cup QboIds]
    /\ result.kind = "ok" => result.id \in QboIds

LEMMA FailureTyped ==
    ASSUME NEW failure \in Failures, Outcome(failure, None)
    PROVE  OutcomeInv'
BY DEF Outcome, OutcomeInv, Failures

LEMMA AnswerTyped ==
    ASSUME NEW q \in QboIds, Answer(q)
    PROVE  OutcomeInv'
<1>1. CASE Outcome("ok", q)
      BY <1>1 DEF Outcome, OutcomeInv
<1>2. CASE \E failure \in {"transient", "refused"} : Outcome(failure, None)
      BY <1>2, FailureTyped DEF Failures
<1>3. QED
      BY <1>1, <1>2 DEF Answer

LEMMA TypeDrain == TypeInv /\ Drain => TypeInv'
<1> SUFFICES ASSUME TypeInv, Drain PROVE TypeInv'
    OBVIOUS
<1> USE BoundsAssumption DEF TypeInv, TypeOK, Sending, storeVars, qboVars, faultVars
<1>1. CASE StartPass
      BY <1>1, NewTyped DEF StartPass
<1>2. CASE LoadParents
      BY <1>2 DEF LoadParents
<1>3. CASE FindByName
  <2>1. CASE \E q \in 1 .. held :
               Outcome("ok", q) /\ effect' = [effect EXCEPT ![cur] = @ \cup {q}]
    <3>1. PICK q \in QboIds :
            Outcome("ok", q) /\ effect' = [effect EXCEPT ![cur] = @ \cup {q}]
      <4>1. PICK q \in 1 .. held :
              Outcome("ok", q) /\ effect' = [effect EXCEPT ![cur] = @ \cup {q}]
            BY <2>1
      <4>2. q \in QboIds
            OBVIOUS
      <4>3. QED
            BY <4>1, <4>2
    <3>2. effect' \in [Ids -> SUBSET QboIds]
      <4>1. effect[cur] \cup {q} \in SUBSET QboIds
            BY <1>3 DEF FindByName
      <4>2. QED
            BY <3>1, <4>1
    <3>3. QED
          BY <1>3, <3>1, <3>2 DEF FindByName, Outcome
  <2>2. CASE /\ UNCHANGED effect
             /\ \/ pc' = "send" /\ UNCHANGED result
                \/ \E failure \in {"transient", "refused"} : Outcome(failure, None)
    <3>1. OutcomeInv' \/ (pc' = "send" /\ UNCHANGED result)
          BY <2>2, FailureTyped DEF Failures
    <3>2. cur' \in Ids
          BY <1>3 DEF FindByName
    <3>3. QED
          BY <1>3, <2>2, <3>1, <3>2 DEF FindByName, OutcomeInv
  <2>3. QED
        BY <1>3, <2>1, <2>2 DEF FindByName
<1>4. CASE SendFails
  <2>1. OutcomeInv'
        BY <1>4, FailureTyped DEF SendFails, Failures
  <2>2. QED
        BY <1>4, <2>1 DEF SendFails, OutcomeInv
<1>5. CASE Replay
  <2>1. requestLog[cur] \in QboIds
        BY <1>5 DEF Replay
  <2>2. OutcomeInv'
        BY <1>5, <2>1, AnswerTyped DEF Replay
  <2>3. QED
        BY <1>5, <2>2 DEF Replay, OutcomeInv
<1>6. CASE SendCreate
  <2>1. CASE NameFree(write[cur].name) /\ held < MaxQboId /\ held' = held + 1
    <3>1. Answer(held + 1) /\ held + 1 \in QboIds
          BY <1>6, <2>1 DEF SendCreate
    <3>2. /\ names' = [names EXCEPT ![held + 1] = write[cur].name]
          /\ effect' = [effect EXCEPT ![cur] = @ \cup {held + 1}]
          /\ requestLog' \in {requestLog, [requestLog EXCEPT ![cur] = held + 1]}
          BY <1>6, <2>1 DEF SendCreate
    <3>3. write[cur].name \in Names \cup {NoName}
          BY <1>6 DEF SendCreate, Write
    <3>4. /\ names' \in [QboIds -> Names \cup {NoName}]
          /\ effect' \in [Ids -> SUBSET QboIds]
          /\ requestLog' \in [Ids -> {None} \cup QboIds]
      <4>1. names' \in [QboIds -> Names \cup {NoName}]
            BY <3>2, <3>3
      <4>2. effect' \in [Ids -> SUBSET QboIds]
        <5>1. effect[cur] \cup {held + 1} \in SUBSET QboIds
              BY <1>6, <3>1 DEF SendCreate
        <5>2. QED
              BY <3>2, <5>1
      <4>3. requestLog' \in [Ids -> {None} \cup QboIds]
            BY <3>1, <3>2
      <4>4. QED
            BY <4>1, <4>2, <4>3
    <3>5. OutcomeInv' /\ held' \in 0 .. MaxQboId
          BY <2>1, <3>1, AnswerTyped
    <3>6. QED
          BY <1>6, <3>4, <3>5 DEF SendCreate, OutcomeInv
  <2>2. CASE Outcome("duplicate", None) /\ UNCHANGED <<held, names, effect, requestLog>>
    <3>1. OutcomeInv'
          BY <2>2, FailureTyped DEF Failures
    <3>2. QED
          BY <1>6, <2>2, <3>1 DEF SendCreate, OutcomeInv
  <2>3. QED
        BY <1>6, <2>1, <2>2 DEF SendCreate
<1>7. CASE SendUpdate
  <2> DEFINE q == write[cur].entity
  <2>1. q \in QboIds
        BY <1>7 DEF SendUpdate
  <2>2. CASE UNCHANGED <<tokens, requestLog, effect>> /\ Outcome("stale", None)
    <3>1. OutcomeInv'
          BY <2>2, FailureTyped DEF Failures
    <3>2. QED
          BY <1>7, <2>2, <3>1 DEF SendUpdate, OutcomeInv
  <2>3. CASE /\ tokens' = [tokens EXCEPT ![q] = @ + 1]
             /\ requestLog' = [requestLog EXCEPT ![cur] = q]
             /\ effect' = [effect EXCEPT ![cur] = @ \cup {q}]
             /\ Answer(q)
    <3>1. tokens' \in [QboIds -> Nat] /\ requestLog' \in [Ids -> {None} \cup QboIds]
      <4>1. tokens[q] + 1 \in Nat
            BY <2>1, SMTT(30)
      <4>2. tokens' \in [QboIds -> Nat]
            BY <2>3, <4>1
      <4>3. requestLog' \in [Ids -> {None} \cup QboIds]
            BY <2>1, <2>3
      <4>4. QED
            BY <4>2, <4>3
    <3>2. effect' \in [Ids -> SUBSET QboIds]
      <4>1. effect[cur] \cup {q} \in SUBSET QboIds
            BY <1>7, <2>1 DEF SendUpdate
      <4>2. QED
            BY <2>3, <4>1
    <3>3. /\ pc' = "save" /\ result'.kind # "none"
          /\ result' \in [kind : {"none", "ok"} \cup Failures, id : {None} \cup QboIds]
          /\ result'.kind = "ok" => result'.id \in QboIds
          BY <2>1, <2>3 DEF Answer, Outcome, Failures
    <3>4. cur \in Ids /\ UNCHANGED <<names, held, storeVars, mem, memMap, todo, blocked,
                                      landed, cur, faultVars>>
          BY <1>7 DEF SendUpdate
    <3>5. QED
          BY <3>1, <3>2, <3>3, <3>4
  <2>4. QED
        BY <1>7, <2>2, <2>3 DEF SendUpdate
<1>8. CASE SaveOutcome
  <2>1. cur \in Ids /\ mem[cur] \in Row
        BY <1>8 DEF SaveOutcome
  <2>2. DEFINE row == IF result.kind = "ok" THEN MarkApplied(mem[cur])
                      ELSE MarkFailed(mem[cur], result.kind)
  <2>3. row \in Row
        BY <1>8, <2>1, RowTyped, FailedTyped DEF SaveOutcome
  <2> HIDE DEF row
  <2>4. /\ mem' = [mem EXCEPT ![cur] = row]
        /\ outbox' = [outbox EXCEPT ![cur] = row] \/ UNCHANGED outbox
        BY <1>8 DEF SaveOutcome, row
  <2>5. /\ memMap' \in [Ids -> {None} \cup QboIds]
        /\ landed' \in SUBSET Ids /\ blocked' \in SUBSET Ids
        BY <1>8, <2>1 DEF SaveOutcome
  <2>6. ioErrors' \in 0 .. MaxIoErrors
        BY <1>8, IoTyped DEF SaveOutcome
  <2>7. mem' \in [Ids -> Row] /\ outbox' \in [Ids -> Row]
    <3>1. mem' \in [Ids -> Row]
          BY <2>3, <2>4
    <3>2. [outbox EXCEPT ![cur] = row] \in [Ids -> Row]
          BY <2>3
    <3>3. QED
          BY <2>4, <3>1, <3>2
  <2>8. /\ pc' = "loop" /\ cur' = None /\ result' = [kind |-> "none", id |-> None]
        /\ UNCHANGED <<write, count, idMap, replica, writesOn, qboVars, todo, crashes, renames>>
        BY <1>8 DEF SaveOutcome
  <2>9. QED
        BY <2>5, <2>6, <2>7, <2>8
<1>9. CASE FinishPass
      BY <1>9, ResetTyped DEF FinishPass
<1>10. ASSUME NEW i \in Ids, Recover(i) PROVE TypeInv'
  <2>1. RecoverInFlight(mem[i]) \in Row
        BY RowTyped
  <2>2. ioErrors' \in 0 .. MaxIoErrors
        BY <1>10, IoTyped DEF Recover
  <2>3. CASE ResetMemory /\ pc' = "idle" /\ UNCHANGED outbox
        BY <1>10, <2>2, <2>3, ResetTyped DEF Recover
  <2>4. CASE /\ mem' = [mem EXCEPT ![i] = RecoverInFlight(mem[i])]
             /\ outbox' = [outbox EXCEPT ![i] = RecoverInFlight(mem[i])]
             /\ UNCHANGED <<pc, memMap, todo, blocked, landed, cur, result>>
    <3>1. mem' \in [Ids -> Row] /\ outbox' \in [Ids -> Row]
          BY <2>1, <2>4
    <3>2. QED
          BY <1>10, <2>2, <2>4, <3>1 DEF Recover
  <2>5. QED
        BY <1>10, <2>3, <2>4 DEF Recover
<1>11. ASSUME NEW i \in Ids, PassOver(i) PROVE TypeInv'
       BY <1>11 DEF PassOver, Visiting
<1>12. ASSUME NEW i \in Ids, Begin(i) PROVE TypeInv'
  <2>1. BeginAttempt(mem[i]) \in Row
        BY RowTyped
  <2>2. MarkFailed(BeginAttempt(mem[i]), "transient") \in Row
        BY <2>1, FailedTyped
  <2>3. mem' \in [Ids -> Row] /\ outbox' \in [Ids -> Row]
    <3>1. /\ \/ mem' = [mem EXCEPT ![i] = BeginAttempt(mem[i])]
             \/ mem' = [mem EXCEPT ![i] = MarkFailed(BeginAttempt(mem[i]), "transient")]
          /\ outbox' = outbox \/ outbox' = [outbox EXCEPT ![i] = BeginAttempt(mem[i])]
          BY <1>12 DEF Begin
    <3>2. mem' \in [Ids -> Row]
          BY <2>1, <2>2, <3>1
    <3>3. outbox' \in [Ids -> Row]
          BY <2>1, <3>1
    <3>4. QED
          BY <3>2, <3>3
  <2>4. ioErrors' \in 0 .. MaxIoErrors
        BY <1>12, IoTyped DEF Begin
  <2>5. QED
        BY <1>12, <2>3, <2>4 DEF Begin, Visiting
<1>13. ASSUME NEW i \in Ids, RecordIdMapping(i) PROVE TypeInv'
  <2>1. ioErrors' \in 0 .. MaxIoErrors
        BY <1>13, IoTyped DEF RecordIdMapping
  <2>2. CASE ResetMemory /\ pc' = "idle" /\ UNCHANGED idMap
        BY <1>13, <2>1, <2>2, ResetTyped DEF RecordIdMapping
  <2>3. QED
        BY <1>13, <2>1, <2>2 DEF RecordIdMapping
<1>14. QED
       BY <1>1, <1>2, <1>3, <1>4, <1>5, <1>6, <1>7, <1>8, <1>9, <1>10, <1>11, <1>12, <1>13
       DEF Drain

LEMMA TypeNext == TypeInv /\ [Next]_vars => TypeInv'
<1> SUFFICES ASSUME TypeInv, [Next]_vars PROVE TypeInv'
    OBVIOUS
<1>1. CASE Crash
  <2>1. /\ pc' = "idle" /\ ResetMemory /\ crashes' \in 0 .. MaxCrashes
        /\ UNCHANGED <<storeVars, qboVars, ioErrors, renames>>
        BY <1>1, BoundsAssumption DEF Crash, TypeInv, TypeOK
  <2>2. TypeOK'
        BY <2>1, ResetTyped DEF TypeInv, TypeOK, storeVars, qboVars
  <2>3. QED
        BY <2>1, <2>2 DEF TypeInv, Sending, storeVars
<1>2. CASE UNCHANGED vars
  <2>1. UNCHANGED <<storeVars, qboVars, pc, memVars, faultVars>>
        BY <1>2 DEF vars
  <2>2. TypeOK'
        BY <2>1 DEF TypeInv, TypeOK, storeVars, qboVars, memVars, faultVars
  <2>3. QED
        BY <2>1, <2>2 DEF TypeInv, Sending, storeVars, qboVars, memVars, faultVars
<1>3. QED
      BY <1>1, <1>2, TypePerson, TypeWeb, TypeDrain DEF Next

\* Every variable keeps its type, for any number of writes and records.
THEOREM TypeCorrect == Spec => []TypeOK
<1>1. TypeInv => TypeOK
      BY DEF TypeInv
<1>2. QED
      BY <1>1, TypeInit, TypeNext, PTL DEF Spec

-----------------------------------------------------------------------------
(* Layer 2: the invariant.  First, what a step can do to each part of the  *)
(* state, whatever else it does.                                           *)

\* A step that resets the pass's memory leaves it empty.
LEMMA ResetEmpty ==
    ASSUME ResetMemory
    PROVE  \A i \in Ids : mem'[i].state = "absent" /\ memMap'[i] = None
BY DEF ResetMemory, AbsentRow, OutboxRow

\* Only the write being sent gains effects, only while it is being sent, and
\* no effect is ever undone.
LEMMA EffectStep ==
    ASSUME TypeInv, [Next]_vars
    PROVE  \A i \in Ids : /\ effect[i] \subseteq effect'[i]
                          /\ effect'[i] # effect[i] => Sending /\ i = cur
<1> USE DEF TypeInv, TypeOK, storeVars, qboVars, memVars, faultVars
<1>1. CASE UNCHANGED effect
      BY <1>1
<1>a. ASSUME Sending, NEW q, effect' = [effect EXCEPT ![cur] = @ \cup {q}]
      PROVE  \A i \in Ids : /\ effect[i] \subseteq effect'[i]
                            /\ effect'[i] # effect[i] => Sending /\ i = cur
  <2>1. effect'[cur] = effect[cur] \cup {q} /\ cur \in Ids
        BY <1>a
  <2>2. \A i \in Ids : i # cur => effect'[i] = effect[i]
        BY <1>a
  <2>3. QED
        BY <1>a, <2>1, <2>2
<1>2. CASE FindByName
      BY <1>1, <1>2, <1>a DEF FindByName, Sending
<1>3. CASE SendCreate
      BY <1>1, <1>3, <1>a DEF SendCreate, Sending
<1>4. CASE SendUpdate
      BY <1>1, <1>4, <1>a DEF SendUpdate, Sending
<1>5. CASE Person
      BY <1>1, <1>5 DEF Person, QueueCreate, QueueUpdate, Queue, Retry, Discard, SaveResolved,
                        SetWriteEnabled
<1>6. CASE Web
      BY <1>1, <1>6 DEF Web, WebCreate, WebEdit, WebRename, Sync
<1>7. CASE Drain
      BY <1>1, <1>2, <1>3, <1>4, <1>7
      DEF Drain, StartPass, LoadParents, SendFails, Replay, SaveOutcome, FinishPass,
          Recover, PassOver, Begin, RecordIdMapping
<1>8. CASE Crash
      BY <1>1, <1>8 DEF Crash
<1>9. QED
      BY <1>1, <1>5, <1>6, <1>7, <1>8 DEF Next, vars

\* Queueing adds one pending row, whose columns refer to earlier creates only.
QueueFacts ==
    /\ count' = count + 1 /\ count + 1 \in Ids
    /\ \A i \in Ids : i # count + 1 => write'[i] = write[i] /\ outbox'[i] = outbox[i]
    /\ outbox'[count + 1].state = "pending" /\ outbox'[count + 1].attempts = 0
    /\ \A r \in write'[count + 1].refs : r \in Ids /\ write[r].op = "create"
    /\ write'[count + 1].depends \in {None} \cup write'[count + 1].refs
    /\ UNCHANGED <<pc, mem, todo, blocked, landed, cur, result, memMap, idMap,
                   requestLog, effect, crashes, ioErrors>>

LEMMA QueueStep ==
    ASSUME TypeInv, QueueCreate \/ QueueUpdate
    PROVE  QueueFacts
<1> USE DEF TypeInv, TypeOK
<1>1. ASSUME NEW op, NEW name, NEW entity, NEW refs \in SUBSET Ids, NEW base \in Nat,
             Queue(op, name, entity, refs, base)
      PROVE  QueueFacts
  <2>1. PICK parent \in {None} \cup Ids :
          /\ DependsOn(refs, parent)
          /\ write' = [write EXCEPT ![count + 1] =
                         [op |-> op, name |-> name, refs |-> refs,
                          entity |-> entity, depends |-> parent]]
        BY <1>1 DEF Queue
  <2>2. count + 1 \in Ids /\ count' = count + 1
        BY <1>1, BoundsAssumption DEF Queue
  <2>3. parent \in {None} \cup refs /\ \A r \in refs : write[r].op = "create"
        BY <1>1, <2>1 DEF DependsOn, Queue, Referable
  <2>4. write'[count + 1] = [op |-> op, name |-> name, refs |-> refs,
                             entity |-> entity, depends |-> parent]
        BY <2>1, <2>2
  <2>5. \A i \in Ids : i # count + 1 => write'[i] = write[i]
        BY <2>1, <2>2
  <2>6. /\ outbox' = [outbox EXCEPT ![count + 1] = NewRow(base)]
        /\ UNCHANGED <<pc, mem, todo, blocked, landed, cur, result, memMap, idMap,
                       requestLog, effect, crashes, ioErrors>>
        BY <1>1 DEF Queue, qboVars, memVars, faultVars
  <2>7. /\ outbox'[count + 1].state = "pending" /\ outbox'[count + 1].attempts = 0
        /\ \A i \in Ids : i # count + 1 => outbox'[i] = outbox[i]
        BY <2>2, <2>6 DEF NewRow, OutboxRow
  <2>8. QED
        BY <2>2, <2>3, <2>4, <2>5, <2>6, <2>7 DEF QueueFacts
<1>2. CASE QueueCreate
      BY <1>1, <1>2 DEF QueueCreate
<1>3. CASE QueueUpdate
      BY <1>1, <1>3 DEF QueueUpdate
<1>4. QED
      BY <1>2, <1>3

\* Steps of QBO's web UI, of sync and of the write switch touch nothing that
\* the invariant speaks of.
core == <<write, outbox, count, idMap, requestLog, effect, pc, memVars, crashes, ioErrors>>

LEMMA QuietStep == Web \/ SetWriteEnabled \/ UNCHANGED vars => UNCHANGED core
BY DEF core, Web, WebCreate, WebEdit, WebRename, Sync, SetWriteEnabled,
       vars, storeVars, qboVars, memVars, faultVars

\* Resolving a write in the inbox changes its saved row and nothing else.
LEMMA ResolveStep ==
    ASSUME TypeInv, NEW i \in Ids, Retry(i) \/ Discard(i)
    PROVE  /\ outbox[i].state \in Attention
           /\ \/ outbox'[i].state = "pending" /\ outbox'[i].attempts = 0
              \/ outbox'[i].state = "discarded" /\ outbox'[i].attempts = outbox[i].attempts
           /\ \A j \in Ids : j # i => outbox'[j] = outbox[j]
           /\ UNCHANGED <<write, count, idMap, requestLog, effect, pc, mem, memMap, todo, blocked,
                          landed, cur, result, crashes, ioErrors>>
<1>1. PICK row : outbox' = [outbox EXCEPT ![i] = row]
                 /\ row \in {ResolveRow(RebasedOn(i)), DiscardRow(outbox[i])}
      BY DEF Retry, Discard, SaveResolved
<1>2. outbox'[i] = row /\ \A j \in Ids : j # i => outbox'[j] = outbox[j]
      BY <1>1 DEF TypeInv, TypeOK
<1>3. \/ row.state = "pending" /\ row.attempts = 0
      \/ row.state = "discarded" /\ row.attempts = outbox[i].attempts
      BY <1>1 DEF ResolveRow, DiscardRow, OutboxRow
<1>4. QED
      BY <1>2, <1>3 DEF Retry, Discard, SaveResolved, qboVars, memVars, faultVars

\* Which saved rows and which copies a step of the pass rewrites.
LEMMA RecoverStep ==
    ASSUME TypeInv, NEW i \in Ids, Recover(i)
    PROVE  /\ UNCHANGED <<write, count, idMap, requestLog, effect, crashes>>
           /\ pc = "recover" /\ mem[i].state = "in_flight"
           /\ \/ /\ UNCHANGED <<ioErrors, pc, memMap, todo, blocked, landed, cur, result>>
                 /\ mem'[i] = RecoverInFlight(mem[i]) /\ outbox'[i] = RecoverInFlight(mem[i])
                 /\ \A j \in Ids : j # i => mem'[j] = mem[j] /\ outbox'[j] = outbox[j]
              \/ /\ pc' = "idle" /\ ResetMemory /\ UNCHANGED outbox
                 /\ ioErrors' = ioErrors + 1
BY DEF TypeInv, TypeOK, Recover, IoError, NoIoError, qboVars

LEMMA BeginStep ==
    ASSUME TypeInv, NEW i \in Ids, Begin(i)
    PROVE  /\ UNCHANGED <<write, count, idMap, requestLog, effect, memMap, landed, result, crashes>>
           /\ pc = "loop" /\ MayBegin(i) /\ Visiting(i)
           /\ todo' = todo \ {i}
           /\ \A j \in Ids : j # i => mem'[j] = mem[j] /\ outbox'[j] = outbox[j]
           /\ \/ /\ UNCHANGED <<ioErrors, blocked>>
                 /\ pc' \in {"find", "send"} /\ cur' = i
                 /\ pc' = "find" => write[i].op = "create"
                 /\ mem'[i] = BeginAttempt(mem[i]) /\ outbox'[i] = BeginAttempt(mem[i])
              \/ /\ UNCHANGED <<outbox, pc, cur>>
                 /\ ioErrors' = ioErrors + 1
                 /\ blocked' = blocked \cup {i}
                 /\ mem'[i] = MarkFailed(BeginAttempt(mem[i]), "transient")
BY DEF TypeInv, TypeOK, Begin, Visiting, IoError, NoIoError, NeedsQueryBeforeCreate, qboVars

LEMMA SaveStep ==
    ASSUME TypeInv, SaveOutcome
    PROVE  /\ UNCHANGED <<write, count, idMap, requestLog, effect, todo, crashes>>
           /\ pc = "save" /\ cur \in Ids /\ pc' = "loop" /\ cur' = None
           /\ \A j \in Ids : j # cur => mem'[j] = mem[j] /\ outbox'[j] = outbox[j]
           /\ \/ outbox'[cur] = mem'[cur] /\ UNCHANGED ioErrors
              \/ outbox' = outbox /\ ioErrors' = ioErrors + 1
           /\ \/ /\ result.kind = "ok" /\ mem'[cur] = MarkApplied(mem[cur])
                 /\ memMap' \in {memMap, [memMap EXCEPT ![cur] = result.id]}
                 /\ blocked' = blocked
              \/ /\ result.kind # "ok" /\ mem'[cur] = MarkFailed(mem[cur], result.kind)
                 /\ memMap' = memMap
                 /\ blocked' = blocked \cup {cur}
BY DEF TypeInv, TypeOK, Sending, SaveOutcome, IoError, NoIoError, qboVars

\* The steps that talk to QBO leave the rows alone.
LEMMA TalkStep ==
    ASSUME TypeInv, FindByName \/ SendFails \/ Replay \/ SendCreate \/ SendUpdate
    PROVE  /\ UNCHANGED <<write, outbox, count, idMap, mem, memMap, todo, blocked, landed, cur,
                          crashes, ioErrors>>
           /\ pc \in {"find", "send"} /\ pc' \in {"send", "save"}
           /\ cur \in Ids
BY DEF TypeInv, Sending, FindByName, SendFails, Replay, SendCreate, SendUpdate, Answer, Outcome,
       storeVars, qboVars, faultVars

\* What a conversation step can add: an effect of the row being sent, its
\* request log entry, and an outcome that tells the truth about them.
Talked ==
    /\ \A i \in Ids : i # cur => effect'[i] = effect[i] /\ requestLog'[i] = requestLog[i]
    /\ effect[cur] \subseteq effect'[cur]
    /\ requestLog'[cur] = requestLog[cur]
       \/ (requestLog'[cur] # None /\ requestLog'[cur] \in effect'[cur])
    /\ pc' = "save" /\ result'.kind = "ok" => result'.id \in effect'[cur]
    /\ pc' = "save" /\ result'.kind = "stale" =>
         write[cur].op = "update" /\ requestLog[cur] = None /\ effect'[cur] = effect[cur]
    /\ write[cur].op = "update" /\ effect'[cur] # {} => effect[cur] # {} \/ requestLog'[cur] # None

LEMMA TalkFacts ==
    ASSUME TypeInv, Remembered, Stale,
           FindByName \/ SendFails \/ Replay \/ SendCreate \/ SendUpdate
    PROVE  Talked
<1>1. /\ cur \in Ids /\ effect \in [Ids -> SUBSET QboIds]
      /\ requestLog \in [Ids -> {None} \cup QboIds]
      BY TalkStep DEF TypeInv, TypeOK
<1>2. /\ requestLog[cur] # None => requestLog[cur] \in effect[cur]
      /\ pc = "find" => write[cur].op = "create"
      BY <1>1 DEF Remembered, RememberedAt, Stale, StaleAt
<1>a. ASSUME NEW q, effect' = [effect EXCEPT ![cur] = @ \cup {q}]
      PROVE  /\ effect'[cur] = effect[cur] \cup {q}
             /\ \A i \in Ids : i # cur => effect'[i] = effect[i]
      BY <1>1, <1>a
<1>b. ASSUME NEW q, Answer(q)
      PROVE  /\ pc' = "save" /\ result'.kind # "stale"
             /\ result'.kind = "ok" => result'.id = q
      BY <1>b DEF Answer, Outcome
<1>3. CASE FindByName
  <2>1. requestLog' = requestLog /\ write[cur].op = "create"
        BY <1>2, <1>3 DEF FindByName
  <2>2. CASE \E q \in 1 .. held : /\ Outcome("ok", q)
                                  /\ effect' = [effect EXCEPT ![cur] = @ \cup {q}]
    <3>1. PICK q : Outcome("ok", q) /\ effect' = [effect EXCEPT ![cur] = @ \cup {q}]
          BY <2>2
    <3>2. QED
          BY <1>a, <2>1, <3>1 DEF Outcome, Talked
  <2>3. CASE effect' = effect /\ (pc' = "send" \/
               \E failure \in {"transient", "refused"} : Outcome(failure, None))
        BY <2>1, <2>3 DEF Outcome, Talked
  <2>4. QED
        BY <1>3, <2>2, <2>3 DEF FindByName
<1>4. CASE SendFails
      BY <1>4 DEF SendFails, Outcome, qboVars, Talked
<1>5. CASE Replay
  <2>1. requestLog' = requestLog /\ effect' = effect /\ Answer(requestLog[cur])
        BY <1>5 DEF Replay, qboVars
  <2>2. requestLog[cur] \in effect[cur]
        BY <1>2, <1>5 DEF Replay
  <2>3. QED
        BY <1>b, <2>1, <2>2 DEF Talked
<1>6. CASE SendCreate
  <2>1. write[cur].op = "create"
        BY <1>6 DEF SendCreate
  <2>2. CASE effect' = effect /\ requestLog' = requestLog /\ Outcome("duplicate", None)
        BY <2>1, <2>2 DEF Outcome, Talked
  <2>3. CASE /\ effect' = [effect EXCEPT ![cur] = @ \cup {held + 1}]
             /\ requestLog' \in {requestLog, [requestLog EXCEPT ![cur] = held + 1]}
             /\ Answer(held + 1)
    <3>1. held + 1 # None
          BY DEF TypeInv, TypeOK
    <3>2. /\ \A i \in Ids : i # cur => requestLog'[i] = requestLog[i]
          /\ requestLog'[cur] \in {requestLog[cur], held + 1}
          BY <1>1, <2>3
    <3>3. /\ effect'[cur] = effect[cur] \cup {held + 1}
          /\ \A i \in Ids : i # cur => effect'[i] = effect[i]
          BY <1>a, <2>3
    <3>4. /\ pc' = "save" /\ result'.kind # "stale"
          /\ result'.kind = "ok" => result'.id = held + 1
          BY <1>b, <2>3
    <3>5. QED
          BY <2>1, <3>1, <3>2, <3>3, <3>4 DEF Talked
  <2>4. QED
        BY <1>6, <2>2, <2>3 DEF SendCreate
<1>7. CASE SendUpdate
  <2>1. write[cur].op = "update" /\ requestLog[cur] = None /\ write[cur].entity # None
        BY <1>1, <1>7 DEF SendUpdate, TypeInv
  <2>2. CASE effect' = effect /\ requestLog' = requestLog /\ Outcome("stale", None)
        BY <2>1, <2>2 DEF Outcome, Talked
  <2>3. CASE /\ effect' = [effect EXCEPT ![cur] = @ \cup {write[cur].entity}]
             /\ requestLog' = [requestLog EXCEPT ![cur] = write[cur].entity]
             /\ Answer(write[cur].entity)
    <3>1. /\ \A i \in Ids : i # cur => requestLog'[i] = requestLog[i]
          /\ requestLog'[cur] = write[cur].entity
          BY <1>1, <2>3
    <3>2. QED
          BY <1>a, <1>b, <2>1, <2>3, <3>1 DEF Talked
  <2>4. QED
        BY <1>7, <2>2, <2>3 DEF SendUpdate
<1>8. QED
      BY <1>3, <1>4, <1>5, <1>6, <1>7

\* The pass ends: done, failed or killed.
Ended == pc' = "idle" /\ ResetMemory

LEMMA EndStep ==
    ASSUME TypeInv, FinishPass \/ Crash
    PROVE  /\ Ended /\ UNCHANGED <<write, outbox, count, idMap, requestLog, effect, ioErrors>>
           /\ crashes' \in {crashes, crashes + 1}
           /\ pc' # "idle" => crashes' = crashes
           /\ FinishPass => pc = "loop" /\ crashes' = crashes
           /\ Crash => crashes' = crashes + 1
BY DEF Ended, FinishPass, Crash, storeVars, qboVars, faultVars

LEMMA RecordStep ==
    ASSUME TypeInv, NEW i \in Ids, RecordIdMapping(i)
    PROVE  /\ UNCHANGED <<write, outbox, count, requestLog, effect, crashes>>
           /\ pc = "loop"
           /\ \/ /\ idMap'[i] \in {idMap[i], memMap[i]}
                 /\ \A j \in Ids : j # i => idMap'[j] = idMap[j]
                 /\ UNCHANGED <<ioErrors, pc, mem, memMap, todo, blocked, cur, result>>
              \/ Ended /\ UNCHANGED idMap /\ ioErrors' = ioErrors + 1
BY DEF TypeInv, TypeOK, Ended, RecordIdMapping, IoError, NoIoError, qboVars

\* Loading copies saved rows: the open ones first, their parents later.
LEMMA StartStep ==
    ASSUME TypeInv, StartPass
    PROVE  /\ UNCHANGED <<write, outbox, count, idMap, requestLog, effect, memMap, todo, blocked,
                          landed, cur, result, crashes, ioErrors>>
           /\ pc = "idle" /\ pc' = "recover"
           /\ \A i \in Ids : mem'[i] = IF outbox[i].state \in Open THEN outbox[i] ELSE AbsentRow
BY DEF TypeInv, TypeOK, StartPass, storeVars, qboVars, faultVars

LEMMA LoadStep ==
    ASSUME TypeInv, LoadParents
    PROVE  /\ UNCHANGED <<write, outbox, count, idMap, requestLog, effect, blocked,
                          landed, cur, result, crashes, ioErrors>>
           /\ pc = "recover" /\ pc' = "loop"
           /\ memMap' = idMap
           /\ todo' = {i \in Ids : mem'[i].state # "absent"}
           /\ \A i \in Ids : /\ mem[i].state # "in_flight"
                             /\ \/ mem'[i] = mem[i]
                                \/ /\ mem[i].state = "absent" /\ mem'[i] = outbox[i]
                                   /\ \E j \in Ids : mem[j].state # "absent" /\ write[j].depends = i
BY DEF TypeInv, TypeOK, LoadParents, Loaded, storeVars, qboVars, faultVars

\* Nothing is known of a write before it is queued.
LEMMA FreshNext ==
    ASSUME TypeInv, TypeInv', Fresh, CopyFresh, [Next]_vars
    PROVE  Fresh'
<1> SUFFICES ASSUME NEW k \in Ids PROVE FreshAt(k)'
    BY DEF Fresh
<1>a. \A w \in Write : w.depends \in {None} \cup Ids
      BY DEF Write
<1>b. count \in Nat /\ write \in [Ids -> Write]
      BY DEF TypeInv, TypeOK
<1>0. count \in Nat /\ \A i \in Ids : write[i].depends \in {None} \cup Ids
      BY <1>a, <1>b
<1> USE DEF Fresh, FreshAt
<1>1. CASE UNCHANGED core
      BY <1>1 DEF core, memVars
<1>2. CASE QueueCreate \/ QueueUpdate
  <2>1. \A r \in write'[count + 1].refs : r <= count
        BY <1>0, <1>2, QueueStep DEF QueueFacts, NoWrite
  <2>2. QED
        BY <1>0, <1>2, <2>1, QueueStep DEF QueueFacts
<1>3. ASSUME NEW i \in Ids, Retry(i) \/ Discard(i) PROVE FreshAt(k)'
      BY <1>0, <1>3, ResolveStep DEF Attention
<1>4. CASE StartPass
      BY <1>0, <1>4, StartStep DEF AbsentRow, OutboxRow, Open, Attention
<1>5. ASSUME NEW i \in Ids, Recover(i) PROVE FreshAt(k)'
  <2>a. mem[i].state = "in_flight"
        BY <1>5, RecoverStep
  <2>b. i <= count
        BY <1>0, <2>a
  <2>c. RecoverInFlight(mem[i]).state # "absent"
        BY DEF RecoverInFlight, OutboxRow
  <2>1. i <= count /\ RecoverInFlight(mem[i]).state # "absent"
        BY <2>b, <2>c
  <2>2. /\ write' = write /\ effect' = effect /\ count' = count
        /\ outbox'[k] \in {outbox[k], RecoverInFlight(mem[i])}
        /\ mem'[k].state = "absent" \/ mem'[k] \in {mem[k], RecoverInFlight(mem[i])}
        /\ k # i => outbox'[k] = outbox[k]
        /\ k # i => mem'[k] = mem[k] \/ mem'[k].state = "absent"
        BY <1>5, RecoverStep, ResetEmpty
  <2>3. QED
        BY <1>0, <2>1, <2>2
<1>6. CASE LoadParents
      BY <1>0, <1>6, LoadStep
<1>7. ASSUME NEW i \in Ids, PassOver(i) PROVE FreshAt(k)'
      BY <1>0, <1>7 DEF PassOver, Visiting, storeVars, qboVars, faultVars
<1>8. ASSUME NEW i \in Ids, Begin(i) PROVE FreshAt(k)'
  <2>1. i <= count /\ mem[i].state = "pending"
        BY <1>0, <1>8, BeginStep DEF MayBegin
  <2>2. write' = write /\ effect' = effect /\ count' = count
        BY <1>8, BeginStep
  <2>3. CASE k = i
    <3>1. BeginAttempt(mem[i]).state # "absent"
          BY DEF BeginAttempt, OutboxRow
    <3>2. outbox'[k] = outbox[k] \/ outbox'[k] = BeginAttempt(mem[i])
          BY <1>8, <2>3, BeginStep
    <3>3. QED
          BY <1>0, <2>1, <2>2, <2>3, <3>1, <3>2
  <2>4. CASE k # i
        BY <1>0, <1>8, <2>2, <2>4, BeginStep
  <2>5. QED
        BY <2>3, <2>4
<1>9. CASE FindByName \/ SendFails \/ Replay \/ SendCreate \/ SendUpdate
      BY <1>0, <1>9, TalkStep, EffectStep DEF Sending, CopyFresh, CopyFreshAt
<1>10. CASE SaveOutcome
      BY <1>0, <1>10, SaveStep DEF MarkApplied, MarkFailed, OutboxRow, FailedState, Sending, CopyFresh, CopyFreshAt
<1>11. ASSUME NEW i \in Ids, RecordIdMapping(i) PROVE FreshAt(k)'
      BY <1>0, <1>11, RecordStep, ResetEmpty DEF Ended
<1>12. CASE FinishPass \/ Crash
      BY <1>0, <1>12, EndStep, ResetEmpty DEF Ended
<1>13. QED
      BY <1>1, <1>2, <1>3, <1>4, <1>5, <1>6, <1>7, <1>8, <1>9, <1>10, <1>11, <1>12, QuietStep
      DEF Next, Person, Drain

\* The pass never works on a copy of a row that has moved on.
LEMMA CopyFreshNext ==
    ASSUME TypeInv, TypeInv', Fresh, CopyFresh, [Next]_vars
    PROVE  CopyFresh'
<1> SUFFICES ASSUME NEW k \in Ids PROVE CopyFreshAt(k)'
    BY DEF CopyFresh
<1>0. count \in Nat /\ count <= MaxRecords
      BY DEF TypeInv, TypeOK
<1> USE DEF Fresh, FreshAt, CopyFresh, CopyFreshAt, InLoop, Sending
<1>1. CASE UNCHANGED core
      BY <1>1 DEF core, memVars
<1>2. CASE QueueCreate \/ QueueUpdate
      BY <1>0, <1>2, QueueStep DEF QueueFacts
<1>3. ASSUME NEW i \in Ids, Retry(i) \/ Discard(i) PROVE CopyFreshAt(k)'
      BY <1>0, <1>3, ResolveStep DEF Attention
<1>4. CASE StartPass
      BY <1>0, <1>4, StartStep DEF AbsentRow, OutboxRow, Open, Attention
<1>5. ASSUME NEW i \in Ids, Recover(i) PROVE CopyFreshAt(k)'
      BY <1>0, <1>5, RecoverStep, ResetEmpty DEF RecoverInFlight, OutboxRow
<1>6. CASE LoadParents
      BY <1>0, <1>6, LoadStep
<1>7. ASSUME NEW i \in Ids, PassOver(i) PROVE CopyFreshAt(k)'
      BY <1>0, <1>7 DEF PassOver, Visiting, storeVars, qboVars, faultVars
<1>8. ASSUME NEW i \in Ids, Begin(i) PROVE CopyFreshAt(k)'
  <2>1. CASE k # i
        BY <1>8, <2>1, BeginStep
  <2>2. CASE k = i
    <3>1. BeginAttempt(mem[k]).state = "in_flight"
          BY DEF BeginAttempt, OutboxRow
    <3>2. k \notin todo' /\ pc' \in {"loop", "find", "send"}
          BY <1>8, <2>2, BeginStep
    <3>3. pc' = "loop" \/ (outbox'[k] = mem'[k] /\ mem'[k] = BeginAttempt(mem[k]))
          BY <1>8, <2>2, BeginStep
    <3>4. QED
          BY <3>1, <3>2, <3>3
  <2>3. QED
        BY <2>1, <2>2
<1>9. CASE FindByName \/ SendFails \/ Replay \/ SendCreate \/ SendUpdate
      BY <1>0, <1>9, TalkStep, EffectStep
<1>10. CASE SaveOutcome
      BY <1>0, <1>10, SaveStep DEF MarkApplied, MarkFailed, OutboxRow
<1>11. ASSUME NEW i \in Ids, RecordIdMapping(i) PROVE CopyFreshAt(k)'
      BY <1>0, <1>11, RecordStep, ResetEmpty DEF Ended
<1>12. CASE FinishPass \/ Crash
      BY <1>0, <1>12, EndStep, ResetEmpty DEF Ended
<1>13. QED
      BY <1>1, <1>2, <1>3, <1>4, <1>5, <1>6, <1>7, <1>8, <1>9, <1>10, <1>11, <1>12, QuietStep
      DEF Next, Person, Drain

\* Answers are remembered only once given, and effects last.
LEMMA RememberedNext ==
    ASSUME TypeInv, TypeInv', Fresh, Remembered, Stale, [Next]_vars
    PROVE  Remembered'
<1> SUFFICES ASSUME NEW k \in Ids PROVE RememberedAt(k)'
    BY DEF Remembered
<1>0. count \in Nat /\ count <= MaxRecords
      BY DEF TypeInv, TypeOK
<1> USE DEF Fresh, FreshAt, Remembered, RememberedAt
<1>1. CASE UNCHANGED core
      BY <1>1 DEF core, memVars
<1>2. CASE QueueCreate \/ QueueUpdate
      BY <1>0, <1>2, QueueStep DEF QueueFacts
<1>3. ASSUME NEW i \in Ids, Retry(i) \/ Discard(i) PROVE RememberedAt(k)'
      BY <1>0, <1>3, ResolveStep DEF Attention
<1>4. CASE StartPass
      BY <1>0, <1>4, StartStep DEF AbsentRow, OutboxRow, Open, Attention
<1>5. ASSUME NEW i \in Ids, Recover(i) PROVE RememberedAt(k)'
  <2>1. RecoverInFlight(mem[i]).state # "applied"
        BY DEF RecoverInFlight, OutboxRow
  <2>2. outbox'[k] = outbox[k] \/ outbox'[k] = RecoverInFlight(mem[i])
        BY <1>5, RecoverStep
  <2>3. UNCHANGED <<idMap, requestLog, effect>> /\ pc' # "save" /\ memMap'[k] \in {memMap[k], None}
        BY <1>5, RecoverStep, ResetEmpty
  <2>4. QED
        BY <2>1, <2>2, <2>3
<1>6. CASE LoadParents
      BY <1>0, <1>6, LoadStep
<1>7. ASSUME NEW i \in Ids, PassOver(i) PROVE RememberedAt(k)'
      BY <1>0, <1>7 DEF PassOver, Visiting, storeVars, qboVars, faultVars
<1>8. ASSUME NEW i \in Ids, Begin(i) PROVE RememberedAt(k)'
  <2>1. BeginAttempt(mem[i]).state # "applied"
        BY DEF BeginAttempt, OutboxRow
  <2>2. outbox'[k] = outbox[k] \/ outbox'[k] = BeginAttempt(mem[i])
        BY <1>8, BeginStep
  <2>3. UNCHANGED <<idMap, requestLog, effect, memMap>> /\ pc' # "save"
        BY <1>8, BeginStep
  <2>4. QED
        BY <2>1, <2>2, <2>3
<1>9. CASE FindByName \/ SendFails \/ Replay \/ SendCreate \/ SendUpdate
  <2>1. Talked
        BY <1>9, TalkFacts
  <2>2. CASE k = cur
        BY <1>9, <2>1, <2>2, TalkStep DEF Talked
  <2>3. CASE k # cur
        BY <1>9, <2>1, <2>3, TalkStep DEF Talked
  <2>4. QED
        BY <2>2, <2>3
<1>10. CASE SaveOutcome
  <2>1. /\ UNCHANGED <<idMap, requestLog, effect>> /\ pc' # "save"
        /\ k # cur => outbox'[k] = outbox[k] /\ memMap'[k] = memMap[k]
        BY <1>10, SaveStep DEF TypeInv, TypeOK
  <2>2. CASE k = cur /\ result.kind = "ok"
    <3>1. memMap'[k] \in {memMap[k], result.id} /\ result.id \in effect[k]
          BY <1>10, <2>2, SaveStep DEF TypeInv, TypeOK
    <3>2. QED
          BY <2>1, <3>1
  <2>3. CASE k = cur /\ result.kind # "ok"
    <3>1. MarkFailed(mem[cur], result.kind).state # "applied"
          BY DEF MarkFailed, FailedState, OutboxRow
    <3>2. memMap' = memMap /\ (outbox'[k] = outbox[k] \/ outbox'[k] = MarkFailed(mem[cur], result.kind))
          BY <1>10, <2>3, SaveStep
    <3>3. QED
          BY <2>1, <3>1, <3>2
  <2>4. QED
        BY <2>1, <2>2, <2>3
<1>11. ASSUME NEW i \in Ids, RecordIdMapping(i) PROVE RememberedAt(k)'
      BY <1>0, <1>11, RecordStep, ResetEmpty DEF Ended
<1>12. CASE FinishPass \/ Crash
      BY <1>0, <1>12, EndStep, ResetEmpty DEF Ended
<1>13. QED
      BY <1>1, <1>2, <1>3, <1>4, <1>5, <1>6, <1>7, <1>8, <1>9, <1>10, <1>11, <1>12, QuietStep
      DEF Next, Person, Drain

\* Only an update QBO has not carried out can be refused as stale.
LEMMA StaleNext ==
    ASSUME TypeInv, TypeInv', Fresh, CopyFresh, Remembered, Stale, [Next]_vars
    PROVE  Stale'
<1> SUFFICES ASSUME NEW k \in Ids PROVE StaleAt(k)'
    BY DEF Stale
<1>0. count \in Nat /\ count <= MaxRecords
      BY DEF TypeInv, TypeOK
<1> USE DEF Stale, StaleAt
<1>1. CASE UNCHANGED core
      BY <1>1 DEF core, memVars
<1>2. CASE QueueCreate \/ QueueUpdate
  <2>1. pc = "find" => cur # count + 1
        BY <1>0, <1>2, QueueStep DEF QueueFacts, Fresh, FreshAt, CopyFresh, CopyFreshAt, Sending
  <2>2. CASE k = count + 1
        BY <1>0, <1>2, <2>1, <2>2, QueueStep DEF QueueFacts, Fresh, FreshAt
  <2>3. CASE k # count + 1
        BY <1>2, <2>3, QueueStep DEF QueueFacts
  <2>4. QED
        BY <2>2, <2>3
<1>3. ASSUME NEW i \in Ids, Retry(i) \/ Discard(i) PROVE StaleAt(k)'
      BY <1>0, <1>3, ResolveStep DEF Attention
<1>4. CASE StartPass
      BY <1>4, StartStep
<1>5. ASSUME NEW i \in Ids, Recover(i) PROVE StaleAt(k)'
  <2>1. RecoverInFlight(mem[i]).state # "conflicted"
        BY DEF RecoverInFlight, OutboxRow
  <2>2. /\ outbox'[k] = outbox[k] \/ outbox'[k] = RecoverInFlight(mem[i])
        /\ UNCHANGED <<write, requestLog, effect>> /\ pc' \notin {"find", "save"}
        BY <1>5, RecoverStep
  <2>3. QED
        BY <2>1, <2>2
<1>6. CASE LoadParents
      BY <1>0, <1>6, LoadStep
<1>7. ASSUME NEW i \in Ids, PassOver(i) PROVE StaleAt(k)'
      BY <1>0, <1>7 DEF PassOver, Visiting, storeVars, qboVars, faultVars
<1>8. ASSUME NEW i \in Ids, Begin(i) PROVE StaleAt(k)'
  <2>1. BeginAttempt(mem[i]).state # "conflicted"
        BY DEF BeginAttempt, OutboxRow
  <2>2. /\ outbox'[k] = outbox[k] \/ outbox'[k] = BeginAttempt(mem[i])
        /\ UNCHANGED <<write, requestLog, effect>> /\ pc' # "save"
        /\ pc' = "find" => cur' = i /\ write[i].op = "create"
        BY <1>8, BeginStep
  <2>3. QED
        BY <2>1, <2>2
<1>9. CASE FindByName \/ SendFails \/ Replay \/ SendCreate \/ SendUpdate
  <2>1. Talked /\ UNCHANGED <<write, outbox, cur>> /\ pc' # "find"
        BY <1>9, TalkFacts, TalkStep
  <2>2. CASE k = cur
    <3>1. outbox[k].state = "in_flight"
          BY <1>9, <2>2, TalkStep DEF CopyFresh, CopyFreshAt, Sending
    <3>2. QED
          BY <2>1, <2>2, <3>1 DEF Talked
  <2>3. CASE k # cur
        BY <2>1, <2>3 DEF Talked
  <2>4. QED
        BY <2>2, <2>3
<1>10. CASE SaveOutcome
  <2>1. /\ UNCHANGED <<write, requestLog, effect>> /\ pc' = "loop"
        /\ k # cur => outbox'[k] = outbox[k]
        BY <1>10, SaveStep
  <2>2. MarkApplied(mem[cur]).state # "conflicted"
        BY DEF MarkApplied, OutboxRow
  <2>3. MarkFailed(mem[cur], result.kind).state = "conflicted" => result.kind = "stale"
        BY DEF MarkFailed, FailedState, OutboxRow
  <2>4. CASE k = cur
    <3>1. \/ outbox'[k] = outbox[k] \/ outbox'[k] = MarkApplied(mem[cur])
          \/ outbox'[k] = MarkFailed(mem[cur], result.kind)
          BY <1>10, <2>4, SaveStep
    <3>2. pc = "save"
          BY <1>10, SaveStep
    <3>3. QED
          BY <2>1, <2>2, <2>3, <2>4, <3>1, <3>2
  <2>5. QED
        BY <2>1, <2>4
<1>11. ASSUME NEW i \in Ids, RecordIdMapping(i) PROVE StaleAt(k)'
      BY <1>0, <1>11, RecordStep, ResetEmpty DEF Ended
<1>12. CASE FinishPass \/ Crash
      BY <1>0, <1>12, EndStep, ResetEmpty DEF Ended
<1>13. QED
      BY <1>1, <1>2, <1>3, <1>4, <1>5, <1>6, <1>7, <1>8, <1>9, <1>10, <1>11, <1>12, QuietStep
      DEF Next, Person, Drain

\* A row is sent only when every create it refers to is mapped.
LEMMA ParentsNext ==
    ASSUME TypeInv, TypeInv', Fresh, CopyFresh, Remembered, Stale, Parents, [Next]_vars
    PROVE  Parents'
<1> SUFFICES ASSUME NEW k \in Ids PROVE ParentsAt(k)'
    BY DEF Parents
<1>0. count \in Nat /\ count <= MaxRecords
      BY DEF TypeInv, TypeOK
<1>a. \A w \in Write : w.refs \subseteq Ids
      BY DEF Write
<1>b. \A i \in Ids : write[i].refs \subseteq Ids
      BY <1>a DEF TypeInv, TypeOK
<1> USE DEF Parents, ParentsAt, Sending
<1>1. CASE UNCHANGED core
      BY <1>1 DEF core, memVars
<1>2. CASE QueueCreate \/ QueueUpdate
  <2>1. Sending => cur # count + 1
        BY <1>0, <1>2, QueueStep DEF QueueFacts, Fresh, FreshAt, CopyFresh, CopyFreshAt, Sending
  <2>2. CASE k = count + 1
        BY <1>0, <1>2, <2>1, <2>2, QueueStep DEF QueueFacts, Fresh, FreshAt
  <2>3. CASE k # count + 1
        BY <1>2, <2>3, QueueStep DEF QueueFacts
  <2>4. QED
        BY <2>2, <2>3
<1>3. ASSUME NEW i \in Ids, Retry(i) \/ Discard(i) PROVE ParentsAt(k)'
      BY <1>0, <1>3, ResolveStep DEF Attention
<1>4. CASE StartPass
      BY <1>0, <1>4, StartStep DEF AbsentRow, OutboxRow, Open, Attention
<1>5. ASSUME NEW i \in Ids, Recover(i) PROVE ParentsAt(k)'
      BY <1>0, <1>5, RecoverStep, ResetEmpty DEF RecoverInFlight, OutboxRow
<1>6. CASE LoadParents
      BY <1>0, <1>6, LoadStep
<1>7. ASSUME NEW i \in Ids, PassOver(i) PROVE ParentsAt(k)'
      BY <1>0, <1>7 DEF PassOver, Visiting, storeVars, qboVars, faultVars
<1>8. ASSUME NEW i \in Ids, Begin(i) PROVE ParentsAt(k)'
  <2>1. UNCHANGED <<write, effect>> /\ pc = "loop" /\ (pc' = "loop" \/ cur' = i)
        BY <1>8, BeginStep
  <2>2. \A r \in write[i].refs : memMap[r] # None
        BY <1>8, BeginStep DEF MayBegin, ReferencesResolved
  <2>3. \A r \in write[i].refs : effect[r] # {}
        BY <1>b, <2>2 DEF Remembered, RememberedAt
  <2>4. QED
        BY <2>1, <2>3
<1>9. CASE FindByName \/ SendFails \/ Replay \/ SendCreate \/ SendUpdate
  <2>1. Talked /\ UNCHANGED <<write, cur>> /\ pc \in {"find", "send"}
        BY <1>9, TalkFacts, TalkStep
  <2>2. \A i \in Ids : effect[i] # {} => effect'[i] # {}
        BY EffectStep
  <2>3. \A r \in write[k].refs : r \in Ids
        BY <1>b
  <2>4. effect'[k] # {} /\ k # cur => effect[k] # {}
        BY <2>1 DEF Talked
  <2>5. QED
        BY <2>1, <2>2, <2>3, <2>4
<1>10. CASE SaveOutcome
      BY <1>0, <1>10, SaveStep DEF MarkApplied, MarkFailed, OutboxRow
<1>11. ASSUME NEW i \in Ids, RecordIdMapping(i) PROVE ParentsAt(k)'
      BY <1>0, <1>11, RecordStep, ResetEmpty DEF Ended
<1>12. CASE FinishPass \/ Crash
      BY <1>0, <1>12, EndStep, ResetEmpty DEF Ended
<1>13. QED
      BY <1>1, <1>2, <1>3, <1>4, <1>5, <1>6, <1>7, <1>8, <1>9, <1>10, <1>11, <1>12, QuietStep
      DEF Next, Person, Drain

\* An attempt past the limit is paid for by a crash or a failed save.
LEMMA AttemptsNext ==
    ASSUME TypeInv, TypeInv', Fresh, CopyFresh, Attempts, [Next]_vars
    PROVE  Attempts'
<1> SUFFICES ASSUME NEW k \in Ids PROVE AttemptsAt(k)'
    BY DEF Attempts
<1>a. outbox \in [Ids -> Row] /\ \A row \in Row : row.attempts \in Nat
      BY DEF TypeInv, TypeOK, Row
<1>b. /\ crashes \in Nat /\ ioErrors \in Nat /\ count \in Nat
      BY DEF TypeInv, TypeOK
<1>0. /\ crashes \in Nat /\ ioErrors \in Nat /\ MAX_ATTEMPTS \in Nat \ {0}
      /\ count \in Nat
      /\ \A i \in Ids : outbox[i].attempts \in Nat
      BY <1>a, <1>b, AttemptsAssumption
<1> USE DEF Attempts, AttemptsAt, Faults, Sending
<1>1. CASE UNCHANGED core
      BY <1>0, <1>1 DEF core, memVars
<1>2. CASE QueueCreate \/ QueueUpdate
  <2>1. Sending => cur # count + 1
        BY <1>0, <1>2, QueueStep DEF QueueFacts, Fresh, FreshAt, CopyFresh, CopyFreshAt, Sending
  <2>2. CASE k = count + 1
        BY <1>0, <1>2, <2>1, <2>2, QueueStep DEF QueueFacts
  <2>3. CASE k # count + 1
        BY <1>0, <1>2, <2>3, QueueStep DEF QueueFacts
  <2>4. QED
        BY <2>2, <2>3
<1>3. ASSUME NEW i \in Ids, Retry(i) \/ Discard(i) PROVE AttemptsAt(k)'
  <2>1. /\ UNCHANGED <<pc, cur, crashes, ioErrors>>
        /\ k # i => outbox'[k] = outbox[k]
        BY <1>3, ResolveStep
  <2>2. CASE k = i
        BY <1>0, <1>3, <2>1, <2>2, ResolveStep
  <2>3. CASE k # i
        BY <1>0, <2>1, <2>3
  <2>4. QED
        BY <2>2, <2>3
<1>4. CASE StartPass
      BY <1>0, <1>4, StartStep DEF AbsentRow, OutboxRow, Open, Attention
<1>5. ASSUME NEW i \in Ids, Recover(i) PROVE AttemptsAt(k)'
  <2>1. /\ crashes' = crashes /\ pc = "recover" /\ pc' \in {"recover", "idle"}
        /\ outbox[i] = mem[i] /\ outbox[i].state = "in_flight"
        BY <1>5, RecoverStep DEF CopyFresh, CopyFreshAt
  <2>2. RecoverInFlight(mem[i]).attempts = outbox[i].attempts
        BY <2>1 DEF RecoverInFlight, OutboxRow
  <2>3. \/ outbox' = outbox /\ ioErrors' = ioErrors + 1
        \/ k # i /\ outbox'[k] = outbox[k] /\ ioErrors' = ioErrors
        \/ k = i /\ outbox'[k] = RecoverInFlight(mem[i]) /\ ioErrors' = ioErrors
        BY <1>5, RecoverStep
  <2>4. QED
        BY <1>0, <2>1, <2>2, <2>3
<1>6. CASE LoadParents
      BY <1>0, <1>6, LoadStep
<1>7. ASSUME NEW i \in Ids, PassOver(i) PROVE AttemptsAt(k)'
      BY <1>0, <1>7 DEF PassOver, Visiting, storeVars, qboVars, faultVars
<1>8. ASSUME NEW i \in Ids, Begin(i) PROVE AttemptsAt(k)'
  <2>1. /\ crashes' = crashes /\ pc = "loop"
        /\ outbox[i] = mem[i] /\ outbox[i].state = "pending"
        BY <1>8, BeginStep DEF CopyFresh, CopyFreshAt, InLoop, MayBegin, Visiting
  <2>2. BeginAttempt(mem[i]).attempts = outbox[i].attempts + 1
        /\ BeginAttempt(mem[i]).state = "in_flight"
        BY <2>1 DEF BeginAttempt, OutboxRow
  <2>3. \/ outbox' = outbox /\ ioErrors' = ioErrors + 1 /\ pc' = "loop"
        \/ k # i /\ outbox'[k] = outbox[k] /\ ioErrors' = ioErrors
        \/ k = i /\ outbox'[k] = BeginAttempt(mem[i]) /\ ioErrors' = ioErrors /\ cur' = k
           /\ pc' \in {"find", "send"}
        BY <1>8, BeginStep
  <2>4. QED
        BY <1>0, <2>1, <2>2, <2>3
<1>9. CASE FindByName \/ SendFails \/ Replay \/ SendCreate \/ SendUpdate
      BY <1>0, <1>9, TalkStep, EffectStep
<1>10. CASE SaveOutcome
  <2>1. /\ crashes' = crashes /\ pc = "save" /\ pc' = "loop" /\ cur \in Ids
        /\ outbox[cur] = mem[cur]
        BY <1>10, SaveStep DEF CopyFresh, CopyFreshAt
  <2>2. /\ MarkApplied(mem[cur]).attempts = outbox[cur].attempts
        /\ MarkApplied(mem[cur]).state = "applied"
        BY <2>1 DEF MarkApplied, OutboxRow
  <2>3. /\ MarkFailed(mem[cur], result.kind).attempts = outbox[cur].attempts
        /\ MarkFailed(mem[cur], result.kind).state # "in_flight"
        /\ MarkFailed(mem[cur], result.kind).state = "pending"
             => outbox[cur].attempts < MAX_ATTEMPTS
        BY <2>1 DEF MarkFailed, FailedState, OutboxRow
  <2>4. \/ outbox' = outbox /\ ioErrors' = ioErrors + 1
        \/ k # cur /\ outbox'[k] = outbox[k] /\ ioErrors' \in {ioErrors, ioErrors + 1}
        \/ k = cur /\ outbox'[k] = MarkApplied(mem[cur]) /\ ioErrors' = ioErrors
        \/ k = cur /\ outbox'[k] = MarkFailed(mem[cur], result.kind) /\ ioErrors' = ioErrors
        BY <1>10, SaveStep
  <2>5. QED
        BY <1>0, <2>1, <2>2, <2>3, <2>4
<1>11. ASSUME NEW i \in Ids, RecordIdMapping(i) PROVE AttemptsAt(k)'
      BY <1>0, <1>11, RecordStep, ResetEmpty DEF Ended
<1>12. CASE FinishPass \/ Crash
  <2>1. /\ outbox' = outbox /\ ioErrors' = ioErrors /\ pc' = "idle"
        /\ \/ pc = "loop" /\ crashes' = crashes
           \/ crashes' = crashes + 1
        BY <1>12, EndStep DEF Ended
  <2>2. QED
        BY <1>0, <2>1
<1>13. QED
      BY <1>1, <1>2, <1>3, <1>4, <1>5, <1>6, <1>7, <1>8, <1>9, <1>10, <1>11, <1>12, QuietStep
      DEF Next, Person, Drain

\* Nothing reopens a settled write.
LEMMA SettledStays ==
    ASSUME TypeInv, Fresh, CopyFresh, [Next]_vars, NEW k \in Ids, Settled(k)
    PROVE  Settled(k)'
<1> USE DEF Settled
<1>0. count \in Nat
      BY DEF TypeInv, TypeOK
<1>1. effect[k] \subseteq effect'[k]
      BY EffectStep
<1>2. CASE outbox[k].state # "discarded"
      BY <1>1, <1>2
<1>3. CASE outbox[k].state = "discarded"
  <2>1. k <= count
        BY <1>0, <1>3 DEF Fresh, FreshAt
  <2>2. CASE UNCHANGED core
        BY <1>3, <2>2 DEF core
  <2>3. CASE QueueCreate \/ QueueUpdate
        BY <1>0, <1>3, <2>1, <2>3, QueueStep DEF QueueFacts
  <2>4. ASSUME NEW i \in Ids, Retry(i) \/ Discard(i) PROVE Settled(k)'
        BY <1>3, <2>4, ResolveStep DEF Attention
  <2>5. ASSUME NEW i \in Ids, Recover(i) PROVE Settled(k)'
        BY <1>3, <2>5, RecoverStep DEF CopyFresh, CopyFreshAt
  <2>6. ASSUME NEW i \in Ids, Begin(i) PROVE Settled(k)'
        BY <1>3, <2>6, BeginStep DEF CopyFresh, CopyFreshAt, InLoop, MayBegin, Visiting
  <2>7. CASE SaveOutcome
        BY <1>3, <2>7, SaveStep DEF CopyFresh, CopyFreshAt, Sending
  <2>8. CASE StartPass \/ LoadParents \/ FinishPass \/ Crash
        BY <1>3, <2>8, StartStep, LoadStep, EndStep
  <2>9. ASSUME NEW i \in Ids, PassOver(i) \/ RecordIdMapping(i) PROVE Settled(k)'
        BY <1>3, <2>9, RecordStep DEF PassOver, storeVars
  <2>10. CASE FindByName \/ SendFails \/ Replay \/ SendCreate \/ SendUpdate
         BY <1>3, <2>10, TalkStep
  <2>11. QED
         BY <2>2, <2>3, <2>4, <2>5, <2>6, <2>7, <2>8, <2>9, <2>10, QuietStep DEF Next, Person, Drain
<1>4. QED
      BY <1>2, <1>3

\* The pass's copy knows what is closed and blocks what is not.
LEMMA KnownNext ==
    ASSUME TypeInv, TypeInv', Fresh, CopyFresh, Remembered, Known, [Next]_vars
    PROVE  Known'
<1> SUFFICES ASSUME NEW k \in Ids PROVE KnownAt(k)'
    BY DEF Known
<1>0. count \in Nat /\ count <= MaxRecords
      BY DEF TypeInv, TypeOK
<1>k. /\ KnownAt(k)
      /\ Settled(k) => Settled(k)'
      BY SettledStays DEF Known
<1>s. outbox[k].state = "discarded" \/ effect[k] # {} => Settled(k)'
      BY SettledStays DEF Settled
<1> USE DEF KnownAt, InLoop, Sending
<1>1. CASE UNCHANGED core
      BY <1>0, <1>k, <1>1 DEF core, memVars
<1>2. CASE QueueCreate \/ QueueUpdate
  <2>1. CASE k = count + 1
    <3>1. mem'[k].state = "absent" /\ \A j \in Ids : mem'[j].state # "absent" => j < k
          BY <1>0, <1>2, <2>1, QueueStep DEF QueueFacts, Fresh, FreshAt
    <3>2. QED
          BY <3>1 DEF Terminal
  <2>2. CASE k # count + 1
        BY <1>k, <1>2, <2>2, QueueStep DEF QueueFacts
  <2>3. QED
        BY <2>1, <2>2
<1>3. ASSUME NEW i \in Ids, Retry(i) \/ Discard(i) PROVE KnownAt(k)'
  <2>1. /\ UNCHANGED <<pc, mem, todo, blocked, cur>>
        /\ outbox[i].state \in Open
        /\ k # i => outbox'[k] = outbox[k]
        BY <1>3, ResolveStep DEF Open
  <2>2. QED
        BY <1>k, <2>1
<1>4. CASE StartPass
  <2>1. /\ mem'[k].state = "absent" => outbox'[k].state \notin Open
        /\ mem'[k].state \notin Terminal /\ pc' = "recover"
        BY <1>4, StartStep DEF AbsentRow, OutboxRow, Open, Attention, Terminal
  <2>2. QED
        BY <2>1
<1>5. ASSUME NEW i \in Ids, Recover(i) PROVE KnownAt(k)'
  <2>1. CASE pc' = "idle"
        BY <2>1
  <2>2. CASE pc' # "idle"
    <3>1. /\ RecoverInFlight(mem[i]).state = "pending"
          /\ mem[i].state = "in_flight" /\ pc = "recover" /\ pc' = "recover"
          /\ mem'[i] = RecoverInFlight(mem[i])
          /\ \A j \in Ids : j # i => mem'[j] = mem[j] /\ outbox'[j] = outbox[j]
          BY <1>5, <2>2, RecoverStep DEF RecoverInFlight, OutboxRow
    <3>2. QED
          BY <1>k, <3>1 DEF Terminal
  <2>3. QED
        BY <2>1, <2>2
<1>6. CASE LoadParents
  <2>1. /\ pc = "recover" /\ pc' = "loop" /\ outbox' = outbox
        /\ todo' = {i \in Ids : mem'[i].state # "absent"}
        /\ \A i \in Ids : \/ mem'[i] = mem[i]
                          \/ /\ mem[i].state = "absent" /\ mem'[i] = outbox[i]
                             /\ \E j \in Ids : mem[j].state # "absent" /\ i < j
        BY <1>6, LoadStep DEF Fresh, FreshAt
  <2>2. mem'[k].state = "absent" /\ outbox'[k].state \in Open
          => \A j \in Ids : mem'[j].state # "absent" => j < k
        BY <1>k, <2>1 DEF Open
  <2>3. mem'[k].state \in Terminal => Settled(k)'
        BY <1>k, <1>s, <2>1 DEF Terminal, Settled, Remembered, RememberedAt
  <2>4. QED
        BY <2>1, <2>2, <2>3
<1>7. ASSUME NEW i \in Ids, PassOver(i) PROVE KnownAt(k)'
  <2>1. /\ UNCHANGED <<outbox, pc, mem, cur>> /\ pc = "loop"
        /\ todo' = todo \ {i}
        /\ mem[i].state \in Terminal \/ i \in blocked'
        /\ blocked \subseteq blocked'
        BY <1>7 DEF PassOver, Visiting, storeVars
  <2>2. QED
        BY <1>k, <2>1
<1>8. ASSUME NEW i \in Ids, Begin(i) PROVE KnownAt(k)'
  <2>1. /\ pc = "loop" /\ pc' \in {"loop", "find", "send"} /\ todo' = todo \ {i}
        /\ mem[i].state = "pending"
        /\ \A j \in Ids : j # i => mem'[j] = mem[j] /\ outbox'[j] = outbox[j]
        /\ pc' = "loop" => i \in blocked'
        /\ pc' # "loop" => cur' = i
        /\ blocked \subseteq blocked'
        BY <1>8, BeginStep DEF MayBegin
  <2>2. mem'[i].state # "absent" /\ mem'[i].state \notin Terminal
    <3>1. /\ BeginAttempt(mem[i]).state = "in_flight"
          /\ MarkFailed(BeginAttempt(mem[i]), "transient").state \in {"pending", "rejected"}
          BY DEF BeginAttempt, MarkFailed, FailedState, OutboxRow
    <3>2. QED
          BY <1>8, <3>1, BeginStep DEF Terminal
  <2>3. QED
        BY <1>k, <2>1, <2>2
<1>9. CASE FindByName \/ SendFails \/ Replay \/ SendCreate \/ SendUpdate
  <2>1. /\ UNCHANGED <<outbox, mem, todo, blocked, cur>>
        /\ pc \in {"find", "send"} /\ pc' \in {"send", "save"}
        BY <1>9, TalkStep
  <2>2. QED
        BY <1>k, <2>1
<1>10. CASE SaveOutcome
  <2>1. /\ UNCHANGED <<effect, todo>> /\ pc = "save" /\ pc' = "loop" /\ cur \in Ids
        /\ \A j \in Ids : j # cur => mem'[j] = mem[j] /\ outbox'[j] = outbox[j]
        /\ blocked \subseteq blocked'
        BY <1>10, SaveStep
  <2>2. /\ mem[cur].state = "in_flight" /\ mem'[cur].state # "absent"
        /\ \/ mem'[cur].state = "applied" /\ effect[cur] # {}
           \/ mem'[cur].state \notin Terminal /\ cur \in blocked'
    <3>1. /\ mem[cur].state = "in_flight"
          /\ result.kind = "ok" => effect[cur] # {}
          BY <2>1 DEF CopyFresh, CopyFreshAt, Remembered, RememberedAt
    <3>2. /\ MarkApplied(mem[cur]).state = "applied"
          /\ MarkFailed(mem[cur], result.kind).state \in {"pending", "conflicted", "rejected"}
          BY DEF MarkApplied, MarkFailed, FailedState, OutboxRow
    <3>3. \/ result.kind = "ok" /\ mem'[cur] = MarkApplied(mem[cur])
          \/ mem'[cur] = MarkFailed(mem[cur], result.kind) /\ cur \in blocked'
          BY <1>10, SaveStep
    <3>4. QED
          BY <3>1, <3>2, <3>3 DEF Terminal
  <2>3. QED
        BY <1>k, <2>1, <2>2 DEF Settled, Terminal
<1>11. ASSUME NEW i \in Ids, RecordIdMapping(i) PROVE KnownAt(k)'
  <2>1. pc' = "idle" \/ UNCHANGED <<outbox, pc, mem, todo, blocked, cur>>
        BY <1>11, RecordStep DEF Ended
  <2>2. QED
        BY <1>k, <2>1
<1>12. CASE FinishPass \/ Crash
  <2>1. pc' = "idle"
        BY <1>12, EndStep DEF Ended
  <2>2. QED
        BY <2>1
<1>13. QED
      BY <1>1, <1>2, <1>3, <1>4, <1>5, <1>6, <1>7, <1>8, <1>9, <1>10, <1>11, <1>12, QuietStep
      DEF Next, Person, Drain

\* The columns fixed when a write is queued stay fixed.
LEMMA WriteStays ==
    ASSUME TypeInv, [Next]_vars, NEW k \in Ids, k <= count
    PROVE  write'[k] = write[k]
<1>0. count \in Nat
      BY DEF TypeInv, TypeOK
<1>1. CASE UNCHANGED core
      BY <1>1 DEF core
<1>2. CASE QueueCreate \/ QueueUpdate
      BY <1>0, <1>2, QueueStep DEF QueueFacts
<1>3. ASSUME NEW i \in Ids, Retry(i) \/ Discard(i) PROVE write'[k] = write[k]
      BY <1>3, ResolveStep
<1>4. ASSUME NEW i \in Ids, Recover(i) \/ Begin(i) PROVE write'[k] = write[k]
      BY <1>4, RecoverStep, BeginStep
<1>5. ASSUME NEW i \in Ids, PassOver(i) \/ RecordIdMapping(i) PROVE write'[k] = write[k]
      BY <1>5, RecordStep DEF PassOver, storeVars
<1>6. CASE StartPass \/ LoadParents \/ SaveOutcome \/ FinishPass \/ Crash
      BY <1>6, StartStep, LoadStep, SaveStep, EndStep
<1>7. CASE FindByName \/ SendFails \/ Replay \/ SendCreate \/ SendUpdate
      BY <1>7, TalkStep
<1>8. QED
      BY <1>1, <1>2, <1>3, <1>4, <1>5, <1>6, <1>7, QuietStep DEF Next, Person, Drain

\* Only Begin starts sending a row; it goes out to the end before the next.
LEMMA SendingStep ==
    ASSUME TypeInv, [Next]_vars, Sending'
    PROVE  (Sending /\ cur' = cur) \/ (\E i \in Ids : Begin(i) /\ cur' = i)
<1> USE DEF Sending
<1>1. CASE UNCHANGED core
      BY <1>1 DEF core, memVars
<1>2. CASE QueueCreate \/ QueueUpdate
      BY <1>2, QueueStep DEF QueueFacts
<1>3. ASSUME NEW i \in Ids, Retry(i) \/ Discard(i) PROVE Sending /\ cur' = cur
      BY <1>3, ResolveStep
<1>4. ASSUME NEW i \in Ids, Recover(i) PROVE FALSE
      BY <1>4, RecoverStep
<1>5. ASSUME NEW i \in Ids, PassOver(i) \/ RecordIdMapping(i) PROVE FALSE
      BY <1>5, RecordStep DEF PassOver, Visiting, Ended
<1>6. ASSUME NEW i \in Ids, Begin(i) PROVE cur' = i
      BY <1>6, BeginStep
<1>7. CASE StartPass \/ LoadParents \/ SaveOutcome \/ FinishPass \/ Crash
      BY <1>7, StartStep, LoadStep, SaveStep, EndStep DEF Ended
<1>8. CASE FindByName \/ SendFails \/ Replay \/ SendCreate \/ SendUpdate
      BY <1>8, TalkStep
<1>9. QED
      BY <1>1, <1>2, <1>3, <1>4, <1>5, <1>6, <1>7, <1>8, QuietStep DEF Next, Person, Drain

\* A row is begun only when every earlier write to its entity is settled: one
\* the pass has not loaded is closed, and one it has loaded it went past.
LEMMA BeginSettled ==
    ASSUME TypeInv, Fresh, Remembered, Known, NEW i \in Ids, Begin(i),
           NEW j \in Earlier(i)
    PROVE  Settled(j)
<1>0. /\ j \in Ids /\ i \in Ids /\ j < i /\ SameEntity(j, i) /\ count \in Nat
      BY DEF Earlier, TypeInv, TypeOK
<1>1. /\ pc = "loop" /\ mem[i].state = "pending" /\ j \notin todo
      /\ ~EntityBlocked(i)
      BY <1>0, BeginStep DEF MayBegin, Visiting
<1>2. i <= count /\ j <= count
      BY <1>0, <1>1 DEF Fresh, FreshAt
<1>3. CASE mem[j].state = "absent"
  <2>1. outbox[j].state \notin Open
        BY <1>0, <1>1, <1>3 DEF Known, KnownAt
  <2>2. outbox[j].state \in States /\ outbox[j].state # "absent"
        BY <1>0, <1>2 DEF Fresh, FreshAt, TypeInv, TypeOK, Row
  <2>3. QED
        BY <1>0, <2>1, <2>2 DEF States, Terminal, Settled, Remembered, RememberedAt
<1>4. CASE mem[j].state # "absent"
  <2>1. mem[j].state \in Terminal \/ j \in blocked
        BY <1>0, <1>1, <1>4 DEF Known, KnownAt, InLoop, Sending
  <2>2. j \notin blocked
        BY <1>0, <1>1 DEF EntityBlocked, SameEntity
  <2>3. QED
        BY <1>0, <1>1, <2>1, <2>2 DEF Known, KnownAt
<1>5. QED
      BY <1>3, <1>4

\* Writes to one entity reach QBO in the order they were queued.
LEMMA OrderNext ==
    ASSUME TypeInv, Fresh, CopyFresh, Remembered, Known, Order, [Next]_vars
    PROVE  Order'
<1>0. count \in Nat
      BY DEF TypeInv, TypeOK
<1>1. ASSUME NEW i \in Ids, NEW j \in Ids, i < j, j <= count, SameEntity(i, j)'
      PROVE  i \in Earlier(j)
  <2>1. write'[i] = write[i] /\ write'[j] = write[j]
        BY <1>0, <1>1, WriteStays
  <2>2. QED
        BY <1>1, <2>1 DEF Earlier, SameEntity
<1>2. ASSUME Sending PROVE cur \in Ids /\ cur <= count
      BY <1>0, <1>2 DEF TypeInv, Fresh, FreshAt, CopyFresh, CopyFreshAt
<1>3. ASSUME NEW i \in Ids, NEW j \in Ids, i < j, SameEntity(i, j)', effect'[j] # {}
      PROVE  Settled(i)'
  <2>1. j <= count
        BY <1>0, <1>2, <1>3, EffectStep DEF Fresh, FreshAt
  <2>2. i \in Earlier(j)
        BY <1>1, <1>3, <2>1
  <2>3. CASE effect[j] # {}
        BY <1>3, <2>2, <2>3, SettledStays DEF Order, EntityOrder, Earlier, Settled
  <2>4. CASE effect[j] = {}
    <3>1. Sending /\ j = cur
          BY <1>3, <2>4, EffectStep
    <3>2. QED
          BY <2>2, <3>1, SettledStays DEF Order
  <2>5. QED
        BY <2>3, <2>4
<1>4. ASSUME Sending', NEW i \in Ids, i < cur', SameEntity(i, cur)'
      PROVE  Settled(i)'
  <2>1. CASE Sending /\ cur' = cur
        BY <1>1, <1>2, <1>4, <2>1, SettledStays DEF Order
  <2>2. ASSUME NEW b \in Ids, Begin(b), cur' = b PROVE Settled(i)'
    <3>1. b <= count
          BY <1>0, <2>2, BeginStep DEF MayBegin, Fresh, FreshAt
    <3>2. i \in Earlier(b)
          BY <1>1, <1>4, <2>2, <3>1
    <3>3. QED
          BY <2>2, <3>2, BeginSettled, SettledStays
  <2>3. QED
        BY <1>4, <2>1, <2>2, SendingStep
<1>5. EntityOrder'
      BY <1>3 DEF EntityOrder, Settled
<1>6. QED
      BY <1>4, <1>5 DEF Order, Earlier

-----------------------------------------------------------------------------
(* Layer 3: the invariant holds, and what follows from it. *)

LEMMA IInit == Init => IInv
<1> SUFFICES ASSUME Init PROVE IInv
    OBVIOUS
<1>1. TypeInv
      BY TypeInit
<1>2. \A i \in Ids : /\ write[i] = NoWrite /\ write[i].depends = None
                     /\ outbox[i].state = "absent" /\ outbox[i].attempts = 0
                     /\ mem[i].state = "absent" /\ effect[i] = {} /\ requestLog[i] = None
                     /\ idMap[i] = None /\ memMap[i] = None /\ i > None
      BY DEF Init, NoWrite, AbsentRow, OutboxRow
<1>3. count = 0 /\ pc = "idle" /\ crashes = 0 /\ ioErrors = 0
      BY DEF Init
<1>4. Fresh
      BY <1>2, <1>3 DEF Fresh, FreshAt
<1>5. CopyFresh /\ Remembered /\ Stale /\ Parents
      BY <1>2, <1>3 DEF CopyFresh, CopyFreshAt, InLoop, Sending, Remembered, RememberedAt,
                        Stale, StaleAt, Parents, ParentsAt
<1>6. Attempts
      BY <1>2, <1>3, AttemptsAssumption DEF Attempts, AttemptsAt, Faults
<1>7. Known /\ Order
      BY <1>2, <1>3 DEF Known, KnownAt, InLoop, Sending, Terminal, Order, EntityOrder
<1>8. QED
      BY <1>1, <1>4, <1>5, <1>6, <1>7 DEF IInv

LEMMA INext == IInv /\ [Next]_vars => IInv'
<1> SUFFICES ASSUME IInv, [Next]_vars PROVE IInv'
    OBVIOUS
<1> USE DEF IInv
<1>1. TypeInv'
      BY TypeNext
<1>2. Fresh' /\ CopyFresh'
      BY <1>1, FreshNext, CopyFreshNext
<1>3. Remembered' /\ Stale' /\ Parents'
      BY <1>1, RememberedNext, StaleNext, ParentsNext
<1>4. Attempts' /\ Known' /\ Order'
      BY <1>1, AttemptsNext, KnownNext, OrderNext
<1>5. QED
      BY <1>1, <1>2, <1>3, <1>4

LEMMA Invariance == Spec => []IInv
BY IInit, INext, PTL DEF Spec

\* drain_with and drain_once: a row is saved as applied only once QBO holds
\* the write.
THEOREM AppliedCorrect == Spec => []AppliedHasLanded
<1>1. IInv => AppliedHasLanded
      BY DEF IInv, Remembered, RememberedAt, AppliedHasLanded
<1>2. QED
      BY <1>1, Invariance, PTL

\* record_id_mapping: the id map only ever names a write's own record.
THEOREM MappingCorrect == Spec => []MappingFaithful
<1>1. IInv => MappingFaithful
      BY DEF IInv, Remembered, RememberedAt, MappingFaithful
<1>2. QED
      BY <1>1, Invariance, PTL

\* rewrite_local_ids: no write reaches QBO before all that it refers to.
THEOREM ParentsCorrect == Spec => []ParentsFirst
<1>1. IInv => ParentsFirst
      BY DEF IInv, Parents, ParentsAt, ParentsFirst
<1>2. QED
      BY <1>1, Invariance, PTL

\* blocked_entities: writes to one entity land in queueing order.
THEOREM OrderCorrect == Spec => []EntityOrder
<1>1. IInv => EntityOrder
      BY DEF IInv, Order
<1>2. QED
      BY <1>1, Invariance, PTL

\* A resent update is answered from the request log, never refused as stale.
THEOREM ConflictCorrect == Spec => []ConflictHasNotLanded
<1>1. IInv => ConflictHasNotLanded
      BY DEF IInv, Stale, StaleAt, ConflictHasNotLanded
<1>2. QED
      BY <1>1, Invariance, PTL

\* mark_failed stops retrying at MAX_ATTEMPTS, but for faults.
THEOREM AttemptsCorrect == Spec => []AttemptsBounded
<1>1. ASSUME IInv PROVE AttemptsBounded
  <2>1. \A i \in Ids : outbox[i].attempts <= MAX_ATTEMPTS + (crashes + ioErrors)
        BY <1>1 DEF IInv, Attempts, AttemptsAt, Faults
  <2>2. crashes \in Nat /\ ioErrors \in Nat /\ MAX_ATTEMPTS \in Nat
        BY <1>1, AttemptsAssumption DEF IInv, TypeInv, TypeOK
  <2>3. QED
        BY <2>1, <2>2 DEF AttemptsBounded
<1>2. QED
      BY <1>1, Invariance, PTL

\* The marker is durable: QBO acts for a write only while its saved row says
\* in_flight.
THEOREM SendingIsMarked == Spec => SentOnlyInFlight
<1>1. ASSUME IInv, [Next]_vars
      PROVE  [\A i \in Ids : effect'[i] # effect[i] => outbox[i].state = "in_flight"]_vars
      BY <1>1, EffectStep DEF IInv, CopyFresh, CopyFreshAt
<1>2. QED
      BY <1>1, Invariance, PTL DEF Spec, SentOnlyInFlight

\* No save, from however old a copy, moves a row against can_transition_to.
THEOREM TransitionsCorrect == Spec => SavedTransitionsAreLegal
<1>1. ASSUME IInv, [Next]_vars, NEW k \in Ids, outbox'[k].state # outbox[k].state,
             outbox[k].state # "absent"
      PROVE  CanTransition(outbox[k].state, outbox'[k].state)
  <2> USE DEF IInv
  <2>1. CASE UNCHANGED core
        BY <1>1, <2>1 DEF core
  <2>2. CASE QueueCreate \/ QueueUpdate
    <3>1. QueueFacts
          BY <1>1, <2>2, QueueStep
    <3>2. outbox[count + 1].state = "absent"
      <4>1. count + 1 \in Ids /\ count + 1 > count
            BY <1>1, <3>1 DEF QueueFacts, TypeInv, TypeOK
      <4>2. FreshAt(count + 1)
            BY <1>1, <4>1 DEF Fresh
      <4>3. QED
            BY <4>1, <4>2 DEF FreshAt
    <3>3. QED
          BY <1>1, <3>1, <3>2 DEF QueueFacts
  <2>3. ASSUME NEW i \in Ids, Retry(i) \/ Discard(i)
        PROVE  CanTransition(outbox[k].state, outbox'[k].state)
        BY <1>1, <2>3, ResolveStep DEF CanTransition
  <2>4. ASSUME NEW i \in Ids, Recover(i)
        PROVE  CanTransition(outbox[k].state, outbox'[k].state)
    <3>1. RecoverInFlight(mem[i]).state = "pending"
          BY DEF RecoverInFlight, OutboxRow
    <3>2. QED
          BY <1>1, <2>4, <3>1, RecoverStep DEF CanTransition, CopyFresh, CopyFreshAt
  <2>5. ASSUME NEW i \in Ids, Begin(i)
        PROVE  CanTransition(outbox[k].state, outbox'[k].state)
    <3>1. BeginAttempt(mem[i]).state = "in_flight"
          BY DEF BeginAttempt, OutboxRow
    <3>2. outbox[i].state = "pending"
          BY <1>1, <2>5, BeginStep DEF CopyFresh, CopyFreshAt, InLoop, MayBegin, Visiting
    <3>3. QED
          BY <1>1, <2>5, <3>1, <3>2, BeginStep DEF CanTransition
  <2>6. CASE SaveOutcome
    <3>1. /\ MarkApplied(mem[cur]).state = "applied"
          /\ MarkFailed(mem[cur], result.kind).state \in {"pending", "conflicted", "rejected"}
          BY DEF MarkApplied, MarkFailed, FailedState, OutboxRow
    <3>2. outbox[cur].state = "in_flight"
          BY <1>1, <2>6, SaveStep DEF CopyFresh, CopyFreshAt, Sending
    <3>3. QED
          BY <1>1, <2>6, <3>1, <3>2, SaveStep DEF CanTransition, Attention
  <2>7. CASE StartPass \/ LoadParents \/ FinishPass \/ Crash
        BY <1>1, <2>7, StartStep, LoadStep, EndStep
  <2>8. ASSUME NEW i \in Ids, PassOver(i) \/ RecordIdMapping(i)
        PROVE  CanTransition(outbox[k].state, outbox'[k].state)
        BY <1>1, <2>8, RecordStep DEF PassOver, storeVars
  <2>9. CASE FindByName \/ SendFails \/ Replay \/ SendCreate \/ SendUpdate
        BY <1>1, <2>9, TalkStep
  <2>10. QED
         BY <1>1, <2>1, <2>2, <2>3, <2>4, <2>5, <2>6, <2>7, <2>8, <2>9, QuietStep
         DEF Next, Person, Drain
<1>2. ASSUME IInv, [Next]_vars
      PROVE  [\A i \in Ids : outbox'[i].state # outbox[i].state /\ outbox[i].state # "absent"
                => CanTransition(outbox[i].state, outbox'[i].state)]_vars
      BY <1>1, <1>2
<1>3. QED
      BY <1>2, Invariance, PTL DEF Spec, SavedTransitionsAreLegal

-----------------------------------------------------------------------------
(* One record per write, while nobody renames a master: the effects of a   *)
(* master all carry its name, and names are unique.                        *)

Master(i) == write[i].op = "create" /\ write[i].name # NoName

SingleAt(i) ==
    /\ write[i].op = "update" => effect[i] \subseteq {write[i].entity}
    /\ Master(i) => \A q \in effect[i] : q <= held /\ names[q] = write[i].name
    /\ write[i].op = "create" /\ ~Master(i) => effect[i] = {} \/ effect[i] = {requestLog[i]}
    /\ effect[i] # {} => write[i].op # "none"
    /\ requestLog[i] = None /\ effect[i] # {} => Master(i)
    /\ pc = "find" /\ i = cur => Master(i)
Single == \A i \in Ids : SingleAt(i)

NamesUnique == \A p, q \in 1 .. held : names[p] = names[q] /\ names[p] # NoName => p = q

SInv == IInv /\ Single /\ NamesUnique

\* Only web creates, adoptions and sends change what this argument is about.
LEMMA SingleQuiet ==
    ASSUME IInv, [Next]_vars
    PROVE  \/ /\ UNCHANGED <<names, held, effect, requestLog>>
              /\ write' = write \/ (QueueCreate \/ QueueUpdate)
              /\ pc' = "find" => \/ pc = "find" /\ cur' = cur
                                 \/ Master(cur') /\ write' = write
           \/ WebCreate \/ (\E q \in QboIds : WebRename(q))
           \/ FindByName \/ SendCreate \/ SendUpdate
<1> USE DEF IInv
<1>1. CASE Person
  <2>1. CASE QueueCreate \/ QueueUpdate
        BY <2>1 DEF QueueCreate, QueueUpdate, Queue, qboVars, memVars
  <2>2. QED
        BY <1>1, <2>1 DEF Person, SetWriteEnabled, Retry, Discard, SaveResolved, qboVars, memVars
<1>2. CASE Web
      BY <1>2 DEF Web, WebEdit, Sync, storeVars, qboVars, memVars
<1>3. ASSUME NEW i \in Ids, Begin(i)
      PROVE  /\ UNCHANGED <<names, held, effect, requestLog, write>>
             /\ pc' = "find" => Master(cur')
      BY <1>3 DEF Begin, Visiting, NeedsQueryBeforeCreate, Master, qboVars
<1>4. CASE Drain
      BY <1>3, <1>4 DEF Drain, StartPass, LoadParents, SendFails, Replay, SaveOutcome, FinishPass,
                        Recover, PassOver, RecordIdMapping, Outcome, Answer, storeVars, qboVars
<1>5. CASE Crash
      BY <1>5 DEF Crash, storeVars, qboVars
<1>6. CASE UNCHANGED vars
      BY <1>6 DEF vars, storeVars, qboVars, memVars
<1>7. QED
      BY <1>1, <1>2, <1>4, <1>5, <1>6 DEF Next

LEMMA SingleNext ==
    ASSUME renames = 0, renames' = 0, SInv, [Next]_vars
    PROVE  Single' /\ NamesUnique'
<1>0. /\ held \in Nat /\ names \in [QboIds -> Names \cup {NoName}] /\ held <= MaxQboId
      /\ effect \in [Ids -> SUBSET QboIds] /\ requestLog \in [Ids -> {None} \cup QboIds]
      /\ write \in [Ids -> Write] /\ MaxQboId \in Nat
      BY BoundsAssumption DEF SInv, IInv, TypeInv, TypeOK
<1>1. TypeInv
      BY DEF SInv, IInv
<1>2. CASE /\ UNCHANGED <<names, held, effect, requestLog>>
           /\ write' = write
           /\ pc' = "find" => (pc = "find" /\ cur' = cur) \/ Master(cur')
      BY <1>2 DEF SInv, Single, SingleAt, NamesUnique, Master
<1>3. CASE QueueCreate \/ QueueUpdate
  <2>1. /\ UNCHANGED <<names, held, effect, requestLog, pc, cur>>
        /\ \A i \in Ids : i # count + 1 => write'[i] = write[i]
        /\ effect[count + 1] = {} /\ (pc = "find" => cur # count + 1) /\ count + 1 \in Ids
    <3>1. UNCHANGED <<names, held, effect, requestLog, pc, cur>>
          BY <1>3 DEF QueueCreate, QueueUpdate, Queue, qboVars, memVars
    <3>2. count \in Nat /\ Fresh /\ CopyFresh
          BY DEF SInv, IInv, TypeInv, TypeOK
    <3>3. QED
          BY <1>1, <1>3, <3>1, <3>2, QueueStep
          DEF QueueFacts, Fresh, FreshAt, CopyFresh, CopyFreshAt, Sending
  <2>2. QED
        BY <2>1 DEF SInv, Single, SingleAt, NamesUnique, Master
<1>a. ASSUME NEW name, NameFree(name), held' = held + 1, held < MaxQboId,
             names' = [names EXCEPT ![held + 1] = name]
      PROVE  /\ NamesUnique'
             /\ names'[held + 1] = name
             /\ \A q \in QboIds : q <= held => names'[q] = names[q]
      BY <1>0, <1>a DEF SInv, NamesUnique, NameFree
<1>4. CASE WebCreate
  <2>1. PICK name : /\ NameFree(name) /\ held' = held + 1 /\ held < MaxQboId
                    /\ names' = [names EXCEPT ![held + 1] = name]
        BY <1>4 DEF WebCreate
  <2>2. UNCHANGED <<write, effect, requestLog, pc, cur>>
        BY <1>4 DEF WebCreate, storeVars, memVars
  <2>3. /\ NamesUnique'
        /\ \A q \in QboIds : q <= held => names'[q] = names[q]
        BY <1>a, <2>1
  <2>4. ASSUME NEW i \in Ids PROVE SingleAt(i)'
    <3>1. SingleAt(i) /\ effect[i] \subseteq QboIds
          BY <1>0 DEF SInv, Single
    <3>2. Master(i) => \A q \in effect[i] : q <= held' /\ names'[q] = names[q]
          BY <1>0, <2>1, <2>3, <3>1 DEF SingleAt
    <3>3. QED
          BY <2>2, <3>1, <3>2 DEF SingleAt, Master
  <2>5. QED
        BY <2>3, <2>4 DEF Single
<1>5. ASSUME NEW q \in QboIds, WebRename(q) PROVE FALSE
      BY <1>5 DEF WebRename, SInv, IInv, TypeInv, TypeOK
<1>6. CASE FindByName
  <2>1. /\ UNCHANGED <<write, names, held, requestLog, cur>> /\ pc' # "find" /\ cur \in Ids
        /\ Master(cur)
        BY <1>1, <1>6, TalkStep DEF FindByName, Outcome, SInv, Single, SingleAt, storeVars
  <2>2. \/ effect' = effect
        \/ \E q \in 1 .. held : /\ names[q] = write[cur].name
                                /\ effect' = [effect EXCEPT ![cur] = @ \cup {q}]
        BY <1>6 DEF FindByName
  <2>3. NamesUnique' /\ \A i \in Ids : i # cur => effect'[i] = effect[i]
        BY <1>0, <2>1, <2>2 DEF SInv, NamesUnique
  <2>4. \/ effect'[cur] = effect[cur]
        \/ \E q \in 1 .. held : /\ names[q] = write[cur].name
                                /\ effect'[cur] = effect[cur] \cup {q}
        BY <1>0, <2>1, <2>2
  <2>5. SingleAt(cur)'
        BY <1>0, <2>1, <2>4 DEF SInv, Single, SingleAt, Master
  <2>6. ASSUME NEW i \in Ids, i # cur PROVE SingleAt(i)'
        BY <2>1, <2>3, <2>6 DEF SInv, Single, SingleAt, Master
  <2>7. QED
        BY <2>1, <2>3, <2>5, <2>6 DEF Single
<1>7. CASE SendCreate
  <2>1. /\ UNCHANGED <<write, cur>> /\ pc' # "find" /\ cur \in Ids
        /\ write[cur].op = "create" /\ requestLog[cur] = None
        BY <1>1, <1>7, TalkStep DEF SendCreate
  <2>2. CASE UNCHANGED <<names, held, effect, requestLog>>
        BY <2>1, <2>2 DEF SInv, Single, SingleAt, Master, NamesUnique
  <2>3. CASE /\ NameFree(write[cur].name) /\ held < MaxQboId /\ held' = held + 1
             /\ names' = [names EXCEPT ![held + 1] = write[cur].name]
             /\ effect' = [effect EXCEPT ![cur] = @ \cup {held + 1}]
             /\ requestLog' = IF Master(cur) THEN requestLog
                              ELSE [requestLog EXCEPT ![cur] = held + 1]
    <3>1. /\ effect'[cur] = effect[cur] \cup {held + 1}
          /\ \A i \in Ids : i # cur => effect'[i] = effect[i] /\ requestLog'[i] = requestLog[i]
          /\ Master(cur) => requestLog'[cur] = None
          /\ ~Master(cur) => requestLog'[cur] = held + 1 /\ effect[cur] = {}
          BY <1>0, <2>1, <2>3 DEF SInv, Single, SingleAt
    <3>2. /\ NamesUnique'
          /\ names'[held + 1] = write[cur].name
          /\ \A q \in QboIds : q <= held => names'[q] = names[q]
          BY <1>a, <2>3
    <3>3. ASSUME NEW i \in Ids, i # cur PROVE SingleAt(i)'
      <4>1. UNCHANGED <<write[i], effect[i], requestLog[i]>> /\ effect[i] \subseteq QboIds
            BY <1>0, <2>1, <3>1, <3>3
      <4>2. SingleAt(i)
            BY DEF SInv, Single
      <4>3. held' = held + 1 /\ held \in Nat
            BY <1>0, <2>3
      <4>4. QED
            BY <2>1, <3>2, <4>1, <4>2, <4>3 DEF SingleAt, Master
    <3>4. SingleAt(cur)'
          BY <1>0, <2>1, <2>3, <3>1, <3>2 DEF SInv, Single, SingleAt, Master
    <3>5. QED
          BY <2>1, <3>2, <3>3, <3>4 DEF Single
  <2>4. QED
        BY <1>7, <2>1, <2>2, <2>3 DEF SendCreate, NeedsQueryBeforeCreate, Master
<1>8. CASE SendUpdate
  <2>1. /\ UNCHANGED <<write, cur, names, held>> /\ pc' # "find" /\ cur \in Ids
        /\ write[cur].op = "update" /\ requestLog[cur] = None
        BY <1>1, <1>8, TalkStep DEF SendUpdate
  <2>2. CASE UNCHANGED <<effect, requestLog>>
        BY <2>1, <2>2 DEF SInv, Single, SingleAt, Master, NamesUnique
  <2>3. CASE /\ effect' = [effect EXCEPT ![cur] = @ \cup {write[cur].entity}]
             /\ requestLog' = [requestLog EXCEPT ![cur] = write[cur].entity]
    <3>1. PICK q \in QboIds : q = write[cur].entity
          BY <1>1, <2>1 DEF TypeInv
    <3>2. /\ effect'[cur] = effect[cur] \cup {q} /\ requestLog'[cur] = q
          /\ \A i \in Ids : i # cur => effect'[i] = effect[i] /\ requestLog'[i] = requestLog[i]
          BY <1>0, <2>1, <2>3, <3>1
    <3>4. SingleAt(cur)'
          BY <1>0, <2>1, <3>1, <3>2 DEF SInv, Single, SingleAt, Master
    <3>5. ASSUME NEW i \in Ids, i # cur PROVE SingleAt(i)'
          BY <2>1, <3>2, <3>5 DEF SInv, Single, SingleAt, Master
    <3>6. NamesUnique'
          BY <2>1 DEF SInv, NamesUnique
    <3>7. QED
          BY <2>1, <3>4, <3>5, <3>6 DEF Single
  <2>4. QED
        BY <1>8, <2>2, <2>3 DEF SendUpdate
<1>9. QED
      BY <1>2, <1>3, <1>4, <1>5, <1>6, <1>7, <1>8, SingleQuiet DEF SInv

\* A rename is counted once and for all.
LEMMA RenamesStay ==
    ASSUME IInv, [Next]_vars
    PROVE  renames' = renames \/ renames' = renames + 1
<1>1. CASE Person
      BY <1>1 DEF Person, QueueCreate, QueueUpdate, Queue, SetWriteEnabled, Retry, Discard, SaveResolved,
                  faultVars
<1>2. CASE Web
      BY <1>2 DEF Web, WebCreate, WebEdit, WebRename, Sync, faultVars
<1>3. CASE Drain
      BY <1>3 DEF Drain, StartPass, LoadParents, FindByName, SendFails, Replay, SendCreate, SendUpdate,
                  SaveOutcome, FinishPass, Recover, PassOver, Begin, RecordIdMapping, Outcome, Answer,
                  faultVars
<1>4. CASE Crash
      BY <1>4 DEF Crash
<1>5. CASE UNCHANGED vars
      BY <1>5 DEF vars, faultVars
<1>6. QED
      BY <1>1, <1>2, <1>3, <1>4, <1>5 DEF Next

\* What holds until a master is renamed.
RInv == IInv /\ (renames = 0 => Single /\ NamesUnique)

\* Queueing, retries, replays, recoveries and crashes never make a second
\* record for one write while no master is renamed: RequestIds for documents
\* and updates, the query before the create for masters.
THEOREM OneRecordCorrect == Spec => []OneRecordPerWrite
<1>1. Init => RInv
      BY IInit DEF Init, RInv, Single, SingleAt, NamesUnique, Master, NoWrite
<1>2. ASSUME RInv, [Next]_vars PROVE RInv'
  <2>1. IInv'
        BY <1>2, INext DEF RInv
  <2>2. ASSUME renames' = 0 PROVE (Single /\ NamesUnique)'
    <3>1. renames = 0
          BY <1>2, <2>2, RenamesStay DEF RInv, IInv, TypeInv, TypeOK
    <3>2. QED
          BY <1>2, <2>2, <3>1, SingleNext DEF RInv, SInv
  <2>3. QED
        BY <2>1, <2>2 DEF RInv
<1>4. ASSUME SInv PROVE \A i \in Ids : \A p, q \in effect[i] : p = q
  <2>1. ASSUME NEW i \in Ids, NEW p \in effect[i], NEW q \in effect[i] PROVE p = q
    <3>1. SingleAt(i) /\ effect[i] \subseteq QboIds /\ held \in Nat
          BY <1>4 DEF SInv, Single, IInv, TypeInv, TypeOK
    <3>2. write[i].op \in {"create", "update"}
      <4>1. \A w \in Write : w.op \in {"none", "create", "update"}
            BY DEF Write
      <4>2. write[i] \in Write
            BY <1>4 DEF SInv, IInv, TypeInv, TypeOK
      <4>3. QED
            BY <2>1, <3>1, <4>1, <4>2 DEF SingleAt
    <3>3. CASE Master(i)
          BY <1>4, <2>1, <3>1, <3>3 DEF SInv, SingleAt, NamesUnique, Master
    <3>4. CASE ~Master(i)
          BY <2>1, <3>1, <3>2, <3>4 DEF SingleAt
    <3>5. QED
          BY <3>3, <3>4
  <2>2. QED
        BY <2>1
<1>5. ASSUME RInv PROVE OneRecordPerWrite
      BY <1>4, <1>5 DEF RInv, SInv, OneRecordPerWrite
<1>6. QED
      BY <1>1, <1>2, <1>5, PTL DEF Spec
=============================================================================
