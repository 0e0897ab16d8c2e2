------------------------------- MODULE Outbox -------------------------------
(***************************************************************************)
(* The write path of qbo-local: a change is queued as one row of the       *)
(* outbox table, and a drain pass later sends it to QuickBooks Online      *)
(* (QBO).  Three parties act:                                              *)
(*                                                                         *)
(*   - a person, through the app: queue a create or an update, retry or    *)
(*     discard a failed write, switch writes on and off (writes.rs);       *)
(*   - the drain pass, a sequential program that works on a copy of the    *)
(*     rows it loaded, saves one row at a time, talks to QBO over a        *)
(*     network that can lose the request or the answer, and can be killed  *)
(*     between any two steps (writes.rs, worker.rs);                       *)
(*   - QBO's own web UI, where other people create, edit and rename        *)
(*     records, and the sync that mirrors their versions into the replica. *)
(*                                                                         *)
(* A write is named by its outbox id; ids are UUIDv7 and sort in creation  *)
(* order, so here they are 1, 2, ... in the order of queueing.  A create   *)
(* mints one local id and one RequestId of its own: both are named by the  *)
(* write's id too.  A "master" is a Customer or an Item, which QBO keys by *)
(* a unique name and does not deduplicate by RequestId; every other type   *)
(* is a "document" and carries NoName.                                     *)
(***************************************************************************)
EXTENDS Integers

CONSTANTS
    MAX_ATTEMPTS,   \* attempts after which a transient failure is final
    Names,          \* the names masters can carry
    NoName,         \* a document's name
    Operations, \* the operations people queue: "create", "update" or both
    TickGated,      \* TRUE: passes run from DemoQbo::tick, only if a row is due
    Mirrored,       \* bound: the records whose versions sync brings in
    MaxRecords,     \* bound: writes ever queued
    MaxQboId,       \* bound: records QBO ever holds
    MaxToken,       \* bound: the highest SyncToken
    MaxCrashes,     \* bound: times the draining process is killed
    MaxIoErrors,    \* bound: store writes of the pass that fail
    MaxRenames      \* bound: masters renamed in QBO's web UI

ASSUME AttemptsAssumption == MAX_ATTEMPTS \in Nat \ {0}
ASSUME NamesAssumption == NoName \notin Names
ASSUME OperationsAssumption == Operations \subseteq {"create", "update"}
ASSUME GateAssumption == TickGated \in BOOLEAN
ASSUME BoundsAssumption ==
    /\ Mirrored \subseteq Nat
    /\ MaxRecords \in Nat /\ MaxQboId \in Nat /\ MaxToken \in Nat
    /\ MaxCrashes \in Nat /\ MaxIoErrors \in Nat /\ MaxRenames \in Nat

None == 0
Ids == 1 .. MaxRecords
QboIds == 1 .. MaxQboId
NotMirrored == -1

VARIABLES
    \* the replica's SQLite file
    write,      \* the columns of an outbox row fixed when it is queued
    outbox,     \* the columns save_outbox_state rewrites
    count,      \* how many writes have been queued
    idMap,      \* table local_id_map: a create's local id -> QBO id
    replica,    \* SyncToken the mirrored copy of a record carries
    writesOn,   \* realms.is_write_enabled
    \* QBO
    names,      \* name of each record (NoName for a document)
    tokens,     \* SyncToken of each record
    held,       \* how many records QBO holds; they are 1 .. held
    requestLog, \* RequestId -> record it answered with
    effect,     \* history: records a write created, changed or adopted
    \* memory of the draining process
    pc,         \* where the pass is
    mem,        \* its copy of the rows
    memMap,     \* the Drainer's id_map
    todo,       \* loaded rows the loop has still to visit
    blocked,    \* rows whose entity may not be written any more this pass
    landed,     \* creates applied this pass, mapping not yet saved
    cur,        \* the row being sent
    result,     \* the outcome of its request
    \* bounds
    crashes, ioErrors, renames

storeVars  == <<write, outbox, count, idMap, replica, writesOn>>
qboVars    == <<names, tokens, held, requestLog, effect>>
memVars    == <<mem, memMap, todo, blocked, landed, cur, result>>
faultVars  == <<crashes, ioErrors, renames>>
vars == <<storeVars, qboVars, pc, memVars, faultVars>>

-----------------------------------------------------------------------------
(* OutboxState, DrainFailure and the record's own transitions (outbox.rs). *)

Terminal  == {"applied", "discarded"}
Attention == {"conflicted", "rejected"}
Open      == {"pending", "in_flight"} \cup Attention
States    == {"absent"} \cup Open \cup Terminal

CanTransition(from, to) ==
    \/ from = "pending"   /\ to = "in_flight"
    \/ from = "in_flight" /\ to \in {"pending", "applied"} \cup Attention
    \/ from \in Attention /\ to \in {"pending", "discarded"}

Failures == {"transient", "stale", "refused", "duplicate"}

OutboxRow(state, attempts, base) == [state |-> state, attempts |-> attempts, base |-> base]

AbsentRow == OutboxRow("absent", 0, 0)
NoWrite   == [op |-> "none", name |-> NoName, refs |-> {}, entity |-> None, depends |-> None]

NewRow(base) == OutboxRow("pending", 0, base)

\* Mutation: an attempt is counted but its row is not marked.
BeginUnmarked(row) == OutboxRow("pending", row.attempts + 1, row.base)

BeginAttempt(row) == OutboxRow("in_flight", row.attempts + 1, row.base)

MarkApplied(row) == OutboxRow("applied", row.attempts, row.base)

\* Mutations: one attempt too many; a duplicate name taken for success.
FailedStateLate(row, failure) ==
    IF failure = "transient" /\ row.attempts <= MAX_ATTEMPTS THEN "pending"
    ELSE IF failure = "stale" THEN "conflicted" ELSE "rejected"
FailedStateApplied(row, failure) ==
    IF failure = "transient" /\ row.attempts < MAX_ATTEMPTS THEN "pending"
    ELSE IF failure = "stale" THEN "conflicted"
    ELSE IF failure = "duplicate" THEN "applied" ELSE "rejected"

FailedState(row, failure) ==
    IF failure = "transient" /\ row.attempts < MAX_ATTEMPTS THEN "pending"
    ELSE IF failure = "stale" THEN "conflicted" ELSE "rejected"

MarkFailed(row, failure) == OutboxRow(FailedState(row, failure), row.attempts, row.base)

RecoverInFlight(row) == OutboxRow("pending", row.attempts, row.base)

ResolveRow(base) == OutboxRow("pending", 0, base)

DiscardRow(row) == OutboxRow("discarded", row.attempts, row.base)

NeedsQueryBeforeCreate(i) == write[i].op = "create" /\ write[i].name # NoName

-----------------------------------------------------------------------------
(* Initially the book is empty, nothing is queued and no pass runs. *)

ResetMemory ==
    /\ mem' = [i \in Ids |-> AbsentRow]
    /\ memMap' = [i \in Ids |-> None]
    /\ todo' = {} /\ blocked' = {} /\ landed' = {}
    /\ cur' = None
    /\ result' = [kind |-> "none", id |-> None]

Init ==
    /\ write = [i \in Ids |-> NoWrite]
    /\ outbox = [i \in Ids |-> AbsentRow]
    /\ count = 0
    /\ idMap = [i \in Ids |-> None]
    /\ replica = [q \in QboIds |-> NotMirrored]
    /\ writesOn = FALSE
    /\ names = [q \in QboIds |-> NoName]
    /\ tokens = [q \in QboIds |-> 0]
    /\ held = 0
    /\ requestLog = [i \in Ids |-> None]
    /\ effect = [i \in Ids |-> {}]
    /\ pc = "idle"
    /\ mem = [i \in Ids |-> AbsentRow]
    /\ memMap = [i \in Ids |-> None]
    /\ todo = {} /\ blocked = {} /\ landed = {}
    /\ cur = None
    /\ result = [kind |-> "none", id |-> None]
    /\ crashes = 0 /\ ioErrors = 0 /\ renames = 0

-----------------------------------------------------------------------------
(* The person at the app (writes.rs). *)

\* parent_of: a local id must have become a QBO id or still be queued.
Referable(r) == /\ write[r].op = "create"
                /\ idMap[r] # None \/ outbox[r].state \in Open

\* depends_on is the parent of the last unresolved reference; local ids sort
\* like outbox ids.
DependsOn(refs, parent) ==
    LET unresolved == {r \in refs : idMap[r] = None}
    IN  \/ unresolved = {} /\ parent = None
        \/ parent \in unresolved /\ \A r \in unresolved : r <= parent

Queue(op, name, entity, refs, base) ==
    /\ op \in Operations
    /\ writesOn
    /\ count < MaxRecords
    /\ \A r \in refs : Referable(r)
    /\ count' = count + 1
    /\ \E parent \in {None} \cup Ids :
         /\ DependsOn(refs, parent)
         /\ write' = [write EXCEPT ![count + 1] =
                        [op |-> op, name |-> name, refs |-> refs,
                         entity |-> entity, depends |-> parent]]
    /\ outbox' = [outbox EXCEPT ![count + 1] = NewRow(base)]
    /\ UNCHANGED <<idMap, replica, writesOn, qboVars, pc, memVars, faultVars>>

QueueCreate == \E name \in Names \cup {NoName}, refs \in SUBSET Ids :
    Queue("create", name, None, refs, 0)

QueueUpdate == \E q \in QboIds, refs \in SUBSET Ids :
    /\ replica[q] # NotMirrored
    /\ Queue("update", NoName, q, refs, replica[q])

SaveResolved(i, row) ==
    /\ CanTransition(outbox[i].state, row.state)
    /\ outbox' = [outbox EXCEPT ![i] = row]
    /\ UNCHANGED <<write, count, idMap, replica, writesOn, qboVars, pc, memVars, faultVars>>

\* Retrying a conflicted update re-bases it on the version the replica holds
\* now, and is refused while that is still the version it was based on.
RebasedOn(i) ==
    IF outbox[i].state = "conflicted" /\ write[i].op = "update"
    THEN replica[write[i].entity]
    ELSE outbox[i].base

Retry(i) ==
    /\ writesOn
    /\ outbox[i].state \in Attention
    /\ outbox[i].state = "conflicted" /\ write[i].op = "update"
         => replica[write[i].entity] \notin {NotMirrored, outbox[i].base}
    /\ SaveResolved(i, ResolveRow(RebasedOn(i)))

Discard(i) ==
    /\ outbox[i].state \in Attention
    /\ SaveResolved(i, DiscardRow(outbox[i]))

SetWriteEnabled ==
    /\ writesOn' = ~writesOn
    /\ UNCHANGED <<write, outbox, count, idMap, replica, qboVars, pc, memVars, faultVars>>

-----------------------------------------------------------------------------
(* QBO's web UI, and the sync that mirrors it. *)

NameFree(name) == name = NoName \/ \A q \in 1 .. held : names[q] # name

WebCreate == \E name \in Names \cup {NoName} :
    /\ held < MaxQboId
    /\ NameFree(name)
    /\ held' = held + 1
    /\ names' = [names EXCEPT ![held + 1] = name]
    /\ UNCHANGED <<tokens, requestLog, effect, storeVars, pc, memVars, faultVars>>

WebEdit(q) ==
    /\ q <= held /\ tokens[q] < MaxToken
    /\ tokens' = [tokens EXCEPT ![q] = @ + 1]
    /\ UNCHANGED <<names, held, requestLog, effect, storeVars, pc, memVars, faultVars>>

WebRename(q) == \E name \in Names :
    /\ q <= held /\ names[q] # NoName /\ tokens[q] < MaxToken
    /\ NameFree(name)
    /\ renames < MaxRenames /\ renames' = renames + 1
    /\ names' = [names EXCEPT ![q] = name]
    /\ tokens' = [tokens EXCEPT ![q] = @ + 1]
    /\ UNCHANGED <<held, requestLog, effect, storeVars, pc, memVars, crashes, ioErrors>>

Sync(q) ==
    /\ q \in Mirrored /\ q <= held /\ replica[q] # tokens[q]
    /\ replica' = [replica EXCEPT ![q] = tokens[q]]
    /\ UNCHANGED <<write, outbox, count, idMap, writesOn, qboVars, pc, memVars, faultVars>>

-----------------------------------------------------------------------------
(* drain_once: load, recover, load the closed parents, drain, save the map. *)

IoError == ioErrors < MaxIoErrors /\ ioErrors' = ioErrors + 1
NoIoError == UNCHANGED ioErrors

Due == TickGated => \E i \in Ids : outbox[i].state = "pending"

StartPass ==
    /\ pc = "idle" /\ writesOn /\ Due
    /\ pc' = "recover"
    /\ mem' = [i \in Ids |-> IF outbox[i].state \in Open THEN outbox[i] ELSE AbsentRow]
    /\ UNCHANGED <<storeVars, qboVars, memMap, todo, blocked, landed, cur, result, faultVars>>

\* An error saving a recovered row ends the pass.
Recover(i) ==
    /\ pc = "recover" /\ mem[i].state = "in_flight"
    /\ \A j \in Ids : j < i => mem[j].state # "in_flight"
    /\ \/ /\ NoIoError
          /\ mem' = [mem EXCEPT ![i] = RecoverInFlight(@)]
          /\ outbox' = [outbox EXCEPT ![i] = RecoverInFlight(mem[i])]
          /\ UNCHANGED <<pc, memMap, todo, blocked, landed, cur, result>>
       \/ /\ IoError
          /\ pc' = "idle" /\ ResetMemory
          /\ UNCHANGED outbox
    /\ UNCHANGED <<write, count, idMap, replica, writesOn, qboVars, crashes, renames>>

Loaded == {i \in Ids : mem[i].state # "absent"}

\* Mutation: only open rows are loaded.
LoadOpenOnly ==
    /\ pc = "recover" /\ \A i \in Ids : mem[i].state # "in_flight"
    /\ todo' = Loaded /\ memMap' = idMap /\ pc' = "loop"
    /\ UNCHANGED <<storeVars, qboVars, mem, blocked, landed, cur, result, faultVars>>

LoadParents ==
    /\ pc = "recover" /\ \A i \in Ids : mem[i].state # "in_flight"
    /\ mem' = [i \in Ids |->
                 IF i \notin Loaded /\ \E j \in Loaded : write[j].depends = i
                 THEN outbox[i] ELSE mem[i]]
    /\ todo' = {i \in Ids : mem'[i].state # "absent"}
    /\ memMap' = idMap
    /\ pc' = "loop"
    /\ UNCHANGED <<storeVars, qboVars, blocked, landed, cur, result, faultVars>>

-----------------------------------------------------------------------------
(* drain_with: one row after the other, oldest first. *)

Visiting(i) == pc = "loop" /\ i \in todo /\ \A j \in todo : i <= j

\* Two writes to one (type, entity): only updates share an entity, since a
\* create has a local id of its own.
SameEntity(i, j) == i = j \/ (write[i].entity # None /\ write[i].entity = write[j].entity)

\* Mutation: a row that waits blocks itself, not its entity.
RowBlocked(i) == i \in blocked

EntityBlocked(i) == \E j \in blocked : SameEntity(i, j)

DependencyApplied(i) ==
    write[i].depends # None => mem[write[i].depends].state = "applied"

ReferencesResolved(i) == \A r \in write[i].refs : memMap[r] # None

\* Mutation: a child is sent whatever became of its parents.
MayBeginAlone(i) == mem[i].state = "pending" /\ ~EntityBlocked(i)

\* Mutation: the pass retries rejected rows by itself.
MayBeginRejected(i) ==
    /\ mem[i].state \in {"pending", "rejected"}
    /\ DependencyApplied(i) /\ ~EntityBlocked(i) /\ ReferencesResolved(i)

MayBegin(i) ==
    mem[i].state = "pending" /\ DependencyApplied(i) /\ ~EntityBlocked(i) /\ ReferencesResolved(i)

\* A row that is not drainable, or that has to wait.
PassOver(i) ==
    /\ Visiting(i) /\ ~MayBegin(i)
    /\ todo' = todo \ {i}
    /\ blocked' = IF mem[i].state \in Terminal THEN blocked ELSE blocked \cup {i}
    /\ UNCHANGED <<storeVars, qboVars, pc, mem, memMap, landed, cur, result, faultVars>>

\* in_flight is saved before the request goes out; if it cannot be, the
\* request is not sent.
Begin(i) ==
    /\ Visiting(i) /\ MayBegin(i)
    /\ todo' = todo \ {i}
    /\ LET row == BeginAttempt(mem[i]) IN
       \/ /\ NoIoError
          /\ outbox' = [outbox EXCEPT ![i] = row]
          /\ mem' = [mem EXCEPT ![i] = row]
          /\ pc' = IF NeedsQueryBeforeCreate(i) THEN "find" ELSE "send"
          /\ cur' = i
          /\ UNCHANGED blocked
       \/ /\ IoError
          /\ mem' = [mem EXCEPT ![i] = MarkFailed(row, "transient")]
          /\ blocked' = blocked \cup {i}
          /\ UNCHANGED <<outbox, pc, cur>>
    /\ UNCHANGED <<write, count, idMap, replica, writesOn, qboVars, memMap, landed, result,
                   crashes, renames>>

Outcome(kind, q) == pc' = "save" /\ result' = [kind |-> kind, id |-> q]

\* find_by_name before the create of a master: adopt what is there.
FindByName ==
    /\ pc = "find"
    /\ \/ \E q \in 1 .. held :
            /\ names[q] = write[cur].name
            /\ Outcome("ok", q)
            /\ effect' = [effect EXCEPT ![cur] = @ \cup {q}]
       \/ /\ NameFree(write[cur].name)
          /\ pc' = "send" /\ UNCHANGED <<result, effect>>
       \/ /\ \E failure \in {"transient", "refused"} : Outcome(failure, None)
          /\ UNCHANGED effect
    /\ UNCHANGED <<names, tokens, held, requestLog, storeVars,
                   mem, memMap, todo, blocked, landed, cur, faultVars>>

\* The request never reached QBO, or QBO (or the call budget) refused it.
SendFails ==
    /\ pc = "send"
    /\ \E failure \in {"transient", "refused"} : Outcome(failure, None)
    /\ UNCHANGED <<qboVars, storeVars, mem, memMap, todo, blocked, landed, cur, faultVars>>

\* The answer to a request QBO carried out: read, lost, or unreadable.
Answer(q) == Outcome("ok", q) \/ \E failure \in {"transient", "refused"} : Outcome(failure, None)

\* A RequestId QBO has already answered is answered again, nothing is done.
Replay ==
    /\ pc = "send" /\ requestLog[cur] # None
    /\ Answer(requestLog[cur])
    /\ UNCHANGED <<qboVars, storeVars, mem, memMap, todo, blocked, landed, cur, faultVars>>

\* Mutations: every attempt carries a RequestId of its own.
CreateAnew ==
    /\ pc = "send" /\ write[cur].op = "create"
    /\ NameFree(write[cur].name) /\ held < MaxQboId
    /\ held' = held + 1
    /\ names' = [names EXCEPT ![held + 1] = write[cur].name]
    /\ effect' = [effect EXCEPT ![cur] = @ \cup {held + 1}]
    /\ Answer(held + 1)
    /\ UNCHANGED <<tokens, requestLog, storeVars, mem, memMap, todo, blocked, landed, cur,
                   faultVars>>
UpdateAnew ==
    /\ pc = "send" /\ write[cur].op = "update"
    /\ LET q == write[cur].entity IN
       \/ /\ tokens[q] = mem[cur].base /\ tokens[q] < MaxToken
          /\ tokens' = [tokens EXCEPT ![q] = @ + 1]
          /\ effect' = [effect EXCEPT ![cur] = @ \cup {q}]
          /\ Answer(q)
       \/ /\ tokens[q] # mem[cur].base
          /\ Outcome("stale", None)
          /\ UNCHANGED <<tokens, effect>>
    /\ UNCHANGED <<names, held, requestLog, storeVars, mem, memMap, todo, blocked, landed, cur,
                   faultVars>>

\* Masters are created without a RequestId entry, but their names are unique.
SendCreate ==
    /\ pc = "send" /\ write[cur].op = "create" /\ requestLog[cur] = None
    /\ \/ /\ NameFree(write[cur].name) /\ held < MaxQboId
          /\ held' = held + 1
          /\ names' = [names EXCEPT ![held + 1] = write[cur].name]
          /\ effect' = [effect EXCEPT ![cur] = @ \cup {held + 1}]
          /\ requestLog' = IF NeedsQueryBeforeCreate(cur) THEN requestLog
                           ELSE [requestLog EXCEPT ![cur] = held + 1]
          /\ Answer(held + 1)
       \/ /\ ~NameFree(write[cur].name)
          /\ Outcome("duplicate", None)
          /\ UNCHANGED <<held, names, effect, requestLog>>
    /\ UNCHANGED <<tokens, storeVars, mem, memMap, todo, blocked, landed, cur, faultVars>>

\* QBO takes an update only on the SyncToken it holds.
SendUpdate ==
    /\ pc = "send" /\ write[cur].op = "update" /\ requestLog[cur] = None
    /\ LET q == write[cur].entity IN
       \/ /\ tokens[q] = mem[cur].base /\ tokens[q] < MaxToken
          /\ tokens' = [tokens EXCEPT ![q] = @ + 1]
          /\ requestLog' = [requestLog EXCEPT ![cur] = q]
          /\ effect' = [effect EXCEPT ![cur] = @ \cup {q}]
          /\ Answer(q)
       \/ /\ tokens[q] # mem[cur].base
          /\ Outcome("stale", None)
          /\ UNCHANGED <<tokens, requestLog, effect>>
    /\ UNCHANGED <<names, held, storeVars, mem, memMap, todo, blocked, landed, cur, faultVars>>

\* mark_applied or mark_failed, then a save whose own error is ignored.
SaveOutcome ==
    /\ pc = "save"
    /\ LET applied == result.kind = "ok"
           row == IF applied THEN MarkApplied(mem[cur]) ELSE MarkFailed(mem[cur], result.kind)
       IN  /\ mem' = [mem EXCEPT ![cur] = row]
           /\ \/ NoIoError /\ outbox' = [outbox EXCEPT ![cur] = row]
              \/ IoError /\ UNCHANGED outbox
           /\ IF applied /\ write[cur].op = "create"
              THEN /\ memMap' = [memMap EXCEPT ![cur] = result.id]
                   /\ landed' = landed \cup {cur}
              ELSE UNCHANGED <<memMap, landed>>
           /\ blocked' = IF applied THEN blocked ELSE blocked \cup {cur}
    /\ pc' = "loop" /\ cur' = None
    /\ result' = [kind |-> "none", id |-> None]
    /\ UNCHANGED <<write, count, idMap, replica, writesOn, qboVars, todo, crashes, renames>>

\* Mutation: every new mapping is saved with the newest create's record.
RecordNewest(i) ==
    /\ pc = "loop" /\ todo = {} /\ i \in landed /\ NoIoError
    /\ \E j \in landed : /\ \A k \in landed : k <= j
                         /\ idMap' = [idMap EXCEPT ![i] = memMap[j]]
    /\ landed' = landed \ {i}
    /\ UNCHANGED <<write, outbox, count, replica, writesOn, qboVars, pc, mem, memMap, todo,
                   blocked, cur, result, crashes, renames>>

\* Only after the whole loop are the new mappings saved, the oldest row first;
\* the first mapping of a local id wins; an error abandons the rest.
RecordIdMapping(i) ==
    /\ pc = "loop" /\ todo = {} /\ i \in landed /\ \A j \in landed : i <= j
    /\ \/ /\ NoIoError
          /\ idMap' = [idMap EXCEPT ![i] = IF @ = None THEN memMap[i] ELSE @]
          /\ landed' = landed \ {i}
          /\ UNCHANGED <<pc, mem, memMap, todo, blocked, cur, result>>
       \/ /\ IoError
          /\ pc' = "idle" /\ ResetMemory
          /\ UNCHANGED idMap
    /\ UNCHANGED <<write, outbox, count, replica, writesOn, qboVars, crashes, renames>>

FinishPass ==
    /\ pc = "loop" /\ todo = {} /\ landed = {}
    /\ pc' = "idle" /\ ResetMemory
    /\ UNCHANGED <<storeVars, qboVars, faultVars>>

\* The process is killed: its memory is gone, a request may be on its way.
Crash ==
    /\ pc # "idle"
    /\ crashes < MaxCrashes /\ crashes' = crashes + 1
    /\ pc' = "idle" /\ ResetMemory
    /\ UNCHANGED <<storeVars, qboVars, ioErrors, renames>>

-----------------------------------------------------------------------------
Person == \/ QueueCreate \/ QueueUpdate \/ SetWriteEnabled
          \/ \E i \in Ids : Retry(i) \/ Discard(i)

Web == WebCreate \/ \E q \in QboIds : WebEdit(q) \/ WebRename(q) \/ Sync(q)

Drain == \/ StartPass \/ LoadParents \/ FindByName \/ SendFails \/ Replay
         \/ SendCreate \/ SendUpdate \/ SaveOutcome \/ FinishPass
         \/ \E i \in Ids : Recover(i) \/ PassOver(i) \/ Begin(i) \/ RecordIdMapping(i)

Next == Person \/ Web \/ Drain \/ Crash

Spec == Init /\ [][Next]_vars

\* The background loop keeps calling drain_once, and a pass that has begun
\* runs on; nothing is assumed of people, of QBO's answers or of the network.
FairSpec == Spec /\ WF_vars(Drain)

-----------------------------------------------------------------------------
(* What the write path promises. *)

Row == [state : States, attempts : Nat, base : Nat]
Write == [op : {"none", "create", "update"}, name : Names \cup {NoName},
          refs : SUBSET Ids, entity : {None} \cup QboIds, depends : {None} \cup Ids]

\* The type of every variable.
TypeOK ==
    /\ write \in [Ids -> Write]
    /\ outbox \in [Ids -> Row] /\ mem \in [Ids -> Row]
    /\ count \in 0 .. MaxRecords
    /\ idMap \in [Ids -> {None} \cup QboIds] /\ memMap \in [Ids -> {None} \cup QboIds]
    /\ replica \in [QboIds -> {NotMirrored} \cup Nat]
    /\ writesOn \in BOOLEAN
    /\ names \in [QboIds -> Names \cup {NoName}]
    /\ tokens \in [QboIds -> Nat]
    /\ held \in 0 .. MaxQboId
    /\ requestLog \in [Ids -> {None} \cup QboIds]
    /\ effect \in [Ids -> SUBSET QboIds]
    /\ pc \in {"idle", "recover", "loop", "find", "send", "save"}
    /\ todo \in SUBSET Ids /\ blocked \in SUBSET Ids /\ landed \in SUBSET Ids
    /\ cur \in {None} \cup Ids
    /\ result \in [kind : {"none", "ok"} \cup Failures, id : {None} \cup QboIds]
    /\ crashes \in 0 .. MaxCrashes /\ ioErrors \in 0 .. MaxIoErrors /\ renames \in 0 .. MaxRenames

\* A row saved as applied has reached QBO: neither a crash, a lost answer nor
\* a failed save ever makes the outbox claim a write QBO does not hold.
AppliedHasLanded == \A i \in Ids : outbox[i].state = "applied" => effect[i] # {}

\* A saved id mapping names a record that this very create made or adopted,
\* however many passes, replays and crashes lay between.
MappingFaithful == \A i \in Ids : idMap[i] # None => idMap[i] \in effect[i]

\* QBO never sees a write before every write its payload refers to, although
\* depends_on records only one of them (writes.rs, queue).
ParentsFirst == \A i \in Ids : effect[i] # {} => \A r \in write[i].refs : effect[r] # {}

\* Writes to one entity land in the order they were queued: a later one is
\* out only if the earlier one is, or a person dropped it (drain_with's
\* blocked_entities, across passes, retries and crashes).
EntityOrder == \A i, j \in Ids :
    i < j /\ SameEntity(i, j) /\ effect[j] # {}
      => effect[i] # {} \/ outbox[i].state = "discarded"

\* A conflict is always somebody else's edit: a write that QBO carried out
\* but whose answer was lost is never reported as conflicting with itself,
\* so re-basing and retrying it cannot apply the edit twice.
ConflictHasNotLanded == \A i \in Ids : outbox[i].state = "conflicted" => effect[i] = {}

\* One write, one record in QBO: no retry, recovery or replay makes a second.
\* Only a master renamed in QBO after its answer was lost is made again, since
\* the query before the create looks for the name.
OneRecordPerWrite == renames = 0 => \A i \in Ids : \A p, q \in effect[i] : p = q

\* The retry bound, with what faults add to it: every attempt past
\* MAX_ATTEMPTS is paid for by a crash or a failed save.
AttemptsBounded == \A i \in Ids : outbox[i].attempts <= MAX_ATTEMPTS + crashes + ioErrors

\* Saved rows move only along OutboxState::can_transition_to, although the
\* pass saves a copy it loaded long before and a person acts meanwhile; in
\* particular nothing leaves applied or discarded.
SavedTransitionsAreLegal ==
    [][\A i \in Ids : outbox'[i].state # outbox[i].state /\ outbox[i].state # "absent"
         => CanTransition(outbox[i].state, outbox'[i].state)]_vars

\* QBO changes on behalf of a write only while its saved row is in_flight, so
\* a process killed at any point leaves a durable trace of what it sent.
SentOnlyInFlight ==
    [][\A i \in Ids : effect'[i] # effect[i] => outbox[i].state = "in_flight"]_vars

\* What keeps a queued row back: its parent, the creates it refers to, and
\* earlier writes to its entity.
Behind(i) == (write[i].refs \cup {j \in Ids : j < i /\ SameEntity(i, j)}
                \cup {write[i].depends}) \ {None}

\* A write nothing automatic will move: it needs a person, a person dropped
\* it, or it is an applied create whose mapping was never saved.
Stopped(i) == \/ outbox[i].state \in Attention \cup {"discarded"}
              \/ outbox[i].state = "applied" /\ write[i].op = "create" /\ idMap[i] = None

HeldUp(i) ==
    LET up[j \in Ids] == \E k \in Behind(j) : Stopped(k) \/ (k < j /\ up[k])
    IN  up[i]

Queued(i) == outbox[i].state \in {"pending", "in_flight"}

\* Under DemoQbo::tick no pass is due while no row is pending.
Stranded == TickGated /\ pc = "idle" /\ \A i \in Ids : outbox[i].state # "pending"

\* While writes stay on, every queued write leaves the queue or waits, through
\* a chain of writes it refers to or follows, for one that has stopped; the
\* one exception is a row left in_flight with nothing pending beside it.
QueueDrains ==
    <>[]writesOn =>
      \A i \in Ids : [](Queued(i) => <>(~Queued(i) \/ HeldUp(i) \/ []Stranded))
=============================================================================
