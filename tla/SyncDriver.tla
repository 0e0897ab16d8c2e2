----------------------------- MODULE SyncDriver -----------------------------
(***************************************************************************)
(* How qbo-local keeps its replica of one entity type of one realm current *)
(* (sync.rs, driver.rs, and the sync side of store.rs).  The daemon calls  *)
(* sync_entity_type again and again; each call plans either a CDC poll     *)
(* ("what changed since my cursor?") or a full sweep (every record, page   *)
(* by page).  A poll whose answer may be truncated re-reads its window     *)
(* through the query endpoint, page by page: the backfill.                 *)
(*                                                                         *)
(* Pages are cut from a live result set by position, in the order of Id,   *)
(* while other people create, edit and delete records.  Every page is      *)
(* saved in one transaction with the checkpoint or the cursor that covers  *)
(* it; the driver can be refused, fail or be killed between any two pages. *)
(*                                                                         *)
(* Time is QBO's clock in coarse units.  A record's stamp is its           *)
(* MetaData.LastUpdatedTime, its token is its SyncToken.  `left' and       *)
(* `slipped' are history variables that the program does not have.         *)
(***************************************************************************)
EXTENDS Replica, FiniteSets

CONSTANTS
    PageSize,       \* SyncOptions::page_size
    CdcCap,         \* SyncOptions::cdc_response_cap
    Overlap,        \* SyncOptions::cdc_overlap
    MaxAge,         \* SyncOptions::cdc_max_age
    Lookback,       \* how far back CDC answers (CDC_LOOKBACK_DAYS)
    SweepInterval,  \* SyncOptions::uncovered_sweep_interval
    CommitLag,      \* how late a write may appear after the time it is stamped
    ServerSkew,     \* how far an answer's `time' may lie behind QBO's clock
    LocalSkew,      \* how far the Mac's clock may be from QBO's
    MaxClock,       \* bound: the last time
    MaxChanges,     \* bound: records created, edited and deleted
    MaxFails        \* bound: calls cut short

ASSUME SizesAssumption ==
    /\ MaxId \in Nat /\ MaxChanges \in Nat /\ MaxClock \in Nat /\ MaxFails \in Nat
    /\ PageSize \in Nat \ {0} /\ CdcCap \in Nat \ {0} /\ SweepInterval \in Nat
\* sync.rs: the overlap outlasts a commit, and the age limit leaves a margin
\* under the lookback that also absorbs the overlap and the Mac's clock.
ASSUME TimesAssumption ==
    /\ Overlap \in Nat /\ MaxAge \in Nat /\ Lookback \in Nat
    /\ CommitLag \in 0 .. Overlap /\ ServerSkew \in Nat /\ LocalSkew \in Nat
    /\ MaxAge + Overlap + LocalSkew <= Lookback

None == -1
NoCheckpoint == [next |-> 0, startedAt |-> None]
NoPage == [k \in {} |-> 0]

VARIABLES
    clock,          \* QBO's clock
    covered,        \* cdc_coverage_confirmed of this entity type
    cursor, lastSweep,  \* table sync_cursors
    checkpoint,     \* table sweep_checkpoints
    pc,             \* what the running call does next
    now,            \* the Mac's clock when the call began
    start,          \* the position of the page to read
    asOf,           \* QBO's time that the cursor will be made of
    page,           \* the page read and not yet saved
    left,           \* history: records that left the part a sweep has read
    slipped,        \* history: more of them left than a resumed sweep absorbs
    changes, fails

storeVars == <<replica, cursor, lastSweep, checkpoint>>
memVars   == <<pc, now, start, asOf, page>>
history   == <<left, slipped, changes, fails>>
vars == <<clock, qbo, covered, storeVars, memVars, history>>

-----------------------------------------------------------------------------
(* What QBO lists and how it pages it. *)

Later(s, t) == IF s >= t THEN s ELSE t

ReachBack == cursor - Overlap

\* The query endpoint omits deleted records.
Live == {k \in Ids : qbo[k].status = "live"}

InWindow(r) == r.status = "live" /\ r.stamp >= ReachBack /\ r.stamp < asOf

Window == {k \in Ids : InWindow(qbo[k])}

Position(list, k) == Cardinality({j \in list : j < k})

PageOf(list, from) ==
    [k \in {k \in list : Position(list, k) \in from .. from + PageSize - 1} |-> qbo[k]]

Returned == Cardinality(DOMAIN page)

\* Mutation: a full page is taken for the last one.
LastPageEarly == Returned <= PageSize

LastPage == Returned < PageSize

\* CDC answers no further back than its lookback, and does not say so.
Changed == {k \in Ids : /\ qbo[k].status # "absent"
                        /\ qbo[k].stamp >= Later(ReachBack, clock - Lookback)}

ServerTimes == Later(0, clock - ServerSkew) .. clock
LocalTimes  == Later(0, clock - LocalSkew) .. clock + LocalSkew

-----------------------------------------------------------------------------
(* apply_batch and apply_changes (store.rs). *)

Overwritten == [k \in Ids |-> IF k \in DOMAIN page THEN page[k] ELSE replica[k]]

Merged == [k \in Ids |-> IF k \in DOMAIN page /\ ~HoldsThisVersionOrNewer(k, page[k])
                         THEN page[k] ELSE replica[k]]

-----------------------------------------------------------------------------
Init ==
    /\ clock = 0
    /\ qbo \in [Ids -> {Absent, Record("live", 0, 0)}]
    /\ covered \in BOOLEAN
    /\ replica = [k \in Ids |-> Absent]
    /\ cursor = None /\ lastSweep = None
    /\ checkpoint = NoCheckpoint
    /\ pc = "idle" /\ now = 0 /\ start = 0 /\ asOf = None /\ page = NoPage
    /\ left = 0 /\ slipped = FALSE
    /\ changes = 0 /\ fails = 0

-----------------------------------------------------------------------------
(* QBO: time passes, people change records. *)

Tick == /\ clock < MaxClock /\ clock' = clock + 1
        /\ UNCHANGED <<qbo, covered, storeVars, memVars, history>>

\* How many leading records of a list a paged read has behind it, whether it
\* runs or waits for its checkpoint to be resumed.
SweepReadTo == IF pc = "sweepSave" THEN Later(start + Returned, checkpoint.next)
               ELSE checkpoint.next
BackfillReadTo == IF pc = "backfillSave" THEN start + Returned ELSE start

\* How many of them may leave before the read skips a record: none between
\* two pages of one call, a page's worth before a sweep is resumed.
SweepSlack == IF pc = "sweepSave" \/ (pc = "sweep" /\ start = checkpoint.next)
              THEN 0 ELSE PageSize

LeavesBook(k, r) ==
    qbo[k].status = "live" /\ r.status # "live" /\ Position(Live, k) < SweepReadTo
LeavesWindow(k, r) ==
    /\ pc \in {"backfill", "backfillSave"}
    /\ k \in Window /\ ~InWindow(r) /\ Position(Window, k) < BackfillReadTo

\* A write shows at most CommitLag after its stamp.
Change(k, status, token) == \E stamp \in Later(clock - CommitLag, qbo[k].stamp) .. clock :
    LET r == Record(status, token, stamp) IN
    /\ clock < MaxClock - ServerSkew
    /\ changes < MaxChanges /\ changes' = changes + 1
    /\ qbo' = [qbo EXCEPT ![k] = r]
    /\ left' = IF LeavesBook(k, r) THEN left + 1 ELSE left
    /\ slipped' = (slipped \/ LeavesWindow(k, r) \/ (LeavesBook(k, r) /\ left >= SweepSlack))
    /\ UNCHANGED <<clock, covered, storeVars, memVars, fails>>

Create(k) == qbo[k].status = "absent" /\ Change(k, "live", 0)
Edit(k)   == qbo[k].status = "live" /\ Change(k, "live", qbo[k].token + 1)
Delete(k) == qbo[k].status = "live" /\ Change(k, "deleted", qbo[k].token)

-----------------------------------------------------------------------------
(* sync_entity_type: plan. *)

SweepNotDue(t) ==
    ~covered /\ lastSweep # None /\ t - lastSweep < SweepInterval /\ checkpoint = NoCheckpoint

\* Mutation: the age of the cursor is not looked at.
PlansSweepAtFirst(t) == ~covered \/ cursor = None

PlansSweep(t) == ~covered \/ cursor = None \/ t - cursor >= MaxAge

\* Mutation: the resumed sweep does not back up.
ResumeExactly == checkpoint.next

ResumeStart == Later(0, checkpoint.next - PageSize)

\* Resume from a checkpoint CDC can still reach back to, or start over.
BeginSweep(t) ==
    /\ pc' = "sweep" /\ now' = t /\ page' = NoPage
    /\ IF checkpoint # NoCheckpoint /\ t - checkpoint.startedAt < MaxAge
       THEN start' = ResumeStart /\ asOf' = checkpoint.startedAt
       ELSE start' = 0 /\ asOf' = None

StartSweep == \E t \in LocalTimes :
    /\ pc = "idle" /\ ~SweepNotDue(t) /\ PlansSweep(t)
    /\ BeginSweep(t)
    /\ UNCHANGED <<clock, qbo, covered, storeVars, history>>

\* An uncovered type between two sweeps: no request is made.
SkipSweep == \E t \in LocalTimes :
    pc = "idle" /\ SweepNotDue(t) /\ UNCHANGED vars

\* poll: one CDC request from the overlap before the cursor.
Poll == \E t \in LocalTimes, time \in ServerTimes :
    /\ pc = "idle" /\ ~PlansSweep(t)
    /\ \/ time < cursor /\ BeginSweep(t)                    \* CursorAheadOfServer
       \/ /\ time >= cursor /\ Cardinality(Changed) >= CdcCap   \* PossiblyTruncated
          /\ pc' = "backfill" /\ now' = t /\ start' = 0 /\ asOf' = time /\ page' = NoPage
       \/ /\ time >= cursor /\ Cardinality(Changed) < CdcCap    \* Complete
          /\ pc' = "pollSave" /\ now' = t /\ start' = 0 /\ asOf' = time
          /\ page' = [k \in Changed |-> Payload(qbo[k])]
    /\ UNCHANGED <<clock, qbo, covered, storeVars, history>>

-----------------------------------------------------------------------------
(* The pages of a sweep and of a backfill: each read, then saved. *)

Idle == pc' = "idle" /\ now' = 0 /\ start' = 0 /\ asOf' = None /\ page' = NoPage

SavePoll ==
    /\ pc = "pollSave"
    /\ replica' = Merged
    /\ cursor' = Later(cursor, asOf)
    /\ Idle
    /\ UNCHANGED <<clock, qbo, covered, lastSweep, checkpoint, history>>

\* Mutation: the sweep does not note when it started.
ReadUnanchored == \E time \in ServerTimes :
    /\ pc = "sweep" /\ pc' = "sweepSave"
    /\ page' = PageOf(Live, start)
    /\ UNCHANGED <<clock, qbo, covered, storeVars, now, start, asOf, history>>

ReadSweepPage == \E time \in ServerTimes :
    /\ pc = "sweep" /\ pc' = "sweepSave"
    /\ page' = PageOf(Live, start)
    /\ asOf' = IF asOf = None THEN time ELSE asOf
    /\ UNCHANGED <<clock, qbo, covered, storeVars, now, start, history>>

\* apply_sweep_page: the page with the checkpoint behind it or, if it is the
\* last one, with the cursor.
SaveSweepPage ==
    /\ pc = "sweepSave"
    /\ replica' = Overwritten
    /\ IF LastPage
       THEN /\ cursor' = asOf /\ lastSweep' = now /\ checkpoint' = NoCheckpoint
            /\ Idle
       ELSE /\ checkpoint' = [next |-> start + Returned, startedAt |-> asOf]
            /\ pc' = "sweep" /\ start' = start + Returned /\ page' = NoPage
            /\ UNCHANGED <<cursor, lastSweep, now, asOf>>
    /\ left' = 0
    /\ UNCHANGED <<clock, qbo, covered, slipped, changes, fails>>

ReadBackfillPage ==
    /\ pc = "backfill" /\ pc' = "backfillSave"
    /\ page' = PageOf(Window, start)
    /\ UNCHANGED <<clock, qbo, covered, storeVars, now, start, asOf, history>>

SaveBackfillPage ==
    /\ pc = "backfillSave"
    /\ replica' = Merged
    /\ IF LastPage
       THEN cursor' = Later(cursor, asOf) /\ Idle
       ELSE /\ pc' = "backfill" /\ start' = start + Returned /\ page' = NoPage
            /\ UNCHANGED <<cursor, now, asOf>>
    /\ UNCHANGED <<clock, qbo, covered, lastSweep, checkpoint, history>>

\* A request fails, the rate or call budget refuses it, a save fails, or the
\* process is killed: nothing of the call remains but what it saved.
Fail ==
    /\ pc # "idle"
    /\ fails < MaxFails /\ fails' = fails + 1
    /\ Idle
    /\ UNCHANGED <<clock, qbo, covered, storeVars, left, slipped, changes>>

-----------------------------------------------------------------------------
People == \E k \in Ids : Create(k) \/ Edit(k) \/ Delete(k)

Driver == \/ SkipSweep \/ StartSweep \/ Poll \/ SavePoll
          \/ ReadSweepPage \/ SaveSweepPage \/ ReadBackfillPage \/ SaveBackfillPage

Next == Tick \/ People \/ Driver \/ Fail

Spec == Init /\ [][Next]_vars

\* Daemon::tick calls the driver for ever, whatever the last call returned,
\* and time passes.
FairSpec == Spec /\ WF_vars(Driver) /\ WF_vars(Tick)

-----------------------------------------------------------------------------
Records == [status : {"absent", "live", "deleted"}, token : Nat, stamp : Nat]
Times == Nat \cup {None}

\* The type of every variable; whatever will write a cursor or a checkpoint
\* knows QBO's time to make it of.
TypeOK ==
    /\ clock \in Nat /\ covered \in BOOLEAN
    /\ qbo \in [Ids -> Records] /\ replica \in [Ids -> Records]
    /\ cursor \in Times /\ lastSweep \in Times
    /\ checkpoint \in {NoCheckpoint} \cup [next : Nat \ {0}, startedAt : Nat]
    /\ pc \in {"idle", "pollSave", "sweep", "sweepSave", "backfill", "backfillSave"}
    /\ now \in Nat /\ start \in Nat /\ asOf \in Times
    /\ asOf = None => pc \in {"idle", "sweep"}
    /\ DOMAIN page \subseteq Ids /\ \A k \in DOMAIN page : page[k] \in Records
    /\ left \in Nat /\ slipped \in BOOLEAN
    /\ changes \in 0 .. MaxChanges /\ fails \in 0 .. MaxFails

Mirrored(k) == replica[k] = qbo[k]

\* DESIGN 4.3: no edit is ever skipped across a cursor advance.  A record QBO
\* holds is mirrored at its current version, or the next poll reaches back to
\* it: the cursor never passes a version that was not fetched.
NothingSkipped == cursor # None =>
    \A k \in Live : Mirrored(k) \/ qbo[k].stamp >= ReachBack

\* What holds of the code as it is: a version is skipped only when records
\* left the part of a paged read that was already behind it (DESIGN 12, item
\* 6), and a resumed sweep absorbs as many of them as a page holds.
SkippedOnlyBySlipping == slipped \/ NothingSkipped

\* apply_changes and with_last_known_payload: a deletion that a poll delivers
\* leaves the record flagged deleted in the replica.
DeliveredDeletionsApply ==
    [][SavePoll => \A k \in DOMAIN page :
         page[k].status = "deleted" => replica'[k].status = "deleted"]_vars

\* The replica catches up with the records QBO holds once people leave it
\* alone, however calls were cut short; deletions and slips excepted.
CatchesUp == <>[](slipped \/ ~covered \/ \A k \in Live : Mirrored(k))
=============================================================================
