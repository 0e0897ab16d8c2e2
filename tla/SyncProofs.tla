----------------------------- MODULE SyncProofs -----------------------------
(***************************************************************************)
(* Proofs about the sync driver, for every number of records, every page   *)
(* size and every age, lookback and clock: its types, and that a version   *)
(* of a record is skipped only when records left the part of a paged read  *)
(* that was behind it.  One lemma per action, then the two theorems.       *)
(*                                                                         *)
(* After them, the verification sweep: Verify is its specification, and it *)
(* keeps SweepPromises.  Each of the two is proved by itself; what both of *)
(* them name besides Replica is only a name.                               *)
(***************************************************************************)
EXTENDS SyncDriver, SweepPromises, CommonProofs, FiniteSetTheorems, TLAPS

USE DEF Ids, None

\* A page is a finite part of the book, so the count of what a request
\* returned is a number.
LEMMA ReturnedIsNat ==
    ASSUME DOMAIN page \subseteq Ids
    PROVE  Returned \in Nat
<1>1. MaxId \in Nat
      BY SizesAssumption
<1>2. IsFiniteSet(1 .. MaxId)
      BY <1>1, FS_Interval
<1>3. IsFiniteSet(DOMAIN page)
      BY <1>2, FS_Subset
<1>4. QED
      BY <1>3, FS_CardinalityType DEF Returned

LEMMA LaterTyped ==
    /\ \A s, t \in Times : Later(s, t) \in Times
    /\ \A s \in Times, t \in Nat : Later(s, t) \in Nat
    /\ \A s \in Nat, t \in Int : Later(s, t) \in Nat
BY DEF Later, Times

\* Every time a call can read is a natural number.
LEMMA ClocksTyped ==
    ASSUME clock \in Nat
    PROVE  ServerTimes \subseteq Nat /\ LocalTimes \subseteq Nat
<1>1. Later(0, clock - ServerSkew) \in Nat /\ Later(0, clock - LocalSkew) \in Nat
      BY TimesAssumption DEF Later
<1>2. QED
      BY <1>1, TimesAssumption DEF ServerTimes, LocalTimes

\* What a paged read returns is a part of QBO's book.
LEMMA PageTyped ==
    ASSUME NEW list \in SUBSET Ids, NEW from, qbo \in [Ids -> Records],
           page' = PageOf(list, from)
    PROVE  DOMAIN page' \subseteq Ids /\ \A k \in DOMAIN page' : page'[k] \in Records
BY DEF PageOf

LEMMA NoPageTyped ==
    ASSUME page' = NoPage
    PROVE  DOMAIN page' \subseteq Ids /\ \A k \in DOMAIN page' : page'[k] \in Records
BY DEF NoPage

\* Both ways of storing a page keep the replica typed.
LEMMA StoredTyped ==
    ASSUME replica \in [Ids -> Records], DOMAIN page \subseteq Ids,
           \A k \in DOMAIN page : page[k] \in Records
    PROVE  Overwritten \in [Ids -> Records] /\ Merged \in [Ids -> Records]
BY DEF Overwritten, Merged

LEMMA BeginSweepTyped ==
    ASSUME NEW t \in Nat, BeginSweep(t), TypeOK
    PROVE  /\ pc' = "sweep" /\ now' \in Nat /\ start' \in Nat /\ asOf' \in Times
           /\ DOMAIN page' \subseteq Ids /\ \A k \in DOMAIN page' : page'[k] \in Records
<1>1. pc' = "sweep" /\ now' = t /\ page' = NoPage
      BY DEF BeginSweep
<1>2. start' \in Nat /\ asOf' \in Times
  <2>1. CASE checkpoint = NoCheckpoint
        BY <2>1 DEF BeginSweep, Times
  <2>2. CASE checkpoint \in [next : Nat \ {0}, startedAt : Nat]
    <3>1. ResumeStart \in Nat
          BY <2>2, SizesAssumption DEF ResumeStart, Later
    <3>2. checkpoint.startedAt \in Times
          BY <2>2 DEF Times
    <3>3. QED
          BY <3>1, <3>2 DEF BeginSweep, Times
  <2>3. QED
        BY <2>1, <2>2 DEF TypeOK
<1>3. QED
      BY <1>1, <1>2, NoPageTyped

LEMMA IdleTyped ==
    ASSUME Idle
    PROVE  /\ pc' = "idle" /\ now' \in Nat /\ start' \in Nat /\ asOf' \in Times
           /\ DOMAIN page' \subseteq Ids /\ \A k \in DOMAIN page' : page'[k] \in Records
BY NoPageTyped DEF Idle, Times

-----------------------------------------------------------------------------
LEMMA TypeInit == Init => TypeOK
<1> SUFFICES ASSUME Init PROVE TypeOK
    OBVIOUS
<1>1. Absent \in Records /\ Record("live", 0, 0) \in Records
      BY DEF Absent, Record, Records
<1>2. qbo \in [Ids -> Records] /\ replica \in [Ids -> Records]
      BY <1>1 DEF Init
<1>3. DOMAIN page \subseteq Ids /\ \A k \in DOMAIN page : page[k] \in Records
      BY DEF Init, NoPage
<1>4. /\ clock \in Nat /\ covered \in BOOLEAN
      /\ pc = "idle" /\ now \in Nat /\ start \in Nat /\ slipped \in BOOLEAN
      BY DEF Init
<1>5. /\ cursor \in Times /\ lastSweep \in Times /\ asOf \in Times
      /\ checkpoint = NoCheckpoint
      BY DEF Init, Times
<1>6. left \in Nat /\ changes \in 0 .. MaxChanges /\ fails \in 0 .. MaxFails
      BY SizesAssumption DEF Init
<1>7. QED
      BY <1>2, <1>3, <1>4, <1>5, <1>6 DEF TypeOK

\* The time and the people at QBO.
LEMMA TypeWorld == TypeOK /\ (Tick \/ People) => TypeOK'
<1> SUFFICES ASSUME TypeOK, Tick \/ People PROVE TypeOK'
    OBVIOUS
<1>1. CASE Tick
      BY <1>1 DEF Tick, TypeOK, storeVars, memVars, history
<1>2. ASSUME NEW k \in Ids, NEW status \in {"live", "deleted"}, NEW token \in Nat,
             Change(k, status, token)
      PROVE  TypeOK'
  <2>1. PICK stamp \in Later(clock - CommitLag, qbo[k].stamp) .. clock :
          /\ changes < MaxChanges /\ changes' = changes + 1
          /\ qbo' = [qbo EXCEPT ![k] = Record(status, token, stamp)]
          /\ left' \in {left, left + 1} /\ slipped' \in BOOLEAN
          /\ UNCHANGED <<clock, covered, storeVars, memVars, fails>>
    <3>1. PICK stamp \in Later(clock - CommitLag, qbo[k].stamp) .. clock :
            LET r == Record(status, token, stamp) IN
            /\ changes < MaxChanges /\ changes' = changes + 1
            /\ qbo' = [qbo EXCEPT ![k] = r]
            /\ left' = IF LeavesBook(k, r) THEN left + 1 ELSE left
            /\ slipped' = (slipped \/ LeavesWindow(k, r)
                            \/ (LeavesBook(k, r) /\ left >= SweepSlack))
            /\ UNCHANGED <<clock, covered, storeVars, memVars, fails>>
          BY <1>2 DEF Change
    <3>2. slipped' \in BOOLEAN
          BY <3>1
    <3>3. left' \in {left, left + 1}
          BY <3>1
    <3>4. QED
          BY <3>1, <3>2, <3>3
  <2>2. stamp \in Nat
    <3>1. clock \in Nat /\ qbo[k] \in Records
          BY DEF TypeOK
    <3>2. qbo[k].stamp \in Nat
          BY <3>1 DEF Records
    <3>3. clock - CommitLag \in Int
          BY <3>1, TimesAssumption
    <3>4. QED
          BY <3>1, <3>2, <3>3 DEF Later
  <2>3. Record(status, token, stamp) \in Records
        BY <2>2 DEF Record, Records
  <2>4. qbo' \in [Ids -> Records]
        BY <2>1, <2>3 DEF TypeOK
  <2>5. left' \in Nat /\ changes' \in 0 .. MaxChanges
        BY <2>1, SizesAssumption DEF TypeOK
  <2>6. QED
        BY <2>1, <2>4, <2>5 DEF TypeOK, storeVars, memVars
<1>3. ASSUME NEW k \in Ids, Create(k) \/ Edit(k) \/ Delete(k)
      PROVE  TypeOK'
  <2>1. qbo[k].token \in Nat /\ qbo[k].token + 1 \in Nat
        BY DEF TypeOK, Records
  <2>2. QED
        BY <1>2, <1>3, <2>1 DEF Create, Edit, Delete
<1>4. QED
      BY <1>1, <1>3 DEF People

\* The driver: one step per action.
LEMMA TypeDriver == TypeOK /\ (Driver \/ Fail) => TypeOK'
<1> SUFFICES ASSUME TypeOK, Driver \/ Fail PROVE TypeOK'
    OBVIOUS
<1>a. ServerTimes \subseteq Nat /\ LocalTimes \subseteq Nat
      BY ClocksTyped DEF TypeOK
<1>b. Returned \in Nat
      BY ReturnedIsNat DEF TypeOK
<1>c. Overwritten \in [Ids -> Records] /\ Merged \in [Ids -> Records]
      BY StoredTyped DEF TypeOK
<1>1. CASE SkipSweep
      BY <1>1 DEF SkipSweep, TypeOK, vars, storeVars, memVars, history
<1>2. CASE StartSweep
  <2>1. PICK t \in Nat : BeginSweep(t)
        BY <1>2, <1>a DEF StartSweep
  <2>2. UNCHANGED <<clock, qbo, covered, storeVars, history>>
        BY <1>2 DEF StartSweep
  <2>3. QED
        BY <2>1, <2>2, BeginSweepTyped DEF TypeOK, storeVars, history
<1>3. CASE Poll
  <2>1. PICK t \in Nat, time \in Nat :
          \/ BeginSweep(t)
          \/ pc' = "backfill" /\ now' = t /\ start' = 0 /\ asOf' = time /\ page' = NoPage
          \/ /\ pc' = "pollSave" /\ now' = t /\ start' = 0 /\ asOf' = time
             /\ page' = [k \in Changed |-> Payload(qbo[k])]
        BY <1>3, <1>a DEF Poll
  <2>2. UNCHANGED <<clock, qbo, covered, storeVars, history>>
        BY <1>3 DEF Poll
  <2>3. CASE BeginSweep(t)
        BY <2>2, <2>3, BeginSweepTyped DEF TypeOK, storeVars, history
  <2>4. CASE pc' = "backfill" /\ now' = t /\ start' = 0 /\ asOf' = time /\ page' = NoPage
        BY <2>2, <2>4, NoPageTyped DEF TypeOK, Times, storeVars, history
  <2>5. CASE /\ pc' = "pollSave" /\ now' = t /\ start' = 0 /\ asOf' = time
             /\ page' = [k \in Changed |-> Payload(qbo[k])]
    <3>1. ASSUME NEW r \in Records PROVE Payload(r) \in Records
          BY <3>1 DEF Payload, Record, Records
    <3>2. DOMAIN page' \subseteq Ids /\ \A k \in DOMAIN page' : page'[k] \in Records
          BY <2>5, <3>1 DEF Changed, TypeOK
    <3>3. QED
          BY <2>2, <2>5, <3>2 DEF TypeOK, Times, storeVars, history
  <2>6. QED
        BY <2>1, <2>3, <2>4, <2>5
<1>4. CASE SavePoll
  <2>1. asOf \in Nat /\ cursor' = Later(cursor, asOf)
        BY <1>4 DEF SavePoll, TypeOK, Times
  <2>2. cursor' \in Times
        BY <2>1, LaterTyped DEF TypeOK, Times
  <2>3. /\ Idle /\ replica' = Merged
        /\ UNCHANGED <<clock, qbo, covered, lastSweep, checkpoint, history>>
        BY <1>4 DEF SavePoll
  <2>4. QED
        BY <1>c, <2>2, <2>3, IdleTyped DEF TypeOK, history
<1>5. CASE ReadSweepPage
  <2>1. PICK time \in Nat : asOf' = IF asOf = None THEN time ELSE asOf
        BY <1>5, <1>a DEF ReadSweepPage
  <2>2. asOf' \in Nat
        BY <2>1 DEF TypeOK, Times
  <2>3. /\ pc' = "sweepSave" /\ page' = PageOf(Live, start)
        /\ UNCHANGED <<clock, qbo, covered, storeVars, now, start, history>>
        BY <1>5 DEF ReadSweepPage
  <2>4. DOMAIN page' \subseteq Ids /\ \A k \in DOMAIN page' : page'[k] \in Records
        BY <2>3, PageTyped DEF Live, TypeOK
  <2>5. QED
        BY <2>2, <2>3, <2>4 DEF TypeOK, Times, storeVars, history
<1>6. CASE SaveSweepPage
  <2>1. /\ replica' = Overwritten /\ left' = 0
        /\ UNCHANGED <<clock, qbo, covered, slipped, changes, fails>>
        BY <1>6 DEF SaveSweepPage
  <2>2. asOf \in Nat
        BY <1>6 DEF SaveSweepPage, TypeOK, Times
  <2>3. CASE LastPage
    <3>1. cursor' = asOf /\ lastSweep' = now /\ checkpoint' = NoCheckpoint /\ Idle
          BY <1>6, <2>3 DEF SaveSweepPage
    <3>2. QED
          BY <1>c, <2>1, <2>2, <3>1, IdleTyped DEF TypeOK, Times
  <2>4. CASE ~LastPage
    <3>1. /\ checkpoint' = [next |-> start + Returned, startedAt |-> asOf]
          /\ pc' = "sweep" /\ start' = start + Returned /\ page' = NoPage
          /\ UNCHANGED <<cursor, lastSweep, now, asOf>>
          BY <1>6, <2>4 DEF SaveSweepPage
    <3>2. start + Returned \in Nat \ {0}
          BY <1>b, <2>4, SizesAssumption DEF LastPage, TypeOK
    <3>3. checkpoint' \in [next : Nat \ {0}, startedAt : Nat]
          BY <2>2, <3>1, <3>2
    <3>4. QED
          BY <1>c, <2>1, <3>1, <3>2, <3>3, NoPageTyped DEF TypeOK
  <2>5. QED
        BY <2>3, <2>4
<1>7. CASE ReadBackfillPage
  <2>1. /\ pc = "backfill" /\ pc' = "backfillSave" /\ page' = PageOf(Window, start)
        /\ UNCHANGED <<clock, qbo, covered, storeVars, now, start, asOf, history>>
        BY <1>7 DEF ReadBackfillPage
  <2>2. DOMAIN page' \subseteq Ids /\ \A k \in DOMAIN page' : page'[k] \in Records
        BY <2>1, PageTyped DEF Window, TypeOK
  <2>3. QED
        BY <2>1, <2>2 DEF TypeOK, storeVars, history
<1>8. CASE SaveBackfillPage
  <2>1. /\ replica' = Merged
        /\ UNCHANGED <<clock, qbo, covered, lastSweep, checkpoint, history>>
        BY <1>8 DEF SaveBackfillPage
  <2>2. asOf \in Nat
        BY <1>8 DEF SaveBackfillPage, TypeOK, Times
  <2>3. CASE LastPage
    <3>1. cursor' = Later(cursor, asOf) /\ Idle
          BY <1>8, <2>3 DEF SaveBackfillPage
    <3>2. cursor' \in Times
          BY <2>2, <3>1, LaterTyped DEF TypeOK, Times
    <3>3. QED
          BY <1>c, <2>1, <3>1, <3>2, IdleTyped DEF TypeOK, history
  <2>4. CASE ~LastPage
    <3>1. /\ pc' = "backfill" /\ start' = start + Returned /\ page' = NoPage
          /\ UNCHANGED <<cursor, now, asOf>>
          BY <1>8, <2>4 DEF SaveBackfillPage
    <3>2. start' \in Nat
          BY <1>b, <3>1 DEF TypeOK
    <3>3. QED
          BY <1>c, <2>1, <2>2, <3>1, <3>2, NoPageTyped DEF TypeOK, history
  <2>5. QED
        BY <2>3, <2>4
<1>9. CASE Fail
  <2>1. /\ Idle /\ fails' \in 0 .. MaxFails
        /\ UNCHANGED <<clock, qbo, covered, storeVars, left, slipped, changes>>
        BY <1>9, SizesAssumption DEF Fail, TypeOK
  <2>2. QED
        BY <2>1, IdleTyped DEF TypeOK, storeVars
<1>10. QED
       BY <1>1, <1>2, <1>3, <1>4, <1>5, <1>6, <1>7, <1>8, <1>9 DEF Driver

\* The driver keeps every variable typed, and whatever will write a cursor or
\* a checkpoint knows QBO's time, for every page size and every clock skew.
THEOREM SyncTypeCorrect == Spec => []TypeOK
<1>1. TypeOK /\ [Next]_vars => TypeOK'
  <2> SUFFICES ASSUME TypeOK, [Next]_vars PROVE TypeOK'
      OBVIOUS
  <2>1. CASE UNCHANGED vars
        BY <2>1 DEF vars, storeVars, memVars, history, TypeOK
  <2>2. QED
        BY <2>1, TypeWorld, TypeDriver DEF Next
<1>2. QED
      BY <1>1, TypeInit, PTL DEF Spec

-----------------------------------------------------------------------------
(***************************************************************************)
(* Nothing is skipped but by slipping.  A record that QBO holds is safe    *)
(* for a time t when it is mirrored, or changed so recently that a poll    *)
(* from the overlap before t returns it.  NothingSkipped says that all are *)
(* safe for the cursor; the invariant says what a sweep, a poll and a      *)
(* backfill still owe before they may make a new cursor: every record not  *)
(* yet safe for that new cursor is in the page that waits, or in the part  *)
(* of the list behind it.                                                  *)
(***************************************************************************)
\* A poll that starts at the overlap before t would return the record.
Reached(k, t) == qbo[k].stamp >= t - Overlap
Safe(k, t) == Mirrored(k) \/ Reached(k, t)

\* The page that waits to be saved holds the record as QBO has it now.
InPage(k) == k \in DOMAIN page /\ page[k] = qbo[k]

\* The record is listed behind a page that was returned full.
Beyond(list, k) ==
    Returned = PageSize /\ k \in list /\ Position(list, k) >= start + PageSize

\* Whatever time a cursor may be made of, the record changed since.
Recent(k) == Reached(k, cursor) /\ Reached(k, asOf) /\ Reached(k, checkpoint.startedAt)

Clocked ==
    /\ cursor <= clock /\ asOf <= clock /\ checkpoint.startedAt <= clock
    /\ pc \in {"pollSave", "backfill", "backfillSave"} => cursor <= asOf

Tokens == \A k \in Ids :
    /\ replica[k].token <= qbo[k].token
    /\ k \in DOMAIN page => page[k].token <= qbo[k].token
    /\ qbo[k].status = "absent" => qbo[k].token = 0

PageCurrent == \A k \in DOMAIN page : qbo[k].status = "live" => InPage(k) \/ Recent(k)

\* A sweep has its checkpoint's pages behind it, and owes the rest: of what it
\* has behind it only the records that left can have moved others there.
SweepOwes == \A k \in Live :
    Safe(k, checkpoint.startedAt) \/ Position(Live, k) >= checkpoint.next - left

SweepFrom ==
    start = 0 \/ /\ checkpoint # NoCheckpoint /\ asOf = checkpoint.startedAt
                 /\ \/ start = checkpoint.next /\ left = 0
                    \/ start = checkpoint.next - PageSize

Reading ==
    /\ pc = "sweep" => SweepFrom
    /\ pc = "sweepSave" =>
         \A k \in Live : Safe(k, asOf) \/ InPage(k) \/ Beyond(Live, k)
    /\ pc = "pollSave" => \A k \in Live : Safe(k, asOf) \/ InPage(k)
    /\ pc = "backfill" =>
         \A k \in Live : Safe(k, asOf) \/ (k \in Window /\ Position(Window, k) >= start)
    /\ pc = "backfillSave" =>
         \A k \in Live : Safe(k, asOf) \/ InPage(k) \/ Beyond(Window, k)
    /\ pc \in {"sweepSave", "backfillSave"} => Returned <= PageSize

Kept == NothingSkipped /\ SweepOwes /\ left <= PageSize /\ Reading

NInv == TypeOK /\ Clocked /\ Tokens /\ PageCurrent /\ (slipped \/ Kept)

\* The numbers behind the type invariant.
LEMMA Numbers ==
    ASSUME TypeOK
    PROVE  /\ clock \in Nat /\ cursor \in Int /\ cursor >= -1 /\ asOf \in Int /\ asOf >= -1
           /\ start \in Nat /\ left \in Nat /\ Returned \in Nat /\ slipped \in BOOLEAN
           /\ checkpoint.next \in Nat
           /\ checkpoint.startedAt \in Int /\ checkpoint.startedAt >= -1
           /\ checkpoint # NoCheckpoint => checkpoint.startedAt \in Nat
           /\ \A k \in Ids : /\ qbo[k].token \in Nat /\ qbo[k].stamp \in Nat
                              /\ replica[k].token \in Nat
           /\ Overlap \in Nat /\ PageSize \in Nat \ {0} /\ MaxId \in Nat
<1>1. checkpoint.next \in Nat /\ checkpoint.startedAt \in Int /\ checkpoint.startedAt >= -1
      /\ (checkpoint # NoCheckpoint => checkpoint.startedAt \in Nat)
  <2>1. CASE checkpoint = NoCheckpoint
        BY <2>1 DEF NoCheckpoint
  <2>2. CASE checkpoint \in [next : Nat \ {0}, startedAt : Nat]
        BY <2>2
  <2>3. QED
        BY <2>1, <2>2 DEF TypeOK
<1>2. Returned \in Nat
      BY ReturnedIsNat DEF TypeOK
<1>3. \A k \in Ids : qbo[k] \in Records /\ replica[k] \in Records
      BY DEF TypeOK
<1>4. \A k \in Ids : /\ qbo[k].token \in Nat /\ qbo[k].stamp \in Nat
                     /\ replica[k].token \in Nat
      BY <1>3 DEF Records
<1>5. QED
      BY <1>1, <1>2, <1>4, SizesAssumption, TimesAssumption DEF TypeOK, Times

\* A position is the rank of CommonProofs, a number.
LEMMA PositionIsNat ==
    ASSUME NEW list \in SUBSET Ids, NEW k
    PROVE  Position(list, k) \in Nat /\ Position(list, k) = Rank(list, k)
<1>1. Position(list, k) = Rank(list, k)
      BY DEF Position, Rank
<1>2. Rank(list, k) \in Nat
      BY SizesAssumption, RankIsNat
<1>3. QED
      BY <1>1, <1>2

\* Before there is a cursor every record is safe: the whole book is to come.
LEMMA SafeForCursor ==
    ASSUME TypeOK
    PROVE  NothingSkipped <=> \A k \in Live : Safe(k, cursor)
<1>1. \A k \in Live : k \in Ids
      BY DEF Live
<1>2. \A k \in Live : Reached(k, cursor) <=> qbo[k].stamp >= ReachBack
      BY DEF Reached, ReachBack
<1>3. cursor = None => \A k \in Live : Reached(k, cursor)
      BY <1>1, Numbers DEF Reached
<1>4. QED
      BY <1>2, <1>3 DEF NothingSkipped, Safe

\* What saving the page does to a record: a current copy in it arrives, and a
\* stale copy in it overwrites only what the next poll returns anyway.
LEMMA StoreKeepsSafe ==
    ASSUME TypeOK, Tokens, PageCurrent, qbo' = qbo,
           replica' = Overwritten \/ replica' = Merged, NEW k \in Live
    PROVE  /\ InPage(k) => Mirrored(k)'
           /\ Mirrored(k) => Mirrored(k)' \/ Recent(k)
<1>1. k \in Ids /\ qbo[k].status = "live"
      BY DEF Live
<1>2. k \notin DOMAIN page => replica'[k] = replica[k]
      BY <1>1 DEF Overwritten, Merged
<1>3. ASSUME InPage(k) PROVE Mirrored(k)'
  <2>1. replica[k].token <= qbo[k].token /\ replica[k].token \in Nat /\ qbo[k].token \in Nat
        BY <1>1, Numbers DEF Tokens
  <2>2. k \in DOMAIN page /\ page[k] = qbo[k]
        BY <1>3 DEF InPage
  <2>3. HoldsThisVersionOrNewer(k, page[k]) => replica[k] = qbo[k]
        BY <2>1, <2>2 DEF HoldsThisVersionOrNewer, Held
  <2>4. replica'[k] = qbo[k]
        BY <1>1, <2>2, <2>3 DEF Overwritten, Merged
  <2>5. QED
        BY <2>4 DEF Mirrored
<1>4. k \in DOMAIN page => InPage(k) \/ Recent(k)
      BY <1>1 DEF PageCurrent
<1>5. QED
      BY <1>2, <1>3, <1>4 DEF Mirrored

\* The stored copies never run ahead of QBO's.
LEMMA StoreKeepsTokens ==
    ASSUME TypeOK, Tokens, qbo' = qbo, page' = NoPage,
           replica' = Overwritten \/ replica' = Merged
    PROVE  Tokens' /\ PageCurrent'
<1>1. \A k \in Ids : replica'[k] = replica[k] \/ (k \in DOMAIN page /\ replica'[k] = page[k])
      BY DEF Overwritten, Merged
<1>2. DOMAIN page' = {}
      BY DEF NoPage
<1>3. QED
      BY <1>1, <1>2 DEF Tokens, PageCurrent

\* A step that leaves the records, the store and the count of departures
\* alone changes nothing that is owed between two calls.
LEMMA QuietKeeps ==
    ASSUME UNCHANGED <<qbo, storeVars, left>>, Kept
    PROVE  (NothingSkipped /\ SweepOwes /\ left <= PageSize)'
<1>1. /\ qbo' = qbo /\ replica' = replica /\ cursor' = cursor
      /\ checkpoint' = checkpoint /\ left' = left
      BY DEF storeVars
<1>2. NothingSkipped'
      BY <1>1 DEF Kept, NothingSkipped, Live, Mirrored, ReachBack
<1>3. SweepOwes'
      BY <1>1 DEF Kept, SweepOwes, Live, Safe, Mirrored, Reached, Position
<1>4. QED
      BY <1>1, <1>2, <1>3 DEF Kept

\* Nor does it, when no page waits, let a stored copy run ahead.
LEMMA QuietKeepsTokens ==
    ASSUME UNCHANGED <<qbo, storeVars>>, Tokens, page' = NoPage
    PROVE  Tokens' /\ PageCurrent'
<1>1. qbo' = qbo /\ replica' = replica /\ DOMAIN page' = {}
      BY DEF storeVars, NoPage
<1>2. QED
      BY <1>1 DEF Tokens, PageCurrent

\* A sweep begins at the first record, or backs up a page from its checkpoint.
LEMMA SweepBegins ==
    ASSUME NInv, TypeOK', NEW t, BeginSweep(t),
           UNCHANGED <<clock, qbo, covered, storeVars, history>>
    PROVE  NInv'
<1>1. /\ pc' = "sweep" /\ page' = NoPage
      /\ \/ start' = ResumeStart /\ asOf' = checkpoint.startedAt /\ checkpoint # NoCheckpoint
         \/ start' = 0 /\ asOf' = None
      BY DEF BeginSweep
<1>2. /\ qbo' = qbo /\ clock' = clock /\ cursor' = cursor /\ checkpoint' = checkpoint
      /\ left' = left /\ slipped' = slipped
      BY DEF storeVars, history
<1>3. Tokens' /\ PageCurrent'
      BY <1>1, QuietKeepsTokens DEF NInv
<1>4. Clocked'
      BY <1>1, <1>2, Numbers DEF NInv, Clocked
<1>5. ASSUME ~slipped PROVE Kept'
  <2>1. Kept
        BY <1>5 DEF NInv
  <2>2. (NothingSkipped /\ SweepOwes /\ left <= PageSize)'
        BY <2>1, QuietKeeps DEF history
  <2>3. SweepFrom'
    <3>1. CASE start' = 0 /\ asOf' = None
          BY <3>1 DEF SweepFrom
    <3>2. CASE start' = ResumeStart /\ asOf' = checkpoint.startedAt /\ checkpoint # NoCheckpoint
      <4>1. start' = 0 \/ start' = checkpoint.next - PageSize
            BY <3>2 DEF ResumeStart, Later
      <4>2. QED
            BY <1>2, <3>2, <4>1 DEF SweepFrom
    <3>3. QED
          BY <1>1, <3>1, <3>2
  <2>4. Reading'
        BY <1>1, <2>3 DEF Reading
  <2>5. QED
        BY <2>2, <2>4 DEF Kept
<1>6. QED
      BY <1>2, <1>3, <1>4, <1>5 DEF NInv

\* A call that is cut short leaves only what it saved.
LEMMA FailKeeps == NInv /\ TypeOK' /\ Fail => NInv'
<1> SUFFICES ASSUME NInv, TypeOK', Fail PROVE NInv'
    OBVIOUS
<1>1. /\ pc' = "idle" /\ asOf' = None /\ page' = NoPage
      /\ UNCHANGED <<clock, qbo, covered, storeVars, left, slipped, changes>>
      BY DEF Fail, Idle
<1>2. clock' = clock /\ cursor' = cursor /\ checkpoint' = checkpoint
      BY <1>1 DEF storeVars
<1>3. Tokens' /\ PageCurrent'
      BY <1>1, QuietKeepsTokens DEF NInv
<1>4. Clocked'
      BY <1>1, <1>2, Numbers DEF NInv, Clocked
<1>5. Kept => Kept'
      BY <1>1, QuietKeeps DEF Kept, Reading
<1>6. QED
      BY <1>1, <1>3, <1>4, <1>5 DEF NInv

LEMMA TickKeeps == NInv /\ TypeOK' /\ Tick => NInv'
<1> SUFFICES ASSUME NInv, TypeOK', Tick PROVE NInv'
    OBVIOUS
<1>1. /\ clock' = clock + 1 /\ pc' = pc /\ asOf' = asOf /\ page' = page /\ start' = start
      /\ cursor' = cursor /\ checkpoint' = checkpoint /\ left' = left /\ slipped' = slipped
      /\ qbo' = qbo /\ replica' = replica
      BY DEF Tick, storeVars, memVars, history
<1>2. Clocked'
      BY <1>1, Numbers DEF NInv, Clocked
<1>3. Tokens' /\ PageCurrent'
      BY <1>1 DEF NInv, Tokens, PageCurrent, InPage, Recent, Reached
<1>4. Kept => Kept'
  <2>1. Live' = Live /\ Window' = Window /\ Returned' = Returned
        BY <1>1 DEF Live, Window, InWindow, ReachBack, Returned
  <2>2. NothingSkipped' = NothingSkipped
        BY <1>1, <2>1 DEF NothingSkipped, Mirrored, ReachBack
  <2>3. SweepOwes' = SweepOwes
        BY <1>1, <2>1 DEF SweepOwes, Safe, Mirrored, Reached, Position
  <2>4. Reading' = Reading
        BY <1>1, <2>1 DEF Reading, SweepFrom, Safe, Mirrored, Reached, Position, InPage, Beyond
  <2>5. QED
        BY <1>1, <2>2, <2>3, <2>4 DEF Kept
<1>5. QED
      BY <1>1, <1>2, <1>3, <1>4 DEF NInv

-----------------------------------------------------------------------------
\* A poll is planned while the cursor is young enough for CDC to reach back to
\* the overlap before it, however far apart the two clocks are: what the
\* answer leaves out is already safe.
LEMMA PollCovers ==
    ASSUME TypeOK, NEW t \in LocalTimes, ~PlansSweep(t), NEW k \in Live,
           Reached(k, cursor)
    PROVE  k \in Changed
<1>1. /\ t \in Int /\ t >= clock - LocalSkew /\ t - cursor < MaxAge
  <2>1. Later(0, clock - LocalSkew) >= clock - LocalSkew
        BY Numbers, TimesAssumption DEF Later
  <2>2. t \in Int /\ t >= Later(0, clock - LocalSkew)
        BY Numbers, TimesAssumption DEF LocalTimes, Later
  <2>3. ~(t - cursor >= MaxAge)
        BY DEF PlansSweep
  <2>4. QED
        BY <2>1, <2>2, <2>3, Numbers, TimesAssumption DEF Later
<1>2. clock - Lookback <= ReachBack
      BY <1>1, Numbers, TimesAssumption DEF ReachBack
<1>3. qbo[k].stamp >= Later(ReachBack, clock - Lookback)
      BY <1>2, Numbers DEF Later, Reached, ReachBack
<1>4. k \in Ids /\ qbo[k].status # "absent"
      BY DEF Live
<1>5. QED
      BY <1>3, <1>4 DEF Changed

LEMMA PollKeeps == NInv /\ TypeOK' /\ Poll => NInv'
<1> SUFFICES ASSUME NInv, TypeOK', Poll PROVE NInv'
    OBVIOUS
<1>1. PICK t \in LocalTimes, time \in ServerTimes :
        /\ ~PlansSweep(t)
        /\ \/ BeginSweep(t)
           \/ /\ time >= cursor
              /\ pc' = "backfill" /\ start' = 0 /\ asOf' = time /\ page' = NoPage
           \/ /\ time >= cursor
              /\ pc' = "pollSave" /\ start' = 0 /\ asOf' = time
              /\ page' = [k \in Changed |-> Payload(qbo[k])]
      BY DEF Poll
<1>2. UNCHANGED <<clock, qbo, covered, storeVars, history>>
      BY DEF Poll
<1>3. /\ qbo' = qbo /\ clock' = clock /\ cursor' = cursor /\ checkpoint' = checkpoint
      /\ replica' = replica /\ left' = left /\ slipped' = slipped
      BY <1>2 DEF storeVars, history
<1>4. time \in Int /\ time <= clock
      BY Numbers, ClocksTyped, TimesAssumption DEF NInv, TypeOK, ServerTimes
<1>5. Kept => \A k \in Live : Mirrored(k) \/ Reached(k, cursor)
      BY SafeForCursor DEF NInv, Kept, Safe
<1>6. Kept => (NothingSkipped /\ SweepOwes /\ left <= PageSize)'
      BY <1>2, QuietKeeps DEF history
<1>7. CASE BeginSweep(t)
      BY <1>2, <1>7, SweepBegins
<1>8. CASE /\ time >= cursor
           /\ pc' = "backfill" /\ start' = 0 /\ asOf' = time /\ page' = NoPage
  <2>1. Tokens' /\ PageCurrent'
        BY <1>2, <1>8, QuietKeepsTokens DEF NInv
  <2>2. Clocked'
        BY <1>3, <1>4, <1>8 DEF NInv, Clocked
  <2>3. ASSUME Kept PROVE Reading'
    <3>1. SUFFICES ASSUME NEW k \in Live'
                   PROVE (Safe(k, asOf) \/ (k \in Window /\ Position(Window, k) >= start))'
          BY <1>8 DEF Reading
    <3>2. k \in Live /\ k \in Ids /\ k \in 1 .. MaxId
          BY <1>3 DEF Live
    <3>3. CASE Mirrored(k) \/ qbo[k].stamp >= time - Overlap
          BY <1>3, <1>8, <3>3 DEF Safe, Mirrored, Reached
    <3>4. CASE ~Mirrored(k) /\ ~(qbo[k].stamp >= time - Overlap)
      <4>1. Reached(k, cursor)
            BY <1>5, <2>3, <3>2, <3>4
      <4>2. qbo[k].stamp < time
            BY <1>4, <3>2, <3>4, Numbers DEF NInv
      <4>3. k \in Window'
            BY <1>3, <1>8, <3>2, <4>1, <4>2 DEF Live, Window, InWindow, Reached, ReachBack
      <4>4. Window' \in SUBSET Ids
            BY DEF Window
      <4>5. Position(Window', k) \in Nat
            BY <4>4, PositionIsNat
      <4>6. Position(Window, k)' >= start'
            BY <1>8, <4>5 DEF Position
      <4>7. QED
            BY <4>3, <4>6
    <3>5. QED
          BY <3>3, <3>4
  <2>4. Kept => Kept'
        BY <1>6, <2>3 DEF Kept
  <2>5. QED
        BY <1>3, <2>1, <2>2, <2>4 DEF NInv
<1>9. CASE /\ time >= cursor
           /\ pc' = "pollSave" /\ start' = 0 /\ asOf' = time
           /\ page' = [k \in Changed |-> Payload(qbo[k])]
  <2>1. \A k \in Changed : /\ k \in Ids
                           /\ qbo[k].status # "deleted" => page'[k] = qbo[k]
                           /\ page'[k].token <= qbo[k].token
    <3>1. SUFFICES ASSUME NEW k \in Changed
                   PROVE /\ k \in Ids
                         /\ qbo[k].status # "deleted" => page'[k] = qbo[k]
                         /\ page'[k].token <= qbo[k].token
          OBVIOUS
    <3>2. k \in Ids /\ page'[k] = Payload(qbo[k])
          BY <1>9 DEF Changed
    <3>3. qbo[k].token \in Nat
          BY <3>2, Numbers DEF NInv
    <3>4. QED
          BY <3>2, <3>3 DEF Payload, Record
  <2>2. DOMAIN page' = Changed
        BY <1>9
  <2>3. Tokens'
        BY <1>3, <2>1, <2>2 DEF NInv, Tokens
  <2>4. PageCurrent'
        BY <1>3, <2>1, <2>2 DEF PageCurrent, InPage
  <2>5. Clocked'
        BY <1>3, <1>4, <1>9 DEF NInv, Clocked
  <2>6. ASSUME Kept PROVE Reading'
    <3>1. SUFFICES ASSUME NEW k \in Live' PROVE (Safe(k, asOf) \/ InPage(k))'
          BY <1>9 DEF Reading
    <3>2. k \in Live /\ qbo[k].status = "live"
          BY <1>3 DEF Live
    <3>3. CASE Mirrored(k)
          BY <1>3, <3>3 DEF Safe, Mirrored
    <3>4. CASE Reached(k, cursor)
      <4>1. k \in Changed
            BY <1>1, <3>2, <3>4, PollCovers DEF NInv
      <4>2. QED
            BY <1>3, <2>1, <2>2, <3>2, <4>1 DEF InPage
    <3>5. QED
          BY <1>5, <2>6, <3>2, <3>3, <3>4
  <2>7. Kept => Kept'
        BY <1>6, <2>6 DEF Kept
  <2>8. QED
        BY <1>3, <2>3, <2>4, <2>5, <2>7 DEF NInv
<1>10. QED
       BY <1>1, <1>7, <1>8, <1>9

-----------------------------------------------------------------------------
\* Saving a page makes no record unsafe for a time that a cursor may be made of.
LEMMA StaysSafe ==
    ASSUME NInv, qbo' = qbo, replica' = Overwritten \/ replica' = Merged, NEW k \in Live,
           NEW t \in {cursor, asOf, checkpoint.startedAt}
    PROVE  /\ Safe(k, t) => Mirrored(k)' \/ Reached(k, t)
           /\ InPage(k) => Mirrored(k)'
BY StoreKeepsSafe DEF NInv, Safe, Recent

\* What was promised of the cursor and the checkpoint that stay.
LEMMA StoreKeepsPromises ==
    ASSUME NInv, TypeOK', Kept, qbo' = qbo, replica' = Overwritten \/ replica' = Merged
    PROVE  /\ cursor' = cursor => NothingSkipped'
           /\ checkpoint' = checkpoint /\ left' = left => SweepOwes'
<1>1. Live' = Live
      BY DEF Live
<1>2. \A k \in Live : Safe(k, cursor)
      BY SafeForCursor DEF NInv, Kept
<1>3. ASSUME cursor' = cursor PROVE NothingSkipped'
      BY <1>1, <1>2, <1>3, StaysSafe DEF NothingSkipped, Reached, ReachBack
<1>4. ASSUME checkpoint' = checkpoint, left' = left PROVE SweepOwes'
  <2>1. SUFFICES ASSUME NEW k \in Live'
                 PROVE (Safe(k, checkpoint.startedAt)
                          \/ Position(Live, k) >= checkpoint.next - left)'
        BY DEF SweepOwes
  <2>2. Safe(k, checkpoint.startedAt) \/ Position(Live, k) >= checkpoint.next - left
        BY <1>1, <2>1 DEF Kept, SweepOwes
  <2>3. Safe(k, checkpoint.startedAt) => Safe(k, checkpoint.startedAt)'
        BY <1>1, <1>4, StaysSafe DEF Safe, Reached
  <2>4. Position(Live, k)' = Position(Live, k)
        BY <1>1 DEF Position
  <2>5. QED
        BY <1>4, <2>2, <2>3, <2>4
<1>5. QED
      BY <1>3, <1>4

\* A cursor made of asOf, once all records are safe for it.
LEMMA NewCursor ==
    ASSUME NInv, qbo' = qbo, replica' = Overwritten \/ replica' = Merged, cursor' = asOf,
           \A k \in Live : Safe(k, asOf) \/ InPage(k)
    PROVE  NothingSkipped'
<1>1. Live' = Live
      BY DEF Live
<1>2. \A k \in Live : Mirrored(k)' \/ Reached(k, asOf)
      BY StaysSafe
<1>3. QED
      BY <1>1, <1>2 DEF NothingSkipped, Reached, ReachBack

LEMMA SavePollKeeps == NInv /\ TypeOK' /\ SavePoll => NInv'
<1> SUFFICES ASSUME NInv, TypeOK', SavePoll PROVE NInv'
    OBVIOUS
<1>1. /\ pc = "pollSave" /\ pc' = "idle" /\ page' = NoPage /\ asOf' = None
      /\ replica' = Merged /\ cursor' = Later(cursor, asOf) /\ qbo' = qbo
      /\ clock' = clock /\ checkpoint' = checkpoint /\ left' = left /\ slipped' = slipped
      BY DEF SavePoll, Idle, history
<1>2. cursor' = asOf
      BY <1>1, Numbers DEF NInv, Clocked, Later
<1>3. Tokens' /\ PageCurrent'
      BY <1>1, StoreKeepsTokens DEF NInv
<1>4. Clocked'
      BY <1>1, <1>2, Numbers DEF NInv, Clocked
<1>5. ASSUME Kept PROVE Kept'
  <2>1. NothingSkipped'
        BY <1>1, <1>2, <1>5, NewCursor DEF Kept, Reading
  <2>2. SweepOwes'
        BY <1>1, <1>5, StoreKeepsPromises
  <2>3. QED
        BY <1>1, <1>5, <2>1, <2>2 DEF Kept, Reading
<1>6. QED
      BY <1>1, <1>3, <1>4, <1>5 DEF NInv

-----------------------------------------------------------------------------
\* A page holds the records of its places as QBO has them, never more than it
\* may, and is full as long as others are listed behind it.
LEMMA PageRead ==
    ASSUME TypeOK, NEW list \in SUBSET Ids, page' = PageOf(list, start), start' = start,
           qbo' = qbo
    PROVE  /\ DOMAIN page' \subseteq list /\ \A k \in DOMAIN page' : InPage(k)'
           /\ Returned' <= PageSize
           /\ \A k \in list : Position(list, k) >= start =>
                InPage(k)' \/ (Returned' = PageSize /\ Position(list, k) >= start + PageSize)
<1>1. /\ DOMAIN page' \subseteq list
      /\ \A k \in list : k \in DOMAIN page' <=>
                           Rank(list, k) \in start .. start + PageSize - 1
      /\ \A k \in DOMAIN page' : page'[k] = qbo[k]
      BY DEF PageOf, Position, Rank
<1>2. /\ start \in Nat /\ PageSize \in Nat \ {0} /\ MaxId \in Nat
      BY Numbers
<1>3. /\ Cardinality(DOMAIN page') \in 0 .. PageSize
      /\ \A k \in list : Rank(list, k) >= start + PageSize =>
           Cardinality(DOMAIN page') = PageSize
      BY <1>1, <1>2, PageLength
<1>4. ASSUME NEW k \in list, Position(list, k) >= start
      PROVE  InPage(k)' \/ (Returned' = PageSize /\ Position(list, k) >= start + PageSize)
  <2>1. Rank(list, k) \in Nat /\ Rank(list, k) = Position(list, k)
        BY PositionIsNat
  <2>2. CASE Rank(list, k) >= start + PageSize
        BY <1>3, <2>1, <2>2 DEF Returned
  <2>3. CASE ~(Rank(list, k) >= start + PageSize)
    <3>1. Rank(list, k) \in start .. start + PageSize - 1
          BY <1>2, <1>4, <2>1, <2>3
    <3>2. QED
          BY <1>1, <3>1 DEF InPage
  <2>4. QED
        BY <2>2, <2>3
<1>5. QED
      BY <1>1, <1>2, <1>3, <1>4 DEF InPage, Returned

\* The page read has no copy ahead of QBO's.
LEMMA PageReadTokens ==
    ASSUME TypeOK, Tokens, qbo' = qbo, replica' = replica, DOMAIN page' \subseteq Ids,
           \A k \in DOMAIN page' : InPage(k)'
    PROVE  Tokens' /\ PageCurrent'
<1>1. \A k \in DOMAIN page' : page'[k] = qbo[k]
      BY DEF InPage
<1>2. \A k \in Ids : qbo[k].token <= qbo[k].token
      BY Numbers
<1>3. QED
      BY <1>1, <1>2 DEF Tokens, PageCurrent

\* Whatever part of the list a resumed sweep does not read again is safe.
LEMMA ReadSweepPageKeeps == NInv /\ TypeOK' /\ ReadSweepPage => NInv'
<1> SUFFICES ASSUME NInv, TypeOK', ReadSweepPage PROVE NInv'
    OBVIOUS
<1>1. PICK time \in ServerTimes :
        /\ pc = "sweep" /\ pc' = "sweepSave" /\ page' = PageOf(Live, start)
        /\ asOf' = IF asOf = None THEN time ELSE asOf
        /\ UNCHANGED <<clock, qbo, covered, storeVars, now, start, history>>
      BY DEF ReadSweepPage
<1>2. /\ qbo' = qbo /\ clock' = clock /\ cursor' = cursor /\ checkpoint' = checkpoint
      /\ replica' = replica /\ left' = left /\ slipped' = slipped /\ start' = start
      BY <1>1 DEF storeVars, history
<1>3. time \in Int /\ time <= clock
      BY Numbers, ClocksTyped, TimesAssumption DEF NInv, TypeOK, ServerTimes
<1>4. /\ DOMAIN page' \subseteq Live /\ \A k \in DOMAIN page' : InPage(k)'
      /\ Returned' <= PageSize
      /\ \A k \in Live : Position(Live, k) >= start =>
           InPage(k)' \/ (Returned' = PageSize /\ Position(Live, k) >= start + PageSize)
  <2>1. Live \in SUBSET Ids
        BY DEF Live
  <2>2. QED
        BY <1>1, <1>2, <2>1, PageRead DEF NInv
<1>5. Tokens' /\ PageCurrent'
      BY <1>2, <1>4, PageReadTokens DEF NInv, Live
<1>6. Clocked'
      BY <1>1, <1>2, <1>3, Numbers DEF NInv, Clocked
<1>7. ASSUME Kept PROVE Reading'
  <2>1. SUFFICES ASSUME NEW k \in Live'
                 PROVE (Safe(k, asOf) \/ InPage(k) \/ Beyond(Live, k))'
        BY <1>1, <1>4 DEF Reading
  <2>2. k \in Live /\ k \in 1 .. MaxId /\ Live' = Live /\ Live \in SUBSET (1 .. MaxId)
        BY <1>2 DEF Live
  <2>3. Position(Live, k) \in Nat /\ Position(Live, k)' = Position(Live, k)
        BY <2>2, Numbers, PositionIsNat DEF NInv
  <2>4. CASE Position(Live, k) >= start
        BY <1>2, <1>4, <2>2, <2>3, <2>4 DEF Beyond
  <2>5. CASE ~(Position(Live, k) >= start)
    <3>1. /\ checkpoint # NoCheckpoint /\ asOf = checkpoint.startedAt
          /\ \/ start = checkpoint.next /\ left = 0
             \/ start = checkpoint.next - PageSize
      <4>1. SweepFrom
            BY <1>1, <1>7 DEF Kept, Reading
      <4>2. start # 0
            BY <2>3, <2>5
      <4>3. QED
            BY <4>1, <4>2 DEF SweepFrom
    <3>2. left <= PageSize
          BY <1>7 DEF Kept
    <3>3. ~(Position(Live, k) >= checkpoint.next - left)
          BY <2>3, <2>5, <3>1, <3>2, Numbers DEF NInv
    <3>4. Safe(k, asOf)
          BY <1>7, <2>2, <3>1, <3>3 DEF Kept, SweepOwes
    <3>5. asOf' = asOf
          BY <1>1, <3>1, Numbers DEF NInv
    <3>6. QED
          BY <1>2, <3>4, <3>5 DEF Safe, Mirrored, Reached
  <2>6. QED
        BY <2>4, <2>5
<1>8. Kept => Kept'
      BY <1>1, <1>7, QuietKeeps DEF Kept, history
<1>9. QED
      BY <1>2, <1>5, <1>6, <1>8 DEF NInv

LEMMA SaveSweepPageKeeps == NInv /\ TypeOK' /\ SaveSweepPage => NInv'
<1> SUFFICES ASSUME NInv, TypeOK', SaveSweepPage PROVE NInv'
    OBVIOUS
<1>1. /\ pc = "sweepSave" /\ replica' = Overwritten /\ left' = 0 /\ page' = NoPage
      /\ clock' = clock /\ qbo' = qbo /\ slipped' = slipped
      BY DEF SaveSweepPage, Idle
<1>2. Tokens' /\ PageCurrent'
      BY <1>1, StoreKeepsTokens DEF NInv
<1>3. Live' = Live
      BY <1>1 DEF Live
<1>4. Kept => /\ \A k \in Live : Safe(k, asOf) \/ InPage(k) \/ Beyond(Live, k)
              /\ Returned <= PageSize
      BY <1>1 DEF Kept, Reading
<1>5. CASE LastPage
  <2>1. cursor' = asOf /\ checkpoint' = NoCheckpoint /\ pc' = "idle" /\ asOf' = None
        BY <1>5 DEF SaveSweepPage, Idle
  <2>2. Clocked'
        BY <1>1, <2>1, Numbers DEF NInv, Clocked, NoCheckpoint
  <2>3. ASSUME Kept PROVE Kept'
    <3>1. \A k \in Live : Safe(k, asOf) \/ InPage(k)
      <4>1. Returned # PageSize
            BY <1>5, Numbers DEF NInv, LastPage
      <4>2. QED
            BY <1>4, <2>3, <4>1 DEF Beyond
    <3>2. NothingSkipped'
          BY <1>1, <2>1, <3>1, NewCursor
    <3>3. \A k \in Live : Reached(k, None)
          BY Numbers DEF NInv, Live, Reached
    <3>4. SweepOwes'
          BY <1>1, <1>3, <2>1, <3>3 DEF SweepOwes, Safe, Reached, NoCheckpoint
    <3>5. QED
          BY <1>1, <2>1, <3>2, <3>4, Numbers DEF NInv, Kept, Reading
  <2>4. QED
        BY <1>1, <1>2, <2>2, <2>3 DEF NInv
<1>6. CASE ~LastPage
  <2>1. /\ checkpoint' = [next |-> start + Returned, startedAt |-> asOf] /\ pc' = "sweep"
        /\ start' = start + Returned /\ cursor' = cursor /\ asOf' = asOf
        BY <1>6 DEF SaveSweepPage
  <2>2. Clocked'
        BY <1>1, <2>1 DEF NInv, Clocked
  <2>3. ASSUME Kept PROVE Kept'
    <3>1. NothingSkipped'
          BY <1>1, <2>1, <2>3, StoreKeepsPromises
    <3>2. SweepOwes'
      <4>1. SUFFICES ASSUME NEW k \in Live'
                     PROVE (Safe(k, checkpoint.startedAt)
                              \/ Position(Live, k) >= checkpoint.next - left)'
            BY DEF SweepOwes
      <4>2. CASE Safe(k, asOf) \/ InPage(k)
            BY <1>1, <1>3, <2>1, <4>2, StaysSafe DEF Safe, Reached
      <4>3. CASE Beyond(Live, k)
        <5>1. Position(Live, k) >= start + Returned /\ Position(Live, k)' = Position(Live, k)
              BY <1>3, <4>3 DEF Beyond, Position
        <5>2. QED
              BY <1>1, <2>1, <5>1, Numbers DEF NInv
      <4>4. QED
            BY <1>3, <1>4, <2>3, <4>2, <4>3
    <3>3. SweepFrom'
      <4>1. checkpoint' # NoCheckpoint
        <5>1. start + Returned # 0
              BY <1>6, Numbers DEF NInv, LastPage
        <5>2. QED
              BY <2>1, <5>1 DEF NoCheckpoint
      <4>2. QED
            BY <1>1, <2>1, <4>1 DEF SweepFrom
    <3>4. QED
          BY <1>1, <2>1, <3>1, <3>2, <3>3, Numbers DEF NInv, Kept, Reading
  <2>4. QED
        BY <1>1, <1>2, <2>2, <2>3 DEF NInv
<1>7. QED
      BY <1>5, <1>6

-----------------------------------------------------------------------------
LEMMA ReadBackfillPageKeeps == NInv /\ TypeOK' /\ ReadBackfillPage => NInv'
<1> SUFFICES ASSUME NInv, TypeOK', ReadBackfillPage PROVE NInv'
    OBVIOUS
<1>1. /\ pc = "backfill" /\ pc' = "backfillSave" /\ page' = PageOf(Window, start)
      /\ UNCHANGED <<clock, qbo, covered, storeVars, now, start, asOf, history>>
      BY DEF ReadBackfillPage
<1>2. /\ qbo' = qbo /\ clock' = clock /\ cursor' = cursor /\ checkpoint' = checkpoint
      /\ replica' = replica /\ left' = left /\ slipped' = slipped /\ start' = start
      /\ asOf' = asOf
      BY <1>1 DEF storeVars, history
<1>3. Live' = Live /\ Window' = Window
      BY <1>2 DEF Live, Window, InWindow, ReachBack
<1>4. /\ DOMAIN page' \subseteq Window /\ \A k \in DOMAIN page' : InPage(k)'
      /\ Returned' <= PageSize
      /\ \A k \in Window : Position(Window, k) >= start =>
           InPage(k)' \/ (Returned' = PageSize /\ Position(Window, k) >= start + PageSize)
  <2>1. Window \in SUBSET Ids
        BY DEF Window
  <2>2. QED
        BY <1>1, <1>2, <2>1, PageRead DEF NInv
<1>5. Tokens' /\ PageCurrent'
      BY <1>2, <1>4, PageReadTokens DEF NInv, Window
<1>6. Clocked'
      BY <1>1, <1>2 DEF NInv, Clocked
<1>7. ASSUME Kept PROVE Reading'
  <2>1. SUFFICES ASSUME NEW k \in Live'
                 PROVE (Safe(k, asOf) \/ InPage(k) \/ Beyond(Window, k))'
        BY <1>1, <1>4 DEF Reading
  <2>2. Safe(k, asOf) \/ (k \in Window /\ Position(Window, k) >= start)
        BY <1>1, <1>3, <1>7 DEF Kept, Reading
  <2>3. Safe(k, asOf) => Safe(k, asOf)'
        BY <1>2 DEF Safe, Mirrored, Reached
  <2>4. Position(Window, k)' = Position(Window, k)
        BY <1>3 DEF Position
  <2>5. QED
        BY <1>2, <1>3, <1>4, <2>2, <2>3, <2>4 DEF Beyond
<1>8. Kept => Kept'
      BY <1>1, <1>7, QuietKeeps DEF Kept, history
<1>9. QED
      BY <1>2, <1>5, <1>6, <1>8 DEF NInv

LEMMA SaveBackfillPageKeeps == NInv /\ TypeOK' /\ SaveBackfillPage => NInv'
<1> SUFFICES ASSUME NInv, TypeOK', SaveBackfillPage PROVE NInv'
    OBVIOUS
<1>1. /\ pc = "backfillSave" /\ replica' = Merged /\ page' = NoPage
      /\ UNCHANGED <<clock, qbo, covered, lastSweep, checkpoint, history>>
      BY DEF SaveBackfillPage, Idle
<1>2. /\ clock' = clock /\ qbo' = qbo /\ checkpoint' = checkpoint
      /\ left' = left /\ slipped' = slipped
      BY <1>1 DEF history
<1>3. Tokens' /\ PageCurrent'
      BY <1>1, StoreKeepsTokens DEF NInv
<1>4. Kept => /\ \A k \in Live : Safe(k, asOf) \/ InPage(k) \/ Beyond(Window, k)
              /\ Returned <= PageSize
      BY <1>1 DEF Kept, Reading
<1>5. Kept => SweepOwes' /\ left' <= PageSize
      BY <1>1, <1>2, StoreKeepsPromises DEF Kept
<1>6. CASE LastPage
  <2>1. cursor' = Later(cursor, asOf) /\ pc' = "idle" /\ asOf' = None
        BY <1>6 DEF SaveBackfillPage, Idle
  <2>2. cursor' = asOf
        BY <1>1, <2>1, Numbers DEF NInv, Clocked, Later
  <2>3. Clocked'
        BY <1>2, <2>1, <2>2, Numbers DEF NInv, Clocked
  <2>4. ASSUME Kept PROVE NothingSkipped'
    <3>1. Returned # PageSize
          BY <1>6, Numbers DEF NInv, LastPage
    <3>2. \A k \in Live : Safe(k, asOf) \/ InPage(k)
          BY <1>4, <2>4, <3>1 DEF Beyond
    <3>3. QED
          BY <1>1, <1>2, <2>2, <3>2, NewCursor
  <2>5. Kept => Kept'
        BY <1>5, <2>1, <2>4 DEF Kept, Reading
  <2>6. QED
        BY <1>2, <1>3, <2>3, <2>5 DEF NInv
<1>7. CASE ~LastPage
  <2>1. pc' = "backfill" /\ start' = start + Returned /\ cursor' = cursor /\ asOf' = asOf
        BY <1>7 DEF SaveBackfillPage
  <2>2. Clocked'
        BY <1>1, <1>2, <2>1 DEF NInv, Clocked
  <2>3. Live' = Live /\ Window' = Window
        BY <1>2, <2>1 DEF Live, Window, InWindow, ReachBack
  <2>4. ASSUME Kept PROVE Reading'
    <3>1. SUFFICES ASSUME NEW k \in Live'
                   PROVE (Safe(k, asOf) \/ (k \in Window /\ Position(Window, k) >= start))'
          BY <2>1 DEF Reading
    <3>2. CASE Safe(k, asOf) \/ InPage(k)
          BY <1>1, <1>2, <2>1, <2>3, <3>2, StaysSafe DEF Safe, Reached
    <3>3. CASE Beyond(Window, k)
          BY <2>1, <2>3, <3>3 DEF Beyond, Position
    <3>4. QED
          BY <1>4, <2>3, <2>4, <3>2, <3>3
  <2>5. Kept => NothingSkipped'
        BY <1>1, <1>2, <2>1, StoreKeepsPromises
  <2>6. Kept => Kept'
        BY <1>5, <2>4, <2>5 DEF Kept
  <2>7. QED
        BY <1>2, <1>3, <2>2, <2>6 DEF NInv
<1>8. QED
      BY <1>6, <1>7

-----------------------------------------------------------------------------
\* A record listed behind a place stays behind it when another comes, changes,
\* or leaves from behind that place.
LEMMA StaysBehind ==
    ASSUME NEW S \in SUBSET Ids, NEW T \in SUBSET Ids, NEW d \in Ids, S \ {d} \subseteq T,
           NEW v \in Int, NEW k \in Ids, Position(S, k) >= v,
           d \in T \/ d \notin S \/ Position(S, d) >= v
    PROVE  Position(T, k) >= v
<1>1. /\ Position(S, k) \in Nat /\ Position(S, d) \in Nat /\ Position(T, k) \in Nat
      /\ Position(S, k) = Rank(S, k) /\ Position(S, d) = Rank(S, d)
      /\ Position(T, k) = Rank(T, k)
      BY PositionIsNat
<1>2. /\ d \in T \/ d \notin S => Rank(T, k) >= Rank(S, k)
      /\ Rank(T, k) >= Rank(S, k) \/ Rank(T, k) >= Rank(S, d)
      BY SizesAssumption, RankKept
<1>3. QED
      BY <1>1, <1>2

\* One that leaves from before it takes it one place forward.
LEMMA MovesUpByOne ==
    ASSUME NEW S \in SUBSET Ids, NEW T \in SUBSET Ids, NEW d \in Ids, S \ {d} \subseteq T,
           NEW v \in Int, NEW k \in Ids, Position(S, k) >= v
    PROVE  Position(T, k) >= v - 1
<1>1. /\ Position(S, k) \in Nat /\ Position(T, k) \in Nat
      /\ Position(S, k) = Rank(S, k) /\ Position(T, k) = Rank(T, k)
      BY PositionIsNat
<1>2. Rank(T, k) >= Rank(S, k) - 1
      BY SizesAssumption, RankKept
<1>3. QED
      BY <1>1, <1>2

\* What a change at QBO does to a call and to the store: the changed record is
\* recent, since no write appears later after its stamp than the overlap, and
\* the others are as safe as they were.
LEMMA ChangeKeeps ==
    ASSUME NInv, TypeOK', NEW d \in Ids, NEW status \in {"live", "deleted"}, NEW token \in Nat,
           token >= qbo[d].token, Change(d, status, token)
    PROVE  NInv'
<1>1. PICK stamp \in Later(clock - CommitLag, qbo[d].stamp) .. clock :
        LET r == Record(status, token, stamp) IN
        /\ qbo' = [qbo EXCEPT ![d] = r]
        /\ left' = IF LeavesBook(d, r) THEN left + 1 ELSE left
        /\ slipped' = (slipped \/ LeavesWindow(d, r) \/ (LeavesBook(d, r) /\ left >= SweepSlack))
        /\ UNCHANGED <<clock, covered, storeVars, memVars, fails>>
      BY DEF Change
<1> DEFINE r == Record(status, token, stamp)
<1>2. /\ clock' = clock /\ replica' = replica /\ cursor' = cursor /\ checkpoint' = checkpoint
      /\ pc' = pc /\ start' = start /\ asOf' = asOf /\ page' = page
      BY <1>1 DEF storeVars, memVars
<1>3. /\ r.status = status /\ r.token = token /\ r.stamp = stamp
      /\ qbo'[d] = r /\ \A k \in Ids : k # d => qbo'[k] = qbo[k]
      BY <1>1 DEF Record, NInv, TypeOK
<1>4. stamp \in Int /\ stamp >= clock - Overlap
  <2>1. /\ Later(clock - CommitLag, qbo[d].stamp) \in Int
        /\ Later(clock - CommitLag, qbo[d].stamp) >= clock - CommitLag
        BY Numbers, TimesAssumption DEF NInv, Later
  <2>2. QED
        BY <2>1, Numbers, TimesAssumption DEF NInv
<1>5. Recent(d)'
  <2>1. /\ stamp >= cursor - Overlap /\ stamp >= asOf - Overlap
        /\ stamp >= checkpoint.startedAt - Overlap
        BY <1>4, Numbers DEF NInv, Clocked
  <2>2. QED
        BY <1>2, <1>3, <2>1 DEF Recent, Reached
<1>6. \A k \in Ids : k # d =>
        /\ k \in Live' <=> k \in Live
        /\ k \in Window' <=> k \in Window
        /\ Mirrored(k)' <=> Mirrored(k)
        /\ InPage(k)' <=> InPage(k)
      BY <1>2, <1>3 DEF Live, Window, InWindow, ReachBack, Mirrored, InPage
<1>7. \A k \in Ids : k # d =>
        /\ Safe(k, cursor)' <=> Safe(k, cursor)
        /\ Safe(k, asOf)' <=> Safe(k, asOf)
        /\ Safe(k, checkpoint.startedAt)' <=> Safe(k, checkpoint.startedAt)
        /\ Recent(k)' <=> Recent(k)
      BY <1>2, <1>3, <1>6 DEF Safe, Recent, Reached
<1>8. Clocked'
      BY <1>2 DEF NInv, Clocked
<1>9. Tokens'
  <2>1. SUFFICES ASSUME NEW k \in Ids
                 PROVE /\ replica[k].token <= qbo'[k].token
                       /\ k \in DOMAIN page => page[k].token <= qbo'[k].token
                       /\ qbo'[k].status = "absent" => qbo'[k].token = 0
        BY <1>2 DEF Tokens
  <2>2. /\ replica[k].token <= qbo[k].token
        /\ k \in DOMAIN page => page[k].token <= qbo[k].token
        /\ qbo[k].status = "absent" => qbo[k].token = 0
        BY DEF NInv, Tokens
  <2>3. CASE k # d
        BY <1>3, <2>2, <2>3
  <2>4. CASE k = d
    <3>1. /\ replica[k].token \in Nat /\ qbo[k].token \in Nat
          /\ k \in DOMAIN page => page[k].token \in Nat
          BY Numbers DEF NInv, TypeOK, Records
    <3>2. qbo'[k].token = token /\ qbo'[k].status # "absent" /\ token >= qbo[k].token
          BY <1>3, <2>4
    <3>3. QED
          BY <2>2, <3>1, <3>2
  <2>5. QED
        BY <2>3, <2>4
<1>10. PageCurrent'
  <2>1. DOMAIN page \subseteq Ids
        BY DEF NInv, TypeOK
  <2>2. \A k \in DOMAIN page : k # d => InPage(k)' \/ Recent(k)' \/ qbo'[k].status # "live"
        BY <1>3, <1>6, <1>7, <2>1 DEF NInv, PageCurrent
  <2>3. QED
        BY <1>2, <1>5, <2>2 DEF PageCurrent
<1>11. ASSUME Kept, ~slipped' PROVE Kept'
  <2>1. ~LeavesWindow(d, r) /\ (LeavesBook(d, r) => ~(left >= SweepSlack))
        BY <1>1, <1>11
  <2>2. /\ Live \in SUBSET Ids /\ Live' \in SUBSET Ids /\ Live \ {d} \subseteq Live'
        /\ Window \in SUBSET Ids /\ Window' \in SUBSET Ids /\ Window \ {d} \subseteq Window'
        BY <1>6 DEF Live, Window
  <2>3. /\ LeavesBook(d, r) => left' = left + 1
        /\ ~LeavesBook(d, r) => left' = left
        BY <1>1
  <2>4. SweepSlack \in {0, PageSize} /\ SweepReadTo \in Int /\ checkpoint.next <= SweepReadTo
        BY Numbers DEF NInv, SweepSlack, SweepReadTo, Later
  <2>5. \/ LeavesBook(d, r) \/ d \in Live' \/ d \notin Live \/ Position(Live, d) >= SweepReadTo
    <3>1. Position(Live, d) \in Int
          BY <2>2, PositionIsNat
    <3>2. d \in Live' <=> r.status = "live"
          BY <1>3 DEF Live
    <3>3. QED
          BY <2>4, <3>1, <3>2 DEF LeavesBook, Live
  <2>6. NothingSkipped'
    <3>1. \A k \in Live : Safe(k, cursor)
          BY <1>11, SafeForCursor DEF NInv, Kept
    <3>2. \A k \in Live' : Safe(k, cursor)'
          BY <1>5, <1>6, <1>7, <2>2, <3>1 DEF Recent, Safe
    <3>3. QED
          BY <3>2 DEF NothingSkipped, Safe, Reached, ReachBack
  <2>7. SweepOwes'
    <3>1. SUFFICES ASSUME NEW k \in Live'
                   PROVE (Safe(k, checkpoint.startedAt)
                            \/ Position(Live, k) >= checkpoint.next - left)'
          BY DEF SweepOwes
    <3>2. k \in Ids
          BY <2>2
    <3>3. CASE k = d
          BY <1>5, <3>3 DEF Recent, Safe
    <3>4. CASE k # d /\ Safe(k, checkpoint.startedAt)
          BY <1>7, <3>2, <3>4
    <3>5. CASE k # d /\ Position(Live, k) >= checkpoint.next - left
      <4>1. checkpoint.next - left \in Int /\ left \in Nat /\ checkpoint.next \in Nat
            BY Numbers DEF NInv
      <4>2. Position(Live, k)' = Position(Live', k)
            BY DEF Position
      <4>3. CASE LeavesBook(d, r)
        <5>1. Position(Live', k) >= checkpoint.next - left - 1
              BY <2>2, <3>2, <3>5, <4>1, MovesUpByOne
        <5>2. QED
              BY <1>2, <2>3, <4>1, <4>2, <4>3, <5>1
      <4>4. CASE ~LeavesBook(d, r)
        <5>1. d \in Live' \/ d \notin Live \/ Position(Live, d) >= checkpoint.next - left
          <6>1. Position(Live, d) \in Int
                BY <2>2, PositionIsNat
          <6>2. QED
                BY <2>4, <2>5, <4>1, <4>4, <6>1
        <5>2. Position(Live', k) >= checkpoint.next - left
              BY <2>2, <3>2, <3>5, <4>1, <5>1, StaysBehind
        <5>3. QED
              BY <1>2, <2>3, <4>2, <4>4, <5>2
      <4>5. QED
            BY <4>3, <4>4
    <3>6. QED
          BY <1>6, <1>11, <3>2, <3>3, <3>4, <3>5 DEF Kept, SweepOwes
  <2>8. left' <= PageSize
        BY <1>11, <2>1, <2>3, <2>4, Numbers DEF NInv, Kept
  <2>9. Reading'
    <3>1. pc = "sweep" => SweepFrom'
      <4>1. ASSUME pc = "sweep", start = checkpoint.next, left = 0 PROVE left' = 0
            BY <2>1, <2>3, <4>1 DEF SweepSlack
      <4>2. QED
            BY <1>2, <1>11, <4>1 DEF Kept, Reading, SweepFrom
    <3>2. ASSUME pc = "sweepSave"
          PROVE  \A k \in Live' : Safe(k, asOf)' \/ InPage(k)' \/ Beyond(Live, k)'
      <4>1. SUFFICES ASSUME NEW k \in Live', k # d, Beyond(Live, k) PROVE Beyond(Live, k)'
            BY <1>5, <1>6, <1>7, <1>11, <2>2, <3>2 DEF Kept, Reading, Recent, Safe
      <4>2. /\ Returned = PageSize /\ Returned' = Returned
            /\ Position(Live, k) >= start + PageSize
            BY <1>2, <4>1 DEF Beyond, Returned
      <4>3. d \in Live' \/ d \notin Live \/ Position(Live, d) >= start + PageSize
        <5>1. ~LeavesBook(d, r)
          <6>1. SweepSlack = 0
                BY <3>2 DEF SweepSlack
          <6>2. QED
                BY <2>1, <6>1, Numbers DEF NInv
        <5>2. start + PageSize <= SweepReadTo
              BY <3>2, <4>2, Numbers DEF NInv, SweepReadTo, Later
        <5>3. Position(Live, d) \in Int /\ start + PageSize \in Int
              BY <2>2, Numbers, PositionIsNat DEF NInv
        <5>4. QED
              BY <2>4, <2>5, <5>1, <5>2, <5>3
      <4>4. Position(Live', k) >= start + PageSize
            BY <2>2, <4>1, <4>2, <4>3, Numbers, StaysBehind DEF NInv
      <4>5. QED
            BY <1>2, <4>1, <4>2, <4>4 DEF Beyond, Position
    <3>3. pc = "pollSave" => \A k \in Live' : Safe(k, asOf)' \/ InPage(k)'
          BY <1>5, <1>6, <1>7, <1>11, <2>2 DEF Kept, Reading, Recent, Safe
    <3>4. ASSUME pc \in {"backfill", "backfillSave"}, NEW v \in Int, v <= BackfillReadTo,
                 NEW k \in Window, k # d, Position(Window, k) >= v
          PROVE  k \in Window' /\ Position(Window, k)' >= v
      <4>1. k \in Ids /\ k \in Window'
            BY <1>6, <2>2, <3>4
      <4>2. d \in Window' <=> InWindow(r)
            BY <1>2, <1>3 DEF Window, InWindow, ReachBack
      <4>3. Position(Window, d) \in Int /\ BackfillReadTo \in Int
            BY <2>2, Numbers, PositionIsNat DEF NInv, BackfillReadTo
      <4>4. d \in Window' \/ d \notin Window \/ Position(Window, d) >= v
            BY <2>1, <3>4, <4>2, <4>3 DEF LeavesWindow
      <4>5. Position(Window', k) >= v
            BY <2>2, <3>4, <4>1, <4>4, StaysBehind
      <4>6. QED
            BY <4>1, <4>5 DEF Position
    <3>5. ASSUME pc = "backfill"
          PROVE  \A k \in Live' :
                   Safe(k, asOf)' \/ (k \in Window' /\ Position(Window, k)' >= start')
      <4>1. SUFFICES ASSUME NEW k \in Live', k # d, k \in Window, Position(Window, k) >= start
                     PROVE k \in Window' /\ Position(Window, k)' >= start'
            BY <1>5, <1>6, <1>7, <1>11, <2>2, <3>5 DEF Kept, Reading, Recent, Safe
      <4>2. start \in Int /\ start <= BackfillReadTo
            BY <3>5, Numbers DEF NInv, BackfillReadTo
      <4>3. QED
            BY <1>2, <3>4, <3>5, <4>1, <4>2
    <3>6. ASSUME pc = "backfillSave"
          PROVE  \A k \in Live' : Safe(k, asOf)' \/ InPage(k)' \/ Beyond(Window, k)'
      <4>1. SUFFICES ASSUME NEW k \in Live', k # d, Beyond(Window, k)
                     PROVE Beyond(Window, k)'
            BY <1>5, <1>6, <1>7, <1>11, <2>2, <3>6 DEF Kept, Reading, Recent, Safe
      <4>2. /\ Returned = PageSize /\ Returned' = Returned /\ k \in Window
            /\ Position(Window, k) >= start + PageSize
            BY <1>2, <4>1 DEF Beyond, Returned
      <4>3. start + PageSize \in Int /\ start + PageSize <= BackfillReadTo
            BY <3>6, <4>2, Numbers DEF NInv, BackfillReadTo
      <4>4. k \in Window' /\ Position(Window, k)' >= start + PageSize
            BY <3>4, <3>6, <4>1, <4>2, <4>3
      <4>5. QED
            BY <1>2, <4>2, <4>4 DEF Beyond
    <3>7. pc \in {"sweepSave", "backfillSave"} => Returned' <= PageSize
          BY <1>2, <1>11 DEF Kept, Reading, Returned
    <3>8. QED
          BY <1>2, <3>1, <3>2, <3>3, <3>5, <3>6, <3>7 DEF Reading
  <2>10. QED
         BY <2>6, <2>7, <2>8, <2>9 DEF Kept
<1>12. slipped' \/ Kept
       BY <1>1 DEF NInv
<1>13. QED
       BY <1>8, <1>9, <1>10, <1>11, <1>12 DEF NInv

\* What people do: create, edit and delete.
LEMMA PeopleKeep == NInv /\ TypeOK' /\ People => NInv'
<1> SUFFICES ASSUME NInv, TypeOK', NEW k \in Ids, Create(k) \/ Edit(k) \/ Delete(k)
             PROVE NInv'
    BY DEF People
<1>1. qbo[k].token \in Nat
      BY Numbers DEF NInv
<1>2. qbo[k].status = "absent" => qbo[k].token = 0
      BY DEF NInv, Tokens
<1>3. CASE Create(k)
      BY <1>1, <1>2, <1>3, ChangeKeeps DEF Create
<1>4. CASE Edit(k)
  <2>1. qbo[k].token + 1 \in Nat /\ qbo[k].token + 1 >= qbo[k].token
        BY <1>1
  <2>2. QED
        BY <1>4, <2>1, ChangeKeeps DEF Edit
<1>5. CASE Delete(k)
  <2>1. qbo[k].token >= qbo[k].token
        BY <1>1
  <2>2. QED
        BY <1>1, <1>5, <2>1, ChangeKeeps DEF Delete
<1>6. QED
      BY <1>3, <1>4, <1>5

-----------------------------------------------------------------------------
LEMMA NInit == Init => NInv
<1> SUFFICES ASSUME Init PROVE NInv
    OBVIOUS
<1>1. TypeOK
      BY TypeInit
<1>2. /\ clock = 0 /\ cursor = None /\ asOf = None /\ pc = "idle" /\ left = 0
      /\ checkpoint.startedAt = None /\ checkpoint.next = 0 /\ DOMAIN page = {}
      BY DEF Init, NoCheckpoint, NoPage
<1>3. Clocked
      BY <1>2 DEF Clocked
<1>4. Tokens
  <2>1. \A k \in Ids : replica[k] = Absent /\ qbo[k] \in {Absent, Record("live", 0, 0)}
        BY DEF Init
  <2>2. QED
        BY <1>2, <2>1 DEF Tokens, Absent, Record
<1>5. \A k \in Live : Safe(k, None)
      BY <1>1, Numbers DEF Live, Safe, Reached
<1>6. SweepOwes /\ NothingSkipped
      BY <1>2, <1>5 DEF SweepOwes, NothingSkipped
<1>7. Reading /\ left <= PageSize
      BY <1>1, <1>2, Numbers DEF Reading
<1>8. QED
      BY <1>1, <1>2, <1>3, <1>4, <1>6, <1>7 DEF NInv, PageCurrent, Kept

\* A version is skipped only by slipping: while no record left the part of a
\* paged read that was behind it, beyond what a resumed sweep absorbs, the
\* cursor never passes a version of a record that QBO holds and that was not
\* fetched.  For every page size, overlap, commit lag and skew of the two
\* clocks within the assumptions that sync.rs states, and however calls fail.
THEOREM SkippedOnlyBySlippingHolds == Spec => []SkippedOnlyBySlipping
<1>1. NInv /\ [Next]_vars => NInv'
  <2> SUFFICES ASSUME NInv, [Next]_vars PROVE NInv'
      OBVIOUS
  <2>1. CASE UNCHANGED vars
    <3>1. /\ clock' = clock /\ qbo' = qbo /\ covered' = covered /\ replica' = replica
          /\ cursor' = cursor /\ lastSweep' = lastSweep /\ checkpoint' = checkpoint
          /\ pc' = pc /\ now' = now /\ start' = start /\ asOf' = asOf /\ page' = page
          /\ left' = left /\ slipped' = slipped /\ changes' = changes /\ fails' = fails
          BY <2>1 DEF vars, storeVars, memVars, history
    <3>2. TypeOK'
          BY <3>1 DEF NInv, TypeOK
    <3>3. Live' = Live /\ Window' = Window /\ Returned' = Returned
          BY <3>1 DEF Live, Window, InWindow, ReachBack, Returned
    <3>4. Clocked' /\ Tokens' /\ PageCurrent'
          BY <3>1 DEF NInv, Clocked, Tokens, PageCurrent, InPage, Recent, Reached
    <3>5. NothingSkipped' = NothingSkipped /\ SweepOwes' = SweepOwes
          BY <3>1, <3>3 DEF NothingSkipped, SweepOwes, Safe, Mirrored, Reached, ReachBack,
             Position
    <3>6. Reading' = Reading
          BY <3>1, <3>3 DEF Reading, SweepFrom, Safe, Mirrored, Reached, Position, InPage,
             Beyond
    <3>7. QED
          BY <3>1, <3>2, <3>4, <3>5, <3>6 DEF NInv, Kept
  <2>2. ASSUME Next PROVE TypeOK'
        BY <2>2, TypeWorld, TypeDriver DEF NInv, Next
  <2>3. CASE Tick
        BY <2>2, <2>3, TickKeeps DEF Next
  <2>4. CASE People
        BY <2>2, <2>4, PeopleKeep DEF Next
  <2>5. CASE Fail
        BY <2>2, <2>5, FailKeeps DEF Next
  <2>6. CASE Driver
    <3>1. TypeOK'
          BY <2>2, <2>6 DEF Next
    <3>2. CASE StartSweep
      <4>1. PICK t : BeginSweep(t) /\ UNCHANGED <<clock, qbo, covered, storeVars, history>>
            BY <3>2 DEF StartSweep
      <4>2. QED
            BY <3>1, <4>1, SweepBegins
    <3>3. CASE SkipSweep
          BY <2>1, <3>3 DEF SkipSweep
    <3>4. QED
          BY <2>6, <3>1, <3>2, <3>3, PollKeeps, SavePollKeeps, ReadSweepPageKeeps,
             SaveSweepPageKeeps, ReadBackfillPageKeeps, SaveBackfillPageKeeps DEF Driver
  <2>7. QED
        BY <2>1, <2>3, <2>4, <2>5, <2>6 DEF Next
<1>2. NInv => SkippedOnlyBySlipping
      BY DEF NInv, Kept, SkippedOnlyBySlipping
<1>3. QED
      BY <1>1, <1>2, NInit, PTL DEF Spec

-----------------------------------------------------------------------------
(***************************************************************************)
(* The verification sweep.                                                 *)
(***************************************************************************)
CONSTANT HealBatchSize
VARIABLES polled, index, toHeal, extra

Verify == INSTANCE Sweep

LEMMA SameCardinality == \A S : Verify!Cardinality(S) = Cardinality(S)
BY DEF Verify!Cardinality, Cardinality

Statuses == {"absent", "live", "deleted"}

\* A record as QBO, the replica or something in flight between them has it.
SweepRecords == [status : Statuses, token : Nat, stamp : Nat]

Partial(f) == DOMAIN f \subseteq Verify!Ids /\ \A k \in DOMAIN f : f[k] \in SweepRecords

Exists == {k \in Verify!Ids : qbo[k].status # "absent"}

Typed ==
    /\ clock \in Nat
    /\ qbo \in [Verify!Ids -> SweepRecords] /\ replica \in [Verify!Ids -> SweepRecords]
    /\ Partial(polled) /\ Partial(batch)
    /\ now \in Nat
    /\ DOMAIN index \subseteq Verify!Ids /\ toHeal \subseteq DOMAIN index

\* QBO numbers records in the order it creates them.
Numbered == \A k \in Verify!Ids : k \notin Exists => \A j \in k .. MaxId : j \notin Exists

\* A record somebody holds is one that QBO has or had.
Follows(f, k) == /\ f[k].status # "absent" => qbo[k].status # "absent"
                 /\ f[k].status = "deleted" => qbo[k].status = "deleted"

\* What is in the replica, and what is on its way there, is marked deleted
\* only if QBO deleted it, and is about a record QBO has had.
SInv ==
    /\ Typed /\ Numbered
    /\ \A k \in Verify!Ids : Follows(replica, k)
    /\ \A k \in DOMAIN polled : Follows(polled, k)
    /\ \A k \in DOMAIN batch : Follows(batch, k)

-----------------------------------------------------------------------------
\* The number a new record gets was not used before, so creating a record
\* never brings a deleted one back.
LEMMA NewNumber ==
    ASSUME SInv, NEW k \in Verify!Ids, k = Cardinality(Exists) + 1
    PROVE  /\ k \notin Exists
           /\ \A j \in 1 .. k - 1 : j \in Exists
<1>1. MaxId \in Nat
      BY SizesAssumption
<1>2. IsFiniteSet(Exists) /\ Cardinality(Exists) \in Nat
  <2>1. IsFiniteSet(Verify!Ids)
        BY <1>1, FS_Interval DEF Verify!Ids
  <2>2. Exists \in SUBSET Verify!Ids
        BY DEF Exists
  <2>3. QED
        BY <2>1, <2>2, FS_Subset, FS_CardinalityType
<1>3. Numbered /\ k \in Int
      BY <1>1 DEF SInv, Verify!Ids
<1>4. k \notin Exists
  <2>1. SUFFICES ASSUME k \in Exists PROVE FALSE
        OBVIOUS
  <2>2. 1 .. k \subseteq Exists
    <3>1. SUFFICES ASSUME NEW j \in 1 .. k, j \notin Exists PROVE FALSE
          OBVIOUS
    <3>2. j \in Verify!Ids /\ k \in j .. MaxId
          BY <1>1 DEF Verify!Ids
    <3>3. QED
          BY <1>3, <2>1, <3>1, <3>2 DEF Numbered
  <2>3. Cardinality(1 .. k) <= Cardinality(Exists)
        BY <1>2, <2>2, FS_Subset
  <2>4. Cardinality(1 .. k) = k
        BY <1>1, FS_Interval DEF Verify!Ids
  <2>5. QED
        BY <1>2, <1>3, <2>3, <2>4
<1>5. ASSUME NEW j \in 1 .. k - 1, j \notin Exists PROVE FALSE
  <2>1. j \in Verify!Ids
        BY <1>1 DEF Verify!Ids
  <2>2. \A i \in j .. MaxId : i \notin Exists
        BY <1>3, <1>5, <2>1 DEF Numbered
  <2>3. Exists \subseteq 1 .. j - 1
        BY <1>1, <2>1, <2>2 DEF Exists, Verify!Ids
  <2>4. IsFiniteSet(1 .. j - 1) /\ Cardinality(1 .. j - 1) = j - 1
    <3>1. j \in Int /\ j - 1 \in Int /\ j >= 1
          BY <1>1, <2>1 DEF Verify!Ids
    <3>2. IsFiniteSet(1 .. j - 1)
          BY <3>1, FS_Interval
    <3>3. Cardinality(1 .. j - 1) = IF 1 > j - 1 THEN 0 ELSE (j - 1) - 1 + 1
          BY <3>1, FS_Interval
    <3>4. QED
          BY <3>1, <3>2, <3>3
  <2>5. Cardinality(Exists) <= j - 1
        BY <2>3, <2>4, FS_Subset
  <2>6. QED
        BY <1>2, <1>3, <2>5
<1>6. QED
      BY <1>4, <1>5

\* A record keeps its identity in QBO: it may be deleted, it does not vanish,
\* and what was deleted stays deleted.
Persists == \A k \in Verify!Ids : /\ qbo[k].status # "absent" => qbo'[k].status # "absent"
                                  /\ qbo[k].status = "deleted" => qbo'[k].status = "deleted"

LEMMA PeoplePersist ==
    ASSUME SInv, Verify!People
    PROVE  Persists /\ Numbered' /\ qbo' \in [Verify!Ids -> SweepRecords] /\ clock' \in Nat
<1>1. PICK k \in Verify!Ids : Verify!Create(k) \/ Verify!Edit(k) \/ Verify!Delete(k)
      BY DEF Verify!People
<1>2. clock' = clock + 1 /\ clock' \in Nat /\ qbo \in [Verify!Ids -> SweepRecords]
      BY <1>1 DEF Verify!Create, Verify!Edit, Verify!Delete, Verify!Change, SInv, Typed
<1>3. CASE Verify!Create(k)
  <2>1. k = Cardinality(Exists) + 1
        BY <1>3, SameCardinality DEF Verify!Create, Exists
  <2>2. k \notin Exists /\ \A j \in 1 .. k - 1 : j \in Exists
        BY <2>1, NewNumber
  <2>3. qbo' = [qbo EXCEPT ![k] = Verify!Record("live", 0, clock')]
        BY <1>3 DEF Verify!Create, Verify!Change
  <2>4. qbo' \in [Verify!Ids -> SweepRecords]
        BY <1>2, <2>3 DEF SweepRecords, Verify!Record, Statuses
  <2>5. Exists' = Exists \cup {k}
        BY <1>2, <2>3 DEF Exists, Verify!Record
  <2>6. Numbered'
    <3>1. SUFFICES ASSUME NEW i \in Verify!Ids, i \notin Exists', NEW j \in i .. MaxId, j \in Exists'
                   PROVE  FALSE
          BY DEF Numbered
    <3>2. i \notin Exists /\ i # k
          BY <2>5, <3>1
    <3>3. j \notin Exists
          BY <3>1, <3>2 DEF SInv, Numbered
    <3>4. j = k
          BY <2>5, <3>1, <3>3
    <3>5. i \in 1 .. k - 1
          BY <3>2, <3>4, SizesAssumption DEF Verify!Ids
    <3>6. QED
          BY <2>2, <3>2, <3>5
  <2>7. Persists
        BY <1>2, <2>2, <2>3 DEF Persists, Exists
  <2>8. QED
        BY <1>2, <2>4, <2>6, <2>7
<1>4. CASE Verify!Edit(k) \/ Verify!Delete(k)
  <2>1. PICK s \in {"live", "deleted"}, t \in Nat :
            qbo[k].status = "live" /\ qbo' = [qbo EXCEPT ![k] = Verify!Record(s, t, clock')]
    <3>1. qbo[k].token \in Nat /\ qbo[k].token + 1 \in Nat
          BY <1>2 DEF SweepRecords
    <3>2. QED
          BY <1>4, <3>1 DEF Verify!Edit, Verify!Delete, Verify!Change
  <2>2. qbo' \in [Verify!Ids -> SweepRecords]
        BY <1>2, <2>1 DEF SweepRecords, Verify!Record, Statuses
  <2>3. Persists /\ Exists' = Exists
        BY <1>2, <2>1 DEF Persists, Exists, Verify!Record
  <2>4. Numbered'
        BY <2>3 DEF SInv, Numbered
  <2>5. QED
        BY <1>2, <2>2, <2>3, <2>4
<1>5. QED
      BY <1>1, <1>3, <1>4

\* What follows QBO goes on following it.
LEMMA FollowsOn ==
    ASSUME Persists, NEW f, NEW k \in Verify!Ids, Follows(f, k)
    PROVE  /\ f[k].status # "absent" => qbo'[k].status # "absent"
           /\ f[k].status = "deleted" => qbo'[k].status = "deleted"
BY DEF Persists, Follows

LEMMA NothingFollows ==
    Partial(Verify!Nothing) /\ \A k \in DOMAIN Verify!Nothing : Follows(Verify!Nothing, k)
BY DEF Partial, Verify!Nothing

LEMMA InitSInv == Verify!Init => SInv
<1>1. SUFFICES ASSUME Verify!Init PROVE SInv
      OBVIOUS
<1>2. /\ Verify!Absent \in SweepRecords /\ Verify!Record("live", 0, 0) \in SweepRecords
      /\ Verify!Record("deleted", 0, 0) \in SweepRecords
      BY DEF Verify!Absent, Verify!Record, SweepRecords, Statuses
<1>3. Typed
  <2>1. qbo \in [Verify!Ids -> SweepRecords] /\ replica \in [Verify!Ids -> SweepRecords]
        BY <1>1, <1>2 DEF Verify!Init
  <2>2. Partial(polled) /\ Partial(batch)
        BY <1>1, NothingFollows DEF Verify!Init
  <2>3. /\ clock \in Nat /\ now \in Nat
        /\ DOMAIN index \subseteq Verify!Ids /\ toHeal \subseteq DOMAIN index
        BY <1>1 DEF Verify!Init, Verify!Nothing
  <2>4. QED
        BY <2>1, <2>2, <2>3 DEF Typed
<1>4. Numbered
  <2>1. SUFFICES ASSUME NEW k \in Verify!Ids, k \notin Exists, NEW j \in k .. MaxId
                 PROVE  j \notin Exists
        BY DEF Numbered
  <2>2. qbo[k].status = "absent" /\ qbo[j] = qbo[k]
        BY <1>1, <2>1 DEF Verify!Init, Exists
  <2>3. QED
        BY <2>2 DEF Exists
<1>5. ASSUME NEW k \in Verify!Ids PROVE Follows(replica, k)
  <2>1. replica[k] \in {Verify!Absent, Verify!Record("live", 0, 0)}
        BY <1>1 DEF Verify!Init
  <2>2. replica[k].status # "absent" => qbo[k].status # "absent"
        BY <1>1 DEF Verify!Init, Verify!Held
  <2>3. replica[k].status # "deleted"
        BY <2>1 DEF Verify!Absent, Verify!Record
  <2>4. QED
        BY <2>2, <2>3 DEF Follows
<1>6. /\ \A k \in DOMAIN polled : Follows(polled, k)
      /\ \A k \in DOMAIN batch : Follows(batch, k)
      BY <1>1, NothingFollows DEF Verify!Init
<1>7. QED
      BY <1>3, <1>4, <1>5, <1>6 DEF SInv

\* A step that leaves QBO and the numbering alone need only account for what
\* it puts in the replica, in the poll and in the batch.
LEMMA StepOfProcess ==
    ASSUME SInv, UNCHANGED Verify!remoteVars, Typed',
           \A k \in Verify!Ids : Follows(replica, k)',
           \A k \in DOMAIN polled' : Follows(polled, k)',
           \A k \in DOMAIN batch' : Follows(batch, k)'
    PROVE  SInv'
<1>1. Numbered'
      BY DEF SInv, Numbered, Exists, Verify!remoteVars
<1>2. QED
      BY <1>1 DEF SInv

LEMMA PeopleSInv == ASSUME SInv, Verify!People PROVE SInv'
<1>1. Persists /\ Numbered' /\ qbo' \in [Verify!Ids -> SweepRecords] /\ clock' \in Nat
      BY PeoplePersist
<1>2. UNCHANGED <<replica, polled, batch, index, toHeal, now>>
      BY DEF Verify!People, Verify!Create, Verify!Edit, Verify!Delete, Verify!Change,
             Verify!daemonVars, Verify!sweepVars
<1>3. Typed'
      BY <1>1, <1>2 DEF SInv, Typed, Partial
<1>4. /\ \A k \in Verify!Ids : Follows(replica, k)'
      /\ \A k \in DOMAIN polled' : Follows(polled, k)'
      /\ \A k \in DOMAIN batch' : Follows(batch, k)'
      BY <1>1, <1>2 DEF SInv, Typed, Partial, Persists, Follows
<1>5. QED
      BY <1>1, <1>3, <1>4 DEF SInv

\* A poll reads QBO as it is; that a deletion loses its token does not change
\* what it says.
LEMMA ReadPollSInv == ASSUME SInv, Verify!ReadPoll PROVE SInv'
<1>1. /\ UNCHANGED <<qbo, clock, replica, batch, index, toHeal, now>>
      /\ DOMAIN polled' \subseteq Verify!Ids
      /\ \A k \in DOMAIN polled' : polled'[k] = Verify!Payload(qbo[k])
      BY DEF Verify!ReadPoll, Verify!remoteVars, Verify!sweepVars
<1>2. \A k \in Verify!Ids : /\ Verify!Payload(qbo[k]) \in SweepRecords
                            /\ Verify!Payload(qbo[k]).status = qbo[k].status
      BY DEF SInv, Typed, Verify!Payload, Verify!Record, SweepRecords, Statuses
<1>3. Typed'
      BY <1>1, <1>2 DEF SInv, Typed, Partial
<1>4. /\ \A k \in Verify!Ids : Follows(replica, k)'
      /\ \A k \in DOMAIN polled' : Follows(polled, k)'
      /\ \A k \in DOMAIN batch' : Follows(batch, k)'
      BY <1>1, <1>2 DEF SInv, Typed, Partial, Follows
<1>5. QED
      BY <1>1, <1>3, <1>4, StepOfProcess DEF Verify!remoteVars

LEMMA ApplyPollSInv == ASSUME SInv, Verify!ApplyPoll PROVE SInv'
<1>1. /\ UNCHANGED <<qbo, clock, batch, index, toHeal, now>>
      /\ polled' = Verify!Nothing
      /\ replica' = [k \in Verify!Ids |-> IF k \in Verify!Fresh THEN polled[k] ELSE replica[k]]
      BY DEF Verify!ApplyPoll, Verify!remoteVars, Verify!sweepVars
<1>2. Verify!Fresh \subseteq DOMAIN polled
      BY DEF Verify!Fresh
<1>3. replica' \in [Verify!Ids -> SweepRecords]
      BY <1>1, <1>2 DEF SInv, Typed, Partial
<1>4. Typed'
      BY <1>1, <1>3, NothingFollows DEF SInv, Typed, Partial, Verify!Nothing
<1>5. /\ \A k \in Verify!Ids : Follows(replica, k)'
      /\ \A k \in DOMAIN batch' : Follows(batch, k)'
      BY <1>1, <1>2 DEF SInv, Typed, Partial, Follows
<1>6. \A k \in DOMAIN polled' : Follows(polled, k)'
      BY <1>1 DEF Verify!Nothing
<1>7. QED
      BY <1>1, <1>4, <1>5, <1>6, StepOfProcess DEF Verify!remoteVars

\* A fetch during the sweep reads QBO now: what it finds gone is written as
\* deleted only over a record the replica holds, and such a record was in QBO.
LEMMA FetchOneSInv == ASSUME SInv, Verify!FetchOne PROVE SInv'
<1>1. PICK k \in toHeal :
          /\ UNCHANGED <<qbo, clock, replica, polled, index, now>>
          /\ batch' = Verify!Over(Verify!Fetched(k), batch)
          /\ toHeal' = toHeal \ {k}
      BY DEF Verify!FetchOne, Verify!Sweeping, Verify!remoteVars, Verify!daemonVars
<1>2. k \in Verify!Ids /\ qbo[k] \in SweepRecords /\ replica[k] \in SweepRecords /\ Follows(replica, k)
      BY DEF SInv, Typed
<1>3. \/ Verify!Fetched(k) = Verify!Nothing
      \/ /\ DOMAIN Verify!Fetched(k) = {k} /\ Verify!Fetched(k)[k] \in SweepRecords
         /\ Follows(Verify!Fetched(k), k)
  <2>1. CASE qbo[k].status = "live"
        BY <1>2, <2>1 DEF Verify!Fetched, Follows
  <2>2. CASE qbo[k].status # "live" /\ Verify!Held(k)
    <3>1. qbo[k].status = "deleted"
          BY <1>2, <2>2 DEF Verify!Held, Follows, SweepRecords, Statuses
    <3>2. Verify!Record("deleted", replica[k].token, now) \in SweepRecords
          BY <1>2 DEF SInv, Typed, Verify!Record, SweepRecords, Statuses
    <3>3. Verify!Fetched(k) = [j \in {k} |-> Verify!Record("deleted", replica[k].token, now)]
          BY <2>2 DEF Verify!Fetched
    <3>4. QED
          BY <3>1, <3>2, <3>3 DEF Follows
  <2>3. CASE qbo[k].status # "live" /\ ~Verify!Held(k)
        BY <2>3 DEF Verify!Fetched
  <2>4. QED
        BY <2>1, <2>2, <2>3
<1>4. /\ DOMAIN batch' = DOMAIN Verify!Fetched(k) \cup DOMAIN batch
      /\ \A j \in DOMAIN batch' :
            batch'[j] = IF j \in DOMAIN Verify!Fetched(k) THEN Verify!Fetched(k)[j] ELSE batch[j]
      BY <1>1 DEF Verify!Over
<1>5. \A j \in DOMAIN batch' :
          j \in Verify!Ids /\ batch'[j] \in SweepRecords /\ Follows(batch', j)
      BY <1>2, <1>3, <1>4 DEF SInv, Typed, Partial, Follows, Verify!Nothing
<1>6. Typed'
      BY <1>1, <1>5 DEF SInv, Typed, Partial
<1>7. /\ \A i \in Verify!Ids : Follows(replica, i)'
      /\ \A i \in DOMAIN polled' : Follows(polled, i)'
      /\ \A i \in DOMAIN batch' : Follows(batch, i)'
      BY <1>1, <1>5 DEF SInv, Follows
<1>8. QED
      BY <1>1, <1>6, <1>7, StepOfProcess DEF Verify!remoteVars

LEMMA FlushSInv == ASSUME SInv, Verify!Flush PROVE SInv'
<1>1. /\ UNCHANGED <<qbo, clock, polled, index, toHeal, now>>
      /\ replica' = Verify!Over(batch, replica) /\ batch' = Verify!Nothing
      BY DEF Verify!Flush, Verify!Sweeping, Verify!remoteVars, Verify!daemonVars
<1>2. replica' = [k \in Verify!Ids |-> IF k \in DOMAIN batch THEN batch[k] ELSE replica[k]]
  <2>1. DOMAIN batch \cup DOMAIN replica = Verify!Ids
        BY DEF SInv, Typed, Partial
  <2>2. QED
        BY <1>1, <2>1 DEF Verify!Over
<1>3. replica' \in [Verify!Ids -> SweepRecords]
      BY <1>2 DEF SInv, Typed, Partial
<1>4. Typed'
      BY <1>1, <1>3, NothingFollows DEF SInv, Typed, Partial
<1>5. /\ \A k \in Verify!Ids : Follows(replica, k)'
      /\ \A k \in DOMAIN polled' : Follows(polled, k)'
      BY <1>1, <1>2 DEF SInv, Typed, Partial, Follows
<1>6. \A k \in DOMAIN batch' : Follows(batch, k)'
      BY <1>1 DEF Verify!Nothing
<1>7. QED
      BY <1>1, <1>4, <1>5, <1>6, StepOfProcess DEF Verify!remoteVars

\* The other steps of the sweep read, plan, quarantine or end.
LEMMA QuietSInv ==
    ASSUME SInv, UNCHANGED <<qbo, clock, replica>>,
           polled' \in {polled, Verify!Nothing}, batch' \in {batch, Verify!Nothing},
           now' \in Nat, DOMAIN index' \subseteq Verify!Ids, toHeal' \subseteq DOMAIN index'
    PROVE  SInv'
<1>1. Typed'
      BY NothingFollows DEF SInv, Typed, Partial
<1>2. /\ \A k \in Verify!Ids : Follows(replica, k)'
      /\ \A k \in DOMAIN polled' : Follows(polled, k)'
      /\ \A k \in DOMAIN batch' : Follows(batch, k)'
      BY DEF SInv, Follows, Verify!Nothing
<1>3. QED
      BY <1>1, <1>2, StepOfProcess DEF Verify!remoteVars

LEMMA NextSInv == ASSUME SInv, [Verify!Next]_(Verify!vars) PROVE SInv'
<1> USE DEF Verify!remoteVars, Verify!daemonVars, Verify!Sweeping
<1>1. CASE Verify!People
      BY <1>1, PeopleSInv
<1>2. CASE Verify!ReadPoll
      BY <1>2, ReadPollSInv
<1>3. CASE Verify!ApplyPoll
      BY <1>3, ApplyPollSInv
<1>4. CASE Verify!FailPoll
      BY <1>4, QuietSInv DEF Verify!FailPoll, Verify!sweepVars, SInv, Typed
<1>5. CASE Verify!Start
      BY <1>5, QuietSInv DEF Verify!Start, SInv, Typed
<1>6. CASE Verify!PullIndex
  <2>1. index' = Verify!Over([k \in Verify!IndexPage |-> qbo[k].stamp], index)
        BY <1>6 DEF Verify!PullIndex
  <2>2. DOMAIN index' = Verify!IndexPage \cup DOMAIN index
        BY <2>1 DEF Verify!Over
  <2>3. Verify!IndexPage \subseteq Verify!Ids
        BY DEF Verify!IndexPage, Verify!Listed
  <2>4. QED
        BY <1>6, <2>2, <2>3, QuietSInv DEF Verify!PullIndex, SInv, Typed
<1>7. CASE Verify!DiffIndexes
      BY <1>7, QuietSInv DEF Verify!DiffIndexes, Verify!Missing, Verify!Stale, SInv, Typed
<1>8. CASE Verify!FetchOne
      BY <1>8, FetchOneSInv
<1>9. CASE Verify!Flush
      BY <1>9, FlushSInv
<1>10. CASE Verify!Healed
      BY <1>10, QuietSInv DEF Verify!Healed, SInv, Typed
<1>11. CASE Verify!QuarantineExtra
      BY <1>11, QuietSInv DEF Verify!QuarantineExtra, Verify!QuarantineExisting, SInv, Typed
<1>12. CASE Verify!Finish \/ Verify!Abandon
  <2>1. DOMAIN Verify!Nothing = {}
        BY DEF Verify!Nothing
  <2>2. QED
        BY <1>12, <2>1, QuietSInv DEF Verify!Finish, Verify!Abandon, Verify!Off
<1>13. CASE UNCHANGED Verify!vars
      BY <1>13, QuietSInv DEF Verify!vars, Verify!sweepVars, SInv, Typed
<1>14. QED
      BY <1>1, <1>2, <1>3, <1>4, <1>5, <1>6, <1>7, <1>8, <1>9, <1>10, <1>11, <1>12, <1>13
      DEF Verify!Next, Verify!Sweeper

\* DESIGN.md section 7, "never auto-delete local data": whatever people do in
\* QBO while polls and sweeps read it, and whichever of them are cut short, no
\* record is marked deleted in the replica that QBO did not delete.
THEOREM NoFalseTombstoneHolds == Verify!Spec => []NoFalseTombstone
<1>1. SInv => NoFalseTombstone
      BY DEF SInv, Follows, NoFalseTombstone, Ids, Verify!Ids
<1>2. QED
      BY <1>1, InitSInv, NextSInv, PTL DEF Verify!Spec

-----------------------------------------------------------------------------
\* What the batch holds was fetched in this sweep: at a version no older than
\* the one QBO had when the sweep began.  Between sweeps the batch is empty.
HInv ==
    /\ began \in [Verify!Ids -> SweepRecords]
    /\ \A k \in Verify!Ids : /\ began[k].token <= qbo[k].token
                             /\ k \notin Exists => qbo[k].token = 0
    /\ \A k \in DOMAIN batch : batch[k].status = "live" => batch[k].token >= began[k].token
    /\ pc = "off" => batch = Verify!Nothing

LEMMA InitHInv == Verify!Init => HInv
BY DEF Verify!Init, HInv, Exists, Verify!Absent, Verify!Record, SweepRecords, Statuses, Verify!Nothing

\* A version in QBO only grows: an edit counts one up, a deletion keeps it, and
\* a new record takes a number that had none.
LEMMA PeopleHInv == ASSUME SInv, HInv, Verify!People PROVE HInv'
<1>1. PICK k \in Verify!Ids : Verify!Create(k) \/ Verify!Edit(k) \/ Verify!Delete(k)
      BY DEF Verify!People
<1>2. UNCHANGED <<began, batch, pc>>
      BY <1>1 DEF Verify!Create, Verify!Edit, Verify!Delete, Verify!Change, Verify!sweepVars
<1>3. qbo \in [Verify!Ids -> SweepRecords] /\ qbo[k].token \in Nat /\ began[k].token \in Nat
      BY DEF SInv, HInv, Typed, SweepRecords
<1>4. PICK s \in {"live", "deleted"}, t \in Nat :
          qbo' = [qbo EXCEPT ![k] = Verify!Record(s, t, clock')] /\ t >= began[k].token
  <2>1. CASE Verify!Create(k)
    <3>1. k \notin Exists
          BY <2>1, NewNumber, SameCardinality DEF Verify!Create, Exists
    <3>2. 0 >= began[k].token
          BY <1>3, <3>1 DEF HInv
    <3>3. QED
          BY <2>1, <3>2 DEF Verify!Create, Verify!Change
  <2>2. CASE Verify!Edit(k)
    <3>1. qbo[k].token + 1 \in Nat /\ qbo[k].token + 1 >= began[k].token
          BY <1>3 DEF HInv
    <3>2. qbo' = [qbo EXCEPT ![k] = Verify!Record("live", qbo[k].token + 1, clock')]
          BY <2>2 DEF Verify!Edit, Verify!Change
    <3>3. QED
          BY <3>1, <3>2
  <2>3. CASE Verify!Delete(k)
        BY <1>3, <2>3 DEF Verify!Delete, Verify!Change, HInv
  <2>4. QED
        BY <1>1, <2>1, <2>2, <2>3
<1>5. ASSUME NEW j \in Verify!Ids
      PROVE  /\ began[j].token <= qbo'[j].token
             /\ j \notin Exists' => qbo'[j].token = 0
      BY <1>3, <1>4 DEF HInv, Exists, Verify!Record
<1>6. QED
      BY <1>2, <1>5 DEF HInv

LEMMA FetchOneHInv == ASSUME SInv, HInv, Verify!FetchOne PROVE HInv'
<1>1. PICK k \in toHeal :
          /\ UNCHANGED <<qbo, pc, began>>
          /\ batch' = Verify!Over(Verify!Fetched(k), batch)
      BY DEF Verify!FetchOne, Verify!Sweeping, Verify!remoteVars
<1>2. k \in Verify!Ids /\ qbo[k].token \in Nat /\ began[k].token \in Nat
      BY DEF SInv, HInv, Typed, SweepRecords
<1>3. \A j \in DOMAIN Verify!Fetched(k) :
          j = k /\ (Verify!Fetched(k)[j].status = "live" => Verify!Fetched(k)[j] = qbo[k])
      BY DEF Verify!Fetched, Verify!Record, Verify!Nothing
<1>4. \A j \in DOMAIN batch' : batch'[j].status = "live" => batch'[j].token >= began[j].token
      BY <1>1, <1>2, <1>3 DEF Verify!Over, HInv
<1>5. pc # "off"
      BY DEF Verify!FetchOne
<1>6. QED
      BY <1>1, <1>4, <1>5 DEF HInv, Exists

LEMMA NextHInv == ASSUME SInv, HInv, [Verify!Next]_(Verify!vars) PROVE HInv'
<1> USE DEF Verify!remoteVars, Verify!daemonVars, Verify!sweepVars, Verify!Sweeping
<1>1. CASE Verify!People
      BY <1>1, PeopleHInv
<1>2. CASE Verify!ReadPoll \/ Verify!ApplyPoll \/ Verify!FailPoll \/ UNCHANGED Verify!vars
      BY <1>2 DEF Verify!ReadPoll, Verify!ApplyPoll, Verify!FailPoll, Verify!vars, HInv, Exists
<1>3. CASE Verify!Start
  <2>1. began' = qbo /\ batch' = Verify!Nothing /\ pc' = "index" /\ UNCHANGED qbo
        BY <1>3 DEF Verify!Start, HInv
  <2>2. \A k \in Verify!Ids : qbo[k].token \in Nat
        BY DEF SInv, Typed, SweepRecords
  <2>3. QED
        BY <2>1, <2>2 DEF SInv, Typed, HInv, Exists, Verify!Nothing
<1>4. CASE Verify!PullIndex \/ Verify!DiffIndexes \/ Verify!Healed \/ Verify!QuarantineExtra
      BY <1>4 DEF Verify!PullIndex, Verify!DiffIndexes, Verify!Healed, Verify!QuarantineExtra, HInv,
                  Exists
<1>5. CASE Verify!FetchOne
      BY <1>5, FetchOneHInv
<1>6. CASE Verify!Flush
      BY <1>6 DEF Verify!Flush, HInv, Exists, Verify!Nothing
<1>7. CASE Verify!Finish \/ Verify!Abandon
  <2>1. began' = [k \in Verify!Ids |-> Verify!Absent] /\ batch' = Verify!Nothing /\ UNCHANGED qbo
        BY <1>7 DEF Verify!Finish, Verify!Abandon, Verify!Off
  <2>2. Verify!Absent \in SweepRecords /\ Verify!Absent.token = 0
        BY DEF Verify!Absent, Verify!Record, SweepRecords, Statuses
  <2>3. \A k \in Verify!Ids : qbo[k].token \in Nat
        BY DEF SInv, Typed, SweepRecords
  <2>4. QED
        BY <2>1, <2>2, <2>3 DEF HInv, Exists, Verify!Nothing
<1>8. QED
      BY <1>1, <1>2, <1>3, <1>4, <1>5, <1>6, <1>7 DEF Verify!Next, Verify!Sweeper

\* sweep_entity_type drops its batch when it ends, on every path: what a sweep
\* writes over the replica is never older than QBO was when it began, although
\* it writes whatever the replica holds by then.
THEOREM HealsFromThisSweepHolds == Verify!Spec => HealsFromThisSweep
<1>1. ASSUME SInv, HInv, [Verify!Next]_(Verify!vars), Wrote,
             NEW k \in DOMAIN batch, replica'[k].status = "live"
      PROVE  replica'[k].token >= began[k].token
  <2>1. \/ Verify!Flush
        \/ /\ UNCHANGED replica
           /\ began' = [j \in Verify!Ids |-> Verify!Absent]
    <3>1. batch' # batch
          BY <1>1 DEF Wrote
    <3>2. ~Verify!FetchOne
      <4>1. SUFFICES ASSUME Verify!FetchOne PROVE FALSE
            OBVIOUS
      <4>2. PICK j \in toHeal : batch' = Verify!Over(Verify!Fetched(j), batch)
            BY <4>1 DEF Verify!FetchOne
      <4>3. DOMAIN batch \subseteq DOMAIN batch'
            BY <4>2 DEF Verify!Over
      <4>4. QED
            BY <1>1, <4>3 DEF Wrote
    <3>3. Verify!Start => batch' = Verify!Nothing /\ batch = Verify!Nothing
          BY <1>1 DEF Verify!Start, HInv
    <3>4. QED
          BY <1>1, <3>1, <3>2, <3>3
          DEF Verify!Next, Verify!Sweeper, Verify!People, Verify!Create, Verify!Edit,
              Verify!Delete, Verify!Change, Verify!ReadPoll, Verify!ApplyPoll, Verify!FailPoll,
              Verify!Start, Verify!PullIndex, Verify!DiffIndexes, Verify!Healed,
              Verify!QuarantineExtra, Verify!Finish, Verify!Abandon, Verify!Off,
              Verify!sweepVars, Verify!vars
  <2>2. CASE Verify!Flush
    <3>1. replica'[k] = batch[k]
          BY <1>1, <2>2 DEF Verify!Flush, Verify!Over
    <3>2. QED
          BY <1>1, <3>1 DEF HInv
  <2>3. CASE UNCHANGED replica /\ began' = [j \in Verify!Ids |-> Verify!Absent]
    <3>1. k \in Verify!Ids
          BY <1>1 DEF SInv, Typed, Partial
    <3>2. replica'[k].token \in Nat
          BY <1>1, <2>3, <3>1 DEF SInv, Typed, SweepRecords
    <3>3. began[k].token = 0
          BY <1>1, <2>3, <3>1 DEF Wrote, Verify!Absent, Verify!Record
    <3>4. QED
          BY <3>2, <3>3
  <2>4. QED
        BY <2>1, <2>2, <2>3
<1>2. SInv /\ HInv /\ [Verify!Next]_(Verify!vars) =>
          [Wrote => \A k \in DOMAIN batch :
              replica'[k].status = "live" => replica'[k].token >= began[k].token]_<<replica, batch>>
      BY <1>1
<1>3. QED
      BY <1>2, InitSInv, NextSInv, InitHInv, NextHInv, PTL DEF Verify!Spec, HealsFromThisSweep

-----------------------------------------------------------------------------
\* What QBO had when the sweep began it still has or has deleted, and the
\* numbers it had not given then came after those it had.
Beginning ==
    \A k \in Verify!Ids :
        /\ Follows(began, k)
        /\ began[k].status = "absent" => \A j \in k .. MaxId : began[j].status = "absent"

\* k and every record before it have been in QBO all through the sweep, so
\* nothing moved k up the list.
Stayed(k) ==
    /\ began[k].status = "live" /\ qbo[k].status = "live"
    /\ \A j \in 1 .. k - 1 : began[j].status = "live" => qbo[j].status = "live"

\* A record that stayed is in the index as read, or the page that has it is
\* still to come; once the index is read it is in it, and never an extra.
QInv ==
    /\ Beginning
    /\ start \in Nat /\ extra \subseteq Verify!Ids
    /\ pc = "off" => start = 0
    /\ pc \in {"off", "index", "diff"} => extra = {}
    /\ \A k \in Verify!Ids : Stayed(k) =>
          /\ k \notin extra
          /\ pc = "index" => k \in DOMAIN index \/ start <= Verify!Position(k)
          /\ pc = "diff" => k \in DOMAIN index

LEMMA LaterIds == \A k \in Verify!Ids : \A j \in k .. MaxId : j \in Verify!Ids
BY SizesAssumption DEF Verify!Ids

LEMMA InitQInv == Verify!Init => QInv
<1>1. SUFFICES ASSUME Verify!Init PROVE QInv
      OBVIOUS
<1>2. \A k \in Verify!Ids : began[k].status = "absent"
      BY <1>1 DEF Verify!Init, Verify!Absent, Verify!Record
<1>3. Beginning
      BY <1>2, LaterIds DEF Beginning, Follows
<1>4. QED
      BY <1>1, <1>2, <1>3 DEF Verify!Init, QInv, Stayed

\* A position counts the records listed before an id.
LEMMA PositionRanks ==
    /\ MaxId \in Nat /\ Verify!Listed \in SUBSET (1 .. MaxId)
    /\ \A k \in Verify!Ids : Verify!Position(k) = Rank(Verify!Listed, k) /\ Verify!Position(k) \in Nat
<1>1. MaxId \in Nat /\ Verify!Listed \in SUBSET (1 .. MaxId)
      BY SizesAssumption DEF Verify!Listed, Verify!Ids
<1>2. \A k \in Verify!Ids : Verify!Position(k) = Rank(Verify!Listed, k)
      BY SameCardinality DEF Verify!Position, Rank
<1>3. \A k \in Verify!Ids : Rank(Verify!Listed, k) \in Nat
      BY <1>1, RankIsNat
<1>4. QED
      BY <1>1, <1>2, <1>3

\* People append to the list and take from it: as long as nothing before a
\* record leaves, it keeps its position.
LEMMA PeopleKeepPosition ==
    ASSUME SInv, HInv, QInv, Verify!People, NEW k \in Verify!Ids, Stayed(k)'
    PROVE  Stayed(k) /\ Verify!Position(k)' = Verify!Position(k)
<1>1. Persists /\ Numbered' /\ qbo' \in [Verify!Ids -> SweepRecords]
      BY PeoplePersist
<1>2. UNCHANGED began /\ qbo \in [Verify!Ids -> SweepRecords] /\ began \in [Verify!Ids -> SweepRecords]
      BY DEF Verify!People, Verify!Create, Verify!Edit, Verify!Delete, Verify!Change,
             Verify!sweepVars, SInv, Typed, HInv
<1>3. MaxId \in Nat /\ k \in 1 .. MaxId /\ Verify!Ids = 1 .. MaxId
      BY SizesAssumption DEF Verify!Ids
<1>4. ASSUME NEW j \in Verify!Ids, began[j].status = "live", qbo'[j].status = "live"
      PROVE  qbo[j].status = "live"
  <2>1. qbo[j].status # "absent"
        BY <1>4 DEF QInv, Beginning, Follows
  <2>2. qbo[j].status # "deleted"
        BY <1>1, <1>4 DEF Persists
  <2>3. QED
        BY <1>2, <2>1, <2>2 DEF SweepRecords, Statuses
<1>5. \A j \in 1 .. k - 1 : j \in Verify!Ids /\ k \in j .. MaxId
      BY <1>3
<1>6. Stayed(k)
      BY <1>2, <1>4, <1>5 DEF Stayed
<1>7. ASSUME NEW j \in 1 .. k - 1
      PROVE  j \in Verify!Listed' <=> j \in Verify!Listed
  <2>1. j \in Verify!Ids /\ k \in j .. MaxId
        BY <1>5
  <2>2. ASSUME qbo'[j].status = "live"
        PROVE  qbo[j].status = "live"
    <3>1. qbo[j].status # "deleted"
          BY <1>1, <2>1, <2>2 DEF Persists
    <3>2. qbo[j].status # "absent"
      <4>1. k \in Exists
            BY <1>6 DEF Stayed, Exists
      <4>2. QED
            BY <2>1, <4>1 DEF SInv, Numbered, Exists
    <3>3. QED
          BY <1>2, <2>1, <3>1, <3>2 DEF SweepRecords, Statuses
  <2>3. ASSUME qbo[j].status = "live"
        PROVE  qbo'[j].status = "live"
    <3>1. began[j].status # "deleted"
          BY <2>1, <2>3 DEF QInv, Beginning, Follows
    <3>2. began[j].status # "absent"
          BY <1>6, <2>1 DEF QInv, Beginning, Stayed
    <3>3. began[j].status = "live"
          BY <1>2, <2>1, <3>1, <3>2 DEF SweepRecords, Statuses
    <3>4. QED
          BY <1>2, <3>3 DEF Stayed
  <2>4. QED
        BY <2>1, <2>2, <2>3 DEF Verify!Listed
<1>8. {j \in Verify!Listed' : j < k} = {j \in Verify!Listed : j < k}
  <2>1. \A j \in Verify!Ids : j < k => j \in 1 .. k - 1
        BY <1>3
  <2>2. Verify!Listed' \subseteq Verify!Ids /\ Verify!Listed \subseteq Verify!Ids
        BY DEF Verify!Listed
  <2>3. QED
        BY <1>7, <2>1, <2>2
<1>9. QED
      BY <1>6, <1>8 DEF Verify!Position

LEMMA PeopleQInv == ASSUME SInv, HInv, QInv, Verify!People PROVE QInv'
<1>1. UNCHANGED <<began, start, extra, pc, index>>
      BY DEF Verify!People, Verify!Create, Verify!Edit, Verify!Delete, Verify!Change, Verify!sweepVars
<1>2. Persists
      BY PeoplePersist
<1>3. Beginning'
      BY <1>1, <1>2 DEF QInv, Beginning, Persists, Follows
<1>4. ASSUME NEW k \in Verify!Ids, Stayed(k)'
      PROVE  /\ k \notin extra
             /\ pc = "index" => k \in DOMAIN index \/ start <= Verify!Position(k)'
             /\ pc = "diff" => k \in DOMAIN index
  <2>1. Stayed(k) /\ Verify!Position(k)' = Verify!Position(k)
        BY <1>4, PeopleKeepPosition
  <2>2. QED
        BY <2>1 DEF QInv
<1>5. QED
      BY <1>1, <1>3, <1>4 DEF QInv

LEMMA StartQInv == ASSUME SInv, QInv, Verify!Start PROVE QInv'
<1>1. /\ began' = qbo /\ pc' = "index" /\ start = 0 /\ extra = {}
      /\ UNCHANGED <<qbo, start, extra, index>>
      BY DEF Verify!Start, Verify!Sweeping, Verify!remoteVars, QInv
<1>2. Beginning'
      BY <1>1, LaterIds DEF SInv, Numbered, Exists, Beginning, Follows
<1>3. \A k \in Verify!Ids : Verify!Position(k)' = Verify!Position(k) /\ 0 <= Verify!Position(k)
  <2>1. Verify!Listed' = Verify!Listed
        BY <1>1 DEF Verify!Listed
  <2>2. QED
        BY <2>1, PositionRanks DEF Verify!Position
<1>4. QED
      BY <1>1, <1>2, <1>3 DEF QInv

\* A full page brings the next start no further than what it held; the last
\* one held every record from its start on.
LEMMA PullIndexQInv == ASSUME SInv, QInv, Verify!PullIndex PROVE QInv'
<1>1. /\ pc = "index"
      /\ UNCHANGED <<qbo, began, extra>>
      /\ DOMAIN index' = Verify!IndexPage \cup DOMAIN index
      BY DEF Verify!PullIndex, Verify!Over, Verify!Sweeping, Verify!remoteVars
<1>2. Beginning' /\ \A k \in Verify!Ids : Stayed(k)' <=> Stayed(k)
      BY <1>1 DEF QInv, Beginning, Follows, Stayed
<1>3. \A k \in Verify!Ids : Verify!Position(k)' = Verify!Position(k) /\ Verify!Position(k) \in Nat
  <2>1. Verify!Listed' = Verify!Listed
        BY <1>1 DEF Verify!Listed
  <2>2. QED
        BY <2>1, PositionRanks DEF Verify!Position
<1>4. PageSize \in Nat \ {0} /\ start \in Nat
      BY SizesAssumption DEF QInv
<1>5. /\ Cardinality(Verify!IndexPage) \in 0 .. PageSize
      /\ \A k \in Verify!Listed :
             Verify!Position(k) >= start + PageSize => Cardinality(Verify!IndexPage) = PageSize
  <2>1. Verify!Listed \subseteq Verify!Ids
        BY DEF Verify!Listed
  <2>2. /\ Verify!IndexPage \in SUBSET Verify!Listed
        /\ \A j \in Verify!Listed : j \in Verify!IndexPage <=>
              Rank(Verify!Listed, j) \in start .. start + PageSize - 1
        BY <2>1, PositionRanks DEF Verify!IndexPage
  <2>3. /\ Cardinality(Verify!IndexPage) \in 0 .. PageSize
        /\ \A k \in Verify!Listed : Rank(Verify!Listed, k) >= start + PageSize
              => Cardinality(Verify!IndexPage) = PageSize
    <3>1. MaxId \in Nat /\ Verify!Listed \in SUBSET (1 .. MaxId)
          BY PositionRanks
    <3>2. QED
          BY <1>4, <2>2, <3>1, PageLength
  <2>4. QED
        BY <2>1, <2>3, PositionRanks
<1>6. ASSUME NEW k \in Verify!Ids, Stayed(k)
      PROVE  \/ k \in DOMAIN index'
             \/ Verify!Position(k) >= start + PageSize
  <2>1. k \in Verify!Listed
        BY <1>6 DEF Stayed, Verify!Listed
  <2>2. k \in DOMAIN index \/ start <= Verify!Position(k)
        BY <1>1, <1>6 DEF QInv
  <2>3. Verify!Position(k) \in start .. start + PageSize - 1 => k \in Verify!IndexPage
        BY <2>1 DEF Verify!IndexPage
  <2>4. QED
        BY <1>1, <1>3, <1>4, <2>2, <2>3
<1>7. CASE Verify!FinalPage
  <2>1. pc' = "diff" /\ start' = start
        BY <1>7 DEF Verify!PullIndex
  <2>2. \A k \in Verify!Ids : Stayed(k) => k \in DOMAIN index'
    <3>1. Cardinality(Verify!IndexPage) # PageSize
          BY <1>4, <1>5, <1>7, SameCardinality DEF Verify!FinalPage
    <3>2. \A k \in Verify!Ids : Stayed(k) => k \in Verify!Listed
          BY DEF Stayed, Verify!Listed
    <3>3. QED
          BY <1>5, <1>6, <3>1, <3>2
  <2>3. QED
        BY <1>1, <1>2, <2>1, <2>2 DEF QInv
<1>8. CASE ~Verify!FinalPage
  <2>1. pc' = "index" /\ start' = start + PageSize
    <3>1. start' = start + Cardinality(Verify!IndexPage) /\ pc' = pc
          BY <1>8, SameCardinality DEF Verify!PullIndex
    <3>2. Cardinality(Verify!IndexPage) = PageSize
          BY <1>4, <1>5, <1>8, SameCardinality DEF Verify!FinalPage
    <3>3. QED
          BY <1>1, <3>1, <3>2
  <2>2. start' \in Nat
        BY <1>4, <2>1
  <2>3. \A k \in Verify!Ids : Stayed(k) => k \in DOMAIN index' \/ start' <= Verify!Position(k)'
        BY <1>3, <1>4, <1>6, <2>1
  <2>4. QED
        BY <1>1, <1>2, <2>1, <2>2, <2>3 DEF QInv
<1>9. QED
      BY <1>7, <1>8

\* The rest of a sweep moves no record on the list, and what it still has to
\* quarantine only gets less.
LEMMA QuietQInv ==
    ASSUME QInv, UNCHANGED <<qbo, began, start, index>>,
           extra' \subseteq extra, pc' = pc \/ (pc = "heal" /\ pc' = "extras")
    PROVE  QInv'
<1>1. /\ Beginning'
      /\ \A k \in Verify!Ids : (Stayed(k)' <=> Stayed(k)) /\ Verify!Position(k)' = Verify!Position(k)
      BY DEF QInv, Beginning, Follows, Stayed, Verify!Position, Verify!Listed
<1>2. QED
      BY <1>1 DEF QInv

LEMMA NextQInv == ASSUME SInv, HInv, QInv, [Verify!Next]_(Verify!vars) PROVE QInv'
<1> USE DEF Verify!remoteVars, Verify!daemonVars, Verify!sweepVars, Verify!Sweeping
<1>1. CASE Verify!People
      BY <1>1, PeopleQInv
<1>2. CASE Verify!ReadPoll \/ Verify!ApplyPoll \/ Verify!FailPoll \/ UNCHANGED Verify!vars
      BY <1>2, QuietQInv DEF Verify!ReadPoll, Verify!ApplyPoll, Verify!FailPoll, Verify!vars
<1>3. CASE Verify!Start
      BY <1>3, StartQInv
<1>4. CASE Verify!PullIndex
      BY <1>4, PullIndexQInv
<1>5. CASE Verify!DiffIndexes
  <2>1. /\ pc = "diff" /\ pc' = "heal" /\ extra' = Verify!Extra
        /\ UNCHANGED <<qbo, began, start, index>>
        BY <1>5 DEF Verify!DiffIndexes
  <2>2. Verify!Extra \subseteq Verify!Ids /\ \A k \in Verify!Ids : Stayed(k) => k \notin Verify!Extra
        BY <2>1 DEF QInv, Verify!Extra
  <2>3. Beginning' /\ \A k \in Verify!Ids : Stayed(k)' <=> Stayed(k)
        BY <2>1 DEF QInv, Beginning, Follows, Stayed
  <2>4. QED
        BY <2>1, <2>2, <2>3 DEF QInv
<1>6. CASE Verify!FetchOne \/ Verify!Flush \/ Verify!Healed
      BY <1>6, QuietQInv DEF Verify!FetchOne, Verify!Flush, Verify!Healed
<1>7. CASE Verify!QuarantineExtra
      BY <1>7, QuietQInv DEF Verify!QuarantineExtra
<1>8. CASE Verify!Finish \/ Verify!Abandon
  <2>1. /\ began' = [k \in Verify!Ids |-> Verify!Absent] /\ start' = 0 /\ extra' = {} /\ pc' = "off"
        /\ UNCHANGED qbo
        BY <1>8 DEF Verify!Finish, Verify!Abandon, Verify!Off
  <2>2. \A k \in Verify!Ids : began'[k].status = "absent"
        BY <2>1 DEF Verify!Absent, Verify!Record
  <2>3. Beginning'
        BY <2>2, LaterIds DEF Beginning, Follows
  <2>4. QED
        BY <2>1, <2>3 DEF QInv
<1>9. QED
      BY <1>1, <1>2, <1>3, <1>4, <1>5, <1>6, <1>7, <1>8 DEF Verify!Next, Verify!Sweeper

\* pull_qbo_index reads page after page by position while people create, edit
\* and delete: a record that was in QBO all along is quarantined only if one
\* before it left the list meanwhile.
THEOREM QuarantineJustifiedHolds == Verify!Spec => QuarantineJustified
<1>1. ASSUME SInv, HInv, QInv, [Verify!Next]_(Verify!vars), NEW k \in quarantine' \ quarantine,
             qbo[k].status = "live", began[k].status = "live"
      PROVE  \E j \in 1 .. k - 1 : began[j].status = "live" /\ qbo[j].status # "live"
  <2>1. Verify!QuarantineExtra
        BY <1>1 DEF Verify!Next, Verify!Sweeper, Verify!People, Verify!Create, Verify!Edit,
                    Verify!Delete, Verify!Change, Verify!ReadPoll, Verify!ApplyPoll, Verify!FailPoll,
                    Verify!Start, Verify!PullIndex, Verify!DiffIndexes, Verify!FetchOne,
                    Verify!Flush, Verify!Healed, Verify!Finish, Verify!Abandon, Verify!vars
  <2>2. k \in extra
        BY <1>1, <2>1 DEF Verify!QuarantineExtra, Verify!QuarantineExisting
  <2>3. k \in Verify!Ids /\ ~Stayed(k)
        BY <1>1, <2>2 DEF QInv
  <2>4. QED
        BY <1>1, <2>3 DEF Stayed
<1>2. SInv /\ HInv /\ QInv /\ [Verify!Next]_(Verify!vars) =>
          [\A k \in quarantine' \ quarantine :
              qbo[k].status = "live" /\ began[k].status = "live" =>
                 \E j \in 1 .. k - 1 : began[j].status = "live" /\ qbo[j].status # "live"]_quarantine
      BY <1>1
<1>3. QED
      BY <1>2, InitSInv, NextSInv, InitHInv, NextHInv, InitQInv, NextQInv, PTL
      DEF Verify!Spec, QuarantineJustified

=============================================================================
