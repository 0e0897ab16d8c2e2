------------------------------- MODULE Sweep -------------------------------
(***************************************************************************)
(* The verification sweep of qbo-local (reconcile.rs, store/index.rs): a   *)
(* process of its own, run nightly and on demand while the daemon polls.   *)
(* It pages QBO's index, reads the replica's, fetches and re-writes what   *)
(* is missing or stale, and quarantines what QBO no longer lists.          *)
(*                                                                         *)
(* One entity type of one realm.  The two processes share the replica      *)
(* only: each reads QBO into memory and writes what it read later.  A      *)
(* stamp is a LastUpdatedTime, and every change in QBO takes the next one; *)
(* how the daemon pages, ages and resumes is SyncDriver's subject.  `began'*)
(* is a history variable that the program does not have.                   *)
(***************************************************************************)
EXTENDS SweepPromises, FiniteSets

CONSTANTS
    PageSize,       \* ReconcileOptions::page_size
    HealBatchSize,  \* HEAL_BATCH_SIZE
    Overlap,        \* how many stamps a poll reaches back before its cursor
    MaxChanges,     \* bound: records created, edited and deleted
    MaxFails        \* bound: polls and sweeps cut short

ASSUME SizesAssumption ==
    /\ MaxId \in Nat /\ Overlap \in Nat /\ MaxChanges \in Nat /\ MaxFails \in Nat
    /\ PageSize \in Nat \ {0} /\ HealBatchSize \in Nat \ {0}

Nothing == [k \in {} |-> 0]

Over(f, g) == [k \in DOMAIN f \cup DOMAIN g |-> IF k \in DOMAIN f THEN f[k] ELSE g[k]]

VARIABLES
    clock,          \* the last stamp in QBO
    cursor,         \* table sync_cursors
    polled, asOf,   \* the daemon: the changes read and not yet saved
    pc,             \* the sweep: what it does next
    start,          \* the position of the index page to read
    index,          \* QBO's index as far as it is read: id to stamp
    toHeal, extra,  \* missing and stale ids to fetch, extra ids to quarantine
    now,            \* when this sweep began
    fails

remoteVars == <<qbo, clock>>
daemonVars == <<polled, asOf>>
sweepVars  == <<pc, start, index, toHeal, extra, batch, now, began>>
vars == <<remoteVars, replica, quarantine, cursor, daemonVars, sweepVars, fails>>

-----------------------------------------------------------------------------
\* The replica is as an earlier sync, possibly one that missed things, left it.
Init ==
    /\ qbo \in [Ids -> {Absent, Record("live", 0, 0), Record("deleted", 0, 0)}]
    /\ \A k \in Ids : qbo[k].status = "absent" => \A j \in k .. MaxId : qbo[j] = qbo[k]
    /\ clock = 0
    /\ replica \in [Ids -> {Absent, Record("live", 0, 0)}]
    /\ \A k \in Ids : Held(k) => qbo[k].status # "absent"
    /\ quarantine = {} /\ cursor = 0
    /\ polled = Nothing /\ asOf = 0
    /\ pc = "off" /\ start = 0 /\ index = Nothing /\ toHeal = {} /\ extra = {}
    /\ batch = Nothing /\ now = 0 /\ began = [k \in Ids |-> Absent]
    /\ fails = 0

-----------------------------------------------------------------------------
(* QBO: people change records. *)

Change(k, status, token) ==
    /\ clock < MaxChanges /\ clock' = clock + 1
    /\ qbo' = [qbo EXCEPT ![k] = Record(status, token, clock')]
    /\ UNCHANGED <<replica, quarantine, cursor, daemonVars, sweepVars, fails>>

\* QBO numbers records in the order it creates them.
Create(k) == /\ k = Cardinality({j \in Ids : qbo[j].status # "absent"}) + 1
             /\ Change(k, "live", 0)
Edit(k)   == qbo[k].status = "live" /\ Change(k, "live", qbo[k].token + 1)
Delete(k) == qbo[k].status = "live" /\ Change(k, "deleted", qbo[k].token)

People == \E k \in Ids : Create(k) \/ Edit(k) \/ Delete(k)

-----------------------------------------------------------------------------
(* The daemon: poll_and_apply with a complete answer, and apply_changes. *)

ReadPoll ==
    /\ asOf = 0 /\ cursor < clock
    /\ asOf' = clock
    /\ polled' = [k \in {k \in Ids : /\ qbo[k].status # "absent"
                                    /\ qbo[k].stamp > cursor - Overlap}
                    |-> Payload(qbo[k])]
    /\ UNCHANGED <<remoteVars, replica, quarantine, cursor, sweepVars, fails>>

Fresh == {k \in DOMAIN polled : ~HoldsThisVersionOrNewer(k, polled[k])}

ApplyPoll ==
    /\ asOf > 0
    /\ replica' = [k \in Ids |-> IF k \in Fresh THEN polled[k] ELSE replica[k]]
    /\ quarantine' = quarantine \ Fresh
    /\ cursor' = asOf
    /\ polled' = Nothing /\ asOf' = 0
    /\ UNCHANGED <<remoteVars, sweepVars, fails>>

FailPoll ==
    /\ asOf > 0 /\ fails < MaxFails /\ fails' = fails + 1
    /\ polled' = Nothing /\ asOf' = 0
    /\ UNCHANGED <<remoteVars, replica, quarantine, cursor, sweepVars>>

-----------------------------------------------------------------------------
(* sweep_entity_type, step by step. *)

Sweeping == UNCHANGED <<remoteVars, cursor, daemonVars, fails>>

Start ==
    /\ pc = "off" /\ pc' = "index"
    /\ now' = clock /\ began' = qbo
    /\ Sweeping /\ UNCHANGED <<replica, quarantine, start, index, toHeal, extra, batch>>

\* The query endpoint omits deleted records and cuts pages by position.
Listed == {k \in Ids : qbo[k].status = "live"}

Position(k) == Cardinality({j \in Listed : j < k})

IndexPage == {k \in Listed : Position(k) \in start .. start + PageSize - 1}

\* Mutation: a full page is taken for the last one.
FinalPageEarly == Cardinality(IndexPage) <= PageSize

FinalPage == Cardinality(IndexPage) < PageSize

PullIndex ==
    /\ pc = "index"
    /\ index' = Over([k \in IndexPage |-> qbo[k].stamp], index)
    /\ IF FinalPage
       THEN pc' = "diff" /\ UNCHANGED start
       ELSE start' = start + Cardinality(IndexPage) /\ UNCHANGED pc
    /\ Sweeping
    /\ UNCHANGED <<replica, quarantine, toHeal, extra, batch, now, began>>

Missing == {k \in DOMAIN index : ~Held(k)}

\* Mutation: only what the replica lacks is healed.
StaleNever == {}

Stale == {k \in DOMAIN index : /\ Held(k)
                               /\ \/ index[k] > replica[k].stamp
                                  \/ replica[k].status = "deleted"}

Extra == {k \in Ids \ DOMAIN index : replica[k].status = "live"}

DiffIndexes ==
    /\ pc = "diff" /\ pc' = "heal"
    /\ toHeal' = Missing \cup Stale
    /\ extra' = Extra
    /\ Sweeping /\ UNCHANGED <<replica, quarantine, start, index, batch, now, began>>

\* None for a record the replica holds: QBO deleted it since the index read.
Fetched(k) ==
    IF qbo[k].status = "live" THEN [j \in {k} |-> qbo[k]]
    ELSE IF Held(k) THEN [j \in {k} |-> Record("deleted", replica[k].token, now)]
    ELSE Nothing

BatchFull == Cardinality(DOMAIN batch) >= HealBatchSize

FetchOne ==
    /\ pc = "heal" /\ toHeal # {} /\ ~BatchFull
    /\ \E k \in toHeal :
        /\ \A j \in toHeal : k <= j
        /\ batch' = Over(Fetched(k), batch)
        /\ toHeal' = toHeal \ {k}
    /\ Sweeping /\ UNCHANGED <<replica, quarantine, pc, start, index, extra, now, began>>

\* apply_batch re-writes every record it is given.
Flush ==
    /\ pc = "heal" /\ batch # Nothing /\ (BatchFull \/ toHeal = {})
    /\ replica' = Over(batch, replica)
    /\ quarantine' = quarantine \ DOMAIN batch
    /\ batch' = Nothing
    /\ Sweeping /\ UNCHANGED <<pc, start, index, toHeal, extra, now, began>>

Healed ==
    /\ pc = "heal" /\ toHeal = {} /\ batch = Nothing
    /\ pc' = "extras"
    /\ Sweeping
    /\ UNCHANGED <<replica, quarantine, start, index, toHeal, extra, batch, now, began>>

\* Mutation: what QBO does not list is taken for deleted.
QuarantineDeleting(k) ==
    /\ quarantine' = quarantine \cup {k}
    /\ replica' = [replica EXCEPT ![k] = Record("deleted", @.token, now)]

\* The payload is copied and the record left alone.
QuarantineExisting(k) == quarantine' = quarantine \cup {k} /\ UNCHANGED replica

QuarantineExtra ==
    /\ pc = "extras" /\ extra # {}
    /\ \E k \in extra :
        /\ \A j \in extra : k <= j
        /\ QuarantineExisting(k) /\ extra' = extra \ {k}
    /\ Sweeping /\ UNCHANGED <<pc, start, index, toHeal, batch, now, began>>

\* Mutation: the batch is kept with the Reconciler, and no error path empties it.
OffKeepingBatch ==
    /\ pc' = "off" /\ start' = 0 /\ now' = 0 /\ began' = [k \in Ids |-> Absent]
    /\ index' = Nothing /\ toHeal' = {} /\ extra' = {} /\ UNCHANGED batch

Off == /\ pc' = "off" /\ start' = 0 /\ now' = 0 /\ began' = [k \in Ids |-> Absent]
       /\ index' = Nothing /\ toHeal' = {} /\ extra' = {} /\ batch' = Nothing

Finish ==
    /\ pc = "extras" /\ extra = {} /\ Off
    /\ Sweeping /\ UNCHANGED <<replica, quarantine>>

\* Killed, refused by QBO, or out of its rate budget.
Abandon ==
    /\ pc # "off" /\ fails < MaxFails /\ fails' = fails + 1
    /\ Off
    /\ UNCHANGED <<remoteVars, replica, quarantine, cursor, daemonVars>>

Sweeper == \/ Start \/ PullIndex \/ DiffIndexes \/ FetchOne \/ Flush
           \/ Healed \/ QuarantineExtra \/ Finish

Next == People \/ ReadPoll \/ ApplyPoll \/ FailPoll \/ Sweeper \/ Abandon

Spec == Init /\ [][Next]_vars

\* The daemon polls for ever, and a sweep is run every night: each ends, and
\* the next one starts.
FairSpec == Spec /\ WF_vars(ReadPoll) /\ WF_vars(ApplyPoll) /\ WF_vars(Sweeper)

-----------------------------------------------------------------------------
(* Recovery; the safety properties are SweepPromises'. *)

\* "The recovery path for all of it": when people pause, polls and sweeps
\* bring every live record to its last version, whatever they rolled back
\* meanwhile, and name every deleted one the replica still shows.
Current(k) == IF qbo[k].status = "live" THEN replica[k] = qbo[k]
              ELSE replica[k].status = "live" => k \in quarantine

Recovers == <>[](\A k \in Ids : Current(k))

=============================================================================
