# TLA+ models of qbo-local and the ledger

qbo-local keeps a SQLite replica of QuickBooks Online (QBO) books, and lets
people change those books through an outbox that is drained into QBO. The
ledger app imports that replica into a double-entry ledger of its own, posts
what is entered there, matches it with the bank, takes in card settlements and
payroll, and follows raw material into builds. This directory models the parts
of the two programs that run against a remote system, other processes, other
people and crashes; TLC checks the models on small instances, and TLAPS proves
what matters most about them for every instance.

    tlc -workers 2 -config Books.cfg MCBooks.tla     one run (section 3 names cfg and module)
    tlapm BooksProofs.tla                            the proofs of one module

`PROJECT.json` lists the components, the runs, the source lines each definition
stands for, a mutation of the model that each property catches, the
disagreements found and the hazards. A definition whose comment begins with
"Mutation:" is such a mutated form: it stands before the definition it would
replace and nothing refers to it.

## 1. Inventory

`Q` is `src/apps/qbo-local/src/`, `L` is `src/apps/ledger/src/`.

| component | state | operations | hard | correct when | module |
|---|---|---|---|---|---|
| Write path: `Q` `writes.rs`, `worker.rs`, `outbox.rs`, `store/outbox_store.rs` | tables `outbox`, `local_id_map`, the write switch; one pass's copy of the open rows | queue, retry, discard, switch, `drain_once` | the pass saves from a copy it loaded long before; answers are lost, saves fail, the process dies between any two steps; QBO deduplicates documents by RequestId but masters only by name | one write has one record in QBO; applied means landed; a conflict is somebody else's edit; order and parents survive | `Outbox` |
| Sync: `Q` `sync.rs`, `driver.rs`, the sync half of `store.rs` | entities, `sync_cursors`, `sweep_checkpoints` | CDC poll, full sweep, backfill, page by page | pages are cut by position from a list that changes; CDC looks back only so far; commits show late; clocks disagree; a sweep is cut short and resumed | the cursor never passes a version that was not fetched; the replica catches up | `SyncDriver`, `Replica` |
| Verification sweep: `Q` `reconcile.rs`, `store/index.rs` | quarantine; one sweep's index, fetch list and batch | compare indexes, heal, quarantine | a process of its own beside the daemon, with no lock; it reads QBO's index and the local one at different times and writes what it fetched earlier | nothing live is tombstoned, nothing is rolled back behind the sweep's own start, quarantine has a reason, and the replica recovers | `Sweep`, `SweepPromises`, `Replica` |
| Books: `L` `store.rs`, `books.rs`, the tools of `mcp.rs` that call them | document versions, journal, applications, periods, trial-balance snapshots | save, post, update, void, apply, reverse, close, reopen | several processes read first and write later; save and post are two transactions; locks are read before the transaction | the journal says what the documents say; closed periods stand; open items tie to the control account; an auditor can trace every entry | `Books`, `AuditTrail` |
| Import: `L` `import/*`, `pipeline.rs` | ledger versions and entries of imported documents | for each replica document: compare, reverse, save, post | each write is its own transaction, a run dies between them; an item's cost reaches the payload that is compared, its accounts do not; periods move; QBO deletes and voids | a run either reports a document or leaves it as a first import would; nothing is doubled | `Import` |
| Bank: `L` `bank.rs`, its tables in `store.rs` | statements, lines, cleared legs | import a file, match, propose, confirm, post fees, close | none of it is a transaction; files overlap; two people work on one statement | an entry settles one line, a line has one answer, what settles it adds up, a closed statement ties | `Bank` |
| Feeds: `L` `authnet.rs`, `payroll.rs`, `accountant.rs` | saved documents, entries, adjustment requests | settlement import, payroll import, propose and decide | three different rules against posting twice, each with a gap of its own | each is posted once, clearing nets to nothing, no invoice is over-applied, a decision tells what happened | `Feeds` |
| Manufacturing: `L` `mfg.rs`, `mfg/*` | material positions, lots, builds, consumptions | receive with freight, build, count | every row is a transaction of its own; averages are rounded; two receipts overtake one another | the report on hand ties to account 1300; freight is allocated to the cent; a build's row, entry and consumptions agree | `Mfg` |

Interactions. The daemon calls the sync for ever; the serve loop
(`DemoQbo::tick`) calls the write path; the verification sweep and the sync
meet only in the replica's tables; the write path reads the SyncToken the sync
mirrors; the import reads the replica and writes the books; bank, feeds and
manufacturing save and post through the books. The composition is modelled
where two components race for one state: `Outbox` has the sync's move of the
replica (`Sync`), `Sweep` has the daemon's polls, `Import` has the sync's
changes of the replica and the people who move the closing date, `Bank` has the
rest of the ledger posting and closing, `Feeds` the payments made elsewhere.

## 2. Modules

Each action is a whole handler, or, where somebody else can act or the process
can die inside a handler, one of its steps between two such points. `map` in
`PROJECT.json` gives the lines.

In `Books`, `Bank`, `Feeds` and `Mfg` a behaviour begins by choosing a *scope*
from `Scopes`: the documents, files, receipts and amounts it looks at and how
many commands are given. It is a bound and input, never changed, and lets one
run look at several small worlds instead of one large one.

Some modules carry *history variables*, which no code has and no guard reads.
They say which documented gap of the code a document, line or command has been
through, so that a property can say "except through this gap" and be violated
by any other way to the same state. A gap is fenced in by that, not caught; the
hazards in `PROJECT.json` name the windows a property exempts. Each variable is
named in the section of its module.

### `Outbox` (proofs: `OutboxProofs`)

One realm, one draining process. A write is the number of its queueing: ids
are UUIDv7, so "oldest first" is numeric order, and the local id and the
RequestId a create mints are named by it as well.

| model | code |
|---|---|
| `write`, `outbox`, `count` | the fixed and the rewritten columns of table `outbox` |
| `idMap`, `memMap` | table `local_id_map`; the `Drainer`'s copy |
| `replica` | SyncToken of the mirrored record; `Sync` is the poll that brings it |
| `names`, `tokens`, `held`, `requestLog` | QBO: records, their names and tokens, its RequestId memory |
| `mem`, `todo`, `blocked`, `landed`, `cur`, `result`, `pc` | the locals of `drain_once` and `drain_with` |
| `effect` | history: the records a write created, changed or adopted |
| `Queue*`, `Retry`, `Discard`, `SetWriteEnabled` | `writes.rs` called by the application API |
| `StartPass`, `Recover`, `LoadParents`, `FinishPass` | `drain_once` |
| `PassOver`, `Begin`, `FindByName`, `SendCreate`, `SendUpdate`, `Replay`, `SendFails`, `SaveOutcome`, `RecordIdMapping` | `drain_with`, `issue`, `drain_once`'s last loop |
| `Crash` | the process is killed, between any two of those |

A store write that may fail has a branch for it (`IoError`) doing what that
line does with the error: give up the pass (`Recover`, `RecordIdMapping`), skip
the row (`Begin`), or nothing (`SaveOutcome`). Payloads are reduced to the
local ids they refer to; of a name only its identity matters. The call budget's
refusal and QBO's 4xx are both `refused`; throttling, 5xx and lost answers are
`transient`, as `http.rs` classifies them. Records are not deleted in QBO.
`TickGated` chooses between `drain_once` called at any time (what its contract
allows) and called by `DemoQbo::tick`, which first asks whether a pending row
is due; backoff times are left out, every pending row may be due.

### `Replica`

A record in QBO and in the replica, what CDC's payload keeps of it, and when the
replica holds a version already: what the daemon and the verification sweep
share, and `NoFalseTombstone`, which is about nothing else. `SyncDriver` and
`Sweep` extend it, each with a daemon in the detail it is about.

### `SyncDriver` (proofs: `SyncProofs`)

One entity type of one realm. Time is QBO's clock in coarse units; a record is
a status, a SyncToken and a LastUpdatedTime.

| model | code |
|---|---|
| `replica`, `cursor`, `lastSweep`, `checkpoint` | tables `entities`, `sync_cursors`, `sweep_checkpoints` |
| `pc`, `now`, `start`, `asOf`, `page` | locals of `sync_entity_type`, `full_sweep`, `poll`, `backfill` |
| `StartSweep`, `Poll`, `SkipSweep` | `sync_entity_type`: plan, and a poll's one request |
| `SavePoll`, `ReadSweepPage`, `SaveSweepPage`, `ReadBackfillPage`, `SaveBackfillPage` | the two halves of each page: request, then one transaction |
| `Fail` | an error, a refusal or a kill: what is saved stays, the rest is gone |
| `Tick`, `Create`, `Edit`, `Delete` | QBO |
| `left`, `slipped` | history: records left the part of a list that was already read |

`Change` stamps a write up to `CommitLag` before it shows. `ServerTimes` lets
the time in an answer lie up to `ServerSkew` behind, `LocalTimes` lets the
Mac's clock be off by `LocalSkew`. A CDC answer is read with `Changed`,
including the lookback that it does not report; a deletion in it has no
SyncToken (`Payload`), which `http.rs` reads as "0". Waiting out `Throttled`
and sending the same request again is part of reading a page.

### `Sweep` and `SweepPromises` (proofs: `SyncProofs`)

The verification sweep of one entity type beside a polling daemon. The two
processes share the replica only. `SweepPromises` states `HealsFromThisSweep`
and `QuarantineJustified` over the replica, the quarantine and the batch alone,
and `Sweep` is how the code keeps them. A step that empties the batch within one
sweep (`Wrote`) is a write: an error or a kill ends the sweep as well.

| model | code |
|---|---|
| `replica`, `quarantine`, `cursor` | tables `entities`, `quarantine_entities`, `sync_cursors` |
| `polled`, `asOf`; `ReadPoll`, `ApplyPoll`, `FailPoll` | the daemon: `poll_and_apply`, `apply_changes` with its skip of known versions |
| `start`, `index`; `Start`, `PullIndex` | `pull_qbo_index`: page by page, by position, live records only |
| `toHeal`, `extra`; `DiffIndexes` | `entity_index` read after QBO's, and the comparison |
| `batch`; `FetchOne`, `Flush`, `Healed` | `heal`: fetch one id after the other, write a batch unconditionally |
| `QuarantineExtra`, `Finish`, `Abandon` | `quarantine_existing`, the end, and an error or a kill part way |
| `Create`, `Edit`, `Delete` | people who change QBO; a change takes the next stamp |
| `began` | history: QBO's records when the sweep began |

How the daemon itself pages, ages and resumes is `SyncDriver`'s subject: here a
poll is one complete answer, read at one moment and saved at another. The
initial replica is any that an earlier sync, possibly one that missed things,
could have left.

### `Books` and `AuditTrail` (proofs: `BooksProofs`)

One book, receivable or payable; an entry is abstracted to what it does to the
book's control account. Both sides run the same code paths, and differ in where
the unapplied part of a payment goes.

| model | code |
|---|---|
| `versions`, `journal`, `closed`, `snapshot` | `document_versions`, `journal_entries` with lines, `periods`, `tb_snapshots` |
| `pc`, `job` | where each process is, and what it has read |
| `CreateBegin`, `CreateSave`, `Gate`, `Refused`, `Insert` | `create_document`, `save_and_post_document`, `post_entry`: the lock is read before the transaction |
| `ReverseBegin` | `reverse_entry` by hand |
| `UpdateCheck`, `VoidCheck`, `ApplyCheck`, `PlanRevision`, `PlanRefused`, `Commit`, `RollBack` | `update_document`, `void_document`, `apply_credit`: checks, plan, and one transaction that checks the period again |
| `CloseSnapshot`, `ClosePeriod`, `ReopenPeriod` | `close_period` (its trial balance is read first), `reopen_period` |
| `Payloads`, `Worth`, `Posted` | what a caller may send, applications and `is_voided` included; what a version is worth, and what `post` makes of it (`apply_void` swaps the sides) |
| `PaidBy`, `OpenItem`, `AgingTotal` | `open_items` as of a date |
| `Crash` | a process is killed between two transactions |
| `blame`, `slipped` | history: how a document came to disagree with its entries (`half`: saved and never posted; `stacked`: posted over a live entry; `swapped`: posted for a document that was created voided; `reversed`: by hand; `lapsed`: a version kept from a stale read; `twice`; `misnumbered`; `unchecked`, `overtaken`: applications); entries that got past a close |

`AuditTrail` is the abstract specification: versions and entries are only ever
added; an entry is an original that cites a saved version or the exact opposite
of an earlier entry of the same document; a correction brings its version, its
reversals and its new entry together or not at all. `Books` implements it with
`record <- versions, trail <- journal` (`TrailKept`), checked by the run `books`
and proved.

### `Import` (proofs: `ImportProofs`)

One nightly run at a time, again and again. What an entry does is one number:
the document's amount, and beside it its cost pair. The item's masters reach
that pair in two ways. `translate` writes the purchase cost into the lines it
saves (translate.rs:309), so `document_unchanged` sees a cost that has moved and
the entry is replaced. Whether there is a pair at all depends on the item's
asset account, which the posting rules take from the context of the run
(pipeline.rs:400, post.rs:277) and no payload holds, so an account that has
changed leaves unchanged documents with what they posted before.

| model | code |
|---|---|
| `replica`, `item`; `translate` | the replica's documents, and the item they sell in its masters; the payload made of both |
| `payload`, `journal`, `lock` | newest version by document, entries, closing date |
| `todo`, `doc`, `rec`, `live`, `rejected` | locals of the run and its report |
| `StartRun`, `TakeNext`, `EndRun` | the walk by date and id over what is in the window |
| `CompareCarried`, `CompareContract`, `Skip`, `Replace`, `ReverseLive`, `ReverseRefused`, `SaveVersion`, `PostRefused`, `Post` | `process_document` write by write, and its refusals |
| `DocumentSynced`, `DocumentDeleted`, `ItemSynced`, `PeriodMoved`, `Crash` | sync, masters, people, a kill |
| `basis` | the run's posting context: whether the item has an asset account |
| `seen` | history: the documents the run read |

### `Bank` (proofs: `BankProofs`)

Statements, lines and the legs of entries on one bank account. Every SQL
statement the code runs is a step. An entry is what it moves at the bank and
what it credits to 1160, and the two differ where the code lets them: a
settlement that knows its fee nets it off the bank leg (`post_settlement`), and
the lines of a deposit may name other accounts or be fees (`post_deposit`). The
matcher's settlement rule takes settlements and deposits and looks at the credit
alone, so the difference stays with the line it settles (`Slip`).

| model | code |
|---|---|
| `feed` (of the scope), `statements`, `rows`, `journal`, `lockedThrough` | the bank's record; `bank_statements`, `bank_lines`, entries with `cleared_at`, the period |
| `ImportStatement`, `InsertLine`, `ImportDone` | `import_statement`; a line known by its external id is skipped |
| `BooksPostPayment`, `BooksPostSettlement` | what the rest of the ledger posts: payments and purchases, settlements and deposits |
| `MatchStatement`, `MatchOneLine`, `MatchDone` | `match_statement`: exact, then settlement with a fee, then a proposal |
| `ClearJournalLine`, `SetBankLineMatch`, `PostFee`, `FeeRefused` | what a match writes, in that order |
| `ConfirmProposal`, `PostConfirmed`, `ConfirmRefused` | `confirm_proposal` |
| `CloseStatement`, `CloseBankStatement` | `close_statement`: add up, then close |
| `torn`, `doubled`, `hasty` | history: lines whose settling a crash, a refusal or a stale list tore; entries two processes were clearing at once; statements closed while something was in flight |

### `Feeds` (proofs: `FeedsProofs`)

| model | code |
|---|---|
| `saved`, `entries`, `applied`, `state`, `locked` | versions, entries, applications of sales, `adjustment_requests`, the period |
| `ImportSettlement`, `CheckDocument`, `SaveDocument`, `PostEntry` | `authnet.rs`: group into batches, plan applications against the invoice as read, then save and post document by document, skipping what is saved |
| `ImportRuns` | `payroll.rs`: one transaction per file |
| `ProposeAdjustment`, `DecideAdjustment`, `SaveAdjustment`, `PostAdjustment`, `SetDecision` | `accountant.rs` |
| `ReverseEntry`, `LockOrReopen`, `PaidElsewhere`, `FigureChanges`, `Crash` | people, and a kill |
| `torn` | history: documents saved and not posted, reversed by hand, or taken up by two processes at the same moment |
| `misread` | history: a sale was saved when what is open on the invoice was no longer what the importer believed |

An importer remembers the number the next version was to have when it looked
(`version`, authnet.rs:547) and posts under it. Two importers took up one
document at the same moment only if that number was taken by the time of the
save (`Overtaken`). A save that comes after a look which should have found the
document is not excused: without the look (`NeverImported`) one process that
imports a file twice violates `PostedOnce`, and so does a look that finds only
transactions, or only what has an entry.

### `Mfg` (proofs: `MfgProofs`)

Amounts are cents, averages are rounded as `round_money` rounds (half away from
zero), and freight is allocated with the code's largest-remainder rule.

| model | code |
|---|---|
| `position`, `lots`, `builds`, `consumptions`, `documents`, `entries` | `materials`, `material_lots`, `builds`, `build_consumptions`, saved documents, posted ones |
| `ReceiveMaterials`, `ReadMaterial`, `ReceiptRead`, `ReceiveLine`, `InsertMaterialLot` | `receive_materials`: read every line's material, then write each |
| `CompleteBuild`, `PriceBuild`, `RelieveMaterial`, `InsertBuild`, `InsertBuildConsumption` | `complete_build` with standard cost, plug and variance |
| `AdjustInventory` | `adjust_inventory` |
| `SaveDocument`, `PostEntry` | what all of them end with or begin with |
| `disturbed` | history: a crash, a refusal, or a stale write has happened |

## 3. Runs

A run of a module that needs processes to be interchangeable, or scopes with
figures in them, goes through a module `MC...` that adds those definitions.

| run | module, cfg | shows |
|---|---|---|
| `outbox_creates` | `MCOutbox`, `OutboxCreates` | two creates, one of which may refer to the other, two attempts each, one crash, one rename in QBO: no retry, recovery, replay or adoption makes a second record (`OneRecordPerWrite`); `AppliedHasLanded`, `ParentsFirst`, `MappingFaithful`, `SentOnlyInFlight` |
| `outbox_updates` | `Outbox`, `OutboxUpdates` | creates and updates of a record that others edit, one crash, one failed save, passes started as the serve loop does: `EntityOrder`, `ConflictHasNotLanded`, `SavedTransitionsAreLegal`, `AttemptsBounded`, and under fairness `QueueDrains` |
| `sync` | `SyncDriver`, `Sync` | two records read one per page while one changes, late commits, clocks off by one, one call cut short, and time enough to outlive CDC's lookback: `SkippedOnlyBySlipping`, `CatchesUp`, `TypeOK` |
| `sweep` | `Sweep`, `Sweep` | three records, two per page and per batch, beside the polls, two changes, one failure: `NoFalseTombstone`, `HealsFromThisSweep`, `QuarantineJustified`, `Recovers` |
| `books` | `MCBooks`, `Books` | an invoice, a credit memo and a payment, or their vendor counterparts, through two processes and one crash, one book with documents that are created voided: `BookAgrees`, `ClosedBooksStand`, `ApplicationsHold`, `AgingTies`, `EntriesTrace`, and the refinement `TrailKept` |
| `import` | `Import`, `Import` | a posting document, an estimate and a carried item while the replica, the item's cost and accounts and the period change and one run dies: `RunTells`, `NeverTwice`, `Converges` |
| `bank` | `MCBank`, `Bank` | two processes, overlapping files, sums that differ in the day alone, met by payments, settlements with and without their fee, or deposits with other money in them, money in and out, a period that closes, one crash: `OneLinePerEntry`, `OneAnswer`, `SettledInFull`, `ClosedStatementsTie` |
| `feeds` | `MCFeeds`, `Feeds` | two sales on one invoice beside a refund and a declined card, in one batch or in two whose rows alternate; two payroll runs whose figures change; two requests, one of which cancels out: `PostedOnce`, `RunsAsSaved`, `ClearingNets`, `NotOverApplied`, `DecisionTells` |
| `mfg` | `MCMfg`, `Mfg` | mixed receipts with freight, builds on and off the sheet, counts, every small freight allocation: `AveragesHold`, `OnHandTies`, `FreightAllocated`, `BuildRowBacked`, `EveryBuildRecorded` |
| `deletion_lost` | `SyncDriver`, `DeletionLost` | violation, see section 6 |
| `bank_money_out` | `MCBank`, `BankMoneyOut` | violation, see section 6 |
| `material_drift` | `MCMfg`, `MaterialDrift` | violation, see section 6 |

**Bounds.** `MaxClock`, `MaxChanges`, `MaxFails`, `MaxCrashes`, `MaxIoErrors`,
`MaxRenames`, `MaxRecords`, `MaxQboId`, `MaxToken`, `MaxId`, `MaxCloses`,
`MaxDate`, `MaxAmount`, `MaxStatements`, and in a scope `calls`, `commands`,
`entries`, `dates`, `amount`, `voids`, `figures` are bounds and nothing else.

- *Outbox.* The hazards take at most two creates (a parent or a rival and its
  follower), two writes of one entity, one fault of each kind, and one attempt
  more than the one that fails. One token step is a conflict and its re-basing.
- *Sync.* The smallest page (one record) and two records give a first, a last
  and a next page. `CdcCap = 2` truncates with two changed records and not with
  one. `MaxAge = 1`, `Lookback = 3` and `MaxClock = 4` let a cursor become too
  old, a checkpoint be thrown away, and CDC forget.
- *Sweep.* Three records in pages of two give a full page, a last page and a
  slip between them; two changes are one before the index is read and one
  during the heal; one failure is a poll or a sweep cut short.
- *Books.* Two processes and three commands are an edit that overtakes another
  or a close; two dates give a closed and an open period; a total of two lets an
  application be partial. Four commands are allowed where one date is enough.
  Callers send a voided document (`voids`) in a scope of its own, where three
  commands create it, save it again and correct it.
- *Import.* Three changes, two moves of the closing date and one crash reach a
  document that is changed, refused, and imported again after a reopening. A
  change is one of the document, of the item's cost or of its accounts. Besides
  the posting document one contract and one carried item take the two paths that
  never post.
- *Bank.* Two statements with overlapping files, three or four commands, and
  one crash are what it takes to clear an entry twice or answer a line twice.
  A fee of up to a third of the gross lets an exact, a fee and no match differ
  by one unit, and an entry's bank leg is its credit or one beside it: a fee it
  knew, or money from elsewhere. Each scope names the kinds that are posted.
- *Feeds.* Amounts one and two on an invoice of two: two sales compete, and one
  goes over; with the rows of two batches alternating, the order in which the
  documents take from the invoice is not the order of the rows. Five commands
  reach import, reversal by hand, a new figure and another import; or two
  proposals, two decisions and a lock.
- *Mfg.* Quantities, prices and freight are small numbers whose quotients do
  not come out even; the last scope goes through every receipt of four lines
  with quantities 0 to 2 and freight 0 to 4.

The runs `books`, `import`, `bank`, `bank_money_out`, `feeds`, `sweep`, `mfg`
and `material_drift` do not check deadlock: commands, changes and crashes are
bounded there and a finished world really stops. The outbox and sync runs check
it.

**Fairness.** `Outbox!FairSpec` is weak fairness of the pass: the serve loop
ticks for ever and a pass that has begun runs on. Nothing is assumed of people,
of QBO or of the network: requests may fail until the attempts are used up.
`QueueDrains` asks it only of behaviours in which writes stay switched on, and
says what may hold a row up: a write before it that needs a person. It names one
exception (`Stranded`): `DemoQbo::tick` (serve.rs:233) starts a pass only if a
pending row is due, so a row that a crash left `in_flight` waits until something
else is queued. `SyncDriver!FairSpec` is weak fairness of the driver, since
`Daemon::tick` returns to it whatever it returned, and of time. `Fail` is
bounded and not fair: a sync whose every call fails does not catch up.
`Sweep!FairSpec` is weak fairness of the daemon's polls and of the sweep, which
DESIGN.md:733 has "nightly and on demand"; neither has to succeed more often
than the bound on failures leaves over. `Import!FairSpec` is weak fairness of
the run (tools/nightly.sh). `Books`, `Bank`, `Feeds` and `Mfg` are driven by
people and promise nothing in time, so no liveness is stated of them.

## 4. Proofs

Every theorem holds for every value of the constants that satisfies the named
assumptions of its module, and so for any number of processes, records,
documents, files, commands and crashes. The assumptions: `MAX_ATTEMPTS` and page
sizes are positive, bounds natural; the kinds of documents are disjoint and
their ids finitely many, none of them the marker for no document; the bank's
record has natural days and whole amounts; processes and materials are finitely
many, a receipt has a line, its quantities and freight are not negative; an
export has whole amounts and lists a transaction once, and the ids of batches,
transactions, runs and requests are told apart by their prefixes
(`IdsAssumption`; authnet.rs:414, payroll.rs:142 and accountant.rs:748 build
them so).

| module | theorem | states |
|---|---|---|
| `OutboxProofs` | `TypeCorrect`, `AppliedCorrect`, `MappingCorrect`, `ParentsCorrect`, `OrderCorrect`, `ConflictCorrect`, `AttemptsCorrect` | `TypeOK`, `AppliedHasLanded`, `MappingFaithful`, `ParentsFirst`, `EntityOrder`, `ConflictHasNotLanded`, `AttemptsBounded` |
| | `SendingIsMarked`, `TransitionsCorrect` | the action properties `SentOnlyInFlight`, `SavedTransitionsAreLegal` |
| | `OneRecordCorrect` | `OneRecordPerWrite` |
| `SyncProofs` | `SyncTypeCorrect`, `SkippedOnlyBySlippingHolds` | `TypeOK` of `SyncDriver`, `SkippedOnlyBySlipping` |
| | `NoFalseTombstoneHolds`, `HealsFromThisSweepHolds`, `QuarantineJustifiedHolds` | the three safety properties of the sweep |
| `BooksProofs` | `BookAgreesHolds`, `ApplicationsHoldHolds`, `AgingTiesHolds`, `ClosedBooksStandHolds`, `EntriesTraceHolds` | all invariants of the run `books` |
| | `TrailKeptHolds` | `Spec => Trail!AuditSpec`, the refinement |
| `ImportProofs` | `TypeCorrect`, `NeverTwiceHolds`, `RunTellsHolds` | `TypeOK`, `NeverTwice`, `RunTells` |
| `BankProofs` | `OneLinePerEntryHolds`, `OneAnswerHolds`, `SettledInFullHolds`, `ClosedStatementsTieHolds` | all invariants of the run `bank` |
| `FeedsProofs` | `PostedOnceHolds`, `RunsAsSavedHolds`, `ClearingNetsHolds`, `NotOverAppliedHolds`, `DecisionTellsHolds` | all invariants of the run `feeds` |
| `MfgProofs` | `BuildRowBackedHolds`, `FreightAllocatedHolds`, `AveragesHoldHolds`, `OnHandTiesHolds`, `EveryBuildRecordedHolds` | all invariants of the run `mfg` |

`CommonProofs` holds what they share. *Order:* the smallest of a set of numbers
exists, positions in a list are taken without a gap, a page of a list is as long
as its size as long as a record follows it, a record that leaves a list moves
those behind it up by one place and nobody past its own; of a finite set with an
order the first n exist (`FirstOnes`, for the largest remainders). *Sums:*
`SumFunctionOnSet` of the community modules is a fold over a set in no
particular order. It unfolds at any element (`SumSplit`, by induction on the
size of the set, with the well-founded order of the naturals in place of an
induction theorem), and from that: sums add, scale, compare, split over a union
and ignore zeros; a sum over pairs is taken by rows or by columns (`SumSwap`),
and a sum over rows is the sum over their keys of the rows with that key
(`SumByKey`). *Lists:* the sequence that the community modules make of a finite
set has each of its elements once (`Listed`).

The invariants, and why the properties alone are not inductive:

- **`OutboxProofs!IInv`.** The pass acts on a copy, so the invariant says how
  copy and table are related. `CopyFresh`: a row the pass may still save is, in
  its copy, the saved row; people act meanwhile, but `resolve` touches only rows
  in the inbox, which the pass no longer saves. `Remembered`: every QBO id in
  the request log, the id maps or an answer is an effect of that write. `Stale`:
  an update that QBO carried out is in its request log, so a repeat is replayed
  and never compared with the SyncToken it has itself advanced. `Parents`: a row
  is sent only after everything it refers to has landed, from the id map and not
  from `depends_on`. `Attempts`: a queued row has an attempt left or a fault
  paid for it. `Known` and `Order`: an open row the copy does not have is younger
  than every row it has, and a row the pass went past is settled or blocks its
  entity. `OneRecordCorrect` adds `Single` and `NamesUnique`, in states before
  somebody renamed a master.
- **`SyncProofs!NInv`.** `TypeOK` is inductive as it stands, and says more than
  types: a sweep that has read a page, a poll and a backfill know QBO's time, so
  a cursor is never made of nothing. `NInv` says what each call still owes
  before it may make a cursor of `asOf`. A record is `Safe` for a time if it is
  mirrored, or so recent that a poll from the overlap before that time returns
  it. `Reading`: every record not safe for `asOf` is in the page that waits to
  be saved, or listed behind it. `SweepOwes`: of what a checkpoint has behind it,
  only as many records as have `left` can have been moved there unread, which
  is why a resumed sweep that backs up a page absorbs a page's worth of them.
  `Tokens` and `PageCurrent`: no copy runs ahead of QBO's, and a page that has
  gone stale overwrites only what is recent, because a write shows no later
  after its stamp than the overlap. `PollCovers` is where the clocks come in:
  a cursor younger than `MaxAge` by a clock off by `LocalSkew` is still within
  CDC's lookback (`TimesAssumption`).
- **The sweep, in `SyncProofs`.** The module proves both readers of QBO's book;
  `Verify == INSTANCE Sweep` is the sweep's specification, and the two share
  `Replica` and otherwise names of variables. What `SyncDriver` assumes of the
  constants besides takes nothing from the sweep: the only one of them it has is
  the overlap, and the limits beside it can be chosen to fit any.
  `SInv`: what the replica, a poll or a batch says of a record
  QBO has said (`Follows`), and QBO numbers records without a gap, so that a
  fetch that finds nothing means a deletion and never a record to come. `HInv`:
  tokens only grow in QBO, and the batch holds nothing older than the sweep's
  start, because every end of a sweep drops it. `QInv`: a record that `Stayed`
  (it and all before it were in QBO all through the sweep) is in the index as
  read or at a position still to be read. People's changes keep its position,
  because new records come after it; a full page moves the start no further than
  what it held, and a page that is not full held everything from its start on.
  The last two are the lemmas of `CommonProofs` on cardinalities.
- **`BooksProofs!BInv`.** `Tables`: the journal's entries cite documents and
  versions that exist. `Ready`: what each process remembers is still true of the
  tables, although others have written since: a version it read is a version of
  that document, the live entries it is about to undo are earlier entries of the
  document, an entry on its way says what the version it cites says unless
  somebody saved in between. `Traced` and `ClosedBooksStand` follow and are part
  of it. `TrailKeptHolds` then maps each action to a step of `AuditTrail`;
  `Commit` is the one that becomes `Correct`.
- **`BooksProofs!AInv`**, for `ApplicationsHold`. `Checked`: a revision for which
  nobody saved anything since it counted the versions (`seen = Counts`) still
  fits, whatever it is applied to; one that was overtaken is exempt by the time
  it commits. A saved version takes room from what it applies to and, for a
  debt, sets its own (`SavedSums`).
- **`BooksProofs!GInv`**, for `BookAgrees`. `Paired`: unless the document went
  through `twice`, each of its reversals undoes another original, so reversals
  cancel and what counts is its live entries (`NetOfPaired`, by `SumByKey` over
  what they reverse). `Agrees`: a document that has no fault and no entry on its
  way has exactly one live entry, which says what the newest version says, or
  none and states nothing (`Fit`). `Pending`: an entry on its way for the newest
  version says what that version says, and an application keeps the posting of
  the version it read. `Commit` is the step that needs all three: if what the
  plan found live is what is live, its reversals and its one entry leave a `Fit`
  document, whatever was wrong before.
- **`AgingTiesHolds`** needs no history: the control account is the sum over the
  documents of their entries (`SumByKey`), what documents have applied summed by
  document is what is applied summed by debt (`SumSwap`), and so what an open
  item leaves out of an invoice another leaves out of a payment.
- **`ImportProofs!IInv`.** `OneStands` and `ReversedOnce` are the property in the
  tables; `RunKnows` says what the run remembers while it stands between two
  writes: the entries it still has to reverse are all that stand, so after the
  last reversal nothing stands and the post adds one.
- **`ImportProofs!JInv`**, for `RunTells`. `NetStands`: what a document's entries
  add up to is the entry that stands, since reversals cancel. `StandsAsSaved`:
  what stands was derived from the payload that was saved with it, cost and all,
  with the asset account its entry was posted with or without. `RunKept`: of every document the run is through with and did
  not reject, `RunTells` is true already.
- **`BankProofs!KInv`.** `SettledIsCleared`: the entry of a settled line is
  cleared, or on its way. The code clears the entry before it marks the line, so
  an entry another line names is no candidate any more, and two lines name one
  entry only if two processes were between those two writes at once (`doubled`).
  `AnsweredOnce` says the same of the entries posted for a line, and `OnTask`
  what each process remembers.
- **`BankProofs!CInv`**, for `ClosedStatementsTie`. `Counted`: what a close has
  counted is part of what there is now. `ClosedTies`: a statement that was
  closed over what was counted stays so, because a line of a closed statement is
  written again only by a process that had read it before (`hasty`, `torn`).
- **`BankProofs!FInv`**, for `SettledInFull`. `Said`: what each kind of entry
  moves at the bank. `Weighed`: what the entry a match holds is weighed by
  (`Held`: its bank leg, or its credit to 1160 where the settlement rule chose
  it), less the fee it is about to post, is the amount of the line. `InFull`: a line has no fee entry
  but the one its match found, posted or on its way.
- **`MfgProofs!MInv`.** A process that is about to insert a build row remembers
  the number of the document it saved and posted, and figures that are that
  document's (`OnTrack`).
- **`MfgProofs!TInv`**, for `AveragesHold` and `FreightAllocated`: every position
  carries the average of its value and quantity, and every order under way is
  what was asked. The allocation itself is proved of the operators
  (`LargestRemainder`): with floors handed out, the cents that are left are fewer
  than the lines, and go to the first in turn.
- **`MfgProofs!NInv`**, for `OnHandTies` and `EveryBuildRecorded`. `Tied`: the
  stock is what account 1300 was moved by, plus what commands under way have
  put on the shelf and not posted, or posted and not yet taken from it. As long
  as no command was cut off or overtaken (`~disturbed`), each step moves the
  three sums together. `BuildsKnown`: a posted build has its row or a process
  about to write it. `RowsAddUp`: a row's consumptions and those still to come
  are the material it states.

- **`FeedsProofs!FInv`.** `Types`: what each process remembers fits the place it
  is at, an entry undoes an earlier entry of its own document. `FeedStands`: a
  document of an export that nothing tore is unsaved and unposted, or saved by
  the one process that is about to post it, or saved and posted by one entry.
  The look is what makes it so: it lets a process save only what has no version,
  so every process at the save was told version 1 (`Working`), and one that was
  not overtaken finds the document unsaved (`SavesFirst`). The process at the
  post is then alone and the entry it adds is the first. `RequestStands` says the same of a request
  whose state still reads "proposed" while one process stands between its entry
  and its decision. `RunStands` has no exception: the runs of a file are saved
  and posted in one transaction, and only those that have no live entry.
- **`Applies`**, the part of `FInv` for `NotOverApplied`. It holds as long as
  nothing was `misread`: what a process may still apply, summed over the sales of
  its plan that are unsaved, is no more than it believes to be open (`Budget`),
  and it believes the truth when it saves. `PlanFits` is the start: the sales of
  a file together take the lesser of their sum and what is open, by induction on
  the size of an initial segment of the file (`Position`), because each sale is
  left what the ones before it did not take. A save moves one sale from the plan
  to `applied`, and other importers' plans only lose sales by it.
- **`ClearingNetsHolds`** then takes each document of a batch to its one entry
  (`SumByKey`) and the payout against the sum of its transactions (`BatchNets`).

The type invariants of `Import`, `Bank`, `Books`, `Feeds` and `Sweep` are parts
of these invariants, in the proof modules.

*Left to TLC.* Liveness, fairness and `ENABLED` (`QueueDrains`, `CatchesUp`,
`Recovers`, `Converges`), and what a recursive function computes for every
input. Every invariant and action property that a passing run checks is proved.

*What the proofs changed.* `Feeds` built its documents with `SelectSeq` and
folds over sequences, whose value for every input takes an induction over the
sequence. It now says what they come to: the set of rows that settled, the turn
of each document (`Position`), and what the sales before it left open
(`Remaining`); a scope with two batches was added to tell the turn from the row.
`ApplicationsHold` exempted a debt as long as
something saved without the check is applied against it. That is not inductive
and, beyond the bounds of the run, not true: `apply_credit` takes the magnitude
of what is open (books.rs:1738), so an invoice that such a payment over-applied
offers room, and the credit applied into it stays when the payment is taken
back (five commands and amounts up to three show it). The exemption now reads
that such a document has at some time been applied against the debt
(`UncheckedUse`).

## 5. Hazards

`PROJECT.json` lists them at their lines with the properties that would catch
them; where a property holds only outside the window in which the hazard bites,
because the code lets it happen there, a note says so. Two have no property. The id mapping that is lost when a pass dies before
its end (writes.rs:287) is in the model, and contradicts a document (section 6);
the properties hold beside it. The refresh token that is rotated before it is
saved (auth.rs:107) is one step of one process, and the outcome is a login.

## 6. Disagreements between code and documents

Shown by a run:

| run | what |
|---|---|
| `deletion_lost` | a CDC deletion has no SyncToken, is read as token 0 and is skipped as older than any edited record (store.rs:1986, http.rs:891): the replica keeps it live, against store.rs:1861. `Recovers` shows that a verification sweep names it in the end |
| `bank_money_out` | `confirm_proposal` states the magnitude of a line that took money out, and `post_bank_line` reads the direction off the sign (ledger bank.rs:563), so a confirmed payment debits the bank, against post.rs:776 |
| `material_drift` | `receive_materials` reads every line's material before it writes any (mfg/landed.rs:238): of two lines of one material the second overwrites what the first added, against mfg/report.rs:5 and store.rs:424, "to the cent, every time, by construction" |

Met while modelling; the models have the behaviour, and the properties are
stated so that they hold beside it:

- mappings are saved after the whole pass (writes.rs:287): a crash before that
  leaves an applied create without one, against DESIGN.md:680;
- a refusal for a duplicate name becomes `rejected`; DESIGN.md:700 says it is
  converted into an adoption;
- recovery sends a row back to the queue without looking at its attempts
  (outbox.rs:297), so it is attempted once more than `MAX_ATTEMPTS` (outbox.rs:173);
- a master that was created, whose answer was lost and which was then renamed
  is created again, against DESIGN.md:705;
- a deletion between two pages of a sweep moves an unread record into the part
  already read, where DESIGN.md:504 calls the baseline always correct;
  DESIGN.md:894 lists the slip as open;
- a verification sweep may take a record back to what it fetched before a newer
  poll was applied (reconcile.rs:368), where store.rs:1059 says a late
  re-delivery never rolls a record back; `HealsFromThisSweep` says how far;
- the lines of a file that was imported before belong to the statement that had
  them first, so a second statement over them may never close (docs/BANK.md:73
  says re-importing is always safe);
- of several candidates the matcher takes the nearest by itself, where
  LEDGER-DESIGN.md section 10 lets the owner pick;
- a batch whose refunds equal its sales, a request whose lines cancel out, a
  zero bank line and an empty build reach `unreachable!()` after their version
  was saved (authnet.rs:573, accountant.rs:818, bank.rs:612, mfg/build.rs:210);
- a document may be created voided (mcp.rs:531), and `apply_void` then posts the
  opposite of an entry that was never posted, where post.rs:1109 has a reversal
  in mind and `update_document` refuses it (books.rs:1555); `BookAgrees` excuses
  such a document (`swapped`) until the next one saved under its id is edited;
- `apply_credit` applies more than is open to a debt that is over-applied:
  `open_of` takes the magnitude of a negative balance (books.rs:1738), against
  books.rs:1693, "may not exceed either";
- a row left `in_flight` alone is not recovered until something else is queued
  (serve.rs:233); what depends on a discarded create waits for ever;
- the settlement rule settles a line on the entry's credit to 1160
  (docs/BANK.md:96) and stamps its bank leg, which is another amount where the
  entry nets a fee or holds other money; a settlement that has booked its fee is
  found by its gross, and the fee is posted a second time (bank.rs:421).
  `SettledInFull` says what settles the line is off by that difference and no
  more;
- an item that gains, loses or changes an account does not change the payload of
  a document that sells it: the next run skips the document, and its entry keeps
  the old accounts (pipeline.rs:537), against LEDGER-DESIGN.md:570, "the same
  replica state produces the same ledger";
- an adjustment of inventory moves account 1300 and no material
  (mfg/build.rs:293), so after one the report on hand and 1300 differ, where
  mfg/report.rs:5 has them agree "to the cent, every time, by construction";
  `OnHandTies` holds up to what the adjustments moved (`Counted`);
- `require_writes` is asked once, at the start of a pass: switching writes off
  does not stop one that runs;
- a document number is looked up and then saved, and what is left to invoice of
  a sales order is read and then invoiced, so that two processes may both do it.

## 7. Not modelled

The map covers about a fourteenth of the program's lines: the code that changes
shared state in several steps. What is left out, and why:

- *Posting legs, taxes, classes, numbers of documents* (`L` `post.rs`, parts of
  `books.rs` and `store.rs`): an entry is abstracted to its effect on the one
  account a property is about. Balancing of legs is arithmetic inside one
  transaction, with unit tests for each document.
- *Contacts, items, terms, chart, schema, migrations:* rows written whole.
- *Mapping of fields, accounts and classes in the import, `opening.rs`,
  `slim.rs`, `handoff.rs`, the order of stages in `nightly.rs`:* data, or one
  export.
- *Reading bank, card and payroll files; reports, rendering, verification and
  audits; projection, queries, search, lineage:* functions of stored data.
- *Work in process, sheet versions, purchase orders, `sales_orders.rs`, and the
  manufacturing half of qbo-local:* single transactions on rows of their own;
  the races they share with the rest are in `Books` and `Mfg`.
- *Authorisation, key chain, call budget, token bucket:* one process and one or
  two steps, or arithmetic over clock time. Their refusals are `Fail`,
  `FailPoll` and `Abandon`, and `refused` answers in `Outbox`.
- *Daemon backoff and lag alarms:* the daemon is the fairness of the models.
- *`check_enable`:* a question about a soak period, with no state of its own.
- *`driver/reconcile.rs`:* an older sweep that no binary calls.
- *Backups and confirmations, API, loopback server, MCP servers, command lines,
  desktop shells, user interfaces, fixtures, tools, prototype:* translation and
  dispatch. `DemoQbo::tick` is `Due` in `Outbox`, and the tools of the ledger's
  MCP server are the first steps of the actions in `Books`.

Two realms are never modelled together: every table and every call is keyed by
realm, and the processes take one realm at a time.
