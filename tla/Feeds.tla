------------------------------- MODULE Feeds --------------------------------
(***************************************************************************)
(* Three ways entries reach the ledger in bulk or by request, each with a  *)
(* rule of its own against posting twice: a card processor's settlement    *)
(* export (a saved document is skipped for ever), payroll runs (one        *)
(* transaction, a live entry is left alone), and adjustments an accountant *)
(* proposes and the owner decides (a request is decided once).             *)
(*                                                                         *)
(* All documents are dated in one period, which is open or locked.         *)
(***************************************************************************)
EXTENDS Integers, Sequences, SequencesExt, FiniteSetsExt, Functions

CONSTANTS
    Procs,       \* the processes that have the ledger open
    Scopes,      \* the feeds looked at and how far: a behaviour keeps to one
    MaxCrashes   \* bound: processes killed part way

\* A scope has the rows of an export, each with its batch and signed amount and
\* whether it settled; the invoice its sales name; payroll runs; requests, and
\* among them those whose lines cancel out; and bounds on commands and figures.
ASSUME ScopesAssumption ==
    \A s \in Scopes :
        /\ Len(s.rows) \in Nat /\ DOMAIN s.rows = 1 .. Len(s.rows)
        /\ \A i \in DOMAIN s.rows : s.rows[i].amount \in Int /\ s.rows[i].settled \in BOOLEAN
        /\ s.invoice \in Nat /\ s.commands \in Nat /\ s.figures \in Nat \ {0}
        /\ s.cancelling \subseteq s.requests /\ IsFiniteSet(s.runs)

\* A document's id says what it is: "authnet:", "authnet:txn:", "payroll:" or
\* "adjustment-". The processor lists a transaction once.
ASSUME IdsAssumption ==
    \A s \in Scopes :
        /\ \A i, j \in DOMAIN s.rows : /\ s.rows[i].txn = s.rows[j].txn => i = j
                                       /\ s.rows[i].txn # s.rows[j].batch
        /\ \A i \in DOMAIN s.rows :
               {s.rows[i].txn, s.rows[i].batch} \cap (s.runs \cup s.requests) = {}
        /\ s.runs \cap s.requests = {}

VARIABLES
    scope,
    saved,       \* table document_versions: what each version states, by document
    entries,     \* the posted entries, in order
    applied,     \* what each saved sale applies to the invoice
    elsewhere,   \* what other payments apply to it
    figure,      \* what the payroll file says of each run
    state,       \* table adjustment_requests
    locked,      \* the period is closed
    pc, job,     \* where each process is, and what it remembers
    torn,        \* history: documents caught by a crash, a refusal or a race
    misread,     \* history: a sale was saved on a balance that was no longer so
    commands, crashes   \* bounds

ledgerVars == <<saved, entries, applied, elsewhere, state, locked>>
vars == <<scope, ledgerVars, figure, pc, job, torn, misread, commands, crashes>>

\* group_batches drops what was declined or voided.
Settled  == {i \in DOMAIN scope.rows : scope.rows[i].settled}
Txns     == {scope.rows[i].txn : i \in Settled}
Batches  == {scope.rows[i].batch : i \in Settled}
RowOf(t) == CHOOSE i \in Settled : scope.rows[i].txn = t
Amount(t) == scope.rows[RowOf(t)].amount
BatchOf(d) == IF d \in Batches THEN d ELSE scope.rows[RowOf(d)].batch
TxnsOf(b) == {t \in Txns : BatchOf(t) = b}
Docs     == Txns \cup Batches \cup scope.runs \cup scope.requests

Lesser(a, b) == IF a < b THEN a ELSE b

\* Mutation: what is refunded is not taken off the batch.
GrossOnly(b) ==
    SumFunction([t \in {u \in TxnsOf(b) : Amount(u) > 0} |-> Amount(t)])

\* group_batches: gross less refunds of what settled.
NetBeforeFees(b) == SumFunction([t \in TxnsOf(b) |-> Amount(t)])

\* What a document does to 1160: a sale debits it, a refund and the payout of
\* the batch credit it.
Clearing(d) == IF d \in Batches THEN -NetBeforeFees(d)
               ELSE IF d \in Txns THEN Amount(d) ELSE 0

\* post() finds no leg left: nothing moves.
MovesNothing(d) ==
    \/ d \in Batches /\ NetBeforeFees(d) = 0
    \/ d \in Txns /\ Amount(d) = 0
    \/ d \in scope.cancelling

FirstRow(b) ==
    CHOOSE i \in Settled : /\ scope.rows[i].batch = b
                           /\ \A j \in Settled : scope.rows[j].batch = b => i <= j

\* settlement_documents goes through the batches as they first appear, and
\* builds each batch's document and then those of its transactions.
Position(d) == FirstRow(BatchOf(d)) * (Len(scope.rows) + 1) + (IF d \in Txns THEN RowOf(d) ELSE 0)

Entry(d, version, reverses) == [doc |-> d, version |-> version, reverses |-> reverses]
Live(d) ==
    {i \in DOMAIN entries :
        /\ entries[i].doc = d /\ entries[i].reverses = 0
        /\ ~\E j \in DOMAIN entries : entries[j].reverses = i}

Open == scope.invoice - elsewhere - SumFunction(applied)

NoDoc == "no document"
Job(todo, plan, doc, basis, version) ==
    [todo |-> todo, plan |-> plan, doc |-> doc, basis |-> basis, version |-> version]
NoJob == Job({}, [t \in {} |-> 0], NoDoc, 0, 0)

Init ==
    /\ scope \in Scopes
    /\ saved = [d \in Docs |-> <<>>]
    /\ entries = <<>>
    /\ applied = [t \in Txns |-> 0]
    /\ elsewhere = 0
    /\ figure = [r \in scope.runs |-> 1]
    /\ state = [q \in scope.requests |-> "none"]
    /\ locked = FALSE
    /\ pc = [p \in Procs |-> "idle"]
    /\ job = [p \in Procs |-> NoJob]
    /\ torn = {} /\ misread = FALSE
    /\ commands = 0 /\ crashes = 0

Command(p) == pc[p] = "idle" /\ commands < scope.commands /\ commands' = commands + 1
Goto(p, label) == pc' = [pc EXCEPT ![p] = label]
Remember(p, j) == job' = [job EXCEPT ![p] = j]
Finish(p) == Goto(p, "idle") /\ Remember(p, NoJob)
Save(d, content) == saved' = [saved EXCEPT ![d] = Append(@, content)]
Post(d, version) == entries' = Append(entries, Entry(d, version, 0))

-----------------------------------------------------------------------------
(* The rest of the ledger. *)

\* A cheque for the invoice, entered by hand.
PaidElsewhere ==
    /\ Open > 0
    /\ elsewhere' = elsewhere + 1
    /\ UNCHANGED <<scope, saved, entries, applied, figure, state, locked, pc, job, torn, misread,
                   commands, crashes>>

\* close_period and reopen_period.
LockOrReopen(p) ==
    /\ Command(p)
    /\ locked' = ~locked
    /\ UNCHANGED <<scope, saved, entries, applied, elsewhere, figure, state, pc, job, torn, misread,
                   crashes>>

\* The mcp tool reverse_entry: by hand, the document stays as it is.
ReverseEntry(p) ==
    \E d \in Docs : \E i \in Live(d) :
        /\ Command(p)
        /\ ~locked
        /\ entries' = Append(entries, Entry(d, entries[i].version, i))
        /\ torn' = IF d \in scope.runs THEN torn ELSE torn \cup {d}
        /\ UNCHANGED <<scope, saved, applied, elsewhere, figure, state, locked, pc, job, misread,
                       crashes>>

-----------------------------------------------------------------------------
(* authnet::import_settlement *)

\* Mutation: the import does not look for what it saved before.
NeverImported(d) == FALSE

\* document_version_count > 0
Imported(d) == saved[d] # <<>>

\* invoice.open.max(ZERO)
Positive(n) == IF n < 0 THEN 0 ELSE n

\* Mutation: every sale of the file may use the whole open balance.
PlanEach(kept, open) == [t \in kept |-> IF Amount(t) > 0 THEN Lesser(Amount(t), open) ELSE 0]

Sales(kept) == {t \in kept : Amount(t) > 0}

\* What the sales of the file before this one left open.
Remaining(kept, open, t) ==
    Positive(open - SumFunction([u \in {v \in Sales(kept) : Position(v) < Position(t)} |-> Amount(u)]))

\* payment_document: a sale is applied up to what remains.
Plan(kept, open) ==
    [t \in kept |-> IF t \in Sales(kept) THEN Lesser(Amount(t), Remaining(kept, open, t)) ELSE 0]

\* Drops what is imported, reads what is open, and builds the documents.
ImportSettlement(p) ==
    LET kept == {t \in Txns : ~Imported(t)} IN
    /\ Settled # {}
    /\ Command(p)
    /\ Goto(p, "check")
    /\ Remember(p, Job(kept \cup Batches, Plan(kept, Positive(Open)), NoDoc, Open, 0))
    /\ UNCHANGED <<scope, ledgerVars, figure, torn, misread, crashes>>

\* Skips what is imported, and counts the versions for the next one.
CheckDocument(p) ==
    LET j == job[p] IN
    /\ pc[p] = "check"
    /\ \/ j.todo = {} /\ Finish(p)
       \/ \E d \in j.todo :
             /\ \A e \in j.todo : Position(d) <= Position(e)
             /\ IF Imported(d)
                THEN Remember(p, Job(j.todo \ {d}, j.plan, j.doc, j.basis, j.version)) /\ UNCHANGED pc
                ELSE /\ Remember(p, Job(j.todo \ {d}, j.plan, d, j.basis, Len(saved[d]) + 1))
                     /\ Goto(p, "save")
    /\ UNCHANGED <<scope, ledgerVars, figure, torn, misread, commands, crashes>>

\* Another process saved it between this one's look and its save: the number it
\* was told the version would have is taken.
Overtaken(p, d) == job[p].version # Len(saved[d]) + 1

\* The version is committed before the posting is looked at, and a posting that
\* moves nothing is unreachable!(): the process ends.
SaveDocument(p) ==
    LET j == job[p]  d == j.doc IN
    /\ pc[p] = "save"
    /\ Save(d, 1)
    /\ applied' = IF d \in Txns THEN [applied EXCEPT ![d] = j.plan[d]] ELSE applied
    /\ torn' = torn \cup (IF Overtaken(p, d) \/ MovesNothing(d) THEN {d} ELSE {})
    /\ misread' = (misread \/ (d \in Txns /\ (Overtaken(p, d) \/ j.basis # Open)))
    /\ IF MovesNothing(d)
       THEN Finish(p)
       ELSE /\ Goto(p, "post")
            /\ Remember(p, Job(j.todo, j.plan, d, IF d \in Txns THEN j.basis - j.plan[d] ELSE j.basis,
                               j.version))
    /\ UNCHANGED <<scope, entries, elsewhere, figure, state, locked, commands, crashes>>

\* post_entry: a locked period rejects the document, and the file goes on.
PostEntry(p) ==
    LET j == job[p]  d == j.doc IN
    /\ pc[p] = "post"
    /\ IF locked THEN torn' = torn \cup {d} /\ UNCHANGED entries
       ELSE Post(d, j.version) /\ UNCHANGED torn
    /\ Goto(p, "check")
    /\ Remember(p, Job(j.todo, j.plan, NoDoc, j.basis, j.version))
    /\ UNCHANGED <<scope, saved, applied, elsewhere, figure, state, locked, misread, commands,
                   crashes>>

-----------------------------------------------------------------------------
(* payroll::import_runs *)

FigureChanges ==
    \E r \in scope.runs :
        /\ figure[r] < scope.figures
        /\ figure' = [figure EXCEPT ![r] = @ + 1]
        /\ UNCHANGED <<scope, ledgerVars, pc, job, torn, misread, commands, crashes>>

\* Mutation: what was imported once is posted again unless it says the same.
NewUnlessSame(r) == Live(r) = {} \/ Last(saved[r]) # figure[r]

IsNew(r) == Live(r) = {}

\* A live entry whose document says something else refuses the whole file.
Changed(r) == ~IsNew(r) /\ Last(saved[r]) # figure[r]

\* All runs of the file in one transaction, through the period gate.
ImportRuns(p) ==
    \E file \in SUBSET scope.runs :
        LET new == {r \in file : IsNew(r)} IN
        /\ file # {}
        /\ Command(p)
        /\ ~locked
        /\ ~\E r \in file : Changed(r)
        /\ saved' = [d \in Docs |-> IF d \in new THEN Append(saved[d], figure[d]) ELSE saved[d]]
        /\ entries' = entries \o
               [i \in 1 .. Cardinality(new) |->
                   LET r == SetToSeq(new)[i] IN Entry(r, Len(saved[r]) + 1, 0)]
        /\ UNCHANGED <<scope, applied, elsewhere, figure, state, locked, pc, job, torn,
                       misread, crashes>>

-----------------------------------------------------------------------------
(* accountant: propose_adjustment and decide_adjustment *)

ProposeAdjustment(p) ==
    \E q \in scope.requests :
        /\ Command(p)
        /\ state[q] = "none"
        /\ state' = [state EXCEPT ![q] = "proposed"]
        /\ UNCHANGED <<scope, saved, entries, applied, elsewhere, figure, locked, pc, job, torn,
                       misread, crashes>>

\* Mutation: only a rejected request is refused.
NotRejected(q) == state[q] \notin {"none", "rejected"}

MayDecide(q) == state[q] = "proposed"

DecideAdjustment(p) ==
    \E q \in scope.requests, approve \in BOOLEAN :
        /\ Command(p)
        /\ MayDecide(q)
        /\ Goto(p, IF approve THEN "approve" ELSE "reject")
        /\ Remember(p, Job({}, [t \in {q} |-> state[q]], q, 0, 0))
        /\ UNCHANGED <<scope, ledgerVars, figure, torn, misread, crashes>>

\* Another process decided, or is deciding, what this one read as undecided.
Contended(p, q) ==
    \/ state[q] # job[p].plan[q]
    \/ \E o \in Procs \ {p} : pc[o] \in {"postAdjustment", "setPosted"} /\ job[o].doc = q

SaveAdjustment(p) ==
    LET q == job[p].doc IN
    /\ pc[p] = "approve"
    /\ Save(q, 1)
    /\ IF MovesNothing(q)
       THEN Finish(p)
       ELSE /\ Goto(p, "postAdjustment")
            /\ Remember(p, Job({}, job[p].plan, q, 0, Len(saved[q]) + 1))
    /\ UNCHANGED <<scope, entries, applied, elsewhere, figure, state, locked, torn, misread, commands,
                   crashes>>

PostAdjustment(p) ==
    LET q == job[p].doc IN
    /\ pc[p] = "postAdjustment"
    /\ IF locked THEN Finish(p) /\ UNCHANGED <<entries, torn>>
       ELSE /\ Post(q, job[p].version)
            /\ torn' = torn \cup (IF Contended(p, q) THEN {q} ELSE {})
            /\ Goto(p, "setPosted") /\ UNCHANGED job
    /\ UNCHANGED <<scope, saved, applied, elsewhere, figure, state, locked, misread, commands,
                   crashes>>

\* decide_adjustment_request: the last decision written stands.
SetDecision(p) ==
    LET q == job[p].doc IN
    /\ pc[p] \in {"reject", "setPosted"}
    /\ state' = [state EXCEPT ![q] = IF pc[p] = "reject" THEN "rejected" ELSE "posted"]
    /\ torn' = torn \cup (IF Contended(p, q) THEN {q} ELSE {})
    /\ Finish(p)
    /\ UNCHANGED <<scope, saved, entries, applied, elsewhere, figure, locked, misread, commands,
                   crashes>>

-----------------------------------------------------------------------------
Crash(p) ==
    /\ pc[p] # "idle" /\ crashes < MaxCrashes
    /\ crashes' = crashes + 1
    /\ torn' = torn \cup (IF pc[p] \in {"post", "setPosted"} THEN {job[p].doc} ELSE {})
    /\ Finish(p)
    /\ UNCHANGED <<scope, ledgerVars, figure, misread, commands>>

Process(p) ==
    \/ LockOrReopen(p) \/ ReverseEntry(p)
    \/ ImportSettlement(p) \/ CheckDocument(p) \/ SaveDocument(p) \/ PostEntry(p)
    \/ ImportRuns(p)
    \/ ProposeAdjustment(p) \/ DecideAdjustment(p)
    \/ SaveAdjustment(p) \/ PostAdjustment(p) \/ SetDecision(p)
    \/ Crash(p)

Next == PaidElsewhere \/ FigureChanges \/ \E p \in Procs : Process(p)

Spec == Init /\ [][Next]_vars

-----------------------------------------------------------------------------
\* Whatever is imported again, paid twice or decided by two people, a document
\* has one live entry. Excused is what was saved and not posted, what was
\* reversed by hand, and what two processes took up at the same moment; a
\* payroll run is one transaction and has no excuse.
PostedOnce ==
    \A d \in Docs : Cardinality(Live(d)) <= 1 \/ d \in torn \ scope.runs

\* A run's live entry is of the version that was saved last.
RunsAsSaved ==
    \A r \in scope.runs : \A i \in Live(r) : entries[i].version = Len(saved[r])

DocsOf(b) == TxnsOf(b) \cup {b}

\* When no import is between a save and its post, 1160 holds nothing of a batch
\* that was imported to the end, unless one of its documents was saved and not
\* posted, saved by two importers at once, or reversed by hand.
ClearingNets ==
    (\A p \in Procs : pc[p] \notin {"save", "post"})
    => \A b \in Batches :
        \/ DocsOf(b) \cap torn # {}
        \/ \E d \in DocsOf(b) : ~Imported(d)
        \/ SumFunction([i \in {j \in DOMAIN entries : entries[j].doc \in DocsOf(b)}
                           |-> Clearing(entries[i].doc)]) = 0

\* Card sales apply no more to an invoice than was open on it, unless another
\* payment, or another importer, came between the reading and the saving.
NotOverApplied == Open >= 0 \/ misread

\* A decision tells what happened: posted with its entry, rejected without one.
DecisionTells ==
    \A q \in scope.requests \ torn :
        /\ state[q] = "posted" => Live(q) # {}
        /\ state[q] \in {"none", "rejected"} => Live(q) = {}
=============================================================================
