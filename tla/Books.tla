------------------------------- MODULE Books --------------------------------
(***************************************************************************)
(* The ledger's books: documents in numbered versions, the journal entries *)
(* posted for them, and the period gate.  One SQLite file is open in       *)
(* several processes (the MCP server, the command line, the nightly run),  *)
(* so every tool that reads first and writes later can be overtaken.       *)
(*                                                                         *)
(* One module serves both sides of the book.  Debts are invoices or bills, *)
(* Credits are credit memos or vendor credits, Payments are customer or    *)
(* bill payments, and the book of the scope says which of the two is meant:*)
(* they differ only in where the unapplied part of a payment goes.  An     *)
(* entry is abstracted to what it does to the book's control account (1200 *)
(* or 2000): its effect.  Dates are small numbers and 0 is "no date".      *)
(***************************************************************************)
EXTENDS Integers, Sequences, SequencesExt, FiniteSetsExt, Functions

CONSTANTS
    Procs,       \* the processes that have the ledger open
    Debts, Credits, Payments,   \* the ids documents can take, by kind
    Scopes,      \* the books looked at and how far: a behaviour keeps to one
    MaxCrashes   \* bound: processes killed part way

NoDoc == "no document"

\* A scope names the book, bounds the dates, the totals and the tool calls, and
\* says whether callers ever send a document that is voided already.
ASSUME ScopesAssumption ==
    \A s \in Scopes :
        /\ s.book \in {"Receivable", "Payable"}
        /\ s.dates \in Nat \ {0} /\ s.amount \in Nat \ {0} /\ s.calls \in Nat
        /\ s.voids \subseteq BOOLEAN
ASSUME KindsAssumption ==
    /\ Debts \cap Credits = {} /\ Debts \cap Payments = {} /\ Credits \cap Payments = {}
    /\ IsFiniteSet(Debts \cup Credits \cup Payments)
    /\ NoDoc \notin Debts \cup Credits \cup Payments
ASSUME CrashesAssumption == MaxCrashes \in Nat

Docs  == Debts \cup Credits \cup Payments
NoApplications == [t \in Debts |-> 0]

VARIABLES
    versions,   \* table document_versions: the versions of each document
    journal,    \* tables journal_entries and journal_lines, in posting order
    closed,     \* table periods: the period ends whose state is 'closed'
    snapshot,   \* table tb_snapshots: the entries a close counted, by period
    pc, job,    \* where each process is, and what it remembers
    blame,      \* history: what a document's entries or applications went through
    slipped,    \* history: entries that got past a close
    scope, calls, crashes   \* bounds

booksVars == <<versions, journal, closed, snapshot>>
vars == <<booksVars, pc, job, blame, slipped, scope, calls, crashes>>

Dates == 1 .. scope.dates

-----------------------------------------------------------------------------
(* Documents, entries and what can be read from them. *)

\* An entry posted for a version of a document; reverses is the entry it undoes.
Entry(doc, version, date, amount, reverses) ==
    [doc |-> doc, version |-> version, date |-> date, amount |-> amount, reverses |-> reverses]

Saved(d)    == versions[d] # <<>>
Latest(d)   == Last(versions[d])
Standing(d) == Saved(d) /\ ~Latest(d).voided
Counts      == [d \in Docs |-> Len(versions[d])]

Applied(v) == SumFunction(v.apps)

\* What a version is worth to the control account.  A payment takes its
\* applications off 1200 and parks the rest in 2300; a bill payment takes all
\* of it off 2000.
Worth(d, v) ==
    IF d \in Debts THEN v.total
    ELSE IF d \in Credits \/ scope.book = "Payable" THEN -v.total
    ELSE -Applied(v)

\* What the books should hold of it.
Effect(d, v) == IF v.voided THEN 0 ELSE Worth(d, v)

\* apply_void: a version that is voided when it is posted posts the swapped sides.
Posted(d, v) == IF v.voided THEN -Worth(d, v) ELSE Worth(d, v)

Reversed(i) == \E j \in DOMAIN journal : journal[j].reverses = i

\* live_entries_for_document: posted, not a reversal, not reversed.
LiveEntries(d) ==
    {i \in DOMAIN journal : journal[i].doc = d /\ journal[i].reverses = 0 /\ ~Reversed(i)}

Stated(d) == IF Saved(d) THEN Effect(d, Latest(d)) ELSE 0
EntriesOf(d) == {i \in DOMAIN journal : journal[i].doc = d}
Net(d) == SumFunction([i \in EntriesOf(d) |-> journal[i].amount])

LockedThrough == IF closed = {} THEN 0 ELSE Max(closed)

\* Every standing document whose applications settle items on this book.
Settling == {d \in Credits \cup Payments : Standing(d)}

AppliedByOthers(t, excluding) ==
    IF t \notin Debts THEN 0
    ELSE SumFunction([d \in Settling \ {excluding} |-> Latest(d).apps[t]])

-----------------------------------------------------------------------------
(* open_items: what is open as of a date. *)

InWindow(d, asOf) == Standing(d) /\ Latest(d).date <= asOf

\* Mutation: what credits were applied to is forgotten.
PaidByPayments(t, asOf) ==
    SumFunction([d \in {p \in Payments : InWindow(p, asOf)} |-> Latest(d).apps[t]])

PaidBy(t, asOf) ==
    SumFunction([d \in {c \in Credits \cup Payments : InWindow(c, asOf)} |-> Latest(d).apps[t]])

\* A bill payment applied to a bill dated later was not applied to anything
\* yet; a customer payment never opens an item.
NotYetApplied(d, asOf) ==
    LET v == Latest(d) IN
    v.total - Applied(v)
        + SumFunction([t \in {b \in Debts : Saved(b) /\ Latest(b).date > asOf} |-> v.apps[t]])

OpenItem(d, asOf) ==
    IF ~InWindow(d, asOf) THEN 0
    ELSE IF d \in Debts THEN Latest(d).total - PaidBy(d, asOf)
    ELSE IF d \in Credits THEN -(Latest(d).total - Applied(Latest(d)))
    ELSE IF scope.book = "Payable" THEN -NotYetApplied(d, asOf)
    ELSE 0

AgingTotal(asOf) == SumFunction([d \in Docs |-> OpenItem(d, asOf)])

ControlBalance(asOf) ==
    SumFunction([i \in {k \in DOMAIN journal : journal[k].date <= asOf} |-> journal[i].amount])

Magnitude(n) == IF n < 0 THEN -n ELSE n
OpenOf(d) == Magnitude(OpenItem(d, scope.dates))

-----------------------------------------------------------------------------
(* Processes.  A job is what the process read and is about to write. *)

NoJob == [tool |-> "none"]

Init ==
    /\ scope \in Scopes
    /\ versions = [d \in Docs |-> <<>>]
    /\ journal = <<>>
    /\ closed = {}
    /\ snapshot = [e \in Dates |-> {}]
    /\ pc = [p \in Procs |-> "idle"]
    /\ job = [p \in Procs |-> NoJob]
    /\ blame = [d \in Docs |-> {}]
    /\ slipped = {}
    /\ calls = 0 /\ crashes = 0

Begin(p, at, j) ==
    /\ pc' = [pc EXCEPT ![p] = at]
    /\ job' = [job EXCEPT ![p] = j]

Return(p) == Begin(p, "idle", NoJob)

\* A tool call begins in a process that has none under way.
Call(p) ==
    /\ pc[p] = "idle"
    /\ calls < scope.calls
    /\ calls' = calls + 1

\* The versions a caller can send for a document: a debt applies to nothing, a
\* payment or a credit says what it settles, and any may say that it is voided.
Payloads(d) ==
    [date : Dates, total : 1 .. scope.amount, voided : scope.voids,
     apps : IF d \in Debts THEN {NoApplications} ELSE [Debts -> 0 .. scope.amount]]

\* What a payment does not apply it leaves unapplied, never less than nothing.
WellFormed(v) == Applied(v) <= v.total

-----------------------------------------------------------------------------
(* create_document ("create") and save_and_post_document ("save"): a       *)
(* version is saved in one transaction and its entry posted in another.    *)
(* Neither asks whether the id already has entries, or whether what it     *)
(* applies is still open.  The first derives the entry before it saves,    *)
(* under the version number it expects; the second afterwards, when the    *)
(* posting rules can still refuse.                                         *)

NextVersion(d) == Len(versions[d]) + 1

CreateBegin(p) ==
    /\ Call(p)
    /\ \E d \in Docs, tool \in {"create", "save"} : \E v \in Payloads(d) :
        /\ d \in Payments => WellFormed(v)
        /\ Begin(p, "save", [tool |-> tool, doc |-> d, new |-> v,
                             next |-> NextVersion(d)])
    /\ UNCHANGED <<booksVars, blame, slipped, scope, crashes>>

\* Every standing application of v is to a debt that stands and has room.
Unchecked(d, v) ==
    \E t \in Debts :
        /\ v.apps[t] > 0
        /\ ~Standing(t) \/ AppliedByOthers(t, d) + v.apps[t] > Latest(t).total

CreateSave(p) ==
    /\ pc[p] = "save"
    /\ LET d == job[p].doc
           v == job[p].new
           saved == Len(versions[d]) + 1
           cited == IF job[p].tool = "create" THEN job[p].next ELSE saved
       IN
       /\ versions' = [versions EXCEPT ![d] = Append(@, v)]
       /\ blame' = [blame EXCEPT ![d] = @
                       \cup (IF Unchecked(d, v) \/ Saved(d) THEN {"unchecked"} ELSE {})
                       \cup (IF LiveEntries(d) # {} THEN {"stacked"} ELSE {})
                       \cup (IF cited # saved THEN {"misnumbered"} ELSE {})]
       /\ IF Posted(d, v) = 0
          THEN Return(p)
          ELSE Begin(p, "gate", [tool |-> job[p].tool, doc |-> d,
                   entry |-> Entry(d, cited, v.date, Posted(d, v), 0)])
    /\ UNCHANGED <<journal, closed, snapshot, slipped, scope, calls, crashes>>

\* post_entry reads the lock before its transaction begins.
Gate(p) ==
    /\ pc[p] = "gate"
    /\ job[p].entry.date > LockedThrough
    /\ Begin(p, "insert", [tool |-> job[p].tool, doc |-> job[p].doc,
                           entry |-> job[p].entry, lock |-> LockedThrough])
    /\ UNCHANGED <<booksVars, blame, slipped, scope, calls, crashes>>

Creating == {"create", "save"}

\* PeriodClosed, or a posting rule that save_and_post_document meets after
\* its save: the version stays, without an entry.
Refused(p) ==
    /\ pc[p] = "gate"
    /\ job[p].entry.date <= LockedThrough \/ job[p].tool = "save"
    /\ blame' = [blame EXCEPT ![job[p].doc] =
                    IF job[p].tool \in Creating THEN @ \cup {"half"} ELSE @]
    /\ Return(p)
    /\ UNCHANGED <<booksVars, slipped, scope, calls, crashes>>

\* What happened to the document while its entry was on its way.
InsertBlame(e) ==
    IF e.reverses # 0
    THEN IF e.reverses \in LiveEntries(e.doc) THEN {"reversed"} ELSE {"twice"}
    ELSE IF LiveEntries(e.doc) # {} \/ e.version # Len(versions[e.doc]) THEN {"stacked"}
    ELSE IF Latest(e.doc).voided THEN {"swapped"} ELSE {}

Insert(p) ==
    /\ pc[p] = "insert"
    /\ LET e == job[p].entry IN
       /\ journal' = Append(journal, e)
       /\ blame' = [blame EXCEPT ![e.doc] = @ \cup InsertBlame(e)]
       /\ slipped' = IF job[p].lock < e.date /\ e.date <= LockedThrough
                     THEN slipped \cup {Len(journal) + 1} ELSE slipped
    /\ Return(p)
    /\ UNCHANGED <<versions, closed, snapshot, scope, calls, crashes>>

\* The tool reverse_entry: any posted entry, on any date, as often as asked.
ReverseBegin(p) ==
    /\ Call(p)
    /\ \E i \in DOMAIN journal, on \in Dates :
        Begin(p, "gate", [tool |-> "reverse", doc |-> journal[i].doc,
                entry |-> Entry(journal[i].doc, journal[i].version, on, -journal[i].amount, i)])
    /\ UNCHANGED <<booksVars, blame, slipped, scope, crashes>>

-----------------------------------------------------------------------------
(* update_document, void_document and apply_credit: checked, planned, then *)
(* committed by commit_revision in one transaction.                        *)

Revising(d, v, reposting) ==
    [tool |-> "revise", doc |-> d, old |-> Latest(d), new |-> v, reposting |-> reposting,
     seen |-> Counts]

\* The applications of a version, checked against their targets.
ApplicationsFit(d, v) ==
    \A t \in Debts : v.apps[t] > 0 =>
        Standing(t) /\ AppliedByOthers(t, d) + v.apps[t] <= Latest(t).total

\* Mutation: only the credit's own use counts.
UsedUpOwn(d, v) == IF d \in Credits THEN Applied(v) ELSE 0

\* What is applied against the document, its own use of a credit included.
UsedUp(d, v) ==
    IF d \in Payments THEN 0
    ELSE AppliedByOthers(d, d) + (IF d \in Credits THEN Applied(v) ELSE 0)

UpdateCheck(p) ==
    /\ Call(p)
    /\ \E d \in Docs : Standing(d) /\ \E v \in Payloads(d) :
        /\ ~v.voided
        /\ d \in Payments => WellFormed(v)
        /\ UsedUp(d, v) <= v.total
        /\ ApplicationsFit(d, v)
        /\ Begin(p, "plan", Revising(d, v, "post"))
    /\ UNCHANGED <<booksVars, blame, slipped, scope, crashes>>

VoidCheck(p) ==
    /\ Call(p)
    /\ \E d \in Docs :
        /\ Standing(d)
        /\ d \in Payments \/ AppliedByOthers(d, d) = 0
        /\ Begin(p, "plan", Revising(d, [Latest(d) EXCEPT !.voided = TRUE], "void"))
    /\ UNCHANGED <<booksVars, blame, slipped, scope, crashes>>

ApplyCheck(p) ==
    /\ Call(p)
    /\ \E c \in Credits, t \in Debts, amount \in 1 .. scope.amount :
        /\ Standing(c) /\ Standing(t)
        /\ amount <= OpenOf(c) /\ amount <= OpenOf(t)
        /\ Begin(p, "plan", Revising(c, [Latest(c) EXCEPT !.apps[t] = @ + amount], "keep"))
    /\ UNCHANGED <<booksVars, blame, slipped, scope, crashes>>

\* check_unlocked on both dates, and the live entries, before the transaction.
PlanRevision(p) ==
    /\ pc[p] = "plan"
    /\ job[p].old.date > LockedThrough /\ job[p].new.date > LockedThrough
    /\ Begin(p, "commit", [tool |-> "revise", doc |-> job[p].doc, old |-> job[p].old,
           new |-> job[p].new, reposting |-> job[p].reposting, seen |-> job[p].seen,
           live |-> LiveEntries(job[p].doc)])
    /\ UNCHANGED <<booksVars, blame, slipped, scope, calls, crashes>>

PlanRefused(p) ==
    /\ pc[p] = "plan"
    /\ job[p].old.date <= LockedThrough \/ job[p].new.date <= LockedThrough
    /\ Return(p)
    /\ UNCHANGED <<booksVars, blame, slipped, scope, calls, crashes>>

\* Mutation: the lines are not compared.
SamePostingDate(live, d, v) == \E i \in live : live = {i} /\ journal[i].date = v.date

\* The same date and the same lines as the one live entry.
SamePosting(live, d, v) ==
    \E i \in live : live = {i} /\ journal[i].date = v.date /\ journal[i].amount = Posted(d, v)

Reversing(j) ==
    IF j.reposting = "keep" \/ (j.reposting = "post" /\ SamePosting(j.live, j.doc, j.new))
    THEN {} ELSE j.live

Posting(j) ==
    /\ j.reposting = "post"
    /\ Posted(j.doc, j.new) # 0
    /\ ~SamePosting(j.live, j.doc, j.new)

\* Mutation: a correction is dated today, not where the entry stood.
ReversalOfToday(i) ==
    Entry(journal[i].doc, journal[i].version, scope.dates, -journal[i].amount, i)

ReversalOf(i) ==
    Entry(journal[i].doc, journal[i].version, journal[i].date, -journal[i].amount, i)

\* Mutation: the new entry cites the version it replaces.
CorrectionsOldVersion(j) ==
    [k \in 1 .. Cardinality(Reversing(j)) |->
        ReversalOf(SetToSeq(Reversing(j))[k])]
    \o (IF Posting(j)
        THEN <<Entry(j.doc, Len(versions[j.doc]), j.new.date, Posted(j.doc, j.new), 0)>>
        ELSE <<>>)

\* What the transaction appends: a reversal of each entry the plan found
\* live, dated the entry it reverses, and the new version's entry.
Corrections(j) ==
    [k \in 1 .. Cardinality(Reversing(j)) |->
        ReversalOf(SetToSeq(Reversing(j))[k])]
    \o (IF Posting(j)
        THEN <<Entry(j.doc, Len(versions[j.doc]) + 1, j.new.date, Posted(j.doc, j.new), 0)>>
        ELSE <<>>)

\* Mutation: the lock read before the transaction is enough.
CommitGateTrusting(j) == TRUE

\* Inside the transaction the lock is read again, for every entry.
CommitGate(j) == \A k \in DOMAIN Corrections(j) : Corrections(j)[k].date > LockedThrough

\* Another process saved between the checks and the commit.
Overtaken(j) == j.seen # Counts

\* What the entries of the document went through.  A revision that reverses
\* what it found live and posts afresh also mends what an earlier tool left.
EntryBlame(j) ==
    IF Reversing(j) # {} \/ Posting(j) \/ j.reposting = "void"
    THEN (blame[j.doc] \ {"half", "stacked", "swapped", "reversed", "lapsed"})
         \cup (IF LiveEntries(j.doc) \ j.live # {} THEN {"stacked"} ELSE {})
         \cup (IF j.live \ LiveEntries(j.doc) # {} THEN {"twice"} ELSE {})
    ELSE blame[j.doc]
         \cup (IF j.live # LiveEntries(j.doc) \/ j.seen[j.doc] # Len(versions[j.doc])
               THEN {"lapsed"} ELSE {})

CommitBlame(j) ==
    [d \in Docs |->
        (IF d = j.doc THEN EntryBlame(j) ELSE blame[d])
        \cup (IF Overtaken(j) /\ (d = j.doc \/ (d \in Debts /\ j.new.apps[d] > 0))
              THEN {"overtaken"} ELSE {})]

Commit(p) ==
    /\ pc[p] = "commit"
    /\ LET j == job[p] IN
       /\ CommitGate(j)
       /\ versions' = [versions EXCEPT ![j.doc] = Append(@, j.new)]
       /\ journal' = journal \o Corrections(j)
       /\ blame' = CommitBlame(j)
    /\ Return(p)
    /\ UNCHANGED <<closed, snapshot, slipped, scope, calls, crashes>>

\* PeriodClosed inside the transaction: all of it is rolled back.
RollBack(p) ==
    /\ pc[p] = "commit"
    /\ ~CommitGate(job[p])
    /\ Return(p)
    /\ UNCHANGED <<booksVars, blame, slipped, scope, calls, crashes>>

-----------------------------------------------------------------------------
(* Closing and reopening a period. *)

EntriesThrough(e) == {i \in DOMAIN journal : journal[i].date <= e}

\* The trial balance is taken, and saved, before the closing transaction.
CloseSnapshot(p) ==
    /\ Call(p)
    /\ \E e \in Dates :
        Begin(p, "close", [tool |-> "close", end |-> e, counted |-> EntriesThrough(e)])
    /\ UNCHANGED <<booksVars, blame, slipped, scope, crashes>>

ClosePeriod(p) ==
    /\ pc[p] = "close"
    /\ LET e == job[p].end IN
       /\ closed' = closed \cup {e}
       /\ snapshot' = [snapshot EXCEPT ![e] = job[p].counted]
       /\ slipped' = slipped \cup (EntriesThrough(e) \ job[p].counted)
    /\ Return(p)
    /\ UNCHANGED <<versions, journal, blame, scope, calls, crashes>>

ReopenPeriod(p) ==
    /\ Call(p)
    /\ \E e \in closed : closed' = closed \ {e}
    /\ UNCHANGED <<versions, journal, snapshot, pc, job, blame, slipped, scope, crashes>>

\* A process is killed; what it had not committed is gone.
Crash(p) ==
    /\ pc[p] # "idle" /\ crashes < MaxCrashes
    /\ crashes' = crashes + 1
    /\ blame' = IF pc[p] \in {"gate", "insert"} /\ job[p].tool \in Creating
                THEN [blame EXCEPT ![job[p].doc] = @ \cup {"half"}] ELSE blame
    /\ Return(p)
    /\ UNCHANGED <<booksVars, slipped, scope, calls>>

Next ==
    \E p \in Procs :
        \/ CreateBegin(p) \/ CreateSave(p) \/ Gate(p) \/ Refused(p) \/ Insert(p)
        \/ ReverseBegin(p)
        \/ UpdateCheck(p) \/ VoidCheck(p) \/ ApplyCheck(p)
        \/ PlanRevision(p) \/ PlanRefused(p) \/ Commit(p) \/ RollBack(p)
        \/ CloseSnapshot(p) \/ ClosePeriod(p) \/ ReopenPeriod(p)
        \/ Crash(p)

Spec == Init /\ [][Next]_vars

-----------------------------------------------------------------------------
(* Properties. *)

\* Save and post are two transactions: between them the entry is on its way.
OnItsWay(d) ==
    \E p \in Procs : pc[p] \in {"gate", "insert"} /\ job[p].tool \in Creating /\ job[p].doc = d

\* The journal holds for a document what its newest version says, whatever
\* edits, voids and applications were committed by whom, unless the document
\* went through one of six things the code lets happen: a create that never
\* posted, a second entry stacked on a live one, a create of what is voided
\* already, a reversal by hand, a version kept from a stale read, an entry
\* reversed twice.  All but the last are mended by the next edit.
BookAgrees ==
    \A d \in Docs :
        \/ OnItsWay(d)
        \/ blame[d] \cap {"half", "stacked", "swapped", "reversed", "lapsed", "twice"} # {}
        \/ Net(d) = Stated(d)

\* A period that is closed holds exactly the entries its trial balance counted,
\* but for those posted between the snapshot and the close, or by a post that
\* had read the lock before the close.
ClosedBooksStand ==
    \A e \in closed : EntriesThrough(e) \ snapshot[e] \subseteq slipped

\* A document that was saved without the check has at some time been applied
\* against t.  Later does not help: while t is over-applied what is open of it
\* is negative, and open_of takes the magnitude, so that apply_credit finds
\* room for a credit which stays when the first application is taken back.
UncheckedUse(t) ==
    \E d \in Credits \cup Payments :
        "unchecked" \in blame[d] /\ \E v \in Range(versions[d]) : v.apps[t] > 0

\* No debt carries more applications than it is worth, and none is applied
\* against a debt that was voided, unless a document was created without the
\* check or the check was overtaken.
ApplicationsHold ==
    \A t \in Debts :
        \/ blame[t] \cap {"unchecked", "overtaken"} # {}
        \/ UncheckedUse(t)
        \/ AppliedByOthers(t, NoDoc) <= IF Standing(t) THEN Latest(t).total ELSE 0

\* The open items add up to the control account once every document agrees
\* with its entries and nothing is applied against a debt that does not stand.
AgingTies ==
    (/\ \A d \in Docs : ~OnItsWay(d) /\ Net(d) = Stated(d)
     /\ \A d \in Settling, t \in Debts : Latest(d).apps[t] > 0 => Standing(t))
    => AgingTotal(scope.dates) = ControlBalance(scope.dates)

\* An entry can be traced: a reversal undoes exactly one earlier entry of the
\* same document, and an original says what the version it cites says, unless
\* two processes saved that document at once.
EntriesTrace ==
    \A i \in DOMAIN journal :
        LET e == journal[i] IN
        IF e.reverses # 0
        THEN /\ e.reverses < i
             /\ journal[e.reverses].doc = e.doc
             /\ e.amount = -journal[e.reverses].amount
        ELSE /\ e.version <= Len(versions[e.doc])
             /\ \/ "misnumbered" \in blame[e.doc]
                \/ LET v == versions[e.doc][e.version] IN
                   e.date = v.date /\ e.amount = Posted(e.doc, v)

\* What an auditor is promised: see AuditTrail.
Trail == INSTANCE AuditTrail WITH record <- versions, trail <- journal
TrailKept == Trail!AuditSpec
=============================================================================
