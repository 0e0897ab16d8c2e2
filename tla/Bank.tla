-------------------------------- MODULE Bank --------------------------------
(***************************************************************************)
(* Bank statements beside the books: import, matching, proposals a person  *)
(* confirms, and the close of a statement.  None of it is a transaction:   *)
(* every statement the code executes is an action here, so a process can   *)
(* die or be overtaken between any two.                                    *)
(*                                                                         *)
(* An entry is abstracted to what it does to the statement's account: bank *)
(* is its one leg there, positive for a debit, and gross what it credits   *)
(* to 1160, the card processor's clearing account; the two differ by what  *)
(* else the entry books, a fee or money from elsewhere.  Saved document    *)
(* versions are module Books' subject and are left out.                    *)
(***************************************************************************)
EXTENDS Integers, Sequences, FiniteSetsExt, Functions

CONSTANTS
    Procs,        \* the processes that have the ledger open
    Scopes,       \* what the bank has on file and how far it is followed
    Window,       \* MatchRules::date_window_days
    FeeParts,     \* MatchRules::max_fee_ratio is 1 / FeeParts
    MaxStatements, MaxCrashes   \* bounds

\* A scope is the bank's record (amount and day by id), the sets of ids a file
\* may contain, the kinds and the number of entries the rest of the ledger
\* posts, and the number of commands people give.
ASSUME ScopesAssumption ==
    \A s \in Scopes :
        /\ DOMAIN s.feed \subseteq Nat
        /\ \A i \in DOMAIN s.feed : s.feed[i].day \in Nat /\ s.feed[i].amount \in Int
        /\ UNION s.exports \subseteq DOMAIN s.feed /\ s.entries \in Nat /\ s.commands \in Nat
ASSUME RulesAssumption == Window \in Nat /\ FeeParts \in Nat \ {0}

VARIABLES
    scope,        \* the bank's own record of what happened, and the bounds
    statements,   \* table bank_statements, in the order they were imported
    rows,         \* table bank_lines: match_kind and matched_entry_id by line
    journal,      \* the posted entries, with cleared_at of the leg at the bank
    lockedThrough,
    pc, job,      \* where each process is, and what it remembers
    torn,         \* history: lines caught by a crash, a refusal or a stale read
    doubled,      \* history: entries two processes were clearing at once
    hasty,        \* history: statements closed while something was in flight
    commands, crashes   \* bounds

bankVars == <<scope, statements, rows, journal, lockedThrough>>
vars == <<bankVars, pc, job, torn, doubled, hasty, commands, crashes>>

feed    == scope.feed
Ids     == UNION scope.exports
Lines   == (1 .. MaxStatements) \X Ids
Days    == {feed[i].day : i \in DOMAIN feed}
Amount(l) == feed[l[2]].amount
Day(l)    == feed[l[2]].day
Unlooked == [kind |-> "none", entry |-> 0]

Magnitude(n) == IF n < 0 THEN -n ELSE n
AmountOf(L) == SumFunction([l \in L |-> Amount(l)])
LinesOf(s) == {l \in DOMAIN rows : l[1] = s}

Entry(kind, bank, gross, day, of) ==
    [kind |-> kind, bank |-> bank, gross |-> gross, day |-> day, of |-> of, cleared |-> FALSE]

NoLine == <<0, 0>>
NoJob == [statement |-> 0, todo |-> {}, line |-> NoLine, kind |-> "none", entry |-> 0,
          fee |-> 0, wasCleared |-> FALSE, seen |-> "none", count |-> 0]

Init ==
    /\ scope \in Scopes
    /\ statements = <<>>
    /\ rows = [l \in {} |-> Unlooked]
    /\ journal = <<>>
    /\ lockedThrough = 0
    /\ pc = [p \in Procs |-> "idle"]
    /\ job = [p \in Procs |-> NoJob]
    /\ torn = {} /\ doubled = {} /\ hasty = {}
    /\ commands = 0 /\ crashes = 0

Command(p) == pc[p] = "idle" /\ commands < scope.commands /\ commands' = commands + 1
Goto(p, label) == pc' = [pc EXCEPT ![p] = label]
Finish(p) == Goto(p, "idle") /\ job' = [job EXCEPT ![p] = NoJob]
History == <<torn, doubled, hasty>>

-----------------------------------------------------------------------------
(* What the rest of the ledger does meanwhile. *)

\* post_settlement takes a fee it knows off the bank leg; the lines of a deposit
\* may name accounts other than 1160, or be fees.
Beside == [settlement |-> {-1, 0}, deposit |-> {-1, 0, 1}]
SettlementKinds == DOMAIN Beside

\* A customer paid into the bank, or a bill or purchase was paid from it.
BooksPostPayment ==
    \E i \in DOMAIN feed :
        /\ Len(journal) < scope.entries /\ "payment" \in scope.kinds
        /\ feed[i].day > lockedThrough
        /\ journal' = Append(journal,
               Entry(IF feed[i].amount < 0 THEN "purchase" ELSE "payment", feed[i].amount, 0,
                     feed[i].day, NoLine))
        /\ UNCHANGED <<scope, statements, rows, lockedThrough, pc, job, History, commands, crashes>>

\* A card batch settled or money was deposited: what 1160 is credited is what
\* came in or one more, the processor's fee unknown.
BooksPostSettlement ==
    \E i \in DOMAIN feed, kind \in SettlementKinds \cap scope.kinds, short \in {0, 1} :
        LET gross == feed[i].amount + short IN
        \E beside \in Beside[kind] :
            /\ Len(journal) < scope.entries
            /\ feed[i].amount > 0 /\ gross + beside > 0
            /\ feed[i].day > lockedThrough
            /\ journal' = Append(journal,
                   Entry(kind, gross + beside, gross, feed[i].day, NoLine))
            /\ UNCHANGED <<scope, statements, rows, lockedThrough, pc, job, History, commands,
                           crashes>>

BooksPost == BooksPostPayment \/ BooksPostSettlement

ClosePeriod ==
    \E day \in Days :
        /\ day > lockedThrough
        /\ lockedThrough' = day
        /\ UNCHANGED <<scope, statements, rows, journal, pc, job, History, commands, crashes>>

-----------------------------------------------------------------------------
(* import_statement *)

ImportStatement(p) ==
    \E file \in scope.exports :
        /\ Command(p)
        /\ Len(statements) < MaxStatements
        /\ statements' = Append(statements, [file |-> file, closed |-> FALSE])
        /\ Goto(p, "import")
        /\ job' = [job EXCEPT ![p].statement = Len(statements) + 1,
                              ![p].todo = {Len(statements) + 1} \X file]
        /\ UNCHANGED <<scope, rows, journal, lockedThrough, History, crashes>>

\* idx_bank_lines_external: one line per account and external id.
Known(line) == \E l \in DOMAIN rows : l[2] = line[2]

InsertLine(p) ==
    /\ pc[p] = "import"
    /\ job[p].todo # {}
    /\ LET line == <<job[p].statement, Min({l[2] : l \in job[p].todo})>> IN
       /\ job' = [job EXCEPT ![p].todo = @ \ {line}]
       /\ IF Known(line)
          THEN UNCHANGED <<rows, hasty>>
          ELSE /\ rows' = [l \in DOMAIN rows \cup {line} |->
                             IF l = line THEN Unlooked ELSE rows[l]]
               /\ hasty' = hasty \cup (IF statements[line[1]].closed THEN {line[1]} ELSE {})
    /\ UNCHANGED <<scope, statements, journal, lockedThrough, pc, torn, doubled, commands, crashes>>

ImportDone(p) ==
    /\ pc[p] = "import" /\ job[p].todo = {}
    /\ Finish(p)
    /\ UNCHANGED <<bankVars, History, commands, crashes>>

-----------------------------------------------------------------------------
(* match_statement *)

MatchStatement(p) ==
    \E s \in DOMAIN statements :
        /\ Command(p)
        /\ ~statements[s].closed
        /\ Goto(p, "match")
        /\ job' = [job EXCEPT ![p].statement = s,
                              ![p].todo = {l \in LinesOf(s) : rows[l].kind = "none"}]
        /\ UNCHANGED <<bankVars, History, crashes>>

Near(e, l) == Magnitude(journal[e].day - Day(l)) <= Window

\* EXACT_MATCH_SOURCE_KINDS, a bill payment being a purchase.
ExactKinds == {"payment", "deposit", "purchase"}

\* Mutation: lines that were cleared already are offered again.
ExactAgain(l) ==
    {e \in DOMAIN journal : journal[e].kind \in ExactKinds
                            /\ journal[e].bank = Amount(l) /\ Near(e, l)}

\* uncleared_lines_matching
ExactCandidates(l) ==
    {e \in DOMAIN journal : /\ journal[e].kind \in ExactKinds
                            /\ journal[e].bank = Amount(l)
                            /\ Near(e, l)
                            /\ ~journal[e].cleared}

\* The nearest day first, then the earlier day, then the earlier entry.
Nearest(C, l) ==
    CHOOSE e \in C : \A f \in C :
        LET d(x) == Magnitude(journal[x].day - Day(l)) IN
        \/ d(e) < d(f)
        \/ d(e) = d(f) /\ journal[e].day < journal[f].day
        \/ d(e) = d(f) /\ journal[e].day = journal[f].day /\ e <= f

\* Near a line of money in, with a debit at the bank that is not cleared yet.
Settlements(l) ==
    {e \in DOMAIN journal : /\ Amount(l) >= 0
                            /\ journal[e].kind \in SettlementKinds
                            /\ journal[e].bank > 0
                            /\ Near(e, l)
                            /\ ~journal[e].cleared}

\* Mutation: whatever credits enough is taken as it stands.
SettlementsAtLeast(l) == {e \in Settlements(l) : journal[e].gross >= Amount(l)}

\* What it credits 1160 by is what came in, whatever it debits the bank by.
SettlementCandidates(l) == {e \in Settlements(l) : journal[e].gross = Amount(l)}

\* fee_ratio: short of the credit by a plausible fee, though the entry may have
\* booked its fee already.
FeeCandidates(l) ==
    {e \in Settlements(l) :
        LET short == journal[e].gross - Amount(l) IN
        short > 0 /\ short * FeeParts <= journal[e].gross}

\* list_bank_lines: by day, then in the order of import.
NextLine(todo) ==
    CHOOSE l \in todo : \A m \in todo :
        Day(l) < Day(m) \/ (Day(l) = Day(m) /\ l[2] <= m[2])

\* The line is about to be settled with entry e.
Take(p, l, kind, e, fee) ==
    /\ Goto(p, "clear")
    /\ job' = [job EXCEPT ![p].line = l, ![p].todo = @ \ {l}, ![p].kind = kind, ![p].entry = e,
                          ![p].fee = fee, ![p].wasCleared = journal[e].cleared]
    /\ UNCHANGED <<rows, torn>>

\* set_bank_line_match(line, "proposed"): whatever the line says by now.
Propose(p, l) ==
    /\ rows' = [rows EXCEPT ![l] = [kind |-> "proposed", entry |-> 0]]
    /\ job' = [job EXCEPT ![p].todo = @ \ {l}]
    /\ torn' = torn \cup (IF rows[l].kind # "none" THEN {l} ELSE {})
    /\ pc' = pc

MatchOneLine(p) ==
    /\ pc[p] = "match" /\ job[p].todo # {}
    /\ LET l == NextLine(job[p].todo)
           exact == ExactCandidates(l)
           settled == SettlementCandidates(l)
           short == FeeCandidates(l)
       IN IF exact # {} THEN Take(p, l, "exact", Nearest(exact, l), 0)
          ELSE IF settled # {} THEN Take(p, l, "settlement", Min(settled), 0)
          ELSE IF short # {}
          THEN Take(p, l, "settlement", Min(short), journal[Min(short)].gross - Amount(l))
          ELSE Propose(p, l)
    /\ UNCHANGED <<scope, statements, journal, lockedThrough, doubled, hasty, commands, crashes>>

MatchDone(p) ==
    /\ pc[p] = "match" /\ job[p].todo = {}
    /\ Finish(p)
    /\ UNCHANGED <<bankVars, History, commands, crashes>>

\* clear_journal_line, in a match and in a confirmation.
ClearJournalLine(p) ==
    /\ pc[p] = "clear"
    /\ LET e == job[p].entry IN
       /\ journal' = [journal EXCEPT ![e].cleared = TRUE]
       /\ doubled' = doubled \cup
              (IF journal[e].cleared /\ ~job[p].wasCleared THEN {e} ELSE {})
    /\ Goto(p, "set")
    /\ UNCHANGED <<scope, statements, rows, lockedThrough, job, torn, hasty, commands, crashes>>

\* set_bank_line_match, after which a shortfall is posted as the fee.
SetBankLineMatch(p) ==
    /\ pc[p] = "set"
    /\ LET l == job[p].line IN
       /\ rows' = [rows EXCEPT ![l] = [kind |-> job[p].kind, entry |-> job[p].entry]]
       /\ torn' = torn \cup (IF rows[l].kind # job[p].seen THEN {l} ELSE {})
       /\ hasty' = hasty \cup (IF statements[l[1]].closed THEN {l[1]} ELSE {})
    /\ IF job[p].kind = "manual" THEN Finish(p)
       ELSE job' = job /\ Goto(p, IF job[p].fee > 0 THEN "fee" ELSE "match")
    /\ UNCHANGED <<scope, statements, journal, lockedThrough, doubled, commands, crashes>>

\* post_settlement_fee_adjustment: Dr 6700, Cr the bank, on the line's day.
PostFee(p) ==
    LET l == job[p].line IN
    /\ pc[p] = "fee"
    /\ Day(l) > lockedThrough
    /\ journal' = Append(journal, Entry("fee", -job[p].fee, 0, Day(l), l))
    /\ Goto(p, "match")
    /\ UNCHANGED <<scope, statements, rows, lockedThrough, job, History, commands, crashes>>

\* post_entry refuses, and the run ends: the line is settled without its fee.
FeeRefused(p) ==
    /\ pc[p] = "fee"
    /\ Day(job[p].line) <= lockedThrough
    /\ torn' = torn \cup {job[p].line}
    /\ Finish(p)
    /\ UNCHANGED <<bankVars, doubled, hasty, commands, crashes>>

-----------------------------------------------------------------------------
(* confirm_proposal *)

Answers(l) == {e \in DOMAIN journal : journal[e].kind = "bank_line" /\ journal[e].of = l}

\* Mutation: a line that was settled already can be confirmed.
Looked(l) == rows[l].kind # "none"

IsProposal(l) == rows[l].kind = "proposed"

ConfirmProposal(p) ==
    \E l \in DOMAIN rows :
        /\ Command(p)
        /\ IsProposal(l)
        /\ ~statements[l[1]].closed
        /\ Goto(p, "confirm")
        /\ job' = [job EXCEPT ![p].line = l, ![p].kind = "manual", ![p].seen = rows[l].kind]
        /\ UNCHANGED <<bankVars, History, crashes>>

\* Another process has posted or picked an entry for the line and not said so.
Contended(p, l) ==
    \E q \in Procs \ {p} : pc[q] \in {"clear", "set"} /\ job[q].line = l

\* The document states the magnitude, which post_bank_line books as money in.
PostConfirmed(p) ==
    LET l == job[p].line IN
    /\ pc[p] = "confirm"
    /\ Day(l) > lockedThrough
    /\ journal' = Append(journal, Entry("bank_line", Magnitude(Amount(l)), 0, Day(l), l))
    /\ job' = [job EXCEPT ![p].entry = Len(journal) + 1]
    /\ Goto(p, "clear")
    /\ torn' = torn \cup
           (IF Contended(p, l) \/ rows[l].kind # job[p].seen THEN {l} ELSE {})
    /\ UNCHANGED <<scope, statements, rows, lockedThrough, doubled, hasty, commands, crashes>>

\* The account needs a class and none was given, or the day is locked.
ConfirmRefused(p) ==
    /\ pc[p] = "confirm"
    /\ Finish(p)
    /\ UNCHANGED <<bankVars, History, commands, crashes>>

-----------------------------------------------------------------------------
(* close_statement *)

\* is_resolved
Resolved(l) == rows[l].kind \in {"exact", "settlement", "manual"}

\* The bank states the opening balance, and the closing one the file adds up to.
Moved(s) == SumFunction([i \in statements[s].file |-> feed[i].amount])

\* Mutation: what is left unmatched is not looked at.
MatchedTies(s) ==
    AmountOf({l \in LinesOf(s) : Resolved(l)}) = Moved(s)

Closes(s) ==
    /\ AmountOf({l \in LinesOf(s) : Resolved(l)}) = Moved(s)
    /\ AmountOf({l \in LinesOf(s) : ~Resolved(l)}) = 0

CloseStatement(p) ==
    \E s \in DOMAIN statements :
        /\ Command(p)
        /\ ~statements[s].closed
        /\ Closes(s)
        /\ Goto(p, "close")
        /\ job' = [job EXCEPT ![p].statement = s, ![p].todo = {l \in LinesOf(s) : Resolved(l)},
                              ![p].count = Cardinality(LinesOf(s))]
        /\ UNCHANGED <<bankVars, History, crashes>>

CloseBankStatement(p) ==
    LET s == job[p].statement IN
    /\ pc[p] = "close"
    /\ statements' = [statements EXCEPT ![s].closed = TRUE]
    /\ hasty' = hasty \cup
           (IF \/ job[p].todo # {l \in LinesOf(s) : Resolved(l)}
               \/ job[p].count # Cardinality(LinesOf(s))
            THEN {s} ELSE {})
    /\ Finish(p)
    /\ UNCHANGED <<scope, rows, journal, lockedThrough, torn, doubled, commands, crashes>>

-----------------------------------------------------------------------------
\* The process is killed: what it had cleared or posted stays without its line.
Crash(p) ==
    /\ pc[p] # "idle" /\ crashes < MaxCrashes
    /\ crashes' = crashes + 1
    /\ torn' = torn \cup
           (IF pc[p] \in {"set", "fee"} \/ (pc[p] = "clear" /\ job[p].kind = "manual")
            THEN {job[p].line} ELSE {})
    /\ Finish(p)
    /\ UNCHANGED <<bankVars, doubled, hasty, commands>>

Process(p) ==
    \/ ImportStatement(p) \/ InsertLine(p) \/ ImportDone(p)
    \/ MatchStatement(p) \/ MatchOneLine(p) \/ MatchDone(p)
    \/ ClearJournalLine(p) \/ SetBankLineMatch(p) \/ PostFee(p) \/ FeeRefused(p)
    \/ ConfirmProposal(p) \/ PostConfirmed(p) \/ ConfirmRefused(p)
    \/ CloseStatement(p) \/ CloseBankStatement(p)
    \/ Crash(p)

Next == BooksPost \/ ClosePeriod \/ \E p \in Procs : Process(p)

Spec == Init /\ [][Next]_vars

-----------------------------------------------------------------------------
\* One entry settles one line: a second line can name it only if two processes
\* were clearing it at the same time.
OneLinePerEntry ==
    \A l, m \in DOMAIN rows :
        /\ l # m /\ Resolved(l) /\ Resolved(m) /\ rows[l].entry = rows[m].entry
        => rows[l].entry \in doubled

\* What happened at the bank once is in the books once: a line is answered by
\* the entry it was matched to or by the one posted for it, never by both or
\* by two, unless its confirmation or match was torn.
OneAnswer ==
    \A l \in DOMAIN rows :
        \/ l \in torn
        \/ Cardinality(Answers(l) \cup (IF Resolved(l) THEN {rows[l].entry} ELSE {})) <= 1

\* A settlement is matched on what it credits 1160 by, and that can differ from
\* what it moved at the bank.
Slip(l) ==
    LET e == rows[l].entry IN
    IF rows[l].kind = "settlement" THEN journal[e].bank - journal[e].gross ELSE 0

FeePosted(l) ==
    SumFunction([e \in {f \in DOMAIN journal : journal[f].kind = "fee" /\ journal[f].of = l}
                    |-> -journal[e].bank])

\* What settles a line moved the bank by the line's amount, the fee posted for
\* it included: to the unit where the entry credits 1160 with what it moves at
\* the bank, and off by the difference, neither more nor less, where a
\* settlement had booked its own fee or a deposit held something else.  Money
\* out that was confirmed by hand is the exception.
SettledInFull ==
    \A l \in DOMAIN rows :
        \/ ~Resolved(l) \/ l \in torn
        \/ rows[l].kind = "manual" /\ Amount(l) < 0
        \/ \E p \in Procs : pc[p] = "fee" /\ job[p].line = l
        \/ journal[rows[l].entry].bank - FeePosted(l) = Amount(l) + Slip(l)

\* A closed statement stays tied to what the bank said: its settled lines, each
\* with an entry, make up the whole movement and the rest nothing.
ClosedStatementsTie ==
    \A s \in DOMAIN statements :
        statements[s].closed =>
            \/ s \in hasty
            \/ \E l \in LinesOf(s) : l \in torn
            \/ /\ AmountOf({l \in LinesOf(s) : rows[l].entry # 0}) = Moved(s)
               /\ AmountOf({l \in LinesOf(s) : rows[l].entry = 0}) = 0

\* A confirmed line moved the bank as the line says.
ConfirmedAsStated ==
    \A l \in DOMAIN rows :
        rows[l].kind = "manual" => journal[rows[l].entry].bank = Amount(l)
=============================================================================
