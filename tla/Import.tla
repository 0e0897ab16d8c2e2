------------------------------- MODULE Import -------------------------------
(***************************************************************************)
(* The import pipeline: replica documents, translated, are saved in the    *)
(* ledger and posted.  A run reads the replica first and then works        *)
(* through the documents by date and id; for each it compares, reverses,   *)
(* saves and posts, every write a transaction of its own.  Around it the   *)
(* sync changes the replica and its masters, somebody closes and reopens   *)
(* periods, and the run can die between any two writes.  It is run again   *)
(* every night.                                                            *)
(*                                                                         *)
(* Masters reach an entry on two ways.  translate writes the item's        *)
(* purchase cost into the document's lines, where the comparison of        *)
(* payloads sees it; which accounts the item posts to, and so whether its  *)
(* cost is booked at all, the posting rules take from the run's context,   *)
(* and no payload tells.                                                   *)
(*                                                                         *)
(* What an entry does is one number: the document's amount, and the cost   *)
(* when its item has an asset account.  A document with amount 0 is one    *)
(* QBO voided in place; a deleted one keeps the amount it last had.        *)
(***************************************************************************)
EXTENDS Integers, Sequences, FiniteSets, Functions

CONSTANTS
    Posting,     \* documents (1, 2, ...) of a kind that posts
    Contracts,   \* estimates and orders, which never post
    Carried,     \* open items the slim cutover's opening entry carries
    From,        \* documents dated before this are outside the run's window
    MaxDate,     \* bound: dates are 1 .. MaxDate
    MaxAmount,   \* bound: amounts are 0 .. MaxAmount
    MaxChanges,  \* bound: changes of the replica's documents and of its item
    MaxCloses,   \* bound: times a period is closed or reopened
    MaxCrashes   \* bound: runs killed part way

Docs == Posting \cup Contracts

ASSUME ImportAssumption ==
    /\ Docs \subseteq Nat /\ Posting \cap Contracts = {} /\ Carried \subseteq Docs
    /\ From \in Nat /\ MaxDate \in Nat \ {0} /\ MaxAmount \in Nat
    /\ MaxChanges \in Nat /\ MaxCloses \in Nat /\ MaxCrashes \in Nat

VARIABLES
    replica,    \* the replica's documents
    item,       \* the item they sell, in the replica's masters
    payload,    \* the newest version the ledger has saved of each document
    journal,    \* the posted entries
    lock,       \* the books are closed through this date
    pc,         \* where the run is
    todo,       \* documents it has still to process, as it read them
    doc, rec,   \* the one it is at, and its translated payload
    live,       \* entries it still has to reverse
    basis,      \* whether the item has an asset account in the run's context
    seen,       \* history: the documents the run read, translated
    rejected,   \* documents the run reported as rejected
    changes, closes, crashes   \* bounds

ledgerVars == <<payload, journal>>
runVars    == <<pc, todo, doc, rec, live, seen, basis, rejected>>
vars == <<replica, item, ledgerVars, lock, runVars, changes, closes, crashes>>

-----------------------------------------------------------------------------
Dates == 1 .. MaxDate

\* Its class resolves, or it posts to income without.
Document == [date : Dates, amount : 0 .. MaxAmount, classed : BOOLEAN, voided : BOOLEAN]

Item == [cost : 0 .. 1, asset : BOOLEAN]

\* A translated document carries the cost of its item, not the accounts.
Record == [date : Dates, amount : 0 .. MaxAmount, classed : BOOLEAN, voided : BOOLEAN,
           cost : 0 .. 1]

NotThere == [date |-> 0]
Present(r) == r # NotThere

translate(r) ==
    [date |-> r.date, amount |-> r.amount, classed |-> r.classed, voided |-> r.voided,
     cost |-> item.cost]

\* The cost pair of an item that has an asset account.
CostPair(r, asset) == IF asset THEN r.cost ELSE 0

\* apply_void swaps the sides of what the document would have posted.
Worth(r, asset) ==
    IF r.amount = 0 THEN 0
    ELSE IF r.voided THEN -(r.amount + CostPair(r, asset)) ELSE r.amount + CostPair(r, asset)

EntriesOf(d) == {i \in DOMAIN journal : journal[i].doc = d}
Reversed(i)  == \E j \in DOMAIN journal : journal[j].reverses = i
\* Mutation: a reversed entry still counts as live.
PostedEntries(d) == {i \in EntriesOf(d) : journal[i].reverses = 0}

LiveEntries(d) == {i \in EntriesOf(d) : journal[i].reverses = 0 /\ ~Reversed(i)}
Net(d) == SumFunction([i \in EntriesOf(d) |-> journal[i].amount])

Entry(d, date, amount, asset, reverses) ==
    [doc |-> d, date |-> date, amount |-> amount, asset |-> asset, reverses |-> reverses]

\* An open item is refused whatever it says, so it says the same for ever.
OpenItem == [date |-> MaxDate, amount |-> MaxAmount, classed |-> TRUE, voided |-> FALSE]

Init ==
    /\ replica = [d \in Docs |-> IF d \in Carried THEN OpenItem ELSE NotThere]
    /\ item = [cost |-> 0, asset |-> FALSE]
    /\ payload = [d \in Docs |-> NotThere]
    /\ journal = <<>>
    /\ lock = 0
    /\ pc = "idle" /\ todo = [d \in Docs |-> NotThere]
    /\ doc = 0 /\ rec = NotThere /\ live = {} /\ seen = todo /\ basis = FALSE /\ rejected = {}
    /\ changes = 0 /\ closes = 0 /\ crashes = 0

-----------------------------------------------------------------------------
(* Around the run. *)

Change ==
    /\ changes < MaxChanges
    /\ changes' = changes + 1
    /\ UNCHANGED <<ledgerVars, lock, runVars, closes, crashes>>

\* QBO creates or edits a document, or voids it in place, which zeroes it.
DocumentSynced(d) ==
    /\ Change /\ d \notin Carried
    /\ Present(replica[d]) => ~replica[d].voided
    /\ \E r \in Document :
        /\ r # replica[d]
        /\ d \in Contracts => r.classed
        /\ r.voided => (Present(replica[d]) /\ r.amount = 0)
        /\ replica' = [replica EXCEPT ![d] = r]
    /\ UNCHANGED item

\* The replica keeps the last payload of what QBO deleted and flags it.
DocumentDeleted(d) ==
    /\ Change /\ d \notin Carried
    /\ Present(replica[d]) /\ ~replica[d].voided
    /\ replica' = [replica EXCEPT ![d].voided = TRUE]
    /\ UNCHANGED item

\* The item's purchase cost moves, or it gains or loses its asset account.
ItemSynced ==
    /\ Change
    /\ \E i \in Item : i # item /\ item' = i
    /\ UNCHANGED replica

PeriodMoved ==
    /\ closes < MaxCloses
    /\ closes' = closes + 1
    /\ \E e \in 0 .. MaxDate : e # lock /\ lock' = e
    /\ UNCHANGED <<replica, item, ledgerVars, runVars, changes, crashes>>

-----------------------------------------------------------------------------
(* The run. *)

World == <<replica, item, lock, changes, closes, crashes>>

InWindow(r) == Present(r) /\ r.date >= From

\* Masters and documents are read and translated before anything is written.
StartRun ==
    /\ pc = "idle"
    /\ \E d \in Docs : InWindow(replica[d])
    /\ pc' = "next"
    /\ todo' = [d \in Docs |-> IF InWindow(replica[d]) THEN translate(replica[d]) ELSE NotThere]
    /\ seen' = todo' /\ basis' = item.asset
    /\ rejected' = {}
    /\ UNCHANGED <<World, ledgerVars, doc, rec, live>>

Waiting == {d \in Docs : Present(todo[d])}

\* By date, then by id.
Earliest(d) ==
    \A e \in Waiting :
        \/ todo[d].date < todo[e].date
        \/ todo[d].date = todo[e].date /\ d <= e

Finish(outcome) ==
    /\ pc' = "next"
    /\ doc' = 0 /\ rec' = NotThere /\ live' = {}
    /\ rejected' = IF outcome = "rejected" THEN rejected \cup {doc} ELSE rejected
    /\ UNCHANGED <<todo, seen, basis>>

EndRun ==
    /\ pc = "next" /\ Waiting = {}
    /\ pc' = "idle"
    /\ UNCHANGED <<World, ledgerVars, todo, doc, rec, live, seen, basis, rejected>>

TakeNext ==
    /\ pc = "next"
    /\ \E d \in Waiting :
        /\ Earliest(d)
        /\ doc' = d /\ rec' = todo[d]
        /\ todo' = [todo EXCEPT ![d] = NotThere]
    /\ pc' = "compare"
    /\ UNCHANGED <<World, ledgerVars, live, seen, basis, rejected>>

\* Mutation: a document dated as before is taken for the same.
UnchangedDate == payload[doc].date = rec.date

\* Mutation: the cost of a line is left out of the comparison.
UnchangedButCost == [payload[doc] EXCEPT !.cost = rec.cost] = rec

Unchanged == payload[doc] = rec

\* Carried by the opening entry: refused.
CompareCarried ==
    /\ pc = "compare" /\ doc \in Carried
    /\ Finish("rejected")
    /\ UNCHANGED <<World, ledgerVars>>

CompareContract ==
    /\ pc = "compare" /\ doc \in Contracts \ Carried
    /\ payload' = [payload EXCEPT ![doc] = rec]
    /\ Finish("saved")
    /\ UNCHANGED <<World, journal>>

\* Only a document that has posted entries is ever skipped.
Skip ==
    /\ pc = "compare" /\ doc \in Posting \ Carried
    /\ EntriesOf(doc) # {} /\ Unchanged
    /\ Finish("skipped")
    /\ UNCHANGED <<World, ledgerVars>>

Replace ==
    /\ pc = "compare" /\ doc \in Posting \ Carried
    /\ EntriesOf(doc) = {} \/ ~Unchanged
    /\ live' = LiveEntries(doc)
    /\ pc' = "reverse"
    /\ UNCHANGED <<World, ledgerVars, todo, doc, rec, seen, basis, rejected>>

\* reverse_entry, dated the new version's date.
Reversal(i) == Entry(doc, rec.date, -journal[i].amount, journal[i].asset, i)

ReverseLive ==
    /\ pc = "reverse" /\ live # {}
    /\ rec.date > lock
    /\ \E i \in live :
        /\ journal' = Append(journal, Reversal(i))
        /\ live' = live \ {i}
    /\ UNCHANGED <<World, payload, pc, todo, doc, rec, seen, basis, rejected>>

ReverseRefused ==
    /\ pc = "reverse" /\ live # {}
    /\ rec.date <= lock
    /\ Finish("rejected")
    /\ UNCHANGED <<World, ledgerVars>>

SaveVersion ==
    /\ pc = "reverse" /\ live = {}
    /\ payload' = [payload EXCEPT ![doc] = rec]
    /\ pc' = "post"
    /\ UNCHANGED <<World, journal, todo, doc, rec, live, seen, basis, rejected>>

MissingClass == ~rec.classed

\* A posting rule or the period gate refuses what was just saved.
PostRefused ==
    /\ pc = "post"
    /\ MissingClass \/ (rec.date <= lock /\ rec.amount # 0)
    /\ Finish("rejected")
    /\ UNCHANGED <<World, ledgerVars>>

Post ==
    /\ pc = "post" /\ ~MissingClass
    /\ rec.date > lock \/ rec.amount = 0
    /\ journal' = IF Worth(rec, basis) = 0 THEN journal
                  ELSE Append(journal, Entry(doc, rec.date, Worth(rec, basis), basis, 0))
    /\ Finish("posted")
    /\ UNCHANGED <<World, payload>>

Crash ==
    /\ pc # "idle" /\ crashes < MaxCrashes
    /\ crashes' = crashes + 1
    /\ pc' = "idle"
    /\ todo' = [d \in Docs |-> NotThere]
    /\ doc' = 0 /\ rec' = NotThere /\ live' = {} /\ rejected' = {}
    /\ UNCHANGED <<replica, item, ledgerVars, lock, seen, basis, changes, closes>>

Process ==
    \/ StartRun \/ EndRun \/ TakeNext \/ CompareCarried \/ CompareContract \/ Skip
    \/ Replace \/ ReverseLive \/ ReverseRefused \/ SaveVersion \/ PostRefused \/ Post

Next ==
    \/ \E d \in Docs : DocumentSynced(d) \/ DocumentDeleted(d)
    \/ ItemSynced \/ PeriodMoved \/ Crash
    \/ Process

Spec == Init /\ [][Next]_vars

\* The import is run every night, and a run that is not killed goes on.
FairSpec == Spec /\ WF_vars(Process)

-----------------------------------------------------------------------------
(* Properties. *)

TypeOK ==
    /\ replica \in [Docs -> Document \cup {NotThere}] /\ item \in Item
    /\ payload \in [Docs -> Record \cup {NotThere}]
    /\ todo \in [Docs -> Record \cup {NotThere}]
    /\ journal \in Seq([doc : Posting, date : Dates, amount : Int, asset : BOOLEAN, reverses : Nat])
    /\ basis \in BOOLEAN /\ lock \in 0 .. MaxDate
    /\ pc \in {"idle", "next", "compare", "reverse", "post"}
    /\ doc \in Docs \cup {0} /\ live \subseteq DOMAIN journal /\ rejected \subseteq Docs

\* The newest version was saved, what had been posted is reversed, and nothing
\* was put in its place.
Hollow(d, r) == EntriesOf(d) # {} /\ LiveEntries(d) = {} /\ payload[d] = r

\* What stands was posted when the item had other accounts.
OldAccounts(d, r, asset) ==
    \E i \in LiveEntries(d) :
        journal[i].asset # asset /\ Net(d) = Worth(r, journal[i].asset)

AsImported(d, r, asset) ==
    Net(d) = Worth(r, asset) \/ Hollow(d, r) \/ OldAccounts(d, r, asset)

RunIsOver == pc = "next" /\ Waiting = {}

\* Whatever earlier runs were refused or died doing, a document the run does
\* not report as rejected holds after it what a first import would have given
\* it, its costs included, but for two things the comparison of payloads cannot
\* see: that this very version was saved and its entry refused, and that the
\* item's accounts have changed.
RunTells ==
    RunIsOver =>
        \A d \in Posting \ Carried :
            Present(seen[d]) /\ d \notin rejected => AsImported(d, seen[d], basis)

\* A re-run replaces, it never adds: no entry is reversed twice and no document
\* has two entries standing, however often runs die or are refused.
NeverTwice ==
    /\ \A d \in Posting : Cardinality(LiveEntries(d)) <= 1
    /\ \A i, j \in DOMAIN journal :
            journal[i].reverses = journal[j].reverses /\ journal[i].reverses # 0 => i = j

\* Once the replica and the periods stay put, the nightly runs bring every
\* document they may write to what the replica says, at the replica's cost, with
\* the same two exceptions.
Settled(d) ==
    \/ ~InWindow(replica[d]) \/ replica[d].date <= lock \/ ~replica[d].classed
    \/ AsImported(d, translate(replica[d]), item.asset)
Converges == <>[](\A d \in Posting \ Carried : Settled(d))
=============================================================================
