----------------------------- MODULE AuditTrail -----------------------------
(***************************************************************************)
(* What the ledger promises whoever audits it, whichever tools ran in      *)
(* whichever processes: versions and entries are only ever added, an entry *)
(* is an original that cites a saved version or the exact opposite of an   *)
(* earlier entry of the same document, and a correction adds its version   *)
(* together with all its entries or not at all.                            *)
(***************************************************************************)
EXTENDS Integers, Sequences

CONSTANT Docs

VARIABLES
    record,   \* the saved versions of each document
    trail     \* the entries, in the order they were posted

auditVars == <<record, trail>>

Extends(s, t) == Len(s) <= Len(t) /\ \A i \in 1 .. Len(s) : t[i] = s[i]

Added == Len(trail) + 1 .. Len(trail')

\* e undoes the entry it names, on the day that is given.
Undoes(e) ==
    /\ e.reverses \in 1 .. Len(trail)
    /\ e.doc = trail[e.reverses].doc
    /\ e.amount = -trail[e.reverses].amount

Cites(e) == e.reverses = 0 /\ e.version \in 1 .. Len(record'[e.doc])

OneMore(d) ==
    /\ Len(record'[d]) = Len(record[d]) + 1
    /\ Extends(record[d], record'[d])
    /\ \A c \in Docs \ {d} : record'[c] = record[c]

SaveVersion == \E d \in Docs : OneMore(d) /\ UNCHANGED trail

PostEntry ==
    /\ UNCHANGED record
    /\ Len(trail') = Len(trail) + 1
    /\ Extends(trail, trail')
    /\ \A i \in Added : Undoes(trail'[i]) \/ Cites(trail'[i])

\* Every entry of a correction is the document's: reversals dated the entries
\* they undo, then at most one entry, for the version that comes with them.
Correct ==
    \E d \in Docs :
        /\ OneMore(d)
        /\ Extends(trail, trail')
        /\ \A i \in Added :
            LET e == trail'[i] IN
            /\ e.doc = d
            /\ \/ Undoes(e) /\ e.date = trail[e.reverses].date
               \/ i = Len(trail') /\ e.reverses = 0 /\ e.version = Len(record'[d])

AuditInit == record = [d \in Docs |-> <<>>] /\ trail = <<>>
AuditNext == SaveVersion \/ PostEntry \/ Correct
AuditSpec == AuditInit /\ [][AuditNext]_auditVars
=============================================================================
