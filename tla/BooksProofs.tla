---------------------------- MODULE BooksProofs -----------------------------
(***************************************************************************)
(* Proofs about the books, for every set of documents and processes, every *)
(* book and bound: what the ledger promises an auditor, that entries can   *)
(* be traced, that a closed period keeps what its close counted, that no   *)
(* debt is over-applied, that the open items make up the control account,  *)
(* and that the journal holds what the newest versions say.                *)
(***************************************************************************)
EXTENDS Books, CommonProofs, FiniteSetTheorems, WellFoundedInduction, TLAPS

\* A set of dates that is not empty has a last one.
LEMMA LastDate ==
    ASSUME NEW n \in Nat, NEW S \in SUBSET (1 .. n), S # {}
    PROVE  Max(S) \in S /\ \A e \in S : e <= Max(S)
<1> DEFINE R == OpToRel(<, Nat)
           T == {n - e : e \in S}
<1>1. \A x, y \in Nat : <<y, x>> \in R <=> y < x
      BY DEF OpToRel
<1>2. IsWellFoundedOn(R, Nat)
      BY NatLessThanWellFounded
<1> HIDE DEF R
<1>3. T \subseteq Nat /\ T # {}
  <2>1. \A e \in S : e \in 1 .. n /\ n - e \in Nat
        OBVIOUS
  <2>2. T \subseteq Nat
        BY <2>1
  <2>3. PICK e \in S : n - e \in T
        OBVIOUS
  <2>4. QED
        BY <2>2, <2>3
<1>4. PICK x \in T : \A y \in T : ~(<<y, x>> \in R)
      BY <1>2, <1>3, WFMin
<1>5. PICK m \in S : x = n - m
      BY <1>4
<1>6. \A e \in S : m >= e
  <2>1. SUFFICES ASSUME NEW e \in S PROVE m >= e
        OBVIOUS
  <2>2. n - e \in T /\ n - e \in Nat /\ x \in Nat
        BY <1>3, <1>4
  <2>3. ~(n - e < x)
        BY <1>1, <1>4, <2>2
  <2>4. QED
        BY <1>5, <2>2, <2>3
<1>7. \E k \in S : \A e \in S : k >= e
      BY <1>6
<1>8. QED
      BY <1>7 DEF Max

-----------------------------------------------------------------------------
\* A table is a sequence, whatever its rows are.
IsSeq(s) == s \in Seq({s[i] : i \in DOMAIN s})

\* Rows are only ever appended.
Grows(s, t) == IsSeq(t) /\ Len(s) <= Len(t) /\ \A i \in 1 .. Len(s) : t[i] = s[i]

LEMMA SeqFacts ==
    ASSUME NEW s, IsSeq(s)
    PROVE  Len(s) \in Nat /\ DOMAIN s = 1 .. Len(s) /\ Grows(s, s)
BY DEF IsSeq, Grows

LEMMA Kept ==
    ASSUME NEW s, IsSeq(s), NEW t, Grows(s, t)
    PROVE  DOMAIN s \subseteq DOMAIN t /\ \A i \in DOMAIN s : t[i] = s[i]
<1>1. /\ Len(s) \in Nat /\ DOMAIN s = 1 .. Len(s)
      /\ Len(t) \in Nat /\ DOMAIN t = 1 .. Len(t)
      BY DEF IsSeq, Grows
<1>2. QED
      BY <1>1 DEF Grows

LEMMA AnySeq == ASSUME NEW T, NEW s \in Seq(T) PROVE IsSeq(s)
BY DEF IsSeq

LEMMA Appended ==
    ASSUME NEW s, IsSeq(s), NEW e
    PROVE  /\ Grows(s, Append(s, e)) /\ Len(Append(s, e)) = Len(s) + 1
           /\ Append(s, e)[Len(s) + 1] = e
<1> DEFINE T == {s[i] : i \in DOMAIN s} \cup {e}
<1>1. s \in Seq(T) /\ e \in T
      BY DEF IsSeq
<1>2. /\ Append(s, e) \in Seq(T) /\ Len(Append(s, e)) = Len(s) + 1
      /\ \A i \in 1 .. Len(s) : Append(s, e)[i] = s[i]
      /\ Append(s, e)[Len(s) + 1] = e
      BY <1>1
<1>3. QED
      BY <1>1, <1>2 DEF Grows, IsSeq

LEMMA Joined ==
    ASSUME NEW s, IsSeq(s), NEW t, IsSeq(t)
    PROVE  /\ Grows(s, s \o t) /\ Len(s \o t) = Len(s) + Len(t)
           /\ \A k \in 1 .. Len(t) : (s \o t)[Len(s) + k] = t[k]
<1> DEFINE T == {s[i] : i \in DOMAIN s} \cup {t[i] : i \in DOMAIN t}
<1>1. s \in Seq(T) /\ t \in Seq(T)
      BY DEF IsSeq
<1>2. /\ s \o t \in Seq(T) /\ Len(s \o t) = Len(s) + Len(t)
      /\ \A i \in 1 .. Len(s) : (s \o t)[i] = s[i]
      /\ \A k \in 1 .. Len(t) : (s \o t)[Len(s) + k] = t[k]
      BY <1>1
<1> HIDE DEF T
<1>3. IsSeq(s \o t) /\ Len(s) \in Nat /\ Len(t) \in Nat
  <2>1. s \o t \in Seq(T)
        BY <1>2
  <2>2. Len(s) \in Nat /\ Len(t) \in Nat
        BY <1>1
  <2>3. \A u : u \in Seq(T) => IsSeq(u)
        BY AnySeq
  <2>4. IsSeq(s \o t)
        BY <2>1, <2>3, Zenon
  <2>5. QED
        BY <2>2, <2>4
<1>4. QED
      BY <1>2, <1>3 DEF Grows

-----------------------------------------------------------------------------
\* A version, of whatever document.
Dated(v) ==
    /\ DOMAIN v = {"date", "total", "apps", "voided"} /\ v.date \in Dates
    /\ v.total \in Nat /\ v.apps \in [Debts -> Nat] /\ v.voided \in BOOLEAN

\* An entry undoes an earlier one of its document, or says what the version it
\* cites says unless two processes saved the document at once.
Undo(e) ==
    /\ e.reverses \in DOMAIN journal
    /\ e.doc = journal[e.reverses].doc
    /\ e.amount = -journal[e.reverses].amount

Original(e) ==
    /\ e.reverses = 0 /\ e.doc \in Docs /\ e.version \in DOMAIN versions[e.doc]
    /\ \/ "misnumbered" \in blame[e.doc]
       \/ LET v == versions[e.doc][e.version] IN
          e.date = v.date /\ e.amount = Posted(e.doc, v)

Traced(e) ==
    e.date \in Dates /\ e.doc \in Docs /\ e.amount \in Int /\ (Undo(e) \/ Original(e))

\* How many versions a revision counted when it was checked.
CountedBefore(seen) ==
    /\ seen = [d \in Docs |-> seen[d]]
    /\ \A d \in Docs : seen[d] \in Nat /\ seen[d] <= Len(versions[d])

\* What a process at a place is about to write.
Ready(j, place) ==
    /\ place = "save" => /\ j.doc \in Docs /\ Dated(j.new)
                         /\ j.next \in 1 .. Len(versions[j.doc]) + 1
    /\ place \in {"gate", "insert"} => Traced(j.entry)
    /\ place = "insert" => j.lock < j.entry.date
    /\ place \in {"plan", "commit"} => j.doc \in Docs /\ Dated(j.new) /\ CountedBefore(j.seen)
    /\ place = "commit" => /\ j.live \subseteq DOMAIN journal
                           /\ \A i \in j.live : journal[i].doc = j.doc
    /\ place = "close" => j.end \in Dates

Tables ==
    /\ scope \in Scopes
    /\ versions = [d \in Docs |-> versions[d]] /\ IsSeq(journal)
    /\ \A d \in Docs : IsSeq(versions[d]) /\ \A k \in DOMAIN versions[d] : Dated(versions[d][k])
    /\ blame = [d \in Docs |-> blame[d]] /\ snapshot = [e \in Dates |-> snapshot[e]]
    /\ pc = [p \in Procs |-> pc[p]] /\ job = [p \in Procs |-> job[p]]
    /\ closed \subseteq Dates

\* Every posted entry and every entry on its way is traced; the close, the gate
\* and the commit keep the closed periods as they were counted.
BInv ==
    /\ Tables
    /\ \A p \in Procs : Ready(job[p], pc[p])
    /\ \A i \in DOMAIN journal : Traced(journal[i]) /\ journal[i].reverses < i
    /\ ClosedBooksStand

-----------------------------------------------------------------------------
\* What every step does to the tables.
Growing ==
    /\ UNCHANGED scope
    /\ versions' = [d \in Docs |-> versions'[d]]
    /\ \A d \in Docs : Grows(versions[d], versions'[d])
    /\ Grows(journal, journal')
    /\ \A d \in Docs : "misnumbered" \in blame[d] => "misnumbered" \in blame'[d]

LEMMA EffectRigid ==
    ASSUME UNCHANGED scope, NEW d, NEW v
    PROVE  Effect(d, v)' = Effect(d, v) /\ Posted(d, v)' = Posted(d, v)
BY DEF Effect, Posted, Worth

LEMMA DocsFinite == IsFiniteSet(Docs) /\ IsFiniteSet(Debts) /\ NoDoc \notin Docs
BY KindsAssumption, FS_Subset DEF Docs

\* What a version does to the account is a number.
LEMMA EffectInt ==
    ASSUME NEW d, NEW v, Dated(v)
    PROVE  Applied(v) \in Int /\ Effect(d, v) \in Int /\ Posted(d, v) \in Int
<1>1. DOMAIN v.apps = Debts /\ \A t \in Debts : v.apps[t] \in Int
      BY DEF Dated
<1>2. SumFunctionOnSet(v.apps, Debts) \in Int
      BY <1>1, DocsFinite, SumIsInt
<1>3. Applied(v) \in Int
      BY <1>1, <1>2 DEF Applied, SumFunction
<1>4. v.total \in Int
      BY DEF Dated
<1>5. QED
      BY <1>3, <1>4 DEF Effect, Posted, Worth, Dated

\* What was traced stays traced.
LEMMA TracedOn ==
    ASSUME BInv, Growing, NEW e, Traced(e)
    PROVE  Traced(e)'
<1>1. e.date \in Dates' /\ e.doc \in Docs
      BY DEF Traced, Growing, Dates
<1>2. CASE Undo(e)
  <2>1. DOMAIN journal \subseteq DOMAIN journal'
        /\ \A i \in DOMAIN journal : journal'[i] = journal[i]
        BY Kept DEF BInv, Tables, Growing
  <2>2. Undo(e)'
        BY <1>2, <2>1 DEF Undo
  <2>3. QED
        BY <1>1, <2>2 DEF Traced
<1>3. CASE Original(e)
  <2>1. /\ IsSeq(versions[e.doc]) /\ Grows(versions[e.doc], versions'[e.doc])
        /\ e.version \in DOMAIN versions[e.doc]
        BY <1>1, <1>3 DEF BInv, Tables, Growing, Original
  <2>2. /\ e.version \in DOMAIN versions'[e.doc]
        /\ versions'[e.doc][e.version] = versions[e.doc][e.version]
        BY <2>1, Kept
  <2>3. Posted(e.doc, versions[e.doc][e.version])' = Posted(e.doc, versions'[e.doc][e.version])
        BY EffectRigid DEF Growing
  <2>4. Original(e)'
        BY <1>1, <1>3, <2>2, <2>3 DEF Original, Growing
  <2>5. QED
        BY <1>1, <2>4 DEF Traced
<1>4. QED
      BY <1>2, <1>3 DEF Traced

LEMMA ReadyOn ==
    ASSUME BInv, Growing, NEW j, NEW place, Ready(j, place)
    PROVE  Ready(j, place)'
<1>1. \A v : Dated(v) => Dated(v)'
      BY DEF Dated, Dates, Growing
<1>2. CASE place = "save"
  <2>1. j.doc \in Docs /\ Dated(j.new)' /\ j.next \in 1 .. Len(versions[j.doc]) + 1
        BY <1>1, <1>2 DEF Ready
  <2>2. /\ Len(versions[j.doc]) \in Nat /\ Len(versions'[j.doc]) \in Nat
        /\ Len(versions[j.doc]) <= Len(versions'[j.doc])
        BY <2>1, SeqFacts DEF BInv, Tables, Growing, Grows
  <2>3. j.next \in 1 .. Len(versions'[j.doc]) + 1
        BY <2>1, <2>2
  <2>4. QED
        BY <1>2, <2>1, <2>3 DEF Ready
<1>3. CASE place \in {"gate", "insert"}
      BY <1>3, TracedOn DEF Ready
<1>4. CASE place \in {"plan", "commit", "close"}
  <2>1. DOMAIN journal \subseteq DOMAIN journal'
        /\ \A i \in DOMAIN journal : journal'[i] = journal[i]
        BY Kept DEF BInv, Tables, Growing
  <2>2. CountedBefore(j.seen) => CountedBefore(j.seen)'
    <3>1. ASSUME NEW d \in Docs
          PROVE  /\ Len(versions[d]) \in Nat /\ Len(versions'[d]) \in Nat
                 /\ Len(versions[d]) <= Len(versions'[d])
          BY SeqFacts DEF BInv, Tables, Growing, Grows
    <3>2. QED
          BY <3>1 DEF CountedBefore
  <2>3. QED
        BY <1>1, <1>4, <2>1, <2>2 DEF Ready, Dates, Growing
<1>5. CASE place \notin {"save", "gate", "insert", "plan", "commit", "close"}
      BY <1>5 DEF Ready
<1>6. QED
      BY <1>2, <1>3, <1>4, <1>5

\* A step of one process.
LEMMA StepOf ==
    ASSUME BInv, NEW p \in Procs, NEW at, NEW j, Begin(p, at, j), Growing,
           blame' = [d \in Docs |-> blame'[d]],
           snapshot' = [e \in Dates |-> snapshot'[e]], closed' \subseteq Dates,
           \A d \in Docs : \A k \in DOMAIN versions'[d] :
               k \in DOMAIN versions[d] \/ Dated(versions'[d][k]),
           \A i \in DOMAIN journal' \ DOMAIN journal :
               Traced(journal[i])' /\ journal'[i].reverses < i,
           Ready(j, at)', ClosedBooksStand'
    PROVE  BInv'
<1>1. /\ pc' = [q \in Procs |-> pc'[q]] /\ job' = [q \in Procs |-> job'[q]]
      /\ pc'[p] = at /\ job'[p] = j
      /\ \A q \in Procs \ {p} : pc'[q] = pc[q] /\ job'[q] = job[q]
      BY DEF Begin, BInv, Tables
<1>2. Dates' = Dates /\ \A v : Dated(v)' <=> Dated(v)
      BY DEF Growing, Dates, Dated
<1>3. \A d \in Docs : DOMAIN versions[d] \subseteq DOMAIN versions'[d]
                      /\ \A k \in DOMAIN versions[d] : versions'[d][k] = versions[d][k]
      BY Kept DEF BInv, Tables, Growing
<1>4. Tables'
  <2>1. ASSUME NEW d \in Docs PROVE IsSeq(versions'[d])
        BY DEF Growing, Grows
  <2>2. ASSUME NEW d \in Docs, NEW k \in DOMAIN versions'[d] PROVE Dated(versions[d][k])'
        BY <1>2, <1>3 DEF BInv, Tables
  <2>3. QED
        BY <1>1, <1>2, <2>1, <2>2 DEF Tables, BInv, Growing, Grows
<1>5. ASSUME NEW q \in Procs PROVE Ready(job[q], pc[q])'
  <2>1. CASE q = p
        BY <1>1, <2>1 DEF Ready, Traced, Undo, Original
  <2>2. CASE q # p
    <3>1. Ready(job[q], pc[q])
          BY DEF BInv
    <3>2. PICK x, y : x = job[q] /\ y = pc[q]
          OBVIOUS
    <3>3. x = job'[q] /\ y = pc'[q]
          BY <1>1, <2>2, <3>2
    <3>4. Ready(x, y)'
          BY <3>1, <3>2, ReadyOn
    <3>5. QED
          BY <3>3, <3>4 DEF Ready, Traced, Undo, Original
  <2>3. QED
        BY <2>1, <2>2
<1>6. ASSUME NEW i \in DOMAIN journal' PROVE Traced(journal[i])' /\ journal'[i].reverses < i
  <2>1. CASE i \in DOMAIN journal
    <3>1. journal'[i] = journal[i] /\ Traced(journal[i]) /\ journal[i].reverses < i
          BY <2>1, Kept DEF BInv, Tables, Growing
    <3>2. QED
          BY <3>1, TracedOn DEF Traced, Undo, Original
  <2>2. QED
        BY <1>6, <2>1
<1>7. QED
      BY <1>4, <1>5, <1>6 DEF BInv

\* A step that writes no table: it remains to say what the process holds.
LEMMA QuietStep ==
    ASSUME BInv, NEW p \in Procs, NEW at, NEW j, Begin(p, at, j),
           UNCHANGED <<booksVars, slipped, scope>>,
           blame' = [d \in Docs |-> blame'[d]],
           \A d \in Docs : "misnumbered" \in blame[d] => "misnumbered" \in blame'[d],
           Ready(j, at)
    PROVE  BInv'
<1>1. Growing
      BY SeqFacts DEF Growing, booksVars, BInv, Tables
<1>2. Ready(j, at)'
      BY <1>1, ReadyOn
<1>3. ClosedBooksStand'
      BY DEF BInv, ClosedBooksStand, booksVars, EntriesThrough
<1>4. QED
      BY <1>1, <1>2, <1>3, StepOf DEF BInv, Tables, booksVars

\* A process that is done or gives up holds nothing.
LEMMA IdleReady == \A j : Ready(j, "idle")
BY DEF Ready

LEMMA DatesTyped == ASSUME BInv PROVE scope.dates \in Nat /\ Dates \subseteq Int
BY ScopesAssumption DEF BInv, Tables, Dates

\* Nothing closed is later than the lock.
LEMMA Locked ==
    ASSUME BInv
    PROVE  LockedThrough \in Int /\ \A e \in closed : e <= LockedThrough
<1>1. closed \in SUBSET (1 .. scope.dates) /\ scope.dates \in Nat
      BY DatesTyped DEF BInv, Tables, Dates
<1>2. CASE closed = {}
      BY <1>2 DEF LockedThrough
<1>3. CASE closed # {}
  <2>1. Max(closed) \in closed /\ \A e \in closed : e <= Max(closed)
        BY <1>1, <1>3, LastDate
  <2>2. LockedThrough = Max(closed)
        BY <1>3 DEF LockedThrough
  <2>3. Max(closed) \in 1 .. scope.dates
        BY <1>1, <2>1
  <2>4. QED
        BY <1>1, <2>1, <2>2, <2>3
<1>4. QED
      BY <1>2, <1>3

LEMMA LatestDated ==
    ASSUME BInv, NEW d \in Docs, Saved(d)
    PROVE  Dated(Latest(d)) /\ Len(versions[d]) \in Nat \ {0}
<1>1. IsSeq(versions[d]) /\ versions[d] # <<>>
      BY DEF Saved, BInv, Tables
<1>2. Len(versions[d]) \in Nat \ {0} /\ Len(versions[d]) \in DOMAIN versions[d]
      BY <1>1 DEF IsSeq
<1>3. QED
      BY <1>2 DEF Latest, Last, BInv, Tables

\* The versions a caller can send.
LEMMA PayloadsDated ==
    ASSUME BInv, NEW d \in Docs, NEW v \in Payloads(d)
    PROVE  Dated(v)
<1>1. scope.dates \in Nat /\ scope.amount \in Nat \ {0} /\ scope.voids \subseteq BOOLEAN
      BY ScopesAssumption DEF BInv, Tables
<1>2. /\ DOMAIN v = {"date", "total", "apps", "voided"} /\ v.date \in Dates
      /\ v.total \in 1 .. scope.amount /\ v.voided \in BOOLEAN
      /\ v.apps \in [Debts -> 0 .. scope.amount] \/ v.apps = NoApplications
      BY <1>1 DEF Payloads
<1>3. v.apps \in [Debts -> Nat]
  <2>1. CASE v.apps \in [Debts -> 0 .. scope.amount]
        BY <1>1, <2>1
  <2>2. CASE v.apps = NoApplications
        BY <2>2 DEF NoApplications
  <2>3. QED
        BY <1>2, <2>1, <2>2
<1>4. v.total \in Nat
      BY <1>1, <1>2
<1>5. QED
      BY <1>2, <1>3, <1>4 DEF Dated

LEMMA CountsNow == ASSUME BInv PROVE CountedBefore(Counts)
BY SeqFacts DEF BInv, Tables, Counts, CountedBefore

\* A tool that begins to save, and one that is told to reverse an entry.
LEMMA CreateBeginStep == ASSUME BInv, NEW p \in Procs, CreateBegin(p) PROVE BInv'
<1>1. PICK d \in Docs, tool \in {"create", "save"} : \E v \in Payloads(d) :
          Begin(p, "save", [tool |-> tool, doc |-> d, new |-> v, next |-> NextVersion(d)])
      BY DEF CreateBegin
<1>2. PICK v \in Payloads(d) :
          Begin(p, "save", [tool |-> tool, doc |-> d, new |-> v, next |-> NextVersion(d)])
      BY <1>1
<1>3. Len(versions[d]) \in Nat
      BY SeqFacts DEF BInv, Tables
<1>4. Ready([tool |-> tool, doc |-> d, new |-> v, next |-> NextVersion(d)], "save")
      BY <1>3, PayloadsDated DEF Ready, NextVersion
<1>5. QED
      BY <1>2, <1>4, QuietStep DEF CreateBegin, BInv, Tables

LEMMA ReverseBeginStep == ASSUME BInv, NEW p \in Procs, ReverseBegin(p) PROVE BInv'
<1>1. PICK i \in DOMAIN journal, on \in Dates :
          Begin(p, "gate", [tool |-> "reverse", doc |-> journal[i].doc,
              entry |-> Entry(journal[i].doc, journal[i].version, on, -journal[i].amount, i)])
      BY DEF ReverseBegin
<1> DEFINE e == Entry(journal[i].doc, journal[i].version, on, -journal[i].amount, i)
<1>2. Traced(e)
      BY DEF Traced, Undo, Entry, BInv
<1>3. Ready([tool |-> "reverse", doc |-> journal[i].doc, entry |-> e], "gate")
      BY <1>2 DEF Ready
<1>4. QED
      BY <1>1, <1>3, QuietStep DEF ReverseBegin, BInv, Tables

\* Saving a version adds one to its document and touches no other.
LEMMA Saves ==
    ASSUME BInv, NEW d \in Docs, NEW v, Dated(v), versions' = [versions EXCEPT ![d] = Append(@, v)],
           NEW n, n = Len(versions[d]) + 1
    PROVE  /\ versions' = [c \in Docs |-> versions'[c]] /\ n \in Nat \ {0}
           /\ \A c \in Docs \ {d} : versions'[c] = versions[c]
           /\ Len(versions'[d]) = n /\ DOMAIN versions'[d] = 1 .. n /\ versions'[d][n] = v
           /\ \A c \in Docs : Grows(versions[c], versions'[c])
           /\ \A c \in Docs : \A k \in DOMAIN versions'[c] :
                k \in DOMAIN versions[c] \/ Dated(versions'[c][k])
<1>1. IsSeq(versions[d]) /\ Len(versions[d]) \in Nat /\ n \in Nat \ {0}
      BY SeqFacts DEF BInv, Tables
<1>2. /\ versions' = [c \in Docs |-> versions'[c]]
      /\ versions'[d] = Append(versions[d], v)
      /\ \A c \in Docs \ {d} : versions'[c] = versions[c]
      BY DEF BInv, Tables
<1>3. /\ Grows(versions[d], versions'[d]) /\ Len(versions'[d]) = n
      /\ versions'[d][n] = v /\ DOMAIN versions'[d] = 1 .. n
      BY <1>1, <1>2, Appended, SeqFacts DEF Grows
<1>4. ASSUME NEW c \in Docs PROVE Grows(versions[c], versions'[c])
      BY <1>2, <1>3, SeqFacts DEF BInv, Tables
<1>5. ASSUME NEW c \in Docs, NEW k \in DOMAIN versions'[c]
      PROVE  k \in DOMAIN versions[c] \/ Dated(versions'[c][k])
  <2>1. CASE c = d
    <3>1. DOMAIN versions[d] = 1 .. n - 1
          BY <1>1, SeqFacts
    <3>2. k \in 1 .. n - 1 \/ k = n
          BY <1>1, <1>3, <1>5, <2>1
    <3>3. QED
          BY <1>3, <2>1, <3>1, <3>2
  <2>2. CASE c # d
        BY <1>2, <1>5, <2>2
  <2>3. QED
        BY <2>1, <2>2
<1>6. QED
      BY <1>1, <1>2, <1>3, <1>4, <1>5

\* The version is saved; what will be posted for it cites a version that is
\* there, and says what it says unless another process saved in between.
LEMMA CreateSaveStep == ASSUME BInv, NEW p \in Procs, CreateSave(p) PROVE BInv'
<1>1. PICK d, v, n, cited, e, j :
          /\ d = job[p].doc /\ v = job[p].new /\ n = Len(versions[d]) + 1
          /\ cited = IF job[p].tool = "create" THEN job[p].next ELSE n
          /\ e = Entry(d, cited, v.date, Posted(d, v), 0)
          /\ j = [tool |-> job[p].tool, doc |-> d, entry |-> e]
      OBVIOUS
<1>2. /\ d \in Docs /\ Dated(v) /\ cited \in 1 .. n
      /\ IsSeq(versions[d]) /\ Len(versions[d]) \in Nat /\ n \in Nat \ {0}
  <2>1. /\ d \in Docs /\ Dated(v) /\ job[p].next \in 1 .. n
        BY <1>1 DEF CreateSave, BInv, Ready
  <2>2. IsSeq(versions[d]) /\ Len(versions[d]) \in Nat /\ n \in Nat \ {0}
        BY <1>1, <2>1, SeqFacts DEF BInv, Tables
  <2>3. QED
        BY <1>1, <2>1, <2>2
<1>3. /\ versions' = [versions EXCEPT ![d] = Append(@, v)]
      /\ UNCHANGED <<journal, closed, snapshot, slipped, scope>>
      /\ Begin(p, "idle", NoJob) \/ Begin(p, "gate", j)
      BY <1>1 DEF CreateSave, Return
<1>4. \E X : /\ blame' = [blame EXCEPT ![d] = @ \cup X]
             /\ cited # n => "misnumbered" \in X
  <2> DEFINE X == (IF Unchecked(d, v) \/ Saved(d) THEN {"unchecked"} ELSE {})
                  \cup (IF LiveEntries(d) # {} THEN {"stacked"} ELSE {})
                  \cup (IF cited # n THEN {"misnumbered"} ELSE {})
  <2>1. blame' = [blame EXCEPT ![d] = @ \cup X]
        BY <1>1 DEF CreateSave
  <2>2. cited # n => "misnumbered" \in X
        OBVIOUS
  <2>3. QED
        BY <2>1, <2>2
<1>5. /\ blame' = [c \in Docs |-> blame'[c]]
      /\ \A c \in Docs : "misnumbered" \in blame[c] => "misnumbered" \in blame'[c]
      /\ cited # n => "misnumbered" \in blame'[d]
      BY <1>2, <1>4 DEF BInv, Tables
<1>6. /\ versions' = [c \in Docs |-> versions'[c]]
      /\ Len(versions'[d]) = n /\ DOMAIN versions'[d] = 1 .. n /\ versions'[d][n] = v
      /\ \A c \in Docs : Grows(versions[c], versions'[c])
      /\ \A c \in Docs : \A k \in DOMAIN versions'[c] :
           k \in DOMAIN versions[c] \/ Dated(versions'[c][k])
  <2>1. n = Len(versions[d]) + 1
        BY <1>1
  <2>2. d \in Docs /\ Dated(v)
        BY <1>2
  <2>3. versions' = [versions EXCEPT ![d] = Append(@, v)]
        BY <1>3
  <2>4. QED
        BY <2>1, <2>2, <2>3, Saves
<1>7. Growing
  <2>1. Grows(journal, journal')
        BY <1>3, SeqFacts DEF BInv, Tables
  <2>2. QED
        BY <1>3, <1>5, <1>6, <2>1 DEF Growing
<1>8. Ready(j, "gate")'
  <2>1. /\ e.reverses = 0 /\ e.doc = d /\ e.version = cited /\ e.date = v.date
        /\ e.amount = Posted(d, v) /\ j.entry = e
        BY <1>1 DEF Entry
  <2>2. Posted(d, v)' = Posted(d, v) /\ Dates' = Dates
        BY <1>3, EffectRigid DEF Dates
  <2>3. Original(e)'
        BY <1>2, <1>5, <1>6, <2>1, <2>2 DEF Original
  <2>4. Traced(e)'
        BY <1>2, <2>1, <2>2, <2>3, EffectInt DEF Traced, Dated
  <2>5. QED
        BY <2>1, <2>4 DEF Ready
<1>9. ClosedBooksStand'
       BY <1>3 DEF BInv, ClosedBooksStand, EntriesThrough
<1>10. closed' \subseteq Dates /\ snapshot' = [x \in Dates |-> snapshot'[x]]
       BY <1>3 DEF BInv, Tables
<1>11. Ready(NoJob, "idle")'
       BY DEF Ready
<1>12. QED
       BY <1>3, <1>5, <1>6, <1>7, <1>8, <1>9, <1>10, <1>11, StepOf

LEMMA GateStep == ASSUME BInv, NEW p \in Procs, Gate(p) PROVE BInv'
<1>1. PICK j : /\ j = [tool |-> job[p].tool, doc |-> job[p].doc,
                       entry |-> job[p].entry, lock |-> LockedThrough]
               /\ Begin(p, "insert", j)
      BY DEF Gate
<1>2. Traced(job[p].entry) /\ LockedThrough < job[p].entry.date
  <2>1. Ready(job[p], "gate")
        BY DEF Gate, BInv
  <2>2. Traced(job[p].entry)
        BY <2>1 DEF Ready
  <2>3. job[p].entry.date \in Int /\ LockedThrough \in Int
        BY <2>2, DatesTyped, Locked DEF Traced
  <2>4. QED
        BY <2>2, <2>3 DEF Gate
<1>3. Ready(j, "insert")
      BY <1>1, <1>2 DEF Ready
<1>4. QED
      BY <1>1, <1>3, QuietStep DEF Gate, BInv, Tables

\* Giving up leaves only what is written, and what is blamed.
LEMMA GiveUpStep ==
    ASSUME BInv, NEW p \in Procs,
           Refused(p) \/ PlanRefused(p) \/ RollBack(p) \/ Crash(p)
    PROVE  BInv'
<1>1. Begin(p, "idle", NoJob) /\ UNCHANGED <<booksVars, slipped, scope>>
      BY DEF Refused, PlanRefused, RollBack, Crash, Return
<1>2. \/ UNCHANGED blame
      \/ \E X : blame' = [blame EXCEPT ![job[p].doc] = @ \cup X]
  <2>1. CASE Refused(p)
    <3>1. blame' = [blame EXCEPT ![job[p].doc] =
                       @ \cup (IF job[p].tool \in Creating THEN {"half"} ELSE {})]
          BY <2>1 DEF Refused
    <3>2. QED
          BY <3>1
  <2>2. CASE Crash(p)
        BY <2>2 DEF Crash
  <2>3. QED
        BY <2>1, <2>2 DEF PlanRefused, RollBack
<1>3. /\ blame' = [d \in Docs |-> blame'[d]]
      /\ \A d \in Docs : "misnumbered" \in blame[d] => "misnumbered" \in blame'[d]
      BY <1>2 DEF BInv, Tables
<1>4. QED
      BY <1>1, <1>3, IdleReady, QuietStep

\* The checks of a revision: what it will write is a version.
LEMMA CheckStep ==
    ASSUME BInv, NEW p \in Procs, UpdateCheck(p) \/ VoidCheck(p) \/ ApplyCheck(p)
    PROVE  BInv'
<1>1. PICK d, v, r : d \in Docs /\ Begin(p, "plan", Revising(d, v, r)) /\ Dated(v)
  <2>1. CASE UpdateCheck(p)
        BY <2>1, PayloadsDated DEF UpdateCheck
  <2>2. CASE VoidCheck(p)
    <3>1. PICK d \in Docs :
              /\ Standing(d)
              /\ Begin(p, "plan", Revising(d, [Latest(d) EXCEPT !.voided = TRUE], "void"))
          BY <2>2 DEF VoidCheck
    <3>2. Dated(Latest(d))
          BY <3>1, LatestDated DEF Standing
    <3>3. Dated([Latest(d) EXCEPT !.voided = TRUE])
          BY <3>2 DEF Dated
    <3>4. QED
          BY <3>1, <3>3
  <2>3. CASE ApplyCheck(p)
    <3>1. PICK d \in Credits, t \in Debts, n \in 1 .. scope.amount :
              /\ Standing(d)
              /\ Begin(p, "plan", Revising(d, [Latest(d) EXCEPT !.apps[t] = @ + n], "keep"))
          BY <2>3 DEF ApplyCheck
    <3>2. d \in Docs /\ Dated(Latest(d))
          BY <3>1, LatestDated DEF Standing, Docs
    <3>3. Dated([Latest(d) EXCEPT !.apps[t] = @ + n])
          BY <3>2 DEF Dated
    <3>4. QED
          BY <3>1, <3>2, <3>3
  <2>4. QED
        BY <2>1, <2>2, <2>3
<1>2. Ready(Revising(d, v, r), "plan")
      BY <1>1, CountsNow DEF Ready, Revising
<1>3. PICK j : j = Revising(d, v, r)
      OBVIOUS
<1>4. QED
      BY <1>1, <1>2, <1>3, QuietStep DEF UpdateCheck, VoidCheck, ApplyCheck, BInv, Tables

LEMMA PlanStep == ASSUME BInv, NEW p \in Procs, PlanRevision(p) PROVE BInv'
<1>1. PICK j : /\ j = [tool |-> "revise", doc |-> job[p].doc, old |-> job[p].old,
                       new |-> job[p].new, reposting |-> job[p].reposting,
                       seen |-> job[p].seen, live |-> LiveEntries(job[p].doc)]
               /\ Begin(p, "commit", j)
      BY DEF PlanRevision
<1>2. job[p].doc \in Docs /\ Dated(job[p].new) /\ CountedBefore(job[p].seen)
      BY DEF PlanRevision, BInv, Ready
<1>3. Ready(j, "commit")
      BY <1>1, <1>2 DEF Ready, LiveEntries
<1>4. QED
      BY <1>1, <1>3, QuietStep DEF PlanRevision, BInv, Tables

LEMMA CloseSnapshotStep == ASSUME BInv, NEW p \in Procs, CloseSnapshot(p) PROVE BInv'
<1>1. PICK e, j : /\ e \in Dates /\ Begin(p, "close", j)
                  /\ j = [tool |-> "close", end |-> e, counted |-> EntriesThrough(e)]
      BY DEF CloseSnapshot
<1>2. Ready(j, "close")
      BY <1>1 DEF Ready
<1>3. QED
      BY <1>1, <1>2, QuietStep DEF CloseSnapshot, BInv, Tables

\* The tables grow in no way when none is written but those of the periods.
LEMMA Still ==
    ASSUME BInv, UNCHANGED <<versions, journal, blame, scope>>
    PROVE  /\ Growing /\ blame' = [d \in Docs |-> blame'[d]]
           /\ \A d \in Docs : \A k \in DOMAIN versions'[d] : k \in DOMAIN versions[d]
           /\ DOMAIN journal' \ DOMAIN journal = {}
BY SeqFacts DEF Growing, BInv, Tables

\* What a close did not count although it is dated in the period has slipped.
LEMMA ClosePeriodStep == ASSUME BInv, NEW p \in Procs, ClosePeriod(p) PROVE BInv'
<1>1. PICK e, n : e = job[p].end /\ n = job[p].counted
      OBVIOUS
<1>2. /\ Begin(p, "idle", NoJob) /\ UNCHANGED <<versions, journal, blame, scope>>
      /\ closed' = closed \cup {e} /\ snapshot' = [snapshot EXCEPT ![e] = n]
      /\ slipped' = slipped \cup (EntriesThrough(e) \ n)
      BY <1>1 DEF ClosePeriod, Return
<1>3. e \in Dates
      BY <1>1 DEF ClosePeriod, BInv, Ready
<1>4. closed' \subseteq Dates /\ snapshot' = [x \in Dates |-> snapshot'[x]]
      BY <1>2, <1>3 DEF BInv, Tables
<1>5. \A x : EntriesThrough(x)' = EntriesThrough(x)
      BY <1>2 DEF EntriesThrough
<1>6. ClosedBooksStand'
  <2>1. SUFFICES ASSUME NEW x \in closed'
                 PROVE  EntriesThrough(x) \ snapshot'[x] \subseteq slipped'
        BY <1>5 DEF ClosedBooksStand
  <2>2. CASE x = e
        BY <1>2, <1>3, <2>2 DEF BInv, Tables
  <2>3. CASE x # e
    <3>1. x \in closed /\ snapshot'[x] = snapshot[x]
          BY <1>2, <2>3 DEF BInv, Tables
    <3>2. QED
          BY <1>2, <3>1 DEF BInv, ClosedBooksStand
  <2>4. QED
        BY <2>2, <2>3
<1>7. QED
      BY <1>2, <1>4, <1>6, Still, IdleReady, StepOf DEF Ready

LEMMA ReopenPeriodStep == ASSUME BInv, NEW p \in Procs, ReopenPeriod(p) PROVE BInv'
<1>1. /\ UNCHANGED <<versions, journal, snapshot, pc, job, blame, slipped, scope>>
      /\ closed' \subseteq closed
      BY DEF ReopenPeriod
<1>2. PICK at, j : at = pc[p] /\ j = job[p]
      OBVIOUS
<1>3. Begin(p, at, j) /\ Ready(j, at)
      BY <1>1, <1>2 DEF Begin, BInv, Tables
<1>4. closed' \subseteq Dates /\ snapshot' = [x \in Dates |-> snapshot'[x]]
      BY <1>1 DEF BInv, Tables
<1>5. ClosedBooksStand'
      BY <1>1 DEF BInv, ClosedBooksStand, EntriesThrough
<1>6. Growing /\ Ready(j, at)'
      BY <1>1, <1>3, Still, ReadyOn
<1>7. QED
      BY <1>1, <1>3, <1>4, <1>5, <1>6, Still, StepOf

\* An entry is posted: it is traced since it was on its way, and if a close
\* overtook the gate it has slipped.
LEMMA InsertStep == ASSUME BInv, NEW p \in Procs, Insert(p) PROVE BInv'
<1>1. PICK e, n : e = job[p].entry /\ n = Len(journal) + 1
      OBVIOUS
<1>2. /\ Begin(p, "idle", NoJob) /\ UNCHANGED <<versions, closed, snapshot, scope>>
      /\ journal' = Append(journal, e)
      /\ blame' = [blame EXCEPT ![e.doc] = @ \cup InsertBlame(e)]
      /\ slipped' = IF job[p].lock < e.date /\ e.date <= LockedThrough
                    THEN slipped \cup {n} ELSE slipped
      BY <1>1 DEF Insert, Return
<1>3. Traced(e) /\ job[p].lock < e.date
      BY <1>1 DEF Insert, BInv, Ready
<1>4. IsSeq(journal) /\ Len(journal) \in Nat /\ n \in Nat /\ DOMAIN journal = 1 .. Len(journal)
      BY <1>1, SeqFacts DEF BInv, Tables
<1>5. /\ Grows(journal, journal') /\ DOMAIN journal' = DOMAIN journal \cup {n}
      /\ journal'[n] = e /\ \A i \in DOMAIN journal : journal'[i] = journal[i]
  <2>1. Grows(journal, journal') /\ Len(journal') = n /\ journal'[n] = e
        BY <1>1, <1>2, <1>4, Appended
  <2>2. DOMAIN journal' = 1 .. n
        BY <2>1, SeqFacts DEF Grows
  <2>3. QED
        BY <1>1, <1>4, <2>1, <2>2 DEF Grows
<1>6. /\ blame' = [d \in Docs |-> blame'[d]]
      /\ \A d \in Docs : "misnumbered" \in blame[d] => "misnumbered" \in blame'[d]
      BY <1>2 DEF BInv, Tables
<1>7. Growing
      BY <1>2, <1>5, <1>6, SeqFacts DEF Growing, BInv, Tables
<1>8. Traced(e)' /\ e.reverses < n
  <2>1. Traced(e)'
        BY <1>3, <1>7, TracedOn
  <2>2. e.reverses = 0 \/ e.reverses \in DOMAIN journal
        BY <1>3 DEF Traced, Undo, Original
  <2>3. QED
        BY <1>1, <1>4, <2>1, <2>2
<1>9. ASSUME NEW i \in DOMAIN journal' \ DOMAIN journal
      PROVE  Traced(journal[i])' /\ journal'[i].reverses < i
  <2>1. i = n /\ journal'[i] = e
        BY <1>5, <1>9
  <2>2. QED
        BY <1>8, <2>1 DEF Traced, Undo, Original
<1>10. ClosedBooksStand'
  <2>1. SUFFICES ASSUME NEW x \in closed, NEW i \in DOMAIN journal', journal'[i].date <= x,
                        i \notin snapshot[x]
                 PROVE  i \in slipped'
        BY <1>2 DEF ClosedBooksStand, EntriesThrough
  <2>2. CASE i \in DOMAIN journal
        BY <1>2, <1>5, <2>1, <2>2 DEF BInv, ClosedBooksStand, EntriesThrough
  <2>3. CASE i = n
    <3>1. e.date <= x /\ x <= LockedThrough
          BY <1>5, <2>1, <2>3, Locked
    <3>2. e.date \in Int /\ x \in Int /\ LockedThrough \in Int
          BY <1>3, DatesTyped, Locked DEF Traced, BInv, Tables
    <3>3. QED
          BY <1>2, <1>3, <2>3, <3>1, <3>2
  <2>4. QED
        BY <1>5, <2>2, <2>3
<1>11. QED
       BY <1>2, <1>6, <1>7, <1>9, <1>10, IdleReady, StepOf DEF BInv, Tables, Ready

-----------------------------------------------------------------------------
\* What a revision appends, exactly: each entry it undoes is undone once.
CorrectsBy(j, C, n, s) ==
    /\ n \in Nat /\ IsSeq(C) /\ Len(C) = n + (IF Posting(j) THEN 1 ELSE 0)
    /\ \A k \in 1 .. n : s[k] \in Reversing(j) /\ C[k] = ReversalOf(s[k])
    /\ \A k, l \in 1 .. n : s[k] = s[l] => k = l
    /\ \A i \in Reversing(j) : \E k \in 1 .. n : s[k] = i
    /\ Posting(j) => C[n + 1] = Entry(j.doc, Len(versions[j.doc]) + 1, j.new.date,
                                      Posted(j.doc, j.new), 0)

LEMMA CorrectionsExactly ==
    ASSUME BInv, NEW j, j.live \subseteq DOMAIN journal
    PROVE  \E n, s : CorrectsBy(j, Corrections(j), n, s)
<1> DEFINE R == Reversing(j)
           n == Cardinality(R)
           s == SetToSeq(R)
           a == [k \in 1 .. n |-> ReversalOf(s[k])]
           x == Entry(j.doc, Len(versions[j.doc]) + 1, j.new.date, Posted(j.doc, j.new), 0)
           b == IF Posting(j) THEN <<x>> ELSE <<>>
<1>1. IsFiniteSet(R)
  <2>1. R \in SUBSET (DOMAIN journal)
        BY DEF Reversing
  <2>2. DOMAIN journal = 1 .. Len(journal) /\ Len(journal) \in Nat
        BY SeqFacts DEF BInv, Tables
  <2>3. IsFiniteSet(DOMAIN journal)
        BY <2>2, FS_Interval
  <2>4. QED
        BY <2>1, <2>3, FS_Subset
<1>2. /\ n \in Nat /\ \A k \in 1 .. n : s[k] \in R
      /\ \A k, l \in 1 .. n : s[k] = s[l] => k = l
      /\ \A i \in R : \E k \in 1 .. n : s[k] = i
  <2>1. s = Listing(R)
        BY DEF SetToSeq, Listing
  <2> HIDE DEF R, s
  <2>2. QED
        BY <1>1, <2>1, Listed
<1>3. Corrections(j) = a \o b
      BY DEF Corrections
<1> HIDE DEF n, s, x, R
<1>4. IsSeq(a) /\ Len(a) = n /\ \A k \in 1 .. n : a[k] = ReversalOf(s[k])
      BY <1>2 DEF IsSeq
<1>5. IsSeq(b) /\ Len(b) = (IF Posting(j) THEN 1 ELSE 0) /\ (Posting(j) => b[1] = x)
  <2>1. CASE Posting(j)
    <3>1. <<x>> \in Seq({x}) /\ Len(<<x>>) = 1 /\ <<x>>[1] = x
          OBVIOUS
    <3>2. IsSeq(<<x>>)
          BY <3>1, AnySeq
    <3>3. QED
          BY <2>1, <3>1, <3>2
  <2>2. CASE ~Posting(j)
    <3>1. b = <<>>
          BY <2>2
    <3>2. QED
          BY <2>2, <3>1 DEF IsSeq
  <2>3. QED
        BY <2>1, <2>2
<1> HIDE DEF a, b
<1>6. /\ IsSeq(a \o b) /\ Len(a \o b) = n + Len(b)
      /\ \A k \in 1 .. n : (a \o b)[k] = a[k]
      /\ \A k \in 1 .. Len(b) : (a \o b)[n + k] = b[k]
  <2>1. /\ Grows(a, a \o b) /\ Len(a \o b) = Len(a) + Len(b)
        /\ \A k \in 1 .. Len(b) : (a \o b)[Len(a) + k] = b[k]
        BY <1>4, <1>5, Joined
  <2>2. QED
        BY <1>4, <2>1 DEF Grows
<1>7. Posting(j) => (a \o b)[n + 1] = x
      BY <1>5, <1>6
<1>8. CorrectsBy(j, a \o b, n, s)
      BY <1>2, <1>4, <1>5, <1>6, <1>7 DEF CorrectsBy, R, x
<1>9. QED
      BY <1>3, <1>8

\* Reversals of what it found live, then at most one entry, for the version it
\* saves.
LEMMA CorrectionsAre ==
    ASSUME BInv, NEW j, j.live \subseteq DOMAIN journal
    PROVE  /\ IsSeq(Corrections(j))
           /\ \A k \in 1 .. Len(Corrections(j)) :
                \/ \E i \in j.live : Corrections(j)[k] = ReversalOf(i)
                \/ /\ k = Len(Corrections(j))
                   /\ Corrections(j)[k] = Entry(j.doc, Len(versions[j.doc]) + 1, j.new.date,
                                                Posted(j.doc, j.new), 0)
<1>1. PICK C : C = Corrections(j)
      OBVIOUS
<1>2. PICK n, s : CorrectsBy(j, C, n, s)
      BY <1>1, CorrectionsExactly
<1>3. /\ n \in Nat /\ IsSeq(C) /\ Len(C) = n + (IF Posting(j) THEN 1 ELSE 0)
      /\ \A k \in 1 .. n : s[k] \in j.live /\ C[k] = ReversalOf(s[k])
      /\ Posting(j) => C[n + 1] = Entry(j.doc, Len(versions[j.doc]) + 1, j.new.date,
                                        Posted(j.doc, j.new), 0)
      BY <1>2 DEF CorrectsBy, Reversing
<1>4. ASSUME NEW k \in 1 .. Len(C)
      PROVE  \/ \E i \in j.live : C[k] = ReversalOf(i)
             \/ /\ k = Len(C)
                /\ C[k] = Entry(j.doc, Len(versions[j.doc]) + 1, j.new.date, Posted(j.doc, j.new), 0)
  <2>1. k \in 1 .. n \/ (Posting(j) /\ k = n + 1 /\ k = Len(C))
        BY <1>3
  <2>2. QED
        BY <1>3, <2>1
<1>5. QED
      BY <1>1, <1>3, <1>4

\* A revision is committed: its version, and all its entries, at once, each
\* dated after the lock that is read in the same transaction.
LEMMA CommitStep == ASSUME BInv, NEW p \in Procs, Commit(p) PROVE BInv'
<1>1. PICK j, d, v, n, C : /\ j = job[p] /\ d = j.doc /\ v = j.new
                           /\ n = Len(versions[d]) + 1 /\ C = Corrections(j)
      OBVIOUS
<1>2. /\ d \in Docs /\ Dated(v) /\ j.live \subseteq DOMAIN journal
      BY <1>1 DEF Commit, BInv, Ready
<1>3. /\ versions' = [versions EXCEPT ![d] = Append(@, v)]
      /\ journal' = journal \o C /\ blame' = CommitBlame(j)
      /\ \A k \in DOMAIN C : C[k].date > LockedThrough
      /\ Begin(p, "idle", NoJob) /\ UNCHANGED <<closed, snapshot, slipped, scope>>
      BY <1>1 DEF Commit, CommitGate, Return
<1>4. /\ versions' = [c \in Docs |-> versions'[c]]
      /\ Len(versions'[d]) = n /\ DOMAIN versions'[d] = 1 .. n /\ versions'[d][n] = v
      /\ n \in Nat \ {0}
      /\ \A c \in Docs : Grows(versions[c], versions'[c])
      /\ \A c \in Docs : \A k \in DOMAIN versions'[c] :
           k \in DOMAIN versions[c] \/ Dated(versions'[c][k])
  <2>1. n = Len(versions[d]) + 1
        BY <1>1
  <2>2. versions' = [versions EXCEPT ![d] = Append(@, v)]
        BY <1>3
  <2>3. QED
        BY <1>2, <2>1, <2>2, Saves
<1>5. /\ IsSeq(C) /\ IsSeq(journal) /\ Len(journal) \in Nat /\ Len(C) \in Nat
      /\ DOMAIN C = 1 .. Len(C) /\ DOMAIN journal = 1 .. Len(journal)
      /\ \A k \in 1 .. Len(C) :
           \/ \E i \in j.live : C[k] = ReversalOf(i)
           \/ k = Len(C) /\ C[k] = Entry(d, n, v.date, Posted(d, v), 0)
  <2>1. /\ IsSeq(C)
        /\ \A k \in 1 .. Len(C) :
             \/ \E i \in j.live : C[k] = ReversalOf(i)
             \/ k = Len(C) /\ C[k] = Entry(d, n, v.date, Posted(d, v), 0)
        BY <1>1, <1>2, CorrectionsAre
  <2>2. IsSeq(journal)
        BY DEF BInv, Tables
  <2>3. QED
        BY <2>1, <2>2, SeqFacts
<1>6. /\ Grows(journal, journal')
      /\ DOMAIN journal' = 1 .. Len(journal) + Len(C)
      /\ \A k \in 1 .. Len(C) : journal'[Len(journal) + k] = C[k]
  <2>1. /\ Grows(journal, journal') /\ Len(journal') = Len(journal) + Len(C)
        /\ \A k \in 1 .. Len(C) : journal'[Len(journal) + k] = C[k]
        BY <1>3, <1>5, Joined
  <2>2. QED
        BY <2>1, SeqFacts DEF Grows
<1>7. /\ blame' = [c \in Docs |-> blame'[c]]
      /\ \A c \in Docs : "misnumbered" \in blame[c] => "misnumbered" \in blame'[c]
      BY <1>1, <1>3 DEF CommitBlame, EntryBlame
<1>8. Growing
      BY <1>3, <1>4, <1>6, <1>7 DEF Growing
<1>9. ASSUME NEW x \in DOMAIN journal' \ DOMAIN journal
      PROVE  /\ Traced(journal[x])' /\ journal'[x].reverses < x
             /\ journal'[x].date > LockedThrough
  <2>1. PICK k \in 1 .. Len(C) : x = Len(journal) + k /\ journal'[x] = C[k]
    <3>1. PICK a \in Nat, b \in Nat : a = Len(journal) /\ b = Len(C)
          BY <1>5
    <3>2. x \in 1 .. a + b /\ x \notin 1 .. a
          BY <1>5, <1>6, <1>9, <3>1
    <3>3. x - a \in 1 .. b /\ x = a + (x - a)
          BY <3>1, <3>2
    <3>4. QED
          BY <1>6, <3>1, <3>3
  <2>2. k \in Nat \ {0} /\ x \in Nat /\ 0 < x /\ Len(journal) < x
    <3>1. PICK a \in Nat, b \in Nat : a = Len(journal) /\ b = Len(C)
          BY <1>5
    <3>2. k \in 1 .. b /\ x = a + k
          BY <2>1, <3>1
    <3>3. QED
          BY <3>1, <3>2
  <2>3. CASE \E i \in j.live : C[k] = ReversalOf(i)
    <3>1. PICK i, e : i \in DOMAIN journal /\ e = C[k] /\ e = ReversalOf(i)
          BY <1>2, <2>3
    <3>2. Traced(e) /\ e.reverses = i
          BY <3>1 DEF ReversalOf, Entry, Traced, Undo, BInv
    <3>3. Traced(e)'
          BY <1>8, <3>2, TracedOn
    <3>4. Traced(journal[x])'
          BY <2>1, <3>1, <3>3 DEF Traced, Undo, Original
    <3>5. i < x
      <4>1. PICK a \in Nat : a = Len(journal)
            BY <1>5
      <4>2. i \in 1 .. a /\ a < x
            BY <1>5, <2>2, <3>1, <4>1
      <4>3. QED
            BY <2>2, <4>1, <4>2
    <3>6. QED
          BY <1>3, <1>5, <2>1, <3>1, <3>2, <3>4, <3>5
  <2>4. CASE C[k] = Entry(d, n, v.date, Posted(d, v), 0)
    <3>1. PICK e : e = C[k] /\ e = Entry(d, n, v.date, Posted(d, v), 0)
          BY <2>4
    <3>2. /\ e.reverses = 0 /\ e.doc = d /\ e.version = n /\ e.date = v.date
          /\ e.amount = Posted(d, v)
          BY <3>1 DEF Entry
    <3>3. Posted(d, v)' = Posted(d, v) /\ Dates' = Dates
          BY <1>3, EffectRigid DEF Dates
    <3>4. Original(e)'
          BY <1>2, <1>4, <3>2, <3>3 DEF Original
    <3>5. Traced(e)'
          BY <1>2, <3>2, <3>3, <3>4, EffectInt DEF Traced, Dated
    <3>6. Traced(journal[x])'
          BY <2>1, <3>1, <3>5 DEF Traced, Undo, Original
    <3>7. QED
          BY <1>3, <1>5, <2>1, <2>2, <3>1, <3>2, <3>6
  <2>5. QED
        BY <1>5, <2>3, <2>4
<1>10. ClosedBooksStand'
  <2>1. SUFFICES ASSUME NEW c \in closed, NEW x \in DOMAIN journal', journal'[x].date <= c,
                        x \notin snapshot[c]
                 PROVE  x \in slipped
        BY <1>3 DEF ClosedBooksStand, EntriesThrough
  <2>2. CASE x \in DOMAIN journal
    <3>1. journal'[x] = journal[x]
          BY <1>6, <2>2, Kept, <1>5
    <3>2. QED
          BY <2>1, <2>2, <3>1 DEF BInv, ClosedBooksStand, EntriesThrough
  <2>3. CASE x \notin DOMAIN journal
    <3>1. journal'[x].date > LockedThrough /\ journal'[x].date \in Int
      <4>1. Traced(journal[x])' /\ journal'[x].date > LockedThrough
            BY <1>9, <2>3
      <4>2. journal'[x].date \in Dates'
            BY <4>1 DEF Traced
      <4>3. QED
            BY <1>3, <4>1, <4>2, DatesTyped DEF Dates
    <3>2. c <= LockedThrough /\ c \in Int /\ LockedThrough \in Int
          BY Locked, DatesTyped DEF BInv, Tables
    <3>3. QED
          BY <2>1, <3>1, <3>2
  <2>4. QED
        BY <2>2, <2>3
<1>11. closed' \subseteq Dates /\ snapshot' = [c \in Dates |-> snapshot'[c]]
       BY <1>3 DEF BInv, Tables
<1>12. \A i \in DOMAIN journal' \ DOMAIN journal :
           Traced(journal[i])' /\ journal'[i].reverses < i
       BY <1>9
<1>13. Ready(NoJob, "idle")'
       BY DEF Ready
<1>14. QED
       BY <1>3, <1>4, <1>7, <1>8, <1>10, <1>11, <1>12, <1>13, StepOf

-----------------------------------------------------------------------------
LEMMA InitBInv == Init => BInv
<1> SUFFICES ASSUME Init PROVE BInv
    OBVIOUS
<1>1. IsSeq(<<>>) /\ DOMAIN <<>> = {}
      BY DEF IsSeq
<1>2. Tables
      BY <1>1 DEF Init, Tables
<1>3. ASSUME NEW p \in Procs PROVE Ready(job[p], pc[p])
      BY DEF Init, Ready
<1>4. QED
      BY <1>1, <1>2, <1>3 DEF BInv, ClosedBooksStand, Init

LEMMA NextBInv == BInv /\ [Next]_vars => BInv'
<1> SUFFICES ASSUME BInv, [Next]_vars PROVE BInv'
    OBVIOUS
<1>1. ASSUME NEW p \in Procs, CreateBegin(p) \/ CreateSave(p) \/ Gate(p) \/ Insert(p)
                              \/ ReverseBegin(p)
      PROVE  BInv'
      BY <1>1, CreateBeginStep, CreateSaveStep, GateStep, InsertStep, ReverseBeginStep
<1>2. ASSUME NEW p \in Procs, UpdateCheck(p) \/ VoidCheck(p) \/ ApplyCheck(p)
                              \/ PlanRevision(p) \/ Commit(p)
      PROVE  BInv'
      BY <1>2, CheckStep, PlanStep, CommitStep
<1>3. ASSUME NEW p \in Procs, CloseSnapshot(p) \/ ClosePeriod(p) \/ ReopenPeriod(p)
      PROVE  BInv'
      BY <1>3, CloseSnapshotStep, ClosePeriodStep, ReopenPeriodStep
<1>4. ASSUME NEW p \in Procs, Refused(p) \/ PlanRefused(p) \/ RollBack(p) \/ Crash(p)
      PROVE  BInv'
      BY <1>4, GiveUpStep
<1>5. CASE UNCHANGED vars
  <2>1. UNCHANGED <<versions, journal, closed, snapshot, pc, job, blame, slipped, scope>>
        BY <1>5 DEF vars, booksVars
  <2>2. Tables'
        BY <2>1 DEF BInv, Tables, Dated, Dates
  <2>3. ASSUME NEW p \in Procs PROVE Ready(job[p], pc[p])'
    <3>1. PICK j, at : j = job[p] /\ at = pc[p]
          OBVIOUS
    <3>2. Ready(j, at)'
          BY <2>1, <3>1, Still, ReadyOn DEF BInv
    <3>3. QED
          BY <2>1, <3>1, <3>2
  <2>4. ASSUME NEW i \in DOMAIN journal' PROVE Traced(journal[i])' /\ journal'[i].reverses < i
    <3>1. PICK e : e = journal[i]
          OBVIOUS
    <3>2. Traced(e)' /\ e.reverses < i
          BY <2>1, <3>1, Still, TracedOn DEF BInv
    <3>3. QED
          BY <2>1, <3>1, <3>2
  <2>5. ClosedBooksStand'
        BY <2>1 DEF BInv, ClosedBooksStand, EntriesThrough
  <2>6. QED
        BY <2>2, <2>3, <2>4, <2>5 DEF BInv
<1>6. QED
      BY <1>1, <1>2, <1>3, <1>4, <1>5 DEF Next

\* A period that is closed keeps the entries its trial balance counted, except
\* for those the close or the gate let slip by reading before they wrote.
THEOREM ClosedBooksStandHolds == Spec => []ClosedBooksStand
<1>1. BInv => ClosedBooksStand
      BY DEF BInv
<1>2. QED
      BY <1>1, InitBInv, NextBInv, PTL DEF Spec

\* Every entry can be traced, whatever tools ran in whichever processes and
\* were killed part way: a reversal to one earlier entry it is the opposite of,
\* an original to the version it cites and states.
THEOREM EntriesTraceHolds == Spec => []EntriesTrace
<1>1. ASSUME BInv PROVE EntriesTrace
  <2>1. SUFFICES ASSUME NEW i \in DOMAIN journal, NEW e, e = journal[i]
                 PROVE  IF e.reverses # 0
                        THEN /\ e.reverses < i
                             /\ journal[e.reverses].doc = e.doc
                             /\ e.amount = -journal[e.reverses].amount
                        ELSE /\ e.version <= Len(versions[e.doc])
                             /\ \/ "misnumbered" \in blame[e.doc]
                                \/ /\ e.date = versions[e.doc][e.version].date
                                   /\ e.amount = Posted(e.doc, versions[e.doc][e.version])
        BY DEF EntriesTrace
  <2>2. Traced(e) /\ e.reverses < i
        BY <1>1, <2>1 DEF BInv
  <2>3. DOMAIN journal = 1 .. Len(journal) /\ Len(journal) \in Nat
        BY <1>1, SeqFacts DEF BInv, Tables
  <2>4. CASE Undo(e)
    <3>1. e.reverses # 0
          BY <2>3, <2>4 DEF Undo
    <3>2. QED
          BY <2>2, <2>4, <3>1 DEF Undo
  <2>5. CASE Original(e)
    <3>1. /\ DOMAIN versions[e.doc] = 1 .. Len(versions[e.doc])
          /\ Len(versions[e.doc]) \in Nat
          BY <1>1, <2>5, SeqFacts DEF BInv, Tables, Original
    <3>2. QED
          BY <2>5, <3>1 DEF Original
  <2>6. QED
        BY <2>2, <2>4, <2>5 DEF Traced
<1>2. QED
      BY <1>1, InitBInv, NextBInv, PTL DEF Spec

-----------------------------------------------------------------------------
\* A version saved is a version more for the auditor, and no other record moves.
LEMMA SavedMore ==
    ASSUME BInv, NEW d \in Docs, NEW v, Dated(v), versions' = [versions EXCEPT ![d] = Append(@, v)]
    PROVE  Trail!OneMore(d)
<1>1. PICK n : n = Len(versions[d]) + 1
      OBVIOUS
<1>2. /\ Len(versions'[d]) = n /\ Grows(versions[d], versions'[d])
      /\ \A c \in Docs \ {d} : versions'[c] = versions[c]
      BY <1>1, Saves
<1>3. QED
      BY <1>1, <1>2 DEF Trail!OneMore, Trail!Extends, Grows

\* An entry that is on its way and posted is one an auditor may meet.
LEMMA PostedOne == ASSUME BInv, NEW p \in Procs, Insert(p) PROVE Trail!PostEntry
<1>1. PICK e, n : e = job[p].entry /\ n = Len(journal)
      OBVIOUS
<1>2. journal' = Append(journal, e) /\ UNCHANGED versions
      BY <1>1 DEF Insert
<1>3. Traced(e)
      BY <1>1 DEF Insert, BInv, Ready
<1>4. IsSeq(journal) /\ n \in Nat /\ DOMAIN journal = 1 .. n
      BY <1>1, SeqFacts DEF BInv, Tables
<1>5. Grows(journal, journal') /\ Len(journal') = n + 1 /\ journal'[n + 1] = e
      BY <1>1, <1>2, <1>4, Appended
<1>6. Trail!Undoes(e) \/ Trail!Cites(e)
  <2>1. CASE Undo(e)
        BY <1>1, <1>4, <2>1 DEF Undo, Trail!Undoes
  <2>2. CASE Original(e)
    <3>1. DOMAIN versions[e.doc] = 1 .. Len(versions[e.doc])
          BY <2>2, SeqFacts DEF BInv, Tables, Original
    <3>2. QED
          BY <1>2, <2>2, <3>1 DEF Original, Trail!Cites
  <2>3. QED
        BY <1>3, <2>1, <2>2 DEF Traced
<1>7. \A i \in Trail!Added : i = n + 1
      BY <1>1, <1>4, <1>5 DEF Trail!Added
<1>8. QED
      BY <1>1, <1>2, <1>5, <1>6, <1>7 DEF Trail!PostEntry, Trail!Extends, Grows

\* A revision is a correction: its version and all its entries, in one step.
LEMMA Corrected == ASSUME BInv, NEW p \in Procs, Commit(p) PROVE Trail!Correct
<1>1. PICK j, d, v, n, C, a, b :
          /\ j = job[p] /\ d = j.doc /\ v = j.new /\ n = Len(versions[d]) + 1
          /\ C = Corrections(j) /\ a = Len(journal) /\ b = Len(C)
      OBVIOUS
<1>2. /\ d \in Docs /\ Dated(v) /\ j.live \subseteq DOMAIN journal
      /\ \A i \in j.live : journal[i].doc = d
      BY <1>1 DEF Commit, BInv, Ready
<1>3. versions' = [versions EXCEPT ![d] = Append(@, v)] /\ journal' = journal \o C
      BY <1>1 DEF Commit
<1>4. Trail!OneMore(d) /\ Len(versions'[d]) = n
  <2>1. n = Len(versions[d]) + 1
        BY <1>1
  <2>2. d \in Docs /\ Dated(v)
        BY <1>2
  <2>3. versions' = [versions EXCEPT ![d] = Append(@, v)]
        BY <1>3
  <2>4. Trail!OneMore(d)
        BY <2>2, <2>3, SavedMore
  <2>5. QED
        BY <2>1, <2>2, <2>3, <2>4, Saves
<1>5. /\ IsSeq(C) /\ IsSeq(journal) /\ a \in Nat /\ b \in Nat /\ DOMAIN journal = 1 .. a
      /\ \A k \in 1 .. b :
           \/ \E i \in j.live : C[k] = ReversalOf(i)
           \/ k = b /\ C[k] = Entry(d, n, v.date, Posted(d, v), 0)
  <2>1. /\ IsSeq(C)
        /\ \A k \in 1 .. b :
             \/ \E i \in j.live : C[k] = ReversalOf(i)
             \/ k = b /\ C[k] = Entry(d, n, v.date, Posted(d, v), 0)
        BY <1>1, <1>2, CorrectionsAre
  <2>2. IsSeq(journal)
        BY DEF BInv, Tables
  <2>3. QED
        BY <1>1, <2>1, <2>2, SeqFacts
<1>6. /\ Grows(journal, journal') /\ Len(journal') = a + b
      /\ \A k \in 1 .. b : journal'[a + k] = C[k]
      BY <1>1, <1>3, <1>5, Joined
<1>7. ASSUME NEW x \in Trail!Added, NEW e, e = journal'[x]
      PROVE  /\ e.doc = d
             /\ \/ Trail!Undoes(e) /\ e.date = journal[e.reverses].date
                \/ x = Len(journal') /\ e.reverses = 0 /\ e.version = Len(versions'[d])
  <2>1. PICK k \in 1 .. b : x = a + k /\ e = C[k]
    <3>1. x \in a + 1 .. a + b
          BY <1>1, <1>6 DEF Trail!Added
    <3>2. x - a \in 1 .. b /\ x = a + (x - a)
          BY <1>5, <3>1
    <3>3. QED
          BY <1>6, <1>7, <3>2
  <2>2. CASE \E i \in j.live : e = ReversalOf(i)
        BY <1>1, <1>2, <1>5, <2>2 DEF ReversalOf, Entry, Trail!Undoes
  <2>3. CASE k = b /\ e = Entry(d, n, v.date, Posted(d, v), 0)
        BY <1>4, <1>6, <2>1, <2>3 DEF Entry
  <2>4. QED
        BY <1>5, <2>1, <2>2, <2>3
<1>8. QED
      BY <1>2, <1>4, <1>6, <1>7 DEF Trail!Correct, Trail!Extends, Grows

\* The books implement the audit trail: every step of every process adds a
\* version, adds an entry that can be traced, adds a correction as a whole, or
\* leaves what is written alone.
THEOREM TrailKeptHolds == Spec => TrailKept
<1>1. Init => Trail!AuditInit
      BY DEF Init, Trail!AuditInit
<1>2. ASSUME BInv, [Next]_vars PROVE [Trail!AuditNext]_(Trail!auditVars)
  <2>1. CASE \E p \in Procs : CreateSave(p)
    <3>1. PICK p \in Procs : CreateSave(p)
          BY <2>1
    <3>2. /\ job[p].doc \in Docs /\ Dated(job[p].new) /\ UNCHANGED journal
          /\ versions' = [versions EXCEPT ![job[p].doc] = Append(@, job[p].new)]
          BY <1>2, <3>1 DEF CreateSave, BInv, Ready
    <3>3. Trail!OneMore(job[p].doc)
          BY <1>2, <3>2, SavedMore
    <3>4. QED
          BY <3>2, <3>3 DEF Trail!AuditNext, Trail!SaveVersion
  <2>2. CASE \E p \in Procs : Insert(p)
        BY <1>2, <2>2, PostedOne DEF Trail!AuditNext
  <2>3. CASE \E p \in Procs : Commit(p)
        BY <1>2, <2>3, Corrected DEF Trail!AuditNext
  <2>4. CASE UNCHANGED <<versions, journal>>
        BY <2>4 DEF Trail!auditVars
  <2>5. \/ \E p \in Procs : CreateSave(p) \/ Insert(p) \/ Commit(p)
        \/ UNCHANGED <<versions, journal>>
        BY <1>2 DEF Next, vars, booksVars, CreateBegin, Gate, Refused, ReverseBegin, UpdateCheck,
              VoidCheck, ApplyCheck, PlanRevision, PlanRefused, RollBack, CloseSnapshot,
              ClosePeriod, ReopenPeriod, Crash
  <2>6. QED
        BY <2>1, <2>2, <2>3, <2>4, <2>5
<1>3. QED
      BY <1>1, <1>2, InitBInv, NextBInv, PTL DEF Spec, TrailKept, Trail!AuditSpec


-----------------------------------------------------------------------------
(* Applications: what is applied against a debt fits it. *)

Openers == Credits \cup Payments

\* What each document that can be applied has applied to t.
Use(t) == [d \in Openers |-> IF Standing(d) THEN Latest(d).apps[t] ELSE 0]

Room(t) == IF Standing(t) THEN Latest(t).total ELSE 0
Exempt(t) == blame[t] \cap {"unchecked", "overtaken"} # {} \/ UncheckedUse(t)

\* What a version of d adds to what is applied to t, and the room it leaves.
Adds(d, v, t) == IF d \in Openers /\ ~v.voided THEN v.apps[t] ELSE 0
RoomLeft(d, v, t) == IF t = d THEN (IF v.voided THEN 0 ELSE v.total) ELSE Room(t)

Fits(d, v) ==
    \A t \in Debts : Exempt(t) \/ AppliedByOthers(t, d) + Adds(d, v, t) <= RoomLeft(d, v, t)

\* A revision nobody overtook still fits.
Checked(j, place) == place \in {"plan", "commit"} /\ j.seen = Counts => Fits(j.doc, j.new)

AInv == BInv /\ ApplicationsHold /\ \A p \in Procs : Checked(job[p], pc[p])

LEMMA OpenersAre ==
    /\ IsFiniteSet(Openers) /\ Openers \subseteq Docs /\ Debts \subseteq Docs
    /\ Docs = Debts \cup Openers /\ Debts \cap Openers = {} /\ NoDoc \notin Docs
BY KindsAssumption, FS_Subset DEF Openers, Docs

LEMMA UseTyped ==
    ASSUME BInv, NEW t \in Debts
    PROVE  /\ Use(t) = [d \in Openers |-> Use(t)[d]]
           /\ \A d \in Openers : /\ Use(t)[d] \in Nat /\ Use(t)[d] \in Int
                                 /\ Use(t)[d] = IF Standing(d) THEN Latest(d).apps[t] ELSE 0
<1>1. ASSUME NEW d \in Openers, Standing(d) PROVE Latest(d).apps[t] \in Nat
      BY <1>1, LatestDated, OpenersAre DEF Standing, Dated
<1>2. QED
      BY <1>1 DEF Use

\* What others have applied, as a sum over the same documents whoever stands.
LEMMA OthersAre ==
    ASSUME BInv, NEW t \in Debts, NEW x
    PROVE  /\ AppliedByOthers(t, x) = SumFunctionOnSet(Use(t), Openers \ {x})
           /\ AppliedByOthers(t, x) \in Nat
<1> DEFINE f == [d \in Settling \ {x} |-> Latest(d).apps[t]]
           S == Openers \ {x}
           T == Settling \ {x}
<1>1. IsFiniteSet(S) /\ T \in SUBSET S /\ IsFiniteSet(T)
      BY OpenersAre, FS_Subset DEF Settling, Openers
<1>2. /\ \A d \in T : f[d] = Use(t)[d]
      /\ \A d \in S \ T : Use(t)[d] = 0
      /\ \A d \in S : Use(t)[d] \in Int /\ Use(t)[d] \in Nat
      BY UseTyped DEF Settling, Openers
<1>3. AppliedByOthers(t, x) = SumFunctionOnSet(f, T)
      BY DEF AppliedByOthers, SumFunction
<1> HIDE DEF f, S, T
<1>4. SumFunctionOnSet(f, T) = SumFunctionOnSet(Use(t), T)
      BY <1>1, <1>2, SumSame
<1>5. SumFunctionOnSet(Use(t), S) = SumFunctionOnSet(Use(t), T)
      BY <1>1, <1>2, SumOfPart
<1>6. SumFunctionOnSet(Use(t), S) \in Nat
      BY <1>1, <1>2, SumNat
<1>7. QED
      BY <1>3, <1>4, <1>5, <1>6 DEF S

LEMMA AllApplied ==
    ASSUME BInv, NEW t \in Debts
    PROVE  /\ AppliedByOthers(t, NoDoc) = SumFunctionOnSet(Use(t), Openers)
           /\ \A d \in Openers :
                /\ AppliedByOthers(t, NoDoc) = AppliedByOthers(t, d) + Use(t)[d]
                /\ Use(t)[d] \in Nat
           /\ \A d : d \notin Openers => AppliedByOthers(t, d) = AppliedByOthers(t, NoDoc)
           /\ \A d : AppliedByOthers(t, d) \in Nat
<1>1. \A d : AppliedByOthers(t, d) = SumFunctionOnSet(Use(t), Openers \ {d})
             /\ AppliedByOthers(t, d) \in Nat
      BY OthersAre
<1>2. \A d : d \notin Openers => Openers \ {d} = Openers
      OBVIOUS
<1>3. AppliedByOthers(t, NoDoc) = SumFunctionOnSet(Use(t), Openers)
      BY <1>1, <1>2, OpenersAre
<1>4. ASSUME NEW d \in Openers
      PROVE  AppliedByOthers(t, NoDoc) = AppliedByOthers(t, d) + Use(t)[d]
  <2>1. SumFunctionOnSet(Use(t), Openers)
          = Use(t)[d] + SumFunctionOnSet(Use(t), Openers \ {d})
        BY UseTyped, OpenersAre, SumSplit
  <2>2. Use(t)[d] \in Nat
        BY UseTyped
  <2>3. QED
        BY <1>1, <1>3, <2>1, <2>2
<1>5. QED
      BY <1>1, <1>2, <1>3, <1>4, UseTyped

\* Everything applied to a debt is dated within the scope.
LEMMA OpenIs ==
    ASSUME BInv, NEW t \in Debts, Standing(t)
    PROVE  OpenItem(t, scope.dates) = Latest(t).total - AppliedByOthers(t, NoDoc)
<1>1. ASSUME NEW d \in Docs, Standing(d) PROVE InWindow(d, scope.dates)
  <2>1. Latest(d).date \in 1 .. scope.dates
        BY <1>1, LatestDated DEF Standing, Dated, Dates
  <2>2. scope.dates \in Nat
        BY DatesTyped
  <2>3. QED
        BY <1>1, <2>1, <2>2 DEF InWindow
<1>2. {c \in Credits \cup Payments : InWindow(c, scope.dates)} = Settling \ {NoDoc}
      BY <1>1, OpenersAre DEF Settling, InWindow, Openers
<1>3. PaidBy(t, scope.dates) = AppliedByOthers(t, NoDoc)
      BY <1>2 DEF PaidBy, AppliedByOthers
<1>4. t \in Docs
      BY OpenersAre
<1>5. QED
      BY <1>1, <1>3, <1>4 DEF OpenItem

-----------------------------------------------------------------------------
LEMMA RoomTyped ==
    ASSUME BInv, NEW t \in Debts
    PROVE  Room(t) \in Int
BY LatestDated, OpenersAre DEF Room, Standing, Dated

LEMMA HeldIs == ApplicationsHold <=> \A t \in Debts : Exempt(t) \/ AppliedByOthers(t, NoDoc) <= Room(t)
BY DEF ApplicationsHold, Exempt, Room

\* The checks of the three tools that revise, each enough for what it writes.
LEMMA UpdateFits ==
    ASSUME AInv, NEW d \in Docs, NEW v \in Payloads(d), ~v.voided, UsedUp(d, v) <= v.total,
           ApplicationsFit(d, v)
    PROVE  Fits(d, v)
<1>1. BInv
      BY DEF AInv
<1>2. Dated(v) /\ ~v.voided
      BY <1>1, PayloadsDated
<1>3. SUFFICES ASSUME NEW t \in Debts, ~Exempt(t)
               PROVE  AppliedByOthers(t, d) + Adds(d, v, t) <= RoomLeft(d, v, t)
      BY DEF Fits
<1>4. AppliedByOthers(t, NoDoc) <= Room(t)
      BY <1>3, HeldIs DEF AInv
<1>5. /\ AppliedByOthers(t, d) \in Nat /\ AppliedByOthers(t, NoDoc) \in Nat
      /\ AppliedByOthers(t, d) <= AppliedByOthers(t, NoDoc) /\ Room(t) \in Int
      /\ v.apps[t] \in Nat
  <2>1. v.apps[t] \in Nat
        BY <1>2 DEF Dated
  <2>2. CASE d \in Openers
        BY <1>1, <2>1, <2>2, AllApplied, RoomTyped
  <2>3. CASE d \notin Openers
        BY <1>1, <2>1, <2>3, AllApplied, RoomTyped
  <2>4. QED
        BY <2>2, <2>3
<1>6. CASE t = d
  <2>1. d \notin Openers /\ d \notin Payments /\ d \notin Credits
        BY <1>6, OpenersAre DEF Openers
  <2>2. AppliedByOthers(d, d) <= v.total
        BY <1>5, <1>6, <2>1 DEF UsedUp
  <2>3. QED
        BY <1>2, <1>5, <1>6, <2>1, <2>2 DEF Adds, RoomLeft
<1>7. CASE t # d
  <2>1. CASE v.apps[t] > 0
    <3>1. AppliedByOthers(t, d) + v.apps[t] <= Room(t)
          BY <2>1 DEF ApplicationsFit, Room
    <3>2. QED
          BY <1>4, <1>5, <1>7, <3>1 DEF Adds, RoomLeft
  <2>2. CASE ~(v.apps[t] > 0)
    <3>1. v.apps[t] = 0
          BY <1>5, <2>2
    <3>2. QED
          BY <1>4, <1>5, <1>7, <3>1 DEF Adds, RoomLeft
  <2>3. QED
        BY <2>1, <2>2
<1>8. QED
      BY <1>6, <1>7

LEMMA VoidFits ==
    ASSUME AInv, NEW d \in Docs, NEW v, v.voided,
           d \in Payments \/ AppliedByOthers(d, d) = 0
    PROVE  Fits(d, v)
<1>1. BInv
      BY DEF AInv
<1>2. SUFFICES ASSUME NEW t \in Debts, ~Exempt(t)
               PROVE  AppliedByOthers(t, d) + Adds(d, v, t) <= RoomLeft(d, v, t)
      BY DEF Fits
<1>3. AppliedByOthers(t, NoDoc) <= Room(t) /\ Adds(d, v, t) = 0
      BY <1>2, HeldIs DEF AInv, Adds
<1>4. /\ AppliedByOthers(t, d) \in Nat /\ AppliedByOthers(t, NoDoc) \in Nat
      /\ AppliedByOthers(t, d) <= AppliedByOthers(t, NoDoc) /\ Room(t) \in Int
  <2>1. CASE d \in Openers
        BY <1>1, <2>1, AllApplied, RoomTyped
  <2>2. CASE d \notin Openers
        BY <1>1, <2>2, AllApplied, RoomTyped
  <2>3. QED
        BY <2>1, <2>2
<1>5. CASE t = d
  <2>1. d \notin Payments
        BY <1>5, OpenersAre DEF Openers
  <2>2. QED
        BY <1>3, <1>5, <2>1 DEF RoomLeft
<1>6. CASE t # d
      BY <1>3, <1>4, <1>6 DEF RoomLeft
<1>7. QED
      BY <1>5, <1>6

LEMMA ApplyFits ==
    ASSUME AInv, NEW c \in Credits, NEW s \in Debts, NEW amount \in Nat, Standing(c), Standing(s),
           amount <= OpenOf(s)
    PROVE  Fits(c, [Latest(c) EXCEPT !.apps[s] = @ + amount])
<1> DEFINE v == [Latest(c) EXCEPT !.apps[s] = @ + amount]
<1>1. BInv /\ c \in Openers /\ c \notin Debts /\ c \in Docs
      BY OpenersAre DEF AInv, Openers
<1>2. /\ v.voided = FALSE
      /\ v.apps[s] = Latest(c).apps[s] + amount
      /\ \A t \in Debts : t # s => v.apps[t] = Latest(c).apps[t]
      /\ \A t \in Debts : Latest(c).apps[t] \in Nat
  <2>1. Dated(Latest(c)) /\ Latest(c).voided = FALSE
        BY <1>1, LatestDated DEF Standing, Dated
  <2>2. QED
        BY <2>1 DEF Dated
<1> HIDE DEF v
<1>3. SUFFICES ASSUME NEW t \in Debts, ~Exempt(t)
               PROVE  AppliedByOthers(t, c) + Adds(c, v, t) <= RoomLeft(c, v, t)
      BY DEF Fits, v
<1>4. AppliedByOthers(t, NoDoc) <= Room(t)
      BY <1>3, HeldIs DEF AInv
<1>5. /\ AppliedByOthers(t, NoDoc) = AppliedByOthers(t, c) + Latest(c).apps[t]
      /\ AppliedByOthers(t, c) \in Nat /\ Room(t) \in Int /\ AppliedByOthers(t, NoDoc) \in Nat
  <2>1. Use(t)[c] = Latest(c).apps[t]
        BY <1>1, UseTyped
  <2>2. QED
        BY <1>1, <2>1, AllApplied, RoomTyped
<1>6. Adds(c, v, t) = v.apps[t] /\ RoomLeft(c, v, t) = Room(t)
      BY <1>1, <1>2, <1>3 DEF Adds, RoomLeft
<1>7. CASE t = s
  <2>1. OpenItem(s, scope.dates) = Room(s) - AppliedByOthers(s, NoDoc)
        BY <1>1, OpenIs DEF Room
  <2>2. amount <= Room(s) - AppliedByOthers(s, NoDoc)
        BY <1>4, <1>5, <1>7, <2>1 DEF OpenOf, Magnitude
  <2>3. QED
        BY <1>2, <1>5, <1>6, <1>7, <2>2
<1>8. CASE t # s
      BY <1>2, <1>4, <1>5, <1>6, <1>8
<1>9. QED
      BY <1>7, <1>8

-----------------------------------------------------------------------------
\* The same facts of the state before and after a step.
AppliedFacts ==
    \A t \in Debts :
        /\ \A d : /\ AppliedByOthers(t, d) = SumFunctionOnSet(Use(t), Openers \ {d})
                  /\ AppliedByOthers(t, d) \in Nat
        /\ AppliedByOthers(t, NoDoc) = SumFunctionOnSet(Use(t), Openers)
        /\ \A d \in Openers :
             /\ AppliedByOthers(t, NoDoc) = AppliedByOthers(t, d) + Use(t)[d]
             /\ Use(t)[d] = IF Standing(d) THEN Latest(d).apps[t] ELSE 0

LEMMA AppliedFactsHold == BInv => AppliedFacts
BY OthersAre, AllApplied, UseTyped DEF AppliedFacts

LEMMA AppliedFactsNext == BInv' => AppliedFacts'
BY AppliedFactsHold, PTL

LEMMA HeldNext ==
    ApplicationsHold' <=> (\A t \in Debts : Exempt(t) \/ AppliedByOthers(t, NoDoc) <= Room(t))'
BY HeldIs, PTL

\* A version of d is saved: what others have applied stays.
LEMMA SavedSums ==
    ASSUME BInv, BInv', NEW d \in Docs, NEW v, Dated(v),
           versions' = [versions EXCEPT ![d] = Append(@, v)], NEW t \in Debts
    PROVE  /\ AppliedByOthers(t, NoDoc)' = AppliedByOthers(t, d) + Adds(d, v, t)
           /\ Room(t)' = RoomLeft(d, v, t)
<1>1. PICK n : n = Len(versions[d]) + 1
      OBVIOUS
<1>2. /\ n \in Nat \ {0} /\ Len(versions'[d]) = n /\ versions'[d][n] = v
      /\ DOMAIN versions'[d] = 1 .. n
      /\ \A c \in Docs \ {d} : versions'[c] = versions[c]
      BY <1>1, Saves
<1>3. Latest(d)' = v /\ (Standing(d)' <=> ~v.voided)
  <2>1. versions'[d] # <<>>
        BY <1>2
  <2>2. QED
        BY <1>2, <2>1 DEF Latest, Last, Standing, Saved
<1>4. \A c \in Docs \ {d} : Latest(c)' = Latest(c) /\ (Standing(c)' <=> Standing(c))
      BY <1>2 DEF Latest, Standing, Saved
<1>5. Room(t)' = RoomLeft(d, v, t)
      BY <1>3, <1>4, OpenersAre DEF Room, RoomLeft
<1>6. AppliedFacts /\ AppliedFacts'
      BY AppliedFactsHold, AppliedFactsNext
<1>7. PICK u, w : u = Use(t) /\ w = Use(t)'
      OBVIOUS
<1>8. \A c \in Openers : c # d => w[c] = u[c]
      BY <1>4, <1>6, <1>7, OpenersAre DEF AppliedFacts
<1>9. /\ AppliedByOthers(t, d) = SumFunctionOnSet(u, Openers \ {d})
      /\ AppliedByOthers(t, d)' = SumFunctionOnSet(w, Openers \ {d})
      BY <1>6, <1>7 DEF AppliedFacts
<1>10. AppliedByOthers(t, d)' = AppliedByOthers(t, d)
  <2>1. IsFiniteSet(Openers \ {d}) /\ \A c \in Openers \ {d} : w[c] = u[c]
        BY <1>8, OpenersAre, FS_RemoveElement
  <2>2. QED
        BY <1>9, <2>1, SumSame
<1>11. CASE d \in Openers
  <2>1. AppliedByOthers(t, NoDoc)' = AppliedByOthers(t, d)' + w[d]
        BY <1>6, <1>7, <1>11 DEF AppliedFacts
  <2>2. w[d] = Adds(d, v, t)
        BY <1>3, <1>6, <1>7, <1>11 DEF AppliedFacts, Adds
  <2>3. QED
        BY <1>5, <1>10, <2>1, <2>2
<1>12. CASE d \notin Openers
  <2>1. Openers \ {d} = Openers
        BY <1>12
  <2>2. AppliedByOthers(t, NoDoc)' = AppliedByOthers(t, d)'
        BY <1>6, <1>7, <1>9, <2>1 DEF AppliedFacts
  <2>3. Adds(d, v, t) = 0 /\ AppliedByOthers(t, d) \in Nat
        BY <1>6, <1>12 DEF Adds, AppliedFacts
  <2>4. QED
        BY <1>5, <1>10, <2>2, <2>3
<1>13. QED
       BY <1>11, <1>12

\* What is blamed for good.
BlameKept == \A d \in Docs, x \in {"unchecked", "overtaken"} : x \in blame[d] => x \in blame'[d]

LEMMA ExemptOn ==
    ASSUME BInv, BlameKept, \A d \in Docs : Grows(versions[d], versions'[d]),
           NEW t \in Debts, Exempt(t)
    PROVE  Exempt(t)'
<1>1. CASE blame[t] \cap {"unchecked", "overtaken"} # {}
      BY <1>1, OpenersAre DEF BlameKept, Exempt
<1>2. CASE UncheckedUse(t)
  <2>1. PICK d \in Openers : /\ "unchecked" \in blame[d]
                             /\ \E v \in Range(versions[d]) : v.apps[t] > 0
        BY <1>2 DEF UncheckedUse, Openers
  <2>2. PICK k \in DOMAIN versions[d] : versions[d][k].apps[t] > 0
        BY <2>1 DEF Range
  <2>3. k \in DOMAIN versions'[d] /\ versions'[d][k] = versions[d][k]
    <3>1. d \in Docs
          BY OpenersAre
    <3>2. IsSeq(versions[d]) /\ Grows(versions[d], versions'[d])
          BY <3>1 DEF BInv, Tables
    <3>3. QED
          BY <2>2, <3>2, Kept
  <2>4. "unchecked" \in blame'[d]
        BY <2>1, OpenersAre DEF BlameKept
  <2>5. \E v \in Range(versions'[d]) : v.apps[t] > 0
        BY <2>2, <2>3 DEF Range
  <2>6. QED
        BY <2>1, <2>4, <2>5 DEF Exempt, UncheckedUse, Openers
<1>3. QED
      BY <1>1, <1>2 DEF Exempt

\* A step that saves no version leaves all of it as it is.
LEMMA SteadyA ==
    ASSUME AInv, BInv', UNCHANGED versions, BlameKept, NEW p \in Procs, NEW at, NEW j,
           Begin(p, at, j), Checked(j, at)
    PROVE  AInv'
<1>1. /\ \A t \in Debts, d \in Docs \cup {NoDoc} : AppliedByOthers(t, d)' = AppliedByOthers(t, d)
      /\ \A t \in Debts : Room(t)' = Room(t)
      /\ Counts' = Counts
      BY DEF AppliedByOthers, Room, Settling, Standing, Saved, Latest, Counts
<1>2. \A t \in Debts : Exempt(t) => Exempt(t)'
      BY ExemptOn, SeqFacts DEF AInv, BInv, Tables
<1>3. ApplicationsHold'
  <2>1. \A t \in Debts : Exempt(t) \/ AppliedByOthers(t, NoDoc) <= Room(t)
        BY HeldIs DEF AInv
  <2>2. (\A t \in Debts : Exempt(t) \/ AppliedByOthers(t, NoDoc) <= Room(t))'
        BY <1>1, <1>2, <2>1
  <2>3. QED
        BY <2>2, HeldNext
<1>4. ASSUME NEW i, NEW place, Checked(i, place), i.doc \in Docs \/ place \notin {"plan", "commit"}
      PROVE  Checked(i, place)'
  <2>1. CASE place \in {"plan", "commit"} /\ i.seen = Counts
    <3>1. Fits(i.doc, i.new) /\ i.doc \in Docs
          BY <1>4, <2>1 DEF Checked
    <3>2. Fits(i.doc, i.new)'
          BY <1>1, <1>2, <3>1 DEF Fits, Adds, RoomLeft
    <3>3. QED
          BY <3>2 DEF Checked
  <2>2. CASE ~(place \in {"plan", "commit"} /\ i.seen = Counts)
        BY <1>1, <2>2 DEF Checked
  <2>3. QED
        BY <2>1, <2>2
<1>5. ASSUME NEW q \in Procs PROVE Checked(job[q], pc[q])'
  <2>1. PICK i, place : i = job'[q] /\ place = pc'[q]
        OBVIOUS
  <2>2. (i = j /\ place = at) \/ (i = job[q] /\ place = pc[q])
        BY <2>1 DEF Begin, AInv, BInv, Tables
  <2>3. Checked(i, place)
        BY <2>2 DEF AInv
  <2>4. i.doc \in Docs \/ place \notin {"plan", "commit"}
    <3>1. Ready(job[q], pc[q])'
          BY DEF BInv
    <3>2. QED
          BY <2>1, <3>1 DEF Ready
  <2>5. Checked(i, place)'
        BY <1>4, <2>3, <2>4
  <2>6. QED
        BY <2>1, <2>5 DEF Checked
<1>6. QED
      BY <1>3, <1>5 DEF AInv

\* A step that saves one overtakes every revision under way.
LEMMA SavedA ==
    ASSUME AInv, BInv', NEW d \in Docs, NEW v, Dated(v),
           versions' = [versions EXCEPT ![d] = Append(@, v)], BlameKept,
           NEW p \in Procs, NEW at, NEW j, Begin(p, at, j), at \notin {"plan", "commit"},
           \A t \in Debts :
               ~Exempt(t)' => AppliedByOthers(t, d) + Adds(d, v, t) <= RoomLeft(d, v, t)
    PROVE  AInv'
<1>1. BInv
      BY DEF AInv
<1>2. ApplicationsHold'
  <2>1. (\A t \in Debts : Exempt(t) \/ AppliedByOthers(t, NoDoc) <= Room(t))'
        BY <1>1, SavedSums
  <2>2. QED
        BY <2>1, HeldNext
<1>3. PICK n : n = Len(versions[d]) + 1
      OBVIOUS
<1>4. Len(versions'[d]) = n
      BY <1>1, <1>3, Saves
<1>5. ASSUME NEW q \in Procs PROVE Checked(job[q], pc[q])'
  <2>1. CASE q = p
        BY <2>1 DEF Begin, Checked, BInv, Tables
  <2>2. CASE q # p
    <3>1. pc'[q] = pc[q] /\ job'[q] = job[q]
          BY <2>2 DEF Begin, AInv, BInv, Tables
    <3>2. CASE pc[q] \in {"plan", "commit"}
      <4>1. CountedBefore(job[q].seen)
            BY <1>1, <3>2 DEF BInv, Ready
      <4>2. job[q].seen[d] \in Nat /\ job[q].seen[d] < n
            BY <1>1, <1>3, <4>1, SeqFacts DEF CountedBefore, BInv, Tables
      <4>3. Counts'[d] = n
            BY <1>4 DEF Counts
      <4>4. job[q].seen # Counts'
            BY <4>2, <4>3
      <4>5. QED
            BY <3>1, <4>4 DEF Checked
    <3>3. CASE pc[q] \notin {"plan", "commit"}
          BY <3>1, <3>3 DEF Checked
    <3>4. QED
          BY <3>2, <3>3
  <2>3. QED
        BY <2>1, <2>2
<1>6. QED
      BY <1>2, <1>5 DEF AInv

LEMMA CreateSaveA == ASSUME AInv, BInv', NEW p \in Procs, CreateSave(p) PROVE AInv'
<1>1. PICK d, v, at, j : /\ d = job[p].doc /\ v = job[p].new /\ Begin(p, at, j)
                         /\ at \in {"idle", "gate"}
      BY DEF CreateSave, Return
<1>2. d \in Docs /\ Dated(v) /\ versions' = [versions EXCEPT ![d] = Append(@, v)] /\ BInv
      BY <1>1 DEF CreateSave, AInv, BInv, Ready
<1>3. \E X : /\ blame' = [blame EXCEPT ![d] = @ \cup X]
             /\ Unchecked(d, v) \/ Saved(d) => "unchecked" \in X
  <2> DEFINE cited == IF job[p].tool = "create" THEN job[p].next ELSE Len(versions[d]) + 1
             X == (IF Unchecked(d, v) \/ Saved(d) THEN {"unchecked"} ELSE {})
                  \cup (IF LiveEntries(d) # {} THEN {"stacked"} ELSE {})
                  \cup (IF cited # Len(versions[d]) + 1 THEN {"misnumbered"} ELSE {})
  <2>1. blame' = [blame EXCEPT ![d] = @ \cup X]
        BY <1>1 DEF CreateSave
  <2>2. Unchecked(d, v) \/ Saved(d) => "unchecked" \in X
        OBVIOUS
  <2>3. QED
        BY <2>1, <2>2
<1>4. /\ BlameKept
      /\ Unchecked(d, v) \/ Saved(d) => "unchecked" \in blame'[d]
      BY <1>2, <1>3 DEF BInv, Tables, BlameKept
<1>5. PICK n : n = Len(versions[d]) + 1
      OBVIOUS
<1>6. n \in DOMAIN versions'[d] /\ versions'[d][n] = v
  <2>1. n \in Nat \ {0} /\ DOMAIN versions'[d] = 1 .. n /\ versions'[d][n] = v
        BY <1>2, <1>5, Saves
  <2>2. QED
        BY <2>1
<1>7. ASSUME NEW t \in Debts, ~Exempt(t)'
      PROVE  AppliedByOthers(t, d) + Adds(d, v, t) <= RoomLeft(d, v, t)
  <2>1. \A c \in Docs : Grows(versions[c], versions'[c])
        BY <1>2, <1>5, Saves
  <2>2. ~Exempt(t)
        BY <1>2, <1>4, <1>7, <2>1, ExemptOn
  <2>3. AppliedByOthers(t, NoDoc) <= Room(t)
        BY <2>2, HeldIs DEF AInv
  <2>4. /\ AppliedByOthers(t, d) \in Nat /\ AppliedByOthers(t, NoDoc) \in Nat
        /\ AppliedByOthers(t, d) <= AppliedByOthers(t, NoDoc) /\ Room(t) \in Int
        /\ v.apps[t] \in Nat /\ v.total \in Int
    <3>1. v.apps[t] \in Nat /\ v.total \in Int
          BY <1>2 DEF Dated
    <3>2. CASE d \in Openers
          BY <1>2, <3>1, <3>2, AllApplied, RoomTyped
    <3>3. CASE d \notin Openers
          BY <1>2, <3>1, <3>3, AllApplied, RoomTyped
    <3>4. QED
          BY <3>2, <3>3
  <2>5. CASE Unchecked(d, v) \/ Saved(d)
    <3>1. t # d
          BY <1>4, <1>7, <2>5 DEF Exempt
    <3>2. Adds(d, v, t) = 0
      <4>1. CASE d \in Openers /\ v.apps[t] > 0
        <5>1. v \in Range(versions'[d])
              BY <1>6 DEF Range
        <5>2. UncheckedUse(t)'
              BY <1>4, <2>5, <4>1, <5>1 DEF UncheckedUse, Openers
        <5>3. QED
              BY <1>7, <5>2 DEF Exempt
      <4>2. CASE ~(d \in Openers /\ v.apps[t] > 0)
            BY <2>4, <4>2 DEF Adds
      <4>3. QED
            BY <4>1, <4>2
    <3>3. QED
          BY <2>3, <2>4, <3>1, <3>2 DEF RoomLeft
  <2>6. CASE ~Unchecked(d, v) /\ ~Saved(d)
    <3>1. v.apps[t] > 0 => AppliedByOthers(t, d) + v.apps[t] <= Room(t)
      <4>1. PICK m : m = AppliedByOthers(t, d) + v.apps[t]
            OBVIOUS
      <4>2. m \in Int
            BY <2>4, <4>1
      <4>3. v.apps[t] > 0 => Standing(t) /\ ~(m > Latest(t).total)
            BY <2>6, <4>1 DEF Unchecked
      <4>4. Standing(t) => Room(t) = Latest(t).total
            BY DEF Room
      <4>5. QED
            BY <2>4, <4>1, <4>2, <4>3, <4>4
    <3>2. AppliedByOthers(t, d) + Adds(d, v, t) <= Room(t)
      <4>1. CASE v.apps[t] > 0
            BY <2>3, <2>4, <3>1, <4>1 DEF Adds
      <4>2. CASE ~(v.apps[t] > 0)
        <5>1. Adds(d, v, t) = 0
              BY <2>4, <4>2 DEF Adds
        <5>2. QED
              BY <2>3, <2>4, <5>1
      <4>3. QED
            BY <4>1, <4>2
    <3>3. CASE t = d
      <4>1. Room(t) = 0 /\ d \notin Openers
            BY <2>6, <3>3, OpenersAre DEF Room, Standing
      <4>2. 0 <= (IF v.voided THEN 0 ELSE v.total)
        <5>1. v.total \in Nat
              BY <1>2 DEF Dated
        <5>2. QED
              BY <5>1
      <4>3. Adds(d, v, t) = 0 /\ AppliedByOthers(t, d) <= 0
            BY <2>3, <2>4, <4>1 DEF Adds
      <4>4. QED
            BY <2>4, <3>3, <4>2, <4>3 DEF RoomLeft
    <3>4. CASE t # d
          BY <3>2, <3>4 DEF RoomLeft
    <3>5. QED
          BY <3>3, <3>4
  <2>7. QED
        BY <2>5, <2>6
<1>8. QED
      BY <1>1, <1>2, <1>4, <1>7, SavedA

LEMMA CommitA == ASSUME AInv, BInv', NEW p \in Procs, Commit(p) PROVE AInv'
<1>1. PICK j, d, v : j = job[p] /\ d = j.doc /\ v = j.new
      OBVIOUS
<1>2. /\ d \in Docs /\ Dated(v) /\ versions' = [versions EXCEPT ![d] = Append(@, v)] /\ BInv
      /\ blame' = CommitBlame(j) /\ Begin(p, "idle", NoJob) /\ pc[p] = "commit"
      BY <1>1 DEF Commit, Return, AInv, BInv, Ready
<1>3. BlameKept
      BY <1>1, <1>2 DEF CommitBlame, EntryBlame, BlameKept
<1>4. /\ Overtaken(j) => "overtaken" \in blame'[d]
      /\ \A t \in Debts : Overtaken(j) /\ v.apps[t] > 0 => "overtaken" \in blame'[t]
      BY <1>1, <1>2, OpenersAre DEF CommitBlame
<1>5. ASSUME NEW t \in Debts, ~Exempt(t)'
      PROVE  AppliedByOthers(t, d) + Adds(d, v, t) <= RoomLeft(d, v, t)
  <2>1. ~Exempt(t)
    <3>1. PICK n : n = Len(versions[d]) + 1
          OBVIOUS
    <3>2. \A c \in Docs : Grows(versions[c], versions'[c])
          BY <1>2, <3>1, Saves
    <3>3. QED
          BY <1>2, <1>3, <1>5, <3>2, ExemptOn
  <2>2. CASE ~Overtaken(j)
    <3>1. Fits(d, v)
          BY <1>1, <1>2, <2>2 DEF Overtaken, AInv, Checked
    <3>2. QED
          BY <2>1, <3>1 DEF Fits
  <2>3. CASE Overtaken(j)
    <3>1. t # d /\ ~(v.apps[t] > 0)
          BY <1>4, <1>5, <2>3 DEF Exempt
    <3>2. Adds(d, v, t) = 0 /\ RoomLeft(d, v, t) = Room(t)
          BY <1>2, <3>1 DEF Adds, RoomLeft, Dated
    <3>3. AppliedByOthers(t, NoDoc) <= Room(t)
          BY <2>1, HeldIs DEF AInv
    <3>4. CASE d \in Openers
          BY <1>2, <3>2, <3>3, <3>4, AllApplied, RoomTyped
    <3>5. CASE d \notin Openers
          BY <1>2, <3>2, <3>3, <3>5, AllApplied, RoomTyped
    <3>6. QED
          BY <3>4, <3>5
  <2>4. QED
        BY <2>2, <2>3
<1>6. QED
      BY <1>2, <1>3, <1>5, SavedA

\* A revision that was checked fits what it was checked against.
LEMMA CheckA ==
    ASSUME AInv, BInv', NEW p \in Procs, UpdateCheck(p) \/ VoidCheck(p) \/ ApplyCheck(p)
    PROVE  AInv'
<1>1. PICK d, v, r : Begin(p, "plan", Revising(d, v, r)) /\ Fits(d, v)
  <2>1. CASE UpdateCheck(p)
        BY <2>1, UpdateFits DEF UpdateCheck
  <2>2. CASE VoidCheck(p)
    <3>1. PICK d \in Docs :
              /\ Standing(d) /\ (d \in Payments \/ AppliedByOthers(d, d) = 0)
              /\ Begin(p, "plan", Revising(d, [Latest(d) EXCEPT !.voided = TRUE], "void"))
          BY <2>2 DEF VoidCheck
    <3>2. [Latest(d) EXCEPT !.voided = TRUE].voided
          BY <3>1, LatestDated DEF Standing, Dated, AInv
    <3>3. QED
          BY <3>1, <3>2, VoidFits
  <2>3. CASE ApplyCheck(p)
    <3>1. PICK c \in Credits, t \in Debts, n \in 1 .. scope.amount :
              /\ Standing(c) /\ Standing(t) /\ n <= OpenOf(t)
              /\ Begin(p, "plan", Revising(c, [Latest(c) EXCEPT !.apps[t] = @ + n], "keep"))
          BY <2>3 DEF ApplyCheck
    <3>2. n \in Nat
          BY ScopesAssumption DEF AInv, BInv, Tables
    <3>3. QED
          BY <3>1, <3>2, ApplyFits
  <2>4. QED
        BY <2>1, <2>2, <2>3
<1>2. PICK j : j = Revising(d, v, r)
      OBVIOUS
<1>3. Checked(j, "plan") /\ Begin(p, "plan", j)
      BY <1>1, <1>2 DEF Checked, Revising
<1>4. UNCHANGED versions /\ BlameKept
      BY DEF UpdateCheck, VoidCheck, ApplyCheck, booksVars, BlameKept
<1>5. QED
      BY <1>3, <1>4, SteadyA

LEMMA OtherA ==
    ASSUME AInv, BInv', NEW p \in Procs,
           \/ CreateBegin(p) \/ Gate(p) \/ Refused(p) \/ Insert(p) \/ ReverseBegin(p)
           \/ PlanRevision(p) \/ PlanRefused(p) \/ RollBack(p) \/ CloseSnapshot(p)
           \/ ClosePeriod(p) \/ ReopenPeriod(p) \/ Crash(p)
    PROVE  AInv'
<1>1. UNCHANGED versions
      BY DEF CreateBegin, Gate, Refused, Insert, ReverseBegin, PlanRevision, PlanRefused, RollBack,
             CloseSnapshot, ClosePeriod, ReopenPeriod, Crash, booksVars
<1>2. BlameKept
  <2>1. CASE UNCHANGED blame
        BY <2>1 DEF BlameKept
  <2>2. CASE \E d, X : blame' = [blame EXCEPT ![d] = @ \cup X]
        BY <2>2 DEF BlameKept, AInv, BInv, Tables
  <2>3. CASE Refused(p)
    <3>1. blame' = [blame EXCEPT ![job[p].doc] =
                       @ \cup (IF job[p].tool \in Creating THEN {"half"} ELSE {})]
          BY <2>3 DEF Refused
    <3>2. QED
          BY <2>2, <3>1
  <2>4. CASE Insert(p)
        BY <2>2, <2>4 DEF Insert
  <2>5. CASE Crash(p)
        BY <2>1, <2>2, <2>5 DEF Crash
  <2>6. QED
        BY <2>1, <2>3, <2>4, <2>5 DEF CreateBegin, Gate, ReverseBegin, PlanRevision, PlanRefused,
           RollBack, CloseSnapshot, ClosePeriod, ReopenPeriod
<1>3. \E at, j : Begin(p, at, j) /\ Checked(j, at)
  <2>1. CASE PlanRevision(p)
    <3>1. PICK j : /\ Begin(p, "commit", j)
                   /\ j = [tool |-> "revise", doc |-> job[p].doc, old |-> job[p].old,
                           new |-> job[p].new, reposting |-> job[p].reposting,
                           seen |-> job[p].seen, live |-> LiveEntries(job[p].doc)]
          BY <2>1 DEF PlanRevision
    <3>2. Checked(job[p], "plan")
          BY <2>1 DEF PlanRevision, AInv
    <3>3. Checked(j, "commit")
          BY <3>1, <3>2 DEF Checked
    <3>4. QED
          BY <3>1, <3>3
  <2>2. CASE ReopenPeriod(p)
    <3>1. PICK at, j : at = pc[p] /\ j = job[p]
          OBVIOUS
    <3>2. Begin(p, at, j)
          BY <2>2, <3>1 DEF ReopenPeriod, Begin, AInv, BInv, Tables
    <3>3. QED
          BY <3>1, <3>2 DEF AInv
  <2>3. CASE ~PlanRevision(p) /\ ~ReopenPeriod(p)
    <3>1. \E at, j : Begin(p, at, j) /\ at \in {"idle", "save", "gate", "insert", "close"}
          BY <2>3 DEF CreateBegin, Gate, Refused, Insert, ReverseBegin, PlanRefused, RollBack,
             CloseSnapshot, ClosePeriod, Crash, Return
    <3>2. QED
          BY <3>1 DEF Checked
  <2>4. QED
        BY <2>1, <2>2, <2>3
<1>4. QED
      BY <1>1, <1>2, <1>3, SteadyA

LEMMA InitAInv == Init => AInv
<1> SUFFICES ASSUME Init PROVE AInv
    OBVIOUS
<1>1. BInv
      BY InitBInv
<1>2. Settling = {}
      BY OpenersAre DEF Init, Settling, Standing, Saved, Openers
<1>3. ASSUME NEW t \in Debts PROVE AppliedByOthers(t, NoDoc) <= Room(t)
  <2>1. AppliedByOthers(t, NoDoc) = 0
    <3> DEFINE f == [d \in Settling \ {NoDoc} |-> Latest(d).apps[t]]
    <3>1. DOMAIN f = {} /\ AppliedByOthers(t, NoDoc) = SumFunctionOnSet(f, DOMAIN f)
          BY <1>2 DEF AppliedByOthers, SumFunction
    <3> HIDE DEF f
    <3>2. QED
          BY <3>1, SumEmpty
  <2>2. Room(t) = 0
        BY OpenersAre DEF Init, Room, Standing, Saved
  <2>3. QED
        BY <2>1, <2>2
<1>4. \A p \in Procs : Checked(job[p], pc[p])
      BY DEF Init, Checked
<1>5. QED
      BY <1>1, <1>3, <1>4, HeldIs DEF AInv

LEMMA NextAInv == AInv /\ [Next]_vars => AInv'
<1> SUFFICES ASSUME AInv, [Next]_vars PROVE AInv'
    OBVIOUS
<1>1. BInv'
      BY NextBInv DEF AInv
<1>2. CASE UNCHANGED vars
  <2>1. UNCHANGED <<versions, blame, pc, job>>
        BY <1>2 DEF vars, booksVars
  <2>2. CASE Procs = {}
    <3>1. ApplicationsHold'
          BY <2>1 DEF AInv, ApplicationsHold, UncheckedUse, AppliedByOthers, Settling, Standing,
             Saved, Latest
    <3>2. QED
          BY <1>1, <2>2, <3>1 DEF AInv
  <2>3. CASE Procs # {}
    <3>1. PICK p \in Procs : TRUE
          BY <2>3
    <3>2. PICK at, j : at = pc[p] /\ j = job[p]
          OBVIOUS
    <3>3. Begin(p, at, j) /\ Checked(j, at) /\ BlameKept
          BY <2>1, <3>2 DEF Begin, AInv, BInv, Tables, BlameKept
    <3>4. QED
          BY <1>1, <2>1, <3>3, SteadyA
  <2>4. QED
        BY <2>2, <2>3
<1>3. CASE Next
      BY <1>1, <1>3, CreateSaveA, CommitA, CheckA, OtherA DEF Next
<1>4. QED
      BY <1>2, <1>3

\* No debt is applied against beyond what it is worth, and none that was
\* voided, whatever is created, edited, voided and applied by any number of
\* processes, unless a document was created unchecked or a check was overtaken.
THEOREM ApplicationsHoldHolds == Spec => []ApplicationsHold
<1>1. AInv => ApplicationsHold
      BY DEF AInv
<1>2. QED
      BY <1>1, InitAInv, NextAInv, PTL DEF Spec


-----------------------------------------------------------------------------
(* Aging: open items and the control account, both as sums over documents. *)

Amounts == [i \in DOMAIN journal |-> journal[i].amount]

LEMMA JournalTyped ==
    ASSUME BInv
    PROVE  /\ IsFiniteSet(DOMAIN journal)
           /\ \A i \in DOMAIN journal : /\ Amounts[i] \in Int /\ Amounts[i] = journal[i].amount
                                        /\ journal[i].doc \in Docs
                                        /\ journal[i].date <= scope.dates
<1>1. DOMAIN journal = 1 .. Len(journal) /\ Len(journal) \in Nat
      BY SeqFacts DEF BInv, Tables
<1>2. ASSUME NEW i \in DOMAIN journal PROVE journal[i].date <= scope.dates
  <2>1. journal[i].date \in 1 .. scope.dates /\ scope.dates \in Nat
        BY DatesTyped DEF BInv, Traced, Dates
  <2>2. QED
        BY <2>1
<1>3. QED
      BY <1>1, <1>2, FS_Interval DEF Amounts, BInv, Traced

LEMMA NetIs ==
    ASSUME BInv, NEW d
    PROVE  /\ Net(d) = SumFunctionOnSet(Amounts, EntriesOf(d)) /\ Net(d) \in Int
           /\ IsFiniteSet(EntriesOf(d)) /\ EntriesOf(d) \subseteq DOMAIN journal
<1> DEFINE f == [i \in EntriesOf(d) |-> journal[i].amount]
<1>1. IsFiniteSet(EntriesOf(d)) /\ EntriesOf(d) \subseteq DOMAIN journal
      BY JournalTyped, FS_Subset DEF EntriesOf
<1>2. Net(d) = SumFunctionOnSet(f, EntriesOf(d))
      BY DEF Net, SumFunction
<1>3. \A i \in EntriesOf(d) : f[i] = Amounts[i] /\ f[i] \in Int
      BY <1>1, JournalTyped
<1> HIDE DEF f
<1>4. SumFunctionOnSet(f, EntriesOf(d)) = SumFunctionOnSet(Amounts, EntriesOf(d))
      BY <1>1, <1>3, SumSame
<1>5. SumFunctionOnSet(f, EntriesOf(d)) \in Int
      BY <1>1, <1>3, SumIsInt
<1>6. QED
      BY <1>1, <1>2, <1>4, <1>5

\* The control account is what the entries of each document make of it.
LEMMA ControlByDocument ==
    ASSUME BInv
    PROVE  ControlBalance(scope.dates) = SumFunctionOnSet([d \in Docs |-> Net(d)], Docs)
<1> DEFINE S == DOMAIN journal
           T == {k \in DOMAIN journal : journal[k].date <= scope.dates}
           f == [i \in T |-> journal[i].amount]
           key == [i \in S |-> journal[i].doc]
           h == [d \in Docs |-> Net(d)]
<1>1. T = S
      BY JournalTyped
<1>2. ControlBalance(scope.dates) = SumFunctionOnSet(f, T)
      BY DEF ControlBalance, SumFunction
<1>3. \A i \in S : f[i] = Amounts[i]
      BY <1>1, JournalTyped
<1>4. /\ IsFiniteSet(S) /\ IsFiniteSet(Docs) /\ \A i \in S : Amounts[i] \in Int /\ key[i] \in Docs
      BY JournalTyped, DocsFinite
<1>5. ASSUME NEW d \in Docs PROVE h[d] = SumFunctionOnSet(Amounts, OfKey(S, key, d))
  <2>1. OfKey(S, key, d) = EntriesOf(d)
        BY DEF EntriesOf, OfKey
  <2>2. QED
        BY <2>1, NetIs
<1>6. SumFunctionOnSet(f, S) = SumFunctionOnSet(Amounts, S)
  <2> HIDE DEF f, S
  <2>1. QED
        BY <1>3, <1>4, SumSame
<1>7. SumFunctionOnSet(Amounts, S) = SumFunctionOnSet(h, Docs)
  <2> HIDE DEF h, S, key
  <2>1. QED
        BY <1>4, <1>5, SumByKey
<1>8. QED
      BY <1>1, <1>2, <1>6, <1>7

LEMMA StatedTyped ==
    ASSUME BInv, NEW d \in Docs
    PROVE  Stated(d) \in Int /\ (~Standing(d) => Stated(d) = 0)
<1>1. CASE ~Saved(d)
      BY <1>1 DEF Stated
<1>2. CASE Saved(d)
  <2>1. Dated(Latest(d))
        BY <1>2, LatestDated
  <2>2. QED
        BY <1>2, <2>1, EffectInt DEF Stated, Standing, Effect
<1>3. QED
      BY <1>1, <1>2

\* What a document has applied to all debts, and what is applied to a debt.
Out(d) == IF Standing(d) THEN Applied(Latest(d)) ELSE 0
In(t)  == AppliedByOthers(t, NoDoc)

LEMMA OutIs ==
    ASSUME BInv, NEW d \in Openers
    PROVE  /\ Out(d) = SumFunctionOnSet([t \in Debts |-> Use(t)[d]], Debts)
           /\ Out(d) \in Int
<1> DEFINE f == [t \in Debts |-> Use(t)[d]]
<1>1. IsFiniteSet(Debts) /\ \A t \in Debts : f[t] \in Int
      BY DocsFinite, UseTyped
<1>2. CASE Standing(d)
  <2>1. DOMAIN Latest(d).apps = Debts
        BY <1>2, LatestDated, OpenersAre DEF Standing, Dated
  <2>2. \A t \in Debts : Latest(d).apps[t] = f[t]
        BY <1>2, UseTyped
  <2>3. Out(d) = SumFunctionOnSet(Latest(d).apps, Debts)
        BY <1>2, <2>1 DEF Out, Applied, SumFunction
  <2> HIDE DEF f
  <2>4. SumFunctionOnSet(Latest(d).apps, Debts) = SumFunctionOnSet(f, Debts)
        BY <1>1, <2>2, SumSame
  <2>5. SumFunctionOnSet(f, Debts) \in Int
        BY <1>1, SumIsInt
  <2>6. QED
        BY <2>3, <2>4, <2>5 DEF f
<1>3. CASE ~Standing(d)
  <2>1. \A t \in Debts : f[t] = 0
        BY <1>3, UseTyped
  <2> HIDE DEF f
  <2>2. SumFunctionOnSet(f, Debts) = 0
        BY <1>1, <2>1, SumZero
  <2>3. QED
        BY <1>3, <2>2 DEF Out, f
<1>4. QED
      BY <1>2, <1>3

\* What is applied from one side is applied to the other.
LEMMA OutIsIn ==
    ASSUME BInv
    PROVE  SumFunctionOnSet([d \in Openers |-> Out(d)], Openers)
             = SumFunctionOnSet([t \in Debts |-> In(t)], Debts)
<1> DEFINE F == [d \in Openers |-> [t \in Debts |-> Use(t)[d]]]
           h == [d \in Openers |-> Out(d)]
           k == [t \in Debts |-> In(t)]
<1>1. IsFiniteSet(Openers) /\ IsFiniteSet(Debts)
      BY OpenersAre, DocsFinite
<1>2. \A d \in Openers, t \in Debts : F[d][t] \in Int
      BY UseTyped
<1>3. \A d \in Openers : h[d] = SumFunctionOnSet(F[d], Debts)
      BY OutIs
<1>4. ASSUME NEW t \in Debts PROVE k[t] = SumFunctionOnSet(Column(Openers, F, t), Openers)
  <2>1. Column(Openers, F, t) = Use(t)
        BY UseTyped DEF Column
  <2>2. QED
        BY <2>1, AllApplied DEF In
<1> HIDE DEF F, h, k
<1>5. SumFunctionOnSet(h, Openers) = SumFunctionOnSet(k, Debts)
      BY <1>1, <1>2, <1>3, <1>4, SumSwap
<1>6. QED
      BY <1>5 DEF h, k

\* An open item is what the document did to the account, but for applications.
LEMMA ItemOfOpener ==
    ASSUME BInv, NEW d \in Openers
    PROVE  OpenItem(d, scope.dates) = Stated(d) + Out(d)
<1>1. d \in Docs /\ d \notin Debts /\ (d \in Credits \/ d \in Payments)
      BY OpenersAre DEF Openers
<1>2. CASE ~Standing(d)
  <2>1. Stated(d) = 0
        BY <1>1, <1>2, StatedTyped
  <2>2. QED
        BY <1>2, <2>1 DEF OpenItem, InWindow, Out
<1>3. CASE Standing(d)
  <2>1. Dated(Latest(d)) /\ Latest(d).voided = FALSE
        BY <1>1, <1>3, LatestDated DEF Standing, Dated
  <2>2. InWindow(d, scope.dates)
    <3>1. Latest(d).date \in 1 .. scope.dates /\ scope.dates \in Nat
          BY <2>1, DatesTyped DEF Dated, Dates
    <3>2. QED
          BY <1>3, <3>1 DEF InWindow
  <2>3. Applied(Latest(d)) \in Int /\ Latest(d).total \in Int /\ Out(d) = Applied(Latest(d))
        BY <1>3, <2>1, EffectInt DEF Out, Dated
  <2>4. Stated(d) = Effect(d, Latest(d))
        BY <1>3 DEF Stated, Standing
  <2>5. CASE d \in Credits
    <3>1. Effect(d, Latest(d)) = -Latest(d).total
          BY <1>1, <2>1, <2>5 DEF Effect, Worth
    <3>2. OpenItem(d, scope.dates) = -(Latest(d).total - Applied(Latest(d)))
          BY <1>1, <2>2, <2>5 DEF OpenItem
    <3>3. QED
          BY <2>3, <2>4, <3>1, <3>2
  <2>6. CASE d \notin Credits /\ scope.book = "Payable"
    <3>1. Effect(d, Latest(d)) = -Latest(d).total
          BY <1>1, <2>1, <2>6 DEF Effect, Worth
    <3>2. NotYetApplied(d, scope.dates) = Latest(d).total - Applied(Latest(d))
      <4> DEFINE L == {b \in Debts : Saved(b) /\ Latest(b).date > scope.dates}
                 g == [t \in L |-> Latest(d).apps[t]]
      <4>1. L = {}
        <5>1. ASSUME NEW b \in Debts, Saved(b) PROVE ~(Latest(b).date > scope.dates)
          <6>1. Latest(b).date \in 1 .. scope.dates /\ scope.dates \in Nat
                BY <5>1, LatestDated, OpenersAre, DatesTyped DEF Dated, Dates
          <6>2. QED
                BY <6>1
        <5>2. QED
              BY <5>1
      <4>2. NotYetApplied(d, scope.dates)
              = Latest(d).total - Applied(Latest(d)) + SumFunctionOnSet(g, L)
            BY DEF NotYetApplied, SumFunction
      <4> HIDE DEF g, L
      <4>3. SumFunctionOnSet(g, L) = 0
            BY <4>1, SumEmpty
      <4>4. QED
            BY <2>3, <4>2, <4>3
    <3>3. OpenItem(d, scope.dates) = -NotYetApplied(d, scope.dates)
          BY <1>1, <2>2, <2>6 DEF OpenItem
    <3>4. QED
          BY <2>3, <2>4, <3>1, <3>2, <3>3
  <2>7. CASE d \notin Credits /\ scope.book # "Payable"
    <3>1. Effect(d, Latest(d)) = -Applied(Latest(d))
          BY <1>1, <2>1, <2>7 DEF Effect, Worth
    <3>2. OpenItem(d, scope.dates) = 0
          BY <1>1, <2>2, <2>7 DEF OpenItem
    <3>3. QED
          BY <2>3, <2>4, <3>1, <3>2
  <2>8. QED
        BY <2>5, <2>6, <2>7
<1>4. QED
      BY <1>2, <1>3

LEMMA ItemOfDebt ==
    ASSUME BInv, NEW t \in Debts,
           \A d \in Settling, s \in Debts : Latest(d).apps[s] > 0 => Standing(s)
    PROVE  OpenItem(t, scope.dates) = Stated(t) - In(t) /\ In(t) \in Int
<1>1. t \in Docs /\ In(t) \in Nat
      BY OpenersAre, AllApplied DEF In
<1>2. CASE Standing(t)
  <2>1. Latest(t).voided = FALSE
        BY <1>1, <1>2, LatestDated DEF Standing, Dated
  <2>2. Stated(t) = Latest(t).total
        BY <1>2, <2>1 DEF Stated, Standing, Effect, Worth
  <2>3. QED
        BY <1>1, <1>2, <2>2, OpenIs DEF In
<1>3. CASE ~Standing(t)
  <2>1. \A d \in Openers : Use(t)[d] = 0
    <3>1. ASSUME NEW d \in Openers, Standing(d) PROVE Latest(d).apps[t] = 0
      <4>1. Latest(d).apps[t] \in Nat /\ d \in Settling
            BY <3>1, LatestDated, OpenersAre DEF Standing, Dated, Settling, Openers
      <4>2. ~(Latest(d).apps[t] > 0)
            BY <1>3, <4>1
      <4>3. QED
            BY <4>1, <4>2
    <3>2. QED
          BY <3>1, UseTyped
  <2>2. In(t) = 0
        BY <2>1, AllApplied, OpenersAre, SumZero DEF In
  <2>3. Stated(t) = 0 /\ OpenItem(t, scope.dates) = 0
        BY <1>1, <1>3, StatedTyped DEF OpenItem, InWindow
  <2>4. QED
        BY <2>2, <2>3
<1>4. QED
      BY <1>2, <1>3

LEMMA AgingTiesHere == BInv => AgingTies
<1> SUFFICES ASSUME BInv, \A d \in Docs : Net(d) = Stated(d),
                    \A d \in Settling, t \in Debts : Latest(d).apps[t] > 0 => Standing(t)
             PROVE  AgingTotal(scope.dates) = ControlBalance(scope.dates)
    BY DEF AgingTies
<1> DEFINE item == [d \in Docs |-> OpenItem(d, scope.dates)]
           net  == [d \in Docs |-> Net(d)]
           diff == [d \in Docs |-> IF d \in Debts THEN -In(d) ELSE Out(d)]
           out  == [d \in Openers |-> Out(d)]
           in   == [t \in Debts |-> In(t)]
<1>1. /\ IsFiniteSet(Docs) /\ IsFiniteSet(Debts) /\ IsFiniteSet(Openers)
      /\ Docs = Debts \cup Openers /\ Debts \cap Openers = {}
      BY DocsFinite, OpenersAre
<1>2. \A d \in Openers : Out(d) \in Int
      BY OutIs
<1>3. \A t \in Debts : In(t) \in Int
      BY ItemOfDebt
<1>4. ASSUME NEW d \in Docs
      PROVE  item[d] = net[d] + diff[d] /\ net[d] \in Int /\ diff[d] \in Int
  <2>1. Stated(d) \in Int /\ net[d] = Stated(d)
        BY StatedTyped
  <2>2. CASE d \in Debts
        BY <1>3, <2>1, <2>2, ItemOfDebt
  <2>3. CASE d \notin Debts
    <3>1. d \in Openers
          BY <1>1, <2>3
    <3>2. QED
          BY <1>2, <2>1, <2>3, <3>1, ItemOfOpener
  <2>4. QED
        BY <2>2, <2>3
<1>5. \A d \in Openers : diff[d] = out[d] /\ diff[d] \in Int
      BY <1>1, <1>2
<1>6. PICK c \in Int : c = -1
      OBVIOUS
<1>7. \A t \in Debts : diff[t] = c * in[t] /\ in[t] \in Int /\ diff[t] \in Int
      BY <1>1, <1>3, <1>6
<1>8. SumFunctionOnSet(out, Openers) = SumFunctionOnSet(in, Debts)
      BY OutIsIn
<1>9. AgingTotal(scope.dates) = SumFunctionOnSet(item, Docs)
      BY DEF AgingTotal, SumFunction
<1>10. ControlBalance(scope.dates) = SumFunctionOnSet(net, Docs)
      BY ControlByDocument
<1> HIDE DEF item, net, diff, out, in
<1>11. SumFunctionOnSet(item, Docs) = SumFunctionOnSet(net, Docs) + SumFunctionOnSet(diff, Docs)
       BY <1>1, <1>4, SumPlus
<1>12. SumFunctionOnSet(diff, Docs) = 0
  <2>1. SumFunctionOnSet(diff, Docs)
          = SumFunctionOnSet(diff, Debts) + SumFunctionOnSet(diff, Openers)
        BY <1>1, <1>5, <1>7, SumUnion
  <2>2. SumFunctionOnSet(diff, Openers) = SumFunctionOnSet(out, Openers)
        BY <1>1, <1>5, SumSame
  <2>3. SumFunctionOnSet(diff, Debts) = c * SumFunctionOnSet(in, Debts)
        BY <1>1, <1>7, SumScale
  <2>4. SumFunctionOnSet(in, Debts) \in Int
        BY <1>1, <1>7, SumIsInt
  <2>5. QED
        BY <1>6, <1>8, <2>1, <2>2, <2>3, <2>4
<1>13. SumFunctionOnSet(net, Docs) \in Int
       BY <1>1, <1>4, SumIsInt
<1>14. QED
       BY <1>9, <1>10, <1>11, <1>12, <1>13

\* Once every document agrees with its entries and nothing is applied against
\* a debt that does not stand, the open items make up the control account: for
\* every set of documents, either book, and any applications.
THEOREM AgingTiesHolds == Spec => []AgingTies
BY AgingTiesHere, InitBInv, NextBInv, PTL DEF Spec


-----------------------------------------------------------------------------
(* What the entries of a document add up to. *)

\* No entry of d is reversed twice, and no reversal is reversed.
Paired(d) ==
    /\ \A i, k \in EntriesOf(d) :
          journal[i].reverses = journal[k].reverses /\ journal[i].reverses # 0 => i = k
    /\ \A i \in EntriesOf(d) :
          journal[i].reverses # 0 => journal[journal[i].reverses].reverses = 0

\* A reversal is the opposite of an entry of the same document.
LEMMA ReversalFacts ==
    ASSUME BInv, NEW i \in DOMAIN journal
    PROVE  /\ i # 0 /\ journal[i].doc \in Docs
           /\ journal[i].reverses # 0 =>
                /\ journal[i].reverses \in DOMAIN journal
                /\ journal[journal[i].reverses].doc = journal[i].doc
                /\ journal[i].amount = -journal[journal[i].reverses].amount
<1>1. Traced(journal[i])
      BY DEF BInv
<1>2. i # 0
      BY SeqFacts DEF BInv, Tables
<1>3. QED
      BY <1>1, <1>2 DEF Traced, Undo, Original

LEMMA SumOfOne ==
    ASSUME NEW f, NEW x, f[x] \in Int
    PROVE  SumFunctionOnSet(f, {x}) = f[x]
<1>1. SumFunctionOnSet(f, {} \cup {x}) = f[x] + SumFunctionOnSet(f, {})
      BY FS_EmptySet, SumAdd
<1>2. {} \cup {x} = {x}
      OBVIOUS
<1>3. QED
      BY <1>1, <1>2, SumEmpty

\* What was reversed once counts for nothing: the live entries are the rest.
LEMMA NetOfPaired ==
    ASSUME BInv, NEW d \in Docs, Paired(d)
    PROVE  Net(d) = SumFunctionOnSet(Amounts, LiveEntries(d))
<1> DEFINE E == EntriesOf(d)
           N == {i \in E : journal[i].reverses = 0}
           R == {i \in E : journal[i].reverses # 0}
           L == LiveEntries(d)
           key == [i \in R |-> journal[i].reverses]
           h == [k \in N |-> SumFunctionOnSet(Amounts, OfKey(R, key, k))]
           g == [k \in N |-> IF k \in L THEN Amounts[k] ELSE 0]
<1>1. /\ IsFiniteSet(E) /\ E \subseteq DOMAIN journal /\ N \cup R = E /\ N \cap R = {}
      /\ IsFiniteSet(N) /\ IsFiniteSet(R) /\ L \in SUBSET N /\ IsFiniteSet(L)
  <2>1. IsFiniteSet(E) /\ E \subseteq DOMAIN journal
        BY NetIs
  <2>2. N \in SUBSET E /\ R \in SUBSET E /\ N \cup R = E /\ N \cap R = {}
        OBVIOUS
  <2>3. L \in SUBSET N
        BY DEF LiveEntries, EntriesOf
  <2>4. IsFiniteSet(N) /\ IsFiniteSet(R) /\ IsFiniteSet(L)
        BY <2>1, <2>2, <2>3, FS_Subset
  <2>5. QED
        BY <2>1, <2>2, <2>3, <2>4
<1>2. \A i \in E : Amounts[i] \in Int /\ Amounts[i] = journal[i].amount
      BY <1>1, JournalTyped
<1>3. ASSUME NEW i \in R PROVE key[i] \in N /\ Amounts[i] = -Amounts[key[i]]
  <2>1. /\ journal[i].reverses \in DOMAIN journal /\ journal[journal[i].reverses].doc = d
        /\ journal[i].amount = -journal[journal[i].reverses].amount
        BY <1>1, ReversalFacts DEF EntriesOf
  <2>2. journal[journal[i].reverses].reverses = 0
        BY DEF Paired
  <2>3. QED
        BY <1>2, <2>1, <2>2 DEF EntriesOf
<1>4. ASSUME NEW k \in N
      PROVE  h[k] = (IF k \in L THEN 0 ELSE -Amounts[k]) /\ Amounts[k] \in Int
  <2>1. k \in L <=> ~Reversed(k)
        BY DEF LiveEntries, EntriesOf
  <2>2. CASE k \in L
    <3>1. OfKey(R, key, k) = {}
          BY <1>1, <2>1, <2>2 DEF OfKey, Reversed
    <3>2. QED
          BY <1>2, <2>2, <3>1, SumEmpty
  <2>3. CASE k \notin L
    <3>1. PICK j \in DOMAIN journal : journal[j].reverses = k
          BY <2>1, <2>3 DEF Reversed
    <3>2. k \in DOMAIN journal /\ k # 0 /\ journal[k].doc = d
          BY <1>1, ReversalFacts DEF EntriesOf
    <3>3. journal[j].doc = d
          BY <3>1, <3>2, ReversalFacts
    <3>4. j \in R /\ key[j] = k
          BY <3>1, <3>2, <3>3 DEF EntriesOf
    <3>5. ASSUME NEW i \in R, key[i] = k PROVE i = j
      <4>1. journal[i].reverses = journal[j].reverses /\ journal[i].reverses # 0
            BY <3>1, <3>2, <3>5
      <4>2. i \in EntriesOf(d) /\ j \in EntriesOf(d)
            BY <3>4
      <4>3. QED
            BY <4>1, <4>2 DEF Paired
    <3>6. OfKey(R, key, k) = {j}
          BY <3>4, <3>5 DEF OfKey
    <3>7. SumFunctionOnSet(Amounts, {j}) = Amounts[j]
          BY <1>2, <3>4, SumOfOne
    <3>8. QED
          BY <1>2, <1>3, <2>3, <3>4, <3>6, <3>7
  <2>4. QED
        BY <2>2, <2>3
<1>5. ASSUME NEW k \in N
      PROVE  Amounts[k] \in Int /\ h[k] \in Int /\ g[k] = Amounts[k] + h[k] /\ g[k] \in Int
  <2>1. g[k] = IF k \in L THEN Amounts[k] ELSE 0
        OBVIOUS
  <2>2. h[k] = (IF k \in L THEN 0 ELSE -Amounts[k]) /\ Amounts[k] \in Int
        BY <1>4
  <2> HIDE DEF g, h, L, N
  <2>3. QED
        BY <2>1, <2>2
<1>6. \A k \in L : g[k] = Amounts[k]
      BY <1>1
<1>7. \A k \in N \ L : g[k] = 0
      OBVIOUS
<1>8. Net(d) = SumFunctionOnSet(Amounts, E)
      BY NetIs
<1>9. \A k \in N : h[k] = SumFunctionOnSet(Amounts, OfKey(R, key, k))
      OBVIOUS
<1> HIDE DEF E, N, R, L, h, g, key
<1>10. SumFunctionOnSet(Amounts, E)
         = SumFunctionOnSet(Amounts, N) + SumFunctionOnSet(Amounts, R)
  <2>1. \A x \in N \cup R : Amounts[x] \in Int
        BY <1>1, <1>2
  <2>2. QED
        BY <1>1, <2>1, SumUnion
<1>11. SumFunctionOnSet(Amounts, R) = SumFunctionOnSet(h, N)
  <2>1. \A x \in R : Amounts[x] \in Int /\ key[x] \in N
        BY <1>1, <1>2, <1>3
  <2>2. QED
        BY <1>1, <1>9, <2>1, SumByKey
<1>12. SumFunctionOnSet(g, N) = SumFunctionOnSet(Amounts, N) + SumFunctionOnSet(h, N)
       BY <1>1, <1>5, SumPlus
<1>13. SumFunctionOnSet(g, N) = SumFunctionOnSet(g, L)
       BY <1>1, <1>5, <1>7, SumOfPart
<1>14. SumFunctionOnSet(g, L) = SumFunctionOnSet(Amounts, L)
       BY <1>1, <1>6, SumSame
<1>15. QED
       BY <1>8, <1>10, <1>11, <1>12, <1>13, <1>14 DEF L

-----------------------------------------------------------------------------
(* What steps do to the live entries. *)

Added == DOMAIN journal' \ DOMAIN journal

\* Entries that undo only what was there.
Backward == \A x \in Added : journal'[x].reverses = 0 \/ journal'[x].reverses \in DOMAIN journal

LEMMA LiveNext ==
    ASSUME BInv, Grows(journal, journal'), Backward, NEW d
    PROVE  /\ LiveEntries(d)' = {i \in LiveEntries(d) : \A x \in Added : journal'[x].reverses # i}
                                  \cup {x \in Added : journal'[x].doc = d /\ journal'[x].reverses = 0}
           /\ EntriesOf(d)' = EntriesOf(d) \cup {x \in Added : journal'[x].doc = d}
<1>1. /\ DOMAIN journal \subseteq DOMAIN journal'
      /\ \A i \in DOMAIN journal : journal'[i] = journal[i]
      BY Kept DEF BInv, Tables
<1>2. DOMAIN journal' = DOMAIN journal \cup Added
      BY <1>1 DEF Added
<1>3. \A i \in DOMAIN journal' :
         Reversed(i)' <=> Reversed(i) \/ \E x \in Added : journal'[x].reverses = i
      BY <1>1, <1>2 DEF Reversed
<1>4. ASSUME NEW x \in Added PROVE ~Reversed(x)'
  <2>1. x \notin DOMAIN journal /\ x # 0
    <3>1. DOMAIN journal' = 1 .. Len(journal') /\ Len(journal') \in Nat
          BY SeqFacts DEF Grows
    <3>2. QED
          BY <3>1 DEF Added
  <2>2. ~Reversed(x)
        BY <2>1, ReversalFacts DEF Reversed
  <2>3. \A y \in Added : journal'[y].reverses # x
        BY <2>1 DEF Backward
  <2>4. QED
        BY <1>2, <1>3, <2>2, <2>3
<1>5. EntriesOf(d)' = EntriesOf(d) \cup {x \in Added : journal'[x].doc = d}
      BY <1>1, <1>2 DEF EntriesOf
<1>6. \A i \in DOMAIN journal' :
        i \in LiveEntries(d)' <=>
          \/ i \in LiveEntries(d) /\ \A x \in Added : journal'[x].reverses # i
          \/ i \in Added /\ journal'[i].doc = d /\ journal'[i].reverses = 0
  <2>1. ASSUME NEW i \in DOMAIN journal
        PROVE  i \in LiveEntries(d)' <=>
                 i \in LiveEntries(d) /\ \A x \in Added : journal'[x].reverses # i
        BY <1>1, <1>3 DEF LiveEntries
  <2>2. ASSUME NEW i \in Added
        PROVE  i \in LiveEntries(d)' <=> journal'[i].doc = d /\ journal'[i].reverses = 0
        BY <1>2, <1>4 DEF LiveEntries
  <2>3. ASSUME NEW i \in Added PROVE i \notin LiveEntries(d)
        BY DEF LiveEntries, Added
  <2>4. ASSUME NEW i \in DOMAIN journal PROVE i \notin Added
        BY DEF Added
  <2>5. QED
        BY <1>2, <2>1, <2>2, <2>3, <2>4
<1>7. LiveEntries(d)' \subseteq DOMAIN journal'
      BY DEF LiveEntries
<1>8. LiveEntries(d) \subseteq DOMAIN journal' /\ Added \subseteq DOMAIN journal'
      BY <1>1, <1>2 DEF LiveEntries
<1>9. LiveEntries(d)' = {i \in LiveEntries(d) : \A x \in Added : journal'[x].reverses # i}
                          \cup {x \in Added : journal'[x].doc = d /\ journal'[x].reverses = 0}
      BY <1>6, <1>7, <1>8
<1>10. QED
       BY <1>5, <1>9

-----------------------------------------------------------------------------
(* Every document agrees with its entries, is being posted, or has been    *)
(* through one of the six things that part the two.                        *)

Faults == {"half", "stacked", "swapped", "reversed", "lapsed", "twice"}

\* One live entry that says what the newest version says, or neither.
Fit(d) ==
    \/ LiveEntries(d) = {} /\ Stated(d) = 0
    \/ \E i \in LiveEntries(d) : LiveEntries(d) = {i} /\ journal[i].amount = Stated(d)

\* The entry on its way for a version that is still the newest says what the
\* version says; a reversal is one; a kept posting is that of the version read.
Pending(j, place) ==
    /\ place = "save" => j.tool \in Creating
    /\ place \in {"gate", "insert"} =>
         IF j.tool \in Creating
         THEN /\ j.doc \in Docs /\ j.entry.reverses = 0 /\ j.entry.doc = j.doc
              /\ j.entry.version \in 1 .. Len(versions[j.doc])
              /\ j.entry.version = Len(versions[j.doc]) => j.entry.amount = Posted(j.doc, Latest(j.doc))
         ELSE j.entry.reverses # 0
    /\ place \in {"plan", "commit"} =>
         /\ j.tool = "revise" /\ j.reposting \in {"post", "void", "keep"}
         /\ (j.reposting = "void" => j.new.voided) /\ (j.reposting = "post" => ~j.new.voided)
         /\ j.reposting = "keep" =>
              /\ j.seen[j.doc] \in DOMAIN versions[j.doc]
              /\ Effect(j.doc, j.new) = Effect(j.doc, versions[j.doc][j.seen[j.doc]])

Agrees(d) == OnItsWay(d) \/ blame[d] \cap Faults # {} \/ Fit(d)
OnceOnly(d) == "twice" \in blame[d] \/ Paired(d)

GInv ==
    /\ BInv
    /\ \A d \in Docs : OnceOnly(d) /\ Agrees(d)
    /\ \A p \in Procs : Pending(job[p], pc[p])

\* A document that fits its one entry holds what it says.
LEMMA FitIsEnough ==
    ASSUME BInv, NEW d \in Docs, Paired(d), Fit(d)
    PROVE  Net(d) = Stated(d)
<1>1. Net(d) = SumFunctionOnSet(Amounts, LiveEntries(d))
      BY NetOfPaired
<1>2. CASE LiveEntries(d) = {} /\ Stated(d) = 0
      BY <1>1, <1>2, SumEmpty
<1>3. CASE \E i \in LiveEntries(d) : LiveEntries(d) = {i} /\ journal[i].amount = Stated(d)
  <2>1. PICK i \in LiveEntries(d) : LiveEntries(d) = {i} /\ journal[i].amount = Stated(d)
        BY <1>3
  <2>2. Amounts[i] \in Int /\ Amounts[i] = journal[i].amount
        BY JournalTyped DEF LiveEntries
  <2>3. SumFunctionOnSet(Amounts, {i}) = Amounts[i]
        BY <2>2, SumOfOne
  <2>4. QED
        BY <1>1, <2>1, <2>2, <2>3
<1>4. QED
      BY <1>2, <1>3 DEF Fit

LEMMA GInvAgrees == GInv => BookAgrees
BY FitIsEnough DEF GInv, OnceOnly, Agrees, BookAgrees, Faults

-----------------------------------------------------------------------------
\* Each table of versions is as it was or longer.
Longer == \A d \in Docs : /\ Grows(versions[d], versions'[d])
                           /\ \/ versions'[d] = versions[d]
                              \/ Len(versions[d]) < Len(versions'[d])

LEMMA PendingOn ==
    ASSUME BInv, UNCHANGED scope, Longer, NEW j, NEW place, Pending(j, place),
           place \in {"plan", "commit"} => j.doc \in Docs
    PROVE  Pending(j, place)'
<1>1. \A d, v : Effect(d, v)' = Effect(d, v)
      BY EffectRigid
<1>2. CASE place \in {"gate", "insert"} /\ j.tool \in Creating
  <2>1. /\ j.doc \in Docs /\ j.entry.reverses = 0 /\ j.entry.doc = j.doc
        /\ j.entry.version \in 1 .. Len(versions[j.doc])
        /\ j.entry.version = Len(versions[j.doc]) => j.entry.amount = Posted(j.doc, Latest(j.doc))
        BY <1>2 DEF Pending
  <2>2. CASE versions'[j.doc] = versions[j.doc]
    <3>1. Posted(j.doc, Latest(j.doc))' = Posted(j.doc, Latest(j.doc))
          BY <2>2 DEF Posted, Worth, Latest
    <3>2. QED
          BY <1>2, <2>1, <2>2, <3>1 DEF Pending
  <2>3. CASE Len(versions[j.doc]) < Len(versions'[j.doc])
    <3>1. PICK a, b : a = Len(versions[j.doc]) /\ b = Len(versions'[j.doc])
          OBVIOUS
    <3>2. a \in Nat /\ b \in Nat /\ a < b
          BY <2>1, <2>3, <3>1, SeqFacts DEF BInv, Tables, Longer, Grows
    <3>3. j.entry.version \in 1 .. b /\ j.entry.version # b
          BY <2>1, <3>1, <3>2
    <3>4. QED
          BY <1>2, <2>1, <3>1, <3>3 DEF Pending
  <2>4. QED
        BY <2>1, <2>2, <2>3 DEF Longer
<1>3. CASE place \in {"plan", "commit"}
  <2>1. /\ j.doc \in Docs /\ j.tool = "revise" /\ j.reposting \in {"post", "void", "keep"}
        /\ (j.reposting = "void" => j.new.voided) /\ (j.reposting = "post" => ~j.new.voided)
        /\ j.reposting = "keep" =>
              /\ j.seen[j.doc] \in DOMAIN versions[j.doc]
              /\ Effect(j.doc, j.new) = Effect(j.doc, versions[j.doc][j.seen[j.doc]])
        BY <1>3 DEF Pending
  <2>2. /\ DOMAIN versions[j.doc] \subseteq DOMAIN versions'[j.doc]
        /\ \A k \in DOMAIN versions[j.doc] : versions'[j.doc][k] = versions[j.doc][k]
    <3>1. IsSeq(versions[j.doc]) /\ Grows(versions[j.doc], versions'[j.doc])
          BY <2>1 DEF BInv, Tables, Longer
    <3>2. QED
          BY <3>1, Kept
  <2>3. j.reposting = "keep" =>
           /\ j.seen[j.doc] \in DOMAIN versions'[j.doc]
           /\ Effect(j.doc, j.new)' = Effect(j.doc, versions[j.doc][j.seen[j.doc]])'
    <3>1. ASSUME j.reposting = "keep"
          PROVE  versions'[j.doc][j.seen[j.doc]] = versions[j.doc][j.seen[j.doc]]
          BY <2>1, <2>2, <3>1
    <3>2. ASSUME j.reposting = "keep"
          PROVE  Effect(j.doc, versions[j.doc][j.seen[j.doc]])'
                   = Effect(j.doc, versions[j.doc][j.seen[j.doc]])
          BY <3>1, <3>2 DEF Effect, Worth
    <3>3. QED
          BY <1>1, <2>1, <2>2, <3>2
  <2>4. QED
        BY <1>3, <2>1, <2>3 DEF Pending
<1>4. CASE /\ ~(place \in {"gate", "insert"} /\ j.tool \in Creating)
           /\ place \notin {"plan", "commit"}
      BY <1>4 DEF Pending
<1>5. QED
      BY <1>2, <1>3, <1>4

\* The entry of d is on its way in p.
Way(p, d) == pc[p] \in {"gate", "insert"} /\ job[p].tool \in Creating /\ job[p].doc = d

LEMMA OtherWays ==
    ASSUME BInv, NEW p \in Procs, NEW at, NEW j, Begin(p, at, j), NEW d, OnItsWay(d), ~Way(p, d)
    PROVE  OnItsWay(d)'
<1>1. PICK q \in Procs : Way(q, d)
      BY DEF OnItsWay, Way
<1>2. pc'[q] = pc[q] /\ job'[q] = job[q]
      BY <1>1 DEF Begin, BInv, Tables
<1>3. QED
      BY <1>1, <1>2 DEF OnItsWay, Way

\* A document no table of which changes is as it was.
Untouched(d) ==
    /\ versions'[d] = versions[d] /\ LiveEntries(d)' = LiveEntries(d)
    /\ EntriesOf(d)' = EntriesOf(d)

LEMMA UntouchedFits ==
    ASSUME BInv, UNCHANGED scope, Grows(journal, journal'), NEW d \in Docs, Untouched(d)
    PROVE  (Fit(d) => Fit(d)') /\ (Paired(d) => Paired(d)')
<1>1. \A i \in DOMAIN journal : journal'[i] = journal[i]
      BY Kept DEF BInv, Tables
<1>2. Stated(d)' = Stated(d)
      BY DEF Untouched, Stated, Saved, Latest, Effect, Worth
<1>3. LiveEntries(d) \subseteq DOMAIN journal /\ EntriesOf(d) \subseteq DOMAIN journal
      BY DEF LiveEntries, EntriesOf
<1>4. Fit(d) => Fit(d)'
      BY <1>1, <1>2, <1>3 DEF Fit, Untouched
<1>5. ASSUME Paired(d) PROVE Paired(d)'
  <2>1. ASSUME NEW i \in EntriesOf(d), journal[i].reverses # 0
        PROVE  journal'[journal[i].reverses] = journal[journal[i].reverses]
        BY <1>1, <1>3, <2>1, ReversalFacts
  <2>2. \A i \in EntriesOf(d) : journal'[i] = journal[i]
        BY <1>1, <1>3
  <2>3. QED
        BY <1>5, <2>1, <2>2 DEF Paired, Untouched
<1>6. QED
      BY <1>4, <1>5

LEMMA StepG ==
    ASSUME GInv, BInv', UNCHANGED scope, Longer, NEW p \in Procs, NEW at, NEW j, Begin(p, at, j),
           Pending(j, at)', \A d \in Docs : OnceOnly(d)' /\ Agrees(d)'
    PROVE  GInv'
<1>1. ASSUME NEW q \in Procs PROVE Pending(job[q], pc[q])'
  <2>1. PICK i, place : i = job'[q] /\ place = pc'[q]
        OBVIOUS
  <2>2. CASE q = p
    <3>1. i = j /\ place = at
          BY <2>1, <2>2 DEF Begin, GInv, BInv, Tables
    <3>2. QED
          BY <2>1, <3>1 DEF Pending
  <2>3. CASE q # p
    <3>1. i = job[q] /\ place = pc[q]
          BY <2>1, <2>3 DEF Begin, GInv, BInv, Tables
    <3>2. Pending(i, place) /\ (place \in {"plan", "commit"} => i.doc \in Docs)
          BY <3>1 DEF GInv, BInv, Ready
    <3>3. Pending(i, place)'
          BY <3>2, PendingOn DEF GInv
    <3>4. QED
          BY <2>1, <3>3 DEF Pending
  <2>4. QED
        BY <2>2, <2>3
<1>2. QED
      BY <1>1 DEF GInv

\* A step that writes neither versions nor entries.
LEMMA QuietG ==
    ASSUME GInv, BInv', UNCHANGED <<versions, journal, scope>>,
           \A d \in Docs : blame[d] \subseteq blame'[d],
           NEW p \in Procs, NEW at, NEW j, Begin(p, at, j), Pending(j, at),
           at \in {"plan", "commit"} => j.doc \in Docs,
           \A d \in Docs : Way(p, d) => \/ "half" \in blame'[d]
                                        \/ /\ at \in {"gate", "insert"} /\ j.tool \in Creating
                                           /\ j.doc = d
    PROVE  GInv'
<1>1. BInv /\ Longer /\ Grows(journal, journal')
      BY SeqFacts DEF GInv, BInv, Tables, Longer
<1>2. Pending(j, at)'
      BY <1>1, PendingOn
<1>3. ASSUME NEW d \in Docs PROVE OnceOnly(d)' /\ Agrees(d)'
  <2>1. Untouched(d)
        BY DEF Untouched, LiveEntries, EntriesOf, Reversed
  <2>2. (Fit(d) => Fit(d)') /\ (Paired(d) => Paired(d)')
        BY <1>1, <2>1, UntouchedFits
  <2>3. OnceOnly(d)'
        BY <2>2 DEF GInv, OnceOnly
  <2>4. ASSUME OnItsWay(d) PROVE OnItsWay(d)' \/ "half" \in blame'[d]
    <3>1. CASE ~Way(p, d)
          BY <1>1, <2>4, <3>1, OtherWays
    <3>2. CASE Way(p, d)
      <4>1. pc'[p] = at /\ job'[p] = j
            BY <1>1 DEF Begin, BInv, Tables
      <4>2. QED
            BY <3>2, <4>1 DEF OnItsWay
    <3>3. QED
          BY <3>1, <3>2
  <2>5. Agrees(d)'
        BY <2>2, <2>4 DEF GInv, Agrees, Faults
  <2>6. QED
        BY <2>3, <2>5
<1>4. QED
      BY <1>1, <1>2, <1>3, StepG


-----------------------------------------------------------------------------
(* The steps that write neither versions nor entries. *)

LEMMA IdlePending == \A j : Pending(j, "idle") /\ Pending(j, "close")
BY DEF Pending

\* A tool begins, or a process reads what it is going to need.
LEMMA BeginG ==
    ASSUME GInv, BInv', NEW p \in Procs,
           CreateBegin(p) \/ ReverseBegin(p) \/ CloseSnapshot(p) \/ ClosePeriod(p)
    PROVE  GInv'
<1>1. UNCHANGED <<versions, journal, blame, scope>> /\ pc[p] \in {"idle", "close"}
      BY DEF CreateBegin, ReverseBegin, CloseSnapshot, ClosePeriod, Call, booksVars
<1>2. \E at, j : /\ Begin(p, at, j) /\ Pending(j, at) /\ at \notin {"plan", "commit"}
  <2>1. CASE CreateBegin(p)
    <3>1. PICK j : Begin(p, "save", j) /\ j.tool \in {"create", "save"}
          BY <2>1 DEF CreateBegin
    <3>2. Pending(j, "save")
          BY <3>1 DEF Pending, Creating
    <3>3. QED
          BY <3>1, <3>2
  <2>2. CASE ReverseBegin(p)
    <3>1. PICK i \in DOMAIN journal, on \in Dates :
              Begin(p, "gate", [tool |-> "reverse", doc |-> journal[i].doc,
                  entry |-> Entry(journal[i].doc, journal[i].version, on, -journal[i].amount, i)])
          BY <2>2 DEF ReverseBegin
    <3>2. PICK j : j = [tool |-> "reverse", doc |-> journal[i].doc,
                  entry |-> Entry(journal[i].doc, journal[i].version, on, -journal[i].amount, i)]
          OBVIOUS
    <3>3. i # 0
          BY ReversalFacts DEF GInv
    <3>4. Pending(j, "gate")
          BY <3>2, <3>3 DEF Pending, Creating, Entry
    <3>5. QED
          BY <3>1, <3>2, <3>4
  <2>3. CASE CloseSnapshot(p) \/ ClosePeriod(p)
    <3>1. PICK at, j : Begin(p, at, j) /\ at \in {"idle", "close"}
          BY <2>3 DEF CloseSnapshot, ClosePeriod, Return
    <3>2. QED
          BY <3>1, IdlePending
  <2>4. QED
        BY <2>1, <2>2, <2>3
<1>3. \A d \in Docs : ~Way(p, d)
      BY <1>1 DEF Way
<1>4. QED
      BY <1>1, <1>2, <1>3, QuietG

\* The gate lets the entry through: it is still on its way.
LEMMA GateG == ASSUME GInv, BInv', NEW p \in Procs, Gate(p) PROVE GInv'
<1>1. PICK j : /\ j = [tool |-> job[p].tool, doc |-> job[p].doc,
                       entry |-> job[p].entry, lock |-> LockedThrough]
               /\ Begin(p, "insert", j)
      BY DEF Gate
<1>2. Pending(job[p], "gate")
      BY DEF Gate, GInv
<1>3. Pending(j, "insert")
      BY <1>1, <1>2 DEF Pending
<1>4. \A d \in Docs : Way(p, d) => j.tool \in Creating /\ j.doc = d
      BY <1>1 DEF Way
<1>5. UNCHANGED <<versions, journal, blame, scope>>
      BY DEF Gate, booksVars
<1>6. QED
      BY <1>1, <1>3, <1>4, <1>5, QuietG

\* What gives up between save and post leaves a half.
LEMMA GiveUpG ==
    ASSUME GInv, BInv', NEW p \in Procs, Refused(p) \/ PlanRefused(p) \/ RollBack(p) \/ Crash(p)
    PROVE  GInv'
<1>1. Begin(p, "idle", NoJob) /\ UNCHANGED <<versions, journal, scope>>
      BY DEF Refused, PlanRefused, RollBack, Crash, Return, booksVars
<1>2. ASSUME Refused(p) \/ Crash(p), pc[p] \in {"gate", "insert"}, job[p].tool \in Creating
      PROVE  blame' = [blame EXCEPT ![job[p].doc] = @ \cup {"half"}]
      BY <1>2 DEF Refused, Crash
<1>3. ASSUME ~((Refused(p) \/ Crash(p)) /\ pc[p] \in {"gate", "insert"} /\ job[p].tool \in Creating)
      PROVE  blame' = blame \/ blame' = [blame EXCEPT ![job[p].doc] = @]
      BY <1>3 DEF Refused, Crash, PlanRefused, RollBack
<1>4. \A d \in Docs : /\ blame[d] \subseteq blame'[d]
                      /\ Way(p, d) => "half" \in blame'[d]
  <2>1. ASSUME NEW d \in Docs PROVE blame[d] \subseteq blame'[d]
        BY <1>2, <1>3 DEF GInv, BInv, Tables
  <2>2. ASSUME NEW d \in Docs, Way(p, d) PROVE "half" \in blame'[d]
    <3>1. Refused(p) \/ Crash(p)
          BY <2>2 DEF Way, PlanRefused, RollBack
    <3>2. job[p].doc = d /\ blame' = [blame EXCEPT ![d] = @ \cup {"half"}]
          BY <1>2, <2>2, <3>1 DEF Way
    <3>3. QED
          BY <3>2 DEF GInv, BInv, Tables
  <2>3. QED
        BY <2>1, <2>2
<1>5. QED
      BY <1>1, <1>4, IdlePending, QuietG

\* A revision is checked: a kept posting is that of the newest version.
LEMMA CheckG ==
    ASSUME GInv, BInv', NEW p \in Procs, UpdateCheck(p) \/ VoidCheck(p) \/ ApplyCheck(p)
    PROVE  GInv'
<1>1. PICK d, v, r : /\ d \in Docs /\ Begin(p, "plan", Revising(d, v, r))
                     /\ r \in {"post", "void", "keep"}
                     /\ (r = "void" => v.voided) /\ (r = "post" => ~v.voided)
                     /\ r = "keep" => Standing(d) /\ Effect(d, v) = Effect(d, Latest(d))
  <2>1. CASE UpdateCheck(p)
        BY <2>1 DEF UpdateCheck
  <2>2. CASE VoidCheck(p)
    <3>1. PICK d \in Docs :
              /\ Standing(d)
              /\ Begin(p, "plan", Revising(d, [Latest(d) EXCEPT !.voided = TRUE], "void"))
          BY <2>2 DEF VoidCheck
    <3>2. [Latest(d) EXCEPT !.voided = TRUE].voided
          BY <3>1, LatestDated DEF Standing, Dated, GInv
    <3>3. \E v : Begin(p, "plan", Revising(d, v, "void")) /\ v.voided
          BY <3>1, <3>2
    <3>4. QED
          BY <3>3
  <2>3. CASE ApplyCheck(p)
    <3>1. PICK c \in Credits, t \in Debts, n \in 1 .. scope.amount :
              /\ Standing(c)
              /\ Begin(p, "plan", Revising(c, [Latest(c) EXCEPT !.apps[t] = @ + n], "keep"))
          BY <2>3 DEF ApplyCheck
    <3>2. c \in Docs /\ c \notin Debts /\ Dated(Latest(c))
          BY <3>1, KindsAssumption, LatestDated DEF Standing, Docs, GInv
    <3>3. PICK v : v = [Latest(c) EXCEPT !.apps[t] = @ + n]
          OBVIOUS
    <3>4. v.total = Latest(c).total /\ v.voided = Latest(c).voided
          BY <3>2, <3>3 DEF Dated
    <3>5. Effect(c, v) = Effect(c, Latest(c))
          BY <3>1, <3>2, <3>4 DEF Effect, Worth
    <3>6. QED
          BY <3>1, <3>2, <3>3, <3>5
  <2>4. QED
        BY <2>1, <2>2, <2>3
<1>2. PICK j : j = Revising(d, v, r)
      OBVIOUS
<1>3. /\ j.tool = "revise" /\ j.doc = d /\ j.new = v /\ j.reposting = r
      /\ j.seen[d] = Len(versions[d])
      BY <1>1, <1>2 DEF Revising, Counts
<1>4. Standing(d) => Len(versions[d]) \in DOMAIN versions[d] /\ Latest(d) = versions[d][Len(versions[d])]
  <2>1. ASSUME Standing(d) PROVE Len(versions[d]) \in Nat \ {0} /\ IsSeq(versions[d])
        BY <1>1, <2>1, LatestDated DEF Standing, GInv, BInv, Tables
  <2>2. QED
        BY <2>1, SeqFacts DEF Latest, Last
<1>5. Pending(j, "plan")
      BY <1>1, <1>3, <1>4 DEF Pending
<1>6. UNCHANGED <<versions, journal, blame, scope>> /\ pc[p] = "idle"
      BY DEF UpdateCheck, VoidCheck, ApplyCheck, Call, booksVars
<1>7. \A c \in Docs : ~Way(p, c)
      BY <1>6 DEF Way
<1>8. QED
      BY <1>1, <1>2, <1>3, <1>5, <1>6, <1>7, QuietG

LEMMA PlanG == ASSUME GInv, BInv', NEW p \in Procs, PlanRevision(p) PROVE GInv'
<1>1. PICK j : /\ j = [tool |-> "revise", doc |-> job[p].doc, old |-> job[p].old,
                       new |-> job[p].new, reposting |-> job[p].reposting,
                       seen |-> job[p].seen, live |-> LiveEntries(job[p].doc)]
               /\ Begin(p, "commit", j)
      BY DEF PlanRevision
<1>2. Pending(job[p], "plan") /\ job[p].doc \in Docs /\ pc[p] = "plan"
      BY DEF PlanRevision, GInv, BInv, Ready
<1>3. Pending(j, "commit") /\ j.doc \in Docs
      BY <1>1, <1>2 DEF Pending
<1>4. \A d \in Docs : ~Way(p, d)
      BY <1>2 DEF Way
<1>5. UNCHANGED <<versions, journal, blame, scope>>
      BY DEF PlanRevision, booksVars
<1>6. QED
      BY <1>1, <1>3, <1>4, <1>5, QuietG

\* A process that stays where it is.
LEMMA StayG ==
    ASSUME GInv, BInv', NEW p \in Procs, UNCHANGED <<versions, journal, blame, pc, job, scope>>
    PROVE  GInv'
<1>1. PICK at, j : at = pc[p] /\ j = job[p]
      OBVIOUS
<1>2. Begin(p, at, j) /\ Pending(j, at)
      BY <1>1 DEF Begin, GInv, BInv, Tables
<1>3. at \in {"plan", "commit"} => j.doc \in Docs
      BY <1>1 DEF GInv, BInv, Ready
<1>4. \A d \in Docs : Way(p, d) => at \in {"gate", "insert"} /\ j.tool \in Creating /\ j.doc = d
      BY <1>1 DEF Way
<1>5. QED
      BY <1>2, <1>3, <1>4, QuietG

-----------------------------------------------------------------------------
(* The steps that write. *)

\* What saving a version makes of the versions.
LEMMA SavesLonger ==
    ASSUME BInv, UNCHANGED scope, NEW d \in Docs, NEW v, Dated(v),
           versions' = [versions EXCEPT ![d] = Append(@, v)], NEW n, n = Len(versions[d]) + 1
    PROVE  /\ Longer /\ n \in Nat \ {0} /\ Len(versions'[d]) = n
           /\ Latest(d)' = v /\ Saved(d)' /\ Stated(d)' = Effect(d, v)
           /\ \A c \in Docs \ {d} : versions'[c] = versions[c]
<1>1. /\ n \in Nat \ {0} /\ Len(versions'[d]) = n /\ versions'[d][n] = v
      /\ \A c \in Docs \ {d} : versions'[c] = versions[c]
      /\ \A c \in Docs : Grows(versions[c], versions'[c])
      BY Saves
<1>2. Len(versions[d]) \in Nat
      BY SeqFacts DEF BInv, Tables
<1>3. Longer
  <2>1. Len(versions[d]) < Len(versions'[d])
        BY <1>1, <1>2
  <2>2. QED
        BY <1>1, <2>1 DEF Longer
<1>4. Latest(d)' = v
      BY <1>1 DEF Latest, Last
<1>5. Saved(d)'
      BY <1>1 DEF Saved
<1>6. Stated(d)' = Effect(d, v)
  <2>1. Effect(d, v)' = Effect(d, v)
        BY EffectRigid
  <2>2. Stated(d)' = Effect(d, v)'
        BY <1>4, <1>5 DEF Stated, Effect, Worth
  <2>3. QED
        BY <2>1, <2>2
<1>7. QED
      BY <1>1, <1>3, <1>4, <1>5, <1>6

\* A document a step leaves alone agrees with its entries as it did.
LEMMA AgreesOn ==
    ASSUME GInv, UNCHANGED scope, Grows(journal, journal'), NEW d \in Docs, Untouched(d),
           blame[d] \subseteq blame'[d],
           NEW p \in Procs, NEW at, NEW j, Begin(p, at, j), ~Way(p, d)
    PROVE  OnceOnly(d)' /\ Agrees(d)'
<1>1. (Fit(d) => Fit(d)') /\ (Paired(d) => Paired(d)')
      BY UntouchedFits DEF GInv
<1>2. OnItsWay(d) => OnItsWay(d)'
      BY OtherWays DEF GInv
<1>3. QED
      BY <1>1, <1>2 DEF GInv, OnceOnly, Agrees, Faults

LEMMA CreateSaveG == ASSUME GInv, BInv', NEW p \in Procs, CreateSave(p) PROVE GInv'
<1>1. PICK d, v, n, cited, e, j :
          /\ d = job[p].doc /\ v = job[p].new /\ n = Len(versions[d]) + 1
          /\ cited = IF job[p].tool = "create" THEN job[p].next ELSE n
          /\ e = Entry(d, cited, v.date, Posted(d, v), 0)
          /\ j = [tool |-> job[p].tool, doc |-> d, entry |-> e]
      OBVIOUS
<1>2. /\ pc[p] = "save" /\ versions' = [versions EXCEPT ![d] = Append(@, v)]
      /\ UNCHANGED <<journal, scope>>
      /\ IF Posted(d, v) = 0 THEN Begin(p, "idle", NoJob) ELSE Begin(p, "gate", j)
      BY <1>1 DEF CreateSave, Return
<1>3. \E X : /\ blame' = [blame EXCEPT ![d] = @ \cup X]
             /\ LiveEntries(d) # {} => "stacked" \in X
  <2> DEFINE X == (IF Unchecked(d, v) \/ Saved(d) THEN {"unchecked"} ELSE {})
                  \cup (IF LiveEntries(d) # {} THEN {"stacked"} ELSE {})
                  \cup (IF cited # n THEN {"misnumbered"} ELSE {})
  <2>1. blame' = [blame EXCEPT ![d] = @ \cup X]
        BY <1>1 DEF CreateSave
  <2>2. LiveEntries(d) # {} => "stacked" \in X
        OBVIOUS
  <2>3. QED
        BY <2>1, <2>2
<1>4. BInv /\ d \in Docs /\ Dated(v) /\ job[p].tool \in Creating /\ cited \in 1 .. n
  <2>1. Ready(job[p], "save") /\ Pending(job[p], "save") /\ BInv
        BY <1>2 DEF GInv, BInv
  <2>2. d \in Docs /\ Dated(v) /\ job[p].next \in 1 .. n /\ job[p].tool \in Creating
        BY <1>1, <2>1 DEF Ready, Pending
  <2>3. n \in Nat \ {0}
        BY <1>1, <2>1, <2>2, SeqFacts DEF BInv, Tables
  <2>4. QED
        BY <1>1, <2>1, <2>2, <2>3
<1>5. /\ Longer /\ n \in Nat \ {0} /\ Len(versions'[d]) = n
      /\ Latest(d)' = v /\ Saved(d)' /\ Stated(d)' = Effect(d, v)
      /\ \A c \in Docs \ {d} : versions'[c] = versions[c]
  <2>1. n = Len(versions[d]) + 1
        BY <1>1
  <2>2. QED
        BY <1>2, <1>4, <2>1, SavesLonger
<1>6. /\ \A c \in Docs : blame[c] \subseteq blame'[c]
      /\ LiveEntries(d) # {} => "stacked" \in blame'[d]
  <2>1. PICK X : /\ blame' = [blame EXCEPT ![d] = @ \cup X]
                 /\ LiveEntries(d) # {} => "stacked" \in X
        BY <1>3
  <2>2. blame'[d] = blame[d] \cup X /\ \A c \in Docs \ {d} : blame'[c] = blame[c]
        BY <1>4, <2>1 DEF BInv, Tables
  <2>3. QED
        BY <2>1, <2>2
<1>7. Grows(journal, journal')
      BY <1>2, <1>4, SeqFacts DEF BInv, Tables
<1>8. \A c : /\ LiveEntries(c)' = LiveEntries(c) /\ EntriesOf(c)' = EntriesOf(c)
             /\ Paired(c) => Paired(c)'
      BY <1>2 DEF LiveEntries, EntriesOf, Reversed, Paired
<1>9. \A c : ~Way(p, c)
      BY <1>2 DEF Way
<1>10. ASSUME NEW c \in Docs PROVE OnceOnly(c)' /\ Agrees(c)'
  <2>1. CASE c # d
    <3>1. Untouched(c)
          BY <1>5, <1>8, <2>1 DEF Untouched
    <3>2. QED
          BY <1>2, <1>6, <1>7, <1>9, <3>1, AgreesOn
  <2>2. CASE c = d
    <3>1. OnceOnly(d)'
          BY <1>4, <1>6, <1>8 DEF GInv, OnceOnly
    <3>2. CASE LiveEntries(d) # {}
          BY <1>6, <2>2, <3>1, <3>2 DEF Agrees, Faults
    <3>3. CASE LiveEntries(d) = {} /\ Posted(d, v) = 0
      <4>1. Effect(d, v) = 0
            BY <1>4, <3>3, EffectInt DEF Effect, Posted
      <4>2. QED
            BY <1>5, <1>8, <2>2, <3>1, <3>3, <4>1 DEF Agrees, Fit
    <3>4. CASE Posted(d, v) # 0
      <4>1. pc'[p] = "gate" /\ job'[p] = j
            BY <1>2, <1>4, <3>4 DEF Begin, BInv, Tables
      <4>2. j.tool \in Creating /\ j.doc = d
            BY <1>1, <1>4
      <4>3. OnItsWay(d)'
            BY <4>1, <4>2 DEF OnItsWay
      <4>4. QED
            BY <2>2, <3>1, <4>3 DEF Agrees
    <3>5. QED
          BY <3>2, <3>3, <3>4
  <2>3. QED
        BY <2>1, <2>2
<1>11. Pending(j, "gate")'
  <2>1. /\ j.tool \in Creating /\ j.doc = d /\ j.entry.reverses = 0 /\ j.entry.doc = d
        /\ j.entry.version = cited /\ j.entry.amount = Posted(d, v)
        BY <1>1, <1>4 DEF Entry
  <2>2. Posted(d, v) = Posted(d, Latest(d))'
        BY <1>2, <1>5 DEF Posted, Worth
  <2>3. QED
        BY <1>4, <1>5, <2>1, <2>2 DEF Pending
<1>12. Pending(NoJob, "idle")'
       BY DEF Pending
<1>13. QED
  <2>1. \A c \in Docs : OnceOnly(c)' /\ Agrees(c)'
        BY <1>10
  <2>2. CASE Posted(d, v) = 0
        BY <1>2, <1>5, <1>12, <2>1, <2>2, StepG
  <2>3. CASE Posted(d, v) # 0
        BY <1>2, <1>5, <1>11, <2>1, <2>3, StepG
  <2>4. QED
        BY <2>2, <2>3

\* Entries stay paired when what is undone was live and is undone once.
LEMMA PairedOn ==
    ASSUME BInv, Grows(journal, journal'), Backward, NEW d \in Docs, Paired(d),
           \A x \in Added : journal'[x].doc = d /\ journal'[x].reverses # 0
                              => journal'[x].reverses \in LiveEntries(d),
           \A x, y \in Added : journal'[x].reverses = journal'[y].reverses
                                 /\ journal'[x].reverses # 0 => x = y
    PROVE  Paired(d)'
<1>1. EntriesOf(d)' = EntriesOf(d) \cup {x \in Added : journal'[x].doc = d}
      BY LiveNext
<1>2. \A i \in DOMAIN journal : journal'[i] = journal[i]
      BY Kept DEF BInv, Tables
<1>3. EntriesOf(d) \subseteq DOMAIN journal /\ LiveEntries(d) \subseteq DOMAIN journal
      BY DEF EntriesOf, LiveEntries
<1>4. ASSUME NEW i \in EntriesOf(d), NEW x \in Added, journal'[x].doc = d, journal'[x].reverses # 0
      PROVE  journal'[i].reverses # journal'[x].reverses
      BY <1>2, <1>3, <1>4 DEF LiveEntries, Reversed
<1>5. ASSUME NEW i \in EntriesOf(d)', NEW k \in EntriesOf(d)',
             journal'[i].reverses = journal'[k].reverses, journal'[i].reverses # 0
      PROVE  i = k
  <2>1. CASE i \in EntriesOf(d) /\ k \in EntriesOf(d)
        BY <1>2, <1>3, <1>5, <2>1 DEF Paired
  <2>2. QED
        BY <1>1, <1>4, <1>5, <2>1
<1>6. ASSUME NEW i \in EntriesOf(d)', journal'[i].reverses # 0
      PROVE  journal'[journal'[i].reverses].reverses = 0
  <2>1. CASE i \in EntriesOf(d)
    <3>1. journal'[i] = journal[i] /\ journal[i].reverses # 0 /\ i \in DOMAIN journal
          BY <1>2, <1>3, <1>6, <2>1
    <3>2. journal[i].reverses \in DOMAIN journal /\ journal[journal[i].reverses].reverses = 0
          BY <2>1, <3>1, ReversalFacts DEF Paired
    <3>3. QED
          BY <1>2, <3>1, <3>2
  <2>2. CASE i \in Added /\ journal'[i].doc = d
    <3>1. journal'[i].reverses \in LiveEntries(d)
          BY <1>6, <2>2
    <3>2. QED
          BY <1>2, <1>3, <3>1 DEF LiveEntries
  <2>3. QED
        BY <1>1, <2>1, <2>2
<1>7. QED
      BY <1>5, <1>6 DEF Paired

\* An entry is posted: the first for the version it states, or a fault.
LEMMA InsertG == ASSUME GInv, BInv', NEW p \in Procs, Insert(p) PROVE GInv'
<1>1. PICK e, n, d : e = job[p].entry /\ n = Len(journal) + 1 /\ d = e.doc
      OBVIOUS
<1>2. /\ pc[p] = "insert" /\ Begin(p, "idle", NoJob) /\ UNCHANGED <<versions, scope>>
      /\ journal' = Append(journal, e)
      /\ blame' = [blame EXCEPT ![d] = @ \cup InsertBlame(e)]
      BY <1>1 DEF Insert, Return
<1>3. /\ BInv /\ Traced(e) /\ d \in Docs
      /\ IF job[p].tool \in Creating
         THEN /\ e.reverses = 0 /\ d = job[p].doc
              /\ e.version \in 1 .. Len(versions[d])
              /\ e.version = Len(versions[d]) => e.amount = Posted(d, Latest(d))
         ELSE e.reverses # 0
  <2>1. Ready(job[p], "insert") /\ Pending(job[p], "insert") /\ BInv
        BY <1>2 DEF GInv, BInv
  <2>2. Traced(e)
        BY <1>1, <2>1 DEF Ready
  <2>3. QED
        BY <1>1, <2>1, <2>2 DEF Pending, Traced
<1>4. e.reverses # 0 => e.reverses \in DOMAIN journal /\ journal[e.reverses].doc = d
      BY <1>1, <1>3 DEF Traced, Undo, Original
<1>5. /\ Grows(journal, journal') /\ Added = {n} /\ journal'[n] = e
      /\ \A i \in DOMAIN journal : journal'[i] = journal[i]
  <2>1. IsSeq(journal) /\ Len(journal) \in Nat /\ DOMAIN journal = 1 .. Len(journal)
        BY <1>3, SeqFacts DEF BInv, Tables
  <2>2. Grows(journal, journal') /\ Len(journal') = n /\ journal'[n] = e
        BY <1>1, <1>2, <2>1, Appended
  <2>3. DOMAIN journal' = 1 .. n
        BY <2>2, SeqFacts DEF Grows
  <2>4. PICK m : m = Len(journal)
        OBVIOUS
  <2>5. (1 .. m + 1) \ (1 .. m) = {m + 1}
        BY <2>1, <2>4
  <2>6. Added = {n}
        BY <1>1, <2>1, <2>3, <2>4, <2>5 DEF Added
  <2>7. QED
        BY <2>1, <2>2, <2>6, Kept
<1>6. Backward
      BY <1>4, <1>5 DEF Backward
<1>7. \A c : /\ LiveEntries(c)' = {i \in LiveEntries(c) : e.reverses # i}
                                    \cup (IF d = c /\ e.reverses = 0 THEN {n} ELSE {})
             /\ EntriesOf(c)' = EntriesOf(c) \cup (IF d = c THEN {n} ELSE {})
  <2>1. SUFFICES ASSUME NEW c
                 PROVE  /\ LiveEntries(c)' = {i \in LiveEntries(c) : e.reverses # i}
                                               \cup (IF d = c /\ e.reverses = 0 THEN {n} ELSE {})
                        /\ EntriesOf(c)' = EntriesOf(c) \cup (IF d = c THEN {n} ELSE {})
        OBVIOUS
  <2>2. /\ LiveEntries(c)' = {i \in LiveEntries(c) : \A x \in Added : journal'[x].reverses # i}
                               \cup {x \in Added : journal'[x].doc = c /\ journal'[x].reverses = 0}
        /\ EntriesOf(c)' = EntriesOf(c) \cup {x \in Added : journal'[x].doc = c}
        BY <1>3, <1>5, <1>6, LiveNext
  <2>3. {i \in LiveEntries(c) : \A x \in Added : journal'[x].reverses # i}
           = {i \in LiveEntries(c) : e.reverses # i}
        BY <1>5
  <2>4. /\ {x \in Added : journal'[x].doc = c /\ journal'[x].reverses = 0}
             = (IF d = c /\ e.reverses = 0 THEN {n} ELSE {})
        /\ {x \in Added : journal'[x].doc = c} = (IF d = c THEN {n} ELSE {})
        BY <1>1, <1>5
  <2>5. QED
        BY <2>2, <2>3, <2>4
<1>8. /\ blame'[d] = blame[d] \cup InsertBlame(e)
      /\ \A c \in Docs : blame[c] \subseteq blame'[c]
      BY <1>2, <1>3 DEF BInv, Tables
<1>9. Longer
      BY <1>2, <1>3, SeqFacts DEF Longer, BInv, Tables
<1>10. ASSUME NEW c \in Docs, c # d PROVE OnceOnly(c)' /\ Agrees(c)'
  <2>1. ASSUME NEW i \in LiveEntries(c) PROVE e.reverses # i
    <3>1. i \in DOMAIN journal /\ i # 0 /\ journal[i].doc = c
          BY <1>3, ReversalFacts DEF LiveEntries
    <3>2. QED
          BY <1>4, <1>10, <3>1
  <2>2. Untouched(c)
        BY <1>2, <1>7, <1>10, <2>1 DEF Untouched
  <2>3. ~Way(p, c)
        BY <1>3, <1>10 DEF Way
  <2>4. QED
        BY <1>2, <1>5, <1>8, <2>2, <2>3, AgreesOn
<1>11. CASE e.reverses # 0
  <2>1. /\ e.reverses \in LiveEntries(d) => "reversed" \in blame'[d]
        /\ e.reverses \notin LiveEntries(d) => "twice" \in blame'[d]
        BY <1>1, <1>8, <1>11 DEF InsertBlame
  <2>2. Agrees(d)'
        BY <2>1 DEF Agrees, Faults
  <2>3. OnceOnly(d)'
    <3>1. CASE "twice" \in blame'[d]
          BY <3>1 DEF OnceOnly
    <3>2. CASE "twice" \notin blame'[d]
      <4>1. Paired(d) /\ e.reverses \in LiveEntries(d)
            BY <1>3, <1>8, <2>1, <3>2 DEF GInv, OnceOnly
      <4>2. \A x \in Added : journal'[x].doc = d /\ journal'[x].reverses # 0
                               => journal'[x].reverses \in LiveEntries(d)
            BY <1>5, <4>1
      <4>3. \A x, y \in Added : journal'[x].reverses = journal'[y].reverses
                                  /\ journal'[x].reverses # 0 => x = y
            BY <1>5
      <4>4. Paired(d)'
            BY <1>3, <1>5, <1>6, <4>1, <4>2, <4>3, PairedOn
      <4>5. QED
            BY <4>4 DEF OnceOnly
    <3>3. QED
          BY <3>1, <3>2
  <2>4. \A c \in Docs : OnceOnly(c)' /\ Agrees(c)'
        BY <1>10, <2>2, <2>3
  <2>5. Pending(NoJob, "idle")'
        BY DEF Pending
  <2>6. QED
        BY <1>2, <1>9, <2>4, <2>5, StepG
<1>12. CASE e.reverses = 0
  <2>1. /\ e.version \in 1 .. Len(versions[d])
        /\ e.version = Len(versions[d]) => e.amount = Posted(d, Latest(d))
        BY <1>3, <1>12
  <2>2. Saved(d)
    <3>1. Len(versions[d]) \in Nat
          BY <1>3, SeqFacts DEF BInv, Tables
    <3>2. Len(versions[d]) # 0
          BY <2>1, <3>1
    <3>3. QED
          BY <3>2 DEF Saved
  <2>3. Stated(d)' = Stated(d)
        BY <1>2 DEF Stated, Saved, Latest, Effect, Worth
  <2>4. ASSUME LiveEntries(d) # {} \/ e.version # Len(versions[d]) PROVE Agrees(d)'
    <3>1. "stacked" \in blame'[d]
          BY <1>1, <1>8, <1>12, <2>4 DEF InsertBlame
    <3>2. Agrees(d)'
          BY <3>1 DEF Agrees, Faults
    <3>3. QED
          BY <3>2
  <2>5. ASSUME LiveEntries(d) = {}, e.version = Len(versions[d]), ~Latest(d).voided
        PROVE  Agrees(d)'
    <3>1. LiveEntries(d)' = {n}
          BY <1>7, <1>12, <2>5
    <3>2. e.amount = Stated(d)
          BY <2>1, <2>2, <2>5 DEF Stated, Effect, Posted
    <3>3. Fit(d)'
          BY <1>5, <2>3, <3>1, <3>2 DEF Fit
    <3>4. Agrees(d)'
          BY <3>3 DEF Agrees
    <3>5. QED
          BY <3>4
  <2>6. Agrees(d)'
    <3>1. ASSUME LiveEntries(d) = {}, e.version = Len(versions[d]), Latest(d).voided
          PROVE  "swapped" \in blame'[d]
          BY <1>1, <1>8, <1>12, <3>1 DEF InsertBlame
    <3>2. QED
          BY <2>4, <2>5, <3>1 DEF Agrees, Faults
  <2>7. OnceOnly(d)'
    <3>1. CASE "twice" \in blame'[d]
          BY <3>1 DEF OnceOnly
    <3>2. CASE "twice" \notin blame'[d]
      <4>1. Paired(d)
            BY <1>3, <1>8, <3>2 DEF GInv, OnceOnly
      <4>2. \A x \in Added : journal'[x].reverses = 0
            BY <1>5, <1>12
      <4>3. Paired(d)'
            BY <1>3, <1>5, <1>6, <4>1, <4>2, PairedOn
      <4>4. QED
            BY <4>3 DEF OnceOnly
    <3>3. QED
          BY <3>1, <3>2
  <2>8. \A c \in Docs : OnceOnly(c)' /\ Agrees(c)'
        BY <1>10, <2>6, <2>7
  <2>9. Pending(NoJob, "idle")'
        BY DEF Pending
  <2>10. QED
         BY <1>2, <1>9, <2>8, <2>9, StepG
<1>13. QED
       BY <1>11, <1>12

\* What the entries of a revision are: each it undoes once, and one it posts.
Revised(j, z) ==
    /\ \A x \in Added : journal'[x].doc = j.doc
    /\ \A x \in Added : \/ journal'[x].reverses \in Reversing(j)
                        \/ Posting(j) /\ x = z /\ journal'[x].reverses = 0
    /\ \A i \in Reversing(j) : \E x \in Added : journal'[x].reverses = i
    /\ \A x, y \in Added : journal'[x].reverses = journal'[y].reverses
                             /\ journal'[x].reverses # 0 => x = y
    /\ Posting(j) => /\ z \in Added /\ journal'[z].reverses = 0
                     /\ journal'[z].amount = Posted(j.doc, j.new)

LEMMA CommitAdds ==
    ASSUME BInv, NEW j, j.live \subseteq DOMAIN journal, \A i \in j.live : journal[i].doc = j.doc,
           journal' = journal \o Corrections(j)
    PROVE  Grows(journal, journal') /\ Revised(j, Len(journal'))
<1>1. PICK C : C = Corrections(j)
      OBVIOUS
<1>2. PICK n, s : CorrectsBy(j, C, n, s)
      BY <1>1, CorrectionsExactly
<1>3. PICK z, l, a : z = Len(journal') /\ l = Len(journal) /\ a = Len(C)
      OBVIOUS
<1>4. /\ IsSeq(journal) /\ l \in Nat /\ DOMAIN journal = 1 .. l
      /\ IsSeq(C) /\ n \in Nat /\ a = n + (IF Posting(j) THEN 1 ELSE 0) /\ a \in Nat
      BY <1>2, <1>3, SeqFacts DEF BInv, Tables, CorrectsBy
<1>5. /\ Grows(journal, journal') /\ z = l + a /\ DOMAIN journal' = 1 .. l + a
      /\ \A k \in 1 .. a : journal'[l + k] = C[k]
  <2>1. journal' = journal \o C
        BY <1>1
  <2>2. /\ Grows(journal, journal \o C) /\ Len(journal \o C) = Len(journal) + Len(C)
        /\ \A k \in 1 .. Len(C) : (journal \o C)[Len(journal) + k] = C[k]
        BY <1>4, Joined
  <2>3. /\ Grows(journal, journal') /\ Len(journal') = l + a
        /\ \A k \in 1 .. a : journal'[l + k] = C[k]
        BY <1>3, <2>1, <2>2
  <2>4. QED
        BY <1>3, <2>3, SeqFacts DEF Grows
<1>6. /\ \A k \in 1 .. n : /\ s[k] \in Reversing(j) /\ s[k] \in j.live /\ s[k] # 0
                           /\ C[k].reverses = s[k] /\ C[k].doc = j.doc
      /\ \A k, q \in 1 .. n : s[k] = s[q] => k = q
      /\ \A i \in Reversing(j) : \E k \in 1 .. n : s[k] = i
      /\ Posting(j) => /\ C[n + 1].reverses = 0 /\ C[n + 1].doc = j.doc
                       /\ C[n + 1].amount = Posted(j.doc, j.new)
  <2>1. ASSUME NEW k \in 1 .. n
        PROVE  /\ s[k] \in Reversing(j) /\ s[k] \in j.live /\ s[k] # 0
               /\ C[k].reverses = s[k] /\ C[k].doc = j.doc
    <3>1. s[k] \in Reversing(j) /\ C[k] = ReversalOf(s[k])
          BY <1>2 DEF CorrectsBy
    <3>2. s[k] \in j.live /\ s[k] \in DOMAIN journal /\ journal[s[k]].doc = j.doc
          BY <3>1 DEF Reversing
    <3>3. s[k] # 0
          BY <3>2, ReversalFacts
    <3>4. QED
          BY <3>1, <3>2, <3>3 DEF ReversalOf, Entry
  <2>2. QED
        BY <1>2, <2>1 DEF CorrectsBy, Entry
<1>7. Added = l + 1 .. l + a
  <2>1. (1 .. l + a) \ (1 .. l) = l + 1 .. l + a
        BY <1>4
  <2>2. QED
        BY <1>4, <1>5, <2>1 DEF Added
<1>8. ASSUME NEW x \in Added
      PROVE  \/ \E k \in 1 .. n : x = l + k /\ journal'[x] = C[k]
             \/ Posting(j) /\ x = z /\ journal'[x] = C[n + 1]
  <2>1. x - l \in 1 .. a /\ x = l + (x - l)
        BY <1>4, <1>7
  <2>2. PICK k \in 1 .. a : x = l + k /\ journal'[x] = C[k]
        BY <1>5, <2>1
  <2>3. k \in 1 .. n \/ (Posting(j) /\ k = n + 1 /\ k = a)
        BY <1>4
  <2>4. QED
        BY <1>5, <2>2, <2>3
<1>9. ASSUME NEW k \in 1 .. n PROVE l + k \in Added /\ journal'[l + k] = C[k]
      BY <1>4, <1>5, <1>7
<1>10. Posting(j) => z \in Added /\ journal'[z] = C[n + 1]
       BY <1>4, <1>5, <1>7
<1>11. ASSUME NEW x \in Added
       PROVE  /\ journal'[x].doc = j.doc
              /\ \/ journal'[x].reverses \in Reversing(j)
                 \/ Posting(j) /\ x = z /\ journal'[x].reverses = 0
  <2>1. CASE \E k \in 1 .. n : x = l + k /\ journal'[x] = C[k]
        BY <1>6, <2>1
  <2>2. CASE Posting(j) /\ x = z /\ journal'[x] = C[n + 1]
        BY <1>6, <2>2
  <2>3. QED
        BY <1>8, <2>1, <2>2
<1>12. \A i \in Reversing(j) : \E x \in Added : journal'[x].reverses = i
  <2>1. SUFFICES ASSUME NEW i \in Reversing(j) PROVE \E x \in Added : journal'[x].reverses = i
        OBVIOUS
  <2>2. PICK k \in 1 .. n : s[k] = i
        BY <1>6
  <2>3. l + k \in Added /\ journal'[l + k] = C[k] /\ C[k].reverses = i
        BY <1>6, <1>9, <2>2
  <2>4. QED
        BY <2>3
<1>13. ASSUME NEW x \in Added, NEW y \in Added, journal'[x].reverses = journal'[y].reverses,
              journal'[x].reverses # 0
       PROVE  x = y
  <2>1. PICK k \in 1 .. n : x = l + k /\ journal'[x] = C[k]
        BY <1>6, <1>8, <1>13
  <2>2. PICK q \in 1 .. n : y = l + q /\ journal'[y] = C[q]
        BY <1>6, <1>8, <1>13
  <2>3. s[k] = s[q]
        BY <1>6, <1>13, <2>1, <2>2
  <2>4. QED
        BY <1>6, <2>1, <2>2, <2>3
<1>14. Revised(j, z)
       BY <1>6, <1>10, <1>11, <1>12, <1>13 DEF Revised
<1>15. QED
       BY <1>3, <1>5, <1>14

\* What a revision leaves live.
LEMMA CommitLive ==
    ASSUME BInv, Grows(journal, journal'), NEW j, j.live \subseteq DOMAIN journal,
           \A i \in j.live : journal[i].doc = j.doc, j.doc \in Docs, NEW z, Revised(j, z)
    PROVE  /\ Backward
           /\ LiveEntries(j.doc)' = (LiveEntries(j.doc) \ Reversing(j))
                                      \cup (IF Posting(j) THEN {z} ELSE {})
           /\ \A c \in Docs \ {j.doc} : /\ LiveEntries(c)' = LiveEntries(c)
                                        /\ EntriesOf(c)' = EntriesOf(c)
<1>1. Reversing(j) \subseteq DOMAIN journal /\ 0 \notin Reversing(j)
  <2>1. Reversing(j) \subseteq DOMAIN journal
        BY DEF Reversing
  <2>2. QED
        BY <2>1, ReversalFacts
<1>2. Backward
      BY <1>1 DEF Backward, Revised
<1>3. \A c : LiveEntries(c) \subseteq DOMAIN journal /\ 0 \notin LiveEntries(c)
  <2>1. ASSUME NEW c PROVE LiveEntries(c) \subseteq DOMAIN journal
        BY DEF LiveEntries
  <2>2. QED
        BY <2>1, ReversalFacts
<1>4. LiveEntries(j.doc)' = (LiveEntries(j.doc) \ Reversing(j))
                              \cup (IF Posting(j) THEN {z} ELSE {})
  <2>1. LiveEntries(j.doc)'
          = {i \in LiveEntries(j.doc) : \A x \in Added : journal'[x].reverses # i}
              \cup {x \in Added : journal'[x].doc = j.doc /\ journal'[x].reverses = 0}
        BY <1>2, LiveNext
  <2>2. {i \in LiveEntries(j.doc) : \A x \in Added : journal'[x].reverses # i}
           = LiveEntries(j.doc) \ Reversing(j)
    <3>1. ASSUME NEW i \in LiveEntries(j.doc)
          PROVE  (\A x \in Added : journal'[x].reverses # i) <=> i \notin Reversing(j)
          BY <1>3 DEF Revised
    <3>2. QED
          BY <3>1
  <2>3. {x \in Added : journal'[x].doc = j.doc /\ journal'[x].reverses = 0}
           = (IF Posting(j) THEN {z} ELSE {})
        BY <1>1 DEF Revised
  <2>4. QED
        BY <2>1, <2>2, <2>3
<1>5. ASSUME NEW c \in Docs \ {j.doc}
      PROVE  LiveEntries(c)' = LiveEntries(c) /\ EntriesOf(c)' = EntriesOf(c)
  <2>1. /\ LiveEntries(c)' = {i \in LiveEntries(c) : \A x \in Added : journal'[x].reverses # i}
                               \cup {x \in Added : journal'[x].doc = c /\ journal'[x].reverses = 0}
        /\ EntriesOf(c)' = EntriesOf(c) \cup {x \in Added : journal'[x].doc = c}
        BY <1>2, LiveNext
  <2>2. {x \in Added : journal'[x].doc = c} = {}
        BY DEF Revised
  <2>3. ASSUME NEW i \in LiveEntries(c), NEW x \in Added PROVE journal'[x].reverses # i
    <3>1. i \in DOMAIN journal /\ i # 0 /\ journal[i].doc = c
          BY <1>3 DEF LiveEntries
    <3>2. CASE journal'[x].reverses \in Reversing(j)
      <4>1. journal[journal'[x].reverses].doc = j.doc
            BY <3>2 DEF Reversing
      <4>2. QED
            BY <3>1, <4>1
    <3>3. QED
          BY <3>1, <3>2 DEF Revised
  <2>4. QED
        BY <2>1, <2>2, <2>3
<1>6. QED
      BY <1>2, <1>4, <1>5

\* What a revision makes of the one entry of its document.
LEMMA CommitFits ==
    ASSUME BInv, Grows(journal, journal'), NEW j, j.doc \in Docs, j.live = LiveEntries(j.doc),
           j.reposting \in {"post", "void"} \/ (Fit(j.doc) /\ Stated(j.doc) = Effect(j.doc, j.new)),
           j.reposting \in {"post", "void", "keep"}, j.reposting = "void" => j.new.voided,
           j.reposting = "post" => ~j.new.voided,
           NEW z, Revised(j, z), Stated(j.doc)' = Effect(j.doc, j.new),
           LiveEntries(j.doc)' = (LiveEntries(j.doc) \ Reversing(j))
                                   \cup (IF Posting(j) THEN {z} ELSE {})
    PROVE  Fit(j.doc)'
<1>1. /\ j.live \subseteq DOMAIN journal
      /\ \A i \in DOMAIN journal : journal'[i] = journal[i]
      BY Kept DEF BInv, Tables, LiveEntries
<1>2. j.reposting = "post" => Posted(j.doc, j.new) = Effect(j.doc, j.new)
      BY DEF Posted, Effect
<1>3. CASE Posting(j)
  <2>1. Reversing(j) = j.live
        BY <1>3 DEF Reversing, Posting
  <2>2. LiveEntries(j.doc)' = {z} /\ journal'[z].amount = Effect(j.doc, j.new)
        BY <1>2, <1>3, <2>1 DEF Revised, Posting
  <2>3. QED
        BY <2>2 DEF Fit
<1>4. CASE ~Posting(j) /\ j.reposting = "post" /\ SamePosting(j.live, j.doc, j.new)
  <2>1. LiveEntries(j.doc)' = j.live
        BY <1>4 DEF Reversing
  <2>2. PICK i \in j.live : j.live = {i} /\ journal[i].amount = Effect(j.doc, j.new)
        BY <1>2, <1>4 DEF SamePosting
  <2>3. journal'[i].amount = Effect(j.doc, j.new)
        BY <1>1, <2>2
  <2>4. QED
        BY <2>1, <2>2, <2>3 DEF Fit
<1>5. CASE ~Posting(j) /\ j.reposting = "post" /\ ~SamePosting(j.live, j.doc, j.new)
  <2>1. LiveEntries(j.doc)' = {} /\ Effect(j.doc, j.new) = 0
        BY <1>2, <1>5 DEF Reversing, Posting
  <2>2. QED
        BY <2>1 DEF Fit
<1>6. CASE j.reposting = "void"
  <2>1. LiveEntries(j.doc)' = {} /\ Effect(j.doc, j.new) = 0
        BY <1>6 DEF Reversing, Posting, Effect
  <2>2. QED
        BY <2>1 DEF Fit
<1>7. CASE j.reposting = "keep"
  <2>1. LiveEntries(j.doc)' = j.live /\ Fit(j.doc) /\ Stated(j.doc)' = Stated(j.doc)
        BY <1>7 DEF Reversing, Posting
  <2>2. CASE LiveEntries(j.doc) = {} /\ Stated(j.doc) = 0
        BY <2>1, <2>2 DEF Fit
  <2>3. CASE \E i \in LiveEntries(j.doc) :
                LiveEntries(j.doc) = {i} /\ journal[i].amount = Stated(j.doc)
    <3>1. PICK i \in j.live : j.live = {i} /\ journal[i].amount = Stated(j.doc)
          BY <2>3
    <3>2. journal'[i].amount = Stated(j.doc)
          BY <1>1, <3>1
    <3>3. QED
          BY <2>1, <3>1, <3>2 DEF Fit
  <2>4. QED
        BY <2>1, <2>2, <2>3 DEF Fit
<1>8. QED
      BY <1>3, <1>4, <1>5, <1>6, <1>7

\* A revision mends its document, unless others got between what it found live
\* and what it wrote, or keeps the entry of the version it read.
LEMMA CommitG == ASSUME GInv, BInv', NEW p \in Procs, Commit(p) PROVE GInv'
<1>1. PICK j, d, v, m, z : /\ j = job[p] /\ d = j.doc /\ v = j.new
                           /\ m = Len(versions[d]) + 1 /\ z = Len(journal')
      OBVIOUS
<1>2. /\ BInv /\ d \in Docs /\ Dated(v) /\ j.live \subseteq DOMAIN journal
      /\ \A i \in j.live : journal[i].doc = d
      /\ j.reposting \in {"post", "void", "keep"}
      /\ (j.reposting = "void" => v.voided) /\ (j.reposting = "post" => ~v.voided)
      /\ j.reposting = "keep" =>
           j.seen[d] \in DOMAIN versions[d] /\ Effect(d, v) = Effect(d, versions[d][j.seen[d]])
  <2>1. Ready(j, "commit") /\ Pending(j, "commit") /\ BInv
        BY <1>1 DEF Commit, GInv, BInv
  <2>2. QED
        BY <1>1, <2>1 DEF Ready, Pending
<1>3. /\ versions' = [versions EXCEPT ![d] = Append(@, v)]
      /\ journal' = journal \o Corrections(j) /\ blame' = CommitBlame(j)
      /\ Begin(p, "idle", NoJob) /\ UNCHANGED scope /\ pc[p] = "commit"
      BY <1>1 DEF Commit, Return
<1>4. /\ Longer /\ Stated(d)' = Effect(d, v) /\ \A c \in Docs \ {d} : versions'[c] = versions[c]
  <2>1. m = Len(versions[d]) + 1
        BY <1>1
  <2>2. QED
        BY <1>2, <1>3, <2>1, SavesLonger
<1>5. Grows(journal, journal') /\ Revised(j, z)
      BY <1>1, <1>2, <1>3, CommitAdds
<1>6. /\ Backward
      /\ LiveEntries(d)' = (LiveEntries(d) \ Reversing(j)) \cup (IF Posting(j) THEN {z} ELSE {})
      /\ \A c \in Docs \ {d} : LiveEntries(c)' = LiveEntries(c) /\ EntriesOf(c)' = EntriesOf(c)
      BY <1>1, <1>2, <1>5, CommitLive
<1>7. /\ EntryBlame(j) \subseteq blame'[d]
      /\ blame'[d] \subseteq EntryBlame(j) \cup {"overtaken"}
      /\ \A c \in Docs \ {d} : blame[c] \subseteq blame'[c]
      BY <1>1, <1>2, <1>3 DEF CommitBlame
<1>8. \A c : ~Way(p, c)
      BY <1>3 DEF Way
<1>9. ASSUME NEW c \in Docs, c # d PROVE OnceOnly(c)' /\ Agrees(c)'
  <2>1. Untouched(c)
        BY <1>4, <1>6, <1>9 DEF Untouched
  <2>2. QED
        BY <1>3, <1>5, <1>7, <1>8, <1>9, <2>1, AgreesOn
<1>10. ASSUME Paired(d), Reversing(j) \subseteq LiveEntries(d) PROVE Paired(d)'
  <2>1. \A x \in Added : journal'[x].doc = d /\ journal'[x].reverses # 0
                           => journal'[x].reverses \in LiveEntries(d)
        BY <1>5, <1>10 DEF Revised
  <2>2. \A x, y \in Added : journal'[x].reverses = journal'[y].reverses
                              /\ journal'[x].reverses # 0 => x = y
        BY <1>5 DEF Revised
  <2>3. QED
        BY <1>2, <1>5, <1>6, <1>10, <2>1, <2>2, PairedOn
<1>11. ASSUME j.live = LiveEntries(d),
              j.reposting \in {"post", "void"} \/ (Fit(d) /\ Stated(d) = Effect(d, v))
       PROVE  Fit(d)'
  <2>1. /\ j.doc \in Docs /\ j.live = LiveEntries(j.doc)
        /\ j.reposting \in {"post", "void"} \/ (Fit(j.doc) /\ Stated(j.doc) = Effect(j.doc, j.new))
        /\ j.reposting \in {"post", "void", "keep"}
        /\ (j.reposting = "void" => j.new.voided) /\ (j.reposting = "post" => ~j.new.voided)
        BY <1>1, <1>2, <1>11
  <2>2. /\ Stated(j.doc)' = Effect(j.doc, j.new)
        /\ LiveEntries(j.doc)' = (LiveEntries(j.doc) \ Reversing(j))
                                   \cup (IF Posting(j) THEN {z} ELSE {})
        BY <1>1, <1>4, <1>6
  <2>3. Fit(j.doc)'
        BY <1>2, <1>5, <2>1, <2>2, CommitFits
  <2>4. QED
        BY <1>1, <2>3
<1>12. ASSUME Reversing(j) # {} \/ Posting(j) \/ j.reposting = "void"
       PROVE  OnceOnly(d)' /\ Agrees(d)'
  <2>1. /\ "twice" \in blame[d] => "twice" \in blame'[d]
        /\ LiveEntries(d) \ j.live # {} => "stacked" \in blame'[d]
        /\ j.live \ LiveEntries(d) # {} => "twice" \in blame'[d]
        BY <1>1, <1>7, <1>12 DEF EntryBlame
  <2>2. OnceOnly(d)'
    <3>1. ASSUME "twice" \notin blame'[d] PROVE Paired(d)'
      <4>1. Paired(d)
            BY <1>2, <2>1, <3>1 DEF GInv, OnceOnly
      <4>2. Reversing(j) \subseteq LiveEntries(d)
            BY <2>1, <3>1 DEF Reversing
      <4>3. QED
            BY <1>10, <4>1, <4>2
    <3>2. QED
          BY <3>1 DEF OnceOnly
  <2>3. Agrees(d)'
    <3>1. ASSUME "twice" \notin blame'[d], "stacked" \notin blame'[d] PROVE Fit(d)'
      <4>1. j.live = LiveEntries(d)
            BY <2>1, <3>1
      <4>2. j.reposting \in {"post", "void"}
            BY <1>2, <1>12 DEF Reversing, Posting
      <4>3. QED
            BY <1>11, <4>1, <4>2
    <3>2. QED
          BY <3>1 DEF Agrees, Faults
  <2>4. QED
        BY <2>2, <2>3
<1>13. ASSUME ~(Reversing(j) # {} \/ Posting(j) \/ j.reposting = "void")
       PROVE  OnceOnly(d)' /\ Agrees(d)'
  <2>1. /\ blame[d] \subseteq blame'[d]
        /\ j.live # LiveEntries(d) \/ j.seen[d] # Len(versions[d]) => "lapsed" \in blame'[d]
        BY <1>1, <1>7, <1>13 DEF EntryBlame
  <2>2. OnceOnly(d)'
        BY <1>2, <1>10, <1>13, <2>1 DEF GInv, OnceOnly
  <2>3. Agrees(d)'
    <3>1. CASE blame[d] \cap Faults # {}
          BY <2>1, <3>1 DEF Agrees
    <3>2. CASE OnItsWay(d)
          BY <1>2, <1>3, <1>8, <3>2, OtherWays DEF Agrees
    <3>3. CASE "lapsed" \in blame'[d]
          BY <3>3 DEF Agrees, Faults
    <3>4. CASE Fit(d) /\ "lapsed" \notin blame'[d]
      <4>1. j.live = LiveEntries(d) /\ j.seen[d] = Len(versions[d])
            BY <2>1, <3>4
      <4>2. j.reposting = "keep" => Stated(d) = Effect(d, v)
        <5>1. ASSUME j.reposting = "keep" PROVE Saved(d) /\ Latest(d) = versions[d][j.seen[d]]
          <6>1. Len(versions[d]) \in DOMAIN versions[d]
                BY <1>2, <4>1, <5>1
          <6>2. Saved(d)
                BY <6>1 DEF Saved
          <6>3. QED
                BY <4>1, <6>2 DEF Latest, Last
        <5>2. QED
              BY <1>2, <5>1 DEF Stated
      <4>3. Fit(d)'
            BY <1>2, <1>11, <3>4, <4>1, <4>2
      <4>4. QED
            BY <4>3 DEF Agrees
    <3>5. QED
          BY <1>2, <3>1, <3>2, <3>3, <3>4 DEF GInv, Agrees
  <2>4. QED
        BY <2>2, <2>3
<1>14. \A c \in Docs : OnceOnly(c)' /\ Agrees(c)'
       BY <1>9, <1>12, <1>13
<1>15. Pending(NoJob, "idle")'
       BY DEF Pending
<1>16. QED
       BY <1>3, <1>4, <1>14, <1>15, StepG

-----------------------------------------------------------------------------
LEMMA InitGInv == Init => GInv
<1> SUFFICES ASSUME Init PROVE GInv
    OBVIOUS
<1>1. BInv
      BY InitBInv
<1>2. DOMAIN journal = {}
      BY SeqFacts DEF Init
<1>3. ASSUME NEW d \in Docs PROVE OnceOnly(d) /\ Agrees(d)
  <2>1. EntriesOf(d) = {} /\ LiveEntries(d) = {}
        BY <1>2 DEF EntriesOf, LiveEntries
  <2>2. Stated(d) = 0
        BY DEF Init, Stated, Saved
  <2>3. QED
        BY <2>1, <2>2 DEF OnceOnly, Paired, Agrees, Fit
<1>4. ASSUME NEW p \in Procs PROVE Pending(job[p], pc[p])
      BY DEF Init, Pending
<1>5. QED
      BY <1>1, <1>3, <1>4 DEF GInv

LEMMA NextGInv == GInv /\ [Next]_vars => GInv'
<1> SUFFICES ASSUME GInv, [Next]_vars PROVE GInv'
    OBVIOUS
<1>1. BInv'
      BY NextBInv DEF GInv
<1>2. CASE UNCHANGED vars
  <2>1. UNCHANGED <<versions, journal, blame, pc, job, scope>>
        BY <1>2 DEF vars, booksVars
  <2>2. CASE \E p : p \in Procs
        BY <1>1, <2>1, <2>2, StayG
  <2>3. CASE ~\E p : p \in Procs
    <3>1. ASSUME NEW d \in Docs PROVE OnceOnly(d)' /\ Agrees(d)'
      <4>1. OnceOnly(d) /\ Agrees(d) /\ ~OnItsWay(d)
            BY <2>3 DEF GInv, OnItsWay
      <4>2. QED
            BY <2>1, <4>1 DEF OnceOnly, Agrees, Paired, Fit, EntriesOf, LiveEntries, Reversed,
               Stated, Saved, Latest, Effect, Worth
    <3>2. QED
          BY <1>1, <2>3, <3>1 DEF GInv
  <2>4. QED
        BY <2>2, <2>3
<1>3. ASSUME NEW p \in Procs, ReopenPeriod(p) PROVE GInv'
  <2>1. UNCHANGED <<versions, journal, blame, pc, job, scope>>
        BY <1>3 DEF ReopenPeriod
  <2>2. QED
        BY <1>1, <2>1, StayG
<1>4. CASE Next
      BY <1>1, <1>3, <1>4, BeginG, GateG, GiveUpG, CheckG, PlanG, CreateSaveG, InsertG, CommitG
      DEF Next
<1>5. QED
      BY <1>2, <1>4

\* The journal holds for every document what its newest version says, whatever
\* is created, edited, voided, applied and reversed by any number of processes
\* that may be killed part way, but for the faults a document has been through.
THEOREM BookAgreesHolds == Spec => []BookAgrees
BY GInvAgrees, InitGInv, NextGInv, PTL DEF Spec
=============================================================================
