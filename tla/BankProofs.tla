----------------------------- MODULE BankProofs -----------------------------
(***************************************************************************)
(* Proofs about the bank statements, for every record of a bank, every set *)
(* of files and any number of processes: an entry settles one line, a line *)
(* is answered once and in full, and a closed statement stays tied.        *)
(***************************************************************************)
EXTENDS Bank, CommonProofs, SequenceTheorems, FiniteSetTheorems, TLAPS

LEMMA MinIsIn ==
    ASSUME NEW S \in SUBSET Nat, S # {}
    PROVE  Min(S) \in S
<1> DEFINE F == [x \in S |-> x]
<1>1. \A x \in S : F[x] \in Nat
      OBVIOUS
<1>2. \E x \in S : \A y \in S : F[x] <= F[y]
      BY <1>1, Smallest
<1>3. QED
      BY <1>2 DEF Min

-----------------------------------------------------------------------------
\* A table is a sequence, whatever its rows are.
IsSeq(s) == s \in Seq({s[i] : i \in DOMAIN s})

LEMMA Appended ==
    ASSUME NEW s, IsSeq(s), NEW e, NEW n, n = Len(s) + 1
    PROVE  /\ IsSeq(Append(s, e)) /\ n \in Nat \ {0} /\ n \notin DOMAIN s
           /\ DOMAIN s \subseteq Nat \ {0}
           /\ DOMAIN Append(s, e) = DOMAIN s \cup {n} /\ Append(s, e)[n] = e
           /\ \A i \in DOMAIN s : Append(s, e)[i] = s[i]
<1> DEFINE T == {s[i] : i \in DOMAIN s} \cup {e}
<1>1. s \in Seq(T) /\ e \in T
      BY DEF IsSeq
<1>2. /\ Append(s, e) \in Seq(T) /\ Len(Append(s, e)) = Len(s) + 1
      /\ \A i \in 1 .. Len(s) : Append(s, e)[i] = s[i]
      /\ Append(s, e)[Len(s) + 1] = e
      BY <1>1
<1>3. DOMAIN s = 1 .. Len(s) /\ Len(s) \in Nat
      BY <1>1
<1>4. DOMAIN Append(s, e) = 1 .. Len(s) + 1
      BY <1>2, <1>3
<1>5. IsSeq(Append(s, e))
      BY <1>2, <1>4 DEF IsSeq
<1>6. QED
      BY <1>2, <1>3, <1>4, <1>5

LEMMA Rewritten ==
    ASSUME NEW s, IsSeq(s), NEW i \in DOMAIN s, NEW e, NEW t, t = [s EXCEPT ![i] = e]
    PROVE  IsSeq(t) /\ DOMAIN t = DOMAIN s
<1> DEFINE T == {s[k] : k \in DOMAIN s} \cup {e}
<1>1. s \in Seq(T) /\ e \in T
      BY DEF IsSeq
<1>2. i \in 1 .. Len(s)
      BY <1>1
<1> HIDE DEF T
<1>3. t \in Seq(T)
      BY <1>1, <1>2, ExceptSeq
<1>4. DOMAIN t = DOMAIN s
      OBVIOUS
<1>5. Len(t) \in Nat /\ DOMAIN t = 1 .. Len(t)
      BY <1>3
<1>6. t = [k \in 1 .. Len(t) |-> t[k]]
      BY <1>5
<1> DEFINE U == {t[k] : k \in DOMAIN t}
<1>7. \A k \in 1 .. Len(t) : t[k] \in U
      BY <1>5
<1> HIDE DEF U
<1>8. t \in [1 .. Len(t) -> U]
      BY <1>6, <1>7
<1>9. t \in Seq(U)
  <2>1. PICK n \in Nat : n = Len(t)
        BY <1>5
  <2>2. t \in [1 .. n -> U]
        BY <1>8, <2>1
  <2>3. t \in UNION {[1 .. m -> U] : m \in Nat}
        BY <2>2
  <2>4. QED
        BY <2>3, SeqDef, Zenon
<1>10. QED
      BY <1>4, <1>9 DEF IsSeq, U

-----------------------------------------------------------------------------
EntryShaped(e) ==
    /\ DOMAIN e = {"kind", "bank", "gross", "day", "of", "cleared"}
    /\ e.cleared \in BOOLEAN
    /\ e.kind \in {"payment", "purchase", "settlement", "deposit"} => e.day \in Nat

JobShaped(j) ==
    DOMAIN j = {"statement", "todo", "line", "kind", "entry", "fee", "wasCleared", "seen", "count"}

Cleared(e) == e \in DOMAIN journal /\ journal[e].cleared

IsAnswer(e, l) == e \in DOMAIN journal /\ journal[e].kind = "bank_line" /\ journal[e].of = l

\* A person's line under confirmation: it was looked at, and stays so.
Confirming(j) ==
    /\ j.kind = "manual" /\ j.seen = "proposed"
    /\ j.line \in DOMAIN rows /\ rows[j.line].kind # "none"

\* What a process at a place remembers.
OnTask(j, at) ==
    /\ JobShaped(j)
    /\ \A l \in j.todo : l[2] \in Ids
    /\ at = "idle" => j = NoJob
    /\ at = "match" => j.seen = "none"
    /\ at = "fee" => j.seen = "none" /\ j.kind # "manual"
    /\ at = "confirm" => Confirming(j) /\ j.wasCleared = FALSE
    /\ at \in {"clear", "set"} =>
         /\ j.entry \in DOMAIN journal
         /\ j.kind \in {"exact", "settlement", "manual"}
         /\ j.kind = "manual" => Confirming(j) /\ IsAnswer(j.entry, j.line)
         /\ j.kind # "manual" => j.seen = "none"
    /\ at = "clear" => j.wasCleared = FALSE
    /\ at = "set" => Cleared(j.entry)

Tables ==
    /\ scope \in Scopes
    /\ IsSeq(journal) /\ \A e \in DOMAIN journal : EntryShaped(journal[e])
    /\ rows = [l \in DOMAIN rows |-> rows[l]] /\ \A l \in DOMAIN rows : l[2] \in Ids
    /\ pc = [p \in Procs |-> pc[p]] /\ job = [p \in Procs |-> job[p]]
    /\ \A e \in DOMAIN journal : journal[e].kind = "bank_line" => journal[e].of \in DOMAIN rows

\* What settles a line was cleared.
SettledIsCleared == \A l \in DOMAIN rows : Resolved(l) => Cleared(rows[l].entry)

Settles(l, e) == l \in DOMAIN rows /\ Resolved(l) /\ rows[l].entry = e
InHand(p, e)  == pc[p] = "set" /\ job[p].entry = e

\* Lines that name an entry, and processes about to make one name it: of two
\* of them the later cleared what was clear.
Apart ==
    /\ \A l, m \in DOMAIN rows, e \in DOMAIN journal :
          l # m /\ Settles(l, e) /\ Settles(m, e) => e \in doubled
    /\ \A p \in Procs, l \in DOMAIN rows, e \in DOMAIN journal :
          InHand(p, e) /\ Settles(l, e) => e \in doubled
    /\ \A p, q \in Procs, e \in DOMAIN journal :
          p # q /\ InHand(p, e) /\ InHand(q, e) => e \in doubled

Carries(p, l, e) ==
    pc[p] \in {"clear", "set"} /\ job[p].kind = "manual" /\ job[p].line = l /\ job[p].entry = e

\* A line that was not torn has one answer at most, which settles it or is on
\* its way to.
AnsweredOnce ==
    \A l \in DOMAIN rows \ torn : \A e \in DOMAIN journal :
        IsAnswer(e, l) =>
            /\ \A f \in DOMAIN journal : IsAnswer(f, l) => f = e
            /\ Settles(l, e) \/ (~Resolved(l) /\ \E p \in Procs : Carries(p, l, e))

KInv ==
    /\ Tables
    /\ \A p \in Procs : OnTask(job[p], pc[p])
    /\ SettledIsCleared /\ Apart /\ AnsweredOnce

-----------------------------------------------------------------------------
(* What no step takes back. *)

\* Entries and lines stay, what was cleared and what was looked at too.
Grows ==
    /\ scope' = scope
    /\ \A e \in DOMAIN journal :
         /\ e \in DOMAIN journal'
         /\ journal'[e].kind = journal[e].kind /\ journal'[e].of = journal[e].of
         /\ journal[e].cleared => journal'[e].cleared
    /\ \A l \in DOMAIN rows :
         l \in DOMAIN rows' /\ (rows[l].kind # "none" => rows'[l].kind # "none")

Others(p) == \A q \in Procs \ {p} : pc'[q] = pc[q] /\ job'[q] = job[q]

Places == pc' = [q \in Procs |-> pc'[q]] /\ job' = [q \in Procs |-> job'[q]]

LEMMA Minded ==
    ASSUME Grows, NEW q \in Procs, OnTask(job[q], pc[q]), pc'[q] = pc[q], job'[q] = job[q]
    PROVE  OnTask(job[q], pc[q])'
<1>1. JobShaped(job[q])' /\ (\A l \in job[q].todo : l[2] \in Ids)'
      BY DEF OnTask, JobShaped, Grows, Ids
<1>2. Confirming(job[q]) => Confirming(job[q])'
      BY DEF Confirming, Grows
<1>3. /\ job[q].entry \in DOMAIN journal => (job[q].entry \in DOMAIN journal)'
      /\ IsAnswer(job[q].entry, job[q].line) => IsAnswer(job[q].entry, job[q].line)'
      /\ Cleared(job[q].entry) => Cleared(job[q].entry)'
      BY DEF IsAnswer, Cleared, Grows
<1>4. QED
      BY <1>1, <1>2, <1>3 DEF OnTask

LEMMA AllMinded ==
    ASSUME Grows, NEW p \in Procs, Others(p), \A q \in Procs : OnTask(job[q], pc[q]),
           OnTask(job[p], pc[p])'
    PROVE  (\A q \in Procs : OnTask(job[q], pc[q]))'
<1>1. SUFFICES ASSUME NEW q \in Procs, q # p PROVE OnTask(job[q], pc[q])'
      OBVIOUS
<1>2. QED
      BY <1>1, Minded DEF Others

LEMMA StandStill ==
    ASSUME KInv, UNCHANGED <<scope, rows, journal, pc, job, torn, doubled>>
    PROVE  KInv'
BY DEF KInv, Tables, OnTask, JobShaped, Confirming, IsAnswer, Cleared, Ids, SettledIsCleared,
       Apart, Settles, Resolved, InHand, AnsweredOnce, Carries, feed, EntryShaped

\* A process moves on and no table of entries or lines does; what it was
\* about to say of an answer is torn if it drops it.
LEMMA Quiet ==
    ASSUME KInv, NEW p \in Procs, Others(p), Places, OnTask(job[p], pc[p])',
           scope' = scope, rows' = rows, journal' = journal, doubled' = doubled,
           torn \subseteq torn', pc'[p] # "set",
           \A l, e : Carries(p, l, e) => l \in torn'
    PROVE  KInv'
<1>1. Grows
      BY DEF Grows
<1>2. Tables'
      BY DEF KInv, Tables, Places, Ids, feed, EntryShaped
<1>3. (\A q \in Procs : OnTask(job[q], pc[q]))'
      BY <1>1, AllMinded DEF KInv
<1>4. SettledIsCleared'
      BY DEF KInv, SettledIsCleared, Resolved, Cleared
<1>5. Apart'
  <2>1. \A l, e : Settles(l, e)' <=> Settles(l, e)
        BY DEF Settles, Resolved
  <2>2. \A q \in Procs : \A e : InHand(q, e)' => InHand(q, e)
        BY DEF InHand, Others
  <2>3. QED
        BY <2>1, <2>2 DEF KInv, Apart
<1>6. AnsweredOnce'
  <2>1. SUFFICES ASSUME NEW l \in DOMAIN rows, l \notin torn', NEW e \in DOMAIN journal, IsAnswer(e, l)
                 PROVE  /\ \A f \in DOMAIN journal : IsAnswer(f, l) => f = e
                        /\ \/ Settles(l, e)
                           \/ ~Resolved(l) /\ \E q \in Procs : Carries(q, l, e)'
        BY DEF AnsweredOnce, IsAnswer, Settles, Resolved
  <2>2. /\ \A f \in DOMAIN journal : IsAnswer(f, l) => f = e
        /\ Settles(l, e) \/ (~Resolved(l) /\ \E q \in Procs : Carries(q, l, e))
        BY <2>1 DEF KInv, AnsweredOnce
  <2>3. \A q \in Procs : Carries(q, l, e) => Carries(q, l, e)'
        BY <2>1 DEF Carries, Others
  <2>4. QED
        BY <2>2, <2>3
<1>7. QED
      BY <1>2, <1>3, <1>4, <1>5, <1>6 DEF KInv

\* An entry is posted: nothing names it yet.
LEMMA Posted ==
    ASSUME KInv, NEW e, EntryShaped(e), e.cleared = FALSE,
           e.kind = "bank_line" => e.of \in DOMAIN rows,
           journal' = Append(journal, e), scope' = scope, rows' = rows, Places
    PROVE  /\ Grows /\ Tables' /\ SettledIsCleared'
           /\ Len(journal) + 1 \notin DOMAIN journal
           /\ DOMAIN journal' = DOMAIN journal \cup {Len(journal) + 1}
           /\ journal'[Len(journal) + 1] = e
           /\ \A f \in DOMAIN journal : journal'[f] = journal[f]
           /\ \A l \in DOMAIN rows : ~Settles(l, Len(journal) + 1)
           /\ \A q \in Procs : ~InHand(q, Len(journal) + 1)
<1> DEFINE n == Len(journal) + 1
<1>1. /\ IsSeq(journal') /\ n \notin DOMAIN journal
      /\ DOMAIN journal' = DOMAIN journal \cup {n} /\ journal'[n] = e
      /\ \A f \in DOMAIN journal : journal'[f] = journal[f]
      BY Appended DEF KInv, Tables
<1> HIDE DEF n
<1>2. Grows
      BY <1>1 DEF Grows
<1>3. \A f \in DOMAIN journal' : EntryShaped(journal'[f])
      BY <1>1 DEF KInv, Tables
<1>4. \A f \in DOMAIN journal' : journal'[f].kind = "bank_line" => journal'[f].of \in DOMAIN rows
      BY <1>1 DEF KInv, Tables
<1>5. Tables'
      BY <1>1, <1>3, <1>4 DEF KInv, Tables, Places, Ids, feed, EntryShaped, IsSeq
<1>6. SettledIsCleared'
      BY <1>1 DEF KInv, SettledIsCleared, Resolved, Cleared
<1>7. \A l \in DOMAIN rows : ~Settles(l, n)
      BY <1>1 DEF KInv, SettledIsCleared, Settles, Cleared
<1>8. \A q \in Procs : ~InHand(q, n)
      BY <1>1 DEF KInv, OnTask, InHand, Cleared
<1>9. QED
      BY <1>1, <1>2, <1>5, <1>6, <1>7, <1>8 DEF n

\* The entry is no answer, and whoever posts it was clearing nothing.
LEMMA PostedBeside ==
    ASSUME KInv, NEW e, EntryShaped(e), e.cleared = FALSE, e.kind # "bank_line",
           journal' = Append(journal, e), UNCHANGED <<scope, rows, torn, doubled>>, Places,
           \A q \in Procs : (pc'[q] = pc[q] /\ job'[q] = job[q])
                            \/ (pc[q] = "fee" /\ pc'[q] = "match" /\ job'[q] = job[q])
    PROVE  KInv'
<1> DEFINE n == Len(journal) + 1
<1>1. /\ Grows /\ Tables' /\ SettledIsCleared' /\ n \notin DOMAIN journal
      /\ DOMAIN journal' = DOMAIN journal \cup {n} /\ journal'[n] = e
      /\ \A f \in DOMAIN journal : journal'[f] = journal[f]
      /\ \A l \in DOMAIN rows : ~Settles(l, n)
      /\ \A q \in Procs : ~InHand(q, n)
      BY Posted
<1> HIDE DEF n
<1>2. (\A q \in Procs : OnTask(job[q], pc[q]))'
  <2>1. SUFFICES ASSUME NEW q \in Procs PROVE OnTask(job[q], pc[q])'
        OBVIOUS
  <2>2. OnTask(job[q], pc[q])
        BY DEF KInv
  <2>3. CASE pc'[q] = pc[q] /\ job'[q] = job[q]
        BY <1>1, <2>2, <2>3, Minded
  <2>4. CASE pc[q] = "fee" /\ pc'[q] = "match" /\ job'[q] = job[q]
        BY <1>1, <2>2, <2>4 DEF OnTask, JobShaped, Grows, Ids, feed
  <2>5. QED
        BY <2>3, <2>4
<1>3. Apart'
  <2>1. \A l, f : Settles(l, f)' <=> Settles(l, f)
        BY DEF Settles, Resolved
  <2>2. \A q \in Procs : \A f : InHand(q, f)' => InHand(q, f)
        BY DEF InHand
  <2>3. QED
        BY <1>1, <2>1, <2>2 DEF KInv, Apart
<1>4. AnsweredOnce'
  <2>1. \A l, f : IsAnswer(f, l)' <=> IsAnswer(f, l)
        BY <1>1 DEF IsAnswer
  <2>2. \A l, f : Settles(l, f)' <=> Settles(l, f)
        BY DEF Settles, Resolved
  <2>3. \A q \in Procs : \A l, f : Carries(q, l, f) => Carries(q, l, f)'
        BY DEF Carries
  <2>4. SUFFICES ASSUME NEW l \in DOMAIN rows, l \notin torn, NEW f \in DOMAIN journal', IsAnswer(f, l)
                 PROVE  /\ \A g \in DOMAIN journal' : IsAnswer(g, l) => g = f
                        /\ \/ Settles(l, f)
                           \/ ~Resolved(l) /\ \E q \in Procs : Carries(q, l, f)'
        BY <2>1, <2>2 DEF AnsweredOnce, Resolved
  <2>5. f \in DOMAIN journal /\ \A g : IsAnswer(g, l) => g \in DOMAIN journal
        BY <2>4 DEF IsAnswer
  <2>6. QED
        BY <2>3, <2>4, <2>5 DEF KInv, AnsweredOnce
<1>5. QED
      BY <1>1, <1>2, <1>3, <1>4 DEF KInv

-----------------------------------------------------------------------------
(* One lemma per step that writes one of the tables. *)

\* Whatever the books post, it is one entry with a day and two amounts.
LEMMA BooksPostWrites ==
    ASSUME KInv, BooksPost
    PROVE  \E i \in DOMAIN feed, kind \in {"payment", "purchase", "settlement", "deposit"},
              bank \in Int, gross \in Int :
              /\ journal' = Append(journal, Entry(kind, bank, gross, feed[i].day, NoLine))
              /\ UNCHANGED <<scope, rows, pc, job, torn, doubled>>
<1>1. \A i \in DOMAIN feed : feed[i].amount \in Int
      BY ScopesAssumption DEF KInv, Tables, feed
<1>2. CASE BooksPostPayment
  <2>1. PICK i \in DOMAIN feed :
           /\ journal' = Append(journal,
                  Entry(IF feed[i].amount < 0 THEN "purchase" ELSE "payment", feed[i].amount, 0,
                        feed[i].day, NoLine))
           /\ UNCHANGED <<scope, rows, pc, job, torn, doubled>>
        BY <1>2 DEF BooksPostPayment, History
  <2>2. PICK kind \in {"payment", "purchase"} :
           journal' = Append(journal, Entry(kind, feed[i].amount, 0, feed[i].day, NoLine))
        BY <2>1
  <2>3. QED
        BY <1>1, <2>1, <2>2
<1>3. CASE BooksPostSettlement
  <2>1. PICK i \in DOMAIN feed, kind \in SettlementKinds, short \in {0, 1} :
           \E beside \in Beside[kind] :
              /\ journal' = Append(journal, Entry(kind, feed[i].amount + short + beside,
                                                  feed[i].amount + short, feed[i].day, NoLine))
              /\ UNCHANGED <<scope, rows, pc, job, torn, doubled>>
        BY <1>3 DEF BooksPostSettlement, History
  <2>2. kind \in {"settlement", "deposit"} /\ Beside[kind] \subseteq {-1, 0, 1}
        BY DEF SettlementKinds, Beside
  <2>3. PICK beside \in {-1, 0, 1} :
           /\ journal' = Append(journal, Entry(kind, feed[i].amount + short + beside,
                                               feed[i].amount + short, feed[i].day, NoLine))
           /\ UNCHANGED <<scope, rows, pc, job, torn, doubled>>
        BY <2>1, <2>2
  <2>4. feed[i].amount + short \in Int /\ feed[i].amount + short + beside \in Int
        BY <1>1, <2>3
  <2>5. QED
        BY <2>2, <2>3, <2>4
<1>4. QED
      BY <1>2, <1>3 DEF BooksPost

LEMMA BooksPostKeeps ==
    ASSUME KInv, BooksPost
    PROVE  KInv'
<1>1. PICK i \in DOMAIN feed, kind \in {"payment", "purchase", "settlement", "deposit"},
           bank \in Int, gross \in Int :
         /\ journal' = Append(journal, Entry(kind, bank, gross, feed[i].day, NoLine))
         /\ UNCHANGED <<scope, rows, pc, job, torn, doubled>>
      BY BooksPostWrites
<1>2. feed[i].day \in Nat
      BY ScopesAssumption DEF KInv, Tables, feed
<1> DEFINE e == Entry(kind, bank, gross, feed[i].day, NoLine)
<1>3. EntryShaped(e) /\ e.cleared = FALSE /\ e.kind # "bank_line"
      BY <1>1, <1>2 DEF EntryShaped, Entry
<1>4. Places
      BY <1>1 DEF Places, KInv, Tables
<1> HIDE DEF e
<1>5. journal' = Append(journal, e)
      BY <1>1 DEF e
<1>6. QED
      BY <1>1, <1>3, <1>4, <1>5, PostedBeside

LEMMA PostFeeKeeps ==
    ASSUME KInv, NEW p \in Procs, PostFee(p)
    PROVE  KInv'
<1> DEFINE e == Entry("fee", -job[p].fee, 0, Day(job[p].line), job[p].line)
<1>1. /\ pc[p] = "fee" /\ journal' = Append(journal, e) /\ pc' = [pc EXCEPT ![p] = "match"]
      /\ UNCHANGED <<scope, rows, job, torn, doubled>>
      BY DEF PostFee, History, Goto
<1>2. EntryShaped(e) /\ e.cleared = FALSE /\ e.kind # "bank_line"
      BY DEF EntryShaped, Entry
<1> HIDE DEF e
<1>3. /\ Places
      /\ \A q \in Procs : (pc'[q] = pc[q] /\ job'[q] = job[q])
                          \/ (pc[q] = "fee" /\ pc'[q] = "match" /\ job'[q] = job[q])
      BY <1>1 DEF Places, KInv, Tables
<1>4. QED
      BY <1>1, <1>2, <1>3, PostedBeside

\* The confirmation's entry is the first answer to a line that nobody else was
\* answering and that is as it was read.
LEMMA PostConfirmedKeeps ==
    ASSUME KInv, NEW p \in Procs, PostConfirmed(p)
    PROVE  KInv'
<1>0. PICK l, n : l = job[p].line /\ n = Len(journal) + 1
      OBVIOUS
<1> DEFINE e == Entry("bank_line", Magnitude(Amount(l)), 0, Day(l), l)
<1>1. /\ pc[p] = "confirm" /\ journal' = Append(journal, e)
      /\ job' = [job EXCEPT ![p].entry = n] /\ pc' = [pc EXCEPT ![p] = "clear"]
      /\ torn' = torn \cup (IF Contended(p, l) \/ rows[l].kind # job[p].seen THEN {l} ELSE {})
      /\ UNCHANGED <<scope, rows, doubled>>
      BY <1>0 DEF PostConfirmed, Goto
<1>2. /\ OnTask(job[p], pc[p]) /\ Confirming(job[p]) /\ job[p].wasCleared = FALSE
      /\ l \in DOMAIN rows
      BY <1>0, <1>1 DEF KInv, OnTask, Confirming
<1>3. EntryShaped(e) /\ e.cleared = FALSE /\ e.kind = "bank_line" /\ e.of = l
      BY DEF EntryShaped, Entry
<1> HIDE DEF e
<1>4. /\ Places /\ Others(p) /\ pc'[p] = "clear"
      /\ JobShaped(job'[p]) /\ job'[p] = [job[p] EXCEPT !.entry = n]
      BY <1>1, <1>2 DEF Places, Others, KInv, Tables, OnTask, JobShaped
<1>5. /\ Grows /\ Tables' /\ SettledIsCleared' /\ n \notin DOMAIN journal
      /\ DOMAIN journal' = DOMAIN journal \cup {n} /\ journal'[n] = e
      /\ \A f \in DOMAIN journal : journal'[f] = journal[f]
      /\ \A m \in DOMAIN rows : ~Settles(m, n)
      /\ \A q \in Procs : ~InHand(q, n)
      BY <1>0, <1>1, <1>2, <1>3, <1>4, Posted
<1>6. /\ job'[p].line = l /\ job'[p].entry = n /\ job'[p].kind = "manual"
      /\ job'[p].seen = "proposed" /\ job'[p].wasCleared = FALSE /\ job'[p].todo = job[p].todo
      BY <1>0, <1>2, <1>4 DEF OnTask, JobShaped, Confirming
<1>7. IsAnswer(n, l)' /\ \A f \in DOMAIN journal : \A m : IsAnswer(f, m)' <=> IsAnswer(f, m)
      BY <1>3, <1>5 DEF IsAnswer
<1>8. OnTask(job[p], pc[p])'
  <2>1. Confirming(job[p])'
        BY <1>0, <1>2, <1>5, <1>6 DEF Confirming, Grows
  <2>2. (\A m \in job[p].todo : m[2] \in Ids)'
        BY <1>1, <1>2, <1>6 DEF OnTask, Ids, feed
  <2>3. IsAnswer(job[p].entry, job[p].line)' /\ (job[p].entry \in DOMAIN journal)'
        BY <1>5, <1>6, <1>7 DEF IsAnswer
  <2>4. QED
        BY <1>4, <1>6, <2>1, <2>2, <2>3 DEF OnTask
<1>9. (\A q \in Procs : OnTask(job[q], pc[q]))'
      BY <1>4, <1>5, <1>8, AllMinded DEF KInv
<1>10. \A m, f : Settles(m, f)' <=> Settles(m, f)
      BY <1>1 DEF Settles, Resolved
<1>11. Apart'
  <2>1. \A q \in Procs : \A f : InHand(q, f)' => InHand(q, f)
        BY <1>1, <1>4 DEF InHand, Others
  <2>2. QED
        BY <1>1, <1>5, <1>10, <2>1 DEF KInv, Apart
<1>12. AnsweredOnce'
  <2>1. SUFFICES ASSUME NEW m \in DOMAIN rows, m \notin torn', NEW f \in DOMAIN journal', IsAnswer(f, m)'
                 PROVE  /\ \A g \in DOMAIN journal' : IsAnswer(g, m)' => g = f
                        /\ \/ Settles(m, f)
                           \/ ~Resolved(m) /\ \E q \in Procs : Carries(q, m, f)'
        BY <1>1, <1>10 DEF AnsweredOnce, Resolved
  <2>2. CASE m = l
    <3>1. ~Contended(p, l) /\ rows[l].kind = "proposed"
          BY <1>1, <1>2, <2>1, <2>2 DEF Confirming
    <3>2. ~Resolved(l)
          BY <3>1 DEF Resolved
    <3>3. \A g \in DOMAIN journal : ~IsAnswer(g, l)
      <4>1. SUFFICES ASSUME NEW g \in DOMAIN journal, IsAnswer(g, l) PROVE FALSE
            OBVIOUS
      <4>2. PICK q \in Procs : Carries(q, l, g)
            BY <1>1, <2>1, <2>2, <3>2, <4>1 DEF KInv, AnsweredOnce, Settles
      <4>3. QED
            BY <1>1, <3>1, <4>2 DEF Carries, Contended
    <3>4. f = n /\ \A g \in DOMAIN journal' : IsAnswer(g, l)' => g = n
          BY <1>5, <1>7, <2>1, <2>2, <3>3
    <3>5. Carries(p, l, n)'
          BY <1>4, <1>6 DEF Carries
    <3>6. QED
          BY <2>2, <3>2, <3>4, <3>5
  <2>3. CASE m # l
    <3>1. ~IsAnswer(n, m)'
          BY <1>3, <1>5, <2>3 DEF IsAnswer
    <3>2. f \in DOMAIN journal /\ IsAnswer(f, m)
          BY <1>5, <1>7, <2>1, <3>1
    <3>3. /\ \A g \in DOMAIN journal : IsAnswer(g, m) => g = f
          /\ Settles(m, f) \/ (~Resolved(m) /\ \E q \in Procs : Carries(q, m, f))
          BY <1>1, <2>1, <3>2 DEF KInv, AnsweredOnce
    <3>4. \A q \in Procs : Carries(q, m, f) => Carries(q, m, f)'
          BY <1>1, <1>4 DEF Carries, Others
    <3>5. QED
          BY <1>5, <1>7, <3>1, <3>3, <3>4
  <2>4. QED
        BY <2>2, <2>3
<1>13. QED
      BY <1>5, <1>9, <1>11, <1>12 DEF KInv

\* Whoever clears what was clear by then has raced another.
LEMMA ClearJournalLineKeeps ==
    ASSUME KInv, NEW p \in Procs, ClearJournalLine(p)
    PROVE  KInv'
<1>0. PICK e : e = job[p].entry
      OBVIOUS
<1> DEFINE c == [journal[e] EXCEPT !.cleared = TRUE]
<1>1. /\ pc[p] = "clear" /\ journal' = [journal EXCEPT ![e].cleared = TRUE]
      /\ doubled' = doubled \cup (IF journal[e].cleared /\ ~job[p].wasCleared THEN {e} ELSE {})
      /\ pc' = [pc EXCEPT ![p] = "set"]
      /\ UNCHANGED <<scope, rows, job, torn>>
      BY <1>0 DEF ClearJournalLine, Goto
<1>2. /\ OnTask(job[p], pc[p]) /\ e \in DOMAIN journal /\ job[p].wasCleared = FALSE
      BY <1>0, <1>1 DEF KInv, OnTask
<1>3. EntryShaped(journal[e])
      BY <1>2 DEF KInv, Tables
<1>4. /\ EntryShaped(c) /\ c.cleared = TRUE
      /\ c.kind = journal[e].kind /\ c.of = journal[e].of
      BY <1>3 DEF EntryShaped
<1>5. journal' = [journal EXCEPT ![e] = c]
      BY <1>1
<1> HIDE DEF c
<1>6. IsSeq(journal') /\ DOMAIN journal' = DOMAIN journal
      BY <1>2, <1>5, Rewritten DEF KInv, Tables
<1>7. journal'[e] = c /\ \A f \in DOMAIN journal : f # e => journal'[f] = journal[f]
      BY <1>2, <1>5
<1>8. \A f \in DOMAIN journal : /\ EntryShaped(journal'[f])
                                /\ journal'[f].kind = journal[f].kind /\ journal'[f].of = journal[f].of
                                /\ journal[f].cleared => journal'[f].cleared
      BY <1>4, <1>7 DEF KInv, Tables
<1>9. Grows /\ Others(p) /\ Places
      BY <1>1, <1>6, <1>8 DEF Grows, Others, Places, KInv, Tables
<1>10. Tables'
  <2>1. (\A l \in DOMAIN rows : l[2] \in Ids)' /\ scope' \in Scopes
        BY <1>1 DEF KInv, Tables, Ids, feed
  <2>2. \A f \in DOMAIN journal' : journal'[f].kind = "bank_line" => journal'[f].of \in DOMAIN rows
        BY <1>6, <1>8 DEF KInv, Tables
  <2>3. (\A f \in DOMAIN journal : EntryShaped(journal[f]))'
        BY <1>6, <1>8 DEF EntryShaped
  <2>4. IsSeq(journal)'
        BY <1>6 DEF IsSeq
  <2>5. QED
        BY <1>1, <1>9, <2>1, <2>2, <2>3, <2>4 DEF KInv, Tables, Places
<1>11. Cleared(e)' /\ \A f : Cleared(f) => Cleared(f)'
      BY <1>2, <1>4, <1>6, <1>7, <1>8 DEF Cleared
<1>12. \A f, l : IsAnswer(f, l)' <=> IsAnswer(f, l)
      BY <1>6, <1>8 DEF IsAnswer
<1>13. OnTask(job[p], pc[p])'
  <2>1. pc'[p] = "set" /\ job'[p] = job[p]
        BY <1>1 DEF KInv, Tables
  <2>2. Confirming(job[p]) => Confirming(job[p])'
        BY <1>1 DEF Confirming
  <2>3. IsAnswer(job[p].entry, job[p].line) => IsAnswer(job[p].entry, job[p].line)'
        BY <1>1, <1>6, <1>8 DEF IsAnswer
  <2>4. Cleared(job[p].entry)' /\ (job[p].entry \in DOMAIN journal)'
        BY <1>0, <1>1, <1>11 DEF Cleared
  <2>5. (\A l \in job[p].todo : l[2] \in Ids)' /\ JobShaped(job[p])'
        BY <1>1, <1>2 DEF OnTask, Ids, feed, JobShaped
  <2>6. QED
        BY <1>1, <1>2, <2>1, <2>2, <2>3, <2>4, <2>5 DEF OnTask
<1>14. (\A q \in Procs : OnTask(job[q], pc[q]))'
      BY <1>9, <1>13, AllMinded DEF KInv
<1>15. SettledIsCleared'
      BY <1>1, <1>11 DEF KInv, SettledIsCleared, Resolved
<1>16. \A l, f : Settles(l, f)' <=> Settles(l, f)
      BY <1>1 DEF Settles, Resolved
<1>17. Apart'
  <2>1. \A q \in Procs : \A f : InHand(q, f)' => InHand(q, f) \/ (q = p /\ f = e)
        BY <1>0, <1>1, <1>9 DEF InHand, Others
  <2>2. Cleared(e) => e \in doubled'
        BY <1>0, <1>1, <1>2 DEF Cleared
  <2>3. \A l \in DOMAIN rows : Settles(l, e) => e \in doubled'
        BY <2>2 DEF KInv, SettledIsCleared, Settles
  <2>4. \A q \in Procs : InHand(q, e) => e \in doubled'
        BY <2>2 DEF KInv, OnTask, InHand
  <2>5. doubled \subseteq doubled'
        BY <1>1
  <2>6. QED
        BY <1>1, <1>6, <1>16, <2>1, <2>3, <2>4, <2>5 DEF KInv, Apart
<1>18. AnsweredOnce'
  <2>1. SUFFICES ASSUME NEW l \in DOMAIN rows, l \notin torn, NEW f \in DOMAIN journal, IsAnswer(f, l)
                 PROVE  /\ \A g \in DOMAIN journal : IsAnswer(g, l) => g = f
                        /\ \/ Settles(l, f)
                           \/ ~Resolved(l) /\ \E q \in Procs : Carries(q, l, f)'
        BY <1>1, <1>6, <1>12, <1>16 DEF AnsweredOnce, Resolved
  <2>2. \A q \in Procs : Carries(q, l, f) => Carries(q, l, f)'
        BY <1>1, <1>9 DEF Carries, Others, KInv, Tables
  <2>3. QED
        BY <2>1, <2>2 DEF KInv, AnsweredOnce
<1>19. QED
      BY <1>10, <1>14, <1>15, <1>17, <1>18 DEF KInv

\* A line is said to be settled: by nobody else if it is as it was read, and by
\* an entry no other line names unless two were clearing it.
LEMMA SetBankLineMatchKeeps ==
    ASSUME KInv, NEW p \in Procs, SetBankLineMatch(p)
    PROVE  KInv'
<1>0. PICK l, e, kind : l = job[p].line /\ e = job[p].entry /\ kind = job[p].kind
      OBVIOUS
<1>1. /\ pc[p] = "set" /\ rows' = [rows EXCEPT ![l] = [kind |-> kind, entry |-> e]]
      /\ torn' = torn \cup (IF rows[l].kind # job[p].seen THEN {l} ELSE {})
      /\ UNCHANGED <<scope, journal, doubled>>
      /\ IF kind = "manual" THEN Finish(p)
         ELSE job' = job /\ Goto(p, IF job[p].fee > 0 THEN "fee" ELSE "match")
      BY <1>0 DEF SetBankLineMatch
<1>2. /\ OnTask(job[p], pc[p]) /\ Cleared(e) /\ kind \in {"exact", "settlement", "manual"}
      /\ kind = "manual" => Confirming(job[p]) /\ IsAnswer(e, l)
      /\ kind # "manual" => job[p].seen = "none"
      BY <1>0, <1>1 DEF KInv, OnTask
<1>3. Places /\ Others(p) /\ pc'[p] \in {"idle", "fee", "match"}
      BY <1>1 DEF Places, Others, KInv, Tables, Finish, Goto
<1>4. /\ DOMAIN rows' = DOMAIN rows
      /\ \A m \in DOMAIN rows :
            rows'[m] = IF m = l THEN [kind |-> kind, entry |-> e] ELSE rows[m]
      BY <1>1 DEF KInv, Tables
<1>5. Grows
      BY <1>1, <1>2, <1>4 DEF Grows
<1>6. Tables'
  <2>1. rows' = [m \in DOMAIN rows' |-> rows'[m]]
        BY <1>1 DEF KInv, Tables
  <2>2. QED
        BY <1>1, <1>3, <1>4, <2>1 DEF KInv, Tables, Places, Ids, feed, EntryShaped, IsSeq
<1>7. OnTask(job[p], pc[p])'
  <2>1. CASE kind = "manual"
    <3>1. pc'[p] = "idle" /\ job'[p] = NoJob
          BY <1>1, <2>1 DEF Finish, Goto, KInv, Tables
    <3>2. JobShaped(NoJob) /\ NoJob.todo = {} /\ NoJob.seen = "none"
          BY DEF JobShaped, NoJob
    <3>3. QED
          BY <3>1, <3>2 DEF OnTask, JobShaped
  <2>2. CASE kind # "manual"
    <3>1. job'[p] = job[p] /\ pc'[p] \in {"fee", "match"}
          BY <1>1, <2>2 DEF Goto, KInv, Tables
    <3>2. QED
          BY <1>0, <1>1, <1>2, <2>2, <3>1 DEF OnTask, JobShaped, Ids, feed
  <2>3. QED
        BY <2>1, <2>2
<1>8. (\A q \in Procs : OnTask(job[q], pc[q]))'
      BY <1>3, <1>5, <1>7, AllMinded DEF KInv
<1>9. \A f : Cleared(f)' <=> Cleared(f)
      BY <1>1 DEF Cleared
<1>10. /\ \A m, f : m # l => (Settles(m, f)' <=> Settles(m, f))
       /\ \A f : Settles(l, f)' => f = e
       /\ l \in DOMAIN rows => Settles(l, e)'
       BY <1>2, <1>4 DEF Settles, Resolved
<1>11. SettledIsCleared'
  <2>1. SUFFICES ASSUME NEW m \in DOMAIN rows', Resolved(m)' PROVE Cleared(rows'[m].entry)
        BY <1>9 DEF SettledIsCleared, Cleared
  <2>2. CASE m = l
        BY <1>2, <1>4, <2>1, <2>2
  <2>3. CASE m # l
        BY <1>4, <2>1, <2>3 DEF KInv, SettledIsCleared, Resolved
  <2>4. QED
        BY <2>2, <2>3
<1>12. Apart'
  <2>1. InHand(p, e)
        BY <1>0, <1>1 DEF InHand
  <2>2. \A q \in Procs : \A f : InHand(q, f)' => q # p /\ InHand(q, f)
        BY <1>3 DEF InHand, Others
  <2>3. \A m, f : Settles(m, f)' => (m = l /\ f = e) \/ (m # l /\ Settles(m, f))
        BY <1>10
  <2>4. \A m \in DOMAIN rows, f \in DOMAIN journal : InHand(p, f) /\ Settles(m, f) => f \in doubled
        BY DEF KInv, Apart
  <2>5. \A q \in Procs, f \in DOMAIN journal : q # p /\ InHand(p, f) /\ InHand(q, f) => f \in doubled
        BY DEF KInv, Apart
  <2>6. ASSUME NEW m \in DOMAIN rows, NEW k \in DOMAIN rows, NEW f \in DOMAIN journal,
               m # k, Settles(m, f)', Settles(k, f)'
        PROVE  f \in doubled
    <3>1. CASE m # l /\ k # l
          BY <1>10, <2>6, <3>1 DEF KInv, Apart
    <3>2. CASE m = l \/ k = l
          BY <2>1, <2>3, <2>4, <2>6, <3>2
    <3>3. QED
          BY <3>1, <3>2
  <2>7. ASSUME NEW q \in Procs, NEW m \in DOMAIN rows, NEW f \in DOMAIN journal,
               InHand(q, f)', Settles(m, f)'
        PROVE  f \in doubled
    <3>1. CASE m # l
          BY <1>10, <2>2, <2>7, <3>1 DEF KInv, Apart
    <3>2. CASE m = l
          BY <1>10, <2>1, <2>2, <2>5, <2>7, <3>2
    <3>3. QED
          BY <3>1, <3>2
  <2>8. \A q, r \in Procs, f \in DOMAIN journal :
            q # r /\ InHand(q, f)' /\ InHand(r, f)' => f \in doubled
        BY <2>2 DEF KInv, Apart
  <2>9. QED
        BY <1>1, <1>4, <2>6, <2>7, <2>8 DEF Apart
<1>13. AnsweredOnce'
  <2>1. SUFFICES ASSUME NEW m \in DOMAIN rows, m \notin torn', NEW f \in DOMAIN journal, IsAnswer(f, m)
                 PROVE  /\ \A g \in DOMAIN journal : IsAnswer(g, m) => g = f
                        /\ \/ Settles(m, f)'
                           \/ ~Resolved(m)' /\ \E q \in Procs : Carries(q, m, f)'
        BY <1>1, <1>4 DEF AnsweredOnce, IsAnswer
  <2>2. m \notin torn
        BY <1>1, <2>1
  <2>3. /\ \A g \in DOMAIN journal : IsAnswer(g, m) => g = f
        /\ Settles(m, f) \/ (~Resolved(m) /\ \E q \in Procs : Carries(q, m, f))
        BY <2>1, <2>2 DEF KInv, AnsweredOnce
  <2>4. CASE m # l
    <3>1. Resolved(m)' <=> Resolved(m)
          BY <1>4, <2>1, <2>4 DEF Resolved
    <3>2. \A q \in Procs : Carries(q, m, f) => Carries(q, m, f)'
          BY <1>0, <1>3, <2>4 DEF Carries, Others
    <3>3. QED
          BY <1>10, <2>3, <2>4, <3>1, <3>2
  <2>5. CASE m = l
    <3>1. rows[l].kind = job[p].seen
          BY <1>1, <2>1, <2>5
    <3>2. CASE kind = "manual"
          BY <1>2, <1>10, <2>1, <2>3, <2>5, <3>2 DEF IsAnswer
    <3>3. CASE kind # "manual"
      <4>1. rows[l].kind = "none"
            BY <1>2, <3>1, <3>3
      <4>2. PICK q \in Procs : Carries(q, l, f)
            BY <2>3, <2>5, <4>1 DEF Settles, Resolved
      <4>3. Confirming(job[q])
            BY <4>2 DEF KInv, OnTask, Carries
      <4>4. QED
            BY <4>1, <4>2, <4>3 DEF Carries, Confirming
    <3>4. QED
          BY <3>2, <3>3
  <2>6. QED
        BY <2>4, <2>5
<1>14. QED
      BY <1>6, <1>8, <1>11, <1>12, <1>13 DEF KInv

\* A proposal is written over whatever the line says: torn if it was looked at.
LEMMA ProposeKeeps ==
    ASSUME KInv, NEW p \in Procs, NEW l, pc[p] = "match", Propose(p, l),
           UNCHANGED <<scope, journal, doubled>>
    PROVE  KInv'
<1>1. /\ rows' = [rows EXCEPT ![l] = [kind |-> "proposed", entry |-> 0]]
      /\ job' = [job EXCEPT ![p].todo = @ \ {l}]
      /\ torn' = torn \cup (IF rows[l].kind # "none" THEN {l} ELSE {})
      /\ pc' = pc
      BY DEF Propose
<1>2. OnTask(job[p], pc[p])
      BY DEF KInv
<1>3. /\ Places /\ Others(p)
      /\ JobShaped(job'[p]) /\ job'[p].seen = job[p].seen /\ job'[p].todo \subseteq job[p].todo
      BY <1>1, <1>2 DEF Places, Others, KInv, Tables, OnTask, JobShaped
<1>4. /\ DOMAIN rows' = DOMAIN rows
      /\ \A m \in DOMAIN rows :
            rows'[m] = IF m = l THEN [kind |-> "proposed", entry |-> 0] ELSE rows[m]
      BY <1>1 DEF KInv, Tables
<1>5. Grows
      BY <1>1, <1>4 DEF Grows
<1>6. Tables'
  <2>1. rows' = [m \in DOMAIN rows' |-> rows'[m]]
        BY <1>1 DEF KInv, Tables
  <2>2. QED
        BY <1>1, <1>3, <1>4, <2>1 DEF KInv, Tables, Places, Ids, feed, EntryShaped, IsSeq
<1>7. OnTask(job[p], pc[p])'
      BY <1>1, <1>2, <1>3 DEF OnTask, JobShaped, Ids, feed
<1>8. (\A q \in Procs : OnTask(job[q], pc[q]))'
      BY <1>3, <1>5, <1>7, AllMinded DEF KInv
<1>9. \A m \in DOMAIN rows : /\ Resolved(m)' => m # l /\ Resolved(m) /\ rows'[m] = rows[m]
                             /\ m # l => rows'[m] = rows[m]
      BY <1>4 DEF Resolved
<1>10. SettledIsCleared'
      BY <1>4, <1>9 DEF KInv, SettledIsCleared, Cleared
<1>11. Apart'
  <2>1. \A m, f : Settles(m, f)' => Settles(m, f)
        BY <1>4, <1>9 DEF Settles
  <2>2. \A q \in Procs : \A f : InHand(q, f)' => InHand(q, f)
        BY <1>1, <1>3 DEF InHand, Others
  <2>3. QED
        BY <1>4, <2>1, <2>2 DEF KInv, Apart
<1>12. AnsweredOnce'
  <2>1. SUFFICES ASSUME NEW m \in DOMAIN rows, m \notin torn', NEW f \in DOMAIN journal, IsAnswer(f, m)
                 PROVE  /\ \A g \in DOMAIN journal : IsAnswer(g, m) => g = f
                        /\ \/ Settles(m, f)'
                           \/ ~Resolved(m)' /\ \E q \in Procs : Carries(q, m, f)'
        BY <1>1, <1>4 DEF AnsweredOnce, IsAnswer
  <2>2. /\ \A g \in DOMAIN journal : IsAnswer(g, m) => g = f
        /\ Settles(m, f) \/ (~Resolved(m) /\ \E q \in Procs : Carries(q, m, f))
        BY <1>1, <2>1 DEF KInv, AnsweredOnce
  <2>3. \A q \in Procs : Carries(q, m, f) => Carries(q, m, f)'
        BY <1>1, <1>3 DEF Carries, Others
  <2>4. CASE m = l
        BY <1>1, <1>9, <2>1, <2>2, <2>3, <2>4 DEF Settles, Resolved
  <2>5. CASE m # l
        BY <1>4, <1>9, <2>1, <2>2, <2>3, <2>5 DEF Settles, Resolved
  <2>6. QED
        BY <2>4, <2>5
<1>13. QED
      BY <1>6, <1>8, <1>10, <1>11, <1>12 DEF KInv

-----------------------------------------------------------------------------
(* The order in which a match looks at lines and at entries. *)

LEMMA NextLineIsIn ==
    ASSUME scope \in Scopes, NEW todo, todo # {}, \A l \in todo : l[2] \in Ids
    PROVE  NextLine(todo) \in todo
<1>1. \A l \in todo : Day(l) \in Nat /\ l[2] \in Nat
      BY ScopesAssumption DEF Day, Ids, feed
<1> DEFINE D == [l \in todo |-> Day(l)]
<1>2. PICK m \in todo : \A l \in todo : D[m] <= D[l]
  <2>1. \A l \in todo : D[l] \in Nat
        BY <1>1
  <2> HIDE DEF D
  <2>2. QED
        BY <2>1, Smallest
<1>3. \A l \in todo : Day(m) <= Day(l)
      BY <1>2
<1> DEFINE S == {l \in todo : Day(l) = Day(m)}
           I == [l \in S |-> l[2]]
<1>4. PICK n \in S : \A l \in S : I[n] <= I[l]
  <2>1. (\A l \in S : I[l] \in Nat) /\ S # {}
        BY <1>1
  <2> HIDE DEF S, I
  <2>2. QED
        BY <2>1, Smallest
<1>5. \A l \in todo : Day(n) < Day(l) \/ (Day(n) = Day(l) /\ n[2] <= l[2])
  <2>1. SUFFICES ASSUME NEW l \in todo, ~(Day(n) < Day(l)) PROVE Day(n) = Day(l) /\ n[2] <= l[2]
        OBVIOUS
  <2>2. Day(n) = Day(m) /\ Day(m) <= Day(l) /\ Day(l) \in Nat /\ Day(m) \in Nat
        BY <1>1, <1>3, <1>4
  <2>3. Day(l) = Day(m)
        BY <2>1, <2>2
  <2>4. QED
        BY <1>4, <2>2, <2>3
<1>6. n \in todo
      BY <1>4
<1> HIDE DEF S, I, D
<1>7. QED
      BY <1>5, <1>6 DEF NextLine

\* Distances are natural numbers, and so is the place of an entry.
LEMMA NearestIsIn ==
    ASSUME KInv, NEW l, Day(l) \in Nat, NEW C, C # {}, C \subseteq DOMAIN journal,
           \A e \in C : journal[e].kind \in {"payment", "purchase", "settlement", "deposit"}
    PROVE  Nearest(C, l) \in C
<1> DEFINE d(e) == Magnitude(journal[e].day - Day(l))
           day(e) == journal[e].day
<1>1. \A e \in C : d(e) \in Nat /\ day(e) \in Nat /\ e \in Nat
  <2>1. \A e \in C : day(e) \in Nat
        BY DEF KInv, Tables, EntryShaped
  <2>2. \A e \in C : e \in Nat
        BY DEF KInv, Tables, IsSeq
  <2>3. \A e \in C : d(e) \in Nat
        BY <2>1 DEF Magnitude
  <2>4. QED
        BY <2>1, <2>2, <2>3
<1> HIDE DEF d, day
<1> DEFINE D == [e \in C |-> d(e)]
<1>2. PICK m \in C : \A e \in C : D[m] <= D[e]
  <2>1. \A e \in C : D[e] \in Nat
        BY <1>1
  <2> HIDE DEF D
  <2>2. QED
        BY <2>1, Smallest
<1>3. \A e \in C : d(m) <= d(e)
      BY <1>2
<1> DEFINE S == {e \in C : d(e) = d(m)}
           F == [e \in S |-> day(e)]
<1>4. PICK n \in S : \A e \in S : F[n] <= F[e]
  <2>1. (\A e \in S : F[e] \in Nat) /\ S # {}
        BY <1>1
  <2> HIDE DEF S, F
  <2>2. QED
        BY <2>1, Smallest
<1>5. \A e \in S : day(n) <= day(e)
      BY <1>4
<1> DEFINE T == {e \in S : day(e) = day(n)}
           G == [e \in T |-> e]
<1>6. PICK k \in T : \A e \in T : G[k] <= G[e]
  <2>1. (\A e \in T : G[e] \in Nat) /\ T # {}
        BY <1>1, <1>4
  <2> HIDE DEF T, G
  <2>2. QED
        BY <2>1, Smallest
<1>7. \A e \in T : k <= e
      BY <1>6
<1>8. k \in C /\ d(k) = d(m) /\ day(k) = day(n)
      BY <1>6
<1>9. \A e \in C : \/ d(k) < d(e)
                   \/ d(k) = d(e) /\ day(k) < day(e)
                   \/ d(k) = d(e) /\ day(k) = day(e) /\ k <= e
  <2>1. SUFFICES ASSUME NEW e \in C, ~(d(k) < d(e)), ~(d(k) = d(e) /\ day(k) < day(e))
                 PROVE  d(k) = d(e) /\ day(k) = day(e) /\ k <= e
        OBVIOUS
  <2>2. d(k) = d(e)
        BY <1>1, <1>3, <1>8, <2>1
  <2>3. day(k) = day(e)
        BY <1>1, <1>5, <1>8, <2>1, <2>2
  <2>4. QED
        BY <1>7, <1>8, <2>2, <2>3
<1> HIDE DEF S, T, F, G, D
<1>10. \E c \in C : \A f \in C :
            \/ d(c) < d(f)
            \/ d(c) = d(f) /\ day(c) < day(f)
            \/ d(c) = d(f) /\ day(c) = day(f) /\ c <= f
      BY <1>8, <1>9
<1>11. QED
      BY <1>10 DEF Nearest, d, day

-----------------------------------------------------------------------------
(* The rest of the steps. *)

LEMMA InsertLineKeeps ==
    ASSUME KInv, NEW p \in Procs, InsertLine(p)
    PROVE  KInv'
<1>0. PICK line : line = <<job[p].statement, Min({l[2] : l \in job[p].todo})>>
      OBVIOUS
<1>1. /\ pc[p] = "import" /\ job[p].todo # {}
      /\ job' = [job EXCEPT ![p].todo = @ \ {line}]
      /\ IF Known(line)
         THEN rows' = rows
         ELSE rows' = [l \in DOMAIN rows \cup {line} |-> IF l = line THEN Unlooked ELSE rows[l]]
      /\ UNCHANGED <<scope, journal, pc, torn, doubled>>
      BY <1>0 DEF InsertLine
<1>2. OnTask(job[p], pc[p])
      BY DEF KInv
<1>3. line[2] \in Ids
  <2> DEFINE I == {l[2] : l \in job[p].todo}
  <2>1. I \subseteq Ids /\ I # {} /\ Ids \subseteq Nat
        BY <1>1, <1>2, ScopesAssumption DEF OnTask, Ids, feed, KInv, Tables
  <2> HIDE DEF I
  <2>2. Min(I) \in I
        BY <2>1, MinIsIn
  <2>3. line[2] = Min(I)
        BY <1>0 DEF I
  <2>4. QED
        BY <2>1, <2>2, <2>3
<1>4. /\ Places /\ Others(p)
      /\ JobShaped(job'[p]) /\ job'[p].todo \subseteq job[p].todo
      BY <1>1, <1>2 DEF Places, Others, KInv, Tables, OnTask, JobShaped
<1>5. CASE Known(line)
  <2>1. OnTask(job[p], pc[p])'
        BY <1>1, <1>2, <1>4 DEF OnTask, Ids, feed
  <2>2. \A l, e : ~Carries(p, l, e)
        BY <1>1 DEF Carries
  <2>3. pc'[p] # "set" /\ rows' = rows
        BY <1>1, <1>5
  <2>4. QED
        BY <1>1, <1>4, <2>1, <2>2, <2>3, Quiet
<1>6. CASE ~Known(line)
  <2>1. /\ line \notin DOMAIN rows /\ DOMAIN rows' = DOMAIN rows \cup {line}
        /\ rows'[line].kind = "none"
        /\ \A l \in DOMAIN rows : rows'[l] = rows[l]
        /\ rows' = [l \in DOMAIN rows' |-> rows'[l]]
        BY <1>1, <1>6 DEF Known, Unlooked
  <2>2. Grows
        BY <1>1, <2>1 DEF Grows
  <2>3. Tables'
        BY <1>1, <1>3, <1>4, <2>1 DEF KInv, Tables, Places, Ids, feed, EntryShaped, IsSeq
  <2>4. OnTask(job[p], pc[p])'
        BY <1>1, <1>2, <1>4 DEF OnTask, Ids, feed
  <2>5. (\A q \in Procs : OnTask(job[q], pc[q]))'
        BY <1>4, <2>2, <2>4, AllMinded DEF KInv
  <2>6. \A l \in DOMAIN rows' : Resolved(l)' => l \in DOMAIN rows /\ Resolved(l) /\ rows'[l] = rows[l]
        BY <2>1 DEF Resolved
  <2>7. SettledIsCleared'
        BY <1>1, <2>6 DEF KInv, SettledIsCleared, Cleared
  <2>8. Apart'
    <3>1. \A l, e : Settles(l, e)' => l \in DOMAIN rows /\ Settles(l, e)
          BY <2>6 DEF Settles
    <3>2. \A q \in Procs : \A e : InHand(q, e)' => InHand(q, e)
          BY <1>1, <1>4 DEF InHand, Others
    <3>3. QED
          BY <1>1, <3>1, <3>2 DEF KInv, Apart
  <2>9. AnsweredOnce'
    <3>1. SUFFICES ASSUME NEW l \in DOMAIN rows', l \notin torn, NEW e \in DOMAIN journal, IsAnswer(e, l)
                   PROVE  /\ \A f \in DOMAIN journal : IsAnswer(f, l) => f = e
                          /\ \/ Settles(l, e)'
                             \/ ~Resolved(l)' /\ \E q \in Procs : Carries(q, l, e)'
          BY <1>1 DEF AnsweredOnce, IsAnswer
    <3>2. l \in DOMAIN rows
          BY <3>1 DEF KInv, Tables, IsAnswer
    <3>3. /\ \A f \in DOMAIN journal : IsAnswer(f, l) => f = e
          /\ Settles(l, e) \/ (~Resolved(l) /\ \E q \in Procs : Carries(q, l, e))
          BY <3>1, <3>2 DEF KInv, AnsweredOnce
    <3>4. \A q \in Procs : Carries(q, l, e) => Carries(q, l, e)'
          BY <1>1, <1>4 DEF Carries, Others
    <3>5. QED
          BY <2>1, <3>2, <3>3, <3>4 DEF Settles, Resolved
  <2>10. QED
        BY <2>3, <2>5, <2>7, <2>8, <2>9 DEF KInv
<1>7. QED
      BY <1>5, <1>6

\* What is taken was not cleared.
LEMMA TakeKeeps ==
    ASSUME KInv, NEW p \in Procs, pc[p] = "match", NEW l, NEW kind \in {"exact", "settlement"},
           NEW e \in DOMAIN journal, ~journal[e].cleared, NEW fee, Take(p, l, kind, e, fee),
           UNCHANGED <<scope, journal, doubled>>
    PROVE  KInv'
<1>1. /\ pc' = [pc EXCEPT ![p] = "clear"]
      /\ job' = [job EXCEPT ![p].line = l, ![p].todo = @ \ {l}, ![p].kind = kind, ![p].entry = e,
                            ![p].fee = fee, ![p].wasCleared = journal[e].cleared]
      /\ UNCHANGED <<rows, torn>>
      BY DEF Take, Goto
<1>2. OnTask(job[p], pc[p]) /\ journal[e].cleared = FALSE
      BY DEF KInv, Tables, EntryShaped
<1>3. /\ Places /\ Others(p) /\ pc'[p] = "clear"
      /\ JobShaped(job'[p]) /\ job'[p].todo \subseteq job[p].todo
      /\ job'[p].entry = e /\ job'[p].kind = kind /\ job'[p].seen = job[p].seen
      /\ job'[p].wasCleared = FALSE
      BY <1>1, <1>2 DEF Places, Others, KInv, Tables, OnTask, JobShaped
<1>4. OnTask(job[p], pc[p])'
      BY <1>1, <1>2, <1>3 DEF OnTask, Ids, feed
<1>5. \A m, f : ~Carries(p, m, f)
      BY DEF Carries
<1>6. QED
      BY <1>1, <1>3, <1>4, <1>5, Quiet

LEMMA MatchOneLineKeeps ==
    ASSUME KInv, NEW p \in Procs, MatchOneLine(p)
    PROVE  KInv'
<1>0. PICK l : l = NextLine(job[p].todo)
      OBVIOUS
<1>1. /\ pc[p] = "match" /\ job[p].todo # {}
      /\ IF ExactCandidates(l) # {} THEN Take(p, l, "exact", Nearest(ExactCandidates(l), l), 0)
         ELSE IF SettlementCandidates(l) # {}
         THEN Take(p, l, "settlement", Min(SettlementCandidates(l)), 0)
         ELSE IF FeeCandidates(l) # {}
         THEN Take(p, l, "settlement", Min(FeeCandidates(l)),
                   journal[Min(FeeCandidates(l))].gross - Amount(l))
         ELSE Propose(p, l)
      /\ UNCHANGED <<scope, journal, doubled>>
      BY <1>0 DEF MatchOneLine
<1>2. Day(l) \in Nat
  <2>1. l \in job[p].todo /\ l[2] \in Ids /\ scope \in Scopes
        BY <1>0, <1>1, NextLineIsIn DEF KInv, Tables, OnTask
  <2>2. QED
        BY <2>1, ScopesAssumption DEF Day, Ids, feed
<1>3. /\ \A e \in ExactCandidates(l) : /\ e \in DOMAIN journal /\ ~journal[e].cleared
                                       /\ journal[e].kind \in ExactKinds
      /\ \A e \in SettlementCandidates(l) \cup FeeCandidates(l) :
            e \in DOMAIN journal /\ ~journal[e].cleared
      BY DEF ExactCandidates, SettlementCandidates, FeeCandidates, Settlements
<1>4. DOMAIN journal \subseteq Nat
      BY DEF KInv, Tables, IsSeq
<1>5. CASE ExactCandidates(l) # {}
  <2>1. Nearest(ExactCandidates(l), l) \in ExactCandidates(l)
        BY <1>2, <1>3, <1>5, NearestIsIn DEF ExactKinds
  <2>2. QED
        BY <1>1, <1>3, <1>5, <2>1, TakeKeeps
<1>6. CASE ExactCandidates(l) = {} /\ SettlementCandidates(l) # {}
  <2>1. SettlementCandidates(l) \in SUBSET Nat
        BY <1>3, <1>4
  <2>2. Min(SettlementCandidates(l)) \in SettlementCandidates(l)
        BY <1>6, <2>1, MinIsIn
  <2>3. QED
        BY <1>1, <1>3, <1>6, <2>2, TakeKeeps
<1>7. CASE ExactCandidates(l) = {} /\ SettlementCandidates(l) = {} /\ FeeCandidates(l) # {}
  <2>1. FeeCandidates(l) \in SUBSET Nat
        BY <1>3, <1>4
  <2>2. Min(FeeCandidates(l)) \in FeeCandidates(l)
        BY <1>7, <2>1, MinIsIn
  <2>3. QED
        BY <1>1, <1>3, <1>7, <2>2, TakeKeeps
<1>8. CASE ExactCandidates(l) = {} /\ SettlementCandidates(l) = {} /\ FeeCandidates(l) = {}
      BY <1>1, <1>8, ProposeKeeps
<1>9. QED
      BY <1>5, <1>6, <1>7, <1>8

LEMMA IdleIsOnTask == JobShaped(NoJob) /\ NoJob.todo = {} /\ NoJob.seen = "none"
BY DEF JobShaped, NoJob

\* A process is done, or dies: if it was answering a line the line is torn.
LEMMA FinishKeeps ==
    ASSUME KInv, NEW p \in Procs, Finish(p), UNCHANGED <<scope, rows, journal, doubled>>,
           torn \subseteq torn', \A l, e : Carries(p, l, e) => l \in torn'
    PROVE  KInv'
<1>1. /\ Places /\ Others(p) /\ pc'[p] = "idle" /\ job'[p] = NoJob
      BY DEF Finish, Goto, Places, Others, KInv, Tables
<1>2. OnTask(job[p], pc[p])'
      BY <1>1, IdleIsOnTask DEF OnTask, JobShaped
<1>3. QED
      BY <1>1, <1>2, Quiet

\* A command begins.
LEMMA BeginKeeps ==
    ASSUME KInv, NEW p \in Procs, pc[p] = "idle",
           ImportStatement(p) \/ MatchStatement(p) \/ ConfirmProposal(p) \/ CloseStatement(p)
    PROVE  KInv'
<1>1. /\ job[p] = NoJob /\ \A l, e : ~Carries(p, l, e)
      BY DEF KInv, OnTask, Carries
<1>2. UNCHANGED <<scope, rows, journal, torn, doubled>>
      BY DEF ImportStatement, MatchStatement, ConfirmProposal, CloseStatement, bankVars, History
<1>3. CASE ImportStatement(p)
  <2>1. PICK file \in scope.exports :
          /\ pc' = [pc EXCEPT ![p] = "import"]
          /\ job' = [job EXCEPT ![p].statement = Len(statements) + 1,
                                ![p].todo = {Len(statements) + 1} \X file]
        BY <1>3 DEF ImportStatement, Goto
  <2>2. /\ Places /\ Others(p) /\ pc'[p] = "import"
        /\ JobShaped(job'[p]) /\ job'[p].todo = {Len(statements) + 1} \X file
        BY <1>1, <2>1, IdleIsOnTask DEF Places, Others, KInv, Tables, JobShaped
  <2>3. \A l \in job'[p].todo : l[2] \in Ids
        BY <2>2 DEF Ids
  <2>4. OnTask(job[p], pc[p])'
        BY <1>2, <2>2, <2>3 DEF OnTask, Ids, feed
  <2>5. QED
        BY <1>1, <1>2, <2>2, <2>4, Quiet
<1>4. CASE MatchStatement(p)
  <2>1. PICK s \in DOMAIN statements :
          /\ pc' = [pc EXCEPT ![p] = "match"]
          /\ job' = [job EXCEPT ![p].statement = s,
                                ![p].todo = {l \in LinesOf(s) : rows[l].kind = "none"}]
        BY <1>4 DEF MatchStatement, Goto
  <2>2. /\ Places /\ Others(p) /\ pc'[p] = "match"
        /\ JobShaped(job'[p]) /\ job'[p].todo \subseteq DOMAIN rows /\ job'[p].seen = "none"
    <3>1. Places /\ Others(p) /\ pc'[p] = "match"
          BY <2>1 DEF Places, Others, KInv, Tables
    <3>2. job'[p] = [NoJob EXCEPT !.statement = s,
                                  !.todo = {l \in LinesOf(s) : rows[l].kind = "none"}]
          BY <1>1, <2>1 DEF KInv, Tables
    <3>3. QED
          BY <3>1, <3>2 DEF JobShaped, NoJob, LinesOf
  <2>3. OnTask(job[p], pc[p])'
        BY <1>2, <2>2 DEF OnTask, Ids, feed, KInv, Tables
  <2>4. QED
        BY <1>1, <1>2, <2>2, <2>3, Quiet
<1>5. CASE ConfirmProposal(p)
  <2>1. PICK l \in DOMAIN rows :
          /\ rows[l].kind = "proposed"
          /\ pc' = [pc EXCEPT ![p] = "confirm"]
          /\ job' = [job EXCEPT ![p].line = l, ![p].kind = "manual", ![p].seen = rows[l].kind]
        BY <1>5 DEF ConfirmProposal, Goto, IsProposal
  <2>2. /\ Places /\ Others(p) /\ pc'[p] = "confirm"
        /\ JobShaped(job'[p]) /\ job'[p].todo = {} /\ job'[p].wasCleared = FALSE
        /\ job'[p].line = l /\ job'[p].kind = "manual" /\ job'[p].seen = "proposed"
    <3>1. Places /\ Others(p) /\ pc'[p] = "confirm"
          BY <2>1 DEF Places, Others, KInv, Tables
    <3>2. job'[p] = [NoJob EXCEPT !.line = l, !.kind = "manual", !.seen = "proposed"]
          BY <1>1, <2>1 DEF KInv, Tables
    <3>3. QED
          BY <3>1, <3>2 DEF JobShaped, NoJob
  <2>3. Confirming(job[p])'
        BY <1>2, <2>1, <2>2 DEF Confirming
  <2>4. OnTask(job[p], pc[p])'
        BY <2>2, <2>3 DEF OnTask
  <2>5. QED
        BY <1>1, <1>2, <2>2, <2>4, Quiet
<1>6. CASE CloseStatement(p)
  <2>1. PICK s \in DOMAIN statements :
          /\ pc' = [pc EXCEPT ![p] = "close"]
          /\ job' = [job EXCEPT ![p].statement = s, ![p].todo = {l \in LinesOf(s) : Resolved(l)},
                                ![p].count = Cardinality(LinesOf(s))]
        BY <1>6 DEF CloseStatement, Goto
  <2>2. /\ Places /\ Others(p) /\ pc'[p] = "close"
        /\ JobShaped(job'[p]) /\ job'[p].todo \subseteq DOMAIN rows
    <3>1. Places /\ Others(p) /\ pc'[p] = "close"
          BY <2>1 DEF Places, Others, KInv, Tables
    <3>2. job'[p] = [NoJob EXCEPT !.statement = s, !.todo = {l \in LinesOf(s) : Resolved(l)},
                                  !.count = Cardinality(LinesOf(s))]
          BY <1>1, <2>1 DEF KInv, Tables
    <3>3. QED
          BY <3>1, <3>2 DEF JobShaped, NoJob, LinesOf
  <2>3. OnTask(job[p], pc[p])'
        BY <1>2, <2>2 DEF OnTask, Ids, feed, KInv, Tables
  <2>4. QED
        BY <1>1, <1>2, <2>2, <2>3, Quiet
<1>7. QED
      BY <1>3, <1>4, <1>5, <1>6

-----------------------------------------------------------------------------
LEMMA KInvInit ==
    ASSUME Init
    PROVE  KInv
<1>1. /\ scope \in Scopes /\ journal = <<>> /\ DOMAIN journal = {}
      /\ DOMAIN rows = {} /\ rows = [l \in DOMAIN rows |-> rows[l]]
      /\ pc = [p \in Procs |-> "idle"] /\ job = [p \in Procs |-> NoJob]
      BY DEF Init
<1>2. IsSeq(journal)
      BY <1>1 DEF IsSeq
<1>3. Tables
      BY <1>1, <1>2 DEF Tables
<1>4. \A p \in Procs : OnTask(job[p], pc[p])
      BY <1>1, IdleIsOnTask DEF OnTask
<1>5. SettledIsCleared /\ Apart /\ AnsweredOnce
      BY <1>1 DEF SettledIsCleared, Apart, AnsweredOnce
<1>6. QED
      BY <1>3, <1>4, <1>5 DEF KInv

LEMMA KInvStep ==
    ASSUME KInv, [Next]_vars
    PROVE  KInv'
<1>1. CASE UNCHANGED vars
      BY <1>1, StandStill DEF vars, bankVars
<1>2. CASE BooksPost
      BY <1>2, BooksPostKeeps
<1>3. CASE ClosePeriod
      BY <1>3, StandStill DEF ClosePeriod, History
<1>4. ASSUME NEW p \in Procs, Process(p)
      PROVE  KInv'
  <2>1. CASE ImportStatement(p) \/ MatchStatement(p) \/ ConfirmProposal(p) \/ CloseStatement(p)
    <3>1. pc[p] = "idle"
          BY <2>1 DEF ImportStatement, MatchStatement, ConfirmProposal, CloseStatement, Command
    <3>2. QED
          BY <2>1, <3>1, BeginKeeps
  <2>2. CASE InsertLine(p)
        BY <2>2, InsertLineKeeps
  <2>3. CASE MatchOneLine(p)
        BY <2>3, MatchOneLineKeeps
  <2>4. CASE ClearJournalLine(p)
        BY <2>4, ClearJournalLineKeeps
  <2>5. CASE SetBankLineMatch(p)
        BY <2>5, SetBankLineMatchKeeps
  <2>6. CASE PostFee(p)
        BY <2>6, PostFeeKeeps
  <2>7. CASE PostConfirmed(p)
        BY <2>7, PostConfirmedKeeps
  <2>8. CASE ImportDone(p) \/ MatchDone(p) \/ ConfirmRefused(p) \/ FeeRefused(p)
             \/ CloseBankStatement(p)
    <3>1. \A l, e : ~Carries(p, l, e)
          BY <2>8 DEF ImportDone, MatchDone, ConfirmRefused, FeeRefused, CloseBankStatement, Carries
    <3>2. /\ Finish(p) /\ UNCHANGED <<scope, rows, journal, doubled>> /\ torn \subseteq torn'
          BY <2>8 DEF ImportDone, MatchDone, ConfirmRefused, FeeRefused, CloseBankStatement,
                      bankVars, History
    <3>3. QED
          BY <3>1, <3>2, FinishKeeps
  <2>9. CASE Crash(p)
    <3>1. \A l, e : Carries(p, l, e) => l \in torn'
          BY <2>9 DEF Crash, Carries
    <3>2. /\ Finish(p) /\ UNCHANGED <<scope, rows, journal, doubled>> /\ torn \subseteq torn'
          BY <2>9 DEF Crash, bankVars
    <3>3. QED
          BY <3>1, <3>2, FinishKeeps
  <2>10. QED
        BY <1>4, <2>1, <2>2, <2>3, <2>4, <2>5, <2>6, <2>7, <2>8, <2>9 DEF Process
<1>5. QED
      BY <1>1, <1>2, <1>3, <1>4 DEF Next

LEMMA KInvAnswers ==
    ASSUME KInv
    PROVE  OneLinePerEntry /\ OneAnswer
<1>1. OneLinePerEntry
      BY DEF KInv, SettledIsCleared, Cleared, Apart, Settles, OneLinePerEntry
<1>2. OneAnswer
  <2>1. SUFFICES ASSUME NEW l \in DOMAIN rows, l \notin torn
                 PROVE  Cardinality(Answers(l) \cup (IF Resolved(l) THEN {rows[l].entry} ELSE {})) <= 1
        BY DEF OneAnswer
  <2> DEFINE A == Answers(l) \cup (IF Resolved(l) THEN {rows[l].entry} ELSE {})
  <2>2. \A e \in Answers(l) : e \in DOMAIN journal /\ IsAnswer(e, l)
        BY DEF Answers, IsAnswer
  <2>3. \A e, f \in A : e = f
        BY <2>1, <2>2 DEF KInv, AnsweredOnce, Settles
  <2> HIDE DEF A
  <2>4. CASE A = {}
        BY <2>4, FS_EmptySet DEF A
  <2>5. CASE A # {}
    <3>1. PICK a \in A : A = {a}
          BY <2>3, <2>5
    <3>2. Cardinality({a}) = 1
          BY FS_Singleton
    <3>3. QED
          BY <3>1, <3>2 DEF A
  <2>6. QED
        BY <2>4, <2>5
<1>3. QED
      BY <1>1, <1>2

\* KInv is inductive: what a process remembers of a line and of an entry stays
\* true of them, or the history says what it raced.
THEOREM KInvHolds == Spec => []KInv
BY KInvInit, KInvStep, PTL DEF Spec

\* clear_journal_line comes before set_bank_line_match, so two lines name one
\* entry only if two processes were clearing it at once.
THEOREM OneLinePerEntryHolds == Spec => []OneLinePerEntry
BY KInvHolds, KInvAnswers, PTL

\* A line is matched or confirmed, once, unless its settling was torn.
THEOREM OneAnswerHolds == Spec => []OneAnswer
BY KInvHolds, KInvAnswers, PTL

-----------------------------------------------------------------------------
\* A line that is not settled names no entry.
PlainRows ==
    /\ IsFiniteSet(DOMAIN rows)
    /\ \A l \in DOMAIN rows : Resolved(l) \/ rows[l].entry = 0

\* What a close counted when it looked: some of the lines there are now.
Counted(p) ==
    LET s == job[p].statement IN
    pc[p] = "close" =>
        s \in DOMAIN statements /\ \E L \in SUBSET LinesOf(s) :
            /\ Cardinality(L) = job[p].count /\ job[p].todo \subseteq L
            /\ AmountOf(job[p].todo) = Moved(s) /\ AmountOf(L \ job[p].todo) = 0

\* A statement closed in one piece is as it was when it was counted.
ClosedTies ==
    \A s \in DOMAIN statements :
        statements[s].closed => s \in hasty \/ LinesOf(s) \cap torn # {} \/ Closes(s)

CInv == IsSeq(statements) /\ PlainRows /\ (\A p \in Procs : Counted(p)) /\ ClosedTies

FeesOf(l) == {f \in DOMAIN journal : journal[f].kind = "fee" /\ journal[f].of = l}

\* What an entry says of the bank.
Said(e) ==
    LET E == journal[e] IN
    /\ E.bank \in Int /\ E.gross \in Int
    /\ E.kind = "fee" => E.of \in DOMAIN rows
    /\ E.kind = "bank_line" => E.bank = Magnitude(Amount(E.of))

\* What a match of a kind holds of an entry against a line.
Held(kind, e) == IF kind = "settlement" THEN journal[e].gross ELSE journal[e].bank

\* What a match remembers of the line it settles: what it holds of the entry,
\* less the fee, is what came in.
Weighed(j, at) ==
    /\ at = "match" => j.todo \subseteq DOMAIN rows
    /\ at \in {"clear", "set", "fee"} /\ j.kind # "manual" =>
         /\ j.todo \subseteq DOMAIN rows /\ j.line \in DOMAIN rows
         /\ j.fee \in Nat /\ j.entry \in DOMAIN journal
         /\ Held(j.kind, j.entry) - j.fee = Amount(j.line)

AtFee(p, l) == pc[p] = "fee" /\ job[p].line = l

\* A line that was not torn has at most the one fee its match found, posted or
\* on its way.
InFull(l) ==
    /\ ~Resolved(l) => FeesOf(l) = {} /\ \A p \in Procs : ~AtFee(p, l)
    /\ Resolved(l) =>
         \/ rows[l].kind = "manual" /\ Amount(l) < 0
         \/ \E p \in Procs : /\ AtFee(p, l) /\ job[p].entry = rows[l].entry /\ job[p].kind = rows[l].kind
                             /\ FeesOf(l) = {} /\ \A q \in Procs : AtFee(q, l) => q = p
         \/ /\ \A p \in Procs : ~AtFee(p, l)
            /\ \/ FeesOf(l) = {} /\ Held(rows[l].kind, rows[l].entry) = Amount(l)
               \/ \E f \in FeesOf(l) : /\ FeesOf(l) = {f}
                                       /\ Held(rows[l].kind, rows[l].entry) + journal[f].bank = Amount(l)

FInv ==
    /\ \A e \in DOMAIN journal : Said(e)
    /\ \A p \in Procs : Weighed(job[p], pc[p])
    /\ \A l \in DOMAIN rows \ torn : InFull(l)

-----------------------------------------------------------------------------
(* A closed statement stays tied. *)

\* What no step takes back: lines, files, and what history says.
Widens ==
    /\ scope' = scope /\ DOMAIN rows \subseteq DOMAIN rows'
    /\ torn \subseteq torn' /\ hasty \subseteq hasty'
    /\ \A s \in DOMAIN statements :
          s \in DOMAIN statements' /\ statements'[s].file = statements[s].file

LEMMA CountedStays ==
    ASSUME Widens, NEW q \in Procs, Counted(q), pc'[q] = pc[q], job'[q] = job[q]
    PROVE  Counted(q)'
<1>1. SUFFICES ASSUME pc[q] = "close" PROVE Counted(q)'
      BY DEF Counted
<1>2. PICK s, todo : s = job[q].statement /\ todo = job[q].todo
      OBVIOUS
<1>3. PICK L \in SUBSET LinesOf(s) :
          /\ Cardinality(L) = job[q].count /\ todo \subseteq L
          /\ AmountOf(todo) = Moved(s) /\ AmountOf(L \ todo) = 0
      BY <1>1, <1>2 DEF Counted
<1>4. s \in DOMAIN statements /\ s \in DOMAIN statements'
      BY <1>1, <1>2 DEF Counted, Widens
<1>5. Moved(s)' = Moved(s) /\ \A K : AmountOf(K)' = AmountOf(K)
      BY <1>4 DEF Moved, AmountOf, Amount, feed, Widens
<1>6. LinesOf(s) \subseteq LinesOf(s)'
      BY DEF LinesOf, Widens
<1>7. QED
      BY <1>2, <1>3, <1>4, <1>5, <1>6 DEF Counted

\* The settled lines of a statement.
Matched(s) == {l \in LinesOf(s) : Resolved(l)}

LEMMA ClosesSame ==
    ASSUME Widens, NEW s \in DOMAIN statements, LinesOf(s)' = LinesOf(s), Matched(s)' = Matched(s),
           Closes(s)
    PROVE  Closes(s)'
<1>1. Moved(s)' = Moved(s) /\ \A K : AmountOf(K)' = AmountOf(K)
      BY DEF Moved, AmountOf, Amount, feed, Widens
<1>2. {l \in LinesOf(s) : ~Resolved(l)}' = {l \in LinesOf(s) : ~Resolved(l)}
      BY DEF Matched
<1>3. QED
      BY <1>1, <1>2 DEF Closes, Matched

\* The statement has its lines still, settled or not as they were.
LEMMA TiesStay ==
    ASSUME CInv, Widens, NEW s \in DOMAIN statements, statements[s].closed,
           LinesOf(s)' = LinesOf(s), Matched(s)' = Matched(s)
    PROVE  s \in hasty' \/ (LinesOf(s) \cap torn # {})' \/ Closes(s)'
<1>1. s \in hasty \/ LinesOf(s) \cap torn # {} \/ Closes(s)
      BY DEF CInv, ClosedTies
<1>2. QED
      BY <1>1, ClosesSame DEF Widens

\* A step that leaves statements and lines alone.
LEMMA BesideStatements ==
    ASSUME CInv, scope' = scope, statements' = statements, rows' = rows, torn \subseteq torn',
           hasty \subseteq hasty',
           \A q \in Procs : (pc'[q] = pc[q] /\ job'[q] = job[q]) \/ Counted(q)'
    PROVE  CInv'
<1>1. Widens
      BY DEF Widens
<1>2. PlainRows' /\ IsSeq(statements)'
      BY DEF CInv, PlainRows, Resolved, IsSeq
<1>3. (\A q \in Procs : Counted(q))'
      BY <1>1, CountedStays DEF CInv
<1>4. ClosedTies'
      BY <1>1, TiesStay DEF ClosedTies, LinesOf, Matched, Resolved
<1>5. QED
      BY <1>2, <1>3, <1>4 DEF CInv

\* One line is rewritten: of a closed statement only in haste, or torn, or to
\* say that it was looked at.
LEMMA RowRewritten ==
    ASSUME CInv, KInv, UNCHANGED <<scope, statements>>, NEW l, NEW r,
           rows' = [rows EXCEPT ![l] = r],
           r.kind \in {"exact", "settlement", "manual"} \/ r.entry = 0,
           torn \subseteq torn', hasty \subseteq hasty',
           \/ statements[l[1]].closed => l[1] \in hasty'
           \/ l \in torn'
           \/ rows[l].kind = "none" /\ r.kind = "proposed",
           \A q \in Procs : (pc'[q] = pc[q] /\ job'[q] = job[q]) \/ Counted(q)'
    PROVE  CInv'
<1>1. /\ DOMAIN rows' = DOMAIN rows
      /\ \A m \in DOMAIN rows : rows'[m] = IF m = l THEN r ELSE rows[m]
      BY DEF KInv, Tables
<1>2. Widens
      BY <1>1 DEF Widens
<1>3. PlainRows' /\ IsSeq(statements)'
      BY <1>1 DEF CInv, PlainRows, Resolved, IsSeq
<1>4. (\A q \in Procs : Counted(q))'
      BY <1>2, CountedStays DEF CInv
<1>5. ClosedTies'
  <2>1. SUFFICES ASSUME NEW s \in DOMAIN statements, statements[s].closed
                 PROVE  s \in hasty' \/ (LinesOf(s) \cap torn # {})' \/ Closes(s)'
        BY DEF ClosedTies
  <2>2. LinesOf(s)' = LinesOf(s)
        BY <1>1 DEF LinesOf
  <2>3. CASE l \notin LinesOf(s) \/ (rows[l].kind = "none" /\ r.kind = "proposed")
    <3>1. Matched(s)' = Matched(s)
          BY <1>1, <2>2, <2>3 DEF Matched, LinesOf, Resolved
    <3>2. QED
          BY <1>2, <2>1, <2>2, <3>1, TiesStay
  <2>4. CASE l \in LinesOf(s) /\ ~(rows[l].kind = "none" /\ r.kind = "proposed")
        BY <2>1, <2>2, <2>4 DEF LinesOf
  <2>5. QED
        BY <2>3, <2>4
<1>6. QED
      BY <1>3, <1>4, <1>5 DEF CInv

\* Where the process that moved stands now nothing was counted.
LEMMA NotClosing ==
    ASSUME NEW p \in Procs, Others(p), pc'[p] # "close"
    PROVE  \A q \in Procs : (pc'[q] = pc[q] /\ job'[q] = job[q]) \/ Counted(q)'
BY DEF Others, Counted

LEMMA InsertLineTies ==
    ASSUME CInv, KInv, NEW p \in Procs, InsertLine(p)
    PROVE  CInv'
<1>0. PICK line : line = <<job[p].statement, Min({l[2] : l \in job[p].todo})>>
      OBVIOUS
<1>1. /\ pc[p] = "import" /\ job' = [job EXCEPT ![p].todo = @ \ {line}]
      /\ IF Known(line)
         THEN rows' = rows /\ hasty' = hasty
         ELSE /\ rows' = [l \in DOMAIN rows \cup {line} |-> IF l = line THEN Unlooked ELSE rows[l]]
              /\ hasty' = hasty \cup (IF statements[line[1]].closed THEN {line[1]} ELSE {})
      /\ UNCHANGED <<scope, statements, pc, torn>>
      BY <1>0 DEF InsertLine
<1>2. \A q \in Procs : (pc'[q] = pc[q] /\ job'[q] = job[q]) \/ Counted(q)'
  <2>1. Others(p) /\ pc'[p] # "close"
        BY <1>1 DEF Others, KInv, Tables
  <2>2. QED
        BY <2>1, NotClosing
<1>3. CASE Known(line)
      BY <1>1, <1>2, <1>3, BesideStatements
<1>4. CASE ~Known(line)
  <2>1. /\ line \notin DOMAIN rows /\ DOMAIN rows' = DOMAIN rows \cup {line}
        /\ rows'[line].kind = "none" /\ rows'[line].entry = 0
        /\ \A l \in DOMAIN rows : rows'[l] = rows[l]
        BY <1>1, <1>4 DEF Known, Unlooked
  <2>2. Widens
        BY <1>1, <1>4, <2>1 DEF Widens
  <2>3. PlainRows' /\ IsSeq(statements)'
    <3>1. IsFiniteSet(DOMAIN rows')
          BY <2>1, FS_AddElement DEF CInv, PlainRows
    <3>2. QED
          BY <1>1, <2>1, <3>1 DEF CInv, PlainRows, Resolved, IsSeq
  <2>4. (\A q \in Procs : Counted(q))'
        BY <1>2, <2>2, CountedStays DEF CInv
  <2>5. ClosedTies'
    <3>1. SUFFICES ASSUME NEW s \in DOMAIN statements, statements[s].closed
                   PROVE  s \in hasty' \/ (LinesOf(s) \cap torn # {})' \/ Closes(s)'
          BY <1>1 DEF ClosedTies
    <3>2. CASE s = line[1]
          BY <1>1, <1>4, <3>1, <3>2
    <3>3. CASE s # line[1]
      <4>1. LinesOf(s)' = LinesOf(s)
            BY <2>1, <3>3 DEF LinesOf
      <4>2. Matched(s)' = Matched(s)
            BY <2>1, <4>1 DEF Matched, LinesOf, Resolved
      <4>3. QED
            BY <2>2, <3>1, <4>1, <4>2, TiesStay
    <3>4. QED
          BY <3>2, <3>3
  <2>6. QED
        BY <2>3, <2>4, <2>5 DEF CInv
<1>5. QED
      BY <1>3, <1>4

LEMMA ImportStatementTies ==
    ASSUME CInv, KInv, NEW p \in Procs, ImportStatement(p)
    PROVE  CInv'
<1>1. PICK file \in scope.exports :
          /\ statements' = Append(statements, [file |-> file, closed |-> FALSE])
          /\ Goto(p, "import")
          /\ job' = [job EXCEPT ![p].statement = Len(statements) + 1,
                                ![p].todo = {Len(statements) + 1} \X file]
          /\ UNCHANGED <<scope, rows, torn, hasty>>
      BY DEF ImportStatement, History
<1>2. \A q \in Procs : (pc'[q] = pc[q] /\ job'[q] = job[q]) \/ Counted(q)'
  <2>1. Others(p) /\ pc'[p] # "close"
        BY <1>1 DEF Others, KInv, Tables, Goto
  <2>2. QED
        BY <2>1, NotClosing
<1> DEFINE n == Len(statements) + 1
           new == [file |-> file, closed |-> FALSE]
<1>3. /\ IsSeq(statements') /\ DOMAIN statements' = DOMAIN statements \cup {n}
      /\ n \notin DOMAIN statements
      /\ statements'[n] = new /\ new.closed = FALSE
      /\ \A s \in DOMAIN statements : statements'[s] = statements[s]
      BY <1>1, Appended DEF CInv
<1> HIDE DEF n, new
<1>4. Widens
      BY <1>1, <1>3 DEF Widens
<1>5. PlainRows' /\ IsSeq(statements)'
      BY <1>1, <1>3 DEF CInv, PlainRows, Resolved, IsSeq
<1>6. (\A q \in Procs : Counted(q))'
      BY <1>2, <1>4, CountedStays DEF CInv
<1>7. ClosedTies'
  <2>1. SUFFICES ASSUME NEW s \in DOMAIN statements, statements[s].closed
                 PROVE  s \in hasty' \/ (LinesOf(s) \cap torn # {})' \/ Closes(s)'
        BY <1>3 DEF ClosedTies
  <2>2. LinesOf(s)' = LinesOf(s) /\ Matched(s)' = Matched(s)
        BY <1>1 DEF LinesOf, Matched, Resolved
  <2>3. QED
        BY <1>4, <2>1, <2>2, TiesStay
<1>8. QED
      BY <1>5, <1>6, <1>7 DEF CInv

\* It closes what it counted, or a line came or was settled since.
LEMMA CloseBankStatementTies ==
    ASSUME CInv, KInv, NEW p \in Procs, CloseBankStatement(p)
    PROVE  CInv'
<1>0. PICK c : c = job[p].statement
      OBVIOUS
<1>1. /\ pc[p] = "close" /\ statements' = [statements EXCEPT ![c].closed = TRUE]
      /\ hasty' = hasty \cup (IF \/ job[p].todo # Matched(c)
                                 \/ job[p].count # Cardinality(LinesOf(c))
                              THEN {c} ELSE {})
      /\ Finish(p) /\ UNCHANGED <<scope, rows, torn>>
      BY <1>0 DEF CloseBankStatement, Matched
<1>2. \A q \in Procs : (pc'[q] = pc[q] /\ job'[q] = job[q]) \/ Counted(q)'
  <2>1. Others(p) /\ pc'[p] # "close"
        BY <1>1 DEF Others, KInv, Tables, Finish, Goto
  <2>2. QED
        BY <2>1, NotClosing
<1>3. PICK L \in SUBSET LinesOf(c) :
          /\ Cardinality(L) = job[p].count /\ job[p].todo \subseteq L
          /\ AmountOf(job[p].todo) = Moved(c) /\ AmountOf(L \ job[p].todo) = 0
      BY <1>0, <1>1 DEF CInv, Counted
<1>4. c \in DOMAIN statements
      BY <1>0, <1>1 DEF CInv, Counted
<1>5. /\ IsSeq(statements') /\ DOMAIN statements' = DOMAIN statements
      /\ \A s \in DOMAIN statements : /\ statements'[s].file = statements[s].file
                                      /\ s # c => statements'[s] = statements[s]
  <2> DEFINE new == [statements[c] EXCEPT !.closed = TRUE]
  <2>1. statements' = [statements EXCEPT ![c] = new]
        BY <1>1
  <2> HIDE DEF new
  <2>2. IsSeq(statements') /\ DOMAIN statements' = DOMAIN statements
        BY <1>4, <2>1, Rewritten DEF CInv
  <2>3. QED
        BY <1>1, <2>2
<1>6. Widens
      BY <1>1, <1>5 DEF Widens
<1>7. PlainRows' /\ IsSeq(statements)'
      BY <1>1, <1>5 DEF CInv, PlainRows, Resolved, IsSeq
<1>8. (\A q \in Procs : Counted(q))'
      BY <1>2, <1>6, CountedStays DEF CInv
<1>9. \A s : LinesOf(s)' = LinesOf(s) /\ Matched(s)' = Matched(s)
      BY <1>1 DEF LinesOf, Matched, Resolved
<1>10. c \in hasty' \/ Closes(c)
  <2>1. SUFFICES ASSUME job[p].todo = Matched(c), job[p].count = Cardinality(LinesOf(c))
                 PROVE  Closes(c)
        BY <1>1
  <2>2. IsFiniteSet(LinesOf(c))
        BY FS_Subset DEF CInv, PlainRows, LinesOf
  <2>3. L = LinesOf(c)
        BY <1>3, <2>1, <2>2, FS_Subset
  <2>4. L \ job[p].todo = {l \in LinesOf(c) : ~Resolved(l)}
        BY <2>1, <2>3 DEF Matched
  <2>5. QED
        BY <1>3, <2>1, <2>4 DEF Closes, Matched
<1>11. ClosedTies'
  <2>1. SUFFICES ASSUME NEW s \in DOMAIN statements, statements'[s].closed
                 PROVE  s \in hasty' \/ (LinesOf(s) \cap torn # {})' \/ Closes(s)'
        BY <1>5 DEF ClosedTies
  <2>2. CASE s = c
        BY <1>4, <1>6, <1>9, <1>10, <2>2, ClosesSame
  <2>3. CASE s # c
        BY <1>5, <1>6, <1>9, <2>1, <2>3, TiesStay
  <2>4. QED
        BY <2>2, <2>3
<1>12. QED
       BY <1>7, <1>8, <1>11 DEF CInv

LEMMA CloseStatementTies ==
    ASSUME CInv, KInv, NEW p \in Procs, CloseStatement(p)
    PROVE  CInv'
<1>1. PICK s \in DOMAIN statements :
          /\ Closes(s) /\ Goto(p, "close")
          /\ job' = [job EXCEPT ![p].statement = s, ![p].todo = Matched(s),
                                ![p].count = Cardinality(LinesOf(s))]
          /\ UNCHANGED <<scope, statements, rows, torn, hasty>>
      BY DEF CloseStatement, bankVars, History, Matched
<1>2. pc[p] = "idle" /\ job[p] = NoJob
      BY DEF CloseStatement, Command, KInv, OnTask
<1>3. /\ Others(p)
      /\ job'[p].statement = s /\ job'[p].todo = Matched(s)
      /\ job'[p].count = Cardinality(LinesOf(s))
  <2>1. Others(p)
        BY <1>1 DEF Others, KInv, Tables, Goto
  <2>2. job'[p] = [NoJob EXCEPT !.statement = s, !.todo = Matched(s),
                                !.count = Cardinality(LinesOf(s))]
        BY <1>1, <1>2 DEF KInv, Tables
  <2>3. QED
        BY <2>1, <2>2 DEF NoJob
<1>4. /\ \A t : LinesOf(t)' = LinesOf(t) /\ Moved(t)' = Moved(t)
      /\ \A K : AmountOf(K)' = AmountOf(K)
      BY <1>1 DEF LinesOf, Moved, AmountOf, Amount, feed
<1>5. Counted(p)'
  <2>1. LinesOf(s) \ Matched(s) = {l \in LinesOf(s) : ~Resolved(l)}
        BY DEF Matched
  <2>2. Matched(s) \subseteq LinesOf(s) /\ AmountOf(Matched(s)) = Moved(s)
        /\ AmountOf(LinesOf(s) \ Matched(s)) = 0
        BY <1>1, <2>1 DEF Matched, Closes
  <2>3. PICK L, M : L = LinesOf(s) /\ M = Matched(s)
        OBVIOUS
  <2>4. /\ L \in SUBSET LinesOf(s)' /\ M \subseteq L /\ Cardinality(L) = job'[p].count
        /\ AmountOf(M)' = Moved(s)' /\ AmountOf(L \ M)' = 0
        BY <1>3, <1>4, <2>2, <2>3
  <2>5. s \in DOMAIN statements' /\ job'[p].todo = M /\ job'[p].statement = s
        BY <1>1, <1>3, <2>3
  <2>6. QED
        BY <2>4, <2>5 DEF Counted
<1>6. QED
      BY <1>1, <1>3, <1>5, BesideStatements DEF Others

LEMMA CInvInit ==
    ASSUME Init
    PROVE  CInv
<1>1. /\ statements = <<>> /\ DOMAIN statements = {} /\ DOMAIN rows = {}
      /\ \A p \in Procs : pc[p] = "idle"
      BY DEF Init
<1>2. IsSeq(statements)
      BY <1>1 DEF IsSeq
<1>3. PlainRows
      BY <1>1, FS_EmptySet DEF PlainRows
<1>4. QED
      BY <1>1, <1>2, <1>3 DEF CInv, Counted, ClosedTies

\* The steps of a process that write neither statements nor lines.
LEMMA BesideTies ==
    ASSUME CInv, KInv, NEW p \in Procs,
           \/ ImportDone(p) \/ MatchDone(p) \/ MatchStatement(p) \/ ClearJournalLine(p)
           \/ PostFee(p) \/ FeeRefused(p) \/ ConfirmProposal(p) \/ PostConfirmed(p)
           \/ ConfirmRefused(p) \/ Crash(p)
    PROVE  CInv'
<1>1. /\ UNCHANGED <<scope, statements, rows, hasty>> /\ torn \subseteq torn'
      BY DEF ImportDone, MatchDone, MatchStatement, ClearJournalLine, PostFee, FeeRefused,
             ConfirmProposal, PostConfirmed, ConfirmRefused, Crash, bankVars, History
<1>2. Others(p) /\ pc'[p] # "close"
  <2>1. CASE ImportDone(p) \/ MatchDone(p) \/ FeeRefused(p) \/ ConfirmRefused(p) \/ Crash(p)
        BY <2>1 DEF ImportDone, MatchDone, FeeRefused, ConfirmRefused, Crash, Finish, Goto, Others,
                    KInv, Tables
  <2>2. CASE MatchStatement(p) \/ ConfirmProposal(p) \/ PostConfirmed(p)
        BY <2>2 DEF MatchStatement, ConfirmProposal, PostConfirmed, Goto, Others, KInv, Tables
  <2>3. CASE ClearJournalLine(p) \/ PostFee(p)
        BY <2>3 DEF ClearJournalLine, PostFee, Goto, Others, KInv, Tables
  <2>4. QED
        BY <2>1, <2>2, <2>3
<1>3. QED
      BY <1>1, <1>2, NotClosing, BesideStatements

LEMMA MatchOneLineTies ==
    ASSUME CInv, KInv, NEW p \in Procs, MatchOneLine(p)
    PROVE  CInv'
<1>0. PICK l : l = NextLine(job[p].todo)
      OBVIOUS
<1>1. /\ pc[p] = "match" /\ UNCHANGED <<scope, statements, hasty>>
      /\ (\E kind, e, fee : Take(p, l, kind, e, fee)) \/ Propose(p, l)
      BY <1>0 DEF MatchOneLine
<1>2. CASE Propose(p, l)
  <2> DEFINE r == [kind |-> "proposed", entry |-> 0]
  <2>1. /\ rows' = [rows EXCEPT ![l] = r] /\ torn' = torn \cup (IF rows[l].kind # "none" THEN {l} ELSE {})
        /\ r.kind = "proposed" /\ r.entry = 0
        BY <1>2 DEF Propose
  <2>2. Others(p) /\ pc'[p] # "close"
        BY <1>1, <1>2 DEF Propose, Others, KInv, Tables
  <2>3. l \in torn' \/ (rows[l].kind = "none" /\ r.kind = "proposed")
        BY <2>1
  <2> HIDE DEF r
  <2>4. QED
        BY <1>1, <2>1, <2>2, <2>3, NotClosing, RowRewritten
<1>3. CASE \E kind, e, fee : Take(p, l, kind, e, fee)
  <2>1. Others(p) /\ pc'[p] # "close" /\ rows' = rows /\ torn' = torn
        BY <1>1, <1>3 DEF Take, Goto, Others, KInv, Tables
  <2>2. QED
        BY <1>1, <2>1, NotClosing, BesideStatements
<1>4. QED
      BY <1>1, <1>2, <1>3

LEMMA SetBankLineMatchTies ==
    ASSUME CInv, KInv, NEW p \in Procs, SetBankLineMatch(p)
    PROVE  CInv'
<1>0. PICK l, r : l = job[p].line /\ r = [kind |-> job[p].kind, entry |-> job[p].entry]
      OBVIOUS
<1>1. /\ pc[p] = "set" /\ rows' = [rows EXCEPT ![l] = r]
      /\ torn \subseteq torn'
      /\ hasty' = hasty \cup (IF statements[l[1]].closed THEN {l[1]} ELSE {})
      /\ UNCHANGED <<scope, statements>>
      BY <1>0 DEF SetBankLineMatch
<1>2. r.kind \in {"exact", "settlement", "manual"}
      BY <1>0, <1>1 DEF KInv, OnTask
<1>3. Others(p) /\ pc'[p] # "close"
      BY <1>1 DEF SetBankLineMatch, Finish, Goto, Others, KInv, Tables
<1>4. /\ hasty \subseteq hasty' /\ statements[l[1]].closed => l[1] \in hasty'
      BY <1>1
<1>5. QED
      BY <1>1, <1>2, <1>3, <1>4, NotClosing, RowRewritten

LEMMA CInvStep ==
    ASSUME CInv, KInv, [Next]_vars
    PROVE  CInv'
<1>1. CASE UNCHANGED vars \/ BooksPost \/ ClosePeriod
  <2>1. UNCHANGED <<scope, statements, rows, torn, hasty, pc, job>>
        BY <1>1 DEF vars, bankVars, BooksPost, BooksPostPayment, BooksPostSettlement, ClosePeriod,
                   History
  <2>2. QED
        BY <2>1, BesideStatements
<1>2. ASSUME NEW p \in Procs, Process(p)
      PROVE  CInv'
      BY <1>2, ImportStatementTies, InsertLineTies, MatchOneLineTies, SetBankLineMatchTies,
         CloseStatementTies, CloseBankStatementTies, BesideTies DEF Process
<1>3. QED
      BY <1>1, <1>2 DEF Next

\* A settled line names an entry, and only a settled one does.
LEMMA CInvTies ==
    ASSUME CInv, KInv
    PROVE  ClosedStatementsTie
<1>1. \A l \in DOMAIN rows : rows[l].entry # 0 <=> Resolved(l)
  <2>1. \A e \in DOMAIN journal : e # 0
        BY DEF KInv, Tables, IsSeq
  <2>2. QED
        BY <2>1 DEF KInv, SettledIsCleared, Cleared, CInv, PlainRows
<1>2. \A s : /\ {l \in LinesOf(s) : rows[l].entry # 0} = {l \in LinesOf(s) : Resolved(l)}
             /\ {l \in LinesOf(s) : rows[l].entry = 0} = {l \in LinesOf(s) : ~Resolved(l)}
      BY <1>1 DEF LinesOf
<1>3. QED
      BY <1>2 DEF CInv, ClosedTies, Closes, ClosedStatementsTie

\* What a close counted is what it closed, and a closed statement is not
\* touched again, or the history says in which of its pieces something came
\* between: it stays tied to what the bank said.
THEOREM ClosedStatementsTieHolds == Spec => []ClosedStatementsTie
<1>1. Init => KInv /\ CInv
      BY KInvInit, CInvInit
<1>2. KInv /\ CInv /\ [Next]_vars => (KInv /\ CInv)'
      BY KInvStep, CInvStep
<1>3. KInv /\ CInv => ClosedStatementsTie
      BY CInvTies
<1>4. QED
      BY <1>1, <1>2, <1>3, PTL DEF Spec

-----------------------------------------------------------------------------
(* What settles a line moved the bank by its amount. *)

\* Entries stay as they were posted, but for being cleared.
Booked ==
    \A e \in DOMAIN journal :
        /\ e \in DOMAIN journal'
        /\ journal'[e].kind = journal[e].kind /\ journal'[e].of = journal[e].of
        /\ journal'[e].bank = journal[e].bank /\ journal'[e].gross = journal[e].gross

LEMMA WeighedStays ==
    ASSUME Booked, scope' = scope, DOMAIN rows \subseteq DOMAIN rows', NEW j, NEW at, Weighed(j, at)
    PROVE  Weighed(j, at)'
BY DEF Weighed, Held, Booked, Amount, feed

LEMMA AllWeighed ==
    ASSUME Booked, scope' = scope, DOMAIN rows \subseteq DOMAIN rows',
           NEW p \in Procs, Others(p), \A q \in Procs : Weighed(job[q], pc[q]), Weighed(job[p], pc[p])'
    PROVE  (\A q \in Procs : Weighed(job[q], pc[q]))'
<1>1. SUFFICES ASSUME NEW q \in Procs, q # p PROVE Weighed(job[q], pc[q])'
      OBVIOUS
<1>2. job'[q] = job[q] /\ pc'[q] = pc[q]
      BY <1>1 DEF Others
<1>3. Weighed(job[q], pc[q])
      OBVIOUS
<1>4. \A j, at : Weighed(j, at) => Weighed(j, at)'
      BY WeighedStays
<1>5. PICK j, at : j = job[q] /\ at = pc[q]
      OBVIOUS
<1>6. Weighed(j, at)'
      BY <1>3, <1>4, <1>5
<1>7. QED
      BY <1>2, <1>5, <1>6 DEF Weighed, Amount, feed

LEMMA SaidStays ==
    ASSUME Booked, scope' = scope, DOMAIN rows \subseteq DOMAIN rows', NEW e \in DOMAIN journal, Said(e)
    PROVE  Said(e)'
BY DEF Said, Booked, Magnitude, Amount, feed

\* A line that a step leaves alone.
LEMMA Untouched ==
    ASSUME Booked, scope' = scope, NEW l \in DOMAIN rows, InFull(l), rows'[l] = rows[l],
           Resolved(l) => rows[l].entry \in DOMAIN journal,
           FeesOf(l)' = FeesOf(l),
           \A q \in Procs : AtFee(q, l)' <=> AtFee(q, l),
           \A q \in Procs : AtFee(q, l) => job'[q].entry = job[q].entry /\ job'[q].kind = job[q].kind
    PROVE  InFull(l)'
<1>1. Resolved(l)' <=> Resolved(l)
      BY DEF Resolved
<1>2. Amount(l)' = Amount(l)
      BY DEF Amount, feed
<1>3. Resolved(l) => Held(rows[l].kind, rows[l].entry)' = Held(rows[l].kind, rows[l].entry)
      BY DEF Booked, Held
<1>4. \A f \in FeesOf(l) : journal'[f].bank = journal[f].bank
      BY DEF Booked, FeesOf
<1>5. QED
      BY <1>1, <1>2, <1>3, <1>4 DEF InFull

\* No fee is posted and nobody comes to posting one.
LEMMA NoFees ==
    ASSUME KInv, FInv, Booked, scope' = scope, DOMAIN rows \subseteq DOMAIN rows', torn \subseteq torn',
           \A l \in DOMAIN rows \ torn' : rows'[l] = rows[l],
           \A l \in DOMAIN rows' \ torn' : l \in DOMAIN rows,
           \A f \in DOMAIN journal' : journal'[f].kind = "fee" => f \in DOMAIN journal,
           NEW p \in Procs, Others(p), pc'[p] # "fee", pc[p] = "fee" => job[p].line \in torn'
    PROVE  (\A l \in DOMAIN rows \ torn : InFull(l))'
<1>1. SUFFICES ASSUME NEW l \in DOMAIN rows, l \notin torn' PROVE InFull(l)'
      OBVIOUS
<1>2. InFull(l) /\ (Resolved(l) => rows[l].entry \in DOMAIN journal)
      BY <1>1 DEF FInv, KInv, SettledIsCleared, Cleared
<1>3. FeesOf(l)' = FeesOf(l)
      BY DEF FeesOf, Booked
<1>4. /\ \A q \in Procs : AtFee(q, l)' <=> AtFee(q, l)
      /\ \A q \in Procs : AtFee(q, l) => job'[q].entry = job[q].entry /\ job'[q].kind = job[q].kind
      BY <1>1 DEF AtFee, Others
<1>5. QED
      BY <1>1, <1>2, <1>3, <1>4, Untouched

\* Steps that leave lines and entries alone, of a process that does not come
\* to posting a fee.
LEMMA FeesBeside ==
    ASSUME KInv, FInv, UNCHANGED <<scope, rows, journal>>, torn \subseteq torn',
           NEW p \in Procs, Others(p), pc'[p] # "fee", pc[p] = "fee" => job[p].line \in torn',
           Weighed(job[p], pc[p])'
    PROVE  FInv'
<1>1. Booked
      BY DEF Booked
<1>2. (\A e \in DOMAIN journal : Said(e))'
      BY <1>1, SaidStays DEF FInv
<1>3. (\A q \in Procs : Weighed(job[q], pc[q]))'
      BY <1>1, AllWeighed DEF FInv
<1>4. (\A l \in DOMAIN rows \ torn : InFull(l))'
      BY <1>1, NoFees
<1>5. QED
      BY <1>2, <1>3, <1>4 DEF FInv

LEMMA FeesStandStill ==
    ASSUME FInv, UNCHANGED <<scope, rows, journal, pc, job, torn>>
    PROVE  FInv'
BY DEF FInv, Said, Weighed, Held, InFull, FeesOf, AtFee, Resolved, Magnitude, Amount, feed

\* An entry is posted that is no fee.
LEMMA PostedIsBooked ==
    ASSUME KInv, NEW e, journal' = Append(journal, e)
    PROVE  /\ Booked /\ Len(journal) + 1 \notin DOMAIN journal
           /\ DOMAIN journal' = DOMAIN journal \cup {Len(journal) + 1}
           /\ journal'[Len(journal) + 1] = e
           /\ \A f \in DOMAIN journal : journal'[f] = journal[f]
<1> DEFINE n == Len(journal) + 1
<1>1. /\ n \notin DOMAIN journal
      /\ DOMAIN journal' = DOMAIN journal \cup {n} /\ journal'[n] = e
      /\ \A f \in DOMAIN journal : journal'[f] = journal[f]
      BY Appended DEF KInv, Tables
<1> HIDE DEF n
<1>2. Booked
      BY <1>1 DEF Booked
<1>3. QED
      BY <1>1, <1>2 DEF n

LEMMA BooksPostFees ==
    ASSUME KInv, FInv, BooksPost
    PROVE  FInv'
<1>1. PICK i \in DOMAIN feed, kind \in {"payment", "purchase", "settlement", "deposit"},
           bank \in Int, gross \in Int :
         /\ journal' = Append(journal, Entry(kind, bank, gross, feed[i].day, NoLine))
         /\ UNCHANGED <<scope, rows, pc, job, torn, doubled>>
      BY BooksPostWrites
<1> DEFINE e == Entry(kind, bank, gross, feed[i].day, NoLine)
<1>3. e.kind \notin {"fee", "bank_line"} /\ e.bank \in Int /\ e.gross \in Int
      BY <1>1 DEF Entry
<1>4. journal' = Append(journal, e)
      BY <1>1
<1> HIDE DEF e
<1>5. PICK n : n = Len(journal) + 1
      OBVIOUS
<1>6. /\ Booked /\ n \notin DOMAIN journal /\ DOMAIN journal' = DOMAIN journal \cup {n}
      /\ journal'[n] = e /\ \A f \in DOMAIN journal : journal'[f] = journal[f]
      BY <1>4, <1>5, PostedIsBooked
<1>7. (\A f \in DOMAIN journal : Said(f))'
  <2>1. Said(n)'
        BY <1>3, <1>6 DEF Said
  <2>2. \A f \in DOMAIN journal : Said(f)'
        BY <1>1, <1>6, SaidStays DEF FInv
  <2>3. QED
        BY <1>6, <2>1, <2>2
<1>8. (\A q \in Procs : Weighed(job[q], pc[q]))'
  <2>1. \A j, at : Weighed(j, at) => Weighed(j, at)'
        BY <1>1, <1>6, WeighedStays
  <2>2. SUFFICES ASSUME NEW q \in Procs PROVE Weighed(job[q], pc[q])'
        OBVIOUS
  <2>3. PICK j, at : j = job[q] /\ at = pc[q]
        OBVIOUS
  <2>4. Weighed(j, at)'
        BY <2>1, <2>3 DEF FInv
  <2>5. QED
        BY <1>1, <2>3, <2>4 DEF Weighed, Amount, feed
<1>9. (\A l \in DOMAIN rows \ torn : InFull(l))'
  <2>1. SUFFICES ASSUME NEW l \in DOMAIN rows, l \notin torn PROVE InFull(l)'
        BY <1>1
  <2>2. InFull(l) /\ (Resolved(l) => rows[l].entry \in DOMAIN journal)
        BY <2>1 DEF FInv, KInv, SettledIsCleared, Cleared
  <2>3. FeesOf(l)' = FeesOf(l)
        BY <1>3, <1>6 DEF FeesOf
  <2>4. QED
        BY <1>1, <1>6, <2>1, <2>2, <2>3, Untouched DEF AtFee
<1>10. QED
      BY <1>7, <1>8, <1>9 DEF FInv

\* The fee of a settlement, once: whoever found it is alone with its line.
LEMMA PostFeeFees ==
    ASSUME KInv, FInv, NEW p \in Procs, PostFee(p)
    PROVE  FInv'
<1>0. PICK l, n : l = job[p].line /\ n = Len(journal) + 1
      OBVIOUS
<1> DEFINE e == Entry("fee", -job[p].fee, 0, Day(l), l)
<1>1. /\ pc[p] = "fee" /\ journal' = Append(journal, e) /\ pc' = [pc EXCEPT ![p] = "match"]
      /\ UNCHANGED <<scope, rows, job, torn>>
      BY <1>0 DEF PostFee, History, Goto
<1>2. /\ job[p].todo \subseteq DOMAIN rows /\ l \in DOMAIN rows
      /\ job[p].fee \in Nat /\ job[p].entry \in DOMAIN journal
      /\ Held(job[p].kind, job[p].entry) - job[p].fee = Amount(l)
      /\ OnTask(job[p], pc[p])
  <2>1. Weighed(job[p], pc[p]) /\ OnTask(job[p], pc[p])
        BY DEF FInv, KInv
  <2>2. job[p].kind # "manual"
        BY <1>1, <2>1 DEF OnTask
  <2>3. QED
        BY <1>0, <1>1, <2>1, <2>2 DEF Weighed
<1>3. e.kind = "fee" /\ e.bank = -job[p].fee /\ e.gross = 0 /\ e.of = l
      BY DEF Entry
<1> HIDE DEF e
<1>4. /\ Booked /\ n \notin DOMAIN journal /\ DOMAIN journal' = DOMAIN journal \cup {n}
      /\ journal'[n] = e /\ \A f \in DOMAIN journal : journal'[f] = journal[f]
      BY <1>0, <1>1, PostedIsBooked
<1>5. Others(p) /\ pc'[p] = "match" /\ job'[p] = job[p]
      BY <1>1 DEF Others, KInv, Tables
<1>6. (\A f \in DOMAIN journal : Said(f))'
  <2>1. Said(n)'
        BY <1>1, <1>2, <1>3, <1>4 DEF Said
  <2>2. \A f \in DOMAIN journal : Said(f)'
        BY <1>1, <1>4, SaidStays DEF FInv
  <2>3. QED
        BY <1>4, <2>1, <2>2
<1>7. (\A q \in Procs : Weighed(job[q], pc[q]))'
  <2>1. Weighed(job[p], pc[p])'
        BY <1>1, <1>2, <1>5 DEF Weighed
  <2>2. QED
        BY <1>1, <1>4, <1>5, <2>1, AllWeighed DEF FInv
<1>8. (\A m \in DOMAIN rows \ torn : InFull(m))'
  <2>1. SUFFICES ASSUME NEW m \in DOMAIN rows, m \notin torn PROVE InFull(m)'
        BY <1>1
  <2>2. InFull(m) /\ (Resolved(m) => rows[m].entry \in DOMAIN journal)
        BY <2>1 DEF FInv, KInv, SettledIsCleared, Cleared
  <2>3. CASE m # l
    <3>1. FeesOf(m)' = FeesOf(m)
          BY <1>3, <1>4, <2>3 DEF FeesOf
    <3>2. \A q \in Procs : (AtFee(q, m)' <=> AtFee(q, m))
          BY <1>0, <1>1, <1>5, <2>3 DEF AtFee, Others
    <3>3. QED
          BY <1>1, <1>4, <2>1, <2>2, <3>1, <3>2, Untouched
  <2>4. CASE m = l
    <3>1. AtFee(p, l)
          BY <1>0, <1>1 DEF AtFee
    <3>2. Resolved(l) /\ Resolved(l)' /\ rows'[l] = rows[l]
          BY <1>1, <2>2, <2>4, <3>1 DEF InFull, Resolved
    <3>3. CASE rows[l].kind = "manual" /\ Amount(l) < 0
          BY <1>1, <2>4, <3>2, <3>3 DEF InFull, Amount, feed
    <3>4. CASE ~(rows[l].kind = "manual" /\ Amount(l) < 0)
      <4>1. /\ job[p].entry = rows[l].entry /\ job[p].kind = rows[l].kind /\ FeesOf(l) = {}
            /\ \A q \in Procs : AtFee(q, l) => q = p
            BY <2>2, <2>4, <3>1, <3>2, <3>4 DEF InFull
      <4>2. FeesOf(l)' = {n}
            BY <1>3, <1>4, <4>1 DEF FeesOf
      <4>3. \A q \in Procs : ~AtFee(q, l)'
            BY <1>5, <4>1 DEF AtFee, Others
      <4>4. Held(rows[l].kind, rows[l].entry)' + journal'[n].bank = Amount(l)
        <5>1. Held(job[p].kind, job[p].entry) \in Int
              BY <1>2 DEF FInv, Said, Held
        <5>2. Held(rows[l].kind, rows[l].entry)' = Held(job[p].kind, job[p].entry)
              BY <1>2, <1>4, <3>2, <4>1 DEF Held
        <5>3. QED
              BY <1>2, <1>3, <1>4, <5>1, <5>2
      <4>5. Amount(l)' = Amount(l)
            BY <1>1 DEF Amount, feed
      <4>6. QED
            BY <1>1, <2>4, <3>2, <4>2, <4>3, <4>4, <4>5 DEF InFull
    <3>5. QED
          BY <3>3, <3>4
  <2>5. QED
        BY <2>3, <2>4
<1>9. QED
      BY <1>6, <1>7, <1>8 DEF FInv

LEMMA PostConfirmedFees ==
    ASSUME KInv, FInv, NEW p \in Procs, PostConfirmed(p)
    PROVE  FInv'
<1>0. PICK l, n : l = job[p].line /\ n = Len(journal) + 1
      OBVIOUS
<1> DEFINE e == Entry("bank_line", Magnitude(Amount(l)), 0, Day(l), l)
<1>1. /\ pc[p] = "confirm" /\ journal' = Append(journal, e)
      /\ job' = [job EXCEPT ![p].entry = n] /\ pc' = [pc EXCEPT ![p] = "clear"]
      /\ torn \subseteq torn' /\ UNCHANGED <<scope, rows>>
      BY <1>0 DEF PostConfirmed, Goto
<1>2. l \in DOMAIN rows /\ job[p].kind = "manual" /\ OnTask(job[p], pc[p])
      BY <1>0, <1>1 DEF KInv, OnTask, Confirming
<1>3. /\ e.kind = "bank_line" /\ e.of = l /\ e.bank = Magnitude(Amount(l))
      /\ e.bank \in Int /\ e.gross \in Int
  <2>1. Amount(l) \in Int
        BY <1>2, ScopesAssumption DEF KInv, Tables, Amount, feed, Ids
  <2>2. QED
        BY <2>1 DEF Entry, Magnitude
<1> HIDE DEF e
<1>4. /\ Booked /\ n \notin DOMAIN journal /\ DOMAIN journal' = DOMAIN journal \cup {n}
      /\ journal'[n] = e /\ \A f \in DOMAIN journal : journal'[f] = journal[f]
      BY <1>0, <1>1, PostedIsBooked
<1>5. Others(p) /\ pc'[p] = "clear" /\ job'[p].kind = "manual"
  <2>1. Others(p) /\ pc'[p] = "clear" /\ job'[p] = [job[p] EXCEPT !.entry = n]
        BY <1>1 DEF Others, KInv, Tables
  <2>2. QED
        BY <1>2, <2>1
<1>6. (\A f \in DOMAIN journal : Said(f))'
  <2>1. Said(n)'
        BY <1>1, <1>3, <1>4 DEF Said, Magnitude, Amount, feed
  <2>2. \A f \in DOMAIN journal : Said(f)'
        BY <1>1, <1>4, SaidStays DEF FInv
  <2>3. QED
        BY <1>4, <2>1, <2>2
<1>7. (\A q \in Procs : Weighed(job[q], pc[q]))'
  <2>1. Weighed(job[p], pc[p])'
        BY <1>5 DEF Weighed
  <2>2. QED
        BY <1>1, <1>4, <1>5, <2>1, AllWeighed DEF FInv
<1>8. (\A m \in DOMAIN rows \ torn : InFull(m))'
  <2>1. \A f \in DOMAIN journal' : journal'[f].kind = "fee" => f \in DOMAIN journal
        BY <1>3, <1>4
  <2>2. QED
        BY <1>1, <1>4, <1>5, <2>1, NoFees
<1>9. QED
      BY <1>6, <1>7, <1>8 DEF FInv

LEMMA ClearJournalLineFees ==
    ASSUME KInv, FInv, NEW p \in Procs, ClearJournalLine(p)
    PROVE  FInv'
<1>0. PICK e : e = job[p].entry
      OBVIOUS
<1>1. /\ pc[p] = "clear" /\ journal' = [journal EXCEPT ![e].cleared = TRUE]
      /\ pc' = [pc EXCEPT ![p] = "set"] /\ UNCHANGED <<scope, rows, job, torn>>
      BY <1>0 DEF ClearJournalLine, Goto
<1>2. e \in DOMAIN journal
      BY <1>0, <1>1 DEF KInv, OnTask
<1> DEFINE c == [journal[e] EXCEPT !.cleared = TRUE]
<1>3. /\ c.kind = journal[e].kind /\ c.of = journal[e].of
      /\ c.bank = journal[e].bank /\ c.gross = journal[e].gross
      BY <1>2 DEF KInv, Tables, EntryShaped
<1>4. journal' = [journal EXCEPT ![e] = c]
      BY <1>1
<1> HIDE DEF c
<1>5. DOMAIN journal' = DOMAIN journal
      BY <1>4
<1>6. \A f \in DOMAIN journal : journal'[f] = IF f = e THEN c ELSE journal[f]
      BY <1>4
<1>7. Booked
      BY <1>3, <1>5, <1>6 DEF Booked
<1>8. Others(p) /\ pc'[p] = "set" /\ job'[p] = job[p]
      BY <1>1 DEF Others, KInv, Tables
<1>9. (\A f \in DOMAIN journal : Said(f))'
      BY <1>1, <1>5, <1>7, SaidStays DEF FInv
<1>10. (\A q \in Procs : Weighed(job[q], pc[q]))'
  <2>1. \A j, at : Weighed(j, at) => Weighed(j, at)'
        BY <1>1, <1>7, WeighedStays
  <2>2. PICK j : j = job[p]
        OBVIOUS
  <2>3. Weighed(j, "clear")'
        BY <1>1, <2>1, <2>2 DEF FInv
  <2>4. Weighed(job[p], pc[p])'
        BY <1>8, <2>2, <2>3 DEF Weighed, Amount, feed
  <2>5. QED
        BY <1>1, <1>7, <1>8, <2>4, AllWeighed DEF FInv
<1>11. (\A m \in DOMAIN rows \ torn : InFull(m))'
      BY <1>1, <1>5, <1>7, <1>8, NoFees
<1>12. QED
       BY <1>9, <1>10, <1>11 DEF FInv

\* A line is settled in full, or its fee is on its way; a line that was not as
\* it was read is torn.
LEMMA SetBankLineMatchFees ==
    ASSUME KInv, FInv, NEW p \in Procs, SetBankLineMatch(p)
    PROVE  FInv'
<1>0. PICK l, e, kind : l = job[p].line /\ e = job[p].entry /\ kind = job[p].kind
      OBVIOUS
<1>1. /\ pc[p] = "set" /\ rows' = [rows EXCEPT ![l] = [kind |-> kind, entry |-> e]]
      /\ torn' = torn \cup (IF rows[l].kind # job[p].seen THEN {l} ELSE {})
      /\ UNCHANGED <<scope, journal>>
      /\ IF kind = "manual" THEN Finish(p)
         ELSE job' = job /\ Goto(p, IF job[p].fee > 0 THEN "fee" ELSE "match")
      BY <1>0 DEF SetBankLineMatch
<1>2. /\ OnTask(job[p], pc[p]) /\ e \in DOMAIN journal /\ kind \in {"exact", "settlement", "manual"}
      /\ kind = "manual" => Confirming(job[p]) /\ IsAnswer(e, l)
      /\ kind # "manual" => job[p].seen = "none"
      BY <1>0, <1>1 DEF KInv, OnTask, Cleared
<1>3. kind # "manual" => /\ job[p].todo \subseteq DOMAIN rows /\ l \in DOMAIN rows
                         /\ job[p].fee \in Nat /\ Held(kind, e) - job[p].fee = Amount(l)
      BY <1>0, <1>1 DEF FInv, Weighed
<1>4. /\ DOMAIN rows' = DOMAIN rows
      /\ \A m \in DOMAIN rows :
            rows'[m] = IF m = l THEN [kind |-> kind, entry |-> e] ELSE rows[m]
      BY <1>1 DEF KInv, Tables
<1>5. Booked
      BY <1>1 DEF Booked
<1>6. /\ Others(p)
      /\ kind = "manual" => pc'[p] = "idle"
      /\ kind # "manual" => job'[p] = job[p] /\ pc'[p] = IF job[p].fee > 0 THEN "fee" ELSE "match"
      BY <1>1 DEF Others, KInv, Tables, Finish, Goto
<1>7. (\A f \in DOMAIN journal : Said(f))'
      BY <1>1, <1>4, <1>5, SaidStays DEF FInv
<1>8. (\A q \in Procs : Weighed(job[q], pc[q]))'
  <2>1. Weighed(job[p], pc[p])'
        BY <1>0, <1>1, <1>2, <1>3, <1>4, <1>6 DEF Weighed, Held, Amount, feed
  <2>2. QED
        BY <1>1, <1>4, <1>5, <1>6, <2>1, AllWeighed DEF FInv
<1>9. (\A m \in DOMAIN rows \ torn : InFull(m))'
  <2>1. SUFFICES ASSUME NEW m \in DOMAIN rows, m \notin torn' PROVE InFull(m)'
        BY <1>4
  <2>2. InFull(m) /\ (Resolved(m) => rows[m].entry \in DOMAIN journal)
        BY <1>1, <2>1 DEF FInv, KInv, SettledIsCleared, Cleared
  <2>3. FeesOf(m)' = FeesOf(m)
        BY <1>1 DEF FeesOf
  <2>4. CASE m # l
    <3>1. \A q \in Procs : AtFee(q, m)' <=> AtFee(q, m)
          BY <1>0, <1>1, <1>6, <2>4 DEF AtFee, Others
    <3>2. \A q \in Procs : AtFee(q, m) => job'[q].entry = job[q].entry /\ job'[q].kind = job[q].kind
          BY <1>1, <1>6 DEF AtFee, Others
    <3>3. QED
          BY <1>1, <1>4, <1>5, <2>1, <2>2, <2>3, <2>4, <3>1, <3>2, Untouched
  <2>5. CASE m = l
    <3>1. rows[l].kind = job[p].seen /\ rows'[l].kind = kind /\ rows'[l].entry = e
          BY <1>1, <1>4, <2>1, <2>5
    <3>2. ~Resolved(l)
          BY <1>2, <3>1 DEF Resolved, Confirming
    <3>3. FeesOf(l) = {} /\ \A q \in Procs : ~AtFee(q, l)
          BY <2>2, <2>5, <3>2 DEF InFull
    <3>4. Resolved(l)'
          BY <1>2, <3>1 DEF Resolved
    <3>5. /\ Amount(l)' = Amount(l) /\ FeesOf(l)' = {}
          /\ Held(rows[l].kind, rows[l].entry)' = Held(kind, e)
          BY <1>1, <2>3, <2>5, <3>1, <3>3 DEF Amount, feed, Held
    <3>6. \A q \in Procs \ {p} : ~AtFee(q, l)'
          BY <1>6, <3>3 DEF AtFee, Others
    <3>7. CASE kind = "manual"
      <4>1. ~AtFee(p, l)'
            BY <1>6, <3>7 DEF AtFee
      <4>2. journal[e].bank = Magnitude(Amount(l))
            BY <1>2, <3>7 DEF FInv, Said, IsAnswer
      <4>3. Amount(l) \in Int
            BY <2>1, <2>5, ScopesAssumption DEF KInv, Tables, Amount, feed, Ids
      <4>4. Amount(l) < 0 \/ Held(kind, e) = Amount(l)
            BY <3>7, <4>2, <4>3 DEF Magnitude, Held
      <4>5. QED
            BY <2>5, <3>1, <3>4, <3>5, <3>6, <3>7, <4>1, <4>4 DEF InFull
    <3>8. CASE kind # "manual" /\ job[p].fee > 0
      <4>1. AtFee(p, l)' /\ job'[p].entry = e /\ job'[p].kind = kind
            BY <1>0, <1>6, <3>8 DEF AtFee
      <4>2. QED
            BY <2>5, <3>1, <3>4, <3>5, <3>6, <4>1 DEF InFull
    <3>9. CASE kind # "manual" /\ ~(job[p].fee > 0)
      <4>1. ~AtFee(p, l)'
            BY <1>6, <3>9 DEF AtFee
      <4>2. Held(kind, e) \in Int
            BY <1>2 DEF FInv, Said, Held
      <4>3. Held(kind, e) = Amount(l)
            BY <1>3, <3>9, <4>2
      <4>4. QED
            BY <2>5, <3>1, <3>4, <3>5, <3>6, <4>1, <4>3 DEF InFull
    <3>10. QED
          BY <3>7, <3>8, <3>9
  <2>6. QED
        BY <2>4, <2>5
<1>10. QED
       BY <1>7, <1>8, <1>9 DEF FInv

\* What a match takes came in, less a fee.
LEMMA TakeFees ==
    ASSUME KInv, FInv, NEW p \in Procs, pc[p] = "match", NEW l \in job[p].todo,
           NEW kind \in {"exact", "settlement"}, NEW e \in DOMAIN journal, NEW fee \in Nat,
           Held(kind, e) - fee = Amount(l), Take(p, l, kind, e, fee), UNCHANGED <<scope, journal>>
    PROVE  FInv'
<1>1. /\ pc' = [pc EXCEPT ![p] = "clear"]
      /\ job' = [job EXCEPT ![p].line = l, ![p].todo = @ \ {l}, ![p].kind = kind, ![p].entry = e,
                            ![p].fee = fee, ![p].wasCleared = journal[e].cleared]
      /\ UNCHANGED <<rows, torn>>
      BY DEF Take, Goto
<1>2. OnTask(job[p], pc[p]) /\ job[p].todo \subseteq DOMAIN rows
      BY DEF KInv, FInv, Weighed
<1>3. /\ Others(p) /\ pc'[p] = "clear" /\ job'[p].todo \subseteq job[p].todo
      /\ job'[p].line = l /\ job'[p].entry = e /\ job'[p].fee = fee /\ job'[p].kind = kind
      BY <1>1, <1>2 DEF Others, KInv, Tables, OnTask, JobShaped
<1>4. Weighed(job[p], pc[p])'
      BY <1>1, <1>2, <1>3 DEF Weighed, Held, Amount, feed
<1>5. QED
      BY <1>1, <1>3, <1>4, FeesBeside

LEMMA ProposeFees ==
    ASSUME KInv, FInv, NEW p \in Procs, NEW l, pc[p] = "match", Propose(p, l),
           UNCHANGED <<scope, journal>>
    PROVE  FInv'
<1>1. /\ rows' = [rows EXCEPT ![l] = [kind |-> "proposed", entry |-> 0]]
      /\ job' = [job EXCEPT ![p].todo = @ \ {l}]
      /\ torn' = torn \cup (IF rows[l].kind # "none" THEN {l} ELSE {})
      /\ pc' = pc
      BY DEF Propose
<1>2. OnTask(job[p], pc[p]) /\ job[p].todo \subseteq DOMAIN rows
      BY DEF KInv, FInv, Weighed
<1>3. Others(p) /\ pc'[p] = "match" /\ job'[p].todo \subseteq job[p].todo
      BY <1>1, <1>2 DEF Others, KInv, Tables, OnTask, JobShaped
<1>4. /\ DOMAIN rows' = DOMAIN rows
      /\ \A m \in DOMAIN rows :
            rows'[m] = IF m = l THEN [kind |-> "proposed", entry |-> 0] ELSE rows[m]
      BY <1>1 DEF KInv, Tables
<1>5. Booked
      BY DEF Booked
<1>6. (\A f \in DOMAIN journal : Said(f))'
      BY <1>4, <1>5, SaidStays DEF FInv
<1>7. (\A q \in Procs : Weighed(job[q], pc[q]))'
  <2>1. Weighed(job[p], pc[p])'
        BY <1>2, <1>3, <1>4 DEF Weighed
  <2>2. QED
        BY <1>3, <1>4, <1>5, <2>1, AllWeighed DEF FInv
<1>8. (\A m \in DOMAIN rows \ torn : InFull(m))'
  <2>1. SUFFICES ASSUME NEW m \in DOMAIN rows, m \notin torn' PROVE InFull(m)'
        BY <1>4
  <2>2. InFull(m) /\ (Resolved(m) => rows[m].entry \in DOMAIN journal)
        BY <1>1, <2>1 DEF FInv, KInv, SettledIsCleared, Cleared
  <2>3. FeesOf(m)' = FeesOf(m)
        BY DEF FeesOf
  <2>4. /\ \A q \in Procs : AtFee(q, m)' <=> AtFee(q, m)
        /\ \A q \in Procs : AtFee(q, m) => job'[q].entry = job[q].entry /\ job'[q].kind = job[q].kind
        BY <1>1, <1>3 DEF AtFee, Others
  <2>5. CASE m # l
        BY <1>4, <1>5, <2>1, <2>2, <2>3, <2>4, <2>5, Untouched
  <2>6. CASE m = l
    <3>1. ~Resolved(l) /\ ~Resolved(l)'
          BY <1>1, <1>4, <2>1, <2>6 DEF Resolved
    <3>2. QED
          BY <2>2, <2>3, <2>4, <2>6, <3>1 DEF InFull
  <2>7. QED
        BY <2>5, <2>6
<1>9. QED
      BY <1>6, <1>7, <1>8 DEF FInv

LEMMA MatchOneLineFees ==
    ASSUME KInv, FInv, NEW p \in Procs, MatchOneLine(p)
    PROVE  FInv'
<1>0. PICK l : l = NextLine(job[p].todo)
      OBVIOUS
<1>1. /\ pc[p] = "match" /\ job[p].todo # {}
      /\ IF ExactCandidates(l) # {} THEN Take(p, l, "exact", Nearest(ExactCandidates(l), l), 0)
         ELSE IF SettlementCandidates(l) # {}
         THEN Take(p, l, "settlement", Min(SettlementCandidates(l)), 0)
         ELSE IF FeeCandidates(l) # {}
         THEN Take(p, l, "settlement", Min(FeeCandidates(l)),
                   journal[Min(FeeCandidates(l))].gross - Amount(l))
         ELSE Propose(p, l)
      /\ UNCHANGED <<scope, journal>>
      BY <1>0 DEF MatchOneLine
<1>2. l \in job[p].todo /\ l[2] \in Ids /\ Day(l) \in Nat /\ Amount(l) \in Int
  <2>1. l \in job[p].todo /\ l[2] \in Ids /\ scope \in Scopes
        BY <1>0, <1>1, NextLineIsIn DEF KInv, Tables, OnTask
  <2>2. QED
        BY <2>1, ScopesAssumption DEF Day, Amount, Ids, feed
<1>3. \A e \in DOMAIN journal : Said(e) /\ e \in Nat
      BY DEF FInv, KInv, Tables, IsSeq
<1>4. CASE ExactCandidates(l) # {}
  <2>1. \A e \in ExactCandidates(l) : /\ e \in DOMAIN journal /\ journal[e].bank = Amount(l)
                                      /\ journal[e].kind \in ExactKinds
        BY DEF ExactCandidates
  <2>2. Nearest(ExactCandidates(l), l) \in ExactCandidates(l)
        BY <1>2, <1>4, <2>1, NearestIsIn DEF ExactKinds
  <2>3. PICK e : e = Nearest(ExactCandidates(l), l)
        OBVIOUS
  <2>4. e \in DOMAIN journal /\ Held("exact", e) - 0 = Amount(l) /\ Take(p, l, "exact", e, 0)
        BY <1>1, <1>2, <1>4, <2>1, <2>2, <2>3 DEF Held
  <2>5. QED
        BY <1>1, <1>2, <2>4, TakeFees
<1>5. CASE ExactCandidates(l) = {} /\ SettlementCandidates(l) # {}
  <2>1. PICK e : e = Min(SettlementCandidates(l))
        OBVIOUS
  <2>2. SettlementCandidates(l) \in SUBSET Nat
        BY <1>3 DEF SettlementCandidates, Settlements
  <2>3. e \in SettlementCandidates(l)
        BY <1>5, <2>1, <2>2, MinIsIn
  <2>4. e \in DOMAIN journal /\ journal[e].gross = Amount(l)
        BY <2>3 DEF SettlementCandidates, Settlements
  <2>5. Held("settlement", e) - 0 = Amount(l) /\ Take(p, l, "settlement", e, 0)
        BY <1>1, <1>2, <1>5, <2>1, <2>4 DEF Held
  <2>6. QED
        BY <1>1, <1>2, <2>4, <2>5, TakeFees
<1>6. CASE ExactCandidates(l) = {} /\ SettlementCandidates(l) = {} /\ FeeCandidates(l) # {}
  <2>1. PICK e, fee : e = Min(FeeCandidates(l)) /\ fee = journal[e].gross - Amount(l)
        OBVIOUS
  <2>2. FeeCandidates(l) \in SUBSET Nat
        BY <1>3 DEF FeeCandidates, Settlements
  <2>3. e \in FeeCandidates(l)
        BY <1>6, <2>1, <2>2, MinIsIn
  <2>4. e \in DOMAIN journal /\ fee > 0
        BY <2>1, <2>3 DEF FeeCandidates, Settlements
  <2>5. fee \in Nat /\ Held("settlement", e) - fee = Amount(l)
    <3>1. Held("settlement", e) = journal[e].gross /\ journal[e].gross \in Int
          BY <1>3, <2>4 DEF Said, Held
    <3>2. QED
          BY <1>2, <2>1, <2>4, <3>1
  <2>6. Take(p, l, "settlement", e, fee)
        BY <1>1, <1>6, <2>1
  <2>7. QED
        BY <1>1, <1>2, <2>4, <2>5, <2>6, TakeFees
<1>7. CASE ExactCandidates(l) = {} /\ SettlementCandidates(l) = {} /\ FeeCandidates(l) = {}
      BY <1>1, <1>7, ProposeFees
<1>8. QED
      BY <1>4, <1>5, <1>6, <1>7

\* A new line has no fee: fees are posted for lines.
LEMMA InsertLineFees ==
    ASSUME KInv, FInv, NEW p \in Procs, InsertLine(p)
    PROVE  FInv'
<1>0. PICK line : line = <<job[p].statement, Min({l[2] : l \in job[p].todo})>>
      OBVIOUS
<1>1. /\ pc[p] = "import" /\ job' = [job EXCEPT ![p].todo = @ \ {line}]
      /\ IF Known(line)
         THEN rows' = rows
         ELSE rows' = [l \in DOMAIN rows \cup {line} |-> IF l = line THEN Unlooked ELSE rows[l]]
      /\ UNCHANGED <<scope, journal, pc, torn>>
      BY <1>0 DEF InsertLine
<1>2. Others(p) /\ pc'[p] = "import"
      BY <1>1 DEF Others, KInv, Tables
<1>3. Weighed(job[p], pc[p])'
      BY <1>2 DEF Weighed
<1>4. CASE Known(line)
      BY <1>1, <1>2, <1>3, <1>4, FeesBeside
<1>5. CASE ~Known(line)
  <2>1. /\ line \notin DOMAIN rows /\ DOMAIN rows' = DOMAIN rows \cup {line}
        /\ rows'[line].kind = "none"
        /\ \A l \in DOMAIN rows : rows'[l] = rows[l]
        BY <1>1, <1>5 DEF Known, Unlooked
  <2>2. Booked
        BY <1>1 DEF Booked
  <2>3. (\A f \in DOMAIN journal : Said(f))'
        BY <1>1, <2>1, <2>2, SaidStays DEF FInv
  <2>4. (\A q \in Procs : Weighed(job[q], pc[q]))'
        BY <1>1, <1>2, <1>3, <2>1, <2>2, AllWeighed DEF FInv
  <2>5. (\A m \in DOMAIN rows \ torn : InFull(m))'
    <3>1. SUFFICES ASSUME NEW m \in DOMAIN rows', m \notin torn PROVE InFull(m)'
          BY <1>1
    <3>2. FeesOf(m)' = FeesOf(m)
          BY <1>1 DEF FeesOf
    <3>3. /\ \A q \in Procs : AtFee(q, m)' <=> AtFee(q, m)
          /\ \A q \in Procs : AtFee(q, m) => job'[q].entry = job[q].entry /\ job'[q].kind = job[q].kind
          BY <1>1, <1>2 DEF AtFee, Others
    <3>4. CASE m = line
      <4>1. FeesOf(m) = {}
            BY <2>1, <3>4 DEF FeesOf, FInv, Said
      <4>2. \A q \in Procs : ~AtFee(q, m)
            BY <2>1, <3>4 DEF AtFee, FInv, Weighed, KInv, OnTask
      <4>3. QED
            BY <2>1, <3>2, <3>3, <3>4, <4>1, <4>2 DEF InFull, Resolved
    <3>5. CASE m # line
      <4>1. /\ m \in DOMAIN rows /\ rows'[m] = rows[m] /\ InFull(m)
            /\ Resolved(m) => rows[m].entry \in DOMAIN journal
            BY <2>1, <3>1, <3>5 DEF FInv, KInv, SettledIsCleared, Cleared
      <4>2. QED
            BY <1>1, <2>2, <3>2, <3>3, <4>1, Untouched
    <3>6. QED
          BY <3>4, <3>5
  <2>6. QED
        BY <2>3, <2>4, <2>5 DEF FInv
<1>6. QED
      BY <1>4, <1>5

LEMMA BesideFees ==
    ASSUME KInv, FInv, NEW p \in Procs,
           \/ ImportStatement(p) \/ ImportDone(p) \/ MatchStatement(p) \/ MatchDone(p) \/ FeeRefused(p)
           \/ ConfirmProposal(p) \/ ConfirmRefused(p) \/ CloseStatement(p) \/ CloseBankStatement(p)
           \/ Crash(p)
    PROVE  FInv'
<1>1. /\ UNCHANGED <<scope, rows, journal>> /\ torn \subseteq torn'
      BY DEF ImportStatement, ImportDone, MatchStatement, MatchDone, FeeRefused, ConfirmProposal,
             ConfirmRefused, CloseStatement, CloseBankStatement, Crash, bankVars, History
<1>2. pc[p] = "fee" => job[p].line \in torn'
      BY DEF ImportStatement, ImportDone, MatchStatement, MatchDone, FeeRefused, ConfirmProposal,
             ConfirmRefused, CloseStatement, CloseBankStatement, Crash, Command
<1>3. CASE Finish(p)
  <2>1. Others(p) /\ pc'[p] = "idle"
        BY <1>3 DEF Finish, Goto, Others, KInv, Tables
  <2>2. QED
        BY <1>1, <1>2, <2>1, FeesBeside DEF Weighed
<1>4. CASE ImportStatement(p) \/ ConfirmProposal(p) \/ CloseStatement(p)
  <2>1. Others(p) /\ pc'[p] \in {"import", "confirm", "close"}
        BY <1>4 DEF ImportStatement, ConfirmProposal, CloseStatement, Goto, Others, KInv, Tables
  <2>2. QED
        BY <1>1, <1>2, <2>1, FeesBeside DEF Weighed
<1>5. CASE MatchStatement(p)
  <2>1. PICK s \in DOMAIN statements :
          /\ pc' = [pc EXCEPT ![p] = "match"]
          /\ job' = [job EXCEPT ![p].statement = s,
                                ![p].todo = {l \in LinesOf(s) : rows[l].kind = "none"}]
        BY <1>5 DEF MatchStatement, Goto
  <2>2. job[p] = NoJob
        BY <1>5 DEF MatchStatement, Command, KInv, OnTask
  <2>3. Others(p) /\ pc'[p] = "match"
        BY <2>1 DEF Others, KInv, Tables
  <2>4. job'[p].todo \subseteq DOMAIN rows
    <3>1. job'[p] = [NoJob EXCEPT !.statement = s,
                                  !.todo = {l \in LinesOf(s) : rows[l].kind = "none"}]
          BY <2>1, <2>2 DEF KInv, Tables
    <3>2. QED
          BY <3>1 DEF NoJob, LinesOf
  <2>5. Weighed(job[p], pc[p])'
        BY <1>1, <2>3, <2>4 DEF Weighed
  <2>6. QED
        BY <1>1, <1>2, <2>3, <2>5, FeesBeside
<1>6. QED
      BY <1>3, <1>4, <1>5 DEF ImportDone, MatchDone, FeeRefused, ConfirmRefused, CloseBankStatement,
                              Crash

LEMMA FInvInit ==
    ASSUME Init
    PROVE  FInv
<1>1. DOMAIN journal = {} /\ DOMAIN rows = {} /\ \A p \in Procs : pc[p] = "idle"
      BY DEF Init
<1>2. QED
      BY <1>1 DEF FInv, Weighed

LEMMA FInvStep ==
    ASSUME FInv, KInv, [Next]_vars
    PROVE  FInv'
<1>1. CASE UNCHANGED vars \/ ClosePeriod
      BY <1>1, FeesStandStill DEF vars, bankVars, ClosePeriod, History
<1>2. CASE BooksPost
      BY <1>2, BooksPostFees
<1>3. ASSUME NEW p \in Procs, Process(p)
      PROVE  FInv'
      BY <1>3, InsertLineFees, MatchOneLineFees, ClearJournalLineFees, SetBankLineMatchFees,
         PostFeeFees, PostConfirmedFees, BesideFees DEF Process
<1>4. QED
      BY <1>1, <1>2, <1>3 DEF Next

LEMMA FInvSettles ==
    ASSUME FInv, KInv
    PROVE  SettledInFull
<1>1. SUFFICES ASSUME NEW l \in DOMAIN rows, Resolved(l), l \notin torn,
                      ~(rows[l].kind = "manual" /\ Amount(l) < 0),
                      \A p \in Procs : ~AtFee(p, l)
               PROVE  journal[rows[l].entry].bank - FeePosted(l) = Amount(l) + Slip(l)
      BY DEF SettledInFull, AtFee
<1>2. PICK e, held : e = rows[l].entry /\ held = Held(rows[l].kind, e)
      OBVIOUS
<1>3. \/ FeesOf(l) = {} /\ held = Amount(l)
      \/ \E f \in FeesOf(l) : FeesOf(l) = {f} /\ held + journal[f].bank = Amount(l)
      BY <1>1, <1>2 DEF FInv, InFull
<1>4. /\ e \in DOMAIN journal /\ FeesOf(l) \subseteq DOMAIN journal
      /\ journal[e].bank \in Int /\ journal[e].gross \in Int
      /\ \A f \in FeesOf(l) : journal[f].bank \in Int
      BY <1>1, <1>2 DEF KInv, SettledIsCleared, Cleared, FeesOf, FInv, Said
<1>5. Slip(l) \in Int /\ held \in Int /\ journal[e].bank = held + Slip(l)
      BY <1>2, <1>4 DEF Slip, Held
<1> DEFINE g == [f \in FeesOf(l) |-> -journal[f].bank]
<1>6. FeePosted(l) = SumFunctionOnSet(g, FeesOf(l)) /\ \A f \in FeesOf(l) : g[f] = -journal[f].bank
      BY DEF FeePosted, FeesOf, SumFunction
<1> HIDE DEF g
<1>7. CASE FeesOf(l) = {} /\ held = Amount(l)
  <2>1. FeePosted(l) = 0
        BY <1>6, <1>7, SumEmpty
  <2>2. QED
        BY <1>2, <1>4, <1>5, <1>7, <2>1
<1>8. ASSUME NEW f \in FeesOf(l), FeesOf(l) = {f}, held + journal[f].bank = Amount(l)
      PROVE  journal[e].bank - FeePosted(l) = Amount(l) + Slip(l)
  <2>1. IsFiniteSet({}) /\ \A y \in {} \cup {f} : g[y] \in Int
        BY <1>4, <1>6, FS_EmptySet
  <2>2. SumFunctionOnSet(g, {} \cup {f}) = g[f] + SumFunctionOnSet(g, {})
        BY <2>1, SumAdd
  <2>3. SumFunctionOnSet(g, {}) = 0 /\ {} \cup {f} = {f}
        BY SumEmpty
  <2>4. FeePosted(l) = -journal[f].bank
        BY <1>4, <1>6, <1>8, <2>2, <2>3
  <2>5. QED
        BY <1>4, <1>5, <1>8, <2>4
<1>9. QED
      BY <1>2, <1>3, <1>7, <1>8

\* What settles a line moved the bank by the line's amount: an exact match as
\* it stands, a confirmed deposit by what it states, a settlement together with
\* the one fee its match posts and off by what its own bank leg differs from its
\* credit to 1160, a fee it had booked itself or money from elsewhere.  Money out
\* that was confirmed by hand is booked as money in and is excepted.
THEOREM SettledInFullHolds == Spec => []SettledInFull
<1>1. Init => KInv /\ FInv
      BY KInvInit, FInvInit
<1>2. KInv /\ FInv /\ [Next]_vars => (KInv /\ FInv)'
      BY KInvStep, FInvStep
<1>3. KInv /\ FInv => SettledInFull
      BY FInvSettles
<1>4. QED
      BY <1>1, <1>2, <1>3, PTL DEF Spec
=============================================================================
