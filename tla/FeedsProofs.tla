---------------------------- MODULE FeedsProofs -----------------------------
(***************************************************************************)
(* Proofs about the feeds, for every set of processes and every export,    *)
(* payroll file and list of requests: that a document is posted once, that *)
(* a run's live entry is of the version saved last, that the clearing      *)
(* account nets to nothing, that an invoice is not over-applied, and that  *)
(* a decision tells what was posted.                                       *)
(***************************************************************************)
EXTENDS Feeds, CommonProofs, FiniteSetTheorems, TLAPS

FeedDocs == Txns \cup Batches

EntriesOf(d) == {i \in DOMAIN entries : entries[i].doc = d}

\* The processes that are between a save and what belongs to it.
Posters(d) == {p \in Procs : pc[p] = "post" /\ job[p].doc = d}
Setters(q) == {p \in Procs : pc[p] = "setPosted" /\ job[p].doc = q}

IsSeq(s) == s \in Seq({s[i] : i \in DOMAIN s})
IsOne(S) == \E x \in S : S = {x}

-----------------------------------------------------------------------------
(* The invariant. *)

States == {"none", "proposed", "rejected", "posted"}

\* An entry stands for a version, or undoes an earlier entry of its document.
Entered(e) ==
    /\ DOMAIN e = {"doc", "version", "reverses"}
    /\ e.doc \in Docs /\ e.version \in Int
    /\ \/ e.reverses = 0
       \/ e.reverses \in DOMAIN entries /\ entries[e.reverses].doc = e.doc

Tables ==
    /\ scope \in Scopes
    /\ saved \in [Docs -> Seq(Int)]
    /\ IsSeq(entries)
    /\ \A i \in DOMAIN entries : Entered(entries[i])
    /\ applied \in [Txns -> Int] /\ elsewhere \in Int
    /\ figure \in [scope.runs -> Int]
    /\ state \in [scope.requests -> States]

\* What a process remembers of a file, and of a decision.
Importing(j) ==
    /\ DOMAIN j.plan \subseteq Txns /\ \A t \in DOMAIN j.plan : j.plan[t] \in Nat
    /\ j.todo \subseteq DOMAIN j.plan \cup Batches
    /\ j.basis \in Int /\ j.version \in Int

Deciding(j) ==
    j.doc \in scope.requests /\ j.plan[j.doc] = "proposed" /\ j.version \in Int

\* The import's look is what lets a process save: only the first version of a
\* document is ever about to be saved.
Working(p) ==
    /\ pc[p] \in {"idle", "check", "save", "post", "approve", "reject", "postAdjustment", "setPosted"}
    /\ pc[p] \in {"check", "save", "post"} => Importing(job[p])
    /\ pc[p] \in {"save", "post"} => job[p].doc \in DOMAIN job[p].plan \cup Batches
    /\ pc[p] = "save" => job[p].version = 1
    /\ pc[p] \in {"approve", "reject", "postAdjustment", "setPosted"} => Deciding(job[p])

Processes ==
    /\ pc = [p \in Procs |-> pc[p]] /\ job = [p \in Procs |-> job[p]]
    /\ \A p \in Procs : Working(p)

\* A document of the file that nothing tore: not saved, saved by the one process
\* that will post it, or posted.
FeedStands(d) ==
    /\ \A i \in EntriesOf(d) : entries[i].reverses = 0
    /\ \/ saved[d] = <<>> /\ Posters(d) = {} /\ EntriesOf(d) = {}
       \/ saved[d] # <<>> /\ IsOne(Posters(d)) /\ EntriesOf(d) = {}
       \/ saved[d] # <<>> /\ Posters(d) = {} /\ IsOne(EntriesOf(d))

RunStands(r) ==
    /\ Live(r) = {} \/ IsOne(Live(r))
    /\ \A i \in Live(r) : entries[i].version = Len(saved[r])

\* A request that nothing tore: what its state says was posted, or posted by the
\* one process that is about to say so.
RequestStands(q) ==
    /\ \A i \in EntriesOf(q) : entries[i].reverses = 0
    /\ \/ state[q] # "posted" /\ Setters(q) = {} /\ EntriesOf(q) = {}
       \/ state[q] = "posted" /\ Setters(q) = {} /\ IsOne(EntriesOf(q))
       \/ state[q] = "proposed" /\ IsOne(Setters(q)) /\ IsOne(EntriesOf(q))

\* What a process may still apply is no more than it believes to be open.
Unsaved == {t \in Txns : saved[t] = <<>>}
Budget(p) ==
    LET plan == job[p].plan IN
    0 <= job[p].basis /\ SumFunctionOnSet(plan, DOMAIN plan \cap Unsaved) <= job[p].basis

Applies ==
    /\ 0 <= Open
    /\ \A t \in Unsaved : applied[t] = 0
    /\ \A p \in Procs : pc[p] \in {"check", "save", "post"} => Budget(p)

Types == Tables /\ Processes

Stands ==
    /\ \A d \in FeedDocs \ torn : FeedStands(d)
    /\ \A r \in scope.runs : RunStands(r)
    /\ \A q \in scope.requests \ torn : RequestStands(q)

FInv == Types /\ Stands /\ (~misread => Applies)

-----------------------------------------------------------------------------
(* What the assumptions say of the scope that was chosen. *)

LEMMA Kinds ==
    ASSUME scope \in Scopes
    PROVE  /\ Txns \cap Batches = {} /\ FeedDocs \cap scope.runs = {}
           /\ FeedDocs \cap scope.requests = {} /\ scope.runs \cap scope.requests = {}
           /\ Docs = FeedDocs \cup scope.runs \cup scope.requests
<1>1. /\ \A i, j \in DOMAIN scope.rows : scope.rows[i].txn # scope.rows[j].batch
      /\ \A i \in DOMAIN scope.rows :
           {scope.rows[i].txn, scope.rows[i].batch} \cap (scope.runs \cup scope.requests) = {}
      /\ scope.runs \cap scope.requests = {}
      BY IdsAssumption
<1>2. QED
      BY <1>1 DEF Txns, Batches, Settled, FeedDocs, Docs

LEMMA Rows ==
    ASSUME scope \in Scopes
    PROVE  /\ Len(scope.rows) \in Nat /\ DOMAIN scope.rows = 1 .. Len(scope.rows)
           /\ Settled \in SUBSET (1 .. Len(scope.rows)) /\ IsFiniteSet(Settled)
           /\ \A t \in Txns : RowOf(t) \in Settled /\ scope.rows[RowOf(t)].txn = t /\ Amount(t) \in Int
           /\ \A d \in FeedDocs : FirstRow(BatchOf(d)) \in Settled
<1>1. /\ Len(scope.rows) \in Nat /\ DOMAIN scope.rows = 1 .. Len(scope.rows)
      /\ \A i \in DOMAIN scope.rows : scope.rows[i].amount \in Int
      BY ScopesAssumption
<1>2. Settled \in SUBSET (1 .. Len(scope.rows))
      BY <1>1 DEF Settled
<1>3. IsFiniteSet(Settled)
  <2>1. IsFiniteSet(1 .. Len(scope.rows))
        BY <1>1, FS_Interval
  <2>2. QED
        BY <1>2, <2>1, FS_Subset
<1>4. ASSUME NEW t \in Txns
      PROVE  RowOf(t) \in Settled /\ scope.rows[RowOf(t)].txn = t /\ Amount(t) \in Int
  <2>1. \E i \in Settled : scope.rows[i].txn = t
        BY DEF Txns
  <2>2. RowOf(t) \in Settled /\ scope.rows[RowOf(t)].txn = t
        BY <2>1 DEF RowOf
  <2>3. QED
        BY <1>1, <1>2, <2>2 DEF Amount
<1>5. ASSUME NEW d \in FeedDocs PROVE FirstRow(BatchOf(d)) \in Settled
  <2> DEFINE b == BatchOf(d)
             S == {i \in Settled : scope.rows[i].batch = b}
             F == [i \in S |-> i]
  <2>1. S # {}
        BY <1>4 DEF BatchOf, FeedDocs, Batches
  <2>2. \A i \in S : F[i] \in Nat
        BY <1>2
  <2>3. \E i \in S : \A j \in S : F[i] <= F[j]
    <3> HIDE DEF S, F
    <3>1. QED
          BY <2>1, <2>2, Smallest
  <2>4. QED
        BY <2>3 DEF FirstRow
<1>6. QED
      BY <1>1, <1>2, <1>3, <1>4, <1>5

LEMMA TxnsFinite ==
    ASSUME scope \in Scopes
    PROVE  IsFiniteSet(Txns)
<1> DEFINE f == [t \in Txns |-> RowOf(t)]
<1>1. /\ \A t \in Txns : RowOf(t) \in Settled /\ scope.rows[RowOf(t)].txn = t
      /\ IsFiniteSet(Settled)
      BY Rows
<1>2. f \in Injection(Txns, Settled)
      BY <1>1 DEF Injection, IsInjective
<1> HIDE DEF f
<1>3. QED
      BY <1>1, <1>2, FS_Injection

\* The documents are built one after the other.
LEMMA InTurn ==
    \A a, b, n \in Nat : \A r, s \in 1 .. n :
        a * (n + 1) + r = b * (n + 1) + s => r = s
<1>1. SUFFICES ASSUME NEW a \in Nat, NEW b \in Nat, NEW n \in Nat, NEW r \in 1 .. n, NEW s \in 1 .. n,
                      a * (n + 1) + r = b * (n + 1) + s
               PROVE  r = s
      OBVIOUS
<1>2. \A x, y \in Nat : x < y => x * (n + 1) + (n + 1) <= y * (n + 1)
  <2>1. SUFFICES ASSUME NEW x \in Nat, NEW y \in Nat, x < y
                 PROVE  x * (n + 1) + (n + 1) <= y * (n + 1)
        OBVIOUS
  <2>2. PICK k \in Nat : y = x + 1 + k
    <3>1. y - x - 1 \in Nat /\ y = x + 1 + (y - x - 1)
          BY <2>1
    <3>2. QED
          BY <3>1
  <2>3. (n + 1) * (x + 1 + k) = (n + 1) * (x + 1) + (n + 1) * k
        BY Distributes
  <2>4. (n + 1) * (x + 1) = (n + 1) * x + (n + 1) * 1
        BY Distributes
  <2>5. (n + 1) * k \in Nat /\ (n + 1) * x \in Nat
        OBVIOUS
  <2>6. (n + 1) * y = y * (n + 1) /\ (n + 1) * x = x * (n + 1)
        OBVIOUS
  <2>7. QED
        BY <2>2, <2>3, <2>4, <2>5, <2>6
<1>3. a * (n + 1) \in Nat /\ b * (n + 1) \in Nat
      OBVIOUS
<1>4. ~(a < b)
      BY <1>1, <1>2, <1>3
<1>5. ~(b < a)
      BY <1>1, <1>2, <1>3
<1>6. QED
      BY <1>1, <1>3, <1>4, <1>5

LEMMA Turns ==
    ASSUME scope \in Scopes
    PROVE  /\ \A t \in Txns : Position(t) \in Nat
           /\ \A t, u \in Txns : Position(t) = Position(u) => t = u
<1> DEFINE n == Len(scope.rows)
<1>1. /\ n \in Nat /\ Settled \in SUBSET (1 .. n)
      /\ \A t \in Txns : RowOf(t) \in Settled /\ scope.rows[RowOf(t)].txn = t
      /\ \A t \in Txns : FirstRow(BatchOf(t)) \in Settled
      BY Rows DEF FeedDocs
<1>2. ASSUME NEW t \in Txns
      PROVE  /\ Position(t) = FirstRow(BatchOf(t)) * (n + 1) + RowOf(t)
             /\ RowOf(t) \in 1 .. n /\ FirstRow(BatchOf(t)) \in Nat
  <2>1. RowOf(t) \in 1 .. n /\ FirstRow(BatchOf(t)) \in 1 .. n
        BY <1>1
  <2>2. QED
        BY <2>1 DEF Position
<1> HIDE DEF n
<1>3. \A t \in Txns : Position(t) \in Nat
      BY <1>1, <1>2
<1>4. \A t, u \in Txns : Position(t) = Position(u) => RowOf(t) = RowOf(u)
      BY <1>1, <1>2, InTurn
<1>5. QED
      BY <1>1, <1>3, <1>4

-----------------------------------------------------------------------------
(* What an import plans to apply. *)

\* Of things that have a natural measure finitely many have a largest.
LEMMA Largest ==
    ASSUME NEW S, IsFiniteSet(S), S # {}, NEW F, \A x \in S : F[x] \in Nat
    PROVE  \E x \in S : \A y \in S : F[y] <= F[x]
<1> DEFINE Good == {T \in SUBSET S : T = {} \/ \E x \in T : \A y \in T : F[y] <= F[x]}
<1>1. {} \in Good
      OBVIOUS
<1>2. ASSUME NEW T \in SUBSET S, T \in Good, NEW z \in S \ T PROVE T \cup {z} \in Good
  <2>1. CASE T = {}
        BY <2>1
  <2>2. CASE T # {}
    <3>1. PICK x \in T : \A y \in T : F[y] <= F[x]
          BY <1>2, <2>2
    <3>2. F[x] <= F[z] \/ F[z] <= F[x]
          OBVIOUS
    <3>3. F[x] <= F[z] => \A y \in T \cup {z} : F[y] <= F[z]
          BY <3>1
    <3>4. F[z] <= F[x] => \A y \in T \cup {z} : F[y] <= F[x]
          BY <3>1
    <3>5. QED
          BY <3>2, <3>3, <3>4
  <2>3. QED
        BY <2>1, <2>2
<1>3. S \in Good
  <2> HIDE DEF Good
  <2>1. QED
        BY <1>1, <1>2, ByElement
<1>4. QED
      BY <1>3

Amounts == [t \in Txns |-> Amount(t)]
Earlier(kept, t) == {u \in Sales(kept) : Position(u) < Position(t)}

LEMMA PlanIs ==
    ASSUME scope \in Scopes, NEW kept \in SUBSET Txns, NEW open
    PROVE  /\ IsFiniteSet(Sales(kept)) /\ Sales(kept) \in SUBSET Txns
           /\ \A u \in Sales(kept) : Amounts[u] \in Nat
           /\ \A t \in kept : Plan(kept, open)[t] =
                IF t \in Sales(kept)
                THEN Lesser(Amounts[t], Positive(open - SumFunctionOnSet(Amounts, Earlier(kept, t))))
                ELSE 0
<1>1. \A t \in Txns : Amounts[t] = Amount(t) /\ Amount(t) \in Int
      BY Rows DEF Amounts
<1>2. /\ IsFiniteSet(Sales(kept)) /\ Sales(kept) \in SUBSET Txns
      /\ \A u \in Sales(kept) : Amounts[u] \in Nat
      BY <1>1, TxnsFinite, FS_Subset DEF Sales
<1>3. ASSUME NEW t \in kept
      PROVE  Remaining(kept, open, t) = Positive(open - SumFunctionOnSet(Amounts, Earlier(kept, t)))
  <2> DEFINE S == Earlier(kept, t)
             f == [u \in S |-> Amount(u)]
  <2>1. Remaining(kept, open, t) = Positive(open - SumFunction(f))
        BY DEF Remaining, Earlier
  <2>2. SumFunction(f) = SumFunctionOnSet(f, S)
        BY DEF SumFunction
  <2>3. S \in SUBSET Sales(kept)
        BY DEF Earlier
  <2>4. IsFiniteSet(S) /\ \A u \in S : f[u] = Amounts[u]
        BY <1>1, <1>2, <2>3, FS_Subset
  <2> HIDE DEF f, S
  <2>5. SumFunctionOnSet(f, S) = SumFunctionOnSet(Amounts, S)
        BY <2>4, SumSame
  <2>6. QED
        BY <2>1, <2>2, <2>5 DEF S
<1>4. QED
      BY <1>1, <1>2, <1>3 DEF Plan

\* The sales of a file together take no more than what is open: each is left
\* what the ones before it did not take.
LEMMA PlanFits ==
    ASSUME scope \in Scopes, NEW kept \in SUBSET Txns, NEW open \in Nat
    PROVE  /\ DOMAIN Plan(kept, open) = kept
           /\ \A t \in kept : Plan(kept, open)[t] \in Nat
           /\ SumFunctionOnSet(Plan(kept, open), kept) <= open
<1> DEFINE S == Sales(kept)
           plan == Plan(kept, open)
           Sum(T) == SumFunctionOnSet(Amounts, T)
           Before(t) == Earlier(kept, t)
           Opening(T) == \A t \in T : Before(t) \subseteq T
           Good == {T \in SUBSET S : Opening(T) => SumFunctionOnSet(plan, T) = Lesser(open, Sum(T))}
<1>1. /\ IsFiniteSet(S) /\ S \in SUBSET Txns
      /\ \A u \in S : Amounts[u] \in Nat
      /\ \A t \in kept :
             plan[t] = IF t \in S THEN Lesser(Amounts[t], Positive(open - Sum(Before(t)))) ELSE 0
      BY PlanIs
<1>2. \A T \in SUBSET S : IsFiniteSet(T) /\ Sum(T) \in Nat
      BY <1>1, FS_Subset, SumNat
<1>3. \A t \in kept : Before(t) \in SUBSET S
      BY DEF Earlier
<1>4. S \subseteq kept /\ IsFiniteSet(kept) /\ DOMAIN plan = kept
      BY TxnsFinite, FS_Subset DEF Sales, Plan
<1> HIDE DEF plan
<1>5. \A t \in kept : plan[t] \in Nat
      BY <1>1, <1>2, <1>3 DEF Lesser, Positive
<1>6. ASSUME NEW T \in SUBSET S,
             \A U \in SUBSET S : Cardinality(U) < Cardinality(T) => U \in Good
      PROVE  T \in Good
  <2>1. SUFFICES ASSUME Opening(T) PROVE SumFunctionOnSet(plan, T) = Lesser(open, Sum(T))
        OBVIOUS
  <2>2. CASE T = {}
    <3>1. SumFunctionOnSet(plan, {}) = 0 /\ Sum({}) = 0
          BY SumEmpty
    <3>2. QED
          BY <2>2, <3>1 DEF Lesser
  <2>3. CASE T # {}
    <3> DEFINE F == [t \in T |-> Position(t)]
    <3>1. /\ \A t \in T : Position(t) \in Nat /\ t \in Txns
          /\ \A t, u \in T : Position(t) = Position(u) => t = u
          BY <1>1, Turns
    <3>2. PICK x \in T : \A y \in T : Position(y) <= Position(x)
      <4>1. \A t \in T : F[t] \in Nat
            BY <3>1
      <4>2. \E x \in T : \A y \in T : F[y] <= F[x]
        <5> HIDE DEF F
        <5>1. QED
              BY <1>2, <2>3, <4>1, Largest
      <4>3. QED
            BY <4>2
    <3> DEFINE R == T \ {x}
    <3>3. Before(x) = R
      <4>1. Before(x) \subseteq T /\ x \notin Before(x)
            BY <2>1, <3>1 DEF Earlier
      <4>2. \A y \in R : y \in S /\ Position(y) < Position(x)
            BY <3>1, <3>2
      <4>3. QED
            BY <4>1, <4>2 DEF Earlier
    <3>4. Opening(R)
      <4>1. SUFFICES ASSUME NEW t \in R PROVE x \notin Before(t)
            BY <2>1
      <4>2. Position(t) <= Position(x) /\ Position(t) \in Nat /\ Position(x) \in Nat
            BY <3>1, <3>2
      <4>3. QED
            BY <4>2 DEF Earlier
    <3>5. R \in SUBSET S /\ Cardinality(R) < Cardinality(T)
          BY <1>1, Smaller
    <3>6. SumFunctionOnSet(plan, R) = Lesser(open, Sum(R))
          BY <1>6, <3>4, <3>5
    <3>7. SumFunctionOnSet(plan, T) = plan[x] + SumFunctionOnSet(plan, R)
      <4>1. \A y \in T : plan[y] \in Int
            BY <1>4, <1>5
      <4>2. QED
            BY <1>2, <4>1, SumSplit
    <3>8. Sum(T) = Amounts[x] + Sum(R)
      <4>1. \A y \in T : Amounts[y] \in Int
            BY <1>1
      <4>2. QED
            BY <1>2, <4>1, SumSplit
    <3>9. plan[x] = Lesser(Amounts[x], Positive(open - Sum(R)))
          BY <1>1, <1>4, <3>3
    <3>10. Amounts[x] \in Nat /\ Sum(R) \in Nat
           BY <1>1, <1>2, <3>5
    <3> HIDE DEF Sum
    <3>11. QED
           BY <3>6, <3>7, <3>8, <3>9, <3>10 DEF Lesser, Positive
  <2>4. QED
        BY <2>2, <2>3
<1>7. S \in Good
  <2> HIDE DEF Good, S
  <2>1. QED
        BY <1>1, <1>6, BySize
<1>8. Opening(S)
      BY <1>3, <1>4
<1>9. SumFunctionOnSet(plan, S) = Lesser(open, Sum(S))
      BY <1>7, <1>8
<1>10. SumFunctionOnSet(plan, kept) = SumFunctionOnSet(plan, S)
  <2>1. \A t \in kept : plan[t] \in Int
        BY <1>5
  <2>2. \A t \in kept \ S : plan[t] = 0
        BY <1>1
  <2> HIDE DEF S
  <2>3. QED
        BY <1>4, <2>1, <2>2, SumOfPart
<1>11. Sum(S) \in Nat
       BY <1>2
<1> HIDE DEF Sum
<1>12. Lesser(open, Sum(S)) <= open
       BY <1>11 DEF Lesser
<1>13. QED
       BY <1>4, <1>5, <1>9, <1>10, <1>12 DEF plan

-----------------------------------------------------------------------------
(* What a step does to the places of the processes. *)

LEMMA ScopeKept ==
    ASSUME scope' = scope
    PROVE  /\ Txns' = Txns /\ Batches' = Batches /\ Docs' = Docs /\ FeedDocs' = FeedDocs
BY DEF Txns, Batches, Docs, FeedDocs, Settled

\* Only one process moves.
Others(p) ==
    /\ pc' = [o \in Procs |-> pc'[o]] /\ job' = [o \in Procs |-> job'[o]]
    /\ \A o \in Procs \ {p} : pc'[o] = pc[o] /\ job'[o] = job[o]

At(p, label, j) == Others(p) /\ pc'[p] = label /\ job'[p] = j

\* One process goes somewhere and remembers something.
LEMMA Moves ==
    ASSUME Processes, NEW p \in Procs, NEW j
    PROVE  /\ \A label : Goto(p, label) /\ Remember(p, j) => At(p, label, j)
           /\ pc' = pc /\ Remember(p, j) => At(p, pc[p], j)
           /\ Finish(p) => At(p, "idle", NoJob)
BY DEF At, Others, Processes, Goto, Remember, Finish

LEMMA FeedMoves ==
    ASSUME Processes, NEW p \in Procs
    PROVE  LET j == job[p]  d == j.doc IN
           /\ ImportSettlement(p) =>
                At(p, "check", Job(Unsaved \cup Batches, Plan(Unsaved, Positive(Open)), NoDoc, Open, 0))
           /\ CheckDocument(p) =>
                \/ At(p, "idle", NoJob)
                \/ \E e \in j.todo : \/ At(p, "check", Job(j.todo \ {e}, j.plan, d, j.basis, j.version))
                                     \/ At(p, "save", Job(j.todo \ {e}, j.plan, e, j.basis, 1))
           /\ SaveDocument(p) =>
                IF MovesNothing(d) THEN At(p, "idle", NoJob)
                ELSE At(p, "post", Job(j.todo, j.plan, d,
                                       IF d \in Txns THEN j.basis - j.plan[d] ELSE j.basis, j.version))
           /\ PostEntry(p) => At(p, "check", Job(j.todo, j.plan, NoDoc, j.basis, j.version))
<1> DEFINE j == job[p]
           d == j.doc
<1>1. ImportSettlement(p) =>
        At(p, "check", Job(Unsaved \cup Batches, Plan(Unsaved, Positive(Open)), NoDoc, Open, 0))
  <2>1. {t \in Txns : ~Imported(t)} = Unsaved
        BY DEF Imported, Unsaved
  <2>2. QED
        BY <2>1, Moves, Zenon DEF ImportSettlement
<1>2. ASSUME CheckDocument(p)
      PROVE  \/ At(p, "idle", NoJob)
             \/ \E e \in j.todo : \/ At(p, "check", Job(j.todo \ {e}, j.plan, d, j.basis, j.version))
                                  \/ At(p, "save", Job(j.todo \ {e}, j.plan, e, j.basis, 1))
  <2>1. CASE Finish(p)
        BY <2>1, Moves
  <2>2. ASSUME NEW e \in j.todo, pc' = pc, Remember(p, Job(j.todo \ {e}, j.plan, d, j.basis, j.version))
        PROVE  At(p, "check", Job(j.todo \ {e}, j.plan, d, j.basis, j.version))
    <3>1. pc[p] = "check"
          BY <1>2, Zenon DEF CheckDocument
    <3>2. At(p, pc[p], Job(j.todo \ {e}, j.plan, d, j.basis, j.version))
          BY <2>2, Moves, Zenon
    <3>3. QED
          BY <3>1, <3>2
  <2>3. ASSUME NEW e \in j.todo, Goto(p, "save"), ~Imported(e),
               Remember(p, Job(j.todo \ {e}, j.plan, e, j.basis, Len(saved[e]) + 1))
        PROVE  At(p, "save", Job(j.todo \ {e}, j.plan, e, j.basis, 1))
    <3>1. Len(saved[e]) + 1 = 1
          BY <2>3 DEF Imported
    <3>2. QED
          BY <2>3, <3>1, Moves, Zenon
  <2>4. QED
        BY <1>2, <2>1, <2>2, <2>3, Zenon DEF CheckDocument
<1>3. SaveDocument(p) =>
        IF MovesNothing(d) THEN At(p, "idle", NoJob)
        ELSE At(p, "post", Job(j.todo, j.plan, d, IF d \in Txns THEN j.basis - j.plan[d] ELSE j.basis,
                               j.version))
      BY Moves, Zenon DEF SaveDocument
<1>4. PostEntry(p) => At(p, "check", Job(j.todo, j.plan, NoDoc, j.basis, j.version))
      BY Moves, Zenon DEF PostEntry
<1>5. QED
      BY <1>1, <1>2, <1>3, <1>4, Zenon

\* What the saving of an adjustment leaves to its posting.
Approved(j) == Job({}, j.plan, j.doc, 0, Len(saved[j.doc]) + 1)

LEMMA RequestMoves ==
    ASSUME Processes, NEW p \in Procs
    PROVE  /\ DecideAdjustment(p) =>
                \E q \in scope.requests, label \in {"approve", "reject"} :
                    state[q] = "proposed" /\ At(p, label, Job({}, [t \in {q} |-> state[q]], q, 0, 0))
           /\ SaveAdjustment(p) =>
             At(p, "idle", NoJob) \/ At(p, "postAdjustment", Approved(job[p]))
           /\ PostAdjustment(p) => IF locked THEN At(p, "idle", NoJob) ELSE At(p, "setPosted", job[p])
           /\ SetDecision(p) => At(p, "idle", NoJob)
           /\ Crash(p) => At(p, "idle", NoJob)
<1>1. ASSUME DecideAdjustment(p)
      PROVE  \E q \in scope.requests, label \in {"approve", "reject"} :
                    state[q] = "proposed" /\ At(p, label, Job({}, [t \in {q} |-> state[q]], q, 0, 0))
  <2>1. PICK q \in scope.requests, approve \in BOOLEAN :
             /\ state[q] = "proposed" /\ Goto(p, IF approve THEN "approve" ELSE "reject")
             /\ Remember(p, Job({}, [t \in {q} |-> state[q]], q, 0, 0))
        BY <1>1, Zenon DEF DecideAdjustment, MayDecide
  <2> DEFINE label == IF approve THEN "approve" ELSE "reject"
  <2>2. label \in {"approve", "reject"}
        OBVIOUS
  <2> HIDE DEF label
  <2>3. At(p, label, Job({}, [t \in {q} |-> state[q]], q, 0, 0))
        BY <2>1, Moves, Zenon DEF label
  <2>4. QED
        BY <2>1, <2>2, <2>3, Zenon
<1>2. SaveAdjustment(p) =>
             At(p, "idle", NoJob) \/ At(p, "postAdjustment", Approved(job[p]))
      BY Moves, Zenon DEF SaveAdjustment, Approved
<1>3. PostAdjustment(p) => IF locked THEN At(p, "idle", NoJob) ELSE At(p, "setPosted", job[p])
      BY DEF PostAdjustment, At, Others, Processes, Finish, Goto, Remember
<1>4. SetDecision(p) => At(p, "idle", NoJob)
      BY Moves, Zenon DEF SetDecision
<1>5. Crash(p) => At(p, "idle", NoJob)
      BY Moves, Zenon DEF Crash
<1>6. QED
      BY <1>1, <1>2, <1>3, <1>4, <1>5

\* Steps that move no process.
Aside ==
    PaidElsewhere \/ FigureChanges
    \/ \E p \in Procs : LockOrReopen(p) \/ ReverseEntry(p) \/ ImportRuns(p) \/ ProposeAdjustment(p)

LEMMA AsideMoves ==
    ASSUME Aside \/ UNCHANGED vars
    PROVE  UNCHANGED <<scope, pc, job>>
BY DEF Aside, PaidElsewhere, FigureChanges, LockOrReopen, ReverseEntry, ImportRuns, ProposeAdjustment,
       vars, ledgerVars

-----------------------------------------------------------------------------
(* What a step does to the entries. *)

\* Entries are only ever appended, and what is new is of these documents.
Appends(new) ==
    /\ new \cap DOMAIN entries = {} /\ 0 \notin new
    /\ DOMAIN entries' = DOMAIN entries \cup new
    /\ IsSeq(entries')
    /\ \A i \in DOMAIN entries : entries'[i] = entries[i]
    /\ \A i \in new : Entered(entries'[i])

LEMMA EntriesAre ==
    ASSUME Tables
    PROVE  Len(entries) \in Nat /\ DOMAIN entries = 1 .. Len(entries) /\ 0 \notin DOMAIN entries
<1>1. Len(entries) \in Nat /\ DOMAIN entries = 1 .. Len(entries)
      BY DEF Tables, IsSeq
<1>2. QED
      BY <1>1

LEMMA NothingAppended ==
    ASSUME Tables, entries' = entries
    PROVE  Appends({})
BY EntriesAre DEF Tables, Appends

LEMMA OwnRange == ASSUME NEW T, NEW b \in Seq(T) PROVE IsSeq(b)
BY DEF IsSeq

LEMMA EntryIs ==
    ASSUME NEW d \in Docs, NEW v \in Int, NEW r,
           r = 0 \/ (r \in DOMAIN entries /\ entries[r].doc = d)
    PROVE  LET e == Entry(d, v, r) IN
           e.doc = d /\ e.version = v /\ e.reverses = r /\ Entered(e)
BY DEF Entry, Entered

LEMMA OneAppended ==
    ASSUME Tables, NEW e, Entered(e), entries' = Append(entries, e)
    PROVE  \E n : Appends({n}) /\ entries'[n] = e
<1> DEFINE n == Len(entries) + 1
           T == {entries[i] : i \in DOMAIN entries} \cup {e}
<1>1. Len(entries) \in Nat /\ DOMAIN entries = 1 .. Len(entries)
      BY EntriesAre
<1>2. entries \in Seq(T) /\ e \in T
      BY DEF Tables, IsSeq
<1> HIDE DEF T
<1>3. /\ entries' \in Seq(T) /\ Len(entries') = n /\ entries'[n] = e
      /\ \A i \in 1 .. Len(entries) : entries'[i] = entries[i]
      BY <1>2
<1>4. DOMAIN entries' = 1 .. n
      BY <1>3
<1>5. IsSeq(entries')
  <2>1. \A c : c \in Seq(T) => IsSeq(c)
        BY OwnRange
  <2>2. QED
        BY <1>3, <2>1, Zenon
<1>6. DOMAIN entries' = DOMAIN entries \cup {n} /\ n \notin DOMAIN entries /\ n # 0
      BY <1>1, <1>4
<1> HIDE DEF n
<1>7. Appends({n})
      BY <1>1, <1>3, <1>5, <1>6 DEF Appends
<1>8. QED
      BY <1>3, <1>7

\* What is live afterwards.
LEMMA Lives ==
    ASSUME Tables, NEW new, Appends(new), NEW d
    PROVE  /\ EntriesOf(d)' = EntriesOf(d) \cup {i \in new : entries'[i].doc = d}
           /\ Live(d)' = {i \in Live(d) : \A j \in new : entries'[j].reverses # i}
                             \cup {i \in new : entries'[i].doc = d /\ entries'[i].reverses = 0}
<1>1. \A i \in DOMAIN entries : Entered(entries[i])
      BY DEF Tables
<1>2. EntriesOf(d)' = EntriesOf(d) \cup {i \in new : entries'[i].doc = d}
      BY DEF EntriesOf, Appends
<1>3. ASSUME NEW i \in DOMAIN entries
      PROVE  (\E j \in DOMAIN entries' : entries'[j].reverses = i)
               <=> \/ \E j \in DOMAIN entries : entries[j].reverses = i
                   \/ \E j \in new : entries'[j].reverses = i
      BY DEF Appends
<1>4. ASSUME NEW i \in new
      PROVE  ~\E j \in DOMAIN entries' : entries'[j].reverses = i
      BY <1>1 DEF Appends, Entered
<1>5. QED
      BY <1>2, <1>3, <1>4 DEF Appends, Live

\* A reversal has the document of what it reverses.
LEMMA Original ==
    ASSUME Tables, NEW d, \A i \in EntriesOf(d) : entries[i].reverses = 0
    PROVE  Live(d) = EntriesOf(d)
<1>1. \A i \in DOMAIN entries : Entered(entries[i])
      BY DEF Tables
<1>2. 0 \notin DOMAIN entries
      BY EntriesAre
<1>3. QED
      BY <1>1, <1>2 DEF Live, EntriesOf, Entered

LEMMA Concatenated ==
    ASSUME NEW a, IsSeq(a), NEW n \in Nat, NEW t, t = [i \in 1 .. n |-> t[i]]
    PROVE  LET b == a \o t IN
           /\ DOMAIN b = 1 .. (Len(a) + n) /\ IsSeq(b)
           /\ \A i \in 1 .. Len(a) : b[i] = a[i]
           /\ \A k \in 1 .. n : b[Len(a) + k] = t[k]
<1> DEFINE b == a \o t
           T == {a[i] : i \in DOMAIN a} \cup {t[i] : i \in 1 .. n}
<1>1. a \in Seq(T)
      BY DEF IsSeq
<1>2. t \in Seq(T) /\ Len(t) = n
  <2>1. t \in [1 .. n -> T]
        OBVIOUS
  <2> HIDE DEF T
  <2>2. QED
        BY <2>1
<1> HIDE DEF T
<1>3. /\ b \in Seq(T) /\ Len(b) = Len(a) + n /\ Len(a) \in Nat
      /\ \A i \in 1 .. Len(a) : b[i] = a[i]
      /\ \A k \in 1 .. n : b[Len(a) + k] = t[k]
      BY <1>1, <1>2
<1>4. DOMAIN b = 1 .. (Len(a) + n)
      BY <1>3
<1> HIDE DEF b
<1>5. IsSeq(b)
  <2>1. \A c : c \in Seq(T) => IsSeq(c)
        BY OwnRange
  <2>2. QED
        BY <1>3, <2>1, Zenon
<1>6. QED
      BY <1>3, <1>4, <1>5 DEF b

\* The runs of a file are posted together, each once.
RunsPosted(runs, new) ==
    /\ Appends(new)
    /\ \A i \in new : /\ entries'[i].doc \in runs /\ entries'[i].reverses = 0
                      /\ entries'[i].version = Len(saved[entries'[i].doc]) + 1
    /\ \A i, j \in new : entries'[i].doc = entries'[j].doc => i = j
    /\ \A r \in runs : \E i \in new : entries'[i].doc = r

LEMMA RunsFollow ==
    ASSUME Tables, NEW runs \in SUBSET scope.runs, NEW n \in Nat, NEW s,
           \A i \in 1 .. n : s[i] \in runs,
           \A i, k \in 1 .. n : s[i] = s[k] => i = k,
           \A r \in runs : \E k \in 1 .. n : s[k] = r,
           DOMAIN entries' = 1 .. (Len(entries) + n),
           IsSeq(entries'),
           \A i \in 1 .. Len(entries) : entries'[i] = entries[i],
           \A k \in 1 .. n : entries'[Len(entries) + k] = Entry(s[k], Len(saved[s[k]]) + 1, 0)
    PROVE  RunsPosted(runs, Len(entries) + 1 .. Len(entries) + n)
<1> DEFINE m == Len(entries)
           new == m + 1 .. m + n
<1>1. m \in Nat /\ DOMAIN entries = 1 .. m
      BY EntriesAre
<1> HIDE DEF m
<1>2. /\ DOMAIN entries' = DOMAIN entries \cup new
      /\ new \cap DOMAIN entries = {} /\ 0 \notin new
      BY <1>1 DEF m
<1>3. ASSUME NEW i \in new
      PROVE  i - m \in 1 .. n /\ entries'[i] = Entry(s[i - m], Len(saved[s[i - m]]) + 1, 0)
  <2>1. i - m \in 1 .. n /\ m + (i - m) = i
        BY <1>1
  <2>2. QED
        BY <2>1 DEF m
<1> HIDE DEF new
<1>4. ASSUME NEW i \in new
      PROVE  /\ entries'[i].doc = s[i - m] /\ entries'[i].doc \in runs
             /\ entries'[i].version = Len(saved[entries'[i].doc]) + 1
             /\ entries'[i].reverses = 0 /\ Entered(entries'[i])
  <2>1. s[i - m] \in runs /\ s[i - m] \in Docs
        BY <1>3 DEF Docs
  <2>2. Len(saved[s[i - m]]) + 1 \in Int
        BY <2>1 DEF Tables
  <2>3. entries'[i] = Entry(s[i - m], Len(saved[s[i - m]]) + 1, 0)
        BY <1>3
  <2>4. /\ entries'[i].doc = s[i - m] /\ entries'[i].version = Len(saved[s[i - m]]) + 1
        /\ entries'[i].reverses = 0 /\ Entered(entries'[i])
        BY <2>1, <2>2, <2>3, EntryIs
  <2>5. QED
        BY <2>1, <2>4
<1>5. \A i, j \in new : entries'[i].doc = entries'[j].doc => i = j
  <2>1. SUFFICES ASSUME NEW i \in new, NEW j \in new, entries'[i].doc = entries'[j].doc PROVE i = j
        OBVIOUS
  <2>2. i - m = j - m
    <3>1. i - m \in 1 .. n /\ j - m \in 1 .. n
          BY <1>3
    <3>2. s[i - m] = s[j - m]
      <4>1. entries'[i].doc = s[i - m] /\ entries'[j].doc = s[j - m]
            BY <1>4
      <4>2. QED
            BY <2>1, <4>1
    <3>3. QED
          BY <3>1, <3>2, Zenon
  <2>3. i \in Int /\ j \in Int
        BY <1>1 DEF new
  <2>4. QED
        BY <1>1, <2>2, <2>3
<1>6. ASSUME NEW r \in runs PROVE \E i \in new : entries'[i].doc = r
  <2>1. PICK k \in 1 .. n : s[k] = r
        OBVIOUS
  <2>2. m + k \in new /\ (m + k) - m = k
        BY <1>1 DEF new
  <2>3. QED
        BY <1>4, <2>1, <2>2
<1>7. Appends(new)
      BY <1>1, <1>2, <1>4 DEF Appends, m
<1>8. RunsPosted(runs, new)
      BY <1>4, <1>5, <1>6, <1>7, Zenon DEF RunsPosted
<1>9. QED
      BY <1>8 DEF new, m

LEMMA RunsAppended ==
    ASSUME Tables, NEW runs \in SUBSET scope.runs,
           entries' = entries \o
               [i \in 1 .. Cardinality(runs) |->
                   LET r == SetToSeq(runs)[i] IN Entry(r, Len(saved[r]) + 1, 0)]
    PROVE  \E new : RunsPosted(runs, new)
<1> DEFINE n == Cardinality(runs)
           s == SetToSeq(runs)
           t == [i \in 1 .. n |-> Entry(s[i], Len(saved[s[i]]) + 1, 0)]
<1>1. /\ n \in Nat /\ \A i \in 1 .. n : s[i] \in runs
      /\ \A i, k \in 1 .. n : s[i] = s[k] => i = k
      /\ \A r \in runs : \E k \in 1 .. n : s[k] = r
  <2>1. s = Listing(runs)
        BY DEF SetToSeq, Listing
  <2>2. IsFiniteSet(runs)
    <3>1. IsFiniteSet(scope.runs)
          BY ScopesAssumption DEF Tables
    <3>2. QED
          BY <3>1, FS_Subset
  <2> HIDE DEF s
  <2>3. QED
        BY <2>1, <2>2, Listed
<1>2. entries' = entries \o t
      OBVIOUS
<1>3. t = [i \in 1 .. n |-> t[i]] /\ \A k \in 1 .. n : t[k] = Entry(s[k], Len(saved[s[k]]) + 1, 0)
      OBVIOUS
<1> HIDE DEF n, s, t
<1>4. IsSeq(entries)
      BY DEF Tables
<1>5. /\ DOMAIN entries' = 1 .. (Len(entries) + n)
      /\ IsSeq(entries')
      /\ \A i \in 1 .. Len(entries) : entries'[i] = entries[i]
      /\ \A k \in 1 .. n : entries'[Len(entries) + k] = t[k]
  <2>1. n \in Nat /\ t = [i \in 1 .. n |-> t[i]]
        BY <1>1, <1>3
  <2>2. /\ DOMAIN (entries \o t) = 1 .. (Len(entries) + n) /\ IsSeq(entries \o t)
        /\ \A i \in 1 .. Len(entries) : (entries \o t)[i] = entries[i]
        /\ \A k \in 1 .. n : (entries \o t)[Len(entries) + k] = t[k]
        BY <1>4, <2>1, Concatenated
  <2>3. QED
        BY <1>2, <2>2, Zenon
<1>6. \A k \in 1 .. n : entries'[Len(entries) + k] = Entry(s[k], Len(saved[s[k]]) + 1, 0)
      BY <1>3, <1>5, Zenon
<1>7. RunsPosted(runs, Len(entries) + 1 .. Len(entries) + n)
      BY <1>1, <1>5, <1>6, RunsFollow, Zenon
<1>8. QED
      BY <1>7

-----------------------------------------------------------------------------
(* Types. *)

LEMMA OpenIsInt ==
    ASSUME Tables
    PROVE  Open \in Int /\ Positive(Open) \in Nat
<1>1. SumFunctionOnSet(applied, Txns) \in Int
  <2>1. IsFiniteSet(Txns) /\ \A t \in Txns : applied[t] \in Int
        BY TxnsFinite DEF Tables
  <2>2. QED
        BY <2>1, SumIsInt
<1>2. SumFunction(applied) = SumFunctionOnSet(applied, Txns)
      BY DEF SumFunction, Tables
<1>3. scope.invoice \in Nat /\ elsewhere \in Int
      BY ScopesAssumption DEF Tables
<1>4. Open \in Int
      BY <1>1, <1>2, <1>3 DEF Open
<1>5. QED
      BY <1>4 DEF Positive

LEMMA TablesFrom ==
    ASSUME Tables, scope' = scope, saved' \in [Docs -> Seq(Int)], NEW new, Appends(new),
           applied' \in [Txns -> Int], elsewhere' \in Int, figure' \in [scope.runs -> Int],
           state' \in [scope.requests -> States]
    PROVE  Tables'
<1>1. Docs' = Docs /\ Txns' = Txns
      BY ScopeKept
<1>2. \A i \in DOMAIN entries' : Entered(entries[i])'
  <2>1. \A i \in DOMAIN entries : Entered(entries[i])
        BY DEF Tables
  <2>2. \A i \in DOMAIN entries' : Entered(entries'[i])
        BY <2>1 DEF Appends
  <2>3. ASSUME NEW i \in DOMAIN entries' PROVE Entered(entries[i])'
    <3>1. Entered(entries'[i])
          BY <2>2
    <3>2. \A r \in DOMAIN entries : r \in DOMAIN entries' /\ entries'[r] = entries[r]
          BY DEF Appends
    <3>3. QED
          BY <1>1, <3>1, <3>2 DEF Entered
  <2>4. QED
        BY <2>3
<1>3. IsSeq(entries)'
      BY DEF Appends, IsSeq
<1>4. scope' \in Scopes
      BY DEF Tables
<1>5. QED
      BY <1>1, <1>2, <1>3, <1>4 DEF Tables

Labels == {"idle", "check", "save", "post", "approve", "reject", "postAdjustment", "setPosted"}

LEMMA ProcessesFrom ==
    ASSUME Processes, scope' = scope, NEW p \in Procs, NEW label \in Labels, NEW j, At(p, label, j),
           label \in {"check", "save", "post"} => Importing(j),
           label \in {"save", "post"} => j.doc \in DOMAIN j.plan \cup Batches,
           label = "save" => j.version = 1,
           label \in {"approve", "reject", "postAdjustment", "setPosted"} => Deciding(j)
    PROVE  Processes'
<1>1. Txns' = Txns /\ Batches' = Batches
      BY ScopeKept
<1>2. ASSUME NEW o \in Procs \ {p} PROVE Working(o)'
  <2>1. Working(o) /\ pc'[o] = pc[o] /\ job'[o] = job[o]
        BY DEF Processes, At, Others
  <2>2. QED
        BY <1>1, <2>1 DEF Working, Importing, Deciding
<1>3. Working(p)'
  <2>1. pc'[p] = label /\ job'[p] = j
        BY DEF At
  <2>2. QED
        BY <1>1, <2>1 DEF Working, Importing, Deciding, Labels
<1>4. QED
      BY <1>2, <1>3 DEF Processes, At, Others

LEMMA FinishTyped ==
    ASSUME Processes, scope' = scope, NEW p \in Procs, At(p, "idle", NoJob)
    PROVE  Processes'
<1> DEFINE label == "idle"
<1>1. label \in Labels /\ label \notin {"check", "save", "post"} /\ label \notin {"save", "post"}
      /\ label # "save"
      /\ label \notin {"approve", "reject", "postAdjustment", "setPosted"}
      BY DEF Labels
<1>2. At(p, label, NoJob)
      OBVIOUS
<1> HIDE DEF label
<1>3. QED
      BY <1>1, <1>2, ProcessesFrom

LEMMA StaysTyped ==
    ASSUME Processes, UNCHANGED <<scope, pc, job>>
    PROVE  Processes'
<1>1. Txns' = Txns /\ Batches' = Batches
      BY ScopeKept
<1>2. QED
      BY <1>1 DEF Processes, Working, Importing, Deciding

LEMMA ImportTyped ==
    ASSUME Types, NEW p \in Procs, ImportSettlement(p)
    PROVE  Types'
<1>1. /\ UNCHANGED <<scope, saved, entries, applied, elsewhere, state, figure>>
      BY Zenon DEF ImportSettlement, ledgerVars
<1>2. Tables'
      BY <1>1, NothingAppended, TablesFrom DEF Types, Tables
<1> DEFINE plan == Plan(Unsaved, Positive(Open))
           j == Job(Unsaved \cup Batches, plan, NoDoc, Open, 0)
<1>3. At(p, "check", j)
      BY FeedMoves, Zenon DEF Types
<1>4. /\ DOMAIN plan = Unsaved /\ \A t \in Unsaved : plan[t] \in Nat
      /\ Unsaved \subseteq Txns /\ Open \in Int
  <2>1. scope \in Scopes /\ Unsaved \in SUBSET Txns /\ Open \in Int /\ Positive(Open) \in Nat
        BY OpenIsInt DEF Types, Tables, Unsaved
  <2>2. QED
        BY <2>1, PlanFits
<1> HIDE DEF plan
<1>5. Importing(j)
      BY <1>4 DEF Importing, Job
<1> HIDE DEF j
<1>6. Processes'
      BY <1>1, <1>3, <1>5, ProcessesFrom DEF Types, Labels
<1>7. QED
      BY <1>2, <1>6 DEF Types

LEMMA CheckTyped ==
    ASSUME Types, NEW p \in Procs, CheckDocument(p)
    PROVE  Types'
<1>1. UNCHANGED <<scope, saved, entries, applied, elsewhere, state, figure>> /\ pc[p] = "check"
      BY Zenon DEF CheckDocument, ledgerVars
<1>2. Tables'
      BY <1>1, NothingAppended, TablesFrom DEF Types, Tables
<1>3. Importing(job[p])
      BY <1>1 DEF Types, Processes, Working
<1>4. ASSUME At(p, "idle", NoJob) PROVE Processes'
      BY <1>1, <1>4, FinishTyped DEF Types
<1>5. ASSUME NEW e \in job[p].todo,
             At(p, "check", Job(job[p].todo \ {e}, job[p].plan, job[p].doc, job[p].basis, job[p].version))
      PROVE  Processes'
  <2> DEFINE j == Job(job[p].todo \ {e}, job[p].plan, job[p].doc, job[p].basis, job[p].version)
  <2>1. Importing(j)
        BY <1>3 DEF Importing, Job
  <2> HIDE DEF j
  <2>2. At(p, "check", j)
        BY <1>5 DEF j
  <2>3. QED
        BY <1>1, <2>1, <2>2, ProcessesFrom DEF Types, Labels
<1>6. ASSUME NEW e \in job[p].todo,
             At(p, "save", Job(job[p].todo \ {e}, job[p].plan, e, job[p].basis, 1))
      PROVE  Processes'
  <2> DEFINE j == Job(job[p].todo \ {e}, job[p].plan, e, job[p].basis, 1)
  <2>1. Importing(j) /\ j.doc \in DOMAIN j.plan \cup Batches /\ j.version = 1
        BY <1>3 DEF Importing, Job
  <2> HIDE DEF j
  <2>2. At(p, "save", j)
        BY <1>6 DEF j
  <2>3. QED
        BY <1>1, <2>1, <2>2, ProcessesFrom DEF Types, Labels
<1>7. Processes'
      BY <1>4, <1>5, <1>6, FeedMoves, Zenon DEF Types
<1>8. QED
      BY <1>2, <1>7 DEF Types

LEMMA SaveTyped ==
    ASSUME Types, NEW p \in Procs, SaveDocument(p)
    PROVE  Types'
<1> DEFINE d == job[p].doc
           j == Job(job[p].todo, job[p].plan, d, IF d \in Txns THEN job[p].basis - job[p].plan[d]
                                                             ELSE job[p].basis, job[p].version)
<1>1. /\ UNCHANGED <<scope, entries, elsewhere, state, figure>> /\ pc[p] = "save" /\ Save(d, 1)
      /\ applied' = IF d \in Txns THEN [applied EXCEPT ![d] = job[p].plan[d]] ELSE applied
      BY Zenon DEF SaveDocument
<1>2. /\ Importing(job[p]) /\ d \in DOMAIN job[p].plan \cup Batches /\ d \in Docs
      /\ scope \in Scopes
  <2>1. Importing(job[p]) /\ d \in DOMAIN job[p].plan \cup Batches /\ scope \in Scopes
        BY <1>1 DEF Types, Tables, Processes, Working
  <2>2. QED
        BY <2>1 DEF Importing, Docs
<1>3. d \in Txns => d \in DOMAIN job[p].plan /\ job[p].plan[d] \in Nat
      BY <1>2, Kinds DEF Importing
<1>4. Tables'
  <2>1. saved' \in [Docs -> Seq(Int)]
        BY <1>1, <1>2 DEF Types, Tables, Save
  <2>2. applied' \in [Txns -> Int]
        BY <1>1, <1>3 DEF Types, Tables
  <2>3. Appends({})
        BY <1>1, NothingAppended DEF Types
  <2>4. /\ elsewhere' \in Int /\ figure' \in [scope.runs -> Int]
        /\ state' \in [scope.requests -> States]
        BY <1>1 DEF Types, Tables
  <2>5. QED
        BY <1>1, <2>1, <2>2, <2>3, <2>4, TablesFrom DEF Types
<1>5. CASE MovesNothing(d)
  <2>1. At(p, "idle", NoJob)
        BY <1>5, FeedMoves DEF Types
  <2>2. QED
        BY <1>1, <1>4, <2>1, FinishTyped DEF Types
<1>6. CASE ~MovesNothing(d)
  <2>1. At(p, "post", j)
        BY <1>6, FeedMoves DEF Types
  <2>2. Importing(j) /\ j.doc \in DOMAIN j.plan \cup Batches
    <3>1. (IF d \in Txns THEN job[p].basis - job[p].plan[d] ELSE job[p].basis) \in Int
          BY <1>2, <1>3 DEF Importing
    <3>2. QED
          BY <1>2, <3>1 DEF Importing, Job
  <2> HIDE DEF j
  <2>3. Processes'
        BY <1>1, <2>1, <2>2, ProcessesFrom DEF Types, Labels
  <2>4. QED
        BY <1>4, <2>3 DEF Types
<1>7. QED
      BY <1>5, <1>6

LEMMA Posts ==
    ASSUME Tables, NEW d \in Docs, NEW version \in Int, Post(d, version)
    PROVE  \E n : Appends({n}) /\ entries'[n] = Entry(d, version, 0)
<1> DEFINE e == Entry(d, version, 0)
<1>1. Entered(e)
      BY EntryIs
<1>2. entries' = Append(entries, e)
      BY DEF Post
<1> HIDE DEF e
<1>3. \E n : Appends({n}) /\ entries'[n] = e
      BY <1>1, <1>2, OneAppended
<1>4. QED
      BY <1>3 DEF e

LEMMA PostTyped ==
    ASSUME Types, NEW p \in Procs, PostEntry(p)
    PROVE  /\ Types' /\ job[p].doc \in FeedDocs
           /\ locked \/ \E n : /\ Appends({n})
                               /\ entries'[n] = Entry(job[p].doc, job[p].version, 0)
<1> DEFINE d == job[p].doc
           j == Job(job[p].todo, job[p].plan, NoDoc, job[p].basis, job[p].version)
<1>1. /\ UNCHANGED <<scope, saved, applied, elsewhere, state, figure>> /\ pc[p] = "post"
      /\ entries' = entries \/ (~locked /\ Post(d, job[p].version))
      /\ locked \/ Post(d, job[p].version)
      BY Zenon DEF PostEntry
<1>2. Importing(job[p]) /\ d \in DOMAIN job[p].plan \cup Batches
      BY <1>1 DEF Types, Processes, Working
<1>3. d \in FeedDocs /\ d \in Docs
      BY <1>2 DEF Importing, FeedDocs, Docs
<1>4. Post(d, job[p].version) => \E n : Appends({n}) /\ entries'[n] = Entry(d, job[p].version, 0)
      BY <1>2, <1>3, Posts DEF Types, Importing
<1>5. \E new : Appends(new)
      BY <1>1, <1>4, NothingAppended DEF Types
<1>6. Tables'
      BY <1>1, <1>5, TablesFrom DEF Types, Tables
<1>7. At(p, "check", j)
      BY FeedMoves, Zenon DEF Types
<1>8. Importing(j)
      BY <1>2 DEF Importing, Job
<1> HIDE DEF j
<1>9. Processes'
      BY <1>1, <1>7, <1>8, ProcessesFrom DEF Types, Labels
<1>10. QED
       BY <1>1, <1>3, <1>4, <1>6, <1>9 DEF Types

LEMMA DecideTyped ==
    ASSUME Types, NEW p \in Procs, DecideAdjustment(p)
    PROVE  Types'
<1>1. UNCHANGED <<scope, saved, entries, applied, elsewhere, state, figure>>
      BY Zenon DEF DecideAdjustment, ledgerVars
<1>2. Tables'
      BY <1>1, NothingAppended, TablesFrom DEF Types, Tables
<1>3. PICK q \in scope.requests, label \in {"approve", "reject"} :
            state[q] = "proposed" /\ At(p, label, Job({}, [t \in {q} |-> state[q]], q, 0, 0))
      BY RequestMoves DEF Types
<1> DEFINE j == Job({}, [t \in {q} |-> state[q]], q, 0, 0)
<1>4. Deciding(j)
      BY <1>3 DEF Deciding, Job
<1>5. At(p, label, j)
      BY <1>3
<1> HIDE DEF j
<1>6. label \in Labels /\ label \notin {"check", "save", "post"} /\ label \notin {"save", "post"}
      /\ label # "save"
      BY DEF Labels
<1>7. Processes'
      BY <1>1, <1>4, <1>5, <1>6, ProcessesFrom DEF Types
<1>8. QED
      BY <1>2, <1>7 DEF Types

LEMMA SaveAdjustmentTyped ==
    ASSUME Types, NEW p \in Procs, SaveAdjustment(p)
    PROVE  Types' /\ Deciding(job[p])
<1> DEFINE q == job[p].doc
<1>1. /\ UNCHANGED <<scope, entries, applied, elsewhere, state, figure>> /\ pc[p] = "approve"
      /\ Save(q, 1)
      BY Zenon DEF SaveAdjustment
<1>2. Deciding(job[p]) /\ q \in Docs
  <2>1. Deciding(job[p])
        BY <1>1 DEF Types, Processes, Working
  <2>2. QED
        BY <2>1 DEF Deciding, Docs
<1>3. Tables'
  <2>1. saved' \in [Docs -> Seq(Int)]
        BY <1>1, <1>2 DEF Types, Tables, Save
  <2>2. Appends({})
        BY <1>1, NothingAppended DEF Types
  <2>3. QED
        BY <1>1, <2>1, <2>2, TablesFrom DEF Types, Tables
<1>4. ASSUME At(p, "idle", NoJob) PROVE Processes'
      BY <1>1, <1>4, FinishTyped DEF Types
<1>5. ASSUME At(p, "postAdjustment", Approved(job[p])) PROVE Processes'
  <2> DEFINE j == Approved(job[p])
  <2>1. Len(saved[q]) \in Int
        BY <1>2 DEF Types, Tables
  <2>2. Deciding(j)
        BY <1>2, <2>1 DEF Deciding, Approved, Job
  <2>3. At(p, "postAdjustment", j)
        BY <1>5
  <2> HIDE DEF j
  <2>4. QED
        BY <1>1, <2>2, <2>3, ProcessesFrom DEF Types, Labels
<1>6. Processes'
      BY <1>4, <1>5, RequestMoves, Zenon DEF Types
<1>7. QED
      BY <1>2, <1>3, <1>6 DEF Types

LEMMA PostAdjustmentTyped ==
    ASSUME Types, NEW p \in Procs, PostAdjustment(p)
    PROVE  /\ Types' /\ Deciding(job[p])
           /\ locked \/ \E n : /\ Appends({n})
                               /\ entries'[n] = Entry(job[p].doc, job[p].version, 0)
<1> DEFINE q == job[p].doc
<1>1. /\ UNCHANGED <<scope, saved, applied, elsewhere, state, figure>> /\ pc[p] = "postAdjustment"
      /\ entries' = entries \/ (~locked /\ Post(q, job[p].version))
      /\ locked \/ Post(q, job[p].version)
      BY Zenon DEF PostAdjustment
<1>2. Deciding(job[p]) /\ q \in Docs
  <2>1. Deciding(job[p])
        BY <1>1 DEF Types, Processes, Working
  <2>2. QED
        BY <2>1 DEF Deciding, Docs
<1>3. Post(q, job[p].version) => \E n : Appends({n}) /\ entries'[n] = Entry(q, job[p].version, 0)
      BY <1>2, Posts DEF Types, Deciding
<1>4. \E new : Appends(new)
      BY <1>1, <1>3, NothingAppended DEF Types
<1>5. Tables'
      BY <1>1, <1>4, TablesFrom DEF Types, Tables
<1>6. ASSUME At(p, "idle", NoJob) PROVE Processes'
      BY <1>1, <1>6, FinishTyped DEF Types
<1>7. ASSUME At(p, "setPosted", job[p]) PROVE Processes'
      BY <1>1, <1>2, <1>7, ProcessesFrom DEF Types, Labels
<1>8. Processes'
      BY <1>6, <1>7, RequestMoves, Zenon DEF Types
<1>9. QED
      BY <1>1, <1>2, <1>3, <1>5, <1>8 DEF Types

LEMMA SetDecisionTyped ==
    ASSUME Types, NEW p \in Procs, SetDecision(p)
    PROVE  Types' /\ Deciding(job[p])
<1> DEFINE q == job[p].doc
<1>1. /\ UNCHANGED <<scope, saved, entries, applied, elsewhere, figure>>
      /\ pc[p] \in {"reject", "setPosted"}
      /\ state' = [state EXCEPT ![q] = IF pc[p] = "reject" THEN "rejected" ELSE "posted"]
      BY Zenon DEF SetDecision
<1>2. Deciding(job[p])
      BY <1>1 DEF Types, Processes, Working
<1>3. Tables'
  <2>1. state' \in [scope.requests -> States]
        BY <1>1, <1>2 DEF Types, Tables, States, Deciding
  <2>2. Appends({})
        BY <1>1, NothingAppended DEF Types
  <2>3. QED
        BY <1>1, <2>1, <2>2, TablesFrom DEF Types, Tables
<1>4. Processes'
      BY <1>1, FinishTyped, RequestMoves DEF Types
<1>5. QED
      BY <1>2, <1>3, <1>4 DEF Types

LEMMA CrashTyped ==
    ASSUME Types, NEW p \in Procs, Crash(p)
    PROVE  Types'
<1>1. UNCHANGED <<scope, saved, entries, applied, elsewhere, state, figure>>
      BY Zenon DEF Crash, ledgerVars
<1>2. Tables'
      BY <1>1, NothingAppended, TablesFrom DEF Types, Tables
<1>3. Processes'
      BY <1>1, FinishTyped, RequestMoves DEF Types
<1>4. QED
      BY <1>2, <1>3 DEF Types

LEMMA Reverses ==
    ASSUME Types, NEW p \in Procs, ReverseEntry(p)
    PROVE  \E d \in Docs : \E i \in Live(d) : \E n :
               /\ Appends({n}) /\ entries'[n] = Entry(d, entries[i].version, i)
               /\ torn' = IF d \in scope.runs THEN torn ELSE torn \cup {d}
<1>1. PICK d \in Docs : \E i \in Live(d) :
            /\ entries' = Append(entries, Entry(d, entries[i].version, i))
            /\ torn' = IF d \in scope.runs THEN torn ELSE torn \cup {d}
      BY Zenon DEF ReverseEntry
<1>2. PICK i \in Live(d) :
            /\ entries' = Append(entries, Entry(d, entries[i].version, i))
            /\ torn' = IF d \in scope.runs THEN torn ELSE torn \cup {d}
      BY <1>1
<1>3. i \in DOMAIN entries /\ entries[i].doc = d /\ entries[i].version \in Int
      BY DEF Live, Types, Tables, Entered
<1> DEFINE e == Entry(d, entries[i].version, i)
<1>4. Entered(e)
      BY <1>3, EntryIs
<1>5. entries' = Append(entries, e)
      BY <1>2
<1> HIDE DEF e
<1>6. \E n : Appends({n}) /\ entries'[n] = e
      BY <1>4, <1>5, OneAppended DEF Types
<1>7. QED
      BY <1>2, <1>6 DEF e

\* The new runs of a file.
ImportsRuns(runs) ==
    /\ runs \subseteq scope.runs /\ \A r \in runs : Live(r) = {}
    /\ saved' = [d \in Docs |-> IF d \in runs THEN Append(saved[d], figure[d]) ELSE saved[d]]
    /\ \E new : RunsPosted(runs, new)

LEMMA RunsImported ==
    ASSUME Types, NEW p \in Procs, ImportRuns(p)
    PROVE  \E runs : ImportsRuns(runs)
<1>1. PICK file \in SUBSET scope.runs :
            LET new == {r \in file : IsNew(r)} IN
            /\ saved' = [d \in Docs |-> IF d \in new THEN Append(saved[d], figure[d]) ELSE saved[d]]
            /\ entries' = entries \o
                   [i \in 1 .. Cardinality(new) |->
                       LET r == SetToSeq(new)[i] IN Entry(r, Len(saved[r]) + 1, 0)]
      BY Zenon DEF ImportRuns
<1> DEFINE new == {r \in file : IsNew(r)}
<1>2. /\ saved' = [d \in Docs |-> IF d \in new THEN Append(saved[d], figure[d]) ELSE saved[d]]
      /\ entries' = entries \o
                   [i \in 1 .. Cardinality(new) |->
                       LET r == SetToSeq(new)[i] IN Entry(r, Len(saved[r]) + 1, 0)]
      BY <1>1
<1>3. new \in SUBSET scope.runs /\ \A r \in new : Live(r) = {}
      BY DEF IsNew
<1> HIDE DEF new
<1>4. \E rows : RunsPosted(new, rows)
      BY <1>2, <1>3, RunsAppended DEF Types
<1>5. ImportsRuns(new)
      BY <1>2, <1>3, <1>4, Zenon DEF ImportsRuns
<1>6. QED
      BY <1>5

LEMMA AsideTyped ==
    ASSUME Types, Aside \/ UNCHANGED vars
    PROVE  Types'
<1>1. UNCHANGED <<scope, pc, job>>
      BY AsideMoves
<1>2. Processes'
      BY <1>1, StaysTyped DEF Types
<1>3. CASE UNCHANGED vars
      BY <1>2, <1>3, NothingAppended, TablesFrom DEF Types, Tables, vars, ledgerVars
<1>4. CASE PaidElsewhere
  <2>1. UNCHANGED <<saved, entries, applied, figure, state>> /\ elsewhere' \in Int
        BY <1>4 DEF Types, Tables, PaidElsewhere
  <2>2. QED
        BY <1>1, <1>2, <2>1, NothingAppended, TablesFrom DEF Types, Tables
<1>5. CASE FigureChanges
  <2>1. UNCHANGED <<saved, entries, applied, elsewhere, state>> /\ figure' \in [scope.runs -> Int]
        BY <1>5 DEF Types, Tables, FigureChanges, ledgerVars
  <2>2. QED
        BY <1>1, <1>2, <2>1, NothingAppended, TablesFrom DEF Types, Tables
<1>6. ASSUME NEW p \in Procs, LockOrReopen(p) PROVE Types'
  <2>1. UNCHANGED <<saved, entries, applied, elsewhere, state, figure>>
        BY <1>6 DEF LockOrReopen
  <2>2. QED
        BY <1>1, <1>2, <2>1, NothingAppended, TablesFrom DEF Types, Tables
<1>7. ASSUME NEW p \in Procs, ProposeAdjustment(p) PROVE Types'
  <2>1. /\ UNCHANGED <<saved, entries, applied, elsewhere, figure>>
        /\ state' \in [scope.requests -> States]
        BY <1>7 DEF Types, Tables, ProposeAdjustment, States
  <2>2. QED
        BY <1>1, <1>2, <2>1, NothingAppended, TablesFrom DEF Types, Tables
<1>8. ASSUME NEW p \in Procs, ReverseEntry(p) PROVE Types'
  <2>1. UNCHANGED <<saved, applied, elsewhere, state, figure>>
        BY <1>8 DEF ReverseEntry
  <2>2. \E new : Appends(new)
        BY <1>8, Reverses
  <2>3. QED
        BY <1>1, <1>2, <2>1, <2>2, TablesFrom DEF Types, Tables
<1>9. ASSUME NEW p \in Procs, ImportRuns(p) PROVE Types'
  <2>1. UNCHANGED <<applied, elsewhere, state, figure>>
        BY <1>9, Zenon DEF ImportRuns
  <2>2. PICK runs : ImportsRuns(runs)
        BY <1>9, RunsImported
  <2>3. saved' \in [Docs -> Seq(Int)]
    <3>1. \A r \in runs : r \in scope.runs /\ figure[r] \in Int
          BY <2>2 DEF ImportsRuns, Types, Tables
    <3>2. \A d \in Docs : saved[d] \in Seq(Int)
          BY DEF Types, Tables
    <3>3. saved' = [d \in Docs |-> IF d \in runs THEN Append(saved[d], figure[d]) ELSE saved[d]]
          BY <2>2, Zenon DEF ImportsRuns
    <3>4. QED
          BY <3>1, <3>2, <3>3
  <2>4. \E new : Appends(new)
        BY <2>2, Zenon DEF ImportsRuns, RunsPosted
  <2>5. QED
        BY <1>1, <1>2, <2>1, <2>3, <2>4, TablesFrom DEF Types, Tables
<1>10. QED
       BY <1>3, <1>4, <1>5, <1>6, <1>7, <1>8, <1>9, Zenon DEF Aside

\* Every step is one of these.
LEMMA StepsAre ==
    ASSUME [Next]_vars
    PROVE  \/ Aside \/ UNCHANGED vars
           \/ \E p \in Procs :
                \/ ImportSettlement(p) \/ CheckDocument(p) \/ SaveDocument(p) \/ PostEntry(p)
                \/ DecideAdjustment(p) \/ SaveAdjustment(p) \/ PostAdjustment(p) \/ SetDecision(p)
                \/ Crash(p)
BY Zenon DEF Next, Process, Aside

LEMMA TypesKept ==
    ASSUME Types, [Next]_vars
    PROVE  Types'
BY StepsAre, AsideTyped, ImportTyped, CheckTyped, SaveTyped, PostTyped, DecideTyped,
   SaveAdjustmentTyped, PostAdjustmentTyped, SetDecisionTyped, CrashTyped, Zenon

LEMMA TypesHold ==
    ASSUME Init
    PROVE  Types
<1>1. Tables
  <2>1. scope \in Scopes /\ applied \in [Txns -> Int] /\ elsewhere \in Int
        BY DEF Init
  <2>2. entries = <<>> /\ IsSeq(entries) /\ \A i \in DOMAIN entries : Entered(entries[i])
        BY DEF Init, IsSeq
  <2>3. saved \in [Docs -> Seq(Int)] /\ figure \in [scope.runs -> Int]
        BY DEF Init
  <2>4. state \in [scope.requests -> States]
        BY DEF Init, States
  <2>5. QED
        BY <2>1, <2>2, <2>3, <2>4 DEF Tables
<1>2. pc = [p \in Procs |-> "idle"] /\ job = [p \in Procs |-> NoJob]
      BY DEF Init
<1>3. Processes
      BY <1>2 DEF Processes, Working
<1>4. QED
      BY <1>1, <1>3 DEF Types

-----------------------------------------------------------------------------
(* Documents, runs and requests. *)

LEMMA PlacesAre ==
    ASSUME NEW p \in Procs, NEW label, NEW j, At(p, label, j), NEW d
    PROVE  /\ Posters(d)' = (Posters(d) \ {p}) \cup {o \in {p} : label = "post" /\ j.doc = d}
           /\ Setters(d)' = (Setters(d) \ {p}) \cup {o \in {p} : label = "setPosted" /\ j.doc = d}
<1>1. /\ pc'[p] = label /\ job'[p] = j
      /\ \A o \in Procs \ {p} : pc'[o] = pc[o] /\ job'[o] = job[o]
      BY DEF At, Others
<1>2. Posters(d)' = (Posters(d) \ {p}) \cup {o \in {p} : label = "post" /\ j.doc = d}
      BY <1>1 DEF Posters
<1>3. Setters(d)' = (Setters(d) \ {p}) \cup {o \in {p} : label = "setPosted" /\ j.doc = d}
      BY <1>1 DEF Setters
<1>4. QED
      BY <1>2, <1>3

\* A step leaves what it does not touch as it stands: no new entry for it but
\* one that undoes a run's.
LEMMA StandsFrom ==
    ASSUME Types, Stands, scope' = scope, torn \subseteq torn', NEW new, Appends(new), NEW touched,
           \A d \in FeedDocs \ touched : saved'[d] = saved[d] /\ Posters(d)' = Posters(d),
           \A r \in scope.runs \ touched : saved'[r] = saved[r],
           \A q \in scope.requests \ touched : state'[q] = state[q] /\ Setters(q)' = Setters(q),
           \A i \in new : \/ entries'[i].doc \in touched
                          \/ entries'[i].doc \in scope.runs /\ entries'[i].reverses # 0,
           \A d \in FeedDocs \cap touched : d \notin torn' => FeedStands(d)',
           \A r \in scope.runs \cap touched : RunStands(r)',
           \A q \in scope.requests \cap touched : q \notin torn' => RequestStands(q)'
    PROVE  Stands'
<1>1. /\ FeedDocs \cap scope.runs = {} /\ scope.runs \cap scope.requests = {}
      /\ FeedDocs' = FeedDocs
      BY Kinds, ScopeKept DEF Types, Tables
<1>2. ASSUME NEW d, d \notin touched, d \notin scope.runs
      PROVE  EntriesOf(d)' = EntriesOf(d) /\ \A i \in EntriesOf(d) : entries'[i] = entries[i]
  <2>1. EntriesOf(d)' = EntriesOf(d) \cup {i \in new : entries'[i].doc = d}
        BY Lives DEF Types
  <2>2. \A i \in new : entries'[i].doc # d
        BY <1>2
  <2>3. EntriesOf(d)' = EntriesOf(d)
        BY <2>1, <2>2
  <2>4. \A i \in EntriesOf(d) : entries'[i] = entries[i]
        BY DEF EntriesOf, Appends
  <2>5. QED
        BY <2>3, <2>4
<1>3. ASSUME NEW d \in FeedDocs, d \notin torn' PROVE FeedStands(d)'
  <2>1. CASE d \in touched
        BY <1>3, <2>1
  <2>2. CASE d \notin touched
    <3>1. FeedStands(d)
          BY <1>3 DEF Stands
    <3>2. EntriesOf(d)' = EntriesOf(d) /\ \A i \in EntriesOf(d) : entries'[i] = entries[i]
          BY <1>1, <1>2, <2>2
    <3>3. saved'[d] = saved[d] /\ Posters(d)' = Posters(d)
          BY <2>2
    <3>4. QED
          BY <3>1, <3>2, <3>3 DEF FeedStands
  <2>3. QED
        BY <2>1, <2>2
<1>4. ASSUME NEW q \in scope.requests, q \notin torn' PROVE RequestStands(q)'
  <2>1. CASE q \in touched
        BY <1>4, <2>1
  <2>2. CASE q \notin touched
    <3>1. RequestStands(q)
          BY <1>4 DEF Stands
    <3>2. EntriesOf(q)' = EntriesOf(q) /\ \A i \in EntriesOf(q) : entries'[i] = entries[i]
          BY <1>1, <1>2, <2>2
    <3>3. state'[q] = state[q] /\ Setters(q)' = Setters(q)
          BY <2>2
    <3>4. QED
          BY <3>1, <3>2, <3>3 DEF RequestStands
  <2>3. QED
        BY <2>1, <2>2
<1>5. ASSUME NEW r \in scope.runs PROVE RunStands(r)'
  <2>1. CASE r \in touched
        BY <2>1
  <2>2. CASE r \notin touched
    <3>1. RunStands(r) /\ saved'[r] = saved[r]
          BY <2>2 DEF Stands
    <3>2. Live(r)' \subseteq Live(r)
      <4>1. \A i \in new : ~(entries'[i].doc = r /\ entries'[i].reverses = 0)
            BY <2>2
      <4>2. QED
            BY <4>1, Lives DEF Types
    <3>3. \A i \in Live(r) : entries'[i] = entries[i]
          BY DEF Live, Appends
    <3>4. QED
          BY <3>1, <3>2, <3>3 DEF RunStands, IsOne
  <2>3. QED
        BY <2>1, <2>2
<1>6. QED
      BY <1>1, <1>3, <1>4, <1>5 DEF Stands

\* Nobody has posted, and nobody is about to post or to say so.
LEMMA QuietStep ==
    ASSUME Types, Stands, UNCHANGED <<scope, saved, entries, state>>, torn \subseteq torn',
           NEW p \in Procs, NEW label, NEW j, At(p, label, j),
           label \notin {"post", "setPosted"},
           pc[p] \notin {"post", "setPosted"} \/ job[p].doc \in torn'
    PROVE  Stands'
<1> DEFINE touched == IF pc[p] \in {"post", "setPosted"} THEN {job[p].doc} ELSE {}
<1>1. Appends({})
      BY NothingAppended DEF Types
<1>2. \A d : d \notin touched => Posters(d)' = Posters(d) /\ Setters(d)' = Setters(d)
  <2>1. SUFFICES ASSUME NEW d, d \notin touched
                 PROVE  Posters(d)' = Posters(d) /\ Setters(d)' = Setters(d)
        OBVIOUS
  <2>2. p \notin Posters(d) /\ p \notin Setters(d)
        BY <2>1 DEF Posters, Setters
  <2>3. /\ Posters(d)' = (Posters(d) \ {p}) \cup {o \in {p} : label = "post" /\ j.doc = d}
        /\ Setters(d)' = (Setters(d) \ {p}) \cup {o \in {p} : label = "setPosted" /\ j.doc = d}
        BY PlacesAre
  <2>4. QED
        BY <2>2, <2>3
<1>3. \A d : d \in touched => d \in torn'
      OBVIOUS
<1>4. \A r \in scope.runs \cap touched : RunStands(r)'
  <2>1. ASSUME NEW r \in scope.runs PROVE RunStands(r)'
    <3>1. Live(r)' = Live(r)
          BY DEF Live
    <3>2. QED
          BY <3>1 DEF Stands, RunStands
  <2>2. QED
        BY <2>1
<1> HIDE DEF touched
<1>5. QED
      BY <1>1, <1>2, <1>3, <1>4, StandsFrom

LEMMA NotEmpty ==
    ASSUME NEW s \in Seq(Int), NEW x \in Int
    PROVE  Append(s, x) # <<>>
<1>1. Len(Append(s, x)) = Len(s) + 1 /\ Len(s) \in Nat
      OBVIOUS
<1>2. Len(<<>>) = 0
      OBVIOUS
<1>3. QED
      BY <1>1, <1>2

LEMMA OneTouched ==
    ASSUME Types, Stands, scope' = scope, torn \subseteq torn', NEW new, Appends(new), NEW d,
           \A e : e # d => Posters(e)' = Posters(e) /\ Setters(e)' = Setters(e),
           \A e \in Docs : e # d => saved'[e] = saved[e],
           \A q \in scope.requests : q # d => state'[q] = state[q],
           \A i \in new : \/ entries'[i].doc = d
                          \/ entries'[i].doc \in scope.runs /\ entries'[i].reverses # 0,
           d \in FeedDocs /\ d \notin torn' => FeedStands(d)',
           d \in scope.runs => RunStands(d)',
           d \in scope.requests /\ d \notin torn' => RequestStands(d)'
    PROVE  Stands'
<1> DEFINE touched == {d}
<1>1. /\ \A e \in FeedDocs \ touched : saved'[e] = saved[e] /\ Posters(e)' = Posters(e)
      /\ \A r \in scope.runs \ touched : saved'[r] = saved[r]
      BY DEF Docs, FeedDocs
<1>2. \A q \in scope.requests \ touched : state'[q] = state[q] /\ Setters(q)' = Setters(q)
      OBVIOUS
<1>3. \A i \in new : \/ entries'[i].doc \in touched
                     \/ entries'[i].doc \in scope.runs /\ entries'[i].reverses # 0
      OBVIOUS
<1>4. ASSUME NEW e \in FeedDocs \cap touched, e \notin torn' PROVE FeedStands(e)'
      BY <1>4
<1>5. ASSUME NEW e \in scope.runs \cap touched PROVE RunStands(e)'
      BY <1>5
<1>6. ASSUME NEW e \in scope.requests \cap touched, e \notin torn' PROVE RequestStands(e)'
      BY <1>6
<1> HIDE DEF touched
<1>7. QED
      BY <1>1, <1>2, <1>3, <1>4, <1>5, <1>6, StandsFrom

\* The importer that looked and was not overtaken saves the first version.
LEMMA SavesFirst ==
    ASSUME Types, NEW p \in Procs, pc[p] = "save", job[p].doc \in Docs, ~Overtaken(p, job[p].doc)
    PROVE  saved[job[p].doc] = <<>>
<1>1. job[p].version = 1 /\ saved[job[p].doc] \in Seq(Int)
      BY DEF Types, Processes, Working, Tables
<1>2. Len(saved[job[p].doc]) = 0
      BY <1>1 DEF Overtaken
<1>3. QED
      BY <1>1, <1>2

LEMMA SaveStands ==
    ASSUME Types, Stands, NEW p \in Procs, SaveDocument(p)
    PROVE  Stands'
<1>0. PICK d : d = job[p].doc
      OBVIOUS
<1>1. /\ UNCHANGED <<scope, entries, state>> /\ pc[p] = "save" /\ Save(d, 1)
      /\ torn' = torn \cup (IF Overtaken(p, d) \/ MovesNothing(d) THEN {d} ELSE {})
      BY <1>0, Zenon DEF SaveDocument
<1>2. d \in FeedDocs /\ d \in Docs /\ d \notin scope.runs /\ d \notin scope.requests
  <2>1. Importing(job[p]) /\ d \in DOMAIN job[p].plan \cup Batches
        BY <1>0, <1>1 DEF Types, Processes, Working
  <2>2. QED
        BY <2>1, Kinds DEF Types, Tables, Importing, FeedDocs
<1>3. PICK label, j : /\ At(p, label, j) /\ label # "setPosted"
                      /\ label # "post" \/ j.doc = d
                      /\ label = "post" \/ MovesNothing(d)
  <2>1. CASE MovesNothing(d)
    <3>1. At(p, "idle", NoJob)
          BY <1>0, <2>1, FeedMoves DEF Types
    <3>2. QED
          BY <2>1, <3>1
  <2>2. CASE ~MovesNothing(d)
    <3> DEFINE j == Job(job[p].todo, job[p].plan, d, IF d \in Txns THEN job[p].basis - job[p].plan[d]
                                                                 ELSE job[p].basis, job[p].version)
    <3>1. At(p, "post", j)
          BY <1>0, <2>2, FeedMoves DEF Types
    <3>2. j.doc = d
          BY DEF Job
    <3> HIDE DEF j
    <3>3. QED
          BY <3>1, <3>2
  <2>3. QED
        BY <2>1, <2>2
<1>4. \A e : /\ Posters(e)' = (Posters(e) \ {p}) \cup {o \in {p} : label = "post" /\ j.doc = e}
             /\ Setters(e)' = (Setters(e) \ {p}) \cup {o \in {p} : label = "setPosted" /\ j.doc = e}
      BY <1>3, PlacesAre
<1>5. \A e : p \notin Posters(e) /\ p \notin Setters(e)
      BY <1>1 DEF Posters, Setters
<1>6. Appends({})
      BY <1>1, NothingAppended DEF Types
<1>7. saved' = [saved EXCEPT ![d] = Append(@, 1)] /\ saved \in [Docs -> Seq(Int)]
      BY <1>1 DEF Save, Types, Tables
<1>8. ASSUME d \notin torn' PROVE FeedStands(d)'
  <2>1. ~Overtaken(p, d) /\ ~MovesNothing(d) /\ d \notin torn
        BY <1>1, <1>8
  <2>2. saved[d] = <<>>
        BY <1>0, <1>1, <1>2, <2>1, SavesFirst
  <2>3. FeedStands(d)
        BY <1>2, <2>1 DEF Stands
  <2>4. Posters(d) = {} /\ EntriesOf(d) = {}
        BY <2>2, <2>3 DEF FeedStands
  <2>5. Posters(d)' = {p}
        BY <1>3, <1>4, <2>1, <2>4
  <2>6. EntriesOf(d)' = {}
        BY <1>1, <2>4 DEF EntriesOf
  <2>7. saved'[d] # <<>>
    <3>1. saved'[d] = Append(saved[d], 1) /\ saved[d] \in Seq(Int)
          BY <1>2, <1>7
    <3>2. \A s \in Seq(Int), x \in Int : Append(s, x) # <<>>
          BY NotEmpty
    <3>3. Append(saved[d], 1) # <<>>
      <4>1. 1 \in Int
            OBVIOUS
      <4>2. QED
            BY <3>1, <3>2, <4>1, Zenon
    <3>4. QED
          BY <3>1, <3>3, Zenon
  <2>8. QED
        BY <2>5, <2>6, <2>7 DEF FeedStands, IsOne
<1>9. \A e : e # d => Posters(e)' = Posters(e) /\ Setters(e)' = Setters(e)
      BY <1>3, <1>4, <1>5
<1>10. \A e \in Docs : e # d => saved'[e] = saved[e]
       BY <1>7
<1>11. \A q \in scope.requests : q # d => state'[q] = state[q]
       BY <1>1
<1>12. torn \subseteq torn'
       BY <1>1
<1>13. QED
       BY <1>1, <1>2, <1>6, <1>8, <1>9, <1>10, <1>11, <1>12, OneTouched

LEMMA PostStands ==
    ASSUME Types, Stands, NEW p \in Procs, PostEntry(p)
    PROVE  Stands'
<1>0. PICK d : d = job[p].doc
      OBVIOUS
<1>1. /\ UNCHANGED <<scope, saved, state>> /\ pc[p] = "post"
      /\ entries' = entries \/ ~locked
      /\ torn' = IF locked THEN torn \cup {d} ELSE torn
      BY <1>0 DEF PostEntry
<1>2. d \in FeedDocs /\ d \notin scope.runs /\ d \notin scope.requests
      BY <1>0, PostTyped, Kinds DEF Types, Tables
<1>3. PICK j : At(p, "check", j)
      BY FeedMoves, Zenon DEF Types
<1>4. \A e : Posters(e)' = Posters(e) \ {p} /\ Setters(e)' = Setters(e) \ {p}
  <2> DEFINE label == "check"
  <2>1. label # "post" /\ label # "setPosted" /\ At(p, label, j)
        BY <1>3
  <2> HIDE DEF label
  <2>2. QED
        BY <2>1, PlacesAre
<1>5. /\ \A e : e # d => Posters(e)' = Posters(e) /\ Setters(e)' = Setters(e)
      /\ p \in Posters(d)
  <2>1. \A e : p \notin Setters(e) /\ (p \in Posters(e) <=> e = d)
        BY <1>0, <1>1 DEF Posters, Setters
  <2>2. ASSUME NEW e, e # d PROVE Posters(e)' = Posters(e) /\ Setters(e)' = Setters(e)
        BY <1>4, <2>1, <2>2
  <2>3. QED
        BY <2>1, <2>2
<1>6. PICK new : /\ Appends(new)
                 /\ \A i \in new : entries'[i].doc = d
                 /\ locked \/ \E n : new = {n} /\ entries'[n].reverses = 0
  <2>1. CASE locked
    <3>1. Appends({})
          BY <1>1, <2>1, NothingAppended DEF Types
    <3>2. QED
          BY <2>1, <3>1
  <2>2. CASE ~locked
    <3>1. PICK n : Appends({n}) /\ entries'[n] = Entry(d, job[p].version, 0)
          BY <1>0, <2>2, PostTyped
    <3>2. entries'[n].doc = d /\ entries'[n].reverses = 0
          BY <3>1 DEF Entry
    <3>3. QED
          BY <3>1, <3>2
  <2>3. QED
        BY <2>1, <2>2
<1>7. ASSUME d \notin torn' PROVE FeedStands(d)'
  <2>1. ~locked /\ d \notin torn
        BY <1>1, <1>7
  <2>2. FeedStands(d)
        BY <1>2, <2>1 DEF Stands
  <2>3. saved[d] # <<>> /\ Posters(d) = {p} /\ EntriesOf(d) = {}
        BY <1>5, <2>2 DEF FeedStands, IsOne
  <2>4. PICK n : new = {n} /\ entries'[n].reverses = 0
        BY <1>6, <2>1
  <2>5. EntriesOf(d)' = {n}
    <3>1. EntriesOf(d)' = EntriesOf(d) \cup {i \in new : entries'[i].doc = d}
          BY <1>6, Lives DEF Types
    <3>2. QED
          BY <1>6, <2>3, <2>4, <3>1
  <2>6. Posters(d)' = {} /\ saved'[d] # <<>>
        BY <1>1, <1>4, <2>3
  <2>7. QED
        BY <2>4, <2>5, <2>6 DEF FeedStands, IsOne
<1>8. /\ \A e \in Docs : e # d => saved'[e] = saved[e]
      /\ \A q \in scope.requests : q # d => state'[q] = state[q]
      /\ torn \subseteq torn' /\ scope' = scope
      BY <1>1
<1>9. QED
      BY <1>2, <1>5, <1>6, <1>7, <1>8, OneTouched

LEMMA PostAdjustmentStands ==
    ASSUME Types, Stands, NEW p \in Procs, PostAdjustment(p)
    PROVE  Stands'
<1>0. PICK q : q = job[p].doc
      OBVIOUS
<1>1. /\ UNCHANGED <<scope, saved, state>> /\ pc[p] = "postAdjustment"
      /\ locked => entries' = entries /\ torn' = torn
      /\ ~locked => torn' = torn \cup (IF Contended(p, q) THEN {q} ELSE {})
      BY <1>0 DEF PostAdjustment
<1>2. q \in scope.requests /\ job[p].plan[q] = "proposed" /\ q \notin scope.runs /\ q \notin FeedDocs
      BY <1>0, PostAdjustmentTyped, Kinds DEF Types, Tables, Deciding
<1>3. PICK label, j : /\ At(p, label, j) /\ label # "post"
                      /\ label = IF locked THEN "idle" ELSE "setPosted"
                      /\ ~locked => j.doc = q
  <2>1. CASE locked
    <3>1. At(p, "idle", NoJob)
          BY <2>1, RequestMoves DEF Types
    <3>2. QED
          BY <2>1, <3>1
  <2>2. CASE ~locked
    <3>1. At(p, "setPosted", job[p])
          BY <2>2, RequestMoves DEF Types
    <3>2. QED
          BY <1>0, <2>2, <3>1
  <2>3. QED
        BY <2>1, <2>2
<1>4. \A e : /\ Posters(e)' = (Posters(e) \ {p}) \cup {o \in {p} : label = "post" /\ j.doc = e}
             /\ Setters(e)' = (Setters(e) \ {p}) \cup {o \in {p} : label = "setPosted" /\ j.doc = e}
      BY <1>3, PlacesAre
<1>5. \A e : p \notin Posters(e) /\ p \notin Setters(e)
      BY <1>1 DEF Posters, Setters
<1>6. CASE locked
  <2>1. Appends({})
        BY <1>1, <1>6, NothingAppended DEF Types
  <2>2. label \notin {"post", "setPosted"} /\ pc[p] \notin {"post", "setPosted"}
        BY <1>1, <1>3, <1>6
  <2>3. QED
        BY <1>1, <1>3, <1>6, <2>2, QuietStep
<1>7. CASE ~locked
  <2>1. PICK n : Appends({n}) /\ entries'[n] = Entry(q, job[p].version, 0)
        BY <1>0, <1>7, PostAdjustmentTyped
  <2>2. entries'[n].doc = q /\ entries'[n].reverses = 0
        BY <2>1 DEF Entry
  <2>3. ASSUME q \notin torn' PROVE RequestStands(q)'
    <3>1. ~Contended(p, q) /\ q \notin torn
          BY <1>1, <1>7, <2>3
    <3>2. RequestStands(q)
          BY <1>2, <3>1 DEF Stands
    <3>3. /\ state[q] = "proposed"
          /\ Setters(q) = {}
      <4>1. \A o \in Procs \ {p} : ~(pc[o] = "setPosted" /\ job[o].doc = q)
            BY <3>1 DEF Contended
      <4>2. QED
            BY <1>2, <1>5, <3>1, <4>1 DEF Contended, Setters
    <3>4. EntriesOf(q) = {}
          BY <3>2, <3>3 DEF RequestStands, IsOne
    <3>5. EntriesOf(q)' = {n}
      <4>1. EntriesOf(q)' = EntriesOf(q) \cup {i \in {n} : entries'[i].doc = q}
            BY <2>1, Lives DEF Types
      <4>2. QED
            BY <2>2, <3>4, <4>1
    <3>6. Setters(q)' = {p}
          BY <1>3, <1>4, <1>7, <3>3
    <3>7. QED
          BY <1>1, <2>2, <3>3, <3>5, <3>6 DEF RequestStands, IsOne
  <2>4. \A e : e # q => Posters(e)' = Posters(e) /\ Setters(e)' = Setters(e)
        BY <1>3, <1>4, <1>5, <1>7
  <2>5. /\ \A e \in Docs : e # q => saved'[e] = saved[e]
        /\ \A r \in scope.requests : r # q => state'[r] = state[r]
        /\ torn \subseteq torn' /\ scope' = scope
        BY <1>1, <1>7
  <2>6. \A i \in {n} : entries'[i].doc = q
        BY <2>2
  <2>7. QED
        BY <1>2, <2>1, <2>3, <2>4, <2>5, <2>6, OneTouched
<1>8. QED
      BY <1>6, <1>7

LEMMA SaveAdjustmentStands ==
    ASSUME Types, Stands, NEW p \in Procs, SaveAdjustment(p)
    PROVE  Stands'
<1>0. PICK q : q = job[p].doc
      OBVIOUS
<1>1. UNCHANGED <<scope, entries, state, torn>> /\ pc[p] = "approve" /\ Save(q, 1)
      BY <1>0, Zenon DEF SaveAdjustment
<1>2. q \in scope.requests /\ q \notin scope.runs /\ q \notin FeedDocs
      BY <1>0, SaveAdjustmentTyped, Kinds DEF Types, Tables, Deciding
<1>3. PICK label, j : At(p, label, j) /\ label # "post" /\ label # "setPosted"
  <2>1. CASE At(p, "idle", NoJob)
        BY <2>1
  <2>2. CASE At(p, "postAdjustment", Approved(job[p]))
        BY <2>2
  <2>3. QED
        BY <2>1, <2>2, RequestMoves DEF Types
<1>4. ASSUME NEW e PROVE Posters(e)' = Posters(e) /\ Setters(e)' = Setters(e)
  <2>1. p \notin Posters(e) /\ p \notin Setters(e)
        BY <1>1 DEF Posters, Setters
  <2>2. QED
        BY <1>3, <2>1, PlacesAre
<1>5. Appends({})
      BY <1>1, NothingAppended DEF Types
<1>6. ASSUME q \notin torn' PROVE RequestStands(q)'
  <2>1. RequestStands(q)
        BY <1>1, <1>2, <1>6 DEF Stands
  <2>2. EntriesOf(q)' = EntriesOf(q) /\ Setters(q)' = Setters(q)
        BY <1>1, <1>4 DEF EntriesOf
  <2>3. QED
        BY <1>1, <2>1, <2>2 DEF RequestStands
<1>7. \A e \in Docs : e # q => saved'[e] = saved[e]
      BY <1>1 DEF Save, Types, Tables
<1>8. /\ \A r \in scope.requests : r # q => state'[r] = state[r]
      /\ torn \subseteq torn' /\ scope' = scope
      BY <1>1
<1>9. QED
      BY <1>2, <1>4, <1>5, <1>6, <1>7, <1>8, OneTouched

LEMMA SetDecisionStands ==
    ASSUME Types, Stands, NEW p \in Procs, SetDecision(p)
    PROVE  Stands'
<1>0. PICK q : q = job[p].doc
      OBVIOUS
<1>1. /\ UNCHANGED <<scope, saved, entries>> /\ pc[p] \in {"reject", "setPosted"}
      /\ state' = [state EXCEPT ![q] = IF pc[p] = "reject" THEN "rejected" ELSE "posted"]
      /\ torn' = torn \cup (IF Contended(p, q) THEN {q} ELSE {})
      BY <1>0, Zenon DEF SetDecision
<1>2. q \in scope.requests /\ job[p].plan[q] = "proposed" /\ q \notin scope.runs /\ q \notin FeedDocs
      BY <1>0, SetDecisionTyped, Kinds DEF Types, Tables, Deciding
<1>3. \A e : Posters(e)' = Posters(e) \ {p} /\ Setters(e)' = Setters(e) \ {p}
  <2> DEFINE label == "idle"
  <2>1. label # "post" /\ label # "setPosted" /\ At(p, label, NoJob)
        BY RequestMoves DEF Types
  <2> HIDE DEF label
  <2>2. QED
        BY <2>1, PlacesAre
<1>4. ASSUME NEW e, e # q PROVE Posters(e)' = Posters(e) /\ Setters(e)' = Setters(e)
  <2>1. p \notin Posters(e) /\ p \notin Setters(e)
        BY <1>0, <1>1, <1>4 DEF Posters, Setters
  <2>2. QED
        BY <1>3, <2>1
<1>5. Appends({})
      BY <1>1, NothingAppended DEF Types
<1>6. ASSUME q \notin torn' PROVE RequestStands(q)'
  <2>1. ~Contended(p, q) /\ q \notin torn
        BY <1>1, <1>6
  <2>2. RequestStands(q)
        BY <1>2, <2>1 DEF Stands
  <2>3. state[q] = "proposed" /\ \A o \in Procs \ {p} : ~(pc[o] = "setPosted" /\ job[o].doc = q)
        BY <1>0, <1>2, <2>1 DEF Contended
  <2>4. EntriesOf(q)' = EntriesOf(q) /\ \A i \in EntriesOf(q) : entries'[i] = entries[i]
        BY <1>1 DEF EntriesOf
  <2>5. Setters(q)' = {}
        BY <1>3, <2>3 DEF Setters
  <2>6. CASE pc[p] = "reject"
    <3>1. Setters(q) = {}
          BY <2>3, <2>6 DEF Setters
    <3>2. EntriesOf(q) = {}
          BY <2>2, <2>3, <3>1 DEF RequestStands, IsOne
    <3>3. state'[q] # "posted"
          BY <1>1, <1>2, <2>6 DEF Types, Tables
    <3>4. QED
          BY <2>4, <2>5, <3>2, <3>3 DEF RequestStands
  <2>7. CASE pc[p] = "setPosted"
    <3>1. p \in Setters(q)
          BY <1>0, <2>7 DEF Setters
    <3>2. IsOne(EntriesOf(q)) /\ \A i \in EntriesOf(q) : entries[i].reverses = 0
          BY <2>2, <2>3, <3>1 DEF RequestStands
    <3>3. state'[q] = "posted"
          BY <1>1, <1>2, <2>7 DEF Types, Tables
    <3>4. QED
          BY <2>4, <2>5, <3>2, <3>3 DEF RequestStands
  <2>8. QED
        BY <1>1, <2>6, <2>7
<1>7. /\ \A e \in Docs : e # q => saved'[e] = saved[e]
      /\ \A r \in scope.requests : r # q => state'[r] = state[r]
      /\ torn \subseteq torn' /\ scope' = scope
      BY <1>1 DEF Types, Tables
<1>8. QED
      BY <1>2, <1>4, <1>5, <1>6, <1>7, OneTouched

LEMMA QuietStands ==
    ASSUME Types, Stands, NEW p \in Procs,
           ImportSettlement(p) \/ CheckDocument(p) \/ DecideAdjustment(p) \/ Crash(p)
    PROVE  Stands'
<1>1. UNCHANGED <<scope, saved, entries, state>> /\ torn \subseteq torn'
      BY DEF ImportSettlement, CheckDocument, DecideAdjustment, Crash, ledgerVars
<1>2. \/ pc[p] \notin {"post", "setPosted"}
      \/ job[p].doc \in torn'
      BY DEF ImportSettlement, CheckDocument, DecideAdjustment, Crash, Command
<1>3. \E label, j : At(p, label, j) /\ label \notin {"post", "setPosted"}
  <2>1. CASE ImportSettlement(p)
    <3>1. \E j : At(p, "check", j)
          BY <2>1, FeedMoves, Zenon DEF Types
    <3>2. QED
          BY <3>1
  <2>2. CASE CheckDocument(p)
    <3>1. \E j : At(p, "idle", j) \/ At(p, "check", j) \/ At(p, "save", j)
          BY <2>2, FeedMoves, Zenon DEF Types
    <3>2. QED
          BY <3>1
  <2>3. CASE DecideAdjustment(p)
        BY <2>3, RequestMoves DEF Types
  <2>4. CASE Crash(p)
        BY <2>4, RequestMoves DEF Types
  <2>5. QED
        BY <2>1, <2>2, <2>3, <2>4
<1>4. QED
      BY <1>1, <1>2, <1>3, QuietStep

LEMMA ReverseStands ==
    ASSUME Types, Stands, NEW p \in Procs, ReverseEntry(p)
    PROVE  Stands'
<1>1. PICK d, i, n :
             /\ d \in Docs /\ i \in Live(d) /\ Appends({n})
             /\ entries'[n] = Entry(d, entries[i].version, i)
             /\ torn' = IF d \in scope.runs THEN torn ELSE torn \cup {d}
      BY Reverses
<1>2. UNCHANGED <<scope, saved, state, pc, job>>
      BY DEF ReverseEntry
<1>3. entries'[n].doc = d /\ entries'[n].reverses # 0
  <2>1. i # 0
        BY <1>1, EntriesAre DEF Live, Types
  <2>2. QED
        BY <1>1, <2>1 DEF Entry
<1>4. \A e : Posters(e)' = Posters(e) /\ Setters(e)' = Setters(e)
      BY <1>2 DEF Posters, Setters
<1>5. d \in scope.runs => RunStands(d)'
  <2>1. SUFFICES ASSUME d \in scope.runs PROVE RunStands(d)'
        OBVIOUS
  <2>2. RunStands(d)
        BY <2>1 DEF Stands
  <2>3. Live(d)' \subseteq Live(d)
    <3>1. Live(d)' = {k \in Live(d) : \A j \in {n} : entries'[j].reverses # k}
                        \cup {k \in {n} : entries'[k].doc = d /\ entries'[k].reverses = 0}
          BY <1>1, Lives DEF Types
    <3>2. QED
          BY <1>3, <3>1
  <2>4. \A k \in Live(d) : entries'[k] = entries[k]
        BY <1>1 DEF Appends, Live
  <2>5. QED
        BY <1>2, <2>2, <2>3, <2>4 DEF RunStands, IsOne
<1>6. d \in torn' \/ d \in scope.runs
      BY <1>1
<1>7. /\ \A e \in Docs : e # d => saved'[e] = saved[e]
      /\ \A q \in scope.requests : q # d => state'[q] = state[q]
      /\ torn \subseteq torn' /\ scope' = scope
      BY <1>1, <1>2
<1>8. \A k \in {n} : entries'[k].doc = d
      BY <1>3
<1>9. d \in scope.runs => d \notin FeedDocs /\ d \notin scope.requests
      BY Kinds DEF Types, Tables
<1>10. QED
       BY <1>1, <1>4, <1>5, <1>6, <1>7, <1>8, <1>9, OneTouched

LEMMA ImportRunsStands ==
    ASSUME Types, Stands, NEW p \in Procs, ImportRuns(p)
    PROVE  Stands'
<1>1. PICK runs : ImportsRuns(runs)
      BY RunsImported
<1>2. UNCHANGED <<scope, state, pc, job, torn>>
      BY Zenon DEF ImportRuns
<1>3. /\ runs \subseteq scope.runs /\ \A r \in runs : Live(r) = {}
      /\ saved' = [d \in Docs |-> IF d \in runs THEN Append(saved[d], figure[d]) ELSE saved[d]]
      BY <1>1, Zenon DEF ImportsRuns
<1>4. PICK new : RunsPosted(runs, new)
      BY <1>1, Zenon DEF ImportsRuns
<1>5. /\ Appends(new)
      /\ \A i \in new : /\ entries'[i].doc \in runs /\ entries'[i].reverses = 0
                        /\ entries'[i].version = Len(saved[entries'[i].doc]) + 1
      /\ \A i, j \in new : entries'[i].doc = entries'[j].doc => i = j
      /\ \A r \in runs : \E i \in new : entries'[i].doc = r
      BY <1>4, Zenon DEF RunsPosted
<1>6. /\ FeedDocs \cap scope.runs = {} /\ scope.runs \cap scope.requests = {}
      /\ Docs = FeedDocs \cup scope.runs \cup scope.requests
      BY Kinds DEF Types, Tables
<1>7. ASSUME NEW r \in runs PROVE RunStands(r)'
  <2>1. PICK n \in new : entries'[n].doc = r
        BY <1>5
  <2>2. Live(r)' = {i \in Live(r) : \A j \in new : entries'[j].reverses # i}
                     \cup {i \in new : entries'[i].doc = r /\ entries'[i].reverses = 0}
        BY <1>5, Lives DEF Types
  <2>3. Live(r)' = {n}
    <3>1. Live(r) = {}
          BY <1>3
    <3>2. \A i \in new : entries'[i].doc = r => i = n
          BY <1>5, <2>1
    <3>3. entries'[n].reverses = 0
          BY <1>5
    <3>4. QED
          BY <2>1, <2>2, <3>1, <3>2, <3>3
  <2>4. entries'[n].version = Len(saved'[r])
    <3>1. saved[r] \in Seq(Int) /\ figure[r] \in Int /\ r \in Docs
          BY <1>3, <1>6 DEF Types, Tables
    <3>2. saved'[r] = Append(saved[r], figure[r])
          BY <1>3, <3>1
    <3>3. Len(Append(saved[r], figure[r])) = Len(saved[r]) + 1
          BY <3>1
    <3>4. entries'[n].version = Len(saved[r]) + 1
          BY <1>5, <2>1
    <3>5. QED
          BY <3>2, <3>3, <3>4
  <2>5. QED
        BY <2>3, <2>4 DEF RunStands, IsOne
<1>8. \A e : Posters(e)' = Posters(e) /\ Setters(e)' = Setters(e)
      BY <1>2 DEF Posters, Setters
<1>9. /\ \A d \in FeedDocs \ runs : saved'[d] = saved[d]
      /\ \A r \in scope.runs \ runs : saved'[r] = saved[r]
      BY <1>3, <1>6
<1>10. FeedDocs \cap runs = {} /\ scope.requests \cap runs = {} /\ scope.runs \cap runs = runs
       BY <1>3, <1>6
<1>11. \A i \in new : entries'[i].doc \in runs
       BY <1>5
<1>12. QED
       BY <1>2, <1>5, <1>7, <1>8, <1>9, <1>10, <1>11, StandsFrom

LEMMA ProposeStands ==
    ASSUME Types, Stands, NEW p \in Procs, ProposeAdjustment(p)
    PROVE  Stands'
<1>1. PICK q \in scope.requests : state[q] = "none" /\ state' = [state EXCEPT ![q] = "proposed"]
      BY Zenon DEF ProposeAdjustment
<1>2. UNCHANGED <<scope, saved, entries, pc, job, torn>>
      BY Zenon DEF ProposeAdjustment
<1>3. Appends({})
      BY <1>2, NothingAppended DEF Types
<1>4. \A e : Posters(e)' = Posters(e) /\ Setters(e)' = Setters(e)
      BY <1>2 DEF Posters, Setters
<1>5. q \notin FeedDocs /\ q \notin scope.runs
      BY Kinds DEF Types, Tables
<1>6. ASSUME q \notin torn' PROVE RequestStands(q)'
  <2>1. RequestStands(q)
        BY <1>2, <1>6 DEF Stands
  <2>2. EntriesOf(q) = {} /\ Setters(q) = {}
        BY <1>1, <2>1 DEF RequestStands
  <2>3. EntriesOf(q)' = {}
        BY <1>2, <2>2 DEF EntriesOf
  <2>4. state'[q] # "posted"
        BY <1>1 DEF Types, Tables
  <2>5. QED
        BY <1>4, <2>2, <2>3, <2>4 DEF RequestStands
<1>7. /\ \A e \in Docs : e # q => saved'[e] = saved[e]
      /\ \A r \in scope.requests : r # q => state'[r] = state[r]
      /\ torn \subseteq torn' /\ scope' = scope
      BY <1>1, <1>2 DEF Types, Tables
<1>8. QED
      BY <1>3, <1>4, <1>5, <1>6, <1>7, OneTouched

LEMMA StillStands ==
    ASSUME Types, Stands, UNCHANGED <<scope, saved, entries, state, pc, job, torn>>
    PROVE  Stands'
<1>1. Appends({})
      BY NothingAppended DEF Types
<1>2. \A e : Posters(e)' = Posters(e) /\ Setters(e)' = Setters(e)
      BY DEF Posters, Setters
<1>3. \A r \in scope.runs \cap {} : RunStands(r)'
      OBVIOUS
<1>4. QED
      BY <1>1, <1>2, <1>3, StandsFrom

LEMMA AsideStands ==
    ASSUME Types, Stands, Aside \/ UNCHANGED vars
    PROVE  Stands'
<1>1. CASE UNCHANGED vars
      BY <1>1, StillStands, Zenon DEF vars, ledgerVars
<1>2. CASE PaidElsewhere
  <2>1. UNCHANGED <<scope, saved, entries, state, pc, job, torn>>
        BY <1>2 DEF PaidElsewhere
  <2>2. QED
        BY <2>1, StillStands
<1>3. CASE FigureChanges
  <2>1. UNCHANGED <<scope, saved, entries, state, pc, job, torn>>
        BY <1>3 DEF FigureChanges, ledgerVars
  <2>2. QED
        BY <2>1, StillStands
<1>4. ASSUME NEW p \in Procs, LockOrReopen(p) PROVE Stands'
  <2>1. UNCHANGED <<scope, saved, entries, state, pc, job, torn>>
        BY <1>4 DEF LockOrReopen
  <2>2. QED
        BY <2>1, StillStands
<1>5. QED
      BY <1>1, <1>2, <1>3, <1>4, ReverseStands, ImportRunsStands, ProposeStands, Zenon DEF Aside

LEMMA StandsKept ==
    ASSUME Types, Stands, [Next]_vars
    PROVE  Stands'
BY StepsAre, AsideStands, QuietStands, SaveStands, PostStands, SaveAdjustmentStands,
   PostAdjustmentStands, SetDecisionStands, Zenon

LEMMA StandsHold ==
    ASSUME Init, Types
    PROVE  Stands
<1>1. entries = <<>> /\ pc = [p \in Procs |-> "idle"] /\ DOMAIN entries = {}
      BY DEF Init
<1>2. \A d : EntriesOf(d) = {} /\ Posters(d) = {} /\ Setters(d) = {} /\ Live(d) = {}
      BY <1>1 DEF EntriesOf, Posters, Setters, Live
<1>3. \A d \in FeedDocs : saved[d] = <<>>
      BY DEF Init, FeedDocs, Docs
<1>4. \A q \in scope.requests : state[q] # "posted"
      BY DEF Init
<1>5. QED
      BY <1>2, <1>3, <1>4 DEF Stands, FeedStands, RunStands, RequestStands

-----------------------------------------------------------------------------
(* The invoice. *)

LEMMA SumOfFewer ==
    ASSUME NEW S, IsFiniteSet(S), NEW T \in SUBSET S, NEW f, \A x \in S : f[x] \in Nat
    PROVE  SumFunctionOnSet(f, T) <= SumFunctionOnSet(f, S)
<1> DEFINE R == S \ T
<1>1. IsFiniteSet(T) /\ IsFiniteSet(R) /\ T \cap R = {} /\ T \cup R = S
      BY FS_Subset
<1>2. \A x \in T \cup R : f[x] \in Int
      OBVIOUS
<1>3. SumFunctionOnSet(f, T) \in Nat /\ SumFunctionOnSet(f, R) \in Nat
      BY <1>1, SumNat
<1>4. SumFunctionOnSet(f, T \cup R) = SumFunctionOnSet(f, T) + SumFunctionOnSet(f, R)
  <2> HIDE DEF R
  <2>1. QED
        BY <1>1, <1>2, SumUnion
<1> HIDE DEF R
<1>5. SumFunctionOnSet(f, S) = SumFunctionOnSet(f, T) + SumFunctionOnSet(f, R)
      BY <1>1, <1>4, Zenon
<1>6. QED
      BY <1>3, <1>5

Within(j, unsaved) ==
    LET plan == j.plan IN
    0 <= j.basis /\ SumFunctionOnSet(plan, DOMAIN plan \cap unsaved) <= j.basis

\* What others save only leaves less to apply.
LEMMA WithinFewer ==
    ASSUME scope \in Scopes, NEW j, Importing(j), NEW few \in SUBSET Txns, NEW fewer \in SUBSET few,
           Within(j, few)
    PROVE  Within(j, fewer)
<1> DEFINE plan == j.plan
           S == DOMAIN plan \cap few
           T == DOMAIN plan \cap fewer
<1>1. T \in SUBSET S /\ \A t \in S : plan[t] \in Nat
      BY DEF Importing
<1>2. IsFiniteSet(S)
      BY TxnsFinite, FS_Subset
<1>3. /\ SumFunctionOnSet(plan, T) \in Nat /\ SumFunctionOnSet(plan, S) \in Nat
      /\ SumFunctionOnSet(plan, T) <= SumFunctionOnSet(plan, S)
  <2>1. IsFiniteSet(T) /\ \A t \in T : plan[t] \in Nat
        BY <1>1, <1>2, FS_Subset
  <2> HIDE DEF S, T, plan
  <2>2. QED
        BY <1>1, <1>2, <2>1, SumOfFewer, SumNat
<1>4. 0 <= j.basis /\ SumFunctionOnSet(plan, S) <= j.basis /\ j.basis \in Int
      BY DEF Within, Importing
<1> HIDE DEF S
<1>5. SumFunctionOnSet(plan, T) <= j.basis
      BY <1>3, <1>4
<1>6. QED
      BY <1>4, <1>5 DEF Within

LEMMA BudgetIs == \A p : Budget(p) <=> Within(job[p], Unsaved)
BY DEF Budget, Within

Importers == {p \in Procs : pc[p] \in {"check", "save", "post"}}

LEMMA AppliesFrom ==
    ASSUME Types, Applies, scope' = scope, Unsaved' \subseteq Unsaved, 0 <= Open',
           \A t \in Unsaved' : applied'[t] = applied[t],
           \A p \in Importers' : \/ p \in Importers /\ job'[p] = job[p]
                                 \/ Within(job'[p], Unsaved')
    PROVE  Applies'
<1>1. scope \in Scopes /\ Unsaved \in SUBSET Txns
      BY DEF Types, Tables, Unsaved
<1>2. ASSUME NEW p \in Importers' PROVE Within(job'[p], Unsaved')
  <2>1. CASE p \in Importers /\ job'[p] = job[p]
    <3>1. Importing(job[p]) /\ Within(job[p], Unsaved)
          BY <2>1, BudgetIs DEF Types, Processes, Working, Importers, Applies
    <3>2. Within(job[p], Unsaved')
          BY <1>1, <3>1, WithinFewer
    <3>3. QED
          BY <2>1, <3>2
  <2>2. QED
        BY <1>2, <2>1
<1>3. \A p \in Procs : pc'[p] \in {"check", "save", "post"} => Budget(p)'
      BY <1>2 DEF Importers, Budget, Within
<1>4. \A t \in Unsaved' : applied'[t] = 0
      BY DEF Applies
<1>5. QED
      BY <1>3, <1>4 DEF Applies

LEMMA OpenKept ==
    ASSUME UNCHANGED <<scope, elsewhere, applied>>
    PROVE  Open' = Open
BY DEF Open

\* One process moves, and the sales stay as they are.
LEMMA AppliesStill ==
    ASSUME Types, Applies, UNCHANGED <<scope, elsewhere, applied>>, Unsaved' \subseteq Unsaved,
           NEW p \in Procs, NEW label, NEW j, At(p, label, j),
           \/ label \notin {"check", "save", "post"}
           \/ p \in Importers /\ j.plan = job[p].plan /\ j.basis = job[p].basis
    PROVE  Applies'
<1>1. 0 <= Open'
      BY OpenKept DEF Applies
<1>2. Unsaved' \in SUBSET Unsaved /\ Unsaved \in SUBSET Txns /\ scope \in Scopes
      BY DEF Unsaved, Types, Tables
<1>3. ASSUME NEW o \in Importers'
      PROVE  (o \in Importers /\ job'[o] = job[o]) \/ Within(job'[o], Unsaved')
  <2>1. CASE o # p
        BY <1>3, <2>1 DEF At, Others, Importers
  <2>2. CASE o = p
    <3>1. job'[p] = j /\ p \in Importers /\ j.plan = job[p].plan /\ j.basis = job[p].basis
          BY <1>3, <2>2 DEF At, Importers
    <3>2. Importing(job[p]) /\ Within(job[p], Unsaved)
          BY <3>1, BudgetIs DEF Types, Processes, Working, Importers, Applies
    <3>3. Within(job[p], Unsaved')
          BY <1>2, <3>2, WithinFewer
    <3>4. QED
          BY <2>2, <3>1, <3>3 DEF Within
  <2>3. QED
        BY <2>1, <2>2
<1>4. \A t \in Unsaved' : applied'[t] = applied[t]
      OBVIOUS
<1>5. QED
      BY <1>1, <1>3, <1>4, AppliesFrom

LEMMA ImportApplies ==
    ASSUME Types, Applies, NEW p \in Procs, ImportSettlement(p)
    PROVE  Applies'
<1>1. UNCHANGED <<scope, saved, applied, elsewhere>>
      BY DEF ImportSettlement, ledgerVars
<1> DEFINE plan == Plan(Unsaved, Positive(Open))
           j == Job(Unsaved \cup Batches, plan, NoDoc, Open, 0)
<1>2. At(p, "check", j)
      BY FeedMoves, Zenon DEF Types
<1>3. Open \in Nat /\ Positive(Open) = Open
      BY OpenIsInt DEF Types, Applies, Positive
<1>4. scope \in Scopes /\ Unsaved \in SUBSET Txns /\ Unsaved' = Unsaved
      BY <1>1, ScopeKept DEF Types, Tables, Unsaved
<1>5. DOMAIN plan = Unsaved /\ SumFunctionOnSet(plan, Unsaved) <= Open
      BY <1>3, <1>4, PlanFits
<1>6. Within(j, Unsaved')
  <2>1. j.plan = plan /\ j.basis = Open
        BY DEF Job
  <2> HIDE DEF plan, j
  <2>2. DOMAIN plan \cap Unsaved = Unsaved
        BY <1>5
  <2>3. QED
        BY <1>3, <1>4, <1>5, <2>1, <2>2 DEF Within
<1> HIDE DEF j
<1>7. 0 <= Open'
      BY <1>1, OpenKept DEF Applies
<1>8. ASSUME NEW o \in Importers'
      PROVE  (o \in Importers /\ job'[o] = job[o]) \/ Within(job'[o], Unsaved')
      BY <1>2, <1>6 DEF At, Others, Importers
<1>9. QED
      BY <1>1, <1>4, <1>7, <1>8, AppliesFrom

LEMMA SaveApplies ==
    ASSUME Types, Applies, NEW p \in Procs, SaveDocument(p), ~misread'
    PROVE  Applies'
<1>0. PICK d : d = job[p].doc
      OBVIOUS
<1>1. /\ UNCHANGED <<scope, entries, elsewhere>> /\ pc[p] = "save" /\ Save(d, 1)
      /\ applied' = IF d \in Txns THEN [applied EXCEPT ![d] = job[p].plan[d]] ELSE applied
      /\ misread' = (misread \/ (d \in Txns /\ (Overtaken(p, d) \/ job[p].basis # Open)))
      BY <1>0, Zenon DEF SaveDocument
<1>2. /\ Importing(job[p]) /\ d \in DOMAIN job[p].plan \cup Batches /\ d \in FeedDocs
      /\ scope \in Scopes /\ p \in Importers
  <2>1. Importing(job[p]) /\ d \in DOMAIN job[p].plan \cup Batches /\ scope \in Scopes
        BY <1>0, <1>1 DEF Types, Tables, Processes, Working
  <2>2. QED
        BY <1>1, <2>1 DEF Importing, FeedDocs, Importers
<1>3. saved' = [saved EXCEPT ![d] = Append(@, 1)] /\ saved \in [Docs -> Seq(Int)] /\ d \in Docs
      BY <1>1, <1>2 DEF Save, Types, Tables, Docs, FeedDocs
<1>4. Txns' = Txns
      BY <1>1, ScopeKept
<1>5. Unsaved' = Unsaved \ {d}
  <2>1. saved'[d] # <<>>
    <3>1. \A s \in Seq(Int), x \in Int : Append(s, x) # <<>>
          BY NotEmpty
    <3>2. saved'[d] = Append(saved[d], 1) /\ saved[d] \in Seq(Int)
          BY <1>3
    <3>3. Append(saved[d], 1) # <<>>
      <4>1. 1 \in Int
            OBVIOUS
      <4>2. QED
            BY <3>1, <3>2, <4>1, Zenon
    <3>4. QED
          BY <3>2, <3>3, Zenon
  <2>2. \A t \in Txns : t # d => saved'[t] = saved[t]
        BY <1>3 DEF Docs
  <2>3. QED
        BY <1>4, <2>1, <2>2 DEF Unsaved
<1>6. CASE d \notin Txns
  <2>1. UNCHANGED <<scope, elsewhere, applied>>
        BY <1>1, <1>6
  <2>2. Unsaved' \subseteq Unsaved
        BY <1>5
  <2>3. CASE MovesNothing(d)
    <3>1. At(p, "idle", NoJob)
          BY <1>0, <2>3, FeedMoves DEF Types
    <3>2. QED
          BY <2>1, <2>2, <3>1, AppliesStill
  <2>4. CASE ~MovesNothing(d)
    <3> DEFINE j == Job(job[p].todo, job[p].plan, d, job[p].basis, job[p].version)
    <3>1. At(p, "post", j)
          BY <1>0, <1>6, <2>4, FeedMoves DEF Types
    <3>2. j.plan = job[p].plan /\ j.basis = job[p].basis
          BY DEF Job
    <3> HIDE DEF j
    <3>3. QED
          BY <1>2, <2>1, <2>2, <3>1, <3>2, AppliesStill
  <2>5. QED
        BY <2>3, <2>4
<1>7. CASE d \in Txns
  <2> DEFINE plan == job[p].plan
             D == DOMAIN plan \cap Unsaved
             j == Job(job[p].todo, plan, d, job[p].basis - plan[d], job[p].version)
  <2>1. saved[d] = <<>> /\ job[p].basis = Open
    <3>1. ~Overtaken(p, d) /\ job[p].basis = Open
          BY <1>1, <1>7, Zenon
    <3>2. QED
          BY <1>0, <1>1, <1>3, <3>1, SavesFirst
  <2>2. d \in D /\ applied[d] = 0
        BY <1>2, <1>7, <2>1, Kinds DEF Unsaved, Applies
  <2>3. Within(job[p], Unsaved) /\ Open \in Int
        BY <1>2, BudgetIs, OpenIsInt DEF Types, Applies, Importers
  <2>4. IsFiniteSet(D) /\ \A t \in D : plan[t] \in Nat
        BY <1>2, TxnsFinite, FS_Subset DEF Unsaved, Importing
  <2>5. /\ plan[d] \in Nat /\ plan[d] <= SumFunctionOnSet(plan, D)
        /\ SumFunctionOnSet(plan, D) = plan[d] + SumFunctionOnSet(plan, D \ {d})
        /\ SumFunctionOnSet(plan, D) \in Nat /\ SumFunctionOnSet(plan, D \ {d}) \in Nat
    <3>1. /\ IsFiniteSet(D \ {d}) /\ \A t \in D \ {d} : plan[t] \in Nat
          /\ \A t \in D : plan[t] \in Int
          BY <2>4, FS_Subset
    <3> HIDE DEF D, plan
    <3>2. QED
          BY <2>2, <2>4, <3>1, SumAtLeast, SumSplit, SumNat
  <2>6. Within(j, Unsaved')
    <3>1. DOMAIN plan \cap Unsaved' = D \ {d}
          BY <1>5
    <3>2. 0 <= job[p].basis /\ SumFunctionOnSet(plan, D) <= job[p].basis
          BY <2>3 DEF Within
    <3>3. j.plan = plan /\ j.basis = job[p].basis - plan[d]
          BY DEF Job
    <3>4. SumFunctionOnSet(j.plan, DOMAIN j.plan \cap Unsaved') = SumFunctionOnSet(plan, D \ {d})
          BY <3>1, <3>3, Zenon
    <3> HIDE DEF plan, D, j
    <3>5. 0 <= j.basis /\ SumFunctionOnSet(plan, D \ {d}) <= j.basis
          BY <2>1, <2>3, <2>5, <3>2, <3>3
    <3>6. QED
          BY <3>4, <3>5 DEF Within
  <2>7. Open' = Open - plan[d]
    <3>1. applied' = [applied EXCEPT ![d] = plan[d]] /\ applied \in [Txns -> Int]
          BY <1>1, <1>7 DEF Types, Tables
    <3>2. /\ IsFiniteSet(Txns) /\ \A t \in Txns : applied[t] \in Int /\ applied'[t] \in Int
          /\ \A t \in Txns \ {d} : applied'[t] = applied[t]
          /\ applied'[d] = plan[d]
      <4>1. plan[d] \in Int
            BY <2>5
      <4> HIDE DEF plan
      <4>2. QED
            BY <1>2, <1>7, <3>1, <4>1, TxnsFinite
    <3>3. SumFunctionOnSet(applied', Txns) = SumFunctionOnSet(applied, Txns) - applied[d] + applied'[d]
      <4>1. PICK f, g, S : f = applied /\ g = applied' /\ S = Txns
            OBVIOUS
      <4>2. /\ IsFiniteSet(S) /\ d \in S /\ \A t \in S : f[t] \in Int /\ g[t] \in Int
            /\ \A t \in S \ {d} : g[t] = f[t]
            BY <1>7, <3>2, <4>1
      <4>3. SumFunctionOnSet(g, S) = SumFunctionOnSet(f, S) - f[d] + g[d]
            BY <4>2, SumChanged
      <4>4. QED
            BY <4>1, <4>3, Zenon
    <3>4. SumFunction(applied) = SumFunctionOnSet(applied, Txns)
          BY <3>1 DEF SumFunction
    <3>5. SumFunction(applied') = SumFunctionOnSet(applied', Txns)
          BY <3>1 DEF SumFunction
    <3>6. /\ SumFunctionOnSet(applied, Txns) \in Int
          /\ scope.invoice \in Nat /\ elsewhere \in Int
          BY <3>2, SumIsInt, ScopesAssumption DEF Types, Tables
    <3>7. Open' = scope.invoice - elsewhere - SumFunction(applied')
          BY <1>1 DEF Open
    <3> HIDE DEF plan
    <3>8. QED
          BY <2>2, <2>5, <3>2, <3>3, <3>4, <3>5, <3>6, <3>7 DEF Open
  <2>8. 0 <= Open'
    <3>1. SumFunctionOnSet(plan, D) <= Open
          BY <2>1, <2>3 DEF Within
    <3> HIDE DEF plan, D
    <3>2. QED
          BY <2>3, <2>5, <2>7, <3>1
  <2>9. At(p, "post", j) \/ At(p, "idle", NoJob)
        BY <1>0, <1>7, FeedMoves DEF Types
  <2> HIDE DEF j
  <2>10. ASSUME NEW o \in Importers'
         PROVE  (o \in Importers /\ job'[o] = job[o]) \/ Within(job'[o], Unsaved')
         BY <2>6, <2>9 DEF At, Others, Importers
  <2>11. \A t \in Unsaved' : applied'[t] = applied[t]
    <3>1. \A t \in Txns \ {d} : applied'[t] = applied[t]
          BY <1>1, <1>7 DEF Types, Tables
    <3>2. QED
          BY <1>5, <3>1 DEF Unsaved
  <2>12. QED
         BY <1>1, <1>5, <2>8, <2>10, <2>11, AppliesFrom
<1>8. QED
      BY <1>6, <1>7

LEMMA CheckApplies ==
    ASSUME Types, Applies, NEW p \in Procs, CheckDocument(p)
    PROVE  Applies'
<1>1. UNCHANGED <<scope, saved, elsewhere, applied>> /\ p \in Importers
      BY DEF CheckDocument, ledgerVars, Importers
<1>2. Unsaved' \subseteq Unsaved
      BY <1>1, ScopeKept DEF Unsaved
<1>3. \E label, j : /\ At(p, label, j)
                   /\ \/ label = "idle"
                      \/ j.plan = job[p].plan /\ j.basis = job[p].basis
  <2>1. CASE At(p, "idle", NoJob)
        BY <2>1
  <2>2. ASSUME NEW e, NEW d, NEW label,
               NEW version, At(p, label, Job(job[p].todo \ {e}, job[p].plan, d, job[p].basis, version))
        PROVE  \E j : At(p, label, j) /\ j.plan = job[p].plan /\ j.basis = job[p].basis
    <3> DEFINE j == Job(job[p].todo \ {e}, job[p].plan, d, job[p].basis, version)
    <3>1. At(p, label, j) /\ j.plan = job[p].plan /\ j.basis = job[p].basis
          BY <2>2 DEF Job
    <3> HIDE DEF j
    <3>2. QED
          BY <3>1
  <2>3. QED
        BY <2>1, <2>2, FeedMoves, Zenon DEF Types
<1>4. QED
      BY <1>1, <1>2, <1>3, AppliesStill

LEMMA PostApplies ==
    ASSUME Types, Applies, NEW p \in Procs, PostEntry(p)
    PROVE  Applies'
<1>1. UNCHANGED <<scope, saved, elsewhere, applied>> /\ p \in Importers
      BY DEF PostEntry, Importers
<1>2. Unsaved' \subseteq Unsaved
      BY <1>1, ScopeKept DEF Unsaved
<1> DEFINE j == Job(job[p].todo, job[p].plan, NoDoc, job[p].basis, job[p].version)
<1>3. At(p, "check", j)
      BY FeedMoves, Zenon DEF Types
<1>4. j.plan = job[p].plan /\ j.basis = job[p].basis
      BY DEF Job
<1> HIDE DEF j
<1>5. QED
      BY <1>1, <1>2, <1>3, <1>4, AppliesStill

LEMMA RequestApplies ==
    ASSUME Types, Applies, NEW p \in Procs,
           \/ DecideAdjustment(p) \/ SaveAdjustment(p) \/ PostAdjustment(p) \/ SetDecision(p)
           \/ Crash(p)
    PROVE  Applies'
<1>1. UNCHANGED <<scope, elsewhere, applied>>
      BY Zenon DEF DecideAdjustment, SaveAdjustment, PostAdjustment, SetDecision, Crash, ledgerVars
<1>2. Unsaved' \subseteq Unsaved
  <2>1. CASE SaveAdjustment(p)
    <3>1. PICK q : q = job[p].doc
          OBVIOUS
    <3>2. saved' = [saved EXCEPT ![q] = Append(@, 1)]
          BY <2>1, <3>1, Zenon DEF SaveAdjustment, Save
    <3>3. q \notin Txns
          BY <2>1, <3>1, SaveAdjustmentTyped, Kinds DEF Deciding, FeedDocs, Types, Tables
    <3>4. \A t \in Txns : saved'[t] = saved[t]
          BY <3>2, <3>3 DEF Types, Tables, Docs
    <3>5. QED
          BY <1>1, <3>4, ScopeKept DEF Unsaved
  <2>2. CASE ~SaveAdjustment(p)
    <3>1. saved' = saved
          BY <2>2, Zenon DEF DecideAdjustment, PostAdjustment, SetDecision, Crash, ledgerVars
    <3>2. QED
          BY <1>1, <3>1, ScopeKept DEF Unsaved
  <2>3. QED
        BY <2>1, <2>2
<1>3. \E label, j : At(p, label, j) /\ label \notin {"check", "save", "post"}
  <2>1. CASE DecideAdjustment(p)
        BY <2>1, RequestMoves DEF Types
  <2>2. CASE \E j : At(p, "idle", j) \/ At(p, "postAdjustment", j) \/ At(p, "setPosted", j)
        BY <2>2
  <2>3. CASE SaveAdjustment(p)
        BY <2>2, <2>3, RequestMoves, Zenon DEF Types
  <2>4. CASE PostAdjustment(p)
        BY <2>2, <2>4, RequestMoves, Zenon DEF Types
  <2>5. CASE SetDecision(p) \/ Crash(p)
        BY <2>2, <2>5, RequestMoves, Zenon DEF Types
  <2>6. QED
        BY <2>1, <2>3, <2>4, <2>5
<1>4. QED
      BY <1>1, <1>2, <1>3, AppliesStill

LEMMA AsideApplies ==
    ASSUME Types, Applies, Aside \/ UNCHANGED vars
    PROVE  Applies'
<1>1. UNCHANGED <<scope, pc, job>>
      BY AsideMoves
<1>2. \A p \in Importers' : p \in Importers /\ job'[p] = job[p]
      BY <1>1 DEF Importers
<1>3. applied' = applied
      BY DEF Aside, vars, ledgerVars, PaidElsewhere, FigureChanges, LockOrReopen, ReverseEntry,
             ImportRuns, ProposeAdjustment
<1>4. Unsaved' \subseteq Unsaved
  <2>1. ASSUME NEW p \in Procs, ImportRuns(p) PROVE \A t \in Txns : saved'[t] = saved[t]
    <3>1. PICK runs : ImportsRuns(runs)
          BY <2>1, RunsImported
    <3>2. /\ runs \subseteq scope.runs
          /\ saved' = [d \in Docs |-> IF d \in runs THEN Append(saved[d], figure[d]) ELSE saved[d]]
          BY <3>1, Zenon DEF ImportsRuns
    <3>3. \A t \in Txns : t \in Docs /\ t \notin runs
          BY <3>2, Kinds DEF FeedDocs, Types, Tables
    <3>4. QED
          BY <3>2, <3>3
  <2>2. CASE saved' = saved
        BY <1>1, <2>2, ScopeKept DEF Unsaved
  <2>3. saved' = saved \/ \E p \in Procs : ImportRuns(p)
        BY DEF Aside, vars, ledgerVars, PaidElsewhere, FigureChanges, LockOrReopen, ReverseEntry,
               ProposeAdjustment
  <2>4. CASE \A t \in Txns : saved'[t] = saved[t]
        BY <1>1, <2>4, ScopeKept DEF Unsaved
  <2>5. QED
        BY <2>1, <2>2, <2>3, <2>4
<1>5. 0 <= Open'
  <2>1. CASE PaidElsewhere
    <3>1. Open > 0 /\ elsewhere' = elsewhere + 1
          BY <2>1 DEF PaidElsewhere
    <3>2. Open \in Int /\ scope.invoice \in Nat /\ elsewhere \in Int
          BY OpenIsInt, ScopesAssumption DEF Types, Tables
    <3>3. SumFunction(applied) \in Int
      <4>1. IsFiniteSet(Txns) /\ \A t \in Txns : applied[t] \in Int
            BY TxnsFinite DEF Types, Tables
      <4>2. SumFunctionOnSet(applied, Txns) \in Int
            BY <4>1, SumIsInt
      <4>3. QED
            BY <4>2 DEF SumFunction, Types, Tables
    <3>4. Open' = Open - 1
          BY <1>1, <1>3, <3>1, <3>2, <3>3 DEF Open
    <3>5. QED
          BY <3>1, <3>2, <3>4
  <2>2. CASE elsewhere' = elsewhere
        BY <1>1, <1>3, <2>2, OpenKept DEF Applies
  <2>3. elsewhere' = elsewhere \/ PaidElsewhere
        BY DEF Aside, vars, ledgerVars, FigureChanges, LockOrReopen, ReverseEntry, ImportRuns,
               ProposeAdjustment
  <2>4. QED
        BY <2>1, <2>2, <2>3
<1>6. \A t \in Unsaved' : applied'[t] = applied[t]
      BY <1>3
<1>7. QED
      BY <1>1, <1>2, <1>4, <1>5, <1>6, AppliesFrom

LEMMA AppliesKept ==
    ASSUME Types, Applies, [Next]_vars, ~misread'
    PROVE  Applies'
BY StepsAre, AsideApplies, ImportApplies, CheckApplies, SaveApplies, PostApplies, RequestApplies, Zenon

LEMMA AppliesHold ==
    ASSUME Init, Types
    PROVE  Applies
<1>1. pc = [p \in Procs |-> "idle"] /\ applied = [t \in Txns |-> 0] /\ elsewhere = 0
      BY DEF Init
<1>2. IsFiniteSet(Txns) /\ scope.invoice \in Nat
      BY TxnsFinite, ScopesAssumption DEF Types, Tables
<1>3. SumFunctionOnSet(applied, Txns) = 0
      BY <1>1, <1>2, SumZero
<1>4. SumFunction(applied) = 0
      BY <1>1, <1>3 DEF SumFunction
<1>5. 0 <= Open
      BY <1>1, <1>2, <1>4 DEF Open
<1>6. QED
      BY <1>1, <1>5 DEF Applies, Unsaved

LEMMA MisreadStays ==
    ASSUME [Next]_vars, misread
    PROVE  misread'
<1>1. CASE Aside \/ UNCHANGED vars
      BY <1>1 DEF Aside, vars, ledgerVars, PaidElsewhere, FigureChanges, LockOrReopen, ReverseEntry,
                  ImportRuns, ProposeAdjustment
<1>2. ASSUME NEW p \in Procs,
             \/ ImportSettlement(p) \/ CheckDocument(p) \/ SaveDocument(p) \/ PostEntry(p)
             \/ DecideAdjustment(p) \/ SaveAdjustment(p) \/ PostAdjustment(p) \/ SetDecision(p)
             \/ Crash(p)
      PROVE  misread'
      BY <1>2 DEF ImportSettlement, CheckDocument, SaveDocument, PostEntry, DecideAdjustment,
                  SaveAdjustment, PostAdjustment, SetDecision, Crash, ledgerVars
<1>3. QED
      BY <1>1, <1>2, StepsAre

-----------------------------------------------------------------------------
(* The invariant holds, and what follows from it. *)

LEMMA InvKept ==
    ASSUME FInv, [Next]_vars
    PROVE  FInv'
<1>1. Types' /\ Stands'
      BY TypesKept, StandsKept DEF FInv
<1>2. ASSUME ~misread' PROVE Applies'
      BY <1>2, MisreadStays, AppliesKept DEF FInv
<1>3. QED
      BY <1>1, <1>2 DEF FInv

LEMMA InvHolds == Spec => []FInv
<1>1. Init => FInv
      BY TypesHold, StandsHold, AppliesHold DEF FInv
<1>2. FInv /\ [Next]_vars => FInv'
      BY InvKept
<1>3. QED
      BY <1>1, <1>2, PTL DEF Spec

LEMMA OneAtMost ==
    ASSUME NEW S, S = {} \/ IsOne(S)
    PROVE  Cardinality(S) <= 1
<1>1. CASE S = {}
      BY <1>1, FS_EmptySet
<1>2. CASE IsOne(S)
      BY <1>2, FS_Singleton DEF IsOne
<1>3. QED
      BY <1>1, <1>2

LEMMA OnceOnly ==
    ASSUME FInv
    PROVE  PostedOnce
<1>1. SUFFICES ASSUME NEW d \in Docs, d \notin torn \ scope.runs
               PROVE  Cardinality(Live(d)) <= 1
      BY DEF PostedOnce
<1>2. d \in FeedDocs \/ d \in scope.runs \/ d \in scope.requests
      BY Kinds DEF FInv, Types, Tables
<1>3. CASE d \in scope.runs
      BY <1>3, OneAtMost DEF FInv, Stands, RunStands
<1>4. CASE d \notin scope.runs
  <2>1. \/ d \in FeedDocs /\ FeedStands(d)
        \/ d \in scope.requests /\ RequestStands(d)
        BY <1>1, <1>2, <1>4 DEF FInv, Stands
  <2>2. /\ \A i \in EntriesOf(d) : entries[i].reverses = 0
        /\ EntriesOf(d) = {} \/ IsOne(EntriesOf(d))
        BY <2>1 DEF FeedStands, RequestStands
  <2>3. Live(d) = EntriesOf(d)
        BY <2>2, Original DEF FInv, Types
  <2>4. QED
        BY <2>2, <2>3, OneAtMost
<1>5. QED
      BY <1>3, <1>4

LEMMA Tells ==
    ASSUME FInv
    PROVE  DecisionTells
<1>1. SUFFICES ASSUME NEW q \in scope.requests \ torn
               PROVE  /\ state[q] = "posted" => Live(q) # {}
                      /\ state[q] \in {"none", "rejected"} => Live(q) = {}
      BY DEF DecisionTells
<1>2. RequestStands(q)
      BY DEF FInv, Stands
<1>3. Live(q) = EntriesOf(q)
      BY <1>2, Original DEF FInv, Types, RequestStands
<1>4. QED
      BY <1>2, <1>3 DEF RequestStands, IsOne

LEMMA SumOfOne ==
    ASSUME NEW f, NEW x, f[x] \in Int
    PROVE  SumFunctionOnSet(f, {x}) = f[x]
<1>1. IsFiniteSet({x}) /\ \A y \in {x} : f[y] \in Int
      BY FS_Singleton
<1>2. SumFunctionOnSet(f, {x}) = f[x] + SumFunctionOnSet(f, {x} \ {x})
      BY <1>1, SumSplit
<1>3. {x} \ {x} = {}
      OBVIOUS
<1>4. SumFunctionOnSet(f, {x} \ {x}) = 0
      BY <1>3, SumEmpty
<1>5. QED
      BY <1>2, <1>4

\* What a batch and its transactions do to the clearing account, each once.
LEMMA BatchNets ==
    ASSUME scope \in Scopes, NEW b \in Batches, NEW h, \A d \in DocsOf(b) : h[d] = Clearing(d)
    PROVE  /\ IsFiniteSet(DocsOf(b)) /\ \A d \in DocsOf(b) : Clearing(d) \in Int
           /\ SumFunctionOnSet(h, DocsOf(b)) = 0
<1> DEFINE T == TxnsOf(b)
           f == [t \in T |-> Amount(t)]
           net == SumFunctionOnSet(f, T)
<1>1. T \in SUBSET Txns /\ IsFiniteSet(T) /\ b \notin T /\ DocsOf(b) = T \cup {b}
  <2>1. T \in SUBSET Txns /\ DocsOf(b) = T \cup {b}
        BY DEF DocsOf, TxnsOf
  <2>2. QED
        BY <2>1, TxnsFinite, Kinds, FS_Subset
<1>2. \A t \in T : f[t] = Amount(t) /\ Amount(t) \in Int
      BY <1>1, Rows
<1>3. NetBeforeFees(b) = net
      BY DEF NetBeforeFees, SumFunction
<1>4. \A t \in T : Clearing(t) = Amount(t)
      BY <1>1, Kinds DEF Clearing
<1>5. Clearing(b) = -net
      BY <1>3 DEF Clearing
<1> HIDE DEF T, f
<1>6. net \in Int
      BY <1>1, <1>2, SumIsInt
<1>7. SumFunctionOnSet(h, T) = net
  <2>1. \A t \in T : h[t] = f[t]
        BY <1>1, <1>2, <1>4
  <2>2. QED
        BY <1>1, <2>1, SumSame
<1> HIDE DEF net
<1>8. SumFunctionOnSet(h, T \cup {b}) = h[b] + SumFunctionOnSet(h, T)
  <2>1. \A d \in T \cup {b} : h[d] \in Int
        BY <1>1, <1>2, <1>4, <1>5, <1>6
  <2>2. QED
        BY <1>1, <2>1, SumAdd
<1>9. h[b] = -net
      BY <1>1, <1>5
<1>10. SumFunctionOnSet(h, T \cup {b}) = 0
       BY <1>6, <1>7, <1>8, <1>9
<1>11. SumFunctionOnSet(h, DocsOf(b)) = 0
       BY <1>1, <1>10, Zenon
<1>12. IsFiniteSet(DocsOf(b))
       BY <1>1, FS_AddElement
<1>13. QED
       BY <1>1, <1>2, <1>4, <1>5, <1>6, <1>11, <1>12

LEMMA Nets ==
    ASSUME FInv
    PROVE  ClearingNets
<1>1. SUFFICES ASSUME \A p \in Procs : pc[p] \notin {"save", "post"}, NEW b \in Batches,
                      DocsOf(b) \cap torn = {}, \A d \in DocsOf(b) : Imported(d)
               PROVE  SumFunction([i \in {j \in DOMAIN entries : entries[j].doc \in DocsOf(b)}
                                      |-> Clearing(entries[i].doc)]) = 0
      BY DEF ClearingNets
<1> DEFINE K == DocsOf(b)
           S == {j \in DOMAIN entries : entries[j].doc \in K}
           f == [i \in S |-> Clearing(entries[i].doc)]
           key == [i \in S |-> entries[i].doc]
           h == [d \in K |-> Clearing(d)]
<1>2. Tables /\ scope \in Scopes
      BY DEF FInv, Types, Tables
<1>3. IsFiniteSet(S)
  <2>1. Len(entries) \in Nat /\ S \in SUBSET (1 .. Len(entries))
        BY <1>2, EntriesAre
  <2>2. IsFiniteSet(1 .. Len(entries))
        BY <2>1, FS_Interval
  <2> HIDE DEF S
  <2>3. QED
        BY <2>1, <2>2, FS_Subset
<1>4. /\ IsFiniteSet(K) /\ \A d \in K : Clearing(d) \in Int
      /\ SumFunctionOnSet(h, K) = 0
  <2>1. \A d \in DocsOf(b) : h[d] = Clearing(d)
        OBVIOUS
  <2> HIDE DEF h
  <2>2. QED
        BY <1>2, <2>1, BatchNets
<1>5. ASSUME NEW d \in K PROVE \E i \in S : EntriesOf(d) = {i}
  <2>1. d \in FeedDocs /\ d \notin torn /\ saved[d] # <<>>
        BY <1>1 DEF DocsOf, TxnsOf, FeedDocs, Imported
  <2>2. FeedStands(d)
        BY <2>1 DEF FInv, Stands
  <2>3. Posters(d) = {}
        BY <1>1 DEF Posters
  <2>4. IsOne(EntriesOf(d))
        BY <2>1, <2>2, <2>3 DEF FeedStands, IsOne
  <2>5. PICK i : EntriesOf(d) = {i}
        BY <2>4 DEF IsOne
  <2>6. i \in S
        BY <2>5 DEF EntriesOf
  <2>7. QED
        BY <2>5, <2>6
<1>6. ASSUME NEW d \in K PROVE h[d] = SumFunctionOnSet(f, OfKey(S, key, d))
  <2>1. PICK i \in S : EntriesOf(d) = {i}
        BY <1>5
  <2>2. OfKey(S, key, d) = {i}
        BY <2>1 DEF OfKey, EntriesOf
  <2>3. f[i] = Clearing(d) /\ f[i] \in Int
        BY <1>4, <2>1 DEF EntriesOf
  <2>4. h[d] = f[i]
        BY <2>3
  <2> HIDE DEF f, h, S, key
  <2>5. SumFunctionOnSet(f, {i}) = f[i]
        BY <2>3, SumOfOne
  <2>6. QED
        BY <2>2, <2>4, <2>5
<1>7. /\ \A i \in S : f[i] \in Int /\ key[i] \in K
      /\ SumFunction(f) = SumFunctionOnSet(f, S)
      BY <1>4 DEF SumFunction
<1>8. SumFunctionOnSet(f, S) = SumFunctionOnSet(h, K)
  <2> HIDE DEF f, h, S, key, K
  <2>1. QED
        BY <1>3, <1>4, <1>6, <1>7, SumByKey
<1>9. SumFunction(f) = 0
      BY <1>4, <1>7, <1>8
<1>10. QED
       BY <1>9

\* import_settlement and decide_adjustment: whatever is imported again, paid twice or decided
\* by two people, a document has one live entry at most. Excused are a document
\* saved and not posted, one reversed by hand, and one two processes took up at the
\* same moment; a payroll run has no excuse.
THEOREM PostedOnceHolds == Spec => []PostedOnce
BY InvHolds, OnceOnly, PTL

\* import_runs: a run's live entry is of the version that was saved last, whatever
\* is reversed by hand and imported again.
THEOREM RunsAsSavedHolds == Spec => []RunsAsSaved
<1>1. FInv => RunsAsSaved
      BY DEF FInv, Stands, RunStands, RunsAsSaved
<1>2. QED
      BY <1>1, InvHolds, PTL

\* import_settlement: when no import is between a save and its post, the sales,
\* refunds and payout of a batch that was imported to the end leave nothing on
\* the clearing account.
THEOREM ClearingNetsHolds == Spec => []ClearingNets
BY InvHolds, Nets, PTL

\* payment_document: the card sales of every file, by however many importers,
\* apply no more to the invoice than was open on it, unless a sale was saved after
\* what was open had changed.
THEOREM NotOverAppliedHolds == Spec => []NotOverApplied
<1>1. FInv => NotOverApplied
      BY OpenIsInt DEF FInv, Types, Applies, NotOverApplied
<1>2. QED
      BY <1>1, InvHolds, PTL

\* decide_adjustment: a posted request has its entry, and a rejected one, or one
\* not yet proposed, has none.
THEOREM DecisionTellsHolds == Spec => []DecisionTells
BY InvHolds, Tells, PTL
=============================================================================
