---------------------------- MODULE ImportProofs ----------------------------
(***************************************************************************)
(* Proofs about the import, for every set of documents and every amount,   *)
(* date, window and lock: runs that die, are refused or find what earlier  *)
(* ones left never reverse an entry twice nor post a document twice, and   *)
(* what a run leaves of a document it did not reject is what it read.      *)
(***************************************************************************)
EXTENDS Import, CommonProofs

Entries == [doc : Posting, date : Dates, amount : Int, asset : BOOLEAN, reverses : Nat]

Maybe == Record \cup {NotThere}
MaybeSynced == Document \cup {NotThere}

\* What the run holds in its hands at each point.
RunTyped ==
    /\ seen \in [Docs -> Maybe]
    /\ pc \in {"compare", "reverse", "post"} => doc \in Docs /\ rec \in Record
    /\ pc \in {"reverse", "post"} => doc \in Posting
    /\ pc \in {"idle", "next", "compare"} => live = {}

\* A reversal comes after what it reverses, of the same document, and reverses
\* an entry that is not itself a reversal.
Reverses ==
    \A i \in DOMAIN journal :
        LET r == journal[i].reverses IN
        r # 0 => r \in DOMAIN journal /\ r < i
                 /\ journal[r].doc = journal[i].doc /\ journal[r].reverses = 0

ReversedOnce ==
    \A i, j \in DOMAIN journal :
        journal[i].reverses = journal[j].reverses /\ journal[i].reverses # 0 => i = j

OneStands == \A d \in Posting : \A i, j \in LiveEntries(d) : i = j

\* The run reverses exactly what stands, and posts only when nothing does.
RunKnows ==
    /\ pc = "reverse" => live = LiveEntries(doc)
    /\ pc = "post" => LiveEntries(doc) = {}

IInv == TypeOK /\ RunTyped /\ Reverses /\ ReversedOnce /\ OneStands /\ RunKnows

-----------------------------------------------------------------------------
LEMMA ConstantsTyped ==
    /\ MaxDate \in Nat /\ MaxAmount \in Nat /\ Docs \subseteq Nat
    /\ OpenItem \in MaybeSynced /\ NotThere \in MaybeSynced /\ NotThere \notin Document
    /\ NotThere \in Maybe /\ NotThere \notin Record
<1>1. OpenItem \in Document
      BY ImportAssumption DEF OpenItem, Document, Dates
<1>2. NotThere \notin Record /\ NotThere \notin Document
      BY DEF NotThere, Record, Document, Dates
<1>3. QED
      BY <1>1, <1>2, ImportAssumption DEF Maybe, MaybeSynced

LEMMA InitIInv == Init => IInv
<1>1. SUFFICES ASSUME Init PROVE IInv
      OBVIOUS
<1>2. journal = <<>> /\ DOMAIN journal = {}
      BY <1>1 DEF Init
<1>3. \A d : LiveEntries(d) = {}
      BY <1>2 DEF LiveEntries, EntriesOf
<1>4. TypeOK
  <2>1. replica \in [Docs -> MaybeSynced] /\ item \in Item
        BY <1>1, ConstantsTyped DEF Init, Item
  <2>2. /\ payload \in [Docs -> Maybe] /\ todo \in [Docs -> Maybe]
        /\ journal \in Seq(Entries) /\ lock \in 0 .. MaxDate
        BY <1>1, ConstantsTyped DEF Init
  <2>3. basis \in BOOLEAN /\ pc = "idle" /\ doc = 0 /\ live = {} /\ rejected = {}
        BY <1>1 DEF Init
  <2>4. QED
        BY <2>1, <2>2, <2>3 DEF TypeOK, Maybe, MaybeSynced, Entries
<1>5. RunTyped
      BY <1>1, ConstantsTyped DEF Init, RunTyped
<1>6. QED
      BY <1>1, <1>2, <1>3, <1>4, <1>5
      DEF Init, IInv, Reverses, ReversedOnce, OneStands, RunKnows

\* What an entry does to 1300, say, is a number.
LEMMA WorthTyped ==
    ASSUME NEW r \in Record, NEW asset \in BOOLEAN
    PROVE  Worth(r, asset) \in Int
<1>1. r.amount \in Int /\ r.cost \in Int
      BY ConstantsTyped DEF Record
<1>2. CostPair(r, asset) \in Int
      BY <1>1 DEF CostPair
<1>3. QED
      BY <1>1, <1>2 DEF Worth

\* What translate makes of a document is a record.
LEMMA TranslateTyped ==
    ASSUME IInv, NEW r \in Document
    PROVE  translate(r) \in Record
BY DEF translate, Record, Document, IInv, TypeOK, Item

\* Steps that write no entry: it remains to say what the run holds.
LEMMA NoEntry ==
    ASSUME IInv, UNCHANGED journal, TypeOK', RunTyped', RunKnows'
    PROVE  IInv'
BY DEF IInv, Reverses, ReversedOnce, OneStands, LiveEntries, EntriesOf, Reversed

\* Changes around the run leave what it holds alone.
LEMMA AroundIInv ==
    ASSUME IInv,
           \/ \E d \in Docs : DocumentSynced(d) \/ DocumentDeleted(d)
           \/ ItemSynced \/ PeriodMoved
    PROVE  IInv'
<1>1. UNCHANGED <<ledgerVars, runVars>>
      BY DEF DocumentSynced, DocumentDeleted, ItemSynced, PeriodMoved, Change
<1>2. replica' \in [Docs -> MaybeSynced] /\ item' \in Item /\ lock' \in 0 .. MaxDate
  <2>1. ASSUME NEW d \in Docs, DocumentSynced(d)
        PROVE  replica' \in [Docs -> MaybeSynced] /\ item' \in Item /\ lock' \in 0 .. MaxDate
        BY <2>1 DEF DocumentSynced, Change, IInv, TypeOK, MaybeSynced
  <2>2. ASSUME NEW d \in Docs, DocumentDeleted(d)
        PROVE  replica' \in [Docs -> MaybeSynced] /\ item' \in Item /\ lock' \in 0 .. MaxDate
    <3>1. replica[d] \in Document
          BY <2>2 DEF DocumentDeleted, Present, IInv, TypeOK
    <3>2. [replica[d] EXCEPT !.voided = TRUE] \in Document
          BY <3>1 DEF Document
    <3>3. replica' = [replica EXCEPT ![d] = [replica[d] EXCEPT !.voided = TRUE]]
          BY <2>2 DEF DocumentDeleted
    <3>4. QED
          BY <2>2, <3>2, <3>3 DEF DocumentDeleted, Change, IInv, TypeOK, MaybeSynced
  <2>3. CASE ItemSynced \/ PeriodMoved
        BY <2>3 DEF ItemSynced, PeriodMoved, Change, IInv, TypeOK, MaybeSynced
  <2>4. QED
        BY <2>1, <2>2, <2>3
<1>3. TypeOK'
      BY <1>1, <1>2 DEF IInv, TypeOK, ledgerVars, runVars, MaybeSynced
<1>4. RunTyped' /\ RunKnows'
      BY <1>1 DEF IInv, RunTyped, RunKnows, ledgerVars, runVars, LiveEntries, EntriesOf, Reversed
<1>5. QED
      BY <1>1, <1>3, <1>4, NoEntry DEF ledgerVars

\* However a document ends, the run holds nothing and goes on.
LEMMA FinishTyped ==
    ASSUME IInv, NEW outcome, Finish(outcome), pc \in {"compare", "reverse", "post"},
           UNCHANGED World, payload' \in [Docs -> Maybe],
           journal' \in Seq(Entries)
    PROVE  TypeOK' /\ RunTyped' /\ RunKnows'
<1>1. doc \in Docs
      BY DEF IInv, RunTyped
<1>2. TypeOK'
      BY <1>1 DEF IInv, TypeOK, Finish, World, Entries, Maybe
<1>3. QED
      BY <1>2 DEF IInv, RunTyped, RunKnows, Finish

LEMMA RunIInv ==
    ASSUME IInv, StartRun \/ EndRun \/ TakeNext \/ Crash
    PROVE  IInv'
<1>1. UNCHANGED journal
      BY DEF StartRun, EndRun, TakeNext, Crash, ledgerVars
<1>2. CASE StartRun
  <2>1. /\ pc' = "next" /\ UNCHANGED <<World, ledgerVars, doc, rec, live>>
        /\ todo' = [d \in Docs |-> IF InWindow(replica[d]) THEN translate(replica[d]) ELSE NotThere]
        /\ seen' = todo' /\ basis' = item.asset /\ rejected' = {} /\ pc = "idle"
        BY <1>2 DEF StartRun
  <2>2. todo' \in [Docs -> Maybe]
    <3>1. ASSUME NEW d \in Docs, InWindow(replica[d]) PROVE translate(replica[d]) \in Record
      <4>1. replica[d] \in Document
            BY <3>1 DEF InWindow, Present, IInv, TypeOK
      <4>2. QED
            BY <4>1, TranslateTyped
    <3>2. QED
          BY <2>1, <3>1 DEF Maybe
  <2>3. TypeOK'
        BY <2>1, <2>2 DEF IInv, TypeOK, World, ledgerVars, Maybe, Item
  <2>4. RunTyped' /\ RunKnows'
        BY <2>1, <2>2 DEF IInv, RunTyped, RunKnows
  <2>5. QED
        BY <1>1, <2>3, <2>4, NoEntry
<1>3. CASE EndRun
  <2>1. TypeOK'
        BY <1>3 DEF EndRun, IInv, TypeOK, World, ledgerVars
  <2>2. RunTyped' /\ RunKnows'
        BY <1>3 DEF EndRun, IInv, RunTyped, RunKnows
  <2>3. QED
        BY <1>1, <2>1, <2>2, NoEntry
<1>4. CASE TakeNext
  <2>1. PICK d \in Waiting : /\ doc' = d /\ rec' = todo[d]
                             /\ todo' = [todo EXCEPT ![d] = NotThere]
        BY <1>4 DEF TakeNext
  <2>2. d \in Docs /\ todo[d] \in Record
        BY <2>1 DEF Waiting, Present, IInv, TypeOK
  <2>3. TypeOK'
        BY <1>4, <2>1, <2>2, ConstantsTyped DEF TakeNext, IInv, TypeOK, World, ledgerVars, Maybe
  <2>4. RunTyped' /\ RunKnows'
        BY <1>4, <2>1, <2>2 DEF TakeNext, IInv, RunTyped, RunKnows
  <2>5. QED
        BY <1>1, <2>3, <2>4, NoEntry
<1>5. CASE Crash
  <2>1. TypeOK'
        BY <1>5, ConstantsTyped DEF Crash, IInv, TypeOK, ledgerVars, Maybe
  <2>2. RunTyped' /\ RunKnows'
        BY <1>5 DEF Crash, IInv, RunTyped, RunKnows
  <2>3. QED
        BY <1>1, <2>1, <2>2, NoEntry
<1>6. QED
      BY <1>2, <1>3, <1>4, <1>5

\* Refusing, skipping, saving: the documents that end without an entry, and the
\* step from what stands to what is to be reversed.
LEMMA CompareIInv ==
    ASSUME IInv,
           \/ CompareCarried \/ CompareContract \/ Skip \/ Replace
           \/ ReverseRefused \/ SaveVersion \/ PostRefused
    PROVE  IInv'
<1>1. UNCHANGED <<journal, World>> /\ pc \in {"compare", "reverse", "post"}
      BY DEF CompareCarried, CompareContract, Skip, Replace, ReverseRefused, SaveVersion,
             PostRefused, ledgerVars
<1>2. doc \in Docs /\ rec \in Record /\ journal' \in Seq(Entries)
      BY <1>1 DEF IInv, RunTyped, TypeOK, Entries
<1>3. payload' \in [Docs -> Maybe]
      BY <1>2 DEF CompareCarried, CompareContract, Skip, Replace, ReverseRefused, SaveVersion,
                  PostRefused, ledgerVars, IInv, TypeOK, Maybe
<1>4. CASE \E outcome : Finish(outcome)
      BY <1>1, <1>2, <1>3, <1>4, FinishTyped, NoEntry
<1>5. CASE Replace
  <2>1. live' = LiveEntries(doc) /\ LiveEntries(doc) \subseteq DOMAIN journal
        BY <1>5 DEF Replace, LiveEntries, EntriesOf
  <2>2. TypeOK'
        BY <1>1, <1>3, <1>5, <2>1 DEF Replace, IInv, TypeOK, World, ledgerVars, Maybe
  <2>3. RunTyped' /\ RunKnows'
        BY <1>5, <2>1 DEF Replace, IInv, RunTyped, RunKnows, LiveEntries, EntriesOf, Reversed,
                          ledgerVars
  <2>4. QED
        BY <1>1, <2>2, <2>3, NoEntry
<1>6. CASE SaveVersion
  <2>1. TypeOK'
        BY <1>1, <1>3, <1>6 DEF SaveVersion, IInv, TypeOK, World, Maybe
  <2>2. RunTyped' /\ RunKnows'
        BY <1>6 DEF SaveVersion, IInv, RunTyped, RunKnows, LiveEntries, EntriesOf, Reversed
  <2>3. QED
        BY <1>1, <2>1, <2>2, NoEntry
<1>7. QED
      BY <1>4, <1>5, <1>6 DEF CompareCarried, CompareContract, Skip, ReverseRefused, PostRefused

\* One entry more: what stands of a document afterwards.
LEMMA Appended ==
    ASSUME IInv, NEW e \in Entries, journal' = Append(journal, e)
    PROVE  /\ journal' \in Seq(Entries) /\ Len(journal) + 1 \in Nat \ {0}
           /\ DOMAIN journal' = DOMAIN journal \cup {Len(journal) + 1}
           /\ \A i \in DOMAIN journal : i \in Nat \ {0} /\ i < Len(journal) + 1
                                        /\ journal'[i] = journal[i]
           /\ journal'[Len(journal) + 1] = e
BY DEF IInv, TypeOK, Entries

\* reverse_entry of one that stands: it stands no longer, and everything else
\* is as it was.
LEMMA ReverseIInv == ASSUME IInv, ReverseLive PROVE IInv'
<1> DEFINE n == Len(journal) + 1
<1>1. PICK i \in live : journal' = Append(journal, Reversal(i)) /\ live' = live \ {i}
      BY DEF ReverseLive
<1>2. /\ pc = "reverse" /\ UNCHANGED <<World, payload, pc, todo, doc, rec, seen, basis, rejected>>
      /\ doc \in Posting /\ doc \in Docs /\ rec \in Record /\ live = LiveEntries(doc)
      BY DEF ReverseLive, IInv, RunTyped, RunKnows
<1>3. /\ i \in DOMAIN journal /\ journal[i].doc = doc /\ journal[i].reverses = 0 /\ ~Reversed(i)
      /\ journal[i] \in Entries
  <2>1. i \in LiveEntries(doc) /\ journal \in Seq(Entries)
        BY <1>1, <1>2 DEF IInv, TypeOK, Entries
  <2>2. QED
        BY <2>1 DEF LiveEntries, EntriesOf
<1>4. i \in Nat \ {0}
      BY <1>3 DEF IInv, TypeOK
<1>5. Reversal(i) \in Entries /\ Reversal(i).reverses = i /\ Reversal(i).doc = doc
      BY <1>2, <1>3, <1>4 DEF Reversal, Entry, Entries, Record
<1>6. /\ journal' \in Seq(Entries) /\ n \in Nat \ {0}
      /\ DOMAIN journal' = DOMAIN journal \cup {n}
      /\ \A k \in DOMAIN journal : k \in Nat \ {0} /\ k < n /\ journal'[k] = journal[k]
      /\ journal'[n] = Reversal(i)
      BY <1>1, <1>5, Appended
<1>7. \A d : LiveEntries(d)' = LiveEntries(d) \ {i}
  <2>1. \A k \in DOMAIN journal : Reversed(k)' <=> (Reversed(k) \/ k = i)
        BY <1>5, <1>6 DEF Reversed
  <2>2. QED
        BY <1>4, <1>5, <1>6, <2>1 DEF LiveEntries, EntriesOf
<1>8. TypeOK'
  <2>1. live' \subseteq DOMAIN journal'
        BY <1>1, <1>2, <1>6 DEF LiveEntries, EntriesOf
  <2>2. QED
        BY <1>2, <1>6, <2>1 DEF IInv, TypeOK, World, Entries
<1>9. RunTyped' /\ RunKnows'
      BY <1>1, <1>2, <1>7 DEF IInv, RunTyped, RunKnows
<1>10. Reverses'
  <2>1. SUFFICES ASSUME NEW k \in DOMAIN journal', journal'[k].reverses # 0
                 PROVE  LET r == journal'[k].reverses IN
                        /\ r \in DOMAIN journal' /\ r < k
                        /\ journal'[r].doc = journal'[k].doc /\ journal'[r].reverses = 0
        BY DEF Reverses
  <2>2. CASE k = n
        BY <1>3, <1>5, <1>6, <2>2
  <2>3. CASE k \in DOMAIN journal
        BY <1>6, <2>1, <2>3 DEF IInv, Reverses
  <2>4. QED
        BY <1>6, <2>2, <2>3
<1>11. ReversedOnce'
      BY <1>3, <1>5, <1>6 DEF IInv, ReversedOnce, Reversed
<1>12. OneStands'
      BY <1>7 DEF IInv, OneStands
<1>13. QED
      BY <1>8, <1>9, <1>10, <1>11, <1>12 DEF IInv

\* post_entry of the new version: nothing of its document stands, so it stands
\* alone.
LEMMA PostIInv == ASSUME IInv, Post PROVE IInv'
<1> DEFINE n == Len(journal) + 1
<1> DEFINE e == Entry(doc, rec.date, Worth(rec, basis), basis, 0)
<1>1. /\ pc = "post" /\ Finish("posted") /\ UNCHANGED <<World, payload>>
      /\ journal' \in {journal, Append(journal, e)}
      BY DEF Post
<1>2. doc \in Posting /\ rec \in Record /\ LiveEntries(doc) = {} /\ basis \in BOOLEAN
      BY <1>1 DEF IInv, RunTyped, RunKnows, TypeOK
<1>3. e \in Entries /\ e.doc = doc /\ e.reverses = 0
      BY <1>2, WorthTyped DEF Entry, Entries, Record
<1>4. payload' \in [Docs -> Maybe]
      BY <1>1 DEF IInv, TypeOK, Maybe
<1>5. CASE journal' = journal
  <2>1. journal' \in Seq(Entries)
        BY <1>5 DEF IInv, TypeOK, Entries
  <2>2. QED
        BY <1>1, <1>4, <1>5, <2>1, FinishTyped, NoEntry
<1>6. CASE journal' = Append(journal, e)
  <2>1. /\ journal' \in Seq(Entries) /\ n \in Nat \ {0}
        /\ DOMAIN journal' = DOMAIN journal \cup {n}
        /\ \A k \in DOMAIN journal : k \in Nat \ {0} /\ k < n /\ journal'[k] = journal[k]
        /\ journal'[n] = e
        BY <1>3, <1>6, Appended
  <2>2. TypeOK' /\ RunTyped' /\ RunKnows'
        BY <1>1, <1>4, <2>1, FinishTyped
  <2>3. Reverses'
        BY <1>3, <2>1 DEF IInv, Reverses
  <2>4. ReversedOnce'
        BY <1>3, <2>1 DEF IInv, ReversedOnce
  <2>5. \A d : LiveEntries(d)' \subseteq LiveEntries(d) \cup (IF d = doc THEN {n} ELSE {})
        BY <1>3, <2>1 DEF LiveEntries, EntriesOf, Reversed
  <2>6. OneStands'
        BY <1>2, <2>5 DEF IInv, OneStands
  <2>7. QED
        BY <2>2, <2>3, <2>4, <2>6 DEF IInv
<1>7. QED
      BY <1>1, <1>5, <1>6

LEMMA NextIInv == ASSUME IInv, [Next]_vars PROVE IInv'
<1>1. CASE UNCHANGED vars
  <2>1. TypeOK' /\ RunTyped' /\ RunKnows'
        BY <1>1 DEF vars, ledgerVars, runVars, IInv, TypeOK, RunTyped, RunKnows, LiveEntries,
                    EntriesOf, Reversed
  <2>2. QED
        BY <1>1, <2>1, NoEntry DEF vars, ledgerVars
<1>2. CASE Next
      BY <1>2, AroundIInv, RunIInv, CompareIInv, ReverseIInv, PostIInv DEF Next, Process
<1>3. QED
      BY <1>1, <1>2

\* The state of the import keeps its shape.
THEOREM TypeCorrect == Spec => []TypeOK
<1>1. IInv => TypeOK
      BY DEF IInv
<1>2. QED
      BY <1>1, InitIInv, NextIInv, PTL DEF Spec

\* A re-run replaces and never adds: however often runs die between two
\* writes, are refused by a closed period or find a document changed again, no
\* entry is reversed twice and no document has two entries standing.
THEOREM NeverTwiceHolds == Spec => []NeverTwice
<1>1. ASSUME IInv, NEW d \in Posting PROVE Cardinality(LiveEntries(d)) <= 1
  <2>1. CASE LiveEntries(d) = {}
    <3>1. Cardinality(LiveEntries(d)) = 0
          BY <2>1, FS_EmptySet
    <3>2. QED
          BY <3>1
  <2>2. CASE LiveEntries(d) # {}
    <3>1. PICK i : LiveEntries(d) = {i}
          BY <1>1, <2>2 DEF IInv, OneStands
    <3>2. Cardinality(LiveEntries(d)) = 1
          BY <3>1, FS_Singleton
    <3>3. QED
          BY <3>2
  <2>3. QED
        BY <2>1, <2>2
<1>2. IInv => NeverTwice
      BY <1>1 DEF NeverTwice, IInv, ReversedOnce
<1>3. QED
      BY <1>2, InitIInv, NextIInv, PTL DEF Spec

-----------------------------------------------------------------------------
\* Reversals cancel what they reverse: what stands of a document is its net.
NetStands ==
    \A d \in Posting :
        /\ LiveEntries(d) = {} => Net(d) = 0
        /\ \A i \in LiveEntries(d) : Net(d) = journal[i].amount

\* What stands was derived from the saved version.
StandsAsSaved ==
    \A d \in Posting : \A i \in LiveEntries(d) :
        /\ payload[d] \in Record
        /\ journal[i].amount = Worth(payload[d], journal[i].asset)

Busy == pc \in {"compare", "reverse", "post"}

\* The run is through with a document.
Done(d) == ~Present(todo[d]) /\ (Busy => doc # d)

\* What RunTells says of one document.
Told(d) == AsImported(d, seen[d], basis)

RunKept ==
    pc # "idle" =>
        /\ \A d \in Docs : todo[d] \in {seen[d], NotThere}
        /\ Busy => rec = seen[doc]
        /\ pc = "post" => payload[doc] = rec
        /\ \A d \in Posting \ Carried :
              Done(d) /\ Present(seen[d]) /\ d \notin rejected => Told(d)

JInv == IInv /\ NetStands /\ StandsAsSaved /\ RunKept

\* A document's entries are finitely many numbers.
LEMMA NetIsInt ==
    ASSUME IInv, NEW d
    PROVE  /\ IsFiniteSet(EntriesOf(d)) /\ Net(d) \in Int
           /\ \A i \in EntriesOf(d) : journal[i].amount \in Int
           /\ Net(d) = SumFunctionOnSet([i \in EntriesOf(d) |-> journal[i].amount], EntriesOf(d))
<1> DEFINE S == EntriesOf(d)
           f == [i \in S |-> journal[i].amount]
<1>1. journal \in Seq(Entries)
      BY DEF IInv, TypeOK, Entries
<1>2. DOMAIN journal = 1 .. Len(journal) /\ Len(journal) \in Nat
      BY <1>1
<1>3. IsFiniteSet(S)
  <2>1. IsFiniteSet(DOMAIN journal) /\ S \subseteq DOMAIN journal
        BY <1>2, FS_Interval DEF EntriesOf
  <2>2. QED
        BY <2>1, FS_Subset
<1>4. \A i \in DOMAIN journal : journal[i] \in Entries
      BY <1>1
<1>5. \A i \in S : journal[i].amount \in Int
      BY <1>4 DEF EntriesOf, Entries
<1>6. \A i \in S : f[i] \in Int
      BY <1>5
<1>7. Net(d) = SumFunctionOnSet(f, S)
      BY DEF Net, SumFunction
<1> HIDE DEF f, S
<1>8. SumFunctionOnSet(f, S) \in Int
      BY <1>3, <1>6, SumIsInt
<1>9. QED
      BY <1>3, <1>5, <1>7, <1>8 DEF f, S

\* An entry counts for its own document.
LEMMA NetMoves ==
    ASSUME IInv, NEW e \in Entries, journal' = Append(journal, e), NEW d
    PROVE  /\ e.doc = d => /\ Net(d)' = Net(d) + e.amount
                           /\ EntriesOf(d)' = EntriesOf(d) \cup {Len(journal) + 1}
           /\ e.doc # d => Net(d)' = Net(d) /\ EntriesOf(d)' = EntriesOf(d)
<1> DEFINE n == Len(journal) + 1
           S == EntriesOf(d)
           f == [i \in S |-> journal[i].amount]
           g == [i \in S \cup {n} |-> journal'[i].amount]
<1>1. /\ DOMAIN journal' = DOMAIN journal \cup {n} /\ n \notin DOMAIN journal
      /\ journal'[n] = e /\ \A i \in DOMAIN journal : journal'[i] = journal[i]
      BY Appended
<1>2. e.doc = d => EntriesOf(d)' = S \cup {n}
      BY <1>1 DEF EntriesOf
<1>3. e.doc # d => EntriesOf(d)' = S
      BY <1>1 DEF EntriesOf
<1>4. /\ IsFiniteSet(S) /\ \A i \in S : f[i] \in Int
      /\ Net(d) = SumFunctionOnSet(f, S)
      BY NetIsInt
<1>5. CASE e.doc = d
  <2>1. e.amount \in Int /\ n \notin S
        BY <1>1 DEF Entries, EntriesOf
  <2>2. g[n] \in Int /\ g[n] = e.amount
        BY <1>1, <2>1
  <2>3. \A i \in S : f[i] \in Int /\ g[i] = f[i]
        BY <1>1, <1>4 DEF EntriesOf
  <2>4. Net(d)' = SumFunctionOnSet(g, S \cup {n})
        BY <1>2, <1>5 DEF Net, SumFunction
  <2> HIDE DEF f, g, S, n
  <2>5. SumFunctionOnSet(g, S \cup {n}) = SumFunctionOnSet(f, S) + g[n]
    <3>1. \A y \in S \cup {n} : g[y] \in Int
          BY <2>2, <2>3
    <3>2. SumFunctionOnSet(g, S \cup {n}) = g[n] + SumFunctionOnSet(g, S)
          BY <1>4, <2>1, <3>1, SumAdd
    <3>3. SumFunctionOnSet(g, S) = SumFunctionOnSet(f, S)
          BY <1>4, <2>3, SumSame
    <3>4. SumFunctionOnSet(f, S) \in Int
          BY <1>4, SumIsInt
    <3>5. QED
          BY <2>2, <3>2, <3>3, <3>4
  <2>6. QED
        BY <1>2, <1>4, <1>5, <2>2, <2>4, <2>5 DEF S, n
<1>6. CASE e.doc # d
  <2>1. f = [i \in S |-> journal'[i].amount]
        BY <1>1 DEF EntriesOf
  <2>2. QED
        BY <1>3, <1>6, <2>1 DEF Net
<1>7. QED
      BY <1>5, <1>6

\* Nothing is said of a document by a step that writes no entry.
LEMMA SameBooks ==
    ASSUME journal' = journal, NEW d
    PROVE  /\ Net(d)' = Net(d) /\ EntriesOf(d)' = EntriesOf(d) /\ LiveEntries(d)' = LiveEntries(d)
           /\ seen' = seen /\ basis' = basis /\ payload'[d] = payload[d] => (Told(d)' <=> Told(d))
<1>1. /\ Net(d)' = Net(d) /\ EntriesOf(d)' = EntriesOf(d) /\ LiveEntries(d)' = LiveEntries(d)
      BY DEF Net, EntriesOf, LiveEntries, Reversed
<1>2. QED
      BY <1>1 DEF Told, AsImported, Hollow, OldAccounts, Worth, CostPair

LEMMA StandsStay ==
    ASSUME JInv, journal' = journal, \A d \in Posting : payload'[d] = payload[d] \/ LiveEntries(d) = {}
    PROVE  NetStands' /\ StandsAsSaved'
<1>1. NetStands'
      BY SameBooks DEF JInv, NetStands
<1>2. StandsAsSaved'
  <2>1. SUFFICES ASSUME NEW d \in Posting, NEW i \in LiveEntries(d)
                 PROVE  /\ payload'[d] \in Record
                        /\ journal[i].amount = Worth(payload'[d], journal[i].asset)
        BY SameBooks DEF StandsAsSaved, Worth
  <2>2. QED
        BY <2>1 DEF JInv, StandsAsSaved
<1>3. QED
      BY <1>1, <1>2

\* However a document ends, the run has told it: by rejecting it, or because it
\* holds what the run read.
LEMMA FinishKept ==
    ASSUME JInv, NEW outcome, Finish(outcome), Busy,
           \A d \in Posting \ Carried : d # doc /\ Told(d) => Told(d)',
           \A d \in Posting \ Carried : d = doc /\ outcome # "rejected" => Told(d)'
    PROVE  RunKept'
<1>1. /\ pc' = "next" /\ todo' = todo /\ seen' = seen
      /\ rejected' = IF outcome = "rejected" THEN rejected \cup {doc} ELSE rejected
      BY DEF Finish
<1>2. RunKept /\ pc # "idle"
      BY DEF JInv, Busy
<1>3. ASSUME NEW d \in Posting \ Carried, Done(d)', Present(seen[d]), d \notin rejected'
      PROVE  Told(d)'
  <2>1. CASE d = doc
        BY <1>1, <1>3, <2>1
  <2>2. CASE d # doc
    <3>1. Done(d) /\ d \notin rejected
          BY <1>1, <1>3, <2>2 DEF Done
    <3>2. QED
          BY <1>2, <1>3, <2>2, <3>1 DEF RunKept
  <2>3. QED
        BY <2>1, <2>2
<1>4. QED
      BY <1>1, <1>2, <1>3 DEF RunKept, Busy, Present

LEMMA AroundJInv ==
    ASSUME JInv,
           \/ \E d \in Docs : DocumentSynced(d) \/ DocumentDeleted(d)
           \/ ItemSynced \/ PeriodMoved
    PROVE  JInv'
<1>1. UNCHANGED <<ledgerVars, runVars>>
      BY DEF DocumentSynced, DocumentDeleted, ItemSynced, PeriodMoved, Change
<1>2. IInv'
      BY AroundIInv DEF JInv
<1>3. NetStands' /\ StandsAsSaved'
      BY <1>1, StandsStay DEF ledgerVars
<1>4. RunKept'
      BY <1>1, SameBooks DEF JInv, RunKept, Done, Busy, ledgerVars, runVars
<1>5. QED
      BY <1>2, <1>3, <1>4 DEF JInv

LEMMA RunJInv == ASSUME JInv, StartRun \/ EndRun \/ TakeNext \/ Crash PROVE JInv'
<1>1. UNCHANGED ledgerVars
      BY DEF StartRun, EndRun, TakeNext, Crash
<1>2. IInv'
      BY RunIInv DEF JInv
<1>3. NetStands' /\ StandsAsSaved'
      BY <1>1, StandsStay DEF ledgerVars
<1>4. RunKept'
  <2>1. CASE StartRun
        BY <2>1 DEF StartRun, RunKept, Done, Busy, Present
  <2>2. CASE EndRun \/ Crash
        BY <2>2 DEF EndRun, Crash, RunKept
  <2>3. CASE TakeNext
    <3>1. PICK d \in Waiting : /\ doc' = d /\ rec' = todo[d]
                               /\ todo' = [todo EXCEPT ![d] = NotThere]
          BY <2>3 DEF TakeNext
    <3>2. /\ pc = "next" /\ pc' = "compare" /\ seen' = seen /\ basis' = basis
          /\ rejected' = rejected /\ journal' = journal
          BY <1>1, <2>3 DEF TakeNext, ledgerVars
    <3>3. /\ d \in Docs /\ todo \in [Docs -> Maybe] /\ Present(todo[d])
          BY <3>1 DEF Waiting, JInv, IInv, TypeOK, Maybe
    <3>4. RunKept /\ todo[d] = seen[d]
          BY <3>2, <3>3 DEF JInv, RunKept, Present
    <3>5. \A c \in Docs : todo'[c] \in {seen'[c], NotThere}
          BY <3>1, <3>2, <3>3, <3>4 DEF RunKept
    <3>6. ASSUME NEW c \in Posting \ Carried, Done(c)', Present(seen[c]), c \notin rejected
          PROVE  Told(c)'
      <4>1. c # d /\ c \in Docs
            BY <3>1, <3>2, <3>6 DEF Done, Busy, Docs
      <4>2. todo'[c] = todo[c]
            BY <3>1, <3>3, <4>1
      <4>3. Done(c)
            BY <3>2, <3>6, <4>2 DEF Done, Busy, Present
      <4>4. Told(c)
            BY <3>2, <3>4, <3>6, <4>3 DEF RunKept
      <4>5. QED
            BY <1>1, <3>2, <4>4, SameBooks DEF ledgerVars
    <3>7. QED
          BY <3>1, <3>2, <3>4, <3>5, <3>6 DEF RunKept, Busy
  <2>4. QED
        BY <2>1, <2>2, <2>3
<1>5. QED
      BY <1>2, <1>3, <1>4 DEF JInv

\* What a skipped document holds: nothing that stands, or what its unchanged
\* payload posted to the accounts of then.
LEMMA SkippedTold ==
    ASSUME JInv, Skip PROVE Told(doc)
<1>1. /\ pc = "compare" /\ doc \in Posting \ Carried /\ EntriesOf(doc) # {} /\ payload[doc] = rec
      BY DEF Skip, Unchanged
<1>2. rec = seen[doc]
      BY <1>1 DEF JInv, RunKept, Busy
<1>3. CASE LiveEntries(doc) = {}
      BY <1>1, <1>2, <1>3 DEF Told, AsImported, Hollow
<1>4. CASE LiveEntries(doc) # {}
  <2>1. PICK i \in LiveEntries(doc) : TRUE
        BY <1>4
  <2>2. Net(doc) = journal[i].amount /\ journal[i].amount = Worth(payload[doc], journal[i].asset)
        BY <1>1, <2>1 DEF JInv, NetStands, StandsAsSaved
  <2>3. Net(doc) = Worth(seen[doc], journal[i].asset)
        BY <1>1, <1>2, <2>2
  <2>4. QED
        BY <2>1, <2>3 DEF Told, AsImported, OldAccounts
<1>5. QED
      BY <1>3, <1>4

LEMMA CompareJInv ==
    ASSUME JInv,
           \/ CompareCarried \/ CompareContract \/ Skip \/ Replace
           \/ ReverseRefused \/ SaveVersion \/ PostRefused
    PROVE  JInv'
<1>1. journal' = journal /\ Busy /\ seen' = seen /\ basis' = basis
      BY DEF CompareCarried, CompareContract, Skip, Replace, ReverseRefused, SaveVersion,
             PostRefused, ledgerVars, Busy, Finish
<1>2. IInv'
      BY CompareIInv DEF JInv
<1>3. \A d \in Posting : payload'[d] = payload[d] \/ LiveEntries(d) = {}
  <2>1. payload \in [Docs -> Maybe] /\ Posting \subseteq Docs /\ Posting \cap Contracts = {}
        BY ImportAssumption DEF JInv, IInv, TypeOK, Maybe, Docs
  <2>2. CASE CompareContract
        BY <2>1, <2>2 DEF CompareContract
  <2>3. CASE SaveVersion
    <3>1. LiveEntries(doc) = {} /\ payload' = [payload EXCEPT ![doc] = rec]
          BY <2>3 DEF SaveVersion, JInv, IInv, RunKnows
    <3>2. QED
          BY <2>1, <3>1
  <2>4. CASE CompareCarried \/ Skip \/ Replace \/ ReverseRefused \/ PostRefused
        BY <2>4 DEF CompareCarried, Skip, Replace, ReverseRefused, PostRefused, ledgerVars
  <2>5. QED
        BY <2>2, <2>3, <2>4
<1>4. NetStands' /\ StandsAsSaved'
      BY <1>1, <1>3, StandsStay
<1>5. \A d \in Posting : payload'[d] = payload[d] => (Told(d)' <=> Told(d))
      BY <1>1, SameBooks
<1>6. RunKept'
  <2>1. CASE CompareCarried \/ ReverseRefused \/ PostRefused
    <3>1. Finish("rejected") /\ payload' = payload
          BY <2>1 DEF CompareCarried, ReverseRefused, PostRefused, ledgerVars
    <3>2. QED
          BY <1>1, <1>5, <3>1, FinishKept
  <2>2. CASE CompareContract
    <3>1. Finish("saved") /\ doc \notin Posting
          BY <2>2, ImportAssumption DEF CompareContract
    <3>2. \A d \in Posting : payload'[d] = payload[d]
          BY <2>2, <3>1, ImportAssumption DEF CompareContract, JInv, IInv, TypeOK, Docs
    <3>3. QED
          BY <1>1, <1>5, <3>1, <3>2, FinishKept
  <2>3. CASE Skip
    <3>1. Finish("skipped") /\ Told(doc) /\ payload' = payload
          BY <2>3, SkippedTold DEF Skip, ledgerVars
    <3>2. QED
          BY <1>1, <1>5, <3>1, FinishKept
  <2>4. CASE Replace \/ SaveVersion
    <3>1. /\ UNCHANGED <<todo, doc, rec, rejected>> /\ pc' \in {"reverse", "post"} /\ Busy' /\ RunKept
          /\ pc # "idle"
          BY <1>1, <2>4 DEF Replace, SaveVersion, Busy, JInv
    <3>2. pc' = "post" => payload'[doc] = rec
          BY <2>4 DEF Replace, SaveVersion, JInv, IInv, RunTyped, TypeOK
    <3>3. \A d \in Posting : d # doc => payload'[d] = payload[d]
      <4>1. CASE Replace
            BY <4>1 DEF Replace, ledgerVars
      <4>2. CASE SaveVersion
            BY <4>2, ImportAssumption DEF SaveVersion, JInv, IInv, TypeOK, Docs
      <4>3. QED
            BY <2>4, <4>1, <4>2
    <3>4. QED
          BY <1>1, <1>5, <3>1, <3>2, <3>3 DEF RunKept, Done
  <2>5. QED
        BY <2>1, <2>2, <2>3, <2>4
<1>7. QED
      BY <1>2, <1>4, <1>6 DEF JInv


\* reverse_entry of one that stands: it stands no longer, and what stands of
\* any other document is as it was.
LEMMA ReversedStands ==
    ASSUME IInv, ReverseLive
    PROVE  \E i \in LiveEntries(doc) :
              /\ journal' = Append(journal, Reversal(i))
              /\ Reversal(i) \in Entries /\ journal[i] \in Entries
              /\ \A d : LiveEntries(d)' = LiveEntries(d) \ {i}
<1> DEFINE n == Len(journal) + 1
<1>1. PICK i \in live : journal' = Append(journal, Reversal(i))
      BY DEF ReverseLive
<1>2. doc \in Posting /\ rec \in Record /\ live = LiveEntries(doc)
      BY DEF ReverseLive, IInv, RunTyped, RunKnows
<1>3. i \in DOMAIN journal /\ journal[i] \in Entries /\ i \in Nat \ {0}
  <2>1. i \in LiveEntries(doc) /\ journal \in Seq(Entries)
        BY <1>1, <1>2 DEF IInv, TypeOK, Entries
  <2>2. QED
        BY <2>1 DEF LiveEntries, EntriesOf
<1>4. Reversal(i) \in Entries /\ Reversal(i).reverses = i
      BY <1>2, <1>3 DEF Reversal, Entry, Entries, Record
<1>5. /\ n \in Nat \ {0} /\ DOMAIN journal' = DOMAIN journal \cup {n}
      /\ \A k \in DOMAIN journal : k < n /\ journal'[k] = journal[k]
      /\ journal'[n] = Reversal(i)
      BY <1>1, <1>4, Appended
<1>6. \A k \in DOMAIN journal : Reversed(k)' <=> (Reversed(k) \/ k = i)
      BY <1>4, <1>5 DEF Reversed
<1>7. \A d : LiveEntries(d)' = LiveEntries(d) \ {i}
      BY <1>3, <1>4, <1>5, <1>6 DEF LiveEntries, EntriesOf
<1>8. QED
      BY <1>1, <1>2, <1>3, <1>4, <1>7

LEMMA ReverseJInv == ASSUME JInv, ReverseLive PROVE JInv'
<1>1. PICK i \in LiveEntries(doc) :
          /\ journal' = Append(journal, Reversal(i))
          /\ Reversal(i) \in Entries /\ journal[i] \in Entries
          /\ \A d : LiveEntries(d)' = LiveEntries(d) \ {i}
      BY ReversedStands DEF JInv
<1>2. /\ IInv' /\ IInv /\ UNCHANGED <<payload, pc, todo, doc, rec, seen, basis, rejected>>
      /\ pc = "reverse" /\ doc \in Posting
      BY ReverseIInv DEF JInv, ReverseLive, IInv, RunTyped
<1>3. Reversal(i).doc = doc /\ Reversal(i).amount = -journal[i].amount
      BY DEF Reversal, Entry
<1>4. \A k \in DOMAIN journal : journal'[k] = journal[k]
      BY <1>1, <1>2, Appended
<1>5. \A d : LiveEntries(d) \subseteq DOMAIN journal
      BY DEF LiveEntries, EntriesOf
<1>6. Net(doc)' = 0 /\ LiveEntries(doc)' = {}
  <2>1. Net(doc) = journal[i].amount /\ journal[i].amount \in Int
        BY <1>1, <1>2 DEF JInv, NetStands, Entries
  <2>2. Net(doc)' = Net(doc) + Reversal(i).amount
    <3>1. \A d : d = doc => Net(d)' = Net(d) + Reversal(i).amount
          BY <1>1, <1>2, <1>3, NetMoves
    <3>2. QED
          BY <1>2, <3>1
  <2>3. LiveEntries(doc)' = LiveEntries(doc) \ {i}
        BY <1>1, <1>2
  <2>4. QED
        BY <1>1, <1>2, <1>3, <2>1, <2>2, <2>3 DEF IInv, OneStands
<1>7. ASSUME NEW d \in Posting, d # doc
      PROVE  Net(d)' = Net(d) /\ EntriesOf(d)' = EntriesOf(d) /\ LiveEntries(d)' = LiveEntries(d)
  <2>1. i \notin LiveEntries(d)
        BY <1>7 DEF LiveEntries, EntriesOf
  <2>2. QED
        BY <1>1, <1>2, <1>3, <1>7, <2>1, NetMoves
<1>8. NetStands'
  <2>1. SUFFICES ASSUME NEW d \in Posting
                 PROVE  /\ LiveEntries(d)' = {} => Net(d)' = 0
                        /\ \A k \in LiveEntries(d)' : Net(d)' = journal'[k].amount
        BY DEF NetStands
  <2>2. CASE d = doc
        BY <1>2, <1>6, <2>2
  <2>3. CASE d # doc
        BY <1>4, <1>5, <1>7, <2>3 DEF JInv, NetStands
  <2>4. QED
        BY <2>2, <2>3
<1>9. StandsAsSaved'
      BY <1>1, <1>2, <1>4, <1>5 DEF JInv, StandsAsSaved, Worth
<1>10. RunKept'
  <2>1. ASSUME NEW d \in Posting \ Carried, Done(d)', Told(d) PROVE Told(d)'
    <3>1. d # doc
          BY <1>2, <2>1 DEF Done, Busy
    <3>2. QED
          BY <1>2, <1>4, <1>5, <1>7, <2>1, <3>1 DEF Told, AsImported, Hollow, OldAccounts, Worth, CostPair
  <2>2. QED
        BY <1>2, <2>1 DEF JInv, RunKept, Done, Busy
<1>11. QED
       BY <1>2, <1>8, <1>9, <1>10 DEF JInv

\* post_entry of the new version: it stands, alone, unless it is worth nothing.
LEMMA PostedStands ==
    ASSUME IInv, Post, Worth(rec, basis) # 0
    PROVE  \E e \in Entries :
              /\ journal' = Append(journal, e)
              /\ e.doc = doc /\ e.amount = Worth(rec, basis) /\ e.asset = basis /\ e.reverses = 0
              /\ \A d : LiveEntries(d)' = IF d = doc THEN {Len(journal) + 1} ELSE LiveEntries(d)
<1> DEFINE n == Len(journal) + 1
           e == Entry(doc, rec.date, Worth(rec, basis), basis, 0)
<1>1. pc = "post" /\ Finish("posted") /\ journal' = Append(journal, e)
      BY DEF Post
<1>2. doc \in Posting /\ rec \in Record /\ LiveEntries(doc) = {} /\ basis \in BOOLEAN
      BY <1>1 DEF IInv, RunTyped, RunKnows, TypeOK
<1>3. /\ e \in Entries /\ e.doc = doc /\ e.amount = Worth(rec, basis) /\ e.asset = basis
      /\ e.reverses = 0
      BY <1>2, WorthTyped DEF Entry, Entries, Record
<1> HIDE DEF e
<1>4. /\ n \in Nat \ {0} /\ DOMAIN journal' = DOMAIN journal \cup {n} /\ n \notin DOMAIN journal
      /\ \A k \in DOMAIN journal : k # 0 /\ journal'[k] = journal[k]
      /\ journal'[n] = e
      BY <1>1, <1>3, Appended
<1>5. \A k \in DOMAIN journal : Reversed(k)' <=> Reversed(k)
      BY <1>3, <1>4 DEF Reversed
<1>6. \A k : k = n => ~Reversed(k)'
  <2>1. \A k \in DOMAIN journal : journal[k].reverses # n
        BY <1>4 DEF IInv, Reverses
  <2>2. QED
        BY <1>3, <1>4, <2>1 DEF Reversed
<1>7. \A d : LiveEntries(d)' = IF d = doc THEN {n} ELSE LiveEntries(d)
      BY <1>2, <1>3, <1>4, <1>5, <1>6 DEF LiveEntries, EntriesOf
<1>8. QED
      BY <1>1, <1>3, <1>7

LEMMA PostJInv == ASSUME JInv, Post PROVE JInv'
<1>1. /\ IInv' /\ IInv /\ UNCHANGED <<payload, seen, basis, todo>> /\ pc = "post" /\ Finish("posted")
      /\ doc \in Posting /\ rec \in Record /\ LiveEntries(doc) = {} /\ basis \in BOOLEAN
      BY PostIInv DEF JInv, Post, IInv, RunTyped, RunKnows, Finish, TypeOK
<1>2. Net(doc) = 0 /\ payload[doc] = rec /\ rec = seen[doc]
      BY <1>1 DEF JInv, NetStands, RunKept, Busy
<1>3. Busy
      BY <1>1 DEF Busy
<1>4. CASE Worth(rec, basis) = 0
  <2>1. journal' = journal
        BY <1>4 DEF Post
  <2>2. \A d : Told(d)' <=> Told(d)
        BY <1>1, <2>1, SameBooks
  <2>3. Told(doc)
        BY <1>2, <1>4 DEF Told, AsImported
  <2>4. RunKept'
        BY <1>1, <1>3, <2>2, <2>3, FinishKept
  <2>5. NetStands' /\ StandsAsSaved'
        BY <1>1, <2>1, StandsStay
  <2>6. QED
        BY <1>1, <2>4, <2>5 DEF JInv
<1>5. CASE Worth(rec, basis) # 0
  <2>1. PICK e \in Entries :
            /\ journal' = Append(journal, e)
            /\ e.doc = doc /\ e.amount = Worth(rec, basis) /\ e.asset = basis /\ e.reverses = 0
            /\ \A d : LiveEntries(d)' = IF d = doc THEN {Len(journal) + 1} ELSE LiveEntries(d)
        BY <1>1, <1>5, PostedStands
  <2>2. /\ \A k \in DOMAIN journal : journal'[k] = journal[k]
        /\ journal'[Len(journal) + 1] = e
        BY <1>1, <2>1, Appended
  <2>3. \A d : LiveEntries(d) \subseteq DOMAIN journal
        BY DEF LiveEntries, EntriesOf
  <2>4. \A d : d = doc => Net(d)' = e.amount
    <3>1. \A d : d = doc => Net(d)' = Net(d) + e.amount
          BY <1>1, <2>1, NetMoves
    <3>2. QED
          BY <1>2, <2>1, <3>1 DEF Entries
  <2>5. \A d \in Posting : d # doc => Net(d)' = Net(d) /\ EntriesOf(d)' = EntriesOf(d)
        BY <1>1, <2>1, NetMoves
  <2>6. \A d : d = doc => LiveEntries(d)' = {Len(journal) + 1}
        BY <2>1
  <2>7. NetStands'
    <3>1. SUFFICES ASSUME NEW d \in Posting
                   PROVE  /\ LiveEntries(d)' = {} => Net(d)' = 0
                          /\ \A k \in LiveEntries(d)' : Net(d)' = journal'[k].amount
          BY DEF NetStands
    <3>2. CASE d = doc
          BY <2>2, <2>4, <2>6, <3>2
    <3>3. CASE d # doc
          BY <2>1, <2>2, <2>3, <2>5, <3>3 DEF JInv, NetStands
    <3>4. QED
          BY <3>2, <3>3
  <2>8. StandsAsSaved'
    <3>1. SUFFICES ASSUME NEW d \in Posting, NEW k \in LiveEntries(d)'
                   PROVE  /\ payload'[d] \in Record
                          /\ journal'[k].amount = Worth(payload'[d], journal'[k].asset)
          BY DEF StandsAsSaved, Worth
    <3>2. CASE d = doc
          BY <1>1, <1>2, <2>1, <2>2, <2>6, <3>1, <3>2
    <3>3. CASE d # doc
          BY <1>1, <2>1, <2>2, <2>3, <3>1, <3>3 DEF JInv, StandsAsSaved
    <3>4. QED
          BY <3>2, <3>3
  <2>9. RunKept'
    <3>1. ASSUME NEW d \in Posting \ Carried, d # doc, Told(d) PROVE Told(d)'
          BY <1>1, <2>1, <2>2, <2>3, <2>5, <3>1 DEF Told, AsImported, Hollow, OldAccounts, Worth, CostPair
    <3>2. ASSUME NEW d \in Posting \ Carried, d = doc PROVE Told(d)'
          BY <1>1, <1>2, <2>1, <2>4, <3>2 DEF Told, AsImported, Worth, CostPair
    <3>3. QED
          BY <1>1, <1>3, <3>1, <3>2, FinishKept
  <2>10. QED
         BY <1>1, <2>7, <2>8, <2>9 DEF JInv
<1>6. QED
      BY <1>4, <1>5

LEMMA InitJInv == Init => JInv
<1>1. SUFFICES ASSUME Init PROVE JInv
      OBVIOUS
<1>2. journal = <<>> /\ DOMAIN journal = {} /\ pc = "idle"
      BY <1>1 DEF Init
<1>3. \A d : LiveEntries(d) = {} /\ EntriesOf(d) = {}
      BY <1>2 DEF LiveEntries, EntriesOf
<1>4. \A d : Net(d) = 0
      BY <1>3, SumEmpty DEF Net, SumFunction
<1>5. QED
      BY <1>1, <1>2, <1>3, <1>4, InitIInv DEF JInv, NetStands, StandsAsSaved, RunKept

LEMMA NextJInv == ASSUME JInv, [Next]_vars PROVE JInv'
<1>1. CASE UNCHANGED vars
  <2>1. IInv'
        BY <1>1, NextIInv DEF JInv
  <2>2. UNCHANGED <<payload, journal, pc, todo, doc, rec, seen, basis, rejected>>
        BY <1>1 DEF vars, ledgerVars, runVars
  <2>3. NetStands' /\ StandsAsSaved'
        BY <2>2, StandsStay
  <2>4. RunKept'
        BY <2>2, SameBooks DEF JInv, RunKept, Done, Busy
  <2>5. QED
        BY <2>1, <2>3, <2>4 DEF JInv
<1>2. CASE Next
      BY <1>2, AroundJInv, RunJInv, CompareJInv, ReverseJInv, PostJInv DEF Next, Process
<1>3. QED
      BY <1>1, <1>2

\* Whatever earlier runs were refused or died doing, a run that is through
\* with the documents has told every one it did not reject: it holds what a
\* first import would have posted, at the cost of now, or this very version was
\* saved and its entry refused, or what stands was posted to accounts the item
\* no longer has.
THEOREM RunTellsHolds == Spec => []RunTells
<1>1. JInv => RunTells
  <2>1. SUFFICES ASSUME JInv, RunIsOver, NEW d \in Posting \ Carried,
                        Present(seen[d]), d \notin rejected
                 PROVE  Told(d)
        BY DEF RunTells, Told
  <2>2. pc = "next" /\ ~Present(todo[d])
        BY <2>1 DEF RunIsOver, Waiting, Docs
  <2>3. QED
        BY <2>1, <2>2 DEF JInv, RunKept, Done, Busy
<1>2. QED
      BY <1>1, InitJInv, NextJInv, PTL DEF Spec

=============================================================================
