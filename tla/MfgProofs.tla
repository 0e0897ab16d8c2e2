----------------------------- MODULE MfgProofs ------------------------------
(***************************************************************************)
(* Proofs about manufacturing, for every shop, every number of processes   *)
(* and every crash: a build row is never without its posted entry, freight *)
(* is allocated to the cent, the average of a material is its value over   *)
(* its quantity, and the stock agrees with account 1300 wherever every     *)
(* command ran to its end.                                                 *)
(***************************************************************************)
EXTENDS Mfg, CommonProofs, SequenceTheorems, TLAPS


\* Every table is a sequence, whatever its rows are.
IsSeq(s) == s \in Seq({s[i] : i \in DOMAIN s})

\* Rows are only ever appended.
Extends(t, s) ==
    /\ DOMAIN s \subseteq DOMAIN t
    /\ \A i \in DOMAIN s : t[i] = s[i]

LEMMA Appended ==
    ASSUME NEW s, IsSeq(s), NEW e
    PROVE  /\ IsSeq(Append(s, e)) /\ Extends(Append(s, e), s)
           /\ DOMAIN Append(s, e) = DOMAIN s \cup {Len(s) + 1}
           /\ Append(s, e)[Len(s) + 1] = e
           /\ Len(s) + 1 \notin DOMAIN s
<1>1. DEFINE S == {s[i] : i \in DOMAIN s}
<1>2. DEFINE T == S \cup {e}
<1>3. s \in Seq(T) /\ e \in T
      BY DEF IsSeq
<1>4. /\ Append(s, e) \in Seq(T)
      /\ Len(Append(s, e)) = Len(s) + 1
      /\ \A i \in 1 .. Len(s) : Append(s, e)[i] = s[i]
      /\ Append(s, e)[Len(s) + 1] = e
      BY <1>3
<1>5. DOMAIN s = 1 .. Len(s) /\ Len(s) \in Nat
      BY <1>3
<1>6. DOMAIN Append(s, e) = 1 .. Len(s) + 1
      BY <1>4, <1>5
<1>7. IsSeq(Append(s, e))
      BY <1>4, <1>6 DEF IsSeq
<1>8. QED
      BY <1>4, <1>5, <1>6, <1>7 DEF Extends

-----------------------------------------------------------------------------
Shaped(j) ==
    /\ DOMAIN j = {"lines", "total", "freight", "seen", "at", "doc", "number", "build"}
    /\ DOMAIN j.doc = {"kind", "finished", "raw", "applied"}

\* The document a command saved says what the command remembers.
Saved(j) == j.number \in DOMAIN documents /\ documents[j.number] = j.doc

Posted(j) == Saved(j) /\ \E i \in DOMAIN entries : entries[i] = j.number

\* Which commands reach a label.
KindsAt(label) ==
    CASE label = "idle" -> {"none"}
      [] label \in {"save", "post"} -> {"build", "receipt", "adjustment"}
      [] label \in {"read", "position", "lot"} -> {"receipt"}
      [] label \in {"readSheet", "relieve", "record", "consume"} -> {"build"}

Labels == {"idle", "save", "post", "read", "position", "lot", "readSheet", "relieve", "record",
           "consume"}

\* A command at a label after the posting has its document saved and posted.
OnTrack(j, label) ==
    /\ Shaped(j) /\ label \in Labels /\ j.doc.kind \in KindsAt(label)
    /\ label = "post" => Saved(j)
    /\ label \in {"relieve", "record", "consume"} => Posted(j)

Backed(b) ==
    /\ b.document \in DOMAIN documents
    /\ \E j \in DOMAIN entries : entries[j] = b.document
    /\ b.raw = documents[b.document].raw
    /\ b.variance = Plug(documents[b.document])

\* Every build row is backed, because every command that may write one has
\* posted what it is about to record.
MInv ==
    /\ IsSeq(documents) /\ IsSeq(entries) /\ IsSeq(builds)
    /\ pc = [p \in Procs |-> pc[p]] /\ job = [p \in Procs |-> job[p]]
    /\ \A i \in DOMAIN entries : entries[i] \in DOMAIN documents
    /\ \A p \in Procs : OnTrack(job[p], pc[p])
    /\ \A i \in DOMAIN builds : Backed(builds[i])

-----------------------------------------------------------------------------
\* Where a command goes after a write.
LEMMA AfterWrite ==
    ASSUME NEW p \in Procs
    PROVE  /\ job[p].doc.kind = "build" =>
                /\ After(p, "save") = "post" /\ After(p, "post") = "relieve"
                /\ After(p, "relieve") = "record" /\ After(p, "record") = "consume"
           /\ job[p].doc.kind = "receipt" =>
                /\ After(p, "position") = "save" /\ After(p, "save") = "post"
                /\ After(p, "post") = "idle"
           /\ job[p].doc.kind = "adjustment" =>
                After(p, "save") = "post" /\ After(p, "post") = "idle"
<1>1. CASE job[p].doc.kind = "build"
  <2> DEFINE order == <<"save", "post", "relieve", "record", "consume">>
  <2>1. Writes(job[p].doc.kind) = order
        BY <1>1 DEF Writes
  <2>2. /\ (CHOOSE k \in DOMAIN order : order[k] = "save") = 1
        /\ (CHOOSE k \in DOMAIN order : order[k] = "post") = 2
        /\ (CHOOSE k \in DOMAIN order : order[k] = "relieve") = 3
        /\ (CHOOSE k \in DOMAIN order : order[k] = "record") = 4
    <3>1. DOMAIN order = {1, 2, 3, 4, 5}
          OBVIOUS
    <3>2. order[1] = "save" /\ order[2] = "post" /\ order[3] = "relieve"
          /\ order[4] = "record" /\ order[5] = "consume"
          OBVIOUS
    <3>3. QED
          BY <3>1, <3>2
  <2>3. Len(order) = 5
        OBVIOUS
  <2>4. QED
        BY <1>1, <2>1, <2>2, <2>3 DEF After
<1>2. CASE job[p].doc.kind = "receipt"
  <2> DEFINE order == <<"position", "save", "post">>
  <2>1. Writes(job[p].doc.kind) = order
        BY <1>2 DEF Writes
  <2>2. /\ (CHOOSE k \in DOMAIN order : order[k] = "position") = 1
        /\ (CHOOSE k \in DOMAIN order : order[k] = "save") = 2
        /\ (CHOOSE k \in DOMAIN order : order[k] = "post") = 3
        OBVIOUS
  <2>3. Len(order) = 3
        OBVIOUS
  <2>4. QED
        BY <1>2, <2>1, <2>2, <2>3 DEF After
<1>3. CASE job[p].doc.kind = "adjustment"
  <2> DEFINE order == <<"save", "post">>
  <2>1. Writes(job[p].doc.kind) = order
        BY <1>3 DEF Writes
  <2>2. /\ (CHOOSE k \in DOMAIN order : order[k] = "save") = 1
        /\ (CHOOSE k \in DOMAIN order : order[k] = "post") = 2
        OBVIOUS
  <2>3. Len(order) = 2
        OBVIOUS
  <2>4. QED
        BY <1>3, <2>1, <2>2, <2>3 DEF After
<1>4. QED
      BY <1>1, <1>2, <1>3

\* A step of one process: the tables only grow, so what the others remember of
\* them stays true.
LEMMA StepOf ==
    ASSUME MInv, NEW p \in Procs,
           pc' = [q \in Procs |-> pc'[q]], job' = [q \in Procs |-> job'[q]],
           \A q \in Procs \ {p} : pc'[q] = pc[q] /\ job'[q] = job[q],
           IsSeq(documents'), Extends(documents', documents),
           IsSeq(entries'), Extends(entries', entries), IsSeq(builds'),
           \A i \in DOMAIN entries' : entries'[i] \in DOMAIN documents',
           OnTrack(job[p], pc[p])',
           \A i \in DOMAIN builds' :
               (i \in DOMAIN builds /\ builds'[i] = builds[i]) \/ Backed(builds[i])'
    PROVE  MInv'
<1>1. ASSUME NEW q \in Procs PROVE OnTrack(job[q], pc[q])'
  <2>1. CASE q = p
        BY <2>1
  <2>2. CASE q # p
    <3>1. OnTrack(job[q], pc[q]) /\ pc'[q] = pc[q] /\ job'[q] = job[q]
          BY <2>2 DEF MInv
    <3>2. QED
          BY <3>1 DEF OnTrack, Saved, Posted, Extends
  <2>3. QED
        BY <2>1, <2>2
<1>2. ASSUME NEW i \in DOMAIN builds' PROVE Backed(builds[i])'
  <2>1. CASE i \in DOMAIN builds /\ builds'[i] = builds[i]
    <3>1. Backed(builds[i])
          BY <2>1 DEF MInv
    <3>2. QED
          BY <2>1, <3>1 DEF Backed, Extends, Plug
  <2>2. QED
        BY <1>2, <2>1
<1>3. QED
      BY <1>1, <1>2 DEF MInv

LEMMA ExtendsItself == ASSUME NEW s PROVE Extends(s, s)
BY DEF Extends

\* A step that writes no document, no entry and no build row.
LEMMA QuietStep ==
    ASSUME MInv, NEW p \in Procs,
           pc' = [q \in Procs |-> pc'[q]], job' = [q \in Procs |-> job'[q]],
           \A q \in Procs \ {p} : pc'[q] = pc[q] /\ job'[q] = job[q],
           UNCHANGED <<documents, entries, builds>>,
           Shaped(job'[p]), pc'[p] \in Labels, job'[p].doc.kind \in KindsAt(pc'[p]),
           pc'[p] \notin {"post", "relieve", "record", "consume"}
    PROVE  MInv'
BY StepOf, ExtendsItself DEF MInv, OnTrack

LEMMA Fields ==
    ASSUME MInv, NEW p \in Procs
    PROVE  /\ Shaped(job[p]) /\ job[p].doc.kind \in KindsAt(pc[p]) /\ pc[p] \in Labels
           /\ Shaped(NoJob) /\ NoJob.doc.kind = "none" /\ DOMAIN job = Procs /\ DOMAIN pc = Procs
BY DEF MInv, OnTrack, Shaped, NoJob, NoDoc

\* Giving up, at any point, leaves only what is written.
LEMMA FinishStep ==
    ASSUME MInv, NEW p \in Procs, Finish(p), UNCHANGED <<documents, entries, builds>>
    PROVE  MInv'
BY QuietStep, Fields DEF Finish, Goto, Labels, KindsAt, MInv

\* A command starts by reading.
LEMMA StartStep ==
    ASSUME MInv, NEW p \in Procs,
           ReceiveMaterials(p) \/ CompleteBuild(p) \/ AdjustInventory(p) \/ LockOrReopen(p)
    PROVE  MInv'
<1>1. UNCHANGED <<documents, entries, builds>>
      BY DEF ReceiveMaterials, CompleteBuild, AdjustInventory, LockOrReopen, tables
<1>2. CASE ReceiveMaterials(p)
  <2>1. PICK r \in scope.receipts :
            /\ pc' = [pc EXCEPT ![p] = "read"]
            /\ job' = [job EXCEPT ![p].lines = r.lines, ![p].total = r.freight,
                                  ![p].freight = AllocateFreight(r.lines, r.freight),
                                  ![p].doc.kind = "receipt"]
        BY <1>2 DEF ReceiveMaterials, Goto
  <2>2. job'[p].doc.kind = "receipt" /\ Shaped(job'[p])
        BY <2>1, Fields DEF Shaped
  <2>3. /\ pc' = [q \in Procs |-> pc'[q]] /\ pc'[p] = "read"
        /\ \A q \in Procs \ {p} : pc'[q] = pc[q]
        BY <2>1, Fields
  <2>4. /\ job' = [q \in Procs |-> job'[q]]
        /\ \A q \in Procs \ {p} : job'[q] = job[q]
        BY <2>1, Fields
  <2>5. QED
        BY <1>1, <2>2, <2>3, <2>4, QuietStep DEF Labels, KindsAt
<1>3. CASE CompleteBuild(p)
  <2>1. PICK b \in scope.builds :
            /\ pc' = [pc EXCEPT ![p] = "readSheet"]
            /\ job' = [job EXCEPT ![p].lines = b.uses, ![p].build = b.built,
                                  ![p].doc.kind = "build"]
        BY <1>3 DEF CompleteBuild, Goto
  <2>2. job'[p].doc.kind = "build" /\ Shaped(job'[p])
        BY <2>1, Fields DEF Shaped
  <2>3. /\ pc' = [q \in Procs |-> pc'[q]] /\ pc'[p] = "readSheet"
        /\ \A q \in Procs \ {p} : pc'[q] = pc[q]
        BY <2>1, Fields
  <2>4. /\ job' = [q \in Procs |-> job'[q]]
        /\ \A q \in Procs \ {p} : job'[q] = job[q]
        BY <2>1, Fields
  <2>5. QED
        BY <1>1, <2>2, <2>3, <2>4, QuietStep DEF Labels, KindsAt
<1>4. CASE AdjustInventory(p)
  <2>1. PICK n \in scope.counts :
            /\ pc' = [pc EXCEPT ![p] = "save"]
            /\ job' = [job EXCEPT ![p].doc.kind = "adjustment", ![p].doc.raw = n]
        BY <1>4 DEF AdjustInventory, Goto
  <2>2. job'[p].doc.kind = "adjustment" /\ Shaped(job'[p])
        BY <2>1, Fields DEF Shaped
  <2>3. /\ pc' = [q \in Procs |-> pc'[q]] /\ pc'[p] = "save"
        /\ \A q \in Procs \ {p} : pc'[q] = pc[q]
        BY <2>1, Fields
  <2>4. /\ job' = [q \in Procs |-> job'[q]]
        /\ \A q \in Procs \ {p} : job'[q] = job[q]
        BY <2>1, Fields
  <2>5. QED
        BY <1>1, <2>2, <2>3, <2>4, QuietStep DEF Labels, KindsAt
<1>5. CASE LockOrReopen(p)
  <2>1. pc[p] = "idle" /\ UNCHANGED <<pc, job>>
        BY <1>5 DEF LockOrReopen, Command
  <2>2. QED
        BY <1>1, <2>1, QuietStep, Fields DEF MInv
<1>6. QED
      BY <1>2, <1>3, <1>4, <1>5

\* Reading, moving a material row and writing a lot say nothing of builds.
LEMMA ReceiptStep ==
    ASSUME MInv, NEW p \in Procs,
           ReadMaterial(p) \/ ReceiptRead(p) \/ ReceiveLine(p) \/ InsertMaterialLot(p)
    PROVE  MInv'
<1>1. UNCHANGED <<documents, entries, builds>>
      BY DEF ReadMaterial, ReceiptRead, ReceiveLine, InsertMaterialLot, tables
<1>2. CASE ReadMaterial(p)
  <2>1. pc[p] \in {"read", "readSheet"} /\ UNCHANGED pc
        BY <1>2 DEF ReadMaterial
  <2>2. job' = [job EXCEPT ![p].seen = Append(@, position[Reads(p)[Len(@) + 1]])]
        BY <1>2 DEF ReadMaterial
  <2>3. job'[p].doc = job[p].doc /\ Shaped(job'[p])
        BY <2>2, Fields DEF Shaped
  <2>4. QED
        BY <1>1, <2>1, <2>2, <2>3, QuietStep, Fields DEF MInv
<1>3. CASE ReceiptRead(p) \/ ReceiveLine(p)
  <2>1. /\ pc[p] \in {"read", "position"} /\ UNCHANGED job
        /\ \E label \in {"position", "lot"} : pc' = [pc EXCEPT ![p] = label]
        BY <1>3 DEF ReceiptRead, ReceiveLine, Goto
  <2>2. pc'[p] \in {"position", "lot"} /\ job[p].doc.kind = "receipt"
        BY <2>1, Fields DEF KindsAt
  <2>3. QED
        BY <1>1, <2>1, <2>2, QuietStep, Fields DEF Labels, KindsAt, MInv
<1>4. CASE InsertMaterialLot(p)
  <2> DEFINE done == [job[p] EXCEPT !.doc.raw = @ + Landed(p)]
  <2>1. pc[p] = "lot" /\ job[p].doc.kind = "receipt"
        BY <1>4, Fields DEF InsertMaterialLot, KindsAt
  <2>2. After(p, "position") = "save"
        BY <2>1, AfterWrite
  <2>3. \/ /\ pc' = [pc EXCEPT ![p] = "position"]
           /\ job' = [job EXCEPT ![p] = [done EXCEPT !.at = @ + 1]]
        \/ /\ pc' = [pc EXCEPT ![p] = "save"]
           /\ job' = [job EXCEPT ![p] = done]
        BY <1>4, <2>2 DEF InsertMaterialLot, Proceed, Goto
  <2>4. Shaped(done) /\ done.doc.kind = "receipt"
        BY <2>1, Fields DEF Shaped
  <2>5. Shaped([done EXCEPT !.at = @ + 1]) /\ [done EXCEPT !.at = @ + 1].doc = done.doc
        BY <2>4 DEF Shaped
  <2>6. Shaped(job'[p]) /\ job'[p].doc.kind = "receipt" /\ pc'[p] \in {"position", "save"}
        BY <2>3, <2>4, <2>5, Fields
  <2>7. QED
        BY <1>1, <2>3, <2>6, QuietStep, Fields DEF Labels, KindsAt
<1>5. QED
      BY <1>2, <1>3, <1>4

\* A build is priced from what was read; pricing writes no table.
LEMMA PriceStep == ASSUME MInv, NEW p \in Procs, PriceBuild(p) PROVE MInv'
<1>1. UNCHANGED <<documents, entries, builds>>
      BY DEF PriceBuild, tables
<1>2. CASE Finish(p)
      BY <1>1, <1>2, FinishStep
<1>3. CASE ~Finish(p)
  <2> DEFINE f == job[p].build * (Standard(p).material + Standard(p).other)
  <2> DEFINE a == job[p].build * Standard(p).other
  <2>1. /\ pc' = [pc EXCEPT ![p] = "save"]
        /\ job' = [job EXCEPT ![p].doc.finished = f, ![p].doc.applied = a,
                              ![p].doc.raw = RawUsed(p)]
        BY <1>3 DEF PriceBuild, Goto
  <2> HIDE DEF f, a
  <2>2. job[p].doc.kind = "build"
        BY Fields DEF PriceBuild, KindsAt
  <2>3. job'[p].doc.kind = "build" /\ Shaped(job'[p])
        BY <2>1, <2>2, Fields DEF Shaped
  <2>4. /\ pc' = [q \in Procs |-> pc'[q]] /\ pc'[p] = "save"
        /\ \A q \in Procs \ {p} : pc'[q] = pc[q]
        BY <2>1, Fields
  <2>5. /\ job' = [q \in Procs |-> job'[q]]
        /\ \A q \in Procs \ {p} : job'[q] = job[q]
        BY <2>1, Fields
  <2>6. QED
        BY <1>1, <2>3, <2>4, <2>5, QuietStep DEF Labels, KindsAt
<1>4. QED
      BY <1>2, <1>3

\* What a command saves is what it remembers, and it remembers where.
LEMMA SaveStep == ASSUME MInv, NEW p \in Procs, SaveDocument(p) PROVE MInv'
<1>1. /\ pc[p] = "save" /\ documents' = Append(documents, job[p].doc)
      /\ UNCHANGED <<entries, builds>>
      BY DEF SaveDocument
<1>2. job[p].doc.kind \in {"build", "receipt", "adjustment"} /\ After(p, "save") = "post"
      BY <1>1, Fields, AfterWrite DEF KindsAt
<1>3. /\ IsSeq(documents') /\ Extends(documents', documents)
      /\ Len(documents) + 1 \in DOMAIN documents'
      /\ documents'[Len(documents) + 1] = job[p].doc
      BY <1>1, Appended DEF MInv
<1>4. /\ IsSeq(entries') /\ Extends(entries', entries) /\ IsSeq(builds')
      /\ \A i \in DOMAIN entries' : entries'[i] \in DOMAIN documents'
      BY <1>1, <1>3, ExtendsItself DEF MInv, Extends
<1>5. \/ Finish(p)
      \/ /\ pc' = [pc EXCEPT ![p] = "post"]
         /\ job' = [job EXCEPT ![p] = [job[p] EXCEPT !.number = Len(documents) + 1]]
      BY <1>2 DEF SaveDocument, Proceed, Goto
<1>6. /\ pc' = [q \in Procs |-> pc'[q]] /\ job' = [q \in Procs |-> job'[q]]
      /\ \A q \in Procs \ {p} : pc'[q] = pc[q] /\ job'[q] = job[q]
      BY <1>5, Fields DEF Finish, Goto
<1>7. OnTrack(job[p], pc[p])'
  <2>1. CASE Finish(p)
    <3>1. pc'[p] = "idle" /\ job'[p] = NoJob
          BY <2>1, Fields DEF Finish, Goto
    <3>2. QED
          BY <3>1, Fields DEF OnTrack, Labels, KindsAt
  <2>2. CASE /\ pc' = [pc EXCEPT ![p] = "post"]
             /\ job' = [job EXCEPT ![p] = [job[p] EXCEPT !.number = Len(documents) + 1]]
    <3>1. pc'[p] = "post" /\ job'[p] = [job[p] EXCEPT !.number = Len(documents) + 1]
          BY <2>2, Fields
    <3>2. /\ Shaped(job'[p]) /\ job'[p].doc = job[p].doc
          /\ job'[p].number = Len(documents) + 1
          BY <3>1, Fields DEF Shaped
    <3>3. Saved(job[p])'
          BY <1>3, <3>2 DEF Saved
    <3>4. QED
          BY <1>2, <3>1, <3>2, <3>3 DEF OnTrack, Labels, KindsAt
  <2>3. QED
        BY <1>5, <2>1, <2>2
<1>8. QED
      BY <1>1, <1>3, <1>4, <1>6, <1>7, StepOf

\* Only a posted document lets its build go on.
LEMMA PostStep == ASSUME MInv, NEW p \in Procs, PostEntry(p) PROVE MInv'
<1>1. pc[p] = "post" /\ UNCHANGED <<documents, builds>>
      BY DEF PostEntry
<1>2. CASE Finish(p) /\ UNCHANGED entries
      BY <1>1, <1>2, FinishStep
<1>3. CASE entries' = Append(entries, job[p].number) /\ Proceed(p, "post", job[p])
  <2>1. job[p].number \in DOMAIN documents /\ Saved(job[p]) /\ Shaped(job[p])
        BY <1>1 DEF MInv, OnTrack, Saved
  <2>2. /\ IsSeq(entries') /\ Extends(entries', entries)
        /\ DOMAIN entries' = DOMAIN entries \cup {Len(entries) + 1}
        /\ entries'[Len(entries) + 1] = job[p].number
        BY <1>3, Appended DEF MInv
  <2>3. \A i \in DOMAIN entries' : entries'[i] \in DOMAIN documents'
        BY <1>1, <2>1, <2>2 DEF MInv, Extends
  <2>4. /\ After(p, "post") \in {"idle", "relieve"}
        /\ After(p, "post") = "relieve" => job[p].doc.kind = "build"
        BY <1>1, Fields, AfterWrite DEF KindsAt
  <2>5. /\ pc' = [pc EXCEPT ![p] = After(p, "post")]
        /\ job' = [job EXCEPT ![p] = IF After(p, "post") = "idle" THEN NoJob ELSE job[p]]
        BY <1>3 DEF Proceed, Goto
  <2>6. /\ pc' = [q \in Procs |-> pc'[q]] /\ job' = [q \in Procs |-> job'[q]]
        /\ \A q \in Procs \ {p} : pc'[q] = pc[q] /\ job'[q] = job[q]
        /\ pc'[p] = After(p, "post")
        /\ job'[p] = IF After(p, "post") = "idle" THEN NoJob ELSE job[p]
        BY <2>5, Fields
  <2>7. OnTrack(job[p], pc[p])'
    <3>1. CASE pc'[p] = "idle"
          BY <2>6, <3>1, Fields DEF OnTrack, Labels, KindsAt
    <3>2. CASE pc'[p] = "relieve"
      <4>1. job'[p] = job[p] /\ job[p].doc.kind = "build"
            BY <2>4, <2>6, <3>2
      <4>2. Posted(job[p])'
            BY <1>1, <2>1, <2>2, <4>1 DEF Posted, Saved
      <4>3. QED
            BY <2>1, <3>2, <4>1, <4>2 DEF OnTrack, Labels, KindsAt
    <3>3. QED
          BY <2>4, <2>6, <3>1, <3>2
  <2>8. QED
        BY <1>1, <2>2, <2>3, <2>6, <2>7, StepOf, ExtendsItself DEF MInv
<1>4. QED
      BY <1>2, <1>3 DEF PostEntry

\* Relieving the materials and writing the consumptions keep the document.
LEMMA BuildStep ==
    ASSUME MInv, NEW p \in Procs, RelieveMaterial(p) \/ InsertBuildConsumption(p)
    PROVE  MInv'
<1>1. UNCHANGED <<documents, entries, builds>> /\ pc[p] \in {"relieve", "consume"}
      BY DEF RelieveMaterial, InsertBuildConsumption
<1>2. job[p].doc.kind = "build" /\ Posted(job[p]) /\ Shaped(job[p])
      BY <1>1 DEF MInv, OnTrack, KindsAt
<1>3. After(p, "relieve") = "record"
      BY <1>2, AfterWrite
<1>4. \/ Finish(p)
      \/ /\ UNCHANGED pc
         /\ job' = [job EXCEPT ![p] = [job[p] EXCEPT !.at = @ + 1]]
      \/ /\ pc' = [pc EXCEPT ![p] = "record"]
         /\ job' = [job EXCEPT ![p] = [job[p] EXCEPT !.at = 1]]
      BY <1>3 DEF RelieveMaterial, InsertBuildConsumption, Proceed, Goto
<1>5. CASE Finish(p)
      BY <1>1, <1>5, FinishStep
<1>6. CASE ~Finish(p)
  <2>1. PICK n : /\ \/ UNCHANGED pc
                    \/ pc' = [pc EXCEPT ![p] = "record"]
                 /\ job' = [job EXCEPT ![p] = [job[p] EXCEPT !.at = n]]
        BY <1>4, <1>6
  <2>2. /\ pc' = [q \in Procs |-> pc'[q]] /\ job' = [q \in Procs |-> job'[q]]
        /\ \A q \in Procs \ {p} : pc'[q] = pc[q] /\ job'[q] = job[q]
        /\ pc'[p] \in {"relieve", "consume", "record"}
        /\ job'[p] = [job[p] EXCEPT !.at = n]
        BY <1>1, <2>1, Fields DEF MInv
  <2>3. Shaped(job'[p]) /\ job'[p].doc = job[p].doc /\ job'[p].number = job[p].number
        BY <1>2, <2>2 DEF Shaped
  <2>4. OnTrack(job[p], pc[p])'
        BY <1>1, <1>2, <2>2, <2>3 DEF OnTrack, Posted, Saved, Labels, KindsAt
  <2>5. QED
        BY <1>1, <2>2, <2>4, StepOf, ExtendsItself DEF MInv
<1>7. QED
      BY <1>5, <1>6

\* The row states what the posted document states.
LEMMA RecordStep == ASSUME MInv, NEW p \in Procs, InsertBuild(p) PROVE MInv'
<1> DEFINE row == [document |-> job[p].number, raw |-> job[p].doc.raw,
                   variance |-> job[p].doc.finished - job[p].doc.raw - job[p].doc.applied]
<1>1. pc[p] = "record" /\ UNCHANGED <<documents, entries>> /\ builds' = Append(builds, row)
      BY DEF InsertBuild
<1>2. job[p].doc.kind = "build" /\ Posted(job[p]) /\ Shaped(job[p])
      BY <1>1 DEF MInv, OnTrack, KindsAt
<1>3. After(p, "record") = "consume"
      BY <1>2, AfterWrite
<1>4. /\ pc' = [pc EXCEPT ![p] = "consume"]
      /\ job' = [job EXCEPT ![p] = [job[p] EXCEPT !.build = Len(builds) + 1]]
      BY <1>3 DEF InsertBuild, Proceed, Goto
<1>5. /\ pc' = [q \in Procs |-> pc'[q]] /\ job' = [q \in Procs |-> job'[q]]
      /\ \A q \in Procs \ {p} : pc'[q] = pc[q] /\ job'[q] = job[q]
      /\ pc'[p] = "consume"
      /\ job'[p] = [job[p] EXCEPT !.build = Len(builds) + 1]
      BY <1>4, Fields
<1>6. Shaped(job'[p]) /\ job'[p].doc = job[p].doc /\ job'[p].number = job[p].number
      BY <1>2, <1>5 DEF Shaped
<1>7. OnTrack(job[p], pc[p])'
      BY <1>1, <1>2, <1>5, <1>6 DEF OnTrack, Posted, Saved, Labels, KindsAt
<1>8. /\ IsSeq(builds') /\ Extends(builds', builds)
      /\ DOMAIN builds' = DOMAIN builds \cup {Len(builds) + 1}
      /\ builds'[Len(builds) + 1] = row
      BY <1>1, Appended DEF MInv
<1>9. Backed(row)
      BY <1>2 DEF Backed, Posted, Saved, Plug
<1>10. ASSUME NEW i \in DOMAIN builds'
       PROVE  (i \in DOMAIN builds /\ builds'[i] = builds[i]) \/ Backed(builds[i])'
  <2>1. CASE i \in DOMAIN builds
        BY <1>8, <2>1 DEF Extends
  <2>2. CASE i = Len(builds) + 1
    <3>1. builds'[i] = row
          BY <1>8, <2>2
    <3>2. QED
          BY <1>1, <1>9, <3>1 DEF Backed, Plug
  <2>3. QED
        BY <1>8, <1>10, <2>1, <2>2
<1>11. QED
       BY <1>1, <1>5, <1>7, <1>8, <1>10, StepOf, ExtendsItself DEF MInv

LEMMA InitMInv == Init => MInv
<1>1. SUFFICES ASSUME Init PROVE MInv
      OBVIOUS
<1>2. IsSeq(documents) /\ IsSeq(entries) /\ IsSeq(builds)
      BY <1>1 DEF Init, IsSeq
<1>3. \A p \in Procs : pc[p] = "idle" /\ job[p] = NoJob
      BY <1>1 DEF Init
<1>4. OnTrack(NoJob, "idle")
      BY DEF OnTrack, Shaped, NoJob, NoDoc, Labels, KindsAt
<1>5. DOMAIN entries = {} /\ DOMAIN builds = {}
      BY <1>1 DEF Init
<1>6. QED
      BY <1>1, <1>2, <1>3, <1>4, <1>5 DEF Init, MInv

LEMMA NextMInv == ASSUME MInv, [Next]_vars PROVE MInv'
<1>1. CASE UNCHANGED vars
      BY <1>1 DEF MInv, vars, tables, OnTrack, Saved, Posted, Backed, Plug
<1>2. ASSUME NEW p \in Procs, Process(p) PROVE MInv'
  <2>1. CASE Crash(p)
        BY <2>1, FinishStep DEF Crash, tables
  <2>2. QED
        BY <1>2, <2>1, StartStep, ReceiptStep, PriceStep, BuildStep, RecordStep, SaveStep,
           PostStep DEF Process
<1>3. QED
      BY <1>1, <1>2 DEF Next

\* complete_build posts first and records then: whatever the process dies of in
\* between, and whatever others do to the materials meanwhile, every build row
\* cites a posted document that states its material and its variance.
THEOREM BuildRowBackedHolds == Spec => []BuildRowBacked
<1>1. MInv => BuildRowBacked
      BY DEF MInv, Backed, BuildRowBacked
<1>2. QED
      BY <1>1, InitMInv, NextMInv, PTL DEF Spec

-----------------------------------------------------------------------------
(* The largest remainder method. *)

LEMMA Divided ==
    ASSUME NEW a \in Nat, NEW b \in Nat \ {0}
    PROVE  /\ a \div b \in Nat /\ a % b \in 0 .. b - 1
           /\ a = b * (a \div b) + (a % b)
OBVIOUS

LEMMA Cancels ==
    ASSUME NEW t \in Nat \ {0}, NEW a \in Int, NEW b \in Int, t * a <= t * b
    PROVE  a <= b
<1>1. SUFFICES ASSUME a >= b + 1 PROVE FALSE
      OBVIOUS
<1>2. PICK d \in Nat : a = b + 1 + d
  <2>1. a - b - 1 \in Nat /\ a = b + 1 + (a - b - 1)
        BY <1>1
  <2>2. QED
        BY <2>1
<1>3. t * a = t * (b + 1) + t * d
      BY <1>2, Distributes
<1>4. t * (b + 1) = t * b + t
      BY Distributes
<1>5. t * d \in Nat /\ t * b \in Int /\ t * a \in Int
      OBVIOUS
<1>6. QED
      BY <1>3, <1>4, <1>5

LEMMA Products == \A a, b \in Int : a * b \in Int
OBVIOUS
LEMMA NatProducts == \A a, b \in Nat : a * b \in Nat
OBVIOUS

Turn(S, rem, i) == Cardinality({j \in S : Before(rem, i, j)})
Served(S, rem, n) == {i \in S : Turn(S, rem, i) < n}

\* The largest remainders first: as many as there are cents left.
LEMMA FirstServed ==
    ASSUME NEW S, IsFiniteSet(S), S \subseteq Int, NEW rem, \A i \in S : rem[i] \in Int,
           NEW n \in 0 .. Cardinality(S)
    PROVE  /\ Cardinality(Served(S, rem, n)) = n /\ IsFiniteSet(Served(S, rem, n))
           /\ \A i \in S : Turn(S, rem, i) \in Nat
<1> DEFINE R == {e \in S \X S : Before(rem, e[2], e[1])}
           T == {i \in S : Place(R, S, i) < n}
<1>1. \A i, j \in S : <<j, i>> \in R <=> Before(rem, i, j)
      OBVIOUS
<1>2. StrictOrder(R, S)
  <2>1. \A i \in S : rem[i] \in Int /\ i \in Int
        OBVIOUS
  <2>2. \A i \in S : <<i, i>> \notin R
        BY <1>1, <2>1 DEF Before
  <2>3. \A i, j, k \in S : <<i, j>> \in R /\ <<j, k>> \in R => <<i, k>> \in R
        BY <1>1, <2>1 DEF Before
  <2>4. \A i, j \in S : i # j => <<i, j>> \in R \/ <<j, i>> \in R
        BY <1>1, <2>1 DEF Before
  <2>5. QED
        BY <2>2, <2>3, <2>4 DEF StrictOrder
<1>3. \A i \in S : Place(R, S, i) = Turn(S, rem, i)
  <2>1. \A i \in S : {j \in S : <<j, i>> \in R} = {j \in S : Before(rem, i, j)}
        BY <1>1
  <2>2. QED
        BY <2>1 DEF Place, Turn
<1>4. T = Served(S, rem, n)
      BY <1>3 DEF Served
<1>5. T \in SUBSET S /\ \A i \in S : i \in T <=> Place(R, S, i) < n
      OBVIOUS
<1> HIDE DEF R, T
<1>6. Cardinality(T) = n /\ IsFiniteSet(T) /\ \A i \in S : Place(R, S, i) \in Nat
      BY <1>2, <1>5, FirstOnes
<1>7. QED
      BY <1>3, <1>4, <1>6

\* Every index gets its floor, and the first in turn a cent of what is left.
Allots(S, w, F, total, floor, rem, left, share) ==
    /\ IsFiniteSet(S) /\ S \subseteq Int /\ \A i \in S : w[i] \in Nat
    /\ F \in Nat /\ total \in Nat \ {0} /\ total = SumFunctionOnSet(w, S)
    /\ \A i \in S : /\ floor[i] \in Nat /\ rem[i] \in 0 .. total - 1
                     /\ F * w[i] = total * floor[i] + rem[i]
    /\ left = F - SumFunctionOnSet(floor, S)
    /\ \A i \in S : share[i] = IF Turn(S, rem, i) < left THEN floor[i] + 1 ELSE floor[i]

\* The largest remainder method, whatever the weights are.
LEMMA LargestRemainder ==
    ASSUME NEW S, NEW w, NEW F, NEW total, NEW floor, NEW rem, NEW left, NEW share,
           Allots(S, w, F, total, floor, rem, left, share)
    PROVE  /\ SumFunctionOnSet(share, S) = F
           /\ \A i \in S : share[i] \in Nat
           /\ \A i \in S : /\ share[i] * total - F * w[i] \in -(total - 1) .. total - 1
                           /\ w[i] = 0 => share[i] = 0
<1>0. /\ IsFiniteSet(S) /\ S \subseteq Int /\ \A i \in S : w[i] \in Nat
      /\ F \in Nat /\ total \in Nat \ {0} /\ total = SumFunctionOnSet(w, S)
      /\ \A i \in S : /\ floor[i] \in Nat /\ rem[i] \in 0 .. total - 1
                       /\ F * w[i] = total * floor[i] + rem[i]
      /\ left = F - SumFunctionOnSet(floor, S)
      /\ \A i \in S : share[i] = IF Turn(S, rem, i) < left THEN floor[i] + 1 ELSE floor[i]
      BY DEF Allots
<1> USE <1>0
<1>1. total \in Nat \ {0} /\ total \in Int
      OBVIOUS
<1>2. ASSUME NEW i \in S
      PROVE  /\ F * w[i] \in Nat /\ floor[i] \in Nat /\ rem[i] \in 0 .. total - 1
             /\ rem[i] \in Nat /\ F * w[i] = total * floor[i] + rem[i]
      BY NatProducts
<1> DEFINE all == [i \in S |-> F * w[i]]
           paid == [i \in S |-> total * floor[i]]
           floors == SumFunctionOnSet(floor, S)
           rems == SumFunctionOnSet(rem, S)
<1>3. floors \in Nat /\ rems \in Nat
      BY <1>2, SumNat
<1>4. total * left = rems
  <2>1. SumFunctionOnSet(all, S) = F * total
    <3>1. F \in Int /\ \A i \in S : w[i] \in Int /\ all[i] = F * w[i]
          OBVIOUS
    <3> HIDE DEF all
    <3>2. SumFunctionOnSet(all, S) = F * SumFunctionOnSet(w, S)
          BY <3>1, SumScale
    <3>3. QED
          BY <3>2
  <2>2. SumFunctionOnSet(paid, S) = total * floors
    <3>1. \A i \in S : floor[i] \in Int /\ paid[i] = total * floor[i]
          BY <1>2
    <3> HIDE DEF paid
    <3>2. QED
          BY <1>1, <3>1, SumScale
  <2>3. SumFunctionOnSet(all, S) = SumFunctionOnSet(paid, S) + rems
    <3>1. \A i \in S : paid[i] \in Int /\ rem[i] \in Int /\ all[i] = paid[i] + rem[i]
      <4>1. SUFFICES ASSUME NEW i \in S
                     PROVE paid[i] \in Int /\ rem[i] \in Int /\ all[i] = paid[i] + rem[i]
            OBVIOUS
      <4>2. paid[i] = total * floor[i] /\ all[i] = F * w[i]
            OBVIOUS
      <4>3. QED
            BY <1>1, <1>2, <4>2, Products
    <3> HIDE DEF paid, all
    <3>2. QED
          BY <3>1, SumPlus
  <2>4. F = left + floors
        BY <1>3
  <2>5. left \in Int
        BY <1>3
  <2>6. F * total = total * left + total * floors
    <3>1. total * (left + floors) = total * left + total * floors
          BY <1>1, <1>3, <2>5, Distributes
    <3>2. \A a, b \in Int : a * b = b * a
          OBVIOUS
    <3>3. QED
          BY <1>1, <2>4, <3>1, <3>2
  <2>7. total * left \in Int /\ total * floors \in Int /\ F * total \in Int
        BY <1>1, <1>3, <2>5, Products
  <2> HIDE DEF floors, rems, all, paid
  <2>8. QED
        BY <1>3, <2>1, <2>2, <2>3, <2>6, <2>7
<1> DEFINE P == {i \in S : rem[i] > 0}
           c == [i \in S |-> IF rem[i] > 0 THEN total ELSE 0]
           one == [i \in S |-> 1]
<1>5. IsFiniteSet(P) /\ Cardinality(P) \in Nat /\ Cardinality(P) <= Cardinality(S)
      BY FS_Subset, FS_CardinalityType
<1>6. rems <= total * Cardinality(P)
  <2>1. ASSUME NEW i \in S
        PROVE  /\ rem[i] \in Int /\ c[i] \in Int /\ rem[i] <= c[i]
               /\ i \notin P => c[i] = 0
               /\ i \in P => c[i] = total * one[i] /\ one[i] = 1
        BY <1>1, <1>2
  <2>2. rems <= SumFunctionOnSet(c, S)
    <3> HIDE DEF c
    <3>1. QED
          BY <2>1, SumLeq
  <2>3. SumFunctionOnSet(c, S) = SumFunctionOnSet(c, P)
    <3>1. P \in SUBSET S
          OBVIOUS
    <3> HIDE DEF c, P
    <3>2. QED
          BY <2>1, <3>1, SumOfPart
  <2>4. SumFunctionOnSet(c, P) = total * SumFunctionOnSet(one, P)
    <3>1. \A i \in P : one[i] \in Int /\ c[i] = total * one[i]
          BY <2>1
    <3> HIDE DEF c, P, one
    <3>2. QED
          BY <1>1, <1>5, <3>1, SumScale
  <2>5. SumFunctionOnSet(one, P) = Cardinality(P)
    <3>1. \A i \in P : one[i] = 1
          OBVIOUS
    <3> HIDE DEF P, one
    <3>2. QED
          BY <1>5, <3>1, SumOnes
  <2>6. QED
        BY <2>2, <2>3, <2>4, <2>5
<1>7. left \in 0 .. Cardinality(P) /\ left \in Int
  <2>1. left \in Int
        BY <1>3
  <2>2. left <= Cardinality(P)
        BY <1>1, <1>4, <1>5, <1>6, <2>1, Cancels
  <2>3. 0 <= left
    <3>1. total * 0 <= total * left
          BY <1>1, <1>3, <1>4
    <3>2. QED
          BY <1>1, <2>1, <3>1, Cancels
  <2>4. QED
        BY <1>5, <2>1, <2>2, <2>3
<1> DEFINE T == Served(S, rem, left)
<1>8. /\ Cardinality(T) = left /\ IsFiniteSet(T)
      /\ \A i \in S : Turn(S, rem, i) \in Nat
  <2>1. \A i \in S : rem[i] \in Int
        BY <1>2
  <2>2. left \in 0 .. Cardinality(S)
        BY <1>5, <1>7, FS_CardinalityType
  <2>3. QED
        BY <2>1, <2>2, FirstServed
<1>11. \A i \in S : share[i] = IF i \in T THEN floor[i] + 1 ELSE floor[i]
      BY DEF Served, Turn
<1>12. ASSUME NEW i \in T PROVE rem[i] > 0
  <2>6. i \in S
        BY DEF Served
  <2>1. SUFFICES ASSUME rem[i] = 0 PROVE FALSE
    <3>1. rem[i] \in Nat
          BY <1>2, <2>6
    <3>2. QED
          BY <3>1
  <2>2. P \subseteq {j \in S : Before(rem, i, j)}
        BY <2>1 DEF Before
  <2>3. Cardinality(P) <= Turn(S, rem, i)
    <3>1. IsFiniteSet({j \in S : Before(rem, i, j)})
          BY FS_Subset
    <3>2. QED
          BY <2>2, <3>1, FS_Subset DEF Turn
  <2>4. Turn(S, rem, i) < left /\ Turn(S, rem, i) \in Nat /\ i \in S
        BY <1>8 DEF Served
  <2>5. QED
        BY <1>5, <1>7, <2>3, <2>4
<1> HIDE DEF T, P
<1> DEFINE up == [i \in S |-> IF i \in T THEN 1 ELSE 0]
<1>13. SumFunctionOnSet(share, S) = F
  <2>1. \A i \in S : floor[i] \in Int /\ up[i] \in Int /\ share[i] = floor[i] + up[i]
        BY <1>2, <1>11
  <2>2. SumFunctionOnSet(share, S) = floors + SumFunctionOnSet(up, S)
    <3> HIDE DEF up
    <3>1. QED
          BY <2>1, SumPlus
  <2>3. T \in SUBSET S /\ \A i \in T : up[i] = 1
        BY DEF T, Served
  <2>4. \A i \in S \ T : up[i] = 0
        OBVIOUS
  <2>5. SumFunctionOnSet(up, S) = left
    <3> HIDE DEF up
    <3>1. SumFunctionOnSet(up, S) = SumFunctionOnSet(up, T)
          BY <2>1, <2>3, <2>4, SumOfPart
    <3>2. SumFunctionOnSet(up, T) = Cardinality(T)
          BY <1>8, <2>3, SumOnes
    <3>3. QED
          BY <1>8, <3>1, <3>2
  <2>6. QED
        BY <1>3, <2>2, <2>5
<1>14. \A i \in S : share[i] \in Nat
       BY <1>2, <1>11
<1>15. ASSUME NEW i \in S
       PROVE  /\ share[i] * total - F * w[i] \in -(total - 1) .. total - 1
              /\ w[i] = 0 => share[i] = 0
  <2>1. /\ floor[i] \in Nat /\ rem[i] \in 0 .. total - 1 /\ F * w[i] = total * floor[i] + rem[i]
        /\ F * w[i] \in Int /\ total * floor[i] \in Int
        BY <1>1, <1>2, Products
  <2>2. share[i] = floor[i] + 1 => share[i] * total = total * floor[i] + total
    <3>1. (floor[i] + 1) * total = total * floor[i] + total
          BY <1>1, <2>1, Distributes
    <3>2. QED
          BY <3>1
  <2>3. share[i] = floor[i] => share[i] * total = total * floor[i]
        BY <1>1, <2>1
  <2>4. i \in T => rem[i] > 0
        BY <1>12
  <2>5. share[i] * total - F * w[i] \in -(total - 1) .. total - 1
    <3>1. CASE i \in T
      <4>1. share[i] * total - F * w[i] = total - rem[i]
            BY <1>1, <1>11, <2>1, <2>2, <3>1
      <4>2. QED
            BY <1>1, <2>1, <2>4, <3>1, <4>1
    <3>2. CASE i \notin T
      <4>1. share[i] * total - F * w[i] = -rem[i]
            BY <1>1, <1>11, <2>1, <2>3, <3>2
      <4>2. QED
            BY <1>1, <2>1, <4>1
    <3>3. QED
          BY <3>1, <3>2
  <2>6. w[i] = 0 => share[i] = 0
    <3>1. SUFFICES ASSUME w[i] = 0 PROVE share[i] = 0
          OBVIOUS
    <3>2. F * w[i] = 0
          BY <3>1
    <3>3. total * floor[i] \in Nat /\ rem[i] \in Nat
          BY <1>1, <1>2, NatProducts
    <3>4. rem[i] = 0 /\ total * floor[i] = 0
          BY <2>1, <3>2, <3>3
    <3>5. floor[i] = 0
      <4>1. total * floor[i] <= total * 0
            BY <1>1, <3>4
      <4>2. floor[i] <= 0
            BY <1>1, <2>1, <4>1, Cancels
      <4>3. QED
            BY <2>1, <4>2
    <3>6. i \notin T
          BY <2>4, <3>4
    <3>7. QED
          BY <1>11, <3>5, <3>6
  <2>7. QED
        BY <2>5, <2>6
<1>16. QED
      BY <1>13, <1>14, <1>15

-----------------------------------------------------------------------------
(* Rounding, and what a receipt allocates. *)

LEMMA Halves ==
    ASSUME NEW n \in Nat, NEW d \in Nat \ {0}, NEW q, q = (2 * n + d) \div (2 * d)
    PROVE  q \in Nat /\ 2 * (n - q * d) \in -d .. d
<1>1. 2 * n + d \in Nat /\ 2 * d \in Nat \ {0}
      OBVIOUS
<1>2. PICK r \in 0 .. 2 * d - 1 : q \in Nat /\ 2 * n + d = (2 * d) * q + r
      BY <1>1, Divided
<1>3. (2 * d) * q = 2 * (q * d) /\ q * d \in Int
  <2>1. q * d \in Int /\ q * (d + d) = q * d + q * d
    <3>1. q \in Int /\ d \in Int
          BY <1>2
    <3>2. QED
          BY <3>1, Distributes, Products
  <2>2. (2 * d) * q = q * (d + d)
        BY <1>2
  <2>3. QED
        BY <2>1, <2>2
<1>4. 2 * (n - q * d) = r - d
  <2> DEFINE e == q * d
  <2>1. 2 * n + d = 2 * e + r /\ e \in Int
        BY <1>2, <1>3
  <2> HIDE DEF e
  <2>2. 2 * (n - e) = r - d
        BY <2>1
  <2>3. QED
        BY <2>2 DEF e
<1>5. QED
      BY <1>2, <1>4

\* round_money is within half a cent, whatever the signs are.
LEMMA RoundedNear ==
    ASSUME NEW a \in Int, NEW b \in Int, b # 0
    PROVE  /\ Rounded(a, b) \in Int
           /\ b > 0 => 2 * (a - Rounded(a, b) * b) \in -b .. b
           /\ b < 0 => 2 * (a - Rounded(a, b) * b) \in b .. -b
<1> DEFINE num == IF b < 0 THEN -a ELSE a
           den == IF b < 0 THEN -b ELSE b
<1>1. den \in Nat \ {0} /\ num \in Int
      OBVIOUS
<1>2. Rounded(a, b) = IF num >= 0 THEN (2 * num + den) \div (2 * den)
                      ELSE -((den - 2 * num) \div (2 * den))
      BY DEF Rounded
<1> DEFINE r == Rounded(a, b)
<1>3. r \in Int /\ 2 * (num - r * den) \in -den .. den
  <2> HIDE DEF num, den
  <2>1. CASE num >= 0
    <3>1. num \in Nat /\ r = (2 * num + den) \div (2 * den)
          BY <1>1, <1>2, <2>1
    <3> HIDE DEF r
    <3>2. r \in Nat /\ 2 * (num - r * den) \in -den .. den
          BY <1>1, <3>1, Halves
    <3>3. QED
          BY <3>2
  <2>2. CASE ~(num >= 0)
    <3> DEFINE q == (2 * (-num) + den) \div (2 * den)
    <3>1. -num \in Nat /\ r = -q
      <4>1. 2 * (-num) + den = den - 2 * num
            BY <1>1
      <4>2. QED
            BY <1>1, <1>2, <2>2, <4>1
    <3> HIDE DEF r
    <3>2. q \in Nat /\ 2 * ((-num) - q * den) \in -den .. den
          BY <1>1, <3>1, Halves
    <3> HIDE DEF q
    <3>3. q * den \in Int /\ r * den = -(q * den)
          BY <1>1, <3>1, <3>2
    <3>4. 2 * (num - r * den) = -(2 * ((-num) - q * den))
          BY <1>1, <3>3
    <3>5. QED
          BY <1>1, <3>1, <3>2, <3>3, <3>4
  <2>3. QED
        BY <2>1, <2>2
<1> HIDE DEF r
<1>4. CASE b > 0
      BY <1>3, <1>4 DEF r
<1>5. CASE b < 0
  <2>1. num = -a /\ den = -b
        BY <1>5
  <2>2. r * b \in Int /\ r * (-b) = -(r * b)
        BY <1>3
  <2>3. 2 * (a - r * b) = -(2 * (num - r * den))
        BY <2>1, <2>2
  <2>4. 2 * (num - r * den) \in b .. -b
        BY <1>3, <2>1
  <2>5. QED
        BY <1>3, <1>5, <2>3, <2>4 DEF r
<1>6. QED
      BY <1>4, <1>5

Positions == {r \in [value : Int, qty : Int, avg : Int] : r.avg = Average(r.value, r.qty)}

LEMMA PositionTyped ==
    ASSUME NEW v \in Int, NEW q \in Int
    PROVE  Position(v, q) \in Positions
<1>1. Average(v, q) \in Int
      BY RoundedNear DEF Average
<1>2. QED
      BY <1>1 DEF Position, Positions

-----------------------------------------------------------------------------
LEMMA OfScope ==
    ASSUME scope \in Scopes
    PROVE  /\ FeetPerSheet \in Nat \ {0}
           /\ \A m \in Materials : scope.unit[m] \in {"bf", "sheet", "ea"}
           /\ \A r \in scope.receipts :
                /\ r.freight \in Nat /\ r.lines # <<>>
                /\ r.lines \in Seq([material : Materials, qty : Nat, base : Int])
           /\ \A b \in scope.builds : b.uses \in Seq([material : Materials, qty : Int])
           /\ scope.counts \subseteq Int
           /\ scope.sheet.lines \in Seq([material : Materials, qty : Int, unit : {"bf", "ea"}])
           /\ IsFiniteSet(Materials) /\ IsFiniteSet(Procs)
BY ScopesAssumption, FiniteAssumption DEF Materials

LEMMA WeightsOfReceipt ==
    ASSUME scope \in Scopes, NEW lines,
           lines \in Seq([material : Materials, qty : Nat, base : Int]), lines # <<>>
    PROVE  /\ IsFiniteSet(DOMAIN lines) /\ DOMAIN lines \subseteq Int
           /\ DOMAIN Weights(lines) = DOMAIN lines
           /\ \A i \in DOMAIN lines : Weights(lines)[i] \in Nat
           /\ \E i \in DOMAIN lines : Weights(lines)[i] > 0
<1>1. /\ DOMAIN lines = 1 .. Len(lines) /\ Len(lines) \in Nat
      /\ IsFiniteSet(DOMAIN lines) /\ DOMAIN lines \subseteq Int
  <2>1. DOMAIN lines = 1 .. Len(lines) /\ Len(lines) \in Nat
        OBVIOUS
  <2>2. QED
        BY <2>1, FS_Interval
<1>2. 1 \in DOMAIN lines
      BY <1>1
<1> DEFINE feet  == [i \in DOMAIN lines |-> IF scope.unit[lines[i].material] = "ea" THEN 0
                                         ELSE Tracked(lines[i].material, lines[i].qty)]
           units == [i \in DOMAIN lines |-> lines[i].qty]
           positive(w) == \E i \in DOMAIN lines : w[i] > 0
<1>3. Weights(lines) = IF positive(feet) THEN feet
                       ELSE IF positive(units) THEN units ELSE [i \in DOMAIN lines |-> 1]
      BY DEF Weights
<1>4. \A i \in DOMAIN lines : lines[i].qty \in Nat /\ lines[i].material \in Materials
  <2>1. \A i \in DOMAIN lines : lines[i] \in [material : Materials, qty : Nat, base : Int]
        BY <1>1, ElementOfSeq
  <2>2. QED
        BY <2>1
<1>5. \A i \in DOMAIN lines : feet[i] \in Nat
  <2>1. \A i \in DOMAIN lines : Tracked(lines[i].material, lines[i].qty) \in Nat
        BY <1>4, OfScope, NatProducts DEF Tracked
  <2>2. QED
        BY <2>1
<1>6. \A i \in DOMAIN lines : units[i] \in Nat
      BY <1>4
<1>7. /\ DOMAIN feet = DOMAIN lines /\ DOMAIN units = DOMAIN lines
      OBVIOUS
<1> HIDE DEF feet, units
<1>8. CASE positive(feet)
      BY <1>1, <1>3, <1>5, <1>7, <1>8
<1>9. CASE ~positive(feet) /\ positive(units)
      BY <1>1, <1>3, <1>6, <1>7, <1>9
<1>10. CASE ~positive(feet) /\ ~positive(units)
  <2>1. Weights(lines) = [i \in DOMAIN lines |-> 1]
        BY <1>3, <1>10
  <2>2. QED
        BY <1>1, <1>2, <2>1
<1>11. QED
       BY <1>8, <1>9, <1>10

\* What FreightAllocated says of one receipt.
Allocated(lines, share, freight) ==
    LET weight == Weights(lines)
        all    == SumFunction(weight)
    IN /\ SumFunction(share) = freight
       /\ \A i \in DOMAIN lines :
            /\ share[i] * all - freight * weight[i] \in -(all - 1) .. all - 1
            /\ weight[i] = 0 => share[i] = 0

LEMMA FreightShares ==
    ASSUME scope \in Scopes, NEW lines, NEW freight \in Nat,
           lines \in Seq([material : Materials, qty : Nat, base : Int]), lines # <<>>
    PROVE  /\ Allocated(lines, AllocateFreight(lines, freight), freight)
           /\ DOMAIN AllocateFreight(lines, freight) = DOMAIN lines
           /\ \A i \in DOMAIN lines : AllocateFreight(lines, freight)[i] \in Nat
<1> DEFINE S == DOMAIN lines
           w == Weights(lines)
           total == SumFunction(w)
           floor == [i \in S |-> (freight * w[i]) \div total]
           rem == [i \in S |-> (freight * w[i]) % total]
           left == freight - SumFunction(floor)
           share == AllocateFreight(lines, freight)
<1>1. /\ IsFiniteSet(S) /\ S \subseteq Int /\ DOMAIN w = S
      /\ \A i \in S : w[i] \in Nat
      /\ \E i \in S : w[i] > 0
      BY WeightsOfReceipt
<1>2. share = [i \in S |-> IF Cardinality({j \in S : Before(rem, i, j)}) < left
                           THEN floor[i] + 1 ELSE floor[i]]
      BY DEF AllocateFreight
<1>3. total = SumFunctionOnSet(w, S)
      BY <1>1 DEF SumFunction
<1>4. left = freight - SumFunctionOnSet(floor, S) /\ DOMAIN floor = S
      BY DEF SumFunction
<1>5. \A i \in S : floor[i] = (freight * w[i]) \div total /\ rem[i] = (freight * w[i]) % total
      OBVIOUS
<1>6. DOMAIN share = S /\ SumFunction(share) = SumFunctionOnSet(share, S)
      BY <1>2 DEF SumFunction
<1>7. \A i \in S : share[i] = IF Turn(S, rem, i) < left THEN floor[i] + 1 ELSE floor[i]
      BY <1>2 DEF Turn
<1> HIDE DEF S, w, total, floor, rem, left, share
<1>8. total \in Nat \ {0}
  <2>1. PICK i \in S : w[i] > 0
        BY <1>1
  <2>2. w[i] <= total /\ total \in Nat
        BY <1>1, <1>3, SumAtLeast, SumNat
  <2>3. QED
        BY <1>1, <2>1, <2>2
<1>9. \A i \in S : /\ floor[i] \in Nat /\ rem[i] \in 0 .. total - 1
                   /\ freight * w[i] = total * floor[i] + rem[i]
  <2>1. SUFFICES ASSUME NEW i \in S
                 PROVE  /\ floor[i] \in Nat /\ rem[i] \in 0 .. total - 1
                        /\ freight * w[i] = total * floor[i] + rem[i]
        OBVIOUS
  <2>2. freight * w[i] \in Nat
        BY <1>1, NatProducts
  <2>3. QED
        BY <1>5, <1>8, <2>2, Divided
<1>10. /\ SumFunctionOnSet(share, S) = freight
       /\ \A i \in S : share[i] \in Nat
       /\ \A i \in S : /\ share[i] * total - freight * w[i] \in -(total - 1) .. total - 1
                       /\ w[i] = 0 => share[i] = 0
  <2>1. Allots(S, w, freight, total, floor, rem, left, share)
        BY <1>1, <1>3, <1>4, <1>7, <1>8, <1>9 DEF Allots
  <2>2. QED
        BY <2>1, LargestRemainder
<1>11. QED
       BY <1>6, <1>10 DEF S, w, total, share, Allocated

-----------------------------------------------------------------------------
(* What the commands remember: types. *)

CostsOf(p) == [i \in DOMAIN job[p].lines |-> Cost(p, i)]

\* What is not yet taken out, or not yet written, of what the build used.
Remaining(p) == SumFunctionOnSet(CostsOf(p), job[p].at .. Len(job[p].lines))

\* What a receipt remembers: the order, its freight, and where it is in it.
ReceiptTyped(p) ==
    /\ \E r \in scope.receipts :
          /\ job[p].lines = r.lines /\ job[p].total = r.freight
          /\ job[p].freight = AllocateFreight(r.lines, r.freight)
    /\ pc[p] # "read" => Len(job[p].seen) = Len(job[p].lines)
    /\ pc[p] \in {"position", "lot"} => job[p].at \in DOMAIN job[p].lines
    /\ pc[p] = "read" => job[p].at = 1 /\ job[p].doc.raw = 0

\* What a build remembers: once priced, every use is on the sheet it read and
\* the document states their cost.
BuildTyped(p) ==
    /\ \E b \in scope.builds : job[p].lines = b.uses
    /\ pc[p] # "readSheet" =>
          /\ Len(job[p].seen) = Len(scope.sheet.lines)
          /\ \A i \in DOMAIN job[p].lines : OnSheet(job[p].lines[i].material) # {}
          /\ job[p].doc.raw = RawUsed(p)
    /\ IF pc[p] \in {"relieve", "consume"} THEN job[p].at \in 1 .. Len(job[p].lines) + 1
       ELSE job[p].at = 1

Typed(p) ==
    /\ job[p].seen \in Seq(Positions) /\ job[p].doc.raw \in Int
    /\ job[p].doc.kind = "none" => job[p] = NoJob
    /\ job[p].doc.kind = "receipt" => ReceiptTyped(p)
    /\ job[p].doc.kind = "build" => BuildTyped(p)

TInv ==
    /\ MInv
    /\ scope \in Scopes /\ position \in [Materials -> Positions] /\ IsSeq(consumptions)
    /\ \A i \in DOMAIN documents : documents[i].raw \in Int
    /\ \A p \in Procs : Typed(p)

\* A process is not touched by the steps of the others.
LEMMA Others ==
    ASSUME MInv, NEW p \in Procs, Process(p)
    PROVE  /\ scope' = scope
           /\ \A q \in Procs \ {p} : pc'[q] = pc[q] /\ job'[q] = job[q]
<1>0. DOMAIN job = Procs /\ DOMAIN pc = Procs
      BY Fields
<1>1. CASE LockOrReopen(p)
      BY <1>1 DEF LockOrReopen
<1>2. CASE ReceiveMaterials(p) \/ CompleteBuild(p) \/ AdjustInventory(p)
      BY <1>0, <1>2 DEF ReceiveMaterials, CompleteBuild, AdjustInventory, Goto
<1>3. CASE ReadMaterial(p) \/ ReceiptRead(p) \/ ReceiveLine(p)
      BY <1>0, <1>3 DEF ReadMaterial, ReceiptRead, ReceiveLine, Goto
<1>4. CASE InsertMaterialLot(p)
      BY <1>0, <1>4 DEF InsertMaterialLot, Goto, Proceed
<1>5. CASE PriceBuild(p)
      BY <1>0, <1>5 DEF PriceBuild, Goto, Finish
<1>6. CASE RelieveMaterial(p) \/ InsertBuildConsumption(p)
      BY <1>0, <1>6 DEF RelieveMaterial, InsertBuildConsumption, Goto, Finish, Proceed
<1>7. CASE InsertBuild(p)
      BY <1>0, <1>7 DEF InsertBuild, Goto, Proceed
<1>8. CASE SaveDocument(p)
      BY <1>0, <1>8 DEF SaveDocument, Goto, Finish, Proceed
<1>9. CASE PostEntry(p) \/ Crash(p)
      BY <1>0, <1>9 DEF PostEntry, Crash, Goto, Finish, Proceed
<1>10. QED
       BY <1>1, <1>2, <1>3, <1>4, <1>5, <1>6, <1>7, <1>8, <1>9 DEF Process

\* What a process remembers keeps its type while it does nothing.
LEMMA StaysTyped ==
    ASSUME NEW q \in Procs, Typed(q), scope' = scope, job'[q] = job[q], pc'[q] = pc[q]
    PROVE  Typed(q)'
<1>1. \A l, f : AllocateFreight(l, f)' = AllocateFreight(l, f)
      BY DEF AllocateFreight, Weights, Tracked
<1>2. RawUsed(q)' = RawUsed(q)
      BY DEF RawUsed, Cost, Seen, OnSheet
<1>3. QED
      BY <1>1, <1>2 DEF Typed, ReceiptTyped, BuildTyped, OnSheet

LEMMA TypedStep ==
    ASSUME TInv, NEW p \in Procs, Process(p),
           position' \in [Materials -> Positions], IsSeq(consumptions'),
           \A i \in DOMAIN documents' : documents'[i].raw \in Int,
           Typed(p)'
    PROVE  TInv'
<1>1. MInv'
      BY NextMInv DEF TInv, Next
<1>2. scope' = scope /\ \A q \in Procs \ {p} : pc'[q] = pc[q] /\ job'[q] = job[q]
      BY Others DEF TInv
<1>3. \A q \in Procs \ {p} : Typed(q)'
      BY <1>2, StaysTyped DEF TInv
<1>4. \A q \in Procs : Typed(q)'
  <2>1. SUFFICES ASSUME NEW q \in Procs PROVE Typed(q)'
        OBVIOUS
  <2>2. CASE q = p
        BY <2>2
  <2>3. CASE q # p
        BY <1>3, <2>3
  <2>4. QED
        BY <2>2, <2>3
<1>5. Materials' = Materials
      BY <1>2 DEF Materials
<1>6. QED
      BY <1>1, <1>2, <1>4, <1>5 DEF TInv

LEMMA NoJobTyped ==
    ASSUME NEW p \in Procs, job'[p] = NoJob PROVE Typed(p)'
<1>1. job'[p].seen = <<>> /\ job'[p].doc.raw = 0 /\ job'[p].doc.kind = "none"
      BY DEF NoJob, NoDoc
<1>2. QED
      BY <1>1 DEF Typed

-----------------------------------------------------------------------------
\* What a receipt remembers, spelt out.
LEMMA ReceiptFacts ==
    ASSUME TInv, NEW p \in Procs, job[p].doc.kind = "receipt"
    PROVE  /\ DOMAIN job[p].lines = 1 .. Len(job[p].lines) /\ Len(job[p].lines) \in Nat \ {0}
           /\ \A i \in DOMAIN job[p].lines :
                /\ job[p].lines[i].material \in Materials /\ job[p].lines[i].qty \in Nat
                /\ job[p].lines[i].base \in Int /\ job[p].freight[i] \in Nat
                /\ job[p].lines[i].base + job[p].freight[i] \in Int
                /\ Tracked(job[p].lines[i].material, job[p].lines[i].qty) \in Int
           /\ Allocated(job[p].lines, job[p].freight, job[p].total)
           /\ DOMAIN job[p].seen = 1 .. Len(job[p].seen)
           /\ \A i \in DOMAIN job[p].seen : job[p].seen[i] \in Positions
           /\ ReceiptTyped(p)
<1>1. ReceiptTyped(p) /\ job[p].seen \in Seq(Positions) /\ scope \in Scopes
      BY DEF TInv, Typed
<1>2. PICK r \in scope.receipts :
          /\ job[p].lines = r.lines /\ job[p].total = r.freight
          /\ job[p].freight = AllocateFreight(r.lines, r.freight)
      BY <1>1 DEF ReceiptTyped
<1>3. /\ r.freight \in Nat /\ r.lines # <<>>
      /\ r.lines \in Seq([material : Materials, qty : Nat, base : Int])
      BY <1>1, OfScope
<1>4. DOMAIN r.lines = 1 .. Len(r.lines) /\ Len(r.lines) \in Nat \ {0}
      BY <1>3
<1>5. \A i \in DOMAIN r.lines : r.lines[i] \in [material : Materials, qty : Nat, base : Int]
      BY <1>3, <1>4, ElementOfSeq
<1>6. /\ Allocated(r.lines, AllocateFreight(r.lines, r.freight), r.freight)
      /\ \A i \in DOMAIN r.lines : AllocateFreight(r.lines, r.freight)[i] \in Nat
      BY <1>1, <1>3, FreightShares
<1>7. \A i \in DOMAIN r.lines : Tracked(r.lines[i].material, r.lines[i].qty) \in Int
      BY <1>1, <1>5, OfScope, Products DEF Tracked
<1>8. DOMAIN job[p].seen = 1 .. Len(job[p].seen) /\ \A i \in DOMAIN job[p].seen : job[p].seen[i] \in Positions
      BY <1>1, ElementOfSeq
<1>9. \A i \in DOMAIN r.lines : /\ r.lines[i].material \in Materials /\ r.lines[i].qty \in Nat
                                /\ r.lines[i].base \in Int
      BY <1>5
<1>10. QED
       BY <1>1, <1>2, <1>4, <1>6, <1>7, <1>8, <1>9

\* What a build remembers, spelt out.
LEMMA BuildFacts ==
    ASSUME TInv, NEW p \in Procs, job[p].doc.kind = "build"
    PROVE  /\ DOMAIN job[p].lines = 1 .. Len(job[p].lines) /\ Len(job[p].lines) \in Nat
           /\ IsFiniteSet(DOMAIN job[p].lines)
           /\ \A i \in DOMAIN job[p].lines :
                /\ job[p].lines[i].material \in Materials /\ job[p].lines[i].qty \in Int
           /\ BuildTyped(p)
           /\ Len(job[p].seen) = Len(scope.sheet.lines) =>
                \A i \in DOMAIN job[p].lines : OnSheet(job[p].lines[i].material) # {} =>
                  /\ Seen(p, job[p].lines[i].material) \in Positions
                  /\ Cost(p, i) \in Int
<1>1. BuildTyped(p) /\ job[p].seen \in Seq(Positions) /\ scope \in Scopes
      BY DEF TInv, Typed
<1>2. PICK b \in scope.builds : job[p].lines = b.uses
      BY <1>1 DEF BuildTyped
<1>3. job[p].lines \in Seq([material : Materials, qty : Int])
      BY <1>1, <1>2, OfScope
<1>4. DOMAIN job[p].lines = 1 .. Len(job[p].lines) /\ Len(job[p].lines) \in Nat
      BY <1>3
<1>5. IsFiniteSet(DOMAIN job[p].lines)
      BY <1>4, FS_Interval
<1>6. \A i \in DOMAIN job[p].lines : job[p].lines[i] \in [material : Materials, qty : Int]
      BY <1>3, <1>4, ElementOfSeq
<1>7. \A i \in DOMAIN job[p].lines :
           job[p].lines[i].material \in Materials /\ job[p].lines[i].qty \in Int
      BY <1>6
<1>8. ASSUME Len(job[p].seen) = Len(scope.sheet.lines), NEW i \in DOMAIN job[p].lines,
             OnSheet(job[p].lines[i].material) # {}
      PROVE  Seen(p, job[p].lines[i].material) \in Positions /\ Cost(p, i) \in Int
  <2> DEFINE m == job[p].lines[i].material
             k == CHOOSE j \in OnSheet(m) : TRUE
  <2>1. k \in OnSheet(m)
        BY <1>8
  <2>2. scope.sheet.lines \in Seq([material : Materials, qty : Int, unit : {"bf", "ea"}])
        BY <1>1, OfScope
  <2>3. k \in 1 .. Len(job[p].seen)
    <3>1. k \in DOMAIN scope.sheet.lines
          BY <2>1 DEF OnSheet
    <3>2. DOMAIN scope.sheet.lines = 1 .. Len(scope.sheet.lines)
          BY <2>2
    <3>3. Len(job[p].seen) = Len(scope.sheet.lines)
          BY <1>8
    <3> HIDE DEF k
    <3>4. QED
          BY <3>1, <3>2, <3>3
  <2>4. job[p].seen[k] \in Positions
        BY <1>1, <2>3, ElementOfSeq
  <2>5. Seen(p, m) \in Positions
        BY <2>4 DEF Seen
  <2>6. Seen(p, m).avg \in Int
        BY <2>5 DEF Positions
  <2>7. QED
        BY <1>7, <2>5, <2>6, Products DEF Cost
<1>9. QED
      BY <1>1, <1>4, <1>5, <1>7, <1>8

\* A command begins with what it was asked.
LEMMA StartTyped ==
    ASSUME TInv, NEW p \in Procs,
           LockOrReopen(p) \/ ReceiveMaterials(p) \/ CompleteBuild(p) \/ AdjustInventory(p)
    PROVE  TInv'
<1>1. /\ pc[p] = "idle" /\ Typed(p) /\ MInv /\ scope' = scope /\ scope \in Scopes
      /\ UNCHANGED <<position, consumptions, documents>> /\ Materials' = Materials
      BY DEF TInv, LockOrReopen, ReceiveMaterials, CompleteBuild, AdjustInventory, Command, tables,
             Materials
<1>2. job[p] = NoJob
  <2>1. job[p].doc.kind = "none"
        BY <1>1, Fields DEF KindsAt
  <2>2. QED
        BY <1>1, <2>1 DEF Typed
<1>3. /\ NoJob.seen = <<>> /\ NoJob.doc.raw = 0 /\ NoJob.at = 1 /\ DOMAIN job = Procs
      /\ DOMAIN pc = Procs /\ Shaped(NoJob)
      BY <1>1, Fields DEF NoJob, NoDoc
<1>4. Typed(p)'
  <2>1. CASE LockOrReopen(p)
        BY <1>1, <2>1, StaysTyped DEF LockOrReopen
  <2>2. CASE ReceiveMaterials(p)
    <3>1. PICK r \in scope.receipts :
              /\ pc' = [pc EXCEPT ![p] = "read"]
              /\ job' = [job EXCEPT ![p].lines = r.lines, ![p].total = r.freight,
                                    ![p].freight = AllocateFreight(r.lines, r.freight),
                                    ![p].doc.kind = "receipt"]
          BY <2>2 DEF ReceiveMaterials, Goto
    <3>2. /\ pc'[p] = "read" /\ job'[p].lines = r.lines /\ job'[p].total = r.freight
          /\ job'[p].freight = AllocateFreight(r.lines, r.freight)
          /\ job'[p].doc.kind = "receipt" /\ job'[p].seen = <<>> /\ job'[p].doc.raw = 0
          /\ job'[p].at = 1
          BY <1>2, <1>3, <3>1 DEF Shaped
    <3>3. AllocateFreight(r.lines, r.freight)' = AllocateFreight(r.lines, r.freight)
          BY <1>1 DEF AllocateFreight, Weights, Tracked
    <3>4. QED
          BY <1>1, <3>2, <3>3 DEF Typed, ReceiptTyped
  <2>3. CASE CompleteBuild(p)
    <3>1. PICK b \in scope.builds :
              /\ pc' = [pc EXCEPT ![p] = "readSheet"]
              /\ job' = [job EXCEPT ![p].lines = b.uses, ![p].build = b.built,
                                    ![p].doc.kind = "build"]
          BY <2>3 DEF CompleteBuild, Goto
    <3>2. /\ pc'[p] = "readSheet" /\ job'[p].lines = b.uses
          /\ job'[p].doc.kind = "build" /\ job'[p].seen = <<>> /\ job'[p].doc.raw = 0
          /\ job'[p].at = 1
          BY <1>2, <1>3, <3>1 DEF Shaped
    <3>3. QED
          BY <1>1, <3>2 DEF Typed, BuildTyped
  <2>4. CASE AdjustInventory(p)
    <3>1. PICK n \in scope.counts :
              job' = [job EXCEPT ![p].doc.kind = "adjustment", ![p].doc.raw = n]
          BY <2>4 DEF AdjustInventory
    <3>2. job'[p].doc.kind = "adjustment" /\ job'[p].doc.raw = n /\ job'[p].seen = <<>>
          BY <1>2, <1>3, <3>1 DEF Shaped
    <3>3. n \in Int
          BY <1>1, OfScope
    <3>4. QED
          BY <3>2, <3>3 DEF Typed
  <2>5. QED
        BY <2>1, <2>2, <2>3, <2>4
<1>5. QED
      BY <1>1, <1>4, TypedStep DEF TInv, Process

\* What is read is a row of the table.
LEMMA ReadTyped == ASSUME TInv, NEW p \in Procs, ReadMaterial(p) PROVE TInv'
<1> DEFINE m == Reads(p)[Len(job[p].seen) + 1]
<1>1. /\ pc[p] \in {"read", "readSheet"} /\ Len(job[p].seen) < Len(Reads(p))
      /\ job' = [job EXCEPT ![p].seen = Append(@, position[Reads(p)[Len(@) + 1]])]
      /\ UNCHANGED <<scope, pc, position, consumptions, documents>>
      BY DEF ReadMaterial, tables
<1>2. /\ Typed(p) /\ MInv /\ job[p].seen \in Seq(Positions) /\ Len(job[p].seen) \in Nat
      /\ Shaped(job[p]) /\ DOMAIN job = Procs /\ job[p].doc.kind \in KindsAt(pc[p])
      BY Fields DEF TInv, Typed
<1>3. m \in Materials
  <2>1. CASE pc[p] = "read"
    <3>1. /\ job[p].doc.kind = "receipt"
          /\ Reads(p) = [i \in DOMAIN job[p].lines |-> job[p].lines[i].material]
          BY <1>2, <2>1 DEF KindsAt, Reads
    <3>2. DOMAIN job[p].lines = 1 .. Len(job[p].lines) /\ Len(job[p].lines) \in Nat
          BY <3>1, ReceiptFacts
    <3>3. Len(Reads(p)) = Len(job[p].lines)
          BY <3>1, <3>2
    <3>4. Len(job[p].seen) + 1 \in DOMAIN job[p].lines
          BY <1>1, <1>2, <3>2, <3>3
    <3>5. QED
          BY <3>1, <3>4, ReceiptFacts
  <2>2. CASE pc[p] = "readSheet"
    <3>1. Reads(p) = [i \in DOMAIN scope.sheet.lines |-> scope.sheet.lines[i].material]
          BY <2>2 DEF Reads
    <3>2. scope.sheet.lines \in Seq([material : Materials, qty : Int, unit : {"bf", "ea"}])
          BY OfScope DEF TInv
    <3>3. DOMAIN scope.sheet.lines = 1 .. Len(scope.sheet.lines) /\ Len(scope.sheet.lines) \in Nat
          BY <3>2
    <3>4. Len(Reads(p)) = Len(scope.sheet.lines)
          BY <3>1, <3>3
    <3>5. Len(job[p].seen) + 1 \in 1 .. Len(scope.sheet.lines)
          BY <1>1, <1>2, <3>3, <3>4
    <3>6. scope.sheet.lines[Len(job[p].seen) + 1] \in
              [material : Materials, qty : Int, unit : {"bf", "ea"}]
          BY <3>2, <3>5, ElementOfSeq
    <3>7. QED
          BY <3>1, <3>3, <3>5, <3>6
  <2>3. QED
        BY <1>1, <2>1, <2>2
<1>4. position[m] \in Positions
      BY <1>3 DEF TInv
<1>5. Append(job[p].seen, position[m]) \in Seq(Positions)
      BY <1>2, <1>4
<1>6. /\ job'[p].seen = Append(job[p].seen, position[m])
      /\ job'[p].lines = job[p].lines /\ job'[p].total = job[p].total
      /\ job'[p].freight = job[p].freight /\ job'[p].at = job[p].at /\ job'[p].doc = job[p].doc
      BY <1>1, <1>2 DEF Shaped
<1>7. \A l, f : AllocateFreight(l, f)' = AllocateFreight(l, f)
      BY <1>1 DEF AllocateFreight, Weights, Tracked
<1>8. Typed(p)'
  <2>1. CASE pc[p] = "read"
    <3>1. job[p].doc.kind = "receipt"
          BY <1>2, <2>1 DEF KindsAt
    <3>2. ReceiptTyped(p)
          BY <1>2, <3>1 DEF Typed
    <3>3. ReceiptTyped(p)'
          BY <1>1, <1>6, <1>7, <2>1, <3>2 DEF ReceiptTyped
    <3>4. QED
          BY <1>2, <1>5, <1>6, <3>1, <3>3 DEF Typed
  <2>2. CASE pc[p] = "readSheet"
    <3>1. job[p].doc.kind = "build"
          BY <1>2, <2>2 DEF KindsAt
    <3>2. BuildTyped(p)
          BY <1>2, <3>1 DEF Typed
    <3>3. BuildTyped(p)'
          BY <1>1, <1>6, <2>2, <3>2 DEF BuildTyped
    <3>4. QED
          BY <1>2, <1>5, <1>6, <3>1, <3>3 DEF Typed
  <2>3. QED
        BY <1>1, <2>1, <2>2
<1>9. QED
      BY <1>1, <1>8, TypedStep DEF TInv, Process, Materials

LEMMA ReceiptReadTyped == ASSUME TInv, NEW p \in Procs, ReceiptRead(p) PROVE TInv'
<1>1. /\ pc[p] = "read" /\ Len(job[p].seen) = Len(job[p].lines)
      /\ pc' = [pc EXCEPT ![p] = "position"]
      /\ UNCHANGED <<scope, job, position, consumptions, documents>>
      BY DEF ReceiptRead, tables, Goto
<1>2. MInv /\ Typed(p) /\ DOMAIN pc = Procs /\ job[p].doc.kind = "receipt"
      BY <1>1, Fields DEF TInv, KindsAt
<1>3. 1 \in DOMAIN job[p].lines
      BY <1>2, ReceiptFacts
<1>4. pc'[p] = "position"
      BY <1>1, <1>2
<1>5. \A l, f : AllocateFreight(l, f)' = AllocateFreight(l, f)
      BY <1>1 DEF AllocateFreight, Weights, Tracked
<1>6. Typed(p)'
      BY <1>1, <1>2, <1>3, <1>4, <1>5 DEF Typed, ReceiptTyped
<1>7. QED
      BY <1>1, <1>6, TypedStep DEF TInv, Process, Materials

\* What a receipt line or a consumption leaves of a material.
LEMMA MovedTyped ==
    ASSUME TInv, NEW m \in Materials, NEW v \in Int, NEW q \in Int,
           position' = [position EXCEPT ![m] = Position(v, q)]
    PROVE  position' \in [Materials -> Positions]
BY PositionTyped DEF TInv

LEMMA ReceiveTyped == ASSUME TInv, NEW p \in Procs, ReceiveLine(p) PROVE TInv'
<1> DEFINE line == job[p].lines[job[p].at]
           seen == job[p].seen[job[p].at]
           v == seen.value + Landed(p)
           q == seen.qty + Tracked(line.material, line.qty)
<1>1. /\ pc[p] = "position"
      /\ position' = [position EXCEPT ![line.material] = Position(v, q)]
      /\ pc' = [pc EXCEPT ![p] = "lot"]
      /\ UNCHANGED <<scope, job, consumptions, documents>>
      BY DEF ReceiveLine, Goto, SetMaterialPosition
<1>2. MInv /\ Typed(p) /\ DOMAIN pc = Procs /\ job[p].doc.kind = "receipt"
      BY <1>1, Fields DEF TInv, KindsAt
<1>3. job[p].at \in DOMAIN job[p].lines /\ Len(job[p].seen) = Len(job[p].lines)
      BY <1>1, <1>2, ReceiptFacts DEF ReceiptTyped
<1>4. /\ line.material \in Materials /\ Landed(p) \in Int /\ Tracked(line.material, line.qty) \in Int
      /\ seen \in Positions
      BY <1>2, <1>3, ReceiptFacts DEF Landed
<1>5. v \in Int /\ q \in Int
  <2>1. seen.value \in Int /\ seen.qty \in Int
        BY <1>4 DEF Positions
  <2>2. QED
        BY <1>4, <2>1
<1>6. position' \in [Materials -> Positions]
  <2> HIDE DEF v, q
  <2>1. QED
        BY <1>1, <1>4, <1>5, MovedTyped
<1>7. pc'[p] = "lot"
      BY <1>1, <1>2
<1>8. \A l, f : AllocateFreight(l, f)' = AllocateFreight(l, f)
      BY <1>1 DEF AllocateFreight, Weights, Tracked
<1>9. Typed(p)'
      BY <1>1, <1>2, <1>3, <1>7, <1>8 DEF Typed, ReceiptTyped
<1>10. QED
       BY <1>1, <1>6, <1>9, TypedStep DEF TInv, Process

LEMMA LotTyped == ASSUME TInv, NEW p \in Procs, InsertMaterialLot(p) PROVE TInv'
<1> DEFINE done == [job[p] EXCEPT !.doc.raw = @ + Landed(p)]
<1>1. pc[p] = "lot" /\ UNCHANGED <<scope, position, consumptions, documents>>
      BY DEF InsertMaterialLot
<1>2. /\ MInv /\ Typed(p) /\ DOMAIN pc = Procs /\ DOMAIN job = Procs /\ Shaped(job[p])
      /\ job[p].doc.kind = "receipt" /\ After(p, "position") = "save"
      BY <1>1, Fields, AfterWrite DEF TInv, KindsAt
<1>3. \/ /\ job[p].at < Len(job[p].lines)
         /\ pc' = [pc EXCEPT ![p] = "position"]
         /\ job' = [job EXCEPT ![p] = [done EXCEPT !.at = @ + 1]]
      \/ /\ pc' = [pc EXCEPT ![p] = "save"]
         /\ job' = [job EXCEPT ![p] = done]
      BY <1>2 DEF InsertMaterialLot, Proceed, Goto
<1>4. job[p].at \in DOMAIN job[p].lines /\ Len(job[p].seen) = Len(job[p].lines)
      BY <1>1, <1>2, ReceiptFacts DEF ReceiptTyped
<1>5. /\ done.lines = job[p].lines /\ done.total = job[p].total /\ done.freight = job[p].freight
      /\ done.seen = job[p].seen /\ done.at = job[p].at /\ done.doc.kind = "receipt"
      /\ done.doc.raw = job[p].doc.raw + Landed(p) /\ Shaped(done)
      BY <1>2 DEF Shaped
<1>6. done.doc.raw \in Int
      BY <1>2, <1>4, <1>5, ReceiptFacts DEF Landed, Typed
<1>7. \A l, f : AllocateFreight(l, f)' = AllocateFreight(l, f)
      BY <1>1 DEF AllocateFreight, Weights, Tracked
<1> HIDE DEF done
<1>8. /\ job'[p].lines = job[p].lines /\ job'[p].total = job[p].total
      /\ job'[p].freight = job[p].freight /\ job'[p].seen = job[p].seen
      /\ job'[p].doc = done.doc
      /\ \/ pc'[p] = "position" /\ job'[p].at = job[p].at + 1 /\ job[p].at < Len(job[p].lines)
         \/ pc'[p] = "save"
  <2> DEFINE next == [done EXCEPT !.at = @ + 1]
  <2>1. /\ next.lines = done.lines /\ next.total = done.total /\ next.freight = done.freight
        /\ next.seen = done.seen /\ next.doc = done.doc /\ next.at = done.at + 1
        BY <1>5 DEF Shaped
  <2> HIDE DEF next
  <2>2. \/ pc'[p] = "position" /\ job'[p] = next /\ job[p].at < Len(job[p].lines)
        \/ pc'[p] = "save" /\ job'[p] = done
        BY <1>2, <1>3 DEF next
  <2>3. QED
        BY <1>5, <2>1, <2>2
<1>9. pc'[p] = "position" => job'[p].at \in DOMAIN job[p].lines
      BY <1>2, <1>4, <1>8, ReceiptFacts
<1>10. ReceiptTyped(p)'
       BY <1>1, <1>2, <1>4, <1>7, <1>8, <1>9 DEF Typed, ReceiptTyped
<1>11. Typed(p)'
       BY <1>2, <1>5, <1>6, <1>8, <1>10 DEF Typed
<1>12. QED
       BY <1>1, <1>11, TypedStep DEF TInv, Process, Materials

LEMMA FinishTyped ==
    ASSUME TInv, NEW p \in Procs, Finish(p) PROVE Typed(p)'
<1>1. job'[p] = NoJob
      BY Fields DEF TInv, Finish, Goto
<1>2. QED
      BY <1>1, NoJobTyped

LEMMA PriceTyped == ASSUME TInv, NEW p \in Procs, PriceBuild(p) PROVE TInv'
<1>1. /\ pc[p] = "readSheet" /\ Len(job[p].seen) = Len(scope.sheet.lines)
      /\ UNCHANGED <<scope, position, consumptions, documents>>
      BY DEF PriceBuild, tables
<1>2. /\ MInv /\ Typed(p) /\ DOMAIN pc = Procs /\ DOMAIN job = Procs /\ Shaped(job[p])
      /\ job[p].doc.kind = "build"
      BY <1>1, Fields DEF TInv, KindsAt
<1>3. CASE Finish(p)
      BY <1>1, <1>3, FinishTyped, TypedStep DEF TInv, Process, Materials
<1>4. CASE ~Finish(p)
  <2> DEFINE f == job[p].build * (Standard(p).material + Standard(p).other)
             a == job[p].build * Standard(p).other
  <2>1. /\ \A i \in DOMAIN job[p].lines : OnSheet(job[p].lines[i].material) # {}
        /\ pc' = [pc EXCEPT ![p] = "save"]
        /\ job' = [job EXCEPT ![p].doc.finished = f, ![p].doc.applied = a,
                              ![p].doc.raw = RawUsed(p)]
        BY <1>4 DEF PriceBuild, Goto
  <2> HIDE DEF f, a
  <2>2. /\ pc'[p] = "save" /\ job'[p].doc.kind = "build" /\ job'[p].doc.raw = RawUsed(p)
        /\ job'[p].lines = job[p].lines /\ job'[p].seen = job[p].seen /\ job'[p].at = job[p].at
        BY <1>2, <2>1 DEF Shaped
  <2>3. RawUsed(p) \in Int
    <3>1. IsFiniteSet(DOMAIN job[p].lines) /\ \A i \in DOMAIN job[p].lines : Cost(p, i) \in Int
          BY <1>1, <1>2, <2>1, BuildFacts
    <3> DEFINE c == [i \in DOMAIN job[p].lines |-> Cost(p, i)]
    <3>2. DOMAIN c = DOMAIN job[p].lines /\ \A i \in DOMAIN job[p].lines : c[i] \in Int
          BY <3>1
    <3>3. RawUsed(p) = SumFunctionOnSet(c, DOMAIN job[p].lines)
          BY <3>2 DEF RawUsed, SumFunction
    <3> HIDE DEF c
    <3>4. QED
          BY <3>1, <3>2, <3>3, SumIsInt
  <2>4. RawUsed(p)' = RawUsed(p)
    <3>1. scope' = scope /\ job'[p].lines = job[p].lines /\ job'[p].seen = job[p].seen
          BY <1>1, <2>2
    <3>2. QED
          BY <3>1 DEF RawUsed, Cost, Seen, OnSheet
  <2>5. BuildTyped(p)'
        BY <1>1, <1>2, <2>1, <2>2, <2>4 DEF Typed, BuildTyped, OnSheet
  <2>6. Typed(p)'
        BY <1>2, <2>2, <2>3, <2>5 DEF Typed
  <2>7. QED
        BY <1>1, <2>6, TypedStep DEF TInv, Process, Materials
<1>5. QED
      BY <1>3, <1>4

\* Where a priced build is, its costs stay as they are.
LEMMA BuildKeeps ==
    ASSUME NEW p \in Procs, BuildTyped(p), scope' = scope, pc[p] # "readSheet",
           job[p].seen \in Seq(Positions), job[p].doc.raw \in Int, job[p].doc.kind = "build",
           job'[p].lines = job[p].lines, job'[p].seen = job[p].seen, job'[p].doc = job[p].doc,
           IF pc'[p] \in {"relieve", "consume"} THEN job'[p].at \in 1 .. Len(job[p].lines) + 1
           ELSE job'[p].at = 1
    PROVE  Typed(p)'
<1>1. RawUsed(p)' = RawUsed(p)
      BY DEF RawUsed, Cost, Seen, OnSheet
<1>2. BuildTyped(p)'
      BY <1>1 DEF BuildTyped, OnSheet
<1>3. QED
      BY <1>2 DEF Typed

LEMMA RelieveTyped == ASSUME TInv, NEW p \in Procs, RelieveMaterial(p) PROVE TInv'
<1> DEFINE use == job[p].lines[job[p].at]
           seen == Seen(p, use.material)
           v == Relieved(seen, use.qty, Cost(p, job[p].at))
           q == seen.qty - use.qty
<1>1. pc[p] = "relieve" /\ UNCHANGED <<scope, consumptions, documents>>
      BY DEF RelieveMaterial
<1>2. /\ MInv /\ Typed(p) /\ DOMAIN pc = Procs /\ DOMAIN job = Procs /\ Shaped(job[p])
      /\ job[p].doc.kind = "build" /\ After(p, "relieve") = "record"
      BY <1>1, Fields, AfterWrite DEF TInv, KindsAt
<1>3. /\ BuildTyped(p) /\ job[p].at \in 1 .. Len(job[p].lines) + 1 /\ Len(job[p].lines) \in Nat
      /\ DOMAIN job[p].lines = 1 .. Len(job[p].lines)
      BY <1>1, <1>2, BuildFacts DEF Typed, BuildTyped
<1>4. CASE job[p].at <= Len(job[p].lines)
  <2>1. /\ position' = [position EXCEPT ![use.material] = Position(v, q)] /\ pc' = pc
        /\ job' = [job EXCEPT ![p] = [job[p] EXCEPT !.at = @ + 1]]
        BY <1>4 DEF RelieveMaterial, SetMaterialPosition
  <2>2. job[p].at \in DOMAIN job[p].lines
        BY <1>3, <1>4
  <2>3. /\ use.material \in Materials /\ use.qty \in Int /\ seen \in Positions
        /\ Cost(p, job[p].at) \in Int
        BY <1>1, <1>2, <1>3, <2>2, BuildFacts DEF BuildTyped
  <2>4. v \in Int /\ q \in Int
    <3>1. seen.value \in Int /\ seen.qty \in Int
          BY <2>3 DEF Positions
    <3>2. QED
          BY <2>3, <3>1 DEF Relieved
  <2>5. position' \in [Materials -> Positions]
    <3> HIDE DEF v, q
    <3>1. QED
          BY <2>1, <2>3, <2>4, MovedTyped
  <2>6. /\ pc'[p] = "relieve" /\ job'[p].lines = job[p].lines /\ job'[p].seen = job[p].seen
        /\ job'[p].doc = job[p].doc /\ job'[p].at = job[p].at + 1
        BY <1>1, <1>2, <2>1 DEF Shaped
  <2>7. job'[p].at \in 1 .. Len(job[p].lines) + 1
        BY <1>3, <1>4, <2>6
  <2>8. Typed(p)'
        BY <1>1, <1>2, <1>3, <2>6, <2>7, BuildKeeps DEF Typed
  <2>9. QED
        BY <1>1, <2>5, <2>8, TypedStep DEF TInv, Process
<1>5. CASE ~(job[p].at <= Len(job[p].lines))
  <2>1. /\ pc' = [pc EXCEPT ![p] = "record"] /\ UNCHANGED position
        /\ job' = [job EXCEPT ![p] = [job[p] EXCEPT !.at = 1]]
        BY <1>2, <1>5 DEF RelieveMaterial, Proceed, Goto
  <2>2. /\ pc'[p] = "record" /\ job'[p].lines = job[p].lines /\ job'[p].seen = job[p].seen
        /\ job'[p].doc = job[p].doc /\ job'[p].at = 1
        BY <1>2, <2>1 DEF Shaped
  <2>3. Typed(p)'
        BY <1>1, <1>2, <1>3, <2>2, BuildKeeps DEF Typed
  <2>4. QED
        BY <1>1, <2>1, <2>3, TypedStep DEF TInv, Process, Materials
<1>6. QED
      BY <1>4, <1>5

LEMMA RecordTyped == ASSUME TInv, NEW p \in Procs, InsertBuild(p) PROVE TInv'
<1>1. pc[p] = "record" /\ UNCHANGED <<scope, position, consumptions, documents>>
      BY DEF InsertBuild
<1>2. /\ MInv /\ Typed(p) /\ DOMAIN pc = Procs /\ DOMAIN job = Procs /\ Shaped(job[p])
      /\ job[p].doc.kind = "build" /\ After(p, "record") = "consume"
      BY <1>1, Fields, AfterWrite DEF TInv, KindsAt
<1>3. BuildTyped(p) /\ job[p].at = 1 /\ Len(job[p].lines) \in Nat
      BY <1>1, <1>2, BuildFacts DEF Typed, BuildTyped
<1>4. /\ pc' = [pc EXCEPT ![p] = "consume"]
      /\ job' = [job EXCEPT ![p] = [job[p] EXCEPT !.build = Len(builds) + 1]]
      BY <1>2 DEF InsertBuild, Proceed, Goto
<1>5. /\ pc'[p] = "consume" /\ job'[p].lines = job[p].lines /\ job'[p].seen = job[p].seen
      /\ job'[p].doc = job[p].doc /\ job'[p].at = 1
      BY <1>2, <1>3, <1>4 DEF Shaped
<1>6. Typed(p)'
      BY <1>1, <1>2, <1>3, <1>5, BuildKeeps DEF Typed
<1>7. QED
      BY <1>1, <1>6, TypedStep DEF TInv, Process, Materials

LEMMA ConsumeTyped == ASSUME TInv, NEW p \in Procs, InsertBuildConsumption(p) PROVE TInv'
<1>1. pc[p] = "consume" /\ UNCHANGED <<scope, position, documents>>
      BY DEF InsertBuildConsumption
<1>2. /\ MInv /\ Typed(p) /\ DOMAIN pc = Procs /\ DOMAIN job = Procs /\ Shaped(job[p])
      /\ job[p].doc.kind = "build"
      BY <1>1, Fields DEF TInv, KindsAt
<1>3. /\ BuildTyped(p) /\ job[p].at \in 1 .. Len(job[p].lines) + 1 /\ Len(job[p].lines) \in Nat
      BY <1>1, <1>2, BuildFacts DEF Typed, BuildTyped
<1>4. CASE job[p].at <= Len(job[p].lines)
  <2>1. PICK row : consumptions' = Append(consumptions, row)
        BY <1>4 DEF InsertBuildConsumption
  <2>2. IsSeq(consumptions')
        BY <2>1, Appended DEF TInv
  <2>3. pc' = pc /\ job' = [job EXCEPT ![p].at = @ + 1]
        BY <1>4 DEF InsertBuildConsumption
  <2>4. /\ pc'[p] = "consume" /\ job'[p].lines = job[p].lines /\ job'[p].seen = job[p].seen
        /\ job'[p].doc = job[p].doc /\ job'[p].at = job[p].at + 1
        BY <1>1, <1>2, <2>3 DEF Shaped
  <2>5. job'[p].at \in 1 .. Len(job[p].lines) + 1
        BY <1>3, <1>4, <2>4
  <2>6. Typed(p)'
        BY <1>1, <1>2, <1>3, <2>4, <2>5, BuildKeeps DEF Typed
  <2>7. QED
        BY <1>1, <2>2, <2>6, TypedStep DEF TInv, Process, Materials
<1>5. CASE ~(job[p].at <= Len(job[p].lines))
  <2>1. Finish(p) /\ UNCHANGED consumptions
        BY <1>5 DEF InsertBuildConsumption
  <2>2. QED
        BY <1>1, <2>1, FinishTyped, TypedStep DEF TInv, Process, Materials
<1>6. QED
      BY <1>4, <1>5

LEMMA SaveTyped == ASSUME TInv, NEW p \in Procs, SaveDocument(p) PROVE TInv'
<1>1. /\ pc[p] = "save" /\ UNCHANGED <<scope, position, consumptions>>
      /\ documents' = Append(documents, job[p].doc)
      BY DEF SaveDocument
<1>2. /\ MInv /\ Typed(p) /\ DOMAIN pc = Procs /\ DOMAIN job = Procs /\ Shaped(job[p])
      /\ job[p].doc.kind \in {"build", "receipt", "adjustment"} /\ After(p, "save") = "post"
      BY <1>1, Fields, AfterWrite DEF TInv, KindsAt
<1>3. \A i \in DOMAIN documents' : documents'[i].raw \in Int
  <2>1. /\ Extends(documents', documents) /\ DOMAIN documents' = DOMAIN documents \cup {Len(documents) + 1}
        /\ documents'[Len(documents) + 1] = job[p].doc
        BY <1>1, <1>2, Appended DEF MInv
  <2>2. QED
        BY <1>2, <2>1 DEF TInv, Extends, Typed
<1>4. CASE Finish(p)
      BY <1>1, <1>3, <1>4, FinishTyped, TypedStep DEF TInv, Process, Materials
<1>5. CASE ~Finish(p)
  <2>1. /\ pc' = [pc EXCEPT ![p] = "post"]
        /\ job' = [job EXCEPT ![p] = [job[p] EXCEPT !.number = Len(documents) + 1]]
        BY <1>2, <1>5 DEF SaveDocument, Proceed, Goto
  <2>2. /\ pc'[p] = "post" /\ job'[p].lines = job[p].lines /\ job'[p].seen = job[p].seen
        /\ job'[p].doc = job[p].doc /\ job'[p].at = job[p].at /\ job'[p].total = job[p].total
        /\ job'[p].freight = job[p].freight
        BY <1>2, <2>1 DEF Shaped
  <2>3. \A l, f : AllocateFreight(l, f)' = AllocateFreight(l, f)
        BY <1>1 DEF AllocateFreight, Weights, Tracked
  <2>4. Typed(p)'
    <3>1. CASE job[p].doc.kind = "receipt"
      <4>1. ReceiptTyped(p)
            BY <1>2, <3>1 DEF Typed
      <4>2. ReceiptTyped(p)'
            BY <1>1, <2>2, <2>3, <4>1 DEF ReceiptTyped
      <4>3. QED
            BY <1>2, <2>2, <3>1, <4>2 DEF Typed
    <3>2. CASE job[p].doc.kind = "build"
      <4>1. BuildTyped(p) /\ job[p].at = 1
            BY <1>1, <1>2, <3>2 DEF Typed, BuildTyped
      <4>2. QED
            BY <1>1, <1>2, <2>2, <3>2, <4>1, BuildKeeps DEF Typed
    <3>3. CASE job[p].doc.kind = "adjustment"
          BY <1>2, <2>2, <3>3 DEF Typed
    <3>4. QED
          BY <1>2, <3>1, <3>2, <3>3
  <2>5. QED
        BY <1>1, <1>3, <2>4, TypedStep DEF TInv, Process, Materials
<1>6. QED
      BY <1>4, <1>5

LEMMA PostTyped == ASSUME TInv, NEW p \in Procs, PostEntry(p) PROVE TInv'
<1>1. pc[p] = "post" /\ UNCHANGED <<scope, position, consumptions, documents>>
      BY DEF PostEntry
<1>2. /\ MInv /\ Typed(p) /\ DOMAIN pc = Procs /\ DOMAIN job = Procs /\ Shaped(job[p])
      /\ job[p].doc.kind \in {"build", "receipt", "adjustment"}
      /\ job[p].doc.kind = "build" => After(p, "post") = "relieve"
      /\ job[p].doc.kind # "build" => After(p, "post") = "idle"
      BY <1>1, Fields, AfterWrite DEF TInv, KindsAt
<1>3. \/ Finish(p)
      \/ /\ pc' = [pc EXCEPT ![p] = After(p, "post")]
         /\ job' = [job EXCEPT ![p] = IF After(p, "post") = "idle" THEN NoJob ELSE job[p]]
      BY DEF PostEntry, Proceed, Goto
<1>4. Typed(p)'
  <2>1. CASE Finish(p)
        BY <2>1, FinishTyped
  <2>2. CASE ~Finish(p) /\ job[p].doc.kind = "build"
    <3>1. pc'[p] = "relieve" /\ job'[p] = job[p]
          BY <1>2, <1>3, <2>2
    <3>2. BuildTyped(p) /\ job[p].at = 1 /\ Len(job[p].lines) \in Nat
          BY <1>1, <1>2, <2>2, BuildFacts DEF Typed, BuildTyped
    <3>3. QED
          BY <1>1, <1>2, <2>2, <3>1, <3>2, BuildKeeps DEF Typed
  <2>3. CASE ~Finish(p) /\ job[p].doc.kind # "build"
    <3>1. job'[p] = NoJob
          BY <1>2, <1>3, <2>3
    <3>2. QED
          BY <3>1, NoJobTyped
  <2>4. QED
        BY <2>1, <2>2, <2>3
<1>5. QED
      BY <1>1, <1>4, TypedStep DEF TInv, Process, Materials

LEMMA InitTInv == Init => TInv
<1>1. SUFFICES ASSUME Init PROVE TInv
      OBVIOUS
<1>2. MInv
      BY <1>1, InitMInv
<1>3. /\ scope \in Scopes /\ documents = <<>> /\ consumptions = <<>>
      /\ position = [m \in Materials |-> Position(0, 0)] /\ \A p \in Procs : job[p] = NoJob
      BY <1>1 DEF Init
<1>4. position \in [Materials -> Positions] /\ IsSeq(consumptions)
      BY <1>3, PositionTyped DEF IsSeq
<1>5. \A p \in Procs : Typed(p)
  <2>1. SUFFICES ASSUME NEW p \in Procs PROVE Typed(p)
        OBVIOUS
  <2>2. job[p] = NoJob
        BY <1>3
  <2>3. job[p].seen = <<>> /\ job[p].doc.raw = 0 /\ job[p].doc.kind = "none"
        BY <2>2 DEF NoJob, NoDoc
  <2>4. QED
        BY <2>2, <2>3 DEF Typed
<1>6. QED
      BY <1>2, <1>3, <1>4, <1>5 DEF TInv

LEMMA NextTInv == ASSUME TInv, [Next]_vars PROVE TInv'
<1>1. CASE UNCHANGED vars
  <2>1. MInv'
        BY NextMInv DEF TInv
  <2>2. \A p \in Procs : Typed(p)'
        BY <1>1, StaysTyped DEF TInv, vars
  <2>3. QED
        BY <1>1, <2>1, <2>2 DEF TInv, vars, tables, Materials
<1>2. ASSUME NEW p \in Procs, Process(p) PROVE TInv'
  <2>1. CASE Crash(p)
    <3>1. Finish(p) /\ UNCHANGED <<scope, position, consumptions, documents>>
          BY <2>1 DEF Crash, tables
    <3>2. QED
          BY <1>2, <3>1, FinishTyped, TypedStep DEF TInv, Materials
  <2>2. QED
        BY <1>2, <2>1, StartTyped, ReadTyped, ReceiptReadTyped, ReceiveTyped, LotTyped, PriceTyped,
           RelieveTyped, RecordTyped, ConsumeTyped, SaveTyped, PostTyped DEF Process
<1>3. QED
      BY <1>1, <1>2 DEF Next

LEMMA AlwaysTInv == Spec => []TInv
BY InitTInv, NextTInv, PTL DEF Spec

\* allocate_freight cuts shares down and hands out the cents left by the largest
\* fraction: for every receipt the shares add up to the freight, none is a cent
\* or more off its exact part, and what weighs nothing pays nothing.
THEOREM FreightAllocatedHolds == Spec => []FreightAllocated
<1>1. TInv => FreightAllocated
  <2>1. SUFFICES ASSUME TInv, NEW p \in Procs, job[p].doc.kind = "receipt"
                 PROVE  Allocated(job[p].lines, job[p].freight, job[p].total)
        BY DEF FreightAllocated, Allocated
  <2>2. QED
        BY <2>1, ReceiptFacts
<1>2. QED
      BY <1>1, AlwaysTInv, PTL

\* set_material_position writes value and quantity together with their average:
\* it is the quotient rounded to the cent in every state, for stocks taken below
\* nothing too.
THEOREM AveragesHoldHolds == Spec => []AveragesHold
<1>1. TInv => AveragesHold
  <2>1. SUFFICES ASSUME TInv, NEW m \in Materials, position[m].qty # 0
                 PROVE  LET off == 2 * (position[m].value - position[m].avg * position[m].qty)
                            qty == position[m].qty
                        IN IF qty > 0 THEN off \in -qty .. qty ELSE off \in qty .. -qty
        BY DEF AveragesHold
  <2>2. position[m] \in Positions
        BY <2>1 DEF TInv
  <2>3. /\ position[m].value \in Int /\ position[m].qty \in Int
        /\ position[m].avg = Rounded(position[m].value, position[m].qty)
        BY <2>1, <2>2 DEF Positions, Average
  <2> DEFINE v == position[m].value
             q == position[m].qty
             off == 2 * (v - Rounded(v, q) * q)
  <2>4. v \in Int /\ q \in Int /\ q # 0
        BY <2>1, <2>3
  <2>5. (q > 0 => off \in -q .. q) /\ (q < 0 => off \in q .. -q)
    <3> HIDE DEF v, q
    <3>1. QED
          BY <2>4, RoundedNear
  <2>6. off = 2 * (v - position[m].avg * q)
        BY <2>3
  <2> HIDE DEF off
  <2>7. IF q > 0 THEN off \in -q .. q ELSE off \in q .. -q
        BY <2>4, <2>5
  <2>8. QED
        BY <2>6, <2>7
<1>2. QED
      BY <1>1, AlwaysTInv, PTL

-----------------------------------------------------------------------------
(* What is under way between the stock and the account. *)

\* What a receipt has put on the shelf and not posted, or a build has posted
\* and not taken from it.
Pending(p) ==
    IF pc[p] \in {"position", "save", "post"} /\ job[p].doc.kind = "receipt" THEN job[p].doc.raw
    ELSE IF pc[p] = "lot" THEN job[p].doc.raw + Landed(p)
    ELSE IF pc[p] = "relieve" THEN Remaining(p)
    ELSE 0

\* What a document's entry moved of the materials.
Moved(doc) == IF doc.kind = "adjustment" THEN 0 ELSE RawMoved(doc)

\* What 1300 was moved by receipts and builds.
Booked == SumFunction([i \in DOMAIN entries |-> Moved(documents[entries[i]])])

Tied == OnHand = Booked + SumFunction([p \in Procs |-> Pending(p)])

\* What is left of a priced build.
LEMMA RemainingFacts ==
    ASSUME TInv, NEW p \in Procs, job[p].doc.kind = "build", pc[p] # "readSheet"
    PROVE  /\ Remaining(p) \in Int
           /\ job[p].at = 1 => Remaining(p) = job[p].doc.raw
           /\ job[p].at = Len(job[p].lines) + 1 => Remaining(p) = 0
           /\ job[p].at \in DOMAIN job[p].lines =>
                /\ Cost(p, job[p].at) \in Int
                /\ Remaining(p) = Cost(p, job[p].at)
                       + SumFunctionOnSet(CostsOf(p), job[p].at + 1 .. Len(job[p].lines))
                /\ SumFunctionOnSet(CostsOf(p), job[p].at + 1 .. Len(job[p].lines)) \in Int
<1> DEFINE n == Len(job[p].lines)
           c == CostsOf(p)
           at == job[p].at
<1>1. /\ DOMAIN job[p].lines = 1 .. n /\ n \in Nat /\ BuildTyped(p)
      /\ \A i \in DOMAIN job[p].lines : Cost(p, i) \in Int
      BY BuildFacts DEF BuildTyped
<1>2. /\ \A i \in 1 .. n : c[i] = Cost(p, i) /\ c[i] \in Int
      /\ DOMAIN c = 1 .. n
      BY <1>1 DEF CostsOf
<1>3. at \in 1 .. n + 1
      BY <1>1 DEF BuildTyped
<1>4. Remaining(p) = SumFunctionOnSet(c, at .. n)
      BY DEF Remaining
<1>5. job[p].doc.raw = SumFunctionOnSet(c, 1 .. n)
      BY <1>1, <1>2 DEF BuildTyped, RawUsed, CostsOf, SumFunction
<1> HIDE DEF c, n, at
<1>6. IsFiniteSet(at .. n) /\ \A i \in at .. n : c[i] \in Int
      BY <1>1, <1>2, <1>3, FS_Interval
<1>7. Remaining(p) \in Int
      BY <1>4, <1>6, SumIsInt
<1>8. at = 1 => Remaining(p) = job[p].doc.raw
      BY <1>4, <1>5
<1>9. ASSUME at = n + 1 PROVE Remaining(p) = 0
  <2>1. at .. n = {}
        BY <1>1, <1>9
  <2>2. QED
        BY <1>4, <2>1, SumEmpty
<1>10. ASSUME at \in 1 .. n
       PROVE  /\ Cost(p, at) \in Int
              /\ Remaining(p) = Cost(p, at) + SumFunctionOnSet(c, at + 1 .. n)
              /\ SumFunctionOnSet(c, at + 1 .. n) \in Int
  <2>1. at \in at .. n /\ (at .. n) \ {at} = at + 1 .. n
        BY <1>1, <1>10
  <2>2. SumFunctionOnSet(c, at .. n) = c[at] + SumFunctionOnSet(c, at + 1 .. n)
    <3> DEFINE S == at .. n
    <3>1. at \in S /\ IsFiniteSet(S) /\ \A i \in S : c[i] \in Int
          BY <1>6, <2>1
    <3>2. S \ {at} = at + 1 .. n
          BY <2>1
    <3> HIDE DEF S
    <3>3. SumFunctionOnSet(c, S) = c[at] + SumFunctionOnSet(c, S \ {at})
          BY <3>1, SumSplit
    <3>4. QED
          BY <3>2, <3>3 DEF S
  <2>3. IsFiniteSet(at + 1 .. n) /\ \A i \in at + 1 .. n : c[i] \in Int
        BY <1>6, <2>1, FS_RemoveElement
  <2>4. SumFunctionOnSet(c, at + 1 .. n) \in Int
        BY <2>3, SumIsInt
  <2>5. QED
        BY <1>2, <1>4, <1>10, <2>2, <2>4
<1>11. QED
       BY <1>1, <1>7, <1>8, <1>9, <1>10 DEF c, n, at

LEMMA PendingIsInt == ASSUME TInv, NEW p \in Procs PROVE Pending(p) \in Int
<1>1. job[p].doc.kind \in KindsAt(pc[p]) /\ Typed(p)
      BY Fields DEF TInv
<1>2. pc[p] = "lot" => Landed(p) \in Int
  <2>1. SUFFICES ASSUME pc[p] = "lot" PROVE Landed(p) \in Int
        OBVIOUS
  <2>2. job[p].doc.kind = "receipt"
        BY <1>1, <2>1 DEF KindsAt
  <2>3. job[p].at \in DOMAIN job[p].lines
        BY <2>1, <2>2, ReceiptFacts DEF ReceiptTyped
  <2>4. QED
        BY <2>2, <2>3, ReceiptFacts DEF Landed
<1>3. pc[p] = "relieve" => Remaining(p) \in Int
      BY <1>1, RemainingFacts DEF KindsAt
<1>4. QED
      BY <1>1, <1>2, <1>3 DEF Pending, Typed

\* What a process has pending stays while it does nothing.
LEMMA RemainingKept ==
    ASSUME NEW q, scope' = scope, job'[q].lines = job[q].lines, job'[q].seen = job[q].seen
    PROVE  /\ CostsOf(q)' = CostsOf(q)
           /\ job'[q].at = job[q].at => Remaining(q)' = Remaining(q)
           /\ job'[q].at = job[q].at + 1 =>
                Remaining(q)' = SumFunctionOnSet(CostsOf(q), job[q].at + 1 .. Len(job[q].lines))
<1>1. CostsOf(q)' = CostsOf(q)
      BY DEF CostsOf, Cost, Seen, OnSheet
<1>2. QED
      BY <1>1 DEF Remaining

LEMMA PendingKept ==
    ASSUME NEW q, scope' = scope, job'[q] = job[q], pc'[q] = pc[q]
    PROVE  Pending(q)' = Pending(q)
BY RemainingKept DEF Pending, Landed

\* A row written moves the stock by the difference.
LEMMA OnHandMoves ==
    ASSUME TInv, scope' = scope, NEW m \in Materials, NEW v \in Int, NEW q \in Int,
           position' = [position EXCEPT ![m] = Position(v, q)]
    PROVE  OnHand' = OnHand - position[m].value + v /\ OnHand \in Int
<1> DEFINE f == [n \in Materials |-> position[n].value]
           g == [n \in Materials |-> position'[n].value]
<1>1. /\ DOMAIN f = Materials /\ DOMAIN g = Materials /\ Materials' = Materials
      /\ \A n \in Materials : position[n].value \in Int
      BY DEF TInv, Positions, Materials
<1>2. /\ position \in [Materials -> Positions]
      /\ position'[m].value = v /\ \A n \in Materials \ {m} : position'[n] = position[n]
      BY DEF TInv, Position
<1>3. /\ \A n \in Materials : f[n] \in Int /\ g[n] \in Int
      /\ \A n \in Materials \ {m} : g[n] = f[n]
      /\ g[m] = v /\ f[m] = position[m].value
      BY <1>1, <1>2
<1>4. /\ OnHand = SumFunctionOnSet(f, Materials) /\ OnHand' = SumFunctionOnSet(g, Materials)
      BY <1>1 DEF OnHand, SumFunction
<1>5. IsFiniteSet(Materials)
      BY OfScope DEF TInv
<1> HIDE DEF f, g
<1>6. SumFunctionOnSet(g, Materials) = SumFunctionOnSet(f, Materials) - f[m] + g[m]
      BY <1>3, <1>5, SumChanged
<1>7. SumFunctionOnSet(f, Materials) \in Int
      BY <1>3, <1>5, SumIsInt
<1>8. QED
      BY <1>3, <1>4, <1>6, <1>7

LEMMA OnHandIsInt == ASSUME TInv PROVE OnHand \in Int
<1> DEFINE f == [n \in Materials |-> position[n].value]
<1>1. DOMAIN f = Materials /\ \A n \in Materials : f[n] \in Int
      BY DEF TInv, Positions
<1>2. IsFiniteSet(Materials)
      BY OfScope DEF TInv
<1>3. OnHand = SumFunctionOnSet(f, Materials)
      BY <1>1 DEF OnHand, SumFunction
<1> HIDE DEF f
<1>4. QED
      BY <1>1, <1>2, <1>3, SumIsInt

LEMMA OnHandStays ==
    ASSUME scope' = scope, position' = position PROVE OnHand' = OnHand
BY DEF OnHand, Materials

LEMMA MovedIsInt ==
    ASSUME TInv
    PROVE  /\ IsFiniteSet(DOMAIN entries)
           /\ \A i \in DOMAIN entries :
                /\ entries[i] \in DOMAIN documents
                /\ RawMoved(documents[entries[i]]) \in Int /\ Moved(documents[entries[i]]) \in Int
                /\ documents[entries[i]].raw \in Int
           /\ Booked \in Int
<1>1. /\ IsSeq(entries) /\ \A i \in DOMAIN entries : entries[i] \in DOMAIN documents
      /\ \A i \in DOMAIN documents : documents[i].raw \in Int
      BY DEF TInv, MInv
<1>2. IsFiniteSet(DOMAIN entries)
  <2>1. DOMAIN entries = 1 .. Len(entries) /\ Len(entries) \in Nat
        BY <1>1 DEF IsSeq
  <2>2. QED
        BY <2>1, FS_Interval
<1>3. \A i \in DOMAIN entries : /\ RawMoved(documents[entries[i]]) \in Int
                                /\ Moved(documents[entries[i]]) \in Int
      BY <1>1 DEF RawMoved, Moved
<1> DEFINE f == [i \in DOMAIN entries |-> Moved(documents[entries[i]])]
<1>4. DOMAIN f = DOMAIN entries /\ \A i \in DOMAIN entries : f[i] \in Int
      BY <1>3
<1>5. Booked = SumFunctionOnSet(f, DOMAIN entries)
      BY <1>4 DEF Booked, SumFunction
<1> HIDE DEF f
<1>6. Booked \in Int
      BY <1>2, <1>4, <1>5, SumIsInt
<1>7. QED
      BY <1>1, <1>2, <1>3, <1>6

\* A saved document moves nothing yet.
LEMMA BookedStays ==
    ASSUME TInv, entries' = entries, Extends(documents', documents)
    PROVE  Booked' = Booked
<1>1. \A i \in DOMAIN entries : documents'[entries'[i]] = documents[entries[i]]
      BY DEF TInv, MInv, Extends
<1> DEFINE f == [i \in DOMAIN entries |-> Moved(documents[entries[i]])]
           g == [i \in DOMAIN entries' |-> Moved(documents'[entries'[i]])]
<1>2. f = g
      BY <1>1
<1>3. QED
      BY <1>2 DEF Booked, Moved, RawMoved

\* A posted one does.
LEMMA BookedMoves ==
    ASSUME TInv, documents' = documents, NEW n \in DOMAIN documents, entries' = Append(entries, n)
    PROVE  Booked' = Booked + Moved(documents[n])
<1> DEFINE S == DOMAIN entries
           k == Len(entries) + 1
           f == [i \in S |-> Moved(documents[entries[i]])]
           g == [i \in DOMAIN entries' |-> Moved(documents[entries'[i]])]
<1>1. /\ DOMAIN entries' = S \cup {k} /\ k \notin S /\ entries'[k] = n
      /\ \A i \in S : entries'[i] = entries[i]
      BY Appended DEF TInv, MInv, Extends
<1>2. /\ IsFiniteSet(S) /\ \A i \in S : f[i] \in Int
      BY MovedIsInt
<1>3. /\ \A i \in S : g[i] = f[i]
      /\ g[k] = Moved(documents[n]) /\ DOMAIN g = S \cup {k} /\ DOMAIN f = S
      BY <1>1
<1>4. Moved(documents[n]) \in Int
      BY DEF TInv, Moved, RawMoved
<1>5. Booked = SumFunctionOnSet(f, S) /\ Booked' = SumFunctionOnSet(g, S \cup {k})
      BY <1>3 DEF Booked, SumFunction, Moved, RawMoved
<1> HIDE DEF f, g, S, k
<1>6. SumFunctionOnSet(g, S \cup {k}) = SumFunctionOnSet(f, S) + g[k]
      BY <1>1, <1>2, <1>3, <1>4, SumGrows
<1>7. QED
      BY <1>3, <1>5, <1>6

\* The three sums move together.
LEMMA TiedStep ==
    ASSUME TInv, TInv', Tied, NEW p \in Procs, scope' = scope,
           \A q \in Procs \ {p} : pc'[q] = pc[q] /\ job'[q] = job[q],
           NEW x \in Int, OnHand' = OnHand + x, NEW y \in Int, Booked' = Booked + y,
           Pending(p)' = Pending(p) + x - y
    PROVE  Tied'
<1> DEFINE f == [q \in Procs |-> Pending(q)]
           g == [q \in Procs |-> Pending(q)']
<1>1. \A q \in Procs : f[q] \in Int
      BY PendingIsInt
<1>2. \A q \in Procs \ {p} : g[q] = f[q]
      BY PendingKept
<1>3. g[p] = f[p] + x - y /\ f[p] \in Int
      BY <1>1
<1>4. \A q \in Procs : g[q] \in Int
      BY <1>1, <1>2, <1>3
<1>5. DOMAIN f = Procs /\ DOMAIN g = Procs /\ IsFiniteSet(Procs)
      BY FiniteAssumption
<1>6. /\ Tied <=> OnHand = Booked + SumFunctionOnSet(f, Procs)
      /\ Tied' <=> OnHand' = Booked' + SumFunctionOnSet(g, Procs)
      BY <1>5 DEF Tied, SumFunction
<1> HIDE DEF f, g
<1>7. SumFunctionOnSet(g, Procs) = SumFunctionOnSet(f, Procs) - f[p] + g[p]
      BY <1>1, <1>2, <1>4, <1>5, SumChanged
<1>8. SumFunctionOnSet(f, Procs) \in Int /\ Booked \in Int
      BY <1>1, <1>5, SumIsInt, MovedIsInt
<1>9. QED
      BY <1>3, <1>6, <1>7, <1>8

\* Nothing on the shelf, nothing in the account, nothing pending changes.
LEMMA TiedStays ==
    ASSUME TInv, TInv', Tied, NEW p \in Procs, Process(p),
           position' = position, entries' = entries, Extends(documents', documents),
           Pending(p)' = Pending(p)
    PROVE  Tied'
<1>1. scope' = scope /\ \A q \in Procs \ {p} : pc'[q] = pc[q] /\ job'[q] = job[q]
      BY Others DEF TInv
<1>2. OnHand' = OnHand /\ Booked' = Booked
      BY <1>1, OnHandStays, BookedStays
<1> DEFINE f == [q \in Procs |-> Pending(q)]
           g == [q \in Procs |-> Pending(q)']
<1>3. f = g
  <2>1. \A q \in Procs : Pending(q)' = Pending(q)
    <3>1. SUFFICES ASSUME NEW q \in Procs PROVE Pending(q)' = Pending(q)
          OBVIOUS
    <3>2. CASE q = p
          BY <3>2
    <3>3. CASE q # p
          BY <1>1, <3>3, PendingKept
    <3>4. QED
          BY <3>2, <3>3
  <2>2. QED
        BY <2>1
<1>4. QED
      BY <1>2, <1>3 DEF Tied

\* Giving up with nothing pending.
LEMMA TiedFinish ==
    ASSUME TInv, TInv', Tied, NEW p \in Procs, Process(p), Finish(p),
           position' = position, entries' = entries, Extends(documents', documents),
           Pending(p) = 0
    PROVE  Tied'
<1>1. pc'[p] = "idle"
      BY Fields DEF TInv, Finish, Goto
<1>2. Pending(p)' = 0
      BY <1>1 DEF Pending
<1>3. QED
      BY <1>2, TiedStays

LEMMA TiedStart ==
    ASSUME TInv, TInv', Tied, NEW p \in Procs, Process(p),
           LockOrReopen(p) \/ ReceiveMaterials(p) \/ CompleteBuild(p) \/ AdjustInventory(p)
    PROVE  Tied'
<1>1. /\ pc[p] = "idle" /\ position' = position /\ entries' = entries /\ documents' = documents
      BY DEF LockOrReopen, ReceiveMaterials, CompleteBuild, AdjustInventory, Command, tables
<1>2. /\ pc'[p] \in {"idle", "read", "readSheet", "save"}
      /\ pc'[p] = "save" => job'[p].doc.kind = "adjustment"
  <2>1. MInv
        BY DEF TInv
  <2>2. CASE LockOrReopen(p)
        BY <1>1, <2>2 DEF LockOrReopen
  <2>3. CASE ReceiveMaterials(p) \/ CompleteBuild(p)
        BY <2>1, <2>3, Fields DEF ReceiveMaterials, CompleteBuild, Goto
  <2>4. CASE AdjustInventory(p)
    <3>1. PICK n \in scope.counts :
            /\ pc' = [pc EXCEPT ![p] = "save"]
            /\ job' = [job EXCEPT ![p].doc.kind = "adjustment", ![p].doc.raw = n]
          BY <2>4 DEF AdjustInventory, Goto
    <3>2. QED
          BY <2>1, <3>1, Fields DEF Shaped
  <2>5. QED
        BY <2>2, <2>3, <2>4
<1>3. Pending(p) = 0 /\ Pending(p)' = 0
      BY <1>1, <1>2 DEF Pending
<1>4. QED
      BY <1>1, <1>3, TiedStays, ExtendsItself

LEMMA TiedRead ==
    ASSUME TInv, TInv', Tied, NEW p \in Procs, Process(p), ReadMaterial(p) \/ ReceiptRead(p)
    PROVE  Tied'
<1>1. MInv
      BY DEF TInv
<1>2. position' = position /\ entries' = entries /\ documents' = documents
      BY DEF ReadMaterial, ReceiptRead, tables
<1>3. CASE ReadMaterial(p)
  <2>1. pc[p] \in {"read", "readSheet"} /\ pc'[p] = pc[p]
        BY <1>3 DEF ReadMaterial
  <2>2. Pending(p) = 0 /\ Pending(p)' = 0
        BY <2>1 DEF Pending
  <2>3. QED
        BY <1>2, <2>2, TiedStays, ExtendsItself
<1>4. CASE ReceiptRead(p)
  <2>1. pc[p] = "read" /\ pc'[p] = "position" /\ job' = job
        BY <1>1, <1>4, Fields DEF ReceiptRead, Goto
  <2>2. job[p].doc.kind = "receipt"
        BY <1>1, <2>1, Fields DEF KindsAt
  <2>3. job[p].doc.raw = 0
        BY <2>1, <2>2, ReceiptFacts DEF ReceiptTyped
  <2>4. Pending(p) = 0 /\ Pending(p)' = 0
        BY <2>1, <2>2, <2>3 DEF Pending
  <2>5. QED
        BY <1>2, <2>4, TiedStays, ExtendsItself
<1>5. QED
      BY <1>3, <1>4

\* The line is on the shelf before it is on the document.
LEMMA TiedReceive ==
    ASSUME TInv, TInv', Tied, NEW p \in Procs, Process(p), ReceiveLine(p), ~disturbed'
    PROVE  Tied'
<1> DEFINE line == job[p].lines[job[p].at]
           seen == job[p].seen[job[p].at]
           v == seen.value + Landed(p)
           q == seen.qty + Tracked(line.material, line.qty)
<1>1. /\ pc[p] = "position" /\ position[line.material] = seen
      /\ position' = [position EXCEPT ![line.material] = Position(v, q)]
      /\ pc' = [pc EXCEPT ![p] = "lot"]
      /\ UNCHANGED <<scope, job, documents, entries>>
      BY DEF ReceiveLine, Goto, SetMaterialPosition
<1>2. MInv /\ Typed(p) /\ DOMAIN pc = Procs /\ job[p].doc.kind = "receipt"
      BY <1>1, Fields DEF TInv, KindsAt
<1>3. job[p].at \in DOMAIN job[p].lines /\ Len(job[p].seen) = Len(job[p].lines)
      BY <1>1, <1>2, ReceiptFacts DEF ReceiptTyped
<1>4. /\ line.material \in Materials /\ Landed(p) \in Int /\ Tracked(line.material, line.qty) \in Int
      /\ seen \in Positions
      BY <1>2, <1>3, ReceiptFacts DEF Landed
<1>5. v \in Int /\ q \in Int /\ seen.value \in Int
  <2>1. seen.value \in Int /\ seen.qty \in Int
        BY <1>4 DEF Positions
  <2>2. QED
        BY <1>4, <2>1
<1>6. OnHand' = OnHand - seen.value + v /\ OnHand \in Int
  <2> HIDE DEF v, q
  <2>1. QED
        BY <1>1, <1>4, <1>5, OnHandMoves
<1>7. OnHand' = OnHand + Landed(p)
      BY <1>4, <1>5, <1>6
<1>8. Booked' = Booked + 0
      BY <1>1, BookedStays, ExtendsItself, MovedIsInt
<1>9. Pending(p)' = Pending(p) + Landed(p) - 0
  <2>1. pc'[p] = "lot" /\ Landed(p)' = Landed(p)
        BY <1>1, <1>2 DEF Landed
  <2>2. Pending(p) = job[p].doc.raw /\ Pending(p)' = job[p].doc.raw + Landed(p)
        BY <1>1, <1>2, <2>1 DEF Pending
  <2>3. job[p].doc.raw \in Int
        BY <1>2 DEF Typed
  <2>4. QED
        BY <1>4, <2>2, <2>3
<1>10. \A r \in Procs \ {p} : pc'[r] = pc[r] /\ job'[r] = job[r]
       BY Others DEF TInv
<1>11. QED
       BY <1>1, <1>4, <1>7, <1>8, <1>9, <1>10, TiedStep

LEMMA TiedLot ==
    ASSUME TInv, TInv', Tied, NEW p \in Procs, Process(p), InsertMaterialLot(p)
    PROVE  Tied'
<1> DEFINE done == [job[p] EXCEPT !.doc.raw = @ + Landed(p)]
<1>1. pc[p] = "lot" /\ UNCHANGED <<scope, position, entries, documents>>
      BY DEF InsertMaterialLot
<1>2. /\ DOMAIN pc = Procs /\ DOMAIN job = Procs /\ Shaped(job[p])
      /\ job[p].doc.kind = "receipt" /\ After(p, "position") = "save"
      BY <1>1, Fields, AfterWrite DEF TInv, KindsAt
<1>3. \/ /\ pc' = [pc EXCEPT ![p] = "position"]
         /\ job' = [job EXCEPT ![p] = [done EXCEPT !.at = @ + 1]]
      \/ /\ pc' = [pc EXCEPT ![p] = "save"]
         /\ job' = [job EXCEPT ![p] = done]
      BY <1>2 DEF InsertMaterialLot, Proceed, Goto
<1>4. done.doc.kind = "receipt" /\ done.doc.raw = job[p].doc.raw + Landed(p) /\ Shaped(done)
      BY <1>2 DEF Shaped
<1> HIDE DEF done
<1>5. [done EXCEPT !.at = @ + 1].doc = done.doc
      BY <1>4 DEF Shaped
<1>6. pc'[p] \in {"position", "save"} /\ job'[p].doc = done.doc
      BY <1>2, <1>3, <1>5
<1>7. Pending(p)' = Pending(p)
      BY <1>1, <1>4, <1>6 DEF Pending
<1>8. QED
      BY <1>1, <1>7, TiedStays, ExtendsItself

LEMMA TiedPrice ==
    ASSUME TInv, TInv', Tied, NEW p \in Procs, Process(p), PriceBuild(p)
    PROVE  Tied'
<1>1. /\ pc[p] = "readSheet"
      /\ UNCHANGED <<position, entries, documents>>
      BY DEF PriceBuild, tables
<1>2. /\ DOMAIN pc = Procs /\ DOMAIN job = Procs /\ Shaped(job[p]) /\ job[p].doc.kind = "build"
      BY <1>1, Fields DEF TInv, KindsAt
<1>3. Pending(p) = 0
      BY <1>1 DEF Pending
<1>4. CASE Finish(p)
      BY <1>1, <1>3, <1>4, TiedFinish, ExtendsItself
<1>5. CASE ~Finish(p)
  <2> DEFINE f == job[p].build * (Standard(p).material + Standard(p).other)
             a == job[p].build * Standard(p).other
  <2>1. /\ pc' = [pc EXCEPT ![p] = "save"]
        /\ job' = [job EXCEPT ![p].doc.finished = f, ![p].doc.applied = a,
                              ![p].doc.raw = RawUsed(p)]
        BY <1>5 DEF PriceBuild, Goto
  <2> HIDE DEF f, a
  <2>2. pc'[p] = "save" /\ job'[p].doc.kind = "build"
        BY <1>2, <2>1 DEF Shaped
  <2>3. Pending(p)' = 0
        BY <2>2 DEF Pending
  <2>4. QED
        BY <1>1, <1>3, <2>3, TiedStays, ExtendsItself
<1>6. QED
      BY <1>4, <1>5

\* What is taken off the shelf is what is no longer pending.
LEMMA TiedRelieve ==
    ASSUME TInv, TInv', Tied, NEW p \in Procs, Process(p), RelieveMaterial(p), ~disturbed'
    PROVE  Tied'
<1> DEFINE use == job[p].lines[job[p].at]
           seen == Seen(p, use.material)
           cost == Cost(p, job[p].at)
           v == seen.value - cost
           q == seen.qty - use.qty
<1>1. pc[p] = "relieve" /\ UNCHANGED <<scope, entries, documents>>
      BY DEF RelieveMaterial
<1>2. /\ MInv /\ DOMAIN pc = Procs /\ DOMAIN job = Procs /\ Shaped(job[p])
      /\ job[p].doc.kind = "build" /\ After(p, "relieve") = "record"
      BY <1>1, Fields, AfterWrite DEF TInv, KindsAt
<1>3. /\ BuildTyped(p) /\ job[p].at \in 1 .. Len(job[p].lines) + 1 /\ Len(job[p].lines) \in Nat
      /\ DOMAIN job[p].lines = 1 .. Len(job[p].lines)
      BY <1>1, <1>2, BuildFacts DEF BuildTyped
<1>4. Pending(p) = Remaining(p)
      BY <1>1 DEF Pending
<1>5. CASE job[p].at <= Len(job[p].lines)
  <2>1. /\ position' = [position EXCEPT ![use.material] = Position(v, q)] /\ pc' = pc
        /\ position[use.material] = seen
        /\ job' = [job EXCEPT ![p] = [job[p] EXCEPT !.at = @ + 1]]
        BY <1>5 DEF RelieveMaterial, SetMaterialPosition, Relieved
  <2>2. job[p].at \in DOMAIN job[p].lines
        BY <1>3, <1>5
  <2>3. /\ use.material \in Materials /\ use.qty \in Int /\ seen \in Positions /\ cost \in Int
        BY <1>1, <1>2, <1>3, <2>2, BuildFacts DEF BuildTyped
  <2>4. seen.value \in Int /\ seen.qty \in Int
        BY <2>3 DEF Positions
  <2>5. /\ job'[p].lines = job[p].lines /\ job'[p].seen = job[p].seen
        /\ job'[p].at = job[p].at + 1
        BY <1>2, <2>1 DEF Shaped
  <2> DEFINE rest == SumFunctionOnSet(CostsOf(p), job[p].at + 1 .. Len(job[p].lines))
  <2>6. Remaining(p) = cost + rest /\ rest \in Int
        BY <1>1, <1>2, <2>2, RemainingFacts
  <2>7. Remaining(p)' = rest
        BY <1>1, <2>5, RemainingKept
  <2>8. pc'[p] = "relieve"
        BY <1>1, <2>1
  <2>9. Pending(p)' = Remaining(p)'
        BY <2>8 DEF Pending
  <2> HIDE DEF rest, cost, v, q
  <2>10. v \in Int /\ q \in Int /\ v = seen.value - cost
        BY <2>3, <2>4 DEF v, q
  <2>11. OnHand' = OnHand - seen.value + v /\ OnHand \in Int
        BY <1>1, <2>1, <2>3, <2>10, OnHandMoves
  <2>12. OnHand' = OnHand + (-cost) /\ -cost \in Int
        BY <2>3, <2>4, <2>10, <2>11
  <2>13. Booked' = Booked + 0
        BY <1>1, BookedStays, ExtendsItself, MovedIsInt
  <2>14. Pending(p)' = Pending(p) + (-cost) - 0
        BY <1>4, <2>3, <2>6, <2>7, <2>9
  <2>15. \A r \in Procs \ {p} : pc'[r] = pc[r] /\ job'[r] = job[r]
        BY Others DEF TInv
  <2>16. QED
        BY <1>1, <2>12, <2>13, <2>14, <2>15, TiedStep
<1>6. CASE ~(job[p].at <= Len(job[p].lines))
  <2>1. pc' = [pc EXCEPT ![p] = "record"] /\ UNCHANGED position
        BY <1>2, <1>6 DEF RelieveMaterial, Proceed, Goto
  <2>2. job[p].at = Len(job[p].lines) + 1
        BY <1>3, <1>6
  <2>3. Remaining(p) = 0
        BY <1>1, <1>2, <2>2, RemainingFacts
  <2>4. pc'[p] = "record"
        BY <1>2, <2>1
  <2>5. Pending(p)' = 0
        BY <2>4 DEF Pending
  <2>6. QED
        BY <1>1, <1>4, <2>1, <2>3, <2>5, TiedStays, ExtendsItself
<1>7. QED
      BY <1>5, <1>6

LEMMA TiedRecord ==
    ASSUME TInv, TInv', Tied, NEW p \in Procs, Process(p), InsertBuild(p) \/ InsertBuildConsumption(p)
    PROVE  Tied'
<1>1. /\ pc[p] \in {"record", "consume"} /\ UNCHANGED <<position, entries, documents>>
      BY DEF InsertBuild, InsertBuildConsumption
<1>2. DOMAIN pc = Procs /\ After(p, "record") = "consume"
      BY <1>1, Fields, AfterWrite DEF TInv, KindsAt
<1>3. pc'[p] \in {"consume", "idle"}
      BY <1>2 DEF InsertBuild, InsertBuildConsumption, Proceed, Goto, Finish
<1>4. Pending(p) = 0 /\ Pending(p)' = 0
      BY <1>1, <1>3 DEF Pending
<1>5. QED
      BY <1>1, <1>4, TiedStays, ExtendsItself

LEMMA TiedSave ==
    ASSUME TInv, TInv', Tied, NEW p \in Procs, Process(p), SaveDocument(p)
    PROVE  Tied'
<1>1. /\ pc[p] = "save" /\ UNCHANGED <<position, entries>>
      /\ documents' = Append(documents, job[p].doc)
      BY DEF SaveDocument
<1>2. /\ MInv /\ Shaped(job[p]) /\ DOMAIN pc = Procs /\ DOMAIN job = Procs
      /\ job[p].doc.kind \in {"build", "receipt", "adjustment"} /\ After(p, "save") = "post"
      BY <1>1, Fields, AfterWrite DEF TInv, KindsAt
<1>3. Extends(documents', documents)
      BY <1>1, <1>2, Appended DEF MInv
<1>4. CASE MovesNothing(job[p].doc)
  <2>1. Finish(p) /\ job[p].doc.raw = 0
        BY <1>4 DEF SaveDocument, MovesNothing
  <2>2. Pending(p) = 0
        BY <1>1, <2>1 DEF Pending
  <2>3. QED
        BY <1>1, <1>3, <2>1, <2>2, TiedFinish
<1>5. CASE ~MovesNothing(job[p].doc)
  <2>1. /\ pc' = [pc EXCEPT ![p] = "post"]
        /\ job' = [job EXCEPT ![p] = [job[p] EXCEPT !.number = Len(documents) + 1]]
        BY <1>2, <1>5 DEF SaveDocument, Proceed, Goto
  <2>2. pc'[p] = "post" /\ job'[p].doc = job[p].doc
        BY <1>2, <2>1 DEF Shaped
  <2>3. Pending(p)' = Pending(p)
        BY <1>1, <2>2 DEF Pending
  <2>4. QED
        BY <1>1, <1>3, <2>3, TiedStays
<1>6. QED
      BY <1>4, <1>5

\* The account takes what the receipt had put on the shelf, or gives what the
\* build is about to take from it.
LEMMA TiedPost ==
    ASSUME TInv, TInv', Tied, NEW p \in Procs, Process(p), PostEntry(p), ~disturbed'
    PROVE  Tied'
<1>1. pc[p] = "post" /\ UNCHANGED <<scope, position, documents>>
      BY DEF PostEntry
<1>2. /\ MInv /\ Typed(p) /\ DOMAIN pc = Procs /\ DOMAIN job = Procs
      /\ job[p].doc.kind \in {"build", "receipt", "adjustment"}
      /\ job[p].doc.kind = "build" => After(p, "post") = "relieve"
      /\ job[p].doc.kind # "build" => After(p, "post") = "idle"
      BY <1>1, Fields, AfterWrite DEF TInv, KindsAt
<1>3. Saved(job[p]) /\ job[p].doc.raw \in Int
      BY <1>1, <1>2 DEF MInv, OnTrack, Typed
<1>4. CASE locked
  <2>1. Finish(p) /\ entries' = entries /\ job[p].doc.kind # "receipt"
        BY <1>4 DEF PostEntry
  <2>2. Pending(p) = 0
        BY <1>1, <2>1 DEF Pending
  <2>3. QED
        BY <1>1, <2>1, <2>2, TiedFinish, ExtendsItself
<1>5. CASE ~locked
  <2>1. /\ entries' = Append(entries, job[p].number)
        /\ pc' = [pc EXCEPT ![p] = After(p, "post")]
        /\ job' = [job EXCEPT ![p] = IF After(p, "post") = "idle" THEN NoJob ELSE job[p]]
        BY <1>5 DEF PostEntry, Proceed, Goto
  <2>2. Booked' = Booked + Moved(job[p].doc)
        BY <1>1, <1>3, <2>1, BookedMoves DEF Saved
  <2>3. OnHand' = OnHand + 0
    <3>1. OnHand' = OnHand
          BY <1>1, OnHandStays
    <3>2. OnHand \in Int
          BY OnHandIsInt
    <3>3. QED
          BY <3>1, <3>2
  <2>4. pc'[p] = After(p, "post") /\ job'[p] = IF After(p, "post") = "idle" THEN NoJob ELSE job[p]
        BY <1>2, <2>1
  <2>5. Moved(job[p].doc) \in Int /\ Pending(p)' = Pending(p) + 0 - Moved(job[p].doc)
    <3>1. CASE job[p].doc.kind = "receipt"
      <4>1. Pending(p) = job[p].doc.raw /\ Moved(job[p].doc) = job[p].doc.raw
            BY <1>1, <3>1 DEF Pending, Moved, RawMoved
      <4>2. Pending(p)' = 0
            BY <1>2, <2>4, <3>1 DEF Pending
      <4>3. QED
            BY <1>3, <4>1, <4>2
    <3>2. CASE job[p].doc.kind = "build"
      <4>1. Pending(p) = 0 /\ Moved(job[p].doc) = -job[p].doc.raw
            BY <1>1, <3>2 DEF Pending, Moved, RawMoved
      <4>2. pc'[p] = "relieve" /\ job'[p] = job[p]
            BY <1>2, <2>4, <3>2
      <4>3. Pending(p)' = Remaining(p)'
            BY <4>2 DEF Pending
      <4>4. Remaining(p)' = Remaining(p)
            BY <1>1, <4>2, RemainingKept
      <4>5. job[p].at = 1
            BY <1>1, <1>2, <3>2 DEF Typed, BuildTyped
      <4>6. Remaining(p) = job[p].doc.raw
            BY <1>1, <3>2, <4>5, RemainingFacts
      <4>7. QED
            BY <1>3, <4>1, <4>3, <4>4, <4>6
    <3>3. CASE job[p].doc.kind = "adjustment"
      <4>1. Pending(p) = 0 /\ Moved(job[p].doc) = 0
            BY <1>1, <3>3 DEF Pending, Moved
      <4>2. Pending(p)' = 0
            BY <1>2, <2>4, <3>3 DEF Pending
      <4>3. QED
            BY <4>1, <4>2
    <3>4. QED
          BY <1>2, <3>1, <3>2, <3>3
  <2>6. \A r \in Procs \ {p} : pc'[r] = pc[r] /\ job'[r] = job[r]
        BY Others DEF TInv
  <2>7. QED
        BY <1>1, <2>2, <2>3, <2>5, <2>6, TiedStep
<1>6. QED
      BY <1>4, <1>5

LEMMA TiedCrash ==
    ASSUME TInv, TInv', Tied, NEW p \in Procs, Process(p), Crash(p), ~disturbed'
    PROVE  Tied'
<1>1. Harmless(p) /\ Finish(p) /\ UNCHANGED <<position, entries, documents>>
      BY DEF Crash, tables
<1>2. Pending(p) = 0
      BY <1>1 DEF Harmless, Pending
<1>3. QED
      BY <1>1, <1>2, TiedFinish, ExtendsItself

\* The stock is what the account says, but for what is under way.
LEMMA TiedNext ==
    ASSUME TInv, TInv', Tied, NEW p \in Procs, Process(p), ~disturbed'
    PROVE  Tied'
BY TiedStart, TiedRead, TiedReceive, TiedLot, TiedPrice, TiedRelieve, TiedRecord, TiedSave, TiedPost,
   TiedCrash DEF Process

-----------------------------------------------------------------------------
\* A posted build has its row or a process that is about to write it.
BuildsKnown ==
    \A j \in DOMAIN entries : documents[entries[j]].kind = "build" =>
        \/ \E i \in DOMAIN builds : builds[i].document = entries[j]
        \/ \E p \in Procs : pc[p] \in {"relieve", "record"} /\ job[p].number = entries[j]

\* Build rows stay, and so does every process that is about to write one.
LEMMA KnownStays ==
    ASSUME TInv, BuildsKnown, NEW p \in Procs, Process(p), entries' = entries, builds' = builds,
           Extends(documents', documents),
           pc[p] \in {"relieve", "record"} =>
               pc'[p] \in {"relieve", "record"} /\ job'[p].number = job[p].number
    PROVE  BuildsKnown'
<1>1. \A q \in Procs \ {p} : pc'[q] = pc[q] /\ job'[q] = job[q]
      BY Others DEF TInv
<1>2. \A j \in DOMAIN entries : documents'[entries[j]] = documents[entries[j]]
      BY DEF TInv, MInv, Extends
<1>3. \A q \in Procs : pc[q] \in {"relieve", "record"} =>
          pc'[q] \in {"relieve", "record"} /\ job'[q].number = job[q].number
      BY <1>1
<1>4. QED
      BY <1>2, <1>3 DEF BuildsKnown

LEMMA KnownNext ==
    ASSUME TInv, BuildsKnown, NEW p \in Procs, Process(p), ~disturbed'
    PROVE  BuildsKnown'
<1>0. /\ MInv /\ DOMAIN pc = Procs /\ DOMAIN job = Procs /\ Shaped(job[p]) /\ Typed(p)
      /\ job[p].doc.kind \in KindsAt(pc[p])
      BY Fields DEF TInv
<1>1. CASE \/ LockOrReopen(p) \/ ReceiveMaterials(p) \/ CompleteBuild(p) \/ AdjustInventory(p)
           \/ ReadMaterial(p) \/ ReceiptRead(p) \/ ReceiveLine(p) \/ InsertMaterialLot(p)
           \/ PriceBuild(p) \/ InsertBuildConsumption(p)
  <2>1. /\ entries' = entries /\ builds' = builds /\ documents' = documents
        /\ pc[p] \notin {"relieve", "record"}
        BY <1>1 DEF LockOrReopen, ReceiveMaterials, CompleteBuild, AdjustInventory, ReadMaterial,
           ReceiptRead, ReceiveLine, InsertMaterialLot, PriceBuild, InsertBuildConsumption, Command,
           tables
  <2>2. QED
        BY <2>1, KnownStays, ExtendsItself
<1>2. CASE RelieveMaterial(p)
  <2>1. /\ entries' = entries /\ builds' = builds /\ documents' = documents /\ pc[p] = "relieve"
        BY <1>2 DEF RelieveMaterial
  <2>2. job[p].doc.kind = "build" /\ After(p, "relieve") = "record"
        BY <1>0, <2>1, AfterWrite DEF KindsAt
  <2>3. \E n : /\ pc' = pc \/ pc' = [pc EXCEPT ![p] = "record"]
               /\ job' = [job EXCEPT ![p] = [job[p] EXCEPT !.at = n]]
        BY <1>2, <2>2 DEF RelieveMaterial, Proceed, Goto
  <2>4. pc'[p] \in {"relieve", "record"} /\ job'[p].number = job[p].number
        BY <1>0, <2>1, <2>3 DEF Shaped
  <2>5. QED
        BY <2>1, <2>4, KnownStays, ExtendsItself
<1>3. CASE InsertBuild(p)
  <2> DEFINE row == [document |-> job[p].number, raw |-> job[p].doc.raw,
                     variance |-> job[p].doc.finished - job[p].doc.raw - job[p].doc.applied]
  <2>1. /\ entries' = entries /\ documents' = documents /\ pc[p] = "record"
        /\ builds' = Append(builds, row)
        BY <1>3 DEF InsertBuild
  <2>2. row.document = job[p].number
        OBVIOUS
  <2> HIDE DEF row
  <2>3. /\ DOMAIN builds' = DOMAIN builds \cup {Len(builds) + 1}
        /\ builds'[Len(builds) + 1] = row /\ \A i \in DOMAIN builds : builds'[i] = builds[i]
        BY <1>0, <2>1, Appended DEF MInv, Extends
  <2>4. \A q \in Procs \ {p} : pc'[q] = pc[q] /\ job'[q] = job[q]
        BY Others DEF TInv
  <2>5. ASSUME NEW j \in DOMAIN entries, documents[entries[j]].kind = "build"
        PROVE  \/ \E i \in DOMAIN builds' : builds'[i].document = entries[j]
               \/ \E q \in Procs : pc'[q] \in {"relieve", "record"} /\ job'[q].number = entries[j]
    <3>1. CASE \E i \in DOMAIN builds : builds[i].document = entries[j]
          BY <2>3, <3>1
    <3>2. CASE job[p].number = entries[j]
          BY <2>2, <2>3, <3>2
    <3>3. CASE \E q \in Procs \ {p} : pc[q] \in {"relieve", "record"} /\ job[q].number = entries[j]
          BY <2>4, <3>3
    <3>4. QED
          BY <2>5, <3>1, <3>2, <3>3 DEF BuildsKnown
  <2>6. QED
        BY <2>1, <2>5 DEF BuildsKnown
<1>4. CASE SaveDocument(p)
  <2>1. /\ pc[p] = "save" /\ entries' = entries /\ builds' = builds
        /\ documents' = Append(documents, job[p].doc)
        BY <1>4 DEF SaveDocument
  <2>2. Extends(documents', documents)
        BY <1>0, <2>1, Appended DEF MInv
  <2>3. QED
        BY <2>1, <2>2, KnownStays
<1>5. CASE PostEntry(p)
  <2>1. pc[p] = "post" /\ builds' = builds /\ documents' = documents
        BY <1>5 DEF PostEntry
  <2>2. CASE entries' = entries
        BY <2>1, <2>2, KnownStays, ExtendsItself
  <2>3. CASE ~locked
    <3>1. /\ entries' = Append(entries, job[p].number)
          /\ pc' = [pc EXCEPT ![p] = After(p, "post")]
          /\ job' = [job EXCEPT ![p] = IF After(p, "post") = "idle" THEN NoJob ELSE job[p]]
          BY <1>5, <2>3 DEF PostEntry, Proceed, Goto
    <3>2. /\ DOMAIN entries' = DOMAIN entries \cup {Len(entries) + 1}
          /\ entries'[Len(entries) + 1] = job[p].number
          /\ \A i \in DOMAIN entries : entries'[i] = entries[i]
          BY <1>0, <3>1, Appended DEF MInv, Extends
    <3>3. \A q \in Procs \ {p} : pc'[q] = pc[q] /\ job'[q] = job[q]
          BY Others DEF TInv
    <3>4. documents[job[p].number] = job[p].doc
          BY <1>0, <2>1 DEF MInv, OnTrack, Saved
    <3>5. job[p].doc.kind = "build" => pc'[p] = "relieve" /\ job'[p] = job[p]
          BY <1>0, <3>1, AfterWrite
    <3>6. ASSUME NEW j \in DOMAIN entries', documents[entries'[j]].kind = "build"
          PROVE  \/ \E i \in DOMAIN builds : builds[i].document = entries'[j]
                 \/ \E q \in Procs : pc'[q] \in {"relieve", "record"} /\ job'[q].number = entries'[j]
      <4>1. CASE j \in DOMAIN entries
        <5>1. \/ \E i \in DOMAIN builds : builds[i].document = entries[j]
              \/ \E q \in Procs : pc[q] \in {"relieve", "record"} /\ job[q].number = entries[j]
              BY <3>2, <3>6, <4>1 DEF BuildsKnown
        <5>2. \A q \in Procs : pc[q] \in {"relieve", "record"} => q # p
              BY <2>1
        <5>3. QED
              BY <3>2, <3>3, <4>1, <5>1, <5>2
      <4>2. CASE j = Len(entries) + 1
        <5>1. entries'[j] = job[p].number
              BY <3>2, <4>2
        <5>2. job[p].doc.kind = "build"
              BY <3>4, <3>6, <5>1
        <5>3. QED
              BY <3>5, <5>1, <5>2
      <4>3. QED
            BY <3>2, <3>6, <4>1, <4>2
    <3>7. QED
          BY <2>1, <3>6 DEF BuildsKnown
  <2>4. QED
        BY <1>5, <2>2, <2>3 DEF PostEntry
<1>6. CASE Crash(p)
  <2>1. /\ Harmless(p) /\ entries' = entries /\ builds' = builds /\ documents' = documents
        BY <1>6 DEF Crash, tables
  <2>2. pc[p] \notin {"relieve", "record"}
        BY <2>1 DEF Harmless
  <2>3. QED
        BY <2>1, <2>2, KnownStays, ExtendsItself
<1>7. QED
      BY <1>1, <1>2, <1>3, <1>4, <1>5, <1>6 DEF Process

-----------------------------------------------------------------------------
(* Build rows and their consumptions. *)

\* Consumptions and the processes that write them cite build rows there are.
Refs ==
    /\ \A p \in Procs : pc[p] = "consume" => job[p].build \in DOMAIN builds
    /\ \A k \in DOMAIN consumptions :
          consumptions[k].build \in DOMAIN builds /\ consumptions[k].cost \in Int

\* What the consumptions of a build row add up to, and what is still to come.
WrittenOf(i, k) == IF consumptions[k].build = i THEN consumptions[k].cost ELSE 0
Written(i) == SumFunction([k \in DOMAIN consumptions |-> WrittenOf(i, k)])
UnwrittenBy(i, p) == IF pc[p] = "consume" /\ job[p].build = i THEN Remaining(p) ELSE 0
Unwritten(i) == SumFunction([p \in Procs |-> UnwrittenBy(i, p)])

RowsAddUp == \A i \in DOMAIN builds : builds[i].raw = Written(i) + Unwritten(i)

LEMMA UnwrittenIsInt == ASSUME TInv, NEW i, NEW p \in Procs PROVE UnwrittenBy(i, p) \in Int
<1>1. pc[p] = "consume" => job[p].doc.kind = "build"
      BY Fields DEF TInv, KindsAt
<1>2. QED
      BY <1>1, RemainingFacts DEF UnwrittenBy

LEMMA UnwrittenAreInts == TInv => \A p \in Procs : \A i : UnwrittenBy(i, p) \in Int
BY UnwrittenIsInt

LEMMA UnwrittenAreIntsNext == TInv' => (\A p \in Procs : \A i : UnwrittenBy(i, p) \in Int)'
BY UnwrittenAreInts, PTL

LEMMA UnwrittenMoves ==
    ASSUME TInv, TInv', NEW p \in Procs, Process(p), NEW i
    PROVE  /\ Unwritten(i)' = Unwritten(i) - UnwrittenBy(i, p) + UnwrittenBy(i, p)'
           /\ Unwritten(i) \in Int
<1> DEFINE f == [q \in Procs |-> UnwrittenBy(i, q)]
           g == [q \in Procs |-> UnwrittenBy(i, q)']
<1>1. scope' = scope /\ \A q \in Procs \ {p} : pc'[q] = pc[q] /\ job'[q] = job[q]
      BY Others DEF TInv
<1>2. \A q \in Procs : f[q] \in Int
      BY UnwrittenIsInt
<1>3. \A q \in Procs : g[q] \in Int
      BY UnwrittenAreIntsNext
<1>4. \A q \in Procs \ {p} : g[q] = f[q]
  <2>1. SUFFICES ASSUME NEW q \in Procs \ {p} PROVE UnwrittenBy(i, q)' = UnwrittenBy(i, q)
        OBVIOUS
  <2>2. Remaining(q)' = Remaining(q)
        BY <1>1, RemainingKept
  <2>3. QED
        BY <1>1, <2>2 DEF UnwrittenBy
<1>5. DOMAIN f = Procs /\ DOMAIN g = Procs /\ IsFiniteSet(Procs)
      BY FiniteAssumption
<1>6. Unwritten(i) = SumFunctionOnSet(f, Procs) /\ Unwritten(i)' = SumFunctionOnSet(g, Procs)
      BY <1>5 DEF Unwritten, SumFunction
<1>7. f[p] = UnwrittenBy(i, p) /\ g[p] = UnwrittenBy(i, p)'
      OBVIOUS
<1> HIDE DEF f, g
<1>8. SumFunctionOnSet(g, Procs) = SumFunctionOnSet(f, Procs) - f[p] + g[p]
      BY <1>2, <1>3, <1>4, <1>5, SumChanged
<1>9. SumFunctionOnSet(f, Procs) \in Int
      BY <1>2, <1>5, SumIsInt
<1>10. QED
       BY <1>6, <1>7, <1>8, <1>9

LEMMA WrittenIsInt ==
    ASSUME TInv, Refs, NEW i
    PROVE  /\ Written(i) \in Int
           /\ IsFiniteSet(DOMAIN consumptions) /\ \A k \in DOMAIN consumptions : WrittenOf(i, k) \in Int
<1> DEFINE f == [k \in DOMAIN consumptions |-> WrittenOf(i, k)]
<1>1. IsFiniteSet(DOMAIN consumptions)
  <2>1. DOMAIN consumptions = 1 .. Len(consumptions) /\ Len(consumptions) \in Nat
        BY DEF TInv, IsSeq
  <2>2. QED
        BY <2>1, FS_Interval
<1>2. \A k \in DOMAIN consumptions : WrittenOf(i, k) \in Int
      BY DEF Refs, WrittenOf
<1>3. /\ DOMAIN f = DOMAIN consumptions /\ \A k \in DOMAIN consumptions : f[k] \in Int
      BY <1>2
<1>4. Written(i) = SumFunctionOnSet(f, DOMAIN consumptions)
      BY <1>3 DEF Written, SumFunction
<1> HIDE DEF f
<1>5. QED
      BY <1>1, <1>2, <1>3, <1>4, SumIsInt

LEMMA WrittenMoves ==
    ASSUME TInv, Refs, NEW row, row.cost \in Int, consumptions' = Append(consumptions, row), NEW i
    PROVE  Written(i)' = Written(i) + (IF row.build = i THEN row.cost ELSE 0)
<1> DEFINE S == DOMAIN consumptions
           n == Len(consumptions) + 1
           f == [k \in S |-> WrittenOf(i, k)]
           g == [k \in DOMAIN consumptions' |-> WrittenOf(i, k)']
<1>1. /\ DOMAIN consumptions' = S \cup {n} /\ n \notin S /\ consumptions'[n] = row
      /\ \A k \in S : consumptions'[k] = consumptions[k]
      BY Appended DEF TInv, Extends
<1>2. IsFiniteSet(S) /\ \A k \in S : f[k] \in Int
      BY WrittenIsInt
<1>3. /\ \A k \in S : g[k] = f[k]
      /\ g[n] = IF row.build = i THEN row.cost ELSE 0
      /\ DOMAIN g = S \cup {n} /\ DOMAIN f = S
      BY <1>1 DEF WrittenOf
<1>4. Written(i) = SumFunctionOnSet(f, S) /\ Written(i)' = SumFunctionOnSet(g, S \cup {n})
      BY <1>3 DEF Written, SumFunction
<1> HIDE DEF f, g, S, n
<1>5. SumFunctionOnSet(g, S \cup {n}) = SumFunctionOnSet(f, S) + g[n]
      BY <1>1, <1>2, <1>3, SumGrows
<1>6. QED
      BY <1>3, <1>4, <1>5

\* A step that writes neither table, of a process that writes no consumptions.
LEMMA RowsStay ==
    ASSUME TInv, TInv', Refs, NEW p \in Procs, Process(p), builds' = builds,
           consumptions' = consumptions, pc'[p] # "consume",
           \/ pc[p] # "consume"
           \/ job[p].at = Len(job[p].lines) + 1
    PROVE  Refs' /\ (RowsAddUp => RowsAddUp')
<1>1. \A q \in Procs \ {p} : pc'[q] = pc[q] /\ job'[q] = job[q]
      BY Others DEF TInv
<1>2. Refs'
      BY <1>1 DEF Refs
<1>3. ASSUME NEW i \in DOMAIN builds PROVE Written(i)' = Written(i) /\ Unwritten(i)' = Unwritten(i)
  <2>1. UnwrittenBy(i, p)' = 0
        BY DEF UnwrittenBy
  <2>2. UnwrittenBy(i, p) = 0
    <3>1. CASE pc[p] # "consume"
          BY <3>1 DEF UnwrittenBy
    <3>2. CASE pc[p] = "consume" /\ job[p].at = Len(job[p].lines) + 1
      <4>1. job[p].doc.kind = "build"
            BY <3>2, Fields DEF TInv, KindsAt
      <4>2. Remaining(p) = 0
            BY <3>2, <4>1, RemainingFacts
      <4>3. QED
            BY <4>2 DEF UnwrittenBy
    <3>3. QED
          BY <3>1, <3>2
  <2>3. Unwritten(i)' = Unwritten(i)
        BY <2>1, <2>2, UnwrittenMoves
  <2>4. QED
        BY <2>3 DEF Written, WrittenOf
<1>4. QED
      BY <1>2, <1>3 DEF RowsAddUp

\* What the row states is what its consumptions will add up to.
LEMMA RowsRecord ==
    ASSUME TInv, TInv', Refs, NEW p \in Procs, Process(p), InsertBuild(p)
    PROVE  Refs' /\ (RowsAddUp => RowsAddUp')
<1> DEFINE row == [document |-> job[p].number, raw |-> job[p].doc.raw,
                   variance |-> job[p].doc.finished - job[p].doc.raw - job[p].doc.applied]
           n == Len(builds) + 1
<1>1. /\ pc[p] = "record" /\ consumptions' = consumptions /\ builds' = Append(builds, row)
      /\ scope' = scope
      BY DEF InsertBuild
<1>2. /\ MInv /\ Shaped(job[p]) /\ DOMAIN pc = Procs /\ DOMAIN job = Procs
      /\ job[p].doc.kind = "build" /\ After(p, "record") = "consume"
      BY <1>1, Fields, AfterWrite DEF TInv, KindsAt
<1>3. row.raw = job[p].doc.raw
      OBVIOUS
<1>4. /\ pc' = [pc EXCEPT ![p] = "consume"]
      /\ job' = [job EXCEPT ![p] = [job[p] EXCEPT !.build = n]]
      BY <1>2 DEF InsertBuild, Proceed, Goto
<1> HIDE DEF row
<1>5. /\ DOMAIN builds' = DOMAIN builds \cup {n} /\ builds'[n] = row /\ n \notin DOMAIN builds
      /\ \A i \in DOMAIN builds : builds'[i] = builds[i]
      BY <1>1, <1>2, Appended DEF MInv, Extends
<1> HIDE DEF n
<1>6. /\ pc'[p] = "consume" /\ job'[p].build = n /\ job'[p].lines = job[p].lines
      /\ job'[p].seen = job[p].seen /\ job'[p].at = job[p].at
      BY <1>2, <1>4 DEF Shaped
<1>7. \A q \in Procs \ {p} : pc'[q] = pc[q] /\ job'[q] = job[q]
      BY Others DEF TInv
<1>8. Refs'
  <2>1. ASSUME NEW q \in Procs, pc'[q] = "consume" PROVE job'[q].build \in DOMAIN builds'
    <3>1. CASE q = p
          BY <1>5, <1>6, <3>1
    <3>2. CASE q # p
          BY <1>5, <1>7, <2>1, <3>2 DEF Refs
    <3>3. QED
          BY <3>1, <3>2
  <2>2. QED
        BY <1>1, <1>5, <2>1 DEF Refs
<1>9. \A i : UnwrittenBy(i, p) = 0
      BY <1>1 DEF UnwrittenBy
<1>10. \A i : Written(i)' = Written(i)
       BY <1>1 DEF Written, WrittenOf
<1>11. ASSUME RowsAddUp, NEW i \in DOMAIN builds' PROVE builds'[i].raw = Written(i)' + Unwritten(i)'
  <2>1. CASE i \in DOMAIN builds
    <3>1. UnwrittenBy(i, p)' = 0
          BY <1>5, <1>6, <2>1 DEF UnwrittenBy
    <3>2. Unwritten(i)' = Unwritten(i)
          BY <1>9, <3>1, UnwrittenMoves
    <3>3. QED
          BY <1>5, <1>10, <1>11, <2>1, <3>2 DEF RowsAddUp
  <2>2. CASE i = n
    <3>1. Written(i) = 0
      <4> DEFINE f == [k \in DOMAIN consumptions |-> WrittenOf(i, k)]
      <4>1. DOMAIN f = DOMAIN consumptions /\ \A k \in DOMAIN consumptions : f[k] = 0
            BY <1>5, <2>2 DEF Refs, WrittenOf
      <4>2. Written(i) = SumFunctionOnSet(f, DOMAIN consumptions)
            BY <4>1 DEF Written, SumFunction
      <4> HIDE DEF f
      <4>3. QED
            BY <4>1, <4>2, WrittenIsInt, SumZero
    <3>2. Unwritten(i) = 0
      <4> DEFINE f == [q \in Procs |-> UnwrittenBy(i, q)]
      <4>1. DOMAIN f = Procs /\ \A q \in Procs : f[q] = 0
            BY <1>5, <2>2 DEF Refs, UnwrittenBy
      <4>2. Unwritten(i) = SumFunctionOnSet(f, Procs)
            BY <4>1 DEF Unwritten, SumFunction
      <4> HIDE DEF f
      <4>3. QED
            BY <4>1, <4>2, FiniteAssumption, SumZero
    <3>3. UnwrittenBy(i, p)' = Remaining(p)'
          BY <1>6, <2>2 DEF UnwrittenBy
    <3>4. Remaining(p)' = Remaining(p)
          BY <1>1, <1>6, RemainingKept
    <3>5. job[p].at = 1
          BY <1>1, <1>2, BuildFacts DEF BuildTyped
    <3>6. Remaining(p) = job[p].doc.raw /\ Remaining(p) \in Int
          BY <1>1, <1>2, <3>5, RemainingFacts
    <3>7. Unwritten(i)' = job[p].doc.raw
          BY <1>9, <3>2, <3>3, <3>4, <3>6, UnwrittenMoves
    <3>8. QED
          BY <1>3, <1>5, <1>10, <2>2, <3>1, <3>6, <3>7
  <2>3. QED
        BY <1>5, <1>11, <2>1, <2>2
<1>12. QED
       BY <1>8, <1>11 DEF RowsAddUp

LEMMA RowsConsume ==
    ASSUME TInv, TInv', Refs, NEW p \in Procs, Process(p), InsertBuildConsumption(p)
    PROVE  Refs' /\ (RowsAddUp => RowsAddUp')
<1> DEFINE use == job[p].lines[job[p].at]
           row == [build |-> job[p].build, material |-> use.material, qty |-> use.qty,
                   cost |-> Cost(p, job[p].at)]
<1>1. pc[p] = "consume" /\ builds' = builds /\ scope' = scope
      BY DEF InsertBuildConsumption
<1>2. /\ MInv /\ Shaped(job[p]) /\ DOMAIN pc = Procs /\ DOMAIN job = Procs
      /\ job[p].doc.kind = "build"
      BY <1>1, Fields DEF TInv, KindsAt
<1>3. /\ BuildTyped(p) /\ job[p].at \in 1 .. Len(job[p].lines) + 1 /\ Len(job[p].lines) \in Nat
      /\ DOMAIN job[p].lines = 1 .. Len(job[p].lines)
      BY <1>1, <1>2, BuildFacts DEF BuildTyped
<1>4. CASE ~(job[p].at <= Len(job[p].lines))
  <2>1. Finish(p) /\ consumptions' = consumptions
        BY <1>4 DEF InsertBuildConsumption
  <2>2. pc'[p] = "idle"
        BY <1>2, <2>1 DEF Finish, Goto
  <2>3. job[p].at = Len(job[p].lines) + 1
        BY <1>3, <1>4
  <2>4. QED
        BY <1>1, <2>1, <2>2, <2>3, RowsStay
<1>5. CASE job[p].at <= Len(job[p].lines)
  <2>1. /\ consumptions' = Append(consumptions, row) /\ pc' = pc
        /\ job' = [job EXCEPT ![p].at = @ + 1]
        BY <1>5 DEF InsertBuildConsumption
  <2>2. row.build = job[p].build /\ row.cost = Cost(p, job[p].at)
        OBVIOUS
  <2> HIDE DEF row
  <2>3. job[p].at \in DOMAIN job[p].lines
        BY <1>3, <1>5
  <2> DEFINE rest == SumFunctionOnSet(CostsOf(p), job[p].at + 1 .. Len(job[p].lines))
             cost == Cost(p, job[p].at)
  <2>4. Remaining(p) = cost + rest /\ rest \in Int /\ cost \in Int
        BY <1>1, <1>2, <2>3, RemainingFacts
  <2>5. /\ pc'[p] = "consume" /\ job'[p].build = job[p].build /\ job'[p].lines = job[p].lines
        /\ job'[p].seen = job[p].seen /\ job'[p].at = job[p].at + 1
        BY <1>1, <1>2, <2>1 DEF Shaped
  <2>6. Remaining(p)' = rest
        BY <1>1, <2>5, RemainingKept
  <2>7. \A q \in Procs \ {p} : pc'[q] = pc[q] /\ job'[q] = job[q]
        BY Others DEF TInv
  <2>8. /\ DOMAIN consumptions' = DOMAIN consumptions \cup {Len(consumptions) + 1}
        /\ consumptions'[Len(consumptions) + 1] = row
        /\ \A k \in DOMAIN consumptions : consumptions'[k] = consumptions[k]
        BY <2>1, Appended DEF TInv, Extends
  <2> HIDE DEF rest, cost
  <2>9. row.cost = cost
        BY <2>2 DEF cost
  <2>10. Refs'
    <3>1. job[p].build \in DOMAIN builds
          BY <1>1 DEF Refs
    <3>2. ASSUME NEW q \in Procs, pc'[q] = "consume" PROVE job'[q].build \in DOMAIN builds'
      <4>1. CASE q = p
            BY <1>1, <2>5, <3>1, <4>1
      <4>2. CASE q # p
            BY <1>1, <2>7, <3>2, <4>2 DEF Refs
      <4>3. QED
            BY <4>1, <4>2
    <3>3. ASSUME NEW k \in DOMAIN consumptions'
          PROVE  consumptions'[k].build \in DOMAIN builds' /\ consumptions'[k].cost \in Int
          BY <1>1, <2>2, <2>4, <2>8, <2>9, <3>1, <3>3 DEF Refs
    <3>4. QED
          BY <3>2, <3>3 DEF Refs
  <2>11. ASSUME RowsAddUp, NEW i \in DOMAIN builds' PROVE builds'[i].raw = Written(i)' + Unwritten(i)'
    <3>1. Written(i)' = Written(i) + (IF row.build = i THEN row.cost ELSE 0)
          BY <2>1, <2>4, <2>9, WrittenMoves
    <3>2. Unwritten(i)' = Unwritten(i) - UnwrittenBy(i, p) + UnwrittenBy(i, p)' /\ Unwritten(i) \in Int
          BY UnwrittenMoves
    <3>3. Written(i) \in Int
          BY WrittenIsInt
    <3>4. builds[i].raw = Written(i) + Unwritten(i) /\ builds'[i] = builds[i]
          BY <1>1, <2>11 DEF RowsAddUp
    <3>5. CASE job[p].build = i
      <4>1. UnwrittenBy(i, p) = cost + rest /\ UnwrittenBy(i, p)' = rest
            BY <1>1, <2>4, <2>5, <2>6, <3>5 DEF UnwrittenBy
      <4>2. QED
            BY <2>2, <2>4, <2>9, <3>1, <3>2, <3>3, <3>4, <3>5, <4>1
    <3>6. CASE job[p].build # i
      <4>1. UnwrittenBy(i, p) = 0 /\ UnwrittenBy(i, p)' = 0
            BY <2>5, <3>6 DEF UnwrittenBy
      <4>2. QED
            BY <2>2, <3>1, <3>2, <3>3, <3>4, <3>6, <4>1
    <3>7. QED
          BY <3>5, <3>6
  <2>12. QED
         BY <2>10, <2>11 DEF RowsAddUp
<1>6. QED
      BY <1>4, <1>5

-----------------------------------------------------------------------------
(* Every step. *)

LEMMA RowsNext ==
    ASSUME TInv, TInv', Refs, NEW p \in Procs, Process(p)
    PROVE  Refs' /\ (RowsAddUp /\ ~disturbed' => RowsAddUp')
<1>0. /\ MInv /\ DOMAIN pc = Procs /\ job[p].doc.kind \in KindsAt(pc[p])
      BY Fields DEF TInv
<1>1. CASE \/ LockOrReopen(p) \/ ReceiveMaterials(p) \/ CompleteBuild(p) \/ AdjustInventory(p)
           \/ ReadMaterial(p) \/ ReceiptRead(p) \/ ReceiveLine(p)
  <2>1. builds' = builds /\ consumptions' = consumptions /\ pc[p] # "consume"
        BY <1>1 DEF LockOrReopen, ReceiveMaterials, CompleteBuild, AdjustInventory, ReadMaterial,
           ReceiptRead, ReceiveLine, Command, tables
  <2>2. pc'[p] # "consume"
        BY <1>0, <1>1, <2>1 DEF LockOrReopen, ReceiveMaterials, CompleteBuild, AdjustInventory,
           ReadMaterial, ReceiptRead, ReceiveLine, Goto
  <2>3. QED
        BY <2>1, <2>2, RowsStay
<1>2. CASE InsertMaterialLot(p) \/ PriceBuild(p) \/ RelieveMaterial(p) \/ SaveDocument(p) \/ PostEntry(p)
  <2>1. /\ builds' = builds /\ consumptions' = consumptions
        /\ pc[p] \in {"lot", "readSheet", "relieve", "save", "post"}
        BY <1>2 DEF InsertMaterialLot, PriceBuild, RelieveMaterial, SaveDocument, PostEntry, tables
  <2>2. /\ pc[p] = "lot" => After(p, "position") = "save"
        /\ pc[p] = "relieve" => After(p, "relieve") = "record"
        /\ pc[p] = "save" => After(p, "save") = "post"
        /\ pc[p] = "post" => After(p, "post") \in {"idle", "relieve"}
        BY <1>0, AfterWrite DEF KindsAt
  <2>3. pc'[p] # "consume"
    <3>1. CASE InsertMaterialLot(p)
          BY <1>0, <2>2, <3>1 DEF InsertMaterialLot, Proceed, Goto
    <3>2. CASE PriceBuild(p)
          BY <1>0, <3>2 DEF PriceBuild, Finish, Goto
    <3>3. CASE RelieveMaterial(p)
          BY <1>0, <2>2, <3>3 DEF RelieveMaterial, Proceed, Goto
    <3>4. CASE SaveDocument(p)
          BY <1>0, <2>2, <3>4 DEF SaveDocument, Proceed, Goto, Finish
    <3>5. CASE PostEntry(p)
          BY <1>0, <2>2, <3>5 DEF PostEntry, Proceed, Goto, Finish
    <3>6. QED
          BY <1>2, <3>1, <3>2, <3>3, <3>4, <3>5
  <2>4. QED
        BY <2>1, <2>3, RowsStay
<1>3. CASE Crash(p)
  <2>1. builds' = builds /\ consumptions' = consumptions /\ pc'[p] = "idle"
        BY <1>0, <1>3 DEF Crash, Finish, Goto, tables
  <2>2. CASE pc[p] # "consume"
        BY <2>1, <2>2, RowsStay
  <2>3. CASE pc[p] = "consume"
    <3>1. disturbed'
          BY <1>3, <2>3 DEF Crash, Harmless
    <3>2. \A q \in Procs \ {p} : pc'[q] = pc[q] /\ job'[q] = job[q]
          BY Others DEF TInv
    <3>3. Refs'
          BY <2>1, <3>2 DEF Refs
    <3>4. QED
          BY <3>1, <3>3
  <2>4. QED
        BY <2>2, <2>3
<1>4. QED
      BY <1>1, <1>2, <1>3, RowsRecord, RowsConsume DEF Process

\* Once disturbed, the history says so for good.
LEMMA DisturbedStays ==
    ASSUME NEW p \in Procs, Process(p), ~disturbed' PROVE ~disturbed
<1>1. ASSUME RelieveMaterial(p) PROVE ~disturbed
      BY <1>1 DEF RelieveMaterial, SetMaterialPosition
<1>2. ASSUME PostEntry(p) PROVE ~disturbed
      BY <1>2 DEF PostEntry
<1>3. QED
      BY <1>1, <1>2 DEF Process, LockOrReopen, ReceiveMaterials, ReadMaterial, ReceiptRead, ReceiveLine,
         InsertMaterialLot, CompleteBuild, PriceBuild, InsertBuild, InsertBuildConsumption,
         AdjustInventory, SaveDocument, Crash, SetMaterialPosition, tables

NInv ==
    /\ TInv /\ Refs
    /\ ~disturbed => Tied /\ BuildsKnown /\ RowsAddUp

LEMMA NothingPending ==
    ASSUME \A p \in Procs : pc[p] = "idle"
    PROVE  SumFunction([p \in Procs |-> Pending(p)]) = 0
<1> DEFINE f == [p \in Procs |-> Pending(p)]
<1>1. DOMAIN f = Procs /\ \A p \in Procs : f[p] = 0
      BY DEF Pending
<1>2. SumFunction(f) = SumFunctionOnSet(f, Procs)
      BY <1>1 DEF SumFunction
<1> HIDE DEF f
<1>3. SumFunctionOnSet(f, Procs) = 0
      BY <1>1, FiniteAssumption, SumZero
<1>4. QED
      BY <1>2, <1>3 DEF f

LEMMA InitNInv == Init => NInv
<1>1. SUFFICES ASSUME Init PROVE NInv
      OBVIOUS
<1>2. TInv
      BY <1>1, InitTInv
<1>3. /\ \A p \in Procs : pc[p] = "idle"
      /\ consumptions = <<>> /\ builds = <<>> /\ entries = <<>>
      /\ position = [m \in Materials |-> Position(0, 0)]
      BY <1>1 DEF Init
<1>4. DOMAIN consumptions = {} /\ DOMAIN builds = {} /\ DOMAIN entries = {}
      BY <1>3
<1>5. Refs /\ BuildsKnown /\ RowsAddUp
      BY <1>3, <1>4 DEF Refs, BuildsKnown, RowsAddUp
<1>6. OnHand = 0
  <2> DEFINE f == [m \in Materials |-> position[m].value]
  <2>1. DOMAIN f = Materials /\ \A m \in Materials : f[m] = 0
        BY <1>3 DEF Position
  <2>2. OnHand = SumFunctionOnSet(f, Materials)
        BY <2>1 DEF OnHand, SumFunction
  <2>3. IsFiniteSet(Materials)
        BY <1>2, OfScope DEF TInv
  <2> HIDE DEF f
  <2>4. QED
        BY <2>1, <2>2, <2>3, SumZero
<1>7. Booked = 0
  <2> DEFINE f == [i \in DOMAIN entries |-> Moved(documents[entries[i]])]
  <2>1. DOMAIN f = {}
        BY <1>4
  <2>2. Booked = SumFunctionOnSet(f, {})
        BY <2>1 DEF Booked, SumFunction
  <2> HIDE DEF f
  <2>3. QED
        BY <2>2, SumEmpty
<1>8. SumFunction([p \in Procs |-> Pending(p)]) = 0
      BY <1>3, NothingPending
<1>9. QED
      BY <1>2, <1>5, <1>6, <1>7, <1>8 DEF NInv, Tied

LEMMA NextNInv == ASSUME NInv, [Next]_vars PROVE NInv'
<1>1. TInv'
      BY NextTInv DEF NInv
<1>2. CASE UNCHANGED vars
  <2>1. scope' = scope /\ position' = position /\ entries' = entries /\ documents' = documents
        /\ builds' = builds /\ consumptions' = consumptions /\ pc' = pc /\ job' = job
        /\ disturbed' = disturbed
        BY <1>2 DEF vars, tables
  <2>2. \A q \in Procs : Pending(q)' = Pending(q)
        BY <2>1, PendingKept
  <2>3. \A q \in Procs : Remaining(q)' = Remaining(q)
        BY <2>1, RemainingKept
  <2>4. Tied => Tied'
    <3>1. OnHand' = OnHand
          BY <2>1, OnHandStays
    <3>2. Booked' = Booked
          BY <2>1 DEF Booked, Moved, RawMoved
    <3>3. QED
          BY <2>2, <3>1, <3>2 DEF Tied
  <2>5. BuildsKnown => BuildsKnown'
        BY <2>1 DEF BuildsKnown
  <2>6. RowsAddUp => RowsAddUp'
    <3>1. \A i, q : UnwrittenBy(i, q)' = UnwrittenBy(i, q)
          BY <2>1, RemainingKept DEF UnwrittenBy
    <3>2. \A i : Unwritten(i)' = Unwritten(i)
          BY <3>1 DEF Unwritten
    <3>3. \A i : Written(i)' = Written(i)
          BY <2>1 DEF Written, WrittenOf
    <3>4. QED
          BY <2>1, <3>2, <3>3 DEF RowsAddUp
  <2>7. Refs'
        BY <2>1 DEF NInv, Refs
  <2>8. QED
        BY <1>1, <2>1, <2>4, <2>5, <2>6, <2>7 DEF NInv
<1>3. ASSUME NEW p \in Procs, Process(p) PROVE NInv'
  <2>1. Refs' /\ (RowsAddUp /\ ~disturbed' => RowsAddUp')
        BY <1>1, <1>3, RowsNext DEF NInv
  <2>2. ASSUME ~disturbed' PROVE Tied' /\ BuildsKnown' /\ RowsAddUp'
    <3>1. TInv /\ Tied /\ BuildsKnown /\ RowsAddUp
          BY <1>3, <2>2, DisturbedStays DEF NInv
    <3>2. QED
          BY <1>1, <1>3, <2>1, <2>2, <3>1, TiedNext, KnownNext
  <2>3. QED
        BY <1>1, <2>1, <2>2 DEF NInv
<1>4. QED
      BY <1>2, <1>3 DEF Next

LEMMA AlwaysNInv == Spec => []NInv
BY InitNInv, NextNInv, PTL DEF Spec

\* Counts move the account alone.
LEMMA CountedApart == ASSUME TInv PROVE RawBalance = Booked + Counted
<1> DEFINE S == DOMAIN entries
           A == {j \in S : documents[entries[j]].kind = "adjustment"}
           all == [i \in S |-> RawMoved(documents[entries[i]])]
           booked == [i \in S |-> Moved(documents[entries[i]])]
           counted == [i \in S |-> IF i \in A THEN documents[entries[i]].raw ELSE 0]
           listed == [i \in A |-> documents[entries[i]].raw]
<1>1. IsFiniteSet(S)
      BY MovedIsInt
<1>2. ASSUME NEW i \in S
      PROVE  booked[i] \in Int /\ counted[i] \in Int /\ all[i] = booked[i] + counted[i]
  <2>1. /\ RawMoved(documents[entries[i]]) \in Int /\ documents[entries[i]].raw \in Int
        BY MovedIsInt
  <2>2. QED
        BY <2>1 DEF Moved, RawMoved
<1>3. /\ A \in SUBSET S /\ IsFiniteSet(A) /\ \A i \in S \ A : counted[i] = 0
      /\ \A i \in A : counted[i] = listed[i]
      BY <1>1, FS_Subset
<1>4. DOMAIN all = S /\ DOMAIN booked = S /\ DOMAIN listed = A
      OBVIOUS
<1>5. /\ RawBalance = SumFunctionOnSet(all, S) /\ Booked = SumFunctionOnSet(booked, S)
      /\ Counted = SumFunctionOnSet(listed, A)
      BY <1>4 DEF RawBalance, Booked, Counted, SumFunction
<1> HIDE DEF S, A, all, booked, counted, listed
<1>6. SumFunctionOnSet(all, S) = SumFunctionOnSet(booked, S) + SumFunctionOnSet(counted, S)
      BY <1>1, <1>2, SumPlus
<1>7. SumFunctionOnSet(counted, S) = SumFunctionOnSet(counted, A)
      BY <1>1, <1>2, <1>3, SumOfPart
<1>8. SumFunctionOnSet(counted, A) = SumFunctionOnSet(listed, A)
      BY <1>3, SumSame
<1>9. QED
      BY <1>5, <1>6, <1>7, <1>8

\* The relief of a material takes exactly the cost 1300 was credited with, and a
\* receipt adds exactly what it debits: as long as no command was killed, refused
\* or overtaken after it began to write, the stock and the account agree to the
\* cent once every command is done.
THEOREM OnHandTiesHolds == Spec => []OnHandTies
<1>1. NInv => OnHandTies
  <2>1. SUFFICES ASSUME NInv, Quiet PROVE OnHand + Counted = RawBalance
        BY DEF OnHandTies
  <2>2. TInv /\ Tied /\ \A p \in Procs : pc[p] = "idle"
        BY <2>1 DEF NInv, Quiet
  <2>3. SumFunction([p \in Procs |-> Pending(p)]) = 0
        BY <2>2, NothingPending
  <2>4. OnHand = Booked
        BY <2>2, <2>3, MovedIsInt DEF Tied
  <2>5. QED
        BY <2>2, <2>4, CountedApart
<1>2. QED
      BY <1>1, AlwaysNInv, PTL

\* complete_build goes on to its row and its consumptions after posting: unless a
\* process was killed in between, every posted build has its row, and the
\* consumptions of a row add up to the material its document took out.
THEOREM EveryBuildRecordedHolds == Spec => []EveryBuildRecorded
<1>1. NInv => EveryBuildRecorded
  <2>1. SUFFICES ASSUME NInv, Quiet
                 PROVE  /\ \A j \in DOMAIN entries : documents[entries[j]].kind = "build" =>
                              \E i \in DOMAIN builds : builds[i].document = entries[j]
                        /\ \A i \in DOMAIN builds :
                              builds[i].raw =
                                SumFunction([k \in {c \in DOMAIN consumptions : consumptions[c].build = i}
                                                |-> consumptions[k].cost])
        BY DEF EveryBuildRecorded
  <2>2. TInv /\ Refs /\ BuildsKnown /\ RowsAddUp /\ \A p \in Procs : pc[p] = "idle"
        BY <2>1 DEF NInv, Quiet
  <2>3. ASSUME NEW i \in DOMAIN builds
        PROVE  builds[i].raw =
                 SumFunction([k \in {c \in DOMAIN consumptions : consumptions[c].build = i}
                                 |-> consumptions[k].cost])
    <3> DEFINE S == DOMAIN consumptions
               T == {c \in S : consumptions[c].build = i}
               f == [k \in S |-> WrittenOf(i, k)]
               g == [k \in T |-> consumptions[k].cost]
               u == [p \in Procs |-> UnwrittenBy(i, p)]
    <3>1. IsFiniteSet(S) /\ \A k \in S : f[k] \in Int
          BY <2>2, WrittenIsInt
    <3>2. /\ T \in SUBSET S /\ IsFiniteSet(T) /\ \A k \in S \ T : f[k] = 0
          /\ \A k \in T : f[k] = g[k]
          BY <3>1, FS_Subset DEF WrittenOf
    <3>3. DOMAIN f = S /\ DOMAIN g = T /\ DOMAIN u = Procs
          OBVIOUS
    <3>4. \A p \in Procs : u[p] = 0
          BY <2>2 DEF UnwrittenBy
    <3>5. /\ Written(i) = SumFunctionOnSet(f, S) /\ Unwritten(i) = SumFunctionOnSet(u, Procs)
          /\ SumFunction(g) = SumFunctionOnSet(g, T)
          BY <3>3 DEF Written, Unwritten, SumFunction
    <3> HIDE DEF S, T, f, g, u
    <3>6. SumFunctionOnSet(f, S) = SumFunctionOnSet(f, T)
          BY <3>1, <3>2, SumOfPart
    <3>7. SumFunctionOnSet(f, T) = SumFunctionOnSet(g, T)
          BY <3>2, SumSame
    <3>8. SumFunctionOnSet(u, Procs) = 0
          BY <3>4, FiniteAssumption, SumZero
    <3>9. builds[i].raw = Written(i) + Unwritten(i) /\ Written(i) \in Int
          BY <2>2, WrittenIsInt DEF RowsAddUp
    <3>10. builds[i].raw = SumFunction(g)
          BY <3>5, <3>6, <3>7, <3>8, <3>9
    <3>11. QED
          BY <3>10 DEF g, T, S
  <2>4. QED
        BY <2>2, <2>3 DEF BuildsKnown
<1>2. QED
      BY <1>1, AlwaysNInv, PTL

=============================================================================
