-------------------------------- MODULE Mfg ---------------------------------
(***************************************************************************)
(* Manufacturing beside the general ledger: receipts of raw material,      *)
(* completed builds and physical counts.  Each command reads the materials *)
(* it needs, and then writes the material rows, the lots or the build      *)
(* rows, the document and its entry one transaction at a time.  The report *)
(* on hand says the material rows and account 1300 agree to the cent.      *)
(*                                                                         *)
(* Amounts are cents, quantities whole units.  A sheet has FeetPerSheet    *)
(* board feet.  All documents are dated in one period.                     *)
(***************************************************************************)
EXTENDS Integers, Sequences, FiniteSets, Functions

CONSTANTS
    Procs,         \* the processes that have the ledger open
    Scopes,        \* the shop looked at, and how far: a behaviour keeps to one
    FeetPerSheet,
    MaxCrashes     \* bound: processes killed part way

\* A scope has the unit of each material, the receipts and builds that may
\* happen, the counts, a build sheet, and a bound on commands.  What is received
\* is counted from nothing up; what is used and what is counted may be anything.
ASSUME ScopesAssumption ==
    /\ FeetPerSheet \in Nat \ {0}
    /\ \A s \in Scopes :
        /\ \A m \in DOMAIN s.unit : s.unit[m] \in {"bf", "sheet", "ea"}
        /\ \A r \in s.receipts :
            /\ r.freight \in Nat /\ r.lines # <<>>
            /\ r.lines \in Seq([material : DOMAIN s.unit, qty : Nat, base : Int])
        /\ \A b \in s.builds : b.uses \in Seq([material : DOMAIN s.unit, qty : Int])
        /\ s.counts \subseteq Int
        /\ s.sheet.lines \in Seq([material : DOMAIN s.unit, qty : Int, unit : {"bf", "ea"}])
        /\ s.sheet.yield \in 1 .. 100 /\ s.commands \in Nat
\* There are only so many processes and materials.
ASSUME FiniteAssumption ==
    IsFiniteSet(Procs) /\ \A s \in Scopes : IsFiniteSet(DOMAIN s.unit)

VARIABLES
    scope,
    position,      \* table materials: quantity, value and average of each
    lots,          \* table material_lots
    documents,     \* what each saved document states
    entries,       \* the documents that were posted, in order
    builds,        \* table builds
    consumptions,  \* table build_consumptions
    locked,        \* the period is closed
    pc, job,       \* where each process is, and what it remembers
    disturbed,     \* history: a crash, a refusal or a stale write
    commands, crashes   \* bounds

tables == <<position, lots, documents, entries, builds, consumptions, locked>>
vars == <<scope, tables, pc, job, disturbed, commands, crashes>>

Materials == DOMAIN scope.unit

-----------------------------------------------------------------------------
(* Arithmetic *)

\* Mutation: the fraction is cut off.
Truncated(a, b) == IF b < 0 THEN (-a) \div (-b) ELSE a \div b

\* round_money: midpoint away from zero.
Rounded(a, b) ==
    LET num == IF b < 0 THEN -a ELSE a
        den == IF b < 0 THEN -b ELSE b
    IN IF num >= 0 THEN (2 * num + den) \div (2 * den) ELSE -((den - 2 * num) \div (2 * den))

Average(value, qty) == IF qty = 0 THEN 0 ELSE Rounded(value, qty)

Position(value, qty) == [value |-> value, qty |-> qty, avg |-> Average(value, qty)]

\* tracked_qty: a sheet is counted by the board foot.
Tracked(m, qty) == IF scope.unit[m] = "sheet" THEN qty * FeetPerSheet ELSE qty

\* What allocate_freight weighs the lines by: board feet; with none on the
\* receipt, units; with neither, evenly.
Weights(lines) ==
    LET feet  == [i \in DOMAIN lines |-> IF scope.unit[lines[i].material] = "ea" THEN 0
                                         ELSE Tracked(lines[i].material, lines[i].qty)]
        units == [i \in DOMAIN lines |-> lines[i].qty]
        positive(w) == \E i \in DOMAIN lines : w[i] > 0
    IN IF positive(feet) THEN feet
       ELSE IF positive(units) THEN units ELSE [i \in DOMAIN lines |-> 1]

\* Mutation: the cents left over go to the first lines.
ByPlace(remainder, i, j) == j < i

\* The largest fraction first, then the earlier line.
Before(remainder, i, j) ==
    remainder[j] > remainder[i] \/ (remainder[j] = remainder[i] /\ j < i)

\* allocate_freight: shares cut to the cent, what is left a cent at a time.
AllocateFreight(lines, freight) ==
    LET weight    == Weights(lines)
        total     == SumFunction(weight)
        floor     == [i \in DOMAIN lines |-> (freight * weight[i]) \div total]
        remainder == [i \in DOMAIN lines |-> (freight * weight[i]) % total]
        leftover  == freight - SumFunction(floor)
    IN [i \in DOMAIN lines |->
           IF Cardinality({j \in DOMAIN lines : Before(remainder, i, j)}) < leftover
           THEN floor[i] + 1 ELSE floor[i]]

-----------------------------------------------------------------------------
(* Documents *)

\* Mutation: the variance is taken from the whole standard cost.
PlugOfAll(doc) == doc.finished - doc.raw

\* post_build: what does not balance is variance.
Plug(doc) == doc.finished - doc.raw - doc.applied

\* What the entry of a document does to 1300.
RawMoved(doc) == IF doc.kind = "build" THEN -doc.raw ELSE doc.raw

\* post() finds no leg left.
MovesNothing(doc) == doc.raw = 0 /\ doc.finished = 0 /\ doc.applied = 0

RawBalance == SumFunction([i \in DOMAIN entries |-> RawMoved(documents[entries[i]])])
OnHand == SumFunction([m \in Materials |-> position[m].value])

NoDoc == [kind |-> "none", finished |-> 0, raw |-> 0, applied |-> 0]
NoJob == [lines |-> <<>>, total |-> 0, freight |-> <<>>, seen |-> <<>>, at |-> 1, doc |-> NoDoc, number |-> 0,
          build |-> 0]

Init ==
    /\ scope \in Scopes
    /\ position = [m \in Materials |-> Position(0, 0)]
    /\ lots = <<>> /\ documents = <<>> /\ entries = <<>>
    /\ builds = <<>> /\ consumptions = <<>>
    /\ locked = FALSE
    /\ pc = [p \in Procs |-> "idle"]
    /\ job = [p \in Procs |-> NoJob]
    /\ disturbed = FALSE
    /\ commands = 0 /\ crashes = 0

Command(p) == pc[p] = "idle" /\ commands < scope.commands /\ commands' = commands + 1
Goto(p, label) == pc' = [pc EXCEPT ![p] = label]
Finish(p) == Goto(p, "idle") /\ job' = [job EXCEPT ![p] = NoJob]

LockOrReopen(p) ==
    /\ Command(p)
    /\ locked' = ~locked
    /\ UNCHANGED <<scope, position, lots, documents, entries, builds, consumptions, pc, job,
                   disturbed, crashes>>

-----------------------------------------------------------------------------
(* Steps the commands share. *)

\* The materials a command reads before it writes anything.
Reads(p) ==
    IF pc[p] = "read" THEN [i \in DOMAIN job[p].lines |-> job[p].lines[i].material]
    ELSE [i \in DOMAIN scope.sheet.lines |-> scope.sheet.lines[i].material]

\* material: one row at a time.
ReadMaterial(p) ==
    /\ pc[p] \in {"read", "readSheet"}
    /\ Len(job[p].seen) < Len(Reads(p))
    /\ job' = [job EXCEPT ![p].seen = Append(@, position[Reads(p)[Len(@) + 1]])]
    /\ UNCHANGED <<scope, tables, pc, disturbed, commands, crashes>>

\* Mutation: the build row is written before the entry is posted.
RowFirst(kind) ==
    IF kind = "build" THEN <<"save", "record", "relieve", "post", "consume">>
    ELSE <<"position", "save", "post">>

\* In which order a command writes.
Writes(kind) ==
    CASE kind = "build"   -> <<"save", "post", "relieve", "record", "consume">>
      [] kind = "receipt" -> <<"position", "save", "post">>
      [] OTHER            -> <<"save", "post">>

After(p, label) ==
    LET order == Writes(job[p].doc.kind)
        i == CHOOSE k \in DOMAIN order : order[k] = label
    IN IF i = Len(order) THEN "idle" ELSE order[i + 1]

\* The write after this one, or the end of the command.
Proceed(p, label, done) ==
    /\ Goto(p, After(p, label))
    /\ job' = [job EXCEPT ![p] = IF After(p, label) = "idle" THEN NoJob ELSE done]

\* set_material_position: whatever the row holds by now.
SetMaterialPosition(m, seen, value, qty) ==
    /\ position' = [position EXCEPT ![m] = Position(value, qty)]
    /\ disturbed' = (disturbed \/ position[m] # seen)

\* save_document. A posting that moves nothing is unreachable!(): the process
\* ends.
SaveDocument(p) ==
    /\ pc[p] = "save"
    /\ documents' = Append(documents, job[p].doc)
    /\ IF MovesNothing(job[p].doc) THEN Finish(p)
       ELSE Proceed(p, "save", [job[p] EXCEPT !.number = Len(documents) + 1])
    /\ UNCHANGED <<scope, position, lots, entries, builds, consumptions, locked, disturbed, commands,
                   crashes>>

\* post_entry: refused in a locked period, whatever was written before.
PostEntry(p) ==
    /\ pc[p] = "post"
    /\ IF locked
       THEN /\ Finish(p)
            /\ disturbed' = (disturbed \/ job[p].doc.kind = "receipt")
            /\ UNCHANGED entries
       ELSE /\ entries' = Append(entries, job[p].number)
            /\ Proceed(p, "post", job[p])
            /\ UNCHANGED disturbed
    /\ UNCHANGED <<scope, position, lots, documents, builds, consumptions, locked, commands, crashes>>

-----------------------------------------------------------------------------
(* landed::receive_materials *)

ReceiveMaterials(p) ==
    \E r \in scope.receipts :
        /\ Command(p)
        /\ Goto(p, "read")
        /\ job' = [job EXCEPT ![p].lines = r.lines, ![p].total = r.freight,
                              ![p].freight = AllocateFreight(r.lines, r.freight),
                              ![p].doc.kind = "receipt"]
        /\ UNCHANGED <<scope, tables, disturbed, crashes>>

ReceiptRead(p) ==
    /\ pc[p] = "read" /\ Len(job[p].seen) = Len(job[p].lines)
    /\ Goto(p, "position")
    /\ UNCHANGED <<scope, tables, job, disturbed, commands, crashes>>

Landed(p) == job[p].lines[job[p].at].base + job[p].freight[job[p].at]

\* Each line adds to what was read of its material, not to what it is by now.
ReceiveLine(p) ==
    LET line == job[p].lines[job[p].at]
        seen == job[p].seen[job[p].at]
    IN /\ pc[p] = "position"
       /\ SetMaterialPosition(line.material, seen, seen.value + Landed(p),
                              seen.qty + Tracked(line.material, line.qty))
       /\ Goto(p, "lot")
       /\ UNCHANGED <<scope, lots, documents, entries, builds, consumptions, locked, job, commands,
                      crashes>>

InsertMaterialLot(p) ==
    LET line == job[p].lines[job[p].at]
        done == [job[p] EXCEPT !.doc.raw = @ + Landed(p)]
    IN /\ pc[p] = "lot"
       /\ lots' = Append(lots, [material |-> line.material, landed |-> Landed(p),
                                qty |-> Tracked(line.material, line.qty)])
       /\ IF job[p].at < Len(job[p].lines)
          THEN Goto(p, "position") /\ job' = [job EXCEPT ![p] = [done EXCEPT !.at = @ + 1]]
          ELSE Proceed(p, "position", done)
       /\ UNCHANGED <<scope, position, documents, entries, builds, consumptions, locked, disturbed,
                      commands, crashes>>

-----------------------------------------------------------------------------
(* build::complete_build *)

CompleteBuild(p) ==
    \E b \in scope.builds :
        /\ Command(p)
        /\ Goto(p, "readSheet")
        /\ job' = [job EXCEPT ![p].lines = b.uses, ![p].build = b.built, ![p].doc.kind = "build"]
        /\ UNCHANGED <<scope, tables, disturbed, crashes>>

OnSheet(m) == {i \in DOMAIN scope.sheet.lines : scope.sheet.lines[i].material = m}
Seen(p, m) == job[p].seen[CHOOSE i \in OnSheet(m) : TRUE]

\* standard_cost: material through the yield, parts without, at the averages.
Standard(p) ==
    LET lines == scope.sheet.lines
        cost(unit) == SumFunction([i \in {k \in DOMAIN lines : lines[k].unit = unit} |->
                                      lines[i].qty * job[p].seen[i].avg])
    IN [material |-> Rounded(100 * cost("bf"), scope.sheet.yield),
        other |-> cost("ea") + scope.sheet.labour]

\* What a consumption takes out of 1300 and out of its material.
Cost(p, i) == job[p].lines[i].qty * Seen(p, job[p].lines[i].material).avg

RawUsed(p) == SumFunction([i \in DOMAIN job[p].lines |-> Cost(p, i)])

\* A consumption the sheet does not name refuses the build, before any write.
PriceBuild(p) ==
    LET s == Standard(p)
        b == job[p].build
    IN /\ pc[p] = "readSheet" /\ Len(job[p].seen) = Len(scope.sheet.lines)
       /\ IF \E i \in DOMAIN job[p].lines : OnSheet(job[p].lines[i].material) = {}
          THEN Finish(p)
          ELSE /\ job' = [job EXCEPT ![p].doc.finished = b * (s.material + s.other),
                                     ![p].doc.applied = b * s.other,
                                     ![p].doc.raw = RawUsed(p)]
               /\ Goto(p, "save")
       /\ UNCHANGED <<scope, tables, disturbed, commands, crashes>>

\* Mutation: what is left is priced at the average again.
Repriced(seen, qty, cost) == (seen.qty - qty) * seen.avg

\* Exactly what 1300 was credited with.
Relieved(seen, qty, cost) == seen.value - cost

RelieveMaterial(p) ==
    LET use  == job[p].lines[job[p].at]
        seen == Seen(p, use.material)
        done == [job[p] EXCEPT !.at = @ + 1]
    IN /\ pc[p] = "relieve"
       /\ IF job[p].at <= Len(job[p].lines)
          THEN /\ SetMaterialPosition(use.material, seen,
                                      Relieved(seen, use.qty, Cost(p, job[p].at)),
                                      seen.qty - use.qty)
               /\ job' = [job EXCEPT ![p] = done]
               /\ UNCHANGED pc
          ELSE /\ Proceed(p, "relieve", [job[p] EXCEPT !.at = 1])
               /\ UNCHANGED <<position, disturbed>>
       /\ UNCHANGED <<scope, lots, documents, entries, builds, consumptions, locked, commands, crashes>>

\* insert_build, with the variance computed before the document was posted.
InsertBuild(p) ==
    LET doc == job[p].doc IN
    /\ pc[p] = "record"
    /\ builds' = Append(builds, [document |-> job[p].number, raw |-> doc.raw,
                                 variance |-> doc.finished - doc.raw - doc.applied])
    /\ Proceed(p, "record", [job[p] EXCEPT !.build = Len(builds) + 1])
    /\ UNCHANGED <<scope, position, lots, documents, entries, consumptions, locked, disturbed,
                   commands, crashes>>

InsertBuildConsumption(p) ==
    LET use == job[p].lines[job[p].at] IN
    /\ pc[p] = "consume"
    /\ IF job[p].at <= Len(job[p].lines)
       THEN /\ consumptions' = Append(consumptions,
                   [build |-> job[p].build, material |-> use.material, qty |-> use.qty,
                    cost |-> Cost(p, job[p].at)])
            /\ job' = [job EXCEPT ![p].at = @ + 1]
            /\ UNCHANGED pc
       ELSE Finish(p) /\ UNCHANGED consumptions
    /\ UNCHANGED <<scope, position, lots, documents, entries, builds, locked, disturbed, commands,
                   crashes>>

-----------------------------------------------------------------------------
(* build::adjust_inventory: the account moves and no material row does. *)
AdjustInventory(p) ==
    \E n \in scope.counts :
        /\ Command(p)
        /\ Goto(p, "save")
        /\ job' = [job EXCEPT ![p].doc.kind = "adjustment", ![p].doc.raw = n]
        /\ UNCHANGED <<scope, tables, disturbed, crashes>>

-----------------------------------------------------------------------------
\* The command has written no table but documents.
Harmless(p) ==
    \/ pc[p] \in {"read", "readSheet"}
    \/ pc[p] \in {"save", "post"} /\ job[p].doc.kind # "receipt"

Crash(p) ==
    /\ pc[p] # "idle" /\ crashes < MaxCrashes
    /\ crashes' = crashes + 1
    /\ disturbed' = (disturbed \/ ~Harmless(p))
    /\ Finish(p)
    /\ UNCHANGED <<scope, tables, commands>>

Process(p) ==
    \/ LockOrReopen(p)
    \/ ReceiveMaterials(p) \/ ReadMaterial(p) \/ ReceiptRead(p)
    \/ ReceiveLine(p) \/ InsertMaterialLot(p)
    \/ CompleteBuild(p) \/ PriceBuild(p) \/ RelieveMaterial(p)
    \/ InsertBuild(p) \/ InsertBuildConsumption(p)
    \/ AdjustInventory(p)
    \/ SaveDocument(p) \/ PostEntry(p)
    \/ Crash(p)

Next == \E p \in Procs : Process(p)

Spec == Init /\ [][Next]_vars

-----------------------------------------------------------------------------
Quiet == ~disturbed /\ \A p \in Procs : pc[p] = "idle"

\* The average of every material is its value over its quantity, rounded to the
\* cent, also when builds have taken out more than there was.
AveragesHold ==
    \A m \in {n \in Materials : position[n].qty # 0} :
        LET off == 2 * (position[m].value - position[m].avg * position[m].qty)
            qty == position[m].qty
        IN IF qty > 0 THEN off \in -qty .. qty ELSE off \in qty .. -qty

Counted ==
    SumFunction([i \in {j \in DOMAIN entries : documents[entries[j]].kind = "adjustment"} |->
                    documents[entries[i]].raw])

\* The report on hand agrees with 1300 to the cent, as far as its commands ran
\* one after the other and to their end; a count moves only the account.
OnHandTies == Quiet => OnHand + Counted = RawBalance

\* Freight is allocated to the last cent, each line within a cent of its share,
\* and a bag of hardware carries none of the board feet's freight.
FreightAllocated ==
    \A p \in {q \in Procs : job[q].doc.kind = "receipt"} :
        LET lines  == job[p].lines
            share  == job[p].freight
            weight == Weights(lines)
            all    == SumFunction(weight)
        IN /\ SumFunction(share) = job[p].total
           /\ \A i \in DOMAIN lines :
                /\ share[i] * all - job[p].total * weight[i] \in -(all - 1) .. all - 1
                /\ weight[i] = 0 => share[i] = 0

\* A build row has its posted entry, of the same material and the same variance.
BuildRowBacked ==
    \A i \in DOMAIN builds :
        /\ \E j \in DOMAIN entries : entries[j] = builds[i].document
        /\ builds[i].raw = documents[builds[i].document].raw
        /\ builds[i].variance = Plug(documents[builds[i].document])

\* Every posted build has its row, and the row's consumptions add up to it.
EveryBuildRecorded ==
    Quiet =>
        /\ \A j \in DOMAIN entries : documents[entries[j]].kind = "build" =>
              \E i \in DOMAIN builds : builds[i].document = entries[j]
        /\ \A i \in DOMAIN builds :
              builds[i].raw = SumFunction([k \in {c \in DOMAIN consumptions : consumptions[c].build = i}
                                              |-> consumptions[k].cost])

\* "that total must agree with 1300's own trial-balance reading to the cent,
\* every time, by construction", said of the report between commands.
AlwaysAgrees == (\A p \in Procs : pc[p] = "idle") => OnHand = RawBalance
=============================================================================
