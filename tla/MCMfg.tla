------------------------------- MODULE MCMfg --------------------------------
EXTENDS Mfg, TLC

Line(m, n, base) == [material |-> m, qty |-> n, base |-> base]
Receipt(lines, freight) == [lines |-> lines, freight |-> freight]
Use(m, n) == [material |-> m, qty |-> n]
SheetLine(m, n, unit) == [material |-> m, qty |-> n, unit |-> unit]

Units == [foam |-> "bf", ply |-> "sheet", hinge |-> "ea"]
Sheet == [lines |-> <<SheetLine("foam", 2, "bf"), SheetLine("hinge", 1, "ea")>>,
          yield |-> 80, labour |-> 3]

Scope(receipts, runs, counts, n) ==
    [unit |-> Units, receipts |-> receipts, builds |-> runs, counts |-> counts,
     sheet |-> Sheet, commands |-> n]

\* A mixed lorry, an all-hardware box and free samples; builds that use foam
\* and hinges, and one that uses what is not on the sheet.
MCScopes ==
    {Scope({Receipt(<<Line("foam", 3, 10), Line("hinge", 2, 5), Line("ply", 2, 7)>>, 5),
            Receipt(<<Line("hinge", 3, 4), Line("hinge", 0, 0)>>, 2)},
           {[uses |-> <<Use("foam", 2), Use("hinge", 1)>>, built |-> 1]}, {}, 3),
     Scope({Receipt(<<Line("foam", 3, 11)>>, 0)},
           {[uses |-> <<Use("foam", 2)>>, built |-> 1], [uses |-> <<Use("foam", 1), Use("ply", 1)>>, built |-> 1]},
           {-1}, 3),
     Scope({Receipt(<<Line("ply", 1, 0)>>, 0), Receipt(<<Line("ply", 1, 3), Line("foam", 1, 3)>>, 2)}, {}, {1}, 3),
     Scope({Receipt(<<Line("foam", a, 1), Line("ply", b, 1), Line("hinge", c, 1), Line("foam", d, 0)>>, f) :
                a, b, c, d \in 0 .. 2, f \in 0 .. 4}, {}, {}, 1)}

\* One order of foam on two pallets.
PalletScopes ==
    {Scope({Receipt(<<Line("foam", 2, 10), Line("foam", 2, 12)>>, 0)}, {}, {}, 1)}

\* The processes run the same program.
ProcSymmetry == Permutations(Procs)
=============================================================================
