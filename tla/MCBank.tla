------------------------------- MODULE MCBank -------------------------------
EXTENDS Bank, TLC

Line(amount, day) == [amount |-> amount, day |-> day]
Scope(record, files, kinds, posts, calls) ==
    [feed |-> record, exports |-> files, kinds |-> kinds, entries |-> posts, commands |-> calls]

\* Two sums that differ in the day alone, met by payments and settlements or by
\* deposits; the same in files that overlap; one in and one out.
MCScopes ==
    {Scope(<<Line(2, 1), Line(2, 2)>>, {{1, 2}}, {"payment", "settlement"}, 2, 3),
     Scope(<<Line(2, 1), Line(2, 2)>>, {{1, 2}}, {"deposit"}, 1, 3),
     Scope(<<Line(2, 1), Line(2, 2)>>, {{1, 2}, {2}}, {"payment", "settlement"}, 1, 4),
     Scope(<<Line(1, 1), Line(-1, 1)>>, {{1, 2}}, {"payment", "deposit"}, 1, 4)}

MoneyOutScopes == {Scope(<<Line(-1, 1)>>, {{1}}, {}, 0, 3)}

\* The processes run the same program.
ProcSymmetry == Permutations(Procs)
=============================================================================
