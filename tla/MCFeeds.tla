------------------------------ MODULE MCFeeds -------------------------------
EXTENDS Feeds, TLC

Row(t, b, amount, done) == [txn |-> t, batch |-> b, amount |-> amount, settled |-> done]
Scope(rows, invoice, runs, requests, cancelling, n, figures) ==
    [rows |-> rows, invoice |-> invoice, runs |-> runs, requests |-> requests,
     cancelling |-> cancelling, commands |-> n, figures |-> figures]

\* Two sales on one invoice beside a refund and a declined card; the same in two
\* batches whose rows alternate; two payroll runs; two requests.
MCScopes ==
    {Scope(<<Row("t1", "b", 2, TRUE), Row("t2", "b", 1, FALSE), Row("t3", "b", -1, TRUE),
             Row("t4", "b", 1, TRUE)>>, 2, {}, {}, {}, 3, 1),
     Scope(<<Row("t1", "b", 2, TRUE), Row("t4", "c", 1, TRUE), Row("t3", "b", -1, TRUE)>>,
           2, {}, {}, {}, 2, 1),
     Scope(<<>>, 0, {"r1", "r2"}, {}, {}, 5, 2),
     Scope(<<>>, 0, {}, {"q1", "q2"}, {"q2"}, 5, 1)}

\* The processes run the same program.
ProcSymmetry == Permutations(Procs)
=============================================================================
