------------------------------ MODULE MCBooks -------------------------------
EXTENDS Books, TLC

Scope(book, dates, amount, n, voids) ==
    [book |-> book, dates |-> dates, amount |-> amount, calls |-> n, voids |-> voids]

\* Three calls where dates or totals differ, four where they do not.
MCScopes == {Scope("Receivable", 2, 1, 3, {FALSE}), Scope("Receivable", 1, 2, 3, {FALSE}),
             Scope("Receivable", 1, 1, 3, BOOLEAN), Scope("Payable", 1, 1, 4, {FALSE})}

\* The processes run the same program.
ProcSymmetry == Permutations(Procs)
=============================================================================
