-------------------------- MODULE MCInvoiceIssuing --------------------------
EXTENDS InvoiceIssuing, TLC

\* Calls are interchangeable.
Symmetry == Permutations(Requesters)

=============================================================================
