--------------------------- MODULE MCInvoiceMail ---------------------------
EXTENDS InvoiceMail, TLC

\* Replicas and handlers are interchangeable (safety only).
Symmetry == Permutations(Workers) \cup Permutations(Hooks) \cup Permutations(Dispatchers)

=============================================================================
