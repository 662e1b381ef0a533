----------------------------- MODULE MCPayments -----------------------------
\* Model values and symmetry for the runs of Payments.
EXTENDS Payments, TLC

\* Signers and requests are interchangeable: no action names one.
Symmetric == Permutations(Signer) \cup Permutations(Request)

=============================================================================
