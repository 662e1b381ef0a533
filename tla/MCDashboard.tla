----------------------------- MODULE MCDashboard -----------------------------
\* Constants for the runs of Dashboard.
EXTENDS Port

\* The last steps of a ceremony: the ones after which the strip is finished.
LastSteps == <<"broadcast", "confirmed">>

Start(where, row, ops, faults, polls) ==
  [me |-> where, rows |-> [r \in Request |-> row],
   ops |-> ops, faults |-> faults, polls |-> polls]

\* The desktop and a device, with operations that race or with a network that
\* fails; a request is to come, open, or about to be signed.
Mixed ==
  {Start(0, "pending", 2, 0, 1), Start(0, "pending", 1, 1, 2), Start(0, "none", 1, 1, 2),
   Start(0, "quorum", 0, 2, 2), Start(2, "pending", 1, 1, 2), Start(2, "quorum", 0, 2, 2)}

\* A device whose signer is lost and repaired while the network fails once.
Device == {Start(2, "none", 2, 1, 1)}
=============================================================================
