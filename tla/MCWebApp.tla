------------------------------ MODULE MCWebApp ------------------------------
\* Constants for the runs of WebApp.
EXTENDS WebApp

LastSteps == <<"broadcast", "confirmed">>

Start(where, row, ops, faults, polls) ==
  [me |-> where, rows |-> [r \in Request |-> row],
   ops |-> ops, faults |-> faults, polls |-> polls]

Mixed ==
  {Start(0, "pending", 2, 0, 1), Start(0, "pending", 1, 1, 2), Start(0, "none", 1, 1, 2),
   Start(0, "quorum", 0, 2, 2), Start(2, "pending", 1, 1, 2), Start(2, "quorum", 0, 2, 2)}

\* The desktop while one loss is reported elsewhere.
Loss == {Start(0, "none", 1, 0, 1)}
=============================================================================
