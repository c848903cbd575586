------------------------------ MODULE MCSession -----------------------------
EXTENDS Session
CONSTANTS t1, t2, u1, u2

Bound(boots, logins, edits, restarts, faults, conflicts) ==
    [boots |-> boots, logins |-> logins, edits |-> edits,
     restarts |-> restarts, faults |-> faults, conflicts |-> conflicts]

\* Two tabs with two logins and an edit, or with one login and a restart, a
\* fault, or an edit and a conflict, or with an edit, a restart and a fault;
\* one tab with a login, an edit and a restart or a fault, with a login, a
\* restart and a fault, and with two edits that may both be queued and in
\* conflict.
MCBudgets == {Bound(2, 2, 1, 0, 0, 0), Bound(2, 1, 0, 1, 0, 0), Bound(2, 1, 0, 0, 1, 0),
              Bound(2, 1, 1, 0, 0, 1), Bound(2, 0, 1, 1, 1, 0), Bound(1, 1, 1, 1, 0, 0),
              Bound(1, 1, 1, 0, 1, 0), Bound(1, 1, 0, 1, 1, 0), Bound(1, 0, 2, 0, 2, 2)}
=============================================================================
