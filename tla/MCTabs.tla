------------------------------- MODULE MCTabs -------------------------------
(* Instances of SyncTabs: two tabs, two fields of one row.                  *)
EXTENDS SyncTabs, TLC

CONSTANTS t1, t2, title, body

TwoTabs   == {t1, t2}
TwoFields == {title, body}

\* Tabs and fields are only compared for equality.
Symmetric == Permutations(TwoTabs) \cup Permutations(TwoFields)

=============================================================================
