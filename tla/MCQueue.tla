------------------------------- MODULE MCQueue -------------------------------
(* Instances of QueueMachine: one for conflicts, one for temp ids.          *)
EXTENDS QueueMachine

\* Two fields and a membership edge of detect rows, one of them born offline;
\* beside them a read-only table: what is typed there offline is refused.
PinsFk     == [notes |-> <<>>, pages |-> <<>>]
PinsEdges  == [notes |-> [tags |-> "pages"], pages |-> <<>>]
PinsPolicy == [notes |-> "detect", pages |-> "offline-readonly"]
PinsFields == [notes |-> {"title", "body"}, pages |-> {}]
PinsRows   == {<<"notes", 1>>}

\* Offline-born rows that refer to each other: a tag may name a parent tag, and
\* a note carries a set of tags.  Last write wins: revisions are the other's.
TreeFk     == [notes |-> <<>>, tags |-> [parent |-> "tags"]]
TreeEdges  == [notes |-> [tags |-> "tags"], tags |-> <<>>]
TreePolicy == [notes |-> "lww", tags |-> "lww"]
TreeFields == [notes |-> {}, tags |-> {"name"}]
TreeRows   == {<<"notes", 1>>}

=============================================================================
