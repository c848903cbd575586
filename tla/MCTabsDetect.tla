---------------------------- MODULE MCTabsDetect ----------------------------
(***************************************************************************)
(* A detect row, in two scenarios of which a behaviour plays one: one tab,  *)
(* with faults, whose keystrokes may reach the server; or both tabs, while  *)
(* nothing fails (the bound on faults is passed from the start) and no      *)
(* keystroke is on the wire.                                                *)
(***************************************************************************)
EXTENDS MCTabs

NoFaults == MaxFaults + 1

DetectInit == Fresh /\ faults \in {0, NoFaults}

Untouched(t) ==
  /\ mem[t] = Empty /\ captures[t] = <<>> /\ pc[t] = "idle"
  /\ known[t] = 1 /\ fed[t] = 1 /\ \A m \in net : m.tab # t

Scenario ==
  IF faults = NoFaults THEN \A m \in net : m.seq # 0
  ELSE \E t \in Tabs : Untouched(t)

DetectSpec == DetectInit /\ [][Next]_vars
=============================================================================
