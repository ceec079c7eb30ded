---------------------------- MODULE DurableStore ----------------------------
(***************************************************************************)
(* What LevelDB promises of writes (options.h): what is acknowledged stays *)
(* visible while the process or only the process fails, and what is synced *)
(* stays visible even when the machine fails.                              *)
(***************************************************************************)
CONSTANT Writes

VARIABLES
  issued,        \* writes callers have made
  visible,       \* writes a reader finds, now or once recovered
  acknowledged,  \* writes reported as done that no machine crash has undone
  synced         \* writes reported as done that asked for a sync

dsVars == <<issued, visible, acknowledged, synced>>

DSInit == issued = {} /\ visible = {} /\ acknowledged = {} /\ synced = {}

Issue(w) ==
  /\ w \in Writes \ issued
  /\ issued' = issued \cup {w}
  /\ UNCHANGED <<visible, acknowledged, synced>>

\* Some of the issued writes take effect and are reported.
Commit ==
  /\ visible \subseteq visible' /\ visible' \subseteq issued
  /\ acknowledged \subseteq acknowledged' /\ acknowledged' \subseteq visible'
  /\ synced \subseteq synced' /\ synced' \subseteq acknowledged'
  /\ UNCHANGED issued

\* The process fails: also writes that were not reported yet may show up.
ProcessFails ==
  /\ acknowledged \subseteq visible' /\ visible' \subseteq issued
  /\ UNCHANGED <<issued, acknowledged, synced>>

MachineFails ==
  /\ synced \subseteq visible' /\ visible' \subseteq issued
  /\ acknowledged' = acknowledged \cap visible'
  /\ UNCHANGED <<issued, synced>>

DSNext == (\E w \in Writes : Issue(w)) \/ Commit \/ ProcessFails \/ MachineFails

DSSpec == DSInit /\ [][DSNext]_dsVars

\* What was promised to last is there (an invariant of this specification).
Lasting == synced \subseteq acknowledged /\ acknowledged \subseteq visible
=============================================================================
