------------------------------ MODULE MCParts -------------------------------
(* Three small parts of a server that share no state: the duplicate check,   *)
(* the inotify runner, and the line that a parallel connection keeps for one *)
(* recipient.  TLC explores one and leaves the others where they started, so *)
(* that the numbers of their states add up and do not multiply.              *)
EXTENDS HandledFiles, FolderWatch, ParallelSender

VARIABLE explored

PartsInit ==
  /\ explored \in {"duplicate check", "runner", "line"}
  /\ Init /\ WatchInit /\ LineInit

PartsNext ==
  \/ /\ explored = "duplicate check"
     /\ Next
     /\ UNCHANGED <<explored, watchVars, lineVars>>
  \/ /\ explored = "runner"
     /\ WatchNext
     /\ UNCHANGED <<explored, vars, lineVars>>
  \/ /\ explored = "line"
     /\ LineNext
     /\ UNCHANGED <<explored, vars, watchVars>>

(* The fairness of each part, as its FairSpec or LineFairSpec has it. *)
PartsSpec ==
  /\ PartsInit /\ [][PartsNext]_<<explored, vars, watchVars, lineVars>>
  /\ WF_watchVars(explored = "runner" /\ Handle)
  /\ WF_lineVars(explored = "line" /\ Consumer)
  /\ WF_lineVars(explored = "line" /\ Stop)
=============================================================================
