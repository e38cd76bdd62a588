------------------------------ MODULE Readers ------------------------------
(***************************************************************************)
(* The reading endpoints beside the commands that write.  A reader changes  *)
(* nothing, so none can tell whether another one runs: a behaviour has one, *)
(* of any kind, started at any time.                                        *)
(***************************************************************************)
EXTENDS ContinuityReader, CaseList, Timeline

vars == <<recordVars, report, walk, scroll>>

Init == RecordInit /\ ReportInit /\ WalkInit /\ ScrollInit

NobodyReads == report.at = "idle" /\ walk.at = "idle" /\ scroll.at = "idle"

Command == Write /\ UNCHANGED <<report, walk, scroll>>

DrawReport ==
  /\ \/ NobodyReads /\ \E s \in Station : ReadHistory(s)
     \/ ReportStep
  /\ UNCHANGED <<recordVars, walk, scroll>>

WalkCases ==
  /\ \/ NobodyReads /\ \E filter \in Filter : FirstPage(filter)
     \/ NextPage
  /\ UNCHANGED <<recordVars, report, scroll>>

ScrollTimeline ==
  /\ \/ /\ NobodyReads
        /\ \E c \in Case, types \in {EventType} \cup {{type} : type \in EventType} :
             OpenTimeline(c, types)
     \/ ScrollStep
  /\ UNCHANGED <<recordVars, report, walk>>

Next == Command \/ DrawReport \/ WalkCases \/ ScrollTimeline

Spec == Init /\ [][Next]_vars
=============================================================================
