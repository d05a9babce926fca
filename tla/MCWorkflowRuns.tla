---------------------------- MODULE MCWorkflowRuns ----------------------------
(***************************************************************************)
(* Instances of WorkflowRuns for TLC.                                       *)
(***************************************************************************)
EXTENDS WorkflowRuns, TLC

CONSTANTS notify, followup, unknown, wf1, s1, s2, s3

Step(id, action, tries) == [id |-> id, action |-> action, tries |-> tries]

\* A step that is tried twice, then a follow-up; or the first step moved behind
\* one whose action nobody registered.
MCLibrary ==
    {<<Step(s1, notify, 2), Step(s2, followup, 1)>>, <<Step(s3, unknown, 1), Step(s1, notify, 2)>>}
===============================================================================
