---------------------------- MODULE MCNodeOutput -----------------------------
(* Instances of NodeOutput.                                                  *)
EXTENDS NodeOutput, TLC

CONSTANTS task1, result1, call1

(* "task_1" and "task_1_result" begin alike; call1 is the id of another tool.*)
MCIds == {task1, result1, call1}
MCAlike == {<<task1, result1>>}
MCTaskLike == {task1, result1}
=============================================================================
