---------------------------- MODULE MCTmuEntries ----------------------------
EXTENDS TmuEntries

CONSTANTS l1, l2, c1, c2, p1, p2

MCEnvironments ==
    {{}, {"edits", "remap", "fail"}, {"concurrent", "remap", "fail", "batched"}, {"concurrent", "edits"}}

(* Nothing tells one line, channel or process from another.                *)
Alike == Permutations(Lines) \cup Permutations(Channels) \cup Permutations(Workers)
=============================================================================
