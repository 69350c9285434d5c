----------------------------- MODULE MCPipeline -----------------------------
(* Instances of ChangelogPipeline for TLC. *)
EXTENDS PipelineInv, TLC

CONSTANTS f1, f2, l1, l2

MCFids      == {f1, f2}
MCOneFid    == {f1}
MCListeners == {l1, l2}
MCOneListener == {l1}

Symm == Permutations(MCFids) \cup Permutations(MCListeners)

=============================================================================
