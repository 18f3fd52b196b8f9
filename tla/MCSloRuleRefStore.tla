------------------------- MODULE MCSloRuleRefStore --------------------------
(***************************************************************************)
(* SloRuleRefStore with three callers: enough for a call to lose its       *)
(* compare-and-set to two others in turn, and to a deleted reference.      *)
(***************************************************************************)
EXTENDS SloRuleRefStore
=============================================================================
