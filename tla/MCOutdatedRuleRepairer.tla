----------------------- MODULE MCOutdatedRuleRepairer -----------------------
(***************************************************************************)
(* OutdatedRuleRepairer with four keys for one slot and two places in the  *)
(* queue, and a clock that runs past the age limit and the first backoffs. *)
(***************************************************************************)
EXTENDS OutdatedRuleRepairer
=============================================================================
