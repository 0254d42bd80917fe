---------------------------- MODULE MCTrialReminders ---------------------------
(***************************************************************************)
(* Small instances of TrialReminders: three businesses for two places, one *)
(* of them suspended and one on VIP at a time, or one page being edited.   *)
(***************************************************************************)
EXTENDS TrialReminders, TLC

MCTraffic == {{"setPlan", "updateStatus"}, {"saveMine"}}
================================================================================
