---------------------------- MODULE MCSchedule ----------------------------
(* Small instance: an interval of three ticks, no run, three, or no end to them. *)
EXTENDS Schedule

MCLimits == {0, 3, Unlimited}
=============================================================================
