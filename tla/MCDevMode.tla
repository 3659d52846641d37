----------------------------- MODULE MCDevMode -----------------------------
(* Small instance: each version registers something else. *)
EXTENDS DevMode

MCWebhooks == 
  <<{"mutate", "validate"}, {"validate"}, {"mutate"}, {}, {}, {"mutate", "validate"}>>
=============================================================================
