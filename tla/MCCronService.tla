--------------------------- MODULE MCCronService ---------------------------
(* A one-shot job and one with a cron expression. *)
EXTENDS CronService, TLC

MCKind == "once" :> "at" @@ "daily" :> "cron"
=============================================================================
