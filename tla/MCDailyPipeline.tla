--------------------------- MODULE MCDailyPipeline -----------------------------
(* A small instance of DailyPipeline. *)
EXTENDS DailyPipeline

TheRequests ==
  {Request("intraday", FALSE, FALSE), Request("intraday", TRUE, FALSE),
   Request("intraday", TRUE, TRUE), Request("nightly", TRUE, FALSE),
   Request("nightly", FALSE, FALSE)}
================================================================================
