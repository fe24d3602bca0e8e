---------------------------- MODULE MCReportCache ----------------------------
(* Small instances of ReportCache. *)
EXTENDS ReportCache, TLC

CONSTANTS x1, w1, w2, coffee, bus, food
\* One row was entered before and no budget was set: a row entered and deleted again takes the
\* version back to what it was.
MCFirstRows == coffee :> 0 @@ bus :> 1 @@ food :> 0
=============================================================================
