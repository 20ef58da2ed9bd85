----------------------------- MODULE MCSummaries -----------------------------
(***************************************************************************)
(* Small instances of Summaries for TLC: two requests for the summary of a *)
(* video and an edit by hand, the video deleted and another one captured   *)
(* under its rowid, and one crash or failing statement.                    *)
(***************************************************************************)
EXTENDS Summaries, TLC

CONSTANTS r1, r2, e1
=============================================================================
