---------------------------- MODULE MCGdpProgram ----------------------------
(* An instance of GdpProgram for TLC.                                      *)
EXTENDS GdpProgram

\* Handlers in turn; with failures and manual changes; overlapping and failing.
Several == {{"channel"}, {"channel", "staff", "fail"}, {"channel", "overlap", "fail"}}
=============================================================================
