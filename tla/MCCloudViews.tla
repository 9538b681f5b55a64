----------------------------- MODULE MCCloudViews -----------------------------
(* CloudViews for TLC.                                                      *)
EXTENDS CloudViews
=============================================================================
