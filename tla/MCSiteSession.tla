---------------------------- MODULE MCSiteSession ----------------------------
(* Small instances of SiteSession for TLC.                                  *)
EXTENDS SiteSession
=============================================================================
