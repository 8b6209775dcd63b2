-------------------------- MODULE MCReloadManager --------------------------
(* Small instances of ReloadManager for TLC.                                *)
EXTENDS ReloadManager, TLC

MCTwo  == {2}
MCNone == {}
MCMayExport  == BOOLEAN
=============================================================================
