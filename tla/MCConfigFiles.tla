--------------------------- MODULE MCConfigFiles ---------------------------
(* Small instances of ConfigFiles for TLC.                                 *)
EXTENDS ConfigFiles
=============================================================================
