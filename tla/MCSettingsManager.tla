-------------------------- MODULE MCSettingsManager --------------------------
(* A settings file with one supported and one unsupported version, for TLC. *)
EXTENDS SettingsManager

TwoVersions == 1 .. 2
==============================================================================
