--------------------------- MODULE ModelSettingsMC ---------------------------
(* The instances of ModelSettings that TLC checks: two tasks, two clients  *)
(* of the settings, two names and one key.                                 *)
EXTENDS ModelSettingsProperties
=============================================================================
