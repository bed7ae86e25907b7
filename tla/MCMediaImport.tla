----------------------------- MODULE MCMediaImport -----------------------------
(* An instance of MediaImport: a season with an episode that only the          *)
(* overridden guard rejects and that might pass for a movie, and one that is   *)
(* rejected for good besides; and a movie that Sonarr takes for a series.      *)
EXTENDS MediaImport

MCFolders == {"season", "film"}
MCFiles == {
  [folder |-> "season", name |-> "e1", sonarr |-> "episodes", movie |-> TRUE,
   rejects |-> {"unexpected"}],
  [folder |-> "season", name |-> "e2", sonarr |-> "episodes", movie |-> FALSE,
   rejects |-> {"unexpected", "sample"}],
  [folder |-> "film", name |-> "m", sonarr |-> "series", movie |-> TRUE, rejects |-> {}]}

================================================================================
