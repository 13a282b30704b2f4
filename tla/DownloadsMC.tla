----------------------------- MODULE DownloadsMC -----------------------------
(***************************************************************************)
(* Three downloads of two files.                                           *)
(***************************************************************************)
EXTENDS Downloads

MCDownloads == {"d1", "d2", "d3"}
MCContentOf == [d \in MCDownloads |-> IF d = "d3" THEN "b" ELSE "a"]
=============================================================================
