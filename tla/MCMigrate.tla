----------------------------- MODULE MCMigrate -----------------------------
(***************************************************************************)
(* An instance of Migrate for TLC: the directories of five releases.       *)
(***************************************************************************)
EXTENDS Migrate

\* The first release; the second, with a new file; one that changed its first
\* file after all; one whose first file is gone; and an image without files.
Releases == {<<"one", None>>, <<"one", "two">>, <<"changed", "two">>,
             <<None, "two">>, <<None, None>>}
=============================================================================
