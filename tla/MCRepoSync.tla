------------------------------- MODULE MCRepoSync -------------------------------
(* The instance of the repository sync that TLC checks: two sites on one   *)
(* branch, and a preview whose branch loses its index.html on the way.     *)
EXTENDS RepoSync

CONSTANTS a, b, pr

PreviewBreaks == {<<pr, 2>>}
===============================================================================
