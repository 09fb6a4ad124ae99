------------------------------- MODULE StoreMC -------------------------------
(* The instances of Store that TLC checks.                                 *)
EXTENDS StoreProperties

\* The methods of a task, and of a user who runs, confirms and exports.
Tasks == {"check", "candidate", "clear", "result", "plan", "compile", "resume", "confirm",
          "generate", "validate", "fail", "export"}

\* The plans and the codes of this instance are alike.
ContentSymmetry == Permutations(Contents \ Outlines)
=============================================================================
