------------------------- MODULE MCAnalysisCoordinator -------------------------
(* A module and one that imports it.                                        *)
EXTENDS AnalysisCoordinator, TLC

CONSTANTS main, util

Files == {main, util}
Importers == [f \in Files |-> IF f = util THEN Files ELSE {main}]

(* A module of its own.                                                     *)
OneFile == {main}
Alone == [f \in OneFile |-> {f}]

(* Texts, contexts and requests are interchangeable.                        *)
Symmetry == Permutations(Text) \cup Permutations(Context) \cup Permutations(Request)
=============================================================================
