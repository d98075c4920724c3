--------------------------- MODULE MCOpenApiFiles ---------------------------
(* The instance of OpenApiFiles that TLC checks: the paths are alike.      *)
EXTENDS OpenApiFiles

Alike == Permutations(Paths)
=============================================================================
