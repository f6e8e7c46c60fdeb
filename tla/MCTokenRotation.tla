--------------------------- MODULE MCTokenRotation ---------------------------
(* Symmetry of TokenRotation for model checking: generated tokens are       *)
(* interchangeable, and so are requests.                                    *)
EXTENDS TokenRotation, TLC

Symmetry == Permutations(Requests) \cup Permutations(Tokens \ Short)
=============================================================================
