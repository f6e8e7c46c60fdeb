---------------------------- MODULE MCGeoDataStore ----------------------------
(* Values of the constants of GeoDataStore for model checking. *)
EXTENDS GeoDataStore, TLC

Bare == <<Line("other", Empty)>>

AnyStart  == {Missing, Bare}
AnyChange == {Default}
NoChange  == {}

(* Requests are interchangeable, and so are the files. *)
Symmetry == Permutations(Requests) \cup Permutations(Paths)
=============================================================================
