--------------------------- MODULE MCConfigWrites ---------------------------
(* Values of the constants of ConfigWrites for model checking. *)
EXTENDS ConfigWrites, TLC

CONSTANTS rule, other, note

NoTags    == {NoTag}
SomeTags  == {NoTag, Revision({})}
FreshTags == {Revision({})}

(* All files exist; or, on a new router, those that were never written do   *)
(* not, and domain.conf has a note.                                         *)
Existing == {[f \in Files |-> {}]}
AnyStart == {[f \in Files |-> IF f \in missing THEN Missing
                              ELSE IF f = "domain.conf" THEN {note} ELSE {}] :
               missing \in {{}, {"hrneo.conf", "ip.list"}}}

(* What is put: an entry to edit, and one and a note to lose. *)
FewPuts == {{rule}, {rule, other, note}}

(* Parsing loses notes and keeps everything else. *)
McLoose == {note}
McTyped == [c \in Contents |-> c \ McLoose]

(* The default configuration sets one of the entries. *)
McDefaults == {other}

(* Requests are interchangeable. *)
Symmetry == Permutations(Requests)
=============================================================================
