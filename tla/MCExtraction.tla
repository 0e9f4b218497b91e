--------------------------- MODULE MCExtraction ---------------------------
(***************************************************************************)
(* Extraction of two classes.  Their keys have the same name unless        *)
(* queries fail or the server stops, and files are renamed rather than     *)
(* copied when it does: Mixed has what happens otherwise.                  *)
(***************************************************************************)
EXTENDS Extraction

Base == [base |-> [c \in Classes |-> c], one_fs |-> TRUE, fails |-> TRUE,
         stops |-> TRUE, faults |-> 2, counts |-> {1}]
Same == [Base EXCEPT !.base = [c \in Classes |-> 1]]

Sound == {Base, [Base EXCEPT !.faults = 1, !.one_fs = FALSE, !.stops = FALSE],
          [Base EXCEPT !.faults = 1, !.counts = Counts],
          [Same EXCEPT !.faults = 0, !.one_fs = FALSE]}
ASSUME SoundIsClean == \A g \in Sound : Clean(g)

Mixed == {[Same EXCEPT !.stops = FALSE, !.faults = 1]}
=============================================================================
