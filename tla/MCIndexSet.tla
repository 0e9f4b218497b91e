---------------------------- MODULE MCIndexSet ----------------------------
(***************************************************************************)
(* IndexSet with three members and two queries: more members than a crash  *)
(* and a restore leave without their mtime, as in a real set, which has    *)
(* more than twice the four lanes.                                         *)
(***************************************************************************)
EXTENDS IndexSet

Base == [rotten |-> {}, grows |-> {2}, queries |-> Queries, crashes |-> 1,
         hprof |-> Built, held |-> TRUE, listed |-> FALSE,
         published |-> FALSE, compacts |-> FALSE]

(* A downloaded dump; one whose set is still to come; one that another      *)
(* process compacts; sets whose archives do not all decompress.             *)
Fetched    == {[Base EXCEPT !.listed = l] : l \in BOOLEAN}
Late       == {[Base EXCEPT !.held = FALSE, !.queries = {1}, !.crashes = 0,
                  !.published = TRUE, !.listed = l] : l \in BOOLEAN}
Shared     == {[Base EXCEPT !.compacts = TRUE, !.queries = {1}],
               [Base EXCEPT !.hprof = 1, !.compacts = TRUE, !.crashes = 0]}
Damaged(q) == {[Base EXCEPT !.rotten = r, !.queries = q, !.crashes = 0,
                  !.listed = l, !.published = TRUE] :
                  r \in {{1}, {2}, Members}, l \in BOOLEAN}

Sound       == Fetched \union Late \union Shared \union Damaged({1})
ASSUME SoundIsProtected == \A s \in Sound : Protected(s) /\ Settled(s)

TwoRestores == {s \in Damaged(Queries) : s.rotten = {2} /\ ~s.listed}
Compacted   == {[Base EXCEPT !.queries = {1}, !.crashes = 0, !.listed = TRUE,
                  !.compacts = TRUE]}
(* A fresh download that another process compacts beside two queries. *)
Beside      == {[Base EXCEPT !.crashes = 0, !.compacts = TRUE]}
=============================================================================
