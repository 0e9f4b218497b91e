----------------------------- MODULE MCServices -----------------------------
(***************************************************************************)
(* Small instances of the components that share no state.                  *)
(***************************************************************************)
EXTENDS Services

(* A download and an analysis, two callers, a pool of two. *)
Kinds == [dump |-> "DOWNLOAD", analyze |-> "ANALYZE"]
Queues == [mat |-> "mat", dl0 |-> "dl", dl1 |-> "dl"]

(* Two threads of the server and a tool. *)
Pids == [w1 |-> "server", w2 |-> "server", w3 |-> "tool"]

(* The class table needs the totals and the index, the totals the index;    *)
(* anatomy() asks for the index and then for its own payload.               *)
Loaders == [anaidx |-> <<>>, rstot |-> <<"anaidx">>,
            classtable |-> <<"anaidx", "rstot">>, anat |-> <<>>]
Asking  == [r1 |-> <<"classtable">>, r2 |-> <<"anaidx", "anat">>]

InOrder == <<"s3", "github">>

(* In units of 5 s: three tries, after waits of 5 and 20 s, in each of      *)
(* three attempts of a stage, after waits of 5 and 10 s.                    *)
Retries == <<0, 1, 5, 6, 7, 11, 13, 14, 18>>

-----------------------------------------------------------------------------
(* Sizes that tell every set of objects from every other.                   *)
Sizes == [o \in Objects |-> 2 ^ (o - 1)]

Some == {<<1, 2>>, <<1, 3>>, <<2, 4>>, <<3, 4>>, <<4, 3>>, <<2, 3>>,
         <<2, 1>>, <<4, 4>>}
Instances(edges, roots) ==
  [slots |-> edges, fields |-> {}, arrays |-> {}, roots |-> roots,
   cls |-> [o \in Objects |-> IF o \in {1, 2} THEN o ELSE 3], capped |-> {}]
Small == {Instances(e, <<1>>) : e \in SUBSET Some}
           \union {[Instances(e, <<1, 2>>) EXCEPT !.capped = {3}] : e \in SUBSET Some}

(* For five objects: a long way to 4 that is walked before the short one;   *)
(* a class of its own for each.                                             *)
Crossing == {Instances({<<2, 3>>, <<3, 4>>, <<1, 4>>, <<4, 5>>}, <<1, 2>>)}
Diverse  == {[Instances({}, <<1>>) EXCEPT !.cls = [o \in Objects |-> o]]}
=============================================================================
