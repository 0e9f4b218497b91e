---------------------------- MODULE MCDecideLoop ----------------------------
(***************************************************************************)
(* DecideLoop over the inputs the store can feed it.  Each component takes *)
(* every state while the other two stay where they matter for it (decide's *)
(* blocks read only their own component and the two request flags).        *)
(***************************************************************************)
EXTENDS DecideLoop

MachineWith(w, wi, du, da, ix) ==
  [wanted |-> w, want_indexes |-> wi,
   dump |-> Comp(du), data |-> Comp(da), indexes |-> Comp(ix)]

MCMachines ==
  UNION {{MachineWith(w, wi, s, New, New), MachineWith(w, wi, DONE, s, New),
          MachineWith(w, wi, DONE, DONE, s)} :
            w \in BOOLEAN, wi \in BOOLEAN, s \in STATES}

(* zsts and its validity, raws and the marker: enumerated together, the    *)
(* second of each pair is only looked at when the first holds.             *)
ZstViews == {<<FALSE, "unknown">>, <<TRUE, "unknown">>,
             <<TRUE, "valid">>, <<TRUE, "invalid">>}
RawViews == {<<FALSE, FALSE>>, <<TRUE, FALSE>>, <<TRUE, TRUE>>}

MCObservations ==
  {[hprof |-> h, data |-> d, raws |-> r[1], zsts |-> z[1], zsts_valid |-> z[2],
    debris |-> x, compacted_marker |-> r[2]] :
      h \in BOOLEAN, d \in BOOLEAN, r \in RawViews, z \in ZstViews,
      x \in BOOLEAN}

MCLive == {{}, {"data"}, {"indexes"}, {"data", "indexes"}, COMPONENTS}

(* a failed lookup offers nothing (store._remote_view) *)
Offering(cs) == [queried |-> TRUE, failed |-> FALSE, hprof |-> "dump" \in cs,
                 data |-> "data" \in cs, indexes |-> "indexes" \in cs]

MCRemoteViews ==
  {Unqueried, [Unqueried EXCEPT !.queried = TRUE, !.failed = TRUE]}
    \union {Offering(cs) : cs \in {{}, {"dump"}, {"dump", "data"},
                                   {"dump", "indexes"}, COMPONENTS}}

MCInputs ==
  [obs : MCObservations, live : MCLive, remote : MCRemoteViews,
   allow_local : BOOLEAN, mat_idle : BOOLEAN, compact_hold : {FALSE}]
=============================================================================
