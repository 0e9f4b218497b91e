---------------------------- MODULE MCDumpStore ----------------------------
(***************************************************************************)
(* DumpStore for one or two HTTP requests.  The configurations choose one  *)
(* of these scenarios: what the requests ask, what the sources publish and *)
(* when, and what fails.                                                   *)
(***************************************************************************)
EXTENDS DumpStore, TLC
CONSTANTS c1, c2
Two   == {c1, c2}
Alike == Permutations(Clients)

Base == [users |-> Two, ops |-> {"start"}, arrived |-> {},
         published |-> {"dump"}, publishable |-> {"dump", "data"},
         may_fail |-> {"stage"}, tick_mid_pass |-> FALSE, crashes |-> 0]
Ready == [Base EXCEPT !.arrived = {"dump", "data"}, !.published = {"dump", "data"},
                      !.publishable = COMPONENTS]

Downloads == {[Base EXCEPT !.ops = {"start", "cancel"},
                !.may_fail = {"stage", "deadline"}, !.tick_mid_pass = TRUE]}
Analyses  == {[Ready EXCEPT !.ops = {"analyze", "cancel", "cancel_job"},
                !.may_fail = {"corrupt", "lookup"}, !.tick_mid_pass = TRUE]}

(* One request downloads; two analyze a dump whose indexes, which may be    *)
(* corrupt, are not published again.                                        *)
Ends == {[Base EXCEPT !.users = {c1}, !.crashes = 1],
         [Ready EXCEPT !.ops = {"analyze", "cancel_job"}, !.arrived = COMPONENTS,
            !.publishable = {"dump", "data"}, !.may_fail = {"stage", "corrupt"},
            !.crashes = 1]}

ParseRace == {[Ready EXCEPT !.users = {c1}, !.ops = {"analyze"}, !.may_fail = {},
                 !.tick_mid_pass = TRUE]}
AbortLoop == {[Ready EXCEPT !.ops = {"analyze", "cancel"}, !.may_fail = {},
                 !.publishable = {"dump", "data"}]}
HollowBuild == {[Base EXCEPT !.publishable = {"dump"}]}
=============================================================================
