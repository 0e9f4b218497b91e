---------------------------- MODULE MCTransfer ----------------------------
(***************************************************************************)
(* Transfer with two parts of two units over one connection, twice two     *)
(* attempts, and up to five events that go wrong: enough for a bad part   *)
(* and a failure beside it, or for a stage that fails for good.            *)
(***************************************************************************)
EXTENDS Transfer

Given(kind, parts, n) ==
  [kind |-> kind, parts |-> parts, faults |-> n, ships |-> "db"]

Older(s) == [s EXCEPT !.ships = "csvs"]

Sound  == {Given("dump", 2, 5), Given("indexes", 2, 5), Given("data", 1, 5),
           Older(Given("data", 1, 4))}
Bundle == {Older(Given("data", 1, 1))}
=============================================================================
