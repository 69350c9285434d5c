------------------------------- MODULE MCScan -------------------------------
(* A root with a file and a directory that has two entries; two walkers.   *)
EXTENDS Scan

MCOsts(o) == {o % 2}
MCListing == <<"a", "b">>
Tree == [p \in Places |-> CASE p = <<0, "a">> -> 1 [] p = <<0, "b">> -> 2
                            [] p = <<2, "a">> -> 3 [] OTHER -> None]
World == [link |-> Tree, api |-> FALSE, max_depth |-> None, ignore |-> {}, old |-> {},
          ops |-> 0, faults |-> 0, crashes |-> 0]
MCWorlds ==
  {[World EXCEPT !.ops = 1],
   [World EXCEPT !.faults = 1],
   [World EXCEPT !.crashes = 1],
   [World EXCEPT !.api = TRUE, !.faults = 1],
   [World EXCEPT !.api = TRUE, !.max_depth = 0, !.ops = 1],
   [World EXCEPT !.api = TRUE, !.ignore = {"a"}, !.old = {3}]}
=============================================================================
