----------------------------- MODULE MCJuiceFs -----------------------------
(* Instances of JuiceFs.                                                   *)
EXTENDS JuiceFs

CONSTANTS a, b

MCOsts(o) == {}
MCVisits == <<a, b>>

World(ops, max, f, tail) == [ops |-> ops, max |-> max, faults |-> f, tail |-> tail]
MCWorlds ==
  {World({"CREATE", "MOVE", "UNLINK"}, 4, 1, FALSE),
   World({"CREATE", "LINK", "UNLINK"}, 4, 0, FALSE),
   World({"CREATE", "LINK", "WRITE"}, 3, 1, FALSE),
   World({"CREATE", "WRITE", "UNLINK", "SET"}, 2, 2, FALSE),
   World({"CREATE"}, 3, 0, TRUE)}
=============================================================================
