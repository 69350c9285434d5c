----------------------------- MODULE MCActions -----------------------------
(* Instances of Actions.                                                   *)
EXTENDS Actions

MCOsts(o) == {}

World(backend, actions, runs, kinds, ops, errors) ==
  [backend |-> backend, actions |-> actions, runs |-> runs, kinds |-> kinds, ops |-> ops, errors |-> errors]
Both == {"Lustre", "JuiceFs"}
MCWorlds ==
  {World(x, {"purge"}, 1, {"rename", "create", "delete"}, 3, 0) : x \in Both}
  \cup {World(x, {"purge"}, 2, {"rename", "create"}, 1, 0) : x \in Both}
  \cup {World(x, {"purge"}, 1, {"rename", "create"}, 2, 1) : x \in Both}
  \cup {World("JuiceFs", {"backup", "alert"}, 1, {"rename", "create"}, 2, 1)}
  \cup {World("Lustre", {"archive", "release"}, 0, {"write"}, 2, 0)}
  \cup {World("Lustre", {"archive", "release", "restore", "remove"}, 0, {"write", "delete"}, 1, 0)}
=============================================================================
