---------------------------- MODULE MCPolicyRun ----------------------------
(* An instance of PolicyRun for TLC: three rows, and policies that differ  *)
(* in kind, caps, limits and retries.                                      *)
EXTENDS PolicyRun

MCRows ==
  [e \in 1..3 |->
     [size |-> e, nlink |-> IF e = 2 THEN 2 ELSE 1, age |-> 4 - e,
      tags |-> {"hot"}, osts |-> {e}, pool |-> IF e = 1 THEN "null" ELSE "flash",
      uid |-> 0]]

Plain ==
  [kind |-> "Purge", valid |-> TRUE, executable |-> TRUE, dry_run |-> FALSE,
   tags |-> {"hot"}, target |-> [by |-> "fs"], max_count |-> 3, lru |-> TRUE,
   max_volume |-> None, nb_threads |-> 2, skip_hardlinked |-> FALSE,
   max_attempts |-> 0, timeout |-> FALSE,
   rate |-> [max_per_sec |-> None, max_bytes_per_sec |-> None]]

Limited == [max_per_sec |-> 1, max_bytes_per_sec |-> 2]

MCPolicies ==
  LET hsm == [Plain EXCEPT !.kind = "HsmArchive"]
      pool == [by |-> "pool", pool |-> "flash"]
  IN  { Plain,
        [Plain EXCEPT !.valid = FALSE],
        [Plain EXCEPT !.kind = "Backup", !.dry_run = TRUE, !.lru = FALSE],
        [Plain EXCEPT !.tags = {"cold"}],
        [Plain EXCEPT !.max_attempts = 2, !.timeout = TRUE, !.target = pool],
        [Plain EXCEPT !.max_volume = 5, !.nb_threads = 0, !.rate = Limited],
        [Plain EXCEPT !.skip_hardlinked = TRUE, !.rate.max_per_sec = 2],
        [Plain EXCEPT !.kind = "Alert", !.max_count = 2, !.timeout = TRUE,
                      !.target = [by |-> "ost", osts |-> {1, 3}]],
        hsm,
        [hsm EXCEPT !.max_attempts = 2, !.timeout = TRUE, !.max_count = 2],
        [hsm EXCEPT !.dry_run = TRUE, !.target = [by |-> "user", uid |-> 0]],
        [hsm EXCEPT !.max_volume = 4, !.skip_hardlinked = TRUE, !.rate = Limited,
                    !.nb_threads = 1],
        [hsm EXCEPT !.kind = "Migration", !.executable = FALSE] }
=============================================================================
