---------------------------- MODULE MCSchedules ----------------------------
(* Small instances of Schedules: policies 1 and 2, written in base 2 as    *)
(* "1" and "10", so that the first id is a prefix of the second.           *)
EXTENDS Schedules, TLC

MCMultiple == ("" :> 1 @@ "%" :> 1 @@ "s" :> 1 @@ "m" :> 2 @@ "h" :> 4
               @@ "KB" :> 2 @@ "MB" :> 4 @@ "GB" :> 8 @@ "TB" :> 16)

Text(head, num, unit) ==
  [head |-> head, num |-> num, unit |-> unit, fields |-> 0, accepted |-> FALSE]
CronText(fields, accepted) ==
  [head |-> "cron:", num |-> NaN, unit |-> "", fields |-> fields, accepted |-> accepted]

Def(kind, trigger, enabled) ==
  [name |-> "p", filesystem |-> "fs1", kind |-> kind, backup |-> FALSE,
   trigger |-> trigger, enabled |-> enabled]

Hourly == Def("HsmArchive", Text("", 1, "h"), TRUE)

Off    == [Hourly EXCEPT !.enabled = FALSE]
Count  == Def("Purge", Text("count>", 3, ""), TRUE)
Volume == Def("Purge", Text("volume>", 1, "KB"), TRUE)
Full   == Def("Alert", Text("ost>", 80, "%"), TRUE)
Half   == Def("Alert", Text("fs>", 75, "%"), TRUE)
Nightly == Def("Backup", CronText(5, TRUE), TRUE)
Zero   == Def("Purge", Text("", 16, "h"), TRUE)

(* HSM may be switched off in the configuration between two starts. *)
MCFilesystems ==
  {[id |-> "fs1", backend |-> "Lustre", caps |-> c] :
     c \in {{"purge", "namespace", "hsm", "stripe", "ost"},
            {"purge", "namespace", "stripe", "ost"}}}

Osts  == <<[used |-> 1, total |-> 2], [used |-> 2, total |-> 2]>>
Usage == [count |-> 4, volume |-> NaN, osts |-> Osts]

(* Two requests on scheduled policies, and one request while the checker   *)
(* runs and the sum over the sizes fails in every cycle.                   *)
MCWorlds ==
  {[stored |-> <<Hourly, Hourly>>, defs |-> {Hourly, Off, Zero}, reqs |-> 2,
    targets |-> {}, usage |-> Usage],
   [stored |-> <<[Nightly EXCEPT !.backup = TRUE]>>, defs |-> {Hourly, Nightly}, reqs |-> 1,
    targets |-> {Fs, Ost(1)}, usage |-> Usage],
   [stored |-> <<Half, Full>>, defs |-> {}, reqs |-> 0,
    targets |-> {Fs, Ost(1)}, usage |-> Usage],
   [stored |-> <<Volume, Count>>, defs |-> {Off}, reqs |-> 1,
    targets |-> {Fs}, usage |-> Usage]}
=============================================================================
