------------------------------ MODULE Triggers ------------------------------
(***************************************************************************)
(* Policy definitions and their triggers: the parser of trigger strings    *)
(* (rbh-policy/src/trigger_parser.rs), the validation of a definition on   *)
(* its own (store.rs) and against the filesystem it selects                *)
(* (validation.rs), and the threshold tests of the daemon (thresholds.rs). *)
(*                                                                         *)
(* A trigger string is the record of what the parser tells apart:          *)
(*   head  what precedes the number: "", "cron:", "fs>", "ost>", "count>", *)
(*         "volume>" or "?" for any other text,                            *)
(*   num   the number, or NaN when the digits do not parse,                *)
(*   unit  the suffix: "", "h", "m", "s", "%", "KB", "MB", "GB", "TB",     *)
(*   cron  the number of fields of a cron expression, and whether the      *)
(*         scheduler accepts it.                                           *)
(***************************************************************************)
EXTENDS Integers, Sequences, FiniteSetsExt

CONSTANTS
  U64,      \* u64 arithmetic wraps at this modulus
  Multiple, \* the factor of every unit
  CheckSecs \* DEFAULT_CHECK_SECS, in ticks of the threshold checker

ASSUME TriggerAssumption == CheckSecs \in Nat

NaN  == -1
Bad  == [tag |-> "bad"]
Pass == [tag |-> "pass"]

Parsed(tag, n) == [tag |-> tag, n |-> n]

try_parse_interval(t) ==
  IF t.unit \notin {"h", "m", "s"} THEN Pass
  ELSE IF t.head # "" \/ t.num = NaN THEN Bad
  ELSE Parsed("interval", (t.num * Multiple[t.unit]) % U64)

parse_cron(t) ==
  IF t.head # "cron:" THEN Pass
  ELSE IF t.fields = 0 THEN Bad
  ELSE Parsed("cron", IF t.fields = 5 THEN 6 ELSE t.fields)

parse_pct(t) == IF t.unit \in {"", "%"} /\ t.num \in 1..100 THEN t.num ELSE NaN

parse_size(t) ==
  IF t.num = NaN \/ t.unit = "%" THEN NaN ELSE (t.num * Multiple[t.unit]) % U64

try_parse_threshold(t) ==
  LET high == CASE t.head \in {"fs>", "ost>"} -> parse_pct(t)
                [] t.head = "count>" -> IF t.unit = "" THEN t.num ELSE NaN
                [] t.head = "volume>" -> parse_size(t)
                [] OTHER -> NaN
  IN  IF t.head \notin {"fs>", "ost>", "count>", "volume>"} THEN Pass
      ELSE IF high = NaN THEN Bad
      ELSE Parsed(t.head, high)

(* The forms are tried in this order, and the first that claims the string *)
(* decides: a threshold that ends in "s" is a bad interval.                *)
parse_trigger(t) ==
  IF try_parse_interval(t) # Pass THEN try_parse_interval(t)
  ELSE IF parse_cron(t) # Pass THEN parse_cron(t)
  ELSE IF try_parse_threshold(t) # Pass THEN try_parse_threshold(t)
  ELSE Bad

Thresholds == {"fs>", "ost>", "count>", "volume>"}

(* build_trigger: what the scheduler is given.  Thresholds have none.      *)
TimeBased(spec) == spec.tag \in {"interval", "cron"}

(* validate_policy, before a definition is stored *)
validate_policy(def) ==
  LET spec == parse_trigger(def.trigger)
  IN  /\ def.name # ""
      /\ spec # Bad
      /\ spec.tag = "cron" => def.trigger.accepted
      /\ spec.tag = "interval" => spec.n # 0

-----------------------------------------------------------------------------
(* Capabilities                                                            *)

HsmKinds == {"HsmArchive", "HsmRelease", "HsmRestore", "HsmRemove"}

(* The thresholds that parse_trigger builds all target the filesystem, so  *)
(* validate_threshold_target has nothing to refuse.                        *)
validate_policy_for_filesystem(def, fs) ==
  LET spec == parse_trigger(def.trigger)
  IN  /\ def.filesystem = fs.id
      /\ def.kind = "Backup" => def.backup
      /\ def.kind = "Purge" => "purge" \in fs.caps
      /\ def.kind \in HsmKinds => "hsm" \in fs.caps
      /\ def.kind \in {"Alert", "Backup"} => "namespace" \in fs.caps
      /\ spec # Bad
      /\ spec.tag \in {"ost>", "fs>"} => "ost" \in fs.caps
      /\ fs.backend = "Lustre" \/ def.kind \in {"Purge", "Alert", "Backup"}

validate_target_for_filesystem(target, fs) ==
  /\ target.by = "ost" => "ost" \in fs.caps
  /\ target.by = "pool" => "stripe" \in fs.caps

-----------------------------------------------------------------------------
(* Thresholds                                                              *)

Fs     == [by |-> "fs"]
Ost(i) == [by |-> "ost", osts |-> {i}]

(* The first OST at or above the mark, 0 when there is none. *)
first_ost_over_pct(osts, high) ==
  LET hot == {i \in DOMAIN osts : /\ osts[i].total # 0
                                  /\ osts[i].used * 100 >= high * osts[i].total}
  IN  IF hot = {} THEN 0 ELSE CHOOSE i \in hot : \A j \in hot : i <= j

Sum(osts, f) == MapThenSumSet(LAMBDA i : osts[i][f], DOMAIN osts)

(* decode_threshold: what is measured, against which mark and how often;   *)
(* Pass for a trigger that is no threshold.                                *)
decode_threshold(spec) ==
  IF spec.tag \in Thresholds
  THEN [measure |-> spec.tag, high |-> spec.n, check_interval |-> CheckSecs]
  ELSE Pass

(* What one check of a threshold comes to: "abort" when the catalog fails  *)
(* (the rest of the cycle is given up), "skip" when the OST usage cannot   *)
(* be read, else whether it fires and for which target.                    *)
Measure(params, usage) ==
  LET kind == params.measure
      high == params.high
  IN CASE \/ kind = "count>" /\ usage.count = NaN
          \/ kind = "volume>" /\ usage.volume = NaN -> [is |-> "abort"]
       [] kind \in {"ost>", "fs>"} /\ usage.osts = <<>> -> [is |-> "skip"]
       [] kind = "count>" /\ usage.count >= high -> [is |-> "fire", target |-> Fs]
       [] kind = "volume>" /\ usage.volume >= high -> [is |-> "fire", target |-> Fs]
       [] kind = "ost>" /\ first_ost_over_pct(usage.osts, high) # 0 ->
            [is |-> "fire", target |-> Ost(first_ost_over_pct(usage.osts, high))]
       [] /\ kind = "fs>"
          /\ Sum(usage.osts, "total") # 0
          /\ Sum(usage.osts, "used") * 100 >= high * Sum(usage.osts, "total") ->
            [is |-> "fire", target |-> Fs]
       [] OTHER -> [is |-> "quiet"]
=============================================================================
