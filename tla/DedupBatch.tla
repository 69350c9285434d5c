----------------------------- MODULE DedupBatch -----------------------------
(***************************************************************************)
(* The deduplicator as a function on one batch of records of one FID: the  *)
(* catalog row after the batch is applied with dedup, compared with the    *)
(* row after every record of the batch is applied.  All records are in the *)
(* log before the batch is applied, so every stat sees the same final file.*)
(*                                                                         *)
(* A row keeps what apply_event (rbh-daemon/src/changelog.rs) can change:  *)
(* whether it exists, whether its attributes and its HSM state were read   *)
(* by this batch, and the record that named it last.                       *)
(***************************************************************************)
EXTENDS Dedup, Integers, Sequences, SequencesExt

CONSTANTS
  Kinds,   \* record kinds
  MaxRec   \* records in a batch

ASSUME BatchAssumption == Kinds \subseteq EventKinds /\ MaxRec \in Nat

VARIABLES
  log,     \* the records of the batch
  queue,   \* what the deduplicator holds
  row0,    \* the catalog row before the batch
  nlink    \* link count of the file itself; 0: the file does not exist

vars == <<log, queue, row0, nlink>>

NoRow == [exists |-> FALSE, attrs |-> FALSE, hsm |-> FALSE, name |-> 0]
OldRow == [NoRow EXCEPT !.exists = TRUE]

(* The batch starts with the creation of a file that has no row, or with a *)
(* file whose row is up to date.                                           *)
Init ==
  /\ log = <<>>
  /\ queue = {}
  /\ \/ row0 = NoRow /\ nlink = 0
     \/ row0 = OldRow /\ nlink = 1

(* The links of the file after a record of kind k. *)
LinksAfter(k) ==
  CASE k \in CreateKinds                -> 1
    [] k = "HLINK"                      -> nlink + 1
    [] k \in {"UNLNK", "UNLNK_LAST"}    -> nlink - 1
    [] k = "RMDIR"                      -> 0
    [] OTHER                            -> nlink

IsDirectory == \E i \in DOMAIN log : log[i].kind = "MKDIR"

FsAllows(k) ==
  CASE k \in CreateKinds  -> nlink = 0 /\ log = <<>>
    [] k = "CLOSE"        -> nlink > 0 \/ log # <<>>
    [] k = "UNLNK"        -> nlink > 1
    [] k = "UNLNK_LAST"   -> nlink = 1 /\ ~IsDirectory
    [] k = "RMDIR"        -> nlink = 1 /\ IsDirectory
    [] OTHER              -> nlink > 0

Record(k) ==
  /\ Len(log) < MaxRec
  /\ FsAllows(k)
  /\ log' = Append(log, [fid |-> "f", kind |-> k])
  /\ queue' = push(log', queue, Len(log'))
  /\ nlink' = LinksAfter(k)
  /\ UNCHANGED row0

Next == \E k \in Kinds : Record(k)

Spec == Init /\ [][Next]_vars

-----------------------------------------------------------------------------
(* A row read by stat_entry_by_fid for record i; it replaces the old one.  *)
StatRow(i) ==
  [exists |-> TRUE, attrs |-> TRUE, hsm |-> FALSE, name |-> i]

(* The name a CLOSE record carries: the one given last before it. *)
NameAt(i) ==
  Max({0} \cup {j \in 1..i : log[j].kind \in CreateKinds \cup MoveKinds})

(* The change source turns the event into a backend-neutral change, and    *)
(* the ingest loop turns it back; a few kinds are merged on the way.       *)
Change(name, kind) == [change |-> name, kind |-> kind]
normalize_lustre(k) ==
  CASE k \in {"CREAT", "MKNOD"} -> Change("Created", "File")
    [] k = "MKDIR"      -> Change("Created", "Directory")
    [] k = "SLINK"      -> Change("Created", "Symlink")
    [] k = "HLINK"      -> Change("Hardlinked", "")
    [] k = "UNLNK"      -> Change("Removed", "")
    [] k = "UNLNK_LAST" -> Change("Removed", "last_link")
    [] k = "RMDIR"      -> Change("Removed", "directory")
    [] k = "RENME"      -> Change("Renamed", "")
    [] k = "CLOSE"      -> Change("ContentChanged", "Data")
    [] k = "TRUNC"      -> Change("ContentChanged", "Truncate")
    [] k \in {"SATTR", "MTIME", "CTIME"} -> Change("MetadataChanged", "Attributes")
    [] k = "XATTR"      -> Change("MetadataChanged", "Xattr")
    [] k = "HSM"        -> Change("Backend", "LustreHsm")
    [] k = "LYOUT"      -> Change("Backend", "LustreLayout")

lustre_event(c) ==
  CASE c.change = "Created" ->
         CASE c.kind = "Directory" -> "MKDIR" [] c.kind = "Symlink" -> "SLINK" [] OTHER -> "CREAT"
    [] c.change = "Hardlinked" -> "HLINK"
    [] c.change = "Removed" ->
         CASE c.kind = "directory" -> "RMDIR" [] c.kind = "last_link" -> "UNLNK_LAST" [] OTHER -> "UNLNK"
    [] c.change = "Renamed" -> "RENME"
    [] c.change = "MetadataChanged" -> IF c.kind = "Xattr" THEN "XATTR" ELSE "SATTR"
    [] c.change = "ContentChanged" -> IF c.kind = "Truncate" THEN "TRUNC" ELSE "CLOSE"
    [] c.change = "Backend" -> IF c.kind = "LustreHsm" THEN "HSM" ELSE "LYOUT"

(* apply_event for record i of kind k, when the whole batch has happened. *)
apply_event(row, i, k) ==
  LET live == nlink > 0
  IN CASE k \in CreateKinds ->
            IF live THEN StatRow(i) ELSE row
       [] k \in MoveKinds ->
            IF row.exists THEN [row EXCEPT !.name = i]
            ELSE IF live THEN StatRow(i) ELSE row
       [] k \in RestatKinds ->
            IF row.exists /\ live
            THEN [row EXCEPT !.attrs = TRUE,
                             !.hsm = @ \/ k = "TRUNC",
                             !.name = IF k = "CLOSE" THEN NameAt(i) ELSE @]
            ELSE row
       [] k = "UNLNK_LAST" -> IF live THEN row ELSE NoRow
       [] k = "RMDIR"      -> NoRow
       [] OTHER            -> row

InOrder(S) == SelectSeq([i \in 1..Len(log) |-> i], LAMBDA i : i \in S)

(* The row after the events that drain hands out have gone their way, and  *)
(* the row if every record were applied as it was read.                    *)
Applied(S) ==
  FoldLeft(LAMBDA row, i : apply_event(row, i, lustre_event(normalize_lustre(log[i].kind))),
           row0, InOrder(S))

Deduped == Applied(queue)
All == FoldLeft(LAMBDA row, i : apply_event(row, i, log[i].kind), row0, InOrder(DOMAIN log))

-----------------------------------------------------------------------------
(* The deduplicator holds only records that were pushed, each under its    *)
(* own index (dedup.rs, Deduplicator::push).                               *)
TypeOK ==
  /\ log \in Seq([fid : {"f"}, kind : Kinds])
  /\ queue \subseteq DOMAIN log
  /\ nlink \in 0..(MaxRec + 1)

(* Dedup changes neither whether the row exists, nor the record that named *)
(* it, nor whether its attributes were read again: what cancel and mask    *)
(* drop is redundant for the row (dedup.rs, Deduplicator::push), and so is *)
(* what the conversions between events and changes merge.  A TRUNC,        *)
(* the only record of an HSM release, loses its refresh of the HSM state   *)
(* when a CLOSE is pending before it, and in no other case.                *)
(* The types hold in every state.                                          *)
DedupKeepsRow ==
  /\ TypeOK
  /\ Deduped.exists = All.exists
  /\ Deduped.name = All.name
  /\ Deduped.attrs = All.attrs
  /\ Deduped.hsm # All.hsm =>
       \E i, j \in DOMAIN log : i < j /\ log[i].kind = "CLOSE" /\ log[j].kind = "TRUNC"
=============================================================================
