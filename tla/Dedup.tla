------------------------------- MODULE Dedup -------------------------------
(***************************************************************************)
(* The per-FID deduplicator of crates/lustre-changelog/src/dedup.rs.       *)
(*                                                                         *)
(* A changelog L maps a record index to its event, a record with fields    *)
(* fid and kind.  The pending queues of the deduplicator are a set Q of    *)
(* record indices: the queue of one FID is the part of Q with that FID,    *)
(* and its order is the order of the indices, because the listener pushes  *)
(* records in the order in which the MDT numbers them.                     *)
(*                                                                         *)
(* Kinds carry the names of ChangelogEvent::kind_name.  An unlink whose    *)
(* last_link flag is set has the kind "UNLNK_LAST".  "SKIP" stands for     *)
(* what never reaches the deduplicator: an ignored record type, an unknown *)
(* type, and a record that does not parse.                                 *)
(***************************************************************************)
EXTENDS Naturals

CreateKinds == {"CREAT", "MKDIR", "MKNOD", "SLINK"}
RestatKinds == {"CLOSE", "TRUNC", "SATTR", "MTIME", "CTIME"}
MoveKinds   == {"HLINK", "RENME"}
RemoveKinds == {"UNLNK_LAST", "RMDIR"}
OtherKinds  == {"UNLNK", "XATTR", "LYOUT", "HSM"}

EventKinds  == CreateKinds \cup RestatKinds \cup MoveKinds
                 \cup RemoveKinds \cup OtherKinds
AllKinds    == EventKinds \cup {"SKIP"}

-----------------------------------------------------------------------------
(* The queue that holds the pending events of the FID of record i. *)
QueueOf(L, Q, i) == {j \in Q : L[j].fid = L[i].fid}

is_cancel_partner(L, j, i) ==
  \/ L[i].kind = "UNLNK_LAST" /\ L[j].kind = "CREAT"
  \/ L[i].kind = "RMDIR" /\ L[j].kind = "MKDIR"

(* The most recent partner of record i: a set of at most one index. *)
LatestPartner(L, Q, i) ==
  {c \in QueueOf(L, Q, i) :
     /\ is_cancel_partner(L, c, i)
     /\ \A j \in QueueOf(L, Q, i) : is_cancel_partner(L, j, i) => j <= c}

(* An unlink is not cancelled when the file was renamed or linked since. *)
should_cancel(L, Q, i) ==
  \E c \in LatestPartner(L, Q, i) :
    L[i].kind = "UNLNK_LAST" =>
      \A j \in QueueOf(L, Q, i) : j > c => L[j].kind \notin MoveKinds

(* Fault: any pending event makes a data change redundant. *)
DominatingAll(k) == IF k \in RestatKinds THEN EventKinds ELSE {}

(* The kinds whose presence in the queue makes a new event redundant. *)
Dominating(k) ==
  CASE k = "CLOSE" -> {"CLOSE"}
    [] k = "TRUNC" -> {"TRUNC", "CLOSE"}
    [] k = "MTIME" -> {"MTIME", "CLOSE", "TRUNC"}
    [] k = "CTIME" -> {"CTIME", "SATTR", "CLOSE"}
    [] k = "SATTR" -> {"SATTR"}
    [] OTHER       -> {}

is_masked(L, Q, i) ==
  \E j \in QueueOf(L, Q, i) : L[j].kind \in Dominating(L[i].kind)

(* The queues after record i is pushed: both sides of a cancelled pair go, *)
(* a masked event is dropped, any other event is appended.                 *)
push(L, Q, i) ==
  IF should_cancel(L, Q, i) THEN Q \ LatestPartner(L, Q, i)
  ELSE IF is_masked(L, Q, i) THEN Q
  ELSE Q \cup {i}
=============================================================================
