---------------------------- MODULE ChangeStream ----------------------------
(***************************************************************************)
(* What the consumer of a change stream promises, whatever the backend: an *)
(* at-least-once stream with a durable checkpoint.  Records are numbered   *)
(* from 1.  A record is reflected once the catalog needs no more work for  *)
(* it, either because its effect is there or because a later record made   *)
(* it irrelevant.  The durable cursor only passes reflected records, the   *)
(* source is purged only behind the cursor, and nothing reflected is ever  *)
(* undone.                                                                 *)
(***************************************************************************)
EXTENDS Naturals

VARIABLES
  produced,   \* number of records the source has logged
  reflected,  \* the records the catalog needs no more work for
  cursor,     \* durable checkpoint
  cleared     \* the source has purged the records up to this one

streamVars == <<produced, reflected, cursor, cleared>>

StreamTypeOK ==
  /\ produced \in Nat
  /\ reflected \subseteq 1..produced
  /\ cursor \in 0..produced
  /\ cleared \in 0..produced

StreamInit ==
  /\ produced = 0
  /\ reflected = {}
  /\ cursor = 0
  /\ cleared = 0

(* The source logs a record; it may make earlier records irrelevant. *)
Produce ==
  /\ produced' = produced + 1
  /\ reflected \subseteq reflected'
  /\ reflected' \subseteq 1..produced'
  /\ UNCHANGED <<cursor, cleared>>

Reflect ==
  /\ reflected \subseteq reflected'
  /\ reflected' \subseteq 1..produced
  /\ UNCHANGED <<produced, cursor, cleared>>

Checkpoint ==
  /\ cursor' \in cursor..produced
  /\ 1..cursor' \subseteq reflected
  /\ UNCHANGED <<produced, reflected, cleared>>

Purge ==
  /\ cleared' \in cleared..cursor
  /\ UNCHANGED <<produced, reflected, cursor>>

StreamNext == Produce \/ Reflect \/ Checkpoint \/ Purge

StreamSpec == StreamInit /\ [][StreamNext]_streamVars

(* No record is purged from the source before it is reflected. *)
NothingLost == 1..cleared \subseteq reflected
=============================================================================
