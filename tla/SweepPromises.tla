--------------------------- MODULE SweepPromises ---------------------------
(***************************************************************************)
(* What a verification sweep promises of a record, stated over what it     *)
(* leaves behind and what it holds, and not over how it pages, compares    *)
(* and fetches: Sweep is the sweep that keeps these promises.              *)
(***************************************************************************)
EXTENDS Replica

VARIABLES
    quarantine,     \* table quarantine_entities
    batch,          \* what was fetched and not yet written
    began           \* history: QBO's records when this sweep began

\* A step within one sweep that leaves nothing of the batch has written it.
Wrote == DOMAIN batch' = {} /\ UNCHANGED began

\* sweep_entity_type writes what this sweep fetched: no record is left at a
\* version older than the one QBO had when the sweep began.
HealsFromThisSweep ==
    [][Wrote => \A k \in DOMAIN batch :
          replica'[k].status = "live" => replica'[k].token >= began[k].token]_<<replica, batch>>

\* A record that was in QBO all through the sweep is quarantined only if
\* another one before it left the list and the paged index slipped over it.
QuarantineJustified ==
    [][\A k \in quarantine' \ quarantine :
          qbo[k].status = "live" /\ began[k].status = "live" =>
             \E j \in 1 .. k - 1 : began[j].status = "live" /\ qbo[j].status # "live"]_quarantine

=============================================================================
