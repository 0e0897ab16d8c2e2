------------------------------ MODULE Replica ------------------------------
(***************************************************************************)
(* The records of one entity type of one realm, as QBO has them and as the *)
(* replica has them (table entities of store.rs): what the daemon and the  *)
(* verification sweep, two processes with no lock between them, share.     *)
(***************************************************************************)
EXTENDS Integers

CONSTANT MaxId      \* records are 1 .. MaxId, in the order of ORDERBY Id

VARIABLES
    qbo,        \* the record under each id in QBO
    replica     \* table entities

Ids == 1 .. MaxId

\* A stamp is a MetaData.LastUpdatedTime, a token is a SyncToken.
Record(status, token, stamp) == [status |-> status, token |-> token, stamp |-> stamp]
Absent == Record("absent", 0, 0)

Held(k) == replica[k].status # "absent"

\* A CDC deletion carries no SyncToken; to_entity_payload reads that as "0".
Payload(r) == IF r.status = "deleted" THEN Record("deleted", 0, r.stamp) ELSE r

HoldsThisVersionOrNewer(k, r) ==
    Held(k) /\ (r = replica[k] \/ r.token < replica[k].token)

-----------------------------------------------------------------------------
\* DESIGN.md section 7, "never auto-delete local data": a record is marked
\* deleted in the replica only if QBO deleted it, however QBO and the replica
\* changed while they were read.
NoFalseTombstone ==
    \A k \in Ids : replica[k].status = "deleted" => qbo[k].status = "deleted"

=============================================================================
