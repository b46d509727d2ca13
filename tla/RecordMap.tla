----------------------------- MODULE RecordMap ------------------------------
(***************************************************************************)
(* What a page of records promises: a record keeps its RID and its bytes   *)
(* from its insertion to its deletion, whatever happens to other records.  *)
(***************************************************************************)
CONSTANTS
    RIDs,       \* the slot numbers
    Records     \* the byte strings that may be inserted

VARIABLE recs       \* recs[n]: the record with slot number n

TypeOK == DOMAIN recs \subseteq RIDs /\ \A n \in DOMAIN recs : recs[n] \in Records

Init == DOMAIN recs = {}

Insert(n, r) ==
    /\ n \notin DOMAIN recs
    /\ recs' = [m \in DOMAIN recs \cup {n} |-> IF m = n THEN r ELSE recs[m]]

Delete(n) ==
    /\ n \in DOMAIN recs
    /\ recs' = [m \in DOMAIN recs \ {n} |-> recs[m]]

Next == \E n \in RIDs : Delete(n) \/ \E r \in Records : Insert(n, r)

Spec == Init /\ [][Next]_recs
=============================================================================
