----------------------------- MODULE ResourcePool -----------------------------
(***************************************************************************)
(* What a pool of buffer headers promises its clients, whatever its        *)
(* queueing and locking: a resource is created before it is handed out, is *)
(* with at most one holder at a time, is handed out only while the pool    *)
(* serves, and is destroyed only once the pool is closed.  BufferPool      *)
(* implements this specification.                                          *)
(***************************************************************************)
CONSTANT Resources

VARIABLES
    status,  \* "building", "serving" or "closed"
    owned,   \* the resources that exist
    held     \* the resources handed out and not given back

vars == <<status, owned, held>>

TypeOK ==
    /\ status \in {"building", "serving", "closed"}
    /\ owned \subseteq Resources
    /\ held \subseteq Resources

Init == status = "closed" /\ owned = {} /\ held = {}

(* A new pool object: nothing is owned yet.                                *)
Renew ==
    /\ status = "closed" /\ owned = {}
    /\ status' = "building"
    /\ held' = {}
    /\ UNCHANGED owned

Make(r) ==
    /\ status = "building" /\ r \notin owned
    /\ owned' = owned \union {r}
    /\ UNCHANGED <<status, held>>

Open ==
    /\ status = "building" /\ owned = Resources
    /\ status' = "serving"
    /\ UNCHANGED <<owned, held>>

(* Only a served, existing resource that nobody holds is handed out.       *)
Acquire(r) ==
    /\ status = "serving"
    /\ r \in owned \ held
    /\ held' = held \union {r}
    /\ UNCHANGED <<status, owned>>

Release(r) ==
    /\ r \in held \intersect owned
    /\ held' = held \ {r}
    /\ UNCHANGED <<status, owned>>

Close ==
    /\ status # "closed"
    /\ status' = "closed"
    /\ UNCHANGED <<owned, held>>

Destroy(r) ==
    /\ status = "closed" /\ r \in owned
    /\ owned' = owned \ {r}
    /\ UNCHANGED <<status, held>>

Next ==
    \/ Renew \/ Open \/ Close
    \/ \E r \in Resources : Make(r) \/ Acquire(r) \/ Release(r) \/ Destroy(r)

Spec == Init /\ [][Next]_vars
=============================================================================
