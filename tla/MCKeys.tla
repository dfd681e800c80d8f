------------------------------- MODULE MCKeys -------------------------------
(* Small instances of KeyStore: in one run the life of keys and the edits   *)
(* of their columns by one thread, the grants of one capability and the     *)
(* access requests by two, all with outages; in another a revocation by     *)
(* itself.                                                                  *)
EXTENDS KeyStore

CONSTANT Second   \* the thread only the roles and the access requests need
VARIABLE part

\* ann administers; bob is an analyst who may not read the column.
Entries ==
    [k \in {"e1", "e2"} |->
        IF k = "e1" THEN [id |-> "ann", denied |-> {}, caps |-> Caps]
        ELSE [id |-> "bob", denied |-> {"c1"}, caps |-> {}]]

Life == INSTANCE KeyStore WITH Routes <- {"issue", "enable", "revoke"},
            Outages <- TRUE, Restarts <- TRUE, MaxTickets <- 0
Edits == INSTANCE KeyStore WITH Routes <- {"acl", "disable", "enable"},
            Outages <- TRUE, Restarts <- TRUE, MaxTickets <- 0
Roles == INSTANCE KeyStore WITH Routes <- {"grant", "demote"},
            Outages <- TRUE, Restarts <- TRUE, MaxTickets <- 0
Requests == INSTANCE KeyStore WITH
            Routes <- {"submit", "approve", "deny", "disable", "enable"},
            Outages <- TRUE, Restarts <- FALSE

MCInit == Init /\ part \in {"life", "edits", "roles", "requests"}
MCNext ==
    /\ UNCHANGED part
    /\ \/ part = "life" /\ Life!Next /\ thread'[Second] = thread[Second]
       \/ part = "edits" /\ Edits!Next /\ thread'[Second] = thread[Second]
       \/ part = "roles" /\ Roles!Next /\ \A t \in Threads : thread'[t].cap # "operations"
       \/ part = "requests" /\ Requests!Next
    /\ part # "life" => \A k \in FreshKeys : loop'.key # k

MCSpec == MCInit /\ [][MCNext]_<<part, vars>> /\ WF_vars(Expire /\ UNCHANGED part)

\* The constants' own instance, by itself (KeysRevokeRace).
OneSpec == Init /\ part = "one" /\ [][Next /\ UNCHANGED part]_<<part, vars>>

=============================================================================
