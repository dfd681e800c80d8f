------------------------------ MODULE ConfigLine ------------------------------
(***************************************************************************)
(* What appdb/config_versions.py promises those who edit the configuration  *)
(* (its module docstring and those of propose_or_apply, approve_draft and   *)
(* reject_draft): the applied versions are one line, each made on top of the *)
(* one it replaced; a draft waits beside the line and joins it only on top  *)
(* of the version it was made for; what was decided stays decided.          *)
(***************************************************************************)
CONSTANTS
    Ids,        \* version ids
    Nothing,    \* what the first version was made on
    Contents    \* what a version may hold

VARIABLES
    head,       \* the active version
    line,       \* the applied versions
    waiting,    \* the drafts
    refused     \* the rejected drafts

history == <<head, line, waiting, refused>>

Made(id, content) == [id |-> id, on |-> head, content |-> content]
New == {id \in Ids : \A e \in line \cup waiting \cup refused : e.id # id}

\* A version made on the active one becomes the active one.
Apply(id, content) ==
    /\ head' = id /\ line' = line \cup {Made(id, content)}
    /\ UNCHANGED <<waiting, refused>>

\* It is held for a security admin.
Propose(id, content) ==
    /\ waiting' = waiting \cup {Made(id, content)}
    /\ UNCHANGED <<head, line, refused>>

Approve(e) ==
    /\ e.on = head
    /\ head' = e.id /\ line' = line \cup {e} /\ waiting' = waiting \ {e}
    /\ UNCHANGED refused

Reject(e) ==
    /\ waiting' = waiting \ {e} /\ refused' = refused \cup {e}
    /\ UNCHANGED <<head, line>>

Init ==
    /\ head \in Ids /\ waiting = {} /\ refused = {}
    /\ \E content \in Contents :
         line = {[id |-> head, on |-> Nothing, content |-> content]}

Next ==
    \/ \E id \in New, content \in Contents : Apply(id, content) \/ Propose(id, content)
    \/ \E e \in waiting : Approve(e) \/ Reject(e)

Spec == Init /\ [][Next]_history
=============================================================================
