------------------------------ MODULE KeyStore ------------------------------
(***************************************************************************)
(* Who may call, as whom, and with which columns: the key table and its    *)
(* cache (appdb/key_store.py), role grants (appdb/roles.py), access        *)
(* requests (appdb/access_requests.py) and the admin routes that use them. *)
(*                                                                         *)
(* AuthMiddleware resolves every request on the event loop, one request at *)
(* a time; the handlers are synchronous and run in the thread pool, where  *)
(* each statement is a step until the first write of its transaction.  A   *)
(* write and what follows it in its transaction is one step: SQLite's      *)
(* write lock is held until the commit.                                    *)
(***************************************************************************)
EXTENDS Naturals, FiniteSets, Sequences

CONSTANTS
    EnvKeys,      \* keys an operator may list in API_KEYS_JSON / API_KEYS_FILE
    EnvEntry,     \* what the entry of each says
    FreshKeys,    \* keys issue_key may mint
    Principals,
    Columns,
    Threads,      \* of the pool that runs the handlers
    Routes,       \* the routes a run exercises
    Outages,      \* may the application database be unreachable
    Restarts,     \* may the operator edit the environment and restart
    MaxTickets,   \* bound: rows of access_requests
    None

Keys == EnvKeys \cup FreshKeys
Caps == {"operations", "security"}
Principal == [id: Principals, denied: SUBSET Columns, caps: SUBSET Caps]

\* require_operations, require_security, require_principal.
Gate ==
    [issue |-> {"operations"}, disable |-> {"operations"}, enable |-> {"operations"},
     revoke |-> {"operations"}, acl |-> {"security"}, grant |-> {"security"},
     demote |-> {"security"}, approve |-> {"security"}, deny |-> {"security"}, submit |-> {}]

ASSUME EntriesAssumption ==
    /\ EnvEntry \in [EnvKeys -> Principal]
    /\ \A j, k \in EnvKeys : EnvEntry[j].id = EnvEntry[k].id => j = k
    /\ EnvKeys \cap FreshKeys = {}
ASSUME ThreadsAssumption == IsFiniteSet(Threads)
ASSUME RoutesAssumption == Routes \subseteq DOMAIN Gate
ASSUME NoneAssumption == None \notin Principals \cup DOMAIN Gate
ASSUME BoundsAssumption ==
    MaxTickets \in Nat /\ Outages \in BOOLEAN /\ Restarts \in BOOLEAN

VARIABLES
    up,        \* the server has started
    env,       \* the keys of the environment this process was started with
    dbUp,      \* the application database answers
    rows,      \* admin_api_keys, by key_sha256
    roles,     \* admin_principal_roles
    tickets,   \* access_requests, by request_id
    cache,     \* _cached_principals; None when absent or older than the TTL
    loop,      \* the request AuthMiddleware is resolving
    thread,    \* the handler each pool thread runs
    gone,      \* history: keys whose revocation was answered with success
    opened,    \* history: columns an environment entry, an approval or an ACL
               \* edit has opened to each key
    granted    \* history: <<principal, column, keys in the table then>> approved and
               \* not edited since

vars == <<up, env, dbUp, rows, roles, tickets, cache, loop, thread, gone, opened, granted>>
tables == <<rows, roles, tickets>>
history == <<gone, opened, granted>>
process == <<up, env, dbUp>>

Row == [id: Principals, denied: SUBSET Columns, disabled: BOOLEAN, revoked: BOOLEAN]
Ticket == [id: Principals, col: Columns, status: {"open", "approved", "denied"}]

Empty == [k \in {} |-> None]
IdleLoop == [pc |-> "free", key |-> None, rows |-> Empty, roles |-> {}, who |-> None,
             gone |-> {}, loaded |-> FALSE]
IdleThread == [pc |-> "idle", route |-> None, key |-> None, id |-> None, cap |-> None,
               cols |-> {}, ticket |-> 0, counted |-> {}]

Put(f, k, v) == [x \in DOMAIN f \cup {k} |-> IF x = k THEN v ELSE f[x]]
Usable(r) == ~r.disabled /\ ~r.revoked

-----------------------------------------------------------------------------
(* get_active_principals                                                   *)

\* A row decides for its key; the environment adds its capability flags, and
\* speaks alone for a key that has no row.
Merge(rs, ro, e) ==
    [k \in {j \in DOMAIN rs : Usable(rs[j])} \cup (e \ DOMAIN rs) |->
        IF k \in DOMAIN rs
        THEN [id |-> rs[k].id, denied |-> rs[k].denied,
              caps |-> {c \in Caps : <<rs[k].id, c>> \in ro}
                       \cup (IF k \in e THEN EnvEntry[k].caps ELSE {})]
        ELSE EnvEntry[k]]

\* MUTANT: an unknown key is served anonymously.
FindAnonymous(principals, k) ==
    IF k \in DOMAIN principals THEN principals[k]
    ELSE [id |-> None, denied |-> {}, caps |-> {}]

\* resolve_principal
Find(principals, k) == IF k \in DOMAIN principals THEN principals[k] ELSE None

\* AuthMiddleware: a request presenting k finds the cached set, or starts to load.
Arrive(k) ==
    /\ up /\ loop.pc = "free"
    /\ loop' = IF cache # None
               THEN [IdleLoop EXCEPT !.pc = "resolved", !.key = k, !.gone = gone,
                                     !.who = Find(cache, k)]
               ELSE [IdleLoop EXCEPT !.pc = "keys", !.key = k, !.gone = gone]
    /\ UNCHANGED <<process, tables, cache, thread, history>>

\* The two SELECTs of _load_db_rows.  If either fails the answer is no rows.
ReadKeys ==
    /\ loop.pc = "keys"
    /\ loop' = IF dbUp THEN [loop EXCEPT !.pc = "roles", !.rows = rows]
                       ELSE [loop EXCEPT !.pc = "store"]
    /\ UNCHANGED <<process, tables, cache, thread, history>>

ReadRoles ==
    /\ loop.pc = "roles"
    /\ loop' = IF dbUp THEN [loop EXCEPT !.pc = "store", !.roles = roles, !.loaded = TRUE]
                       ELSE [loop EXCEPT !.pc = "store", !.rows = Empty]
    /\ UNCHANGED <<process, tables, cache, thread, history>>

Store ==
    /\ loop.pc = "store"
    /\ LET merged == Merge(loop.rows, loop.roles, env) IN
        /\ cache' = merged
        /\ loop' = [loop EXCEPT !.pc = "resolved", !.who = Find(merged, loop.key),
                                !.rows = Empty, !.roles = {}]
    /\ UNCHANGED <<process, tables, thread, history>>

\* MUTANT: every hit renews the cached set.
ExpireUnused ==
    /\ cache # None /\ loop.pc = "free" /\ cache' = None
    /\ UNCHANGED <<process, tables, loop, thread, history>>

\* key_cache_ttl_seconds have passed.
Expire ==
    /\ cache # None /\ cache' = None
    /\ UNCHANGED <<process, tables, loop, thread, history>>

-----------------------------------------------------------------------------
(* Handing the resolved request to its handler.                            *)

Pending(route) == Cardinality({t \in Threads : thread[t].route = route})

\* The bounds on new rows.
RoomFor(route) ==
    /\ route = "submit" => Len(tickets) + Pending("submit") < MaxTickets
    /\ route = "issue" => Cardinality(FreshKeys \ DOMAIN rows) > Pending("issue")

First == [issue |-> "issue", disable |-> "edit", enable |-> "edit", revoke |-> "edit",
          acl |-> "edit", grant |-> "check", demote |-> "holders", approve |-> "approve",
          deny |-> "deny", submit |-> "look"]

\* The column of an access request is the one the guard named in the turn's audit
\* record: a column denied now, or denied to an earlier turn.
EverDenied(who) ==
    who.denied \cup {tickets[n].col : n \in {m \in DOMAIN tickets : tickets[m].id = who.id}}

\* A handler of the route before its path and body are read.
Start(route) == [IdleThread EXCEPT !.pc = First[route], !.route = route]

\* What the path and the body of each route may name.
Body(route) ==
    CASE route = "issue" -> {[Start(route) EXCEPT !.id = p] : p \in Principals}
      [] route \in {"disable", "enable", "revoke"} ->
            {[Start(route) EXCEPT !.key = k] : k \in DOMAIN rows}
      [] route = "acl" ->
            {[Start(route) EXCEPT !.key = e[1], !.cols = e[2]] :
                        e \in (DOMAIN rows) \X (SUBSET Columns)}
      [] route \in {"grant", "demote"} ->
            {[Start(route) EXCEPT !.id = g[1], !.cap = g[2]] : g \in Principals \X Caps}
      [] route \in {"approve", "deny"} ->
            {[Start(route) EXCEPT !.ticket = n] : n \in DOMAIN tickets}
      [] OTHER -> {[Start(route) EXCEPT !.id = loop.who.id, !.cols = {c}] :
                        c \in EverDenied(loop.who)}

\* The gate is the principal as it was resolved; the handler runs with it.
Dispatch(t) ==
    /\ loop.pc = "resolved" /\ loop.who # None
    /\ thread[t].pc = "idle"
    /\ \E route \in Routes :
        /\ Gate[route] \subseteq loop.who.caps
        /\ RoomFor(route)
        /\ \E b \in Body(route) : thread' = [thread EXCEPT ![t] = b]
    /\ loop' = IdleLoop
    /\ UNCHANGED <<process, tables, cache, history>>

\* 401, 403, or a request that changes nothing here.
Dismiss ==
    /\ loop.pc = "resolved" /\ loop' = IdleLoop
    /\ UNCHANGED <<process, tables, cache, thread, history>>

At(t, pc) == thread[t].pc = pc
Go(t, pc) == thread' = [thread EXCEPT ![t] = [@ EXCEPT !.pc = pc]]
Finish(t) == thread' = [thread EXCEPT ![t] = IdleThread]

\* A statement that reaches no database raises, and the handler answers 500.
DbError(t) ==
    /\ ~dbUp /\ thread[t].pc \notin {"idle", "invalidate", "holders"}
    /\ Finish(t)
    /\ UNCHANGED <<process, tables, cache, loop, history>>

-----------------------------------------------------------------------------
(* The life of a key.                                                      *)

\* MUTANT: a new key starts without restrictions.
NewRowOpen(p) == [id |-> p, denied |-> {}, disabled |-> FALSE, revoked |-> FALSE]

\* _maximally_restrictive_denied_columns.
NewRow(p) == [id |-> p, denied |-> Columns, disabled |-> FALSE, revoked |-> FALSE]

IssueKey(t) ==
    /\ At(t, "issue") /\ dbUp
    /\ \E k \in FreshKeys \ DOMAIN rows : rows' = Put(rows, k, NewRow(thread[t].id))
    /\ Go(t, "invalidate")
    /\ UNCHANGED <<process, roles, tickets, cache, loop, history>>

\* MUTANT: enabling a key clears both stamps.
EditedUnrevoked(r, route, cols) ==
    CASE route = "disable" -> [r EXCEPT !.disabled = TRUE]
      [] route = "enable" -> [r EXCEPT !.disabled = FALSE, !.revoked = FALSE]
      [] route = "revoke" -> [r EXCEPT !.revoked = TRUE]
      [] OTHER -> [r EXCEPT !.denied = cols]

\* MUTANT: an ACL edit takes its list for the columns to show.
EditedVisible(r, route, cols) ==
    CASE route = "disable" -> [r EXCEPT !.disabled = TRUE]
      [] route = "enable" -> [r EXCEPT !.disabled = FALSE]
      [] route = "revoke" -> [r EXCEPT !.revoked = TRUE]
      [] OTHER -> [r EXCEPT !.denied = Columns \ cols]

\* set_disabled, revoke_key, update_denied_columns.
Edited(r, route, cols) ==
    CASE route = "disable" -> [r EXCEPT !.disabled = TRUE]
      [] route = "enable" -> [r EXCEPT !.disabled = FALSE]
      [] route = "revoke" -> [r EXCEPT !.revoked = TRUE]
      [] OTHER -> [r EXCEPT !.denied = cols]

EditKey(t) ==
    LET h == thread[t]
        k == h.key
    IN  /\ At(t, "edit") /\ dbUp
        /\ rows' = [rows EXCEPT ![k] = Edited(@, h.route, h.cols)]
        /\ IF h.route = "acl"
           THEN /\ opened' = [opened EXCEPT ![k] = @ \cup (Columns \ h.cols)]
                /\ granted' = {g \in granted : g[1] # rows[k].id \/ g[2] \notin h.cols}
           ELSE UNCHANGED <<opened, granted>>
        /\ Go(t, "invalidate")
        /\ UNCHANGED <<process, roles, tickets, cache, loop, gone>>

\* invalidate_cache, and the answer to the caller.
Invalidate(t) ==
    /\ At(t, "invalidate")
    /\ cache' = None
    /\ gone' = IF thread[t].route = "revoke" THEN gone \cup {thread[t].key} ELSE gone
    /\ Finish(t)
    /\ UNCHANGED <<process, tables, loop, opened, granted>>

-----------------------------------------------------------------------------
(* roles.py                                                                *)

EnvHolders(cap) == {EnvEntry[k].id : k \in {j \in env : cap \in EnvEntry[j].caps}}
DbHolders(cap) == {p \in Principals : <<p, cap>> \in roles}
Holders(cap) == EnvHolders(cap) \cup DbHolders(cap)

\* grant: look for the row, then insert it; a row that appeared in between is a
\* primary-key error and no invalidation.
GrantCheck(t) ==
    LET h == thread[t] IN
    /\ At(t, "check") /\ dbUp
    /\ Go(t, IF <<h.id, h.cap>> \in roles THEN "invalidate" ELSE "insert")
    /\ UNCHANGED <<process, tables, cache, loop, history>>

GrantInsert(t) ==
    LET h == thread[t] IN
    /\ At(t, "insert") /\ dbUp
    /\ roles' = roles \cup {<<h.id, h.cap>>}
    /\ IF <<h.id, h.cap>> \in roles THEN Finish(t) ELSE Go(t, "invalidate")
    /\ UNCHANGED <<process, rows, tickets, cache, loop, history>>

\* MUTANT: only the environment's holders are protected.
MayRevokeAnyGrant(p, cap, counted) == p \notin EnvHolders(cap)

\* LastAdminError and EnvironmentGrantedRoleError.
MayRevoke(p, cap, counted) == counted # {p} /\ p \notin EnvHolders(cap)

\* current_holders of revoke, on its way to the delete.
Hold(t, pc, counted) ==
    thread' = [thread EXCEPT ![t] = [@ EXCEPT !.pc = pc, !.counted = counted]]

\* revoke: the holders are read on a connection of their own, where an error
\* counts as "none in the table".
RevokeCheck(t) ==
    LET h == thread[t]
        counted == EnvHolders(h.cap) \cup (IF dbUp THEN DbHolders(h.cap) ELSE {})
    IN  /\ At(t, "holders")
        /\ IF MayRevoke(h.id, h.cap, counted) THEN Hold(t, "delete", counted) ELSE Finish(t)
        /\ UNCHANGED <<process, tables, cache, loop, history>>

RevokeDelete(t) ==
    LET h == thread[t] IN
    /\ At(t, "delete") /\ dbUp
    /\ roles' = roles \ {<<h.id, h.cap>>}
    /\ Hold(t, "invalidate", {})
    /\ UNCHANGED <<process, rows, tickets, cache, loop, history>>

-----------------------------------------------------------------------------
(* access_requests.py                                                      *)

OpenTickets(p, c) ==
    {n \in DOMAIN tickets : tickets[n] = [id |-> p, col |-> c, status |-> "open"]}

\* submit_request returns the open request for the same column, if there is one.
SubmitLook(t) ==
    LET h == thread[t] IN
    /\ At(t, "look") /\ dbUp
    /\ \E c \in h.cols : IF OpenTickets(h.id, c) # {} THEN Finish(t) ELSE Go(t, "append")
    /\ UNCHANGED <<process, tables, cache, loop, history>>

SubmitInsert(t) ==
    LET h == thread[t] IN
    /\ At(t, "append") /\ dbUp
    /\ \E c \in h.cols :
        tickets' = Append(tickets, [id |-> h.id, col |-> c, status |-> "open"])
    /\ Finish(t)
    /\ UNCHANGED <<process, rows, roles, cache, loop, history>>

\* MUTANT: the status is not part of the WHERE.
ClaimableAny(n) == n \in DOMAIN tickets

\* UPDATE ... WHERE request_id = n AND status = 'open'
Claimable(n) == n \in DOMAIN tickets /\ tickets[n].status = "open"

\* MUTANT: disabled keys are left as they are.
LiveKeysEnabled(p) == {k \in DOMAIN rows : rows[k].id = p /\ Usable(rows[k])}

\* The keys approve_request widens: every key of the requester not revoked.
LiveKeys(p) == {k \in DOMAIN rows : rows[k].id = p /\ ~rows[k].revoked}

Approve(t) ==
    LET n == thread[t].ticket
        req == tickets[n]
        keys == LiveKeys(req.id)
    IN  /\ At(t, "approve") /\ dbUp
        /\ IF Claimable(n)
           THEN /\ tickets' = [tickets EXCEPT ![n] = [@ EXCEPT !.status = "approved"]]
                /\ rows' = [k \in DOMAIN rows |->
                              IF k \in keys
                              THEN [rows[k] EXCEPT !.denied = @ \ {req.col}] ELSE rows[k]]
                /\ opened' = [k \in Keys |-> IF k \in keys THEN opened[k] \cup {req.col}
                                                           ELSE opened[k]]
                /\ granted' = granted \cup {<<req.id, req.col, DOMAIN rows>>}
                /\ Go(t, "invalidate")
           ELSE Finish(t) /\ UNCHANGED <<tickets, rows, opened, granted>>
        /\ UNCHANGED <<process, roles, cache, loop, gone>>

Deny(t) ==
    LET n == thread[t].ticket IN
    /\ At(t, "deny") /\ dbUp
    /\ tickets' = IF Claimable(n)
                  THEN [tickets EXCEPT ![n] = [@ EXCEPT !.status = "denied"]] ELSE tickets
    /\ Finish(t)
    /\ UNCHANGED <<process, rows, roles, cache, loop, history>>

-----------------------------------------------------------------------------
(* bootstrap_from_env and the rest of the start-up                         *)

\* The environment's entries, into an empty table only.
Imported(e) ==
    IF DOMAIN rows # {} THEN rows
    ELSE [k \in e |-> [id |-> EnvEntry[k].id, denied |-> EnvEntry[k].denied,
                       disabled |-> FALSE, revoked |-> FALSE]]

KeysOf(rs, p) == {k \in DOMAIN rs : rs[k].id = p}

\* AmbiguousKeyIdentityError: an environment id that the table knows, but only
\* with other keys.
Ambiguous(rs, e) ==
    \E k \in e : KeysOf(rs, EnvEntry[k].id) # {} /\ k \notin KeysOf(rs, EnvEntry[k].id)

\* The operator stops the server, edits the environment and starts it.  Every
\* request in flight is lost.  Start-up refuses an ambiguous identity, and a
\* deployment without a usable key.
Restart(e) ==
    /\ (Restarts \/ ~up) /\ dbUp
    /\ env' = e
    /\ rows' = Imported(e)
    /\ LET merged == Merge(rows', roles, e) IN
        /\ up' = (~Ambiguous(rows', e) /\ DOMAIN merged # {})
        /\ cache' = IF Ambiguous(rows', e) THEN None ELSE merged
    /\ loop' = IdleLoop
    /\ thread' = [t \in Threads |-> IdleThread]
    /\ UNCHANGED <<dbUp, roles, tickets, history>>

Outage ==
    /\ Outages /\ dbUp' = ~dbUp
    /\ UNCHANGED <<up, env, tables, cache, loop, thread, history>>

-----------------------------------------------------------------------------
Init ==
    /\ up = FALSE /\ env = {} /\ dbUp = TRUE
    /\ rows = Empty /\ roles = {} /\ tickets = <<>>
    /\ cache = None /\ loop = IdleLoop
    /\ thread = [t \in Threads |-> IdleThread]
    /\ gone = {} /\ granted = {}
    /\ opened = [k \in Keys |-> IF k \in EnvKeys THEN Columns \ EnvEntry[k].denied ELSE {}]

Next ==
    \/ \E k \in Keys : Arrive(k)
    \/ ReadKeys \/ ReadRoles \/ Store \/ Expire \/ Dismiss
    \/ \E t \in Threads :
        \/ Dispatch(t) \/ DbError(t) \/ IssueKey(t) \/ EditKey(t) \/ Invalidate(t)
        \/ GrantCheck(t) \/ GrantInsert(t) \/ RevokeCheck(t) \/ RevokeDelete(t)
        \/ SubmitLook(t) \/ SubmitInsert(t) \/ Approve(t) \/ Deny(t)
    \/ \E e \in SUBSET EnvKeys : Restart(e)
    \/ Outage

Spec == Init /\ [][Next]_vars

\* The TTL is measured by the monotonic clock, which always advances.
FairSpec == Spec /\ WF_vars(Expire)

-----------------------------------------------------------------------------
(* Properties                                                              *)

\* Every variable keeps its shape: in particular a cached or resolved principal
\* is a whole principal, whichever of the two sources it came from.
TypeOK ==
    /\ up \in BOOLEAN /\ dbUp \in BOOLEAN /\ env \subseteq EnvKeys
    /\ DOMAIN rows \subseteq Keys /\ \A k \in DOMAIN rows : rows[k] \in Row
    /\ roles \subseteq Principals \X Caps
    /\ tickets \in Seq(Ticket) /\ Len(tickets) <= MaxTickets
    /\ cache # None => DOMAIN cache \subseteq Keys /\ \A k \in DOMAIN cache : cache[k] \in Principal
    /\ loop.who # None => loop.who \in Principal
    /\ \A t \in Threads : thread[t].pc # "idle" => thread[t].route \in Routes

\* A request that arrives after a revocation was answered is not authenticated
\* by the revoked key (revoke_key, get_active_principals).
RevokedStopsAtOnce == loop.pc = "resolved" /\ loop.key \in loop.gone => loop.who = None

\* The same for a request that loaded the keys itself and did reach the table:
\* whatever was enabled, edited, restarted or re-imported since, the tombstone is
\* honoured.
RevokedOnReload ==
    loop.pc = "resolved" /\ loop.loaded /\ loop.key \in loop.gone => loop.who = None

\* After a revocation a key leaves the cache for good, unless the environment still
\* lists it: a load that overlapped the revocation can put it back only until the
\* TTL has passed, and no outage or restart revives it.
RevocationTakesHold ==
    \A k \in Keys :
        k \in gone ~> [](cache # None /\ k \notin env => k \notin DOMAIN cache)

\* Nobody is served with a column that neither the key's environment entry, nor an
\* approval, nor a security admin's ACL edit ever opened to that key: an
\* operations admin who issues, disables and enables keys opens nothing.
VisibleOnlyGranted ==
    /\ cache # None => \A k \in DOMAIN cache : Columns \ cache[k].denied \subseteq opened[k]
    /\ loop.who # None => Columns \ loop.who.denied \subseteq opened[loop.key]

\* roles.revoke never takes a capability from its last holder; only an edit of
\* the environment can leave one without holders.
LastHolderKept ==
    [][env' = env => \A cap \in Caps : Holders(cap) # {} => Holders(cap)' # {}]_vars

\* A revoke takes a capability from its last holder only on a count of the holders
\* that overlapping handlers or an unreachable table have made wrong: it counted
\* nobody, or somebody whose grant another revoke has deleted since the count.
LastHolderCounted ==
    [][env' = env => \A cap \in Caps :
        Holders(cap) # {} /\ Holders(cap)' = {} =>
            \E t \in Threads :
                /\ thread[t].pc = "delete" /\ thread'[t].pc = "invalidate"
                /\ thread[t].cap = cap
                /\ thread[t].counted = {} \/ ~(thread[t].counted \subseteq Holders(cap))]_vars

Effective == Merge(rows, roles, env)
EffectiveKeys(p) == {k \in DOMAIN Effective : Effective[k].id = p}

\* Whoever roles.holders names, and the last-admin check counts, carries the
\* capability when authenticating (with at least one of their usable keys).
HolderCanAct ==
    \A cap \in Caps, p \in Principals :
        up /\ p \in Holders(cap) /\ EffectiveKeys(p) # {} =>
            \E k \in EffectiveKeys(p) : cap \in Effective[k].caps

\* submit_request never leaves two open requests for one column of one person.
OneOpenTicket == \A p \in Principals, c \in Columns : Cardinality(OpenTickets(p, c)) <= 1

\* A request is decided once: approve_request and deny_request never reverse each
\* other, however they overlap.
DecisionFinal ==
    [][\A n \in DOMAIN tickets : tickets[n].status # "open" => tickets'[n] = tickets[n]]_vars

\* An approval covers the keys the requester has in the table, disabled ones too:
\* whatever is enabled, disabled, issued or restarted later, until an ACL edit
\* denies the column again they may read it.
ApprovalHolds ==
    \A g \in granted : \A k \in EffectiveKeys(g[1]) \cap g[3] : g[2] \notin Effective[k].denied

\* What is in force is what was granted, and to whom it still belongs.
AccessSound == RevokedOnReload /\ VisibleOnlyGranted /\ ApprovalHolds

\* An approval holds for the person: until an ACL edit denies the column again,
\* every usable key of the requester may read it.
AccessFollowsPerson ==
    \A g \in granted : \A k \in EffectiveKeys(g[1]) : g[2] \notin Effective[k].denied

\* Start-up refuses an ambiguous identity only while a conflicting key in the
\* table is not revoked, as the error's own advice has it (bootstrap_from_env).
RevokingClearsAmbiguity ==
    ~up /\ Ambiguous(rows, env) =>
        \E k \in env : \E j \in KeysOf(rows, EnvEntry[k].id) :
            k \notin KeysOf(rows, EnvEntry[k].id) /\ ~rows[j].revoked

=============================================================================
