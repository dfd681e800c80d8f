---------------------------- MODULE SessionStore ----------------------------
(***************************************************************************)
(* The server-side conversation store: session/store.py's SessionStore (an *)
(* OrderedDict of live SessionRecord objects behind one lock), its SQLite  *)
(* backend session/persistence.py, and the /v2/sessions handlers of        *)
(* api/v2_routes.py that drive both.                                       *)
(*                                                                         *)
(* One step is one critical section: a block under SessionStore._lock, one *)
(* persistence call (each takes SessionPersistence._lock and runs one      *)
(* transaction), or one block of Python on a record that no lock protects. *)
(* Between two steps of a request any other request may run: the create,   *)
(* read, rename and delete handlers are plain functions on the thread pool *)
(* while the ask handlers run on the event loop (LoopFree) and hand only   *)
(* the turn itself to a worker thread.                                     *)
(*                                                                         *)
(* Record objects have identity: a session demoted or evicted while a turn *)
(* runs is rebuilt as a second object with the same session id.  A request *)
(* builds at most one record and at most one turn, so both are named by    *)
(* the request that made them, and so is the title it gives.               *)
(***************************************************************************)
EXTENDS Naturals, FiniteSets, TLC

CONSTANTS
    Sids,        \* session ids (uuid4 in the code: never reused)
    Principals,  \* Principal.id of the callers
    Reqs,        \* HTTP requests, each served once
    Kinds,       \* the handlers in play, a subset of AllKinds
    MaxSize,     \* cfg.settings.session_max_count
    MaxTurns,    \* cfg.settings.session_max_turns
    Persistent,  \* is a SessionPersistence attached (session_store_path)
    None         \* Python's None

AskKinds == {"ask", "stream", "patch"}
AllKinds == AskKinds \cup {"create", "read", "rename", "delete"}

\* A SessionRecord: turns is the set of requests whose turns it lists.
Record == [sid: Sids, owner: Principals, title: Reqs \cup {None},
           turns: SUBSET Reqs]

\* A row of the sessions table (created_at is never read back for control).
Row == [owner: Principals, title: Reqs \cup {None}]

ASSUME MaxSizeAssumption == MaxSize \in Nat \ {0}
ASSUME MaxTurnsAssumption == MaxTurns \in Nat \ {0}
ASSUME KindsAssumption == Kinds \subseteq AllKinds
ASSUME PersistentAssumption == Persistent \in BOOLEAN
ASSUME NoneAssumption ==
    None \notin Reqs \cup Sids \cup Principals \cup Record \cup Row

VARIABLES
    hot,      \* SessionStore._sessions: sid -> the record object, or None
    before,   \* its OrderedDict order: <<s, t>> when s comes before t
    stale,    \* record objects idle for longer than ttl_seconds
    rec,      \* the record objects themselves, by the request that built them
    row,      \* sessions table: sid -> Row, or None
    dturns,   \* turns table: sid -> the turns stored for it
    aged,     \* sids whose last_active_at is older than the retention cutoff
    kind, who, sid, pc,  \* a request: its handler, caller, session, position
    ref,      \* the record object a request holds after its lookup
    idx,      \* the index its turn was given
    cap,      \* the title sync_turn read from the record for its upsert
    gone,     \* streaming requests whose client has disconnected
    creator,  \* history: who created each session
    removed   \* history: sids deleted by their owner, or purged

storeVars == <<hot, before, stale>>
diskVars == <<row, dturns, aged>>
reqVars == <<kind, who, sid>>
histVars == <<creator, removed>>
vars == <<hot, before, stale, rec, row, dturns, aged, kind, who, sid, pc, ref,
          idx, cap, gone, creator, removed>>

Positions == {"idle", "load_row", "load_turns", "admit", "create_row",
              "wait", "running", "sync", "upsert", "save", "rename",
              "set_title", "delete_hot", "delete_row", "done", "failed"}

-----------------------------------------------------------------------------
(* The hot set.                                                            *)

HotKeys == {s \in Sids : hot[s] # None}
OwnerOf(s) == rec[hot[s]].owner
\* MUTANT: the owner filter of _oldest_session_for_owner is dropped.
SessionsOfAnyone(p) == HotKeys

SessionsOf(p) == {s \in HotKeys : OwnerOf(s) = p}
HotOwners == {OwnerOf(s) : s \in HotKeys}

\* MUTANT: the loop tests > where the code tests >=.
MakeRoomOffByOne(p, victims) ==
    /\ victims \subseteq SessionsOf(p)
    /\ \A v \in victims, w \in SessionsOf(p) \ victims : <<v, w>> \in before
    /\ victims # {} => Cardinality(HotKeys \ victims) >= MaxSize
    /\ \/ Cardinality(HotKeys \ victims) <= MaxSize
       \/ victims = SessionsOf(p)

\* _make_room_for(p), the whole while loop: victims is the set of sessions it
\* deletes.  Only p's own sessions, oldest first; nothing is evicted unless
\* the dict was full just before; the loop ends when there is room, or when
\* p has nothing left to give up.
MakeRoom(p, victims) ==
    /\ victims \subseteq SessionsOf(p)
    /\ \A v \in victims, w \in SessionsOf(p) \ victims : <<v, w>> \in before
    /\ victims # {} => Cardinality(HotKeys \ victims) + 1 >= MaxSize
    /\ \/ Cardinality(HotKeys \ victims) < MaxSize
       \/ victims = SessionsOf(p)

\* MUTANT: a deleted key stays in the order.
WithoutNothing(S) == before

Without(S) == {b \in before : b[1] \notin S /\ b[2] \notin S}

\* self._sessions[s] = record for an s whose key is absent once the victims
\* are gone appends s; for a key still present it keeps its position.
OrderAfterInsert(victims, s) ==
    IF s \in HotKeys \ victims THEN Without(victims)
    ELSE Without(victims) \cup ((HotKeys \ (victims \cup {s})) \X {s})

\* The admission block shared by create() and _rehydrate(): make room, then
\* store record object r under s.
Admit(r, s, p) ==
    \E victims \in SUBSET SessionsOf(p) :
        /\ MakeRoom(p, victims)
        /\ hot' = [t \in Sids |-> IF t = s THEN r
                                  ELSE IF t \in victims THEN None ELSE hot[t]]
        /\ before' = OrderAfterInsert(victims, s)
        /\ stale' = stale

\* Ask handlers run their lookup and their sync_turn on the event loop, so
\* two of them never interleave inside those parts.
OnLoop(r) == kind[r] \in AskKinds
             /\ pc[r] \in {"load_row", "load_turns", "admit", "upsert", "save"}
LoopFree == \A r \in Reqs : ~OnLoop(r)

\* MUTANT: the turn routes look the session up without asking whose it is.
AfterLookupTurnsOpen(k, caller, record) ==
    IF record.owner # caller /\ k \notin {"ask", "stream"} THEN "failed"
    ELSE CASE k = "read"   -> "done"
           [] k = "rename" -> "rename"
           [] k = "delete" -> "delete_hot"
           [] k = "patch" /\ record.turns = {} -> "failed"
           [] OTHER -> "wait"

\* Where a handler goes once require() has returned a record of owner p:
\* _require_owned_session answers 404 for somebody else's session, and
\* patch_assumptions 404 when the turn it corrects is not in the record.
AfterLookup(k, caller, record) ==
    IF record.owner # caller THEN "failed"
    ELSE CASE k = "read"   -> "done"
           [] k = "rename" -> "rename"
           [] k = "delete" -> "delete_hot"
           [] k = "patch" /\ record.turns = {} -> "failed"
           [] OTHER -> "wait"

\* A caller knows a session id once some create request has returned it.
Announced(s) == \E r \in Reqs : kind[r] = "create" /\ sid[r] = s /\ pc[r] = "done"

Goto(r, l) == pc' = [pc EXCEPT ![r] = l]

-----------------------------------------------------------------------------
(* POST /v2/sessions.                                                      *)

\* create(): build the record, then under the lock make room and insert it.
CreateAdmit(r, p, s) ==
    /\ pc[r] = "idle" /\ "create" \in Kinds
    /\ creator[s] = None
    /\ creator' = [creator EXCEPT ![s] = p]
    /\ rec' = [rec EXCEPT ![r] =
                 [sid |-> s, owner |-> p, title |-> None, turns |-> {}]]
    /\ Admit(r, s, p)
    /\ kind' = [kind EXCEPT ![r] = "create"]
    /\ who' = [who EXCEPT ![r] = p]
    /\ sid' = [sid EXCEPT ![r] = s]
    /\ Goto(r, IF Persistent THEN "create_row" ELSE "done")
    /\ UNCHANGED <<diskVars, ref, idx, cap, gone, removed>>

\* create() after the lock: upsert_session with no title.
CreateRow(r) ==
    /\ pc[r] = "create_row"
    /\ row' = [row EXCEPT ![sid[r]] = [owner |-> who[r], title |-> None]]
    /\ aged' = aged \ {sid[r]}
    /\ Goto(r, "done")
    /\ UNCHANGED <<storeVars, rec, dturns, reqVars, ref, idx, cap, gone, histVars>>

-----------------------------------------------------------------------------
(* The lookup every other handler starts with: get() and _rehydrate().     *)

\* get() under the lock.  A live record is touched and moved to the end; an
\* idle one is demoted; on a miss the backend is asked, if there is one.
Lookup(r, k, p, s) ==
    /\ pc[r] = "idle" /\ k \in Kinds \ {"create"}
    /\ k \in AskKinds => LoopFree
    /\ Announced(s)
    /\ kind' = [kind EXCEPT ![r] = k]
    /\ who' = [who EXCEPT ![r] = p]
    /\ sid' = [sid EXCEPT ![r] = s]
    /\ \/ /\ hot[s] # None /\ hot[s] \notin stale
          /\ before' = Without({s}) \cup ((HotKeys \ {s}) \X {s})
          /\ ref' = [ref EXCEPT ![r] = hot[s]]
          /\ Goto(r, AfterLookup(k, p, rec[hot[s]]))
          /\ hot' = hot
       \/ /\ hot[s] = None \/ hot[s] \in stale
          /\ hot' = [hot EXCEPT ![s] = None]
          /\ before' = Without({s})
          /\ ref' = ref
          /\ Goto(r, IF Persistent THEN "load_row" ELSE "failed")
    /\ UNCHANGED <<stale, rec, diskVars, idx, cap, gone, histVars>>

\* MUTANT: a missing row is treated as an empty session of the caller.
LoadRowOrCreate(r) ==
    /\ pc[r] = "load_row"
    /\ rec' = [rec EXCEPT ![r] =
                 [sid |-> sid[r], title |-> None, turns |-> {},
                  owner |-> IF row[sid[r]] = None THEN who[r] ELSE row[sid[r]].owner]]
    /\ Goto(r, "load_turns")
    /\ UNCHANGED <<storeVars, diskVars, reqVars, ref, idx, cap, gone, histVars>>

\* _rehydrate(): load_session_row, 404 when there is no row.
LoadRow(r) ==
    /\ pc[r] = "load_row"
    /\ IF row[sid[r]] = None
       THEN rec' = rec /\ Goto(r, "failed")
       ELSE /\ rec' = [rec EXCEPT ![r] =
                         [sid |-> sid[r], owner |-> row[sid[r]].owner,
                          title |-> row[sid[r]].title, turns |-> {}]]
            /\ Goto(r, "load_turns")
    /\ UNCHANGED <<storeVars, diskVars, reqVars, ref, idx, cap, gone, histVars>>

\* _rehydrate(): load_turns, a second transaction.
LoadTurns(r) ==
    /\ pc[r] = "load_turns"
    /\ rec' = [rec EXCEPT ![r].turns = dturns[sid[r]]]
    /\ Goto(r, "admit")
    /\ UNCHANGED <<storeVars, diskVars, reqVars, ref, idx, cap, gone, histVars>>

\* _rehydrate() under the lock: whatever is hot under this id by now is
\* replaced by the record just built.
Rehydrate(r) ==
    /\ pc[r] = "admit"
    /\ Admit(r, sid[r], rec[r].owner)
    /\ ref' = [ref EXCEPT ![r] = r]
    /\ Goto(r, AfterLookup(kind[r], who[r], rec[r]))
    /\ UNCHANGED <<rec, diskVars, reqVars, idx, cap, gone, histVars>>

-----------------------------------------------------------------------------
(* A turn: TurnEngine.ask in a worker thread, then sync_turn.              *)

\* ask() begins: the index is taken from the transcript as it is now.
StartTurn(r) ==
    /\ pc[r] = "wait"
    /\ idx' = [idx EXCEPT ![r] = Cardinality(rec[ref[r]].turns) + 1]
    /\ Goto(r, "running")
    /\ UNCHANGED <<storeVars, rec, diskVars, reqVars, ref, cap, gone, histVars>>

\* ask() ends: the turn is appended to the record this request holds, hot or
\* not, with no cap.  A stream whose client left still appends (its task was
\* never cancelled) but its generator is closed, so sync_turn never runs.
FinishTurn(r) ==
    /\ pc[r] = "running"
    /\ rec' = [rec EXCEPT ![ref[r]].turns = @ \cup {r}]
    /\ Goto(r, IF r \in gone THEN "failed" ELSE "sync")
    /\ UNCHANGED <<storeVars, diskVars, reqVars, ref, idx, cap, gone, histVars>>

\* ask() raises: nothing is appended and the handler answers 500.
FailTurn(r) ==
    /\ pc[r] = "running"
    /\ Goto(r, "failed")
    /\ UNCHANGED <<storeVars, rec, diskVars, reqVars, ref, idx, cap, gone, histVars>>

\* The client of a streaming ask disconnects: the generator is closed at its
\* await, so the turn goes on but nothing after it runs.
Disconnect(r) ==
    /\ kind[r] = "stream" /\ pc[r] \in {"wait", "running", "sync"}
    /\ gone' = gone \cup {r}
    /\ Goto(r, IF pc[r] = "sync" THEN "failed" ELSE pc[r])
    /\ UNCHANGED <<storeVars, rec, diskVars, reqVars, ref, idx, cap, histVars>>

\* sync_turn(): title the record from its first turn, read the title for the
\* upsert.
SyncTitle(r) ==
    LET record == rec[ref[r]]
        title == IF record.title = None /\ idx[r] = 1 THEN r ELSE record.title
    IN  /\ pc[r] = "sync" /\ LoopFree
        /\ rec' = [rec EXCEPT ![ref[r]].title = title]
        /\ cap' = [cap EXCEPT ![r] = title]
        /\ Goto(r, IF Persistent THEN "upsert" ELSE "done")
        /\ UNCHANGED <<storeVars, diskVars, reqVars, ref, idx, gone, histVars>>

\* sync_turn(): upsert_session inserts the row when there is none.
SyncUpsert(r) ==
    /\ pc[r] = "upsert"
    /\ row' = [row EXCEPT ![sid[r]] =
                 [owner |-> rec[ref[r]].owner, title |-> cap[r]]]
    /\ aged' = aged \ {sid[r]}
    /\ Goto(r, "save")
    /\ UNCHANGED <<storeVars, rec, dturns, reqVars, ref, idx, cap, gone, histVars>>

\* MUTANT: only the turns of a record that is still hot are saved.
SyncSaveIfHot(r) ==
    /\ pc[r] = "save"
    /\ dturns' = [dturns EXCEPT ![sid[r]] =
                    IF hot[sid[r]] = ref[r] THEN @ \cup {r} ELSE @]
    /\ Goto(r, "done")
    /\ UNCHANGED <<storeVars, rec, row, aged, reqVars, ref, idx, cap, gone, histVars>>

\* sync_turn(): save_turn, then the response is sent.
SyncSave(r) ==
    /\ pc[r] = "save"
    /\ dturns' = [dturns EXCEPT ![sid[r]] = @ \cup {r}]
    /\ Goto(r, "done")
    /\ UNCHANGED <<storeVars, rec, row, aged, reqVars, ref, idx, cap, gone, histVars>>

-----------------------------------------------------------------------------
(* PATCH and DELETE /v2/sessions/{sid}.                                    *)

\* rename(): the record first ...
RenameRecord(r) ==
    /\ pc[r] = "rename"
    /\ rec' = [rec EXCEPT ![ref[r]].title = r]
    /\ Goto(r, IF Persistent THEN "set_title" ELSE "done")
    /\ UNCHANGED <<storeVars, diskVars, reqVars, ref, idx, cap, gone, histVars>>

\* ... then set_title, an UPDATE that changes nothing when there is no row.
SetTitle(r) ==
    /\ pc[r] = "set_title"
    /\ row' = [row EXCEPT ![sid[r]] =
                 IF @ = None THEN None ELSE [@ EXCEPT !.title = r]]
    /\ Goto(r, "done")
    /\ UNCHANGED <<storeVars, rec, dturns, aged, reqVars, ref, idx, cap, gone, histVars>>

\* delete() under the lock.
DeleteHot(r) ==
    /\ pc[r] = "delete_hot"
    /\ hot' = [hot EXCEPT ![sid[r]] = None]
    /\ before' = Without({sid[r]})
    /\ Goto(r, IF Persistent THEN "delete_row" ELSE "done")
    /\ removed' = IF Persistent THEN removed ELSE removed \cup {sid[r]}
    /\ UNCHANGED <<stale, rec, diskVars, reqVars, ref, idx, cap, gone, creator>>

\* delete(): delete_session removes the turns and the row in one transaction.
DeleteRow(r) ==
    /\ pc[r] = "delete_row"
    /\ row' = [row EXCEPT ![sid[r]] = None]
    /\ dturns' = [dturns EXCEPT ![sid[r]] = {}]
    /\ aged' = aged \ {sid[r]}
    /\ removed' = removed \cup {sid[r]}
    /\ Goto(r, "done")
    /\ UNCHANGED <<storeVars, rec, reqVars, ref, idx, cap, gone, creator>>

-----------------------------------------------------------------------------
(* Time and restarts.                                                      *)

\* A hot record has been idle for longer than ttl_seconds.
Expire(s) ==
    /\ hot[s] # None
    /\ stale' = stale \cup {hot[s]}
    /\ UNCHANGED <<hot, before, rec, diskVars, reqVars, pc, ref, idx, cap, gone, histVars>>

\* A persisted session has seen no turn for session_retention_days.
Age(s) ==
    /\ row[s] # None
    /\ aged' = aged \cup {s}
    /\ UNCHANGED <<storeVars, rec, row, dturns, reqVars, pc, ref, idx, cap, gone, histVars>>

\* The process stops and starts again: the hot set and every request in
\* flight are lost, and start-up purges the sessions past retention.
Restart ==
    /\ hot' = [s \in Sids |-> None]
    /\ before' = {}
    /\ stale' = {}
    /\ row' = [s \in Sids |-> IF s \in aged THEN None ELSE row[s]]
    /\ dturns' = [s \in Sids |-> IF s \in aged THEN {} ELSE dturns[s]]
    /\ removed' = removed \cup aged
    /\ aged' = {}
    /\ pc' = [r \in Reqs |->
                IF pc[r] \in {"idle", "done"} THEN pc[r] ELSE "failed"]
    /\ UNCHANGED <<rec, reqVars, ref, idx, cap, gone, creator>>

Init ==
    /\ hot = [s \in Sids |-> None]
    /\ before = {}
    /\ stale = {}
    /\ rec = [r \in Reqs |-> None]
    /\ row = [s \in Sids |-> None]
    /\ dturns = [s \in Sids |-> {}]
    /\ aged = {}
    /\ kind = [r \in Reqs |-> None]
    /\ who = [r \in Reqs |-> None]
    /\ sid = [r \in Reqs |-> None]
    /\ pc = [r \in Reqs |-> "idle"]
    /\ ref = [r \in Reqs |-> None]
    /\ idx = [r \in Reqs |-> 0]
    /\ cap = [r \in Reqs |-> None]
    /\ gone = {}
    /\ creator = [s \in Sids |-> None]
    /\ removed = {}

\* Every step of a request once it has started.
Serve(r) ==
    \/ CreateRow(r) \/ LoadRow(r) \/ LoadTurns(r) \/ Rehydrate(r)
    \/ StartTurn(r) \/ FinishTurn(r) \/ FailTurn(r)
    \/ SyncTitle(r) \/ SyncUpsert(r) \/ SyncSave(r)
    \/ RenameRecord(r) \/ SetTitle(r) \/ DeleteHot(r) \/ DeleteRow(r)

Next ==
    \/ \E r \in Reqs, p \in Principals, s \in Sids :
          \/ CreateAdmit(r, p, s)
          \/ \E k \in Kinds : Lookup(r, k, p, s)
    \/ \E r \in Reqs : Serve(r) \/ Disconnect(r)
    \/ \E s \in Sids : Expire(s) \/ Age(s)
    \/ Restart

Spec == Init /\ [][Next]_vars

\* A started request keeps being scheduled: the thread pool, the event loop
\* and the worker threads run, and the model call and the query it waits for
\* end (both have timeouts).
FairSpec == Spec /\ \A r \in Reqs : WF_vars(Serve(r))

-----------------------------------------------------------------------------
(* Properties.                                                             *)

\* Types of the store, the tables and the requests.
TypeOK ==
    /\ hot \in [Sids -> Reqs \cup {None}]
    /\ before \subseteq HotKeys \X HotKeys
    /\ stale \subseteq Reqs
    /\ rec \in [Reqs -> Record \cup {None}]
    /\ row \in [Sids -> Row \cup {None}]
    /\ dturns \in [Sids -> SUBSET Reqs]
    /\ aged \subseteq Sids
    /\ kind \in [Reqs -> AllKinds \cup {None}]
    /\ who \in [Reqs -> Principals \cup {None}]
    /\ sid \in [Reqs -> Sids \cup {None}]
    /\ pc \in [Reqs -> Positions]
    /\ ref \in [Reqs -> Reqs \cup {None}]
    /\ idx \in [Reqs -> Nat]
    /\ cap \in [Reqs -> Reqs \cup {None}]
    /\ gone \subseteq Reqs
    /\ creator \in [Sids -> Principals \cup {None}]
    /\ removed \subseteq Sids

\* Every turn in the transcript of a session, the live one or the stored one,
\* was asked by the principal that created the session: the owner survives
\* demotion, rehydration and upserts from stale records, and the 404 check of
\* _require_owned_session stands between a lookup and every write.
TranscriptIsolation ==
    \A s \in Sids :
        LET live == IF hot[s] = None THEN {} ELSE rec[hot[s]].turns
        IN  \A t \in live \cup dturns[s] : sid[t] = s /\ who[t] = creator[s]

\* The excess over session_max_count that _make_room_for tolerates is bounded
\* by the number of principals: each principal that holds a session may take
\* the store at most one past the limit, and the first of them not at all.
HotSetBounded == Cardinality(HotKeys) <= MaxSize - 1 + Cardinality(HotOwners)

\* A turn whose response was sent is in the turns table until its session is
\* deleted or purged, whatever was evicted, demoted, rebuilt or restarted.
AckedTurnDurable ==
    Persistent =>
        \A r \in Reqs :
            kind[r] \in AskKinds /\ pc[r] = "done" /\ sid[r] \notin removed
                => r \in dturns[sid[r]]

\* _make_room_for: a live session leaves the hot set only to make room for a
\* session of the same owner, by a delete of that session, or with the process.
EvictionStaysHome ==
    [][\A s \in HotKeys :
         hot'[s] = None /\ hot[s] \notin stale =>
            \/ Restart
            \/ \E r \in Reqs : /\ pc'[r] # pc[r]
                               /\ creator'[sid'[r]] = OwnerOf(s)]_vars

\* delete(): once a session is gone and no request that found it earlier is
\* still at work, no later request brings it back.
Gone(s) == /\ s \in removed /\ hot[s] = None /\ row[s] = None
           /\ \A r \in Reqs : sid[r] = s => pc[r] \in {"load_row", "done", "failed"}
GoneForGood == [][\A s \in Sids : Gone(s) => Gone(s)']_vars

\* Every request that started is answered.
Answered(r) == pc[r] \in {"done", "failed"}
EveryRequestEnds == \A r \in Reqs : pc[r] # "idle" ~> Answered(r)

\* store.py's delete(): "A deleted session is never rehydrated back by a later
\* get" (and delete_session: "Permanently remove session_id and its turns").
DeletedStaysGone == \A s \in removed : hot[s] = None /\ row[s] = None /\ dturns[s] = {}

\* api-contract-v2.md: "A session holds at most session_max_turns turns".
TurnCap == \A s \in HotKeys : Cardinality(rec[hot[s]].turns) <= MaxTurns

\* api-contract-v2.md: an expired session is demoted and "rehydrated
\* transparently", so an answered turn shows in the live transcript.
AckedTurnVisible ==
    \A r \in Reqs :
        kind[r] \in AskKinds /\ pc[r] = "done" /\ hot[sid[r]] # None
            => r \in rec[hot[sid[r]]].turns

\* store.py's rename(): the title is set, "persisting it immediately".  With
\* one rename of a session, the stored title is the one it gave.
RenamePersists ==
    \A r \in Reqs :
        LET s == sid[r]
        IN  /\ kind[r] = "rename" /\ pc[r] = "done" /\ row[s] # None
            /\ \A q \in Reqs : kind[q] = "rename" /\ sid[q] = s => q = r
            => row[s].title = r

-----------------------------------------------------------------------------
(* What TranscriptIsolation and HotSetBounded rest on: together with       *)
(* TypeOK these are preserved by every step.                               *)

\* Every record object belongs to the creator of its session and lists only
\* turns asked about that session by that principal.
RecordsAgree ==
    \A r \in Reqs : rec[r] # None =>
        /\ creator[rec[r].sid] = rec[r].owner
        /\ IsFiniteSet(rec[r].turns)
        /\ \A t \in rec[r].turns : /\ sid[t] = rec[r].sid
                                   /\ who[t] = rec[r].owner
                                   /\ pc[t] # "idle"

\* The hot set maps a session id to a record of that session.
HotAgrees ==
    /\ IsFiniteSet(HotKeys)
    /\ \A s \in HotKeys : rec[hot[s]] # None /\ rec[hot[s]].sid = s

\* Rows and stored turns carry the creator's name too.
DiskAgrees ==
    \A s \in Sids :
        /\ row[s] # None => row[s].owner = creator[s]
        /\ IsFiniteSet(dturns[s])
        /\ \A t \in dturns[s] : sid[t] = s /\ who[t] = creator[s] /\ pc[t] # "idle"

\* Past its ownership check a request holds a record of its own session that
\* belongs to its caller; before it, the record it may be building is private.
Owning == {"wait", "running", "sync", "upsert", "save", "rename", "set_title",
           "delete_hot", "delete_row"}
RequestsAgree ==
    \A r \in Reqs :
        /\ pc[r] # "idle" => /\ sid[r] \in Sids /\ who[r] \in Principals
                             /\ kind[r] \in AllKinds
        /\ pc[r] \in {"idle", "load_row"} => rec[r] = None
        /\ pc[r] \in {"load_turns", "admit"} => rec[r] # None /\ rec[r].sid = sid[r]
        /\ pc[r] = "create_row" => creator[sid[r]] = who[r]
        /\ pc[r] \in Owning => /\ ref[r] \in Reqs /\ rec[ref[r]] # None
                               /\ rec[ref[r]].sid = sid[r]
                               /\ rec[ref[r]].owner = who[r]

OwnershipInv == TypeOK /\ RecordsAgree /\ HotAgrees /\ DiskAgrees /\ RequestsAgree

-----------------------------------------------------------------------------
\* Requests, sessions and principals are interchangeable in every safety run.
Symmetry == Permutations(Reqs) \cup Permutations(Sids) \cup Permutations(Principals)
=============================================================================
