--------------------------- MODULE ConfigVersions ---------------------------
(***************************************************************************)
(* The versioned configuration bundle (appdb/config_versions.py) with the  *)
(* places it reaches: the table of versions, the files of                  *)
(* project_config_dir, the knowledge modules' in-process caches, the       *)
(* cached version id, and the answers cached under that id.                *)
(*                                                                         *)
(* Admin routes are synchronous and run in a thread pool.  With a file     *)
(* SQLite or a managed database each statement of `with engine.begin()` is *)
(* a step of its own: the SELECT of the active row takes no lock that an   *)
(* INSERT of another connection would wait for.  Only the in-memory engine *)
(* (_serialize_memory_engine) holds a lock for the whole transaction.      *)
(*                                                                         *)
(* The text of a file is the number of the version that introduced it.     *)
(***************************************************************************)
EXTENDS Naturals, FiniteSets, Sequences

CONSTANTS
    Admins,        \* threads serving the admin routes
    Askers,        \* threads serving questions
    FileOrder,     \* CONFIG_FILENAMES
    Schema,        \* SECURITY_ONLY_FILES has this one member
    Serialised,    \* does the engine hold its lock for a whole transaction
    Crashes,       \* may the process stop while a request is in flight
    MaxVersions,   \* bound: rows of config_bundle_versions
    Nobody

Files == {FileOrder[i] : i \in DOMAIN FileOrder}
LiveFiles == Files \ {Schema}
VersionIds == 1 .. MaxVersions
Texts == VersionIds

ASSUME FilesAssumption ==
    /\ FileOrder \in Seq(Files) /\ Schema \in Files
    /\ \A i, j \in DOMAIN FileOrder : FileOrder[i] = FileOrder[j] => i = j
ASSUME FlagsAssumption == Serialised \in BOOLEAN /\ Crashes \in BOOLEAN
ASSUME NobodyAssumption == Nobody \notin Admins
ASSUME MaxVersionsAssumption == MaxVersions \in Nat \ {0}

VARIABLES
    versions,   \* config_bundle_versions, indexed by version_id
    txn,        \* who holds the engine's lock (only when Serialised)
    disk,       \* project_config_dir
    allow,      \* the guard's allowlist, frozen at import
    live,       \* knowledge.*._cache; 0 is "not loaded"
    cachedId,   \* _cached_version_id; 0 is None
    entries,    \* query_cache: version id in the key, file relied on, its text
    admin,      \* per admin thread
    asker       \* per question

vars == <<versions, txn, disk, allow, live, cachedId, entries, admin, asker>>

Version == [status: {"draft", "applied", "rejected"}, content: [Files -> Texts],
            based: 0 .. MaxVersions, changed: SUBSET Files, secure: BOOLEAN]

Applied == {v \in DOMAIN versions : versions[v].status = "applied"}

\* _active_version_row: the applied row with the highest id.
Active == CHOOSE v \in Applied : \A w \in Applied : w <= v

IdleAdmin == [pc |-> "idle", based |-> 0, files |-> {}, from |-> 0, sec |-> FALSE,
              vid |-> 0, at |-> 1]
IdleAsker == [pc |-> "idle", key |-> 0, file |-> Schema, text |-> 0]

Free(a) == Serialised => txn \in {Nobody, a}
Hold(a) == txn' = IF Serialised THEN a ELSE txn
Release == txn' = Nobody

Become(a, r) == admin' = [admin EXCEPT ![a] = r]
At(a, pc) == admin[a].pc = pc

-----------------------------------------------------------------------------
(* Saving: propose_or_apply, and restore / import which call it.           *)

Pending == {a \in Admins : admin[a].pc \in {"check", "insert"}}

\* The version the editor has open is based_on_version.  `from` is 0 for new
\* text, or the version that restore() reads one file or the whole bundle from.
Open(a) ==
    /\ At(a, "idle") /\ Free(a)
    /\ Len(versions) + Cardinality(Pending) < MaxVersions
    /\ \E files \in SUBSET Files \ {{}}, from \in 0 .. Len(versions), sec \in BOOLEAN :
        /\ from # 0 => files = Files \/ Cardinality(files) = 1
        /\ Become(a, [IdleAdmin EXCEPT !.pc = "check", !.based = Active, !.files = files,
                                       !.from = from, !.sec = sec])
    /\ UNCHANGED <<versions, txn, disk, allow, live, cachedId, entries, asker>>

\* The active row is read and compared; a stale base, or a bundle that a
\* validator rejects, ends the request.
SaveCheck(a) ==
    /\ At(a, "check") /\ Free(a)
    /\ \/ Active = admin[a].based /\ Become(a, [admin[a] EXCEPT !.pc = "insert"]) /\ Hold(a)
       \/ Become(a, IdleAdmin) /\ UNCHANGED txn
    /\ UNCHANGED <<versions, disk, allow, live, cachedId, entries, asker>>

\* MUTANT: only a change of schema.yaml alone is held for review.
NeedsReviewAlone(changed, sec) == changed = {Schema} /\ ~sec

\* A change of schema.yaml by someone without the security capability is saved
\* as a draft.
NeedsReview(changed, sec) == Schema \in changed /\ ~sec

NewContent(a) ==
    LET r == admin[a]
        base == versions[r.based].content
    IN  [f \in Files |-> IF f \notin r.files THEN base[f]
                         ELSE IF r.from = 0 THEN Len(versions) + 1
                         ELSE versions[r.from].content[f]]

\* MUTANT: a draft goes on to be written to disk like any other version.
AfterInsertAlways(draft) == "disk"

AfterInsert(draft) == IF draft THEN "idle" ELSE "disk"

SaveInsert(a) ==
    LET r == admin[a]
        content == NewContent(a)
        changed == {f \in Files : content[f] # versions[r.based].content[f]}
        draft == NeedsReview(changed, r.sec)
    IN  /\ At(a, "insert") /\ Free(a)
        /\ versions' = Append(versions,
              [status |-> IF draft THEN "draft" ELSE "applied", content |-> content,
               based |-> r.based, changed |-> changed, secure |-> r.sec])
        /\ Become(a, [IdleAdmin EXCEPT !.pc = AfterInsert(draft), !.vid = Len(versions) + 1])
        /\ Release
        /\ UNCHANGED <<disk, allow, live, cachedId, entries, asker>>

-----------------------------------------------------------------------------
(* approve_draft and reject_draft.                                         *)

\* MUTANT: approval does not look at the version the draft was based on.
ApprovableAnyBase(v) == versions[v].status = "draft"

Approvable(v) == versions[v].status = "draft" /\ versions[v].based = Active

ApproveCheck(a) ==
    /\ At(a, "idle") /\ Free(a)
    /\ \E v \in DOMAIN versions :
        /\ Approvable(v)
        /\ Become(a, [IdleAdmin EXCEPT !.pc = "approve", !.vid = v])
    /\ Hold(a)
    /\ UNCHANGED <<versions, disk, allow, live, cachedId, entries, asker>>

ApproveWrite(a) ==
    /\ At(a, "approve") /\ Free(a)
    /\ versions' = [versions EXCEPT ![admin[a].vid] = [@ EXCEPT !.status = "applied",
                                                               !.secure = TRUE]]
    /\ Become(a, [admin[a] EXCEPT !.pc = "disk"])
    /\ Release
    /\ UNCHANGED <<disk, allow, live, cachedId, entries, asker>>

\* MUTANT: any version can be rejected.
RejectableAny(v) == v > 1

Rejectable(v) == versions[v].status = "draft"

RejectCheck(a) ==
    /\ At(a, "idle") /\ Free(a)
    /\ \E v \in DOMAIN versions :
        /\ Rejectable(v)
        /\ Become(a, [IdleAdmin EXCEPT !.pc = "reject", !.vid = v])
    /\ Hold(a)
    /\ UNCHANGED <<versions, disk, allow, live, cachedId, entries, asker>>

RejectWrite(a) ==
    /\ At(a, "reject") /\ Free(a)
    /\ versions' = [versions EXCEPT ![admin[a].vid] = [@ EXCEPT !.status = "rejected"]]
    /\ Become(a, IdleAdmin)
    /\ Release
    /\ UNCHANGED <<disk, allow, live, cachedId, entries, asker>>

-----------------------------------------------------------------------------
(* What an applied version does after its transaction.                     *)

\* MUTANT: one write too many.
WritesDoneLate(at) == at > Len(FileOrder)

\* MUTANT: the last file is forgotten.
WritesDoneEarly(at) == at + 1 >= Len(FileOrder)

WritesDone(at) == at >= Len(FileOrder)

\* _write_bundle_to_disk writes the nine files one after the other.
WriteFile(a) ==
    LET r == admin[a]
        f == FileOrder[r.at]
    IN  /\ At(a, "disk")
        /\ disk' = [disk EXCEPT ![f] = versions[r.vid].content[f]]
        /\ Become(a, IF WritesDone(r.at) THEN [r EXCEPT !.pc = "forget"]
                     ELSE [r EXCEPT !.at = r.at + 1])
        /\ UNCHANGED <<versions, txn, allow, live, cachedId, entries, asker>>

\* _invalidate_runtime_caches: the version id first, then the modules of the
\* files that changed; schema.yaml has none.
Forget(a) ==
    /\ At(a, "forget")
    /\ cachedId' = 0
    /\ Become(a, [admin[a] EXCEPT !.pc = "clear"])
    /\ UNCHANGED <<versions, txn, disk, allow, live, entries, asker>>

ClearModules(a) ==
    /\ At(a, "clear")
    /\ live' = [f \in LiveFiles |->
                  IF f \in versions[admin[a].vid].changed THEN 0 ELSE live[f]]
    /\ Become(a, IdleAdmin)
    /\ UNCHANGED <<versions, txn, disk, allow, cachedId, entries, asker>>

-----------------------------------------------------------------------------
(* A question: cache_prefix_version_for, the knowledge it retrieves, and   *)
(* the answer it caches.                                                   *)

Turn(q, r) == asker' = [asker EXCEPT ![q] = r]

\* get_active_version_id: the cached id while it is fresh, else the table is
\* read, and the id is stored in a second critical section.
ReadId(q) ==
    /\ asker[q].pc = "idle"
    /\ \E f \in LiveFiles :
        IF cachedId # 0
        THEN Turn(q, [IdleAsker EXCEPT !.pc = "config", !.key = cachedId, !.file = f])
        ELSE /\ Serialised => txn = Nobody
             /\ Turn(q, [IdleAsker EXCEPT !.pc = "store", !.key = Active, !.file = f])
    /\ UNCHANGED <<versions, txn, disk, allow, live, cachedId, entries, admin>>

StoreId(q) ==
    /\ asker[q].pc = "store"
    /\ cachedId' = asker[q].key
    /\ Turn(q, [asker[q] EXCEPT !.pc = "config"])
    /\ UNCHANGED <<versions, txn, disk, allow, live, entries, admin>>

\* config_version_cache_ttl_seconds is over.
ExpireId ==
    /\ cachedId # 0 /\ cachedId' = 0
    /\ UNCHANGED <<versions, txn, disk, allow, live, entries, admin, asker>>

\* A knowledge module that is not loaded reads its file, then stores the text.
ReadKnowledge(q) ==
    LET r == asker[q]
    IN  /\ r.pc = "config"
        /\ Turn(q, IF live[r.file] # 0 THEN [r EXCEPT !.pc = "fetch"]
                   ELSE [r EXCEPT !.pc = "load", !.text = disk[r.file]])
        /\ UNCHANGED <<versions, txn, disk, allow, live, cachedId, entries, admin>>

LoadKnowledge(q) ==
    /\ asker[q].pc = "load"
    /\ live' = [live EXCEPT ![asker[q].file] = asker[q].text]
    /\ Turn(q, [asker[q] EXCEPT !.pc = "fetch"])
    /\ UNCHANGED <<versions, txn, disk, allow, cachedId, entries, admin>>

\* `return _cache[name]`: the question fails when the cache was cleared since.
Fetch(q) ==
    LET r == asker[q]
    IN  /\ r.pc = "fetch"
        /\ Turn(q, IF live[r.file] = 0 THEN IdleAsker
                   ELSE [r EXCEPT !.pc = "answer", !.text = live[r.file]])
        /\ UNCHANGED <<versions, txn, disk, allow, live, cachedId, entries, admin>>

\* The answer, written with that text, is cached under that version id.
Answer(q) ==
    /\ asker[q].pc = "answer"
    /\ entries' = entries \cup {[key |-> asker[q].key, file |-> asker[q].file,
                                 text |-> asker[q].text]}
    /\ Turn(q, IdleAsker)
    /\ UNCHANGED <<versions, txn, disk, allow, live, cachedId, admin>>

\* The process starts again: what was in memory is gone, the allowlist is what
\* schema.yaml says now.
Restart ==
    /\ \/ Crashes
       \/ /\ \A a \in Admins : At(a, "idle")
          /\ \A q \in Askers : asker[q].pc = "idle"
    /\ allow' = disk[Schema]
    /\ live' = [f \in LiveFiles |-> 0] /\ cachedId' = 0 /\ entries' = {}
    /\ admin' = [a \in Admins |-> IdleAdmin] /\ asker' = [q \in Askers |-> IdleAsker]
    /\ txn' = Nobody
    /\ UNCHANGED <<versions, disk>>

\* _ensure_bootstrapped has saved the files on disk as version 1.
Init ==
    /\ versions = <<[status |-> "applied", content |-> [f \in Files |-> 1], based |-> 0,
                     changed |-> {}, secure |-> TRUE]>>
    /\ txn = Nobody /\ disk = [f \in Files |-> 1] /\ allow = 1
    /\ live = [f \in LiveFiles |-> 0] /\ cachedId = 0 /\ entries = {}
    /\ admin = [a \in Admins |-> IdleAdmin] /\ asker = [q \in Askers |-> IdleAsker]

AdminStep(a) ==
    \/ Open(a) \/ SaveCheck(a) \/ SaveInsert(a) \/ ApproveCheck(a) \/ ApproveWrite(a)
    \/ RejectCheck(a) \/ RejectWrite(a) \/ WriteFile(a) \/ Forget(a) \/ ClearModules(a)

AskerStep(q) ==
    \/ ReadId(q) \/ StoreId(q) \/ ReadKnowledge(q) \/ LoadKnowledge(q) \/ Fetch(q)
    \/ Answer(q)

Next ==
    \/ \E a \in Admins : AdminStep(a)
    \/ \E q \in Askers : AskerStep(q)
    \/ ExpireId
    \/ Restart

Spec == Init /\ [][Next]_vars

-----------------------------------------------------------------------------
(* Properties.                                                             *)

\* Types of the tables, the files, the caches and the threads.
TypeOK ==
    /\ versions \in Seq(Version) /\ Len(versions) \in 1 .. MaxVersions
    /\ txn \in Admins \cup {Nobody}
    /\ disk \in [Files -> Texts] /\ allow \in Texts
    /\ live \in [LiveFiles -> Texts \cup {0}] /\ cachedId \in 0 .. MaxVersions
    /\ entries \subseteq [key: VersionIds, file: LiveFiles, text: Texts]
    /\ admin \in [Admins -> [pc: {"idle", "check", "insert", "approve", "reject", "disk",
                                  "forget", "clear"},
                             based: 0 .. MaxVersions, files: SUBSET Files,
                             from: 0 .. MaxVersions, sec: BOOLEAN,
                             vid: 0 .. MaxVersions, at: DOMAIN FileOrder]]
    /\ asker \in [Askers -> [pc: {"idle", "store", "config", "load", "fetch", "answer"},
                             key: 0 .. MaxVersions, file: Files, text: Texts \cup {0}]]

Before(v) == {w \in Applied : w < v}
Previous(v) == CHOOSE w \in Before(v) : \A u \in Before(v) : u <= w

\* "Every write here takes the version its caller had open and refuses ... if the
\* active version has moved on since": the applied versions form a chain in which
\* each was made on top of the one it replaced.
NoLostUpdate ==
    \A v \in Applied : Before(v) # {} => versions[v].based = Previous(v)

\* The guard's allowlist is the security admin's: when schema.yaml differs between
\* a version and the one it replaced, somebody with that capability saved or
\* approved it.
AllowlistGoverned ==
    \A v \in Applied :
        Before(v) # {} /\ versions[v].content[Schema] # versions[Previous(v)].content[Schema]
            => versions[v].secure

\* The allowlist in force after any restart is one that was applied, never that
\* of a draft or of a rejected version.
AllowlistApplied == \E v \in Applied : versions[v].content[Schema] = allow

\* The two together: the guard's allowlist is the security admin's, in the table
\* and in force.
AllowlistKept == AllowlistGoverned /\ AllowlistApplied

\* A decision on a version is final: an applied version is never taken back and a
\* rejected draft never becomes active.
DecisionsFinal ==
    [][\A v \in DOMAIN versions :
          versions[v].status # "draft" => versions'[v].status = versions[v].status]_vars

Quiet == \A a \in Admins : At(a, "idle")

\* "Applying a version always writes the bundle to project_config_dir (so the very
\* next process restart picks it up unconditionally)": when no admin request is in
\* flight the files are those of the active version.
DiskIsActive == Quiet => disk = versions[Active].content

\* "a long-running server reflects the change on its very next request": when no
\* admin request is in flight a loaded module holds what the file says.
LiveIsDisk == Quiet => \A f \in LiveFiles : live[f] \in {0, disk[f]}

\* An answer cached under a version's key was written with that version's files.
AnswerOfItsVersion ==
    \A e \in entries : e.text = versions[e.key].content[e.file]

-----------------------------------------------------------------------------
(* The applied versions, the drafts and the rejected drafts, seen as the    *)
(* line of versions (ConfigLine).                                          *)

With(status) ==
    {[id |-> v, on |-> versions[v].based, content |-> versions[v].content] :
        v \in {w \in DOMAIN versions : versions[w].status = status}}

Line == INSTANCE ConfigLine WITH
    Ids <- VersionIds, Nothing <- 0, Contents <- [Files -> Texts],
    head <- Active, line <- With("applied"),
    waiting <- With("draft"), refused <- With("rejected")

\* Where the engine serialises transactions the statements of several admins, with
\* crashes between them, look like single steps on the line: every write takes the
\* version its caller had open and is refused when another version was applied
\* since; a decision on a version is never taken back (config_versions.py,
\* propose_or_apply, approve_draft, reject_draft).
ImplementsLine == Line!Spec
=============================================================================
