---------------------------- MODULE ConfigProofs ----------------------------
(***************************************************************************)
(* Proofs about ConfigVersions, for every set of admins and questions,     *)
(* every list of files and every bound on the table, with the process      *)
(* stopping anywhere: what holds however the statements of the admins      *)
(* overlap (types, and what the files can be), and what holds where their  *)
(* writes do not - the engine serialises transactions, or there is one     *)
(* admin.                                                                  *)
(***************************************************************************)
EXTENDS MCConfig, SequenceTheorems, FiniteSetTheorems, WellFoundedInduction, TLAPS

(***************************************************************************)
(* The inductive invariants.                                               *)
(***************************************************************************)
\* A request of an admin.
Request == [pc: {"idle", "check", "insert", "approve", "reject", "disk", "forget", "clear"},
            based: 0 .. MaxVersions, files: SUBSET Files, from: 0 .. MaxVersions,
            sec: BOOLEAN, vid: 0 .. MaxVersions, at: DOMAIN FileOrder]

\* A question, and the answer that is cached of it.
Question == [pc: {"idle", "store", "config", "load", "fetch", "answer"},
             key: 0 .. MaxVersions, file: Files, text: Texts \cup {0}]
Entry == [key: VersionIds, file: LiveFiles, text: Texts]

\* What a request has read is there when it is used; the first version is nobody's
\* draft, and an approval begins with the first file.
Sound(r) ==
    /\ r.pc \in {"check", "insert"} => r.from <= Len(versions)
    /\ r.pc = "insert" => r.based \in DOMAIN versions
    /\ r.pc \in {"approve", "reject", "disk", "forget", "clear"} => r.vid \in DOMAIN versions
    /\ r.pc = "reject" => r.vid # 1
    /\ r.pc = "approve" => r.at = 1

\* There is room for every version that is on its way.
Room == IsFiniteSet(Pending) /\ Len(versions) + Cardinality(Pending) <= MaxVersions

\* A question that has begun has a version id and a file with a module, and text
\* once it has read some.
Begun(r) ==
    /\ r.pc # "idle" => r.key # 0 /\ r.file \in LiveFiles
    /\ r.pc \in {"load", "answer"} => r.text # 0

QuestionUnderWay == \A q \in Askers : Begun(asker[q])

\* What holds however the transactions of the admins overlap.
AnyInv ==
    /\ TypeOK /\ 1 \in Applied /\ Room /\ QuestionUnderWay
    /\ \A a \in Admins : Sound(admin[a])

IsActive(b) == b \in Applied /\ \A w \in Applied : w <= b

\* Every version but the first was made on top of an applied one.
MadeOnApplied ==
    \A v \in DOMAIN versions : v > 1 => versions[v].based \in Applied /\ versions[v].based < v

\* Nothing was applied between an applied version and the one it was made on.
OneLine == \A v, w \in Applied : w < v => w <= versions[v].based

\* An applied version that changes schema.yaml has the security admin's consent.
Reviewed ==
    \A v \in Applied :
        v > 1 /\ versions[v].content[Schema] # versions[versions[v].based].content[Schema]
            => versions[v].secure

\* Transactions of two admins cannot overlap.
Exclusive == Serialised \/ \A a, b \in Admins : a = b

\* a has checked, and is about to write the table.
Writing(a) == admin[a].pc \in {"insert", "approve", "reject"}

\* Transactions of two admins do not overlap, for whatever reason.
OneWriter == Serialised \/ \A a, b \in Admins : Writing(a) /\ Writing(b) => a = b

\* The engine's lock, where there is one, is held by whoever is about to write.
WriterHolds == \A a \in Admins : Writing(a) => (Serialised => txn = a)

\* What a request checked still holds when it writes.
Ready(r) ==
    /\ r.pc = "insert" => IsActive(r.based)
    /\ r.pc = "approve" => versions[r.vid].status = "draft" /\ IsActive(versions[r.vid].based)
    /\ r.pc = "reject" => versions[r.vid].status = "draft"
    /\ r.pc \in {"disk", "forget", "clear"} => r.vid \in Applied

ReadyToWrite == \A a \in Admins : Ready(admin[a])

\* The files, and so the allowlist, are text of applied versions.
FilesApplied ==
    /\ \A f \in Files : \E v \in Applied : versions[v].content[f] = disk[f]
    /\ \E v \in Applied : versions[v].content[Schema] = allow

\* What holds besides where they do not overlap.
IInv ==
    /\ AnyInv /\ MadeOnApplied /\ OneLine /\ Reviewed
    /\ WriterHolds /\ ReadyToWrite /\ FilesApplied

-----------------------------------------------------------------------------
(* Lemmas about numbers, sequences and the table.                          *)

\* A set of numbers below a bound has a greatest member.
LEMMA MaxExists ==
    ASSUME NEW n \in Nat, NEW S \in SUBSET (1 .. n), S # {}
    PROVE  \E m \in S : \A w \in S : w <= m
<1> DEFINE Less == {ss \in Nat \X Nat : ss[1] < ss[2]}
           T == {n - w : w \in S}
<1>1. IsWellFoundedOn(Less, Nat)
  BY NatLessThanWellFounded DEF OpToRel
<1>2. T \subseteq Nat
  OBVIOUS
<1>3. T # {}
  <2>1. PICK w \in S : TRUE
    OBVIOUS
  <2> QED BY <2>1
<1>4. PICK x \in T : \A y \in T : ~(<<y, x>> \in Less)
  <2> HIDE DEF Less, T
  <2> QED BY <1>1, <1>2, <1>3, WFMin
<1>5. PICK m \in S : x = n - m
  BY <1>4
<1>6. ASSUME NEW w \in S PROVE w <= m
  <2>1. n - w \in T /\ n - w \in Nat /\ x \in Nat
    BY <1>2, <1>4
  <2>2. ~(n - w < x)
    BY <1>4, <2>1
  <2> QED BY <2>2, <1>5
<1> QED BY <1>6

\* Files and texts: there is a first file, and the first version's text.
LEMMA FilesFacts ==
    /\ Len(FileOrder) \in Nat /\ 1 \in DOMAIN FileOrder
    /\ DOMAIN FileOrder = 1 .. Len(FileOrder)
    /\ \A i \in DOMAIN FileOrder : FileOrder[i] \in Files
    /\ Schema \in Files /\ 1 \in Texts /\ Texts \subseteq Nat
<1>1. FileOrder \in Seq(Files) /\ Schema \in Files
  BY FilesAssumption
<1>2. Len(FileOrder) \in Nat /\ DOMAIN FileOrder = 1 .. Len(FileOrder)
  BY <1>1, LenProperties
<1>3. \A i \in DOMAIN FileOrder : FileOrder[i] \in Files
  BY DEF Files
<1>4. 1 \in DOMAIN FileOrder
  BY <1>1, <1>2 DEF Files
<1> QED BY <1>1, <1>2, <1>3, <1>4, MaxVersionsAssumption DEF Texts, VersionIds

\* The table is numbered from 1 and the applied versions are rows of it.
LEMMA TableFacts ==
    ASSUME TypeOK
    PROVE  /\ versions \in Seq(Version) /\ Len(versions) \in Nat
           /\ DOMAIN versions = 1 .. Len(versions) /\ Len(versions) <= MaxVersions
           /\ \A v \in DOMAIN versions : versions[v] \in Version
           /\ Applied \subseteq DOMAIN versions
<1>1. versions \in Seq(Version) /\ Len(versions) \in 1 .. MaxVersions
  BY DEF TypeOK
<1> QED BY <1>1, LenProperties, ElementOfSeq, MaxVersionsAssumption DEF Applied

\* _active_version_row finds the applied row with the highest id.
LEMMA ActiveIsActive ==
    ASSUME TypeOK, Applied # {}
    PROVE  IsActive(Active) /\ \A b : IsActive(b) => b = Active
<1>1. Applied \subseteq 1 .. Len(versions) /\ Len(versions) \in Nat
  BY TableFacts
<1>2. \E m \in Applied : \A w \in Applied : w <= m
  BY <1>1, MaxExists
<1>3. Active \in Applied /\ \A w \in Applied : w <= Active
  BY <1>2 DEF Active
<1>4. ASSUME NEW b, IsActive(b) PROVE b = Active
  <2>1. b \in Nat /\ Active \in Nat /\ b <= Active /\ Active <= b
    BY <1>1, <1>3, <1>4 DEF IsActive
  <2> QED BY <2>1
<1> QED BY <1>3, <1>4 DEF IsActive

LEMMA ActiveFacts ==
    ASSUME AnyInv
    PROVE  IsActive(Active) /\ Active \in VersionIds /\ Active \in DOMAIN versions
<1>1. Applied # {} /\ TypeOK
  BY DEF AnyInv
<1>2. IsActive(Active)
  BY <1>1, ActiveIsActive
<1> QED BY <1>1, <1>2, TableFacts, MaxVersionsAssumption DEF IsActive, VersionIds

\* The version before one that was made on top of it.
LEMMA PreviousIsBase ==
    ASSUME AnyInv, MadeOnApplied, OneLine, NEW v \in Applied, v > 1
    PROVE  Previous(v) = versions[v].based /\ Before(v) # {}
<1> DEFINE b == versions[v].based
<1>1. Applied \subseteq DOMAIN versions /\ Applied \subseteq Nat
  BY TableFacts DEF AnyInv
<1>2. b \in Before(v) /\ \A u \in Before(v) : u <= b
  BY <1>1 DEF MadeOnApplied, OneLine, Before
<1>3. Previous(v) \in Before(v) /\ \A u \in Before(v) : u <= Previous(v)
  BY <1>2 DEF Previous
<1>4. Previous(v) <= b /\ b <= Previous(v) /\ Previous(v) \in Nat /\ b \in Nat
  BY <1>1, <1>2, <1>3 DEF Before
<1> QED BY <1>2, <1>4

\* A row that is added is the last one, and the others are as they were.
LEMMA Added ==
    ASSUME NEW s \in Seq(Version), NEW r \in Version, NEW t, t = Append(s, r)
    PROVE  /\ t \in Seq(Version) /\ Len(t) = Len(s) + 1
           /\ DOMAIN t = 1 .. (Len(s) + 1) /\ DOMAIN s = 1 .. Len(s) /\ Len(s) \in Nat
           /\ \A v \in DOMAIN s : t[v] = s[v]
           /\ t[Len(s) + 1] = r
BY AppendProperties, LenProperties

\* A row that is replaced leaves the others as they were.
LEMMA Replaced ==
    ASSUME NEW s \in Seq(Version), NEW u \in DOMAIN s, NEW row \in Version,
           NEW t, t = [s EXCEPT ![u] = row]
    PROVE  /\ t \in Seq(Version) /\ Len(t) = Len(s) /\ DOMAIN t = DOMAIN s
           /\ \A v \in DOMAIN s : v # u => t[v] = s[v]
           /\ t[u] = row
<1>1. u \in 1 .. Len(s)
  BY LenProperties
<1>2. /\ t \in Seq(Version) /\ Len(t) = Len(s)
      /\ \A v \in 1 .. Len(s) : t[v] = IF v = u THEN row ELSE s[v]
  BY <1>1, ExceptSeq
<1>3. DOMAIN t = 1 .. Len(s) /\ DOMAIN s = 1 .. Len(s)
  BY <1>2, LenProperties
<1> QED BY <1>1, <1>2, <1>3

\* What approve_draft and reject_draft make of a row.
LEMMA DecidedRow ==
    ASSUME NEW v \in Version
    PROVE  LET a == [v EXCEPT !.status = "applied", !.secure = TRUE]
               b == [v EXCEPT !.status = "rejected"]
           IN  /\ a \in Version /\ a.status = "applied" /\ a.secure
               /\ b \in Version /\ b.status = "rejected" /\ b.secure = v.secure
               /\ a.based = v.based /\ a.content = v.content
               /\ b.based = v.based /\ b.content = v.content
<1> DEFINE a1 == [v EXCEPT !.status = "applied"]
           a2 == [a1 EXCEPT !.secure = TRUE]
<1>1. a1 \in Version /\ [v EXCEPT !.status = "rejected"] \in Version
  BY DEF Version
<1>2. a2 \in Version
  <2> HIDE DEF a1
  <2> QED BY <1>1 DEF Version
<1> QED BY <1>1, <1>2 DEF Version

-----------------------------------------------------------------------------
(* The invariant holds initially.                                          *)

LEMMA InitInv == Init => IInv
<1> SUFFICES ASSUME Init PROVE IInv
  OBVIOUS
<1> USE FilesFacts, NobodyAssumption, MaxVersionsAssumption
<1> DEFINE first == [status |-> "applied", content |-> [f \in Files |-> 1], based |-> 0,
                     changed |-> {}, secure |-> TRUE]
<1>1. first \in Version
  BY DEF Version
<1>2. /\ versions = <<first>> /\ versions \in Seq(Version) /\ Len(versions) = 1
      /\ DOMAIN versions = {1} /\ versions[1] = first
  BY <1>1 DEF Init
<1>3. Applied = {1}
  BY <1>2 DEF Applied
<1>4. TypeOK
  BY <1>2 DEF Init, TypeOK, IdleAdmin, IdleAsker, Texts, VersionIds
<1>5. MadeOnApplied /\ OneLine /\ Reviewed
  BY <1>2, <1>3 DEF MadeOnApplied, OneLine, Reviewed
<1>6. WriterHolds /\ ReadyToWrite /\ QuestionUnderWay /\ \A a \in Admins : Sound(admin[a])
  BY DEF Init, WriterHolds, Writing, ReadyToWrite, Ready, QuestionUnderWay, Begun, Sound, IdleAdmin,
         IdleAsker
<1>7. Pending = {}
  BY DEF Init, Pending, IdleAdmin
<1>8. Room
  BY <1>2, <1>7, FS_EmptySet DEF Room
<1>9. FilesApplied
  BY <1>2, <1>3 DEF Init, FilesApplied
<1> QED BY <1>3, <1>4, <1>5, <1>6, <1>8, <1>9 DEF IInv, AnyInv

-----------------------------------------------------------------------------
(* Every step preserves what holds however transactions overlap.           *)

\* A request that goes on, and nobody else's.
LEMMA RequestGoesOn ==
    ASSUME NEW a \in Admins, admin \in [Admins -> Request], NEW r \in Request, Become(a, r)
    PROVE  /\ admin' \in [Admins -> Request] /\ admin'[a] = r
           /\ \A b \in Admins : b # a => admin'[b] = admin[b]
BY DEF Become

\* Types of what the steps of a request use.
LEMMA Typed ==
    ASSUME TypeOK
    PROVE  /\ admin \in [Admins -> Request] /\ txn \in Admins \cup {Nobody}
           /\ disk \in [Files -> Texts] /\ live \in [LiveFiles -> Texts \cup {0}]
           /\ cachedId \in 0 .. MaxVersions /\ IdleAdmin \in Request
BY FilesFacts, MaxVersionsAssumption DEF TypeOK, Request, IdleAdmin

\* The requests and the questions that begin.
LEMMA BeginsToSave ==
    ASSUME NEW i \in Request, NEW based \in 0 .. MaxVersions, NEW files \in SUBSET Files,
           NEW from \in 0 .. MaxVersions, NEW sec \in BOOLEAN
    PROVE  [i EXCEPT !.pc = "check", !.based = based, !.files = files, !.from = from,
                     !.sec = sec] \in Request
<1> DEFINE r1 == [i EXCEPT !.pc = "check"]
           r2 == [r1 EXCEPT !.based = based]
           r3 == [r2 EXCEPT !.files = files]
           r4 == [r3 EXCEPT !.from = from]
           r5 == [r4 EXCEPT !.sec = sec]
<1>1. r1 \in Request
  BY DEF Request
<1>2. r2 \in Request
  <2> HIDE DEF r1
  <2> QED BY <1>1 DEF Request
<1>3. r3 \in Request
  <2> HIDE DEF r2
  <2> QED BY <1>2 DEF Request
<1>4. r4 \in Request
  <2> HIDE DEF r3
  <2> QED BY <1>3 DEF Request
<1>5. r5 \in Request
  <2> HIDE DEF r4
  <2> QED BY <1>4 DEF Request
<1> QED BY <1>5

LEMMA BeginsToDecide ==
    ASSUME NEW i \in Request, NEW pc \in {"approve", "reject"}, NEW v \in 0 .. MaxVersions
    PROVE  [i EXCEPT !.pc = pc, !.vid = v] \in Request
<1> DEFINE r1 == [i EXCEPT !.pc = pc]
           r2 == [r1 EXCEPT !.vid = v]
<1>1. r1 \in Request
  BY DEF Request
<1>2. r2 \in Request
  <2> HIDE DEF r1
  <2> QED BY <1>1 DEF Request
<1> QED BY <1>2

LEMMA BeginsToAsk ==
    ASSUME NEW i \in Question, NEW pc \in {"config", "store"}, NEW key \in VersionIds,
           NEW f \in Files
    PROVE  [i EXCEPT !.pc = pc, !.key = key, !.file = f] \in Question
<1> DEFINE r1 == [i EXCEPT !.pc = pc]
           r2 == [r1 EXCEPT !.key = key]
           r3 == [r2 EXCEPT !.file = f]
<1>1. r1 \in Question
  BY DEF Question
<1>2. r2 \in Question
  <2> HIDE DEF r1
  <2> QED BY <1>1, MaxVersionsAssumption DEF Question, VersionIds
<1>3. r3 \in Question
  <2> HIDE DEF r2
  <2> QED BY <1>2 DEF Question
<1> QED BY <1>3

\* Steps of questions and the expiry of the cached id.
LEMMA AskerAny ==
    ASSUME AnyInv, \/ \E q \in Askers : AskerStep(q)
                   \/ ExpireId
    PROVE  AnyInv' /\ UNCHANGED <<versions, txn, disk, allow, admin>>
<1> USE FilesFacts, MaxVersionsAssumption
<1>1. UNCHANGED <<versions, txn, disk, allow, admin>>
  BY DEF AskerStep, ReadId, StoreId, ReadKnowledge, LoadKnowledge, Fetch, Answer, ExpireId
<1>2. (1 \in Applied)' /\ Room' /\ \A a \in Admins : Sound(admin[a])'
  BY <1>1 DEF AnyInv, Applied, Room, Pending, Sound
<1>3. Active \in VersionIds
  BY ActiveFacts DEF AnyInv
<1>5. /\ asker \in [Askers -> Question] /\ \A q \in Askers : Begun(asker[q])
      /\ live \in [LiveFiles -> Texts \cup {0}] /\ cachedId \in 0 .. MaxVersions
      /\ disk \in [Files -> Texts] /\ entries \subseteq Entry
      /\ LiveFiles \subseteq Files
  BY DEF AnyInv, TypeOK, QuestionUnderWay, Question, Entry, LiveFiles
<1>6. live' \in [LiveFiles -> Texts \cup {0}] /\ cachedId' \in 0 .. MaxVersions
  <2>1. CASE ExpireId
    BY <1>5, <2>1 DEF ExpireId
  <2>2. ASSUME NEW q \in Askers, StoreId(q) \/ LoadKnowledge(q)
        PROVE  live' \in [LiveFiles -> Texts \cup {0}] /\ cachedId' \in 0 .. MaxVersions
    BY <1>5, <2>2 DEF StoreId, LoadKnowledge, Question, Begun
  <2> QED BY <1>5, <2>1, <2>2 DEF AskerStep, ReadId, ReadKnowledge, Fetch, Answer
<1>7. entries' \subseteq Entry
  <2>1. ASSUME NEW q \in Askers, Answer(q) PROVE entries' \subseteq Entry
    BY <1>5, <2>1 DEF Answer, Entry, Question, Begun, Texts, VersionIds
  <2> QED BY <1>5, <2>1 DEF AskerStep, ReadId, StoreId, ReadKnowledge, LoadKnowledge, Fetch, ExpireId
<1>8. asker' \in [Askers -> Question] /\ \A q \in Askers : Begun(asker'[q])
  <2>1. ASSUME NEW q \in Askers, AskerStep(q)
        PROVE  \E r \in Question : Turn(q, r) /\ Begun(r)
    <3> DEFINE old == asker[q]
    <3>1. old \in Question /\ Begun(old) /\ IdleAsker \in Question /\ Begun(IdleAsker)
      BY <1>5, FilesFacts DEF IdleAsker, Question, Begun
    <3>2. CASE ReadId(q)
      <4>1. PICK f \in LiveFiles, pc \in {"config", "store"}, key \in VersionIds :
               Turn(q, [IdleAsker EXCEPT !.pc = pc, !.key = key, !.file = f])
        <5>1. PICK f \in LiveFiles :
                 \/ /\ cachedId # 0
                    /\ Turn(q, [IdleAsker EXCEPT !.pc = "config", !.key = cachedId, !.file = f])
                 \/ Turn(q, [IdleAsker EXCEPT !.pc = "store", !.key = Active, !.file = f])
          BY <3>2 DEF ReadId
        <5>2. cachedId # 0 => cachedId \in VersionIds
          BY <1>5 DEF VersionIds
        <5> QED BY <5>1, <5>2, <1>3
      <4> DEFINE r == [IdleAsker EXCEPT !.pc = pc, !.key = key, !.file = f]
      <4>2. r \in Question
        BY <1>5, <3>1, BeginsToAsk
      <4>3. Begun(r)
        BY <3>1 DEF Question, Begun, VersionIds
      <4> QED BY <4>1, <4>2, <4>3
    <3>3. CASE StoreId(q)
      <4>1. [old EXCEPT !.pc = "config"] \in Question /\ Begun([old EXCEPT !.pc = "config"])
        BY <3>1, <3>3 DEF StoreId, Question, Begun
      <4> QED BY <3>3, <4>1 DEF StoreId
    <3>4. CASE ReadKnowledge(q)
      <4>1. /\ [old EXCEPT !.pc = "fetch"] \in Question
            /\ Begun([old EXCEPT !.pc = "fetch"])
        BY <3>1, <3>4 DEF ReadKnowledge, Question, Begun
      <4>2. disk[old.file] \in Texts /\ disk[old.file] # 0
        BY <3>1, <1>5 DEF Question, Texts, VersionIds
      <4>3. /\ [old EXCEPT !.pc = "load", !.text = disk[old.file]] \in Question
            /\ Begun([old EXCEPT !.pc = "load", !.text = disk[old.file]])
        BY <3>1, <3>4, <4>2 DEF ReadKnowledge, Question, Begun
      <4>4. \/ Turn(q, [old EXCEPT !.pc = "fetch"])
            \/ Turn(q, [old EXCEPT !.pc = "load", !.text = disk[old.file]])
        BY <3>4 DEF ReadKnowledge
      <4> QED BY <4>1, <4>3, <4>4
    <3>5. CASE LoadKnowledge(q)
      <4>1. [old EXCEPT !.pc = "fetch"] \in Question /\ Begun([old EXCEPT !.pc = "fetch"])
        BY <3>1, <3>5 DEF LoadKnowledge, Question, Begun
      <4> QED BY <3>5, <4>1 DEF LoadKnowledge
    <3>6. CASE Fetch(q)
      <4>1. \/ Turn(q, IdleAsker)
            \/ /\ live[old.file] # 0
               /\ Turn(q, [old EXCEPT !.pc = "answer", !.text = live[old.file]])
        BY <3>6 DEF Fetch
      <4>2. CASE /\ live[old.file] # 0
                 /\ Turn(q, [old EXCEPT !.pc = "answer", !.text = live[old.file]])
        <5>1. old.file \in LiveFiles /\ old.key # 0
          BY <3>1, <3>6 DEF Fetch, Begun
        <5>2. live[old.file] \in Texts
          BY <1>5, <4>2, <5>1
        <5>3. /\ [old EXCEPT !.pc = "answer", !.text = live[old.file]] \in Question
              /\ Begun([old EXCEPT !.pc = "answer", !.text = live[old.file]])
          BY <3>1, <4>2, <5>1, <5>2 DEF Question, Begun
        <5> QED BY <4>2, <5>3
      <4> QED BY <3>1, <4>1, <4>2
    <3>7. CASE Answer(q)
      BY <3>1, <3>7 DEF Answer
    <3> QED BY <2>1, <3>2, <3>3, <3>4, <3>5, <3>6, <3>7 DEF AskerStep
  <2>2. ASSUME NEW q \in Askers, NEW r \in Question, Turn(q, r), Begun(r)
        PROVE  asker' \in [Askers -> Question] /\ \A p \in Askers : Begun(asker'[p])
    BY <2>2, <1>5 DEF Turn
  <2> QED BY <1>5, <2>1, <2>2 DEF ExpireId
<1>9. TypeOK' /\ QuestionUnderWay'
  BY <1>1, <1>6, <1>7, <1>8 DEF AnyInv, TypeOK, QuestionUnderWay, Question, Entry
<1> QED BY <1>1, <1>2, <1>9 DEF AnyInv

\* What a request goes on with, when it has not written the table: it is ready
\* for its next step, and holds the lock if that one writes.
LEMMA RequestStays ==
    ASSUME AnyInv, NEW a \in Admins,
           \/ Open(a) \/ SaveCheck(a) \/ ApproveCheck(a) \/ RejectCheck(a)
           \/ WriteFile(a) \/ Forget(a) \/ ClearModules(a)
    PROVE  \E r \in Request :
              /\ Become(a, r) /\ Sound(r) /\ (ReadyToWrite => Ready(r))
              /\ r.pc \in {"insert", "approve", "reject"} => (Serialised => txn' = a)
              /\ r.pc = "disk" => WriteFile(a)
              /\ r.pc \in {"check", "insert"} /\ ~Open(a) => a \in Pending
<1> DEFINE old == admin[a]
<1>1. IsActive(Active) /\ Active \in VersionIds /\ Active \in DOMAIN versions
  BY ActiveFacts
<1>2. /\ Len(versions) \in Nat /\ DOMAIN versions = 1 .. Len(versions)
      /\ Len(versions) <= MaxVersions /\ MaxVersions \in Nat
  BY TableFacts, MaxVersionsAssumption DEF AnyInv
<1>3. /\ IdleAdmin \in Request /\ old \in Request /\ Sound(old) /\ Sound(IdleAdmin)
      /\ Ready(IdleAdmin) /\ IdleAdmin.pc = "idle" /\ IdleAdmin.at = 1
      /\ ReadyToWrite => Ready(old)
  BY Typed DEF AnyInv, ReadyToWrite, Ready, Sound, IdleAdmin
<1>4. CASE Open(a)
  <2>1. PICK files \in SUBSET Files, from \in 0 .. Len(versions), sec \in BOOLEAN :
           Become(a, [IdleAdmin EXCEPT !.pc = "check", !.based = Active, !.files = files,
                                       !.from = from, !.sec = sec])
    BY <1>4 DEF Open
  <2> DEFINE r == [IdleAdmin EXCEPT !.pc = "check", !.based = Active, !.files = files,
                                    !.from = from, !.sec = sec]
  <2>2. r \in Request
    <3>1. Active \in 0 .. MaxVersions /\ from \in 0 .. MaxVersions
      BY <1>1, <1>2 DEF VersionIds
    <3> QED BY <1>3, <3>1, BeginsToSave
  <2>3. r.pc = "check" /\ r.from = from
    BY <1>3 DEF Request
  <2>4. Sound(r) /\ Ready(r)
    BY <1>2, <2>3 DEF Sound, Ready
  <2> QED BY <1>4, <2>1, <2>2, <2>3, <2>4
<1>5. CASE SaveCheck(a)
  <2>1. CASE Active = old.based /\ Become(a, [old EXCEPT !.pc = "insert"]) /\ Hold(a)
    <3> DEFINE r == [old EXCEPT !.pc = "insert"]
    <3>1. /\ r \in Request /\ r.pc = "insert" /\ r.from = old.from /\ r.based = old.based
          /\ Serialised => txn' = a
      BY <1>3, <2>1 DEF Request, Hold
    <3>2. Sound(r) /\ Ready(r)
      BY <1>1, <1>3, <1>5, <2>1, <3>1 DEF Sound, Ready, SaveCheck, At
    <3> QED BY <1>5, <2>1, <3>1, <3>2 DEF SaveCheck, At, Pending
  <2>2. CASE Become(a, IdleAdmin)
    BY <1>3, <2>2
  <2> QED BY <1>5, <2>1, <2>2 DEF SaveCheck
<1>6. CASE ApproveCheck(a)
  <2>1. PICK v \in DOMAIN versions :
           Approvable(v) /\ Become(a, [IdleAdmin EXCEPT !.pc = "approve", !.vid = v])
    BY <1>6 DEF ApproveCheck
  <2> DEFINE r == [IdleAdmin EXCEPT !.pc = "approve", !.vid = v]
  <2>2. r \in Request
    <3>1. v \in 0 .. MaxVersions
      BY <1>2
    <3> QED BY <1>3, <3>1, BeginsToDecide
  <2>3. r.pc = "approve" /\ r.vid = v /\ r.at = 1
    BY <1>3 DEF Request
  <2>4. Sound(r) /\ Ready(r) /\ (Serialised => txn' = a)
    BY <1>1, <1>6, <2>1, <2>3 DEF Sound, Ready, Approvable, ApproveCheck, Hold
  <2> QED BY <2>1, <2>2, <2>3, <2>4
<1>7. CASE RejectCheck(a)
  <2>1. PICK v \in DOMAIN versions :
           Rejectable(v) /\ Become(a, [IdleAdmin EXCEPT !.pc = "reject", !.vid = v])
    BY <1>7 DEF RejectCheck
  <2> DEFINE r == [IdleAdmin EXCEPT !.pc = "reject", !.vid = v]
  <2>2. r \in Request
    <3>1. v \in 0 .. MaxVersions
      BY <1>2
    <3> QED BY <1>3, <3>1, BeginsToDecide
  <2>3. r.pc = "reject" /\ r.vid = v
    BY <1>3 DEF Request
  <2>4. Sound(r) /\ Ready(r) /\ (Serialised => txn' = a)
    BY <1>7, <2>1, <2>3 DEF Sound, Ready, Rejectable, RejectCheck, Hold, AnyInv, Applied
  <2> QED BY <2>1, <2>2, <2>3, <2>4
<1>8. CASE WriteFile(a)
  <2> DEFINE r == IF WritesDone(old.at) THEN [old EXCEPT !.pc = "forget"]
                  ELSE [old EXCEPT !.at = old.at + 1]
  <2>1. old.pc = "disk" /\ Become(a, r)
    BY <1>8 DEF WriteFile, At
  <2>2. r \in Request /\ r.pc \in {"disk", "forget"} /\ r.vid = old.vid
    <3>1. old \in Request /\ Len(FileOrder) \in Nat /\ DOMAIN FileOrder = 1 .. Len(FileOrder)
      BY <1>3, FilesFacts
    <3>2. CASE WritesDone(old.at)
      BY <3>1, <3>2 DEF Request
    <3>3. CASE ~WritesDone(old.at)
      <4>1. old.at + 1 \in DOMAIN FileOrder
        BY <3>1, <3>3 DEF Request, WritesDone
      <4> QED BY <2>1, <3>1, <3>3, <4>1 DEF Request
    <3> QED BY <3>2, <3>3
  <2>3. Sound(r) /\ (ReadyToWrite => Ready(r))
    BY <1>3, <2>1, <2>2 DEF Sound, Ready
  <2> HIDE DEF r
  <2> QED BY <1>8, <2>1, <2>2, <2>3
<1>9. CASE Forget(a)
  <2> DEFINE r == [old EXCEPT !.pc = "clear"]
  <2>1. r \in Request /\ r.pc = "clear" /\ r.vid = old.vid
    BY <1>3 DEF Request
  <2>2. Become(a, r) /\ Sound(r) /\ (ReadyToWrite => Ready(r))
    BY <1>3, <1>9, <2>1 DEF Sound, Ready, Forget, At
  <2> QED BY <2>1, <2>2
<1>10. CASE ClearModules(a)
  BY <1>3, <1>10 DEF ClearModules
<1> QED BY <1>4, <1>5, <1>6, <1>7, <1>8, <1>9, <1>10

\* Steps of an admin that leave the table alone.
LEMMA LookAny ==
    ASSUME AnyInv, NEW a \in Admins,
           \/ Open(a) \/ SaveCheck(a) \/ ApproveCheck(a) \/ RejectCheck(a)
           \/ WriteFile(a) \/ Forget(a) \/ ClearModules(a)
    PROVE  AnyInv'
<1> USE DEF Open, SaveCheck, ApproveCheck, RejectCheck, WriteFile, Forget, ClearModules
<1>1. UNCHANGED <<versions, allow, entries, asker>>
  OBVIOUS
<1>2. Applied' = Applied
  BY <1>1 DEF Applied
<1>3. /\ \A v \in DOMAIN versions : versions[v].content \in [Files -> Texts]
      /\ MaxVersions \in Nat /\ Len(versions) \in Nat
  BY TableFacts, MaxVersionsAssumption DEF AnyInv, Version
<1>4. /\ admin \in [Admins -> Request] /\ txn \in Admins \cup {Nobody}
      /\ disk \in [Files -> Texts] /\ live \in [LiveFiles -> Texts \cup {0}]
      /\ cachedId \in 0 .. MaxVersions
  BY Typed DEF AnyInv
<1>5. PICK r \in Request : /\ Become(a, r) /\ Sound(r)
                           /\ r.pc \in {"check", "insert"} /\ ~Open(a) => a \in Pending
  <2> USE DEF Open
  <2> HIDE DEF Open, SaveCheck, ApproveCheck, RejectCheck, WriteFile, Forget, ClearModules
  <2> QED BY RequestStays
<1>6. /\ admin' \in [Admins -> Request] /\ admin'[a] = r
      /\ \A b \in Admins : b # a => admin'[b] = admin[b]
  BY <1>4, <1>5, RequestGoesOn
<1>7. disk' \in [Files -> Texts]
  <2>1. CASE WriteFile(a)
    <3>1. admin[a].vid \in DOMAIN versions /\ FileOrder[admin[a].at] \in Files
      BY <1>4, <2>1, FilesFacts DEF AnyInv, Sound, At, Request
    <3>2. disk' = [disk EXCEPT ![FileOrder[admin[a].at]] =
                                   versions[admin[a].vid].content[FileOrder[admin[a].at]]]
      BY <2>1
    <3> QED BY <1>3, <1>4, <3>1, <3>2
  <2> QED BY <1>4, <2>1
<1>8. TypeOK'
  <2>1. txn' \in Admins \cup {Nobody}
    BY <1>4 DEF Hold
  <2>2. live' \in [LiveFiles -> Texts \cup {0}]
    BY <1>4
  <2>3. cachedId' \in 0 .. MaxVersions
    <3>1. cachedId' \in {cachedId, 0}
      OBVIOUS
    <3> HIDE DEF Open, SaveCheck, ApproveCheck, RejectCheck, WriteFile, Forget, ClearModules
    <3> QED BY <1>3, <1>4, <3>1
  <2> HIDE DEF Open, SaveCheck, ApproveCheck, RejectCheck, WriteFile, Forget, ClearModules
  <2> QED BY <1>1, <1>6, <1>7, <2>1, <2>2, <2>3 DEF AnyInv, TypeOK, Request
<1> HIDE DEF SaveCheck, ApproveCheck, RejectCheck, WriteFile, Forget, ClearModules
<1>9. \A b \in Admins : Sound(admin[b])'
  <2>1. \A b \in Admins : Sound(admin'[b])
    BY <1>5, <1>6 DEF AnyInv
  <2> QED BY <2>1, <1>1, <1>2 DEF Sound
<1>10. Room'
  <2>1. CASE Open(a)
    <3>1. Pending' \subseteq Pending \cup {a}
      BY <1>6 DEF Pending
    <3>2. Cardinality(Pending) \in Nat /\ Len(versions) + Cardinality(Pending) < MaxVersions
      BY <2>1, FS_CardinalityType DEF AnyInv, Room
    <3>3. /\ IsFiniteSet(Pending \cup {a})
          /\ Cardinality(Pending \cup {a}) <= Cardinality(Pending) + 1
          /\ Cardinality(Pending \cup {a}) \in Nat
      <4> HIDE DEF Open
      <4>1. IsFiniteSet(Pending)
        BY DEF AnyInv, Room
      <4>2. /\ IsFiniteSet(Pending \cup {a})
            /\ Cardinality(Pending \cup {a}) =
                 IF a \in Pending THEN Cardinality(Pending) ELSE Cardinality(Pending) + 1
        BY <4>1, FS_AddElement
      <4> QED BY <3>2, <4>2
    <3>4. /\ IsFiniteSet(Pending') /\ Cardinality(Pending') \in Nat
          /\ Cardinality(Pending') <= Cardinality(Pending \cup {a})
      BY <3>1, <3>3, FS_Subset, FS_CardinalityType
    <3> HIDE DEF Open
    <3> QED BY <1>1, <1>3, <3>2, <3>3, <3>4 DEF Room
  <2>2. CASE ~Open(a)
    <3> HIDE DEF Open
    <3>1. Pending' \subseteq Pending
      BY <1>5, <1>6, <2>2 DEF Pending
    <3>2. /\ IsFiniteSet(Pending') /\ Cardinality(Pending') <= Cardinality(Pending)
          /\ Cardinality(Pending') \in Nat /\ Cardinality(Pending) \in Nat
      BY <3>1, FS_Subset, FS_CardinalityType DEF AnyInv, Room
    <3> QED BY <1>1, <1>3, <3>2 DEF AnyInv, Room
  <2> QED BY <2>1, <2>2
<1>11. QuestionUnderWay'
  BY <1>1 DEF AnyInv, QuestionUnderWay
<1> QED BY <1>2, <1>8, <1>9, <1>10, <1>11 DEF AnyInv

\* What every write of the table leaves to be shown.
LEMMA WriteAny ==
    ASSUME AnyInv, NEW a \in Admins, txn' = Nobody,
           UNCHANGED <<disk, allow, live, cachedId, entries, asker>>,
           NEW r \in Request, Become(a, r), Sound(r)',
           versions' \in Seq(Version), Len(versions) <= Len(versions'),
           Len(versions') <= MaxVersions, 1 \in Applied', Room'
    PROVE  AnyInv'
<1>1. Len(versions) \in Nat /\ Len(versions) >= 1 /\ MaxVersions \in Nat
  BY MaxVersionsAssumption DEF AnyInv, TypeOK
<1>2. /\ Len(versions') \in Nat /\ DOMAIN versions' = 1 .. Len(versions')
      /\ DOMAIN versions = 1 .. Len(versions)
  BY LenProperties, TableFacts DEF AnyInv
<1>3. /\ admin' \in [Admins -> Request] /\ admin'[a] = r
      /\ \A b \in Admins : b # a => admin'[b] = admin[b]
  BY Typed, RequestGoesOn DEF AnyInv
<1>4. TypeOK'
  BY <1>1, <1>2, <1>3, SMTT(30) DEF AnyInv, TypeOK, Request
<1>5. ASSUME NEW b \in Admins PROVE Sound(admin[b])'
  <2>1. CASE b = a
    BY <1>3, <2>1 DEF Sound
  <2>2. CASE b # a
    <3>1. Sound(admin[b]) /\ admin[b] \in Request /\ DOMAIN versions \subseteq DOMAIN versions'
      BY <1>1, <1>2, Typed DEF AnyInv
    <3>2. admin[b].from <= Len(versions) => admin[b].from <= Len(versions')
      BY <1>1, <1>2, <3>1 DEF Request
    <3> QED BY <1>3, <2>2, <3>1, <3>2 DEF Sound
  <2> QED BY <2>1, <2>2
<1>6. QuestionUnderWay'
  BY DEF AnyInv, QuestionUnderWay
<1> QED BY <1>4, <1>5, <1>6 DEF AnyInv

\* What a save adds to the table.
LEMMA InsertEffect ==
    ASSUME AnyInv, NEW a \in Admins, SaveInsert(a)
    PROVE  LET n == Len(versions) + 1
               row == versions'[n]
           IN  /\ Writing(a) /\ n \in 1 .. MaxVersions
               /\ versions' \in Seq(Version) /\ Len(versions') = n /\ DOMAIN versions' = 1 .. n
               /\ \A v \in DOMAIN versions : versions'[v] = versions[v]
               /\ row \in Version /\ row.status \in {"draft", "applied"}
               /\ row.based = admin[a].based
               /\ row.status = "applied" =>
                     row.content[Schema] = versions[row.based].content[Schema] \/ row.secure
               /\ \E r \in Request : /\ Become(a, r) /\ r.vid = n /\ r.at = 1
                                     /\ r.pc = IF row.status = "draft" THEN "idle" ELSE "disk"
<1> DEFINE r == admin[a]
           n == Len(versions) + 1
           content == NewContent(a)
           changed == {f \in Files : content[f] # versions[r.based].content[f]}
           draft == NeedsReview(changed, r.sec)
           row == [status |-> IF draft THEN "draft" ELSE "applied", content |-> content,
                   based |-> r.based, changed |-> changed, secure |-> r.sec]
<1>1. r.pc = "insert" /\ r \in Request /\ Writing(a) /\ Sound(r)
  BY Typed DEF SaveInsert, At, AnyInv, Writing
<1>2. r.based \in DOMAIN versions /\ r.from <= Len(versions)
  BY <1>1 DEF Sound
<1>3. /\ Len(versions) \in Nat /\ DOMAIN versions = 1 .. Len(versions)
      /\ \A v \in DOMAIN versions : versions[v] \in Version
      /\ versions \in Seq(Version)
  BY TableFacts DEF AnyInv
<1>4. n \in 1 .. MaxVersions
  <2>1. a \in Pending
    BY <1>1 DEF Pending
  <2>2. Cardinality(Pending) \in Nat /\ Cardinality(Pending) # 0
    BY <2>1, FS_CardinalityType, FS_EmptySet DEF AnyInv, Room
  <2> QED BY <1>3, <2>2, MaxVersionsAssumption DEF AnyInv, Room
<1>5. content \in [Files -> Texts]
  <2>1. ASSUME NEW f \in Files, f \notin r.files PROVE versions[r.based].content[f] \in Texts
    BY <1>2, <1>3 DEF Version
  <2>2. ASSUME NEW f \in Files, r.from # 0 PROVE versions[r.from].content[f] \in Texts
    <3>1. r.from \in DOMAIN versions
      BY <1>1, <1>2, <1>3, <2>2 DEF Request
    <3> QED BY <3>1, <1>3 DEF Version
  <2>3. n \in Texts
    BY <1>4 DEF Texts, VersionIds
  <2> QED BY <2>1, <2>2, <2>3 DEF NewContent
<1>6. row \in Version
  <2> HIDE DEF content, changed, draft
  <2>1. changed \subseteq Files
    BY DEF changed
  <2> QED BY <1>1, <1>5, <2>1 DEF Version, Request
<1>7. versions' = Append(versions, row)
  BY DEF SaveInsert
<1>8. \E s \in Request : /\ Become(a, s) /\ s.vid = n /\ s.at = 1
                         /\ s.pc = IF draft THEN "idle" ELSE "disk"
  <2>1. PICK pc : pc = IF draft THEN "idle" ELSE "disk"
    OBVIOUS
  <2>2. Become(a, [IdleAdmin EXCEPT !.pc = pc, !.vid = n])
    BY <2>1 DEF SaveInsert, AfterInsert
  <2>3. PICK i : i = [IdleAdmin EXCEPT !.pc = pc]
    OBVIOUS
  <2>4. i \in Request /\ i.pc = pc /\ i.at = 1
    BY <2>1, <2>3, Typed DEF AnyInv, Request, IdleAdmin
  <2>5. PICK s : s = [i EXCEPT !.vid = n]
    OBVIOUS
  <2>6. n \in 0 .. MaxVersions
    BY <1>4
  <2>7. s \in Request /\ s.pc = pc /\ s.at = 1 /\ s.vid = n
    BY <2>4, <2>5, <2>6 DEF Request
  <2> QED BY <2>1, <2>2, <2>3, <2>5, <2>7
<1>9. ~draft => content[Schema] = versions[r.based].content[Schema] \/ r.sec
  BY FilesAssumption DEF NeedsReview
<1>10. /\ versions' \in Seq(Version) /\ Len(versions') = n /\ DOMAIN versions' = 1 .. n
       /\ \A v \in DOMAIN versions : versions'[v] = versions[v]
       /\ versions'[n] = row
  <2> HIDE DEF row
  <2> QED BY <1>3, <1>6, <1>7, Added
<1>11. /\ row.status = IF draft THEN "draft" ELSE "applied"
       /\ row.content = content /\ row.based = r.based /\ row.secure = r.sec
  OBVIOUS
<1> HIDE DEF row, draft, content
<1> QED BY <1>1, <1>2, <1>4, <1>6, <1>8, <1>9, <1>10, <1>11

LEMMA InsertAny ==
    ASSUME AnyInv, NEW a \in Admins, SaveInsert(a)
    PROVE  AnyInv'
<1> DEFINE n == Len(versions) + 1
           row == versions'[n]
<1>1. /\ n \in 1 .. MaxVersions
      /\ versions' \in Seq(Version) /\ Len(versions') = n /\ DOMAIN versions' = 1 .. n
      /\ \A v \in DOMAIN versions : versions'[v] = versions[v]
      /\ row.status \in {"draft", "applied"}
      /\ \E r \in Request : /\ Become(a, r) /\ r.vid = n /\ r.at = 1
                            /\ r.pc = IF row.status = "draft" THEN "idle" ELSE "disk"
  BY InsertEffect
<1> HIDE DEF row
<1>2. PICK r \in Request : Become(a, r) /\ r.vid = n /\ r.pc \in {"idle", "disk"}
  BY <1>1
<1>3. txn' = Nobody /\ UNCHANGED <<disk, allow, live, cachedId, entries, asker>>
  BY DEF SaveInsert, Release
<1>4. /\ Len(versions) \in Nat /\ DOMAIN versions = 1 .. Len(versions)
      /\ 1 \in Applied /\ Applied \subseteq DOMAIN versions
  BY TableFacts DEF AnyInv
<1>5. 1 \in Applied'
  BY <1>1, <1>4 DEF Applied
<1>6. Room'
  <2>1. a \in Pending /\ Pending' = Pending \ {a}
    <3>1. admin \in [Admins -> Request] /\ admin[a].pc = "insert"
      BY Typed DEF AnyInv, SaveInsert, At
    <3>2. /\ admin'[a].pc \notin {"check", "insert"}
          /\ \A b \in Admins : b # a => admin'[b] = admin[b]
      BY <1>2, <3>1, RequestGoesOn
    <3> QED BY <3>1, <3>2 DEF Pending
  <2>2. IsFiniteSet(Pending) /\ Cardinality(Pending) \in Nat
    BY FS_CardinalityType DEF AnyInv, Room
  <2>3. IsFiniteSet(Pending') /\ Cardinality(Pending') = Cardinality(Pending) - 1
    BY <2>1, <2>2, FS_RemoveElement
  <2> QED BY <1>1, <1>4, <2>2, <2>3 DEF AnyInv, Room
<1>7. Sound(r)'
  BY <1>1, <1>2 DEF Sound
<1>8. Len(versions) <= Len(versions') /\ Len(versions') <= MaxVersions
  BY <1>1, <1>4
<1> QED BY <1>1, <1>2, <1>3, <1>5, <1>6, <1>7, <1>8, WriteAny

\* What a decision does to the table: one version gets its status.
LEMMA DecideEffect ==
    ASSUME AnyInv, NEW a \in Admins, ApproveWrite(a) \/ RejectWrite(a)
    PROVE  LET u == admin[a].vid
           IN  /\ Writing(a) /\ u \in DOMAIN versions
               /\ versions' \in Seq(Version) /\ Len(versions') = Len(versions)
               /\ DOMAIN versions' = DOMAIN versions
               /\ \A v \in DOMAIN versions :
                     /\ v # u => versions'[v] = versions[v]
                     /\ versions'[v].based = versions[v].based
                     /\ versions'[v].content = versions[v].content
               /\ \/ /\ admin[a].pc = "approve" /\ ApproveWrite(a)
                     /\ versions'[u].status = "applied" /\ versions'[u].secure
                     /\ Applied' = Applied \cup {u}
                     /\ \E r \in Request : /\ Become(a, r) /\ r.pc = "disk" /\ r.vid = u
                                           /\ r.at = 1
                  \/ /\ admin[a].pc = "reject" /\ u # 1 /\ RejectWrite(a)
                     /\ versions'[u].status = "rejected" /\ Applied' = Applied \ {u}
                     /\ Become(a, IdleAdmin)
<1> DEFINE u == admin[a].vid
<1>1. /\ Writing(a) /\ u \in DOMAIN versions /\ Sound(admin[a])
      /\ ApproveWrite(a) => admin[a].pc = "approve"
      /\ RejectWrite(a) => admin[a].pc = "reject" /\ u # 1
  BY DEF AnyInv, Writing, Sound, ApproveWrite, RejectWrite, At
<1>2. /\ versions \in Seq(Version) /\ \A v \in DOMAIN versions : versions[v] \in Version
  BY TableFacts DEF AnyInv
<1> HIDE DEF u
<1>3. CASE ApproveWrite(a)
  <2> DEFINE row == [versions[u] EXCEPT !.status = "applied", !.secure = TRUE]
  <2>1. /\ versions[u] \in Version /\ versions \in Seq(Version) /\ u \in DOMAIN versions
        /\ versions' = [versions EXCEPT ![u] = row]
    BY <1>1, <1>2, <1>3 DEF ApproveWrite, u
  <2>2. /\ versions' \in Seq(Version) /\ Len(versions') = Len(versions)
        /\ DOMAIN versions' = DOMAIN versions
        /\ \A v \in DOMAIN versions : v # u => versions'[v] = versions[v]
        /\ versions'[u].status = "applied" /\ versions'[u].secure
        /\ versions'[u].based = versions[u].based /\ versions'[u].content = versions[u].content
    <3>1. /\ row \in Version /\ row.status = "applied" /\ row.secure
          /\ row.based = versions[u].based /\ row.content = versions[u].content
      BY <2>1, DecidedRow
    <3> HIDE DEF row
    <3> QED BY <2>1, <3>1, Replaced
  <2>3. Applied' = Applied \cup {u}
    BY <1>1, <2>2 DEF Applied
  <2>4. PICK r : r = [admin[a] EXCEPT !.pc = "disk"]
    OBVIOUS
  <2>5. r \in Request /\ r.pc = "disk" /\ r.vid = u /\ r.at = 1
    BY <1>1, <1>3, <2>4, Typed DEF AnyInv, Request, Sound, u
  <2>6. Become(a, r)
    BY <1>3, <2>4 DEF ApproveWrite
  <2> QED BY <1>1, <1>3, <2>2, <2>3, <2>5, <2>6 DEF u
<1>4. CASE RejectWrite(a)
  <2> DEFINE row == [versions[u] EXCEPT !.status = "rejected"]
  <2>1. /\ versions[u] \in Version /\ versions \in Seq(Version) /\ u \in DOMAIN versions
        /\ versions' = [versions EXCEPT ![u] = row]
    BY <1>1, <1>2, <1>4 DEF RejectWrite, u
  <2>2. /\ versions' \in Seq(Version) /\ Len(versions') = Len(versions)
        /\ DOMAIN versions' = DOMAIN versions
        /\ \A v \in DOMAIN versions : v # u => versions'[v] = versions[v]
        /\ versions'[u].status = "rejected"
        /\ versions'[u].based = versions[u].based /\ versions'[u].content = versions[u].content
    <3>1. /\ row \in Version /\ row.status = "rejected"
          /\ row.based = versions[u].based /\ row.content = versions[u].content
      BY <2>1, DecidedRow
    <3> HIDE DEF row
    <3> QED BY <2>1, <3>1, Replaced
  <2>3. Applied' = Applied \ {u}
    BY <1>1, <2>2 DEF Applied
  <2>4. Become(a, IdleAdmin)
    BY <1>4 DEF RejectWrite
  <2> QED BY <1>1, <1>4, <2>2, <2>3, <2>4 DEF u
<1> QED BY <1>3, <1>4

LEMMA DecideAny ==
    ASSUME AnyInv, NEW a \in Admins, ApproveWrite(a) \/ RejectWrite(a)
    PROVE  AnyInv'
<1> DEFINE u == admin[a].vid
<1>1. /\ Writing(a) /\ u \in DOMAIN versions
      /\ versions' \in Seq(Version) /\ Len(versions') = Len(versions)
      /\ DOMAIN versions' = DOMAIN versions
      /\ admin[a].pc \in {"approve", "reject"}
      /\ \/ /\ Applied' = Applied \cup {u}
            /\ \E r \in Request : Become(a, r) /\ r.pc = "disk" /\ r.vid = u
         \/ u # 1 /\ Applied' = Applied \ {u} /\ Become(a, IdleAdmin)
  BY DecideEffect
<1>2. /\ txn' = Nobody /\ UNCHANGED <<disk, allow, live, cachedId, entries, asker>>
  BY DEF ApproveWrite, RejectWrite, Release
<1>3. 1 \in Applied' /\ Len(versions) \in Nat /\ Len(versions) <= MaxVersions
  BY <1>1, TableFacts DEF AnyInv
<1>4. admin \in [Admins -> Request] /\ IdleAdmin \in Request /\ IdleAdmin.pc = "idle"
  BY Typed DEF AnyInv, IdleAdmin
<1>5. PICK r \in Request : /\ Become(a, r) /\ r.pc \in {"idle", "disk"}
                           /\ r.pc = "disk" => r.vid \in DOMAIN versions'
  BY <1>1, <1>4
<1>6. Sound(r)'
  BY <1>5 DEF Sound
<1>7. Room'
  <2>1. admin'[a].pc \in {"idle", "disk"} /\ \A b \in Admins : b # a => admin'[b] = admin[b]
    BY <1>4, <1>5, RequestGoesOn
  <2>2. Pending' = Pending
    BY <1>1, <1>4, <2>1 DEF Pending
  <2> QED BY <1>1, <2>2 DEF AnyInv, Room
<1> QED BY <1>1, <1>2, <1>3, <1>5, <1>6, <1>7, WriteAny

LEMMA RestartAny ==
    ASSUME AnyInv, Restart
    PROVE  AnyInv'
<1> USE FilesFacts
<1>1. UNCHANGED <<versions, disk>>
  BY DEF Restart
<1>2. TypeOK'
  <2>1. admin' \in [Admins -> Request] /\ txn' \in Admins \cup {Nobody}
    BY Typed DEF AnyInv, Restart
  <2>2. asker' \in [Askers -> Question]
    <3>1. IdleAsker \in Question
      BY MaxVersionsAssumption DEF IdleAsker, Question
    <3> QED BY <3>1 DEF Restart
  <2>3. /\ live' \in [LiveFiles -> Texts \cup {0}] /\ cachedId' \in 0 .. MaxVersions
        /\ entries' = {} /\ allow' \in Texts /\ disk \in [Files -> Texts]
    BY MaxVersionsAssumption, Typed DEF AnyInv, Restart
  <2> QED BY <1>1, <2>1, <2>2, <2>3 DEF AnyInv, TypeOK, Request, Question
<1>3. /\ QuestionUnderWay' /\ Pending' = {} /\ \A a \in Admins : Sound(admin[a])'
      /\ 1 \in Applied'
  BY <1>1 DEF Restart, QuestionUnderWay, Begun, IdleAdmin, IdleAsker, Pending, Sound, AnyInv,
              Applied
<1>4. Room'
  BY <1>1, <1>3, FS_EmptySet, TableFacts DEF AnyInv, Room
<1> QED BY <1>2, <1>3, <1>4 DEF AnyInv

LEMMA NextAny == AnyInv /\ [Next]_vars => AnyInv'
<1> SUFFICES ASSUME AnyInv, [Next]_vars PROVE AnyInv'
  OBVIOUS
<1>1. CASE UNCHANGED vars
  BY <1>1 DEF vars, AnyInv, TypeOK, Room, Pending, Applied, Sound, QuestionUnderWay, Begun
<1>2. ASSUME NEW a \in Admins, AdminStep(a) PROVE AnyInv'
  BY <1>2, LookAny, InsertAny, DecideAny DEF AdminStep
<1>3. CASE \/ \E q \in Askers : AskerStep(q)
           \/ ExpireId
  BY <1>3, AskerAny
<1>4. CASE Restart
  BY <1>4, RestartAny
<1> QED BY <1>1, <1>2, <1>3, <1>4 DEF Next

LEMMA InitAny == Init => AnyInv
BY InitInv DEF IInv

\* The table of versions, the files, the caches and the requests keep their types
\* through saves, reviews, questions and restarts, however the statements of the
\* admins overlap (appdb/config_versions.py).
THEOREM TypeCorrect == Spec => []TypeOK
<1>1. AnyInv => TypeOK
  BY DEF AnyInv
<1> QED BY InitAny, NextAny, <1>1, PTL DEF Spec

-----------------------------------------------------------------------------
(* What holds besides when transactions do not overlap.                    *)

\* The parts about the table need only look at the table.
LEMMA TableUnchanged ==
    ASSUME MadeOnApplied, OneLine, Reviewed, UNCHANGED versions
    PROVE  /\ MadeOnApplied' /\ OneLine' /\ Reviewed' /\ Applied' = Applied
           /\ \A b : IsActive(b)' <=> IsActive(b)
BY DEF MadeOnApplied, OneLine, Reviewed, Applied, IsActive

\* Steps of questions and the expiry of the cached id.
LEMMA AskerInv ==
    ASSUME IInv, \/ \E q \in Askers : AskerStep(q)
                 \/ ExpireId
    PROVE  IInv'
<1>1. AnyInv' /\ UNCHANGED <<versions, txn, disk, allow, admin>>
  BY AskerAny DEF IInv
<1>2. /\ MadeOnApplied' /\ OneLine' /\ Reviewed' /\ Applied' = Applied
      /\ \A b : IsActive(b)' <=> IsActive(b)
  BY <1>1, TableUnchanged DEF IInv
<1>3. WriterHolds' /\ ReadyToWrite' /\ FilesApplied'
  BY <1>1, <1>2 DEF IInv, WriterHolds, Writing, ReadyToWrite, Ready, FilesApplied
<1> QED BY <1>1, <1>2, <1>3 DEF IInv

\* Steps of an admin that leave the table alone.
LEMMA LookInv ==
    ASSUME IInv, NEW a \in Admins,
           \/ Open(a) \/ SaveCheck(a) \/ ApproveCheck(a) \/ RejectCheck(a)
           \/ WriteFile(a) \/ Forget(a) \/ ClearModules(a)
    PROVE  IInv'
<1>1. UNCHANGED <<versions, allow>> /\ (WriteFile(a) \/ disk' = disk)
  BY DEF Open, SaveCheck, ApproveCheck, RejectCheck, WriteFile, Forget, ClearModules
<1>2. /\ MadeOnApplied' /\ OneLine' /\ Reviewed' /\ Applied' = Applied
      /\ \A b : IsActive(b)' <=> IsActive(b)
  BY <1>1, TableUnchanged DEF IInv
<1>3. AnyInv'
  BY LookAny DEF IInv
<1>4. PICK r \in Request : /\ Become(a, r) /\ Ready(r)
                           /\ Writing(a)' => (Serialised => txn' = a)
  <2>1. PICK r \in Request :
           /\ Become(a, r) /\ Ready(r)
           /\ r.pc \in {"insert", "approve", "reject"} => (Serialised => txn' = a)
    BY RequestStays DEF IInv
  <2>2. admin'[a] = r
    BY <2>1, Typed, RequestGoesOn DEF IInv, AnyInv
  <2> QED BY <2>1, <2>2 DEF Writing
<1>5. admin'[a] = r /\ \A b \in Admins : b # a => admin'[b] = admin[b]
  BY <1>4, Typed, RequestGoesOn DEF IInv, AnyInv
<1>6. FilesApplied'
  <2>1. CASE WriteFile(a)
    <3>1. /\ admin[a].vid \in Applied /\ disk \in [Files -> Texts]
          /\ disk' = [disk EXCEPT ![FileOrder[admin[a].at]] =
                                     versions[admin[a].vid].content[FileOrder[admin[a].at]]]
      BY <2>1, Typed DEF IInv, AnyInv, ReadyToWrite, Ready, WriteFile, At
    <3>2. \A f \in Files : \E v \in Applied : versions[v].content[f] = disk'[f]
      BY <3>1 DEF IInv, FilesApplied
    <3> QED BY <3>2, <1>1, <1>2 DEF IInv, FilesApplied
  <2> QED BY <2>1, <1>1, <1>2 DEF IInv, FilesApplied
<1>7. WriterHolds'
  <2>1. ASSUME NEW b \in Admins, b # a, Writing(b), Serialised
        PROVE  txn' = b
    <3>1. txn = b
      BY <2>1 DEF IInv, WriterHolds
    <3>2. ~Free(a)
      BY <2>1, <3>1, NobodyAssumption DEF Free
    <3> QED BY <3>1, <3>2
            DEF Open, SaveCheck, ApproveCheck, RejectCheck, WriteFile, Forget, ClearModules
  <2> QED BY <2>1, <1>4, <1>5 DEF WriterHolds, Writing
<1>8. ReadyToWrite'
  <2>1. \A b \in Admins : Ready(admin'[b])
    BY <1>4, <1>5 DEF IInv, ReadyToWrite
  <2> QED BY <2>1, <1>1, <1>2 DEF ReadyToWrite, Ready
<1> QED BY <1>2, <1>3, <1>6, <1>7, <1>8 DEF IInv

\* Nobody else writes while a does.
LEMMA WritesAlone ==
    ASSUME OneWriter, IInv, NEW a \in Admins, Writing(a)
    PROVE  \A b \in Admins : b # a => ~Writing(b)
BY DEF OneWriter, IInv, WriterHolds, Writing

\* What every write of the table leaves to be shown: nobody else was about to
\* write, and what was applied is as it was.
LEMMA WriteInv ==
    ASSUME OneWriter, IInv, AnyInv', NEW a \in Admins, Writing(a),
           UNCHANGED <<disk, allow>>,
           NEW r \in Request, Become(a, r), r.pc \in {"idle", "disk"},
           r.pc = "disk" => r.vid \in Applied',
           \A v \in Applied : v \in Applied' /\ versions'[v] = versions[v],
           MadeOnApplied', OneLine', Reviewed'
    PROVE  IInv'
<1>1. /\ admin'[a] = r
      /\ \A b \in Admins : b # a => admin'[b] = admin[b]
  BY Typed, RequestGoesOn DEF IInv, AnyInv
<1>2. ASSUME NEW b \in Admins
      PROVE  Ready(admin[b])' /\ admin'[b].pc \notin {"insert", "approve", "reject"}
  <2>1. CASE b = a
    BY <1>1, <2>1 DEF Ready
  <2>2. CASE b # a
    <3>1. admin[b].pc \notin {"insert", "approve", "reject"}
      BY <2>2, WritesAlone DEF Writing
    <3>2. Ready(admin[b])
      BY DEF IInv, ReadyToWrite
    <3> QED BY <1>1, <2>2, <3>1, <3>2 DEF Ready
  <2> QED BY <2>1, <2>2
<1>3. WriterHolds' /\ ReadyToWrite'
  BY <1>2 DEF WriterHolds, Writing, ReadyToWrite
<1>4. FilesApplied'
  BY DEF IInv, FilesApplied
<1> QED BY <1>3, <1>4 DEF IInv

LEMMA InsertInv ==
    ASSUME OneWriter, IInv, NEW a \in Admins, SaveInsert(a)
    PROVE  IInv'
<1> DEFINE n == Len(versions) + 1
           row == versions'[n]
<1>1. /\ Writing(a) /\ n \in 1 .. MaxVersions /\ DOMAIN versions' = 1 .. n
      /\ \A v \in DOMAIN versions : versions'[v] = versions[v]
      /\ row \in Version /\ row.status \in {"draft", "applied"}
      /\ row.based = admin[a].based
      /\ row.status = "applied" =>
            row.content[Schema] = versions[row.based].content[Schema] \/ row.secure
      /\ \E r \in Request : /\ Become(a, r) /\ r.vid = n /\ r.at = 1
                            /\ r.pc = IF row.status = "draft" THEN "idle" ELSE "disk"
  BY InsertEffect DEF IInv
<1>2. /\ Len(versions) \in Nat /\ DOMAIN versions = 1 .. Len(versions)
      /\ Applied \subseteq DOMAIN versions /\ \A v \in DOMAIN versions : versions[v] \in Version
  BY TableFacts DEF IInv, AnyInv
<1>3. IsActive(row.based)
  BY <1>1 DEF IInv, ReadyToWrite, Ready, SaveInsert, At
<1> HIDE DEF row
<1>4. Applied' = IF row.status = "applied" THEN Applied \cup {n} ELSE Applied
  BY <1>1, <1>2 DEF Applied, row
<1>5. \A v \in Applied : v \in Applied' /\ versions'[v] = versions[v]
  BY <1>1, <1>2, <1>4
<1>6. /\ row.based \in Applied /\ (\A w \in Applied : w <= row.based)
      /\ row.based \in DOMAIN versions
  BY <1>2, <1>3 DEF IsActive
<1>7. MadeOnApplied'
  BY <1>1, <1>2, <1>4, <1>6 DEF IInv, MadeOnApplied, row
<1>8. OneLine'
  <2> SUFFICES ASSUME NEW v \in Applied', NEW w \in Applied', w < v
               PROVE  w <= versions'[v].based
    BY DEF OneLine
  <2>1. CASE v \in Applied
    BY <2>1, <1>1, <1>2, <1>4, <1>5 DEF IInv, OneLine
  <2>2. CASE v = n
    BY <2>2, <1>1, <1>2, <1>4, <1>6 DEF row
  <2> QED BY <2>1, <2>2, <1>4
<1>9. Reviewed'
  <2> SUFFICES ASSUME NEW v \in Applied', v > 1,
                      versions'[v].content[Schema] # versions'[versions'[v].based].content[Schema]
               PROVE  versions'[v].secure
    BY DEF Reviewed
  <2>1. CASE v \in Applied
    BY <2>1, <1>1, <1>2, <1>5 DEF IInv, Reviewed, MadeOnApplied
  <2>2. CASE v = n /\ row.status = "applied"
    BY <2>2, <1>1, <1>6 DEF row
  <2> QED BY <2>1, <2>2, <1>2, <1>4
<1>10. PICK r \in Request : /\ Become(a, r) /\ r.pc \in {"idle", "disk"}
                            /\ r.pc = "disk" => r.vid \in Applied'
  BY <1>1, <1>4
<1>11. AnyInv' /\ UNCHANGED <<disk, allow>>
  BY InsertAny DEF IInv, SaveInsert
<1> QED BY <1>1, <1>5, <1>7, <1>8, <1>9, <1>10, <1>11, WriteInv

LEMMA DecideInv ==
    ASSUME OneWriter, IInv, NEW a \in Admins, ApproveWrite(a) \/ RejectWrite(a)
    PROVE  IInv'
<1> DEFINE u == admin[a].vid
<1>1. /\ Writing(a) /\ u \in DOMAIN versions /\ DOMAIN versions' = DOMAIN versions
      /\ \A v \in DOMAIN versions :
            /\ v # u => versions'[v] = versions[v]
            /\ versions'[v].based = versions[v].based
            /\ versions'[v].content = versions[v].content
      /\ \/ /\ admin[a].pc = "approve"
            /\ versions'[u].status = "applied" /\ versions'[u].secure
            /\ Applied' = Applied \cup {u}
            /\ \E r \in Request : Become(a, r) /\ r.pc = "disk" /\ r.vid = u
         \/ /\ admin[a].pc = "reject" /\ Applied' = Applied \ {u} /\ Become(a, IdleAdmin)
  BY DecideEffect DEF IInv
<1>2. Ready(admin[a]) /\ versions[u].status = "draft"
  BY <1>1 DEF IInv, ReadyToWrite, Ready
<1>3. /\ Len(versions) \in Nat /\ DOMAIN versions = 1 .. Len(versions)
      /\ Applied \subseteq DOMAIN versions /\ u \notin Applied /\ u # 1
  BY <1>1, <1>2, TableFacts DEF IInv, AnyInv, Applied
<1>4. \/ IsActive(versions[u].based) /\ Applied' = Applied \cup {u} /\ versions'[u].secure
      \/ Applied' = Applied
  BY <1>1, <1>2, <1>3 DEF Ready
<1>5. \A v \in Applied : v \in Applied' /\ versions'[v] = versions[v]
  BY <1>1, <1>3, <1>4
<1>6. PICK r \in Request : /\ Become(a, r) /\ r.pc \in {"idle", "disk"}
                           /\ r.pc = "disk" => r.vid \in Applied'
  BY <1>1, Typed DEF IInv, AnyInv, IdleAdmin
<1> HIDE DEF u
<1>7. MadeOnApplied'
  BY <1>1, <1>3, <1>5 DEF IInv, MadeOnApplied
<1>8. OneLine'
  <2> SUFFICES ASSUME NEW v \in Applied', NEW w \in Applied', w < v
               PROVE  w <= versions'[v].based
    BY DEF OneLine
  <2>1. CASE v = u
    BY <2>1, <1>1, <1>3, <1>4 DEF IsActive
  <2>2. CASE w = u /\ v \in Applied
    <3>1. v <= versions[u].based /\ versions[u].based < u
      BY <2>2, <1>1, <1>3, <1>4, MaxVersionsAssumption DEF IsActive, IInv, MadeOnApplied
    <3>2. u \in Nat /\ v \in Nat /\ versions[u].based \in Nat
      BY <1>1, <1>3, <1>4, <2>2 DEF IsActive
    <3> QED BY <2>2, <3>1, <3>2
  <2>3. CASE v \in Applied /\ w \in Applied
    BY <2>3, <1>5 DEF IInv, OneLine
  <2> QED BY <2>1, <2>2, <2>3, <1>4
<1>9. Reviewed'
  BY <1>1, <1>3, <1>4, <1>5 DEF IInv, Reviewed, MadeOnApplied
<1>10. AnyInv' /\ UNCHANGED <<disk, allow>>
  BY DecideAny DEF IInv, ApproveWrite, RejectWrite
<1> QED BY <1>1, <1>5, <1>6, <1>7, <1>8, <1>9, <1>10, WriteInv

\* A restart keeps the table and the files, and reads the allowlist from them.
LEMMA RestartInv ==
    ASSUME IInv, Restart
    PROVE  IInv'
<1>1. UNCHANGED <<versions, disk>>
  BY DEF Restart
<1>2. MadeOnApplied' /\ OneLine' /\ Reviewed' /\ Applied' = Applied
  BY <1>1, TableUnchanged DEF IInv
<1>3. WriterHolds' /\ ReadyToWrite'
  BY DEF Restart, WriterHolds, Writing, ReadyToWrite, Ready, IdleAdmin
<1>4. FilesApplied'
  BY <1>1, <1>2, FilesFacts DEF IInv, FilesApplied, Restart
<1>5. AnyInv'
  BY RestartAny DEF IInv
<1> QED BY <1>2, <1>3, <1>4, <1>5 DEF IInv

LEMMA NextInv == OneWriter /\ IInv /\ [Next]_vars => IInv'
<1> SUFFICES ASSUME OneWriter, IInv, [Next]_vars PROVE IInv'
  OBVIOUS
<1>1. CASE UNCHANGED vars
  <2>1. MadeOnApplied' /\ OneLine' /\ Reviewed' /\ WriterHolds'
    BY <1>1 DEF vars, IInv, MadeOnApplied, OneLine, Reviewed, WriterHolds, Writing, Applied
  <2>2. ReadyToWrite' /\ FilesApplied' /\ AnyInv'
    BY <1>1, NextAny DEF vars, IInv, ReadyToWrite, Ready, IsActive, FilesApplied, Applied
  <2> QED BY <2>1, <2>2 DEF IInv
<1>2. ASSUME NEW a \in Admins, AdminStep(a) PROVE IInv'
  BY <1>2, LookInv, InsertInv, DecideInv DEF AdminStep
<1>3. CASE \/ \E q \in Askers : AskerStep(q)
           \/ ExpireId
  BY <1>3, AskerInv
<1>4. CASE Restart
  BY <1>4, RestartInv
<1> QED BY <1>1, <1>2, <1>3, <1>4 DEF Next

LEMMA InvHolds == Exclusive => (Spec => []IInv)
<1> SUFFICES ASSUME Exclusive PROVE Spec => []IInv
  OBVIOUS
<1>1. OneWriter
  BY DEF Exclusive, OneWriter
<1>2. IInv /\ [Next]_vars => IInv'
  BY <1>1, NextInv
<1> QED BY InitInv, <1>2, PTL DEF Spec

-----------------------------------------------------------------------------
(* What follows from it.                                                   *)

LEMMA InvImplies == IInv => NoLostUpdate /\ AllowlistKept
<1> SUFFICES ASSUME IInv PROVE NoLostUpdate /\ AllowlistKept
  OBVIOUS
<1>1. ASSUME NEW v \in Applied, Before(v) # {}
      PROVE  v > 1 /\ Previous(v) = versions[v].based
  <2>1. v > 1
    BY <1>1, TableFacts DEF IInv, AnyInv, Before
  <2> QED BY <1>1, <2>1, PreviousIsBase DEF IInv, AnyInv
<1>2. NoLostUpdate
  BY <1>1 DEF NoLostUpdate
<1>3. AllowlistGoverned
  BY <1>1 DEF AllowlistGoverned, IInv, Reviewed
<1>4. AllowlistApplied
  BY DEF IInv, FilesApplied, AllowlistApplied
<1> QED BY <1>2, <1>3, <1>4 DEF AllowlistKept

\* propose_or_apply and approve_draft never drop a change: an applied version was
\* made on top of the one it replaced.
THEOREM NothingLost == Exclusive => (Spec => []NoLostUpdate)
<1> SUFFICES ASSUME Exclusive PROVE Spec => []NoLostUpdate
  OBVIOUS
<1> QED BY InvHolds, InvImplies, PTL

\* The guard's allowlist, in the table and in force after any restart, is the
\* security admin's.
THEOREM AllowlistOfSecurity == Exclusive => (Spec => []AllowlistKept)
<1> SUFFICES ASSUME Exclusive PROVE Spec => []AllowlistKept
  OBVIOUS
<1> QED BY InvHolds, InvImplies, PTL

-----------------------------------------------------------------------------
(* The table implements the line of versions.                              *)

LEMMA ActiveIs ==
    ASSUME TypeOK, NEW b, IsActive(b)
    PROVE  Active = b
BY ActiveIsActive DEF IsActive

LEMMA ActiveBecomes ==
    ASSUME NEW b, b \in Applied', \A w \in Applied' : w <= b, Applied' \subseteq Nat
    PROVE  Active' = b
<1>1. Active' \in Applied' /\ \A w \in Applied' : w <= Active'
  BY DEF Active
<1>2. Active' <= b /\ b <= Active' /\ Active' \in Nat /\ b \in Nat
  BY <1>1
<1> QED BY <1>2

LEMMA LineStarts == Init => Line!Init
<1> SUFFICES ASSUME Init PROVE Line!Init
  OBVIOUS
<1> DEFINE content == [f \in Files |-> 1]
<1>1. IInv
  BY InitInv
<1>2. DOMAIN versions = {1} /\ versions[1].status = "applied" /\ versions[1].based = 0
      /\ versions[1].content = content
  BY DEF Init
<1>3. Applied = {1}
  BY <1>2 DEF Applied
<1>4. Active = 1
  BY <1>1, <1>3, ActiveIs DEF IInv, AnyInv, IsActive
<1>5. content \in [Files -> Texts] /\ 1 \in VersionIds
  BY MaxVersionsAssumption DEF Texts, VersionIds
<1>6. /\ With("applied") = {[id |-> 1, on |-> 0, content |-> content]}
      /\ With("draft") = {} /\ With("rejected") = {}
  BY <1>2 DEF With
<1> QED BY <1>4, <1>5, <1>6 DEF Line!Init

\* A save extends the line or waits beside it.
LEMMA InsertMaps ==
    ASSUME IInv, NEW a \in Admins, SaveInsert(a)
    PROVE  Line!Next
<1> DEFINE n == Len(versions) + 1
           row == versions'[n]
           e == [id |-> n, on |-> Active, content |-> row.content]
<1>1. /\ n \in 1 .. MaxVersions /\ DOMAIN versions' = 1 .. n
      /\ \A v \in DOMAIN versions : versions'[v] = versions[v]
      /\ row \in Version /\ row.status \in {"draft", "applied"}
      /\ row.based = Active
  <2>1. admin[a].based = Active
    BY ActiveIs DEF IInv, AnyInv, ReadyToWrite, Ready, SaveInsert, At
  <2> QED BY <2>1, InsertEffect DEF IInv
<1>2. /\ Len(versions) \in Nat /\ DOMAIN versions = 1 .. Len(versions)
      /\ Applied \subseteq DOMAIN versions
  BY TableFacts DEF IInv, AnyInv
<1> HIDE DEF row, n
<1>3. DOMAIN versions' = DOMAIN versions \cup {n} /\ n \notin DOMAIN versions
  BY <1>1, <1>2 DEF n
<1>4. \A status \in {"applied", "draft", "rejected"} :
         With(status)' = IF row.status = status THEN With(status) \cup {e} ELSE With(status)
  <2> SUFFICES ASSUME NEW status \in {"applied", "draft", "rejected"}
               PROVE  With(status)' = IF row.status = status THEN With(status) \cup {e}
                                      ELSE With(status)
    OBVIOUS
  <2>1. {w \in DOMAIN versions' : versions'[w].status = status}
          = {w \in DOMAIN versions : versions[w].status = status}
              \cup (IF row.status = status THEN {n} ELSE {})
    BY <1>1, <1>3 DEF row
  <2> QED BY <1>1, <1>3, <2>1 DEF With, row
<1>5. n \in Line!New
  <2>1. \A x \in With("applied") \cup With("draft") \cup With("rejected") : x.id # n
    BY <1>3 DEF With
  <2> QED BY <1>1, <2>1 DEF Line!New, VersionIds
<1>6. row.content \in [Files -> Texts]
  BY <1>1 DEF Version
<1>7. Line!Made(n, row.content) = e
  BY DEF Line!Made
<1>8. CASE row.status = "applied"
  <2>1. Applied' = Applied \cup {n}
    BY <1>1, <1>3, <1>8 DEF Applied, row
  <2>2. n \in Applied' /\ (\A w \in Applied' : w <= n) /\ Applied' \subseteq Nat
    BY <1>2, <2>1 DEF n
  <2>3. Active' = n
    BY <2>2, ActiveBecomes
  <2>4. Line!Apply(n, row.content)
    BY <1>4, <1>7, <1>8, <2>3 DEF Line!Apply
  <2> QED BY <1>5, <1>6, <2>4 DEF Line!Next
<1>9. CASE row.status = "draft"
  <2>1. Applied' = Applied
    BY <1>1, <1>3, <1>9 DEF Applied, row
  <2>2. Active' = Active
    BY <2>1 DEF Active
  <2>3. Line!Propose(n, row.content)
    BY <1>4, <1>7, <1>9, <2>2 DEF Line!Propose
  <2> QED BY <1>5, <1>6, <2>3 DEF Line!Next
<1> QED BY <1>1, <1>8, <1>9

\* An approval moves a draft onto the line, a rejection away from it.
LEMMA DecideMaps ==
    ASSUME IInv, NEW a \in Admins, ApproveWrite(a) \/ RejectWrite(a)
    PROVE  Line!Next
<1> DEFINE u == admin[a].vid
           e == [id |-> u, on |-> versions[u].based, content |-> versions[u].content]
<1>1. /\ u \in DOMAIN versions /\ versions[u].status = "draft"
      /\ DOMAIN versions' = DOMAIN versions
      /\ \A v \in DOMAIN versions :
            /\ v # u => versions'[v] = versions[v]
            /\ versions'[v].based = versions[v].based
            /\ versions'[v].content = versions[v].content
      /\ \/ /\ IsActive(versions[u].based)
            /\ versions'[u].status = "applied" /\ Applied' = Applied \cup {u}
         \/ versions'[u].status = "rejected" /\ Applied' = Applied
  <2>1. /\ Ready(admin[a])
        /\ u \in DOMAIN versions /\ DOMAIN versions' = DOMAIN versions
        /\ \A v \in DOMAIN versions :
              /\ v # u => versions'[v] = versions[v]
              /\ versions'[v].based = versions[v].based
              /\ versions'[v].content = versions[v].content
        /\ \/ /\ admin[a].pc = "approve"
              /\ versions'[u].status = "applied" /\ Applied' = Applied \cup {u}
           \/ /\ admin[a].pc = "reject"
              /\ versions'[u].status = "rejected" /\ Applied' = Applied \ {u}
    BY DecideEffect DEF IInv, ReadyToWrite
  <2>2. versions[u].status = "draft" /\ u \notin Applied
    BY <2>1 DEF Ready, Applied
  <2> QED BY <2>1, <2>2 DEF Ready
<1> HIDE DEF u
<1>2. e \in With("draft")
  BY <1>1 DEF With
<1>3. \A x \in With("draft") : x.id = u => x = e
  BY DEF With
<1>4. \A status \in {"applied", "rejected"} :
         With(status)' = IF versions'[u].status = status THEN With(status) \cup {e}
                         ELSE With(status)
  <2> SUFFICES ASSUME NEW status \in {"applied", "rejected"}
               PROVE  With(status)' = IF versions'[u].status = status THEN With(status) \cup {e}
                                      ELSE With(status)
    OBVIOUS
  <2>1. {w \in DOMAIN versions' : versions'[w].status = status}
          = {w \in DOMAIN versions : versions[w].status = status}
              \cup (IF versions'[u].status = status THEN {u} ELSE {})
    BY <1>1
  <2> QED BY <1>1, <2>1 DEF With
<1>5. With("draft")' = With("draft") \ {e}
  <2>1. {w \in DOMAIN versions' : versions'[w].status = "draft"}
          = {w \in DOMAIN versions : versions[w].status = "draft"} \ {u}
    BY <1>1
  <2> QED BY <1>1, <2>1 DEF With
<1>6. CASE IsActive(versions[u].based) /\ versions'[u].status = "applied"
           /\ Applied' = Applied \cup {u}
  <2>1. Active = versions[u].based
    BY <1>6, ActiveIs DEF IInv, AnyInv
  <2>2. u \in Applied' /\ (\A w \in Applied' : w <= u) /\ Applied' \subseteq Nat
    <3>1. /\ versions[u].based < u \/ u = 1
          /\ 1 \in Applied /\ Applied \subseteq DOMAIN versions
          /\ DOMAIN versions = 1 .. Len(versions) /\ Len(versions) \in Nat
      BY <1>1, TableFacts DEF IInv, AnyInv, MadeOnApplied
    <3>2. u # 1
      BY <1>1, <3>1 DEF Applied
    <3> QED BY <1>1, <1>6, <3>1, <3>2 DEF IsActive
  <2>3. Active' = u
    BY <2>2, ActiveBecomes
  <2>4. Line!Approve(e)
    BY <1>4, <1>5, <1>6, <2>1, <2>3 DEF Line!Approve
  <2> QED BY <1>2, <2>4 DEF Line!Next
<1>7. CASE versions'[u].status = "rejected" /\ Applied' = Applied
  <2>1. Active' = Active
    BY <1>7 DEF Active
  <2>2. Line!Reject(e)
    BY <1>4, <1>5, <1>7, <2>1 DEF Line!Reject
  <2> QED BY <1>2, <2>2 DEF Line!Next
<1> QED BY <1>1, <1>6, <1>7

\* What leaves the table alone leaves the line alone.
LEMMA OthersStutter ==
    ASSUME UNCHANGED versions
    PROVE  UNCHANGED Line!history
BY DEF Line!history, Active, Applied, With

LEMMA StepMaps ==
    IInv /\ [Next]_vars => [Line!Next]_(Line!history)
<1> SUFFICES ASSUME IInv, [Next]_vars
             PROVE  Line!Next \/ UNCHANGED versions
  BY OthersStutter
<1>1. CASE UNCHANGED vars
  BY <1>1 DEF vars
<1>2. ASSUME NEW a \in Admins, AdminStep(a) PROVE Line!Next \/ UNCHANGED versions
  <2>1. CASE SaveInsert(a)
    BY <2>1, InsertMaps
  <2>2. CASE ApproveWrite(a) \/ RejectWrite(a)
    BY <2>2, DecideMaps
  <2> QED BY <1>2, <2>1, <2>2 DEF AdminStep, Open, SaveCheck, ApproveCheck, RejectCheck,
                                 WriteFile, Forget, ClearModules
<1>3. ASSUME NEW q \in Askers, AskerStep(q) PROVE UNCHANGED versions
  BY <1>3 DEF AskerStep, ReadId, StoreId, ReadKnowledge, LoadKnowledge, Fetch, Answer
<1>4. CASE ExpireId \/ Restart
  BY <1>4 DEF ExpireId, Restart
<1> QED BY <1>1, <1>2, <1>3, <1>4 DEF Next

\* propose_or_apply, approve_draft and reject_draft behave as one line of versions:
\* every statement of every admin, with the process stopping between any two, is a
\* step of the line or none of its business.
THEOREM OneLineOfVersions == Exclusive => (Spec => ImplementsLine)
<1> SUFFICES ASSUME Exclusive PROVE Spec => ImplementsLine
  OBVIOUS
<1>1. Spec => []IInv
  BY InvHolds
<1>2. IInv /\ [Next]_vars => [Line!Next]_(Line!history)
  BY StepMaps
<1> QED BY LineStarts, <1>1, <1>2, PTL DEF Spec, ImplementsLine, Line!Spec

-----------------------------------------------------------------------------
(* The files, however the requests that write them overlap.                *)

\* Whoever writes files is the only one, and writes those of the active version;
\* those before the one that comes next are written.
Writes(a) ==
    /\ admin[a].vid = Active
    /\ \A b \in Admins : At(b, "disk") => b = a
    /\ \A i \in DOMAIN FileOrder :
          i < admin[a].at => disk[FileOrder[i]] = versions[Active].content[FileOrder[i]]

\* What is known of the files while nothing has upset them.
FilesInv ==
    ~upset => /\ \A a \in Admins : At(a, "disk") => Writes(a)
              /\ (\A a \in Admins : ~At(a, "disk")) => disk = versions[Active].content

LEMMA FilesStart == Init /\ upset = FALSE => FilesInv
<1> SUFFICES ASSUME Init, upset = FALSE PROVE FilesInv
  OBVIOUS
<1>1. Active = 1
  <2>1. AnyInv /\ Applied = {1}
    BY InitAny DEF Init, Applied
  <2> QED BY <2>1, ActiveFacts DEF IsActive
<1> QED BY <1>1 DEF Init, FilesInv, At, IdleAdmin

\* Without a version that is applied, only what was upset before stays so.
LEMMA StillRight ==
    ASSUME Remember, ~upset', \A a \in Admins : ~Applies(a)
    PROVE  ~upset /\ Active' = Active /\ ~Stops
BY DEF Remember

\* Nobody begins to write files, and nobody was at it.
LEMMA NobodyWrites ==
    ASSUME FilesInv, ~upset, Active' = Active, versions'[Active].content = versions[Active].content,
           disk' = disk, \A a \in Admins : At(a, "disk")' <=> At(a, "disk"),
           \A a \in Admins : At(a, "disk") => admin'[a] = admin[a]
    PROVE  FilesInv'
BY DEF FilesInv, Writes, At

\* Steps of a request that write neither the table nor a file.
LEMMA LooksAtFiles ==
    ASSUME AnyInv, FilesInv, Remember, NEW a \in Admins,
           \/ Open(a) \/ SaveCheck(a) \/ ApproveCheck(a) \/ RejectCheck(a)
           \/ Forget(a) \/ ClearModules(a)
    PROVE  FilesInv'
<1>1. UNCHANGED <<versions, disk>> /\ ~At(a, "disk") /\ ~WriteFile(a)
  BY DEF Open, SaveCheck, ApproveCheck, RejectCheck, Forget, ClearModules, WriteFile, At
<1>2. PICK r \in Request : Become(a, r) /\ (r.pc = "disk" => WriteFile(a))
  BY RequestStays
<1>3. admin'[a] = r /\ \A b \in Admins : b # a => admin'[b] = admin[b]
  BY <1>2, Typed, RequestGoesOn DEF AnyInv
<1>4. \A b \in Admins : /\ At(b, "disk")' <=> At(b, "disk")
                        /\ At(b, "disk") => admin'[b] = admin[b]
  BY <1>1, <1>2, <1>3 DEF At
<1>5. CASE ~upset'
  <2>1. ~upset /\ Active' = Active
    BY <1>4, <1>5, StillRight DEF Applies
  <2> QED BY <1>1, <1>4, <2>1, NobodyWrites
<1> QED BY <1>5 DEF FilesInv

\* A version is applied: its files are written next, by nobody else.
LEMMA AppliedIsWritten ==
    ASSUME AnyInv, FilesInv, Remember, ~upset', NEW a \in Admins, ~At(a, "disk"),
           NEW r \in Request, Become(a, r), r.pc = "disk", r.at = 1
    PROVE  FilesInv'
<1>1. admin'[a] = r /\ \A b \in Admins : b # a => admin'[b] = admin[b]
  BY Typed, RequestGoesOn DEF AnyInv
<1>2. Applies(a)
  BY <1>1 DEF Applies, At
<1>3. ~Upsets(a)
  BY <1>2 DEF Remember
<1>4. admin'[a].vid = Active' /\ \A b \in Admins : At(b, "disk")' => b = a
  BY <1>1, <1>3 DEF Upsets, At
<1>5. \A i \in DOMAIN FileOrder : ~(i < 1)
  BY FilesFacts
<1>6. \A b \in Admins : At(b, "disk")' => Writes(b)'
  BY <1>1, <1>4, <1>5 DEF Writes
<1>7. At(a, "disk")'
  BY <1>1 DEF At
<1> QED BY <1>6, <1>7 DEF FilesInv

\* A save that is applied has its files written; one that waits for review, and a
\* draft that is rejected, leave the active version and the files as they are.
LEMMA WritesTheTable ==
    ASSUME AnyInv, FilesInv, Remember, NEW a \in Admins,
           SaveInsert(a) \/ ApproveWrite(a) \/ RejectWrite(a)
    PROVE  FilesInv'
<1>1. disk' = disk /\ ~At(a, "disk")
  BY DEF SaveInsert, ApproveWrite, RejectWrite, At
<1>2. /\ Active \in DOMAIN versions /\ Active \in Applied
      /\ DOMAIN versions = 1 .. Len(versions) /\ Len(versions) \in Nat
      /\ IdleAdmin \in Request /\ IdleAdmin.pc = "idle"
  BY ActiveFacts, TableFacts, Typed DEF AnyInv, IsActive, IdleAdmin
<1>3. \/ \E r \in Request : Become(a, r) /\ r.pc = "disk" /\ r.at = 1
      \/ /\ \E r \in Request : Become(a, r) /\ r.pc = "idle"
         /\ versions'[Active].content = versions[Active].content
  <2>1. CASE SaveInsert(a)
    BY <1>2, <2>1, InsertEffect
  <2>2. CASE ApproveWrite(a) \/ RejectWrite(a)
    BY <1>2, <2>2, DecideEffect
  <2> QED BY <2>1, <2>2
<1>4. ASSUME ~upset', NEW r \in Request, Become(a, r), r.pc = "idle",
             versions'[Active].content = versions[Active].content
      PROVE  FilesInv'
  <2>1. admin'[a] = r /\ \A b \in Admins : b # a => admin'[b] = admin[b]
    BY <1>4, Typed, RequestGoesOn DEF AnyInv
  <2>2. \A b \in Admins : /\ At(b, "disk")' <=> At(b, "disk")
                          /\ At(b, "disk") => admin'[b] = admin[b]
    BY <1>1, <1>4, <2>1 DEF At
  <2>3. ~upset /\ Active' = Active
    BY <1>4, <2>2, StillRight DEF Applies
  <2> QED BY <1>1, <1>4, <2>2, <2>3, NobodyWrites
<1>5. ~upset' => FilesInv'
  BY <1>1, <1>3, <1>4, AppliedIsWritten
<1> QED BY <1>5 DEF FilesInv

\* One file more is written, and with the last one the bundle is.
LEMMA WritesAFile ==
    ASSUME AnyInv, FilesInv, Remember, NEW a \in Admins, WriteFile(a)
    PROVE  FilesInv'
<1> SUFFICES ASSUME ~upset' PROVE FilesInv'
  BY DEF FilesInv
<1> DEFINE old == admin[a]
           f == FileOrder[old.at]
<1>1. old \in Request /\ old.pc = "disk" /\ old.at \in DOMAIN FileOrder /\ versions' = versions
  BY Typed DEF AnyInv, WriteFile, At, Request
<1>2. /\ DOMAIN FileOrder = 1 .. Len(FileOrder) /\ Len(FileOrder) \in Nat
      /\ \A i \in DOMAIN FileOrder : FileOrder[i] \in Files
  BY FilesFacts
<1>3. PICK r \in Request : /\ Become(a, r) /\ r.vid = old.vid
                           /\ IF WritesDone(old.at) THEN r.pc = "forget"
                              ELSE r.pc = "disk" /\ r.at = old.at + 1
  <2>1. CASE WritesDone(old.at)
    <3>1. PICK r : r = [old EXCEPT !.pc = "forget"]
      OBVIOUS
    <3>2. r \in Request /\ r.vid = old.vid /\ r.pc = "forget"
      BY <1>1, <3>1 DEF Request
    <3> QED BY <2>1, <3>1, <3>2 DEF WriteFile
  <2>2. CASE ~WritesDone(old.at)
    <3>1. old.at + 1 \in DOMAIN FileOrder
      BY <1>1, <1>2, <2>2 DEF WritesDone
    <3>2. PICK r : r = [old EXCEPT !.at = old.at + 1]
      OBVIOUS
    <3>3. r \in Request /\ r.vid = old.vid /\ r.pc = "disk" /\ r.at = old.at + 1
      BY <1>1, <3>1, <3>2 DEF Request
    <3> QED BY <2>2, <3>2, <3>3 DEF WriteFile
  <2> QED BY <2>1, <2>2
<1>4. admin'[a] = r /\ \A b \in Admins : b # a => admin'[b] = admin[b]
  BY <1>3, Typed, RequestGoesOn DEF AnyInv
<1>5. ~upset /\ Active' = Active
  BY <1>1, <1>4, StillRight DEF Applies, At
<1>6. /\ old.vid = Active /\ \A b \in Admins : At(b, "disk") => b = a
      /\ \A i \in DOMAIN FileOrder :
            i < old.at => disk[FileOrder[i]] = versions[Active].content[FileOrder[i]]
  BY <1>1, <1>5 DEF FilesInv, Writes, At
<1>7. PICK content : content = versions[Active].content
  OBVIOUS
<1>8. content \in [Files -> Texts] /\ disk \in [Files -> Texts]
  BY <1>7, TableFacts, ActiveFacts, Typed DEF AnyInv, Version
<1>9. disk' = [disk EXCEPT ![f] = content[f]]
  BY <1>6, <1>7 DEF WriteFile
<1>10. \A i \in DOMAIN FileOrder : i <= old.at => disk'[FileOrder[i]] = content[FileOrder[i]]
  <2> SUFFICES ASSUME NEW i \in DOMAIN FileOrder, i <= old.at
               PROVE  disk'[FileOrder[i]] = content[FileOrder[i]]
    OBVIOUS
  <2>1. CASE FileOrder[i] = f
    BY <1>2, <1>8, <1>9, <2>1
  <2>2. CASE FileOrder[i] # f
    <3>1. i < old.at
      BY <1>1, <1>2, <2>2
    <3> QED BY <1>2, <1>6, <1>7, <1>8, <1>9, <2>2, <3>1
  <2> QED BY <2>1, <2>2
<1>11. CASE WritesDone(old.at)
  <2>1. \A i \in DOMAIN FileOrder : i <= old.at
    BY <1>1, <1>2, <1>11 DEF WritesDone
  <2>2. \A g \in Files : disk'[g] = content[g]
    BY <1>10, <2>1 DEF Files
  <2>3. disk' = content
    BY <1>1, <1>2, <1>8, <1>9, <2>2
  <2>4. \A b \in Admins : ~At(b, "disk")'
    BY <1>3, <1>4, <1>6, <1>11 DEF At
  <2> QED BY <1>1, <1>5, <1>7, <2>3, <2>4 DEF FilesInv
<1>12. CASE ~WritesDone(old.at)
  <2>1. \A i \in DOMAIN FileOrder : i < old.at + 1 => i <= old.at
    BY <1>1, <1>2
  <2>2. \A b \in Admins : At(b, "disk")' => b = a
    BY <1>4, <1>6 DEF At
  <2>3. admin'[a].vid = Active' /\ admin'[a].at = old.at + 1 /\ At(a, "disk")'
    BY <1>3, <1>4, <1>5, <1>6, <1>12 DEF At
  <2>4. \A i \in DOMAIN FileOrder :
           i < old.at + 1 => disk'[FileOrder[i]] = versions'[Active'].content[FileOrder[i]]
    BY <1>1, <1>5, <1>7, <1>10, <2>1
  <2>5. Writes(a)'
    BY <2>2, <2>3, <2>4 DEF Writes
  <2> QED BY <2>2, <2>3, <2>5 DEF FilesInv
<1> QED BY <1>11, <1>12

LEMMA FilesStep ==
    ASSUME AnyInv, FilesInv, Next, Remember
    PROVE  FilesInv'
<1>1. ASSUME NEW a \in Admins, AdminStep(a) PROVE FilesInv'
  BY <1>1, LooksAtFiles, WritesTheTable, WritesAFile DEF AdminStep
<1>2. CASE (\E q \in Askers : AskerStep(q)) \/ ExpireId
  <2>1. UNCHANGED <<versions, disk, admin>>
    BY <1>2 DEF AskerStep, ReadId, StoreId, ReadKnowledge, LoadKnowledge, Fetch, Answer, ExpireId
  <2>2. Active' = Active /\ \A a \in Admins : ~Applies(a)
    BY <2>1 DEF Active, Applied, Applies, At
  <2>3. ~upset' => FilesInv'
    BY <2>1, <2>2, StillRight, NobodyWrites DEF At
  <2> QED BY <2>3 DEF FilesInv
<1>3. CASE Restart
  <2>1. UNCHANGED <<versions, disk>> /\ \A a \in Admins : At(a, "idle")' /\ ~At(a, "disk")'
    BY <1>3 DEF Restart, At, IdleAdmin
  <2>2. \A a \in Admins : ~Applies(a)
    BY <2>1 DEF Applies
  <2>3. ASSUME ~upset' PROVE FilesInv'
    <3>1. ~upset /\ Active' = Active /\ ~Stops
      BY <2>2, <2>3, StillRight
    <3>2. \A a \in Admins : ~At(a, "disk")
      BY <2>1, <3>1 DEF Stops
    <3> QED BY <2>1, <3>1, <3>2, NobodyWrites
  <2> QED BY <2>3 DEF FilesInv
<1> QED BY <1>1, <1>2, <1>3 DEF Next

\* On any engine, with any number of admins whose statements overlap in any way and
\* the process stopping anywhere: the files of project_config_dir are those of the
\* active version whenever nobody is writing them, but for what a request that wrote
\* at the same time, was overtaken, or was cut off between two files has left; and
\* the next version that is applied alone puts that right (_write_bundle_to_disk).
THEOREM FilesFollowTheTable == OneSpec => []DiskFollows
<1> DEFINE Inv == AnyInv /\ FilesInv
<1>1. Init /\ part = "one" /\ upset = FALSE => Inv
  BY InitAny, FilesStart
<1>2. Inv /\ [Next /\ Remember /\ UNCHANGED part]_<<part, upset, vars>> => Inv'
  <2> SUFFICES ASSUME Inv, [Next /\ Remember /\ UNCHANGED part]_<<part, upset, vars>>
               PROVE  Inv'
    OBVIOUS
  <2>1. CASE UNCHANGED <<part, upset, vars>>
    <3>1. AnyInv'
      BY <2>1, NextAny
    <3>2. Active' = Active /\ UNCHANGED <<versions, disk, admin, upset>>
      BY <2>1 DEF vars, Active, Applied
    <3>3. FilesInv'
      BY <3>2 DEF FilesInv, Writes, At
    <3> QED BY <3>1, <3>3
  <2>2. CASE Next /\ Remember
    BY <2>2, NextAny, FilesStep
  <2> QED BY <2>1, <2>2
<1>3. Inv => DiskFollows
  BY DEF FilesInv, DiskFollows
<1> QED BY <1>1, <1>2, <1>3, PTL DEF OneSpec
=============================================================================
