--------------------------- MODULE AnswersProofs ---------------------------
(***************************************************************************)
(* Proofs about the machines MCAnswers puts side by side, joins excepted.  *)
(*                                                                         *)
(* QueryCache, for any requests, questions, statements and scopes, any     *)
(* time to live and any size: both stores are described by one predicate,  *)
(* Sound, which every operation on an ordered dict keeps: an entry's rows  *)
(* carry the scope and the version of its key.                             *)
(*                                                                         *)
(* TurnVerdicts, for any turns, analysts, admins and outcomes, whether or  *)
(* not the database gives a number again; and WebClient, for any           *)
(* conversations and any answers, in whatever order they come: see below.  *)
(*                                                                         *)
(* Execution and ModelCall: CallProofs, of the instances MCAnswers makes.  *)
(***************************************************************************)
EXTENDS MCAnswers, FiniteSetTheorems, SequenceTheorems, WellFoundedInduction, TLAPS

\* Rows read for the scope and the version their key names.
Matches(rows, key) == rows.scope = key.scope /\ rows.version = key.prefix

Sound(s, whats) ==
    /\ s \in Seq(EntryType(whats)) /\ Len(s) <= MaxSize
    /\ \A i, j \in DOMAIN s : s[i].key = s[j].key => i = j
    /\ \A i \in DOMAIN s : Matches(s[i].rows, s[i].key)

Fields == {"pc", "what", "scope", "version", "sql", "rows"}

\* What a request holds at each step.
Request(q) ==
    /\ DOMAIN q = Fields
    /\ q.pc \in {"idle", "lookup", "sql", "execute", "set", "reuse"}
    /\ q.version \in Prefixes
    /\ q.pc # "idle" => q.what \in Questions /\ q.scope \in Scopes
    /\ q.pc \in {"execute", "set", "reuse"} => q.sql \in Sqls
    /\ q.pc \in {"set", "reuse"} =>
        q.rows \in Rows /\ q.rows.scope = q.scope /\ q.rows.version = q.version

IInv ==
    /\ now \in 0 .. MaxTime /\ version \in Prefixes
    /\ Sound(store, Questions) /\ Sound(sqlStore, Sqls)
    /\ DOMAIN req = Requests /\ \A r \in Requests : Request(req[r])
    /\ CacheIsolated

-----------------------------------------------------------------------------
(* An ordered dict as a sequence                                           *)

LEMMA SequenceFacts ==
    ASSUME NEW whats, NEW s, Sound(s, whats)
    PROVE  Len(s) \in Nat /\ DOMAIN s = 1 .. Len(s) /\ \A i \in DOMAIN s : s[i] \in EntryType(whats)
BY LenProperties, ElementOfSeq DEF Sound

\* Part of an ordered dict, in its order.
LEMMA SubSeqSound ==
    ASSUME NEW whats, NEW s, Sound(s, whats), NEW m \in 1 .. Len(s) + 1, NEW n \in 0 .. Len(s),
           m <= n + 1
    PROVE  /\ Sound(SubSeq(s, m, n), whats) /\ Len(SubSeq(s, m, n)) = n - m + 1
           /\ \A i \in DOMAIN SubSeq(s, m, n) :
                i + m - 1 \in DOMAIN s /\ SubSeq(s, m, n)[i] = s[i + m - 1]
<1> DEFINE slice == SubSeq(s, m, n)
<1>1. Len(s) \in Nat /\ DOMAIN s = 1 .. Len(s) /\ s \in Seq(EntryType(whats))
    BY SequenceFacts DEF Sound
<1>2. slice \in Seq(EntryType(whats)) /\ Len(slice) = n - m + 1 /\ DOMAIN slice = 1 .. n - m + 1
    <2>1. m \in 1 .. Len(s) + 1 /\ n \in m - 1 .. Len(s)
        BY <1>1
    <2> QED
        BY <1>1, <2>1, SubSeqProperties
<1>3. \A i \in 1 .. n - m + 1 : slice[i] = s[i + m - 1]
    <2>1. \A i \in 1 .. n - m + 1 : slice[i] = s[m + i - 1]
        BY <1>1, SubSeqProperties
    <2>2. \A i \in 1 .. n - m + 1 : m + i - 1 = i + m - 1
        BY <1>1
    <2> QED
        BY <2>1, <2>2
<1> HIDE DEF slice
<1>4. \A i \in 1 .. n - m + 1 : i + m - 1 \in 1 .. Len(s)
    BY <1>1
<1>5. Len(slice) <= MaxSize
    BY <1>1, <1>2, BoundsAssumption DEF Sound
<1>6. \A i, j \in DOMAIN slice : slice[i].key = slice[j].key => i = j
    <2> TAKE i, j \in DOMAIN slice
    <2>1. i + m - 1 = j + m - 1 => i = j
        BY <1>1, <1>2
    <2> QED
        BY <1>1, <1>2, <1>3, <1>4, <2>1, ZenonT(30) DEF Sound
<1>7. \A i \in DOMAIN slice : Matches(slice[i].rows, slice[i].key)
    BY <1>1, <1>2, <1>3, <1>4 DEF Sound
<1> QED
    BY <1>1, <1>2, <1>3, <1>4, <1>5, <1>6, <1>7 DEF Sound, slice

\* A new key goes to the end.
LEMMA AppendSound ==
    ASSUME NEW whats, NEW s, Sound(s, whats), Len(s) < MaxSize,
           NEW e \in EntryType(whats), Matches(e.rows, e.key), ~Has(s, e.key)
    PROVE  Sound(Append(s, e), whats)
<1>1. Len(s) \in Nat /\ DOMAIN s = 1 .. Len(s) /\ s \in Seq(EntryType(whats))
    BY SequenceFacts DEF Sound
<1> DEFINE new == Append(s, e)
<1>2. /\ new \in Seq(EntryType(whats)) /\ Len(new) = Len(s) + 1
      /\ \A i \in 1 .. Len(s) : new[i] = s[i]
      /\ new[Len(s) + 1] = e
    BY <1>1, AppendProperties
<1>3. DOMAIN new = 1 .. Len(s) + 1
    BY <1>1, <1>2, LenProperties
<1> HIDE DEF new
<1>4. Len(new) <= MaxSize
    BY <1>1, <1>2, BoundsAssumption
<1>5. \A i \in 1 .. Len(s) : s[i].key # e.key
    BY <1>1 DEF Has, Positions
<1>6. \A i \in DOMAIN new : i \in 1 .. Len(s) \/ i = Len(s) + 1
    BY <1>1, <1>3
<1>7. \A i, j \in DOMAIN new : new[i].key = new[j].key => i = j
    BY <1>1, <1>2, <1>5, <1>6 DEF Sound
<1>8. \A i \in DOMAIN new : Matches(new[i].rows, new[i].key)
    BY <1>1, <1>2, <1>6 DEF Sound
<1> QED
    BY <1>2, <1>4, <1>7, <1>8 DEF Sound, new

\* Deleting a key.
LEMMA WithoutSound ==
    ASSUME NEW whats, NEW s, Sound(s, whats), NEW key
    PROVE  /\ Sound(Without(s, key), whats) /\ ~Has(Without(s, key), key)
           /\ Has(s, key) => Len(Without(s, key)) < MaxSize
<1>1. Len(s) \in Nat /\ DOMAIN s = 1 .. Len(s) /\ s \in Seq(EntryType(whats))
    BY SequenceFacts DEF Sound
<1>2. CASE ~Has(s, key)
    BY <1>2 DEF Without
<1>3. CASE Has(s, key)
    <2> DEFINE p == Position(s, key)
               a == SubSeq(s, 1, p - 1)
               b == SubSeq(s, p + 1, Len(s))
               new == a \o b
    <2>1. p \in 1 .. Len(s) /\ s[p].key = key
        BY <1>1, <1>3 DEF Has, Position, Positions
    <2>2. Without(s, key) = new
        BY <1>3 DEF Without
    <2> HIDE DEF p
    <2>3. /\ Sound(a, whats) /\ Len(a) = p - 1
          /\ \A i \in DOMAIN a : i \in DOMAIN s /\ a[i] = s[i]
        <3>1. 1 \in 1 .. Len(s) + 1 /\ p - 1 \in 0 .. Len(s) /\ 1 <= (p - 1) + 1
              /\ (p - 1) - 1 + 1 = p - 1
            BY <1>1, <2>1
        <3>2. /\ Sound(a, whats) /\ Len(a) = p - 1
              /\ \A i \in DOMAIN a : i + 1 - 1 \in DOMAIN s /\ a[i] = s[i + 1 - 1]
            BY <3>1, SubSeqSound
        <3>3. \A i \in DOMAIN a : i \in Nat
            BY <3>2, SequenceFacts
        <3>4. \A i \in DOMAIN a : i + 1 - 1 = i
            BY <3>3
        <3> QED
            BY <3>2, <3>4
    <2>4. /\ Sound(b, whats) /\ Len(b) = Len(s) - p
          /\ \A i \in DOMAIN b : i + p \in DOMAIN s /\ b[i] = s[i + p]
        <3>1. p + 1 \in 1 .. Len(s) + 1 /\ Len(s) \in 0 .. Len(s) /\ p + 1 <= Len(s) + 1
              /\ Len(s) - (p + 1) + 1 = Len(s) - p
            BY <1>1, <2>1
        <3>2. /\ Sound(b, whats) /\ Len(b) = Len(s) - p
              /\ \A i \in DOMAIN b : i + (p + 1) - 1 \in DOMAIN s /\ b[i] = s[i + (p + 1) - 1]
            BY <3>1, SubSeqSound
        <3>3. \A i \in DOMAIN b : i \in Nat
            BY <3>2, SequenceFacts
        <3>4. \A i \in DOMAIN b : i + (p + 1) - 1 = i + p
            BY <2>1, <3>3
        <3> QED
            BY <3>2, <3>4
    <2> HIDE DEF a, b
    <2>5. /\ new \in Seq(EntryType(whats)) /\ Len(new) = Len(s) - 1 /\ DOMAIN new = 1 .. Len(s) - 1
          /\ DOMAIN a = 1 .. p - 1 /\ DOMAIN b = 1 .. Len(s) - p
          /\ \A i \in 1 .. Len(s) - 1 : new[i] = IF i <= p - 1 THEN a[i] ELSE b[i - (p - 1)]
        <3>1. a \in Seq(EntryType(whats)) /\ b \in Seq(EntryType(whats))
            BY <2>3, <2>4 DEF Sound
        <3>2. Len(a) + Len(b) = Len(s) - 1
            BY <1>1, <2>1, <2>3, <2>4
        <3>3. DOMAIN a = 1 .. Len(a) /\ DOMAIN b = 1 .. Len(b)
            BY <3>1, LenProperties
        <3>4. new \in Seq(EntryType(whats)) /\ Len(new) = Len(a) + Len(b)
              /\ \A i \in 1 .. Len(a) + Len(b) : new[i] = IF i <= Len(a) THEN a[i] ELSE b[i - Len(a)]
            BY <3>1, ConcatProperties
        <3>5. DOMAIN new = 1 .. Len(new)
            BY <3>4, LenProperties
        <3> QED
            BY <2>3, <2>4, <3>2, <3>3, <3>4, <3>5
    <2> HIDE DEF new
    <2> DEFINE at(i) == IF i <= p - 1 THEN i ELSE i + 1
    <2>6. \A i \in 1 .. Len(s) - 1 : at(i) \in 1 .. Len(s) /\ at(i) # p /\ new[i] = s[at(i)]
        <3> TAKE i \in 1 .. Len(s) - 1
        <3>1. CASE i <= p - 1
            <4>1. i \in 1 .. p - 1 /\ i \in 1 .. Len(s) /\ i # p
                BY <1>1, <2>1, <3>1
            <4>2. at(i) = i /\ new[i] = a[i]
                BY <2>5, <3>1
            <4> HIDE DEF at
            <4> QED
                BY <2>3, <2>5, <4>1, <4>2
        <3>2. CASE ~(i <= p - 1)
            <4>1. /\ i - (p - 1) \in 1 .. Len(s) - p /\ (i - (p - 1)) + p = i + 1
                  /\ i + 1 \in 1 .. Len(s) /\ i + 1 # p
                BY <1>1, <2>1, <3>2
            <4>2. at(i) = i + 1 /\ new[i] = b[i - (p - 1)]
                BY <2>5, <3>2
            <4>3. b[i - (p - 1)] = s[(i - (p - 1)) + p]
                BY <2>4, <2>5, <4>1
            <4> HIDE DEF at
            <4> QED
                BY <4>1, <4>2, <4>3
        <3> QED
            BY <3>1, <3>2
    <2>7. \A i, j \in 1 .. Len(s) - 1 : at(i) = at(j) => i = j
        BY <1>1, <2>1
    <2> HIDE DEF at
    <2>8. \A i, j \in DOMAIN new : new[i].key = new[j].key => i = j
        <3> TAKE i, j \in DOMAIN new
        <3>1. i \in 1 .. Len(s) - 1 /\ j \in 1 .. Len(s) - 1
            BY <2>5
        <3>2. /\ at(i) \in DOMAIN s /\ new[i] = s[at(i)]
              /\ at(j) \in DOMAIN s /\ new[j] = s[at(j)]
            BY <1>1, <2>6, <3>1
        <3>3. s[at(i)].key = s[at(j)].key => at(i) = at(j)
            BY <3>2 DEF Sound
        <3> QED
            BY <2>7, <3>1, <3>2, <3>3
    <2>9. \A i \in DOMAIN new : Matches(new[i].rows, new[i].key) /\ new[i].key # key
        <3> TAKE i \in DOMAIN new
        <3>1. at(i) \in DOMAIN s /\ at(i) # p /\ new[i] = s[at(i)]
            BY <1>1, <2>5, <2>6
        <3>2. p \in DOMAIN s /\ (s[at(i)].key = s[p].key => at(i) = p)
            BY <1>1, <2>1, <3>1 DEF Sound
        <3> QED
            BY <2>1, <3>1, <3>2 DEF Sound
    <2>10. Len(new) < MaxSize /\ Len(new) <= MaxSize
        BY <1>1, <2>5, BoundsAssumption DEF Sound
    <2> QED
        BY <2>2, <2>5, <2>8, <2>9, <2>10 DEF Sound, Has, Positions
<1> QED
    BY <1>2, <1>3

\* Making room for a key that is not there.
LEMMA TrimSound ==
    ASSUME NEW whats, NEW s, Sound(s, whats), NEW key, ~Has(s, key)
    PROVE  Sound(Trim(s), whats) /\ ~Has(Trim(s), key) /\ Len(Trim(s)) < MaxSize
<1>1. Len(s) \in Nat /\ DOMAIN s = 1 .. Len(s) /\ Len(s) <= MaxSize /\ MaxSize \in Nat \ {0}
    BY SequenceFacts, BoundsAssumption DEF Sound
<1>2. CASE Len(s) >= MaxSize
    <2>1. Len(s) - MaxSize + 2 \in 1 .. Len(s) + 1 /\ Len(s) \in 0 .. Len(s)
          /\ Len(s) - MaxSize + 2 <= Len(s) + 1 /\ Len(s) - (Len(s) - MaxSize + 2) + 1 = MaxSize - 1
        BY <1>1, <1>2
    <2> DEFINE m == Len(s) - MaxSize + 2
    <2>2. Trim(s) = SubSeq(s, m, Len(s))
        BY <1>2 DEF Trim
    <2>3. m \in 1 .. Len(s) + 1 /\ m <= Len(s) + 1
        BY <2>1
    <2> HIDE DEF m
    <2>4. /\ Sound(Trim(s), whats) /\ Len(Trim(s)) = Len(s) - m + 1
          /\ \A i \in DOMAIN Trim(s) : i + m - 1 \in DOMAIN s /\ Trim(s)[i] = s[i + m - 1]
        BY <2>1, <2>2, <2>3, SubSeqSound
    <2>5. Len(Trim(s)) < MaxSize
        BY <1>1, <2>1, <2>4 DEF m
    <2> QED
        BY <2>4, <2>5 DEF Has, Positions
<1>3. CASE ~(Len(s) >= MaxSize)
    BY <1>1, <1>3 DEF Trim
<1> QED
    BY <1>2, <1>3

\* A fresh entry is one of the store's, under the key that was looked up.
LEMMA EntryMatches ==
    ASSUME NEW whats, NEW s, Sound(s, whats), NEW key, Has(s, key)
    PROVE  /\ Entry(s, key) \in EntryType(whats) /\ Entry(s, key).key = key
           /\ Entry(s, key).rows \in Rows /\ Matches(Entry(s, key).rows, key)
<1>1. Position(s, key) \in DOMAIN s /\ s[Position(s, key)].key = key
    BY DEF Has, Position, Positions
<1>2. Entry(s, key) \in EntryType(whats) /\ Matches(Entry(s, key).rows, Entry(s, key).key)
    BY <1>1, SequenceFacts DEF Sound, Entry
<1> QED
    BY <1>1, <1>2 DEF Entry, EntryType

\* _get_from.
LEMMA TouchSound ==
    ASSUME NEW whats, NEW s, Sound(s, whats), NEW key
    PROVE  Sound(Touch(s, key), whats)
<1>1. CASE Fresh(s, key)
    <2>1. Has(s, key) /\ Touch(s, key) = Append(Without(s, key), Entry(s, key))
        BY <1>1 DEF Fresh, Touch
    <2>2. /\ Entry(s, key) \in EntryType(whats) /\ Entry(s, key).key = key
          /\ Matches(Entry(s, key).rows, key)
        BY <2>1, EntryMatches
    <2>3. Sound(Without(s, key), whats) /\ ~Has(Without(s, key), key)
          /\ Len(Without(s, key)) < MaxSize
        BY <2>1, WithoutSound
    <2> QED
        BY <2>1, <2>2, <2>3, AppendSound
<1>2. CASE ~Fresh(s, key)
    BY <1>2, WithoutSound DEF Touch
<1> QED
    BY <1>1, <1>2

\* _set_in, of rows that belong to the key.
LEMMA SetInSound ==
    ASSUME NEW whats, NEW s, Sound(s, whats), now \in 0 .. MaxTime,
           NEW key \in [prefix: Prefixes, what: whats, scope: Scopes \cup {NoScope}],
           NEW rows \in Rows, Matches(rows, key)
    PROVE  Sound(SetIn(s, key, rows), whats)
<1> DEFINE e == [key |-> key, rows |-> rows, expires |-> now + Ttl]
           room == IF Has(s, key) THEN Without(s, key) ELSE Trim(s)
<1>1. now + Ttl \in 0 .. (MaxTime + Ttl)
    BY BoundsAssumption
<1>2. e \in EntryType(whats) /\ e.key = key /\ e.rows = rows
    BY <1>1 DEF EntryType
<1>3. Sound(room, whats) /\ ~Has(room, key) /\ Len(room) < MaxSize
    BY WithoutSound, TrimSound
<1>4. SetIn(s, key, rows) = Append(room, e)
    BY DEF SetIn
<1> HIDE DEF e, room
<1> QED
    BY <1>2, <1>3, <1>4, AppendSound

-----------------------------------------------------------------------------
(* The actions keep the invariant.                                         *)

LEMMA EmptySound == \A whats : Sound(<<>>, whats)
<1> TAKE whats
<1>1. <<>> \in Seq(EntryType(whats)) /\ Len(<<>>) = 0 /\ DOMAIN <<>> = {}
    OBVIOUS
<1> QED
    BY <1>1, BoundsAssumption DEF Sound

LEMMA InitInv ==
    ASSUME Init
    PROVE  IInv
<1>1. Sound(store, Questions) /\ Sound(sqlStore, Sqls)
    BY EmptySound DEF Init
<1>2. DOMAIN req = Requests /\ \A r \in Requests : Request(req[r])
    BY BoundsAssumption DEF Init, Idle, Request, Fields, Prefixes
<1>3. now \in 0 .. MaxTime
    BY BoundsAssumption DEF Init
<1>4. version \in Prefixes
    BY BoundsAssumption DEF Init, Prefixes
<1>5. CacheIsolated
    BY DEF Init, CacheIsolated, ScopeIsolated, VersionIsolated, NoRows
<1> QED
    BY <1>1, <1>2, <1>3, <1>4, <1>5 DEF IInv

\* A request that takes a step is again in a state of its own.
LEMMA Moved ==
    ASSUME IInv, NEW r \in Requests, DOMAIN req' = Requests, Request(req'[r]),
           \A x \in Requests \ {r} : req'[x] = req[x]
    PROVE  DOMAIN req' = Requests /\ \A x \in Requests : Request(req'[x])
BY DEF IInv

\* What is served keeps its caller's scope and version.
LEMMA Served ==
    ASSUME IInv, NEW r \in Requests, NEW rows, NEW hit, Reply(r, rows, hit),
           rows.scope = req[r].scope, rows.version = req[r].version
    PROVE  CacheIsolated'
BY DEF Reply, CacheIsolated, ScopeIsolated, VersionIsolated

LEMMA Unserved ==
    ASSUME IInv, UNCHANGED served
    PROVE  CacheIsolated'
BY DEF IInv, CacheIsolated, ScopeIsolated, VersionIsolated

LEMMA IdleRequest == Request(Idle)
BY BoundsAssumption DEF Request, Idle, Fields, Prefixes, NoRows

\* The same invariant, from what a step does to each part of the state.
LEMMA Kept ==
    ASSUME IInv, now' \in 0 .. MaxTime, version' \in Prefixes,
           Sound(store', Questions), Sound(sqlStore', Sqls), CacheIsolated',
           DOMAIN req' = Requests, \A x \in Requests : Request(req'[x])
    PROVE  IInv'
BY DEF IInv, Sound, Matches, EntryType, Request, Fields, Prefixes, Rows

LEMMA StartInv ==
    ASSUME IInv, NEW r \in Requests, Start(r)
    PROVE  IInv'
<1>1. PICK q \in Questions, s \in Scopes :
        req' = [req EXCEPT ![r] = [Idle EXCEPT !.pc = "lookup", !.what = q, !.scope = s,
                                               !.version = version]]
    BY DEF Start
<1>2. Request(req'[r])
    BY <1>1 DEF IInv, Request, Fields, Idle
<1>3. DOMAIN req' = Requests /\ \A x \in Requests \ {r} : req'[x] = req[x]
    BY <1>1 DEF IInv
<1>4. DOMAIN req' = Requests /\ \A x \in Requests : Request(req'[x])
    BY <1>2, <1>3, Moved
<1>5. UNCHANGED <<now, version, store, sqlStore, served>>
    BY DEF Start
<1> QED
    BY <1>4, <1>5, Unserved, Kept DEF IInv

\* The two keys of a request are keys of the two stores.
LEMMA RequestFacts ==
    ASSUME IInv, NEW r \in Requests
    PROVE  Request(req[r]) /\ DOMAIN req = Requests /\ now \in 0 .. MaxTime /\ version \in Prefixes
           /\ Sound(store, Questions) /\ Sound(sqlStore, Sqls)
BY DEF IInv

LEMMA LookupInv ==
    ASSUME IInv, NEW r \in Requests, Lookup(r)
    PROVE  IInv'
<1> DEFINE key == QuestionKey(r)
<1>1. key.scope = req[r].scope /\ key.prefix = req[r].version
    BY DEF QuestionKey, Key
<1>2. /\ store' = Touch(store, key) /\ UNCHANGED <<now, version, sqlStore>>
      /\ \/ /\ Fresh(store, key) /\ Reply(r, Entry(store, key).rows, TRUE)
            /\ req' = [req EXCEPT ![r] = Idle]
         \/ req' = [req EXCEPT ![r].pc = "sql"] /\ UNCHANGED served
      /\ req[r].pc = "lookup"
    BY DEF Lookup
<1> HIDE DEF key
<1>3. Sound(store', Questions)
    BY <1>2, RequestFacts, TouchSound
<1>4. CASE Fresh(store, key) /\ Reply(r, Entry(store, key).rows, TRUE)
           /\ req' = [req EXCEPT ![r] = Idle]
    <2>1. Matches(Entry(store, key).rows, key)
        BY <1>4, RequestFacts, EntryMatches DEF Fresh
    <2>2. CacheIsolated'
        BY <1>1, <1>4, <2>1, Served DEF Matches
    <2>3. DOMAIN req' = Requests /\ req'[r] = Idle /\ \A x \in Requests \ {r} : req'[x] = req[x]
        BY <1>4, RequestFacts
    <2>4. DOMAIN req' = Requests /\ \A x \in Requests : Request(req'[x])
        BY <2>3, Moved, IdleRequest
    <2> QED
        BY <1>2, <1>3, <2>2, <2>4, RequestFacts, Kept
<1>5. CASE req' = [req EXCEPT ![r].pc = "sql"] /\ UNCHANGED served
    <2>1. DOMAIN req' = Requests /\ \A x \in Requests \ {r} : req'[x] = req[x]
        BY <1>5, RequestFacts
    <2>2. Request(req'[r])
        BY <1>2, <1>5, RequestFacts DEF Request, Fields
    <2>3. DOMAIN req' = Requests /\ \A x \in Requests : Request(req'[x])
        BY <2>1, <2>2, Moved
    <2> QED
        BY <1>2, <1>3, <1>5, <2>3, RequestFacts, Unserved, Kept
<1> QED
    BY <1>2, <1>4, <1>5

LEMMA SqlLookupInv ==
    ASSUME IInv, NEW r \in Requests, SqlLookup(r)
    PROVE  IInv'
<1>1. PICK sql \in Sqls :
        /\ sqlStore' = Touch(sqlStore, SqlKey(r, sql))
        /\ req' = [req EXCEPT ![r].sql = sql,
                     ![r].pc = IF Fresh(sqlStore, SqlKey(r, sql)) THEN "reuse" ELSE "execute",
                     ![r].rows = IF Fresh(sqlStore, SqlKey(r, sql))
                                 THEN Entry(sqlStore, SqlKey(r, sql)).rows ELSE NoRows]
    BY DEF SqlLookup
<1> DEFINE key == SqlKey(r, sql)
<1>2. key.scope = req[r].scope /\ key.prefix = req[r].version
    BY DEF SqlKey, Key
<1>3. UNCHANGED <<now, version, store, served>> /\ req[r].pc = "sql"
    BY DEF SqlLookup
<1> HIDE DEF key
<1>4. Sound(sqlStore', Sqls)
    BY <1>1, RequestFacts, TouchSound DEF key
<1>5. CASE Fresh(sqlStore, key)
    <2>1. Matches(Entry(sqlStore, key).rows, key) /\ Entry(sqlStore, key).rows \in Rows
        BY <1>5, RequestFacts, EntryMatches DEF Fresh
    <2>2. req' = [req EXCEPT ![r].sql = sql, ![r].pc = "reuse",
                             ![r].rows = Entry(sqlStore, key).rows]
        BY <1>1, <1>5 DEF key
    <2> DEFINE found == Entry(sqlStore, key).rows
    <2> HIDE DEF found
    <2>3. req' = [req EXCEPT ![r].sql = sql, ![r].pc = "reuse", ![r].rows = found]
          /\ found \in Rows /\ found.scope = req[r].scope /\ found.version = req[r].version
        BY <1>2, <2>1, <2>2 DEF found, Matches
    <2>4. Request(req'[r])
        BY <1>3, <2>3, RequestFacts DEF Request, Fields
    <2>5. DOMAIN req' = Requests /\ \A x \in Requests \ {r} : req'[x] = req[x]
        BY <2>3, RequestFacts
    <2> QED
        BY <1>3, <1>4, <2>4, <2>5, Moved, RequestFacts, Unserved, Kept
<1>6. CASE ~Fresh(sqlStore, key)
    <2>1. req' = [req EXCEPT ![r].sql = sql, ![r].pc = "execute", ![r].rows = NoRows]
        BY <1>1, <1>6 DEF key
    <2>2. Request(req'[r])
        BY <1>3, <2>1, RequestFacts DEF Request, Fields
    <2>3. DOMAIN req' = Requests /\ \A x \in Requests \ {r} : req'[x] = req[x]
        BY <2>1, RequestFacts
    <2> QED
        BY <1>3, <1>4, <2>2, <2>3, Moved, RequestFacts, Unserved, Kept
<1> QED
    BY <1>5, <1>6

LEMMA ExecuteInv ==
    ASSUME IInv, NEW r \in Requests, Execute(r)
    PROVE  IInv'
<1> DEFINE rows == [read |-> now, scope |-> req[r].scope, version |-> req[r].version]
<1>1. /\ req' = [req EXCEPT ![r].pc = "set", ![r].rows = rows]
      /\ UNCHANGED <<now, version, store, sqlStore, served>> /\ req[r].pc = "execute"
    BY DEF Execute
<1>2. rows \in Rows /\ rows.scope = req[r].scope /\ rows.version = req[r].version
    BY <1>1, RequestFacts DEF Rows, Request
<1> HIDE DEF rows
<1>3. Request(req'[r])
    BY <1>1, <1>2, RequestFacts DEF Request, Fields
<1>4. DOMAIN req' = Requests /\ \A x \in Requests \ {r} : req'[x] = req[x]
    BY <1>1, RequestFacts
<1> QED
    BY <1>1, <1>3, <1>4, Moved, RequestFacts, Unserved, Kept

LEMMA FailInv ==
    ASSUME IInv, NEW r \in Requests, Fail(r)
    PROVE  IInv'
<1>1. /\ DOMAIN req' = Requests /\ req'[r] = Idle /\ \A x \in Requests \ {r} : req'[x] = req[x]
      /\ UNCHANGED <<now, version, store, sqlStore, served>>
    BY RequestFacts DEF Fail
<1> QED
    BY <1>1, IdleRequest, Moved, RequestFacts, Unserved, Kept

\* Both stores take the rows under keys of their scope and version.
LEMMA StoreInv ==
    ASSUME IInv, NEW r \in Requests, NEW rows \in Rows, Store(r, rows),
           req[r].pc \in {"set", "reuse"},
           rows.scope = req[r].scope, rows.version = req[r].version
    PROVE  IInv'
<1> DEFINE key == Key(VersionToStore(r), req[r].what, req[r].scope)
           sqlKey == SqlKey(r, req[r].sql)
<1>1. /\ key \in [prefix: Prefixes, what: Questions, scope: Scopes \cup {NoScope}]
      /\ sqlKey \in [prefix: Prefixes, what: Sqls, scope: Scopes \cup {NoScope}]
    BY RequestFacts DEF Request, Key, SqlKey, VersionToStore
<1>2. Matches(rows, key) /\ Matches(rows, sqlKey)
    BY DEF Matches, Key, SqlKey, VersionToStore
<1>3. /\ store' = SetIn(store, key, rows) /\ sqlStore' = SetIn(sqlStore, sqlKey, rows)
      /\ Reply(r, rows, FALSE) /\ req' = [req EXCEPT ![r] = Idle] /\ UNCHANGED <<now, version>>
    BY DEF Store
<1> HIDE DEF key, sqlKey
<1>4. Sound(store', Questions) /\ Sound(sqlStore', Sqls)
    BY <1>1, <1>2, <1>3, RequestFacts, SetInSound
<1>5. /\ DOMAIN req' = Requests /\ req'[r] = Idle
      /\ \A x \in Requests \ {r} : req'[x] = req[x]
    BY <1>3, RequestFacts
<1> QED
    BY <1>3, <1>4, <1>5, IdleRequest, Moved, RequestFacts, Served, Kept

LEMMA SetInv ==
    ASSUME IInv, NEW r \in Requests, Set(r)
    PROVE  IInv'
<1> DEFINE rows == [req[r].rows EXCEPT !.read = now]
<1>1. Store(r, rows) /\ req[r].pc = "set"
    BY DEF Set
<1>2. rows \in Rows /\ rows.scope = req[r].scope /\ rows.version = req[r].version
    BY <1>1, RequestFacts DEF Request, Rows
<1> HIDE DEF rows
<1> QED
    BY <1>1, <1>2, StoreInv

LEMMA ReuseInv ==
    ASSUME IInv, NEW r \in Requests, Reuse(r)
    PROVE  IInv'
<1> DEFINE rows == req[r].rows
<1>1. Store(r, rows) /\ req[r].pc = "reuse"
    BY DEF Reuse
<1>2. rows \in Rows /\ rows.scope = req[r].scope /\ rows.version = req[r].version
    BY <1>1, RequestFacts DEF Request
<1> HIDE DEF rows
<1> QED
    BY <1>1, <1>2, StoreInv

\* The cache routes, an applied version and time.
LEMMA OthersInv ==
    ASSUME IInv, Clear \/ Invalidate \/ Apply \/ Tick \/ UNCHANGED vars
    PROVE  IInv'
<1>1. DOMAIN req' = Requests /\ (\A x \in Requests : Request(req'[x])) /\ CacheIsolated'
    <2>1. UNCHANGED <<req, served>>
        BY DEF Clear, Invalidate, Apply, Tick, vars
    <2> QED
        BY <2>1, Unserved DEF IInv
<1>2. now' \in 0 .. MaxTime /\ version' \in Prefixes
    BY BoundsAssumption DEF Clear, Invalidate, Apply, Tick, vars, IInv, Prefixes
<1>3. Sound(store', Questions) /\ Sound(sqlStore', Sqls)
    <2>1. CASE Clear
        <3>1. \A whats : Sound(<<>>, whats)
            BY EmptySound
        <3> QED
            BY <2>1, <3>1 DEF Clear
    <2>2. CASE Invalidate
        <3>1. PICK q \in Questions : store' = Without(store, InvalidateKey(q))
            BY <2>2 DEF Invalidate
        <3>2. Sound(store, Questions) /\ Sound(sqlStore, Sqls) /\ sqlStore' = sqlStore
            BY <2>2 DEF IInv, Invalidate
        <3> QED
            BY <3>1, <3>2, WithoutSound
    <2>3. CASE Apply \/ Tick \/ UNCHANGED vars
        BY <2>3 DEF Apply, Tick, vars, IInv
    <2> QED
        BY <2>1, <2>2, <2>3
<1> QED
    BY <1>1, <1>2, <1>3, Kept

\* The invariant, which TLC also checks on the instance of the run.
LEMMA Invariance == Spec => []IInv
<1>1. ASSUME IInv, [Next]_vars
      PROVE  IInv'
    BY <1>1, StartInv, LookupInv, SqlLookupInv, ExecuteInv, FailInv, SetInv, ReuseInv, OthersInv
       DEF Next, Serve
<1> QED
    BY <1>1, InitInv, PTL DEF Spec

\* What a request is served was read for a caller with its own scope and under the
\* configuration version it started with, whichever of the two tiers of
\* api/query_cache.py answers and however version, expiry and eviction move meanwhile.
THEOREM Isolation == Spec => []CacheIsolated
<1>1. IInv => CacheIsolated
    BY DEF IInv
<1> QED
    BY <1>1, Invariance, PTL

\* Types; neither store outgrows cache_max_size or holds a key twice.
THEOREM TypeCorrect == Spec => []TypeOK
<1>1. IInv => TypeOK
    BY DEF IInv, TypeOK, Sound, Request
<1> QED
    BY <1>1, Invariance, PTL

(***************************************************************************)
(* The verdicts on a turn.  A flag and a confirmation never settle side by *)
(* side because whoever stores one of them has yet to take the other back, *)
(* or fails with its own row gone and nothing left to take back; a golden  *)
(* case asks its flag's question because what an admin's request knows of  *)
(* a flag stays true of that number until the database gives it again.     *)
(***************************************************************************)
VerdictRequest ==
    [pc : {"free", "joined", "looked", "stored", "insert", "chosen", "failed"},
     op : {"none", "flag", "confirm", "withdraw", "resolve"},
     turn : Turns \cup {NoTurn}, id : 0 .. MaxFlags,
     outcome : V!AllOutcomes \cup {"none"}, created : BOOLEAN]
GoldenLine == [id : 1 .. MaxFlags, turn : Turns]
Counts == {"never", "once", "again"}

VerdictTypes ==
    /\ audit \in [Turns -> {"none", "ok", "failed"}]
    /\ flags \subseteq V!Flag /\ raised \in 0 .. MaxFlags /\ confirmed \subseteq Turns
    /\ golden \in Seq(GoldenLine) /\ Len(golden) <= MaxCases
    /\ tvReq \in [V!Threads -> VerdictRequest]
    /\ crashes \in 0 .. MaxCrashes /\ orphaned \subseteq Turns
    /\ given \in [1 .. MaxFlags -> Counts] /\ cut \subseteq 1 .. MaxFlags
    /\ \A f, g \in flags : f.id = g.id => f = g
    /\ \A f \in flags : f.id <= raised /\ given[f.id] # "never"
    /\ \A i \in DOMAIN golden : given[golden[i].id] # "never"

HasCase(id, t) == \E i \in DOMAIN golden : golden[i] = [id |-> id, turn |-> t]

\* What an admin's request knows of the flag it is about.
ResolveOk(w) ==
    LET r == tvReq[w] IN
    /\ r.id \in 1 .. MaxFlags /\ given[r.id] # "never"
    /\ given[r.id] = "once" => \A f \in flags : f.id = r.id => f.turn = r.turn
    /\ r.pc = "joined" => r.outcome = "golden_case"
    /\ (r.outcome = "golden_case" /\ r.pc # "joined") => HasCase(r.id, r.turn)

RequestOk(w) ==
    LET r == tvReq[w] IN
    /\ r.pc = "free" => r.op = "none"
    /\ r.pc # "free" => /\ r.turn \in Turns
                        /\ \/ r.op \in {"flag", "confirm"} /\ w \in Handlers
                           \/ r.op = "resolve" /\ w \in Triage
    /\ (r.op = "confirm" /\ r.pc = "insert") => audit[r.turn] # "failed"
    /\ r.op = "resolve" => ResolveOk(w)

\* Somebody sees, or saw, to the flag of this number that has a golden case.
Attended(id) ==
    \/ \E w \in Triage : V!Promoting(w) /\ tvReq[w].id = id
    \/ id \in cut \/ given[id] = "again"

VerdictInv ==
    /\ VerdictTypes /\ V!VerdictsExclude /\ V!GoldenBacked /\ V!PromotedDecided
    /\ \A w \in V!Threads : RequestOk(w)

LEMMA FreeRequest == V!Free \in VerdictRequest /\ V!Free.pc = "free" /\ V!Free.op = "none"
    BY VerdictsConfigured DEF V!Configured, V!Free, VerdictRequest

LEMMA VerdictsBegin == V!Init => VerdictInv
<1> SUFFICES ASSUME V!Init PROVE VerdictInv
    OBVIOUS
<1> USE DEF V!Init
<1>1. tvReq \in [V!Threads -> VerdictRequest] /\ \A w \in V!Threads : tvReq[w] = V!Free
    BY FreeRequest
<1>2. golden \in Seq(GoldenLine) /\ Len(golden) = 0 /\ DOMAIN golden = {}
    BY EmptySeq
<1>3. VerdictTypes
    BY <1>1, <1>2, VerdictsConfigured DEF VerdictTypes, V!Configured, Counts
<1>4. \A w \in V!Threads : RequestOk(w)
    BY <1>1, FreeRequest DEF RequestOk
<1>5. V!VerdictsExclude /\ V!GoldenBacked /\ V!PromotedDecided
    BY DEF V!VerdictsExclude, V!GoldenBacked, V!PromotedDecided
<1> QED
    BY <1>3, <1>4, <1>5 DEF VerdictInv

\* The number a new flag gets is its own, and the next one at most.
LEMMA NewIdIsFree ==
    ASSUME VerdictInv, raised < MaxFlags
    PROVE  /\ V!NewId \in 1 .. raised + 1 /\ \A f \in flags : f.id # V!NewId
           /\ ~ReusesIds => V!NewId = raised + 1
<1>1. /\ raised \in Nat /\ MaxFlags \in Nat /\ ReusesIds \in BOOLEAN
      /\ \A f \in flags : f.id \in Nat /\ f.id >= 1 /\ f.id <= raised
    BY VerdictsConfigured DEF V!Configured, VerdictInv, VerdictTypes, V!Flag
<1>2. CASE ~ReusesIds
    BY <1>1, <1>2 DEF V!NewId
<1>3. CASE ReusesIds /\ flags = {}
    BY <1>1, <1>3 DEF V!NewId
<1>4. CASE ReusesIds /\ flags # {}
    <2> DEFINE Ids == {f.id : f \in flags}
               Bounds == {n \in Nat : \A f \in flags : f.id <= n}
    <2>1. Bounds \subseteq Nat /\ Bounds # {}
        BY <1>1
    <2>2. PICK n \in Bounds : \A m \in Bounds : ~(<<m, n>> \in OpToRel(<, Nat))
        <3> HIDE DEF Bounds
        <3> QED
            BY <2>1, NatLessThanWellFounded, WFMin
    <2>3. \A m \in Bounds : ~(m < n)
        BY <2>1, <2>2 DEF OpToRel
    <2>4. n \in Nat /\ \A f \in flags : f.id <= n
        OBVIOUS
    <2>5. \E f \in flags : f.id = n
        <3> SUFFICES ASSUME \A f \in flags : f.id # n
                     PROVE  FALSE
            OBVIOUS
        <3>1. \A f \in flags : f.id <= n - 1
            BY <1>1, <2>4
        <3>2. n >= 1
            BY <1>1, <1>4, <2>4
        <3>3. n - 1 \in Bounds
            BY <2>4, <3>1, <3>2
        <3> QED
            BY <2>3, <2>4, <3>3
    <2> DEFINE Greatest == CHOOSE m \in Ids : \A f \in flags : f.id <= m
    <2>6. Greatest \in Ids /\ \A f \in flags : f.id <= Greatest
        BY <2>4, <2>5
    <2>7. V!NewId = 1 + Greatest
        BY <1>4 DEF V!NewId
    <2> HIDE DEF Greatest
    <2> QED
        BY <1>1, <1>4, <2>6, <2>7
<1> QED
    BY <1>1, <1>2, <1>3, <1>4

\* The numbers of rows and lines are numbers that were given.
LEMMA VerdictFacts ==
    ASSUME VerdictTypes
    PROVE  /\ \A f \in flags : f.id \in 1 .. MaxFlags /\ f.turn \in Turns
           /\ \A i \in DOMAIN golden : golden[i].id \in 1 .. MaxFlags
           /\ raised \in Nat /\ MaxFlags \in Nat
<1>1. \A i \in DOMAIN golden : golden[i] \in GoldenLine
    BY ElementOfSeq DEF VerdictTypes
<1> QED
    BY <1>1, VerdictsConfigured DEF VerdictTypes, V!Flag, GoldenLine, V!Configured

\* What another thread's step leaves of a request's facts.
LEMMA OthersStay ==
    ASSUME VerdictInv, NEW u \in V!Threads, tvReq'[u] = tvReq[u],
           \A t \in Turns : audit'[t] \in {audit[t], "none"},
           \A id \in 1 .. MaxFlags :
                given[id] # "never" => given'[id] \in {given[id], "again"},
           \A g \in flags' : \/ \E f \in flags : f.id = g.id /\ f.turn = g.turn
                             \/ given[g.id] = "never" \/ given'[g.id] = "again",
           \A i \in DOMAIN golden : i \in DOMAIN golden' /\ golden'[i] = golden[i]
    PROVE  RequestOk(u)'
<1> DEFINE r == tvReq[u]
<1>1. r \in VerdictRequest /\ RequestOk(u)
    BY DEF VerdictInv, VerdictTypes
<1>2. /\ r.pc = "free" => r.op = "none"
      /\ r.pc # "free" => /\ r.turn \in Turns
                          /\ \/ r.op \in {"flag", "confirm"} /\ u \in Handlers
                             \/ r.op = "resolve" /\ u \in Triage
    BY <1>1 DEF RequestOk
<1>3. (r.op = "confirm" /\ r.pc = "insert") => audit'[r.turn] # "failed"
    BY <1>1, <1>2 DEF RequestOk
<1>4. ASSUME r.op = "resolve"
      PROVE  ResolveOk(u)'
    <2>1. ResolveOk(u) /\ r.id \in 1 .. MaxFlags /\ given[r.id] # "never"
        BY <1>1, <1>4 DEF RequestOk, ResolveOk
    <2>2. given'[r.id] \in {given[r.id], "again"} /\ given'[r.id] # "never"
        BY <2>1
    <2>3. ASSUME given'[r.id] = "once", NEW g \in flags', g.id = r.id
          PROVE  g.turn = r.turn
        BY <2>1, <2>2, <2>3 DEF ResolveOk
    <2>4. ASSUME HasCase(r.id, r.turn)
          PROVE  HasCase(r.id, r.turn)'
        BY <2>4 DEF HasCase
    <2> QED
        BY <2>1, <2>2, <2>3, <2>4 DEF ResolveOk
<1> QED
    BY <1>2, <1>3, <1>4 DEF RequestOk

\* Whoever settles a turn still does while its rows stay.
LEMMA SettlesStays ==
    ASSUME NEW u, NEW t, V!Settles(u, t), tvReq'[u] = tvReq[u],
           \A f \in flags : f.turn = t => \E g \in flags' : g.id = f.id /\ g.turn = f.turn
    PROVE  V!Settles(u, t)'
BY DEF V!Settles, V!Row

\* A promoted flag stays attended to while the admin's request that does so goes on.
LEMMA AttendedStays ==
    ASSUME NEW id \in 1 .. MaxFlags, Attended(id),
           given'[id] \in {given[id], "again"}, cut \subseteq cut',
           \A x \in Triage : (V!Promoting(x) /\ tvReq[x].id = id) =>
                                (V!Promoting(x)' /\ tvReq'[x].id = id)
    PROVE  Attended(id)'
BY DEF Attended

\* The same for all flags, where lines of the golden file and open flags are not
\* new.
LEMMA PromotedStays ==
    ASSUME VerdictInv, golden' = golden, cut \subseteq cut',
           \A id \in 1 .. MaxFlags :
                given[id] # "never" => given'[id] \in {given[id], "again"},
           \A g \in flags' : g.status = "open" =>
                (\E f \in flags : f.status = "open" /\ f.id = g.id) \/ given'[g.id] = "again"
                    \/ given[g.id] = "never",
           \A x \in Triage, f \in flags :
                (f.status = "open" /\ V!Promoting(x) /\ tvReq[x].id = f.id) =>
                    (V!Promoting(x)' /\ tvReq'[x].id = f.id)
                    \/ \A g \in flags' : g.status = "open" => g.id # f.id
    PROVE  V!PromotedDecided'
<1> SUFFICES ASSUME NEW g \in flags', NEW i \in DOMAIN golden, g.status = "open",
                    golden[i].id = g.id
             PROVE  Attended(g.id)'
    BY DEF V!PromotedDecided, Attended
<1>1. g.id \in 1 .. MaxFlags /\ given[g.id] # "never"
    BY VerdictFacts DEF VerdictInv, VerdictTypes
<1>2. CASE given'[g.id] = "again"
    BY <1>2 DEF Attended
<1>3. ASSUME NEW f \in flags, f.status = "open", f.id = g.id
      PROVE  Attended(g.id)'
    <2>1. Attended(g.id)
        BY <1>3 DEF VerdictInv, V!PromotedDecided, Attended
    <2> QED
        BY <1>1, <1>3, <2>1, AttendedStays
<1> QED
    BY <1>1, <1>2, <1>3

\* A step that moves one request and nothing else.
LEMMA RequestStep ==
    ASSUME VerdictInv, NEW w \in V!Threads, NEW r \in VerdictRequest,
           tvReq' = [tvReq EXCEPT ![w] = r],
           UNCHANGED <<audit, flags, raised, confirmed, golden, crashes, V!history>>,
           RequestOk(w)',
           \A t \in confirmed : V!Settles(w, t) => V!Settles(w, t)',
           \A f \in flags :
                (f.status = "open" /\ V!Promoting(w) /\ tvReq[w].id = f.id) =>
                    (V!Promoting(w)' /\ r.id = f.id)
    PROVE  VerdictInv'
<1>1. /\ tvReq' \in [V!Threads -> VerdictRequest] /\ tvReq'[w] = r
      /\ \A u \in V!Threads : u # w => tvReq'[u] = tvReq[u]
      /\ UNCHANGED <<orphaned, given, cut>>
    BY DEF VerdictInv, VerdictTypes, V!history
<1>2. VerdictTypes'
    BY <1>1 DEF VerdictInv, VerdictTypes
<1>3. ASSUME NEW u \in V!Threads
      PROVE  RequestOk(u)'
    <2>1. CASE u = w
        BY <2>1
    <2>2. CASE u # w
        BY <1>1, <2>2, OthersStay
    <2> QED
        BY <2>1, <2>2
<1>4. V!VerdictsExclude'
    <2> SUFFICES ASSUME NEW f \in flags, f.status = "open", f.turn \in confirmed,
                        f.turn \notin orphaned
                 PROVE  \E x \in Handlers : V!Settles(x, f.turn)'
        BY <1>1 DEF V!VerdictsExclude
    <2>1. PICK x \in Handlers : V!Settles(x, f.turn)
        BY DEF VerdictInv, V!VerdictsExclude
    <2>2. CASE x = w
        BY <2>1, <2>2
    <2>3. CASE x # w
        BY <1>1, <2>1, <2>3, SettlesStays DEF V!Threads
    <2> QED
        BY <2>2, <2>3
<1>5. V!GoldenBacked'
    BY <1>1 DEF VerdictInv, V!GoldenBacked
<1>6. V!PromotedDecided'
    <2>1. ASSUME NEW x \in Triage, NEW f \in flags, f.status = "open", V!Promoting(x),
                 tvReq[x].id = f.id
          PROVE  V!Promoting(x)' /\ tvReq'[x].id = f.id
        <3>1. CASE x = w
            BY <1>1, <2>1, <3>1
        <3>2. CASE x # w
            BY <1>1, <2>1, <3>2 DEF V!Promoting, V!Threads
        <3> QED
            BY <3>1, <3>2
    <2> QED
        BY <1>1, <2>1, PromotedStays
<1> QED
    BY <1>2, <1>3, <1>4, <1>5, <1>6 DEF VerdictInv

\* A request of an analyst, or none, promotes nothing.
LEMMA AnalystsPromoteNothing ==
    ASSUME VerdictInv, NEW w \in V!Threads,
           tvReq[w].pc \in {"free", "failed"} \/ tvReq[w].op \in {"flag", "confirm"}
    PROVE  ~V!Promoting(w)
BY DEF V!Promoting

LEMMA FlagJoinKeeps ==
    ASSUME VerdictInv, NEW w \in V!Threads, NEW t \in Turns, V!FlagJoin(w, t)
    PROVE  VerdictInv'
<1> DEFINE r == [V!Free EXCEPT !.pc = "joined", !.op = "flag", !.turn = t]
<1>1. r \in VerdictRequest /\ r.pc = "joined" /\ r.op = "flag" /\ r.turn = t
    BY FreeRequest DEF VerdictRequest, V!Free
<1>2. /\ tvReq' = [tvReq EXCEPT ![w] = r] /\ tvReq \in [V!Threads -> VerdictRequest]
      /\ w \in Handlers /\ tvReq[w].pc = "free"
      /\ UNCHANGED <<audit, flags, raised, confirmed, golden, crashes, V!history>>
    BY DEF V!FlagJoin, VerdictInv, VerdictTypes
<1> HIDE DEF r
<1>3. RequestOk(w)'
    BY <1>1, <1>2 DEF RequestOk
<1>4. (\A s \in confirmed : ~V!Settles(w, s)) /\ ~V!Promoting(w)
    BY <1>2, AnalystsPromoteNothing DEF V!Settles
<1> QED
    BY <1>1, <1>2, <1>3, <1>4, RequestStep

LEMMA ConfirmLookKeeps ==
    ASSUME VerdictInv, NEW w \in V!Threads, NEW t \in Turns, V!ConfirmLook(w, t)
    PROVE  VerdictInv'
<1> DEFINE r == [V!Free EXCEPT !.op = "confirm", !.turn = t,
                               !.pc = IF t \in confirmed THEN "stored" ELSE "insert"]
<1>1. /\ r \in VerdictRequest /\ r.op = "confirm" /\ r.turn = t
      /\ r.pc \in {"stored", "insert"}
    BY FreeRequest DEF VerdictRequest, V!Free
<1>2. /\ tvReq' = [tvReq EXCEPT ![w] = r] /\ tvReq \in [V!Threads -> VerdictRequest]
      /\ w \in Handlers /\ tvReq[w].pc = "free" /\ audit[t] = "ok"
      /\ UNCHANGED <<audit, flags, raised, confirmed, golden, crashes, V!history>>
    BY DEF V!ConfirmLook, V!Confirmable, VerdictInv, VerdictTypes
<1> HIDE DEF r
<1>3. RequestOk(w)'
    BY <1>1, <1>2 DEF RequestOk
<1>4. (\A s \in confirmed : ~V!Settles(w, s)) /\ ~V!Promoting(w)
    BY <1>2, AnalystsPromoteNothing DEF V!Settles
<1> QED
    BY <1>1, <1>2, <1>3, <1>4, RequestStep

\* A row of the request's own number and turn is found and the request goes on;
\* without one it had nothing to settle.
LEMMA FlagRereadKeeps ==
    ASSUME VerdictInv, NEW w \in V!Threads, V!FlagReread(w)
    PROVE  VerdictInv'
<1> DEFINE next == IF V!Row(tvReq[w].id) = {} THEN "failed" ELSE "stored"
           r == [tvReq[w] EXCEPT !.pc = next]
<1>1. tvReq \in [V!Threads -> VerdictRequest] /\ tvReq[w] \in VerdictRequest
      /\ tvReq[w].op = "flag" /\ tvReq[w].pc = "looked" /\ RequestOk(w)
    BY DEF V!FlagReread, VerdictInv, VerdictTypes
<1>2. /\ r \in VerdictRequest /\ r.op = "flag" /\ r.turn = tvReq[w].turn
      /\ r.pc = next /\ next \in {"stored", "failed"}
      /\ V!Row(tvReq[w].id) # {} => next = "stored"
    BY <1>1 DEF VerdictRequest
<1>3. /\ tvReq' = [tvReq EXCEPT ![w] = r]
      /\ UNCHANGED <<audit, flags, raised, confirmed, golden, crashes, V!history>>
    BY <1>1 DEF V!FlagReread, V!Goto
<1> HIDE DEF r, next
<1>4. tvReq'[w] = r
    BY <1>1, <1>3
<1>5. RequestOk(w)'
    BY <1>1, <1>2, <1>4 DEF RequestOk
<1>6. ASSUME NEW s \in confirmed, V!Settles(w, s)
      PROVE  V!Settles(w, s)'
    <2>1. tvReq[w].turn = s /\ V!Row(tvReq[w].id) # {}
        BY <1>1, <1>6 DEF V!Settles
    <2> QED
        BY <1>2, <1>4, <2>1 DEF V!Settles
<1>7. ~V!Promoting(w)
    BY <1>1, AnalystsPromoteNothing
<1> QED
    BY <1>2, <1>3, <1>5, <1>6, <1>7, RequestStep

\* The row may be gone only when nothing was left to settle.
LEMMA ConfirmRereadKeeps ==
    ASSUME VerdictInv, NEW w \in V!Threads, V!ConfirmReread(w)
    PROVE  VerdictInv'
<1> DEFINE next == IF tvReq[w].turn \in confirmed THEN "stored" ELSE "failed"
           r == [tvReq[w] EXCEPT !.pc = next]
<1>1. tvReq \in [V!Threads -> VerdictRequest] /\ tvReq[w] \in VerdictRequest
      /\ tvReq[w].op = "confirm" /\ tvReq[w].pc = "looked" /\ RequestOk(w)
    BY DEF V!ConfirmReread, VerdictInv, VerdictTypes
<1>2. /\ r \in VerdictRequest /\ r.op = "confirm" /\ r.turn = tvReq[w].turn
      /\ r.pc = next /\ next \in {"stored", "failed"}
      /\ tvReq[w].turn \in confirmed => next = "stored"
    BY <1>1 DEF VerdictRequest
<1>3. /\ tvReq' = [tvReq EXCEPT ![w] = r]
      /\ UNCHANGED <<audit, flags, raised, confirmed, golden, crashes, V!history>>
    BY <1>1 DEF V!ConfirmReread, V!Goto
<1> HIDE DEF r, next
<1>4. tvReq'[w] = r
    BY <1>1, <1>3
<1>5. RequestOk(w)'
    BY <1>1, <1>2, <1>4 DEF RequestOk
<1>6. \A s \in confirmed : V!Settles(w, s) => V!Settles(w, s)'
    BY <1>1, <1>2, <1>4 DEF V!Settles
<1>7. ~V!Promoting(w)
    BY <1>1, AnalystsPromoteNothing
<1> QED
    BY <1>2, <1>3, <1>5, <1>6, <1>7, RequestStep

LEMMA RereadFailedKeeps ==
    ASSUME VerdictInv, NEW w \in V!Threads, V!RereadFailed(w)
    PROVE  VerdictInv'
<1>1. /\ tvReq' = [tvReq EXCEPT ![w] = V!Free] /\ tvReq \in [V!Threads -> VerdictRequest]
      /\ tvReq[w].pc = "failed"
      /\ UNCHANGED <<audit, flags, raised, confirmed, golden, crashes, V!history>>
    BY DEF V!RereadFailed, V!End, VerdictInv, VerdictTypes
<1>2. RequestOk(w)'
    BY <1>1, FreeRequest DEF RequestOk
<1>3. (\A s \in confirmed : ~V!Settles(w, s)) /\ ~V!Promoting(w)
    BY <1>1, AnalystsPromoteNothing DEF V!Settles
<1> QED
    BY <1>1, <1>2, <1>3, FreeRequest, RequestStep

\* A flag that is not open any more needs nobody to resolve it.
LEMMA ResolveLookKeeps ==
    ASSUME VerdictInv, NEW w \in V!Threads, V!ResolveLook(w)
    PROVE  VerdictInv'
<1>1. /\ tvReq \in [V!Threads -> VerdictRequest] /\ tvReq[w] \in VerdictRequest
      /\ tvReq[w].op = "resolve" /\ tvReq[w].pc = "looked" /\ RequestOk(w)
      /\ UNCHANGED <<audit, flags, raised, confirmed, golden, crashes, V!history>>
    BY DEF V!ResolveLook, VerdictInv, VerdictTypes
<1>2. \A s \in confirmed : ~V!Settles(w, s)
    BY <1>1 DEF V!Settles
<1>3. CASE V!Open(tvReq[w].id)
    <2> DEFINE r == [tvReq[w] EXCEPT !.pc = "chosen"]
    <2>1. /\ r \in VerdictRequest /\ r.op = "resolve" /\ r.turn = tvReq[w].turn
          /\ r.pc = "chosen" /\ r.id = tvReq[w].id /\ r.outcome = tvReq[w].outcome
        BY <1>1 DEF VerdictRequest
    <2>2. tvReq' = [tvReq EXCEPT ![w] = r]
        BY <1>1, <1>3 DEF V!ResolveLook, V!Goto
    <2> HIDE DEF r
    <2>3. tvReq'[w] = r /\ UNCHANGED <<flags, golden, given>>
        BY <1>1, <2>2 DEF V!history
    <2>4. ResolveOk(w) /\ w \in Triage /\ r.turn \in Turns
        BY <1>1, <2>1 DEF RequestOk
    <2>5. ResolveOk(w)'
        BY <1>1, <2>1, <2>3, <2>4 DEF ResolveOk, HasCase
    <2>6. RequestOk(w)'
        BY <2>1, <2>3, <2>4, <2>5 DEF RequestOk
    <2>7. V!Promoting(w) => V!Promoting(w)'
        BY <2>1, <2>3 DEF V!Promoting
    <2> QED
        BY <1>1, <1>2, <2>1, <2>2, <2>6, <2>7, RequestStep
<1>4. CASE ~V!Open(tvReq[w].id)
    <2>1. tvReq' = [tvReq EXCEPT ![w] = V!Free]
        BY <1>4 DEF V!ResolveLook, V!End
    <2>2. RequestOk(w)'
        BY <1>1, <2>1, FreeRequest DEF RequestOk
    <2>3. \A f \in flags : f.status = "open" => tvReq[w].id # f.id
        BY <1>4 DEF V!Open, V!Row
    <2> QED
        BY <1>1, <1>2, <2>1, <2>2, <2>3, FreeRequest, RequestStep
<1> QED
    BY <1>3, <1>4

LEMMA ResolveStartKeeps ==
    ASSUME VerdictInv, NEW w \in V!Threads, NEW id \in 1 .. MaxFlags, NEW outcome \in Outcomes,
           V!ResolveStart(w, id, outcome)
    PROVE  VerdictInv'
<1>1. PICK f \in V!Row(id) : f = (CHOOSE g \in V!Row(id) : TRUE)
    BY DEF V!ResolveStart
<1>2. f \in flags /\ f.id = id /\ f.turn \in Turns /\ given[id] # "never"
      /\ \A g \in flags : g.id = id => g = f
    BY <1>1 DEF V!Row, VerdictInv, VerdictTypes, V!Flag
<1>3. outcome \in V!AllOutcomes \cup {"none"} /\ id \in 0 .. MaxFlags /\ MaxFlags \in Nat
    BY VerdictsConfigured DEF V!Configured
<1> DEFINE r == [V!Free EXCEPT !.op = "resolve", !.id = id, !.outcome = outcome,
                     !.pc = V!FirstStep(outcome), !.turn = f.turn]
<1>4. /\ V!FirstStep(outcome) \in {"joined", "looked"}
      /\ outcome = "golden_case" <=> V!FirstStep(outcome) = "joined"
    BY DEF V!FirstStep
<1>5. /\ r \in VerdictRequest /\ r.op = "resolve" /\ r.turn = f.turn /\ r.id = id
      /\ r.outcome = outcome /\ r.pc = V!FirstStep(outcome)
    BY <1>2, <1>3, <1>4, FreeRequest DEF VerdictRequest, V!Free
<1>6. /\ tvReq \in [V!Threads -> VerdictRequest] /\ w \in Triage /\ tvReq[w].pc = "free"
      /\ UNCHANGED <<audit, flags, raised, confirmed, golden, crashes, V!history>>
    BY DEF V!ResolveStart, VerdictInv, VerdictTypes
<1>7. tvReq' = [tvReq EXCEPT ![w] = r]
    BY <1>1 DEF V!ResolveStart
<1> HIDE DEF r
<1>8. tvReq'[w] = r /\ UNCHANGED <<flags, given>>
    BY <1>6, <1>7 DEF V!history
<1>9. ResolveOk(w)'
    BY <1>2, <1>4, <1>5, <1>8 DEF ResolveOk
<1>10. RequestOk(w)'
    BY <1>2, <1>4, <1>5, <1>6, <1>8, <1>9 DEF RequestOk
<1>11. (\A s \in confirmed : ~V!Settles(w, s)) /\ ~V!Promoting(w)
    BY <1>6, AnalystsPromoteNothing DEF V!Settles
<1> QED
    BY <1>5, <1>6, <1>7, <1>10, <1>11, RequestStep

\* The verdict just stored has its storer to settle it; a number that had a golden
\* case is one that was given before.
LEMMA FlagInsertKeeps ==
    ASSUME VerdictInv, NEW w \in V!Threads, V!FlagInsert(w)
    PROVE  VerdictInv'
<1> DEFINE r == [tvReq[w] EXCEPT !.pc = "looked", !.id = V!NewId]
           new == [id |-> V!NewId, turn |-> tvReq[w].turn, status |-> "open",
                   outcome |-> "none", case |-> 0, by |-> NoTurn]
<1>1. /\ tvReq \in [V!Threads -> VerdictRequest] /\ tvReq[w] \in VerdictRequest
      /\ tvReq[w].op = "flag" /\ tvReq[w].pc = "joined" /\ RequestOk(w)
      /\ raised < MaxFlags /\ raised \in Nat /\ MaxFlags \in Nat
      /\ flags' = flags \cup {new} /\ raised' = raised + 1
      /\ given' = [given EXCEPT ![V!NewId] = IF @ = "never" THEN "once" ELSE "again"]
      /\ given \in [1 .. MaxFlags -> Counts]
      /\ UNCHANGED <<audit, confirmed, golden, crashes, orphaned, cut>>
    BY VerdictsConfigured DEF V!FlagInsert, VerdictInv, VerdictTypes, V!Configured
<1>2. tvReq' = [tvReq EXCEPT ![w] = r]
    BY <1>1 DEF V!FlagInsert
<1>3. /\ V!NewId \in 1 .. raised + 1 /\ \A f \in flags : f.id # V!NewId
      /\ V!NewId \in 1 .. MaxFlags /\ V!NewId \in 0 .. MaxFlags
    BY <1>1, NewIdIsFree
<1>4. /\ r \in VerdictRequest /\ r.op = "flag" /\ r.turn = tvReq[w].turn /\ r.pc = "looked"
      /\ r.id = V!NewId
    BY <1>1, <1>3 DEF VerdictRequest
<1>5. r.turn \in Turns /\ w \in Handlers
    BY <1>1, <1>4 DEF RequestOk
<1>6. new \in V!Flag /\ new.id = V!NewId /\ new.turn = r.turn /\ new.status = "open"
      /\ new.outcome = "none"
    BY <1>1, <1>3, <1>4, <1>5 DEF V!Flag
<1>7. /\ given' \in [1 .. MaxFlags -> Counts]
      /\ given'[V!NewId] = IF given[V!NewId] = "never" THEN "once" ELSE "again"
      /\ \A id \in 1 .. MaxFlags : id # V!NewId => given'[id] = given[id]
    BY <1>1, <1>3 DEF Counts
<1> HIDE DEF r, new
<1>8. tvReq'[w] = r /\ tvReq' \in [V!Threads -> VerdictRequest]
      /\ \A u \in V!Threads : u # w => tvReq'[u] = tvReq[u]
    BY <1>1, <1>2, <1>4
<1>9. \A id \in 1 .. MaxFlags : given[id] # "never" => given'[id] \in {given[id], "again"}
    BY <1>7
<1>10. \A id \in 1 .. MaxFlags : given[id] # "never" => given'[id] # "never"
    BY <1>9
<1>11. VerdictTypes'
    <2>1. flags' \subseteq V!Flag /\ raised' \in 0 .. MaxFlags
        BY <1>1, <1>6 DEF VerdictInv, VerdictTypes
    <2>2. \A f, g \in flags' : f.id = g.id => f = g
        BY <1>1, <1>3, <1>6 DEF VerdictInv, VerdictTypes
    <2>3. \A f \in flags : f.id \in 1 .. MaxFlags /\ f.id <= raised /\ given[f.id] # "never"
        BY VerdictFacts DEF VerdictInv, VerdictTypes
    <2>4. \A f \in flags' : f.id <= raised'
        BY <1>1, <1>3, <1>6, <2>3
    <2>5. \A f \in flags' : given'[f.id] # "never"
        BY <1>1, <1>6, <1>7, <1>10, <2>3
    <2>6. \A i \in DOMAIN golden' : given'[golden'[i].id] # "never"
        BY <1>1, <1>10, VerdictFacts DEF VerdictInv, VerdictTypes
    <2> QED
        BY <1>1, <1>7, <1>8, <2>1, <2>2, <2>4, <2>5, <2>6 DEF VerdictInv, VerdictTypes
<1>12. ASSUME NEW u \in V!Threads
       PROVE  RequestOk(u)'
    <2>1. CASE u = w
        BY <1>4, <1>5, <1>8, <2>1 DEF RequestOk
    <2>2. CASE u # w
        <3>1. \A g \in flags' : \/ \E f \in flags : f.id = g.id /\ f.turn = g.turn
                                \/ given[g.id] = "never" \/ given'[g.id] = "again"
            BY <1>1, <1>6, <1>7
        <3> QED
            BY <1>1, <1>8, <1>9, <2>2, <3>1, OthersStay
    <2> QED
        BY <2>1, <2>2
<1>13. V!VerdictsExclude'
    <2> SUFFICES ASSUME NEW f \in flags', f.status = "open", f.turn \in confirmed,
                        f.turn \notin orphaned
                 PROVE  \E x \in Handlers : V!Settles(x, f.turn)'
        BY <1>1 DEF V!VerdictsExclude
    <2>1. CASE f = new
        <3>1. \E g \in flags' : g.id = r.id /\ g.turn = f.turn
            BY <1>1, <1>4, <1>6, <2>1
        <3>2. V!Settles(w, f.turn)'
            BY <1>4, <1>6, <1>8, <2>1, <3>1 DEF V!Settles, V!Row
        <3> QED
            BY <1>5, <3>2
    <2>2. CASE f \in flags
        <3>1. PICK x \in Handlers : V!Settles(x, f.turn)
            BY <2>2 DEF VerdictInv, V!VerdictsExclude
        <3>2. x # w
            BY <1>1, <3>1 DEF V!Settles
        <3> QED
            BY <1>1, <1>8, <3>1, <3>2, SettlesStays DEF V!Threads
    <2> QED
        BY <1>1, <2>1, <2>2
<1>14. V!GoldenBacked'
    <2> SUFFICES ASSUME NEW f \in flags', f.outcome = "golden_case"
                 PROVE  \E i \in DOMAIN golden : golden[i].id = f.case
                            /\ (golden[i].turn = f.turn \/ given'[f.id] = "again")
        BY <1>1 DEF V!GoldenBacked
    <2>1. f \in flags /\ f.id # V!NewId /\ f.id \in 1 .. MaxFlags
        BY <1>1, <1>3, <1>6, VerdictFacts DEF VerdictInv
    <2> QED
        BY <1>7, <2>1 DEF VerdictInv, V!GoldenBacked
<1>15. V!PromotedDecided'
    <2>1. \A g \in flags' : g.status = "open" =>
             (\E f \in flags : f.status = "open" /\ f.id = g.id) \/ given'[g.id] = "again"
                 \/ given[g.id] = "never"
        BY <1>1, <1>6, <1>7
    <2>2. \A x \in Triage : V!Promoting(x) => x # w
        BY <1>1, AnalystsPromoteNothing
    <2>3. \A x \in Triage : V!Promoting(x) => V!Promoting(x)' /\ tvReq'[x].id = tvReq[x].id
        BY <1>8, <2>2 DEF V!Promoting, V!Threads
    <2> QED
        BY <1>1, <1>9, <2>1, <2>3, PromotedStays
<1> QED
    BY <1>11, <1>12, <1>13, <1>14, <1>15 DEF VerdictInv

\* A step of an analyst's request, or of none, in which only the confirmations
\* change: rows, lines and the admins' requests stay as they are.
LEMMA ConfirmationStep ==
    ASSUME VerdictInv, NEW w \in V!Threads,
           tvReq' = [tvReq EXCEPT ![w] = tvReq'[w]], tvReq'[w] \in VerdictRequest,
           ~V!Promoting(w), RequestOk(w)',
           confirmed' \subseteq Turns,
           UNCHANGED <<flags, raised, golden, crashes, V!history>>,
           audit' \in [Turns -> {"none", "ok", "failed"}],
           \A t \in Turns : audit'[t] \in {audit[t], "none"},
           V!VerdictsExclude'
    PROVE  VerdictInv'
<1>1. /\ tvReq \in [V!Threads -> VerdictRequest]
      /\ \A u \in V!Threads : u # w => tvReq'[u] = tvReq[u]
      /\ tvReq' \in [V!Threads -> VerdictRequest]
      /\ UNCHANGED <<orphaned, given, cut>>
    BY DEF VerdictInv, VerdictTypes, V!history
<1>2. VerdictTypes'
    BY <1>1 DEF VerdictInv, VerdictTypes
<1>3. ASSUME NEW u \in V!Threads
      PROVE  RequestOk(u)'
    BY <1>1, <1>3, OthersStay
<1>4. V!GoldenBacked'
    BY <1>1 DEF VerdictInv, V!GoldenBacked
<1>5. V!PromotedDecided'
    <2>1. \A x \in Triage : V!Promoting(x) => V!Promoting(x)' /\ tvReq'[x].id = tvReq[x].id
        BY <1>1 DEF V!Promoting, V!Threads
    <2> QED
        BY <1>1, <2>1, PromotedStays
<1> QED
    BY <1>2, <1>3, <1>4, <1>5 DEF VerdictInv

LEMMA FlagWithdrawKeeps ==
    ASSUME VerdictInv, NEW w \in V!Threads, V!FlagWithdraw(w)
    PROVE  VerdictInv'
<1>1. /\ tvReq \in [V!Threads -> VerdictRequest] /\ tvReq' = [tvReq EXCEPT ![w] = V!Free]
      /\ confirmed' = confirmed \ {tvReq[w].turn} /\ confirmed \subseteq Turns
      /\ tvReq[w].op = "flag" /\ audit \in [Turns -> {"none", "ok", "failed"}]
      /\ UNCHANGED <<audit, flags, raised, golden, crashes, V!history>>
    BY DEF V!FlagWithdraw, V!End, VerdictInv, VerdictTypes
<1>2. tvReq'[w] = V!Free /\ \A u \in V!Threads : u # w => tvReq'[u] = tvReq[u]
    BY <1>1, FreeRequest
<1>3. RequestOk(w)'
    BY <1>2, FreeRequest DEF RequestOk
<1>4. V!VerdictsExclude'
    <2> SUFFICES ASSUME NEW f \in flags, f.status = "open", f.turn \in confirmed',
                        f.turn \notin orphaned
                 PROVE  \E x \in Handlers : V!Settles(x, f.turn)'
        BY <1>1 DEF V!VerdictsExclude, V!history
    <2>1. PICK x \in Handlers : V!Settles(x, f.turn)
        BY <1>1 DEF VerdictInv, V!VerdictsExclude
    <2>2. x # w
        BY <1>1, <2>1 DEF V!Settles
    <2> QED
        BY <1>1, <1>2, <2>1, <2>2, SettlesStays DEF V!Threads
<1> QED
    BY <1>1, <1>2, <1>3, <1>4, FreeRequest, AnalystsPromoteNothing, ConfirmationStep

\* The verdict just stored has its storer to settle it.
LEMMA ConfirmInsertKeeps ==
    ASSUME VerdictInv, NEW w \in V!Threads, V!ConfirmInsert(w)
    PROVE  VerdictInv'
<1> DEFINE r == [tvReq[w] EXCEPT !.pc = "looked", !.created = tvReq[w].turn \notin confirmed]
<1>1. /\ tvReq \in [V!Threads -> VerdictRequest] /\ tvReq[w] \in VerdictRequest
      /\ tvReq[w].op = "confirm" /\ tvReq[w].pc = "insert" /\ RequestOk(w)
      /\ confirmed' = confirmed \cup {tvReq[w].turn} /\ confirmed \subseteq Turns
      /\ audit \in [Turns -> {"none", "ok", "failed"}]
      /\ UNCHANGED <<audit, flags, raised, golden, crashes, V!history>>
    BY DEF V!ConfirmInsert, VerdictInv, VerdictTypes
<1>2. tvReq' = [tvReq EXCEPT ![w] = r]
    BY <1>1 DEF V!ConfirmInsert
<1>3. (tvReq[w].turn \notin confirmed) \in BOOLEAN
    OBVIOUS
<1>4. r \in VerdictRequest /\ r.op = "confirm" /\ r.turn = tvReq[w].turn /\ r.pc = "looked"
    BY <1>1, <1>3 DEF VerdictRequest
<1>5. r.turn \in Turns /\ w \in Handlers
    BY <1>1, <1>4 DEF RequestOk
<1> HIDE DEF r
<1>6. tvReq'[w] = r /\ \A u \in V!Threads : u # w => tvReq'[u] = tvReq[u]
    BY <1>1, <1>2, <1>4
<1>7. RequestOk(w)'
    BY <1>4, <1>5, <1>6 DEF RequestOk
<1>8. V!VerdictsExclude'
    <2> SUFFICES ASSUME NEW f \in flags, f.status = "open", f.turn \in confirmed',
                        f.turn \notin orphaned
                 PROVE  \E x \in Handlers : V!Settles(x, f.turn)'
        BY <1>1 DEF V!VerdictsExclude, V!history
    <2>1. CASE f.turn = r.turn
        BY <1>4, <1>5, <1>6, <2>1 DEF V!Settles
    <2>2. CASE f.turn # r.turn
        <3>1. PICK x \in Handlers : V!Settles(x, f.turn)
            BY <1>1, <1>4, <2>2 DEF VerdictInv, V!VerdictsExclude
        <3>2. x # w
            BY <1>1, <3>1 DEF V!Settles
        <3> QED
            BY <1>1, <1>6, <3>1, <3>2, SettlesStays DEF V!Threads
    <2> QED
        BY <2>1, <2>2
<1> QED
    BY <1>1, <1>2, <1>4, <1>5, <1>6, <1>7, <1>8, AnalystsPromoteNothing, ConfirmationStep

LEMMA WithdrawKeeps ==
    ASSUME VerdictInv, NEW t \in Turns, V!Withdraw(t)
    PROVE  VerdictInv'
<1>1. /\ confirmed' = confirmed \ {t}
      /\ UNCHANGED <<audit, flags, raised, golden, tvReq, crashes, orphaned, given, cut>>
    BY DEF V!Withdraw, V!history
<1>2. VerdictTypes'
    BY <1>1 DEF VerdictInv, VerdictTypes
<1>3. \A u \in V!Threads : RequestOk(u)'
    BY <1>1 DEF VerdictInv, RequestOk, ResolveOk, HasCase
<1>4. V!VerdictsExclude'
    BY <1>1 DEF VerdictInv, V!VerdictsExclude, V!Settles, V!Row
<1>5. V!GoldenBacked' /\ V!PromotedDecided'
    BY <1>1 DEF VerdictInv, V!GoldenBacked, V!PromotedDecided, V!Promoting
<1> QED
    BY <1>2, <1>3, <1>4, <1>5 DEF VerdictInv

LEMMA RotateKeeps ==
    ASSUME VerdictInv, NEW t \in Turns, V!Rotate(t)
    PROVE  VerdictInv'
<1>1. /\ audit' = [audit EXCEPT ![t] = "none"]
      /\ audit \in [Turns -> {"none", "ok", "failed"}]
      /\ UNCHANGED <<flags, raised, confirmed, golden, tvReq, crashes, orphaned, given, cut>>
    BY DEF V!Rotate, V!history, VerdictInv, VerdictTypes
<1>2. VerdictTypes'
    BY <1>1 DEF VerdictInv, VerdictTypes
<1>3. \A u \in V!Threads : RequestOk(u)'
    BY <1>1, OthersStay
<1>4. V!VerdictsExclude'
    BY <1>1 DEF VerdictInv, V!VerdictsExclude, V!Settles, V!Row
<1>5. V!GoldenBacked' /\ V!PromotedDecided'
    BY <1>1 DEF VerdictInv, V!GoldenBacked, V!PromotedDecided, V!Promoting
<1> QED
    BY <1>2, <1>3, <1>4, <1>5 DEF VerdictInv

\* A confirmation that takes the turn's open flags back leaves none to settle.
LEMMA ConfirmWithdrawKeeps ==
    ASSUME VerdictInv, NEW w \in V!Threads, V!ConfirmWithdraw(w)
    PROVE  VerdictInv'
<1>1. /\ tvReq \in [V!Threads -> VerdictRequest] /\ tvReq' = [tvReq EXCEPT ![w] = V!Free]
      /\ flags' = flags \ {f \in flags : f.turn = tvReq[w].turn /\ f.status = "open"}
      /\ tvReq[w].op = "confirm"
      /\ UNCHANGED <<audit, confirmed, raised, golden, crashes, orphaned, given, cut>>
    BY DEF V!ConfirmWithdraw, V!Withdrawn, V!End, V!history, VerdictInv, VerdictTypes
<1>2. tvReq'[w] = V!Free /\ tvReq' \in [V!Threads -> VerdictRequest]
      /\ \A u \in V!Threads : u # w => tvReq'[u] = tvReq[u]
    BY <1>1, FreeRequest
<1>3. VerdictTypes'
    BY <1>1, <1>2 DEF VerdictInv, VerdictTypes
<1>4. ASSUME NEW u \in V!Threads
      PROVE  RequestOk(u)'
    <2>1. CASE u = w
        BY <1>2, <2>1, FreeRequest DEF RequestOk
    <2>2. CASE u # w
        BY <1>1, <1>2, <2>2, OthersStay
    <2> QED
        BY <2>1, <2>2
<1>5. V!VerdictsExclude'
    <2> SUFFICES ASSUME NEW f \in flags', f.status = "open", f.turn \in confirmed,
                        f.turn \notin orphaned
                 PROVE  \E x \in Handlers : V!Settles(x, f.turn)'
        BY <1>1 DEF V!VerdictsExclude
    <2>1. PICK x \in Handlers : V!Settles(x, f.turn)
        BY <1>1 DEF VerdictInv, V!VerdictsExclude
    <2>2. x # w
        BY <1>1, <2>1 DEF V!Settles
    <2>3. f.turn # tvReq[w].turn
        BY <1>1
    <2>4. \A g \in flags : g.turn = f.turn => g \in flags'
        BY <1>1, <2>3
    <2> QED
        BY <1>2, <2>1, <2>2, <2>4, SettlesStays DEF V!Threads
<1>6. V!GoldenBacked'
    BY <1>1 DEF VerdictInv, V!GoldenBacked
<1>7. V!PromotedDecided'
    <2>1. ~V!Promoting(w)
        BY <1>1, AnalystsPromoteNothing
    <2>2. \A x \in Triage : V!Promoting(x) => V!Promoting(x)' /\ tvReq'[x].id = tvReq[x].id
        BY <1>2, <2>1 DEF V!Promoting, V!Threads
    <2> QED
        BY <1>1, <2>2, PromotedStays
<1> QED
    BY <1>3, <1>4, <1>5, <1>6, <1>7 DEF VerdictInv

\* A line more for the golden file, whose flag its admin is about to resolve.
LEMMA PromoteKeeps ==
    ASSUME VerdictInv, NEW w \in V!Threads, V!Promote(w)
    PROVE  VerdictInv'
<1> DEFINE r == [tvReq[w] EXCEPT !.pc = "looked"]
           line == [id |-> tvReq[w].id, turn |-> tvReq[w].turn]
           n == Len(golden)
<1>1. /\ tvReq \in [V!Threads -> VerdictRequest] /\ tvReq[w] \in VerdictRequest
      /\ tvReq[w].op = "resolve" /\ tvReq[w].pc = "joined" /\ RequestOk(w)
      /\ tvReq' = [tvReq EXCEPT ![w] = r]
      /\ golden \in Seq(GoldenLine) /\ n < MaxCases /\ golden' = Append(golden, line)
      /\ UNCHANGED <<audit, flags, raised, confirmed, crashes, orphaned, given, cut>>
    BY DEF V!Promote, V!Goto, V!history, VerdictInv, VerdictTypes
<1>2. /\ r \in VerdictRequest /\ r.op = "resolve" /\ r.turn = tvReq[w].turn
      /\ r.pc = "looked" /\ r.id = tvReq[w].id /\ r.outcome = tvReq[w].outcome
    BY <1>1 DEF VerdictRequest
<1>3. /\ ResolveOk(w) /\ w \in Triage /\ r.turn \in Turns /\ r.id \in 1 .. MaxFlags
      /\ r.outcome = "golden_case" /\ given[r.id] # "never"
    BY <1>1, <1>2 DEF RequestOk, ResolveOk
<1>4. line \in GoldenLine /\ line = [id |-> r.id, turn |-> r.turn] /\ line.id = r.id
    BY <1>2, <1>3 DEF GoldenLine
<1> HIDE DEF r, line
<1>5. tvReq'[w] = r /\ tvReq' \in [V!Threads -> VerdictRequest]
      /\ \A u \in V!Threads : u # w => tvReq'[u] = tvReq[u]
    BY <1>1, <1>2
<1>6. /\ golden' \in Seq(GoldenLine) /\ Len(golden') = n + 1 /\ n \in Nat
      /\ golden'[n + 1] = line /\ \A i \in 1 .. n : golden'[i] = golden[i]
    BY <1>1, <1>4, AppendProperties
<1>7. /\ \A i \in DOMAIN golden : i \in DOMAIN golden' /\ golden'[i] = golden[i]
      /\ \A i \in DOMAIN golden' : i = n + 1 \/ (i \in DOMAIN golden /\ golden'[i] = golden[i])
    BY <1>1, <1>6
<1>8. Len(golden') <= MaxCases
    BY <1>1, <1>6, VerdictsConfigured DEF V!Configured
<1>9. VerdictTypes'
    <2>1. \A i \in DOMAIN golden' : given[golden'[i].id] # "never"
        BY <1>3, <1>4, <1>6, <1>7 DEF VerdictInv, VerdictTypes
    <2> QED
        BY <1>1, <1>5, <1>6, <1>8, <2>1 DEF VerdictInv, VerdictTypes
<1>10. ASSUME NEW u \in V!Threads
       PROVE  RequestOk(u)'
    <2>1. CASE u = w
        <3>1. n + 1 \in DOMAIN golden'
            BY <1>6
        <3>2. \E i \in DOMAIN golden' : golden'[i] = [id |-> r.id, turn |-> r.turn]
            BY <1>4, <1>6, <3>1
        <3>3. ResolveOk(w)'
            BY <1>1, <1>2, <1>3, <1>5, <3>2 DEF ResolveOk, HasCase
        <3> QED
            BY <1>2, <1>3, <1>5, <2>1, <3>3 DEF RequestOk
    <2>2. CASE u # w
        BY <1>1, <1>5, <1>7, <2>2, OthersStay
    <2> QED
        BY <2>1, <2>2
<1>11. V!VerdictsExclude'
    <2> SUFFICES ASSUME NEW f \in flags, f.status = "open", f.turn \in confirmed,
                        f.turn \notin orphaned
                 PROVE  \E x \in Handlers : V!Settles(x, f.turn)'
        BY <1>1 DEF V!VerdictsExclude
    <2>1. PICK x \in Handlers : V!Settles(x, f.turn)
        BY DEF VerdictInv, V!VerdictsExclude
    <2>2. x # w
        BY <1>1, <2>1 DEF V!Settles
    <2> QED
        BY <1>1, <1>5, <2>1, <2>2, SettlesStays DEF V!Threads
<1>12. V!GoldenBacked'
    BY <1>1, <1>7 DEF VerdictInv, V!GoldenBacked
<1>13. V!PromotedDecided'
    <2> SUFFICES ASSUME NEW f \in flags, NEW i \in DOMAIN golden', f.status = "open",
                        golden'[i].id = f.id
                 PROVE  Attended(f.id)'
        BY <1>1 DEF V!PromotedDecided, Attended
    <2>1. CASE f.id = r.id
        BY <1>2, <1>3, <1>5, <2>1 DEF Attended, V!Promoting
    <2>2. CASE f.id # r.id
        <3>1. i \in DOMAIN golden /\ golden[i].id = f.id
            BY <1>4, <1>6, <1>7, <2>2
        <3>2. Attended(f.id) /\ f.id \in 1 .. MaxFlags
            BY <3>1, VerdictFacts DEF VerdictInv, V!PromotedDecided, Attended
        <3>3. \A x \in Triage : (V!Promoting(x) /\ tvReq[x].id = f.id) =>
                                    (V!Promoting(x)' /\ tvReq'[x].id = f.id)
            BY <1>2, <1>5, <2>2 DEF V!Promoting, V!Threads
        <3> QED
            BY <1>1, <3>2, <3>3, AttendedStays
    <2> QED
        BY <2>1, <2>2
<1> QED
    BY <1>9, <1>10, <1>11, <1>12, <1>13 DEF VerdictInv

\* The flag an admin's update turns f into.
Decided(w, f) ==
    [f EXCEPT !.status = "resolved", !.outcome = tvReq[w].outcome, !.by = w,
              !.case = IF tvReq[w].outcome = "golden_case" THEN f.id ELSE 0]

LEMMA DecidedFlag ==
    ASSUME VerdictInv, NEW w \in V!Threads, tvReq[w].op = "resolve", NEW f \in flags
    PROVE  /\ Decided(w, f) \in V!Flag /\ Decided(w, f).id = f.id
           /\ Decided(w, f).turn = f.turn /\ Decided(w, f).status = "resolved"
           /\ Decided(w, f).outcome = tvReq[w].outcome
           /\ tvReq[w].outcome = "golden_case" => Decided(w, f).case = f.id
<1>1. tvReq[w] \in VerdictRequest /\ RequestOk(w) /\ f \in V!Flag
    BY DEF VerdictInv, VerdictTypes
<1>2. w \in Triage /\ tvReq[w].outcome \in V!AllOutcomes \cup {"none"}
    BY <1>1 DEF RequestOk, VerdictRequest
<1> DEFINE c == IF tvReq[w].outcome = "golden_case" THEN f.id ELSE 0
<1>3. MaxFlags \in Nat /\ f.id \in 1 .. MaxFlags
    BY <1>1, VerdictsConfigured DEF V!Configured, V!Flag
<1>4. c \in 0 .. MaxFlags
    BY <1>3
<1>5. tvReq[w].outcome = "golden_case" => c = f.id
    OBVIOUS
<1>6. Decided(w, f) = [f EXCEPT !.status = "resolved", !.outcome = tvReq[w].outcome,
                                !.by = w, !.case = c]
    BY DEF Decided
<1> HIDE DEF c
<1> QED
    BY <1>1, <1>2, <1>4, <1>5, <1>6 DEF V!Flag

LEMMA ResolveWriteKeeps ==
    ASSUME VerdictInv, NEW w \in V!Threads, V!ResolveWrite(w)
    PROVE  VerdictInv'
<1> DEFINE r == tvReq[w]
           after(f) == IF f.id = r.id THEN Decided(w, f) ELSE f
<1>1. /\ tvReq \in [V!Threads -> VerdictRequest] /\ tvReq' = [tvReq EXCEPT ![w] = V!Free]
      /\ r.op = "resolve" /\ r.pc = "chosen" /\ RequestOk(w)
      /\ flags' = {after(f) : f \in flags}
      /\ UNCHANGED <<audit, confirmed, raised, golden, crashes, orphaned, given, cut>>
    BY DEF V!ResolveWrite, V!End, V!history, VerdictInv, VerdictTypes, Decided
<1>2. tvReq'[w] = V!Free /\ tvReq' \in [V!Threads -> VerdictRequest]
      /\ \A u \in V!Threads : u # w => tvReq'[u] = tvReq[u]
    BY <1>1, FreeRequest
<1>3. ResolveOk(w) /\ w \in Triage
    BY <1>1 DEF RequestOk
<1>4. ASSUME NEW f \in flags
      PROVE  /\ after(f) \in V!Flag /\ after(f).id = f.id /\ after(f).turn = f.turn
             /\ after(f) = f \/ (f.id = r.id /\ after(f) = Decided(w, f))
             /\ after(f).status = "open" => after(f) = f /\ f.id # r.id
    <2>1. f \in V!Flag
        BY DEF VerdictInv, VerdictTypes
    <2> QED
        BY <1>1, <2>1, DecidedFlag
<1> HIDE DEF after
<1>5. (\A g \in flags' : \E f \in flags : g = after(f)) /\ \A f \in flags : after(f) \in flags'
    BY <1>1
<1>6. VerdictTypes'
    <2>1. flags' \subseteq V!Flag
        BY <1>4, <1>5
    <2>2. \A f, g \in flags' : f.id = g.id => f = g
        BY <1>4, <1>5 DEF VerdictInv, VerdictTypes
    <2>3. \A f \in flags' : f.id <= raised /\ given[f.id] # "never"
        BY <1>4, <1>5 DEF VerdictInv, VerdictTypes
    <2> QED
        BY <1>1, <1>2, <2>1, <2>2, <2>3 DEF VerdictInv, VerdictTypes
<1>7. ASSUME NEW u \in V!Threads
      PROVE  RequestOk(u)'
    <2>1. CASE u = w
        BY <1>2, <2>1, FreeRequest DEF RequestOk
    <2>2. CASE u # w
        <3>1. \A g \in flags' : \E f \in flags : f.id = g.id /\ f.turn = g.turn
            BY <1>4, <1>5
        <3> QED
            BY <1>1, <1>2, <2>2, <3>1, OthersStay
    <2> QED
        BY <2>1, <2>2
<1>8. V!VerdictsExclude'
    <2> SUFFICES ASSUME NEW g \in flags', g.status = "open", g.turn \in confirmed,
                        g.turn \notin orphaned
                 PROVE  \E x \in Handlers : V!Settles(x, g.turn)'
        BY <1>1 DEF V!VerdictsExclude
    <2>1. g \in flags
        BY <1>4, <1>5
    <2>2. PICK x \in Handlers : V!Settles(x, g.turn)
        BY <2>1 DEF VerdictInv, V!VerdictsExclude
    <2>3. x # w
        BY <1>1, <2>2 DEF V!Settles
    <2>4. \A f \in flags : \E h \in flags' : h.id = f.id /\ h.turn = f.turn
        BY <1>4, <1>5
    <2> QED
        BY <1>2, <2>2, <2>3, <2>4, SettlesStays DEF V!Threads
<1>9. V!GoldenBacked'
    <2> SUFFICES ASSUME NEW g \in flags', g.outcome = "golden_case"
                 PROVE  \E i \in DOMAIN golden : golden[i].id = g.case
                            /\ (golden[i].turn = g.turn \/ given[g.id] = "again")
        BY <1>1 DEF V!GoldenBacked
    <2>1. PICK f \in flags : g = after(f)
        BY <1>5
    <2>2. CASE g = f
        BY <2>2 DEF VerdictInv, V!GoldenBacked
    <2>3. CASE f.id = r.id /\ g = Decided(w, f)
        <3>1. r.outcome = "golden_case" /\ g.case = r.id /\ g.turn = f.turn /\ g.id = r.id
            BY <1>1, <2>3, DecidedFlag
        <3>2. HasCase(r.id, r.turn) /\ (given[r.id] = "once" => f.turn = r.turn)
            BY <1>1, <1>3, <2>3, <3>1 DEF ResolveOk
        <3>3. given[r.id] \in {"once", "again"}
            BY <1>3 DEF ResolveOk, VerdictInv, VerdictTypes, Counts
        <3> QED
            BY <3>1, <3>2, <3>3 DEF HasCase
    <2> QED
        BY <1>4, <2>1, <2>2, <2>3
<1>10. V!PromotedDecided'
    <2>1. \A g \in flags' : g.status = "open" => g \in flags /\ g.id # r.id
        BY <1>4, <1>5
    <2>2. ASSUME NEW x \in Triage, NEW f \in flags, V!Promoting(x), tvReq[x].id = f.id
          PROVE  (V!Promoting(x)' /\ tvReq'[x].id = f.id)
                    \/ \A g \in flags' : g.status = "open" => g.id # f.id
        <3>1. CASE x = w
            BY <2>1, <2>2, <3>1
        <3>2. CASE x # w
            BY <1>2, <2>2, <3>2 DEF V!Promoting, V!Threads
        <3> QED
            BY <3>1, <3>2
    <2> QED
        BY <1>1, <2>1, <2>2, PromotedStays
<1> QED
    BY <1>6, <1>7, <1>8, <1>9, <1>10 DEF VerdictInv

\* What a request had stored and not settled, its death leaves orphaned; what it
\* had promoted and not resolved, cut short.
LEMMA VerdictCrashKeeps ==
    ASSUME VerdictInv, V!Crash
    PROVE  VerdictInv'
<1> DEFINE dying == {x \in Handlers : tvReq[x].pc # "free"}
           leaving == {x \in Triage : V!Promoting(x)}
<1>1. /\ crashes < MaxCrashes /\ crashes' = crashes + 1 /\ crashes \in 0 .. MaxCrashes
      /\ MaxCrashes \in Nat
      /\ orphaned' = orphaned \cup {tvReq[w].turn : w \in dying}
      /\ cut' = cut \cup {tvReq[w].id : w \in leaving}
      /\ tvReq' = [w \in V!Threads |-> V!Free]
      /\ UNCHANGED <<audit, flags, raised, confirmed, golden, given>>
    BY VerdictsConfigured DEF V!Crash, V!Configured, VerdictInv, VerdictTypes
<1>2. \A w \in dying : tvReq[w].turn \in Turns
    BY DEF VerdictInv, RequestOk, V!Threads
<1>3. \A w \in leaving : tvReq[w].id \in 1 .. MaxFlags
    BY DEF VerdictInv, RequestOk, ResolveOk, V!Threads, V!Promoting
<1>4. crashes' \in 0 .. MaxCrashes
    BY <1>1
<1>5. VerdictTypes'
    BY <1>1, <1>2, <1>3, <1>4, FreeRequest, ZenonT(30) DEF VerdictInv, VerdictTypes
<1>6. \A w \in V!Threads : RequestOk(w)'
    BY <1>1, FreeRequest DEF RequestOk
<1>7. V!VerdictsExclude'
    <2> SUFFICES ASSUME NEW f \in flags, f.status = "open", f.turn \in confirmed,
                        f.turn \notin orphaned
                 PROVE  f.turn \in orphaned'
        BY <1>1 DEF V!VerdictsExclude
    <2>1. PICK x \in Handlers : V!Settles(x, f.turn)
        BY DEF VerdictInv, V!VerdictsExclude
    <2>2. x \in dying /\ tvReq[x].turn = f.turn
        BY <2>1 DEF V!Settles
    <2> QED
        BY <1>1, <2>2
<1>8. V!GoldenBacked'
    BY <1>1 DEF VerdictInv, V!GoldenBacked
<1>9. V!PromotedDecided'
    <2> SUFFICES ASSUME NEW f \in flags, NEW i \in DOMAIN golden, f.status = "open",
                        golden[i].id = f.id
                 PROVE  f.id \in cut' \/ given[f.id] = "again"
        BY <1>1 DEF V!PromotedDecided
    <2> QED
        BY <1>1 DEF VerdictInv, V!PromotedDecided
<1> QED
    BY <1>5, <1>6, <1>7, <1>8, <1>9 DEF VerdictInv

LEMMA VerdictInvariance == V!Spec => []VerdictInv
<1>1. ASSUME VerdictInv, [V!Next]_V!vars
      PROVE  VerdictInv'
    <2>1. ASSUME NEW w \in V!Threads, NEW t \in Turns, V!FlagJoin(w, t) \/ V!ConfirmLook(w, t)
          PROVE  VerdictInv'
        BY <1>1, <2>1, FlagJoinKeeps, ConfirmLookKeeps
    <2>2. ASSUME NEW w \in V!Threads,
                 \/ V!FlagInsert(w) \/ V!FlagReread(w) \/ V!FlagWithdraw(w) \/ V!ConfirmInsert(w)
                 \/ V!ConfirmReread(w) \/ V!ConfirmWithdraw(w) \/ V!RereadFailed(w)
          PROVE  VerdictInv'
        BY <1>1, <2>2, FlagInsertKeeps, FlagRereadKeeps, FlagWithdrawKeeps, ConfirmInsertKeeps,
           ConfirmRereadKeeps, ConfirmWithdrawKeeps, RereadFailedKeeps
    <2>3. ASSUME NEW w \in V!Threads, NEW id \in 1 .. MaxFlags, NEW outcome \in Outcomes,
                 V!ResolveStart(w, id, outcome)
          PROVE  VerdictInv'
        BY <1>1, <2>3, ResolveStartKeeps
    <2>4. ASSUME NEW w \in V!Threads, V!Promote(w) \/ V!ResolveLook(w) \/ V!ResolveWrite(w)
          PROVE  VerdictInv'
        BY <1>1, <2>4, PromoteKeeps, ResolveLookKeeps, ResolveWriteKeeps
    <2>5. ASSUME NEW t \in Turns, V!Withdraw(t) \/ V!Rotate(t)
          PROVE  VerdictInv'
        BY <1>1, <2>5, WithdrawKeeps, RotateKeeps
    <2>6. CASE V!Crash
        BY <1>1, <2>6, VerdictCrashKeeps
    <2>7. CASE UNCHANGED V!vars
        <3>1. VerdictTypes'
            BY <1>1, <2>7 DEF V!vars, V!history, VerdictInv, VerdictTypes
        <3>2. V!VerdictsExclude'
            BY <1>1, <2>7 DEF V!vars, V!history, VerdictInv, V!VerdictsExclude, V!Settles, V!Row
        <3>3. V!GoldenBacked' /\ V!PromotedDecided'
            BY <1>1, <2>7 DEF V!vars, V!history, VerdictInv, V!GoldenBacked, V!PromotedDecided,
               V!Promoting
        <3>4. \A u \in V!Threads : RequestOk(u)'
            BY <1>1, <2>7 DEF V!vars, V!history, VerdictInv, RequestOk, ResolveOk, HasCase
        <3> QED
            BY <3>1, <3>2, <3>3, <3>4 DEF VerdictInv
    <2> QED
        BY <1>1, <2>1, <2>2, <2>3, <2>4, <2>5, <2>6, <2>7 DEF V!Next
<1> QED
    BY <1>1, VerdictsBegin, PTL DEF V!Spec

\* The steps that change no flag leave the flags.
LEMMA FlagsStay ==
    ASSUME [V!Next]_V!vars,
           \A w \in V!Threads : ~V!ConfirmWithdraw(w) /\ ~V!ResolveWrite(w)
    PROVE  flags \subseteq flags'
BY DEF V!Next, V!vars, V!FlagJoin, V!FlagInsert, V!FlagReread, V!FlagWithdraw, V!ConfirmLook,
   V!ConfirmInsert, V!ConfirmReread, V!RereadFailed, V!Withdraw, V!ResolveStart, V!Promote,
   V!ResolveLook, V!Rotate, V!Crash

\* An admin comes between check and update only by finding the flag open.
LEMMA ChosenWhenOpen ==
    ASSUME VerdictInv, [V!Next]_V!vars, NEW x \in Triage,
           tvReq'[x].pc = "chosen"
    PROVE  /\ tvReq'[x].id = tvReq[x].id
           /\ tvReq[x].pc = "chosen" \/ V!Open(tvReq[x].id)
<1>1. tvReq \in [V!Threads -> VerdictRequest] /\ x \in V!Threads /\ V!Free.pc = "free"
    BY FreeRequest DEF VerdictInv, VerdictTypes, V!Threads
<1>2. ASSUME NEW w \in V!Threads, w # x, NEW q, tvReq' = [tvReq EXCEPT ![w] = q]
      PROVE  tvReq'[x] = tvReq[x]
    BY <1>1, <1>2
<1>3. ASSUME NEW q, q.pc # "chosen", tvReq' = [tvReq EXCEPT ![x] = q]
      PROVE  FALSE
    BY <1>1, <1>3
<1>4. ASSUME NEW w \in V!Threads, NEW t \in Turns, V!FlagJoin(w, t) \/ V!ConfirmLook(w, t)
      PROVE  tvReq'[x] = tvReq[x]
    <2>1. \E q \in VerdictRequest : q.pc # "chosen" /\ tvReq' = [tvReq EXCEPT ![w] = q]
        <3>1. /\ [V!Free EXCEPT !.pc = "joined", !.op = "flag", !.turn = t] \in VerdictRequest
              /\ [V!Free EXCEPT !.op = "confirm", !.turn = t,
                     !.pc = IF t \in confirmed THEN "stored" ELSE "insert"] \in VerdictRequest
            BY FreeRequest DEF VerdictRequest, V!Free
        <3> QED
            BY <1>4, <3>1 DEF V!FlagJoin, V!ConfirmLook, V!Free
    <2> QED
        BY <1>2, <1>3, <2>1
<1>5. ASSUME NEW w \in V!Threads,
             \/ V!FlagInsert(w) \/ V!FlagReread(w) \/ V!ConfirmInsert(w)
             \/ V!ConfirmReread(w) \/ V!Promote(w)
      PROVE  tvReq'[x] = tvReq[x]
    <2>1. tvReq[w] \in VerdictRequest
        BY <1>1
    <2>2. \E q : q.pc # "chosen" /\ tvReq' = [tvReq EXCEPT ![w] = q]
        BY <1>1, <1>5, <2>1 DEF V!FlagInsert, V!FlagReread, V!ConfirmInsert, V!ConfirmReread,
           V!Promote, V!Goto, VerdictRequest
    <2> QED
        BY <1>2, <1>3, <2>2
<1>6. ASSUME NEW w \in V!Threads,
             \/ V!FlagWithdraw(w) \/ V!ConfirmWithdraw(w) \/ V!RereadFailed(w)
             \/ V!ResolveWrite(w)
      PROVE  tvReq'[x] = tvReq[x]
    <2>1. tvReq' = [tvReq EXCEPT ![w] = V!Free]
        BY <1>6 DEF V!FlagWithdraw, V!ConfirmWithdraw, V!RereadFailed, V!ResolveWrite, V!End
    <2> QED
        BY <1>1, <1>2, <1>3, <2>1
<1>7. ASSUME NEW w \in V!Threads, NEW id \in 1 .. MaxFlags, NEW outcome \in Outcomes,
             V!ResolveStart(w, id, outcome)
      PROVE  tvReq'[x] = tvReq[x]
    <2>1. \E q : q.pc # "chosen" /\ tvReq' = [tvReq EXCEPT ![w] = q]
        BY <1>7 DEF V!ResolveStart, V!FirstStep, V!Free
    <2> QED
        BY <1>2, <1>3, <2>1
<1>8. ASSUME NEW w \in V!Threads, V!ResolveLook(w)
      PROVE  /\ tvReq'[x].id = tvReq[x].id
             /\ tvReq[x].pc = "chosen" \/ V!Open(tvReq[x].id)
    <2>1. CASE V!Open(tvReq[w].id)
        <3>1. tvReq' = [tvReq EXCEPT ![w].pc = "chosen"] /\ tvReq[w] \in VerdictRequest
            BY <1>1, <1>8, <2>1 DEF V!ResolveLook, V!Goto
        <3> QED
            BY <1>1, <2>1, <3>1 DEF VerdictRequest
    <2>2. CASE ~V!Open(tvReq[w].id)
        <3>1. tvReq' = [tvReq EXCEPT ![w] = V!Free]
            BY <1>8, <2>2 DEF V!ResolveLook, V!End
        <3> QED
            BY <1>1, <1>2, <1>3, <3>1
    <2> QED
        BY <2>1, <2>2
<1>9. ASSUME (\E t \in Turns : V!Withdraw(t) \/ V!Rotate(t)) \/ UNCHANGED V!vars
      PROVE  tvReq'[x] = tvReq[x]
    BY <1>9 DEF V!Withdraw, V!Rotate, V!vars
<1>10. ~V!Crash
    BY <1>1 DEF V!Crash
<1> QED
    BY <1>4, <1>5, <1>6, <1>7, <1>8, <1>9, <1>10 DEF V!Next

\* However clicks in several tabs, admins' decisions and stops overlap, with or
\* without a database that gives ids again: a flag and a confirmation never
\* settle side by side (appdb/confirmations.py); a confirmation is of an answer
\* that ran; a resolved flag is never deleted (withdraw_open_flags) and its
\* decision is overwritten only by an admin who had looked before it was taken
\* (AlreadyResolvedError); one that names a golden case names a line that asks
\* its question (promote_to_golden_case), and no promoted flag is left open but
\* by a stop.
THEOREM VerdictsAreSound == V!Spec => VerdictsSound
<1>1. VerdictInv => V!VerdictsExclude /\ V!GoldenBacked /\ V!PromotedDecided
    BY DEF VerdictInv
<1>2. ASSUME VerdictInv, [V!Next]_V!vars
      PROVE  [\A t \in confirmed' \ confirmed : audit[t] # "failed"]_V!vars
    <2> SUFFICES ASSUME NEW t \in confirmed' \ confirmed
                 PROVE  audit[t] # "failed"
        OBVIOUS
    <2>1. PICK w \in V!Threads : V!ConfirmInsert(w)
        BY <1>2 DEF V!Next, V!vars, V!FlagJoin, V!FlagInsert, V!FlagReread, V!FlagWithdraw,
           V!ConfirmLook, V!ConfirmReread, V!ConfirmWithdraw, V!RereadFailed, V!Withdraw,
           V!ResolveStart, V!Promote, V!ResolveLook, V!ResolveWrite, V!Rotate, V!Crash
    <2>2. tvReq[w].op = "confirm" /\ tvReq[w].pc = "insert" /\ t = tvReq[w].turn
        BY <2>1 DEF V!ConfirmInsert
    <2> QED
        BY <1>2, <2>2 DEF VerdictInv, RequestOk
<1>3. ASSUME VerdictInv, [V!Next]_V!vars, NEW f \in flags, f.status = "resolved"
      PROVE  \E g \in flags' : g.id = f.id /\ g.turn = f.turn
    <2>1. CASE flags \subseteq flags'
        BY <2>1
    <2>2. ASSUME NEW w \in V!Threads, V!ConfirmWithdraw(w)
          PROVE  f \in flags'
        BY <1>3, <2>2 DEF V!ConfirmWithdraw, V!Withdrawn
    <2>3. ASSUME NEW w \in V!Threads, V!ResolveWrite(w)
          PROVE  \E g \in flags' : g.id = f.id /\ g.turn = f.turn
        <3>1. tvReq[w].op = "resolve"
            BY <2>3 DEF V!ResolveWrite
        <3>2. (IF f.id = tvReq[w].id THEN Decided(w, f) ELSE f) \in flags'
            BY <2>3 DEF V!ResolveWrite, Decided
        <3> QED
            BY <1>3, <3>1, <3>2, DecidedFlag
    <2> QED
        BY <1>3, <2>1, <2>2, <2>3, FlagsStay
<1>4. ASSUME VerdictInv, [V!Next]_V!vars
      PROVE  [\A f \in flags : f.status = "resolved" =>
                  \E g \in flags' : g.id = f.id /\ g.turn = f.turn]_V!vars
    BY <1>3, <1>4
<1>5. ASSUME VerdictInv, [V!Next]_V!vars, NEW f \in flags, V!Settled(f)
      PROVE  f \in flags' /\ V!Settled(f)'
    <2>1. f.status = "resolved" /\ \A x \in Triage : tvReq[x].pc = "chosen" => tvReq[x].id # f.id
        BY <1>5 DEF V!Settled
    <2>2. ASSUME NEW w \in V!Threads, V!ConfirmWithdraw(w)
          PROVE  f \in flags'
        BY <2>1, <2>2 DEF V!ConfirmWithdraw, V!Withdrawn
    <2>3. ASSUME NEW w \in V!Threads, V!ResolveWrite(w)
          PROVE  f \in flags'
        <3>1. tvReq[w].pc = "chosen" /\ w \in Triage
            BY <1>5, <2>3 DEF V!ResolveWrite, VerdictInv, RequestOk
        <3>2. f.id # tvReq[w].id
            BY <2>1, <3>1
        <3> QED
            BY <2>3, <3>2 DEF V!ResolveWrite
    <2>4. f \in flags'
        BY <1>5, <2>2, <2>3, FlagsStay
    <2>5. ASSUME NEW x \in Triage, tvReq'[x].pc = "chosen"
          PROVE  tvReq'[x].id # f.id
        <3>1. V!Open(tvReq[x].id) => tvReq[x].id # f.id
            BY <1>5, <2>1 DEF V!Open, V!Row, VerdictInv, VerdictTypes
        <3> QED
            BY <1>5, <2>1, <2>5, <3>1, ChosenWhenOpen
    <2> QED
        BY <2>1, <2>4, <2>5 DEF V!Settled
<1>6. ASSUME VerdictInv, [V!Next]_V!vars
      PROVE  [\A f \in flags : V!Settled(f) => f \in flags' /\ V!Settled(f)']_V!vars
    BY <1>5, <1>6
<1>7. V!Spec => [](V!VerdictsExclude /\ V!GoldenBacked /\ V!PromotedDecided)
    BY <1>1, VerdictInvariance, PTL
<1>8. V!Spec => V!ConfirmedRan
    BY <1>2, VerdictInvariance, PTL DEF V!Spec, V!ConfirmedRan
<1>9. V!Spec => V!ResolvedStays
    BY <1>4, VerdictInvariance, PTL DEF V!Spec, V!ResolvedStays
<1>10. V!Spec => V!DecisionFinal
    BY <1>6, VerdictInvariance, PTL DEF V!Spec, V!DecisionFinal
<1> QED
    BY <1>7, <1>8, <1>9, <1>10 DEF VerdictsSound

(***************************************************************************)
(* The page.  While the open conversation's transcript is fetched nothing  *)
(* is known of the array that is open, so it must not be stashed; once it  *)
(* is there, only what is answered for another conversation can spoil it.  *)
(***************************************************************************)
Coherent(p) ==
    /\ \A s \in Sessions : p.cache[s] # 0 => W!Of(p.heap[p.cache[s]], s)
    /\ \A s, t \in Sessions : (p.cache[s] # 0 /\ p.cache[s] = p.cache[t]) => s = t
Held(p) ==
    W!Of(p.heap[p.cur], p.sid) /\ \A s \in Sessions : p.cache[s] = p.cur => s = p.sid
Seen(p) == W!Of(p.shown, p.sid)

\* The page, and the requests under way that are still to change it.
Fetched(p, flows) == W!Flow("get", p.sid, 0) \notin flows
Loaded(p, flows) == \A f \in flows : f.k \in {"get", "confirmations"} => f.s # p.sid
PageOk(p, flows) ==
    Coherent(p) /\ (Fetched(p, flows) => Held(p)) /\ (Loaded(p, flows) => Seen(p))

HonestFlow ==
    {f \in W!Flows : /\ f.k \in {"get", "confirmations", "delete", "patch"} => f.s \in Sessions
                     /\ f.k = "ensure" => f.s = NoSession}
PageRest ==
    /\ server \in [Sessions -> [there : {"unborn", "live", "gone"}, n : 0 .. 2]]
    /\ mode \in {"live", "simulated"} /\ busy \in BOOLEAN
    /\ reloads \in 0 .. 1 /\ away \in 0 .. 1
PageTypes == PageRest /\ page \in W!Page /\ pending \subseteq HonestFlow
PageInv ==
    /\ PageTypes /\ crossed \in BOOLEAN
    /\ (mode = "live" /\ ~crossed) => PageOk(page, pending)

LEMMA PageFacts ==
    ASSUME NEW p \in W!Page
    PROVE  /\ p.sid \in Sessions \cup {Demo, NoSession}
           /\ p.stored \in Sessions \cup {Demo, NoSession} /\ p.index \subseteq Sessions
           /\ p.heap \in [W!Slots -> Seq(W!Turn)] /\ p.cur \in W!Slots
           /\ p.cache \in [Sessions -> W!Slots \cup {0}] /\ p.shown \in Seq(W!Turn)
           /\ p.card \in BOOLEAN
           /\ 0 \notin W!Slots /\ \A t \in W!Turn : t[1] \in Sessions
BY DEF W!Page, W!Slots, W!Turn

\* One array more than the conversations and the open transcript can hold.
LEMMA FreeSlot ==
    ASSUME NEW p \in W!Page
    PROVE  \E i \in W!Slots : i # p.cur /\ \A s \in Sessions : p.cache[s] # i
<1> DEFINE cached == {p.cache[s] : s \in Sessions}
           taken == cached \cup {p.cur}
           n == Cardinality(Sessions)
<1>1. W!Cardinality(Sessions) = n
    BY DEF W!Cardinality, Cardinality
<1>2. IsFiniteSet(Sessions)
    BY PageConfigured DEF W!Configured, W!IsFiniteSet, IsFiniteSet
<1>3. n \in Nat
    BY <1>2, FS_CardinalityType
<1>4. p.cache \in Surjection(Sessions, cached)
    <2>1. p.cache \in [Sessions -> cached]
        BY PageFacts
    <2> QED
        BY <2>1 DEF Surjection
<1>5. IsFiniteSet(cached) /\ Cardinality(cached) <= n
    BY <1>2, <1>4, FS_Surjection
<1>6. IsFiniteSet(taken) /\ Cardinality(taken) <= n + 1
    <2>1. Cardinality(cached) \in Nat
        BY <1>5, FS_CardinalityType
    <2> HIDE DEF cached
    <2>2. IsFiniteSet(cached \cup {p.cur})
          /\ Cardinality(cached \cup {p.cur}) <= Cardinality(cached) + 1
        BY <1>5, <2>1, FS_AddElement
    <2>3. Cardinality(cached \cup {p.cur}) \in Nat
        BY <2>2, FS_CardinalityType
    <2> QED
        BY <1>3, <1>5, <2>1, <2>2, <2>3
<1>7. W!Slots = 1 .. n + 2 /\ Cardinality(W!Slots) = n + 2
    <2>1. W!Slots = 1 .. n + 2
        BY <1>1 DEF W!Slots
    <2>2. Cardinality(1 .. n + 2) = n + 2
        BY <1>3, FS_Interval
    <2> QED
        BY <2>1, <2>2
<1>8. ~(W!Slots \subseteq taken)
    <2> SUFFICES ASSUME W!Slots \subseteq taken PROVE FALSE
        OBVIOUS
    <2> HIDE DEF taken
    <2>1. Cardinality(W!Slots) <= Cardinality(taken) /\ Cardinality(taken) \in Nat
        BY <1>6, FS_Subset, FS_CardinalityType
    <2> QED
        BY <1>3, <1>6, <1>7, <2>1
<1> QED
    BY <1>8

LEMMA Assigned ==
    ASSUME NEW p \in W!Page, NEW turns \in Seq(W!Turn)
    PROVE  LET q == W!Assign(p, turns)
           IN /\ q \in W!Page /\ q.sid = p.sid /\ q.stored = p.stored /\ q.index = p.index
              /\ q.cache = p.cache /\ q.shown = p.shown /\ q.cur # p.cur
              /\ \A s \in Sessions : p.cache[s] # q.cur
              /\ q.heap[q.cur] = turns /\ \A i \in W!Slots \ {q.cur} : q.heap[i] = p.heap[i]
<1> DEFINE free == CHOOSE i \in W!Slots : i # p.cur /\ \A s \in Sessions : p.cache[s] # i
           q == [p EXCEPT !.cur = free, !.heap[free] = turns]
<1>1. free \in W!Slots /\ free # p.cur /\ \A s \in Sessions : p.cache[s] # free
    BY FreeSlot
<1>2. W!Assign(p, turns) = q
    BY DEF W!Assign
<1> HIDE DEF free
<1>3. [p.heap EXCEPT ![free] = turns] \in [W!Slots -> Seq(W!Turn)]
    BY <1>1, PageFacts
<1>4. q = [p EXCEPT !.cur = free, !.heap = [p.heap EXCEPT ![free] = turns]]
    OBVIOUS
<1>5. /\ q \in W!Page /\ q.sid = p.sid /\ q.stored = p.stored /\ q.index = p.index
      /\ q.cache = p.cache /\ q.shown = p.shown /\ q.cur = free
      /\ q.heap = [p.heap EXCEPT ![free] = turns]
    BY <1>1, <1>3, <1>4 DEF W!Page
<1>6. q.heap[free] = turns /\ \A i \in W!Slots \ {free} : q.heap[i] = p.heap[i]
    BY <1>1, <1>5, PageFacts
<1> QED
    BY <1>1, <1>2, <1>5, <1>6

LEMMA AssignedIs ==
    ASSUME NEW p \in W!Page, NEW turns \in Seq(W!Turn), NEW q, q = W!Assign(p, turns)
    PROVE  /\ q \in W!Page /\ q.sid = p.sid /\ q.stored = p.stored /\ q.index = p.index
           /\ q.cache = p.cache /\ q.shown = p.shown /\ q.cur # p.cur
           /\ \A s \in Sessions : p.cache[s] # q.cur
           /\ q.heap[q.cur] = turns /\ \A i \in W!Slots \ {q.cur} : q.heap[i] = p.heap[i]
BY Assigned

LEMMA AssignedOk ==
    ASSUME NEW p \in W!Page, NEW turns \in Seq(W!Turn), Coherent(p), W!Of(turns, p.sid)
    PROVE  Coherent(W!Assign(p, turns)) /\ Held(W!Assign(p, turns))
<1> DEFINE q == W!Assign(p, turns)
<1>1. /\ q.sid = p.sid /\ q.cache = p.cache /\ \A s \in Sessions : p.cache[s] # q.cur
      /\ q.heap[q.cur] = turns /\ \A i \in W!Slots \ {q.cur} : q.heap[i] = p.heap[i]
    BY Assigned
<1> HIDE DEF q
<1>2. \A s \in Sessions : p.cache[s] # 0 => q.heap[p.cache[s]] = p.heap[p.cache[s]]
    BY <1>1, PageFacts
<1>3. Coherent(q)
    BY <1>1, <1>2 DEF Coherent
<1>4. Held(q)
    BY <1>1 DEF Held
<1> QED
    BY <1>3, <1>4 DEF q

LEMMA RenderedOk ==
    ASSUME NEW p \in W!Page
    PROVE  LET q == W!Rendered(p)
           IN /\ q \in W!Page /\ q.sid = p.sid /\ q.stored = p.stored /\ q.cache = p.cache
              /\ q.heap = p.heap /\ q.cur = p.cur /\ q.shown = p.heap[p.cur]
              /\ Coherent(p) => Coherent(q)
              /\ Held(p) => Held(q) /\ Seen(q)
<1> DEFINE q == W!Rendered(p)
<1>1. /\ q \in W!Page /\ q.sid = p.sid /\ q.stored = p.stored /\ q.cache = p.cache
      /\ q.heap = p.heap /\ q.cur = p.cur /\ q.shown = p.heap[p.cur]
    BY PageFacts DEF W!Rendered, W!Page
<1> HIDE DEF q
<1>2. (Coherent(p) => Coherent(q)) /\ (Held(p) => Held(q) /\ Seen(q))
    BY <1>1 DEF Coherent, Held, Seen
<1> QED
    BY <1>1, <1>2 DEF q

LEMMA NothingOf == \A s : W!Of(<<>>, s)
    BY DEF W!Of

LEMMA NoTurns == <<>> \in Seq(W!Turn)
    BY EmptySeq

\* An empty array is assigned, of whatever conversation.
LEMMA NothingAssigned ==
    ASSUME NEW p \in W!Page
    PROVE  LET q == W!Rendered(W!Assign(p, <<>>))
           IN q \in W!Page /\ q.sid = p.sid /\ (Coherent(p) => Coherent(q) /\ Held(q) /\ Seen(q))
<1> DEFINE a == W!Assign(p, <<>>)
<1>1. a \in W!Page /\ a.sid = p.sid /\ (Coherent(p) => Coherent(a) /\ Held(a))
    BY NothingOf, NoTurns, Assigned, AssignedOk
<1> HIDE DEF a
<1> QED
    BY <1>1, RenderedOk DEF a

\* A page with another id and index, and none of the arrays touched.
LEMMA SameArrays ==
    ASSUME NEW p \in W!Page, NEW q, q.cache = p.cache, q.heap = p.heap
    PROVE  Coherent(p) => Coherent(q)
BY DEF Coherent

LEMMA EmptiedOk ==
    ASSUME NEW p \in W!Page
    PROVE  LET q == W!Emptied(p)
           IN /\ q \in W!Page /\ q.sid = NoSession
              /\ Coherent(p) => Coherent(q) /\ Held(q) /\ Seen(q)
<1> DEFINE r == [p EXCEPT !.sid = NoSession]
<1>1. r \in W!Page /\ r.sid = NoSession /\ r.cache = p.cache /\ r.heap = p.heap
    BY DEF W!Page
<1>2. W!Emptied(p) = W!Rendered(W!Assign(r, <<>>))
    BY DEF W!Emptied
<1> HIDE DEF r
<1> QED
    BY <1>1, <1>2, SameArrays, NothingAssigned

\* Nothing is stored where the page is emptied for good.
LEMMA ClosedOk ==
    ASSUME NEW p \in W!Page
    PROVE  LET q == [W!Emptied(p) EXCEPT !.stored = NoSession]
           IN /\ q \in W!Page /\ q.sid = NoSession
              /\ Coherent(p) => Coherent(q) /\ Held(q) /\ Seen(q)
<1> DEFINE e == W!Emptied(p)
           q == [e EXCEPT !.stored = NoSession]
<1>1. /\ e \in W!Page /\ e.sid = NoSession
      /\ Coherent(p) => Coherent(e) /\ Held(e) /\ Seen(e)
    BY EmptiedOk
<1> HIDE DEF e
<1>2. /\ q \in W!Page /\ q.sid = e.sid /\ q.cache = e.cache /\ q.heap = e.heap
      /\ q.cur = e.cur /\ q.shown = e.shown
    BY <1>1 DEF W!Page
<1> HIDE DEF q
<1>3. (Coherent(p) => Coherent(q) /\ Held(q) /\ Seen(q))
    BY <1>1, <1>2 DEF Coherent, Held, Seen
<1> QED
    BY <1>1, <1>2, <1>3 DEF q, e

\* Of(turns, NoSession) leaves no turns.
LEMMA NobodysTurns ==
    ASSUME NEW turns \in Seq(W!Turn), W!Of(turns, NoSession)
    PROVE  turns = <<>>
<1>1. \A i \in DOMAIN turns : turns[i] \in W!Turn /\ turns[i][1] = NoSession
    BY ElementOfSeq DEF W!Of
<1>2. NoSession \notin Sessions
    BY PageConfigured DEF W!Configured
<1>3. DOMAIN turns = {}
    BY <1>1, <1>2 DEF W!Turn
<1>4. DOMAIN turns = 1 .. Len(turns) /\ Len(turns) \in Nat
    OBVIOUS
<1>5. Len(turns) = 0
    BY <1>3, <1>4
<1> QED
    BY <1>5, EmptySeq

\* What is shown of a page does not depend on its id's copies or its index.
LEMMA SameScreen ==
    ASSUME NEW p, NEW q, q.sid = p.sid, q.cache = p.cache, q.heap = p.heap, q.cur = p.cur,
           q.shown = p.shown, NEW flows, PageOk(p, flows)
    PROVE  PageOk(q, flows)
BY DEF PageOk, Coherent, Held, Seen, Fetched, Loaded

\* More under way promises less of the page.
LEMMA MoreUnderWay ==
    ASSUME NEW p, NEW flows, NEW more, PageOk(p, flows),
           \A f \in flows : f.k \in {"get", "confirmations"} => f \in more
    PROVE  PageOk(p, more)
<1>1. Fetched(p, more) => Fetched(p, flows)
    BY DEF Fetched, W!Flow
<1>2. Loaded(p, more) => Loaded(p, flows)
    BY DEF Loaded
<1> QED
    BY <1>1, <1>2 DEF PageOk

\* A page that waits for nothing shows what it holds.
LEMMA AllOk ==
    ASSUME NEW p, Coherent(p), Held(p), Seen(p), NEW flows
    PROVE  PageOk(p, flows)
BY DEF PageOk

\* What switchToSession leaves before its first await.
LEMMA LeftIs ==
    ASSUME NEW p \in W!Page, NEW s \in Sessions
    PROVE  LET l == W!Left(p, s)
           IN /\ l \in W!Page /\ l.sid = s /\ l.heap = p.heap /\ l.cur = p.cur
              /\ l.cache = IF p.sid \in Sessions THEN [p.cache EXCEPT ![p.sid] = p.cur] ELSE p.cache
<1> DEFINE l == W!Left(p, s)
<1>1. CASE p.sid \in Sessions
    <2> DEFINE c == [p.cache EXCEPT ![p.sid] = p.cur]
    <2>1. c \in [Sessions -> W!Slots \cup {0}]
        BY PageFacts
    <2>2. l = [p EXCEPT !.cache = c, !.sid = s, !.stored = s]
        BY <1>1 DEF W!Left, W!Stashed
    <2> HIDE DEF c, l
    <2>3. l \in W!Page /\ l.sid = s /\ l.heap = p.heap /\ l.cur = p.cur /\ l.cache = c
        BY <2>1, <2>2 DEF W!Page
    <2> QED
        BY <1>1, <2>3 DEF c, l
<1>2. CASE p.sid \notin Sessions
    <2>1. l = [p EXCEPT !.sid = s, !.stored = s]
        BY <1>2 DEF W!Left, W!Stashed
    <2> HIDE DEF l
    <2>2. l \in W!Page /\ l.sid = s /\ l.heap = p.heap /\ l.cur = p.cur /\ l.cache = p.cache
        BY <2>1 DEF W!Page
    <2> QED
        BY <1>2, <2>2 DEF l
<1> QED
    BY <1>1, <1>2

\* Wherever switchToSession is called, it leaves a page, and a stash of the
\* outgoing transcript, or nothing changed.
LEMMA SwitchedIs ==
    ASSUME NEW p \in W!Page, NEW s \in Sessions
    PROVE  LET l == W!Left(p, s)
               q == W!Switched(p, s)
           IN /\ q \in W!Page /\ q.sid = s
              /\ W!Stays(p, s) => q = p
              /\ ~W!Stays(p, s) => q.cache = l.cache
              /\ W!Fetches(p, s) => q = l
              /\ (~W!Stays(p, s) /\ ~W!Fetches(p, s)) =>
                    /\ q.heap = p.heap /\ q.cur = l.cache[s] /\ q.shown = p.heap[l.cache[s]]
                    /\ l.cache[s] # 0
<1> DEFINE l == W!Left(p, s)
           o == [l EXCEPT !.cur = l.cache[s]]
           q == W!Switched(p, s)
<1>1. /\ l \in W!Page /\ l.sid = s /\ l.heap = p.heap
    BY LeftIs
<1>2. CASE W!Stays(p, s)
    BY <1>2 DEF W!Switched, W!Fetches, W!Stays
<1>3. CASE W!Fetches(p, s)
    <2>1. q = l /\ ~W!Stays(p, s)
        BY <1>3 DEF W!Switched, W!Fetches
    <2> QED
        BY <1>1, <1>3, <2>1
<1>4. CASE ~W!Stays(p, s) /\ ~W!Fetches(p, s)
    <2>1. q = W!Rendered(o) /\ l.cache[s] # 0
        BY <1>4 DEF W!Switched, W!Fetches
    <2> HIDE DEF l
    <2>2. l.cache[s] \in W!Slots
        BY <1>1, <2>1, PageFacts
    <2>3. o \in W!Page /\ o.sid = s /\ o.heap = l.heap /\ o.cache = l.cache
          /\ o.cur = l.cache[s]
        BY <1>1, <2>2 DEF W!Page
    <2> HIDE DEF o, q
    <2>4. /\ q \in W!Page /\ q.sid = o.sid /\ q.cache = o.cache /\ q.heap = o.heap
          /\ q.cur = o.cur /\ q.shown = o.heap[o.cur]
        BY <2>1, <2>3, RenderedOk
    <2>5. /\ q \in W!Page /\ q.sid = s /\ q.cache = l.cache /\ q.heap = p.heap
          /\ q.cur = l.cache[s] /\ q.shown = p.heap[l.cache[s]] /\ l.cache[s] # 0
        BY <1>1, <2>1, <2>3, <2>4
    <2> QED
        BY <1>4, <2>5 DEF q, l
<1> QED
    BY <1>2, <1>3, <1>4

\* The transcript of the outgoing conversation is there, so its stash is its
\* own; the conversation asked for is the open one, and its transcript is too,
\* unless it has yet to be fetched.
LEMMA SwitchedOk ==
    ASSUME NEW p \in W!Page, NEW s \in Sessions, NEW flows \in SUBSET HonestFlow,
           PageOk(p, flows), Fetched(p, flows) \/ W!Switched(p, s).cache[p.sid] = 0
    PROVE  PageOk(W!Switched(p, s), flows \cup W!SwitchFlows(p, s))
<1> DEFINE l == W!Left(p, s)
           q == W!Switched(p, s)
           all == flows \cup W!SwitchFlows(p, s)
<1>1. /\ l \in W!Page /\ l.sid = s /\ l.heap = p.heap /\ l.cur = p.cur
      /\ l.cache = IF p.sid \in Sessions THEN [p.cache EXCEPT ![p.sid] = p.cur] ELSE p.cache
    BY LeftIs
<1>2. /\ q \in W!Page /\ q.sid = s
      /\ W!Stays(p, s) => q = p
      /\ ~W!Stays(p, s) => q.cache = l.cache
      /\ W!Fetches(p, s) => q = l
      /\ (~W!Stays(p, s) /\ ~W!Fetches(p, s)) =>
            /\ q.heap = p.heap /\ q.cur = l.cache[s] /\ q.shown = p.heap[l.cache[s]]
            /\ l.cache[s] # 0
    BY SwitchedIs
<1> HIDE DEF l, q
<1>3. CASE W!Stays(p, s)
    <2>1. W!Switched(p, s) = p
        BY <1>2, <1>3 DEF q
    <2>2. PageOk(p, all)
        BY MoreUnderWay
    <2> QED
        BY <2>1, <2>2
<1>4. CASE ~W!Stays(p, s)
    <2>1. Fetched(p, flows)
        <3> SUFFICES ASSUME ~Fetched(p, flows) PROVE FALSE
            OBVIOUS
        <3>1. p.sid \in Sessions
            BY DEF Fetched, HonestFlow, W!Flow
        <3>2. l.cache[p.sid] = p.cur /\ p.cur # 0
            BY <1>1, <3>1, PageFacts
        <3> QED
            BY <1>2, <1>4, <3>2 DEF q
    <2>2. Coherent(p) /\ Held(p)
        BY <2>1 DEF PageOk
    <2>3. Coherent(l)
        BY <1>1, <2>2, PageFacts DEF Coherent, Held
    <2>4. CASE W!Fetches(p, s)
        <3>1. W!Flow("get", s, 0) \in all
            BY <2>4 DEF W!SwitchFlows
        <3>2. ~Fetched(q, all) /\ ~Loaded(q, all)
            BY <1>2, <3>1 DEF Fetched, Loaded, W!Flow
        <3> QED
            BY <1>2, <2>3, <2>4, <3>2 DEF PageOk, q
    <2>5. CASE ~W!Fetches(p, s)
        <3>1. Coherent(q) /\ Held(q) /\ Seen(q)
            BY <1>1, <1>2, <1>4, <2>3, <2>5, ZenonT(30) DEF Coherent, Held, Seen
        <3> QED
            BY <3>1, AllOk DEF q
    <2> QED
        BY <2>4, <2>5
<1> QED
    BY <1>3, <1>4

LEMMA FlowFacts ==
    /\ \A k, s, t : W!Flow(k, s, t).k = k /\ W!Flow(k, s, t).s = s /\ W!Flow(k, s, t).t = t
    /\ \A k \in {"get", "confirmations", "delete"}, s \in Sessions :
            W!Flow(k, s, 0) \in HonestFlow
    /\ \A k \in {"list", "create", "ensure"} : W!Flow(k, NoSession, 0) \in HonestFlow
    /\ \A s \in Sessions \cup {Demo, NoSession} : W!Flow("stream", s, 0) \in HonestFlow
    /\ \A s \in Sessions, t \in 0 .. 2 : W!Flow("patch", s, t) \in HonestFlow
    /\ \A p \in W!Page, s \in Sessions : W!SwitchFlows(p, s) \subseteq HonestFlow
<1>1. \A k, s, t : W!Flow(k, s, t).k = k /\ W!Flow(k, s, t).s = s /\ W!Flow(k, s, t).t = t
    BY DEF W!Flow
<1>2. \A k \in {"get", "confirmations", "delete"}, s \in Sessions :
            W!Flow(k, s, 0) \in HonestFlow
    BY DEF W!Flow, W!Flows, HonestFlow
<1>3. \A k \in {"list", "create", "ensure"} : W!Flow(k, NoSession, 0) \in HonestFlow
    BY DEF W!Flow, W!Flows, HonestFlow
<1>4. \A s \in Sessions \cup {Demo, NoSession} : W!Flow("stream", s, 0) \in HonestFlow
    BY DEF W!Flow, W!Flows, HonestFlow
<1>5. \A s \in Sessions, t \in 0 .. 2 : W!Flow("patch", s, t) \in HonestFlow
    BY DEF W!Flow, W!Flows, HonestFlow
<1>6. \A p \in W!Page, s \in Sessions : W!SwitchFlows(p, s) \subseteq HonestFlow
    BY <1>2 DEF W!SwitchFlows
<1> QED
    BY <1>1, <1>2, <1>3, <1>4, <1>5, <1>6

\* A freshly opened page, of whatever conversation it remembers.
LEMMA OpenedOk ==
    ASSUME NEW stored \in Sessions \cup {Demo, NoSession}
    PROVE  LET p == W!Opened(stored)
           IN p \in W!Page /\ Coherent(p) /\ Held(p) /\ Seen(p)
<1> DEFINE p == W!Opened(stored)
<1>1. /\ p.sid = stored /\ p.stored = stored /\ p.index = {} /\ p.shown = <<>> /\ p.cur = 1
      /\ p.heap = [i \in W!Slots |-> <<>>] /\ p.cache = [s \in Sessions |-> 0] /\ p.card = FALSE
    BY DEF W!Opened, W!Fresh
<1>2. 1 \in W!Slots
    <2>1. Cardinality(Sessions) \in Nat
        BY PageConfigured, FS_CardinalityType
           DEF W!Configured, W!IsFiniteSet, IsFiniteSet
    <2>2. W!Cardinality(Sessions) = Cardinality(Sessions)
        BY DEF W!Cardinality, Cardinality
    <2> QED
        BY <2>1, <2>2 DEF W!Slots
<1>3. p.heap \in [W!Slots -> Seq(W!Turn)] /\ p.cache \in [Sessions -> W!Slots \cup {0}]
    BY <1>1, NoTurns
<1>4. p = [sid |-> p.sid, stored |-> p.stored, index |-> p.index, heap |-> p.heap,
           cur |-> p.cur, cache |-> p.cache, shown |-> p.shown, card |-> p.card]
    BY DEF W!Opened, W!Fresh
<1> HIDE DEF p
<1>5. p \in W!Page
    BY <1>1, <1>2, <1>3, <1>4, NoTurns DEF W!Page
<1>6. p.heap[p.cur] = <<>>
    BY <1>1, <1>2
<1>7. Coherent(p) /\ Held(p) /\ Seen(p)
    BY <1>1, <1>2, <1>6 DEF Coherent, Held, Seen, W!Of, W!Slots
<1> QED
    BY <1>5, <1>7 DEF p

LEMMA PageSettles ==
    ASSUME PageRest', page' \in W!Page, pending' \subseteq HonestFlow, crossed' \in BOOLEAN,
           (mode' = "live" /\ ~crossed') => PageOk(page', pending')
    PROVE  PageInv'
<1>1. ASSUME PageOk(page', pending') PROVE PageOk(page, pending)'
    BY <1>1 DEF PageOk, Coherent, Held, Seen, Fetched, Loaded, W!Of, W!Flow
<1> QED
    BY <1>1 DEF PageInv, PageTypes

\* A freshly opened page meets nothing.
LEMMA PageBegins == W!Init => PageInv
<1> SUFFICES ASSUME W!Init PROVE PageInv
    OBVIOUS
<1>0. /\ mode = "live" /\ busy = FALSE /\ reloads = 0 /\ away = 0 /\ crossed = FALSE
      /\ page = W!Opened(NoSession) /\ pending = {W!Flow("list", NoSession, 0)}
    BY DEF W!Init
<1>1. page \in W!Page /\ PageOk(page, pending)
    BY <1>0, OpenedOk, AllOk
<1>2. pending \subseteq HonestFlow
    BY <1>0, FlowFacts
<1>3. server \in [Sessions -> [there : {"unborn", "live", "gone"}, n : 0 .. 2]]
    BY DEF W!Init
<1>4. PageRest
    <2>1. reloads \in 0 .. 1 /\ away \in 0 .. 1
        BY <1>0
    <2>2. mode \in {"live", "simulated"} /\ busy \in BOOLEAN
        BY <1>0
    <2> QED
        BY <1>3, <2>1, <2>2 DEF PageRest
<1>5. crossed \in BOOLEAN
    BY <1>0
<1> QED
    BY <1>1, <1>2, <1>4, <1>5 DEF PageInv, PageTypes

LEMMA ReloadKeeps == ASSUME PageInv, W!Reload PROVE PageInv'
<1>1. /\ page' = W!Opened(page.stored) /\ pending' = {W!Flow("list", NoSession, 0)}
      /\ mode' = "live" /\ busy' = FALSE /\ crossed' = FALSE /\ UNCHANGED <<server, away>>
      /\ reloads < 1 /\ reloads' = reloads + 1
    BY DEF W!Reload
<1>2. page.stored \in Sessions \cup {Demo, NoSession} /\ reloads \in 0 .. 1
    BY PageFacts DEF PageInv, PageTypes, PageRest
<1>3. page' \in W!Page /\ PageOk(page', pending')
    BY <1>1, <1>2, OpenedOk, AllOk
<1>4. pending' \subseteq HonestFlow
    BY <1>1, FlowFacts
<1>5. mode' \in {"live", "simulated"} /\ busy' \in BOOLEAN /\ crossed' \in BOOLEAN
    BY <1>1
<1>6. reloads' \in 0 .. 1
    BY <1>1, <1>2
<1>7. PageRest'
    BY <1>1, <1>5, <1>6 DEF PageInv, PageTypes, PageRest
<1> QED
    BY <1>3, <1>4, <1>5, <1>7, PageSettles

\* A step after which the page shows the same, and no fewer reads are under way.
LEMMA SameKeeps ==
    ASSUME PageInv, page' \in W!Page, page'.sid = page.sid, page'.cache = page.cache,
           page'.heap = page.heap, page'.cur = page.cur, page'.shown = page.shown,
           \A f \in pending : f.k \in {"get", "confirmations"} => f \in pending',
           pending' \subseteq HonestFlow, PageRest', mode' = mode,
           crossed' \in BOOLEAN, ~crossed' => ~crossed
    PROVE  PageInv'
<1>1. ASSUME mode' = "live", ~crossed' PROVE PageOk(page', pending')
    <2>1. PageOk(page, pending)
        BY <1>1 DEF PageInv
    <2>2. PageOk(page', pending)
        BY <2>1, SameScreen
    <2> QED
        BY <2>2, MoreUnderWay
<1> QED
    BY <1>1, PageSettles

\* One request goes out, and the page stays as it is.
LEMMA RequestSent ==
    ASSUME PageInv, NEW f \in HonestFlow, pending' = pending \cup {f},
           UNCHANGED <<server, mode, page, busy, reloads, away>>,
           crossed' \in BOOLEAN, ~crossed' => ~crossed
    PROVE  PageInv'
<1>1. PageRest' /\ page' \in W!Page /\ pending' \subseteq HonestFlow
    BY DEF PageInv, PageTypes, PageRest
<1> QED
    BY <1>1, SameKeeps

LEMMA RequestsKeep ==
    ASSUME PageInv, crossed' \in BOOLEAN, ~crossed' => ~crossed,
           \/ W!Relist \/ W!New \/ \E s \in Sessions : W!Delete(s)
           \/ \E turn \in W!Turn : W!Edit(turn)
    PROVE  PageInv'
<1>1. CASE W!Relist
    BY <1>1, FlowFacts, RequestSent DEF W!Relist, W!Keep
<1>2. CASE W!New
    BY <1>2, FlowFacts, RequestSent DEF W!New, W!Keep
<1>3. ASSUME NEW s \in Sessions, W!Delete(s) PROVE PageInv'
    BY <1>3, FlowFacts, RequestSent DEF W!Delete, W!Keep
<1>4. ASSUME NEW turn \in W!Turn, W!Edit(turn) PROVE PageInv'
    <2> DEFINE t == IF turn[1] = page.sid THEN turn[2] ELSE 0
               f == W!Flow("patch", page.sid, t)
    <2>1. t \in 0 .. 2
        BY DEF W!Turn
    <2>2. /\ page.sid \in Sessions /\ pending' = pending \cup {f}
          /\ UNCHANGED <<server, mode, page, busy, reloads, away>>
        BY <1>4 DEF W!Edit, W!Keep
    <2> HIDE DEF t
    <2>3. f \in HonestFlow
        BY <2>1, <2>2, FlowFacts
    <2> HIDE DEF f
    <2> QED
        BY <2>2, <2>3, RequestSent
<1> QED
    BY <1>1, <1>2, <1>3, <1>4

\* A question goes to the open conversation, or makes one first.
LEMMA AskKeeps ==
    ASSUME PageInv, W!Ask, crossed' \in BOOLEAN, ~crossed' => ~crossed
    PROVE  PageInv'
<1>1. /\ page \in W!Page /\ pending \subseteq HonestFlow /\ PageRest
      /\ UNCHANGED <<server, mode, reloads, away>> /\ busy' = TRUE
    BY DEF W!Ask, PageInv, PageTypes
<1>2. busy' \in BOOLEAN
    BY <1>1
<1>3. PageRest'
    BY <1>1, <1>2 DEF PageRest
<1>4. CASE page.sid = NoSession
    BY <1>1, <1>3, <1>4, FlowFacts, SameKeeps DEF W!Ask
<1>5. CASE page.sid # NoSession
    <2> DEFINE q == [page EXCEPT !.card = TRUE]
    <2>1. page' = q /\ pending' = pending \cup {W!Flow("stream", page.sid, 0)}
        BY <1>5 DEF W!Ask
    <2>2. /\ q \in W!Page /\ q.sid = page.sid /\ q.cache = page.cache /\ q.heap = page.heap
          /\ q.cur = page.cur /\ q.shown = page.shown
        BY <1>1 DEF W!Page
    <2> HIDE DEF q
    <2>3. pending' \subseteq HonestFlow
        BY <1>1, <2>1, PageFacts, FlowFacts
    <2> QED
        BY <1>1, <1>3, <2>1, <2>2, <2>3, SameKeeps
<1> QED
    BY <1>4, <1>5

\* switchToSession, unless it stashes what has not arrived.
LEMMA SwitchKeeps ==
    ASSUME PageInv, NEW p \in W!Page, p.sid = page.sid, NEW s \in Sessions,
           NEW flows \in SUBSET HonestFlow,
           PageOk(page, pending) => PageOk(p, flows),
           W!Flow("get", page.sid, 0) \in flows => W!Flow("get", page.sid, 0) \in pending,
           page' = W!Switched(p, s), pending' = flows \cup W!SwitchFlows(p, s),
           PageRest', mode' = mode, crossed' \in BOOLEAN, crossed' = (crossed \/ W!StashesEarly)
    PROVE  PageInv'
<1>1. page' \in W!Page
    BY SwitchedIs
<1>2. pending' \subseteq HonestFlow
    BY FlowFacts
<1>3. ASSUME mode' = "live", ~crossed' PROVE PageOk(page', pending')
    <2>1. PageOk(p, flows)
        BY <1>3 DEF PageInv
    <2>2. Fetched(p, flows) \/ W!Switched(p, s).cache[p.sid] = 0
        BY <1>3 DEF W!StashesEarly, W!Fetching, Fetched
    <2> QED
        BY <2>1, <2>2, SwitchedOk
<1> QED
    BY <1>1, <1>2, <1>3, PageSettles

LEMMA SelectKeeps ==
    ASSUME PageInv, NEW s \in Sessions, W!Select(s), crossed' \in BOOLEAN,
           crossed' = (crossed \/ W!StashesEarly)
    PROVE  PageInv'
<1>1. /\ pending' = pending \cup W!SwitchFlows(page, s) /\ page' = W!Switched(page, s)
      /\ UNCHANGED <<server, mode, busy, reloads, away>>
    BY DEF W!Select, W!Keep
<1>2. PageRest' /\ page \in W!Page /\ pending \in SUBSET HonestFlow
    BY <1>1 DEF PageInv, PageTypes, PageRest
<1> QED
    BY <1>1, <1>2, SwitchKeeps

LEMMA ElsewhereKeeps ==
    ASSUME PageInv, NEW s \in Sessions, W!Elsewhere(s), crossed' \in BOOLEAN,
           ~crossed' => ~crossed
    PROVE  PageInv'
<1> DEFINE Row == [there : {"unborn", "live", "gone"}, n : 0 .. 2]
<1>1. /\ away' = away + 1 /\ away < 1 /\ away \in 0 .. 1 /\ server \in [Sessions -> Row]
      /\ UNCHANGED <<mode, page, pending, busy, reloads>> /\ PageTypes
    BY DEF W!Elsewhere, PageInv, PageTypes, PageRest
<1>2. server' \in [Sessions -> Row]
    <2>1. server[s] \in Row /\ server[s].n \in 0 .. 2
        BY <1>1
    <2>2. CASE W!Born(s)
        BY <1>1, <2>2 DEF W!Born
    <2>3. CASE server' = [server EXCEPT ![s].there = "gone"]
        BY <1>1, <2>3
    <2>4. CASE server[s].n < 2 /\ server' = [server EXCEPT ![s].n = @ + 1]
        <3>1. server[s].n + 1 \in 0 .. 2
            BY <2>1, <2>4
        <3>2. [server[s] EXCEPT !.n = server[s].n + 1] \in Row
            BY <2>1, <3>1
        <3>3. server' = [server EXCEPT ![s] = [server[s] EXCEPT !.n = server[s].n + 1]]
            BY <2>4
        <3> QED
            BY <1>1, <3>2, <3>3
    <2> QED
        BY <2>2, <2>3, <2>4 DEF W!Elsewhere
<1>3. away' \in 0 .. 1
    BY <1>1
<1>4. PageRest' /\ page' \in W!Page /\ pending' \subseteq HonestFlow
    BY <1>1, <1>2, <1>3 DEF PageTypes, PageRest
<1> QED
    BY <1>1, <1>4, SameKeeps

\* A request ends; those it leads to are under way.
LEMMA Arrives ==
    ASSUME PageInv, NEW f \in pending
    PROVE  /\ f \in HonestFlow /\ pending \ {f} \in SUBSET HonestFlow
           /\ page \in W!Page /\ PageRest
BY DEF PageInv, PageTypes

\* Ending what reads no transcript leaves every promise as it was.
LEMMA NotReading ==
    ASSUME NEW f, f.k \notin {"get", "confirmations"}, NEW p, NEW flows, PageOk(p, flows)
    PROVE  PageOk(p, flows \ {f})
BY MoreUnderWay

\* Scripted conversations: the server is not asked any more.
LEMMA DemoOk == ASSUME NEW p \in W!Page PROVE W!ToDemo(p) \in W!Page
<1> DEFINE q == [W!Stashed(p, Demo) EXCEPT !.sid = Demo, !.stored = Demo, !.index = {}]
<1>1. W!Stashed(p, Demo) \in W!Page
    <2>1. CASE p.sid \in Sessions
        <3> DEFINE c == [p.cache EXCEPT ![p.sid] = p.cur]
        <3>1. c \in [Sessions -> W!Slots \cup {0}]
            BY PageFacts
        <3>2. W!Stashed(p, Demo) = [p EXCEPT !.cache = c]
            BY <2>1 DEF W!Stashed
        <3> HIDE DEF c
        <3> QED
            BY <3>1, <3>2 DEF W!Page
    <2>2. CASE p.sid \notin Sessions
        BY <2>2 DEF W!Stashed
    <2> QED
        BY <2>1, <2>2
<1>2. q \in W!Page
    BY <1>1 DEF W!Page
<1>3. W!ToDemo(p) = W!Rendered(W!Assign(q, <<>>))
    BY DEF W!ToDemo
<1> HIDE DEF q
<1> QED
    BY <1>2, <1>3, NothingAssigned

LEMMA NotFoundKeeps ==
    ASSUME PageInv, NEW f \in pending, W!NotFound(f), crossed' \in BOOLEAN
    PROVE  PageInv'
<1>1. /\ mode' = "simulated" /\ page' = W!ToDemo(page) /\ pending' = pending \ {f}
      /\ UNCHANGED <<server, busy, reloads, away>>
    BY DEF W!NotFound, W!Ends
<1>2. page' \in W!Page /\ PageRest /\ pending' \subseteq HonestFlow
    BY <1>1, Arrives, DemoOk
<1>3. PageRest'
    BY <1>1, <1>2 DEF PageRest
<1> QED
    BY <1>1, <1>2, <1>3, PageSettles

\* The list names no conversation's turns.
LEMMA ListKeeps ==
    ASSUME PageInv, NEW f \in pending, W!Listed(f) \/ W!ListFailed(f), crossed' \in BOOLEAN,
           crossed' = (crossed \/ W!StashesEarly)
    PROVE  PageInv'
<1> DEFINE index == IF W!Listed(f) THEN W!Live ELSE {}
           p == [page EXCEPT !.index = index]
           flows == pending \ {f}
<1>1. /\ f.k = "list" /\ UNCHANGED <<server, mode, busy, reloads, away>>
    BY DEF W!Listed, W!ListFailed, W!Keep
<1>2. /\ PageRest' /\ page \in W!Page /\ flows \in SUBSET HonestFlow
    BY <1>1, Arrives DEF PageRest
<1>3. index \subseteq Sessions
    BY DEF W!Live
<1>4. /\ p \in W!Page /\ p.sid = page.sid /\ p.cache = page.cache /\ p.heap = page.heap
      /\ p.cur = page.cur /\ p.shown = page.shown
    BY <1>2, <1>3 DEF W!Page
<1>5. PageOk(page, pending) => PageOk(p, flows)
    BY <1>1, <1>4, SameScreen, NotReading
<1>6. ASSUME page' = W!Emptied(p) \/ page' = [W!Emptied(p) EXCEPT !.stored = NoSession],
             pending' = flows
      PROVE  PageInv'
    <2>1. /\ page' \in W!Page
          /\ Coherent(p) => Coherent(page') /\ Held(page') /\ Seen(page')
        BY <1>4, <1>6, EmptiedOk, ClosedOk
    <2>2. ASSUME mode' = "live", ~crossed' PROVE PageOk(page', pending')
        <3>1. PageOk(p, flows)
            BY <1>1, <1>5, <2>2 DEF PageInv
        <3> QED
            BY <2>1, <3>1, AllOk DEF PageOk
    <2> QED
        BY <1>2, <1>6, <2>1, <2>2, PageSettles
<1>7. CASE W!ListFailed(f) /\ ~W!Listed(f)
    BY <1>6, <1>7 DEF W!ListFailed, W!Ends
<1>8. CASE W!Listed(f) /\ W!Live = {}
    BY <1>6, <1>8 DEF W!Listed, W!Ends
<1>9. CASE W!Listed(f) /\ W!Live # {}
    <2>1. PICK s \in Sessions : page' = W!Switched(p, s) /\ W!Ends(f, W!SwitchFlows(p, s))
        BY <1>3, <1>9 DEF W!Listed
    <2>2. pending' = flows \cup W!SwitchFlows(p, s)
        BY <2>1 DEF W!Ends
    <2> HIDE DEF p, index
    <2> QED
        BY <1>1, <1>2, <1>4, <1>5, <2>1, <2>2, SwitchKeeps
<1> QED
    BY <1>7, <1>8, <1>9

\* The transcript of the conversation that is open, if it is that one's.
LEMMA FetchedKeeps ==
    ASSUME PageInv, NEW f \in pending, f.k = "get", NEW turns \in Seq(W!Turn),
           W!Of(turns, f.s), page' = W!Assign(page, turns),
           W!Ends(f, {W!Flow("confirmations", f.s, 0)}), W!Keep, crossed' \in BOOLEAN,
           ~crossed' => ~crossed /\ f.s = page.sid
    PROVE  PageInv'
<1> DEFINE g == W!Flow("confirmations", f.s, 0)
<1>1. /\ page \in W!Page /\ f.s \in Sessions /\ PageRest' /\ pending' = (pending \ {f}) \cup {g}
    BY Arrives DEF W!Keep, W!Ends, PageRest, HonestFlow
<1>2. g \in HonestFlow /\ g.k = "confirmations" /\ g.s = f.s
    BY <1>1, FlowFacts
<1> HIDE DEF g
<1>3. pending' \subseteq HonestFlow
    BY <1>1, <1>2, Arrives
<1>4. /\ page' \in W!Page /\ page'.sid = page.sid
    BY <1>1, AssignedIs
<1>5. ASSUME mode' = "live", ~crossed' PROVE PageOk(page', pending')
    <2>1. Coherent(page)
        BY <1>5 DEF PageInv, PageOk, W!Keep
    <2>2. Coherent(page') /\ Held(page')
        BY <1>1, <1>5, <2>1, AssignedOk
    <2>3. ~Loaded(page', pending')
        BY <1>1, <1>2, <1>4, <1>5 DEF Loaded
    <2> QED
        BY <2>2, <2>3 DEF PageOk
<1> QED
    BY <1>1, <1>3, <1>4, <1>5, PageSettles

LEMMA GotKeeps ==
    ASSUME PageInv, NEW f \in pending, W!Got(f) \/ W!GetFailed(f), crossed' \in BOOLEAN,
           crossed' = (crossed \/ W!Overtaken(f))
    PROVE  PageInv'
<1>1. ~crossed' => ~crossed /\ f.s = page.sid
    BY DEF W!Overtaken
<1>2. CASE W!Got(f)
    <2> DEFINE n == server[f.s].n
               turns == W!TurnsOf(f.s)
    <2>1. f.k = "get" /\ f.s \in Sessions /\ n \in 0 .. 2
        BY <1>2, Arrives DEF W!Got, HonestFlow, PageRest
    <2>2. turns = [i \in 1 .. n |-> <<f.s, i>>]
        BY DEF W!TurnsOf
    <2>3. \A i \in 1 .. n : <<f.s, i>> \in W!Turn
        BY <2>1 DEF W!Turn
    <2> HIDE DEF n
    <2>4. turns \in Seq(W!Turn) /\ W!Of(turns, f.s)
        BY <2>1, <2>2, <2>3 DEF W!Of
    <2>5. page' = W!Assign(page, turns) /\ W!Ends(f, {W!Flow("confirmations", f.s, 0)}) /\ W!Keep
        BY <1>2 DEF W!Got
    <2> HIDE DEF turns
    <2> QED
        BY <1>1, <2>1, <2>4, <2>5, FetchedKeeps
<1>3. CASE W!GetFailed(f)
    <2>1. /\ f.k = "get" /\ page' = W!Assign(page, <<>>) /\ W!Keep
          /\ W!Ends(f, {W!Flow("confirmations", f.s, 0)})
        BY <1>3 DEF W!GetFailed, W!Unreadable
    <2> QED
        BY <1>1, <2>1, NoTurns, NothingOf, FetchedKeeps
<1> QED
    BY <1>2, <1>3

\* What is shown is what is open, once no transcript is under way.
LEMMA ConfirmationsKeeps ==
    ASSUME PageInv, NEW f \in pending, W!Confirmations(f), crossed' \in BOOLEAN,
           ~crossed' => ~crossed
    PROVE  PageInv'
<1>1. /\ page \in W!Page /\ f.k = "confirmations" /\ pending' = pending \ {f} /\ W!Keep
      /\ page' = W!Rendered(page) /\ PageRest' /\ pending' \subseteq HonestFlow
    BY Arrives DEF W!Confirmations, W!Ends, W!Keep, PageRest
<1>2. /\ page' \in W!Page /\ page'.sid = page.sid /\ (Coherent(page) => Coherent(page'))
      /\ Held(page) => Held(page') /\ Seen(page')
    BY <1>1, RenderedOk
<1>3. ASSUME mode' = "live", ~crossed' PROVE PageOk(page', pending')
    <2>1. PageOk(page, pending)
        BY <1>1, <1>3 DEF PageInv, W!Keep
    <2>2. Fetched(page', pending') => Fetched(page, pending)
        BY <1>1, <1>2 DEF Fetched, W!Flow
    <2>3. Loaded(page', pending') => Fetched(page', pending')
        BY DEF Loaded, Fetched, W!Flow
    <2> QED
        BY <1>2, <2>1, <2>2, <2>3 DEF PageOk
<1> QED
    BY <1>1, <1>2, <1>3, PageSettles

\* The card of a question that failed.
LEMMA FailedKeeps ==
    ASSUME PageInv, NEW f \in pending, W!Failed(f), crossed' \in BOOLEAN, ~crossed' => ~crossed
    PROVE  PageInv'
<1> DEFINE card == page.card /\ f.k # "stream"
           q == [page EXCEPT !.card = card]
<1>1. /\ page \in W!Page /\ pending' = pending \ {f} /\ UNCHANGED <<server, mode, reloads, away>>
      /\ f.k \notin {"get", "confirmations"} /\ busy' = (busy /\ f.k \notin {"ensure", "stream"})
      /\ page' = q /\ PageRest /\ pending' \subseteq HonestFlow
    BY Arrives DEF W!Failed, W!Ends
<1>2. busy' \in BOOLEAN /\ card \in BOOLEAN
    BY <1>1
<1>3. PageRest'
    BY <1>1, <1>2 DEF PageRest
<1> HIDE DEF card
<1>4. /\ q \in W!Page /\ q.sid = page.sid /\ q.cache = page.cache /\ q.heap = page.heap
      /\ q.cur = page.cur /\ q.shown = page.shown
    BY <1>1, <1>2 DEF W!Page
<1> HIDE DEF q
<1> QED
    BY <1>1, <1>3, <1>4, SameKeeps

LEMMA OfAppend ==
    ASSUME NEW turns \in Seq(W!Turn), NEW turn \in W!Turn, NEW s, turn[1] = s
    PROVE  /\ Append(turns, turn) \in Seq(W!Turn)
           /\ W!Of(turns, s) => W!Of(Append(turns, turn), s)
BY DEF W!Of

Joined(p, turn, shown, card) == [W!Pushed(p, turn) EXCEPT !.shown = shown, !.card = card]

\* A turn of the open conversation joins its transcript, on the page and, where
\* a card waits for it, on the screen.
LEMMA PushedOk ==
    ASSUME NEW p \in W!Page, NEW turn \in W!Turn,
           NEW shown, shown = p.shown \/ shown = Append(p.shown, turn), NEW card \in BOOLEAN,
           NEW q, q = Joined(p, turn, shown, card)
    PROVE  /\ q \in W!Page /\ q.sid = p.sid
           /\ (turn[1] = p.sid /\ Coherent(p) /\ Held(p)) =>
                 Coherent(q) /\ Held(q) /\ (Seen(p) => Seen(q))
<1> DEFINE more == Append(p.heap[p.cur], turn)
           h == [p.heap EXCEPT ![p.cur] = more]
<1>1. p.heap[p.cur] \in Seq(W!Turn) /\ p.cur \in W!Slots /\ p.shown \in Seq(W!Turn)
    BY PageFacts
<1>2. more \in Seq(W!Turn) /\ \A s : (turn[1] = s /\ W!Of(p.heap[p.cur], s)) => W!Of(more, s)
    BY <1>1, OfAppend
<1>3. shown \in Seq(W!Turn) /\ \A s : (turn[1] = s /\ W!Of(p.shown, s)) => W!Of(shown, s)
    BY <1>1, OfAppend
<1>4. q = [p EXCEPT !.heap = h, !.shown = shown, !.card = card]
    BY DEF W!Pushed, Joined
<1> HIDE DEF more
<1>5. h \in [W!Slots -> Seq(W!Turn)] /\ h[p.cur] = more
      /\ \A i \in W!Slots \ {p.cur} : h[i] = p.heap[i]
    BY <1>1, <1>2, PageFacts
<1> HIDE DEF h
<1>6. /\ q \in W!Page /\ q.sid = p.sid /\ q.heap = h /\ q.cur = p.cur /\ q.cache = p.cache
      /\ q.shown = shown
    BY <1>3, <1>4, <1>5 DEF W!Page
<1>7. ASSUME turn[1] = p.sid, Coherent(p), Held(p)
      PROVE  Coherent(q) /\ Held(q) /\ (Seen(p) => Seen(q))
    <2>1. Held(q) /\ (Seen(p) => Seen(q))
        BY <1>2, <1>3, <1>5, <1>6, <1>7 DEF Held, Seen
    <2>2. ASSUME NEW s \in Sessions, p.cache[s] # 0 PROVE W!Of(h[p.cache[s]], s)
        <3>1. p.cache[s] \in W!Slots
            BY <2>2, PageFacts
        <3>2. CASE p.cache[s] = p.cur
            BY <1>2, <1>5, <1>7, <3>2 DEF Held
        <3>3. CASE p.cache[s] # p.cur
            BY <1>5, <1>7, <2>2, <3>1, <3>3 DEF Coherent
        <3> QED
            BY <3>2, <3>3
    <2>3. Coherent(q)
        BY <1>6, <1>7, <2>2 DEF Coherent
    <2> QED
        BY <2>1, <2>3
<1> QED
    BY <1>6, <1>7

\* A new turn arrives, of the open conversation unless two have met.
LEMMA TurnArrives ==
    ASSUME PageInv, NEW f \in pending, f.k \in {"stream", "patch"}, f.s \in Sessions,
           server[f.s].n < 2, NEW turn, turn = <<f.s, server[f.s].n + 1>>,
           NEW shown, shown = page.shown \/ shown = Append(page.shown, turn), NEW card \in BOOLEAN,
           page' = Joined(page, turn, shown, card),
           server' = [server EXCEPT ![f.s].n = @ + 1], pending' = pending \ {f},
           busy' \in BOOLEAN, UNCHANGED <<mode, reloads, away>>, crossed' \in BOOLEAN,
           crossed' = (crossed \/ W!Overtaken(f))
    PROVE  PageInv'
<1> DEFINE n == server[f.s].n
           Row == [there : {"unborn", "live", "gone"}, n : 0 .. 2]
<1>1. /\ PageRest /\ page \in W!Page /\ pending' \subseteq HonestFlow
    BY Arrives
<1>2. n \in 0 .. 2 /\ n < 2 /\ server[f.s] \in Row
    BY <1>1 DEF PageRest
<1>3. turn \in W!Turn /\ turn[1] = f.s
    BY <1>2 DEF W!Turn
<1>4. [server[f.s] EXCEPT !.n = n + 1] \in Row
    BY <1>2
<1>5. server' = [server EXCEPT ![f.s] = [server[f.s] EXCEPT !.n = n + 1]]
    OBVIOUS
<1> HIDE DEF n
<1>6. PageRest'
    BY <1>1, <1>4, <1>5 DEF PageRest
<1>7. /\ page' \in W!Page /\ page'.sid = page.sid
      /\ (turn[1] = page.sid /\ Coherent(page) /\ Held(page)) =>
            Coherent(page') /\ Held(page') /\ (Seen(page) => Seen(page'))
    BY <1>1, <1>3, PushedOk
<1>8. ASSUME mode' = "live", ~crossed' PROVE PageOk(page', pending')
    <2>1. f.s = page.sid /\ ~W!Fetching /\ PageOk(page, pending)
        BY <1>8 DEF W!Overtaken, PageInv
    <2>2. Coherent(page) /\ Held(page) /\ (Loaded(page, pending) => Seen(page))
        BY <2>1 DEF PageOk, Fetched, W!Fetching
    <2>3. Coherent(page') /\ Held(page') /\ (Seen(page) => Seen(page'))
        BY <1>3, <1>7, <2>1, <2>2
    <2>4. Loaded(page', pending') => Loaded(page, pending)
        BY <1>7 DEF Loaded
    <2> QED
        BY <2>2, <2>3, <2>4 DEF PageOk
<1> QED
    BY <1>1, <1>6, <1>7, <1>8, PageSettles

LEMMA TurnKeeps ==
    ASSUME PageInv, NEW f \in pending, W!Done(f) \/ W!Edited(f), crossed' \in BOOLEAN,
           crossed' = (crossed \/ W!Overtaken(f))
    PROVE  PageInv'
<1> DEFINE turn == <<f.s, server[f.s].n + 1>>
<1>1. page \in W!Page /\ f \in HonestFlow /\ PageRest
    BY Arrives
<1>2. CASE W!Done(f)
    <2> DEFINE shown == IF page.card THEN Append(page.shown, turn) ELSE page.shown
    <2>1. /\ f.k = "stream" /\ f.s \in Sessions /\ server[f.s].n < 2
          /\ server' = [server EXCEPT ![f.s].n = @ + 1] /\ pending' = pending \ {f}
          /\ busy' = FALSE /\ UNCHANGED <<mode, reloads, away>>
        BY <1>2 DEF W!Done, W!Ends
    <2>2. page' = Joined(page, turn, shown, FALSE)
        <3>1. W!Pushed(page, turn).shown = page.shown
            BY <1>1 DEF W!Pushed, W!Page
        <3> QED
            BY <1>2, <3>1 DEF W!Done, Joined
    <2>3. shown = page.shown \/ shown = Append(page.shown, turn)
        OBVIOUS
    <2>4. busy' \in BOOLEAN /\ FALSE \in BOOLEAN
        BY <2>1
    <2> HIDE DEF shown, turn
    <2>5. turn = <<f.s, server[f.s].n + 1>>
        BY DEF turn
    <2> QED
        BY <2>1, <2>2, <2>3, <2>4, <2>5, TurnArrives
<1>3. CASE W!Edited(f)
    <2> DEFINE shown == Append(page.shown, turn)
    <2>1. /\ f.k = "patch" /\ f.s \in Sessions /\ server[f.s].n < 2
          /\ server' = [server EXCEPT ![f.s].n = @ + 1] /\ pending' = pending \ {f}
          /\ UNCHANGED <<mode, busy, reloads, away>>
        BY <1>1, <1>3 DEF W!Edited, W!Ends, HonestFlow
    <2>2. page' = Joined(page, turn, shown, page.card)
        <3> DEFINE q == W!Pushed(page, turn)
        <3>1. q = [page EXCEPT !.heap = [page.heap EXCEPT ![page.cur] = Append(page.heap[page.cur], turn)]]
            BY DEF W!Pushed
        <3>2. PICK h : h = [page.heap EXCEPT ![page.cur] = Append(page.heap[page.cur], turn)]
            OBVIOUS
        <3>3. PICK r : r = page
            OBVIOUS
        <3>4. r \in W!Page /\ q = [r EXCEPT !.heap = h] /\ page' = [q EXCEPT !.shown = Append(q.shown, turn)]
            BY <1>1, <1>3, <3>1, <3>2, <3>3 DEF W!Edited
        <3> HIDE DEF q, turn
        <3>5. q.shown = r.shown /\ [q EXCEPT !.shown = Append(r.shown, turn)] = [q EXCEPT !.shown = Append(r.shown, turn), !.card = r.card]
            BY <3>4 DEF W!Page
        <3> QED
            BY <3>3, <3>4, <3>5 DEF q, Joined
    <2>3. busy' \in BOOLEAN /\ page.card \in BOOLEAN
        BY <1>1, <2>1, PageFacts DEF PageRest
    <2>4. shown = page.shown \/ shown = Append(page.shown, turn)
        OBVIOUS
    <2> HIDE DEF shown, turn
    <2>5. turn = <<f.s, server[f.s].n + 1>>
        BY DEF turn
    <2> QED
        BY <2>1, <2>2, <2>3, <2>4, <2>5, TurnArrives
<1> QED
    BY <1>2, <1>3

LEMMA BornKeeps ==
    ASSUME PageRest, NEW s \in Sessions, W!Born(s), UNCHANGED <<mode, busy, reloads, away>>
    PROVE  PageRest'
BY DEF PageRest, W!Born

\* The conversation a question made: there was none until then, and no turns.
LEMMA EnsuredKeeps ==
    ASSUME PageInv, NEW f \in pending, NEW s \in Sessions, W!Ensured(f, s), crossed' \in BOOLEAN,
           crossed' = (crossed \/ W!Overtaken(f))
    PROVE  PageInv'
<1> DEFINE g == W!Flow("stream", s, 0)
           q == [page EXCEPT !.sid = s, !.stored = s, !.index = @ \cup {s}, !.card = TRUE]
<1>1. /\ PageRest /\ page \in W!Page /\ f.k = "ensure" /\ f.s = NoSession
      /\ pending' = (pending \ {f}) \cup {g} /\ page' = q
      /\ UNCHANGED <<mode, busy, reloads, away>> /\ W!Born(s)
    BY Arrives DEF W!Ensured, W!Ends, HonestFlow
<1>2. pending' \subseteq HonestFlow
    BY <1>1, Arrives, FlowFacts
<1>3. PageRest'
    BY <1>1, BornKeeps
<1> HIDE DEF g
<1>4. /\ q \in W!Page /\ q.sid = s /\ q.cache = page.cache /\ q.heap = page.heap
      /\ q.cur = page.cur /\ q.shown = page.shown
    BY <1>1, PageFacts DEF W!Page
<1> HIDE DEF q
<1>5. NoSession \notin Sessions /\ \A x \in pending : x \in HonestFlow
    BY PageConfigured DEF W!Configured, PageInv, PageTypes
<1>6. ASSUME mode' = "live", ~crossed' PROVE PageOk(page', pending')
    <2>1. page.sid = NoSession /\ PageOk(page, pending)
        BY <1>1, <1>6 DEF W!Overtaken, PageInv
    <2>2. Fetched(page, pending) /\ Loaded(page, pending)
        BY <1>5, <2>1 DEF Fetched, Loaded, HonestFlow, W!Flow
    <2>3. Coherent(page) /\ Held(page) /\ Seen(page)
        BY <2>1, <2>2 DEF PageOk
    <2>4. page.heap[page.cur] = <<>> /\ page.shown = <<>>
        BY <1>1, <2>1, <2>3, PageFacts, NobodysTurns DEF Held, Seen
    <2>5. Coherent(q)
        BY <1>4, <2>3 DEF Coherent
    <2>6. Held(q) /\ Seen(q)
        BY <1>4, <1>5, <2>1, <2>3, <2>4, NothingOf DEF Held, Seen
    <2> QED
        BY <1>1, <2>5, <2>6, AllOk
<1> QED
    BY <1>1, <1>2, <1>3, <1>4, <1>6, PageSettles

\* A conversation with an array of its own.
LEMMA CreatedKeeps ==
    ASSUME PageInv, NEW f \in pending, NEW s \in Sessions, W!Created(f, s), crossed' \in BOOLEAN,
           crossed' = (crossed \/ W!StashesEarly)
    PROVE  PageInv'
<1> DEFINE listed == [page EXCEPT !.index = @ \cup {s}]
           free == W!Assign(listed, <<>>)
           p == [free EXCEPT !.cur = page.cur, !.cache[s] = free.cur]
           flows == pending \ {f}
<1>1. /\ PageRest /\ page \in W!Page /\ f.k = "create" /\ pending' = flows
      /\ flows \in SUBSET HonestFlow /\ page' = W!Switched(p, s)
      /\ UNCHANGED <<mode, busy, reloads, away>> /\ W!Born(s)
    BY Arrives DEF W!Created, W!Ends
<1>2. PageRest'
    BY <1>1, BornKeeps
<1>3. /\ listed \in W!Page /\ listed.sid = page.sid /\ listed.cache = page.cache
      /\ listed.heap = page.heap /\ listed.cur = page.cur /\ listed.shown = page.shown
    BY <1>1, PageFacts DEF W!Page
<1> HIDE DEF listed
<1>4. /\ free \in W!Page /\ free.sid = page.sid /\ free.cache = page.cache
      /\ free.shown = page.shown /\ free.cur # page.cur
      /\ \A x \in Sessions : page.cache[x] # free.cur
      /\ free.heap[free.cur] = <<>>
      /\ \A i \in W!Slots \ {free.cur} : free.heap[i] = page.heap[i]
    <2>1. PICK none \in Seq(W!Turn) : none = <<>>
        BY NoTurns
    <2>2. listed \in W!Page /\ free = W!Assign(listed, none)
        BY <1>3, <2>1
    <2> HIDE DEF free
    <2>3. /\ free \in W!Page /\ free.sid = listed.sid /\ free.stored = listed.stored
          /\ free.index = listed.index
          /\ free.cache = listed.cache /\ free.shown = listed.shown /\ free.cur # listed.cur
          /\ \A x \in Sessions : listed.cache[x] # free.cur
          /\ free.heap[free.cur] = none
          /\ \A i \in W!Slots \ {free.cur} : free.heap[i] = listed.heap[i]
        BY <2>2, AssignedIs
    <2> QED
        BY <1>3, <2>1, <2>3
<1> HIDE DEF free
<1>5. [free.cache EXCEPT ![s] = free.cur] \in [Sessions -> W!Slots \cup {0}]
    BY <1>4, PageFacts
<1>6. p = [free EXCEPT !.cur = page.cur, !.cache = [free.cache EXCEPT ![s] = free.cur]]
    OBVIOUS
<1>7. /\ p \in W!Page /\ p.sid = page.sid /\ p.heap = free.heap /\ p.cur = page.cur
      /\ p.shown = page.shown /\ p.cache = [page.cache EXCEPT ![s] = free.cur]
    BY <1>1, <1>4, <1>5, <1>6, PageFacts DEF W!Page
<1> HIDE DEF p
<1>8. ASSUME Coherent(page) PROVE Coherent(p)
    <2>1. \A x \in Sessions \ {s} : p.cache[x] = page.cache[x]
          /\ (page.cache[x] # 0 => p.heap[page.cache[x]] = page.heap[page.cache[x]])
        BY <1>1, <1>4, <1>7, PageFacts
    <2>2. p.cache[s] = free.cur /\ p.heap[p.cache[s]] = <<>> /\ free.cur # 0
        BY <1>1, <1>4, <1>7, PageFacts
    <2>3. ASSUME NEW x \in Sessions, p.cache[x] # 0
          PROVE  W!Of(p.heap[p.cache[x]], x)
        BY <1>8, <2>1, <2>2, <2>3, NothingOf DEF Coherent
    <2>4. ASSUME NEW x \in Sessions, NEW y \in Sessions, p.cache[x] # 0, p.cache[x] = p.cache[y]
          PROVE  x = y
        BY <1>4, <1>8, <2>1, <2>2, <2>4 DEF Coherent
    <2> QED
        BY <2>3, <2>4 DEF Coherent
<1>9. ASSUME Held(page) PROVE Held(p)
    <2>1. p.heap[p.cur] = page.heap[page.cur]
        BY <1>1, <1>4, <1>7, PageFacts
    <2>2. \A x \in Sessions : p.cache[x] = p.cur => page.cache[x] = page.cur
        BY <1>1, <1>4, <1>7, PageFacts
    <2> QED
        BY <1>7, <1>9, <2>1, <2>2 DEF Held
<1>10. PageOk(page, pending) => PageOk(p, flows)
    <2>1. PageOk(page, pending) => PageOk(page, flows)
        BY <1>1, NotReading
    <2>2. (Fetched(p, flows) => Fetched(page, flows)) /\ (Loaded(p, flows) => Loaded(page, flows))
        BY <1>7 DEF Fetched, Loaded
    <2> QED
        BY <1>7, <1>8, <1>9, <2>1, <2>2 DEF PageOk, Seen
<1>11. W!SwitchFlows(p, s) = {}
    <2>1. W!Left(p, s).cache = IF p.sid \in Sessions THEN [p.cache EXCEPT ![p.sid] = p.cur] ELSE p.cache
        BY <1>7, LeftIs
    <2>2. W!Left(p, s).cache[s] # 0
        BY <1>1, <1>4, <1>7, <2>1, PageFacts
    <2> QED
        BY <2>2 DEF W!SwitchFlows, W!Fetches
<1>12. pending' = flows \cup W!SwitchFlows(p, s)
    BY <1>1, <1>11
<1> QED
    BY <1>1, <1>2, <1>7, <1>10, <1>12, SwitchKeeps

\* The deleted conversation loses its place in the list and its transcript; if
\* it was the open one, another takes its place, or none.
LEMMA DeletedKeeps ==
    ASSUME PageInv, NEW f \in pending, W!Deleted(f), crossed' \in BOOLEAN,
           crossed' = (crossed \/ W!StashesEarly)
    PROVE  PageInv'
<1> DEFINE p == [page EXCEPT !.index = @ \ {f.s}, !.cache[f.s] = 0]
           flows == pending \ {f}
<1>1. /\ f.k = "delete" /\ f.s \in Sessions /\ PageRest /\ page \in W!Page
      /\ flows \in SUBSET HonestFlow
      /\ server' = [server EXCEPT ![f.s].there = "gone"] /\ UNCHANGED <<mode, busy, reloads, away>>
    BY Arrives DEF W!Deleted, HonestFlow
<1>2. PageRest'
    BY <1>1 DEF PageRest
<1>3. [page.cache EXCEPT ![f.s] = 0] \in [Sessions -> W!Slots \cup {0}]
    BY <1>1, PageFacts
<1>4. p = [page EXCEPT !.index = page.index \ {f.s}, !.cache = [page.cache EXCEPT ![f.s] = 0]]
    OBVIOUS
<1>5. /\ p \in W!Page /\ p.sid = page.sid /\ p.heap = page.heap /\ p.cur = page.cur
      /\ p.shown = page.shown /\ p.cache = [page.cache EXCEPT ![f.s] = 0]
      /\ p.index \subseteq Sessions
    BY <1>1, <1>3, <1>4, PageFacts DEF W!Page
<1>6. /\ page.sid # f.s => page' = p /\ W!Ends(f, {})
      /\ (page.sid = f.s /\ p.index = {}) =>
            page' = [W!Emptied(p) EXCEPT !.stored = NoSession] /\ W!Ends(f, {})
      /\ (page.sid = f.s /\ p.index # {}) =>
            \E s \in p.index : page' = W!Switched(p, s) /\ W!Ends(f, W!SwitchFlows(p, s))
    BY DEF W!Deleted
<1> HIDE DEF p
<1>7. PageOk(page, pending) => PageOk(p, flows)
    <2>1. PageOk(page, pending) => PageOk(page, flows)
        BY <1>1, NotReading
    <2>2. (Coherent(page) => Coherent(p)) /\ (Held(page) => Held(p)) /\ (Seen(page) => Seen(p))
        BY <1>1, <1>5, PageFacts DEF Coherent, Held, Seen
    <2>3. (Fetched(p, flows) => Fetched(page, flows)) /\ (Loaded(p, flows) => Loaded(page, flows))
        BY <1>5 DEF Fetched, Loaded
    <2> QED
        BY <2>1, <2>2, <2>3 DEF PageOk
<1>8. CASE page.sid # f.s
    <2>1. page' = p /\ pending' = flows
        BY <1>6, <1>8 DEF W!Ends
    <2>2. ASSUME mode' = "live", ~crossed' PROVE PageOk(page', pending')
        BY <1>1, <1>7, <2>1, <2>2 DEF PageInv
    <2> QED
        BY <1>1, <1>2, <1>5, <2>1, <2>2, PageSettles
<1>9. CASE page.sid = f.s /\ p.index = {}
    <2>1. page' = [W!Emptied(p) EXCEPT !.stored = NoSession] /\ pending' = flows
        BY <1>6, <1>9 DEF W!Ends
    <2>2. page' \in W!Page /\ (Coherent(p) => Coherent(page') /\ Held(page') /\ Seen(page'))
        BY <1>5, <2>1, ClosedOk
    <2>3. ASSUME mode' = "live", ~crossed' PROVE PageOk(page', pending')
        <3>1. PageOk(p, flows)
            BY <1>1, <1>7, <2>3 DEF PageInv
        <3> QED
            BY <2>2, <3>1, AllOk DEF PageOk
    <2> QED
        BY <1>1, <1>2, <2>1, <2>2, <2>3, PageSettles
<1>10. CASE page.sid = f.s /\ p.index # {}
    <2>1. PICK s \in Sessions : page' = W!Switched(p, s) /\ W!Ends(f, W!SwitchFlows(p, s))
        BY <1>5, <1>6, <1>10
    <2>2. pending' = flows \cup W!SwitchFlows(p, s)
        BY <2>1 DEF W!Ends
    <2> QED
        BY <1>1, <1>2, <1>5, <1>7, <2>1, <2>2, SwitchKeeps
<1> QED
    BY <1>8, <1>9, <1>10

LEMMA ResponseKeeps ==
    ASSUME PageInv, NEW f \in pending, W!Response(f), crossed' \in BOOLEAN,
           crossed' = (crossed \/ W!StashesEarly)
    PROVE  PageInv'
<1>1. CASE W!Listed(f) \/ W!ListFailed(f)
    BY <1>1, ListKeeps
<1>2. CASE W!Confirmations(f)
    BY <1>2, ConfirmationsKeeps
<1>3. CASE W!NotFound(f)
    BY <1>3, NotFoundKeeps
<1>4. CASE W!Deleted(f)
    BY <1>4, DeletedKeeps
<1>5. CASE W!Failed(f)
    BY <1>5, FailedKeeps
<1>6. CASE \E s \in Sessions : W!Created(f, s)
    BY <1>6, CreatedKeeps
<1> QED
    BY <1>1, <1>2, <1>3, <1>4, <1>5, <1>6 DEF W!Response

LEMMA LandingKeeps ==
    ASSUME PageInv, NEW f \in pending, W!Lands(f), crossed' \in BOOLEAN,
           crossed' = (crossed \/ W!Overtaken(f))
    PROVE  PageInv'
<1>1. CASE W!Got(f) \/ W!GetFailed(f)
    BY <1>1, GotKeeps
<1>2. CASE W!Done(f) \/ W!Edited(f)
    BY <1>2, TurnKeeps
<1>3. CASE \E s \in Sessions : W!Ensured(f, s)
    BY <1>3, EnsuredKeeps
<1> QED
    BY <1>1, <1>2, <1>3 DEF W!Lands

\* What the analyst, the world and a list do, before an answer lands.
Moves ==
    \/ W!Relist \/ W!New \/ W!Ask
    \/ \E s \in Sessions : W!Select(s) \/ W!Delete(s) \/ W!Elsewhere(s)
    \/ \E turn \in W!Turn : W!Edit(turn)
    \/ mode = "live" /\ \E f \in pending : W!Response(f)

LEMMA PageSteps ==
    W!Next <=> \/ W!Reload
               \/ Moves /\ crossed' = (crossed \/ W!StashesEarly)
               \/ /\ mode = "live"
                  /\ \E f \in pending : W!Lands(f) /\ crossed' = (crossed \/ W!Overtaken(f))
BY DEF W!Next, Moves

LEMMA MoveKeeps ==
    ASSUME PageInv, Moves, crossed' \in BOOLEAN, crossed' = (crossed \/ W!StashesEarly)
    PROVE  PageInv'
<1>1. ~crossed' => ~crossed
    OBVIOUS
<1>2. CASE W!Relist \/ W!New
    BY <1>1, <1>2, RequestsKeep
<1>3. CASE W!Ask
    BY <1>1, <1>3, AskKeeps
<1>4. ASSUME NEW s \in Sessions, W!Select(s) \/ W!Delete(s) \/ W!Elsewhere(s) PROVE PageInv'
    BY <1>1, <1>4, SelectKeeps, RequestsKeep, ElsewhereKeeps
<1>5. ASSUME NEW turn \in W!Turn, W!Edit(turn) PROVE PageInv'
    BY <1>1, <1>5, RequestsKeep
<1>6. ASSUME NEW f \in pending, W!Response(f) PROVE PageInv'
    BY <1>6, ResponseKeeps
<1> QED
    BY <1>2, <1>3, <1>4, <1>5, <1>6 DEF Moves

LEMMA PageStep == ASSUME PageInv, W!Next PROVE PageInv'
<1>1. CASE W!Reload
    BY <1>1, ReloadKeeps
<1>2. ASSUME NEW met \in {W!StashesEarly} \cup {W!Overtaken(f) : f \in pending},
             crossed' = (crossed \/ met)
      PROVE  crossed' \in BOOLEAN
    BY <1>2
<1>3. CASE Moves /\ crossed' = (crossed \/ W!StashesEarly)
    BY <1>2, <1>3, MoveKeeps
<1>4. ASSUME NEW f \in pending, W!Lands(f), crossed' = (crossed \/ W!Overtaken(f))
      PROVE  PageInv'
    BY <1>2, <1>4, LandingKeeps
<1> QED
    BY <1>1, <1>3, <1>4, PageSteps

LEMMA PageInvariance == W!Spec => []PageInv
<1>1. ASSUME PageInv, UNCHANGED W!vars PROVE PageInv'
    BY <1>1 DEF W!vars, PageInv, PageTypes, PageRest, PageOk, Coherent, Held, Seen, Fetched,
       Loaded, W!Of, W!Flow
<1>2. PageInv /\ [W!Next]_W!vars => PageInv'
    BY <1>1, PageStep
<1> QED
    BY <1>2, PageBegins, PTL DEF W!Spec

\* A new stream is a question's, in the open conversation or in one just made.
LEMMA AskedThere ==
    ASSUME PageInv, W!Next, ~crossed', NEW f \in pending', f \notin pending, f.k = "stream"
    PROVE  W!Loading' \/ W!Of(page.shown, f.s)
<1>1. ASSUME NEW g, NEW flows, W!Ends(g, flows), f \notin flows PROVE FALSE
    BY <1>1 DEF W!Ends
<1>2. \A k, s, t : k # "stream" => f # W!Flow(k, s, t)
    BY DEF W!Flow
<1>3. CASE W!Ask /\ crossed' = (crossed \/ W!StashesEarly)
    <2>1. f.s = page.sid /\ mode = "live" /\ ~crossed /\ page'.sid = page.sid
          /\ pending \subseteq pending'
        <3>1. page \in W!Page /\ ~crossed /\ mode = "live"
            BY <1>3 DEF W!Ask, PageInv, PageTypes
        <3>2. page'.sid = page.sid
            BY <1>3, <3>1 DEF W!Ask, W!Page
        <3> QED
            BY <1>3, <3>1, <3>2 DEF W!Ask, W!Flow
    <2>2. PageOk(page, pending)
        BY <2>1 DEF PageInv
    <2>3. Loaded(page, pending) => W!Of(page.shown, f.s)
        BY <2>1, <2>2 DEF PageOk, Seen
    <2>4. ~Loaded(page, pending) => W!Loading'
        BY <2>1 DEF Loaded, W!Loading
    <2> QED
        BY <2>3, <2>4
<1>4. ~W!Reload /\ ~W!Relist /\ ~W!New
    BY <1>2 DEF W!Reload, W!Relist, W!New
<1>5. \A p, s : f \notin W!SwitchFlows(p, s)
    BY <1>2 DEF W!SwitchFlows
<1>6. \A s \in Sessions : ~W!Select(s) /\ ~W!Delete(s) /\ ~W!Elsewhere(s)
    BY <1>2, <1>5 DEF W!Select, W!Delete, W!Elsewhere
<1>7. \A turn \in W!Turn : ~W!Edit(turn)
    BY <1>2 DEF W!Edit
<1>8. \A g \in pending : ~W!Response(g)
    <2> SUFFICES ASSUME NEW g \in pending, W!Response(g) PROVE FALSE
        OBVIOUS
    <2>1. ~W!NotFound(g) /\ ~W!Confirmations(g) /\ ~W!Failed(g)
        BY <1>1 DEF W!NotFound, W!Confirmations, W!Failed
    <2>2. ~W!Listed(g) /\ ~W!ListFailed(g)
        BY <1>1, <1>5 DEF W!Listed, W!ListFailed
    <2>3. ~W!Deleted(g)
        BY <1>1, <1>5 DEF W!Deleted
    <2>4. \A s \in Sessions : ~W!Created(g, s)
        BY <1>1 DEF W!Created
    <2> QED
        BY <2>1, <2>2, <2>3, <2>4 DEF W!Response
<1>9. ASSUME mode = "live", NEW g \in pending, W!Lands(g), crossed' = (crossed \/ W!Overtaken(g))
      PROVE  W!Of(page.shown, f.s)
    <2>1. ~W!Got(g) /\ ~W!GetFailed(g) /\ ~W!Done(g) /\ ~W!Edited(g)
        BY <1>1, <1>2 DEF W!Got, W!GetFailed, W!Done, W!Edited
    <2>2. PICK s \in Sessions : W!Ensured(g, s)
        BY <1>9, <2>1 DEF W!Lands
    <2>3. ~crossed /\ g.s = page.sid /\ g.k = "ensure"
        BY <1>9, <2>2 DEF W!Overtaken, W!Ensured
    <2>4. PageOk(page, pending) /\ page \in W!Page /\ pending \subseteq HonestFlow
        BY <1>9, <2>3 DEF PageInv, PageTypes
    <2>5. page.sid = NoSession /\ NoSession \notin Sessions
        BY <2>3, <2>4, PageConfigured DEF HonestFlow, W!Configured
    <2>6. Loaded(page, pending)
        BY <2>4, <2>5 DEF Loaded, HonestFlow
    <2>7. page.shown = <<>>
        BY <2>4, <2>5, <2>6, PageFacts, NobodysTurns DEF Seen, PageOk
    <2> QED
        BY <2>7 DEF W!Of
<1> QED
    BY <1>3, <1>4, <1>6, <1>7, <1>8, <1>9, PageSteps DEF Moves

\* Whatever the analyst clicks and in whatever order the answers come, until one
\* meets another conversation than its own the open transcript holds the open
\* conversation's turns, every stashed one those of its own, and a question goes
\* to the conversation the screen shows (web/js/main.js, switchToSession,
\* refreshSessionsForMode, askLive; web/js/state.js, turnsCache).
THEOREM PageIsSound == W!Spec => PageSound
<1>1. PageInv => W!TranscriptOfSession /\ W!CacheOfSession
    BY DEF PageInv, PageOk, Coherent, Held, Fetched, W!Fetching, W!TranscriptOfSession,
       W!CacheOfSession
<1>2. PageInv => (part = "page" => W!TranscriptOfSession /\ W!CacheOfSession)
    BY <1>1
<1>3. PageInv /\ [W!Next]_W!vars
      => [~crossed' => \A f \in pending' \ pending :
              f.k = "stream" => (W!Loading' \/ W!Of(page.shown, f.s))]_W!vars
    BY AskedThere
<1>4. W!Spec => W!AskedWhereShown
    BY <1>3, PageInvariance, PTL DEF W!Spec, W!AskedWhereShown
<1>5. W!Spec => [](part = "page" => W!TranscriptOfSession /\ W!CacheOfSession)
    BY <1>2, PageInvariance, PTL
<1> QED
    BY <1>4, <1>5 DEF PageSound

-----------------------------------------------------------------------------
\* A behaviour of the machines side by side is one of each.
LEMMA PartsBehave == MCSpec => Spec /\ V!Spec /\ W!Spec /\ X!Spec /\ C!Spec
<1>1. MCInit => Init /\ V!Init /\ W!Init /\ X!Init /\ C!Init
    BY DEF MCInit
<1>2. ASSUME [MCNext]_<<part, vars, limit, verdict, web, data, joins, llm>>
      PROVE  [Next]_vars /\ [V!Next]_V!vars /\ [W!Next]_W!vars /\ [X!Next]_X!vars /\ [C!Next]_C!vars
    <2>1. /\ Next \/ UNCHANGED vars
          /\ V!Next \/ UNCHANGED verdict
          /\ W!Next \/ UNCHANGED web
          /\ X!Next \/ UNCHANGED data
          /\ C!Next \/ UNCHANGED llm
        BY <1>2 DEF MCNext, VerdictsNext, PageNext
    <2>2. [V!Next]_V!vars
        BY <2>1 DEF V!vars, V!history, verdict
    <2>3. [W!Next]_W!vars
        BY <2>1 DEF W!vars, web
    <2>4. [X!Next]_X!vars
        BY <2>1 DEF X!vars, data
    <2>5. [C!Next]_C!vars
        BY <2>1 DEF C!vars, C!response, llm
    <2> QED
        BY <2>1, <2>2, <2>3, <2>4, <2>5
<1> QED
    BY <1>1, <1>2, PTL DEF MCSpec, Spec, V!Spec, W!Spec, X!Spec, C!Spec

(***************************************************************************)
(* The database and the model: what CallProofs proves of any instance of   *)
(* them, it proves of these.                                               *)
(***************************************************************************)
E == INSTANCE CallProofs WITH Queries <- Requests, call <- model, now <- rlNow,
        Identities <- {"failed", "none"}, Requests <- 1, Burst <- 0, AuthRequests <- 1,
        Window <- 2, MaxTracked <- 2, MaxTime <- 1, MaxSpent <- 2

LEMMA SameData ==
    /\ E!Configured
    /\ X!Init => E!Init
    /\ X!Next => E!Next
    /\ X!ExecutionSound <=> E!ExecutionSound
    /\ X!vars = E!vars
<1>1. X!IsFiniteSet(Requests) <=> E!IsFiniteSet(Requests)
    BY DEF X!IsFiniteSet, E!IsFiniteSet
<1>2. E!Configured
    BY <1>1, DataConfigured DEF X!Configured, E!Configured
<1>3. X!Init => E!Init
    BY DEF X!Init, E!Init, X!Names, E!Names, X!Idle, E!Idle, X!Default, E!Default
<1>4. X!Next => E!Next
    BY DEF X!Next, E!Next, X!Names, E!Names, X!Slots, E!Slots, X!Ask, E!Ask,
       X!GetEngine, E!GetEngine, X!Lock, E!Lock,
       X!Build, E!Build, X!Checkout, E!Checkout, X!PoolTimeout, E!PoolTimeout, X!Ping, E!Ping,
       X!Run, E!Run, X!Rollback, E!Rollback, X!Down, E!Down, X!Up, E!Up, X!Age, E!Age,
       X!Conn, E!Conn, X!Set, E!Set, X!Goes, E!Goes, X!Ends, E!Ends, X!Engineering, E!Engineering,
       X!Outside, E!Outside, X!Idle, E!Idle, X!Default, E!Default, X!Candidates, E!Candidates,
       X!Pick, E!Pick, X!Sent, E!Sent, X!Missing, E!Missing, X!None, E!None, X!New, E!New,
       X!Invalidated, E!Invalidated, X!Asks, E!Asks, X!RollsBack, E!RollsBack
<1>5. X!ExecutionSound <=> E!ExecutionSound
    BY DEF X!ExecutionSound, E!ExecutionSound, X!RunsAtHome, E!RunsAtHome, X!OnePool, E!OnePool,
       X!IdleIsAsked, E!IdleIsAsked, X!PoolClean, E!PoolClean, X!Slots, E!Slots
<1>6. X!vars = E!vars
    BY DEF X!vars, E!vars
<1> QED
    BY <1>2, <1>3, <1>4, <1>5, <1>6

\* The statements the requests of an answer send run where their tables are, one
\* pool to a source, on connections that were asked and come back clean
\* (database/executor.py), whatever databases go down.
THEOREM DataIsSound == X!Spec => []ExecutionSound
<1>1. E!Spec => []E!ExecutionSound
    BY E!ExecutionIsSound, SameData
<1>2. [X!Next]_X!vars => [E!Next]_E!vars
    BY SameData DEF X!vars, E!vars
<1>3. E!ExecutionSound => ExecutionSound
    BY SameData DEF ExecutionSound
<1> QED
    BY <1>1, <1>2, <1>3, SameData, PTL DEF X!Spec, E!Spec

LEMMA SameCall ==
    /\ E!M!Configured
    /\ C!Init => E!M!Init
    /\ C!Next => E!M!Next
    /\ C!CallSound <=> E!M!CallSound
    /\ C!vars = E!M!vars
<1>1. E!M!Configured
    BY CallConfigured DEF C!Configured, E!M!Configured
<1>2. C!Init => E!M!Init
    BY DEF C!Init, E!M!Init
<1>3. C!Next => E!M!Next
    BY DEF C!Next, E!M!Next, C!Post, E!M!Post, C!Headers, E!M!Headers, C!Tick, E!M!Tick,
       C!KeepAlive, E!M!KeepAlive, C!Piece, E!M!Piece, C!FinishReason, E!M!FinishReason,
       C!Done, E!M!Done, C!StreamError, E!M!StreamError, C!Close, E!M!Close, C!Broken, E!M!Broken,
       C!Assembler, E!M!Assembler, C!Ends, E!M!Ends, C!TimesOut, E!M!TimesOut, C!Fails, E!M!Fails,
       C!Event, E!M!Event, C!Answers, E!M!Answers, C!Complete, E!M!Complete, C!Long, E!M!Long,
       C!response, E!M!response
<1>4. C!CallSound <=> E!M!CallSound
    BY DEF C!CallSound, E!M!CallSound, C!WholeResponse, E!M!WholeResponse,
       C!AskedAgainOnlyAfterErrors, E!M!AskedAgainOnlyAfterErrors
<1>5. C!vars = E!M!vars
    BY DEF C!vars, E!M!vars, C!response, E!M!response
<1> QED
    BY <1>1, <1>2, <1>3, <1>4, <1>5

\* The text the pipeline gets from the model is every piece of one attempt in
\* order, asked for again only after an error (_post_streaming).
THEOREM ModelCallIsSound == C!Spec => []CallSound
<1>1. E!M!Spec => []E!M!CallSound
    BY E!CallIsSound, SameCall
<1>2. [C!Next]_C!vars => [E!M!Next]_E!M!vars
    BY SameCall DEF C!vars, E!M!vars, C!response, E!M!response
<1>3. E!M!CallSound => CallSound
    BY SameCall DEF CallSound
<1> QED
    BY <1>1, <1>2, <1>3, SameCall, PTL DEF C!Spec, E!M!Spec

(***************************************************************************)
(* The allowance: of callers with and without a key, and of one whose      *)
(* bucket fills by fractions.                                              *)
(***************************************************************************)
G == INSTANCE CallProofs WITH Queries <- Requests, call <- model, now <- rlNow,
        Identities <- {"none"}, Requests <- 2, Burst <- 0, AuthRequests <- 1,
        Window <- 3, MaxTracked <- 2, MaxTime <- 2, MaxSpent <- 3

LEMMA SameCallers ==
    /\ E!L!Configured
    /\ R!Init => E!L!Init
    /\ R!Next => E!L!Next
    /\ R!vars = E!L!vars
    /\ E!L!RateKept => R!RateKept
    /\ E!L!RetryHonest => R!RetryHonest
    /\ E!Forgets => \A k \in R!Keys : (R!Tracked(k) /\ ~R!Tracked(k)') => Cardinality(others'[k]) >= 2
<1>1. E!L!Configured
    BY LimitsConfigured DEF R!Configured, E!L!Configured, R!Everyone, E!L!Everyone
<1>2. R!Keys = E!L!Keys /\ R!Never = E!L!Never
    BY DEF R!Keys, E!L!Keys, R!Everyone, E!L!Everyone, R!Ips, E!L!Ips, R!Never, E!L!Never
<1>3. R!Init => E!L!Init
    BY <1>2 DEF R!Init, E!L!Init
<1>4. R!Next => E!L!Next
    <2>1. \A k : R!Tracked(k) <=> E!L!Tracked(k)
        BY DEF R!Tracked, E!L!Tracked, R!Positions, E!L!Positions
    <2>2. \A k : R!Bucket(k) = E!L!Bucket(k) /\ R!Without(k) = E!L!Without(k)
        BY DEF R!Bucket, E!L!Bucket, R!Without, E!L!Without, R!Place, E!L!Place,
           R!Positions, E!L!Positions
    <2>3. \A k : R!Capacity(k) = E!L!Capacity(k) /\ R!Rate(k) = E!L!Rate(k)
        BY DEF R!Capacity, E!L!Capacity, R!Rate, E!L!Rate
    <2>4. \A k : R!Touched(k) = E!L!Touched(k)
        BY <2>1, <2>2, <2>3 DEF R!Touched, E!L!Touched
    <2>5. \A b : R!Refilled(b) = E!L!Refilled(b)
        BY <2>3 DEF R!Refilled, E!L!Refilled, R!Least, E!L!Least
    <2>6. \A k : R!Consume(k) = E!L!Consume(k)
        <3>1. \A t, k : R!At(t, k) = E!L!At(t, k)
            BY DEF R!At, E!L!At
        <3> QED
            BY <2>4, <2>5, <3>1 DEF R!Consume, E!L!Consume
    <2>7. \A t, k : R!RetryAfter(t, k) = E!L!RetryAfter(t, k)
        BY <2>3 DEF R!RetryAfter, E!L!RetryAfter
    <2>8. \A id, peer, header :
            /\ R!BucketKey(id, peer, header) = E!L!BucketKey(id, peer, header)
            /\ R!Source(id, peer, header) = E!L!Source(id, peer, header)
        BY DEF R!BucketKey, E!L!BucketKey, R!ClientIp, E!L!ClientIp, R!Source, E!L!Source
    <2>9. \A id, peer, header : R!Request(id, peer, header) => E!L!Request(id, peer, header)
        <3>1. \A key, source, result : R!Charge(key, source, result) => E!L!Charge(key, source, result)
            BY <1>2, <2>1, <2>7 DEF R!Charge, E!L!Charge, R!Least, E!L!Least
        <3> QED
            BY <2>6, <2>8, <3>1 DEF R!Request, E!L!Request
    <2>10. R!Tick => E!L!Tick
        BY DEF R!Tick, E!L!Tick
    <2> QED
        BY <2>9, <2>10 DEF R!Next, E!L!Next
<1>5. R!vars = E!L!vars
    BY DEF R!vars, E!L!vars
<1>6. E!L!RateKept => R!RateKept
    BY <1>2 DEF R!RateKept, E!L!RateKept, R!Capacity, E!L!Capacity, R!Rate, E!L!Rate
<1>7. E!L!RetryHonest => R!RetryHonest
    BY <1>2 DEF R!RetryHonest, E!L!RetryHonest, R!Capacity, E!L!Capacity, R!Rate, E!L!Rate,
       R!Refilled, E!L!Refilled, R!Least, E!L!Least, R!Bucket, E!L!Bucket, R!Place, E!L!Place,
       R!Tracked, E!L!Tracked, R!Positions, E!L!Positions
<1>8. E!Forgets => \A k \in R!Keys : (R!Tracked(k) /\ ~R!Tracked(k)') => Cardinality(others'[k]) >= 2
    BY <1>2 DEF E!Forgets, R!Tracked, E!L!Tracked, R!Positions, E!L!Positions,
       E!Cardinality, Cardinality
<1> QED
    BY <1>1, <1>3, <1>4, <1>5, <1>6, <1>7, <1>8

LEMMA SameRefill ==
    /\ G!L!Configured
    /\ F!Init => G!L!Init
    /\ F!Next => G!L!Next
    /\ F!vars = G!L!vars
    /\ G!L!RateKept => F!RateKept
    /\ G!L!RetryHonest => F!RetryHonest
    /\ G!Forgets => \A k \in F!Keys : (F!Tracked(k) /\ ~F!Tracked(k)') => Cardinality(others'[k]) >= 2
<1>1. G!L!Configured
    BY LimitsConfigured DEF F!Configured, G!L!Configured, F!Everyone, G!L!Everyone
<1>2. F!Keys = G!L!Keys /\ F!Never = G!L!Never
    BY DEF F!Keys, G!L!Keys, F!Everyone, G!L!Everyone, F!Ips, G!L!Ips, F!Never, G!L!Never
<1>3. F!Init => G!L!Init
    BY <1>2 DEF F!Init, G!L!Init
<1>4. F!Next => G!L!Next
    <2>1. \A k : F!Tracked(k) <=> G!L!Tracked(k)
        BY DEF F!Tracked, G!L!Tracked, F!Positions, G!L!Positions
    <2>2. \A k : F!Bucket(k) = G!L!Bucket(k) /\ F!Without(k) = G!L!Without(k)
        BY DEF F!Bucket, G!L!Bucket, F!Without, G!L!Without, F!Place, G!L!Place,
           F!Positions, G!L!Positions
    <2>3. \A k : F!Capacity(k) = G!L!Capacity(k) /\ F!Rate(k) = G!L!Rate(k)
        BY DEF F!Capacity, G!L!Capacity, F!Rate, G!L!Rate
    <2>4. \A k : F!Touched(k) = G!L!Touched(k)
        BY <2>1, <2>2, <2>3 DEF F!Touched, G!L!Touched
    <2>5. \A b : F!Refilled(b) = G!L!Refilled(b)
        BY <2>3 DEF F!Refilled, G!L!Refilled, F!Least, G!L!Least
    <2>6. \A k : F!Consume(k) = G!L!Consume(k)
        <3>1. \A t, k : F!At(t, k) = G!L!At(t, k)
            BY DEF F!At, G!L!At
        <3> QED
            BY <2>4, <2>5, <3>1 DEF F!Consume, G!L!Consume
    <2>7. \A t, k : F!RetryAfter(t, k) = G!L!RetryAfter(t, k)
        BY <2>3 DEF F!RetryAfter, G!L!RetryAfter
    <2>8. \A id, peer, header :
            /\ F!BucketKey(id, peer, header) = G!L!BucketKey(id, peer, header)
            /\ F!Source(id, peer, header) = G!L!Source(id, peer, header)
        BY DEF F!BucketKey, G!L!BucketKey, F!ClientIp, G!L!ClientIp, F!Source, G!L!Source
    <2>9. \A id, peer, header : F!Request(id, peer, header) => G!L!Request(id, peer, header)
        <3>1. \A key, source, result : F!Charge(key, source, result) => G!L!Charge(key, source, result)
            BY <1>2, <2>1, <2>7 DEF F!Charge, G!L!Charge, F!Least, G!L!Least
        <3> QED
            BY <2>6, <2>8, <3>1 DEF F!Request, G!L!Request
    <2>10. F!Tick => G!L!Tick
        BY DEF F!Tick, G!L!Tick
    <2> QED
        BY <2>9, <2>10 DEF F!Next, G!L!Next
<1>5. F!vars = G!L!vars
    BY DEF F!vars, G!L!vars
<1>6. G!L!RateKept => F!RateKept
    BY <1>2 DEF F!RateKept, G!L!RateKept, F!Capacity, G!L!Capacity, F!Rate, G!L!Rate
<1>7. G!L!RetryHonest => F!RetryHonest
    BY <1>2 DEF F!RetryHonest, G!L!RetryHonest, F!Capacity, G!L!Capacity, F!Rate, G!L!Rate,
       F!Refilled, G!L!Refilled, F!Least, G!L!Least, F!Bucket, G!L!Bucket, F!Place, G!L!Place,
       F!Tracked, G!L!Tracked, F!Positions, G!L!Positions
<1>8. G!Forgets => \A k \in F!Keys : (F!Tracked(k) /\ ~F!Tracked(k)') => Cardinality(others'[k]) >= 2
    BY <1>2 DEF G!Forgets, F!Tracked, G!L!Tracked, F!Positions, G!L!Positions,
       G!Cardinality, Cardinality
<1> QED
    BY <1>1, <1>3, <1>4, <1>5, <1>6, <1>7, <1>8

PartLimit == IF part = "refill" THEN G!LimitInv ELSE E!LimitInv

LEMMA LimitMoves ==
    ASSUME [MCNext]_<<part, vars, limit, verdict, web, data, joins, llm>>
    PROVE  /\ part' = part
           /\ part = "refill" => [F!Next]_F!vars
           /\ part # "refill" => [R!Next]_R!vars
<1>1. /\ part' = part
      /\ \/ part = "refill" /\ F!Next
         \/ part = "callers" /\ R!Next
         \/ UNCHANGED limit
    BY DEF MCNext
<1>2. UNCHANGED limit => UNCHANGED F!vars /\ UNCHANGED R!vars
    BY DEF limit, F!vars, R!vars
<1> QED
    BY <1>1, <1>2

LEMMA LimitPart ==
    PartLimit /\ [MCNext]_<<part, vars, limit, verdict, web, data, joins, llm>>
    => /\ PartLimit'
       /\ \A k \in R!Keys : (R!Tracked(k) /\ ~R!Tracked(k)') => Cardinality(others'[k]) >= 2
<1> SUFFICES ASSUME PartLimit, [MCNext]_<<part, vars, limit, verdict, web, data, joins, llm>>
             PROVE  /\ PartLimit'
                    /\ \A k \in R!Keys :
                        (R!Tracked(k) /\ ~R!Tracked(k)') => Cardinality(others'[k]) >= 2
    OBVIOUS
<1>1. CASE part = "refill"
    <2>1. part' = part /\ [F!Next]_F!vars /\ G!LimitInv
        BY <1>1, LimitMoves DEF PartLimit
    <2>2. [G!L!Next]_G!L!vars
        BY <2>1, SameRefill DEF F!vars, G!L!vars
    <2>3. G!LimitInv' /\ G!Forgets
        BY <2>1, <2>2, G!LimitStep
    <2>4. \A k : R!Tracked(k) <=> F!Tracked(k)
        BY DEF R!Tracked, F!Tracked, R!Positions, F!Positions
    <2>5. \A k : R!Tracked(k)' <=> F!Tracked(k)'
        BY DEF R!Tracked, F!Tracked, R!Positions, F!Positions
    <2>6. \A k : F!Tracked(k) => k \in F!Keys
        <3>1. G!L!Keys = F!Keys
            BY DEF G!L!Keys, F!Keys, G!L!Everyone, F!Everyone, G!L!Ips, F!Ips
        <3>2. \A i \in DOMAIN buckets : buckets[i].key \in G!L!Keys
            BY <2>1, G!BucketFacts
        <3> QED
            BY <3>1, <3>2 DEF F!Tracked, F!Positions
    <2>7. PartLimit'
        BY <1>1, <2>1, <2>3 DEF PartLimit
    <2> QED
        BY <2>3, <2>4, <2>5, <2>6, <2>7, SameRefill
<1>2. CASE part # "refill"
    <2>1. part' = part /\ [R!Next]_R!vars /\ E!LimitInv
        BY <1>2, LimitMoves DEF PartLimit
    <2>2. [E!L!Next]_E!L!vars
        BY <2>1, SameCallers DEF R!vars, E!L!vars
    <2>3. E!LimitInv' /\ E!Forgets
        BY <2>1, <2>2, E!LimitStep
    <2>4. PartLimit'
        BY <1>2, <2>1, <2>3 DEF PartLimit
    <2> QED
        BY <2>3, <2>4, SameCallers
<1> QED
    BY <1>1, <1>2

\* Whatever headers it sends and whoever knocks beside it, a source is let
\* through what its limits allow, a caller who waits as long as a 429 said is
\* let through, and no bucket is forgotten but the least recently seen one
\* (RateLimitMiddleware._consume, _bucket_key).
THEOREM RateIsSound == MCSpec => RateSound
<1>1. MCInit => PartLimit
    <2>1. MCInit => IF part = "refill" THEN F!Init ELSE R!Init
        BY DEF MCInit
    <2> QED
        BY <2>1, SameRefill, SameCallers, G!LimitBegins, E!LimitBegins DEF PartLimit
<1>2. PartLimit =>
        /\ part = "callers" => R!RateKept /\ R!RetryHonest
        /\ part = "refill" => F!RateKept /\ F!RetryHonest
    <2>1. ASSUME PartLimit, part = "callers" PROVE R!RateKept /\ R!RetryHonest
        BY <2>1, SameCallers, E!LimitKept, E!LimitHonest DEF PartLimit
    <2>2. ASSUME PartLimit, part = "refill" PROVE F!RateKept /\ F!RetryHonest
        BY <2>2, SameRefill, G!LimitKept, G!LimitHonest DEF PartLimit
    <2> QED
        BY <2>1, <2>2
<1>3. PartLimit /\ [MCNext]_<<part, vars, limit, verdict, web, data, joins, llm>> => PartLimit'
    BY LimitPart
<1>4. PartLimit /\ [MCNext]_<<part, vars, limit, verdict, web, data, joins, llm>>
      => [\A k \in R!Keys : (R!Tracked(k) /\ ~R!Tracked(k)') => R!Cardinality(others'[k]) >= 2]_R!vars
    BY LimitPart DEF Cardinality, R!Cardinality
<1> QED
    BY <1>1, <1>2, <1>3, <1>4, PTL DEF MCSpec, RateSound, R!OnlyLeastRecentForgotten

(***************************************************************************)
(* Types.                                                                  *)
(***************************************************************************)
LEMMA SameTypes ==
    /\ E!L!TypeOK => R!TypeOK
    /\ G!L!TypeOK => F!TypeOK
    /\ E!TypeOK => X!TypeOK
    /\ E!M!TypeOK => C!TypeOK
<1>1. E!L!TypeOK => R!TypeOK
    BY DEF R!TypeOK, E!L!TypeOK, R!Keys, E!L!Keys, R!Everyone, E!L!Everyone, R!Ips, E!L!Ips,
       R!Never, E!L!Never, R!Capacity, E!L!Capacity, R!Rate, E!L!Rate
<1>2. G!L!TypeOK => F!TypeOK
    BY DEF F!TypeOK, G!L!TypeOK, F!Keys, G!L!Keys, F!Everyone, G!L!Everyone, F!Ips, G!L!Ips,
       F!Never, G!L!Never, F!Capacity, G!L!Capacity, F!Rate, G!L!Rate
<1>3. E!TypeOK => X!TypeOK
    BY DEF X!TypeOK, E!TypeOK, X!Names, E!Names, X!Slots, E!Slots, X!Connection, E!Connection,
       X!Engines, E!Engines, X!Result, E!Result, X!Cardinality, E!Cardinality
<1>4. E!M!TypeOK => C!TypeOK
    BY DEF C!TypeOK, E!M!TypeOK, C!Long, E!M!Long
<1> QED
    BY <1>1, <1>2, <1>3, <1>4

LEMMA VerdictTypesHold == VerdictInv => V!TypeOK
BY DEF VerdictInv, VerdictTypes, VerdictRequest, GoldenLine, Counts, V!TypeOK

LEMMA PageTypesHold == PageInv => W!TypeOK
<1>1. HonestFlow \subseteq W!Flows
    BY DEF HonestFlow
<1> QED
    BY <1>1 DEF PageInv, PageTypes, PageRest, W!TypeOK

PartBounds == IF part = "refill" THEN G!LimitBounds ELSE E!LimitBounds

LEMMA BoundsPart ==
    PartLimit /\ PartBounds /\ [MCNext]_<<part, vars, limit, verdict, web, data, joins, llm>>
    => PartBounds'
<1> SUFFICES ASSUME PartLimit, PartBounds,
                    [MCNext]_<<part, vars, limit, verdict, web, data, joins, llm>>
             PROVE  PartBounds'
    OBVIOUS
<1>1. CASE part = "refill"
    <2>1. part' = part /\ [F!Next]_F!vars /\ G!LimitInv /\ G!LimitBounds
        BY <1>1, LimitMoves DEF PartLimit, PartBounds
    <2>2. [G!L!Next]_G!L!vars
        BY <2>1, SameRefill DEF F!vars, G!L!vars
    <2>3. G!LimitBounds'
        BY <2>1, <2>2, G!BoundsStep
    <2> QED
        BY <1>1, <2>1, <2>3 DEF PartBounds
<1>2. CASE part # "refill"
    <2>1. part' = part /\ [R!Next]_R!vars /\ E!LimitInv /\ E!LimitBounds
        BY <1>2, LimitMoves DEF PartLimit, PartBounds
    <2>2. [E!L!Next]_E!L!vars
        BY <2>1, SameCallers DEF R!vars, E!L!vars
    <2>3. E!LimitBounds'
        BY <2>1, <2>2, E!BoundsStep
    <2> QED
        BY <1>2, <2>1, <2>3 DEF PartBounds
<1> QED
    BY <1>1, <1>2

LEMMA LimitTypesOfParts ==
    MCSpec => []((part = "callers" => R!TypeOK) /\ (part = "refill" => F!TypeOK))
<1>1. MCInit => PartLimit /\ PartBounds
    <2>1. MCInit => IF part = "refill" THEN F!Init ELSE R!Init
        BY DEF MCInit
    <2> QED
        BY <2>1, SameRefill, SameCallers, G!LimitBegins, E!LimitBegins, G!BoundsBegin, E!BoundsBegin
           DEF PartLimit, PartBounds
<1>2. PartLimit /\ PartBounds /\ [MCNext]_<<part, vars, limit, verdict, web, data, joins, llm>>
      => PartLimit' /\ PartBounds'
    BY LimitPart, BoundsPart
<1>3. PartLimit /\ PartBounds => (part = "callers" => R!TypeOK) /\ (part = "refill" => F!TypeOK)
    BY SameTypes, G!LimitTypesHold, E!LimitTypesHold DEF PartLimit, PartBounds
<1> QED
    BY <1>1, <1>2, <1>3, PTL DEF MCSpec

\* Whatever an answer passes keeps its types and its bounds: no cache outgrows
\* cache_max_size, no table of buckets max_tracked_ips, no file of flags its ids,
\* and there are no more pools than sources.
THEOREM PartsTypeCorrect == MCSpec => []MCTypeOK
<1>1. E!Spec => []E!TypeOK
    BY E!TypeCorrect, SameData
<1>2. [X!Next]_X!vars => [E!Next]_E!vars
    BY SameData DEF X!vars, E!vars
<1>3. X!Spec => []X!TypeOK
    BY <1>1, <1>2, SameData, SameTypes, PTL DEF X!Spec, E!Spec
<1>4. E!M!Spec => []E!M!TypeOK
    BY E!CallTypeCorrect, SameCall
<1>5. [C!Next]_C!vars => [E!M!Next]_E!M!vars
    BY SameCall DEF C!vars, E!M!vars, C!response, E!M!response
<1>6. C!Spec => []C!TypeOK
    BY <1>4, <1>5, SameCall, SameTypes, PTL DEF C!Spec, E!M!Spec
<1>7. V!Spec => []V!TypeOK
    BY VerdictInvariance, VerdictTypesHold, PTL
<1>8. W!Spec => []W!TypeOK
    BY PageInvariance, PageTypesHold, PTL
<1>9. /\ TypeOK /\ V!TypeOK /\ W!TypeOK /\ X!TypeOK /\ C!TypeOK
      /\ (part = "callers" => R!TypeOK) /\ (part = "refill" => F!TypeOK)
      => MCTypeOK
    BY DEF MCTypeOK
<1> QED
    BY <1>3, <1>6, <1>7, <1>8, <1>9, TypeCorrect, LimitTypesOfParts, PartsBehave, PTL

\* The properties above in any behaviour of the machines side by side.
THEOREM AnswersAreSound ==
    MCSpec => /\ [](MCTypeOK /\ CacheIsolated /\ ExecutionSound /\ CallSound)
              /\ RateSound /\ PageSound /\ VerdictsSound
<1>1. MCSpec => [](MCTypeOK /\ CacheIsolated /\ ExecutionSound /\ CallSound)
    BY PartsBehave, PartsTypeCorrect, Isolation, DataIsSound, ModelCallIsSound, PTL
<1>2. MCSpec => RateSound /\ PageSound /\ VerdictsSound
    BY PartsBehave, RateIsSound, PageIsSound, VerdictsAreSound
<1> QED
    BY <1>1, <1>2
=============================================================================
