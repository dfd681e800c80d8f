------------------------- MODULE SessionStoreProofs -------------------------
(***************************************************************************)
(* Proofs about SessionStore, for any sets of sessions, principals and     *)
(* requests and any limits.                                                *)
(***************************************************************************)
EXTENDS SessionStore, FiniteSetTheorems, FunctionTheorems, TLAPS

\* What AfterLookup can return, and that it lets nobody but the owner through.
LEMMA AfterLookupGuards ==
    ASSUME NEW k \in AllKinds, NEW caller, NEW record
    PROVE  /\ AfterLookup(k, caller, record)
                \in {"failed", "done", "rename", "delete_hot", "wait"}
           /\ AfterLookup(k, caller, record) # "failed" => record.owner = caller
BY DEF AfterLookup, AllKinds, AskKinds

\* The initial state satisfies the invariant.
LEMMA InitOwnership == Init => OwnershipInv
<1> SUFFICES ASSUME Init PROVE OwnershipInv
  OBVIOUS
<1> USE NoneAssumption DEF Init
<1>1. HotKeys = {}
  BY DEF HotKeys
<1>2. TypeOK
  BY <1>1 DEF TypeOK, Positions
<1>3. RecordsAgree /\ RequestsAgree
  BY DEF RecordsAgree, RequestsAgree, Owning
<1>4. HotAgrees /\ DiskAgrees
  BY <1>1, FS_EmptySet DEF HotAgrees, DiskAgrees
<1> QED
  BY <1>2, <1>3, <1>4 DEF OwnershipInv

\* Admitting record object r under session s keeps the hot set finite and its
\* order inside its keys, and leaves every other session in place or evicts it.
LEMMA AdmitFacts ==
    ASSUME TypeOK, IsFiniteSet(HotKeys),
           NEW r \in Reqs, NEW s \in Sids, NEW p, Admit(r, s, p)
    PROVE  /\ hot' \in [Sids -> Reqs \cup {None}]
           /\ before' \subseteq HotKeys' \X HotKeys'
           /\ stale' = stale
           /\ IsFiniteSet(HotKeys')
           /\ hot'[s] = r
           /\ \A t \in Sids \ {s} : hot'[t] \in {hot[t], None}
<1>1. PICK victims \in SUBSET SessionsOf(p) :
        /\ hot' = [t \in Sids |-> IF t = s THEN r
                                  ELSE IF t \in victims THEN None ELSE hot[t]]
        /\ before' = OrderAfterInsert(victims, s)
        /\ stale' = stale
  BY DEF Admit
<1>2. HotKeys' = (HotKeys \ victims) \cup {s}
  BY <1>1, NoneAssumption DEF HotKeys, TypeOK
<1>3. IsFiniteSet(HotKeys')
  BY <1>2, FS_Difference, FS_AddElement
<1>4. before' \subseteq HotKeys' \X HotKeys'
  BY <1>1, <1>2 DEF OrderAfterInsert, Without, TypeOK
<1> QED
  BY <1>1, <1>3, <1>4 DEF TypeOK

\* Changing one field of a record changes nothing else of it.
LEMMA RecordFields ==
    ASSUME NEW x \in Record, NEW T \in SUBSET Reqs, NEW n \in Reqs \cup {None}
    PROVE  /\ [x EXCEPT !.turns = T] \in Record
           /\ [x EXCEPT !.turns = T].sid = x.sid
           /\ [x EXCEPT !.turns = T].owner = x.owner
           /\ [x EXCEPT !.turns = T].turns = T
           /\ [x EXCEPT !.title = n] \in Record
           /\ [x EXCEPT !.title = n].sid = x.sid
           /\ [x EXCEPT !.title = n].owner = x.owner
           /\ [x EXCEPT !.title = n].turns = x.turns
BY DEF Record

\* Every step preserves the invariant, action by action.
LEMMA NextOwnership == OwnershipInv /\ [Next]_vars => OwnershipInv'
<1> SUFFICES ASSUME TypeOK, RecordsAgree, HotAgrees, DiskAgrees, RequestsAgree,
                    [Next]_vars
             PROVE  OwnershipInv'
  BY DEF OwnershipInv
<1> USE NoneAssumption DEF Goto, storeVars, diskVars, reqVars, histVars
<1>1. ASSUME NEW r \in Reqs, NEW p \in Principals, NEW s \in Sids,
             CreateAdmit(r, p, s)
      PROVE  OwnershipInv'
  <2> DEFINE new == [sid |-> s, owner |-> p, title |-> None, turns |-> {}]
  <2>1. Admit(r, s, p)
    BY <1>1 DEF CreateAdmit
  <2>2. /\ hot' \in [Sids -> Reqs \cup {None}]
        /\ before' \subseteq HotKeys' \X HotKeys'
        /\ stale' = stale
        /\ IsFiniteSet(HotKeys')
        /\ hot'[s] = r
        /\ \A t \in Sids \ {s} : hot'[t] \in {hot[t], None}
    BY <2>1, AdmitFacts DEF HotAgrees
  <2>3. /\ new \in Record
        /\ rec' = [rec EXCEPT ![r] = new]
        /\ new.sid = s /\ new.owner = p /\ new.turns = {} /\ IsFiniteSet({})
    BY <1>1, FS_EmptySet DEF CreateAdmit, Record
  <2>4. /\ pc[r] = "idle" /\ creator[s] = None
        /\ creator' = [creator EXCEPT ![s] = p]
        /\ pc' = [pc EXCEPT ![r] = IF Persistent THEN "create_row" ELSE "done"]
        /\ kind' = [kind EXCEPT ![r] = "create"]
        /\ who' = [who EXCEPT ![r] = p] /\ sid' = [sid EXCEPT ![r] = s]
        /\ UNCHANGED <<row, dturns, aged, ref, idx, cap, gone, removed>>
    BY <1>1 DEF CreateAdmit
  <2>5. "create" \in AllKinds
    BY DEF AllKinds
  <2> HIDE DEF new
  <2>6. TypeOK'
    BY <2>2, <2>3, <2>4, <2>5
    DEF TypeOK, Positions
  <2>7. RecordsAgree'
    <3> SUFFICES ASSUME NEW q \in Reqs, rec'[q] # None
                 PROVE  /\ creator'[rec'[q].sid] = rec'[q].owner
                        /\ IsFiniteSet(rec'[q].turns)
                        /\ \A t \in rec'[q].turns : /\ sid'[t] = rec'[q].sid
                                                    /\ who'[t] = rec'[q].owner
                                                    /\ pc'[t] # "idle"
      BY DEF RecordsAgree
    <3>1. CASE q = r
      <4>1. rec'[q] = new /\ creator'[s] = p
        BY <2>3, <2>4, <3>1 DEF TypeOK
      <4> QED
        BY <2>3, <4>1
    <3>2. CASE q # r
      <4>1. rec'[q] = rec[q] /\ rec[q] \in Record
        BY <2>3, <3>2 DEF TypeOK
      <4>2. /\ creator[rec[q].sid] = rec[q].owner /\ IsFiniteSet(rec[q].turns)
            /\ \A t \in rec[q].turns :
                  /\ t \in Reqs /\ t # r
                  /\ sid[t] = rec[q].sid /\ who[t] = rec[q].owner /\ pc[t] # "idle"
        BY <2>4, <4>1 DEF RecordsAgree, Record
      <4>3. rec[q].sid # s
        BY <2>4, <4>1, <4>2 DEF Record
      <4> QED
        BY <2>4, <4>1, <4>2, <4>3 DEF TypeOK, Record
    <3> QED
      BY <3>1, <3>2
  <2>8. HotAgrees'
    BY <2>2, <2>3, <2>4, <2>5
    DEF HotAgrees, HotKeys, TypeOK, RequestsAgree
  <2>9. DiskAgrees'
    BY <2>2, <2>3, <2>4, <2>5
    DEF DiskAgrees, TypeOK, RequestsAgree, Row
  <2>10. RequestsAgree'
    BY <2>2, <2>3, <2>4, <2>5
    DEF RequestsAgree, Owning, TypeOK, HotAgrees
  <2> QED
    BY <2>6, <2>7, <2>8, <2>9, <2>10 DEF OwnershipInv
<1>2. ASSUME NEW r \in Reqs, NEW p \in Principals, NEW s \in Sids,
             NEW k \in Kinds, Lookup(r, k, p, s)
      PROVE  OwnershipInv'
  <2>1. k \in AllKinds
    BY KindsAssumption
  <2>2. CASE hot[s] # None /\ hot[s] \notin stale
    <3> DEFINE next == AfterLookup(k, p, rec[hot[s]])
    <3>1. /\ hot' = hot
          /\ before' = Without({s}) \cup ((HotKeys \ {s}) \X {s})
          /\ ref' = [ref EXCEPT ![r] = hot[s]]
          /\ pc' = [pc EXCEPT ![r] = next]
      BY <1>2, <2>2 DEF Lookup
    <3>2. before' \subseteq HotKeys' \X HotKeys'
      BY <3>1, <2>2 DEF Without, HotKeys, TypeOK
    <3>3. /\ next \in {"failed", "done", "rename", "delete_hot", "wait"}
          /\ next # "failed" => rec[hot[s]].owner = p
      BY <2>1, AfterLookupGuards
    <3>4. hot[s] \in Reqs /\ rec[hot[s]] # None /\ rec[hot[s]].sid = s
      BY <2>2 DEF HotAgrees, HotKeys, TypeOK
    <3> HIDE DEF next
    <3>5. TypeOK'
      BY <1>2, <2>1, <3>1, <3>2, <3>3, <3>4
      DEF Lookup, TypeOK, Positions
    <3>6. RecordsAgree'
      BY <1>2, <2>1, <3>1, <3>2, <3>3, <3>4
      DEF Lookup, RecordsAgree, TypeOK, Record
    <3>7. HotAgrees'
      BY <1>2, <2>1, <3>1, <3>2, <3>3, <3>4
      DEF Lookup, HotAgrees, HotKeys, TypeOK
    <3>8. DiskAgrees'
      BY <1>2, <2>1, <3>1, <3>2, <3>3, <3>4
      DEF Lookup, DiskAgrees, TypeOK
    <3>9. RequestsAgree'
      BY <1>2, <2>1, <3>1, <3>2, <3>3, <3>4
      DEF Lookup, RequestsAgree, Owning, TypeOK
    <3> QED
      BY <3>5, <3>6, <3>7, <3>8, <3>9 DEF OwnershipInv
  <2>3. CASE hot[s] = None \/ hot[s] \in stale
    <3>1. /\ hot' = [hot EXCEPT ![s] = None]
          /\ before' = Without({s})
          /\ ref' = ref
          /\ pc' = [pc EXCEPT ![r] = IF Persistent THEN "load_row" ELSE "failed"]
      BY <1>2, <2>3 DEF Lookup
    <3>2. HotKeys' = HotKeys \ {s}
      BY <3>1 DEF HotKeys, TypeOK
    <3>3. IsFiniteSet(HotKeys')
      BY <3>2, FS_Difference DEF HotAgrees
    <3>4. before' \subseteq HotKeys' \X HotKeys'
      BY <3>1, <3>2 DEF Without, TypeOK
    <3>5. TypeOK'
      BY <1>2, <2>1, <3>1, <3>3, <3>4
      DEF Lookup, TypeOK, Positions
    <3>6. RecordsAgree'
      BY <1>2, <2>1, <3>1, <3>3, <3>4
      DEF Lookup, RecordsAgree, TypeOK, Record
    <3>7. HotAgrees'
      BY <1>2, <2>1, <3>1, <3>3, <3>4
      DEF Lookup, HotAgrees, HotKeys, TypeOK
    <3>8. DiskAgrees'
      BY <1>2, <2>1, <3>1, <3>3, <3>4
      DEF Lookup, DiskAgrees, TypeOK
    <3>9. RequestsAgree'
      BY <1>2, <2>1, <3>1, <3>3, <3>4
      DEF Lookup, RequestsAgree, Owning, TypeOK
    <3> QED
      BY <3>5, <3>6, <3>7, <3>8, <3>9 DEF OwnershipInv
  <2> QED
    BY <2>2, <2>3
<1>3. ASSUME NEW r \in Reqs, CreateRow(r)
      PROVE  OwnershipInv'
  <2>1. TypeOK'
    BY <1>3
    DEF CreateRow, TypeOK, Positions, RequestsAgree, HotKeys, Row
  <2>2. RecordsAgree'
    BY <1>3
    DEF CreateRow, RecordsAgree, TypeOK, Record
  <2>3. HotAgrees'
    BY <1>3
    DEF CreateRow, HotAgrees, HotKeys, TypeOK
  <2>4. DiskAgrees'
    BY <1>3
    DEF CreateRow, DiskAgrees, TypeOK, RequestsAgree, Row
  <2>5. RequestsAgree'
    BY <1>3
    DEF CreateRow, RequestsAgree, Owning, TypeOK
  <2> QED
    BY <2>1, <2>2, <2>3, <2>4, <2>5 DEF OwnershipInv
<1>4. ASSUME NEW r \in Reqs, LoadRow(r)
      PROVE  OwnershipInv'
  <2>1. CASE row[sid[r]] = None
    <3>1. TypeOK'
      BY <1>4, <2>1
      DEF LoadRow, TypeOK, Positions, HotKeys
    <3>2. RecordsAgree'
      BY <1>4, <2>1
      DEF LoadRow, RecordsAgree, TypeOK, Record
    <3>3. HotAgrees'
      BY <1>4, <2>1
      DEF LoadRow, HotAgrees, HotKeys, TypeOK
    <3>4. DiskAgrees'
      BY <1>4, <2>1
      DEF LoadRow, DiskAgrees, TypeOK
    <3>5. RequestsAgree'
      BY <1>4, <2>1
      DEF LoadRow, RequestsAgree, Owning, TypeOK
    <3> QED
      BY <3>1, <3>2, <3>3, <3>4, <3>5 DEF OwnershipInv
  <2>2. CASE row[sid[r]] # None
    <3> DEFINE new == [sid |-> sid[r], owner |-> row[sid[r]].owner,
                       title |-> row[sid[r]].title, turns |-> {}]
    <3>1. /\ rec' = [rec EXCEPT ![r] = new]
          /\ pc' = [pc EXCEPT ![r] = "load_turns"]
          /\ rec[r] = None /\ sid[r] \in Sids
      BY <1>4, <2>2 DEF LoadRow, RequestsAgree, TypeOK
    <3>2. row[sid[r]] \in Row /\ row[sid[r]].owner = creator[sid[r]]
      BY <2>2, <3>1 DEF TypeOK, DiskAgrees
    <3>3. /\ new \in Record /\ new.sid = sid[r] /\ new.owner = creator[sid[r]]
          /\ new.turns = {} /\ IsFiniteSet({})
      BY <3>1, <3>2, FS_EmptySet DEF Record, Row
    <3> HIDE DEF new
    <3>4. TypeOK'
      BY <1>4, <3>1, <3>3
      DEF LoadRow, TypeOK, Positions, HotKeys
    <3>5. RecordsAgree'
      <4>1. /\ pc[r] = "load_row"
            /\ UNCHANGED <<sid, who, creator>>
        BY <1>4 DEF LoadRow
      <4>2. \A t \in Reqs : pc[t] # "idle" => pc'[t] # "idle"
        BY <3>1, <4>1 DEF TypeOK
      <4>3. \A q \in Reqs \ {r} : rec'[q] = rec[q]
        BY <3>1 DEF TypeOK
      <4>4. rec'[r] = new
        BY <3>1 DEF TypeOK
      <4> SUFFICES ASSUME NEW q \in Reqs, rec'[q] # None
                   PROVE  /\ creator'[rec'[q].sid] = rec'[q].owner
                          /\ IsFiniteSet(rec'[q].turns)
                          /\ \A t \in rec'[q].turns : /\ sid'[t] = rec'[q].sid
                                                      /\ who'[t] = rec'[q].owner
                                                      /\ pc'[t] # "idle"
        BY DEF RecordsAgree
      <4>5. CASE q = r
        BY <3>3, <4>1, <4>4, <4>5
      <4>6. CASE q # r
        <5>1. rec'[q] = rec[q] /\ rec[q] \in Record
          BY <4>3, <4>6 DEF TypeOK
        <5>2. \A t \in rec[q].turns : t \in Reqs
          BY <5>1 DEF Record
        <5> QED
          BY <4>1, <4>2, <5>1, <5>2 DEF RecordsAgree
      <4> QED
        BY <4>5, <4>6
    <3>6. HotAgrees'
      BY <1>4, <3>1, <3>3
      DEF LoadRow, HotAgrees, HotKeys, TypeOK
    <3>7. DiskAgrees'
      BY <1>4, <3>1, <3>3
      DEF LoadRow, DiskAgrees, TypeOK
    <3>8. RequestsAgree'
      BY <1>4, <3>1, <3>3
      DEF LoadRow, RequestsAgree, Owning, TypeOK
    <3> QED
      BY <3>4, <3>5, <3>6, <3>7, <3>8 DEF OwnershipInv
  <2> QED
    BY <2>1, <2>2
<1>5. ASSUME NEW r \in Reqs, LoadTurns(r)
      PROVE  OwnershipInv'
  <2> DEFINE o == r
             new == [rec[o] EXCEPT !.turns = dturns[sid[r]]]
  <2>1. o \in Reqs /\ rec[o] \in Record /\ rec[o].sid = sid[r] /\ rec[o] # None
    BY <1>5 DEF LoadTurns, RequestsAgree, Owning, TypeOK
  <2>2. sid[r] \in Sids /\ dturns[sid[r]] \in SUBSET Reqs
    BY <1>5, <2>1 DEF LoadTurns, TypeOK, Record
  <2>3. /\ new \in Record /\ new.sid = rec[o].sid /\ new.owner = rec[o].owner
        /\ new.turns = dturns[sid[r]]
    BY <2>1, <2>2, RecordFields, Zenon
  <2>4. rec' = [rec EXCEPT ![o] = new]
    BY <1>5, Zenon DEF LoadTurns
  <2>5. /\ pc[r] = "load_turns" /\ pc' = [pc EXCEPT ![r] = "admit"]
        /\ UNCHANGED <<hot, before, stale, row, dturns, aged, kind, who, sid,
                       ref, idx, cap, gone, creator, removed>>
    BY <1>5 DEF LoadTurns
  <2> HIDE DEF new
  <2>6. TypeOK'
    BY <2>1, <2>2, <2>3, <2>4, <2>5
    DEF TypeOK, Positions, HotKeys
  <2>7. RecordsAgree'
    BY <2>1, <2>2, <2>3, <2>4, <2>5
    DEF RecordsAgree, TypeOK, Record, DiskAgrees
  <2>8. HotAgrees'
    BY <2>1, <2>2, <2>3, <2>4, <2>5
    DEF HotAgrees, HotKeys, TypeOK
  <2>9. DiskAgrees'
    BY <2>1, <2>2, <2>3, <2>4, <2>5
    DEF DiskAgrees, TypeOK
  <2>10. RequestsAgree'
    BY <2>1, <2>2, <2>3, <2>4, <2>5
    DEF RequestsAgree, Owning, TypeOK
  <2> QED
    BY <2>6, <2>7, <2>8, <2>9, <2>10 DEF OwnershipInv
<1>6. ASSUME NEW r \in Reqs, StartTurn(r)
      PROVE  OwnershipInv'
  <2>1. Cardinality(rec[ref[r]].turns) + 1 \in Nat
    BY <1>6, FS_CardinalityType DEF StartTurn, RequestsAgree, Owning, RecordsAgree
  <2>2. TypeOK'
    BY <1>6, <2>1
    DEF StartTurn, TypeOK, Positions, HotKeys
  <2>3. RecordsAgree'
    BY <1>6, <2>1
    DEF StartTurn, RecordsAgree, TypeOK, Record
  <2>4. HotAgrees'
    BY <1>6, <2>1
    DEF StartTurn, HotAgrees, HotKeys, TypeOK
  <2>5. DiskAgrees'
    BY <1>6, <2>1
    DEF StartTurn, DiskAgrees, TypeOK
  <2>6. RequestsAgree'
    BY <1>6, <2>1
    DEF StartTurn, RequestsAgree, Owning, TypeOK
  <2> QED
    BY <2>2, <2>3, <2>4, <2>5, <2>6 DEF OwnershipInv
<1>7. ASSUME NEW r \in Reqs, FinishTurn(r)
      PROVE  OwnershipInv'
  <2> DEFINE o == ref[r]
             new == [rec[o] EXCEPT !.turns = rec[o].turns \cup {r}]
  <2>1. o \in Reqs /\ rec[o] \in Record /\ rec[o].sid = sid[r] /\ rec[o] # None
    BY <1>7 DEF FinishTurn, RequestsAgree, Owning, TypeOK
  <2>2. rec[o].turns \cup {r} \in SUBSET Reqs
    BY <1>7, <2>1 DEF FinishTurn, TypeOK, Record
  <2>3. /\ new \in Record /\ new.sid = rec[o].sid /\ new.owner = rec[o].owner
        /\ new.turns = rec[o].turns \cup {r}
    BY <2>1, <2>2, RecordFields, ZenonT(30)
  <2>4. rec' = [rec EXCEPT ![o] = new]
    BY <1>7, Zenon DEF FinishTurn
  <2>5. /\ pc[r] = "running" /\ pc' = [pc EXCEPT ![r] = IF r \in gone THEN "failed" ELSE "sync"]
        /\ UNCHANGED <<hot, before, stale, row, dturns, aged, kind, who, sid,
                       ref, idx, cap, gone, creator, removed>>
    BY <1>7 DEF FinishTurn
  <2> HIDE DEF new
  <2>6. /\ IsFiniteSet(rec[o].turns \cup {r})
        /\ rec[o].owner = who[r]
    BY <1>7, <2>1, FS_AddElement DEF FinishTurn, RecordsAgree, RequestsAgree, Owning
  <2>7. TypeOK'
    BY <2>1, <2>2, <2>3, <2>4, <2>5, <2>6
    DEF TypeOK, Positions, HotKeys
  <2>8. RecordsAgree'
    <3>1. \A t \in Reqs : pc[t] # "idle" => pc'[t] # "idle"
      BY <2>5 DEF TypeOK
    <3>2. \A q \in Reqs \ {o} : rec'[q] = rec[q]
      BY <2>4 DEF TypeOK
    <3>3. rec'[o] = new
      BY <2>1, <2>4 DEF TypeOK
    <3>4. pc'[r] # "idle"
      BY <2>5 DEF TypeOK
    <3>5. /\ creator[new.sid] = new.owner /\ IsFiniteSet(new.turns)
          /\ \A t \in new.turns : /\ t \in Reqs /\ sid[t] = new.sid
                                  /\ who[t] = new.owner /\ pc'[t] # "idle"
      BY <2>1, <2>2, <2>3, <2>6, <3>1, <3>4 DEF RecordsAgree
    <3> QED
      BY <2>5, <3>1, <3>2, <3>3, <3>5 DEF RecordsAgree, TypeOK, Record
  <2>9. HotAgrees'
    BY <2>1, <2>2, <2>3, <2>4, <2>5, <2>6
    DEF HotAgrees, HotKeys, TypeOK
  <2>10. DiskAgrees'
    BY <2>1, <2>2, <2>3, <2>4, <2>5, <2>6
    DEF DiskAgrees, TypeOK
  <2>11. RequestsAgree'
    BY <2>1, <2>2, <2>3, <2>4, <2>5, <2>6
    DEF RequestsAgree, Owning, TypeOK
  <2> QED
    BY <2>7, <2>8, <2>9, <2>10, <2>11 DEF OwnershipInv
<1>8. ASSUME NEW r \in Reqs, FailTurn(r)
      PROVE  OwnershipInv'
  <2>1. TypeOK'
    BY <1>8
    DEF FailTurn, TypeOK, Positions, HotKeys
  <2>2. RecordsAgree'
    BY <1>8
    DEF FailTurn, RecordsAgree, TypeOK, Record
  <2>3. HotAgrees'
    BY <1>8
    DEF FailTurn, HotAgrees, HotKeys, TypeOK
  <2>4. DiskAgrees'
    BY <1>8
    DEF FailTurn, DiskAgrees, TypeOK
  <2>5. RequestsAgree'
    BY <1>8
    DEF FailTurn, RequestsAgree, Owning, TypeOK
  <2> QED
    BY <2>1, <2>2, <2>3, <2>4, <2>5 DEF OwnershipInv
<1>9. ASSUME NEW r \in Reqs, Disconnect(r)
      PROVE  OwnershipInv'
  <2>1. TypeOK'
    BY <1>9
    DEF Disconnect, TypeOK, Positions, HotKeys
  <2>2. RecordsAgree'
    BY <1>9
    DEF Disconnect, RecordsAgree, TypeOK, Record
  <2>3. HotAgrees'
    BY <1>9
    DEF Disconnect, HotAgrees, HotKeys, TypeOK
  <2>4. DiskAgrees'
    BY <1>9
    DEF Disconnect, DiskAgrees, TypeOK
  <2>5. RequestsAgree'
    BY <1>9
    DEF Disconnect, RequestsAgree, Owning, TypeOK
  <2> QED
    BY <2>1, <2>2, <2>3, <2>4, <2>5 DEF OwnershipInv
<1>10. ASSUME NEW r \in Reqs, SyncTitle(r)
      PROVE  OwnershipInv'
  <2> DEFINE o == ref[r]
             new == [rec[o] EXCEPT !.title = (IF rec[o].title = None /\ idx[r] = 1 THEN r ELSE rec[o].title)]
  <2>1. o \in Reqs /\ rec[o] \in Record /\ rec[o].sid = sid[r] /\ rec[o] # None
    BY <1>10 DEF SyncTitle, RequestsAgree, Owning, TypeOK
  <2>2. (IF rec[o].title = None /\ idx[r] = 1 THEN r ELSE rec[o].title) \in Reqs \cup {None}
    BY <1>10, <2>1 DEF SyncTitle, TypeOK, Record
  <2>3. /\ new \in Record /\ new.sid = rec[o].sid /\ new.owner = rec[o].owner
        /\ new.turns = rec[o].turns
    <3> DEFINE title == IF rec[o].title = None /\ idx[r] = 1 THEN r ELSE rec[o].title
    <3>1. title \in Reqs \cup {None} /\ new = [rec[o] EXCEPT !.title = title]
      BY <2>2
    <3> HIDE DEF title, new
    <3> QED
      BY <2>1, <3>1, RecordFields, ZenonT(30)
  <2>4. rec' = [rec EXCEPT ![o] = new]
    BY <1>10, Zenon DEF SyncTitle
  <2>5. /\ pc[r] = "sync" /\ pc' = [pc EXCEPT ![r] = IF Persistent THEN "upsert" ELSE "done"]
        /\ cap' = [cap EXCEPT ![r] = (IF rec[o].title = None /\ idx[r] = 1 THEN r ELSE rec[o].title)]
        /\ UNCHANGED <<hot, before, stale, row, dturns, aged, kind, who, sid,
                       ref, idx, gone, creator, removed>>
    BY <1>10 DEF SyncTitle
  <2> HIDE DEF new
  <2>6. TypeOK'
    BY <2>1, <2>2, <2>3, <2>4, <2>5
    DEF TypeOK, Positions, HotKeys
  <2>7. RecordsAgree'
    BY <2>1, <2>2, <2>3, <2>4, <2>5
    DEF RecordsAgree, TypeOK, Record
  <2>8. HotAgrees'
    BY <2>1, <2>2, <2>3, <2>4, <2>5
    DEF HotAgrees, HotKeys, TypeOK
  <2>9. DiskAgrees'
    BY <2>1, <2>2, <2>3, <2>4, <2>5
    DEF DiskAgrees, TypeOK
  <2>10. RequestsAgree'
    BY <2>1, <2>2, <2>3, <2>4, <2>5
    DEF RequestsAgree, Owning, TypeOK
  <2> QED
    BY <2>6, <2>7, <2>8, <2>9, <2>10 DEF OwnershipInv
<1>11. ASSUME NEW r \in Reqs, SyncUpsert(r)
      PROVE  OwnershipInv'
  <2>1. TypeOK'
    BY <1>11
    DEF SyncUpsert, TypeOK, Positions, RequestsAgree, Owning, HotKeys, Row, Record
  <2>2. RecordsAgree'
    BY <1>11
    DEF SyncUpsert, RecordsAgree, TypeOK, Record
  <2>3. HotAgrees'
    BY <1>11
    DEF SyncUpsert, HotAgrees, HotKeys, TypeOK
  <2>4. DiskAgrees'
    BY <1>11
    DEF SyncUpsert, DiskAgrees, TypeOK, RequestsAgree, Owning, RecordsAgree, Row
  <2>5. RequestsAgree'
    BY <1>11
    DEF SyncUpsert, RequestsAgree, Owning, TypeOK
  <2> QED
    BY <2>1, <2>2, <2>3, <2>4, <2>5 DEF OwnershipInv
<1>12. ASSUME NEW r \in Reqs, SyncSave(r)
      PROVE  OwnershipInv'
  <2>1. IsFiniteSet(dturns[sid[r]] \cup {r})
    BY <1>12, FS_AddElement DEF SyncSave, DiskAgrees, RequestsAgree
  <2>2. TypeOK'
    BY <1>12, <2>1
    DEF SyncSave, TypeOK, Positions, HotKeys, RequestsAgree
  <2>3. RecordsAgree'
    BY <1>12, <2>1
    DEF SyncSave, RecordsAgree, TypeOK, Record
  <2>4. HotAgrees'
    BY <1>12, <2>1
    DEF SyncSave, HotAgrees, HotKeys, TypeOK
  <2>5. DiskAgrees'
    BY <1>12, <2>1
    DEF SyncSave, DiskAgrees, TypeOK, RequestsAgree, Owning, RecordsAgree
  <2>6. RequestsAgree'
    BY <1>12, <2>1
    DEF SyncSave, RequestsAgree, Owning, TypeOK
  <2> QED
    BY <2>2, <2>3, <2>4, <2>5, <2>6 DEF OwnershipInv
<1>13. ASSUME NEW r \in Reqs, RenameRecord(r)
      PROVE  OwnershipInv'
  <2> DEFINE o == ref[r]
             new == [rec[o] EXCEPT !.title = r]
  <2>1. o \in Reqs /\ rec[o] \in Record /\ rec[o].sid = sid[r] /\ rec[o] # None
    BY <1>13 DEF RenameRecord, RequestsAgree, Owning, TypeOK
  <2>2. r \in Reqs \cup {None}
    BY <1>13, <2>1 DEF RenameRecord, TypeOK, Record
  <2>3. /\ new \in Record /\ new.sid = rec[o].sid /\ new.owner = rec[o].owner
        /\ new.turns = rec[o].turns
    BY <2>1, <2>2, RecordFields, Zenon
  <2>4. rec' = [rec EXCEPT ![o] = new]
    BY <1>13, Zenon DEF RenameRecord
  <2>5. /\ pc[r] = "rename" /\ pc' = [pc EXCEPT ![r] = IF Persistent THEN "set_title" ELSE "done"]
        /\ UNCHANGED <<hot, before, stale, row, dturns, aged, kind, who, sid,
                       ref, idx, cap, gone, creator, removed>>
    BY <1>13 DEF RenameRecord
  <2> HIDE DEF new
  <2>6. TypeOK'
    BY <2>1, <2>2, <2>3, <2>4, <2>5
    DEF TypeOK, Positions, HotKeys
  <2>7. RecordsAgree'
    BY <2>1, <2>2, <2>3, <2>4, <2>5
    DEF RecordsAgree, TypeOK, Record
  <2>8. HotAgrees'
    BY <2>1, <2>2, <2>3, <2>4, <2>5
    DEF HotAgrees, HotKeys, TypeOK
  <2>9. DiskAgrees'
    BY <2>1, <2>2, <2>3, <2>4, <2>5
    DEF DiskAgrees, TypeOK
  <2>10. RequestsAgree'
    BY <2>1, <2>2, <2>3, <2>4, <2>5
    DEF RequestsAgree, Owning, TypeOK
  <2> QED
    BY <2>6, <2>7, <2>8, <2>9, <2>10 DEF OwnershipInv
<1>14. ASSUME NEW r \in Reqs, SetTitle(r)
      PROVE  OwnershipInv'
  <2>1. TypeOK'
    BY <1>14
    DEF SetTitle, TypeOK, Positions, HotKeys, RequestsAgree, Row
  <2>2. RecordsAgree'
    BY <1>14
    DEF SetTitle, RecordsAgree, TypeOK, Record
  <2>3. HotAgrees'
    BY <1>14
    DEF SetTitle, HotAgrees, HotKeys, TypeOK
  <2>4. DiskAgrees'
    BY <1>14
    DEF SetTitle, DiskAgrees, TypeOK, Row, RequestsAgree
  <2>5. RequestsAgree'
    BY <1>14
    DEF SetTitle, RequestsAgree, Owning, TypeOK
  <2> QED
    BY <2>1, <2>2, <2>3, <2>4, <2>5 DEF OwnershipInv
<1>15. ASSUME NEW r \in Reqs, DeleteHot(r)
      PROVE  OwnershipInv'
  <2>1. sid[r] \in Sids
    BY <1>15 DEF DeleteHot, RequestsAgree
  <2>2. HotKeys' = HotKeys \ {sid[r]}
    BY <1>15 DEF DeleteHot, HotKeys, TypeOK
  <2>3. IsFiniteSet(HotKeys')
    BY <2>2, FS_Difference DEF HotAgrees
  <2>4. before' \subseteq HotKeys' \X HotKeys'
    BY <1>15, <2>2 DEF DeleteHot, Without, TypeOK
  <2>5. TypeOK'
    BY <1>15, <2>1, <2>3, <2>4
    DEF DeleteHot, TypeOK, Positions
  <2>6. RecordsAgree'
    BY <1>15, <2>1, <2>3, <2>4
    DEF DeleteHot, RecordsAgree, TypeOK, Record
  <2>7. HotAgrees'
    BY <1>15, <2>1, <2>3, <2>4
    DEF DeleteHot, HotAgrees, HotKeys, TypeOK
  <2>8. DiskAgrees'
    BY <1>15, <2>1, <2>3, <2>4
    DEF DeleteHot, DiskAgrees, TypeOK
  <2>9. RequestsAgree'
    BY <1>15, <2>1, <2>3, <2>4
    DEF DeleteHot, RequestsAgree, Owning, TypeOK
  <2> QED
    BY <2>5, <2>6, <2>7, <2>8, <2>9 DEF OwnershipInv
<1>16. ASSUME NEW r \in Reqs, DeleteRow(r)
      PROVE  OwnershipInv'
  <2>1. TypeOK'
    BY <1>16, FS_EmptySet
    DEF DeleteRow, TypeOK, Positions, HotKeys, RequestsAgree
  <2>2. RecordsAgree'
    BY <1>16, FS_EmptySet
    DEF DeleteRow, RecordsAgree, TypeOK, Record
  <2>3. HotAgrees'
    BY <1>16, FS_EmptySet
    DEF DeleteRow, HotAgrees, HotKeys, TypeOK
  <2>4. DiskAgrees'
    BY <1>16, FS_EmptySet
    DEF DeleteRow, DiskAgrees, TypeOK, RequestsAgree
  <2>5. RequestsAgree'
    BY <1>16, FS_EmptySet
    DEF DeleteRow, RequestsAgree, Owning, TypeOK
  <2> QED
    BY <2>1, <2>2, <2>3, <2>4, <2>5 DEF OwnershipInv
<1>17. ASSUME NEW r \in Reqs, Rehydrate(r)
      PROVE  OwnershipInv'
  <2> DEFINE s == sid[r]
             next == AfterLookup(kind[r], who[r], rec[r])
  <2>1. /\ rec[r] # None /\ rec[r].sid = s /\ s \in Sids /\ kind[r] \in AllKinds
        /\ Admit(r, s, rec[r].owner) /\ pc' = [pc EXCEPT ![r] = next]
    BY <1>17 DEF Rehydrate, RequestsAgree
  <2>2. /\ hot' \in [Sids -> Reqs \cup {None}]
        /\ before' \subseteq HotKeys' \X HotKeys'
        /\ stale' = stale
        /\ IsFiniteSet(HotKeys')
        /\ hot'[s] = r
        /\ \A t \in Sids \ {s} : hot'[t] \in {hot[t], None}
    BY <2>1, AdmitFacts DEF HotAgrees
  <2>3. /\ next \in {"failed", "done", "rename", "delete_hot", "wait"}
        /\ next # "failed" => rec[r].owner = who[r]
    BY <2>1, AfterLookupGuards
  <2> HIDE DEF next
  <2>4. TypeOK'
    BY <1>17, <2>1, <2>2, <2>3
    DEF Rehydrate, TypeOK, Positions
  <2>5. RecordsAgree'
    BY <1>17, <2>1, <2>2, <2>3
    DEF Rehydrate, RecordsAgree, TypeOK, Record
  <2>6. HotAgrees'
    BY <1>17, <2>1, <2>2, <2>3
    DEF Rehydrate, HotAgrees, HotKeys, TypeOK
  <2>7. DiskAgrees'
    BY <1>17, <2>1, <2>2, <2>3
    DEF Rehydrate, DiskAgrees, TypeOK
  <2>8. RequestsAgree'
    BY <1>17, <2>1, <2>2, <2>3
    DEF Rehydrate, RequestsAgree, Owning, TypeOK
  <2> QED
    BY <2>4, <2>5, <2>6, <2>7, <2>8 DEF OwnershipInv
<1>18. ASSUME NEW s \in Sids, Expire(s)
      PROVE  OwnershipInv'
  <2>1. TypeOK'
    BY <1>18
    DEF Expire, TypeOK, Positions, HotKeys
  <2>2. RecordsAgree'
    BY <1>18
    DEF Expire, RecordsAgree, TypeOK, Record
  <2>3. HotAgrees'
    BY <1>18
    DEF Expire, HotAgrees, HotKeys, TypeOK
  <2>4. DiskAgrees'
    BY <1>18
    DEF Expire, DiskAgrees, TypeOK
  <2>5. RequestsAgree'
    BY <1>18
    DEF Expire, RequestsAgree, Owning, TypeOK
  <2> QED
    BY <2>1, <2>2, <2>3, <2>4, <2>5 DEF OwnershipInv
<1>19. ASSUME NEW s \in Sids, Age(s)
      PROVE  OwnershipInv'
  <2>1. TypeOK'
    BY <1>19
    DEF Age, TypeOK, Positions, HotKeys
  <2>2. RecordsAgree'
    BY <1>19
    DEF Age, RecordsAgree, TypeOK, Record
  <2>3. HotAgrees'
    BY <1>19
    DEF Age, HotAgrees, HotKeys, TypeOK
  <2>4. DiskAgrees'
    BY <1>19
    DEF Age, DiskAgrees, TypeOK
  <2>5. RequestsAgree'
    BY <1>19
    DEF Age, RequestsAgree, Owning, TypeOK
  <2> QED
    BY <2>1, <2>2, <2>3, <2>4, <2>5 DEF OwnershipInv
<1>20. CASE Restart
  <2>1. HotKeys' = {} /\ IsFiniteSet({})
    BY <1>20, FS_EmptySet DEF Restart, HotKeys
  <2>2. TypeOK'
    BY <1>20, <2>1
    DEF Restart, TypeOK, Positions
  <2>3. RecordsAgree'
    BY <1>20, <2>1
    DEF Restart, RecordsAgree, TypeOK, Record
  <2>4. HotAgrees'
    BY <1>20, <2>1
    DEF Restart, HotAgrees, HotKeys, TypeOK
  <2>5. DiskAgrees'
    BY <1>20, <2>1
    DEF Restart, DiskAgrees, TypeOK
  <2>6. RequestsAgree'
    BY <1>20, <2>1
    DEF Restart, RequestsAgree, Owning, TypeOK
  <2> QED
    BY <2>2, <2>3, <2>4, <2>5, <2>6 DEF OwnershipInv
<1>21. CASE UNCHANGED vars
  <2>1. TypeOK'
    BY <1>21
    DEF vars, TypeOK, Positions, HotKeys
  <2>2. RecordsAgree'
    BY <1>21
    DEF vars, RecordsAgree, TypeOK, Record
  <2>3. HotAgrees'
    BY <1>21
    DEF vars, HotAgrees, HotKeys, TypeOK
  <2>4. DiskAgrees'
    BY <1>21
    DEF vars, DiskAgrees, TypeOK
  <2>5. RequestsAgree'
    BY <1>21
    DEF vars, RequestsAgree, Owning, TypeOK
  <2> QED
    BY <2>1, <2>2, <2>3, <2>4, <2>5 DEF OwnershipInv
<1> QED
  BY <1>1, <1>2, <1>3, <1>4, <1>5, <1>6, <1>7, <1>8,
     <1>9, <1>10, <1>11, <1>12, <1>13, <1>14, <1>15, <1>16,
     <1>17, <1>18, <1>19, <1>20, <1>21
  DEF Next, Serve

\* The invariant holds in every reachable state.
THEOREM Ownership == Spec => []OwnershipInv
BY InitOwnership, NextOwnership, PTL DEF Spec

\* Type correctness of the store, the tables and the requests.
THEOREM TypeCorrect == Spec => []TypeOK
<1>1. OwnershipInv => TypeOK
  BY DEF OwnershipInv
<1> QED
  BY <1>1, Ownership, PTL

\* No turn ever appears in another principal's transcript.
THEOREM Isolation == Spec => []TranscriptIsolation
<1>1. OwnershipInv => TranscriptIsolation
  BY DEF OwnershipInv, TypeOK, RecordsAgree, HotAgrees, DiskAgrees, HotKeys,
         TranscriptIsolation
<1> QED
  BY <1>1, Ownership, PTL

-----------------------------------------------------------------------------
(* The hot set: eviction stays with its owner and the excess is bounded.   *)

\* A finite hot set has finitely many owners.
LEMMA FiniteOwners ==
    /\ IsFiniteSet(HotKeys) => IsFiniteSet(HotOwners)
    /\ IsFiniteSet(HotKeys') => IsFiniteSet(HotOwners')
<1>1. ASSUME NEW S, NEW f, IsFiniteSet(S) PROVE IsFiniteSet({f[x] : x \in S})
  <2> DEFINE T == {f[x] : x \in S}
             g == [x \in S |-> f[x]]
  <2>1. g \in Surjection(S, T)
    BY DEF Surjection
  <2> QED
    BY <1>1, <2>1, FS_Surjection
<1>2. HotOwners = {[t \in HotKeys |-> OwnerOf(t)][x] : x \in HotKeys}
  BY DEF HotOwners
<1>3. HotOwners' = {[t \in HotKeys' |-> OwnerOf(t)'][x] : x \in HotKeys'}
  BY DEF HotOwners
<1> QED
  BY <1>1, <1>2, <1>3

\* Evicting for p and inserting one session of p keeps the bound.  Either the
\* loop found room, and the limit itself holds; or p gave up everything it
\* had, and then p counts as a new owner or replaces at least one session.
LEMMA AdmitKeepsBound ==
    ASSUME OwnershipInv, HotSetBounded,
           NEW r \in Reqs, NEW s \in Sids, NEW p \in Principals,
           Admit(r, s, p), creator'[s] = p, rec'[r] # None, rec'[r].owner = p,
           s \in HotKeys => OwnerOf(s) = p,
           \A t \in HotKeys : rec'[hot[t]].owner = rec[hot[t]].owner
    PROVE  HotSetBounded'
<1>1. PICK victims \in SUBSET SessionsOf(p) :
        /\ MakeRoom(p, victims)
        /\ hot' = [t \in Sids |-> IF t = s THEN r
                                  ELSE IF t \in victims THEN None ELSE hot[t]]
  BY DEF Admit
<1> DEFINE rest == HotKeys \ victims
<1>2. HotKeys' = rest \cup {s}
  BY <1>1, NoneAssumption DEF HotKeys, OwnershipInv, TypeOK
<1>3. \A t \in rest \ {s} : OwnerOf(t)' = OwnerOf(t)
  BY <1>1 DEF OwnerOf, HotKeys
<1>4. OwnerOf(s)' = p
  BY <1>1 DEF OwnerOf
<1>5. IsFiniteSet(HotKeys) /\ IsFiniteSet(rest) /\ IsFiniteSet(HotOwners)
  <2>1. IsFiniteSet(HotKeys)
    BY DEF OwnershipInv, HotAgrees
  <2> QED
    BY <2>1, FS_Difference, FiniteOwners
<1>6. /\ Cardinality(HotKeys) \in Nat /\ Cardinality(rest) \in Nat
      /\ Cardinality(HotOwners) \in Nat
  BY <1>5, FS_CardinalityType
<1>7. CASE Cardinality(rest) < MaxSize
  <2>1. Cardinality(HotKeys') <= MaxSize
    <3> HIDE DEF rest
    <3>1. CASE s \in rest
      <4>1. HotKeys' = rest
        BY <1>2, <3>1
      <4> QED
        BY <1>6, <1>7, <4>1, MaxSizeAssumption
    <3>2. CASE s \notin rest
      <4>1. Cardinality(HotKeys') = Cardinality(rest) + 1
        BY <1>2, <1>5, <3>2, FS_AddElement
      <4> QED
        BY <1>6, <1>7, <4>1, MaxSizeAssumption
    <3> QED
      BY <3>1, <3>2
  <2>2. p \in HotOwners'
    BY <1>2, <1>4 DEF HotOwners
  <2>3. IsFiniteSet(HotKeys')
    BY <1>2, <1>5, FS_AddElement
  <2>4. IsFiniteSet(HotOwners')
    BY <2>3, FiniteOwners
  <2>5. Cardinality(HotOwners') \in Nat /\ Cardinality(HotOwners') # 0
    BY <2>2, <2>4, FS_CardinalityType, FS_EmptySet
  <2>6. Cardinality(HotKeys') \in Nat
    BY <2>3, FS_CardinalityType
  <2> QED
    BY <2>1, <2>5, <2>6, MaxSizeAssumption DEF HotSetBounded
<1>8. CASE victims = SessionsOf(p)
  <2>1. s \notin rest /\ \A t \in rest : OwnerOf(t) # p
    BY <1>8 DEF SessionsOf
  <2>2. HotOwners' = HotOwners \cup {p}
    BY <1>2, <1>3, <1>4, <1>8, <2>1 DEF HotOwners, SessionsOf
  <2>3. Cardinality(HotKeys') = Cardinality(rest) + 1
    BY <1>2, <1>5, <2>1, FS_AddElement
  <2>4. CASE p \in HotOwners
    <3>1. rest # HotKeys
      BY <1>8, <2>4 DEF HotOwners, SessionsOf
    <3>2. Cardinality(rest) <= Cardinality(HotKeys) /\ Cardinality(rest) # Cardinality(HotKeys)
      BY <1>5, <3>1, FS_Subset
    <3>3. HotOwners' = HotOwners
      BY <2>2, <2>4
    <3> QED
      BY <1>6, <2>3, <3>2, <3>3, MaxSizeAssumption DEF HotSetBounded
  <2>5. CASE p \notin HotOwners
    <3>1. Cardinality(rest) <= Cardinality(HotKeys)
      BY <1>5, FS_Subset
    <3>2. Cardinality(HotOwners') = Cardinality(HotOwners) + 1
      BY <1>5, <2>2, <2>5, FS_AddElement
    <3> QED
      BY <1>6, <2>3, <3>1, <3>2, MaxSizeAssumption DEF HotSetBounded
  <2> QED
    BY <2>4, <2>5
<1> QED
  BY <1>1, <1>7, <1>8 DEF MakeRoom

\* Taking one session out of the hot set keeps the bound: at most one owner
\* leaves with it.
LEMMA RemoveKeepsBound ==
    ASSUME OwnershipInv, HotSetBounded, NEW s \in HotKeys,
           hot' = [hot EXCEPT ![s] = None], rec' = rec
    PROVE  HotSetBounded'
<1>1. HotKeys' = HotKeys \ {s} /\ s \in Sids
  BY DEF HotKeys, OwnershipInv, TypeOK
<1>2. \A t \in HotKeys \ {s} : OwnerOf(t)' = OwnerOf(t)
  BY <1>1 DEF OwnerOf, HotKeys, OwnershipInv, TypeOK
<1>3. HotOwners \ {OwnerOf(s)} \subseteq HotOwners'
  BY <1>1, <1>2 DEF HotOwners
<1>4. IsFiniteSet(HotKeys) /\ IsFiniteSet(HotKeys')
  BY <1>1, FS_RemoveElement DEF OwnershipInv, HotAgrees
<1>5. IsFiniteSet(HotOwners) /\ IsFiniteSet(HotOwners')
  BY <1>4, FiniteOwners
<1>6. Cardinality(HotKeys') = Cardinality(HotKeys) - 1
  BY <1>1, <1>4, FS_RemoveElement
<1>7. Cardinality(HotOwners') >= Cardinality(HotOwners) - 1
  <2> DEFINE others == HotOwners \ {OwnerOf(s)}
  <2>0. OwnerOf(s) \in HotOwners
    BY DEF HotOwners
  <2>1. IsFiniteSet(others) /\ Cardinality(others) = Cardinality(HotOwners) - 1
    BY <1>5, <2>0, FS_RemoveElement
  <2>2. Cardinality(others) <= Cardinality(HotOwners')
    BY <1>3, <1>5, FS_Subset
  <2>3. Cardinality(HotOwners) \in Nat /\ Cardinality(HotOwners') \in Nat
    BY <1>5, FS_CardinalityType
  <2> QED
    BY <2>1, <2>2, <2>3
<1>8. /\ Cardinality(HotKeys) \in Nat /\ Cardinality(HotOwners) \in Nat
      /\ Cardinality(HotOwners') \in Nat
  BY <1>4, <1>5, FS_CardinalityType
<1> QED
  BY <1>6, <1>7, <1>8, MaxSizeAssumption DEF HotSetBounded

\* No step changes the owner of a record object once it is built.
LEMMA OwnersKept ==
    ASSUME OwnershipInv, [Next]_vars
    PROVE  \A o \in Reqs : rec[o] # None => rec'[o].owner = rec[o].owner
<1> SUFFICES ASSUME NEW o \in Reqs, rec[o] # None
             PROVE  rec'[o].owner = rec[o].owner
  OBVIOUS
<1>0. TypeOK /\ RequestsAgree
  BY DEF OwnershipInv
<1>1. ASSUME NEW r \in Reqs, NEW p \in Principals, NEW s \in Sids,
             CreateAdmit(r, p, s)
      PROVE  rec'[o].owner = rec[o].owner
  <2>1. rec[r] = None
    BY <1>0, <1>1 DEF CreateAdmit, RequestsAgree
  <2> QED
    BY <1>1, <2>1 DEF CreateAdmit, OwnershipInv, TypeOK
<1>2. ASSUME NEW r \in Reqs, LoadRow(r)
      PROVE  rec'[o].owner = rec[o].owner
  <2>1. rec[r] = None
    BY <1>0, <1>2 DEF LoadRow, RequestsAgree
  <2> QED
    BY <1>0, <1>2, <2>1 DEF LoadRow, TypeOK
<1>3. ASSUME NEW r \in Reqs, NEW m \in Reqs, NEW new,
             rec[m] # None, new.owner = rec[m].owner,
             rec' = [rec EXCEPT ![m] = new]
      PROVE  rec'[o].owner = rec[o].owner
  BY <1>0, <1>3 DEF TypeOK
<1>4. ASSUME NEW r \in Reqs, LoadTurns(r)
      PROVE  rec'[o].owner = rec[o].owner
  <2> DEFINE new == [rec[r] EXCEPT !.turns = dturns[sid[r]]]
  <2>1. rec[r] \in Record /\ rec[r] # None /\ dturns[sid[r]] \in SUBSET Reqs
    BY <1>0, <1>4 DEF LoadTurns, RequestsAgree, TypeOK
  <2>2. new.owner = rec[r].owner
    BY <2>1, RecordFields, Zenon
  <2>3. rec' = [rec EXCEPT ![r] = new]
    BY <1>4, Zenon DEF LoadTurns
  <2> QED
    BY <1>3, <2>1, <2>2, <2>3
<1>5. ASSUME NEW r \in Reqs, pc[r] \in Owning
      PROVE  ref[r] \in Reqs /\ rec[ref[r]] # None /\ rec[ref[r]] \in Record
  BY <1>0, <1>5 DEF RequestsAgree, TypeOK
<1>6. ASSUME NEW r \in Reqs, FinishTurn(r)
      PROVE  rec'[o].owner = rec[o].owner
  <2> DEFINE new == [rec[ref[r]] EXCEPT !.turns = @ \cup {r}]
  <2>1. ref[r] \in Reqs /\ rec[ref[r]] # None /\ rec[ref[r]] \in Record
    BY <1>5, <1>6 DEF FinishTurn, Owning
  <2>2. rec[ref[r]].turns \cup {r} \in SUBSET Reqs
    BY <2>1 DEF Record
  <2>3. new.owner = rec[ref[r]].owner
    BY <2>1, <2>2, RecordFields, Zenon
  <2>4. rec' = [rec EXCEPT ![ref[r]] = new]
    BY <1>6, Zenon DEF FinishTurn
  <2> QED
    BY <1>3, <2>1, <2>3, <2>4
<1>7. ASSUME NEW r \in Reqs, SyncTitle(r)
      PROVE  rec'[o].owner = rec[o].owner
  <2> DEFINE title == IF rec[ref[r]].title = None /\ idx[r] = 1
                      THEN r ELSE rec[ref[r]].title
             new == [rec[ref[r]] EXCEPT !.title = title]
  <2>1. ref[r] \in Reqs /\ rec[ref[r]] # None /\ rec[ref[r]] \in Record
    BY <1>5, <1>7 DEF SyncTitle, Owning
  <2>2. title \in Reqs \cup {None}
    BY <2>1 DEF Record
  <2>3. new.owner = rec[ref[r]].owner
    <3> HIDE DEF title
    <3> QED
      BY <2>1, <2>2, RecordFields, Zenon
  <2>4. rec' = [rec EXCEPT ![ref[r]] = new]
    BY <1>7, Zenon DEF SyncTitle
  <2> QED
    BY <1>3, <2>1, <2>3, <2>4
<1>8. ASSUME NEW r \in Reqs, RenameRecord(r)
      PROVE  rec'[o].owner = rec[o].owner
  <2> DEFINE new == [rec[ref[r]] EXCEPT !.title = r]
  <2>1. ref[r] \in Reqs /\ rec[ref[r]] # None /\ rec[ref[r]] \in Record
    BY <1>5, <1>8 DEF RenameRecord, Owning
  <2>2. new.owner = rec[ref[r]].owner
    BY <2>1, RecordFields, Zenon
  <2>3. rec' = [rec EXCEPT ![ref[r]] = new]
    BY <1>8, Zenon DEF RenameRecord
  <2> QED
    BY <1>3, <2>1, <2>2, <2>3
<1>9. CASE rec' = rec
  BY <1>9
<1> QED
  <2>1. ASSUME NEW r \in Reqs, Serve(r) PROVE rec'[o].owner = rec[o].owner
    <3>1. \/ LoadRow(r) \/ LoadTurns(r) \/ FinishTurn(r) \/ SyncTitle(r) \/ RenameRecord(r)
          \/ rec' = rec
      BY <2>1 DEF Serve, CreateRow, Rehydrate, StartTurn, FailTurn, SyncUpsert, SyncSave,
         SetTitle, DeleteHot, DeleteRow
    <3> QED
      BY <3>1, <1>2, <1>4, <1>6, <1>7, <1>8, <1>9
  <2>2. ASSUME NEW r \in Reqs, NEW p \in Principals, NEW s \in Sids, NEW k \in Kinds,
               Lookup(r, k, p, s)
        PROVE  rec' = rec
    BY <2>2 DEF Lookup
  <2>3. CASE (\E r \in Reqs : Disconnect(r)) \/ (\E s \in Sids : Expire(s) \/ Age(s)) \/ Restart
    BY <1>9, <2>3 DEF Disconnect, Expire, Age, Restart
  <2>4. CASE UNCHANGED vars
    BY <1>9, <2>4 DEF vars
  <2> QED
    BY <1>1, <1>9, <2>1, <2>2, <2>3, <2>4 DEF Next

\* A step that leaves the hot set alone keeps the bound.
LEMMA SameHotKeepsBound ==
    ASSUME OwnershipInv, HotSetBounded, [Next]_vars, hot' = hot
    PROVE  HotSetBounded'
<1>1. HotKeys' = HotKeys
  BY DEF HotKeys
<1>2. \A s \in HotKeys : OwnerOf(s)' = OwnerOf(s)
  BY OwnersKept DEF OwnerOf, HotKeys, OwnershipInv, HotAgrees, TypeOK
<1>3. HotOwners' = HotOwners
  BY <1>1, <1>2 DEF HotOwners
<1> QED
  BY <1>1, <1>3 DEF HotSetBounded

\* Every step keeps the bound.
LEMMA NextBounded ==
    OwnershipInv /\ HotSetBounded /\ [Next]_vars => HotSetBounded'
<1> SUFFICES ASSUME OwnershipInv, HotSetBounded, [Next]_vars
             PROVE  HotSetBounded'
  OBVIOUS
<1>0. TypeOK /\ HotAgrees /\ RequestsAgree /\ RecordsAgree
  BY DEF OwnershipInv
<1>1. \A t \in HotKeys : rec'[hot[t]].owner = rec[hot[t]].owner
  BY <1>0, OwnersKept DEF HotKeys, HotAgrees, TypeOK
<1>2. \A t \in HotKeys : OwnerOf(t) = creator[t]
  BY <1>0 DEF HotKeys, HotAgrees, RecordsAgree, OwnerOf, TypeOK
<1>3. ASSUME NEW r \in Reqs, NEW p \in Principals, NEW s \in Sids,
             CreateAdmit(r, p, s)
      PROVE  HotSetBounded'
  <2>1. Admit(r, s, p) /\ creator[s] = None /\ creator' = [creator EXCEPT ![s] = p]
    BY <1>3 DEF CreateAdmit
  <2>2. /\ [sid |-> s, owner |-> p, title |-> None, turns |-> {}] \in Record
        /\ rec'[r] = [sid |-> s, owner |-> p, title |-> None, turns |-> {}]
    BY <1>0, <1>3 DEF CreateAdmit, TypeOK, Record
  <2>3. rec'[r] # None /\ rec'[r].owner = p /\ creator'[s] = p
    <3>1. rec'[r] \in Record /\ rec'[r].owner = p
      BY <2>2
    <3>2. creator'[s] = p
      BY <1>0, <2>1 DEF TypeOK
    <3> QED
      BY <3>1, <3>2, NoneAssumption, Zenon
  <2>4. s \notin HotKeys
    <3>1. s \in HotKeys => rec[hot[s]] \in Record
      BY <1>0 DEF HotAgrees, HotKeys, TypeOK
    <3> QED
      BY <1>2, <2>1, <3>1, NoneAssumption DEF OwnerOf, Record
  <2> QED
    BY <1>1, <2>1, <2>3, <2>4, AdmitKeepsBound
<1>4. ASSUME NEW r \in Reqs, Rehydrate(r)
      PROVE  HotSetBounded'
  <2>1. Admit(r, sid[r], rec[r].owner) /\ rec' = rec /\ creator' = creator
    BY <1>4 DEF Rehydrate, histVars
  <2>2. rec[r] \in Record /\ rec[r] # None /\ rec[r].sid = sid[r]
    BY <1>0, <1>4 DEF Rehydrate, RequestsAgree, TypeOK
  <2>3. sid[r] \in Sids /\ rec[r].owner \in Principals
        /\ creator[sid[r]] = rec[r].owner
    BY <1>0, <2>2 DEF Record, RecordsAgree
  <2> QED
    BY <1>1, <1>2, <2>1, <2>2, <2>3, AdmitKeepsBound
<1>5. ASSUME NEW s \in Sids, hot' = [hot EXCEPT ![s] = None], rec' = rec
      PROVE  HotSetBounded'
  <2>1. CASE s \in HotKeys
    BY <1>5, <2>1, RemoveKeepsBound
  <2>2. CASE s \notin HotKeys
    <3>1. hot' = hot
      BY <1>0, <1>5, <2>2 DEF HotKeys, TypeOK
    <3> QED
      BY <3>1, SameHotKeepsBound
  <2> QED
    BY <2>1, <2>2
<1>6. ASSUME NEW r \in Reqs, NEW p \in Principals, NEW s \in Sids,
             NEW k \in Kinds, Lookup(r, k, p, s)
      PROVE  HotSetBounded'
  <2>1. hot' = hot \/ hot' = [hot EXCEPT ![s] = None]
    BY <1>6 DEF Lookup
  <2>2. rec' = rec
    BY <1>6 DEF Lookup
  <2> QED
    BY <1>5, <2>1, <2>2, SameHotKeepsBound
<1>7. ASSUME NEW r \in Reqs, DeleteHot(r)
      PROVE  HotSetBounded'
  <2>1. sid[r] \in Sids /\ hot' = [hot EXCEPT ![sid[r]] = None] /\ rec' = rec
    BY <1>0, <1>7 DEF DeleteHot, RequestsAgree
  <2> QED
    BY <1>5, <2>1
<1>8. CASE Restart
  <2>1. HotKeys' = {}
    BY <1>8 DEF Restart, HotKeys
  <2>2. HotOwners' = {}
    BY <2>1 DEF HotOwners
  <2> QED
    BY <2>1, <2>2, FS_EmptySet, MaxSizeAssumption DEF HotSetBounded
<1>9. CASE hot' = hot
  BY <1>9, SameHotKeepsBound
<1> QED
  BY <1>3, <1>4, <1>6, <1>7, <1>8, <1>9
  DEF Next, Serve, CreateRow, LoadRow, LoadTurns, StartTurn, FinishTurn, FailTurn,
      Disconnect, SyncTitle, SyncUpsert, SyncSave, RenameRecord, SetTitle,
      DeleteRow, Expire, Age, storeVars, vars

\* _make_room_for never lets the hot set exceed session_max_count by more than
\* one session for each principal beyond the first that owns a live session.
THEOREM Bounded == Spec => []HotSetBounded
<1>1. Init => HotSetBounded
  <2> SUFFICES ASSUME Init PROVE HotSetBounded
    OBVIOUS
  <2>1. HotKeys = {}
    BY DEF Init, HotKeys
  <2>2. HotOwners = {}
    BY <2>1 DEF HotOwners
  <2> QED
    BY <2>1, <2>2, FS_EmptySet, MaxSizeAssumption DEF HotSetBounded
<1> QED
  BY <1>1, Ownership, NextBounded, PTL DEF Spec

\* The sessions that Admit evicts belong to the principal it admits for.
LEMMA AdmitEvictsOwn ==
    ASSUME NEW r, NEW s, NEW p, Admit(r, s, p), r # None, TypeOK,
           NEW t \in HotKeys, hot'[t] = None
    PROVE  OwnerOf(t) = p
<1>1. PICK victims \in SUBSET SessionsOf(p) :
        hot' = [u \in Sids |-> IF u = s THEN r
                               ELSE IF u \in victims THEN None ELSE hot[u]]
  BY DEF Admit
<1>2. t \in victims
  BY <1>1 DEF HotKeys
<1> QED
  BY <1>2 DEF SessionsOf

\* No principal's request takes a live session of another principal out of the
\* hot set.
THEOREM Eviction == Spec => EvictionStaysHome
<1> DEFINE Home == \A s \in HotKeys :
         hot'[s] = None /\ hot[s] \notin stale =>
            \/ Restart
            \/ \E r \in Reqs : /\ pc'[r] # pc[r]
                               /\ creator'[sid'[r]] = OwnerOf(s)
<1>1. ASSUME OwnershipInv, [Next]_vars PROVE [Home]_vars
  <2> SUFFICES ASSUME NEW t \in HotKeys, hot'[t] = None, hot[t] \notin stale,
                      ~Restart
               PROVE  \E r \in Reqs : /\ pc'[r] # pc[r]
                                      /\ creator'[sid'[r]] = OwnerOf(t)
    OBVIOUS
  <2>0. TypeOK /\ HotAgrees /\ RequestsAgree /\ RecordsAgree
    BY <1>1 DEF OwnershipInv
  <2>1. hot[t] # None /\ t \in Sids /\ OwnerOf(t) = creator[t]
    BY <2>0 DEF HotKeys, HotAgrees, RecordsAgree, OwnerOf, TypeOK
  <2>2. ASSUME NEW r \in Reqs, NEW p \in Principals, NEW s \in Sids,
               CreateAdmit(r, p, s)
        PROVE  pc'[r] # pc[r] /\ creator'[sid'[r]] = OwnerOf(t)
    <3>1. /\ Admit(r, s, p) /\ pc[r] = "idle"
          /\ pc' = [pc EXCEPT ![r] = IF Persistent THEN "create_row" ELSE "done"]
          /\ creator' = [creator EXCEPT ![s] = p] /\ sid' = [sid EXCEPT ![r] = s]
      BY <2>2 DEF CreateAdmit, Goto
    <3>2. OwnerOf(t) = p
      BY <2>0, <3>1, AdmitEvictsOwn, NoneAssumption
    <3>3. pc'[r] # pc[r] /\ sid'[r] = s /\ creator'[s] = p
      BY <2>0, <3>1 DEF TypeOK
    <3> QED
      BY <3>2, <3>3
  <2>3. ASSUME NEW r \in Reqs, Rehydrate(r)
        PROVE  pc'[r] # pc[r] /\ creator'[sid'[r]] = OwnerOf(t)
    <3>1. /\ Admit(r, sid[r], rec[r].owner) /\ pc[r] = "admit"
          /\ pc' = [pc EXCEPT ![r] = AfterLookup(kind[r], who[r], rec[r])]
          /\ creator' = creator /\ sid' = sid
      BY <2>3 DEF Rehydrate, Goto, reqVars, histVars
    <3>2. OwnerOf(t) = rec[r].owner
      BY <2>0, <3>1, AdmitEvictsOwn, NoneAssumption
    <3>3. creator[sid[r]] = rec[r].owner /\ kind[r] \in AllKinds
      BY <2>0, <3>1 DEF RequestsAgree, RecordsAgree
    <3>4. AfterLookup(kind[r], who[r], rec[r]) # "admit"
      BY <3>3, AfterLookupGuards
    <3>5. pc'[r] # pc[r]
      <4> DEFINE next == AfterLookup(kind[r], who[r], rec[r])
      <4> HIDE DEF next
      <4>1. pc' = [pc EXCEPT ![r] = next] /\ next # "admit"
        BY <3>1, <3>4 DEF next
      <4> QED
        BY <2>0, <3>1, <4>1 DEF TypeOK
    <3> QED
      BY <3>1, <3>2, <3>3, <3>5
  <2>4. ASSUME NEW r \in Reqs, DeleteHot(r)
        PROVE  pc'[r] # pc[r] /\ creator'[sid'[r]] = OwnerOf(t)
    <3>1. /\ hot' = [hot EXCEPT ![sid[r]] = None] /\ pc[r] = "delete_hot"
          /\ pc' = [pc EXCEPT ![r] = IF Persistent THEN "delete_row" ELSE "done"]
          /\ creator' = creator /\ sid' = sid
      BY <2>4 DEF DeleteHot, Goto, reqVars
    <3>2. sid[r] = t
      BY <2>0, <2>1, <3>1 DEF TypeOK
    <3>3. pc'[r] # pc[r]
      BY <2>0, <3>1 DEF TypeOK
    <3> QED
      BY <2>1, <3>1, <3>2, <3>3
  <2>5. ASSUME NEW r \in Reqs, NEW p \in Principals, NEW s \in Sids,
               NEW k \in Kinds, Lookup(r, k, p, s)
        PROVE  FALSE
    <3>1. hot' = hot \/ (hot' = [hot EXCEPT ![s] = None]
                         /\ (hot[s] = None \/ hot[s] \in stale))
      BY <2>5 DEF Lookup
    <3> QED
      BY <2>0, <2>1, <3>1 DEF TypeOK
  <2>6. CASE hot' = hot
    BY <2>1, <2>6
  <2> QED
    BY <1>1, <2>2, <2>3, <2>4, <2>5, <2>6
    DEF Next, Serve, CreateRow, LoadRow, LoadTurns, StartTurn, FinishTurn, FailTurn,
        Disconnect, SyncTitle, SyncUpsert, SyncSave, RenameRecord, SetTitle,
        DeleteRow, Expire, Age, storeVars, vars
<1>2. (Spec => []OwnershipInv) => (Spec => [][Home]_vars)
  BY <1>1, PTL DEF Spec
<1> QED
  BY <1>2, Ownership, PTL DEF EvictionStaysHome

-----------------------------------------------------------------------------
(* What was answered stays answered: acknowledged turns and deletions.     *)

\* The handlers that ever come to each position outside the ask handlers' own.
Suits(k, l) ==
    /\ l = "create_row" => k = "create"
    /\ l \in {"rename", "set_title"} => k = "rename"
    /\ l \in {"delete_hot", "delete_row"} => k = "delete"
KindsAgree == \A r \in Reqs : Suits(kind[r], pc[r])

\* A session a request names, that has a row to age, or that was removed, was
\* created, so its id is never created again.
SessionsCreated ==
    /\ \A r \in Reqs : pc[r] # "idle" => creator[sid[r]] # None
    /\ \A s \in removed \cup aged : creator[s] # None

AnswersInv == OwnershipInv /\ KindsAgree /\ SessionsCreated /\ AckedTurnDurable

\* AfterLookup sends each handler to its own position, and answers at once only
\* a read.
LEMMA AfterLookupSuits ==
    ASSUME NEW k \in AllKinds, NEW caller, NEW record
    PROVE  /\ Suits(k, AfterLookup(k, caller, record))
           /\ AfterLookup(k, caller, record) = "done" => k \notin AskKinds
BY DEF AfterLookup, AllKinds, AskKinds, Suits

\* One request moves: what the others were told stays true if no stored turn of
\* a session that still exists is dropped.
LEMMA MoveKeepsAnswers ==
    ASSUME AnswersInv, NEW r \in Reqs, NEW l,
           pc' = [pc EXCEPT ![r] = l],
           \A q \in Reqs \ {r} : kind'[q] = kind[q] /\ sid'[q] = sid[q],
           Suits(kind'[r], l),
           removed \subseteq removed',
           \A s \in Sids : s \notin removed' => dturns[s] \subseteq dturns'[s],
           Persistent /\ l = "done" /\ kind'[r] \in AskKinds => r \in dturns'[sid'[r]]
    PROVE  KindsAgree' /\ AckedTurnDurable'
<1>1. pc'[r] = l /\ \A q \in Reqs \ {r} : pc'[q] = pc[q]
  BY DEF AnswersInv, OwnershipInv, TypeOK
<1>2. KindsAgree'
  BY <1>1 DEF AnswersInv, KindsAgree
<1>3. ASSUME Persistent, NEW q \in Reqs, kind'[q] \in AskKinds, pc'[q] = "done",
             sid'[q] \notin removed'
      PROVE  q \in dturns'[sid'[q]]
  <2>1. CASE q = r
    BY <1>1, <1>3, <2>1
  <2>2. CASE q # r
    <3>1. sid[q] \in Sids /\ pc[q] = "done"
      BY <1>1, <1>3, <2>2 DEF AnswersInv, OwnershipInv, RequestsAgree
    <3>2. q \in dturns[sid[q]]
      BY <1>3, <2>2, <3>1 DEF AnswersInv, AckedTurnDurable
    <3> QED
      BY <1>3, <2>2, <3>1, <3>2
  <2> QED
    BY <2>1, <2>2
<1> QED
  BY <1>2, <1>3 DEF AckedTurnDurable

\* One request moves: every session it names, ages or removes was created.
LEMMA MoveKeepsCreated ==
    ASSUME AnswersInv, NEW r \in Reqs, NEW l,
           pc' = [pc EXCEPT ![r] = l], creator' = creator, UNCHANGED sid,
           creator[sid[r]] # None,
           removed' \cup aged' \subseteq removed \cup aged \cup {sid[r]}
    PROVE  SessionsCreated'
BY DEF AnswersInv, SessionsCreated, OwnershipInv, TypeOK

LEMMA InitAnswers == Init => AnswersInv
<1> SUFFICES ASSUME Init PROVE AnswersInv
  OBVIOUS
<1>1. KindsAgree /\ SessionsCreated /\ AckedTurnDurable
  BY DEF Init, KindsAgree, Suits, SessionsCreated, AckedTurnDurable
<1> QED
  BY <1>1, InitOwnership DEF AnswersInv

LEMMA NextAnswers == AnswersInv /\ [Next]_vars => AnswersInv'
<1> SUFFICES ASSUME AnswersInv, [Next]_vars PROVE AnswersInv'
  OBVIOUS
<1>0. OwnershipInv' /\ OwnershipInv
  BY NextOwnership DEF AnswersInv
<1>1. ASSUME NEW r \in Reqs, NEW p \in Principals, NEW s \in Sids, CreateAdmit(r, p, s)
      PROVE  AnswersInv'
  <2>1. /\ pc' = [pc EXCEPT ![r] = IF Persistent THEN "create_row" ELSE "done"]
        /\ pc[r] = "idle"
        /\ kind' = [kind EXCEPT ![r] = "create"] /\ sid' = [sid EXCEPT ![r] = s]
        /\ creator' = [creator EXCEPT ![s] = p] /\ UNCHANGED <<dturns, aged, removed>>
    BY <1>1 DEF CreateAdmit, Goto, diskVars
  <2>2. kind'[r] = "create" /\ sid'[r] = s
        /\ \A q \in Reqs \ {r} : kind'[q] = kind[q] /\ sid'[q] = sid[q] /\ pc'[q] = pc[q]
    BY <1>0, <2>1 DEF OwnershipInv, TypeOK
  <2>3. KindsAgree' /\ AckedTurnDurable'
    <3> DEFINE l == IF Persistent THEN "create_row" ELSE "done"
    <3>1. Suits("create", l) /\ "create" \notin AskKinds
      BY DEF Suits, AskKinds
    <3>2. pc' = [pc EXCEPT ![r] = l]
      BY <2>1
    <3> HIDE DEF l
    <3>3. Suits(kind'[r], l) /\ kind'[r] \notin AskKinds
      BY <2>2, <3>1
    <3>4. removed \subseteq removed' /\ \A u \in Sids : dturns[u] \subseteq dturns'[u]
      BY <2>1
    <3> QED
      BY <2>2, <3>2, <3>3, <3>4, MoveKeepsAnswers
  <2>4. SessionsCreated'
    <3>1. creator'[s] = p /\ p # None /\ \A t \in Sids : t # s => creator'[t] = creator[t]
      BY <1>0, <2>1, NoneAssumption DEF OwnershipInv, TypeOK
    <3>2. \A q \in Reqs : pc[q] # "idle" => sid[q] \in Sids
      BY <1>0 DEF OwnershipInv, RequestsAgree
    <3>3. removed \subseteq Sids /\ aged \subseteq Sids
      BY <1>0 DEF OwnershipInv, TypeOK
    <3> QED
      BY <2>1, <2>2, <3>1, <3>2, <3>3 DEF AnswersInv, SessionsCreated
  <2> QED
    BY <1>0, <2>3, <2>4 DEF AnswersInv
<1>2. ASSUME NEW r \in Reqs, NEW p \in Principals, NEW s \in Sids,
             NEW k \in Kinds, Lookup(r, k, p, s)
      PROVE  AnswersInv'
  <2>1. PICK l : /\ pc' = [pc EXCEPT ![r] = l]
                 /\ \/ l = AfterLookup(k, p, rec[hot[s]])
                    \/ l \in {"load_row", "failed"}
    BY <1>2 DEF Lookup, Goto
  <2>2. /\ kind' = [kind EXCEPT ![r] = k] /\ sid' = [sid EXCEPT ![r] = s]
        /\ UNCHANGED <<dturns, aged, removed, creator>> /\ pc[r] = "idle" /\ Announced(s)
    BY <1>2 DEF Lookup, diskVars, histVars
  <2>3. kind'[r] = k /\ sid'[r] = s
        /\ \A q \in Reqs \ {r} : kind'[q] = kind[q] /\ sid'[q] = sid[q] /\ pc'[q] = pc[q]
    BY <1>0, <2>1, <2>2 DEF OwnershipInv, TypeOK
  <2>4. k \in AllKinds
    BY KindsAssumption
  <2>5. Suits(k, l) /\ (l = "done" => k \notin AskKinds)
    BY <2>1, <2>4, AfterLookupSuits DEF Suits
  <2>6. KindsAgree' /\ AckedTurnDurable'
    BY <2>1, <2>2, <2>3, <2>5, MoveKeepsAnswers
  <2>7. creator[s] # None
    BY <2>2 DEF Announced, AnswersInv, SessionsCreated
  <2>8. SessionsCreated'
    BY <2>2, <2>3, <2>7 DEF AnswersInv, SessionsCreated
  <2> QED
    BY <1>0, <2>6, <2>8 DEF AnswersInv
<1>3. ASSUME NEW r \in Reqs, Serve(r) \/ Disconnect(r), pc[r] # "idle"
      PROVE  AnswersInv'
  <2>1. UNCHANGED <<kind, sid, creator>> /\ creator[sid[r]] # None /\ sid[r] \in Sids
    BY <1>0, <1>3 DEF Serve, Disconnect, CreateRow, LoadRow, LoadTurns, Rehydrate, StartTurn,
       FinishTurn, FailTurn, SyncTitle, SyncUpsert, SyncSave, RenameRecord, SetTitle,
       DeleteHot, DeleteRow, reqVars, histVars, AnswersInv, SessionsCreated,
       OwnershipInv, RequestsAgree
  <2>2. /\ removed \subseteq removed'
        /\ removed' \cup aged' \subseteq removed \cup aged \cup {sid[r]}
    BY <1>3 DEF Serve, Disconnect, CreateRow, LoadRow, LoadTurns, Rehydrate, StartTurn,
       FinishTurn, FailTurn, SyncTitle, SyncUpsert, SyncSave, RenameRecord, SetTitle,
       DeleteHot, DeleteRow, histVars, diskVars
  <2>3. \A s \in Sids : s \notin removed' => dturns[s] \subseteq dturns'[s]
    <3>1. CASE UNCHANGED dturns
      BY <3>1
    <3>2. CASE SyncSave(r)
      BY <1>0, <3>2 DEF SyncSave, OwnershipInv, TypeOK
    <3>3. CASE DeleteRow(r)
      BY <1>0, <3>3 DEF DeleteRow, OwnershipInv, TypeOK
    <3> QED
      BY <1>3, <3>1, <3>2, <3>3 DEF Serve, Disconnect, CreateRow, LoadRow, LoadTurns,
         Rehydrate, StartTurn, FinishTurn, FailTurn, SyncTitle, SyncUpsert, RenameRecord,
         SetTitle, DeleteHot, diskVars
  <2>4. PICK l : /\ pc' = [pc EXCEPT ![r] = l]
                 /\ Suits(kind[r], l)
                 /\ Persistent /\ l = "done" /\ kind[r] \in AskKinds => r \in dturns'[sid[r]]
    <3>0. Suits(kind[r], pc[r]) /\ kind[r] \in AllKinds
      BY <1>0, <1>3 DEF AnswersInv, KindsAgree, OwnershipInv, RequestsAgree
    <3>1. CASE \E l \in {"load_turns", "admit", "failed", "save", "running", "sync", "wait"} :
                 pc' = [pc EXCEPT ![r] = l]
      BY <3>1 DEF Suits
    <3>2. CASE CreateRow(r) \/ SetTitle(r) \/ DeleteRow(r)
      <4>1. pc' = [pc EXCEPT ![r] = "done"] /\ kind[r] \in {"create", "rename", "delete"}
        BY <3>0, <3>2 DEF CreateRow, SetTitle, DeleteRow, Goto, Suits
      <4> QED
        BY <4>1 DEF AskKinds, Suits
    <3>3. CASE Rehydrate(r)
      BY <3>0, <3>3, AfterLookupSuits DEF Rehydrate, Goto
    <3>4. CASE SyncTitle(r)
      <4>1. CASE Persistent
        <5>1. pc' = [pc EXCEPT ![r] = "upsert"] /\ pc[r] = "sync"
          BY <3>4, <4>1 DEF SyncTitle, Goto
        <5>2. Suits(kind[r], "upsert")
          BY <3>0, <5>1 DEF Suits
        <5> WITNESS "upsert"
        <5> QED
          BY <5>1, <5>2
      <4>2. CASE ~Persistent
        BY <3>4, <4>2 DEF SyncTitle, Goto, Suits
      <4> QED
        BY <4>1, <4>2
    <3>5. CASE SyncSave(r)
      BY <1>0, <2>1, <3>5 DEF SyncSave, Goto, Suits, OwnershipInv, TypeOK
    <3>6. CASE RenameRecord(r)
      <4>1. CASE Persistent
        <5>1. pc' = [pc EXCEPT ![r] = "set_title"] /\ pc[r] = "rename"
          BY <3>6, <4>1 DEF RenameRecord, Goto
        <5>2. Suits(kind[r], "set_title")
          BY <3>0, <5>1 DEF Suits
        <5> WITNESS "set_title"
        <5> QED
          BY <5>1, <5>2
      <4>2. CASE ~Persistent
        BY <3>6, <4>2 DEF RenameRecord, Goto, Suits
      <4> QED
        BY <4>1, <4>2
    <3>7. CASE DeleteHot(r)
      <4>1. CASE Persistent
        <5>1. pc' = [pc EXCEPT ![r] = "delete_row"] /\ pc[r] = "delete_hot"
          BY <3>7, <4>1 DEF DeleteHot, Goto
        <5>2. Suits(kind[r], "delete_row")
          BY <3>0, <5>1 DEF Suits
        <5> WITNESS "delete_row"
        <5> QED
          BY <5>1, <5>2
      <4>2. CASE ~Persistent
        BY <3>7, <4>2 DEF DeleteHot, Goto, Suits
      <4> QED
        BY <4>1, <4>2
    <3>8. CASE Disconnect(r)
      BY <3>8, <3>1 DEF Disconnect, Goto
    <3>9. CASE LoadRow(r) \/ LoadTurns(r) \/ StartTurn(r) \/ FinishTurn(r) \/ FailTurn(r)
               \/ SyncUpsert(r)
      BY <3>1, <3>9 DEF LoadRow, LoadTurns, StartTurn, FinishTurn, FailTurn, SyncUpsert, Goto
    <3> QED
      BY <1>3, <3>2, <3>3, <3>4, <3>5, <3>6, <3>7, <3>8, <3>9 DEF Serve
  <2>5. KindsAgree' /\ AckedTurnDurable'
    BY <2>1, <2>2, <2>3, <2>4, MoveKeepsAnswers
  <2>6. SessionsCreated'
    BY <2>1, <2>2, <2>4, MoveKeepsCreated
  <2> QED
    BY <1>0, <2>5, <2>6 DEF AnswersInv
<1>4. ASSUME NEW s \in Sids, Expire(s) \/ Age(s) PROVE AnswersInv'
  <2>1. UNCHANGED <<kind, sid, pc, creator, removed, dturns>>
    BY <1>4 DEF Expire, Age, reqVars, histVars, diskVars
  <2>2. KindsAgree' /\ AckedTurnDurable'
    BY <2>1 DEF AnswersInv, KindsAgree, AckedTurnDurable
  <2>3. aged' \subseteq aged \cup {t \in Sids : row[t] # None}
    BY <1>4 DEF Expire, Age, diskVars
  <2>4. \A t \in Sids : row[t] # None => creator[t] # None
    BY <1>0, NoneAssumption DEF OwnershipInv, DiskAgrees, TypeOK, Row
  <2> QED
    BY <1>0, <2>1, <2>2, <2>3, <2>4 DEF AnswersInv, SessionsCreated
<1>5. CASE Restart
  <2>1. UNCHANGED <<kind, sid, creator>> /\ removed' = removed \cup aged /\ aged' = {}
        /\ dturns' = [s \in Sids |-> IF s \in aged THEN {} ELSE dturns[s]]
        /\ pc' = [r \in Reqs |-> IF pc[r] \in {"idle", "done"} THEN pc[r] ELSE "failed"]
    BY <1>5 DEF Restart, reqVars
  <2>2. KindsAgree' /\ SessionsCreated'
    BY <2>1 DEF AnswersInv, KindsAgree, Suits, SessionsCreated
  <2>3. AckedTurnDurable'
    <3>1. \A r \in Reqs : pc[r] = "done" => sid[r] \in Sids
      BY <1>0 DEF OwnershipInv, RequestsAgree
    <3> QED
      BY <2>1, <3>1 DEF AnswersInv, AckedTurnDurable
  <2> QED
    BY <1>0, <2>2, <2>3 DEF AnswersInv
<1>6. CASE UNCHANGED vars
  BY <1>0, <1>6 DEF vars, AnswersInv, KindsAgree, SessionsCreated, AckedTurnDurable
<1>7. \A r \in Reqs : Serve(r) \/ Disconnect(r) => pc[r] # "idle"
  BY DEF Serve, Disconnect, CreateRow, LoadRow, LoadTurns, Rehydrate, StartTurn,
     FinishTurn, FailTurn, SyncTitle, SyncUpsert, SyncSave, RenameRecord, SetTitle,
     DeleteHot, DeleteRow
<1> QED
  BY <1>1, <1>2, <1>3, <1>4, <1>5, <1>6, <1>7 DEF Next

LEMMA Answers == Spec => []AnswersInv
BY InitAnswers, NextAnswers, PTL DEF Spec

\* A turn whose answer was sent is in the turns table until its session is deleted
\* or purged: sync_turn saves before the response, and nothing else drops turns.
THEOREM Durable == Spec => []AckedTurnDurable
<1>1. AnswersInv => AckedTurnDurable
  BY DEF AnswersInv
<1> QED
  BY <1>1, Answers, PTL

\* A request that still works on a deleted session only looks for its row.
Over == {"load_row", "done", "failed"}

LEMMA AdmitElsewhere ==
    ASSUME TypeOK, NEW r, NEW s, NEW p, Admit(r, s, p), NEW t \in Sids, t # s, hot[t] = None
    PROVE  hot'[t] = None
BY DEF Admit

\* A request that is past its lookup does not hold session s.
LEMMA GoneStep ==
    ASSUME AnswersInv, NEW s \in Sids, Gone(s), NEW r \in Reqs, pc[r] # "idle",
           Serve(r) \/ Disconnect(r)
    PROVE  Gone(s)'
<1>0. TypeOK /\ sid[r] \in Sids
  BY DEF AnswersInv, OwnershipInv, RequestsAgree
<1>1. /\ UNCHANGED sid /\ removed \subseteq removed'
      /\ \A q \in Reqs : q # r => pc'[q] = pc[q]
  BY <1>0 DEF Serve, Disconnect, CreateRow, LoadRow, LoadTurns, Rehydrate, StartTurn,
     FinishTurn, FailTurn, SyncTitle, SyncUpsert, SyncSave, RenameRecord, SetTitle,
     DeleteHot, DeleteRow, reqVars, histVars, Goto, TypeOK
<1>2. CASE sid[r] = s
  <2>1. pc[r] \in Over
    BY <1>2 DEF Gone, Over
  <2>2. LoadRow(r)
    BY <2>1 DEF Over, Serve, Disconnect, CreateRow, LoadTurns, Rehydrate, StartTurn,
       FinishTurn, FailTurn, SyncTitle, SyncUpsert, SyncSave, RenameRecord, SetTitle,
       DeleteHot, DeleteRow
  <2>3. pc' = [pc EXCEPT ![r] = "failed"] /\ UNCHANGED <<hot, row>>
    BY <1>2, <2>2 DEF LoadRow, Gone, Goto, storeVars, diskVars
  <2>4. pc'[r] = "failed"
    BY <1>0, <2>3 DEF TypeOK
  <2> QED
    BY <1>1, <2>3, <2>4 DEF Gone
<1>3. CASE sid[r] # s
  <2>1. hot'[s] = None
    <3>1. CASE UNCHANGED hot
      BY <3>1 DEF Gone
    <3>2. CASE Rehydrate(r)
      BY <1>0, <1>3, <3>2, AdmitElsewhere DEF Rehydrate, Gone
    <3>3. CASE DeleteHot(r)
      BY <1>0, <3>3 DEF DeleteHot, Gone, TypeOK
    <3> QED
      BY <3>1, <3>2, <3>3 DEF Serve, Disconnect, CreateRow, LoadRow, LoadTurns, StartTurn,
         FinishTurn, FailTurn, SyncTitle, SyncUpsert, SyncSave, RenameRecord, SetTitle,
         DeleteRow, storeVars
  <2>2. row'[s] = None
    <3>1. CASE UNCHANGED row
      BY <3>1 DEF Gone
    <3>2. CASE CreateRow(r) \/ SyncUpsert(r) \/ SetTitle(r) \/ DeleteRow(r)
      BY <1>0, <1>3, <3>2 DEF CreateRow, SyncUpsert, SetTitle, DeleteRow, Gone, TypeOK
    <3> QED
      BY <3>1, <3>2 DEF Serve, Disconnect, LoadRow, LoadTurns, Rehydrate, StartTurn,
         FinishTurn, FailTurn, SyncTitle, SyncSave, RenameRecord, DeleteHot, diskVars
  <2> QED
    BY <1>1, <1>3, <2>1, <2>2 DEF Gone
<1> QED
  BY <1>2, <1>3

\* No request brings a deleted or purged session back once the requests that found
\* it earlier are over: its id is never created again, and a lookup finds neither
\* a record nor a row.
THEOREM Forgotten == Spec => GoneForGood
<1> DEFINE Stays == \A s \in Sids : Gone(s) => Gone(s)'
<1>1. ASSUME AnswersInv, [Next]_vars PROVE [Stays]_vars
  <2> SUFFICES ASSUME NEW s \in Sids, Gone(s) PROVE Gone(s)'
    OBVIOUS
  <2>0. TypeOK /\ creator[s] # None
    BY <1>1 DEF AnswersInv, OwnershipInv, SessionsCreated, Gone
  <2>1. ASSUME NEW r \in Reqs, NEW p \in Principals, NEW n \in Sids, CreateAdmit(r, p, n)
        PROVE  Gone(s)'
    <3>1. n # s
      BY <2>0, <2>1 DEF CreateAdmit
    <3>2. hot'[s] = None /\ UNCHANGED <<row, removed>>
      BY <2>0, <2>1, <3>1, AdmitElsewhere DEF CreateAdmit, Gone, diskVars
    <3>3. \A q \in Reqs : sid'[q] = s => sid[q] = s /\ pc'[q] = pc[q]
      BY <2>0, <2>1, <3>1 DEF CreateAdmit, Goto, TypeOK
    <3> QED
      BY <3>2, <3>3 DEF Gone
  <2>2. ASSUME NEW r \in Reqs, NEW p \in Principals, NEW n \in Sids,
               NEW k \in Kinds, Lookup(r, k, p, n)
        PROVE  Gone(s)'
    <3>1. UNCHANGED <<row, removed>> /\ sid' = [sid EXCEPT ![r] = n]
      BY <2>2 DEF Lookup, diskVars, histVars
    <3>2. hot'[s] = None
      BY <2>0, <2>2 DEF Lookup, Gone, TypeOK
    <3>3. n = s => \E l \in {"load_row", "failed"} : pc' = [pc EXCEPT ![r] = l]
      BY <2>2 DEF Lookup, Goto, Gone
    <3>4. \A q \in Reqs \ {r} : pc'[q] = pc[q] /\ sid'[q] = sid[q]
      BY <2>0, <2>2 DEF Lookup, Goto, TypeOK
    <3>5. sid'[r] = s => pc'[r] \in {"load_row", "failed"}
      BY <2>0, <3>1, <3>3 DEF TypeOK
    <3> QED
      BY <3>1, <3>2, <3>4, <3>5 DEF Gone
  <2>3. ASSUME NEW r \in Reqs, Serve(r) \/ Disconnect(r) PROVE Gone(s)'
    <3>1. pc[r] # "idle"
      BY <2>3 DEF Serve, Disconnect, CreateRow, LoadRow, LoadTurns, Rehydrate, StartTurn,
         FinishTurn, FailTurn, SyncTitle, SyncUpsert, SyncSave, RenameRecord, SetTitle,
         DeleteHot, DeleteRow
    <3> QED
      BY <1>1, <2>3, <3>1, GoneStep
  <2>4. ASSUME NEW n \in Sids, Expire(n) \/ Age(n) PROVE Gone(s)'
    BY <2>4 DEF Expire, Age, Gone, storeVars, reqVars, histVars, diskVars
  <2>5. CASE Restart
    BY <2>5 DEF Restart, Gone, reqVars
  <2>6. CASE UNCHANGED vars
    BY <2>6 DEF vars, Gone
  <2> QED
    BY <1>1, <2>1, <2>2, <2>3, <2>4, <2>5, <2>6 DEF Next
<1>2. (Spec => []AnswersInv) => (Spec => [][Stays]_vars)
  BY <1>1, PTL DEF Spec
<1> QED
  BY <1>2, Answers, PTL DEF GoneForGood
=============================================================================
