--------------------------- MODULE ServingProofs ---------------------------
(***************************************************************************)
(* Proofs about the machines a question meets around its answer, in the    *)
(* modules MCServing puts side by side: Admission, Vocabulary and KeepWarm, *)
(* for any calls, slots, permits, threads and stages, any columns and      *)
(* operators, any sources, intervals and budgets.                          *)
(*                                                                         *)
(* Admission: the queues are used as the sets of what they hold: each      *)
(* holds a thing once, and where a call's callbacks and work items are     *)
(* follows from how far its handler and its task are.                      *)
(***************************************************************************)
EXTENDS MCServing, FiniteSetTheorems, SequenceTheorems, TLAPS

Elements(s) == {s[i] : i \in DOMAIN s}
Distinct(s) == \A i, j \in DOMAIN s : s[i] = s[j] => i = j

\* c's callback, or its work item, is in a queue.
R(c, what) == Item(c, what) \in Elements(ready)
P(c, what) == Item(c, what) \in Elements(pool)
B(c, what) == Item(c, what) \in busy

QueuesInv ==
    /\ ready \in Seq(Callback) /\ Distinct(ready)
    /\ waiting \in Seq(Calls) /\ Distinct(waiting)
    /\ pool \in Seq(WorkItem) /\ Distinct(pool)
    /\ busy \subseteq WorkItem
    /\ events \in [Calls -> Seq({"stage", "done"})]

Pcs == {"idle", "checking", "starting", "awaiting", "reading", "joining", "answered",
        "refused", "gone"}
Tasks == {"none", "new", "waiting", "granted", "running", "done"}
CallType == [route : AllRoutes, since : BOOLEAN, pc : Pcs, task : Tasks]

\* How far the handler is says which route it serves and how far its task may be.
HandlerInv(c) ==
    LET pc == call[c].pc task == call[c].task route == call[c].route IN
    /\ pc = "idle" \/ route \in Routes
    /\ pc \in {"idle", "checking", "refused", "starting"} => task = "none"
    /\ pc = "awaiting" => route # "turns" /\ task \in {"waiting", "granted", "running"}
    /\ pc = "reading" => route = "turns" /\ task # "none"
    /\ pc = "joining" => route = "turns" /\ task = "running"
    /\ pc = "answered" => task = "done"
    /\ pc = "gone" => \/ route = "stream" /\ task = "done"
                      \/ route = "turns" /\ task # "none"
    /\ R(c, "start") => pc = "starting"

\* Where the task of a call is.
TaskInv(c) ==
    LET task == call[c].task IN
    /\ R(c, "task") => task = "new"
    /\ R(c, "granted") => task = "granted"
    /\ R(c, "ran") => task = "running" /\ ~P(c, "run") /\ ~B(c, "run") /\ ~B(c, "end")
    /\ c \in Elements(waiting) => task = "waiting"
    /\ P(c, "run") => task = "running" /\ ~B(c, "run") /\ ~B(c, "end")
    /\ B(c, "run") => /\ ~B(c, "end")
                      /\ \/ task = "running"
                         \/ task = "done" /\ call[c].pc = "gone" /\ call[c].route = "stream"
    /\ B(c, "end") => task \in {"running", "done"} /\ call[c].route = "turns"
    /\ ~P(c, "end")

\* The work of c's task is over: its sentinel was put.
Over(c) == call[c].task \in {"running", "done"} /\ ~P(c, "run") /\ ~B(c, "run")

Ended(s) == s # <<>> /\ s[Len(s)] = "done"

\* The generator of a streamed turn has one wait for an event at a time, and one
\* that still waits finds the sentinel when there is nothing else to come.
ReaderInv(c) ==
    /\ P(c, "get") => call[c].pc = "reading" /\ ~B(c, "get") /\ ~R(c, "stage") /\ ~R(c, "done")
    /\ R(c, "stage") => call[c].pc = "reading" /\ ~B(c, "get") /\ ~R(c, "done")
    /\ R(c, "done") => call[c].pc = "reading" /\ ~B(c, "get")
    /\ B(c, "get") => call[c].route = "turns" /\ call[c].pc \in {"reading", "gone"}
    /\ ("done" \in Elements(events[c]) \/ R(c, "done") \/ call[c].pc = "joining") => Over(c)
    /\ (P(c, "get") \/ B(c, "get") \/ R(c, "stage")) /\ Over(c) => Ended(events[c])

\* A gated call that met maintenance, and no switch since, is still to be checked.
SinceInv(c) ==
    (call[c].since /\ call[c].route # "patch") =>
        /\ call[c].pc \in {"checking", "refused"}
        /\ call[c].pc = "checking" => maint.on

CallOk(c) == HandlerInv(c) /\ TaskInv(c) /\ ReaderInv(c) /\ SinceInv(c)

CallsInv == call \in [Calls -> CallType] /\ \A c \in Calls : CallOk(c)

SlotsInv == active \in Nat /\ SlotsCounted
PermitsInv == permits \in Nat /\ PermitsCounted

MaintInv == maint \in [on : BOOLEAN, switched : 0 .. Toggles]

IInv == QueuesInv /\ CallsInv /\ SlotsInv /\ PermitsInv /\ MaintInv

-----------------------------------------------------------------------------
(* Queues that hold a thing once                                           *)

LEMMA ItemFacts ==
    /\ \A c, d, v, w : Item(c, v) = Item(d, w) <=> c = d /\ v = w
    /\ \A c \in Calls : \A w \in {"run", "end", "get"} : Item(c, w) \in WorkItem
    /\ \A c \in Calls :
        \A w \in {"start", "task", "granted", "ran", "stage", "done"} : Item(c, w) \in Callback
BY DEF Item, WorkItem, Callback

LEMMA EmptyQueue == Elements(<<>>) = {} /\ Distinct(<<>>)
BY DEF Elements, Distinct

LEMMA AppendQueue ==
    ASSUME NEW S, NEW s \in Seq(S), Distinct(s), NEW e \in S, e \notin Elements(s)
    PROVE  /\ Append(s, e) \in Seq(S) /\ Distinct(Append(s, e)) /\ Append(s, e) # <<>>
           /\ Elements(Append(s, e)) = Elements(s) \cup {e}
<1> DEFINE new == Append(s, e)
<1>1. /\ Len(s) \in Nat /\ DOMAIN s = 1 .. Len(s) /\ new \in Seq(S) /\ Len(new) = Len(s) + 1
      /\ \A i \in 1 .. Len(s) : new[i] = s[i]
      /\ new[Len(s) + 1] = e
    BY LenProperties, AppendProperties
<1>2. DOMAIN new = 1 .. Len(s) + 1
    BY <1>1, LenProperties
<1> HIDE DEF new
<1>3. \A i \in DOMAIN new : i \in DOMAIN s \/ i = Len(s) + 1
    BY <1>1, <1>2
<1>4. Elements(new) = Elements(s) \cup {e}
    <2>1. \A i \in DOMAIN new : new[i] \in Elements(s) \cup {e}
        BY <1>1, <1>3 DEF Elements
    <2>2. \A i \in DOMAIN s : i \in DOMAIN new /\ new[i] = s[i]
        BY <1>1, <1>2
    <2>3. Len(s) + 1 \in DOMAIN new
        BY <1>1, <1>2
    <2> QED
        BY <1>1, <2>1, <2>2, <2>3 DEF Elements
<1>5. \A i \in DOMAIN s : s[i] # e
    BY DEF Elements
<1>6. Distinct(new)
    BY <1>1, <1>3, <1>5 DEF Distinct
<1>7. new # <<>>
    BY <1>1
<1> QED
    BY <1>1, <1>4, <1>6, <1>7 DEF new

LEMMA TailQueue ==
    ASSUME NEW S, NEW s \in Seq(S), Distinct(s), s # <<>>
    PROVE  /\ Tail(s) \in Seq(S) /\ Distinct(Tail(s)) /\ Head(s) \in S /\ Head(s) \in Elements(s)
           /\ Elements(Tail(s)) = Elements(s) \ {Head(s)}
<1> DEFINE rest == Tail(s)
<1>1. /\ Len(s) \in Nat \ {0} /\ DOMAIN s = 1 .. Len(s) /\ Head(s) \in S /\ Head(s) = s[1]
      /\ rest \in Seq(S) /\ Len(rest) = Len(s) - 1
      /\ \A i \in 1 .. Len(s) - 1 : rest[i] = s[i + 1]
    <2>1. Len(s) \in Nat /\ Len(s) # 0 /\ DOMAIN s = 1 .. Len(s)
        BY LenProperties, EmptySeq
    <2>2. /\ Head(s) \in S /\ Head(s) = s[1] /\ rest \in Seq(S) /\ Len(rest) = Len(s) - 1
          /\ \A i \in 1 .. Len(rest) : rest[i] = s[i + 1]
        BY HeadTailProperties
    <2> QED
        BY <2>1, <2>2
<1>2. DOMAIN rest = 1 .. Len(s) - 1
    BY <1>1, LenProperties
<1> HIDE DEF rest
<1>3. \A i \in DOMAIN rest : i + 1 \in DOMAIN s /\ i + 1 # 1 /\ rest[i] = s[i + 1]
    BY <1>1, <1>2
<1>4. 1 \in DOMAIN s /\ \A j \in DOMAIN s : j # 1 => j - 1 \in DOMAIN rest /\ rest[j - 1] = s[j]
    <2>1. 1 \in DOMAIN s
        BY <1>1
    <2>2. \A j \in DOMAIN s : j # 1 => j - 1 \in DOMAIN rest /\ (j - 1) + 1 = j
        BY <1>1, <1>2
    <2> QED
        BY <1>3, <2>1, <2>2
<1>5. Elements(rest) = Elements(s) \ {s[1]}
    <2>1. \A i \in DOMAIN rest : rest[i] \in Elements(s) /\ rest[i] # s[1]
        BY <1>3, <1>4 DEF Elements, Distinct
    <2>2. \A j \in DOMAIN s : s[j] # s[1] => s[j] \in Elements(rest)
        BY <1>4 DEF Elements
    <2> QED
        BY <2>1, <2>2 DEF Elements
<1>6. Distinct(rest)
    <2> SUFFICES ASSUME NEW i \in DOMAIN rest, NEW j \in DOMAIN rest, rest[i] = rest[j]
                 PROVE  i = j
        BY DEF Distinct
    <2>1. i + 1 = j + 1
        BY <1>3 DEF Distinct
    <2> QED
        BY <1>1, <1>2, <2>1
<1> QED
    BY <1>1, <1>4, <1>5, <1>6 DEF rest, Elements

LEMMA WithoutQueue ==
    ASSUME NEW S, NEW s \in Seq(S), Distinct(s), NEW items,
           \A x, y \in Elements(s) \cap items : x = y
    PROVE  /\ Without(s, items) \in Seq(S) /\ Distinct(Without(s, items))
           /\ Elements(Without(s, items)) = Elements(s) \ items
<1>1. Len(s) \in Nat /\ DOMAIN s = 1 .. Len(s) /\ \A i \in 1 .. Len(s) : s[i] \in S
    BY LenProperties, ElementOfSeq
<1>2. CASE ~\E i \in DOMAIN s : s[i] \in items
    BY <1>2 DEF Without, Elements
<1>3. CASE \E i \in DOMAIN s : s[i] \in items
    <2> DEFINE p == CHOOSE i \in DOMAIN s : s[i] \in items
               a == SubSeq(s, 1, p - 1)
               b == SubSeq(s, p + 1, Len(s))
               new == a \o b
    <2>1. p \in 1 .. Len(s) /\ s[p] \in items
        BY <1>1, <1>3
    <2>2. Without(s, items) = new
        BY <1>3 DEF Without
    <2> HIDE DEF p
    <2>3. /\ a \in Seq(S) /\ Len(a) = p - 1 /\ \A i \in 1 .. p - 1 : a[i] = s[i]
        <3>1. 1 \in Int /\ p - 1 \in Int /\ (\A i \in 1 .. p - 1 : s[i] \in S)
              /\ (p - 1) - 1 + 1 = p - 1 /\ (\A i \in 1 .. p - 1 : 1 + i - 1 = i)
              /\ (IF 1 <= p - 1 THEN p - 1 ELSE 0) = p - 1
            BY <1>1, <2>1
        <3> QED
            BY <3>1, SubSeqProperties
    <2>4. /\ b \in Seq(S) /\ Len(b) = Len(s) - p /\ \A i \in 1 .. Len(s) - p : b[i] = s[i + p]
        <3>1. p + 1 \in Int /\ Len(s) \in Int /\ Len(s) - (p + 1) + 1 = Len(s) - p
              /\ (~(p + 1 <= Len(s)) => Len(s) - p = 0)
            <4>1. p \in Nat /\ p <= Len(s) /\ Len(s) \in Nat
                BY <1>1, <2>1
            <4> HIDE DEF b
            <4> QED
                BY <4>1
        <3>2. \A i \in p + 1 .. Len(s) : i \in 1 .. Len(s)
            BY <1>1, <2>1
        <3>3. \A i \in 1 .. Len(s) - p : (p + 1) + i - 1 = i + p
            BY <1>1, <2>1
        <3>4. /\ b \in Seq(S)
              /\ Len(b) = IF p + 1 <= Len(s) THEN Len(s) - (p + 1) + 1 ELSE 0
              /\ \A i \in 1 .. Len(s) - (p + 1) + 1 : b[i] = s[(p + 1) + i - 1]
            BY <1>1, <3>1, <3>2, SubSeqProperties
        <3> HIDE DEF b
        <3> QED
            BY <3>1, <3>3, <3>4
    <2> HIDE DEF a, b
    <2>5. /\ new \in Seq(S) /\ Len(new) = Len(s) - 1
          /\ \A i \in 1 .. Len(s) - 1 : new[i] = IF i <= p - 1 THEN a[i] ELSE b[i - (p - 1)]
        <3>1. Len(a) + Len(b) = Len(s) - 1
            BY <1>1, <2>1, <2>3, <2>4
        <3>2. /\ new \in Seq(S) /\ Len(new) = Len(a) + Len(b)
              /\ \A i \in 1 .. Len(a) + Len(b) :
                    new[i] = IF i <= Len(a) THEN a[i] ELSE b[i - Len(a)]
            <4>1. a \in Seq(S) /\ b \in Seq(S)
                BY <2>3, <2>4
            <4> QED
                BY <4>1, ConcatProperties
        <3> QED
            BY <2>3, <3>1, <3>2
    <2>6. DOMAIN new = 1 .. Len(s) - 1
        BY <2>5, LenProperties
    <2> HIDE DEF new
    <2> DEFINE at(i) == IF i <= p - 1 THEN i ELSE i + 1
    <2>7. \A i \in 1 .. Len(s) - 1 : at(i) \in 1 .. Len(s) /\ at(i) # p /\ new[i] = s[at(i)]
        <3> TAKE i \in 1 .. Len(s) - 1
        <3>1. CASE i <= p - 1
            <4>1. i \in 1 .. p - 1 /\ i \in 1 .. Len(s) /\ i # p
                BY <1>1, <2>1, <3>1
            <4>2. at(i) = i /\ new[i] = a[i]
                BY <2>5, <3>1
            <4> HIDE DEF at
            <4> QED
                BY <2>3, <4>1, <4>2
        <3>2. CASE ~(i <= p - 1)
            <4>1. /\ i - (p - 1) \in 1 .. Len(s) - p /\ (i - (p - 1)) + p = i + 1
                  /\ i + 1 \in 1 .. Len(s) /\ i + 1 # p
                BY <1>1, <2>1, <3>2
            <4>2. at(i) = i + 1 /\ new[i] = b[i - (p - 1)]
                BY <2>5, <3>2
            <4>3. b[i - (p - 1)] = s[(i - (p - 1)) + p]
                BY <2>4, <4>1
            <4> HIDE DEF at
            <4> QED
                BY <4>1, <4>2, <4>3
        <3> QED
            BY <3>1, <3>2
    <2>8. \A i, j \in 1 .. Len(s) - 1 : at(i) = at(j) => i = j
        BY <1>1, <2>1
    <2>9. \A k \in 1 .. Len(s) : k # p => \E i \in 1 .. Len(s) - 1 : at(i) = k
        <3> TAKE k \in 1 .. Len(s)
        <3> HAVE k # p
        <3>1. CASE k < p
            <4>1. k \in 1 .. Len(s) - 1 /\ at(k) = k
                BY <1>1, <2>1, <3>1
            <4> QED
                BY <4>1
        <3>2. CASE ~(k < p)
            <4>1. k - 1 \in 1 .. Len(s) - 1 /\ at(k - 1) = k
                BY <1>1, <2>1, <3>2
            <4> QED
                BY <4>1
        <3> QED
            BY <3>1, <3>2
    <2> HIDE DEF at
    <2>10. Distinct(new)
        <3> SUFFICES ASSUME NEW i \in DOMAIN new, NEW j \in DOMAIN new, new[i] = new[j]
                     PROVE  i = j
            BY DEF Distinct
        <3>1. i \in 1 .. Len(s) - 1 /\ j \in 1 .. Len(s) - 1
            BY <2>6
        <3>2. at(i) \in DOMAIN s /\ at(j) \in DOMAIN s /\ s[at(i)] = s[at(j)]
            BY <1>1, <2>7, <3>1
        <3>3. at(i) = at(j)
            BY <3>2 DEF Distinct
        <3> QED
            BY <2>8, <3>1, <3>3
    <2>11. \A k \in DOMAIN s : s[k] \in items <=> k = p
        <3>1. \A k \in DOMAIN s : s[k] \in Elements(s)
            BY DEF Elements
        <3> QED
            BY <1>1, <2>1, <3>1 DEF Distinct
    <2>12. Elements(new) = Elements(s) \ items
        <3>1. \A i \in DOMAIN new : new[i] \in Elements(s) /\ new[i] \notin items
            BY <1>1, <2>6, <2>7, <2>11 DEF Elements
        <3>2. \A k \in DOMAIN s : s[k] \notin items => s[k] \in Elements(new)
            <4> TAKE k \in DOMAIN s
            <4> HAVE s[k] \notin items
            <4>1. PICK i \in 1 .. Len(s) - 1 : at(i) = k
                BY <1>1, <2>1, <2>9
            <4>2. i \in DOMAIN new /\ new[i] = s[k]
                BY <2>6, <2>7, <4>1
            <4> QED
                BY <4>2 DEF Elements
        <3> QED
            BY <3>1, <3>2 DEF Elements
    <2> QED
        BY <2>2, <2>5, <2>10, <2>12 DEF new
<1> QED
    BY <1>2, <1>3

LEMMA WithoutItem ==
    ASSUME NEW S, NEW s \in Seq(S), Distinct(s), NEW item
    PROVE  /\ Without(s, {item}) \in Seq(S) /\ Distinct(Without(s, {item}))
           /\ Elements(Without(s, {item})) = Elements(s) \ {item}
<1>1. \A x, y \in Elements(s) \cap {item} : x = y
    OBVIOUS
<1> QED
    BY <1>1, WithoutQueue

-----------------------------------------------------------------------------
(* The parts of the invariant                                              *)

LEMMA RouteFacts == AllRoutes = {"query", "patch", "stream", "turns"} /\ Routes \subseteq AllRoutes
BY RoutesAssumption DEF AllRoutes

LEMMA InitInv ==
    ASSUME Init
    PROVE  IInv
<1>1. QueuesInv
    BY EmptyQueue DEF Init, QueuesInv
<1>2. \A c, w : ~R(c, w) /\ ~P(c, w) /\ ~B(c, w)
    BY EmptyQueue DEF Init, R, P, B
<1>3. \A c \in Calls : CallOk(c)
    <2> TAKE c \in Calls
    <2>1. call[c] = Idle /\ events[c] = <<>> /\ waiting = <<>>
        BY DEF Init
    <2> QED
        BY <1>2, <2>1, EmptyQueue DEF CallOk, HandlerInv, TaskInv, ReaderInv, SinceInv, Idle
<1>4. call \in [Calls -> CallType]
    BY DEF Init, Idle, CallType, Pcs, Tasks, AllRoutes
<1>5. Held = {} /\ Inside = {}
    BY DEF Init, Held, Inside, Idle
<1>6. SlotsInv /\ PermitsInv
    BY <1>5, FS_EmptySet, LimitsAssumption DEF Init, SlotsInv, PermitsInv, SlotsCounted, PermitsCounted
<1>7. MaintInv
    BY LimitsAssumption DEF Init, MaintInv
<1> QED
    BY <1>1, <1>3, <1>4, <1>6, <1>7 DEF IInv, CallsInv

\* What a step leaves alone about a call stays right.
LEMMA Elsewhere ==
    ASSUME NEW x \in Calls, CallOk(x), call'[x] = call[x], events'[x] = events[x],
           \A w : R(x, w)' <=> R(x, w), \A w : P(x, w)' <=> P(x, w),
           \A w : B(x, w)' <=> B(x, w),
           x \in Elements(waiting') => x \in Elements(waiting), maint' = maint
    PROVE  CallOk(x)'
<1>1. HandlerInv(x)'
    BY DEF CallOk, HandlerInv
<1>2. TaskInv(x)'
    BY DEF CallOk, TaskInv
<1>3. ReaderInv(x)'
    BY DEF CallOk, ReaderInv, Over
<1>4. SinceInv(x)'
    BY DEF CallOk, SinceInv
<1> QED
    BY <1>1, <1>2, <1>3, <1>4 DEF CallOk

LEMMA CountFacts ==
    ASSUME CallsInv
    PROVE  /\ IsFiniteSet(Held) /\ Cardinality(Held) \in Nat
           /\ IsFiniteSet(Inside) /\ Cardinality(Inside) \in Nat
           /\ \A c : c \in Held => Cardinality(Held) > 0
           /\ \A c : c \in Inside => Cardinality(Inside) > 0
<1>1. IsFiniteSet(Held) /\ IsFiniteSet(Inside)
    <2>1. Held \subseteq Calls /\ Inside \subseteq Calls
        BY DEF Held, Inside
    <2> QED
        BY <2>1, CallsAssumption, FS_Subset
<1>2. Cardinality(Held) \in Nat /\ Cardinality(Inside) \in Nat
    BY <1>1, FS_CardinalityType
<1>3. (Cardinality(Held) = 0 => Held = {}) /\ (Cardinality(Inside) = 0 => Inside = {})
    BY <1>1, FS_EmptySet
<1> QED
    BY <1>1, <1>2, <1>3

LEMMA SlotsKept ==
    ASSUME SlotsInv, Held' = Held, active' = active
    PROVE  SlotsInv'
BY DEF SlotsInv, SlotsCounted

LEMMA SlotTaken ==
    ASSUME CallsInv, SlotsInv, NEW c, c \notin Held, Held' = Held \cup {c}, active < Slots,
           active' = active + 1
    PROVE  SlotsInv'
<1>1. Cardinality(Held') = Cardinality(Held) + 1
    BY CountFacts, FS_AddElement
<1> QED
    BY <1>1, CountFacts, LimitsAssumption DEF SlotsInv, SlotsCounted

LEMMA SlotFreed ==
    ASSUME CallsInv, SlotsInv, NEW c \in Held, Held' = Held \ {c}, active' = active - 1
    PROVE  SlotsInv'
<1>1. Cardinality(Held') = Cardinality(Held) - 1
    BY CountFacts, FS_RemoveElement
<1> QED
    BY <1>1, CountFacts, LimitsAssumption DEF SlotsInv, SlotsCounted

LEMMA PermitsKept ==
    ASSUME PermitsInv, Inside' = Inside, permits' = permits, permits > 0 => waiting' = <<>>
    PROVE  PermitsInv'
BY DEF PermitsInv, PermitsCounted

LEMMA PermitTaken ==
    ASSUME CallsInv, PermitsInv, NEW c, c \notin Inside, Inside' = Inside \cup {c}, permits > 0,
           permits' = permits - 1, waiting' = <<>>
    PROVE  PermitsInv'
<1>1. Cardinality(Inside') = Cardinality(Inside) + 1
    BY CountFacts, FS_AddElement
<1> QED
    BY <1>1, CountFacts, LimitsAssumption DEF PermitsInv, PermitsCounted

LEMMA PermitFreed ==
    ASSUME CallsInv, PermitsInv, NEW c \in Inside, Inside' = Inside \ {c},
           permits' = permits + 1, waiting' = <<>>
    PROVE  PermitsInv'
<1>1. Cardinality(Inside') = Cardinality(Inside) - 1
    BY CountFacts, FS_RemoveElement
<1> QED
    BY <1>1, CountFacts, LimitsAssumption DEF PermitsInv, PermitsCounted

\* The first waiter has the permit before anyone can see it free.
LEMMA PermitHanded ==
    ASSUME CallsInv, PermitsInv, NEW c \in Inside, NEW d, d \notin Inside,
           Inside' = (Inside \ {c}) \cup {d}, permits' = permits, waiting # <<>>
    PROVE  PermitsInv'
<1>1. IsFiniteSet(Inside \ {c}) /\ Cardinality(Inside \ {c}) = Cardinality(Inside) - 1
    BY CountFacts, FS_RemoveElement
<1>2. Cardinality(Inside') = Cardinality(Inside \ {c}) + 1
    BY <1>1, FS_AddElement
<1>3. permits = 0
    BY DEF PermitsInv, PermitsCounted
<1> QED
    BY <1>1, <1>2, <1>3, CountFacts, LimitsAssumption DEF PermitsInv, PermitsCounted

HoldingPcs == {"checking", "starting", "awaiting", "reading", "joining"}
InsideTasks == {"granted", "running"}

\* The two sets, when no other call's step changes.
LEMMA HeldMoves ==
    ASSUME NEW c \in Calls, \A x \in Calls \ {c} : call'[x].pc = call[x].pc
    PROVE  /\ c \in Held <=> call[c].pc \in HoldingPcs
           /\ call'[c].pc \in HoldingPcs => Held' = Held \cup {c}
           /\ call'[c].pc \notin HoldingPcs => Held' = Held \ {c}
BY DEF Held, HoldingPcs

LEMMA InsideMoves ==
    ASSUME NEW c \in Calls, \A x \in Calls \ {c} : call'[x] = call[x]
    PROVE  /\ c \in Inside <=> call[c].task \in InsideTasks
           /\ call'[c].task \in InsideTasks => Inside' = Inside \cup {c}
           /\ call'[c].task \notin InsideTasks => Inside' = Inside \ {c}
BY DEF Inside, InsideTasks

LEMMA HeldStays ==
    ASSUME NEW c \in Calls, \A x \in Calls \ {c} : call'[x] = call[x],
           call'[c].pc \in HoldingPcs <=> call[c].pc \in HoldingPcs
    PROVE  Held' = Held
BY DEF Held, HoldingPcs

LEMMA InsideStays ==
    ASSUME NEW c \in Calls, \A x \in Calls \ {c} : call'[x] = call[x],
           call[c].task \in InsideTasks, call'[c].task \in InsideTasks
    PROVE  Inside' = Inside
BY DEF Inside, InsideTasks

LEMMA StateFacts ==
    ASSUME IInv
    PROVE  /\ QueuesInv /\ CallsInv /\ SlotsInv /\ PermitsInv /\ MaintInv
           /\ DOMAIN call = Calls /\ \A x \in Calls : CallOk(x) /\ call[x] \in CallType
BY DEF IInv, CallsInv

\* No callback or work item of anyone moved.
LEMMA QueuesKept ==
    ASSUME IInv, UNCHANGED <<ready, waiting, pool, busy, events>>
    PROVE  /\ QueuesInv'
           /\ \A x, w : (R(x, w)' <=> R(x, w)) /\ (P(x, w)' <=> P(x, w)) /\ (B(x, w)' <=> B(x, w))
BY DEF IInv, QueuesInv, R, P, B, Distinct

\* Each queue still holds a thing once.
LEMMA QueuesStep ==
    ASSUME ready' \in Seq(Callback), Distinct(ready'), waiting' \in Seq(Calls), Distinct(waiting'),
           pool' \in Seq(WorkItem), Distinct(pool'), busy' \subseteq WorkItem,
           events' \in [Calls -> Seq({"stage", "done"})]
    PROVE  QueuesInv'
BY DEF QueuesInv, Distinct

\* A step of one call that changes its handler's pc and its task's.
LEMMA Decided ==
    ASSUME call \in [Calls -> CallType], NEW c \in Calls, NEW pc \in Pcs, NEW task \in Tasks,
           call' = [call EXCEPT ![c].pc = pc, ![c].task = task]
    PROVE  /\ call' \in [Calls -> CallType] /\ (\A x \in Calls \ {c} : call'[x] = call[x])
           /\ call'[c].pc = pc /\ call'[c].task = task
           /\ call'[c].route = call[c].route /\ call'[c].since = call[c].since
<1>1. call[c] \in CallType
    OBVIOUS
<1>2. [call[c] EXCEPT !.pc = pc, !.task = task] \in CallType
    BY <1>1 DEF CallType
<1>3. call' = [call EXCEPT ![c] = [call[c] EXCEPT !.pc = pc, !.task = task]]
    OBVIOUS
<1> QED
    BY <1>1, <1>2, <1>3 DEF CallType

-----------------------------------------------------------------------------
(* The middleware and the maintenance switch                               *)

LEMMA ArriveInv ==
    ASSUME IInv, NEW c \in Calls, Arrive(c)
    PROVE  IInv'
<1>1. /\ call[c].pc = "idle" /\ CallOk(c) /\ DOMAIN call = Calls
      /\ UNCHANGED <<maint, ready, permits, waiting, pool, busy, events>>
    BY StateFacts DEF Arrive
<1>2. /\ QueuesInv'
      /\ \A x, w : (R(x, w)' <=> R(x, w)) /\ (P(x, w)' <=> P(x, w)) /\ (B(x, w)' <=> B(x, w))
    BY <1>1, QueuesKept
<1>3. PICK route \in Routes :
        \/ /\ call' = [call EXCEPT ![c] = [Idle EXCEPT !.route = route, !.pc = "refused"]]
           /\ active' = active
        \/ /\ call' = [call EXCEPT ![c] = [Idle EXCEPT !.route = route, !.pc = "checking",
                                                       !.since = maint.on]]
           /\ active < Slots /\ active' = active + 1
    <2>1. PICK route \in Routes :
            IF Capped(route) /\ Full
            THEN /\ call' = [call EXCEPT ![c] = [Idle EXCEPT !.route = route, !.pc = "refused"]]
                 /\ UNCHANGED active
            ELSE /\ call' = [call EXCEPT ![c] = [Idle EXCEPT !.route = route, !.pc = "checking",
                                                             !.since = maint.on]]
                 /\ active' = IF Capped(route) THEN active + 1 ELSE active
        BY DEF Arrive
    <2>2. Capped(route)
        BY RouteFacts DEF Capped
    <2>3. Full \/ active < Slots
        BY LimitsAssumption, StateFacts DEF Full, SlotsInv
    <2> QED
        BY <2>1, <2>2, <2>3
<1>4. /\ call'[c].route = route /\ call'[c].task = "none" /\ call'[c].since \in BOOLEAN
      /\ call'[c].pc \in {"refused", "checking"}
      /\ call'[c].since => call'[c].pc = "checking" /\ maint.on
      /\ call' \in [Calls -> CallType]
    <2>1. call \in [Calls -> CallType] /\ maint.on \in BOOLEAN /\ route \in AllRoutes
        BY StateFacts, RouteFacts DEF CallsInv, MaintInv
    <2>2. /\ [Idle EXCEPT !.route = route, !.pc = "refused"] \in CallType
          /\ [Idle EXCEPT !.route = route, !.pc = "checking", !.since = maint.on] \in CallType
        BY <2>1 DEF Idle, CallType, Pcs, Tasks
    <2> QED
        BY <1>1, <1>3, <2>1, <2>2 DEF Idle
<1>5. \A x \in Calls \ {c} : call'[x] = call[x]
    BY <1>1, <1>3
<1>6. \A x \in Calls \ {c} : CallOk(x)'
    BY <1>1, <1>2, <1>5, StateFacts, Elsewhere
<1>7. CallOk(c)'
    <2>1. HandlerInv(c)'
        BY <1>1, <1>2, <1>4 DEF CallOk, HandlerInv
    <2>2. TaskInv(c)'
        BY <1>1, <1>2, <1>4 DEF CallOk, HandlerInv, TaskInv
    <2>3. ReaderInv(c)'
        BY <1>1, <1>2, <1>4 DEF CallOk, HandlerInv, TaskInv, ReaderInv, Over
    <2>4. SinceInv(c)'
        BY <1>1, <1>4 DEF SinceInv
    <2> QED
        BY <2>1, <2>2, <2>3, <2>4 DEF CallOk
<1>8. SlotsInv'
    <2>1. c \notin Held
        BY <1>1 DEF Held
    <2>2. CASE call'[c].pc = "refused"
        <3>1. active' = active
            BY <1>1, <1>3, <2>2 DEF Idle
        <3>2. Held' = Held
            BY <1>5, <2>1, <2>2, HeldMoves DEF HoldingPcs
        <3> QED
            BY <3>1, <3>2, StateFacts, SlotsKept
    <2>3. CASE call'[c].pc = "checking"
        <3>1. active < Slots /\ active' = active + 1
            BY <1>1, <1>3, <2>3 DEF Idle
        <3>2. Held' = Held \cup {c}
            BY <1>5, <2>3, HeldMoves DEF HoldingPcs
        <3> QED
            BY <2>1, <3>1, <3>2, StateFacts, SlotTaken
    <2> QED
        BY <1>4, <2>2, <2>3
<1>9. PermitsInv'
    <2>1. Inside' = Inside
        BY <1>1, <1>4, <1>5, InsideMoves DEF InsideTasks, CallOk, HandlerInv
    <2> QED
        BY <1>1, <2>1, StateFacts, PermitsKept DEF PermitsInv, PermitsCounted
<1> QED
    BY <1>1, <1>2, <1>4, <1>6, <1>7, <1>8, <1>9, StateFacts DEF IInv, CallsInv, MaintInv

LEMMA ToggleInv ==
    ASSUME IInv, Toggle
    PROVE  IInv'
<1>1. /\ maint.switched < Toggles
      /\ maint' = [on |-> ~maint.on, switched |-> maint.switched + 1]
      /\ call' = [x \in Calls |-> IF call[x].pc = "checking"
                                  THEN [call[x] EXCEPT !.since = FALSE] ELSE call[x]]
      /\ UNCHANGED <<active, ready, permits, waiting, pool, busy, events>>
    BY DEF Toggle
<1>2. /\ QueuesInv'
      /\ \A x, w : (R(x, w)' <=> R(x, w)) /\ (P(x, w)' <=> P(x, w)) /\ (B(x, w)' <=> B(x, w))
    BY <1>1, QueuesKept
<1>3. call' \in [Calls -> CallType]
    <2>1. \A x \in Calls : call[x] \in CallType /\ [call[x] EXCEPT !.since = FALSE] \in CallType
        BY StateFacts DEF CallType
    <2> QED
        BY <1>1, <2>1
<1>4. \A x \in Calls : /\ call'[x].pc = call[x].pc /\ call'[x].task = call[x].task
                       /\ call'[x].route = call[x].route
                       /\ call'[x].since => call[x].since /\ call[x].pc # "checking"
    BY <1>1, StateFacts DEF CallType
<1>5. \A x \in Calls : CallOk(x)'
    <2> TAKE x \in Calls
    <2>1. CallOk(x)
        BY StateFacts
    <2>2. HandlerInv(x)' /\ TaskInv(x)'
        BY <1>1, <1>2, <1>4, <2>1 DEF CallOk, HandlerInv, TaskInv
    <2>3. ReaderInv(x)'
        BY <1>1, <1>2, <1>4, <2>1 DEF CallOk, ReaderInv, Over
    <2>4. SinceInv(x)'
        BY <1>4, <2>1 DEF CallOk, SinceInv
    <2> QED
        BY <2>2, <2>3, <2>4 DEF CallOk
<1>6. Held' = Held /\ Inside' = Inside
    BY <1>4 DEF Held, Inside
<1>7. SlotsInv' /\ PermitsInv'
    BY <1>1, <1>6, StateFacts, SlotsKept, PermitsKept DEF PermitsInv, PermitsCounted
<1>8. MaintInv'
    <2>1. maint.on \in BOOLEAN /\ maint.switched \in 0 .. Toggles
        BY StateFacts DEF MaintInv
    <2>2. maint.switched + 1 \in 0 .. Toggles
        BY <1>1, <2>1, LimitsAssumption
    <2>3. (~maint.on) \in BOOLEAN
        BY <2>1
    <2> QED
        BY <1>1, <2>2, <2>3 DEF MaintInv
<1> QED
    BY <1>2, <1>3, <1>5, <1>7, <1>8 DEF IInv, CallsInv

LEMMA CheckInv ==
    ASSUME IInv, NEW c \in Calls, Check(c)
    PROVE  IInv'
<1>1. /\ call[c].pc = "checking" /\ CallOk(c) /\ DOMAIN call = Calls
      /\ UNCHANGED <<maint, permits, waiting, pool, busy, events>>
    BY StateFacts DEF Check
<1>2. CASE maint.on /\ Gated(call[c].route)
    <2>1. /\ call' = [call EXCEPT ![c].pc = "refused", ![c].task = "none"]
          /\ active' = active - 1 /\ UNCHANGED ready
        BY <1>2 DEF Check, Set
    <2>2. /\ QueuesInv'
          /\ \A x, w : (R(x, w)' <=> R(x, w)) /\ (P(x, w)' <=> P(x, w)) /\ (B(x, w)' <=> B(x, w))
        BY <1>1, <2>1, QueuesKept
    <2>3. /\ call' \in [Calls -> CallType] /\ (\A x \in Calls \ {c} : call'[x] = call[x])
          /\ call'[c].pc = "refused" /\ call'[c].task = "none"
          /\ call'[c].route = call[c].route /\ call'[c].since = call[c].since
        BY <2>1, Decided, StateFacts DEF CallsInv, Pcs, Tasks
    <2>4. \A x \in Calls \ {c} : CallOk(x)'
        BY <1>1, <2>2, <2>3, StateFacts, Elsewhere
    <2>5. CallOk(c)'
        BY <1>1, <2>2, <2>3 DEF CallOk, HandlerInv, TaskInv, ReaderInv, SinceInv, Over
    <2>6. SlotsInv'
        BY <1>1, <2>1, <2>3, StateFacts, HeldMoves, SlotFreed DEF HoldingPcs
    <2>7. PermitsInv'
        <3>1. Inside' = Inside
            BY <1>1, <2>3, InsideMoves DEF InsideTasks, CallOk, HandlerInv
        <3> QED
            BY <1>1, <3>1, StateFacts, PermitsKept DEF PermitsInv, PermitsCounted
    <2> QED
        BY <1>1, <2>2, <2>3, <2>4, <2>5, <2>6, <2>7, StateFacts DEF IInv, CallsInv, MaintInv
<1>3. CASE ~(maint.on /\ Gated(call[c].route))
    <2>1. /\ call' = [call EXCEPT ![c].pc = "starting", ![c].task = "none"]
          /\ ready' = Append(ready, Item(c, "start")) /\ UNCHANGED active
        BY <1>3 DEF Check, Set
    <2>2. /\ QueuesInv'
          /\ Elements(ready') = Elements(ready) \cup {Item(c, "start")}
        <3>1. Item(c, "start") \notin Elements(ready) /\ Item(c, "start") \in Callback
            BY <1>1, ItemFacts DEF CallOk, HandlerInv, R
        <3>2. /\ ready' \in Seq(Callback) /\ Distinct(ready')
              /\ Elements(ready') = Elements(ready) \cup {Item(c, "start")}
            BY <2>1, <3>1, StateFacts, AppendQueue DEF QueuesInv
        <3> QED
            BY <1>1, <3>2, StateFacts, QueuesStep DEF QueuesInv
    <2>3. \A x, w : /\ R(x, w)' <=> R(x, w) \/ (x = c /\ w = "start")
                    /\ P(x, w)' <=> P(x, w)
                    /\ B(x, w)' <=> B(x, w)
        BY <1>1, <2>2, ItemFacts DEF R, P, B
    <2>4. /\ call' \in [Calls -> CallType] /\ (\A x \in Calls \ {c} : call'[x] = call[x])
          /\ call'[c].pc = "starting" /\ call'[c].task = "none"
          /\ call'[c].route = call[c].route /\ call'[c].since = call[c].since
        BY <2>1, Decided, StateFacts DEF CallsInv, Pcs, Tasks
    <2>5. \A x \in Calls \ {c} : CallOk(x)'
        BY <1>1, <2>3, <2>4, StateFacts, Elsewhere
    <2>6. CallOk(c)'
        <3>1. HandlerInv(c)' /\ TaskInv(c)'
            BY <1>1, <2>3, <2>4 DEF CallOk, HandlerInv, TaskInv
        <3>2. ReaderInv(c)'
            BY <1>1, <2>3, <2>4 DEF CallOk, HandlerInv, ReaderInv, Over
        <3>3. SinceInv(c)'
            BY <1>1, <1>3, <2>4 DEF CallOk, SinceInv, Gated
        <3> QED
            BY <3>1, <3>2, <3>3 DEF CallOk
    <2>7. SlotsInv'
        <3>1. Held' = Held
            BY <1>1, <2>4, HeldMoves DEF HoldingPcs
        <3> QED
            BY <2>1, <3>1, StateFacts, SlotsKept
    <2>8. PermitsInv'
        <3>1. Inside' = Inside
            BY <1>1, <2>4, InsideMoves DEF InsideTasks, CallOk, HandlerInv
        <3> QED
            BY <1>1, <3>1, StateFacts, PermitsKept DEF PermitsInv, PermitsCounted
    <2> QED
        BY <1>1, <2>2, <2>4, <2>5, <2>6, <2>7, <2>8, StateFacts DEF IInv, CallsInv, MaintInv
<1> QED
    BY <1>2, <1>3

-----------------------------------------------------------------------------
(* The event loop                                                          *)

\* The callback that runs leaves the ready queue.
LEMMA HeadFacts ==
    ASSUME IInv, NEW c \in Calls, NEW what, At(c, what)
    PROVE  /\ R(c, what) /\ Tail(ready) \in Seq(Callback) /\ Distinct(Tail(ready))
           /\ Elements(Tail(ready)) = Elements(ready) \ {Item(c, what)}
BY StateFacts, TailQueue DEF At, QueuesInv, R

\* `async with semaphore`, of a handler that starts or of a turn's task.
LEMMA EnterInv ==
    ASSUME IInv, NEW c \in Calls, NEW what \in {"start", "task"}, At(c, what),
           NEW pc \in Pcs, Enter(c, pc, Tail(ready)), UNCHANGED <<active, maint, busy, events>>,
           call[c].task \in {"none", "new"},
           \/ pc = "awaiting" /\ call[c].pc = "starting" /\ call[c].route # "turns"
           \/ pc = call[c].pc /\ pc \in {"reading", "gone"} /\ call[c].route = "turns"
    PROVE  IInv'
<1>1. /\ CallOk(c) /\ ready' = Tail(ready) /\ R(c, what)
      /\ \/ /\ permits > 0 /\ waiting = <<>> /\ permits' = permits - 1
            /\ pool' = Append(pool, Item(c, "run"))
            /\ Set(c, pc, "running") /\ UNCHANGED waiting
         \/ /\ ~(permits > 0 /\ waiting = <<>>)
            /\ waiting' = Append(waiting, c) /\ Set(c, pc, "waiting")
            /\ UNCHANGED <<permits, pool>>
    BY HeadFacts, StateFacts DEF Enter
<1>2. /\ ready' \in Seq(Callback) /\ Distinct(ready')
      /\ Elements(ready') = Elements(ready) \ {Item(c, what)}
    BY <1>1, HeadFacts
<1>3. CASE /\ permits > 0 /\ waiting = <<>> /\ permits' = permits - 1
           /\ pool' = Append(pool, Item(c, "run"))
           /\ Set(c, pc, "running") /\ UNCHANGED waiting
    <2>1. /\ pool' \in Seq(WorkItem) /\ Distinct(pool')
          /\ Elements(pool') = Elements(pool) \cup {Item(c, "run")}
        <3>1. Item(c, "run") \notin Elements(pool) /\ Item(c, "run") \in WorkItem
            BY <1>1, ItemFacts DEF CallOk, TaskInv, P
        <3> QED
            BY <1>3, <3>1, StateFacts, AppendQueue DEF QueuesInv
    <2>2. QueuesInv'
        BY <1>2, <1>3, <2>1, StateFacts, QueuesStep DEF QueuesInv
    <2>3. \A x, w : /\ R(x, w)' <=> R(x, w) /\ ~(x = c /\ w = what)
                    /\ P(x, w)' <=> P(x, w) \/ (x = c /\ w = "run")
                    /\ B(x, w)' <=> B(x, w)
        BY <1>2, <2>1, ItemFacts DEF R, P, B
    <2>4. /\ call' \in [Calls -> CallType] /\ (\A x \in Calls \ {c} : call'[x] = call[x])
          /\ call'[c].pc = pc /\ call'[c].task = "running"
          /\ call'[c].route = call[c].route /\ call'[c].since = call[c].since
        BY <1>3, Decided, StateFacts DEF Set, CallsInv, Tasks
    <2>5. \A x \in Calls \ {c} : CallOk(x)'
        BY <1>3, <2>3, <2>4, StateFacts, Elsewhere
    <2>6. CallOk(c)'
        <3>1. HandlerInv(c)'
            BY <1>1, <2>3, <2>4 DEF CallOk, HandlerInv, TaskInv
        <3>2. TaskInv(c)'
            BY <1>1, <1>3, <2>3, <2>4 DEF CallOk, HandlerInv, TaskInv
        <3>3. ReaderInv(c)'
            BY <1>1, <2>3, <2>4 DEF CallOk, HandlerInv, TaskInv, ReaderInv, Over
        <3>4. SinceInv(c)'
            BY <1>1, <2>4 DEF CallOk, SinceInv
        <3> QED
            BY <3>1, <3>2, <3>3, <3>4 DEF CallOk
    <2>7. SlotsInv'
        <3>1. call'[c].pc \in HoldingPcs <=> call[c].pc \in HoldingPcs
            BY <2>4 DEF HoldingPcs
        <3>2. Held' = Held
            BY <2>4, <3>1, HeldStays
        <3> QED
            BY <3>2, StateFacts, SlotsKept
    <2>8. PermitsInv'
        <3>1. c \notin Inside /\ Inside' = Inside \cup {c}
            BY <2>4, InsideMoves DEF InsideTasks
        <3> QED
            BY <1>3, <3>1, StateFacts, PermitTaken
    <2> QED
        BY <2>2, <2>4, <2>5, <2>6, <2>7, <2>8, StateFacts DEF IInv, CallsInv, MaintInv
<1>4. CASE /\ ~(permits > 0 /\ waiting = <<>>)
           /\ waiting' = Append(waiting, c) /\ Set(c, pc, "waiting")
           /\ UNCHANGED <<permits, pool>>
    <2>1. /\ waiting' \in Seq(Calls) /\ Distinct(waiting')
          /\ Elements(waiting') = Elements(waiting) \cup {c}
        <3>1. c \notin Elements(waiting)
            BY <1>1 DEF CallOk, TaskInv
        <3> QED
            BY <1>4, <3>1, StateFacts, AppendQueue DEF QueuesInv
    <2>2. QueuesInv'
        BY <1>2, <1>4, <2>1, StateFacts, QueuesStep DEF QueuesInv
    <2>3. \A x, w : /\ R(x, w)' <=> R(x, w) /\ ~(x = c /\ w = what)
                    /\ P(x, w)' <=> P(x, w)
                    /\ B(x, w)' <=> B(x, w)
        BY <1>2, <1>4, ItemFacts DEF R, P, B
    <2>4. /\ call' \in [Calls -> CallType] /\ (\A x \in Calls \ {c} : call'[x] = call[x])
          /\ call'[c].pc = pc /\ call'[c].task = "waiting"
          /\ call'[c].route = call[c].route /\ call'[c].since = call[c].since
        BY <1>4, Decided, StateFacts DEF Set, CallsInv, Tasks
    <2>5. \A x \in Calls \ {c} : CallOk(x)'
        BY <2>1, <2>3, <2>4, StateFacts, Elsewhere
    <2>6. CallOk(c)'
        <3>1. HandlerInv(c)'
            BY <1>1, <2>3, <2>4 DEF CallOk, HandlerInv, TaskInv
        <3>2. TaskInv(c)'
            BY <1>1, <1>4, <2>3, <2>4 DEF CallOk, HandlerInv, TaskInv
        <3>3. ReaderInv(c)'
            BY <1>1, <2>3, <2>4 DEF CallOk, HandlerInv, TaskInv, ReaderInv, Over
        <3>4. SinceInv(c)'
            BY <1>1, <2>4 DEF CallOk, SinceInv
        <3> QED
            BY <3>1, <3>2, <3>3, <3>4 DEF CallOk
    <2>7. SlotsInv'
        <3>1. call'[c].pc \in HoldingPcs <=> call[c].pc \in HoldingPcs
            BY <2>4 DEF HoldingPcs
        <3>2. Held' = Held
            BY <2>4, <3>1, HeldStays
        <3> QED
            BY <3>2, StateFacts, SlotsKept
    <2>8. PermitsInv'
        <3>1. Inside' = Inside
            BY <2>4, InsideMoves DEF InsideTasks
        <3> QED
            BY <1>4, <3>1, StateFacts, PermitsKept DEF PermitsInv, PermitsCounted
    <2> QED
        BY <2>2, <2>4, <2>5, <2>6, <2>7, <2>8, StateFacts DEF IInv, CallsInv, MaintInv
<1> QED
    BY <1>1, <1>3, <1>4

LEMMA StartInv ==
    ASSUME IInv, NEW c \in Calls, Start(c)
    PROVE  IInv'
<1>1. /\ At(c, "start") /\ CallOk(c) /\ R(c, "start") /\ call[c].pc = "starting"
      /\ call[c].task = "none" /\ UNCHANGED <<active, maint, busy, events>>
    BY HeadFacts, StateFacts DEF Start, CallOk, HandlerInv
<1>2. CASE call[c].route # "turns"
    <2>1. Enter(c, "awaiting", Tail(ready))
        BY <1>2 DEF Start
    <2> QED
        BY <1>1, <1>2, <2>1, EnterInv DEF Pcs
<1>3. CASE call[c].route = "turns"
    <2>1. /\ pool' = Append(pool, Item(c, "get")) /\ ready' = Append(Tail(ready), Item(c, "task"))
          /\ Set(c, "reading", "new") /\ UNCHANGED <<permits, waiting>>
        BY <1>3 DEF Start
    <2>2. /\ pool' \in Seq(WorkItem) /\ Distinct(pool')
          /\ Elements(pool') = Elements(pool) \cup {Item(c, "get")}
        <3>1. Item(c, "get") \notin Elements(pool) /\ Item(c, "get") \in WorkItem
            BY <1>1, ItemFacts DEF CallOk, ReaderInv, P
        <3> QED
            BY <2>1, <3>1, StateFacts, AppendQueue DEF QueuesInv
    <2>3. /\ ready' \in Seq(Callback) /\ Distinct(ready')
          /\ Elements(ready') = (Elements(ready) \ {Item(c, "start")}) \cup {Item(c, "task")}
        <3>1. Item(c, "task") \notin Elements(ready) /\ Item(c, "task") \in Callback
            BY <1>1, ItemFacts DEF CallOk, TaskInv, R
        <3>2. /\ Tail(ready) \in Seq(Callback) /\ Distinct(Tail(ready))
              /\ Elements(Tail(ready)) = Elements(ready) \ {Item(c, "start")}
            BY <1>1, HeadFacts
        <3>3. Distinct(Tail(ready)) /\ Item(c, "task") \notin Elements(Tail(ready))
            BY <3>1, <3>2
        <3>4. PICK rest : rest = Tail(ready)
            OBVIOUS
        <3>5. /\ Append(rest, Item(c, "task")) \in Seq(Callback)
              /\ Distinct(Append(rest, Item(c, "task")))
              /\ Elements(Append(rest, Item(c, "task"))) = Elements(rest) \cup {Item(c, "task")}
            <4>1. /\ rest \in Seq(Callback) /\ Distinct(rest)
                  /\ Item(c, "task") \in Callback /\ Item(c, "task") \notin Elements(rest)
                BY <3>1, <3>2, <3>3, <3>4
            <4> QED
                BY <4>1, AppendQueue, SMTT(30)
        <3> QED
            BY <2>1, <3>2, <3>4, <3>5
    <2>4. QueuesInv'
        BY <1>1, <2>1, <2>2, <2>3, StateFacts, QueuesStep DEF QueuesInv
    <2>5. \A x, w : /\ R(x, w)' <=> (R(x, w) /\ ~(x = c /\ w = "start")) \/ (x = c /\ w = "task")
                    /\ P(x, w)' <=> P(x, w) \/ (x = c /\ w = "get")
                    /\ B(x, w)' <=> B(x, w)
        BY <1>1, <2>2, <2>3, ItemFacts DEF R, P, B
    <2>6. /\ call' \in [Calls -> CallType] /\ (\A x \in Calls \ {c} : call'[x] = call[x])
          /\ call'[c].pc = "reading" /\ call'[c].task = "new"
          /\ call'[c].route = call[c].route /\ call'[c].since = call[c].since
        BY <2>1, Decided, StateFacts DEF Set, CallsInv, Tasks, Pcs
    <2>7. \A x \in Calls \ {c} : CallOk(x)'
        BY <1>1, <2>1, <2>5, <2>6, StateFacts, Elsewhere
    <2>8. CallOk(c)'
        <3>1. HandlerInv(c)'
            BY <1>1, <1>3, <2>5, <2>6 DEF CallOk, HandlerInv
        <3>2. TaskInv(c)'
            BY <1>1, <2>1, <2>5, <2>6 DEF CallOk, TaskInv
        <3>3. ReaderInv(c)'
            BY <1>1, <2>5, <2>6 DEF CallOk, ReaderInv, Over
        <3>4. SinceInv(c)'
            BY <1>1, <2>6 DEF CallOk, SinceInv
        <3> QED
            BY <3>1, <3>2, <3>3, <3>4 DEF CallOk
    <2>9. SlotsInv'
        <3>1. Held' = Held
            BY <1>1, <2>6, HeldMoves DEF HoldingPcs
        <3> QED
            BY <1>1, <3>1, StateFacts, SlotsKept
    <2>10. PermitsInv'
        <3>1. Inside' = Inside
            BY <1>1, <2>6, InsideMoves DEF InsideTasks
        <3> QED
            BY <2>1, <3>1, StateFacts, PermitsKept DEF PermitsInv, PermitsCounted
    <2> QED
        BY <1>1, <2>4, <2>6, <2>7, <2>8, <2>9, <2>10, StateFacts DEF IInv, CallsInv, MaintInv
<1> QED
    BY <1>2, <1>3

LEMMA RunTaskInv ==
    ASSUME IInv, NEW c \in Calls, RunTask(c)
    PROVE  IInv'
<1>1. /\ At(c, "task") /\ Enter(c, call[c].pc, Tail(ready)) /\ UNCHANGED <<active, maint, busy, events>>
      /\ R(c, "task") /\ CallOk(c) /\ call[c] \in CallType
    BY HeadFacts, StateFacts DEF RunTask
<1>2. call[c].task = "new" /\ call[c].pc \in Pcs
    BY <1>1 DEF CallOk, TaskInv, CallType
<1>3. call[c].pc \in {"reading", "gone"} /\ call[c].route = "turns"
    BY <1>1, <1>2 DEF CallOk, HandlerInv, Pcs
<1> QED
    BY <1>1, <1>2, <1>3, EnterInv

LEMMA GrantedInv ==
    ASSUME IInv, NEW c \in Calls, Granted(c)
    PROVE  IInv'
<1>1. /\ CallOk(c) /\ R(c, "granted") /\ call[c].task = "granted" /\ call[c] \in CallType
      /\ pool' = Append(pool, Item(c, "run")) /\ Set(c, call[c].pc, "running")
      /\ ready' = Tail(ready)
      /\ UNCHANGED <<active, maint, permits, waiting, busy, events>>
    BY HeadFacts, StateFacts DEF Granted, CallOk, TaskInv
<1>2. /\ pool' \in Seq(WorkItem) /\ Distinct(pool')
      /\ Elements(pool') = Elements(pool) \cup {Item(c, "run")}
    <2>1. Item(c, "run") \notin Elements(pool) /\ Item(c, "run") \in WorkItem
        BY <1>1, ItemFacts DEF CallOk, TaskInv, P
    <2> QED
        BY <1>1, <2>1, StateFacts, AppendQueue DEF QueuesInv
<1>3. /\ ready' \in Seq(Callback) /\ Distinct(ready')
      /\ Elements(ready') = Elements(ready) \ {Item(c, "granted")}
    BY <1>1, HeadFacts DEF Granted
<1>4. QueuesInv'
    BY <1>1, <1>2, <1>3, StateFacts, QueuesStep DEF QueuesInv
<1>5. \A x, w : /\ R(x, w)' <=> R(x, w) /\ ~(x = c /\ w = "granted")
                /\ P(x, w)' <=> P(x, w) \/ (x = c /\ w = "run")
                /\ B(x, w)' <=> B(x, w)
    BY <1>1, <1>2, <1>3, ItemFacts DEF R, P, B
<1>6. /\ call' \in [Calls -> CallType] /\ (\A x \in Calls \ {c} : call'[x] = call[x])
      /\ call'[c].pc = call[c].pc /\ call'[c].task = "running"
      /\ call'[c].route = call[c].route /\ call'[c].since = call[c].since
    <2>1. call[c].pc \in Pcs
        BY <1>1 DEF CallType
    <2> QED
        BY <1>1, <2>1, Decided, StateFacts DEF Set, CallsInv, Tasks
<1>7. \A x \in Calls \ {c} : CallOk(x)'
    BY <1>1, <1>5, <1>6, StateFacts, Elsewhere
<1>8. CallOk(c)'
    <2>1. HandlerInv(c)'
        BY <1>1, <1>5, <1>6 DEF CallOk, HandlerInv
    <2>2. TaskInv(c)'
        BY <1>1, <1>5, <1>6 DEF CallOk, TaskInv
    <2>3. ReaderInv(c)'
        BY <1>1, <1>5, <1>6 DEF CallOk, ReaderInv, Over
    <2>4. SinceInv(c)'
        BY <1>1, <1>6 DEF CallOk, SinceInv
    <2> QED
        BY <2>1, <2>2, <2>3, <2>4 DEF CallOk
<1>9. SlotsInv'
    <2>1. Held' = Held
        BY <1>6, HeldStays
    <2> QED
        BY <1>1, <2>1, StateFacts, SlotsKept
<1>10. PermitsInv'
    <2>1. call[c].task \in InsideTasks /\ call'[c].task \in InsideTasks
        BY <1>1, <1>6 DEF InsideTasks
    <2>2. Inside' = Inside
        BY <1>6, <2>1, InsideStays
    <2> QED
        BY <1>1, <2>2, StateFacts, PermitsKept DEF PermitsInv, PermitsCounted
<1> QED
    BY <1>1, <1>4, <1>6, <1>7, <1>8, <1>9, <1>10, StateFacts DEF IInv, CallsInv, MaintInv

\* A task leaves run_bounded's block, when its work came back or when it is
\* cancelled inside: the first waiter, if there is one, gets the permit.
LEMMA ReleaseInv ==
    ASSUME IInv, NEW c \in Calls, NEW rest \in Seq(Callback), Distinct(rest),
           Elements(rest) = Elements(ready) \ {Item(c, "granted"), Item(c, "ran")},
           Release(waiting, rest), NEW pc \in Pcs,
           call' = Woken([call EXCEPT ![c].pc = pc, ![c].task = "done"], waiting),
           pool' \in Seq(WorkItem), Distinct(pool'),
           Elements(pool') = Elements(pool) \ {Item(c, "run")},
           UNCHANGED <<maint, busy, events>>,
           active' = IF pc = call[c].pc THEN active ELSE active - 1,
           c \in Inside,
           \/ R(c, "ran") /\ pc = "answered" /\ call[c].pc \in {"awaiting", "joining"}
           \/ R(c, "ran") /\ pc = call[c].pc /\ pc \in {"reading", "gone"}
           \/ pc = "gone" /\ call[c].pc \in {"awaiting", "joining"} /\ call[c].route \in Streamed
    PROVE  IInv'
<1> DEFINE left == [call EXCEPT ![c].pc = pc, ![c].task = "done"]
<1>1. /\ CallOk(c) /\ call[c].task \in InsideTasks /\ call \in [Calls -> CallType]
      /\ waiting \in Seq(Calls) /\ Distinct(waiting)
    BY StateFacts DEF Inside, InsideTasks, CallsInv, QueuesInv
<1>2. /\ left \in [Calls -> CallType] /\ (\A x \in Calls \ {c} : left[x] = call[x])
      /\ left[c].pc = pc /\ left[c].task = "done"
      /\ left[c].route = call[c].route /\ left[c].since = call[c].since
    <2>1. call[c] \in CallType
        BY <1>1
    <2>2. [call[c] EXCEPT !.pc = pc, !.task = "done"] \in CallType
        BY <2>1 DEF CallType, Tasks
    <2>3. left = [call EXCEPT ![c] = [call[c] EXCEPT !.pc = pc, !.task = "done"]]
        BY <1>1
    <2> QED
        BY <1>1, <2>1, <2>2, <2>3 DEF CallType
<1>3. call' = Woken(left, waiting)
    OBVIOUS
<1> HIDE DEF left
<1>4. \A x, w : /\ P(x, w)' <=> P(x, w) /\ ~(x = c /\ w = "run")
                /\ B(x, w)' <=> B(x, w)
    BY ItemFacts DEF P, B
\* Whoever gets the permit, this is how c itself ends up.
<1>5. ASSUME call'[c] = left[c], c \in Elements(waiting') => c \in Elements(waiting),
             \A w : R(c, w)' <=> R(c, w) /\ w # "granted" /\ w # "ran"
      PROVE  CallOk(c)'
    <2>1. HandlerInv(c)'
        BY <1>1, <1>2, <1>5 DEF CallOk, HandlerInv, InsideTasks, Streamed
    <2>2. TaskInv(c)'
        BY <1>1, <1>2, <1>4, <1>5
           DEF CallOk, HandlerInv, TaskInv, ReaderInv, Over, InsideTasks, Streamed
    <2>3. ReaderInv(c)'
        <3>1. Over(c)' => Over(c) \/ pc # call[c].pc
            BY <1>1, <1>2, <1>4, <1>5 DEF CallOk, TaskInv, Over
        <3> QED
            BY <1>1, <1>2, <1>4, <1>5, <3>1 DEF CallOk, HandlerInv, TaskInv, ReaderInv, Over, InsideTasks
    <2>4. SinceInv(c)'
        BY <1>1, <1>2, <1>5 DEF CallOk, SinceInv
    <2> QED
        BY <2>1, <2>2, <2>3, <2>4 DEF CallOk
<1>6. ASSUME \A x \in Calls : call'[x].pc = left[x].pc
      PROVE  SlotsInv'
    <2>1. \A x \in Calls \ {c} : call'[x].pc = call[x].pc
        BY <1>2, <1>6
    <2>2. call'[c].pc = pc
        BY <1>2, <1>6
    <2>3. CASE pc = call[c].pc
        <3>1. Held' = Held
            <4>1. \A x \in Calls : call'[x].pc = call[x].pc
                BY <2>1, <2>2, <2>3
            <4> QED
                BY <4>1 DEF Held
        <3> QED
            BY <2>3, <3>1, StateFacts, SlotsKept
    <2>4. CASE pc # call[c].pc
        <3>1. c \in Held /\ Held' = Held \ {c}
            BY <2>1, <2>2, <2>4, HeldMoves DEF HoldingPcs
        <3> QED
            BY <2>4, <3>1, StateFacts, SlotFreed
    <2> QED
        BY <2>3, <2>4
<1>7. CASE waiting = <<>>
    <2>1. /\ permits' = permits + 1 /\ waiting' = <<>> /\ ready' = rest /\ call' = left
        <3>1. permits' = permits + 1 /\ waiting' = <<>> /\ ready' = rest \o <<>> /\ call' = left
            BY <1>3, <1>7 DEF Release, Leave, Woken
        <3> QED
            BY <3>1, ConcatEmptySeq
    <2>2. QueuesInv'
        BY <1>7, <2>1, StateFacts, QueuesStep, EmptyQueue DEF QueuesInv
    <2>3. \A x, w : R(x, w)' <=> R(x, w) /\ ~(x = c /\ (w = "granted" \/ w = "ran"))
        BY <2>1, ItemFacts DEF R
    <2>4. \A x \in Calls \ {c} : CallOk(x)'
        BY <1>2, <1>4, <1>7, <2>1, <2>3, StateFacts, Elsewhere
    <2>5. CallOk(c)'
        BY <1>5, <1>7, <2>1, <2>3
    <2>6. SlotsInv'
        BY <1>6, <2>1
    <2>7. PermitsInv'
        <3>1. (\A x \in Calls \ {c} : call'[x] = call[x]) /\ call'[c].task = "done"
            BY <1>2, <2>1
        <3>2. Inside' = Inside \ {c}
            BY <3>1, InsideMoves DEF InsideTasks
        <3> QED
            BY <2>1, <3>2, StateFacts, PermitFreed
    <2> QED
        BY <1>2, <2>1, <2>2, <2>4, <2>5, <2>6, <2>7, StateFacts DEF IInv, CallsInv, MaintInv
<1>8. CASE waiting # <<>>
    <2>0. PICK d \in Calls : d = Head(waiting)
        BY <1>1, <1>8, TailQueue
    <2>1. /\ d \in Calls /\ d \in Elements(waiting)
          /\ Tail(waiting) \in Seq(Calls) /\ Distinct(Tail(waiting))
          /\ Elements(Tail(waiting)) = Elements(waiting) \ {d}
        BY <1>1, <1>8, <2>0, TailQueue
    <2>2. CallOk(d) /\ call[d].task = "waiting" /\ d # c
        BY <1>1, <2>1, StateFacts DEF CallOk, TaskInv, InsideTasks
    <2>3. /\ permits' = permits /\ waiting' = Tail(waiting) /\ ready' = Append(rest, Item(d, "granted"))
          /\ call' = [left EXCEPT ![d].task = "granted"]
        <3>1. /\ permits' = permits /\ waiting' = Tail(waiting)
              /\ ready' = rest \o <<Item(d, "granted")>>
              /\ call' = [left EXCEPT ![d].task = "granted"]
            BY <1>3, <1>8, <2>0 DEF Release, Leave, Woken
        <3>2. Item(d, "granted") \in Callback
            BY <2>1, ItemFacts
        <3> QED
            BY <3>1, <3>2, AppendIsConcat
    <2>4. /\ ready' \in Seq(Callback) /\ Distinct(ready')
          /\ Elements(ready') = Elements(rest) \cup {Item(d, "granted")}
        <3>1. Item(d, "granted") \in Callback /\ Item(d, "granted") \notin Elements(rest)
            BY <2>1, <2>2, ItemFacts DEF CallOk, TaskInv, R
        <3> QED
            BY <2>3, <3>1, AppendQueue
    <2>5. QueuesInv'
        BY <2>1, <2>3, <2>4, StateFacts, QueuesStep DEF QueuesInv
    <2>6. \A x, w : R(x, w)' <=> \/ R(x, w) /\ ~(x = c /\ (w = "granted" \/ w = "ran"))
                                 \/ x = d /\ w = "granted"
        BY <2>4, ItemFacts DEF R
    <2>7. /\ call' \in [Calls -> CallType] /\ (\A x \in Calls \ {d} : call'[x] = left[x])
          /\ call'[d].pc = call[d].pc /\ call'[d].task = "granted"
          /\ call'[d].route = call[d].route /\ call'[d].since = call[d].since
        <3>1. left[d] \in CallType /\ left[d] = call[d]
            BY <1>2, <2>1, <2>2
        <3>2. [left[d] EXCEPT !.task = "granted"] \in CallType
            BY <3>1 DEF CallType, Tasks
        <3>3. call' = [left EXCEPT ![d] = [left[d] EXCEPT !.task = "granted"]]
            BY <2>3
        <3> HIDE DEF CallType
        <3>4. call' \in [Calls -> CallType] /\ (\A x \in Calls \ {d} : call'[x] = left[x])
              /\ call'[d] = [left[d] EXCEPT !.task = "granted"]
            BY <1>2, <3>2, <3>3
        <3>5. /\ call'[d].pc = call[d].pc /\ call'[d].task = "granted"
              /\ call'[d].route = call[d].route /\ call'[d].since = call[d].since
            <4>1. call[d] \in CallType /\ call'[d] = [call[d] EXCEPT !.task = "granted"]
                BY <3>1, <3>4
            <4> QED
                BY <4>1 DEF CallType
        <3> QED
            BY <3>4, <3>5
    <2>8. \A x \in Calls \ {c, d} : CallOk(x)'
        <3> TAKE x \in Calls \ {c, d}
        <3>1. CallOk(x) /\ call'[x] = call[x]
            BY <1>2, <2>7, StateFacts, ZenonT(30)
        <3>2. \A w : (R(x, w)' <=> R(x, w)) /\ (P(x, w)' <=> P(x, w)) /\ (B(x, w)' <=> B(x, w))
            BY <1>4, <2>6
        <3>3. x \in Elements(waiting') => x \in Elements(waiting)
            BY <2>1, <2>3
        <3> QED
            BY <3>1, <3>2, <3>3, Elsewhere
    <2>9. CallOk(c)'
        BY <1>5, <2>1, <2>2, <2>3, <2>6, <2>7
    <2>10. CallOk(d)'
        <3>1. \A w : /\ R(d, w)' <=> R(d, w) \/ w = "granted"
                     /\ P(d, w)' <=> P(d, w)
                     /\ B(d, w)' <=> B(d, w)
            BY <1>4, <2>2, <2>6
        <3>2. d \notin Elements(waiting')
            BY <2>1, <2>3
        <3>3. HandlerInv(d)'
            BY <2>2, <2>7, <3>1 DEF CallOk, HandlerInv
        <3>4. TaskInv(d)'
            BY <2>2, <2>7, <3>1, <3>2 DEF CallOk, TaskInv
        <3>5. ReaderInv(d)'
            BY <2>2, <2>7, <3>1 DEF CallOk, ReaderInv, Over
        <3>6. SinceInv(d)'
            BY <2>2, <2>7 DEF CallOk, SinceInv
        <3> QED
            BY <3>3, <3>4, <3>5, <3>6 DEF CallOk
    <2>11. SlotsInv'
        BY <1>2, <1>6, <2>2, <2>7, ZenonT(30)
    <2>12. PermitsInv'
        <3>1. d \notin Inside /\ Inside' = (Inside \ {c}) \cup {d}
            <4>1. \A x \in Calls \ {c, d} : call'[x].task = call[x].task
                BY <1>2, <2>7, ZenonT(30)
            <4>2. call'[c].task = "done" /\ call'[d].task = "granted" /\ call[d].task = "waiting"
                BY <1>2, <2>2, <2>7
            <4> QED
                BY <4>1, <4>2 DEF Inside
        <3> QED
            BY <1>8, <2>3, <3>1, StateFacts, PermitHanded
    <2> QED
        BY <2>5, <2>7, <2>8, <2>9, <2>10, <2>11, <2>12, StateFacts DEF IInv, CallsInv, MaintInv
<1> QED
    BY <1>7, <1>8

LEMMA RanInv ==
    ASSUME IInv, NEW c \in Calls, Ran(c)
    PROVE  IInv'
<1>1. /\ CallOk(c) /\ R(c, "ran") /\ call[c].task = "running" /\ call[c] \in CallType
      /\ DOMAIN call = Calls /\ c \in Inside
      /\ Release(waiting, Tail(ready)) /\ UNCHANGED <<maint, pool, busy, events>>
    BY HeadFacts, StateFacts DEF Ran, CallOk, TaskInv, Inside
<1>2. /\ Tail(ready) \in Seq(Callback) /\ Distinct(Tail(ready))
      /\ Elements(Tail(ready)) = Elements(ready) \ {Item(c, "granted"), Item(c, "ran")}
    <2>1. Item(c, "granted") \notin Elements(ready)
        BY <1>1 DEF CallOk, TaskInv, R
    <2>2. /\ Tail(ready) \in Seq(Callback) /\ Distinct(Tail(ready))
          /\ Elements(Tail(ready)) = Elements(ready) \ {Item(c, "ran")}
        BY HeadFacts DEF Ran
    <2> QED
        BY <2>1, <2>2
<1>3. /\ pool' \in Seq(WorkItem) /\ Distinct(pool')
      /\ Elements(pool') = Elements(pool) \ {Item(c, "run")}
    <2>1. Item(c, "run") \notin Elements(pool) /\ pool' = pool
        BY <1>1 DEF CallOk, TaskInv, P
    <2> QED
        BY <2>1, StateFacts DEF QueuesInv
<1>4. CASE call[c].pc \in {"awaiting", "joining"}
    <2>1. /\ call' = Woken([call EXCEPT ![c].pc = "answered", ![c].task = "done"], waiting)
          /\ active' = active - 1
        BY <1>4 DEF Ran
    <2> QED
        BY <1>1, <1>2, <1>3, <1>4, <2>1, ReleaseInv DEF Pcs
<1>5. CASE call[c].pc \notin {"awaiting", "joining"}
    <2>1. /\ call' = Woken([call EXCEPT ![c].pc = @, ![c].task = "done"], waiting)
          /\ active' = active
        BY <1>5 DEF Ran
    <2>2. [call EXCEPT ![c].pc = @, ![c].task = "done"]
            = [call EXCEPT ![c].pc = call[c].pc, ![c].task = "done"]
        OBVIOUS
    <2>3. call[c].pc \in {"reading", "gone"} /\ call[c].pc \in Pcs
        BY <1>1, <1>5 DEF CallOk, HandlerInv, CallType, Pcs
    <2> DEFINE pc == call[c].pc
    <2>4. /\ call' = Woken([call EXCEPT ![c].pc = pc, ![c].task = "done"], waiting)
          /\ active' = IF pc = call[c].pc THEN active ELSE active - 1
          /\ R(c, "ran") /\ pc = call[c].pc /\ pc \in {"reading", "gone"}
        BY <1>1, <2>1, <2>2, <2>3
    <2> HIDE DEF pc
    <2>5. pc \in Pcs
        BY <2>3 DEF pc
    <2> QED
        BY <1>1, <1>2, <1>3, <2>4, <2>5, ReleaseInv
<1> QED
    BY <1>4, <1>5

LEMMA ProgressInv ==
    ASSUME IInv, NEW c \in Calls, Progress(c)
    PROVE  IInv'
<1>1. /\ CallOk(c) /\ R(c, "stage") /\ pool' = Append(pool, Item(c, "get")) /\ ready' = Tail(ready)
      /\ UNCHANGED <<active, maint, permits, waiting, busy, events, call>>
    BY HeadFacts, StateFacts DEF Progress
<1>2. /\ pool' \in Seq(WorkItem) /\ Distinct(pool')
      /\ Elements(pool') = Elements(pool) \cup {Item(c, "get")}
    <2>1. Item(c, "get") \notin Elements(pool) /\ Item(c, "get") \in WorkItem
        BY <1>1, ItemFacts DEF CallOk, ReaderInv, P
    <2> QED
        BY <1>1, <2>1, StateFacts, AppendQueue DEF QueuesInv
<1>3. /\ ready' \in Seq(Callback) /\ Distinct(ready')
      /\ Elements(ready') = Elements(ready) \ {Item(c, "stage")}
    BY <1>1, HeadFacts DEF Progress
<1>4. QueuesInv'
    BY <1>1, <1>2, <1>3, StateFacts, QueuesStep DEF QueuesInv
<1>5. \A x, w : /\ R(x, w)' <=> R(x, w) /\ ~(x = c /\ w = "stage")
                /\ P(x, w)' <=> P(x, w) \/ (x = c /\ w = "get")
                /\ B(x, w)' <=> B(x, w)
    BY <1>1, <1>2, <1>3, ItemFacts DEF R, P, B
<1>6. \A x \in Calls \ {c} : CallOk(x)'
    BY <1>1, <1>5, StateFacts, Elsewhere
<1>7. CallOk(c)'
    <2>1. HandlerInv(c)'
        BY <1>1, <1>5 DEF CallOk, HandlerInv
    <2>2. TaskInv(c)'
        BY <1>1, <1>5 DEF CallOk, TaskInv
    <2>3. ReaderInv(c)'
        BY <1>1, <1>5 DEF CallOk, ReaderInv, Over
    <2>4. SinceInv(c)'
        BY <1>1 DEF CallOk, SinceInv
    <2> QED
        BY <2>1, <2>2, <2>3, <2>4 DEF CallOk
<1>8. SlotsInv' /\ PermitsInv'
    <2>1. Held' = Held /\ Inside' = Inside
        BY <1>1 DEF Held, Inside
    <2> QED
        BY <1>1, <2>1, StateFacts, SlotsKept, PermitsKept DEF PermitsInv, PermitsCounted
<1> QED
    BY <1>1, <1>4, <1>6, <1>7, <1>8, StateFacts DEF IInv, CallsInv, MaintInv

LEMMA JoinInv ==
    ASSUME IInv, NEW c \in Calls, Join(c)
    PROVE  IInv'
<1>1. /\ CallOk(c) /\ R(c, "done") /\ call[c].pc = "reading" /\ call[c].route = "turns"
      /\ call[c].task \in {"running", "done"} /\ ready' = Tail(ready)
      /\ UNCHANGED <<maint, permits, waiting, pool, busy, events>>
    BY HeadFacts, StateFacts DEF Join, CallOk, HandlerInv, ReaderInv, Over
<1>2. PICK pc \in {"answered", "joining"} :
        /\ Set(c, pc, call[c].task)
        /\ pc = "answered" => call[c].task = "done" /\ active' = active - 1
        /\ pc = "joining" => call[c].task = "running" /\ active' = active
    <2>1. CASE call[c].task = "done"
        BY <2>1 DEF Join
    <2>2. CASE call[c].task # "done"
        BY <1>1, <2>2 DEF Join
    <2> QED
        BY <2>1, <2>2
<1>3. /\ ready' \in Seq(Callback) /\ Distinct(ready')
      /\ Elements(ready') = Elements(ready) \ {Item(c, "done")}
    BY <1>1, HeadFacts DEF Join
<1>4. QueuesInv'
    BY <1>1, <1>3, StateFacts, QueuesStep DEF QueuesInv
<1>5. \A x, w : /\ R(x, w)' <=> R(x, w) /\ ~(x = c /\ w = "done")
                /\ P(x, w)' <=> P(x, w)
                /\ B(x, w)' <=> B(x, w)
    BY <1>1, <1>3, ItemFacts DEF R, P, B
<1>6. /\ call' \in [Calls -> CallType] /\ (\A x \in Calls \ {c} : call'[x] = call[x])
      /\ call'[c].pc = pc /\ call'[c].task = call[c].task
      /\ call'[c].route = call[c].route /\ call'[c].since = call[c].since
    <2>1. pc \in Pcs /\ call[c].task \in Tasks
        BY <1>1 DEF Pcs, Tasks
    <2>2. PICK task \in Tasks : task = call[c].task
        BY <2>1
    <2> QED
        BY <1>2, <2>1, <2>2, Decided, StateFacts DEF Set, CallsInv
<1>7. \A x \in Calls \ {c} : CallOk(x)'
    BY <1>1, <1>5, <1>6, StateFacts, Elsewhere
<1>8. CallOk(c)'
    <2>1. HandlerInv(c)'
        BY <1>1, <1>2, <1>5, <1>6 DEF CallOk, HandlerInv
    <2>2. TaskInv(c)'
        BY <1>1, <1>5, <1>6 DEF CallOk, TaskInv
    <2>3. ReaderInv(c)'
        BY <1>1, <1>5, <1>6 DEF CallOk, ReaderInv, Over
    <2>4. SinceInv(c)'
        BY <1>1, <1>6 DEF CallOk, SinceInv
    <2> QED
        BY <2>1, <2>2, <2>3, <2>4 DEF CallOk
<1>9. SlotsInv'
    <2>1. CASE pc = "answered"
        <3>1. c \in Held /\ Held' = Held \ {c}
            BY <1>1, <1>6, <2>1, HeldMoves DEF HoldingPcs
        <3> QED
            BY <1>2, <2>1, <3>1, StateFacts, SlotFreed
    <2>2. CASE pc = "joining"
        <3>1. Held' = Held
            BY <1>1, <1>6, <2>2, HeldMoves DEF HoldingPcs
        <3> QED
            BY <1>2, <2>2, <3>1, StateFacts, SlotsKept
    <2> QED
        BY <2>1, <2>2
<1>10. PermitsInv'
    <2>1. Inside' = Inside
        BY <1>6 DEF Inside
    <2> QED
        BY <1>1, <2>1, StateFacts, PermitsKept DEF PermitsInv, PermitsCounted
<1> QED
    BY <1>1, <1>4, <1>6, <1>7, <1>8, <1>9, <1>10, StateFacts DEF IInv, CallsInv, MaintInv

-----------------------------------------------------------------------------
(* The pool's threads                                                      *)

\* An event queue may hold an event several times.
LEMMA AppendEvents ==
    ASSUME NEW S, NEW s \in Seq(S), NEW e \in S
    PROVE  /\ Append(s, e) \in Seq(S) /\ Elements(Append(s, e)) = Elements(s) \cup {e}
           /\ e = "done" => Ended(Append(s, e))
<1> DEFINE new == Append(s, e)
<1>1. /\ Len(s) \in Nat /\ DOMAIN s = 1 .. Len(s) /\ new \in Seq(S) /\ Len(new) = Len(s) + 1
      /\ \A i \in 1 .. Len(s) : new[i] = s[i]
      /\ new[Len(s) + 1] = e
    BY LenProperties, AppendProperties
<1>2. DOMAIN new = 1 .. Len(s) + 1
    BY <1>1, LenProperties
<1> HIDE DEF new
<1>3. Elements(new) = Elements(s) \cup {e}
    <2>1. \A i \in DOMAIN new : i \in DOMAIN s \/ i = Len(s) + 1
        BY <1>1, <1>2
    <2>2. \A i \in DOMAIN s : i \in DOMAIN new
        BY <1>1, <1>2
    <2>3. Len(s) + 1 \in DOMAIN new
        BY <1>1, <1>2
    <2> QED
        BY <1>1, <2>1, <2>2, <2>3 DEF Elements
<1>4. new # <<>>
    BY <1>1
<1> QED
    BY <1>1, <1>3, <1>4 DEF new, Ended

LEMMA TailEvents ==
    ASSUME NEW S, NEW s \in Seq(S), s # <<>>
    PROVE  /\ Tail(s) \in Seq(S) /\ Head(s) \in S /\ Head(s) \in Elements(s)
           /\ Elements(Tail(s)) \subseteq Elements(s)
           /\ Ended(s) /\ Head(s) # "done" => Ended(Tail(s))
<1> DEFINE rest == Tail(s)
<1>1. /\ Len(s) \in Nat \ {0} /\ DOMAIN s = 1 .. Len(s) /\ Head(s) \in S /\ Head(s) = s[1]
      /\ rest \in Seq(S) /\ Len(rest) = Len(s) - 1
      /\ \A i \in 1 .. Len(s) - 1 : rest[i] = s[i + 1]
    <2>1. Len(s) \in Nat /\ Len(s) # 0 /\ DOMAIN s = 1 .. Len(s)
        BY LenProperties, EmptySeq
    <2>2. /\ Head(s) \in S /\ Head(s) = s[1] /\ rest \in Seq(S) /\ Len(rest) = Len(s) - 1
          /\ \A i \in 1 .. Len(rest) : rest[i] = s[i + 1]
        BY HeadTailProperties
    <2> QED
        BY <2>1, <2>2
<1>2. DOMAIN rest = 1 .. Len(s) - 1
    BY <1>1, LenProperties
<1> HIDE DEF rest
<1>3. Elements(rest) \subseteq Elements(s)
    <2>1. \A i \in DOMAIN rest : i + 1 \in DOMAIN s /\ rest[i] = s[i + 1]
        BY <1>1, <1>2
    <2> QED
        BY <2>1 DEF Elements
<1>4. Head(s) \in Elements(s)
    <2>1. 1 \in DOMAIN s
        BY <1>1
    <2> QED
        BY <1>1, <2>1 DEF Elements
<1>5. ASSUME Ended(s), Head(s) # "done"
      PROVE  Ended(rest)
    <2>1. Len(s) # 1
        BY <1>1, <1>5 DEF Ended
    <2>2. Len(s) - 1 \in 1 .. Len(s) - 1 /\ (Len(s) - 1) + 1 = Len(s) /\ Len(rest) # 0
        BY <1>1, <2>1
    <2>3. rest[Len(rest)] = s[Len(s)]
        BY <1>1, <2>2
    <2>4. rest # <<>>
        BY <1>1, <2>2
    <2> QED
        BY <1>5, <2>3, <2>4 DEF Ended
<1> QED
    BY <1>1, <1>3, <1>4, <1>5 DEF rest

\* Steps of threads leave handlers, tasks and the counts alone.
LEMMA ThreadStep ==
    ASSUME IInv, QueuesInv', \A x \in Calls : CallOk(x)',
           UNCHANGED <<active, maint, permits, waiting, call>>
    PROVE  IInv'
<1>1. Held' = Held /\ Inside' = Inside
    BY DEF Held, Inside
<1>2. SlotsInv' /\ PermitsInv'
    BY <1>1, StateFacts, SlotsKept, PermitsKept DEF PermitsInv, PermitsCounted
<1> QED
    BY <1>2, StateFacts DEF IInv, CallsInv, MaintInv

LEMMA TakeInv ==
    ASSUME IInv, Take
    PROVE  IInv'
<1>1. /\ pool # <<>> /\ busy' = busy \cup {Head(pool)} /\ pool' = Tail(pool)
      /\ UNCHANGED <<active, maint, ready, permits, waiting, events, call>>
    BY DEF Take
<1>2. /\ pool' \in Seq(WorkItem) /\ Distinct(pool') /\ Head(pool) \in WorkItem
      /\ Head(pool) \in Elements(pool) /\ Elements(pool') = Elements(pool) \ {Head(pool)}
    BY <1>1, StateFacts, TailQueue DEF QueuesInv
<1>3. PICK c \in Calls, what \in {"run", "end", "get"} : Head(pool) = Item(c, what)
    BY <1>2 DEF WorkItem, Item
<1>4. QueuesInv'
    BY <1>1, <1>2, StateFacts, QueuesStep DEF QueuesInv
<1>5. \A x, w : /\ R(x, w)' <=> R(x, w)
                /\ P(x, w)' <=> P(x, w) /\ ~(x = c /\ w = what)
                /\ B(x, w)' <=> B(x, w) \/ (x = c /\ w = what)
    BY <1>1, <1>2, <1>3, ItemFacts DEF R, P, B
<1>6. P(c, what) /\ CallOk(c)
    BY <1>2, <1>3, StateFacts DEF P
<1>7. \A x \in Calls \ {c} : CallOk(x)'
    BY <1>1, <1>5, StateFacts, Elsewhere
<1>8. CallOk(c)'
    <2>1. HandlerInv(c)'
        BY <1>1, <1>5, <1>6 DEF CallOk, HandlerInv
    <2>2. TaskInv(c)'
        BY <1>1, <1>5, <1>6 DEF CallOk, TaskInv
    <2>3. ReaderInv(c)'
        <3>1. Over(c)' <=> Over(c)
            BY <1>1, <1>5, <1>6 DEF CallOk, TaskInv, Over
        <3> QED
            BY <1>1, <1>5, <1>6, <3>1 DEF CallOk, HandlerInv, ReaderInv
    <2>4. SinceInv(c)'
        BY <1>1, <1>6 DEF CallOk, SinceInv
    <2> QED
        BY <2>1, <2>2, <2>3, <2>4 DEF CallOk
<1> QED
    BY <1>1, <1>4, <1>7, <1>8, ThreadStep

LEMMA OnStageInv ==
    ASSUME IInv, NEW c \in Calls, OnStage(c)
    PROVE  IInv'
<1>1. /\ CallOk(c) /\ B(c, "run") /\ events' = [events EXCEPT ![c] = Append(@, "stage")]
      /\ UNCHANGED <<active, maint, ready, permits, waiting, pool, busy, call>>
      /\ events \in [Calls -> Seq({"stage", "done"})]
    BY StateFacts DEF OnStage, B, QueuesInv
<1>2. /\ events' \in [Calls -> Seq({"stage", "done"})]
      /\ Elements(events'[c]) = Elements(events[c]) \cup {"stage"}
      /\ \A x \in Calls \ {c} : events'[x] = events[x]
    <2>1. events[c] \in Seq({"stage", "done"}) /\ "stage" \in {"stage", "done"}
        BY <1>1
    <2>2. /\ Append(events[c], "stage") \in Seq({"stage", "done"})
          /\ Elements(Append(events[c], "stage")) = Elements(events[c]) \cup {"stage"}
        BY <2>1, AppendEvents
    <2> QED
        BY <1>1, <2>2
<1>3. QueuesInv'
    BY <1>1, <1>2, StateFacts, QueuesStep DEF QueuesInv
<1>4. \A x, w : (R(x, w)' <=> R(x, w)) /\ (P(x, w)' <=> P(x, w)) /\ (B(x, w)' <=> B(x, w))
    BY <1>1 DEF R, P, B
<1>5. \A x \in Calls \ {c} : CallOk(x)'
    BY <1>1, <1>2, <1>4, StateFacts, Elsewhere
<1>6. CallOk(c)'
    <2>1. HandlerInv(c)' /\ TaskInv(c)' /\ SinceInv(c)'
        BY <1>1, <1>4 DEF CallOk, HandlerInv, TaskInv, SinceInv
    <2>2. ReaderInv(c)'
        BY <1>1, <1>2, <1>4 DEF CallOk, ReaderInv, Over
    <2> QED
        BY <2>1, <2>2 DEF CallOk
<1> QED
    BY <1>1, <1>3, <1>5, <1>6, ThreadStep

\* The thread's result becomes ready, if its task still awaits it.
LEMMA ReturnQueue ==
    ASSUME IInv, NEW c \in Calls, Return(c), B(c, "run") \/ B(c, "end")
    PROVE  /\ ready' \in Seq(Callback) /\ Distinct(ready')
           /\ \A x, w : R(x, w)' <=> \/ R(x, w)
                                     \/ x = c /\ w = "ran" /\ call[c].task = "running"
<1>1. ready \in Seq(Callback) /\ Distinct(ready)
    BY StateFacts DEF QueuesInv
<1>2. CASE call[c].task = "running"
    <2>1. Item(c, "ran") \notin Elements(ready) /\ Item(c, "ran") \in Callback
        BY StateFacts, ItemFacts DEF CallOk, TaskInv, R
    <2>2. /\ ready' \in Seq(Callback) /\ Distinct(ready')
          /\ Elements(ready') = Elements(ready) \cup {Item(c, "ran")}
        BY <1>1, <1>2, <2>1, AppendQueue DEF Return
    <2> QED
        BY <1>2, <2>2, ItemFacts DEF R
<1>3. CASE call[c].task # "running"
    BY <1>1, <1>3 DEF Return, R
<1> QED
    BY <1>2, <1>3

LEMMA FinishInv ==
    ASSUME IInv, NEW c \in Calls, NEW raised, Finish(c, raised)
    PROVE  IInv'
<1>1. /\ CallOk(c) /\ B(c, "run")
      /\ UNCHANGED <<active, maint, permits, waiting, pool, call>>
    BY StateFacts DEF Finish, B
<1>2. CASE call[c].route = "turns"
    <2>1. /\ busy' = (busy \ {Item(c, "run")}) \cup {Item(c, "end")}
          /\ events' = [events EXCEPT ![c] = Append(events[c], "done")] /\ UNCHANGED ready
          /\ events \in [Calls -> Seq({"stage", "done"})]
        BY <1>2, StateFacts DEF Finish, Put, QueuesInv
    <2>2. /\ events' \in [Calls -> Seq({"stage", "done"})] /\ Ended(events'[c])
          /\ \A x \in Calls \ {c} : events'[x] = events[x]
        <3>1. events[c] \in Seq({"stage", "done"}) /\ "done" \in {"stage", "done"}
            BY <2>1
        <3>2. Append(events[c], "done") \in Seq({"stage", "done"}) /\ Ended(Append(events[c], "done"))
            BY <3>1, AppendEvents
        <3> QED
            BY <2>1, <3>2
    <2>3. QueuesInv'
        <3>1. busy' \subseteq WorkItem
            BY <2>1, ItemFacts, StateFacts DEF QueuesInv
        <3> QED
            BY <1>1, <2>1, <2>2, <3>1, StateFacts, QueuesStep DEF QueuesInv
    <2>4. \A x, w : /\ R(x, w)' <=> R(x, w)
                    /\ P(x, w)' <=> P(x, w)
                    /\ B(x, w)' <=> (B(x, w) /\ ~(x = c /\ w = "run")) \/ (x = c /\ w = "end")
        BY <1>1, <2>1, ItemFacts DEF R, P, B
    <2>5. \A x \in Calls \ {c} : CallOk(x)'
        BY <1>1, <2>2, <2>4, StateFacts, Elsewhere
    <2>6. CallOk(c)'
        <3>1. HandlerInv(c)' /\ SinceInv(c)'
            BY <1>1, <2>4 DEF CallOk, HandlerInv, SinceInv
        <3>2. TaskInv(c)'
            BY <1>1, <1>2, <2>4 DEF CallOk, TaskInv
        <3>3. ReaderInv(c)'
            BY <1>1, <1>2, <2>2, <2>4 DEF CallOk, TaskInv, ReaderInv, Over
        <3> QED
            BY <3>1, <3>2, <3>3 DEF CallOk
    <2> QED
        BY <1>1, <2>3, <2>5, <2>6, ThreadStep
<1>3. CASE call[c].route # "turns"
    <2>1. busy' = busy \ {Item(c, "run")} /\ Return(c) /\ UNCHANGED events
        BY <1>3 DEF Finish
    <2>2. /\ ready' \in Seq(Callback) /\ Distinct(ready')
          /\ \A x, w : R(x, w)' <=> \/ R(x, w)
                                    \/ x = c /\ w = "ran" /\ call[c].task = "running"
        BY <1>1, <2>1, ReturnQueue
    <2>3. QueuesInv'
        BY <1>1, <2>1, <2>2, StateFacts, QueuesStep DEF QueuesInv
    <2>4. \A x, w : /\ P(x, w)' <=> P(x, w)
                    /\ B(x, w)' <=> B(x, w) /\ ~(x = c /\ w = "run")
        BY <1>1, <2>1, ItemFacts DEF P, B
    <2>5. \A x \in Calls \ {c} : CallOk(x)'
        BY <1>1, <2>1, <2>2, <2>4, StateFacts, Elsewhere
    <2>6. CallOk(c)'
        <3>1. HandlerInv(c)' /\ SinceInv(c)'
            BY <1>1, <2>2 DEF CallOk, HandlerInv, SinceInv
        <3>2. TaskInv(c)'
            BY <1>1, <1>3, <2>2, <2>4 DEF CallOk, TaskInv
        <3>3. ReaderInv(c)'
            BY <1>1, <1>3, <2>1, <2>2, <2>4 DEF CallOk, HandlerInv, ReaderInv, Over
        <3> QED
            BY <3>1, <3>2, <3>3 DEF CallOk
    <2> QED
        BY <1>1, <2>3, <2>5, <2>6, ThreadStep
<1> QED
    BY <1>2, <1>3

LEMMA EndInv ==
    ASSUME IInv, NEW c \in Calls, End(c)
    PROVE  IInv'
<1>1. /\ CallOk(c) /\ B(c, "end") /\ busy' = busy \ {Item(c, "end")} /\ Return(c)
      /\ UNCHANGED <<active, maint, permits, waiting, pool, events, call>>
    BY StateFacts DEF End, B
<1>2. /\ ready' \in Seq(Callback) /\ Distinct(ready')
      /\ \A x, w : R(x, w)' <=> \/ R(x, w)
                                \/ x = c /\ w = "ran" /\ call[c].task = "running"
    BY <1>1, ReturnQueue
<1>3. QueuesInv'
    BY <1>1, <1>2, StateFacts, QueuesStep DEF QueuesInv
<1>4. \A x, w : /\ P(x, w)' <=> P(x, w)
                /\ B(x, w)' <=> B(x, w) /\ ~(x = c /\ w = "end")
    BY <1>1, ItemFacts DEF P, B
<1>5. \A x \in Calls \ {c} : CallOk(x)'
    BY <1>1, <1>2, <1>4, StateFacts, Elsewhere
<1>6. CallOk(c)'
    <2>1. HandlerInv(c)' /\ SinceInv(c)'
        BY <1>1, <1>2 DEF CallOk, HandlerInv, SinceInv
    <2>2. TaskInv(c)'
        BY <1>1, <1>2, <1>4 DEF CallOk, TaskInv
    <2>3. ReaderInv(c)'
        BY <1>1, <1>2, <1>4 DEF CallOk, ReaderInv, Over
    <2> QED
        BY <2>1, <2>2, <2>3 DEF CallOk
<1> QED
    BY <1>1, <1>3, <1>5, <1>6, ThreadStep

LEMMA GetInv ==
    ASSUME IInv, NEW c \in Calls, Get(c)
    PROVE  IInv'
<1>1. /\ CallOk(c) /\ B(c, "get") /\ events[c] # <<>> /\ busy' = busy \ {Item(c, "get")}
      /\ events' = [events EXCEPT ![c] = Tail(@)]
      /\ ready' = IF call[c].pc = "reading" THEN Append(ready, Item(c, Head(events[c]))) ELSE ready
      /\ UNCHANGED <<active, maint, permits, waiting, pool, call>>
      /\ events \in [Calls -> Seq({"stage", "done"})]
    BY StateFacts DEF Get, B, QueuesInv
<1>2. PICK what \in {"stage", "done"} : what = Head(events[c])
    BY <1>1, TailEvents
<1>3. /\ events' \in [Calls -> Seq({"stage", "done"})]
      /\ Elements(events'[c]) \subseteq Elements(events[c]) /\ what \in Elements(events[c])
      /\ Ended(events[c]) /\ what # "done" => Ended(events'[c])
      /\ \A x \in Calls \ {c} : events'[x] = events[x]
    <2>1. events[c] \in Seq({"stage", "done"})
        BY <1>1
    <2>2. /\ Tail(events[c]) \in Seq({"stage", "done"}) /\ what \in Elements(events[c])
          /\ Elements(Tail(events[c])) \subseteq Elements(events[c])
          /\ Ended(events[c]) /\ what # "done" => Ended(Tail(events[c]))
        BY <1>1, <1>2, <2>1, TailEvents
    <2> QED
        BY <1>1, <2>2
<1>4. /\ ready' \in Seq(Callback) /\ Distinct(ready')
      /\ \A x, w : R(x, w)' <=> \/ R(x, w)
                                \/ x = c /\ w = what /\ call[c].pc = "reading"
    <2>1. ready \in Seq(Callback) /\ Distinct(ready)
        BY StateFacts DEF QueuesInv
    <2>2. CASE call[c].pc = "reading"
        <3>1. Item(c, what) \notin Elements(ready) /\ Item(c, what) \in Callback
            BY <1>1, ItemFacts DEF CallOk, ReaderInv, R
        <3>2. /\ ready' \in Seq(Callback) /\ Distinct(ready')
              /\ Elements(ready') = Elements(ready) \cup {Item(c, what)}
            BY <1>1, <1>2, <2>1, <2>2, <3>1, AppendQueue
        <3> QED
            BY <2>2, <3>2, ItemFacts DEF R
    <2>3. CASE call[c].pc # "reading"
        BY <1>1, <2>1, <2>3 DEF R
    <2> QED
        BY <2>2, <2>3
<1>5. QueuesInv'
    BY <1>1, <1>3, <1>4, StateFacts, QueuesStep DEF QueuesInv
<1>6. \A x, w : /\ P(x, w)' <=> P(x, w)
                /\ B(x, w)' <=> B(x, w) /\ ~(x = c /\ w = "get")
    BY <1>1, ItemFacts DEF P, B
<1>7. \A x \in Calls \ {c} : CallOk(x)'
    BY <1>1, <1>3, <1>4, <1>6, StateFacts, Elsewhere
<1>8. CallOk(c)'
    <2>1. HandlerInv(c)' /\ SinceInv(c)'
        BY <1>1, <1>4 DEF CallOk, HandlerInv, SinceInv
    <2>2. TaskInv(c)'
        BY <1>1, <1>4, <1>6 DEF CallOk, TaskInv
    <2>3. ReaderInv(c)'
        <3>1. Over(c)' <=> Over(c)
            BY <1>1, <1>6 DEF Over
        <3> QED
            BY <1>1, <1>3, <1>4, <1>6, <3>1 DEF CallOk, ReaderInv
    <2> QED
        BY <2>1, <2>2, <2>3 DEF CallOk
<1> QED
    BY <1>1, <1>5, <1>7, <1>8, ThreadStep

-----------------------------------------------------------------------------
(* A client goes away                                                      *)

\* The slot is freed and no permit moves.
LEMMA GoneCounts ==
    ASSUME IInv, NEW c \in Calls, \A x \in Calls \ {c} : call'[x] = call[x],
           call[c].pc \in HoldingPcs, call'[c].pc = "gone", active' = active - 1,
           call[c].task \in InsideTasks <=> call'[c].task \in InsideTasks,
           permits' = permits, permits > 0 => waiting' = <<>>
    PROVE  SlotsInv' /\ PermitsInv'
<1>1. c \in Held /\ Held' = Held \ {c}
    BY HeldMoves DEF HoldingPcs
<1>2. Inside' = Inside
    <2>1. \A x \in Calls : call'[x].task \in InsideTasks <=> call[x].task \in InsideTasks
        OBVIOUS
    <2> QED
        BY <2>1 DEF Inside, InsideTasks
<1> QED
    BY <1>1, <1>2, StateFacts, SlotFreed, PermitsKept

LEMMA DisconnectInv ==
    ASSUME IInv, NEW c \in Calls, Disconnect(c)
    PROVE  IInv'
<1>1. /\ CallOk(c) /\ call[c].route \in Streamed /\ call[c].pc \in {"awaiting", "reading", "joining"}
      /\ active' = active - 1 /\ UNCHANGED <<maint, busy, events>>
      /\ call \in [Calls -> CallType] /\ call[c] \in CallType
    BY StateFacts DEF Disconnect, CallsInv
<1>2. CASE call[c].pc = "reading"
    <2>1. /\ pool' = Without(pool, {Item(c, "get")})
          /\ ready' = Without(ready, {Item(c, "stage"), Item(c, "done")})
          /\ call' = [call EXCEPT ![c].pc = "gone"] /\ UNCHANGED <<permits, waiting>>
        BY <1>2 DEF Disconnect, Detached
    <2>2. /\ pool' \in Seq(WorkItem) /\ Distinct(pool')
          /\ Elements(pool') = Elements(pool) \ {Item(c, "get")}
        <3>1. pool \in Seq(WorkItem) /\ Distinct(pool)
            BY StateFacts DEF QueuesInv
        <3> QED
            BY <2>1, <3>1, WithoutItem
    <2>3. /\ ready' \in Seq(Callback) /\ Distinct(ready')
          /\ Elements(ready') = Elements(ready) \ {Item(c, "stage"), Item(c, "done")}
        <3>1. ~(Item(c, "stage") \in Elements(ready) /\ Item(c, "done") \in Elements(ready))
            BY <1>1 DEF CallOk, ReaderInv, R
        <3>2. \A x, y \in Elements(ready) \cap {Item(c, "stage"), Item(c, "done")} : x = y
            BY <3>1
        <3> QED
            BY <2>1, <3>2, StateFacts, WithoutQueue DEF QueuesInv
    <2>4. QueuesInv'
        BY <1>1, <2>1, <2>2, <2>3, StateFacts, QueuesStep DEF QueuesInv
    <2>5. \A x, w : /\ R(x, w)' <=> R(x, w) /\ ~(x = c /\ (w = "stage" \/ w = "done"))
                    /\ P(x, w)' <=> P(x, w) /\ ~(x = c /\ w = "get")
                    /\ B(x, w)' <=> B(x, w)
        BY <1>1, <2>2, <2>3, ItemFacts DEF R, P, B
    <2>6. /\ call' \in [Calls -> CallType] /\ (\A x \in Calls \ {c} : call'[x] = call[x])
          /\ call'[c].pc = "gone" /\ call'[c].task = call[c].task
          /\ call'[c].route = call[c].route /\ call'[c].since = call[c].since
        <3>1. [call[c] EXCEPT !.pc = "gone"] \in CallType
            BY <1>1 DEF CallType, Pcs
        <3>2. call' = [call EXCEPT ![c] = [call[c] EXCEPT !.pc = "gone"]]
            BY <1>1, <2>1
        <3> QED
            BY <1>1, <3>1, <3>2 DEF CallType
    <2>7. \A x \in Calls \ {c} : CallOk(x)'
        BY <1>1, <2>1, <2>5, <2>6, StateFacts, Elsewhere
    <2>8. CallOk(c)'
        <3>1. HandlerInv(c)'
            BY <1>1, <1>2, <2>5, <2>6 DEF CallOk, HandlerInv
        <3>2. TaskInv(c)'
            BY <1>1, <1>2, <2>1, <2>5, <2>6 DEF CallOk, TaskInv
        <3>3. ReaderInv(c)'
            BY <1>1, <1>2, <2>5, <2>6 DEF CallOk, ReaderInv, Over
        <3>4. SinceInv(c)'
            BY <1>1, <1>2, <2>6 DEF CallOk, SinceInv
        <3> QED
            BY <3>1, <3>2, <3>3, <3>4 DEF CallOk
    <2>9. SlotsInv' /\ PermitsInv'
        <3>1. permits > 0 => waiting' = <<>>
            BY <2>1, StateFacts DEF PermitsInv, PermitsCounted
        <3> QED
            BY <1>1, <1>2, <2>1, <2>6, <3>1, GoneCounts DEF HoldingPcs
    <2> QED
        BY <1>1, <2>4, <2>6, <2>7, <2>8, <2>9, StateFacts DEF IInv, CallsInv, MaintInv
<1>3. CASE call[c].pc # "reading"
    <2>1. /\ call[c].pc \in {"awaiting", "joining"}
          /\ call[c].task \in {"waiting", "granted", "running"}
          /\ call[c].task = "waiting" => call[c].route = "stream"
          /\ pool' = Without(pool, {Item(c, "run")})
        BY <1>1, <1>3 DEF Disconnect, Detached, CallOk, HandlerInv, Streamed
    <2>2. /\ pool' \in Seq(WorkItem) /\ Distinct(pool')
          /\ Elements(pool') = Elements(pool) \ {Item(c, "run")}
        <3>1. pool \in Seq(WorkItem) /\ Distinct(pool)
            BY StateFacts DEF QueuesInv
        <3> QED
            BY <2>1, <3>1, WithoutItem
    <2>3. CASE call[c].task = "waiting"
        <3>1. /\ waiting' = Without(waiting, {c}) /\ UNCHANGED <<permits, ready>>
              /\ call' = [call EXCEPT ![c].pc = "gone", ![c].task = "done"]
            BY <1>3, <2>3 DEF Disconnect, Detached
        <3>2. /\ waiting' \in Seq(Calls) /\ Distinct(waiting')
              /\ Elements(waiting') = Elements(waiting) \ {c}
            <4>1. \A x, y \in Elements(waiting) \cap {c} : x = y
                OBVIOUS
            <4> QED
                BY <3>1, <4>1, StateFacts, WithoutQueue DEF QueuesInv
        <3>3. QueuesInv'
            BY <1>1, <2>2, <3>1, <3>2, StateFacts, QueuesStep DEF QueuesInv
        <3>4. \A x, w : /\ R(x, w)' <=> R(x, w)
                        /\ P(x, w)' <=> P(x, w) /\ ~(x = c /\ w = "run")
                        /\ B(x, w)' <=> B(x, w)
            BY <1>1, <2>2, <3>1, ItemFacts DEF R, P, B
        <3>5. /\ call' \in [Calls -> CallType] /\ (\A x \in Calls \ {c} : call'[x] = call[x])
              /\ call'[c].pc = "gone" /\ call'[c].task = "done"
              /\ call'[c].route = call[c].route /\ call'[c].since = call[c].since
            BY <1>1, <3>1, Decided DEF Pcs, Tasks
        <3>6. \A x \in Calls \ {c} : CallOk(x)'
            BY <1>1, <3>2, <3>4, <3>5, StateFacts, Elsewhere
        <3>7. CallOk(c)'
            <4>1. HandlerInv(c)'
                BY <1>1, <2>1, <2>3, <3>4, <3>5 DEF CallOk, HandlerInv
            <4>2. TaskInv(c)'
                BY <1>1, <2>3, <3>2, <3>4, <3>5 DEF CallOk, TaskInv
            <4>3. ReaderInv(c)'
                BY <1>1, <2>1, <2>3, <3>4, <3>5 DEF CallOk, ReaderInv, Over
            <4>4. SinceInv(c)'
                BY <1>1, <2>1, <3>5 DEF CallOk, SinceInv
            <4> QED
                BY <4>1, <4>2, <4>3, <4>4 DEF CallOk
        <3>8. SlotsInv' /\ PermitsInv'
            <4>1. permits > 0 => waiting' = <<>>
                BY <3>1, StateFacts DEF PermitsInv, PermitsCounted, Without
            <4> QED
                BY <1>1, <2>1, <2>3, <3>1, <3>5, <4>1, GoneCounts DEF HoldingPcs, InsideTasks
        <3> QED
            BY <1>1, <3>3, <3>5, <3>6, <3>7, <3>8, StateFacts DEF IInv, CallsInv, MaintInv
    <2>4. CASE call[c].task # "waiting"
        <3> DEFINE rest == Without(ready, {Item(c, "granted"), Item(c, "ran")})
        <3>1. /\ Release(waiting, rest)
              /\ call' = Woken([call EXCEPT ![c].pc = "gone", ![c].task = "done"], waiting)
            BY <1>3, <2>4 DEF Disconnect, Detached
        <3>2. /\ rest \in Seq(Callback) /\ Distinct(rest)
              /\ Elements(rest) = Elements(ready) \ {Item(c, "granted"), Item(c, "ran")}
            <4>1. ~(Item(c, "granted") \in Elements(ready) /\ Item(c, "ran") \in Elements(ready))
                BY <1>1 DEF CallOk, TaskInv, R
            <4>2. \A x, y \in Elements(ready) \cap {Item(c, "granted"), Item(c, "ran")} : x = y
                BY <4>1
            <4> QED
                BY <4>2, StateFacts, WithoutQueue DEF QueuesInv
        <3> HIDE DEF rest
        <3>3. c \in Inside /\ active' = (IF "gone" = call[c].pc THEN active ELSE active - 1)
              /\ "gone" \in Pcs
            BY <1>1, <2>1, <2>4 DEF Inside, Pcs
        <3> QED
            BY <1>1, <2>1, <2>2, <3>1, <3>2, <3>3, ReleaseInv
    <2> QED
        BY <2>3, <2>4
<1> QED
    BY <1>2, <1>3

-----------------------------------------------------------------------------
(* The invariant and what it says                                          *)

LEMMA Invariance == Spec => []IInv
<1>1. ASSUME IInv, [Next]_vars
      PROVE  IInv'
    <2>1. CASE UNCHANGED vars
        <3>1. /\ QueuesInv' /\ UNCHANGED <<active, maint, permits, waiting, call, events>>
              /\ \A x, w : (R(x, w)' <=> R(x, w)) /\ (P(x, w)' <=> P(x, w)) /\ (B(x, w)' <=> B(x, w))
            BY <1>1, <2>1, QueuesKept DEF vars
        <3>2. \A x \in Calls : CallOk(x)'
            BY <1>1, <3>1, StateFacts, Elsewhere
        <3> QED
            BY <1>1, <3>1, <3>2, ThreadStep
    <2>2. CASE Quiet
        BY <2>1, <2>2 DEF Quiet
    <2>3. ASSUME NEW c \in Calls,
                 \/ Arrive(c) \/ Check(c) \/ Loop(c) \/ OnStage(c) \/ End(c) \/ Get(c) \/ Disconnect(c)
                 \/ \E raised \in BOOLEAN : Finish(c, raised)
          PROVE  IInv'
        BY <1>1, <2>3, ArriveInv, CheckInv, StartInv, RunTaskInv, GrantedInv, RanInv, ProgressInv,
           JoinInv, OnStageInv, EndInv, GetInv, DisconnectInv, FinishInv DEF Loop
    <2> QED
        BY <1>1, <2>1, <2>2, <2>3, ToggleInv, TakeInv DEF Next
<1> QED
    BY <1>1, InitInv, PTL DEF Spec

\* Work of callers that are there is done by threads whose tasks hold a permit.
LEMMA WorkFacts ==
    ASSUME IInv
    PROVE  WorkBounded
<1> DEFINE working == {c \in Calls : /\ Item(c, "run") \in busy
                                     /\ ~(call[c].route = "stream" /\ call[c].pc = "gone")}
<1>1. working \subseteq Inside
    BY StateFacts DEF CallOk, TaskInv, B, Inside
<1> HIDE DEF working
<1>2. IsFiniteSet(Inside) /\ Cardinality(Inside) \in Nat
    BY StateFacts, CountFacts
<1>3. Cardinality(working) \in Nat /\ Cardinality(working) <= Cardinality(Inside)
    BY <1>1, <1>2, FS_Subset, FS_CardinalityType
<1>4. Cardinality(Inside) <= Permits
    BY <1>2, StateFacts, LimitsAssumption DEF PermitsInv, PermitsCounted
<1> QED
    BY <1>2, <1>3, <1>4, LimitsAssumption DEF WorkBounded, working

LEMMA ReaderFacts ==
    ASSUME IInv
    PROVE  ReaderFed
<1> SUFFICES ASSUME NEW c \in Calls, B(c, "get"), events[c] = <<>>
             PROVE  \/ call[c].task \in {"new", "waiting", "granted"}
                    \/ B(c, "run")
                    \/ P(c, "run")
    BY DEF ReaderFed, B, P, Elements
<1>1. CallOk(c) /\ call[c] \in CallType
    BY StateFacts
<1>2. ~Over(c) /\ call[c].route = "turns" /\ call[c].pc \in {"reading", "gone"}
    BY <1>1 DEF CallOk, ReaderInv, Ended
<1>3. call[c].task # "none"
    BY <1>1, <1>2 DEF CallOk, HandlerInv
<1> QED
    BY <1>1, <1>2, <1>3 DEF Over, CallType, Tasks

\* Types, with the slots and the permits within their limits.
THEOREM TypeCorrect == Spec => []TypeOK
<1>1. IInv => TypeOK
    <2> SUFFICES ASSUME IInv
                 PROVE  TypeOK
        OBVIOUS
    <2>1. active \in 0 .. Slots
        BY StateFacts, LimitsAssumption DEF SlotsInv, SlotsCounted
    <2>2. permits \in 0 .. Permits
        BY StateFacts, CountFacts, LimitsAssumption DEF PermitsInv, PermitsCounted
    <2> QED
        BY <2>1, <2>2, StateFacts DEF TypeOK, QueuesInv, MaintInv, CallsInv, CallType, Pcs, Tasks
<1> QED
    BY <1>1, Invariance, PTL

\* Whatever happens to a call - refused, answered, raised, cancelled while it waits
\* for a permit, in the moment it was handed one, or while its thread runs - its slot
\* and its permit are given back exactly once, no task waits beside a free permit, the
\* threads at work are within QUERY_THREAD_LIMIT, and whoever waits for a turn's next
\* event has a producer left.  This holds on every route.
THEOREM CountsKept == Spec => [](SlotsCounted /\ PermitsCounted /\ WorkBounded /\ ReaderFed)
<1>1. IInv => SlotsCounted /\ PermitsCounted /\ WorkBounded /\ ReaderFed
    BY WorkFacts, ReaderFacts, StateFacts DEF SlotsInv, PermitsInv
<1> QED
    BY <1>1, Invariance, PTL

\* On the routes that declare require_not_in_maintenance, a call that met maintenance
\* and no switch since reaches no handler either; the assumptions route
\* (api/v2_routes.py, patch_assumptions) does not declare it.
THEOREM AdmissionIsSound == "patch" \notin Routes => (Spec => []AdmissionSound)
<1> SUFFICES ASSUME "patch" \notin Routes
             PROVE  Spec => []AdmissionSound
    OBVIOUS
<1>1. IInv => RefusedInMaintenance
    <2> SUFFICES ASSUME IInv, NEW c \in Calls, call[c].since
                 PROVE  call[c].pc \in {"idle", "checking", "refused"}
        BY DEF RefusedInMaintenance
    <2>1. CallOk(c)
        BY StateFacts
    <2>2. call[c].pc = "idle" \/ call[c].route # "patch"
        BY <2>1 DEF CallOk, HandlerInv
    <2> QED
        BY <2>1, <2>2 DEF CallOk, SinceInv
<1>2. IInv => AdmissionSound
    BY <1>1, WorkFacts, ReaderFacts, StateFacts DEF SlotsInv, PermitsInv, AdmissionSound
<1> QED
    BY <1>2, Invariance, PTL

(***************************************************************************)
(* The vocabulary's background refresh, for any columns, limits and        *)
(* operators.  Its lists stay the newest because a column has one thread   *)
(* at a time: whoever looks claims the column in the step that looked, and *)
(* only the thread that was started gives it back.                         *)
(***************************************************************************)
VocabularyCell == [is : BOOLEAN, age : 0 .. Ttl + 1, current : BOOLEAN,
                   by : {"none", "thread", "manual"}]
VocabularyThread == [of : Columns, pc : {"fetch", "store", "mark", "fail", "leave"},
                     current : BOOLEAN]
VocabularyManual == [of : Columns, pc : {"idle", "fetch", "store", "mark", "fail"},
                     current : BOOLEAN]

OneThread ==
    /\ \A t \in threads : t.of \in inFlight
    /\ \A t, u \in threads : t.of = u.of => t = u

\* What a thread is about to store is no older than what a thread stored.
StoresNewest ==
    \A t \in threads :
        (t.pc = "store" /\ cache[t.of].by = "thread" /\ cache[t.of].current) => t.current

VocabularyInv == D!TypeOK /\ OneThread /\ StoresNewest

LEMMA VocabularyBegins == D!Init => VocabularyInv
<1> SUFFICES ASSUME D!Init PROVE VocabularyInv
    OBVIOUS
<1> USE VocabularyConfigured DEF D!Configured, D!Init
<1>1. D!Absent \in VocabularyCell
    BY DEF D!Absent, VocabularyCell
<1>2. D!Long \in Nat
    BY DEF D!Long
<1>3. (CHOOSE c \in Columns : TRUE) \in Columns
    OBVIOUS
<1>4. D!Idle \in VocabularyManual
    BY <1>3 DEF D!Idle, VocabularyManual
<1>5. cache \in [Columns -> VocabularyCell] /\ failure \in [Columns -> 0 .. D!Long]
    BY <1>1, <1>2
<1>6. manual \in [Manual -> VocabularyManual]
    BY <1>4
<1>7. D!TypeOK
    BY <1>5, <1>6 DEF D!TypeOK, VocabularyCell, VocabularyManual
<1> QED
    BY <1>7 DEF VocabularyInv, OneThread, StoresNewest

LEMMA VocabularyStep == VocabularyInv /\ [D!Next]_D!vars => VocabularyInv'
<1> SUFFICES ASSUME VocabularyInv, [D!Next]_D!vars PROVE VocabularyInv'
    OBVIOUS
<1> USE VocabularyConfigured DEF D!Configured
<1>1. /\ up \in BOOLEAN /\ cache \in [Columns -> VocabularyCell]
      /\ inFlight \subseteq Columns /\ failure \in [Columns -> 0 .. D!Long]
      /\ threads \subseteq VocabularyThread /\ manual \in [Manual -> VocabularyManual]
    BY DEF VocabularyInv, D!TypeOK, VocabularyCell, VocabularyThread, VocabularyManual
<1>2. OneThread /\ StoresNewest
    BY DEF VocabularyInv
<1>3. D!Long \in Nat
    BY DEF D!Long
<1> DEFINE Kept == /\ up' \in BOOLEAN /\ cache' \in [Columns -> VocabularyCell]
                   /\ inFlight' \subseteq Columns /\ failure' \in [Columns -> 0 .. D!Long]
                   /\ threads' \subseteq VocabularyThread
                   /\ manual' \in [Manual -> VocabularyManual]
                   /\ OneThread' /\ StoresNewest'
<1>4. SUFFICES Kept
    BY DEF VocabularyInv, D!TypeOK, VocabularyCell, VocabularyThread, VocabularyManual, D!Long
<1>5. ASSUME NEW c \in Columns, NEW starts \in BOOLEAN, D!Look(c, starts)
      PROVE  Kept
    <2>1. threads' \subseteq threads \cup {D!Thread(c, "fetch", FALSE)}
          /\ inFlight' = inFlight \cup {c} /\ c \notin inFlight
        BY <1>5 DEF D!Look, D!Claimed
    <2>2. D!Thread(c, "fetch", FALSE) \in VocabularyThread
          /\ D!Thread(c, "fetch", FALSE).of = c /\ D!Thread(c, "fetch", FALSE).pc = "fetch"
        BY DEF D!Thread, VocabularyThread
    <2>3. UNCHANGED <<up, cache, failure, manual>>
        BY <1>5 DEF D!Look
    <2>4. OneThread'
        BY <1>2, <2>1, <2>2 DEF OneThread
    <2>5. StoresNewest'
        BY <1>2, <2>1, <2>2, <2>3 DEF StoresNewest
    <2> QED
        BY <1>1, <2>1, <2>2, <2>3, <2>4, <2>5
\* A thread that goes on stays the thread of its column.
<1>6. ASSUME NEW t \in threads, NEW u \in VocabularyThread, u.of = t.of,
             threads' = (threads \ {t}) \cup {u}, UNCHANGED inFlight
      PROVE  threads' \subseteq VocabularyThread /\ OneThread'
    BY <1>1, <1>2, <1>6 DEF OneThread
<1>7. ASSUME NEW t \in threads, D!Fetch(t)
      PROVE  Kept
    <2> DEFINE u == [t EXCEPT !.pc = IF up THEN "store" ELSE "fail", !.current = up]
    <2>1. t \in VocabularyThread
        BY <1>1
    <2>2. u \in VocabularyThread /\ u.of = t.of /\ (u.pc = "store" => u.current)
        BY <1>1, <2>1 DEF VocabularyThread
    <2>3. threads' = (threads \ {t}) \cup {u} /\ UNCHANGED <<up, cache, inFlight, failure, manual>>
        BY <1>7 DEF D!Fetch
    <2> HIDE DEF u
    <2>4. StoresNewest'
        BY <1>2, <2>2, <2>3 DEF StoresNewest
    <2> QED
        BY <1>1, <1>6, <2>2, <2>3, <2>4
<1>8. ASSUME NEW t \in threads, D!Store(t)
      PROVE  Kept
    <2> DEFINE u == [t EXCEPT !.pc = "mark"]
    <2>1. t \in VocabularyThread /\ t.of \in Columns /\ t.current \in BOOLEAN
        BY <1>1 DEF VocabularyThread
    <2>2. u \in VocabularyThread /\ u.of = t.of /\ u.pc = "mark"
        BY <2>1 DEF VocabularyThread
    <2>3. threads' = (threads \ {t}) \cup {u} /\ UNCHANGED <<up, inFlight, failure, manual>>
          /\ cache' = [cache EXCEPT ![t.of] = D!Stored(t.current, "thread")]
        BY <1>8 DEF D!Store
    <2>4. D!Stored(t.current, "thread") \in VocabularyCell
        BY <2>1 DEF D!Stored, VocabularyCell
    <2>5. cache' \in [Columns -> VocabularyCell]
        BY <1>1, <2>3, <2>4
    <2> HIDE DEF u
    <2>6. StoresNewest'
        <3> SUFFICES ASSUME NEW v \in threads', v.pc = "store", cache'[v.of].by = "thread",
                            cache'[v.of].current
                     PROVE  v.current
            BY DEF StoresNewest
        <3>1. v \in threads /\ v # t
            BY <2>2, <2>3
        <3>2. v.of # t.of /\ v.of \in Columns
            BY <1>1, <1>2, <3>1 DEF OneThread, VocabularyThread
        <3>3. cache'[v.of] = cache[v.of]
            BY <1>1, <2>3, <3>2
        <3> QED
            BY <1>2, <3>1, <3>3 DEF StoresNewest
    <2> QED
        BY <1>1, <1>6, <2>2, <2>3, <2>5, <2>6
<1>9. ASSUME NEW t \in threads, D!Mark(t)
      PROVE  Kept
    <2> DEFINE u == [t EXCEPT !.pc = "leave"]
    <2>1. t \in VocabularyThread /\ t.of \in Columns
        BY <1>1 DEF VocabularyThread
    <2>2. u \in VocabularyThread /\ u.of = t.of /\ u.pc = "leave"
        BY <2>1 DEF VocabularyThread
    <2>3. threads' = (threads \ {t}) \cup {u} /\ UNCHANGED <<up, cache, inFlight, manual>>
        BY <1>9 DEF D!Mark
    <2>4. failure' \in [Columns -> 0 .. D!Long]
        <3>1. failure' = [failure EXCEPT ![t.of] = D!Long] \/ failure' = [failure EXCEPT ![t.of] = 0]
            BY <1>9 DEF D!Mark
        <3>2. D!Long \in 0 .. D!Long /\ 0 \in 0 .. D!Long
            BY <1>3
        <3> QED
            BY <1>1, <3>1, <3>2
    <2> HIDE DEF u
    <2>5. StoresNewest'
        BY <1>2, <2>2, <2>3 DEF StoresNewest
    <2> QED
        BY <1>1, <1>6, <2>2, <2>3, <2>4, <2>5
<1>10. ASSUME NEW t \in threads, D!Leave(t)
       PROVE  Kept
    <2>1. /\ threads' = threads \ {t} /\ inFlight' = inFlight \ {t.of}
          /\ UNCHANGED <<up, cache, failure, manual>>
        BY <1>10 DEF D!Leave, D!Left
    <2>2. OneThread'
        BY <1>2, <2>1 DEF OneThread
    <2>3. StoresNewest'
        BY <1>2, <2>1 DEF StoresNewest
    <2> QED
        BY <1>1, <2>1, <2>2, <2>3
\* What the operator's threads do to a column is theirs, not a thread's.
<1>11. ASSUME NEW m \in Manual, NEW c \in Columns, D!ManualStart(m, c)
       PROVE  Kept
    <2>1. [D!Idle EXCEPT !.pc = "fetch", !.of = c] \in VocabularyManual
        BY DEF D!Idle, VocabularyManual
    <2>2. manual' \in [Manual -> VocabularyManual]
        BY <1>1, <1>11, <2>1 DEF D!ManualStart
    <2>3. UNCHANGED <<up, cache, inFlight, failure, threads>>
        BY <1>11 DEF D!ManualStart
    <2> QED
        BY <1>1, <1>2, <2>2, <2>3 DEF OneThread, StoresNewest
<1>12. ASSUME NEW m \in Manual, D!ManualFetch(m)
       PROVE  Kept
    <2>1. manual[m] \in VocabularyManual
        BY <1>1
    <2>2. manual' \in [Manual -> VocabularyManual]
        BY <1>1, <1>12, <2>1 DEF D!ManualFetch, VocabularyManual
    <2>3. UNCHANGED <<up, cache, inFlight, failure, threads>>
        BY <1>12 DEF D!ManualFetch
    <2> QED
        BY <1>1, <1>2, <2>2, <2>3 DEF OneThread, StoresNewest
<1>13. ASSUME NEW m \in Manual, D!ManualStore(m)
       PROVE  Kept
    <2>1. manual[m] \in VocabularyManual /\ manual[m].of \in Columns /\ manual[m].current \in BOOLEAN
        BY <1>1 DEF VocabularyManual
    <2>2. [manual[m] EXCEPT !.pc = "mark"] \in VocabularyManual
        BY <2>1 DEF VocabularyManual
    <2>3. manual' \in [Manual -> VocabularyManual]
        BY <1>1, <1>13, <2>2 DEF D!ManualStore
    <2>4. UNCHANGED <<up, inFlight, failure, threads>>
          /\ cache' = [cache EXCEPT ![manual[m].of] = D!Stored(manual[m].current, "manual")]
        BY <1>13 DEF D!ManualStore
    <2>5. D!Stored(manual[m].current, "manual") \in VocabularyCell
          /\ D!Stored(manual[m].current, "manual").by = "manual"
        BY <2>1 DEF D!Stored, VocabularyCell
    <2>6. cache' \in [Columns -> VocabularyCell]
        BY <1>1, <2>1, <2>4, <2>5
    <2>7. \A c \in Columns : cache'[c].by = "thread" => cache'[c] = cache[c]
        BY <1>1, <2>1, <2>4, <2>5
    <2>8. StoresNewest'
        <3> SUFFICES ASSUME NEW v \in threads, v.pc = "store", cache'[v.of].by = "thread",
                            cache'[v.of].current
                     PROVE  v.current
            BY <2>4 DEF StoresNewest
        <3>1. v.of \in Columns
            BY <1>1 DEF VocabularyThread
        <3>2. cache'[v.of] = cache[v.of]
            BY <2>7, <3>1
        <3> QED
            BY <1>2, <3>2 DEF StoresNewest
    <2>9. OneThread'
        BY <1>2, <2>4 DEF OneThread
    <2> QED
        BY <1>1, <2>3, <2>4, <2>6, <2>8, <2>9
<1>14. ASSUME NEW m \in Manual, NEW marks \in BOOLEAN, D!ManualMark(m, marks)
       PROVE  Kept
    <2>1. manual[m].of \in Columns
        BY <1>1 DEF VocabularyManual
    <2>2. (CHOOSE c \in Columns : TRUE) \in Columns
        OBVIOUS
    <2>3. D!Idle \in VocabularyManual
        BY <2>2 DEF D!Idle, VocabularyManual
    <2>4. manual' \in [Manual -> VocabularyManual]
        BY <1>1, <1>14, <2>3 DEF D!ManualMark
    <2>5. failure' \in [Columns -> 0 .. D!Long]
        <3>1. \/ failure' = [failure EXCEPT ![manual[m].of] = D!Long]
              \/ failure' = [failure EXCEPT ![manual[m].of] = 0]
              \/ failure' = failure
            BY <1>14 DEF D!ManualMark
        <3>2. D!Long \in 0 .. D!Long /\ 0 \in 0 .. D!Long
            BY <1>3
        <3> QED
            BY <1>1, <3>1, <3>2
    <2>6. UNCHANGED <<up, cache, inFlight, threads>>
        BY <1>14 DEF D!ManualMark
    <2> QED
        BY <1>1, <1>2, <2>4, <2>5, <2>6 DEF OneThread, StoresNewest
\* What the warehouse changes, no list has read.
<1>15. ASSUME D!Change
       PROVE  Kept
    <2> DEFINE Old(t) == [t EXCEPT !.current = FALSE]
    <2>1. /\ cache' = [c \in Columns |-> [cache[c] EXCEPT !.current = FALSE]]
          /\ threads' = {Old(t) : t \in threads}
          /\ manual' = [m \in Manual |-> [manual[m] EXCEPT !.current = FALSE]]
          /\ UNCHANGED <<up, inFlight, failure>>
        BY <1>15 DEF D!Change
    <2>2. \A c \in Columns : /\ [cache[c] EXCEPT !.current = FALSE] \in VocabularyCell
                             /\ ~[cache[c] EXCEPT !.current = FALSE].current
        <3> SUFFICES ASSUME NEW c \in Columns
                     PROVE  /\ [cache[c] EXCEPT !.current = FALSE] \in VocabularyCell
                            /\ ~[cache[c] EXCEPT !.current = FALSE].current
            OBVIOUS
        <3>1. cache[c] \in VocabularyCell
            BY <1>1
        <3> QED
            BY <3>1 DEF VocabularyCell
    <2>3. cache' \in [Columns -> VocabularyCell] /\ \A c \in Columns : ~cache'[c].current
        BY <2>1, <2>2
    <2>4. \A m \in Manual : [manual[m] EXCEPT !.current = FALSE] \in VocabularyManual
        <3> SUFFICES ASSUME NEW m \in Manual
                     PROVE  [manual[m] EXCEPT !.current = FALSE] \in VocabularyManual
            OBVIOUS
        <3>1. manual[m] \in VocabularyManual
            BY <1>1
        <3> QED
            BY <3>1 DEF VocabularyManual
    <2>5. manual' \in [Manual -> VocabularyManual]
        BY <2>1, <2>4
    <2>6. \A t \in threads : Old(t) \in VocabularyThread /\ Old(t).of = t.of
        BY <1>1 DEF VocabularyThread
    <2> HIDE DEF Old
    <2>7. threads' \subseteq VocabularyThread
        BY <2>1, <2>6
    <2>8. OneThread'
        BY <1>2, <2>1, <2>6 DEF OneThread
    <2>9. StoresNewest'
        BY <2>3, <2>7 DEF StoresNewest, VocabularyThread
    <2> QED
        BY <1>1, <2>1, <2>3, <2>5, <2>7, <2>8, <2>9
<1>16. ASSUME D!Outage
       PROVE  Kept
    <2>1. up' \in BOOLEAN /\ UNCHANGED <<cache, inFlight, failure, threads, manual>>
        BY <1>1, <1>16 DEF D!Outage
    <2> QED
        BY <1>1, <1>2, <2>1 DEF OneThread, StoresNewest
<1>17. ASSUME D!Tick
       PROVE  Kept
    <2>1. UNCHANGED <<up, inFlight, threads, manual>>
        BY <1>17 DEF D!Tick
    <2>2. failure' \in [Columns -> 0 .. D!Long]
        <3>1. \A c \in Columns : D!Next1(failure[c], D!Long) \in 0 .. D!Long
            BY <1>1, <1>3 DEF D!Next1
        <3> QED
            BY <1>17, <3>1 DEF D!Tick
    <2> DEFINE Older(c) == [cache[c] EXCEPT !.age = D!Next1(@, Ttl + 1)]
    <2>3. \A c \in Columns : /\ Older(c) \in VocabularyCell
                             /\ Older(c).by = cache[c].by /\ Older(c).current = cache[c].current
        <3> SUFFICES ASSUME NEW c \in Columns
                     PROVE  /\ Older(c) \in VocabularyCell
                            /\ Older(c).by = cache[c].by /\ Older(c).current = cache[c].current
            OBVIOUS
        <3>1. cache[c] \in VocabularyCell
            BY <1>1
        <3>2. cache[c].age \in 0 .. Ttl + 1
            BY <3>1 DEF VocabularyCell
        <3>3. D!Next1(cache[c].age, Ttl + 1) \in 0 .. Ttl + 1
            BY <3>2 DEF D!Next1
        <3> QED
            BY <3>1, <3>3 DEF VocabularyCell
    <2>4. cache' = [c \in Columns |-> IF cache[c].is THEN Older(c) ELSE cache[c]]
        BY <1>17 DEF D!Tick
    <2> HIDE DEF Older
    <2>5. /\ cache' \in [Columns -> VocabularyCell]
          /\ \A c \in Columns : cache'[c].by = cache[c].by /\ cache'[c].current = cache[c].current
        BY <1>1, <2>3, <2>4
    <2>6. StoresNewest'
        BY <1>1, <1>2, <2>1, <2>5 DEF StoresNewest, VocabularyThread
    <2>7. OneThread'
        BY <1>2, <2>1 DEF OneThread
    <2> QED
        BY <1>1, <2>1, <2>2, <2>5, <2>6, <2>7
<1>18. ASSUME UNCHANGED D!vars
       PROVE  Kept
    BY <1>1, <1>2, <1>18 DEF D!vars, OneThread, StoresNewest
<1>19. CASE D!Next
    <2>1. ASSUME NEW c \in Columns, D!Background(c)
          PROVE  Kept
        BY <1>7, <1>8, <1>9, <1>10, <2>1 DEF D!Background
    <2>2. ASSUME NEW m \in Manual, D!ManualFetch(m) \/ D!ManualStore(m)
                                   \/ \E marks \in BOOLEAN : D!ManualMark(m, marks)
          PROVE  Kept
        BY <1>12, <1>13, <1>14, <2>2
    <2> HIDE DEF Kept
    <2> QED
        BY <1>5, <1>11, <1>15, <1>16, <1>17, <1>19, <2>1, <2>2 DEF D!Next
<1> QED
    BY <1>18, <1>19

LEMMA VocabularyInvariance == D!Spec => []VocabularyInv
<1> QED
    BY VocabularyBegins, VocabularyStep, PTL DEF D!Spec

\* A background refresh that was slow never puts an older list over the newer
\* one of another background refresh (_in_flight).
THEOREM VocabularyIsSound == D!Spec => VocabularySound
<1>1. VocabularyInv =>
        [\A t \in threads : (t.pc = "store" /\ t \notin threads' /\ cache[t.of].by = "thread") =>
            (cache[t.of].current => t.current)]_D!vars
    BY DEF VocabularyInv, StoresNewest
<1> QED
    BY <1>1, VocabularyInvariance, PTL DEF VocabularySound, D!NewestKept

(***************************************************************************)
(* The keep-warm, for any sources, interval, budget and number of restarts *)
(* of it.  One thread sends because whoever is in a pass holds the lock;   *)
(* a prefix stays warm because the pass of the one keep-warm that runs     *)
(* comes to every source, and what it skips was used just now.             *)
(***************************************************************************)
WarmPcs == {"new", "waiting", "setup", "next", "chosen", "calling", "ended"}
InPass == {"setup", "next", "chosen", "calling"}
WarmRecord == [pc : WarmPcs, timer : 0 .. Interval, todo : Seq(K!Names), left : 0 .. Budget,
               stop : BOOLEAN]

\* What is left of a pass.
Rests(todo) == \E i \in 1 .. Len(Sources) + 1 : todo = SubSeq(Sources, i, Len(Sources))

WarmType ==
    /\ idle \in [K!Names -> 0 .. Interval + 1]
    /\ lapse \in [K!Names -> 0 .. K!Longest]
    /\ lock \in K!Threads \cup {K!Nobody} /\ current \in Keepers \cup {K!Nobody}
    /\ thread \in [K!Threads -> WarmRecord] /\ paused \in BOOLEAN
    /\ late \in [K!Threads -> {0, 1}]

\* How long source s may have gone without a use when a running keep-warm is
\* where r says: twice the interval and the budget until the pass comes to it.
Limit(r, s) ==
    IF r.pc = "waiting" THEN Interval + Budget + r.timer
    ELSE IF r.pc = "setup" THEN 2 * Interval + Budget
    ELSE (IF s \in Elements(r.todo) THEN 2 * Interval + Budget ELSE Interval) + (Budget - r.left)

ThreadOk(t) ==
    /\ Rests(thread[t].todo)
    /\ thread[t].pc \in {"chosen", "calling"} => thread[t].todo # <<>>
    /\ lock = t <=> thread[t].pc \in InPass
    /\ late[t] # 0 => thread[t].stop /\ thread[t].pc # "chosen" /\ Sources # <<>>
    /\ t = K!Startup => ~thread[t].stop
    /\ (t \in Keepers /\ K!Running(t)) =>
        current = t /\ \A s \in K!Names : lapse[s] < Limit(thread[t], s)

\* A source went without a use for no longer than its prefix was idle.
IdleInv == \A s \in K!Names : lapse[s] <= idle[s] \/ idle[s] = Interval + 1

WarmInv == WarmType /\ IdleInv /\ K!WarmKept /\ \A t \in K!Threads : ThreadOk(t)

LEMMA WarmFacts ==
    /\ Interval \in Nat \ {0} /\ Budget \in Nat /\ Sources \in Seq(K!Names)
    /\ Len(Sources) \in Nat /\ K!Longest = 2 * Interval + 2 * Budget /\ K!Longest \in Nat
    /\ K!Threads = Keepers \cup {K!Startup} /\ K!Startup \notin Keepers
    /\ K!Nobody \notin K!Threads
<1>1. K!Nobody # K!Startup
    BY DEF K!Nobody, K!Startup
<1> QED
    BY <1>1, WarmConfigured, LenProperties DEF K!Configured, K!Longest, K!Threads

LEMMA RestFacts ==
    ASSUME NEW todo, Rests(todo)
    PROVE  /\ todo \in Seq(K!Names) /\ Elements(todo) \subseteq K!Names
           /\ todo # <<>> => /\ Head(todo) \in K!Names /\ Rests(Tail(todo)) /\ Sources # <<>>
                             /\ Tail(todo) \in Seq(K!Names)
                             /\ \A s \in Elements(todo) : s = Head(todo) \/ s \in Elements(Tail(todo))
<1>1. PICK i \in 1 .. Len(Sources) + 1 : todo = SubSeq(Sources, i, Len(Sources))
    BY DEF Rests
<1>2. /\ Sources \in Seq(K!Names) /\ Len(Sources) \in Nat /\ i \in Nat
      /\ \A j \in 1 .. Len(Sources) : Sources[j] \in K!Names
    BY WarmFacts, ElementOfSeq, <1>1
<1>3. /\ todo \in Seq(K!Names)
      /\ Len(todo) = IF i <= Len(Sources) THEN Len(Sources) - i + 1 ELSE 0
    <2>1. \A j \in i .. Len(Sources) : Sources[j] \in K!Names
        BY <1>1, <1>2
    <2> QED
        BY <1>1, <1>2, <2>1, SubSeqProperties
<1>4. Elements(todo) \subseteq K!Names
    BY <1>3, LenProperties, ElementOfSeq DEF Elements
<1>5. ASSUME todo # <<>>
      PROVE  /\ Head(todo) \in K!Names /\ Rests(Tail(todo)) /\ Sources # <<>>
             /\ Tail(todo) \in Seq(K!Names)
             /\ \A s \in Elements(todo) : s = Head(todo) \/ s \in Elements(Tail(todo))
    <2>1. i \in 1 .. Len(Sources) /\ Len(Sources) \in i .. Len(Sources)
        <3>1. Len(todo) \in Nat \ {0}
            BY <1>3, <1>5, EmptySeq
        <3> QED
            BY <1>1, <1>2, <1>3, <3>1
    <2>2. Tail(todo) = SubSeq(Sources, i + 1, Len(Sources))
        BY <1>1, <1>2, <2>1, HeadTailOfSubSeq
    <2>3. Rests(Tail(todo))
        <3>1. i + 1 \in 1 .. Len(Sources) + 1
            BY <1>2, <2>1
        <3> QED
            BY <2>2, <3>1, Zenon DEF Rests
    <2>4. /\ Head(todo) \in K!Names /\ Tail(todo) \in Seq(K!Names)
          /\ Len(Tail(todo)) = Len(todo) - 1
          /\ \A j \in 1 .. Len(Tail(todo)) : Tail(todo)[j] = todo[j + 1]
        BY <1>3, <1>5, HeadTailProperties
    <2>5. Sources # <<>>
        BY <1>2, <2>1, EmptySeq
    <2>6. ASSUME NEW s \in Elements(todo)
          PROVE  s = Head(todo) \/ s \in Elements(Tail(todo))
        <3>1. PICK j \in 1 .. Len(todo) : s = todo[j]
            BY <1>3, LenProperties DEF Elements
        <3>2. CASE j = 1
            BY <3>1, <3>2, <1>3
        <3>3. CASE j # 1
            <4>1. j - 1 \in 1 .. Len(Tail(todo)) /\ (j - 1) + 1 = j /\ Len(todo) \in Nat
                BY <1>3, <2>4, <3>1, <3>3, LenProperties
            <4>2. Tail(todo)[j - 1] = s /\ j - 1 \in DOMAIN Tail(todo)
                BY <2>4, <3>1, <4>1, LenProperties
            <4> QED
                BY <4>2 DEF Elements
        <3> QED
            BY <3>2, <3>3
    <2> QED
        BY <2>3, <2>4, <2>5, <2>6
<1> QED
    BY <1>3, <1>4, <1>5

LEMMA AllSourcesRest == Rests(Sources) /\ K!Names \subseteq Elements(Sources) /\ Rests(<<>>)
<1>1. Sources \in Seq(K!Names) /\ Len(Sources) \in Nat
    BY WarmFacts
<1>2. Rests(Sources)
    <2>1. SubSeq(Sources, 1, Len(Sources)) = Sources
        BY <1>1, SubSeqFull
    <2>2. 1 \in 1 .. Len(Sources) + 1
        BY <1>1
    <2> QED
        BY <2>1, <2>2, Zenon DEF Rests
<1>3. Rests(<<>>)
    <2>1. SubSeq(Sources, Len(Sources) + 1, Len(Sources)) = <<>>
        BY <1>1, SubSeqEmpty
    <2>2. Len(Sources) + 1 \in 1 .. Len(Sources) + 1
        BY <1>1
    <2> QED
        BY <2>1, <2>2, Zenon DEF Rests
<1> QED
    BY <1>2, <1>3 DEF K!Names, Elements

LEMMA WarmBegins == K!Init => WarmInv
<1> SUFFICES ASSUME K!Init PROVE WarmInv
    OBVIOUS
<1> USE DEF K!Init
<1>1. K!New \in WarmRecord
    BY WarmFacts, EmptySeq DEF K!New, WarmRecord, WarmPcs
<1>2. WarmType
    <2>1. thread \in [K!Threads -> WarmRecord]
        BY <1>1
    <2>2. idle \in [K!Names -> 0 .. Interval + 1] /\ lapse \in [K!Names -> 0 .. K!Longest]
        BY WarmFacts
    <2> QED
        BY <2>1, <2>2 DEF WarmType
<1>3. IdleInv /\ K!WarmKept
    BY WarmFacts DEF IdleInv, K!WarmKept
<1>4. ASSUME NEW t \in K!Threads
      PROVE  ThreadOk(t)
    <2>1. thread[t] = K!New /\ lock # t /\ late[t] = 0
        BY WarmFacts
    <2> QED
        BY <2>1, AllSourcesRest DEF ThreadOk, K!New, InPass, K!Running
<1> QED
    BY <1>2, <1>3, <1>4 DEF WarmInv

LEMMA LimitIsNat == \A r \in WarmRecord, s \in K!Names :
    Limit(r, s) \in Nat /\ Limit(r, s) <= K!Longest
<1> SUFFICES ASSUME NEW r \in WarmRecord, NEW s \in K!Names
             PROVE  Limit(r, s) \in Nat /\ Limit(r, s) <= K!Longest
    OBVIOUS
<1>1. r.timer \in 0 .. Interval /\ r.left \in 0 .. Budget
    BY DEF WarmRecord
<1> QED
    BY <1>1, WarmFacts DEF Limit

LEMMA ZeroFacts ==
    ASSUME WarmInv, NEW names
    PROVE  /\ K!Zero(lapse, names) \in [K!Names -> 0 .. K!Longest]
           /\ K!Zero(idle, names) \in [K!Names -> 0 .. Interval + 1]
           /\ \A s \in K!Names :
                /\ K!Zero(lapse, names)[s] = (IF s \in names THEN 0 ELSE lapse[s])
                /\ K!Zero(lapse, names)[s] <= lapse[s]
                /\ K!Zero(idle, names)[s] = (IF s \in names THEN 0 ELSE idle[s])
<1>1. lapse \in [K!Names -> 0 .. K!Longest] /\ idle \in [K!Names -> 0 .. Interval + 1]
    BY DEF WarmInv, WarmType
<1> QED
    BY <1>1, WarmFacts DEF K!Zero

\* A thread that does not move stays right while the lapses do not grow.
LEMMA OthersStay ==
    ASSUME WarmInv, NEW u \in K!Threads, thread'[u] = thread[u], late'[u] = late[u],
           lock' = u <=> lock = u, current = u => current' = u,
           \A s \in K!Names : lapse'[s] \in Nat /\ lapse'[s] <= lapse[s]
    PROVE  ThreadOk(u)'
<1>1. ThreadOk(u)
    BY DEF WarmInv
<1>2. thread[u] \in WarmRecord /\ \A s \in K!Names : lapse[s] \in Nat
    BY WarmFacts DEF WarmInv, WarmType
<1>3. \A s \in K!Names : lapse[s] < Limit(thread[u], s) => lapse'[s] < Limit(thread[u], s)
    BY <1>2, LimitIsNat
<1> QED
    BY <1>1, <1>3 DEF ThreadOk, K!Running

LEMMA IdleStays ==
    ASSUME WarmInv, idle' \in [K!Names -> 0 .. Interval + 1],
           \A s \in K!Names : lapse'[s] \in Nat /\ lapse'[s] <= lapse[s],
           \A s \in K!Names : lapse'[s] = 0 \/ idle'[s] = idle[s]
    PROVE  IdleInv' /\ K!WarmKept'
<1>1. \A s \in K!Names : lapse[s] \in Nat /\ idle[s] \in Nat /\ idle'[s] \in Nat
    BY WarmFacts DEF WarmInv, WarmType
<1>2. \A s \in K!Names : /\ lapse[s] <= idle[s] \/ idle[s] = Interval + 1
                         /\ lapse[s] < K!Longest
    BY DEF WarmInv, IdleInv, K!WarmKept
<1>3. ASSUME NEW s \in K!Names
      PROVE  (lapse'[s] <= idle'[s] \/ idle'[s] = Interval + 1) /\ lapse'[s] < K!Longest
    BY <1>1, <1>2, WarmFacts
<1> QED
    BY <1>3 DEF IdleInv, K!WarmKept

\* What a step of one thread may do to the rest.
UsesOnly(t) ==
    /\ UNCHANGED <<current, paused>>
    /\ lapse' \in [K!Names -> 0 .. K!Longest] /\ idle' \in [K!Names -> 0 .. Interval + 1]
    /\ \A s \in K!Names : lapse'[s] <= lapse[s] /\ (lapse'[s] = 0 \/ idle'[s] = idle[s])
    /\ lock' = lock \/ (lock \in {t, K!Nobody} /\ lock' \in {t, K!Nobody})
    /\ late' \in [K!Threads -> {0, 1}] /\ \A u \in K!Threads \ {t} : late'[u] = late[u]

\* A step of one thread.
LEMMA OneMoves ==
    ASSUME WarmInv, NEW t \in K!Threads, NEW r \in WarmRecord,
           thread' = [thread EXCEPT ![t] = r], UsesOnly(t), ThreadOk(t)'
    PROVE  WarmInv'
<1>1. \A s \in K!Names : lapse'[s] \in Nat
    BY WarmFacts DEF UsesOnly
<1>2. IdleInv' /\ K!WarmKept'
    BY <1>1, IdleStays DEF UsesOnly
<1>3. WarmType'
    <2>1. thread' \in [K!Threads -> WarmRecord]
        BY DEF WarmInv, WarmType
    <2>2. lock' \in K!Threads \cup {K!Nobody}
        BY DEF WarmInv, WarmType, UsesOnly
    <2> QED
        BY <2>1, <2>2 DEF WarmInv, WarmType, UsesOnly
<1>4. ASSUME NEW u \in K!Threads
      PROVE  ThreadOk(u)'
    <2>1. CASE u = t
        BY <2>1
    <2>2. CASE u # t
        <3>1. thread'[u] = thread[u] /\ late'[u] = late[u] /\ current' = current
            BY <2>2 DEF WarmInv, WarmType, UsesOnly
        <3>2. lock' = u <=> lock = u
            BY <2>2, WarmFacts DEF UsesOnly
        <3>3. \A s \in K!Names : lapse'[s] \in Nat /\ lapse'[s] <= lapse[s]
            BY <1>1 DEF UsesOnly
        <3> QED
            BY <3>1, <3>2, <3>3, OthersStay
    <2> QED
        BY <2>1, <2>2
<1> QED
    BY <1>2, <1>3, <1>4 DEF WarmInv

\* The end of a pass is right whenever the source it leaves longest may wait an
\* interval and a budget.
LEMMA RestIsOk ==
    ASSUME WarmInv, NEW t \in K!Threads, thread' = [thread EXCEPT ![t] = K!Rest(t)],
           lock' # t, late' = late, current' = current, thread[t].pc \in {"waiting", "setup", "next"},
           (t \in Keepers /\ K!Running(t)) =>
                \A s \in K!Names : lapse'[s] \in Nat /\ lapse'[s] < Interval + Budget
    PROVE  ThreadOk(t)' /\ K!Rest(t) \in WarmRecord
<1>1. thread[t] \in WarmRecord /\ ThreadOk(t)
    BY DEF WarmInv, WarmType
<1>2. K!Rest(t) \in WarmRecord
    <2>1. [thread[t] EXCEPT !.pc = "ended"] \in WarmRecord
        BY <1>1 DEF WarmRecord, WarmPcs
    <2>2. 0 \in 0 .. Interval
        BY WarmFacts
    <2>3. [thread[t] EXCEPT !.pc = "waiting", !.timer = 0] \in WarmRecord
        BY <1>1, <2>2 DEF WarmRecord, WarmPcs
    <2> QED
        BY <2>1, <2>3 DEF K!Rest
<1>3. thread'[t] = K!Rest(t)
    BY DEF WarmInv, WarmType
<1>4. /\ K!Rest(t).todo = thread[t].todo /\ K!Rest(t).stop = thread[t].stop
      /\ K!Rest(t).pc = (IF t = K!Startup THEN "ended" ELSE "waiting")
      /\ t # K!Startup => K!Rest(t).timer = 0
    BY <1>1 DEF K!Rest, WarmRecord
<1>5. ASSUME t \in Keepers, K!Running(t)'
      PROVE  current' = t /\ \A s \in K!Names : lapse'[s] < Limit(thread'[t], s)
    <2>1. K!Running(t)
        BY <1>3, <1>4, <1>5 DEF K!Running
    <2>2. current = t
        BY <1>1, <1>5, <2>1 DEF ThreadOk
    <2>3. \A s \in K!Names : lapse'[s] \in Nat /\ lapse'[s] < Interval + Budget
        BY <1>5, <2>1
    <2>4. t # K!Startup
        BY <1>5, WarmFacts
    <2> QED
        BY <1>3, <1>4, <2>2, <2>3, <2>4, WarmFacts DEF Limit
<1> QED
    BY <1>1, <1>2, <1>3, <1>4, <1>5 DEF ThreadOk, InPass, K!Running

LEMMA WakeStep == ASSUME WarmInv, NEW t \in K!Threads, K!Wake(t) PROVE WarmInv'
<1>1. thread[t] \in WarmRecord /\ ThreadOk(t) /\ thread[t].pc = "waiting"
    BY DEF WarmInv, WarmType, K!Wake
<1>2. UNCHANGED <<idle, current, paused, late>> /\ late \in [K!Threads -> {0, 1}]
      /\ idle \in [K!Names -> 0 .. Interval + 1] /\ lapse \in [K!Names -> 0 .. K!Longest]
      /\ \A s \in K!Names : lapse[s] \in Nat
    BY WarmFacts DEF K!Wake, WarmInv, WarmType
<1>3. lock # t
    BY <1>1 DEF ThreadOk, InPass
<1>4. CASE K!Ends(t)
    <2> DEFINE r == [thread[t] EXCEPT !.pc = "ended"]
    <2>1. thread' = [thread EXCEPT ![t] = r] /\ UNCHANGED <<lapse, lock>>
        BY <1>4 DEF K!Wake
    <2>2. r \in WarmRecord /\ r.pc = "ended" /\ r.todo = thread[t].todo /\ r.stop = thread[t].stop
        BY <1>1 DEF WarmRecord, WarmPcs
    <2>3. thread'[t] = r
        BY <2>1 DEF WarmInv, WarmType
    <2> HIDE DEF r
    <2>4. ThreadOk(t)'
        BY <1>1, <1>2, <2>1, <2>2, <2>3 DEF ThreadOk, K!Running, InPass
    <2>5. UsesOnly(t)
        BY <1>2, <2>1 DEF UsesOnly
    <2> QED
        BY <2>1, <2>2, <2>4, <2>5, OneMoves
<1>5. CASE ~K!Ends(t) /\ (paused \/ ~K!LockFree)
    <2>1. thread' = [thread EXCEPT ![t] = K!Rest(t)] /\ UNCHANGED lock
          /\ lapse' = K!Zero(lapse, K!Names)
        BY <1>5 DEF K!Wake
    <2>2. /\ lapse' \in [K!Names -> 0 .. K!Longest]
          /\ \A s \in K!Names : lapse'[s] <= lapse[s] /\ lapse'[s] = 0
        BY <2>1, ZeroFacts
    <2>3. \A s \in K!Names : lapse'[s] \in Nat /\ lapse'[s] < Interval + Budget
        BY <2>2, WarmFacts
    <2>4. ThreadOk(t)' /\ K!Rest(t) \in WarmRecord
        BY <1>1, <1>2, <1>3, <2>1, <2>3, RestIsOk
    <2>5. UsesOnly(t)
        BY <1>2, <2>1, <2>2 DEF UsesOnly
    <2> QED
        BY <2>1, <2>4, <2>5, OneMoves
<1>6. CASE ~K!Ends(t) /\ ~paused /\ K!LockFree
    <2> DEFINE r == [thread[t] EXCEPT !.pc = "setup"]
    <2>1. thread' = [thread EXCEPT ![t] = r] /\ lock' = t /\ UNCHANGED lapse
          /\ lock = K!Nobody /\ thread[t].timer = Interval
        BY <1>6 DEF K!Wake, K!LockFree
    <2>2. /\ r \in WarmRecord /\ r.pc = "setup" /\ r.todo = thread[t].todo
          /\ r.stop = thread[t].stop
        BY <1>1 DEF WarmRecord, WarmPcs
    <2>3. thread'[t] = r
        BY <2>1 DEF WarmInv, WarmType
    <2> HIDE DEF r
    <2>4. ASSUME t \in Keepers, K!Running(t)'
          PROVE  current' = t /\ \A s \in K!Names : lapse'[s] < Limit(r, s)
        <3>1. K!Running(t)
            BY <1>1, <2>2, <2>3, <2>4 DEF K!Running
        <3>2. current = t /\ \A s \in K!Names : lapse[s] < Limit(thread[t], s)
            BY <1>1, <2>4, <3>1 DEF ThreadOk
        <3>3. \A s \in K!Names : Limit(r, s) = Limit(thread[t], s)
            BY <1>1, <2>1, <2>2, WarmFacts DEF Limit
        <3> QED
            BY <1>2, <2>1, <3>2, <3>3
    <2>5. ThreadOk(t)'
        BY <1>1, <1>2, <2>1, <2>2, <2>3, <2>4 DEF ThreadOk, InPass
    <2>6. UsesOnly(t)
        BY <1>2, <2>1 DEF UsesOnly
    <2> QED
        BY <2>1, <2>2, <2>5, <2>6, OneMoves
<1> QED
    BY <1>4, <1>5, <1>6

LEMMA SetUpStep ==
    ASSUME WarmInv, NEW t \in K!Threads, NEW ok \in BOOLEAN, K!SetUp(t, ok)
    PROVE  WarmInv'
<1>1. thread[t] \in WarmRecord /\ ThreadOk(t) /\ thread[t].pc = "setup" /\ lock = t
    BY DEF WarmInv, WarmType, K!SetUp, ThreadOk, InPass
<1>2. UNCHANGED <<idle, current, paused, late>> /\ late \in [K!Threads -> {0, 1}]
      /\ idle \in [K!Names -> 0 .. Interval + 1] /\ lapse \in [K!Names -> 0 .. K!Longest]
      /\ \A s \in K!Names : lapse[s] \in Nat
    BY WarmFacts DEF K!SetUp, WarmInv, WarmType
<1>3. CASE ok
    <2> DEFINE r == [thread[t] EXCEPT !.pc = "next", !.todo = Sources, !.left = Budget]
    <2>1. thread' = [thread EXCEPT ![t] = r] /\ UNCHANGED <<lock, lapse>>
        BY <1>3 DEF K!SetUp
    <2>0. Budget \in 0 .. Budget /\ Sources \in Seq(K!Names)
        BY WarmFacts
    <2>2. /\ r \in WarmRecord /\ r.pc = "next" /\ r.todo = Sources /\ r.left = Budget
          /\ r.stop = thread[t].stop
        BY <1>1, <2>0 DEF WarmRecord, WarmPcs
    <2>3. thread'[t] = r
        BY <2>1 DEF WarmInv, WarmType
    <2> HIDE DEF r
    <2>4. ASSUME t \in Keepers, K!Running(t)'
          PROVE  current' = t /\ \A s \in K!Names : lapse'[s] < Limit(r, s)
        <3>1. K!Running(t)
            BY <1>1, <2>2, <2>3, <2>4 DEF K!Running
        <3>2. current = t /\ \A s \in K!Names : lapse[s] < Limit(thread[t], s)
            BY <1>1, <2>4, <3>1 DEF ThreadOk
        <3>3. \A s \in K!Names : Limit(r, s) = Limit(thread[t], s)
            BY <1>1, <2>2, WarmFacts, AllSourcesRest DEF Limit
        <3> QED
            BY <1>2, <2>1, <3>2, <3>3
    <2>5. ThreadOk(t)'
        BY <1>1, <1>2, <2>1, <2>2, <2>3, <2>4, AllSourcesRest DEF ThreadOk, InPass
    <2>6. UsesOnly(t)
        BY <1>2, <2>1 DEF UsesOnly
    <2> QED
        BY <2>1, <2>2, <2>5, <2>6, OneMoves
<1>4. CASE ~ok
    <2>1. thread' = [thread EXCEPT ![t] = K!Rest(t)] /\ lock' = K!Nobody
          /\ lapse' = IF t = K!Startup THEN lapse ELSE K!Zero(lapse, K!Names)
        BY <1>4 DEF K!SetUp, K!Freed
    <2>2. /\ lapse' \in [K!Names -> 0 .. K!Longest]
          /\ \A s \in K!Names : lapse'[s] <= lapse[s] /\ (t # K!Startup => lapse'[s] = 0)
        BY <1>2, <2>1, ZeroFacts
    <2>3. t \in Keepers => \A s \in K!Names : lapse'[s] \in Nat /\ lapse'[s] < Interval + Budget
        BY <2>2, WarmFacts
    <2>4. lock' # t
        BY <2>1, WarmFacts
    <2>5. ThreadOk(t)' /\ K!Rest(t) \in WarmRecord
        BY <1>1, <1>2, <2>1, <2>3, <2>4, RestIsOk
    <2>6. UsesOnly(t)
        BY <1>1, <1>2, <2>1, <2>2 DEF UsesOnly
    <2> QED
        BY <2>1, <2>5, <2>6, OneMoves
<1> QED
    BY <1>3, <1>4

\* A source that is skipped without being missed was used within the interval.
LEMMA NextSourceStep == ASSUME WarmInv, NEW t \in K!Threads, K!NextSource(t) PROVE WarmInv'
<1> DEFINE todo == thread[t].todo
           s0 == Head(todo)
           over == [thread[t] EXCEPT !.todo = Tail(@)]
           asks == [thread[t] EXCEPT !.pc = "chosen"]
           missed == K!Cancelled(t) \/ thread[t].left = 0
<1>1. thread[t] \in WarmRecord /\ ThreadOk(t) /\ thread[t].pc = "next" /\ lock = t
    BY DEF WarmInv, WarmType, K!NextSource, ThreadOk, InPass
<1>2. UNCHANGED <<idle, current, paused, late>> /\ late \in [K!Threads -> {0, 1}]
      /\ idle \in [K!Names -> 0 .. Interval + 1] /\ lapse \in [K!Names -> 0 .. K!Longest]
      /\ \A s \in K!Names : lapse[s] \in Nat
    BY WarmFacts DEF K!NextSource, WarmInv, WarmType
<1>3. Rests(todo) /\ thread[t].left \in 0 .. Budget
    BY <1>1 DEF ThreadOk, WarmRecord
<1>4. CASE todo = <<>>
    <2>1. thread' = [thread EXCEPT ![t] = K!Rest(t)] /\ lock' = K!Nobody /\ UNCHANGED lapse
        BY <1>4 DEF K!NextSource, K!Freed
    <2>2. ASSUME t \in Keepers, K!Running(t)
          PROVE  \A s \in K!Names : lapse'[s] \in Nat /\ lapse'[s] < Interval + Budget
        <3>1. Elements(todo) = {}
            BY <1>4 DEF Elements
        <3>2. \A s \in K!Names : lapse[s] < Interval + (Budget - thread[t].left)
            BY <1>1, <2>2, <3>1 DEF ThreadOk, Limit
        <3> QED
            BY <1>2, <1>3, <2>1, <3>2, WarmFacts
    <2>3. lock' # t
        BY <2>1, WarmFacts
    <2>4. ThreadOk(t)' /\ K!Rest(t) \in WarmRecord
        BY <1>1, <1>2, <2>1, <2>2, <2>3, RestIsOk
    <2>5. UsesOnly(t)
        BY <1>1, <1>2, <2>1 DEF UsesOnly
    <2> QED
        BY <2>1, <2>4, <2>5, OneMoves
<1>5. CASE todo # <<>> /\ (missed \/ K!UsedRecently(t, s0))
    <2>1. /\ s0 \in K!Names /\ Rests(Tail(todo)) /\ Tail(todo) \in Seq(K!Names)
          /\ \A s \in Elements(todo) : s = s0 \/ s \in Elements(Tail(todo))
        BY <1>3, <1>5, RestFacts
    <2>2. /\ thread' = [thread EXCEPT ![t].todo = Tail(@)] /\ UNCHANGED lock
          /\ lapse' = IF missed THEN K!Zero(lapse, {s0}) ELSE lapse
        BY <1>5 DEF K!NextSource
    <2>3. thread' = [thread EXCEPT ![t] = over] /\ thread'[t] = over
        BY <2>2 DEF WarmInv, WarmType
    <2>4. /\ over \in WarmRecord /\ over.pc = "next" /\ over.todo = Tail(todo)
          /\ over.stop = thread[t].stop /\ over.left = thread[t].left
        BY <1>1, <2>1 DEF WarmRecord, WarmPcs
    <2>5. /\ lapse' \in [K!Names -> 0 .. K!Longest]
          /\ \A s \in K!Names : lapse'[s] <= lapse[s] /\ lapse'[s] \in Nat
          /\ missed => lapse'[s0] = 0
        <3>1. CASE missed
            <4>1. lapse' = K!Zero(lapse, {s0})
                BY <2>2, <3>1
            <4>2. /\ lapse' \in [K!Names -> 0 .. K!Longest]
                  /\ \A s \in K!Names : /\ lapse'[s] <= lapse[s]
                                        /\ lapse'[s] = (IF s \in {s0} THEN 0 ELSE lapse[s])
                BY <4>1, ZeroFacts
            <4> QED
                BY <1>2, <2>1, <4>2
        <3>2. CASE ~missed
            BY <1>2, <2>2, <3>2
        <3> QED
            BY <3>1, <3>2
    <2> HIDE DEF over, missed
    <2>6. ASSUME t \in Keepers, K!Running(t)'
          PROVE  current' = t /\ \A s \in K!Names : lapse'[s] < Limit(over, s)
        <3>1. K!Running(t) /\ current = t /\ \A s \in K!Names : lapse[s] < Limit(thread[t], s)
            BY <1>1, <2>3, <2>4, <2>6 DEF K!Running, ThreadOk
        <3>2. lapse'[s0] < Interval
            <4>1. CASE missed
                BY <2>5, <4>1, WarmFacts
            <4>2. CASE K!UsedRecently(t, s0)
                <5>1. idle[s0] < Interval /\ idle[s0] \in Nat
                    BY <1>2, <2>1, <4>2, WarmFacts DEF K!UsedRecently
                <5>2. lapse[s0] <= idle[s0]
                    BY <2>1, <5>1, WarmFacts DEF WarmInv, IdleInv
                <5>3. lapse'[s0] <= lapse[s0] /\ lapse'[s0] \in Nat /\ lapse[s0] \in Nat
                    BY <1>2, <2>1, <2>5
                <5> HIDE DEF s0
                <5> QED
                    BY <5>1, <5>2, <5>3, WarmFacts
            <4> QED
                BY <1>5, <4>1, <4>2
        <3>3. ASSUME NEW s \in K!Names
              PROVE  lapse'[s] < Limit(over, s)
            <4>1. CASE s = s0
                <5>1. Limit(over, s) >= Interval
                    BY <1>3, <2>4, WarmFacts DEF Limit
                <5> QED
                    BY <2>1, <2>4, <2>5, <3>2, <4>1, <5>1, LimitIsNat, WarmFacts
            <4>2. CASE s # s0
                <5>1. s \in Elements(todo) => s \in Elements(over.todo)
                    BY <2>1, <2>4, <4>2
                <5>2. /\ Limit(over, s) = (IF s \in Elements(over.todo) THEN 2 * Interval + Budget
                                         ELSE Interval) + (Budget - thread[t].left)
                      /\ Limit(thread[t], s) = (IF s \in Elements(todo) THEN 2 * Interval + Budget
                                              ELSE Interval) + (Budget - thread[t].left)
                    BY <1>1, <2>4 DEF Limit
                <5>3. Limit(over, s) >= Limit(thread[t], s)
                    BY <1>3, <5>1, <5>2, WarmFacts
                <5>4. Limit(over, s) \in Nat /\ Limit(thread[t], s) \in Nat
                    BY <1>1, <2>4, LimitIsNat
                <5> QED
                    BY <1>2, <2>5, <3>1, <5>3, <5>4
            <4> QED
                BY <4>1, <4>2
        <3> QED
            BY <1>2, <3>1, <3>3
    <2>7. ThreadOk(t)'
        BY <1>1, <1>2, <2>1, <2>2, <2>3, <2>4, <2>6 DEF ThreadOk, InPass
    <2>8. UsesOnly(t)
        BY <1>2, <2>2, <2>5 DEF UsesOnly
    <2> QED
        BY <2>3, <2>4, <2>7, <2>8, OneMoves
<1>6. CASE todo # <<>> /\ ~missed /\ ~K!UsedRecently(t, s0)
    <2>1. thread' = [thread EXCEPT ![t] = asks] /\ UNCHANGED <<lock, lapse>>
        BY <1>6 DEF K!NextSource
    <2>2. /\ asks \in WarmRecord /\ asks.pc = "chosen" /\ asks.todo = todo
          /\ asks.stop = thread[t].stop /\ asks.left = thread[t].left
        BY <1>1 DEF WarmRecord, WarmPcs
    <2>3. thread'[t] = asks
        BY <2>1 DEF WarmInv, WarmType
    \* What was cancelled is not chosen any more.
    <2>4. ~thread[t].stop
        BY <1>1, <1>6 DEF K!Cancelled, ThreadOk
    <2> HIDE DEF asks
    <2>5. \A s \in K!Names : Limit(asks, s) = Limit(thread[t], s)
        BY <1>1, <2>2 DEF Limit
    <2>6. ThreadOk(t)'
        BY <1>1, <1>2, <1>6, <2>1, <2>2, <2>3, <2>4, <2>5 DEF ThreadOk, InPass, K!Running
    <2>7. UsesOnly(t)
        BY <1>2, <2>1 DEF UsesOnly
    <2> QED
        BY <2>1, <2>2, <2>6, <2>7, OneMoves
<1> QED
    BY <1>4, <1>5, <1>6

LEMMA SendStep == ASSUME WarmInv, NEW t \in K!Threads, K!Send(t) PROVE WarmInv'
<1> DEFINE r == [thread[t] EXCEPT !.pc = "calling"]
<1>1. thread[t] \in WarmRecord /\ ThreadOk(t) /\ thread[t].pc = "chosen"
    BY DEF WarmInv, WarmType, K!Send
<1>2. UNCHANGED <<idle, lapse, lock, current, paused>> /\ late \in [K!Threads -> {0, 1}]
      /\ idle \in [K!Names -> 0 .. Interval + 1] /\ lapse \in [K!Names -> 0 .. K!Longest]
      /\ \A s \in K!Names : lapse[s] \in Nat
    BY WarmFacts DEF K!Send, WarmInv, WarmType
<1>3. thread' = [thread EXCEPT ![t] = r]
    BY DEF K!Send
<1>4. /\ r \in WarmRecord /\ r.pc = "calling" /\ r.todo = thread[t].todo
      /\ r.stop = thread[t].stop /\ r.left = thread[t].left
    BY <1>1 DEF WarmRecord, WarmPcs
<1>5. thread'[t] = r
    BY <1>3 DEF WarmInv, WarmType
\* A thread that has chosen has sent nothing since it was stopped.
<1>6. late[t] = 0 /\ thread[t].todo # <<>> /\ Sources # <<>>
    <2>1. late[t] = 0 /\ thread[t].todo # <<>> /\ Rests(thread[t].todo)
        BY <1>1 DEF ThreadOk
    <2> QED
        BY <2>1, RestFacts
<1>7. /\ late' = IF thread[t].stop THEN [late EXCEPT ![t] = 1] ELSE late
      /\ late' \in [K!Threads -> {0, 1}] /\ \A u \in K!Threads \ {t} : late'[u] = late[u]
    BY <1>2, <1>6 DEF K!Send
<1> HIDE DEF r
<1>8. \A s \in K!Names : Limit(r, s) = Limit(thread[t], s)
    BY <1>1, <1>4 DEF Limit
<1>9. late'[t] # 0 => thread[t].stop
    BY <1>6, <1>7
<1>10. ThreadOk(t)'
    BY <1>1, <1>2, <1>4, <1>5, <1>6, <1>8, <1>9 DEF ThreadOk, InPass, K!Running
<1>11. UsesOnly(t)
    BY <1>2, <1>7 DEF UsesOnly
<1> QED
    BY <1>3, <1>4, <1>10, <1>11, OneMoves

LEMMA AnswerStep ==
    ASSUME WarmInv, NEW t \in K!Threads, NEW ok \in BOOLEAN, K!Answer(t, ok)
    PROVE  WarmInv'
<1> DEFINE todo == thread[t].todo
           s0 == Head(todo)
           r == [thread[t] EXCEPT !.pc = "next", !.todo = Tail(@)]
<1>1. thread[t] \in WarmRecord /\ ThreadOk(t) /\ thread[t].pc = "calling"
    BY DEF WarmInv, WarmType, K!Answer
<1>2. UNCHANGED <<lock, current, paused, late>> /\ late \in [K!Threads -> {0, 1}]
      /\ idle \in [K!Names -> 0 .. Interval + 1] /\ lapse \in [K!Names -> 0 .. K!Longest]
      /\ \A s \in K!Names : lapse[s] \in Nat
    BY WarmFacts DEF K!Answer, WarmInv, WarmType
<1>3. Rests(todo) /\ todo # <<>> /\ thread[t].left \in 0 .. Budget
    BY <1>1 DEF ThreadOk, WarmRecord
<1>4. /\ s0 \in K!Names /\ Rests(Tail(todo)) /\ Tail(todo) \in Seq(K!Names)
      /\ \A s \in Elements(todo) : s = s0 \/ s \in Elements(Tail(todo))
    BY <1>3, RestFacts
<1>5. /\ thread' = [thread EXCEPT ![t] = r] /\ lapse' = K!Zero(lapse, {s0})
      /\ idle' = IF ok THEN K!Zero(idle, {s0}) ELSE idle
    BY DEF K!Answer
<1>6. /\ r \in WarmRecord /\ r.pc = "next" /\ r.todo = Tail(todo)
      /\ r.stop = thread[t].stop /\ r.left = thread[t].left
    BY <1>1, <1>4 DEF WarmRecord, WarmPcs
<1>7. thread'[t] = r
    BY <1>5 DEF WarmInv, WarmType
<1>8. /\ lapse' \in [K!Names -> 0 .. K!Longest] /\ idle' \in [K!Names -> 0 .. Interval + 1]
      /\ \A s \in K!Names : /\ lapse'[s] <= lapse[s] /\ lapse'[s] \in Nat
                            /\ lapse'[s] = 0 \/ idle'[s] = idle[s]
      /\ lapse'[s0] = 0
    <2>1. /\ lapse' \in [K!Names -> 0 .. K!Longest]
          /\ \A s \in K!Names : /\ lapse'[s] <= lapse[s]
                                /\ lapse'[s] = (IF s \in {s0} THEN 0 ELSE lapse[s])
        BY <1>5, ZeroFacts
    <2>2. /\ idle' \in [K!Names -> 0 .. Interval + 1]
          /\ \A s \in K!Names \ {s0} : idle'[s] = idle[s]
        BY <1>2, <1>5, ZeroFacts
    <2> HIDE DEF s0
    <2> QED
        BY <1>2, <1>4, <2>1, <2>2
<1> HIDE DEF r
<1>9. ASSUME t \in Keepers, K!Running(t)'
      PROVE  current' = t /\ \A s \in K!Names : lapse'[s] < Limit(r, s)
    <2>1. K!Running(t) /\ current = t /\ \A s \in K!Names : lapse[s] < Limit(thread[t], s)
        BY <1>1, <1>6, <1>7, <1>9 DEF K!Running, ThreadOk
    <2>2. ASSUME NEW s \in K!Names
          PROVE  lapse'[s] < Limit(r, s)
        <3>1. CASE s = s0
            <4>1. Limit(r, s) >= Interval
                BY <1>3, <1>6, WarmFacts DEF Limit
            <4> QED
                BY <1>8, <3>1, <4>1, <1>6, LimitIsNat, WarmFacts
        <3>2. CASE s # s0
            <4>1. Limit(r, s) >= Limit(thread[t], s)
                <5>1. s \in Elements(todo) => s \in Elements(r.todo)
                    BY <1>4, <1>6, <3>2
                <5>2. /\ Limit(r, s) = (IF s \in Elements(r.todo) THEN 2 * Interval + Budget
                                      ELSE Interval) + (Budget - thread[t].left)
                      /\ Limit(thread[t], s) = (IF s \in Elements(todo) THEN 2 * Interval + Budget
                                              ELSE Interval) + (Budget - thread[t].left)
                    BY <1>1, <1>6 DEF Limit
                <5> QED
                    BY <1>3, <5>1, <5>2, WarmFacts
            <4>2. Limit(r, s) \in Nat /\ Limit(thread[t], s) \in Nat
                BY <1>1, <1>6, LimitIsNat
            <4> QED
                BY <1>2, <1>8, <2>1, <4>1, <4>2
        <3> QED
            BY <3>1, <3>2
    <2> QED
        BY <1>2, <2>1, <2>2
<1>10. ThreadOk(t)'
    BY <1>1, <1>2, <1>4, <1>6, <1>7, <1>9 DEF ThreadOk, InPass
<1>11. UsesOnly(t)
    BY <1>2, <1>8 DEF UsesOnly
<1> QED
    BY <1>5, <1>6, <1>10, <1>11, OneMoves

LEMMA WarmUpStep == ASSUME WarmInv, K!WarmUp PROVE WarmInv'
<1> DEFINE t == K!Startup
           r == [thread[t] EXCEPT !.pc = IF K!LockFree THEN "setup" ELSE "ended"]
<1>1. t \in K!Threads /\ thread[t] \in WarmRecord /\ ThreadOk(t) /\ thread[t].pc = "new"
    BY WarmFacts DEF WarmInv, WarmType, K!WarmUp
<1>2. UNCHANGED <<idle, lapse, current, paused, late>> /\ late \in [K!Threads -> {0, 1}]
      /\ idle \in [K!Names -> 0 .. Interval + 1] /\ lapse \in [K!Names -> 0 .. K!Longest]
      /\ \A s \in K!Names : lapse[s] \in Nat
    BY WarmFacts DEF K!WarmUp, WarmInv, WarmType
<1>3. /\ thread' = [thread EXCEPT ![t] = r]
      /\ IF K!LockFree THEN lock' = t ELSE UNCHANGED lock
    BY DEF K!WarmUp
<1>4. /\ r \in WarmRecord /\ r.pc = (IF K!LockFree THEN "setup" ELSE "ended")
      /\ r.todo = thread[t].todo /\ r.stop = thread[t].stop
    BY <1>1 DEF WarmRecord, WarmPcs
<1>5. thread'[t] = r
    BY <1>1, <1>3 DEF WarmInv, WarmType
<1>6. t \notin Keepers
    BY WarmFacts
<1> HIDE DEF r, t
<1>7. ThreadOk(t)'
    <2>1. lock # t
        BY <1>1 DEF ThreadOk, InPass
    <2> QED
        BY <1>1, <1>2, <1>3, <1>4, <1>5, <1>6, <2>1 DEF ThreadOk, InPass
<1>8. UsesOnly(t)
    BY <1>2, <1>3 DEF UsesOnly, K!LockFree
<1> QED
    BY <1>1, <1>3, <1>4, <1>7, <1>8, OneMoves

\* No keep-warm runs when another is started.
LEMMA StartStep == ASSUME WarmInv, NEW k \in Keepers, K!Start(k) PROVE WarmInv'
<1> DEFINE r == [thread[k] EXCEPT !.pc = "waiting"]
<1>1. k \in K!Threads /\ thread[k] \in WarmRecord /\ ThreadOk(k) /\ thread[k].pc = "new"
    BY WarmFacts DEF WarmInv, WarmType, K!Start
<1>2. \A u \in Keepers : ~K!Running(u)
    BY WarmFacts DEF WarmInv, ThreadOk, K!Start
<1>3. /\ thread' = [thread EXCEPT ![k] = r] /\ current' = k
      /\ UNCHANGED <<idle, lock, paused, late>> /\ lapse' = K!Zero(lapse, K!Names)
    BY <1>2 DEF K!Start, K!KeptWarm
<1>4. /\ lapse' \in [K!Names -> 0 .. K!Longest] /\ \A s \in K!Names : lapse'[s] = 0
      /\ \A s \in K!Names : lapse'[s] \in Nat /\ lapse'[s] <= lapse[s]
    BY <1>3, ZeroFacts
<1>5. r \in WarmRecord /\ r.pc = "waiting" /\ r.todo = thread[k].todo /\ r.stop = thread[k].stop
    BY <1>1 DEF WarmRecord, WarmPcs
<1>6. thread'[k] = r /\ thread' \in [K!Threads -> WarmRecord]
      /\ \A u \in K!Threads \ {k} : thread'[u] = thread[u]
    BY <1>1, <1>3, <1>5 DEF WarmInv, WarmType
<1> HIDE DEF r
<1>7. WarmType'
    BY <1>3, <1>4, <1>6 DEF WarmInv, WarmType
<1>8. idle \in [K!Names -> 0 .. Interval + 1]
    BY DEF WarmInv, WarmType
<1>9. IdleInv' /\ K!WarmKept'
    BY <1>3, <1>4, <1>8, IdleStays
<1>10. ThreadOk(k)'
    <2>1. \A s \in K!Names : 0 < Limit(r, s)
        <3>1. r.timer \in 0 .. Interval
            BY <1>5 DEF WarmRecord
        <3> QED
            BY <1>5, <3>1, WarmFacts DEF Limit
    <2>2. k # K!Startup
        BY WarmFacts
    <2> QED
        BY <1>1, <1>3, <1>4, <1>5, <1>6, <2>1, <2>2 DEF ThreadOk, InPass
<1>11. ASSUME NEW u \in K!Threads, u # k
       PROVE  ThreadOk(u)'
    <2>1. ThreadOk(u) /\ thread'[u] = thread[u]
        BY <1>6, <1>11 DEF WarmInv
    <2> QED
        BY <1>2, <1>3, <2>1 DEF ThreadOk, K!Running
<1> QED
    BY <1>7, <1>9, <1>10, <1>11 DEF WarmInv

LEMMA StopStep == ASSUME WarmInv, K!Stop PROVE WarmInv'
<1> DEFINE r == [thread[current] EXCEPT !.stop = TRUE]
<1>1. /\ current \in Keepers /\ current \in K!Threads /\ thread[current] \in WarmRecord
      /\ ThreadOk(current) /\ current # K!Startup
    BY WarmFacts DEF WarmInv, WarmType, K!Stop
<1>2. /\ thread' = [thread EXCEPT ![current] = r] /\ current' = K!Nobody
      /\ UNCHANGED <<idle, lapse, lock, paused, late>>
    BY DEF K!Stop
<1>3. r \in WarmRecord /\ r.stop /\ r.pc = thread[current].pc /\ r.todo = thread[current].todo
    BY <1>1 DEF WarmRecord
<1>4. thread'[current] = r /\ thread' \in [K!Threads -> WarmRecord]
      /\ \A u \in K!Threads \ {current} : thread'[u] = thread[u]
    BY <1>1, <1>2, <1>3 DEF WarmInv, WarmType
<1> HIDE DEF r
<1>5. WarmType'
    BY <1>2, <1>4 DEF WarmInv, WarmType
<1>6. IdleInv' /\ K!WarmKept'
    BY <1>2 DEF WarmInv, IdleInv, K!WarmKept
<1>7. ASSUME NEW u \in K!Threads
      PROVE  ThreadOk(u)'
    <2>1. CASE u = current
        BY <1>1, <1>2, <1>3, <1>4, <2>1 DEF ThreadOk, K!Running
    <2>2. CASE u # current
        <3>1. ThreadOk(u) /\ thread'[u] = thread[u]
            BY <1>4, <2>2 DEF WarmInv
        <3>2. ~(u \in Keepers /\ K!Running(u))
            BY <2>2, <3>1 DEF ThreadOk
        <3> QED
            BY <1>2, <3>1, <3>2 DEF ThreadOk, K!Running
    <2> QED
        BY <2>1, <2>2
<1> QED
    BY <1>5, <1>6, <1>7 DEF WarmInv

LEMMA NoteUseStep == ASSUME WarmInv, NEW s0 \in K!Names, K!NoteUse(s0) PROVE WarmInv'
<1>1. /\ idle' = K!Zero(idle, {s0}) /\ lapse' = K!Zero(lapse, {s0})
      /\ UNCHANGED <<lock, thread, current, paused, late>>
    BY DEF K!NoteUse
<1>2. /\ lapse' \in [K!Names -> 0 .. K!Longest] /\ idle' \in [K!Names -> 0 .. Interval + 1]
      /\ \A s \in K!Names : /\ lapse'[s] <= lapse[s]
                            /\ lapse'[s] = (IF s \in {s0} THEN 0 ELSE lapse[s])
                            /\ idle'[s] = (IF s \in {s0} THEN 0 ELSE idle[s])
    BY <1>1, ZeroFacts
<1>3. \A s \in K!Names : lapse'[s] \in Nat /\ (lapse'[s] = 0 \/ idle'[s] = idle[s])
    BY <1>2, WarmFacts
<1>4. IdleInv' /\ K!WarmKept'
    BY <1>2, <1>3, IdleStays
<1>5. WarmType'
    BY <1>1, <1>2 DEF WarmInv, WarmType
<1>6. \A u \in K!Threads : ThreadOk(u)'
    BY <1>1, <1>2, <1>3, OthersStay
<1> QED
    BY <1>4, <1>5, <1>6 DEF WarmInv

\* Time passes while a running keep-warm waits or is answered, and neither takes
\* longer than it may.
LEMMA WarmTickStep == ASSUME WarmInv, K!Tick PROVE WarmInv'
<1>1. /\ UNCHANGED <<lock, current, paused, late>> /\ \A t \in K!Threads : K!Waits(t)
      /\ idle' = [s \in K!Names |-> K!Least(idle[s] + 1, Interval + 1)]
      /\ lapse' = [s \in K!Names |-> IF K!KeptWarm THEN K!Least(lapse[s] + 1, K!Longest)
                                     ELSE lapse[s]]
    BY DEF K!Tick
<1>2. \A s \in K!Names : idle[s] \in 0 .. Interval + 1 /\ lapse[s] \in Nat /\ lapse[s] < K!Longest
    BY WarmFacts DEF WarmInv, WarmType, K!WarmKept
<1>3. \A s \in K!Names :
        /\ idle'[s] = (IF idle[s] = Interval + 1 THEN idle[s] ELSE idle[s] + 1)
        /\ idle'[s] \in 0 .. Interval + 1
        /\ lapse'[s] = (IF K!KeptWarm THEN lapse[s] + 1 ELSE lapse[s])
    <2> SUFFICES ASSUME NEW s \in K!Names
                 PROVE  /\ idle'[s] = (IF idle[s] = Interval + 1 THEN idle[s] ELSE idle[s] + 1)
                        /\ idle'[s] \in 0 .. Interval + 1
                        /\ lapse'[s] = (IF K!KeptWarm THEN lapse[s] + 1 ELSE lapse[s])
        OBVIOUS
    <2>1. /\ idle'[s] = K!Least(idle[s] + 1, Interval + 1)
          /\ lapse'[s] = IF K!KeptWarm THEN K!Least(lapse[s] + 1, K!Longest) ELSE lapse[s]
        BY <1>1
    <2>2. idle[s] \in 0 .. Interval + 1 /\ lapse[s] \in Nat /\ lapse[s] < K!Longest
        BY <1>2
    <2> QED
        BY <2>1, <2>2, WarmFacts DEF K!Least
<1>4. \A t \in K!Threads :
        LET r == thread[t] IN
        /\ r.pc = "waiting" => r.timer < Interval
                               /\ thread'[t] = [r EXCEPT !.timer = @ + 1]
        /\ r.pc = "calling" => r.left > 0 /\ thread'[t] = [r EXCEPT !.left = @ - 1]
        /\ r.pc \notin {"waiting", "calling"} => r.pc \in {"new", "ended"} /\ thread'[t] = r
    BY <1>1 DEF K!Tick, K!Waits
<1>5. ASSUME NEW t \in K!Threads
      PROVE  /\ thread'[t] \in WarmRecord /\ thread'[t].pc = thread[t].pc
             /\ thread'[t].todo = thread[t].todo /\ thread'[t].stop = thread[t].stop
             /\ K!Running(t) => \A s \in K!Names : Limit(thread'[t], s) = Limit(thread[t], s) + 1
    <2>1. /\ thread[t] \in WarmRecord /\ thread[t].timer \in 0 .. Interval
          /\ thread[t].left \in 0 .. Budget
        BY DEF WarmInv, WarmType, WarmRecord
    <2>2. CASE thread[t].pc = "waiting"
        <3>1. thread'[t] = [thread[t] EXCEPT !.timer = @ + 1] /\ thread[t].timer < Interval
            BY <1>4, <2>2
        <3>2. thread[t].timer + 1 \in 0 .. Interval
            BY <2>1, <3>1, WarmFacts
        <3>3. /\ thread'[t] \in WarmRecord /\ thread'[t].pc = thread[t].pc
              /\ thread'[t].todo = thread[t].todo /\ thread'[t].stop = thread[t].stop
              /\ thread'[t].timer = thread[t].timer + 1
            BY <2>1, <3>1, <3>2 DEF WarmRecord
        <3> QED
            BY <2>1, <2>2, <3>3, WarmFacts DEF Limit
    <2>3. CASE thread[t].pc = "calling"
        <3>1. thread'[t] = [thread[t] EXCEPT !.left = @ - 1] /\ thread[t].left > 0
            BY <1>4, <2>3
        <3>2. thread[t].left - 1 \in 0 .. Budget
            BY <2>1, <3>1, WarmFacts
        <3>3. /\ thread'[t] \in WarmRecord /\ thread'[t].pc = thread[t].pc
              /\ thread'[t].todo = thread[t].todo /\ thread'[t].stop = thread[t].stop
              /\ thread'[t].left = thread[t].left - 1
            BY <2>1, <3>1, <3>2 DEF WarmRecord
        <3> QED
            BY <2>1, <2>3, <3>3, WarmFacts DEF Limit
    <2>4. CASE thread[t].pc \notin {"waiting", "calling"}
        BY <1>4, <2>1, <2>4 DEF K!Running
    <2> QED
        BY <2>2, <2>3, <2>4
<1>6. thread' \in [K!Threads -> WarmRecord]
    <2>1. \A t \in K!Threads : thread'[t] \in WarmRecord
        BY <1>5
    <2>2. thread' = [t \in K!Threads |-> thread'[t]]
        BY DEF K!Tick
    <2> QED
        BY <2>1, <2>2
<1>7. ASSUME NEW t \in K!Threads
      PROVE  ThreadOk(t)'
    <2>1. ThreadOk(t)
        BY DEF WarmInv
    <2>2. ASSUME t \in Keepers, K!Running(t)'
          PROVE  current' = t /\ \A s \in K!Names : lapse'[s] < Limit(thread'[t], s)
        <3>1. K!Running(t) /\ K!KeptWarm
            BY <1>5, <2>2 DEF K!Running, K!KeptWarm
        <3>2. current = t /\ \A s \in K!Names : lapse[s] < Limit(thread[t], s)
            BY <2>1, <2>2, <3>1 DEF ThreadOk
        <3>3. \A s \in K!Names : /\ Limit(thread'[t], s) = Limit(thread[t], s) + 1
                                 /\ lapse'[s] = lapse[s] + 1 /\ Limit(thread[t], s) \in Nat
            BY <1>3, <1>5, <3>1, LimitIsNat DEF WarmInv, WarmType
        <3>4. ASSUME NEW s \in K!Names
              PROVE  lapse'[s] < Limit(thread'[t], s)
            BY <1>2, <3>2, <3>3
        <3> QED
            BY <1>1, <3>2, <3>4
    <2> QED
        BY <1>1, <1>5, <2>1, <2>2 DEF ThreadOk
<1>8. K!WarmKept'
    <2> SUFFICES ASSUME NEW s \in K!Names PROVE lapse'[s] < K!Longest
        BY DEF K!WarmKept
    <2>1. CASE K!KeptWarm
        <3>1. PICK k \in Keepers : K!Running(k)
            BY <2>1 DEF K!KeptWarm
        <3>2. k \in K!Threads /\ K!Running(k)'
            BY <1>5, <3>1, WarmFacts DEF K!Running
        <3>3. lapse'[s] < Limit(thread'[k], s)
            BY <1>7, <3>1, <3>2 DEF ThreadOk
        <3>4. Limit(thread'[k], s) \in Nat /\ Limit(thread'[k], s) <= K!Longest
            BY <1>5, <3>2, LimitIsNat
        <3>5. lapse'[s] \in Nat
            BY <1>2, <1>3
        <3> QED
            BY <3>3, <3>4, <3>5, WarmFacts
    <2>2. CASE ~K!KeptWarm
        BY <1>2, <1>3, <2>2
    <2> QED
        BY <2>1, <2>2
<1>9. IdleInv'
    <2> SUFFICES ASSUME NEW s \in K!Names PROVE lapse'[s] <= idle'[s] \/ idle'[s] = Interval + 1
        BY DEF IdleInv
    <2>1. lapse[s] <= idle[s] \/ idle[s] = Interval + 1
        BY DEF WarmInv, IdleInv
    <2> QED
        BY <1>2, <1>3, <2>1, WarmFacts
<1>10. WarmType'
    <2>1. \A s \in K!Names : lapse'[s] \in 0 .. K!Longest
        BY <1>2, <1>3, <1>8, WarmFacts DEF K!WarmKept
    <2>2. idle' \in [K!Names -> 0 .. Interval + 1] /\ lapse' \in [K!Names -> 0 .. K!Longest]
        BY <1>1, <1>3, <2>1
    <2> QED
        BY <1>1, <1>6, <2>2 DEF WarmInv, WarmType
<1> QED
    BY <1>7, <1>8, <1>9, <1>10 DEF WarmInv

LEMMA WarmInvariance == K!Spec => []WarmInv
<1>1. ASSUME WarmInv, UNCHANGED K!vars
      PROVE  WarmInv'
    BY <1>1 DEF K!vars, WarmInv, WarmType, IdleInv, K!WarmKept, ThreadOk, K!Running
<1>2. ASSUME WarmInv, K!Pause
      PROVE  WarmInv'
    BY <1>2 DEF K!Pause, WarmInv, WarmType, IdleInv, K!WarmKept, ThreadOk, K!Running
<1>3. ASSUME WarmInv, NEW t \in K!Threads, K!Step(t)
      PROVE  WarmInv'
    BY <1>3, WakeStep, NextSourceStep, SendStep, SetUpStep, AnswerStep DEF K!Step
<1>4. WarmInv /\ [K!Next]_K!vars => WarmInv'
    BY <1>1, <1>2, <1>3, WarmUpStep, StopStep, WarmTickStep, StartStep, NoteUseStep DEF K!Next
<1> QED
    BY <1>4, WarmBegins, PTL DEF K!Spec

\* No two threads send a prefix side by side (_warmup_lock); the prefix of a
\* source never sits unused for two intervals and two budgets while a keep-warm
\* runs; a stopped one sends at most what it had chosen.
THEOREM WarmIsSound == K!Spec => []WarmSound
<1>1. WarmInv => WarmSound
    <2> SUFFICES ASSUME WarmInv PROVE WarmSound
        OBVIOUS
    <2>1. K!OneSender
        BY DEF WarmInv, ThreadOk, InPass, K!OneSender, K!Sending
    <2>2. K!WarmKept
        BY DEF WarmInv
    <2>3. K!QuietAfterStop
        BY WarmFacts DEF WarmInv, WarmType, K!QuietAfterStop
    <2> QED
        BY <2>1, <2>2, <2>3 DEF WarmSound
<1> QED
    BY <1>1, WarmInvariance, PTL

(***************************************************************************)
(* The three side by side, as MCServing runs them: each behaves as it does *)
(* by itself, so what was proved of it holds of the instance.              *)
(***************************************************************************)
LEMMA PartsBehave == MCSpec => Spec /\ K!Spec /\ D!Spec
<1>1. MCInit => Init /\ K!Init /\ D!Init
    BY DEF MCInit
<1>2. ASSUME [MCNext]_<<part, vars, warm, values>>
      PROVE  [Next]_vars /\ [K!Next]_K!vars /\ [D!Next]_D!vars
    BY <1>2 DEF MCNext, vars, warm, values, K!vars, D!vars
<1> QED
    BY <1>1, <1>2, PTL DEF MCSpec, Spec, K!Spec, D!Spec

LEMMA WarmTypes == WarmInv => K!TypeOK
<1> SUFFICES ASSUME WarmInv PROVE K!TypeOK
    OBVIOUS
<1>1. ASSUME NEW t \in K!Threads
      PROVE  /\ thread[t].pc \in WarmPcs /\ thread[t].stop \in BOOLEAN
             /\ thread[t].timer \in 0 .. Interval /\ thread[t].left \in 0 .. Budget
             /\ Rests(thread[t].todo) /\ late[t] \in 0 .. Len(Sources)
    <2>1. thread[t] \in WarmRecord /\ late[t] \in {0, 1} /\ ThreadOk(t)
        BY DEF WarmInv, WarmType
    <2>2. Sources # <<>> => Len(Sources) \in Nat \ {0}
        BY WarmFacts, EmptySeq
    <2>3. late[t] \in 0 .. Len(Sources)
        BY <2>1, <2>2, WarmFacts DEF ThreadOk
    <2> QED
        BY <2>1, <2>3 DEF ThreadOk, WarmRecord
<1>2. late \in [K!Threads -> 0 .. Len(Sources)]
    BY <1>1 DEF WarmInv, WarmType
<1> QED
    BY <1>1, <1>2 DEF K!TypeOK, WarmInv, WarmType, WarmPcs, Rests

\* Types of the three machines, and the bounds of their queues and timers.
THEOREM PartsTypeCorrect == MCSpec => []MCTypeOK
<1>1. VocabularyInv => D!TypeOK
    BY DEF VocabularyInv
<1> QED
    BY <1>1, PartsBehave, TypeCorrect, WarmTypes, WarmInvariance, VocabularyInvariance, PTL
       DEF MCTypeOK
=============================================================================
