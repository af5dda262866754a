------------------------- MODULE ConservationProofs -------------------------
(***************************************************************************)
(* Theorems about ConservationActivity: what current_participants and the  *)
(* participant limit are worth under concurrency, and that no review loses *)
(* a badge, for any number of users, activities, concurrent requests and   *)
(* reviews.                                                                *)
(***************************************************************************)
EXTENDS ConservationActivity, FiniteSetTheorems, SequenceTheorems, TLAPS

-----------------------------------------------------------------------------
(* Counting.                                                               *)

Steps == {"insert", "increment", "decrement"}

One(b) == IF b THEN 1 ELSE 0

\* Request record q is at statement s for activity a.
IsAt(q, a, s) == q.at = s /\ q.activity = a

Members(a) == Cardinality(Participants(a))
Waiting(a, s) == Cardinality(RequestsAt(a, s))

LEMMA Counts ==
  ASSUME NEW a, NEW s
  PROVE  /\ IsFiniteSet(Participants(a)) /\ IsFiniteSet(RequestsAt(a, s))
         /\ Members(a) \in Nat /\ Waiting(a, s) \in Nat
         /\ Members(a)' \in Nat /\ Waiting(a, s)' \in Nat
         /\ Cardinality(Requests) \in Nat
         /\ Members(a) = 0 <=> Participants(a) = {}
         /\ Waiting(a, s) = 0 <=> RequestsAt(a, s) = {}
         /\ Members(a)' = 0 <=> Participants(a)' = {}
         /\ Waiting(a, s)' = 0 <=> RequestsAt(a, s)' = {}
<1>1. /\ Participants(a) \in SUBSET Users /\ RequestsAt(a, s) \in SUBSET Requests
      /\ Participants(a)' \in SUBSET Users /\ RequestsAt(a, s)' \in SUBSET Requests
  BY DEF Participants, RequestsAt
<1>2. /\ IsFiniteSet(Participants(a)) /\ IsFiniteSet(RequestsAt(a, s))
      /\ IsFiniteSet(Participants(a)') /\ IsFiniteSet(RequestsAt(a, s)')
  BY <1>1, ConservationAssumption, FS_Subset
<1> QED BY <1>2, ConservationAssumption, FS_CardinalityType, FS_EmptySet DEF Members, Waiting

\* One request goes from one statement to another.
LEMMA RequestMoves ==
  ASSUME NEW r \in Requests, \A p \in Requests \ {r} : request'[p] = request[p],
         NEW a, NEW s
  PROVE  Waiting(a, s)' + One(IsAt(request[r], a, s)) = Waiting(a, s) + One(IsAt(request'[r], a, s))
<1> DEFINE others == RequestsAt(a, s) \ {r}
<1>1. /\ RequestsAt(a, s) = IF IsAt(request[r], a, s) THEN others \union {r} ELSE others
      /\ RequestsAt(a, s)' = IF IsAt(request'[r], a, s) THEN others \union {r} ELSE others
  BY DEF RequestsAt, IsAt
<1>2. IsFiniteSet(others) /\ r \notin others
  BY Counts, FS_RemoveElement
<1>3. Cardinality(others) \in Nat /\ Cardinality(others \union {r}) = Cardinality(others) + 1
  BY <1>2, FS_AddElement, FS_CardinalityType
<1> QED BY <1>1, <1>3 DEF Waiting, One

\* A row inserted into conservation_participants.
LEMMA MemberJoins ==
  ASSUME NEW u \in Users, NEW b, participants' = participants \union {<<u, b>>}, NEW a
  PROVE  /\ Members(a)' = Members(a) + One(a = b /\ <<u, b>> \notin participants)
         /\ Participants(a) \subseteq Participants(a)'
<1>1. Participants(a)' = IF a = b THEN Participants(a) \union {u} ELSE Participants(a)
  BY DEF Participants
<1>2. a = b => (u \in Participants(a) <=> <<u, b>> \in participants)
  BY DEF Participants
<1>3. /\ Cardinality(Participants(a)) \in Nat
      /\ Cardinality(Participants(a) \union {u}) =
           IF u \in Participants(a) THEN Cardinality(Participants(a))
           ELSE Cardinality(Participants(a)) + 1
  BY Counts, FS_AddElement DEF Members
<1> QED BY <1>1, <1>2, <1>3 DEF Members, One

\* A row deleted from it.
LEMMA MemberLeaves ==
  ASSUME NEW u \in Users, NEW b, <<u, b>> \in participants,
         participants' = participants \ {<<u, b>>}, NEW a
  PROVE  /\ Members(a)' + One(a = b) = Members(a)
         /\ Participants(a)' \subseteq Participants(a)
<1>1. Participants(a)' = IF a = b THEN Participants(a) \ {u} ELSE Participants(a)
  BY DEF Participants
<1>2. a = b => u \in Participants(a)
  BY DEF Participants
<1>3. /\ Cardinality(Participants(a)) \in Nat
      /\ IsFiniteSet(Participants(a) \ {u})
      /\ u \in Participants(a) =>
           Cardinality(Participants(a) \ {u}) = Cardinality(Participants(a)) - 1
  BY Counts, FS_RemoveElement DEF Members
<1> QED BY <1>1, <1>2, <1>3 DEF Members, One

-----------------------------------------------------------------------------
(* Steps, as far as joining and leaving are concerned.                     *)

\* The steps that touch participants, their counters or the requests.
Capacity ==
  \/ \E r \in Requests, u \in Users, a \in Activities : JoinCheck(r, u, a)
  \/ \E r \in Requests, u \in Users, a \in Activities : Leave(r, u, a)
  \/ \E r \in Requests : JoinInsert(r) \/ Increment(r) \/ Decrement(r) \/ CutOff(r)

LEMMA StepCases ==
  ASSUME [Next]_vars
  PROVE  \/ Administer
         \/ Capacity /\ UNCHANGED activityVars
         \/ UNCHANGED <<activityVars, capacityVars>>
BY DEF Next, vars, Administer, Participate, Moderate, Capacity, Submit, DeleteAccount, OpenList,
       Decide, Lookup, Award, BreakOff, JoinCheck, Leave, JoinInsert, Increment, Decrement, CutOff

\* A request at work has a user and an activity.
LEMMA AtWork ==
  ASSUME CapacityTypeOK, NEW r \in Requests, request[r].at # "idle"
  PROVE  /\ request[r].at \in Steps
         /\ request[r].user \in Users /\ request[r].activity \in Activities
BY DEF CapacityTypeOK, Request, Steps

LEMMA CapacityTypeInductive ==
  ASSUME CapacityTypeOK, [Next]_vars
  PROVE  CapacityTypeOK'
<1>1. NoRequest \in Request /\ \A u \in Users, a \in Activities, s \in Steps :
         [at |-> s, user |-> u, activity |-> a] \in Request
  BY DEF NoRequest, Request, Steps
<1>2. CASE Administer
  BY <1>2 DEF CapacityTypeOK, Administer, Create, Update, capacityVars
<1>3. ASSUME NEW r \in Requests, NEW u \in Users, NEW a \in Activities,
             JoinCheck(r, u, a) \/ Leave(r, u, a)
      PROVE  CapacityTypeOK'
  <2>1. request' \in [Requests -> Request]
    BY <1>1, <1>3 DEF CapacityTypeOK, JoinCheck, Leave, Steps
  <2> QED BY <1>3, <2>1 DEF CapacityTypeOK, JoinCheck, Leave, activityVars
<1>4. ASSUME NEW r \in Requests, JoinInsert(r)
      PROVE  CapacityTypeOK'
  <2>1. request[r].user \in Users /\ request[r].activity \in Activities
    BY <1>4, AtWork DEF JoinInsert
  <2>2. request' \in [Requests -> Request]
    BY <1>1, <1>4, <2>1 DEF CapacityTypeOK, JoinInsert, Finish, GoTo, Steps
  <2> QED BY <1>4, <2>1, <2>2 DEF CapacityTypeOK, JoinInsert, activityVars
<1>5. ASSUME NEW r \in Requests, Increment(r) \/ Decrement(r) \/ CutOff(r)
      PROVE  CapacityTypeOK'
  <2>1. request[r].activity \in Activities
    BY <1>5, AtWork DEF Increment, Decrement, CutOff
  <2>2. count' \in [Activities -> Nat]
    BY <1>5, <2>1 DEF CapacityTypeOK, Increment, Decrement, CutOff
  <2>3. request' \in [Requests -> Request] /\ undercounted' \subseteq Activities
    BY <1>1, <1>5, <2>1 DEF CapacityTypeOK, Increment, Decrement, CutOff, Finish
  <2> QED BY <1>5, <2>2, <2>3 DEF CapacityTypeOK, Increment, Decrement, CutOff, activityVars
<1>6. CASE UNCHANGED <<activityVars, capacityVars>>
  BY <1>6 DEF CapacityTypeOK, activityVars, capacityVars
<1> QED BY <1>2, <1>3, <1>4, <1>5, <1>6, StepCases DEF Capacity

LEMMA ExistInductive ==
  ASSUME CapacityTypeOK, ExistInv, [Next]_vars
  PROVE  ExistInv'
<1>1. CASE Administer
  BY <1>1 DEF ExistInv, Administer, Create, Update, capacityVars
<1>2. ASSUME NEW r \in Requests, NEW u \in Users, NEW a \in Activities,
             JoinCheck(r, u, a) \/ Leave(r, u, a)
      PROVE  ExistInv'
  <2>1. request' = [request EXCEPT ![r] = request'[r]] /\ request'[r].activity = a
    BY <1>2 DEF CapacityTypeOK, JoinCheck, Leave
  <2>2. a \in created /\ participants' \subseteq participants /\ created' = created
    BY <1>2 DEF JoinCheck, Leave, ExistInv, activityVars
  <2> QED BY <2>1, <2>2 DEF ExistInv, CapacityTypeOK
<1>3. ASSUME NEW r \in Requests, JoinInsert(r) \/ Increment(r) \/ Decrement(r) \/ CutOff(r)
      PROVE  ExistInv'
  <2>1. /\ request[r].activity \in created
        /\ request[r].at # "idle"
        /\ created' = created
    BY <1>3 DEF JoinInsert, Increment, Decrement, CutOff, ExistInv, activityVars
  <2>2. /\ request'[r].at # "idle" => request'[r].activity = request[r].activity
        /\ \A p \in Requests \ {r} : request'[p] = request[p]
    BY <1>3 DEF CapacityTypeOK, JoinInsert, Increment, Decrement, CutOff, Finish, GoTo, NoRequest
  <2>3. \A pair \in participants' : pair \in participants \/ pair[2] = request[r].activity
    BY <1>3 DEF JoinInsert, Increment, Decrement, CutOff
  <2> QED BY <2>1, <2>2, <2>3 DEF ExistInv
<1>4. CASE UNCHANGED <<activityVars, capacityVars>>
  BY <1>4 DEF ExistInv, activityVars, capacityVars
<1> QED BY <1>1, <1>2, <1>3, <1>4, StepCases DEF Capacity

-----------------------------------------------------------------------------
(* The counter.                                                            *)

Low(a) == Members(a) + Waiting(a, "decrement") <= count[a] + Waiting(a, "increment")

\* What a step leaves alone keeps its number.
LEMMA Unchanged ==
  ASSUME NEW a, NEW s
  PROVE  /\ participants' = participants => Members(a)' = Members(a)
         /\ request' = request => Waiting(a, s)' = Waiting(a, s)
BY DEF Members, Participants, Waiting, RequestsAt

LEMMA CountInductive ==
  ASSUME CapacityTypeOK, CountNeverLow, [Next]_vars
  PROVE  CountNeverLow'
<1>1. /\ \A a \in Activities \ undercounted : Low(a)
      /\ CountNeverLow' <=> \A a \in Activities \ undercounted' : Low(a)'
  BY DEF CountNeverLow, Low, Members, Waiting
<1>2. SUFFICES ASSUME NEW a \in Activities, a \notin undercounted'
               PROVE  Low(a)'
  BY <1>1
<1>3. /\ count[a] \in Nat /\ Members(a) \in Nat /\ Members(a)' \in Nat
      /\ \A s : Waiting(a, s) \in Nat /\ Waiting(a, s)' \in Nat
  BY Counts DEF CapacityTypeOK
<1>4. ASSUME UNCHANGED capacityVars PROVE Low(a)'
  BY <1>1, <1>2, <1>4, Unchanged DEF Low, capacityVars
<1>5. ASSUME NEW r \in Requests, NEW u \in Users, NEW b \in Activities, JoinCheck(r, u, b)
      PROVE  Low(a)'
  <2>1. /\ request'[r].at = "insert" /\ request[r].at = "idle"
        /\ \A p \in Requests \ {r} : request'[p] = request[p]
        /\ UNCHANGED <<count, participants, undercounted>>
    BY <1>5 DEF JoinCheck, CapacityTypeOK
  <2>2. /\ Waiting(a, "decrement")' = Waiting(a, "decrement")
        /\ Waiting(a, "increment")' = Waiting(a, "increment")
    BY <1>3, <2>1, RequestMoves DEF IsAt, One
  <2> QED BY <1>1, <1>2, <2>1, <2>2, Unchanged DEF Low
<1>6. ASSUME NEW r \in Requests, NEW u \in Users, NEW b \in Activities, Leave(r, u, b)
      PROVE  Low(a)'
  <2>1. /\ request'[r].at = "decrement" /\ request'[r].activity = b /\ request[r].at = "idle"
        /\ \A p \in Requests \ {r} : request'[p] = request[p]
        /\ UNCHANGED <<count, undercounted>>
    BY <1>6 DEF Leave, CapacityTypeOK
  <2>2. /\ Waiting(a, "decrement")' = Waiting(a, "decrement") + One(a = b)
        /\ Waiting(a, "increment")' = Waiting(a, "increment")
    BY <1>3, <2>1, RequestMoves DEF IsAt, One
  <2>3. Members(a)' + One(a = b) = Members(a)
    BY <1>6, MemberLeaves DEF Leave
  <2> QED BY <1>1, <1>2, <1>3, <2>1, <2>2, <2>3 DEF Low, One
<1>7. ASSUME NEW r \in Requests, JoinInsert(r)
      PROVE  Low(a)'
  <2> DEFINE b == request[r].activity
             u == request[r].user
             new == <<u, b>> \notin participants
  <2>1. /\ request[r].at = "insert" /\ u \in Users
        /\ UNCHANGED <<count, undercounted>>
    BY <1>7, AtWork DEF JoinInsert
  <2>2. Members(a)' = Members(a) + One(a = b /\ new)
    BY <1>7, <2>1, MemberJoins DEF JoinInsert
  <2>3. /\ Waiting(a, "decrement")' = Waiting(a, "decrement")
        /\ Waiting(a, "increment")' = Waiting(a, "increment") + One(a = b /\ new)
    <3>1. \A p \in Requests \ {r} : request'[p] = request[p]
      BY <1>7 DEF JoinInsert, GoTo, Finish, CapacityTypeOK
    <3>2. IF new THEN request'[r].at = "increment" /\ request'[r].activity = b
                 ELSE request'[r].at = "idle"
      BY <1>7 DEF JoinInsert, GoTo, Finish, NoRequest, CapacityTypeOK
    <3> QED BY <1>3, <2>1, <3>1, <3>2, RequestMoves DEF IsAt, One
  <2> QED BY <1>1, <1>2, <1>3, <2>1, <2>2, <2>3 DEF Low, One
<1>8. ASSUME NEW r \in Requests, Increment(r) \/ Decrement(r) \/ CutOff(r)
      PROVE  Low(a)'
  <2> DEFINE b == request[r].activity
  <2>1. /\ request'[r].at = "idle"
        /\ \A p \in Requests \ {r} : request'[p] = request[p]
        /\ UNCHANGED participants
        /\ undercounted \subseteq undercounted'
        /\ b \in Activities /\ count \in [Activities -> Nat]
    BY <1>8, AtWork DEF Increment, Decrement, CutOff, Finish, NoRequest, CapacityTypeOK
  <2>2. \A s : s # "idle" => Waiting(a, s)' + One(IsAt(request[r], a, s)) = Waiting(a, s)
    BY <1>3, <2>1, RequestMoves DEF IsAt, One
  <2>3. Low(a) /\ Members(a)' = Members(a)
    BY <1>1, <1>2, <2>1, Unchanged
  <2>4. CASE Increment(r)
    <3>1. request[r].at = "increment" /\ count'[a] = count[a] + One(a = b)
      BY <1>3, <2>1, <2>4 DEF Increment, One
    <3> QED BY <1>3, <2>2, <2>3, <3>1 DEF Low, IsAt, One
  <2>5. CASE Decrement(r)
    <3>1. request[r].at = "decrement" /\ count'[a] \in Nat /\ count'[a] + One(a = b) >= count[a]
      BY <1>3, <2>1, <2>5 DEF Decrement, One
    <3> QED BY <1>3, <2>2, <2>3, <3>1 DEF Low, IsAt, One
  <2>6. CASE CutOff(r)
    <3>1. count' = count /\ ~ IsAt(request[r], a, "increment")
      BY <1>2, <2>6 DEF CutOff, IsAt
    <3> QED BY <1>3, <2>2, <2>3, <3>1 DEF Low, IsAt, One
  <2> QED BY <1>8, <2>4, <2>5, <2>6
<1>9. CASE Administer
  BY <1>4, <1>9 DEF Administer, Create, Update
<1>10. CASE UNCHANGED <<activityVars, capacityVars>>
  BY <1>4, <1>10
<1> QED BY <1>5, <1>6, <1>7, <1>8, <1>9, <1>10, StepCases DEF Capacity

-----------------------------------------------------------------------------
(* The limit.                                                              *)

\* A request is at one statement only.
LEMMA OneStatementEach ==
  ASSUME NEW a
  PROVE  Waiting(a, "insert")' + Waiting(a, "increment")' <= Cardinality(Requests)
<1> DEFINE S == RequestsAt(a, "insert")'
           T == RequestsAt(a, "increment")'
<1>1. S \in SUBSET Requests /\ T \in SUBSET Requests /\ S \cap T = {}
  BY DEF RequestsAt
<1>2. IsFiniteSet(S) /\ IsFiniteSet(T) /\ S \union T \in SUBSET Requests
  BY <1>1, ConservationAssumption, FS_Subset
<1>3. Cardinality(S \union T) <= Cardinality(Requests)
  BY <1>2, ConservationAssumption, FS_Subset
<1>4. Cardinality(S \union T) = Cardinality(S) + Cardinality(T) - Cardinality({})
  BY <1>1, <1>2, FS_Union
<1>5. Cardinality({}) = 0 /\ Cardinality(S) \in Nat /\ Cardinality(T) \in Nat
  BY <1>2, FS_EmptySet, FS_CardinalityType
<1> QED BY <1>3, <1>4, <1>5 DEF Waiting

Bounded(a) ==
  limit[a] # NoLimit /\ Members(a) + Waiting(a, "insert") > 0
  => Members(a) + Waiting(a, "insert") + 1 <= limit[a] + Cardinality(Requests)

LEMMA OverrunAsBounded ==
  /\ OverrunInv <=> \A a \in created \ (relimited \union undercounted) : Bounded(a)
  /\ OverrunInv' <=> \A a \in created' \ (relimited' \union undercounted') : Bounded(a)'
<1>1. \A a : /\ Members(a) + Waiting(a, "insert") > 0
                <=> Participants(a) # {} \/ RequestsAt(a, "insert") # {}
             /\ Members(a)' + Waiting(a, "insert")' > 0
                <=> Participants(a)' # {} \/ RequestsAt(a, "insert")' # {}
  BY Counts
<1> QED BY <1>1 DEF OverrunInv, Bounded, Members, Waiting

LEMMA OverrunInductive ==
  ASSUME CapacityTypeOK, ExistInv, CountNeverLow, OverrunInv, [Next]_vars
  PROVE  OverrunInv'
<1>1. SUFFICES ASSUME NEW a \in created', a \notin relimited', a \notin undercounted',
                      limit'[a] # NoLimit
               PROVE  Bounded(a)'
  BY OverrunAsBounded DEF Bounded
<1>2. a \in created /\ a \notin relimited /\ a \notin undercounted => Bounded(a)
  BY OverrunAsBounded
<1>3. /\ Members(a) \in Nat /\ Members(a)' \in Nat /\ Cardinality(Requests) \in Nat
      /\ \A s : Waiting(a, s) \in Nat /\ Waiting(a, s)' \in Nat
  BY Counts
<1>4. \A b \in Activities : limit[b] # NoLimit => limit[b] \in Nat
  BY ConservationAssumption DEF CapacityTypeOK
\* Nothing that matters grows.
<1>5. ASSUME a \in created, a \notin relimited, a \notin undercounted, limit'[a] = limit[a],
             Members(a)' + Waiting(a, "insert")' <= Members(a) + Waiting(a, "insert")
      PROVE  Bounded(a)'
  BY <1>1, <1>2, <1>3, <1>4, <1>5 DEF Bounded, CapacityTypeOK
<1>6. CASE Administer
  <2>1. Members(a)' = Members(a) /\ \A s : Waiting(a, s)' = Waiting(a, s)
    BY <1>6, Unchanged DEF Administer, Create, Update, capacityVars
  <2>2. CASE a \in created
    <3>1. a \notin relimited /\ a \notin undercounted /\ limit'[a] = limit[a]
      BY <1>1, <1>6, <2>2 DEF Administer, Create, Update, capacityVars, CapacityTypeOK
    <3> QED BY <1>3, <1>5, <2>1, <2>2, <3>1
  <2>3. CASE a \notin created
    <3>1. Participants(a) = {} /\ RequestsAt(a, "insert") = {}
      BY <2>3 DEF ExistInv, Participants, RequestsAt
    <3>2. Members(a) = 0 /\ Waiting(a, "insert") = 0
      BY <3>1, Counts
    <3> QED BY <2>1, <3>2 DEF Bounded
  <2> QED BY <2>2, <2>3
<1>7. ASSUME UNCHANGED activityVars
      PROVE  /\ a \in created /\ a \notin relimited /\ limit'[a] = limit[a]
             /\ a \in Activities /\ limit[a] \in Nat
  BY <1>1, <1>4, <1>7 DEF activityVars, CapacityTypeOK
<1>8. ASSUME NEW r \in Requests, NEW u \in Users, NEW b \in Activities, JoinCheck(r, u, b)
      PROVE  Bounded(a)'
  <2>1. /\ request'[r].at = "insert" /\ request'[r].activity = b /\ request[r].at = "idle"
        /\ \A p \in Requests \ {r} : request'[p] = request[p]
        /\ UNCHANGED <<activityVars, count, participants, undercounted>>
    BY <1>8 DEF JoinCheck, CapacityTypeOK
  <2>2. Members(a)' = Members(a)
    BY <2>1, Unchanged
  <2>3. /\ Waiting(a, "insert")' = Waiting(a, "insert") + One(a = b)
        /\ Waiting(a, "increment")' = Waiting(a, "increment")
    BY <1>3, <2>1, RequestMoves DEF IsAt, One
  <2>4. CASE a # b
    BY <1>1, <1>3, <1>5, <1>7, <2>1, <2>2, <2>3, <2>4 DEF One
  <2>5. CASE a = b
    <3>1. count[a] + 1 <= limit[a] /\ count[a] \in Nat /\ limit[a] \in Nat
      BY <1>7, <1>8, <2>1, <2>5, <1>1 DEF JoinCheck, CapacityTypeOK
    <3>2. Members(a) + Waiting(a, "decrement") <= count[a] + Waiting(a, "increment")
      BY <1>1, <1>7, <2>1 DEF CountNeverLow, Members, Waiting
    <3>3. Members(a) + 1 <= limit[a] + Waiting(a, "increment")
      BY <1>3, <3>1, <3>2
    <3>4. Waiting(a, "insert")' + Waiting(a, "increment") <= Cardinality(Requests)
      BY <2>3, OneStatementEach
    <3>5. limit'[a] = limit[a]
      BY <1>7, <2>1
    <3> QED BY <1>3, <2>2, <3>1, <3>3, <3>4, <3>5 DEF Bounded
  <2> QED BY <2>4, <2>5
<1>9. ASSUME NEW r \in Requests, NEW u \in Users, NEW b \in Activities, Leave(r, u, b)
      PROVE  Bounded(a)'
  <2>1. /\ request'[r].at = "decrement" /\ request[r].at = "idle"
        /\ \A p \in Requests \ {r} : request'[p] = request[p]
        /\ UNCHANGED <<activityVars, undercounted>>
    BY <1>9 DEF Leave, CapacityTypeOK
  <2>2. Members(a)' + One(a = b) = Members(a)
    BY <1>9, MemberLeaves DEF Leave
  <2>3. Waiting(a, "insert")' = Waiting(a, "insert")
    BY <1>3, <2>1, RequestMoves DEF IsAt, One
  <2> QED BY <1>1, <1>3, <1>5, <1>7, <2>1, <2>2, <2>3 DEF One
<1>10. ASSUME NEW r \in Requests, JoinInsert(r)
       PROVE  Bounded(a)'
  <2> DEFINE b == request[r].activity
             u == request[r].user
  <2>1. /\ request[r].at = "insert" /\ u \in Users /\ request'[r].at # "insert"
        /\ \A p \in Requests \ {r} : request'[p] = request[p]
        /\ UNCHANGED <<activityVars, undercounted>>
    BY <1>10, AtWork DEF JoinInsert, GoTo, Finish, NoRequest, CapacityTypeOK
  <2>2. Members(a)' <= Members(a) + One(a = b)
    BY <1>3, <1>10, <2>1, MemberJoins DEF JoinInsert, One
  <2>3. Waiting(a, "insert")' + One(a = b) = Waiting(a, "insert")
    BY <1>3, <2>1, RequestMoves DEF IsAt, One
  <2> QED BY <1>1, <1>3, <1>5, <1>7, <2>1, <2>2, <2>3 DEF One
<1>11. ASSUME NEW r \in Requests, Increment(r) \/ Decrement(r) \/ CutOff(r)
       PROVE  Bounded(a)'
  <2>1. /\ request'[r].at = "idle"
        /\ \A p \in Requests \ {r} : request'[p] = request[p]
        /\ UNCHANGED <<activityVars, participants>>
        /\ undercounted \subseteq undercounted'
    BY <1>11 DEF Increment, Decrement, CutOff, Finish, NoRequest, CapacityTypeOK
  <2>2. Members(a)' = Members(a)
    BY <2>1, Unchanged
  <2>3. Waiting(a, "insert")' <= Waiting(a, "insert")
    BY <1>3, <2>1, RequestMoves DEF IsAt, One
  <2> QED BY <1>1, <1>3, <1>5, <1>7, <2>1, <2>2, <2>3
<1>12. CASE UNCHANGED <<activityVars, capacityVars>>
  <2>1. Members(a)' = Members(a) /\ Waiting(a, "insert")' = Waiting(a, "insert")
    BY <1>12, Unchanged DEF capacityVars
  <2> QED BY <1>1, <1>3, <1>5, <1>7, <1>12, <2>1 DEF capacityVars
<1> QED BY <1>6, <1>8, <1>9, <1>10, <1>11, <1>12, StepCases DEF Capacity

-----------------------------------------------------------------------------
(* The theorems.                                                           *)

LEMMA Initially == Init => CapacityTypeOK /\ CapacityInv
<1> SUFFICES ASSUME Init PROVE CapacityTypeOK /\ CapacityInv
  OBVIOUS
<1>1. CapacityTypeOK /\ ExistInv
  BY DEF Init, CapacityTypeOK, ExistInv, Request, NoRequest
<1>2. ASSUME NEW a \in Activities
      PROVE  /\ Participants(a) = {} /\ RequestsAt(a, "decrement") = {}
             /\ count[a] = 0 /\ a \notin created
  BY DEF Init, Participants, RequestsAt, NoRequest
<1>3. CountNeverLow
  BY <1>2, Counts DEF CountNeverLow, Members, Waiting
<1>4. OverrunInv
  BY DEF Init, OverrunInv
<1> QED BY <1>1, <1>3, <1>4 DEF CapacityInv

LEMMA Invariant == Spec => [](CapacityTypeOK /\ CapacityInv)
<1>1. CapacityTypeOK /\ CapacityInv /\ [Next]_vars => (CapacityTypeOK /\ CapacityInv)'
  BY CapacityTypeInductive, ExistInductive, CountInductive, OverrunInductive DEF CapacityInv
<1> QED BY <1>1, Initially, PTL DEF Spec

\* The limit is never compared with a count that is too low, whatever joins
\* and leaves run at the same time.
THEOREM CountIsSafe == Spec => []CountNeverLow
<1>1. CapacityInv => CountNeverLow
  BY DEF CapacityInv
<1> QED BY <1>1, Invariant, PTL

\* Of n concurrent requests at most n - 1 get in beyond the limit.
THEOREM OverrunBound == Spec => []OverrunIsBounded
<1>1. CapacityTypeOK /\ CapacityInv => OverrunIsBounded
  <2> SUFFICES ASSUME CapacityTypeOK, CapacityInv,
                      NEW a \in created, a \notin relimited, a \notin undercounted,
                      limit[a] # NoLimit, Participants(a) # {}
               PROVE  Cardinality(Participants(a)) + 1 <= limit[a] + Cardinality(Requests)
    BY DEF OverrunIsBounded
  <2>1. Members(a) + Waiting(a, "insert") + 1 <= limit[a] + Cardinality(Requests)
    BY DEF CapacityInv, OverrunInv, Members, Waiting
  <2>2. limit[a] \in Nat
    BY ConservationAssumption DEF CapacityTypeOK
  <2> QED BY <2>1, <2>2, Counts DEF Members
<1> QED BY <1>1, Invariant, PTL

-----------------------------------------------------------------------------
(* Rows of evidence.                                                       *)

LEMMA Rows ==
  ASSUME EvidenceTypeOK
  PROVE  /\ Len(evidence) \in Nat
         /\ DOMAIN evidence = 1..Len(evidence)
         /\ evidence \in [1..Len(evidence) -> EvidenceRow]
         /\ \A i \in DOMAIN evidence : i \in Nat /\ evidence[i] \in EvidenceRow
<1>1. /\ Len(evidence) \in Nat
      /\ DOMAIN evidence = 1..Len(evidence)
      /\ evidence \in [1..Len(evidence) -> EvidenceRow]
  BY LenProperties DEF EvidenceTypeOK
<1> QED BY <1>1

\* What a step may do to a row that is there: the owner stays or becomes NULL,
\* the activity stays.
RowMoves(r, s) ==
  /\ s \in EvidenceRow
  /\ s.owner \in {r.owner, Nobody}
  /\ s.activity = r.activity

\* The steps that leave the rows there are, and move them.
Updates ==
  \/ \E i \in DOMAIN evidence, s \in EvidenceStatus :
       evidence' = [evidence EXCEPT ![i] = [evidence[i] EXCEPT !.status = s]]
  \/ \E u \in Users : DeleteAccount(u)
  \/ UNCHANGED evidence

\* The step that adds one.
Inserts ==
  \E u \in Users, a \in Activities :
    evidence' = Append(evidence, [owner |-> u, activity |-> a, status |-> "pending"])

LEMMA InsertOrUpdate ==
  ASSUME EvidenceTypeOK, [Next]_vars
  PROVE  Updates \/ Inserts
<1>1. ASSUME NEW u \in Users, NEW a \in Activities, Submit(u, a)
      PROVE  Updates \/ Inserts
  BY <1>1 DEF Submit, RowsOf, Updates, Inserts, EvidenceStatus
<1>2. ASSUME NEW v \in Reviews, NEW i \in shown, NEW s \in EvidenceStatus \ {"pending"},
             Decide(v, i, s)
      PROVE  Updates
  <2>1. i \in DOMAIN evidence
    BY DEF EvidenceTypeOK
  <2> QED BY <1>2, <2>1 DEF Decide, Updates
<1>3. \/ UNCHANGED evidence
      \/ \E u \in Users, a \in Activities : Submit(u, a)
      \/ \E u \in Users : DeleteAccount(u)
      \/ \E v \in Reviews, i \in shown, s \in EvidenceStatus \ {"pending"} : Decide(v, i, s)
  BY DEF Next, vars, evidenceVars, Administer, Create, Update, Participate, JoinCheck, Leave,
         JoinInsert, Increment, Decrement, CutOff, Moderate, OpenList, Lookup, Award, BreakOff
<1> QED BY <1>1, <1>2, <1>3 DEF Updates

LEMMA StepRows ==
  ASSUME EvidenceTypeOK, [Next]_vars
  PROVE  /\ evidence' \in Seq(EvidenceRow)
         /\ DOMAIN evidence \subseteq DOMAIN evidence'
         /\ \A i \in DOMAIN evidence : RowMoves(evidence[i], evidence'[i])
         /\ \A i \in DOMAIN evidence' \ DOMAIN evidence : evidence'[i].status = "pending"
<1>1. \A i \in DOMAIN evidence : RowMoves(evidence[i], evidence[i])
  BY Rows DEF RowMoves
<1>2. ASSUME NEW i \in DOMAIN evidence, NEW s \in EvidenceStatus,
             evidence' = [evidence EXCEPT ![i] = [evidence[i] EXCEPT !.status = s]]
      PROVE  /\ evidence' \in Seq(EvidenceRow)
             /\ DOMAIN evidence' = DOMAIN evidence
             /\ \A k \in DOMAIN evidence : RowMoves(evidence[k], evidence'[k])
  <2>1. RowMoves(evidence[i], [evidence[i] EXCEPT !.status = s])
    BY Rows DEF RowMoves, EvidenceRow
  <2> QED BY <1>1, <1>2, <2>1, Rows, ExceptSeq, LenProperties DEF EvidenceTypeOK, RowMoves
<1>3. ASSUME NEW u \in Users, DeleteAccount(u)
      PROVE  /\ evidence' \in Seq(EvidenceRow)
             /\ DOMAIN evidence' = DOMAIN evidence
             /\ \A k \in DOMAIN evidence : RowMoves(evidence[k], evidence'[k])
  <2>1. evidence' = [k \in DOMAIN evidence |-> IF evidence[k].owner = u
          THEN [evidence[k] EXCEPT !.owner = Nobody] ELSE evidence[k]]
    BY <1>3 DEF DeleteAccount
  <2>2. \A k \in DOMAIN evidence : RowMoves(evidence[k], evidence'[k])
    BY <1>1, <2>1, Rows DEF RowMoves, EvidenceRow
  <2>3. evidence' \in [1..Len(evidence) -> EvidenceRow]
    BY <2>1, <2>2, Rows DEF RowMoves
  <2>4. evidence' \in Seq(EvidenceRow)
    BY <2>3, Rows, SeqDef
  <2> QED BY <2>1, <2>2, <2>4
<1>4. ASSUME NEW u \in Users, NEW a \in Activities,
             evidence' = Append(evidence, [owner |-> u, activity |-> a, status |-> "pending"])
      PROVE  /\ evidence' \in Seq(EvidenceRow)
             /\ DOMAIN evidence \subseteq DOMAIN evidence'
             /\ \A k \in DOMAIN evidence : RowMoves(evidence[k], evidence'[k])
             /\ \A k \in DOMAIN evidence' \ DOMAIN evidence : evidence'[k].status = "pending"
  <2> DEFINE row == [owner |-> u, activity |-> a, status |-> "pending"]
  <2>1. row \in EvidenceRow
    BY DEF EvidenceRow, EvidenceStatus
  <2>2. /\ evidence' \in Seq(EvidenceRow)
        /\ DOMAIN evidence' = DOMAIN evidence \union {Len(evidence) + 1}
        /\ \A k \in DOMAIN evidence : evidence'[k] = evidence[k]
        /\ evidence'[Len(evidence) + 1] = row
    BY <1>4, <2>1, Rows, AppendProperties, LenProperties DEF EvidenceTypeOK
  <2> QED BY <1>1, <2>2
<1>5. CASE UNCHANGED evidence
  BY <1>1, <1>5 DEF EvidenceTypeOK
<1> QED BY <1>2, <1>3, <1>4, <1>5, InsertOrUpdate DEF Updates, Inserts

-----------------------------------------------------------------------------
(* Steps, as far as reviews are concerned.                                 *)

LEMMA ReviewCases ==
  ASSUME [Next]_vars
  PROVE  \/ UNCHANGED <<review, approved, badges, excused>>
         \/ \E v \in Reviews, i \in shown, s \in EvidenceStatus \ {"pending"} : Decide(v, i, s)
         \/ \E v \in Reviews : Lookup(v) \/ Award(v) \/ BreakOff(v)
BY DEF Next, vars, evidenceVars, Administer, Create, Update, Participate, JoinCheck, Leave,
       JoinInsert, Increment, Decrement, CutOff, Moderate, OpenList, Submit, DeleteAccount

LEMMA EvidenceTypeInductive ==
  ASSUME CapacityTypeOK, EvidenceTypeOK, ReviewInv, [Next]_vars
  PROVE  EvidenceTypeOK'
<1>1. /\ evidence' \in Seq(EvidenceRow)
      /\ DOMAIN evidence \subseteq DOMAIN evidence'
  BY StepRows
<1>2. shown' \subseteq DOMAIN evidence'
  BY <1>1 DEF EvidenceTypeOK, Next, vars, evidenceVars, Administer, Create, Update, Participate,
     JoinCheck, Leave, JoinInsert, Increment, Decrement, CutOff, Submit, DeleteAccount, Moderate,
     OpenList, Listed, Decide, Lookup, Award, BreakOff
<1>3. \A v \in Reviews : review[v].at # "idle" =>
        /\ review[v].row \in DOMAIN evidence
        /\ evidence[review[v].row].activity \in Activities
        /\ evidence[review[v].row].owner \in Users \union {Nobody}
        /\ review[v].at = "award" => review[v].user \in Users
  BY Rows DEF ReviewInv, EvidenceRow
<1>4. NoReview \in Review
  BY DEF NoReview, Review
<1>5. ASSUME NEW v \in Reviews, NEW i \in shown, NEW s \in EvidenceStatus \ {"pending"},
             Decide(v, i, s)
      PROVE  /\ review' \in [Reviews -> Review] /\ approved' \subseteq Users \X Activities
             /\ badges' \subseteq Users \X Activities /\ excused' \subseteq DOMAIN evidence
  <2>1. [at |-> "lookup", row |-> i, user |-> Nobody] \in Review
    BY Rows DEF EvidenceTypeOK, Review
  <2>2. review' \in [Reviews -> Review]
    BY <1>5, <2>1 DEF Decide, EvidenceTypeOK
  <2> QED BY <1>5, <2>2 DEF Decide, EvidenceTypeOK
<1>6. ASSUME NEW v \in Reviews, Lookup(v)
      PROVE  /\ review' \in [Reviews -> Review] /\ approved' \subseteq Users \X Activities
             /\ badges' \subseteq Users \X Activities /\ excused' \subseteq DOMAIN evidence
  <2>1. review[v].row \in DOMAIN evidence /\ review[v].row \in Nat
    BY <1>3, <1>6, Rows DEF Lookup
  <2>2. \A u \in Users : [at |-> "award", row |-> review[v].row, user |-> u] \in Review
    BY <2>1 DEF Review
  <2>3. review' \in [Reviews -> Review]
    BY <1>4, <1>6, <2>2 DEF Lookup, EvidenceTypeOK
  <2> QED BY <1>6, <2>1, <2>3 DEF Lookup, EvidenceTypeOK
<1>7. ASSUME NEW v \in Reviews, Award(v) \/ BreakOff(v)
      PROVE  /\ review' \in [Reviews -> Review] /\ approved' \subseteq Users \X Activities
             /\ badges' \subseteq Users \X Activities /\ excused' \subseteq DOMAIN evidence
  <2>1. review' \in [Reviews -> Review]
    BY <1>4, <1>7 DEF Award, BreakOff, EvidenceTypeOK
  <2> QED BY <1>3, <1>7, <2>1 DEF Award, BreakOff, EvidenceTypeOK
<1> QED BY <1>1, <1>2, <1>5, <1>6, <1>7, ReviewCases DEF EvidenceTypeOK

\* ReviewInv for one review.
Holds(v) ==
  LET e == evidence[review[v].row] IN
    /\ review[v].row \in DOMAIN evidence
    /\ e.owner # Nobody => <<e.owner, e.activity>> \in approved
    /\ review[v].at = "award" =>
         /\ review[v].user \in Users
         /\ <<review[v].user, e.activity>> \in approved
         /\ e.owner \in {review[v].user, Nobody}

LEMMA ReviewInductive ==
  ASSUME EvidenceTypeOK, ReviewInv, [Next]_vars
  PROVE  ReviewInv'
<1>1. /\ \A v \in Reviews : review[v].at # "idle" => Holds(v)
      /\ ReviewInv' <=> \A v \in Reviews : (review[v].at # "idle" => Holds(v))'
  BY DEF ReviewInv, Holds
<1>2. approved \subseteq approved'
  BY ReviewCases DEF Decide, Lookup, Award, BreakOff
<1>3. /\ DOMAIN evidence \subseteq DOMAIN evidence'
      /\ \A i \in DOMAIN evidence : /\ evidence[i] \in EvidenceRow
                                    /\ evidence'[i].owner \in {evidence[i].owner, Nobody}
                                    /\ evidence'[i].activity = evidence[i].activity
  BY StepRows, Rows DEF RowMoves
\* A review that takes no step keeps what it relies on.
<1>4. ASSUME NEW v \in Reviews, Holds(v), review'[v] = review[v] PROVE Holds(v)'
  BY <1>2, <1>3, <1>4 DEF Holds
<1>5. ASSUME NEW v \in Reviews, NEW i \in shown, NEW s \in EvidenceStatus \ {"pending"},
             Decide(v, i, s)
      PROVE  \A w \in Reviews : (review[w].at # "idle" => Holds(w))'
  <2>1. \A w \in Reviews \ {v} : review'[w] = review[w]
    BY <1>5 DEF Decide, EvidenceTypeOK
  <2>2. i \in DOMAIN evidence
    BY DEF EvidenceTypeOK
  <2>3. CASE s = "approved"
    <3>1. review'[v].row = i /\ review'[v].at = "lookup"
      BY <1>5, <2>3 DEF Decide, EvidenceTypeOK
    <3>2. evidence'[i].owner # Nobody =>
            <<evidence'[i].owner, evidence'[i].activity>> \in approved'
      BY <1>3, <1>5, <2>2, <2>3 DEF Decide, EvidenceRow
    <3>3. Holds(v)'
      BY <1>3, <2>2, <3>1, <3>2 DEF Holds
    <3> QED BY <1>1, <1>4, <2>1, <3>3
  <2>4. CASE s # "approved"
    <3>1. review' = review
      BY <1>5, <2>4 DEF Decide
    <3> QED BY <1>1, <1>4, <3>1
  <2> QED BY <2>3, <2>4
<1>6. ASSUME NEW v \in Reviews, Lookup(v)
      PROVE  \A w \in Reviews : (review[w].at # "idle" => Holds(w))'
  <2> DEFINE e == evidence[review[v].row]
  <2>1. \A w \in Reviews \ {v} : review'[w] = review[w]
    BY <1>6 DEF Lookup, EvidenceTypeOK
  <2>2. Holds(v) /\ UNCHANGED <<evidence, approved>>
    BY <1>1, <1>6 DEF Lookup
  <2>3. CASE e.owner \in Users /\ badgeNamed[e.activity]
    <3>1. /\ review'[v].at = "award" /\ review'[v].row = review[v].row
          /\ review'[v].user = e.owner
      BY <1>6, <2>3 DEF Lookup, EvidenceTypeOK
    <3>2. e.owner # Nobody
      BY <2>3, ConservationAssumption
    <3>3. Holds(v)'
      BY <2>2, <2>3, <3>1, <3>2 DEF Holds
    <3> QED BY <1>1, <1>4, <2>1, <3>3
  <2>4. CASE ~ (e.owner \in Users /\ badgeNamed[e.activity])
    <3>1. review'[v].at = "idle"
      BY <1>6, <2>4 DEF Lookup, EvidenceTypeOK, NoReview
    <3> QED BY <1>1, <1>4, <2>1, <3>1
  <2> QED BY <2>3, <2>4
<1>7. ASSUME NEW v \in Reviews, Award(v) \/ BreakOff(v)
      PROVE  \A w \in Reviews : (review[w].at # "idle" => Holds(w))'
  <2>1. review'[v].at = "idle" /\ \A w \in Reviews \ {v} : review'[w] = review[w]
    BY <1>7 DEF Award, BreakOff, EvidenceTypeOK, NoReview
  <2> QED BY <1>1, <1>4, <2>1
<1> QED BY <1>1, <1>4, <1>5, <1>6, <1>7, ReviewCases

\* What keeps the badge of row i from being lost.
Covered(i) ==
  \/ <<evidence[i].owner, evidence[i].activity>> \in badges
  \/ i \in excused
  \/ \E v \in Reviews : review[v].at # "idle" /\ review[v].row = i

\* A row becomes approved by a decision only.
LEMMA NewApproval ==
  ASSUME EvidenceTypeOK, [Next]_vars, NEW k \in DOMAIN evidence',
         evidence'[k].status = "approved",
         ~ (k \in DOMAIN evidence /\ evidence[k].status = "approved")
  PROVE  \E v \in Reviews : k \in shown /\ Decide(v, k, "approved")
<1>1. k \in DOMAIN evidence /\ evidence[k] \in EvidenceRow /\ evidence' # evidence
  BY StepRows, Rows
<1>2. ~ \E u \in Users, a \in Activities : Submit(u, a)
  <2> SUFFICES ASSUME NEW u \in Users, NEW a \in Activities, Submit(u, a) PROVE FALSE
    OBVIOUS
  <2>1. CASE evidence' = Append(evidence, [owner |-> u, activity |-> a, status |-> "pending"])
    BY <1>1, <2>1, Rows, AppendProperties DEF EvidenceTypeOK
  <2>2. CASE \E i \in RowsOf(u, a) :
               evidence' = [evidence EXCEPT ![i] = [evidence[i] EXCEPT !.status = "pending"]]
    BY <1>1, <2>2, Rows DEF RowsOf, EvidenceRow
  <2> QED BY <2>1, <2>2 DEF Submit
<1>3. ~ \E u \in Users : DeleteAccount(u)
  BY <1>1 DEF DeleteAccount, EvidenceRow
<1>4. \A v \in Reviews, i \in shown, s \in EvidenceStatus :
        Decide(v, i, s) => i = k /\ s = "approved"
  BY <1>1, Rows DEF Decide, EvidenceTypeOK, EvidenceRow
<1>5. \/ UNCHANGED evidence
      \/ \E u \in Users, a \in Activities : Submit(u, a)
      \/ \E u \in Users : DeleteAccount(u)
      \/ \E v \in Reviews, i \in shown, s \in EvidenceStatus \ {"pending"} : Decide(v, i, s)
  BY DEF Next, vars, evidenceVars, Administer, Create, Update, Participate, JoinCheck, Leave,
         JoinInsert, Increment, Decrement, CutOff, Moderate, OpenList, Lookup, Award, BreakOff
<1> QED BY <1>1, <1>2, <1>3, <1>4, <1>5

LEMMA BadgeInductive ==
  ASSUME EvidenceTypeOK, ReviewInv, ApprovedRowHasBadge, [Next]_vars
  PROVE  ApprovedRowHasBadge'
<1>1. SUFFICES ASSUME NEW i \in DOMAIN evidence', evidence'[i].status = "approved",
                      evidence'[i].owner # Nobody
               PROVE  Covered(i)'
  BY DEF ApprovedRowHasBadge, Covered
<1>2. CASE ~ (i \in DOMAIN evidence /\ evidence[i].status = "approved")
  <2>1. PICK v \in Reviews : Decide(v, i, "approved")
    BY <1>1, <1>2, NewApproval
  <2>2. review'[v].at # "idle" /\ review'[v].row = i
    BY <2>1 DEF Decide, EvidenceTypeOK
  <2> QED BY <2>2 DEF Covered
<1>3. CASE i \in DOMAIN evidence /\ evidence[i].status = "approved"
  <2>1. /\ evidence'[i].owner = evidence[i].owner
        /\ evidence'[i].activity = evidence[i].activity
        /\ evidence[i].owner # Nobody
        /\ evidence[i] \in EvidenceRow
    BY <1>1, <1>3, StepRows, Rows DEF RowMoves
  <2>2. Covered(i)
    BY <1>3, <2>1 DEF ApprovedRowHasBadge, Covered
  <2>3. badges \subseteq badges' /\ excused \subseteq excused'
    BY ReviewCases DEF Decide, Lookup, Award, BreakOff
  <2>4. CASE <<evidence[i].owner, evidence[i].activity>> \in badges \/ i \in excused
    BY <2>1, <2>3, <2>4 DEF Covered
  <2>5. ASSUME NEW v \in Reviews, review[v].at # "idle", review[v].row = i
        PROVE  Covered(i)'
    <3>1. CASE review'[v] = review[v]
      BY <2>5, <3>1 DEF Covered
    <3>2. CASE Lookup(v)
      <4>1. evidence[i].owner \in Users
        BY <2>1 DEF EvidenceRow
      <4>2. CASE badgeNamed[evidence[i].activity]
        <5>1. review'[v].at = "award" /\ review'[v].row = i
          BY <2>5, <3>2, <4>1, <4>2 DEF Lookup, EvidenceTypeOK
        <5> QED BY <5>1 DEF Covered
      <4>3. CASE ~ badgeNamed[evidence[i].activity]
        BY <2>5, <3>2, <4>3 DEF Lookup, Covered
      <4> QED BY <4>2, <4>3
    <3>3. CASE Award(v)
      <4>1. evidence[i].owner = review[v].user
        BY <2>1, <2>5, <3>3 DEF Award, ReviewInv
      <4>2. <<evidence[i].owner, evidence[i].activity>> \in badges'
        BY <2>5, <3>3, <4>1 DEF Award
      <4> QED BY <2>1, <4>2 DEF Covered
    <3>4. CASE BreakOff(v)
      BY <2>5, <3>4 DEF BreakOff, Covered
    <3>5. review'[v] = review[v] \/ Lookup(v) \/ Award(v) \/ BreakOff(v)
      <4>1. ASSUME NEW w \in Reviews \ {v}, Lookup(w) \/ Award(w) \/ BreakOff(w)
            PROVE  review'[v] = review[v]
        BY <4>1 DEF Lookup, Award, BreakOff, EvidenceTypeOK
      <4>2. ASSUME NEW w \in Reviews, NEW k \in shown, NEW s \in EvidenceStatus, Decide(w, k, s)
            PROVE  review'[v] = review[v]
        BY <2>5, <4>2 DEF Decide, EvidenceTypeOK
      <4> QED BY <4>1, <4>2, ReviewCases
    <3> QED BY <3>1, <3>2, <3>3, <3>4, <3>5
  <2> QED BY <2>2, <2>4, <2>5 DEF Covered
<1> QED BY <1>2, <1>3

LEMMA BadgesInitially == Init => EvidenceTypeOK /\ BadgeInv
BY DEF Init, EvidenceTypeOK, NoReview, Review, BadgeInv, ReviewInv, ApprovedRowHasBadge

LEMMA BadgeInvariant == Spec => [](TypeOK /\ BadgeInv)
<1>1. EvidenceTypeOK /\ BadgeInv /\ CapacityTypeOK /\ [Next]_vars => (EvidenceTypeOK /\ BadgeInv)'
  BY EvidenceTypeInductive, ReviewInductive, BadgeInductive DEF BadgeInv
<1>2. TypeOK <=> CapacityTypeOK /\ EvidenceTypeOK
  BY DEF TypeOK
<1> QED BY <1>1, <1>2, BadgesInitially, Invariant, PTL DEF Spec

\* Every reachable state is well typed: in particular what a review looks up is
\* there, and its badge goes to a user.
THEOREM TypeCorrect == Spec => []TypeOK
BY BadgeInvariant, PTL

\* No approval loses its badge, whatever is resubmitted and reviewed between the
\* three statements of ReviewEvidence.
THEOREM BadgeKept == Spec => []ApprovedRowHasBadge
<1>1. BadgeInv => ApprovedRowHasBadge
  BY DEF BadgeInv
<1> QED BY <1>1, BadgeInvariant, PTL

\* Conservation activities implement the badge ledger: a badge is given for an
\* approval only, and for good.
THEOREM Implementation == Spec => ImplementsBadgeLedger
<1>1. Init => Ledger!Init
  BY DEF Init, Ledger!Init
<1>2. TypeOK /\ BadgeInv /\ [Next]_vars => [Ledger!Next]_(Ledger!ledgerVars)
  <2> SUFFICES ASSUME TypeOK, BadgeInv, [Next]_vars
               PROVE  [Ledger!Next]_(Ledger!ledgerVars)
    OBVIOUS
  <2>1. EvidenceTypeOK
    BY DEF TypeOK
  <2>2. ASSUME NEW v \in Reviews, NEW i \in shown, NEW s \in EvidenceStatus, Decide(v, i, s)
        PROVE  [Ledger!Next]_(Ledger!ledgerVars)
    <3> DEFINE e == evidence[i]
    <3>1. e.activity \in Activities /\ e.owner \in Users \union {Nobody}
      BY <2>1, Rows DEF EvidenceTypeOK, EvidenceRow
    <3>2. UNCHANGED badges
      BY <2>2 DEF Decide
    <3>3. CASE s = "approved" /\ e.owner \in Users
      <4>1. approved' = approved \union {<<e.owner, e.activity>>}
        BY <2>2, <3>1, <3>3 DEF Decide
      <4> QED BY <3>1, <3>2, <3>3, <4>1 DEF Ledger!Next, Ledger!Earn
    <3>4. CASE ~ (s = "approved" /\ e.owner \in Users)
      <4>1. approved' = approved
        BY <2>2, <3>1, <3>4, ConservationAssumption DEF Decide
      <4> QED BY <3>2, <4>1 DEF Ledger!ledgerVars
    <3> QED BY <3>3, <3>4
  <2>3. ASSUME NEW v \in Reviews, Award(v)
        PROVE  Ledger!Next
    <3> DEFINE a == evidence[review[v].row].activity
    <3>1. /\ review[v].user \in Users /\ <<review[v].user, a>> \in approved
          /\ review[v].row \in DOMAIN evidence
      BY <2>3 DEF Award, BadgeInv, ReviewInv
    <3>2. a \in Activities
      BY <2>1, <3>1, Rows DEF EvidenceRow
    <3>3. Ledger!Give(review[v].user, a)
      BY <2>3, <3>1 DEF Award, Ledger!Give
    <3> QED BY <3>1, <3>2, <3>3 DEF Ledger!Next
  <2>4. \/ UNCHANGED <<approved, badges>>
        \/ \E v \in Reviews, i \in shown, s \in EvidenceStatus : Decide(v, i, s)
        \/ \E v \in Reviews : Award(v)
    BY ReviewCases DEF Lookup, BreakOff
  <2>5. UNCHANGED <<approved, badges>> => UNCHANGED Ledger!ledgerVars
    BY DEF Ledger!ledgerVars
  <2> QED BY <2>2, <2>3, <2>4, <2>5
<1> QED BY <1>1, <1>2, BadgeInvariant, PTL DEF Spec, ImplementsBadgeLedger, Ledger!Spec
=============================================================================
