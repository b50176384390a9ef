------------------------ MODULE EvergreenSlotsProofs ------------------------
(***************************************************************************)
(* Quotas, numbers and logins are given out once, for any number of        *)
(* contracts, contents and requests and any bodies.  The argument is the   *)
(* lock's: while a request holds the lock of a contract nothing adds to    *)
(* its Evergreen contents, so the count it read is still their number when *)
(* it writes the next one.  What onboarding wrote stays in deadline order, *)
(* because it fills the quota at once.                                     *)
(*                                                                         *)
(* The forms in front of it take no steps of the server's but its own, so  *)
(* all of this holds under them; what they send is what the server takes,  *)
(* because a call carries what the form judged on the day it was sent.     *)
(***************************************************************************)
EXTENDS ScheduleForms, FiniteSetTheorems, WellFoundedInduction, TLAPS

-----------------------------------------------------------------------------
(* Lists of days.  What sorting and filtering come to is shown by           *)
(* induction over numbers, from the least one that every set of them has.  *)

\* A set of numbers that is not empty has a least one.
LEMMA LeastNumber ==
    ASSUME NEW T, T \subseteq Nat, T # {}
    PROVE  \E n \in T : \A m \in T : n <= m
<1> DEFINE R == OpToRel(<, Nat)
<1>1. \A m, n \in Nat : m < n => <<m, n>> \in R
  BY DEF OpToRel
<1>2. IsWellFoundedOn(R, Nat)
  BY NatLessThanWellFounded
<1> HIDE DEF R
<1>3. PICK n \in T : \A m \in T : ~(<<m, n>> \in R)
  BY <1>2, WFMin
<1>4. \A m \in T : m \in Nat /\ ~(m < n)
  BY <1>1, <1>3
<1>5. n \in Nat
  OBVIOUS
<1>6. \A m \in T : n <= m
  BY <1>4, <1>5
<1> QED
  BY <1>6

\* Induction over the numbers, as a fact about sets of numbers.
LEMMA EveryNumber ==
    ASSUME NEW T, 0 \in T, \A n \in Nat : n \in T => n + 1 \in T
    PROVE  Nat \subseteq T
<1> SUFFICES ASSUME ~(Nat \subseteq T)
             PROVE  FALSE
  OBVIOUS
<1>1. PICK n \in Nat \ T : \A m \in Nat \ T : n <= m
  <2>1. Nat \ T \subseteq Nat /\ Nat \ T # {}
    OBVIOUS
  <2> QED
    BY <2>1, LeastNumber
<1>2. n # 0 /\ n \in Nat
  OBVIOUS
<1>3. n - 1 \in Nat /\ n - 1 < n
  BY <1>2
<1>4. n - 1 \in T
  BY <1>1, <1>3
<1>5. (n - 1) + 1 \in T
  BY <1>3, <1>4
<1> QED
  BY <1>2, <1>5

\* An order of the first n days of a list.
Sorts(p, n, days) ==
    /\ p \in [1 .. n -> 1 .. n]
    /\ \A i, j \in 1 .. n : i < j => p[i] # p[j] /\ days[p[i]] <= days[p[j]]

\* One more day goes in front of the first that is later.
LEMMA OneMoreDay ==
    ASSUME NEW days, NEW n \in Nat, \A i \in 1 .. n + 1 : days[i] \in Int,
           NEW p, Sorts(p, n, days)
    PROVE  \E q : Sorts(q, n + 1, days)
<1> DEFINE Later == {i \in 1 .. n : days[n + 1] < days[p[i]]}
<1>1. \A i \in 1 .. n : p[i] \in 1 .. n /\ days[p[i]] \in Int
  BY DEF Sorts
<1>2. PICK k \in 1 .. n + 1 :
         /\ \A i \in 1 .. n : i < k => days[p[i]] <= days[n + 1]
         /\ \A i \in 1 .. n : k <= i => days[n + 1] <= days[p[i]]
  <2>1. CASE Later = {}
    <3>1. \A i \in 1 .. n : days[p[i]] <= days[n + 1]
      BY <1>1, <2>1
    <3> QED
      BY <3>1
  <2>2. CASE Later # {}
    <3>0. Later \subseteq Nat
      OBVIOUS
    <3> HIDE DEF Later
    <3>1. PICK m \in Later : \A i \in Later : m <= i
      BY <2>2, <3>0, LeastNumber
    <3>2. m \in 1 .. n /\ days[n + 1] < days[p[m]]
      BY DEF Later
    <3>3. \A i \in 1 .. n : i < m => days[p[i]] <= days[n + 1]
      BY <1>1, <3>1, <3>2 DEF Later
    <3>4. \A i \in 1 .. n : m < i => days[p[m]] <= days[p[i]]
      BY <3>2 DEF Sorts
    <3>5. \A i \in 1 .. n : m <= i => days[n + 1] <= days[p[i]]
      BY <1>1, <3>2, <3>4
    <3>6. m \in 1 .. n + 1
      BY <3>2
    <3> QED
      BY <3>3, <3>5, <3>6
  <2> QED
    BY <2>1, <2>2
<1> DEFINE q == [i \in 1 .. n + 1 |->
                   IF i < k THEN p[i] ELSE IF i = k THEN n + 1 ELSE p[i - 1]]
<1>3. \A i \in 1 .. n + 1 :
        \/ i < k /\ i \in 1 .. n /\ q[i] = p[i]
        \/ i = k /\ q[i] = n + 1
        \/ k < i /\ i - 1 \in 1 .. n /\ k <= i - 1 /\ q[i] = p[i - 1]
  OBVIOUS
<1>4. q \in [1 .. n + 1 -> 1 .. n + 1]
  <2>1. \A i \in 1 .. n + 1 : q[i] \in 1 .. n + 1
    <3> HIDE DEF q
    <3> QED
      BY <1>1, <1>3
  <2> QED
    BY <2>1
<1>5. ASSUME NEW i \in 1 .. n + 1, NEW j \in 1 .. n + 1, i < j
      PROVE  q[i] # q[j] /\ days[q[i]] <= days[q[j]]
  <2> HIDE DEF q
  <2>0. \A a, b \in 1 .. n : a < b => p[a] # p[b] /\ days[p[a]] <= days[p[b]]
    BY DEF Sorts
  <2>1. CASE j < k
    BY <1>3, <1>5, <2>0, <2>1
  <2>2. CASE j = k
    <3>1. i \in 1 .. n /\ i < k /\ q[i] = p[i] /\ q[j] = n + 1
      BY <1>3, <1>5, <2>2
    <3> QED
      BY <1>1, <1>2, <3>1
  <2>3. CASE k < j
    <3>1. j - 1 \in 1 .. n /\ k <= j - 1 /\ q[j] = p[j - 1]
      BY <1>3, <2>3
    <3>2. CASE i < k
      <4>1. i \in 1 .. n /\ q[i] = p[i] /\ i < j - 1
        BY <1>3, <3>1, <3>2
      <4> QED
        BY <2>0, <3>1, <4>1
    <3>3. CASE i = k
      <4>1. q[i] = n + 1
        BY <1>3, <3>3
      <4> QED
        BY <1>1, <1>2, <3>1, <4>1
    <3>4. CASE k < i
      <4>1. i - 1 \in 1 .. n /\ q[i] = p[i - 1] /\ i - 1 < j - 1
        BY <1>3, <1>5, <3>4
      <4> QED
        BY <2>0, <3>1, <4>1
    <3> QED
      BY <3>2, <3>3, <3>4
  <2> QED
    BY <2>1, <2>2, <2>3
<1>6. Sorts(q, n + 1, days)
  <2> HIDE DEF q
  <2> QED
    BY <1>4, <1>5 DEF Sorts
<1> QED
  BY <1>6

\* Every list of days has an order, and InOrder is the list in one.
LEMMA InOrderSorts ==
    ASSUME NEW days \in Seq(Int)
    PROVE  /\ InOrder(days) \in Seq(Int)
           /\ Len(InOrder(days)) = Len(days)
           /\ \A i, j \in 1 .. Len(days) : i <= j => InOrder(days)[i] <= InOrder(days)[j]
           /\ \A i \in 1 .. Len(days) :
                \E k \in 1 .. Len(days) : InOrder(days)[i] = days[k]
<1> DEFINE n == Len(days)
           T == {m \in Nat : m <= n => \E p : Sorts(p, m, days)}
<1>1. n \in Nat /\ \A i \in 1 .. n : days[i] \in Int
  OBVIOUS
<1>2. 0 \in T
  <2>1. Sorts([i \in 1 .. 0 |-> i], 0, days)
    BY DEF Sorts
  <2> QED
    BY <2>1
<1>3. ASSUME NEW m \in Nat, m \in T
      PROVE  m + 1 \in T
  <2>1. CASE m + 1 <= n
    <3>1. PICK p : Sorts(p, m, days)
      BY <1>1, <1>3, <2>1
    <3>2. \A i \in 1 .. m + 1 : days[i] \in Int
      BY <1>1, <2>1
    <3> QED
      BY <3>1, <3>2, OneMoreDay
  <2>2. CASE ~(m + 1 <= n)
    BY <2>2
  <2> QED
    BY <2>1, <2>2
<1>4. n \in T
  <2> HIDE DEF T
  <2>1. Nat \subseteq T
    BY <1>2, <1>3, EveryNumber
  <2> QED
    BY <1>1, <2>1
<1>5. PICK sorting : Sorts(sorting, n, days)
  BY <1>4
<1> DEFINE order == CHOOSE p \in [1 .. n -> 1 .. n] :
                      \A i, j \in 1 .. n : i < j => p[i] # p[j] /\ days[p[i]] <= days[p[j]]
<1>6. Sorts(order, n, days)
  BY <1>5 DEF Sorts
<1>7. InOrder(days) = [i \in 1 .. n |-> days[order[i]]]
  BY DEF InOrder
<1> HIDE DEF order, n
<1>8. \A i \in 1 .. n : order[i] \in 1 .. n /\ InOrder(days)[i] = days[order[i]]
  BY <1>6, <1>7 DEF Sorts
<1>9. InOrder(days) \in Seq(Int) /\ Len(InOrder(days)) = n
  <2>1. InOrder(days) \in [1 .. n -> Int]
    BY <1>1, <1>7, <1>8
  <2> QED
    BY <1>1, <2>1
<1>10. \A i, j \in 1 .. n : i <= j => InOrder(days)[i] <= InOrder(days)[j]
  <2>1. ASSUME NEW i \in 1 .. n, NEW j \in 1 .. n, i <= j
        PROVE  InOrder(days)[i] <= InOrder(days)[j]
    <3>1. CASE i = j
      BY <1>1, <1>8, <3>1
    <3>2. CASE i < j
      BY <1>6, <1>8, <3>2 DEF Sorts
    <3> QED
      BY <1>1, <2>1, <3>1, <3>2
  <2> QED
    BY <2>1
<1> QED
  BY <1>8, <1>9, <1>10 DEF n

-----------------------------------------------------------------------------
(* The invariant of the rows and of the requests that work on them.        *)

RowsAreTyped ==
    /\ contracts \in [Contracts -> ContractRows \cup {NoContract}]
    /\ DOMAIN contents = ContentIds
    /\ \A x \in ContentIds :
         contents[x] # NoContent =>
            /\ contents[x].contract \in Contracts
            /\ contents[x].type \in ContentTypes
            /\ contents[x].number \in Nat
            /\ contracts[contents[x].contract] # NoContract

LoginsAreUnique ==
    \A c, d \in Contracts :
        contracts[c].email = contracts[d].email /\ contracts[c].email # NoEmail => c = d

CreatorIsChecked(r) ==
    InPhase(r, "creator", "checked") =>
        LET b == requests[r].body IN
        /\ b.email \in Emails
        /\ b.start \in Int /\ b.end \in Int
        /\ b.quota \in 1 .. MaxQuota
        /\ Len(b.deadlines) = b.quota

ContentIsTyped(r) ==
    requests[r].kind = "content" =>
        /\ requests[r].phase \in {"checked", "locked", "answered"}
        /\ requests[r].body.contract \in Contracts
        /\ requests[r].body.type \in ContentTypes

\* What the holder of a lock knows is still so, and nobody else holds it.
LockIsGood(r) ==
    InPhase(r, "content", "locked") =>
        LET c == requests[r].body.contract IN
        /\ contracts[c] # NoContract
        /\ requests[r].scheduled = Cardinality(Evergreen(c))
        /\ \A q \in Requests : HoldsLock(q, c) => q = r

RequestsAreGood ==
    /\ DOMAIN requests = Requests
    /\ \A r \in Requests :
         CreatorIsChecked(r) /\ ContentIsTyped(r) /\ LockIsGood(r)

SlotInv ==
    /\ RowsAreTyped
    /\ LoginsAreUnique
    /\ RequestsAreGood
    /\ QuotaHolds
    /\ NumbersCountUp

\* Bodies as the controllers hand them on, and the steps of a server that is
\* sent nothing else, by whatever client.
CreatorBody(b) ==
    /\ b.email \in Emails
    /\ b.start \in Int /\ b.end \in Int /\ b.quota \in Int
    /\ b.deadlines \in Seq(Int)

ContentBody(b) ==
    b.contract \in Contracts /\ b.type \in ContentTypes /\ b.deadline \in Int

ServerStep ==
    \/ \E r \in Requests :
         \/ \E b : CreatorBody(b) /\ ReceiveCreator(r, b)
         \/ \E b : ContentBody(b) /\ ReceiveContent(r, b)
         \/ Work(r)
         \/ Forget(r) /\ UNCHANGED <<rowVars, today>>
    \/ DayPasses

LEMMA ServerSteps == [SlotNext]_slotVars => [ServerStep]_slotVars
BY BodiesAssumption DEF SlotNext, ServerStep, CreatorBody, ContentBody

-----------------------------------------------------------------------------
(* Evergreen contents and their number.                                    *)

\* The Evergreen contents of a contract are finitely many.
LEMMA EvergreenIsFinite ==
    ASSUME NEW c
    PROVE  /\ IsFiniteSet(Evergreen(c))
           /\ Cardinality(Evergreen(c)) \in Nat
<1>1. IsFiniteSet(Evergreen(c))
  BY SlotsAssumption, FS_Subset DEF Evergreen
<1> QED BY <1>1, FS_CardinalityType

\* A rewritten row changes only the contract it is written for.
LEMMA OneMoreContent ==
    ASSUME RowsAreTyped, NEW x \in ContentIds, contents[x] = NoContent, NEW row,
           contents' = [contents EXCEPT ![x] = row]
    PROVE  \A d \in Contracts :
             IF d = row.contract /\ row.type = "evergreen"
             THEN /\ Evergreen(d)' = Evergreen(d) \cup {x}
                  /\ x \notin Evergreen(d)
                  /\ {contents'[y].number : y \in Evergreen(d)'}
                       = {contents[y].number : y \in Evergreen(d)} \cup {row.number}
             ELSE /\ Evergreen(d)' = Evergreen(d)
                  /\ {contents'[y].number : y \in Evergreen(d)'}
                       = {contents[y].number : y \in Evergreen(d)}
<1>1. contents[x].type = "none"
  BY DEF NoContent
<1>2. /\ contents'[x] = row
      /\ \A y \in ContentIds : y # x => contents'[y] = contents[y]
  BY DEF RowsAreTyped
<1> TAKE d \in Contracts
<1>3. x \notin Evergreen(d)
  BY <1>1 DEF Evergreen
<1>4. \A y \in Evergreen(d) : contents'[y] = contents[y]
  BY <1>2, <1>3 DEF Evergreen
<1>5. CASE d = row.contract /\ row.type = "evergreen"
  <2>1. Evergreen(d)' = Evergreen(d) \cup {x}
    BY <1>1, <1>2, <1>5 DEF Evergreen
  <2>2. {contents'[y].number : y \in Evergreen(d)'}
          = {contents[y].number : y \in Evergreen(d)} \cup {row.number}
    BY <1>2, <1>4, <2>1
  <2> QED BY <1>3, <1>5, <2>1, <2>2
<1>6. CASE ~(d = row.contract /\ row.type = "evergreen")
  <2>1. Evergreen(d)' = Evergreen(d)
    BY <1>1, <1>2, <1>6 DEF Evergreen
  <2>2. {contents'[y].number : y \in Evergreen(d)'}
          = {contents[y].number : y \in Evergreen(d)}
    BY <1>4, <2>1
  <2> QED BY <1>6, <2>1, <2>2
<1> QED BY <1>5, <1>6

\* The contents of an onboarding are the Evergreen contents of its contract,
\* numbered 1 to n, and nobody else's.
LEMMA AWholeBatch ==
    ASSUME RowsAreTyped, NEW c \in Contracts, contracts[c] = NoContract,
           NEW n \in Nat, NEW days, NEW ids \in NewIds(n),
           contents' = Batch(c, days, ids)
    PROVE  /\ \A d \in Contracts : d # c =>
                /\ Evergreen(d)' = Evergreen(d)
                /\ {contents'[y].number : y \in Evergreen(d)'}
                     = {contents[y].number : y \in Evergreen(d)}
           /\ Cardinality(Evergreen(c)') = n
           /\ {contents'[y].number : y \in Evergreen(c)'} = 1 .. n
<1> DEFINE New == {ids[i] : i \in 1 .. n}
<1>1. /\ DOMAIN ids = 1 .. n
      /\ \A i \in 1 .. n : ids[i] \in ContentIds /\ contents[ids[i]] = NoContent
      /\ \A i, j \in 1 .. n : ids[i] = ids[j] => i = j
  BY DEF NewIds, FreeIds
<1>2. \A i \in 1 .. n :
         /\ contents'[ids[i]].contract = c
         /\ contents'[ids[i]].type = "evergreen"
         /\ contents'[ids[i]].number = i
  <2> TAKE i \in 1 .. n
  <2>1. (CHOOSE j \in DOMAIN ids : ids[j] = ids[i]) = i
    BY <1>1
  <2>2. contents'[ids[i]] = [contract |-> c, type |-> "evergreen",
                             deadline |-> days[i], number |-> i]
    BY <1>1, <2>1 DEF Batch
  <2> QED BY <2>2
<1>3. \A y \in ContentIds : y \notin New => contents'[y] = contents[y]
  BY <1>1 DEF Batch
<1>4. \A y \in New : contents[y].type = "none"
  BY <1>1 DEF NoContent
<1>5. Evergreen(c) = {}
  <2> SUFFICES ASSUME NEW y \in Evergreen(c) PROVE FALSE
    OBVIOUS
  <2>1. contents[y].type = "evergreen" /\ contents[y].contract = c /\ y \in ContentIds
    BY DEF Evergreen
  <2>2. contents[y] # NoContent
    BY <2>1 DEF NoContent
  <2> QED BY <2>1, <2>2 DEF RowsAreTyped
<1>6. Evergreen(c)' = New
  <2>1. New \subseteq Evergreen(c)'
    BY <1>1, <1>2 DEF Evergreen
  <2>2. \A y \in ContentIds \ New : y \notin Evergreen(c)'
    BY <1>3, <1>5 DEF Evergreen
  <2> QED BY <1>1, <2>1, <2>2 DEF Evergreen
<1>7. \A d \in Contracts : d # c => Evergreen(d)' = Evergreen(d)
  BY <1>1, <1>2, <1>3, <1>4 DEF Evergreen
<1>8. \A d \in Contracts : d # c => \A y \in Evergreen(d) : contents'[y] = contents[y]
  BY <1>3, <1>4 DEF Evergreen
<1>9. Cardinality(New) = n
  <2>1. ids \in Bijection(1 .. n, New)
    BY <1>1 DEF NewIds, Bijection, Injection, Surjection, IsInjective
  <2>2. ExistsBijection(1 .. n, New)
    BY <2>1 DEF ExistsBijection
  <2>3. IsFiniteSet(1 .. n) /\ Cardinality(1 .. n) = n
    BY FS_Interval
  <2> QED BY <2>2, <2>3, FS_Bijection
<1>10. {contents'[y].number : y \in New} = 1 .. n
  BY <1>2
<1> QED BY <1>6, <1>7, <1>8, <1>9, <1>10

-----------------------------------------------------------------------------
(* What the checks of a body are worth.                                    *)

\* A creator's body that passes both checks has a quota within its cap and a
\* deadline for every content of it.
LEMMA CheckedBodies ==
    ASSUME NEW b, b.quota \in Int, NEW day,
           CheckNewCreator(b, day) = {}, CheckSchedule(b, day) = {}
    PROVE  b.quota \in 1 .. MaxQuota /\ Len(b.deadlines) = b.quota
<1>1. QuotaErrors(b) = {}
  BY DEF CheckNewCreator, NumberErrors
<1>2. b.quota > 0 /\ ~(b.quota > MaxQuota)
  BY <1>1 DEF QuotaErrors
<1>3. Len(b.deadlines) = b.quota
  BY DEF CheckSchedule
<1> QED BY <1>2, <1>3, ScheduleAssumption

-----------------------------------------------------------------------------
(* The invariant.                                                          *)

\* It holds before anything was asked.
LEMMA InvInit == SlotInit => SlotInv
<1> SUFFICES ASSUME SlotInit PROVE SlotInv
  OBVIOUS
<1>1. \A c \in Contracts : Evergreen(c) = {}
  BY DEF SlotInit, Evergreen, NoContent
<1>2. RowsAreTyped
  BY SlotsAssumption DEF SlotInit, RowsAreTyped
<1>3. LoginsAreUnique
  BY SlotsAssumption DEF SlotInit, LoginsAreUnique, NoContract
<1>4. RequestsAreGood
  BY DEF SlotInit, RequestsAreGood, CreatorIsChecked, ContentIsTyped, LockIsGood,
         InPhase, Idle
<1>5. \A c \in Contracts : contracts[c].quota \in Nat
  BY <1>2, ScheduleAssumption DEF RowsAreTyped, ContractRows, NoContract
<1>6. QuotaHolds /\ NumbersCountUp
  <2>1. Cardinality({}) = 0
    BY FS_EmptySet
  <2>2. 1 .. 0 = {}
    OBVIOUS
  <2>3. ASSUME NEW c \in Contracts
        PROVE  Cardinality(Evergreen(c)) <= contracts[c].quota
    <3>1. Cardinality(Evergreen(c)) = 0
      BY <1>1, <2>1
    <3> QED BY <1>5, <3>1
  <2>4. ASSUME NEW c \in Contracts
        PROVE  {contents[x].number : x \in Evergreen(c)} = 1 .. Cardinality(Evergreen(c))
    BY <1>1, <2>1, <2>2
  <2> QED BY <2>3, <2>4 DEF QuotaHolds, NumbersCountUp
<1> QED BY <1>2, <1>3, <1>4, <1>6 DEF SlotInv

\* A step that only moves one request, to a state that is good by itself and
\* holds no lock, keeps it.
LEMMA RequestMoves ==
    ASSUME SlotInv, UNCHANGED rowVars, NEW r \in Requests, NEW q,
           requests' = [requests EXCEPT ![r] = q],
           q.kind = "content" => /\ q.phase \in {"checked", "answered"}
                                 /\ q.body.contract \in Contracts
                                 /\ q.body.type \in ContentTypes,
           q.kind = "creator" /\ q.phase = "checked" =>
                /\ q.body.email \in Emails
                /\ q.body.start \in Int /\ q.body.end \in Int
                /\ q.body.quota \in 1 .. MaxQuota
                /\ Len(q.body.deadlines) = q.body.quota
    PROVE  SlotInv'
<1>1. /\ requests'[r] = q
      /\ \A p \in Requests : p # r => requests'[p] = requests[p]
      /\ DOMAIN requests' = Requests
  BY DEF SlotInv, RequestsAreGood
<1>2. \A c : Evergreen(c)' = Evergreen(c)
  BY DEF rowVars, Evergreen
<1>3. RowsAreTyped' /\ LoginsAreUnique' /\ QuotaHolds' /\ NumbersCountUp'
  BY <1>2 DEF SlotInv, RowsAreTyped, LoginsAreUnique, QuotaHolds, NumbersCountUp, rowVars
<1>4. \A p \in Requests : CreatorIsChecked(p)' /\ ContentIsTyped(p)'
  BY <1>1 DEF SlotInv, RequestsAreGood, CreatorIsChecked, ContentIsTyped, InPhase
<1>5. \A p \in Requests : \A c : HoldsLock(p, c)' => p # r /\ HoldsLock(p, c)
  BY <1>1 DEF HoldsLock, InPhase
<1>6. \A p \in Requests : LockIsGood(p)'
  <2> SUFFICES ASSUME NEW p \in Requests, InPhase(p, "content", "locked")'
               PROVE  LockIsGood(p)'
    BY DEF LockIsGood
  <2>1. p # r /\ requests'[p] = requests[p] /\ InPhase(p, "content", "locked")
    BY <1>1 DEF InPhase
  <2>2. LockIsGood(p)
    BY DEF SlotInv, RequestsAreGood
  <2> QED BY <1>2, <1>5, <2>1, <2>2 DEF LockIsGood, rowVars
<1> QED BY <1>1, <1>3, <1>4, <1>6 DEF SlotInv, RequestsAreGood

\* Bodies arrive.
LEMMA ReceivingKeepsInv ==
    ASSUME SlotInv, NEW r \in Requests,
           \/ \E b : CreatorBody(b) /\ ReceiveCreator(r, b)
           \/ \E b : ContentBody(b) /\ ReceiveContent(r, b)
    PROVE  SlotInv'
<1>1. CASE \E b : CreatorBody(b) /\ ReceiveCreator(r, b)
  <2> PICK b : CreatorBody(b) /\ ReceiveCreator(r, b)
    BY <1>1
  <2> DEFINE errors == IF CheckNewCreator(b, today) = {} THEN CheckSchedule(b, today)
                       ELSE CheckNewCreator(b, today)
             q == IF errors = {}
                  THEN [kind |-> "creator", phase |-> "checked", body |-> b]
                  ELSE [kind |-> "creator", phase |-> "answered", body |-> b,
                        answer |-> Refused(errors)]
  <2>1. requests' = [requests EXCEPT ![r] = q] /\ UNCHANGED rowVars
    BY DEF ReceiveCreator, Receive, rowVars
  <2>2. b.email \in Emails /\ b.start \in Int /\ b.end \in Int /\ b.quota \in Int
    BY DEF CreatorBody
  <2>3. q.phase = "checked" => b.quota \in 1 .. MaxQuota /\ Len(b.deadlines) = b.quota
    BY <2>2, CheckedBodies
  <2>4. q.kind = "creator" /\ q.body = b
    OBVIOUS
  <2> HIDE DEF q
  <2> QED BY <2>1, <2>2, <2>3, <2>4, RequestMoves
<1>2. CASE \E b : ContentBody(b) /\ ReceiveContent(r, b)
  <2> PICK b : ContentBody(b) /\ ReceiveContent(r, b)
    BY <1>2
  <2> DEFINE errors == CheckNewContent(b)
             q == IF errors = {}
                  THEN [kind |-> "content", phase |-> "checked", body |-> b]
                  ELSE [kind |-> "content", phase |-> "answered", body |-> b,
                        answer |-> Refused(errors)]
  <2>1. requests' = [requests EXCEPT ![r] = q] /\ UNCHANGED rowVars
    BY DEF ReceiveContent, Receive, rowVars
  <2>2. b.contract \in Contracts /\ b.type \in ContentTypes
    BY DEF ContentBody
  <2>3. q.kind = "content" /\ q.body = b /\ q.phase \in {"checked", "answered"}
    OBVIOUS
  <2> HIDE DEF q
  <2> QED BY <2>1, <2>2, <2>3, RequestMoves
<1> QED BY <1>1, <1>2

\* Answers without a change to the rows.
LEMMA AnsweringKeepsInv ==
    ASSUME SlotInv, NEW r \in Requests,
           \/ RefuseTakenEmail(r) \/ RefuseContent(r) \/ Fail(r)
           \/ Forget(r) /\ UNCHANGED rowVars
    PROVE  SlotInv'
<1>1. UNCHANGED rowVars
  BY DEF RefuseTakenEmail, RefuseContent, Fail
<1>2. CASE Forget(r)
  <2>1. requests' = [requests EXCEPT ![r] = Idle]
    BY <1>2 DEF Forget
  <2>2. Idle.kind = "none"
    BY DEF Idle
  <2> QED BY <1>1, <2>1, <2>2, RequestMoves
<1>3. CASE RefuseTakenEmail(r) \/ RefuseContent(r) \/ Fail(r)
  <2>1. PICK answer : Reply(r, answer)
    BY <1>3 DEF RefuseTakenEmail, RefuseContent, Fail
  <2> DEFINE q == [kind |-> requests[r].kind, phase |-> "answered",
                   body |-> requests[r].body, answer |-> answer]
  <2>2. requests' = [requests EXCEPT ![r] = q]
    BY <2>1 DEF Reply
  <2>3. q.kind = "content" => q.body.contract \in Contracts /\ q.body.type \in ContentTypes
    BY DEF SlotInv, RequestsAreGood, ContentIsTyped
  <2>4. q.phase = "answered"
    OBVIOUS
  <2> HIDE DEF q
  <2> QED BY <1>1, <2>2, <2>3, <2>4, RequestMoves
<1> QED BY <1>2, <1>3

\* The lock is taken, and what is counted under it is counted right.
LEMMA LockingKeepsInv ==
    ASSUME SlotInv, NEW r \in Requests, LockContract(r)
    PROVE  SlotInv'
<1> DEFINE b == requests[r].body
           c == b.contract
<1>1. /\ InPhase(r, "content", "checked")
      /\ contracts[c] # NoContract
      /\ \A p \in Requests : ~HoldsLock(p, c)
      /\ requests' = [requests EXCEPT ![r] =
                        [kind |-> "content", phase |-> "locked", body |-> b,
                         scheduled |-> Cardinality(Evergreen(c))]]
      /\ UNCHANGED rowVars
  BY DEF LockContract
<1>2. c \in Contracts /\ b.type \in ContentTypes
  BY <1>1 DEF SlotInv, RequestsAreGood, ContentIsTyped, InPhase
<1>3. /\ requests'[r].kind = "content" /\ requests'[r].phase = "locked"
      /\ requests'[r].body = b /\ requests'[r].scheduled = Cardinality(Evergreen(c))
      /\ \A p \in Requests : p # r => requests'[p] = requests[p]
      /\ DOMAIN requests' = Requests
  BY <1>1 DEF SlotInv, RequestsAreGood
<1>4. \A d : Evergreen(d)' = Evergreen(d)
  BY <1>1 DEF rowVars, Evergreen
<1>5. RowsAreTyped' /\ LoginsAreUnique' /\ QuotaHolds' /\ NumbersCountUp'
  BY <1>1, <1>4 DEF SlotInv, RowsAreTyped, LoginsAreUnique, QuotaHolds, NumbersCountUp, rowVars
<1>6. \A p \in Requests : CreatorIsChecked(p)' /\ ContentIsTyped(p)'
  BY <1>2, <1>3 DEF SlotInv, RequestsAreGood, CreatorIsChecked, ContentIsTyped, InPhase
<1>7. \A p \in Requests : \A d : HoldsLock(p, d)' => (p = r /\ d = c) \/ (p # r /\ HoldsLock(p, d))
  BY <1>3 DEF HoldsLock, InPhase
<1>8. \A p \in Requests : LockIsGood(p)'
  <2> SUFFICES ASSUME NEW p \in Requests, InPhase(p, "content", "locked")'
               PROVE  LockIsGood(p)'
    BY DEF LockIsGood
  <2>1. CASE p = r
    BY <1>1, <1>3, <1>4, <1>7, <2>1 DEF LockIsGood, rowVars
  <2>2. CASE p # r
    <3>1. requests'[p] = requests[p] /\ InPhase(p, "content", "locked")
      BY <1>3, <2>2 DEF InPhase
    <3>2. HoldsLock(p, requests[p].body.contract)
      BY <3>1 DEF HoldsLock
    <3>3. requests[p].body.contract # c
      BY <1>1, <3>2
    <3>4. LockIsGood(p)
      BY DEF SlotInv, RequestsAreGood
    <3> QED BY <1>1, <1>4, <1>7, <3>1, <3>3, <3>4 DEF LockIsGood, rowVars
  <2> QED BY <2>1, <2>2
<1> QED BY <1>3, <1>5, <1>6, <1>8 DEF SlotInv, RequestsAreGood

\* A request that is answered while the rows change keeps the others good, as
\* long as no contract another request has locked is touched.
LEMMA AnswerKeepsRequests ==
    ASSUME SlotInv, NEW r \in Requests, NEW answer, Reply(r, answer), NEW c,
           \A d \in Contracts : d # c =>
                contracts'[d] = contracts[d] /\ Evergreen(d)' = Evergreen(d),
           \A p \in Requests : HoldsLock(p, c) => p = r
    PROVE  RequestsAreGood'
<1>1. /\ requests'[r].phase = "answered"
      /\ requests'[r].kind = requests[r].kind
      /\ requests'[r].body = requests[r].body
      /\ \A p \in Requests : p # r => requests'[p] = requests[p]
      /\ DOMAIN requests' = Requests
  BY DEF SlotInv, RequestsAreGood, Reply
<1>2. \A p \in Requests : CreatorIsChecked(p)' /\ ContentIsTyped(p)'
  BY <1>1 DEF SlotInv, RequestsAreGood, CreatorIsChecked, ContentIsTyped, InPhase
<1>3. \A p \in Requests : \A d : HoldsLock(p, d)' => p # r /\ HoldsLock(p, d)
  BY <1>1 DEF HoldsLock, InPhase
<1>4. \A p \in Requests : LockIsGood(p)'
  <2> SUFFICES ASSUME NEW p \in Requests, InPhase(p, "content", "locked")'
               PROVE  LockIsGood(p)'
    BY DEF LockIsGood
  <2>1. p # r /\ requests'[p] = requests[p] /\ InPhase(p, "content", "locked")
    BY <1>1 DEF InPhase
  <2> DEFINE d == requests[p].body.contract
  <2>2. d \in Contracts
    BY <2>1 DEF SlotInv, RequestsAreGood, ContentIsTyped, InPhase
  <2>3. HoldsLock(p, d)
    BY <2>1 DEF HoldsLock
  <2>4. d # c
    BY <2>1, <2>3
  <2>5. LockIsGood(p)
    BY DEF SlotInv, RequestsAreGood
  <2> QED BY <1>3, <2>1, <2>2, <2>4, <2>5 DEF LockIsGood
<1> QED BY <1>1, <1>2, <1>4 DEF RequestsAreGood

\* One more content, under the lock.
LEMMA CreatingKeepsInv ==
    ASSUME SlotInv, NEW r \in Requests, NEW x \in ContentIds, CreateContent(r, x)
    PROVE  SlotInv'
<1>0. InPhase(r, "content", "locked")
  BY DEF CreateContent
<1>1. PICK c \in Contracts, type \in ContentTypes :
         c = requests[r].body.contract /\ type = requests[r].body.type
  BY <1>0 DEF SlotInv, RequestsAreGood, ContentIsTyped, InPhase
<1>2. PICK day : day = requests[r].body.deadline
  OBVIOUS
<1>3. PICK n : n = IF type = "evergreen" THEN requests[r].scheduled + 1 ELSE 0
  OBVIOUS
<1>4. /\ SlotErrors(r) = {}
      /\ contents[x] = NoContent
      /\ contents' = [contents EXCEPT ![x] =
                        [contract |-> c, type |-> type, deadline |-> day, number |-> n]]
      /\ Reply(r, Saved)
      /\ contracts' = contracts
  BY <1>1, <1>2, <1>3 DEF CreateContent, FreeIds
<1>5. /\ contracts[c] # NoContract
      /\ requests[r].scheduled = Cardinality(Evergreen(c))
      /\ \A p \in Requests : HoldsLock(p, c) => p = r
  BY <1>0, <1>1 DEF SlotInv, RequestsAreGood, LockIsGood
<1>6. PICK m \in Nat : m = Cardinality(Evergreen(c))
  BY EvergreenIsFinite
<1>7. IsFiniteSet(Evergreen(c))
  BY EvergreenIsFinite
<1>8. /\ \A d \in Contracts : d # c \/ type # "evergreen" =>
           /\ Evergreen(d)' = Evergreen(d)
           /\ {contents'[y].number : y \in Evergreen(d)'}
                = {contents[y].number : y \in Evergreen(d)}
      /\ type = "evergreen" =>
           /\ Evergreen(c)' = Evergreen(c) \cup {x}
           /\ x \notin Evergreen(c)
           /\ {contents'[y].number : y \in Evergreen(c)'}
                = {contents[y].number : y \in Evergreen(c)} \cup {n}
  <2>1. RowsAreTyped
    BY DEF SlotInv
  <2>2. PICK row : /\ row.contract = c /\ row.type = type /\ row.number = n
                   /\ contents' = [contents EXCEPT ![x] = row]
    BY <1>4
  <2>3. contents[x] = NoContent
    BY <1>4
  <2>4. \A d \in Contracts :
          IF d = c /\ type = "evergreen"
          THEN /\ Evergreen(d)' = Evergreen(d) \cup {x}
               /\ x \notin Evergreen(d)
               /\ {contents'[y].number : y \in Evergreen(d)'}
                    = {contents[y].number : y \in Evergreen(d)} \cup {n}
          ELSE /\ Evergreen(d)' = Evergreen(d)
               /\ {contents'[y].number : y \in Evergreen(d)'}
                    = {contents[y].number : y \in Evergreen(d)}
    <3>1. \A d \in Contracts :
            IF d = row.contract /\ row.type = "evergreen"
            THEN /\ Evergreen(d)' = Evergreen(d) \cup {x}
                 /\ x \notin Evergreen(d)
                 /\ {contents'[y].number : y \in Evergreen(d)'}
                      = {contents[y].number : y \in Evergreen(d)} \cup {row.number}
            ELSE /\ Evergreen(d)' = Evergreen(d)
                 /\ {contents'[y].number : y \in Evergreen(d)'}
                      = {contents[y].number : y \in Evergreen(d)}
      BY <2>1, <2>2, <2>3, OneMoreContent
    <3>2. row.contract = c /\ row.type = type /\ row.number = n
      BY <2>2
    <3> QED BY <3>1, <3>2
  <2> QED BY <2>4
<1>9. type = "evergreen" => Cardinality(Evergreen(c)') = m + 1
  BY <1>6, <1>7, <1>8, FS_AddElement
<1>10. contracts[c].quota \in Nat
  BY <1>5, ScheduleAssumption DEF SlotInv, RowsAreTyped, ContractRows
<1>11. type = "evergreen" => m < contracts[c].quota
  BY <1>1, <1>4, <1>5, <1>6, <1>10 DEF SlotErrors, CheckEvergreenSlot
<1>12. ASSUME NEW d \in Contracts
       PROVE  /\ Cardinality(Evergreen(d)') <= contracts'[d].quota
              /\ {contents'[y].number : y \in Evergreen(d)'}
                   = 1 .. Cardinality(Evergreen(d)')
  <2>1. /\ Cardinality(Evergreen(d)) <= contracts[d].quota
        /\ {contents[y].number : y \in Evergreen(d)} = 1 .. Cardinality(Evergreen(d))
    BY DEF SlotInv, QuotaHolds, NumbersCountUp
  <2>2. CASE d # c \/ type # "evergreen"
    BY <1>4, <1>8, <2>1, <2>2
  <2>3. CASE d = c /\ type = "evergreen"
    <3>1. Cardinality(Evergreen(c)') <= contracts[c].quota
      BY <1>9, <1>10, <1>11, <2>3
    <3>2. n = m + 1
      BY <1>3, <1>5, <1>6, <2>3
    <3>3. {contents'[y].number : y \in Evergreen(c)'} = (1 .. m) \cup {m + 1}
      BY <1>6, <1>8, <2>1, <2>3, <3>2
    <3>4. (1 .. m) \cup {m + 1} = 1 .. m + 1
      OBVIOUS
    <3> QED BY <1>4, <1>9, <2>3, <3>1, <3>3, <3>4
  <2> QED BY <2>2, <2>3
<1>13. RowsAreTyped'
  <2>1. n \in Nat
    BY <1>3, <1>5, <1>6
  <2> QED BY <1>4, <1>5, <2>1 DEF SlotInv, RowsAreTyped
<1>14. LoginsAreUnique'
  BY <1>4 DEF SlotInv, LoginsAreUnique
<1>15. RequestsAreGood'
  BY <1>4, <1>5, <1>8, AnswerKeepsRequests
<1> QED BY <1>12, <1>13, <1>14, <1>15 DEF SlotInv, QuotaHolds, NumbersCountUp

\* A whole onboarding.
LEMMA OnboardingKeepsInv ==
    ASSUME SlotInv, NEW r \in Requests, NEW c \in Contracts, Onboard(r, c)
    PROVE  SlotInv'
<1> DEFINE b == requests[r].body
           row == [email |-> b.email, start |-> b.start, end |-> b.end, quota |-> b.quota]
<1>1. /\ InPhase(r, "creator", "checked")
      /\ contracts[c] = NoContract
      /\ ~EmailIsTaken(b.email)
      /\ contracts' = [contracts EXCEPT ![c] = row]
      /\ Reply(r, Saved)
  BY DEF Onboard
<1>2. /\ b.email \in Emails /\ b.start \in Int /\ b.end \in Int
      /\ b.quota \in 1 .. MaxQuota /\ Len(b.deadlines) = b.quota
  BY <1>1 DEF SlotInv, RequestsAreGood, CreatorIsChecked
<1>3. PICK ids \in NewIds(b.quota) : contents' = Batch(c, InOrder(b.deadlines), ids)
  BY <1>2 DEF Onboard
<1>4. row \in ContractRows /\ row # NoContract /\ b.quota \in Nat
  BY <1>2, SlotsAssumption, ScheduleAssumption DEF ContractRows, NoContract
<1>5. /\ contracts'[c] = row
      /\ \A d \in Contracts : d # c => contracts'[d] = contracts[d]
      /\ contracts' \in [Contracts -> ContractRows \cup {NoContract}]
  BY <1>1, <1>4 DEF SlotInv, RowsAreTyped
<1>6. /\ \A d \in Contracts : d # c =>
           /\ Evergreen(d)' = Evergreen(d)
           /\ {contents'[y].number : y \in Evergreen(d)'}
                = {contents[y].number : y \in Evergreen(d)}
      /\ Cardinality(Evergreen(c)') = b.quota
      /\ {contents'[y].number : y \in Evergreen(c)'} = 1 .. b.quota
  BY <1>1, <1>3, <1>4, AWholeBatch DEF SlotInv
<1>7. QuotaHolds' /\ NumbersCountUp'
  <2>1. ASSUME NEW d \in Contracts
        PROVE  /\ Cardinality(Evergreen(d)') <= contracts'[d].quota
               /\ {contents'[y].number : y \in Evergreen(d)'}
                    = 1 .. Cardinality(Evergreen(d)')
    <3>1. CASE d # c
      <4>1. /\ Cardinality(Evergreen(d)) <= contracts[d].quota
            /\ {contents[y].number : y \in Evergreen(d)} = 1 .. Cardinality(Evergreen(d))
        BY DEF SlotInv, QuotaHolds, NumbersCountUp
      <4> QED BY <1>5, <1>6, <3>1, <4>1
    <3>2. CASE d = c
      <4>1. contracts'[c].quota = b.quota
        BY <1>5
      <4> QED BY <1>4, <1>6, <3>2, <4>1
    <3> QED BY <3>1, <3>2
  <2> QED BY <2>1 DEF QuotaHolds, NumbersCountUp
<1>8. LoginsAreUnique'
  <2>1. \A d \in Contracts : contracts[d].email # row.email
    BY <1>1 DEF EmailIsTaken
  <2> QED BY <1>5, <2>1 DEF SlotInv, LoginsAreUnique
<1>9. RowsAreTyped'
  <2>1. /\ DOMAIN ids = 1 .. b.quota
        /\ DOMAIN contents' = ContentIds
    BY <1>3 DEF NewIds, Batch
  <2>2. \A x \in ContentIds :
          \/ /\ contents'[x].contract = c /\ contents'[x].type = "evergreen"
             /\ contents'[x].number \in Nat
          \/ contents'[x] = contents[x]
    <3> TAKE x \in ContentIds
    <3>1. CASE \E i \in DOMAIN ids : ids[i] = x
      <4> DEFINE i == CHOOSE i \in DOMAIN ids : ids[i] = x
      <4>1. i \in Nat
        BY <2>1, <3>1, <1>4
      <4>2. contents'[x] = [contract |-> c, type |-> "evergreen",
                            deadline |-> InOrder(b.deadlines)[i], number |-> i]
        BY <1>3, <3>1 DEF Batch
      <4> HIDE DEF i
      <4> QED BY <4>1, <4>2
    <3>2. CASE ~ \E i \in DOMAIN ids : ids[i] = x
      BY <1>3, <3>2 DEF Batch
    <3> QED BY <3>1, <3>2
  <2> QED BY <1>4, <1>5, <2>1, <2>2 DEF SlotInv, RowsAreTyped, ContentTypes
<1>10. \A p \in Requests : ~HoldsLock(p, c)
  BY <1>1 DEF SlotInv, RequestsAreGood, LockIsGood, HoldsLock
<1>11. RequestsAreGood'
  BY <1>1, <1>5, <1>6, <1>10, AnswerKeepsRequests
<1> QED BY <1>7, <1>8, <1>9, <1>11 DEF SlotInv

\* Every step of the server keeps it.
LEMMA InvNext == SlotInv /\ [ServerStep]_slotVars => SlotInv'
<1> SUFFICES ASSUME SlotInv, [ServerStep]_slotVars PROVE SlotInv'
  OBVIOUS
<1>1. CASE DayPasses \/ UNCHANGED slotVars
  <2>1. UNCHANGED <<rowVars, requests>>
    BY <1>1 DEF DayPasses, slotVars
  <2>2. \A c : Evergreen(c)' = Evergreen(c)
    BY <2>1 DEF rowVars, Evergreen
  <2>3. \A p \in Requests : CreatorIsChecked(p)' /\ ContentIsTyped(p)' /\ LockIsGood(p)'
    BY <2>1, <2>2 DEF SlotInv, RequestsAreGood, CreatorIsChecked, ContentIsTyped,
                      LockIsGood, InPhase, HoldsLock, rowVars
  <2> QED BY <2>1, <2>2, <2>3 DEF SlotInv, RowsAreTyped, LoginsAreUnique,
                                  RequestsAreGood, QuotaHolds, NumbersCountUp, rowVars
<1>2. ASSUME NEW r \in Requests,
             \/ \E b : CreatorBody(b) /\ ReceiveCreator(r, b)
             \/ \E b : ContentBody(b) /\ ReceiveContent(r, b)
             \/ Work(r)
             \/ Forget(r) /\ UNCHANGED <<rowVars, today>>
      PROVE  SlotInv'
  <2>1. CASE \/ \E b : CreatorBody(b) /\ ReceiveCreator(r, b)
             \/ \E b : ContentBody(b) /\ ReceiveContent(r, b)
    BY <2>1, ReceivingKeepsInv
  <2>2. CASE Forget(r) /\ UNCHANGED <<rowVars, today>>
    BY <2>2, AnsweringKeepsInv
  <2>3. CASE Work(r)
    BY <2>3, OnboardingKeepsInv, AnsweringKeepsInv, LockingKeepsInv, CreatingKeepsInv DEF Work
  <2> QED BY <1>2, <2>1, <2>2, <2>3
<1> QED BY <1>1, <1>2 DEF ServerStep

\* The argument in one line: the invariant is inductive.
THEOREM InvHolds == SlotSpec => []SlotInv
<1>1. [SlotNext]_slotVars => [ServerStep]_slotVars
  BY ServerSteps
<1> QED BY <1>1, InvInit, InvNext, PTL DEF SlotSpec

\* No contract ever has more Evergreen contents than its quota, for any number
\* of admins who add to it at once (contents.service.ts: the row lock).
THEOREM QuotaIsKept == SlotSpec => []QuotaHolds
<1>1. SlotInv => QuotaHolds
  BY DEF SlotInv
<1> QED BY <1>1, InvHolds, PTL

\* No Evergreen number is given twice or left out.
THEOREM NumbersAreDistinct == SlotSpec => []NumbersCountUp
<1>1. SlotInv => NumbersCountUp
  BY DEF SlotInv
<1> QED BY <1>1, InvHolds, PTL

-----------------------------------------------------------------------------
(* The refinement.                                                         *)

\* Where the server starts, an allocator may start.
LEMMA RefinesInit == SlotInit => Allocator!Init
<1> SUFFICES ASSUME SlotInit PROVE Allocator!Init
  OBVIOUS
<1>1. SlotInv
  BY InvInit
<1>2. \A c \in Contracts : Evergreen(c) = {}
  BY DEF SlotInit, Evergreen, NoContent
<1>3. \A c \in Contracts : Cardinality(Evergreen(c)) = 0
  <2>1. Cardinality({}) = 0
    BY FS_EmptySet
  <2> QED BY <1>2, <2>1
<1>4. \A c \in Contracts : contracts[c].quota \in 0 .. MaxQuota
                          /\ contracts[c].email \in Emails \cup {NoEmail}
  BY <1>1, ScheduleAssumption DEF SlotInv, RowsAreTyped, ContractRows, NoContract
<1>5. LoginsAreUnique
  BY <1>1 DEF SlotInv
<1> QED BY <1>3, <1>4, <1>5, ScheduleAssumption
        DEF Allocator!Init, Allocator!Quotas, LoginsAreUnique

\* Every step of the server is a step of the allocator, or none.
LEMMA RefinesNext ==
    ASSUME SlotInv, [SlotNext]_slotVars
    PROVE  [Allocator!Next]_Allocator!vars
<1>1. ASSUME contracts' = contracts, \A c \in Contracts : Evergreen(c)' = Evergreen(c)
      PROVE  UNCHANGED Allocator!vars
  BY <1>1 DEF Allocator!vars
<1>2. ASSUME UNCHANGED rowVars
      PROVE  UNCHANGED Allocator!vars
  <2>1. \A c \in Contracts : Evergreen(c)' = Evergreen(c)
    BY <1>2 DEF rowVars, Evergreen
  <2> QED BY <1>1, <1>2, <2>1 DEF rowVars
<1>3. ASSUME NEW r \in Requests, NEW c \in Contracts, Onboard(r, c)
      PROVE  Allocator!Next
  <2>1. PICK e, q, ids : /\ e = requests[r].body.email /\ q = requests[r].body.quota
                         /\ ids \in NewIds(Len(requests[r].body.deadlines))
                         /\ contents' = Batch(c, InOrder(requests[r].body.deadlines), ids)
    BY <1>3 DEF Onboard
  <2>2. e \in Emails /\ q \in 1 .. MaxQuota /\ Len(requests[r].body.deadlines) = q
    BY <1>3, <2>1 DEF Onboard, SlotInv, RequestsAreGood, CreatorIsChecked
  <2>3. /\ contracts[c] = NoContract
        /\ \A d \in Contracts : contracts[d].email # e
        /\ contracts' = [contracts EXCEPT ![c] =
                           [email |-> e, start |-> requests[r].body.start,
                            end |-> requests[r].body.end, quota |-> q]]
    BY <1>3, <2>1 DEF Onboard, EmailIsTaken
  <2>4. /\ \A d \in Contracts : d # c => Evergreen(d)' = Evergreen(d)
        /\ Cardinality(Evergreen(c)') = q
    <3>1. q \in Nat /\ ids \in NewIds(q) /\ RowsAreTyped
      BY <2>1, <2>2, ScheduleAssumption DEF SlotInv
    <3>2. PICK days : days = InOrder(requests[r].body.deadlines)
      OBVIOUS
    <3> QED BY <2>1, <2>3, <3>1, <3>2, AWholeBatch
  <2>5. /\ contracts'[c].email = e /\ contracts'[c].quota = q
        /\ \A d \in Contracts : d # c => contracts'[d] = contracts[d]
    BY <2>3 DEF SlotInv, RowsAreTyped
  <2>6. contracts[c].quota = 0
    BY <2>3 DEF NoContract
  <2>7. /\ [d \in Contracts |-> contracts'[d].quota]
             = [[d \in Contracts |-> contracts[d].quota] EXCEPT ![c] = q]
        /\ [d \in Contracts |-> contracts'[d].email]
             = [[d \in Contracts |-> contracts[d].email] EXCEPT ![c] = e]
    BY <2>5
  <2>8. [d \in Contracts |-> Cardinality(Evergreen(d)')]
          = [[d \in Contracts |-> Cardinality(Evergreen(d))] EXCEPT ![c] = q]
    BY <2>4
  <2>9. q > 0
    BY <2>2, ScheduleAssumption
  <2>10. Allocator!Open(c, e, q)
    BY <2>3, <2>6, <2>7, <2>8, <2>9 DEF Allocator!Open
  <2> QED BY <2>2, <2>10, ScheduleAssumption DEF Allocator!Next, Allocator!Quotas
<1>4. ASSUME NEW r \in Requests, NEW x \in ContentIds, CreateContent(r, x)
      PROVE  [Allocator!Next]_Allocator!vars
  <2>0. InPhase(r, "content", "locked") /\ contracts' = contracts
    BY <1>4 DEF CreateContent
  <2>1. PICK c \in Contracts, type \in ContentTypes :
           c = requests[r].body.contract /\ type = requests[r].body.type
    BY <2>0 DEF SlotInv, RequestsAreGood, ContentIsTyped, InPhase
  <2>2. PICK row, n : /\ row.contract = c /\ row.type = type /\ row.number = n
                      /\ contents' = [contents EXCEPT ![x] = row]
    BY <1>4, <2>1 DEF CreateContent
  <2>3. contents[x] = NoContent /\ RowsAreTyped
    BY <1>4 DEF CreateContent, FreeIds, SlotInv
  <2>4. /\ \A d \in Contracts : d # c \/ type # "evergreen" => Evergreen(d)' = Evergreen(d)
        /\ type = "evergreen" =>
              Evergreen(c)' = Evergreen(c) \cup {x} /\ x \notin Evergreen(c)
    <3>1. \A d \in Contracts :
            IF d = c /\ type = "evergreen"
            THEN Evergreen(d)' = Evergreen(d) \cup {x} /\ x \notin Evergreen(d)
            ELSE Evergreen(d)' = Evergreen(d)
      BY <2>2, <2>3, OneMoreContent
    <3> QED BY <3>1
  <2>5. CASE type # "evergreen"
    BY <1>1, <2>0, <2>4, <2>5
  <2>6. CASE type = "evergreen"
    <3>1. PICK m \in Nat : m = Cardinality(Evergreen(c))
      BY EvergreenIsFinite
    <3>2. Cardinality(Evergreen(c)') = m + 1
      BY <2>4, <2>6, <3>1, EvergreenIsFinite, FS_AddElement
    <3>3. requests[r].scheduled = m /\ contracts[c] # NoContract
      BY <2>0, <2>1, <3>1 DEF SlotInv, RequestsAreGood, LockIsGood
    <3>4. contracts[c].quota \in Nat
      BY <3>3, ScheduleAssumption DEF SlotInv, RowsAreTyped, ContractRows
    <3>5. m < contracts[c].quota
      BY <1>4, <2>1, <2>6, <3>3, <3>4 DEF CreateContent, SlotErrors, CheckEvergreenSlot
    <3>6. Allocator!Give(c)
      BY <2>0, <2>4, <3>1, <3>2, <3>5 DEF Allocator!Give
    <3> QED BY <3>6 DEF Allocator!Next
  <2> QED BY <2>5, <2>6
<1>5. ASSUME NEW r \in Requests, Work(r)
      PROVE  [Allocator!Next]_Allocator!vars
  <2>1. CASE RefuseTakenEmail(r) \/ LockContract(r) \/ RefuseContent(r) \/ Fail(r)
    BY <1>2, <2>1 DEF RefuseTakenEmail, LockContract, RefuseContent, Fail
  <2> QED BY <1>3, <1>4, <1>5, <2>1 DEF Work
<1>6. CASE UNCHANGED rowVars
  BY <1>2, <1>6
<1>7. CASE SlotNext
  BY <1>5, <1>6, <1>7 DEF SlotNext, ReceiveCreator, ReceiveContent, Receive, DayPasses
<1> QED BY <1>6, <1>7 DEF slotVars

\* Whatever admins do at once, the server hands out logins, quotas and numbers
\* as the abstract allocator does.
THEOREM SlotsImplementAllocator == SlotSpec => ImplementsAllocator
<1>1. SlotInv /\ [SlotNext]_slotVars => [Allocator!Next]_Allocator!vars
  BY RefinesNext
<1> QED BY <1>1, RefinesInit, InvHolds, PTL DEF SlotSpec, ImplementsAllocator, Allocator!Spec

-----------------------------------------------------------------------------
(* Rows and requests keep their shape, and what onboarding wrote keeps its  *)
(* order: it fills the quota at once, so nothing Evergreen is added later.  *)

RequestIsTyped(q) ==
    \/ q = Idle
    \/ /\ q.kind = "creator"
       /\ q.phase \in {"checked", "answered"}
       /\ q.body.deadlines \in Seq(Int)
    \/ /\ q.kind = "content"
       /\ q.phase \in {"checked", "locked", "answered"}
       /\ q.body.deadline \in Int

OnboardedAreFull ==
    \A c \in Contracts :
        c \notin DOMAIN Seeded /\ contracts[c] # NoContract =>
            Cardinality(Evergreen(c)) = contracts[c].quota

ScheduleInv ==
    /\ contents \in [ContentIds -> ContentRows \cup {NoContent}]
    /\ today \in Days
    /\ \A r \in Requests : RequestIsTyped(requests[r])
    /\ OnboardedAreFull
    /\ OnboardedInDeadlineOrder

LEMMA ScheduleInit == SlotInit => ScheduleInv
<1> SUFFICES ASSUME SlotInit PROVE ScheduleInv
  OBVIOUS
<1>1. \A x \in ContentIds : contents[x] = NoContent
  BY DEF SlotInit
<1>2. \A c \in Contracts : c \notin DOMAIN Seeded => contracts[c] = NoContract
  BY DEF SlotInit
<1>3. today \in Days /\ contents \in [ContentIds -> ContentRows \cup {NoContent}]
  BY SlotsAssumption DEF SlotInit, Days
<1>4. \A r \in Requests : RequestIsTyped(requests[r])
  BY DEF SlotInit, RequestIsTyped
<1> QED BY <1>1, <1>2, <1>3, <1>4 DEF ScheduleInv, OnboardedAreFull, OnboardedInDeadlineOrder

\* Whatever a request does next, it stays a request.
LEMMA RequestsStayTyped ==
    ASSUME SlotInv, \A r \in Requests : RequestIsTyped(requests[r]), [ServerStep]_slotVars
    PROVE  \A r \in Requests : RequestIsTyped(requests'[r])
<1>0. DOMAIN requests = Requests
  BY DEF SlotInv, RequestsAreGood
<1>1. ASSUME NEW r \in Requests, RequestIsTyped(requests'[r]),
             \A p \in Requests : p # r => requests'[p] = requests[p]
      PROVE  \A p \in Requests : RequestIsTyped(requests'[p])
  BY <1>1
<1>2. ASSUME NEW r \in Requests, NEW b, CreatorBody(b), ReceiveCreator(r, b)
      PROVE  \A p \in Requests : RequestIsTyped(requests'[p])
  <2>1. /\ requests'[r].kind = "creator"
        /\ requests'[r].phase \in {"checked", "answered"}
        /\ requests'[r].body = b
        /\ \A p \in Requests : p # r => requests'[p] = requests[p]
    BY <1>0, <1>2 DEF ReceiveCreator, Receive
  <2>2. RequestIsTyped(requests'[r])
    BY <1>2, <2>1 DEF RequestIsTyped, CreatorBody
  <2> QED BY <1>1, <2>1, <2>2
<1>3. ASSUME NEW r \in Requests, NEW b, ContentBody(b), ReceiveContent(r, b)
      PROVE  \A p \in Requests : RequestIsTyped(requests'[p])
  <2>1. /\ requests'[r].kind = "content"
        /\ requests'[r].phase \in {"checked", "answered"}
        /\ requests'[r].body = b
        /\ \A p \in Requests : p # r => requests'[p] = requests[p]
    BY <1>0, <1>3 DEF ReceiveContent, Receive
  <2>2. RequestIsTyped(requests'[r])
    BY <1>3, <2>1 DEF RequestIsTyped, ContentBody
  <2> QED BY <1>1, <2>1, <2>2
<1>4. ASSUME NEW r \in Requests, NEW answer, requests[r] # Idle, Reply(r, answer)
      PROVE  \A p \in Requests : RequestIsTyped(requests'[p])
  <2>1. /\ requests'[r].kind = requests[r].kind
        /\ requests'[r].phase = "answered"
        /\ requests'[r].body = requests[r].body
        /\ \A p \in Requests : p # r => requests'[p] = requests[p]
    BY <1>0, <1>4 DEF Reply
  <2>2. RequestIsTyped(requests'[r])
    BY <1>4, <2>1 DEF RequestIsTyped
  <2> QED BY <1>1, <2>1, <2>2
<1>5. ASSUME NEW r \in Requests, LockContract(r)
      PROVE  \A p \in Requests : RequestIsTyped(requests'[p])
  <2>1. /\ requests'[r].kind = "content"
        /\ requests'[r].phase = "locked"
        /\ requests'[r].body = requests[r].body
        /\ \A p \in Requests : p # r => requests'[p] = requests[p]
    BY <1>0, <1>5 DEF LockContract
  <2>2. RequestIsTyped(requests'[r])
    BY <1>5, <2>1 DEF RequestIsTyped, LockContract, InPhase, Idle
  <2> QED BY <1>1, <2>1, <2>2
<1>6. ASSUME NEW r \in Requests, Work(r)
      PROVE  \A p \in Requests : RequestIsTyped(requests'[p])
  <2>1. CASE LockContract(r)
    BY <1>5, <2>1
  <2>2. CASE ~LockContract(r)
    <3>1. PICK answer : requests[r] # Idle /\ Reply(r, answer)
      BY <1>6, <2>2 DEF Work, Onboard, RefuseTakenEmail, RefuseContent, CreateContent,
                        Fail, InPhase, Idle
    <3> QED BY <1>4, <3>1
  <2> QED BY <2>1, <2>2
<1>7. ASSUME NEW r \in Requests, Forget(r)
      PROVE  \A p \in Requests : RequestIsTyped(requests'[p])
  <2>1. requests'[r] = Idle /\ \A p \in Requests : p # r => requests'[p] = requests[p]
    BY <1>0, <1>7 DEF Forget
  <2> QED BY <1>1, <2>1 DEF RequestIsTyped
<1>8. CASE DayPasses \/ UNCHANGED slotVars
  BY <1>8 DEF DayPasses, slotVars
<1> QED BY <1>2, <1>3, <1>6, <1>7, <1>8 DEF ServerStep

\* One more content is either Specific, or on a contract that was not onboarded.
LEMMA CreatingKeepsOrder ==
    ASSUME SlotInv, SlotInv', ScheduleInv,
           NEW r \in Requests, NEW x \in ContentIds, CreateContent(r, x)
    PROVE  /\ contents' \in [ContentIds -> ContentRows \cup {NoContent}]
           /\ OnboardedAreFull'
           /\ OnboardedInDeadlineOrder'
<1>0. InPhase(r, "content", "locked")
  BY DEF CreateContent
<1>1. PICK c \in Contracts, type \in ContentTypes, day \in Int :
         /\ c = requests[r].body.contract /\ type = requests[r].body.type
         /\ day = requests[r].body.deadline
  <2>1. RequestIsTyped(requests[r])
    BY DEF ScheduleInv
  <2>2. requests[r].body.deadline \in Int
    BY <1>0, <2>1 DEF RequestIsTyped, InPhase, Idle
  <2>3. requests[r].body.contract \in Contracts /\ requests[r].body.type \in ContentTypes
    BY <1>0 DEF SlotInv, RequestsAreGood, ContentIsTyped, InPhase
  <2> QED BY <2>2, <2>3
<1>2. PICK n : n = IF type = "evergreen" THEN requests[r].scheduled + 1 ELSE 0
  OBVIOUS
<1>3. PICK row : row = [contract |-> c, type |-> type, deadline |-> day, number |-> n]
  OBVIOUS
<1>4. /\ SlotErrors(r) = {}
      /\ contents[x] = NoContent
      /\ contents' = [contents EXCEPT ![x] = row]
      /\ contracts' = contracts
  BY <1>1, <1>2, <1>3 DEF CreateContent, FreeIds
<1>5. contracts[c] # NoContract /\ requests[r].scheduled = Cardinality(Evergreen(c))
  BY <1>0, <1>1 DEF SlotInv, RequestsAreGood, LockIsGood
<1>6. contracts[c].quota \in Nat /\ contracts[c].quota <= MaxQuota
  BY <1>5, ScheduleAssumption DEF SlotInv, RowsAreTyped, ContractRows
<1>7. PICK m \in Nat : m = Cardinality(Evergreen(c))
  BY EvergreenIsFinite
<1>8. type = "evergreen" => m < contracts[c].quota
  BY <1>1, <1>4, <1>5, <1>6, <1>7 DEF SlotErrors, CheckEvergreenSlot
<1>9. contents' \in [ContentIds -> ContentRows \cup {NoContent}]
  <2>1. n \in 0 .. MaxQuota
    BY <1>2, <1>5, <1>6, <1>7, <1>8, ScheduleAssumption
  <2>2. row \in ContentRows
    BY <1>3, <2>1 DEF ContentRows
  <2> QED BY <1>4, <2>2 DEF ScheduleInv
<1>10. type = "evergreen" => c \in DOMAIN Seeded
  BY <1>5, <1>6, <1>7, <1>8 DEF ScheduleInv, OnboardedAreFull
<1>11. OnboardedAreFull'
  <2>1. \A d \in Contracts : d # c \/ type # "evergreen" => Evergreen(d)' = Evergreen(d)
    <3>1. RowsAreTyped
      BY DEF SlotInv
    <3>2. \A d \in Contracts :
            ~(d = row.contract /\ row.type = "evergreen") => Evergreen(d)' = Evergreen(d)
      BY <1>4, <3>1, OneMoreContent
    <3>3. row.contract = c /\ row.type = type
      BY <1>3
    <3> QED BY <3>2, <3>3
  <2> QED BY <1>4, <1>10, <2>1 DEF ScheduleInv, OnboardedAreFull
<1>12. OnboardedInDeadlineOrder'
  <2>1. /\ contents'[x] = row
        /\ \A y \in ContentIds : y # x => contents'[y] = contents[y]
    BY <1>4 DEF ScheduleInv
  <2>2. row.contract = c /\ row.type = type /\ row.number = n
    BY <1>3
  <2>3. ASSUME NEW a \in ContentIds, NEW e \in ContentIds,
               contents'[a] # NoContent, contents'[e] # NoContent,
               contents'[a].contract = contents'[e].contract,
               contents'[a].contract \notin DOMAIN Seeded,
               contents'[a].number \in 1 .. contents'[e].number,
               contents'[e].type = "evergreen"
        PROVE  contents'[a].deadline <= contents'[e].deadline
    <3>1. e # x
      BY <1>10, <2>1, <2>2, <2>3
    <3>2. a # x
      <4> SUFFICES ASSUME a = x PROVE FALSE
        OBVIOUS
      <4>1. n = 0
        BY <1>2, <1>10, <2>1, <2>2, <2>3
      <4>2. contents'[a].number = 0
        BY <2>1, <2>2, <4>1
      <4>3. contents'[e].number \in Int
        BY <1>9, <2>3, ScheduleAssumption DEF ContentRows
      <4> QED BY <2>3, <4>2, <4>3
    <3> QED BY <2>1, <2>3, <3>1, <3>2 DEF ScheduleInv, OnboardedInDeadlineOrder
  <2> QED BY <2>3 DEF OnboardedInDeadlineOrder
<1> QED BY <1>9, <1>11, <1>12

\* Onboarding numbers its days in their order.
LEMMA OnboardingKeepsOrder ==
    ASSUME SlotInv, SlotInv', ScheduleInv,
           NEW r \in Requests, NEW c \in Contracts, Onboard(r, c)
    PROVE  /\ contents' \in [ContentIds -> ContentRows \cup {NoContent}]
           /\ OnboardedAreFull'
           /\ OnboardedInDeadlineOrder'
<1>1. PICK given, n : given = requests[r].body.deadlines /\ n = requests[r].body.quota
  OBVIOUS
<1>2. /\ InPhase(r, "creator", "checked")
      /\ contracts[c] = NoContract
      /\ contracts' = [contracts EXCEPT ![c] =
                         [email |-> requests[r].body.email, start |-> requests[r].body.start,
                          end |-> requests[r].body.end, quota |-> n]]
  BY <1>1 DEF Onboard
<1>3. n \in 1 .. MaxQuota /\ Len(given) = n /\ n \in Nat
  BY <1>1, <1>2, ScheduleAssumption DEF SlotInv, RequestsAreGood, CreatorIsChecked
<1>4. given \in Seq(Int)
  <2>1. RequestIsTyped(requests[r])
    BY DEF ScheduleInv
  <2> QED BY <1>1, <1>2, <2>1 DEF RequestIsTyped, InPhase, Idle
<1>5. PICK days : days = InOrder(given)
  OBVIOUS
<1>6. /\ \A i \in 1 .. n : days[i] \in Int
      /\ \A i, j \in 1 .. n : i <= j => days[i] <= days[j]
  <2>1. /\ InOrder(given) \in Seq(Int) /\ Len(InOrder(given)) = n
        /\ \A i, j \in 1 .. n : i <= j => InOrder(given)[i] <= InOrder(given)[j]
    BY <1>3, <1>4, InOrderSorts
  <2> QED BY <1>3, <1>5, <2>1
<1>7. PICK ids \in NewIds(n) : contents' = Batch(c, days, ids)
  BY <1>1, <1>3, <1>5 DEF Onboard
<1>8. /\ DOMAIN ids = 1 .. n
      /\ \A i \in 1 .. n : ids[i] \in ContentIds /\ contents[ids[i]] = NoContent
      /\ \A i, j \in 1 .. n : ids[i] = ids[j] => i = j
  BY <1>7 DEF NewIds, FreeIds
<1>9. \A i \in 1 .. n :
         contents'[ids[i]] = [contract |-> c, type |-> "evergreen",
                              deadline |-> days[i], number |-> i]
  <2> TAKE i \in 1 .. n
  <2>1. (CHOOSE j \in DOMAIN ids : ids[j] = ids[i]) = i
    BY <1>8
  <2> QED BY <1>7, <1>8, <2>1 DEF Batch
<1>a. \A i \in 1 .. n : /\ contents'[ids[i]].contract = c
                        /\ contents'[ids[i]].deadline = days[i]
                        /\ contents'[ids[i]].number = i
  <2> TAKE i \in 1 .. n
  <2>1. contents'[ids[i]] = [contract |-> c, type |-> "evergreen",
                             deadline |-> days[i], number |-> i]
    BY <1>9
  <2> QED BY <2>1
<1>10. \A y \in ContentIds : (\E i \in 1 .. n : ids[i] = y) \/ contents'[y] = contents[y]
  BY <1>7, <1>8 DEF Batch
<1>11. contents' \in [ContentIds -> ContentRows \cup {NoContent}]
  <2>1. DOMAIN contents' = ContentIds /\ contents' = [y \in ContentIds |-> contents'[y]]
    BY <1>7 DEF Batch
  <2>2. \A i \in 1 .. n : contents'[ids[i]] \in ContentRows
    <3> TAKE i \in 1 .. n
    <3>1. i \in 0 .. MaxQuota /\ days[i] \in Int /\ "evergreen" \in ContentTypes
      BY <1>3, <1>6, ScheduleAssumption DEF ContentTypes
    <3>2. contents'[ids[i]] = [contract |-> c, type |-> "evergreen",
                               deadline |-> days[i], number |-> i]
      BY <1>9
    <3> QED BY <3>1, <3>2 DEF ContentRows
  <2>3. \A y \in ContentIds : contents'[y] \in ContentRows \cup {NoContent}
    BY <1>10, <2>2 DEF ScheduleInv
  <2> QED BY <2>1, <2>3
<1>12. OnboardedAreFull'
  <2>1. RowsAreTyped
    BY DEF SlotInv
  <2>2. /\ \A d \in Contracts : d # c => Evergreen(d)' = Evergreen(d)
        /\ Cardinality(Evergreen(c)') = n
    BY <1>2, <1>3, <1>7, <2>1, AWholeBatch
  <2>3. /\ contracts'[c].quota = n
        /\ \A d \in Contracts : d # c => contracts'[d] = contracts[d]
    BY <1>2 DEF SlotInv, RowsAreTyped
  <2> QED BY <2>2, <2>3 DEF ScheduleInv, OnboardedAreFull
<1>13. OnboardedInDeadlineOrder'
  <2>1. \A y \in ContentIds : contents[y] # NoContent => contents[y].contract # c
    BY <1>2 DEF SlotInv, RowsAreTyped
  <2>2. ASSUME NEW a \in ContentIds, NEW e \in ContentIds,
               contents'[a] # NoContent, contents'[e] # NoContent,
               contents'[a].contract = contents'[e].contract,
               contents'[a].contract \notin DOMAIN Seeded,
               contents'[a].number \in 1 .. contents'[e].number,
               contents'[e].type = "evergreen"
        PROVE  contents'[a].deadline <= contents'[e].deadline
    <3>1. CASE contents'[a].contract = c
      <4>1. PICK i \in 1 .. n : ids[i] = a
        BY <1>10, <2>1, <2>2, <3>1
      <4>2. PICK j \in 1 .. n : ids[j] = e
        BY <1>10, <2>1, <2>2, <3>1
      <4>3. /\ contents'[a].number = i /\ contents'[a].deadline = days[i]
            /\ contents'[e].number = j /\ contents'[e].deadline = days[j]
        BY <1>a, <4>1, <4>2
      <4>4. i <= j
        BY <2>2, <4>3
      <4> QED BY <1>6, <4>3, <4>4
    <3>2. CASE contents'[a].contract # c
      <4>1. contents'[a] = contents[a] /\ contents'[e] = contents[e]
        BY <1>a, <1>10, <2>2, <3>2
      <4> QED BY <2>2, <4>1 DEF ScheduleInv, OnboardedInDeadlineOrder
    <3> QED BY <3>1, <3>2
  <2> QED BY <2>2 DEF OnboardedInDeadlineOrder
<1> QED BY <1>11, <1>12, <1>13

LEMMA ScheduleNext ==
    ASSUME SlotInv, SlotInv', ScheduleInv, [ServerStep]_slotVars
    PROVE  ScheduleInv'
<1>1. \A r \in Requests : RequestIsTyped(requests'[r])
  BY RequestsStayTyped DEF ScheduleInv
<1>2. today' \in Days
  BY SlotsAssumption DEF ScheduleInv, ServerStep, slotVars, Days, DayPasses,
     ReceiveCreator, ReceiveContent, Receive, Work, Onboard, RefuseTakenEmail,
     LockContract, RefuseContent, CreateContent, Fail
<1>3. CASE UNCHANGED rowVars
  <2>1. \A c : Evergreen(c)' = Evergreen(c)
    BY <1>3 DEF rowVars, Evergreen
  <2> QED BY <1>1, <1>2, <1>3, <2>1
          DEF ScheduleInv, OnboardedAreFull, OnboardedInDeadlineOrder, rowVars
<1>4. ASSUME NEW r \in Requests, NEW c \in Contracts, Onboard(r, c)
      PROVE  ScheduleInv'
  BY <1>1, <1>2, <1>4, OnboardingKeepsOrder DEF ScheduleInv
<1>5. ASSUME NEW r \in Requests, NEW x \in ContentIds, CreateContent(r, x)
      PROVE  ScheduleInv'
  BY <1>1, <1>2, <1>5, CreatingKeepsOrder DEF ScheduleInv
<1>6. \/ UNCHANGED rowVars
      \/ \E r \in Requests : \/ \E c \in Contracts : Onboard(r, c)
                             \/ \E x \in ContentIds : CreateContent(r, x)
  BY DEF ServerStep, slotVars, rowVars, DayPasses, ReceiveCreator, ReceiveContent, Receive,
         Work, RefuseTakenEmail, LockContract, RefuseContent, Fail
<1> QED BY <1>3, <1>4, <1>5, <1>6

\* Everything the schedules promise at once: rows and requests keep their
\* shape, quotas hold, numbers count up, and what onboarding wrote is numbered
\* in deadline order, for any number of admins, contracts and bodies (SlotsHold).
THEOREM SchedulesHold == SlotSpec => []SlotsHold
<1>1. SlotInv /\ ScheduleInv => SlotsHold
  BY DEF SlotInv, RowsAreTyped, ScheduleInv, RequestIsTyped, SlotsHold, TypeOK
<1>2. SlotInv /\ SlotInv' /\ ScheduleInv /\ [SlotNext]_slotVars => ScheduleInv'
  BY ScheduleNext, ServerSteps
<1>3. SlotSpec => []ScheduleInv
  BY <1>2, ScheduleInit, InvHolds, PTL DEF SlotSpec
<1> QED BY <1>1, <1>3, InvHolds, PTL

-----------------------------------------------------------------------------
(* The forms.  A call carries what the form that sent it held, judged on    *)
(* the day it was sent; a page waits for one call of its own; and a content *)
(* form is not closed, asked about or filled in while its call is out.      *)

\* What a creator form lets through, on the day it is sent.
IsSendableCreator(b, day) ==
    /\ b.complete
    /\ CheckContractDates(b, day) = {}
    /\ b.interval \in Int /\ b.interval > 0
    /\ QuotaErrors(b) = {}
    /\ Len(b.deadlines) = b.quota
    /\ \A i \in 1 .. b.quota : b.deadlines[i] \in EarliestDeadline(b.start, day) .. b.end

\* And a content form, for the contract it was opened on.
IsSendableContent(b, day) ==
    /\ contracts[b.contract] # NoContract
    /\ b.type = "specific" => b.complete
    /\ b.deadline \in EarliestDeadline(contracts[b.contract].start, day)
                        .. contracts[b.contract].end

ContentForms ==
    [screen : {"content"}, opening : Nat, contract : Contracts, full : BOOLEAN,
     input : ContentInputs]

\* A call, and the request it became.
CallIsGood(r) ==
    calls[r] # NoCall =>
        /\ {"body", "kind", "day", "opening", "live", "arrived"} \subseteq DOMAIN calls[r]
        /\ \/ /\ calls[r].kind = "creator"
              /\ CreatorBody(calls[r].body) /\ IsSendableCreator(calls[r].body, calls[r].day)
           \/ /\ calls[r].kind = "content"
              /\ ContentBody(calls[r].body) /\ IsSendableContent(calls[r].body, calls[r].day)
        /\ IF calls[r].arrived
           THEN /\ requests[r] # Idle
                /\ requests[r].kind = calls[r].kind
                /\ requests[r].body = calls[r].body
           ELSE requests[r] = Idle

FormIsGood ==
    form # Closed =>
        \/ /\ form.screen = "creator"
           /\ {"screen", "opening", "known", "input", "picks", "changes"} \subseteq DOMAIN form
           /\ form.input \in CreatorInputs \cup {Blank}
           /\ "manual" \in DOMAIN form.picks
           /\ form.picks.manual \in Seq(Int)
        \/ /\ form \in ContentForms
           /\ contracts[form.contract] # NoContract

\* What keeps a save and its form together.
PageIsGood ==
    /\ \A r \in Requests : calls[r] # NoCall /\ calls[r].live => saving
    /\ asking /\ IsOpen("content") => ~saving
    /\ asking => form # Closed

CallsInv ==
    /\ DOMAIN calls = Requests
    /\ \A r \in Requests : CallIsGood(r)
    /\ FormIsGood
    /\ openings \in Nat

FormsInv == CallsInv /\ PageIsGood /\ SavesAreAwaited

LEMMA FormsInit == Init => SlotInv /\ ScheduleInv /\ FormsInv
<1> SUFFICES ASSUME Init PROVE SlotInv /\ ScheduleInv /\ FormsInv
  OBVIOUS
<1>1. SlotInv /\ ScheduleInv
  BY InvInit, ScheduleInit DEF Init
<1>2. DOMAIN calls = Requests /\ \A r \in Requests : calls[r] = NoCall
  BY DEF Init
<1>3. form = Closed /\ asking = FALSE /\ openings = 0 /\ saving = FALSE
  BY DEF Init
<1> QED BY <1>1, <1>2, <1>3
        DEF FormsInv, CallsInv, CallIsGood, FormIsGood, PageIsGood, SavesAreAwaited,
            OneSaveAtATime, SavingIsAwaited, ContentFormAwaitsItsAnswer

\* Whatever the pages do, the server takes the steps it always takes.
LEMMA FormsAreServed ==
    ASSUME CallsInv, [Next]_formVars
    PROVE  [ServerStep]_slotVars
<1>1. ASSUME NEW r \in Requests, Arrive(r)
      PROVE  ServerStep
  <2>1. /\ calls[r] # NoCall
        /\ \/ calls[r].kind = "creator" /\ ReceiveCreator(r, calls[r].body)
           \/ calls[r].kind = "content" /\ ReceiveContent(r, calls[r].body)
    BY <1>1 DEF Arrive
  <2>2. CallIsGood(r)
    BY DEF CallsInv
  <2>3. \/ CreatorBody(calls[r].body) /\ ReceiveCreator(r, calls[r].body)
        \/ ContentBody(calls[r].body) /\ ReceiveContent(r, calls[r].body)
    BY <2>1, <2>2 DEF CallIsGood
  <2> QED BY <2>3 DEF ServerStep
<1>2. ASSUME NEW r \in Requests, TakeAnswer(r) \/ Expire(r) \/ Serve(r)
      PROVE  ServerStep
  <2>1. Work(r) \/ (Forget(r) /\ UNCHANGED <<rowVars, today>>)
    BY <1>2 DEF TakeAnswer, Expire, Serve
  <2> QED BY <2>1 DEF ServerStep
<1>3. CASE NextDay
  BY <1>3 DEF NextDay, ServerStep
<1>4. CASE UNCHANGED slotVars
  BY <1>4
<1>5. ASSUME Next, \A r \in Requests : ~Arrive(r),
             \A r \in Requests : ~(TakeAnswer(r) \/ Expire(r) \/ Serve(r)), ~NextDay
      PROVE  UNCHANGED slotVars
  BY <1>5 DEF Next, OpenCreatorForm, OpenContentForm, RequestClose, Discard, KeepFilling,
     Navigate, FillInCreator, Pick, PicksBecome, FillInContent, SaveCreator, SaveContent,
     LoseConnection
<1>6. UNCHANGED formVars => UNCHANGED slotVars
  BY DEF formVars
<1> QED BY <1>1, <1>2, <1>3, <1>4, <1>5, <1>6

\* A contract that is there keeps its terms.
LEMMA ContractsStay ==
    ASSUME SlotInv, [ServerStep]_slotVars, NEW c \in Contracts, contracts[c] # NoContract
    PROVE  contracts'[c] = contracts[c]
<1>1. ASSUME NEW r \in Requests, NEW d \in Contracts, Onboard(r, d)
      PROVE  contracts'[c] = contracts[c]
  <2>1. contracts[d] = NoContract /\ DOMAIN contracts = Contracts
    BY <1>1 DEF Onboard, SlotInv, RowsAreTyped
  <2> QED BY <1>1, <2>1 DEF Onboard
<1>2. ASSUME \A r \in Requests, d \in Contracts : ~Onboard(r, d)
      PROVE  contracts' = contracts
  BY <1>2 DEF ServerStep, slotVars, rowVars, ReceiveCreator, ReceiveContent, Receive, Work,
     RefuseTakenEmail, LockContract, RefuseContent, CreateContent, Fail, DayPasses
<1> QED BY <1>1, <1>2

\* A request the server works on stays that request.
LEMMA WorkKeepsRequest ==
    ASSUME SlotInv, NEW r \in Requests, Work(r)
    PROVE  /\ requests[r] # Idle /\ requests'[r] # Idle
           /\ requests'[r].kind = requests[r].kind
           /\ requests'[r].body = requests[r].body
           /\ \A p \in Requests : p # r => requests'[p] = requests[p]
<1>0. DOMAIN requests = Requests
  BY DEF SlotInv, RequestsAreGood
<1>1. ASSUME NEW answer, Reply(r, answer)
      PROVE  /\ requests'[r] # Idle
             /\ requests'[r].kind = requests[r].kind
             /\ requests'[r].body = requests[r].body
             /\ \A p \in Requests : p # r => requests'[p] = requests[p]
  <2>1. /\ requests'[r].kind = requests[r].kind
        /\ requests'[r].body = requests[r].body
        /\ "phase" \in DOMAIN requests'[r]
        /\ \A p \in Requests : p # r => requests'[p] = requests[p]
    BY <1>0, <1>1 DEF Reply
  <2>2. "phase" \notin DOMAIN Idle
    BY DEF Idle
  <2> QED BY <2>1, <2>2
<1>2. CASE LockContract(r)
  <2>1. /\ requests[r].kind = "content"
        /\ requests'[r].kind = "content"
        /\ requests'[r].body = requests[r].body
        /\ \A p \in Requests : p # r => requests'[p] = requests[p]
    BY <1>0, <1>2 DEF LockContract, InPhase
  <2> QED BY <2>1 DEF Idle
<1>3. CASE Fail(r)
  BY <1>1, <1>3 DEF Fail
<1>4. CASE ~LockContract(r) /\ ~Fail(r)
  <2>1. PICK answer : /\ Reply(r, answer)
                      /\ requests[r].kind \in {"creator", "content"}
    BY <1>4 DEF Work, Onboard, RefuseTakenEmail, RefuseContent, CreateContent, InPhase
  <2> QED BY <1>1, <2>1 DEF Idle
<1> QED BY <1>2, <1>3, <1>4

-----------------------------------------------------------------------------
(* What filtering keeps, and what a calendar with nothing left to pick sends. *)

\* The function that collects the days that are kept, one by one.
Collects(f, days, allowed) ==
    f = [n \in 0 .. Len(days) |->
            IF n = 0 THEN <<>>
            ELSE IF days[n] \in allowed THEN Append(f[n - 1], days[n]) ELSE f[n - 1]]

LEMMA CollectorExists ==
    ASSUME NEW days \in Seq(Int), NEW allowed
    PROVE  \E f : Collects(f, days, allowed)
<1> DEFINE Upto(f, m) ==
             f = [n \in 0 .. m |->
                    IF n = 0 THEN <<>>
                    ELSE IF days[n] \in allowed THEN Append(f[n - 1], days[n]) ELSE f[n - 1]]
           T == {m \in Nat : \E f : Upto(f, m)}
<1>1. 0 \in T
  <2> DEFINE f == [n \in 0 .. 0 |-> <<>>]
  <2>1. Upto(f, 0)
    OBVIOUS
  <2> QED BY <2>1
<1>2. ASSUME NEW m \in Nat, m \in T
      PROVE  m + 1 \in T
  <2>1. PICK f : Upto(f, m)
    BY <1>2
  <2> DEFINE h == [n \in 0 .. m + 1 |->
                     IF n = 0 THEN <<>>
                     ELSE IF days[n] \in allowed THEN Append(f[n - 1], days[n]) ELSE f[n - 1]]
  <2>2. \A n \in 0 .. m : n \in 0 .. m + 1 /\ h[n] = f[n]
    <3>1. \A n \in 0 .. m : f[n] =
            IF n = 0 THEN <<>>
            ELSE IF days[n] \in allowed THEN Append(f[n - 1], days[n]) ELSE f[n - 1]
      BY <2>1
    <3> QED BY <3>1
  <2>3. \A n \in 0 .. m + 1 : n # 0 => h[n - 1] = f[n - 1]
    <3>1. \A n \in 0 .. m + 1 : n # 0 => n - 1 \in 0 .. m
      OBVIOUS
    <3> HIDE DEF h
    <3> QED BY <2>2, <3>1
  <2>4. \A n \in 0 .. m + 1 : h[n] =
            IF n = 0 THEN <<>>
            ELSE IF days[n] \in allowed THEN Append(f[n - 1], days[n]) ELSE f[n - 1]
    OBVIOUS
  <2>5. h = [n \in 0 .. m + 1 |-> h[n]]
    OBVIOUS
  <2>6. Upto(h, m + 1)
    <3> HIDE DEF h
    <3> QED BY <2>3, <2>4, <2>5
  <2> QED
    <3> HIDE DEF Upto
    <3> QED BY <2>6
<1>3. Nat \subseteq T
  <2> HIDE DEF T
  <2> QED BY <1>1, <1>2, EveryNumber
<1>4. PICK f : Upto(f, Len(days))
  <2>1. Len(days) \in T
    <3> HIDE DEF T
    <3> QED BY <1>3
  <2> HIDE DEF Upto
  <2> QED BY <2>1
<1> QED BY <1>4 DEF Collects

\* What is kept is allowed, and no more than there was.
LEMMA WithinKeeps ==
    ASSUME NEW days \in Seq(Int), NEW allowed
    PROVE  /\ Within(days, allowed) \in Seq(Int)
           /\ Len(Within(days, allowed)) <= Len(days)
           /\ \A i \in 1 .. Len(Within(days, allowed)) : Within(days, allowed)[i] \in allowed
<1> DEFINE f == CHOOSE f : Collects(f, days, allowed)
           Good(n) == /\ f[n] \in Seq(Int)
                      /\ Len(f[n]) <= n
                      /\ \A i \in 1 .. Len(f[n]) : f[n][i] \in allowed
           T == {n \in Nat : n <= Len(days) => Good(n)}
<1>1. Collects(f, days, allowed)
  BY CollectorExists
<1>2. Within(days, allowed) = f[Len(days)]
  BY DEF Within, Collects
<1> HIDE DEF f
<1>3. 0 \in T
  <2>1. f[0] = <<>>
    BY <1>1 DEF Collects
  <2>2. Good(0)
    BY <2>1
  <2> HIDE DEF Good
  <2> QED BY <2>2
<1>4. ASSUME NEW n \in Nat, n \in T
      PROVE  n + 1 \in T
  <2> SUFFICES ASSUME n + 1 <= Len(days)
               PROVE  Good(n + 1)
    OBVIOUS
  <2>1. f[n + 1] = IF days[n + 1] \in allowed THEN Append(f[n], days[n + 1]) ELSE f[n]
    <3>1. n + 1 \in 0 .. Len(days) /\ n + 1 # 0 /\ (n + 1) - 1 = n
      OBVIOUS
    <3>2. \A m \in 0 .. Len(days) :
            f[m] = IF m = 0 THEN <<>>
                   ELSE IF days[m] \in allowed THEN Append(f[m - 1], days[m]) ELSE f[m - 1]
      BY <1>1 DEF Collects
    <3> QED BY <3>1, <3>2
  <2>2. Good(n) /\ days[n + 1] \in Int
    BY <1>4
  <2>3. CASE days[n + 1] \in allowed
    <3>1. f[n + 1] = Append(f[n], days[n + 1])
      BY <2>1, <2>3
    <3> QED BY <2>2, <2>3, <3>1
  <2>4. CASE days[n + 1] \notin allowed
    <3>1. f[n + 1] = f[n]
      BY <2>1, <2>4
    <3> QED BY <2>2, <3>1
  <2> QED BY <2>3, <2>4
<1>5. Len(days) \in T
  <2> HIDE DEF T
  <2>1. Nat \subseteq T
    BY <1>3, <1>4, EveryNumber
  <2> QED BY <2>1
<1> QED BY <1>2, <1>5

LEMMA ListOfDays ==
    ASSUME NEW n \in Nat, NEW f \in [1 .. n -> Int]
    PROVE  f \in Seq(Int) /\ Len(f) = n
OBVIOUS

\* With no day left to pick, there is one deadline for every content, and each
\* lies where it may, whatever was taken off and picked before.
LEMMA AllocationIsComplete ==
    ASSUME NEW c, c.start \in Int, c.end \in Int, c.interval \in Int, c.quota \in Nat,
           NEW day \in Int, NEW picks, picks.manual \in Seq(Int),
           AllocateDeadlines(c, picks, day).remaining = 0
    PROVE  LET days == AllocateDeadlines(c, picks, day).deadlines IN
           /\ days \in Seq(Int)
           /\ Len(days) = c.quota
           /\ \A i \in 1 .. c.quota : days[i] \in EarliestDeadline(c.start, day) .. c.end
<1> DEFINE first == EarliestDeadline(c.start, day)
           proposed == [i \in 1 .. c.quota |-> first + (i - 1) * c.interval]
           schedule == GenerateDeadlineSchedule(c, day)
           auto == Within(schedule, (first .. c.end) \ picks.removed)
           open == IF c.quota > Len(auto) THEN c.quota - Len(auto) ELSE 0
           fits == Within(picks.manual, first .. c.end)
           manual == Prefix(fits, open)
           all == auto \o manual
<1>1. first \in Int
  BY ScheduleAssumption DEF EarliestDeadline
<1>2. proposed \in Seq(Int) /\ Len(proposed) = c.quota
  <2> HIDE DEF first
  <2>1. \A a, b \in Int : a * b \in Int
    OBVIOUS
  <2>2. \A i \in 1 .. c.quota : first + (i - 1) * c.interval \in Int
    BY <1>1, <2>1
  <2>3. proposed \in [1 .. c.quota -> Int]
    BY <2>2
  <2> HIDE DEF proposed
  <2> QED BY <2>3, ListOfDays
<1>3. schedule \in Seq(Int) /\ Len(schedule) <= c.quota
  <2>1. schedule = Within(proposed, first .. c.end)
    BY DEF GenerateDeadlineSchedule
  <2> HIDE DEF proposed, first, schedule
  <2> QED BY <1>2, <2>1, WithinKeeps
<1>4. /\ AllocateDeadlines(c, picks, day).remaining = open - Len(manual)
      /\ AllocateDeadlines(c, picks, day).deadlines = InOrder(all)
  BY DEF AllocateDeadlines
<1> HIDE DEF first, proposed, schedule
<1>5. /\ auto \in Seq(Int) /\ Len(auto) <= c.quota /\ Len(auto) \in Nat
      /\ \A i \in 1 .. Len(auto) : auto[i] \in first .. c.end
  <2>1. /\ auto \in Seq(Int) /\ Len(auto) <= Len(schedule)
        /\ \A i \in 1 .. Len(auto) : auto[i] \in (first .. c.end) \ picks.removed
    BY <1>3, WithinKeeps
  <2> HIDE DEF auto
  <2> QED BY <1>3, <2>1
<1> HIDE DEF auto
<1>6. /\ fits \in Seq(Int)
      /\ \A i \in 1 .. Len(fits) : fits[i] \in first .. c.end
  BY WithinKeeps
<1> HIDE DEF fits
<1>7. open \in Nat /\ open = c.quota - Len(auto)
  BY <1>5
<1> HIDE DEF open
<1>8. /\ manual \in Seq(Int) /\ Len(manual) \in Nat
      /\ \A i \in 1 .. Len(manual) : manual[i] \in first .. c.end
  <2> DEFINE k == IF open < Len(fits) THEN open ELSE Len(fits)
  <2>1. manual = SubSeq(fits, 1, k)
    BY DEF Prefix
  <2>2. Len(fits) \in Nat /\ k \in 0 .. Len(fits)
    BY <1>6, <1>7
  <2> HIDE DEF k, manual
  <2>3. /\ manual \in Seq(Int) /\ Len(manual) = k
        /\ \A i \in 1 .. k : manual[i] = fits[i]
    BY <1>6, <2>1, <2>2
  <2>4. \A i \in 1 .. k : i \in 1 .. Len(fits)
    BY <2>2
  <2>5. \A i \in 1 .. k : manual[i] \in first .. c.end
    BY <1>6, <2>3, <2>4
  <2> QED BY <2>2, <2>3, <2>5
<1>9. Len(manual) = open
  BY <1>4, <1>7, <1>8
<1> HIDE DEF manual
<1>10. /\ all \in Seq(Int) /\ Len(all) = c.quota
       /\ \A i \in 1 .. c.quota : all[i] \in first .. c.end
  <2>1. all \in Seq(Int) /\ Len(all) = Len(auto) + Len(manual)
    BY <1>5, <1>8
  <2>2. Len(all) = c.quota
    BY <1>5, <1>7, <1>9, <2>1
  <2>3. ASSUME NEW i \in 1 .. c.quota
        PROVE  all[i] \in first .. c.end
    <3>1. CASE i <= Len(auto)
      <4>1. all[i] = auto[i]
        BY <1>5, <1>8, <3>1
      <4> QED BY <1>5, <3>1, <4>1
    <3>2. CASE i > Len(auto)
      <4>1. i - Len(auto) \in 1 .. Len(manual) /\ all[i] = manual[i - Len(auto)]
        BY <1>5, <1>7, <1>8, <1>9, <3>2
      <4> QED BY <1>8, <4>1
    <3>3. i <= Len(auto) \/ i > Len(auto)
      BY <1>5
    <3> HIDE DEF all
    <3> QED BY <3>1, <3>2, <3>3
  <2> QED BY <2>1, <2>2, <2>3
<1> HIDE DEF all
<1>11. /\ InOrder(all) \in Seq(Int) /\ Len(InOrder(all)) = c.quota
       /\ \A i \in 1 .. c.quota : \E k \in 1 .. c.quota : InOrder(all)[i] = all[k]
  BY <1>10, InOrderSorts
<1>12. \A i \in 1 .. c.quota : InOrder(all)[i] \in first .. c.end
  BY <1>10, <1>11
<1> QED BY <1>4, <1>11, <1>12 DEF first

\* Taking the last pick of a day off leaves a list of days.
LEMMA RemovalLeavesDays ==
    ASSUME NEW picks, picks.manual \in Seq(Int), "manual" \in DOMAIN picks, NEW day
    PROVE  LET left == RemoveManualDeadline(picks, day) IN
           "manual" \in DOMAIN left /\ left.manual \in Seq(Int)
<1> DEFINE s == picks.manual
           at == {i \in DOMAIN s : s[i] = day}
<1>1. CASE at = {}
  <2>1. RemoveManualDeadline(picks, day) = picks
    BY <1>1 DEF RemoveManualDeadline
  <2> QED BY <2>1
<1>2. CASE at # {}
  <2>0. Len(s) \in Nat /\ \A i \in at : i \in 1 .. Len(s)
    OBVIOUS
  <2> HIDE DEF at
  <2>1. PICK i \in at : \A j \in at : i >= j
    <3> DEFINE T == {Len(s) - i : i \in at}
    <3>1. T \subseteq Nat /\ T # {}
      BY <1>2, <2>0
    <3> HIDE DEF T
    <3>2. PICK m \in T : \A k \in T : m <= k
      BY <3>1, LeastNumber
    <3>3. PICK i \in at : m = Len(s) - i
      BY <3>2 DEF T
    <3>4. \A j \in at : Len(s) - j \in T
      BY DEF T
    <3>5. \A j \in at : i >= j
      BY <2>0, <3>2, <3>3, <3>4
    <3> QED BY <3>5
  <2>2. Max(at) \in at
    BY <2>1 DEF Max
  <2>3. PICK k \in 1 .. Len(s) : k = Max(at)
    BY <2>0, <2>2
  <2>4. RemoveAt(s, k) \in Seq(Int)
    BY <2>0 DEF RemoveAt
  <2>5. RemoveManualDeadline(picks, day) = [picks EXCEPT !.manual = RemoveAt(s, k)]
    BY <1>2, <2>3 DEF RemoveManualDeadline, at
  <2> QED BY <2>4, <2>5
<1> QED BY <1>1, <1>2

\* Whatever is picked on the calendar, the picks stay a list of days.
LEMMA PickingKeepsForm ==
    ASSUME FormIsGood, Pick
    PROVE  /\ FormIsGood' /\ form # Closed /\ form.screen = "creator"
           /\ form'.screen = "creator" /\ form'.opening = form.opening
<1>1. form # Closed /\ form.screen = "creator"
  BY DEF Pick, CalendarIsShown, IsOpen
<1>2. /\ {"screen", "opening", "known", "input", "picks", "changes"} \subseteq DOMAIN form
      /\ form.input \in CreatorInputs \cup {Blank}
      /\ "manual" \in DOMAIN form.picks
      /\ form.picks.manual \in Seq(Int)
  BY <1>1 DEF FormIsGood, ContentForms
<1>3. form.input.end \in Int
  BY <1>2 DEF CreatorInputs, Blank, NoDate
<1>4. PICK picks : PicksBecome(picks) /\ "manual" \in DOMAIN picks /\ picks.manual \in Seq(Int)
  <2>1. ASSUME NEW day, PicksBecome(ToggleAutoDeadline(form.picks, day))
        PROVE  \E picks : PicksBecome(picks) /\ "manual" \in DOMAIN picks
                                             /\ picks.manual \in Seq(Int)
    <3>1. /\ "manual" \in DOMAIN ToggleAutoDeadline(form.picks, day)
          /\ ToggleAutoDeadline(form.picks, day).manual = form.picks.manual
      BY <1>2 DEF ToggleAutoDeadline
    <3> QED BY <1>2, <2>1, <3>1
  <2>2. ASSUME NEW day \in 0 .. form.input.end, NEW n,
               PicksBecome(AddManualDeadline(form.picks, day, n))
        PROVE  \E picks : PicksBecome(picks) /\ "manual" \in DOMAIN picks
                                             /\ picks.manual \in Seq(Int)
    <3>1. Append(form.picks.manual, day) \in Seq(Int)
      BY <1>2, <1>3
    <3>2. /\ "manual" \in DOMAIN AddManualDeadline(form.picks, day, n)
          /\ \/ AddManualDeadline(form.picks, day, n).manual = form.picks.manual
             \/ AddManualDeadline(form.picks, day, n).manual = Append(form.picks.manual, day)
      BY <1>2 DEF AddManualDeadline
    <3> QED BY <1>2, <2>2, <3>1, <3>2
  <2>3. ASSUME NEW day, PicksBecome(RemoveManualDeadline(form.picks, day))
        PROVE  \E picks : PicksBecome(picks) /\ "manual" \in DOMAIN picks
                                             /\ picks.manual \in Seq(Int)
    BY <1>2, <2>3, RemovalLeavesDays
  <2> QED BY <2>1, <2>2, <2>3 DEF Pick
<1>5. form' = [form EXCEPT !.picks = picks, !.changes = form.changes + 1]
  BY <1>4 DEF PicksBecome
<1>6. /\ DOMAIN form' = DOMAIN form
      /\ form'.screen = form.screen /\ form'.opening = form.opening
      /\ form'.input = form.input /\ form'.picks = picks
  BY <1>2, <1>5
<1>7. FormIsGood'
  BY <1>1, <1>2, <1>4, <1>6 DEF FormIsGood
<1> QED BY <1>1, <1>6, <1>7

\* The rows may move under a call, and its request be worked on.
LEMMA CallStays ==
    ASSUME SlotInv, [ServerStep]_slotVars, NEW r \in Requests, CallIsGood(r),
           calls'[r] = calls[r],
           \/ requests'[r] = requests[r]
           \/ /\ requests[r] # Idle /\ requests'[r] # Idle
              /\ requests'[r].kind = requests[r].kind
              /\ requests'[r].body = requests[r].body
    PROVE  CallIsGood(r)'
<1> SUFFICES ASSUME calls[r] # NoCall PROVE CallIsGood(r)'
  BY DEF CallIsGood
<1>1. ASSUME calls[r].kind = "content", ContentBody(calls[r].body),
             IsSendableContent(calls[r].body, calls[r].day)
      PROVE  IsSendableContent(calls[r].body, calls[r].day)'
  <2>1. PICK b : b = calls[r].body
    OBVIOUS
  <2>2. contracts'[b.contract] = contracts[b.contract]
    BY <1>1, <2>1, ContractsStay DEF ContentBody, IsSendableContent
  <2> QED BY <1>1, <2>1, <2>2 DEF IsSendableContent
<1>2. \/ /\ calls[r].kind = "creator"
         /\ CreatorBody(calls[r].body) /\ IsSendableCreator(calls[r].body, calls[r].day)
      \/ /\ calls[r].kind = "content"
         /\ ContentBody(calls[r].body) /\ IsSendableContent(calls[r].body, calls[r].day)
  BY DEF CallIsGood
<1>3. (\/ /\ calls[r].kind = "creator"
          /\ CreatorBody(calls[r].body) /\ IsSendableCreator(calls[r].body, calls[r].day)
       \/ /\ calls[r].kind = "content"
          /\ ContentBody(calls[r].body) /\ IsSendableContent(calls[r].body, calls[r].day))'
  BY <1>1, <1>2
<1>4. IF calls'[r].arrived
      THEN /\ requests'[r] # Idle
           /\ requests'[r].kind = calls'[r].kind
           /\ requests'[r].body = calls'[r].body
      ELSE requests'[r] = Idle
  BY DEF CallIsGood
<1> QED BY <1>3, <1>4 DEF CallIsGood

LEMMA FormStays ==
    ASSUME SlotInv, [ServerStep]_slotVars, FormIsGood, form' = form \/ form' = Closed
    PROVE  FormIsGood'
<1>1. CASE form' = form
  <2> SUFFICES ASSUME form # Closed, form \in ContentForms, contracts[form.contract] # NoContract
               PROVE  contracts'[form.contract] # NoContract
    BY <1>1 DEF FormIsGood
  <2>1. form.contract \in Contracts
    BY DEF ContentForms
  <2> QED BY <2>1, ContractsStay
<1>2. CASE form' = Closed
  BY <1>2 DEF FormIsGood
<1> QED BY <1>1, <1>2

\* The calls that are not touched, while nothing happens at the server.
LEMMA CallsStay ==
    ASSUME SlotInv, CallsInv, [ServerStep]_slotVars, UNCHANGED slotVars,
           \A r \in Requests : \/ calls'[r] = calls[r]
                               \/ calls'[r] = NoCall
                               \/ /\ calls[r] # NoCall
                                  /\ calls'[r] = [calls[r] EXCEPT !.live = FALSE]
    PROVE  \A r \in Requests : CallIsGood(r)'
<1> SUFFICES ASSUME NEW r \in Requests, calls'[r] # NoCall
             PROVE  CallIsGood(r)'
  BY DEF CallIsGood
<1>1. CallIsGood(r) /\ requests'[r] = requests[r]
  BY DEF CallsInv, slotVars
<1>2. CASE calls'[r] = calls[r]
  BY <1>1, <1>2, CallStays
<1>3. CASE calls'[r] # calls[r]
  <2>1. calls'[r] = [calls[r] EXCEPT !.live = FALSE]
    BY <1>3
  <2>2. calls[r] # NoCall
    BY <1>3
  <2>3. {"body", "kind", "day", "opening", "live", "arrived"} \subseteq DOMAIN calls[r]
    BY <1>1, <2>2 DEF CallIsGood
  <2>4. /\ DOMAIN calls'[r] = DOMAIN calls[r]
        /\ calls'[r].body = calls[r].body /\ calls'[r].kind = calls[r].kind
        /\ calls'[r].day = calls[r].day /\ calls'[r].arrived = calls[r].arrived
    BY <2>1, <2>3
  <2>5. contracts' = contracts
    BY DEF slotVars, rowVars
  <2> QED BY <1>1, <2>2, <2>3, <2>4, <2>5 DEF CallIsGood, IsSendableContent
<1> QED BY <1>2, <1>3

\* What a form holds is checked before it is sent.
LEMMA SavingKeepsCalls ==
    ASSUME SlotInv, ScheduleInv, CallsInv, [Next]_formVars,
           NEW r \in Requests, SaveCreator(r) \/ SaveContent(r)
    PROVE  CallsInv'
<1>0. /\ [ServerStep]_slotVars /\ UNCHANGED slotVars /\ form' = form /\ openings' = openings
      /\ form # Closed
  BY FormsAreServed DEF SaveCreator, SaveContent, pageVars, Touchable
<1>1. FormIsGood /\ FormIsGood'
  BY <1>0, FormStays DEF CallsInv
<1>2. today \in Int
  BY SlotsAssumption DEF ScheduleInv, Days
<1>3. ASSUME calls' = calls
      PROVE  CallsInv'
  BY <1>0, <1>1, <1>3, CallsStay DEF CallsInv
<1>4. ASSUME NEW b, Post(r, b),
             \/ /\ form.screen = "creator"
                /\ CreatorBody(b) /\ IsSendableCreator(b, today)
             \/ /\ form.screen = "content"
                /\ ContentBody(b) /\ IsSendableContent(b, today)
      PROVE  CallsInv'
  <2>1. /\ calls'[r] = [body |-> b, kind |-> form.screen, day |-> today,
                        opening |-> form.opening, live |-> TRUE, arrived |-> FALSE]
        /\ DOMAIN calls' = Requests
        /\ \A p \in Requests : p # r => calls'[p] = calls[p]
        /\ requests[r] = Idle
    BY <1>4 DEF Post, CallsInv
  <2>2. \A p \in Requests : p # r => CallIsGood(p)'
    <3> SUFFICES ASSUME NEW p \in Requests, p # r PROVE CallIsGood(p)'
      OBVIOUS
    <3>1. CallIsGood(p) /\ calls'[p] = calls[p] /\ requests'[p] = requests[p]
      BY <1>0, <2>1 DEF CallsInv, slotVars
    <3> QED BY <1>0, <3>1, CallStays
  <2>3. CallIsGood(r)'
    <3>1. contracts' = contracts /\ requests' = requests
      BY <1>0 DEF slotVars, rowVars
    <3>2. IsSendableContent(b, today) => IsSendableContent(b, today)'
      BY <1>0, <3>1 DEF IsSendableContent, slotVars
    <3>3. /\ calls'[r].body = b /\ calls'[r].kind = form.screen /\ calls'[r].day = today
          /\ calls'[r].arrived = FALSE
          /\ {"body", "kind", "day", "opening", "live", "arrived"} \subseteq DOMAIN calls'[r]
      BY <2>1
    <3>4. today' = today
      BY <1>0 DEF slotVars
    <3> QED BY <1>4, <2>1, <3>1, <3>2, <3>3, <3>4 DEF CallIsGood, IsSendableContent
  <2> QED BY <1>0, <1>1, <2>1, <2>2, <2>3 DEF CallsInv
<1>5. CASE SaveCreator(r)
  <2> DEFINE f == form.input
             days == FormAllocation.deadlines
             b == [email |-> f.email, start |-> f.start, end |-> f.end,
                   interval |-> f.interval, quota |-> f.quota,
                   complete |-> f.complete, deadlines |-> days]
  <2>1. form.screen = "creator" /\ Post(r, b) /\ FormErrors = {} /\ FormAllocation.remaining = 0
    BY <1>5 DEF SaveCreator, IsOpen
  <2>2. f \in CreatorInputs \cup {Blank} /\ form.picks.manual \in Seq(Int)
    BY <1>0, <1>1, <2>1 DEF FormIsGood, ContentForms
  <2>3. /\ f.complete
        /\ CheckContractDates(f, today) = {}
        /\ ~(f.interval <= 0)
        /\ QuotaErrors(f) = {}
    BY <2>1 DEF FormErrors, ValidateCreatorForm
  <2>4. f \in CreatorInputs
    BY <2>2, <2>3 DEF Blank
  <2>5. /\ f.email \in Emails /\ f.start \in Int /\ f.end \in Int
        /\ f.interval \in Int /\ f.quota \in Int /\ f.complete \in BOOLEAN
    BY <2>4 DEF CreatorInputs
  <2>6. f.interval > 0 /\ f.quota > 0 /\ f.quota \in Nat
    BY <2>3, <2>5 DEF QuotaErrors
  <2>7. f.start # NoDate /\ f.end # NoDate /\ f.start <= f.end
    BY <1>2, <2>3, <2>5 DEF CheckContractDates, DateIsBad
  <2>8. FormAllocation = AllocateDeadlines(f, form.picks, today)
    BY <2>6, <2>7 DEF FormAllocation, Allocation, HasSchedule
  <2>9. AllocateDeadlines(f, form.picks, today).remaining = 0
    BY <2>1, <2>8
  <2>10. LET ds == AllocateDeadlines(f, form.picks, today).deadlines IN
         /\ ds \in Seq(Int) /\ Len(ds) = f.quota
         /\ \A i \in 1 .. f.quota : ds[i] \in EarliestDeadline(f.start, today) .. f.end
    <3> HIDE DEF f
    <3> QED BY <1>2, <2>2, <2>5, <2>6, <2>9, AllocationIsComplete
  <2>11. /\ days \in Seq(Int) /\ Len(days) = f.quota
         /\ \A i \in 1 .. f.quota : days[i] \in EarliestDeadline(f.start, today) .. f.end
    BY <2>8, <2>10
  <2>12. /\ b.email = f.email /\ b.start = f.start /\ b.end = f.end
         /\ b.interval = f.interval /\ b.quota = f.quota
         /\ b.complete = f.complete /\ b.deadlines = days
    OBVIOUS
  <2> HIDE DEF b, days, f
  <2>13. CreatorBody(b)
    BY <2>5, <2>11, <2>12 DEF CreatorBody
  <2>14. CheckContractDates(b, today) = {} /\ QuotaErrors(b) = {}
    BY <2>3, <2>12 DEF CheckContractDates, QuotaErrors
  <2>15. IsSendableCreator(b, today)
    BY <2>3, <2>5, <2>6, <2>11, <2>12, <2>14 DEF IsSendableCreator
  <2> QED BY <1>4, <2>1, <2>13, <2>15
<1>6. CASE SaveContent(r)
  <2> DEFINE k == form.input
             b == [contract |-> form.contract, type |-> k.type,
                   deadline |-> k.deadline, complete |-> k.complete]
  <2>1. form.screen = "content"
    BY <1>6 DEF SaveContent, IsOpen
  <2>2. form \in ContentForms /\ contracts[form.contract] # NoContract
    BY <1>0, <1>1, <2>1 DEF FormIsGood
  <2>3. CASE ContentFormErrors # {}
    BY <1>3, <1>6, <2>3 DEF SaveContent
  <2>4. CASE ContentFormErrors = {}
    <3>1. Post(r, b)
      BY <1>6, <2>4 DEF SaveContent
    <3>2. /\ form.contract \in Contracts /\ k.type \in ContentTypes
          /\ k.deadline \in Int /\ k.complete \in BOOLEAN
      BY <2>2 DEF ContentForms, ContentInputs
    <3>3. /\ k.type = "specific" => k.complete
          /\ k.deadline \in FirstAllowed(form.contract) .. contracts[form.contract].end
      BY <2>4 DEF ContentFormErrors
    <3>4. /\ b.contract = form.contract /\ b.type = k.type
          /\ b.deadline = k.deadline /\ b.complete = k.complete
      OBVIOUS
    <3> HIDE DEF b, k
    <3>5. ContentBody(b) /\ IsSendableContent(b, today)
      BY <2>2, <3>2, <3>3, <3>4 DEF ContentBody, IsSendableContent, FirstAllowed
    <3> QED BY <1>4, <2>1, <3>1, <3>5
  <2> QED BY <2>3, <2>4
<1> QED BY <1>5, <1>6

\* A call the server receives, forgets or works on, and its answer.
LEMMA ServedCalls ==
    ASSUME SlotInv, CallsInv, [Next]_formVars,
           NEW r \in Requests,
           Arrive(r) \/ TakeAnswer(r) \/ LoseConnection(r) \/ Expire(r) \/ Serve(r)
    PROVE  CallsInv'
<1>1. [ServerStep]_slotVars
  BY FormsAreServed
<1>2. CallIsGood(r) /\ FormIsGood /\ DOMAIN calls = Requests /\ DOMAIN requests = Requests
  BY DEF CallsInv, SlotInv, RequestsAreGood
<1>3. FormIsGood'
  <2>1. form' = form \/ form' = Closed
    BY DEF Arrive, TakeAnswer, LoseConnection, Expire, Serve, Hear
  <2> QED BY <1>1, <1>2, <2>1, FormStays
<1>4. openings' = openings
  BY DEF Arrive, TakeAnswer, LoseConnection, Expire, Serve, pageVars
<1>5. ASSUME NEW p \in Requests, p # r
      PROVE  CallIsGood(p)'
  <2>1. calls'[p] = calls[p]
    BY <1>2, <1>5 DEF Arrive, TakeAnswer, LoseConnection, Expire, Serve, Hear
  <2>2. requests'[p] = requests[p]
    <3>1. CASE Serve(r)
      BY <1>5, <3>1, WorkKeepsRequest DEF Serve
    <3>2. CASE ~Serve(r)
      BY <1>2, <1>5, <3>2 DEF Arrive, TakeAnswer, LoseConnection, Expire, Hear, Forget,
         slotVars, ReceiveCreator, ReceiveContent, Receive
    <3> QED BY <3>1, <3>2
  <2> QED BY <1>1, <2>1, <2>2, CallStays DEF CallsInv
<1>6. CallIsGood(r)'
  <2>1. CASE TakeAnswer(r) \/ LoseConnection(r)
    <3>1. calls'[r] = NoCall
      BY <1>2, <2>1 DEF TakeAnswer, LoseConnection, Hear
    <3> QED BY <3>1 DEF CallIsGood
  <2>2. CASE Expire(r)
    <3>1. calls'[r] = NoCall
      BY <2>2 DEF Expire
    <3> QED BY <3>1 DEF CallIsGood
  <2>3. CASE Serve(r)
    BY <1>1, <1>2, <2>3, WorkKeepsRequest, CallStays DEF Serve
  <2>4. CASE Arrive(r)
    <3>1. /\ calls[r] # NoCall
          /\ {"body", "kind", "day", "opening", "live", "arrived"} \subseteq DOMAIN calls[r]
          /\ calls'[r] = [calls[r] EXCEPT !.arrived = TRUE]
          /\ rowVars' = rowVars
      BY <1>2, <2>4 DEF Arrive, CallIsGood, ReceiveCreator, ReceiveContent, Receive
    <3>2. /\ DOMAIN calls'[r] = DOMAIN calls[r]
          /\ calls'[r].body = calls[r].body /\ calls'[r].kind = calls[r].kind
          /\ calls'[r].day = calls[r].day /\ calls'[r].arrived = TRUE
      BY <3>1
    <3>3. /\ requests'[r].kind = calls[r].kind
          /\ requests'[r].body = calls[r].body
      BY <1>2, <2>4 DEF Arrive, ReceiveCreator, ReceiveContent, Receive
    <3>4. requests'[r] # Idle
      BY <1>2, <3>1, <3>3 DEF CallIsGood, Idle
    <3>5. contracts' = contracts
      BY <3>1 DEF rowVars
    <3> QED BY <1>2, <3>1, <3>2, <3>3, <3>4, <3>5 DEF CallIsGood, IsSendableContent
  <2> QED BY <2>1, <2>2, <2>3, <2>4
<1> QED
  <2>1. DOMAIN calls' = Requests
    BY <1>2 DEF Arrive, TakeAnswer, LoseConnection, Expire, Serve, Hear
  <2> QED BY <1>3, <1>4, <1>5, <1>6, <2>1 DEF CallsInv

LEMMA CallsNext ==
    ASSUME SlotInv, ScheduleInv, CallsInv, [Next]_formVars
    PROVE  CallsInv'
<1>0. [ServerStep]_slotVars
  BY FormsAreServed
<1>1. ASSUME UNCHANGED slotVars, calls' = calls, openings' \in Nat, FormIsGood'
      PROVE  CallsInv'
  BY <1>0, <1>1, CallsStay DEF CallsInv
<1>2. FormIsGood /\ openings \in Nat
  BY DEF CallsInv
<1>3. ASSUME UNCHANGED slotVars, calls' = calls, openings' = openings,
             form' = form \/ form' = Closed
      PROVE  CallsInv'
  BY <1>0, <1>1, <1>2, <1>3, FormStays
<1>4. CASE OpenCreatorForm
  <2>1. openings' \in Nat /\ UNCHANGED slotVars /\ calls' = calls
    BY <1>2, <1>4 DEF OpenCreatorForm
  <2>2. PICK known : form' = [screen |-> "creator", opening |-> openings + 1, known |-> known,
                              input |-> Blank, picks |-> NoPicks, changes |-> 0]
    BY <1>4 DEF OpenCreatorForm
  <2>3. "manual" \in DOMAIN NoPicks /\ NoPicks.manual \in Seq(Int)
    BY DEF NoPicks
  <2>4. FormIsGood'
    BY <2>2, <2>3 DEF FormIsGood
  <2> QED BY <1>1, <2>1, <2>4
<1>5. ASSUME NEW c \in Contracts, OpenContentForm(c)
      PROVE  CallsInv'
  <2>1. /\ openings' \in Nat /\ UNCHANGED slotVars /\ calls' = calls
        /\ openings + 1 \in Nat /\ contracts[c] # NoContract
    BY <1>2, <1>5 DEF OpenContentForm
  <2>2. PICK full \in BOOLEAN :
          form' = [screen |-> "content", opening |-> openings + 1, contract |-> c,
                   full |-> full, input |-> Untouched(c, full)]
    <3>1. PICK counted : form' = [screen |-> "content", opening |-> openings + 1,
                                  contract |-> c, full |-> counted >= contracts[c].quota,
                                  input |-> Untouched(c, counted >= contracts[c].quota)]
      BY <1>5 DEF OpenContentForm
    <3>2. (counted >= contracts[c].quota) \in BOOLEAN
      OBVIOUS
    <3> QED BY <3>1, <3>2
  <2>3. FirstAllowed(c) \in Int
    <3>1. contracts[c].start \in Int /\ today \in Int
      BY <2>1, SlotsAssumption DEF SlotInv, RowsAreTyped, ContractRows, ScheduleInv, Days
    <3> QED BY <3>1, ScheduleAssumption DEF FirstAllowed, EarliestDeadline
  <2>4. Untouched(c, full) \in ContentInputs
    BY <2>3 DEF Untouched, ContentInputs, ContentTypes
  <2>5. form' \in ContentForms /\ form'.contract = c
    BY <2>1, <2>2, <2>4 DEF ContentForms
  <2>6. contracts' = contracts
    BY <2>1 DEF slotVars, rowVars
  <2>7. FormIsGood'
    BY <2>1, <2>5, <2>6 DEF FormIsGood
  <2> QED BY <1>1, <2>1, <2>7
<1>6. CASE RequestClose \/ Discard \/ KeepFilling
  BY <1>3, <1>6 DEF RequestClose, Discard, KeepFilling, Close, pageVars
<1>7. CASE Navigate
  <2>1. UNCHANGED slotVars /\ openings' = openings /\ form' = Closed /\ DOMAIN calls' = Requests
    BY <1>7 DEF Navigate
  <2>2. \A r \in Requests : \/ calls'[r] = NoCall
                            \/ /\ calls[r] # NoCall
                               /\ calls'[r] = [calls[r] EXCEPT !.live = FALSE]
    BY <1>7 DEF Navigate
  <2>3. \A r \in Requests : CallIsGood(r)'
    BY <1>0, <2>1, <2>2, CallsStay
  <2> QED BY <1>0, <1>2, <2>1, <2>3, FormStays DEF CallsInv
<1>8. ASSUME NEW t \in Terms, FillInCreator(t)
      PROVE  CallsInv'
  <2>1. /\ UNCHANGED slotVars /\ openings' = openings /\ calls' = calls
        /\ form # Closed /\ form.screen = "creator" /\ form' = [form EXCEPT !.input = t]
    BY <1>8 DEF FillInCreator, IsOpen, pageVars
  <2>2. /\ {"screen", "opening", "known", "input", "picks", "changes"} \subseteq DOMAIN form
        /\ "manual" \in DOMAIN form.picks /\ form.picks.manual \in Seq(Int)
    BY <1>2, <2>1 DEF FormIsGood, ContentForms
  <2>3. /\ DOMAIN form' = DOMAIN form /\ form'.screen = "creator"
        /\ form'.picks = form.picks /\ form'.input = t
    BY <2>1, <2>2
  <2>4. FormIsGood'
    BY <2>2, <2>3, FormsAssumption DEF FormIsGood
  <2> QED BY <1>1, <1>2, <2>1, <2>4
<1>9. CASE Pick
  <2>1. UNCHANGED slotVars /\ openings' = openings /\ calls' = calls
    BY <1>9 DEF Pick, PicksBecome, pageVars
  <2> QED BY <1>1, <1>2, <1>9, <2>1, PickingKeepsForm
<1>10. ASSUME NEW k \in Contents, FillInContent(k)
       PROVE  CallsInv'
  <2>1. /\ UNCHANGED slotVars /\ openings' = openings /\ calls' = calls
        /\ form # Closed /\ form.screen = "content" /\ form' = [form EXCEPT !.input = k]
    BY <1>10 DEF FillInContent, IsOpen, pageVars
  <2>2. form \in ContentForms /\ contracts[form.contract] # NoContract
    BY <1>2, <2>1 DEF FormIsGood
  <2>3. form' \in ContentForms /\ form'.contract = form.contract
    BY <2>1, <2>2, FormsAssumption DEF ContentForms
  <2>4. contracts' = contracts
    BY <2>1 DEF slotVars, rowVars
  <2>5. FormIsGood'
    BY <2>2, <2>3, <2>4 DEF FormIsGood
  <2> QED BY <1>1, <1>2, <2>1, <2>5
<1>11. CASE NextDay
  <2>1. /\ calls' = calls /\ openings' = openings /\ form' = form
        /\ requests' = requests
    BY <1>11 DEF NextDay, DayPasses
  <2>2. ASSUME NEW r \in Requests PROVE CallIsGood(r)'
    BY <1>0, <2>1, CallStays DEF CallsInv
  <2> QED BY <1>0, <1>2, <2>1, <2>2, FormStays DEF CallsInv
<1>12. CASE UNCHANGED formVars
  BY <1>3, <1>12 DEF formVars
<1> QED BY <1>4, <1>5, <1>6, <1>7, <1>8, <1>9, <1>10, <1>11, <1>12, ServedCalls,
           SavingKeepsCalls DEF Next

\* One save at a time, from a form that waits for it: what each step does to
\* the calls a page still waits for.
LEMMA PageNext ==
    ASSUME SlotInv, CallsInv, PageIsGood, SavesAreAwaited, [Next]_formVars
    PROVE  PageIsGood' /\ SavesAreAwaited'
<1> DEFINE Live(r) == calls[r] # NoCall /\ calls[r].live
           Goes(r) == Live(r)' => /\ Live(r)
                                  /\ calls'[r].kind = calls[r].kind
                                  /\ calls'[r].opening = calls[r].opening
<1>1. /\ DOMAIN calls = Requests
      /\ \A r \in Requests : calls[r] # NoCall =>
           {"body", "kind", "day", "opening", "live", "arrived"} \subseteq DOMAIN calls[r]
  BY DEF CallsInv, CallIsGood
\* Nothing is sent, and neither form nor page changes what it waits for.
<1>2. ASSUME \A r \in Requests : Goes(r),
             saving' <=> \E r \in Requests : Live(r)',
             asking' /\ IsOpen("content")' => ~saving', asking' => form' # Closed,
             \A r \in Requests : Live(r)' /\ calls[r].kind = "content" =>
                IsOpen("content")' /\ form'.opening = form.opening
      PROVE  PageIsGood' /\ SavesAreAwaited'
  <2>1. OneSaveAtATime'
    BY <1>2 DEF SavesAreAwaited, OneSaveAtATime
  <2>2. ContentFormAwaitsItsAnswer'
    BY <1>2 DEF SavesAreAwaited, ContentFormAwaitsItsAnswer, IsOpen
  <2>3. SavingIsAwaited'
    BY <1>2 DEF SavingIsAwaited
  <2> QED BY <1>2, <2>1, <2>2, <2>3 DEF PageIsGood, SavesAreAwaited, IsOpen
<1>3. ASSUME calls' = calls, saving' = saving
      PROVE  /\ \A r \in Requests : Goes(r)
             /\ \A r \in Requests : Live(r)' = Live(r)
             /\ saving' <=> \E r \in Requests : Live(r)'
  BY <1>3 DEF SavesAreAwaited, SavingIsAwaited
\* The calls stay, and so does the form, or there is none to wait in.
<1>4. ASSUME calls' = calls, saving' = saving, form' = form,
             asking' => asking \/ (form # Closed /\ (form.screen = "content" => ~saving))
      PROVE  PageIsGood' /\ SavesAreAwaited'
  <2>1. IsOpen("content")' <=> IsOpen("content")
    BY <1>4 DEF IsOpen
  <2> QED BY <1>2, <1>3, <1>4, <2>1
          DEF PageIsGood, SavesAreAwaited, ContentFormAwaitsItsAnswer, IsOpen
<1>5. ASSUME calls' = calls, saving' = saving, ~asking',
             IsOpen("content") => ~saving
      PROVE  PageIsGood' /\ SavesAreAwaited'
  <2>1. \A r \in Requests : ~(Live(r)' /\ calls[r].kind = "content")
    BY <1>3, <1>5 DEF PageIsGood, SavesAreAwaited, ContentFormAwaitsItsAnswer
  <2> QED BY <1>2, <1>3, <1>5, <2>1 DEF PageIsGood
<1>6. CASE OpenCreatorForm \/ \E c \in Contracts : OpenContentForm(c)
  <2>1. /\ calls' = calls /\ saving' = saving /\ asking' = asking /\ form = Closed
    BY <1>6 DEF OpenCreatorForm, OpenContentForm
  <2> QED BY <1>5, <2>1 DEF PageIsGood, IsOpen
<1>7. CASE RequestClose
  <2>1. CASE IsDirty
    BY <1>4, <1>7, <2>1 DEF RequestClose, Touchable
  <2>2. CASE ~IsDirty
    BY <1>5, <1>7, <2>2 DEF RequestClose, Touchable, Close, IsOpen
  <2> QED BY <2>1, <2>2
<1>8. CASE Discard
  BY <1>5, <1>8 DEF Discard, Close, PageIsGood
<1>9. CASE KeepFilling \/ NextDay \/ UNCHANGED formVars
  BY <1>4, <1>9 DEF KeepFilling, NextDay, formVars
<1>10. CASE Navigate
  <2>1. ~asking' /\ \A r \in Requests : ~Live(r)'
    <3>1. \A r \in Requests : \/ calls'[r] = NoCall
                              \/ calls[r] # NoCall /\ calls'[r] = [calls[r] EXCEPT !.live = FALSE]
      BY <1>10 DEF Navigate
    <3> QED BY <1>1, <1>10, <3>1 DEF Navigate
  <2>2. saving' = FALSE
    BY <1>10 DEF Navigate
  <2> QED BY <1>2, <2>1, <2>2
<1>11. CASE (\E t \in Terms : FillInCreator(t)) \/ Pick
  <2>1. /\ calls' = calls /\ saving' = saving /\ ~asking /\ asking' = asking
        /\ form.screen = "creator"
    BY <1>11 DEF FillInCreator, Pick, PicksBecome, Touchable, CalendarIsShown, IsOpen
  <2> QED BY <1>5, <2>1 DEF IsOpen
<1>12. CASE \E k \in Contents : FillInContent(k)
  BY <1>5, <1>12 DEF FillInContent, Touchable
<1>13. ASSUME NEW r \in Requests, SaveCreator(r) \/ SaveContent(r)
       PROVE  PageIsGood' /\ SavesAreAwaited'
  <2>1. /\ form' = form /\ form # Closed /\ ~asking /\ asking' = asking /\ ~saving
    BY <1>13 DEF SaveCreator, SaveContent, Touchable
  <2>2. CASE calls' = calls /\ saving' = saving
    BY <1>4, <2>1, <2>2
  <2>3. ASSUME NEW b, Post(r, b)
        PROVE  PageIsGood' /\ SavesAreAwaited'
    <3>1. /\ calls'[r] = [body |-> b, kind |-> form.screen, day |-> today,
                          opening |-> form.opening, live |-> TRUE, arrived |-> FALSE]
          /\ \A p \in Requests : p # r => calls'[p] = calls[p]
          /\ saving' = TRUE
      BY <1>1, <2>3 DEF Post
    <3>2. calls'[r].kind = form.screen /\ calls'[r].opening = form.opening
      BY <3>1
    <3>3. \A p \in Requests : p # r => ~Live(p)'
      BY <2>1, <3>1 DEF PageIsGood
    <3>4. OneSaveAtATime'
      BY <3>3 DEF OneSaveAtATime
    <3>5. ContentFormAwaitsItsAnswer'
      BY <2>1, <3>2, <3>3 DEF ContentFormAwaitsItsAnswer, IsOpen
    <3>6. calls'[r] # NoCall /\ calls'[r].live
      BY <1>13, <3>1, <3>2 DEF NoCall, SaveCreator, SaveContent, IsOpen
    <3>7. SavingIsAwaited'
      BY <3>1, <3>6 DEF SavingIsAwaited
    <3> QED BY <2>1, <3>1, <3>4, <3>5, <3>7 DEF PageIsGood, SavesAreAwaited
  <2> QED BY <1>13, <2>2, <2>3 DEF SaveCreator, SaveContent
<1>14. ASSUME NEW r \in Requests, Arrive(r)
       PROVE  PageIsGood' /\ SavesAreAwaited'
  <2>1. /\ calls[r] # NoCall /\ calls'[r] = [calls[r] EXCEPT !.arrived = TRUE]
        /\ \A p \in Requests : p # r => calls'[p] = calls[p]
        /\ form' = form /\ saving' = saving /\ asking' = asking
    BY <1>1, <1>14 DEF Arrive
  <2>2. /\ calls'[r].live = calls[r].live /\ calls'[r].kind = calls[r].kind
        /\ calls'[r].opening = calls[r].opening
    BY <1>1, <2>1
  <2>3. calls'[r] # NoCall
    BY <2>1, <2>2 DEF NoCall, CallsInv, CallIsGood
  <2>4. /\ \A p \in Requests : Goes(p)
        /\ \A p \in Requests : Live(p)' <=> Live(p)
    BY <2>1, <2>2, <2>3
  <2>5. saving' <=> \E p \in Requests : Live(p)'
    BY <2>1, <2>4 DEF SavesAreAwaited, SavingIsAwaited
  <2> QED BY <1>2, <2>1, <2>4, <2>5
          DEF PageIsGood, SavesAreAwaited, ContentFormAwaitsItsAnswer, IsOpen
<1>15. ASSUME NEW r \in Requests, TakeAnswer(r) \/ LoseConnection(r)
       PROVE  PageIsGood' /\ SavesAreAwaited'
  <2>1. PICK answer : calls[r] # NoCall /\ Hear(r, answer)
    BY <1>15 DEF TakeAnswer, LoseConnection
  <2>2. calls'[r] = NoCall /\ \A p \in Requests : p # r => calls'[p] = calls[p]
    BY <1>1, <2>1 DEF Hear
  <2>3. \A p \in Requests : Goes(p)
    BY <2>2
  <2>4. CASE ~calls[r].live
    <3>1. /\ saving' = saving
          /\ \A p \in Requests : Live(p)' <=> Live(p)
      BY <2>1, <2>2, <2>4 DEF Hear
    <3>2. saving' <=> \E p \in Requests : Live(p)'
      BY <3>1 DEF SavesAreAwaited, SavingIsAwaited
    <3> QED BY <1>2, <2>1, <2>2, <2>3, <2>4, <3>2
       DEF Hear, PageIsGood, SavesAreAwaited, ContentFormAwaitsItsAnswer, IsOpen
  <2>5. CASE calls[r].live
    <3>1. \A p \in Requests : ~Live(p)'
      BY <2>1, <2>2, <2>3, <2>5 DEF SavesAreAwaited, OneSaveAtATime
    <3>2. saving' = FALSE /\ \/ form' = Closed /\ asking' = FALSE
                             \/ form' = form /\ asking' = asking
      BY <2>1, <2>5 DEF Hear
    <3> QED BY <1>2, <2>3, <3>1, <3>2 DEF PageIsGood
  <2> QED BY <2>4, <2>5
<1>16. ASSUME NEW r \in Requests, Expire(r) \/ Serve(r)
       PROVE  PageIsGood' /\ SavesAreAwaited'
  BY <1>4, <1>16 DEF Expire, Serve
<1> QED BY <1>6, <1>7, <1>8, <1>9, <1>10, <1>11, <1>12, <1>13, <1>14, <1>15, <1>16 DEF Next

\* A call is good, a page waits for one call of its own, and whatever the pages
\* do the schedules hold (creator-form.ts, add-content-modal.tsx).
THEOREM FormsInvariant == Spec => [](SlotInv /\ ScheduleInv /\ FormsInv)
<1>1. SlotInv /\ ScheduleInv /\ FormsInv /\ [Next]_formVars
        => (SlotInv /\ ScheduleInv /\ FormsInv)'
  <2> SUFFICES ASSUME SlotInv, ScheduleInv, FormsInv, [Next]_formVars
               PROVE  (SlotInv /\ ScheduleInv /\ FormsInv)'
    OBVIOUS
  <2>1. [ServerStep]_slotVars
    BY FormsAreServed DEF FormsInv
  <2>2. SlotInv'
    BY <2>1, InvNext
  <2>3. ScheduleInv'
    BY <2>1, <2>2, ScheduleNext
  <2>4. CallsInv'
    BY CallsNext DEF FormsInv
  <2>5. PageIsGood' /\ SavesAreAwaited'
    BY PageNext DEF FormsInv
  <2> QED BY <2>2, <2>3, <2>4, <2>5 DEF FormsInv
<1> QED BY <1>1, FormsInit, PTL DEF Spec

\* A page never waits for two saves and says that it is saving exactly while it
\* waits for one, and a content form stays open until its own save is answered,
\* however forms are closed, opened again and left, and answers are lost
\* (add-creator-trigger.tsx, add-content-modal.tsx).
THEOREM FormsAwaitTheirSaves == Spec => []SavesAreAwaited
<1>1. FormsInv => SavesAreAwaited
  BY DEF FormsInv
<1> QED BY <1>1, FormsInvariant, PTL

\* What a creator form lets through is refused, on the day it was sent, for
\* nothing but an interval its column has no room for.
LEMMA CreatorsAreTaken ==
    ASSUME NEW b, CreatorBody(b), NEW day \in Int, day >= 0, IsSendableCreator(b, day)
    PROVE  /\ CheckNewCreator(b, day) \subseteq {"interval"}
           /\ CheckNewCreator(b, day) # {} => b.interval > MaxInteger
           /\ CheckSchedule(b, day) = {}
<1> DEFINE first == EarliestDeadline(b.start, day)
           days == InOrder(b.deadlines)
<1>1. /\ b.start \in Int /\ b.end \in Int /\ b.quota \in Int /\ b.deadlines \in Seq(Int)
      /\ b.complete /\ b.interval > 0 /\ QuotaErrors(b) = {}
      /\ Len(b.deadlines) = b.quota
      /\ \A i \in 1 .. b.quota : b.deadlines[i] \in first .. b.end
  BY DEF CreatorBody, IsSendableCreator
<1>2. b.quota > 0 /\ b.quota <= MaxQuota
  BY <1>1, ScheduleAssumption DEF QuotaErrors
<1>3. first \in Int /\ first >= b.start /\ first >= day
  BY <1>1, ScheduleAssumption DEF EarliestDeadline
<1>4. /\ ~DateIsBad(b.start, day) /\ ~DateIsBad(b.end, day)
      /\ ~(b.start > b.end) /\ ~(b.end < first)
  BY DEF IsSendableCreator, CheckContractDates
<1> HIDE DEF first
<1>5. ContractErrors(b, day) = {}
  BY <1>4 DEF ContractErrors, first
<1>6. /\ Len(days) = b.quota
      /\ \A i \in 1 .. b.quota : \E k \in 1 .. b.quota : days[i] = b.deadlines[k]
  BY <1>1, InOrderSorts
<1>7. \A i \in 1 .. b.quota : days[i] \in first .. b.end
  BY <1>1, <1>6
<1> HIDE DEF days
<1>8. ~(days[1] < first) /\ ~(days[Len(days)] > b.end)
  <2>1. 1 \in 1 .. b.quota /\ b.quota \in 1 .. b.quota
    BY <1>1, <1>2
  <2>2. days[1] \in first .. b.end /\ days[b.quota] \in first .. b.end
    BY <1>7, <2>1
  <2> QED BY <1>1, <1>3, <1>6, <2>2
<1>9. \A earlier : DeadlineErrors(b, day, earlier) = {}
  BY <1>6, <1>8 DEF DeadlineErrors, first, days
<1>10. CheckNewCreator(b, day) = NumberErrors(b)
  BY <1>1, <1>5, <1>9 DEF CheckNewCreator
<1>11. NumberErrors(b) \subseteq {"interval"}
  BY <1>1 DEF NumberErrors
<1>12. ~(b.interval > MaxInteger) => NumberErrors(b) = {}
  <2>1. ~(b.interval <= 0)
    BY DEF IsSendableCreator
  <2> QED BY <1>1, <2>1 DEF NumberErrors
<1>13. CheckSchedule(b, day) = {}
  <2>1. ~(b.start < day) /\ ~(b.quota < 1)
    BY <1>1, <1>2, <1>4 DEF DateIsBad
  <2>2. \A i \in DOMAIN b.deadlines : b.deadlines[i] \in b.start .. b.end
    <3>1. DOMAIN b.deadlines = 1 .. b.quota
      BY <1>1
    <3> QED BY <1>1, <1>3, <3>1
  <2> QED BY <1>1, <1>4, <2>1, <2>2 DEF CheckSchedule
<1> QED BY <1>10, <1>11, <1>12, <1>13

\* The field of a content a form cannot judge is the one others fill meanwhile.
LEMMA ContentsAreTaken ==
    ASSUME NEW b, ContentBody(b), NEW day \in Int, day >= 0, IsSendableContent(b, day),
           SlotInv, day = today, NEW n
    PROVE  /\ CheckNewContent(b) = {}
           /\ CheckEvergreenSlot(b.type, b.deadline, contracts[b.contract], n, day)
                \subseteq {"type"}
<1>1. contracts[b.contract].start \in Int /\ contracts[b.contract].end \in Int
  BY DEF SlotInv, RowsAreTyped, ContractRows, ContentBody, IsSendableContent
<1>2. PICK first \in Int :
         /\ first = EarliestDeadline(contracts[b.contract].start, day)
         /\ first >= 0
  BY <1>1, ScheduleAssumption DEF EarliestDeadline
<1>3. b.deadline \in first .. contracts[b.contract].end
  BY <1>2 DEF IsSendableContent
<1>4. b.deadline # NoDate
  BY <1>2, <1>3 DEF NoDate
<1>5. CheckNewContent(b) = {}
  BY <1>4 DEF CheckNewContent, IsSendableContent
<1>6. ~(b.deadline < first) /\ ~(b.deadline > contracts[b.contract].end)
  BY <1>1, <1>3
<1> QED BY <1>2, <1>5, <1>6 DEF CheckEvergreenSlot

\* What the server refuses in one step.
LEMMA NextRefusesOnlyForNews ==
    ASSUME SlotInv, ScheduleInv, CallsInv, [Next]_formVars,
           NEW r \in Requests, calls[r] # NoCall, calls[r].day = today
    PROVE  \/ Refusals(r) \subseteq {"email", "type"}
           \/ calls[r].kind = "creator" /\ calls[r].body.interval > MaxInteger
              /\ Refusals(r) \subseteq {"interval"}
<1>1. CallIsGood(r) /\ DOMAIN requests = Requests
  BY DEF CallsInv, SlotInv, RequestsAreGood
<1>2. today \in Int /\ today >= 0
  BY SlotsAssumption DEF ScheduleInv, Days
<1>3. ASSUME requests'[r] = requests[r] \/ requests'[r] = Idle
      PROVE  Refusals(r) = {}
  BY <1>3 DEF Refusals, Idle
<1>4. ASSUME NEW ok, NEW errors, Reply(r, Answer(ok, errors))
      PROVE  Refusals(r) \subseteq errors
  <2>1. requests'[r] = [kind |-> requests[r].kind, phase |-> "answered",
                        body |-> requests[r].body, answer |-> Answer(ok, errors)]
    BY <1>1, <1>4 DEF Reply
  <2>2. requests'[r].answer.errors = errors
    BY <2>1 DEF Answer
  <2> QED BY <2>2 DEF Refusals
<1>5. ASSUME NEW kind, NEW b, NEW errors, Receive(r, kind, b, errors)
      PROVE  Refusals(r) \subseteq errors
  <2>1. CASE errors = {}
    <3>1. requests'[r] = [kind |-> kind, phase |-> "checked", body |-> b]
      BY <1>1, <1>5, <2>1 DEF Receive
    <3>2. requests'[r].phase = "checked"
      BY <3>1
    <3> QED BY <3>2 DEF Refusals
  <2>2. CASE errors # {}
    <3>1. requests'[r] = [kind |-> kind, phase |-> "answered", body |-> b,
                          answer |-> Refused(errors)]
      BY <1>1, <1>5, <2>2 DEF Receive
    <3>2. requests'[r].answer.errors = errors
      BY <3>1 DEF Refused, Answer
    <3> QED BY <3>2 DEF Refusals
  <2> QED BY <2>1, <2>2
<1>6. CASE Arrive(r)
  <2> DEFINE b == calls[r].body
  <2>1. CASE calls[r].kind = "creator"
    <3>1. CreatorBody(b) /\ IsSendableCreator(b, today)
      BY <1>1, <2>1 DEF CallIsGood
    <3>2. /\ CheckNewCreator(b, today) \subseteq {"interval"}
          /\ CheckNewCreator(b, today) # {} => b.interval > MaxInteger
          /\ CheckSchedule(b, today) = {}
      <4> HIDE DEF b
      <4> QED BY <1>2, <3>1, CreatorsAreTaken
    <3>3. ReceiveCreator(r, b)
      BY <1>6, <2>1 DEF Arrive
    <3>4. Receive(r, "creator", b, CheckNewCreator(b, today))
      BY <3>2, <3>3 DEF ReceiveCreator
    <3>5. Refusals(r) \subseteq CheckNewCreator(b, today)
      BY <1>5, <3>4
    <3> QED BY <2>1, <3>2, <3>5
  <2>2. CASE calls[r].kind # "creator"
    <3>1. ContentBody(b) /\ IsSendableContent(b, today)
      BY <1>1, <2>2 DEF CallIsGood
    <3>2. CheckNewContent(b) = {}
      <4> HIDE DEF b
      <4> QED BY <1>2, <3>1, ContentsAreTaken
    <3>3. Receive(r, "content", b, CheckNewContent(b))
      BY <1>6, <2>2 DEF Arrive, ReceiveContent
    <3> QED BY <1>5, <3>2, <3>3
  <2> QED BY <2>1, <2>2
<1>7. CASE Serve(r)
  <2>1. Work(r) /\ requests[r] # Idle
    BY <1>7, WorkKeepsRequest DEF Serve
  <2>2. requests[r].kind = calls[r].kind /\ requests[r].body = calls[r].body
    BY <1>1, <2>1 DEF CallIsGood
  <2>3. CASE \E c \in Contracts : Onboard(r, c)
    BY <1>4, <2>3 DEF Onboard, Saved
  <2>4. CASE RefuseTakenEmail(r)
    BY <1>4, <2>4 DEF RefuseTakenEmail, Refused
  <2>5. CASE LockContract(r)
    <3>1. requests'[r].phase = "locked"
      BY <1>1, <2>5 DEF LockContract
    <3> QED BY <3>1 DEF Refusals
  <2>6. CASE RefuseContent(r)
    <3>1. Refusals(r) \subseteq SlotErrors(r)
      BY <1>4, <2>6 DEF RefuseContent, Refused
    <3>2. calls[r].kind = "content"
      BY <2>2, <2>6 DEF RefuseContent, InPhase
    <3>3. PICK b : b = calls[r].body /\ ContentBody(b) /\ IsSendableContent(b, today)
      BY <1>1, <3>2 DEF CallIsGood
    <3>4. SlotErrors(r) \subseteq {"type"}
      BY <1>2, <2>2, <3>3, ContentsAreTaken DEF SlotErrors
    <3> QED BY <3>1, <3>4
  <2>7. CASE \E x \in ContentIds : CreateContent(r, x)
    BY <1>4, <2>7 DEF CreateContent, Saved
  <2>8. CASE Fail(r)
    BY <1>4, <2>8 DEF Fail, Failed
  <2> QED BY <2>1, <2>3, <2>4, <2>5, <2>6, <2>7, <2>8 DEF Work
<1>8. CASE TakeAnswer(r) \/ Expire(r)
  <2>1. requests'[r] = Idle
    BY <1>1, <1>8 DEF TakeAnswer, Expire, Forget
  <2> QED BY <1>3, <2>1
<1>9. ASSUME NEW p \in Requests, p # r,
             Arrive(p) \/ TakeAnswer(p) \/ Expire(p) \/ Serve(p)
      PROVE  requests'[r] = requests[r]
  <2>1. CASE Serve(p)
    BY <1>9, <2>1, WorkKeepsRequest DEF Serve
  <2>2. CASE ~Serve(p)
    BY <1>1, <1>9, <2>2 DEF Arrive, TakeAnswer, Expire, Forget, ReceiveCreator,
       ReceiveContent, Receive
  <2> QED BY <2>1, <2>2
<1>10. ASSUME \A p \in Requests : ~(Arrive(p) \/ TakeAnswer(p) \/ Expire(p) \/ Serve(p))
       PROVE  requests' = requests
  BY <1>10 DEF Next, formVars, OpenCreatorForm, OpenContentForm, RequestClose, Discard,
     KeepFilling, Navigate, FillInCreator, Pick, PicksBecome, FillInContent, SaveCreator,
     SaveContent, LoseConnection, NextDay, DayPasses, slotVars
<1> QED BY <1>3, <1>6, <1>7, <1>8, <1>9, <1>10

\* What a form lets an admin send, the server takes on the day it was sent, but
\* for an address that was taken or a quota that was used up meanwhile, and an
\* interval its column has no room for (creator-form.ts, new-creator.ts,
\* contents.service.ts); whatever was picked and taken off before.
THEOREM FormsAreTakenOrNews == Spec => RefusedOnlyForNews
<1>1. SlotInv /\ ScheduleInv /\ FormsInv /\ [Next]_formVars
      => [\A r \in Requests :
            calls[r] # NoCall /\ calls[r].day = today
            => \/ Refusals(r) \subseteq {"email", "type"}
               \/ calls[r].kind = "creator" /\ calls[r].body.interval > MaxInteger
                  /\ Refusals(r) \subseteq {"interval"}]_formVars
  BY NextRefusesOnlyForNews DEF FormsInv
<1> QED BY <1>1, FormsInvariant, PTL DEF Spec, RefusedOnlyForNews

\* Whatever admins fill in, send twice, close and leave, the schedules the
\* server keeps for them hold (contents.service.ts, creator-onboarding).
THEOREM FormsKeepSchedules == Spec => []SlotsHold
<1>1. SlotInv /\ ScheduleInv => SlotsHold
  BY DEF SlotInv, RowsAreTyped, ScheduleInv, RequestIsTyped, SlotsHold, TypeOK
<1> QED BY <1>1, FormsInvariant, PTL
=============================================================================
