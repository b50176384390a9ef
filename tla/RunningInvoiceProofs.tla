------------------------ MODULE RunningInvoiceProofs ------------------------
(***************************************************************************)
(* The amount of a contract that is over does not depend on the day it is  *)
(* read; a component's lines add up to an amount that is never negative;   *)
(* and neither a hand-in nor performance data lower what would be frozen.  *)
(***************************************************************************)
EXTENDS RunningInvoice, FiniteSetTheorems, WellFoundedInduction, TLAPS

-----------------------------------------------------------------------------
(* Induction, over numbers and over the subsets of a finite set.  Both are *)
(* stated of sets, from the least element that every set of numbers has.   *)

\* A set of numbers that is not empty has a least one.
LEMMA LeastNumber ==
    ASSUME NEW T, T \subseteq Nat, T # {}
    PROVE  \E n \in T : \A m \in T : n <= m
<1> DEFINE R == OpToRel(<, Nat)
<1>1. \A m, n \in Nat : m < n => <<m, n>> \in R
  BY DEF OpToRel
<1>2. IsWellFoundedOn(R, Nat)
  BY NatLessThanWellFounded
<1> HIDE DEF R
<1>3. PICK n \in T : \A m \in T : ~(<<m, n>> \in R)
  BY <1>2, WFMin
<1>4. \A m \in T : m \in Nat /\ ~(m < n)
  BY <1>1, <1>3
<1>5. n \in Nat
  OBVIOUS
<1>6. \A m \in T : n <= m
  BY <1>4, <1>5
<1> QED
  BY <1>6

\* Induction over the numbers, as a fact about sets of numbers.
LEMMA EveryNumber ==
    ASSUME NEW T, 0 \in T, \A n \in Nat : n \in T => n + 1 \in T
    PROVE  Nat \subseteq T
<1> SUFFICES ASSUME ~(Nat \subseteq T)
             PROVE  FALSE
  OBVIOUS
<1>1. PICK n \in Nat \ T : \A m \in Nat \ T : n <= m
  <2>1. Nat \ T \subseteq Nat /\ Nat \ T # {}
    OBVIOUS
  <2> QED
    BY <2>1, LeastNumber
<1>2. n # 0 /\ n \in Nat
  OBVIOUS
<1>3. n - 1 \in Nat /\ n - 1 < n
  BY <1>2
<1>4. n - 1 \in T
  BY <1>1, <1>3
<1>5. (n - 1) + 1 \in T
  BY <1>3, <1>4
<1> QED
  BY <1>2, <1>5

\* Induction over the subsets of a finite set.
LEMMA EverySubset ==
    ASSUME NEW S, IsFiniteSet(S), NEW Z,
           \A s \in SUBSET S : (\A x \in s : s \ {x} \in Z) => s \in Z
    PROVE  SUBSET S \subseteq Z
<1> DEFINE T == {n \in Nat : \A s \in SUBSET S : Cardinality(s) = n => s \in Z}
<1>1. \A s \in SUBSET S : IsFiniteSet(s) /\ Cardinality(s) \in Nat
  BY FS_Subset, FS_CardinalityType
<1>2. 0 \in T
  <2>1. \A s \in SUBSET S : Cardinality(s) = 0 => s = {}
    BY <1>1, FS_EmptySet
  <2>2. {} \in Z
    OBVIOUS
  <2> QED
    BY <2>1, <2>2
<1>3. ASSUME NEW n \in Nat, n \in T
      PROVE  n + 1 \in T
  <2>1. ASSUME NEW s \in SUBSET S, Cardinality(s) = n + 1
        PROVE  s \in Z
    <3>1. ASSUME NEW x \in s
          PROVE  s \ {x} \in Z
      <4>1. Cardinality(s \ {x}) = Cardinality(s) - 1
        BY <1>1, FS_RemoveElement
      <4>2. Cardinality(s \ {x}) = n /\ s \ {x} \in SUBSET S
        BY <2>1, <4>1
      <4> QED
        BY <1>3, <4>2
    <3> QED
      BY <3>1
  <2> QED
    BY <2>1
<1> HIDE DEF T
<1>4. Nat \subseteq T
  BY <1>2, <1>3, EveryNumber
<1>5. ASSUME NEW s \in SUBSET S
      PROVE  s \in Z
  <2>1. Cardinality(s) \in T
    BY <1>1, <1>4
  <2> QED
    BY <2>1 DEF T
<1> QED
  BY <1>5

-----------------------------------------------------------------------------
(* Sums.                                                                   *)

Pick(s) == CHOOSE x \in s : TRUE

\* The function that sums up the subsets of S.
SumsUp(g, f, S) ==
    g = [s \in SUBSET S |->
            IF s = {} THEN 0 ELSE f[Pick(s)] + g[s \ {Pick(s)}]]

\* The library's sum is the last value of such a function.
LEMMA SumIsChosen ==
    ASSUME NEW f, NEW S
    PROVE  SumFunctionOnSet(f, S) = (CHOOSE g : SumsUp(g, f, S))[S]
BY DEF SumFunctionOnSet, FoldFunctionOnSet, MapThenFoldSet, SumsUp, Pick

\* There is one, built up from the smaller subsets to the larger.
LEMMA SumsExist ==
    ASSUME NEW f, NEW S, IsFiniteSet(S)
    PROVE  \E g : SumsUp(g, f, S)
<1> DEFINE Small(n) == {s \in SUBSET S : Cardinality(s) <= n}
           OnSmall(g, n) == g = [s \in Small(n) |->
                IF s = {} THEN 0 ELSE f[Pick(s)] + g[s \ {Pick(s)}]]
           T == {n \in Nat : \E g : OnSmall(g, n)}
<1>1. \A s \in SUBSET S : IsFiniteSet(s) /\ Cardinality(s) \in Nat
  BY FS_Subset, FS_CardinalityType
<1>2. \A s \in SUBSET S : s # {} =>
        /\ Pick(s) \in s
        /\ s \ {Pick(s)} \in SUBSET S
        /\ Cardinality(s \ {Pick(s)}) = Cardinality(s) - 1
  BY <1>1, FS_RemoveElement DEF Pick
<1>3. 0 \in T
  <2> DEFINE g == [s \in Small(0) |-> 0]
  <2>1. \A s \in Small(0) : s = {}
    <3>1. \A s \in Small(0) : Cardinality(s) = 0 /\ IsFiniteSet(s)
      BY <1>1
    <3> QED
      BY <3>1, FS_EmptySet
  <2>2. OnSmall(g, 0)
    BY <2>1
  <2> QED
    BY <2>2
<1>4. ASSUME NEW n \in Nat, n \in T
      PROVE  n + 1 \in T
  <2>1. PICK g : OnSmall(g, n)
    BY <1>4
  <2> DEFINE h == [s \in Small(n + 1) |->
                     IF s = {} THEN 0 ELSE f[Pick(s)] + g[s \ {Pick(s)}]]
  <2>2. ASSUME NEW s \in Small(n)
        PROVE  s \in Small(n + 1) /\ h[s] = g[s]
    <3>1. s \in Small(n + 1)
      BY <1>1
    <3>2. h[s] = IF s = {} THEN 0 ELSE f[Pick(s)] + g[s \ {Pick(s)}]
      BY <3>1
    <3>3. g[s] = IF s = {} THEN 0 ELSE f[Pick(s)] + g[s \ {Pick(s)}]
      BY <2>1
    <3> QED
      BY <3>1, <3>2, <3>3
  <2>3. ASSUME NEW s \in Small(n + 1), s # {}
        PROVE  h[s \ {Pick(s)}] = g[s \ {Pick(s)}]
    <3>1. s \ {Pick(s)} \in Small(n)
      BY <1>1, <1>2, <2>3
    <3> HIDE DEF h, Small
    <3> QED
      BY <2>2, <3>1
  <2>4. \A s \in Small(n + 1) :
          h[s] = IF s = {} THEN 0 ELSE f[Pick(s)] + g[s \ {Pick(s)}]
    OBVIOUS
  <2>5. \A s \in Small(n + 1) :
          h[s] = IF s = {} THEN 0 ELSE f[Pick(s)] + h[s \ {Pick(s)}]
    <3> HIDE DEF h, Small
    <3> QED
      BY <2>3, <2>4
  <2>6. h = [s \in Small(n + 1) |-> h[s]]
    OBVIOUS
  <2>7. OnSmall(h, n + 1)
    <3> HIDE DEF h, Small
    <3> QED
      BY <2>5, <2>6
  <2> QED
    <3> HIDE DEF OnSmall
    <3> QED
      BY <2>7
<1>5. Nat \subseteq T
  <2> HIDE DEF T
  <2> QED
    BY <1>3, <1>4, EveryNumber
<1>6. PICK g : OnSmall(g, Cardinality(S))
  BY <1>1, <1>5
<1>7. Small(Cardinality(S)) = SUBSET S
  <2>1. ASSUME NEW s \in SUBSET S
        PROVE  Cardinality(s) <= Cardinality(S)
    BY FS_Subset
  <2> QED
    BY <2>1
<1> QED
  BY <1>6, <1>7 DEF SumsUp

LEMMA SumsUpSteps ==
    ASSUME NEW f, NEW S, NEW g, SumsUp(g, f, S), NEW s \in SUBSET S
    PROVE  g[s] = IF s = {} THEN 0 ELSE f[Pick(s)] + g[s \ {Pick(s)}]
BY DEF SumsUp

\* Sums of functions that agree, agree, on whatever set they were begun.
LEMMA SumsAgree ==
    ASSUME NEW S, IsFiniteSet(S), NEW T, T \subseteq S,
           NEW f, NEW k, \A x \in T : f[x] = k[x],
           NEW g, SumsUp(g, f, S), NEW h, SumsUp(h, k, T)
    PROVE  \A s \in SUBSET T : g[s] = h[s]
<1> DEFINE Z == {s \in SUBSET T : g[s] = h[s]}
<1>1. IsFiniteSet(T)
  BY FS_Subset
<1>2. SUBSET T \subseteq Z
  <2>1. ASSUME NEW s \in SUBSET T, \A x \in s : s \ {x} \in Z
        PROVE  s \in Z
    <3>1. s \in SUBSET S
      OBVIOUS
    <3>2. /\ g[s] = IF s = {} THEN 0 ELSE f[Pick(s)] + g[s \ {Pick(s)}]
          /\ h[s] = IF s = {} THEN 0 ELSE k[Pick(s)] + h[s \ {Pick(s)}]
      BY <3>1, SumsUpSteps
    <3>3. s # {} => Pick(s) \in s
      BY DEF Pick
    <3>4. s # {} => /\ f[Pick(s)] = k[Pick(s)]
                    /\ g[s \ {Pick(s)}] = h[s \ {Pick(s)}]
      BY <2>1, <3>3
    <3> QED
      BY <3>2, <3>4
  <2> HIDE DEF Z
  <2> QED
    BY <1>1, <2>1, EverySubset
<1> QED
  BY <1>2

\* One choice sums up every subset.
LEMMA SumFacts ==
    ASSUME NEW f, NEW S, IsFiniteSet(S)
    PROVE  /\ SumsUp(CHOOSE g : SumsUp(g, f, S), f, S)
           /\ \A T \in SUBSET S :
                SumFunctionOnSet(f, T) = (CHOOSE g : SumsUp(g, f, S))[T]
<1> DEFINE G(T) == CHOOSE g : SumsUp(g, f, T)
<1>1. \A T \in SUBSET S : SumsUp(G(T), f, T)
  <2> SUFFICES ASSUME NEW T \in SUBSET S
               PROVE  SumsUp(G(T), f, T)
    OBVIOUS
  <2>1. \E g : SumsUp(g, f, T)
    BY FS_Subset, SumsExist
  <2> QED
    BY <2>1
<1>2. ASSUME NEW T \in SUBSET S
      PROVE  SumFunctionOnSet(f, T) = G(S)[T]
  <2>1. SumFunctionOnSet(f, T) = G(T)[T]
    BY SumIsChosen
  <2>2. SumsUp(G(T), f, T) /\ SumsUp(G(S), f, S)
    BY <1>1
  <2> HIDE DEF G
  <2>3. G(S)[T] = G(T)[T]
    BY <2>2, SumsAgree
  <2> QED
    BY <2>1, <2>3
<1> QED
  BY <1>1, <1>2

\* What a sum over a finite set comes to, one element at a time.
LEMMA SumSteps ==
    ASSUME NEW f, NEW S, IsFiniteSet(S)
    PROVE  SumFunctionOnSet(f, S) =
             IF S = {} THEN 0
             ELSE f[Pick(S)] + SumFunctionOnSet(f, S \ {Pick(S)})
<1> DEFINE g == CHOOSE g : SumsUp(g, f, S)
<1>1. SumsUp(g, f, S) /\ \A T \in SUBSET S : SumFunctionOnSet(f, T) = g[T]
  BY SumFacts
<1> HIDE DEF g
<1>2. g[S] = IF S = {} THEN 0 ELSE f[Pick(S)] + g[S \ {Pick(S)}]
  BY <1>1, SumsUpSteps
<1>3. S \ {Pick(S)} \in SUBSET S
  OBVIOUS
<1> QED
  BY <1>1, <1>2, <1>3

\* Numbers add up to a number.
LEMMA SumIsNumber ==
    ASSUME NEW f, NEW S, IsFiniteSet(S), \A x \in S : f[x] \in Nat
    PROVE  SumFunctionOnSet(f, S) \in Nat
<1> DEFINE Z == {s \in SUBSET S : SumFunctionOnSet(f, s) \in Nat}
<1>1. ASSUME NEW s \in SUBSET S, \A x \in s : s \ {x} \in Z
      PROVE  s \in Z
  <2>1. IsFiniteSet(s)
    BY FS_Subset
  <2>2. s # {} => Pick(s) \in s
    BY DEF Pick
  <2>3. SumFunctionOnSet(f, s) =
          IF s = {} THEN 0 ELSE f[Pick(s)] + SumFunctionOnSet(f, s \ {Pick(s)})
    BY <2>1, SumSteps
  <2>4. s # {} => f[Pick(s)] \in Nat /\ SumFunctionOnSet(f, s \ {Pick(s)}) \in Nat
    BY <1>1, <2>2
  <2> QED
    BY <2>3, <2>4
<1> HIDE DEF Z
<1>2. SUBSET S \subseteq Z
  BY <1>1, EverySubset
<1> QED
  BY <1>2 DEF Z

\* Whichever element is taken out, it takes its own share.
LEMMA SumWithout ==
    ASSUME NEW f, NEW S, IsFiniteSet(S), \A x \in S : f[x] \in Nat, NEW y \in S
    PROVE  SumFunctionOnSet(f, S) = f[y] + SumFunctionOnSet(f, S \ {y})
<1> DEFINE Sum(s) == SumFunctionOnSet(f, s)
           Z == {s \in SUBSET S : \A x \in s : Sum(s) = f[x] + Sum(s \ {x})}
<1>1. ASSUME NEW s \in SUBSET S, \A x \in s : s \ {x} \in Z
      PROVE  s \in Z
  <2>0. \A t \in SUBSET S : IsFiniteSet(t) /\ Sum(t) \in Nat
    <3>1. ASSUME NEW t \in SUBSET S
          PROVE  IsFiniteSet(t) /\ Sum(t) \in Nat
      <4>1. IsFiniteSet(t)
        BY FS_Subset
      <4> QED
        BY <4>1, SumIsNumber
    <3> QED
      BY <3>1
  <2>1. \A t \in SUBSET S : t # {} =>
          Pick(t) \in t /\ Sum(t) = f[Pick(t)] + Sum(t \ {Pick(t)})
    <3>1. ASSUME NEW t \in SUBSET S, t # {}
          PROVE  Pick(t) \in t /\ Sum(t) = f[Pick(t)] + Sum(t \ {Pick(t)})
      <4>1. Pick(t) \in t
        BY <3>1 DEF Pick
      <4> QED
        BY <2>0, <3>1, <4>1, SumSteps
    <3> QED
      BY <3>1
  <2>2. ASSUME NEW x \in s
        PROVE  Sum(s) = f[x] + Sum(s \ {x})
    <3> DEFINE p == Pick(s)
               rest == (s \ {p}) \ {x}
    <3>1. p \in s /\ Sum(s) = f[p] + Sum(s \ {p})
      BY <2>1
    <3> HIDE DEF p
    <3>2. CASE x = p
      BY <3>1, <3>2
    <3>3. CASE x # p
      <4>1. s \ {p} \in Z /\ s \ {x} \in Z
        BY <1>1, <3>1
      <4>2. Sum(s \ {p}) = f[x] + Sum(rest)
        BY <3>3, <4>1
      <4>3. Sum(s \ {x}) = f[p] + Sum((s \ {x}) \ {p})
        BY <3>1, <3>3, <4>1
      <4>4. (s \ {x}) \ {p} = rest
        OBVIOUS
      <4>5. /\ f[x] \in Nat /\ f[p] \in Nat
            /\ rest \in SUBSET S
        BY <3>1
      <4>6. Sum(rest) \in Nat
        BY <2>0, <4>5
      <4> HIDE DEF rest, Sum
      <4> QED
        BY <3>1, <4>2, <4>3, <4>4, <4>5, <4>6
    <3> QED
      BY <3>2, <3>3
  <2> QED
    BY <2>2
<1>2. SUBSET S \subseteq Z
  <2> HIDE DEF Z
  <2> QED
    BY <1>1, EverySubset
<1>3. S \in Z
  BY <1>2
<1> QED
  BY <1>3

-----------------------------------------------------------------------------
(* A contract that is over.  Equal lines add up to equal sums.             *)

DaysAreDays ==
    /\ today \in Nat
    /\ revokedOn \in Nat \cup {NoDay}
    /\ video \in [Contents -> Videos \cup {NoVideo}]

\* Days stay days and links stay links, whatever is handed in or measured.
THEOREM DaysInvariant == Spec => []DaysAreDays
<1>1. Init => DaysAreDays
  BY DEF Init, DaysAreDays
<1>2. DaysAreDays /\ [Next]_vars => DaysAreDays'
  <2> SUFFICES ASSUME DaysAreDays, [Next]_vars
               PROVE  DaysAreDays'
    OBVIOUS
  <2> USE DEF DaysAreDays
  <2>1. CASE \E c \in Contents : Commit(c)
    BY <2>1 DEF Commit
  <2>2. CASE \E c \in Contents, p \in Platforms : HandIn(c, p)
    <3> SUFFICES ASSUME NEW c \in Contents, NEW p \in Platforms, HandIn(c, p)
                 PROVE  DaysAreDays'
      BY <2>2
    <3>1. [day |-> today, platform |-> p, views |-> NoViews] \in Videos
      BY DEF Videos
    <3> QED
      BY <3>1 DEF HandIn
  <2>3. CASE \E c \in Contents, n \in Counts : Measure(c, n)
    <3> SUFFICES ASSUME NEW c \in Contents, NEW n \in Counts, Measure(c, n)
                 PROVE  DaysAreDays'
      BY <2>3
    <3>1. video[c] \in Videos
      BY DEF Measure
    <3>2. [video[c] EXCEPT !.views = n] \in Videos
      BY <3>1 DEF Videos
    <3>3. video' = [video EXCEPT ![c] = [video[c] EXCEPT !.views = n]]
      BY DEF Measure
    <3> QED
      BY <3>2, <3>3 DEF Measure
  <2>4. CASE \E f \in Bodies : SaveFormula(f)
    BY <2>4 DEF SaveFormula
  <2>5. CASE \E day \in Days : Revoke(day)
    BY <2>5, RunningInvoiceAssumption DEF Revoke, Days
  <2>6. CASE DayPasses
    BY <2>6 DEF DayPasses
  <2>7. CASE UNCHANGED vars
    BY <2>7 DEF vars
  <2> QED
    BY <2>1, <2>2, <2>3, <2>4, <2>5, <2>6, <2>7 DEF Next
<1> QED
  BY <1>1, <1>2, PTL DEF Spec

\* A day that passes over a contract that is over, with its rows as they are.
LEMMA LastDayStays ==
    ASSUME DaysAreDays, DayPasses, ContractLastDay < today
    PROVE  /\ ContractLastDay' = ContractLastDay
           /\ CountUntil' = CountUntil
<1>1. ContractLastDay' = ContractLastDay
  BY DEF DayPasses, ContractLastDay, Earlier
<1>2. ContractLastDay \in Nat
  BY RunningInvoiceAssumption DEF DaysAreDays, ContractLastDay, Earlier
<1>3. CountUntil = ContractLastDay
  BY <1>2 DEF DaysAreDays, CountUntil, Earlier
<1>4. CountUntil' = ContractLastDay
  BY <1>1, <1>2 DEF DayPasses, DaysAreDays, CountUntil, Earlier
<1> QED
  BY <1>1, <1>3, <1>4

\* What the fee and the bonus are worked out from has no day of its own.
LEMMA FeesStay ==
    ASSUME DayPasses
    PROVE  /\ AdditionalContent' = AdditionalContent
           /\ PerformanceBonus' = PerformanceBonus
<1> USE DEF DayPasses
<1>1. Delivered' = Delivered
  BY DEF Delivered
<1>2. \A c : OnTime(c)' = OnTime(c)
  BY DEF OnTime
<1>3. AdditionalContent' = AdditionalContent
  BY <1>1, <1>2 DEF AdditionalContent
<1>4. Ruled' = Ruled
  BY <1>1, <1>2 DEF Ruled
<1>5. \A c : Rule(c)' = Rule(c) /\ IsMeasured(c)' = IsMeasured(c)
  BY DEF Rule, IsMeasured
<1>6. PerformanceBonus' = PerformanceBonus
  BY <1>4, <1>5 DEF PerformanceBonus
<1> QED
  BY <1>3, <1>6

\* The penalty counts days up to the hand-in or the last day, both behind it.
LEMMA PenaltyStays ==
    ASSUME DaysAreDays, DayPasses, ContractLastDay < today
    PROVE  Penalty' = Penalty
<1>1. CountUntil' = CountUntil
  BY LastDayStays
<1>2. \A c : DaysCharged(c)' = DaysCharged(c)
  BY <1>1 DEF DaysCharged, DayPasses
<1> QED
  BY <1>2 DEF Penalty, DayPasses

\* From the day after the contract's last day on, an invoice comes to the same
\* total, and would be frozen at the same total, on every day it is read, for
\* every contract, formula and history of hand-ins (AmountIsFinal).
THEOREM AmountFinal == Spec => AmountIsFinal
<1>1. DaysAreDays /\ [Next]_vars =>
        [DayPasses /\ StartDate <= today /\ ContractLastDay < today =>
           /\ Total' = Total
           /\ SettledRawTotal' = SettledRawTotal]_vars
  <2> SUFFICES ASSUME DaysAreDays, DayPasses,
                      StartDate <= today, ContractLastDay < today
               PROVE  /\ Total' = Total
                      /\ SettledRawTotal' = SettledRawTotal
    OBVIOUS
  <2>1. Fixed' = Fixed
    <3>1. today \in Nat /\ StartDate \in Nat /\ today' = today + 1
      BY RunningInvoiceAssumption DEF DaysAreDays, DayPasses
    <3>2. today >= StartDate /\ today' >= StartDate
      BY <3>1
    <3> QED
      BY <3>2 DEF Fixed
  <2>2. AdditionalContent' = AdditionalContent /\ PerformanceBonus' = PerformanceBonus
    BY FeesStay
  <2>3. Penalty' = Penalty
    BY PenaltyStays
  <2>4. RawTotal' = RawTotal
    BY <2>1, <2>2, <2>3 DEF RawTotal
  <2> QED
    BY <2>2, <2>4 DEF Total, SettledRawTotal
<1> QED
  BY <1>1, DaysInvariant, PTL DEF Spec, AmountIsFinal

\* The days charged up to a hand-in are those charged up to today.
LEMMA HandInKeeps ==
    ASSUME DaysAreDays, NEW c \in Contents, NEW p \in Platforms,
           HandIn(c, p), today <= ContractLastDay
    PROVE  Penalty' = Penalty
<1>1. today \in Nat /\ Deadline \in [Contents -> Nat]
  BY RunningInvoiceAssumption DEF DaysAreDays
<1>2. /\ CountUntil = today
      /\ CountUntil' = CountUntil
  BY <1>1 DEF HandIn, CountUntil, Earlier, ContractLastDay
<1>3. /\ video[c] = NoVideo
      /\ video'[c] # NoVideo
      /\ video'[c].day = today
  <2>1. [day |-> today, platform |-> p, views |-> NoViews] \in Videos
    BY <1>1 DEF Videos
  <2> QED
    BY <2>1, RunningInvoiceAssumption DEF HandIn, DaysAreDays
<1>4. \A d \in Contents : d # c => video'[d] = video[d]
  BY <1>1 DEF HandIn, DaysAreDays
<1>5. \A d \in Contents : DaysCharged(d)' = DaysCharged(d)
  BY <1>2, <1>3, <1>4 DEF HandIn, DaysCharged, DaysLate
<1>6. committed' = committed /\ formula' = formula
  BY <1>1 DEF HandIn
<1> QED
  BY <1>5, <1>6 DEF Penalty, Contents

-----------------------------------------------------------------------------
(* Sums of lines.                                                          *)

\* Equal lines add up to the same.
LEMMA SumOfSame ==
    ASSUME NEW f, NEW k, NEW S, IsFiniteSet(S), \A x \in S : f[x] = k[x]
    PROVE  SumFunctionOnSet(f, S) = SumFunctionOnSet(k, S)
<1> DEFINE g == CHOOSE g : SumsUp(g, f, S)
           h == CHOOSE h : SumsUp(h, k, S)
<1>1. SumsUp(g, f, S) /\ SumFunctionOnSet(f, S) = g[S]
  BY SumFacts
<1>2. SumsUp(h, k, S) /\ SumFunctionOnSet(k, S) = h[S]
  BY SumFacts
<1> HIDE DEF g, h
<1>3. g[S] = h[S]
  BY <1>1, <1>2, SumsAgree
<1> QED
  BY <1>1, <1>2, <1>3

\* More lines, none of them less than it was, add up to no less.
LEMMA SumOfMore ==
    ASSUME NEW f, NEW k, NEW T, IsFiniteSet(T), NEW S, S \subseteq T,
           \A x \in S : f[x] \in Nat /\ f[x] <= k[x],
           \A x \in T : k[x] \in Nat
    PROVE  SumFunctionOnSet(f, S) <= SumFunctionOnSet(k, T)
<1> DEFINE Of(s) == SumFunctionOnSet(f, S \cap s)
           With(s) == SumFunctionOnSet(k, s)
           Z == {s \in SUBSET T : Of(s) <= With(s)}
<1>1. ASSUME NEW s \in SUBSET T
      PROVE  /\ IsFiniteSet(s) /\ IsFiniteSet(S \cap s)
             /\ Of(s) \in Nat /\ With(s) \in Nat
  <2>1. IsFiniteSet(s) /\ S \cap s \in SUBSET T
    BY FS_Subset
  <2>2. IsFiniteSet(S \cap s)
    BY <2>1, FS_Subset
  <2> QED
    BY <2>1, <2>2, SumIsNumber
<1>2. ASSUME NEW s \in SUBSET T, \A x \in s : s \ {x} \in Z
      PROVE  s \in Z
  <2>1. CASE s = {}
    <3>1. SumFunctionOnSet(f, S \cap s) = 0 /\ SumFunctionOnSet(k, s) = 0
      BY <1>1, <2>1, SumSteps
    <3> QED
      BY <3>1
  <2>2. CASE s # {}
    <3>1. PICK x : x \in s
      BY <2>2
    <3>2. s \ {x} \in SUBSET T /\ Of(s \ {x}) <= With(s \ {x})
      BY <1>2, <3>1
    <3>a. IsFiniteSet(s) /\ IsFiniteSet(S \cap s) /\ \A y \in s : k[y] \in Nat
      BY <1>1
    <3>3. With(s) = k[x] + With(s \ {x})
      BY <3>a, <3>1, SumWithout
    <3>4. /\ Of(s) \in Nat /\ With(s) \in Nat
          /\ Of(s \ {x}) \in Nat /\ With(s \ {x}) \in Nat
      BY <1>1, <3>2
    <3>5. CASE x \in S
      <4>1. (S \cap s) \ {x} = S \cap (s \ {x}) /\ x \in S \cap s
        BY <3>1, <3>5
      <4>2. \A y \in S \cap s : f[y] \in Nat
        OBVIOUS
      <4>3. SumFunctionOnSet(f, S \cap s)
              = f[x] + SumFunctionOnSet(f, (S \cap s) \ {x})
        BY <3>a, <4>1, <4>2, SumWithout
      <4>4. Of(s) = f[x] + Of(s \ {x})
        BY <4>1, <4>3
      <4>5. f[x] \in Nat /\ k[x] \in Nat /\ f[x] <= k[x]
        BY <3>1, <3>5
      <4> HIDE DEF Of, With
      <4>6. Of(s) <= With(s)
        BY <3>2, <3>3, <3>4, <4>4, <4>5
      <4> QED
        BY <4>6
    <3>6. CASE x \notin S
      <4>1. S \cap s = S \cap (s \ {x})
        BY <3>6
      <4>2. Of(s) = Of(s \ {x})
        BY <4>1
      <4>3. k[x] \in Nat
        BY <3>1
      <4> HIDE DEF Of, With
      <4>4. Of(s) <= With(s)
        BY <3>2, <3>3, <3>4, <4>2, <4>3
      <4> QED
        BY <4>4
    <3> QED
      BY <3>5, <3>6
  <2> QED
    BY <2>1, <2>2
<1>3. SUBSET T \subseteq Z
  <2> HIDE DEF Z
  <2> QED
    BY <1>2, EverySubset
<1>4. Of(T) <= With(T) /\ S \cap T = S
  BY <1>3
<1> QED
  BY <1>4

-----------------------------------------------------------------------------
(* The rows, and the amounts worked out from them.                         *)

\* A saved formula has tiers that rise, on every platform.
FormulaIsValid ==
    formula # NoFormula =>
        /\ DOMAIN formula.performanceBonus = Platforms
        /\ \A p \in Platforms : TiersAreValid(formula.performanceBonus[p].tiers)

RowsOK ==
    /\ DaysAreDays
    /\ today \in Days
    /\ revokedOn \in Days \cup {NoDay}
    /\ committed \in SUBSET Contents
    /\ formula \in Bodies \cup {NoFormula}
    /\ FormulaIsValid

LEMMA RowsInvariant == Spec => []RowsOK
<1>1. Init => RowsOK
  BY RunningInvoiceAssumption DEF Init, RowsOK, DaysAreDays, Days, Contents, FormulaIsValid
<1>2. DaysAreDays' /\ RowsOK /\ [Next]_vars => RowsOK'
  <2> SUFFICES ASSUME DaysAreDays', RowsOK, [Next]_vars
               PROVE  RowsOK'
    OBVIOUS
  <2> USE DEF RowsOK
  <2>1. CASE \E c \in Contents : Commit(c)
    BY <2>1 DEF Commit, FormulaIsValid
  <2>2. CASE \E c \in Contents, p \in Platforms : HandIn(c, p)
    BY <2>2 DEF HandIn, FormulaIsValid
  <2>3. CASE \E c \in Contents, n \in Counts : Measure(c, n)
    BY <2>3 DEF Measure, FormulaIsValid
  <2>4. CASE \E f \in Bodies : SaveFormula(f)
    BY <2>4 DEF SaveFormula, FormulaIsValid
  <2>5. CASE \E day \in Days : Revoke(day)
    BY <2>5 DEF Revoke, FormulaIsValid
  <2>6. CASE DayPasses
    BY <2>6, RunningInvoiceAssumption DEF DayPasses, Days, DaysAreDays, FormulaIsValid
  <2>7. CASE UNCHANGED vars
    BY <2>7 DEF vars, FormulaIsValid
  <2> QED
    BY <2>1, <2>2, <2>3, <2>4, <2>5, <2>6, <2>7 DEF Next
<1> QED
  BY <1>1, <1>2, DaysInvariant, PTL DEF Spec

\* What each component adds up.
FeeLines ==
    [c \in Delivered \cap Specific |-> IF OnTime(c) THEN formula.specificBonus ELSE 0]

ChargeLines ==
    [c \in committed \cap Evergreen |-> DaysCharged(c) * formula.latePenaltyPerDay]

Measured == {c \in Ruled : IsMeasured(c)}

BonusLines == [c \in Measured |-> TierBonus(Rule(c).tiers, video[c].views)]

ComponentsAddUp ==
    /\ formula = NoFormula =>
         AdditionalContent.sum = 0 /\ Penalty.sum = 0 /\ PerformanceBonus.sum = 0
    /\ formula # NoFormula =>
         /\ AdditionalContent.sum = SumFunctionOnSet(FeeLines, Delivered \cap Specific)
         /\ Penalty.sum = SumFunctionOnSet(ChargeLines, committed \cap Evergreen)
         /\ PerformanceBonus.sum = SumFunctionOnSet(BonusLines, Measured)

LEMMA ComponentSums == ComponentsAddUp
<1> USE DEF ComponentsAddUp
<1>1. ASSUME formula # NoFormula
      PROVE  AdditionalContent.sum = SumFunctionOnSet(FeeLines, Delivered \cap Specific)
  <2>1. AdditionalContent.sum = SumFunction(FeeLines)
    BY <1>1 DEF AdditionalContent, Calculated, FeeLines
  <2>2. DOMAIN FeeLines = Delivered \cap Specific
    BY DEF FeeLines
  <2> QED
    BY <2>1, <2>2 DEF SumFunction
<1>2. ASSUME formula # NoFormula
      PROVE  Penalty.sum = SumFunctionOnSet(ChargeLines, committed \cap Evergreen)
  <2>1. Penalty.sum = SumFunction(ChargeLines)
    BY <1>2 DEF Penalty, Calculated, ChargeLines
  <2>2. DOMAIN ChargeLines = committed \cap Evergreen
    BY DEF ChargeLines
  <2> QED
    BY <2>1, <2>2 DEF SumFunction
<1>3. ASSUME formula # NoFormula
      PROVE  PerformanceBonus.sum = SumFunctionOnSet(BonusLines, Measured)
  <2>1. PerformanceBonus.sum = SumFunction(BonusLines)
    BY <1>3 DEF PerformanceBonus, Calculated, WaitingForData, BonusLines, Measured
  <2>2. DOMAIN BonusLines = Measured
    BY DEF BonusLines
  <2> QED
    BY <2>1, <2>2 DEF SumFunction
<1>4. formula = NoFormula =>
        AdditionalContent.sum = 0 /\ Penalty.sum = 0 /\ PerformanceBonus.sum = 0
  BY DEF AdditionalContent, Penalty, PerformanceBonus, NothingYet
<1> QED
  BY <1>1, <1>2, <1>3, <1>4

-----------------------------------------------------------------------------
(* Tiers.                                                                  *)

\* The bonus of a value is that of the highest tier it reaches.
LEMMA HighestTier ==
    ASSUME NEW tiers, tiers \subseteq [threshold : Int, bonus : Int],
           TiersAreValid(tiers), NEW v \in Nat, Reached(tiers, v) # {}
    PROVE  \E t \in Reached(tiers, v) :
             /\ \A u \in Reached(tiers, v) : u.threshold <= t.threshold
             /\ TierBonus(tiers, v) = t.bonus
<1> DEFINE T == {v - t.threshold : t \in Reached(tiers, v)}
<1>1. \A t \in Reached(tiers, v) :
        /\ t \in tiers /\ t.threshold \in Int /\ t.threshold > 0 /\ t.threshold <= v
  BY DEF Reached, TiersAreValid
<1>2. T \subseteq Nat /\ T # {}
  BY <1>1
<1>3. PICK n \in T : \A m \in T : n <= m
  BY <1>2, LeastNumber
<1>4. PICK t \in Reached(tiers, v) : n = v - t.threshold
  BY <1>3
<1>5. \A u \in Reached(tiers, v) : u.threshold <= t.threshold
  <2>1. ASSUME NEW u \in Reached(tiers, v)
        PROVE  u.threshold <= t.threshold
    <3>1. n <= v - u.threshold
      BY <1>3
    <3> QED
      BY <1>1, <1>4, <3>1
  <2> QED
    BY <2>1
<1> DEFINE best == CHOOSE x \in Reached(tiers, v) :
                     \A u \in Reached(tiers, v) : u.threshold <= x.threshold
<1>6. /\ best \in Reached(tiers, v)
      /\ \A u \in Reached(tiers, v) : u.threshold <= best.threshold
  BY <1>5
<1>7. TierBonus(tiers, v) = best.bonus
  BY DEF TierBonus
<1> QED
  BY <1>6, <1>7

\* With tiers that rise, a greater value earns no less.
LEMMA BonusRises ==
    ASSUME NEW tiers, tiers \subseteq [threshold : Int, bonus : Int],
           TiersAreValid(tiers), NEW v \in Nat, NEW w \in Nat, v <= w
    PROVE  /\ TierBonus(tiers, v) \in Nat
           /\ TierBonus(tiers, v) <= TierBonus(tiers, w)
<1>1. \A t \in tiers : t.threshold \in Int /\ t.bonus \in Nat
  BY DEF TiersAreValid
<1>2. Reached(tiers, v) \subseteq Reached(tiers, w)
  BY <1>1 DEF Reached
<1>3. ASSUME NEW x \in Nat
      PROVE  TierBonus(tiers, x) \in Nat
  <2>1. CASE Reached(tiers, x) = {}
    BY <2>1 DEF TierBonus
  <2>2. CASE Reached(tiers, x) # {}
    <3>1. PICK t \in Reached(tiers, x) : TierBonus(tiers, x) = t.bonus
      BY <2>2, HighestTier
    <3> QED
      BY <1>1, <3>1 DEF Reached
  <2> QED
    BY <2>1, <2>2
<1>4. CASE Reached(tiers, v) = {}
  <2>1. TierBonus(tiers, v) = 0
    BY <1>4 DEF TierBonus
  <2>2. TierBonus(tiers, w) \in Nat
    BY <1>3
  <2> QED
    BY <2>1, <2>2
<1>5. CASE Reached(tiers, v) # {}
  <2>1. PICK t \in Reached(tiers, v) : TierBonus(tiers, v) = t.bonus
    BY <1>5, HighestTier
  <2>2. PICK u \in Reached(tiers, w) :
          /\ \A x \in Reached(tiers, w) : x.threshold <= u.threshold
          /\ TierBonus(tiers, w) = u.bonus
    BY <1>2, <1>5, HighestTier
  <2>3. t \in tiers /\ u \in tiers /\ t.threshold <= u.threshold
    BY <1>2, <2>1, <2>2 DEF Reached
  <2>4. t = u \/ t.bonus < u.bonus
    BY <1>1, <2>3 DEF TiersAreValid
  <2> QED
    BY <1>1, <1>3, <2>1, <2>2, <2>3, <2>4
<1> QED
  BY <1>4, <1>5

-----------------------------------------------------------------------------
(* Amounts are never negative.                                             *)

LEMMA FiniteRows ==
    ASSUME RowsOK
    PROVE  /\ IsFiniteSet(Delivered \cap Specific)
           /\ IsFiniteSet(committed \cap Evergreen)
           /\ Ruled \subseteq Delivered
           /\ IsFiniteSet(Measured)
<1>1. /\ Delivered \cap Specific \in SUBSET Contents
      /\ committed \cap Evergreen \in SUBSET Contents
      /\ Measured \in SUBSET Contents
      /\ Ruled \subseteq Delivered
  BY DEF Delivered, Contents, Measured, Ruled
<1> QED
  BY <1>1, RunningInvoiceAssumption, FS_Subset

\* What an item is charged and earns, under a formula that was saved.
LinesOK ==
    /\ IsFiniteSet(Delivered \cap Specific)
    /\ IsFiniteSet(Measured)
    /\ \A c \in Delivered \cap Specific : FeeLines[c] \in Nat
    /\ \A c \in committed \cap Evergreen : ChargeLines[c] \in Nat
    /\ \A c \in Ruled :
         /\ Rule(c).tiers \subseteq [threshold : Int, bonus : Int]
         /\ TiersAreValid(Rule(c).tiers)
    /\ \A c \in Measured : video[c].views \in Nat /\ BonusLines[c] \in Nat

LEMMA LinesAreNumbers == RowsOK /\ formula # NoFormula => LinesOK
<1> SUFFICES ASSUME RowsOK, formula # NoFormula
             PROVE  LinesOK
  OBVIOUS
<1> USE DEF RowsOK
<1>1. /\ formula \in Bodies
      /\ formula.specificBonus \in Nat
      /\ formula.latePenaltyPerDay \in Nat
      /\ formula.maxPenaltyDays \in Nat
  BY BodiesAssumption
<1>2. \A c \in Delivered \cap Specific : FeeLines[c] \in Nat
  BY <1>1 DEF FeeLines
<1>3. ASSUME NEW c \in committed \cap Evergreen
      PROVE  ChargeLines[c] \in Nat
  <2>1. c \in Contents /\ Deadline[c] \in Nat
    BY RunningInvoiceAssumption DEF Contents
  <2>2. CountUntil \in Nat
    BY RunningInvoiceAssumption DEF CountUntil, Earlier, ContractLastDay, DaysAreDays
  <2>3. video[c] # NoVideo => video[c].day \in Nat
    BY <2>1 DEF DaysAreDays, Videos
  <2>4. DaysCharged(c) \in Nat
    BY <1>1, <2>1, <2>2, <2>3 DEF DaysCharged, DaysLate, AtLeastZero, Earlier
  <2>5. \A m, n \in Nat : m * n \in Nat
    OBVIOUS
  <2>6. DaysCharged(c) * formula.latePenaltyPerDay \in Nat
    BY <1>1, <2>4, <2>5
  <2> QED
    BY <2>6 DEF ChargeLines
<1>4. ASSUME NEW c \in Ruled
      PROVE  /\ Rule(c).tiers \subseteq [threshold : Int, bonus : Int]
             /\ TiersAreValid(Rule(c).tiers)
  <2>1. video[c].platform \in DOMAIN formula.performanceBonus
    BY DEF Ruled
  <2>2. /\ formula.performanceBonus[video[c].platform].tiers
             \subseteq [threshold : Int, bonus : Int]
        /\ TiersAreValid(formula.performanceBonus[video[c].platform].tiers)
    BY <1>1, <2>1, BodiesAssumption DEF FormulaIsValid
  <2> QED
    BY <2>2 DEF Rule
<1>5. ASSUME NEW c \in Measured
      PROVE  video[c].views \in Nat /\ BonusLines[c] \in Nat
  <2>1. c \in Ruled /\ c \in Contents /\ video[c] # NoVideo /\ video[c].views # NoViews
    BY DEF Measured, Ruled, Delivered, IsMeasured
  <2>2. video[c].views \in Nat
    BY <2>1, RunningInvoiceAssumption DEF DaysAreDays, Videos
  <2>3. TierBonus(Rule(c).tiers, video[c].views) \in Nat
    BY <1>4, <2>1, <2>2, BonusRises
  <2> QED
    BY <2>2, <2>3 DEF BonusLines
<1> QED
  BY <1>2, <1>3, <1>4, <1>5, FiniteRows DEF LinesOK

LEMMA AmountsAreNumbers ==
    RowsOK => /\ Fixed.sum \in Nat
              /\ AdditionalContent.sum \in Nat
              /\ Penalty.sum \in Nat
              /\ PerformanceBonus.sum \in Nat
<1> SUFFICES ASSUME RowsOK
             PROVE  /\ Fixed.sum \in Nat
                    /\ AdditionalContent.sum \in Nat
                    /\ Penalty.sum \in Nat
                    /\ PerformanceBonus.sum \in Nat
  OBVIOUS
<1>1. Fixed.sum \in Nat
  BY RunningInvoiceAssumption DEF Fixed
<1>2. CASE formula = NoFormula
  BY <1>1, <1>2, ComponentSums DEF ComponentsAddUp
<1>3. CASE formula # NoFormula
  <2>1. /\ SumFunctionOnSet(FeeLines, Delivered \cap Specific) \in Nat
        /\ SumFunctionOnSet(ChargeLines, committed \cap Evergreen) \in Nat
        /\ SumFunctionOnSet(BonusLines, Measured) \in Nat
    BY <1>3, FiniteRows, LinesAreNumbers, SumIsNumber DEF LinesOK
  <2> QED
    BY <1>1, <1>3, <2>1, ComponentSums DEF ComponentsAddUp
<1> QED
  BY <1>2, <1>3

\* Whatever is handed in, measured, saved or revoked, no component ever adds up
\* to less than nothing (the rows part of TypeOK included).
THEOREM TypeCorrect == Spec => []TypeOK
<1>1. RowsOK => TypeOK
  BY AmountsAreNumbers DEF RowsOK, DaysAreDays, TypeOK, Components
<1> QED
  BY <1>1, RowsInvariant, PTL

-----------------------------------------------------------------------------
(* What would be frozen never falls.                                       *)

\* A bonus counts in full in what finalize freezes, whether it waits or not.
LEMMA SettledIs ==
    RowsOK => SettledRawTotal = Fixed.sum + AdditionalContent.sum
                                  + PerformanceBonus.sum - Penalty.sum
<1> SUFFICES ASSUME RowsOK
             PROVE  SettledRawTotal = Fixed.sum + AdditionalContent.sum
                                        + PerformanceBonus.sum - Penalty.sum
  OBVIOUS
<1>1. /\ Fixed.sum \in Nat /\ AdditionalContent.sum \in Nat
      /\ Penalty.sum \in Nat /\ PerformanceBonus.sum \in Nat
  BY AmountsAreNumbers
<1>2. Amount(Fixed) = Fixed.sum
  BY DEF Amount, Fixed
<1>3. Amount(AdditionalContent) = AdditionalContent.sum
  BY DEF Amount, AdditionalContent, NothingYet, Calculated
<1>4. Amount(Penalty) = Penalty.sum
  BY DEF Amount, Penalty, NothingYet, Calculated
<1>5. Amount(PerformanceBonus) =
        IF PerformanceBonus.waiting THEN 0 ELSE PerformanceBonus.sum
  BY DEF Amount
<1> QED
  BY <1>1, <1>2, <1>3, <1>4, <1>5 DEF SettledRawTotal, RawTotal

\* No less of any component, and no more of the penalty.
LEMMA SettledGrows ==
    ASSUME RowsOK, RowsOK',
           Fixed' = Fixed, Penalty' = Penalty,
           AdditionalContent.sum <= AdditionalContent'.sum,
           PerformanceBonus.sum <= PerformanceBonus'.sum
    PROVE  SettledRawTotal' >= SettledRawTotal
<1>1. RowsOK' => SettledRawTotal' = Fixed'.sum + AdditionalContent'.sum
                                      + PerformanceBonus'.sum - Penalty'.sum
  <2>1. (RowsOK => SettledRawTotal = Fixed.sum + AdditionalContent.sum
                                       + PerformanceBonus.sum - Penalty.sum)'
    BY SettledIs, PTL
  <2> QED
    BY <2>1
<1>2. /\ Fixed.sum \in Nat /\ AdditionalContent.sum \in Nat
      /\ Penalty.sum \in Nat /\ PerformanceBonus.sum \in Nat
  BY AmountsAreNumbers
<1>3. AdditionalContent'.sum \in Nat /\ PerformanceBonus'.sum \in Nat
  <2>1. (RowsOK => /\ Fixed.sum \in Nat
                   /\ AdditionalContent.sum \in Nat
                   /\ Penalty.sum \in Nat
                   /\ PerformanceBonus.sum \in Nat)'
    BY AmountsAreNumbers, PTL
  <2> QED
    BY <2>1
<1> QED
  BY <1>1, <1>2, <1>3, SettledIs

\* A component that adds up lines adds up to no less once each of them is there
\* and none is less.
LEMMA ComponentsGrow ==
    ASSUME RowsOK, RowsOK', formula' = formula,
           formula # NoFormula =>
             /\ Delivered \cap Specific \subseteq (Delivered \cap Specific)'
             /\ \A c \in Delivered \cap Specific : FeeLines[c] <= FeeLines'[c]
             /\ Measured \subseteq Measured'
             /\ \A c \in Measured : BonusLines[c] <= BonusLines'[c]
    PROVE  /\ AdditionalContent.sum <= AdditionalContent'.sum
           /\ PerformanceBonus.sum <= PerformanceBonus'.sum
<1>1. ComponentsAddUp /\ ComponentsAddUp'
  BY ComponentSums, PTL
<1>2. CASE formula = NoFormula
  BY <1>1, <1>2 DEF ComponentsAddUp
<1>3. CASE formula # NoFormula
  <2>1. LinesOK
    BY <1>3, LinesAreNumbers
  <2>2. LinesOK'
    <3>1. (RowsOK /\ formula # NoFormula => LinesOK)'
      BY LinesAreNumbers, PTL
    <3> QED
      BY <1>3, <3>1
  <2>3. SumFunctionOnSet(FeeLines, Delivered \cap Specific)
          <= SumFunctionOnSet(FeeLines', (Delivered \cap Specific)')
    BY <1>3, <2>1, <2>2, SumOfMore DEF LinesOK
  <2>4. SumFunctionOnSet(BonusLines, Measured)
          <= SumFunctionOnSet(BonusLines', Measured')
    BY <1>3, <2>1, <2>2, SumOfMore DEF LinesOK
  <2> QED
    BY <1>1, <1>3, <2>3, <2>4 DEF ComponentsAddUp
<1> QED
  BY <1>2, <1>3

\* An item that is handed in gets a line of its own, with no views to read, and
\* leaves the lines of the others as they are.
LEMMA HandInAddsLines ==
    ASSUME RowsOK, NEW c \in Contents, NEW p \in Platforms, HandIn(c, p)
    PROVE  /\ formula' = formula
           /\ Delivered \cap Specific \subseteq (Delivered \cap Specific)'
           /\ \A d \in Delivered \cap Specific : FeeLines[d] = FeeLines'[d]
           /\ Measured \subseteq Measured'
           /\ \A d \in Measured : BonusLines[d] = BonusLines'[d]
<1>1. formula' = formula /\ video[c] = NoVideo
  BY DEF HandIn
<1>2. \A d \in Contents : d # c => video'[d] = video[d]
  BY DEF HandIn, RowsOK, DaysAreDays
<1>3. \A d \in Delivered : d \in Contents /\ video[d] # NoVideo /\ video'[d] = video[d]
  BY <1>1, <1>2 DEF Delivered
<1>4. Delivered \subseteq Delivered'
  BY <1>3 DEF Delivered
<1>5. \A d \in Delivered : OnTime(d)' = OnTime(d)
  BY <1>3 DEF OnTime
<1>6. Delivered \cap Specific \subseteq (Delivered \cap Specific)'
  BY <1>4
<1>7. \A d \in Delivered \cap Specific : FeeLines[d] = FeeLines'[d]
  BY <1>1, <1>5, <1>6 DEF FeeLines
<1>8. \A d \in Ruled : d \in Delivered /\ d \in Ruled'
                         /\ Rule(d)' = Rule(d) /\ IsMeasured(d)' = IsMeasured(d)
  BY <1>1, <1>3, <1>4, <1>5 DEF Ruled, Rule, IsMeasured
<1>9. Measured \subseteq Measured'
  BY <1>8 DEF Measured
<1>10. \A d \in Measured : d \in Ruled
  BY DEF Measured
<1>11. \A d \in Measured : BonusLines[d] = BonusLines'[d]
  BY <1>3, <1>8, <1>9, <1>10 DEF BonusLines
<1> QED
  BY <1>1, <1>6, <1>7, <1>9, <1>11

\* By the contract's last day, an item that is handed in never lowers what
\* finalize would freeze, for every contract, formula and history: the days it
\* is charged for were charged already, and fees and bonuses only add
\* (HandInNeverCosts).
THEOREM HandInsAdd == Spec => HandInNeverCosts
<1>1. ASSUME RowsOK, RowsOK', NEW c \in Contents, NEW p \in Platforms,
             HandIn(c, p), today <= ContractLastDay
      PROVE  SettledRawTotal' >= SettledRawTotal
  <2>1. Penalty' = Penalty
    BY <1>1, HandInKeeps DEF RowsOK
  <2>2. Fixed' = Fixed
    BY <1>1 DEF HandIn, Fixed
  <2>3. /\ formula' = formula
        /\ Delivered \cap Specific \subseteq (Delivered \cap Specific)'
        /\ \A d \in Delivered \cap Specific : FeeLines[d] = FeeLines'[d]
        /\ Measured \subseteq Measured'
        /\ \A d \in Measured : BonusLines[d] = BonusLines'[d]
    BY <1>1, HandInAddsLines
  <2>4. formula # NoFormula =>
          /\ \A d \in Delivered \cap Specific : FeeLines[d] <= FeeLines'[d]
          /\ \A d \in Measured : BonusLines[d] <= BonusLines'[d]
    BY <1>1, <2>3, LinesAreNumbers DEF LinesOK
  <2>5. /\ AdditionalContent.sum <= AdditionalContent'.sum
        /\ PerformanceBonus.sum <= PerformanceBonus'.sum
    BY <1>1, <2>3, <2>4, ComponentsGrow
  <2> QED
    BY <1>1, <2>1, <2>2, <2>5, SettledGrows
<1>2. RowsOK /\ RowsOK' /\ [Next]_vars =>
        [\A c \in Contents, p \in Platforms :
           HandIn(c, p) /\ today <= ContractLastDay =>
             SettledRawTotal' >= SettledRawTotal]_vars
  BY <1>1
<1> QED
  BY <1>2, RowsInvariant, PTL DEF Spec, HandInNeverCosts

\* Views that come in leave the days, the fees and the penalty as they are, and
\* give an item a line, or one that is no less.
LEMMA MeasuringAddsLines ==
    ASSUME RowsOK, RowsOK', NEW c \in Contents, NEW n \in Counts, Measure(c, n)
    PROVE  /\ formula' = formula
           /\ Fixed' = Fixed
           /\ Penalty' = Penalty
           /\ Delivered \cap Specific \subseteq (Delivered \cap Specific)'
           /\ \A d \in Delivered \cap Specific : FeeLines[d] = FeeLines'[d]
           /\ formula # NoFormula =>
                /\ Measured \subseteq Measured'
                /\ \A d \in Measured : BonusLines[d] <= BonusLines'[d]
<1>1. /\ formula' = formula /\ today' = today /\ committed' = committed
      /\ revokedOn' = revokedOn /\ video[c] # NoVideo
  BY DEF Measure
<1>2. Fixed' = Fixed
  BY <1>1 DEF Fixed
<1>3. video[c] \in Videos
  BY <1>1 DEF RowsOK, DaysAreDays
<1>4. /\ video' = [video EXCEPT ![c] = [video[c] EXCEPT !.views = n]]
      /\ video \in [Contents -> Videos \cup {NoVideo}]
  BY DEF Measure, RowsOK, DaysAreDays
<1>5. /\ video'[c] = [video[c] EXCEPT !.views = n]
      /\ [video[c] EXCEPT !.views = n] \in Videos
  BY <1>3, <1>4 DEF Videos
<1>6. /\ video'[c].day = video[c].day
      /\ video'[c].platform = video[c].platform
      /\ video'[c].views = n
      /\ video'[c] # NoVideo
  BY <1>3, <1>5, RunningInvoiceAssumption DEF Videos
<1>7. \A d \in Contents : d # c => video'[d] = video[d]
  BY <1>4
<1>8. \A d \in Contents : /\ (video'[d] = NoVideo) <=> (video[d] = NoVideo)
                          /\ video[d] # NoVideo =>
                               /\ video'[d].day = video[d].day
                               /\ video'[d].platform = video[d].platform
  BY <1>1, <1>6, <1>7
<1>9. Delivered' = Delivered /\ Delivered \subseteq Contents
  BY <1>8 DEF Delivered
<1>10. \A d \in Delivered : OnTime(d)' = OnTime(d) /\ Rule(d)' = Rule(d)
  BY <1>1, <1>8 DEF Delivered, OnTime, Rule
<1>11. \A d \in Delivered \cap Specific : FeeLines[d] = FeeLines'[d]
  BY <1>1, <1>9, <1>10 DEF FeeLines
<1>12. Penalty' = Penalty
  <2>1. CountUntil' = CountUntil
    BY <1>1 DEF CountUntil, ContractLastDay
  <2>2. \A d \in Contents : DaysCharged(d)' = DaysCharged(d)
    BY <1>1, <1>8, <2>1 DEF DaysCharged
  <2> QED
    BY <1>1, <2>2 DEF Penalty, Contents
<1>13. Ruled' = Ruled /\ Ruled \subseteq Delivered
  BY <1>1, <1>8, <1>9, <1>10 DEF Ruled, Delivered
<1>14. ASSUME formula # NoFormula
       PROVE  /\ Measured \subseteq Measured'
              /\ \A d \in Measured : BonusLines[d] <= BonusLines'[d]
  <2>1. LinesOK
    BY <1>14, LinesAreNumbers
  <2>2. n \in Nat /\ n # NoViews
    BY RunningInvoiceAssumption
  <2>3. \A d \in Measured : d \in Ruled /\ d \in Contents /\ d \in Delivered
    BY <1>9, <1>13 DEF Measured
  <2>4. \A d \in Measured : IsMeasured(d)'
    BY <1>6, <1>7, <1>10, <2>2, <2>3 DEF Measured, IsMeasured
  <2>5. Measured \subseteq Measured'
    BY <1>13, <2>3, <2>4 DEF Measured
  <2>6. ASSUME NEW d \in Measured
        PROVE  BonusLines[d] <= BonusLines'[d]
    <3>1. video[d].views \in Nat
      BY <2>1 DEF LinesOK
    <3>2. video'[d].views \in Nat /\ video[d].views <= video'[d].views
      <4>1. CASE d = c
        <5>1. video[c].views # NoViews
          BY <4>1 DEF Measured, IsMeasured
        <5>2. video[c].views < n
          BY <5>1 DEF Measure
        <5> QED
          BY <1>6, <2>2, <3>1, <4>1, <5>2
      <4>2. CASE d # c
        BY <1>7, <2>3, <3>1, <4>2
      <4> QED
        BY <4>1, <4>2
    <3>3. /\ Rule(d).tiers \subseteq [threshold : Int, bonus : Int]
          /\ TiersAreValid(Rule(d).tiers)
      BY <2>1, <2>3 DEF LinesOK
    <3>4. TierBonus(Rule(d).tiers, video[d].views)
            <= TierBonus(Rule(d).tiers, video'[d].views)
      BY <3>1, <3>2, <3>3, BonusRises
    <3>5. BonusLines[d] = TierBonus(Rule(d).tiers, video[d].views)
      BY DEF BonusLines
    <3>6. BonusLines'[d] = TierBonus(Rule(d).tiers, video'[d].views)
      <4>1. d \in Measured' /\ Rule(d)' = Rule(d)
        BY <1>10, <2>3, <2>5
      <4>2. BonusLines'[d] = TierBonus(Rule(d)'.tiers, video'[d].views)
        BY <4>1 DEF BonusLines
      <4> QED
        BY <4>1, <4>2
    <3> QED
      BY <3>4, <3>5, <3>6
  <2> QED
    BY <2>5, <2>6
<1> QED
  BY <1>1, <1>2, <1>9, <1>11, <1>12, <1>14

\* Views that come in never lower what finalize would freeze, for every
\* contract, every formula whose tiers rise and every history of hand-ins
\* (MeasuringNeverCosts).
THEOREM MeasuringAdds == Spec => MeasuringNeverCosts
<1>1. ASSUME RowsOK, RowsOK', NEW c \in Contents, NEW n \in Counts, Measure(c, n)
      PROVE  SettledRawTotal' >= SettledRawTotal
  <2>1. /\ formula' = formula
        /\ Fixed' = Fixed
        /\ Penalty' = Penalty
        /\ Delivered \cap Specific \subseteq (Delivered \cap Specific)'
        /\ \A d \in Delivered \cap Specific : FeeLines[d] = FeeLines'[d]
        /\ formula # NoFormula =>
             /\ Measured \subseteq Measured'
             /\ \A d \in Measured : BonusLines[d] <= BonusLines'[d]
    BY <1>1, MeasuringAddsLines
  <2>2. formula # NoFormula =>
          \A d \in Delivered \cap Specific : FeeLines[d] <= FeeLines'[d]
    BY <1>1, <2>1, LinesAreNumbers DEF LinesOK
  <2>3. /\ AdditionalContent.sum <= AdditionalContent'.sum
        /\ PerformanceBonus.sum <= PerformanceBonus'.sum
    BY <1>1, <2>1, <2>2, ComponentsGrow
  <2> QED
    BY <1>1, <2>1, <2>3, SettledGrows
<1>2. RowsOK /\ RowsOK' /\ [Next]_vars =>
        [\A c \in Contents, n \in Counts :
           Measure(c, n) => SettledRawTotal' >= SettledRawTotal]_vars
  BY <1>1
<1> QED
  BY <1>2, RowsInvariant, PTL DEF Spec, MeasuringNeverCosts
=============================================================================
