------------------------- MODULE HistoricalStateProofs -------------------------
(***************************************************************************)
(* Proofs about the historical state of RiskAnalysis: what                  *)
(* HistoricalStateUpdater carries from window to window is what Section 8   *)
(* defines, for any number of windows.                                      *)
(***************************************************************************)
EXTENDS PseudonymProofs, FunctionTheorems

-------------------------------------------------------------------------------
(* Recursive functions on numbers *)

(* What the recursion with this base and these steps computes up to n:      *)
(* step[m] gives the value at m from the one before.                        *)
UpToStep(S, base, step, n) ==
  {f \in [0..n -> S] : f[0] = base /\ \A m \in 1..n : f[m] = step[m][f[m - 1]]}

LEMMA UpToStepExists ==
  ASSUME NEW S, NEW base \in S, NEW step \in [Nat \ {0} -> [S -> S]]
  PROVE  \A n \in Nat : UpToStep(S, base, step, n) # {}
<1> DEFINE N == {n \in Nat : UpToStep(S, base, step, n) # {}}
<1>1. 0 \in N
  <2>1. [m \in 0..0 |-> base] \in UpToStep(S, base, step, 0)
    BY DEF UpToStep
  <2> QED BY <2>1
<1>2. ASSUME NEW n \in Nat, n \in N PROVE n + 1 \in N
  <2>1. PICK f \in UpToStep(S, base, step, n) : TRUE
    BY <1>2
  <2>2. /\ f \in [0..n -> S]
        /\ f[0] = base
        /\ \A m \in 1..n : f[m] = step[m][f[m - 1]]
    BY DEF UpToStep
  <2> DEFINE g == [m \in 0..(n + 1) |-> IF m = n + 1 THEN step[n + 1][f[n]] ELSE f[m]]
  <2>3. step[n + 1][f[n]] \in S
    BY <2>2
  <2>4. g \in [0..(n + 1) -> S]
    BY <2>2, <2>3
  <2>5. g[n + 1] = step[n + 1][f[n]] /\ \A m \in 0..n : g[m] = f[m]
    OBVIOUS
  <2> HIDE DEF g
  <2>6. ASSUME NEW m \in 1..(n + 1) PROVE g[m] = step[m][g[m - 1]]
    <3>1. m - 1 \in 0..n
      OBVIOUS
    <3>2. CASE m = n + 1
      BY <2>5, <3>1, <3>2
    <3>3. CASE m \in 1..n
      BY <2>2, <2>5, <3>1, <3>3
    <3> QED BY <3>2, <3>3
  <2>7. g \in UpToStep(S, base, step, n + 1)
    BY <2>2, <2>4, <2>5, <2>6 DEF UpToStep
  <2> QED BY <2>7
<1>3. Nat \subseteq N
  <2> HIDE DEF N
  <2> QED BY <1>1, <1>2, SetInduction
<1> QED BY <1>3

LEMMA UpToStepAgree ==
  ASSUME NEW S, NEW base, NEW step, NEW a \in Nat, NEW b \in Nat,
         NEW f \in UpToStep(S, base, step, a), NEW g \in UpToStep(S, base, step, b)
  PROVE  \A n \in Nat : n <= a /\ n <= b => f[n] = g[n]
<1> DEFINE N == {n \in Nat : n <= a /\ n <= b => f[n] = g[n]}
<1>1. 0 \in N
  BY DEF UpToStep
<1>2. ASSUME NEW n \in Nat, n \in N PROVE n + 1 \in N
  <2> SUFFICES ASSUME n + 1 <= a, n + 1 <= b PROVE f[n + 1] = g[n + 1]
    OBVIOUS
  <2>1. f[n] = g[n]
    BY <1>2
  <2>2. n + 1 \in 1..a /\ n + 1 \in 1..b /\ (n + 1) - 1 = n
    OBVIOUS
  <2> QED BY <2>1, <2>2 DEF UpToStep
<1>3. Nat \subseteq N
  <2> HIDE DEF N
  <2> QED BY <1>1, <1>2, SetInduction
<1> QED BY <1>3

(* A function defined by a base and steps exists.                           *)
Recursive(S, base, step) ==
  {f \in [Nat -> S] : f[0] = base /\ \A n \in Nat \ {0} : f[n] = step[n][f[n - 1]]}

LEMMA RecursionExists ==
  ASSUME NEW S, NEW base \in S, NEW step \in [Nat \ {0} -> [S -> S]]
  PROVE  Recursive(S, base, step) # {}
<1> DEFINE part(n) == CHOOSE g \in UpToStep(S, base, step, n) : TRUE
           f == [n \in Nat |-> part(n)[n]]
<1>1. \A n \in Nat : part(n) \in UpToStep(S, base, step, n)
  BY UpToStepExists
<1> HIDE DEF part
<1>2. f \in [Nat -> S]
  BY <1>1 DEF UpToStep
<1>3. f[0] = base
  BY <1>1 DEF UpToStep
<1>4. ASSUME NEW n \in Nat \ {0} PROVE f[n] = step[n][f[n - 1]]
  <2>1. /\ n - 1 \in Nat
        /\ part(n) \in UpToStep(S, base, step, n)
        /\ part(n - 1) \in UpToStep(S, base, step, n - 1)
    BY <1>1
  <2>2. part(n - 1)[n - 1] = part(n)[n - 1]
    BY <2>1, UpToStepAgree
  <2>3. part(n)[n] = step[n][part(n)[n - 1]]
    BY <2>1 DEF UpToStep
  <2> QED BY <2>1, <2>2, <2>3
<1> HIDE DEF f
<1> QED BY <1>2, <1>3, <1>4 DEF Recursive

-------------------------------------------------------------------------------
(* Powers *)

Powers(b) == CHOOSE p : p = [m \in Nat |-> IF m = 0 THEN 1 ELSE b * p[m - 1]]

LEMMA PowerValues ==
  ASSUME NEW b \in Nat \ {0}
  PROVE  /\ Power(b, 0) = 1
         /\ \A n \in Nat : Power(b, n) \in Nat \ {0} /\ Power(b, n + 1) = b * Power(b, n)
<1> DEFINE times == [x \in Nat \ {0} |-> b * x]
           step  == [n \in Nat \ {0} |-> times]
<1>1. times \in [Nat \ {0} -> Nat \ {0}]
  OBVIOUS
<1>2. step \in [Nat \ {0} -> [Nat \ {0} -> Nat \ {0}]]
  BY <1>1
<1>3. PICK f \in Recursive(Nat \ {0}, 1, step) : TRUE
  <2>1. 1 \in Nat \ {0}
    OBVIOUS
  <2> HIDE DEF step
  <2>2. Recursive(Nat \ {0}, 1, step) # {}
    BY <1>2, <2>1, RecursionExists, Zenon
  <2> QED BY <2>2
<1>f. f \in [Nat -> Nat \ {0}] /\ f[0] = 1 /\ \A n \in Nat \ {0} : f[n] = step[n][f[n - 1]]
  BY <1>3 DEF Recursive
<1>4. ASSUME NEW n \in Nat \ {0} PROVE f[n] = b * f[n - 1]
  <2>1. f[n - 1] \in Nat \ {0}
    BY <1>f
  <2> QED BY <1>f, <2>1
<1>5. f = [m \in Nat |-> IF m = 0 THEN 1 ELSE b * f[m - 1]]
  BY <1>f, <1>4
<1>6. Powers(b) = [m \in Nat |-> IF m = 0 THEN 1 ELSE b * Powers(b)[m - 1]]
  BY <1>5 DEF Powers
<1>7. \A n \in Nat : Power(b, n) = Powers(b)[n]
  BY DEF Power, Powers
<1>8. \A n \in Nat : Power(b, n) = IF n = 0 THEN 1 ELSE b * Powers(b)[n - 1]
  BY <1>6, <1>7
<1>9. Power(b, 0) = 1
  BY <1>8
<1>10. ASSUME NEW n \in Nat PROVE Power(b, n + 1) = b * Power(b, n)
  <2>1. Power(b, n + 1) = b * Powers(b)[(n + 1) - 1]
    BY <1>8
  <2> QED BY <1>7, <2>1
<1>11. \A n \in Nat : Power(b, n) \in Nat \ {0}
  <2> DEFINE N == {n \in Nat : Power(b, n) \in Nat \ {0}}
  <2>1. 0 \in N
    BY <1>9
  <2>2. ASSUME NEW n \in Nat, n \in N PROVE n + 1 \in N
    <3>1. Power(b, n) \in Nat \ {0} /\ n + 1 \in Nat
      BY <2>2
    <3>2. \A x \in Nat \ {0} : b * x \in Nat \ {0}
      OBVIOUS
    <3> QED BY <1>10, <3>1, <3>2, Zenon
  <2>3. Nat \subseteq N
    <3> HIDE DEF N
    <3> QED BY <2>1, <2>2, SetInduction
  <2> QED BY <2>3
<1> QED BY <1>9, <1>10, <1>11

LEMMA PowersOfSevenAndTen ==
  /\ Power(7, 0) = 1 /\ Power(10, 0) = 1
  /\ \A n \in Nat : /\ Power(7, n) \in Nat /\ Power(7, n + 1) = 7 * Power(7, n)
                    /\ Power(10, n) \in Nat \ {0} /\ Power(10, n + 1) = 10 * Power(10, n)
<1>1. 7 \in Nat \ {0} /\ 10 \in Nat \ {0}
  OBVIOUS
<1>2. Power(7, 0) = 1 /\ \A n \in Nat : Power(7, n) \in Nat \ {0}
                                       /\ Power(7, n + 1) = 7 * Power(7, n)
  BY <1>1, PowerValues, Zenon
<1>3. Power(10, 0) = 1 /\ \A n \in Nat : Power(10, n) \in Nat \ {0}
                                        /\ Power(10, n + 1) = 10 * Power(10, n)
  BY <1>1, PowerValues, Zenon
<1> QED BY <1>2, <1>3

-------------------------------------------------------------------------------
(* The weighted sum *)

WeightSum(windows, i) ==
  CHOOSE s : s = [k \in 0..i |-> IF k = 0 THEN 0 ELSE s[k - 1] + Weighed(windows, i, k)]

LEMMA WeighedType ==
  ASSUME NEW windows, NEW i \in Nat, NEW k \in 1..i, Risk(windows, k) \in Nat
  PROVE  Weighed(windows, i, k) \in Nat
<1>1. i - k \in Nat /\ k - 1 \in Nat
  OBVIOUS
<1>2. Power(7, i - k) \in Nat /\ Power(10, k - 1) \in Nat
  BY <1>1, PowersOfSevenAndTen
<1>3. \A a, b, r \in Nat : 3 * a * b * r \in Nat
  OBVIOUS
<1> QED BY <1>2, <1>3 DEF Weighed

LEMMA WeightSumValues ==
  ASSUME NEW windows, NEW i \in Nat, \A k \in 1..i : Risk(windows, k) \in Nat
  PROVE  LET sum == WeightSum(windows, i) IN
         /\ sum \in [0..i -> Nat]
         /\ sum[0] = 0
         /\ \A k \in 1..i : sum[k] = sum[k - 1] + Weighed(windows, i, k)
         /\ Weight(windows, i) = sum[i]
<1> DEFINE w(k)  == IF k \in 1..i THEN Weighed(windows, i, k) ELSE 0
           step  == [k \in Nat \ {0} |-> [x \in Nat |-> x + w(k)]]
<1>1. \A k \in Nat : w(k) \in Nat
  BY WeighedType
<1>2. step \in [Nat \ {0} -> [Nat -> Nat]]
  <2> HIDE DEF w
  <2> QED BY <1>1
<1>3. PICK f \in UpToStep(Nat, 0, step, i) : TRUE
  <2> HIDE DEF step
  <2>1. UpToStep(Nat, 0, step, i) # {}
    <3>1. 0 \in Nat
      OBVIOUS
    <3> QED BY <1>2, <3>1, UpToStepExists, Zenon
  <2> QED BY <2>1
<1>4. f \in [0..i -> Nat] /\ f[0] = 0 /\ \A k \in 1..i : f[k] = step[k][f[k - 1]]
  BY <1>3 DEF UpToStep
<1>5. ASSUME NEW k \in 1..i PROVE f[k] = f[k - 1] + Weighed(windows, i, k)
  <2>1. f[k - 1] \in Nat /\ k \in Nat \ {0} /\ w(k) = Weighed(windows, i, k)
    BY <1>4
  <2>2. f[k] = step[k][f[k - 1]]
    BY <1>4
  <2> HIDE DEF w
  <2>3. step[k][f[k - 1]] = f[k - 1] + w(k)
    BY <2>1
  <2> QED BY <2>1, <2>2, <2>3
<1>6. f = [k \in 0..i |-> IF k = 0 THEN 0 ELSE f[k - 1] + Weighed(windows, i, k)]
  BY <1>4, <1>5
<1>7. WeightSum(windows, i) =
        [k \in 0..i |-> IF k = 0 THEN 0
                        ELSE WeightSum(windows, i)[k - 1] + Weighed(windows, i, k)]
  BY <1>6 DEF WeightSum
<1>8. Weight(windows, i) = WeightSum(windows, i)[i]
  BY DEF Weight, WeightSum
<1> DEFINE sum == WeightSum(windows, i)
<1>9. sum[0] = 0 /\ \A k \in 1..i : sum[k] = sum[k - 1] + Weighed(windows, i, k)
  BY <1>7
<1>10. DOMAIN sum = 0..i /\ sum = [k \in 0..i |-> sum[k]]
  BY <1>7
<1> HIDE DEF sum
<1>11. \A k \in Nat : k <= i => sum[k] \in Nat
  <2> DEFINE N == {k \in Nat : k <= i => sum[k] \in Nat}
  <2>1. 0 \in N
    BY <1>9
  <2>2. ASSUME NEW k \in Nat, k \in N PROVE k + 1 \in N
    <3> SUFFICES ASSUME k + 1 <= i PROVE sum[k + 1] \in Nat
      OBVIOUS
    <3>1. k + 1 \in 1..i /\ (k + 1) - 1 = k /\ sum[k] \in Nat
      BY <2>2
    <3>2. sum[k + 1] = sum[k] + Weighed(windows, i, k + 1)
      BY <1>9, <3>1
    <3>3. Weighed(windows, i, k + 1) \in Nat
      BY <3>1, WeighedType
    <3> QED BY <3>1, <3>2, <3>3
  <2>3. Nat \subseteq N
    <3> HIDE DEF N
    <3> QED BY <2>1, <2>2, SetInduction
  <2> QED BY <2>3
<1>12. sum \in [0..i -> Nat]
  BY <1>10, <1>11
<1> QED BY <1>8, <1>9, <1>12 DEF sum

(* With one more window every earlier one weighs 0.7 of what it did.        *)
LEMMA WeighedDecays ==
  ASSUME NEW windows, NEW i \in Nat, NEW k \in 1..i, Risk(windows, k) \in Nat
  PROVE  Weighed(windows, i + 1, k) = 7 * Weighed(windows, i, k)
<1>1. i - k \in Nat /\ k - 1 \in Nat /\ (i + 1) - k = (i - k) + 1
  OBVIOUS
<1>2. /\ Power(7, i - k) \in Nat
      /\ Power(10, k - 1) \in Nat
      /\ Power(7, (i + 1) - k) = 7 * Power(7, i - k)
  BY <1>1, PowersOfSevenAndTen
<1>3. \A a, b, r \in Nat : 3 * (7 * a) * b * r = 7 * (3 * a * b * r)
  OBVIOUS
<1> QED BY <1>2, <1>3 DEF Weighed

LEMMA WeightType ==
  ASSUME NEW windows, NEW i \in Nat, \A k \in 1..i : Risk(windows, k) \in Nat
  PROVE  Weight(windows, i) \in Nat
<1>1. /\ WeightSum(windows, i) \in [0..i -> Nat]
      /\ Weight(windows, i) = WeightSum(windows, i)[i]
  BY WeightSumValues
<1> QED BY <1>1

LEMMA WeightRecurrence ==
  ASSUME NEW windows, NEW i \in Nat, \A k \in 1..(i + 1) : Risk(windows, k) \in Nat
  PROVE  /\ Weight(windows, i) \in Nat
         /\ Weight(windows, i + 1) =
              7 * Weight(windows, i) + 3 * Power(10, i) * Risk(windows, i + 1)
<1> DEFINE sum   == WeightSum(windows, i)
           after == WeightSum(windows, i + 1)
<1>1. /\ sum \in [0..i -> Nat]
      /\ sum[0] = 0
      /\ \A k \in 1..i : sum[k] = sum[k - 1] + Weighed(windows, i, k)
      /\ Weight(windows, i) = sum[i]
  BY WeightSumValues
<1>2. /\ after \in [0..(i + 1) -> Nat]
      /\ after[0] = 0
      /\ \A k \in 1..(i + 1) : after[k] = after[k - 1] + Weighed(windows, i + 1, k)
      /\ Weight(windows, i + 1) = after[i + 1]
  <2>1. i + 1 \in Nat
    OBVIOUS
  <2> QED BY <2>1, WeightSumValues
<1> HIDE DEF sum, after
<1>3. \A k \in Nat : k <= i => after[k] = 7 * sum[k]
  <2> DEFINE N == {k \in Nat : k <= i => after[k] = 7 * sum[k]}
  <2>1. 0 \in N
    BY <1>1, <1>2
  <2>2. ASSUME NEW k \in Nat, k \in N PROVE k + 1 \in N
    <3> SUFFICES ASSUME k + 1 <= i PROVE after[k + 1] = 7 * sum[k + 1]
      OBVIOUS
    <3>1. k + 1 \in 1..i /\ k + 1 \in 1..(i + 1) /\ (k + 1) - 1 = k
      OBVIOUS
    <3>2. after[k] = 7 * sum[k] /\ sum[k] \in Nat
      BY <1>1, <2>2
    <3>3. /\ after[k + 1] = after[k] + Weighed(windows, i + 1, k + 1)
          /\ sum[k + 1] = sum[k] + Weighed(windows, i, k + 1)
      BY <1>1, <1>2, <3>1
    <3>4. /\ Weighed(windows, i + 1, k + 1) = 7 * Weighed(windows, i, k + 1)
          /\ Weighed(windows, i, k + 1) \in Nat
      BY <3>1, WeighedDecays, WeighedType
    <3> QED BY <3>2, <3>3, <3>4
  <2>3. Nat \subseteq N
    <3> HIDE DEF N
    <3> QED BY <2>1, <2>2, SetInduction
  <2> QED BY <2>3
<1>4. Weight(windows, i + 1) = 7 * Weight(windows, i) + Weighed(windows, i + 1, i + 1)
  <2>1. i + 1 \in 1..(i + 1) /\ (i + 1) - 1 = i /\ i <= i
    OBVIOUS
  <2> QED BY <1>1, <1>2, <1>3, <2>1
<1>5. Weighed(windows, i + 1, i + 1) = 3 * Power(10, i) * Risk(windows, i + 1)
  <2>1. (i + 1) - (i + 1) = 0 /\ (i + 1) - 1 = i
    OBVIOUS
  <2>2. Power(7, 0) = 1 /\ Power(10, i) \in Nat
    BY PowersOfSevenAndTen
  <2>3. Weighed(windows, i + 1, i + 1) = 3 * Power(7, 0) * Power(10, i) * Risk(windows, i + 1)
    BY <2>1 DEF Weighed
  <2> QED BY <2>2, <2>3
<1>6. Weight(windows, i) \in Nat
  BY <1>1
<1> QED BY <1>4, <1>5, <1>6

-------------------------------------------------------------------------------
(* What the windows carry *)

StateAt(windows, i) == IF i = 0 THEN ZeroState ELSE windows[i].state

(* Every window's state is the update of the one before.                    *)
Carried(windows) ==
  /\ windows \in Seq(WindowOutcome)
  /\ \A i \in 1..Len(windows) :
       windows[i].state = Update(StateAt(windows, i - 1),
                                 windows[i].scores.s_g, windows[i].scores.s_cb)

LEMMA StateTypes ==
  ASSUME NEW windows, Carried(windows), NEW i \in 0..Len(windows)
  PROVE  /\ StateAt(windows, i) \in HistoricalRiskState
         /\ StateAt(windows, i).accumulated_risk \in Nat
         /\ StateAt(windows, i).history \in Seq(Nat)
         /\ StateAt(windows, 0).accumulated_risk = 0
         /\ StateAt(windows, 0).history = << >>
<1>1. ZeroState \in HistoricalRiskState /\ ZeroState.accumulated_risk = 0
      /\ ZeroState.history = << >>
  BY IdleType DEF AnalysisTypeOK, Idle, ZeroState
<1>2. StateAt(windows, i) \in HistoricalRiskState
  <2>1. CASE i = 0
    BY <1>1, <2>1 DEF StateAt
  <2>2. CASE i # 0
    <3>1. windows[i] \in WindowOutcome
      BY <2>2 DEF Carried
    <3>2. windows[i].state \in HistoricalRiskState
      BY <3>1 DEF WindowOutcome
    <3> QED BY <2>2, <3>2 DEF StateAt
  <2> QED BY <2>1, <2>2
<1>3. /\ StateAt(windows, i).accumulated_risk \in 0..One
      /\ StateAt(windows, i).history \in Seq(0..One)
  BY <1>2 DEF HistoricalRiskState
<1>4. 0..One \subseteq Nat
  BY OneType
<1>5. StateAt(windows, i).history \in Seq(Nat)
  <2> DEFINE T == 0..One
  <2> HIDE DEF T
  <2>1. ASSUME NEW h \in Seq(T), T \subseteq Nat PROVE h \in Seq(Nat)
    <3>1. Len(h) \in Nat /\ h \in [1..Len(h) -> T]
      BY <2>1, LenProperties
    <3>2. h \in [1..Len(h) -> Nat]
      BY <2>1, <3>1
    <3> QED BY <3>1, <3>2
  <2> QED BY <1>3, <1>4, <2>1 DEF T
<1> QED BY <1>1, <1>2, <1>3, <1>4, <1>5 DEF StateAt

(* A window's risk: a whole number of thousandths.                          *)
LEMMA RiskType ==
  ASSUME NEW windows, Carried(windows), NEW i \in 1..Len(windows)
  PROVE  /\ Risk(windows, i) \in Nat
         /\ \E s \in Nat : Risk(windows, i) = 1000 * s
<1>1. windows[i] \in WindowOutcome
  BY DEF Carried
<1>2. windows[i].scores \in [s_g : 0..100, s_cb : 0..100]
  BY <1>1, AnalysisAssumption DEF WindowOutcome
<1>3. PICK g, b : g \in Nat /\ b \in Nat /\ windows[i].scores.s_g = g /\ windows[i].scores.s_cb = b
  <2>1. windows[i].scores.s_g \in 0..100 /\ windows[i].scores.s_cb \in 0..100
    BY <1>2
  <2>2. \A n \in 0..100 : n \in Nat
    OBVIOUS
  <2> QED BY <2>1, <2>2, Zenon
<1>4. Risk(windows, i) = (7 * g + 3 * b) * 1000
  BY <1>3 DEF Risk, PrecursorRisk
<1>5. PICK n \in Nat : n = 7 * g + 3 * b
  BY <1>3
<1>6. Risk(windows, i) = 1000 * n
  BY <1>4, <1>5
<1> QED BY <1>6

LEMMA UpdateFields ==
  ASSUME NEW previous, NEW s_g, NEW s_cb
  PROVE  LET after == Update(previous, s_g, s_cb)
             r     == PrecursorRisk(s_g, s_cb)
         IN /\ after.accumulated_risk = (7 * previous.accumulated_risk + 3 * r) \div 10
            /\ after.risk_trend = after.accumulated_risk - previous.accumulated_risk
            /\ after.history = Remember(previous.history, r)
            /\ after.high = Cardinality({j \in 1..Len(after.history) :
                                           after.history[j] > HIGH_RISK_THRESHOLD})
<1> DEFINE r       == PrecursorRisk(s_g, s_cb)
           history == Remember(previous.history, r)
           e       == (7 * previous.accumulated_risk + 3 * r) \div 10
           high    == Cardinality({j \in 1..Len(history) : history[j] > HIGH_RISK_THRESHOLD})
<1>1. Update(previous, s_g, s_cb) =
        [accumulated_risk |-> e, risk_trend |-> e - previous.accumulated_risk,
         high |-> high, history |-> history]
  BY DEF Update
<1> DEFINE after == Update(previous, s_g, s_cb)
<1> HIDE DEF r, e, high, after
<1>2. /\ after.accumulated_risk = e
      /\ after.risk_trend = e - previous.accumulated_risk
      /\ after.high = high
      /\ after.history = history
  <2> HIDE DEF history
  <2> QED BY <1>1 DEF after
<1> QED BY <1>2 DEF after, e, high, r

(* One round of HistoricalStateUpdater.update.                              *)
LEMMA OneUpdate ==
  ASSUME NEW windows, Carried(windows), NEW i \in 0..(Len(windows) - 1)
  PROVE  LET before == StateAt(windows, i)
             after  == StateAt(windows, i + 1)
             r      == Risk(windows, i + 1)
         IN /\ after.accumulated_risk = (7 * before.accumulated_risk + 3 * r) \div 10
            /\ after.risk_trend = after.accumulated_risk - before.accumulated_risk
            /\ after.history = Remember(before.history, r)
            /\ after.high = Cardinality({j \in 1..Len(after.history) :
                                           after.history[j] > HIGH_RISK_THRESHOLD})
<1>1. i + 1 \in 1..Len(windows) /\ (i + 1) - 1 = i /\ i + 1 # 0
  BY DEF Carried
<1>2. StateAt(windows, i + 1) = Update(StateAt(windows, i), windows[i + 1].scores.s_g,
                                       windows[i + 1].scores.s_cb)
  BY <1>1 DEF Carried, StateAt
<1> QED BY <1>2, UpdateFields DEF Risk

-------------------------------------------------------------------------------
(* Accumulated risk and trend *)

(* What the divisions have cut off of the weighted sum.                     *)
Error(windows, i) ==
  Weight(windows, i) - Power(10, i) * StateAt(windows, i).accumulated_risk

LEMMA ErrorStep ==
  ASSUME NEW W \in Nat, NEW T \in Nat \ {0}, NEW e \in Nat, NEW r \in Nat
  PROVE  LET next == (7 * e + 3 * r) \div 10
             cut  == (7 * e + 3 * r) % 10
         IN /\ next \in Nat
            /\ (7 * W + 3 * T * r) - (10 * T) * next = 7 * (W - T * e) + T * cut
            /\ 0 <= T * cut /\ T * cut <= 9 * T
<1> DEFINE n == 7 * e + 3 * r
<1>1. /\ n \div 10 \in Nat
      /\ n % 10 \in 0..9
      /\ 10 * (n \div 10) = n - (n % 10)
  OBVIOUS
<1>2. PICK next \in Nat, cut \in 0..9 :
        next = n \div 10 /\ cut = n % 10 /\ 10 * next = 7 * e + 3 * r - cut
  BY <1>1
<1>3. (10 * T) * next = T * (10 * next)
  OBVIOUS
<1>4. T * (7 * e + 3 * r - cut) = 7 * (T * e) + 3 * (T * r) - T * cut
  OBVIOUS
<1>5. (10 * T) * next = 7 * (T * e) + 3 * (T * r) - T * cut
  BY <1>2, <1>3, <1>4
<1>6. 3 * T * r = 3 * (T * r) /\ T * r \in Nat /\ T * e \in Nat /\ T * cut \in Nat
  OBVIOUS
<1>7. 0 <= T * cut /\ T * cut <= 9 * T
  OBVIOUS
<1>8. (7 * W + 3 * T * r) - (10 * T) * next = 7 * (W - T * e) + T * cut
  BY <1>5, <1>6
<1> HIDE DEF n
<1> QED BY <1>2, <1>7, <1>8 DEF n

(* The first three divisions leave no remainder: the risks are thousands,   *)
(* the first state a multiple of 100, the second one of 10.                 *)
EarlyMultiple(windows, i) ==
  \E a \in Nat : StateAt(windows, i).accumulated_risk =
                   CASE i = 0 -> 1000 * a [] i = 1 -> 100 * a [] i = 2 -> 10 * a [] OTHER -> a

LEMMA EarlyDivisions ==
  ASSUME NEW windows, Carried(windows), NEW i \in 0..2, i < Len(windows),
         EarlyMultiple(windows, i)
  PROVE  /\ EarlyMultiple(windows, i + 1)
         /\ (7 * StateAt(windows, i).accumulated_risk + 3 * Risk(windows, i + 1)) % 10 = 0
<1>1. Len(windows) \in Nat
  BY LenProperties DEF Carried
<1>2. i \in 0..(Len(windows) - 1) /\ i + 1 \in 1..Len(windows)
  BY <1>1
<1>3. PICK s \in Nat : Risk(windows, i + 1) = 1000 * s
  BY <1>2, RiskType
<1>4. StateAt(windows, i + 1).accumulated_risk =
        (7 * StateAt(windows, i).accumulated_risk + 3 * Risk(windows, i + 1)) \div 10
  BY <1>2, OneUpdate
<1>5. PICK a \in Nat : StateAt(windows, i).accumulated_risk =
                         CASE i = 0 -> 1000 * a [] i = 1 -> 100 * a [] i = 2 -> 10 * a [] OTHER -> a
  BY DEF EarlyMultiple
<1>6. CASE i = 0
  <2>1. /\ (7 * (1000 * a) + 3 * (1000 * s)) % 10 = 0
        /\ (7 * (1000 * a) + 3 * (1000 * s)) \div 10 = 100 * (7 * a + 3 * s)
        /\ 7 * a + 3 * s \in Nat
    OBVIOUS
  <2> QED BY <1>3, <1>4, <1>5, <1>6, <2>1 DEF EarlyMultiple
<1>7. CASE i = 1
  <2>1. /\ (7 * (100 * a) + 3 * (1000 * s)) % 10 = 0
        /\ (7 * (100 * a) + 3 * (1000 * s)) \div 10 = 10 * (7 * a + 30 * s)
        /\ 7 * a + 30 * s \in Nat
    OBVIOUS
  <2> QED BY <1>3, <1>4, <1>5, <1>7, <2>1 DEF EarlyMultiple
<1>8. CASE i = 2
  <2>1. /\ (7 * (10 * a) + 3 * (1000 * s)) % 10 = 0
        /\ (7 * (10 * a) + 3 * (1000 * s)) \div 10 = 7 * a + 300 * s
        /\ 7 * a + 300 * s \in Nat
    OBVIOUS
  <2>2. StateAt(windows, i).accumulated_risk = 10 * a
    BY <1>5, <1>8
  <2>3. StateAt(windows, i + 1).accumulated_risk = 7 * a + 300 * s
    BY <1>3, <1>4, <2>1, <2>2
  <2>4. EarlyMultiple(windows, i + 1)
    <3>1. PICK v \in Nat : v = 7 * a + 300 * s
      BY <2>1
    <3>2. i + 1 = 3
      BY <1>8
    <3>3. StateAt(windows, 3).accumulated_risk = v
      BY <2>3, <3>1, <3>2
    <3>4. EarlyMultiple(windows, 3)
      BY <3>3 DEF EarlyMultiple
    <3> QED BY <3>2, <3>4
  <2> QED BY <1>3, <2>1, <2>2, <2>4
<1>9. i = 0 \/ i = 1 \/ i = 2
  OBVIOUS
<1> QED BY <1>6, <1>7, <1>8, <1>9, Zenon

ErrorOK(windows, i) ==
  /\ Error(windows, i) \in 0..(3 * Power(10, i))
  /\ i <= 3 => Error(windows, i) = 0 /\ EarlyMultiple(windows, i)

(* The error of a window is 0.7 of the one before and less than one         *)
(* millionth of its own.                                                    *)
LEMMA ErrorBound ==
  ASSUME NEW windows, Carried(windows)
  PROVE  \A i \in Nat : i <= Len(windows) => ErrorOK(windows, i)
<1> DEFINE N == {i \in Nat : i <= Len(windows) => ErrorOK(windows, i)}
<1>1. Len(windows) \in Nat
  BY LenProperties DEF Carried
<1>2. \A k \in 1..Len(windows) : Risk(windows, k) \in Nat
  BY RiskType
<1>3. 0 \in N
  <2>1. Weight(windows, 0) = 0
    <3>1. \A k \in 1..0 : Risk(windows, k) \in Nat
      OBVIOUS
    <3> QED BY <3>1, WeightSumValues
  <2>2. 0 \in 0..Len(windows)
    BY <1>1
  <2>3. StateAt(windows, 0).accumulated_risk = 0
    BY <2>2, StateTypes
  <2>4. Error(windows, 0) = 0
    BY <2>1, <2>3, PowersOfSevenAndTen DEF Error
  <2>5. EarlyMultiple(windows, 0)
    BY <2>3 DEF EarlyMultiple
  <2>6. 0 \in 0..(3 * Power(10, 0))
    BY PowersOfSevenAndTen
  <2> QED BY <2>4, <2>5, <2>6 DEF ErrorOK
<1>4. ASSUME NEW i \in Nat, i \in N PROVE i + 1 \in N
  <2> SUFFICES ASSUME i + 1 <= Len(windows) PROVE ErrorOK(windows, i + 1)
    OBVIOUS
  <2>1. ErrorOK(windows, i) /\ i \in 0..Len(windows) /\ i \in 0..(Len(windows) - 1)
    BY <1>1, <1>4
  <2> DEFINE W    == Weight(windows, i)
             T    == Power(10, i)
             e    == StateAt(windows, i).accumulated_risk
             r    == Risk(windows, i + 1)
             next == StateAt(windows, i + 1).accumulated_risk
             cut  == (7 * e + 3 * r) % 10
  <2>2. e \in Nat /\ r \in Nat
    BY <1>2, <2>1, StateTypes
  <2>3. next = (7 * e + 3 * r) \div 10
    BY <2>1, OneUpdate
  <2>4. W \in Nat /\ Weight(windows, i + 1) = 7 * W + 3 * T * r
    <3>1. \A k \in 1..(i + 1) : Risk(windows, k) \in Nat
      BY <1>1, <1>2
    <3> QED BY <3>1, WeightRecurrence
  <2>5. T \in Nat \ {0} /\ Power(10, i + 1) = 10 * T
    BY PowersOfSevenAndTen
  <2>6. Error(windows, i) = W - T * e
    BY DEF Error
  <2>7. Error(windows, i + 1) = (7 * W + 3 * T * r) - (10 * T) * next
    BY <2>4, <2>5 DEF Error
  <2> HIDE DEF W, T, e, r, next
  <2>8. /\ (7 * W + 3 * T * r) - (10 * T) * next = 7 * (W - T * e) + T * cut
        /\ 0 <= T * cut /\ T * cut <= 9 * T
    BY <2>2, <2>3, <2>4, <2>5, ErrorStep
  <2>9. Error(windows, i) \in 0..(3 * T)
    BY <2>1 DEF ErrorOK, T
  <2>10. cut \in Nat
    BY <2>2
  <2> HIDE DEF cut
  <2>11. T * cut \in Nat
    BY <2>5, <2>10
  <2>12. Error(windows, i + 1) = 7 * Error(windows, i) + T * cut
    BY <2>6, <2>7, <2>8
  <2>13. Error(windows, i + 1) \in 0..(3 * Power(10, i + 1))
    BY <2>5, <2>8, <2>9, <2>11, <2>12
  <2>14. ASSUME i + 1 <= 3
         PROVE  Error(windows, i + 1) = 0 /\ EarlyMultiple(windows, i + 1)
    <3>1. i \in 0..2 /\ i < Len(windows) /\ i <= 3
      BY <1>1, <2>14
    <3>2. Error(windows, i) = 0 /\ EarlyMultiple(windows, i)
      BY <2>1, <3>1 DEF ErrorOK
    <3>3. EarlyMultiple(windows, i + 1) /\ cut = 0
      BY <3>1, <3>2, EarlyDivisions DEF cut, e, r
    <3>4. T * cut = 0
      BY <2>5, <3>3
    <3> QED BY <2>12, <3>2, <3>3, <3>4
  <2> QED BY <2>13, <2>14 DEF ErrorOK
<1>5. Nat \subseteq N
  <2> HIDE DEF N
  <2> QED BY <1>3, <1>4, SetInduction
<1> QED BY <1>5

(* The first two parts of StateMatchesDefinition.                           *)
LEMMA RiskAndTrend ==
  ASSUME NEW windows, Carried(windows), NEW i \in 1..Len(windows)
  PROVE  /\ Rounded(i, Weight(windows, i), windows[i].state.accumulated_risk)
         /\ Rounded(i, Weight(windows, i) - 10 * Weight(windows, i - 1),
                    windows[i].state.risk_trend)
<1> DEFINE e == StateAt(windows, i).accumulated_risk
           d == StateAt(windows, i - 1).accumulated_risk
           V == Weight(windows, i - 1)
           W == Weight(windows, i)
           T == Power(10, i - 1)
<1>1. /\ i \in Nat /\ i - 1 \in Nat /\ (i - 1) + 1 = i /\ i # 0
      /\ i <= Len(windows) /\ i - 1 <= Len(windows)
      /\ i \in 0..Len(windows) /\ i - 1 \in 0..Len(windows) /\ i - 1 \in 0..(Len(windows) - 1)
  BY LenProperties DEF Carried
<1>2. windows[i].state = StateAt(windows, i)
  BY <1>1 DEF StateAt
<1>3. e \in Nat /\ d \in Nat
  BY <1>1, StateTypes
<1>4. StateAt(windows, i).risk_trend = e - d
  BY <1>1, OneUpdate
<1>5. V \in Nat /\ W \in Nat
  <2>1. \A k \in 1..i : Risk(windows, k) \in Nat
    BY <1>1, RiskType
  <2>2. \A k \in 1..(i - 1) : Risk(windows, k) \in Nat
    BY <2>1
  <2> QED BY <1>1, <2>1, <2>2, WeightType
<1>6. T \in Nat \ {0} /\ Power(10, i) = 10 * T
  BY <1>1, PowersOfSevenAndTen
<1>7. /\ W - (10 * T) * e \in 0..(3 * (10 * T))
      /\ i <= 3 => W - (10 * T) * e = 0
      /\ V - T * d \in 0..(3 * T)
      /\ i - 1 <= 3 => V - T * d = 0
  <2>1. ErrorOK(windows, i) /\ ErrorOK(windows, i - 1)
    BY <1>1, ErrorBound
  <2> QED BY <1>6, <2>1 DEF ErrorOK, Error
<1> HIDE DEF e, d, V, W, T
<1>8. Rounded(i, W, e)
  <2>1. T * e \in Nat /\ (10 * T) * e = 10 * (T * e)
    BY <1>3, <1>6
  <2> QED BY <1>5, <1>6, <1>7, <2>1 DEF Rounded
<1>9. Rounded(i, W - 10 * V, e - d)
  <2>1. /\ T * e \in Nat /\ T * d \in Nat
        /\ (10 * T) * e = 10 * (T * e)
        /\ (10 * T) * (e - d) = 10 * (T * e) - 10 * (T * d)
    BY <1>3, <1>6
  <2>2. (W - 10 * V) - (10 * T) * (e - d) = (W - (10 * T) * e) - 10 * (V - T * d)
    BY <1>5, <2>1
  <2>3. (W - 10 * V) - (10 * T) * (e - d) \in -(3 * (10 * T))..(3 * (10 * T))
    <3>1. \A x \in 0..(3 * (10 * T)), y \in 0..(3 * T) :
            x - 10 * y \in -(3 * (10 * T))..(3 * (10 * T))
      BY <1>6
    <3> QED BY <1>7, <2>2, <3>1
  <2>4. i <= 3 => (W - 10 * V) - (10 * T) * (e - d) = 0
    BY <1>1, <1>7, <2>2
  <2> QED BY <1>6, <2>3, <2>4 DEF Rounded
<1> QED BY <1>2, <1>4, <1>8, <1>9 DEF e, d, V, W

-------------------------------------------------------------------------------
(* Persistence *)

(* The bounded deque after i windows: the risks of the last of them.        *)
IsRecent(windows, i, history) ==
  /\ Len(history) = Least(i, PersistenceWindow)
  /\ \A j \in 1..Len(history) : history[j] = Risk(windows, i - Len(history) + j)

LEMMA RememberLast ==
  ASSUME NEW windows, NEW i \in Nat, NEW history \in Seq(Nat), NEW r \in Nat,
         r = Risk(windows, i + 1), IsRecent(windows, i, history)
  PROVE  IsRecent(windows, i + 1, Remember(history, r))
<1> DEFINE n == Len(history)
<1>1. /\ n \in Nat
      /\ PersistenceWindow \in Nat \ {0}
      /\ n = Least(i, PersistenceWindow)
      /\ \A j \in 1..n : history[j] = Risk(windows, i - n + j)
  BY LenProperties, AnalysisAssumption DEF IsRecent
<1>2. CASE n < PersistenceWindow
  <2>1. n = i /\ n + 1 = Least(i + 1, PersistenceWindow)
    BY <1>1, <1>2 DEF Least
  <2>2. PICK after : after = Append(history, r)
    OBVIOUS
  <2>3. /\ Len(after) = n + 1
        /\ \A j \in 1..n : after[j] = history[j]
        /\ after[n + 1] = r
    BY <2>2, AppendProperties
  <2>4. \A j \in 1..(n + 1) : after[j] = Risk(windows, (i + 1) - (n + 1) + j)
    <3>1. ASSUME NEW j \in 1..n PROVE after[j] = Risk(windows, (i + 1) - (n + 1) + j)
      <4>1. i - n + j = (i + 1) - (n + 1) + j
        BY <1>1
      <4> QED BY <1>1, <2>3, <4>1
    <3>2. (i + 1) - (n + 1) + (n + 1) = i + 1
      BY <1>1
    <3>3. \A j \in 1..(n + 1) : j \in 1..n \/ j = n + 1
      BY <1>1
    <3> QED BY <2>3, <3>1, <3>2, <3>3
  <2>5. IsRecent(windows, i + 1, after)
    BY <2>1, <2>3, <2>4 DEF IsRecent
  <2> QED BY <1>2, <2>2, <2>5 DEF Remember
<1>3. CASE ~(n < PersistenceWindow)
  <2>1. n = PersistenceWindow /\ n <= i /\ n = Least(i + 1, PersistenceWindow) /\ n # 0
    BY <1>1, <1>3 DEF Least
  <2>2. history # << >>
    BY <2>1
  <2>3. PICK rest \in Seq(Nat) :
          /\ rest = Tail(history)
          /\ Len(rest) = n - 1
          /\ \A j \in 1..(n - 1) : rest[j] = history[j + 1]
    <3>1. /\ Tail(history) \in Seq(Nat)
          /\ Len(Tail(history)) = n - 1
          /\ \A j \in 1..Len(Tail(history)) : Tail(history)[j] = history[j + 1]
      BY <2>2, HeadTailProperties
    <3> QED BY <3>1
  <2>4. PICK after : after = Append(rest, r)
    OBVIOUS
  <2>5. /\ Len(after) = n
        /\ \A j \in 1..(n - 1) : after[j] = rest[j]
        /\ after[n] = r
    BY <1>1, <2>3, <2>4, AppendProperties
  <2>6. \A j \in 1..n : after[j] = Risk(windows, (i + 1) - n + j)
    <3>1. ASSUME NEW j \in 1..(n - 1) PROVE after[j] = Risk(windows, (i + 1) - n + j)
      <4>1. j + 1 \in 1..n /\ i - n + (j + 1) = (i + 1) - n + j
        <5>1. n \in Nat
          BY <1>1
        <5> HIDE DEF n
        <5> QED BY <5>1
      <4> QED BY <1>1, <2>3, <2>5, <4>1
    <3>2. (i + 1) - n + n = i + 1
      BY <1>1
    <3>3. \A j \in 1..n : j \in 1..(n - 1) \/ j = n
      BY <1>1
    <3> QED BY <2>5, <3>1, <3>2, <3>3
  <2>7. IsRecent(windows, i + 1, after)
    BY <2>1, <2>5, <2>6 DEF IsRecent
  <2>8. Remember(history, r) = after
    BY <1>3, <2>3, <2>4 DEF Remember
  <2> QED BY <2>7, <2>8
<1> QED BY <1>2, <1>3

LEMMA HistoryIsRecent ==
  ASSUME NEW windows, Carried(windows)
  PROVE  \A i \in Nat : i <= Len(windows) => IsRecent(windows, i, StateAt(windows, i).history)
<1> DEFINE N == {i \in Nat : i <= Len(windows) =>
                               IsRecent(windows, i, StateAt(windows, i).history)}
<1>1. Len(windows) \in Nat
  BY LenProperties DEF Carried
<1>2. 0 \in N
  <2>1. 0 \in 0..Len(windows)
    BY <1>1
  <2>2. StateAt(windows, 0).history = << >>
    BY <2>1, StateTypes
  <2>3. Least(0, PersistenceWindow) = 0
    BY AnalysisAssumption DEF Least
  <2> QED BY <2>2, <2>3 DEF IsRecent
<1>3. ASSUME NEW i \in Nat, i \in N PROVE i + 1 \in N
  <2> SUFFICES ASSUME i + 1 <= Len(windows)
               PROVE  IsRecent(windows, i + 1, StateAt(windows, i + 1).history)
    OBVIOUS
  <2>1. /\ i \in 0..Len(windows) /\ i \in 0..(Len(windows) - 1)
        /\ i + 1 \in 1..Len(windows)
    BY <1>1
  <2>2. IsRecent(windows, i, StateAt(windows, i).history)
    BY <1>1, <1>3
  <2>3. StateAt(windows, i).history \in Seq(Nat) /\ Risk(windows, i + 1) \in Nat
    BY <2>1, StateTypes, RiskType
  <2>4. StateAt(windows, i + 1).history = Remember(StateAt(windows, i).history, Risk(windows, i + 1))
    BY <2>1, OneUpdate
  <2> QED BY <2>2, <2>3, <2>4, RememberLast
<1>4. Nat \subseteq N
  <2> HIDE DEF N
  <2> QED BY <1>2, <1>3, SetInduction
<1> QED BY <1>4

(* The other parts of StateMatchesDefinition.                               *)
LEMMA Persistence ==
  ASSUME NEW windows, Carried(windows), NEW i \in 1..Len(windows)
  PROVE  LET state  == windows[i].state
             recent == {k \in 1..i : k > i - PersistenceWindow}
         IN /\ Len(state.history) = Cardinality(recent)
            /\ state.high =
                 Cardinality({k \in recent : Risk(windows, k) > HIGH_RISK_THRESHOLD})
<1> DEFINE history == windows[i].state.history
           n       == Len(history)
           recent  == {k \in 1..i : k > i - PersistenceWindow}
           High(k) == Risk(windows, k) > HIGH_RISK_THRESHOLD
           S       == {j \in 1..n : history[j] > HIGH_RISK_THRESHOLD}
           T       == {k \in recent : High(k)}
<1>1. /\ i \in Nat /\ i # 0 /\ i - 1 \in 0..(Len(windows) - 1) /\ (i - 1) + 1 = i
      /\ i <= Len(windows)
      /\ PersistenceWindow \in Nat \ {0}
  BY LenProperties, AnalysisAssumption DEF Carried
<1>2. windows[i].state = StateAt(windows, i)
  BY <1>1 DEF StateAt
<1>3. IsRecent(windows, i, history)
  BY <1>1, <1>2, HistoryIsRecent
<1>4. windows[i].state.high = Cardinality(S)
  <2>1. StateAt(windows, (i - 1) + 1).high =
          Cardinality({j \in 1..Len(StateAt(windows, (i - 1) + 1).history) :
                         StateAt(windows, (i - 1) + 1).history[j] > HIGH_RISK_THRESHOLD})
    BY <1>1, OneUpdate
  <2>2. (i - 1) + 1 = i
    BY <1>1
  <2>3. StateAt(windows, i).high =
          Cardinality({j \in 1..Len(StateAt(windows, i).history) :
                         StateAt(windows, i).history[j] > HIGH_RISK_THRESHOLD})
    BY <2>1, <2>2, Zenon
  <2> QED BY <1>2, <2>3, Zenon
<1> HIDE DEF history, High
<1>5. /\ n \in Nat /\ n <= i
      /\ n = IF i < PersistenceWindow THEN i ELSE PersistenceWindow
      /\ \A j \in 1..n : history[j] = Risk(windows, i - n + j)
  BY <1>1, <1>3 DEF IsRecent, Least
<1>6. recent = (i - n + 1)..i
  BY <1>1, <1>5
<1>7. Cardinality(recent) = n
  <2>1. i - n + 1 \in Int /\ i \in Int
    BY <1>1, <1>5
  <2>2. Cardinality((i - n + 1)..i) = IF i - n + 1 > i THEN 0 ELSE i - (i - n + 1) + 1
    BY <2>1, FS_Interval
  <2>3. ~(i - n + 1 > i) /\ i - (i - n + 1) + 1 = n
    <3>1. n \in Nat \ {0}
      BY <1>1, <1>5
    <3> HIDE DEF n
    <3> QED BY <1>1, <3>1
  <2>4. Cardinality((i - n + 1)..i) = n
    BY <2>2, <2>3
  <2> HIDE DEF recent, n
  <2> QED BY <1>6, <2>4
<1> HIDE DEF recent
<1>8. Cardinality(T) = Cardinality(S)
  <2> DEFINE f == [j \in S |-> i - n + j]
  <2>1. IsFiniteSet(S)
    <3>1. IsFiniteSet(1..n)
      BY <1>5, FS_Interval
    <3> HIDE DEF n
    <3> QED BY <3>1, FS_Subset
  <2>2. \A j \in 1..n : i - n + j \in recent /\ (j \in S <=> High(i - n + j))
    BY <1>1, <1>5, <1>6 DEF High
  <2>3. \A k \in recent : k - (i - n) \in 1..n /\ i - n + (k - (i - n)) = k
    BY <1>1, <1>5, <1>6
  <2> HIDE DEF n
  <2>4. f \in [S -> T]
    BY <2>2
  <2>5. \A j, k \in S : f[j] = f[k] => j = k
    BY <1>1, <1>5
  <2>6. \A k \in T : \E j \in S : f[j] = k
    <3> TAKE k \in T
    <3>1. k \in recent /\ High(k)
      OBVIOUS
    <3>2. k - (i - n) \in S
      BY <2>2, <2>3, <3>1
    <3> QED BY <2>3, <3>1, <3>2
  <2> HIDE DEF f, S, T
  <2>7. f \in Bijection(S, T)
    BY <2>4, <2>5, <2>6, Fun_IsBij
  <2>8. ExistsBijection(S, T)
    BY <2>7, Fun_ExistsBij
  <2> QED BY <2>1, <2>8, FS_Bijection
<1> QED BY <1>4, <1>7, <1>8 DEF recent, history, High

-------------------------------------------------------------------------------
(* The invariant *)

(* The worker keeps the last window's state, and every window's follows     *)
(* from the one before it, the first from none.                             *)
HistoryInv ==
  /\ Carried(worker.outcomes)
  /\ worker.state = StateAt(worker.outcomes, Len(worker.outcomes))

LEMMA IdleHistory ==
  /\ Carried(<< >>)
  /\ StateAt(<< >>, Len(<< >>)) = ZeroState
BY DEF Carried, StateAt

LEMMA ProcessKeepsHistory ==
  ASSUME AnalysisInv, AnalysisInv', HistoryInv, ProcessWindow
  PROVE  HistoryInv'
<1>1. PICK scores, o :
        /\ o.scores = scores
        /\ o.state = Update(worker.state, scores.s_g, scores.s_cb)
        /\ worker'.state = o.state
        /\ worker'.outcomes = Append(worker.outcomes, o)
  <2>1. PICK scores \in ScorePairs, overall \in OverallScores, llm \in Answers,
             llm_again \in Answers,
             top \in TopK(Len(Window(Messages(worker.case), worker.start))) :
          LET state   == Update(worker.state, scores.s_g, scores.s_cb)
              latched == worker.latched \/ ComputeWarning(state)
              outcome == Outcome(worker.start, Window(Messages(worker.case), worker.start),
                                 scores, overall, state, latched, llm, top)
          IN worker' = [worker EXCEPT !.state = state, !.latched = latched,
                          !.start = NextStart(@, Len(Messages(worker.case))),
                          !.outcomes = Append(@, outcome),
                          !.llm_signals = MergeSafetyFeatures(@, llm_again)]
    BY DEF ProcessWindow
  <2> DEFINE state   == Update(worker.state, scores.s_g, scores.s_cb)
             latched == worker.latched \/ ComputeWarning(state)
             o       == Outcome(worker.start, Window(Messages(worker.case), worker.start),
                                scores, overall, state, latched, llm, top)
  <2>2. o.scores = scores /\ o.state = state
    BY DEF Outcome
  <2> HIDE DEF o
  <2>3. worker'.state = state /\ worker'.outcomes = Append(worker.outcomes, o)
    BY <2>1 DEF AnalysisInv, AnalysisTypeOK, o
  <2> QED BY <2>2, <2>3
<1> DEFINE before == worker.outcomes
           after  == Append(worker.outcomes, o)
<1>2. before \in Seq(WindowOutcome) /\ after \in Seq(WindowOutcome)
  BY <1>1 DEF AnalysisInv, AnalysisTypeOK
<1>3. /\ Len(before) \in Nat
      /\ Len(after) = Len(before) + 1
      /\ \A i \in 1..Len(before) : after[i] = before[i]
      /\ after[Len(before) + 1] = o
  BY <1>2
<1>4. Carried(before) /\ worker.state = StateAt(before, Len(before))
  BY DEF HistoryInv
<1> HIDE DEF before, after
<1>5. \A i \in 0..Len(before) : StateAt(after, i) = StateAt(before, i)
  BY <1>3 DEF StateAt
<1>6. ASSUME NEW i \in 1..Len(after)
      PROVE  after[i].state = Update(StateAt(after, i - 1),
                                     after[i].scores.s_g, after[i].scores.s_cb)
  <2>1. i - 1 \in 0..Len(before)
    BY <1>3
  <2>2. CASE i \in 1..Len(before)
    BY <1>3, <1>4, <1>5, <2>1, <2>2 DEF Carried
  <2>3. CASE i = Len(before) + 1
    <3>1. after[i] = o /\ i - 1 = Len(before)
      BY <1>3, <2>3
    <3>2. StateAt(after, i - 1) = worker.state
      BY <1>4, <1>5, <2>1, <3>1
    <3> QED BY <1>1, <3>1, <3>2
  <2> QED BY <1>3, <2>2, <2>3
<1>7. Carried(after)
  BY <1>2, <1>6 DEF Carried
<1>8. worker'.state = StateAt(after, Len(after))
  BY <1>1, <1>3 DEF StateAt
<1> QED BY <1>1, <1>7, <1>8 DEF HistoryInv, after

LEMMA HistoryInvStep ==
  ASSUME AnalysisInv, AnalysisInv', HistoryInv, [Next]_vars
  PROVE  HistoryInv'
<1>1. CASE worker' = worker
  BY <1>1 DEF HistoryInv
<1>2. CASE \E c : worker' = [Idle EXCEPT !.case = c]
  <2>1. worker'.outcomes = << >> /\ worker'.state = ZeroState
    BY <1>2 DEF Idle
  <2> QED BY <2>1, IdleHistory DEF HistoryInv
<1>3. CASE worker' = Idle
  <2>1. worker'.outcomes = << >> /\ worker'.state = ZeroState
    BY <1>3 DEF Idle
  <2> QED BY <2>1, IdleHistory DEF HistoryInv
<1>4. CASE AnalysisNext
  BY <1>2, <1>3, <1>4, ProcessKeepsHistory DEF AnalysisNext, StartAnalysis, Raise, Publish
<1>5. CASE \E c \in Cases : Submit(c)
  BY <1>1, <1>5 DEF Submit, Enqueue
<1>6. CASE UNCHANGED analysisVars
  BY <1>1, <1>6 DEF analysisVars
<1> QED BY <1>4, <1>5, <1>6 DEF Next, vars

(* The updater's state is carried from window to window, from zero.         *)
THEOREM HistoryInvariant == Spec => []HistoryInv
<1>1. Init => HistoryInv
  BY IdleHistory DEF Init, AnalysisInit, Idle, HistoryInv
<1>2. AnalysisInv /\ AnalysisInv' /\ HistoryInv /\ [Next]_vars => HistoryInv'
  BY HistoryInvStep
<1> QED BY <1>1, <1>2, CaseInvariant, PTL DEF Spec

(* After any number of windows the accumulated risk, its trend and the      *)
(* persistence are what Section 8 defines, but for three millionths.        *)
THEOREM StatesAreDefined == Spec => []StateMatchesDefinition
<1>1. HistoryInv => StateMatchesDefinition
  <2> SUFFICES ASSUME HistoryInv, NEW i \in DOMAIN worker.outcomes
               PROVE  LET windows == worker.outcomes
                          state   == windows[i].state
                          recent  == {k \in 1..i : k > i - PersistenceWindow}
                      IN /\ Rounded(i, Weight(windows, i), state.accumulated_risk)
                         /\ Rounded(i, Weight(windows, i) - 10 * Weight(windows, i - 1),
                                    state.risk_trend)
                         /\ Len(state.history) = Cardinality(recent)
                         /\ state.high = Cardinality({k \in recent :
                                           Risk(windows, k) > HIGH_RISK_THRESHOLD})
    BY DEF StateMatchesDefinition
  <2>1. Carried(worker.outcomes) /\ i \in 1..Len(worker.outcomes)
    BY DEF HistoryInv, Carried
  <2> QED BY <2>1, RiskAndTrend, Persistence
<1> QED BY <1>1, HistoryInvariant, PTL
===============================================================================
