------------------------ MODULE ReconnectPolicyProofs ------------------------
(***************************************************************************)
(* Proofs about ReconnectPolicy, for every configuration, uptime, lag and  *)
(* bound on the outage.                                                    *)
(*                                                                         *)
(* GivenUpOnlyWhenSpent: a session is given up only after its budget.      *)
(* PolicyTypes: every number stays within its clamps.                      *)
(*                                                                         *)
(* DelaysNeverShrink and StreaksStayShort: the delays of an outage, from   *)
(* what the powers of two are, which is proved by induction.               *)
(***************************************************************************)
EXTENDS ReconnectPolicy, WellFoundedInduction, TLAPS

-----------------------------------------------------------------------------
(* Powers of two *)

\* A set of naturals that is not empty has a least element.
LEMMA Least ==
  ASSUME NEW T \in SUBSET Nat, T # {}
  PROVE  \E x \in T : \A y \in T : x <= y
<1>1. \E x \in T : \A y \in T : ~(<<y, x>> \in OpToRel(<, Nat))
  BY NatLessThanWellFounded, WFMin
<1>2. \A x, y \in Nat : ~(<<y, x>> \in OpToRel(<, Nat)) => x <= y
  BY DEF OpToRel
<1> QED BY <1>1, <1>2

\* A set of naturals that holds 0 and the successor of each of its elements holds them all.  Stated of
\* sets, induction needs no operator as parameter.
LEMMA Induction ==
  ASSUME NEW T \in SUBSET Nat, 0 \in T, \A n \in T : n + 1 \in T
  PROVE T = Nat
<1> SUFFICES ASSUME Nat \ T # {} PROVE FALSE
  OBVIOUS
<1>1. PICK x \in Nat \ T : \A y \in Nat \ T : x <= y
  BY Least, Nat \ T \in SUBSET Nat
<1> QED BY <1>1, x - 1 \in Nat

\* f holds the first n powers of two.
Doubles(f, n) == f \in [0..n -> Nat \ {0}] /\ f[0] = 1 /\ \A i \in 0..n : i > 0 => f[i] = 2 * f[i - 1]

\* The first n powers of two exist ...
LEMMA DoublesExist == \A n \in Nat : \E f : Doubles(f, n)
<1> DEFINE T == {n \in Nat : \E f : Doubles(f, n)}
<1>1. 0 \in T
  <2>1. Doubles([i \in 0..0 |-> 1], 0)
    BY DEF Doubles
  <2> QED BY <2>1
<1>2. ASSUME NEW n \in T PROVE n + 1 \in T
  <2>1. PICK f : Doubles(f, n)
    OBVIOUS
  <2> DEFINE g == [i \in 0..(n + 1) |-> IF i = n + 1 THEN 2 * f[n] ELSE f[i]]
  <2>2. f[n] \in Nat \ {0}
    BY <2>1 DEF Doubles
  <2>3. g \in [0..(n + 1) -> Nat \ {0}]
    BY <2>1, <2>2 DEF Doubles
  <2>4. ASSUME NEW i \in 0..(n + 1), i > 0 PROVE g[i] = 2 * g[i - 1]
    <3>1. CASE i = n + 1
      BY <3>1
    <3>2. CASE i # n + 1
      BY <3>2, <2>1, <2>4, i \in 0..n, i - 1 \in 0..n DEF Doubles
    <3> QED BY <3>1, <3>2
  <2>5. g[0] = 1
    BY <2>1 DEF Doubles
  <2> HIDE DEF g
  <2>6. Doubles(g, n + 1)
    BY <2>3, <2>4, <2>5 DEF Doubles
  <2> QED BY <2>6
<1>3. T = Nat
  <2> HIDE DEF T
  <2>1. T \in SUBSET Nat BY DEF T
  <2> QED BY <1>1, <1>2, <2>1, Induction
<1> QED BY <1>3

\* ... and are the same, however many more are computed.
LEMMA DoublesAgree ==
  ASSUME NEW n \in Nat, NEW m \in Nat, NEW f, NEW g, Doubles(f, n), Doubles(g, m)
  PROVE  \A i \in Nat : i <= n /\ i <= m => f[i] = g[i]
<1> DEFINE T == {i \in Nat : i <= n /\ i <= m => f[i] = g[i]}
<1>1. 0 \in T
  BY DEF Doubles
<1>2. ASSUME NEW i \in T PROVE i + 1 \in T
  <2> SUFFICES ASSUME i + 1 <= n, i + 1 <= m PROVE f[i + 1] = g[i + 1]
    OBVIOUS
  <2>1. i \in Nat /\ i + 1 \in 0..n /\ i + 1 \in 0..m /\ i + 1 > 0 /\ (i + 1) - 1 = i /\ f[i] = g[i]
    OBVIOUS
  <2> HIDE DEF T
  <2>2. f[i + 1] = 2 * f[i] /\ g[i + 1] = 2 * g[i]
    BY <2>1 DEF Doubles
  <2> QED BY <2>1, <2>2
<1>3. T = Nat
  <2> HIDE DEF T
  <2>1. T \in SUBSET Nat BY DEF T
  <2> QED BY <1>1, <1>2, <2>1, Induction
<1> QED BY <1>3

\* The recursive definition of the powers of two means what it says (Math.pow(2, attempts)).
LEMMA Powers ==
  /\ PowerOfTwo[0] = 1
  /\ \A k \in Nat : PowerOfTwo[k] \in Nat \ {0} /\ PowerOfTwo[k + 1] = 2 * PowerOfTwo[k]
<1> DEFINE G(k) == CHOOSE f : Doubles(f, k)
           p == [k \in Nat |-> G(k)[k]]
<1>1. \A k \in Nat : Doubles(G(k), k)
  BY DoublesExist
<1> HIDE DEF G
<1>2. \A k \in Nat : p[k] \in Nat \ {0}
  BY <1>1 DEF Doubles
<1>3. p[0] = 1
  BY <1>1 DEF Doubles
<1>4. \A k \in Nat : p[k + 1] = 2 * p[k]
  <2> TAKE k \in Nat
  <2>1. G(k + 1)[k + 1] = 2 * G(k + 1)[k]
    BY <1>1, k + 1 \in Nat DEF Doubles
  <2>2. G(k + 1)[k] = G(k)[k]
    BY <1>1, DoublesAgree, k + 1 \in Nat
  <2> QED BY <2>1, <2>2
<1>5. p = [k \in Nat |-> IF k = 0 THEN 1 ELSE 2 * p[k - 1]]
  <2>1. \A k \in Nat : p[k] = IF k = 0 THEN 1 ELSE 2 * p[k - 1]
    <3> TAKE k \in Nat
    <3>1. CASE k = 0 BY <3>1, <1>3
    <3>2. CASE k # 0 BY <3>2, <1>4, k - 1 \in Nat, (k - 1) + 1 = k
    <3> QED BY <3>1, <3>2
  <2> HIDE DEF p
  <2>2. p = [k \in Nat |-> p[k]]
    BY DEF p
  <2> QED BY <2>1, <2>2
<1> HIDE DEF p
<1>6. PowerOfTwo = [k \in Nat |-> IF k = 0 THEN 1 ELSE 2 * PowerOfTwo[k - 1]]
  BY <1>5, Zenon DEF PowerOfTwo
<1>7. PowerOfTwo[0] = 1 /\ \A k \in Nat : k # 0 => PowerOfTwo[k] = 2 * PowerOfTwo[k - 1]
  BY <1>6
<1>8. \A k \in Nat : PowerOfTwo[k + 1] = 2 * PowerOfTwo[k]
  <2> TAKE k \in Nat
  <2> QED BY <1>7, k + 1 \in Nat, k + 1 # 0, (k + 1) - 1 = k
<1> DEFINE T == {k \in Nat : PowerOfTwo[k] \in Nat \ {0}}
<1>9. 0 \in T BY <1>7
<1>10. ASSUME NEW k \in T PROVE k + 1 \in T
  BY <1>8
<1>11. T = Nat
  <2> HIDE DEF T
  <2>1. T \in SUBSET Nat BY DEF T
  <2> QED BY <1>9, <1>10, <2>1, Induction
<1> QED BY <1>7, <1>8, <1>11

-----------------------------------------------------------------------------
(* The budget *)

\* NotGivenUpEarly alone is not inductive: the streak that decideReconnect compares with the budget
\* must be known never to exceed the attempts of the outage, which neither reset can break.
StreakInOutage ==
  /\ maxAttempts \in 0..Unlimited
  /\ attempts \in Nat /\ outage \in Nat
  /\ attempts <= outage
  /\ NotGivenUpEarly

\* The coercion of any stored value of maxReconnectAttempts is a number of attempts or no limit
\* (resolveReconnectConfig).
LEMMA MaxAttemptsCoerced ==
  ASSUME NEW raw \in RawAttempts
  PROVE MaxAttemptsOf(raw) \in 0..Unlimited
BY PolicyAssumption DEF MaxAttemptsOf, Clamp, Unlimited, AttemptsCap

\* A decision gives up only on a streak that is spent, and the streak it counts never exceeds the
\* attempts of this outage, whether or not the stability window restarts it (decideReconnect).
LEMMA DecideInOutage ==
  ASSUME StreakInOutage, NEW since, Decide(since), UNCHANGED config
  PROVE StreakInOutage'
<1> DEFINE streak == Streak(since)
<1>1. streak \in Nat /\ streak <= outage
  BY DEF StreakInOutage, Streak
<1>2. CASE Spent(streak) /\ link' = "failed" /\ attempts' = streak /\ UNCHANGED outage
  BY <1>1, <1>2 DEF StreakInOutage, NotGivenUpEarly, Spent, config
<1>3. CASE link' = "waiting" /\ attempts' = streak + 1 /\ outage' = outage + 1
  BY <1>1, <1>3 DEF StreakInOutage, NotGivenUpEarly, config
<1> QED
  BY <1>2, <1>3, Zenon DEF Decide

\* A session reads FAILED only after its whole budget of attempts failed in one outage, whatever the
\* stored configuration and however long its links stay up (decideReconnect, handleEngineReady).
THEOREM GivenUpOnlyWhenSpent == Spec => []NotGivenUpEarly
<1>1. Init => StreakInOutage
  BY MaxAttemptsCoerced DEF Init, StreakInOutage, NotGivenUpEarly
<1>2. StreakInOutage /\ [Next]_vars => StreakInOutage'
  <2> SUFFICES ASSUME StreakInOutage, [Next]_vars PROVE StreakInOutage'
    OBVIOUS
  <2>1. CASE LinkLost
    BY <2>1, DecideInOutage DEF LinkLost
  <2>2. CASE AttemptFails
    BY <2>2, DecideInOutage DEF AttemptFails
  <2>3. CASE AttemptSucceeds
    BY <2>3 DEF AttemptSucceeds, AttemptsReset, StreakInOutage, NotGivenUpEarly, config
  <2>4. CASE Restart
    BY <2>4 DEF Restart, StreakInOutage, NotGivenUpEarly, config
  <2>5. CASE UNCHANGED vars
    BY <2>5 DEF vars, StreakInOutage, NotGivenUpEarly
  <2> QED
    BY <2>1, <2>2, <2>3, <2>4, <2>5 DEF Next
<1>3. StreakInOutage => NotGivenUpEarly
  BY DEF StreakInOutage
<1> QED
  BY <1>1, <1>2, <1>3, PTL DEF Spec

\* Any stored value of reconnectBaseDelay gives a base delay within its clamps, and any streak and
\* jitter a delay between zero and an hour (clampNumber, clampReconnectDelay).
LEMMA DelaysCoerced ==
  /\ \A raw \in RawDelays : BaseDelayOf(raw) \in DelayMin..DelayMax
  /\ \A streak \in Nat : baseDelay \in DelayMin..DelayMax => Backoff(streak) \subseteq 0..DelayCap
<1>1. ASSUME NEW raw \in RawDelays PROVE BaseDelayOf(raw) \in DelayMin..DelayMax
  BY PolicyAssumption DEF BaseDelayOf, Clamp, DelayMin, DelayMax
<1>2. ASSUME NEW streak \in Nat, baseDelay \in DelayMin..DelayMax
      PROVE Backoff(streak) \subseteq 0..DelayCap
  <2>1. \A jitter \in 0..1 : baseDelay * PowerOfTwo[streak] + jitter \in Int
    BY <1>2, Powers DEF DelayMin, DelayMax
  <2>2. \A v \in Int : Clamp(v, 0, DelayCap) \in 0..DelayCap
    BY DEF Clamp, DelayCap
  <2>3. baseDelay \in 0..DelayCap
    BY <1>2 DEF DelayMin, DelayMax, DelayCap
  <2> QED
    BY <2>1, <2>2, <2>3, Zenon DEF Backoff
<1> QED
  BY <1>1, <1>2

\* A decision keeps the types: the streak it stores stays within a limited budget, and the delay it
\* schedules is clamped (decideReconnect).
LEMMA DecideTypes ==
  ASSUME TypeOK, NEW since \in Nat, Decide(since), UNCHANGED config
  PROVE TypeOK'
<1> DEFINE streak == Streak(since)
<1>1. streak \in Nat /\ streak <= attempts
  BY DEF TypeOK, Streak
<1>2. CASE Spent(streak) /\ link' = "failed" /\ attempts' = streak /\ delay' = 0 /\ UNCHANGED <<elapsed, outage, alerts>>
  BY <1>1, <1>2 DEF TypeOK, config, DelayCap, Unlimited, AttemptsCap
<1>3. CASE /\ ~Spent(streak) /\ link' = "waiting" /\ attempts' = streak + 1 /\ elapsed' = 0
           /\ delay' \in Backoff(streak)
           /\ outage' = outage + 1
           /\ alerts' = IF AlertDue(streak + 1) THEN alerts + 1 ELSE alerts
  <2>1. delay' \in 0..DelayCap
    BY <1>1, <1>3, DelaysCoerced DEF TypeOK
  <2>2. attempts' \in Nat /\ (maxAttempts # Unlimited => attempts' <= maxAttempts)
    BY <1>1, <1>3 DEF TypeOK, Spent, Unlimited, AttemptsCap
  <2> QED
    BY <1>3, <2>1, <2>2 DEF TypeOK, config
<1> QED
  BY <1>2, <1>3, Zenon DEF Decide

\* The coerced configuration has its types.
LEMMA TypesInit == Init => TypeOK
BY MaxAttemptsCoerced, DelaysCoerced DEF Init, TypeOK, DelayCap

\* Every step keeps the types.
LEMMA TypesStep ==
  ASSUME TypeOK, [Next]_vars
  PROVE  TypeOK'
<1>1. CASE LinkLost
  <2>1. PICK uptime \in Uptimes : Decide(elapsed + uptime)
    BY <1>1 DEF LinkLost
  <2>2. elapsed + uptime \in Nat
    BY PolicyAssumption DEF TypeOK
  <2> QED
    BY <1>1, <2>1, <2>2, DecideTypes DEF LinkLost
<1>2. CASE AttemptFails
  <2>1. PICK lag \in Lags : Decide(delay + lag)
    BY <1>2 DEF AttemptFails
  <2>2. delay + lag \in Nat
    BY PolicyAssumption DEF TypeOK, DelayCap
  <2> QED
    BY <1>2, <2>1, <2>2, DecideTypes DEF AttemptFails
<1>3. CASE AttemptSucceeds
  BY <1>3, PolicyAssumption DEF AttemptSucceeds, AttemptsReset, TypeOK, config, DelayCap, Unlimited, AttemptsCap
<1>4. CASE Restart
  BY <1>4 DEF Restart, TypeOK, config, DelayCap, Unlimited, AttemptsCap
<1>5. CASE UNCHANGED vars
  BY <1>5 DEF vars, TypeOK
<1> QED
  BY <1>1, <1>2, <1>3, <1>4, <1>5 DEF Next

\* Whatever is stored as a session's retry settings, the budget, the base delay, every scheduled
\* delay and every streak stay finite, non-negative and within their clamps (resolveReconnectConfig).
THEOREM PolicyTypes == Spec => []TypeOK
<1>1. TypeOK /\ [Next]_vars => TypeOK'
  BY TypesStep
<1> QED
  BY TypesInit, <1>1, PTL DEF Spec

-----------------------------------------------------------------------------
(* The delays of one outage *)

\* The stability window counts from when an attempt was scheduled, so it ends every streak whose delay
\* has outgrown it: a streak has ten attempts at most, no delay reaches the hour of its cap, no product
\* overflows, and a budget of ten or more is never spent (decideReconnect, "the delay parks at ...").
LongestStreak == 10
WindowEndsStreaks ==
  /\ attempts <= LongestStreak /\ delay < 2 * StabilityReset
  /\ maxAttempts >= LongestStreak => link # "failed"

\* While an attempt is pending, its delay is the one for the streak before it.
Doubling == link = "waiting" => attempts # 0 /\ delay \in Backoff(attempts - 1)
StreakInv == TypeOK /\ Doubling /\ WindowEndsStreaks /\ (link = "up" => attempts = 0)

\* The delay of a streak that is short is the base delay doubled as often, with at most a second of
\* jitter, up to an hour (decideReconnect).
LEMMA ShortBackoff ==
  ASSUME NEW k \in 0..LongestStreak, baseDelay \in DelayMin..DelayMax
  PROVE  \A d \in Backoff(k) :
           LET raw == baseDelay * PowerOfTwo[k] IN
           \/ raw >= DelayCap - 1 /\ d \in (DelayCap - 1)..DelayCap
           \/ raw < DelayCap - 1 /\ d \in raw..(raw + 1)
<1>1. k \in Nat /\ k < Overflow
  BY DEF LongestStreak, Overflow
<1>2. baseDelay * PowerOfTwo[k] \in Nat
  BY <1>1, Powers DEF DelayMin, DelayMax
<1>3. \A d \in Backoff(k) : \E jitter \in 0..1 : d = Clamp(baseDelay * PowerOfTwo[k] + jitter, 0, DelayCap)
  BY <1>1 DEF Backoff
<1> DEFINE raw == baseDelay * PowerOfTwo[k]
<1> HIDE DEF raw
<1>4. \A jitter \in 0..1 :
        LET d == Clamp(raw + jitter, 0, DelayCap) IN
        \/ raw >= DelayCap - 1 /\ d \in (DelayCap - 1)..DelayCap
        \/ raw < DelayCap - 1 /\ d \in raw..(raw + 1)
  <2>1. raw \in Nat
    BY <1>2 DEF raw
  <2> QED
    BY <2>1 DEF Clamp, DelayCap
<1> QED
  BY <1>3, <1>4, Zenon DEF raw

\* Ten doublings of the smallest base delay are past the stability window.
LEMMA TenDoublings == PowerOfTwo[9] = 512
<1> DEFINE P(k) == PowerOfTwo[k]
<1>1. P(0) = 1 /\ \A k \in 0..8 : P(k + 1) = 2 * P(k)
  BY Powers
<1> HIDE DEF P
<1>2. /\ P(1) = 2 * P(0) /\ P(2) = 2 * P(1) /\ P(3) = 2 * P(2)
      /\ P(4) = 2 * P(3) /\ P(5) = 2 * P(4) /\ P(6) = 2 * P(5)
      /\ P(7) = 2 * P(6) /\ P(8) = 2 * P(7) /\ P(9) = 2 * P(8)
  BY <1>1
<1>3. P(9) = 512
  BY <1>1, <1>2
<1> QED
  BY <1>3 DEF P

\* A pending attempt that fails within the stability window has a delay below it, so its streak has
\* not reached the tenth attempt; the next delay is its double, give or take the jitter.
LEMMA NextDelay ==
  ASSUME StreakInv, link = "waiting", delay < StabilityReset
  PROVE  /\ attempts < LongestStreak
         /\ \A d \in Backoff(attempts) : d >= delay /\ d < 2 * StabilityReset
<1> DEFINE k == attempts - 1
           raw == baseDelay * PowerOfTwo[k]
<1>1. k \in Nat /\ k \in 0..LongestStreak /\ k + 1 = attempts /\ k + 1 \in 0..LongestStreak /\ k <= 9
  BY DEF StreakInv, Doubling, WindowEndsStreaks, TypeOK, LongestStreak
<1>2. baseDelay \in DelayMin..DelayMax /\ delay \in Backoff(k)
  BY DEF StreakInv, Doubling, TypeOK
<1>3. PowerOfTwo[k] \in Nat \ {0} /\ PowerOfTwo[k + 1] = 2 * PowerOfTwo[k]
  BY <1>1, Powers
<1>4. raw \in Nat /\ raw >= 1 /\ raw >= PowerOfTwo[k] /\ baseDelay * PowerOfTwo[k + 1] = 2 * raw
  BY <1>2, <1>3 DEF DelayMin, DelayMax
<1>5. raw < StabilityReset /\ delay \in raw..(raw + 1)
  <2> HIDE DEF raw
  <2>1. \/ raw >= DelayCap - 1 /\ delay \in (DelayCap - 1)..DelayCap
        \/ raw < DelayCap - 1 /\ delay \in raw..(raw + 1)
    BY <1>1, <1>2, ShortBackoff DEF raw
  <2> QED
    BY <2>1, <1>4 DEF DelayCap, StabilityReset
<1>6. k < 9
  <2>1. k # 9
    BY <1>4, <1>5, TenDoublings DEF StabilityReset
  <2> QED
    BY <1>1, <2>1
<1>7. ASSUME NEW d \in Backoff(k + 1)
      PROVE  d >= delay /\ d < 2 * StabilityReset
  <2> HIDE DEF raw
  <2> DEFINE twice == baseDelay * PowerOfTwo[k + 1]
  <2>1. twice = 2 * raw
    BY <1>4
  <2>2. \/ twice >= DelayCap - 1 /\ d \in (DelayCap - 1)..DelayCap
        \/ twice < DelayCap - 1 /\ d \in twice..(twice + 1)
    BY <1>1, <1>2, <1>7, ShortBackoff
  <2> HIDE DEF twice
  <2> QED
    BY <2>1, <2>2, <1>4, <1>5 DEF DelayCap, StabilityReset
<1> QED
  BY <1>1, <1>6, <1>7 DEF LongestStreak

\* A decision keeps the invariant, and within the window its delay is no shorter than the last.
LEMMA DecideDelay ==
  ASSUME StreakInv, NEW since \in Nat, link = "up" \/ (link = "waiting" /\ since >= delay),
         Decide(since), UNCHANGED config
  PROVE  /\ Doubling' /\ WindowEndsStreaks' /\ link' # "up"
         /\ link = "waiting" /\ link' = "waiting" /\ since < StabilityReset => delay' >= delay
<1> DEFINE streak == Streak(since)
<1>0. /\ link = "waiting" /\ since < StabilityReset => delay < StabilityReset
      /\ link = "up" => attempts = 0
  BY DEF StreakInv, WindowEndsStreaks, TypeOK, DelayCap, StabilityReset
<1>1. streak \in Nat /\ streak <= attempts /\ (streak = 0 \/ (streak = attempts /\ since < StabilityReset))
  BY DEF Streak, StreakInv, TypeOK, StabilityReset
<1>2. streak < LongestStreak /\ \A d \in Backoff(streak) : d < 2 * StabilityReset
  <2>1. CASE streak = 0
    <3>1. baseDelay \in DelayMin..DelayMax /\ 0 \in 0..LongestStreak
      BY DEF StreakInv, TypeOK, LongestStreak
    <3>2. baseDelay * PowerOfTwo[0] = baseDelay
      BY <3>1, Powers DEF DelayMin, DelayMax
    <3>3. \A d \in Backoff(0) : d < 2 * StabilityReset
      BY <3>1, <3>2, ShortBackoff DEF DelayMin, DelayMax, DelayCap, StabilityReset
    <3> QED
      BY <2>1, <3>3 DEF LongestStreak
  <2>2. CASE streak # 0
    <3>1. streak = attempts /\ link = "waiting" /\ delay < StabilityReset
      BY <1>1, <2>2, <1>0
    <3> QED
      BY <3>1, NextDelay
  <2> QED
    BY <2>1, <2>2
<1>3. link = "waiting" /\ since < StabilityReset => \A d \in Backoff(streak) : d >= delay
  <2> SUFFICES ASSUME link = "waiting", since < StabilityReset PROVE \A d \in Backoff(streak) : d >= delay
    OBVIOUS
  <2>1. streak = attempts
    BY DEF Streak, StabilityReset
  <2>2. delay < StabilityReset
    BY DEF StreakInv, TypeOK, DelayCap, StabilityReset
  <2> QED
    BY <2>1, <2>2, NextDelay
<1>4. CASE Spent(streak) /\ link' = "failed" /\ attempts' = streak /\ delay' = 0
  BY <1>1, <1>2, <1>4 DEF Doubling, WindowEndsStreaks, Spent, config, LongestStreak, StabilityReset, StreakInv, TypeOK, Unlimited, AttemptsCap
<1>5. CASE link' = "waiting" /\ attempts' = streak + 1 /\ delay' \in Backoff(streak)
  <2>1. baseDelay' = baseDelay /\ maxAttempts' = maxAttempts
    BY DEF config
  <2>3. attempts' # 0 /\ attempts' - 1 = streak /\ attempts' <= LongestStreak /\ delay' < 2 * StabilityReset
    BY <1>1, <1>2, <1>5 DEF LongestStreak
  <2>4. delay' \in Backoff(attempts - 1)'
    BY <1>5, <2>1, <2>3, Zenon DEF Backoff
  <2> QED
    BY <1>3, <1>5, <2>1, <2>3, <2>4 DEF Doubling, WindowEndsStreaks
<1> QED
  BY <1>4, <1>5, Zenon DEF Decide

\* StreakInv is inductive, and every step that schedules an attempt after another keeps its pace.
LEMMA StreakStep ==
  ASSUME StreakInv, [Next]_vars
  PROVE  /\ StreakInv'
         /\ link = "waiting" /\ link' = "waiting" /\ (\A lag \in Lags : delay + lag < StabilityReset)
              => delay' >= delay
<1>1. TypeOK'
  BY TypesStep DEF StreakInv
<1>2. CASE LinkLost
  <2>1. PICK uptime \in Uptimes : Decide(elapsed + uptime)
    BY <1>2 DEF LinkLost
  <2>2. elapsed + uptime \in Nat /\ link = "up" /\ UNCHANGED config
    BY <1>2, PolicyAssumption DEF LinkLost, StreakInv, TypeOK
  <2> QED
    BY <1>1, <2>1, <2>2, DecideDelay DEF StreakInv
<1>3. CASE AttemptFails
  <2>1. PICK lag \in Lags : Decide(delay + lag)
    BY <1>3 DEF AttemptFails
  <2>2. delay + lag \in Nat /\ delay + lag >= delay /\ link = "waiting" /\ UNCHANGED config
    BY <1>3, PolicyAssumption DEF AttemptFails, StreakInv, TypeOK, DelayCap
  <2> QED
    BY <1>1, <2>1, <2>2, DecideDelay DEF StreakInv
<1>4. CASE AttemptSucceeds \/ Restart
  BY <1>1, <1>4 DEF AttemptSucceeds, AttemptsReset, Restart, StreakInv, Doubling, WindowEndsStreaks, config,
     LongestStreak, StabilityReset
<1>5. CASE UNCHANGED vars
  <2>1. UNCHANGED <<link, attempts, delay, maxAttempts, baseDelay>>
    BY <1>5 DEF vars
  <2>2. delay \in Nat
    BY DEF StreakInv, TypeOK, DelayCap
  <2> QED
    BY <1>1, <2>1, <2>2 DEF StreakInv, Doubling, WindowEndsStreaks, Backoff
<1> QED
  BY <1>2, <1>3, <1>4, <1>5 DEF Next

\* The first state has made no attempt.
LEMMA StreakInit == Init => StreakInv
<1>1. Init => TypeOK
  BY TypesInit
<1> QED
  BY <1>1, MaxAttemptsCoerced DEF Init, StreakInv, Doubling, WindowEndsStreaks, LongestStreak, StabilityReset

\* Within an outage the delays never shrink, for every stored configuration and whatever the times of
\* the attempts, until the stability window has passed (decideReconnect, clampReconnectDelay).
THEOREM DelaysNeverShrink == Spec => NeverFaster
<1>1. StreakInv /\ [Next]_vars
        => StreakInv' /\ [link = "waiting" /\ link' = "waiting" /\ (\A lag \in Lags : delay + lag < StabilityReset)
                            => delay' >= delay]_vars
  BY StreakStep
<1> QED
  BY <1>1, StreakInit, PTL DEF Spec, NeverFaster

\* The window ends every streak long before the delay is parked at its cap, the exponent overflows or
\* a budget of ten attempts is spent, for every stored configuration (decideReconnect).
THEOREM StreaksStayShort == Spec => []WindowEndsStreaks
<1>1. StreakInv /\ [Next]_vars => StreakInv'
  BY StreakStep
<1>2. StreakInv => WindowEndsStreaks
  BY DEF StreakInv
<1> QED
  BY <1>1, <1>2, StreakInit, PTL DEF Spec
=============================================================================
