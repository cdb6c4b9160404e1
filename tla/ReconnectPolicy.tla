---------------------------- MODULE ReconnectPolicy ----------------------------
(***************************************************************************)
(* The reconnect backoff of one session of the OpenWA gateway: the pure    *)
(* policy of reconnect-policy.ts, the coercion of session.config that      *)
(* feeds it, and the two callers that drive it over time (a lost link and  *)
(* a failed attempt).  Times are in seconds; the clock is only visible     *)
(* through the time elapsed since the last attempt was scheduled.          *)
(***************************************************************************)
EXTENDS Integers

CONSTANTS
  RawAttempts,  \* values session.config.maxReconnectAttempts may hold; NotANumber: absent or junk
  RawDelays,    \* values session.config.reconnectBaseDelay may hold
  NotANumber,
  Uptimes,      \* how long a link may stay up
  Lags,         \* how long after its timer an attempt may fail or succeed
  MaxOutage     \* bound: the attempts explored in one outage

DelayMin == 1
DelayMax == 300
AttemptsCap == 20
StabilityReset == 300
DelayCap == 3600
Overflow == 1006               \* from this streak on baseDelay * 2^streak need not be a finite double
AlertInterval == 5
Unlimited == AttemptsCap + 1   \* stands for Infinity: no streak reaches it as a limit

ASSUME PolicyAssumption ==
  /\ NotANumber \notin Int
  /\ RawAttempts \subseteq Int \cup {NotANumber} /\ RawDelays \subseteq Int \cup {NotANumber}
  /\ Uptimes \subseteq Nat /\ Lags \subseteq Nat /\ MaxOutage \in Nat

VARIABLES
  maxAttempts, baseDelay, \* the coerced configuration
  attempts,   \* ReconnectState.attempts
  link,       \* "up", "waiting" for the timer, or "failed" for good
  delay,      \* the delay of the pending attempt
  elapsed,    \* time since the last attempt was scheduled, when the link came up
  outage,     \* attempts scheduled since the link was last up
  alerts      \* loop alerts raised since the link was last up

vars == <<maxAttempts, baseDelay, attempts, link, delay, elapsed, outage, alerts>>
config == <<maxAttempts, baseDelay>>

Clamp(v, lo, hi) == IF v < lo THEN lo ELSE IF v > hi THEN hi ELSE v
MaxAttemptsOf(raw) == IF raw = NotANumber THEN Unlimited ELSE Clamp(raw, 0, AttemptsCap)
BaseDelayOf(raw) == IF raw = NotANumber THEN 5 ELSE Clamp(raw, DelayMin, DelayMax)

TypeOK ==
  /\ maxAttempts \in 0..Unlimited /\ baseDelay \in DelayMin..DelayMax
  /\ attempts \in Nat /\ (maxAttempts # Unlimited => attempts <= maxAttempts)
  /\ elapsed \in Nat /\ outage \in Nat /\ alerts \in Nat
  /\ link \in {"up", "waiting", "failed"}
  /\ delay \in 0..DelayCap

Init ==
  /\ \E raw \in RawAttempts : maxAttempts = MaxAttemptsOf(raw)
  /\ \E raw \in RawDelays : baseDelay = BaseDelayOf(raw)
  /\ attempts = 0 /\ link = "up" /\ delay = 0 /\ elapsed = 0 /\ outage = 0 /\ alerts = 0

-----------------------------------------------------------------------------
\* The streak counted from when `since' seconds have passed since the last attempt.
StreakForgetful(since) == IF since >= StabilityReset \div 2 THEN 0 ELSE attempts
Streak(since) == IF since >= StabilityReset THEN 0 ELSE attempts

SpentLate(streak) == maxAttempts # Unlimited /\ streak > maxAttempts
Spent(streak) == maxAttempts # Unlimited /\ streak >= maxAttempts

PowerOfTwo[k \in Nat] == IF k = 0 THEN 1 ELSE 2 * PowerOfTwo[k - 1]

\* The delays for a streak, by the jitter.  A product that is not finite is replaced by the base delay.
Backoff(streak) ==
  {Clamp(baseDelay * PowerOfTwo[streak] + jitter, 0, DelayCap) : jitter \in 0..1}
  \cup (IF streak < Overflow THEN {} ELSE {baseDelay})

AlertDue(n) == n % AlertInterval = 0

\* decideReconnect: give up, or schedule the next attempt of the streak.
Decide(since) ==
  LET streak == Streak(since) IN
  \/ /\ Spent(streak)
     /\ link' = "failed" /\ attempts' = streak /\ delay' = 0
     /\ UNCHANGED <<elapsed, outage, alerts>>
  \/ /\ ~Spent(streak)
     /\ link' = "waiting" /\ attempts' = streak + 1 /\ elapsed' = 0
     /\ delay' \in Backoff(streak)
     /\ outage' = outage + 1
     /\ alerts' = IF AlertDue(streak + 1) THEN alerts + 1 ELSE alerts

\* handleEngineDisconnected, after the link was up for a while.
LinkLost ==
  /\ link = "up"
  /\ \E uptime \in Uptimes : Decide(elapsed + uptime)
  /\ UNCHANGED config

\* The timer fired and the attempt failed: executeReconnect's catch, or its engine disconnected
\* before it was ever ready.
AttemptFails ==
  /\ link = "waiting" /\ outage < MaxOutage
  /\ \E lag \in Lags : Decide(delay + lag)
  /\ UNCHANGED config

\* handleEngineReady
AttemptsKept == UNCHANGED attempts
AttemptsReset == attempts' = 0
AttemptSucceeds ==
  /\ link = "waiting"
  /\ link' = "up" /\ AttemptsReset
  /\ \E lag \in Lags : elapsed' = delay + lag
  /\ delay' = 0 /\ outage' = 0 /\ alerts' = 0
  /\ UNCHANGED config

\* A manual start() of a failed session: a fresh ReconnectState.
Restart ==
  /\ link = "failed"
  /\ link' = "up" /\ attempts' = 0 /\ elapsed' = 0
  /\ delay' = 0 /\ outage' = 0 /\ alerts' = 0
  /\ UNCHANGED config

Next == LinkLost \/ AttemptFails \/ AttemptSucceeds \/ Restart
Spec == Init /\ [][Next]_vars

-----------------------------------------------------------------------------
(* Properties *)

\* A session is not given up early: it reads FAILED only after its whole budget of attempts failed
\* in this outage; earlier outages it recovered from do not count against it (the attempts reset of
\* handleEngineReady, and the stability reset of decideReconnect).
NotGivenUpEarly == link = "failed" => outage >= maxAttempts

\* Within an outage the attempts never speed up: after a pending attempt fails, the next delay is at
\* least the one before, unless the stability window has passed since that attempt was scheduled.
NeverFaster ==
  [][link = "waiting" /\ link' = "waiting" /\ (\A lag \in Lags : delay + lag < StabilityReset)
       => delay' >= delay]_vars
=============================================================================
