--------------------------- MODULE MainTask_proofs ---------------------------
(***************************************************************************)
(* Theorems about the main task of MainTask.tla, for every tick count,     *)
(* period, confirmation delay and lateness that satisfy its assumption.    *)
(***************************************************************************)
EXTENDS MainTask, SequenceTheorems, TLAPS

Level == {0, 1}

(* samples counts the latest samples that agree with the candidate.        *)
SeenInv ==
  /\ seen \in Seq(Level) /\ Len(seen) <= 4
  /\ samples \in 0 .. 4 /\ samples <= Len(seen)
  /\ candidate \in {Unknown, 0, 1} /\ termination \in {Unknown, 0, 1}
  /\ Len(seen) > 0 \/ candidate # Unknown => samples > 0
  /\ \A k \in 1 .. samples : seen[k] = candidate
  /\ samples < Len(seen) => seen[samples + 1] # candidate
  /\ samples = 4 => termination = candidate

(* The tick count has not wrapped before the confirmation.                 *)
ConfirmInv ==
  /\ elapsed \in 0 .. ConfirmDelay /\ confirmed \in BOOLEAN
  /\ elapsed < ConfirmDelay => now = elapsed /\ ~confirmed /\ confirms = 0
  /\ elapsed = ConfirmDelay => confirmed /\ confirms = 1

(* The blink is due when Period ticks have passed since the last one.      *)
BlinkInv ==
  /\ now \in 0 .. (Ticks - 1) /\ sinceBlink \in 0 .. Period
  /\ heartbeat = (now + (Period - sinceBlink)) % Ticks

Inv == input \in Level /\ SeenInv /\ ConfirmInv /\ BlinkInv

----------------------------------------------------------------------------
(* The tick count.                                                         *)

(* A sum of two tick counts wraps at most once.                            *)
LEMMA Wrap ==
  ASSUME NEW a \in Nat, a < 2 * Ticks
  PROVE  a % Ticks = IF a < Ticks THEN a ELSE a - Ticks
<1>1. Ticks \in Nat /\ Ticks > 0
  BY TimeAssumption
<1>2. CASE a < Ticks
  BY <1>1, <1>2
<1>3. CASE ~(a < Ticks)
  <2>1. a - Ticks \in 0 .. (Ticks - 1)
    BY <1>1, <1>3
  <2> QED BY <1>1, <1>3, <2>1
<1> QED BY <1>2, <1>3

(* The signed comparison finds the blink due when its time has come,       *)
(* wherever the tick count stands.                                         *)
LEMMA DueAfterPeriod ==
  ASSUME BlinkInv, NEW passed \in Turn .. (Turn + Late)
  PROVE  Due((now + passed) % Ticks) = (sinceBlink + passed >= Period)
<1> DEFINE rest == Period - sinceBlink
           t == (now + passed) % Ticks
           gap == t - heartbeat + Ticks
<1>1. /\ Ticks \in Nat /\ Turn \in Nat \ {0} /\ Late \in Nat /\ passed \in Nat
      /\ Period \in Nat \ {0} /\ 2 * (Period + Turn + Late) < Ticks
      /\ passed <= Turn + Late /\ now \in Nat /\ now < Ticks
      /\ rest \in Nat /\ rest <= Period /\ sinceBlink \in Nat
  BY TimeAssumption DEF BlinkInv
<1>2. t = IF now + passed < Ticks THEN now + passed ELSE now + passed - Ticks
  <2>1. now + passed \in Nat /\ now + passed < 2 * Ticks
    BY <1>1
  <2> QED BY <1>1, <2>1, Wrap
<1>3. heartbeat = IF now + rest < Ticks THEN now + rest ELSE now + rest - Ticks
  <2>1. now + rest \in Nat /\ now + rest < 2 * Ticks
    BY <1>1
  <2> QED BY <1>1, <2>1, Wrap DEF BlinkInv
<1>4. heartbeat \in Nat /\ t \in Nat /\ heartbeat < Ticks /\ t < Ticks
  BY <1>1, <1>2, <1>3
<1>5. gap \in Nat /\ gap < 2 * Ticks
  BY <1>1, <1>4
<1>6. gap % Ticks = IF gap < Ticks THEN gap ELSE gap - Ticks
  BY <1>5, Wrap
<1> HIDE DEF t
<1>7. gap % Ticks = IF passed >= rest THEN passed - rest ELSE passed - rest + Ticks
  <2>1. CASE now + passed < Ticks /\ now + rest < Ticks
    BY <1>1, <1>2, <1>3, <1>6, <2>1
  <2>2. CASE now + passed < Ticks /\ ~(now + rest < Ticks)
    BY <1>1, <1>2, <1>3, <1>6, <2>2
  <2>3. CASE ~(now + passed < Ticks) /\ now + rest < Ticks
    BY <1>1, <1>2, <1>3, <1>6, <2>3
  <2>4. CASE ~(now + passed < Ticks) /\ ~(now + rest < Ticks)
    BY <1>1, <1>2, <1>3, <1>6, <2>4
  <2> QED BY <2>1, <2>2, <2>3, <2>4
<1>8. Due(t) = (gap % Ticks < Ticks \div 2)
  BY DEF Due
<1>9. CASE passed >= rest
  <2>1. passed - rest < Ticks \div 2
    BY <1>1
  <2> QED BY <1>1, <1>7, <1>8, <1>9, <2>1 DEF t
<1>10. CASE ~(passed >= rest)
  <2>1. ~(passed - rest + Ticks < Ticks \div 2)
    BY <1>1
  <2> QED BY <1>1, <1>7, <1>8, <1>10, <2>1 DEF t
<1> QED BY <1>9, <1>10

(* A turn, and the ticks between it and the one before.                    *)
LEMMA TurnTime ==
  ASSUME now \in 0 .. (Ticks - 1), NEW passed \in Turn .. (Turn + Late), Turns(passed)
  PROVE  /\ now' = IF now + passed < Ticks THEN now + passed ELSE now + passed - Ticks
         /\ now' \in 0 .. (Ticks - 1)
         /\ (now' - now + Ticks) % Ticks = passed
<1>1. /\ Ticks \in Nat /\ passed \in Nat /\ passed > 0 /\ passed < Ticks
      /\ now \in Nat /\ now < Ticks
  BY TimeAssumption
<1>2. now + passed \in Nat /\ now + passed < 2 * Ticks
  BY <1>1
<1>3. now' = IF now + passed < Ticks THEN now + passed ELSE now + passed - Ticks
  BY <1>1, <1>2, Wrap DEF Turns
<1>4. now' - now + Ticks \in Nat /\ now' - now + Ticks < 2 * Ticks
  BY <1>1, <1>3
<1>5. (now' - now + Ticks) % Ticks =
        IF now' - now + Ticks < Ticks THEN now' - now + Ticks ELSE now' - now
  BY <1>1, <1>3, <1>4, Wrap
<1> QED BY <1>1, <1>3, <1>5

----------------------------------------------------------------------------
(* One lemma for each concern of a turn.                                   *)

(* The history keeps the last four samples, the latest first.              *)
LEMMA SamplePushed ==
  ASSUME input \in Level, seen \in Seq(Level), Len(seen) <= 4, Debounce
  PROVE  /\ seen' \in Seq(Level)
         /\ Len(seen') = IF Len(seen) < 4 THEN Len(seen) + 1 ELSE 4
         /\ seen'[1] = input
         /\ \A k \in 2 .. Len(seen') : seen'[k] = seen[k - 1]
<1> DEFINE n == IF Len(seen) < 4 THEN Len(seen) + 1 ELSE 4
           longer == <<input>> \o seen
<1>1. Len(seen) \in Nat /\ n \in 1 .. 4 /\ n <= Len(seen) + 1
  BY LenProperties
<1>2. <<input>> \in Seq(Level) /\ Len(<<input>>) = 1 /\ <<input>>[1] = input
  OBVIOUS
<1>3. /\ longer \in Seq(Level) /\ Len(longer) = Len(seen) + 1
      /\ \A k \in 1 .. (Len(seen) + 1) :
           longer[k] = IF k <= 1 THEN <<input>>[k] ELSE seen[k - 1]
  <2>1. /\ longer \in Seq(Level) /\ Len(longer) = 1 + Len(seen)
        /\ \A k \in 1 .. (1 + Len(seen)) :
             longer[k] = IF k <= 1 THEN <<input>>[k] ELSE seen[k - 1]
    BY <1>2, ConcatProperties
  <2> QED BY <1>1, <2>1
<1>4. \A k \in 1 .. n : longer[k] \in Level
  BY <1>1, <1>3, ElementOfSeq
<1> HIDE DEF longer, n
<1>5. /\ SubSeq(longer, 1, n) \in Seq(Level)
      /\ Len(SubSeq(longer, 1, n)) = n
      /\ \A k \in 1 .. n : SubSeq(longer, 1, n)[k] = longer[k]
  <2>1. 1 \in Int /\ n \in Int /\ 1 <= n /\ n - 1 + 1 = n
    BY <1>1
  <2>2. \A k \in 1 .. n : 1 + k - 1 = k
    OBVIOUS
  <2> QED BY <1>4, <2>1, <2>2, SubSeqProperties
<1>6. seen' = SubSeq(longer, 1, n)
  BY DEF Debounce, longer, n
<1>7. Len(seen') = n /\ \A k \in 1 .. n : seen'[k] = longer[k]
  BY <1>5, <1>6
<1>8. seen'[1] = input
  BY <1>1, <1>2, <1>3, <1>7
<1>9. \A k \in 2 .. n : seen'[k] = seen[k - 1]
  BY <1>1, <1>3, <1>7
<1> QED BY <1>5, <1>6, <1>7, <1>8, <1>9 DEF n

(* The count goes on with an equal sample and begins again with another.   *)
LEMMA DebounceStep ==
  ASSUME input \in Level, SeenInv, Debounce
  PROVE  SeenInv'
<1>1. /\ seen' \in Seq(Level)
      /\ Len(seen') = IF Len(seen) < 4 THEN Len(seen) + 1 ELSE 4
      /\ seen'[1] = input
      /\ \A k \in 2 .. Len(seen') : seen'[k] = seen[k - 1]
  BY SamplePushed DEF SeenInv
<1>2. Len(seen) \in Nat /\ Len(seen) <= 4 /\ samples \in 0 .. 4 /\ samples <= Len(seen)
  BY LenProperties DEF SeenInv
<1>3. /\ candidate' = input /\ samples' = Samples
      /\ termination' = IF samples' = 4 THEN input ELSE termination
  BY DEF Debounce
<1>4. /\ candidate' \in {Unknown, 0, 1} /\ termination' \in {Unknown, 0, 1}
      /\ samples' = 4 => termination' = candidate'
  BY <1>3 DEF SeenInv, Level
<1>5. CASE input # candidate
  <2>1. samples' = 1
    BY <1>3, <1>5 DEF Samples
  <2>2. 1 < Len(seen') => seen'[2] = seen[1] /\ seen[1] = candidate
    <3>1. ASSUME 1 < Len(seen') PROVE Len(seen) > 0 /\ 2 \in 2 .. Len(seen')
      BY <1>1, <1>2, <3>1
    <3> QED BY <1>1, <1>2, <3>1 DEF SeenInv
  <2> QED BY <1>1, <1>2, <1>3, <1>4, <1>5, <2>1, <2>2 DEF SeenInv
<1>6. CASE input = candidate
  <2>1. samples > 0
    BY <1>6 DEF SeenInv, Level, Unknown
  <2>2. samples' = IF samples < 4 THEN samples + 1 ELSE 4
    BY <1>2, <1>3, <1>6 DEF Samples
  <2>3. samples' \in 1 .. 4 /\ samples' <= Len(seen') /\ Len(seen') <= 4
    BY <1>1, <1>2, <2>2
  <2>4. ASSUME NEW k \in 1 .. samples'
        PROVE  seen'[k] = input
    <3>1. CASE k = 1
      BY <1>1, <3>1
    <3>2. CASE k > 1
      <4>1. k \in 2 .. Len(seen') /\ k - 1 \in 1 .. samples
        BY <1>1, <1>2, <2>2, <2>3, <3>2
      <4> QED BY <1>1, <1>6, <4>1 DEF SeenInv
    <3> QED BY <3>1, <3>2
  <2>5. samples' < Len(seen') => seen'[samples' + 1] # input
    <3>1. ASSUME samples' < Len(seen')
          PROVE  /\ samples' + 1 \in 2 .. Len(seen') /\ samples' = samples + 1
                 /\ samples < Len(seen)
      BY <1>1, <1>2, <2>2, <2>3, <3>1
    <3> QED BY <1>1, <1>2, <1>6, <3>1 DEF SeenInv
  <2> QED BY <1>1, <1>3, <1>4, <2>3, <2>4, <2>5 DEF SeenInv
<1> QED BY <1>5, <1>6

(* The image is confirmed by the first turn after the delay.               *)
LEMMA ConfirmStep ==
  ASSUME ConfirmInv, BlinkInv, NEW passed \in Turn .. (Turn + Late), Turns(passed)
  PROVE  /\ ConfirmInv'
         /\ (confirms' # confirms) = (elapsed # ConfirmDelay /\ elapsed' = ConfirmDelay)
<1>1. /\ Ticks \in Nat /\ passed \in Nat /\ passed > 0 /\ ConfirmDelay \in Nat
      /\ ConfirmDelay + passed <= Ticks /\ elapsed \in Nat /\ elapsed <= ConfirmDelay
  BY TimeAssumption DEF ConfirmInv
<1>2. elapsed' = IF elapsed + passed < ConfirmDelay THEN elapsed + passed ELSE ConfirmDelay
  BY DEF Turns
<1>3. Confirm(now')
  BY DEF Turns
<1>4. CASE elapsed < ConfirmDelay
  <2>1. now = elapsed /\ ~confirmed /\ confirms = 0
    BY <1>4 DEF ConfirmInv
  <2>2. now' = elapsed + passed
    BY <1>1, <1>4, <2>1, TurnTime DEF BlinkInv
  <2>3. ConfirmDue(now') <=> now' >= ConfirmDelay
    BY <2>1 DEF ConfirmDue
  <2>4. CASE now' >= ConfirmDelay
    <3>1. elapsed' = ConfirmDelay
      BY <1>1, <1>2, <2>2, <2>4
    <3>2. confirmed' \in BOOLEAN /\ confirmed'
      BY <1>3, <2>3, <2>4 DEF Confirm
    <3>3. confirms' = 1
      BY <1>3, <2>1, <2>3, <2>4 DEF Confirm
    <3> QED BY <1>1, <1>4, <2>1, <3>1, <3>2, <3>3 DEF ConfirmInv
  <2>5. CASE ~(now' >= ConfirmDelay)
    <3>1. elapsed' = now' /\ elapsed' \in Nat /\ elapsed' < ConfirmDelay
      BY <1>1, <1>2, <2>2, <2>5
    <3>2. confirmed' \in BOOLEAN /\ ~confirmed'
      BY <1>3, <2>1, <2>3, <2>5 DEF Confirm
    <3>3. confirms' = 0
      BY <1>3, <2>1, <2>3, <2>5 DEF Confirm
    <3>4. now' = elapsed'
      BY <3>1
    <3>5. ConfirmInv'
      BY <1>1, <3>1, <3>2, <3>3, <3>4 DEF ConfirmInv
    <3> QED BY <1>1, <2>1, <3>1, <3>3, <3>5
  <2> QED BY <2>4, <2>5
<1>5. CASE elapsed = ConfirmDelay
  <2>1. confirmed /\ confirms = 1
    BY <1>5 DEF ConfirmInv
  <2>2. confirmed' = TRUE /\ confirms' = confirms
    BY <1>3, <2>1 DEF Confirm, ConfirmDue
  <2> QED BY <1>1, <1>2, <1>5, <2>1, <2>2 DEF ConfirmInv
<1> QED BY <1>1, <1>4, <1>5

(* The LED is toggled by the first turn at which the period has passed.    *)
LEMMA BlinkStep ==
  ASSUME BlinkInv, NEW passed \in Turn .. (Turn + Late), Turns(passed)
  PROVE  /\ BlinkInv'
         /\ (sinceBlink' = 0) = (sinceBlink + passed >= Period)
<1>1. /\ Ticks \in Nat /\ passed \in Nat /\ passed > 0 /\ Period \in Nat \ {0}
      /\ 2 * Period < Ticks /\ now \in Nat /\ now < Ticks
      /\ sinceBlink \in Nat /\ sinceBlink <= Period
  BY TimeAssumption DEF BlinkInv
<1>2. /\ now' = IF now + passed < Ticks THEN now + passed ELSE now + passed - Ticks
      /\ now' \in 0 .. (Ticks - 1)
  BY TurnTime DEF BlinkInv
<1>3. Due(now') = (sinceBlink + passed >= Period)
  BY DueAfterPeriod DEF Turns
<1>4. Blink(now', passed)
  BY DEF Turns
<1>5. CASE sinceBlink + passed >= Period
  <2>1. sinceBlink' = 0 /\ heartbeat' = (now' + Period) % Ticks
    BY <1>3, <1>4, <1>5 DEF Blink
  <2> QED BY <1>1, <1>2, <1>5, <2>1 DEF BlinkInv
<1>6. CASE ~(sinceBlink + passed >= Period)
  <2>1. sinceBlink' = sinceBlink + passed /\ heartbeat' = heartbeat
    BY <1>3, <1>4, <1>6 DEF Blink
  <2> DEFINE rest == Period - sinceBlink
             left == Period - (sinceBlink + passed)
  <2>2. rest \in Nat /\ left \in Nat /\ rest = left + passed /\ rest <= Period
    BY <1>1, <1>6
  <2> HIDE DEF rest, left
  <2>3. (now + rest) % Ticks = IF now + rest < Ticks THEN now + rest ELSE now + rest - Ticks
    <3>1. now + rest \in Nat /\ now + rest < 2 * Ticks
      BY <1>1, <2>2
    <3> QED BY <1>1, <2>2, <3>1, Wrap
  <2>4. (now' + left) % Ticks = IF now' + left < Ticks THEN now' + left
                                                       ELSE now' + left - Ticks
    <3>1. now' + left \in Nat /\ now' + left < 2 * Ticks
      BY <1>1, <1>2, <2>2
    <3> QED BY <1>1, <1>2, <2>2, <3>1, Wrap
  <2>5. (now + rest) % Ticks = (now' + left) % Ticks
    BY <1>1, <1>2, <2>2, <2>3, <2>4
  <2>6. heartbeat' = (now' + (Period - sinceBlink')) % Ticks
    BY <2>1, <2>5 DEF BlinkInv, rest, left
  <2>7. sinceBlink' \in 0 .. Period /\ sinceBlink' # 0
    BY <1>1, <1>6, <2>1
  <2> QED BY <1>2, <1>6, <2>6, <2>7 DEF BlinkInv
<1> QED BY <1>5, <1>6

----------------------------------------------------------------------------
(* The device starts at tick 0 with nothing sampled.                       *)
LEMMA InvInit ==
  ASSUME Init
  PROVE  Inv
<1>1. seen = <<>> /\ seen \in Seq(Level) /\ Len(seen) = 0
  BY EmptySeq DEF Init
<1>2. SeenInv
  BY <1>1 DEF Init, SeenInv
<1>3. ConfirmInv
  <2>1. elapsed = 0 /\ now = 0 /\ ~confirmed /\ confirmed \in BOOLEAN /\ confirms = 0
    BY DEF Init
  <2>2. ConfirmDelay \in Nat /\ ConfirmDelay > 0
    BY TimeAssumption
  <2> QED BY <2>1, <2>2 DEF ConfirmInv
<1>4. BlinkInv
  <2>1. 0 % Ticks = 0
    BY Wrap, TimeAssumption
  <2> QED BY <2>1, TimeAssumption DEF Init, BlinkInv
<1> QED BY <1>2, <1>3, <1>4 DEF Init, Inv, Level

(* A turn and the switch keep the invariants.                              *)
LEMMA InvStep ==
  ASSUME Inv, [Next]_vars
  PROVE  Inv'
<1>1. ASSUME NEW passed \in Turn .. (Turn + Late), Turns(passed) PROVE Inv'
  <2>1. Debounce /\ input' = input
    BY <1>1 DEF Turns
  <2> QED BY <1>1, <2>1, DebounceStep, ConfirmStep, BlinkStep DEF Inv
<1>2. CASE Switch \/ UNCHANGED vars
  <2>1. input' \in Level
    BY <1>2 DEF Switch, vars, Inv, Level
  <2>2. UNCHANGED <<now, termination, candidate, samples, confirmed, heartbeat, seen,
                    confirms, elapsed, sinceBlink>>
    BY <1>2 DEF Switch, vars
  <2> QED BY <2>1, <2>2 DEF Inv, SeenInv, ConfirmInv, BlinkInv
<1> QED BY <1>1, <1>2 DEF Next

(* Four equal samples are a stable position.                               *)
LEMMA StableReported ==
  ASSUME SeenInv, NEW v \in Level, seen = <<v, v, v, v>>
  PROVE  termination = v
<1>1. Len(seen) = 4 /\ \A k \in 1 .. 4 : seen[k] = v
  OBVIOUS
<1>2. samples \in 1 .. 4 /\ candidate = seen[1]
  BY <1>1 DEF SeenInv
<1>3. samples = 4
  <2>1. SUFFICES ASSUME samples < 4 PROVE FALSE
    BY <1>2
  <2>2. samples + 1 \in 1 .. 4 /\ seen[samples + 1] # candidate
    BY <1>1, <1>2, <2>1 DEF SeenInv
  <2> QED BY <1>1, <1>2, <2>2
<1> QED BY <1>1, <1>2, <1>3 DEF SeenInv

(* A count of four stands for four equal samples.                          *)
LEMMA StableSeen ==
  ASSUME SeenInv, samples = 4
  PROVE  seen = <<candidate, candidate, candidate, candidate>>
<1>1. seen \in Seq(Level) /\ Len(seen) <= 4 /\ 4 <= Len(seen)
  BY DEF SeenInv
<1>2. Len(seen) = 4
  <2> DEFINE n == Len(seen)
  <2>1. n \in Nat /\ n <= 4 /\ 4 <= n
    BY <1>1, LenProperties
  <2> HIDE DEF n
  <2>2. n = 4
    BY <2>1
  <2> QED BY <2>2 DEF n
<1>3. \A k \in 1 .. 4 : seen[k] = candidate
  BY DEF SeenInv
<1>4. candidate \in Level
  BY <1>1, <1>2, <1>3, ElementOfSeq
<1> DEFINE four == <<candidate, candidate, candidate, candidate>>
<1>5. four \in Seq(Level) /\ Len(four) = 4 /\ \A k \in 1 .. 4 : four[k] = candidate
  BY <1>4
<1> HIDE DEF four
<1>6. seen = four
  BY <1>1, <1>2, <1>3, <1>5, SeqEqual
<1> QED BY <1>6 DEF four

----------------------------------------------------------------------------
(* The counters of the main task stay in their ranges, across every wrap   *)
(* of the tick count.                                                      *)
THEOREM MainTypeCorrect == Spec => []TypeOK
<1>1. Init => Inv
  BY InvInit
<1>2. Inv /\ [Next]_vars => Inv'
  BY InvStep
<1>3. ASSUME Inv PROVE TypeOK
  <2>1. heartbeat \in 0 .. (Ticks - 1)
    <3> DEFINE rest == Period - sinceBlink
    <3>1. /\ Ticks \in Nat /\ now \in Nat /\ now < Ticks /\ rest \in Nat /\ rest < Ticks
          /\ heartbeat = (now + rest) % Ticks
      BY <1>3, TimeAssumption DEF Inv, BlinkInv
    <3> HIDE DEF rest
    <3>2. now + rest \in Nat /\ now + rest < 2 * Ticks
      BY <3>1
    <3>3. heartbeat = IF now + rest < Ticks THEN now + rest ELSE now + rest - Ticks
      BY <3>1, <3>2, Wrap
    <3> QED BY <3>1, <3>3
  <2>2. confirms \in 0 .. 2
    BY <1>3, TimeAssumption DEF Inv, ConfirmInv
  <2> QED BY <1>3, <2>1, <2>2 DEF Inv, SeenInv, ConfirmInv, BlinkInv, TypeOK, Level
<1> QED BY <1>1, <1>2, <1>3, PTL DEF Spec

(* What the counter and the report say of the latest samples.              *)
Reported ==
  /\ samples = 4 => seen = <<candidate, candidate, candidate, candidate>>
  /\ \A v \in Level : seen = <<v, v, v, v>> => termination = v

(* A bouncing switch is not reported, and a stable one is.                 *)
THEOREM OnlyStableReported == Spec => ReportedWhenStable
<1>1. Init => Inv
  BY InvInit
<1>2. Inv /\ [Next]_vars => Inv'
  BY InvStep
<1>3. Inv => Reported
  BY StableReported, StableSeen DEF Inv, Reported
<1>4. ASSUME Reported', [Next]_vars
      PROVE  [/\ termination' # termination =>
                   seen' = <<termination', termination', termination', termination'>>
              /\ \A v \in {0, 1} : seen' = <<v, v, v, v>> => termination' = v]_vars
  <2>1. termination' # termination => samples' = 4 /\ termination' = candidate'
    BY <1>4 DEF Next, Turns, Debounce, Switch, vars
  <2> QED BY <1>4, <2>1 DEF Reported, Level
<1> QED BY <1>1, <1>2, <1>3, <1>4, PTL DEF Spec, ReportedWhenStable

(* The wrap of the tick count neither swallows a blink nor brings one      *)
(* early, and the image is confirmed once, in time.                        *)
THEOREM MainTimesKept == Spec => TimesKept
<1>1. Init => Inv
  BY InvInit
<1>2. Inv /\ [Next]_vars => Inv'
  BY InvStep
<1>3. ASSUME Inv, [Next]_vars
      PROVE  [now' # now =>
                /\ (sinceBlink' = 0) = (sinceBlink + ((now' - now + Ticks) % Ticks) >= Period)
                /\ (confirms' # confirms) = (elapsed # ConfirmDelay /\ elapsed' = ConfirmDelay)]_vars
  <2>1. ASSUME NEW passed \in Turn .. (Turn + Late), Turns(passed)
        PROVE  /\ (sinceBlink' = 0) = (sinceBlink + ((now' - now + Ticks) % Ticks) >= Period)
               /\ (confirms' # confirms) = (elapsed # ConfirmDelay /\ elapsed' = ConfirmDelay)
    <3>1. (now' - now + Ticks) % Ticks = passed
      BY <1>3, <2>1, TurnTime DEF Inv, BlinkInv
    <3> QED BY <1>3, <2>1, <3>1, BlinkStep, ConfirmStep DEF Inv
  <2>2. CASE Switch \/ UNCHANGED vars
    BY <2>2 DEF Switch, vars
  <2> QED BY <1>3, <2>1, <2>2 DEF Next
<1> QED BY <1>1, <1>2, <1>3, PTL DEF Spec, TimesKept
=============================================================================
