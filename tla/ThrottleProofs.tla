--------------------------- MODULE ThrottleProofs ---------------------------
(***************************************************************************)
(* The invariants of Throttle, for every ring, budget, rate and order of     *)
(* events.  RateWithinCap and BackoffPaces are proved together: a decrease    *)
(* starts from a rate within its cap, and lands below it because a cap is at  *)
(* least two multiples.                                                     *)
(***************************************************************************)
EXTENDS Throttle, TLAPS

\* What the proofs use of a preset.
PresetOK(p) ==
  /\ p.RateCap \in Nat \ {1} /\ p.tenths \in {0, 3, 5}
  /\ p.Step \in Nat /\ p.RecoveryWindow \in Nat /\ p.Enabled \in BOOLEAN

\* The fields of a preset, for every mode.
LEMMA PresetFacts ==
  ASSUME NEW m \in Mode
  PROVE  PresetOK(presetTable[m])
<1>1. PresetOK(presetTable["fast"])
  <2> DEFINE p == presetTable["fast"]
  <2>1. p.RateCap = 0 /\ p.tenths = 0 /\ p.Step = 0 /\ p.RecoveryWindow = 0
    BY SMT DEF presetTable
  <2>2. p.Enabled \in BOOLEAN
    BY Zenon DEF presetTable
  <2> HIDE DEF p
  <2>3. PresetOK(p)
    BY <2>1, <2>2 DEF PresetOK
  <2>4. QED
    BY <2>3 DEF p
<1>2. PresetOK(presetTable["normal"])
  <2> DEFINE p == presetTable["normal"]
  <2>1. p.RateCap = 0 /\ p.tenths = 5 /\ p.Step = 2 /\ p.RecoveryWindow = 2
    BY SMT DEF presetTable
  <2>2. p.Enabled \in BOOLEAN
    BY Zenon DEF presetTable
  <2> HIDE DEF p
  <2>3. PresetOK(p)
    BY <2>1, <2>2 DEF PresetOK
  <2>4. QED
    BY <2>3 DEF p
<1>3. PresetOK(presetTable["quiet"])
  <2> DEFINE p == presetTable["quiet"]
  <2>1. p.RateCap = 20 /\ p.tenths = 5 /\ p.Step = 2 /\ p.RecoveryWindow = 2
    BY SMT DEF presetTable
  <2>2. p.Enabled \in BOOLEAN
    BY Zenon DEF presetTable
  <2> HIDE DEF p
  <2>3. PresetOK(p)
    BY <2>1, <2>2 DEF PresetOK
  <2>4. QED
    BY <2>3 DEF p
<1>4. PresetOK(presetTable["stealth"])
  <2> DEFINE p == presetTable["stealth"]
  <2>1. p.RateCap = 4 /\ p.tenths = 3 /\ p.Step = 1 /\ p.RecoveryWindow = 3
    BY SMT DEF presetTable
  <2>2. p.Enabled \in BOOLEAN
    BY Zenon DEF presetTable
  <2> HIDE DEF p
  <2>3. PresetOK(p)
    BY <2>1, <2>2 DEF PresetOK
  <2>4. QED
    BY <2>3 DEF p
<1>5. QED
  BY <1>1, <1>2, <1>3, <1>4 DEF Mode

\* A multiplicative decrease keeps a positive rate positive, never raises it, and
\* lowers every rate of two multiples or more.
LEMMA DecreaseLowers ==
  ASSUME NEW r \in Nat \ {0}, NEW t \in {0, 3, 5}
  PROVE  /\ Decreased(r, t) \in Nat \ {0}
         /\ Decreased(r, t) <= r
         /\ r >= 2 => Decreased(r, t) < r
<1>1. CASE t = 0
  BY <1>1 DEF Decreased
<1>2. CASE t = 3
  BY <1>2 DEF Decreased
<1>3. CASE t = 5
  BY <1>3 DEF Decreased
<1>4. QED
  BY <1>1, <1>2, <1>3

\* A limiter whose cap can be told from a decreased rate.
LimiterOK(l) ==
  l \in [rate : Nat, rateCap : Nat \ {1}, triggered : BOOLEAN, age : 0..MaxAge]

Within(l) == l.rate \in 1..l.rateCap
Below(l) == l.rate > 0 /\ l.rate < l.rateCap

\* A trigger and a recovery step restart the clock.
LEMMA AgeZero == 0 \in 0..MaxAge
BY DEF MaxAge

\* What a trigger does to the limiter.
LEMMA TriggerPaces ==
  ASSUME NEW l, LimiterOK(l), NEW t \in {0, 3, 5}
  PROVE  LET k == TriggerBackoff(l, t)
         IN  /\ LimiterOK(k) /\ k.rate > 0 /\ k.rateCap = l.rateCap
             /\ Within(l) => Within(k) /\ Below(k)
<1> DEFINE k == TriggerBackoff(l, t)
           from == IF l.rate <= 0 THEN backoffFallbackRate ELSE l.rate
<1>1. from \in Nat \ {0} /\ (l.rate > 0 => from = l.rate)
  BY DEF LimiterOK, backoffFallbackRate
<1>2. /\ Decreased(from, t) \in Nat \ {0} /\ Decreased(from, t) <= from
      /\ from >= 2 => Decreased(from, t) < from
  BY <1>1, DecreaseLowers
<1>3. /\ k.rate = Decreased(from, t) /\ k.rateCap = l.rateCap /\ k.triggered = TRUE
      /\ k.age = 0
      /\ k \in [rate : Nat, rateCap : Nat \ {1}, triggered : BOOLEAN, age : 0..MaxAge]
  <2> DEFINE d == Decreased(from, t)
  <2>1. l \in [rate : Nat, rateCap : Nat \ {1}, triggered : BOOLEAN, age : 0..MaxAge]
    BY DEF LimiterOK
  <2>2. d \in Nat /\ 0 \in 0..MaxAge
    BY <1>2 DEF MaxAge
  <2>3. k = [l EXCEPT !.rate = d, !.triggered = TRUE, !.age = 0]
    BY DEF TriggerBackoff
  <2> HIDE DEF d, k
  <2>4. /\ k.rate = d /\ k.rateCap = l.rateCap /\ k.triggered = TRUE /\ k.age = 0
        /\ k \in [rate : Nat, rateCap : Nat \ {1}, triggered : BOOLEAN, age : 0..MaxAge]
    BY <2>1, <2>2, <2>3
  <2>5. QED
    BY <2>4 DEF d
<1>4. Within(l) => Within(k) /\ Below(k)
  BY <1>1, <1>2, <1>3 DEF Within, Below, LimiterOK
<1>5. QED
  BY <1>2, <1>3, <1>4 DEF LimiterOK

\* What a recovery tick does: a step below the cap, or the cap itself and no
\* backoff; nothing before the window is over.
LEMMA RecoverStays ==
  ASSUME NEW l, LimiterOK(l), NEW step \in Nat, NEW window \in Nat
  PROVE  LET k == MaybeRecover(l, step, window)
         IN  /\ LimiterOK(k) /\ k.rateCap = l.rateCap
             /\ k.triggered => l.triggered
             /\ l.triggered /\ ~k.triggered => k.rate = k.rateCap
             /\ ~l.triggered => k = l
             /\ Within(l) => Within(k)
             /\ k.triggered /\ l.rate > 0 => k.rate > 0
             /\ k.triggered /\ Below(l) => Below(k)
<1> DEFINE k == MaybeRecover(l, step, window)
           Goal == /\ LimiterOK(k) /\ k.rateCap = l.rateCap
                   /\ k.triggered => l.triggered
                   /\ l.triggered /\ ~k.triggered => k.rate = k.rateCap
                   /\ ~l.triggered => k = l
                   /\ Within(l) => Within(k)
                   /\ k.triggered /\ l.rate > 0 => k.rate > 0
                   /\ k.triggered /\ Below(l) => Below(k)
<1>1. CASE ~RecoveryDue(l, window)
  BY <1>1 DEF MaybeRecover, LimiterOK, RecoveryDue
<1>2. CASE RecoveryDue(l, window) /\ l.rateCap <= 0
  <2>1. k = [l EXCEPT !.rate = 0, !.triggered = FALSE, !.age = 0]
    BY <1>2 DEF MaybeRecover, LimiterOK
  <2>2. l \in [rate : Nat, rateCap : Nat \ {1}, triggered : BOOLEAN, age : 0..MaxAge]
    BY DEF LimiterOK
  <2> HIDE DEF k
  <2>3. /\ k.rate = 0 /\ k.triggered = FALSE /\ k.rateCap = l.rateCap
        /\ k \in [rate : Nat, rateCap : Nat \ {1}, triggered : BOOLEAN, age : 0..MaxAge]
    BY <2>1, <2>2, AgeZero
  <2>4. Goal
    BY <1>2, <2>2, <2>3 DEF LimiterOK, RecoveryDue, Within, Below
  <2>5. QED
    BY <2>4 DEF k
<1>3. CASE RecoveryDue(l, window) /\ l.rateCap > 0 /\ l.rate + step >= l.rateCap
  <2>1. k = [l EXCEPT !.rate = l.rateCap, !.triggered = FALSE, !.age = 0]
    BY <1>3 DEF MaybeRecover, LimiterOK
  <2>2. l \in [rate : Nat, rateCap : Nat \ {1}, triggered : BOOLEAN, age : 0..MaxAge]
    BY DEF LimiterOK
  <2> HIDE DEF k
  <2>3. /\ k.rate = l.rateCap /\ k.triggered = FALSE /\ k.rateCap = l.rateCap
        /\ k \in [rate : Nat, rateCap : Nat \ {1}, triggered : BOOLEAN, age : 0..MaxAge]
    BY <2>1, <2>2, AgeZero
  <2>4. Goal
    BY <1>3, <2>2, <2>3 DEF LimiterOK, RecoveryDue, Within, Below
  <2>5. QED
    BY <2>4 DEF k
<1>4. CASE RecoveryDue(l, window) /\ l.rateCap > 0 /\ l.rate + step < l.rateCap
  <2> DEFINE next == l.rate + step
  <2>1. k = [l EXCEPT !.rate = next, !.age = 0]
    BY <1>4 DEF MaybeRecover, LimiterOK
  <2>2. l \in [rate : Nat, rateCap : Nat \ {1}, triggered : BOOLEAN, age : 0..MaxAge]
    BY DEF LimiterOK
  <2>6. next \in Nat /\ next >= l.rate
    BY DEF LimiterOK
  <2> HIDE DEF k, next
  <2>3. /\ k.rate = next /\ k.triggered = l.triggered /\ k.rateCap = l.rateCap
        /\ k \in [rate : Nat, rateCap : Nat \ {1}, triggered : BOOLEAN, age : 0..MaxAge]
    BY <2>1, <2>2, <2>6, AgeZero
  <2>4. Goal
    BY <1>4, <2>2, <2>3, <2>6 DEF next, LimiterOK, RecoveryDue, Within, Below
  <2>5. QED
    BY <2>4 DEF k
<1>5. QED
  BY <1>1, <1>2, <1>3, <1>4 DEF LimiterOK

\* Setting the cap sets the rate to it.
LEMMA SetCapEqual ==
  ASSUME NEW l, LimiterOK(l), NEW cap \in Nat \ {1}
  PROVE  LET k == SetRateCap(l, cap)
         IN  LimiterOK(k) /\ k.rate = cap /\ k.rateCap = cap /\ k.triggered = l.triggered
BY DEF SetRateCap, LimiterOK

\* The budget asks for no cap of one multiple.
LEMMA BudgetRateFact ==
  ASSUME NEW n \in Nat, left \in Nat, left # 0
  PROVE  BudgetRate(n) \in Nat \ {1}
<1>1. left * 5 \in Nat \ {0} /\ n * 4 \in Nat
  OBVIOUS
<1>2. (n * 4) \div (left * 5) \in Int
  BY <1>1
<1>3. QED
  BY <1>2 DEF BudgetRate

\* The cap a scan starts with.
LEMMA StartCapFact == StartCap \in Nat \ {1}
<1>1. PresetOK(presetTable[StartMode])
  BY ThrottleAssumption, PresetFacts
<1>2. QED
  BY <1>1, ThrottleAssumption DEF StartCap, PresetOK

-----------------------------------------------------------------------------
(* The inductive invariant, in the three parts the actions disturb apart.   *)

RateInv == LimiterOK(limiter) /\ RateWithinCap /\ BackoffPaces
BurstInv == burstRemaining \in Nat /\ shorts \in Nat /\ armed \in Waits /\ BurstsEnd
RestInv ==
  /\ mode \in Mode /\ ring \in Seq(Sample) /\ Len(ring) <= RingSize
  /\ budget \in Nat /\ left \in Nat /\ suspects \in Nat /\ resumes \in Nat
  /\ adjusted \in BOOLEAN /\ restored \in BOOLEAN
IInv == RateInv /\ BurstInv /\ RestInv

\* The invariant gives the typing of the state.
LEMMA IInvTypes == IInv => TypeOK
BY DEF IInv, RateInv, BurstInv, RestInv, TypeOK, LimiterOK, Limiters

\* Whatever wait is drawn, the short waits that may still follow and the ones since
\* the last long wait stay below the size of a burst.
LEMMA DrawBounds ==
  ASSUME NEW l, NEW jitter, NEW burst \in Nat, NEW n \in Nat,
         n + burst < (3 * BurstMean) \div 2,
         NEW wait \in Intervals(l, jitter, burst), NEW rest \in BurstAfter(wait, burst)
  PROVE  /\ wait \in Waits /\ rest \in Nat
         /\ wait = "short" => n + 1 + rest < (3 * BurstMean) \div 2
         /\ wait = "long" => rest < (3 * BurstMean) \div 2
         /\ wait \notin {"short", "long"} => rest = burst
<1>1. wait \in Waits /\ (wait = "short" => burst > 0)
  BY DEF Intervals, Waits
<1>2. CASE wait = "short"
  BY <1>1, <1>2 DEF BurstAfter, BurstMean
<1>3. CASE wait = "long"
  BY <1>1, <1>3 DEF BurstAfter, BurstMean, BurstSizes
<1>4. CASE wait \notin {"short", "long"}
  BY <1>1, <1>4 DEF BurstAfter
<1>5. QED
  BY <1>2, <1>3, <1>4

\* Arming the timer, from any burst within the bound.
LEMMA ArmBounds ==
  ASSUME NEW l, NEW jitter, NEW burst \in Nat, shorts \in Nat,
         shorts + burst < (3 * BurstMean) \div 2, Arm(l, jitter, burst)
  PROVE  BurstInv'
<1>1. PICK wait \in Intervals(l, jitter, burst) :
        /\ armed' = wait
        /\ burstRemaining' \in BurstAfter(wait, burst)
        /\ shorts' = CASE wait = "short" -> shorts + 1
                       [] wait = "long" -> 0
                       [] OTHER -> shorts
  BY DEF Arm
<1>2. /\ wait \in Waits /\ burstRemaining' \in Nat
      /\ wait = "short" => shorts + 1 + burstRemaining' < (3 * BurstMean) \div 2
      /\ wait = "long" => burstRemaining' < (3 * BurstMean) \div 2
      /\ wait \notin {"short", "long"} => burstRemaining' = burst
  BY <1>1, DrawBounds
<1>3. CASE wait = "short"
  BY <1>1, <1>2, <1>3 DEF BurstInv, BurstsEnd, BurstMean
<1>4. CASE wait = "long"
  BY <1>1, <1>2, <1>4 DEF BurstInv, BurstsEnd, BurstMean
<1>5. CASE wait \notin {"short", "long"}
  <2>1. shorts' = shorts
    BY <1>1, <1>5
  <2>2. QED
    BY <1>1, <1>2, <1>5, <2>1 DEF BurstInv, BurstsEnd, BurstMean
<1>6. QED
  BY <1>3, <1>4, <1>5

\* The timer was not armed and the burst not touched.
LEMMA BurstUnchanged ==
  ASSUME BurstInv, UNCHANGED <<burstRemaining, armed, shorts>>
  PROVE  BurstInv'
BY DEF BurstInv, BurstsEnd

\* The limiter and its history were not touched.
LEMMA RateUnchanged ==
  ASSUME RateInv, UNCHANGED <<limiter, adjusted, restored>>
  PROVE  RateInv'
BY DEF RateInv, LimiterOK, RateWithinCap, BackoffPaces

-----------------------------------------------------------------------------
(* One lemma per action.                                                    *)

\* The first limiter runs at its cap, and no backoff is in force.
LEMMA InitHolds == Init => IInv
<1> SUFFICES ASSUME Init PROVE IInv
  OBVIOUS
<1>1. RateInv
  <2>1. StartCap \in Nat \ {1} /\ MaxAge \in 0..MaxAge
    BY StartCapFact DEF MaxAge
  <2>2. /\ limiter = [rate |-> StartCap, rateCap |-> StartCap, triggered |-> FALSE, age |-> MaxAge]
    BY DEF Init, NewLimiterSpec
  <2>3. QED
    BY <2>1, <2>2 DEF RateInv, LimiterOK, RateWithinCap, BackoffPaces
<1>2. BurstInv
  <2>1. PICK wait \in Intervals(limiter, spec.Jitter, 0) :
          armed = wait /\ burstRemaining \in BurstAfter(wait, 0)
    BY DEF Init
  <2>2. shorts = 0 /\ 0 + 0 < (3 * BurstMean) \div 2
    BY DEF Init, BurstMean
  <2>3. /\ wait \in Waits /\ burstRemaining \in Nat
        /\ wait = "short" => 0 + 1 + burstRemaining < (3 * BurstMean) \div 2
        /\ wait = "long" => burstRemaining < (3 * BurstMean) \div 2
        /\ wait \notin {"short", "long"} => burstRemaining = 0
    BY <2>1, <2>2, DrawBounds
  <2>4. QED
    BY <2>1, <2>2, <2>3 DEF BurstInv, BurstsEnd, BurstMean
<1>3. RestInv
  <2>1. adjusted \in BOOLEAN /\ restored \in BOOLEAN
    BY Zenon DEF Init
  <2>2. ring = <<>> /\ mode = StartMode /\ budget \in Budgets /\ left = budget
        /\ suspects = 0 /\ resumes = 0
    BY DEF Init
  <2>3. ring \in Seq(Sample) /\ Len(ring) <= RingSize
    BY <2>2, ThrottleAssumption
  <2>4. QED
    BY <2>1, <2>2, <2>3, ThrottleAssumption DEF RestInv
<1>4. QED
  BY <1>1, <1>2, <1>3 DEF IInv

\* An answer of the target: at most one decrease, which lands below the cap.
LEMMA ResponseHolds ==
  ASSUME IInv, NEW s \in Sample, NEW slow \in BOOLEAN, Response(s, slow)
  PROVE  IInv'
<1> DEFINE samples == Capped(Append(ring, s))
           backs == Backs(slow \/ Onset(samples))
           k == TriggerBackoff(limiter, spec.tenths)
<1>1. RateInv'
  <2>1. CASE backs
    <3>1. limiter' = k /\ adjusted' = FALSE /\ restored' = restored
      BY <2>1 DEF Response
    <3>2. spec.tenths \in {0, 3, 5}
      BY PresetFacts DEF IInv, RestInv, spec, PresetOK
    <3>3. LimiterOK(limiter)
      BY DEF IInv, RateInv
    <3>4. /\ LimiterOK(k) /\ k.rate > 0 /\ k.rateCap = limiter.rateCap
          /\ Within(limiter) => Within(k) /\ Below(k)
      BY <3>2, <3>3, TriggerPaces
    <3> HIDE DEF k
    <3>5. QED
      BY <3>1, <3>4 DEF IInv, RateInv, LimiterOK, RateWithinCap, BackoffPaces, Within, Below
  <2>2. CASE ~backs
    <3>1. limiter' = limiter /\ adjusted' = adjusted /\ restored' = restored
      BY <2>2, Zenon DEF Response, IInv, RestInv
    <3>2. QED
      BY <3>1, RateUnchanged DEF IInv
  <2>3. QED
    BY <2>1, <2>2
<1>2. BurstInv'
  BY BurstUnchanged DEF Response, IInv
<1>3. RestInv'
  <2>1. samples \in Seq(Sample) /\ Len(samples) <= RingSize
    <3>1. /\ Append(ring, s) \in Seq(Sample) /\ Len(Append(ring, s)) = Len(ring) + 1
          /\ Len(ring) \in Nat /\ Len(ring) <= RingSize /\ Append(ring, s) # <<>>
      BY DEF IInv, RestInv
    <3> DEFINE longer == Append(ring, s)
    <3> HIDE DEF longer
    <3>2. CASE Len(longer) > RingSize
      <4>1. Tail(longer) \in Seq(Sample) /\ Len(Tail(longer)) = Len(longer) - 1
        BY <3>1 DEF longer
      <4>2. QED
        BY <3>1, <3>2, <4>1, ThrottleAssumption DEF longer, Capped
    <3>3. CASE ~(Len(longer) > RingSize)
      BY <3>1, <3>3, ThrottleAssumption DEF longer, Capped
    <3>4. QED
      BY <3>2, <3>3
  <2>2. adjusted' \in BOOLEAN /\ restored' \in BOOLEAN
    BY Zenon DEF Response, IInv, RestInv
  <2> HIDE DEF samples
  <2>3. /\ ring' = samples /\ suspects' \in Nat
        /\ UNCHANGED <<mode, budget, left, resumes>>
    BY DEF Response, samples, IInv, RestInv
  <2>4. QED
    BY <2>1, <2>2, <2>3 DEF IInv, RestInv
<1>4. QED
  BY <1>1, <1>2, <1>3 DEF IInv

\* The ticker: a recovery step stays below the cap or regains it, and what the
\* budget asks for replaces both the cap and the rate.
LEMMA TickHolds ==
  ASSUME IInv, NEW n \in FrontierLens, ControllerTick(n)
  PROVE  IInv'
<1> DEFINE k == Recovered
<1>1. n \in Nat /\ LimiterOK(limiter)
  BY ThrottleAssumption DEF IInv, RateInv
<1>2. PresetOK(spec)
  BY PresetFacts DEF IInv, RestInv, spec
<1>3. /\ LimiterOK(k) /\ k.rateCap = limiter.rateCap
      /\ k.triggered => limiter.triggered
      /\ limiter.triggered /\ ~k.triggered => k.rate = k.rateCap
      /\ ~limiter.triggered => k = limiter
      /\ Within(limiter) => Within(k)
      /\ k.triggered /\ limiter.rate > 0 => k.rate > 0
      /\ k.triggered /\ Below(limiter) => Below(k)
  <2>1. CASE spec.Enabled
    <3>1. k = MaybeRecover(limiter, spec.Step, spec.RecoveryWindow)
      BY <2>1 DEF Recovered
    <3>2. spec.Step \in Nat /\ spec.RecoveryWindow \in Nat
      BY <1>2 DEF PresetOK
    <3> DEFINE j == MaybeRecover(limiter, spec.Step, spec.RecoveryWindow)
    <3>3. /\ LimiterOK(j) /\ j.rateCap = limiter.rateCap
          /\ j.triggered => limiter.triggered
          /\ limiter.triggered /\ ~j.triggered => j.rate = j.rateCap
          /\ ~limiter.triggered => j = limiter
          /\ Within(limiter) => Within(j)
          /\ j.triggered /\ limiter.rate > 0 => j.rate > 0
          /\ j.triggered /\ Below(limiter) => Below(j)
      BY <1>1, <3>2, RecoverStays
    <3> HIDE DEF k, j
    <3>4. k = j
      BY <3>1 DEF j
    <3>5. QED
      BY <3>3, <3>4
  <2>2. CASE ~spec.Enabled
    <3>1. k = limiter
      BY <2>2 DEF Recovered
    <3> HIDE DEF k
    <3>2. QED
      BY <1>1, <3>1 DEF LimiterOK
  <2>3. QED
    BY <2>1, <2>2
<1>4. RateInv'
  <2>1. CASE BudgetPaces(n)
    <3> DEFINE cap == IF left = 0 THEN 0 ELSE BudgetRate(n)
               set == SetRateCap(k, cap)
    <3>1. cap \in Nat \ {1}
      BY <1>1, BudgetRateFact DEF IInv, RestInv
    <3>2. limiter' = set /\ adjusted' = TRUE
      BY <2>1 DEF ControllerTick, BudgetPaced
    <3> HIDE DEF k, cap
    <3>3. LimiterOK(set) /\ set.rate = cap /\ set.rateCap = cap
      BY <1>3, <3>1, SetCapEqual
    <3> HIDE DEF set
    <3>4. QED
      BY <3>1, <3>2, <3>3 DEF RateInv, LimiterOK, RateWithinCap, BackoffPaces
  <2>2. CASE ~BudgetPaces(n)
    <3>1. limiter' = k /\ adjusted' = adjusted
          /\ restored' = (restored /\ ~(limiter.triggered /\ ~k.triggered))
      BY <2>2, Zenon DEF ControllerTick, BudgetPaced, IInv, RestInv
    <3> HIDE DEF k
    <3>2. ~restored' => ~restored \/ (limiter.triggered /\ ~k.triggered)
      BY <3>1, Zenon
    <3>3. RateWithinCap /\ BackoffPaces
      BY DEF IInv, RateInv
    <3>4. RateWithinCap'
      <4> SUFFICES ASSUME limiter'.rateCap > 0, ~restored' PROVE limiter'.rate \in 1..limiter'.rateCap
        BY DEF RateWithinCap
      <4>1. CASE ~restored
        BY <1>3, <3>1, <3>3, <4>1 DEF RateWithinCap, Within
      <4>2. CASE limiter.triggered /\ ~k.triggered
        BY <1>3, <3>1, <4>2 DEF LimiterOK
      <4>3. QED
        BY <3>2, <4>1, <4>2
    <3>5. BackoffPaces'
      <4> SUFFICES ASSUME limiter'.triggered, ~adjusted'
                   PROVE  /\ limiter'.rate > 0
                          /\ limiter'.rateCap > 0 /\ ~restored' => limiter'.rate < limiter'.rateCap
        BY DEF BackoffPaces
      <4>1. limiter.triggered /\ ~adjusted
        BY <1>3, <3>1
      <4>2. limiter'.rate > 0
        BY <1>3, <3>1, <3>3, <4>1 DEF BackoffPaces
      <4>3. ASSUME limiter'.rateCap > 0, ~restored' PROVE limiter'.rate < limiter'.rateCap
        <5>1. ~restored
          BY <3>1, <3>2, <4>3
        <5>2. QED
          BY <1>3, <3>1, <3>3, <4>1, <4>3, <5>1 DEF BackoffPaces, Below
      <4>4. QED
        BY <4>2, <4>3
    <3>6. QED
      BY <1>3, <3>1, <3>4, <3>5 DEF RateInv, LimiterOK
  <2>3. QED
    BY <2>1, <2>2
<1>5. BurstInv'
  BY BurstUnchanged DEF ControllerTick, IInv
<1>6. RestInv'
  <2>1. adjusted' \in BOOLEAN /\ restored' \in BOOLEAN
    BY Zenon DEF ControllerTick
  <2>2. UNCHANGED <<mode, ring, budget, left, suspects, resumes>>
    BY DEF ControllerTick
  <2>3. QED
    BY <2>1, <2>2 DEF IInv, RestInv
<1>7. QED
  BY <1>4, <1>5, <1>6 DEF IInv

\* The pacer fires: only the burst moves.
LEMMA PacerHolds ==
  ASSUME IInv, PacerAdvance
  PROVE  IInv'
<1>1. RateInv'
  BY RateUnchanged DEF PacerAdvance, IInv
<1>2. BurstInv'
  BY ArmBounds DEF PacerAdvance, IInv, BurstInv, BurstsEnd
<1>3. RestInv'
  BY DEF PacerAdvance, IInv, RestInv
<1>4. QED
  BY <1>1, <1>2, <1>3 DEF IInv

\* A new mode or rate: the rate is the cap that was set last.
LEMMA AdjustHolds ==
  ASSUME IInv, NEW m \in Modes \cup {Unset}, NEW r \in Rates \cup {NoRate}, ApplyAdjust(m, r)
  PROVE  IInv'
<1> DEFINE inMode == IF m = Unset THEN limiter ELSE SetRateCap(limiter, presetTable[m].RateCap)
           k == IF r = NoRate THEN inMode ELSE SetRateCap(inMode, r)
<1>1. /\ limiter' = k /\ adjusted' = TRUE /\ restored' = FALSE /\ (m # Unset \/ r # NoRate)
  BY DEF ApplyAdjust
<1>2. m # Unset => m \in Mode /\ presetTable[m].RateCap \in Nat \ {1}
  <2>1. m # Unset => m \in Mode
    BY ThrottleAssumption
  <2>2. QED
    BY <2>1, PresetFacts DEF PresetOK
<1>3. LimiterOK(limiter)
  BY DEF IInv, RateInv
<1>4. LimiterOK(inMode) /\ (m # Unset => inMode.rate = inMode.rateCap)
  BY <1>2, <1>3, SetCapEqual
<1>5. LimiterOK(k) /\ k.rate = k.rateCap
  <2> HIDE DEF inMode
  <2>1. CASE r = NoRate
    BY <1>1, <1>4, <2>1
  <2>2. CASE r # NoRate
    <3>1. r \in Nat \ {1}
      BY <2>2, ThrottleAssumption
    <3>2. QED
      BY <1>4, <2>2, <3>1, SetCapEqual
  <2>3. QED
    BY <2>1, <2>2
<1>6. RateInv'
  <2> HIDE DEF k
  <2>1. QED
    BY <1>1, <1>5 DEF RateInv, LimiterOK, RateWithinCap, BackoffPaces
<1>7. BurstInv'
  <2>1. UNCHANGED <<armed, shorts>> /\ burstRemaining' \in {burstRemaining, 0}
    BY DEF ApplyAdjust
  <2>2. /\ burstRemaining \in Nat /\ shorts \in Nat /\ armed \in Waits
        /\ shorts + burstRemaining < (3 * BurstMean) \div 2
    BY DEF IInv, BurstInv, BurstsEnd
  <2>3. CASE burstRemaining' = burstRemaining
    BY <2>1, <2>2, <2>3 DEF BurstInv, BurstsEnd
  <2>4. CASE burstRemaining' = 0
    BY <2>1, <2>2, <2>4 DEF BurstInv, BurstsEnd, BurstMean
  <2>5. QED
    BY <2>1, <2>3, <2>4
<1>8. RestInv'
  <2>1. adjusted' \in BOOLEAN /\ restored' \in BOOLEAN
    BY <1>1, Zenon
  <2>2. mode' \in Mode
    BY <1>2 DEF ApplyAdjust, IInv, RestInv
  <2>3. UNCHANGED <<ring, budget, left, suspects, resumes>>
    BY DEF ApplyAdjust
  <2>4. QED
    BY <2>1, <2>2, <2>3 DEF IInv, RestInv
<1>9. QED
  BY <1>6, <1>7, <1>8 DEF IInv

\* A resumed scan: its rate is of another cap, and its burst starts afresh.
LEMMA ResumeHolds ==
  ASSUME IInv, NEW age \in 0..MaxAge, Resume(age)
  PROVE  IInv'
<1> DEFINE fresh == NewLimiterSpec(StartCap)
           k == SetAIMDState(fresh, limiter, age)
<1>1. limiter' = k /\ adjusted' = TRUE /\ restored' = TRUE
  BY DEF Resume
<1>2. LimiterOK(k)
  <2>1. StartCap \in Nat \ {1} /\ LimiterOK(limiter)
    BY StartCapFact DEF IInv, RateInv
  <2>2. fresh = [rate |-> StartCap, rateCap |-> StartCap, triggered |-> FALSE, age |-> MaxAge]
    BY DEF NewLimiterSpec
  <2>3. k = [fresh EXCEPT !.rate = limiter.rate, !.triggered = limiter.triggered, !.age = age]
    BY DEF SetAIMDState
  <2> HIDE DEF fresh, k
  <2>4. k = [rate |-> limiter.rate, rateCap |-> StartCap, triggered |-> limiter.triggered, age |-> age]
    BY <2>2, <2>3
  <2>5. QED
    BY <2>1, <2>4 DEF LimiterOK
<1>3. RateInv'
  <2> HIDE DEF k
  <2>1. QED
    BY <1>1, <1>2 DEF RateInv, LimiterOK, RateWithinCap, BackoffPaces
<1>4. BurstInv'
  <2>1. Arm(fresh, presetTable[StartMode].Jitter, 0)
    BY DEF Resume
  <2>2. shorts \in Nat /\ shorts + 0 < (3 * BurstMean) \div 2
    BY DEF IInv, BurstInv, BurstsEnd, BurstMean
  <2>3. QED
    BY <2>1, <2>2, ArmBounds
<1>5. RestInv'
  <2>1. adjusted' \in BOOLEAN /\ restored' \in BOOLEAN
    BY <1>1, Zenon
  <2>2. mode' \in Mode /\ left' = budget /\ resumes' \in Nat /\ UNCHANGED <<ring, budget, suspects>>
    BY ThrottleAssumption DEF Resume, IInv, RestInv
  <2>3. QED
    BY <2>1, <2>2 DEF IInv, RestInv
<1>6. QED
  BY <1>3, <1>4, <1>5 DEF IInv

\* Time moves the trigger's age and what is left of the budget.
LEMMA ElapseHolds ==
  ASSUME IInv, Elapse
  PROVE  IInv'
<1> DEFINE older == IF limiter.age < MaxAge THEN limiter.age + 1 ELSE MaxAge
<1>1. LimiterOK(limiter)
  BY DEF IInv, RateInv
<1>2. older \in 0..MaxAge
  BY <1>1 DEF LimiterOK, MaxAge
<1>3. limiter' = [limiter EXCEPT !.age = older]
  BY DEF Elapse
<1> HIDE DEF older
<1>4. /\ LimiterOK(limiter') /\ limiter'.rate = limiter.rate
      /\ limiter'.rateCap = limiter.rateCap /\ limiter'.triggered = limiter.triggered
  BY <1>1, <1>2, <1>3 DEF LimiterOK
<1>5. UNCHANGED <<adjusted, restored, shorts>>
  BY DEF Elapse, history
<1>6. RateInv'
  BY <1>4, <1>5 DEF IInv, RateInv, LimiterOK, RateWithinCap, BackoffPaces
<1>7. BurstInv'
  BY <1>5, BurstUnchanged DEF Elapse, IInv
<1>8. RestInv'
  BY <1>5 DEF Elapse, IInv, RestInv
<1>9. QED
  BY <1>6, <1>7, <1>8 DEF IInv

\* Every step of the throttle keeps the invariant.
LEMMA StepHolds == IInv /\ [Next]_vars => IInv'
<1> SUFFICES ASSUME IInv, [Next]_vars PROVE IInv'
  OBVIOUS
<1>1. ASSUME NEW s \in Sample, NEW slow \in BOOLEAN, Response(s, slow) PROVE IInv'
  BY <1>1, ResponseHolds
<1>2. CASE Tick
  BY <1>2, TickHolds DEF Tick
<1>3. CASE PacerAdvance
  BY <1>3, PacerHolds
<1>4. ASSUME NEW m \in Modes \cup {Unset}, NEW r \in Rates \cup {NoRate}, ApplyAdjust(m, r)
      PROVE  IInv'
  BY <1>4, AdjustHolds
<1>5. ASSUME NEW age \in 0..MaxAge, Resume(age) PROVE IInv'
  BY <1>5, ResumeHolds
<1>6. CASE Elapse
  BY <1>6, ElapseHolds
<1>7. CASE UNCHANGED vars
  <2>1. UNCHANGED <<limiter, mode, ring, burstRemaining, armed, budget, left,
                    suspects, resumes, shorts, adjusted, restored>>
    BY <1>7 DEF vars
  <2>2. RateInv' /\ BurstInv'
    BY <2>1, RateUnchanged, BurstUnchanged DEF IInv
  <2>3. RestInv'
    BY <2>1 DEF IInv, RestInv
  <2>4. QED
    BY <2>2, <2>3 DEF IInv
<1>8. QED
  BY <1>1, <1>2, <1>3, <1>4, <1>5, <1>6, <1>7 DEF Next

-----------------------------------------------------------------------------
\* The state of the limiter, the pacer and the WAF ring is well typed, and the ring
\* never outgrows its size.
THEOREM TypeCorrect == Spec => []TypeOK
<1>1. Init => IInv
  BY InitHolds
<1>2. IInv /\ [Next]_vars => IInv'
  BY StepHolds
<1>3. IInv => TypeOK
  BY IInvTypes
<1>4. QED
  BY <1>1, <1>2, <1>3, PTL DEF Spec

\* Whatever the order of decreases, recovery steps, budget ticks, user commands and
\* resumptions, the limiter never exceeds the cap in force and is never unbounded
\* under one, save for a rate out of a session file.
THEOREM CapHolds == Spec => []RateWithinCap
<1>1. Init => IInv
  BY InitHolds
<1>2. IInv /\ [Next]_vars => IInv'
  BY StepHolds
<1>3. IInv => RateWithinCap
  BY DEF IInv, RateInv
<1>4. QED
  BY <1>1, <1>2, <1>3, PTL DEF Spec

\* A triggered backoff imposes real pacing, of an unbounded scan too, until the cap
\* is set anew.
THEOREM BackoffIsPacing == Spec => []BackoffPaces
<1>1. Init => IInv
  BY InitHolds
<1>2. IInv /\ [Next]_vars => IInv'
  BY StepHolds
<1>3. IInv => BackoffPaces
  BY DEF IInv, RateInv
<1>4. QED
  BY <1>1, <1>2, <1>3, PTL DEF Spec

\* No sequence of mode switches, unbounded spells and resumptions strings bursts
\* together: a long pause comes before a burst's size is passed.
THEOREM BurstsBounded == Spec => []BurstsEnd
<1>1. Init => IInv
  BY InitHolds
<1>2. IInv /\ [Next]_vars => IInv'
  BY StepHolds
<1>3. IInv => BurstsEnd
  BY DEF IInv, BurstInv
<1>4. QED
  BY <1>1, <1>2, <1>3, PTL DEF Spec
=============================================================================
