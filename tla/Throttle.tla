------------------------------ MODULE Throttle ------------------------------
(***************************************************************************)
(* How fast the scan may go.  The limiter's rate is moved by answers of the *)
(* target that look like a WAF (multiplicative decrease), by the recovery   *)
(* ticker (additive increase), by the time budget, by the user's rate and   *)
(* mode, and by a resumed session.  All of it runs on the coordinator's     *)
(* goroutine: ratelimit.go, preset.go, the controller in coordinator.go.    *)
(*                                                                         *)
(* Rates are multiples of a quarter request per second, 0 is unbounded, and *)
(* the least multiple stands for everything below it.  Time is counted in   *)
(* steps of five seconds.                                                  *)
(***************************************************************************)
EXTENDS Integers, Sequences, FiniteSets

CONSTANTS
  StartMode,        \* Config.Mode
  ConfigRate,       \* Config.Rate, 0 when it is left to the mode
  Modes,            \* the modes a PATCH may ask for
  Rates,            \* the rates a PATCH may ask for
  Budgets,          \* Config.Budget in steps of time, 0 for none
  FrontierLens,     \* queued candidates, as the budget pacing may find them
  RingSize, SpikeThreshold, NovelRun,   \* the WAF detector
  MaxSuspect,       \* bound: suspicious answers the target gives
  MaxResumes        \* bound: times the scan is saved and resumed

VARIABLES
  limiter,          \* Limiter: rate, rateCap, triggered, age of lastTrigger
  mode,             \* the active preset
  ring,             \* wafRing, oldest first
  burstRemaining,   \* state of the bursty distribution
  armed,            \* what the pacer's timer waits: "none", "short", "even", "long"
  budget, left,     \* the configured time budget and what is left of it
  suspects, resumes,
  \* History: short waits since the last long one; the cap was set since the last
  \* decrease; the rate came out of a session file.
  shorts, adjusted, restored

vars == <<limiter, mode, ring, burstRemaining, armed, budget, left,
          suspects, resumes, shorts, adjusted, restored>>
history == <<shorts, adjusted, restored>>

Mode == {"fast", "normal", "quiet", "stealth"}
Unset == "unset"
NoRate == -1

(* The preset table.                                                        *)
presetTable ==
  [fast    |-> [RateCap |-> 0, Jitter |-> "none", Enabled |-> FALSE,
                tenths |-> 0, Step |-> 0, RecoveryWindow |-> 0],
   normal  |-> [RateCap |-> 0, Jitter |-> "uniform", Enabled |-> TRUE,
                tenths |-> 5, Step |-> 2, RecoveryWindow |-> 2],
   quiet   |-> [RateCap |-> 20, Jitter |-> "gaussian", Enabled |-> TRUE,
                tenths |-> 5, Step |-> 2, RecoveryWindow |-> 2],
   stealth |-> [RateCap |-> 4, Jitter |-> "bursty", Enabled |-> TRUE,
                tenths |-> 3, Step |-> 1, RecoveryWindow |-> 3]]
MaxAge == 3             \* the longest window; an older trigger is not told apart
backoffFallbackRate == 8
BurstMean == 3          \* JitterSpec.Param1 of stealth

ASSUME ThrottleAssumption ==
  /\ StartMode \in Mode /\ ConfigRate \in Nat \ {1} /\ Modes \subseteq Mode
  /\ Rates \subseteq Nat \ {1}
  /\ Budgets \subseteq Nat /\ FrontierLens \subseteq Nat
  /\ RingSize \in Nat \ {0} /\ SpikeThreshold \in Nat \ {0} /\ NovelRun \in Nat \ {0}
  /\ MaxSuspect \in Nat /\ MaxResumes \in Nat

spec == presetTable[mode]
\* ResolvePreset: at the start an explicit rate overrides the mode's.
StartCap == IF ConfigRate # 0 THEN ConfigRate ELSE presetTable[StartMode].RateCap
Sample == [limited : BOOLEAN, novel : BOOLEAN]
Limiters == [rate : Nat, rateCap : Nat, triggered : BOOLEAN, age : 0..MaxAge]
Waits == {"none", "short", "even", "long"}

-----------------------------------------------------------------------------
(* The limiter's methods, on the limiter as a value.                        *)

NewLimiterSpec(cap) == [rate |-> cap, rateCap |-> cap, triggered |-> FALSE, age |-> MaxAge]

SetRateCap(l, cap) == [l EXCEPT !.rate = cap, !.rateCap = cap]

\* A product of positive rates is positive: a backoff never becomes unbounded.
Decreased(r, tenths) == IF (r * tenths) \div 10 > 0 THEN (r * tenths) \div 10 ELSE 1

\* Mutant: an unbounded rate is cut like any other.
TriggerBackoffNoFallback(l, tenths) ==
  [l EXCEPT !.rate = IF l.rate <= 0 THEN 0 ELSE Decreased(l.rate, tenths),
            !.triggered = TRUE, !.age = 0]

TriggerBackoff(l, tenths) ==
  [l EXCEPT !.rate = Decreased(IF l.rate <= 0 THEN backoffFallbackRate ELSE l.rate, tenths),
            !.triggered = TRUE, !.age = 0]

InBackoff(l, settle) == l.triggered /\ l.age < settle

RecoveryDue(l, window) == l.triggered /\ l.age >= window

\* Mutants: the last step is not cut at the cap; an unbounded scan has no
\* cap to return to.
MaybeRecoverOvershoots(l, step, window) ==
  IF ~RecoveryDue(l, window) THEN l
  ELSE [l EXCEPT !.rate = IF l.rateCap <= 0 THEN 0 ELSE l.rate + step,
                 !.triggered = l.rateCap > 0 /\ l.rate + step < l.rateCap, !.age = 0]
MaybeRecoverToCap(l, step, window) ==
  IF ~RecoveryDue(l, window) \/ l.rateCap <= 0 THEN l
  ELSE IF l.rate + step >= l.rateCap
       THEN [l EXCEPT !.rate = l.rateCap, !.triggered = FALSE, !.age = 0]
       ELSE [l EXCEPT !.rate = l.rate + step, !.age = 0]

MaybeRecover(l, step, window) ==
  IF ~RecoveryDue(l, window) THEN l
  ELSE IF l.rateCap <= 0 THEN [l EXCEPT !.rate = 0, !.triggered = FALSE, !.age = 0]
  ELSE IF l.rate + step >= l.rateCap
       THEN [l EXCEPT !.rate = l.rateCap, !.triggered = FALSE, !.age = 0]
       ELSE [l EXCEPT !.rate = l.rate + step, !.age = 0]

\* ratelimit.go's jitteredInterval: what the next wait may be.  A gaussian draw
\* is clamped at zero.
Intervals(l, jitter, burst) ==
  IF l.rate <= 0 THEN {"none"}
  ELSE CASE jitter = "bursty" -> IF burst > 0 THEN {"short"} ELSE {"long"}
         [] jitter = "gaussian" -> {"even", "none"}
         [] OTHER -> {"even"}

\* burstyInterval: a draw within half the mean of the mean, rounded.
BurstSizes == (BurstMean + 1) \div 2 .. (3 * BurstMean) \div 2
\* Mutant: the request that starts a burst is not counted.
BurstAfterUncounted(wait, burst) ==
  CASE wait = "short" -> {burst - 1}
    [] wait = "long" -> BurstSizes
    [] OTHER -> {burst}

BurstAfter(wait, burst) ==
  CASE wait = "short" -> {burst - 1}
    [] wait = "long" -> {size - 1 : size \in BurstSizes}
    [] OTHER -> {burst}

Arm(l, jitter, burst) ==
  \E wait \in Intervals(l, jitter, burst) :
    /\ armed' = wait
    /\ burstRemaining' \in BurstAfter(wait, burst)
    /\ shorts' = CASE wait = "short" -> shorts + 1
                   [] wait = "long" -> 0
                   [] OTHER -> shorts

-----------------------------------------------------------------------------
(* The controller.                                                          *)

\* detectWAFOnset: too many limited answers in the ring, or a run of
\* unexplained ones at its end.
Capped(s) == IF Len(s) > RingSize THEN Tail(s) ELSE s
Spike(s) == Cardinality({i \in DOMAIN s : s[i].limited}) >= SpikeThreshold
NovelAtEnd(s) == Len(s) >= NovelRun /\ \A i \in (Len(s) - NovelRun + 1)..Len(s) : s[i].novel
Onset(s) == Spike(s) \/ NovelAtEnd(s)

\* triggerBackoff, the whole of it: off in fast mode, once per settle window.
Backs(wanted) == wanted /\ spec.Enabled /\ ~InBackoff(limiter, spec.RecoveryWindow)

\* handleReal: the latency check first, then the ring.  When both ask for a
\* decrease the second finds the first one's window open.
Response(s, slow) ==
  LET samples == Capped(Append(ring, s))
      suspicious == s.limited \/ s.novel \/ slow
      backs == Backs(slow \/ Onset(samples))
  IN  /\ suspicious => suspects < MaxSuspect
      /\ suspects' = IF suspicious THEN suspects + 1 ELSE suspects
      /\ ring' = samples
      /\ limiter' = IF backs THEN TriggerBackoff(limiter, spec.tenths) ELSE limiter
      /\ adjusted' = (adjusted /\ ~backs)
      /\ UNCHANGED <<mode, burstRemaining, armed, budget, left, resumes, shorts, restored>>

\* maybeRecoverBackoff.
Recovered == IF spec.Enabled THEN MaybeRecover(limiter, spec.Step, spec.RecoveryWindow)
             ELSE limiter

\* updateBudgetPacing: n candidates in what is left of the budget.  The least cap is
\* two multiples, so that a decreased rate is told from it.
BudgetRate(n) == IF (n * 4) \div (left * 5) > 1 THEN (n * 4) \div (left * 5) ELSE 2
BudgetPaces(n) == budget > 0 /\ (left = 0 \/ n > 0)
BudgetPaced(l, n) ==
  IF ~BudgetPaces(n) THEN l ELSE SetRateCap(l, IF left = 0 THEN 0 ELSE BudgetRate(n))

\* The ticker: recovery, then the budget.
ControllerTick(n) ==
  /\ limiter' = BudgetPaced(Recovered, n)
  /\ adjusted' = (adjusted \/ BudgetPaces(n))
  /\ restored' = (restored /\ ~BudgetPaces(n) /\ ~(limiter.triggered /\ ~Recovered.triggered))
  /\ UNCHANGED <<mode, ring, burstRemaining, armed, budget, left, suspects, resumes,
                 shorts>>

\* The pacer fires and is armed again.
PacerAdvance ==
  /\ Arm(limiter, spec.Jitter, burstRemaining)
  /\ UNCHANGED <<limiter, mode, ring, budget, left, suspects, resumes,
                 adjusted, restored>>

\* applyPreset and applyAdjust: the mode first, then an explicit rate over it.
\* The timer keeps the wait it was armed with.
ApplyAdjust(m, r) ==
  LET inMode == IF m = Unset THEN limiter ELSE SetRateCap(limiter, presetTable[m].RateCap)
  IN  /\ m # Unset \/ r # NoRate
      /\ mode' = IF m = Unset THEN mode ELSE m
      /\ limiter' = IF r = NoRate THEN inMode ELSE SetRateCap(inMode, r)
      /\ burstRemaining' = IF m = Unset THEN burstRemaining ELSE 0
      /\ adjusted' = TRUE /\ restored' = FALSE
      /\ UNCHANGED <<ring, armed, budget, left, suspects, resumes, shorts>>

\* Save and resume: the limiter starts from the configuration, its pacer armed
\* by it, and gets back the rate, the trigger and its time, but not the cap.
SetAIMDState(l, saved, age) ==
  [l EXCEPT !.rate = saved.rate, !.triggered = saved.triggered, !.age = age]

Resume(age) ==
  LET fresh == NewLimiterSpec(StartCap)
  IN  /\ resumes < MaxResumes /\ resumes' = resumes + 1
      /\ age >= limiter.age
      /\ limiter' = SetAIMDState(fresh, limiter, age)
      /\ mode' = StartMode /\ left' = budget
      /\ Arm(fresh, presetTable[StartMode].Jitter, 0)
      /\ restored' = TRUE /\ adjusted' = TRUE
      /\ UNCHANGED <<ring, budget, suspects>>

\* Time passes.
Elapse ==
  /\ limiter.age < MaxAge \/ left > 0
  /\ limiter' = [limiter EXCEPT !.age = IF limiter.age < MaxAge THEN limiter.age + 1 ELSE MaxAge]
  /\ left' = IF left > 0 THEN left - 1 ELSE 0
  /\ UNCHANGED <<mode, ring, burstRemaining, armed, budget, suspects, resumes>>
  /\ UNCHANGED history

Init ==
  /\ mode = StartMode
  /\ limiter = NewLimiterSpec(StartCap)
  /\ ring = <<>> /\ budget \in Budgets /\ left = budget
  /\ \E wait \in Intervals(limiter, spec.Jitter, 0) :
       armed = wait /\ burstRemaining \in BurstAfter(wait, 0)
  /\ suspects = 0 /\ resumes = 0 /\ shorts = 0
  /\ adjusted = FALSE /\ restored = FALSE

Tick == \E n \in FrontierLens : ControllerTick(n)

Next ==
  \/ \E s \in Sample, slow \in BOOLEAN : Response(s, slow)
  \/ Tick
  \/ PacerAdvance
  \/ \E m \in Modes \cup {Unset}, r \in Rates \cup {NoRate} : ApplyAdjust(m, r)
  \/ \E age \in 0..MaxAge : Resume(age)
  \/ Elapse

\* Time passes and the ticker fires; answers and users are free.
Spec == Init /\ [][Next]_vars /\ WF_vars(Elapse) /\ WF_vars(Tick)

-----------------------------------------------------------------------------
(* Properties.                                                              *)

TypeOK ==
  /\ limiter \in Limiters /\ mode \in Mode
  /\ ring \in Seq(Sample) /\ Len(ring) <= RingSize
  /\ burstRemaining \in Nat /\ armed \in Waits
  /\ budget \in Nat /\ left \in Nat
  /\ suspects \in Nat /\ resumes \in Nat /\ shorts \in Nat
  /\ adjusted \in BOOLEAN /\ restored \in BOOLEAN

\* Whatever the order of triggers, recovery steps, budget and user, the scan never
\* goes faster than the cap in force, and is never unbounded under a cap.  Only a
\* rate out of a session file may exceed the cap, until it is next set or regained.
RateWithinCap == limiter.rateCap > 0 /\ ~restored => limiter.rate \in 1..limiter.rateCap

\* "An active backoff must impose real pacing", also of an unbounded scan: until
\* the cap is set anew, a triggered backoff keeps the rate positive and below it.
BackoffPaces ==
  limiter.triggered /\ ~adjusted =>
    /\ limiter.rate > 0
    /\ limiter.rateCap > 0 /\ ~restored => limiter.rate < limiter.rateCap

\* A burst ends: across mode switches, unbounded spells and resumptions there are
\* never more near-back-to-back requests than a burst has without a long pause.
BurstsEnd == shorts + burstRemaining < (3 * BurstMean) \div 2

\* Once the target stops objecting every backoff is lifted, whatever the modes and
\* rates the user sets meanwhile; only fast mode may leave one in place.
Recovers == []<>(~limiter.triggered \/ ~spec.Enabled)
=============================================================================
