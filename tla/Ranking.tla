------------------------------- MODULE Ranking -------------------------------
(***************************************************************************)
(* In which order a scan tries its candidates.  The score of a candidate is  *)
(* a product of what is known when it is computed: the profile of the        *)
(* target, what earlier hits taught (scorer.go, assoc.go, markov.go), the     *)
(* pivot to harvesting, the user's pins, boosts and demotions.  All of that   *)
(* changes while candidates wait in the heap with the score they were given. *)
(*                                                                         *)
(* Two directories: the root and Sub, which a hit or a deep seed may open.   *)
(* When directories end, and what is requested, is Coordinator.              *)
(***************************************************************************)
EXTENDS Profile, Frontier, FiniteSetsExt

CONSTANTS
  Root, Sub, SubName,  \* the directories, and the path of Sub in the root
  FrontPages, ErrorPages,  \* the sets of rules that may match before and after the
                       \* root is calibrated
  NmapPaths,           \* the lists of paths nmap may name
  SensitiveTerms,      \* the words worth trying beside a locked page
  Companions,          \* pairs of paths that come together
  Siblings,            \* pairs of a path and one that continues its numbering
  Shape(_),            \* the naming convention a path follows
  Seeds,               \* the seeds that may arrive: dir, path, kind, base, crawl
  Patterns,            \* the user's patterns: the ids one covers, the one it names
  Factor,              \* the factor of a boost or a demotion
  WSem, WAssoc, WConv, \* Config.ScoreWeights
  MarkovMinSamples, ReprioHits, Orders,
  Concurrency,
  MaxSteps, MaxOverrides  \* bounds: of dispatches, seeds and commands; of commands
                          \* that change scores

Dir == {Root, Sub}

ASSUME RankingAssumption ==
  /\ Root # Sub
  /\ IsFiniteSet(Siblings)
  /\ NmapPaths \subseteq Seq(Seq(STRING))
  /\ Seeds \subseteq [dir : Dir, path : Seq(STRING), kind : STRING, base : Nat, crawl : BOOLEAN]
  /\ \A p \in Patterns : /\ p.covers \subseteq Dir \X Seq(STRING)
                         /\ p.names = <<>> \/ p.names \in Dir \X Seq(STRING)
  /\ Factor \in Nat \ {0} /\ MaxOverrides \in Nat
  /\ WSem \in Nat /\ WAssoc \in Nat /\ WConv \in Nat
  /\ Orders \subseteq {"strict", "band", "explore"}

\* The scale of the scores: a priority of a tenth, one hundredth of a match, a
\* fifth of an association, a tenth for the pivot, and the demotions.
SPABruteForceScoreDown == 10
OverrideScale == Power(Factor, MaxOverrides)
One == 10   \* a base priority of 1
nmapSeedScore == 2 * One * 100 * 5 * SPABruteForceScoreDown * OverrideScale

\* Mutant: a factor the other signals together can reach.
PinScoreLow == 20
PinScore == 1000

VARIABLES
  profile, rootRefined, extSet,
  template,       \* corpusTemplate
  nmapSeeds, lastReprioSig,
  dirs,           \* directory |-> absent, calibrating, scanning
  calibrated,     \* directory |-> the extensions its baseline was built with
  knownPaths, pendingSeeds,
  heap,           \* Frontier.items
  out,            \* candidates dispatched and not yet answered
  order,          \* strict, band (OrderJitter) or explore (Epsilon)
  spaMode, overrides,
  hitTerms,       \* directory |-> paths of learned hits
  trained,        \* hits the naming model was trained with
  sawProtected, sawIndexOf,
  scorerDirty, hitsSinceReprio,
  intervalOver,   \* ReprioInterval has passed since the last sweep
  steps           \* counted for the bound

profileVars == <<profile, rootRefined, extSet, template, nmapSeeds, lastReprioSig>>
dirVars == <<dirs, calibrated>>
seedVars == <<knownPaths, pendingSeeds>>
takeVars == <<out, order>>
heapVars == <<heap, takeVars, steps>>
learnVars == <<hitTerms, trained, sawProtected, sawIndexOf>>
sweepVars == <<scorerDirty, hitsSinceReprio, intervalOver>>
userVars == <<spaMode, overrides>>
vars == <<profileVars, dirVars, seedVars, heapVars, userVars, learnVars, sweepVars>>

Step == steps < MaxSteps /\ steps' = steps + 1

Id(c) == <<c.dir, c.path>>
ExtOf(path) == IF Len(path) > 1 THEN path[Len(path)] ELSE GenericExtension

-----------------------------------------------------------------------------
(* The score of a candidate.  The signals are parameters of the learners'    *)
(* state, so that an action can score with what it has just learned.         *)

isSensitiveCandidate(c) == c.path[1] \in SensitiveTerms \/ c.tags \cap SensitiveTerms # {}

semSignal(c, protected, listed) ==
  IF c.dir \in listed \/ (c.dir \in protected /\ isSensitiveCandidate(c)) THEN 1 ELSE 0

\* In fifths: a companion of a hit, or the extension of one.
assocSignal(c, terms) ==
  IF \E t \in terms[c.dir] : <<t, c.path>> \in Companions THEN 5
  ELSE IF ExtOf(c.path) # GenericExtension /\ \E t \in terms[c.dir] : ExtOf(t) = ExtOf(c.path)
       THEN 3 ELSE 0

\* The likelihood of the name, told apart only as far as a hit had its shape.
convSignal(c, terms, n) ==
  IF n >= MarkovMinSamples /\ \E d \in Dir : \E t \in terms[d] : Shape(t) = Shape(c.path)
  THEN 1 ELSE 0

Boost(c, l) ==
  (1 + WSem * semSignal(c, l.protected, l.listed))
    * (5 + WAssoc * assocSignal(c, l.terms)) * (1 + WConv * convSignal(c, l.terms, l.trained))

overridden(m, ov, id) ==
  CASE id \in ov.covers /\ ov.kind = "boost" -> m * ov.factor
    [] id \in ov.covers /\ ov.kind = "demote" -> m \div ov.factor
    [] OTHER -> m
overrideMultiplier(id, ovs) ==
  LET round(m, i) == overridden(m, ovs[i], id) IN Loop(round, OverrideScale, Len(ovs))

\* All the score depends on.
Knowledge ==
  [profile |-> profile, spa |-> spaMode, overrides |-> overrides, terms |-> hitTerms,
   trained |-> trained, protected |-> sawProtected, listed |-> sawIndexOf]

scoreCandidate(c, k) ==
  CorpusScore(k.profile, c.base, c.tags) * Boost(c, k)
    * (IF k.spa /\ ~c.crawl THEN 1 ELSE SPABruteForceScoreDown)
    * overrideMultiplier(Id(c), k.overrides)

Scored(c, k) == [c EXCEPT !.score = scoreCandidate(c, k)]
Sweep(h, k) == Reprioritize(h, [c \in Range(h) |-> Scored(c, k)])

Candidate(d, path, kind, base, tags, crawl) ==
  [dir |-> d, path |-> path, kind |-> kind, base |-> base, tags |-> tags,
   crawl |-> crawl, nmap |-> 0, score |-> 0]

\* enqueueGenerated, for candidates of one directory: what is not known is pushed
\* with its score.
Unknown(cands, known) == {c \in cands : c.path \notin known}
Enqueued(h, cands, k) ==
  {PushAll(h, [i \in DOMAIN s |-> Scored(s[i], k)]) : s \in Visits(cands)}

-----------------------------------------------------------------------------
(* A directory's candidates: finishCalibration, pushCandidates.              *)

\* mergeSeedCandidate: the template's candidate, upgraded by a waiting seed.
Merged(c, pending) ==
  LET at == {s \in pending : s.path = c.path}
  IN  [c EXCEPT !.base = Max({c.base} \cup {s.base : s \in at}),
                !.crawl = c.crawl \/ \E s \in at : s.crawl]

TemplateFor(d) ==
  [i \in DOMAIN template |->
     Merged(Candidate(d, template[i].path, template[i].kind, template[i].base,
                      template[i].tags, FALSE), pendingSeeds[d])]

NmapCandidates(d) ==
  IF d # Root THEN <<>>
  ELSE [i \in DOMAIN nmapSeeds |->
          [Candidate(Root, nmapSeeds[i], "fullpath", One, {}, FALSE) EXCEPT
             !.nmap = i, !.score = nmapSeedScore]]

\* pushCorpusCandidates (and pushWordlistCandidates): the template, the seeds it
\* does not hold, the paths of nmap with their own score.
PushCandidates(d, h, k) ==
  LET listed == TemplateFor(d)
      paths == {listed[i].path : i \in DOMAIN listed}
      left == Unknown(pendingSeeds[d], paths)
      based == PushAll(h, [i \in DOMAIN listed |-> Scored(listed[i], k)])
  IN  /\ \E g \in Enqueued(based, left, k) : heap' = PushAll(g, NmapCandidates(d))
      /\ knownPaths' = [knownPaths EXCEPT
           ![d] = paths \cup {c.path : c \in left} \cup (IF d = Root THEN Range(nmapSeeds) ELSE {})]
      /\ pendingSeeds' = [pendingSeeds EXCEPT ![d] = {}]
      /\ dirs' = [dirs EXCEPT ![d] = "scanning"]

\* profileTarget and seedRoot: the extensions are taken before nmap has voted, the
\* corpus after.
ProfileAndSeed(matching, named) ==
  LET passive == ProfileTarget(matching)
      p == VoteNmap(passive, matching)
  IN  /\ dirs[Root] = "absent"
      /\ profile' = p /\ extSet' = StackSet(passive)
      /\ \E exts \in ExtensionsForStack(p) : template' = Expand(Select(p), exts, p)
      /\ nmapSeeds' = named
      /\ lastReprioSig' = profileSignature(p)
      /\ dirs' = [dirs EXCEPT ![Root] = "calibrating"]
      /\ calibrated' = [calibrated EXCEPT ![Root] = extSet']
      /\ UNCHANGED <<rootRefined, seedVars, heapVars, userVars, learnVars, sweepVars>>

FinishCalibrationSub ==
  /\ dirs[Sub] = "calibrating"
  /\ PushCandidates(Sub, heap, Knowledge)
  /\ UNCHANGED <<profileVars, calibrated, takeVars, steps, userVars, learnVars, sweepVars>>

\* Mutant: the guard against a second refinement is missing.
RefinesEveryTime == TRUE
Refines == ~rootRefined

\* Mutant: the root goes on with the baseline it has.
RecalibratesNever(exts) == FALSE
Recalibrates(exts) == ~(exts \subseteq extSet)

\* The root: refined once, swept if the profile changed, calibrated again if the
\* stack has extensions its baseline was not built with, pivoted if it is an SPA.
FinishCalibrationRoot(matching, spa) ==
  LET p == IF Refines THEN RefineAfterCalibration(profile, matching) ELSE profile
      refined == [Knowledge EXCEPT !.profile = p]
      swept == IF profileSignature(p) # lastReprioSig THEN Sweep(heap, refined) ELSE heap
      exts == StackSet(p)
      pivot == [refined EXCEPT !.spa = spaMode \/ spa]
  IN  /\ dirs[Root] = "calibrating"
      /\ profile' = p /\ rootRefined' = TRUE /\ lastReprioSig' = profileSignature(p)
      /\ IF Refines /\ Recalibrates(exts)
         THEN /\ extSet' = exts /\ calibrated' = [calibrated EXCEPT ![Root] = exts]
              /\ pendingSeeds' = [pendingSeeds EXCEPT ![Root] = {}]
              /\ heap' = swept
              /\ UNCHANGED <<dirs, knownPaths, spaMode>>
         ELSE /\ PushCandidates(Root, IF spa THEN Sweep(swept, pivot) ELSE swept, pivot)
              /\ spaMode' = pivot.spa
              /\ UNCHANGED <<extSet, calibrated>>
      /\ UNCHANGED <<template, nmapSeeds, takeVars, steps, overrides, learnVars, sweepVars>>

-----------------------------------------------------------------------------
(* popNext and the answers.                                                 *)

PopPositions ==
  CASE order = "strict" -> PopAt(heap)
    [] order = "band" -> PopBandAt(heap)
    [] order = "explore" -> PopAt(heap) \cup (IF Len(heap) > 2 THEN SampleMidTierAt(heap) ELSE {})

PopNext ==
  /\ heap # <<>> /\ Cardinality(out) < Concurrency
  /\ Step
  /\ \E i \in PopPositions : heap' = Pop(heap, i) /\ out' = out \cup {heap[i]}
  /\ UNCHANGED <<profileVars, dirVars, seedVars, order, userVars, learnVars, sweepVars>>

\* enqueueChildDirectory: calibrated with the extensions of the moment.
Opened(opens) ==
  IF opens /\ dirs[Sub] = "absent"
  THEN /\ dirs' = [dirs EXCEPT ![Sub] = "calibrating"]
       /\ calibrated' = [calibrated EXCEPT ![Sub] = extSet]
  ELSE UNCHANGED dirVars
IsDirectory(c) == c.kind = "dir" /\ Id(c) = <<Root, SubName>>

\* A miss, an error, an alias, or a hit that teaches nothing (learnableHit): it
\* may still be a directory.
Answered(c, opens) ==
  /\ c \in out /\ out' = out \ {c}
  /\ opens => IsDirectory(c)
  /\ Opened(opens)
  /\ UNCHANGED <<profileVars, seedVars, heap, order, steps, userVars, learnVars, sweepVars>>

\* assoc.Generate: inherits the hit's priority and tags.
Generate(c) ==
  LET backups == IF c.kind = "file" THEN {Append(c.path, s) : s \in Range(BackupSuffixes)} ELSE {}
      siblings == {pair[2] : pair \in {q \in Siblings : q[1] = c.path}}
  IN  {Candidate(c.dir, path, "file", c.base, c.tags, FALSE) : path \in backups}
        \cup {Candidate(c.dir, path, c.kind, c.base, c.tags, FALSE) : path \in siblings}

SweepDue == hitsSinceReprio + 1 >= ReprioHits \/ intervalOver

\* learnableHit: a directory that answers everything with its application page
\* teaches nothing.  Low confidence and a suspected wildcard are Answered.
learnableHit(d) == d = Root => ~spaMode

\* learnFromHit, markScorerDirty, and the child directory of handleHit.
\* what: how the answer looked.
LearnFromHit(c, what, opens) ==
  LET protected == sawProtected \cup IF what = "protected" THEN {c.dir} ELSE {}
      listed == sawIndexOf \cup IF what = "listing" /\ Id(c) = <<Root, SubName>> THEN {Sub} ELSE {}
      terms == [hitTerms EXCEPT ![c.dir] = @ \cup {c.path}]
      k == [Knowledge EXCEPT !.protected = protected, !.listed = listed, !.terms = terms,
                             !.trained = trained + 1]
      new == Unknown(Generate(c), knownPaths[c.dir])
  IN  /\ c \in out /\ learnableHit(c.dir) /\ out' = out \ {c}
      /\ hitTerms' = terms /\ trained' = trained + 1
      /\ sawProtected' = protected /\ sawIndexOf' = listed
      /\ \E g \in Enqueued(heap, new, k) : heap' = IF SweepDue THEN Sweep(g, k) ELSE g
      /\ knownPaths' = [knownPaths EXCEPT ![c.dir] = @ \cup {n.path : n \in new}]
      /\ scorerDirty' = ~SweepDue
      /\ hitsSinceReprio' = IF SweepDue THEN 0 ELSE hitsSinceReprio + 1
      /\ intervalOver' = (intervalOver /\ ~SweepDue)
      /\ opens => IsDirectory(c)
      /\ Opened(opens)
      /\ UNCHANGED <<profileVars, pendingSeeds, order, steps, userVars>>

\* Time: the interval is over.  Nothing happens until the next hit.
Elapse ==
  /\ ~intervalOver /\ intervalOver' = TRUE
  /\ UNCHANGED <<profileVars, dirVars, seedVars, heapVars, userVars, learnVars,
                 scorerDirty, hitsSinceReprio>>

-----------------------------------------------------------------------------
(* Seeds: enqueueSeed, ensureDirChain, stageDirCandidate.                    *)

Upgraded(c, by) == [c EXCEPT !.base = Max({c.base, by.base}), !.crawl = c.crawl \/ by.crawl]

\* Mutant: the upgraded candidate keeps its score.
UpgradedUnscored(e, by, k) == Upgraded(e, by)

UpgradedScored(e, by, k) == Scored(Upgraded(e, by), k)

\* A directory that is scanning takes the candidate at once: one that is queued at
\* its path is upgraded and scored again, one that was requested stays.  Any other
\* directory keeps it until it is calibrated.
stageDirCandidate(s, c, k) ==
  LET waiting == {w \in s.pending[c.dir] : w.path = c.path}
      upgrade == [e \in Range(s.heap) |-> UpgradedScored(e, c, k)]
  IN  IF dirs[c.dir] = "scanning"
      THEN IF c.path \in s.known[c.dir]
           THEN [s EXCEPT !.heap = UpdateMatching(@, Id(c), upgrade)]
           ELSE [s EXCEPT !.heap = Push(@, Scored(c, k)), !.known[c.dir] = @ \cup {c.path}]
      ELSE [s EXCEPT !.pending[c.dir] =
              IF waiting = {} THEN @ \cup {c}
              ELSE (@ \ waiting) \cup {Upgraded(w, c) : w \in waiting}]

SeedCandidate(d, path, kind, sd) == Candidate(d, path, kind, sd.base, {"generic"}, sd.crawl)

\* A deep seed opens its directory, and queues it in the root as well.
enqueueSeed(sd, h, k) ==
  LET now == [heap |-> h, known |-> knownPaths, pending |-> pendingSeeds]
      chain == IF sd.dir = Root THEN now
               ELSE stageDirCandidate(now, SeedCandidate(Root, SubName, "dir", sd), k)
      all == stageDirCandidate(chain, SeedCandidate(sd.dir, sd.path, sd.kind, sd), k)
  IN  /\ heap' = all.heap /\ knownPaths' = all.known /\ pendingSeeds' = all.pending
      /\ Opened(sd.dir = Sub)

\* Seeds and commands come once the target is profiled.
Event == dirs[Root] # "absent" /\ Step

\* From the passive sources, from a batch, or injected by the user.
Seed(sd) ==
  /\ Event /\ enqueueSeed(sd, heap, Knowledge)
  /\ UNCHANGED <<profileVars, takeVars, spaMode, overrides, learnVars, sweepVars>>

-----------------------------------------------------------------------------
(* The user: control.go.                                                    *)

Commanded(ov) == [Knowledge EXCEPT !.overrides = Append(@, ov)]
OverridesOf(kinds) == {i \in DOMAIN overrides : overrides[i].kind \in kinds}
MayOverride ==
  Event /\ Cardinality(OverridesOf({"boost", "demote"})) < MaxOverrides

\* A pin is a boost nothing else reaches; a pattern that names a path also queues it.
ApplyPin(p) ==
  LET k == Commanded([kind |-> "boost", factor |-> PinScore, covers |-> p.covers])
      swept == Sweep(heap, k)
  IN  /\ MayOverride /\ overrides' = k.overrides
      /\ IF p.names = <<>> THEN heap' = swept /\ UNCHANGED <<knownPaths, pendingSeeds, dirVars>>
         ELSE enqueueSeed([dir |-> p.names[1], path |-> p.names[2], kind |-> "file",
                           base |-> One, crawl |-> FALSE], swept, k)
      /\ UNCHANGED <<profileVars, takeVars, spaMode, learnVars, sweepVars>>

ApplyOverride(p, kind) ==
  LET k == Commanded([kind |-> kind, factor |-> Factor, covers |-> p.covers])
  IN  /\ MayOverride /\ overrides' = k.overrides /\ heap' = Sweep(heap, k)
      /\ UNCHANGED <<profileVars, dirVars, seedVars, takeVars, spaMode, learnVars, sweepVars>>

ApplyExclude(p) ==
  LET covered == {c \in Range(heap) : Id(c) \in p.covers}
  IN  /\ Event
      /\ overrides' = Append(overrides, [kind |-> "exclude", factor |-> 1, covers |-> p.covers])
      /\ heap' = RemoveMatching(heap, covered)
      /\ UNCHANGED <<profileVars, dirVars, seedVars, takeVars, spaMode, learnVars, sweepVars>>

-----------------------------------------------------------------------------
Init ==
  /\ profile = newTargetProfile /\ rootRefined = FALSE /\ extSet = {} /\ template = <<>>
  /\ nmapSeeds = <<>> /\ lastReprioSig = profileSignature(newTargetProfile)
  /\ dirs = [d \in Dir |-> "absent"] /\ calibrated = [d \in Dir |-> {}]
  /\ knownPaths = [d \in Dir |-> {}] /\ pendingSeeds = [d \in Dir |-> {}]
  /\ heap = <<>> /\ out = {} /\ order \in Orders
  /\ spaMode = FALSE /\ overrides = <<>> /\ steps = 0
  /\ hitTerms = [d \in Dir |-> {}] /\ trained = 0 /\ sawProtected = {} /\ sawIndexOf = {}
  /\ scorerDirty = FALSE /\ hitsSinceReprio = 0
  /\ intervalOver = TRUE   \* lastDynReprio is the zero time

Next ==
  \/ \E matching \in FrontPages, named \in NmapPaths : ProfileAndSeed(matching, named)
  \/ FinishCalibrationSub
  \/ \E matching \in ErrorPages, spa \in BOOLEAN :
       FinishCalibrationRoot(matching, spa)
  \/ PopNext
  \/ \E c \in out, opens \in BOOLEAN :
       \/ Answered(c, opens)
       \/ \E what \in {"plain", "protected", "listing"} : LearnFromHit(c, what, opens)
  \/ Elapse
  \/ \E sd \in Seeds : Seed(sd)
  \/ \E p \in Patterns :
       \/ ApplyPin(p)
       \/ ApplyOverride(p, "boost")
       \/ ApplyOverride(p, "demote")
       \/ ApplyExclude(p)

Spec == Init /\ [][Next]_vars

-----------------------------------------------------------------------------
(* Properties.                                                              *)

Ident(c) == <<c.dir, c.path, c.nmap>>
Excluded ==
  {<<id[1], id[2], n>> : id \in UNION {overrides[i].covers : i \in OverridesOf({"exclude"})},
                         n \in 0..Len(nmapSeeds)}

\* The heap with its sweeps, removals and upgrades in place is the queue the scan
\* loop relies on: what popNext takes is the best or one the order allows, and only
\* a dispatch or an exclusion takes a candidate out.
Abstract == INSTANCE PriorityQueue WITH
  queue <- {[id |-> Ident(heap[i]), score |-> heap[i].score] : i \in DOMAIN heap},
  out <- {Ident(c) : c \in out}, excluded <- Excluded, order <- order
Implements == Abstract!Spec

\* Whenever the scorer is not marked dirty, every candidate waits with the score it
\* would be given now: each of the changes (the refined profile, the pivot, a hit, a
\* command, a seed that upgrades) sweeps or scores what it touches.  Only a path of
\* nmap may still have the score it was pushed with.
ScoresCurrent ==
  ~scorerDirty =>
    \A i \in DOMAIN heap :
      \/ heap[i].score = scoreCandidate(heap[i], Knowledge)
      \/ heap[i].nmap > 0 /\ heap[i].score = nmapSeedScore

\* A candidate the user pinned is dispatched before every other, whatever the
\* profile, the hits and the pivot say of the others and whenever it was queued
\* (config.go of PinScore: "a pinned candidate always sorts first"); exploration may
\* pass it over.
Pinned(c) == overrideMultiplier(Id(c), overrides) >= PinScore * OverrideScale
PinnedFirst ==
  [][\A c \in out' \ out :
       order # "explore" /\ ~Pinned(c) =>
         \A i \in DOMAIN heap : Pinned(heap[i]) => heap[i].nmap > 0]_vars

\* No rule votes twice for a technology, though the root may be calibrated twice and
\* the rules come in layers that replace one another: a vote repeated would count the
\* same evidence again.
VotesOnce == \A name \in DOMAIN profile : IsInjective(profile[name].ruleIDs)

\* The root's candidates are judged by a baseline that was probed with every
\* extension of the stack as it is known, what nmap and the error page added
\* included.
ExtensionsCalibrated == dirs[Root] = "scanning" => StackSet(profile) \subseteq calibrated[Root]
=============================================================================
