------------------------------- MODULE Profile -------------------------------
(***************************************************************************)
(* What is known of the target's software (internal/profile) and the        *)
(* candidates the corpus offers for it (internal/corpus): rules vote for     *)
(* technologies, votes are fused into a confidence and a layer, and the      *)
(* technologies that are not a proxy's select and expand the corpus.         *)
(*                                                                         *)
(* Which rules match an answer (regular expressions, hashes) is left open.   *)
(* Confidences are percentages.  A profile is a function of the technologies *)
(* voted for; a path is a word followed by its extensions.                   *)
(***************************************************************************)
EXTENDS Loops

CONSTANTS
  Embedded, SystemRules, UserRules,  \* the layers of rules, each a sequence
  Detections,         \* what wappalyzer and nmap may find, each a vote of its own
  RulesOff,           \* the categories dropped
  FaviconProbe, ActiveProbes,        \* Config
  StackExtensions,    \* technology |-> the extensions it implies, a sequence
  Corpus,             \* the terms of the corpus, by weight
  CorpusMax,          \* the most terms taken, 0 for all
  SensitiveStems,     \* the words whose backups are worth trying
  BackupSuffixes,
  TechBoostW          \* the weight of a matching technology

GenericExtension == ""
NoCategory == ""
ActiveProbeConfLo == 40
ActiveProbeConfHi == 75
Layers == {"backend", "edge", "unknown"}

\* A rule votes for a technology; the pattern that makes it match is left out.
Sources == {"header", "cookie", "html", "favicon", "errorpage", "activeprobe", "waf",
            "wappalyzer", "nmap"}
Detectors == {"wappalyzer", "nmap"}
Rule(sources) ==
  [id : STRING, source : sources, tech : STRING, category : STRING, layer : Layers,
   confidence : 0..100]
Term == [path : Seq(STRING), kind : STRING, base : Nat, tags : SUBSET STRING]

\* Within a layer and a source every rule has its own id.
ASSUME ProfileAssumption ==
  /\ {Embedded, SystemRules, UserRules} \subseteq Seq(Rule(Sources \ Detectors))
  /\ Detections \in Seq(Rule(Detectors))
  /\ \A rules \in {Embedded, SystemRules, UserRules, Detections} :
       \A i, j \in DOMAIN rules :
         rules[i].id = rules[j].id /\ rules[i].source = rules[j].source => i = j
  /\ FaviconProbe \in BOOLEAN /\ ActiveProbes \in BOOLEAN
  /\ \A name \in DOMAIN StackExtensions : StackExtensions[name] \in Seq(STRING)
  /\ Corpus \in Seq(Term) /\ CorpusMax \in Nat
  /\ BackupSuffixes \in Seq(STRING)
  /\ TechBoostW \in Nat \ {0}

\* Every vote that is not a probe's says of which category its technology is: the
\* embedded rules and nmap do; a rule file of the user may leave it out, and
\* wappalyzer has technologies it files nowhere.
Categorised ==
  \A rules \in {Embedded, SystemRules, UserRules, Detections} :
    \A i \in DOMAIN rules : rules[i].source # "activeprobe" => rules[i].category # NoCategory

-----------------------------------------------------------------------------
(* The rules: ruleset.go.                                                   *)

\* A rule of the overlay takes the place of the one with its id.
Key(r) == <<r.source, r.id>>
mergeByID(base, overlay) ==
  LET keys(rules) == {Key(rules[i]) : i \in DOMAIN rules}
      over(r) == overlay[CHOOSE i \in DOMAIN overlay : Key(overlay[i]) = Key(r)]
  IN  [i \in DOMAIN base |-> IF Key(base[i]) \in keys(overlay) THEN over(base[i]) ELSE base[i]]
        \o Subsequence(overlay, {i \in DOMAIN overlay : Key(overlay[i]) \notin keys(base)})

\* The rules for active probes and for firewalls have no category to drop.
applyRulesOff(rules) ==
  Subsequence(rules, {i \in DOMAIN rules : \/ rules[i].source \in {"activeprobe", "waf"}
                                           \/ rules[i].category \notin RulesOff})

Load == applyRulesOff(mergeByID(mergeByID(Embedded, SystemRules), UserRules))

\* The rules of one source, in their order.
From(source) ==
  LET all == Load \o Detections
  IN  Subsequence(all, {i \in DOMAIN all : all[i].source = source})

-----------------------------------------------------------------------------
(* The profile: types.go.                                                   *)

newTargetProfile == <<>>

NoTech == [confidence |-> 0, category |-> NoCategory, votes |-> [l \in Layers |-> 0],
           layer |-> "unknown", ruleIDs |-> <<>>]
TechIn(p, name) == IF name \in DOMAIN p THEN p[name] ELSE NoTech

\* noisy-OR, kept below certainty.
Fused(a, b) ==
  LET c == 100 - ((100 - a) * (100 - b)) \div 100 IN IF c > 99 THEN 99 ELSE c

majorityLayer(votes) ==
  IF votes["backend"] > votes["edge"] THEN "backend"
  ELSE IF votes["edge"] > votes["backend"] THEN "edge" ELSE "unknown"

vote(p, r) ==
  LET t == TechIn(p, r.tech)
      votes == [t.votes EXCEPT ![r.layer] = @ + 1]
      voted == [confidence |-> Fused(t.confidence, r.confidence),
                category |-> IF t.category = NoCategory THEN r.category ELSE t.category,
                votes |-> votes, layer |-> majorityLayer(votes),
                ruleIDs |-> Append(t.ruleIDs, Key(r))]
  IN  [name \in DOMAIN p \cup {r.tech} |-> IF name = r.tech THEN voted ELSE p[name]]

\* Technologies of the edge imply nothing of the backend.
Behind(p) == {name \in DOMAIN p : p[name].layer # "edge"}

\* Every element once, at its first place.
Firsts(s) == Subsequence(s, {i \in DOMAIN s : \A j \in 1..(i - 1) : s[j] # s[i]})

\* The extensions of the stack, then those of every scan.  The technologies are
\* visited in the order of a map, which is any.
ExtensionsForStack(p) ==
  LET of(name) == IF name \in DOMAIN StackExtensions THEN StackExtensions[name] ELSE <<>>
      all(names) == Flatten([i \in DOMAIN names |-> of(names[i])]) \o <<GenericExtension>>
  IN  {Firsts(all(names)) : names \in Visits(Behind(p))}

\* As a set it does not depend on that order.
StackSet(p) == UNION {Range(exts) : exts \in ExtensionsForStack(p)}

MatchScore(p, tags) ==
  LET matched == {0} \cup {p[name].confidence : name \in
                     {n \in DOMAIN p : n \in tags \/ p[n].category \in tags}}
  IN  CHOOSE m \in matched : \A n \in matched : m >= n

\* corpus.Score, in hundredths.
CorpusScore(p, base, tags) == base * (100 + TechBoostW * MatchScore(p, tags))

profileSignature(p) == [name \in DOMAIN p |-> p[name].confidence]

-----------------------------------------------------------------------------
(* The signals: signals.go, waf.go, wappalyzer.go, favicon.go, nmap.go,      *)
(* activeprobe.go.  matching is the set of ids of the rules that match.      *)

VoteAll(p, rules, matching) ==
  LET round(q, i) == IF rules[i].id \in matching THEN vote(q, rules[i]) ELSE q
  IN  Loop(round, p, Len(rules))

applyHeaderSignals(p, matching) == VoteAll(p, From("header"), matching)
applyCookieSignals(p, matching) == VoteAll(p, From("cookie"), matching)
applyHTMLSignals(p, matching) == VoteAll(p, From("html"), matching)
detectWAF(p, matching) == VoteAll(p, From("waf"), matching)
applyWappalyzerSignal(p, matching) == VoteAll(p, From("wappalyzer"), matching)
applyFaviconSignal(p, matching) == VoteAll(p, From("favicon"), matching)
VoteNmap(p, matching) == VoteAll(p, From("nmap"), matching)
ApplyErrorPageSignal(p, matching) == VoteAll(p, From("errorpage"), matching)

\* The root page, then the icon; a request out of scope or without an answer
\* matches nothing.
ProfileTarget(matching) ==
  LET headers == applyHeaderSignals(newTargetProfile, matching)
      cookies == applyCookieSignals(headers, matching)
      html == applyHTMLSignals(cookies, matching)
      waf == detectWAF(html, matching)
      page == applyWappalyzerSignal(waf, matching)
  IN  IF FaviconProbe THEN applyFaviconSignal(page, matching) ELSE page

\* A probe confirms a technology that is likely but not certain, in its layer.
probe(q, r, confirming) ==
  IF /\ r.tech \in DOMAIN q /\ r.id \in confirming
     /\ q[r.tech].confidence >= ActiveProbeConfLo
     /\ q[r.tech].confidence < ActiveProbeConfHi
  THEN vote(q, [r EXCEPT !.category = q[r.tech].category, !.layer = q[r.tech].layer])
  ELSE q
runActiveProbes(p, confirming) ==
  LET rules == From("activeprobe")
      round(q, i) == probe(q, rules[i], confirming)
  IN  Loop(round, p, Len(rules))

RefineAfterCalibration(p, matching) ==
  LET paged == ApplyErrorPageSignal(p, matching)
  IN  IF ActiveProbes THEN runActiveProbes(paged, matching) ELSE paged

-----------------------------------------------------------------------------
(* The corpus: select.go, expand.go.  A term has a path, a kind, a weight    *)
(* and tags; what is selected has a base priority in tenths.                 *)

tagSetFor(p) == {"generic", "backup"} \cup Behind(p) \cup {p[n].category : n \in Behind(p)}

\* A term brings only the tags it was selected by.
Select(p) ==
  LET tagged == [i \in DOMAIN Corpus |-> [Corpus[i] EXCEPT !.tags = @ \cap tagSetFor(p)]]
      terms == Subsequence(tagged, {i \in DOMAIN tagged : tagged[i].tags # {}})
  IN  IF CorpusMax > 0 /\ Len(terms) > CorpusMax THEN SubSeq(terms, 1, CorpusMax) ELSE terms

Joined(path, ext) == IF ext = GenericExtension THEN path ELSE Append(path, ext)

backupsFor(c) ==
  IF c.kind # "file" \/ c.path[1] \notin SensitiveStems THEN <<>>
  ELSE [i \in DOMAIN BackupSuffixes |->
          [c EXCEPT !.path = Append(c.path, BackupSuffixes[i]), !.base = (c.base * 13) \div 10]]

\* The first extension keeps the priority, each later one gets a tenth less.
Decayed(base, i) ==
  LET b == (base * Power(9, i - 1)) \div Power(10, i - 1) IN IF b > 0 THEN b ELSE 1
expandStem(c, exts) ==
  LET file(i) == [c EXCEPT !.path = Joined(c.path, exts[i]), !.kind = "file",
                           !.base = Decayed(c.base, i)]
  IN  Flatten([i \in DOMAIN exts |-> <<file(i)>> \o backupsFor(file(i))])

\* A generic word is a file or a directory by its dots, whatever its list says.
Shaped(c) ==
  IF "generic" \in c.tags /\ c.kind \in {"dir", "file"}
  THEN [c EXCEPT !.kind = IF Len(c.path) > 1 THEN "file" ELSE "dir"] ELSE c

hasBackendStack(exts) == \E i \in DOMAIN exts : exts[i] # GenericExtension

\* Behind a known stack a generic directory is tried as a stem as well.
expandTerm(term, exts) ==
  LET c == Shaped(term)
  IN  CASE c.kind = "stem" -> expandStem(c, exts)
        [] c.kind = "dir" -> <<c>> \o (IF "generic" \in c.tags /\ hasBackendStack(exts)
                                       THEN expandStem(c, exts) ELSE <<>>)
        [] OTHER -> <<c>> \o backupsFor(c)

\* One candidate per path, at its first place: priority and kind of the best one,
\* all the tags, and a directory if it was one anywhere.
dedup(cands, p) ==
  LET worth(j) == CorpusScore(p, cands[j].base, cands[j].tags)
      same(i) == {j \in DOMAIN cands : cands[j].path = cands[i].path}
      best(i) == CHOOSE j \in same(i) :
                   \A k \in same(i) : worth(j) > worth(k) \/ (worth(j) = worth(k) /\ j <= k)
      one(i) == [cands[best(i)] EXCEPT
                   !.kind = IF \E j \in same(i) : cands[j].kind = "dir" THEN "dir" ELSE @,
                   !.tags = UNION {cands[j].tags : j \in same(i)}]
  IN  Subsequence([i \in DOMAIN cands |-> one(i)],
                  {i \in DOMAIN cands : \A j \in same(i) : i <= j})

Expand(terms, exts, p) ==
  dedup(Flatten([i \in DOMAIN terms |-> expandTerm(terms[i], exts)]), p)
=============================================================================
