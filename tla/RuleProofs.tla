------------------------------ MODULE RuleProofs ------------------------------
(***************************************************************************)
(* Proofs about the rules of the service: the judgement of a release, for  *)
(* every set of rules, every registry document and every amount of         *)
(* evidence, the rebuilding of the table from a data directory of any      *)
(* number of releases, whatever was cut off, the graph and the scores that *)
(* files of any length merge into, and the install hooks of two releases.  *)
(* The properties are those of MCJudgement, DataDirectory, MCRules and     *)
(* MCHistory.                                                              *)
(***************************************************************************)
EXTENDS MCHistory, DataDirectory, FiniteSetTheorems, WellFoundedInduction, TLAPS

-----------------------------------------------------------------------------
(* Evidence of any size.                                                   *)

RuleMatches == [rule : Rules, pattern : BOOLEAN]

ContentSignals == {c \in [matches : SUBSET RuleMatches, iocs : BOOLEAN] : IsFiniteSet(c.matches)}

HookDiffs ==
    {NoHook} \cup [known : {TRUE}, target : BOOLEAN, longstanding : BOOLEAN, changed : BOOLEAN]

DiffCounts ==
    [added : Nat, removed : Nat, changed : Nat, manifest_only : BOOLEAN, hook : HookDiffs]

AssessedEvidence ==
    [tier : Tiers, dependents : Nat, status : {"active", "yanked", "removed", "unknown"},
     prerelease : BOOLEAN, scripts : BOOLEAN, longstanding : BOOLEAN, benign : BOOLEAN,
     metadata : [score : Int, suspicious : BOOLEAN], content : ContentSignals,
     burst : BOOLEAN, mismatch : BOOLEAN, diff : DiffCounts]

\* The one has everything against the release that the other has.
ContentAtLeast(worse, content) ==
    content.matches \subseteq worse.matches /\ (content.iocs => worse.iocs)

AtLeast(worse, evidence) ==
    /\ ContentAtLeast(worse.content, evidence.content)
    /\ RiskyInstall(evidence) => RiskyInstall(worse)
    /\ evidence.metadata.suspicious => worse.metadata.suspicious
    /\ evidence.burst => worse.burst
    /\ evidence.status \in {"removed", "yanked"} => worse.status \in {"removed", "yanked"}
    /\ Impacted(evidence) => Impacted(worse)
    /\ Touched(evidence.diff) <= Touched(worse.diff)
    /\ evidence.diff.changed <= worse.diff.changed

-----------------------------------------------------------------------------
(* Content.                                                                *)

\* Behaviours are those of the two tables, whatever a rule is called.
AllBehaviors == DOMAIN TagBehaviors \cup DOMAIN NameBehaviors

BehaviorsOf(matches) == UNION {Profile[m.rule].behavior_tags : m \in matches}

\* A finite set has a finite image.
LEMMA ImageIsFinite ==
    ASSUME NEW S, IsFiniteSet(S), NEW f, DOMAIN f = S
    PROVE  IsFiniteSet({f[x] : x \in S})
<1> DEFINE T == {f[x] : x \in S}
           g == [x \in S |-> f[x]]
<1>1. g \in Surjection(S, T)
  BY DEF Surjection
<1>2. QED  BY <1>1, FS_Surjection

\* Finitely many matches show finitely many behaviors.
LEMMA BehaviorsAreFinite ==
    ASSUME NEW matches \in SUBSET RuleMatches
    PROVE  /\ IsFiniteSet(BehaviorsOf(matches))
           /\ IsFiniteSet({BehaviorGroup(t) : t \in BehaviorsOf(matches)})
<1>1. IsFiniteSet(DOMAIN TagBehaviors) /\ IsFiniteSet(DOMAIN NameBehaviors)
  <2> DEFINE tags  == <<"remote_fetch", "dynamic_execution", "install_or_build_execution", "callback",
             "reconnaissance", "exfiltration", "command_and_control",
             "credential_or_wallet_theft", "shell_execution", "persistence_or_propagation",
             "target_mutation", "ci_targeting", "crypto_targeting">>
             names == <<"remote_fetch", "dynamic_execution", "callback", "reconnaissance", "exfiltration",
             "command_and_control", "shell_execution", "credential_or_wallet_theft",
             "browser_targeting", "persistence_or_propagation", "target_mutation",
             "cloud_exfiltration", "ci_targeting", "install_or_build_execution", "payload_drop",
             "obfuscation", "evasion", "discord_or_telegram_channel", "crypto_targeting">>
  <2>1. DOMAIN TagBehaviors \subseteq {tags[i] : i \in 1..13}
    BY DEF TagBehaviors
  <2>2. DOMAIN NameBehaviors \subseteq {names[i] : i \in 1..19}
    BY DEF NameBehaviors
  <2>3. IsFiniteSet(1..13) /\ DOMAIN tags = 1..13
    <3>1. 1 \in Int /\ 13 \in Int
      OBVIOUS
    <3>2. IsFiniteSet(1..13)
      BY <3>1, FS_Interval
    <3>3. QED  BY <3>2
  <2>4. IsFiniteSet(1..19) /\ DOMAIN names = 1..19
    <3>1. 1 \in Int /\ 19 \in Int
      OBVIOUS
    <3>2. IsFiniteSet(1..19)
      BY <3>1, FS_Interval
    <3>3. QED  BY <3>2
  <2> HIDE DEF tags, names
  <2>5. IsFiniteSet({tags[i] : i \in 1..13}) /\ IsFiniteSet({names[i] : i \in 1..19})
    BY <2>3, <2>4, ImageIsFinite
  <2>6. QED  BY <2>1, <2>2, <2>5, FS_Subset
<1>2. IsFiniteSet(AllBehaviors)
  BY <1>1, FS_Union DEF AllBehaviors
<1>3. BehaviorsOf(matches) \subseteq AllBehaviors
  <2>1. ASSUME NEW m \in matches PROVE Profile[m.rule].behavior_tags \subseteq AllBehaviors
    <3>1. m.rule \in Rules
      BY DEF RuleMatches
    <3>2. Profile[m.rule].behavior_tags = DeriveBehaviorTags(m.rule.name, m.rule.tags)
      BY <3>1 DEF Profile
    <3>3. QED  BY <3>2 DEF DeriveBehaviorTags, AllBehaviors
  <2>2. QED  BY <2>1 DEF BehaviorsOf
<1>4. IsFiniteSet(BehaviorsOf(matches))
  BY <1>2, <1>3, FS_Subset
<1>5. IsFiniteSet({BehaviorGroup(t) : t \in BehaviorsOf(matches)})
  <2> DEFINE group == [t \in BehaviorsOf(matches) |-> BehaviorGroup(t)]
  <2>1. IsFiniteSet({group[t] : t \in BehaviorsOf(matches)})
    BY <1>4, ImageIsFinite
  <2>2. {group[t] : t \in BehaviorsOf(matches)} = {BehaviorGroup(t) : t \in BehaviorsOf(matches)}
    OBVIOUS
  <2>3. QED  BY <2>1, <2>2
<1>6. QED  BY <1>4, <1>5

\* More matches are no less of a chain.
LEMMA ConfidenceGrows ==
    ASSUME NEW content \in ContentSignals, NEW worse \in ContentSignals,
           ContentAtLeast(worse, content), ConfidentMalware(content)
    PROVE  ConfidentMalware(worse)
<1> DEFINE few  == OfClass(content, "malicious_behavior")
           many == OfClass(worse, "malicious_behavior")
           few_tags  == BehaviorsOf(few)
           many_tags == BehaviorsOf(many)
           few_groups  == {BehaviorGroup(t) : t \in few_tags}
           many_groups == {BehaviorGroup(t) : t \in many_tags}
           few_borne  == content.iocs \/ \E m \in few : m.pattern
           many_borne == worse.iocs \/ \E m \in many : m.pattern
<1>1. few \subseteq many /\ many \in SUBSET RuleMatches /\ IsFiniteSet(many) /\ few \in SUBSET RuleMatches
  <2>1. many \subseteq worse.matches /\ IsFiniteSet(worse.matches) /\ worse.matches \subseteq RuleMatches
    BY DEF OfClass, ContentSignals
  <2>2. few \subseteq many
    BY DEF OfClass, ContentAtLeast
  <2>3. QED  BY <2>1, <2>2, FS_Subset
<1>2. few_tags \subseteq many_tags /\ few_groups \subseteq many_groups
  BY <1>1 DEF BehaviorsOf
<1>3. IsFiniteSet(many_tags) /\ IsFiniteSet(many_groups)
  BY <1>1, BehaviorsAreFinite
<1>4. /\ Cardinality(few) <= Cardinality(many)
      /\ Cardinality(few_tags) <= Cardinality(many_tags)
      /\ Cardinality(few_groups) <= Cardinality(many_groups)
      /\ Cardinality(few) \in Nat /\ Cardinality(few_tags) \in Nat /\ Cardinality(few_groups) \in Nat
      /\ Cardinality(many) \in Nat /\ Cardinality(many_tags) \in Nat /\ Cardinality(many_groups) \in Nat
  <2>1. ASSUME NEW S, NEW T, IsFiniteSet(T), S \subseteq T
        PROVE  Cardinality(S) <= Cardinality(T) /\ Cardinality(S) \in Nat /\ Cardinality(T) \in Nat
    BY <2>1, FS_Subset, FS_CardinalityType
  <2> HIDE DEF few, many, few_tags, many_tags, few_groups, many_groups
  <2>2. QED  BY <1>1, <1>2, <1>3, <2>1
<1>5. few_borne => many_borne
  BY <1>1 DEF ContentAtLeast
<1>6. (\E m \in few : Profile[m.rule].strong) => \E m \in many : Profile[m.rule].strong
  BY <1>1
<1>7. \/ /\ \E m \in few : Profile[m.rule].strong
         /\ few_borne \/ Cardinality(few_groups) >= 2 \/ Cardinality(few_tags) >= 2
      \/ Cardinality(few_groups) >= 2 /\ few_borne /\ Cardinality(few) >= 2
  BY DEF ConfidentMalware, BehaviorsOf
<1>8. \/ /\ \E m \in many : Profile[m.rule].strong
         /\ many_borne \/ Cardinality(many_groups) >= 2 \/ Cardinality(many_tags) >= 2
      \/ Cardinality(many_groups) >= 2 /\ many_borne /\ Cardinality(many) >= 2
  <2> HIDE DEF few, many, few_tags, many_tags, few_groups, many_groups, few_borne, many_borne
  <2>1. QED  BY <1>4, <1>5, <1>6, <1>7
<1>9. QED  BY <1>8 DEF ConfidentMalware, BehaviorsOf

-----------------------------------------------------------------------------
(* The verdict.                                                            *)

\* What makes a verdict a warning, whatever else there is ...
Alarming(evidence) ==
    \/ OfClass(evidence.content, "malicious_behavior") # {}
    \/ OfClass(evidence.content, "risky_installer") # {}
    \/ OfClass(evidence.content, "invasive_tooling") # {}
    \/ RiskyInstall(evidence)
    \/ evidence.metadata.suspicious
    \/ evidence.burst
    \/ evidence.status \in {"removed", "yanked"} /\ ContentChanged(evidence) /\ Impacted(evidence)

\* ... and what does so unless it is excused.
Sweeping(evidence) == ContentLarge(evidence) /\ Impacted(evidence)

Severities == DOMAIN SeverityRank
Classes == {"malware", "suspicious_unknown", "risky_installer", "invasive_tooling", "clean"}

\* The severity of a verdict, without the order of the early returns.
LEMMA SeverityIs ==
    ASSUME NEW evidence
    PROVE  AssessRelease(evidence).severity =
               IF ConfidentMalware(evidence.content) THEN "high"
               ELSE IF Alarming(evidence) \/ (~Excused(evidence) /\ Sweeping(evidence))
               THEN "warning" ELSE "informational"
<1> DEFINE verdict == AssessRelease(evidence)
<1>1. CASE ConfidentMalware(evidence.content)
  <2>1. verdict = Verdict("high", "malware")
    BY <1>1 DEF AssessRelease
  <2>2. QED  BY <1>1, <2>1 DEF Verdict
<1>2. CASE ~ConfidentMalware(evidence.content) /\ Alarming(evidence)
  <2>1. \/ verdict = Verdict("warning", "suspicious_unknown")
        \/ verdict = Verdict("warning", "risky_installer")
        \/ verdict = Verdict("warning", "invasive_tooling")
    BY <1>2 DEF AssessRelease, Alarming
  <2>2. QED  BY <1>2, <2>1 DEF Verdict
<1>3. CASE ~ConfidentMalware(evidence.content) /\ ~Alarming(evidence)
  <2>1. verdict = IF Excused(evidence) THEN Verdict("informational", "clean")
                  ELSE IF Sweeping(evidence) THEN Verdict("warning", "suspicious_unknown")
                  ELSE Verdict("informational", "clean")
    BY <1>3 DEF AssessRelease, Alarming, Excused, Sweeping
  <2>2. QED  BY <1>3, <2>1 DEF Verdict
<1>4. QED  BY <1>1, <1>2, <1>3

\* A verdict of which something is suspicious is no information.
LEMMA SuspiciousIs ==
    ASSUME NEW evidence
    PROVE  AssessRelease(evidence).suspicious <=>
               \/ ConfidentMalware(evidence.content) \/ Alarming(evidence)
               \/ ~Excused(evidence) /\ Sweeping(evidence)
<1>1. \E severity \in Severities, class \in Classes : AssessRelease(evidence) = Verdict(severity, class)
  BY DEF AssessRelease, Severities, SeverityRank, Classes
<1>2. PICK severity, class : AssessRelease(evidence) = Verdict(severity, class)
  BY <1>1
<1>3. /\ AssessRelease(evidence).suspicious = (severity # "informational")
      /\ AssessRelease(evidence).severity = severity
  BY <1>2 DEF Verdict
<1>4. severity = IF ConfidentMalware(evidence.content) THEN "high"
                 ELSE IF Alarming(evidence) \/ (~Excused(evidence) /\ Sweeping(evidence))
                 THEN "warning" ELSE "informational"
  BY <1>3, SeverityIs
<1>5. QED  BY <1>3, <1>4

\* The first five of the verdict's reasons only grow with the evidence, and so
\* does the last, unless the worse evidence has a mismatch that excuses it.
LEMMA AlarmGrows ==
    ASSUME NEW evidence \in AssessedEvidence, NEW worse \in AssessedEvidence,
           AtLeast(worse, evidence)
    PROVE  /\ Alarming(evidence) => Alarming(worse)
           /\ Sweeping(evidence) => Sweeping(worse)
<1>1. /\ evidence.content \in ContentSignals /\ worse.content \in ContentSignals
      /\ evidence.diff \in DiffCounts /\ worse.diff \in DiffCounts
  BY DEF AssessedEvidence
<1>2. ASSUME NEW class, OfClass(evidence.content, class) # {}
      PROVE  OfClass(worse.content, class) # {}
  BY <1>2 DEF OfClass, AtLeast, ContentAtLeast
<1>3. /\ Touched(evidence.diff) \in Nat /\ Touched(worse.diff) \in Nat
      /\ evidence.diff.changed \in Nat /\ worse.diff.changed \in Nat
  BY <1>1 DEF DiffCounts, Touched
<1>4. ContentChanged(evidence) => ContentChanged(worse)
  BY <1>3 DEF ContentChanged, AtLeast
<1>5. Sweeping(evidence) => Sweeping(worse)
  BY <1>3 DEF Sweeping, ContentLarge, AtLeast
<1>6. Alarming(evidence) => Alarming(worse)
  BY <1>2, <1>4 DEF Alarming, AtLeast
<1>7. QED  BY <1>5, <1>6

\* A release with more against it is never judged to be milder, whatever the
\* rules, the content and the sizes are, unless a mismatch of its repository
\* excuses what has changed (assess_release, assessment.rs).
THEOREM VerdictsAreMonotone ==
    ASSUME NEW evidence \in AssessedEvidence, NEW worse \in AssessedEvidence,
           AtLeast(worse, evidence)
    PROVE  \/ SeverityRank[AssessRelease(worse).severity]
                  >= SeverityRank[AssessRelease(evidence).severity]
           \/ Excused(worse)
<1>1. ConfidentMalware(evidence.content) => ConfidentMalware(worse.content)
  BY ConfidenceGrows DEF AssessedEvidence, AtLeast
<1>2. /\ Alarming(evidence) => Alarming(worse)
      /\ Sweeping(evidence) => Sweeping(worse)
  BY AlarmGrows
<1>3. /\ SeverityRank["informational"] = 0 /\ SeverityRank["warning"] = 1
      /\ SeverityRank["high"] = 2
  BY DEF SeverityRank
<1>4. CASE ConfidentMalware(worse.content)
  <2>1. AssessRelease(worse).severity = "high"
    BY <1>4, SeverityIs
  <2>2. AssessRelease(evidence).severity \in {"high", "warning", "informational"}
    BY SeverityIs
  <2>3. QED  BY <1>3, <2>1, <2>2
<1>5. CASE ~ConfidentMalware(worse.content) /\ ~Excused(worse)
  <2>1. ~ConfidentMalware(evidence.content)
    BY <1>1, <1>5
  <2>2. AssessRelease(worse).severity =
            IF Alarming(worse) \/ Sweeping(worse) THEN "warning" ELSE "informational"
    BY <1>5, SeverityIs
  <2>3. \/ AssessRelease(evidence).severity = "informational"
        \/ /\ AssessRelease(evidence).severity = "warning"
           /\ Alarming(evidence) \/ Sweeping(evidence)
    BY <2>1, SeverityIs
  <2>4. QED  BY <1>2, <1>3, <2>2, <2>3
<1>6. QED  BY <1>4, <1>5

\* One thing more is more, and is still evidence.
LEMMA WorseIsAtLeast ==
    ASSUME NEW evidence \in AssessedEvidence, NEW worse \in Worse(evidence)
    PROVE  worse \in AssessedEvidence /\ AtLeast(worse, evidence)
<1>1. /\ evidence.content \in ContentSignals /\ evidence.diff \in DiffCounts
      /\ evidence.diff.added \in Nat /\ evidence.diff.removed \in Nat
      /\ evidence.diff.changed \in Nat /\ Touched(evidence.diff) \in Nat
      /\ Touched(evidence.diff) <= Touched(evidence.diff)
      /\ evidence.diff.changed <= evidence.diff.changed
  BY DEF AssessedEvidence, DiffCounts, Touched
<1>2. HighRisk \in [score : Int, suspicious : BOOLEAN] /\ HighRisk.suspicious
  BY DEF HighRisk
<1>3. CASE worse = [evidence EXCEPT !.tier = "high"]
  <2>1. worse \in AssessedEvidence
    BY <1>3 DEF AssessedEvidence, Tiers
  <2>2. AtLeast(worse, evidence)
    BY <1>1, <1>3 DEF AssessedEvidence, AtLeast, ContentAtLeast, RiskyInstall, Scripts, Longstanding,
          HookChanged, Impacted
  <2>3. QED  BY <2>1, <2>2
<1>4. CASE worse = [evidence EXCEPT !.dependents = 1]
  <2>1. worse \in AssessedEvidence
    BY <1>4 DEF AssessedEvidence
  <2>2. AtLeast(worse, evidence)
    BY <1>1, <1>4 DEF AssessedEvidence, AtLeast, ContentAtLeast, RiskyInstall, Scripts, Longstanding,
          HookChanged, Impacted
  <2>3. QED  BY <2>1, <2>2
<1>5. CASE worse = [evidence EXCEPT !.status = "yanked"]
  <2>1. worse \in AssessedEvidence
    BY <1>5 DEF AssessedEvidence
  <2>2. AtLeast(worse, evidence)
    BY <1>1, <1>5 DEF AssessedEvidence, AtLeast, ContentAtLeast, RiskyInstall, Scripts, Longstanding,
          HookChanged, Impacted
  <2>3. QED  BY <2>1, <2>2
<1>6. CASE worse = [evidence EXCEPT !.burst = TRUE]
  <2>1. worse \in AssessedEvidence
    BY <1>6 DEF AssessedEvidence
  <2>2. AtLeast(worse, evidence)
    BY <1>1, <1>6 DEF AssessedEvidence, AtLeast, ContentAtLeast, RiskyInstall, Scripts, Longstanding,
          HookChanged, Impacted
  <2>3. QED  BY <2>1, <2>2
<1>7. CASE worse = [evidence EXCEPT !.scripts = TRUE, !.benign = FALSE]
  <2>1. worse \in AssessedEvidence
    BY <1>7 DEF AssessedEvidence
  <2>2. AtLeast(worse, evidence)
    BY <1>1, <1>7 DEF AssessedEvidence, AtLeast, ContentAtLeast, RiskyInstall, Scripts, Longstanding,
          HookChanged, Impacted
  <2>3. QED  BY <2>1, <2>2
<1>8. CASE worse = [evidence EXCEPT !.metadata = HighRisk]
  <2>1. worse \in AssessedEvidence
    BY <1>2, <1>8 DEF AssessedEvidence
  <2>2. AtLeast(worse, evidence)
    BY <1>1, <1>2, <1>8 DEF AssessedEvidence, AtLeast, ContentAtLeast, RiskyInstall, Scripts,
          Longstanding, HookChanged, Impacted
  <2>3. QED  BY <2>1, <2>2
<1>9. CASE worse = [evidence EXCEPT !.mismatch = TRUE]
  <2>1. worse \in AssessedEvidence
    BY <1>9 DEF AssessedEvidence
  <2>2. AtLeast(worse, evidence)
    BY <1>1, <1>9 DEF AssessedEvidence, AtLeast, ContentAtLeast, RiskyInstall, Scripts, Longstanding,
          HookChanged, Impacted
  <2>3. QED  BY <2>1, <2>2
<1>10. CASE worse = [evidence EXCEPT !.content.iocs = TRUE]
  <2> DEFINE content == [evidence.content EXCEPT !.iocs = TRUE]
  <2>1. content \in ContentSignals /\ ContentAtLeast(content, evidence.content)
    BY <1>1 DEF ContentSignals, ContentAtLeast
  <2>2. worse = [evidence EXCEPT !.content = content]
    BY <1>1, <1>10 DEF AssessedEvidence
  <2> HIDE DEF content
  <2>3. worse \in AssessedEvidence
    BY <2>1, <2>2 DEF AssessedEvidence
  <2>4. AtLeast(worse, evidence)
    BY <1>1, <2>1, <2>2 DEF AssessedEvidence, AtLeast, RiskyInstall, Scripts, Longstanding, HookChanged,
          Impacted
  <2>5. QED  BY <2>3, <2>4
<1>11. CASE \E r \in Rules : worse = [evidence EXCEPT !.content.matches = @ \cup {MatchOf(r)}]
  <2>1. PICK r \in Rules : worse = [evidence EXCEPT !.content.matches = @ \cup {MatchOf(r)}]
    BY <1>11
  <2> DEFINE content == [evidence.content EXCEPT !.matches = @ \cup {MatchOf(r)}]
             match   == MatchOf(r)
  <2>2. match \in RuleMatches
    BY DEF MatchOf, RuleMatches
  <2> HIDE DEF match
  <2>3. IsFiniteSet(evidence.content.matches) /\ evidence.content.matches \subseteq RuleMatches
    BY <1>1 DEF ContentSignals
  <2>4. IsFiniteSet(evidence.content.matches \cup {match})
    BY <2>3, FS_AddElement
  <2>5. content = [evidence.content EXCEPT !.matches = evidence.content.matches \cup {match}]
    BY DEF match
  <2> HIDE DEF content
  <2>6. content \in ContentSignals /\ ContentAtLeast(content, evidence.content)
    BY <1>1, <2>2, <2>3, <2>4, <2>5 DEF ContentSignals, ContentAtLeast
  <2>7. worse = [evidence EXCEPT !.content = content]
    BY <1>1, <2>1 DEF AssessedEvidence, content
  <2>8. worse \in AssessedEvidence
    BY <2>6, <2>7 DEF AssessedEvidence
  <2>9. AtLeast(worse, evidence)
    BY <1>1, <2>6, <2>7 DEF AssessedEvidence, AtLeast, RiskyInstall, Scripts, Longstanding, HookChanged,
          Impacted
  <2>10. QED  BY <2>8, <2>9
<1>12. CASE worse = [evidence EXCEPT !.diff.changed = @ + 3, !.diff.manifest_only = FALSE]
  <2> DEFINE diff == [evidence.diff EXCEPT !.changed = @ + 3, !.manifest_only = FALSE]
  <2>1. /\ diff \in DiffCounts /\ diff.hook = evidence.diff.hook
        /\ Touched(evidence.diff) <= Touched(diff) /\ evidence.diff.changed <= diff.changed
    <3>1. PICK old \in DiffCounts : old = evidence.diff
      BY <1>1
    <3>2. PICK n \in Nat : n = old.changed + 3
      BY DEF DiffCounts
    <3>3. diff = [[old EXCEPT !.changed = n] EXCEPT !.manifest_only = FALSE]
      BY <3>1, <3>2 DEF DiffCounts
    <3>4. PICK mid \in DiffCounts : mid = [old EXCEPT !.changed = n]
      BY DEF DiffCounts
    <3>5. diff = [mid EXCEPT !.manifest_only = FALSE]
      BY <3>3, <3>4
    <3> HIDE DEF diff
    <3>6. diff \in DiffCounts /\ diff.hook = old.hook /\ diff.changed = n
          /\ diff.added = old.added /\ diff.removed = old.removed
      BY <3>4, <3>5 DEF DiffCounts
    <3>7. QED  BY <3>1, <3>2, <3>6 DEF DiffCounts, Touched
  <2>2. worse = [evidence EXCEPT !.diff = diff]
    BY <1>1, <1>12 DEF AssessedEvidence
  <2> HIDE DEF diff
  <2>3. worse \in AssessedEvidence
    BY <2>1, <2>2 DEF AssessedEvidence
  <2>4. AtLeast(worse, evidence)
    BY <1>1, <2>1, <2>2 DEF AssessedEvidence, AtLeast, ContentAtLeast, RiskyInstall, Scripts,
          Longstanding, HookChanged, Impacted
  <2>5. QED  BY <2>3, <2>4
<1>13. ASSUME NEW longstanding \in BOOLEAN, NEW changed \in BOOLEAN, ~longstanding \/ changed,
              worse = [evidence EXCEPT !.diff.hook = Hook(TRUE, longstanding, changed)]
       PROVE  worse \in AssessedEvidence /\ AtLeast(worse, evidence)
  <2> DEFINE hook == Hook(TRUE, longstanding, changed)
             diff == [evidence.diff EXCEPT !.hook = hook]
  <2>1. /\ hook \in HookDiffs /\ hook.known /\ hook.target
        /\ hook.longstanding = longstanding /\ hook.changed = changed
    BY DEF Hook, HookDiffs
  <2>2. worse = [evidence EXCEPT !.diff = diff]
    BY <1>1, <1>13 DEF AssessedEvidence
  <2> HIDE DEF hook
  <2>3. /\ diff \in DiffCounts /\ diff.hook = hook
        /\ Touched(evidence.diff) <= Touched(diff) /\ evidence.diff.changed <= diff.changed
    BY <1>1, <2>1 DEF DiffCounts, Touched
  <2> HIDE DEF diff
  <2>4. worse \in AssessedEvidence
    BY <2>2, <2>3 DEF AssessedEvidence
  <2>5. RiskyInstall(evidence) => RiskyInstall(worse)
    BY <1>13, <2>1, <2>2, <2>3 DEF AssessedEvidence, RiskyInstall, Scripts, Longstanding, HookChanged
  <2>6. AtLeast(worse, evidence)
    BY <1>1, <2>2, <2>3, <2>5 DEF AssessedEvidence, AtLeast, ContentAtLeast, Impacted
  <2>7. QED  BY <2>4, <2>6
<1>14. CASE worse = [evidence EXCEPT !.diff.hook = Hook(TRUE, FALSE, FALSE)]
  BY <1>13, <1>14
<1>15. CASE worse = [evidence EXCEPT !.diff.hook = Hook(TRUE, TRUE, TRUE)]
  BY <1>13, <1>15
<1>16. QED
  BY <1>3, <1>4, <1>5, <1>6, <1>7, <1>8, <1>9, <1>10, <1>11, <1>12, <1>14, <1>15 DEF Worse

\* The same of any evidence there may be, one thing more at a time: no
\* further match, diff, burst, tier or status of assess_release (assessment.rs)
\* makes it milder.
THEOREM MoreEvidenceNeverHelps ==
    ASSUME input.part = "evidence" => input.evidence \in AssessedEvidence
    PROVE  MoreEvidenceNeverLowers
BY WorseIsAtLeast, VerdictsAreMonotone DEF MoreEvidenceNeverLowers

-----------------------------------------------------------------------------
(* Fates.                                                                  *)

\* What a release's fate is, and why.
LEMMA FateIs ==
    ASSUME NEW i
    PROVE  /\ FateOf(i) = "not_examined" => i.tier = "low"
           /\ i.tier = "low" => FateOf(i) = "not_examined"
           /\ FateOf(i) = "dropped" =>
                  \/ FastTriageDrops(i.ecosystem, i.tier, i.graph, i.limits)
                  \/ i.answers[1] = "absent"
                  \/ Promotion(i.graph, Hydrated(i), RiskOf(Hydrated(i)), i.limits) = "low_signal"
           /\ FateOf(i) = "discarded" =>
                  ~RetainCapture(CaptureEvidence(i), i.tier = "high",
                                 PlannedDiff(i.tier, i.graph) = "pending",
                                 NewDependencies(i.previous, Captured(i).dependencies))
<1> DEFINE row    == DefaultCaptureState("observed", i.tier)
           triage == TriageFate(row, i.ecosystem, i.tier, i.graph, i.answers[1], Hydrated(i),
                                RiskOf(Hydrated(i)), i.limits)
           retain == RetainCapture(CaptureEvidence(i), i.tier = "high",
                                   PlannedDiff(i.tier, i.graph) = "pending",
                                   NewDependencies(i.previous, Captured(i).dependencies))
<1>1. FateOf(i) = IF i.tier # "high" /\ triage # "promoted" THEN triage
                  ELSE IF i.answers[2] = "error" THEN "failed"
                  ELSE IF retain THEN "kept" ELSE "discarded"
  BY DEF FateOf, ReleaseFate
<1>2. row = IF i.tier = "low" THEN "skipped" ELSE "pending"
  BY DEF DefaultCaptureState, CaptureRequested
<1>3. triage = IF i.tier = "low" THEN "not_examined"
               ELSE IF FastTriageDrops(i.ecosystem, i.tier, i.graph, i.limits) THEN "dropped"
               ELSE IF i.answers[1] = "error" THEN "failed"
               ELSE IF i.tier = "high" THEN "promoted"
               ELSE IF i.answers[1] = "absent" THEN "dropped"
               ELSE IF Promotion(i.graph, Hydrated(i), RiskOf(Hydrated(i)), i.limits) = "low_signal"
               THEN "dropped" ELSE "promoted"
  BY <1>2 DEF TriageFate
<1> HIDE DEF triage, row, retain
<1>4. /\ FateOf(i) = "not_examined" => i.tier = "low"
      /\ i.tier = "low" => FateOf(i) = "not_examined"
      /\ FateOf(i) = "discarded" => ~retain
  BY <1>1, <1>3
<1>5. FateOf(i) = "dropped" =>
          \/ FastTriageDrops(i.ecosystem, i.tier, i.graph, i.limits)
          \/ i.answers[1] = "absent"
          \/ Promotion(i.graph, Hydrated(i), RiskOf(Hydrated(i)), i.limits) = "low_signal"
  BY <1>1, <1>3
<1>6. QED  BY <1>4, <1>5 DEF retain

\* The plan a release is announced with is what becomes of it, whatever the
\* registry says and whoever depends on it (capture_requested_with_graph and
\* diff_requested_with_graph, event.rs; handle_triage_request, triage.rs).
THEOREM FatesFollowPlans == FateFollowsPlan
<1>1. SUFFICES ASSUME input.part = "fate"
               PROVE  /\ PlannedCapture(input.tier, input.graph) = "skipped" =>
                             FateOf(input) = "not_examined"
                      /\ FateOf(input) = "not_examined" => input.tier = "low"
                      /\ FateOf(input) = "discarded" => PlannedDiff(input.tier, input.graph) = "skipped"
  BY DEF FateFollowsPlan
<1>2. PlannedCapture(input.tier, input.graph) = "skipped" => input.tier = "low"
  BY DEF PlannedCapture, CaptureRequested
<1>3. ASSUME FateOf(input) = "discarded"
      PROVE  PlannedDiff(input.tier, input.graph) = "skipped"
  <2>1. PlannedDiff(input.tier, input.graph) # "pending"
    BY <1>3, FateIs DEF RetainCapture
  <2>2. QED  BY <2>1 DEF PlannedDiff
<1>4. QED  BY <1>2, <1>3, FateIs

\* Without content and without a diff, only install scripts, a suspicious name
\* or a burst count.
LEMMA QuietIsUnremarkable ==
    ASSUME NEW evidence, evidence.content = QuietContent, evidence.diff = NoDiff,
           ~evidence.metadata.suspicious, ~evidence.burst, ~RiskyInstall(evidence)
    PROVE  ~AssessRelease(evidence).suspicious
<1>1. ASSUME NEW class PROVE OfClass(evidence.content, class) = {}
  BY DEF OfClass, QuietContent
<1>2. ~ConfidentMalware(evidence.content)
  <2>1. Cardinality({}) = 0
    BY FS_EmptySet
  <2>2. QED  BY <1>1, <2>1 DEF ConfidentMalware
<1>3. Touched(evidence.diff) = 0 /\ evidence.diff.changed = 0
  BY DEF NoDiff, Touched
<1>4. ~Alarming(evidence)
  BY <1>1, <1>3 DEF Alarming, ContentChanged
<1>5. ~Sweeping(evidence)
  BY <1>3 DEF Sweeping, ContentLarge
<1>6. QED  BY <1>2, <1>4, <1>5, SuspiciousIs

\* What triage and the analysis of a capture let go was nothing to report,
\* whatever the registry shows of the release, and whatever the limits are
\* (triage_decision, triage.rs; post_process_capture, capture.rs).
THEOREM LostWasUnremarkable == LostIsUnremarkable
<1>1. SUFFICES ASSUME input.part = "fate"
               PROVE  /\ FateOf(input) = "dropped" /\ input.answers[1] = "found" =>
                             ~AssessRelease(TriageEvidence(input)).suspicious
                      /\ FateOf(input) = "discarded" =>
                             /\ ~ContentSuspicious(CaptureEvidence(input).content)
                             /\ ~AssessRelease([CaptureEvidence(input) EXCEPT
                                                    !.content = QuietContent]).suspicious
  BY DEF LostIsUnremarkable
<1>2. ASSUME FateOf(input) = "dropped", input.answers[1] = "found"
      PROVE  ~AssessRelease(TriageEvidence(input)).suspicious
  <2> DEFINE release  == Hydrated(input)
             evidence == TriageEvidence(input)
  <2>1. /\ evidence.content = QuietContent /\ evidence.diff = NoDiff /\ ~evidence.burst
        /\ evidence.metadata = RiskOf(release) /\ evidence.scripts = release.has_install_scripts
    BY DEF TriageEvidence, EvidenceOf
  <2>2. ~release.has_install_scripts /\ ~RiskOf(release).suspicious
    <3>1. CASE FastTriageDrops(input.ecosystem, input.tier, input.graph, input.limits)
      <4>1. input.ecosystem = "crates"
        BY <3>1 DEF FastTriageDrops
      <4>2. /\ release.ecosystem = "crates" /\ release.has_install_scripts = FALSE
            /\ release.metadata_risk = NotStored
        BY <4>1 DEF Hydrated, HydratedRelease, ReleaseFrom
      <4>3. RiskOf(release) = NoRisk
        BY <4>2 DEF RiskOf, CapturedMetadataRisk
      <4>4. QED  BY <4>2, <4>3 DEF NoRisk
    <3>2. CASE Promotion(input.graph, release, RiskOf(release), input.limits) = "low_signal"
      BY <3>2 DEF Promotion
    <3>3. QED  BY <1>2, <3>1, <3>2, FateIs
  <2>3. ~RiskyInstall(evidence)
    BY <2>1, <2>2 DEF RiskyInstall, Scripts, NoDiff, NoHook
  <2> HIDE DEF evidence, release
  <2>4. ~AssessRelease(evidence).suspicious
    BY <2>1, <2>2, <2>3, QuietIsUnremarkable
  <2>5. QED  BY <2>4 DEF evidence
<1>3. ASSUME FateOf(input) = "discarded"
      PROVE  /\ ~ContentSuspicious(CaptureEvidence(input).content)
             /\ ~AssessRelease([CaptureEvidence(input) EXCEPT !.content = QuietContent]).suspicious
  <2> DEFINE evidence == CaptureEvidence(input)
             quiet    == [evidence EXCEPT !.content = QuietContent]
  <2>1. /\ quiet.content = QuietContent /\ quiet.diff = NoDiff /\ evidence.diff = NoDiff
        /\ quiet.metadata = evidence.metadata /\ quiet.burst = evidence.burst
        /\ quiet.scripts = evidence.scripts /\ quiet.benign = evidence.benign
        /\ quiet.longstanding = evidence.longstanding
    BY DEF CaptureEvidence, EvidenceOf
  <2> HIDE DEF quiet, evidence
  <2>2. /\ ~evidence.metadata.suspicious /\ ~ContentSuspicious(evidence.content)
        /\ ~RiskyInstall(evidence) /\ ~evidence.burst
    BY <1>3, FateIs DEF RetainCapture, ShouldRetain, evidence
  <2>3. ~RiskyInstall(quiet)
    BY <2>1, <2>2 DEF RiskyInstall, Scripts, Longstanding, HookChanged
  <2>4. ~AssessRelease(quiet).suspicious
    BY <2>1, <2>2, <2>3, QuietIsUnremarkable
  <2>5. QED  BY <2>2, <2>4 DEF quiet, evidence
<1>4. QED  BY <1>2, <1>3

-----------------------------------------------------------------------------
(* Rebuilding the table.                                                   *)

\* Of naturals there is a least one, and a greatest one up to a bound.
LEMMA NaturalsHaveLeast ==
    ASSUME NEW T \in SUBSET Nat, T # {}
    PROVE  \E x \in T : \A y \in T : x <= y
<1> DEFINE R == OpToRel(<, Nat)
<1>1. IsWellFoundedOn(R, Nat)
  BY NatLessThanWellFounded
<1>2. PICK x \in T : \A y \in T : ~ (<<y, x>> \in R)
  <2> HIDE DEF R
  <2>1. QED  BY <1>1, WFMin
<1>3. ASSUME NEW y \in T PROVE x <= y
  <2>1. ~(<<y, x>> \in R)
    BY <1>2
  <2>2. x \in Nat /\ y \in Nat
    OBVIOUS
  <2>3. ~(y < x)
    BY <2>1, <2>2 DEF OpToRel
  <2>4. QED  BY <2>2, <2>3
<1>4. QED  BY <1>3

\* Among the lines of a file that are of a kind there is a first and a last.
LEMMA LinesHaveEnds ==
    ASSUME NEW n \in Nat, NEW T \in SUBSET (1..n), T # {}
    PROVE  Min(T) \in T /\ Max(T) \in T
<1>1. T \subseteq Nat
  OBVIOUS
<1>2. \E x \in T : \A y \in T : x <= y
  BY <1>1, NaturalsHaveLeast
<1>3. Min(T) \in T
  BY <1>2 DEF Min
<1> DEFINE far == {n - x : x \in T}
<1>4. far \subseteq Nat /\ far # {}
  <2>1. ASSUME NEW x \in T PROVE n - x \in Nat
    OBVIOUS
  <2>2. PICK x \in T : TRUE
    OBVIOUS
  <2>3. n - x \in far
    OBVIOUS
  <2>4. QED  BY <2>1, <2>3
<1>5. PICK d \in far : \A e \in far : d <= e
  BY <1>4, NaturalsHaveLeast
<1>6. PICK x \in T : d = n - x
  OBVIOUS
<1>7. \A y \in T : x >= y
  <2>1. ASSUME NEW y \in T PROVE x >= y
    <3>1. n - x <= n - y
      BY <1>5, <1>6
    <3>2. QED  BY <3>1
  <2>2. QED  BY <2>1
<1>8. Max(T) \in T
  BY <1>7 DEF Max
<1>9. QED  BY <1>3, <1>8

\* What a ledger says of a release is one of its lines.
LEMMA LinesSpeak ==
    ASSUME NEW E, NEW ledger \in Seq(E), NEW id \in LedgerIds(ledger)
    PROVE  /\ ledger[Min(LinesOf(ledger, id))] \in E
           /\ ledger[Max(LinesOf(ledger, id))] \in E
           /\ ledger[Min(LinesOf(ledger, id))].id = id
           /\ ledger[Max(LinesOf(ledger, id))].id = id
<1>1. DOMAIN ledger = 1..Len(ledger) /\ Len(ledger) \in Nat
  OBVIOUS
<1>2. LinesOf(ledger, id) \in SUBSET (1..Len(ledger)) /\ LinesOf(ledger, id) # {}
  BY <1>1 DEF LinesOf, LedgerIds
<1>3. Min(LinesOf(ledger, id)) \in LinesOf(ledger, id) /\ Max(LinesOf(ledger, id)) \in LinesOf(ledger, id)
  BY <1>1, <1>2, LinesHaveEnds
<1>4. QED  BY <1>3 DEF LinesOf

\* An upsert into no rows, and what it leaves of a settled one.
LEMMA UpsertedRow ==
    ASSUME NEW row \in Row \cup {NoRow}, NEW origin \in Origins, NEW tier \in Tiers
    PROVE  LET new == UpsertEventRow(row, origin, tier)
           IN  /\ new \in Row
               /\ new.capture = "ready" <=> row.capture = "ready"
               /\ new.diff = "ready" <=> row.diff = "ready"
               /\ origin = "observed" => new.origin = "observed"
               /\ row = NoRow => new.origin = origin
               /\ row # NoRow /\ origin # "observed" => new.origin = row.origin
BY DEF UpsertEventRow, Row, NoRow, Origins, Tiers, JobStates, Settled, Reasons, DefaultCaptureState,
       DefaultDiffState, CaptureSkipReason, DiffSkipReason, CaptureRequested, DiffRequested

\* A row whose capture or diff is set is the row it was, but for that job.
LEMMA RowIsSet ==
    ASSUME NEW row \in Row, NEW state \in JobStates, NEW reason \in Reasons
    PROVE  /\ SetCapture(row, state, reason) \in Row
           /\ SetCapture(row, state, reason).capture = state
           /\ SetCapture(row, state, reason).diff = row.diff
           /\ SetCapture(row, state, reason).origin = row.origin
           /\ SetDiff(row, state, reason) \in Row
           /\ SetDiff(row, state, reason).diff = state
           /\ SetDiff(row, state, reason).capture = row.capture
           /\ SetDiff(row, state, reason).origin = row.origin
<1>1. row # NoRow
  BY DEF Row, NoRow, Origins
<1>2. PICK captured \in Row : captured = [row EXCEPT !.capture = state, !.capture_reason = reason]
  BY DEF Row
<1>3. PICK compared \in Row : compared = [row EXCEPT !.diff = state, !.diff_reason = reason]
  BY DEF Row
<1>4. SetCapture(row, state, reason) = captured /\ SetDiff(row, state, reason) = compared
  BY <1>1, <1>2, <1>3 DEF SetCapture, SetDiff
<1>5. /\ captured.capture = state /\ captured.diff = row.diff /\ captured.origin = row.origin
      /\ compared.diff = state /\ compared.capture = row.capture /\ compared.origin = row.origin
  BY <1>2, <1>3 DEF Row
<1>6. QED  BY <1>4, <1>5
-----------------------------------------------------------------------------
(* The data directory.                                                     *)

Events == {EventOf[id] : id \in Releases}

LedgersOf(E) ==
    [observed : Seq(E), legacy : Seq(E), reconstructed : Seq(E), torn : SUBSET LedgerNames]

FilesOf == [capture : {NoCapture} \cup {CaptureOf[id] : id \in Releases}, diff : BOOLEAN,
            half : SUBSET {"capture", "diff"}]

DataType(d) ==
    /\ DOMAIN d = {"records", "ledgers", "files"}
    /\ d.ledgers \in LedgersOf(Events)
    /\ d.files \in [Releases -> FilesOf]

\* What the directory has: the releases in the ledgers, those that were observed,
\* and those that have a capture or a diff or had files that were removed.
Logs(d) == LoggedIds(d.ledgers)
Saw(d) == LedgerIds(d.ledgers.observed) \cup LedgerIds(d.ledgers.legacy)
CapturesOf(d, gone) == {id \in Releases : d.files[id].capture # NoCapture} \cup gone
DiffsOf(d, gone) == {id \in Releases : d.files[id].diff} \cup gone

IsRecord(r) ==
    /\ {"id", "published", "job", "capture_at"} \subseteq DOMAIN r
    /\ r.id \in Releases /\ r.job \in Row

\* What a row says the directory says, too.
RowIn(r, d, gone) ==
    /\ r.id \in Logs(d)
    /\ r.job.origin = "observed" => r.id \in Saw(d)
    /\ r.job.capture = "ready" => r.id \in CapturesOf(d, gone)
    /\ r.job.diff = "ready" => r.id \in DiffsOf(d, gone)

RowsIn(records, d, gone) == \A r \in records : IsRecord(r) /\ RowIn(r, d, gone)

Places ==
    {"idle", "append", "record", "index", "fetch", "stage", "write", "record_fetched", "scan",
     "rewrite", "record_scanned", "clear", "rename", "build", "unreadable", "open", "append_entry",
     "record_entry", "look_entry", "fill", "record_filled", "build_again", "built", "amend",
     "record_amended", "amended", "compose", "record_diff"}

\* And what is about to be recorded is in the directory already.
TaskIn(t, d, gone) ==
    /\ t \in [at : Places, id : Releases \cup {0}, entry : Releases \cup {0}]
    /\ t.at # "idle" => t.id \in Releases
    /\ t.at \notin {"idle", "append"} => t.id \in Saw(d)
    /\ t.at \in {"write", "rewrite", "amend", "record_fetched", "record_scanned",
                 "record_amended"} => t.id \in CapturesOf(d, gone)
    /\ t.at \in {"compose", "record_diff"} => t.id \in DiffsOf(d, gone)
    /\ t.at \in {"open", "append_entry", "record_entry", "look_entry", "fill", "record_filled"} =>
           t.entry \in Releases
    /\ t.at \in {"record_entry", "look_entry", "fill", "record_filled"} => t.entry \in Logs(d)
    /\ t.at \in {"fill", "record_filled"} => t.entry \in CapturesOf(d, gone)

DirectoryInv ==
    /\ DataType(data)
    /\ removed \in SUBSET Releases
    /\ RowsIn(data.records, data, removed)
    /\ waiting \in [capture : SUBSET Saw(data), diff : SUBSET Saw(data)]
    /\ DOMAIN task = Workers
    /\ \A w \in Workers : TaskIn(task[w], data, removed)

\* The directory only grows: what is taken from it is among what is gone.
Grows(d, gone, e, taken) ==
    /\ Logs(d) \subseteq Logs(e) /\ Saw(d) \subseteq Saw(e)
    /\ CapturesOf(d, gone) \subseteq CapturesOf(e, taken)
    /\ DiffsOf(d, gone) \subseteq DiffsOf(e, taken)

LEMMA GrowthKeeps ==
    ASSUME NEW d, NEW gone, NEW e, NEW taken, Grows(d, gone, e, taken)
    PROVE  /\ \A records : RowsIn(records, d, gone) => RowsIn(records, e, taken)
           /\ \A t : TaskIn(t, d, gone) => TaskIn(t, e, taken)
<1>1. ASSUME NEW records, RowsIn(records, d, gone) PROVE RowsIn(records, e, taken)
  BY <1>1 DEF RowsIn, RowIn, Grows
<1>2. ASSUME NEW t, TaskIn(t, d, gone) PROVE TaskIn(t, e, taken)
  <2>1. /\ \A id : id \in Logs(d) => id \in Logs(e)
        /\ \A id : id \in Saw(d) => id \in Saw(e)
        /\ \A id : id \in CapturesOf(d, gone) => id \in CapturesOf(e, taken)
        /\ \A id : id \in DiffsOf(d, gone) => id \in DiffsOf(e, taken)
    BY DEF Grows
  <2> HIDE DEF Logs, Saw, CapturesOf, DiffsOf
  <2>2. QED  BY <1>2, <2>1 DEF TaskIn
<1>3. QED  BY <1>1, <1>2

LEMMA RowIsNot == NoRow \notin Row /\ NoRow.capture # "ready" /\ NoRow.diff # "ready"
BY DEF Row, NoRow, Origins

\* What an event says when it is written into the table.
LEMMA UpsertKeepsIn ==
    ASSUME DataAssumption, NEW d, NEW gone, NEW records, RowsIn(records, d, gone),
           NEW id \in Releases, id \in Logs(d),
           NEW origin \in Origins, origin = "observed" => id \in Saw(d)
    PROVE  RowsIn(UpsertRecord(records, EventOf[id], origin), d, gone)
<1> DEFINE event == EventOf[id]
           old == ReleaseRecord(records, id)
           row == IF old = {} THEN NoRow ELSE (CHOOSE r \in old : TRUE).job
           at  == IF old = {} THEN NoTime ELSE (CHOOSE r \in old : TRUE).capture_at
           said == IF event["published"] # NoTime \/ old = {} THEN event["published"]
                   ELSE (CHOOSE r \in old : TRUE)["published"]
           job == UpsertEventRow(row, origin, event.tier)
<1>1. event.id = id /\ event.tier \in Tiers
  BY DEF DataAssumption
<1>2. \/ row = NoRow
      \/ \E r \in records : r.id = id /\ row = r.job /\ IsRecord(r) /\ RowIn(r, d, gone)
  <2>1. CASE old = {}
    BY <2>1
  <2>2. CASE old # {}
    <3>1. PICK r \in old : row = r.job
      BY <2>2
    <3>2. QED  BY <3>1 DEF ReleaseRecord, RowsIn
  <2>3. QED  BY <2>1, <2>2
<1>3. row \in Row \cup {NoRow}
  BY <1>2 DEF IsRecord
<1>4. UpsertRecord(records, event, origin) =
          (records \ old) \cup
          {[id |-> event.id, ecosystem |-> event.ecosystem, package |-> event.package,
            version |-> event.version, published |-> said, observed |-> event.observed,
            source |-> event.source, job |-> job, capture_at |-> at]}
  BY <1>1 DEF UpsertRecord
<1> HIDE DEF row, at, said, old
<1>5. /\ job \in Row
      /\ job.capture = "ready" <=> row.capture = "ready"
      /\ job.diff = "ready" <=> row.diff = "ready"
      /\ row # NoRow /\ origin # "observed" => job.origin = row.origin
      /\ row = NoRow => job.origin = origin
  BY <1>1, <1>3, UpsertedRow
<1> HIDE DEF job
<1>6. PICK new : new = [id |-> event.id, ecosystem |-> event.ecosystem, package |-> event.package,
            version |-> event.version, published |-> said, observed |-> event.observed,
            source |-> event.source, job |-> job, capture_at |-> at]
  OBVIOUS
<1>7. new.id = id /\ new.job = job /\ IsRecord(new)
  BY <1>1, <1>5, <1>6 DEF IsRecord
<1>8. RowIn(new, d, gone)
  <2>1. job.origin = "observed" => id \in Saw(d)
    BY <1>2, <1>5 DEF RowIn
  <2>2. job.capture = "ready" => id \in CapturesOf(d, gone)
    BY <1>2, <1>5, RowIsNot DEF RowIn
  <2>3. job.diff = "ready" => id \in DiffsOf(d, gone)
    BY <1>2, <1>5, RowIsNot DEF RowIn
  <2>4. QED  BY <1>7, <2>1, <2>2, <2>3 DEF RowIn
<1>9. UpsertRecord(records, event, origin) = (records \ old) \cup {new}
  BY <1>4, <1>6
<1>10. QED  BY <1>7, <1>8, <1>9 DEF RowsIn

\* A job that is set, one of a release whose file is there if it is to be ready.
LEMMA CaptureKeepsIn ==
    ASSUME NEW d, NEW gone, NEW records, RowsIn(records, d, gone),
           NEW id, id \in CapturesOf(d, gone), NEW capture
    PROVE  RowsIn(CaptureRecord(records, id, capture), d, gone)
<1>1. ASSUME NEW r \in records, r.id = id
      PROVE  LET c == [r EXCEPT !.job = SetCapture(@, "ready", "none"), !.capture_at = capture.at]
             IN  IsRecord(c) /\ RowIn(c, d, gone)
  <2> DEFINE c == [r EXCEPT !.job = SetCapture(@, "ready", "none"), !.capture_at = capture.at]
  <2>1. IsRecord(r) /\ RowIn(r, d, gone)
    BY DEF RowsIn
  <2>2. c.id = id /\ DOMAIN c = DOMAIN r /\ c.job = SetCapture(r.job, "ready", "none")
    BY <1>1, <2>1 DEF IsRecord
  <2>3. /\ c.job \in Row /\ c.job.origin = r.job.origin /\ c.job.diff = r.job.diff
    BY <2>1, <2>2, RowIsSet DEF IsRecord, JobStates, Reasons
  <2> HIDE DEF c
  <2>4. IsRecord(c) /\ RowIn(c, d, gone)
    BY <1>1, <2>1, <2>2, <2>3 DEF IsRecord, RowIn
  <2>5. QED  BY <2>4 DEF c
<1>2. QED  BY <1>1 DEF CaptureRecord, RowsIn

LEMMA DiffKeepsIn ==
    ASSUME NEW d, NEW gone, NEW records, RowsIn(records, d, gone),
           NEW id, id \in DiffsOf(d, gone)
    PROVE  RowsIn(DiffRecord(records, id), d, gone)
<1>1. ASSUME NEW r \in records, r.id = id
      PROVE  LET c == [r EXCEPT !.job = SetDiff(@, "ready", "none")]
             IN  IsRecord(c) /\ RowIn(c, d, gone)
  <2> DEFINE c == [r EXCEPT !.job = SetDiff(@, "ready", "none")]
  <2>1. IsRecord(r) /\ RowIn(r, d, gone)
    BY DEF RowsIn
  <2>2. c.id = id /\ DOMAIN c = DOMAIN r /\ c.job = SetDiff(r.job, "ready", "none")
    BY <1>1, <2>1 DEF IsRecord
  <2>3. /\ c.job \in Row /\ c.job.origin = r.job.origin /\ c.job.capture = r.job.capture
    BY <2>1, <2>2, RowIsSet DEF IsRecord, JobStates, Reasons
  <2> HIDE DEF c
  <2>4. IsRecord(c) /\ RowIn(c, d, gone)
    BY <1>1, <2>1, <2>2, <2>3 DEF IsRecord, RowIn
  <2>5. QED  BY <2>4 DEF c
<1>2. QED  BY <1>1 DEF DiffRecord, RowsIn

LEMMA SkippingKeepsIn ==
    ASSUME NEW d, NEW gone, NEW records, RowsIn(records, d, gone), NEW id,
           NEW state \in {"skipped", "failed"}, NEW reason \in Reasons
    PROVE  /\ RowsIn(CaptureSetIn(records, id, state, reason), d, gone)
           /\ RowsIn(DiffFailedIn(records, id), d, gone)
<1>1. ASSUME NEW r \in records
      PROVE  LET c == [r EXCEPT !.job = SetCapture(@, state, reason)]
             IN  IsRecord(c) /\ RowIn(c, d, gone)
  <2> DEFINE c == [r EXCEPT !.job = SetCapture(@, state, reason)]
  <2>1. IsRecord(r) /\ RowIn(r, d, gone)
    BY DEF RowsIn
  <2>2. c.id = r.id /\ DOMAIN c = DOMAIN r /\ c.job = SetCapture(r.job, state, reason)
    BY <1>1, <2>1 DEF IsRecord
  <2>3. /\ c.job \in Row /\ c.job.origin = r.job.origin /\ c.job.diff = r.job.diff
        /\ c.job.capture # "ready"
    BY <2>1, <2>2, RowIsSet DEF IsRecord, JobStates, Reasons
  <2> HIDE DEF c
  <2>4. IsRecord(c) /\ RowIn(c, d, gone)
    BY <1>1, <2>1, <2>2, <2>3 DEF IsRecord, RowIn
  <2>5. QED  BY <2>4 DEF c
<1>2. ASSUME NEW r \in records
      PROVE  LET c == [r EXCEPT !.job = MarkDiffFailed(@)]
             IN  IsRecord(c) /\ RowIn(c, d, gone)
  <2> DEFINE c == [r EXCEPT !.job = MarkDiffFailed(@)]
  <2>1. IsRecord(r) /\ RowIn(r, d, gone)
    BY DEF RowsIn
  <2>2. c.id = r.id /\ DOMAIN c = DOMAIN r /\ c.job = SetDiff(r.job, "failed", "error")
    BY <1>2, <2>1 DEF IsRecord, MarkDiffFailed
  <2>3. /\ c.job \in Row /\ c.job.origin = r.job.origin /\ c.job.capture = r.job.capture
        /\ c.job.diff # "ready"
    BY <2>1, <2>2, RowIsSet DEF IsRecord, JobStates, Reasons
  <2> HIDE DEF c
  <2>4. IsRecord(c) /\ RowIn(c, d, gone)
    BY <1>2, <2>1, <2>2, <2>3 DEF IsRecord, RowIn
  <2>5. QED  BY <2>4 DEF c
<1>3. QED  BY <1>1, <1>2 DEF CaptureSetIn, DiffFailedIn, RowsIn

\* What a rebuild reads of a release in the ledgers.
LEMMA LedgerEventIs ==
    ASSUME DataAssumption, NEW d, DataType(d), NEW id \in Logs(d)
    PROVE  /\ id \in Releases
           /\ LedgerEvent(d.ledgers, id).event = EventOf[id]
           /\ LedgerEvent(d.ledgers, id).origin \in Origins
           /\ LedgerEvent(d.ledgers, id).origin = "observed" <=> id \in Saw(d)
<1> DEFINE ledgers == d.ledgers
<1>1. /\ ledgers.observed \in Seq(Events) /\ ledgers.legacy \in Seq(Events)
      /\ ledgers.reconstructed \in Seq(Events)
  BY DEF DataType, LedgersOf
<1>2. /\ Saw(d) = LedgerIds(ledgers.observed) \cup LedgerIds(ledgers.legacy)
      /\ id \in Saw(d) \cup LedgerIds(ledgers.reconstructed)
  BY DEF Saw, Logs, LoggedIds, LedgerNames
<1>3. ASSUME NEW event \in Events, event.id = id
      PROVE  id \in Releases /\ event = EventOf[id]
  BY <1>3 DEF Events, DataAssumption
<1> HIDE DEF ledgers
<1>4. CASE id \in LedgerIds(ledgers.observed)
  <2>1. PICK line : line = ledgers.observed[Max(LinesOf(ledgers.observed, id))]
    OBVIOUS
  <2>2. line \in Events /\ line.id = id
    BY <1>1, <1>4, <2>1, LinesSpeak
  <2>3. LedgerEvent(ledgers, id) = [event |-> line, origin |-> "observed"]
    BY <1>4, <2>1 DEF LedgerEvent
  <2>4. QED  BY <1>2, <1>3, <1>4, <2>2, <2>3 DEF ledgers, Origins
<1>5. CASE id \notin LedgerIds(ledgers.observed) /\ id \in LedgerIds(ledgers.legacy)
  <2>1. PICK line : line = ledgers.legacy[Min(LinesOf(ledgers.legacy, id))]
    OBVIOUS
  <2>2. line \in Events /\ line.id = id
    BY <1>1, <1>5, <2>1, LinesSpeak
  <2>3. LedgerEvent(ledgers, id) = [event |-> line, origin |-> "observed"]
    BY <1>5, <2>1 DEF LedgerEvent
  <2>4. QED  BY <1>2, <1>3, <1>5, <2>2, <2>3 DEF ledgers, Origins
<1>6. CASE id \notin LedgerIds(ledgers.observed) /\ id \notin LedgerIds(ledgers.legacy)
  <2>1. PICK line : line = ledgers.reconstructed[Min(LinesOf(ledgers.reconstructed, id))]
    OBVIOUS
  <2>2. line \in Events /\ line.id = id
    BY <1>1, <1>2, <1>6, <2>1, LinesSpeak
  <2>3. LedgerEvent(ledgers, id) = [event |-> line, origin |-> "reconstructed"]
    BY <1>6, <2>1 DEF LedgerEvent
  <2>4. QED  BY <1>2, <1>3, <1>6, <2>2, <2>3 DEF ledgers, Origins
<1>7. QED  BY <1>4, <1>5, <1>6

\* The rows of a rebuilt table are backed, wherever the rebuild stopped.
LEMMA RebuiltIsIn ==
    ASSUME DataAssumption, NEW d, DataType(d), NEW gone, NEW stops
    PROVE  RowsIn(ReconcileUntil({}, d.ledgers, d.files, stops), d, gone)
<1> DEFINE ends(id, steps) == \E step \in steps : <<id, step>> \in stops
           known(id) == {r \in {} : r.id = id}
           seen(id) == LedgerEvent(d.ledgers, id)
           upserted(id) == IF ends(id, {"event"}) THEN known(id)
                           ELSE UpsertRecord(known(id), seen(id).event, seen(id).origin)
           captured(id) == IF d.files[id].capture = NoCapture \/ ends(id, {"event", "capture"})
                           THEN upserted(id)
                           ELSE CaptureRecord(upserted(id), id, d.files[id].capture)
           compared(id) == IF ~d.files[id].diff \/ ends(id, RebuildSteps) THEN captured(id)
                           ELSE DiffRecord(captured(id), id)
           reached == ReachedBefore(stops, d.ledgers)
<1>1. ReconcileUntil({}, d.ledgers, d.files, stops) =
          {r \in {} : r.id \notin reached} \cup UNION {compared(id) : id \in reached}
  BY DEF ReconcileUntil
<1>2. reached \subseteq Logs(d)
  BY DEF ReachedBefore, Logs
<1>3. ASSUME NEW id \in Logs(d)
      PROVE  RowsIn(compared(id), d, gone)
  <2>1. /\ id \in Releases /\ seen(id).event = EventOf[id] /\ seen(id).origin \in Origins
        /\ seen(id).origin = "observed" => id \in Saw(d)
    BY LedgerEventIs
  <2> HIDE DEF seen, ends
  <2>2. RowsIn(known(id), d, gone)
    BY DEF RowsIn
  <2> HIDE DEF known
  <2>3. RowsIn(UpsertRecord(known(id), EventOf[id], seen(id).origin), d, gone)
    BY <2>1, <2>2, UpsertKeepsIn
  <2>4. RowsIn(upserted(id), d, gone)
    BY <2>1, <2>2, <2>3
  <2> HIDE DEF upserted
  <2>5. RowsIn(captured(id), d, gone)
    <3>1. d.files[id].capture # NoCapture => id \in CapturesOf(d, gone)
      BY <2>1 DEF CapturesOf
    <3>2. QED  BY <2>4, <3>1, CaptureKeepsIn
  <2> HIDE DEF captured
  <2>6. d.files[id].diff => id \in DiffsOf(d, gone)
    BY <2>1 DEF DiffsOf
  <2>7. QED  BY <2>5, <2>6, DiffKeepsIn
<1> HIDE DEF compared, reached
<1>4. QED  BY <1>1, <1>2, <1>3 DEF RowsIn

\* What the row says of a release that a rebuild comes to.
HasRow(d, id, stops) ==
    \E rebuilt \in ReconcileUntil({}, d.ledgers, d.files, stops) :
        /\ rebuilt.id = id
        /\ rebuilt.job.origin = LedgerEvent(d.ledgers, id).origin
        /\ d.files[id].capture # NoCapture /\ <<id, "capture">> \notin stops =>
               rebuilt.job.capture = "ready"
        /\ d.files[id].diff /\ (\A step \in RebuildSteps : <<id, step>> \notin stops) =>
               rebuilt.job.diff = "ready"

LEMMA RebuiltRecord ==
    ASSUME DataAssumption, NEW d, DataType(d), NEW stops, NEW id \in ReachedBefore(stops, d.ledgers),
           <<id, "event">> \notin stops
    PROVE  HasRow(d, id, stops)
<1> DEFINE files == d.files
           ends(steps) == \E step \in steps : <<id, step>> \in stops
           seen  == LedgerEvent(d.ledgers, id)
           event == EventOf[id]
           job   == UpsertEventRow(NoRow, seen.origin, event.tier)
           known == {r \in {} : r.id = id}
           upserted == IF ends({"event"}) THEN known
                       ELSE UpsertRecord(known, seen.event, seen.origin)
           captured == IF files[id].capture = NoCapture \/ ends({"event", "capture"}) THEN upserted
                       ELSE CaptureRecord(upserted, id, files[id].capture)
           result   == IF ~files[id].diff \/ ends(RebuildSteps) THEN captured
                       ELSE DiffRecord(captured, id)
<1>1. id \in Logs(d) /\ seen.event = event /\ event.id = id /\ event.tier \in Tiers
      /\ seen.origin \in Origins
  <2>1. id \in Logs(d)
    BY DEF ReachedBefore, Logs
  <2>2. id \in Releases /\ seen.event = event /\ seen.origin \in Origins
    BY <2>1, LedgerEventIs
  <2>3. QED  BY <2>1, <2>2 DEF DataAssumption
<1>2. job \in Row /\ job.origin = seen.origin
  BY <1>1, UpsertedRow
<1>3. upserted = UpsertRecord({}, event, seen.origin)
  <2>1. known = {}
    OBVIOUS
  <2>2. QED  BY <1>1, <2>1
<1>4. \E published : UpsertRecord({}, event, seen.origin) = {[id |-> event.id,
             ecosystem |-> event.ecosystem,
             package |-> event.package, version |-> event.version, published |-> published,
             observed |-> event.observed, source |-> event.source, job |-> job,
             capture_at |-> NoTime]}
  BY DEF UpsertRecord, ReleaseRecord
<1>5. result \subseteq ReconcileUntil({}, d.ledgers, d.files, stops)
  <2>1. result \in {compared : compared \in {result}}
    OBVIOUS
  <2>2. QED  BY DEF ReconcileUntil
<1> HIDE DEF seen, event, job, upserted
<1>6. PICK new : upserted = {new} /\ new.id = id /\ new.job = job
                 /\ {"id", "job", "capture_at"} \subseteq DOMAIN new
  <2>1. PICK published :
            upserted = {[id |-> event.id, ecosystem |-> event.ecosystem,
                package |-> event.package, version |-> event.version, published |-> published,
                observed |-> event.observed, source |-> event.source, job |-> job,
                capture_at |-> NoTime]}
    BY <1>3, <1>4
  <2>2. PICK new : new = [id |-> event.id, ecosystem |-> event.ecosystem,
                package |-> event.package, version |-> event.version, published |-> published,
                observed |-> event.observed, source |-> event.source, job |-> job,
                capture_at |-> NoTime]
    OBVIOUS
  <2>3. new.id = id /\ new.job = job /\ {"id", "job", "capture_at"} \subseteq DOMAIN new
    BY <1>1, <2>2
  <2>4. QED  BY <2>1, <2>2, <2>3
<1>7. PICK c : /\ captured = {c} /\ c.id = id /\ {"id", "job"} \subseteq DOMAIN c
               /\ c.job \in Row /\ c.job.origin = seen.origin
               /\ files[id].capture # NoCapture /\ <<id, "capture">> \notin stops =>
                      c.job.capture = "ready"
  <2>1. CASE files[id].capture = NoCapture \/ ends({"event", "capture"})
    <3>1. captured = {new} /\ {"id", "job"} \subseteq DOMAIN new
      BY <1>6, <2>1
    <3>2. files[id].capture = NoCapture \/ <<id, "capture">> \in stops
      BY <2>1
    <3>3. QED  BY <1>2, <1>6, <3>1, <3>2
  <2>2. CASE ~(files[id].capture = NoCapture \/ ends({"event", "capture"}))
    <3> DEFINE c == [new EXCEPT !.job = SetCapture(@, "ready", "none"), !.capture_at = files[id].capture.at]
    <3>1. captured = {c}
      BY <1>6, <2>2 DEF CaptureRecord
    <3>2. c.id = id /\ {"id", "job"} \subseteq DOMAIN c /\ c.job = SetCapture(job, "ready", "none")
      BY <1>6
    <3>3. c.job \in Row /\ c.job.origin = seen.origin /\ c.job.capture = "ready"
      BY <1>2, <3>2, RowIsSet DEF JobStates, Reasons
    <3>4. QED  BY <3>1, <3>2, <3>3
  <2>3. QED  BY <2>1, <2>2
<1> HIDE DEF captured
<1>8. PICK r : /\ result = {r} /\ r.id = id /\ r.job.origin = seen.origin
               /\ files[id].capture # NoCapture /\ <<id, "capture">> \notin stops =>
                      r.job.capture = "ready"
               /\ files[id].diff /\ ~ends(RebuildSteps) => r.job.diff = "ready"
  <2>1. CASE ~files[id].diff \/ ends(RebuildSteps)
    BY <1>7, <2>1
  <2>2. CASE ~(~files[id].diff \/ ends(RebuildSteps))
    <3> DEFINE r == [c EXCEPT !.job = SetDiff(@, "ready", "none")]
    <3>1. result = {r}
      BY <1>7, <2>2 DEF DiffRecord
    <3>2. r.id = id /\ r.job = SetDiff(c.job, "ready", "none")
      BY <1>7
    <3>3. /\ r.job.origin = c.job.origin /\ r.job.capture = c.job.capture
          /\ r.job.diff = "ready"
      BY <1>7, <3>2, RowIsSet DEF JobStates, Reasons
    <3>4. QED  BY <1>7, <3>1, <3>2, <3>3
  <2>3. QED  BY <2>1, <2>2
<1>9. QED  BY <1>5, <1>8 DEF seen, HasRow

\* What is lost and rebuilt has what the invariant says it has.
LEMMA RebuildIsReady ==
    ASSUME DataAssumption, DirectoryInv
    PROVE  RebuildKeepsReady
<1>1. SUFFICES ASSUME NEW live \in data.records
               PROVE  /\ live.id \in LoggedIds(data.ledgers)
                      /\ live.id \in ReachedBefore(Unreadable(data.files), data.ledgers) =>
                             \E rebuilt \in Reconcile({}, data.ledgers, data.files) :
                                 /\ rebuilt.id = live.id
                                 /\ live.job.origin = "observed" => rebuilt.job.origin = "observed"
                                 /\ \/ live.job.capture = "ready" /\ live.id \notin removed
                                    \/ data.files[live.id].capture # NoCapture
                                    => \/ "capture" \in data.files[live.id].half
                                       \/ rebuilt.job.capture = "ready"
                                 /\ \/ live.job.diff = "ready" /\ live.id \notin removed
                                    \/ data.files[live.id].diff
                                    => \/ data.files[live.id].half # {}
                                       \/ rebuilt.job.diff = "ready"
  BY DEF RebuildKeepsReady
<1>2. /\ DataType(data) /\ IsRecord(live) /\ RowIn(live, data, removed)
  BY DEF DirectoryInv, RowsIn
<1>3. PICK id : id = live.id
  OBVIOUS
<1>4. id \in Releases /\ id \in Logs(data)
  BY <1>2, <1>3 DEF IsRecord, RowIn
<1>5. PICK file : file = data.files[id]
  OBVIOUS
<1>6. /\ DOMAIN data.files = Releases /\ file.half \subseteq {"capture", "diff"}
  BY <1>2, <1>4, <1>5 DEF DataType, FilesOf
<1>7. /\ live.job.capture = "ready" /\ id \notin removed => file.capture # NoCapture
      /\ live.job.diff = "ready" /\ id \notin removed => file.diff
      /\ live.job.origin = "observed" => id \in Saw(data)
  BY <1>2, <1>3, <1>5 DEF RowIn, CapturesOf, DiffsOf
<1>8. PICK stops : stops = Unreadable(data.files)
  OBVIOUS
<1>9. \A step : <<id, step>> \in stops <=> step \in file.half
  <2>1. ASSUME NEW step, <<id, step>> \in stops PROVE step \in file.half
    <3>1. PICK other \in Releases : <<id, step>> \in {other} \X data.files[other].half
      BY <1>6, <1>8, <2>1 DEF Unreadable
    <3>2. QED  BY <1>5, <3>1
  <2>2. ASSUME NEW step \in file.half PROVE <<id, step>> \in stops
    <3>1. <<id, step>> \in {id} \X data.files[id].half
      BY <1>5
    <3>2. QED  BY <1>4, <1>6, <1>8, <3>1 DEF Unreadable
  <2>3. QED  BY <2>1, <2>2
<1>10. ASSUME id \in ReachedBefore(stops, data.ledgers)
       PROVE  \E rebuilt \in Reconcile({}, data.ledgers, data.files) :
                  /\ rebuilt.id = id
                  /\ live.job.origin = "observed" => rebuilt.job.origin = "observed"
                  /\ file.capture # NoCapture =>
                         "capture" \in file.half \/ rebuilt.job.capture = "ready"
                  /\ file.diff => file.half # {} \/ rebuilt.job.diff = "ready"
  <2>1. <<id, "event">> \notin stops
    BY <1>6, <1>9
  <2>2. HasRow(data, id, stops)
    BY <1>2, <1>10, <2>1, RebuiltRecord
  <2>3. PICK rebuilt \in ReconcileUntil({}, data.ledgers, data.files, stops) :
            /\ rebuilt.id = id
            /\ rebuilt.job.origin = LedgerEvent(data.ledgers, id).origin
            /\ data.files[id].capture # NoCapture /\ <<id, "capture">> \notin stops =>
                   rebuilt.job.capture = "ready"
            /\ data.files[id].diff /\ (\A step \in RebuildSteps : <<id, step>> \notin stops) =>
                   rebuilt.job.diff = "ready"
    BY <2>2 DEF HasRow
  <2>4. live.job.origin = "observed" => rebuilt.job.origin = "observed"
    BY <1>2, <1>4, <1>7, <2>3, LedgerEventIs
  <2>5. QED  BY <1>5, <1>8, <1>9, <2>3, <2>4 DEF Reconcile
<1>11. QED
  BY <1>3, <1>4, <1>5, <1>7, <1>8, <1>10 DEF Logs

-----------------------------------------------------------------------------
(* What a write does to the directory.                                     *)

Keeps(d, gone, e, taken) ==
    DataType(e) /\ Grows(d, gone, e, taken) /\ RowsIn(e.records, e, taken)

LEMMA LogsAre ==
    ASSUME NEW d
    PROVE  Logs(d) = LedgerIds(d.ledgers.observed) \cup LedgerIds(d.ledgers.legacy)
                     \cup LedgerIds(d.ledgers.reconstructed)
BY DEF Logs, LoggedIds, LedgerNames

LEMMA SawIsLogged == ASSUME NEW d PROVE Saw(d) \subseteq Logs(d)
BY DEF Saw, Logs, LoggedIds, LedgerNames

LEMMA UnchangedKeeps ==
    ASSUME NEW d, NEW gone, DataType(d), RowsIn(d.records, d, gone)
    PROVE  Keeps(d, gone, d, gone)
BY DEF Keeps, Grows

\* Rows that the directory backs.
LEMMA RecordsKeep ==
    ASSUME NEW d, NEW gone, DataType(d), NEW records, RowsIn(records, d, gone),
           NEW e, e = [d EXCEPT !.records = records]
    PROVE  Keeps(d, gone, e, gone)
<1>1. DataType(e) /\ e.records = records /\ e.ledgers = d.ledgers /\ e.files = d.files
  BY DEF DataType
<1>2. Grows(d, gone, e, gone)
  BY <1>1 DEF Grows, Logs, Saw, CapturesOf, DiffsOf
<1>3. RowsIn(records, e, gone)
  BY <1>2, GrowthKeeps
<1>4. QED  BY <1>1, <1>2, <1>3 DEF Keeps

LEMMA AppendedIds ==
    ASSUME NEW lines \in Seq(Events), NEW event \in Events
    PROVE  /\ Append(lines, event) \in Seq(Events)
           /\ LedgerIds(Append(lines, event)) = LedgerIds(lines) \cup {event.id}
<1>1. /\ Append(lines, event) \in Seq(Events)
      /\ DOMAIN Append(lines, event) = 1 .. Len(lines) + 1
      /\ DOMAIN lines = 1 .. Len(lines) /\ Len(lines) \in Nat
      /\ \A i \in 1 .. Len(lines) : Append(lines, event)[i] = lines[i]
      /\ Append(lines, event)[Len(lines) + 1] = event
  OBVIOUS
<1>2. QED  BY <1>1 DEF LedgerIds

\* A line more of the observed ledger.
LEMMA LineKeeps ==
    ASSUME DataAssumption, NEW d, NEW gone, DataType(d), RowsIn(d.records, d, gone),
           NEW id \in Releases,
           NEW e, e = [d EXCEPT !.ledgers.observed = Append(@, EventOf[id])]
    PROVE  Keeps(d, gone, e, gone) /\ id \in Saw(e)
<1>1. EventOf[id] \in Events /\ EventOf[id].id = id
  BY DEF Events, DataAssumption
<1>2. /\ e.records = d.records /\ e.files = d.files
      /\ DOMAIN e = DOMAIN d
      /\ e.ledgers = [d.ledgers EXCEPT !.observed = Append(@, EventOf[id])]
  BY DEF DataType
<1>3. /\ e.ledgers.observed = Append(d.ledgers.observed, EventOf[id])
      /\ e.ledgers.legacy = d.ledgers.legacy
      /\ e.ledgers.reconstructed = d.ledgers.reconstructed
      /\ e.ledgers.torn = d.ledgers.torn
      /\ d.ledgers.observed \in Seq(Events)
  BY <1>2 DEF DataType, LedgersOf
<1>4. /\ Append(d.ledgers.observed, EventOf[id]) \in Seq(Events)
      /\ LedgerIds(e.ledgers.observed) = LedgerIds(d.ledgers.observed) \cup {id}
  BY <1>1, <1>3, AppendedIds
<1>5. DataType(e)
  BY <1>2, <1>3, <1>4 DEF DataType, LedgersOf
<1>6. /\ Saw(d) \subseteq Saw(e) /\ Logs(d) \subseteq Logs(e) /\ id \in Saw(e)
  BY <1>3, <1>4, LogsAre DEF Saw
<1>7. Grows(d, gone, e, gone)
  BY <1>2, <1>6 DEF Grows, CapturesOf, DiffsOf
<1>8. RowsIn(e.records, e, gone)
  BY <1>2, <1>7, GrowthKeeps
<1>9. QED  BY <1>5, <1>6, <1>7, <1>8 DEF Keeps

\* A line more of the reconstructed one.
LEMMA EntryLineKeeps ==
    ASSUME DataAssumption, NEW d, NEW gone, DataType(d), RowsIn(d.records, d, gone),
           NEW id \in Releases, NEW e, e = AppendEntry(d, EventOf[id])
    PROVE  Keeps(d, gone, e, gone) /\ id \in Logs(e)
<1>1. EventOf[id] \in Events /\ EventOf[id].id = id
  BY DEF Events, DataAssumption
<1>2. /\ e.records = d.records /\ e.files = d.files
      /\ DOMAIN e = DOMAIN d
      /\ e.ledgers = [d.ledgers EXCEPT !.reconstructed = Append(@, EventOf[id])]
  BY DEF DataType, AppendEntry
<1>3. /\ e.ledgers.reconstructed = Append(d.ledgers.reconstructed, EventOf[id])
      /\ e.ledgers.legacy = d.ledgers.legacy
      /\ e.ledgers.observed = d.ledgers.observed
      /\ e.ledgers.torn = d.ledgers.torn
      /\ d.ledgers.reconstructed \in Seq(Events)
  BY <1>2 DEF DataType, LedgersOf
<1>4. /\ Append(d.ledgers.reconstructed, EventOf[id]) \in Seq(Events)
      /\ LedgerIds(e.ledgers.reconstructed) = LedgerIds(d.ledgers.reconstructed) \cup {id}
  BY <1>1, <1>3, AppendedIds
<1>5. DataType(e)
  BY <1>2, <1>3, <1>4 DEF DataType, LedgersOf
<1>6. /\ Saw(d) \subseteq Saw(e) /\ Logs(d) \subseteq Logs(e) /\ id \in Logs(e)
  BY <1>3, <1>4, LogsAre DEF Saw
<1>7. Grows(d, gone, e, gone)
  BY <1>2, <1>6 DEF Grows, CapturesOf, DiffsOf
<1>8. RowsIn(e.records, e, gone)
  BY <1>2, <1>7, GrowthKeeps
<1>9. QED  BY <1>5, <1>6, <1>7, <1>8 DEF Keeps

\* Lines that are torn.
LEMMA TearingKeeps ==
    ASSUME NEW d, NEW gone, DataType(d), RowsIn(d.records, d, gone),
           NEW torn \in SUBSET LedgerNames,
           NEW e, e = [d EXCEPT !.ledgers.torn = @ \cup torn]
    PROVE  Keeps(d, gone, e, gone)
<1>1. /\ e.records = d.records /\ e.files = d.files
      /\ DOMAIN e = DOMAIN d
      /\ e.ledgers = [d.ledgers EXCEPT !.torn = @ \cup torn]
  BY DEF DataType
<1>2. /\ e.ledgers.observed = d.ledgers.observed
      /\ e.ledgers.legacy = d.ledgers.legacy
      /\ e.ledgers.reconstructed = d.ledgers.reconstructed
      /\ e.ledgers \in LedgersOf(Events)
  BY <1>1 DEF DataType, LedgersOf
<1>3. Grows(d, gone, e, gone)
  BY <1>1, <1>2 DEF Grows, Saw, Logs, LoggedIds, LedgerNames, CapturesOf, DiffsOf
<1>4. QED  BY <1>1, <1>2, <1>3, GrowthKeeps DEF Keeps, DataType

\* Files of a release that are written, or removed and remembered as gone.
LEMMA FilesKeep ==
    ASSUME NEW d, NEW gone, DataType(d), RowsIn(d.records, d, gone),
           NEW taken, gone \subseteq taken,
           NEW id \in Releases, NEW file \in FilesOf,
           NEW e, e = [d EXCEPT !.files[id] = file],
           d.files[id].capture # NoCapture => file.capture # NoCapture \/ id \in taken,
           d.files[id].diff => file.diff \/ id \in taken
    PROVE  /\ Keeps(d, gone, e, taken)
           /\ file.capture # NoCapture => id \in CapturesOf(e, taken)
           /\ file.diff => id \in DiffsOf(e, taken)
<1>1. /\ e.records = d.records /\ e.ledgers = d.ledgers /\ DOMAIN e = DOMAIN d
      /\ e.files = [d.files EXCEPT ![id] = file]
      /\ DOMAIN d.files = Releases
  BY DEF DataType
<1>2. DataType(e)
  BY <1>1 DEF DataType
<1>3. /\ e.files[id] = file
      /\ \A other \in Releases : other # id => e.files[other] = d.files[other]
  BY <1>1
<1>4. CapturesOf(d, gone) \subseteq CapturesOf(e, taken)
  BY <1>3 DEF CapturesOf
<1>5. DiffsOf(d, gone) \subseteq DiffsOf(e, taken)
  BY <1>3 DEF DiffsOf
<1>6. Grows(d, gone, e, taken)
  BY <1>1, <1>4, <1>5 DEF Grows, Saw, Logs
<1>7. QED  BY <1>1, <1>2, <1>3, <1>6, GrowthKeeps DEF Keeps, CapturesOf, DiffsOf

\* What is recorded: rows of a release that was observed, and the states of jobs.
LEMMA RecordingKeeps ==
    ASSUME DataAssumption, NEW gone, DataType(data), RowsIn(data.records, data, gone),
           NEW id \in Releases, id \in Saw(data)
    PROVE  /\ id \in CapturesOf(data, gone) => Keeps(data, gone, WithCapture(id, "observed"), gone)
           /\ id \in DiffsOf(data, gone) => Keeps(data, gone, WithDiff(id), gone)
           /\ \A e : e = [data EXCEPT !.records = UpsertRecord(@, EventOf[id], "observed")] =>
                  Keeps(data, gone, e, gone)
<1>1. PICK upserted : upserted = UpsertRecord(data.records, EventOf[id], "observed")
  OBVIOUS
<1>2. RowsIn(upserted, data, gone)
  <2>1. id \in Logs(data) /\ "observed" \in Origins
    BY SawIsLogged DEF Origins
  <2>2. QED  BY <1>1, <2>1, UpsertKeepsIn
<1>3. ASSUME id \in CapturesOf(data, gone)
      PROVE  Keeps(data, gone, WithCapture(id, "observed"), gone)
  <2>1. PICK records : records = CaptureRecord(upserted, id, CaptureOf[id])
    OBVIOUS
  <2>2. RowsIn(records, data, gone)
    BY <1>2, <1>3, <2>1, CaptureKeepsIn
  <2>3. WithCapture(id, "observed") = [data EXCEPT !.records = records]
    BY <1>1, <2>1 DEF WithCapture
  <2>4. QED  BY <2>2, <2>3, RecordsKeep
<1>4. ASSUME id \in DiffsOf(data, gone)
      PROVE  Keeps(data, gone, WithDiff(id), gone)
  <2>1. PICK records : records = DiffRecord(upserted, id)
    OBVIOUS
  <2>2. RowsIn(records, data, gone)
    BY <1>2, <1>4, <2>1, DiffKeepsIn
  <2>3. WithDiff(id) = [data EXCEPT !.records = records]
    BY <1>1, <2>1 DEF WithDiff
  <2>4. QED  BY <2>2, <2>3, RecordsKeep
<1>5. ASSUME NEW e, e = [data EXCEPT !.records = UpsertRecord(@, EventOf[id], "observed")]
      PROVE  Keeps(data, gone, e, gone)
  BY <1>1, <1>2, <1>5, RecordsKeep
<1>6. QED  BY <1>3, <1>4, <1>5

LEMMA SettingKeeps ==
    ASSUME NEW gone, DataType(data), RowsIn(data.records, data, gone), NEW id,
           NEW state \in {"skipped", "failed"}, NEW reason \in Reasons
    PROVE  /\ Keeps(data, gone, CaptureSet(id, state, reason), gone)
           /\ Keeps(data, gone, DiffFailed(id), gone)
<1>1. PICK records : records = CaptureSetIn(data.records, id, state, reason)
  OBVIOUS
<1>2. CaptureSet(id, state, reason) = [data EXCEPT !.records = records]
  BY <1>1 DEF CaptureSet
<1>3. PICK failed : failed = DiffFailedIn(data.records, id)
  OBVIOUS
<1>4. DiffFailed(id) = [data EXCEPT !.records = failed]
  BY <1>3 DEF DiffFailed
<1>5. RowsIn(records, data, gone) /\ RowsIn(failed, data, gone)
  BY <1>1, <1>3, SkippingKeepsIn
<1>6. QED  BY <1>2, <1>4, <1>5, RecordsKeep

LEMMA WritingKeeps ==
    ASSUME DataAssumption, NEW gone, DataType(data), RowsIn(data.records, data, gone),
           NEW id \in Releases
    PROVE  /\ Keeps(data, gone, Opened("capture", id), gone)
           /\ id \in CapturesOf(Opened("capture", id), gone)
           /\ Keeps(data, gone, Opened("diff", id), gone)
           /\ id \in DiffsOf(Opened("diff", id), gone)
           /\ \A w, file : Keeps(data, gone, Closed(w, file, id), gone)
<1>1. data.files[id] \in FilesOf /\ data.files \in [Releases -> FilesOf]
  BY DEF DataType
<1>2. PICK capture : capture = [data.files[id] EXCEPT !.capture = CaptureOf[id],
                                                      !.half = @ \cup {"capture"}]
  OBVIOUS
<1>3. capture \in FilesOf /\ capture.capture # NoCapture /\ capture.diff = data.files[id].diff
  BY <1>1, <1>2 DEF FilesOf, DataAssumption
<1>4. Opened("capture", id) = [data EXCEPT !.files[id] = capture]
  BY <1>1, <1>2 DEF Opened, DataType
<1>5. PICK diff : diff = [data.files[id] EXCEPT !.diff = TRUE, !.half = @ \cup {"diff"}]
  OBVIOUS
<1>6. diff \in FilesOf /\ diff.diff /\ diff.capture = data.files[id].capture
  BY <1>1, <1>5 DEF FilesOf
<1>7. Opened("diff", id) = [data EXCEPT !.files[id] = diff]
  BY <1>1, <1>5 DEF Opened, DataType
<1>8. ASSUME NEW w, NEW file PROVE Keeps(data, gone, Closed(w, file, id), gone)
  <2>1. PICK closed : closed = [data.files[id] EXCEPT !.half = @ \ {file}]
    OBVIOUS
  <2>2. closed \in FilesOf /\ closed.capture = data.files[id].capture
        /\ closed.diff = data.files[id].diff
    BY <1>1, <2>1 DEF FilesOf
  <2>3. PICK e : e = [data EXCEPT !.files[id] = closed]
    OBVIOUS
  <2>4. e = [data EXCEPT !.files[id].half = @ \ {file}]
    BY <1>1, <2>1, <2>3 DEF DataType
  <2>5. Keeps(data, gone, e, gone)
    BY <2>2, <2>3, FilesKeep
  <2>6. Keeps(data, gone, data, gone)
    BY UnchangedKeeps
  <2>7. Closed(w, file, id) = data \/ Closed(w, file, id) = e
    BY <2>4 DEF Closed
  <2>8. QED  BY <2>5, <2>6, <2>7
<1>9. Keeps(data, gone, Opened("capture", id), gone) /\ id \in CapturesOf(Opened("capture", id), gone)
  <2>1. PICK e : e = Opened("capture", id)
    OBVIOUS
  <2>2. data.files[id].capture # NoCapture => capture.capture # NoCapture
    BY <1>3
  <2>3. data.files[id].diff => capture.diff
    BY <1>3
  <2>4. e = [data EXCEPT !.files[id] = capture]
    BY <1>4, <2>1
  <2>5. Keeps(data, gone, e, gone) /\ id \in CapturesOf(e, gone)
    BY <1>3, <2>2, <2>3, <2>4, FilesKeep
  <2>6. QED  BY <2>1, <2>5
<1>10. Keeps(data, gone, Opened("diff", id), gone) /\ id \in DiffsOf(Opened("diff", id), gone)
  BY <1>6, <1>7, FilesKeep
<1>11. QED  BY <1>8, <1>9, <1>10

-----------------------------------------------------------------------------
(* Every step keeps the invariant.                                         *)

Waits(w, d) == w \in [capture : SUBSET Saw(d), diff : SUBSET Saw(d)]

LEMMA Standing ==
    ASSUME DirectoryInv, NEW w \in Workers
    PROVE  /\ DataType(data) /\ RowsIn(data.records, data, removed)
           /\ TaskIn(task[w], data, removed) /\ removed \in SUBSET Releases
           /\ Waits(waiting, data) /\ Keeps(data, removed, data, removed)
BY UnchangedKeeps DEF DirectoryInv, Waits

LEMMA NoTaskIsIn == ASSUME NEW d, NEW gone PROVE TaskIn(NoTask, d, gone)
<1>1. NoTask.at = "idle" /\ NoTask \in [at : Places, id : Releases \cup {0}, entry : Releases \cup {0}]
  BY DEF NoTask, Places
<1>2. QED  BY <1>1 DEF TaskIn

LEMMA StepKeeps ==
    ASSUME DirectoryInv, Keeps(data, removed, data', removed'), removed' \in SUBSET Releases,
           Waits(waiting', data'),
           NEW w \in Workers, NEW t, TaskIn(t, data', removed'),
           task' = task \/ task' = [task EXCEPT ![w] = t]
    PROVE  DirectoryInv'
<1>1. DataType(data') /\ RowsIn(data.records', data', removed')
  BY DEF Keeps
<1>2. DOMAIN task' = Workers
  BY DEF DirectoryInv
<1>3. \A v \in Workers : TaskIn(task'[v], data', removed')
  <2>1. \A v \in Workers : TaskIn(task[v], data', removed')
    BY GrowthKeeps DEF Keeps, DirectoryInv
  <2>2. QED  BY <2>1 DEF DirectoryInv
<1>4. QED  BY <1>1, <1>2, <1>3 DEF DirectoryInv, Waits

\* What waits goes on to wait, as the directory grows.
LEMMA WaitingKeeps ==
    ASSUME NEW d, NEW gone, NEW e, NEW taken, Keeps(d, gone, e, taken), NEW w, Waits(w, d)
    PROVE  /\ Waits(w, e)
           /\ \A id \in Saw(e) : /\ Waits([w EXCEPT !.capture = @ \cup {id}], e)
                                 /\ Waits([w EXCEPT !.diff = @ \cup {id}], e)
           /\ \A id : /\ Waits([w EXCEPT !.capture = @ \ {id}], e)
                      /\ Waits([w EXCEPT !.diff = @ \ {id}], e)
<1>1. PICK saw : saw = Saw(e) /\ w \in [capture : SUBSET saw, diff : SUBSET saw]
  BY DEF Keeps, Grows, Waits
<1>2. QED  BY <1>1 DEF Waits

\* A worker that goes on, or rests.
LEMMA GoingKeeps ==
    ASSUME DirectoryInv, NEW w \in Workers, NEW place \in Places, Goes(w, place),
           UNCHANGED <<waiting, removed>>, Keeps(data, removed, data', removed'),
           task[w].at # "idle", task[w].at = "append" => task[w].id \in Saw(data'),
           place \notin {"idle", "append"},
           place \in {"write", "rewrite", "amend", "record_fetched", "record_scanned",
                      "record_amended"} => task[w].id \in CapturesOf(data', removed'),
           place \in {"compose", "record_diff"} => task[w].id \in DiffsOf(data', removed'),
           place \in {"open", "append_entry", "record_entry", "look_entry", "fill",
                      "record_filled"} => task[w].entry \in Releases,
           place \in {"record_entry", "look_entry", "fill", "record_filled"} =>
               task[w].entry \in Logs(data'),
           place \in {"fill", "record_filled"} => task[w].entry \in CapturesOf(data', removed')
    PROVE  DirectoryInv'
<1>1. TaskIn(task[w], data', removed') /\ removed' \in SUBSET Releases /\ Waits(waiting', data')
  <2>1. Waits(waiting', data')
    BY Standing, WaitingKeeps
  <2>2. QED  BY <2>1, Standing, GrowthKeeps DEF Keeps
<1>2. PICK t : t = [task[w] EXCEPT !.at = place]
  OBVIOUS
<1>3. task' = [task EXCEPT ![w] = t]
  BY <1>2 DEF Goes
<1>4. /\ t.at = place /\ t.id = task[w].id /\ t.entry = task[w].entry
      /\ t \in [at : Places, id : Releases \cup {0}, entry : Releases \cup {0}]
  BY <1>1, <1>2 DEF TaskIn
<1>5. t.id \in Releases /\ t.id \in Saw(data')
  BY <1>1, <1>4 DEF TaskIn
<1>6. TaskIn(t, data', removed')
  BY <1>4, <1>5 DEF TaskIn
<1>7. QED  BY <1>1, <1>3, <1>6, StepKeeps

LEMMA RestingKeeps ==
    ASSUME DirectoryInv, NEW w \in Workers, Rests(w), UNCHANGED removed,
           Keeps(data, removed, data', removed'), Waits(waiting', data')
    PROVE  DirectoryInv'
<1>1. TaskIn(NoTask, data', removed') /\ removed' \in SUBSET Releases
  BY NoTaskIsIn, Standing
<1>2. QED  BY <1>1, StepKeeps DEF Rests

LEMMA ObservingKeeps ==
    ASSUME DataAssumption, DirectoryInv
    PROVE  /\ \A id \in Releases : Observe(id) \/ Dropped(id) => DirectoryInv'
           /\ Logged \/ Recorded => DirectoryInv'
<1>1. "intake" \in Workers
  BY DEF Workers
<1>2. ASSUME NEW id \in Releases, Observe(id) PROVE DirectoryInv'
  <2>1. PICK t : t = [task["intake"] EXCEPT !.at = "append", !.id = id]
    OBVIOUS
  <2>2. task' = [task EXCEPT !["intake"] = t] /\ UNCHANGED <<data, waiting, removed>>
    BY <1>2, <2>1 DEF Observe
  <2>3. TaskIn(t, data, removed)
    <3>1. TaskIn(task["intake"], data, removed)
      BY <1>1, Standing
    <3>2. t.at = "append" /\ t.id = id
          /\ t \in [at : Places, id : Releases \cup {0}, entry : Releases \cup {0}]
      BY <2>1, <3>1 DEF TaskIn, Places
    <3>3. QED  BY <3>2 DEF TaskIn
  <2>4. /\ Keeps(data, removed, data', removed') /\ removed' \in SUBSET Releases
        /\ Waits(waiting', data') /\ TaskIn(t, data', removed')
    BY <1>1, <2>2, <2>3, Standing
  <2>5. QED  BY <1>1, <2>2, <2>4, StepKeeps
<1>3. ASSUME NEW id \in Releases, Dropped(id) PROVE DirectoryInv'
  <2>1. /\ UNCHANGED <<task, removed>> /\ waiting' = [waiting EXCEPT !.capture = @ \ {id}]
        /\ data' = CaptureSet(id, "skipped", "triage")
    BY <1>3 DEF Dropped
  <2>2. Keeps(data, removed, data', removed')
    BY <1>1, <2>1, Standing, SettingKeeps DEF Reasons
  <2>3. removed' \in SUBSET Releases /\ Waits(waiting', data') /\ TaskIn(NoTask, data', removed')
    BY <1>1, <2>1, <2>2, Standing, WaitingKeeps, NoTaskIsIn
  <2>4. QED  BY <1>1, <2>1, <2>2, <2>3, StepKeeps
<1>4. CASE Logged
  <2>1. PICK id : id = task["intake"].id
    OBVIOUS
  <2>2. /\ task["intake"].at = "append" /\ Goes("intake", "record")
        /\ UNCHANGED <<waiting, removed>>
        /\ data' = [data EXCEPT !.ledgers.observed = Append(@, EventOf[id])]
    BY <1>4, <2>1 DEF Logged, Stands
  <2>3. id \in Releases
    BY <1>1, <2>1, <2>2, Standing DEF TaskIn
  <2>4. Keeps(data, removed, data', removed') /\ id \in Saw(data')
    BY <1>1, <2>2, <2>3, Standing, LineKeeps
  <2>5. "record" \in Places
    BY DEF Places
  <2>6. QED  BY <1>1, <2>1, <2>2, <2>4, <2>5, GoingKeeps
<1>5. CASE Recorded
  <2>1. PICK id : id = task["intake"].id
    OBVIOUS
  <2>2. /\ task["intake"].at = "record" /\ Rests("intake") /\ UNCHANGED removed
        /\ waiting' = [waiting EXCEPT !.capture = @ \cup {id}]
        /\ data' = [data EXCEPT !.records = UpsertRecord(@, EventOf[id], "observed")]
    BY <1>5, <2>1 DEF Recorded, Stands
  <2>3. id \in Releases /\ id \in Saw(data)
    BY <1>1, <2>1, <2>2, Standing DEF TaskIn
  <2>4. Keeps(data, removed, data', removed')
    BY <1>1, <2>2, <2>3, Standing, RecordingKeeps
  <2>5. id \in Saw(data')
    BY <2>3, <2>4 DEF Keeps, Grows
  <2>6. Waits(waiting', data')
    <3>1. Waits(waiting, data)
      BY <1>1, Standing
    <3>2. Waits([waiting EXCEPT !.capture = @ \cup {id}], data')
      BY <2>4, <2>5, <3>1, WaitingKeeps
    <3>3. QED  BY <2>2, <3>2
  <2>7. QED  BY <1>1, <2>2, <2>4, <2>6, RestingKeeps
<1>6. QED  BY <1>2, <1>3, <1>4, <1>5

\* A worker that is not idle and not appending has a release that was observed.
LEMMA AtWork ==
    ASSUME DirectoryInv, NEW w \in Workers, task[w].at \notin {"idle", "append"}
    PROVE  task[w].id \in Releases /\ task[w].id \in Saw(data) /\ task[w].at \in Places
BY Standing DEF TaskIn

LEMMA TakingKeeps ==
    ASSUME DirectoryInv, NEW w \in Workers, NEW id \in Releases
    PROVE  TakeCapture(w, id) \/ TakeDiff(w, id) => DirectoryInv'
<1>1. ASSUME NEW place \in {"index", "fetch", "stage", "build", "unreadable"}, id \in Saw(data),
             UNCHANGED <<data, removed>>, Waits(waiting', data),
             task' = [task EXCEPT ![w].at = place, ![w].id = id]
      PROVE  DirectoryInv'
  <2>1. PICK t : t = [task[w] EXCEPT !.at = place, !.id = id]
    OBVIOUS
  <2>2. task' = [task EXCEPT ![w] = t]
    BY <1>1, <2>1
  <2>3. TaskIn(task[w], data, removed)
    BY Standing
  <2>4. t.at = place /\ t.id = id /\ t \in [at : Places, id : Releases \cup {0}, entry : Releases \cup {0}]
    BY <2>1, <2>3 DEF TaskIn, Places
  <2>5. TaskIn(t, data, removed)
    BY <1>1, <2>4 DEF TaskIn
  <2>6. /\ Keeps(data, removed, data', removed') /\ removed' \in SUBSET Releases
        /\ Waits(waiting', data') /\ TaskIn(t, data', removed')
    BY <1>1, <2>5, Standing
  <2>7. QED  BY <2>2, <2>6, StepKeeps
<1>2. CASE TakeCapture(w, id)
  <2>1. /\ id \in waiting.capture /\ waiting' = [waiting EXCEPT !.capture = @ \ {id}]
        /\ UNCHANGED <<data, removed>>
        /\ \E place \in {"index", "fetch", "stage"} :
               task' = [task EXCEPT ![w].at = place, ![w].id = id]
    BY <1>2 DEF TakeCapture
  <2>2. id \in Saw(data)
    BY <2>1, Standing DEF Waits
  <2>3. Waits(waiting', data)
    BY <2>1, Standing, WaitingKeeps
  <2>4. QED  BY <1>1, <2>1, <2>2, <2>3
<1>3. CASE TakeDiff(w, id)
  <2>1. /\ id \in waiting.diff /\ waiting' = [waiting EXCEPT !.diff = @ \ {id}]
        /\ UNCHANGED <<data, removed>>
        /\ \/ UNCHANGED task
           \/ \E place \in {"build", "unreadable"} :
                  task' = [task EXCEPT ![w].at = place, ![w].id = id]
    BY <1>3 DEF TakeDiff
  <2>2. id \in Saw(data)
    BY <2>1, Standing DEF Waits
  <2>3. Waits(waiting', data)
    BY <2>1, Standing, WaitingKeeps
  <2>4. CASE UNCHANGED task
    <3>1. /\ Keeps(data, removed, data', removed') /\ removed' \in SUBSET Releases
          /\ Waits(waiting', data') /\ TaskIn(NoTask, data', removed')
      BY <2>1, <2>3, Standing, NoTaskIsIn
    <3>2. QED  BY <2>4, <3>1, StepKeeps
  <2>5. QED  BY <1>1, <2>1, <2>2, <2>3, <2>4
<1>4. QED  BY <1>2, <1>3

LEMMA CapturingKeeps ==
    ASSUME DataAssumption, DirectoryInv, NEW w \in Workers
    PROVE  /\ Index(w) => DirectoryInv'
           /\ BeginCapture(w) => DirectoryInv'
           /\ EndCapture(w) => DirectoryInv'
           /\ RecordFetched(w) => DirectoryInv'
           /\ RecordScanned(w) => DirectoryInv'
           /\ Discard(w) => DirectoryInv'
           /\ Retain(w) => DirectoryInv'
           /\ Clear(w) => DirectoryInv'
           /\ Rename(w) => DirectoryInv'
           /\ FailCapture(w) => DirectoryInv'
<1> DEFINE Said == {"index", "fetch", "scan", "write", "rewrite", "record_fetched",
                    "record_scanned", "stage", "clear", "rename"}
<1>1. PICK id : id = task[w].id
  OBVIOUS
<1>2. task[w].at \in Said => id \in Releases /\ id \in Saw(data)
  BY <1>1, AtWork
<1>3. /\ DataType(data) /\ RowsIn(data.records, data, removed) /\ Waits(waiting, data)
      /\ TaskIn(task[w], data, removed) /\ removed \in SUBSET Releases
      /\ Keeps(data, removed, data, removed)
  BY Standing
<1>4. ASSUME id \in Saw(data), NEW e, Keeps(data, removed, e, removed), MayCompare(id)
      PROVE  Waits(waiting', e)
  <2>1. id \in Saw(e)
    BY <1>4 DEF Keeps, Grows
  <2>2. Waits(waiting, e) /\ Waits([waiting EXCEPT !.diff = @ \cup {id}], e)
    BY <1>3, <1>4, <2>1, WaitingKeeps
  <2>3. QED  BY <1>4, <2>2 DEF MayCompare
<1>5. {"write", "rewrite", "record_fetched", "record_scanned", "scan", "clear", "rename"} \subseteq Places
  BY DEF Places
<1>6. CASE Index(w)
  <2>1. /\ task[w].at = "index" /\ data.files[id].capture # NoCapture
        /\ data' = WithCapture(id, "observed") /\ Rests(w) /\ MayCompare(id)
        /\ UNCHANGED removed
    BY <1>1, <1>6 DEF Index, Stands
  <2>2. id \in CapturesOf(data, removed)
    BY <1>2, <2>1 DEF CapturesOf
  <2>3. Keeps(data, removed, data', removed')
    BY <1>2, <1>3, <2>1, <2>2, RecordingKeeps
  <2>4. QED  BY <1>2, <1>4, <2>1, <2>3, RestingKeeps
<1>7. CASE BeginCapture(w)
  <2>1. /\ \/ task[w].at = "fetch" /\ Goes(w, "write")
           \/ task[w].at = "scan" /\ Goes(w, "rewrite")
        /\ data' = Opened("capture", id) /\ UNCHANGED <<waiting, removed>>
    BY <1>1, <1>7 DEF BeginCapture, Stands
  <2>2. Keeps(data, removed, data', removed') /\ id \in CapturesOf(data', removed')
    BY <1>2, <1>3, <2>1, WritingKeeps
  <2>3. CASE task[w].at = "fetch" /\ Goes(w, "write")
    BY <1>1, <1>5, <2>1, <2>2, <2>3, GoingKeeps
  <2>4. CASE task[w].at = "scan" /\ Goes(w, "rewrite")
    BY <1>1, <1>5, <2>1, <2>2, <2>4, GoingKeeps
  <2>5. QED  BY <2>1, <2>3, <2>4
<1>8. CASE EndCapture(w)
  <2>1. /\ \/ task[w].at = "write" /\ Goes(w, "record_fetched")
           \/ task[w].at = "rewrite" /\ Goes(w, "record_scanned")
        /\ data' = Closed(w, "capture", id) /\ UNCHANGED <<waiting, removed>>
    BY <1>1, <1>8 DEF EndCapture, Stands
  <2>2. Keeps(data, removed, data', removed')
    BY <1>2, <1>3, <2>1, WritingKeeps
  <2>3. id \in CapturesOf(data', removed')
    BY <1>1, <1>3, <2>1, <2>2 DEF TaskIn, Keeps, Grows
  <2>4. CASE task[w].at = "write" /\ Goes(w, "record_fetched")
    BY <1>1, <1>5, <2>1, <2>2, <2>3, <2>4, GoingKeeps
  <2>5. CASE task[w].at = "rewrite" /\ Goes(w, "record_scanned")
    BY <1>1, <1>5, <2>1, <2>2, <2>3, <2>5, GoingKeeps
  <2>6. QED  BY <2>1, <2>4, <2>5
<1>9. CASE RecordFetched(w)
  <2>1. /\ task[w].at = "record_fetched" /\ Goes(w, "scan")
        /\ data' = WithCapture(id, "observed") /\ UNCHANGED <<waiting, removed>>
    BY <1>1, <1>9 DEF RecordFetched, Stands
  <2>2. id \in CapturesOf(data, removed)
    BY <1>1, <1>3, <2>1 DEF TaskIn
  <2>3. Keeps(data, removed, data', removed')
    BY <1>2, <1>3, <2>1, <2>2, RecordingKeeps
  <2>4. QED  BY <1>5, <2>1, <2>3, GoingKeeps
<1>10. CASE RecordScanned(w)
  <2>1. /\ task[w].at = "record_scanned" /\ Rests(w) /\ MayCompare(id)
        /\ data' = WithCapture(id, "observed") /\ UNCHANGED removed
    BY <1>1, <1>10 DEF RecordScanned, Stands
  <2>2. id \in CapturesOf(data, removed)
    BY <1>1, <1>3, <2>1 DEF TaskIn
  <2>3. Keeps(data, removed, data', removed')
    BY <1>2, <1>3, <2>1, <2>2, RecordingKeeps
  <2>4. QED  BY <1>2, <1>4, <2>1, <2>3, RestingKeeps
<1>11. CASE Discard(w)
  <2>1. /\ Rests(w) /\ UNCHANGED <<waiting, removed>>
        /\ data' = CaptureSet(id, "skipped", "post_analysis")
    BY <1>1, <1>11 DEF Discard
  <2>2. Keeps(data, removed, data', removed')
    BY <1>3, <2>1, SettingKeeps DEF Reasons
  <2>3. QED  BY <1>3, <2>1, <2>2, WaitingKeeps, RestingKeeps
<1>12. CASE Retain(w)
  <2>1. task[w].at = "stage" /\ Goes(w, "clear") /\ UNCHANGED <<data, waiting, removed>>
    BY <1>12 DEF Retain, Stands
  <2>2. QED  BY <1>3, <1>5, <2>1, GoingKeeps
<1>13. CASE Clear(w)
  <2>1. task[w].at = "clear" /\ UNCHANGED waiting
    BY <1>13 DEF Clear, Stands
  <2>2. id \in Releases
    BY <1>2, <2>1
  <2>3. CASE Goes(w, "rename") /\ UNCHANGED <<data, removed>>
    BY <1>3, <1>5, <2>1, <2>3, GoingKeeps
  <2>4. ASSUME NEW file \in FilesOf, removed' = removed \cup {id}, UNCHANGED task,
               data' = [data EXCEPT !.files[id] = file]
        PROVE  DirectoryInv'
    <3>1. Keeps(data, removed, data', removed')
      BY <1>3, <2>2, <2>4, FilesKeep
    <3>2. Waits(waiting', data') /\ removed' \in SUBSET Releases /\ TaskIn(NoTask, data', removed')
      BY <1>3, <2>1, <2>2, <2>4, <3>1, WaitingKeeps, NoTaskIsIn
    <3>3. QED  BY <2>4, <3>1, <3>2, StepKeeps
  <2>5. data.files[id] \in FilesOf /\ data.files \in [Releases -> FilesOf]
    BY <1>3, <2>2 DEF DataType
  <2>6. CASE /\ data' = [data EXCEPT !.files[id].capture = NoCapture,
                                     !.files[id].half = @ \ {"capture"}]
             /\ removed' = removed \cup {id} /\ UNCHANGED task
    <3>1. PICK file : file = [data.files[id] EXCEPT !.capture = NoCapture, !.half = @ \ {"capture"}]
      OBVIOUS
    <3>2. file \in FilesOf
      BY <2>5, <3>1 DEF FilesOf
    <3>3. data' = [data EXCEPT !.files[id] = file]
      BY <1>3, <2>2, <2>5, <2>6, <3>1 DEF DataType
    <3>4. QED  BY <2>4, <2>6, <3>2, <3>3
  <2>7. CASE /\ data' = [data EXCEPT !.files[id].diff = FALSE,
                                     !.files[id].half = @ \ {"diff"}]
             /\ removed' = removed \cup {id} /\ UNCHANGED task
    <3>1. PICK file : file = [data.files[id] EXCEPT !.diff = FALSE, !.half = @ \ {"diff"}]
      OBVIOUS
    <3>2. file \in FilesOf
      BY <2>5, <3>1 DEF FilesOf
    <3>3. data' = [data EXCEPT !.files[id] = file]
      BY <1>3, <2>2, <2>5, <2>7, <3>1 DEF DataType
    <3>4. QED  BY <2>4, <2>7, <3>2, <3>3
  <2>8. QED  BY <1>1, <1>13, <2>3, <2>6, <2>7 DEF Clear
<1>14. CASE Rename(w)
  <2>1. /\ task[w].at = "rename" /\ Goes(w, "record_scanned") /\ UNCHANGED <<waiting, removed>>
        /\ data' = [data EXCEPT !.files[id].capture = CaptureOf[id]]
    BY <1>1, <1>14 DEF Rename, Stands
  <2>2. id \in Releases
    BY <1>2, <2>1
  <2>3. data.files[id] \in FilesOf /\ data.files \in [Releases -> FilesOf]
    BY <1>3, <2>2 DEF DataType
  <2>4. PICK file : file = [data.files[id] EXCEPT !.capture = CaptureOf[id]]
    OBVIOUS
  <2>5. file \in FilesOf /\ file.capture # NoCapture /\ file.diff = data.files[id].diff
    BY <2>2, <2>3, <2>4 DEF FilesOf, DataAssumption
  <2>6. data' = [data EXCEPT !.files[id] = file]
    BY <1>3, <2>1, <2>2, <2>3, <2>4 DEF DataType
  <2>7. Keeps(data, removed, data', removed') /\ id \in CapturesOf(data', removed')
    <3>1. PICK e : e = [data EXCEPT !.files[id] = file]
      OBVIOUS
    <3>2. Keeps(data, removed, e, removed) /\ id \in CapturesOf(e, removed)
      BY <1>3, <2>2, <2>5, <3>1, FilesKeep
    <3>3. QED  BY <2>1, <2>6, <3>1, <3>2
  <2>8. QED  BY <1>1, <1>5, <2>1, <2>7, GoingKeeps
<1>15. CASE FailCapture(w)
  <2>1. /\ Rests(w) /\ UNCHANGED <<waiting, removed>>
        /\ data' = CaptureSet(id, "failed", "error")
    BY <1>1, <1>15 DEF FailCapture
  <2>2. Keeps(data, removed, data', removed')
    BY <1>3, <2>1, SettingKeeps DEF Reasons
  <2>3. QED  BY <1>3, <2>1, <2>2, WaitingKeeps, RestingKeeps
<1>16. QED  BY <1>6, <1>7, <1>8, <1>9, <1>10, <1>11, <1>12, <1>13, <1>14, <1>15

LEMMA ComparingKeeps ==
    ASSUME DataAssumption, DirectoryInv, NEW w \in Workers
    PROVE  /\ Build(w) => DirectoryInv'
           /\ BuildAgain(w) => DirectoryInv'
           /\ BeginAmend(w) => DirectoryInv'
           /\ EndAmend(w) => DirectoryInv'
           /\ RecordAmended(w) => DirectoryInv'
           /\ BeginDiff(w) => DirectoryInv'
           /\ EndDiff(w) => DirectoryInv'
           /\ RecordDiffOf(w) => DirectoryInv'
           /\ FailDiff(w) => DirectoryInv'
<1> DEFINE Said == {"build", "build_again", "built", "amend", "record_amended", "amended",
                    "compose", "record_diff"}
<1>1. PICK id : id = task[w].id
  OBVIOUS
<1>2. task[w].at \in Said => id \in Releases /\ id \in Saw(data)
  BY <1>1, AtWork
<1>3. /\ DataType(data) /\ RowsIn(data.records, data, removed) /\ Waits(waiting, data)
      /\ TaskIn(task[w], data, removed) /\ removed \in SUBSET Releases
      /\ Keeps(data, removed, data, removed)
  BY Standing
<1>4. {"built", "open", "amend", "record_amended", "amended", "compose", "record_diff"} \subseteq Places
  BY DEF Places
<1>5. CASE Build(w)
  <2>1. /\ task[w].at = "build" /\ UNCHANGED <<data, waiting, removed>>
        /\ \/ Goes(w, "built")
           \/ \E entry \in Releases : task' = [task EXCEPT ![w].at = "open", ![w].entry = entry]
    BY <1>5 DEF Build, Stands
  <2>2. CASE Goes(w, "built")
    BY <1>3, <1>4, <2>1, <2>2, GoingKeeps
  <2>3. ASSUME NEW entry \in Releases, task' = [task EXCEPT ![w].at = "open", ![w].entry = entry]
        PROVE  DirectoryInv'
    <3>1. PICK t : t = [task[w] EXCEPT !.at = "open", !.entry = entry]
      OBVIOUS
    <3>2. task' = [task EXCEPT ![w] = t]
      BY <2>3, <3>1
    <3>3. /\ t.at = "open" /\ t.id = id /\ t.entry = entry
          /\ t \in [at : Places, id : Releases \cup {0}, entry : Releases \cup {0}]
      BY <1>1, <1>3, <1>4, <3>1 DEF TaskIn
    <3>4. TaskIn(t, data, removed)
      BY <1>2, <2>1, <3>3 DEF TaskIn
    <3>5. /\ Keeps(data, removed, data', removed') /\ removed' \in SUBSET Releases
          /\ Waits(waiting', data') /\ TaskIn(t, data', removed')
      BY <1>3, <2>1, <3>4
    <3>6. QED  BY <3>2, <3>5, StepKeeps
  <2>4. QED  BY <2>1, <2>2, <2>3
<1>6. CASE BuildAgain(w)
  <2>1. task[w].at = "build_again" /\ Goes(w, "built") /\ UNCHANGED <<data, waiting, removed>>
    BY <1>6 DEF BuildAgain, Stands
  <2>2. QED  BY <1>3, <1>4, <2>1, GoingKeeps
<1>7. CASE BeginAmend(w)
  <2>1. /\ task[w].at = "built" /\ Goes(w, "amend") /\ UNCHANGED <<waiting, removed>>
        /\ data' = Opened("capture", id)
    BY <1>1, <1>7 DEF BeginAmend, Stands
  <2>2. Keeps(data, removed, data', removed') /\ id \in CapturesOf(data', removed')
    BY <1>2, <1>3, <2>1, WritingKeeps
  <2>3. QED  BY <1>1, <1>4, <2>1, <2>2, GoingKeeps
<1>8. CASE EndAmend(w)
  <2>1. /\ task[w].at = "amend" /\ Goes(w, "record_amended") /\ UNCHANGED <<waiting, removed>>
        /\ data' = Closed(w, "capture", id)
    BY <1>1, <1>8 DEF EndAmend, Stands
  <2>2. Keeps(data, removed, data', removed')
    BY <1>2, <1>3, <2>1, WritingKeeps
  <2>3. id \in CapturesOf(data', removed')
    BY <1>1, <1>3, <2>1, <2>2 DEF TaskIn, Keeps, Grows
  <2>4. QED  BY <1>1, <1>4, <2>1, <2>2, <2>3, GoingKeeps
<1>9. CASE RecordAmended(w)
  <2>1. /\ task[w].at = "record_amended" /\ Goes(w, "amended") /\ UNCHANGED <<waiting, removed>>
        /\ data' = WithCapture(id, "observed")
    BY <1>1, <1>9 DEF RecordAmended, Stands
  <2>2. id \in CapturesOf(data, removed)
    BY <1>1, <1>3, <2>1 DEF TaskIn
  <2>3. Keeps(data, removed, data', removed')
    BY <1>2, <1>3, <2>1, <2>2, RecordingKeeps
  <2>4. QED  BY <1>4, <2>1, <2>3, GoingKeeps
<1>10. CASE BeginDiff(w)
  <2>1. /\ task[w].at \in {"built", "amended"} /\ Goes(w, "compose")
        /\ UNCHANGED <<waiting, removed>> /\ data' = Opened("diff", id)
    BY <1>1, <1>10 DEF BeginDiff, Stands
  <2>2. Keeps(data, removed, data', removed') /\ id \in DiffsOf(data', removed')
    BY <1>2, <1>3, <2>1, WritingKeeps
  <2>3. QED  BY <1>1, <1>4, <2>1, <2>2, GoingKeeps
<1>11. CASE EndDiff(w)
  <2>1. /\ task[w].at = "compose" /\ Goes(w, "record_diff") /\ UNCHANGED <<waiting, removed>>
        /\ data' = Closed(w, "diff", id)
    BY <1>1, <1>11 DEF EndDiff, Stands
  <2>2. Keeps(data, removed, data', removed')
    BY <1>2, <1>3, <2>1, WritingKeeps
  <2>3. id \in DiffsOf(data', removed')
    BY <1>1, <1>3, <2>1, <2>2 DEF TaskIn, Keeps, Grows
  <2>4. QED  BY <1>1, <1>4, <2>1, <2>2, <2>3, GoingKeeps
<1>12. CASE RecordDiffOf(w)
  <2>1. /\ task[w].at = "record_diff" /\ Rests(w) /\ UNCHANGED <<waiting, removed>>
        /\ data' = WithDiff(id)
    BY <1>1, <1>12 DEF RecordDiffOf, Stands
  <2>2. id \in DiffsOf(data, removed)
    BY <1>1, <1>3, <2>1 DEF TaskIn
  <2>3. Keeps(data, removed, data', removed')
    BY <1>2, <1>3, <2>1, <2>2, RecordingKeeps
  <2>4. QED  BY <1>3, <2>1, <2>3, WaitingKeeps, RestingKeeps
<1>13. CASE FailDiff(w)
  <2>1. Rests(w) /\ UNCHANGED <<waiting, removed>> /\ data' = DiffFailed(id)
    BY <1>1, <1>13 DEF FailDiff
  <2>2. Keeps(data, removed, data', removed')
    BY <1>3, <2>1, SettingKeeps DEF Reasons
  <2>3. QED  BY <1>3, <2>1, <2>2, WaitingKeeps, RestingKeeps
<1>14. QED  BY <1>5, <1>6, <1>7, <1>8, <1>9, <1>10, <1>11, <1>12, <1>13

LEMMA BackfillingKeeps ==
    ASSUME DataAssumption, DirectoryInv, NEW w \in Workers
    PROVE  /\ OpenEntry(w) => DirectoryInv'
           /\ LogEntry(w) => DirectoryInv'
           /\ EnterEntry(w) => DirectoryInv'
           /\ FillEntry(w) => DirectoryInv'
           /\ FilledEntry(w) => DirectoryInv'
           /\ SettleEntry(w) => DirectoryInv'
           /\ GiveUpEntry(w) => DirectoryInv'
<1> DEFINE Said == {"open", "append_entry", "record_entry", "look_entry", "fill", "record_filled"}
<1>1. PICK entry : entry = task[w].entry
  OBVIOUS
<1>2. /\ DataType(data) /\ RowsIn(data.records, data, removed) /\ Waits(waiting, data)
      /\ TaskIn(task[w], data, removed) /\ removed \in SUBSET Releases
      /\ Keeps(data, removed, data, removed)
  BY Standing
<1>3. /\ task[w].at \in Said => entry \in Releases
      /\ task[w].at \in {"record_entry", "look_entry", "fill", "record_filled"} =>
             entry \in Logs(data)
      /\ task[w].at \in {"fill", "record_filled"} => entry \in CapturesOf(data, removed)
  BY <1>1, <1>2 DEF TaskIn
<1>4. Said \cup {"built", "build_again"} \subseteq Places /\ "reconstructed" \in Origins
  BY DEF Places, Origins
<1>5. CASE OpenEntry(w)
  <2>1. /\ task[w].at = "open" /\ UNCHANGED <<data, waiting, removed>>
        /\ \/ Goes(w, "record_entry") /\ entry \in Logs(data)
           \/ Goes(w, "append_entry")
    BY <1>1, <1>5 DEF OpenEntry, Stands, Logs
  <2>2. CASE Goes(w, "record_entry") /\ entry \in Logs(data)
    BY <1>1, <1>2, <1>3, <1>4, <2>1, <2>2, GoingKeeps
  <2>3. CASE Goes(w, "append_entry")
    BY <1>1, <1>2, <1>3, <1>4, <2>1, <2>3, GoingKeeps
  <2>4. QED  BY <2>1, <2>2, <2>3
<1>6. CASE LogEntry(w)
  <2>1. /\ task[w].at = "append_entry" /\ Goes(w, "record_entry") /\ UNCHANGED <<waiting, removed>>
        /\ data' = AppendEntry(data, EventOf[entry])
    BY <1>1, <1>6 DEF LogEntry, Stands
  <2>2. Keeps(data, removed, data', removed') /\ entry \in Logs(data')
    BY <1>2, <1>3, <2>1, EntryLineKeeps
  <2>3. QED  BY <1>1, <1>3, <1>4, <2>1, <2>2, GoingKeeps
<1>7. CASE EnterEntry(w)
  <2>1. /\ task[w].at = "record_entry" /\ Goes(w, "look_entry") /\ UNCHANGED <<waiting, removed>>
        /\ data' = UpsertEntry(data, EventOf[entry])
    BY <1>1, <1>7 DEF EnterEntry, Stands
  <2>2. PICK records : records = UpsertRecord(data.records, EventOf[entry], "reconstructed")
    OBVIOUS
  <2>3. RowsIn(records, data, removed)
    BY <1>2, <1>3, <1>4, <2>1, <2>2, UpsertKeepsIn
  <2>4. data' = [data EXCEPT !.records = records]
    BY <2>1, <2>2 DEF UpsertEntry
  <2>5. Keeps(data, removed, data', removed')
    BY <1>2, <2>1, <2>3, <2>4, RecordsKeep
  <2>6. entry \in Logs(data')
    BY <1>3, <2>1, <2>5 DEF Keeps, Grows
  <2>7. QED  BY <1>1, <1>3, <1>4, <2>1, <2>5, <2>6, GoingKeeps
<1>8. CASE FillEntry(w)
  <2>1. /\ task[w].at = "look_entry" /\ UNCHANGED <<waiting, removed>>
        /\ \/ data' = Opened("capture", entry) /\ Goes(w, "fill")
           \/ /\ data.files[entry].capture # NoCapture /\ UNCHANGED data
              /\ Goes(w, "record_filled")
    BY <1>1, <1>8 DEF FillEntry, Stands
  <2>2. CASE data' = Opened("capture", entry) /\ Goes(w, "fill")
    <3>1. Keeps(data, removed, data', removed') /\ entry \in CapturesOf(data', removed')
      BY <1>2, <1>3, <2>1, <2>2, WritingKeeps
    <3>2. entry \in Logs(data')
      BY <1>3, <2>1, <3>1 DEF Keeps, Grows
    <3>3. QED  BY <1>1, <1>3, <1>4, <2>1, <2>2, <3>1, <3>2, GoingKeeps
  <2>3. CASE /\ data.files[entry].capture # NoCapture /\ UNCHANGED data
             /\ Goes(w, "record_filled")
    <3>1. entry \in CapturesOf(data', removed')
      BY <1>3, <2>1, <2>3 DEF CapturesOf
    <3>2. Keeps(data, removed, data', removed') /\ entry \in Logs(data')
      BY <1>2, <1>3, <2>1, <2>3
    <3>3. QED  BY <1>1, <1>3, <1>4, <2>1, <2>3, <3>1, <3>2, GoingKeeps
  <2>4. QED  BY <2>1, <2>2, <2>3
<1>9. CASE FilledEntry(w)
  <2>1. /\ task[w].at = "fill" /\ Goes(w, "record_filled") /\ UNCHANGED <<waiting, removed>>
        /\ data' = Closed(w, "capture", entry)
    BY <1>1, <1>9 DEF FilledEntry, Stands
  <2>2. Keeps(data, removed, data', removed')
    BY <1>2, <1>3, <2>1, WritingKeeps
  <2>3. entry \in CapturesOf(data', removed') /\ entry \in Logs(data')
    BY <1>3, <2>1, <2>2 DEF Keeps, Grows
  <2>4. QED  BY <1>1, <1>3, <1>4, <2>1, <2>2, <2>3, GoingKeeps
<1>10. CASE SettleEntry(w)
  <2>1. /\ task[w].at = "record_filled" /\ Goes(w, "build_again") /\ UNCHANGED <<waiting, removed>>
        /\ data' = RecordEntry(data, EventOf[entry], CaptureOf[entry])
    BY <1>1, <1>10 DEF SettleEntry, Stands
  <2>2. PICK upserted : upserted = UpsertRecord(data.records, EventOf[entry], "reconstructed")
    OBVIOUS
  <2>3. RowsIn(upserted, data, removed)
    BY <1>2, <1>3, <1>4, <2>1, <2>2, UpsertKeepsIn
  <2>4. PICK records : records = CaptureRecord(upserted, entry, CaptureOf[entry])
    OBVIOUS
  <2>5. RowsIn(records, data, removed)
    BY <1>3, <2>1, <2>3, <2>4, CaptureKeepsIn
  <2>6. data' = [data EXCEPT !.records = records]
    BY <1>3, <2>1, <2>2, <2>4 DEF RecordEntry, DataAssumption
  <2>7. Keeps(data, removed, data', removed')
    BY <1>2, <2>1, <2>5, <2>6, RecordsKeep
  <2>8. QED  BY <1>4, <2>1, <2>7, GoingKeeps
<1>11. CASE GiveUpEntry(w)
  <2>1. /\ task[w].at \in Said /\ Goes(w, "built") /\ UNCHANGED <<waiting, removed>>
        /\ \/ UNCHANGED data
           \/ data' = [data EXCEPT !.ledgers.torn = @ \cup {"reconstructed"}]
    BY <1>11 DEF GiveUpEntry, HoldsReconstruction
  <2>2. {"reconstructed"} \in SUBSET LedgerNames
    BY DEF LedgerNames
  <2>3. Keeps(data, removed, data', removed')
    BY <1>2, <2>1, <2>2, TearingKeeps
  <2>4. QED  BY <1>4, <2>1, <2>3, GoingKeeps
<1>12. QED  BY <1>5, <1>6, <1>7, <1>8, <1>9, <1>10, <1>11

LEMMA EndingKeeps ==
    ASSUME DataAssumption, DirectoryInv
    PROVE  /\ End => DirectoryInv'
           /\ LoseTable => DirectoryInv'
           /\ Start => DirectoryInv'
           /\ \A id \in Releases, step \in RebuildSteps : StartKilled(id, step) => DirectoryInv'
<1>1. /\ DataType(data) /\ RowsIn(data.records, data, removed) /\ Waits(waiting, data)
      /\ removed \in SUBSET Releases /\ Keeps(data, removed, data, removed)
      /\ "intake" \in Workers
  BY Standing DEF Workers
\* Of these steps only the end of the process takes what the workers were doing.
<1>2. ASSUME Keeps(data, removed, data', removed), UNCHANGED <<task, waiting, removed>>
      PROVE  DirectoryInv'
  <2>1. Waits(waiting', data') /\ TaskIn(NoTask, data', removed')
    BY <1>1, <1>2, WaitingKeeps, NoTaskIsIn
  <2>2. QED  BY <1>1, <1>2, <2>1, StepKeeps
<1>3. CASE End
  <2>1. PICK torn \in SUBSET Appending : data' = [data EXCEPT !.ledgers.torn = @ \cup torn]
    BY <1>3 DEF End
  <2>2. torn \in SUBSET LedgerNames
    BY DEF Appending, LedgerNames
  <2>3. Keeps(data, removed, data', removed')
    BY <1>1, <1>3, <2>1, <2>2, TearingKeeps DEF End
  <2>4. Waits(NothingWaits, data')
    BY DEF Waits, NothingWaits
  <2>5. \A w \in Workers : task'[w] = NoTask
    BY <1>3 DEF End
  <2>6. DOMAIN task' = Workers /\ waiting' = NothingWaits /\ removed' = removed
    BY <1>3 DEF End
  <2>7. \A w \in Workers : TaskIn(task'[w], data', removed')
    BY <2>5, NoTaskIsIn
  <2>8. QED  BY <1>1, <2>3, <2>4, <2>6, <2>7 DEF DirectoryInv, Keeps, Waits
<1>4. ASSUME NEW records, RowsIn(records, data, removed), UNCHANGED <<task, waiting, removed>>,
             data' = [data EXCEPT !.records = records]
      PROVE  DirectoryInv'
  BY <1>1, <1>2, <1>4, RecordsKeep
<1>5. CASE LoseTable
  <2>1. RowsIn({}, data, removed)
    BY DEF RowsIn
  <2>2. QED  BY <1>4, <1>5, <2>1 DEF LoseTable
<1>6. CASE Start
  <2>1. PICK records : records = ReconcileIfEmpty(data.records, data.ledgers, data.files)
    OBVIOUS
  <2>2. RowsIn(records, data, removed)
    <3>1. RowsIn(Reconcile({}, data.ledgers, data.files), data, removed)
      BY <1>1, RebuiltIsIn DEF Reconcile
    <3>2. records = data.records \/ records = Reconcile({}, data.ledgers, data.files)
      BY <2>1 DEF ReconcileIfEmpty
    <3>3. QED  BY <1>1, <3>1, <3>2
  <2>3. data' = [data EXCEPT !.records = records] /\ UNCHANGED <<task, waiting, removed>>
    BY <1>6, <2>1 DEF Start, LocalStore
  <2>4. QED  BY <1>4, <2>2, <2>3
<1>7. ASSUME NEW id \in Releases, NEW step \in RebuildSteps, StartKilled(id, step)
      PROVE  DirectoryInv'
  <2>1. PICK stops : stops = Unreadable(data.files) \cup {<<id, step>>}
    OBVIOUS
  <2>2. PICK records : records = ReconcileUntil({}, data.ledgers, data.files, stops)
    OBVIOUS
  <2>3. RowsIn(records, data, removed)
    BY <1>1, <2>2, RebuiltIsIn
  <2>4. data' = [data EXCEPT !.records = records] /\ UNCHANGED <<task, waiting, removed>>
    BY <1>7, <2>1, <2>2 DEF StartKilled
  <2>5. QED  BY <1>4, <2>3, <2>4
<1>8. QED  BY <1>3, <1>5, <1>6, <1>7

LEMMA DirectoryInit == ASSUME DataAssumption, DataInit PROVE DirectoryInv
<1>1. data.records = {} /\ DOMAIN data = {"records", "ledgers", "files"}
  BY DEF DataInit
<1>2. data.ledgers \in LedgersOf(Events)
  <2>1. Legacy \in Seq(Events) /\ <<>> \in Seq(Events) /\ {} \in SUBSET LedgerNames
    BY DEF DataAssumption, Events
  <2>2. QED  BY <2>1 DEF DataInit, LedgersOf
<1>3. data.files \in [Releases -> FilesOf]
  BY DEF DataInit, FilesOf
<1>4. RowsIn(data.records, data, removed)
  BY <1>1 DEF RowsIn
<1>5. removed = {} /\ waiting \in [capture : SUBSET Saw(data), diff : SUBSET Saw(data)]
  BY DEF DataInit, NothingWaits
<1>6. DOMAIN task = Workers /\ \A w \in Workers : TaskIn(task[w], data, removed)
  BY NoTaskIsIn DEF DataInit
<1>7. QED  BY <1>1, <1>2, <1>3, <1>4, <1>5, <1>6 DEF DirectoryInv, DataType

LEMMA DirectoryNext == ASSUME DataAssumption, DirectoryInv, [DataNext]_dataVars PROVE DirectoryInv'
<1>1. \A w \in Captors \cup Differs : w \in Workers
  BY DEF Workers
<1>2. CASE \E id \in Releases : Observe(id) \/ Dropped(id)
  BY <1>2, ObservingKeeps
<1>3. CASE Logged \/ Recorded
  BY <1>3, ObservingKeeps
<1>4. ASSUME NEW w \in Captors,
             \/ \E id \in Releases : TakeCapture(w, id)
             \/ Index(w) \/ BeginCapture(w) \/ EndCapture(w) \/ RecordFetched(w)
             \/ RecordScanned(w) \/ Discard(w) \/ Retain(w) \/ Clear(w) \/ Rename(w)
             \/ FailCapture(w)
      PROVE  DirectoryInv'
  BY <1>1, <1>4, TakingKeeps, CapturingKeeps
<1>5. ASSUME NEW w \in Differs,
             \/ \E id \in Releases : TakeDiff(w, id)
             \/ Build(w) \/ OpenEntry(w) \/ LogEntry(w) \/ EnterEntry(w) \/ FillEntry(w)
             \/ FilledEntry(w) \/ SettleEntry(w) \/ GiveUpEntry(w) \/ BuildAgain(w)
             \/ BeginAmend(w) \/ EndAmend(w) \/ RecordAmended(w)
             \/ BeginDiff(w) \/ EndDiff(w) \/ RecordDiffOf(w) \/ FailDiff(w)
      PROVE  DirectoryInv'
  BY <1>1, <1>5, TakingKeeps, ComparingKeeps, BackfillingKeeps
<1>6. CASE End \/ LoseTable \/ Start
  BY <1>6, EndingKeeps
<1>7. CASE \E id \in Releases, step \in RebuildSteps : StartKilled(id, step)
  BY <1>7, EndingKeeps
<1>8. CASE UNCHANGED dataVars
  BY <1>8 DEF dataVars, DirectoryInv
<1>9. QED  BY <1>2, <1>3, <1>4, <1>5, <1>6, <1>7, <1>8 DEF DataNext

\* A table that is lost is rebuilt with everything of the releases the rebuild comes
\* to, whatever was written, and wherever the process ended or a write was cut off
\* (store.rs, reconcile_local_data).
THEOREM RebuildingKeepsReady ==
    ASSUME DataAssumption
    PROVE  DataSpec => []RebuildKeepsReady
<1>1. DataInit => DirectoryInv
  BY DirectoryInit
<1>2. DirectoryInv /\ [DataNext]_dataVars => DirectoryInv'
  BY DirectoryNext
<1>3. DirectoryInv => RebuildKeepsReady
  BY RebuildIsReady
<1>4. QED  BY <1>1, <1>2, <1>3, PTL DEF DataSpec

-----------------------------------------------------------------------------
(* The graph of the store and that of the file.                            *)

\* The records an ecosystem's file may have, with what counts cannot be left out.
GraphRows ==
    [kind : {"package"}, package : Names, popularity : Nat] \cup
    [kind : {"dependency"}, package : Names, dependency : Names, weight : Nat]

\* The edges of a set of records, and what they say of a package's popularity.
EdgesIn(rows) == {<<r.package, r.dependency>> : r \in {x \in rows : x.kind = "dependency"}}
PopularIn(rows, p) == {r.popularity : r \in {x \in rows : x.kind = "package" /\ x.package = p}}

\* The greatest of a set of numbers, or zero.
IsGreatestOf(n, numbers) ==
    IF numbers = {} THEN n = 0 ELSE n \in numbers /\ \A m \in numbers : n >= m

\* A graph that has what a set of records says.
IsGraphOf(graph, rows) ==
    /\ DOMAIN graph.popularity = TouchedPackages(rows) /\ DOMAIN graph.weight = EdgesIn(rows)
    /\ graph = [popularity |-> graph.popularity, weight |-> graph.weight]
    /\ \A p \in TouchedPackages(rows) :
           graph.popularity[p] \in Nat /\ IsGreatestOf(graph.popularity[p], PopularIn(rows, p))

\* A row is of the one kind or of the other.
LEMMA RowIs ==
    ASSUME NEW r \in GraphRows
    PROVE  \/ r.kind = "package" /\ r.package \in Names /\ r.popularity \in Nat
           \/ r.kind = "dependency" /\ r.package \in Names /\ r.dependency \in Names
BY DEF GraphRows

\* One record more is one record more of each of these.
LEMMA OneRowMore ==
    ASSUME NEW rows \in SUBSET GraphRows, NEW r \in GraphRows
    PROVE  /\ r.kind = "package" =>
                  /\ TouchedPackages(rows \cup {r}) = TouchedPackages(rows) \cup {r.package}
                  /\ EdgesIn(rows \cup {r}) = EdgesIn(rows)
                  /\ PopularIn(rows \cup {r}, r.package) = PopularIn(rows, r.package) \cup {r.popularity}
                  /\ \A p : p # r.package => PopularIn(rows \cup {r}, p) = PopularIn(rows, p)
           /\ r.kind = "dependency" =>
                  /\ TouchedPackages(rows \cup {r}) = TouchedPackages(rows) \cup {r.package, r.dependency}
                  /\ EdgesIn(rows \cup {r}) = EdgesIn(rows) \cup {<<r.package, r.dependency>>}
                  /\ \A p : PopularIn(rows \cup {r}, p) = PopularIn(rows, p)
<1> DEFINE touched(x) == IF x.kind = "package" THEN {x.package} ELSE {x.package, x.dependency}
           more == rows \cup {r}
<1>1. TouchedPackages(more) = TouchedPackages(rows) \cup touched(r)
  <2>1. TouchedPackages(more) = UNION {touched(x) : x \in more} /\ TouchedPackages(rows) = UNION {touched(x) : x \in rows}
    BY DEF TouchedPackages
  <2> HIDE DEF touched
  <2>2. QED  BY <2>1
<1>2. CASE r.kind = "package"
  <2>1. EdgesIn(more) = EdgesIn(rows)
    BY <1>2 DEF EdgesIn
  <2>2. PopularIn(more, r.package) = PopularIn(rows, r.package) \cup {r.popularity}
    BY <1>2 DEF PopularIn
  <2>3. \A p : p # r.package => PopularIn(more, p) = PopularIn(rows, p)
    BY <1>2 DEF PopularIn
  <2>4. QED  BY <1>1, <1>2, <2>1, <2>2, <2>3
<1>3. CASE r.kind = "dependency"
  <2>1. EdgesIn(more) = EdgesIn(rows) \cup {<<r.package, r.dependency>>}
    BY <1>3 DEF EdgesIn
  <2>2. \A p : PopularIn(more, p) = PopularIn(rows, p)
    BY <1>3 DEF PopularIn
  <2>3. QED  BY <1>1, <1>3, <2>1, <2>2
<1>4. QED  BY <1>2, <1>3, RowIs

\* Popularities that are recorded are numbers.
LEMMA PopularAreNat ==
    ASSUME NEW rows \in SUBSET GraphRows, NEW p
    PROVE  /\ PopularIn(rows, p) \subseteq Nat
           /\ PopularIn(rows, p) # {} => p \in TouchedPackages(rows)
<1>1. ASSUME NEW r \in rows, r.kind = "package", r.package = p
      PROVE  r.popularity \in Nat /\ p \in TouchedPackages(rows)
  BY <1>1, RowIs DEF TouchedPackages
<1>2. QED  BY <1>1 DEF PopularIn

\* The greatest of a set with one number more.
LEMMA GreatestOfMore ==
    ASSUME NEW numbers \in SUBSET Nat, NEW old \in Nat, NEW n \in Nat, IsGreatestOf(old, numbers)
    PROVE  /\ (IF old >= n THEN old ELSE n) \in Nat
           /\ IsGreatestOf(IF old >= n THEN old ELSE n, numbers \cup {n})
<1>1. CASE numbers = {}
  <2>1. old = 0
    BY <1>1 DEF IsGreatestOf
  <2>2. CASE n = 0
    BY <1>1, <2>1, <2>2 DEF IsGreatestOf
  <2>3. CASE n # 0
    BY <1>1, <2>1, <2>3 DEF IsGreatestOf
  <2>4. QED  BY <2>2, <2>3
<1>2. CASE numbers # {}
  <2>1. old \in numbers /\ \A m \in numbers : m \in Nat /\ old >= m
    BY <1>2 DEF IsGreatestOf
  <2>2. CASE old >= n
    BY <2>1, <2>2 DEF IsGreatestOf
  <2>3. CASE ~(old >= n)
    <3>1. \A m \in numbers \cup {n} : n >= m
      BY <2>1, <2>3
    <3>2. QED  BY <2>3, <3>1 DEF IsGreatestOf
  <2>4. QED  BY <2>2, <2>3
<1>3. QED  BY <1>1, <1>2

\* A record of a package: the greater popularity is kept (upsert_graph_record).
LEMMA PackageUpserted ==
    ASSUME NEW rows \in SUBSET GraphRows, NEW graph, IsGraphOf(graph, rows),
           NEW r \in GraphRows, r.kind = "package"
    PROVE  IsGraphOf(UpsertGraphRecord(graph, r), rows \cup {r})
<1>1. r.package \in Names /\ r.popularity \in Nat
  BY RowIs
<1>2. PICK q, n : q = r.package /\ n = r.popularity /\ n \in Nat
  BY <1>1
<1>3. PICK popularity, weight : /\ graph = [popularity |-> popularity, weight |-> weight]
                                /\ popularity = graph.popularity /\ weight = graph.weight
  BY DEF IsGraphOf
<1>4. /\ DOMAIN popularity = TouchedPackages(rows) /\ DOMAIN weight = EdgesIn(rows)
      /\ \A p \in TouchedPackages(rows) :
             popularity[p] \in Nat /\ IsGreatestOf(popularity[p], PopularIn(rows, p))
  BY <1>3 DEF IsGraphOf
<1> DEFINE wider == [k \in DOMAIN popularity \cup {q} |-> IF k \in DOMAIN popularity THEN popularity[k] ELSE 0]
           raised == [wider EXCEPT ![q] = IF wider[q] >= n THEN wider[q] ELSE n]
<1>5. UpsertGraphRecord(graph, r) = [popularity |-> raised, weight |-> weight]
  <2>1. NonNegative(n) = n
    BY <1>2 DEF NonNegative, Larger
  <2>2. UpsertGraphRecord(graph, r) = AddPackage(graph, r, "strongest")
    BY DEF UpsertGraphRecord, AddRecord
  <2>3. WithKeys(popularity, {q}) = wider
    BY DEF WithKeys
  <2> HIDE DEF wider
  <2>4. \A a : Combined("strongest", a, n) = IF a >= n THEN a ELSE n
    BY DEF Combined, Larger
  <2>5. QED  BY <1>2, <1>3, <2>1, <2>2, <2>3, <2>4 DEF AddPackage
<1>6. PICK touched : touched = TouchedPackages(rows)
  OBVIOUS
<1>7. /\ TouchedPackages(rows \cup {r}) = touched \cup {q} /\ EdgesIn(rows \cup {r}) = DOMAIN weight
      /\ PopularIn(rows \cup {r}, q) = PopularIn(rows, q) \cup {n}
      /\ \A p : p # q => PopularIn(rows \cup {r}, p) = PopularIn(rows, p)
  BY ZenonT(60), <1>2, <1>4, <1>6, OneRowMore
<1>8. DOMAIN raised = touched \cup {q}
  BY <1>4, <1>6
<1>9. wider[q] \in Nat /\ raised[q] = IF wider[q] >= n THEN wider[q] ELSE n
  BY <1>4, <1>6
<1>10. ASSUME NEW p \in touched, p # q
       PROVE  raised[p] \in Nat /\ IsGreatestOf(raised[p], PopularIn(rows \cup {r}, p))
  <2>1. raised[p] = popularity[p]
    BY <1>4, <1>6, <1>10
  <2>2. QED  BY <1>4, <1>6, <1>7, <1>10, <2>1
<1>11. IsGreatestOf(wider[q], PopularIn(rows, q))
  <2>1. CASE q \in touched
    BY <1>4, <1>6, <2>1
  <2>2. CASE q \notin touched
    <3>1. PopularIn(rows, q) = {} /\ wider[q] = 0
      BY <1>4, <1>6, <2>2, PopularAreNat
    <3>2. QED  BY <3>1 DEF IsGreatestOf
  <2>3. QED  BY <2>1, <2>2
<1>12. raised[q] \in Nat /\ IsGreatestOf(raised[q], PopularIn(rows, q) \cup {n})
  <2>1. PICK numbers \in SUBSET Nat : numbers = PopularIn(rows, q)
    BY PopularAreNat
  <2>2. PICK old : old = wider[q] /\ old \in Nat
    BY <1>9
  <2>3. IsGreatestOf(old, numbers)
    BY <1>11, <2>1, <2>2
  <2>4. PICK new : new = IF old >= n THEN old ELSE n
    OBVIOUS
  <2>5. new \in Nat /\ IsGreatestOf(new, numbers \cup {n})
    BY <1>2, <2>2, <2>3, <2>4, GreatestOfMore
  <2>6. raised[q] = new
    BY <1>9, <2>2, <2>4
  <2>7. QED  BY <2>1, <2>5, <2>6
<1> HIDE DEF raised, wider
<1>13. PICK after : after = [popularity |-> raised, weight |-> weight]
  OBVIOUS
<1>14. after.popularity = raised /\ after.weight = weight
  BY <1>13
<1>15. \A p \in touched \cup {q} :
           raised[p] \in Nat /\ IsGreatestOf(raised[p], PopularIn(rows \cup {r}, p))
  BY <1>7, <1>10, <1>12
<1>16. IsGraphOf(after, rows \cup {r})
  BY <1>7, <1>8, <1>13, <1>14, <1>15 DEF IsGraphOf
<1>17. QED  BY <1>5, <1>13, <1>16

\* A record of an edge: its ends become known, no popularity changes.
LEMMA DependencyUpserted ==
    ASSUME NEW rows \in SUBSET GraphRows, NEW graph, IsGraphOf(graph, rows),
           NEW r \in GraphRows, r.kind = "dependency"
    PROVE  IsGraphOf(UpsertGraphRecord(graph, r), rows \cup {r})
<1>1. PICK ends, edge : ends = {r.package, r.dependency} /\ edge = <<r.package, r.dependency>>
  OBVIOUS
<1>2. PICK touched : touched = TouchedPackages(rows)
  OBVIOUS
<1>3. /\ TouchedPackages(rows \cup {r}) = touched \cup ends
      /\ EdgesIn(rows \cup {r}) = EdgesIn(rows) \cup {edge}
      /\ \A p : PopularIn(rows \cup {r}, p) = PopularIn(rows, p)
  BY <1>1, <1>2, OneRowMore
<1>4. PICK popularity, weight : popularity = graph.popularity /\ weight = graph.weight
  OBVIOUS
<1>5. /\ DOMAIN popularity = touched /\ DOMAIN weight = EdgesIn(rows)
      /\ \A p \in touched : popularity[p] \in Nat /\ IsGreatestOf(popularity[p], PopularIn(rows, p))
  BY <1>2, <1>4 DEF IsGraphOf
<1> DEFINE wider == WithKeys(popularity, ends)
           heavier(w) == [WithKeys(weight, {edge}) EXCEPT ![edge] = w]
<1>6. PICK w : UpsertGraphRecord(graph, r) = [popularity |-> wider, weight |-> heavier(w)]
  <2>1. UpsertGraphRecord(graph, r) = AddDependency(graph, r, "strongest")
    BY DEF UpsertGraphRecord, AddRecord
  <2>2. PICK w : w = Combined("strongest", WithKeys(weight, {edge})[edge], NonNegative(r.weight))
    OBVIOUS
  <2>3. AddDependency(graph, r, "strongest") = [popularity |-> wider, weight |-> heavier(w)]
    BY <1>1, <1>4, <2>2 DEF AddDependency
  <2> HIDE DEF wider, heavier
  <2>4. QED  BY <2>1, <2>3
<1>7. DOMAIN heavier(w) = EdgesIn(rows) \cup {edge}
  BY <1>5 DEF WithKeys
<1>8. DOMAIN wider = touched \cup ends
  BY <1>5 DEF WithKeys
<1>9. ASSUME NEW p \in touched \cup ends
      PROVE  wider[p] \in Nat /\ IsGreatestOf(wider[p], PopularIn(rows, p))
  <2>1. CASE p \in touched
    <3>1. wider[p] = popularity[p]
      BY <1>5, <2>1 DEF WithKeys
    <3>2. QED  BY <1>5, <2>1, <3>1
  <2>2. CASE p \notin touched
    <3>1. wider[p] = 0
      BY <1>5, <2>2 DEF WithKeys
    <3>2. PopularIn(rows, p) = {}
      BY <1>2, <2>2, PopularAreNat
    <3>3. QED  BY <3>1, <3>2 DEF IsGreatestOf
  <2>3. QED  BY <2>1, <2>2
<1> HIDE DEF heavier, wider
<1>10. PICK after : after = [popularity |-> wider, weight |-> heavier(w)]
  OBVIOUS
<1>11. after.popularity = wider /\ after.weight = heavier(w)
  BY <1>10
<1>12. IsGraphOf(after, rows \cup {r})
  BY <1>3, <1>7, <1>8, <1>9, <1>10, <1>11 DEF IsGraphOf
<1>13. QED  BY <1>6, <1>10, <1>12

\* No record, nothing known.
LEMMA EmptyIsGraph == IsGraphOf(EmptyGraph, {})
<1>1. TouchedPackages({}) = {} /\ EdgesIn({}) = {}
  BY DEF TouchedPackages, EdgesIn
<1>2. PICK popularity, weight : popularity = [p \in {} |-> 0] /\ weight = [e \in {} |-> 0]
  OBVIOUS
<1>3. DOMAIN popularity = {} /\ DOMAIN weight = {}
  BY <1>2
<1>4. EmptyGraph = [popularity |-> popularity, weight |-> weight]
  BY <1>2 DEF EmptyGraph
<1>5. EmptyGraph.popularity = popularity /\ EmptyGraph.weight = weight
  BY <1>4
<1>6. QED  BY <1>1, <1>3, <1>4, <1>5 DEF IsGraphOf

\* What there is after a number of records.
GraphRunOf(run, records, n) ==
    run = [i \in 0..n |-> IF i = 0 THEN EmptyGraph ELSE UpsertGraphRecord(run[i - 1], records[i])]

\* The graphs of a file are a function of how many of its records are read.
LEMMA GraphRunExists ==
    ASSUME NEW records, NEW n \in Nat
    PROVE  \E run : GraphRunOf(run, records, n)
<1> DEFINE bad == {m \in Nat : ~\E run : GraphRunOf(run, records, m)}
<1>1. SUFFICES ASSUME bad # {} PROVE FALSE
  OBVIOUS
<1>2. PICK m \in bad : \A k \in bad : m <= k
  <2>1. bad \in SUBSET Nat
    OBVIOUS
  <2> HIDE DEF bad
  <2>2. QED  BY <1>1, <2>1, NaturalsHaveLeast
<1>3. m \in Nat /\ ~\E run : GraphRunOf(run, records, m)
  OBVIOUS
<1>4. CASE m = 0
  <2>1. GraphRunOf([i \in 0..0 |-> EmptyGraph], records, 0)
    BY DEF GraphRunOf
  <2>2. QED  BY <1>3, <1>4, <2>1
<1>5. CASE m # 0
  <2>1. m - 1 \in Nat /\ ~(m <= m - 1)
    BY <1>3, <1>5
  <2>2. m - 1 \notin bad
    BY <1>2, <2>1
  <2>3. PICK run : GraphRunOf(run, records, m - 1)
    BY <2>1, <2>2
  <2> DEFINE longer == [i \in 0..m |-> IF i = m THEN UpsertGraphRecord(run[m - 1], records[m]) ELSE run[i]]
  <2>4. ASSUME NEW i \in 0..m
        PROVE  longer[i] = IF i = 0 THEN EmptyGraph ELSE UpsertGraphRecord(longer[i - 1], records[i])
    <3>1. CASE i = 0
      <4>1. 0 \in 0..(m - 1) /\ 0 # m
        BY <1>3, <1>5
      <4>2. run[0] = EmptyGraph
        BY <2>3, <4>1 DEF GraphRunOf
      <4>3. QED  BY <3>1, <4>1, <4>2
    <3>2. CASE i = m
      <4>1. m - 1 \in 0..m /\ m - 1 # m
        BY <1>3, <2>1
      <4>2. longer[m - 1] = run[m - 1]
        BY <4>1
      <4>3. QED  BY <1>5, <3>2, <4>2
    <3>3. CASE i # 0 /\ i # m
      <4>1. i \in 0..(m - 1) /\ i - 1 \in 0..m /\ i - 1 # m
        BY <1>3, <3>3
      <4>2. run[i] = UpsertGraphRecord(run[i - 1], records[i])
        BY <2>3, <3>3, <4>1 DEF GraphRunOf
      <4>3. longer[i] = run[i] /\ longer[i - 1] = run[i - 1]
        BY <3>3, <4>1
      <4>4. QED  BY <3>3, <4>2, <4>3
    <3>4. QED  BY <3>1, <3>2, <3>3
  <2>5. longer = [i \in 0..m |-> IF i = 0 THEN EmptyGraph ELSE UpsertGraphRecord(longer[i - 1], records[i])]
    <3>1. longer = [i \in 0..m |-> longer[i]]
      OBVIOUS
    <3> HIDE DEF longer
    <3>2. QED  BY <2>4, <3>1
  <2>6. GraphRunOf(longer, records, m)
    BY <2>5 DEF GraphRunOf
  <2>7. QED  BY <1>3, <2>6
<1>6. QED  BY <1>4, <1>5

\* The first records of a file.
FirstRows(records, n) == {records[i] : i \in 1..n}

\* The store has what the records say, in whatever order they come.
LEMMA StoredIs ==
    ASSUME NEW records \in Seq(GraphRows)
    PROVE  IsGraphOf(StoredGraph(records), FirstRows(records, Len(records)))
<1>1. PICK last \in Nat : last = Len(records)
  OBVIOUS
<1>2. \A i \in 1..last : records[i] \in GraphRows
  BY <1>1
<1>3. PICK graph : /\ GraphRunOf(graph, records, last)
                   /\ StoredGraph(records) = graph[last]
  <2>1. PICK graph : graph = CHOOSE run : GraphRunOf(run, records, last)
    OBVIOUS
  <2>2. GraphRunOf(graph, records, last)
    <3>1. \E run : GraphRunOf(run, records, last)
      BY GraphRunExists
    <3>2. QED  BY <2>1, <3>1
  <2>3. StoredGraph(records) = graph[last]
    BY <1>1, <2>1 DEF StoredGraph, GraphRunOf
  <2>4. QED  BY <2>2, <2>3
<1>4. ASSUME NEW i \in 0..last
      PROVE  graph[i] = IF i = 0 THEN EmptyGraph ELSE UpsertGraphRecord(graph[i - 1], records[i])
  BY <1>3 DEF GraphRunOf
<1> DEFINE bad == {n \in 0..last : ~IsGraphOf(graph[n], FirstRows(records, n))}
<1>5. ASSUME bad # {} PROVE FALSE
  <2>1. PICK n \in bad : \A k \in bad : n <= k
    <3>1. bad \in SUBSET Nat
      BY <1>1
    <3> HIDE DEF bad
    <3>2. QED  BY <1>5, <3>1, NaturalsHaveLeast
  <2>2. n \in 0..last /\ ~IsGraphOf(graph[n], FirstRows(records, n))
    OBVIOUS
  <2>3. CASE n = 0
    <3>1. FirstRows(records, 0) = {}
      BY DEF FirstRows
    <3>2. graph[0] = EmptyGraph
      BY <1>4, <2>2, <2>3
    <3>3. QED  BY <2>2, <2>3, <3>1, <3>2, EmptyIsGraph
  <2>4. CASE n # 0
    <3>1. PICK m \in 0..last : m = n - 1 /\ n \in 1..last /\ ~(n <= m) /\ n = m + 1
      BY <2>2, <2>4
    <3>2. PICK rows : rows = FirstRows(records, m)
      OBVIOUS
    <3>3. IsGraphOf(graph[m], rows)
      BY <2>1, <3>1, <3>2
    <3>4. rows \in SUBSET GraphRows
      <4>1. \A i \in 1..m : records[i] \in GraphRows
        BY <1>1, <1>2, <3>1
      <4> HIDE DEF bad
      <4>2. \A x \in FirstRows(records, m) : x \in GraphRows
        BY <4>1 DEF FirstRows
      <4>3. QED  BY <3>2, <4>2
    <3>5. PICK r \in GraphRows : r = records[n]
      BY <1>2, <3>1
    <3>6. FirstRows(records, n) = rows \cup {r}
      <4>1. \A i : i \in 1..n <=> i \in 1..m \/ i = n
        BY <3>1
      <4>2. QED  BY <3>2, <3>5, <4>1 DEF FirstRows
    <3>7. graph[n] = UpsertGraphRecord(graph[m], r)
      BY <1>4, <2>2, <2>4, <3>1, <3>5
    <3>8. r.kind = "package" \/ r.kind = "dependency"
      BY RowIs
    <3>9. IsGraphOf(UpsertGraphRecord(graph[m], r), rows \cup {r})
      BY <3>3, <3>4, <3>8, PackageUpserted, DependencyUpserted
    <3>10. QED  BY <2>2, <3>6, <3>7, <3>9
  <2>5. QED  BY <2>3, <2>4
<1>6. last \in 0..last
  BY <1>1
<1>7. IsGraphOf(graph[last], FirstRows(records, last))
  BY <1>5, <1>6
<1>8. QED  BY <1>1, <1>3, <1>7

-----------------------------------------------------------------------------
(* What a look at either shows.                                            *)

\* A graph and a cache that know the same packages and edges.
SameGraph(graph, cache) ==
    /\ DOMAIN graph.popularity = cache.known /\ DOMAIN graph.weight = cache.edges
    /\ \A p \in cache.known : graph.popularity[p] = cache.popularity[p]
    /\ IsFiniteSet(cache.edges)
    /\ \A e \in cache.edges : e = <<e[1], e[2]>> /\ e[1] \in cache.known /\ e[2] \in cache.known

\* A number is the only one that is the greatest of a set.
LEMMA GreatestIsOne ==
    ASSUME NEW numbers \in SUBSET Nat, NEW n \in Nat, IsGreatestOf(n, numbers)
    PROVE  n = IF numbers = {} THEN 0 ELSE CHOOSE m \in numbers : \A k \in numbers : m >= k
<1>1. CASE numbers = {}
  BY <1>1 DEF IsGreatestOf
<1>2. CASE numbers # {}
  <2>1. n \in numbers /\ \A k \in numbers : n >= k
    BY <1>2 DEF IsGreatestOf
  <2>2. PICK greatest : greatest = CHOOSE m \in numbers : \A k \in numbers : m >= k
    OBVIOUS
  <2>3. greatest \in numbers /\ \A k \in numbers : greatest >= k
    BY <2>1, <2>2
  <2>4. greatest \in Nat /\ greatest >= n /\ n >= greatest
    BY <2>1, <2>3
  <2>5. n = greatest
    BY <2>4
  <2>6. QED  BY <1>2, <2>2, <2>5
<1>3. QED  BY <1>1, <1>2

\* The rows of a file are finitely many, and so are its edges.
LEMMA RowsAreFinite ==
    ASSUME NEW records \in Seq(GraphRows)
    PROVE  /\ FirstRows(records, Len(records)) = ToSet(records)
           /\ ToSet(records) \in SUBSET GraphRows
           /\ IsFiniteSet(EdgesIn(ToSet(records)))
<1>1. Len(records) \in Nat /\ DOMAIN records = 1..Len(records)
  OBVIOUS
<1>2. FirstRows(records, Len(records)) = ToSet(records)
  BY <1>1 DEF FirstRows, ToSet
<1>3. \A i \in DOMAIN records : records[i] \in GraphRows
  BY <1>1
<1>4. \A r \in ToSet(records) : r \in GraphRows
  BY <1>3 DEF ToSet
<1>5. IsFiniteSet(1..Len(records))
  BY <1>1, FS_Interval
<1>6. IsFiniteSet(ToSet(records))
  <2>1. ToSet(records) = {records[i] : i \in 1..Len(records)}
    BY <1>1 DEF ToSet
  <2>2. records \in Surjection(1..Len(records), ToSet(records))
    <3>1. records = [i \in 1..Len(records) |-> records[i]]
      BY <1>1
    <3>2. QED  BY <2>1, <3>1 DEF Surjection
  <2>3. QED  BY <1>5, <2>2, FS_Surjection
<1>7. IsFiniteSet({x \in ToSet(records) : x.kind = "dependency"})
  BY <1>6, FS_Subset
<1>8. IsFiniteSet(EdgesIn(ToSet(records)))
  <2> DEFINE edgeRows == {x \in ToSet(records) : x.kind = "dependency"}
             edgeOf == [x \in edgeRows |-> <<x.package, x.dependency>>]
  <2>1. edgeOf \in Surjection(edgeRows, EdgesIn(ToSet(records)))
    <3>1. \A x \in edgeRows : edgeOf[x] \in EdgesIn(ToSet(records))
      BY DEF EdgesIn
    <3>2. \A e \in EdgesIn(ToSet(records)) : \E x \in edgeRows : edgeOf[x] = e
      BY DEF EdgesIn
    <3>3. edgeOf = [x \in edgeRows |-> edgeOf[x]]
      OBVIOUS
    <3> HIDE DEF edgeRows, edgeOf
    <3>4. QED  BY <3>1, <3>2, <3>3 DEF Surjection
  <2> HIDE DEF edgeOf
  <2>2. QED  BY <1>7, <2>1, FS_Surjection
<1>9. QED  BY <1>2, <1>4, <1>8

\* The file's cache and the store's tables know the same, of names in normal form.
LEMMA StoreIsCache ==
    ASSUME NEW records \in Seq(GraphRows), Normalized(records)
    PROVE  /\ SameGraph(StoredGraph(records), LoadCache(records))
           /\ LoadCache(records).known = TouchedPackages(ToSet(records))
           /\ LoadCache(records).edges = EdgesIn(ToSet(records))
<1>1. PICK rows : rows = ToSet(records)
  OBVIOUS
<1>2. rows \in SUBSET GraphRows /\ IsFiniteSet(EdgesIn(rows))
  BY <1>1, RowsAreFinite
<1>3. PICK graph : graph = StoredGraph(records) /\ IsGraphOf(graph, rows)
  BY <1>1, RowsAreFinite, StoredIs
<1>4. {NormalizedRecord(records[i]) : i \in DOMAIN records} = rows
  BY <1>1 DEF Normalized, ToSet
<1> DEFINE popular(p) == PopularIn(rows, p)
           greatest(p) == IF popular(p) = {} THEN 0
                          ELSE CHOOSE n \in popular(p) : \A m \in popular(p) : n >= m
           popularity == [p \in TouchedPackages(rows) |-> greatest(p)]
<1>5. LoadCache(records) = [known |-> TouchedPackages(rows), edges |-> EdgesIn(rows),
                            popularity |-> popularity]
  <2>1. PICK normalized : normalized = {NormalizedRecord(records[i]) : i \in DOMAIN records}
    OBVIOUS
  <2>2. LoadCache(records) =
            [known |-> TouchedPackages(normalized),
             edges |-> {<<r.package, r.dependency>> : r \in {x \in normalized : x.kind = "dependency"}},
             popularity |-> [p \in TouchedPackages(normalized) |->
                 IF PopularIn(normalized, p) = {} THEN 0
                 ELSE CHOOSE n \in PopularIn(normalized, p) : \A m \in PopularIn(normalized, p) : n >= m]]
    BY <2>1 DEF LoadCache, PopularIn
  <2>3. normalized = rows
    BY <1>4, <2>1
  <2>4. QED  BY <2>2, <2>3 DEF EdgesIn
<1>6. PICK cache : cache = LoadCache(records)
  OBVIOUS
<1>7. /\ cache.known = TouchedPackages(rows) /\ cache.edges = EdgesIn(rows)
      /\ cache.popularity = popularity
  <2> HIDE DEF popularity
  <2>1. QED  BY <1>5, <1>6
<1>8. ASSUME NEW p \in TouchedPackages(rows)
      PROVE  graph.popularity[p] = popularity[p]
  <2>1. PICK n \in Nat : n = graph.popularity[p] /\ IsGreatestOf(n, popular(p))
    BY <1>3 DEF IsGraphOf
  <2>2. popular(p) \in SUBSET Nat
    BY <1>2, PopularAreNat
  <2> HIDE DEF popular
  <2>3. n = greatest(p)
    BY <2>1, <2>2, GreatestIsOne
  <2>4. popularity[p] = greatest(p)
    OBVIOUS
  <2>5. QED  BY <2>1, <2>3, <2>4
<1> HIDE DEF popularity
<1>9. ASSUME NEW e \in EdgesIn(rows)
      PROVE  e = <<e[1], e[2]>> /\ e[1] \in TouchedPackages(rows) /\ e[2] \in TouchedPackages(rows)
  <2>1. PICK r \in rows : r.kind = "dependency" /\ e = <<r.package, r.dependency>>
    BY DEF EdgesIn
  <2>2. {r.package, r.dependency} \subseteq TouchedPackages(rows)
    BY <2>1 DEF TouchedPackages
  <2>3. QED  BY <2>1, <2>2
<1>10. SameGraph(graph, cache)
  <2>1. DOMAIN graph.popularity = TouchedPackages(rows) /\ DOMAIN graph.weight = EdgesIn(rows)
    BY <1>3 DEF IsGraphOf
  <2>2. QED  BY <1>2, <1>7, <1>8, <1>9, <2>1 DEF SameGraph
<1>11. QED  BY <1>1, <1>3, <1>6, <1>7, <1>10

ArePairs(edges) == \A e \in edges : e = <<e[1], e[2]>>
AsManyEnds(edges, p) ==
    /\ Cardinality({e[2] : e \in {x \in edges : x[1] = p}}) = Cardinality({e \in edges : e[1] = p})
    /\ Cardinality({e[1] : e \in {x \in edges : x[2] = p}}) = Cardinality({e \in edges : e[2] = p})

\* As many edges as there are packages at their other ends.
LEMMA EndsAreEdges ==
    ASSUME NEW edges, IsFiniteSet(edges), ArePairs(edges), NEW p
    PROVE  AsManyEnds(edges, p)
<1>1. PICK out : out = {e \in edges : e[1] = p}
  OBVIOUS
<1>2. PICK into : into = {e \in edges : e[2] = p}
  OBVIOUS
<1>3. IsFiniteSet(out) /\ IsFiniteSet(into)
  BY <1>1, <1>2, FS_Subset
<1>4. /\ \A e \in out : e = <<e[1], e[2]>> /\ e[1] = p
      /\ \A e \in into : e = <<e[1], e[2]>> /\ e[2] = p
  BY <1>1, <1>2 DEF ArePairs
<1> DEFINE seconds == {e[2] : e \in out}
           firsts == {e[1] : e \in into}
           second == [e \in out |-> e[2]]
           first == [e \in into |-> e[1]]
<1>5. second \in Bijection(out, seconds)
  <2>1. second \in [out -> seconds]
    OBVIOUS
  <2>2. \A e, d \in out : second[e] = second[d] => e = d
    <3>1. TAKE e, d \in out
    <3>2. HAVE second[e] = second[d]
    <3>3. e[2] = d[2]
      BY <3>2
    <3>4. e = <<p, e[2]>> /\ d = <<p, d[2]>>
      BY <1>4
    <3>5. QED  BY <3>3, <3>4
  <2>3. \A s \in seconds : \E e \in out : second[e] = s
    OBVIOUS
  <2> HIDE DEF seconds, second
  <2>4. QED  BY <2>1, <2>2, <2>3 DEF Bijection, Injection, IsInjective, Surjection
<1>6. first \in Bijection(into, firsts)
  <2>1. first \in [into -> firsts]
    OBVIOUS
  <2>2. \A e, d \in into : first[e] = first[d] => e = d
    <3>1. TAKE e, d \in into
    <3>2. HAVE first[e] = first[d]
    <3>3. e[1] = d[1]
      BY <3>2
    <3>4. e = <<e[1], p>> /\ d = <<d[1], p>>
      BY <1>4
    <3>5. QED  BY <3>3, <3>4
  <2>3. \A s \in firsts : \E e \in into : first[e] = s
    OBVIOUS
  <2> HIDE DEF firsts, first
  <2>4. QED  BY <2>1, <2>2, <2>3 DEF Bijection, Injection, IsInjective, Surjection
<1> HIDE DEF second, first, seconds, firsts
<1>7. Cardinality(seconds) = Cardinality(out)
  BY <1>3, <1>5, FS_Bijection DEF ExistsBijection
<1>8. Cardinality(firsts) = Cardinality(into)
  BY <1>3, <1>6, FS_Bijection DEF ExistsBijection
<1>9. QED  BY <1>1, <1>2, <1>7, <1>8 DEF seconds, firsts, AsManyEnds

\* What the two show of a package is the same.
LEMMA SameInspection ==
    ASSUME NEW graph, NEW cache, SameGraph(graph, cache), NEW p
    PROVE  /\ Evidence(graph, p) = CacheEvidence(cache, p)
           /\ Evidence(graph, p).known <=> p \in cache.known
           /\ \A limit : StoreInspection(graph, p, limit) = CacheInspection(cache, p, limit)
<1>1. PICK edges, known : edges = cache.edges /\ known = cache.known
  OBVIOUS
<1>2. /\ DOMAIN graph.weight = edges /\ DOMAIN graph.popularity = known
      /\ IsFiniteSet(edges) /\ \A e \in edges : e = <<e[1], e[2]>> /\ e[1] \in known /\ e[2] \in known
      /\ \A r \in known : graph.popularity[r] = cache.popularity[r]
  BY <1>1 DEF SameGraph
<1> DEFINE out == {e[2] : e \in {x \in edges : x[1] = p}}
           into == {e[1] : e \in {x \in edges : x[2] = p}}
<1>3. DependenciesOf(graph, p) = out /\ DependentsOf(graph, p) = into
  BY <1>2 DEF DependenciesOf, DependentsOf
<1>4. /\ Cardinality(out) = Cardinality({e \in edges : e[1] = p})
      /\ Cardinality(into) = Cardinality({e \in edges : e[2] = p})
  <2>1. IsFiniteSet(edges) /\ ArePairs(edges)
    BY <1>2 DEF ArePairs
  <2>2. AsManyEnds(edges, p)
    BY <2>1, EndsAreEdges
  <2>3. QED  BY <2>2 DEF AsManyEnds
<1>5. (Cardinality(out) > 0 \/ Cardinality(into) > 0) => p \in known
  <2>1. ASSUME p \notin known PROVE out = {} /\ into = {}
    <3>1. \A e \in edges : e[1] # p /\ e[2] # p
      BY <1>2, <2>1
    <3>2. QED  BY <3>1
  <2>2. \A S : S = {} => ~(Cardinality(S) > 0)
    BY FS_EmptySet
  <2> HIDE DEF out, into
  <2>3. QED  BY <2>1, <2>2
<1>6. PopularityOf(graph, p) = IF p \in known THEN cache.popularity[p] ELSE 0
  BY <1>2 DEF PopularityOf
<1>7. PICK dependencies, dependents : /\ dependencies = Cardinality(out) /\ dependents = Cardinality(into)
  OBVIOUS
<1>8. CacheEvidence(cache, p) = [known |-> p \in known, popularity |-> PopularityOf(graph, p),
                                 dependencies |-> dependencies, dependents |-> dependents]
  BY <1>1, <1>4, <1>6, <1>7 DEF CacheEvidence
<1>9. Evidence(graph, p) = [known |-> p \in known \/ dependencies > 0 \/ dependents > 0,
                            popularity |-> PopularityOf(graph, p),
                            dependencies |-> dependencies, dependents |-> dependents]
  BY <1>2, <1>3, <1>7 DEF Evidence
<1>10. (p \in known \/ dependencies > 0 \/ dependents > 0) = (p \in known)
  BY <1>5, <1>7
<1>11. Evidence(graph, p) = CacheEvidence(cache, p)
  BY <1>8, <1>9, <1>10
<1>12. Evidence(graph, p).known = (p \in known)
  BY <1>8, <1>11
<1>13. ASSUME NEW limit
       PROVE  StoreInspection(graph, p, limit) = CacheInspection(cache, p, limit)
  <2> HIDE DEF out, into
  <2>1. Neighborhood(graph, p, limit) = [dependencies |-> FirstNames(out, limit),
                                         dependents |-> FirstNames(into, limit)]
    BY <1>3 DEF Neighborhood
  <2>2. CacheInspection(cache, p, limit)
            = [evidence |-> CacheEvidence(cache, p),
               names |-> [dependencies |-> FirstNames(out, limit), dependents |-> FirstNames(into, limit)]]
    BY <1>1 DEF CacheInspection, out, into
  <2>3. QED  BY <1>11, <2>1, <2>2 DEF StoreInspection
<1>14. QED  BY <1>1, <1>11, <1>12, <1>13

-----------------------------------------------------------------------------
(* The records that scores are computed from.                              *)

\* A limit that is not reached cuts nothing.
LEMMA NoneIsCut ==
    ASSUME NEW S, IsFiniteSet(S), NEW limit \in Nat, Cardinality(S) < limit
    PROVE  FirstNames(S, limit) = S /\ FirstEdges(S, limit) = S
<1>1. ASSUME NEW T \in SUBSET S PROVE Cardinality(T) < limit
  <2>1. Cardinality(T) <= Cardinality(S) /\ IsFiniteSet(T)
    BY FS_Subset
  <2>2. Cardinality(T) \in Nat /\ Cardinality(S) \in Nat
    BY <2>1, FS_CardinalityType
  <2>3. QED  BY <2>1, <2>2
<1>2. \A x \in S : Cardinality({y \in S : y < x}) < limit
  BY <1>1
<1>3. \A x \in S : Cardinality({y \in S : EdgeBefore(y, x)}) < limit
  BY <1>1
<1>4. QED  BY <1>2, <1>3 DEF FirstNames, FirstEdges

\* What one limit leaves whole, a limit of as many for each of some does too.
LEMMA LimitsGrow ==
    ASSUME NEW S, IsFiniteSet(S), S # {}
    PROVE  /\ Larger(Room * Cardinality(S), 1) \in Nat
           /\ Larger(Room * Cardinality(S), 1) >= Room
<1>1. PICK n \in Nat : n = Cardinality(S)
  BY FS_CardinalityType
<1>2. n # 0
  BY <1>1, FS_EmptySet
<1>3. PICK all : all = 100 * n
  OBVIOUS
<1>4. all \in Nat /\ all >= 100
  BY <1>2, <1>3
<1>5. Larger(all, 1) = all
  BY <1>4 DEF Larger
<1>6. QED  BY <1>1, <1>3, <1>4, <1>5 DEF Room

\* Records without their weights, as StoreAgreesWithFile compares them.
Unweighted(records) ==
    {[r EXCEPT !.weight = 1] : r \in {x \in records : x.kind = "dependency"}}
    \cup {x \in records : x.kind = "package"}

\* What is left of a package's record is all of it, and of an edge's all but the weight.
LEMMA UnweightedAre ==
    ASSUME NEW graph, NEW packages, NEW edges
    PROVE  Unweighted({PackageRecord(p, PopularityOf(graph, p)) : p \in packages} \cup
                      {DependencyRecord(e[1], e[2], graph.weight[e]) : e \in edges})
           = {PackageRecord(p, PopularityOf(graph, p)) : p \in packages} \cup
             {DependencyRecord(e[1], e[2], 1) : e \in edges}
<1> DEFINE known == {PackageRecord(p, PopularityOf(graph, p)) : p \in packages}
           heavy == {DependencyRecord(e[1], e[2], graph.weight[e]) : e \in edges}
           light == {DependencyRecord(e[1], e[2], 1) : e \in edges}
<1>1. \A p, n : PackageRecord(p, n).kind = "package"
  BY DEF PackageRecord
<1>2. \A a, b, w : /\ DependencyRecord(a, b, w).kind = "dependency"
                   /\ [DependencyRecord(a, b, w) EXCEPT !.weight = 1] = DependencyRecord(a, b, 1)
  BY DEF DependencyRecord
<1>3. \A r \in known : r.kind = "package"
  BY <1>1
<1>4. \A r \in heavy : r.kind = "dependency"
  BY <1>2
<1>5. {[r EXCEPT !.weight = 1] : r \in heavy} = light
  <2>1. ASSUME NEW r \in heavy PROVE [r EXCEPT !.weight = 1] \in light
    BY <1>2
  <2>2. ASSUME NEW e \in edges PROVE \E r \in heavy : [r EXCEPT !.weight = 1] = DependencyRecord(e[1], e[2], 1)
    BY SMTT(40), <1>2
  <2>3. \A x \in light : \E e \in edges : x = DependencyRecord(e[1], e[2], 1)
    OBVIOUS
  <2> HIDE DEF heavy, light
  <2>4. \A x \in light : \E r \in heavy : [r EXCEPT !.weight = 1] = x
    BY <2>2, <2>3
  <2>5. QED  BY <2>1, <2>4
<1> HIDE DEF known, heavy, light
<1>6. /\ {x \in known \cup heavy : x.kind = "dependency"} = heavy
      /\ {x \in known \cup heavy : x.kind = "package"} = known
  BY <1>3, <1>4
<1>7. Unweighted(known \cup heavy) = light \cup known
  BY <1>5, <1>6 DEF Unweighted
<1>8. QED  BY <1>7 DEF known, heavy, light

\* The records the store exports are, but for their weights, those of the file,
\* if its limit on what one root brings in is not reached.
LEMMA SameRecords ==
    ASSUME NEW graph, NEW cache, SameGraph(graph, cache), Cardinality(cache.edges) < Room,
           NEW roots, IsFiniteSet(roots)
    PROVE  Unweighted(StoreRecordsForRoots(graph, roots, Room)) = CacheRecordsForRoots(cache, roots)
<1>1. PICK edges, known : edges = cache.edges /\ known = cache.known
  OBVIOUS
<1>2. /\ DOMAIN graph.weight = edges /\ DOMAIN graph.popularity = known
      /\ IsFiniteSet(edges)
      /\ \A p \in known : graph.popularity[p] = cache.popularity[p]
  BY <1>1 DEF SameGraph
<1>3. PICK size \in Nat : size = Cardinality(edges) /\ size < Room
  BY <1>1, <1>2, FS_CardinalityType
<1> DEFINE above == {e[1] : e \in {x \in edges : x[2] \in roots}}
           frontier == {r \in roots : r \in known} \cup above
           leaving == {e \in edges : e[1] \in frontier}
           packages == frontier \cup {e[2] : e \in leaving}
<1>4. CacheRecordsForRoots(cache, roots)
          = {PackageRecord(p, PopularityOf(graph, p)) : p \in packages} \cup
            {DependencyRecord(e[1], e[2], 1) : e \in leaving}
  <2>1. \A p : PopularityOf(graph, p) = IF p \in cache.known THEN cache.popularity[p] ELSE 0
    BY <1>1, <1>2 DEF PopularityOf
  <2>2. QED  BY <1>1, <2>1 DEF CacheRecordsForRoots
<1>5. UNION {DependentsOf(graph, r) : r \in roots} = above
  <2>1. \A r : DependentsOf(graph, r) = {e[1] : e \in {x \in edges : x[2] = r}}
    BY <1>2 DEF DependentsOf
  <2>2. ASSUME NEW x \in UNION {DependentsOf(graph, r) : r \in roots} PROVE x \in above
    <3>1. PICK r \in roots : x \in DependentsOf(graph, r)
      OBVIOUS
    <3>2. PICK e \in edges : e[2] = r /\ x = e[1]
      BY <2>1, <3>1
    <3>3. QED  BY <3>2
  <2>3. ASSUME NEW x \in above PROVE x \in UNION {DependentsOf(graph, r) : r \in roots}
    <3>1. PICK e \in edges : e[2] \in roots /\ x = e[1]
      OBVIOUS
    <3>2. x \in DependentsOf(graph, e[2])
      BY <2>1, <3>1
    <3>3. QED  BY <3>1, <3>2
  <2>4. QED  BY <2>2, <2>3
<1>6. IsFiniteSet(above) /\ Cardinality(above) <= size
  <2> DEFINE entering == {x \in edges : x[2] \in roots}
             start == [e \in entering |-> e[1]]
  <2>1. IsFiniteSet(entering) /\ Cardinality(entering) <= size
    BY <1>2, <1>3, FS_Subset
  <2>2. start \in Surjection(entering, above)
    BY DEF Surjection
  <2> HIDE DEF entering, start, above
  <2>3. IsFiniteSet(above) /\ Cardinality(above) <= Cardinality(entering)
    BY <2>1, <2>2, FS_Surjection
  <2>4. PICK a \in Nat, b \in Nat : a = Cardinality(above) /\ b = Cardinality(entering)
    BY <2>1, <2>3, FS_CardinalityType
  <2>5. QED  BY <2>1, <2>3, <2>4
<1>7. \A r : Evidence(graph, r).known <=> r \in known
  BY <1>1, SameInspection
<1>8. IsFiniteSet(frontier) /\ IsFiniteSet(leaving) /\ Cardinality(leaving) <= size
  <2>1. IsFiniteSet({r \in roots : r \in known})
    BY FS_Subset
  <2>2. IsFiniteSet(leaving) /\ Cardinality(leaving) <= size
    BY <1>2, <1>3, FS_Subset
  <2> HIDE DEF above, leaving
  <2>3. QED  BY <1>6, <2>1, <2>2, FS_Union
<1> HIDE DEF above, leaving, packages
<1>9. roots # {} => FirstNames(above, Larger(Room * Cardinality(roots), 1)) = above
  <2>1. SUFFICES ASSUME roots # {}
                 PROVE  FirstNames(above, Larger(Room * Cardinality(roots), 1)) = above
    OBVIOUS
  <2>2. PICK limit \in Nat : limit = Larger(Room * Cardinality(roots), 1) /\ limit >= Room
    BY <2>1, LimitsGrow
  <2>3. Cardinality(above) < limit
    BY <1>3, <1>6, <2>2, FS_CardinalityType DEF Room
  <2>4. QED  BY <1>6, <2>2, <2>3, NoneIsCut
<1>10. frontier # {} => FirstEdges(leaving, Larger(Room * Cardinality(frontier), 1)) = leaving
  <2>1. SUFFICES ASSUME frontier # {}
                 PROVE  FirstEdges(leaving, Larger(Room * Cardinality(frontier), 1)) = leaving
    OBVIOUS
  <2> HIDE DEF frontier
  <2>2. PICK limit \in Nat : limit = Larger(Room * Cardinality(frontier), 1) /\ limit >= Room
    BY <1>8, <2>1, LimitsGrow
  <2>3. Cardinality(leaving) < limit
    BY <1>3, <1>8, <2>2, FS_CardinalityType DEF Room
  <2>4. QED  BY <1>8, <2>2, <2>3, NoneIsCut
<1>11. CASE roots = {} \/ frontier = {}
  <2>1. above = {} /\ frontier = {}
    BY <1>11 DEF above
  <2>2. leaving = {} /\ packages = {}
    BY <2>1 DEF leaving, packages
  <2>3. CacheRecordsForRoots(cache, roots) = {}
    BY <1>4, <2>2
  <2>4. StoreRecordsForRoots(graph, roots, Room) = {}
    <3>1. CASE roots = {}
      BY <3>1 DEF StoreRecordsForRoots
    <3>2. CASE roots # {}
      <4>1. FirstNames(UNION {DependentsOf(graph, r) : r \in roots}, Larger(Room * Cardinality(roots), 1)) = {}
        BY <1>5, <1>9, <2>1, <3>2
      <4>2. {r \in roots : Evidence(graph, r).known} = {}
        BY <1>7, <2>1
      <4>3. QED  BY <4>1, <4>2 DEF StoreRecordsForRoots
    <3>3. QED  BY <3>1, <3>2
  <2>5. Unweighted({}) = {}
    BY DEF Unweighted
  <2>6. QED  BY <2>3, <2>4, <2>5
<1>12. CASE roots # {} /\ frontier # {}
  <2>1. FirstNames(UNION {DependentsOf(graph, r) : r \in roots}, Larger(Room * Cardinality(roots), 1)) = above
    BY <1>5, <1>9, <1>12
  <2>2. {r \in roots : Evidence(graph, r).known} = {r \in roots : r \in known}
    BY <1>7
  <2>3. {r \in roots : Evidence(graph, r).known}
            \cup FirstNames(UNION {DependentsOf(graph, r) : r \in roots}, Larger(Room * Cardinality(roots), 1))
        = frontier
    BY <2>1, <2>2
  <2> HIDE DEF frontier
  <2>4. FirstEdges({e \in DOMAIN graph.weight : e[1] \in frontier}, Larger(Room * Cardinality(frontier), 1)) = leaving
    BY <1>2, <1>10, <1>12 DEF leaving
  <2>5. StoreRecordsForRoots(graph, roots, Room)
            = {PackageRecord(p, PopularityOf(graph, p)) : p \in packages} \cup
              {DependencyRecord(e[1], e[2], graph.weight[e]) : e \in leaving}
    BY <1>12, <2>3, <2>4 DEF StoreRecordsForRoots, packages
  <2>6. QED  BY <1>4, <2>5, UnweightedAre
<1>13. QED  BY <1>11, <1>12

\* What StoreAgreesWithFile compares, of a package.
AgreeOn(records, graph, cache, p) ==
    /\ \A limit : StoreInspection(graph, p, limit) = CacheInspection(cache, p, limit)
    /\ Evidence(graph, p).known <=> \E r \in CensusOfRecords(ToSet(records)) : r.package = p
    /\ \A q : Unweighted(StoreRecordsForRoots(graph, {p, q}, Room)) = CacheRecordsForRoots(cache, {p, q})

\* The two graphs of one file's records agree on every package.
LEMMA GraphsAgree ==
    ASSUME NEW records \in Seq(GraphRows), Normalized(records),
           Cardinality(EdgesIn(ToSet(records))) < Room, NEW p
    PROVE  AgreeOn(records, StoredGraph(records), LoadCache(records), p)
<1>1. PICK graph, cache : graph = StoredGraph(records) /\ cache = LoadCache(records)
  OBVIOUS
<1>2. PICK rows : rows = ToSet(records)
  OBVIOUS
<1>3. /\ SameGraph(graph, cache) /\ cache.known = TouchedPackages(rows)
      /\ cache.edges = EdgesIn(rows)
  BY <1>1, <1>2, StoreIsCache
<1>4. Cardinality(cache.edges) < Room
  BY <1>2, <1>3
<1>5. \A limit : StoreInspection(graph, p, limit) = CacheInspection(cache, p, limit)
  BY ZenonT(60), <1>3, SameInspection
<1>6. Evidence(graph, p).known <=> p \in TouchedPackages(rows)
  BY <1>3, SameInspection
<1>7. ASSUME NEW n \in TouchedPackages(rows) PROVE Norm[n] = n
  <2>1. PICK r \in rows : n \in IF r.kind = "package" THEN {r.package} ELSE {r.package, r.dependency}
    BY DEF TouchedPackages
  <2>2. PICK i \in DOMAIN records : r = records[i]
    BY <1>2 DEF ToSet
  <2>3. NormalizedRecord(r) = r
    BY <2>2 DEF Normalized
  <2>4. r \in GraphRows
    BY <1>2, RowsAreFinite
  <2>5. CASE r.kind = "package"
    <3>1. [r EXCEPT !.package = Norm[r.package]] = r /\ n = r.package
      BY <2>1, <2>3, <2>5 DEF NormalizedRecord
    <3>2. r \in [kind : {"package"}, package : Names, popularity : Nat]
      BY <2>4, <2>5 DEF GraphRows
    <3>3. [r EXCEPT !.package = Norm[r.package]].package = Norm[r.package]
      BY <3>2
    <3>4. QED  BY <3>1, <3>3
  <2>6. CASE r.kind # "package"
    <3>1. [r EXCEPT !.package = Norm[r.package], !.dependency = Norm[r.dependency]] = r
      BY <2>3, <2>6 DEF NormalizedRecord
    <3>2. r \in [kind : {"dependency"}, package : Names, dependency : Names, weight : Nat]
      BY <2>4, <2>6 DEF GraphRows
    <3>3. PICK other : other = [r EXCEPT !.package = Norm[r.package], !.dependency = Norm[r.dependency]]
      OBVIOUS
    <3>4. other.package = Norm[r.package] /\ other.dependency = Norm[r.dependency]
      BY <3>2, <3>3
    <3>5. n = r.package \/ n = r.dependency
      BY <2>1, <2>6
    <3>6. QED  BY <3>1, <3>3, <3>4, <3>5
  <2>7. QED  BY <2>5, <2>6
<1>8. (\E r \in CensusOfRecords(rows) : r.package = p) <=> p \in TouchedPackages(rows)
  <2>1. RootsFromScoreInput(rows) = TouchedPackages(rows)
    BY <1>7 DEF RootsFromScoreInput
  <2>2. (\E r \in CensusOfRecords(rows) : r.package = p) <=> p \in RootsFromScoreInput(rows)
    <3>1. ASSUME NEW r \in CensusOfRecords(rows), r.package = p PROVE p \in RootsFromScoreInput(rows)
      BY <3>1 DEF CensusOfRecords
    <3>2. ASSUME p \in RootsFromScoreInput(rows) PROVE \E r \in CensusOfRecords(rows) : r.package = p
      <4>1. PICK r : r = [package |-> p, discovered_at |-> 0, source |-> "graph_input"]
        OBVIOUS
      <4>2. r \in CensusOfRecords(rows)
        BY <3>2, <4>1 DEF CensusOfRecords
      <4>3. r.package = p
        BY <4>1
      <4>4. QED  BY <4>2, <4>3
    <3>3. QED  BY <3>1, <3>2
  <2>3. QED  BY <2>1, <2>2
<1>9. ASSUME NEW q
      PROVE  Unweighted(StoreRecordsForRoots(graph, {p, q}, Room)) = CacheRecordsForRoots(cache, {p, q})
  <2>1. PICK roots : roots = {p, q}
    OBVIOUS
  <2>2. IsFiniteSet(roots)
    <3>1. IsFiniteSet({} \cup {p})
      BY FS_AddElement, FS_EmptySet
    <3>2. IsFiniteSet(({} \cup {p}) \cup {q})
      BY <3>1, FS_AddElement
    <3>3. roots = ({} \cup {p}) \cup {q}
      BY <2>1
    <3>4. QED  BY <3>2, <3>3
  <2>3. Unweighted(StoreRecordsForRoots(graph, roots, Room)) = CacheRecordsForRoots(cache, roots)
    BY <1>3, <1>4, <2>2, SameRecords
  <2>4. QED  BY <2>1, <2>3
<1>10. QED  BY <1>1, <1>2, <1>5, <1>6, <1>8, <1>9 DEF AgreeOn

\* What StoreAgreesWithFile says of one file's records.
Agreement(records) ==
    LET stored_graph == StoredGraph(records)
        cached       == LoadCache(records)
        census == CensusOfRecords(ToSet(records))
        in_store(limit) == [p \in Names |-> StoreInspection(stored_graph, p, limit)]
        in_file(limit) == [p \in Names |-> CacheInspection(cached, p, limit)]
    IN  \A p \in Names :
            /\ \A limit \in 0..2 :
                   InspectLocalGraph(in_store(limit), 0, census, p)
                       = InspectLocalGraph(in_file(limit), 0, census, p)
            /\ Evidence(stored_graph, p).known <=> \E r \in census : r.package = p
            /\ \A q \in Names :
                   Unweighted(StoreRecordsForRoots(stored_graph, {p, q}, Room))
                       = CacheRecordsForRoots(cached, {p, q})

\* It follows of what the two graphs agree on.
LEMMA FilesAgree ==
    ASSUME NEW records \in Seq(GraphRows), Normalized(records),
           Cardinality(EdgesIn(ToSet(records))) < Room
    PROVE  Agreement(records)
<1> DEFINE graph == StoredGraph(records)
           cache == LoadCache(records)
           census == CensusOfRecords(ToSet(records))
           in_store(limit) == [p \in Names |-> StoreInspection(graph, p, limit)]
           in_file(limit) == [p \in Names |-> CacheInspection(cache, p, limit)]
<1> HIDE DEF graph, cache
<1>1. ASSUME NEW p PROVE AgreeOn(records, graph, cache, p)
  BY GraphsAgree DEF graph, cache
<1>2. ASSUME NEW limit \in 0..2 PROVE in_store(limit) = in_file(limit)
  <2>1. \A n \in Names : StoreInspection(graph, n, limit) = CacheInspection(cache, n, limit)
    BY <1>1 DEF AgreeOn
  <2>2. QED  BY <2>1
<1>3. ASSUME NEW p \in Names
      PROVE  /\ Evidence(graph, p).known <=> \E r \in census : r.package = p
             /\ \A q \in Names : Unweighted(StoreRecordsForRoots(graph, {p, q}, Room))
                                     = CacheRecordsForRoots(cache, {p, q})
  BY <1>1 DEF AgreeOn
<1> HIDE DEF in_store, in_file, census
<1>4. ASSUME NEW p \in Names
      PROVE  /\ \A limit \in 0..2 : InspectLocalGraph(in_store(limit), 0, census, p)
                                        = InspectLocalGraph(in_file(limit), 0, census, p)
             /\ Evidence(graph, p).known <=> \E r \in census : r.package = p
             /\ \A q \in Names : Unweighted(StoreRecordsForRoots(graph, {p, q}, Room))
                                     = CacheRecordsForRoots(cache, {p, q})
  BY <1>2, <1>3
<1>5. QED  BY <1>4, Zenon DEF Agreement, graph, cache, census, in_store, in_file

\* For a file of any length, of names in normal form, and as long as none of the
\* store's limits is reached: what inspect_local_graph shows of a package, under
\* any limit, and the records its scores are computed from do not depend on
\* whether they come from the store or from the file's cache, but for the
\* weights; and the census has every package they know (StoreAgreesWithFile).
THEOREM StoreAndFileAgree ==
    ASSUME input.part = "graph" => /\ input.records \in Seq(GraphRows)
                                   /\ Cardinality(EdgesIn(ToSet(input.records))) < Room
    PROVE  StoreAgreesWithFile
<1>1. ASSUME input.part = "graph", Normalized(input.records) PROVE Agreement(input.records)
  BY <1>1, FilesAgree
<1>2. QED  BY <1>1, Zenon DEF StoreAgreesWithFile, Agreement, Unweighted

-----------------------------------------------------------------------------
(* What merging score records keeps.                                       *)

ScoreSnapshots == [tier : PriorityTiers, source : PrioritySources, popularity : Int, impact : Int,
                   leverage : Seq(Int)]

\* A record of the score file may name no source.
ScoreRecords == ScoreSnapshots \cup [tier : PriorityTiers, source : {"none"}, popularity : Int,
                                     impact : Int, leverage : Seq(Int)]
ScoreUpdates(packages) == [package : packages, record : ScoreRecords]

RankOfRecord(record) == Rank(SnapshotFromScoreRecord(record))

\* The ranks of snapshots are numbers, and a snapshot that stands is no weaker.
LEMMA StandingIsNotWeaker ==
    ASSUME NEW existing \in ScoreSnapshots, NEW candidate \in ScoreSnapshots
    PROVE  /\ Rank(existing) \in Nat /\ Rank(candidate) \in Nat
           /\ ~ShouldReplace(existing, candidate) => Rank(existing) >= Rank(candidate)
           /\ ShouldReplace(existing, candidate) => Rank(candidate) >= Rank(existing)
<1>1. /\ \A s \in PrioritySources : SourceRank[s] \in 0..5
      /\ \A t \in PriorityTiers : TierRank[t] \in 0..2
  BY DEF PrioritySources, SourceRank, PriorityTiers, TierRank
<1>2. PICK er \in 0..5, cr \in 0..5, et \in 0..2, ct \in 0..2 :
          /\ er = SourceRank[existing.source] /\ cr = SourceRank[candidate.source]
          /\ et = TierRank[existing.tier] /\ ct = TierRank[candidate.tier]
  BY <1>1 DEF ScoreSnapshots
<1>3. Rank(existing) = 3 * er + et /\ Rank(candidate) = 3 * cr + ct
  BY <1>2 DEF Rank
<1>4. ~ShouldReplace(existing, candidate) => ~(cr > er) /\ ~(cr = er /\ ct > et)
  BY <1>2 DEF ShouldReplace
<1>5. ShouldReplace(existing, candidate) => cr > er \/ (cr = er /\ ct > et) \/ (cr = er /\ ct = et)
  BY <1>2 DEF ShouldReplace
<1>6. er \in Nat /\ cr \in Nat /\ et \in Nat /\ ct \in Nat /\ et <= 2 /\ ct <= 2
  OBVIOUS
<1>7. PICK a \in Nat, b \in Nat : a = 3 * er + et /\ b = 3 * cr + ct
  BY <1>6
<1>8. /\ ~(cr > er) /\ ~(cr = er /\ ct > et) => a >= b
      /\ cr > er \/ (cr = er /\ ct > et) \/ (cr = er /\ ct = et) => b >= a
  BY <1>6, <1>7
<1>9. Rank(existing) = a /\ Rank(candidate) = b
  BY <1>3, <1>7
<1>10. QED  BY <1>4, <1>5, <1>7, <1>8, <1>9

\* What a record says is a snapshot.
LEMMA RecordsAreSnapshots ==
    ASSUME NEW record \in ScoreRecords
    PROVE  SnapshotFromScoreRecord(record) \in ScoreSnapshots
<1>1. "offline_score_file" \in PrioritySources /\ "none" \notin PrioritySources
  BY DEF PrioritySources, SourceRank
<1>2. CASE record \in ScoreSnapshots
  <2>1. record.source # "none"
    BY <1>1, <1>2 DEF ScoreSnapshots
  <2>2. SnapshotFromScoreRecord(record) = [record EXCEPT !.source = record.source]
    BY <2>1 DEF SnapshotFromScoreRecord
  <2>3. QED  BY <1>2, <2>2 DEF ScoreSnapshots
<1>3. CASE record \notin ScoreSnapshots
  <2>1. record \in [tier : PriorityTiers, source : {"none"}, popularity : Int, impact : Int,
                    leverage : Seq(Int)]
    BY <1>3 DEF ScoreRecords
  <2>2. SnapshotFromScoreRecord(record) = [record EXCEPT !.source = "offline_score_file"]
    BY <2>1 DEF SnapshotFromScoreRecord
  <2>3. QED  BY <1>1, <2>1, <2>2 DEF ScoreSnapshots
<1>4. QED  BY <1>2, <1>3

\* Of each package that the first updates name there is a record, one of theirs,
\* and none of them is stronger.
Strongest(merged, updates, n) ==
    /\ DOMAIN merged = {updates[i].package : i \in 1..n}
    /\ \A i \in 1..n : RankOfRecord(merged[updates[i].package]) >= RankOfRecord(updates[i].record)
    /\ \A p \in DOMAIN merged : \E i \in 1..n : p = updates[i].package /\ merged[p] = updates[i].record

\* One update more keeps that.
LEMMA StrongestIsMerged ==
    ASSUME NEW packages, NEW updates \in Seq(ScoreUpdates(packages)), NEW n \in 1..Len(updates),
           NEW merged, Strongest(merged, updates, n - 1)
    PROVE  Strongest(MergeScoreRecord(merged, updates[n]), updates, n)
<1>1. PICK m \in Nat : m = n - 1 /\ 1..n = 1..m \cup {n} /\ n \notin 1..m
  OBVIOUS
<1>2. \A i \in 1..n : updates[i] \in ScoreUpdates(packages)
  OBVIOUS
<1>3. \A i \in 1..n : updates[i].record \in ScoreRecords
  BY <1>2 DEF ScoreUpdates
<1>4. /\ DOMAIN merged = {updates[i].package : i \in 1..m}
      /\ \A i \in 1..m : RankOfRecord(merged[updates[i].package]) >= RankOfRecord(updates[i].record)
      /\ \A p \in DOMAIN merged : \E i \in 1..m : p = updates[i].package /\ merged[p] = updates[i].record
  BY <1>1 DEF Strongest
<1>5. PICK q, record : q = updates[n].package /\ record = updates[n].record
  OBVIOUS
<1>6. \A p \in DOMAIN merged : merged[p] \in ScoreRecords
  BY <1>1, <1>3, <1>4
<1> DEFINE replaced == \/ q \notin DOMAIN merged
                       \/ ShouldReplace(SnapshotFromScoreRecord(merged[q]), SnapshotFromScoreRecord(record))
<1>7. PICK after : after = MergeScoreRecord(merged, updates[n])
  OBVIOUS
<1>8. /\ DOMAIN after = DOMAIN merged \cup {q}
      /\ after[q] = IF replaced THEN record ELSE merged[q]
      /\ \A p \in DOMAIN merged : p # q => after[p] = merged[p]
  BY <1>5, <1>7 DEF MergeScoreRecord
<1>9. DOMAIN after = {updates[i].package : i \in 1..n}
  BY <1>1, <1>4, <1>5, <1>8
<1>10. \A r, s \in ScoreRecords :
          /\ RankOfRecord(r) \in Nat
          /\ ShouldReplace(SnapshotFromScoreRecord(r), SnapshotFromScoreRecord(s))
                 => RankOfRecord(s) >= RankOfRecord(r)
          /\ ~ShouldReplace(SnapshotFromScoreRecord(r), SnapshotFromScoreRecord(s))
                 => RankOfRecord(r) >= RankOfRecord(s)
  BY RecordsAreSnapshots, StandingIsNotWeaker DEF RankOfRecord
<1>11. RankOfRecord(after[q]) >= RankOfRecord(record) /\ record \in ScoreRecords
  <2>1. record \in ScoreRecords
    BY <1>1, <1>3, <1>5
  <2>2. CASE replaced
    BY <1>8, <1>10, <2>1, <2>2
  <2>3. CASE ~replaced
    BY <1>6, <1>8, <1>10, <2>1, <2>3
  <2>4. QED  BY <2>1, <2>2, <2>3
<1>12. q \in DOMAIN merged => /\ RankOfRecord(after[q]) >= RankOfRecord(merged[q])
                              /\ RankOfRecord(after[q]) \in Nat /\ RankOfRecord(merged[q]) \in Nat
  BY <1>6, <1>8, <1>10, <1>11
<1> HIDE DEF replaced
<1>13. ASSUME NEW i \in 1..n
       PROVE  RankOfRecord(after[updates[i].package]) >= RankOfRecord(updates[i].record)
  <2>1. CASE i = n
    BY <1>5, <1>11, <2>1
  <2>2. CASE i # n /\ updates[i].package = q
    <3>1. i \in 1..m
      BY <1>1, <2>2
    <3>2. RankOfRecord(merged[q]) >= RankOfRecord(updates[i].record) /\ q \in DOMAIN merged
      BY <1>4, <2>2, <3>1
    <3>3. RankOfRecord(updates[i].record) \in Nat
      BY <1>3, <1>10
    <3>4. PICK a \in Nat, b \in Nat, c \in Nat :
              /\ a = RankOfRecord(after[q]) /\ b = RankOfRecord(merged[q])
              /\ c = RankOfRecord(updates[i].record)
      BY <1>12, <3>2, <3>3
    <3>5. a >= b /\ b >= c
      BY <1>12, <3>2, <3>4
    <3>6. a >= c
      BY <3>5
    <3>7. QED  BY <2>2, <3>4, <3>6
  <2>3. CASE i # n /\ updates[i].package # q
    <3>1. i \in 1..m
      BY <1>1, <2>3
    <3>2. updates[i].package \in DOMAIN merged
      BY <1>4, <3>1
    <3>3. QED  BY <1>4, <1>8, <2>3, <3>1, <3>2
  <2>4. QED  BY <2>1, <2>2, <2>3
<1>14. ASSUME NEW p \in DOMAIN after
       PROVE  \E i \in 1..n : p = updates[i].package /\ after[p] = updates[i].record
  <2>1. CASE p = q /\ after[q] = record
    BY <1>1, <1>5, <2>1
  <2>2. CASE p \in DOMAIN merged /\ after[p] = merged[p]
    BY <1>1, <1>4, <2>2
  <2>3. QED  BY <1>8, <1>14, <2>1, <2>2 DEF replaced
<1>15. QED  BY <1>7, <1>9, <1>13, <1>14 DEF Strongest

\* What is merged after a number of updates.
MergeRunOf(run, updates, n) ==
    run = [i \in 0..n |-> IF i = 0 THEN NoRecords ELSE MergeScoreRecord(run[i - 1], updates[i])]

\* It is a function of how many of them have been taken.
LEMMA MergeRunExists ==
    ASSUME NEW updates, NEW n \in Nat
    PROVE  \E run : MergeRunOf(run, updates, n)
<1> DEFINE bad == {m \in Nat : ~\E run : MergeRunOf(run, updates, m)}
<1>1. SUFFICES ASSUME bad # {} PROVE FALSE
  OBVIOUS
<1>2. PICK m \in bad : \A k \in bad : m <= k
  <2>1. bad \in SUBSET Nat
    OBVIOUS
  <2> HIDE DEF bad
  <2>2. QED  BY <1>1, <2>1, NaturalsHaveLeast
<1>3. m \in Nat /\ ~\E run : MergeRunOf(run, updates, m)
  OBVIOUS
<1>4. CASE m = 0
  <2>1. MergeRunOf([i \in 0..0 |-> NoRecords], updates, 0)
    BY DEF MergeRunOf
  <2>2. QED  BY <1>3, <1>4, <2>1
<1>5. CASE m # 0
  <2>1. m - 1 \in Nat /\ ~(m <= m - 1)
    BY <1>3, <1>5
  <2>2. m - 1 \notin bad
    BY <1>2, <2>1
  <2>3. PICK run : MergeRunOf(run, updates, m - 1)
    BY <2>1, <2>2
  <2> DEFINE longer == [i \in 0..m |-> IF i = m THEN MergeScoreRecord(run[m - 1], updates[m]) ELSE run[i]]
  <2>4. ASSUME NEW i \in 0..m
        PROVE  longer[i] = IF i = 0 THEN NoRecords ELSE MergeScoreRecord(longer[i - 1], updates[i])
    <3>1. CASE i = 0
      <4>1. 0 \in 0..(m - 1) /\ 0 # m
        BY <1>3, <1>5
      <4>2. run[0] = NoRecords
        BY <2>3, <4>1 DEF MergeRunOf
      <4>3. QED  BY <3>1, <4>1, <4>2
    <3>2. CASE i = m
      <4>1. m - 1 \in 0..m /\ m - 1 # m
        BY <1>3, <2>1
      <4>2. longer[m - 1] = run[m - 1]
        BY <4>1
      <4>3. QED  BY <1>5, <3>2, <4>2
    <3>3. CASE i # 0 /\ i # m
      <4>1. i \in 0..(m - 1) /\ i - 1 \in 0..m /\ i - 1 # m
        BY <1>3, <3>3
      <4>2. run[i] = MergeScoreRecord(run[i - 1], updates[i])
        BY <2>3, <3>3, <4>1 DEF MergeRunOf
      <4>3. longer[i] = run[i] /\ longer[i - 1] = run[i - 1]
        BY <3>3, <4>1
      <4>4. QED  BY <3>3, <4>2, <4>3
    <3>4. QED  BY <3>1, <3>2, <3>3
  <2>5. longer = [i \in 0..m |-> IF i = 0 THEN NoRecords ELSE MergeScoreRecord(longer[i - 1], updates[i])]
    <3>1. longer = [i \in 0..m |-> longer[i]]
      OBVIOUS
    <3> HIDE DEF longer
    <3>2. QED  BY <2>4, <3>1
  <2>6. MergeRunOf(longer, updates, m)
    BY <2>5 DEF MergeRunOf
  <2>7. QED  BY <1>3, <2>6
<1>6. QED  BY <1>4, <1>5

\* Of as many updates as there are, of any packages and in any order
\* (merge_priority_score_records): each package that is named ends with one of
\* its own records, and none of its records is of a stronger source, or of the
\* same and a higher tier.  The order decides which of the equally ranked it is.
THEOREM MergingKeepsStrongest ==
    ASSUME NEW packages, NEW updates \in Seq(ScoreUpdates(packages))
    PROVE  Strongest(MergeScoreRecords(NoRecords, updates), updates, Len(updates))
<1>1. PICK last \in Nat : last = Len(updates)
  OBVIOUS
<1>2. PICK merged : /\ MergeRunOf(merged, updates, last)
                    /\ MergeScoreRecords(NoRecords, updates) = merged[last]
  <2>1. PICK merged : merged = CHOOSE run : MergeRunOf(run, updates, last)
    OBVIOUS
  <2>2. MergeRunOf(merged, updates, last)
    <3>1. \E run : MergeRunOf(run, updates, last)
      BY MergeRunExists
    <3>2. QED  BY <2>1, <3>1
  <2>3. MergeScoreRecords(NoRecords, updates) = merged[last]
    BY <1>1, <2>1 DEF MergeScoreRecords, MergeRunOf
  <2>4. QED  BY <2>2, <2>3
<1>3. ASSUME NEW i \in 0..last
      PROVE  merged[i] = IF i = 0 THEN NoRecords ELSE MergeScoreRecord(merged[i - 1], updates[i])
  BY <1>2 DEF MergeRunOf
<1> DEFINE bad == {n \in 0..last : ~Strongest(merged[n], updates, n)}
<1>4. ASSUME bad # {} PROVE FALSE
  <2>1. PICK n \in bad : \A k \in bad : n <= k
    <3>1. bad \in SUBSET Nat
      BY <1>1
    <3> HIDE DEF bad
    <3>2. QED  BY <1>4, <3>1, NaturalsHaveLeast
  <2>2. n \in 0..last /\ ~Strongest(merged[n], updates, n)
    OBVIOUS
  <2>3. CASE n = 0
    <3>1. merged[0] = NoRecords
      BY <1>3, <2>2, <2>3
    <3>2. Strongest(NoRecords, updates, 0)
      BY DEF Strongest, NoRecords
    <3>3. QED  BY <2>2, <2>3, <3>1, <3>2
  <2>4. CASE n # 0
    <3>1. PICK m \in 0..last : m = n - 1 /\ n \in 1..last /\ ~(n <= m)
      BY <2>2, <2>4
    <3>2. Strongest(merged[m], updates, n - 1)
      BY <2>1, <3>1
    <3>3. Strongest(MergeScoreRecord(merged[m], updates[n]), updates, n)
      BY <1>1, <3>1, <3>2, StrongestIsMerged
    <3>4. merged[n] = MergeScoreRecord(merged[m], updates[n])
      BY <1>3, <2>2, <2>4, <3>1
    <3>5. QED  BY <2>2, <3>3, <3>4
  <2>5. QED  BY <2>3, <2>4
<1>5. last \in 0..last
  BY <1>1
<1>6. QED  BY <1>1, <1>2, <1>4, <1>5

Sure(snapshot) == snapshot \in ScoreSnapshots /\ snapshot.source # "default_unknown"

\* A package that is resolved while something else is learned of it -- by the
\* local graph, the census, the services or none of them -- is neither unknown
\* nor remembered as weaker than what has been learned meanwhile
\* (resolve_for_event, resolve_observed_release, remember_snapshot).
THEOREM ResolvedIsNotWeaker ==
    ASSUME NEW meanwhile \in {<<>>} \cup {<<s>> : s \in ScoreSnapshots},
           NEW local \in {<<>>} \cup {<<s>> : s \in {x \in ScoreSnapshots : Sure(x)}},
           NEW in_census \in BOOLEAN, NEW online \in ScoreSnapshots, NEW observations, NEW minimum,
           NEW snapshot,
           \/ snapshot = ResolveForEvent(<<>>, local, in_census, online, meanwhile,
                                         observations, minimum).snapshot
           \/ snapshot = ResolveObservedRelease(<<>>, local, in_census, meanwhile,
                                                observations, minimum).snapshot
    PROVE  /\ Sure(snapshot)
           /\ meanwhile # <<>> => Rank(snapshot) >= Rank(meanwhile[1])
<1>1. Sure(KnownPackageStub) /\ Sure(CensusSnapshot)
  BY DEF Sure, ScoreSnapshots, KnownPackageStub, CensusSnapshot, Snapshot, PriorityTiers, TierRank,
         PrioritySources, SourceRank, Leverage, MetricOrZero, NoMetric
<1>2. Sure(FallbackOrStub(online))
  BY <1>1 DEF FallbackOrStub, Sure
<1> DEFINE found(otherwise) == IF local # <<>> THEN local[1] ELSE IF in_census THEN CensusSnapshot
                               ELSE otherwise
<1>3. ASSUME NEW otherwise
      PROVE  Resolution(<<>>, local, in_census, otherwise, meanwhile, observations, minimum).snapshot
                 = RememberedOver(meanwhile, found(otherwise))
  BY DEF Resolution
<1>4. PICK otherwise : Sure(otherwise) /\ snapshot = RememberedOver(meanwhile, found(otherwise))
  <2> HIDE DEF found
  <2>1. QED  BY <1>1, <1>2, <1>3 DEF ResolveForEvent, ResolveObservedRelease
<1>5. PICK new : new = found(otherwise) /\ Sure(new)
  BY <1>1, <1>4
<1>6. CASE meanwhile = <<>>
  <2>1. snapshot = new
    BY <1>4, <1>5, <1>6 DEF RememberedOver
  <2>2. QED  BY <1>5, <1>6, <2>1
<1>7. CASE meanwhile # <<>>
  <2>1. PICK known \in ScoreSnapshots : meanwhile = <<known>> /\ meanwhile[1] = known
    BY <1>7
  <2>2. snapshot = IF ShouldReplace(known, new) THEN new ELSE known
    BY <1>4, <1>5, <1>7, <2>1 DEF RememberedOver
  <2>3. /\ Rank(known) \in Nat
        /\ ShouldReplace(known, new) => Rank(new) >= Rank(known)
    BY <1>5, <2>1, StandingIsNotWeaker DEF Sure
  <2>4. Rank(snapshot) >= Rank(known)
    BY <2>2, <2>3
  <2>5. known.source = "default_unknown" => ShouldReplace(known, new)
    <3>1. \A s \in PrioritySources : SourceRank[s] \in 0..5 /\ (s # "default_unknown" => SourceRank[s] > 0)
      BY DEF PrioritySources, SourceRank
    <3>2. SourceRank["default_unknown"] = 0
      BY DEF SourceRank
    <3>3. SourceRank[new.source] > 0
      BY <1>5, <3>1 DEF Sure, ScoreSnapshots
    <3>4. QED  BY <3>2, <3>3 DEF ShouldReplace
  <2>6. Sure(snapshot)
    BY <1>5, <2>1, <2>2, <2>5 DEF Sure
  <2>7. QED  BY <2>1, <2>4, <2>6
<1>8. QED  BY <1>6, <1>7

-----------------------------------------------------------------------------
(* Install hooks.                                                          *)

\* A release whose files, in any number and in any directories, are in any
\* states, with any scripts of any words.
IsHookTree(tree) ==
    /\ DOMAIN tree.files \in SUBSET (Seq(Nat) \ {<<>>, <<PackageJson>>})
    /\ tree.beside \in BOOLEAN

\* A path in the top directory, and what is left of it.
LEMMA InTopDirectory ==
    ASSUME NEW p \in Seq(Nat)
    PROVE  /\ (<<9>> \o p)[1] = 9
           /\ Tail(<<9>> \o p) = p
           /\ <<9>> \o p # <<8>>
<1>1. /\ <<9>> \in Seq(Nat) /\ Len(<<9>>) = 1 /\ <<9>>[1] = 9
  OBVIOUS
<1>2. PICK q : q = <<9>> \o p
  OBVIOUS
<1>3. /\ q \in Seq(Nat) /\ Len(q) = 1 + Len(p) /\ q[1] = 9
      /\ \A i \in 1..Len(p) : q[i + 1] = p[i]
  BY <1>1, <1>2
<1>4. Tail(q) = p
  <2>1. PICK rest : rest = Tail(q)
    OBVIOUS
  <2>2. rest \in Seq(Nat) /\ Len(rest) = Len(p) /\ \A i \in 1..Len(p) : rest[i] = q[i + 1]
    BY <1>3, <2>1
  <2>3. \A i \in 1..Len(p) : rest[i] = p[i]
    BY <1>3, <2>2
  <2>4. rest = [i \in 1..Len(p) |-> rest[i]]
    BY <2>2
  <2>5. p = [i \in 1..Len(p) |-> p[i]]
    OBVIOUS
  <2>6. QED  BY <2>1, <2>3, <2>4, <2>5
<1>5. q # <<8>>
  <2>1. <<8>>[1] = 8
    OBVIOUS
  <2>2. QED  BY <1>3, <2>1
<1>6. QED  BY <1>2, <1>3, <1>4, <1>5

\* What an archive has, in its top directory.
LEMMA TreeHas ==
    ASSUME NEW tree, IsHookTree(tree), NEW files, files = Tree(tree)
    PROVE  /\ DOMAIN files = InArchive(tree)
           /\ \A p \in {<<PackageJson>>} \cup DOMAIN tree.files :
                  /\ p \in Seq(Nat)
                  /\ <<9>> \o p \in DOMAIN files
                  /\ files[<<9>> \o p] = IF p = <<PackageJson>> THEN Content(tree.scripts)
                                         ELSE Content({tree.files[p]})
<1>1. DOMAIN files = InArchive(tree)
  BY DEF Tree
<1>2. ASSUME NEW p \in {<<PackageJson>>} \cup DOMAIN tree.files
      PROVE  /\ p \in Seq(Nat)
             /\ <<9>> \o p \in DOMAIN files
             /\ files[<<9>> \o p] = IF p = <<PackageJson>> THEN Content(tree.scripts)
                                    ELSE Content({tree.files[p]})
  <2>1. p \in Seq(Nat)
    <3>1. <<PackageJson>> \in Seq(Nat)
      BY DEF PackageJson
    <3>2. QED  BY <3>1 DEF IsHookTree
  <2>2. PICK q : q = <<9>> \o p
    OBVIOUS
  <2>3. Tail(q) = p /\ q # <<8>>
    BY <2>1, <2>2, InTopDirectory
  <2>4. q \in InArchive(tree)
    BY <2>2 DEF InArchive
  <2>5. files[q] = IF q = <<8>> THEN Content({0})
                   ELSE IF Tail(q) = <<PackageJson>> THEN Content(tree.scripts)
                   ELSE Content({tree.files[Tail(q)]})
    BY <2>4 DEF Tree
  <2>6. QED  BY <1>1, <2>1, <2>2, <2>3, <2>4, <2>5
<1>3. QED  BY <1>1, <1>2

\* collect_files takes away the directory that all files are in.
LEMMA CollectedHas ==
    ASSUME NEW tree, IsHookTree(tree), NEW files, files = Collected(Tree(tree))
    PROVE  /\ tree.beside => <<PackageJson>> \notin DOMAIN files
           /\ ~tree.beside =>
                  /\ DOMAIN files = {<<PackageJson>>} \cup DOMAIN tree.files
                  /\ files[<<PackageJson>>] = Content(tree.scripts)
                  /\ \A p \in DOMAIN tree.files : files[p] = Content({tree.files[p]})
<1>1. PICK all : all = Tree(tree)
  OBVIOUS
<1>2. PICK names : names = {<<PackageJson>>} \cup DOMAIN tree.files
  OBVIOUS
<1>3. /\ DOMAIN all = InArchive(tree)
      /\ \A p \in names : /\ p \in Seq(Nat)
                          /\ <<9>> \o p \in DOMAIN all
                          /\ all[<<9>> \o p] = IF p = <<PackageJson>> THEN Content(tree.scripts)
                                               ELSE Content({tree.files[p]})
  BY <1>1, <1>2, TreeHas
<1>4. InArchive(tree) = {<<9>> \o p : p \in names} \cup (IF tree.beside THEN {<<8>>} ELSE {})
  BY <1>2 DEF InArchive
<1>5. \A p \in names : (<<9>> \o p)[1] = 9 /\ Tail(<<9>> \o p) = p
  BY <1>3, InTopDirectory
<1>6. <<PackageJson>> \in names /\ <<8>>[1] = 8
  BY <1>2
<1>7. PICK paths : paths = DOMAIN all
  OBVIOUS
<1>8. CASE tree.beside
  <2>1. <<9>> \o <<PackageJson>> \in paths /\ <<8>> \in paths
    BY <1>3, <1>4, <1>6, <1>7, <1>8
  <2>2. CommonTop(paths) = {}
    <3>1. ASSUME NEW n \in CommonTop(paths) PROVE FALSE
      <4>1. \A p \in paths : p[1] = n
        BY DEF CommonTop
      <4>2. (<<9>> \o <<PackageJson>>)[1] = n /\ <<8>>[1] = n
        BY <2>1, <4>1
      <4>3. QED  BY <1>5, <1>6, <4>2
    <3>2. QED  BY <3>1
  <2>3. files = all
    BY <1>1, <1>7, <2>2 DEF Collected
  <2>4. PICK top : top = <<PackageJson>>
    OBVIOUS
  <2>5. top[1] = 1
    BY <2>4 DEF PackageJson
  <2>6. \A p \in paths : p[1] \in {8, 9}
    BY <1>3, <1>4, <1>5, <1>6, <1>7
  <2>7. top \notin paths
    BY <2>5, <2>6
  <2>8. QED  BY <1>7, <1>8, <2>3, <2>4, <2>7
<1>9. CASE ~tree.beside
  <2>1. paths = {<<9>> \o p : p \in names}
    BY <1>3, <1>4, <1>7, <1>9
  <2>2. 9 \in CommonTop(paths)
    <3>1. <<9>> \o <<PackageJson>> \in paths /\ (<<9>> \o <<PackageJson>>)[1] = 9
      BY <1>5, <1>6, <2>1
    <3>2. \A p \in paths : p[1] = 9
      BY <1>5, <2>1
    <3>3. QED  BY <3>1, <3>2 DEF CommonTop
  <2>3. files = [p \in {Tail(q) : q \in paths} |-> all[CHOOSE q \in paths : Tail(q) = p]]
    BY <1>1, <1>7, <2>2 DEF Collected
  <2>4. \A q \in paths : q = <<9>> \o Tail(q) /\ Tail(q) \in names
    BY <1>5, <2>1
  <2>5. {Tail(q) : q \in paths} = names
    <3>1. \A q \in paths : Tail(q) \in names
      BY <2>4
    <3>2. \A p \in names : <<9>> \o p \in paths /\ Tail(<<9>> \o p) = p
      BY <1>5, <2>1
    <3>3. QED  BY <3>1, <3>2
  <2>6. ASSUME NEW p \in names PROVE files[p] = all[<<9>> \o p]
    <3>1. PICK o : o = CHOOSE q \in paths : Tail(q) = p
      OBVIOUS
    <3>2. \E q \in paths : Tail(q) = p
      BY <2>5
    <3>3. o \in paths /\ Tail(o) = p
      BY <3>1, <3>2
    <3>4. o = <<9>> \o p
      BY <2>4, <3>3
    <3>5. files[p] = all[o]
      BY <2>3, <2>5, <3>1
    <3>6. QED  BY <3>4, <3>5
  <2>7. DOMAIN files = names
    BY <2>3, <2>5
  <2>8. files[<<PackageJson>>] = Content(tree.scripts)
    BY <1>3, <1>6, <2>6
  <2>9. \A p \in DOMAIN tree.files : p \in names /\ p # <<PackageJson>>
    BY <1>2 DEF IsHookTree
  <2>10. \A p \in DOMAIN tree.files : files[p] = Content({tree.files[p]})
    BY <1>3, <2>6, <2>9
  <2>11. QED  BY <1>2, <1>9, <2>7, <2>8, <2>10
<1>10. QED  BY <1>8, <1>9 DEF IsHookTree

\* The scripts of what is collected: none, if the archive has more than one top.
LEMMA ScriptsAre ==
    ASSUME NEW tree, IsHookTree(tree), NEW files, files = Collected(Tree(tree))
    PROVE  ScriptsOf(files) = IF tree.beside THEN NoScripts ELSE tree.scripts
<1>1. Content(tree.scripts).body = tree.scripts
  BY DEF Content
<1>2. CASE tree.beside
  BY <1>2, CollectedHas DEF ScriptsOf
<1>3. CASE ~tree.beside
  <2>1. <<PackageJson>> \in DOMAIN files /\ files[<<PackageJson>>] = Content(tree.scripts)
    BY <1>3, CollectedHas
  <2>2. QED  BY <1>1, <1>3, <2>1 DEF ScriptsOf
<1>4. QED  BY <1>2, <1>3 DEF IsHookTree

\* Contents that are the same are those of the same state.
LEMMA SameStates ==
    ASSUME NEW b, NEW t, Content({b}) = Content({t}) PROVE b = t
<1>1. Content({b}).body = {b} /\ Content({t}).body = {t}
  BY DEF Content
<1>2. QED  BY <1>1

\* A path is touched exactly if it is new, gone or another file.
LEMMA TouchedAre ==
    ASSUME NEW base, NEW target, NEW p,
           NEW touched, touched = {c.path : c \in PathChanges(base, target)}
    PROVE  p \notin touched <=>
               /\ p \in DOMAIN base <=> p \in DOMAIN target
               /\ p \in DOMAIN base /\ p \in DOMAIN target => base[p] = target[p]
<1>1. ASSUME NEW change, NEW q, [path |-> q, change |-> change] \in PathChanges(base, target)
      PROVE  q \in touched
  <2>1. PICK c : c = [path |-> q, change |-> change]
    OBVIOUS
  <2>2. c.path = q /\ c \in PathChanges(base, target)
    BY <1>1, <2>1
  <2>3. QED  BY <2>2
<1>2. /\ \A q \in AddedFiles(base, target) : [path |-> q, change |-> "added"] \in PathChanges(base, target)
      /\ \A q \in RemovedFiles(base, target) : [path |-> q, change |-> "removed"] \in PathChanges(base, target)
      /\ \A q \in ChangedFiles(base, target) : [path |-> q, change |-> "changed"] \in PathChanges(base, target)
  BY DEF PathChanges
<1>3. ASSUME NEW q \in touched
      PROVE  q \in AddedFiles(base, target) \cup RemovedFiles(base, target) \cup ChangedFiles(base, target)
  <2>1. PICK c \in PathChanges(base, target) : c.path = q
    OBVIOUS
  <2>2. PICK change, r : /\ c = [path |-> r, change |-> change]
                         /\ r \in AddedFiles(base, target) \cup RemovedFiles(base, target)
                                  \cup ChangedFiles(base, target)
    BY DEF PathChanges
  <2>3. c.path = r
    BY <2>2
  <2>4. QED  BY <2>1, <2>2, <2>3
<1>4. p \in touched <=>
          p \in AddedFiles(base, target) \cup RemovedFiles(base, target) \cup ChangedFiles(base, target)
  BY <1>1, <1>2, <1>3
<1>5. QED  BY <1>4 DEF AddedFiles, RemovedFiles, ChangedFiles

\* With the scripts at the top, a path is untouched exactly if the releases have
\* the same file there; package.json itself is one of no tree's files.
LEMMA UntouchedIsSame ==
    ASSUME NEW old, IsHookTree(old), ~old.beside, NEW new, IsHookTree(new), ~new.beside,
           NEW base, base = Collected(Tree(old)), NEW target, target = Collected(Tree(new)),
           NEW p, p # <<PackageJson>>,
           NEW touched, touched = {c.path : c \in PathChanges(base, target)}
    PROVE  p \notin touched <=> SameIn(old, new, p)
<1>1. ASSUME NEW tree, IsHookTree(tree), ~tree.beside, NEW files, files = Collected(Tree(tree))
      PROVE  /\ DOMAIN files = {<<PackageJson>>} \cup DOMAIN tree.files
             /\ \A q \in DOMAIN tree.files : files[q] = Content({tree.files[q]})
  BY <1>1, CollectedHas
<1>2. /\ p \in DOMAIN base <=> p \in DOMAIN old.files
      /\ p \in DOMAIN old.files => base[p] = Content({old.files[p]})
  BY <1>1
<1>3. /\ p \in DOMAIN target <=> p \in DOMAIN new.files
      /\ p \in DOMAIN new.files => target[p] = Content({new.files[p]})
  BY <1>1
<1>4. ASSUME p \in DOMAIN old.files, p \in DOMAIN new.files
      PROVE  base[p] = target[p] <=> old.files[p] = new.files[p]
  <2>1. base[p] = Content({old.files[p]}) /\ target[p] = Content({new.files[p]})
    BY <1>2, <1>3, <1>4
  <2>2. QED  BY <2>1, SameStates
<1>5. p \notin touched <=>
          /\ p \in DOMAIN base <=> p \in DOMAIN target
          /\ p \in DOMAIN base /\ p \in DOMAIN target => base[p] = target[p]
  <2>1. ASSUME NEW b, NEW t, NEW changed, changed = {c.path : c \in PathChanges(b, t)}
        PROVE  p \notin changed <=>
                   /\ p \in DOMAIN b <=> p \in DOMAIN t
                   /\ p \in DOMAIN b /\ p \in DOMAIN t => b[p] = t[p]
    BY <2>1, TouchedAre
  <2>2. QED  BY <2>1
<1>6. QED  BY <1>2, <1>3, <1>4, <1>5 DEF SameIn

\* What the two releases say of their hooks, when the code knows it.
LEMMA HookIs ==
    ASSUME NEW base, NEW target, NEW hook, hook = NpmInstallHookDiff(base, target), hook.known,
           NEW touched, touched = {c.path : c \in PathChanges(base, target)},
           NEW before, before = ScriptsOf(base), NEW after, after = ScriptsOf(target)
    PROVE  hook.longstanding <=> /\ DOMAIN after # {} /\ DOMAIN before # {}
                                 /\ before = after /\ ScriptFileRefs(before, after) \cap touched = {}
<1>1. hook = HookDiff(base, target, touched)
  <2>1. CASE <<PackageJson>> \notin DOMAIN base \cup DOMAIN target
    <3>1. hook = [known |-> FALSE]
      BY <2>1 DEF NpmInstallHookDiff
    <3>2. ~hook.known
      BY <3>1
    <3>3. QED  BY <3>2
  <2>2. CASE ~(<<PackageJson>> \notin DOMAIN base \cup DOMAIN target)
    BY <2>2 DEF NpmInstallHookDiff
  <2>3. QED  BY <2>1, <2>2
<1>2. PICK changed : changed = (before # after \/ ScriptFileRefs(before, after) \cap touched # {})
  OBVIOUS
<1>3. hook = [known |-> TRUE, target |-> DOMAIN after # {}, changed |-> changed,
              longstanding |-> DOMAIN after # {} /\ DOMAIN before # {} /\ ~changed]
  BY <1>1, <1>2 DEF HookDiff
<1>4. hook.longstanding = (DOMAIN after # {} /\ DOMAIN before # {} /\ ~changed)
  BY <1>3
<1>5. QED  BY <1>2, <1>4

\* In releases of any files, with scripts of any words, a hook that is called
\* longstanding has the same scripts in both, and every file that these run is
\* the same in both or in neither, but for the words that the code overlooks;
\* and one that is not called so has other scripts or names a file that is
\* another one (derive_npm_install_hook_diff, install_script_file_refs;
\* LongstandingIsUnchanged).
THEOREM LongstandingRunsTheSame ==
    ASSUME input.part = "hook" => IsHookTree(input.baseline) /\ IsHookTree(input.target)
    PROVE  LongstandingIsUnchanged
<1>1. SUFFICES ASSUME input.part = "hook" PROVE LongstandingIsUnchanged
  BY DEF LongstandingIsUnchanged
<1>2. PICK old, new : /\ old = input.baseline /\ new = input.target
                      /\ IsHookTree(old) /\ IsHookTree(new)
  BY <1>1
<1>3. PICK base, target : base = Collected(Tree(old)) /\ target = Collected(Tree(new))
  OBVIOUS
<1>4. PICK hook : hook = NpmInstallHookDiff(base, target)
  OBVIOUS
<1>5. PICK touched : touched = {c.path : c \in PathChanges(base, target)}
  OBVIOUS
<1>6. PICK before, after : before = ScriptsOf(base) /\ after = ScriptsOf(target)
  OBVIOUS
<1>7. hook.known => (hook.longstanding <=>
          /\ DOMAIN after # {} /\ DOMAIN before # {}
          /\ before = after /\ ScriptFileRefs(before, after) \cap touched = {})
  <2>1. SUFFICES ASSUME hook.known
                 PROVE  hook.longstanding <=>
                            /\ DOMAIN after # {} /\ DOMAIN before # {}
                            /\ before = after /\ ScriptFileRefs(before, after) \cap touched = {}
    OBVIOUS
  <2>2. QED  BY <1>4, <1>5, <1>6, <2>1, HookIs
<1>8. /\ before = IF old.beside THEN NoScripts ELSE old.scripts
      /\ after = IF new.beside THEN NoScripts ELSE new.scripts
  BY <1>2, <1>3, <1>6, ScriptsAre
<1>9. ASSUME ~old.beside, ~new.beside, NEW p
      PROVE  /\ p # <<PackageJson>> => (p \notin touched <=> SameIn(old, new, p))
             /\ p = <<PackageJson>> => SameIn(old, new, p)
             /\ p = <<PackageJson>> /\ p \in touched => old.scripts # new.scripts
  <2>1. p # <<PackageJson>> => (p \notin touched <=> SameIn(old, new, p))
    BY <1>2, <1>3, <1>5, <1>9, UntouchedIsSame
  <2>2. p = <<PackageJson>> => SameIn(old, new, p)
    BY <1>2 DEF IsHookTree, SameIn
  <2>3. ASSUME p = <<PackageJson>>, p \in touched, old.scripts = new.scripts PROVE FALSE
    <3>1. /\ p \in DOMAIN base /\ base[p] = Content(old.scripts)
          /\ p \in DOMAIN target /\ target[p] = Content(new.scripts)
      <4>1. ASSUME NEW tree, IsHookTree(tree), ~tree.beside, NEW files, files = Collected(Tree(tree))
            PROVE  <<PackageJson>> \in DOMAIN files /\ files[<<PackageJson>>] = Content(tree.scripts)
        BY <4>1, CollectedHas
      <4>2. QED  BY <1>2, <1>3, <1>9, <2>3, <4>1
    <3>2. p \notin touched <=>
              /\ p \in DOMAIN base <=> p \in DOMAIN target
              /\ p \in DOMAIN base /\ p \in DOMAIN target => base[p] = target[p]
      BY <1>5, TouchedAre
    <3>3. base[p] = target[p]
      BY <2>3, <3>1
    <3>4. QED  BY <1>5, <2>3, <3>1, <3>2, <3>3
  <2>4. QED  BY <2>1, <2>2, <2>3
<1>10. ASSUME hook.known, hook.longstanding
       PROVE  /\ DOMAIN new.scripts # {} /\ old.scripts = new.scripts
              /\ \A w \in WordsOf(new.scripts) : SameIn(old, new, w.file) \/ Overlooked(w)
  <2>1. DOMAIN NoScripts = {}
    BY DEF NoScripts
  <2>2. /\ ~old.beside /\ ~new.beside /\ before = old.scripts /\ after = new.scripts
        /\ old.scripts = new.scripts /\ DOMAIN new.scripts # {}
        /\ ScriptFileRefs(old.scripts, new.scripts) \cap touched = {}
    BY <1>2, <1>7, <1>8, <1>10, <2>1 DEF IsHookTree
  <2>3. ASSUME NEW w \in WordsOf(new.scripts), ~Overlooked(w) PROVE SameIn(old, new, w.file)
    <3>1. NamesScript(w) /\ w.path = w.file
      BY <2>3 DEF Overlooked
    <3>2. w.path \in ScriptFileRefs(old.scripts, new.scripts)
      BY <3>1 DEF ScriptFileRefs
    <3>3. w.path \notin touched
      BY <2>2, <3>2
    <3>4. SameIn(old, new, w.path)
      BY <1>9, <2>2, <3>3
    <3>5. QED  BY <3>1, <3>4
  <2>4. QED  BY <2>2, <2>3
<1>11. ASSUME hook.known, ~hook.longstanding, ~old.beside, ~new.beside,
              DOMAIN old.scripts # {}, DOMAIN new.scripts # {}, old.scripts = new.scripts
       PROVE  \E w \in {x \in WordsOf(old.scripts) \cup WordsOf(new.scripts) : NamesScript(x)} :
                  ~SameIn(old, new, w.path)
  <2>1. ScriptFileRefs(old.scripts, new.scripts) \cap touched # {}
    BY <1>7, <1>8, <1>11
  <2>2. PICK w \in {x \in WordsOf(old.scripts) \cup WordsOf(new.scripts) : NamesScript(x)} :
            w.path \in touched
    BY <2>1 DEF ScriptFileRefs
  <2>3. ~SameIn(old, new, w.path)
    BY <1>9, <1>11, <2>2
  <2>4. QED  BY <2>2, <2>3
<1>12. QED  BY <1>1, <1>2, <1>3, <1>4, <1>10, <1>11 DEF LongstandingIsUnchanged

=============================================================================
