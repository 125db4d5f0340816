---------------------------- MODULE ServiceProofs ----------------------------
(***************************************************************************)
(* Proofs about components that run beside the pipeline: the checks of     *)
(* source repositories (RepoProvenance), the crates.io census              *)
(* (PackageCensus) and the bounded recency map (BoundedMap).               *)
(*                                                                         *)
(* A map keeps max_entries although compaction can hide an entry from      *)
(* evict_oldest: an entry is hidden (an orphan) only between a compaction  *)
(* and its next use, and a compaction hides nothing but the key being      *)
(* used, so at most one entry is an orphan.  An eviction that removes      *)
(* nothing therefore meets a map of one entry.                             *)
(***************************************************************************)
EXTENDS RepoProvenance, PackageCensus, BoundedMap, TLAPS, WellFoundedInduction,
        NaturalsInduction, FiniteSetTheorems, SequenceTheorems

-----------------------------------------------------------------------------
(* RepoProvenance.                                                         *)

Reasons == {"refused", "error", "not_found", "host"}

Verdicts ==
    [kind : {"tag", "release"}, ref : AllRefs] \cup [kind : {"unknown"}, why : Reasons]
    \cup {NoVerdict, Mismatch, [kind |-> "commit"]}

CheckType ==
    [pc : {"idle", "tags", "release", "gitlab", "commit", "only_commit", "done"},
     details : CheckedReleases \cup {{}}, provider : {"github", "gitlab", "unknown"},
     ref : {1, 2}, refused : BOOLEAN, stalled : BOOLEAN, verdict : Verdicts]

\* A check has a verdict only when it is done, and a refusal ends it there.
Consistent(check) ==
    /\ check \in CheckType
    /\ check.pc # "idle" => check.details \in CheckedReleases
    /\ check.pc # "done" => check.verdict = NoVerdict /\ ~check.refused
    /\ check.refused => check.verdict.kind = "unknown"
    /\ check.verdict = Unknown("refused") => check.refused \/ check.stalled

\* What it says of a ref is so.
Real(check) ==
    /\ check.verdict.kind = "tag" =>
           check.verdict.ref[1] = check.details.version /\ check.verdict.ref \in remote_tags
    /\ check.verdict.kind = "release" =>
           check.verdict.ref[1] = check.details.version /\ check.verdict.ref \in remote_releases

Good(check) == Consistent(check) /\ Real(check)

\* A check that still asks.
Open(check) == Good(check) /\ check.pc \notin {"idle", "done"}

\* What the caches hold of the repository is so; only what they miss may be old.
CachesReal ==
    /\ tag_cache.kind = "names" => tag_cache.names \subseteq remote_tags
    /\ release_cache \in [AllRefs -> {"none", "found", "missing"}]
    /\ gitlab_cache \in [AllRefs -> {"none", "tag", "release", "missing", "refused", "error"}]
    /\ \A r \in AllRefs :
           /\ release_cache[r] = "found" => r \in remote_releases
           /\ gitlab_cache[r] = "tag" => r \in remote_tags
           /\ gitlab_cache[r] = "release" => r \in remote_releases

ProvenanceInv ==
    /\ CachesReal
    /\ checks \in [Checkers -> CheckType]
    /\ \A c \in Checkers : Good(checks[c])

-----------------------------------------------------------------------------
(* What the steps of a check make of it.                                   *)

\* A candidate is a ref of the version that is checked.
LEMMA CandidateIsOwn ==
    ASSUME NEW d \in CheckedReleases, NEW i \in {1, 2}
    PROVE  /\ CandidateRefs(d.version)[i] \in AllRefs
           /\ CandidateRefs(d.version)[i][1] = d.version
<1>1. CandidateRefs(d.version)[i] \in AllRefs
  BY DEF AllRefs
<1>2. CandidateRefs(d.version)[i][1] = d.version
  BY DEF CandidateRefs
<1>3. QED  BY <1>1, <1>2

LEMMA LeastIsIn ==
    ASSUME NEW S \in SUBSET {1, 2}, S # {}
    PROVE  LeastOf(S) \in S
<1>1. \E i \in S : \A j \in S : i <= j
  <2>1. CASE 1 \in S
    BY <2>1
  <2>2. CASE 1 \notin S
    <3>1. S = {2}
      BY <2>2
    <3>2. QED  BY <3>1
  <2>3. QED  BY <2>1, <2>2
<1>2. QED  BY <1>1 DEF LeastOf

\* An answer that names no ref, but for a refusal, ends a check well.
LEMMA DoneIsGood ==
    ASSUME NEW check, Open(check),
           NEW verdict \in Verdicts,
           verdict.kind \notin {"tag", "release"}, verdict # Unknown("refused")
    PROVE  Good(Done(check, verdict))
BY DEF Good, Open, Consistent, Real, Done, CheckType

LEMMA VerdictTypes ==
    /\ NoVerdict \in Verdicts /\ NoVerdict.kind = "none" /\ NoVerdict # Unknown("refused")
    /\ Mismatch \in Verdicts /\ Mismatch.kind = "mismatch" /\ Mismatch # Unknown("refused")
    /\ [kind |-> "commit"] \in Verdicts /\ [kind |-> "commit"] # Unknown("refused")
    /\ \A why \in Reasons : Unknown(why) \in Verdicts /\ Unknown(why).kind = "unknown"
    /\ \A why \in Reasons : why # "refused" => Unknown(why) # Unknown("refused")
    /\ \A kind \in {"tag", "release"}, r \in AllRefs :
           Matched(kind, r) \in Verdicts /\ Matched(kind, r).kind = kind
           /\ Matched(kind, r).ref = r /\ Matched(kind, r) # Unknown("refused")
<1>1. \A v : v = Unknown("refused") => v.kind = "unknown" /\ v.why = "refused"
  BY DEF Unknown
<1>2. /\ NoVerdict.kind = "none" /\ Mismatch.kind = "mismatch"
      /\ [kind |-> "commit"].kind = "commit"
      /\ \A why \in Reasons : Unknown(why).kind = "unknown" /\ Unknown(why).why = why
      /\ \A kind, r : Matched(kind, r).kind = kind /\ Matched(kind, r).ref = r
  BY DEF NoVerdict, Mismatch, Unknown, Matched
<1>3. /\ NoVerdict \in Verdicts /\ Mismatch \in Verdicts /\ [kind |-> "commit"] \in Verdicts
      /\ \A why \in Reasons : Unknown(why) \in Verdicts
      /\ \A kind \in {"tag", "release"}, r \in AllRefs : Matched(kind, r) \in Verdicts
  BY DEF Verdicts, Unknown, Matched
<1>4. QED  BY <1>1, <1>2, <1>3

\* A refusal is told.
LEMMA RefusedIsGood ==
    ASSUME NEW check, Open(check)
    PROVE  /\ Good(Done(Heard(check, "refused"), Unknown("refused")))
           /\ Good(Stalled(check))
<1>1. Unknown("refused") \in Verdicts /\ Unknown("refused").kind = "unknown"
  BY VerdictTypes DEF Reasons
<1> DEFINE heard == Heard(check, "refused")
           stalled == [check EXCEPT !.stalled = TRUE]
<1>2. heard \in CheckType /\ heard.refused /\ heard.details = check.details
  <2>1. (check.refused \/ "refused" = "refused") = TRUE
    OBVIOUS
  <2>2. heard = [check EXCEPT !.refused = TRUE]
    BY <2>1 DEF Heard
  <2>3. QED  BY <2>2 DEF Open, Good, Consistent, CheckType
<1>3. stalled \in CheckType /\ stalled.stalled /\ ~stalled.refused /\ stalled.details = check.details
  BY DEF Open, Good, Consistent, CheckType
<1>4. check.details \in CheckedReleases
  BY DEF Open, Good, Consistent
<1> HIDE DEF heard, stalled
<1>5. Good(Done(heard, Unknown("refused")))
  BY <1>1, <1>2, <1>4 DEF Good, Consistent, Real, Done, CheckType
<1>6. Good(Done(stalled, Unknown("refused")))
  BY <1>1, <1>3, <1>4 DEF Good, Consistent, Real, Done, CheckType
<1>7. QED  BY <1>5, <1>6 DEF Stalled, heard, stalled

\* A check that is not refused is as it was.
LEMMA HeardIsSame ==
    ASSUME NEW check, Open(check), NEW answer, answer # "refused"
    PROVE  Heard(check, answer) = check
BY DEF Open, Good, Consistent, CheckType, Heard

\* A match with a candidate that is there.
LEMMA MatchIsGood ==
    ASSUME NEW check, Open(check), NEW i \in {1, 2}, NEW kind \in {"tag", "release"},
           kind = "tag" => CandidateRefs(check.details.version)[i] \in remote_tags,
           kind = "release" => CandidateRefs(check.details.version)[i] \in remote_releases
    PROVE  Good(Done(check, Matched(kind, CandidateRefs(check.details.version)[i])))
<1> DEFINE ref == CandidateRefs(check.details.version)[i]
<1>1. check.details \in CheckedReleases
  BY DEF Open, Good, Consistent
<1>2. ref \in AllRefs /\ ref[1] = check.details.version
  BY <1>1, CandidateIsOwn
<1> HIDE DEF ref
<1>3. /\ Matched(kind, ref) \in Verdicts /\ Matched(kind, ref).kind = kind
      /\ Matched(kind, ref).ref = ref /\ Matched(kind, ref) # Unknown("refused")
  BY <1>2, VerdictTypes
<1>4. /\ kind = "tag" => ref \in remote_tags
      /\ kind = "release" => ref \in remote_releases
  BY DEF ref
<1>5. Good(Done(check, Matched(kind, ref)))
  BY <1>2, <1>3, <1>4 DEF Good, Open, Consistent, Real, Done, CheckType
<1>6. QED  BY <1>5 DEF ref

LEMMA NextIsGood ==
    ASSUME NEW check, Open(check)
    PROVE  Good(NextRef(check))
<1>1. Good(Done(check, Mismatch))
  BY DoneIsGood, VerdictTypes
<1>2. Good(Stalled(check))
  BY RefusedIsGood
<1>3. Good([check EXCEPT !.pc = "commit"]) /\ Good([check EXCEPT !.ref = 2])
  BY DEF Good, Open, Consistent, Real, CheckType
<1>4. QED  BY <1>1, <1>2, <1>3 DEF NextRef, AfterRefs

LEMMA WithTagsIsGood ==
    ASSUME NEW check, Open(check), NEW names, names \subseteq remote_tags
    PROVE  Good(WithTags(check, names))
<1> DEFINE refs  == CandidateRefs(check.details.version)
           found == {i \in {1, 2} : refs[i] \in names}
<1>1. CASE found # {}
  <2>1. LeastOf(found) \in found
    BY <1>1, LeastIsIn
  <2>2. LeastOf(found) \in {1, 2} /\ refs[LeastOf(found)] \in remote_tags
    BY <2>1
  <2>3. Good(Done(check, Matched("tag", refs[LeastOf(found)])))
    BY <2>2, MatchIsGood
  <2>4. QED  BY <1>1, <2>3 DEF WithTags
<1>2. CASE found = {}
  <2>1. Good([check EXCEPT !.pc = "release"])
    BY DEF Good, Open, Consistent, Real, CheckType
  <2>2. QED  BY <1>2, <2>1 DEF WithTags
<1>3. QED  BY <1>1, <1>2

\* A check that begins.
LEMMA NewIsOpen ==
    ASSUME NEW d \in CheckedReleases, NEW provider \in {"github", "gitlab", "unknown"},
           NEW pc \in {"release", "only_commit"}
    PROVE  Open(NewCheck(d, provider, pc))
BY VerdictTypes DEF Open, Good, Consistent, Real, NewCheck, NoCheck, CheckType

LEMMA StartIsGood ==
    ASSUME NEW check, Open(check), CachesReal
    PROVE  Good(StartGithub(check))
<1>1. Good(Stalled(check))
  BY RefusedIsGood
<1>2. ASSUME NEW why \in {"not_found", "error"}
      PROVE  Good(Done(check, Unknown(why)))
  <2>1. Unknown(why) \in Verdicts /\ Unknown(why).kind = "unknown" /\ Unknown(why) # Unknown("refused")
    BY VerdictTypes DEF Reasons
  <2>2. QED  BY <2>1, DoneIsGood
<1>3. Good([check EXCEPT !.pc = "tags"])
  BY DEF Good, Open, Consistent, Real, CheckType
<1>4. tag_cache.kind = "names" => Good(WithTags(check, tag_cache.names))
  BY WithTagsIsGood DEF CachesReal
<1>5. QED  BY <1>1, <1>2, <1>3, <1>4 DEF StartGithub, FromTagCache

-----------------------------------------------------------------------------
(* The invariant.                                                          *)

ChecksGood ==
    /\ checks \in [Checkers -> CheckType]
    /\ \A c \in Checkers : Good(checks[c])

LEMMA ProvenanceInitial == ProvenanceInit => ProvenanceInv
<1> SUFFICES ASSUME ProvenanceInit PROVE ProvenanceInv
  OBVIOUS
<1>1. CachesReal
  BY DEF ProvenanceInit, CachesReal
<1>2. Good(NoCheck) /\ NoCheck \in CheckType
  BY VerdictTypes DEF Good, Consistent, Real, NoCheck, CheckType
<1>3. QED  BY <1>1, <1>2 DEF ProvenanceInit, ProvenanceInv

\* One check becomes another good one, and the repository is as it was.
LEMMA PutKeeps ==
    ASSUME ProvenanceInv, NEW c \in Checkers, NEW check, Good(check),
           Put(c, check), UNCHANGED remote
    PROVE  ChecksGood'
<1>1. check \in CheckType
  BY DEF Good, Consistent
<1>2. checks' \in [Checkers -> CheckType]
  BY <1>1 DEF ProvenanceInv, Put
<1>3. ASSUME NEW d \in Checkers PROVE Good(checks[d])'
  <2>1. Good(checks'[d])
    BY DEF ProvenanceInv, Put
  <2>2. QED  BY <2>1 DEF Good, Consistent, Real, remote
<1>4. QED  BY <1>2, <1>3 DEF ChecksGood

\* Tags and releases are only added: what was said of them stays so.
LEMMA GrowthKeeps ==
    ASSUME ProvenanceInv, UNCHANGED <<checks, caches>>,
           remote_tags \subseteq remote_tags', remote_releases \subseteq remote_releases'
    PROVE  ProvenanceInv'
<1>1. ASSUME NEW c \in Checkers PROVE Good(checks[c])'
  BY DEF ProvenanceInv, Good, Consistent, Real
<1>2. CachesReal'
  BY DEF ProvenanceInv, CachesReal, caches
<1>3. QED  BY <1>1, <1>2 DEF ProvenanceInv

LEMMA BeginReleaseKeeps ==
    ASSUME ProvenanceInv, NEW c \in Checkers, NEW d \in CheckedReleases, BeginRelease(c, d)
    PROVE  ProvenanceInv'
<1>1. PICK url \in RepositoryUrl(d) :
          LET resolved == ResolveRepository(url)
              provider == IF resolved = {} THEN "unknown" ELSE (CHOOSE r \in resolved : TRUE).provider
              check    == NewCheck(d, provider, "release")
          IN  Put(c, CASE provider = "github" -> StartGithub(check)
                       [] provider = "gitlab" -> [check EXCEPT !.pc = "gitlab"]
                       [] resolved = {}       -> Done(check, Unknown("host"))
                       [] OTHER               -> Done(check, NoVerdict))
  BY DEF BeginRelease
<1> DEFINE resolved == ResolveRepository(url)
           provider == IF resolved = {} THEN "unknown" ELSE (CHOOSE r \in resolved : TRUE).provider
           check == NewCheck(d, provider, "release")
<1>2. provider \in {"github", "gitlab", "unknown"}
  BY DEF ResolveRepository
<1>3. Open(check)
  BY <1>2, NewIsOpen
<1>4. Good(StartGithub(check))
  BY <1>3, StartIsGood DEF ProvenanceInv
<1>5. Good([check EXCEPT !.pc = "gitlab"])
  BY <1>3 DEF Good, Open, Consistent, Real, CheckType
<1>6. Good(Done(check, Unknown("host"))) /\ Good(Done(check, NoVerdict))
  <2>1. Unknown("host") \in Verdicts /\ Unknown("host").kind = "unknown" /\ Unknown("host") # Unknown("refused")
    BY VerdictTypes DEF Reasons
  <2>2. QED  BY <1>3, <2>1, DoneIsGood, VerdictTypes
<1>7. \E next : Good(next) /\ Put(c, next)
  BY <1>1, <1>4, <1>5, <1>6
<1>8. ChecksGood'
  BY <1>7, PutKeeps DEF BeginRelease
<1>9. CachesReal'
  BY DEF ProvenanceInv, BeginRelease, CachesReal, remote
<1>10. QED  BY <1>8, <1>9 DEF ProvenanceInv, ChecksGood

LEMMA BeginCommitKeeps ==
    ASSUME ProvenanceInv, NEW c \in Checkers, NEW d \in CheckedReleases, BeginCommit(c, d)
    PROVE  ProvenanceInv'
<1>0. PICK url \in RepositoryUrl(d) : \E resolved \in ResolveRepository(url) :
          LET check == NewCheck(d, resolved.provider, "only_commit")
          IN  Put(c, IF resolved.provider = "github" /\ BackoffHolds THEN Stalled(check) ELSE check)
  BY DEF BeginCommit
<1>1. PICK resolved \in ResolveRepository(url) :
          LET check == NewCheck(d, resolved.provider, "only_commit")
          IN  Put(c, IF resolved.provider = "github" /\ BackoffHolds THEN Stalled(check) ELSE check)
  BY <1>0
<1> DEFINE check == NewCheck(d, resolved.provider, "only_commit")
<1>2. resolved.provider \in {"github", "gitlab", "unknown"}
  BY DEF ResolveRepository
<1>3. Open(check)
  BY <1>2, NewIsOpen
<1>4. Good(Stalled(check)) /\ Good(check)
  BY <1>3, RefusedIsGood DEF Open
<1>5. \E next : Good(next) /\ Put(c, next)
  BY <1>1, <1>4
<1>6. ChecksGood'
  BY <1>5, PutKeeps DEF BeginCommit
<1>7. CachesReal'
  BY DEF ProvenanceInv, BeginCommit, CachesReal, remote, caches
<1>8. QED  BY <1>6, <1>7 DEF ProvenanceInv, ChecksGood

LEMMA BusyIsOpen ==
    ASSUME ProvenanceInv, NEW c \in Checkers, checks[c].pc \notin {"idle", "done"}
    PROVE  Open(checks[c])
BY DEF ProvenanceInv, Open

\* The verdicts of an answer that no ref is named by.
LEMMA AnswerIsGood ==
    ASSUME NEW check, Open(check), NEW answer \in Answers
    PROVE  /\ answer # "refused" => Good(Done(Heard(check, answer), NoVerdict))
           /\ answer # "refused" => Good(Done(Heard(check, answer), Mismatch))
           /\ answer # "refused" => Good(Done(Heard(check, answer), [kind |-> "commit"]))
           /\ answer # "refused" => Good(Done(Heard(check, answer), Unknown("not_found")))
           /\ answer # "refused" => Good(NextRef(Heard(check, answer)))
           /\ answer \in {"refused", "error"} => Good(Done(Heard(check, answer), Unknown(answer)))
<1>1. CASE answer = "refused"
  BY <1>1, RefusedIsGood
<1>2. CASE answer # "refused"
  <2>1. Heard(check, answer) = check
    BY <1>2, HeardIsSame
  <2>2. ASSUME NEW why \in {"not_found", "error"}
        PROVE  Good(Done(check, Unknown(why)))
    <3>1. Unknown(why) \in Verdicts /\ Unknown(why).kind = "unknown" /\ Unknown(why) # Unknown("refused")
      BY VerdictTypes DEF Reasons
    <3>2. QED  BY <3>1, DoneIsGood
  <2>3. Good(Done(check, NoVerdict)) /\ Good(Done(check, Mismatch))
    BY DoneIsGood, VerdictTypes
  <2>4. Good(Done(check, [kind |-> "commit"]))
    BY DoneIsGood, VerdictTypes
  <2>5. QED  BY <1>2, <2>1, <2>2, <2>3, <2>4, NextIsGood
<1>3. QED  BY <1>1, <1>2

LEMMA AnswerTagsKeeps ==
    ASSUME ProvenanceInv, NEW c \in Checkers, NEW answer \in Answers, AnswerTags(c, answer)
    PROVE  ProvenanceInv'
<1>1. Open(checks[c])
  BY BusyIsOpen DEF AnswerTags
<1> DEFINE check == Heard(checks[c], answer)
           after == CASE answer = "found"   -> WithTags(check, remote_tags)
                      [] answer = "missing" -> Done(check, Unknown("not_found"))
                      [] answer = "broken"  -> Done(check, NoVerdict)
                      [] OTHER              -> Done(check, Unknown(answer))
<1>2. answer = "found" => Good(WithTags(check, remote_tags))
  BY <1>1, HeardIsSame, WithTagsIsGood
<1>3. Good(after)
  BY <1>1, <1>2, AnswerIsGood DEF Answers
<1>4. Put(c, after) /\ UNCHANGED remote
  BY DEF AnswerTags
<1> HIDE DEF after
<1>5. ChecksGood'
  BY <1>3, <1>4, PutKeeps
<1>6. CachesReal'
  BY DEF ProvenanceInv, AnswerTags, Answers, CachesReal, remote
<1>7. QED  BY <1>5, <1>6 DEF ProvenanceInv, ChecksGood

\* The candidate that a busy check is at.
LEMMA RefIsOwn ==
    ASSUME NEW check, Open(check)
    PROVE  /\ check.details \in CheckedReleases /\ check.ref \in {1, 2}
           /\ RefOf(check) = CandidateRefs(check.details.version)[check.ref]
           /\ RefOf(check) \in AllRefs
<1>1. check.details \in CheckedReleases /\ check.ref \in {1, 2}
  BY DEF Open, Good, Consistent, CheckType
<1>2. QED  BY <1>1, CandidateIsOwn DEF RefOf

LEMMA ReleaseFromCacheKeeps ==
    ASSUME ProvenanceInv, NEW c \in Checkers, ReleaseFromCache(c)
    PROVE  ProvenanceInv'
<1>1. Open(checks[c])
  BY BusyIsOpen DEF ReleaseFromCache
<1> DEFINE check == checks[c]
           known == release_cache[RefOf(check)]
<1>2. known = "found" => Good(Done(check, Matched("release", RefOf(check))))
  BY <1>1, RefIsOwn, MatchIsGood DEF ProvenanceInv, CachesReal
<1>3. Good(NextRef(check))
  BY <1>1, NextIsGood
<1>4. \E after : Good(after) /\ Put(c, after)
  BY <1>2, <1>3 DEF ReleaseFromCache, ReleaseKey
<1>5. ChecksGood'
  BY <1>4, PutKeeps DEF ReleaseFromCache
<1>6. CachesReal'
  BY DEF ProvenanceInv, ReleaseFromCache, CachesReal, remote, caches
<1>7. QED  BY <1>5, <1>6 DEF ProvenanceInv, ChecksGood

LEMMA AnswerReleaseKeeps ==
    ASSUME ProvenanceInv, NEW c \in Checkers, NEW answer \in Answers, AnswerRelease(c, answer)
    PROVE  ProvenanceInv'
<1>1. Open(checks[c])
  BY BusyIsOpen DEF AnswerRelease
<1> DEFINE check == Heard(checks[c], answer)
           after == ReleaseVerdict(check, answer)
<1>2. answer = "found" => Good(Done(check, Matched("release", RefOf(check))))
  BY <1>1, HeardIsSame, RefIsOwn, MatchIsGood DEF AnswerRelease
<1>3. Good(after)
  BY <1>1, <1>2, AnswerIsGood DEF Answers, ReleaseVerdict
<1>4. Put(c, after) /\ UNCHANGED remote
  BY DEF AnswerRelease
<1> HIDE DEF after
<1>5. ChecksGood'
  BY <1>3, <1>4, PutKeeps
<1>6. CachesReal'
  <2>1. RefOf(checks[c]) \in AllRefs
    BY <1>1, RefIsOwn
  <2>2. CASE answer \in {"found", "missing"}
    <3>1. release_cache' = [release_cache EXCEPT ![RefOf(checks[c])] = answer]
      BY <2>2 DEF AnswerRelease, ReleaseKey
    <3>2. answer = "found" => RefOf(checks[c]) \in remote_releases
      BY DEF AnswerRelease
    <3>3. QED
      BY ZenonT(60), <2>1, <2>2, <3>1, <3>2 DEF ProvenanceInv, AnswerRelease, CachesReal, remote
  <2>3. CASE answer \notin {"found", "missing"}
    BY <2>3 DEF ProvenanceInv, AnswerRelease, CachesReal, remote
  <2>4. QED  BY <2>2, <2>3
<1>7. QED  BY <1>5, <1>6 DEF ProvenanceInv, ChecksGood

LEMMA GitlabFromCacheKeeps ==
    ASSUME ProvenanceInv, NEW c \in Checkers, GitlabFromCache(c)
    PROVE  ProvenanceInv'
<1>1. Open(checks[c])
  BY BusyIsOpen DEF GitlabFromCache
<1> DEFINE check == checks[c]
           known == gitlab_cache[RefOf(check)]
<1>2. known \in {"tag", "release"} => Good(Done(check, Matched(known, RefOf(check))))
  BY <1>1, RefIsOwn, MatchIsGood DEF ProvenanceInv, CachesReal
<1>3. /\ Good(NextRef(check))
      /\ \A why \in {"refused", "error"} : Good(Done(Heard(check, why), Unknown(why)))
  BY <1>1, NextIsGood, AnswerIsGood DEF Answers
<1>4. known \in {"tag", "release", "missing", "refused", "error"}
  BY <1>1, RefIsOwn DEF GitlabFromCache, ProvenanceInv, CachesReal
<1>5. \E after : Good(after) /\ Put(c, after)
  <2>1. CASE known = "missing"
    BY <1>3, <2>1 DEF GitlabFromCache
  <2>2. CASE known \in {"refused", "error"}
    BY <1>3, <2>2 DEF GitlabFromCache
  <2>3. CASE known \in {"tag", "release"}
    <3>1. Put(c, Done(check, Matched(known, RefOf(check))))
      BY <2>3 DEF GitlabFromCache
    <3>2. QED  BY <1>2, <2>3, <3>1
  <2>4. QED  BY <1>4, <2>1, <2>2, <2>3
<1>6. ChecksGood'
  BY <1>5, PutKeeps DEF GitlabFromCache
<1>7. CachesReal'
  BY DEF ProvenanceInv, GitlabFromCache, CachesReal, remote, caches
<1>8. QED  BY <1>6, <1>7 DEF ProvenanceInv, ChecksGood

LEMMA AnswerGitlabKeeps ==
    ASSUME ProvenanceInv, NEW c \in Checkers, NEW answer \in Answers, AnswerGitlab(c, answer)
    PROVE  ProvenanceInv'
<1>1. Open(checks[c])
  BY BusyIsOpen DEF AnswerGitlab
<1> DEFINE ref   == RefOf(checks[c])
           kind  == IF ref \in remote_releases THEN "release" ELSE "tag"
           told  == CASE answer = "found"   -> kind
                      [] OTHER              -> answer
           after == CASE answer = "found"   -> Done(checks[c], Matched(kind, ref))
                      [] answer = "missing" -> NextRef(checks[c])
                      [] answer = "broken"  -> Done(checks[c], NoVerdict)
                      [] OTHER              -> Done(Heard(checks[c], answer), Unknown(answer))
<1>2. /\ kind \in {"tag", "release"}
      /\ kind = "release" => ref \in remote_releases
      /\ answer = "found" /\ kind = "tag" => ref \in remote_tags
      /\ ref \in AllRefs
  BY <1>1, RefIsOwn DEF AnswerGitlab
<1>3. answer = "found" => Good(Done(checks[c], Matched(kind, ref)))
  BY <1>1, <1>2, RefIsOwn, MatchIsGood
<1>4. Good(after)
  <2>1. answer # "refused" => Heard(checks[c], answer) = checks[c]
    BY <1>1, HeardIsSame
  <2>2. QED  BY <1>1, <1>3, <2>1, AnswerIsGood DEF Answers
<1>5. Put(c, after) /\ UNCHANGED remote
  BY DEF AnswerGitlab
<1>6. gitlab_cache' = IF answer = "broken" THEN gitlab_cache
                      ELSE [gitlab_cache EXCEPT ![ref] = told]
  BY DEF AnswerGitlab
<1>7. /\ answer # "broken" => told \in {"tag", "release", "missing", "refused", "error"}
      /\ told = "tag" => ref \in remote_tags
      /\ told = "release" => ref \in remote_releases
  BY <1>2 DEF Answers
<1> HIDE DEF after, told, kind, ref
<1>8. ChecksGood'
  BY <1>4, <1>5, PutKeeps
<1>9. CachesReal'
  BY <1>2, <1>6, <1>7 DEF ProvenanceInv, AnswerGitlab, CachesReal, remote
<1>10. QED  BY <1>8, <1>9 DEF ProvenanceInv, ChecksGood

LEMMA AnswerCommitKeeps ==
    ASSUME ProvenanceInv, NEW c \in Checkers, NEW answer \in Answers, AnswerCommit(c, answer)
    PROVE  ProvenanceInv'
<1>1. Open(checks[c])
  BY BusyIsOpen DEF AnswerCommit
<1> DEFINE check == Heard(checks[c], answer)
           none  == IF check.pc = "only_commit" THEN NoVerdict ELSE Mismatch
           after == CASE answer = "found"   -> Done(check, [kind |-> "commit"])
                      [] answer = "missing" -> Done(check, none)
                      [] answer = "broken"  -> Done(check, NoVerdict)
                      [] OTHER              -> Done(check, Unknown(answer))
<1>2. Good(after)
  BY <1>1, AnswerIsGood DEF Answers
<1>3. Put(c, after) /\ UNCHANGED remote
  BY DEF AnswerCommit
<1> HIDE DEF after
<1>4. ChecksGood'
  BY <1>2, <1>3, PutKeeps
<1>5. CachesReal'
  BY DEF ProvenanceInv, AnswerCommit, CachesReal, remote, caches
<1>6. QED  BY <1>4, <1>5 DEF ProvenanceInv, ChecksGood

\* An entry that is dropped said nothing that the invariant needs.
LEMMA EvictKeeps == ASSUME ProvenanceInv, Evict PROVE ProvenanceInv'
<1>1. CachesReal'
  BY DEF ProvenanceInv, Evict, CachesReal, remote
<1>2. ASSUME NEW c \in Checkers PROVE Good(checks[c])'
  BY DEF ProvenanceInv, Evict, Good, Consistent, Real, remote
<1>3. checks' \in [Checkers -> CheckType]
  BY DEF ProvenanceInv, Evict
<1>4. QED  BY <1>1, <1>2, <1>3 DEF ProvenanceInv

LEMMA ProvenanceStep == ProvenanceInv /\ [ProvenanceNext]_provenanceVars => ProvenanceInv'
<1> SUFFICES ASSUME ProvenanceInv, [ProvenanceNext]_provenanceVars
             PROVE  ProvenanceInv'
  OBVIOUS
<1>1. ASSUME NEW c \in Checkers, NEW d \in CheckedReleases, BeginRelease(c, d) \/ BeginCommit(c, d)
      PROVE  ProvenanceInv'
  BY <1>1, BeginReleaseKeeps, BeginCommitKeeps
<1>2. ASSUME NEW c \in Checkers, NEW a \in Answers,
             AnswerTags(c, a) \/ AnswerRelease(c, a) \/ AnswerGitlab(c, a) \/ AnswerCommit(c, a)
      PROVE  ProvenanceInv'
  BY <1>2, AnswerTagsKeeps, AnswerReleaseKeeps, AnswerGitlabKeeps, AnswerCommitKeeps
<1>3. ASSUME NEW c \in Checkers, ReleaseFromCache(c) \/ GitlabFromCache(c)
      PROVE  ProvenanceInv'
  BY <1>3, ReleaseFromCacheKeeps, GitlabFromCacheKeeps
<1>4. ASSUME NEW r \in Pushed, PushTag(r) \/ PublishRelease(r)
      PROVE  ProvenanceInv'
  BY <1>4, GrowthKeeps DEF PushTag, PublishRelease
<1>5. CASE BackoffEnds
  BY <1>5, GrowthKeeps DEF BackoffEnds, remote
<1>6. CASE Evict
  BY <1>6, EvictKeeps
<1>7. CASE UNCHANGED provenanceVars
  BY <1>7, GrowthKeeps DEF provenanceVars, caches
<1>8. QED  BY <1>1, <1>2, <1>3, <1>4, <1>5, <1>6, <1>7 DEF ProvenanceNext

LEMMA ProvenanceAlways == ProvenanceSpec => []ProvenanceInv
BY ProvenanceInitial, ProvenanceStep, PTL DEF ProvenanceSpec

-----------------------------------------------------------------------------

\* For any releases, any repository and any interleaving of checks: a release is
\* only said to match a tag or a release of its own version that is there, though
\* the answer may come out of a cache that another check has filled
\* (check_release_provenance and the caches of repo_provenance.rs).
THEOREM MatchesAreReal == ProvenanceSpec => []MatchIsReal
<1>1. ProvenanceInv => MatchIsReal
  BY DEF ProvenanceInv, MatchIsReal, Finished, Good, Real
<1>2. QED  BY <1>1, ProvenanceAlways, PTL

\* A host that refuses to answer leaves the question open: no check that was
\* refused, or that a cached refusal of GitLab answered, ends in a mismatch, and
\* on GitHub only one that was refused, or that met the backoff, says so
\* (check_release_provenance; RefusalIsUnknown).
THEOREM RefusalsAreUnknown == ProvenanceSpec => []RefusalIsUnknown
<1>1. ProvenanceInv => RefusalIsUnknown
  BY DEF ProvenanceInv, RefusalIsUnknown, Finished, Good, Consistent
<1>2. QED  BY <1>1, ProvenanceAlways, PTL

-----------------------------------------------------------------------------
(* PackageCensus.                                                          *)

\* A set of ticks that is not empty has a latest one.
LEMMA LatestTick ==
    ASSUME NEW S \in SUBSET Ticks, S # {}
    PROVE  \E t \in S : \A u \in S : u <= t
<1> DEFINE T == {LastTick - t : t \in S}
<1>0. \A t \in S : LastTick - t \in Nat
  BY CensusAssumption DEF CensusAssumption, Ticks
<1>1. T \subseteq Nat /\ T # {}
  BY <1>0
<1> DEFINE R == OpToRel(<, Nat)
<1>2. IsWellFoundedOn(R, Nat)
  BY NatLessThanWellFounded
<1>3. \E x \in T : \A y \in T : ~(<<y, x>> \in R)
  <2> HIDE DEF T, R
  <2>1. QED  BY <1>1, <1>2, WFMin
<1>4. PICK t \in S : \A u \in S : ~(<<LastTick - u, LastTick - t>> \in R)
  BY <1>3
<1>5. \A u \in S : <<LastTick - u, LastTick - t>> \in Nat \X Nat
  BY <1>0
<1>6. \A u \in S : ~(LastTick - u < LastTick - t)
  BY <1>4, <1>5 DEF OpToRel
<1>7. \A u \in S : u <= t
  BY <1>6, CensusAssumption DEF CensusAssumption, Ticks
<1>8. QED  BY <1>7

-----------------------------------------------------------------------------
(* The invariant.                                                          *)

Copies == [modified_at : Nat, packages : SUBSET Listed, checked_at : Nat, verified : Nat]

Lookups ==
    [pc : {"idle"}] \cup [pc : {"compare", "read"}, modified_at : Nat, began : Nat]
    \cup [pc : {"install"}, modified_at : Nat, began : Nat, packages : SUBSET Listed]

CensusTypes ==
    /\ census_clock \in Ticks
    /\ listed_since \in [Listed -> Nat]
    /\ \A p \in InFile : listed_since[p] <= census_clock
    /\ census_copy \in {NoCopy} \cup Copies
    /\ lookups \in [Inquirers -> Lookups]

\* What the copy misses came no earlier than the modification time it knows.
CopyComplete ==
    census_copy # NoCopy =>
        /\ census_copy.modified_at <= census_clock /\ census_copy.verified <= census_clock
        /\ \A p \in InFile \ census_copy.packages :
               /\ listed_since[p] >= census_copy.modified_at
               /\ \/ listed_since[p] = census_copy.modified_at
                  \/ listed_since[p] >= census_copy.verified

\* A stat, as it was taken, shows the last append before it; what was read after
\* it has all of them.
LookupTold(i) ==
    /\ lookups[i].pc # "idle" =>
           /\ lookups[i].modified_at <= lookups[i].began
           /\ lookups[i].began <= census_clock
           /\ \A p \in InFile :
                  listed_since[p] < lookups[i].began => listed_since[p] <= lookups[i].modified_at
    /\ lookups[i].pc = "install" =>
           \A p \in InFile \ lookups[i].packages : listed_since[p] >= lookups[i].began

CensusInv == CensusTypes /\ CopyComplete /\ \A i \in Inquirers : LookupTold(i)

-----------------------------------------------------------------------------

\* The modification time is that of the last append.
LEMMA ModifiedLast ==
    ASSUME CensusTypes
    PROVE  /\ ModifiedAt \in Nat /\ ModifiedAt <= census_clock
           /\ \A p \in InFile : listed_since[p] <= ModifiedAt
<1> DEFINE S == {listed_since[p] : p \in InFile}
<1>1. CASE InFile = {}
  BY <1>1, CensusAssumption DEF ModifiedAt, CensusTypes, CensusAssumption, Ticks
<1>2. CASE InFile # {}
  <2>1. S # {} /\ S \in SUBSET Ticks
    BY <1>2, CensusAssumption DEF CensusTypes, CensusAssumption, InFile, Ticks
  <2>2. \E t \in S : \A u \in S : u <= t
    BY <2>1, LatestTick
  <2>3. \E t \in S : \A q \in InFile : listed_since[q] <= t
    BY <2>2
  <2>4. ModifiedAt = CHOOSE t \in S : \A q \in InFile : listed_since[q] <= t
    BY <1>2 DEF ModifiedAt
  <2>5. ModifiedAt \in S /\ \A q \in InFile : listed_since[q] <= ModifiedAt
    BY <2>3, <2>4
  <2>6. QED  BY <2>5, CensusAssumption DEF CensusTypes, CensusAssumption, InFile, Ticks
<1>3. QED  BY <1>1, <1>2

LEMMA CensusInitial == CensusInit => CensusInv
<1> SUFFICES ASSUME CensusInit PROVE CensusInv
  OBVIOUS
<1> USE CensusAssumption DEF CensusAssumption, CensusInit
<1>1. InFile = {} /\ NotListed \in Nat
  BY DEF InFile, NotListed
<1>2. Idle \in Lookups /\ Idle.pc = "idle"
  BY DEF Idle, Lookups
<1>3. CensusTypes
  BY <1>1, <1>2 DEF CensusTypes, Ticks
<1>4. CopyComplete /\ \A i \in Inquirers : LookupTold(i)
  BY <1>1, <1>2 DEF CopyComplete, LookupTold
<1>5. QED  BY <1>3, <1>4 DEF CensusInv

LEMMA TickKeeps == ASSUME CensusInv, CensusTick PROVE CensusInv'
<1>1. /\ census_clock \in Nat /\ census_clock' = census_clock + 1 /\ census_clock' \in Ticks
      /\ UNCHANGED <<listed_since, census_copy, lookups>>
  BY CensusAssumption DEF CensusAssumption, CensusTick, CensusInv, CensusTypes, Ticks
<1>2. InFile' = InFile /\ \A p \in InFile : listed_since[p] \in Nat
  BY <1>1 DEF InFile, CensusInv, CensusTypes
<1>3. CensusTypes'
  BY <1>1, <1>2 DEF CensusInv, CensusTypes
<1>4. CopyComplete'
  <2>1. census_copy # NoCopy => census_copy.modified_at \in Nat /\ census_copy.verified \in Nat
    BY DEF CensusInv, CensusTypes, Copies
  <2>2. QED  BY <1>1, <1>2, <2>1 DEF CensusInv, CopyComplete
<1>5. ASSUME NEW i \in Inquirers PROVE LookupTold(i)'
  <2>1. lookups[i].pc # "idle" => lookups[i].began \in Nat
    BY DEF CensusInv, CensusTypes, Lookups
  <2>2. QED  BY <1>1, <1>2, <2>1 DEF CensusInv, LookupTold
<1>6. QED  BY <1>3, <1>4, <1>5 DEF CensusInv

\* What is appended now is later than every stat.
LEMMA ListKeeps == ASSUME CensusInv, NEW p \in Listed, ListPackage(p) PROVE CensusInv'
<1> USE CensusAssumption
<1>1. InFile' = InFile \cup {p} /\ p \notin InFile /\ listed_since'[p] = census_clock
      /\ \A q \in InFile : listed_since'[q] = listed_since[q]
  BY DEF CensusAssumption, ListPackage, CensusInv, CensusTypes, InFile, NotListed, Ticks
<1>2. CensusTypes'
  BY <1>1 DEF CensusAssumption, ListPackage, CensusInv, CensusTypes, Ticks
<1>3. CopyComplete'
  BY <1>1 DEF CensusAssumption, ListPackage, CensusInv, CensusTypes, CopyComplete, Copies, Ticks
<1>4. ASSUME NEW i \in Inquirers PROVE LookupTold(i)'
  BY <1>1 DEF CensusAssumption, ListPackage, CensusInv, CensusTypes, LookupTold, Lookups, Ticks
<1>5. QED  BY <1>2, <1>3, <1>4 DEF CensusInv

LEMMA LookUpKeeps == ASSUME CensusInv, NEW i \in Inquirers, LookUp(i) PROVE CensusInv'
<1> USE CensusAssumption
<1>1. ModifiedAt \in Nat /\ ModifiedAt <= census_clock /\ \A p \in InFile : listed_since[p] <= ModifiedAt
  BY ModifiedLast DEF CensusInv
<1> DEFINE stat == [pc |-> "compare", modified_at |-> ModifiedAt, began |-> census_clock]
<1>2. stat \in Lookups /\ Idle \in Lookups
  BY <1>1 DEF Lookups, Idle, CensusInv, CensusTypes, CensusAssumption, Ticks
<1>3. /\ stat.pc = "compare" /\ stat.modified_at = ModifiedAt /\ stat.began = census_clock
      /\ Idle.pc = "idle"
  BY DEF Idle
<1> HIDE DEF stat
<1>4. lookups' = [lookups EXCEPT ![i] = Idle] \/ lookups' = [lookups EXCEPT ![i] = stat]
  BY DEF LookUp, Answered, stat
<1>5. UNCHANGED <<census_clock, listed_since, census_copy>>
  BY DEF LookUp
<1>6. CensusTypes' /\ CopyComplete'
  BY <1>2, <1>4, <1>5 DEF CensusInv, CensusTypes, CopyComplete, InFile
<1>7. ASSUME NEW j \in Inquirers PROVE LookupTold(j)'
  <2>1. CASE j = i
    BY <1>1, <1>3, <1>4, <1>5, <2>1 DEF CensusInv, CensusTypes, LookupTold, InFile, Ticks, CensusAssumption
  <2>2. CASE j # i
    BY <1>4, <1>5, <2>2 DEF CensusInv, CensusTypes, LookupTold, InFile
  <2>3. QED  BY <2>1, <2>2
<1>8. QED  BY <1>6, <1>7 DEF CensusInv

\* A lookup that ends, or goes on to read, keeps what it told and the others too.
LEMMA LookupsKept ==
    ASSUME CensusInv, NEW i \in Inquirers, UNCHANGED <<census_clock, listed_since>>,
           \/ lookups' = [lookups EXCEPT ![i] = Idle]
           \/ lookups[i].pc = "compare" /\ lookups' = [lookups EXCEPT ![i].pc = "read"]
    PROVE  lookups' \in [Inquirers -> Lookups] /\ \A j \in Inquirers : LookupTold(j)'
<1>1. Idle \in Lookups /\ Idle.pc = "idle"
  BY DEF Idle, Lookups
<1>2. CASE lookups' = [lookups EXCEPT ![i] = Idle]
  BY <1>1, <1>2 DEF CensusInv, CensusTypes, LookupTold, InFile
<1>3. CASE lookups[i].pc = "compare" /\ lookups' = [lookups EXCEPT ![i].pc = "read"]
  <2>1. lookups[i] \in [pc : {"compare", "read"}, modified_at : Nat, began : Nat]
    BY <1>3 DEF CensusInv, CensusTypes, Lookups
  <2>2. lookups'[i] \in Lookups /\ lookups'[i].pc = "read"
        /\ lookups'[i].modified_at = lookups[i].modified_at /\ lookups'[i].began = lookups[i].began
    BY <1>3, <2>1 DEF CensusInv, CensusTypes, Lookups
  <2>3. \A j \in Inquirers : j # i => lookups'[j] = lookups[j]
    BY <1>3 DEF CensusInv, CensusTypes
  <2>4. lookups' \in [Inquirers -> Lookups]
    BY <1>3, <2>2, <2>3 DEF CensusInv, CensusTypes
  <2>5. ASSUME NEW j \in Inquirers PROVE LookupTold(j)'
    BY <1>3, <2>2, <2>3 DEF CensusInv, CensusTypes, LookupTold, InFile
  <2>6. QED  BY <2>4, <2>5
<1>4. QED  BY <1>2, <1>3

\* The stat's modification time is the copy's: what the copy misses came in that
\* tick, or after the stat.
LEMMA CompareKeeps == ASSUME CensusInv, NEW i \in Inquirers, Compare(i) PROVE CensusInv'
<1> USE CensusAssumption
<1>1. UNCHANGED <<census_clock, listed_since>>
  BY DEF Compare
<1>2. lookups' \in [Inquirers -> Lookups] /\ \A j \in Inquirers : LookupTold(j)'
  BY <1>1, LookupsKept DEF Compare, Answered
<1>3. lookups[i] \in [pc : {"compare", "read"}, modified_at : Nat, began : Nat]
  BY DEF Compare, CensusInv, CensusTypes, Lookups
<1>4. CASE census_copy # NoCopy /\ census_copy.modified_at = lookups[i].modified_at
  <2>1. census_copy \in Copies
    BY <1>4 DEF CensusInv, CensusTypes
  <2>2. census_copy' = [census_copy EXCEPT !.checked_at = census_clock, !.verified = lookups[i].began]
    BY <1>4 DEF Compare
  <2>3. /\ census_copy' \in Copies
        /\ census_copy'.modified_at = census_copy.modified_at
        /\ census_copy'.packages = census_copy.packages
        /\ census_copy'.verified = lookups[i].began
    <3>1. census_clock \in Nat /\ lookups[i].began \in Nat
      BY <1>3 DEF CensusInv, CensusTypes, Ticks, CensusAssumption
    <3>2. QED  BY <2>1, <2>2, <3>1 DEF Copies
  <2>4. CensusTypes'
    BY <1>1, <1>2, <2>3 DEF CensusInv, CensusTypes, InFile
  <2>5. lookups[i].began <= census_clock
        /\ \A p \in InFile : listed_since[p] < lookups[i].began => listed_since[p] <= census_copy.modified_at
    BY <1>4, <1>3 DEF Compare, CensusInv, LookupTold
  <2>6. /\ census_copy.modified_at <= census_clock /\ census_copy.modified_at \in Nat
        /\ \A p \in InFile \ census_copy.packages : listed_since[p] >= census_copy.modified_at
    BY <1>4, <2>1 DEF CensusInv, CopyComplete, Copies
  <2>7. \A p \in InFile : listed_since[p] \in Nat
    BY DEF CensusInv, CensusTypes, InFile
  <2>8. CopyComplete'
    BY <1>1, <1>3, <2>3, <2>5, <2>6, <2>7 DEF CopyComplete, InFile
  <2>9. QED  BY <1>2, <2>4, <2>8 DEF CensusInv
<1>5. CASE ~(census_copy # NoCopy /\ census_copy.modified_at = lookups[i].modified_at)
  <2>1. census_copy' = census_copy
    BY <1>5 DEF Compare
  <2>2. QED  BY <1>1, <1>2, <2>1 DEF CensusInv, CensusTypes, CopyComplete, InFile
<1>6. QED  BY <1>4, <1>5

\* What is read has everything that was in the file at the stat.
LEMMA ReadKeeps == ASSUME CensusInv, NEW i \in Inquirers, ReadFile(i) PROVE CensusInv'
<1>1. UNCHANGED <<census_clock, listed_since, census_copy>>
  BY DEF ReadFile
<1>2. CASE lookups' = [lookups EXCEPT ![i] = Idle]
  BY <1>1, <1>2, LookupsKept DEF CensusInv, CensusTypes, CopyComplete, InFile
<1>3. CASE lookups' = [lookups EXCEPT ![i] = [pc |-> "install", modified_at |-> @.modified_at,
                                              began |-> @.began, packages |-> InFile]]
  <2>1. lookups[i] \in [pc : {"compare", "read"}, modified_at : Nat, began : Nat]
    BY DEF ReadFile, CensusInv, CensusTypes, Lookups
  <2>2. InFile \in SUBSET Listed
    BY DEF InFile
  <2>3. /\ lookups'[i] \in Lookups /\ lookups'[i].pc = "install" /\ lookups'[i].packages = InFile
        /\ lookups'[i].modified_at = lookups[i].modified_at /\ lookups'[i].began = lookups[i].began
    BY <1>3, <2>1, <2>2 DEF CensusInv, CensusTypes, Lookups
  <2>4. \A j \in Inquirers : j # i => lookups'[j] = lookups[j]
    BY <1>3 DEF CensusInv, CensusTypes
  <2>5. lookups' \in [Inquirers -> Lookups]
    BY <1>3, <2>3, <2>4 DEF CensusInv, CensusTypes
  <2>6. ASSUME NEW j \in Inquirers PROVE LookupTold(j)'
    BY <1>1, <2>1, <2>3, <2>4 DEF ReadFile, CensusInv, CensusTypes, LookupTold, InFile
  <2>7. QED  BY <1>1, <2>5, <2>6 DEF CensusInv, CensusTypes, CopyComplete, InFile
<1>4. QED  BY <1>2, <1>3 DEF ReadFile, Answered

LEMMA InstallKeeps == ASSUME CensusInv, NEW i \in Inquirers, InstallCopy(i) PROVE CensusInv'
<1> USE CensusAssumption
<1>1. UNCHANGED <<census_clock, listed_since>> /\ lookups[i].pc = "install"
  BY DEF InstallCopy
<1>2. lookups' \in [Inquirers -> Lookups] /\ \A j \in Inquirers : LookupTold(j)'
  BY <1>1, LookupsKept DEF InstallCopy, Answered
<1>3. lookups[i] \in [pc : {"install"}, modified_at : Nat, began : Nat, packages : SUBSET Listed]
  BY <1>1 DEF CensusInv, CensusTypes, Lookups
<1>4. /\ census_copy' \in Copies
      /\ census_copy'.modified_at = lookups[i].modified_at
      /\ census_copy'.packages = lookups[i].packages
      /\ census_copy'.verified = lookups[i].began
  BY <1>3 DEF InstallCopy, Copies, CensusInv, CensusTypes, Ticks, CensusAssumption
<1>5. CensusTypes'
  BY <1>1, <1>2, <1>4 DEF CensusInv, CensusTypes, InFile
<1>6. /\ lookups[i].modified_at <= lookups[i].began /\ lookups[i].began <= census_clock
      /\ \A p \in InFile \ lookups[i].packages : listed_since[p] >= lookups[i].began
  BY <1>1, <1>3 DEF CensusInv, LookupTold
<1>7. \A p \in InFile : listed_since[p] \in Nat
  BY DEF CensusInv, CensusTypes, InFile
<1>8. census_clock \in Nat
  BY DEF CensusInv, CensusTypes, Ticks, CensusAssumption
<1>9. CopyComplete'
  BY <1>1, <1>3, <1>4, <1>6, <1>7, <1>8 DEF CopyComplete, InFile
<1>10. QED  BY <1>2, <1>5, <1>9 DEF CensusInv

LEMMA RememberKeeps ==
    ASSUME CensusInv, NEW packages \in SUBSET Listed, RememberPackages(packages)
    PROVE  CensusInv'
<1>1. census_copy \in Copies /\ UNCHANGED <<census_clock, listed_since, lookups>>
  BY DEF RememberPackages, CensusInv, CensusTypes
<1>2. /\ census_copy' \in Copies
      /\ census_copy'.modified_at = census_copy.modified_at
      /\ census_copy'.packages = census_copy.packages \cup packages
      /\ census_copy'.verified = census_copy.verified
  <2>1. census_clock \in Nat
    BY CensusAssumption DEF CensusInv, CensusTypes, Ticks, CensusAssumption
  <2>2. census_copy.packages \cup packages \in SUBSET Listed
    BY <1>1 DEF Copies
  <2>3. census_copy' = [census_copy EXCEPT !.packages = census_copy.packages \cup packages,
                                           !.checked_at = census_clock]
    BY DEF RememberPackages
  <2>4. QED  BY <1>1, <2>1, <2>2, <2>3 DEF Copies
<1>3. CensusTypes' /\ \A j \in Inquirers : LookupTold(j)'
  BY <1>1, <1>2 DEF CensusInv, CensusTypes, LookupTold, InFile
<1>4. CopyComplete'
  BY <1>1, <1>2 DEF RememberPackages, CensusInv, CopyComplete, InFile
<1>5. QED  BY <1>3, <1>4 DEF CensusInv

LEMMA CensusStep == CensusInv /\ [CensusNext]_censusVars => CensusInv'
<1> SUFFICES ASSUME CensusInv, [CensusNext]_censusVars
             PROVE  CensusInv'
  OBVIOUS
<1>1. CASE CensusTick
  BY <1>1, TickKeeps
<1>2. ASSUME NEW p \in Listed, ListPackage(p) PROVE CensusInv'
  BY <1>2, ListKeeps
<1>3. ASSUME NEW p \in Listed, RememberPackages({p}) PROVE CensusInv'
  BY <1>3, RememberKeeps
<1>4. ASSUME NEW i \in Inquirers, LookUp(i) \/ Compare(i) \/ ReadFile(i) \/ InstallCopy(i)
      PROVE  CensusInv'
  BY <1>4, LookUpKeeps, CompareKeeps, ReadKeeps, InstallKeeps
<1>5. CASE UNCHANGED censusVars
  BY <1>5 DEF censusVars, CensusInv, CensusTypes, CopyComplete, LookupTold, InFile
<1>6. QED  BY <1>1, <1>2, <1>3, <1>4, <1>5 DEF CensusNext

-----------------------------------------------------------------------------

\* PackageCensus::contains, with any number of lookups that overlap and any
\* interval: while the copy in memory answers by itself, it knows all that was
\* in the file at the stat it was last compared with, but for what was appended
\* in the very tick of its modification time.
THEOREM MissesAreRecent == CensusSpec => []MissIsRecent
<1>1. CensusInv => MissIsRecent
  <2>1. SUFFICES ASSUME CensusInv, Fresh, NEW p \in InFile \ census_copy.packages,
                        listed_since[p] # census_copy.modified_at
                 PROVE  /\ listed_since[p] >= census_copy.verified
                        /\ census_clock - listed_since[p]
                               < RefreshInterval + (census_copy.checked_at - census_copy.verified)
    BY DEF MissIsRecent
  <2>2. /\ census_copy \in Copies /\ census_clock \in Nat /\ listed_since[p] \in Nat
        /\ census_clock - census_copy.checked_at < RefreshInterval
    BY <2>1, CensusAssumption DEF Fresh, CensusInv, CensusTypes, InFile, Ticks, CensusAssumption
  <2>3. listed_since[p] >= census_copy.verified
    BY <2>1 DEF CensusInv, CopyComplete, Fresh
  <2>4. census_copy.checked_at \in Nat /\ census_copy.verified \in Nat /\ RefreshInterval \in Nat
    BY <2>2, CensusAssumption DEF Copies, CensusAssumption
  <2>5. QED  BY <2>2, <2>3, <2>4
<1>2. QED  BY <1>1, CensusInitial, CensusStep, PTL DEF CensusSpec

-----------------------------------------------------------------------------
(* BoundedMap: the capacity.                                               *)

Generations == [Keys -> Nat]

MaxLen == IF Capacity = 1 THEN 2 ELSE Capacity

\* The inductive invariant.
MapInv ==
    /\ TypeOK
    /\ IsFiniteSet(Present(generation))
    /\ AtMostOneOrphan
    /\ LenBounded
    /\ OrderBounded

-----------------------------------------------------------------------------
\* The constants: what `new` and the compaction threshold give.
LEMMA MapConstants ==
    /\ Capacity \in Nat \ {0}
    /\ MaxOrderLen \in Nat
    /\ MaxLen <= MaxOrderLen
<1>1. Capacity \in Nat \ {0}
    BY BoundsAssumption DEF Capacity
<1>2. Capacity * CompactFactor \in Nat /\ Capacity * CompactFactor >= Capacity
    BY <1>1, BoundsAssumption
<1> QED
    BY <1>1, <1>2, BoundsAssumption DEF MaxOrderLen, MaxLen

\* Present keys after a key was used, and after one was taken out.
LEMMA PresentAfterUse ==
    ASSUME NEW gen \in Generations, NEW k \in Keys, NEW n \in Nat \ {0}
    PROVE  Present([gen EXCEPT ![k] = n]) = Present(gen) \cup {k}
BY DEF Present, Generations

LEMMA PresentAfterRemoval ==
    ASSUME NEW gen \in Generations, NEW k \in Keys
    PROVE  Present([gen EXCEPT ![k] = 0]) = Present(gen) \ {k}
BY DEF Present, Generations

\* A rebuilt queue is a queue, holds one pair for each entry and no other.
LEMMA SortedQueue ==
    ASSUME NEW gen \in Generations, IsFiniteSet(Present(gen)),
           NEW s \in SortedQueues(gen)
    PROVE  /\ s \in Seq(Pairs)
           /\ Len(s) = Cardinality(Present(gen))
           /\ \A k \in Present(gen) : \E i \in DOMAIN s : s[i] = Pair(k, gen[k])
<1>1. Cardinality(Present(gen)) \in Nat
    BY FS_CardinalityType
<1>2. LivePairs(gen) \subseteq Pairs
    BY DEF LivePairs, Present, Pair, Pairs, Generations
<1>3. s \in [1..Cardinality(Present(gen)) -> LivePairs(gen)]
      /\ {s[i] : i \in DOMAIN s} = LivePairs(gen)
    BY DEF SortedQueues
<1>4. s \in [1..Cardinality(Present(gen)) -> Pairs]
    BY <1>2, <1>3
<1>5. s \in Seq(Pairs) /\ Len(s) = Cardinality(Present(gen))
    BY <1>1, <1>4
<1>6. ASSUME NEW k \in Present(gen)
      PROVE  \E i \in DOMAIN s : s[i] = Pair(k, gen[k])
    BY <1>3 DEF LivePairs
<1> QED
    BY <1>5, <1>6

\* Compaction loses the pair of no entry of the map it reads.
LEMMA CompactionKeepsEntries ==
    ASSUME NEW gen \in Generations, IsFiniteSet(Present(gen)),
           NEW queue \in Seq(Pairs), NEW q \in CompactOrderIfNeeded(gen, queue)
    PROVE  /\ q \in Seq(Pairs)
           /\ q = queue \/ OrphansOf(gen, q) = {}
<1>1. CASE q = queue
    BY <1>1
<1>2. CASE q \in SortedQueues(gen)
    BY <1>2, SortedQueue DEF OrphansOf
<1> QED
    BY <1>1, <1>2 DEF CompactOrderIfNeeded

\* A use of k leaves every other entry as reachable as it was or, after a
\* compaction, reachable.
LEMMA UseOrphans ==
    ASSUME NEW gen \in Generations, IsFiniteSet(Present(gen)),
           NEW queue \in Seq(Pairs), NEW k \in Keys, NEW n \in Nat \ {0},
           \A a, b \in OrphansOf(gen, queue) : a = b,
           NEW q \in CompactOrderIfNeeded(gen, Append(queue, Pair(k, n)))
    PROVE  /\ q \in Seq(Pairs)
           /\ \A a, b \in OrphansOf([gen EXCEPT ![k] = n], q) : a = b
<1> DEFINE gen2 == [gen EXCEPT ![k] = n]
           pushed == Append(queue, Pair(k, n))
<1>1. pushed \in Seq(Pairs) /\ Len(pushed) = Len(queue) + 1
      /\ pushed[Len(queue) + 1] = Pair(k, n)
      /\ \A i \in 1..Len(queue) : pushed[i] = queue[i]
    BY DEF Pair, Pairs
<1>2. q \in Seq(Pairs) /\ (q = pushed \/ OrphansOf(gen, q) = {})
    BY <1>1, CompactionKeepsEntries
<1>3. Present(gen2) = Present(gen) \cup {k}
    BY PresentAfterUse
<1>4. gen2[k] = n /\ \A a \in Keys \ {k} : gen2[a] = gen[a]
    BY DEF Generations
<1>5. CASE q = pushed
  <2>1. OrphansOf(gen2, pushed) \subseteq OrphansOf(gen, queue)
    <3> SUFFICES ASSUME NEW a \in OrphansOf(gen2, pushed)
                 PROVE  a \in OrphansOf(gen, queue)
        OBVIOUS
    <3>1. a # k
        BY <1>1, <1>4 DEF OrphansOf
    <3>2. a \in Present(gen) /\ gen2[a] = gen[a]
        BY <3>1, <1>3, <1>4 DEF OrphansOf, Present
    <3>3. \A i \in 1..Len(queue) : queue[i] # Pair(a, gen[a])
        BY <3>2, <1>1 DEF OrphansOf
    <3> QED
        BY <3>2, <3>3 DEF OrphansOf
  <2> QED
    BY <2>1, <1>2, <1>5
<1>6. CASE OrphansOf(gen, q) = {}
  <2>1. OrphansOf(gen2, q) \subseteq {k}
    BY <1>3, <1>4, <1>6 DEF OrphansOf, Present
  <2> QED
    BY <2>1, <1>2
<1> QED
    BY <1>2, <1>5, <1>6

\* Making room never hides an entry; it leaves a place for one more entry
\* because an eviction finds no victim only when every entry is an orphan.
LEMMA Room ==
    ASSUME NEW gen \in Generations, IsFiniteSet(Present(gen)),
           NEW queue \in Seq(Pairs), Cardinality(Present(gen)) <= MaxLen,
           \A a, b \in OrphansOf(gen, queue) : a = b,
           NEW room \in MakeRoom(gen, queue)
    PROVE  /\ room.generation \in Generations
           /\ room.order \in Seq(Pairs)
           /\ Present(room.generation) \subseteq Present(gen)
           /\ IsFiniteSet(Present(room.generation))
           /\ Cardinality(Present(room.generation)) + 1 <= MaxLen
           /\ \A a, b \in OrphansOf(room.generation, room.order) : a = b
<1>0. Capacity \in Nat \ {0} /\ Cardinality(Present(gen)) \in Nat
    BY MapConstants, FS_CardinalityType
<1>1. CASE Cardinality(Present(gen)) < Capacity
  <2>1. room = [generation |-> gen, order |-> queue]
    BY <1>0, <1>1 DEF MakeRoom
  <2> QED
    BY <1>0, <1>1, <2>1 DEF MaxLen
<1>2. CASE Cardinality(Present(gen)) >= Capacity /\ LiveIndices(gen, queue) = {}
  <2>1. room = [generation |-> gen, order |-> <<>>]
    BY <1>2 DEF MakeRoom, EvictOldest
  <2>2. \A a \in Present(gen) : a \in OrphansOf(gen, queue)
    BY <1>2 DEF LiveIndices, OrphansOf, Pair
  <2>3. \A a, b \in Present(gen) : a = b
    BY <2>2
  <2>4. Cardinality(Present(gen)) <= 1
    <3>1. CASE Present(gen) = {}
        BY <3>1, FS_EmptySet
    <3>2. CASE Present(gen) # {}
      <4>1. PICK a \in Present(gen) : Present(gen) = {a}
        BY <3>2, <2>3
      <4> QED
        BY <4>1, FS_Singleton
    <3> QED
        BY <3>1, <3>2
  <2>5. Capacity = 1
    BY <1>0, <1>2, <2>4
  <2>6. <<>> \in Seq(Pairs) /\ OrphansOf(gen, <<>>) \subseteq Present(gen)
    BY DEF OrphansOf
  <2> QED
    BY <1>0, <2>1, <2>3, <2>4, <2>5, <2>6 DEF MaxLen
<1>3. CASE Cardinality(Present(gen)) >= Capacity /\ LiveIndices(gen, queue) # {}
  <2>1. PICK i \in OldestLive(gen, queue) :
            room = [generation |-> [gen EXCEPT ![queue[i].key] = 0],
                    order |-> SubSeq(queue, i + 1, Len(queue))]
    BY <1>3 DEF MakeRoom, EvictOldest
  <2> DEFINE v == queue[i].key
             gen2 == [gen EXCEPT ![v] = 0]
             rest == SubSeq(queue, i + 1, Len(queue))
  <2>2. /\ i \in 1..Len(queue) /\ v \in Keys
        /\ queue[i] \in Pairs /\ gen[v] = queue[i].generation /\ gen[v] # 0
    <3>1. i \in DOMAIN queue /\ gen[v] = queue[i].generation
        BY DEF OldestLive, LiveIndices
    <3>2. i \in 1..Len(queue) /\ queue[i] \in Pairs
        BY <3>1
    <3>3. v \in Keys /\ queue[i].generation \in Nat \ {0}
        BY <3>2 DEF Pairs
    <3> QED
        BY <3>1, <3>2, <3>3
  <2>3. v \in Present(gen) /\ Present(gen2) = Present(gen) \ {v}
    BY <2>2, PresentAfterRemoval DEF Present
  <2>4. IsFiniteSet(Present(gen2))
        /\ Cardinality(Present(gen2)) = Cardinality(Present(gen)) - 1
    BY ZenonT(60), <2>3, FS_RemoveElement
  <2>5. rest \in Seq(Pairs) /\ Len(rest) = Len(queue) - i
        /\ \A j \in 1..Len(rest) : rest[j] = queue[i + j]
    BY SMTT(40), <2>2
  <2>6. OrphansOf(gen2, rest) \subseteq OrphansOf(gen, queue)
    <3> SUFFICES ASSUME NEW a \in OrphansOf(gen2, rest),
                        NEW j \in DOMAIN queue, queue[j] = Pair(a, gen[a])
                 PROVE  FALSE
        BY <2>3 DEF OrphansOf
    <3>1. a \in Present(gen) /\ a # v /\ a \in Keys
        BY <2>3 DEF OrphansOf, Present
    <3>2. j \in LiveIndices(gen, queue) /\ j \in 1..Len(queue) /\ j # i
        BY <3>1, <2>2 DEF LiveIndices, Pair
    <3>3. i < j
        BY <3>2, <2>2 DEF OldestLive
    <3>4. j - i \in 1..Len(rest) /\ rest[j - i] = queue[j]
      <4>1. i \in Int /\ j \in Int /\ j <= Len(queue) /\ Len(queue) \in Nat
        BY <3>2, <2>2
      <4>2. j - i \in 1..Len(rest) /\ i + (j - i) = j
        BY SMTT(40), <4>1, <3>3, <2>5
      <4> QED
        BY <4>2, <2>5
    <3>5. gen2[a] = gen[a]
        BY <3>1, <2>2 DEF Generations
    <3>6. rest[j - i] # Pair(a, gen2[a])
        BY <3>4, <2>5 DEF OrphansOf
    <3> QED
        BY <3>4, <3>5, <3>6
  <2>7. gen2 \in Generations
    BY <2>2 DEF Generations
  <2>8. Cardinality(Present(gen)) - 1 + 1 <= MaxLen
    BY <1>0
  <2> QED
    BY <2>1, <2>3, <2>4, <2>5, <2>6, <2>7, <2>8
<1> QED
    BY <1>0, <1>1, <1>2, <1>3

\* A compacted queue fits, whatever bound the map itself obeys.
LEMMA CompactedLength ==
    ASSUME NEW gen \in Generations, IsFiniteSet(Present(gen)),
           Cardinality(Present(gen)) <= MaxLen,
           NEW queue \in Seq(Pairs), NEW q \in CompactOrderIfNeeded(gen, queue)
    PROVE  Len(q) <= MaxOrderLen
<1>1. MaxLen \in Nat /\ Cardinality(Present(gen)) \in Nat
    BY MapConstants, FS_CardinalityType DEF MaxLen
<1>2. CASE Len(queue) <= MaxOrderLen
    BY <1>2 DEF CompactOrderIfNeeded
<1>3. CASE ~(Len(queue) <= MaxOrderLen)
  <2>1. q \in SortedQueues(gen)
    BY <1>3 DEF CompactOrderIfNeeded
  <2>2. Len(q) = Cardinality(Present(gen))
    BY <2>1, SortedQueue
  <2> QED
    BY <1>1, <2>2, MapConstants
<1> QED
    BY <1>2, <1>3

-----------------------------------------------------------------------------
LEMMA InitMapInv == Init => MapInv
<1> SUFFICES ASSUME Init PROVE MapInv
    OBVIOUS
<1>1. Present(generation) = {}
    BY DEF Init, Present
<1>2. TypeOK
    BY DEF Init, TypeOK
<1>3. IsFiniteSet(Present(generation)) /\ Cardinality(Present(generation)) = 0
    BY <1>1, FS_EmptySet
<1>4. AtMostOneOrphan
    BY <1>1 DEF AtMostOneOrphan, Orphans, OrphansOf
<1>5. LenBounded /\ OrderBounded
    BY <1>3, MapConstants DEF Init, LenBounded, OrderBounded
<1> QED
    BY <1>2, <1>3, <1>4, <1>5 DEF MapInv

LEMMA RefreshMapInv ==
    ASSUME MapInv, NEW k \in Keys, Refresh(k)
    PROVE  MapInv'
<1>1. generation \in Generations /\ order \in Seq(Pairs)
      /\ next_generation \in Nat \ {0} /\ next_generation' = next_generation + 1
    BY DEF MapInv, TypeOK, Generations, Refresh, AllocateGeneration
<1>2. generation' = [generation EXCEPT ![k] = next_generation]
      /\ order' \in CompactOrderIfNeeded(generation,
                         Append(order, Pair(k, next_generation)))
    BY DEF Refresh
<1>3. order' \in Seq(Pairs) /\ AtMostOneOrphan'
  <2>1. IsFiniteSet(Present(generation))
        /\ \A a, b \in OrphansOf(generation, order) : a = b
    BY DEF MapInv, AtMostOneOrphan, Orphans
  <2>2. /\ order' \in Seq(Pairs)
        /\ \A a, b \in OrphansOf([generation EXCEPT ![k] = next_generation],
                                 order') : a = b
    BY <1>1, <1>2, <2>1, UseOrphans
  <2> QED
    BY <1>2, <2>2 DEF AtMostOneOrphan, Orphans
<1>4. Present(generation') = Present(generation)
    BY <1>1, <1>2, PresentAfterUse DEF Refresh, Present
<1>5. Append(order, Pair(k, next_generation)) \in Seq(Pairs)
    BY <1>1 DEF Pair, Pairs
<1>6. OrderBounded'
    BY <1>1, <1>2, <1>5, CompactedLength DEF MapInv, LenBounded, MaxLen, OrderBounded
<1>7. TypeOK'
    BY <1>1, <1>2, <1>3 DEF TypeOK, Generations
<1> QED
    BY <1>3, <1>4, <1>6, <1>7 DEF MapInv, LenBounded

LEMMA InsertNewMapInv ==
    ASSUME MapInv, NEW k \in Keys, InsertNew(k)
    PROVE  MapInv'
<1>1. generation \in Generations /\ order \in Seq(Pairs)
      /\ next_generation \in Nat \ {0} /\ next_generation' = next_generation + 1
    BY DEF MapInv, TypeOK, Generations, InsertNew, AllocateGeneration
<1>2. PICK room \in MakeRoom(generation, order) :
        /\ order' \in CompactOrderIfNeeded(room.generation,
                          Append(room.order, Pair(k, next_generation)))
        /\ generation' = [room.generation EXCEPT ![k] = next_generation]
    BY DEF InsertNew
<1>3. /\ room.generation \in Generations
      /\ room.order \in Seq(Pairs)
      /\ IsFiniteSet(Present(room.generation))
      /\ Cardinality(Present(room.generation)) + 1 <= MaxLen
      /\ \A a, b \in OrphansOf(room.generation, room.order) : a = b
    BY <1>1, Room DEF MapInv, LenBounded, MaxLen, AtMostOneOrphan, Orphans
<1>4. order' \in Seq(Pairs) /\ AtMostOneOrphan'
  <2>1. /\ order' \in Seq(Pairs)
        /\ \A a, b \in OrphansOf([room.generation EXCEPT ![k] = next_generation],
                                 order') : a = b
    BY ZenonT(60), <1>1, <1>2, <1>3, UseOrphans
  <2> QED
    BY <1>2, <2>1 DEF AtMostOneOrphan, Orphans
<1>5. Present(generation') = Present(room.generation) \cup {k}
    BY <1>1, <1>2, <1>3, PresentAfterUse
<1>6. MaxLen \in Nat /\ Cardinality(Present(room.generation)) \in Nat
    BY <1>3, MapConstants, FS_CardinalityType DEF MaxLen
<1>7. IsFiniteSet(Present(generation')) /\ Cardinality(Present(generation')) <= MaxLen
  <2>1. CASE k \in Present(room.generation)
    <3>1. Present(generation') = Present(room.generation)
        BY <1>5, <2>1
    <3> QED
        BY <3>1, <1>3, <1>6
  <2>2. CASE k \notin Present(room.generation)
    <3>1. IsFiniteSet(Present(generation'))
          /\ Cardinality(Present(generation'))
                = Cardinality(Present(room.generation)) + 1
        BY <1>3, <1>5, <2>2, FS_AddElement
    <3> QED
        BY <3>1, <1>3
  <2> QED
    BY <2>1, <2>2
<1>8. Append(room.order, Pair(k, next_generation)) \in Seq(Pairs)
    BY <1>1, <1>3 DEF Pair, Pairs
<1>9. Cardinality(Present(room.generation)) <= MaxLen
    BY <1>3, <1>6
<1>10. OrderBounded'
    BY <1>2, <1>3, <1>8, <1>9, CompactedLength DEF OrderBounded
<1>11. TypeOK'
    BY <1>1, <1>2, <1>3, <1>4 DEF TypeOK, Generations
<1> QED
    BY <1>4, <1>7, <1>10, <1>11 DEF MapInv, LenBounded, MaxLen

LEMMA RemoveMapInv ==
    ASSUME MapInv, NEW k \in Keys, RemoveKey(k)
    PROVE  MapInv'
<1>1. /\ generation \in Generations /\ order \in Seq(Pairs)
      /\ generation' = [generation EXCEPT ![k] = 0]
      /\ order' \in CompactOrderIfNeeded(generation', order)
    BY DEF MapInv, TypeOK, Generations, RemoveKey
<1>2. generation' \in Generations /\ Present(generation') = Present(generation) \ {k}
      /\ k \in Present(generation)
    BY <1>1, PresentAfterRemoval DEF Generations, RemoveKey, Present
<1>3. IsFiniteSet(Present(generation'))
      /\ Cardinality(Present(generation')) = Cardinality(Present(generation)) - 1
    BY <1>2, FS_RemoveElement DEF MapInv
<1>4. Cardinality(Present(generation)) \in Nat /\ MaxLen \in Nat
    BY MapConstants, FS_CardinalityType DEF MapInv, MaxLen
<1>5. Cardinality(Present(generation')) <= MaxLen
    BY <1>3, <1>4 DEF MapInv, LenBounded, MaxLen
<1>6. order' \in Seq(Pairs) /\ (order' = order \/ OrphansOf(generation', order') = {})
    BY <1>1, <1>2, <1>3, CompactionKeepsEntries
<1>7. OrphansOf(generation', order) \subseteq OrphansOf(generation, order)
    BY <1>1, <1>2 DEF OrphansOf, Present, Generations
<1>8. AtMostOneOrphan'
    BY <1>6, <1>7 DEF MapInv, AtMostOneOrphan, Orphans
<1>9. OrderBounded'
    BY <1>1, <1>2, <1>3, <1>5, CompactedLength DEF OrderBounded
<1>10. TypeOK'
    BY <1>2, <1>6 DEF MapInv, TypeOK, Generations, RemoveKey
<1> QED
    BY <1>3, <1>5, <1>8, <1>9, <1>10 DEF MapInv, LenBounded, MaxLen

LEMMA NextMapInv == MapInv /\ [Next]_vars => MapInv'
<1> SUFFICES ASSUME MapInv, [Next]_vars PROVE MapInv'
    OBVIOUS
<1>1. CASE UNCHANGED vars
    BY <1>1 DEF vars, MapInv, TypeOK, AtMostOneOrphan, Orphans, LenBounded, OrderBounded
<1>2. ASSUME NEW k \in Keys, Refresh(k) PROVE MapInv'
    BY <1>2, RefreshMapInv
<1>3. ASSUME NEW k \in Keys, InsertNew(k) PROVE MapInv'
    BY <1>3, InsertNewMapInv
<1>4. ASSUME NEW k \in Keys, RemoveKey(k) PROVE MapInv'
    BY <1>4, RemoveMapInv
<1> QED
    BY <1>1, <1>2, <1>3, <1>4 DEF Next, Insert, GetMut, GetClonedRefresh

-----------------------------------------------------------------------------
(* BoundedMap: the queue is in the order of use.                           *)

\* The generations of a queue grow, and are all below n.
Sorted(queue, n) ==
    /\ \A i, j \in DOMAIN queue : i < j => queue[i].generation < queue[j].generation
    /\ \A i \in DOMAIN queue : queue[i].generation < n

\* Stale pairs and orphans included, the queue is sorted, and no use is newer
\* than the counter.
UsesInOrder ==
    /\ Sorted(order, next_generation)
    /\ \A k \in Keys : generation[k] < next_generation

\* A new use goes to the end of the queue, unless a compaction drops it.
LEMMA UseKeepsOrder ==
    ASSUME NEW gen \in Generations, NEW queue \in Seq(Pairs), NEW k \in Keys,
           NEW n \in Nat \ {0}, Sorted(queue, n), \A a \in Keys : gen[a] < n,
           NEW q \in CompactOrderIfNeeded(gen, Append(queue, Pair(k, n)))
    PROVE  Sorted(q, n + 1)
<1> DEFINE pushed == Append(queue, Pair(k, n))
<1>1. \A i \in DOMAIN queue : queue[i].generation \in Nat
  <2>1. \A i \in DOMAIN queue : queue[i] \in Pairs
    OBVIOUS
  <2>2. QED  BY <2>1 DEF Pairs
<1>2. CASE q = pushed
  <2>1. /\ DOMAIN pushed = 1..(Len(queue) + 1) /\ pushed[Len(queue) + 1].generation = n
        /\ \A i \in 1..Len(queue) : pushed[i] = queue[i]
        /\ DOMAIN queue = 1..Len(queue) /\ Len(queue) \in Nat
    BY DEF Pair, Pairs
  <2>2. ASSUME NEW i \in DOMAIN pushed PROVE pushed[i].generation < n + 1
    BY <1>1, <2>1 DEF Sorted
  <2>3. ASSUME NEW i \in DOMAIN pushed, NEW j \in DOMAIN pushed, i < j
        PROVE  pushed[i].generation < pushed[j].generation
    <3>1. CASE j = Len(queue) + 1
      BY <2>1, <2>3, <3>1 DEF Sorted
    <3>2. CASE j # Len(queue) + 1
      BY <2>1, <2>3, <3>2 DEF Sorted
    <3>3. QED  BY <3>1, <3>2
  <2>4. QED  BY <1>2, <2>2, <2>3 DEF Sorted
<1>3. CASE q \in SortedQueues(gen)
  <2>1. /\ \A i, j \in DOMAIN q : i < j => q[i].generation < q[j].generation
        /\ {q[i] : i \in DOMAIN q} = LivePairs(gen)
    BY <1>3 DEF SortedQueues
  <2>2. ASSUME NEW i \in DOMAIN q PROVE q[i].generation < n + 1
    <3>1. PICK a \in Present(gen) : q[i] = Pair(a, gen[a])
      BY <2>1 DEF LivePairs
    <3>2. gen[a] \in Nat /\ gen[a] < n
      BY DEF Present, Generations
    <3>3. QED  BY <3>1, <3>2 DEF Pair
  <2>3. QED  BY <2>1, <2>2 DEF Sorted
<1>4. QED  BY <1>2, <1>3 DEF CompactOrderIfNeeded

\* Nor does an eviction disturb the order, and it takes the oldest entry of
\* those in the queue.
LEMMA EvictionKeepsOrder ==
    ASSUME NEW gen \in Generations, NEW queue \in Seq(Pairs), NEW n \in Nat,
           Sorted(queue, n), \A a \in Keys : gen[a] < n,
           NEW room \in MakeRoom(gen, queue)
    PROVE  /\ Sorted(room.order, n)
           /\ \A a \in Keys : room.generation[a] < n
           /\ \A v, k \in Present(gen) \ OrphansOf(gen, queue) :
                  room.generation[v] = 0 /\ gen[k] < gen[v] => room.generation[k] = 0
<1>1. CASE room.generation = gen /\ room.order = queue
  BY <1>1 DEF Present
<1>2. CASE room.generation = gen /\ room.order = <<>>
  BY <1>2 DEF Present, Sorted
<1>3. CASE \E i \in OldestLive(gen, queue) :
               room = [generation |-> [gen EXCEPT ![queue[i].key] = 0],
                       order |-> SubSeq(queue, i + 1, Len(queue))]
  <2>1. PICK i \in OldestLive(gen, queue) :
            room = [generation |-> [gen EXCEPT ![queue[i].key] = 0],
                    order |-> SubSeq(queue, i + 1, Len(queue))]
    BY <1>3
  <2> DEFINE rest == SubSeq(queue, i + 1, Len(queue))
  <2>2. /\ i \in 1..Len(queue) /\ queue[i].key \in Keys /\ DOMAIN queue = 1..Len(queue)
        /\ gen[queue[i].key] = queue[i].generation
        /\ \A j \in LiveIndices(gen, queue) : i <= j
    <3>1. i \in DOMAIN queue /\ gen[queue[i].key] = queue[i].generation
      BY DEF OldestLive, LiveIndices
    <3>2. queue[i] \in Pairs
      BY <3>1
    <3>3. QED  BY <3>1, <3>2 DEF Pairs, OldestLive
  <2>3. /\ rest \in Seq(Pairs) /\ Len(rest) = Len(queue) - i
        /\ \A j \in 1..Len(rest) : rest[j] = queue[i + j]
    <3>1. i \in 1..Len(queue)
      BY <2>2
    <3>2. QED  BY <3>1
  <2>4. Sorted(rest, n)
    <3>1. \A j \in DOMAIN rest : i + j \in DOMAIN queue /\ rest[j] = queue[i + j] /\ j \in Int
      <4>1. i \in 1..Len(queue) /\ DOMAIN queue = 1..Len(queue) /\ Len(queue) \in Nat
        BY <2>2
      <4> HIDE DEF rest
      <4>2. DOMAIN rest = 1..Len(rest)
        BY <2>3
      <4>3. QED  BY <2>3, <4>1, <4>2
    <3>2. ASSUME NEW a \in DOMAIN rest, NEW b \in DOMAIN rest, a < b PROVE i + a < i + b
      BY <2>2, <3>1, <3>2
    <3> HIDE DEF rest
    <3>3. QED  BY <3>1, <3>2 DEF Sorted
  <2>5. \A a \in Keys : room.generation[a] \in {0, gen[a]}
                        /\ (room.generation[a] = 0 => gen[a] = 0 \/ a = queue[i].key)
    BY <2>1, <2>2 DEF Generations
  <2>6. \A a \in Keys : room.generation[a] < n
    <3>1. ASSUME NEW a \in Keys PROVE 0 < n
      BY DEF Generations
    <3>2. QED  BY <2>5, <3>1
  <2>7. ASSUME NEW v \in Present(gen) \ OrphansOf(gen, queue),
               NEW k \in Present(gen) \ OrphansOf(gen, queue),
               room.generation[v] = 0, gen[k] < gen[v]
        PROVE  FALSE
    <3>1. v = queue[i].key
      BY <2>5, <2>7 DEF Present
    <3>2. PICK j \in DOMAIN queue : queue[j] = Pair(k, gen[k])
      BY DEF OrphansOf
    <3>3. j \in LiveIndices(gen, queue)
      BY <3>2 DEF LiveIndices, Pair
    <3>4. queue[j].generation = gen[k] /\ queue[i].generation = gen[v] /\ i <= j
      BY <2>2, <3>1, <3>2, <3>3 DEF Pair
    <3>5. gen[k] \in Nat /\ gen[v] \in Nat /\ i \in Int /\ j \in Int
      BY <2>2 DEF Present, Generations
    <3>6. CASE i = j
      BY <2>7, <3>4, <3>5, <3>6
    <3>7. CASE i < j
      <4>1. queue[i].generation < queue[j].generation
        BY <2>2, <3>7 DEF Sorted
      <4>2. QED  BY <2>7, <3>4, <3>5, <4>1
    <3>8. QED  BY <3>4, <3>5, <3>6, <3>7
  <2>8. QED  BY <2>1, <2>4, <2>6, <2>7
<1>4. QED  BY <1>1, <1>2, <1>3 DEF MakeRoom, EvictOldest

LEMMA InitInOrder == Init => UsesInOrder
BY DEF Init, UsesInOrder, Sorted

\* A step keeps the order, and an insertion that evicts takes the oldest entry
\* that the queue reaches.
EvictsOldest ==
    next_generation' # next_generation =>
        \A v, k \in Present(generation) \ Orphans :
            generation'[v] = 0 /\ generation[k] < generation[v] => generation'[k] = 0

LEMMA NextInOrder ==
    ASSUME MapInv, UsesInOrder, [Next]_vars
    PROVE  UsesInOrder' /\ EvictsOldest
<1>1. /\ generation \in Generations /\ order \in Seq(Pairs) /\ next_generation \in Nat \ {0}
      /\ Sorted(order, next_generation) /\ \A k \in Keys : generation[k] < next_generation
  BY DEF MapInv, TypeOK, Generations, UsesInOrder
<1>2. CASE UNCHANGED vars
  BY <1>1, <1>2 DEF vars, UsesInOrder, EvictsOldest
<1>3. ASSUME NEW k \in Keys, Refresh(k) PROVE UsesInOrder' /\ EvictsOldest
  <2>1. /\ next_generation' = next_generation + 1
        /\ generation' = [generation EXCEPT ![k] = next_generation]
        /\ order' \in CompactOrderIfNeeded(generation, Append(order, Pair(k, next_generation)))
    BY <1>3 DEF Refresh, AllocateGeneration
  <2>2. Sorted(order', next_generation')
    BY <1>1, <2>1, UseKeepsOrder
  <2>3. \A a \in Keys : generation'[a] \in {generation[a], next_generation}
    BY <1>1, <2>1 DEF Generations
  <2>4. \A a \in Keys : generation'[a] < next_generation'
    BY <1>1, <2>1, <2>3 DEF Generations
  <2>5. EvictsOldest
    BY <1>1, <2>3 DEF EvictsOldest, Present
  <2>6. QED  BY <2>2, <2>4, <2>5 DEF UsesInOrder
<1>4. ASSUME NEW k \in Keys, InsertNew(k) PROVE UsesInOrder' /\ EvictsOldest
  <2>1. PICK room \in MakeRoom(generation, order) :
            /\ order' \in CompactOrderIfNeeded(room.generation,
                              Append(room.order, Pair(k, next_generation)))
            /\ generation' = [room.generation EXCEPT ![k] = next_generation]
    BY <1>4 DEF InsertNew
  <2>2. next_generation' = next_generation + 1 /\ generation[k] = 0
    BY <1>4 DEF InsertNew, AllocateGeneration
  <2>3. room.generation \in Generations /\ room.order \in Seq(Pairs)
    BY <1>1, Room DEF MapInv, LenBounded, MaxLen, AtMostOneOrphan, Orphans
  <2>4. /\ Sorted(room.order, next_generation)
        /\ \A a \in Keys : room.generation[a] < next_generation
        /\ \A v, a \in Present(generation) \ Orphans :
               room.generation[v] = 0 /\ generation[a] < generation[v] => room.generation[a] = 0
    BY <1>1, EvictionKeepsOrder DEF Orphans
  <2>5. Sorted(order', next_generation')
    BY <1>1, <2>1, <2>2, <2>3, <2>4, UseKeepsOrder
  <2>6. /\ \A a \in Keys \ {k} : generation'[a] = room.generation[a]
        /\ generation'[k] = next_generation
    BY <2>1, <2>3 DEF Generations
  <2>7. \A a \in Keys : generation'[a] < next_generation'
    <3>1. \A a \in Keys : room.generation[a] \in Nat
      BY <2>3 DEF Generations
    <3>2. QED  BY <1>1, <2>2, <2>4, <2>6, <3>1
  <2>8. EvictsOldest
    BY <2>2, <2>4, <2>6 DEF EvictsOldest, Present
  <2>9. QED  BY <2>5, <2>7, <2>8 DEF UsesInOrder
<1>5. ASSUME NEW k \in Keys, RemoveKey(k) PROVE UsesInOrder' /\ EvictsOldest
  <2>1. /\ next_generation' = next_generation /\ generation' = [generation EXCEPT ![k] = 0]
        /\ order' \in CompactOrderIfNeeded(generation', order)
    BY <1>5 DEF RemoveKey
  <2>2. \A a \in Keys : generation'[a] < next_generation
    BY <1>1, <2>1 DEF Generations
  <2>3. CASE order' = order
    BY <1>1, <2>1, <2>2, <2>3 DEF UsesInOrder, EvictsOldest
  <2>4. CASE order' \in SortedQueues(generation')
    <3>1. /\ \A i, j \in DOMAIN order' : i < j => order'[i].generation < order'[j].generation
          /\ {order'[i] : i \in DOMAIN order'} = LivePairs(generation')
      BY <2>4 DEF SortedQueues
    <3>2. \A i \in DOMAIN order' : order'[i].generation < next_generation
      BY <2>2, <3>1 DEF LivePairs, Present, Pair
    <3>3. QED  BY <2>1, <2>2, <3>1, <3>2 DEF UsesInOrder, Sorted, EvictsOldest
  <2>5. QED  BY <2>1, <2>3, <2>4 DEF CompactOrderIfNeeded
<1>6. QED  BY <1>2, <1>3, <1>4, <1>5 DEF Next, Insert, GetMut, GetClonedRefresh

\* The map, its queue and its counter keep their types.
THEOREM MapTypeCorrect == Spec => []TypeOK
<1>1. MapInv => TypeOK
    BY DEF MapInv
<1> QED
    BY <1>1, InitMapInv, NextMapInv, PTL DEF Spec

\* However many compactions run, at most one entry is hidden from
\* evict_oldest (bounded_map.rs 114-145).
THEOREM OneOrphan == Spec => []AtMostOneOrphan
<1>1. MapInv => AtMostOneOrphan
    BY DEF MapInv
<1> QED
    BY <1>1, InitMapInv, NextMapInv, PTL DEF Spec

\* The capacity given to BoundedMap::new holds, save that a map of capacity
\* one may hold two entries.
THEOREM CapacityKept == Spec => []LenBounded
<1>1. MapInv => LenBounded
    BY DEF MapInv
<1> QED
    BY <1>1, InitMapInv, NextMapInv, PTL DEF Spec

\* The queue stays under the compaction threshold, however many of its pairs
\* are stale (bounded_map.rs 132-145).
THEOREM QueueBounded == Spec => []OrderBounded
<1>1. MapInv => OrderBounded
    BY DEF MapInv
<1> QED
    BY <1>1, InitMapInv, NextMapInv, PTL DEF Spec

\* An insertion into a full map takes the least recently used of the entries
\* the queue still reaches, however compactions and removals have interleaved
\* (bounded_map.rs 94-145).
THEOREM OldestIsEvicted == Spec => EvictsOldestReachable
<1>1. Init => MapInv /\ UsesInOrder
  BY InitMapInv, InitInOrder
<1>2. MapInv /\ UsesInOrder /\ [Next]_vars => MapInv' /\ UsesInOrder' /\ [EvictsOldest]_vars
  BY NextMapInv, NextInOrder
<1>3. QED  BY <1>1, <1>2, PTL DEF Spec, EvictsOldestReachable, EvictsOldest

=============================================================================
