---------------------------- MODULE RepoProvenance ----------------------------
(***************************************************************************)
(* Whether the repository a release names has the tag, the release or the  *)
(* commit it should come from (repo_provenance.rs).  Checks run at the same*)
(* time and share caches of what GitHub and GitLab have answered.          *)
(*                                                                         *)
(* A URL is [host, repo]: repo is empty when the path has no owner and     *)
(* name.  Blank texts are no texts.  What a registry says of a release is  *)
(* [ecosystem, version, urls, home, repository, commit]: a function from   *)
(* labels to URLs, and sets of at most one.                                *)
(***************************************************************************)
EXTENDS Integers, Sequences, FiniteSets

CONSTANTS
    CheckedReleases,    \* what may be checked
    Pushed,             \* the refs, <<version, form>>, that may be pushed
    TokenHeld,          \* a GitHub token is configured
    MaxChecks           \* bound: checks that are begun

Checkers == {1, 2}

LeastOf(S) == CHOOSE i \in S : \A j \in S : i <= j

-----------------------------------------------------------------------------
(* Which repository.                                                       *)

PreferredLabels == <<"Source", "Source Code", "Repository", "Code", "Homepage", "Home">>

\* The details that captures and local artifacts give always have project_urls,
\* if only a null, here the function of no label.
PypiRepositoryUrl(details) ==
    LET known == {i \in DOMAIN PreferredLabels : PreferredLabels[i] \in DOMAIN details.urls}
    IN  IF known = {} THEN details.home ELSE {details.urls[PreferredLabels[LeastOf(known)]]}

CratesRepositoryUrl(details) ==
    IF details.repository # {} THEN details.repository ELSE details.home

RepositoryUrl(details) ==
    CASE details.ecosystem = "pypi" -> PypiRepositoryUrl(details)
      [] details.ecosystem = "npm"  -> details.repository
      [] OTHER                      -> CratesRepositoryUrl(details)

\* resolve_repository: schemes, ssh forms, www and .git are taken off.
ResolveRepository(url) ==
    IF url.repo = {} THEN {}
    ELSE {[provider |-> CASE url.host = "github.com" -> "github"
                          [] url.host = "gitlab.com" -> "gitlab"
                          [] OTHER                   -> "unknown", repo |-> url.repo]}

\* extract_package_repository_identity
RepositoryIdentity(details) ==
    {IF ResolveRepository(url) = {} THEN [provider |-> "unknown", repo |-> {}]
     ELSE CHOOSE r \in ResolveRepository(url) : TRUE : url \in RepositoryUrl(details)}

EmbeddedCommit(details) == IF details.ecosystem = "crates" THEN details.commit ELSE {}

-----------------------------------------------------------------------------
(* A local artifact: [suffix, entries], a sequence of [name, metadata];    *)
(* metadata is a release's details, or one without a version.              *)

ArtifactOf == [pypi |-> {"whl", "tar.gz"}, npm |-> {"tgz"}, crates |-> {"crate"}]

MetadataName(ecosystem, suffix) ==
    IF suffix = "whl" THEN "METADATA"
    ELSE IF suffix = "tar.gz" THEN "PKG-INFO"
    ELSE IF ecosystem = "npm" THEN "package.json"
    ELSE "Cargo.toml"

\* load_local_artifact_metadata: the first entry of the name, wherever it is.
LocalMetadata(ecosystem, artifact) ==
    LET named == {i \in DOMAIN artifact.entries :
                     artifact.entries[i].name = MetadataName(ecosystem, artifact.suffix)}
    IN  IF artifact.suffix \notin ArtifactOf[ecosystem] \/ named = {} THEN {}
        ELSE {m \in {artifact.entries[LeastOf(named)].metadata} : m.version # 0}

\* inspect_local_artifact_provenance: what is then checked as a release.
LocalRelease(ecosystem, artifact, version) ==
    {IF version = {} THEN m ELSE [m EXCEPT !.version = LeastOf(version)] :
        m \in LocalMetadata(ecosystem, artifact)}

-----------------------------------------------------------------------------
(* The repository of a behaviour, the caches and the checks.               *)

VARIABLES
    remote_tags,     \* the refs that are tags in the repository
    remote_releases, \* the refs that have a release; each is a tag
    tag_cache,       \* GITHUB_TAG_CACHE, of the repository
    release_cache,   \* GITHUB_RELEASE_CACHE, of its refs
    gitlab_cache,    \* GITLAB_TAG_CACHE, of its refs
    backed_off,      \* GITHUB_BACKOFF is set and not over
    checks,          \* [Checkers -> check]
    begun            \* how many checks have begun

provenanceVars ==
    <<remote_tags, remote_releases, tag_cache, release_cache, gitlab_cache, backed_off, checks,
      begun>>
remote == <<remote_tags, remote_releases>>
caches == <<tag_cache, release_cache, gitlab_cache>>

\* candidate_version_refs: the version, and with or without its v; the digit is
\* sorted before the letter.
CandidateRefs(version) == <<<<version, "plain">>, <<version, "v">>>>
AllRefs == {CandidateRefs(d.version)[i] : d \in CheckedReleases, i \in {1, 2}}

\* A check: ref is the candidate it is at; refused, that the host has refused a
\* request of it, or one whose answer a cache gave it; stalled, that it met the
\* backoff.
NoVerdict == [kind |-> "none"]
Unoccupied(c) == checks[c].pc \in {"idle", "done"}
NoCheck == [pc |-> "idle", details |-> {}, provider |-> "unknown", ref |-> 1,
            refused |-> FALSE, stalled |-> FALSE, verdict |-> NoVerdict]
NewCheck(details, provider, pc) ==
    [NoCheck EXCEPT !.pc = pc, !.details = details, !.provider = provider]

Done(check, verdict) == [check EXCEPT !.pc = "done", !.verdict = verdict]
Unknown(why) == [kind |-> "unknown", why |-> why]
Matched(kind, ref) == [kind |-> kind, ref |-> ref]
Mismatch == [kind |-> "mismatch"]

Put(c, check) == checks' = [checks EXCEPT ![c] = check]
Stalled(check) == Done([check EXCEPT !.stalled = TRUE], Unknown("refused"))
BackoffHolds == backed_off /\ ~TokenHeld

-----------------------------------------------------------------------------
(* Between two requests.                                                   *)

\* No ref was found: a commit in the artifact may still be, without which the
\* release does not match.
AfterRefs(check) ==
    IF EmbeddedCommit(check.details) = {} THEN Done(check, Mismatch)
    ELSE IF check.provider = "github" /\ BackoffHolds THEN Stalled(check)
    ELSE [check EXCEPT !.pc = "commit"]

NextRef(check) == IF check.ref = 1 THEN [check EXCEPT !.ref = 2] ELSE AfterRefs(check)

\* The tags are known: the first candidate among them, or else its releases.
WithTags(check, names) ==
    LET refs  == CandidateRefs(check.details.version)
        found == {i \in {1, 2} : refs[i] \in names}
    IN  IF found # {} THEN Done(check, Matched("tag", refs[LeastOf(found)]))
        ELSE [check EXCEPT !.pc = "release"]

RefOf(check) == CandidateRefs(check.details.version)[check.ref]

\* Mutant: a refusal that is cached is an answer like any other.
FromTagCacheRefused(check) ==
    CASE tag_cache.kind = "names"     -> WithTags(check, tag_cache.names)
      [] tag_cache.kind \in {"not_found", "error", "refused"} ->
            Done(check, Unknown(tag_cache.kind))
      [] OTHER                        -> [check EXCEPT !.pc = "tags"]

\* What the cache of the tags lets a check do at once; "none" is no entry, and a
\* refusal does not count as one.
FromTagCache(check) ==
    CASE tag_cache.kind = "names"     -> WithTags(check, tag_cache.names)
      [] tag_cache.kind = "not_found" -> Done(check, Unknown("not_found"))
      [] tag_cache.kind = "error"     -> Done(check, Unknown("error"))
      [] OTHER                        -> [check EXCEPT !.pc = "tags"]

StartGithub(check) == IF BackoffHolds THEN Stalled(check) ELSE FromTagCache(check)

-----------------------------------------------------------------------------
(* Checks.                                                                 *)

\* check_release_provenance, up to its first request.
BeginRelease(c, details) ==
    /\ Unoccupied(c) /\ begun < MaxChecks
    /\ begun' = begun + 1
    /\ \E url \in RepositoryUrl(details) :
           LET resolved == ResolveRepository(url)
               provider == IF resolved = {} THEN "unknown" ELSE (CHOOSE r \in resolved : TRUE).provider
               check    == NewCheck(details, provider, "release")
           IN  Put(c, IF provider = "github" THEN StartGithub(check)
                      ELSE IF provider = "gitlab" THEN [check EXCEPT !.pc = "gitlab"]
                      ELSE IF resolved = {} THEN Done(check, Unknown("host"))
                      ELSE Done(check, NoVerdict))
    /\ tag_cache' = IF checks'[c].pc = "tags" THEN [kind |-> "none"] ELSE tag_cache
    /\ UNCHANGED <<remote, release_cache, gitlab_cache, backed_off>>

\* check_repository_commit_provenance: a diff has found the commit.
BeginCommit(c, details) ==
    /\ Unoccupied(c) /\ begun < MaxChecks
    /\ begun' = begun + 1
    /\ \E url \in RepositoryUrl(details) : \E resolved \in ResolveRepository(url) :
           /\ resolved.provider # "unknown" /\ details.commit # {}
           /\ LET check == NewCheck(details, resolved.provider, "only_commit")
              IN  Put(c, IF resolved.provider = "github" /\ BackoffHolds THEN Stalled(check)
                         ELSE check)
    /\ UNCHANGED <<remote, caches, backed_off>>

Answers == {"found", "missing", "refused", "error", "broken"}

\* A refusal backs off every check that has no token.
Refusing(answer) == backed_off' = (backed_off \/ answer = "refused")
Heard(check, answer) == [check EXCEPT !.refused = @ \/ answer = "refused"]

\* The tags, at most a hundred of them.  A broken answer is an error of the
\* check, which then has no verdict.
AnswerTags(c, answer) ==
    /\ checks[c].pc = "tags"
    /\ LET check == Heard(checks[c], answer)
       IN  Put(c, CASE answer = "found"   -> WithTags(check, remote_tags)
                    [] answer = "missing" -> Done(check, Unknown("not_found"))
                    [] answer = "broken"  -> Done(check, NoVerdict)
                    [] OTHER              -> Done(check, Unknown(answer)))
    /\ tag_cache' = CASE answer = "found"   -> [kind |-> "names", names |-> remote_tags]
                      [] answer = "missing" -> [kind |-> "not_found"]
                      [] answer = "broken"  -> tag_cache
                      [] OTHER              -> [kind |-> answer]
    /\ Refusing(answer)
    /\ UNCHANGED <<remote, release_cache, gitlab_cache, begun>>

\* Mutant: the release cache is asked for the version's form, of any version.
ReleaseKeyOfForm(ref) == CHOOSE r \in AllRefs : r[2] = ref[2]

ReleaseKey(ref) == ref

\* A candidate of which the cache knows whether it has a release.
ReleaseFromCache(c) ==
    /\ checks[c].pc = "release"
    /\ LET known == release_cache[ReleaseKey(RefOf(checks[c]))]
       IN  /\ known # "none"
           /\ Put(c, IF known = "found"
                     THEN Done(checks[c], Matched("release", RefOf(checks[c])))
                     ELSE NextRef(checks[c]))
    /\ UNCHANGED <<remote, caches, backed_off, begun>>

\* What a release that is asked for tells.
ReleaseVerdict(check, answer) ==
    CASE answer = "found"   -> Done(check, Matched("release", RefOf(check)))
      [] answer = "missing" -> NextRef(check)
      [] answer = "broken"  -> Done(check, NoVerdict)
      [] OTHER              -> Done(check, Unknown(answer))

AnswerRelease(c, answer) ==
    /\ checks[c].pc = "release"
    /\ release_cache[ReleaseKey(RefOf(checks[c]))] = "none"
    /\ answer = "found" => RefOf(checks[c]) \in remote_releases
    /\ answer = "missing" => RefOf(checks[c]) \notin remote_releases
    /\ Put(c, ReleaseVerdict(Heard(checks[c], answer), answer))
    /\ release_cache' = IF answer \in {"found", "missing"}
                        THEN [release_cache EXCEPT ![ReleaseKey(RefOf(checks[c]))] = answer]
                        ELSE release_cache
    /\ Refusing(answer)
    /\ UNCHANGED <<remote, tag_cache, gitlab_cache, begun>>

\* GitLab is asked for one tag at a time, and any other status is remembered: a
\* refusal too answers every later check of that ref, until its entry is dropped.
GitlabFromCache(c) ==
    /\ checks[c].pc = "gitlab"
    /\ LET known == gitlab_cache[RefOf(checks[c])]
       IN  /\ known # "none"
           /\ Put(c, CASE known = "missing" -> NextRef(checks[c])
                       [] known \in {"refused", "error"} ->
                              Done(Heard(checks[c], known), Unknown(known))
                       [] OTHER             -> Done(checks[c], Matched(known, RefOf(checks[c]))))
    /\ UNCHANGED <<remote, caches, backed_off, begun>>

AnswerGitlab(c, answer) ==
    /\ checks[c].pc = "gitlab" /\ gitlab_cache[RefOf(checks[c])] = "none"
    /\ answer = "found" => RefOf(checks[c]) \in remote_tags
    /\ answer = "missing" => RefOf(checks[c]) \notin remote_tags
    /\ LET ref  == RefOf(checks[c])
           kind == IF ref \in remote_releases THEN "release" ELSE "tag"
           told == CASE answer = "found" -> kind [] OTHER -> answer
       IN  /\ Put(c, CASE answer = "found"   -> Done(checks[c], Matched(kind, ref))
                       [] answer = "missing" -> NextRef(checks[c])
                       [] answer = "broken"  -> Done(checks[c], NoVerdict)
                       [] OTHER              -> Done(Heard(checks[c], answer), Unknown(answer)))
           /\ gitlab_cache' = IF answer = "broken" THEN gitlab_cache
                              ELSE [gitlab_cache EXCEPT ![ref] = told]
    /\ UNCHANGED <<remote, tag_cache, release_cache, backed_off, begun>>

AnswerCommit(c, answer) ==
    /\ checks[c].pc \in {"commit", "only_commit"}
    /\ LET check == Heard(checks[c], answer)
           none  == IF check.pc = "only_commit" THEN NoVerdict ELSE Mismatch
       IN  /\ Put(c, CASE answer = "found"   -> Done(check, [kind |-> "commit"])
                       [] answer = "missing" -> Done(check, none)
                       [] answer = "broken"  -> Done(check, NoVerdict)
                       [] OTHER              -> Done(check, Unknown(answer)))
           /\ IF check.provider = "github" THEN Refusing(answer) ELSE UNCHANGED backed_off
    /\ UNCHANGED <<remote, caches, begun>>

-----------------------------------------------------------------------------
(* The world.                                                              *)

PushTag(ref) ==
    /\ ref \notin remote_tags /\ remote_tags' = remote_tags \cup {ref}
    /\ UNCHANGED <<remote_releases, caches, backed_off, checks, begun>>

PublishRelease(ref) ==
    /\ ref \in remote_tags \ remote_releases /\ remote_releases' = remote_releases \cup {ref}
    /\ UNCHANGED <<remote_tags, caches, backed_off, checks, begun>>

BackoffEnds ==
    /\ backed_off /\ backed_off' = FALSE
    /\ UNCHANGED <<remote, caches, checks, begun>>

\* The bounded maps may drop an entry.
Evict ==
    /\ \/ tag_cache' = [kind |-> "none"] /\ tag_cache # tag_cache' /\ UNCHANGED <<release_cache, gitlab_cache>>
       \/ \E r \in AllRefs :
              \/ /\ release_cache[r] # "none"
                 /\ release_cache' = [release_cache EXCEPT ![r] = "none"]
                 /\ UNCHANGED <<tag_cache, gitlab_cache>>
              \/ /\ gitlab_cache[r] # "none"
                 /\ gitlab_cache' = [gitlab_cache EXCEPT ![r] = "none"]
                 /\ UNCHANGED <<tag_cache, release_cache>>
    /\ UNCHANGED <<remote, backed_off, checks, begun>>

ProvenanceInit ==
    /\ remote_tags = {} /\ remote_releases = {}
    /\ tag_cache = [kind |-> "none"]
    /\ release_cache = [r \in AllRefs |-> "none"] /\ gitlab_cache = [r \in AllRefs |-> "none"]
    /\ backed_off = FALSE
    /\ checks = [c \in Checkers |-> NoCheck] /\ begun = 0

ProvenanceNext ==
    \/ \E c \in Checkers, d \in CheckedReleases : BeginRelease(c, d) \/ BeginCommit(c, d)
    \/ \E c \in Checkers, a \in Answers :
           AnswerTags(c, a) \/ AnswerRelease(c, a) \/ AnswerGitlab(c, a) \/ AnswerCommit(c, a)
    \/ \E c \in Checkers : ReleaseFromCache(c) \/ GitlabFromCache(c)
    \/ \E r \in Pushed : PushTag(r) \/ PublishRelease(r)
    \/ BackoffEnds
    \/ Evict

ProvenanceSpec == ProvenanceInit /\ [][ProvenanceNext]_provenanceVars

-----------------------------------------------------------------------------
(* Properties.                                                             *)

Finished == {checks[c] : c \in {x \in Checkers : checks[x].pc = "done"}}

\* What a release is said to match is there: a tag or a release of its own
\* version, whoever asked for it first and put it into a cache.
MatchIsReal ==
    \A check \in Finished :
        /\ check.verdict.kind = "tag" =>
               check.verdict.ref[1] = check.details.version /\ check.verdict.ref \in remote_tags
        /\ check.verdict.kind = "release" =>
               check.verdict.ref[1] = check.details.version /\ check.verdict.ref \in remote_releases

\* That a host refuses to answer is never held against a release, be it this
\* check that is refused or, on GitLab, an earlier one whose refusal is cached.
\* On GitHub the refusal of one check is not the verdict of a later one unless
\* it is backed off; GitLab's, which is cached, may be.
RefusalIsUnknown ==
    \A check \in Finished :
        /\ check.refused => check.verdict.kind # "mismatch"
        /\ check.provider = "github" /\ check.verdict = Unknown("refused") =>
               check.refused \/ check.stalled

=============================================================================
