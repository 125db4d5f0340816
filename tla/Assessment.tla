----------------------------- MODULE Assessment -----------------------------
(***************************************************************************)
(* The judgement of a release: what a matched detection rule stands for    *)
(* (detection.rs), the content risk of a scan's matches (content_risk.rs), *)
(* the burst of versions and the fused assessment (assessment.rs), and     *)
(* what a bundle makes of it (bundle.rs).                                  *)
(*                                                                         *)
(* A rule is [name, tags, score]; a match is [rule, pattern], whether a    *)
(* pattern was found or only a module's condition held.                    *)
(***************************************************************************)
EXTENDS Integers, Sequences, FiniteSets, FiniteSetsExt

CONSTANT Rules

Mentions(text, needle) ==
    \E i \in 1..(Len(text) - Len(needle) + 1) : SubSeq(text, i, i + Len(needle) - 1) = needle

MentionsAny(text, needles) == \E needle \in needles : Mentions(text, needle)

-----------------------------------------------------------------------------
(* Rules.                                                                  *)

InstallerRules ==
    {"npm_downloader_and_exec_installer", "npm_downloader_pipe_to_shell_installer",
     "pypi_build_hook_downloader", "crate_build_script_downloader"}

ContextRules ==
    {"npm_ci_environment_targeting", "pypi_ci_environment_targeting",
     "crate_ci_pipeline_targeting", "npm_string_construction_obfuscation",
     "pypi_setup_cmdclass_override", "pypi_anti_analysis_evasion",
     "pypi_environment_fingerprint_exfil", "pypi_pyarmor_obfuscation",
     "crate_runtime_obfuscated_strings", "generic_cloud_credential_paths",
     "generic_cloud_metadata_service", "generic_oast_callback", "generic_git_token_patterns",
     "generic_browser_credential_database", "generic_crypto_wallet_paths",
     "generic_packed_high_entropy_payload", "crate_ctor_auto_init_network"}

ClassifyRule(rule) ==
    IF rule \in InstallerRules THEN "risky_installer"
    ELSE IF rule = "npm_mcp_server_injection" THEN "invasive_tooling"
    ELSE IF rule \in ContextRules THEN "context_only"
    ELSE IF Mentions(rule, "installer") /\ Mentions(rule, "downloader") THEN "risky_installer"
    ELSE IF Mentions(rule, "mcp_server_injection") THEN "invasive_tooling"
    ELSE IF MentionsAny(rule, {"ci_environment", "pipeline_targeting"}) THEN "context_only"
    ELSE "malicious_behavior"

WeakChainRules ==
    {"pypi_browser_credential_theft", "npm_cloudflare_workers_exfil",
     "npm_electron_app_injection", "npm_powershell_hidden_execution",
     "npm_macos_payload_dropper", "npm_exfil_channel_with_theft_markers",
     "pypi_exfil_channel_with_theft_markers"}

StrongChains ==
    {"reverse_shell", "runtime_encoded_remote_loader", "persistent_shell_backdoor",
     "secrets_harvesting_c2_agent", "multiphase_secrets_exfil_agent",
     "redis_reverse_shell_dropper", "environment_callback_probe",
     "credential_theft_toolchain", "worm_propagation", "token_publish_worm_propagation",
     "github_propagation_worm", "github_commit_secret_exfil",
     "github_actions_secret_artifact_exfil", "runner_memory_secret_scrape",
     "cloud_secret_manager_exfiltration", "remote_code_fetch_exec",
     "remote_payload_shell_exec", "pypi_setup_remote_payload_exec",
     "crate_build_remote_payload_exec", "binding_gyp_python_sandbox_escape",
     "in_memory_payload_loader", "build_script_env_exfil", "build_script_file_read_exfil",
     "browser_process_kill_and_theft", "discord_bot_rat", "discord_token_theft", "keylogger",
     "password_manager_theft", "browser_wallet_extension_theft",
     "ssh_or_cloud_credential_theft", "crypto_wallet_file_theft", "bulk_env_exfiltration",
     "wallet_or_session_theft_markers", "npm_token_worm", "release_toolchain_poisoning",
     "indirect_eval_payload", "ethereum_transaction_hook", "sandworm_markers",
     "ghostclaw_markers", "git_hook_injection", "shell_profile_persistence",
     "base64_exec_chain", "marshal_zlib_obfuscation", "getattr_builtins_indirection",
     "fernet_encrypted_payload", "clipboard_crypto_hijack", "steganographic_payload",
     "ctor_auto_init_antivirus", "crypto_key_scanner", "self_deletion_destructive",
     "defender_evasion", "smart_contract_c2", "trufflehog_gitleaks"}

StrongMaliciousChain(rule) ==
    /\ ClassifyRule(rule) = "malicious_behavior"
    /\ rule \notin WeakChainRules
    /\ MentionsAny(rule, StrongChains)

\* Behaviours, by the tags of a rule ...
TagBehaviors ==
    [remote_fetch |-> {"loader"}, dynamic_execution |-> {"loader"},
     install_or_build_execution |-> {"installer", "build"}, callback |-> {"callback"},
     reconnaissance |-> {"recon"}, exfiltration |-> {"exfil"},
     command_and_control |-> {"c2", "rat", "backdoor"},
     credential_or_wallet_theft |-> {"theft", "stealer"}, shell_execution |-> {"shell"},
     persistence_or_propagation |-> {"persistence", "worm"}, target_mutation |-> {"injection"},
     ci_targeting |-> {"ci"}, crypto_targeting |-> {"crypto"}]

\* ... and by what its name contains, wherever it contains it: the "rat" of
\* "crate" is command and control.
NameBehaviors ==
    [remote_fetch |-> {"loader", "downloader"},
     dynamic_execution |-> {"remote_code_fetch_exec", "indirect_eval"},
     callback |-> {"callback"}, reconnaissance |-> {"recon"}, exfiltration |-> {"exfil", "smtp"},
     command_and_control |-> {"c2", "rat", "backdoor", "smart_contract_c2"},
     shell_execution |-> {"shell", "powershell", "destructive"},
     credential_or_wallet_theft |-> {"credential", "wallet", "crypto", "clipboard"},
     browser_targeting |-> {"browser"},
     persistence_or_propagation |-> {"persistent", "persistence", "worm", "propagation"},
     target_mutation |-> {"injection", "asar", "mcp_server"}, cloud_exfiltration |-> {"workers"},
     ci_targeting |-> {"ci"}, install_or_build_execution |-> {"install", "build", "ctor_auto_init"},
     payload_drop |-> {"dropper"},
     obfuscation |-> {"obfuscation", "steganograph", "marshal", "fernet", "hex_encoded",
                      "base64_exec", "getattr_builtins", "pyarmor"},
     evasion |-> {"evasion", "defender"}, discord_or_telegram_channel |-> {"discord", "telegram"},
     crypto_targeting |-> {"miner"}]

DeriveBehaviorTags(rule, tags) ==
    {b \in DOMAIN TagBehaviors : TagBehaviors[b] \cap tags # {}} \cup
    {b \in DOMAIN NameBehaviors : MentionsAny(rule, NameBehaviors[b])}

\* rule_behavior_profile.
Profile ==
    [rule \in Rules |-> [match_class |-> ClassifyRule(rule.name),
                         behavior_tags |-> DeriveBehaviorTags(rule.name, rule.tags),
                         strong |-> StrongMaliciousChain(rule.name)]]

BehaviorGroup(tag) ==
    CASE tag \in {"remote_fetch", "dynamic_execution", "payload_drop", "shell_execution"} -> "execution"
      [] tag \in {"callback", "exfiltration", "cloud_exfiltration"} -> "exfiltration"
      [] tag \in {"reconnaissance", "ci_targeting"} -> "reconnaissance"
      [] tag \in {"credential_or_wallet_theft", "browser_targeting", "crypto_targeting"} -> "theft"
      [] tag = "persistence_or_propagation" -> "persistence"
      [] tag \in {"evasion", "obfuscation"} -> "stealth"
      [] tag \in {"command_and_control", "target_mutation", "install_or_build_execution"} -> tag
      [] OTHER -> "misc"

-----------------------------------------------------------------------------
(* The signal of a content scan: [matches, iocs].                          *)

SuspiciousContent == 8

TotalScore(matches) == MapThenSumSet(LAMBDA m : m.rule.score, matches)

\* Context alone is never suspicious.
ContentSuspicious(content) ==
    TotalScore({m \in content.matches : Profile[m.rule].match_class # "context_only"}) >= SuspiciousContent

OfClass(content, class) == {m \in content.matches : Profile[m.rule].match_class = class}

\* Matches that chain up to malware: a strong one that something concrete or
\* several behaviours bear out, or two that are concrete and differ in kind.
ConfidentMalware(content) ==
    LET malicious == OfClass(content, "malicious_behavior")
        strong    == \E m \in malicious : Profile[m.rule].strong
        tags      == UNION {Profile[m.rule].behavior_tags : m \in malicious}
        groups    == {BehaviorGroup(t) : t \in tags}
        borne_out == content.iocs \/ \E m \in malicious : m.pattern
    IN  \/ strong /\ (borne_out \/ Cardinality(groups) >= 2 \/ Cardinality(tags) >= 2)
        \/ Cardinality(groups) >= 2 /\ borne_out /\ Cardinality(malicious) >= 2

-----------------------------------------------------------------------------
(* Bursts of versions.  times: a sequence of [version, major, at]; major   *)
(* is "none" for a version that does not start with a number.              *)

InWindow(times, window) ==
    {i \in DOMAIN times : \A j \in DOMAIN times : times[i].at >= times[j].at - window}

MajorLines(times, window) == {times[i].major : i \in InWindow(times, window)} \ {"none"}

\* Entries are counted, whether or not they are different versions.
VersionBurst(times, config) ==
    /\ Cardinality(InWindow(times, config.window)) >= config.min_versions
    /\ Cardinality(MajorLines(times, config.window)) >= config.min_major_lines

-----------------------------------------------------------------------------
(* The assessment.  evidence: [tier, dependents, status, prerelease,       *)
(* scripts, longstanding, benign, metadata, content, burst, mismatch,      *)
(* diff]; diff is NoDiff or [added, removed, changed, manifest_only, hook],*)
(* and hook is NoHook, unless both releases' hooks were compared.          *)

NoHook == [known |-> FALSE]
NoDiff == [added |-> 0, removed |-> 0, changed |-> 0, manifest_only |-> FALSE, hook |-> NoHook]

\* is_package_manifest_only, of sets of paths.
ManifestNames == {"package.json", "Cargo.toml", "pyproject.toml", "setup.py", "setup.cfg"}
ManifestOnly(added, removed, changed, base_name) ==
    added = {} /\ removed = {} /\ changed # {} /\ \A p \in changed : base_name[p] \in ManifestNames

Scripts(evidence) ==
    IF evidence.diff.hook.known THEN evidence.diff.hook.target ELSE evidence.scripts

Longstanding(evidence) ==
    IF evidence.diff.hook.known THEN evidence.diff.hook.longstanding ELSE evidence.longstanding

HookChanged(evidence) == evidence.diff.hook.known /\ evidence.diff.hook.changed

RiskyInstall(evidence) ==
    Scripts(evidence) /\ ~evidence.benign /\ (~Longstanding(evidence) \/ HookChanged(evidence))

Touched(diff) == diff.added + diff.removed + diff.changed
ContentChanged(evidence) == Touched(evidence.diff) > 0
ContentLarge(evidence) == Touched(evidence.diff) >= 10 \/ evidence.diff.changed >= 5

Impacted(evidence) == evidence.tier \in {"medium", "high"} \/ evidence.dependents > 0

SeverityRank == [informational |-> 0, warning |-> 1, high |-> 2]
Verdict(severity, class) ==
    [severity |-> severity, class |-> class, suspicious |-> severity # "informational"]

\* The first that applies.
\* Mutant: the burst is only looked at once nothing else is found.
AssessBurstLast(evidence) ==
    IF OfClass(evidence.content, "malicious_behavior") # {}
    THEN Verdict("warning", "suspicious_unknown")
    ELSE IF RiskyInstall(evidence) THEN Verdict("warning", "risky_installer")
    ELSE IF evidence.mismatch THEN Verdict("informational", "clean")
    ELSE IF evidence.burst THEN Verdict("warning", "suspicious_unknown")
    ELSE Verdict("informational", "clean")

AssessRelease(evidence) ==
    IF ConfidentMalware(evidence.content) THEN Verdict("high", "malware")
    ELSE IF OfClass(evidence.content, "malicious_behavior") # {}
         THEN Verdict("warning", "suspicious_unknown")
    ELSE IF OfClass(evidence.content, "risky_installer") # {} \/ RiskyInstall(evidence)
         THEN Verdict("warning", "risky_installer")
    ELSE IF OfClass(evidence.content, "invasive_tooling") # {}
         THEN Verdict("warning", "invasive_tooling")
    ELSE IF evidence.metadata.suspicious \/ evidence.burst
         THEN Verdict("warning", "suspicious_unknown")
    ELSE IF evidence.status \in {"removed", "yanked"} /\ ContentChanged(evidence) /\ Impacted(evidence)
         THEN Verdict("warning", "suspicious_unknown")
    ELSE IF /\ evidence.mismatch /\ ~evidence.prerelease
            /\ ContentChanged(evidence) /\ ~evidence.diff.manifest_only
         THEN Verdict("informational", "clean")
    ELSE IF ContentLarge(evidence) /\ Impacted(evidence)
         THEN Verdict("warning", "suspicious_unknown")
    ELSE Verdict("informational", "clean")

\* The bundle a subscriber is sent while the release is news.
ShouldPublishLiveBundle(captured, evidence) == captured /\ AssessRelease(evidence).suspicious

\* The diff a bundle reads back: one that is ready or has no baseline.
BundleDiff(status, diff) == IF status \in {"ready", "no_baseline"} THEN diff ELSE NoDiff

-----------------------------------------------------------------------------
(* A fixture of the detection corpus passes when the verdict is the one    *)
(* expected, no severer than allowed, and its rules and behaviours show.   *)
FixturePasses(fixture, evidence) ==
    LET verdict == AssessRelease(evidence)
        rules   == {m.rule.name : m \in evidence.content.matches}
        tags    == UNION {Profile[m.rule].behavior_tags : m \in evidence.content.matches}
    IN  /\ verdict.class = fixture.class
        /\ SeverityRank[verdict.severity] <= SeverityRank[fixture.max_severity]
        /\ fixture.rules \subseteq rules
        /\ fixture.tags \subseteq tags

=============================================================================
