------------------------------- MODULE Evidence -------------------------------
(***************************************************************************)
(* The evidence of a scientific validation campaign and the report about   *)
(* it (validation/science).  Suites write one file for each computation    *)
(* (scripts/common.py); the loader turns files into records                *)
(* (evidence/loader.py), the version block decides how much they claim     *)
(* (evidence/versioning.py), and the report renders them                   *)
(* (scripts/generate_beta_report.py) while suites may still be writing.    *)
(*                                                                         *)
(* A computation stands for everything its identity hash covers but the    *)
(* campaign and the commit, and lies in one tier.                          *)
(***************************************************************************)
EXTENDS Integers, FiniteSets

CONSTANTS
    TierOf,       \* the tier of each computation
    MaxChanges,   \* files written, placed or moved to the attic (bound)
    MaxRenders    \* renderings begun (bound)

ASSUME EvidenceAssumption == MaxChanges \in Nat /\ MaxRenders \in Nat

Computation == DOMAIN TierOf
Tier == {TierOf[c] : c \in Computation}
Campaigns == {"old", "new"}

\* "fail" stands for every status that is neither pass nor insufficient_sampling.
Statuses == {"pass", "fail"}

\* A campaign runs at its commit, unless an override names the earlier one.
Runs == {<<"old", "before">>, <<"new", "target">>, <<"new", "before">>}
Texts == {"summary", "report", "readme"}

VARIABLES
    evidence,    \* the files of the evidence root
    manifest,    \* the campaign manifest as it is on disk
    hosted,      \* the archive manifest names an archive that is hosted
    render,      \* the report generator: its step and what it has read
    papers,   \* what the three documents say
    changes,     \* changes of the evidence root so far
    renders      \* renderings begun

evidenceVars == <<evidence, manifest, hosted, render, papers, changes, renders>>

Idle == [step |-> "idle"]
Unpublished == [claim |-> "absent"]

EvidenceInit ==
    /\ evidence = {}
    /\ manifest = "in_progress"
    /\ hosted = FALSE
    /\ render = Idle
    /\ papers = [d \in Texts |-> Unpublished]
    /\ changes = 0 /\ renders = 0

-------------------------------------------------------------------------------
(* Suites: result_record and write_result *)

Changed == changes < MaxChanges /\ changes' = changes + 1

\* The name of a file has no campaign or commit, so a record may find its name
\* taken: it is published beside the other, whose record is kept.  The same record
\* is written once.
WriteResult(record) ==
    /\ Changed
    /\ LET taken == {f \in evidence : f.record.of = record.of}
           again == \E f \in taken : f.run = 0 /\ f.record = record /\ f.form = "sound"
           run == Cardinality(taken)
       IN  evidence' = IF again THEN evidence
                       ELSE evidence \cup {[run |-> run, record |-> record, form |-> "sound"]}
    /\ UNCHANGED <<manifest, hosted, render, papers, renders>>

\* Files that an older version or a person put there: a record of the first schema,
\* or one that is not valid.
PlaceFile(record, form) ==
    /\ Changed
    /\ \A f \in evidence : f.record.of # record.of
    /\ evidence' = evidence \cup {[run |-> 0, record |-> record, form |-> form]}
    /\ UNCHANGED <<manifest, hosted, render, papers, renders>>

\* A superseded file is moved to the attic, which the loader skips.
Quarantine(f) ==
    /\ Changed
    /\ evidence' = evidence \ {f}
    /\ UNCHANGED <<manifest, hosted, render, papers, renders>>

CompleteCampaign ==
    /\ manifest = "in_progress" /\ manifest' = "complete"
    /\ UNCHANGED <<evidence, hosted, render, papers, changes, renders>>

-------------------------------------------------------------------------------
(* evidence/loader.py *)

InScope(f, campaign) == campaign = "any" \/ f.record.campaign = campaign

\* Two files with one record identity: the measured values differ, or not.
Doubled(files) ==
    \E f, g \in files : /\ f # g /\ f.record.of = g.record.of
                        /\ f.record.campaign = g.record.campaign
                        /\ f.record.commit = g.record.commit

\* A file that cannot be interpreted is a problem in every scope, because its
\* campaign is not known; a missing commit only in its own.
Problems(files, campaign) ==
    \/ \E f \in files : f.form = "invalid"
    \/ \E f \in files : /\ f.form \in {"sound", "legacy"} /\ InScope(f, campaign)
                        /\ f.record.commit = "unknown"
    \/ Doubled({f \in files : f.form \in {"sound", "legacy"} /\ InScope(f, campaign)})

\* The records of a scope.  Older ones are migrated in memory.
Records(files, campaign) ==
    {f.record : f \in {g \in files : /\ g.form \in {"sound", "legacy"}
                                     /\ InScope(g, campaign)
                                     /\ g.record.commit # "unknown"}}

\* build_evidence_archive.py packs the records of a campaign, and its manifest then
\* names the hosted file.
HostArchive ==
    /\ ~hosted /\ hosted' = TRUE
    /\ ~Problems(evidence, "new") /\ Records(evidence, "new") # {}
    /\ UNCHANGED <<evidence, manifest, render, papers, changes, renders>>

-------------------------------------------------------------------------------
(* evidence/versioning.py and the tables *)

\* A bug that Claim must not have: a complete manifest is enough.
ClaimOfManifest(records, given, status, asked) ==
    IF given /\ status = "complete" THEN "target_commit_revalidated"
    ELSE "partial_reaggregation"

\* build_version_block: the claim, or the refusal to render.  The manifest is of
\* the campaign "new" at the commit "target".
Claim(records, given, status, asked) ==
    IF given /\ asked \notin {"any", "new"} THEN "refused"
    ELSE IF ~given \/ status # "complete" THEN "partial_reaggregation"
    ELSE IF {r.commit : r \in records} # {"target"} THEN "refused"
    ELSE "target_commit_revalidated"

\* The campaign that the documents name.
NamedCampaign(given, asked) ==
    IF asked # "any" THEN asked ELSE IF given THEN "new" ELSE "none"

Of(records, tier) == {r \in records : TierOf[r.of] = tier}

\* build_tier_views: what is current, and what is listed as history only.
TierViews(current, all, campaign) ==
    [tier \in Tier |->
        LET others == IF campaign = "none" THEN {}
                      ELSE {r \in Of(all, tier) : r.campaign # campaign}
        IN  [current |-> Of(current, tier), history |-> others,
             scope |-> IF Of(current, tier) # {} THEN "current_campaign"
                       ELSE IF others # {} THEN "historical_reuse" ELSE "not_run"]]

\* build_support_matrix, one workload for each tier.
Label(records) ==
    LET seen == {r.status : r \in records}
    IN  CASE records = {} -> "not_run"
          [] "pass" \in seen /\ "fail" \notin seen -> "software_validated"
          [] OTHER -> "model_characterized"

\* The items of the GO checklist that can forbid the beta.
Verdict(views, given, status) ==
    IF /\ given /\ status = "complete"
       /\ hosted
       /\ \A tier \in Tier : views[tier].scope = "current_campaign"
    THEN "GO" ELSE "NO-GO"

-------------------------------------------------------------------------------
(* generate_beta_report.py *)

\* One load for the current tables; problems or no records at all: no report.
LoadScope(asked, given) ==
    /\ render = Idle /\ renders < MaxRenders
    /\ renders' = renders + 1
    /\ IF Problems(evidence, asked) \/ Records(evidence, asked) = {}
       THEN UNCHANGED render
       ELSE render' = [step |-> "loaded", asked |-> asked, given |-> given,
                       current |-> Records(evidence, asked)]
    /\ UNCHANGED <<evidence, manifest, hosted, papers, changes>>

Classify ==
    /\ render.step = "loaded"
    /\ LET claim == Claim(render.current, render.given, manifest, render.asked)
       IN  render' = IF claim = "refused" THEN Idle
                     ELSE [step |-> "classified", asked |-> render.asked,
                           given |-> render.given, current |-> render.current,
                           claim |-> claim, status |-> manifest]
    /\ UNCHANGED <<evidence, manifest, hosted, papers, changes, renders>>

\* A second load for the history, in which problems do not matter.
LoadAll ==
    /\ render.step = "classified"
    /\ LET campaign == NamedCampaign(render.given, render.asked)
           views == TierViews(render.current, Records(evidence, "any"), campaign)
       IN  render' =
            [step |-> "summary",
             text |-> [claim |-> render.claim, campaign |-> campaign,
                       asked |-> render.asked, views |-> views,
                       labels |-> [tier \in Tier |-> Label(Of(render.current, tier))],
                       verdict |-> Verdict(views, render.given, render.status)]]
    /\ UNCHANGED <<evidence, manifest, hosted, papers, changes, renders>>

NextDocument(d) ==
    CASE d = "summary" -> "report" [] d = "report" -> "readme" [] OTHER -> "idle"

PublishDocument(d) ==
    /\ render.step = d
    /\ papers' = [papers EXCEPT ![d] = render.text]
    /\ render' = IF d = "readme" THEN Idle
                 ELSE [step |-> NextDocument(d), text |-> render.text]
    /\ UNCHANGED <<evidence, manifest, hosted, changes, renders>>

\* The generator is killed, or a document cannot be written.
RenderDies ==
    /\ render # Idle /\ render' = Idle
    /\ UNCHANGED <<evidence, manifest, hosted, papers, changes, renders>>

Measurements ==
    {[of |-> c, campaign |-> run[1], commit |-> run[2], status |-> status] :
        c \in Computation, run \in Runs, status \in Statuses}

EvidenceNext ==
    \/ \E record \in Measurements : WriteResult(record)
    \/ \E c \in Computation, commit \in {"before", "unknown"}, form \in {"invalid", "legacy"} :
          PlaceFile([of |-> c, campaign |-> "old", commit |-> commit, status |-> "pass"], form)
    \/ \E f \in evidence : Quarantine(f)
    \/ CompleteCampaign \/ HostArchive
    \/ \E asked \in Campaigns \cup {"any"}, given \in BOOLEAN : LoadScope(asked, given)
    \/ Classify \/ LoadAll \/ RenderDies
    \/ \E d \in Texts : PublishDocument(d)

-------------------------------------------------------------------------------
(* Properties *)

EvidenceTypeOK ==
    /\ Cardinality(evidence) <= changes /\ changes <= MaxChanges
    /\ render.step \in {"idle", "loaded", "classified"} \cup Texts
    /\ renders \in 0..MaxRenders

\* What a document says is backed by the records it was rendered from, whatever was
\* written, completed or quarantined meanwhile: a claim of revalidation rests on
\* records of the target commit only; a GO for the beta is never given without that
\* claim; a workload counts as validated only if nothing in it failed; no
\* computation counts twice; and in a report of one campaign no record of another
\* one reaches the current tables, or is at once current and history.
ClaimIsBacked ==
    \A d \in Texts : papers[d] # Unpublished =>
        LET text == papers[d]
            current == UNION {text.views[tier].current : tier \in Tier}
        IN  /\ text.claim = "target_commit_revalidated" =>
                    \A r \in current : r.commit = "target"
            /\ text.verdict = "GO" => /\ text.claim = "target_commit_revalidated"
                                      /\ \A tier \in Tier : text.labels[tier] # "not_run"
            /\ \A tier \in Tier :
                  text.labels[tier] = "software_validated" =>
                      \A r \in text.views[tier].current : r.status # "fail"
            /\ \A r, q \in current :
                  r # q => <<r.of, r.campaign, r.commit>> # <<q.of, q.campaign, q.commit>>
            /\ text.asked # "any" =>
                  \A tier \in Tier :
                      /\ \A r \in text.views[tier].current : r.campaign = text.asked
                      /\ \A r \in text.views[tier].history : r.campaign # text.asked
===============================================================================
