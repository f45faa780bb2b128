---------------------------- MODULE DeclaredProofs ----------------------------
(***************************************************************************)
(* What is declared is what happens: a claim in the beta report is backed  *)
(* by its records (Evidence), a task is queued as its file declares it     *)
(* (TaskFile), a setting that wins takes effect (ConfigLayers), an MD run  *)
(* starts as it was asked (MDSetup), and a record of the validation        *)
(* campaign is backed by its computations (ScienceSuites), for any         *)
(* records, any number of tasks and atoms, and any steps.                  *)
(***************************************************************************)
EXTENDS Evidence, TaskFile, ConfigLayers, MDSetup, ScienceSuites,
        FiniteSetTheorems, SequenceTheorems, TLAPS

-------------------------------------------------------------------------------
(* Evidence *)

\* What a load gives the tables: no computation twice, and in a report of one
\* campaign no record of another one.
RecordsOK(records, asked) ==
    /\ \A r, q \in records :
          r # q => <<r.of, r.campaign, r.commit>> # <<q.of, q.campaign, q.commit>>
    /\ asked # "any" => \A r \in records : r.campaign = asked

\* What ClaimIsBacked says of one document.
TextOK(text) ==
    LET current == UNION {text.views[tier].current : tier \in Tier}
    IN  /\ text.claim = "target_commit_revalidated" =>
                \A r \in current : r.commit = "target"
        /\ text.verdict = "GO" => /\ text.claim = "target_commit_revalidated"
                                  /\ \A tier \in Tier : text.labels[tier] # "not_run"
        /\ \A tier \in Tier :
              text.labels[tier] = "software_validated" =>
                  \A r \in text.views[tier].current : r.status # "fail"
        /\ RecordsOK(current, "any")
        /\ text.asked # "any" =>
              \A tier \in Tier :
                  /\ \A r \in text.views[tier].current : r.campaign = text.asked
                  /\ \A r \in text.views[tier].history : r.campaign # text.asked

\* The report generator has read such records, and its claim is the one they allow.
RenderOK ==
    /\ render.step \in {"loaded", "classified"} =>
          RecordsOK(render.current, render.asked) /\ render.given \in BOOLEAN
    /\ render.step = "classified" =>
          /\ render.claim # "refused"
          /\ render.claim = Claim(render.current, render.given, render.status, render.asked)
    /\ render.step \in Texts => TextOK(render.text)

EvidenceInv ==
    /\ DOMAIN papers = Texts /\ papers = [d \in Texts |-> papers[d]]
    /\ RenderOK
    /\ \A d \in Texts : papers[d] # Unpublished => TextOK(papers[d])

\* Records of files without problems are such records.  (loader.py.)
LEMMA LoadIsSound ==
    ASSUME NEW files, NEW asked, ~Problems(files, asked)
    PROVE  RecordsOK(Records(files, asked), asked)
<1> DEFINE valid == {f \in files : f.form \in {"sound", "legacy"} /\ InScope(f, asked)}
<1>1. ~Doubled(valid)
  BY DEF Problems
<1>2. ASSUME NEW r \in Records(files, asked) PROVE \E f \in valid : r = f.record
  BY DEF Records
<1>3. \A r, q \in Records(files, asked) :
         r # q => <<r.of, r.campaign, r.commit>> # <<q.of, q.campaign, q.commit>>
  <2> SUFFICES ASSUME NEW r \in Records(files, asked), NEW q \in Records(files, asked), r # q,
                      r.of = q.of, r.campaign = q.campaign, r.commit = q.commit
               PROVE  FALSE
    OBVIOUS
  <2>1. PICK f \in valid : r = f.record
    BY <1>2
  <2>2. PICK g \in valid : q = g.record
    BY <1>2
  <2> QED BY <2>1, <2>2, <1>1 DEF Doubled
<1>4. ASSUME asked # "any", NEW r \in Records(files, asked) PROVE r.campaign = asked
  <2>1. PICK f \in valid : r = f.record
    BY <1>2
  <2> QED BY <2>1, <1>4 DEF InScope
<1> QED BY <1>3, <1>4 DEF RecordsOK

\* The text made of such records, with the claim they allow, is backed.
\* (_render_report, build_tier_views, build_support_matrix.)
LEMMA TextIsBacked ==
    ASSUME NEW current, NEW all, NEW asked, NEW given \in BOOLEAN, NEW status,
           NEW claim,            RecordsOK(current, asked), claim # "refused",
           claim = Claim(current, given, status, asked)
    PROVE  LET campaign == NamedCampaign(given, asked)
               views == TierViews(current, all, campaign)
           IN  TextOK([claim |-> claim, campaign |-> campaign, asked |-> asked, views |-> views,
                       labels |-> [tier \in Tier |-> Label(Of(current, tier))],
                       verdict |-> Verdict(views, given, status)])
<1> DEFINE campaign == NamedCampaign(given, asked)
           views == TierViews(current, all, campaign)
           verdict == Verdict(views, given, status)
           labels == [tier \in Tier |-> Label(Of(current, tier))]
           listed == UNION {views[tier].current : tier \in Tier}
<1>1. \A tier \in Tier : views[tier].current = Of(current, tier) /\ Of(current, tier) \subseteq current
  BY DEF TierViews, Of
<1>2. listed \subseteq current
  BY <1>1
<1>3. claim = "target_commit_revalidated" => \A r \in listed : r.commit = "target"
  <2> SUFFICES ASSUME claim = "target_commit_revalidated", NEW r \in current PROVE r.commit = "target"
    BY <1>2
  <2>1. {q.commit : q \in current} = {"target"}
    BY DEF Claim
  <2> QED BY <2>1
<1>4. verdict = "GO" => /\ claim = "target_commit_revalidated"
                        /\ \A tier \in Tier : labels[tier] # "not_run"
  <2> SUFFICES ASSUME verdict = "GO"
               PROVE  /\ claim = "target_commit_revalidated"
                      /\ \A tier \in Tier : labels[tier] # "not_run"
    OBVIOUS
  <2>1. given /\ status = "complete" /\ \A tier \in Tier : views[tier].scope = "current_campaign"
    BY DEF Verdict
  <2>2. claim = "target_commit_revalidated"
    BY <2>1 DEF Claim
  <2>3. ASSUME NEW tier \in Tier PROVE Of(current, tier) # {}
    <3>1. views[tier].scope = IF Of(current, tier) # {} THEN "current_campaign"
                               ELSE IF views[tier].history # {} THEN "historical_reuse"
                               ELSE "not_run"
      BY DEF TierViews
    <3> HIDE DEF views
    <3> QED BY <2>1, <3>1
  <2>4. ASSUME NEW tier \in Tier PROVE labels[tier] # "not_run"
    BY <2>3 DEF Label
  <2> QED BY <2>2, <2>4
<1>5. ASSUME NEW tier \in Tier, labels[tier] = "software_validated", NEW r \in views[tier].current
      PROVE  r.status # "fail"
  <2>1. labels[tier] = Label(Of(current, tier)) /\ r \in Of(current, tier)
    BY <1>1
  <2>2. Of(current, tier) # {} /\ "fail" \notin {q.status : q \in Of(current, tier)}
    BY <2>1, <1>5 DEF Label
  <2> QED BY <2>1, <2>2
<1>6. RecordsOK(listed, "any")
  BY <1>2 DEF RecordsOK
<1>7. ASSUME asked # "any", NEW tier \in Tier
      PROVE  /\ \A r \in views[tier].current : r.campaign = asked
             /\ \A r \in views[tier].history : r.campaign # asked
  <2>1. campaign = asked
    BY <1>7 DEF NamedCampaign
  <2>2. \A r \in views[tier].history : r.campaign # campaign
    BY DEF TierViews
  <2> QED BY <1>1, <2>1, <2>2, <1>7 DEF RecordsOK
<1> HIDE DEF campaign, views, verdict, labels
<1>8. TextOK([claim |-> claim, campaign |-> campaign, asked |-> asked, views |-> views,
              labels |-> labels, verdict |-> verdict])
  BY <1>3, <1>4, <1>5, <1>6, <1>7 DEF TextOK
<1> QED BY <1>8 DEF campaign, views, verdict, labels

LEMMA EvidenceStep ==
    ASSUME EvidenceInv, [EvidenceNext]_evidenceVars
    PROVE  EvidenceInv'
<1> USE DEF EvidenceInv
<1>1. ASSUME NEW record \in Measurements, WriteResult(record) PROVE EvidenceInv'
  BY <1>1 DEF WriteResult, RenderOK
<1>2. ASSUME NEW record, NEW form, PlaceFile(record, form) PROVE EvidenceInv'
  BY <1>2 DEF PlaceFile, RenderOK
<1>3. ASSUME NEW f \in evidence, Quarantine(f) PROVE EvidenceInv'
  BY <1>3 DEF Quarantine, RenderOK
<1>4. CASE CompleteCampaign \/ HostArchive
  BY <1>4 DEF CompleteCampaign, HostArchive, RenderOK
<1>5. ASSUME NEW asked, NEW given \in BOOLEAN, LoadScope(asked, given) PROVE EvidenceInv'
  <2>1. CASE UNCHANGED render
    BY <1>5, <2>1 DEF LoadScope, RenderOK
  <2>2. CASE /\ ~Problems(evidence, asked)
             /\ render' = [step |-> "loaded", asked |-> asked, given |-> given,
                           current |-> Records(evidence, asked)]
    <3>1. RecordsOK(Records(evidence, asked), asked)
      BY <2>2, LoadIsSound
    <3> QED BY <1>5, <2>2, <3>1 DEF LoadScope, RenderOK, Texts
  <2> QED BY <1>5, <2>1, <2>2 DEF LoadScope
<1>6. CASE Classify
  <2> DEFINE claim == Claim(render.current, render.given, manifest, render.asked)
  <2>1. /\ render.step = "loaded" /\ render.given \in BOOLEAN
        /\ RecordsOK(render.current, render.asked)
    BY <1>6 DEF Classify, RenderOK
  <2>2. CASE claim = "refused"
    BY <1>6, <2>2 DEF Classify, RenderOK, Idle, Texts
  <2>3. CASE claim # "refused"
    <3>1. render' = [step |-> "classified", asked |-> render.asked,
                           given |-> render.given, current |-> render.current,
                           claim |-> claim, status |-> manifest]
      BY <1>6, <2>3 DEF Classify
    <3> HIDE DEF claim
    <3>2. /\ render'.step = "classified" /\ render'.current = render.current
          /\ render'.asked = render.asked /\ render'.given = render.given
          /\ render'.claim = claim /\ render'.status = manifest
      BY <3>1
    <3>3. RenderOK'
      BY <3>2, <2>1, <2>3 DEF RenderOK, Texts, claim
    <3> QED BY <1>6, <3>3 DEF Classify
  <2> QED BY <2>2, <2>3
<1>7. CASE LoadAll
  <2> DEFINE all == Records(evidence, "any")
             campaign == NamedCampaign(render.given, render.asked)
             views == TierViews(render.current, all, campaign)
             text == [claim |-> render.claim, campaign |-> campaign,
                       asked |-> render.asked, views |-> views,
                       labels |-> [tier \in Tier |-> Label(Of(render.current, tier))],
                       verdict |-> Verdict(views, render.given, render.status)]
  <2>1. render.step = "classified"
    BY <1>7 DEF LoadAll
  <2>2. TextOK(text)
    <3>1. /\ RecordsOK(render.current, render.asked) /\ render.claim # "refused"
          /\ render.given \in BOOLEAN
          /\ render.claim = Claim(render.current, render.given, render.status, render.asked)
      BY <2>1 DEF RenderOK
    <3> QED BY <3>1, TextIsBacked
  <2>3. render' = [step |-> "summary", text |-> text]
    BY <1>7 DEF LoadAll
  <2> HIDE DEF text
  <2>4. RenderOK'
    BY <2>2, <2>3 DEF RenderOK, TextOK
  <2> QED BY <1>7, <2>4 DEF LoadAll
<1>8. ASSUME NEW d \in Texts, PublishDocument(d) PROVE EvidenceInv'
  <2>1. TextOK(render.text)
    BY <1>8 DEF PublishDocument, RenderOK
  <2>2. papers' = [papers EXCEPT ![d] = render.text]
    BY <1>8 DEF PublishDocument
  <2>3. CASE d = "readme"
    <3>1. RenderOK'
      BY <1>8, <2>3 DEF PublishDocument, RenderOK, Idle, Texts
    <3> QED BY <2>1, <2>2, <3>1
  <2>4. CASE d # "readme"
    <3>1. render' = [step |-> NextDocument(d), text |-> render.text]
      BY <1>8, <2>4 DEF PublishDocument
    <3>2. NextDocument(d) \in {"report", "readme"}
      BY <2>4 DEF NextDocument, Texts
    <3>3. RenderOK'
      BY <3>1, <3>2, <2>1 DEF RenderOK
    <3> QED BY <2>1, <2>2, <3>3
  <2> QED BY <2>3, <2>4
<1>9. CASE RenderDies
  BY <1>9 DEF RenderDies, RenderOK, Idle, Texts
<1>10. CASE UNCHANGED evidenceVars
  BY <1>10 DEF evidenceVars, RenderOK
<1> QED BY <1>1, <1>2, <1>3, <1>4, <1>5, <1>6, <1>7, <1>8, <1>9, <1>10 DEF EvidenceNext

THEOREM ReportIsBacked == EvidenceInit /\ [][EvidenceNext]_evidenceVars => []ClaimIsBacked
<1>1. EvidenceInit => EvidenceInv
  BY DEF EvidenceInit, EvidenceInv, RenderOK, Idle, Texts
<1>2. EvidenceInv => ClaimIsBacked
  BY DEF EvidenceInv, ClaimIsBacked, TextOK, RecordsOK
<1> QED BY <1>1, <1>2, EvidenceStep, PTL

\* A change of the root adds one file or removes one.
EvidenceTypes == EvidenceTypeOK /\ IsFiniteSet(evidence) /\ changes \in Nat

LEMMA EvidenceTypesStep ==
    ASSUME EvidenceTypes, [EvidenceNext]_evidenceVars
    PROVE  EvidenceTypes'
<1> DEFINE Count == Cardinality(evidence)
           Words == {"idle", "loaded", "classified"} \cup Texts
           Root == IsFiniteSet(evidence) /\ changes \in Nat /\ Count <= changes /\ changes <= MaxChanges
           Rendering == render.step \in Words /\ renders \in 0..MaxRenders
<1>1. Root /\ Rendering /\ Count \in Nat /\ MaxChanges \in Nat /\ MaxRenders \in Nat
  BY FS_CardinalityType, EvidenceAssumption DEF EvidenceTypes, EvidenceTypeOK, EvidenceAssumption
<1>2. ASSUME Changed, NEW f, evidence' = evidence \/ evidence' = evidence \cup {f} \/ evidence' = evidence \ {f}
      PROVE  Root'
  <2>1. changes' = changes + 1 /\ changes < MaxChanges
    BY <1>2 DEF Changed
  <2>2. IsFiniteSet(evidence') /\ Cardinality(evidence') <= Count + 1
    <3>1. CASE evidence' = evidence
      BY <1>1, <3>1
    <3>2. CASE evidence' = evidence \cup {f}
      <4>1. /\ IsFiniteSet(evidence \cup {f})
            /\ Cardinality(evidence \cup {f}) = IF f \in evidence THEN Count ELSE Count + 1
        BY <1>1, FS_AddElement
      <4> QED BY <1>1, <3>2, <4>1
    <3>3. CASE evidence' = evidence \ {f}
      BY <1>1, <3>3, FS_RemoveElement
    <3> QED BY <1>2, <3>1, <3>2, <3>3
  <2>3. Cardinality(evidence') \in Nat
    BY <2>2, FS_CardinalityType
  <2> QED BY <1>1, <2>1, <2>2, <2>3
<1>3. ASSUME UNCHANGED <<evidence, changes>> PROVE Root'
  BY <1>1, <1>3
<1>4. ASSUME UNCHANGED <<render, renders>> PROVE Rendering'
  BY <1>1, <1>4
<1> HIDE DEF Root, Rendering
<1>5. ASSUME NEW record \in Measurements, WriteResult(record) PROVE Root' /\ Rendering'
  <2>1. \E f : evidence' = evidence \/ evidence' = evidence \cup {f}
    BY <1>5 DEF WriteResult
  <2> QED BY <1>2, <1>4, <1>5, <2>1 DEF WriteResult
<1>6. ASSUME NEW record, NEW form, PlaceFile(record, form) PROVE Root' /\ Rendering'
  BY <1>2, <1>4, <1>6 DEF PlaceFile
<1>7. ASSUME NEW f \in evidence, Quarantine(f) PROVE Root' /\ Rendering'
  BY <1>2, <1>4, <1>7 DEF Quarantine
<1>8. ASSUME CompleteCampaign \/ HostArchive \/ UNCHANGED evidenceVars PROVE Root' /\ Rendering'
  BY <1>3, <1>4, <1>8 DEF CompleteCampaign, HostArchive, evidenceVars
<1>9. ASSUME NEW asked, NEW given, LoadScope(asked, given) PROVE Root' /\ Rendering'
  <2>1. render' = render \/ render'.step = "loaded"
    BY <1>9 DEF LoadScope
  <2>2. renders' = renders + 1 /\ renders < MaxRenders
    BY <1>9 DEF LoadScope
  <2>3. Rendering'
    BY <1>1, <2>1, <2>2 DEF Rendering
  <2> QED BY <1>3, <1>9, <2>3 DEF LoadScope
<1>10. ASSUME Classify \/ LoadAll \/ RenderDies PROVE Root' /\ Rendering'
  <2>1. render'.step \in Words /\ renders' = renders
    <3>1. Idle.step \in Words
      BY DEF Idle
    <3>2. CASE Classify
      BY <3>1, <3>2 DEF Classify
    <3>3. CASE LoadAll
      BY <3>3 DEF LoadAll, Texts
    <3>4. CASE RenderDies
      BY <3>1, <3>4 DEF RenderDies
    <3> QED BY <1>10, <3>2, <3>3, <3>4
  <2>2. Rendering'
    BY <1>1, <2>1 DEF Rendering
  <2> QED BY <1>3, <1>10, <2>2 DEF Classify, LoadAll, RenderDies
<1>11. ASSUME NEW d \in Texts, PublishDocument(d) PROVE Root' /\ Rendering'
  <2>1. render'.step \in Words /\ renders' = renders
    BY <1>11 DEF PublishDocument, NextDocument, Texts, Idle
  <2>2. Rendering'
    BY <1>1, <2>1 DEF Rendering
  <2> QED BY <1>3, <1>11, <2>2 DEF PublishDocument
<1>12. Root' /\ Rendering'
  BY <1>5, <1>6, <1>7, <1>8, <1>9, <1>10, <1>11 DEF EvidenceNext
<1> QED BY <1>12 DEF Root, Rendering, EvidenceTypes, EvidenceTypeOK

\* The evidence root and the report generator have their types: there are no more
\* files than changes of the root.
THEOREM EvidenceTypesCorrect == EvidenceInit /\ [][EvidenceNext]_evidenceVars => []EvidenceTypeOK
<1>1. EvidenceInit => EvidenceTypes
  BY FS_EmptySet, EvidenceAssumption
  DEF EvidenceInit, EvidenceTypes, EvidenceTypeOK, EvidenceAssumption, Idle
<1>2. EvidenceTypes => EvidenceTypeOK
  BY DEF EvidenceTypes
<1> QED BY <1>1, <1>2, EvidenceTypesStep, PTL

-------------------------------------------------------------------------------
(* TaskFile *)

\* The tasks that a file can declare.
TaskForms ==
    [calc : {"opt", "md", "neb"}, engine : EngineNames \cup {"absent"},
     device : {"absent", "cpu"}, path : [PathFields -> PathValues],
     mapping : {"absent", "indices", "bad"},
     options : UNION {[K -> FileValues] : K \in SUBSET FileKeys}]

\* The tasks are as they were checked while their jobs are queued, in their order.
FileInv ==
    /\ tasks \in Seq(TaskForms) /\ commands \in Seq({CommandOf(t) : t \in TaskForms})
    /\ Len(commands) <= Len(tasks)
    /\ submission \in {"drafted", "refused"} => commands = << >>
    /\ submission \in {"queueing", "reported"} => \A i \in DOMAIN tasks : Sound(tasks[i])
    /\ submission = "queueing" => Len(commands) < Len(tasks)
    /\ submission = "reported" => Len(commands) = Len(tasks)
    /\ \A i \in DOMAIN commands : commands[i] = CommandOf(tasks[i]) /\ Sound(tasks[i])

\* The command of a task that was accepted carries the task out.
\* (parse_task_file, build_mliport_command.)
LEMMA SoundTaskIsCarriedOut ==
    ASSUME NEW t \in TaskForms, Sound(t)
    PROVE  LET c == CommandOf(t)
           IN  /\ CarriesOut(c, t)
               /\ ResumesRun(t) => c.engine = Recorded.engine /\ c.path["output_dir"] = "absent"
               /\ \A f \in PathFields : c.path[f] # "relative"
               /\ \A f \in PathFields \ {"output_dir"} : c.path[f] # "missing"
<1> DEFINE c == CommandOf(t)
<1>1. /\ c.calc = t.calc /\ c.engine = BackendOf(t) /\ c.flags = Flags(t)
      /\ c.device = IF t.device # "absent" THEN t.device
                    ELSE IF ResumesRun(t) THEN Recorded.device ELSE "cpu"
      /\ \A f \in PathFields : c.path[f] =
            IF f = "model" /\ t.path[f] = "absent" THEN "recorded model"
            ELSE IF f = "output_dir" /\ ResumesRun(t) THEN "absent"
            ELSE IF f = "output_dir" /\ t.path[f] = "absent" THEN "results beside the file"
            ELSE Frozen(t.path[f])
  BY DEF CommandOf
<1>2. \A f \in PathFields : t.path[f] \in PathValues
  BY DEF TaskForms
<1>3. \A f \in PathFields \ {"output_dir"} : t.path[f] # "missing"
  BY DEF Sound, BadFields
<1>4. "output_dir" \in PathFields /\ \A v \in PathValues :
         /\ Frozen(v) # "relative"
         /\ v # "missing" => Frozen(v) # "missing"
  BY DEF PathFields, PathValues, Frozen
<1> HIDE DEF c
<1>5. \A f \in PathFields : c.path[f] # "relative"
  BY <1>1, <1>2, <1>4
<1>6. \A f \in PathFields \ {"output_dir"} : c.path[f] # "missing"
  BY <1>1, <1>2, <1>3, <1>4
<1>7. ResumesRun(t) => c.engine = Recorded.engine /\ c.path["output_dir"] = "absent"
  BY <1>1, <1>4 DEF Sound, BadBackend, BackendOf
<1>8. \A f \in PathFields \ {"output_dir"} : t.path[f] # "absent" => c.path[f] = Frozen(t.path[f])
  BY <1>1
<1>9. ASSUME NEW k \in DOMAIN t.options, ~(k = "inference_mode" /\ c.engine # "uma")
      PROVE  Canonical(k) \in DOMAIN c.flags /\ c.flags[Canonical(k)] = t.options[k]
  <2> DEFINE o == Canonical(k)
             l == CHOOSE x \in DOMAIN t.options : Canonical(x) = o
  <2>1. l \in DOMAIN t.options /\ Canonical(l) = o
    OBVIOUS
  <2>2. t.options[l] = t.options[k]
    BY <2>1 DEF Sound, BadOptions, Conflicting
  <2>3. Forwarded(o, BackendOf(t))
    BY <1>1, <1>9 DEF Forwarded, Canonical
  <2>4. o \in DOMAIN Flags(t) /\ Flags(t)[o] = t.options[l]
    BY <2>3 DEF Flags
  <2> QED BY <1>1, <2>2, <2>4
<1>10. \A o \in DOMAIN c.flags : \E k \in DOMAIN t.options : Canonical(k) = o
  BY <1>1 DEF Flags
<1>11. t.engine # "absent" => c.engine = t.engine
  BY <1>1 DEF BackendOf
<1>12. t.device # "absent" => c.device = t.device
  BY <1>1
<1>13. CarriesOut(c, t)
  BY <1>1, <1>8, <1>9, <1>10, <1>11, <1>12 DEF CarriesOut
<1> QED BY <1>5, <1>6, <1>7, <1>13 DEF c

\* A change of the user leaves a task of the file.
LEMMA AmendedIsATask ==
    ASSUME NEW i \in DOMAIN tasks, tasks \in Seq(TaskForms), AmendTask(i)
    PROVE  /\ tasks' \in Seq(TaskForms) /\ submission = "drafted"
           /\ UNCHANGED <<submission, commands>>
<1>1. tasks[i] \in TaskForms /\ i \in 1..Len(tasks)
  BY ElementOfSeq, LenProperties
<1>2. PICK t \in TaskForms : t = tasks[i]
  BY <1>1
<1>3. ASSUME NEW u \in TaskForms, Amend(i, u)
      PROVE  /\ tasks' \in Seq(TaskForms) /\ submission = "drafted"
             /\ UNCHANGED <<submission, commands>>
  BY <1>1, <1>3, ExceptSeq DEF Amend
<1>4. ASSUME NEW f \in PathFields, NEW v \in PathValues
      PROVE  [t EXCEPT !.path[f] = v] \in TaskForms
  BY DEF TaskForms
<1>5. ASSUME NEW key \in FileKeys, NEW v \in FileValues
      PROVE  [t EXCEPT !.options = [k \in DOMAIN @ \cup {key} |-> IF k = key THEN v ELSE @[k]]]
                \in TaskForms
  <2> DEFINE more == [k \in DOMAIN t.options \cup {key} |-> IF k = key THEN v ELSE t.options[k]]
  <2>1. PICK K \in SUBSET FileKeys : t.options \in [K -> FileValues]
    BY Zenon DEF TaskForms
  <2>2. more \in [K \cup {key} -> FileValues]
    BY <2>1
  <2>3. more \in UNION {[L -> FileValues] : L \in SUBSET FileKeys}
    BY <2>2
  <2> HIDE DEF more
  <2>4. [t EXCEPT !.options = more] \in TaskForms
    BY <2>3 DEF TaskForms
  <2> QED BY <2>4 DEF more
<1>6. /\ [t EXCEPT !.engine = "absent"] \in TaskForms
      /\ [t EXCEPT !.device = "cpu"] \in TaskForms
      /\ \A v \in {"indices", "bad"} : [t EXCEPT !.mapping = v] \in TaskForms
  BY DEF TaskForms
<1>7. CASE \E f \in PathFields, v \in PathValues : Amend(i, [tasks[i] EXCEPT !.path[f] = v])
  BY <1>2, <1>3, <1>4, <1>7
<1>8. CASE \E key \in FileKeys \ DOMAIN tasks[i].options, v \in FileValues :
              Amend(i, [tasks[i] EXCEPT !.options =
                           [k \in DOMAIN @ \cup {key} |-> IF k = key THEN v ELSE @[k]]])
  <2>1. PICK key \in FileKeys, v \in FileValues :
              Amend(i, [tasks[i] EXCEPT !.options =
                           [k \in DOMAIN @ \cup {key} |-> IF k = key THEN v ELSE @[k]]])
    BY <1>8
  <2>2. [tasks[i] EXCEPT !.options =
            [k \in DOMAIN @ \cup {key} |-> IF k = key THEN v ELSE @[k]]] \in TaskForms
    BY <1>2, <1>5
  <2> QED BY <2>1, <2>2, <1>3
<1>9. CASE \/ Amend(i, [tasks[i] EXCEPT !.engine = "absent"])
           \/ Amend(i, [tasks[i] EXCEPT !.device = "cpu"])
           \/ \E v \in {"indices", "bad"} : Amend(i, [tasks[i] EXCEPT !.mapping = v])
  BY <1>2, <1>3, <1>6, <1>9
<1> QED BY <1>7, <1>8, <1>9 DEF AmendTask

LEMMA FileStep ==
    ASSUME FileInv, [TaskFileNext]_taskVars
    PROVE  FileInv'
<1> USE DEF FileInv
<1>1. ASSUME NEW kind \in {"opt", "md", "neb", "resume"}, NEW engine \in EngineNames,
             Draft(kind, engine)
      PROVE  FileInv'
  <2>1. Plain(kind, engine) \in TaskForms
    <3> DEFINE none == << >>
    <3>1. none \in [{} -> FileValues]
      OBVIOUS
    <3>2. none \in UNION {[K -> FileValues] : K \in SUBSET FileKeys}
      BY <3>1
    <3> HIDE DEF none
    <3>3. [f \in PathFields |->
            CASE f = "model" /\ kind # "resume" -> "absolute"
              [] f = "structure" /\ kind \in {"opt", "md"} -> "relative"
              [] f \in {"initial", "final"} /\ kind = "neb" -> "relative"
              [] f = "resume" /\ kind = "resume" -> "relative"
              [] OTHER -> "absent"] \in [PathFields -> PathValues]
      BY DEF PathFields, PathValues
    <3> QED BY <3>2, <3>3 DEF Plain, TaskForms, none
  <2>2. /\ submission = "drafted" /\ submission' = submission /\ commands' = commands
        /\ tasks' = Append(tasks, Plain(kind, engine))
    BY <1>1 DEF Draft
  <2> QED BY <2>1, <2>2
<1>2. ASSUME NEW i \in DOMAIN tasks, AmendTask(i) PROVE FileInv'
  BY <1>2, AmendedIsATask
<1>3. CASE ParseTasks
  <2>1. /\ submission = "drafted" /\ UNCHANGED <<tasks, commands>>
        /\ submission' = IF tasks # << >> /\ \A i \in DOMAIN tasks : Sound(tasks[i])
                         THEN "queueing" ELSE "refused"
    BY <1>3 DEF ParseTasks
  <2> QED BY <2>1
<1>4. CASE EnqueueTask
  <2> DEFINE next == Len(commands) + 1
             t == tasks[next]
  <2>1. /\ submission = "queueing" /\ tasks' = tasks
        /\ commands' = Append(commands, CommandOf(t))
        /\ submission' = IF Len(commands') = Len(tasks) THEN "reported" ELSE submission
    BY <1>4 DEF EnqueueTask
  <2>2. next \in DOMAIN tasks /\ t \in TaskForms /\ Sound(t)
    BY <2>1, ElementOfSeq, LenProperties
  <2>3. /\ commands' \in Seq({CommandOf(u) : u \in TaskForms})
        /\ Len(commands') = next
        /\ \A i \in 1..Len(commands) : commands'[i] = commands[i]
        /\ commands'[next] = CommandOf(t) /\ DOMAIN commands' = 1..next
        /\ DOMAIN commands = 1..Len(commands) /\ Len(commands) \in Nat
    BY <2>1, <2>2, AppendProperties, LenProperties
  <2>4. Len(tasks) \in Nat
    BY LenProperties
  <2> HIDE DEF t
  <2>5. \A i \in DOMAIN commands' : commands'[i] = CommandOf(tasks'[i]) /\ Sound(tasks'[i])
    <3> SUFFICES ASSUME NEW i \in 1..next
                 PROVE  commands'[i] = CommandOf(tasks[i]) /\ Sound(tasks[i])
      BY <2>1, <2>3
    <3>1. CASE i = next
      BY <2>2, <2>3, <3>1 DEF t
    <3>2. CASE i # next
      <4>1. i \in 1..Len(commands)
        BY <2>3, <3>2
      <4> QED BY <4>1, <2>3
    <3> QED BY <3>1, <3>2
  <2> QED BY <2>1, <2>3, <2>4, <2>5
<1>5. CASE EnqueueBreaks
  BY <1>5 DEF EnqueueBreaks
<1>6. CASE UNCHANGED taskVars
  BY <1>6 DEF taskVars
<1> QED BY <1>1, <1>2, <1>3, <1>4, <1>5, <1>6 DEF TaskFileNext

\* The command of a queued job carries out its task, for files of any length, but
\* for an inference_mode given to another backend than UMA (queue.py:298-302).
THEOREM QueuedAsDeclared == TaskFileSpec => []QueuedIsDeclared
<1>1. TaskFileInit => FileInv
  BY EmptySeq DEF TaskFileInit, FileInv
<1>2. FileInv => QueuedIsDeclared
  <2> SUFFICES ASSUME FileInv PROVE QueuedIsDeclared
    OBVIOUS
  <2> USE DEF FileInv
  <2>1. ASSUME NEW i \in DOMAIN commands
        PROVE  tasks[i] \in TaskForms /\ Sound(tasks[i]) /\ commands[i] = CommandOf(tasks[i])
    <3>1. i \in 1..Len(tasks)
      BY LenProperties
    <3> QED BY <3>1, ElementOfSeq
  <2> QED BY <2>1, SoundTaskIsCarriedOut DEF QueuedIsDeclared
<1> QED BY <1>1, <1>2, FileStep, PTL DEF TaskFileSpec

\* The bound on what the user does to the draft is kept.
TaskTypes ==
    /\ FileInv /\ TaskFileTypeOK
    /\ amended \in Nat

\* A draft grows or is amended within its bound; later it stays as it is.
LEMMA FileTypesStep ==
    ASSUME TaskTypes, [TaskFileNext]_taskVars
    PROVE  TaskTypes'
<1> DEFINE Words == {"drafted", "queueing", "reported", "refused", "broken"}
<1>1. FileInv' /\ Len(commands') <= Len(tasks')
  BY FileStep DEF TaskTypes, FileInv
<1>2. /\ submission \in Words /\ Len(tasks) + amended <= MaxDraft
      /\ tasks \in Seq(TaskForms) /\ Len(tasks) \in Nat /\ amended \in Nat /\ MaxDraft \in Nat
  BY TaskFileAssumption, LenProperties DEF TaskTypes, TaskFileTypeOK, FileInv, TaskFileAssumption
<1> DEFINE Drafting ==
               \/ tasks' = tasks /\ amended' = amended
               \/ /\ \E t : tasks' = Append(tasks, t)
                  /\ amended' = amended /\ Len(tasks) + amended < MaxDraft
               \/ /\ \E i, t : tasks' = [tasks EXCEPT ![i] = t]
                  /\ amended' = amended + 1 /\ Len(tasks) + amended < MaxDraft
<1>3. submission' \in Words /\ Drafting
  <2>1. ASSUME NEW kind, NEW engine, Draft(kind, engine) PROVE submission' \in Words /\ Drafting
    BY <1>2, <2>1 DEF Draft
  <2>2. ASSUME NEW i, AmendTask(i) PROVE submission' \in Words /\ Drafting
    BY <1>2, <2>2 DEF AmendTask, Amend
  <2>3. CASE ParseTasks \/ EnqueueTask \/ EnqueueBreaks \/ UNCHANGED taskVars
    BY <1>2, <2>3 DEF ParseTasks, EnqueueTask, EnqueueBreaks, taskVars
  <2> QED BY <2>1, <2>2, <2>3 DEF TaskFileNext
<1>4. amended' \in Nat /\ Len(tasks') + amended' <= MaxDraft
  BY <1>2, <1>3
<1> QED BY <1>1, <1>3, <1>4 DEF TaskTypes, TaskFileTypeOK

\* A task file has its types: the draft is within its bound, and no more jobs are
\* queued than tasks are declared.
THEOREM TaskFileTypesCorrect == TaskFileSpec => []TaskFileTypeOK
<1>1. TaskFileInit => TaskTypes
  BY TaskFileAssumption, EmptySeq DEF TaskFileInit, FileInv, TaskTypes, TaskFileTypeOK, TaskFileAssumption
<1>2. TaskTypes => TaskFileTypeOK
  BY DEF TaskTypes
<1> QED BY <1>1, <1>2, FileTypesStep, PTL DEF TaskFileSpec

-------------------------------------------------------------------------------
(* ConfigLayers *)

\* The places and their ranks.
LEMMA RanksOfPlaces ==
    /\ DOMAIN Places = 1..7
    /\ PlaceSet = {"settings", "engine:uma", "engine:mace", "alias", "profile", "incar", "cli"}
    /\ \A i \in 1..7 : Places[i] \in PlaceSet /\ Places[i] # "defaults" /\ Rank[Places[i]] = i
    /\ \A p \in PlaceSet : Rank[p] \in 1..7 /\ Places[Rank[p]] = p
    /\ SettingsPlaces = {"settings", "engine:uma", "engine:mace"}
<1>1. DOMAIN Places = 1..7
  BY DEF Places
<1>2. /\ Places[1] = "settings" /\ Places[2] = "engine:uma" /\ Places[3] = "engine:mace"
      /\ Places[4] = "alias" /\ Places[5] = "profile" /\ Places[6] = "incar" /\ Places[7] = "cli"
  BY DEF Places
<1>3. PlaceSet = {"settings", "engine:uma", "engine:mace", "alias", "profile", "incar", "cli"}
  <2>1. PlaceSet = {Places[i] : i \in 1..7}
    BY <1>1 DEF PlaceSet, Range
  <2> QED BY <2>1, <1>2
<1>4. \A i, j \in 1..7 : Places[i] = Places[j] => i = j
  BY <1>2
<1>5. ASSUME NEW i \in 1..7 PROVE Places[i] \in PlaceSet /\ Rank[Places[i]] = i
  <2>1. Places[i] \in PlaceSet
    BY <1>1 DEF PlaceSet, Range
  <2>2. Rank[Places[i]] = CHOOSE j \in 1..7 : Places[j] = Places[i]
    BY <1>1, <2>1 DEF Rank
  <2> QED BY <2>1, <2>2, <1>4
<1>6. ASSUME NEW p \in PlaceSet PROVE Rank[p] \in 1..7 /\ Places[Rank[p]] = p
  <2>1. PICK i \in 1..7 : p = Places[i]
    BY <1>1 DEF PlaceSet, Range
  <2> QED BY <2>1, <1>5
<1>7. SettingsPlaces = {"settings", "engine:uma", "engine:mace"}
  <2>1. SettingsPlaces = {Places[1], Places[2], Places[3]}
    BY DEF SettingsPlaces
  <2> QED BY <2>1, <1>2
<1>8. \A i \in 1..7 : Places[i] # "defaults"
  BY <1>2
<1> QED BY <1>1, <1>3, <1>5, <1>6, <1>7, <1>8

\* The maximum of some ranks is one of them and none is higher.
LEMMA MaxOfRanks ==
    ASSUME NEW S \in SUBSET (1..7), S # {}
    PROVE  Max(S) \in S /\ \A i \in S : i <= Max(S)
<1>1. \E m \in S : \A i \in S : m >= i
  <2>1. PICK k \in S : k \in 1..7
    OBVIOUS
  <2>2. CASE 7 \in S
    BY <2>2
  <2>3. CASE 7 \notin S /\ 6 \in S
    <3>1. \A i \in S : 6 >= i
      BY <2>3
    <3> QED BY <2>3, <3>1
  <2>4. CASE 7 \notin S /\ 6 \notin S /\ 5 \in S
    <3>1. \A i \in S : 5 >= i
      BY <2>4
    <3> QED BY <2>4, <3>1
  <2>5. CASE S \in SUBSET (1..4)
    <3>1. CASE 4 \in S
      BY <2>5, <3>1
    <3>2. CASE 4 \notin S /\ 3 \in S
      <4>1. \A i \in S : 3 >= i
        BY <2>5, <3>2
      <4> QED BY <3>2, <4>1
    <3>3. CASE S \in SUBSET (1..2)
      <4>1. CASE 2 \in S
        BY <3>3, <4>1
      <4>2. CASE 2 \notin S
        <5>1. \A i \in S : i = 1
          BY <3>3, <4>2
        <5> QED BY <2>1, <5>1
      <4> QED BY <4>1, <4>2
    <3>4. 4 \notin S /\ 3 \notin S => S \in SUBSET (1..2)
      BY <2>5
    <3> QED BY <3>1, <3>2, <3>3, <3>4
  <2>6. 7 \notin S /\ 6 \notin S /\ 5 \notin S => S \in SUBSET (1..4)
    OBVIOUS
  <2> QED BY <2>2, <2>3, <2>4, <2>5, <2>6
<1>2. Max(S) \in S /\ \A i \in S : Max(S) >= i
  BY <1>1 DEF Max
<1> QED BY <1>2

\* Nobody declares a key twice in one place, and a configuration is the outcome of
\* what is declared: no declaration is added once there is one.
LayersInv ==
    /\ declared \subseteq Declarations
    /\ \A d, e \in declared : d[1] = e[1] /\ d[2] = e[2] => d = e
    /\ calculation \in {"opt", "md"}
    /\ resolved.kind = "config" =>
          LET source == Sources(Merged(Selected))
          IN  /\ Selected # "blank"
              /\ ~OutOfScope(source, Selected)
              /\ resolved.engine = FinalValue(source, "engine")
              /\ resolved.source = Provenance(source)
              /\ resolved.received = Received(source)

\* A place that declares a key says one of its values.
LEMMA ValueIsDeclared ==
    ASSUME LayersInv, NEW d \in declared
    PROVE  /\ ValueAt(d[1], d[2]) = d[3]
           /\ d[1] \in PlaceSet /\ d[2] \in OptionKeys /\ d[3] \in OptionValues[d[2]]
           /\ d[3] # "blank"
<1>1. d \in Declarations
  BY DEF LayersInv
<1>2. d[1] \in PlaceSet /\ d[2] \in OptionKeys /\ d[3] \in OptionValues[d[2]]
  BY <1>1 DEF Declarations
<1>3. d[3] # "blank"
  BY <1>2 DEF OptionKeys, OptionValues, Backends
<1>4. {e \in declared : e[1] = d[1] /\ e[2] = d[2]} = {d}
  BY DEF LayersInv
<1>5. ValueAt(d[1], d[2]) = (CHOOSE e \in {d} : TRUE)[3]
  BY <1>4 DEF ValueAt
<1> QED BY <1>2, <1>3, <1>5

\* A blank value is that of a key which is not declared there.
LEMMA RanksAreRanks ==
    ASSUME LayersInv, NEW places, NEW key, key # "task", NEW i \in RanksOf(places, key)
    PROVE  \E d \in declared : d[1] \in places /\ d[2] = key /\ d[1] = Places[i] /\ i = Rank[d[1]]
<1>1. PICK d \in declared : d[1] \in places /\ d[2] = key /\ i = Rank[d[1]]
  BY DEF RanksOf
<1>2. d[1] \in PlaceSet
  BY ValueIsDeclared
<1> QED BY <1>1, <1>2, RanksOfPlaces

\* The places that name a key have ranks.
LEMMA RanksInRange ==
    ASSUME LayersInv, NEW places, NEW key
    PROVE  RanksOf(places, key) \in SUBSET (1..7)
<1>1. \A d \in declared : Rank[d[1]] \in 1..7
  BY ValueIsDeclared, RanksOfPlaces
<1>2. Rank["alias"] \in 1..7
  BY RanksOfPlaces
<1> QED BY <1>1, <1>2 DEF RanksOf

\* What a declaration in a merged place means for the source of its key: there is
\* one, of no lower rank.
LEMMA SourceOfDeclared ==
    ASSUME LayersInv, NEW places, NEW d \in declared, d[1] \in places
    PROVE  LET source == Sources(places)  m == Max(RanksOf(places, d[2]))
           IN  /\ source[d[2]] = Places[m] /\ source[d[2]] # "defaults"
               /\ m \in RanksOf(places, d[2]) /\ m \in 1..7 /\ Rank[d[1]] <= m
<1> DEFINE naming == RanksOf(places, d[2])
<1>1. Rank[d[1]] \in naming
  BY DEF RanksOf
<1>2. naming \in SUBSET (1..7)
  BY RanksInRange
<1>3. Max(naming) \in naming /\ Rank[d[1]] <= Max(naming)
  BY <1>1, <1>2, MaxOfRanks
<1>4. Sources(places)[d[2]] = Places[Max(naming)]
  BY <1>1, ValueIsDeclared DEF Sources
<1> QED BY <1>2, <1>3, <1>4, RanksOfPlaces

\* The value that is merged for a key is one that is declared for it.
LEMMA MergedValue ==
    ASSUME LayersInv, NEW places, NEW key \in OptionKeys \ {"task"},
           Sources(places)[key] # "defaults"
    PROVE  \E d \in declared : /\ d[1] \in places /\ d[2] = key /\ d[1] = Sources(places)[key]
                               /\ FinalValue(Sources(places), key) = d[3]
                               /\ d[1] = Places[Max(RanksOf(places, key))]
<1> DEFINE naming == RanksOf(places, key)
<1>1. naming # {} /\ Sources(places)[key] = Places[Max(naming)]
  BY DEF Sources
<1>2. Max(naming) \in naming
  BY <1>1, RanksInRange, MaxOfRanks
<1> HIDE DEF naming
<1>3. PICK d \in declared : d[1] \in places /\ d[2] = key /\ d[1] = Places[Max(naming)]
  BY <1>2, RanksAreRanks DEF naming
<1>4. FinalValue(Sources(places), key) = ValueAt(d[1], d[2])
  BY <1>1, <1>3 DEF FinalValue
<1>5. ValueAt(d[1], d[2]) = d[3]
  BY ValueIsDeclared
<1> QED BY <1>1, <1>3, <1>4, <1>5 DEF naming

Sections == {"engine:uma", "engine:mace"}

\* When no section names another engine, the engine that chose the section is the one
\* that is merged.  (_merge_settings_sections, resolve_config.)
LEMMA EngineIsSelected ==
    ASSUME LayersInv, Selected # "blank",
           \A engine \in Backends : ValueAt(EnginePlace(engine), "engine") \in {"blank", engine}
    PROVE  /\ Selected \in Backends
           /\ FinalValue(Sources(Merged(Selected)), "engine") = Selected
<1> DEFINE outside == RanksOf(PlaceSet \ Sections, "engine")
           merged == Merged(Selected)
           naming == RanksOf(merged, "engine")
           m == Max(outside)
           n == Max(naming)
<1>1. outside # {} /\ Selected = ValueAt(Places[m], "engine")
  BY DEF Selected, Sections
<1>2. m \in outside /\ \A i \in outside : i <= m
  BY <1>1, RanksInRange, MaxOfRanks
<1>3. PICK d \in declared : d[1] \in PlaceSet \ Sections /\ d[2] = "engine" /\ d[1] = Places[m] /\ m = Rank[d[1]]
  BY <1>2, RanksAreRanks
<1>4. Selected = d[3] /\ d[3] \in Backends
  BY <1>1, <1>3, ValueIsDeclared DEF OptionKeys, OptionValues
<1>5. \A p \in PlaceSet \ Sections : p \in merged
  BY DEF Merged, Sections
<1>6. m \in naming
  BY <1>3, <1>5 DEF RanksOf
<1>7. n \in naming /\ \A i \in naming : i <= n
  BY <1>6, RanksInRange, MaxOfRanks
<1>8. PICK e \in declared : e[1] \in merged /\ e[2] = "engine" /\ e[1] = Places[n] /\ n = Rank[e[1]]
  BY <1>7, RanksAreRanks
<1>9. Sources(merged)["engine"] = Places[n]
  BY <1>6 DEF Sources, OptionKeys
<1>10. FinalValue(Sources(merged), "engine") = e[3] /\ e[3] = ValueAt(e[1], "engine") /\ e[3] # "blank"
  <2>1. Places[n] # "defaults"
    BY <1>7, RanksInRange, RanksOfPlaces
  <2>2. FinalValue(Sources(merged), "engine") = ValueAt(Places[n], "engine")
    BY <1>9, <2>1 DEF FinalValue
  <2> QED BY <2>2, <1>8, ValueIsDeclared
<1>11. e[3] = Selected
  <2>1. CASE e[1] \in Sections
    <3>1. e[1] = EnginePlace(Selected)
      BY <2>1, <1>8 DEF Merged, Sections
    <3> QED BY <3>1, <1>4, <1>10
  <2>2. CASE e[1] \notin Sections
    <3>1. e[1] \in PlaceSet \ Sections
      BY <2>2, ValueIsDeclared
    <3>2. n \in outside
      BY <3>1, <1>8 DEF RanksOf
    <3>3. m \in 1..7 /\ n \in 1..7
      BY <1>6, <1>7, RanksInRange
    <3>4. n = m
      BY <1>2, <1>6, <1>7, <3>2, <3>3
    <3> HIDE DEF m, n, outside, naming, merged
    <3>5. e = d
      BY <3>4, <1>3, <1>8 DEF LayersInv
    <3> QED BY <3>5, <1>4
  <2> QED BY <2>1, <2>2
<1> QED BY <1>4, <1>10, <1>11

\* The documented order is that of the merges, with the settings as one layer.
LEMMA DocumentedOrder ==
    /\ \A p \in PlaceSet : DocumentedRank(p) \in 1..7
    /\ \A p, q \in PlaceSet : Rank[p] <= Rank[q] => DocumentedRank(p) <= DocumentedRank(q)
    /\ \A p \in PlaceSet : Rank[p] < Rank["alias"] => p \in SettingsPlaces
<1>1. \A p \in PlaceSet : p \in SettingsPlaces <=> Rank[p] \in 1..3
  <2> TAKE p \in PlaceSet
  <2>1. Rank[p] \in 1..3 => p \in SettingsPlaces
    BY RanksOfPlaces DEF SettingsPlaces
  <2>2. p \in SettingsPlaces => Rank[p] \in 1..3
    BY RanksOfPlaces DEF SettingsPlaces
  <2> QED BY <2>1, <2>2
<1>2. \A p \in PlaceSet : DocumentedRank(p) = (IF Rank[p] \in 1..3 THEN 1 ELSE Rank[p])
                        /\ Rank[p] \in 1..7
  BY <1>1, RanksOfPlaces DEF DocumentedRank
<1>3. Rank["alias"] = 4
  BY RanksOfPlaces DEF Places, Rank, PlaceSet
<1> QED BY <1>1, <1>2, <1>3

\* What counts for an engine is what is declared in the places merged for it.
LEMMA CountedIsMerged ==
    ASSUME LayersInv, resolved.engine \in Backends
    PROVE  Counted = {d \in declared : d[1] \in Merged(resolved.engine)}
BY ValueIsDeclared DEF Counted, Merged

\* The merges take a key from one of its strongest declarations, or, for a task,
\* from an alias that declares none over settings that do.
LEMMA SourceIsStrongest ==
    ASSUME LayersInv, resolved.engine \in Backends, NEW d \in Counted
    PROVE  LET source == Sources(Merged(resolved.engine))
           IN  \/ \E e \in Strongest(d[2]) : source[d[2]] = e[1]
               \/ /\ d[2] = "task" /\ source["task"] = "alias"
                  /\ \A e \in Strongest("task") : e[1] \in SettingsPlaces
<1> DEFINE merged == Merged(resolved.engine)
           source == Sources(merged)
           key == d[2]
           m == Max(RanksOf(merged, key))
<1>1. \A e \in Counted : e \in declared /\ e[1] \in merged /\ e[1] \in PlaceSet
  BY CountedIsMerged, ValueIsDeclared
<1>2. /\ source[key] = Places[m] /\ m \in RanksOf(merged, key) /\ m \in 1..7
      /\ \A e \in Counted : e[2] = key => Rank[e[1]] <= m
  BY <1>1, SourceOfDeclared
<1>3. Places[m] \in PlaceSet /\ Rank[Places[m]] = m
  BY <1>2, RanksOfPlaces
<1> HIDE DEF merged, m
<1>4. ASSUME NEW e \in Counted, e[2] = key, e[1] = Places[m]
      PROVE  e \in Strongest(key)
  <2>1. \A f \in Counted : f[2] = key => DocumentedRank(f[1]) <= DocumentedRank(e[1])
    BY <1>1, <1>2, <1>3, <1>4, DocumentedOrder
  <2> QED BY <1>4, <2>1 DEF Strongest
<1>5. CASE \E e \in declared : e[1] \in merged /\ e[2] = key /\ e[1] = Places[m]
  <2>1. PICK e \in declared : e[1] \in merged /\ e[2] = key /\ e[1] = Places[m]
    BY <1>5
  <2>2. e \in Counted
    BY <2>1, CountedIsMerged DEF merged
  <2>3. e \in Strongest(key) /\ source[key] = e[1]
    BY <1>2, <1>4, <2>1, <2>2
  <2> QED BY <2>3 DEF merged
<1>6. CASE ~\E e \in declared : e[1] \in merged /\ e[2] = key /\ e[1] = Places[m]
  <2>1. key = "task"
    <3> SUFFICES ASSUME key # "task" PROVE FALSE
      OBVIOUS
    <3>1. \E e \in declared : e[1] \in merged /\ e[2] = key /\ e[1] = Places[m]
      BY <1>2, RanksAreRanks DEF m
    <3> QED BY <1>6, <3>1
  <2>2. m = Rank["alias"]
    <3>1. m \in {Rank[e[1]] : e \in {f \in declared : f[1] \in merged /\ f[2] = key}} => FALSE
      <4> SUFFICES ASSUME NEW e \in declared, e[1] \in merged, e[2] = key, m = Rank[e[1]]
                   PROVE  FALSE
        OBVIOUS
      <4>1. e[1] = Places[m]
        BY ValueIsDeclared, RanksOfPlaces
      <4> QED BY <1>6, <4>1
    <3>2. m \in {Rank[e[1]] : e \in {f \in declared : f[1] \in merged /\ f[2] = key}}
             \union {Rank["alias"] : e \in {f \in declared : f[1] = "alias" /\ key = "task"}}
      BY <1>2 DEF RanksOf
    <3> QED BY <3>1, <3>2
  <2>3. source["task"] = "alias"
    BY <1>2, <2>1, <2>2, RanksOfPlaces
  <2>4. ASSUME NEW e \in Strongest("task") PROVE e[1] \in SettingsPlaces
    <3>1. e \in Counted /\ e[2] = key
      BY <2>1 DEF Strongest
    <3>2. Rank[e[1]] <= m /\ Rank[e[1]] \in 1..7 /\ e[1] \in PlaceSet /\ e \in declared /\ e[1] \in merged
      BY <1>1, <1>2, <3>1, RanksOfPlaces
    <3>3. Rank[e[1]] # m
      <4>1. Rank[e[1]] = m => e[1] = Places[m]
        BY <3>2, RanksOfPlaces
      <4> QED BY <1>6, <3>1, <3>2, <4>1
    <3> QED BY <2>2, <3>2, <3>3, <1>2, DocumentedOrder
  <2> QED BY <2>1, <2>3, <2>4 DEF merged
<1> QED BY <1>5, <1>6

\* What was declared takes effect in a configuration.
LEMMA ConfiguredTakesEffect ==
    ASSUME LayersInv
    PROVE  DeclaredTakesEffect
<1> SUFFICES
      ASSUME resolved.kind = "config",
             \A engine \in Backends :
                ValueAt(EnginePlace(engine), "engine") \in {"blank", engine},
             NEW d \in Counted
      PROVE  \/ /\ \E e \in Strongest(d[2]) : resolved.source[d[2]] = e[1]
                /\ \/ d[2] \in resolved.received
                   \/ d[2] = "typo" /\ \E e \in Strongest("strict") : e[3] = "false"
                   \/ d[2] = "guard" /\ calculation # "md"
             \/ d[2] = "mode" /\ resolved.engine # "uma" /\ \E e \in Strongest(d[2]) : e[3] = "default"
             \/ /\ d[2] = "task" /\ resolved.source[d[2]] = "alias"
                /\ \A e \in Strongest(d[2]) : e[1] \in SettingsPlaces
  BY Zenon DEF DeclaredTakesEffect
<1> DEFINE engine == resolved.engine
           merged == Merged(engine)
           source == Sources(merged)
           key == d[2]
<1>1. /\ Selected # "blank" /\ engine = Selected /\ engine \in Backends
      /\ ~OutOfScope(source, engine)
      /\ engine = FinalValue(source, "engine")
      /\ resolved.source = Provenance(source) /\ resolved.received = Received(source)
  BY EngineIsSelected DEF LayersInv
<1>2. d \in declared /\ d[1] \in merged /\ key \in OptionKeys /\ d[3] \in OptionValues[key]
  BY <1>1, CountedIsMerged, ValueIsDeclared
<1>3. source[key] # "defaults"
  BY <1>2, SourceOfDeclared
<1>4. \/ \E e \in Strongest(key) : source[key] = e[1]
      \/ /\ key = "task" /\ source["task"] = "alias"
         /\ \A e \in Strongest("task") : e[1] \in SettingsPlaces
  BY <1>1, SourceIsStrongest
<1>5. /\ key # "mode" => resolved.source[key] = source[key]
      /\ engine = "uma" => resolved.source[key] = source[key]
  BY <1>1, <1>2 DEF Provenance, Sources
<1>6. ASSUME NEW k \in OptionKeys \ {"task"}, source[k] # "defaults"
      PROVE  \E e \in Strongest(k) : e[1] = source[k] /\ FinalValue(source, k) = e[3]
                                     /\ e[3] \in OptionValues[k]
  <2>1. PICK e \in declared : /\ e[1] \in merged /\ e[2] = k /\ e[1] = source[k]
                              /\ FinalValue(source, k) = e[3]
    BY <1>6, MergedValue
  <2>2. e \in Counted
    BY <1>1, <2>1, CountedIsMerged
  <2>3. PICK f \in Strongest(k) : source[k] = f[1]
    BY <1>1, <1>6, <2>1, <2>2, SourceIsStrongest
  <2>4. f = e
    BY <2>1, <2>3 DEF Strongest, Counted, LayersInv
  <2> QED BY <2>1, <2>3, <2>4, ValueIsDeclared
<1> HIDE DEF merged, source, engine
<1>7. CASE key \in {"engine", "task", "strict", "dtype"}
  <2>1. key \in Received(source)
    BY <1>3, <1>7 DEF Received, CalculatorOptions
  <2> QED BY <1>1, <1>4, <1>5, <1>7, <2>1
<1>8. CASE key = "guard"
  <2>1. key \in Received(source) \/ calculation # "md"
    BY <1>3, <1>8 DEF Received, RunnerOptions
  <2> QED BY <1>1, <1>4, <1>5, <1>8, <2>1
<1>9. CASE key = "fmax"
  <2>1. calculation = "opt"
    BY <1>1, <1>3, <1>9 DEF OutOfScope, InSources
  <2>2. key \in Received(source)
    BY <1>3, <1>9, <2>1 DEF Received, RunnerOptions
  <2> QED BY <1>1, <1>4, <1>5, <1>9, <2>2
<1>10. CASE key = "typo"
  <2>1. FinalValue(source, "strict") # "true"
    BY <1>1, <1>3, <1>10 DEF OutOfScope
  <2>2. source["strict"] # "defaults"
    BY <2>1 DEF FinalValue
  <2>3. PICK e \in Strongest("strict") : FinalValue(source, "strict") = e[3] /\ e[3] \in OptionValues["strict"]
    BY <1>6, <2>2 DEF OptionKeys
  <2>4. e[3] = "false"
    BY <2>3 DEF OptionValues
  <2> QED BY <1>4, <1>5, <1>10, <2>3, <2>4
<1>11. CASE key = "mode"
  <2>1. PICK e \in Strongest("mode") : e[1] = source["mode"] /\ FinalValue(source, "mode") = e[3]
                                       /\ e[3] \in OptionValues["mode"]
    BY <1>3, <1>6, <1>11 DEF OptionKeys
  <2>2. CASE engine = "uma"
    <3>1. key \in Received(source)
      BY <1>1, <1>3, <1>11, <2>2 DEF Received, CalculatorOptions
    <3> QED BY <1>1, <1>5, <1>11, <2>1, <2>2, <3>1
  <2>3. CASE engine # "uma"
    <3>1. e[3] # "turbo"
      BY <1>1, <2>1, <2>3 DEF OutOfScope
    <3>2. e[3] = "default"
      BY <2>1, <3>1 DEF OptionValues
    <3> QED BY <1>11, <2>1, <2>3, <3>2 DEF engine
  <2> QED BY <2>2, <2>3
<1> QED BY <1>2, <1>7, <1>8, <1>9, <1>10, <1>11 DEF OptionKeys

\* What is declared determines the outcome.
LEMMA SameAnswers ==
    ASSUME UNCHANGED <<calculation, declared>>
    PROVE  LET source == Sources(Merged(Selected))
           IN  /\ Selected' = Selected
               /\ source' = source
               /\ FinalValue(source, "engine")' = FinalValue(source, "engine")
               /\ OutOfScope(source, Selected)' <=> OutOfScope(source, Selected)
               /\ Provenance(source)' = Provenance(source)
               /\ Received(source)' = Received(source)
<1>1. ASSUME NEW p, NEW k PROVE ValueAt(p, k)' = ValueAt(p, k)
  BY DEF ValueAt
<1>2. ASSUME NEW p, NEW k PROVE RanksOf(p, k)' = RanksOf(p, k)
  BY DEF RanksOf
<1>3. Selected' = Selected
  BY <1>1, <1>2 DEF Selected
<1>4. ASSUME NEW P PROVE Sources(P)' = Sources(P)
  BY <1>2 DEF Sources
<1>5. ASSUME NEW s, NEW k PROVE FinalValue(s, k)' = FinalValue(s, k)
  BY <1>1 DEF FinalValue
<1>6. ASSUME NEW s, NEW k PROVE OutOfScope(s, k)' <=> OutOfScope(s, k)
  BY <1>5 DEF OutOfScope, InSources
<1>7. ASSUME NEW s PROVE Received(s)' = Received(s)
  BY <1>5 DEF Received, CalculatorOptions, RunnerOptions
<1>8. ASSUME NEW s PROVE Provenance(s)' = Provenance(s)
  BY <1>5 DEF Provenance
<1> QED BY <1>3, <1>4, <1>5, <1>6, <1>7, <1>8

LEMMA LayersStep ==
    ASSUME LayersInv, [LayersNext]_layerVars
    PROVE  LayersInv'
<1>1. CASE Resolve
  <2>1. resolved' = ConfigError \/
        \E source \in {Sources(Merged(Selected))} :
            /\ Selected # "blank" /\ ~OutOfScope(source, Selected)
            /\ resolved' = [kind |-> "config", engine |-> FinalValue(source, "engine"),
                            source |-> Provenance(source),
                            received |-> Received(source)]
    BY <1>1, Zenon DEF Resolve
  <2>2. UNCHANGED <<calculation, declared>>
    BY <1>1 DEF Resolve
  <2>3. CASE resolved' = ConfigError
    BY <2>2, <2>3 DEF LayersInv, ConfigError
  <2>4. CASE resolved' # ConfigError
    <3> DEFINE source == Sources(Merged(Selected))
    <3>1. /\ Selected # "blank" /\ ~OutOfScope(source, Selected)
          /\ resolved' = [kind |-> "config", engine |-> FinalValue(source, "engine"),
                          source |-> Provenance(source),
                            received |-> Received(source)]
      BY <2>1, <2>4
    <3>2. /\ Selected' = Selected /\ source' = source
          /\ OutOfScope(source, Selected)' <=> OutOfScope(source, Selected)
          /\ FinalValue(source, "engine")' = FinalValue(source, "engine")
          /\ Provenance(source)' = Provenance(source)
          /\ Received(source)' = Received(source)
      BY <2>2, SameAnswers
    <3> HIDE DEF source
    <3>3. /\ resolved'.engine = FinalValue(source, "engine") /\ resolved'.source = Provenance(source)
          /\ resolved'.received = Received(source)
      BY <3>1
    <3> QED BY <2>2, <3>1, <3>2, <3>3 DEF LayersInv, source
  <2> QED BY <2>3, <2>4
<1>2. ASSUME NEW d \in Declarations, Declare(d) PROVE LayersInv'
  <2>1. /\ resolved = Unresolved /\ resolved' = resolved /\ calculation' = calculation
        /\ \A e \in declared : e[1] # d[1] \/ e[2] # d[2]
        /\ declared' = declared \union {d}
    BY <1>2 DEF Declare
  <2>2. resolved'.kind # "config"
    BY <2>1 DEF Unresolved
  <2> QED BY <2>1, <2>2 DEF LayersInv
<1>3. CASE UNCHANGED layerVars
  <2>1. UNCHANGED <<calculation, declared, resolved>>
    BY <1>3 DEF layerVars
  <2> QED BY <2>1, SameAnswers DEF LayersInv
<1> QED BY <1>1, <1>2, <1>3 DEF LayersNext

\* What is declared has the precedence of its documented layer, in every file
\* layout and whatever is declared, except the task of settings.ini that the
\* default task of an alias overrides (resolver.py:345-560, aliases.py:100-105).
THEOREM DeclaredIsKept == LayersSpec => []DeclaredTakesEffect
<1>1. LayersInit => LayersInv
  BY DEF LayersInit, LayersInv, Unresolved
<1> QED BY <1>1, LayersStep, ConfiguredTakesEffect, PTL DEF LayersSpec

-------------------------------------------------------------------------------
(* MDSetup *)

\* The atoms a run works on are a structure that may have been moved.
AtomsOK(a) ==
    /\ a = [of |-> a.of, constraints |-> a.constraints, moving |-> a.moving, p |-> a.p, at |-> a.at,
            pbc |-> a.pbc, cell |-> a.cell, sound |-> a.sound]
    /\ a.of \subseteq Particle /\ a.constraints \in Restraints /\ a.moving \in BOOLEAN

\* The policies depend on which atoms there are and on their constraints.
LEMMA SamePolicy ==
    ASSUME NEW a, NEW b, NEW w, a.of = b.of, a.constraints = b.constraints
    PROVE  /\ FixComs(a) = FixComs(b) /\ Held(a) = Held(b) /\ CountOf(a) = CountOf(b)
           /\ Effective(w, a) = Effective(w, b) /\ UsersOwn(a) = UsersOwn(b)
           /\ DegreesOfFreedom(a) = DegreesOfFreedom(b)
           /\ \A p : /\ Balanced(a, p) <=> Balanced(b, p)
                     /\ Admits(a, p) <=> Admits(b, p)
                     /\ StandsStill(a, p) <=> StandsStill(b, p)
<1>1. FixComs(a) = FixComs(b) /\ Held(a) = Held(b) /\ CountOf(a) = CountOf(b) /\ UsersOwn(a) = UsersOwn(b)
  BY DEF FixComs, Held, CountOf, UsersOwn
<1>2. \A p : (Balanced(a, p) <=> Balanced(b, p)) /\ (StandsStill(a, p) <=> StandsStill(b, p))
  BY DEF Balanced, StandsStill
<1> QED BY <1>1, <1>2 DEF Effective, DegreesOfFreedom, Admits

\* The number of constraints of the centre of mass.
LEMMA CountedConstraints ==
    ASSUME NEW a, a.constraints \in Restraints
    PROVE  /\ FixComs(a) \in Nat /\ Len(a.constraints) \in Nat
           /\ Len(a.constraints) = 0 => a.constraints = <<>>
           /\ a.constraints = <<>> => FixComs(a) = 0 /\ Held(a) = {} /\ UsersOwn(a) = {}
<1> DEFINE l == a.constraints
           S == {i \in DOMAIN l : l[i].kind = "fixcom"}
<1>1. l \in Seq(ToSet(l))
  BY SetupAssumption
<1>2. Len(l) \in Nat /\ DOMAIN l = 1..Len(l)
  BY <1>1, LenProperties
<1>3. IsFiniteSet(S) /\ FixComs(a) = Cardinality(S)
  <2>1. IsFiniteSet(1..Len(l))
    <3> HIDE DEF l
    <3> QED BY <1>2, FS_Interval
  <2>2. S \in SUBSET (1..Len(l))
    BY <1>2
  <2> HIDE DEF S
  <2>3. IsFiniteSet(S)
    BY <2>1, <2>2, FS_Subset
  <2> QED BY <2>3 DEF FixComs, S
<1>4. Cardinality(S) \in Nat /\ (S = {} => Cardinality(S) = 0)
  <2> HIDE DEF S
  <2> QED BY <1>3, FS_CardinalityType, FS_EmptySet
<1>5. Len(l) = 0 => l = <<>>
  <2> HIDE DEF l
  <2> QED BY <1>1, EmptySeq, LenProperties
<1>6. ASSUME l = <<>> PROVE S = {} /\ Held(a) = {} /\ UsersOwn(a) = {}
  <2>1. DOMAIN l = {} /\ ToSet(l) = {}
    BY <1>6 DEF ToSet
  <2> HIDE DEF l
  <2> QED BY <2>1 DEF Held, UsersOwn, l
<1> HIDE DEF S
<1> QED BY <1>2, <1>3, <1>4, <1>5, <1>6

\* The constraint of the centre of mass alone.
LEMMA OnlyFixCom ==
    ASSUME NEW a, a.constraints = <<FixCom>>
    PROVE  FixComs(a) = 1 /\ Held(a) = {} /\ UsersOwn(a) = {}
<1> DEFINE l == a.constraints
<1>1. DOMAIN l = {1} /\ l[1] = FixCom /\ ToSet(l) = {FixCom}
  BY DEF ToSet
<1>2. FixCom.kind = "fixcom" /\ FixCom.held = {}
  BY DEF FixCom
<1> HIDE DEF l
<1>3. {i \in DOMAIN l : l[i].kind = "fixcom"} = {1}
  BY <1>1, <1>2
<1> QED BY <1>1, <1>2, <1>3, FS_Singleton DEF FixComs, Held, UsersOwn, l

\* What becomes of atoms under the policy on the centre of mass: nothing but their
\* constraints changes, and those only where there were none.
LEMMA ConstrainedAtoms ==
    ASSUME NEW a, AtomsOK(a), NEW w, w.com \in {"auto", "none", "initialize_only", "constraint"},
           ComConfigured(w, a)
    PROVE  LET b == Constrained(w, a)
           IN  /\ b = [a EXCEPT !.constraints = b.constraints]
               /\ b.of = a.of /\ b.p = a.p /\ b.moving = a.moving /\ b.at = a.at
               /\ \/ b.constraints = a.constraints
                  \/ a.constraints = <<>> /\ b.constraints = <<FixCom>> /\ w.com # "none"
               /\ Held(b) = Held(a)
               /\ Effective(w, a) = "constraint" => FixComs(b) > 0
               /\ w.com # "auto" => Effective(w, a) = w.com /\ Effective(w, b) = w.com
               /\ FixComs(b) \in Nat
               /\ Cardinality(Axis) * (CountOf(b) - FixComs(b)) - Cardinality(Held(b)) > 0
<1> DEFINE b == Constrained(w, a)
<1>1. /\ FixComs(a) \in Nat /\ Len(a.constraints) \in Nat
      /\ Len(a.constraints) = 0 => a.constraints = <<>>
      /\ a.constraints = <<>> => FixComs(a) = 0 /\ Held(a) = {} /\ UsersOwn(a) = {}
  BY CountedConstraints DEF AtomsOK
<1>2. CASE Effective(w, a) = "constraint" /\ FixComs(a) = 0
  <2>1. b = [a EXCEPT !.constraints = <<FixCom>>]
    BY <1>2 DEF Constrained
  <2>2. b.constraints = <<FixCom>> /\ b.of = a.of /\ b.p = a.p /\ b.moving = a.moving /\ b.at = a.at
    BY <2>1 DEF AtomsOK
  <2>3. w.com # "none"
    BY <1>2 DEF Effective
  <2>4. a.constraints = <<>>
    <3>1. CASE w.com = "constraint"
      BY <1>1, <1>2, <3>1 DEF ComConfigured
    <3>2. CASE w.com = "auto"
      BY <1>1, <1>2, <3>2 DEF Effective
    <3>3. w.com = "auto" \/ w.com = "constraint"
      BY <1>2 DEF Effective
    <3> QED BY <3>1, <3>2, <3>3
  <2> HIDE DEF b
  <2>5. FixComs(b) = 1 /\ Held(b) = {}
    BY <2>2, OnlyFixCom
  <2>6. DegreesOfFreedom(b) > 0
    BY DEF ComConfigured, b
  <2>7. b = [a EXCEPT !.constraints = b.constraints]
    BY <2>1, <2>2
  <2>8. Cardinality(Axis) * (CountOf(b) - FixComs(b)) - Cardinality(Held(b)) > 0
    BY <2>6 DEF DegreesOfFreedom
  <2>9. w.com # "auto" => Effective(w, a) = w.com /\ Effective(w, b) = w.com
    BY DEF Effective
  <2>10. Held(b) = Held(a) /\ FixComs(b) \in Nat /\ FixComs(b) > 0
    BY <1>1, <2>4, <2>5
  <2> QED BY <2>2, <2>3, <2>4, <2>7, <2>8, <2>9, <2>10 DEF b
<1>3. CASE ~(Effective(w, a) = "constraint" /\ FixComs(a) = 0)
  <2>1. b = a
    BY <1>3 DEF Constrained
  <2>2. a = [a EXCEPT !.constraints = a.constraints]
    BY DEF AtomsOK
  <2>3. DegreesOfFreedom(b) > 0
    BY DEF ComConfigured
  <2> HIDE DEF b
  <2>4. Effective(w, a) = "constraint" => FixComs(a) > 0
    BY <1>1, <1>3
  <2>5. b = [a EXCEPT !.constraints = b.constraints]
    BY <2>1, <2>2
  <2>6. Cardinality(Axis) * (CountOf(b) - FixComs(b)) - Cardinality(Held(b)) > 0
    BY <2>3 DEF DegreesOfFreedom
  <2>7. w.com # "auto" => Effective(w, a) = w.com /\ Effective(w, b) = w.com
    BY DEF Effective
  <2> QED BY <1>1, <2>1, <2>4, <2>5, <2>6, <2>7 DEF b
<1> QED BY <1>2, <1>3

\* Something is left to move.
LEMMA SomethingMoves ==
    ASSUME NEW a, a.of \subseteq Particle, Held(a) \subseteq a.of \X Axis, FixComs(a) \in Nat,
           Cardinality(Axis) * (CountOf(a) - FixComs(a)) - Cardinality(Held(a)) > 0
    PROVE  Cardinality(Held(a)) < Cardinality(Axis) * CountOf(a)
<1>1. IsFiniteSet(a.of) /\ IsFiniteSet(Axis)
  BY SetupAssumption, FS_Subset
<1>2. IsFiniteSet(a.of \X Axis)
  BY <1>1, FS_Product
<1>3. IsFiniteSet(Held(a))
  BY <1>2, FS_Subset
<1> DEFINE h == Cardinality(Held(a))  x == Cardinality(Axis)  n == CountOf(a)  f == FixComs(a)
<1>4. h \in Nat /\ x \in Nat /\ n \in Nat
  BY <1>1, <1>3, FS_CardinalityType DEF CountOf
<1> HIDE DEF h, x, n, f
<1>5. f \in Nat /\ x * (n - f) - h > 0
  BY DEF h, x, n, f
<1>6. x * (n - f) = x * n - x * f /\ x * f \in Nat /\ x * n \in Nat
  BY <1>4, <1>5
<1>7. h < x * n
  BY <1>4, <1>5, <1>6
<1> QED BY <1>7 DEF h, x, n

\* Where the atoms are does not matter to the policies.
LEMMA SameVerdict ==
    ASSUME NEW a, NEW b, AtomsOK(a), AtomsOK(b), NEW w,
           a.of = b.of, a.constraints = b.constraints, a.p = b.p
    PROVE  /\ ComConfigured(w, a) => ComConfigured(w, b)
           /\ PreservedAccepted(w, Constrained(w, a)) => PreservedAccepted(w, Constrained(w, b))
<1> DEFINE c == Constrained(w, a)  d == Constrained(w, b)
<1>1. /\ FixComs(a) = FixComs(b) /\ Effective(w, a) = Effective(w, b) /\ CountOf(a) = CountOf(b)
  BY SamePolicy
<1>2. c.of = d.of /\ c.constraints = d.constraints /\ c.p = d.p
  <2>1. CASE Effective(w, a) = "constraint" /\ FixComs(a) = 0
    <3>1. c = [a EXCEPT !.constraints = <<FixCom>>] /\ d = [b EXCEPT !.constraints = <<FixCom>>]
      BY <1>1, <2>1 DEF Constrained
    <3> HIDE DEF c, d
    <3> QED BY <3>1 DEF AtomsOK
  <2>2. CASE ~(Effective(w, a) = "constraint" /\ FixComs(a) = 0)
    <3>1. c = a /\ d = b
      BY <1>1, <2>2 DEF Constrained
    <3> HIDE DEF c, d
    <3> QED BY <3>1
  <2> QED BY <2>1, <2>2
<1>3. Capable(w, a) => Capable(w, b)
  <2> HIDE DEF c, d
  <2>1. c.constraints = d.constraints
    BY <1>2
  <2> QED BY <1>1, <2>1 DEF Capable, c, d
<1> HIDE DEF c, d
<1>4. /\ DegreesOfFreedom(c) = DegreesOfFreedom(d) /\ Effective(w, c) = Effective(w, d)
      /\ \A p : (Balanced(c, p) <=> Balanced(d, p)) /\ (Admits(c, p) <=> Admits(d, p))
  BY <1>2, SamePolicy
<1>5. ComConfigured(w, a) => ComConfigured(w, b)
  BY <1>1, <1>3, <1>4 DEF ComConfigured, c, d
<1>6. PreservedAccepted(w, c) => PreservedAccepted(w, d)
  BY <1>2, <1>4 DEF PreservedAccepted
<1> QED BY <1>5, <1>6 DEF c, d

\* What StartsAsAsked says of atoms whose dynamics begins.
Starts(wish, given, s) ==
    /\ given.moving /\ wish.velocities # "initialize" =>
          s.p = given.p /\ s.at \in {"given", "centred"}
    /\ \/ s.constraints = given.constraints
       \/ given.constraints = <<>> /\ s.constraints = <<FixCom>> /\ wish.com # "none"
    /\ \A h \in Held(given) : s.p[h] = 0
    /\ wish.com \in {"initialize_only", "constraint"} => Balanced(s, s.p)
    /\ Cardinality(Held(s)) < Cardinality(Axis) * CountOf(s)

\* The atoms are those that were given, and accepted.
Accepted(wish, given, s) ==
    /\ AtomsOK(s)
    /\ s.of = given.of /\ s.constraints = given.constraints /\ s.moving = given.moving /\ s.p = given.p
    /\ Held(given) \subseteq given.of \X Axis
    /\ ~wish.relax => s.at \in {"given", "centred"}
    /\ ~RelaxRefused(wish, given)
    /\ ComConfigured(wish, s)
    /\ Continued(wish, s) => PreservedAccepted(wish, Constrained(wish, s))

\* Momenta that the constraints and the policy admit begin the dynamics.
LEMMA AdmittedStarts ==
    ASSUME NEW wish \in Wishes, NEW given, NEW s, Accepted(wish, given, s), NEW t,
           t.of = s.of, t.constraints = Constrained(wish, s).constraints,
           Admits(Constrained(wish, s), t.p),
           wish.com = "initialize_only" => Balanced(Constrained(wish, s), t.p),
           given.moving /\ wish.velocities # "initialize" =>
              t.p = given.p /\ t.at \in {"given", "centred"}
    PROVE  Starts(wish, given, t)
<1> DEFINE a == Constrained(wish, s)
<1>1. wish.com \in {"auto", "none", "initialize_only", "constraint"}
  BY DEF Wishes
<1>2. /\ a.of = s.of
      /\ \/ a.constraints = s.constraints
         \/ s.constraints = <<>> /\ a.constraints = <<FixCom>> /\ wish.com # "none"
      /\ Held(a) = Held(s)
      /\ Effective(wish, s) = "constraint" => FixComs(a) > 0
      /\ wish.com # "auto" => Effective(wish, s) = wish.com
      /\ FixComs(a) \in Nat
      /\ Cardinality(Axis) * (CountOf(a) - FixComs(a)) - Cardinality(Held(a)) > 0
  BY <1>1, ConstrainedAtoms DEF Accepted
<1>3. t.of = a.of /\ t.constraints = a.constraints /\ Admits(a, t.p)
  BY <1>2
<1>4. wish.com = "initialize_only" => Balanced(a, t.p)
  OBVIOUS
<1> HIDE DEF a
<1>5. /\ FixComs(t) = FixComs(a) /\ Held(t) = Held(a) /\ CountOf(t) = CountOf(a)
      /\ \A p : Balanced(t, p) <=> Balanced(a, p)
  BY <1>3, SamePolicy
<1>6. Held(s) = Held(given) /\ s.of = given.of /\ s.constraints = given.constraints /\ s.of \subseteq Particle
      /\ Held(given) \subseteq given.of \X Axis
  BY SamePolicy DEF Accepted, AtomsOK
<1>7. Cardinality(Held(t)) < Cardinality(Axis) * CountOf(t)
  BY <1>2, <1>3, <1>5, <1>6, SomethingMoves
<1>8. wish.com \in {"initialize_only", "constraint"} => Balanced(t, t.p)
  BY <1>2, <1>3, <1>4, <1>5 DEF Admits
<1>9. \A h \in Held(given) : t.p[h] = 0
  BY <1>2, <1>3, <1>6 DEF Admits
<1> QED BY <1>2, <1>3, <1>6, <1>7, <1>8, <1>9 DEF Starts

\* A thermostat that rescales what moves has something to rescale, unless it was
\* given momenta at rest.
CanRescale(wish, given, s) ==
    wish.integrator = "bussi" /\ StandsStill(s, s.p) => given.moving /\ StandsStill(given, given.p)

Dynamics == {"thermal", "evaluated", "running"}
SetupInv ==
    LET wish == setup.wish  given == setup.atoms IN
    /\ setup = [step |-> setup.step, wish |-> setup.wish, atoms |-> setup.atoms, model |-> setup.model]
    /\ setup.step # "new" => wish \in Wishes
    /\ setup.step \in {"made", "checked", "relaxing", "loaded"} \cup Dynamics => Usable(wish)
    /\ setup.step \in {"new", "made", "checked"} => ~setup.model
    /\ setup.step = "relaxing" => wish.relax
    /\ setup.step \in {"checked", "relaxing", "loaded"} => Accepted(wish, given, system)
    /\ setup.step \in Dynamics => Starts(wish, given, system) /\ CanRescale(wish, given, system)
    /\ setup.step \notin {"running", "done"} => folders \subseteq {"run"}
    /\ StartsAsAsked

LEMMA SetupInitHolds == SetupInit => SetupInv
BY DEF SetupInit, SetupInv, Dynamics, StartsAsAsked

LEMMA SetupStep ==
    ASSUME SetupInv, [SetupNext]_setupVars
    PROVE  SetupInv'
<1> USE DEF SetupInv
<1> DEFINE wish == setup.wish  given == setup.atoms
<1>1. CASE ConstructMD
  <2>1. PICK w \in Wishes :
         /\ setup' = [setup EXCEPT !.step = IF Usable(w) THEN "made" ELSE "refused", !.wish = w]
         /\ folders' = IF Usable(w) THEN {"run"} ELSE {}
    BY <1>1, Zenon DEF ConstructMD
  <2>2. setup.step = "new" /\ ~setup.model
    BY <1>1 DEF ConstructMD
  <2>3. /\ setup'.step = (IF Usable(w) THEN "made" ELSE "refused") /\ setup'.wish = w
        /\ setup'.model = setup.model
        /\ setup' = [step |-> setup'.step, wish |-> setup'.wish, atoms |-> setup'.atoms, model |-> setup'.model]
    BY <2>1
  <2> QED BY <2>1, <2>2, <2>3 DEF Dynamics, StartsAsAsked
<1>2. CASE JudgeRun
  <2>1. PICK a \in Structures :
         LET ready == PreparedFor(wish.task, a)
             contract == Constrained(wish, ready)
             accepted == /\ ~RelaxRefused(wish, a)
                         /\ Healthy(a) /\ FitsTask(wish.task, a)
                         /\ ComConfigured(wish, ready)
                         /\ Continued(wish, a) => PreservedAccepted(wish, contract)
         IN  /\ Consistent(a)
             /\ setup' = [setup EXCEPT !.atoms = a, !.step = IF accepted THEN "checked" ELSE "refused"]
             /\ system' = IF accepted THEN ready ELSE system
    BY <1>2, Zenon DEF JudgeRun
  <2> DEFINE ready == PreparedFor(wish.task, a)
             accepted == /\ ~RelaxRefused(wish, a)
                         /\ Healthy(a) /\ FitsTask(wish.task, a)
                         /\ ComConfigured(wish, ready)
                         /\ Continued(wish, a) => PreservedAccepted(wish, Constrained(wish, ready))
  <2>2. setup.step = "made" /\ folders' = folders /\ ~setup.model /\ wish \in Wishes
    BY <1>2 DEF JudgeRun
  <2>3. /\ Consistent(a)
        /\ setup' = [setup EXCEPT !.atoms = a, !.step = IF accepted THEN "checked" ELSE "refused"]
        /\ system' = IF accepted THEN ready ELSE system
    BY <2>1, Zenon
  <2> HIDE DEF accepted
  <2>4. /\ setup'.step = (IF accepted THEN "checked" ELSE "refused") /\ setup'.wish = wish
        /\ setup'.atoms = a /\ setup'.model = setup.model
        /\ setup' = [step |-> setup'.step, wish |-> setup'.wish, atoms |-> setup'.atoms, model |-> setup'.model]
    BY <2>3
  <2>5. CASE accepted
    <3>1. AtomsOK(a)
      BY DEF AtomsOK, Structures
    <3>2. /\ AtomsOK(ready) /\ ready.of = a.of /\ ready.constraints = a.constraints
          /\ ready.moving = a.moving /\ ready.p = a.p /\ ready.at \in {"given", "centred"}
      BY <3>1 DEF PreparedFor, AtomsOK, Structures
    <3> HIDE DEF ready
    <3>3. Continued(wish, ready) => Continued(wish, a)
      BY <3>2 DEF Continued
    <3>4. Accepted(wish, a, ready)
      BY <2>3, <2>5, <3>2, <3>3 DEF Accepted, accepted, Consistent
    <3> QED BY <2>2, <2>3, <2>4, <2>5, <3>4 DEF Dynamics, StartsAsAsked
  <2>6. CASE ~accepted
    BY <2>2, <2>3, <2>4, <2>6 DEF Dynamics, StartsAsAsked
  <2> QED BY <2>5, <2>6
<1>3. CASE LoadModel
  <2>1. /\ setup.step = "checked" /\ UNCHANGED <<system, folders>>
        /\ setup'.wish = wish /\ setup'.atoms = given
        /\ setup'.step \in {IF wish.relax THEN "relaxing" ELSE "loaded", "failed"}
        /\ setup' = [step |-> setup'.step, wish |-> setup'.wish, atoms |-> setup'.atoms, model |-> setup'.model]
    BY <1>3 DEF LoadModel, Become
  <2> QED BY <2>1 DEF Dynamics, StartsAsAsked
<1>4. CASE PreRelax
  <2>1. /\ setup.step = "relaxing" /\ folders' = folders /\ Accepted(wish, given, system) /\ wish.relax
        /\ setup'.wish = wish /\ setup'.atoms = given
        /\ setup' = [step |-> setup'.step, wish |-> setup'.wish, atoms |-> setup'.atoms, model |-> setup'.model]
        /\ \/ setup'.step = "loaded" /\ system' = [system EXCEPT !.at = "relaxed"]
           \/ setup'.step \in {"failed", "cancelled"}
    BY <1>4 DEF PreRelax, Become
  <2>2. CASE setup'.step = "loaded" /\ system' = [system EXCEPT !.at = "relaxed"]
    <3> DEFINE s == [system EXCEPT !.at = "relaxed"]
    <3>1. /\ AtomsOK(system) /\ AtomsOK(s) /\ s.of = system.of /\ s.constraints = system.constraints
          /\ s.moving = system.moving /\ s.p = system.p
      BY <2>1 DEF Accepted, AtomsOK
    <3> HIDE DEF s
    <3>2. /\ ComConfigured(wish, s)
          /\ Continued(wish, s) => PreservedAccepted(wish, Constrained(wish, s))
      BY <2>1, <3>1, SameVerdict DEF Accepted, Continued
    <3>3. Accepted(wish, given, s)
      BY <2>1, <3>1, <3>2 DEF Accepted
    <3> QED BY <2>1, <2>2, <3>3 DEF Dynamics, StartsAsAsked, s
  <2>3. CASE setup'.step \in {"failed", "cancelled"}
    BY <2>1, <2>3 DEF Dynamics, StartsAsAsked
  <2> QED BY <2>1, <2>2, <2>3
<1>5. CASE InitializeVelocities
  <2> DEFINE a == Constrained(wish, system)
             drawn == {p \in Momentum :
                       /\ Fits(a, p) /\ Admits(a, p)
                       /\ Effective(wish, system) = "initialize_only" => Balanced(a, p)
                       /\ StandsStill(a, p) <=> wish.temperature = 0}
             accepted == /\ ComConfigured(wish, system)
                         /\ wish.velocities = "preserve" => a.moving
                         /\ Continued(wish, a) => PreservedAccepted(wish, a)
  <2>1. /\ setup.step = "loaded" /\ folders' = folders
        /\ Accepted(wish, given, system) /\ Usable(wish) /\ wish \in Wishes
    BY <1>5 DEF InitializeVelocities
  <2>2. IF ~accepted THEN Become("refused") /\ UNCHANGED system
           ELSE /\ Become("thermal")
                /\ IF Continued(wish, a) THEN system' = a
                   ELSE \E p \in drawn : system' = [a EXCEPT !.p = p, !.moving = TRUE]
    BY <1>5 DEF InitializeVelocities
  <2>3. /\ a = [system EXCEPT !.constraints = a.constraints]
        /\ a.of = system.of /\ a.p = system.p /\ a.moving = system.moving /\ a.at = system.at
        /\ Effective(wish, system) = "constraint" => FixComs(a) > 0
        /\ wish.com # "auto" => Effective(wish, system) = wish.com /\ Effective(wish, a) = wish.com
    <3>1. wish.com \in {"auto", "none", "initialize_only", "constraint"}
      BY <2>1 DEF Wishes
    <3> QED BY <2>1, <3>1, ConstrainedAtoms DEF Accepted
  <2>4. a = [of |-> a.of, constraints |-> a.constraints, moving |-> a.moving, p |-> a.p, at |-> a.at,
             pbc |-> a.pbc, cell |-> a.cell, sound |-> a.sound]
    <3>1. AtomsOK(system)
      BY <2>1 DEF Accepted
    <3> DEFINE c == a.constraints
    <3>2. a = [system EXCEPT !.constraints = c]
      BY <2>3
    <3> HIDE DEF a, c
    <3> QED BY <3>1, <3>2 DEF AtomsOK
  <2>5. /\ system.of = given.of /\ system.moving = given.moving /\ system.p = given.p
        /\ ComConfigured(wish, system) /\ ~RelaxRefused(wish, given)
        /\ ~wish.relax => system.at \in {"given", "centred"}
        /\ Continued(wish, a) => PreservedAccepted(wish, a)
    BY <2>1, <2>3 DEF Accepted, Continued
  <2>6. wish.velocities \in {"auto", "initialize", "preserve"} /\ wish.temperature \in 0..1
    BY <2>1 DEF Wishes
  <2> HIDE DEF a
  <2>7. CASE ~accepted
    <3>1. wish.velocities = "preserve" /\ ~given.moving
      BY <2>3, <2>5, <2>7
    <3>2. /\ setup'.step = "refused" /\ setup'.wish = wish /\ setup'.atoms = given
          /\ setup' = [step |-> setup'.step, wish |-> setup'.wish, atoms |-> setup'.atoms, model |-> setup'.model]
      BY <2>2, <2>7 DEF Become
    <3> QED BY <2>1, <3>1, <3>2 DEF Dynamics, StartsAsAsked
  <2>8. CASE accepted
    <3>1. /\ setup'.step = "thermal" /\ setup'.wish = wish /\ setup'.atoms = given
          /\ setup' = [step |-> setup'.step, wish |-> setup'.wish, atoms |-> setup'.atoms, model |-> setup'.model]
      BY <2>2, <2>8 DEF Become
    <3>2. Starts(wish, given, system') /\ CanRescale(wish, given, system')
      <4>1. CASE Continued(wish, a)
        <5>1. system' = a
          BY <2>2, <2>8, <4>1
        <5>2. a.moving /\ wish.velocities \in {"auto", "preserve"} /\ PreservedAccepted(wish, a)
          BY <2>5, <4>1 DEF Continued
        <5>3. ~wish.relax
          BY <2>3, <2>5, <5>2 DEF RelaxRefused
        <5>4. /\ Admits(a, a.p)
              /\ wish.com = "initialize_only" => Balanced(a, a.p)
          BY <2>3, <5>2 DEF PreservedAccepted
        <5>5. Starts(wish, given, a)
          BY <2>1, <2>3, <2>5, <5>3, <5>4, AdmittedStarts DEF a
        <5>6. CanRescale(wish, given, a)
          BY <2>3, <2>5, <5>2 DEF CanRescale, StandsStill
        <5> QED BY <5>1, <5>5, <5>6
      <4>2. CASE ~Continued(wish, a)
        <5>1. PICK p \in drawn : system' = [a EXCEPT !.p = p, !.moving = TRUE]
          BY <2>2, <2>8, <4>2
        <5> DEFINE t == [a EXCEPT !.p = p, !.moving = TRUE]
        <5>2. t.of = a.of /\ t.constraints = a.constraints /\ t.p = p
          BY <2>4
        <5>3. ~(given.moving /\ wish.velocities # "initialize")
          BY <2>3, <2>5, <2>6, <4>2 DEF Continued
        <5>4. /\ Admits(a, p) /\ (wish.com = "initialize_only" => Balanced(a, p))
              /\ StandsStill(a, p) <=> wish.temperature = 0
          BY <2>3
        <5> HIDE DEF t, drawn
        <5>5. Starts(wish, given, t)
          BY <2>1, <2>3, <5>2, <5>3, <5>4, AdmittedStarts DEF a
        <5>6. CanRescale(wish, given, t)
          <6>1. StandsStill(t, p) <=> StandsStill(a, p)
            BY <5>2 DEF StandsStill
          <6>2. wish.integrator = "bussi" => wish.temperature > 0
            BY <2>1 DEF Usable
          <6> QED BY <2>6, <5>2, <5>4, <6>1, <6>2 DEF CanRescale
        <5> QED BY <5>1, <5>5, <5>6 DEF t
      <4> QED BY <4>1, <4>2
    <3> QED BY <2>1, <3>1, <3>2 DEF Dynamics, StartsAsAsked
  <2> QED BY <2>7, <2>8
<1>6. CASE FirstEvaluation
  <2>1. /\ setup.step = "thermal" /\ UNCHANGED <<system, folders>>
        /\ setup'.wish = wish /\ setup'.atoms = given /\ setup'.step \in {"evaluated", "failed"}
        /\ setup' = [step |-> setup'.step, wish |-> setup'.wish, atoms |-> setup'.atoms, model |-> setup'.model]
    BY <1>6 DEF FirstEvaluation, Become
  <2> QED BY <2>1 DEF Dynamics, StartsAsAsked
<1>7. CASE BuildDynamics
  <2>1. /\ setup.step = "evaluated" /\ UNCHANGED system
        /\ setup'.wish = wish /\ setup'.atoms = given
        /\ setup' = [step |-> setup'.step, wish |-> setup'.wish, atoms |-> setup'.atoms, model |-> setup'.model]
        /\ Starts(wish, given, system) /\ CanRescale(wish, given, system)
    BY <1>7 DEF BuildDynamics, Become, Dynamics
  <2>2. CASE wish.integrator = "bussi" /\ StandsStill(system, system.p)
    <3>1. setup'.step = "refused" /\ folders' = folders
      BY <1>7, <2>2 DEF BuildDynamics, Become
    <3>2. given.moving /\ StandsStill(given, given.p)
      BY <2>1, <2>2 DEF CanRescale
    <3> QED BY <2>1, <2>2, <3>1, <3>2 DEF Dynamics, StartsAsAsked
  <2>3. CASE ~(wish.integrator = "bussi" /\ StandsStill(system, system.p))
    <3>1. setup'.step = "running"
      BY <1>7, <2>3 DEF BuildDynamics, Become
    <3> QED BY <2>1, <3>1 DEF Dynamics, StartsAsAsked, Starts
  <2> QED BY <2>2, <2>3
<1>8. CASE ExportStructure
  <2>1. /\ setup.step = "running" /\ contcar' = UsersOwn(system) /\ setup'.step = "done"
        /\ setup'.wish = wish /\ setup'.atoms = given
        /\ setup' = [step |-> setup'.step, wish |-> setup'.wish, atoms |-> setup'.atoms, model |-> setup'.model]
        /\ Starts(wish, given, system)
    BY <1>8 DEF ExportStructure, Become, Dynamics
  <2>2. UsersOwn(system) = UsersOwn(given)
    <3>1. CASE system.constraints = given.constraints
      BY <3>1 DEF UsersOwn
    <3>2. CASE given.constraints = <<>> /\ system.constraints = <<FixCom>>
      <4>1. ToSet(given.constraints) = {}
        BY <3>2 DEF ToSet
      <4>2. UsersOwn(given) = {}
        BY <4>1 DEF UsersOwn
      <4> QED BY <3>2, <4>2, OnlyFixCom
    <3> QED BY <2>1, <3>1, <3>2 DEF Starts
  <2>3. contcar' = UsersOwn(setup'.atoms)
    BY <2>1, <2>2
  <2> QED BY <2>1, <2>3 DEF Dynamics, StartsAsAsked
<1>9. CASE UNCHANGED setupVars
  BY <1>9 DEF setupVars, Dynamics, StartsAsAsked
<1> QED BY <1>1, <1>2, <1>3, <1>4, <1>5, <1>6, <1>7, <1>8, <1>9 DEF SetupNext

\* Dynamics begins as it was asked to or does not begin (MDRunner.run): for any atoms,
\* directions, constraints and momenta.
THEOREM BegunAsAsked == SetupSpec => []StartsAsAsked
<1>1. SetupInv => StartsAsAsked
  BY DEF SetupInv
<1> QED BY <1>1, SetupInitHolds, SetupStep, PTL DEF SetupSpec

\* The steps that a setup can be at, and the outputs it can have made.
SetupWords ==
    /\ setup.step \in {"new", "made", "checked", "relaxing", "loaded", "thermal", "evaluated",
                       "running", "done", "refused", "failed", "cancelled"}
    /\ folders \subseteq {"run", "raw", "vasp"}

LEMMA SetupWordsStep ==
    ASSUME SetupInv, SetupWords, [SetupNext]_setupVars
    PROVE  SetupWords'
<1>1. "step" \in DOMAIN setup
  BY DEF SetupInv
<1>2. ASSUME NEW to, Become(to) PROVE setup'.step = to
  BY <1>1, <1>2 DEF Become
<1>3. CASE ConstructMD
  <2>1. PICK w \in Wishes :
         /\ setup' = [setup EXCEPT !.step = IF Usable(w) THEN "made" ELSE "refused", !.wish = w]
         /\ folders' = IF Usable(w) THEN {"run"} ELSE {}
    BY <1>3, Zenon DEF ConstructMD
  <2>2. setup'.step = IF Usable(w) THEN "made" ELSE "refused"
    BY <1>1, <2>1
  <2> QED BY <2>1, <2>2 DEF SetupWords
<1>4. CASE JudgeRun
  <2>1. PICK a, accepted :
         setup' = [setup EXCEPT !.atoms = a, !.step = IF accepted THEN "checked" ELSE "refused"]
    BY <1>4, Zenon DEF JudgeRun
  <2>2. setup'.step \in {"checked", "refused"}
    BY <1>1, <2>1
  <2> QED BY <1>4, <2>2 DEF JudgeRun, SetupWords
<1>5. CASE LoadModel
  <2>1. setup'.step \in {"relaxing", "loaded", "failed"}
    BY <1>1, <1>2, <1>5 DEF LoadModel
  <2> QED BY <1>5, <2>1 DEF LoadModel, SetupWords
<1>6. CASE PreRelax \/ InitializeVelocities \/ FirstEvaluation
  <2>1. setup'.step \in {"loaded", "failed", "cancelled", "refused", "thermal", "evaluated"}
    BY <1>2, <1>6 DEF PreRelax, InitializeVelocities, FirstEvaluation
  <2> QED BY <1>6, <2>1 DEF PreRelax, InitializeVelocities, FirstEvaluation, SetupWords
<1>7. CASE BuildDynamics
  <2>1. setup'.step \in {"refused", "running"}
    BY <1>2, <1>7 DEF BuildDynamics
  <2> QED BY <1>7, <2>1 DEF BuildDynamics, SetupWords
<1>8. CASE ExportStructure
  <2>1. setup'.step = "done"
    BY <1>2, <1>8 DEF ExportStructure
  <2> QED BY <1>8, <2>1 DEF ExportStructure, SetupWords
<1>9. CASE UNCHANGED setupVars
  BY <1>9 DEF setupVars, SetupWords
<1> QED BY <1>3, <1>4, <1>5, <1>6, <1>7, <1>8, <1>9 DEF SetupNext

\* The setup of an MD run has its types: a step it can be at, a wish that was made,
\* and no outputs but those of a run.
THEOREM SetupTypesCorrect == SetupSpec => []SetupTypeOK
<1>1. SetupInit => SetupWords
  BY DEF SetupInit, SetupWords
<1>2. SetupInv /\ SetupWords => SetupTypeOK
  BY DEF SetupInv, SetupWords, SetupTypeOK
<1> QED BY <1>1, <1>2, SetupInitHolds, SetupStep, SetupWordsStep, PTL DEF SetupSpec

-------------------------------------------------------------------------------
(* ScienceSuites *)

\* What SuitesTellTheTruth asks of a record, beside the backend it is of.
TrueRecord(c) ==
    /\ c.status \in Status \ {"blocked"}
    /\ c.status = "pass" /\ c.test \notin Unchecked => c.rests \subseteq {"good"}
    /\ c.status = "characterized" /\ c.test \in {"transport", "arrhenius"} => c.rests = {"good"}
    /\ c.status = "characterized" /\ c.test = "gemdat" => "partial" \notin c.rests

TrueRecords(claims) == \A c \in claims : TrueRecord(c)

\* A verdict by a criterion is sound when the criterion covers what it rests on.
LEMMA CriterionIsSound ==
    ASSUME NEW good \in BOOLEAN, NEW test, NEW rests,
           good => test \in Unchecked \/ rests \subseteq {"good"}
    PROVE  TrueRecord(PassIf(good, test, rests))
BY DEF TrueRecord, PassIf, Concludes, Status

\* So is a record of a failure.
LEMMA FailureIsSound == \A test : TrueRecords(Raised(test))
BY DEF TrueRecords, TrueRecord, Raised, Concludes, Status

\* So is a verdict that is not about what it rests on.
LEMMA CharacterIsSound ==
    ASSUME NEW test, test \notin {"transport", "arrhenius", "gemdat"}, NEW rests,
           NEW status \in {"characterized", "fail", "unsupported", "insufficient_sampling"}
    PROVE  TrueRecord(Concludes(test, status, rests))
BY DEF TrueRecord, Concludes, Status

\* Inference, invariance, derivatives, references and timings.
LEMMA BasicVerdicts ==
    /\ \A energy \in Outcome : TrueRecords(InferenceClaims(energy))
    /\ \A i \in 1..Len(InvarianceChecks), how \in {"good", "bad", "raises"} : TrueRecords(InvarianceClaims(i, how))
    /\ \A force \in Sweeps \cup {"raises"}, stress \in Sweeps \cup {"unsupported", "raises"} :
          TrueRecords(DerivativeClaims(force, stress))
    /\ \A computed \in {"all", "some"} : TrueRecords(ReferenceClaims(computed))
    /\ \A small, large, md \in {"good", "bad", "raises", "out of memory"}, inverted \in BOOLEAN :
          TrueRecords(TimingClaims(small, large, md, inverted))
<1>1. ASSUME NEW energy \in Outcome PROVE TrueRecords(InferenceClaims(energy))
  <2>1. TrueRecord(PassIf(energy = "good", "inference", {energy}))
    BY CriterionIsSound
  <2> QED BY <2>1 DEF TrueRecords, InferenceClaims
<1>2. ASSUME NEW i \in 1..Len(InvarianceChecks), NEW how \in {"good", "bad", "raises"}
      PROVE  TrueRecords(InvarianceClaims(i, how))
  <2> DEFINE made == IF how = "raises" THEN i - 1 ELSE Len(InvarianceChecks)
             How(k) == IF k = i THEN how ELSE "good"
             Entry(k) == IF k = 1 THEN Concludes(InvarianceChecks[1], "characterized", {How(1)})
                         ELSE PassIf(How(k) = "good", InvarianceChecks[k], {How(k)})
  <2>1. ASSUME NEW k \in 1..made PROVE TrueRecord(Entry(k))
    <3>1. CASE k = 1
      <4>1. InvarianceChecks[1] = "repeatability"
        BY DEF InvarianceChecks
      <4> HIDE DEF How
      <4> QED BY <3>1, <4>1, CharacterIsSound
    <3>2. CASE k # 1
      <4> DEFINE w == How(k)
      <4> HIDE DEF How, w
      <4>1. TrueRecord(PassIf(w = "good", InvarianceChecks[k], {w}))
        BY CriterionIsSound
      <4> QED BY <3>2, <4>1 DEF w
    <3> QED BY <3>1, <3>2
  <2>2. InvarianceClaims(i, how) =
            {Entry(k) : k \in 1..made} \cup (IF how = "raises" THEN Raised("invariance_error") ELSE {})
    BY DEF InvarianceClaims
  <2> HIDE DEF Entry, made
  <2> QED BY <2>1, <2>2, FailureIsSound DEF TrueRecords
<1>3. ASSUME NEW force \in Sweeps \cup {"raises"}, NEW stress \in Sweeps \cup {"unsupported", "raises"}
      PROVE  TrueRecords(DerivativeClaims(force, stress))
  <2>1. CASE "raises" \in {force, stress}
    BY <2>1, FailureIsSound DEF DerivativeClaims
  <2>2. CASE "raises" \notin {force, stress}
    <3>1. force \in Sweeps /\ (stress \in Sweeps \/ stress = "unsupported")
      BY <2>2
    <3>2. \A s \in Sweeps : s \in {"characterized", "insufficient_sampling", "fail"}
      BY DEF Sweeps, Region
    <3>3. TrueRecord(Concludes("fd_force", force, {})) /\ TrueRecord(Concludes("fd_stress", stress, {}))
      BY <3>1, <3>2, CharacterIsSound
    <3>4. DerivativeClaims(force, stress) = {Concludes("fd_force", force, {}), Concludes("fd_stress", stress, {})}
      BY <2>2 DEF DerivativeClaims
    <3> QED BY <3>3, <3>4 DEF TrueRecords
  <2> QED BY <2>1, <2>2
<1>4. ASSUME NEW computed \in {"all", "some"} PROVE TrueRecords(ReferenceClaims(computed))
  BY DEF ReferenceClaims, TrueRecords, TrueRecord, Concludes, Status
<1>5. ASSUME NEW small \in {"good", "bad", "raises", "out of memory"},
             NEW large \in {"good", "bad", "raises", "out of memory"},
             NEW md \in {"good", "bad", "raises", "out of memory"}, NEW inverted \in BOOLEAN
      PROVE  TrueRecords(TimingClaims(small, large, md, inverted))
  <2>1. ASSUME NEW case \in {"sp_small", "sp_large", "md_throughput"},
               NEW how \in {"good", "bad", "raises", "out of memory"}
        PROVE  /\ TrueRecord(Timed(case, how))
               /\ TrueRecord([Timed(case, how) EXCEPT !.status = "characterized"])
    BY DEF Timed, TrueRecord, Concludes, PassIf, Status
  <2> DEFINE sweep == {Timed("sp_small", small), Timed("sp_large", large)}
             flagged == inverted /\ {small, large} \subseteq {"good", "bad"}
             Flagged(c) == IF flagged /\ c.status = "pass" THEN [c EXCEPT !.status = "characterized"] ELSE c
  <2>2. TimingClaims(small, large, md, inverted) =
            {Flagged(c) : c \in sweep} \cup {Timed("md_throughput", md)}
    BY DEF TimingClaims
  <2>3. \A c \in sweep : TrueRecord(c) /\ TrueRecord([c EXCEPT !.status = "characterized"])
    BY <2>1
  <2> HIDE DEF sweep, flagged
  <2>4. \A c \in sweep : TrueRecord(Flagged(c))
    BY <2>3
  <2> HIDE DEF Flagged
  <2> QED BY <2>1, <2>2, <2>4 DEF TrueRecords
<1> QED BY <1>1, <1>2, <1>3, <1>4, <1>5

\* The static workflows.
LEMMA StaticVerdicts ==
    /\ \A p \in Outcome : TrueRecords(SinglePointClaims(p))
    /\ \A fire, lbfgs \in Outcome, agree \in BOOLEAN : TrueRecords(RelaxClaims(fire, lbfgs, agree))
    /\ \A cell \in Outcome, stress \in {"good", "loose"} : TrueRecords(CellRelaxClaims(cell, stress))
    /\ \A cell, fits \in Outcome : TrueRecords(EosClaims(cell, fits))
    /\ \A ions, fits \in Outcome, stable \in BOOLEAN :
          TrueRecords(ElasticClaims("elastic_clamped", "good", fits, stable)
                 \cup ElasticClaims("elastic_relaxed", ions, fits, stable))
    /\ \A modes : \A grid \in {"good", "bad", "raises"} : TrueRecords(PhononClaims(modes, grid))
    /\ \A defect \in Outcome : TrueRecords(VacancyClaims(defect))
    /\ \A slab \in Outcome : TrueRecords(SurfaceClaims(slab))
    /\ TrueRecords(EnergeticsClaims)
<1>1. ASSUME NEW p \in Outcome
      PROVE  TrueRecords(SinglePointClaims(p)) /\ TrueRecords(VacancyClaims(p)) /\ TrueRecords(SurfaceClaims(p))
  <2>1. /\ TrueRecord(PassIf(p = "good", "singlepoint", {p}))
        /\ TrueRecord(PassIf(p = "good", "vacancy", {p}))
        /\ TrueRecord(PassIf(p = "good", "surface", {p}))
    BY CriterionIsSound
  <2> QED BY <2>1 DEF TrueRecords, SinglePointClaims, VacancyClaims, SurfaceClaims
<1>2. ASSUME NEW fire \in Outcome, NEW lbfgs \in Outcome, NEW agree \in BOOLEAN
      PROVE  TrueRecords(RelaxClaims(fire, lbfgs, agree))
  <2>1. /\ TrueRecord(PassIf(fire = "good", "relax_fire", {fire}))
        /\ TrueRecord(PassIf(lbfgs = "good", "relax_lbfgs", {lbfgs}))
        /\ TrueRecord(PassIf(fire = "good" /\ lbfgs = "good" /\ agree, "optimizer_agreement",
                             {fire, lbfgs, IF agree THEN "good" ELSE "loose"}))
    BY CriterionIsSound
  <2> QED BY <2>1 DEF TrueRecords, RelaxClaims
<1>3. ASSUME NEW cell \in Outcome, NEW stress \in {"good", "loose"}
      PROVE  TrueRecords(CellRelaxClaims(cell, stress))
  BY FailureIsSound DEF CellRelaxClaims, TrueRecords, TrueRecord, Concludes, Status
<1>4. ASSUME NEW cell \in Outcome, NEW fits \in Outcome PROVE TrueRecords(EosClaims(cell, fits))
  <2>1. TrueRecord(PassIf(fits = "good", "eos", {cell, fits}))
    BY CriterionIsSound DEF Unchecked
  <2> QED BY <2>1, FailureIsSound DEF TrueRecords, EosClaims
<1>5. ASSUME NEW ions \in Outcome, NEW fits \in Outcome, NEW stable \in BOOLEAN
      PROVE  TrueRecords(ElasticClaims("elastic_clamped", "good", fits, stable)
                 \cup ElasticClaims("elastic_relaxed", ions, fits, stable))
  <2>1. TrueRecords(ElasticClaims("elastic_clamped", "good", fits, stable))
    BY FailureIsSound DEF ElasticClaims, TrueRecords, TrueRecord, Concludes, Status
  <2>2. TrueRecords(ElasticClaims("elastic_relaxed", ions, fits, stable))
    BY FailureIsSound DEF ElasticClaims, TrueRecords, TrueRecord, Concludes, Status, Unchecked
  <2> QED BY <2>1, <2>2 DEF TrueRecords
<1>6. ASSUME NEW modes, NEW grid \in {"good", "bad", "raises"}
      PROVE  TrueRecords(PhononClaims(modes, grid))
  <2>1. TrueRecord(Concludes("phonon", CASE modes = "bad" -> "fail" [] modes = "good" -> "pass"
                            [] OTHER -> "characterized", {modes}))
    BY DEF TrueRecord, Concludes, Status
  <2>2. TrueRecord(PassIf(grid = "good", "thermo", {grid}))
    BY CriterionIsSound
  <2> QED BY <2>1, <2>2, FailureIsSound DEF PhononClaims, TrueRecords
<1>7. TrueRecords(EnergeticsClaims)
  BY DEF EnergeticsClaims, TrueRecords, TrueRecord, Concludes, Status
<1> QED BY <1>1, <1>2, <1>3, <1>4, <1>5, <1>6, <1>7

\* Reaction paths.
LEMMA PathVerdicts ==
    /\ \A e : TrueRecords(EndpointClaims(e)) /\ TrueRecords(PathClaims(e)) /\ TrueRecords(ResumeClaims(e))
    /\ \A test, band : TrueRecords(BandClaims(test, band))
    /\ \A band7, moved, band9 : TrueRecords(ImageClaims(band7, moved, band9))
    /\ \A band, point : TrueRecords(SaddleClaims(band, point))
    /\ \A band : TrueRecords(HopClaims(band))
<1>1. ASSUME NEW e
      PROVE  TrueRecords(EndpointClaims(e)) /\ TrueRecords(PathClaims(e)) /\ TrueRecords(ResumeClaims(e)) /\ TrueRecords(HopClaims(e))
  <2>1. /\ TrueRecord(PassIf(e = "good", "endpoints", {e}))
        /\ TrueRecord(PassIf(e = "good", "path_init", {e}))
        /\ TrueRecord(PassIf(e = "good", "resume_identity", {e}))
    BY CriterionIsSound
  <2>2. TrueRecord(Concludes("na3ps4_hop", IF e = "good" THEN "characterized" ELSE "fail", {e}))
    BY DEF TrueRecord, Concludes, Status
  <2> QED BY <2>1, <2>2 DEF TrueRecords, EndpointClaims, PathClaims, ResumeClaims, HopClaims
<1>2. ASSUME NEW test, NEW band PROVE TrueRecords(BandClaims(test, band))
  <2>1. TrueRecord(PassIf(band = "good", test, {band}))
    BY CriterionIsSound
  <2> QED BY <2>1 DEF TrueRecords, BandClaims
<1>3. ASSUME NEW band7, NEW moved, NEW band9 PROVE TrueRecords(ImageClaims(band7, moved, band9))
  BY DEF TrueRecords, ImageClaims, TrueRecord, Concludes, Status, Unchecked
<1>4. ASSUME NEW band, NEW point PROVE TrueRecords(SaddleClaims(band, point))
  <2> DEFINE verdict == SaddleVerdict(band, point)
             rests == {band, IF point = "one mode" THEN "good" ELSE "loose"}
  <2>1. verdict \in Status \ {"blocked"} /\ (verdict = "pass" => rests \subseteq {"good"})
    BY DEF SaddleVerdict, Status
  <2> HIDE DEF verdict, rests
  <2>2. TrueRecord(Concludes("saddle_hessian", verdict, rests))
    BY <2>1 DEF TrueRecord, Concludes
  <2> QED BY <2>2, FailureIsSound DEF TrueRecords, SaddleClaims, verdict, rests
<1> QED BY <1>1, <1>2, <1>3, <1>4

\* Molecular dynamics and transport.
LEMMA DynamicsVerdicts ==
    /\ \A fine, coarse \in Outcome, trend \in BOOLEAN : TrueRecords(NveClaims(fine, coarse, trend))
    /\ \A one, other \in Outcome \ {"loose"}, same \in BOOLEAN : TrueRecords(LangevinClaims(one, other, same))
    /\ \A free, fixed \in Outcome \ {"loose"} : TrueRecords(BussiClaims(free, fixed))
    /\ \A chain \in Outcome : \A refused : TrueRecords(NhcClaims(chain, refused))
    /\ \A runs \in Outcome, exact \in BOOLEAN : TrueRecords(ConstraintClaims(runs, exact))
    /\ \A run \in Outcome : TrueRecords(AbortClaims(run))
    /\ \A rows : TrueRecords(MdClaims(rows))
    /\ \A rows, how : TrueRecords(TransportClaims(rows, how))
    /\ \A rows, how : rows # "partial" => TrueRecords(GemdatClaims(rows, how))
    /\ \A fit : TrueRecords(ArrheniusClaims(fit))
<1>1. ASSUME NEW fine \in Outcome, NEW coarse \in Outcome, NEW trend \in BOOLEAN
      PROVE  TrueRecords(NveClaims(fine, coarse, trend))
  <2>1. TrueRecord(PassIf(fine = "good" /\ coarse = "good" /\ trend, "nve",
                          {fine, coarse, IF trend THEN "good" ELSE "loose"}))
    BY CriterionIsSound
  <2> QED BY <2>1, FailureIsSound DEF TrueRecords, NveClaims
<1>2. ASSUME NEW one \in Outcome \ {"loose"}, NEW other \in Outcome \ {"loose"}, NEW same \in BOOLEAN
      PROVE  TrueRecords(LangevinClaims(one, other, same))
  BY FailureIsSound DEF TrueRecords, LangevinClaims, TrueRecord, Concludes, Status, Outcome, Quality
<1>3. ASSUME NEW free \in Outcome \ {"loose"}, NEW fixed \in Outcome \ {"loose"}
      PROVE  TrueRecords(BussiClaims(free, fixed))
  BY FailureIsSound DEF TrueRecords, BussiClaims, PassIf, TrueRecord, Concludes, Status, Outcome, Quality
<1>4. ASSUME NEW chain \in Outcome, NEW refused PROVE TrueRecords(NhcClaims(chain, refused))
  <2>1. TrueRecord(PassIf(chain = "good" /\ refused \in {"refused", "other error"}, "nhc",
                          {chain, IF refused = "refused" THEN "good" ELSE "loose"}))
    BY CriterionIsSound DEF Unchecked
  <2> QED BY <2>1, FailureIsSound DEF TrueRecords, NhcClaims
<1>5. ASSUME NEW runs \in Outcome, NEW exact \in BOOLEAN PROVE TrueRecords(ConstraintClaims(runs, exact))
  <2>1. TrueRecord(PassIf(runs = "good" /\ exact, "constraints", {runs, IF exact THEN "good" ELSE "loose"}))
    BY CriterionIsSound
  <2> QED BY <2>1, FailureIsSound DEF TrueRecords, ConstraintClaims
<1>6. ASSUME NEW rows PROVE TrueRecords(AbortClaims(rows)) /\ TrueRecords(MdClaims(rows))
  <2>1. /\ TrueRecord(PassIf(rows = "good", "force_safety", {rows}))
        /\ TrueRecord(PassIf(rows = "good", "md", {rows}))
    BY CriterionIsSound
  <2> QED BY <2>1 DEF TrueRecords, AbortClaims, MdClaims
<1>7. ASSUME NEW rows, NEW how
      PROVE  TrueRecords(TransportClaims(rows, how)) /\ (rows # "partial" => TrueRecords(GemdatClaims(rows, how)))
  BY DEF TrueRecords, TransportClaims, GemdatClaims, TrueRecord, Concludes, Status
<1>8. ASSUME NEW fit PROVE TrueRecords(ArrheniusClaims(fit))
  BY DEF TrueRecords, ArrheniusClaims, TrueRecord, Concludes, Status
<1> QED BY <1>1, <1>2, <1>3, <1>4, <1>5, <1>6, <1>7, <1>8

-------------------------------------------------------------------------------
(* The records of a suite, and its exit code *)

\* The call and the suite have their fields.
CallOK ==
    /\ call = [state |-> call.state, by |-> call.by, exit |-> call.exit,
               incident |-> call.incident]
    /\ call.incident \in BOOLEAN
    /\ call.state \in {"idle", "open", "done"} /\ call.exit \in {0, 1, 2}

IsSuite(s) ==
    /\ s = [tier |-> s.tier, by |-> s.by, todo |-> s.todo, failed |-> s.failed,
            endpoints |-> s.endpoints, band |-> s.band, sampled |-> s.sampled]
    /\ s.failed \in BOOLEAN

\* A record says no more than its computations, and they are of its calculator, as
\* far as the files of its workflow tell.
IsBacked(c) ==
    /\ c.status \in Status
    /\ \A d \in c.of : Alike(c.test, d, c.by)
    /\ c.status = "pass" /\ c.test \notin Unchecked => c.rests \subseteq {"good"}
    /\ c.status = "characterized" /\ c.test \in {"transport", "arrhenius"} => c.rests = {"good"}
    /\ c.status = "characterized" /\ c.test = "gemdat" => "partial" \notin c.rests

\* A tier script runs in an open call only, and until it ends its own failures
\* are not in the exit code yet.
OnlyInACall == suite # NoSuite => call.state = "open"
ExitSoFar == (call.exit = 0 /\ ~suite.failed)
             <=> (written \cap {"fail", "blocked"} = {} /\ ~call.incident)

\* A directory tells which engine's run it holds, the cache which profile's forces,
\* and what was characterised is still there when the temperatures are fitted.
ByDirectory ==
    /\ \A d \in DOMAIN trajectories : trajectories[d].of.engine = d[1]
    /\ \A k \in DOMAIN forces : \A c \in forces[k].of : c.engine = k[1] /\ c.profile = k[2]
StillThere == \A t \in suite.sampled : DirOf(suite.by, t) \in DOMAIN trajectories

SuitesInv ==
    /\ CallOK /\ IsSuite(suite) /\ OnlyInACall /\ ExitSoFar
    /\ ByDirectory /\ StillThere
    /\ \A c \in report : IsBacked(c)

\* Records that are true and of the suite's own calculator keep the invariant,
\* whatever else the suite notes, as long as it notes its failures.
LEMMA WritesWhatIsBacked ==
    ASSUME SuitesInv, call.state = "open", NEW claims, TrueRecords(claims),
           NEW of, \A c \in claims : \A d \in of : Alike(c.test, d, suite.by),
           Write(claims, suite.by, of),
           call' = call, IsSuite(suite'), ByDirectory', StillThere',
           suite'.failed <=> (suite.failed \/ \E c \in claims : c.status = "fail")
    PROVE  SuitesInv'
<1>1. \A c \in report' : IsBacked(c)
  <2> SUFFICES ASSUME NEW c \in claims
               PROVE  IsBacked([test |-> c.test, status |-> c.status, rests |-> c.rests,
                                by |-> suite.by, of |-> of])
    BY DEF Write
  <2> QED BY DEF IsBacked, TrueRecords, TrueRecord
<1>2. CallOK' /\ OnlyInACall'
  BY DEF SuitesInv, CallOK, OnlyInACall
<1>3. ExitSoFar'
  <2>1. \A c \in claims : c.status # "blocked"
    BY DEF TrueRecords, TrueRecord
  <2>2. (written' \cap {"fail", "blocked"} = {})
            <=> (written \cap {"fail", "blocked"} = {} /\ ~\E c \in claims : c.status = "fail")
    BY <2>1 DEF Write
  <2>3. suite.failed \in BOOLEAN /\ call.incident \in BOOLEAN
    BY DEF SuitesInv, IsSuite, CallOK
  <2> QED BY <2>2, <2>3 DEF SuitesInv, ExitSoFar
<1> QED BY <1>1, <1>2, <1>3 DEF SuitesInv

\* In particular a workflow that ends with such records.
LEMMA EndsIsBacked ==
    ASSUME SuitesInv, suite.todo # <<>>, NEW claims, TrueRecords(claims),
           NEW of, \A c \in claims : \A d \in of : Alike(c.test, d, suite.by), Finishes(claims, of),
           ByDirectory', DOMAIN trajectories \subseteq DOMAIN trajectories'
    PROVE  SuitesInv'
<1>1. call.state = "open"
  BY DEF SuitesInv, OnlyInACall, NoSuite
<1> DEFINE fails == \E c \in claims : c.status = "fail"
<1>2. suite' = [suite EXCEPT !.todo = Tail(@), !.failed = @ \/ fails]
  BY DEF Finishes
<1>3. fails \in BOOLEAN
  OBVIOUS
<1> HIDE DEF fails
<1>4. /\ IsSuite(suite') /\ (suite'.failed <=> (suite.failed \/ fails))
      /\ suite'.by = suite.by /\ suite'.sampled = suite.sampled
  BY <1>2, <1>3 DEF SuitesInv, IsSuite
<1>5. call' = call /\ Write(claims, suite.by, of)
  BY DEF Finishes
<1>6. StillThere'
  BY <1>4 DEF SuitesInv, StillThere, DirOf
<1> QED BY <1>1, <1>4, <1>5, <1>6, WritesWhatIsBacked DEF fails

\* And leaves the disk as it is.
LEMMA DoneIsBacked ==
    ASSUME SuitesInv, suite.todo # <<>>, NEW claims, TrueRecords(claims),
           NEW of, \A c \in claims : \A d \in of : Alike(c.test, d, suite.by), Done(claims, of)
    PROVE  SuitesInv'
<1>1. Finishes(claims, of) /\ trajectories' = trajectories /\ forces' = forces
  BY DEF Done, onDisk
<1>2. ByDirectory'
  BY <1>1 DEF SuitesInv, ByDirectory
<1> QED BY <1>1, <1>2, EndsIsBacked

LEMMA WriteAllIsBacked ==
    ASSUME SuitesInv, suite.todo # <<>>, NEW claims, TrueRecords(claims), WriteAll(claims)
    PROVE  SuitesInv'
<1>1. \A c \in claims : \A d \in {suite.by} : Alike(c.test, d, suite.by)
  BY DEF Alike
<1> QED BY <1>1, DoneIsBacked DEF WriteAll

\* And one on the endpoints.
LEMMA OnEndpointsIsBacked ==
    ASSUME SuitesInv, NEW name, NEW claims, TrueRecords(claims), NEW endpoints, NEW band,
           OnEndpoints(name, claims, endpoints, band)
    PROVE  SuitesInv'
<1>1. call.state = "open"
  BY DEF SuitesInv, OnlyInACall, NoSuite, OnEndpoints, Working
<1> DEFINE fails == \E c \in claims : c.status = "fail"
<1>2. suite' = [suite EXCEPT !.todo = Tail(@), !.endpoints = endpoints, !.band = band,
                             !.failed = @ \/ fails]
  BY DEF OnEndpoints
<1>3. fails \in BOOLEAN
  OBVIOUS
<1> HIDE DEF fails
<1>4. /\ IsSuite(suite') /\ (suite'.failed <=> (suite.failed \/ fails))
      /\ suite'.by = suite.by /\ suite'.sampled = suite.sampled
  BY <1>2, <1>3 DEF SuitesInv, IsSuite
<1>5. /\ call' = call /\ trajectories' = trajectories /\ forces' = forces
      /\ Write(claims, suite.by, {suite.by})
  BY DEF OnEndpoints, onDisk
<1>6. ByDirectory' /\ StillThere'
  BY <1>4, <1>5 DEF SuitesInv, ByDirectory, StillThere, DirOf
<1>7. \A c \in claims : \A d \in {suite.by} : Alike(c.test, d, suite.by)
  BY DEF Alike
<1> QED BY <1>1, <1>4, <1>5, <1>6, <1>7, WritesWhatIsBacked DEF fails

\* A process that ends takes its memory with it and leaves its code.
LEMMA LeavingKeeps ==
    ASSUME SuitesInv, NEW code \in {0, 1}, NEW incident \in BOOLEAN, Leaves(code, incident),
           ByDirectory', \A c \in report' : IsBacked(c),
           (code = 0 /\ ~suite.failed /\ ~incident /\ written' = written)
           \/ (code = 1 /\ (incident \/ "fail" \in written') /\ written \subseteq written')
           \/ (code = 1 /\ suite.failed /\ ~incident /\ written' = written)
    PROVE  SuitesInv'
<1>1. suite' = NoSuite
  BY DEF Leaves
<1>2. IsSuite(suite') /\ OnlyInACall' /\ StillThere'
  BY <1>1 DEF IsSuite, OnlyInACall, StillThere, NoSuite
<1>3. call' = [state |-> call.state, by |-> call.by,
               exit |-> IF code = 0 THEN call.exit ELSE code, incident |-> call.incident \/ incident]
  BY DEF Leaves, SuitesInv, CallOK
<1>4. CallOK'
  BY <1>3 DEF CallOK, SuitesInv
<1>5. ExitSoFar'
  <2>1. ~suite'.failed
    BY <1>1 DEF NoSuite
  <2>2. call.incident \in BOOLEAN /\ suite.failed \in BOOLEAN
    BY DEF SuitesInv, CallOK, IsSuite
  <2>3. (call'.exit = 0 <=> code = 0 /\ call.exit = 0) /\ (call'.incident <=> call.incident \/ incident)
    BY <1>3
  <2> QED BY <2>1, <2>2, <2>3 DEF SuitesInv, ExitSoFar
<1> QED BY <1>2, <1>4, <1>5 DEF SuitesInv

\* A signal, or an exception that nothing catches.
LEMMA DyingKeeps == ASSUME SuitesInv, Dies PROVE SuitesInv'
<1>1. /\ Leaves(1, TRUE) /\ written' = written /\ report' = report
      /\ trajectories' = trajectories /\ forces' = forces
  BY DEF Dies, onDisk
<1>2. ByDirectory' /\ \A c \in report' : IsBacked(c)
  BY <1>1 DEF SuitesInv, ByDirectory
<1> QED BY <1>1, <1>2, LeavingKeeps

\* Before the first call nothing is written.
LEMMA SuitesInvInit == SuitesInit => SuitesInv
BY DEF SuitesInit, SuitesInv, CallOK, IsSuite, NoSuite, OnlyInACall, ExitSoFar, ByDirectory, StillThere

\* The orchestrator: nothing runs while it begins or ends a call.
LEMMA OrchestratorKeeps ==
    ASSUME SuitesInv,
           (\E calculator \in Calculator : StartCampaign(calculator)) \/ Block \/ UnknownTier \/ EndCampaign
    PROVE  SuitesInv'
<1>1. suite = NoSuite /\ suite' = suite /\ trajectories' = trajectories /\ forces' = forces
  BY DEF SuitesInv, OnlyInACall, StartCampaign, Block, UnknownTier, EndCampaign, onDisk
<1>2. IsSuite(suite') /\ ByDirectory' /\ StillThere' /\ OnlyInACall' /\ ~suite.failed
  BY <1>1 DEF SuitesInv, IsSuite, ByDirectory, StillThere, DirOf, OnlyInACall, NoSuite
<1>3. CASE \E calculator \in Calculator : StartCampaign(calculator)
  <2>1. CallOK' /\ ExitSoFar' /\ \A c \in report' : IsBacked(c)
    BY <1>1, <1>2, <1>3 DEF StartCampaign, CallOK, ExitSoFar
  <2> QED BY <1>2, <2>1 DEF SuitesInv
<1>4. CASE Block
  <2>1. CallOK' /\ call'.exit = 2
    BY <1>4 DEF Block, SuitesInv, CallOK
  <2>2. written' = {"blocked"}
    <3>1. written = {} /\ Write({Concludes("engine_provisioning", "blocked", {})}, call.by, {})
      BY <1>4 DEF Block
    <3> QED BY <3>1 DEF Write, Concludes
  <2>3. ExitSoFar'
    BY <2>1, <2>2 DEF ExitSoFar
  <2>4. \A c \in report' : IsBacked(c)
    <3>1. Write({Concludes("engine_provisioning", "blocked", {})}, call.by, {})
      BY <1>4 DEF Block
    <3> QED BY <3>1 DEF Write, Concludes, IsBacked, Status
  <2> QED BY <1>2, <2>1, <2>3, <2>4 DEF SuitesInv
<1>5. CASE UnknownTier
  <2>1. call' = [state |-> call.state, by |-> call.by, exit |-> 1, incident |-> TRUE]
    BY <1>5 DEF UnknownTier, SuitesInv, CallOK
  <2>2. CallOK' /\ ExitSoFar'
    BY <2>1 DEF CallOK, ExitSoFar, SuitesInv
  <2>3. report' = report
    BY <1>5 DEF UnknownTier
  <2> QED BY <1>2, <2>2, <2>3 DEF SuitesInv
<1>6. CASE EndCampaign
  <2>1. call' = [state |-> "done", by |-> call.by, exit |-> call.exit, incident |-> call.incident]
    BY <1>6 DEF EndCampaign, SuitesInv, CallOK
  <2>2. written' = written /\ report' = report
    BY <1>6 DEF EndCampaign
  <2>3. CallOK' /\ ExitSoFar'
    BY <1>1, <2>1, <2>2 DEF CallOK, ExitSoFar, SuitesInv
  <2> QED BY <1>2, <2>2, <2>3 DEF SuitesInv
<1> QED BY <1>3, <1>4, <1>5, <1>6

\* A tier script that begins, ends, cannot load its backend, or is killed.
LEMMA ProcessKeeps ==
    ASSUME SuitesInv,
           (\E request \in Requests : BeginSuite(request) \/ SetupFails(request))
               \/ EndSuite \/ Killed
    PROVE  SuitesInv'
<1>1. ASSUME NEW request \in Requests, BeginSuite(request) PROVE SuitesInv'
  <2>1. suite' = [tier |-> request[1], by |-> call.by, todo |-> Ordered(request[1], request[2]),
                  failed |-> FALSE, endpoints |-> "none", band |-> "none", sampled |-> {}]
        /\ suite = NoSuite /\ call.state = "open"
    BY <1>1 DEF BeginSuite, NoSuite
  <2>2. IsSuite(suite') /\ StillThere' /\ ~suite'.failed /\ ~suite.failed
    BY <2>1 DEF IsSuite, StillThere, NoSuite
  <2> QED BY <1>1, <2>1, <2>2 DEF BeginSuite, SuitesInv, CallOK, OnlyInACall, ExitSoFar, ByDirectory, onDisk
<1>2. ASSUME NEW request \in Requests, SetupFails(request) PROVE SuitesInv'
  <2>1. Leaves(1, request[1] = "t3") /\ trajectories' = trajectories /\ forces' = forces
    BY <1>2 DEF SetupFails, onDisk
  <2>2. ByDirectory'
    BY <2>1 DEF SuitesInv, ByDirectory
  <2>3. CASE request[1] = "t3"
    <3>1. report' = report /\ written' = written
      BY <1>2, <2>3 DEF SetupFails
    <3>2. Leaves(1, TRUE)
      BY <2>1, <2>3 DEF Leaves
    <3> QED BY <2>2, <3>1, <3>2, LeavingKeeps DEF SuitesInv
  <2>4. CASE request[1] # "t3"
    <3>1. Write({Concludes("setup", "fail", {})}, call.by, {}) /\ Leaves(1, FALSE)
      BY <1>2, <2>1, <2>4 DEF SetupFails, Leaves
    <3>2. "fail" \in written' /\ written \subseteq written' /\ \A c \in report' : IsBacked(c)
      BY <3>1 DEF Write, Concludes, IsBacked, Status
    <3> QED BY <2>2, <3>1, <3>2, LeavingKeeps
  <2> QED BY <2>3, <2>4
<1>3. CASE EndSuite
  <2>1. /\ report' = report /\ written' = written /\ trajectories' = trajectories
        /\ forces' = forces /\ suite.failed \in BOOLEAN
    BY <1>3 DEF EndSuite, SuitesInv, IsSuite, onDisk
  <2>2. ByDirectory' /\ \A c \in report' : IsBacked(c)
    BY <2>1 DEF SuitesInv, ByDirectory
  <2>3. CASE suite.failed
    BY <1>3, <2>1, <2>2, <2>3, LeavingKeeps DEF EndSuite
  <2>4. CASE ~suite.failed
    BY <1>3, <2>1, <2>2, <2>4, LeavingKeeps DEF EndSuite
  <2> QED BY <2>3, <2>4
<1>4. CASE Killed
  BY <1>4, DyingKeeps DEF Killed
<1> QED BY <1>1, <1>2, <1>3, <1>4

\* Inference, invariance, derivatives, references and timings.
LEMMA BasicSuitesKeep ==
    ASSUME SuitesInv,
           RunInference \/ RunInvariance \/ RunDerivatives \/ RunReferences \/ RunTimings
    PROVE  SuitesInv'
<1>1. CASE RunInference
  <2>1. PICK energy \in Outcome \ {"loose"} :
              Working("inference") /\ WriteAll(InferenceClaims(energy))
    BY <1>1 DEF RunInference
  <2>2. TrueRecords(InferenceClaims(energy))
    BY BasicVerdicts
  <2> QED BY <2>1, <2>2, WriteAllIsBacked DEF Working
<1>2. CASE RunInvariance
  <2>1. PICK i \in 1..Len(InvarianceChecks), how \in {"good", "bad", "raises"} :
              /\ Working("invariance")
              /\ i = 1 => how # "bad"
              /\ WriteAll(InvarianceClaims(i, how))
    BY <1>2 DEF RunInvariance
  <2>2. TrueRecords(InvarianceClaims(i, how))
    BY BasicVerdicts
  <2> QED BY <2>1, <2>2, WriteAllIsBacked DEF Working
<1>3. CASE RunDerivatives
  <2>1. PICK force \in Sweeps \cup {"raises"}, stress \in Sweeps \cup {"unsupported", "raises"} : WriteAll(DerivativeClaims(force, stress))
    BY <1>3 DEF RunDerivatives
  <2>2. TrueRecords(DerivativeClaims(force, stress))
    BY BasicVerdicts
  <2> QED BY <1>3, <2>1, <2>2, WriteAllIsBacked DEF RunDerivatives, Working
<1>4. CASE RunReferences
  <2>1. ASSUME NEW computed \in {"all", "some"}, WriteAll(ReferenceClaims(computed)) PROVE SuitesInv'
    <3>1. TrueRecords(ReferenceClaims(computed))
      BY BasicVerdicts
    <3> QED BY <1>4, <2>1, <3>1, WriteAllIsBacked DEF RunReferences, Working
  <2> QED BY <1>4, <2>1, DyingKeeps DEF RunReferences
<1>5. CASE RunTimings
  <2>1. PICK small, large, md \in {"good", "bad", "raises", "out of memory"}, inverted \in BOOLEAN : WriteAll(TimingClaims(small, large, md, inverted))
    BY <1>5 DEF RunTimings
  <2>2. TrueRecords(TimingClaims(small, large, md, inverted))
    BY BasicVerdicts, ZenonT(60)
  <2> QED BY <1>5, <2>1, <2>2, WriteAllIsBacked DEF RunTimings, Working
<1> QED BY <1>1, <1>2, <1>3, <1>4, <1>5

\* What the records of the workflows that find files are about.
LEMMA TestsOfVerdicts ==
    /\ \A test : \A c \in Raised(test) : c.test = test
    /\ \A modes, grid : \A c \in PhononClaims(modes, grid) : c.test \in {"phonon", "thermo"}
    /\ \A rows : \A c \in MdClaims(rows) : c.test = "md"
    /\ \A rows, how : \A c \in TransportClaims(rows, how) : c.test = "transport"
    /\ \A rows, how : \A c \in GemdatClaims(rows, how) : c.test = "gemdat"
    /\ \A fit : \A c \in ArrheniusClaims(fit) : c.test = "arrhenius"
BY DEF Raised, Concludes, PassIf, PhononClaims, MdClaims, TransportClaims, GemdatClaims, ArrheniusClaims

\* The forces that a process finds or leaves are of its engine and profile.
LEMMA ForcesAreOurs ==
    ASSUME SuitesInv, NEW set \in Grown
    PROVE  \A c \in set.of : c.engine = suite.by.engine /\ c.profile = suite.by.profile
<1>1. \A c \in Cached.of : c.engine = suite.by.engine /\ c.profile = suite.by.profile
  <2>1. CASE ForceSet \in DOMAIN forces
    <3>1. Cached = forces[ForceSet]
      BY <2>1 DEF Cached
    <3>2. ForceSet[1] = suite.by.engine /\ ForceSet[2] = suite.by.profile
      BY DEF ForceSet
    <3> QED BY <2>1, <3>1, <3>2 DEF SuitesInv, ByDirectory
  <2>2. CASE ForceSet \notin DOMAIN forces
    BY <2>2 DEF Cached
  <2> QED BY <2>1, <2>2
<1>2. set = Cached \/ set.of = Cached.of \cup {suite.by}
  BY DEF Grown
<1> QED BY <1>1, <1>2

\* Keeping them in the cache keeps that so.
LEMMA KeepingForces ==
    ASSUME SuitesInv, NEW set \in Grown, Keep(set), trajectories' = trajectories
    PROVE  ByDirectory'
<1> DEFINE here == ForceSet
<1>1. here[1] = suite.by.engine /\ here[2] = suite.by.profile
  BY DEF ForceSet
<1>2. forces' = [k \in DOMAIN forces \cup {here} |-> IF k = here THEN set ELSE forces[k]]
  BY DEF Keep
<1> HIDE DEF here
<1>3. ASSUME NEW k \in DOMAIN forces', NEW c \in forces'[k].of
      PROVE  c.engine = k[1] /\ c.profile = k[2]
  <2>1. CASE k = here
    BY <1>1, <1>2, <1>3, <2>1, ForcesAreOurs
  <2>2. CASE k # here
    BY <1>2, <1>3, <2>2 DEF SuitesInv, ByDirectory
  <2> QED BY <2>1, <2>2
<1> QED BY <1>3 DEF SuitesInv, ByDirectory

\* Phonons, from forces that were found, computed, or both.
LEMMA PhononsKeep ==
    ASSUME SuitesInv, RunPhonon \/ KilledInPhonon
    PROVE  SuitesInv'
<1>1. CASE RunPhonon
  <2>1. PICK set \in Grown :
          /\ Keep(set)
          /\ \/ set.modes # "partial" /\ \E grid \in {"good", "bad", "raises"} :
                   Finishes(PhononClaims(set.modes, grid), set.of)
             \/ Finishes(Raised("phonon"), set.of)
    BY <1>1 DEF RunPhonon
  <2>2. trajectories' = trajectories /\ suite.todo # <<>>
    BY <1>1 DEF RunPhonon, Working
  <2>3. ByDirectory'
    BY <2>1, <2>2, KeepingForces
  <2>4. ASSUME NEW test \in {"phonon", "thermo"}, NEW d \in set.of
        PROVE  Alike(test, d, suite.by)
    BY <2>1, <2>4, ForcesAreOurs DEF Alike
  <2>5. ASSUME NEW grid, Finishes(PhononClaims(set.modes, grid), set.of), grid \in {"good", "bad", "raises"},
               set.modes # "partial"
        PROVE  SuitesInv'
    <3>1. TrueRecords(PhononClaims(set.modes, grid))
      BY <2>5, StaticVerdicts
    <3>2. \A c \in PhononClaims(set.modes, grid) : c.test \in {"phonon", "thermo"}
      BY TestsOfVerdicts
    <3> QED BY <2>2, <2>3, <2>4, <2>5, <3>1, <3>2, EndsIsBacked
  <2>6. ASSUME Finishes(Raised("phonon"), set.of) PROVE SuitesInv'
    <3>1. \A c \in Raised("phonon") : c.test = "phonon"
      BY TestsOfVerdicts
    <3> QED BY <2>2, <2>3, <2>4, <2>6, <3>1, FailureIsSound, EndsIsBacked
  <2> QED BY <2>1, <2>5, <2>6
<1>2. CASE KilledInPhonon
  <2>1. PICK set \in Grown : Keep(set)
    BY <1>2 DEF KilledInPhonon
  <2>2. Leaves(1, TRUE) /\ report' = report /\ written' = written /\ trajectories' = trajectories
    BY <1>2 DEF KilledInPhonon
  <2>3. ByDirectory' /\ \A c \in report' : IsBacked(c)
    BY <2>1, <2>2, KeepingForces DEF SuitesInv
  <2> QED BY <2>2, <2>3, LeavingKeeps
<1> QED BY <1>1, <1>2

\* The static workflows.
LEMMA StaticSuiteKeeps ==
    ASSUME SuitesInv,
           RunSinglePoint \/ RunRelax \/ RunCellRelax \/ RunEos \/ RunElastic
               \/ RunVacancy \/ RunSurface \/ RunEnergetics
    PROVE  SuitesInv'
<1>1. CASE RunSinglePoint
  <2>1. PICK p \in Outcome \ {"loose"} :
              Working("singlepoint") /\ WriteAll(SinglePointClaims(p))
    BY <1>1 DEF RunSinglePoint
  <2>2. TrueRecords(SinglePointClaims(p))
    BY StaticVerdicts
  <2> QED BY <2>1, <2>2, WriteAllIsBacked DEF Working
<1>2. CASE RunRelax
  <2>1. ASSUME NEW fire \in Outcome \ {"bad"}, NEW lbfgs \in Outcome \ {"bad"}, NEW agree \in BOOLEAN,
               WriteAll(RelaxClaims(fire, lbfgs, agree))
        PROVE  SuitesInv'
    <3>1. TrueRecords(RelaxClaims(fire, lbfgs, agree))
      BY StaticVerdicts
    <3> QED BY <1>2, <2>1, <3>1, WriteAllIsBacked DEF RunRelax, Working
  <2> QED BY <1>2, <2>1, DyingKeeps DEF RunRelax
<1>3. CASE RunCellRelax
  <2>1. PICK cell \in Outcome \ {"bad"}, stress \in {"good", "loose"} : WriteAll(CellRelaxClaims(cell, stress))
    BY <1>3 DEF RunCellRelax
  <2>2. TrueRecords(CellRelaxClaims(cell, stress))
    BY StaticVerdicts
  <2> QED BY <1>3, <2>1, <2>2, WriteAllIsBacked DEF RunCellRelax, Working
<1>4. CASE RunEos
  <2>1. PICK cell, fits \in Outcome \ {"bad"} : WriteAll(EosClaims(cell, fits))
    BY <1>4 DEF RunEos
  <2>2. TrueRecords(EosClaims(cell, fits))
    BY StaticVerdicts
  <2> QED BY <1>4, <2>1, <2>2, WriteAllIsBacked DEF RunEos, Working
<1>5. CASE RunElastic
  <2>1. PICK ions, fits \in Outcome \ {"bad"}, stable \in BOOLEAN :
              WriteAll(ElasticClaims("elastic_clamped", "good", fits, stable)
                 \cup ElasticClaims("elastic_relaxed", ions, fits, stable))
    BY <1>5 DEF RunElastic
  <2>2. TrueRecords(ElasticClaims("elastic_clamped", "good", fits, stable)
                 \cup ElasticClaims("elastic_relaxed", ions, fits, stable))
    BY StaticVerdicts
  <2> QED BY <1>5, <2>1, <2>2, WriteAllIsBacked DEF RunElastic, Working
<1>6. CASE RunVacancy
  <2>1. PICK defect \in Outcome \ {"bad"} :
              Working("vacancy") /\ WriteAll(VacancyClaims(defect))
    BY <1>6 DEF RunVacancy
  <2>2. TrueRecords(VacancyClaims(defect))
    BY StaticVerdicts
  <2> QED BY <2>1, <2>2, WriteAllIsBacked DEF Working
<1>7. CASE RunSurface
  <2>1. ASSUME NEW slab \in Outcome \ {"bad"}, WriteAll(SurfaceClaims(slab)) PROVE SuitesInv'
    <3>1. TrueRecords(SurfaceClaims(slab))
      BY StaticVerdicts
    <3> QED BY <1>7, <2>1, <3>1, WriteAllIsBacked DEF RunSurface, Working
  <2> QED BY <1>7, <2>1, DyingKeeps DEF RunSurface
<1>8. CASE RunEnergetics
  BY <1>8, StaticVerdicts, WriteAllIsBacked DEF RunEnergetics, Working
<1> QED BY <1>1, <1>2, <1>3, <1>4, <1>5, <1>6, <1>7, <1>8

\* The reaction paths.
LEMMA PathSuiteKeeps ==
    ASSUME SuitesInv,
           RunEndpoints \/ EndpointsRaise \/ RunPathInit \/ RunWarmup \/ RunBand5 \/ RunBand7
               \/ RunResume \/ RunSaddle \/ RunHop
    PROVE  SuitesInv'
<1>1. CASE RunEndpoints
  <2>1. ASSUME NEW e, OnEndpoints("endpoints", EndpointClaims(e), e, suite.band)
        PROVE  SuitesInv'
    BY <2>1, PathVerdicts, OnEndpointsIsBacked
  <2>2. ASSUME OnEndpoints("endpoints", EndpointClaims("raises"), "none", suite.band)
        PROVE  SuitesInv'
    BY <2>2, PathVerdicts, OnEndpointsIsBacked
  <2> QED BY <1>1, <2>1, <2>2 DEF RunEndpoints
<1>2. CASE EndpointsRaise
  BY <1>2, DyingKeeps DEF EndpointsRaise
<1>3. CASE RunPathInit
  <2>1. PICK e \in Endpoints, bands \in {"good", "raises"} :
              OnEndpoints("path_init", PathClaims(bands), e, suite.band)
    BY <1>3 DEF RunPathInit
  <2>2. TrueRecords(PathClaims(bands))
    BY PathVerdicts
  <2> QED BY <2>1, <2>2, OnEndpointsIsBacked
<1>4. CASE RunWarmup
  <2>1. PICK e \in Endpoints : \E band \in BandOf(e) :
              OnEndpoints("neb_warmup", BandClaims("neb_warmup", band), e, suite.band)
    BY <1>4 DEF RunWarmup
  <2>2. PICK band \in BandOf(e) :
              OnEndpoints("neb_warmup", BandClaims("neb_warmup", band), e, suite.band)
    BY <2>1
  <2> QED BY <2>2, PathVerdicts, OnEndpointsIsBacked
<1>5. CASE RunBand5
  <2>1. PICK e \in Endpoints : \E band \in BandOf(e) :
              OnEndpoints("ci_neb5", BandClaims("ci_neb5", band), e,
                          IF band = "raises" THEN "none" ELSE band)
    BY <1>5 DEF RunBand5
  <2>2. PICK band \in BandOf(e) :
              OnEndpoints("ci_neb5", BandClaims("ci_neb5", band), e,
                          IF band = "raises" THEN "none" ELSE band)
    BY <2>1
  <2> DEFINE kept == IF band = "raises" THEN "none" ELSE band
  <2> HIDE DEF kept
  <2>3. OnEndpoints("ci_neb5", BandClaims("ci_neb5", band), e, kept)
    BY <2>2 DEF kept
  <2> QED BY <2>3, PathVerdicts, OnEndpointsIsBacked
<1>6. CASE RunBand7
  <2>1. PICK e \in Endpoints : \E band7, band9 \in BandOf(e), moved \in BOOLEAN :
              LET compared == band7 # "raises" /\ suite.band # "none"
              IN  OnEndpoints("ci_neb7",
                      BandClaims("ci_neb7", band7)
                      \cup (IF compared THEN ImageClaims(band7, moved, band9) ELSE {})
                      \cup (IF compared /\ moved THEN BandClaims("ci_neb9", band9) ELSE {}),
                      e, suite.band)
    BY <1>6 DEF RunBand7
  <2>2. PICK band7, band9 \in BandOf(e), moved \in BOOLEAN :
              LET compared == band7 # "raises" /\ suite.band # "none"
              IN  OnEndpoints("ci_neb7",
                      BandClaims("ci_neb7", band7)
                      \cup (IF compared THEN ImageClaims(band7, moved, band9) ELSE {})
                      \cup (IF compared /\ moved THEN BandClaims("ci_neb9", band9) ELSE {}),
                      e, suite.band)
    BY <2>1
  <2> DEFINE compared == band7 # "raises" /\ suite.band # "none"
             claims == BandClaims("ci_neb7", band7)
                       \cup (IF compared THEN ImageClaims(band7, moved, band9) ELSE {})
                       \cup (IF compared /\ moved THEN BandClaims("ci_neb9", band9) ELSE {})
  <2>3. TrueRecords(claims)
    BY PathVerdicts DEF TrueRecords
  <2>4. OnEndpoints("ci_neb7", claims, e, suite.band)
    BY <2>2
  <2> HIDE DEF claims
  <2> QED BY <2>3, <2>4, OnEndpointsIsBacked
<1>7. CASE RunResume
  <2>1. PICK e \in Endpoints : \E same \in (BandOf(e) \cup {"raises"}) :
              OnEndpoints("resume_identity", ResumeClaims(same), e, suite.band)
    BY <1>7 DEF RunResume
  <2>2. PICK same \in (BandOf(e) \cup {"raises"}) :
              OnEndpoints("resume_identity", ResumeClaims(same), e, suite.band)
    BY <2>1
  <2> QED BY <2>2, PathVerdicts, OnEndpointsIsBacked
<1>8. CASE RunSaddle
  <2>1. PICK point \in SaddlePoints \cup {"raises"} : WriteAll(SaddleClaims(suite.band, point))
    BY <1>8 DEF RunSaddle
  <2>2. TrueRecords(SaddleClaims(suite.band, point))
    BY PathVerdicts
  <2> QED BY <1>8, <2>1, <2>2, WriteAllIsBacked DEF RunSaddle, Working
<1>9. CASE RunHop
  <2>1. PICK band \in Outcome \ {"bad"} :
              Working("na3ps4_hop") /\ WriteAll(HopClaims(band))
    BY <1>9 DEF RunHop
  <2>2. TrueRecords(HopClaims(band))
    BY PathVerdicts
  <2> QED BY <2>1, <2>2, WriteAllIsBacked DEF Working
<1> QED BY <1>1, <1>2, <1>3, <1>4, <1>5, <1>6, <1>7, <1>8, <1>9

\* Molecular dynamics.
LEMMA DynamicsSuiteKeeps ==
    ASSUME SuitesInv,
           RunNve \/ RunLangevin \/ RunBussi \/ RunNhc \/ RunConstraints \/ RunAbort
    PROVE  SuitesInv'
<1>1. CASE RunNve
  <2>1. PICK fine, coarse \in Outcome \ {"loose"}, trend \in BOOLEAN : WriteAll(NveClaims(fine, coarse, trend))
    BY <1>1 DEF RunNve
  <2>2. TrueRecords(NveClaims(fine, coarse, trend))
    BY DynamicsVerdicts
  <2> QED BY <1>1, <2>1, <2>2, WriteAllIsBacked DEF RunNve, Working
<1>2. CASE RunLangevin
  <2>1. PICK one, other \in Outcome \ {"loose"}, same \in BOOLEAN : WriteAll(LangevinClaims(one, other, same))
    BY <1>2 DEF RunLangevin
  <2>2. TrueRecords(LangevinClaims(one, other, same))
    BY DynamicsVerdicts
  <2> QED BY <1>2, <2>1, <2>2, WriteAllIsBacked DEF RunLangevin, Working
<1>3. CASE RunBussi
  <2>1. PICK free, fixed \in Outcome \ {"loose"} : WriteAll(BussiClaims(free, fixed))
    BY <1>3 DEF RunBussi
  <2>2. TrueRecords(BussiClaims(free, fixed))
    BY DynamicsVerdicts
  <2> QED BY <1>3, <2>1, <2>2, WriteAllIsBacked DEF RunBussi, Working
<1>4. CASE RunNhc
  <2>1. PICK chain \in Outcome \ {"loose"}, refused \in {"refused", "other error", "accepted"} : WriteAll(NhcClaims(chain, refused))
    BY <1>4 DEF RunNhc
  <2>2. TrueRecords(NhcClaims(chain, refused))
    BY DynamicsVerdicts
  <2> QED BY <1>4, <2>1, <2>2, WriteAllIsBacked DEF RunNhc, Working
<1>5. CASE RunConstraints
  <2>1. PICK runs \in Outcome \ {"loose"}, exact \in BOOLEAN : WriteAll(ConstraintClaims(runs, exact))
    BY <1>5 DEF RunConstraints
  <2>2. TrueRecords(ConstraintClaims(runs, exact))
    BY DynamicsVerdicts
  <2> QED BY <1>5, <2>1, <2>2, WriteAllIsBacked DEF RunConstraints, Working
<1>6. CASE RunAbort
  <2>1. PICK run \in Outcome \ {"bad"} :
              Working("force_safety") /\ WriteAll(AbortClaims(run))
    BY <1>6 DEF RunAbort
  <2>2. TrueRecords(AbortClaims(run))
    BY DynamicsVerdicts
  <2> QED BY <2>1, <2>2, WriteAllIsBacked DEF Working
<1> QED BY <1>1, <1>2, <1>3, <1>4, <1>5, <1>6

\* A trajectory on disk is of the engine in whose directory it is.
LEMMA TrajectoriesAreOurs ==
    ASSUME SuitesInv
    PROVE  /\ Directory \in DOMAIN trajectories => trajectories[Directory].of.engine = suite.by.engine
           /\ \A t \in suite.sampled : trajectories[DirOf(suite.by, t)].of.engine = suite.by.engine
<1>1. \A t : DirOf(suite.by, t)[1] = suite.by.engine
  BY DEF DirOf
<1> QED BY <1>1 DEF SuitesInv, ByDirectory, StillThere, Directory

\* Storing a run keeps that, and takes no run away.
LEMMA StoringKeeps ==
    ASSUME SuitesInv, NEW rows, Store(rows)
    PROVE  ByDirectory' /\ DOMAIN trajectories \subseteq DOMAIN trajectories'
<1> DEFINE here == Directory
<1>1. here[1] = suite.by.engine
  BY DEF Directory, DirOf
<1> HIDE DEF here
<1>2. /\ trajectories' = [d \in DOMAIN trajectories \cup {here} |->
                             IF d = here THEN [of |-> suite.by, rows |-> rows] ELSE trajectories[d]]
      /\ forces' = forces
  BY DEF Store, here
<1> QED BY <1>1, <1>2 DEF SuitesInv, ByDirectory

\* What is found in the directory may be written of the suite's calculator.
LEMMA FoundIsAlike ==
    ASSUME SuitesInv, NEW test \in {"md", "transport", "arrhenius", "gemdat"}
    PROVE  /\ Alike(test, suite.by, suite.by)
           /\ Directory \in DOMAIN trajectories => Alike(test, trajectories[Directory].of, suite.by)
           /\ \A t \in suite.sampled : Alike(test, trajectories[DirOf(suite.by, t)].of, suite.by)
BY TrajectoriesAreOurs DEF Alike

\* Transport: molecular dynamics, found or run, and its analyses.
LEMMA TransportSuiteKeeps ==
    ASSUME SuitesInv,
           ReuseRun \/ RunMd \/ KilledInMd \/ MissingRun \/ RunTransport \/ RunArrhenius \/ RunGemdat
    PROVE  SuitesInv'
<1>1. CASE ReuseRun
  <2> DEFINE claims == MdClaims(trajectories[Directory].rows)
             of == {trajectories[Directory].of}
  <2>1. Directory \in DOMAIN trajectories /\ suite.todo # <<>>
    BY <1>1 DEF ReuseRun, Complete, Working
  <2>2. Alike("md", trajectories[Directory].of, suite.by)
    BY <2>1, FoundIsAlike
  <2>3. TrueRecords(claims) /\ \A c \in claims : c.test = "md"
    BY DynamicsVerdicts, TestsOfVerdicts
  <2>4. Done(claims, of)
    BY <1>1 DEF ReuseRun
  <2> HIDE DEF claims
  <2> QED BY <2>1, <2>2, <2>3, <2>4, DoneIsBacked
<1>2. CASE RunMd
  <2>1. PICK rows \in {"good", "bad", "partial"}, breaks \in BOOLEAN :
          /\ Store(rows)
          /\ Finishes(IF breaks THEN Raised("md") ELSE MdClaims(rows), {suite.by})
    BY <1>2 DEF RunMd
  <2> DEFINE claims == IF breaks THEN Raised("md") ELSE MdClaims(rows)
  <2>2. TrueRecords(claims) /\ \A c \in claims : c.test = "md"
    BY DynamicsVerdicts, FailureIsSound, TestsOfVerdicts
  <2>3. suite.todo # <<>>
    BY <1>2 DEF RunMd, Working
  <2>4. Finishes(claims, {suite.by})
    BY <2>1
  <2>5. ByDirectory' /\ DOMAIN trajectories \subseteq DOMAIN trajectories'
    BY <2>1, StoringKeeps
  <2> HIDE DEF claims
  <2> QED BY <2>2, <2>3, <2>4, <2>5, FoundIsAlike, EndsIsBacked
<1>3. CASE KilledInMd
  <2>1. Store("partial") /\ Leaves(1, TRUE) /\ report' = report /\ written' = written
    BY <1>3 DEF KilledInMd
  <2>2. ByDirectory' /\ \A c \in report' : IsBacked(c)
    BY <2>1, StoringKeeps DEF SuitesInv
  <2> QED BY <2>1, <2>2, LeavingKeeps
<1>4. CASE MissingRun
  <2>1. PICK case \in {"transport", "gemdat"} :
          Working(case) /\ ~Complete /\ Done(Raised(case), {suite.by})
    BY <1>4 DEF MissingRun
  <2>2. WriteAll(Raised(case)) /\ suite.todo # <<>>
    BY <2>1 DEF WriteAll, Working
  <2> QED BY <2>2, FailureIsSound, WriteAllIsBacked
<1>5. CASE RunTransport
  <2>1. PICK how \in {"sampled", "still", "refused", "raises"} :
          LET run == trajectories[Directory]
              claims == TransportClaims(run.rows, how)
          IN  /\ Write(claims, suite.by, {run.of})
              /\ suite' = [suite EXCEPT !.todo = Tail(@),
                              !.failed = @ \/ \E c \in claims : c.status = "fail",
                              !.sampled = IF Concludes("transport", "characterized", {run.rows}) \in claims
                                          THEN @ \cup {Head(suite.todo)[2]} ELSE @]
    BY <1>5 DEF RunTransport
  <2> DEFINE rows == trajectories[Directory].rows
             claims == TransportClaims(rows, how)
             fails == \E c \in claims : c.status = "fail"
             counts == Concludes("transport", "characterized", {rows}) \in claims
             here == Head(suite.todo)[2]
  <2>2. TrueRecords(claims) /\ \A c \in claims : c.test = "transport"
    BY DynamicsVerdicts, TestsOfVerdicts
  <2>3. Write(claims, suite.by, {trajectories[Directory].of})
    BY <2>1
  <2>4. Directory \in DOMAIN trajectories
    BY <1>5 DEF RunTransport, Complete
  <2>5. /\ suite' = [suite EXCEPT !.todo = Tail(@), !.failed = @ \/ fails,
                                  !.sampled = IF counts THEN @ \cup {here} ELSE @]
        /\ fails \in BOOLEAN
    BY <2>1
  <2>6. Directory = DirOf(suite.by, here)
    BY DEF Directory
  <2> HIDE DEF fails, counts, here
  <2>7. /\ IsSuite(suite') /\ (suite'.failed <=> (suite.failed \/ fails))
        /\ suite'.by = suite.by /\ suite'.sampled \subseteq suite.sampled \cup {here}
    BY <2>5 DEF SuitesInv, IsSuite
  <2>8. call' = call /\ trajectories' = trajectories /\ forces' = forces /\ call.state = "open"
    BY <1>5 DEF RunTransport, Working, SuitesInv, OnlyInACall, NoSuite, onDisk
  <2>9. ByDirectory' /\ StillThere'
    BY <2>4, <2>6, <2>7, <2>8 DEF SuitesInv, ByDirectory, StillThere, DirOf
  <2>10. Alike("transport", trajectories[Directory].of, suite.by)
    BY <2>4, FoundIsAlike
  <2> HIDE DEF claims
  <2> QED BY <2>2, <2>3, <2>7, <2>8, <2>9, <2>10, WritesWhatIsBacked DEF fails
<1>6. CASE RunArrhenius
  <2>1. suite.todo # <<>>
    BY <1>6 DEF RunArrhenius, Working
  <2> DEFINE of == {trajectories[DirOf(suite.by, t)].of : t \in suite.sampled}
  <2>2. \A d \in of : Alike("arrhenius", d, suite.by)
    BY FoundIsAlike
  <2>3. (\E fit \in {"good", "raises"} : Done(ArrheniusClaims(fit), of)) \/ Done({}, {})
    BY <1>6 DEF RunArrhenius
  <2> HIDE DEF of
  <2>4. TrueRecords({})
    BY DEF TrueRecords
  <2>5. ASSUME NEW fit, Done(ArrheniusClaims(fit), of) PROVE SuitesInv'
    <3>1. TrueRecords(ArrheniusClaims(fit)) /\ \A c \in ArrheniusClaims(fit) : c.test = "arrhenius"
      BY DynamicsVerdicts, TestsOfVerdicts
    <3> QED BY <2>1, <2>2, <2>5, <3>1, DoneIsBacked
  <2>6. ASSUME Done({}, {}) PROVE SuitesInv'
    BY <2>1, <2>4, <2>6, DoneIsBacked
  <2> QED BY <2>3, <2>5, <2>6
<1>7. CASE RunGemdat
  <2>1. /\ Directory \in DOMAIN trajectories /\ suite.todo # <<>>
        /\ trajectories[Directory].rows # "partial"
    BY <1>7 DEF RunGemdat, Complete, Working
  <2>2. Alike("gemdat", trajectories[Directory].of, suite.by)
    BY <2>1, FoundIsAlike
  <2>3. PICK how \in {"sampled", "still", "refused", "raises"} :
          Done(GemdatClaims(trajectories[Directory].rows, how), {trajectories[Directory].of})
    BY <1>7 DEF RunGemdat
  <2> DEFINE claims == GemdatClaims(trajectories[Directory].rows, how)
  <2>4. TrueRecords(claims) /\ \A c \in claims : c.test = "gemdat"
    BY <2>1, DynamicsVerdicts, TestsOfVerdicts
  <2> HIDE DEF claims
  <2> QED BY <2>1, <2>2, <2>3, <2>4, DoneIsBacked DEF claims
<1> QED BY <1>1, <1>2, <1>3, <1>4, <1>5, <1>6, <1>7

\* Every step of the campaign.
LEMMA SuitesStep == ASSUME SuitesInv, [SuitesNext]_suiteVars PROVE SuitesInv'
<1>1. CASE UNCHANGED suiteVars
  BY <1>1 DEF suiteVars, onDisk, SuitesInv, CallOK, IsSuite, OnlyInACall, ExitSoFar, ByDirectory, StillThere
<1>2. CASE SuitesNext
  BY <1>2, OrchestratorKeeps, ProcessKeeps, BasicSuitesKeep, StaticSuiteKeeps, PhononsKeep,
     PathSuiteKeeps, DynamicsSuiteKeeps, TransportSuiteKeeps
  DEF SuitesNext, Workflows
<1> QED BY <1>1, <1>2

\* Every record of a campaign is backed by the computations it names, whatever
\* calculators take turns and whatever they find on disk: trajectories of their
\* engine, forces of their profile, everything else their own.  The exit code is 0
\* exactly when nothing failed, was blocked or ended otherwise.
THEOREM CampaignTellsTheTruth == SuitesSpec => []SuitesTellTheTruth
<1>1. SuitesInv => SuitesTellTheTruth
  <2> SUFFICES ASSUME SuitesInv PROVE SuitesTellTheTruth
    OBVIOUS
  <2>1. ASSUME call.state = "done"
        PROVE  call.exit = 0 <=> (written \cap {"fail", "blocked"} = {} /\ ~call.incident)
    <3>1. ~suite.failed
      BY <2>1 DEF SuitesInv, OnlyInACall, NoSuite
    <3> QED BY <3>1 DEF SuitesInv, ExitSoFar
  <2> QED BY <2>1 DEF SuitesInv, SuitesTellTheTruth, IsBacked
<1> QED BY <1>1, SuitesInvInit, SuitesStep, PTL DEF SuitesSpec

\* How the endpoints of a path or its band went, as the suite remembers it.
HowItWent == {"none", "good", "loose"}

\* What a step can do to the memory of the suite, to what is on disk and to the
\* records.
MemoryMoves == suite' = NoSuite \/ (suite'.endpoints \in HowItWent /\ suite'.band \in HowItWent)
RunsMove ==
    /\ trajectories' = trajectories \/ \E rows \in {"good", "bad", "partial"} : Store(rows)
    /\ forces' = forces \/ \E set \in Grown : Keep(set)
RecordsMove ==
    \/ written' = written \/ written' = {}
    \/ \E claims, by, of : Write(claims, by, of)

SuiteMoves == MemoryMoves /\ RunsMove /\ RecordsMove

SuiteWords ==
    /\ suite.endpoints \in HowItWent /\ suite.band \in HowItWent
    /\ \A d \in DOMAIN trajectories : trajectories[d].rows \in {"good", "bad", "partial"}
    /\ \A k \in DOMAIN forces : forces[k].modes \in Quality \cup {"partial"}
    /\ written \subseteq Status

\* A workflow keeps the memory, or puts there how its endpoints and its band went.
LEMMA WorkflowMoves ==
    ASSUME SuitesInv, SuiteWords, Workflows
    PROVE  SuiteMoves
<1>1. IsSuite(suite) /\ suite.endpoints \in HowItWent /\ suite.band \in HowItWent /\ NoSuite.endpoints = "none"
  BY DEF SuitesInv, SuiteWords, NoSuite
<1>2. ASSUME NEW claims, NEW of, Finishes(claims, of) PROVE MemoryMoves /\ RecordsMove
  <2>1. suite'.endpoints = suite.endpoints /\ suite'.band = suite.band
    BY <1>1, <1>2 DEF Finishes, IsSuite
  <2>2. Write(claims, suite.by, of)
    BY <1>2 DEF Finishes
  <2> QED BY <1>1, <2>1, <2>2 DEF MemoryMoves, RecordsMove
<1>19. ASSUME NEW claims, NEW of, Done(claims, of) PROVE SuiteMoves
  BY <1>2, <1>19 DEF Done, onDisk, SuiteMoves, RunsMove
<1>3. ASSUME NEW claims, WriteAll(claims) PROVE SuiteMoves
  BY <1>19, <1>3 DEF WriteAll
<1>4. ASSUME NEW name, NEW claims, NEW e \in HowItWent, NEW band \in HowItWent, OnEndpoints(name, claims, e, band)
      PROVE  SuiteMoves
  <2>1. suite'.endpoints = e /\ suite'.band = band
    BY <1>1, <1>4 DEF OnEndpoints, IsSuite
  <2>2. trajectories' = trajectories /\ forces' = forces /\ Write(claims, suite.by, {suite.by})
    BY <1>4 DEF OnEndpoints, onDisk
  <2> QED BY <1>4, <2>1, <2>2 DEF SuiteMoves, MemoryMoves, RunsMove, RecordsMove
<1>5. ASSUME Dies PROVE SuiteMoves
  BY <1>5 DEF Dies, Leaves, onDisk, SuiteMoves, MemoryMoves, RunsMove, RecordsMove
<1>6. CASE RunInference \/ RunInvariance \/ RunDerivatives \/ RunReferences \/ RunTimings
  BY <1>3, <1>5, <1>6 DEF RunInference, RunInvariance, RunDerivatives, RunReferences, RunTimings
<1>7. CASE \/ RunSinglePoint \/ RunRelax \/ RunCellRelax \/ RunEos \/ RunElastic
           \/ RunVacancy \/ RunSurface \/ RunEnergetics
  BY <1>3, <1>5, <1>7 DEF RunSinglePoint, RunRelax, RunCellRelax, RunEos, RunElastic,
                          RunVacancy, RunSurface, RunEnergetics
<1>20. CASE RunPhonon
  <2>1. PICK set \in Grown : Keep(set) /\ \E claims : Finishes(claims, set.of)
    BY <1>20 DEF RunPhonon
  <2>2. RunsMove
    BY <1>20, <2>1 DEF RunPhonon, RunsMove
  <2> QED BY <1>2, <2>1, <2>2 DEF SuiteMoves
<1>21. CASE KilledInPhonon
  BY <1>21 DEF KilledInPhonon, Leaves, SuiteMoves, MemoryMoves, RunsMove, RecordsMove
<1>8. CASE RunNve \/ RunLangevin \/ RunBussi \/ RunNhc \/ RunConstraints \/ RunAbort
  BY <1>3, <1>8 DEF RunNve, RunLangevin, RunBussi, RunNhc, RunConstraints, RunAbort
<1>9. \A e \in Endpoints : e \in HowItWent /\ BandOf(e) \subseteq {"good", "loose", "raises"}
  BY <1>1 DEF Endpoints, HowItWent, BandOf
<1>10. "none" \in HowItWent
  BY DEF HowItWent
<1>11. CASE RunEndpoints \/ EndpointsRaise \/ RunPathInit \/ RunWarmup
  BY <1>1, <1>4, <1>5, <1>9, <1>10, <1>11 DEF RunEndpoints, EndpointsRaise, RunPathInit, RunWarmup
<1>12. CASE RunBand5
  <2>1. PICK e \in Endpoints : \E band \in BandOf(e) :
           OnEndpoints("ci_neb5", BandClaims("ci_neb5", band), e, IF band = "raises" THEN "none" ELSE band)
    BY <1>12 DEF RunBand5
  <2>2. PICK band \in BandOf(e) :
           OnEndpoints("ci_neb5", BandClaims("ci_neb5", band), e, IF band = "raises" THEN "none" ELSE band)
    BY <2>1
  <2>3. e \in HowItWent /\ (IF band = "raises" THEN "none" ELSE band) \in HowItWent
    BY <1>9, <2>2 DEF HowItWent
  <2> QED BY <1>4, <2>2, <2>3
<1>13. CASE RunBand7 \/ RunResume
  BY <1>1, <1>4, <1>9, <1>13 DEF RunBand7, RunResume
<1>14. CASE RunSaddle \/ RunHop
  BY <1>3, <1>14 DEF RunSaddle, RunHop
<1>15. CASE ReuseRun \/ MissingRun \/ RunArrhenius \/ RunGemdat
  BY <1>19, <1>15 DEF ReuseRun, MissingRun, RunArrhenius, RunGemdat
<1>16. CASE RunMd
  <2>1. \E claims : Finishes(claims, {suite.by})
    BY <1>16, Zenon DEF RunMd
  <2>2. RunsMove
    <3>1. \E rows \in {"good", "bad", "partial"} : Store(rows)
      BY <1>16 DEF RunMd
    <3> QED BY <3>1 DEF RunsMove, Store
  <2> QED BY <1>2, <2>1, <2>2 DEF SuiteMoves
<1>17. CASE KilledInMd
  BY <1>17 DEF KilledInMd, Store, Leaves, SuiteMoves, MemoryMoves, RunsMove, RecordsMove
<1>18. CASE RunTransport
  <2>1. PICK todo, failed, sampled :
           suite' = [suite EXCEPT !.todo = todo, !.failed = failed, !.sampled = sampled]
    <3>1. PICK claims, more : suite' = [suite EXCEPT !.todo = Tail(@),
                                          !.failed = @ \/ \E c \in claims : c.status = "fail",
                                          !.sampled = more]
      BY <1>18 DEF RunTransport
    <3> QED BY <3>1, Zenon
  <2>2. suite'.endpoints = suite.endpoints /\ suite'.band = suite.band
    BY <1>1, <2>1 DEF IsSuite
  <2>3. RunsMove /\ RecordsMove
    BY <1>18 DEF RunTransport, RunsMove, RecordsMove, onDisk
  <2> QED BY <1>1, <2>2, <2>3 DEF SuiteMoves, MemoryMoves
<1> QED BY <1>6, <1>7, <1>8, <1>11, <1>12, <1>13, <1>14, <1>15, <1>16, <1>17, <1>18, <1>20, <1>21
    DEF Workflows

\* Every step of the campaign: statuses reach the call with the records they are of.
LEMMA SuiteWordsStep ==
    ASSUME SuitesInv, SuiteWords, [SuitesNext]_suiteVars
    PROVE  SuiteWords'
<1>1. SuiteMoves
  <2>1. CASE Workflows
    BY <2>1, WorkflowMoves
  <2>2. ASSUME NEW request, BeginSuite(request) PROVE SuiteMoves
    <3>1. suite'.endpoints = "none" /\ suite'.band = "none"
      BY <2>2 DEF BeginSuite, NoSuite
    <3> QED BY <2>2, <3>1 DEF BeginSuite, onDisk, SuiteMoves, MemoryMoves, RunsMove, RecordsMove, HowItWent
  <2>3. ASSUME NEW request, SetupFails(request) PROVE SuiteMoves
    BY <2>3 DEF SetupFails, onDisk, Leaves, SuiteMoves, MemoryMoves, RunsMove, RecordsMove
  <2>4. CASE EndSuite \/ Killed
    BY <2>4 DEF EndSuite, Killed, Dies, Leaves, onDisk, SuiteMoves, MemoryMoves, RunsMove, RecordsMove
  <2>5. CASE \/ \E calculator \in Calculator : StartCampaign(calculator)
             \/ Block \/ UnknownTier \/ EndCampaign \/ UNCHANGED suiteVars
    <3>1. suite' = suite /\ trajectories' = trajectories /\ forces' = forces
      BY <2>5 DEF StartCampaign, Block, UnknownTier, EndCampaign, suiteVars, onDisk
    <3>2. RecordsMove
      BY <2>5 DEF StartCampaign, Block, UnknownTier, EndCampaign, suiteVars, RecordsMove
    <3> QED BY <3>1, <3>2 DEF SuiteMoves, MemoryMoves, RunsMove, SuiteWords
  <2> QED BY <2>1, <2>2, <2>3, <2>4, <2>5 DEF SuitesNext
<1>2. suite'.endpoints \in HowItWent /\ suite'.band \in HowItWent
  <2>1. NoSuite.endpoints = "none" /\ NoSuite.band = "none"
    BY DEF NoSuite
  <2> QED BY <1>1, <2>1 DEF SuiteMoves, MemoryMoves, HowItWent
<1>3. \A d \in DOMAIN trajectories' : trajectories'[d].rows \in {"good", "bad", "partial"}
  <2>1. ASSUME NEW rows \in {"good", "bad", "partial"}, Store(rows)
        PROVE  \A d \in DOMAIN trajectories' : trajectories'[d].rows \in {"good", "bad", "partial"}
    BY <2>1 DEF Store, SuiteWords
  <2>2. CASE trajectories' = trajectories
    BY <2>2 DEF SuiteWords
  <2> QED BY <1>1, <2>1, <2>2 DEF SuiteMoves, RunsMove
<1>5. \A k \in DOMAIN forces' : forces'[k].modes \in Quality \cup {"partial"}
  <2>1. ASSUME NEW set \in Grown, Keep(set)
        PROVE  \A k \in DOMAIN forces' : forces'[k].modes \in Quality \cup {"partial"}
    <3>1. set.modes \in Quality \cup {"partial"}
      BY DEF Grown, Cached, SuiteWords
    <3> QED BY <2>1, <3>1 DEF Keep, SuiteWords
  <2>2. CASE forces' = forces
    BY <2>2 DEF SuiteWords
  <2> QED BY <1>1, <2>1, <2>2 DEF SuiteMoves, RunsMove
<1>4. written' \subseteq Status
  <2>1. ASSUME NEW claims, NEW by, NEW of, Write(claims, by, of)
        PROVE  written' \subseteq Status
    <3>1. ASSUME NEW c \in claims PROVE c.status \in Status
      <4> DEFINE r == [test |-> c.test, status |-> c.status, rests |-> c.rests, by |-> by, of |-> of]
      <4>1. r \in report'
        BY <2>1 DEF Write
      <4>2. \A q \in report' : q.status \in Status
        BY SuitesStep DEF SuitesInv, IsBacked
      <4> QED BY <4>1, <4>2
    <3> QED BY <2>1, <3>1 DEF Write, SuiteWords
  <2> QED BY <1>1, <2>1 DEF SuiteMoves, RecordsMove, SuiteWords
<1> QED BY <1>2, <1>3, <1>4, <1>5 DEF SuiteWords

\* The campaign has its types: the states and the exit code of a call, how the
\* endpoints, the bands and the runs went, and the statuses of the records.
THEOREM SuitesTypesCorrect == SuitesSpec => []SuitesTypeOK
<1>1. SuitesInit => SuiteWords
  BY DEF SuitesInit, SuiteWords, NoSuite, HowItWent
<1>2. SuitesInv /\ SuiteWords => SuitesTypeOK
  <2> SUFFICES ASSUME SuitesInv, SuiteWords PROVE SuitesTypeOK
    OBVIOUS
  <2>1. call.exit \in 0..2
    BY DEF SuitesInv, CallOK
  <2> QED BY <2>1 DEF SuitesInv, SuiteWords, SuitesTypeOK, CallOK, IsBacked, HowItWent
<1> QED BY <1>1, <1>2, SuitesInvInit, SuitesStep, SuiteWordsStep, PTL DEF SuitesSpec
===============================================================================
