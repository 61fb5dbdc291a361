------------------------------ MODULE OneLook ------------------------------
(***************************************************************************)
(* The research funnel of pipeline.py (screen, cost stress, purged         *)
(* cross-validation, one look at the out-of-sample slice), the registry    *)
(* that grants the look, the comparison of meta policies that uses the     *)
(* same registry (meta_oos.py) and the status the funnel reports           *)
(* (status.py).  What a simulation returns is a fact about the dataset's   *)
(* content; the stage cache and the registry are files that survive a      *)
(* process, which may die between any two steps.                           *)
(***************************************************************************)
EXTENDS Integers, Sequences, FiniteSets, FiniteSetsExt, TLC

CONSTANTS Workers,          \* processes; the registry assumes one
          Strats, Contents, \* strategies; dataset contents (digests)
          Tags,             \* dataset tags a caller may give; "" is none
          Screened, Survives, \* content -> configurations that lead the screen / pass at cost x2
          Selected,         \* content -> set of survivors -> configuration selected in cross-validation
          OldLooks,         \* v1 registry keys <<version, strategy>> a file may hold
          MaxJobs, MaxVersion \* bounds: funnel runs, version bumps

\* OosRegistry has no lock between its check and its write (pipeline.py:785).
ASSUME OneProcess == \A v, w \in Workers : v = w

\* Cross-validation selects among the configurations it is given.
Leaders == UNION {Screened[c] : c \in Contents}
ASSUME SelectionChooses ==
    \A c \in Contents, s \in SUBSET Leaders : s # {} => Selected[c][s] \in s

\* A caller's tag is a name, never the SHA-1 of some dataset.
ASSUME TagsAreNames == Tags \cap Contents = {}

VARIABLES job,              \* worker -> the run it executes
          cache,            \* stage key -> stored output
          registry,         \* the JSON file: entries, legacy keys, whether it parses
          version,          \* engine, cost, feature and DSL versions, as one number
          looks,            \* <<content, strategy>> of every read of an out-of-sample slice, in order
          reports,          \* results handed to callers
          jobs

lookVars == <<job, cache, registry, version, looks, reports, jobs>>

NoJob == [pc |-> "idle"]
MetaPolicy == "META_POLICY"
VersionOf(content, tag) == IF tag = "" THEN content ELSE tag

LookInit ==
    /\ job = [w \in Workers |-> NoJob]
    /\ cache = <<>> /\ version = 1 /\ looks = <<>> /\ reports = {} /\ jobs = 0
    /\ \E old \in OldLooks : registry = [entries |-> {}, legacy |-> old, parses |-> TRUE]

At(w, pc) == job[w].pc = pc
Goto(w, pc) == job' = [job EXCEPT ![w].pc = pc]
Leave(w) == job' = [job EXCEPT ![w] = NoJob]

\* run_stages: df and the optional oos_df are two frames; nothing compares them.
BeginStages(w) ==
    /\ At(w, "idle") /\ jobs < MaxJobs /\ jobs' = jobs + 1
    /\ \E s \in Strats, df \in Contents, oos \in {{}} \cup {{c} : c \in Contents}, tag \in Tags :
          job' = [job EXCEPT ![w] = [pc |-> "screen", strategy |-> s, df |-> df, oos |-> oos, tag |-> tag,
                                     survivors |-> {}, chosen |-> {}]]
    /\ UNCHANGED <<cache, registry, version, looks, reports>>

\* Mutant: the content digest is not part of the key.
KeyOfTag(w, stage, inputs) == <<stage, job[w].strategy, job[w].tag, inputs, version>>

\* A stage is replayed from the cache when its key is there; the key names the tag when there is
\* one, the content digest otherwise.
Key(w, stage, inputs) == <<stage, job[w].strategy, VersionOf(job[w].df, job[w].tag), inputs, version>>
Cached(w, stage, inputs, fresh) ==
    IF Key(w, stage, inputs) \in DOMAIN cache THEN cache[Key(w, stage, inputs)] ELSE fresh
Remember(w, stage, inputs, fresh) ==
    cache' = [k \in DOMAIN cache \cup {Key(w, stage, inputs)} |->
                IF k \in DOMAIN cache THEN cache[k] ELSE fresh]

StageOutput(w, stage) ==
    LET df == job[w].df IN
    IF stage = "screen" THEN Screened[df]
    ELSE IF stage = "stress" THEN job[w].survivors \cap Survives[df]
    ELSE {Selected[df][job[w].survivors]}
After == [screen |-> "stress", stress |-> "cv", cv |-> "oos"]

FunnelStage(w, stage) ==
    LET fresh == StageOutput(w, stage)
        out == Cached(w, stage, job[w].survivors, fresh)
    IN  /\ At(w, stage) /\ (stage = "cv" => job[w].survivors # {})
        /\ Remember(w, stage, job[w].survivors, fresh)
        /\ job' = [job EXCEPT ![w].pc = After[stage],
                              ![w].survivors = IF stage = "cv" THEN @ ELSE out,
                              ![w].chosen = IF stage = "cv" THEN out ELSE @]
        /\ UNCHANGED <<registry, version, looks, reports, jobs>>

\* No survivor: cross-validation is skipped and the look is blocked.
SkipCv(w) ==
    /\ At(w, "cv") /\ job[w].survivors = {} /\ Goto(w, "report")
    /\ UNCHANGED <<cache, registry, version, looks, reports, jobs>>
NoOos(w) ==
    /\ At(w, "oos") /\ job[w].oos = {} /\ Goto(w, "report")
    /\ UNCHANGED <<cache, registry, version, looks, reports, jobs>>

Slice(w) == CHOOSE c \in job[w].oos : TRUE
\* Mutant: an entry of other versions does not count.
MatchingOfVersion(content, s) ==
    {e \in registry.entries : e.content = content /\ e.strategy = s /\ e.version = version}

Matching(content, s) == {e \in registry.entries : e.content = content /\ e.strategy = s}

\* check_identity, before the run: any prior entry of the slice refuses, whatever its versions.
\* The v1 keys are not consulted.  A file that does not parse raises.
CheckIdentity(w) ==
    /\ At(w, "oos") /\ job[w].oos # {}
    /\ IF registry.parses /\ Matching(Slice(w), job[w].strategy) = {} THEN Goto(w, "look") ELSE Leave(w)
    /\ UNCHANGED <<cache, registry, version, looks, reports, jobs>>

\* The backtest on the slice: from here on it has been seen.
ReadSlice(w) ==
    /\ At(w, "look") /\ Goto(w, "record")
    /\ looks' = Append(looks, <<Slice(w), job[w].strategy>>)
    /\ UNCHANGED <<cache, registry, version, reports, jobs>>

\* certify_identity: check again, load, append, write the file in place.
Entry(w) == [content |-> Slice(w), strategy |-> job[w].strategy, tag |-> job[w].tag,
             config |-> job[w].chosen, version |-> version]
CertifyIdentity(w) ==
    /\ At(w, "record")
    /\ IF registry.parses /\ Matching(Slice(w), job[w].strategy) = {}
       THEN registry' = [registry EXCEPT !.entries = @ \cup {Entry(w)}] /\ Goto(w, "report")
       ELSE Leave(w) /\ UNCHANGED registry
    /\ UNCHANGED <<cache, version, looks, reports, jobs>>
\* write_text truncates first: a process killed inside it leaves a file that does not parse.
DieWhileSaving(w) ==
    /\ At(w, "record") /\ registry.parses /\ Matching(Slice(w), job[w].strategy) = {}
    /\ registry' = [registry EXCEPT !.parses = FALSE] /\ Leave(w)
    /\ UNCHANGED <<cache, version, looks, reports, jobs>>
Die(w) ==
    /\ ~At(w, "idle") /\ Leave(w)
    /\ UNCHANGED <<cache, registry, version, looks, reports, jobs>>

\* pipeline_certification_status on the finished funnel; run_stages never runs MT5.
Recorded(w) == job[w].oos # {} /\ job[w].survivors # {}
FunnelStatus(w) ==
    IF job[w].survivors = {} THEN <<"NOT_ELIGIBLE", "NO_VALID_SURVIVOR">>
    ELSE <<"EMPIRICAL_VALIDATION_PENDING", IF Recorded(w) THEN "MT5_NOT_RUN" ELSE "LOOK_NOT_USED">>
ReportFunnel(w) ==
    /\ At(w, "report") /\ Leave(w)
    /\ reports' = reports \cup
         {[status |-> FunnelStatus(w), strategy |-> job[w].strategy, df |-> job[w].df, tag |-> job[w].tag,
           oos |-> job[w].oos, chosen |-> job[w].chosen, survivors |-> job[w].survivors]}
    /\ UNCHANGED <<cache, registry, version, looks, jobs>>

\* run_meta_oos: the policies are weighted on development data, then the same check, look, record.
BeginMetaOos(w) ==
    /\ At(w, "idle") /\ jobs < MaxJobs /\ jobs' = jobs + 1
    /\ \E df \in Contents, oos \in Contents, tag \in Tags :
          job' = [job EXCEPT ![w] = [pc |-> "oos", strategy |-> MetaPolicy, df |-> df, oos |-> {oos},
                                     tag |-> tag, survivors |-> {MetaPolicy}, chosen |-> {MetaPolicy}]]
    /\ UNCHANGED <<cache, registry, version, looks, reports>>

\* OosRegistry.certify, the entry point of older callers: keyed by the version string, it refuses
\* what either kind of record covers and writes a v1 key.
LegacyCertify(w) ==
    /\ At(w, "idle") /\ jobs < MaxJobs /\ jobs' = jobs + 1 /\ registry.parses
    /\ \E s \in Strats, c \in Contents :
          /\ <<c, s>> \notin registry.legacy /\ Matching(c, s) = {}
          /\ registry' = [registry EXCEPT !.legacy = @ \cup {<<c, s>>}]
          /\ looks' = Append(looks, <<c, s>>)
    /\ UNCHANGED <<job, cache, version, reports>>

BumpVersion ==
    /\ version < MaxVersion /\ version' = version + 1
    /\ UNCHANGED <<job, cache, registry, looks, reports, jobs>>

LookNext ==
    \/ \E w \in Workers :
          \/ BeginStages(w) \/ BeginMetaOos(w) \/ LegacyCertify(w)
          \/ \E stage \in {"screen", "stress", "cv"} : FunnelStage(w, stage)
          \/ SkipCv(w) \/ NoOos(w) \/ CheckIdentity(w) \/ ReadSlice(w)
          \/ CertifyIdentity(w) \/ DieWhileSaving(w) \/ ReportFunnel(w) \/ Die(w)
    \/ BumpVersion

-----------------------------------------------------------------------------
(* What must hold. *)

Slices(seq) == {seq[k] : k \in DOMAIN seq}

\* OosRegistry.check_identity and certify_identity: one record per slice and strategy whatever
\* versions or tags change, and a slice on record is never read again by the funnel.
RecordedLookIsFinal ==
    /\ [](\A e, f \in registry.entries : e.content = f.content /\ e.strategy = f.strategy => e = f)
    /\ [][/\ registry.entries \subseteq registry'.entries
          /\ \A w \in Workers : At(w, "look") /\ looks' # looks =>
                Matching(Slice(w), job[w].strategy) = {}]_lookVars

\* run_stages: without a tag the cache never mixes datasets, so what reaches the look survived the
\* doubled costs on the very content the caller gave, and a report of a used look has its record.
LookIsEarned ==
    \A r \in reports :
        /\ r.tag = "" /\ r.strategy # MetaPolicy => r.survivors \subseteq Survives[r.df]
        /\ r.chosen \subseteq r.survivors
        /\ r.status[2] = "MT5_NOT_RUN" =>
             \E e \in registry.entries : {e.content} = r.oos /\ e.strategy = r.strategy

\* pipeline.py:796 "One look, recorded, forever": no slice is read twice for one strategy.
SliceReadOnce == Cardinality(Slices(looks)) = Len(looks)

\* pipeline.py:799 "v1 files ... keep their enforcement": the funnel reads no slice a v1 key covers.
OldLooksStillCount ==
    [][\A w \in Workers : At(w, "look") /\ looks' # looks =>
          <<Slice(w), job[w].strategy>> \notin registry.legacy]_lookVars

\* pipeline.py:1134 "keyed by the stage inputs (content digests ...)": what a funnel reports is
\* about the dataset it was given.
CacheKnowsTheContent ==
    \A r \in reports : r.strategy # MetaPolicy => r.survivors \subseteq Survives[r.df]
=============================================================================
