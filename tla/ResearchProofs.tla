---------------------------- MODULE ResearchProofs ----------------------------
(***************************************************************************)
(* Proofs about the research side, one section per module.                 *)
(*   OneLook: in one process the check of the registry holds until the     *)
(* read and the record that follow it, and an untagged key of the cache    *)
(* names a content.                                                        *)
(*   DatasetStore: every record that can be read, the one still to be      *)
(* written and every reference included, says what it was made of: a raw   *)
(* file with a record is never written again, so a clean file is what      *)
(* cleaning makes of it or what a crash left of that.                      *)
(*   WalkForward: the segments start strictly later one after the other,   *)
(* so the schedule is accepted and the latest entry at or before a bar is  *)
(* the segment the bar lies in; the ranking of a grid is a preorder with a *)
(* first leader.  The spans of a fold are merged one by one into spans one *)
(* after the other with gaps between them, so every bar is in one of them, *)
(* and a bar within the embargo of a test bar is in none to train on.      *)
(*   MetaStudies: both policies decide on one grid, a bar is governed by   *)
(* the last decision before it, and the drift windows are the ends of what *)
(* had closed.                                                             *)
(*   Certification: the legs so far are a prefix of the plan, which visits *)
(* every regime at every model once.                                       *)
(***************************************************************************)
EXTENDS OneLook, DatasetStore, WalkForward, MetaStudies, Certification,
        FiniteSetTheorems, WellFoundedInduction, TLAPS

-----------------------------------------------------------------------------
(* Numbers and finite sets. *)

\* Every non-empty set of naturals has a least element: induction without a predicate.
LEMMA HasLeast == ASSUME NEW T \in SUBSET Nat, T # {} PROVE \E x \in T : \A y \in T : x <= y
<1> DEFINE R == {ss \in Nat \X Nat : ss[1] < ss[2]}
<1>1. IsWellFoundedOn(R, Nat)
  BY NatLessThanWellFounded DEF OpToRel
<1>2. \A x, y \in Nat : x < y => <<x, y>> \in R
  OBVIOUS
<1> HIDE DEF R
<1>3. PICK x \in T : \A y \in T : ~ (<<y, x>> \in R)
  BY <1>1, WFMin
<1>4. ASSUME NEW y \in T PROVE x <= y
  <2>1. x \in Nat /\ y \in Nat /\ ~(y < x)
    BY <1>2, <1>3
  <2> QED
    BY <2>1
<1> QED
  BY <1>4

LEMMA Counting ==
    ASSUME NEW S, IsFiniteSet(S), NEW T \in SUBSET S
    PROVE IsFiniteSet(T) /\ Cardinality(T) \in Nat /\ Cardinality(S) \in Nat /\ Cardinality(T) <= Cardinality(S)
BY FS_Subset, FS_CardinalityType
LEMMA AtMostOne == ASSUME NEW S, \A x, y \in S : x = y PROVE Cardinality(S) <= 1
<1>1. CASE S = {}
  BY <1>1, FS_EmptySet
<1>2. CASE S # {}
  <2>1. PICK x \in S : TRUE
    BY <1>2
  <2>2. S = {x}
    BY <2>1
  <2> QED
    BY <2>2, FS_Singleton
<1> QED
  BY <1>1, <1>2

LEMMA Grows == ASSUME NEW a \in Int, NEW b \in Int, NEW c \in Nat, a <= b PROVE a * c <= b * c
OBVIOUS

LEMMA MinOfTwo == ASSUME NEW a \in Int, NEW b \in Int PROVE Min({a, b}) = IF a <= b THEN a ELSE b
BY DEF Min
LEMMA MaxOfTwo == ASSUME NEW a \in Int, NEW b \in Int PROVE Max({a, b}) = IF a >= b THEN a ELSE b
BY DEF Max
LEMMA DivGrows == ASSUME NEW a \in Int, NEW b \in Int, a <= b, NEW n \in Nat \ {0} PROVE a \div n <= b \div n
OBVIOUS

-----------------------------------------------------------------------------
(* OneLook. *)

LookSpec == LookInit /\ [][LookNext]_lookVars

JobFields == {"pc", "strategy", "df", "oos", "tag", "survivors", "chosen"}

JobsAreRecords ==
    /\ DOMAIN job = Workers
    /\ \A w \in Workers : ~At(w, "idle") => DOMAIN job[w] = JobFields
OneEntryEach == \A e, f \in registry.entries : e.content = f.content /\ e.strategy = f.strategy => e = f
LookIsFree == \A w \in Workers : At(w, "look") => Matching(Slice(w), job[w].strategy) = {}

LookInv == JobsAreRecords /\ OneEntryEach /\ LookIsFree

\* What one step of the one process may do to a slice on record.
Final ==
    /\ registry.entries \subseteq registry'.entries
    /\ \A w \in Workers : At(w, "look") /\ looks' # looks => Matching(Slice(w), job[w].strategy) = {}

LEMMA LookInitInv == LookInit => LookInv
BY DEF LookInit, LookInv, JobsAreRecords, OneEntryEach, LookIsFree, At, NoJob

\* A step that leaves the registry's entries alone and does not lead to the look.
LEMMA Elsewhere ==
    ASSUME LookInv, JobsAreRecords', registry'.entries = registry.entries, \A w \in Workers : ~At(w, "look")'
    PROVE  LookInv'
BY DEF LookInv, OneEntryEach, LookIsFree

LEMMA GotoKeeps ==
    ASSUME LookInv, NEW w \in Workers, ~At(w, "idle"), NEW pc, Goto(w, pc)
    PROVE  JobsAreRecords' /\ job'[w].pc = pc /\ job'[w].strategy = job[w].strategy /\ job'[w].oos = job[w].oos
BY OneProcess DEF LookInv, JobsAreRecords, Goto, At, JobFields

LEMMA LeaveKeeps ==
    ASSUME LookInv, NEW w \in Workers, Leave(w)
    PROVE  JobsAreRecords' /\ job'[w] = NoJob
BY OneProcess DEF LookInv, JobsAreRecords, Leave, At, NoJob, JobFields

\* Most steps take the process somewhere else than to the look and leave the entries alone.
LEMMA Moved ==
    ASSUME LookInv, NEW w \in Workers, JobsAreRecords', job'[w].pc # "look",
           registry'.entries = registry.entries
    PROVE  LookInv'
<1>1. \A v \in Workers : ~At(v, "look")'
  BY OneProcess DEF At
<1> QED BY <1>1, Elsewhere

LEMMA Gone ==
    ASSUME LookInv, NEW w \in Workers, Leave(w), registry'.entries = registry.entries
    PROVE  LookInv'
BY LeaveKeeps, Moved DEF NoJob

LEMMA Went ==
    ASSUME LookInv, NEW w \in Workers, ~At(w, "idle"), NEW pc, pc # "look", Goto(w, pc),
           registry'.entries = registry.entries
    PROVE  LookInv'
BY GotoKeeps, Moved

\* A worker takes a new job: a record of the right fields, not at the look.
LEMMA Started ==
    ASSUME LookInv, NEW w \in Workers, NEW new, DOMAIN new = JobFields, new.pc # "look",
           job' = [job EXCEPT ![w] = new], registry' = registry
    PROVE  LookInv'
<1>1. JobsAreRecords' /\ job'[w] = new
  BY OneProcess DEF LookInv, JobsAreRecords, At
<1> QED BY <1>1, Moved

LEMMA BeginKeeps ==
    ASSUME LookInv, NEW w \in Workers, BeginStages(w) \/ BeginMetaOos(w)
    PROVE  LookInv'
<1>1. CASE BeginStages(w)
  <2>1. PICK s \in Strats, df \in Contents, oos \in SUBSET Contents, tag \in Tags :
           job' = [job EXCEPT ![w] = [pc |-> "screen", strategy |-> s, df |-> df, oos |-> oos, tag |-> tag,
                                      survivors |-> {}, chosen |-> {}]]
    BY <1>1 DEF BeginStages
  <2>2. PICK new : new = [pc |-> "screen", strategy |-> s, df |-> df, oos |-> oos, tag |-> tag,
                          survivors |-> {}, chosen |-> {}]
    OBVIOUS
  <2>3. DOMAIN new = JobFields /\ new.pc # "look" /\ job' = [job EXCEPT ![w] = new] /\ registry' = registry
    BY <1>1, <2>1, <2>2 DEF BeginStages, JobFields
  <2> QED BY <2>3, Started
<1>2. CASE BeginMetaOos(w)
  <2>1. PICK df \in Contents, oos \in Contents, tag \in Tags :
           job' = [job EXCEPT ![w] = [pc |-> "oos", strategy |-> MetaPolicy, df |-> df, oos |-> {oos},
                                      tag |-> tag, survivors |-> {MetaPolicy}, chosen |-> {MetaPolicy}]]
    BY <1>2 DEF BeginMetaOos
  <2>2. PICK new : new = [pc |-> "oos", strategy |-> MetaPolicy, df |-> df, oos |-> {oos},
                          tag |-> tag, survivors |-> {MetaPolicy}, chosen |-> {MetaPolicy}]
    OBVIOUS
  <2>3. DOMAIN new = JobFields /\ new.pc # "look" /\ job' = [job EXCEPT ![w] = new] /\ registry' = registry
    BY <1>2, <2>1, <2>2 DEF BeginMetaOos, JobFields
  <2> QED BY <2>3, Started
<1> QED BY <1>1, <1>2

LEMMA FunnelKeeps ==
    ASSUME LookInv, NEW w \in Workers, NEW stage \in {"screen", "stress", "cv"}, FunnelStage(w, stage)
    PROVE  LookInv'
<1>1. DOMAIN job = Workers /\ DOMAIN job[w] = JobFields
  BY DEF LookInv, JobsAreRecords, FunnelStage, At
<1>2. PICK survivors, chosen : job' = [job EXCEPT ![w].pc = After[stage], ![w].survivors = survivors,
                                                  ![w].chosen = chosen]
  BY DEF FunnelStage
<1>3. job' = [job EXCEPT ![w] = [job[w] EXCEPT !.pc = After[stage], !.survivors = survivors, !.chosen = chosen]]
  BY <1>1, <1>2
<1>4. PICK new : new = [job[w] EXCEPT !.pc = After[stage], !.survivors = survivors, !.chosen = chosen]
  OBVIOUS
<1>5. DOMAIN new = JobFields /\ new.pc = After[stage]
  BY <1>1, <1>4 DEF JobFields
<1>6. After[stage] # "look"
  BY DEF After
<1>7. registry' = registry
  BY DEF FunnelStage
<1> QED BY <1>3, <1>4, <1>5, <1>6, <1>7, Started

\* The check leads to the look only when no entry matches.
LEMMA CheckKeeps ==
    ASSUME LookInv, NEW w \in Workers, CheckIdentity(w)
    PROVE  LookInv'
<1>1. registry' = registry /\ ~At(w, "idle")
  BY DEF CheckIdentity, At
<1>2. CASE Leave(w)
  BY <1>1, <1>2, Gone
<1>3. CASE Goto(w, "look") /\ Matching(Slice(w), job[w].strategy) = {}
  <2>1. JobsAreRecords' /\ job'[w].strategy = job[w].strategy /\ job'[w].oos = job[w].oos
    BY <1>1, <1>3, GotoKeeps
  <2>2. Matching(Slice(w), job[w].strategy)' = {}
    BY <1>1, <1>3, <2>1 DEF Matching, Slice
  <2>3. LookIsFree'
    BY <2>2, OneProcess DEF LookIsFree
  <2> QED BY <1>1, <2>1, <2>3 DEF LookInv, OneEntryEach
<1> QED BY <1>2, <1>3 DEF CheckIdentity

\* The record is appended only when no entry matches: it stays the one of its slice and strategy.
LEMMA CertifyKeeps ==
    ASSUME LookInv, NEW w \in Workers, CertifyIdentity(w)
    PROVE  LookInv' /\ registry.entries \subseteq registry'.entries
<1>1. ~At(w, "idle")
  BY DEF CertifyIdentity, At
<1>2. CASE Leave(w) /\ registry' = registry
  BY <1>2, Gone
<1>3. CASE /\ Matching(Slice(w), job[w].strategy) = {} /\ Goto(w, "report")
           /\ registry' = [registry EXCEPT !.entries = @ \cup {Entry(w)}]
  <2>1. PICK e : e = Entry(w)
    OBVIOUS
  <2>2. e.content = Slice(w) /\ e.strategy = job[w].strategy
    BY <2>1 DEF Entry
  <2>3. \A f \in registry.entries : ~(f.content = e.content /\ f.strategy = e.strategy)
    BY <1>3, <2>2 DEF Matching
  <2>4. registry'.entries = registry.entries \cup {e} \/ registry'.entries = registry.entries
    BY <1>3, <2>1
  <2>5. OneEntryEach'
    BY <2>3, <2>4 DEF LookInv, OneEntryEach
  <2>6. JobsAreRecords' /\ job'[w].pc = "report"
    BY <1>1, <1>3, GotoKeeps
  <2>7. LookIsFree'
    BY <2>6, OneProcess DEF LookIsFree, At
  <2> QED BY <2>4, <2>5, <2>6, <2>7 DEF LookInv
<1> QED BY <1>2, <1>3 DEF CertifyIdentity

LEMMA WorkerKeeps ==
    ASSUME LookInv, NEW w \in Workers,
           \/ LegacyCertify(w) \/ SkipCv(w) \/ NoOos(w) \/ ReadSlice(w)
           \/ DieWhileSaving(w) \/ ReportFunnel(w) \/ Die(w)
    PROVE  LookInv' /\ registry'.entries = registry.entries
<1>1. CASE LegacyCertify(w)
  <2>1. job' = job /\ registry'.entries = registry.entries
    BY <1>1 DEF LegacyCertify
  <2> QED BY <2>1, <1>1, OneProcess DEF LegacyCertify, LookInv, JobsAreRecords, OneEntryEach, LookIsFree, At
<1>2. CASE SkipCv(w)
  BY <1>2, Went DEF SkipCv, At
<1>3. CASE NoOos(w)
  BY <1>3, Went DEF NoOos, At
<1>4. CASE ReadSlice(w)
  BY <1>4, Went DEF ReadSlice, At
<1>5. CASE DieWhileSaving(w)
  <2>1. Leave(w) /\ registry'.entries = registry.entries
    BY <1>5 DEF DieWhileSaving
  <2> QED BY <2>1, Gone
<1>6. CASE ReportFunnel(w)
  BY <1>6, Gone DEF ReportFunnel
<1>7. CASE Die(w)
  BY <1>7, Gone DEF Die
<1> QED BY <1>1, <1>2, <1>3, <1>4, <1>5, <1>6, <1>7

\* Only the look appends to the reads, and the look was free.
LEMMA NextKeeps ==
    ASSUME LookInv, [LookNext]_lookVars
    PROVE  LookInv' /\ Final
<1>1. (\A w \in Workers : At(w, "look") => Matching(Slice(w), job[w].strategy) = {})
  BY DEF LookInv, LookIsFree
<1>2. CASE UNCHANGED lookVars
  BY <1>1, <1>2 DEF lookVars, LookInv, JobsAreRecords, OneEntryEach, LookIsFree, At, Matching, Slice, Final
<1>3. CASE BumpVersion
  BY <1>1, <1>3 DEF BumpVersion, LookInv, JobsAreRecords, OneEntryEach, LookIsFree, At, Matching, Slice, Final
<1>4. ASSUME NEW w \in Workers, BeginStages(w) \/ BeginMetaOos(w)
      PROVE  LookInv' /\ Final
  <2>1. registry' = registry
    BY <1>4 DEF BeginStages, BeginMetaOos
  <2> QED BY <1>1, <1>4, <2>1, BeginKeeps DEF Final
<1>5. ASSUME NEW w \in Workers, NEW stage \in {"screen", "stress", "cv"}, FunnelStage(w, stage)
      PROVE  LookInv' /\ Final
  <2>1. registry' = registry
    BY <1>5 DEF FunnelStage
  <2> QED BY <1>1, <1>5, <2>1, FunnelKeeps DEF Final
<1>6. ASSUME NEW w \in Workers, CheckIdentity(w)
      PROVE  LookInv' /\ Final
  <2>1. registry' = registry
    BY <1>6 DEF CheckIdentity
  <2> QED BY <1>1, <1>6, <2>1, CheckKeeps DEF Final
<1>7. ASSUME NEW w \in Workers, CertifyIdentity(w)
      PROVE  LookInv' /\ Final
  BY <1>1, <1>7, CertifyKeeps DEF Final
<1>8. ASSUME NEW w \in Workers,
             \/ LegacyCertify(w) \/ SkipCv(w) \/ NoOos(w) \/ ReadSlice(w)
             \/ DieWhileSaving(w) \/ ReportFunnel(w) \/ Die(w)
      PROVE  LookInv' /\ Final
  BY <1>1, <1>8, WorkerKeeps DEF Final
<1> QED BY <1>2, <1>3, <1>4, <1>5, <1>6, <1>7, <1>8 DEF LookNext

\* OosRegistry.check_identity and certify_identity: however runs, crashes and version bumps follow
\* each other in one process, a slice has one record for a strategy and, once recorded, is not read.
THEOREM LookFinal == LookSpec => RecordedLookIsFinal
<1>1. LookSpec => []LookInv
  BY LookInitInv, NextKeeps, PTL DEF LookSpec
<1>2. LookInv => \A e, f \in registry.entries : e.content = f.content /\ e.strategy = f.strategy => e = f
  BY DEF LookInv, OneEntryEach
<1>3. LookInv /\ [LookNext]_lookVars =>
        [/\ registry.entries \subseteq registry'.entries
         /\ \A w \in Workers : At(w, "look") /\ looks' # looks =>
               Matching(Slice(w), job[w].strategy) = {}]_lookVars
  BY NextKeeps DEF Final
<1> QED BY <1>1, <1>2, <1>3, PTL DEF LookSpec, RecordedLookIsFinal

-----------------------------------------------------------------------------
(* What a reported survivor has survived.  A key names its stage and, when  *)
(* no tag was given, the content the stage ran on, so an output in the      *)
(* cache says of that content what a fresh one would say.                   *)

CacheIsHonest ==
    \A k \in DOMAIN cache :
        /\ k[1] = "screen" => cache[k] \subseteq Leaders
        /\ k[1] = "stress" => cache[k] \subseteq k[4]
        /\ k[1] = "stress" /\ k[3] \in Contents => cache[k] \subseteq Survives[k[3]]
        /\ k[1] = "cv" => cache[k] \subseteq k[4]

\* What a funnel that has reached the step pc holds.
HeldAt(j, pc) ==
    /\ j.chosen \subseteq j.survivors
    /\ pc = "screen" => j.chosen = {}
    /\ pc = "stress" => j.survivors \subseteq Leaders /\ j.chosen = {}
    /\ pc = "cv" => j.survivors \subseteq Leaders
    /\ pc \in {"cv", "oos", "look", "record", "report"} /\ j.tag = "" /\ j.strategy # MetaPolicy =>
          j.survivors \subseteq Survives[j.df]

JobFits(j) ==
    /\ j.df \in Contents /\ j.tag \in Tags
    /\ j.oos = {} \/ \E c \in Contents : j.oos = {c}
    /\ j.pc \in {"screen", "stress", "cv", "oos", "look", "record", "report"}
    /\ HeldAt(j, j.pc)

OnRecord(content, s) == \E e \in registry.entries : {e.content} = content /\ e.strategy = s

JobsAreHonest ==
    \A w \in Workers : ~At(w, "idle") =>
        /\ JobFits(job[w])
        /\ At(w, "look") \/ At(w, "record") => job[w].oos # {}
        /\ At(w, "report") /\ job[w].oos # {} /\ job[w].survivors # {} =>
              OnRecord(job[w].oos, job[w].strategy)

\* The registry file has its list of entries.
Filed == "entries" \in DOMAIN registry

EarnedInv == JobsAreRecords /\ CacheIsHonest /\ JobsAreHonest /\ LookIsEarned

LEMMA EarnedInit == LookInit => EarnedInv
BY DEF LookInit, EarnedInv, JobsAreRecords, CacheIsHonest, JobsAreHonest, LookIsEarned, At, NoJob

\* A record once made stays, so a report's look stays recorded.
LEMMA ReportsStay ==
    ASSUME LookIsEarned, reports' = reports, registry.entries \subseteq registry'.entries
    PROVE  LookIsEarned'
BY DEF LookIsEarned

LEMMA RecordStays ==
    ASSUME NEW c, NEW s, OnRecord(c, s), registry.entries \subseteq registry'.entries
    PROVE  OnRecord(c, s)'
BY DEF OnRecord

\* A step that gives the process the job new and leaves cache and reports alone.
LEMMA JobChanged ==
    ASSUME EarnedInv, NEW w \in Workers, NEW new, job' = [job EXCEPT ![w] = new],
           cache' = cache, reports' = reports, registry.entries \subseteq registry'.entries,
           DOMAIN new = JobFields, JobFits(new),
           new.pc \in {"look", "record"} => new.oos # {},
           new.pc = "report" /\ new.oos # {} /\ new.survivors # {} => OnRecord(new.oos, new.strategy)'
    PROVE  EarnedInv'
<1>1. JobsAreRecords' /\ job'[w] = new
  BY OneProcess DEF EarnedInv, JobsAreRecords, At
<1>2. CacheIsHonest'
  BY DEF EarnedInv, CacheIsHonest
<1>3. JobsAreHonest'
  BY <1>1, OneProcess DEF JobsAreHonest, At, JobFits, HeldAt
<1> QED BY <1>1, <1>2, <1>3, ReportsStay DEF EarnedInv

LEMMA JobLeft ==
    ASSUME EarnedInv, NEW w \in Workers, Leave(w), cache' = cache, reports' = reports,
           registry.entries \subseteq registry'.entries
    PROVE  EarnedInv'
<1>1. JobsAreRecords' /\ job'[w] = NoJob
  BY OneProcess DEF EarnedInv, JobsAreRecords, Leave, At, NoJob
<1>2. CacheIsHonest'
  BY DEF EarnedInv, CacheIsHonest
<1>3. JobsAreHonest'
  BY <1>1, OneProcess DEF JobsAreHonest, At, NoJob
<1> QED BY <1>1, <1>2, <1>3, ReportsStay DEF EarnedInv

\* The funnel moves to the step pc with the same strategy, datasets, tag and survivors.
LEMMA MovedOn ==
    ASSUME EarnedInv, NEW w \in Workers, ~At(w, "idle"),
           NEW pc \in {"oos", "look", "record", "report"}, Goto(w, pc),
           job[w].pc \in {"cv", "oos", "look", "record"},
           cache' = cache, reports' = reports, registry.entries \subseteq registry'.entries,
           job[w].pc = "cv" => job[w].survivors = {},
           pc \in {"look", "record"} => job[w].oos # {},
           pc = "report" /\ job[w].oos # {} /\ job[w].survivors # {} =>
               OnRecord(job[w].oos, job[w].strategy)'
    PROVE  EarnedInv'
<1>1. DOMAIN job = Workers /\ DOMAIN job[w] = JobFields /\ JobFits(job[w])
  BY DEF EarnedInv, JobsAreRecords, JobsAreHonest
<1>2. PICK new : new = [job[w] EXCEPT !.pc = pc]
  OBVIOUS
<1>3. /\ DOMAIN new = JobFields /\ new.pc = pc /\ new.strategy = job[w].strategy /\ new.df = job[w].df
      /\ new.oos = job[w].oos /\ new.tag = job[w].tag /\ new.survivors = job[w].survivors
      /\ new.chosen = job[w].chosen
  BY <1>1, <1>2 DEF JobFields
<1>4. job' = [job EXCEPT ![w] = new]
  BY <1>1, <1>2 DEF Goto
<1>5. JobFits(new)
  BY <1>1, <1>3 DEF JobFits, HeldAt
<1>6. job'[w].oos = new.oos /\ job'[w].strategy = new.strategy
  BY <1>1, <1>4
<1>7. pc = "report" /\ new.oos # {} /\ new.survivors # {} => OnRecord(new.oos, new.strategy)'
  BY <1>3, <1>6 DEF OnRecord
<1> QED BY <1>3, <1>4, <1>5, <1>7, JobChanged

\* A fresh output of a stage, and a remembered one, keep what the stage promises.
LEMMA StageIsHonest ==
    ASSUME EarnedInv, NEW w \in Workers, NEW stage \in {"screen", "stress", "cv"}, FunnelStage(w, stage),
           NEW fresh, fresh = StageOutput(w, stage),
           NEW out, out = Cached(w, stage, job[w].survivors, fresh)
    PROVE  /\ CacheIsHonest'
           /\ stage = "screen" => out \subseteq Leaders
           /\ stage = "stress" => out \subseteq job[w].survivors /\ (job[w].tag = "" => out \subseteq Survives[job[w].df])
           /\ stage = "cv" => out \subseteq job[w].survivors
<1>1. /\ JobFits(job[w]) /\ job[w].pc = stage /\ (stage = "cv" => job[w].survivors # {})
      /\ stage # "screen" => job[w].survivors \subseteq Leaders
  BY DEF EarnedInv, JobsAreHonest, FunnelStage, At, JobFits, HeldAt
<1>2. PICK key : key = Key(w, stage, job[w].survivors)
  OBVIOUS
<1>3. key[1] = stage /\ key[4] = job[w].survivors /\ (key[3] \in Contents <=> job[w].tag = "")
      /\ (job[w].tag = "" => key[3] = job[w].df)
  BY <1>1, <1>2, TagsAreNames DEF Key, VersionOf, JobFits
<1>4. /\ stage = "screen" => fresh \subseteq Leaders
      /\ stage = "stress" => fresh \subseteq job[w].survivors /\ fresh \subseteq Survives[job[w].df]
  BY <1>1 DEF StageOutput, Leaders, JobFits
<1>5. stage = "cv" => fresh \subseteq job[w].survivors
  BY <1>1, SelectionChooses DEF StageOutput, JobFits
<1>6. CacheIsHonest
  BY DEF EarnedInv
<1>7. cache' = [k \in DOMAIN cache \cup {key} |-> IF k \in DOMAIN cache THEN cache[k] ELSE fresh]
  BY <1>2 DEF FunnelStage, Remember
<1>8. CacheIsHonest'
  <2> SUFFICES ASSUME NEW k \in DOMAIN cache'
               PROVE  /\ k[1] = "screen" => cache'[k] \subseteq Leaders
                      /\ k[1] = "stress" => cache'[k] \subseteq k[4]
                      /\ k[1] = "stress" /\ k[3] \in Contents => cache'[k] \subseteq Survives[k[3]]
                      /\ k[1] = "cv" => cache'[k] \subseteq k[4]
    BY DEF CacheIsHonest
  <2>1. CASE k \in DOMAIN cache
    BY <1>6, <1>7, <2>1 DEF CacheIsHonest
  <2>2. CASE k \notin DOMAIN cache
    <3>1. k = key /\ cache'[k] = fresh
      BY <1>7, <2>2
    <3> QED BY <1>3, <1>4, <1>5, <3>1
  <2> QED BY <2>1, <2>2
<1>9. out = IF key \in DOMAIN cache THEN cache[key] ELSE fresh
  BY <1>2 DEF Cached
<1> QED BY <1>3, <1>4, <1>5, <1>6, <1>8, <1>9 DEF CacheIsHonest

LEMMA StageEarns ==
    ASSUME EarnedInv, NEW w \in Workers, NEW stage \in {"screen", "stress", "cv"}, FunnelStage(w, stage)
    PROVE  EarnedInv'
<1> DEFINE fresh == StageOutput(w, stage)
           out == Cached(w, stage, job[w].survivors, fresh)
<1>1. /\ DOMAIN job = Workers /\ DOMAIN job[w] = JobFields /\ JobFits(job[w]) /\ job[w].pc = stage
      /\ reports' = reports /\ registry' = registry
  BY DEF EarnedInv, JobsAreRecords, JobsAreHonest, FunnelStage, At
<1>2. PICK held : held = out
  OBVIOUS
<1>3. /\ CacheIsHonest'
      /\ stage = "screen" => held \subseteq Leaders
      /\ stage = "stress" => held \subseteq job[w].survivors /\ (job[w].tag = "" => held \subseteq Survives[job[w].df])
      /\ stage = "cv" => held \subseteq job[w].survivors
  BY <1>2, StageIsHonest
<1>4. job' = [job EXCEPT ![w].pc = After[stage],
                         ![w].survivors = IF stage = "cv" THEN @ ELSE held,
                         ![w].chosen = IF stage = "cv" THEN held ELSE @]
  BY <1>2 DEF FunnelStage
<1>5. PICK new : new = [job[w] EXCEPT !.pc = After[stage], !.survivors = IF stage = "cv" THEN @ ELSE held,
                                      !.chosen = IF stage = "cv" THEN held ELSE @]
  OBVIOUS
<1>6. job' = [job EXCEPT ![w] = new]
  BY <1>1, <1>4, <1>5
<1>7. /\ DOMAIN new = JobFields /\ new.pc = After[stage] /\ new.strategy = job[w].strategy
      /\ new.df = job[w].df /\ new.oos = job[w].oos /\ new.tag = job[w].tag
      /\ new.survivors = IF stage = "cv" THEN job[w].survivors ELSE held
      /\ new.chosen = IF stage = "cv" THEN held ELSE job[w].chosen
  BY <1>1, <1>5 DEF JobFields
<1>8. /\ stage = "screen" => new.pc = "stress"
      /\ stage = "stress" => new.pc = "cv"
      /\ stage = "cv" => new.pc = "oos"
  BY <1>7 DEF After
<1>9. JobFits(new)
  BY <1>1, <1>3, <1>7, <1>8 DEF JobFits, HeldAt
<1>10. JobsAreRecords' /\ job'[w] = new
  BY <1>6, <1>7, OneProcess DEF EarnedInv, JobsAreRecords, At
<1>11. JobsAreHonest'
  BY <1>8, <1>9, <1>10, OneProcess DEF JobsAreHonest, At, JobFits, HeldAt
<1> QED BY <1>1, <1>3, <1>10, <1>11, ReportsStay DEF EarnedInv

LEMMA BeginEarns ==
    ASSUME EarnedInv, NEW w \in Workers, BeginStages(w) \/ BeginMetaOos(w)
    PROVE  EarnedInv'
<1>1. cache' = cache /\ reports' = reports /\ registry' = registry
  BY DEF BeginStages, BeginMetaOos
<1>2. CASE BeginStages(w)
  <2>1. PICK s \in Strats, df \in Contents, oos \in {{}} \cup {{c} : c \in Contents}, tag \in Tags :
           job' = [job EXCEPT ![w] = [pc |-> "screen", strategy |-> s, df |-> df, oos |-> oos, tag |-> tag,
                                      survivors |-> {}, chosen |-> {}]]
    BY <1>2 DEF BeginStages
  <2>2. PICK new : new = [pc |-> "screen", strategy |-> s, df |-> df, oos |-> oos, tag |-> tag,
                          survivors |-> {}, chosen |-> {}]
    OBVIOUS
  <2>3. DOMAIN new = JobFields /\ new.pc = "screen" /\ JobFits(new) /\ job' = [job EXCEPT ![w] = new]
    BY <2>1, <2>2 DEF JobFields, JobFits, HeldAt
  <2> QED BY <1>1, <2>3, JobChanged
<1>3. CASE BeginMetaOos(w)
  <2>1. PICK df \in Contents, oos \in Contents, tag \in Tags :
           job' = [job EXCEPT ![w] = [pc |-> "oos", strategy |-> MetaPolicy, df |-> df, oos |-> {oos},
                                      tag |-> tag, survivors |-> {MetaPolicy}, chosen |-> {MetaPolicy}]]
    BY <1>3 DEF BeginMetaOos
  <2>2. PICK new : new = [pc |-> "oos", strategy |-> MetaPolicy, df |-> df, oos |-> {oos},
                          tag |-> tag, survivors |-> {MetaPolicy}, chosen |-> {MetaPolicy}]
    OBVIOUS
  <2>3. DOMAIN new = JobFields /\ new.pc = "oos" /\ JobFits(new) /\ job' = [job EXCEPT ![w] = new]
    BY <2>1, <2>2 DEF JobFields, JobFits, HeldAt
  <2> QED BY <1>1, <2>3, JobChanged
<1> QED BY <1>2, <1>3

\* A funnel with a survivor and a slice reports only after it has put its look on record.
LEMMA CertifyEarns ==
    ASSUME EarnedInv, Filed, NEW w \in Workers, CertifyIdentity(w)
    PROVE  EarnedInv'
<1>1. /\ ~At(w, "idle") /\ job[w].pc = "record" /\ job[w].oos # {} /\ JobFits(job[w])
      /\ cache' = cache /\ reports' = reports
  BY DEF CertifyIdentity, At, EarnedInv, JobsAreHonest
<1>2. CASE Leave(w) /\ registry' = registry
  BY <1>1, <1>2, JobLeft
<1>3. CASE /\ Goto(w, "report")
           /\ registry' = [registry EXCEPT !.entries = @ \cup {Entry(w)}]
  <2>1. PICK e : e = Entry(w)
    OBVIOUS
  <2>2. PICK c \in Contents : job[w].oos = {c}
    BY <1>1 DEF JobFits
  <2>3. {e.content} = job[w].oos /\ e.strategy = job[w].strategy
    BY <2>1, <2>2 DEF Entry, Slice
  <2>4. registry' = [registry EXCEPT !.entries = @ \cup {e}]
    BY <1>3, <2>1
  <2>5. registry.entries \subseteq registry'.entries
    BY <2>4
  <2>6. job'[w].oos = job[w].oos /\ job'[w].strategy = job[w].strategy
    BY <1>1, <1>3 DEF EarnedInv, JobsAreRecords, Goto, JobFields
  <2>7. OnRecord(job[w].oos, job[w].strategy)'
    BY <2>3, <2>4, <2>6 DEF OnRecord, Filed
  <2> QED BY <1>1, <1>3, <2>5, <2>7, MovedOn
<1> QED BY <1>2, <1>3 DEF CertifyIdentity

LEMMA ReportEarns ==
    ASSUME EarnedInv, NEW w \in Workers, ReportFunnel(w)
    PROVE  EarnedInv'
<1> DEFINE report == [status |-> FunnelStatus(w), strategy |-> job[w].strategy, df |-> job[w].df,
                      tag |-> job[w].tag, oos |-> job[w].oos, chosen |-> job[w].chosen,
                      survivors |-> job[w].survivors]
<1>1. /\ job[w].pc = "report" /\ JobFits(job[w]) /\ cache' = cache /\ registry' = registry
      /\ job[w].oos # {} /\ job[w].survivors # {} => OnRecord(job[w].oos, job[w].strategy)
  BY DEF ReportFunnel, At, EarnedInv, JobsAreHonest
<1>2. PICK r : r = report
  OBVIOUS
<1>3. /\ r.tag = job[w].tag /\ r.strategy = job[w].strategy /\ r.survivors = job[w].survivors
      /\ r.df = job[w].df /\ r.chosen = job[w].chosen /\ r.oos = job[w].oos /\ r.status = FunnelStatus(w)
  BY <1>2
<1>4. r.status[2] = "MT5_NOT_RUN" => job[w].oos # {} /\ job[w].survivors # {}
  <2>1. CASE job[w].survivors = {}
    <3>1. r.status = <<"NOT_ELIGIBLE", "NO_VALID_SURVIVOR">>
      BY <1>3, <2>1 DEF FunnelStatus
    <3> QED BY <3>1
  <2>2. CASE job[w].survivors # {} /\ job[w].oos = {}
    <3>1. ~Recorded(w)
      BY <2>2 DEF Recorded
    <3>2. r.status = <<"EMPIRICAL_VALIDATION_PENDING", "LOOK_NOT_USED">>
      BY <1>3, <2>2, <3>1 DEF FunnelStatus
    <3>3. r.status[2] = "LOOK_NOT_USED"
      BY <3>2
    <3> QED BY <3>3
  <2> QED BY <2>1, <2>2
<1>5. reports' = reports \cup {r}
  BY <1>2 DEF ReportFunnel
<1>6. LookIsEarned'
  BY <1>1, <1>3, <1>4, <1>5 DEF LookIsEarned, EarnedInv, JobFits, HeldAt, OnRecord
<1>7. JobsAreRecords' /\ job'[w] = NoJob
  BY OneProcess DEF ReportFunnel, EarnedInv, JobsAreRecords, Leave, At, NoJob
<1>8. CacheIsHonest'
  BY <1>1 DEF EarnedInv, CacheIsHonest
<1>9. JobsAreHonest'
  BY <1>7, OneProcess DEF JobsAreHonest, At, NoJob
<1> QED BY <1>6, <1>7, <1>8, <1>9 DEF EarnedInv

LEMMA FiledStays ==
    ASSUME Filed, [LookNext]_lookVars
    PROVE  Filed'
<1>1. ASSUME NEW w \in Workers, CertifyIdentity(w) \/ DieWhileSaving(w) \/ LegacyCertify(w)
      PROVE  DOMAIN registry' = DOMAIN registry
  BY <1>1 DEF CertifyIdentity, DieWhileSaving, LegacyCertify
<1>2. ASSUME NEW w \in Workers,
             \/ BeginStages(w) \/ BeginMetaOos(w)
             \/ \E stage \in {"screen", "stress", "cv"} : FunnelStage(w, stage)
             \/ SkipCv(w) \/ NoOos(w) \/ CheckIdentity(w) \/ ReadSlice(w) \/ ReportFunnel(w) \/ Die(w)
      PROVE  registry' = registry
  BY <1>2 DEF BeginStages, BeginMetaOos, FunnelStage, SkipCv, NoOos, CheckIdentity, ReadSlice, ReportFunnel, Die
<1>3. CASE BumpVersion \/ UNCHANGED lookVars
  BY <1>3 DEF BumpVersion, lookVars, Filed
<1> QED BY <1>1, <1>2, <1>3 DEF LookNext, Filed

\* Version bumps, the older entry point and a death leave what was earned.
LEMMA RestEarns ==
    ASSUME EarnedInv, job' = job, cache' = cache, reports' = reports,
           registry.entries \subseteq registry'.entries
    PROVE  EarnedInv'
<1>1. JobsAreHonest'
  BY DEF EarnedInv, JobsAreHonest, At, OnRecord
<1> QED BY <1>1, ReportsStay DEF EarnedInv, JobsAreRecords, CacheIsHonest, At

LEMMA NextEarns ==
    ASSUME EarnedInv, Filed, [LookNext]_lookVars
    PROVE  EarnedInv'
<1>1. ASSUME NEW w \in Workers, BeginStages(w) \/ BeginMetaOos(w)
      PROVE  EarnedInv'
  BY <1>1, BeginEarns
<1>2. ASSUME NEW w \in Workers, NEW stage \in {"screen", "stress", "cv"}, FunnelStage(w, stage)
      PROVE  EarnedInv'
  BY <1>2, StageEarns
<1>3. ASSUME NEW w \in Workers, SkipCv(w)
      PROVE  EarnedInv'
  BY <1>3, MovedOn DEF SkipCv, At
<1>4. ASSUME NEW w \in Workers, NoOos(w)
      PROVE  EarnedInv'
  BY <1>4, MovedOn DEF NoOos, At
<1>5. ASSUME NEW w \in Workers, CheckIdentity(w)
      PROVE  EarnedInv'
  BY <1>5, MovedOn, JobLeft DEF CheckIdentity, At
<1>6. ASSUME NEW w \in Workers, ReadSlice(w)
      PROVE  EarnedInv'
  <2>1. job[w].oos # {}
    BY <1>6 DEF ReadSlice, At, EarnedInv, JobsAreHonest
  <2> QED BY <1>6, <2>1, MovedOn DEF ReadSlice, At
<1>7. ASSUME NEW w \in Workers, CertifyIdentity(w)
      PROVE  EarnedInv'
  BY <1>7, CertifyEarns
<1>8. ASSUME NEW w \in Workers, DieWhileSaving(w) \/ Die(w)
      PROVE  EarnedInv'
  <2>1. registry'.entries = registry.entries /\ cache' = cache /\ reports' = reports /\ Leave(w)
    <3>1. CASE DieWhileSaving(w)
      BY <3>1 DEF DieWhileSaving
    <3>2. CASE Die(w)
      BY <3>2 DEF Die
    <3> QED BY <1>8, <3>1, <3>2
  <2> QED BY <2>1, JobLeft
<1>9. ASSUME NEW w \in Workers, ReportFunnel(w)
      PROVE  EarnedInv'
  BY <1>9, ReportEarns
<1>10. ASSUME NEW w \in Workers, LegacyCertify(w)
       PROVE  EarnedInv'
  <2>1. registry'.entries = registry.entries /\ job' = job /\ cache' = cache /\ reports' = reports
    BY <1>10 DEF LegacyCertify
  <2> QED BY <2>1, RestEarns
<1>11. CASE BumpVersion \/ UNCHANGED lookVars
  BY <1>11, RestEarns DEF BumpVersion, lookVars
<1> QED BY <1>1, <1>2, <1>3, <1>4, <1>5, <1>6, <1>7, <1>8, <1>9, <1>10, <1>11 DEF LookNext

\* run_stages: in one process, whatever is cached under whatever tag and however often a run dies:
\* an untagged funnel reports survivors of the doubled costs on the caller's own content, selects
\* among them, and calls its look used only when the registry has it.
THEOREM LookEarned == LookSpec => []LookIsEarned
<1>1. LookInit => EarnedInv /\ Filed
  BY EarnedInit DEF LookInit, Filed
<1>2. EarnedInv /\ Filed /\ [LookNext]_lookVars => EarnedInv' /\ Filed'
  BY NextEarns, FiledStays
<1>3. EarnedInv => LookIsEarned
  BY DEF EarnedInv
<1> QED BY <1>1, <1>2, <1>3, PTL DEF LookSpec

-----------------------------------------------------------------------------
(* DatasetStore. *)

DataSpec == DataInit /\ [][DataNext]_dataVars

Layers == {"raw", "clean", "derived"}
RawFile(name) == files[<<"raw", name>>]

\* What a record of a layer, or a reference made from it, is backed by.
RawBacked(name, d) == Stored("raw", name) /\ RawFile(name) \in Downloads /\ d.sha = RawFile(name)
CleanBacked(name, d) ==
    /\ Stored("clean", name) /\ RawFile(name) \in Downloads /\ Promotable(RawFile(name))
    /\ d.sha = Cleaned(RawFile(name)) /\ d.quality = Quality(Cleaned(RawFile(name))) /\ d.parent = RawFile(name)
DerivedBacked(name, d) ==
    /\ d.parent = Cleaned(RawFile(name))
    /\ \E how \in Transforms, f \in Sources(name, d.parent) : d.sha = Built(f, how)

Backed(layer, name, d) ==
    /\ layer = "raw" => RawBacked(name, d)
    /\ layer = "clean" => CleanBacked(name, d)
    /\ layer = "derived" => DerivedBacked(name, d)

KeysAreOfLayers == DOMAIN metas \subseteq Layers \X DataNames
RecordsBacked == \A layer \in Layers, name \in DataNames :
    HasRecord(layer, name) => HasRecord("raw", name) /\ Backed(layer, name, metas[<<layer, name>>])
\* A clean file is what cleaning makes of a raw file on record, or what a crash left of that.
CleanFiles == \A name \in DataNames :
    Stored("clean", name) => HasRecord("raw", name) /\ files[<<"clean", name>>] \in Sources(name, Cleaned(RawFile(name)))
WritingBacked ==
    writing # Idle =>
        /\ writing.op \in Layers /\ writing.name \in DataNames
        /\ writing.op = "raw" <=> ~HasRecord("raw", writing.name)
        /\ Stored(writing.op, writing.name) /\ files[<<writing.op, writing.name>>] = writing.record.sha
        /\ Backed(writing.op, writing.name, writing.record)
IssuedOf(r) ==
    /\ r.layer \in Layers /\ r.name \in DataNames /\ HasRecord("raw", r.name)
    /\ r.quality = "CORRUPT" => r.override
    /\ Backed(r.layer, r.name, r)
IssuedBacked == \A r \in issued : IssuedOf(r)

DataInv == KeysAreOfLayers /\ RecordsBacked /\ CleanFiles /\ WritingBacked /\ IssuedBacked

\* What is backed leads to the raw bytes.
LEMMA BackedTraces ==
    ASSUME NEW layer \in Layers, NEW name, NEW d, Backed(layer, name, d)
    PROVE  Traces(layer, name, d)
<1>1. CASE layer = "clean"
  <2>1. CleanBacked(name, d)
        BY <1>1 DEF Backed
  <2>2. Quality(Cleaned(RawFile(name))) # "CORRUPT"
        BY <2>1, CleaningRepairs DEF CleanBacked
  <2> QED
      BY <1>1, <2>1, <2>2 DEF CleanBacked, Traces, RawFile
<1>2. CASE layer # "clean"
      BY <1>2 DEF Backed, RawBacked, DerivedBacked, Traces, RawFile
<1> QED
    BY <1>1, <1>2

LEMMA BackedIsLineage == DataInv => LineageHolds
<1> SUFFICES ASSUME DataInv PROVE LineageHolds
    OBVIOUS
<1>1. ASSUME NEW key \in DOMAIN metas, metas[key] # Unreadable
      PROVE  Traces(key[1], key[2], metas[key])
  <2>1. PICK layer \in Layers, name \in DataNames : key = <<layer, name>>
        BY DEF DataInv, KeysAreOfLayers
  <2>2. Backed(layer, name, metas[key])
        BY <1>1, <2>1 DEF HasRecord, DataInv, RecordsBacked
  <2>3. Traces(layer, name, metas[key])
        BY <2>2, BackedTraces
  <2> QED
      BY <2>1, <2>3
<1>2. ASSUME NEW r \in issued
      PROVE  (r.quality = "CORRUPT" => r.override) /\ Traces(r.layer, r.name, r)
  <2>1. IssuedOf(r)
        BY DEF DataInv, IssuedBacked
  <2> QED
      BY <2>1, BackedTraces DEF IssuedOf
<1> QED
    BY <1>1, <1>2 DEF LineageHolds

LEMMA InitInv == DataInit => DataInv
BY DEF DataInit, DataInv, KeysAreOfLayers, RecordsBacked, CleanFiles, WritingBacked, IssuedBacked, HasRecord, Stored

\* What no step takes away: files, the raw files on record and their records, the names of torn files.
RawStays ==
    /\ \A name \in DataNames : HasRecord("raw", name) => HasRecord("raw", name)' /\ RawFile(name)' = RawFile(name)
    /\ \A layer \in Layers, name \in DataNames : Stored(layer, name) => Stored(layer, name)'
    /\ torn \subseteq torn'

LEMMA SourcesStay ==
    ASSUME NEW name, NEW clean, torn \subseteq torn'
    PROVE  Sources(name, clean) \subseteq Sources(name, clean)'
BY DEF Sources

LEMMA BackedStays ==
    ASSUME NEW layer \in Layers, NEW name \in DataNames, NEW d, Backed(layer, name, d), HasRecord("raw", name), RawStays
    PROVE  HasRecord("raw", name)' /\ Backed(layer, name, d)'
<1>1. /\ HasRecord("raw", name)' /\ RawFile(name)' = RawFile(name) /\ torn \subseteq torn'
      /\ Stored("raw", name) => Stored("raw", name)'
      /\ Stored("clean", name) => Stored("clean", name)'
      BY DEF RawStays, Layers
<1>2. layer = "raw" => RawBacked(name, d)'
      BY <1>1 DEF Backed, RawBacked
<1>3. layer = "clean" => CleanBacked(name, d)'
      BY <1>1 DEF Backed, CleanBacked
<1>4. layer = "derived" => DerivedBacked(name, d)'
  <2> SUFFICES ASSUME layer = "derived" PROVE DerivedBacked(name, d)'
      OBVIOUS
  <2>1. PICK clean : clean = d.parent
        OBVIOUS
  <2>2. PICK how \in Transforms, f \in Sources(name, clean) : d.sha = Built(f, how)
        BY <2>1 DEF Backed, DerivedBacked
  <2>3. f \in Sources(name, clean)'
        BY <1>1, SourcesStay
  <2>4. d.parent = Cleaned(RawFile(name)')
        BY <1>1 DEF Backed, DerivedBacked
  <2> QED
      BY <2>1, <2>2, <2>3, <2>4 DEF DerivedBacked
<1> QED
    BY <1>1, <1>2, <1>3, <1>4 DEF Backed

\* Records and references that were there stay backed.
LEMMA RecordKept ==
    ASSUME DataInv, RawStays, NEW layer \in Layers, NEW name \in DataNames, HasRecord(layer, name),
           metas'[<<layer, name>>] = metas[<<layer, name>>]
    PROVE  (HasRecord("raw", name) /\ Backed(layer, name, metas[<<layer, name>>]))'
<1>1. PICK d : d = metas[<<layer, name>>]
      OBVIOUS
<1>2. HasRecord("raw", name) /\ Backed(layer, name, d)
      BY <1>1 DEF DataInv, RecordsBacked
<1>3. HasRecord("raw", name)' /\ Backed(layer, name, d)'
      BY <1>2, BackedStays
<1> QED
    BY <1>1, <1>3 DEF Backed, RawBacked, CleanBacked, DerivedBacked

LEMMA IssuedStays == ASSUME DataInv, RawStays, issued' = issued PROVE IssuedBacked'
<1> SUFFICES ASSUME NEW r \in issued PROVE IssuedOf(r)'
    BY DEF IssuedBacked
<1>1. IssuedOf(r)
      BY DEF DataInv, IssuedBacked
<1>2. HasRecord("raw", r.name)' /\ Backed(r.layer, r.name, r)'
      BY <1>1, BackedStays DEF IssuedOf
<1> QED
    BY <1>1, <1>2 DEF IssuedOf

\* While the records stay, all that is on record stays backed.
LEMMA RecordsKept == ASSUME DataInv, RawStays, metas' = metas PROVE KeysAreOfLayers' /\ RecordsBacked'
<1>1. ASSUME NEW layer \in Layers, NEW name \in DataNames, HasRecord(layer, name)'
      PROVE  (HasRecord("raw", name) /\ Backed(layer, name, metas[<<layer, name>>]))'
      BY <1>1, RecordKept DEF HasRecord
<1> QED
    BY <1>1 DEF DataInv, KeysAreOfLayers, RecordsBacked

LEMMA CleanFilesStay ==
    ASSUME DataInv, RawStays,
           \A n \in DataNames : Stored("clean", n)' =>
              \/ Stored("clean", n) /\ files'[<<"clean", n>>] = files[<<"clean", n>>]
              \/ HasRecord("raw", n) /\ (files[<<"clean", n>>] \in Sources(n, Cleaned(RawFile(n))))'
    PROVE  CleanFiles'
<1> SUFFICES ASSUME NEW n \in DataNames, Stored("clean", n)'
             PROVE  HasRecord("raw", n)' /\ (files[<<"clean", n>>] \in Sources(n, Cleaned(RawFile(n))))'
    BY DEF CleanFiles
<1>1. CASE Stored("clean", n) /\ files'[<<"clean", n>>] = files[<<"clean", n>>]
  <2>1. HasRecord("raw", n) /\ files[<<"clean", n>>] \in Sources(n, Cleaned(RawFile(n)))
        BY <1>1 DEF DataInv, CleanFiles
  <2>2. HasRecord("raw", n)' /\ RawFile(n)' = RawFile(n) /\ torn \subseteq torn'
        BY <2>1 DEF RawStays
  <2> QED
      BY <1>1, <2>1, <2>2 DEF Sources
<1>2. CASE HasRecord("raw", n) /\ (files[<<"clean", n>>] \in Sources(n, Cleaned(RawFile(n))))'
      BY <1>2 DEF RawStays
<1> QED
    BY <1>1, <1>2

\* A step that writes a file and leaves its record to be written.
LEMMA WriteStep ==
    ASSUME DataInv, NEW layer \in Layers, NEW name \in DataNames, NEW frame, NEW parent, Write(layer, name, frame, parent),
           layer = "raw" <=> ~HasRecord("raw", name),
           layer = "raw" => frame \in Downloads,
           layer = "clean" => /\ RawFile(name) \in Downloads /\ Promotable(RawFile(name))
                              /\ frame = Cleaned(RawFile(name)) /\ parent = RawFile(name),
           layer = "derived" => /\ parent = Cleaned(RawFile(name))
                                /\ \E how \in Transforms, f \in Sources(name, parent) : frame = Built(f, how)
    PROVE  DataInv'
<1>1. /\ writing' = [op |-> layer, name |-> name,
                     record |-> [sha |-> frame, quality |-> Quality(frame), parent |-> parent]]
      /\ UNCHANGED <<metas, issued, torn>>
      BY DEF Write
<1>2. /\ DOMAIN files' = DOMAIN files \cup {<<layer, name>>} /\ files'[<<layer, name>>] = frame
      /\ \A k \in DOMAIN files : k # <<layer, name>> => files'[k] = files[k]
  <2> files' = Put(files, <<layer, name>>, frame)
      BY DEF Write
  <2> QED
      BY DEF Put
<1>3. \A n \in DataNames : HasRecord("raw", n) => Stored("raw", n)
      BY DEF DataInv, RecordsBacked, Backed, RawBacked, Layers
<1>4. RawStays
  <2>1. \A n \in DataNames : HasRecord("raw", n) => <<"raw", n>> # <<layer, name>> /\ <<"raw", n>> \in DOMAIN files
        BY <1>3 DEF Stored
  <2>2. \A n \in DataNames : HasRecord("raw", n) => HasRecord("raw", n)' /\ RawFile(n)' = RawFile(n)
        BY <1>1, <1>2, <2>1 DEF HasRecord, RawFile
  <2> QED
      BY <1>1, <1>2, <2>2 DEF RawStays, Stored
<1>5. layer # "raw" => RawFile(name)' = RawFile(name)
      BY <1>4 DEF RawStays
<1>6. CleanFiles'
  <2> SUFFICES ASSUME NEW n \in DataNames, Stored("clean", n)'
               PROVE  \/ Stored("clean", n) /\ files'[<<"clean", n>>] = files[<<"clean", n>>]
                      \/ HasRecord("raw", n) /\ (files[<<"clean", n>>] \in Sources(n, Cleaned(RawFile(n))))'
      BY <1>4, CleanFilesStay
  <2>1. CASE <<"clean", n>> = <<layer, name>>
    <3>1. HasRecord("raw", n) /\ files'[<<"clean", n>>] = Cleaned(RawFile(n)')
          BY <1>2, <1>5, <2>1
    <3> QED
        BY <3>1 DEF Sources
  <2>2. CASE <<"clean", n>> # <<layer, name>>
        BY <1>2, <2>2 DEF Stored
  <2> QED
      BY <2>1, <2>2
<1>7. WritingBacked'
  <2>1. layer = "raw" => RawBacked(name, writing.record)'
        BY <1>1, <1>2 DEF RawBacked, RawFile, Stored
  <2>2. layer = "clean" => CleanBacked(name, writing.record)'
        BY <1>1, <1>2, <1>5 DEF CleanBacked, Stored
  <2>3. layer = "derived" => DerivedBacked(name, writing.record)'
        BY <1>1, <1>5 DEF DerivedBacked, Sources
  <2>4. Backed(layer, name, writing.record)'
        BY <2>1, <2>2, <2>3 DEF Backed
  <2>5. (HasRecord("raw", name) <=> HasRecord("raw", name)') /\ Stored(layer, name)'
        BY <1>1, <1>2 DEF HasRecord, Stored
  <2>6. writing'.op = layer /\ writing'.name = name /\ writing'.record.sha = frame
        BY <1>1
  <2>7. Backed(writing.op, writing.name, writing.record)'
        BY <2>4, <2>6
  <2>8. Stored(writing.op, writing.name)' /\ (writing.op = "raw" <=> ~HasRecord("raw", writing.name))'
        BY <2>5, <2>6
  <2>9. (files[<<writing.op, writing.name>>] = writing.record.sha)'
        BY <1>2, <2>6
  <2> QED
      BY <2>6, <2>7, <2>8, <2>9 DEF WritingBacked
<1> QED
    BY <1>1, <1>4, <1>6, <1>7, RecordsKept, IssuedStays DEF DataInv

\* A step that ends the operation being written and puts something under its key leaves the rest.
LEMMA PutStays ==
    ASSUME DataInv, writing # Idle, NEW record, metas' = Put(metas, <<writing.op, writing.name>>, record), torn \subseteq torn',
           \A l \in Layers, n \in DataNames : Stored(l, n) => Stored(l, n)',
           \A n \in DataNames : HasRecord("raw", n) => RawFile(n)' = RawFile(n)
    PROVE  /\ RawStays /\ KeysAreOfLayers'
           /\ \A l \in Layers, n \in DataNames : HasRecord(l, n)' /\ <<l, n>> # <<writing.op, writing.name>> =>
                 (HasRecord("raw", n) /\ Backed(l, n, metas[<<l, n>>]))'
           /\ metas'[<<writing.op, writing.name>>] = record
<1> DEFINE key == <<writing.op, writing.name>>
<1>1. /\ writing.op \in Layers /\ writing.name \in DataNames /\ (writing.op = "raw" => ~HasRecord("raw", writing.name))
      BY DEF DataInv, WritingBacked
<1>2. /\ DOMAIN metas' = DOMAIN metas \cup {key} /\ metas'[key] = record
      /\ \A k \in DOMAIN metas : k # key => metas'[k] = metas[k]
      BY DEF Put
<1>3. RawStays
  <2>1. ASSUME NEW n \in DataNames, HasRecord("raw", n) PROVE HasRecord("raw", n)'
    <3>1. <<"raw", n>> # key
          BY <1>1, <2>1
    <3> QED
        BY <1>2, <2>1, <3>1 DEF HasRecord
  <2> QED
      BY <2>1 DEF RawStays
<1>4. KeysAreOfLayers'
  <2>1. key \in Layers \X DataNames
        BY <1>1
  <2>2. DOMAIN metas \subseteq Layers \X DataNames
        BY DEF DataInv, KeysAreOfLayers
  <2> QED
      BY <1>2, <2>1, <2>2 DEF KeysAreOfLayers
<1>5. ASSUME NEW l \in Layers, NEW n \in DataNames, HasRecord(l, n)', <<l, n>> # key
      PROVE  (HasRecord("raw", n) /\ Backed(l, n, metas[<<l, n>>]))'
  <2>1. HasRecord(l, n) /\ metas'[<<l, n>>] = metas[<<l, n>>]
        BY <1>2, <1>5 DEF HasRecord
  <2> QED
      BY <1>3, <2>1, RecordKept
<1> QED
    BY <1>2, <1>3, <1>4, <1>5

\* The record of the operation comes last: it adds one record that is backed.
LEMMA WriteMetaStep ==
    ASSUME DataInv, NEW stamped \in BOOLEAN, WriteMeta(stamped)
    PROVE  DataInv'
<1>1. /\ writing # Idle /\ writing' = Idle /\ UNCHANGED <<files, issued, torn>>
      /\ writing.op \in Layers /\ writing.name \in DataNames /\ (writing.op # "raw" => HasRecord("raw", writing.name))
      /\ Backed(writing.op, writing.name, writing.record)
      BY DEF WriteMeta, DataInv, WritingBacked
<1>2. /\ \A l \in Layers, n \in DataNames : Stored(l, n) => Stored(l, n)'
      /\ \A n \in DataNames : HasRecord("raw", n) => RawFile(n)' = RawFile(n)
      BY <1>1 DEF Stored, RawFile
<1>3. WritingBacked'
      BY <1>1 DEF WritingBacked
<1>4. CASE metas' = metas
  <2>1. RawStays
        BY <1>1, <1>2, <1>4 DEF RawStays, HasRecord
  <2>2. CleanFiles'
        BY <1>1, <2>1, CleanFilesStay DEF Stored
  <2> QED
      BY <1>1, <1>3, <1>4, <2>1, <2>2, RecordsKept, IssuedStays DEF DataInv
<1>5. CASE metas' = Put(metas, <<writing.op, writing.name>>, writing.record)
  <2>1. PICK record, op, name : record = writing.record /\ op = writing.op /\ name = writing.name
        OBVIOUS
  <2>2. /\ RawStays /\ KeysAreOfLayers' /\ metas'[<<op, name>>] = record
        /\ \A l \in Layers, n \in DataNames : HasRecord(l, n)' /\ <<l, n>> # <<op, name>> =>
              (HasRecord("raw", n) /\ Backed(l, n, metas[<<l, n>>]))'
        BY <1>1, <1>2, <1>5, <2>1, PutStays
  <2>3. Backed(op, name, record)'
        BY <1>1, <2>1 DEF Backed, RawBacked, CleanBacked, DerivedBacked, Stored, RawFile, Sources
  <2>4. HasRecord(op, name)' => (HasRecord("raw", name) /\ Backed(op, name, metas[<<op, name>>]))'
    <3>1. op # "raw" => HasRecord("raw", name)'
          BY <1>1, <2>1, <2>2 DEF RawStays
    <3>2. Backed(op, name, metas[<<op, name>>])'
          BY <2>2, <2>3 DEF Backed, RawBacked, CleanBacked, DerivedBacked
    <3> QED
        BY <3>1, <3>2
  <2>5. RecordsBacked'
        BY <2>2, <2>4 DEF RecordsBacked
  <2>6. CleanFiles'
        BY <1>1, <2>2, CleanFilesStay DEF Stored
  <2> QED
      BY <1>1, <1>3, <2>2, <2>5, <2>6, IssuedStays DEF DataInv
<1> QED
    BY <1>4, <1>5 DEF WriteMeta

\* A crash cuts short at most the file of the operation it ends, or its record: no raw file on record
\* and no record of one.
LEMMA DiesStep ==
    ASSUME DataInv, NEW in \in {"file", "nothing", "record"}, NEW stamped \in BOOLEAN, DataDies(in, stamped)
    PROVE  DataInv'
<1>1. PICK op, name : op = writing.op /\ name = writing.name
      OBVIOUS
<1>2. /\ writing # Idle /\ writing' = Idle /\ issued' = issued
      /\ op \in Layers /\ name \in DataNames /\ (op = "raw" <=> ~HasRecord("raw", name))
      /\ Stored(op, name) /\ files[<<op, name>>] = writing.record.sha /\ Backed(op, name, writing.record)
      BY <1>1 DEF DataDies, DataInv, WritingBacked
<1>3. /\ torn' = IF in = "file" /\ op = "clean" THEN torn \cup {name} ELSE torn
      /\ files' = IF in = "file" THEN [files EXCEPT ![<<op, name>>] = CutShort(files[<<op, name>>])] ELSE files
      /\ metas' = metas \/ metas' = Put(metas, <<op, name>>, Unreadable)
      BY <1>1 DEF DataDies
<1>4. /\ DOMAIN files' = DOMAIN files /\ torn \subseteq torn'
      /\ \A k \in DOMAIN files : k # <<op, name>> => files'[k] = files[k]
      BY <1>3
<1>5. /\ \A l \in Layers, n \in DataNames : Stored(l, n) => Stored(l, n)'
      /\ \A n \in DataNames : HasRecord("raw", n) => RawFile(n)' = RawFile(n)
  <2>1. \A n \in DataNames : HasRecord("raw", n) => <<"raw", n>> \in DOMAIN files
        BY DEF DataInv, RecordsBacked, Backed, RawBacked, Layers, Stored
  <2>2. \A n \in DataNames : HasRecord("raw", n) => <<"raw", n>> # <<op, name>>
        BY <1>2
  <2> QED
      BY <1>4, <2>1, <2>2 DEF Stored, RawFile
<1>6. RawStays /\ KeysAreOfLayers' /\ RecordsBacked'
  <2>1. CASE metas' = metas
    <3>1. RawStays
          BY <1>4, <1>5, <2>1 DEF RawStays, HasRecord
    <3> QED
        BY <2>1, <3>1, RecordsKept
  <2>2. CASE metas' = Put(metas, <<op, name>>, Unreadable)
    <3>1. /\ RawStays /\ KeysAreOfLayers' /\ metas'[<<op, name>>] = Unreadable
          /\ \A l \in Layers, n \in DataNames : HasRecord(l, n)' /\ <<l, n>> # <<op, name>> =>
                (HasRecord("raw", n) /\ Backed(l, n, metas[<<l, n>>]))'
      <4>1. PICK record : record = Unreadable
            OBVIOUS
      <4> QED
          BY <1>1, <1>2, <1>4, <1>5, <2>2, <4>1, PutStays
    <3>2. ~HasRecord(op, name)'
          BY <3>1 DEF HasRecord
    <3> QED
        BY <3>1, <3>2 DEF RecordsBacked
  <2> QED
      BY <1>3, <2>1, <2>2
<1>7. CleanFiles'
  <2> SUFFICES ASSUME NEW n \in DataNames, Stored("clean", n)'
               PROVE  \/ Stored("clean", n) /\ files'[<<"clean", n>>] = files[<<"clean", n>>]
                      \/ HasRecord("raw", n) /\ (files[<<"clean", n>>] \in Sources(n, Cleaned(RawFile(n))))'
      BY <1>6, CleanFilesStay
  <2>1. Stored("clean", n)
        BY <1>4 DEF Stored
  <2>2. CASE <<"clean", n>> # <<op, name>> \/ in # "file"
        BY <1>3, <1>4, <2>1, <2>2 DEF Stored
  <2>3. CASE <<"clean", n>> = <<op, name>> /\ in = "file"
    <3>1. op = "clean" /\ name = n /\ HasRecord("raw", n)
          BY <1>2, <2>3
    <3>2. files[<<"clean", n>>] = Cleaned(RawFile(n))
          BY <1>2, <3>1 DEF Backed, CleanBacked
    <3>3. files'[<<"clean", n>>] = CutShort(files[<<"clean", n>>])
          BY <1>2, <1>3, <2>3 DEF Stored
    <3>4. files'[<<"clean", n>>] = CutShort(Cleaned(RawFile(n)')) /\ n \in torn'
          BY <1>3, <1>5, <2>3, <3>1, <3>2, <3>3
    <3> QED
        BY <3>1, <3>4 DEF Sources
  <2> QED
      BY <2>2, <2>3
<1> QED
    BY <1>2, <1>6, <1>7, IssuedStays DEF DataInv, WritingBacked

LEMMA RefStep ==
    ASSUME DataInv, NEW layer \in Layers, NEW name \in DataNames, NEW allow \in BOOLEAN, Ref(layer, name, allow)
    PROVE  DataInv'
<1>1. PICK meta : meta = metas[<<layer, name>>]
      OBVIOUS
<1>2. PICK given : given = [layer |-> layer, name |-> name, sha |-> meta.sha, quality |-> meta.quality,
                            parent |-> meta.parent, override |-> allow]
      OBVIOUS
<1>3. /\ HasRecord(layer, name) /\ (meta.quality = "CORRUPT" => allow) /\ issued' = issued \cup {given}
      /\ UNCHANGED <<files, metas, writing, torn>>
      BY <1>1, <1>2 DEF Ref
<1>4. HasRecord("raw", name) /\ Backed(layer, name, meta)
      BY <1>1, <1>3 DEF DataInv, RecordsBacked
<1>5. Backed(layer, name, given)
      BY <1>2, <1>4 DEF Backed, RawBacked, CleanBacked, DerivedBacked
<1>6. IssuedOf(given)
      BY <1>2, <1>3, <1>4, <1>5 DEF IssuedOf
<1>7. RawStays
      BY <1>3 DEF RawStays, HasRecord, RawFile, Stored
<1>8. IssuedBacked'
  <2> SUFFICES ASSUME NEW r \in issued' PROVE IssuedOf(r)'
      BY DEF IssuedBacked
  <2>1. IssuedOf(r)
        BY <1>3, <1>6 DEF DataInv, IssuedBacked
  <2>2. HasRecord("raw", r.name)' /\ Backed(r.layer, r.name, r)'
        BY <1>7, <2>1, BackedStays DEF IssuedOf
  <2> QED
      BY <2>1, <2>2 DEF IssuedOf
<1>9. CleanFiles'
      BY <1>3, <1>7, CleanFilesStay DEF Stored
<1>10. WritingBacked'
      BY <1>3 DEF DataInv, WritingBacked, Backed, RawBacked, CleanBacked, DerivedBacked, HasRecord, Stored, RawFile, Sources
<1> QED
    BY <1>3, <1>7, <1>8, <1>9, <1>10, RecordsKept DEF DataInv

LEMMA PromoteStep ==
    ASSUME DataInv, NEW name \in DataNames, PromoteClean(name)
    PROVE  DataInv'
<1>1. RawBacked(name, metas[<<"raw", name>>]) /\ HasRecord("raw", name) /\ Promotable(RawFile(name))
      BY DEF PromoteClean, DataInv, RecordsBacked, Backed, Layers, RawFile
<1>2. PICK frame : frame = Cleaned(RawFile(name))
      OBVIOUS
<1>3. PICK parent : parent = RawFile(name)
      OBVIOUS
<1>4. Write("clean", name, frame, parent) /\ RawFile(name) \in Downloads
      BY <1>1, <1>2, <1>3 DEF PromoteClean, RawBacked, RawFile
<1> QED
    BY <1>1, <1>2, <1>3, <1>4, WriteStep DEF Layers

\* A derived dataset is built from the clean file, which its parent's record may no longer describe.
LEMMA DeriveStep ==
    ASSUME DataInv, NEW name \in DataNames, NEW how \in Transforms, AddDerived(name, how)
    PROVE  DataInv'
<1>1. PICK f : f = files[<<"clean", name>>]
      OBVIOUS
<1>2. PICK frame : frame = Built(f, how)
      OBVIOUS
<1>3. PICK parent : parent = metas[<<"clean", name>>].sha
      OBVIOUS
<1>4. Write("derived", name, frame, parent) /\ HasRecord("clean", name)
      BY <1>1, <1>2, <1>3 DEF AddDerived
<1>5. HasRecord("raw", name) /\ CleanBacked(name, metas[<<"clean", name>>])
      BY <1>4 DEF DataInv, RecordsBacked, Backed, Layers
<1>6. parent = Cleaned(RawFile(name)) /\ Stored("clean", name)
      BY <1>3, <1>5 DEF CleanBacked
<1>7. f \in Sources(name, parent)
      BY <1>1, <1>6 DEF DataInv, CleanFiles
<1> QED
    BY <1>2, <1>4, <1>5, <1>6, <1>7, WriteStep DEF Layers

LEMMA NextInv == DataInv /\ [DataNext]_dataVars => DataInv'
<1> SUFFICES ASSUME DataInv, [DataNext]_dataVars PROVE DataInv'
    OBVIOUS
<1>1. ASSUME NEW name \in DataNames, NEW frame \in Downloads, SaveRaw(name, frame) PROVE DataInv'
  <2>1. PICK parent : parent = NoFrame
        OBVIOUS
  <2>2. Write("raw", name, frame, parent) /\ ~Stored("raw", name)
        BY <1>1, <2>1 DEF SaveRaw, RawIsFree
  <2>3. ~HasRecord("raw", name)
        BY <2>2 DEF DataInv, RecordsBacked, Backed, RawBacked, Layers
  <2> QED
      BY <2>2, <2>3, WriteStep DEF Layers
<1>2. CASE UNCHANGED dataVars
      BY <1>2 DEF dataVars, DataInv, KeysAreOfLayers, RecordsBacked, CleanFiles, WritingBacked, IssuedBacked, IssuedOf,
          Backed, RawBacked, CleanBacked, DerivedBacked, HasRecord, Stored, RawFile, Sources
<1> QED
    BY <1>1, <1>2, PromoteStep, DeriveStep, RefStep, WriteMetaStep, DiesStep DEF DataNext, Layers

\* Immutable lineage (DatasetStore): every record that can be read and every reference leads to the raw
\* bytes as they are stored, for every set of names and downloads, every order of promotions and
\* derivations, and any number of crashes within a file, within a record or between the two.
THEOREM Lineage == DataSpec => []LineageHolds
<1>1. DataInit => DataInv
      BY InitInv
<1>2. DataInv /\ [DataNext]_dataVars => DataInv'
      BY NextInv
<1>3. DataInv => LineageHolds
      BY BackedIsLineage
<1> QED
    BY <1>1, <1>2, <1>3, PTL DEF DataSpec

-----------------------------------------------------------------------------
(* The studies of the meta policy. *)

StudySpec == StudyInit /\ [][StudyNext]_studyVars

\* What closes after a position that closes later is less.
LEMMA AfterShrinks ==
    ASSUME NEW closed \in SUBSET Nat, IsFiniteSet(closed), NEW j \in closed, NEW k \in closed, j >= k
    PROVE ClosedLater(closed, j) \in Nat /\ ClosedLater(closed, k) \in Nat /\ ClosedLater(closed, j) <= ClosedLater(closed, k)
<1> DEFINE beyond(x) == {i \in closed : i > x}
<1>1. beyond(j) \in SUBSET beyond(k)
  <2>1. \A i \in closed : i > j => i > k
    OBVIOUS
  <2> QED
    BY <2>1
<1>2. IsFiniteSet(beyond(k))
  BY FS_Subset, beyond(k) \in SUBSET closed
<1>3. ClosedLater(closed, j) = Cardinality(beyond(j)) /\ ClosedLater(closed, k) = Cardinality(beyond(k))
  BY DEF ClosedLater
<1> HIDE DEF beyond
<1> QED
  BY <1>1, <1>2, <1>3, Counting

\* The last n are n at most, and with a position every later one is among them.
LEMMA LastAreLast ==
    ASSUME NEW closed \in SUBSET Nat, IsFiniteSet(closed), NEW n \in Nat
    PROVE /\ IsFiniteSet(LastOf(closed, n)) /\ Cardinality(LastOf(closed, n)) \in Nat
          /\ Cardinality(LastOf(closed, n)) <= n
          /\ \A k \in LastOf(closed, n), j \in closed : j > k => j \in LastOf(closed, n)
<1> DEFINE last == LastOf(closed, n)
<1>1. last \in SUBSET closed
  BY DEF LastOf
<1>2. IsFiniteSet(last) /\ Cardinality(last) \in Nat
  BY <1>1, Counting
<1>3. Cardinality(last) <= n
  <2>1. CASE last = {}
    BY <2>1, FS_EmptySet
  <2>2. CASE last # {}
    <3>1. PICK k \in last : \A y \in last : k <= y
      <4> HIDE DEF last
      <4> QED
        BY <1>1, <2>2, HasLeast
    <3> DEFINE beyond == {i \in closed : i > k}
    <3>2. IsFiniteSet(beyond)
      BY FS_Subset, beyond \in SUBSET closed
    <3>3. Cardinality(beyond) < n
      BY <3>1 DEF LastOf, ClosedLater
    <3>4. last \ {k} \in SUBSET beyond
      <4>1. \A i \in last : i \in closed /\ (i # k => i > k)
        <5> HIDE DEF last
        <5> QED
          BY <1>1, <3>1
      <4> HIDE DEF last
      <4> QED
        BY <4>1
    <3> HIDE DEF last, beyond
    <3>5. Cardinality(last \ {k}) = Cardinality(last) - 1
      BY <1>2, <3>1, FS_RemoveElement
    <3>6. Cardinality(last \ {k}) <= Cardinality(beyond) /\ Cardinality(beyond) \in Nat
      BY <3>2, <3>4, Counting
    <3> QED
      BY <1>2, <3>3, <3>5, <3>6
  <2> QED
    BY <2>1, <2>2
<1>4. \A k \in last, j \in closed : j > k => j \in last
  <2>1. TAKE k \in last, j \in closed
  <2>2. HAVE j > k
  <2>3. ClosedLater(closed, j) <= ClosedLater(closed, k) /\ ClosedLater(closed, k) < n /\ ClosedLater(closed, j) \in Nat /\ ClosedLater(closed, k) \in Nat
    BY <1>1, <2>2, AfterShrinks DEF LastOf
  <2> QED
    BY <2>3 DEF LastOf
<1> QED
  BY <1>2, <1>3, <1>4

\* The drift feed's two windows.
LEMMA WindowsAreAdjacent ==
    ASSUME NEW t \in Int, NEW d, d.at = t, d.drift = DriftSnapshot(t)
    PROVE /\ \A k \in d.drift.recent \cup d.drift.baseline : ClosedAt[k] < d.at
          /\ d.drift.status = "SCORED" => Adjacent(d)
<1> DEFINE closed == {k \in DOMAIN ClosedAt : ClosedAt[k] < t}
           recent == LastOf(closed, RecentN)
           both == LastOf(closed, RecentN + BaselineN)
           baseline == both \ recent
<1>1. closed \in SUBSET Nat /\ IsFiniteSet(closed)
  <2>1. DOMAIN ClosedAt = 1..Len(ClosedAt) /\ Len(ClosedAt) \in Nat
    BY WindowsAssumption
  <2>2. IsFiniteSet(DOMAIN ClosedAt)
    BY <2>1, FS_Interval
  <2>3. closed \in SUBSET DOMAIN ClosedAt
    OBVIOUS
  <2> QED
    BY <2>1, <2>2, <2>3, FS_Subset
<1>2. \A j \in DOMAIN ClosedAt : ClosedAt[j] < t => j \in closed
  OBVIOUS
<1>3. \A j \in closed : ClosedAt[j] < t
  OBVIOUS
<1>4. /\ d.drift.recent = recent /\ d.drift.baseline = baseline
      /\ d.drift.status = "SCORED" => ~(Cardinality(recent) < RecentN \/ Cardinality(baseline) < BaselineN)
  BY DEF DriftSnapshot, DriftOn
<1> HIDE DEF closed
<1>5. recent \in SUBSET both /\ both \in SUBSET closed
  <2>1. ASSUME NEW k \in recent PROVE k \in both
    <3>1. k \in closed /\ ClosedLater(closed, k) < RecentN /\ ClosedLater(closed, k) \in Nat
      BY <1>1, AfterShrinks DEF LastOf
    <3>2. ClosedLater(closed, k) < RecentN + BaselineN
      BY <3>1, WindowsAssumption
    <3> QED
      BY <3>1, <3>2 DEF LastOf
  <2> QED
    BY <2>1 DEF LastOf
<1>6. /\ IsFiniteSet(recent) /\ Cardinality(recent) \in Nat /\ Cardinality(recent) <= RecentN
      /\ \A k \in recent, j \in closed : j > k => j \in recent
  BY <1>1, LastAreLast, WindowsAssumption
<1>7. /\ IsFiniteSet(both) /\ Cardinality(both) \in Nat /\ Cardinality(both) <= RecentN + BaselineN
      /\ \A k \in both, j \in closed : j > k => j \in both
  BY <1>1, LastAreLast, WindowsAssumption
<1> HIDE DEF recent, both
<1>8. IsFiniteSet(baseline) /\ Cardinality(baseline) \in Nat
  BY <1>7, FS_Difference, FS_CardinalityType
<1>9. Cardinality(both) = Cardinality(recent) + Cardinality(baseline)
  <2>1. both = recent \cup baseline /\ recent \cap baseline = {}
    BY <1>5
  <2> HIDE DEF baseline
  <2>2. Cardinality(recent \cup baseline) = Cardinality(recent) + Cardinality(baseline) - Cardinality(recent \cap baseline)
    BY <1>6, <1>8, FS_Union
  <2>3. Cardinality(recent \cap baseline) = 0
    BY <2>1, FS_EmptySet
  <2> QED
    BY <2>1, <2>2, <2>3, <1>6, <1>8
<1>10. \A k \in recent \cup baseline : ClosedAt[k] < t
  BY <1>3, <1>5
<1>11. ASSUME d.drift.status = "SCORED" PROVE Adjacent(d)
  <2>1. Cardinality(recent) = RecentN /\ Cardinality(baseline) = BaselineN
    <3> HIDE DEF baseline
    <3> QED
      BY <1>4, <1>6, <1>7, <1>8, <1>9, <1>11, WindowsAssumption
  <2>2. \A j \in baseline, k \in recent : j < k
    BY <1>1, <1>5, <1>6
  <2>3. \A j \in DOMAIN ClosedAt :
          ClosedAt[j] < t /\ j \notin recent \cup baseline => \A k \in recent \cup baseline : j < k
    <3>1. TAKE j \in DOMAIN ClosedAt
    <3>2. HAVE ClosedAt[j] < t /\ j \notin recent \cup baseline
    <3>3. TAKE k \in recent \cup baseline
    <3>4. k \in both /\ k \in closed
      BY <1>5
    <3>5. j \in closed
      BY <1>2, <3>2
    <3>6. j \notin both
      BY <3>2
    <3> QED
      <4>1. j \in Nat /\ k \in Nat /\ j # k
        BY <1>1, <3>4, <3>5, <3>6
      <4>2. ~(j > k)
        BY <1>7, <3>4, <3>5, <3>6
      <4> QED
        BY <4>1, <4>2
  <2> HIDE DEF baseline
  <2> QED
    BY <1>4, <2>1, <2>2, <2>3 DEF Adjacent
<1> QED
  BY <1>4, <1>10, <1>11

LEMMA EdgesGrow ==
    ASSUME NEW n \in Nat \ {0}, NEW j \in Nat, NEW k \in Nat, j <= k
    PROVE FoldEdge(j, n) \in Nat /\ FoldEdge(k, n) \in Nat /\ FoldEdge(j, n) <= FoldEdge(k, n)
<1>1. j * LastBar \in Nat /\ k * LastBar \in Nat /\ j * LastBar <= k * LastBar
  BY WindowsAssumption, Grows
<1>2. (j * LastBar) \div n \in Nat /\ (k * LastBar) \div n \in Nat
  BY <1>1
<1> QED
  BY <1>1, <1>2, DivGrows DEF FoldEdge

\* A fold long enough to train on trains on bars before those it tests.
LEMMA FoldsLookBack ==
    ASSUME NEW n \in FoldCounts, NEW k \in 0..(n - 1), Cardinality(TrainOf(k, n)) >= MinTrain,
           NEW b \in TestOf(k, n), NEW x \in TrainOf(k, n)
    PROVE x < b
<1> DEFINE edge == FoldEdge(k, n)
<1>1. n \in Nat \ {0} /\ k \in Nat
  BY WindowsAssumption
<1>2. edge \in Nat
  BY <1>1, EdgesGrow
<1>3. edge < b /\ b \in 1..LastBar
  BY DEF TestOf, FrameBars
<1> HIDE DEF edge
<1>4. x \in 1..LastBar /\ (x <= edge - EmbargoBars \/ x <= 1)
  BY <1>2, MaxOfTwo, WindowsAssumption DEF TrainOf, FrameBars, edge
<1>5. CASE edge = 0
  <2>1. \A y \in TrainOf(k, n) : y = 1
    BY <1>2, <1>5, MaxOfTwo, WindowsAssumption DEF TrainOf, FrameBars, edge
  <2>2. TrainOf(k, n) \in SUBSET {1}
    BY <2>1
  <2>3. IsFiniteSet({1}) /\ Cardinality({1}) = 1
    BY FS_Singleton
  <2>4. Cardinality(TrainOf(k, n)) \in Nat /\ Cardinality(TrainOf(k, n)) <= 1
    BY <2>2, <2>3, Counting
  <2> QED
    BY <2>4, WindowsAssumption
<1> QED
  BY <1>2, <1>3, <1>4, <1>5, WindowsAssumption

\* No bar is tested by two folds.
LEMMA FoldsAreApart ==
    ASSUME NEW n \in FoldCounts, NEW j \in 0..(n - 1), NEW k \in 0..(n - 1), NEW b \in TestOf(j, n), b \in TestOf(k, n)
    PROVE j = k
<1>1. n \in Nat \ {0}
  BY WindowsAssumption
<1>2. \A i, m \in Nat : i <= m => FoldEdge(i, n) \in Nat /\ FoldEdge(m, n) \in Nat /\ FoldEdge(i, n) <= FoldEdge(m, n)
  BY <1>1, EdgesGrow
<1>3. \A i, m \in 0..(n - 1) : i < m /\ b \in TestOf(i, n) => b \notin TestOf(m, n)
  <2>1. TAKE i, m \in 0..(n - 1)
  <2>2. HAVE i < m /\ b \in TestOf(i, n)
  <2>3. i + 1 \in Nat /\ m \in Nat /\ i + 1 <= m
    BY <1>1, <2>2
  <2>4. FoldEdge(i + 1, n) \in Nat /\ FoldEdge(m, n) \in Nat /\ FoldEdge(i + 1, n) <= FoldEdge(m, n)
    BY <1>2, <2>3
  <2>5. b \in Int /\ b <= FoldEdge(i + 1, n)
    BY <2>2 DEF TestOf, FrameBars
  <2> QED
    BY <2>4, <2>5 DEF TestOf
<1>4. j \in Int /\ k \in Int
  BY <1>1
<1> QED
  BY <1>3, <1>4

AllDecisions == {Snapshot(t) : t \in study.grid}
CountedUnder == [b \in FrameBars |-> {d.used : d \in {e \in AllDecisions : Governs(e.at, b)}}]

\* Every decision was computed for its own time.
FeedsAreOfTheirTime ==
    \A p \in StudyPolicies : \A d \in decisions[p] :
        \E t \in Int : d.at = t /\ d.regime = RegimeSnapshot(t) /\ d.drift = DriftSnapshot(t)
CountedOnce(count) ==
    \A b \in FrameBars : Cardinality(count[b]) <= 1 /\ \A used \in count[b] : \A x \in used : x < b

Deciding ==
    /\ DOMAIN study = {"pc", "kind", "contexts", "grid", "policy"}
    /\ study.kind \in {"portfolio", "replay"} /\ study.policy \in StudyPolicies /\ study.grid \subseteq Int
    /\ \A p \in StudyPolicies : decisions[p] \subseteq AllDecisions
    /\ study.policy = "EQUAL_WEIGHT" => counted["META"] = CountedUnder

StudyInv ==
    /\ DOMAIN decisions = StudyPolicies /\ DOMAIN counted = StudyPolicies
    /\ FeedsAreOfTheirTime /\ \A p \in StudyPolicies : CountedOnce(counted[p])
    /\ study.pc = "none" => \A p \in StudyPolicies : decisions[p] = {}
    /\ study.pc = "decide" => Deciding
    /\ study.pc = "done" => counted["META"] = counted["EQUAL_WEIGHT"]

\* A bar is governed by the last decision before it, and that one has not seen it.
LEMMA GovernedByOne ==
    ASSUME Deciding PROVE CountedOnce(CountedUnder)
<1>1. ASSUME NEW b \in FrameBars PROVE Cardinality(CountedUnder[b]) <= 1 /\ \A used \in CountedUnder[b] : \A x \in used : x < b
  <2> DEFINE governing == {e \in AllDecisions : Governs(e.at, b)}
  <2>1. CountedUnder[b] = {d.used : d \in governing}
    BY <1>1 DEF CountedUnder
  <2>2. b \in Int
    BY <1>1 DEF FrameBars
  <2>3. \A t \in study.grid : t \in Int /\ Snapshot(t).at = t
    BY DEF Deciding, Snapshot
  <2>4. \A d \in governing : \E t \in study.grid : d = Snapshot(t) /\ t \in Int /\ Governs(t, b)
    BY <2>3 DEF AllDecisions
  <2>5. \A t, u \in study.grid : Governs(t, b) /\ Governs(u, b) => t = u
    <3>1. TAKE t, u \in study.grid
    <3>2. HAVE Governs(t, b) /\ Governs(u, b)
    <3>3. t \in Int /\ u \in Int
      BY <2>3
    <3> QED
      BY <2>2, <3>2, <3>3 DEF Governs
  <2> HIDE DEF governing
  <2>6. \A d, e \in governing : d = e
    BY <2>4, <2>5
  <2>7. \A v, w \in CountedUnder[b] : v = w
    BY <2>1, <2>6
  <2>8. \A d \in governing : \A x \in d.used : x < b
    <3>1. TAKE d \in governing
    <3>2. PICK t \in study.grid : d = Snapshot(t) /\ t \in Int /\ Governs(t, b)
      BY <2>4
    <3>3. CASE study.kind = "portfolio"
      <4>1. d.used = Before(t) /\ t <= b
        BY <3>2, <3>3 DEF Snapshot, Governs
      <4> QED
        BY <4>1, <3>2, <2>2 DEF Before, FrameBars
    <3>4. CASE study.kind # "portfolio"
      <4>1. d.used = UpTo(t) /\ t < b
        BY <3>2, <3>4 DEF Snapshot, Governs
      <4> QED
        BY <4>1, <3>2, <2>2 DEF UpTo, FrameBars
    <3> QED
      BY <3>3, <3>4
  <2>9. Cardinality(CountedUnder[b]) <= 1
    BY <2>7, AtMostOne
  <2> QED
    BY <2>1, <2>8, <2>9
<1> QED
  BY <1>1 DEF CountedOnce

LEMMA StudyStarts == StudyInit => StudyInv
<1> SUFFICES ASSUME StudyInit PROVE StudyInv
  OBVIOUS
<1>1. \A p \in StudyPolicies : decisions[p] = {} /\ counted[p] = [b \in FrameBars |-> {}]
  BY DEF StudyInit, NoBars
<1>2. \A p \in StudyPolicies : CountedOnce(counted[p])
  BY <1>1, FS_EmptySet DEF CountedOnce
<1> QED
  BY <1>1, <1>2 DEF StudyInit, StudyInv, NoBars, FeedsAreOfTheirTime

LEMMA GridsAreBars ==
    /\ \A first, every : RebalanceGrid(first, every) \subseteq Int
    /\ \A first \in Int, n \in Nat \ {0} : ReplayGrid(first, n) \subseteq Int
<1>1. \A first, every : RebalanceGrid(first, every) \subseteq Int
  BY DEF RebalanceGrid, FrameBars
<1>2. ASSUME NEW first \in Int, NEW n \in Nat \ {0}, NEW k \in 1..n
      PROVE first + ((k - 1) * (LastBar - first)) \div n \in Int
  <2>1. (k - 1) * (LastBar - first) \in Int
    BY WindowsAssumption
  <2> QED
    BY <2>1
<1> QED
  BY <1>1, <1>2 DEF ReplayGrid

\* A study that begins has decided nothing.
LEMMA StudyBegins ==
    ASSUME StudyInv, study.pc = "none", NEW grid \in SUBSET Int, NEW kind \in {"portfolio", "replay"}, NEW contexts,
           NEW pc \in {"decide", "raised"},
           study' = [pc |-> pc, kind |-> kind, contexts |-> contexts, grid |-> grid, policy |-> "META"],
           UNCHANGED <<decisions, counted>>
    PROVE StudyInv'
<1>1. \A p \in StudyPolicies : decisions'[p] = {}
  BY DEF StudyInv
<1>2. /\ DOMAIN study' = {"pc", "kind", "contexts", "grid", "policy"} /\ study'.pc = pc
      /\ study'.kind = kind /\ study'.grid = grid /\ study'.policy = "META"
  OBVIOUS
<1>3. Deciding'
  BY <1>1, <1>2 DEF Deciding, StudyPolicies
<1> QED
  BY <1>1, <1>2, <1>3 DEF StudyInv, FeedsAreOfTheirTime

LEMMA BeginsKeep == ASSUME StudyInv, BeginPortfolio \/ BeginReplay PROVE StudyInv'
<1>1. CASE BeginPortfolio
  <2>1. PICK offer \in Offers, first \in MinHistories, every \in EveryDays :
          study' = [pc |-> IF DecideAccepts(Eligible(offer)) THEN "decide" ELSE "raised", kind |-> "portfolio",
                    contexts |-> Eligible(offer), grid |-> RebalanceGrid(first, every), policy |-> "META"]
    BY <1>1 DEF BeginPortfolio
  <2>2. RebalanceGrid(first, every) \in SUBSET Int
    BY GridsAreBars
  <2>3. (IF DecideAccepts(Eligible(offer)) THEN "decide" ELSE "raised") \in {"decide", "raised"}
    OBVIOUS
  <2>4. study.pc = "none" /\ UNCHANGED <<decisions, counted>>
    BY <1>1 DEF BeginPortfolio
  <2> QED
    BY <2>1, <2>2, <2>3, <2>4, StudyBegins
<1>2. CASE BeginReplay
  <2>1. PICK first \in MinHistories, n \in Replays :
          study' = [pc |-> "decide", kind |-> "replay", contexts |-> <<>>,
                    grid |-> ReplayGrid(first + 1, n), policy |-> "META"]
    BY <1>2 DEF BeginReplay
  <2>2. ReplayGrid(first + 1, n) \in SUBSET Int
    BY GridsAreBars, WindowsAssumption
  <2>4. study.pc = "none" /\ UNCHANGED <<decisions, counted>>
    BY <1>2 DEF BeginReplay
  <2> QED
    BY <2>1, <2>2, <2>4, StudyBegins
<1> QED
  BY <1>1, <1>2

LEMMA DecideKeeps == ASSUME StudyInv, Decide PROVE StudyInv'
<1>1. PICK t \in Left(study.policy) : decisions' = [decisions EXCEPT ![study.policy] = @ \cup {Snapshot(t)}]
  BY DEF Decide
<1>2. study' = study /\ counted' = counted /\ Deciding /\ study.pc = "decide"
  BY DEF Decide, StudyInv
<1>3. t \in study.grid /\ t \in Int /\ Snapshot(t) \in AllDecisions
  BY <1>2 DEF Left, Deciding, AllDecisions
<1>4. /\ DOMAIN decisions' = StudyPolicies
      /\ \A p \in StudyPolicies : \A d \in decisions'[p] : d \in decisions[p] \/ d = Snapshot(t)
  BY <1>1 DEF StudyInv
<1>5. Snapshot(t).at = t /\ Snapshot(t).regime = RegimeSnapshot(t) /\ Snapshot(t).drift = DriftSnapshot(t)
  BY DEF Snapshot
<1>6. FeedsAreOfTheirTime'
  BY <1>3, <1>4, <1>5 DEF StudyInv, FeedsAreOfTheirTime
<1>7. AllDecisions' = AllDecisions /\ CountedUnder' = CountedUnder
  BY <1>2 DEF AllDecisions, CountedUnder, Snapshot, Governs
<1>8. Deciding'
  BY <1>2, <1>3, <1>4, <1>7 DEF Deciding
<1> QED
  BY <1>2, <1>4, <1>6, <1>8 DEF StudyInv

LEMMA CountKeeps == ASSUME StudyInv, Count PROVE StudyInv'
<1> DEFINE policy == study.policy
<1>1. Deciding /\ policy \in StudyPolicies /\ decisions' = decisions /\ Left(policy) = {}
  BY DEF Count, StudyInv, Deciding
<1>2. decisions[policy] = AllDecisions
  <2>1. \A t \in study.grid : Snapshot(t) \in decisions[policy]
    <3>1. TAKE t \in study.grid
    <3>2. PICK d \in decisions[policy] : d.at = t
      BY <1>1 DEF Left
    <3>3. PICK u \in study.grid : d = Snapshot(u)
      BY <1>1, <3>2 DEF Deciding, AllDecisions
    <3>4. u = t
      BY <3>2, <3>3 DEF Snapshot
    <3> QED
      BY <3>2, <3>3, <3>4
  <2> QED
    BY <1>1, <2>1 DEF Deciding, AllDecisions
<1>3. counted' = [counted EXCEPT ![policy] = CountedUnder]
  BY <1>2 DEF Count, CountedUnder
<1> HIDE DEF policy
<1>4. DOMAIN counted' = StudyPolicies /\ \A p \in StudyPolicies : counted'[p] = IF p = policy THEN CountedUnder ELSE counted[p]
  BY <1>1, <1>3 DEF StudyInv
<1>5. \A p \in StudyPolicies : CountedOnce(counted'[p])
  BY <1>1, <1>4, GovernedByOne DEF StudyInv
<1>6. CASE policy = "META"
  <2>1. study' = [study EXCEPT !.policy = "EQUAL_WEIGHT"]
    BY <1>6 DEF Count, policy
  <2>2. /\ DOMAIN study' = DOMAIN study /\ study'.pc = study.pc /\ study'.kind = study.kind /\ study'.grid = study.grid
        /\ study'.policy = "EQUAL_WEIGHT"
    BY <2>1, <1>1 DEF Deciding
  <2>3. AllDecisions' = AllDecisions /\ CountedUnder' = CountedUnder
    BY <2>2 DEF AllDecisions, CountedUnder, Snapshot, Governs
  <2>4. counted'["META"] = CountedUnder
    BY <1>4, <1>6 DEF StudyPolicies
  <2>5. Deciding'
    BY <1>1, <2>2, <2>3, <2>4 DEF Deciding, StudyPolicies
  <2>6. study'.pc = "decide"
    BY <2>2 DEF Count
  <2> QED
    BY <1>1, <1>4, <1>5, <2>5, <2>6 DEF StudyInv, FeedsAreOfTheirTime
<1>7. CASE policy # "META"
  <2>1. study'.pc = "done"
    BY <1>1, <1>7 DEF Count, Deciding, policy
  <2>2. policy = "EQUAL_WEIGHT" /\ counted["META"] = CountedUnder
    BY <1>1, <1>7 DEF StudyPolicies, Deciding, policy
  <2>3. counted'["META"] = counted'["EQUAL_WEIGHT"]
    BY <1>4, <2>2 DEF StudyPolicies
  <2> QED
    BY <1>1, <1>4, <1>5, <2>1, <2>3 DEF StudyInv, FeedsAreOfTheirTime
<1> QED
  BY <1>6, <1>7

LEMMA FoldsKeep == ASSUME StudyInv, DevFolds PROVE StudyInv'
<1>1. PICK n \in FoldCounts :
        LET folds == {k \in 0..(n - 1) : Cardinality(TrainOf(k, n)) >= MinTrain /\ Cardinality(TestOf(k, n)) >= MinTest}
        IN  counted' = [p \in StudyPolicies |->
                           [b \in FrameBars |-> {TrainOf(k, n) : k \in {j \in folds : b \in TestOf(j, n)}}]]
  BY DEF DevFolds
<1> DEFINE folds == {k \in 0..(n - 1) : Cardinality(TrainOf(k, n)) >= MinTrain /\ Cardinality(TestOf(k, n)) >= MinTest}
           testing(b) == {j \in folds : b \in TestOf(j, n)}
           count == [b \in FrameBars |-> {TrainOf(k, n) : k \in testing(b)}]
<1>2. counted' = [p \in StudyPolicies |-> count]
  BY <1>1
<1>3. ASSUME NEW b \in FrameBars PROVE Cardinality(count[b]) <= 1 /\ \A used \in count[b] : \A x \in used : x < b
  <2>1. \A j, k \in testing(b) : j = k
    BY FoldsAreApart
  <2>2. \A k \in testing(b) : \A x \in TrainOf(k, n) : x < b
    BY FoldsLookBack
  <2>3. count[b] = {TrainOf(k, n) : k \in testing(b)}
    BY <1>3
  <2> HIDE DEF testing, count
  <2>4. \A v, w \in count[b] : v = w
    BY <2>1, <2>3
  <2> QED
    BY <2>2, <2>3, <2>4, AtMostOne
<1>4. CountedOnce(count)
  BY <1>3 DEF CountedOnce
<1> HIDE DEF count
<1>5. study'.pc = "done" /\ decisions' = decisions
  BY DEF DevFolds
<1>6. "META" \in StudyPolicies /\ "EQUAL_WEIGHT" \in StudyPolicies
  BY DEF StudyPolicies
<1>7. DOMAIN counted' = StudyPolicies /\ \A p \in StudyPolicies : counted'[p] = count
  BY <1>2
<1>8. FeedsAreOfTheirTime'
  BY <1>5 DEF StudyInv, FeedsAreOfTheirTime
<1> QED
  BY <1>4, <1>5, <1>6, <1>7, <1>8 DEF StudyInv

LEMMA InvLooksBack == ASSUME StudyInv PROVE NothingLooksAhead
<1>1. ASSUME NEW p \in StudyPolicies, NEW d \in decisions[p]
      PROVE /\ \A x \in d.regime.used : x < d.at
            /\ \A k \in d.drift.recent \cup d.drift.baseline : ClosedAt[k] < d.at
            /\ d.drift.status = "SCORED" => Adjacent(d)
  <2>1. PICK t \in Int : d.at = t /\ d.regime = RegimeSnapshot(t) /\ d.drift = DriftSnapshot(t)
    BY <1>1 DEF StudyInv, FeedsAreOfTheirTime
  <2>2. \A x \in d.regime.used : x < d.at
    BY <2>1 DEF RegimeSnapshot, Before, FrameBars
  <2> QED
    BY <2>1, <2>2, WindowsAreAdjacent
<1> QED
  BY <1>1 DEF NothingLooksAhead, StudyInv, CountedOnce

\* The studies of the meta policy, for any frame, days, contexts, ledger, windows and folds: no decision
\* is counted on a bar it saw, none twice, both policies on the same bars, and the drift windows are
\* adjacent and closed before the decision.
THEOREM LooksBack == StudySpec => []NothingLooksAhead
<1>1. StudyInv /\ UNCHANGED studyVars => StudyInv'
  <2> SUFFICES ASSUME StudyInv, UNCHANGED studyVars PROVE StudyInv'
    OBVIOUS
  <2>1. study' = study /\ decisions' = decisions /\ counted' = counted
    BY DEF studyVars
  <2>2. AllDecisions' = AllDecisions /\ CountedUnder' = CountedUnder
    BY <2>1 DEF AllDecisions, CountedUnder, Snapshot, Governs
  <2>3. Deciding => Deciding'
    BY <2>1, <2>2 DEF Deciding
  <2> QED
    BY <2>1, <2>3 DEF StudyInv, FeedsAreOfTheirTime
<1>2. StudyInv /\ [StudyNext]_studyVars => StudyInv'
  BY <1>1, BeginsKeep, DecideKeeps, CountKeeps, FoldsKeep DEF StudyNext
<1> QED
  BY <1>2, StudyStarts, InvLooksBack, PTL DEF StudySpec

-----------------------------------------------------------------------------
(* Certification. *)

CertSpec == CertInit /\ [][CertNext]_certVars

Planned == {Plan[k] : k \in DOMAIN Plan}

\* The plan visits every regime at every model, each once.
LEMMA PlanIsComplete ==
    /\ Len(Plan) = Len(Regimes) * Len(Ladder) /\ DOMAIN Plan = 1..Len(Plan)
    /\ Planned = ToSet(Regimes) \X ToSet(Ladder)
    /\ \A j, k \in DOMAIN Plan : Plan[j] = Plan[k] => j = k
<1> DEFINE n == Len(Ladder)
           r == Len(Regimes)
<1>1. n \in Nat \ {0} /\ r \in Nat /\ DOMAIN Ladder = 1..n /\ DOMAIN Regimes = 1..r
  BY LadderAssumption
<1>2. r * n \in Nat
  BY <1>1
<1>3. DOMAIN Plan = 1..(r * n) /\ Len(Plan) = r * n
  <2>1. Plan \in [1..(r * n) -> {Plan[k] : k \in 1..(r * n)}]
    BY DEF Plan
  <2>2. Plan \in Seq({Plan[k] : k \in 1..(r * n)})
    BY <1>2, <2>1
  <2> QED
    BY <1>2, <2>1, <2>2
<1> DEFINE row(k) == (k - 1) \div n + 1
           col(k) == ((k - 1) % n) + 1
           at(i, j) == (i - 1) * n + j
<1>4. \A k \in 1..(r * n) :
        /\ row(k) \in 1..r /\ col(k) \in 1..n /\ k = at(row(k), col(k))
        /\ Plan[k] = <<Regimes[row(k)], Ladder[col(k)]>>
  BY <1>1, <1>2 DEF Plan
<1>5. \A i \in 1..r, j \in 1..n : at(i, j) \in 1..(r * n) /\ row(at(i, j)) = i /\ col(at(i, j)) = j
  BY <1>1
<1> HIDE DEF n, r, row, col, at
<1>6. Planned = ToSet(Regimes) \X ToSet(Ladder)
  <2>1. \A k \in DOMAIN Plan : Plan[k] \in ToSet(Regimes) \X ToSet(Ladder)
    <3>1. TAKE k \in DOMAIN Plan
    <3>2. Plan[k] = <<Regimes[row(k)], Ladder[col(k)]>> /\ row(k) \in DOMAIN Regimes /\ col(k) \in DOMAIN Ladder
      BY <1>1, <1>3, <1>4
    <3> QED
      BY <3>2 DEF ToSet
  <2>2. \A i \in 1..r, j \in 1..n : \E k \in DOMAIN Plan : Plan[k] = <<Regimes[i], Ladder[j]>>
    <3>1. TAKE i \in 1..r, j \in 1..n
    <3>2. at(i, j) \in 1..(r * n) /\ Plan[at(i, j)] = <<Regimes[i], Ladder[j]>>
      BY <1>4, <1>5
    <3> QED
      BY <3>2, <1>3
  <2> QED
    <3>1. \A x \in ToSet(Regimes) \X ToSet(Ladder) : \E i \in 1..r, j \in 1..n : x = <<Regimes[i], Ladder[j]>>
      BY <1>1 DEF ToSet
    <3>2. \A x \in ToSet(Regimes) \X ToSet(Ladder) : x \in Planned
      BY <3>1, <2>2 DEF Planned
    <3>3. \A x \in Planned : x \in ToSet(Regimes) \X ToSet(Ladder)
      BY <2>1 DEF Planned
    <3> QED
      BY <3>2, <3>3
<1>7. \A j, k \in DOMAIN Plan : Plan[j] = Plan[k] => j = k
  <2>1. SUFFICES ASSUME NEW j \in DOMAIN Plan, NEW k \in DOMAIN Plan, Plan[j] = Plan[k] PROVE j = k
    OBVIOUS
  <2>2. Regimes[row(j)] = Regimes[row(k)] /\ Ladder[col(j)] = Ladder[col(k)]
    BY <2>1, <1>3, <1>4
  <2>3. row(j) = row(k) /\ col(j) = col(k)
    BY <2>2, <1>1, <1>3, <1>4, LadderAssumption
  <2> QED
    BY <2>3, <1>3, <1>4
<1> QED
  BY <1>3, <1>6, <1>7 DEF n, r

Legs == {Leg(at, ran, o) : at \in Planned, ran \in BOOLEAN, o \in Outcomes \cup {Silent}}

\* The legs so far are those of the plan, in its order, and ran only for a strategy of the EA.
OnPlan(of) ==
    /\ of.legs \in Seq(Legs) /\ Len(of.legs) <= Len(Plan)
    /\ \A k \in DOMAIN of.legs :
          /\ <<of.legs[k].regime, of.legs[k].model>> = Plan[k]
          /\ of.legs[k].ran => of.strategy \in EaStrategies

CertInv ==
    /\ ladder.pc = "legs" => OnPlan(ladder)
    /\ certificate.status # "none" =>
          OnPlan(certificate.of) /\ Len(certificate.of.legs) = Len(Plan) /\ certificate = CertificateOf(certificate.of)

LEMMA CertStart == CertInit => CertInv
BY DEF CertInit, CertInv, NoLadder

LEMMA CertBegins == CertInv /\ StartCertification => CertInv'
<1> SUFFICES ASSUME CertInv, StartCertification PROVE CertInv'
  OBVIOUS
<1>1. PICK s \in Offered, runner \in BOOLEAN, rec \in {{}, {FALSE}, {TRUE}} :
          ladder' = [pc |-> "legs", strategy |-> s, runner |-> runner, reconciled |-> rec, legs |-> <<>>]
  BY DEF StartCertification
<1>2. OnPlan(ladder')
  BY <1>1, PlanIsComplete, LadderAssumption DEF OnPlan
<1> QED
  BY <1>2 DEF CertInv, StartCertification

LEMMA LegRuns == CertInv /\ RunLeg => CertInv'
<1> SUFFICES ASSUME CertInv, RunLeg PROVE CertInv'
  OBVIOUS
<1> DEFINE at == Plan[Len(ladder.legs) + 1]
           runs == ladder.strategy \in EaStrategies /\ ladder.runner
<1>1. OnPlan(ladder) /\ Len(ladder.legs) < Len(Plan)
  BY DEF CertInv, RunLeg
<1>2. PICK leg : /\ leg \in {Leg(at, FALSE, Silent)} \cup {Leg(at, TRUE, o) : o \in IF runs THEN Outcomes ELSE {}}
                 /\ ladder' = [ladder EXCEPT !.legs = Append(ladder.legs, leg)]
  BY DEF RunLeg
<1>3. Len(ladder.legs) + 1 \in DOMAIN Plan
  BY <1>1, PlanIsComplete, LadderAssumption DEF OnPlan
<1>4. at \in Planned /\ at = <<at[1], at[2]>>
  BY <1>3, PlanIsComplete DEF Planned, ToSet
<1> HIDE DEF at
<1>5a. \A a \in Planned, b \in BOOLEAN, o \in Outcomes \cup {Silent} : Leg(a, b, o) \in Legs
  BY DEF Legs
<1>5. leg \in Legs /\ <<leg.regime, leg.model>> = at /\ (leg.ran => ladder.strategy \in EaStrategies)
  <2>1. CASE leg = Leg(at, FALSE, Silent)
    <3>1. leg \in Legs
      BY <2>1, <1>4, <1>5a
    <3>2. leg.regime = at[1] /\ leg.model = at[2] /\ leg.ran = FALSE
      BY <2>1 DEF Leg
    <3> QED
      BY <3>1, <3>2, <1>4
  <2>2. CASE \E o \in Outcomes : leg = Leg(at, TRUE, o) /\ runs
    <3>1. PICK o \in Outcomes : leg = Leg(at, TRUE, o)
      BY <2>2
    <3>2. leg \in Legs
      BY <3>1, <1>4, <1>5a
    <3>3. leg.regime = at[1] /\ leg.model = at[2]
      BY <3>1 DEF Leg
    <3> QED
      BY <3>2, <3>3, <1>4, <2>2
  <2> QED
    BY <2>1, <2>2, <1>2
<1>6. ladder'.legs = Append(ladder.legs, leg) /\ ladder'.strategy = ladder.strategy
  BY <1>2
<1> QED
  BY <1>1, <1>3, <1>5, <1>6 DEF CertInv, OnPlan, RunLeg, at

LEMMA CertConcludes == CertInv /\ Conclude => CertInv'
<1> SUFFICES ASSUME CertInv, Conclude PROVE CertInv'
  OBVIOUS
<1>1. OnPlan(ladder) /\ Len(ladder.legs) = Len(Plan)
  BY DEF CertInv, Conclude
<1>2. certificate'.of = ladder
  BY DEF Conclude, CertificateOf
<1> QED
  BY <1>1, <1>2 DEF CertInv, Conclude, NoLadder

\* What a certificate says, of any ladder that ran the whole plan.
LEMMA CertificateSays ==
    ASSUME NEW of, OnPlan(of), Len(of.legs) = Len(Plan), certificate = CertificateOf(of)
    PROVE CertificateIsEarned
<1> DEFINE legs == of.legs
           ran == {k \in DOMAIN legs : legs[k].ran}
           ok == {k \in ran : legs[k].ok}
           verdict == Verdict(legs)
           withheld == verdict = "VERIFIED" /\ of.reconciled # {TRUE}
           final == IF withheld THEN "NOT_VERIFIED" ELSE verdict
           model == StatusModel(final, Cardinality(ran), Cardinality(ok), withheld)
<1>1. /\ certificate.status = model.status /\ certificate.verdict = final /\ certificate.of = of
      /\ certificate.degradation = Degradation(legs)
  BY DEF CertificateOf
<1>2. DOMAIN legs = DOMAIN Plan /\ \A k \in DOMAIN Plan : <<legs[k].regime, legs[k].model>> = Plan[k]
  BY PlanIsComplete DEF OnPlan
<1>3. verdict \in {"VERIFIED", "NOT_VERIFIED"} /\ final \in {"VERIFIED", "NOT_VERIFIED"}
  BY DEF Verdict
<1>4. /\ (model.status = "VERIFIED") = (final = "VERIFIED")
      /\ model.status = "FAILED" => Cardinality(ran) > Cardinality(ok)
  BY <1>3 DEF StatusModel
<1>5. final = "VERIFIED" => verdict = "VERIFIED" /\ of.reconciled = {TRUE}
  BY <1>3
<1>6. verdict = "VERIFIED" => legs # <<>> /\ \A k \in DOMAIN legs : Passes(legs[k])
  BY DEF Verdict
<1>7. final = "VERIFIED" =>
        /\ {<<legs[k].regime, legs[k].model>> : k \in DOMAIN legs} = ToSet(Regimes) \X ToSet(Ladder)
        /\ of.strategy \in EaStrategies /\ of.reconciled = {TRUE}
        /\ \A k \in DOMAIN legs : legs[k].ran /\ legs[k].ok /\ legs[k].trades >= MinTrades
                                 /\ (SpreadFloor > 0 => \E x \in legs[k].spread : x >= SpreadFloor)
  <2>1. HAVE final = "VERIFIED"
  <2>2. \A k \in DOMAIN legs : legs[k].ran /\ legs[k].ok /\ legs[k].trades >= MinTrades
                                /\ (SpreadFloor > 0 => \E x \in legs[k].spread : x >= SpreadFloor)
    <3>1. SpreadFloor > 0 => SpreadFloor # 0
      BY LadderAssumption
    <3>2. \A k \in DOMAIN legs : Passes(legs[k])
      BY <2>1, <1>5, <1>6
    <3> QED
      BY <3>1, <3>2 DEF Passes, FloorMet
  <2>3. {<<legs[k].regime, legs[k].model>> : k \in DOMAIN legs} = Planned
    BY <1>2 DEF Planned
  <2>4. 1 \in DOMAIN legs
    <3>1. legs \in Seq(Legs) /\ legs # <<>>
      BY <2>1, <1>5, <1>6 DEF OnPlan
    <3> QED
      BY <3>1
  <2>5. of.strategy \in EaStrategies
    BY <2>2, <2>4 DEF OnPlan
  <2> QED
    BY <2>1, <2>2, <2>3, <2>5, <1>5, PlanIsComplete
<1>8. model.status = "FAILED" => \E k \in DOMAIN legs : legs[k].ran /\ ~legs[k].ok
  <2>1. HAVE model.status = "FAILED"
  <2>2. IsFiniteSet(ran)
    <3>1. DOMAIN legs = 1..Len(legs) /\ Len(legs) \in Int
      BY DEF OnPlan
    <3>2. IsFiniteSet(DOMAIN legs)
      <4>1. IsFiniteSet(1..Len(legs))
        BY <3>1, FS_Interval, 1 \in Int
      <4> QED
        BY <4>1, <3>1
    <3> QED
      BY <3>2, FS_Subset, ran \in SUBSET DOMAIN legs
  <2>3. Cardinality(ran) \in Nat
    <3> HIDE DEF ran
    <3> QED
      BY <2>2, FS_CardinalityType
  <2>4. Cardinality(ran) > Cardinality(ok)
    BY <2>1, <1>4
  <2>5. ran # ok
    <3> HIDE DEF ran, ok
    <3> QED
      BY <2>3, <2>4
  <2> QED
    BY <2>5
<1>9. \A row \in Degradation(legs), k \in DOMAIN legs :
        legs[k].regime = row.regime /\ legs[k].model \in {Ladder[1], row.model} => legs[k].ran /\ legs[k].ok
  <2>1. TAKE row \in Degradation(legs), k \in DOMAIN legs
  <2>2. HAVE legs[k].regime = row.regime /\ legs[k].model \in {Ladder[1], row.model}
  <2>3. PICK j \in DOMAIN legs : legs[j].regime = row.regime /\ legs[j].model = legs[k].model /\ legs[j].ran /\ legs[j].ok
    BY <2>2 DEF Degradation, Passed
  <2>4. Plan[j] = Plan[k]
    BY <1>2, <2>2, <2>3
  <2> QED
    BY <2>3, <2>4, <1>2, PlanIsComplete
<1>10. certificate.of.legs = legs /\ certificate.of.strategy = of.strategy /\ certificate.of.reconciled = of.reconciled
  BY <1>1
<1> HIDE DEF model, final, verdict, legs
<1>11. (certificate.status = "VERIFIED") = (certificate.verdict = "VERIFIED")
  BY <1>1, <1>4
<1>12. certificate.status = "VERIFIED" => final = "VERIFIED"
  BY <1>1, <1>4
<1>13. certificate.status = "FAILED" => model.status = "FAILED"
  BY <1>1
<1>14. certificate.status = "VERIFIED" =>
        /\ {<<certificate.of.legs[k].regime, certificate.of.legs[k].model>> : k \in DOMAIN certificate.of.legs}
             = ToSet(Regimes) \X ToSet(Ladder)
        /\ certificate.of.strategy \in EaStrategies /\ certificate.of.reconciled = {TRUE}
        /\ \A k \in DOMAIN certificate.of.legs :
              /\ certificate.of.legs[k].ran /\ certificate.of.legs[k].ok /\ certificate.of.legs[k].trades >= MinTrades
              /\ SpreadFloor > 0 => \E x \in certificate.of.legs[k].spread : x >= SpreadFloor
  BY <1>7, <1>10, <1>12, Zenon
<1>15. certificate.status = "FAILED" =>
        \E k \in DOMAIN certificate.of.legs : certificate.of.legs[k].ran /\ ~certificate.of.legs[k].ok
  BY <1>8, <1>10, <1>13, Zenon
<1>16. \A row \in certificate.degradation, k \in DOMAIN certificate.of.legs :
        certificate.of.legs[k].regime = row.regime /\ certificate.of.legs[k].model \in {Ladder[1], row.model}
          => certificate.of.legs[k].ran /\ certificate.of.legs[k].ok
  BY <1>1, <1>9, <1>10
<1> QED
  BY <1>11, <1>14, <1>15, <1>16 DEF CertificateIsEarned

\* certify.run_certification, for any windows, models, strategies and answers of the terminal: what is
\* VERIFIED ran and passed everywhere, met the spread floor, and was reconciled; what is FAILED has a
\* leg that ran and failed, and the degradation table shows nothing a failed leg is behind.
THEOREM CertificateEarned == CertSpec => []CertificateIsEarned
<1>1. CertInv /\ UNCHANGED certVars => CertInv'
  BY DEF CertInv, certVars
<1>2. CertInv /\ [CertNext]_certVars => CertInv'
  BY <1>1, CertBegins, LegRuns, CertConcludes DEF CertNext
<1>3. CertInv => CertificateIsEarned
  BY CertificateSays DEF CertInv, CertificateIsEarned
<1> QED
  BY <1>2, <1>3, CertStart, PTL DEF CertSpec

-----------------------------------------------------------------------------
(* WalkForward. *)

WalkSpec == WalkInit /\ [][WalkNext]_walk

\* A bounded non-empty set of integers has a greatest element.
LEMMA HasGreatest == ASSUME NEW T \in SUBSET Int, T # {}, NEW n \in Int, \A x \in T : x <= n
                     PROVE  \E x \in T : \A y \in T : y <= x
<1> DEFINE D == {d \in Nat : n - d \in T}
<1>1. PICK t \in T : TRUE
  OBVIOUS
<1>2. n - t \in Nat /\ n - (n - t) = t
  BY <1>1
<1>3. n - t \in D
  BY <1>1, <1>2
<1>4. PICK d \in D : \A e \in D : d <= e
  <2> HIDE DEF D
  <2>1. D \in SUBSET Nat
    BY DEF D
  <2> QED
    BY <1>3, <2>1, HasLeast
<1>5. n - d \in T
  BY <1>4
<1>6. ASSUME NEW y \in T PROVE y <= n - d
  <2>1. n - y \in Nat /\ n - (n - y) = y
    BY <1>6
  <2>2. n - y \in D
    BY <1>6, <2>1
  <2>3. d <= n - y
    BY <1>4, <2>2
  <2> QED
    BY <2>3, <1>4
<1> QED
  BY <1>5, <1>6

LEMMA MaxIs == ASSUME NEW S \in SUBSET Int, NEW m \in S, \A x \in S : x <= m PROVE Max(S) = m
<1>1. \A x \in S : m >= x
  OBVIOUS
<1>2. Max(S) \in S /\ \A y \in S : Max(S) >= y
  BY <1>1 DEF Max
<1>3. Max(S) >= m /\ m >= Max(S) /\ Max(S) \in Int /\ m \in Int
  BY <1>1, <1>2
<1> QED
  BY <1>3
LEMMA MinIs == ASSUME NEW S \in SUBSET Int, NEW m \in S, \A x \in S : m <= x PROVE Min(S) = m
<1>1. \A x \in S : m <= x
  OBVIOUS
<1>2. Min(S) \in S /\ \A y \in S : Min(S) <= y
  BY <1>1 DEF Min
<1>3. Min(S) <= m /\ m <= Min(S) /\ Min(S) \in Int /\ m \in Int
  BY <1>1, <1>2
<1> QED
  BY <1>3

LEMMA GrowsStrictly == ASSUME NEW a \in Int, NEW b \in Int, NEW c \in Nat \ {0}, a < b PROVE a * c < b * c
<1>1. (a + 1) * c <= b * c
  BY Grows
<1>2. (a + 1) * c = a * c + c
  OBVIOUS
<1> QED
  BY <1>1, <1>2

\* The segments follow each other from the head on, and a selection window fits before each.
LEMMA Geometry ==
    ASSUME NEW r \in Walks, Workable(r)
    PROVE  /\ SegmentBars(r) \in Nat \ {0} /\ SelectionBars(r) \in Nat /\ HeadBar(r) \in Nat /\ HeadBar(r) >= 2
           /\ \A w \in Nat : TestStart(r, w) \in Int
           /\ \A w \in Nat \ {0} : TestStart(r, w) - SelectionBars(r) >= 0 /\ HeadBar(r) <= TestStart(r, w)
           /\ \A v, w \in Nat \ {0} : v < w => TestStart(r, v) < TestStart(r, w)
           /\ \A v, w \in Nat \ {0} : v <= w => TestStart(r, v) <= TestStart(r, w)
<1>1. /\ r.bars \in Int /\ r.windows \in Int /\ r.tenths \in Int
      /\ r.warmup \in Nat /\ r.embargo \in Int /\ r.purge \in Int
      /\ SegmentMin \in Nat \ {0} /\ SelectionMin \in Nat \ {0, 1}
  BY WalksAssumption
<1>2. 10 * r.windows + r.tenths \in Nat \ {0} /\ 10 * (r.bars - r.warmup) \in Int
  BY <1>1 DEF Workable
<1>3. SegmentBars(r) \in Int
  BY <1>2 DEF SegmentBars
<1>4. SegmentBars(r) \in Nat \ {0}
  BY <1>1, <1>3 DEF Workable
<1>5. RoundTenths(r.tenths * SegmentBars(r)) \in Int
  <2>1. \A x \in Int : RoundTenths(x) \in Int
    BY DEF RoundTenths
  <2>2. r.tenths * SegmentBars(r) \in Int
    BY <1>1, <1>3
  <2> QED
    BY <2>1, <2>2
<1>6. SelectionBars(r) \in Nat /\ SelectionBars(r) >= 2
  <2>1. SelectionBars(r) \in Int
    BY <1>5, MaxOfTwo DEF SelectionBars
  <2> QED
    BY <1>1, <2>1 DEF Workable
<1>7. HeadBar(r) \in Nat /\ HeadBar(r) >= 2 /\ HeadBar(r) - SelectionBars(r) >= 0
  BY <1>1, <1>6 DEF HeadBar
<1>8. ASSUME NEW w \in Nat PROVE (w - 1) * SegmentBars(r) \in Int
  BY <1>4
<1>9. \A w \in Nat : TestStart(r, w) \in Int /\ TestStart(r, w) = HeadBar(r) + (w - 1) * SegmentBars(r)
  BY <1>7, <1>8 DEF TestStart
<1>10. ASSUME NEW w \in Nat \ {0} PROVE TestStart(r, w) - SelectionBars(r) >= 0 /\ HeadBar(r) <= TestStart(r, w)
  <2>1. (w - 1) * SegmentBars(r) >= 0
    BY <1>4
  <2> QED
    BY <2>1, <1>6, <1>7, <1>8, <1>9
<1>11. ASSUME NEW v \in Nat \ {0}, NEW w \in Nat \ {0}, v < w PROVE TestStart(r, v) < TestStart(r, w)
  <2>1. (v - 1) * SegmentBars(r) < (w - 1) * SegmentBars(r)
    BY <1>4, <1>11, GrowsStrictly
  <2> QED
    BY <2>1, <1>7, <1>8, <1>9
<1>12. ASSUME NEW v \in Nat \ {0}, NEW w \in Nat \ {0}, v <= w PROVE TestStart(r, v) <= TestStart(r, w)
  <2>1. CASE v = w
    BY <2>1, <1>9
  <2>2. CASE v < w
    BY <2>2, <1>9, <1>11
  <2> QED
    BY <1>12, <2>1, <2>2
<1> QED
  BY <1>4, <1>6, <1>7, <1>9, <1>10, <1>11, <1>12

\* A score is one number or missing; the ranking is a weak order.
IsScore(a) == a = {} \/ \E x \in Int : a = {x}
LEMMA Ranking ==
    ASSUME NEW a, NEW b, NEW c, IsScore(a), IsScore(b), IsScore(c)
    PROVE  /\ ~Outranks(a, a)
           /\ Outranks(a, b) /\ Outranks(b, c) => Outranks(a, c)
           /\ Outranks(a, c) => Outranks(a, b) \/ Outranks(b, c)
<1>1. \A x \in Int : Max({x}) = x
  BY DEF Max
<1>2. ASSUME NEW d, NEW e, IsScore(d), IsScore(e)
      PROVE  Outranks(d, e) <=> \E x \in Int : d = {x} /\ \A y \in Int : e = {y} => x > y
  BY <1>1, <1>2 DEF Outranks, IsScore
<1>3. \A x, y \in Int : {x} = {y} => x = y
  OBVIOUS
<1>4. ~Outranks(a, a)
  BY <1>2, <1>3
<1>5. ASSUME Outranks(a, b), Outranks(b, c) PROVE Outranks(a, c)
  BY <1>2, <1>3, <1>5
<1>6. ASSUME Outranks(a, c), ~Outranks(a, b) PROVE Outranks(b, c)
  <2>1. PICK x \in Int : a = {x} /\ \A y \in Int : c = {y} => x > y
    BY <1>2, <1>6
  <2>2. PICK y \in Int : b = {y} /\ y >= x
    BY <1>2, <1>6, <2>1
  <2>3. \A z \in Int : c = {z} => y > z
    BY <2>1, <2>2
  <2> QED
    BY <1>2, <2>2, <2>3
<1> QED
  BY <1>4, <1>5, <1>6

\* Some run of the grid leads.
LEMMA SomeRunLeads ==
    ASSUME NEW scores \in Grids
    PROVE  /\ BestOf(scores) \in DOMAIN scores
           /\ \A j \in DOMAIN scores : ~Outranks(scores[j], scores[BestOf(scores)])
<1>1. /\ scores # <<>> /\ scores \in Seq(SUBSET Int)
      /\ \A i \in DOMAIN scores : IsScore(scores[i])
  <2>1. scores # <<>> /\ scores \in Seq(SUBSET Int)
    BY WalksAssumption
  <2>2. ASSUME NEW i \in DOMAIN scores PROVE IsScore(scores[i])
    <3>1. scores[i] \in SUBSET Int
      BY <2>1
    <3>2. \A x, y \in scores[i] : x = y
      BY WalksAssumption
    <3>3. ASSUME NEW x \in scores[i] PROVE scores[i] = {x}
      BY <3>2
    <3> QED
      BY <3>1, <3>3 DEF IsScore
  <2> QED
    BY <2>1, <2>2
<1> DEFINE Leads(i, n) == \A j \in 1..n : ~Outranks(scores[j], scores[i])
           N == Len(scores)
           Leaderless == {n \in 1..N : \A i \in 1..n : ~Leads(i, n)}
           Unbeaten == {i \in 1..N : Leads(i, N)}
<1>2. DOMAIN scores = 1..N /\ N \in Nat \ {0}
  BY <1>1
<1> HIDE DEF N
<1>9. \A j \in 1..N : IsScore(scores[j])
  BY <1>1, <1>2
<1>3. Leaderless = {}
  <2> SUFFICES ASSUME Leaderless # {} PROVE FALSE
    OBVIOUS
  <2>1. PICK n \in Leaderless : \A m \in Leaderless : n <= m
    <3>1. Leaderless \in SUBSET Nat
      OBVIOUS
    <3> HIDE DEF Leaderless
    <3> QED
      BY <3>1, HasLeast
  <2>2. n \in 1..N /\ \A i \in 1..n : ~Leads(i, n)
    BY <2>1
  <2>3. n # 1
    <3>1. ~Outranks(scores[1], scores[1])
      <4>1. 1 \in 1..N
        BY <1>2
      <4> QED
        BY <4>1, <1>9, Ranking
    <3>2. Leads(1, 1)
      BY <3>1
    <3> QED
      BY <2>2, <3>2
  <2>4. n - 1 \in 1..N /\ n - 1 \notin Leaderless
    <3>1. n - 1 \in 1..N /\ ~(n <= n - 1)
      BY <2>2, <2>3, <1>2
    <3>2. n - 1 \notin Leaderless
      BY <2>1, <3>1
    <3> QED
      BY <3>1, <3>2
  <2>5. PICK i \in 1..(n - 1) : Leads(i, n - 1)
    BY <2>4
  <2>6. i \in 1..n /\ n \in 1..n /\ \A j \in 1..n : j \in 1..(n - 1) \/ j = n
    BY <2>2, <2>5
  <2>7. CASE Outranks(scores[n], scores[i])
    <3>1. ASSUME NEW j \in 1..n PROVE ~Outranks(scores[j], scores[n])
      <4>1. IsScore(scores[j]) /\ IsScore(scores[n]) /\ IsScore(scores[i])
        <5>1. j \in 1..N /\ n \in 1..N /\ i \in 1..N
          BY <1>2, <2>2, <2>6
        <5> QED
          BY <5>1, <1>9
      <4>2. j = n => ~Outranks(scores[j], scores[n])
        BY <4>1, Ranking
      <4>3. j \in 1..(n - 1) => ~Outranks(scores[j], scores[i])
        BY <2>5
      <4> QED
        BY <2>6, <2>7, <4>1, <4>2, <4>3, Ranking
    <3> QED
      BY <2>2, <2>6, <3>1
  <2>8. CASE ~Outranks(scores[n], scores[i])
    <3>1. Leads(i, n)
      BY <2>5, <2>6, <2>8
    <3> QED
      BY <2>2, <2>6, <3>1
  <2> QED
    BY <2>7, <2>8
<1>4. Unbeaten # {}
  <2>1. N \in 1..N /\ N \notin Leaderless
    <3>1. N \in 1..N
      BY <1>2
    <3> QED
      BY <3>1, <1>3
  <2>2. PICK i \in 1..N : Leads(i, N)
    BY <2>1
  <2> QED
    BY <2>2
<1>5. PICK i \in Unbeaten : \A k \in Unbeaten : i <= k
  <2>1. Unbeaten \in SUBSET Nat
    OBVIOUS
  <2> HIDE DEF Unbeaten
  <2> QED
    BY <1>4, <2>1, HasLeast
<1>6. i \in 1..N /\ \A j \in 1..N : ~Outranks(scores[j], scores[i])
  BY <1>5
<1>7. ASSUME NEW j \in 1..(i - 1) PROVE Outranks(scores[i], scores[j])
  <2>1. j \in 1..N /\ j \notin Unbeaten
    BY <1>5, <1>6, <1>2
  <2>2. PICK k \in 1..N : Outranks(scores[k], scores[j])
    BY <2>1
  <2>3. IsScore(scores[k]) /\ IsScore(scores[i]) /\ IsScore(scores[j])
    BY <1>9, <1>6, <2>1
  <2> QED
    BY <1>6, <2>2, <2>3, Ranking
<1> HIDE DEF Leaderless, Unbeaten
<1>8. \E x \in DOMAIN scores : /\ \A j \in DOMAIN scores : ~Outranks(scores[j], scores[x])
                               /\ \A j \in 1..(x - 1) : Outranks(scores[x], scores[j])
  BY <1>2, <1>6, <1>7
<1> QED
  BY <1>8 DEF BestOf

\* What a window shows of its selection.
Window == [scores : Grids, without : Grids, best : Nat, metric : SUBSET Int, on : SUBSET Int, kept : SUBSET Int]
WindowSound(r, i, w) ==
    /\ w.on = SelectedOn(r, i)
    /\ \A e \in w.kept : e < TestStart(r, i) - r.embargo - r.purge
    /\ w.best = BestOf(w.scores)
WalkStages == {"idle", "select", "run", "done", "refused"}

\* One window and one entry of the schedule for every selection made, in order.
WalkInv ==
    /\ walk = [stage |-> walk.stage, request |-> walk.request, windows |-> walk.windows, schedule |-> walk.schedule]
    /\ walk.stage \in WalkStages
    /\ walk.windows \in Seq(Window) /\ walk.schedule \in Seq(Int) /\ Len(walk.windows) = Len(walk.schedule)
    /\ walk.stage # "idle" => walk.request \in Walks
    /\ walk.stage \in {"select", "run", "done"} => Workable(walk.request)
    /\ walk.stage = "refused" => ~Workable(walk.request)
    /\ walk.stage \in {"idle", "refused"} => Len(walk.schedule) = 0
    /\ walk.stage = "select" => Len(walk.schedule) < walk.request.windows
    /\ walk.stage \in {"run", "done"} => Len(walk.schedule) = walk.request.windows
    /\ \A i \in 1..Len(walk.schedule) :
          /\ walk.schedule[i] = TestStart(walk.request, i) - 1
          /\ WindowSound(walk.request, i, walk.windows[i])

LEMMA WalkStarts == WalkInit => WalkInv
BY DEF WalkInit, WalkInv, WalkStages

LEMMA AskKeeps == ASSUME WalkInv, NEW r \in Walks, AskWalk(r) PROVE WalkInv'
<1>1. walk.stage = "idle" /\ Len(walk.schedule) = 0 /\ walk.windows \in Seq(Window) /\ walk.schedule \in Seq(Int)
      /\ Len(walk.windows) = 0
  BY DEF AskWalk, WalkInv
<1>2. walk' = [stage |-> IF Workable(r) THEN "select" ELSE "refused", request |-> r,
               windows |-> walk.windows, schedule |-> walk.schedule]
  BY DEF AskWalk, WalkInv
<1>3. Workable(r) => 0 < r.windows
  BY WalksAssumption DEF Workable
<1>4. /\ walk'.request = r /\ walk'.windows = walk.windows /\ walk'.schedule = walk.schedule
      /\ walk'.stage = IF Workable(r) THEN "select" ELSE "refused"
  BY <1>2
<1>5. \A i \in 1..Len(walk'.schedule) : FALSE
  BY <1>1, <1>4
<1> QED
  BY <1>1, <1>2, <1>3, <1>4, <1>5 DEF WalkInv, WalkStages

LEMMA SelectKeeps ==
    ASSUME WalkInv, NEW scores \in Grids, NEW without \in Grids, NEW exits, SelectWindow(scores, without, exits)
    PROVE  WalkInv'
<1> DEFINE r == walk.request
           w == Len(walk.windows) + 1
           new == [scores |-> scores, without |-> without, best |-> BestOf(scores), metric |-> without[BestOf(scores)],
                   on |-> SelectedOn(r, w), kept |-> KeptExits(r, w, exits)]
           start == TestStart(r, w) - 1
<1>1. /\ walk.stage = "select" /\ exits \subseteq SelectedOn(r, w)
      /\ r \in Walks /\ Workable(r)
      /\ walk.windows \in Seq(Window) /\ walk.schedule \in Seq(Int)
      /\ Len(walk.windows) = Len(walk.schedule) /\ Len(walk.schedule) < r.windows
  BY DEF SelectWindow, WalkInv
<1>2. walk' = [stage |-> IF w = r.windows THEN "run" ELSE "select", request |-> r,
               windows |-> Append(walk.windows, new), schedule |-> Append(walk.schedule, start)]
  BY DEF SelectWindow, WalkInv
<1>3. w \in Nat \ {0} /\ w <= r.windows /\ r.windows \in Int /\ r.embargo \in Int /\ r.purge \in Int
  BY <1>1, WalksAssumption
<1>4. start \in Int /\ TestStart(r, w) \in Int /\ SelectionBars(r) \in Nat
  <2>1. SelectionBars(r) \in Nat /\ \A v \in Nat : TestStart(r, v) \in Int
    BY <1>1, Geometry
  <2> QED
    BY <1>3, <2>1
<1>5. SelectionEnd(r, w) = TestStart(r, w) - r.embargo /\ SelectionEnd(r, w) \in Int
  BY <1>3, <1>4 DEF SelectionEnd
<1>6. SelectedOn(r, w) \in SUBSET Int /\ \A e \in SelectedOn(r, w) : e < SelectionEnd(r, w)
  BY <1>4, <1>5 DEF SelectedOn
<1>7. KeptExits(r, w, exits) \in SUBSET Int
      /\ \A e \in KeptExits(r, w, exits) : e < TestStart(r, w) - r.embargo - r.purge
  <2>1. CASE r.purge = 0
    BY <2>1, <1>1, <1>3, <1>4, <1>5, <1>6 DEF KeptExits
  <2>2. CASE r.purge # 0
    BY <2>2, <1>1, <1>3, <1>4, <1>5, <1>6 DEF KeptExits
  <2> QED
    BY <2>1, <2>2
<1>8. new \in Window
  <2>1. BestOf(scores) \in Nat /\ BestOf(scores) \in DOMAIN scores
    BY SomeRunLeads, WalksAssumption
  <2>2. without[BestOf(scores)] \in SUBSET Int
    <3>1. DOMAIN without = DOMAIN scores /\ without \in Seq(SUBSET Int)
      BY WalksAssumption DEF SelectWindow
    <3> QED
      BY <2>1, <3>1
  <2> QED
    BY <2>1, <2>2, <1>6, <1>7 DEF Window
<1>9. WindowSound(r, w, new)
  BY <1>7 DEF WindowSound
<1> HIDE DEF new, start
<1>10. /\ Append(walk.windows, new) \in Seq(Window) /\ Append(walk.schedule, start) \in Seq(Int)
       /\ Len(Append(walk.windows, new)) = w /\ Len(Append(walk.schedule, start)) = w
       /\ Append(walk.windows, new)[w] = new /\ Append(walk.schedule, start)[w] = start
       /\ \A i \in 1..(w - 1) : /\ Append(walk.windows, new)[i] = walk.windows[i]
                                /\ Append(walk.schedule, start)[i] = walk.schedule[i]
  BY <1>1, <1>4, <1>8
<1>11. /\ walk'.request = r /\ walk'.windows = Append(walk.windows, new) /\ walk'.schedule = Append(walk.schedule, start)
       /\ walk'.stage = IF w = r.windows THEN "run" ELSE "select"
       /\ walk' = [stage |-> walk'.stage, request |-> walk'.request, windows |-> walk'.windows,
                   schedule |-> walk'.schedule]
  BY <1>2
<1>12. ASSUME NEW i \in 1..w
       PROVE  /\ Append(walk.schedule, start)[i] = TestStart(r, i) - 1
              /\ WindowSound(r, i, Append(walk.windows, new)[i])
  <2>1. CASE i = w
    BY <2>1, <1>9, <1>10 DEF start
  <2>2. CASE i # w
    <3>1. i \in 1..(w - 1) /\ i \in 1..Len(walk.schedule)
      BY <1>1, <1>3, <2>2
    <3>2. walk.schedule[i] = TestStart(r, i) - 1 /\ WindowSound(r, i, walk.windows[i])
      BY <3>1 DEF WalkInv
    <3> QED
      BY <3>1, <3>2, <1>10
  <2> QED
    BY <2>1, <2>2
<1>13. \A i \in 1..Len(walk'.schedule) :
          /\ walk'.schedule[i] = TestStart(walk'.request, i) - 1
          /\ WindowSound(walk'.request, i, walk'.windows[i])
  BY <1>10, <1>11, <1>12
<1>14. /\ walk'.windows \in Seq(Window) /\ walk'.schedule \in Seq(Int) /\ Len(walk'.windows) = Len(walk'.schedule)
       /\ walk'.request \in Walks /\ Workable(walk'.request) /\ walk'.stage \in {"select", "run"}
       /\ walk'.stage = "select" => Len(walk'.schedule) < walk'.request.windows
       /\ walk'.stage = "run" => Len(walk'.schedule) = walk'.request.windows
  BY <1>1, <1>3, <1>10, <1>11
<1> HIDE DEF r, w
<1> QED
  BY <1>11, <1>13, <1>14 DEF WalkInv, WalkStages

\* The schedule is strictly increasing, from one on, inside the sample: what is checked and asked
\* for first is what the engine accepts.
LEMMA ScheduleIsAccepted ==
    ASSUME WalkInv, walk.stage = "run"
    PROVE  LET starts == {walk.schedule[i] : i \in DOMAIN walk.schedule}
           IN  Cardinality(starts) = Len(walk.schedule) /\ Min(starts) >= 1 /\ Max(starts) < walk.request.bars
<1> DEFINE r == walk.request
           n == Len(walk.schedule)
           f == walk.schedule
           starts == {f[i] : i \in DOMAIN f}
<1>1. r \in Walks /\ Workable(r) /\ f \in Seq(Int) /\ n = r.windows
      /\ \A i \in 1..n : f[i] = TestStart(r, i) - 1
  BY DEF WalkInv
<1>2. n \in Nat \ {0} /\ DOMAIN f = 1..n /\ r.bars \in Int
  BY <1>1, WalksAssumption DEF Workable
<1>3. /\ \A i \in 1..n : TestStart(r, i) \in Int /\ 2 <= TestStart(r, i)
      /\ \A i, j \in 1..n : i < j => TestStart(r, i) < TestStart(r, j)
      /\ \A i, j \in 1..n : i <= j => TestStart(r, i) <= TestStart(r, j)
  <2>1. /\ HeadBar(r) \in Nat /\ HeadBar(r) >= 2
        /\ \A i \in Nat : TestStart(r, i) \in Int
        /\ \A i \in Nat \ {0} : HeadBar(r) <= TestStart(r, i)
        /\ \A i, j \in Nat \ {0} : i < j => TestStart(r, i) < TestStart(r, j)
        /\ \A i, j \in Nat \ {0} : i <= j => TestStart(r, i) <= TestStart(r, j)
    BY <1>1, Geometry
  <2>2. \A i \in 1..n : i \in Nat \ {0}
    OBVIOUS
  <2> QED
    BY <2>1, <2>2
<1>4. TestStart(r, n) < r.bars
  BY <1>1 DEF Workable
<1> HIDE DEF r, n
<1>5. ASSUME NEW i \in 1..n PROVE f[i] \in Int /\ f[1] <= f[i] /\ f[i] <= f[n] /\ 1 <= f[i]
  <2>1. 1 \in 1..n /\ n \in 1..n /\ 1 <= i /\ i <= n
    BY <1>2
  <2>2. TestStart(r, 1) <= TestStart(r, i) /\ TestStart(r, i) <= TestStart(r, n)
    BY <1>3, <2>1
  <2>3. f[1] = TestStart(r, 1) - 1 /\ f[i] = TestStart(r, i) - 1 /\ f[n] = TestStart(r, n) - 1
    BY <1>1, <2>1
  <2>4. TestStart(r, 1) \in Int /\ TestStart(r, i) \in Int /\ TestStart(r, n) \in Int /\ 2 <= TestStart(r, i)
    BY <1>3, <2>1
  <2> QED
    BY <2>2, <2>3, <2>4
<1>6. f[1] \in starts /\ f[n] \in starts /\ starts \in SUBSET Int
  BY <1>2, <1>5
<1>11. \A x \in starts : f[1] <= x /\ x <= f[n]
  BY <1>2, <1>5
<1> HIDE DEF starts
<1>7. Min(starts) = f[1]
  BY <1>6, <1>11, MinIs
<1>8. Max(starts) = f[n]
  BY <1>6, <1>11, MaxIs
<1>9. Min(starts) >= 1 /\ Max(starts) < r.bars
  BY <1>1, <1>2, <1>3, <1>4, <1>5, <1>7, <1>8
<1>10. Cardinality(starts) = n
  <2>1. f \in [1..n -> starts]
    BY <1>1, <1>2 DEF starts
  <2>2. \A i, j \in 1..n : f[i] = f[j] => i = j
    BY <1>1, <1>2, <1>3
  <2>3. f \in Bijection(1..n, starts)
    BY <2>1, <2>2, <1>2 DEF starts, Bijection, Injection, Surjection, IsInjective
  <2>4. IsFiniteSet(1..n) /\ Cardinality(1..n) = n
    BY <1>2, FS_Interval
  <2> QED
    BY <2>3, <2>4, FS_Bijection DEF ExistsBijection
<1> QED
  BY <1>9, <1>10 DEF n, r, starts

LEMMA RunKeeps == ASSUME WalkInv, RunScheduled PROVE WalkInv'
<1>1. walk.stage = "run" /\ Len(walk.schedule) = walk.request.windows
  BY DEF WalkInv, RunScheduled
<1>2. walk' = [walk EXCEPT !.stage = "done"]
  BY <1>1, ScheduleIsAccepted DEF RunScheduled
<1>3. walk' = [stage |-> "done", request |-> walk.request, windows |-> walk.windows, schedule |-> walk.schedule]
  BY <1>2 DEF WalkInv
<1>4. walk'.stage = "done" /\ walk'.request = walk.request /\ walk'.windows = walk.windows
      /\ walk'.schedule = walk.schedule
  BY <1>3
<1> QED
  BY <1>1, <1>3, <1>4 DEF WalkInv, WalkStages

LEMMA WalkNextKeeps == ASSUME WalkInv, [WalkNext]_walk PROVE WalkInv'
<1>1. CASE UNCHANGED walk
  BY <1>1 DEF WalkInv, WindowSound
<1>2. CASE WalkNext
  BY <1>2, AskKeeps, SelectKeeps, RunKeeps DEF WalkNext
<1> QED
  BY <1>1, <1>2

\* Where the run is done, each bar is governed by the segment it lies in.
LEMMA SegmentGoverns ==
    ASSUME WalkInv, walk.stage = "done", NEW entry \in 1..(walk.request.bars - 1)
    PROVE  IF entry < HeadBar(walk.request)
           THEN CountedIn(walk.request, entry) = {} /\ GovernedBy(entry - 1) = 0
           ELSE CountedIn(walk.request, entry) = {GovernedBy(entry - 1)}
<1> DEFINE r == walk.request
           n == Len(walk.schedule)
           Past == {i \in 1..n : TestStart(r, i) <= entry}
<1>1. r \in Walks /\ Workable(r) /\ walk.schedule \in Seq(Int) /\ n = r.windows
      /\ \A i \in 1..n : walk.schedule[i] = TestStart(r, i) - 1
  BY DEF WalkInv
<1>2. n \in Nat \ {0} /\ DOMAIN walk.schedule = 1..n /\ r.bars \in Int /\ entry \in Int /\ entry < r.bars
  <2>1. n \in Nat /\ DOMAIN walk.schedule = 1..n
    BY <1>1
  <2>2. n >= 1 /\ r.bars \in Int
    BY <1>1, WalksAssumption DEF Workable
  <2>3. r.bars - 1 \in Int
    BY <2>2
  <2> QED
    BY <2>1, <2>2, <2>3
<1>3. /\ \A i \in 1..n : TestStart(r, i) \in Int /\ HeadBar(r) <= TestStart(r, i)
      /\ \A i, j \in 1..n : i < j => TestStart(r, i) < TestStart(r, j)
      /\ \A i, j \in 1..n : i <= j => TestStart(r, i) <= TestStart(r, j)
      /\ HeadBar(r) \in Int
  <2>1. /\ HeadBar(r) \in Nat
        /\ \A i \in Nat : TestStart(r, i) \in Int
        /\ \A i \in Nat \ {0} : HeadBar(r) <= TestStart(r, i)
        /\ \A i, j \in Nat \ {0} : i < j => TestStart(r, i) < TestStart(r, j)
        /\ \A i, j \in Nat \ {0} : i <= j => TestStart(r, i) <= TestStart(r, j)
    BY <1>1, Geometry
  <2>2. \A i \in 1..n : i \in Nat \ {0}
    OBVIOUS
  <2> HIDE DEF r, n
  <2>3. \A i \in 1..n : TestStart(r, i) \in Int /\ HeadBar(r) <= TestStart(r, i)
    BY <2>1, <2>2
  <2>4. \A i, j \in 1..n : i < j => TestStart(r, i) < TestStart(r, j)
    BY <2>1, <2>2
  <2>5. \A i, j \in 1..n : i <= j => TestStart(r, i) <= TestStart(r, j)
    BY <2>1, <2>2
  <2>6. HeadBar(r) \in Int
    BY <2>1
  <2> QED
    BY <2>3, <2>4, <2>5, <2>6
<1>4. TestStart(r, 1) = HeadBar(r)
  <2>1. (1 - 1) * SegmentBars(r) = 0 /\ HeadBar(r) \in Int
    BY <1>1, <1>3, Geometry
  <2> QED
    BY <2>1 DEF TestStart
<1>5. GovernedBy(entry - 1) = Max({0} \cup Past)
  <2>1. ASSUME NEW i \in 1..n PROVE walk.schedule[i] <= entry - 1 <=> TestStart(r, i) <= entry
    <3>1. walk.schedule[i] = TestStart(r, i) - 1
      BY <1>1
    <3>2. TestStart(r, i) \in Int
      BY <1>3
    <3> QED
      BY <3>1, <3>2, <1>2
  <2>2. DOMAIN walk.schedule = 1..n
    BY <1>2
  <2>3. {i \in DOMAIN walk.schedule : walk.schedule[i] <= entry - 1} = Past
    <3> HIDE DEF r, n
    <3> QED
      BY <2>1, <2>2, Zenon
  <2> QED
    BY <2>3 DEF GovernedBy
<1>6. CountedIn(r, entry) = {w \in 1..n : TestStart(r, w) <= entry /\ entry < TestEnd(r, w)}
  BY <1>1 DEF CountedIn
<1> HIDE DEF r, n
<1>7. CASE entry < HeadBar(r)
  <2>1. Past = {}
    BY <1>2, <1>3, <1>7
  <2>2. CountedIn(r, entry) = {}
    BY <1>2, <1>3, <1>6, <1>7
  <2>3. Max({0} \cup Past) = 0
    <3>1. {0} \cup Past = {0}
      BY <2>1
    <3>2. {0} \in SUBSET Int /\ 0 \in {0} /\ \A x \in {0} : x <= 0
      OBVIOUS
    <3>3. Max({0}) = 0
      BY <3>2, MaxIs
    <3> QED
      BY <3>1, <3>3
  <2> QED
    BY <1>5, <1>7, <2>2, <2>3 DEF r
<1>8. CASE ~(entry < HeadBar(r))
  <2>1. 1 \in Past /\ Past \in SUBSET Int /\ \A x \in Past : x <= n
    BY <1>2, <1>3, <1>4, <1>8
  <2>2. PICK m \in Past : \A x \in Past : x <= m
    <3> HIDE DEF Past
    <3>1. Past # {} /\ n \in Int
      BY <2>1, <1>2
    <3> QED
      BY <3>1, <2>1, HasGreatest
  <2>3. m \in 1..n /\ TestStart(r, m) <= entry
    BY <2>2
  <2>4. Max({0} \cup Past) = m
    <3>1. {0} \cup Past \in SUBSET Int /\ m \in {0} \cup Past /\ \A x \in {0} \cup Past : x <= m
      BY <2>1, <2>2, <2>3
    <3> HIDE DEF Past
    <3> QED
      BY <3>1, MaxIs
  <2>5. ASSUME NEW w \in 1..n PROVE TestStart(r, w) <= entry /\ entry < TestEnd(r, w) <=> w = m
    <3>1. CASE w < m
      <4>1. w # n /\ w + 1 \in 1..n /\ w + 1 <= m
        BY <3>1, <2>3, <1>2
      <4>2. TestEnd(r, w) = TestStart(r, w + 1)
        BY <4>1, <1>1 DEF TestEnd, r, n
      <4>3. TestStart(r, w + 1) <= TestStart(r, m)
        BY <4>1, <2>3, <1>3
      <4> QED
        BY <4>1, <4>2, <4>3, <2>3, <1>2, <1>3, <3>1
    <3>2. CASE w = m
      <4>1. CASE w = n
        BY <4>1, <3>2, <2>3, <1>1, <1>2 DEF TestEnd
      <4>2. CASE w # n
        <5>1. w + 1 \in 1..n /\ w + 1 \notin Past
          BY <4>2, <3>2, <2>2, <1>2
        <5>2. TestEnd(r, w) = TestStart(r, w + 1)
          BY <4>2, <1>1 DEF TestEnd, r, n
        <5>3. ~(TestStart(r, w + 1) <= entry) /\ TestStart(r, w + 1) \in Int
          BY <5>1, <1>3
        <5> QED
          BY <5>2, <5>3, <1>2, <2>3, <3>2
      <4> QED
        BY <4>1, <4>2
    <3>3. CASE m < w
      <4>1. w \notin Past
        BY <3>3, <2>2, <2>3
      <4> QED
        BY <4>1, <3>3
    <3> QED
      BY <3>1, <3>2, <3>3, <2>3
  <2>6. CountedIn(r, entry) = {m}
    BY <1>6, <2>3, <2>5
  <2> QED
    BY <1>5, <1>8, <2>4, <2>6 DEF r
<1> QED
  BY <1>7, <1>8 DEF r

LEMMA InvOutOfSample == ASSUME WalkInv PROVE OutOfSampleIsOut
<1> DEFINE r == walk.request
<1>1. walk.windows \in Seq(Window) /\ walk.schedule \in Seq(Int) /\ Len(walk.windows) = Len(walk.schedule)
      /\ \A i \in 1..Len(walk.schedule) : WindowSound(r, i, walk.windows[i])
  BY DEF WalkInv
<1>2. ASSUME NEW i \in DOMAIN walk.windows
      PROVE  LET w == walk.windows[i] IN
             /\ \A b \in w.on : b < TestStart(r, i) - r.embargo /\ b >= 0
             /\ \A e \in w.kept : e < TestStart(r, i) - r.embargo - r.purge
             /\ w.scores[w.best] = {} => \A j \in DOMAIN w.scores : w.scores[j] = {}
  <2>1. i \in 1..Len(walk.schedule) /\ i \in Nat \ {0} /\ walk.windows[i] \in Window
    BY <1>1
  <2>2. walk.stage \in {"select", "run", "done"}
    BY <2>1 DEF WalkInv, WalkStages
  <2>3. r \in Walks /\ Workable(r)
    BY <2>2 DEF WalkInv
  <2>4. r.embargo \in Int /\ TestStart(r, i) \in Int /\ SelectionBars(r) \in Nat /\ TestStart(r, i) - SelectionBars(r) >= 0
    BY <2>1, <2>3, Geometry, WalksAssumption
  <2> DEFINE w == walk.windows[i]
  <2>5. w.scores \in Grids /\ WindowSound(r, i, w)
    BY <1>1, <2>1 DEF Window
  <2>6. \A b \in w.on : b < TestStart(r, i) - r.embargo /\ b >= 0
    BY <2>4, <2>5 DEF WindowSound, SelectedOn, SelectionEnd
  <2>7. w.scores[w.best] = {} => \A j \in DOMAIN w.scores : w.scores[j] = {}
    BY <2>5, SomeRunLeads DEF WindowSound, Outranks
  <2> QED
    BY <2>5, <2>6, <2>7 DEF WindowSound
<1>3. walk.stage = "refused" => ~Workable(r)
  BY DEF WalkInv
<1> QED
  BY <1>2, <1>3, SegmentGoverns DEF OutOfSampleIsOut

\* optimizer.walk_forward: a trade entered in a test segment was decided with parameters selected
\* on earlier bars only, by that segment's own selection, and counts in exactly that segment; a run
\* without the metric wins only where all lack it; the engine accepts every schedule.
THEOREM OutOfSample == WalkSpec => []OutOfSampleIsOut
<1>1. WalkSpec => []WalkInv
  <2>1. WalkInit => WalkInv
    BY WalkStarts
  <2>2. WalkInv /\ [WalkNext]_walk => WalkInv'
    BY WalkNextKeeps
  <2> QED
    BY <2>1, <2>2, PTL DEF WalkSpec
<1>2. WalkInv => OutOfSampleIsOut
  BY InvOutOfSample
<1> QED
  BY <1>1, <1>2, PTL

-----------------------------------------------------------------------------
(* Cross-validation: the spans of a fold                                    *)

CvSpec == CvInit /\ [][CvNext]_fold

\* The spans of a frame of n bars, and sequences of them one after the other with a gap between.
SpansOf(n) == {s \in Nat \X Nat : s[1] < s[2] /\ s[2] <= n}
InTurn(m, n) ==
    /\ m \in Seq(SpansOf(n))
    /\ \A j, k \in 1..Len(m) : j < k => m[j][2] < m[k][1]
Holds(s, x) == s[1] <= x /\ x < s[2]

LEMMA SpanIsPair ==
    ASSUME NEW n, NEW s \in SpansOf(n)
    PROVE  s = <<s[1], s[2]>> /\ s[1] \in Nat /\ s[2] \in Nat /\ s[1] < s[2] /\ s[2] <= n
BY DEF SpansOf

LEMMA BarsAre ==
    ASSUME NEW n, NEW S \in SUBSET SpansOf(n), NEW x
    PROVE  x \in Bars(S) <=> x \in Int /\ \E s \in S : Holds(s, x)
<1>1. \A s \in S : x \in s[1]..(s[2] - 1) <=> x \in Int /\ Holds(s, x)
  <2>1. \A s \in S : s[1] \in Nat /\ s[2] \in Nat
    BY SpanIsPair
  <2> QED BY <2>1 DEF Holds
<1>2. x \in Bars(S) <=> \E s \in S : x \in s[1]..(s[2] - 1)
  BY DEF Bars
<1> QED BY <1>1, <1>2

LEMMA FirstIsThere ==
    ASSUME NEW n, NEW S \in SUBSET SpansOf(n), S # {}
    PROVE  FirstSpan(S) \in S /\ \A t \in S : FirstSpan(S)[1] <= t[1]
<1>0. \A s \in S : s[1] \in Nat /\ s[2] \in Nat
  BY SpanIsPair
<1> DEFINE starts == {s[1] : s \in S}
<1>1. starts \in SUBSET Nat /\ starts # {}
  BY <1>0
<1>2. PICK lo \in starts : \A y \in starts : lo <= y
  BY <1>1, HasLeast
<1> DEFINE ends == {s[2] : s \in {t \in S : t[1] = lo}}
<1>3. ends \in SUBSET Nat /\ ends # {}
  BY <1>0, <1>2
<1>4. PICK hi \in ends : \A y \in ends : hi <= y
  BY <1>3, HasLeast
<1>5. PICK s \in S : s[1] = lo /\ s[2] = hi
  BY <1>4
<1>6. ASSUME NEW t \in S PROVE s[1] < t[1] \/ (s[1] = t[1] /\ s[2] <= t[2])
  <2>1. lo <= t[1] /\ (t[1] = lo => hi <= t[2])
    BY <1>2, <1>4
  <2>2. s[1] \in Nat /\ t[1] \in Nat
    BY <1>0
  <2> QED BY <1>5, <2>1, <2>2
<1>7. FirstSpan(S) \in S /\ \A t \in S : \/ FirstSpan(S)[1] < t[1]
                                         \/ FirstSpan(S)[1] = t[1] /\ FirstSpan(S)[2] <= t[2]
  BY <1>6 DEF FirstSpan
<1>8. \A t \in S : FirstSpan(S)[1] \in Nat /\ t[1] \in Nat
  BY <1>0, <1>7
<1> QED BY <1>7, <1>8

\* The turns of the merge: what each makes of the one before.
FirstMerge(S) == [left |-> S, merged |-> <<>>]
NextMerge(s) == [left |-> s.left \ {FirstSpan(s.left)}, merged |-> MergeSpan(s.merged, FirstSpan(s.left))]
MergeTable(S, last, turn) ==
    turn = [k \in 0..last |-> IF k = 0 THEN FirstMerge(S) ELSE NextMerge(turn[k - 1])]

LEMMA MergeTableExists ==
    ASSUME NEW S, NEW last \in Nat
    PROVE  \E turn : MergeTable(S, last, turn)
<1> DEFINE missing == {n \in Nat : ~\E turn : MergeTable(S, n, turn)}
<1>1. SUFFICES ASSUME missing # {} PROVE FALSE
  OBVIOUS
<1>2. PICK n \in missing : \A m \in missing : n <= m
  BY <1>1, HasLeast
<1>3. n \in Nat /\ ~\E turn : MergeTable(S, n, turn)
  BY <1>2
<1>4. CASE n = 0
  <2> DEFINE g == [k \in 0..0 |-> FirstMerge(S)]
  <2>1. g = [k \in 0..0 |-> IF k = 0 THEN FirstMerge(S) ELSE NextMerge(g[k - 1])]
    OBVIOUS
  <2> HIDE DEF g
  <2> QED BY <1>3, <1>4, <2>1 DEF MergeTable
<1>5. CASE n # 0
  <2> HIDE DEF missing
  <2>1. n - 1 \in Nat /\ n - 1 \notin missing
    BY <1>2, <1>3, <1>5
  <2> USE DEF missing
  <2>2. PICK g : MergeTable(S, n - 1, g)
    BY <2>1
  <2> DEFINE h == [k \in 0..n |-> IF k = n THEN NextMerge(g[n - 1]) ELSE g[k]]
             step == [k \in 0..n |-> IF k = 0 THEN FirstMerge(S) ELSE NextMerge(h[k - 1])]
  <2>3. \A k \in 0..(n - 1) : g[k] = IF k = 0 THEN FirstMerge(S) ELSE NextMerge(g[k - 1])
    BY <2>2 DEF MergeTable
  <2>4. \A k \in 0..(n - 1) : h[k] = g[k]
    BY <1>3
  <2>5. ASSUME NEW k \in 0..n PROVE h[k] = step[k]
    <3>1. CASE k = n
      <4>1. h[n - 1] = g[n - 1]
        BY <1>3, <1>5, <2>1, <2>4
      <4>2. h[n] = NextMerge(g[n - 1])
        BY <1>3
      <4>3. step[n] = NextMerge(h[n - 1])
        BY <1>3, <1>5
      <4> QED BY <3>1, <4>1, <4>2, <4>3
    <3>2. CASE k = 0
      BY <1>5, <2>1, <2>3, <3>2
    <3>3. CASE k # n /\ k # 0
      <4>1. k \in 0..(n - 1) /\ k - 1 \in 0..(n - 1)
        BY <1>3, <3>3
      <4>2. h[k] = NextMerge(g[k - 1])
        BY <2>3, <2>4, <3>3, <4>1
      <4>3. h[k - 1] = g[k - 1]
        BY <2>4, <4>1
      <4>4. step[k] = NextMerge(h[k - 1])
        BY <3>3
      <4> QED BY <4>2, <4>3, <4>4
    <3> QED BY <3>1, <3>2, <3>3
  <2>6. h = step
    BY <2>5
  <2> HIDE DEF h
  <2> QED BY <1>3, <2>6 DEF MergeTable
<1> QED BY <1>4, <1>5

\* After a turn: some spans left, none before the last merged one, and no bar won or lost.
Merging(s, S, n, left) ==
    /\ s.left \in SUBSET S /\ IsFiniteSet(s.left) /\ Cardinality(s.left) = left
    /\ InTurn(s.merged, n)
    /\ \A t \in s.left : s.merged # <<>> => s.merged[Len(s.merged)][1] <= t[1]
    /\ \A x \in Nat : (\E t \in S : Holds(t, x)) <=>
                         (\E t \in s.left : Holds(t, x)) \/ (\E k \in 1..Len(s.merged) : Holds(s.merged[k], x))

\* One span more: it lengthens the last one, or it follows it.
LEMMA SpanIsMerged ==
    ASSUME NEW n \in Nat, NEW m, InTurn(m, n), NEW s \in SpansOf(n), m # <<>> => m[Len(m)][1] <= s[1]
    PROVE  /\ InTurn(MergeSpan(m, s), n) /\ MergeSpan(m, s) # <<>>
           /\ MergeSpan(m, s)[Len(MergeSpan(m, s))][1] <= s[1]
           /\ \A x \in Nat : (\E k \in 1..Len(MergeSpan(m, s)) : Holds(MergeSpan(m, s)[k], x)) <=>
                                Holds(s, x) \/ \E k \in 1..Len(m) : Holds(m[k], x)
<1> DEFINE l == Len(m)
<1>0. /\ m \in Seq(SpansOf(n)) /\ l \in Nat /\ s[1] \in Nat /\ s[2] \in Nat /\ s[1] < s[2] /\ s[2] <= n
      /\ \A j, k \in 1..l : j < k => m[j][2] < m[k][1]
  BY SpanIsPair DEF InTurn
<1>1. \A k \in 1..l : m[k] \in SpansOf(n) /\ m[k][1] \in Nat /\ m[k][2] \in Nat /\ m[k][1] < m[k][2] /\ m[k][2] <= n
  BY <1>0, SpanIsPair
<1>2. CASE m # <<>> /\ s[1] <= m[l][2]
  <2> DEFINE end == Max({m[l][2], s[2]})
             longer == [m EXCEPT ![l] = <<m[l][1], end>>]
  <2>1. l \in 1..l
    BY <1>0, <1>2
  <2>2. end \in Nat /\ end = IF m[l][2] >= s[2] THEN m[l][2] ELSE s[2]
    <3>1. m[l][2] \in Int /\ s[2] \in Int
      BY <1>0, <1>1, <2>1
    <3>2. end = IF m[l][2] >= s[2] THEN m[l][2] ELSE s[2]
      BY <3>1, MaxOfTwo
    <3> QED BY <1>0, <1>1, <2>1, <3>2
  <2>3. MergeSpan(m, s) = longer
    BY <1>2 DEF MergeSpan, Last
  <2> HIDE DEF end
  <2>4. <<m[l][1], end>> \in SpansOf(n)
    BY <1>0, <1>1, <2>1, <2>2 DEF SpansOf
  <2>5. longer \in Seq(SpansOf(n)) /\ Len(longer) = l
    BY <1>0, <2>1, <2>4
  <2>6. /\ \A k \in 1..l : k # l => longer[k] = m[k]
        /\ longer[l] = <<m[l][1], end>>
    BY <1>0, <2>1
  <2> HIDE DEF longer
  <2>7. longer[l][1] = m[l][1] /\ longer[l][2] = end
    BY <2>6
  <2>8. ASSUME NEW j \in 1..l, NEW k \in 1..l, j < k PROVE longer[j][2] < longer[k][1]
    <3>1. longer[j] = m[j]
      BY <1>0, <2>6, <2>8
    <3>2. longer[k][1] = m[k][1]
      BY <2>6, <2>7
    <3> QED BY <1>0, <2>8, <3>1, <3>2
  <2>9. InTurn(longer, n)
    BY <2>5, <2>8 DEF InTurn
  <2>10. ASSUME NEW x \in Nat
         PROVE  (\E k \in 1..l : Holds(longer[k], x)) <=> Holds(s, x) \/ \E k \in 1..l : Holds(m[k], x)
    <3>1. Holds(longer[l], x) <=> Holds(m[l], x) \/ Holds(s, x)
      <4>1. m[l][1] \in Nat /\ m[l][2] \in Nat /\ m[l][1] <= s[1] /\ s[1] <= m[l][2] /\ m[l][1] < m[l][2]
        BY <1>1, <1>2, <2>1
      <4> QED BY <1>0, <2>2, <2>7, <4>1 DEF Holds
    <3> QED BY <2>1, <2>6, <3>1
  <2>11. longer[Len(longer)][1] <= s[1] /\ longer # <<>>
    BY <1>2, <2>1, <2>5, <2>7
  <2> QED BY <2>3, <2>5, <2>9, <2>10, <2>11
<1>3. CASE ~(m # <<>> /\ s[1] <= m[l][2])
  <2> DEFINE more == Append(m, s)
  <2>1. MergeSpan(m, s) = more
    BY <1>3 DEF MergeSpan, Last
  <2>2. /\ more \in Seq(SpansOf(n)) /\ Len(more) = l + 1 /\ more[l + 1] = s
        /\ \A k \in 1..l : more[k] = m[k]
    BY <1>0
  <2> HIDE DEF more
  <2>3. ASSUME NEW j \in 1..l PROVE m[j][2] < s[1]
    <3>1. l \in 1..l /\ m[l][2] < s[1]
      BY <1>0, <1>1, <1>3
    <3>2. CASE j = l
      BY <3>1, <3>2
    <3>3. CASE j # l
      <4>1. m[j][2] < m[l][1]
        BY <1>0, <3>1, <3>3
      <4> QED BY <1>0, <1>1, <3>1, <4>1
    <3> QED BY <3>2, <3>3
  <2>4. ASSUME NEW j \in 1..(l + 1), NEW k \in 1..(l + 1), j < k PROVE more[j][2] < more[k][1]
    <3>1. j \in 1..l /\ more[j] = m[j]
      BY <1>0, <2>2, <2>4
    <3>2. CASE k = l + 1
      BY <2>2, <2>3, <3>1, <3>2
    <3>3. CASE k # l + 1
      BY <1>0, <2>2, <2>4, <3>1, <3>3
    <3> QED BY <3>2, <3>3
  <2>5. InTurn(more, n)
    BY <2>2, <2>4 DEF InTurn
  <2>6. ASSUME NEW x \in Nat
        PROVE  (\E k \in 1..(l + 1) : Holds(more[k], x)) <=> Holds(s, x) \/ \E k \in 1..l : Holds(m[k], x)
    <3>1. \A k \in 1..(l + 1) : k \in 1..l \/ k = l + 1
      BY <1>0
    <3>2. l + 1 \in 1..(l + 1) /\ \A k \in 1..l : k \in 1..(l + 1)
      BY <1>0
    <3> QED BY <2>2, <3>1, <3>2
  <2>7. more[Len(more)][1] <= s[1] /\ more # <<>>
    BY <1>0, <2>2
  <2> QED BY <2>1, <2>2, <2>5, <2>6, <2>7
<1> QED BY <1>2, <1>3

LEMMA MergeKeeps ==
    ASSUME NEW n \in Nat, NEW S \in SUBSET SpansOf(n), NEW left \in Nat \ {0}, NEW s, Merging(s, S, n, left)
    PROVE  Merging(NextMerge(s), S, n, left - 1)
<1> DEFINE t == FirstSpan(s.left)
           m == MergeSpan(s.merged, t)
<1>1. s.left # {} /\ s.left \in SUBSET SpansOf(n)
  BY FS_EmptySet DEF Merging
<1>2. t \in s.left /\ \A v \in s.left : t[1] <= v[1]
  BY <1>1, FirstIsThere
<1>3. NextMerge(s).left = s.left \ {t} /\ NextMerge(s).merged = m
  BY DEF NextMerge
<1> HIDE DEF t, m
<1>4. /\ s.left \ {t} \in SUBSET S /\ IsFiniteSet(s.left \ {t}) /\ Cardinality(s.left \ {t}) = left - 1
  <2>1. s.left \in SUBSET S /\ IsFiniteSet(s.left) /\ Cardinality(s.left) = left
    BY DEF Merging
  <2>2. IsFiniteSet(s.left \ {t}) /\ Cardinality(s.left \ {t}) = Cardinality(s.left) - 1
    BY <1>2, <2>1, FS_RemoveElement
  <2> QED BY <2>1, <2>2
<1>5. t \in SpansOf(n) /\ InTurn(s.merged, n) /\ (s.merged # <<>> => s.merged[Len(s.merged)][1] <= t[1])
  BY <1>1, <1>2 DEF Merging
<1>6. /\ InTurn(m, n) /\ m # <<>> /\ m[Len(m)][1] <= t[1]
      /\ \A x \in Nat : (\E k \in 1..Len(m) : Holds(m[k], x)) <=>
                           Holds(t, x) \/ \E k \in 1..Len(s.merged) : Holds(s.merged[k], x)
  BY <1>5, SpanIsMerged DEF m
<1>7. ASSUME NEW v \in s.left \ {t} PROVE m[Len(m)][1] <= v[1]
  <2>1. Len(m) \in 1..Len(m) /\ m \in Seq(SpansOf(n))
    BY <1>6 DEF InTurn
  <2>2. m[Len(m)] \in SpansOf(n) /\ v \in SpansOf(n)
    BY <1>1, <2>1
  <2>3. m[Len(m)][1] \in Nat /\ v[1] \in Nat /\ t[1] \in Nat /\ t[1] <= v[1]
    BY <1>2, <1>5, <2>2, SpanIsPair
  <2> QED BY <1>6, <2>3
<1>8. ASSUME NEW x \in Nat
      PROVE  (\E v \in S : Holds(v, x)) <=>
                (\E v \in s.left \ {t} : Holds(v, x)) \/ (\E k \in 1..Len(m) : Holds(m[k], x))
  <2>1. (\E v \in S : Holds(v, x)) <=>
            (\E v \in s.left : Holds(v, x)) \/ (\E k \in 1..Len(s.merged) : Holds(s.merged[k], x))
    BY DEF Merging
  <2>2. (\E v \in s.left : Holds(v, x)) <=> (\E v \in s.left \ {t} : Holds(v, x)) \/ Holds(t, x)
    BY <1>2
  <2> QED BY <1>6, <2>1, <2>2
<1> QED BY <1>3, <1>4, <1>6, <1>7, <1>8 DEF Merging

\* What merging makes of a set of spans: spans one after the other that hold the same bars.
LEMMA MergedSpans ==
    ASSUME NEW n \in Nat, NEW S \in SUBSET SpansOf(n), IsFiniteSet(S)
    PROVE  /\ InTurn(Merged(S), n)
           /\ \A x \in Nat : (\E t \in S : Holds(t, x)) <=> \E k \in 1..Len(Merged(S)) : Holds(Merged(S)[k], x)
<1> DEFINE last == Cardinality(S)
           table == CHOOSE g_ : MergeTable(S, last, g_)
<1>1. last \in Nat
  BY FS_CardinalityType
<1>2. MergeTable(S, last, table)
  BY <1>1, MergeTableExists
<1>3. Merged(S) = table[last].merged
  BY DEF Merged, MergeTable, FirstMerge, NextMerge
<1> HIDE DEF last, table
<1> DEFINE bad == {k \in 0..last : ~Merging(table[k], S, n, last - k)}
<1>4. \A k \in 0..last : table[k] = IF k = 0 THEN FirstMerge(S) ELSE NextMerge(table[k - 1])
  BY <1>2 DEF MergeTable
<1>5. Merging(FirstMerge(S), S, n, last)
  <2>1. InTurn(<<>>, n) /\ Len(<<>>) = 0
    BY DEF InTurn
  <2> QED BY <2>1 DEF Merging, FirstMerge, last
<1>6. bad = {}
  <2>1. SUFFICES ASSUME bad # {} PROVE FALSE
    OBVIOUS
  <2> bad \in SUBSET Nat
    BY <1>1
  <2>2. PICK k \in bad : \A j \in bad : k <= j
    BY <2>1, HasLeast
  <2>3. k \in 0..last /\ ~Merging(table[k], S, n, last - k)
    BY <2>2
  <2>4. k # 0
    <3>1. table[0] = FirstMerge(S) /\ last - 0 = last
      BY <1>1, <1>4
    <3> QED BY <1>5, <2>3, <3>1
  <2> HIDE DEF bad
  <2>5. k - 1 \in 0..last /\ k - 1 \notin bad
    BY <1>1, <2>2, <2>3, <2>4
  <2>6. Merging(table[k - 1], S, n, last - (k - 1))
    BY <2>5 DEF bad
  <2>7. last - (k - 1) \in Nat \ {0} /\ (last - (k - 1)) - 1 = last - k
    BY <1>1, <2>3, <2>4
  <2>8. Merging(NextMerge(table[k - 1]), S, n, (last - (k - 1)) - 1)
    BY <2>6, <2>7, MergeKeeps
  <2>9. table[k] = NextMerge(table[k - 1])
    BY <1>4, <2>3, <2>4
  <2> QED BY <2>3, <2>7, <2>8, <2>9
<1>7. Merging(table[last], S, n, last - last)
  BY <1>1, <1>6
<1>8. table[last].left = {}
  <2>1. Cardinality(table[last].left) = 0 /\ IsFiniteSet(table[last].left)
    BY <1>1, <1>7 DEF Merging
  <2> QED BY <2>1, FS_EmptySet
<1>9. \A x \in Nat : (\E t \in S : Holds(t, x)) <=>
                        \E k \in 1..Len(table[last].merged) : Holds(table[last].merged[k], x)
  BY <1>7, <1>8 DEF Merging
<1> QED BY <1>3, <1>7, <1>9 DEF Merging

-----------------------------------------------------------------------------
(* Cross-validation: the complement, the embargo and the warm-up             *)

\* A gap: from the end of a span, or the first bar, to the start of the next, or the end.
GapStart(m, k) == IF k = 0 THEN 0 ELSE m[k][2]
GapEnd(m, n, k) == IF k = Len(m) THEN n ELSE m[k + 1][1]
IsGap(m, n, s, k) == k \in 0..Len(m) /\ s = <<GapStart(m, k), GapEnd(m, n, k)>> /\ GapStart(m, k) < GapEnd(m, n, k)

LEMMA GapsAre ==
    ASSUME NEW n, NEW m, NEW s
    PROVE  s \in ComplementSpans(n, m) <=> \E k \in 0..Len(m) : IsGap(m, n, s, k)
BY DEF ComplementSpans, IsGap, GapStart, GapEnd

LEMMA EdgesRise ==
    ASSUME NEW n \in Nat, NEW m, InTurn(m, n)
    PROVE  /\ \A k \in 0..Len(m) : GapStart(m, k) \in Nat /\ GapEnd(m, n, k) \in Nat
                                   /\ GapStart(m, k) <= n /\ GapEnd(m, n, k) <= n
           /\ \A j \in 1..Len(m), k \in 0..Len(m) : j <= k => m[j][2] <= GapStart(m, k)
           /\ \A j \in 1..Len(m), k \in 0..Len(m) : k < j => GapEnd(m, n, k) <= m[j][1]
           /\ \A j, k \in 0..Len(m) : j < k => GapEnd(m, n, j) < GapStart(m, k)
<1>1. /\ Len(m) \in Nat /\ \A k \in 1..Len(m) : m[k] \in SpansOf(n)
      /\ \A j, k \in 1..Len(m) : j < k => m[j][2] < m[k][1]
  BY DEF InTurn
<1>2. \A k \in 1..Len(m) : m[k][1] \in Nat /\ m[k][2] \in Nat /\ m[k][1] < m[k][2] /\ m[k][2] <= n
  BY <1>1, SpanIsPair
<1>3. ASSUME NEW k \in 0..Len(m)
      PROVE  GapStart(m, k) \in Nat /\ GapEnd(m, n, k) \in Nat /\ GapStart(m, k) <= n /\ GapEnd(m, n, k) <= n
  <2>1. k = 0 \/ k \in 1..Len(m)
    BY <1>1
  <2>2. k = Len(m) \/ k + 1 \in 1..Len(m)
    BY <1>1
  <2>3. GapStart(m, k) \in Nat /\ GapStart(m, k) <= n
    BY <1>2, <2>1 DEF GapStart
  <2>4. GapEnd(m, n, k) \in Nat /\ GapEnd(m, n, k) <= n
    BY <1>2, <2>2 DEF GapEnd
  <2> QED BY <2>3, <2>4
<1>4. ASSUME NEW j \in 1..Len(m), NEW k \in 0..Len(m), j <= k PROVE m[j][2] <= GapStart(m, k)
  <2>1. k \in 1..Len(m) /\ GapStart(m, k) = m[k][2]
    BY <1>1, <1>4 DEF GapStart
  <2>2. CASE j = k
    BY <1>2, <2>1, <2>2
  <2>3. CASE j # k
    <3>1. m[j][2] < m[k][1]
      BY <1>1, <1>4, <2>1, <2>3
    <3> QED BY <1>2, <2>1, <3>1
  <2> QED BY <2>2, <2>3
<1>5. ASSUME NEW j \in 1..Len(m), NEW k \in 0..Len(m), k < j PROVE GapEnd(m, n, k) <= m[j][1]
  <2>1. k + 1 \in 1..Len(m) /\ GapEnd(m, n, k) = m[k + 1][1]
    BY <1>1, <1>5 DEF GapEnd
  <2>2. CASE j = k + 1
    BY <1>2, <2>1, <2>2
  <2>3. CASE j # k + 1
    <3>1. m[k + 1][2] < m[j][1]
      BY <1>1, <1>5, <2>1, <2>3
    <3> QED BY <1>2, <2>1, <3>1
  <2> QED BY <2>2, <2>3
<1>6. ASSUME NEW j \in 0..Len(m), NEW k \in 0..Len(m), j < k PROVE GapEnd(m, n, j) < GapStart(m, k)
  <2>1. k \in 1..Len(m) /\ GapStart(m, k) = m[k][2]
    BY <1>1, <1>6 DEF GapStart
  <2>2. GapEnd(m, n, j) <= m[k][1]
    BY <1>5, <1>6, <2>1
  <2> QED BY <1>2, <1>3, <2>1, <2>2
<1> QED BY <1>3, <1>4, <1>5, <1>6

LEMMA GapsAreSpans ==
    ASSUME NEW n \in Nat, NEW m, InTurn(m, n)
    PROVE  ComplementSpans(n, m) \in SUBSET SpansOf(n)
<1>1. ASSUME NEW s \in ComplementSpans(n, m) PROVE s \in SpansOf(n)
  <2>1. PICK k \in 0..Len(m) : IsGap(m, n, s, k)
    BY GapsAre
  <2>2. GapStart(m, k) \in Nat /\ GapEnd(m, n, k) \in Nat /\ GapEnd(m, n, k) <= n
    BY EdgesRise
  <2> QED BY <2>1, <2>2 DEF IsGap, SpansOf
<1> QED BY <1>1

\* Two gaps, two spans, or a gap and a span hold no bar together; every bar is in one of them.
LEMMA GapsMiss ==
    ASSUME NEW n \in Nat, NEW m, InTurn(m, n), NEW s \in ComplementSpans(n, m), NEW x \in Nat, Holds(s, x)
    PROVE  /\ \A k \in 1..Len(m) : ~Holds(m[k], x)
           /\ \A t \in ComplementSpans(n, m) : Holds(t, x) => t = s
<1>1. PICK k \in 0..Len(m) : IsGap(m, n, s, k)
  BY GapsAre
<1>2. GapStart(m, k) <= x /\ x < GapEnd(m, n, k) /\ GapStart(m, k) \in Nat /\ GapEnd(m, n, k) \in Nat
  BY <1>1, EdgesRise DEF IsGap, Holds
<1>0. Len(m) \in Nat /\ \A j \in 1..Len(m) : m[j] \in SpansOf(n)
  BY DEF InTurn
<1>3. ASSUME NEW j \in 1..Len(m), Holds(m[j], x) PROVE FALSE
  <2>1. m[j][1] \in Nat /\ m[j][2] \in Nat /\ m[j][1] <= x /\ x < m[j][2]
    BY <1>0, <1>3, SpanIsPair DEF Holds
  <2>2. CASE j <= k
    <3>1. m[j][2] <= GapStart(m, k)
      BY <2>2, EdgesRise
    <3> QED BY <1>2, <2>1, <3>1
  <2>3. CASE k < j
    <3>1. GapEnd(m, n, k) <= m[j][1]
      BY <2>3, EdgesRise
    <3> QED BY <1>2, <2>1, <3>1
  <2> QED BY <1>0, <2>2, <2>3
<1>4. ASSUME NEW t \in ComplementSpans(n, m), Holds(t, x) PROVE t = s
  <2>1. PICK j \in 0..Len(m) : IsGap(m, n, t, j)
    BY GapsAre
  <2>2. GapStart(m, j) <= x /\ x < GapEnd(m, n, j) /\ GapStart(m, j) \in Nat /\ GapEnd(m, n, j) \in Nat
    BY <1>4, <2>1, EdgesRise DEF IsGap, Holds
  <2>3. CASE j < k
    <3>1. GapEnd(m, n, j) < GapStart(m, k)
      BY <2>3, EdgesRise
    <3> QED BY <1>2, <2>2, <3>1
  <2>4. CASE k < j
    <3>1. GapEnd(m, n, k) < GapStart(m, j)
      BY <2>4, EdgesRise
    <3> QED BY <1>2, <2>2, <3>1
  <2>5. CASE j = k
    BY <1>1, <2>1, <2>5 DEF IsGap
  <2> QED BY <1>0, <2>3, <2>4, <2>5
<1> QED BY <1>3, <1>4

LEMMA SpansMiss ==
    ASSUME NEW n \in Nat, NEW m, InTurn(m, n), NEW j \in 1..Len(m), NEW k \in 1..Len(m), j # k,
           NEW x \in Nat, Holds(m[j], x), Holds(m[k], x)
    PROVE  FALSE
<1>1. Len(m) \in Nat /\ m[j] \in SpansOf(n) /\ m[k] \in SpansOf(n)
  BY DEF InTurn
<1>2. /\ m[j][1] \in Nat /\ m[j][2] \in Nat /\ m[k][1] \in Nat /\ m[k][2] \in Nat
  BY <1>1, SpanIsPair
<1>3. j < k \/ k < j
  BY <1>1
<1>4. m[j][2] < m[k][1] \/ m[k][2] < m[j][1]
  BY <1>3 DEF InTurn
<1> QED BY <1>2, <1>4 DEF Holds

LEMMA GapsCover ==
    ASSUME NEW n \in Nat, NEW m, InTurn(m, n), NEW x \in Nat, x < n
    PROVE  (\E k \in 1..Len(m) : Holds(m[k], x)) \/ \E s \in ComplementSpans(n, m) : Holds(s, x)
<1>0. Len(m) \in Nat /\ \A j \in 1..Len(m) : m[j] \in SpansOf(n)
  BY DEF InTurn
<1> DEFINE before == {k \in 0..Len(m) : GapStart(m, k) <= x}
<1>1. before \in SUBSET Int /\ 0 \in before /\ \A k \in before : k <= Len(m)
  BY <1>0 DEF GapStart
<1>2. PICK k \in before : \A j \in before : j <= k
  <2> HIDE DEF before
  <2>1. before # {} /\ Len(m) \in Int
    BY <1>0, <1>1
  <2> QED BY <1>1, <2>1, HasGreatest
<1>3. k \in 0..Len(m) /\ GapStart(m, k) <= x
  BY <1>2
<1> DEFINE gap == <<GapStart(m, k), GapEnd(m, n, k)>>
<1>4. GapStart(m, k) \in Nat /\ GapEnd(m, n, k) \in Nat
  BY <1>3, EdgesRise
<1>5. CASE x < GapEnd(m, n, k)
  <2>1. GapStart(m, k) < GapEnd(m, n, k)
    BY <1>3, <1>4, <1>5
  <2>2. gap \in ComplementSpans(n, m)
    BY <1>3, <2>1, GapsAre DEF IsGap
  <2>3. Holds(gap, x)
    BY <1>3, <1>5 DEF Holds
  <2> QED BY <2>2, <2>3
<1>6. CASE ~(x < GapEnd(m, n, k))
  <2>1. k # Len(m)
    BY <1>6 DEF GapEnd
  <2>2. k + 1 \in 1..Len(m) /\ k + 1 \in 0..Len(m) /\ GapEnd(m, n, k) = m[k + 1][1]
    BY <1>0, <1>3, <2>1 DEF GapEnd
  <2>3. k + 1 \notin before
    BY <1>2, <1>3
  <2>4. GapStart(m, k + 1) = m[k + 1][2] /\ ~(GapStart(m, k + 1) <= x)
    <3>1. k + 1 # 0
      BY <1>3
    <3> QED BY <2>2, <2>3, <3>1 DEF GapStart
  <2>5. m[k + 1][1] \in Nat /\ m[k + 1][2] \in Nat
    BY <1>0, <2>2, SpanIsPair
  <2>6. Holds(m[k + 1], x)
    BY <1>6, <2>2, <2>4, <2>5 DEF Holds
  <2> QED BY <2>2, <2>6
<1> QED BY <1>5, <1>6

-----------------------------------------------------------------------------
(* Cross-validation: what a fold reads and keeps                             *)

\* The shape of a fold that passed the argument checks.
Shape(f) ==
    /\ f.n \in Nat \ {0} /\ f.splits \in Nat \ {0} /\ f.n \div f.splits >= 1
    /\ f.test \in SUBSET (0..(f.splits - 1))
    /\ f.embargo \in Nat /\ f.warmup \in Nat /\ f.purge \in Nat

LEMMA PartsFit ==
    ASSUME NEW n \in Nat \ {0}, NEW k \in Nat \ {0}
    PROVE  n \div k \in Nat /\ k * (n \div k) <= n
<1> DEFINE q == n \div k
<1>1. q \in Int /\ q >= 0 /\ k * q <= n
  OBVIOUS
<1> QED BY <1>1

LEMMA BlockIsSpan ==
    ASSUME NEW n \in Nat \ {0}, NEW k \in Nat \ {0}, n \div k >= 1, NEW b \in 0..(k - 1)
    PROVE  BlockEdge(n, k, b) \in SpansOf(n)
<1> DEFINE size == n \div k
<1>1. size \in Nat /\ size >= 1 /\ k * size <= n
  BY PartsFit
<1>2. b * size \in Nat /\ (b + 1) * size = b * size + size /\ (b + 1) * size <= k * size
  <2>1. \A p, q, r \in Nat : p <= q => p * r <= q * r
    BY Z3
  <2>2. size \in Nat /\ b + 1 <= k /\ b \in Nat /\ b + 1 \in Nat
    BY <1>1
  <2> HIDE DEF size
  <2> QED BY <2>1, <2>2
<1> HIDE DEF size
<1>3. k * size \in Nat
  BY <1>1
<1>4. BlockEdge(n, k, b)[1] = b * size
  BY DEF BlockEdge, size
<1>5. BlockEdge(n, k, b)[2] = IF b = k - 1 THEN n ELSE (b + 1) * size
  BY DEF BlockEdge, size
<1>6. BlockEdge(n, k, b) = <<BlockEdge(n, k, b)[1], BlockEdge(n, k, b)[2]>>
  BY DEF BlockEdge
<1>7. b * size < n /\ b * size < (b + 1) * size /\ (b + 1) * size <= n
  BY <1>1, <1>2, <1>3
<1>8. BlockEdge(n, k, b)[1] \in Nat /\ BlockEdge(n, k, b)[1] < n
  BY <1>2, <1>4, <1>7
<1>9. BlockEdge(n, k, b)[2] \in Nat /\ BlockEdge(n, k, b)[2] <= n /\ BlockEdge(n, k, b)[1] < BlockEdge(n, k, b)[2]
  <2>1. CASE b = k - 1
    BY <1>4, <1>5, <1>7, <2>1
  <2>2. CASE b # k - 1
    <3>1. (b + 1) * size \in Nat
      BY <1>1, <1>2
    <3> QED BY <1>4, <1>5, <1>7, <2>2, <3>1
  <2> QED BY <2>1, <2>2
<1> QED BY <1>6, <1>8, <1>9 DEF SpansOf

\* A block with the embargo on both sides, cut to the frame.
Wide(f, b) ==
    <<Max({0, BlockEdge(f.n, f.splits, b)[1] - f.embargo}), Min({f.n, BlockEdge(f.n, f.splits, b)[2] + f.embargo})>>

LEMMA WideHolds ==
    ASSUME NEW f, Shape(f), NEW b \in f.test
    PROVE  /\ Wide(f, b) \in SpansOf(f.n)
           /\ \A x, y \in Nat : /\ Holds(BlockEdge(f.n, f.splits, b), x) /\ y < f.n
                                /\ y - x <= f.embargo /\ x - y <= f.embargo
                                => Holds(Wide(f, b), y)
<1> DEFINE lo == BlockEdge(f.n, f.splits, b)[1]
           hi == BlockEdge(f.n, f.splits, b)[2]
<1>1. BlockEdge(f.n, f.splits, b) \in SpansOf(f.n)
  <2>1. b \in 0..(f.splits - 1)
    BY DEF Shape
  <2> QED BY <2>1, BlockIsSpan DEF Shape
<1>2. lo \in Nat /\ hi \in Nat /\ lo < hi /\ hi <= f.n /\ f.n \in Nat /\ f.embargo \in Nat
  BY <1>1, SpanIsPair DEF Shape
<1> HIDE DEF lo, hi
<1>3. Max({0, lo - f.embargo}) = IF 0 >= lo - f.embargo THEN 0 ELSE lo - f.embargo
  <2>1. lo - f.embargo \in Int /\ 0 \in Int
    BY <1>2
  <2> QED BY <2>1, MaxOfTwo
<1>4. Min({f.n, hi + f.embargo}) = IF f.n <= hi + f.embargo THEN f.n ELSE hi + f.embargo
  <2>1. hi + f.embargo \in Int /\ f.n \in Int
    BY <1>2
  <2> QED BY <2>1, MinOfTwo
<1> DEFINE from == Max({0, lo - f.embargo})
           to == Min({f.n, hi + f.embargo})
<1>5. Wide(f, b) = <<from, to>>
  BY DEF Wide, lo, hi
<1>6. from \in Nat /\ to \in Nat /\ from < to /\ to <= f.n
  BY <1>2, <1>3, <1>4
<1>7. ASSUME NEW x \in Nat, NEW y \in Nat, lo <= x, x < hi, y < f.n, y - x <= f.embargo, x - y <= f.embargo
      PROVE  from <= y /\ y < to
  BY <1>2, <1>3, <1>4, <1>7
<1> HIDE DEF from, to
<1>8. Wide(f, b) \in SpansOf(f.n)
  BY <1>5, <1>6 DEF SpansOf
<1>9. ASSUME NEW x \in Nat, NEW y \in Nat, Holds(BlockEdge(f.n, f.splits, b), x), y < f.n,
             y - x <= f.embargo, x - y <= f.embargo
      PROVE  Holds(Wide(f, b), y)
  BY <1>5, <1>7, <1>9 DEF Holds, lo, hi
<1> QED BY <1>8, <1>9

LEMMA WidenedSpans ==
    ASSUME NEW f, Shape(f)
    PROVE  /\ Widened(f.n, f.splits, f.test, f.embargo) \in SUBSET SpansOf(f.n)
           /\ IsFiniteSet(Widened(f.n, f.splits, f.test, f.embargo))
<1>1. Widened(f.n, f.splits, f.test, f.embargo) = {Wide(f, b) : b \in f.test}
  BY DEF Widened, Wide
<1>2. Widened(f.n, f.splits, f.test, f.embargo) \in SUBSET SpansOf(f.n)
  BY <1>1, WideHolds
<1>3. f.n \in Nat
  BY DEF Shape
<1>4. SpansOf(f.n) \subseteq (0..f.n) \X (0..f.n)
  <2>1. ASSUME NEW s \in SpansOf(f.n) PROVE s \in (0..f.n) \X (0..f.n)
    <3>1. s = <<s[1], s[2]>> /\ s[1] \in Nat /\ s[2] \in Nat /\ s[1] < s[2] /\ s[2] <= f.n
      BY SpanIsPair
    <3>2. s[1] \in 0..f.n /\ s[2] \in 0..f.n
      BY <1>3, <3>1
    <3> QED BY <3>1, <3>2
  <2> QED BY <2>1
<1>5. IsFiniteSet((0..f.n) \X (0..f.n))
  <2>1. IsFiniteSet(0..f.n)
    BY <1>3, FS_Interval
  <2> QED BY <2>1, FS_Product
<1> QED BY <1>2, <1>4, <1>5, FS_Subset

\* The spans of a fold, as sequences and sets.
TestSeq(f) == EmbargoedTestSpans(f.n, f.splits, f.test, f.embargo)

LEMMA FoldSpans ==
    ASSUME NEW f, Shape(f)
    PROVE  /\ InTurn(TestSeq(f), f.n) /\ f.n \in Nat
           /\ TestSpans(f) = {TestSeq(f)[k] : k \in 1..Len(TestSeq(f))}
           /\ TrainSpans(f) = ComplementSpans(f.n, TestSeq(f))
           /\ TestSpans(f) \in SUBSET SpansOf(f.n) /\ TrainSpans(f) \in SUBSET SpansOf(f.n)
           /\ \A x \in Nat : (\E b \in f.test : Holds(Wide(f, b), x)) <=>
                                \E k \in 1..Len(TestSeq(f)) : Holds(TestSeq(f)[k], x)
<1>1. f.n \in Nat
  BY DEF Shape
<1>2. InTurn(TestSeq(f), f.n) /\ \A x \in Nat : (\E t \in Widened(f.n, f.splits, f.test, f.embargo) : Holds(t, x)) <=>
                                                   \E k \in 1..Len(TestSeq(f)) : Holds(TestSeq(f)[k], x)
  BY <1>1, WidenedSpans, MergedSpans DEF TestSeq, EmbargoedTestSpans
<1>3. Widened(f.n, f.splits, f.test, f.embargo) = {Wide(f, b) : b \in f.test}
  BY DEF Widened, Wide
<1>4. \A x \in Nat : (\E b \in f.test : Holds(Wide(f, b), x)) <=>
                        \E k \in 1..Len(TestSeq(f)) : Holds(TestSeq(f)[k], x)
  BY <1>2, <1>3
<1>5. TestSeq(f) \in Seq(SpansOf(f.n)) /\ DOMAIN TestSeq(f) = 1..Len(TestSeq(f))
  BY <1>2 DEF InTurn
<1>6. TestSpans(f) = {TestSeq(f)[k] : k \in 1..Len(TestSeq(f))}
  BY <1>5 DEF TestSpans, TestSeq, ToSet
<1>7. TestSpans(f) \in SUBSET SpansOf(f.n)
  BY <1>5, <1>6
<1>8. TrainSpans(f) = ComplementSpans(f.n, TestSeq(f))
  BY DEF TrainSpans, TestSeq
<1> QED BY <1>1, <1>2, <1>4, <1>6, <1>7, <1>8, GapsAreSpans

LEMMA BarIsOnce ==
    ASSUME NEW f, Shape(f), NEW a \in TestSpans(f) \cup TrainSpans(f), NEW b \in TestSpans(f) \cup TrainSpans(f),
           NEW x \in Nat, Holds(a, x), Holds(b, x)
    PROVE  a = b /\ (a \in TrainSpans(f) => b \notin TestSpans(f))
<1> DEFINE m == TestSeq(f)
<1>1. /\ InTurn(m, f.n) /\ f.n \in Nat /\ TestSpans(f) = {m[k] : k \in 1..Len(m)}
      /\ TrainSpans(f) = ComplementSpans(f.n, m)
  BY FoldSpans
<1> HIDE DEF m
<1>2. ASSUME NEW s \in TrainSpans(f), NEW t \in TestSpans(f), Holds(s, x), Holds(t, x) PROVE FALSE
  <2>1. PICK k \in 1..Len(m) : t = m[k]
    BY <1>1
  <2>2. ~Holds(m[k], x)
    BY <1>1, <1>2, GapsMiss
  <2> QED BY <1>2, <2>1, <2>2
<1>3. CASE a \in TrainSpans(f) /\ b \in TrainSpans(f)
  <2>1. b = a
    BY <1>1, <1>3, GapsMiss
  <2>2. b \notin TestSpans(f)
    BY <1>2, <1>3
  <2> QED BY <2>1, <2>2
<1>4. CASE a \in TestSpans(f) /\ b \in TestSpans(f)
  <2>1. PICK j \in 1..Len(m) : a = m[j]
    BY <1>1, <1>4
  <2>2. PICK k \in 1..Len(m) : b = m[k]
    BY <1>1, <1>4
  <2>3. j = k
    BY <1>1, <2>1, <2>2, SpansMiss
  <2>4. a \notin TrainSpans(f)
    BY <1>2, <1>4
  <2> QED BY <2>1, <2>2, <2>3, <2>4
<1> QED BY <1>2, <1>3, <1>4

LEMMA WarmupIsClear ==
    ASSUME NEW start \in Nat, NEW warmup \in Nat, NEW interior
    PROVE  /\ WarmupAllowed(start, warmup, interior) \in Nat
           /\ \A x \in (start - WarmupAllowed(start, warmup, interior))..(start - 1) : x >= 0 /\ x \notin interior
<1> DEFINE T == {w \in 0..warmup : \A j \in 1..w : start - j >= 0 /\ start - j \notin interior}
<1>1. T \in SUBSET Int /\ 0 \in T /\ \A w \in T : w <= warmup
  OBVIOUS
<1>2. PICK w \in T : \A v \in T : v <= w
  <2> HIDE DEF T
  <2>1. T # {} /\ warmup \in Int
    BY <1>1
  <2> QED BY <1>1, <2>1, HasGreatest
<1>3. Max(T) = w
  <2> HIDE DEF T
  <2> QED BY <1>1, <1>2, MaxIs
<1>4. WarmupAllowed(start, warmup, interior) = w
  BY <1>3 DEF WarmupAllowed
<1>5. w \in Nat /\ \A j \in 1..w : start - j >= 0 /\ start - j \notin interior
  BY <1>2
<1>6. ASSUME NEW x \in (start - w)..(start - 1) PROVE x >= 0 /\ x \notin interior
  <2>1. start - x \in 1..w /\ start - (start - x) = x
    BY <1>5, <1>6
  <2> QED BY <1>5, <2>1
<1> QED BY <1>4, <1>5, <1>6

LEMMA TestBars ==
    ASSUME NEW f, Shape(f), NEW x
    PROVE  x \in TestInterior(f.n, f.splits, f.test) <=>
              x \in Nat /\ \E b \in f.test : Holds(BlockEdge(f.n, f.splits, b), x)
<1> DEFINE blocks == {BlockEdge(f.n, f.splits, b) : b \in f.test}
<1>1. blocks \in SUBSET SpansOf(f.n)
  <2>1. \A b \in f.test : b \in 0..(f.splits - 1)
    BY DEF Shape
  <2> QED BY <2>1, BlockIsSpan DEF Shape
<1>2. TestInterior(f.n, f.splits, f.test) = Bars(blocks)
  BY DEF TestInterior
<1>3. x \in Bars(blocks) <=> x \in Int /\ \E s \in blocks : Holds(s, x)
  <2> HIDE DEF blocks
  <2> QED BY <1>1, BarsAre
<1>4. ASSUME NEW s \in blocks, Holds(s, x), x \in Int PROVE x \in Nat
  <2>1. s[1] \in Nat
    BY <1>1, SpanIsPair
  <2> QED BY <1>4, <2>1 DEF Holds
<1> QED BY <1>2, <1>3, <1>4

\* A bar within the embargo of a test bar is in no train span.
LEMMA EmbargoKeepsAway ==
    ASSUME NEW f, Shape(f), NEW s \in TrainSpans(f), NEW y \in Nat, Holds(s, y),
           NEW x \in TestInterior(f.n, f.splits, f.test)
    PROVE  y - x > f.embargo \/ x - y > f.embargo
<1> SUFFICES ASSUME y - x <= f.embargo, x - y <= f.embargo PROVE FALSE
  <2>1. x \in Nat /\ f.embargo \in Nat
    BY TestBars DEF Shape
  <2> QED BY <2>1
<1>1. x \in Nat
  BY TestBars
<1>2. PICK b \in f.test : Holds(BlockEdge(f.n, f.splits, b), x)
  BY TestBars
<1>3. InTurn(TestSeq(f), f.n) /\ s \in ComplementSpans(f.n, TestSeq(f)) /\ f.n \in Nat /\ s \in SpansOf(f.n)
  BY FoldSpans
<1>4. y < f.n
  <2>1. s[2] \in Nat /\ s[2] <= f.n /\ y < s[2]
    BY <1>3, SpanIsPair DEF Holds
  <2> QED BY <1>3, <2>1
<1>5. Holds(Wide(f, b), y)
  BY <1>1, <1>2, <1>4, WideHolds
<1>6. \E k \in 1..Len(TestSeq(f)) : Holds(TestSeq(f)[k], y)
  BY <1>5, FoldSpans
<1> QED BY <1>3, <1>6, GapsMiss

LEMMA ShapeIsHonest ==
    ASSUME fold.n > 0, Shape(fold)
    PROVE  TrainingNeverSeesTest
<1> DEFINE f == fold
           test == TestInterior(f.n, f.splits, f.test)
           m == TestSeq(f)
<1>1. /\ InTurn(m, f.n) /\ f.n \in Nat /\ TestSpans(f) = {m[k] : k \in 1..Len(m)}
      /\ TrainSpans(f) = ComplementSpans(f.n, m)
      /\ TestSpans(f) \in SUBSET SpansOf(f.n) /\ TrainSpans(f) \in SUBSET SpansOf(f.n)
  BY FoldSpans
<1> HIDE DEF m
<1>2. ASSUME NEW S \in SUBSET SpansOf(f.n), NEW x
      PROVE  x \in Bars(S) <=> x \in 0..(f.n - 1) /\ \E s \in S : Holds(s, x)
  <2>1. ASSUME NEW s \in S, x \in Int, Holds(s, x) PROVE x \in 0..(f.n - 1)
    <3>1. s[1] \in Nat /\ s[2] \in Nat /\ s[2] <= f.n
      BY SpanIsPair
    <3> QED BY <1>1, <2>1, <3>1 DEF Holds
  <2>2. x \in 0..(f.n - 1) => x \in Int
    OBVIOUS
  <2> QED BY <2>1, <2>2, BarsAre
<1>3. \A x \in 0..(f.n - 1) : x \in Nat /\ x < f.n
  BY <1>1
<1>4. Bars(TrainSpans(f)) \cup Bars(TestSpans(f)) = 0..(f.n - 1)
  <2>1. \A x \in 0..(f.n - 1) : \/ \E s \in TrainSpans(f) : Holds(s, x)
                                \/ \E s \in TestSpans(f) : Holds(s, x)
    BY <1>1, <1>3, GapsCover
  <2> QED BY <1>1, <1>2, <2>1
<1>5. Bars(TrainSpans(f)) \cap Bars(TestSpans(f)) = {}
  <2>1. ASSUME NEW x, x \in Bars(TrainSpans(f)), x \in Bars(TestSpans(f)) PROVE FALSE
    <3>1. x \in 0..(f.n - 1)
      BY <1>1, <1>2, <2>1
    <3>2. PICK s \in TrainSpans(f) : Holds(s, x)
      BY <1>1, <1>2, <2>1
    <3>3. PICK t \in TestSpans(f) : Holds(t, x)
      BY <1>1, <1>2, <2>1
    <3> QED BY <1>3, <3>1, <3>2, <3>3, BarIsOnce
  <2> QED BY <2>1
<1>6. ASSUME NEW a \in TestSpans(f) \cup TrainSpans(f), NEW b \in TestSpans(f) \cup TrainSpans(f), a # b
      PROVE  Bars({a}) \cap Bars({b}) = {}
  <2>0. {a} \in SUBSET SpansOf(f.n) /\ {b} \in SUBSET SpansOf(f.n)
    BY <1>1
  <2>1. ASSUME NEW x, x \in Bars({a}), x \in Bars({b}) PROVE FALSE
    <3>1. x \in 0..(f.n - 1) /\ Holds(a, x) /\ Holds(b, x)
      BY <2>0, <1>2, <2>1
    <3> QED BY <1>3, <1>6, <3>1, BarIsOnce
  <2> QED BY <2>1
<1>7. ASSUME NEW span \in TrainSpans(f) PROVE Reads(f, span) \cap test = {}
  <2>0. span \in SpansOf(f.n) /\ span[1] \in Nat /\ span[2] \in Nat /\ span[1] < span[2]
    BY <1>1, SpanIsPair
  <2> DEFINE warm == WarmupAllowed(span[1], f.warmup, test)
  <2>1. warm \in Nat /\ \A x \in (span[1] - warm)..(span[1] - 1) : x >= 0 /\ x \notin test
    BY <2>0, WarmupIsClear DEF Shape
  <2>2. Reads(f, span) = (span[1] - warm)..(span[2] - 1)
    BY DEF Reads
  <2> HIDE DEF warm
  <2>3. ASSUME NEW x \in (span[1] - warm)..(span[2] - 1), x \in test PROVE FALSE
    <3>1. CASE x < span[1]
      <4>1. x \in (span[1] - warm)..(span[1] - 1)
        BY <2>0, <2>1, <3>1
      <4> QED BY <2>1, <2>3, <4>1
    <3>2. CASE ~(x < span[1])
      <4>1. x \in Nat /\ Holds(span, x)
        BY <2>0, <2>1, <3>2 DEF Holds
      <4>2. x - x > f.embargo \/ x - x > f.embargo
        BY <2>3, <4>1, EmbargoKeepsAway
      <4>3. f.embargo \in Nat
        BY DEF Shape
      <4> QED BY <4>1, <4>2, <4>3
    <3> QED BY <3>1, <3>2
  <2> HIDE DEF test
  <2> QED BY <2>2, <2>3
<1>8. ASSUME NEW span \in TrainSpans(f), NEW t \in KeptTrades(f, span), NEW x \in test, NEW bar \in {t[1], t[2]}
      PROVE  bar - x > f.embargo \/ x - bar > f.embargo
  <2>0. span \in SpansOf(f.n) /\ span[1] \in Nat /\ span[2] \in Nat
    BY <1>1, SpanIsPair
  <2>1. t[1] \in span[1]..(span[2] - 1) /\ t[2] \in span[1]..(span[2] - 1)
    BY DEF KeptTrades
  <2>2. bar \in Nat /\ Holds(span, bar)
    BY <2>0, <2>1 DEF Holds
  <2> QED BY <2>2, EmbargoKeepsAway
<1> HIDE DEF test
<1>9. \A span \in TrainSpans(f) :
          /\ Reads(f, span) \cap test = {}
          /\ \A t \in KeptTrades(f, span), x \in test :
                \A bar \in {t[1], t[2]} : bar - x > f.embargo \/ x - bar > f.embargo
  BY <1>7, <1>8
<1> QED BY <1>4, <1>5, <1>6, <1>9 DEF TrainingNeverSeesTest, test

\* Between folds there is none; a fold under evaluation has passed the checks.
FoldInv == fold.n = 0 \/ Shape(fold)

LEMMA FoldKeeps == FoldInv /\ [CvNext]_fold => FoldInv'
<1> SUFFICES ASSUME FoldInv, [CvNext]_fold PROVE FoldInv'
  OBVIOUS
<1>1. CASE UNCHANGED fold
  BY <1>1 DEF FoldInv, Shape
<1>2. CASE CvNext
  <2>1. PICK n \in FrameSizes, k \in Splits, e \in Embargoes, w \in Warmups, p \in Purges :
           \E test \in kSubset(k \div 2, 0..(k - 1)) :
              /\ k >= 4 /\ n \div k >= 1
              /\ fold' = [n |-> n, splits |-> k, test |-> test, embargo |-> e, warmup |-> w, purge |-> p]
    BY <1>2 DEF CvNext, EvaluateFold
  <2>2. PICK test \in kSubset(k \div 2, 0..(k - 1)) :
              /\ k >= 4 /\ n \div k >= 1
              /\ fold' = [n |-> n, splits |-> k, test |-> test, embargo |-> e, warmup |-> w, purge |-> p]
    BY <2>1
  <2>3. n \in Nat /\ k \in Nat /\ e \in Nat /\ w \in Nat /\ p \in Nat
    BY FoldsAssumption
  <2>4. test \in SUBSET (0..(k - 1))
    BY DEF kSubset
  <2>5. n = 0 \/ n \in Nat \ {0}
    BY <2>3
  <2>6. k \in Nat \ {0}
    BY <2>2, <2>3
  <2> QED BY <2>2, <2>3, <2>4, <2>5, <2>6 DEF FoldInv, Shape
<1> QED BY <1>1, <1>2

\* pipeline.purged_cv_stage and optimizer.walk_forward, each at its own pace: for any frame, number of
\* blocks or windows, embargo, purge and warm-up: whatever a training run of cross-validation reads is
\* outside every test block, what it is scored on the embargo away from one, and the spans cover the
\* frame once; and what a walk-forward reports is out of sample.
THEOREM SelectionHolds == WalkSpec /\ CvSpec => []SelectionIsHonest
<1>1. CvInit => FoldInv
  BY DEF CvInit, FoldInv
<1>2. FoldInv => TrainingNeverSeesTest
  <2>1. fold.n = 0 => TrainingNeverSeesTest
    BY DEF TrainingNeverSeesTest
  <2>2. Shape(fold) => fold.n > 0
    BY DEF Shape
  <2> QED BY <2>1, <2>2, ShapeIsHonest DEF FoldInv
<1>3. CvSpec => []TrainingNeverSeesTest
  BY <1>1, <1>2, FoldKeeps, PTL DEF CvSpec
<1>4. TrainingNeverSeesTest /\ OutOfSampleIsOut => SelectionIsHonest
  BY DEF SelectionIsHonest
<1> QED BY <1>3, <1>4, OutOfSample, PTL
=============================================================================
