--------------------------- MODULE AllocationFile ---------------------------
(***************************************************************************)
(* in/allocation.json: the meta layer writes its decision, the Expert      *)
(* Advisor polls the file by its modification time and scales the lots of  *)
(* an entry (Allocation.mqh).  The writer and the reader meet only here.   *)
(***************************************************************************)
EXTENDS MetaLayer

CONSTANTS LastDay, MaxAge,   \* last day explored; ALLOCATION_STALE_DAYS
          BaseGate,          \* InpBaseGateWeight, in parts of ONE
          TradedId           \* the id of the advisor's own strategy

ASSUME AllocationAssumption == TradedId \in MetaIds /\ BaseGate \in 0..ONE

VARIABLES day,
          allocFile, mtime,  \* the file and the second it was last written in
          adviser            \* CAllocation: state, entries, time stamp of the file last read

allocationVars == <<day, allocFile, mtime, adviser>>

\* The document the writer emits, as the scanner meets it.
Document == <<"{", "quote", "body", "quote", ":", "object", ",",
              "quote", "digest", "quote", ":", "hash", "}">>

\* Position after the token, 0 when the text has something else there.
Expect(s, pos, token) == IF pos \in DOMAIN s /\ s[pos] = token THEN pos + 1 ELSE 0
ParseString(s, pos) ==
    LET opened == Expect(s, pos, "quote")
        closing == {k \in opened..Len(s) : s[k] = "quote"}
    IN  IF opened = 0 \/ closing = {} THEN 0 ELSE Min(closing) + 1
\* A member's key: Expect takes the opening quote, and ParseString expects it again.
ParseKey(s, pos) == ParseString(s, Expect(s, pos, "quote"))
ParseJson(f) ==
    /\ f.kind # "broken"
    /\ Expect(Document, ParseKey(Document, Expect(Document, 1, "{")), ":") # 0

Empty == [i \in {} |-> 0]
AllocationInit ==
    /\ day = 0 /\ allocFile = [kind |-> "missing"] /\ mtime = 0
    /\ adviser = [state |-> "MISSING", entries |-> Empty, mtime |-> -1]

\* write_allocation_file: an atomic replacement, in the same second or a later one.
WriteAllocation ==
    /\ decision # NoDecision
    /\ allocFile' = [kind |-> "decision", weights |-> [i \in DOMAIN decision.weights |-> decision.weights[i].weight],
                     computed |-> decision.day, activation |-> decision.activation]
    /\ mtime' \in {mtime, mtime + 1} /\ mtime' <= LastDay + 1
    /\ UNCHANGED <<day, adviser>>

DamageAllocation ==
    /\ allocFile.kind = "decision"
    /\ allocFile' \in {[kind |-> "missing"], [kind |-> "broken"]} /\ mtime' = mtime + 1 /\ mtime' <= LastDay + 1
    /\ UNCHANGED <<day, adviser>>

\* read_allocation_file: every malformation raises, age only flags.
ReadAllocation(f) == IF f.kind # "decision" THEN "refused"
                     ELSE IF day - f.computed > MaxAge THEN "stale" ELSE "fresh"

\* CAllocation.OnTimerPoll: parsing empties the entries before anything is accepted.
OnTimerPoll ==
    /\ adviser' =
          IF allocFile.kind = "missing" THEN [adviser EXCEPT !.state = "MISSING"]
          ELSE IF mtime = adviser.mtime THEN adviser
          ELSE IF ~ParseJson(allocFile)
               THEN [state |-> "MALFORMED", entries |-> Empty, mtime |-> mtime]
          ELSE [state |-> IF day - allocFile.computed > MaxAge THEN "STALE" ELSE "FRESH",
                entries |-> allocFile.weights, mtime |-> mtime]
    /\ UNCHANGED <<day, allocFile, mtime>>

\* CAllocation.WeightFor: only FRESH applies weights, and an unlisted id then gets none.
WeightFor(id) == IF adviser.state # "FRESH" THEN BaseGate
                 ELSE IF id \in DOMAIN adviser.entries THEN adviser.entries[id] ELSE 0

DayPasses == day < LastDay /\ day' = day + 1 /\ UNCHANGED <<allocFile, mtime, adviser>>

AllocationNext ==
    \/ MetaNext(day) /\ UNCHANGED allocationVars
    \/ (WriteAllocation \/ DamageAllocation \/ OnTimerPoll \/ DayPasses) /\ UNCHANGED metaVars

-----------------------------------------------------------------------------
(* What must hold. *)

\* The eligibility engine of MetaLayer.decide: whatever mode, fallback or change limit is in
\* force, an id that is not eligible has no weight, no leg and no say in a net or a vote.
NoWayAround ==
    decision.kind \notin {"never", "failure_safe"} =>
        /\ \A i \in MetaIds \ decision.eligible : decision.weights[i].weight = 0
        /\ decision.book.legs \subseteq decision.eligible
        /\ \A s \in DOMAIN decision.book.vote :
              decision.book.vote[s] # 0 => \E i \in decision.book.legs : SymbolOf[i] = s

\* The weights a state left by decision n holds.
WeightsAfter(n) == IF n = 0 THEN <<>>
                   ELSE [i \in DOMAIN past[n].weights |-> past[n].weights[i].weight]

\* MetaLayer._apply_modes and __init__: over restarts from whatever state file there is, of an
\* older decision or of another configuration, every decision moves a weight by at most
\* max_weight_change from what an earlier decision of the same configuration gave it, unless a
\* reason makes it zero at once or no earlier decision is left to start from.
ChangeIsLimited ==
    \A n \in DOMAIN past :
        LET now == past[n]
            was == WeightsAfter(now.from)
        IN  /\ now.from # 0 => past[now.from].config = now.config
            /\ \A i \in DOMAIN now.weights :
                  LET w == now.weights[i]
                  IN  \/ w.zero # "none" /\ w.weight = 0
                      \/ i \notin DOMAIN was
                      \/ w.weight - was[i] \in -now.config.change .. now.config.change

\* MetaLayer.__init__, _advance_state and deserialize: a layer that runs holds the weights and the
\* rung one decision of its own configuration left, however often it was saved, damaged, built
\* again or held in between; it never runs on a mixture or on another configuration's.
RunsOnOwnState ==
    layer.up =>
        /\ layer.weights = WeightsAfter(layer.after)
        /\ layer.after # 0 => /\ past[layer.after].config = config
                              /\ past[layer.after].activation = layer.recorded

\* meta_layer._apply_modes and the safe hold: what the allocation decides and remembers is sound.
AllocationSound == NoWayAround /\ ChangeIsLimited /\ RunsOnOwnState

\* docs/META_LAYER_CONTRACT.md: caps, constraints and the change limit only reduce or freeze.
GrossWithinCap ==
    decision.kind \notin {"never", "failure_safe"} =>
        Total([i \in DOMAIN decision.weights |-> decision.weights[i].weight], DOMAIN decision.weights)
            <= config.gross

\* Allocation.mqh: a whole file of at most ALLOCATION_STALE_DAYS is FRESH once it was polled.
FreshIsApplied ==
    adviser.mtime = mtime /\ ReadAllocation(allocFile) = "fresh" => adviser.state = "FRESH"
=============================================================================
