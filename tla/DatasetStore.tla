----------------------------- MODULE DatasetStore -----------------------------
(***************************************************************************)
(* The research data layer (data_layer.py): the audit, the explicit        *)
(* cleaning, and the store whose raw, clean and derived files each carry a *)
(* record of where they come from.  The record is written after the file,  *)
(* each over what was there, and the process may die in either or in       *)
(* between.  A frame stands for its digests.                               *)
(***************************************************************************)
EXTENDS Integers, Sequences, SequencesExt

CONSTANTS
    DataNames,  \* names of raw datasets
    Downloads,  \* frames a download may give: columns there, bars [at, form]
    MaxDeaths   \* bound on the crashes

VARIABLES
    files,      \* layer and name -> frame, of the files there
    metas,      \* layer and name -> record, of the records there, readable or not
    writing,    \* the operation whose file is written and whose record is not
    issued,     \* references given to backtests
    torn,       \* names whose clean file a crash once cut short (history)
    deaths

dataVars == <<files, metas, writing, issued, torn, deaths>>
-----------------------------------------------------------------------------
(* audit_ohlcv, clean_ohlcv                                                 *)

Hard == {"empty", "missing_columns", "duplicate_timestamp", "timestamp_disorder",
         "impossible_ohlc", "nonpositive_price", "nonfinite_price"}

Times(f) == [i \in DOMAIN f.bars |-> f.bars[i].at]
Forms(f) == {f.bars[i].form : i \in DOMAIN f.bars}
Spacings(f) == [i \in 1..(Len(f.bars) - 1) |-> f.bars[i + 1].at - f.bars[i].at]
Nth(s, n) == CHOOSE v \in {s[i] : i \in DOMAIN s} :
    Cardinality({i \in DOMAIN s : s[i] < v}) < n /\ n <= Cardinality({i \in DOMAIN s : s[i] <= v})
\* Twice the median.
TwiceMedian(s) == Nth(s, (Len(s) + 1) \div 2) + Nth(s, Len(s) \div 2 + 1)
HasGap(f) ==
    Len(f.bars) >= 3 /\ LET s == Spacings(f) IN TwiceMedian(s) > 0 /\ \E i \in DOMAIN s : 2 * s[i] > 3 * TwiceMedian(s)

Findings(f) ==
    IF f.bars = <<>> THEN {"empty"}
    ELSE IF ~f.columns THEN {"missing_columns"}
    ELSE (IF \E i, j \in DOMAIN f.bars : i # j /\ f.bars[i].at = f.bars[j].at THEN {"duplicate_timestamp"} ELSE {})
         \cup (IF \E i \in 2..Len(f.bars) : f.bars[i].at < f.bars[i - 1].at THEN {"timestamp_disorder"} ELSE {})
         \cup (Forms(f) \cap {"impossible_ohlc", "nonpositive_price", "nonfinite_price"})
         \cup (IF HasGap(f) THEN {"gap"} ELSE {})

Quality(f) == IF Findings(f) \cap Hard # {} THEN "CORRUPT" ELSE IF Findings(f) # {} THEN "WARNINGS" ELSE "OK"

\* _cleanable: all that may be promoted is an impossible high or low.
Cleanable(f) == Findings(f) \cap Hard \subseteq {"impossible_ohlc"}

\* Sorted, the first of equal times, the invalid prices dropped, high and low
\* clamped; gaps stay.
CleanBars(f) ==
    LET before(i, j) == f.bars[i].at < f.bars[j].at \/ (f.bars[i].at = f.bars[j].at /\ i < j)
        order == SetToSortSeq(DOMAIN f.bars, before)
        valid(i) == /\ f.bars[i].form \notin {"nonpositive_price", "nonfinite_price"}
                    /\ \A j \in DOMAIN f.bars : f.bars[j].at = f.bars[i].at => ~before(j, i)
        kept == SelectSeq(order, valid)
    IN [k \in DOMAIN kept |-> [at |-> f.bars[kept[k]].at, form |-> "plain"]]
Cleaned(f) == [f EXCEPT !.bars = CleanBars(f)]

\* promote_clean cleans what is usable as it is, and what it can repair.
Promotable(f) == Quality(f) = "CORRUPT" => Cleanable(f)
\* The audit after the cleaning never fails: an algorithm on data, computed for
\* every download of a run.
ASSUME CleaningRepairs == \A f \in Downloads : Promotable(f) => Quality(Cleaned(f)) # "CORRUPT"
-----------------------------------------------------------------------------
(* DatasetStore                                                             *)

Idle == [op |-> "idle"]
Stored(layer, name) == <<layer, name>> \in DOMAIN files
\* What is left of a record whose writing was cut short: no JSON, so every reader raises.
Unreadable == [sha |-> "unreadable"]
\* _read_meta
HasRecord(layer, name) == <<layer, name>> \in DOMAIN metas /\ metas[<<layer, name>>] # Unreadable
NoFrame == [columns |-> FALSE, bars |-> <<>>]
Put(under, key, value) == [k \in DOMAIN under \cup {key} |-> IF k = key THEN value ELSE under[k]]

\* The file is there, the record is to come (register_dataset, _bind_digests:
\* the digests are those of the file read back).
Write(layer, name, frame, parent) ==
    /\ files' = Put(files, <<layer, name>>, frame)
    /\ writing' = [op |-> layer, name |-> name,
                   record |-> [sha |-> frame, quality |-> Quality(frame), parent |-> parent]]
    /\ UNCHANGED <<metas, issued, torn, deaths>>

RawIsFreeAlways(name) == TRUE                                        \* mutant
\* The raw layer is immutable: a file there refuses the name for ever.
RawIsFree(name) == ~Stored("raw", name)

SaveRaw(name, frame) == writing = Idle /\ RawIsFree(name) /\ Write("raw", name, frame, NoFrame)

PromoteClean(name) ==
    /\ writing = Idle /\ HasRecord("raw", name)
    /\ LET raw == files[<<"raw", name>>]
       IN Promotable(raw) /\ Write("clean", name, Cleaned(raw), metas[<<"raw", name>>].sha)

\* What a transform may make of a frame: part of it, or something broken.
Transforms == {"part", "broken"}
Built(frame, how) ==
    IF how = "part" THEN [frame EXCEPT !.bars = SubSeq(@, 1, 1)]
    ELSE [frame EXCEPT !.bars = [i \in DOMAIN @ |-> [@[i] EXCEPT !.form = "impossible_ohlc"]]]

\* Reads the clean file, names the digest its record has.
AddDerived(name, how) ==
    /\ writing = Idle /\ HasRecord("clean", name)
    /\ Write("derived", name, Built(files[<<"clean", name>>], how), metas[<<"clean", name>>].sha)

\* An empty download without a source timestamp never gets to its record (register_dataset raises).
Registers(stamped) == ~(writing.op = "raw" /\ writing.record.sha.bars = <<>> /\ ~stamped)

\* _write_meta
WriteMeta(stamped) ==
    /\ writing # Idle
    /\ metas' = IF Registers(stamped) THEN Put(metas, <<writing.op, writing.name>>, writing.record) ELSE metas
    /\ writing' = Idle
    /\ UNCHANGED <<files, issued, torn, deaths>>

\* What a crash leaves of a file it interrupts.
CutShort(frame) == [frame EXCEPT !.bars = SubSeq(@, 1, Len(@) - 1)]

\* The process dies while it writes the file, before the record, or while it writes the record: the
\* one that was there is gone by then, since write_text opens the file empty.
DataDies(in, stamped) ==
    /\ writing # Idle /\ deaths < MaxDeaths
    /\ LET key == <<writing.op, writing.name>> IN
       /\ files' = IF in = "file" THEN [files EXCEPT ![key] = CutShort(@)] ELSE files
       /\ metas' = IF in = "record" /\ Registers(stamped) THEN Put(metas, key, Unreadable) ELSE metas
    /\ torn' = IF in = "file" /\ writing.op = "clean" THEN torn \cup {writing.name} ELSE torn
    /\ writing' = Idle /\ deaths' = deaths + 1
    /\ UNCHANGED issued

\* ref: a corrupt dataset only on request; the file itself is not looked at.
Ref(layer, name, allowCorrupt) ==
    /\ writing = Idle /\ HasRecord(layer, name)
    /\ LET meta == metas[<<layer, name>>]
       IN /\ (meta.quality = "CORRUPT" => allowCorrupt)
          /\ issued' = issued \cup {[layer |-> layer, name |-> name, sha |-> meta.sha, quality |-> meta.quality,
                                     parent |-> meta.parent, override |-> allowCorrupt]}
    /\ UNCHANGED <<files, metas, writing, torn, deaths>>

\* load, _read_back
Load(layer, name) == files[<<layer, name>>]

DataInit == files = <<>> /\ metas = <<>> /\ writing = Idle /\ issued = {} /\ torn = {} /\ deaths = 0

DataNext ==
    \/ \E name \in DataNames :
        \/ \E frame \in Downloads : SaveRaw(name, frame)
        \/ PromoteClean(name)
        \/ \E how \in Transforms : AddDerived(name, how)
        \/ \E layer \in {"raw", "clean", "derived"}, allow \in BOOLEAN : Ref(layer, name, allow)
    \/ \E stamped \in BOOLEAN : WriteMeta(stamped)
    \/ \E in \in {"file", "nothing", "record"}, stamped \in BOOLEAN : DataDies(in, stamped)
-----------------------------------------------------------------------------
(* Properties                                                               *)

\* What a derived dataset was built from: the clean one its record names, or what a crash left of it.
Sources(name, clean) == {clean} \cup {f \in {CutShort(clean)} : name \in torn}

\* A record or a reference leads to the raw bytes as they are stored.
Traces(layer, name, d) ==
    LET raw == files[<<"raw", name>>] IN
    /\ layer = "raw" => d.sha = raw
    /\ layer = "clean" => d.parent = raw /\ d.sha = Cleaned(raw) /\ d.quality # "CORRUPT"
    /\ layer = "derived" => /\ d.parent = Cleaned(raw)
                            /\ \E how \in Transforms, f \in Sources(name, d.parent) : d.sha = Built(f, how)

\* "Immutable lineage" (DatasetStore): whatever was promoted again, built again or left half written
\* by a crash, every record that can be read and every reference leads to the raw bytes as they are
\* stored: a raw one is of its file, a clean one is what cleaning makes of that file and is usable, a
\* derived one names what cleaning makes of it and was built from that, or from what a crash
\* had left of it; nothing corrupt is referenced unasked.
LineageHolds ==
    /\ \A key \in DOMAIN metas : metas[key] # Unreadable => Traces(key[1], key[2], metas[key])
    /\ \A r \in issued : (r.quality = "CORRUPT" => r.override) /\ Traces(r.layer, r.name, r)

\* data_layer.py:392 "the frame exactly as digested by ref": not when a derived dataset was built
\* again, or a crash left the file without its record.
RefNamesTheBytes == \A r \in issued : Load(r.layer, r.name) = r.sha

\* data_layer.py:318 "the transform name and the parent's sha are recorded so derived data is
\* reproducible": not when it was built from a clean file a crash had cut short.
DerivedIsReproducible ==
    \A name \in DataNames : HasRecord("derived", name) =>
        LET d == metas[<<"derived", name>>] IN \E how \in Transforms : d.sha = Built(d.parent, how)

\* data_layer.py:235 "so any backtest consuming a derived frame traces to raw bytes", by the clean record
\* that the derived one names: not when a crash interrupted the writing of that record again.
ParentsCanBeRead == \A name \in DataNames : HasRecord("derived", name) => HasRecord("clean", name)
=============================================================================
