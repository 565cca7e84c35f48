--------------------------- MODULE DatasetSnapshots ---------------------------
(***************************************************************************)
(* Imported dataset snapshots: what the sources send, the raw series an    *)
(* import builds from it, the series with its splits taken out, and the    *)
(* comparison of the two.                                                  *)
(*                                                                         *)
(* A master maps instrument ids to symbols.  An artifact is the content of *)
(* a dataset file; a digest is modelled by the content it is taken of.     *)
(***************************************************************************)
EXTENDS HistoricalBacktest

------------------------------------------------------------------------------
(* Fetching *)

\* A vendor's response: rows, some of them with missing fields.  Incomplete
\* rows are skipped, a response without a complete one is an error.
translate_yahoo_chart_json_to_pipeline_csv(rows) ==
    LET kept == InOrder([k \in {j \in DOMAIN rows : rows[j].complete} |-> <<k>>])
    IN  [k \in DOMAIN kept |-> rows[kept[k]].bar]

Fetched(response) ==
    /\ response.answered
    /\ translate_yahoo_chart_json_to_pipeline_csv(response.rows) # <<>>

build_trivial_instrument_master(symbols) == [u \in symbols |-> u]

------------------------------------------------------------------------------
(* Raw snapshots.  files is a set of [symbol, bars].                         *)

\* In file order; a file without rows is refused.
parse_source_csv(file) == file.bars

_canonical_artifact_bytes(dataset, version, series) ==
    [dataset |-> dataset, version |-> version, series |-> series]

SeriesOf(files) ==
    [u \in {file.symbol : file \in files} |-> parse_source_csv(CHOOSE file \in files : file.symbol = u)]

\* import_raw_historical_dataset_snapshot() raises on no file, an unknown
\* instrument, two files for one, an empty file, or series off one grid.
Importable(files, master) ==
    /\ files # {}
    /\ \A file \in files : \E i \in DOMAIN master : master[i] = file.symbol
    /\ \A f, g \in files : f.symbol = g.symbol => f = g
    /\ \A file \in files : parse_source_csv(file) # <<>>
    /\ HistoricalDataset(SeriesOf(files))

import_raw_historical_dataset_snapshot(dataset, version, files) ==
    [dataset |-> dataset, version |-> version, semantics |-> "RAW_UNADJUSTED", manifest |-> {},
     sha |-> _canonical_artifact_bytes(dataset, version, SeriesOf(files))]

------------------------------------------------------------------------------
(* Splits: every old shares become new shares on their day.                  *)

SplitAction(action) ==
    /\ action.new > 0 /\ action.old > 0 /\ action.new # action.old
    /\ action.type = IF action.new > action.old THEN "SPLIT" ELSE "REVERSE_SPLIT"

\* One action of a kind for an instrument at a time.
CorporateActionManifest(manifest) ==
    /\ \A a \in manifest.actions : SplitAction(a)
    /\ \A a, b \in manifest.actions :
          a.instrument = b.instrument /\ a.day = b.day /\ a.type = b.type => a = b

splits_for(manifest, instrument) == {a \in manifest.actions : a.instrument = instrument}

ProductOf(f) == FoldFunction(LAMBDA x, product : product * x, 1, f)

\* Mutant: the bar of the split's own day, already in new shares, is adjusted.
FactorThroughItsDay(manifest, instrument, day) ==
    LET later == {a \in splits_for(manifest, instrument) : day <= a.day}
    IN  [old |-> ProductOf([a \in later |-> a.old]), new |-> ProductOf([a \in later |-> a.new])]

\* The splits still to come, as a fraction.
split_adjustment_factor_at(manifest, instrument, day) ==
    LET later == {a \in splits_for(manifest, instrument) : day < a.day}
    IN  [old |-> ProductOf([a \in later |-> a.old]), new |-> ProductOf([a \in later |-> a.new])]

\* Prices are rounded to four decimals, which the whole prices of the model
\* never need when they divide; shares are rounded half up.
AdjustedPrice(price, factor)   == (price * factor.old) \div factor.new
AdjustedVolume(volume, factor) == (2 * volume * factor.new + factor.old) \div (2 * factor.old)

AdjustedBar(bar, factor) ==
    [bar EXCEPT !.open = AdjustedPrice(@, factor), !.high = AdjustedPrice(@, factor),
                !.low = AdjustedPrice(@, factor), !.close = AdjustedPrice(@, factor),
                !.volume = AdjustedVolume(@, factor)]

InstrumentOf(master, symbol) == CHOOSE i \in DOMAIN master : master[i] = symbol

Adjusted(series, manifest, master) ==
    [u \in DOMAIN series |->
        [k \in DOMAIN series[u] |->
            AdjustedBar(series[u][k],
                        split_adjustment_factor_at(manifest, InstrumentOf(master, u), series[u][k].day))]]

\* derive_split_adjusted_snapshot() raises on an action for an instrument that
\* was not imported.
Derivable(raw, manifest, master) ==
    \A a \in manifest.actions : \E u \in DOMAIN raw.sha.series : InstrumentOf(master, u) = a.instrument

derive_split_adjusted_snapshot(raw, version, manifest, master) ==
    [dataset |-> raw.dataset, version |-> version, semantics |-> "SPLIT_ADJUSTED",
     manifest |-> manifest.actions,
     sha |-> _canonical_artifact_bytes(raw.dataset, version, Adjusted(raw.sha.series, manifest, master))]

------------------------------------------------------------------------------
(* A naive reading of the raw prices against the adjusted ones               *)

build_corporate_action_semantics_stress(identity, correct, naive) ==
    [gov |-> identity.gov, runtime |-> identity.runtime,
     dataset |-> correct.of.dataset, correct |-> correct.gov, naive |-> naive.gov,
     correct_version |-> correct.of.version, naive_version |-> naive.of.version,
     executed |-> <<correct.executed, naive.executed>>, net |-> <<correct.net, naive.net>>]

==============================================================================
