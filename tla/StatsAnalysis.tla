--------------------------- MODULE StatsAnalysis ----------------------------
(***************************************************************************)
(* The post-processing of the statistics ring for one delta (the           *)
(* difference of two timestamps of the same packet): allocation of the     *)
(* result, one pass over the active entries, oldest first, into a list of  *)
(* values and a histogram, percentiles by linear interpolation, clean-up.  *)
(* The deltas of a mode are processed independently of each other.         *)
(*                                                                         *)
(* Timestamps are integers in nanoseconds; 0 is a missing timestamp.  The  *)
(* code computes with doubles in microseconds: "delta_us < 0.001" is a     *)
(* delta of 0 ns, and every other comparison is the one on nanoseconds.    *)
(***************************************************************************)
EXTENDS Ring, FiniteSets

CONSTANTS Stamps,      \* the pairs <<ts_a, ts_b>> an entry may hold
          MaxEntries,  \* bound: active entries of the ring, which has
                       \* next_power_of_2(Capacity) slots, one of them empty
          Capacity,    \* config->buffer_size: the number given to --stats
          BinWidth,    \* bin width in nanoseconds
          MaxBins,     \* number of histogram bins
          Limit        \* deltas beyond this are never stored (one second)

ASSUME AnalysisAssumption ==
  /\ Stamps \subseteq Nat \X Nat
  /\ MaxEntries \in Nat /\ MaxEntries < next_power_of_2(Capacity)
  /\ Capacity \in Nat \ {0} /\ BinWidth \in Nat \ {0} /\ MaxBins \in Nat \ {0}
  /\ Limit \in Nat

VARIABLES entries,   \* the active entries, oldest first
          pc,        \* configure, allocate, reallocate, process, display, cleanup, done
          next,      \* index of the next entry to process
          array,     \* delta_values is allocated
          values,    \* delta_values[0 .. packet_count-1]
          hist,      \* histogram, or NoHist
          outliers,  \* outlier_count
          usedBins,  \* used_bins
          shown      \* percentiles displayed, times 100 (empty before)

analysisVars == <<entries, pc, next, array, values, hist, outliers, usedBins, shown>>

NoHist      == <<>>
Bins        == 0 .. MaxBins - 1
Percentiles == <<25, 50, 75, 90, 95>>

AnalysisInit ==
  /\ \E n \in 1 .. MaxEntries : entries \in [1 .. n -> Stamps]
  /\ pc = "configure" /\ next = 1
  /\ array = FALSE /\ values = <<>> /\ hist = NoHist
  /\ outliers = 0 /\ usedBins = 0 /\ shown = <<>>

-----------------------------------------------------------------------------
\* malloc of delta_values, which may fail; the previous array, if any, is
\* forgotten.
exact_percentiles_init == array' \in BOOLEAN

ResetCounters == values' = <<>> /\ outliers' = 0 /\ usedBins' = 0

\* configure_analysis_for_mode
Configure ==
  /\ pc = "configure"
  /\ exact_percentiles_init
  /\ ResetCounters /\ hist' = NoHist
  /\ pc' = "allocate"
  /\ UNCHANGED <<entries, next, shown>>

\* allocate_analysis_structures_for_delta: a new value array and a zeroed
\* histogram in place of the old one; calloc may fail.
AllocateStructures(ok, failed) ==
  /\ exact_percentiles_init
  /\ \/ /\ hist' = [b \in Bins |-> 0] /\ ResetCounters /\ pc' = ok
     \/ /\ hist' = NoHist /\ pc' = failed /\ UNCHANGED outliers
        /\ UNCHANGED usedBins
        /\ values' = IF array' THEN <<>> ELSE values
  /\ UNCHANGED <<entries, next, shown>>

\* initialize_analysis_result, and again at the start of
\* process_buffer_for_analysis; a failure there leaves nothing to display.
Allocate   == pc = "allocate"   /\ AllocateStructures("reallocate", "cleanup")
Reallocate == pc = "reallocate" /\ AllocateStructures("process", "display")

\* Both timestamps present, and a positive difference.
Delta(e)   == e[2] - e[1]
IsValid(e) == e[1] # 0 /\ e[2] # 0 /\ Delta(e) > 0

\* exact_percentiles_add_value
CanStore == Len(values) < Capacity

\* Mutant: the bin test is off by one.
BinInRange_OffByOne(bin) == bin < MaxBins - 1

BinInRange(bin) == bin < MaxBins

\* process_entry_for_delta for a delta that is stored and binned.
StoreDelta(d) ==
  LET bin == d \div BinWidth IN
  /\ values' = IF array /\ CanStore THEN Append(values, d) ELSE values
  /\ outliers' = outliers + (IF array /\ ~CanStore THEN 1 ELSE 0)
                          + (IF BinInRange(bin) THEN 0 ELSE 1)
  /\ hist' = IF BinInRange(bin) THEN [hist EXCEPT ![bin] = @ + 1] ELSE hist
  /\ usedBins' = IF BinInRange(bin) /\ bin >= usedBins THEN bin + 1 ELSE usedBins

\* process_entry_for_delta: one entry of the ring
ProcessEntry ==
  /\ pc = "process" /\ next <= Len(entries)
  /\ LET e == entries[next] IN
     \/ ~IsValid(e) /\ UNCHANGED <<values, outliers, hist, usedBins>>
     \/ /\ IsValid(e) /\ Delta(e) > Limit
        /\ outliers' = outliers + 1 /\ UNCHANGED <<values, hist, usedBins>>
     \/ IsValid(e) /\ Delta(e) <= Limit /\ StoreDelta(Delta(e))
  /\ next' = next + 1
  /\ UNCHANGED <<entries, pc, array, shown>>

EndOfEntries ==
  /\ pc = "process" /\ next > Len(entries)
  /\ pc' = "display"
  /\ UNCHANGED <<entries, next, array, values, hist, outliers, usedBins, shown>>

\* Mutant: the position is p/100 * n, not p/100 * (n - 1).
PercentileOf_RankOfN(s, p) ==
  LET pos100 == p * Len(s)
      lower  == pos100 \div 100
      upper  == (pos100 + 99) \div 100
  IN  IF lower = upper \/ upper >= Len(s) THEN 100 * s[lower + 1]
      ELSE 100 * s[lower + 1] + (pos100 - 100 * lower) * (s[upper + 1] - s[lower + 1])

\* exact_percentiles_calculate on sorted values, times 100: pos is
\* p/100 * (n - 1), between the indices lower and upper.
PercentileOf(s, p) ==
  LET pos100 == p * (Len(s) - 1)
      lower  == pos100 \div 100
      upper  == (pos100 + 99) \div 100
  IN  IF lower = upper \/ upper >= Len(s) THEN 100 * s[lower + 1]
      ELSE 100 * s[lower + 1] + (pos100 - 100 * lower) * (s[upper + 1] - s[lower + 1])

\* The order of compare_double_deltas
Ascending(s) == \A i, j \in 1 .. Len(s) : i < j => s[i] <= s[j]
Occurrences(s, v) == Cardinality({i \in 1 .. Len(s) : s[i] = v})

\* qsort: the same values, each as often as before, in ascending order
qsort(s) ==
  CHOOSE t \in [1 .. Len(s) -> {s[i] : i \in 1 .. Len(s)}] :
    /\ Ascending(t)
    /\ \A i \in 1 .. Len(s) : Occurrences(t, s[i]) = Occurrences(s, s[i])

\* display_delta_block: sorts the values in place, shows the percentiles
Display ==
  /\ pc = "display"
  /\ values' = qsort(values)
  /\ shown' = IF values = <<>> THEN <<>>
              ELSE [i \in DOMAIN Percentiles |-> PercentileOf(values', Percentiles[i])]
  /\ pc' = "cleanup"
  /\ UNCHANGED <<entries, next, array, hist, outliers, usedBins>>

\* cleanup_analysis_result, exact_percentiles_cleanup
Cleanup ==
  /\ pc = "cleanup"
  /\ array' = FALSE /\ hist' = NoHist /\ ResetCounters
  /\ pc' = "done"
  /\ UNCHANGED <<entries, next, shown>>

AnalysisFinished == pc = "done" /\ UNCHANGED analysisVars

AnalysisNext ==
  \/ Configure \/ Allocate \/ Reallocate
  \/ ProcessEntry \/ EndOfEntries \/ Display \/ Cleanup \/ AnalysisFinished

AnalysisSpec == AnalysisInit /\ [][AnalysisNext]_analysisVars

-----------------------------------------------------------------------------
(* Properties *)

Valid    == {i \in 1 .. next - 1 : IsValid(entries[i]) /\ Delta(entries[i]) <= Limit}
TooLarge == {i \in 1 .. next - 1 : IsValid(entries[i]) /\ Delta(entries[i]) > Limit}
Beyond   == {i \in Valid : Delta(entries[i]) \div BinWidth >= MaxBins}
Processing == pc \in {"process", "display"} /\ hist # NoHist

\* Types: no more values than the array has room for, none beyond the limit,
\* and used_bins within the histogram.
AnalysisTypeOK ==
  /\ pc \in {"configure", "allocate", "reallocate", "process", "display", "cleanup", "done"}
  /\ next \in 1 .. MaxEntries + 1
  /\ array \in BOOLEAN
  /\ values \in Seq(1 .. Limit) /\ Len(values) <= Capacity
  /\ hist \in {NoHist} \cup [Bins -> 0 .. MaxEntries]
  /\ outliers \in 0 .. 2 * MaxEntries /\ usedBins \in 0 .. MaxBins

\* process_entry_for_delta: bin b counts exactly the valid deltas whose value
\* falls in it, whether or not the value array had room, and used_bins is one
\* more than the highest bin with data, so the display omits no bin.
HistogramExact ==
  Processing =>
    /\ \A b \in Bins : hist[b] = Cardinality({i \in Valid : Delta(entries[i]) \div BinWidth = b})
    /\ usedBins = (IF \A b \in Bins : hist[b] = 0 THEN 0
                   ELSE 1 + CHOOSE b \in Bins : hist[b] > 0 /\ \A c \in Bins : c > b => hist[c] = 0)

\* The value array and the outlier count account for every delta: the array
\* has the first Capacity valid ones, and an outlier is a delta that is too
\* large, beyond the last bin, or without room in the array.
EveryDeltaAccounted ==
  (Processing /\ array) =>
    /\ Len(values) = (IF Cardinality(Valid) < Capacity THEN Cardinality(Valid) ELSE Capacity)
    /\ outliers = Cardinality(TooLarge) + Cardinality(Beyond)
                  + Cardinality(Valid) - Len(values)

\* Histogram, value array and outlier count together account for every delta
\* of the ring, within their bounds.
AnalysisInv == AnalysisTypeOK /\ HistogramExact /\ EveryDeltaAccounted

\* Each displayed percentile lies between the two order statistics around its
\* rank (counted, not sorted, here), and they are in ascending order.
PercentilesBetweenRanks ==
  (pc = "cleanup" /\ shown # <<>>) =>
    /\ \A i \in DOMAIN Percentiles :
         LET n        == Len(values)
             rank100  == Percentiles[i] * (n - 1)
             Below(v) == Cardinality({k \in 1 .. n : 100 * values[k] < v})
             UpTo(v)  == Cardinality({k \in 1 .. n : 100 * values[k] <= v})
         IN  /\ 100 * Below(shown[i]) <= rank100 + 99
             /\ 100 * UpTo(shown[i]) > rank100 - (rank100 % 100)
    /\ \A i \in 1 .. Len(Percentiles) - 1 : shown[i] <= shown[i + 1]
=============================================================================
