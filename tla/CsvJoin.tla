------------------------------ MODULE CsvJoin -------------------------------
(***************************************************************************)
(* timestamp_csvjoin: the options, the detection of the input files by     *)
(* their headers, the join of their rows on the sequence number for one    *)
(* client address, and the output with its delta columns.  Every file is   *)
(* opened three times (detect, load, populate), and a logger may still be  *)
(* appending rows to it in between.                                        *)
(*                                                                         *)
(* A column is its name.  A row says whether its address is the one asked  *)
(* for, its sequence number (or Invalid) and its cells after that.  A cell *)
(* is Null or a time <<seconds, nanoseconds>>.  A line of fewer than three  *)
(* fields counts as one whose address is not the one asked for.            *)
(***************************************************************************)
EXTENDS Integers, Sequences, SequencesExt, FiniteSetsExt

CONSTANTS Inputs,      \* the runs of the program: args and files
          NewRows(_),  \* rows that a logger may append to a file of a type
          MaxAppends,  \* rows appended while the program runs
          NS_PER_SEC,  \* 10^9
          NS_PER_US,   \* 1000
          US_RANGE     \* values of delta_whole_us, a uint32_t

Null    == <<>>
Invalid == -1
None    == "none"

CsvTypes == {"CLIENT_MAIN_ONEWAY", "CLIENT_MAIN_ROUNDTRIP", "CLIENT_TX",
             "SERVER_MAIN_ONEWAY", "SERVER_MAIN_ROUNDTRIP", "SERVER_TX"}

\* What a file may hold: any rows, under one of the headers or another line.
Cells      == {Null} \cup (Nat \X Nat)
Rows       == [match : BOOLEAN, seq : Nat \cup {Invalid}, cells : Seq(Cells)]
InputFiles == [type : CsvTypes \cup {"UNKNOWN"}, rows : Seq(Rows)]

ASSUME JoinAssumption ==
  /\ NS_PER_SEC \in Nat \ {0} /\ NS_PER_US \in Nat \ {0} /\ US_RANGE \in Nat \ {0}
  /\ MaxAppends \in Nat
  /\ \A run \in Inputs : run.files \in Seq(InputFiles)
  /\ \A type \in CsvTypes \cup {"UNKNOWN"} : NewRows(type) \subseteq Rows

VARIABLES args,     \* options not yet looked at
          opt,      \* what the options have set so far
          files,    \* input files: written by (a csv type), rows
          pc,       \* next step
          types,    \* detected_types
          loaded,   \* file_sequences: the set found in each file
          records,  \* record table: seq_num and timestamps
          filled,   \* number of files the table has been populated from
          line,     \* rows read so far of the file after those
          output,   \* rows of the output file; fresh: written by this run
          appends

joinVars == <<args, opt, files, pc, types, loaded, records, filled, line, output, appends>>

-----------------------------------------------------------------------------
(* Tables *)

\* get_csv_header, without clt_src_ip, clt_src_port and seq_num
get_csv_header(type) ==
  CASE type = "CLIENT_MAIN_ONEWAY" -> <<"clt_app_tx_ts">>
    [] type = "CLIENT_MAIN_ROUNDTRIP" ->
         <<"clt_app_tx_tsc_ts", "clt_app_tx_ts", "clt_hw_rx_ts", "clt_ker_rx_ts",
           "clt_app_rx_tsc_ts", "clt_app_rx_ts">>
    [] type = "CLIENT_TX" -> <<"clt_ker_tx_ts">>
    [] type = "SERVER_MAIN_ONEWAY" -> <<"svr_hw_rx_ts", "svr_ker_rx_ts", "svr_app_rx_ts">>
    [] type = "SERVER_MAIN_ROUNDTRIP" ->
         <<"svr_hw_rx_ts", "svr_ker_rx_ts", "svr_app_rx_ts", "svr_app_tx_ts">>
    [] type = "SERVER_TX" -> <<"svr_ker_tx_ts">>
    [] OTHER -> <<"invalid">>

\* The header line contains the text of these columns: the last one may be
\* the beginning of a longer name.
strstr(header, columns) ==
  LET n == Len(columns) IN
    /\ n <= Len(header) /\ \A k \in 1 .. n - 1 : header[k] = columns[k]
    /\ \/ header[n] = columns[n]
       \/ columns[n] = "clt_app_tx_ts" /\ header[n] = "clt_app_tx_tsc_ts"

DetectionOrder ==
  <<"CLIENT_MAIN_ROUNDTRIP", "SERVER_MAIN_ROUNDTRIP", "SERVER_MAIN_ONEWAY", "CLIENT_MAIN_ONEWAY",
    "CLIENT_TX", "SERVER_TX">>

\* The first type whose header the line contains.  The TX file of a client is
\* taken for FILE_CLIENT_ONEWAY_TX in both modes, which are handled alike.
detect_file_type(header) ==
  LET found == {k \in DOMAIN DetectionOrder : strstr(header, get_csv_header(DetectionOrder[k]))}
  IN  IF found = {} THEN "UNKNOWN" ELSE DetectionOrder[Min(found)]

\* The fields a row of a file sets, from its fourth on; a row with fewer sets
\* none.
FieldsOf(type) ==
  CASE type = "CLIENT_MAIN_ONEWAY"    -> <<"clt_app_tx_ts">>
    [] type = "CLIENT_MAIN_ROUNDTRIP" ->
         <<"clt_app_tx_tsc_ts", "clt_app_tx_ts", "clt_hw_rx_ts", "clt_ker_rx_ts",
           "clt_app_rx_tsc_ts", "clt_app_rx_ts">>
    [] type = "CLIENT_TX"      -> <<"clt_ker_tx_ts">>
    [] type = "SERVER_MAIN_ONEWAY"    -> <<"svr_hw_rx_ts", "svr_ker_rx_ts", "svr_app_rx_ts">>
    [] type = "SERVER_MAIN_ROUNDTRIP" ->
         <<"svr_hw_rx_ts", "svr_ker_rx_ts", "svr_app_rx_ts", "svr_app_tx_ts">>
    [] type = "SERVER_TX"   -> <<"svr_ker_tx_ts">>

Fields == UNION {ToSet(get_csv_header(t)) : t \in CsvTypes}

\* ALL_DELTA_DEFINITIONS: from, to and name; counted from 0 in the code
Delta == <<
  <<"clt_app_tx_ts", "clt_ker_tx_ts", "d1_clt_app_tx_to_ker_tx">>,
  <<"clt_hw_rx_ts", "clt_ker_rx_ts", "d6_clt_hw_rx_to_ker_rx">>,
  <<"clt_ker_rx_ts", "clt_app_rx_ts", "d7_clt_ker_rx_to_app_rx">>,
  <<"clt_app_tx_ts", "clt_hw_rx_ts", "rtt_d1_clt_app_tx_to_hw_rx">>,
  <<"clt_app_tx_ts", "clt_app_rx_ts", "rtt_d2_clt_app_tx_to_app_rx">>,
  <<"clt_app_tx_tsc_ts", "clt_app_rx_tsc_ts", "rtt_d3_clt_app_tx_tsc_to_app_rx_tsc">>,
  <<"svr_hw_rx_ts", "svr_ker_rx_ts", "d2_svr_hw_rx_to_ker_rx">>,
  <<"svr_ker_rx_ts", "svr_app_rx_ts", "d3_svr_ker_rx_to_app_rx">>,
  <<"svr_app_rx_ts", "svr_app_tx_ts", "d4_svr_app_rx_to_app_tx">>,
  <<"svr_app_tx_ts", "svr_ker_tx_ts", "d5_svr_app_tx_to_ker_tx">>,
  <<"svr_hw_rx_ts", "svr_app_rx_ts", "tt_d1_svr_hw_rx_to_app_rx">>,
  <<"svr_hw_rx_ts", "svr_ker_tx_ts", "tt_d2_svr_hw_rx_to_ker_tx">>,
  <<"clt_ker_tx_ts", "svr_hw_rx_ts", "net_clt_ker_tx_to_svr_hw_rx">>,
  <<"svr_ker_tx_ts", "clt_hw_rx_ts", "net_svr_ker_tx_to_clt_hw_rx">> >>

\* Mutant: two indices of the round-trip server table are swapped.
ServerRoundTripDeltas_Swapped == <<6, 7, 8, 10, 9, 11>>

ServerRoundTripDeltas == <<6, 7, 8, 9, 10, 11>>

\* The indices of the deltas of a mode and a target
get_mode_delta_config(mode, target) ==
  CASE mode = "oneway" /\ target = "client"    -> <<0>>
    [] mode = "roundtrip" /\ target = "client" -> <<0, 1, 2, 3, 4, 5>>
    [] mode = "oneway" /\ target = "server"    -> <<6, 7, 10>>
    [] mode = "roundtrip" /\ target = "server" -> ServerRoundTripDeltas
    [] mode = "oneway" /\ target = "both"      -> <<0, 6, 7, 10, 12>>
    [] mode = "roundtrip" /\ target = "both"   -> [k \in 1 .. 14 |-> k - 1]

\* get_output_header: the names of the columns after seq_num
get_output_header(mode, target) ==
  CASE mode = "oneway" /\ target = "client" ->
         <<"clt_app_tx_ts", "clt_ker_tx_ts", "d1_clt_app_tx_to_ker_tx">>
    [] mode = "oneway" /\ target = "server" ->
         <<"svr_hw_rx_ts", "svr_ker_rx_ts", "svr_app_rx_ts", "d2_svr_hw_rx_to_ker_rx",
           "d3_svr_ker_rx_to_app_rx", "tt_d1_svr_hw_rx_to_app_rx">>
    [] mode = "oneway" /\ target = "both" ->
         <<"clt_app_tx_ts", "clt_ker_tx_ts", "svr_hw_rx_ts", "svr_ker_rx_ts", "svr_app_rx_ts",
           "d1_clt_app_tx_to_ker_tx", "d2_svr_hw_rx_to_ker_rx", "d3_svr_ker_rx_to_app_rx",
           "tt_d1_svr_hw_rx_to_app_rx", "net_clt_ker_tx_to_svr_hw_rx">>
    [] mode = "roundtrip" /\ target = "client" ->
         <<"clt_app_tx_tsc_ts", "clt_app_tx_ts", "clt_ker_tx_ts", "clt_hw_rx_ts", "clt_ker_rx_ts",
           "clt_app_rx_tsc_ts", "clt_app_rx_ts", "d1_clt_app_tx_to_ker_tx",
           "d6_clt_hw_rx_to_ker_rx", "d7_clt_ker_rx_to_app_rx", "rtt_d1_clt_app_tx_to_hw_rx",
           "rtt_d2_clt_app_tx_to_app_rx", "rtt_d3_clt_app_tx_tsc_to_app_rx_tsc">>
    [] mode = "roundtrip" /\ target = "server" ->
         <<"svr_hw_rx_ts", "svr_ker_rx_ts", "svr_app_rx_ts", "svr_app_tx_ts", "svr_ker_tx_ts",
           "d2_svr_hw_rx_to_ker_rx", "d3_svr_ker_rx_to_app_rx", "d4_svr_app_rx_to_app_tx",
           "d5_svr_app_tx_to_ker_tx", "tt_d1_svr_hw_rx_to_app_rx", "tt_d2_svr_hw_rx_to_ker_tx">>
    [] mode = "roundtrip" /\ target = "both" ->
         <<"clt_app_tx_tsc_ts", "clt_app_tx_ts", "clt_ker_tx_ts", "svr_hw_rx_ts", "svr_ker_rx_ts",
           "svr_app_rx_ts", "svr_app_tx_ts", "svr_ker_tx_ts", "clt_hw_rx_ts", "clt_ker_rx_ts",
           "clt_app_rx_tsc_ts", "clt_app_rx_ts", "d1_clt_app_tx_to_ker_tx",
           "d6_clt_hw_rx_to_ker_rx", "d7_clt_ker_rx_to_app_rx", "rtt_d1_clt_app_tx_to_hw_rx",
           "rtt_d2_clt_app_tx_to_app_rx", "rtt_d3_clt_app_tx_tsc_to_app_rx_tsc",
           "d2_svr_hw_rx_to_ker_rx", "d3_svr_ker_rx_to_app_rx", "d4_svr_app_rx_to_app_tx",
           "d5_svr_app_tx_to_ker_tx", "tt_d1_svr_hw_rx_to_app_rx", "tt_d2_svr_hw_rx_to_ker_tx",
           "net_clt_ker_tx_to_svr_hw_rx", "net_svr_ker_tx_to_clt_hw_rx">>

\* The timestamps format_output_record prints, in order
PrintedFields(mode, target) ==
  CASE mode = "oneway" /\ target = "client" -> <<"clt_app_tx_ts", "clt_ker_tx_ts">>
    [] mode = "oneway" /\ target = "server" -> <<"svr_hw_rx_ts", "svr_ker_rx_ts", "svr_app_rx_ts">>
    [] mode = "oneway" /\ target = "both" ->
         <<"clt_app_tx_ts", "clt_ker_tx_ts", "svr_hw_rx_ts", "svr_ker_rx_ts", "svr_app_rx_ts">>
    [] mode = "roundtrip" /\ target = "client" ->
         <<"clt_app_tx_tsc_ts", "clt_app_tx_ts", "clt_ker_tx_ts", "clt_hw_rx_ts", "clt_ker_rx_ts",
           "clt_app_rx_tsc_ts", "clt_app_rx_ts">>
    [] mode = "roundtrip" /\ target = "server" ->
         <<"svr_hw_rx_ts", "svr_ker_rx_ts", "svr_app_rx_ts", "svr_app_tx_ts", "svr_ker_tx_ts">>
    [] mode = "roundtrip" /\ target = "both" ->
         <<"clt_app_tx_tsc_ts", "clt_app_tx_ts", "clt_ker_tx_ts", "svr_hw_rx_ts", "svr_ker_rx_ts",
           "svr_app_rx_ts", "svr_app_tx_ts", "svr_ker_tx_ts", "clt_hw_rx_ts", "clt_ker_rx_ts",
           "clt_app_rx_tsc_ts", "clt_app_rx_ts">>

-----------------------------------------------------------------------------
(* Options and files *)

NoOptions == [mode |-> None, target |-> None, ip |-> FALSE, port |-> FALSE, files |-> FALSE]

JoinInit ==
  /\ \E run \in Inputs : args = run.args /\ files = run.files
  /\ opt = NoOptions /\ pc = "options" /\ types = <<>> /\ loaded = <<>>
  /\ records = <<>> /\ filled = 0 /\ line = 0
  /\ output = [fresh |-> FALSE, rows |-> <<>>] /\ appends = 0

\* One option of getopt_long.  A second mode or target, port 0 and an unknown
\* option are errors; --help ends the program.  The last address, port and
\* list of files count.
ParseOption ==
  /\ pc = "options" /\ args # <<>> /\ args' = Tail(args)
  /\ LET o == Head(args) IN
       \/ /\ o \in {"oneway", "roundtrip"} /\ opt.mode = None
          /\ opt' = [opt EXCEPT !.mode = o] /\ UNCHANGED pc
       \/ /\ o \in {"client", "server", "both"} /\ opt.target = None
          /\ opt' = [opt EXCEPT !.target = o] /\ UNCHANGED pc
       \/ o = "ip" /\ opt' = [opt EXCEPT !.ip = TRUE] /\ UNCHANGED pc
       \/ o = "port" /\ opt' = [opt EXCEPT !.port = TRUE] /\ UNCHANGED pc
       \/ o = "files" /\ opt' = [opt EXCEPT !.files = TRUE] /\ UNCHANGED pc
       \/ o = "output" /\ UNCHANGED <<opt, pc>>
       \/ o = "help" /\ pc' = "success" /\ UNCHANGED opt
       \/ /\ \/ o \in {"oneway", "roundtrip"} /\ opt.mode # None
             \/ o \in {"client", "server", "both"} /\ opt.target # None
             \/ o \in {"port0", "unknown"}
          /\ pc' = "failure" /\ UNCHANGED opt
  /\ UNCHANGED <<files, types, loaded, records, filled, line, output, appends>>

\* The options are complete, or the program ends.
ParseDone ==
  /\ pc = "options" /\ args = <<>>
  /\ pc' = IF opt.mode # None /\ opt.target # None /\ opt.ip /\ opt.port /\ opt.files
              THEN "validate" ELSE "failure"
  /\ UNCHANGED <<args, opt, files, types, loaded, records, filled, line, output, appends>>

expected_file_count ==
  CASE opt.target = "client" -> 2
    [] opt.target = "server" -> IF opt.mode = "oneway" THEN 1 ELSE 2
    [] opt.target = "both"   -> IF opt.mode = "oneway" THEN 3 ELSE 4

ClientTypes == {"CLIENT_MAIN_ONEWAY", "CLIENT_MAIN_ROUNDTRIP", "CLIENT_TX"}
ServerTypes == {"SERVER_MAIN_ONEWAY", "SERVER_MAIN_ROUNDTRIP", "SERVER_TX"}

\* The number of files, their types, and that none is of the side that was
\* not asked for.  Neither the mode of the files nor that each kind is there
\* is looked at.
validate_file_combination ==
  LET detected == [k \in DOMAIN files |-> detect_file_type(get_csv_header(files[k].type))]
      ok == /\ Len(files) = expected_file_count
            /\ \A k \in DOMAIN files : detected[k] # "UNKNOWN"
            /\ opt.target = "client" => ToSet(detected) \cap ServerTypes = {}
            /\ opt.target = "server" => ToSet(detected) \cap ClientTypes = {}
  IN  /\ pc = "validate"
      /\ types' = IF Len(files) = expected_file_count THEN detected ELSE <<>>
      /\ pc' = IF ok THEN "load" ELSE "failure"
      /\ UNCHANGED <<args, opt, files, loaded, records, filled, line, output, appends>>

\* A file cannot be opened, although the program has opened it before.
OpenFails ==
  /\ pc \in {"validate", "load", "populate", "write"} /\ line = 0 /\ pc' = "failure"
  /\ UNCHANGED <<args, opt, files, types, loaded, records, filled, line, output, appends>>

\* A logger that is still at work
AppendRow(f) ==
  /\ pc \in {"load", "populate"} /\ f \in DOMAIN files /\ appends < MaxAppends
  /\ \E row \in NewRows(files[f].type) : files' = [files EXCEPT ![f].rows = Append(@, row)]
  /\ appends' = appends + 1
  /\ UNCHANGED <<args, opt, pc, types, loaded, records, filled, line, output>>

-----------------------------------------------------------------------------
(* The join *)

\* parse_csv_line, validate_record_match and extract_sequence_number let the
\* row pass.
Usable(row) == row.match /\ row.seq # Invalid

\* load_sequences_from_file: duplicates are kept once.
load_sequences_from_file(f) ==
  {files[f].rows[k].seq : k \in {j \in DOMAIN files[f].rows : Usable(files[f].rows[j])}}

Load ==
  /\ pc = "load" /\ Len(loaded) < Len(files)
  /\ loaded' = Append(loaded, load_sequences_from_file(Len(loaded) + 1))
  /\ UNCHANGED <<args, opt, files, pc, types, records, filled, line, output, appends>>

\* Mutant: the last file is not asked.
find_common_sequences_SkipsLast ==
  {s \in loaded[1] : \A f \in 2 .. Len(loaded) - 1 : s \in loaded[f]}

\* The sequence numbers of the first file that are in all the others
find_common_sequences == {s \in loaded[1] : \A f \in 2 .. Len(loaded) : s \in loaded[f]}

AfterJoin(sorted) == IF sorted = <<>> THEN "success" ELSE "populate"

\* qsort: a set of sequence numbers in rising order
qsort(S) == CHOOSE s \in [1 .. Cardinality(S) -> S] : \A j, k \in DOMAIN s : j < k => s[j] < s[k]

\* qsort, then create_record_table.  With nothing to join the program ends
\* well and writes nothing.
CreateTable ==
  /\ pc = "load" /\ Len(loaded) = Len(files)
  /\ LET sorted == qsort(find_common_sequences) IN
       /\ records' = [k \in DOMAIN sorted |-> [seq |-> sorted[k], ts |-> [c \in Fields |-> Null]]]
       /\ pc' = AfterJoin(sorted)
  /\ UNCHANGED <<args, opt, files, types, loaded, filled, line, output, appends>>

\* Mutant: the search ends when one record is left.
find_record_by_seq_Strict(table, seq) ==
  LET search[b \in (1 .. Len(table) + 1) \X (0 .. Len(table))] ==
        LET mid == b[1] + (b[2] - b[1]) \div 2 IN
          IF b[1] >= b[2] THEN 0
          ELSE IF table[mid].seq = seq THEN mid
          ELSE IF table[mid].seq < seq THEN search[<<mid + 1, b[2]>>]
          ELSE search[<<b[1], mid - 1>>]
  IN  search[<<1, Len(table)>>]

\* Binary search in the table; 0 if there is no such record
find_record_by_seq(table, seq) ==
  LET search[b \in (1 .. Len(table) + 1) \X (0 .. Len(table))] ==
        LET mid == b[1] + (b[2] - b[1]) \div 2 IN
          IF b[1] > b[2] THEN 0
          ELSE IF table[mid].seq = seq THEN mid
          ELSE IF table[mid].seq < seq THEN search[<<mid + 1, b[2]>>]
          ELSE search[<<b[1], mid - 1>>]
  IN  search[<<1, Len(table)>>]

\* The table after one row: a usable one with enough fields sets those of its
\* file in the record of its sequence number.
Populated(table, type, row) ==
  LET k == IF Usable(row) THEN find_record_by_seq(table, row.seq) ELSE 0
      names == FieldsOf(type)
  IN  IF k = 0 \/ Len(row.cells) < Len(names) THEN table
      ELSE [table EXCEPT ![k].ts = [c \in Fields |->
             IF c \in ToSet(names)
               THEN row.cells[CHOOSE j \in DOMAIN names : names[j] = c]
               ELSE @[c]]]

\* populate_timestamps_from_file, one row at a time: what a logger appends
\* meanwhile is read too.
PopulateRow ==
  /\ pc = "populate" /\ line < Len(files[filled + 1].rows)
  /\ records' = Populated(records, types[filled + 1], files[filled + 1].rows[line + 1])
  /\ line' = line + 1
  /\ UNCHANGED <<args, opt, files, pc, types, loaded, filled, output, appends>>

\* The end of a file, and the next file
PopulateNext ==
  /\ pc = "populate" /\ line = Len(files[filled + 1].rows)
  /\ filled' = filled + 1 /\ line' = 0
  /\ pc' = IF filled' = Len(files) THEN "write" ELSE pc
  /\ UNCHANGED <<args, opt, files, types, loaded, records, output, appends>>

-----------------------------------------------------------------------------
(* The output *)

parse_timestamp_ns(cell) == IF cell = Null THEN 0 ELSE cell[1] * NS_PER_SEC + cell[2]

\* Whole microseconds, which are cut to 32 bits, and nanoseconds
calculate_delta_fast(a, b) ==
  IF a = 0 \/ b = 0 \/ b <= a THEN Null
  ELSE <<((b - a) \div NS_PER_US) % US_RANGE, (b - a) % NS_PER_US>>

\* calculate_mode_deltas
Deltas(record) ==
  LET ids == get_mode_delta_config(opt.mode, opt.target) IN
    [k \in DOMAIN ids |->
       calculate_delta_fast(parse_timestamp_ns(record.ts[Delta[ids[k] + 1][1]]),
                            parse_timestamp_ns(record.ts[Delta[ids[k] + 1][2]]))]

\* The sequence number and the cells after it
format_output_record(record) ==
  LET printed == PrintedFields(opt.mode, opt.target) IN
    [seq   |-> record.seq,
     cells |-> [k \in DOMAIN printed |-> record.ts[printed[k]]] \o Deltas(record)]

\* write_output_csv
Write ==
  /\ pc = "write" /\ pc' = "success"
  /\ output' = [fresh |-> TRUE,
                rows |-> [k \in DOMAIN records |-> format_output_record(records[k])]]
  /\ UNCHANGED <<args, opt, files, types, loaded, records, filled, line, appends>>

JoinDone == pc \in {"success", "failure"} /\ UNCHANGED joinVars

JoinNext ==
  \/ ParseOption \/ ParseDone \/ validate_file_combination \/ OpenFails
  \/ \E f \in 1 .. 4 : AppendRow(f)
  \/ Load \/ CreateTable \/ PopulateRow \/ PopulateNext \/ Write \/ JoinDone

JoinSpec == JoinInit /\ [][JoinNext]_joinVars

-----------------------------------------------------------------------------
(* Properties *)

Written == output.fresh

\* Type correctness; a table that is populated or written has a record.
JoinTypeOK ==
  /\ opt.mode \in {None, "oneway", "roundtrip"}
  /\ opt.target \in {None, "client", "server", "both"}
  /\ pc \in {"options", "validate", "load", "populate", "write", "success", "failure"}
  /\ types \in Seq(CsvTypes \cup {"UNKNOWN"})
  /\ Len(loaded) <= Len(files) /\ filled \in 0 .. Len(files)
  /\ appends \in 0 .. MaxAppends /\ (pc \in {"populate", "write"} => records # <<>>)

\* The header of every file our programs write is told from the others,
\* although some headers begin with the text of another.
DetectedRight == \A k \in DOMAIN types : types[k] = files[k].type

\* The output has one row for each sequence number that was in all files, in
\* rising order; the program ends well without writing (leaving an earlier
\* output in place) only if there is none.
OutputIsJoin ==
  pc = "success" /\ opt.files /\ Len(loaded) > 0 =>
    LET common == {s \in UNION ToSet(loaded) : \A f \in DOMAIN loaded : s \in loaded[f]}
    IN  /\ Written <=> common # {}
        /\ Written => /\ {output.rows[k].seq : k \in DOMAIN output.rows} = common
                      /\ \A j, k \in DOMAIN output.rows :
                           j < k => output.rows[j].seq < output.rows[k].seq

\* The phases of the program fit together: right types, a table that is not
\* empty, an output that is the join.
JoinInv == JoinTypeOK /\ DetectedRight /\ OutputIsJoin

\* Reading an output row by the header line gives timestamps that some file
\* holds, in a row of that sequence number, under that column of its header.
CellsComeFromRows ==
  Written =>
    LET header == get_output_header(opt.mode, opt.target) IN
      \A k \in DOMAIN output.rows : \A c \in DOMAIN header :
        header[c] \in Fields /\ output.rows[k].cells[c] # Null =>
          \E f \in DOMAIN files : \E r \in ToSet(files[f].rows) :
            LET written == get_csv_header(files[f].type) IN
              /\ Usable(r) /\ r.seq = output.rows[k].seq
              /\ \E p \in DOMAIN written :
                   written[p] = header[c] /\ p <= Len(r.cells)
                     /\ r.cells[p] = output.rows[k].cells[c]

\* Reading an output row by the header line, each delta is the difference of
\* the two columns it is named after, unless one is missing or zero, or the
\* second is not the later.  A difference that 32 bits of microseconds do not
\* hold is short by a multiple of their range, its nanoseconds are still right.
DeltasMatchColumns ==
  Written =>
    LET header == get_output_header(opt.mode, opt.target)
        ColumnOf(name) == CHOOSE c \in DOMAIN header : header[c] = name
    IN  \A k \in DOMAIN output.rows :
          /\ Len(output.rows[k].cells) = Len(header)
          /\ \A d \in {e \in ToSet(Delta) : e[3] \in ToSet(header)} :
               LET cell == output.rows[k].cells[ColumnOf(d[3])]
                   a == parse_timestamp_ns(output.rows[k].cells[ColumnOf(d[1])])
                   b == parse_timestamp_ns(output.rows[k].cells[ColumnOf(d[2])])
               IN  /\ cell = Null <=> (a = 0 \/ b = 0 \/ b - a <= 0)
                   /\ cell # Null =>
                        cell[1] * NS_PER_US + cell[2] = (b - a) % (NS_PER_US * US_RANGE)

\* The files the usage text lists for a mode and a target
RequiredTypes ==
  (IF opt.target = "server" THEN {}
   ELSE {IF opt.mode = "oneway" THEN "CLIENT_MAIN_ONEWAY" ELSE "CLIENT_MAIN_ROUNDTRIP",
         "CLIENT_TX"})
  \cup (IF opt.target = "client" THEN {}
        ELSE IF opt.mode = "oneway" THEN {"SERVER_MAIN_ONEWAY"}
             ELSE {"SERVER_MAIN_ROUNDTRIP", "SERVER_TX"})

\* A row of the output misses a timestamp only if a row of its sequence number
\* does, or the files are not those the usage text lists: other combinations
\* are accepted too.
CompleteIfRightFiles ==
  Written /\ {files[k].type : k \in DOMAIN files} = RequiredTypes =>
    LET n == Len(PrintedFields(opt.mode, opt.target)) IN
      \A k \in DOMAIN output.rows :
        (\A f \in DOMAIN files : \A r \in ToSet(files[f].rows) :
            Usable(r) /\ r.seq = output.rows[k].seq =>
              Len(r.cells) = Len(get_csv_header(files[f].type)) /\ Null \notin ToSet(r.cells))
          => \A c \in 1 .. n : output.rows[k].cells[c] # Null

\* The timestamps of the output are all there and all their packet's own.
CellsRight == CellsComeFromRows /\ CompleteIfRightFiles
=============================================================================
