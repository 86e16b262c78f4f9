----------------------------- MODULE MCCsvJoin ------------------------------
(***************************************************************************)
(* Model-checking instance of CsvJoin.  A second has 8 ns and a microsecond*)
(* 2 ns; four values of microseconds fit.  The files are the right ones    *)
(* for a mode and a target, or one of them is replaced by another type;    *)
(* the first two vary in their rows.                                       *)
(***************************************************************************)
EXTENDS CsvJoin

\* A complete row: the cells of packet s are later from column to column,
\* except that the TX stamps are early for s = 2.
Time(c, s) ==
  LET order == <<"clt_app_tx_tsc_ts", "clt_app_tx_ts", "clt_ker_tx_ts", "svr_hw_rx_ts",
                 "svr_ker_rx_ts", "svr_app_rx_ts", "svr_app_tx_ts", "svr_ker_tx_ts",
                 "clt_hw_rx_ts", "clt_ker_rx_ts", "clt_app_rx_tsc_ts", "clt_app_rx_ts", "invalid">>
      at == CHOOSE k \in DOMAIN order : order[k] = c
      ns == IF s = 2 /\ c \in {"clt_ker_tx_ts", "svr_ker_tx_ts"} THEN 0 ELSE at + s
  IN  <<ns \div 8, ns % 8>>

Row(t, s) == [match |-> TRUE, seq |-> s,
              cells |-> [k \in DOMAIN get_csv_header(t) |-> Time(get_csv_header(t)[k], s)]]

Short(row)   == [row EXCEPT !.cells = SubSeq(@, 1, Len(@) - 1)]
Foreign(row) == [row EXCEPT !.match = FALSE]
Holes(row)   == [row EXCEPT !.cells = [k \in DOMAIN @ |-> Null]]
BadSeq(row)  == [row EXCEPT !.seq = Invalid]

RowLists(t) == {
  <<Row(t, 3), Row(t, 1), Row(t, 2)>>,
  <<Row(t, 1), Holes(Row(t, 3)), Row(t, 3), Foreign(Row(t, 2))>>,
  <<Row(t, 2), Short(Row(t, 2)), BadSeq(Row(t, 1))>>,
  <<>> }

MCNewRows(t) == {Row(t, 1), Short(Row(t, 3))}

Right(mode, target) ==
  LET client == <<IF mode = "oneway" THEN "CLIENT_MAIN_ONEWAY" ELSE "CLIENT_MAIN_ROUNDTRIP", "CLIENT_TX">>
      server == IF mode = "oneway" THEN <<"SERVER_MAIN_ONEWAY">>
                ELSE <<"SERVER_MAIN_ROUNDTRIP", "SERVER_TX">>
  IN  (IF target = "server" THEN <<>> ELSE client) \o (IF target = "client" THEN <<>> ELSE server)

TypeLists(mode, target) ==
  LET right == Right(mode, target) IN
    {right, Append(right, "SERVER_TX")}
      \cup {[right EXCEPT ![k] = t] : k \in DOMAIN right, t \in CsvTypes \cup {"UNKNOWN"}}

FileLists(mode, target) ==
  LET full(t) == <<Row(t, 3), Row(t, 1), Row(t, 2)>> IN
    UNION {
      {[k \in DOMAIN ts |-> [type |-> ts[k], rows |-> IF k = 1 THEN a ELSE IF k = 2 THEN b ELSE full(ts[k])]] :
         a \in RowLists(ts[1]), b \in (IF Len(ts) > 1 THEN RowLists(ts[2]) ELSE {<<>>})}
      : ts \in TypeLists(mode, target)}

Good(mode, target) == <<mode, target, "ip", "port", "files">>

Joins == UNION {
  {[args |-> Good(mode, target), files |-> fs] : fs \in FileLists(mode, target)}
  : mode \in {"oneway", "roundtrip"}, target \in {"client", "server", "both"}}

\* Options that are refused or end the program
OddArgs ==
  {<<"oneway", "roundtrip">>, <<"oneway", "client", "server">>, <<"oneway", "port0">>,
   <<"unknown">>, <<"oneway", "help">>, <<"output", "oneway", "server", "ip", "port">>}

MCInputs == Joins \cup {[args |-> a, files |-> <<>>] : a \in OddArgs}
=============================================================================
