------------------------- MODULE MCMySQLConnection -------------------------
(* Instances of MySQLConnection for TLC. *)
EXTENDS MySQLConnection

Plain == "plain"            \* a Cursor
Streaming == "streaming"    \* an SSCursor

BothCursors == {Plain, Streaming}
OneSSCursor == {Streaming}

\* No result; rows and an error among them; two rows and a second set that
\* fails; no result and then rows; a file asked for.
SampleAnswers ==
    {<<"ok">>, <<"header", "row", "err">>, <<"header", "row", "row", "eofMore", "err">>,
     <<"okMore", "header", "row", "eof">>, <<"local">>}

RowAnswers == {<<"header", "row", "eof">>}
=============================================================================
