---------------------------- MODULE MCMySQLData ----------------------------
(* Instances of MySQLData for TLC. *)
EXTENDS MySQLData

\* One or two rows of any length that matters, or three or four short ones.
SampleTexts ==
    UNION {[1..n -> {Null, 0, 3, 4, 15, 17}] : n \in {1, 2}} \cup [1..3 -> {Null, 0, 3, 15}]
      \cup [1..4 -> {0, 3}]

\* Both signs, more than a day, a fraction, and one that the column has too few
\* digits for; of the negative ones the last is written wrongly.
SampleTimes ==
    UNION {[1..n -> [s : {0, 3661, 90000}, f : {0, 50}] \cup [s : {-7200, -90000, -1}, f : {0}]
                      \cup [s : {3661}, f : {55}]] : n \in {1, 2}}
=============================================================================
