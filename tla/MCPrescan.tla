----------------------------- MODULE MCPrescan -----------------------------
EXTENDS Prescan

\* What a no-data scan returns: records without their data, PASS records and
\* SKIP records; and a record that carries its data, which the accounting
\* also provides for.
MCRecords ==
    [lo : {"REC"}, nodata : {TRUE}, create_tid : 0..MaxTid, delete_tid : {0, 3},
     head : {1}, data : {2}]
    \cup [lo : {"PASS"}, nodata : {TRUE}, create_tid : {4}, delete_tid : {0, MaxTid},
          head : {1}, data : {0}]
    \cup [lo : {"REC"}, nodata : {FALSE}, create_tid : {1}, delete_tid : {0, 4},
          head : {1}, data : {2}]
    \cup [lo : {"SKIP"}, nodata : {TRUE}, create_tid : {1}, delete_tid : {0},
          head : {1}, data : {0}]
=============================================================================
