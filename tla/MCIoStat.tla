------------------------------ MODULE MCIoStat ------------------------------
(* An instance of IoStat for TLC. *)
EXTENDS IoStat

MCWords == {"ib_logfile", "ib_logfile0", "ycsb", "v1", "2", "t", "ibd", "bak",
            "ib_logfile_stat", "ibd_stat", "csv"}
MCLogWords == {"ib_logfile", "ib_logfile0", "ib_logfile_stat"}

\* Logs, tables and others, with dots in directories and names.
MCDirs == {<<>>, <<<<"ycsb">>>>, <<<<"v1", "2">>, <<"ycsb">>>>, <<<<"ycsb">>, <<"v1", "2">>>>}
MCNames == {<<"ib_logfile0">>, <<"t", "ibd">>, <<"t", "ibd", "bak">>, <<"ibd", "t">>}
MCFiles ==
    [absolute : {TRUE}, dirs : MCDirs, name : MCNames] \cup
    [absolute : {FALSE}, dirs : {<<>>, <<<<"ycsb">>>>}, name : {<<"ib_logfile0">>, <<"t", "ibd">>}]
=============================================================================
