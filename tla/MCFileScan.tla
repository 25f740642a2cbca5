----------------------------- MODULE MCFileScan -----------------------------
(* TLC instance of FileScan.                                               *)
EXTENDS FileScan

Config(exclude, ignore) == [exclude |-> exclude, select |-> {}, ignore |-> ignore]
MCFileConfigs == {Config({{}}, {}), Config({{"b"}}, {{"R1"}}), Config({}, {{"R9"}})}
MCClis == {[select |-> {}, ignore |-> {}], [select |-> {{"R1"}}, ignore |-> {{"R2"}}]}
Directory(files) == [explicit |-> FALSE, files |-> files]
Named(file) == [explicit |-> TRUE, files |-> {file}]
MCArgumentLists == {<<>>, <<Directory({"a", "b"})>>, <<Named("b")>>, <<Named("a"), Directory({"a"})>>}
=============================================================================
