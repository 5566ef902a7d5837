----------------------------- MODULE MCDataLoad -----------------------------
(* DataLoad with a few orders of reading: the tables in the order of their  *)
(* references; the postponed ones first; the customers as early and as late *)
(* as they can come. The flags and files are                                *)
(*   - every file that says whether to send the tables and to do updates;   *)
(*   - for every setting, every pair of a flag and a line of the file;      *)
(*   - every pair of flags and of lines that make views or indexes, for a   *)
(*     client of the redirect server and for another;                       *)
(*   - every value of the flag that resets.                                 *)
EXTENDS DataLoad

MCSchedules == {
  <<"REGION", "NATION", "PART", "SUPPLIER", "PARTSUPP", "CUSTOMER", "ORDERS", "LINEITEM">>,
  <<"LINEITEM", "PARTSUPP", "REGION", "NATION", "CUSTOMER", "ORDERS", "SUPPLIER", "PART">>,
  <<"REGION", "NATION", "CUSTOMER", "LINEITEM", "ORDERS", "PARTSUPP", "PART", "SUPPLIER">>,
  <<"PARTSUPP", "PART", "REGION", "NATION", "SUPPLIER", "LINEITEM", "CUSTOMER", "ORDERS">>
}

NoFlags == [s \in Settings |-> "none"]
\* A file for a client that reads, and does not send, and queries.
QueryFile == [s \in Settings |-> IF s = "doDataload" THEN "false" ELSE "absent"]

Given(flags, file) == [flags |-> flags, file |-> file, reset |-> "none"]

MCInputs ==
  {Given(NoFlags, [QueryFile EXCEPT !["doDataload"] = d, !["doUpdates"] = u, !["updRate"] = u]) :
     d, u \in {"true", "false"}}
  \cup
  {Given([NoFlags EXCEPT ![s] = flag], [QueryFile EXCEPT ![s] = line]) :
     s \in Settings, flag \in {"none", "true", "false"}, line \in {"absent", "true", "false"}}
  \cup
  {Given([NoFlags EXCEPT !["doViewload"] = v, !["doIndexload"] = i, !["isRedirect"] = r,
                         !["doQueries"] = "false"], QueryFile) :
     v, i \in {"none", "true", "false"}, r \in {"true", "false"}}
  \cup
  {[Given(NoFlags, QueryFile) EXCEPT !.reset = r] : r \in {"true", "false"}}
=============================================================================
