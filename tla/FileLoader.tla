----------------------------- MODULE FileLoader -----------------------------
(***************************************************************************)
(* infra/file_loader.cpp.  A file is the sequence of its lines with the    *)
(* comments and the blanks around keys and values taken off: an entry, or  *)
(* a line without "=" (a blank one included), which is skipped.            *)
(***************************************************************************)
EXTENDS Naturals, Sequences

Entry(k, v) == [key |-> k, value |-> v]
NoEntry == [key |-> "", value |-> ""]

Thrown == "an exception"

Hits(file, key) == {i \in DOMAIN file : file[i].key = key}

\* Mutant: later lines overrule earlier ones.
load_last_value(file, key) ==
    IF key = "" \/ Hits(file, key) = {} THEN Thrown
    ELSE file[CHOOSE i \in Hits(file, key) : \A j \in Hits(file, key) : j <= i].value

\* The first line with the key counts: the loop returns from it.
load_value(file, key) ==
    IF key = "" \/ Hits(file, key) = {} THEN Thrown
    ELSE file[CHOOSE i \in Hits(file, key) : \A j \in Hits(file, key) : i <= j].value
=============================================================================
