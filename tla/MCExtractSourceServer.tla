----------------------- MODULE MCExtractSourceServer -----------------------
(* A pipeline with up to two file sources and one API source. *)
EXTENDS ExtractSourceServer

CONSTANTS dLoose, dAnch,            \* directories of the file sources
          dApi,                     \* "directory" of the API source
          sLoose, sAnch, sApi

MCPathOf == [s \in Sources |-> CASE s = sLoose -> dLoose [] s = sAnch -> dAnch [] OTHER -> dApi]
MCSchemeOf == [s \in Sources |-> IF s = sApi THEN "api" ELSE "csv"]
MCRegexOf == [p \in Paths |-> IF p = dLoose THEN "loose" ELSE "anchored"]

\* No path is part of another one.
Disjoint == {<<p, p>> : p \in Paths}
\* dLoose is a prefix of dAnch.
Nested == Disjoint \cup {<<dAnch, dLoose>>}
============================================================================
