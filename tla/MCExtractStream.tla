-------------------------- MODULE MCExtractStream ---------------------------
(***************************************************************************)
(* Two ticks that overlap, or three posts.                                *)
(***************************************************************************)
EXTENDS ExtractStream, TLC

CONSTANTS t1, t2, p1, p2, p3

MCTicks == {t1, t2}
MCPosts == {p1, p2, p3}
\* The pods share tables only by name, so one pod at a time is enough.
MCDeployed == {{"api"}, {"post"}}
MCPostOnly == {{"post"}}
MCPostModes == {"form", "columns", "raw"}
MCRaw == {"raw"}
MCSources == {"api", "post"}
MCSymmetry == Permutations(MCTicks) \cup Permutations(MCPosts)
============================================================================
