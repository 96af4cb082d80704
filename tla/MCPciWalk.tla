----------------------------- MODULE MCPciWalk -----------------------------
(* PciWalk with small arenas.  Mem windows have a granularity of four      *)
(* units, I/O windows of two, and a BAR may be smaller or larger.          *)
EXTENDS PciWalk

MCSizes == [k \in Kinds |-> IF k = "io" THEN {1, 2} ELSE {1, 4, 8}]

\* A BAR may take half of the non-prefetchable arena, as 256 MiB do.
MCLargeSizes == [k \in Kinds |-> IF k = "io" THEN {1} ELSE {1, 32}]

MCGranule == [k \in Kinds |-> IF k = "io" THEN 2 ELSE 4]
MCArenaStart == [k \in Kinds |-> CASE k = "mem" -> 32 [] k = "pref" -> 96 [] k = "io" -> 2]
MCArenaEnd == [k \in Kinds |-> CASE k = "mem" -> 96 [] k = "pref" -> 160 [] k = "io" -> 64]
=============================================================================
