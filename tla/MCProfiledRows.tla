-------------------------- MODULE MCProfiledRows --------------------------
\* A connection of a driver that profiles its calls, with and without an IsValid,
\* or that records its rows.
EXTENDS ProfiledRows

MCConfigs ==
    {[profiler |-> TRUE, rows |-> FALSE, validator |-> v] : v \in BOOLEAN} \cup
    {[profiler |-> FALSE, rows |-> TRUE, validator |-> TRUE]}
=============================================================================
