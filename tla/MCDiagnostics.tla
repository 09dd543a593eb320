--------------------------- MODULE MCDiagnostics ---------------------------
\* Two schemas with a cycle, a packaged routine and its body; three moments;
\* two readers of metadata, or one and a reader of MON$.
EXTENDS Diagnostics

CONSTANTS a, b, p, body, r1, r2, w1

MCClienteles == {{r1, r2}, {r1, w1}}

MCObjects == {a, b, p, body}
MCBodyOf == [o \in {p} |-> body]
MCRoots == {a, p}
None == [o \in MCObjects |-> {}]
MCSchemas == <<[None EXCEPT ![a] = {b, p}, ![body] = {a}],
               [None EXCEPT ![a] = {p}, ![body] = {a}]>>
MCMoments ==
    <<[visible |-> TRUE,
       all |-> [statements |-> 2, calls |-> 1, compiled |-> 1, tables |-> 0],
       one |-> [statements |-> 1, calls |-> 2, compiled |-> 1, tables |-> 1]],
      [visible |-> TRUE,
       all |-> [statements |-> 1, calls |-> 0, compiled |-> 0, tables |-> 1],
       one |-> [statements |-> 0, calls |-> 0, compiled |-> 0, tables |-> 0]],
      [visible |-> FALSE,
       all |-> [statements |-> 0, calls |-> 0, compiled |-> 0, tables |-> 0],
       one |-> [statements |-> 0, calls |-> 0, compiled |-> 0, tables |-> 0]]>>
=============================================================================
