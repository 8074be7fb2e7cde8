----------------------------- MODULE MCProtocol -----------------------------
EXTENDS Protocol

CONSTANTS a1, a2

MCFiles == {<<>>, <<a1>>}
\* Less is left to happen when the seeds are asked as well.
MCMaxNodes == [seeded \in BOOLEAN |-> IF seeded THEN 1 ELSE 2]
MCMaxRetries == [seeded \in BOOLEAN |-> IF seeded THEN 0 ELSE 2]
MCPackets == {{a2}}
=============================================================================
