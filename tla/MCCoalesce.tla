----------------------------- MODULE MCCoalesce -----------------------------
\* Two keys that share a slot.  The first may be served only on failure ("error", which has
\* the behaviours of a miss as well); the second is stale, and its requests are refreshes.
EXTENDS Coalesce, TLC

CONSTANTS k1, k2, s1, r1, r2, r3

MCSlotOf == [k \in Keys |-> s1]
MCWants == [r \in Requests |-> IF r = r1 THEN {k1} ELSE Keys]
MCLookups == {[k \in Keys |-> IF k = k1 THEN "error" ELSE "stale"]}

=============================================================================
