----------------------------- MODULE MCDesktop -----------------------------
(* Two attachments: one of a single chunk, and one of two chunks of which   *)
(* an older version had stored the first.  Two requests are served at once, *)
(* both of them for the second transfer or one for each.                    *)
EXTENDS Desktop

CONSTANTS t1, t2, film, song, r1, r2, r3

MCTransfers == {t1, t2}
MCContentOf == [t \in MCTransfers |-> IF t = t1 THEN film ELSE song]
MCChunksOf  == [t \in MCTransfers |-> IF t = t1 THEN {1} ELSE {1, 2}]
MCSizeOf    == [a \in {film, song} |-> 1]
MCLegacy    == [t \in MCTransfers |-> IF t = t2 THEN {1} ELSE {}]
MCCorrupt   == [t \in MCTransfers |-> IF t = t2 THEN {2} ELSE {}]
MCFor       == [r \in {r1, r2, r3} |-> IF r = r1 THEN t1 ELSE t2]
MCUses      == [r \in {r1, r2, r3} |->
                  CASE r = r1 -> {"prepare", "purge"}
                    [] r = r2 -> {"prepare", "write", "finalize", "forget"}
                    [] r = r3 -> {"missing", "write", "discard"}]
=============================================================================
