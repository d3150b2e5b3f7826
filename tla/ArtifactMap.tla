---------------------------- MODULE ArtifactMap ----------------------------
(***************************************************************************)
(* What an artifact store promises: a map from the kinds of each place (a   *)
(* tenant's plan, or the plan without a tenant) to the last value stored.   *)
(* A write takes effect at once and at most once, or fails and changes      *)
(* nothing; only ephemeral kinds are removed; a restore forgets a kind and  *)
(* brings back a value that was stored before.                              *)
(***************************************************************************)
CONSTANTS
    Places,      \* where a store keeps its artifacts
    Kinds,       \* artifact kinds
    Writers,     \* calls of write; each stands for the data it stores
    Ephemeral,   \* the kinds of the ephemeral tier
    PlaceOf, KindOf,
    Earlier,     \* the writes that ended before
    None         \* no value

VARIABLES
    value,       \* what a read of a place and kind returns
    open,        \* "idle", "open", "stored" or "failed" for each write
    restoring    \* the places being restored

Init ==
    /\ value \in [Places -> [Kinds -> Earlier \cup {None}]]
    /\ \A w \in Earlier : value[PlaceOf[w]][KindOf[w]] = w
    /\ open = [w \in Writers |-> IF w \in Earlier THEN "stored" ELSE "idle"]
    /\ restoring = {}

Begin(w) ==
    /\ open[w] = "idle"
    /\ open' = [open EXCEPT ![w] = "open"]
    /\ UNCHANGED <<value, restoring>>

\* data too large to be read back is stored, and read as nothing
Store(w) ==
    /\ open[w] \in {"idle", "open"}
    /\ open' = [open EXCEPT ![w] = "stored"]
    /\ \E v \in {w, None} : value' = [value EXCEPT ![PlaceOf[w]][KindOf[w]] = v]
    /\ UNCHANGED restoring

\* a crash fails all writes that are open and ends a restore; at worst the volume is lost
Fail ==
    /\ \E W \in SUBSET {w \in Writers : open[w] \in {"idle", "open"}} :
          open' = [w \in Writers |-> IF w \in W THEN "failed" ELSE open[w]]
    /\ restoring' \in {restoring, {}}
    /\ value' \in {value, [p \in Places |-> [k \in Kinds |-> None]]}

Remove ==
    /\ \E p \in Places, k \in Ephemeral : value' = [value EXCEPT ![p][k] = None]
    /\ UNCHANGED <<open, restoring>>

BeginRestore(p) == restoring' = restoring \cup {p} /\ UNCHANGED <<value, open>>
EndRestore(p)   == restoring' = restoring \ {p} /\ UNCHANGED <<value, open>>

Restore ==
    /\ \E p \in restoring, k \in Kinds :
          \E v \in {w \in Writers : open[w] = "stored" /\ PlaceOf[w] = p /\ KindOf[w] = k}
                   \cup {None} :
             value' = [value EXCEPT ![p][k] = v]
    /\ UNCHANGED <<open, restoring>>

Next ==
    \/ \E w \in Writers : Begin(w) \/ Store(w)
    \/ \E p \in Places : BeginRestore(p) \/ EndRestore(p)
    \/ Fail
    \/ Remove
    \/ Restore

Spec == Init /\ [][Next]_<<value, open, restoring>>
=============================================================================
