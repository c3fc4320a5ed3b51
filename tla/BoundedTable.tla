---------------------------- MODULE BoundedTable ----------------------------
(***************************************************************************)
(* The other idiom of bounded memory: an object whose keys are entries     *)
(* with a timestamp, of which the oldest is deleted when there are too     *)
(* many (STATE, PEERS).  Object.keys keeps the order of insertion, which   *)
(* an update does not change, and sort is stable: among entries of one     *)
(* millisecond the first inserted is the oldest.                           *)
(***************************************************************************)
EXTENDS BoundedBuffer

Keys(t) == {t[i].key : i \in DOMAIN t}
PlaceOf(t, key) == CHOOSE i \in DOMAIN t : t[i].key = key
Entry(t, key) == t[PlaceOf(t, key)]

\* delete TABLE[key]
Without(t, key) == IF key \in Keys(t) THEN Spliced(t, PlaceOf(t, key)) ELSE t

\* TABLE[key] = entry
Stored(t, entry) ==
    IF entry.key \in Keys(t)
    THEN [i \in DOMAIN t |-> IF t[i].key = entry.key THEN entry ELSE t[i]]
    ELSE Append(t, entry)

\* keys.sort((a, b) => TABLE[a].ts - TABLE[b].ts)[0]
OldestKey(t) ==
    t[CHOOSE i \in DOMAIN t : \A j \in DOMAIN t :
         t[i].ts < t[j].ts \/ (t[i].ts = t[j].ts /\ i <= j)].key
=============================================================================
