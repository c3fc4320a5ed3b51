----------------------------- MODULE StateStore -----------------------------
(***************************************************************************)
(* services/state: a table of at most MAX_KEYS values with the time they   *)
(* were set.  Every handler is synchronous once the body is read.          *)
(***************************************************************************)
EXTENDS BoundedTable, RequestBody

CONSTANTS Key, Value,
          Undefined,   \* the key or value of a body that has none
          MAX_KEYS,    \* 500 in the code
          MaxClock     \* model bound: milliseconds

StateStoreAssumption ==
    Undefined \notin Key \cup Value /\ MAX_KEYS \in Nat \ {0} /\ MaxClock \in Nat

VARIABLES STATE_,    \* STATE in the code, which is a reserved word here
          clock,
          last     \* history: what each key was last set to and when, and whether it was deleted since

stateVars == <<STATE_, clock, last>>

AllKeys == Key \cup {Undefined}
Values == Value \cup {Undefined}
Item == [key : AllKeys, value : Values, ts : 0..MaxClock]
Never == [ts |-> 0, set |-> FALSE]

StateTypeOK ==
    /\ STATE_ \in Seq(Item) /\ Len(STATE_) <= MAX_KEYS
    /\ clock \in 0..MaxClock
    /\ \A k \in AllKeys :
           last[k] \in {Never} \cup [set : {TRUE}, value : Values, ts : 0..MaxClock, deleted : BOOLEAN]

StateInit == STATE_ = <<>> /\ clock = 0 /\ last = [k \in AllKeys |-> Never]

-----------------------------------------------------------------------------
\* The parser of services/state
StateReads(b) == Resolved(b, [key |-> Undefined, value |-> Undefined])

\* Faulty variant: room is made for a key that has a place already
RoomAlways(key) ==
    IF Len(STATE_) >= MAX_KEYS THEN Without(STATE_, OldestKey(STATE_)) ELSE STATE_

\* The table with room for this key
RoomFor(key) ==
    IF Len(STATE_) >= MAX_KEYS /\ key \notin Keys(STATE_)
    THEN Without(STATE_, OldestKey(STATE_)) ELSE STATE_

setState(key, value) ==
    /\ STATE_' = Stored(RoomFor(key), [key |-> key, value |-> value, ts |-> clock])
    /\ last' = [last EXCEPT ![key] =
                   [set |-> TRUE, value |-> value, ts |-> clock, deleted |-> FALSE]]
    /\ UNCHANGED clock

deleteState(key) ==
    /\ STATE_' = Without(STATE_, key)
    /\ last' = [last EXCEPT ![key] = IF @ = Never THEN @ ELSE [@ EXCEPT !.deleted = TRUE]]
    /\ UNCHANGED clock

\* POST /set; a body without key or value sets the key "undefined".
PostSet(b) == \E p \in StateReads(b) : setState(p.key, p.value)

\* GET /get/<key>: the value, or 404
getState(key) == IF key \in Keys(STATE_) THEN {Entry(STATE_, key).value} ELSE {}

Millisecond == clock < MaxClock /\ clock' = clock + 1 /\ UNCHANGED <<STATE_, last>>

RestartState ==
    /\ STATE_' = <<>> /\ last' = [k \in AllKeys |-> Never]
    /\ UNCHANGED clock

StateNext ==
    \/ \E b \in Bodies([key : Key, value : Value]) : PostSet(b)
    \/ \E k \in AllKeys : deleteState(k)
    \/ Millisecond \/ RestartState

StateSpec == StateInit /\ [][StateNext]_stateVars

-----------------------------------------------------------------------------
(* A key has the value it was last set to until it is deleted, the process *)
(* ends, or MAX_KEYS other keys were set no earlier than it: over any      *)
(* sequence of calls no newer key gives way to an older one, an update     *)
(* costs nobody the place, and a deleted key does not come back (setState, *)
(* deleteState).                                                           *)
KeptUntilCrowdedOut ==
    \A k \in AllKeys :
        IF last[k] = Never \/ (last[k] # Never /\ last[k].deleted) THEN getState(k) = {}
        ELSE \/ getState(k) = {last[k].value}
             \/ /\ getState(k) = {}
                /\ Cardinality({j \in AllKeys \ {k} : last[j] # Never /\ last[j].ts >= last[k].ts})
                       >= MAX_KEYS
=============================================================================
