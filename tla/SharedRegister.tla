--------------------------- MODULE SharedRegister ---------------------------
(***************************************************************************)
(* What clients of a value behind several services may rely on.  A request *)
(* takes effect at most once and at one moment; a client that gets its     *)
(* outcome knows that this moment lies between its request and its answer; *)
(* a client that is refused knows there was no such moment and will be     *)
(* none; one whose request failed knows nothing, and the effect may still  *)
(* come.  The service that holds the value may forget it.                  *)
(***************************************************************************)
CONSTANTS Request, Nothing

VARIABLES value,     \* the last write, or Nothing
          progress,  \* request: new, open, or its outcome
          told       \* request: what its client was told

registerVars == <<value, progress, told>>

Init ==
    /\ value = Nothing
    /\ progress = [r \in Request |-> <<"new">>]
    /\ told = [r \in Request |-> <<"nothing">>]

Invoke(r) ==
    /\ progress[r] = <<"new">>
    /\ progress' = [progress EXCEPT ![r] = <<"open">>]
    /\ UNCHANGED <<value, told>>

Write(r) ==
    /\ progress[r] = <<"open">>
    /\ value' = r
    /\ progress' = [progress EXCEPT ![r] = <<"written">>]
    /\ UNCHANGED told

Read(r) ==
    /\ progress[r] = <<"open">>
    /\ progress' = [progress EXCEPT ![r] = <<"read", value>>]
    /\ UNCHANGED <<value, told>>

Answer(r) ==
    /\ told[r] = <<"nothing">> /\ progress[r] \notin {<<"new">>, <<"open">>, <<"refused">>}
    /\ told' = [told EXCEPT ![r] = progress[r]]
    /\ UNCHANGED <<value, progress>>

Refuse(r) ==
    /\ told[r] = <<"nothing">> /\ progress[r] = <<"open">>
    /\ progress' = [progress EXCEPT ![r] = <<"refused">>]
    /\ told' = [told EXCEPT ![r] = <<"refused">>]
    /\ UNCHANGED value

\* What breaks may break for several clients at once.
Fail(broken) ==
    /\ \A r \in broken : told[r] = <<"nothing">> /\ progress[r] # <<"new">>
    /\ told' = [r \in Request |-> IF r \in broken THEN <<"failed">> ELSE told[r]]
    /\ UNCHANGED <<value, progress>>

\* The service restarts with an empty table.
Forget ==
    /\ value' = Nothing
    /\ UNCHANGED <<progress, told>>

Next ==
    \/ \E r \in Request :
           Invoke(r) \/ Write(r) \/ Read(r) \/ Answer(r) \/ Refuse(r)
    \/ \E broken \in SUBSET Request : Fail(broken)
    \/ Forget

Spec == Init /\ [][Next]_registerVars

=============================================================================
