--------------------------- MODULE MCRequestPath ---------------------------
(***************************************************************************)
(* Small instances of RequestPath: every way to metadata with a signature  *)
(* in each place that some hop looks at, and what each hop refuses.        *)
(***************************************************************************)
EXTENDS RequestPath, TLC

CONSTANTS r1, r2

Direct == <<"metadata">>
ByGateway == <<"gateway", "metadata">>
ByRouting == <<"routing", "metadata">>
ByBoth == <<"gateway", "routing", "metadata">>

SetBy(path, layers) == [op |-> "set", path |-> path, layers |-> layers]

MCRequest == {r1, r2}

AnyWay ==
    {SetBy(ByBoth, <<"good", "route", "good">>),   \* signed for routing and for metadata
     SetBy(ByGateway, <<"good">>),
     SetBy(ByGateway, <<"bad">>),
     SetBy(ByRouting, <<"route", "bad">>),
     SetBy(ByRouting, <<"docroute">>),
     SetBy(ByRouting, <<"text">>),
     SetBy(<<"gateway", "routing">>, <<"good", "route">>),
     SetBy(<<"gateway">>, <<>>),
     [op |-> "get", path |-> ByBoth, layers |-> <<"route">>],
     [op |-> "get", path |-> Direct, layers |-> <<>>]}

\* The other request: a signed write by /route, or a read by the proxy
MCSent ==
    r1 :> AnyWay
    @@ r2 :> {SetBy(ByBoth, <<"good", "route">>),
              [op |-> "get", path |-> ByGateway, layers |-> <<>>]}

=============================================================================
