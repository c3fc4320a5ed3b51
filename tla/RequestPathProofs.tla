-------------------------- MODULE RequestPathProofs --------------------------
(***************************************************************************)
(* The ways of requests to metadata, for any requests and any wrappings:   *)
(* nothing is applied that was not verified, what clients see is the       *)
(* register of module SharedRegister, and no request drops out between the *)
(* hops.                                                                   *)
(*                                                                         *)
(* One request touches another only through the value they set and the     *)
(* hops they share, so the invariant is a statement of one request: of     *)
(* what was sent (q), its legs (L), its client's answer (a), its effect    *)
(* (e) and the hops that accepted a packet of it (c).                      *)
(***************************************************************************)
EXTENDS RequestPath, FiniteSetTheorems, TLAPS

\* The packets among the first k wrappings
PacketsUpTo(sent, k) == {i \in 1..k : sent[i] \in Packet}

\* What is left after some wrappings were opened, from the outside in, each
\* packet among them well signed and accepted once; or the body is lost.
Carries(sent, layers, c) ==
    \/ layers = <<"empty">>
    \/ /\ Len(layers) <= Len(sent)
       /\ \A j \in 1..Len(layers) : layers[j] = sent[Len(sent) - Len(layers) + j]
       /\ Len(c) = Cardinality(PacketsUpTo(sent, Len(sent) - Len(layers)))
       /\ \A i \in PacketsUpTo(sent, Len(sent) - Len(layers)) : sent[i] = "good"

\* No hop has a call of it left to handle.
Over(L) == \A i \in Depth : L[i].at # "called"

\* What an answer b tells of the effect
Tells(q, L, e, b) ==
    /\ b.status # "none"
    /\ b.status = "200" => e = <<IF q.op = "set" THEN <<"written">> ELSE <<"read", b.body>>>>
    /\ b.status = "404" => Over(L) /\ e \in {<<>>, <<<<"read", Nothing>>>>}
    /\ b.status \in {"400", "403"} => Over(L) /\ e = <<>>

\* The one call that is still to be handled is the last one made.
CallOK(q, L, e, c, i) ==
    L[i].at = "called" =>
        /\ q # Nothing /\ i <= Len(q.path)
        /\ e = <<>>
        /\ \A j \in Depth : j > i => L[j] = Gone
        /\ Carries(q.layers, L[i].layers, c)

LegOK(q, L, e, i) ==
    /\ LegTypeOK(L[i])
    /\ L[i].at # "called" => L[i].layers = <<>>
    /\ L[i].at = "working" => q # Nothing /\ i < Len(q.path)
    /\ L[i].at = "answered" => Tells(q, L, e, L[i].answer)

Waits(leg) == leg.at # "gone" /\ ~leg.cut

\* Who waits for a leg is at work, or is the client.
WaitingOK(q, L, a) ==
    /\ Waits(L[1]) <=> q # Nothing /\ a = None
    /\ Waits(L[2]) <=> L[1].at = "working"
    /\ Waits(L[3]) <=> L[2].at = "working"

EffectOK(q, L, e, c) ==
    e # <<>> =>
        /\ q # Nothing /\ Over(L)
        /\ \/ /\ q.op = "set" /\ e = <<<<"written">>>>
              /\ Len(c) = Cardinality(PacketsUpTo(q.layers, Len(q.layers)))
              /\ \A i \in PacketsUpTo(q.layers, Len(q.layers)) : q.layers[i] = "good"
           \/ q.op = "get" /\ \E v \in Request \cup {Nothing} : e = <<<<"read", v>>>>

Sound(q, L, a, e, c) ==
    /\ q = Nothing => L = [i \in Depth |-> Gone] /\ e = <<>> /\ c = <<>> /\ a = None
    /\ \A i \in Depth : CallOK(q, L, e, c, i) /\ LegOK(q, L, e, i)
    /\ WaitingOK(q, L, a)
    /\ a # None => Tells(q, L, e, a)
    /\ EffectOK(q, L, e, c)

Leg == [at : {"gone", "called", "working", "answered"}, layers : Seq(Wrapping),
        answer : Answer, cut : BOOLEAN]

\* What is left of TypeOK when the legs and the effects are described by Sound
Shapes ==
    /\ request = [r \in Request |-> request[r]]
    /\ \A r \in Request : request[r] \in Sent[r] \cup {Nothing}
    /\ age \in [Request -> {"ahead", "within", "behind"}]
    /\ legs \in [Request -> [Depth -> Leg]]
    /\ answer \in [Request -> Answer]
    /\ trusts \in [Hop -> BOOLEAN]
    /\ store \in Request \cup {Nothing}
    /\ effect = [r \in Request |-> effect[r]]
    /\ checked \in [Request -> Seq(Hop)]
    /\ faults \in 0..MaxFaults

RequestOK(r) == Sound(request[r], legs[r], answer[r], effect[r], checked[r])

PathInv == Shapes /\ \A r \in Request : RequestOK(r)

-----------------------------------------------------------------------------
\* Wrappings

LEMMA PathShape ==
    ASSUME NEW p \in Path
    PROVE  /\ p \in Seq(Hop) /\ Len(p) \in 1..3
           /\ \A i \in 1..Len(p) : p[i] = "metadata" => i = Len(p)
           /\ \A i, j \in 1..Len(p) : p[i] = p[j] => i = j
<1>1. ASSUME NEW x \in Hop, p = <<x>>
      PROVE  p \in Seq(Hop) /\ Len(p) = 1 /\ \A i \in 1..Len(p) : i = 1
  BY <1>1
<1>2. ASSUME NEW x \in Hop, NEW y \in Hop, p = <<x, y>>
      PROVE  p \in Seq(Hop) /\ Len(p) = 2 /\ p[1] = x /\ p[2] = y /\ \A i \in 1..Len(p) : i \in {1, 2}
  BY <1>2
<1>3. ASSUME NEW x \in Hop, NEW y \in Hop, NEW z \in Hop, p = <<x, y, z>>
      PROVE  /\ p \in Seq(Hop) /\ Len(p) = 3 /\ p[1] = x /\ p[2] = y /\ p[3] = z
             /\ \A i \in 1..Len(p) : i \in {1, 2, 3}
  BY <1>3
<1>4. CASE \E x \in Hop : p = <<x>>
  BY <1>4, <1>1
<1>5. CASE p \in {<<"gateway", "metadata">>, <<"routing", "metadata">>, <<"gateway", "routing">>}
  <2>1. PICK x \in Hop, y \in Hop : p = <<x, y>> /\ x # y /\ x # "metadata"
    BY <1>5 DEF Hop
  <2> QED
    BY <2>1, <1>2
<1>6. CASE p = <<"gateway", "routing", "metadata">>
  BY <1>6, <1>3 DEF Hop
<1> QED
  BY <1>4, <1>5, <1>6 DEF Path, Hop

LEMMA OneMorePacket ==
    ASSUME NEW sent \in Seq(Wrapping), NEW k \in Nat, k < Len(sent)
    PROVE  /\ IsFiniteSet(PacketsUpTo(sent, k)) /\ Cardinality(PacketsUpTo(sent, k)) \in Nat
           /\ sent[k + 1] \in Packet =>
                  /\ PacketsUpTo(sent, k + 1) = PacketsUpTo(sent, k) \cup {k + 1}
                  /\ Cardinality(PacketsUpTo(sent, k + 1)) = Cardinality(PacketsUpTo(sent, k)) + 1
           /\ sent[k + 1] \notin Packet => PacketsUpTo(sent, k + 1) = PacketsUpTo(sent, k)
<1>1. IsFiniteSet(PacketsUpTo(sent, k))
  <2>1. IsFiniteSet(1..k)
    BY FS_Interval
  <2>2. PacketsUpTo(sent, k) \subseteq 1..k
    BY DEF PacketsUpTo
  <2> QED
    BY <2>1, <2>2, FS_Subset
<1>2. Cardinality(PacketsUpTo(sent, k)) \in Nat
  BY <1>1, FS_CardinalityType
<1>3. ASSUME sent[k + 1] \in Packet
      PROVE  PacketsUpTo(sent, k + 1) = PacketsUpTo(sent, k) \cup {k + 1}
  BY <1>3 DEF PacketsUpTo
<1>4. k + 1 \notin PacketsUpTo(sent, k)
  BY DEF PacketsUpTo
<1>5. sent[k + 1] \notin Packet => PacketsUpTo(sent, k + 1) = PacketsUpTo(sent, k)
  BY DEF PacketsUpTo
<1> QED
  BY <1>1, <1>2, <1>3, <1>4, <1>5, FS_AddElement

LEMMA NothingOpened ==
    ASSUME NEW sent \in Seq(Wrapping)
    PROVE  Carries(sent, sent, <<>>)
<1>1. PacketsUpTo(sent, 0) = {} /\ Cardinality({}) = 0
  BY FS_EmptySet DEF PacketsUpTo
<1>2. Len(sent) - Len(sent) = 0 /\ Len(sent) <= Len(sent)
  OBVIOUS
<1>3. \A j \in 1..Len(sent) : sent[j] = sent[0 + j]
  OBVIOUS
<1>4. Len(<<>>) = 0
  OBVIOUS
<1> QED
  BY <1>1, <1>2, <1>3, <1>4 DEF Carries

\* A packet that is accepted is opened.
LEMMA Opening ==
    ASSUME NEW sent \in Seq(Wrapping), NEW layers \in Seq(Wrapping), NEW c \in Seq(Hop), NEW h \in Hop,
           Carries(sent, layers, c), layers # <<>>, Head(layers) = "good"
    PROVE  Carries(sent, Tail(layers), Append(c, h))
<1> DEFINE k == Len(sent) - Len(layers)
<1>1. layers # <<"empty">>
  OBVIOUS
<1>2. /\ Len(layers) <= Len(sent)
      /\ \A j \in 1..Len(layers) : layers[j] = sent[k + j]
      /\ Len(c) = Cardinality(PacketsUpTo(sent, k))
      /\ \A i \in PacketsUpTo(sent, k) : sent[i] = "good"
  BY <1>1 DEF Carries
<1>3. k \in Nat /\ k < Len(sent) /\ sent[k + 1] = "good"
  BY <1>2
<1>4. Len(sent) - Len(Tail(layers)) = k + 1
  BY <1>2
<1>5. \A j \in 1..Len(Tail(layers)) : Tail(layers)[j] = sent[k + 1 + j]
  BY <1>2
<1> HIDE DEF k
<1>6. /\ PacketsUpTo(sent, k + 1) = PacketsUpTo(sent, k) \cup {k + 1}
      /\ Cardinality(PacketsUpTo(sent, k + 1)) = Cardinality(PacketsUpTo(sent, k)) + 1
  BY <1>3, OneMorePacket DEF Packet
<1>7. Len(Append(c, h)) = Cardinality(PacketsUpTo(sent, k + 1))
  BY <1>2, <1>6
<1>8. \A i \in PacketsUpTo(sent, k + 1) : sent[i] = "good"
  BY <1>2, <1>3, <1>6
<1>9. Len(Tail(layers)) <= Len(sent)
  BY <1>2
<1> QED
  BY <1>4, <1>5, <1>7, <1>8, <1>9 DEF Carries

\* What is no packet is unwrapped without a check.
LEMMA Unwrapping ==
    ASSUME NEW sent \in Seq(Wrapping), NEW layers \in Seq(Wrapping), NEW c \in Seq(Hop),
           Carries(sent, layers, c), layers # <<>>, Head(layers) = "route"
    PROVE  Carries(sent, Tail(layers), c)
<1> DEFINE k == Len(sent) - Len(layers)
<1>1. layers # <<"empty">>
  OBVIOUS
<1>2. /\ Len(layers) <= Len(sent)
      /\ \A j \in 1..Len(layers) : layers[j] = sent[k + j]
      /\ Len(c) = Cardinality(PacketsUpTo(sent, k))
      /\ \A i \in PacketsUpTo(sent, k) : sent[i] = "good"
  BY <1>1 DEF Carries
<1>3. k \in Nat /\ k < Len(sent) /\ sent[k + 1] = "route"
  BY <1>2
<1>4. Len(sent) - Len(Tail(layers)) = k + 1
  BY <1>2
<1>5. \A j \in 1..Len(Tail(layers)) : Tail(layers)[j] = sent[k + 1 + j]
  BY <1>2
<1> HIDE DEF k
<1>6. PacketsUpTo(sent, k + 1) = PacketsUpTo(sent, k)
  BY <1>3, OneMorePacket DEF Packet
<1>7. Len(Tail(layers)) <= Len(sent)
  BY <1>2
<1> QED
  BY <1>2, <1>4, <1>5, <1>6, <1>7 DEF Carries

-----------------------------------------------------------------------------
\* The legs of one request

\* An answer given while a call is still to be handled tells nothing.
LEMMA StillOpen ==
    ASSUME NEW q, NEW L, NEW e, NEW c, NEW i \in Depth, NEW b,
           CallOK(q, L, e, c, i), L[i].at = "called", Tells(q, L, e, b)
    PROVE  b.status \notin {"none", "200", "404", "400", "403"}
<1>1. e = <<>> /\ ~Over(L)
  BY DEF CallOK, Over
<1> QED
  BY <1>1 DEF Tells

LEMMA FinishedLeg ==
    ASSUME NEW leg \in Leg, NEW b \in Answer, b.status # "none", LegTypeOK(leg), leg.at \in {"called", "working"}
    PROVE  /\ Finished(leg, b) \in Leg /\ LegTypeOK(Finished(leg, b))
           /\ Finished(leg, b).layers = <<>>
           /\ leg.cut => Finished(leg, b) = Gone
           /\ ~leg.cut => Finished(leg, b).at = "answered" /\ Finished(leg, b).answer = b /\ ~Finished(leg, b).cut
           /\ Finished(leg, b).at \in {"gone", "answered"}
           /\ Waits(Finished(leg, b)) <=> Waits(leg)
<1>1. None \in Answer /\ <<>> \in Seq(Wrapping)
  BY DEF None, Answer
<1>2. b # None
  BY DEF None
<1>3. CASE leg.cut
  BY <1>1, <1>3 DEF Leg, Finished, LegTypeOK, Gone, Waits
<1>4. CASE ~leg.cut
  BY <1>1, <1>2, <1>4 DEF Leg, Finished, LegTypeOK, Waits
<1> QED
  BY <1>3, <1>4

\* The handler of the only call left has ended.
LEMMA NoCallAfterReply ==
    ASSUME NEW q, NEW L \in [Depth -> Leg], NEW a, NEW e, NEW c, NEW i \in Depth, NEW b \in Answer,
           Sound(q, L, a, e, c), L[i].at = "called", b.status # "none",
           NEW M, M = [L EXCEPT ![i] = Finished(L[i], b)]
    PROVE  M \in [Depth -> Leg] /\ Over(M)
<1>1. Finished(L[i], b) \in Leg /\ Finished(L[i], b).at # "called"
  BY FinishedLeg DEF Sound, LegOK
<1>2. ASSUME NEW j \in Depth, j # i
      PROVE  L[j].at # "called"
  BY <1>2 DEF Sound, CallOK, Gone, Depth
<1> QED
  BY <1>1, <1>2 DEF Over

LEMMA Replied ==
    ASSUME NEW q, NEW L \in [Depth -> Leg], NEW a, NEW e, NEW c, NEW i \in Depth, NEW b \in Answer,
           Sound(q, L, a, e, c), L[i].at = "called", b.status # "none",
           NEW M, M = [L EXCEPT ![i] = Finished(L[i], b)],
           NEW f, NEW d, Tells(q, M, f, b), EffectOK(q, M, f, d)
    PROVE  Sound(q, M, a, f, d)
<1>1. M[i] = Finished(L[i], b) /\ \A j \in Depth : j # i => M[j] = L[j]
  OBVIOUS
<1>2. /\ LegTypeOK(M[i]) /\ M[i].layers = <<>> /\ M[i].at \in {"gone", "answered"}
      /\ M[i].at = "answered" => M[i].answer = b
      /\ Waits(M[i]) <=> Waits(L[i])
  BY <1>1, FinishedLeg, StillOpen DEF Sound, LegOK, Gone
<1>3. Over(M)
  BY NoCallAfterReply
<1>4. ASSUME NEW x, Tells(q, L, e, x)
      PROVE  Tells(q, M, f, x)
  BY <1>4, StillOpen DEF Sound, Tells
<1>5. \A j \in Depth : CallOK(q, M, f, d, j)
  BY <1>3 DEF Over, CallOK
<1>6. ASSUME NEW j \in Depth
      PROVE  LegOK(q, M, f, j)
  <2>1. CASE j = i
    BY <1>2, <2>1 DEF LegOK
  <2>2. CASE j # i
    BY <1>1, <1>4, <2>2 DEF Sound, LegOK
  <2> QED
    BY <2>1, <2>2
<1>7. WaitingOK(q, M, a)
  BY <1>1, <1>2 DEF Sound, WaitingOK, Depth
<1>8. q # Nothing
  BY DEF Sound, CallOK
<1> QED
  BY <1>4, <1>5, <1>6, <1>7, <1>8 DEF Sound

\* The handler has called the next hop.
LEMMA WorkingLeg ==
    ASSUME NEW leg \in Leg, LegTypeOK(leg), leg.at = "called"
    PROVE  /\ Working(leg) \in Leg /\ LegTypeOK(Working(leg))
           /\ Working(leg).at = "working" /\ Working(leg).layers = <<>>
           /\ Waits(Working(leg)) <=> Waits(leg)
<1>1. Working(leg) = [at |-> "working", layers |-> <<>>, answer |-> leg.answer, cut |-> leg.cut]
  <2> DEFINE one == [leg EXCEPT !.at = "working"]
  <2>1. one = [at |-> "working", layers |-> leg.layers, answer |-> leg.answer, cut |-> leg.cut]
    BY DEF Leg
  <2>2. Working(leg) = [one EXCEPT !.layers = <<>>]
    BY DEF Working
  <2> HIDE DEF one
  <2> QED
    BY <2>1, <2>2
<1>2. <<>> \in Seq(Wrapping)
  OBVIOUS
<1> QED
  BY <1>1, <1>2 DEF Leg, LegTypeOK, Waits

LEMMA CalledLeg ==
    ASSUME NEW layers \in Seq(Wrapping)
    PROVE  /\ Called(layers) \in Leg /\ LegTypeOK(Called(layers)) /\ Called(layers).at = "called"
           /\ Called(layers).layers = layers /\ Waits(Called(layers))
<1>2. None \in Answer
  BY DEF None, Answer
<1>1. Called(layers) = [at |-> "called", layers |-> layers, answer |-> None, cut |-> FALSE]
  <2> DEFINE one == [Gone EXCEPT !.at = "called"]
  <2>1. one = [at |-> "called", layers |-> <<>>, answer |-> None, cut |-> FALSE]
    <3>1. /\ Gone \in Leg /\ Gone.at = "gone" /\ Gone.layers = <<>> /\ Gone.answer = None /\ Gone.cut = FALSE
      BY <1>2 DEF Gone, Leg
    <3>2. ASSUME NEW leg \in Leg
          PROVE  [leg EXCEPT !.at = "called"]
                   = [at |-> "called", layers |-> leg.layers, answer |-> leg.answer, cut |-> leg.cut]
      BY DEF Leg
    <3> QED
      BY <3>1, <3>2
  <2>2. Called(layers) = [one EXCEPT !.layers = layers]
    BY DEF Called
  <2> HIDE DEF one
  <2> QED
    BY <2>1, <2>2
<1> QED
  BY <1>1, <1>2 DEF Leg, LegTypeOK, Waits

\* The legs L become M when leg i makes a call.
CallMade(L, i, layers, M) ==
    /\ M[i] = Working(L[i]) /\ M[i + 1] = Called(layers)
    /\ \A j \in Depth : j \notin {i, i + 1} => M[j] = L[j]

LEMMA CalledOn ==
    ASSUME NEW q, NEW L \in [Depth -> Leg], NEW a, NEW e, NEW c, NEW i \in Depth,
           Sound(q, L, a, e, c), L[i].at = "called", q.path \in Path, i < Len(q.path),
           NEW d, NEW layers \in Seq(Wrapping), Carries(q.layers, layers, d),
           NEW M, CallMade(L, i, layers, M)
    PROVE  Sound(q, M, a, e, d)
<1>0. i + 1 \in Depth /\ i + 1 <= Len(q.path)
  <2>1. PICK n \in 1..3 : n = Len(q.path)
    BY PathShape
  <2>2. i \in 1..3 /\ i < n
    BY <2>1 DEF Depth
  <2>3. i + 1 \in 1..3 /\ i + 1 <= n
    BY <2>2
  <2> QED
    BY <2>1, <2>3 DEF Depth
<1>1. /\ M[i] = Working(L[i]) /\ M[i + 1] = Called(layers)
      /\ \A j \in Depth : j \notin {i, i + 1} => M[j] = L[j]
  BY DEF CallMade
<1>2. /\ M[i] \in Leg /\ LegTypeOK(M[i]) /\ M[i].at = "working" /\ M[i].layers = <<>>
      /\ Waits(M[i]) <=> Waits(L[i])
  BY <1>1, WorkingLeg DEF Sound, LegOK
<1>3. /\ M[i + 1] \in Leg /\ LegTypeOK(M[i + 1]) /\ M[i + 1].at = "called"
      /\ M[i + 1].layers = layers /\ Waits(M[i + 1])
  BY <1>1, CalledLeg
<1>4. /\ q # Nothing /\ e = <<>>
      /\ \A j \in Depth : j > i => L[j] = Gone
      /\ \A j \in Depth : j # i => L[j].at # "called"
  BY DEF Sound, CallOK, Gone, Depth
<1>5. ASSUME NEW x, Tells(q, L, e, x)
      PROVE  Tells(q, M, e, x)
  BY <1>5, StillOpen DEF Sound, Tells
<1>6. ASSUME NEW j \in Depth
      PROVE  CallOK(q, M, e, d, j)
  BY <1>0, <1>1, <1>2, <1>3, <1>4 DEF CallOK, Depth
<1>7. ASSUME NEW j \in Depth
      PROVE  LegOK(q, M, e, j)
  <2>1. CASE j = i
    BY <1>2, <1>4, <2>1 DEF LegOK
  <2>2. CASE j = i + 1
    BY <1>3, <2>2 DEF LegOK
  <2>3. CASE j \notin {i, i + 1}
    BY <1>1, <1>5, <2>3 DEF Sound, LegOK
  <2> QED
    BY <2>1, <2>2, <2>3
<1>8. WaitingOK(q, M, a)
  <2>1. \A j \in Depth : j > i + 1 => M[j].at = "gone"
    BY <1>0, <1>1, <1>4 DEF Gone, Depth
  <2>2. ~Waits(Gone) /\ \A j \in Depth : j > i => ~Waits(L[j]) /\ L[j].at = "gone"
    BY <1>4 DEF Waits, Gone
  <2>3. CASE i = 1
    BY <2>1, <2>2, <2>3, <1>1, <1>2, <1>3 DEF Sound, WaitingOK, Depth, Waits
  <2>4. CASE i = 2
    BY <2>1, <2>2, <2>4, <1>1, <1>2, <1>3 DEF Sound, WaitingOK, Depth, Waits
  <2> QED
    BY <2>3, <2>4, <1>0 DEF Depth
<1>9. EffectOK(q, M, e, d)
  BY <1>4 DEF EffectOK
<1> QED
  BY <1>4, <1>5, <1>6, <1>7, <1>8, <1>9 DEF Sound

LEMMA Invoked ==
    ASSUME NEW L \in [Depth -> Leg], NEW a, NEW e, NEW c,
           Sound(Nothing, L, a, e, c),
           NEW q, q # Nothing, q.path \in Path, q.layers \in Seq(Wrapping),
           NEW M, M = [L EXCEPT ![1] = Called(q.layers)]
    PROVE  M \in [Depth -> Leg] /\ Sound(q, M, a, e, c)
<1>1. L = [i \in Depth |-> Gone] /\ e = <<>> /\ c = <<>> /\ a = None
  BY DEF Sound
<1>2. /\ Called(q.layers) \in Leg /\ LegTypeOK(Called(q.layers)) /\ Called(q.layers).at = "called"
      /\ Called(q.layers).layers = q.layers /\ Waits(Called(q.layers))
  BY CalledLeg
<1>3. 1 \in Depth /\ 1 <= Len(q.path)
  <2>1. PICK n \in 1..3 : n = Len(q.path)
    BY PathShape
  <2>2. 1 <= n /\ 1 \in 1..3
    OBVIOUS
  <2> QED
    BY <2>1, <2>2 DEF Depth
<1>4. M[1] = Called(q.layers) /\ M \in [Depth -> Leg] /\ \A j \in Depth : j # 1 => M[j] = Gone
  BY <1>1, <1>2, <1>3
<1>5. Gone.at = "gone" /\ Gone.layers = <<>> /\ ~Waits(Gone) /\ LegTypeOK(Gone)
  BY DEF Gone, Waits, LegTypeOK, None, Answer
<1>6. Carries(q.layers, q.layers, c)
  BY <1>1, NothingOpened
<1>7. ASSUME NEW j \in Depth
      PROVE  CallOK(q, M, e, c, j) /\ LegOK(q, M, e, j)
  <2>1. CASE j = 1
    BY <1>1, <1>2, <1>3, <1>4, <1>6, <2>1 DEF CallOK, LegOK, Depth
  <2>2. CASE j # 1
    BY <1>4, <1>5, <2>2 DEF CallOK, LegOK
  <2> QED
    BY <2>1, <2>2
<1>8. WaitingOK(q, M, a)
  BY <1>1, <1>2, <1>4, <1>5 DEF WaitingOK, Depth
<1> QED
  BY <1>1, <1>4, <1>7, <1>8 DEF Sound, EffectOK

\* Legs that end, break or pass an answer on, and call no hop
LEMMA LegsEnd ==
    ASSUME NEW q, NEW L \in [Depth -> Leg], NEW a, NEW e, NEW c,
           Sound(q, L, a, e, c), q # Nothing, NEW M \in [Depth -> Leg], NEW b,
           \A j \in Depth :
               /\ LegTypeOK(M[j])
               /\ M[j].at = "called" => L[j].at = "called" /\ M[j].layers = L[j].layers
               /\ M[j].at # "called" => M[j].layers = <<>>
               /\ M[j].at = "working" => L[j].at = "working"
               /\ M[j].at = "answered" => Tells(q, L, e, M[j].answer)
               /\ L[j] = Gone => M[j] = Gone,
           WaitingOK(q, M, b), b # None => Tells(q, L, e, b)
    PROVE  Sound(q, M, b, e, c)
<1>1. Over(L) => Over(M)
  BY DEF Over
<1>2. ASSUME NEW x, Tells(q, L, e, x)
      PROVE  Tells(q, M, e, x)
  BY <1>1, <1>2 DEF Tells
<1>3. ASSUME NEW j \in Depth
      PROVE  CallOK(q, M, e, c, j) /\ LegOK(q, M, e, j)
  BY <1>2 DEF Sound, CallOK, LegOK
<1>4. EffectOK(q, M, e, c)
  BY <1>1 DEF Sound, EffectOK
<1> QED
  BY <1>2, <1>3, <1>4 DEF Sound

LEMMA GoneLeg ==
    /\ Gone \in Leg /\ LegTypeOK(Gone) /\ ~Waits(Gone)
    /\ Gone.at = "gone" /\ Gone.layers = <<>> /\ Failed \in Answer /\ Failed.status = "500"
BY DEF Gone, Leg, LegTypeOK, Waits, None, Answer, Failed, Status

LEMMA OrphanLeg ==
    ASSUME NEW leg \in Leg, LegTypeOK(leg)
    PROVE  /\ Orphan(leg) \in Leg /\ LegTypeOK(Orphan(leg)) /\ ~Waits(Orphan(leg))
           /\ leg = Gone => Orphan(leg) = Gone
           /\ Orphan(leg).at = IF leg.at = "answered" THEN "gone" ELSE leg.at
           /\ Orphan(leg).layers = IF leg.at = "answered" THEN <<>> ELSE leg.layers
<1>1. CASE leg.at = "answered"
  BY <1>1, GoneLeg DEF Orphan, Gone
<1>2. CASE leg.at # "answered"
  <2>1. PICK b \in BOOLEAN : b <=> leg.at # "gone"
    OBVIOUS
  <2>2. Orphan(leg) = [at |-> leg.at, layers |-> leg.layers, answer |-> leg.answer, cut |-> b]
    BY <1>2, <2>1 DEF Orphan, Leg
  <2> DEFINE left == Orphan(leg)
  <2>3. left.at = leg.at /\ left.layers = leg.layers /\ left.answer = leg.answer /\ left.cut = b
    BY <2>2
  <2>4. left \in Leg
    BY <2>2 DEF Leg
  <2>5. leg = Gone => left = Gone
    <3>1. leg = Gone => ~b
      BY <2>1, GoneLeg
    <3>2. ~b => b = FALSE
      BY <2>1
    <3>3. \A x, y \in Leg : x.at = y.at /\ x.layers = y.layers /\ x.answer = y.answer /\ x.cut = y.cut => x = y
      BY DEF Leg
    <3>4. Gone.cut = FALSE
      BY DEF Gone
    <3> QED
      BY <2>3, <2>4, <3>1, <3>2, <3>3, <3>4, GoneLeg
  <2> HIDE DEF left
  <2>6. LegTypeOK(left) /\ ~Waits(left)
    BY <1>2, <2>1, <2>3, <2>4 DEF LegTypeOK, Waits
  <2> QED
    BY <1>2, <2>3, <2>4, <2>5, <2>6 DEF left
<1> QED
  BY <1>1, <1>2

\* The answer of a leg goes to the leg above, or to the client.
LEMMA Returned ==
    ASSUME NEW q, NEW L \in [Depth -> Leg], NEW a, NEW e, NEW c, NEW i \in Depth,
           Sound(q, L, a, e, c), L[i].at = "answered",
           NEW M, M = [j \in Depth |-> IF j = i THEN Gone
                                       ELSE IF j = i - 1 THEN Finished(L[j], L[i].answer)
                                       ELSE L[j]],
           NEW b, b = IF i = 1 THEN L[1].answer ELSE a
    PROVE  M \in [Depth -> Leg] /\ Sound(q, M, b, e, c)
<1>1. /\ Waits(L[i]) /\ Tells(q, L, e, L[i].answer) /\ L[i].answer \in Answer
      /\ L[i].answer.status # "none" /\ L[i].answer # None
  BY DEF Sound, LegOK, LegTypeOK, Waits, Tells
<1>2. q # Nothing
  <2>1. q = Nothing => L[i].at = "gone"
    BY DEF Sound, Gone
  <2> QED
    BY <2>1
<1>3. ASSUME NEW j \in Depth, j = i - 1
      PROVE  /\ L[j].at = "working"
             /\ M[j] = Finished(L[j], L[i].answer)
             /\ M[j] \in Leg /\ LegTypeOK(M[j]) /\ M[j].layers = <<>>
             /\ M[j].at \in {"gone", "answered"} /\ (M[j].at = "answered" => M[j].answer = L[i].answer)
             /\ Waits(M[j]) <=> Waits(L[j])
  <2>1. j \in {1, 2} /\ i = j + 1
    BY <1>3 DEF Depth
  <2>2. L[j].at = "working"
    BY <1>1, <2>1 DEF Sound, WaitingOK
  <2>3. M[j] = Finished(L[j], L[i].answer)
    BY <2>1
  <2> QED
    BY <1>1, <2>2, <2>3, FinishedLeg, GoneLeg DEF Sound, LegOK
<1>4. M[i] = Gone /\ \A j \in Depth : j # i /\ j # i - 1 => M[j] = L[j]
  OBVIOUS
<1>5. M \in [Depth -> Leg]
  <2>1. \A j \in Depth : M[j] \in Leg
    BY <1>3, <1>4, GoneLeg
  <2> QED
    BY <2>1
<1>6. ASSUME NEW j \in Depth
      PROVE  /\ LegTypeOK(M[j])
             /\ M[j].at = "called" => L[j].at = "called" /\ M[j].layers = L[j].layers
             /\ M[j].at # "called" => M[j].layers = <<>>
             /\ M[j].at = "working" => L[j].at = "working"
             /\ M[j].at = "answered" => Tells(q, L, e, M[j].answer)
             /\ L[j] = Gone => M[j] = Gone
  <2>1. CASE j = i
    BY <1>4, <2>1, GoneLeg
  <2>2. CASE j = i - 1
    BY <1>1, <1>3, <2>2, GoneLeg
  <2>3. CASE j # i /\ j # i - 1
    BY <1>4, <2>3 DEF Sound, LegOK
  <2> QED
    BY <2>1, <2>2, <2>3
<1>7. WaitingOK(q, M, b)
  <2>1. CASE i = 1
    BY <1>1, <1>2, <1>4, <2>1, GoneLeg DEF Sound, WaitingOK, Depth
  <2>2. CASE i = 2
    BY <1>1, <1>2, <1>3, <1>4, <2>2, GoneLeg DEF Sound, WaitingOK, Depth
  <2>3. CASE i = 3
    BY <1>1, <1>2, <1>3, <1>4, <2>3, GoneLeg DEF Sound, WaitingOK, Depth
  <2> QED
    BY <2>1, <2>2, <2>3 DEF Depth
<1>8. b # None => Tells(q, L, e, b)
  BY <1>1 DEF Sound
<1> QED
  BY <1>2, <1>5, <1>6, <1>7, <1>8, LegsEnd

\* The legs of a request after leg i of L broke, with `below` in its place
CutAt(M, L, i, below) ==
    /\ below = Orphan(L[i]) \/ (L[i].at = "called" /\ below = Gone)
    /\ M = [j \in Depth |-> IF j = i THEN below
                            ELSE IF j = i - 1 THEN Above(L[j])
                            ELSE L[j]]

\* A broken connection fails the call of the leg above, or the client's.
LEMMA Broken ==
    ASSUME NEW q, NEW L \in [Depth -> Leg], NEW a, NEW e, NEW c, NEW i \in Depth,
           Sound(q, L, a, e, c), Waits(L[i]),
           NEW below, NEW M, CutAt(M, L, i, below),
           NEW b, b = IF i = 1 THEN Status("broken") ELSE a
    PROVE  M \in [Depth -> Leg] /\ Sound(q, M, b, e, c)
<1> USE DEF CutAt
<1>1. /\ below \in Leg /\ LegTypeOK(below) /\ ~Waits(below)
      /\ below.at \in {"gone", L[i].at} /\ below.at # "answered"
      /\ L[i].at = "working" <=> below.at = "working"
      /\ below.at = "called" => below.layers = L[i].layers
      /\ below.at # "called" => below.layers = <<>>
      /\ L[i] # Gone
  <2>1. LegTypeOK(L[i]) /\ (L[i].at # "called" => L[i].layers = <<>>)
    BY DEF Sound, LegOK
  <2>2. L[i] # Gone
    BY GoneLeg
  <2>3. CASE below = Orphan(L[i])
    BY <2>1, <2>2, <2>3, OrphanLeg
  <2>4. CASE L[i].at = "called" /\ below = Gone
    BY <2>2, <2>4, GoneLeg
  <2> QED
    BY <2>3, <2>4
<1>2. q # Nothing
  <2>1. q = Nothing => L[i] = Gone
    BY DEF Sound
  <2> QED
    BY <1>1, <2>1
<1>3. ASSUME NEW j \in Depth, j = i - 1
      PROVE  /\ L[j].at = "working"
             /\ M[j] \in Leg /\ LegTypeOK(M[j]) /\ M[j].layers = <<>>
             /\ M[j].at \in {"gone", "answered"} /\ (M[j].at = "answered" => M[j].answer = Failed)
             /\ Waits(M[j]) <=> Waits(L[j])
  <2>1. j \in {1, 2} /\ i = j + 1
    BY <1>3 DEF Depth
  <2>2. L[j].at = "working"
    BY <2>1 DEF Sound, WaitingOK
  <2>3. M[j] = Finished(L[j], Failed)
    BY <2>1 DEF Above
  <2> QED
    BY <2>2, <2>3, FinishedLeg, GoneLeg DEF Sound, LegOK
<1>4. M[i] = below /\ \A j \in Depth : j # i /\ j # i - 1 => M[j] = L[j]
  OBVIOUS
<1>5. M \in [Depth -> Leg]
  <2>1. \A j \in Depth : M[j] \in Leg
    BY <1>1, <1>3, <1>4
  <2> QED
    BY <2>1
<1>6. Tells(q, L, e, Failed)
  BY GoneLeg DEF Tells
<1>7. ASSUME NEW j \in Depth
      PROVE  /\ LegTypeOK(M[j])
             /\ M[j].at = "called" => L[j].at = "called" /\ M[j].layers = L[j].layers
             /\ M[j].at # "called" => M[j].layers = <<>>
             /\ M[j].at = "working" => L[j].at = "working"
             /\ M[j].at = "answered" => Tells(q, L, e, M[j].answer)
             /\ L[j] = Gone => M[j] = Gone
  <2>1. CASE j = i
    BY <1>1, <1>4, <2>1
  <2>2. CASE j = i - 1
    BY <1>3, <1>6, <2>2, GoneLeg
  <2>3. CASE j # i /\ j # i - 1
    BY <1>4, <2>3 DEF Sound, LegOK
  <2> QED
    BY <2>1, <2>2, <2>3
<1>8. Status("broken") # None /\ Status("broken").status = "broken"
  BY DEF Status, None
<1>9. WaitingOK(q, M, b)
  <2>1. CASE i = 1
    BY <1>1, <1>4, <1>8, <2>1 DEF Sound, WaitingOK, Depth, Waits
  <2>2. CASE i = 2
    BY <1>1, <1>3, <1>4, <2>2 DEF Sound, WaitingOK, Depth, Waits
  <2>3. CASE i = 3
    BY <1>1, <1>3, <1>4, <2>3 DEF Sound, WaitingOK, Depth, Waits
  <2> QED
    BY <2>1, <2>2, <2>3 DEF Depth
<1>10. b # None => Tells(q, L, e, b)
  BY <1>8 DEF Sound, Tells
<1> QED
  BY <1>2, <1>5, <1>7, <1>9, <1>10, LegsEnd

\* A process that ends takes at most one working leg of a request with it (D).
LEMMA Died ==
    ASSUME NEW q, NEW L \in [Depth -> Leg], NEW a, NEW e, NEW c, NEW D \in SUBSET Depth,
           Sound(q, L, a, e, c), q # Nothing => q.path \in Path,
           \A j \in D : L[j].at = "working", \A j, k \in D : j = k,
           NEW M, M = [j \in Depth |-> IF j \in D THEN Gone
                                       ELSE IF j - 1 \in D THEN Orphan(L[j])
                                       ELSE IF j + 1 \in D /\ Waits(L[j + 1]) THEN Above(L[j])
                                       ELSE L[j]],
           NEW b, b = IF 1 \in D /\ Waits(L[1]) THEN Status("broken") ELSE a
    PROVE  M \in [Depth -> Leg] /\ Sound(q, M, b, e, c)
<1>1. CASE D = {}
  <2>1. M = L /\ b = a
    <3>1. M = [j \in Depth |-> L[j]]
      BY <1>1
    <3> QED
      BY <1>1, <3>1
  <2> QED
    BY <2>1
<1>2. CASE D # {}
  <2>1. PICK d \in D : D = {d} /\ L[d].at = "working"
    BY <1>2
  <2>2. q # Nothing /\ d < Len(q.path) /\ d \in Depth
    BY <2>1 DEF Sound, LegOK
  <2>3. d \in {1, 2}
    <3>1. PICK n \in 1..3 : n = Len(q.path)
      BY <2>2, PathShape
    <3>2. d \in 1..3 /\ d < n
      BY <2>2, <3>1 DEF Depth
    <3> QED
      BY <3>2
  <2>4. M[d] = Gone /\ M[d + 1] = Orphan(L[d + 1]) /\ d + 1 \in Depth
    BY <2>1, <2>3 DEF Depth
  <2>5. \A j \in Depth : j > d + 1 => M[j] = L[j]
    BY <2>1, <2>3 DEF Depth
  <2>6. ASSUME NEW j \in Depth, j = d - 1
        PROVE  /\ M[j] = IF Waits(L[d]) THEN Finished(L[j], Failed) ELSE L[j]
               /\ M[j] \in Leg /\ LegTypeOK(M[j]) /\ M[j].layers = <<>>
               /\ M[j].at \in {"gone", "answered"} \/ M[j] = L[j]
               /\ M[j].at \notin {"called", "working"} /\ (M[j].at = "answered" => M[j] = L[j] \/ M[j].answer = Failed)
               /\ Waits(M[j]) <=> Waits(L[j])
    <3>1. j = 1 /\ d = 2
      BY <2>3, <2>6 DEF Depth
    <3>2. M[j] = IF Waits(L[d]) THEN Finished(L[j], Failed) ELSE L[j]
      BY <2>1, <3>1 DEF Above
    <3>3. Waits(L[d]) <=> L[j].at = "working"
      BY <3>1 DEF Sound, WaitingOK
    <3>4. CASE Waits(L[d])
      BY <3>2, <3>3, <3>4, FinishedLeg, GoneLeg DEF Sound, LegOK
    <3>5. CASE ~Waits(L[d])
      <4>1. L[j].at # "called"
        BY <2>1, <3>1 DEF Sound, CallOK, Gone, Depth
      <4> QED
        BY <3>2, <3>3, <3>5, <4>1 DEF Sound, LegOK
    <3> QED
      BY <3>2, <3>4, <3>5
  <2>7. /\ M[d + 1] \in Leg /\ LegTypeOK(M[d + 1]) /\ ~Waits(M[d + 1])
        /\ L[d + 1] = Gone => M[d + 1] = Gone
        /\ M[d + 1].at = IF L[d + 1].at = "answered" THEN "gone" ELSE L[d + 1].at
        /\ M[d + 1].layers = IF L[d + 1].at = "answered" THEN <<>> ELSE L[d + 1].layers
    BY <2>4, OrphanLeg DEF Sound, LegOK
  <2>8. \A j \in Depth : j = d \/ j = d + 1 \/ j > d + 1 \/ j = d - 1
    BY <2>3 DEF Depth
  <2>9. M \in [Depth -> Leg]
    <3>1. ASSUME NEW j \in Depth
          PROVE  M[j] \in Leg
      BY <2>4, <2>5, <2>6, <2>7, <2>8, GoneLeg
    <3> QED
      BY <3>1
  <2>10. Tells(q, L, e, Failed)
    BY GoneLeg DEF Tells
  <2>11. ASSUME NEW j \in Depth
         PROVE  /\ LegTypeOK(M[j])
                /\ M[j].at = "called" => L[j].at = "called" /\ M[j].layers = L[j].layers
                /\ M[j].at # "called" => M[j].layers = <<>>
                /\ M[j].at = "working" => L[j].at = "working"
                /\ M[j].at = "answered" => Tells(q, L, e, M[j].answer)
                /\ L[j] = Gone => M[j] = Gone
    <3>1. CASE j = d
      BY <2>4, <3>1, GoneLeg
    <3>2. CASE j = d + 1
      BY <2>7, <3>2 DEF Sound, LegOK
    <3>3. CASE j > d + 1
      BY <2>5, <3>3 DEF Sound, LegOK
    <3>4. CASE j = d - 1
      <4>1. L[j] = Gone => M[j] = Gone
        <5>1. d = 2 /\ j = 1
          BY <2>3, <3>4 DEF Depth
        <5>2. L[j] = Gone => ~Waits(L[d])
          BY <5>1, GoneLeg DEF Sound, WaitingOK
        <5> QED
          BY <2>6, <3>4, <5>2
      <4> QED
        BY <2>6, <2>10, <3>4, <4>1 DEF Sound, LegOK
    <3> QED
      BY <2>8, <3>1, <3>2, <3>3, <3>4
  <2>12. Status("broken") # None /\ Status("broken").status = "broken"
    BY DEF Status, None
  <2>13. WaitingOK(q, M, b)
    <3>1. CASE d = 1
      <4>1. M[1] = Gone /\ M[3] = L[3] /\ ~Waits(M[2])
        BY <2>4, <2>5, <2>7, <3>1 DEF Depth
      <4>2. Waits(L[1]) => b # None
        BY <2>1, <2>12, <3>1
      <4>3. ~Waits(L[1]) => b # None
        BY <2>1, <2>2, <3>1 DEF Sound, WaitingOK
      <4>4. M[2].at = "working" <=> L[2].at = "working"
        BY <2>7, <3>1
      <4> QED
        BY <4>1, <4>2, <4>3, <4>4, GoneLeg DEF Sound, WaitingOK
    <3>2. CASE d = 2
      <4>1. M[2] = Gone /\ ~Waits(M[3]) /\ b = a
        BY <2>1, <2>4, <2>7, <3>2
      <4>2. M[1].at # "working" /\ (Waits(M[1]) <=> Waits(L[1]))
        BY <2>6, <3>2 DEF Depth
      <4> QED
        BY <4>1, <4>2, GoneLeg DEF Sound, WaitingOK
    <3> QED
      BY <2>3, <3>1, <3>2
  <2>14. b # None => Tells(q, L, e, b)
    BY <2>12 DEF Sound, Tells
  <2> QED
    BY <2>2, <2>9, <2>11, <2>13, <2>14, LegsEnd
<1> QED
  BY <1>1, <1>2

-----------------------------------------------------------------------------
\* The handlers

LEMMA SentShape ==
    ASSUME Shapes, NEW r \in Request, request[r] # Nothing
    PROVE  /\ request[r].op \in {"set", "get"} /\ request[r].path \in Path
           /\ request[r].layers \in Seq(Wrapping)
BY RequestAssumption DEF Shapes

\* A step of one request leaves the others alone.
LEMMA OthersSound ==
    ASSUME PathInv, Shapes', NEW r \in Request, RequestOK(r)',
           \A s \in Request \ {r} : /\ request'[s] = request[s] /\ legs'[s] = legs[s]
                                    /\ answer'[s] = answer[s] /\ effect'[s] = effect[s]
                                    /\ checked'[s] = checked[s]
    PROVE  PathInv'
BY DEF PathInv, RequestOK

LEMMA ReplyStep ==
    ASSUME PathInv, NEW r \in Request, NEW i \in Depth, legs[r][i].at = "called",
           NEW b \in Answer, b.status # "none", Reply(r, i, b),
           store' \in Request \cup {Nothing},
           NEW f, effect' = [effect EXCEPT ![r] = f],
           NEW d \in Seq(Hop), checked' = [checked EXCEPT ![r] = d],
           \A M : Over(M) => Tells(request[r], M, f, b) /\ EffectOK(request[r], M, f, d)
    PROVE  PathInv'
<1>0. PICK M : M = [legs[r] EXCEPT ![i] = Finished(legs[r][i], b)]
  OBVIOUS
<1>1. Sound(request[r], legs[r], answer[r], effect[r], checked[r]) /\ legs[r] \in [Depth -> Leg]
  BY DEF PathInv, Shapes, RequestOK
<1>2. M \in [Depth -> Leg] /\ Over(M)
  BY <1>0, <1>1, NoCallAfterReply
<1>3. Sound(request[r], M, answer[r], f, d)
  BY <1>0, <1>1, <1>2, Replied
<1>4. legs' = [legs EXCEPT ![r] = M]
  BY <1>0 DEF Reply, PathInv, Shapes
<1>5. /\ legs'[r] = M /\ effect'[r] = f /\ checked'[r] = d
      /\ \A s \in Request \ {r} : legs'[s] = legs[s] /\ effect'[s] = effect[s] /\ checked'[s] = checked[s]
      /\ legs' \in [Request -> [Depth -> Leg]]
      /\ effect' = [s \in Request |-> effect'[s]] /\ checked' \in [Request -> Seq(Hop)]
  BY <1>2, <1>4 DEF PathInv, Shapes
<1>6. UNCHANGED <<request, age, answer, trusts, faults>>
  BY DEF Reply
<1>7. Shapes'
  BY <1>5, <1>6 DEF PathInv, Shapes
<1>8. RequestOK(r)'
  BY <1>3, <1>5, <1>6 DEF RequestOK
<1> QED
  BY <1>5, <1>6, <1>7, <1>8, OthersSound

LEMMA CallStep ==
    ASSUME PathInv, NEW r \in Request, NEW i \in Depth, legs[r][i].at = "called",
           i < Len(request[r].path),
           NEW layers \in Seq(Wrapping), CallOn(r, i, layers),
           NEW d \in Seq(Hop), checked' = [checked EXCEPT ![r] = d],
           Carries(request[r].layers, layers, d)
    PROVE  PathInv'
<1>0. PICK M : M = [legs[r] EXCEPT ![i] = Working(legs[r][i]), ![i + 1] = Called(layers)]
  OBVIOUS
<1>1. Sound(request[r], legs[r], answer[r], effect[r], checked[r]) /\ legs[r] \in [Depth -> Leg]
  BY DEF PathInv, Shapes, RequestOK
<1>2. request[r] # Nothing
  BY <1>1 DEF Sound, CallOK
<1>3. request[r].path \in Path
  BY <1>2, SentShape DEF PathInv
<1>4. M \in [Depth -> Leg] /\ Sound(request[r], M, answer[r], effect[r], d)
  <2>1. i + 1 \in Depth /\ i # i + 1
    <3>1. PICK n \in 1..3 : n = Len(request[r].path)
      BY <1>3, PathShape
    <3>2. i \in 1..3 /\ i < n
      BY <3>1 DEF Depth
    <3>3. i + 1 \in 1..3 /\ i # i + 1
      BY <3>2
    <3> QED
      BY <3>3 DEF Depth
  <2>2. /\ M[i] = Working(legs[r][i]) /\ M[i + 1] = Called(layers)
        /\ M = [j \in Depth |-> M[j]] /\ \A j \in Depth : j \notin {i, i + 1} => M[j] = legs[r][j]
    BY <1>0, <1>1, <2>1
  <2>3. Sound(request[r], M, answer[r], effect[r], d)
    <3>1. CallMade(legs[r], i, layers, M)
      BY <2>2 DEF CallMade
    <3> QED
      BY <1>1, <1>3, <3>1, CalledOn
  <2>4. LegTypeOK(legs[r][i])
    BY <1>1 DEF Sound, LegOK
  <2>5. \A j \in Depth : M[j] \in Leg
    BY <1>1, <2>2, <2>4, WorkingLeg, CalledLeg
  <2> QED
    BY <2>2, <2>3, <2>5
<1>5. legs' = [legs EXCEPT ![r] = M]
  BY <1>0 DEF CallOn, PathInv, Shapes
<1>6. /\ legs'[r] = M /\ checked'[r] = d
      /\ \A s \in Request \ {r} : legs'[s] = legs[s] /\ checked'[s] = checked[s]
      /\ legs' \in [Request -> [Depth -> Leg]]
      /\ checked' \in [Request -> Seq(Hop)]
  BY <1>4, <1>5 DEF PathInv, Shapes
<1>7. UNCHANGED <<request, age, answer, trusts, store, effect, faults>>
  BY DEF CallOn
<1>8. Shapes'
  BY <1>6, <1>7 DEF PathInv, Shapes
<1>9. RequestOK(r)'
  BY <1>4, <1>6, <1>7 DEF RequestOK
<1> QED
  BY <1>6, <1>7, <1>8, <1>9, OthersSound

\* What a hop may take a call for
LEMMA Called1 ==
    ASSUME PathInv, NEW r \in Request, NEW i \in Depth, legs[r][i].at = "called"
    PROVE  /\ request[r] # Nothing /\ effect[r] = <<>> /\ checked[r] \in Seq(Hop)
           /\ legs[r][i].layers \in Seq(Wrapping) /\ request[r].layers \in Seq(Wrapping)
           /\ Carries(request[r].layers, legs[r][i].layers, checked[r])
           /\ effect = [effect EXCEPT ![r] = <<>>]
           /\ checked = [checked EXCEPT ![r] = checked[r]]
<1>1. CallOK(request[r], legs[r], effect[r], checked[r], i) /\ legs[r] \in [Depth -> Leg]
  BY DEF PathInv, Shapes, RequestOK, Sound
<1>2. /\ request[r] # Nothing /\ effect[r] = <<>>
      /\ Carries(request[r].layers, legs[r][i].layers, checked[r])
  BY <1>1 DEF CallOK
<1>3. legs[r][i].layers \in Seq(Wrapping)
  BY <1>1 DEF Leg
<1>4. request[r].layers \in Seq(Wrapping)
  BY <1>2, SentShape DEF PathInv
<1>5. /\ checked[r] \in Seq(Hop) /\ effect = [effect EXCEPT ![r] = <<>>]
      /\ checked = [checked EXCEPT ![r] = checked[r]]
  BY <1>2 DEF PathInv, Shapes
<1> QED
  BY <1>2, <1>3, <1>4, <1>5

LEMMA ReadsOpens ==
    ASSUME PathInv, NEW r \in Request, NEW i \in Depth, NEW h \in Hop, legs[r][i].at = "called",
           Reads(r, i, h)
    PROVE  \E d \in Seq(Hop) : /\ checked' = [checked EXCEPT ![r] = d]
                               /\ Carries(request[r].layers, Inner(r, i), d)
                               /\ Inner(r, i) \in Seq(Wrapping)
<1> DEFINE layers == legs[r][i].layers
<1>1. /\ layers \in Seq(Wrapping) /\ request[r].layers \in Seq(Wrapping) /\ checked[r] \in Seq(Hop)
      /\ Carries(request[r].layers, layers, checked[r])
      /\ checked = [checked EXCEPT ![r] = checked[r]]
  BY Called1
<1>2. CASE Starts(layers, Packet)
  <2>1. Head(layers) = "good" /\ checked' = [checked EXCEPT ![r] = Append(checked[r], h)]
    BY <1>2 DEF Reads, Accepts
  <2>2. Inner(r, i) = Tail(layers) /\ layers # <<>>
    BY <1>2 DEF Inner, Starts
  <2>3. Tail(layers) \in Seq(Wrapping) /\ Append(checked[r], h) \in Seq(Hop)
    BY <1>1, <2>2
  <2>4. Carries(request[r].layers, Tail(layers), Append(checked[r], h))
    BY <1>1, <2>1, <2>2, Opening
  <2> QED
    BY <2>1, <2>2, <2>3, <2>4
<1>3. CASE ~Starts(layers, Packet)
  <2>1. checked' = checked
    BY <1>3 DEF Reads
  <2>2. Inner(r, i) = layers
    BY <1>3 DEF Inner
  <2> QED
    BY <1>1, <2>1, <2>2
<1> QED
  BY <1>2, <1>3

LEMMA RefusedStep ==
    ASSUME PathInv, NEW r \in Request, NEW i \in Depth, legs[r][i].at = "called",
           NEW s \in {"400", "403", "404"}, Refused(r, i, s)
    PROVE  PathInv'
<1>1. Status(s) \in Answer /\ Status(s).status = s
  BY DEF Status, Answer
<1>2. /\ Reply(r, i, Status(s)) /\ store' = store
      /\ effect' = [effect EXCEPT ![r] = <<>>] /\ checked' = [checked EXCEPT ![r] = checked[r]]
  BY Called1 DEF Refused
<1>3. \A M : Over(M) => /\ Tells(request[r], M, <<>>, Status(s))
                        /\ EffectOK(request[r], M, <<>>, checked[r])
  BY <1>1 DEF Tells, EffectOK
<1>4. store' \in Request \cup {Nothing} /\ checked[r] \in Seq(Hop) /\ Status(s).status # "none"
  BY <1>1, <1>2 DEF PathInv, Shapes
<1> QED
  BY <1>1, <1>2, <1>3, <1>4, ReplyStep

LEMMA ProxyStep ==
    ASSUME PathInv, NEW r \in Request, NEW i \in Depth, Proxy(r, i)
    PROVE  PathInv'
<1>1. legs[r][i].at = "called" /\ i < Len(request[r].path)
  BY DEF Proxy, Handles, NextHop
<1>2. CASE RefusesPacket(r, i, "gateway")
  BY <1>1, <1>2, RefusedStep DEF RefusesPacket
<1>3. CASE Reads(r, i, "gateway") /\ CallOn(r, i, Inner(r, i))
  <2>1. PICK d \in Seq(Hop) : /\ checked' = [checked EXCEPT ![r] = d]
                              /\ Carries(request[r].layers, Inner(r, i), d)
                              /\ Inner(r, i) \in Seq(Wrapping)
    BY <1>1, <1>3, ReadsOpens DEF Hop
  <2> QED
    BY <1>1, <1>3, <2>1, CallStep
<1> QED
  BY <1>2, <1>3 DEF Proxy

LEMMA PassThroughStep ==
    ASSUME PathInv, NEW r \in Request, NEW i \in Depth, PassThrough(r, i)
    PROVE  PathInv'
<1>1. legs[r][i].at = "called" /\ i < Len(request[r].path)
  BY DEF PassThrough, Handles, NextHop
<1>2. CallOn(r, i, legs[r][i].layers) /\ checked' = [checked EXCEPT ![r] = checked[r]]
  BY <1>1, Called1 DEF PassThrough
<1> QED
  BY <1>1, <1>2, Called1, CallStep

LEMMA RouteStep ==
    ASSUME PathInv, NEW r \in Request, NEW i \in Depth, Route(r, i)
    PROVE  PathInv'
<1>1. legs[r][i].at = "called"
  BY DEF Route, Handles
<1>2. CASE RefusesPacket(r, i, "routing")
  BY <1>1, <1>2, RefusedStep DEF RefusesPacket
<1>3. CASE ~RefusesPacket(r, i, "routing")
  <2>0. /\ Reads(r, i, "routing")
        /\ IsRouted(r, i) => CallOn(r, i, Forwarded(Inner(r, i)))
        /\ ~IsRouted(r, i) => Reply(r, i, Status("400")) /\ UNCHANGED <<store, effect>>
    BY <1>3 DEF Route
  <2>1. PICK d \in Seq(Hop) : /\ checked' = [checked EXCEPT ![r] = d]
                              /\ Carries(request[r].layers, Inner(r, i), d)
                              /\ Inner(r, i) \in Seq(Wrapping)
    BY <1>1, <2>0, ReadsOpens DEF Hop
  <2>2. CASE IsRouted(r, i)
    <3>1. i < Len(request[r].path) /\ Inner(r, i) # <<>>
      BY <2>2 DEF IsRouted, NextHop, Starts
    <3>2. CallOn(r, i, Forwarded(Inner(r, i)))
      BY <2>0, <2>2
    <3>3. CASE Head(Inner(r, i)) = "route"
      <4>1. Forwarded(Inner(r, i)) = Tail(Inner(r, i))
        BY <3>3 DEF Forwarded
      <4>2. Tail(Inner(r, i)) \in Seq(Wrapping)
        BY <2>1, <3>1
      <4>3. Carries(request[r].layers, Tail(Inner(r, i)), d)
        BY <1>1, <2>1, <3>1, <3>3, Unwrapping, Called1
      <4> QED
        BY <1>1, <2>1, <3>1, <3>2, <4>1, <4>2, <4>3, CallStep
    <3>4. CASE Head(Inner(r, i)) # "route"
      <4>1. Forwarded(Inner(r, i)) = <<"empty">>
        BY <3>4 DEF Forwarded
      <4>2. <<"empty">> \in Seq(Wrapping) /\ Carries(request[r].layers, <<"empty">>, d)
        BY DEF Carries, Wrapping
      <4> QED
        BY <1>1, <2>1, <3>1, <3>2, <4>1, <4>2, CallStep
    <3> QED
      BY <3>3, <3>4
  <2>3. CASE ~IsRouted(r, i)
    <3>1. Reply(r, i, Status("400")) /\ UNCHANGED <<store, effect>>
      BY <2>0, <2>3
    <3>2. Status("400") \in Answer /\ Status("400").status = "400"
      BY DEF Status, Answer
    <3>3. \A M : Over(M) => Tells(request[r], M, <<>>, Status("400")) /\ EffectOK(request[r], M, <<>>, d)
      BY <3>2 DEF Tells, EffectOK
    <3>4. effect' = [effect EXCEPT ![r] = <<>>]
      BY <1>1, <3>1, Called1
    <3>5. store' \in Request \cup {Nothing}
      BY <3>1 DEF PathInv, Shapes
    <3> QED
      BY <1>1, <2>1, <3>1, <3>2, <3>3, <3>4, <3>5, ReplyStep
  <2> QED
    BY <2>2, <2>3
<1> QED
  BY <1>2, <1>3

LEMMA SetStep ==
    ASSUME PathInv, NEW r \in Request, NEW i \in Depth, Set(r, i)
    PROVE  PathInv'
<1>1. legs[r][i].at = "called" /\ request[r].op = "set" /\ request[r] # Nothing
  BY DEF Set, Handles, IsHop
<1>2. CASE RefusesPacket(r, i, "metadata")
  BY <1>1, <1>2, RefusedStep DEF RefusesPacket
<1>3. CASE ~RefusesPacket(r, i, "metadata")
  <2>0. /\ Reads(r, i, "metadata")
        /\ Inner(r, i) = <<>> => /\ store' = r
                                 /\ effect' = [effect EXCEPT ![r] = Append(@, <<"written">>)]
                                 /\ Reply(r, i, Ok(r))
        /\ Inner(r, i) # <<>> => Reply(r, i, Status("400")) /\ UNCHANGED <<store, effect>>
    BY <1>3 DEF Set
  <2>1. PICK d \in Seq(Hop) : /\ checked' = [checked EXCEPT ![r] = d]
                              /\ Carries(request[r].layers, Inner(r, i), d)
                              /\ Inner(r, i) \in Seq(Wrapping)
    BY <1>1, <2>0, ReadsOpens DEF Hop
  <2>2. CASE Inner(r, i) = <<>>
    <3>1. effect' = [effect EXCEPT ![r] = <<<<"written">>>>]
      <4>1. effect[r] = <<>> /\ Append(<<>>, <<"written">>) = <<<<"written">>>>
        BY <1>1, Called1
      <4> QED
        BY <2>0, <2>2, <4>1
    <3>2. Ok(r) \in Answer /\ Ok(r).status = "200"
      BY DEF Ok, Answer
    <3>3. /\ Len(d) = Cardinality(PacketsUpTo(request[r].layers, Len(request[r].layers)))
          /\ \A j \in PacketsUpTo(request[r].layers, Len(request[r].layers)) : request[r].layers[j] = "good"
      <4>0. request[r].layers \in Seq(Wrapping)
        BY <1>1, Called1
      <4>1. PICK n \in Nat : n = Len(request[r].layers)
        BY <4>0
      <4>2. Len(request[r].layers) - Len(<<>>) = n
        BY <4>1
      <4>3. <<>> # <<"empty">>
        OBVIOUS
      <4> QED
        BY <2>1, <2>2, <4>1, <4>2, <4>3 DEF Carries
    <3>4. \A M : Over(M) => /\ Tells(request[r], M, <<<<"written">>>>, Ok(r))
                            /\ EffectOK(request[r], M, <<<<"written">>>>, d)
      BY <1>1, <3>2, <3>3 DEF Tells, EffectOK
    <3>5. store' \in Request \cup {Nothing}
      BY <2>0, <2>2
    <3> QED
      BY <1>1, <2>0, <2>1, <2>2, <3>1, <3>2, <3>4, <3>5, ReplyStep
  <2>3. CASE Inner(r, i) # <<>>
    <3>2. Status("400") \in Answer /\ Status("400").status = "400"
      BY DEF Status, Answer
    <3>3. \A M : Over(M) => Tells(request[r], M, <<>>, Status("400")) /\ EffectOK(request[r], M, <<>>, d)
      BY <3>2 DEF Tells, EffectOK
    <3>4. effect' = [effect EXCEPT ![r] = <<>>]
      BY <1>1, <2>0, <2>3, Called1
    <3>5. store' \in Request \cup {Nothing}
      BY <2>0, <2>3 DEF PathInv, Shapes
    <3> QED
      BY <1>1, <2>0, <2>1, <2>3, <3>2, <3>3, <3>4, <3>5, ReplyStep
  <2> QED
    BY <2>2, <2>3
<1> QED
  BY <1>2, <1>3

LEMMA GetStep ==
    ASSUME PathInv, NEW r \in Request, NEW i \in Depth, Get(r, i)
    PROVE  PathInv'
<1>1. legs[r][i].at = "called" /\ request[r].op = "get" /\ request[r] # Nothing
  BY DEF Get, Handles, IsHop
<1>2. PICK b : b = IF store = Nothing THEN Status("404") ELSE Ok(store)
  OBVIOUS
<1>3. Reply(r, i, b) /\ store' = store /\ checked' = [checked EXCEPT ![r] = checked[r]]
  BY <1>1, <1>2, Called1 DEF Get
<1>4. effect' = [effect EXCEPT ![r] = <<<<"read", store>>>>]
  <2>1. effect[r] = <<>> /\ Append(<<>>, <<"read", store>>) = <<<<"read", store>>>>
    BY <1>1, Called1
  <2>2. effect' = [effect EXCEPT ![r] = Append(@, <<"read", store>>)]
    BY DEF Get
  <2> QED
    BY <2>1, <2>2
<1>5. /\ b \in Answer /\ b.status \in {"200", "404"}
      /\ b.status = "200" => b.body = store
      /\ b.status = "404" => store = Nothing
  BY <1>2 DEF Status, Ok, Answer, PathInv, Shapes
<1>6. store \in Request \cup {Nothing}
  BY DEF PathInv, Shapes
<1>7. \A M : Over(M) => /\ Tells(request[r], M, <<<<"read", store>>>>, b)
                        /\ EffectOK(request[r], M, <<<<"read", store>>>>, checked[r])
  BY <1>1, <1>5, <1>6 DEF Tells, EffectOK
<1>8. checked[r] \in Seq(Hop)
  BY DEF PathInv, Shapes
<1> QED
  BY <1>1, <1>3, <1>4, <1>5, <1>6, <1>7, <1>8, ReplyStep

-----------------------------------------------------------------------------
\* Clients, answers and faults

LEMMA SendStep ==
    ASSUME PathInv, NEW r \in Request, NEW q \in Sent[r], Send(r, q)
    PROVE  PathInv'
<1>1. /\ request[r] = Nothing /\ request' = [request EXCEPT ![r] = q]
      /\ UNCHANGED <<answer, trusts, store, effect, checked, faults>>
  BY DEF Send
<1>2. age' \in [Request -> {"ahead", "within", "behind"}]
  BY DEF Send, PathInv, Shapes
<1>3. q # Nothing /\ q.path \in Path /\ q.layers \in Seq(Wrapping)
  BY RequestAssumption
<1>4. PICK M : M = [legs[r] EXCEPT ![1] = Called(q.layers)]
  OBVIOUS
<1>5. legs[r] \in [Depth -> Leg] /\ Sound(Nothing, legs[r], answer[r], effect[r], checked[r])
  BY <1>1 DEF PathInv, Shapes, RequestOK
<1>6. M \in [Depth -> Leg]
  BY <1>3, <1>4, <1>5, CalledLeg
<1>7. Sound(q, M, answer[r], effect[r], checked[r])
  BY <1>3, <1>4, <1>5, Invoked
<1>8. legs' = [legs EXCEPT ![r] = M]
  BY <1>4 DEF Send, PathInv, Shapes
<1>9. /\ legs'[r] = M /\ legs' \in [Request -> [Depth -> Leg]] /\ request'[r] = q
      /\ \A t \in Request \ {r} : legs'[t] = legs[t] /\ request'[t] = request[t]
  BY <1>1, <1>6, <1>8 DEF PathInv, Shapes
<1>10. Shapes'
  BY <1>1, <1>2, <1>9 DEF PathInv, Shapes
<1>11. RequestOK(r)'
  BY <1>1, <1>7, <1>9 DEF RequestOK
<1> QED
  BY <1>1, <1>9, <1>10, <1>11, OthersSound

LEMMA ReturnStep ==
    ASSUME PathInv, NEW r \in Request, NEW i \in Depth, Return(r, i)
    PROVE  PathInv'
<1>1. /\ legs[r][i].at = "answered"
      /\ UNCHANGED <<request, age, trusts, store, effect, checked, faults>>
  BY DEF Return
<1>2. legs[r] \in [Depth -> Leg] /\ Sound(request[r], legs[r], answer[r], effect[r], checked[r])
  BY DEF PathInv, Shapes, RequestOK
<1>3. PICK M : M = [j \in Depth |-> IF j = i THEN Gone
                                    ELSE IF j = i - 1 THEN Finished(legs[r][j], legs[r][i].answer)
                                    ELSE legs[r][j]]
  OBVIOUS
<1>4. PICK b : b = IF i = 1 THEN legs[r][1].answer ELSE answer[r]
  OBVIOUS
<1>5. M \in [Depth -> Leg] /\ Sound(request[r], M, b, effect[r], checked[r])
  BY <1>1, <1>2, <1>3, <1>4, Returned
<1>6. legs' = [legs EXCEPT ![r] = M]
  BY <1>3 DEF Return
<1>7. answer' = [answer EXCEPT ![r] = b] /\ b \in Answer
  BY <1>2, <1>4 DEF Return, PathInv, Shapes, Depth, Leg
<1>8. /\ legs'[r] = M /\ legs' \in [Request -> [Depth -> Leg]]
      /\ answer'[r] = b /\ answer' \in [Request -> Answer]
      /\ \A t \in Request \ {r} : legs'[t] = legs[t] /\ answer'[t] = answer[t]
  BY <1>5, <1>6, <1>7 DEF PathInv, Shapes
<1>9. Shapes'
  BY <1>1, <1>8 DEF PathInv, Shapes
<1>10. RequestOK(r)'
  BY <1>1, <1>5, <1>8 DEF RequestOK
<1> QED
  BY <1>1, <1>8, <1>9, <1>10, OthersSound

LEMMA BreakStep ==
    ASSUME PathInv, NEW r \in Request, NEW i \in Depth, Break(r, i), faults' \in 0..MaxFaults
    PROVE  PathInv'
<1>1. /\ Waits(legs[r][i])
      /\ UNCHANGED <<request, age, trusts, store, effect, checked>>
  BY DEF Break, Waited, Waits
<1>2. legs[r] \in [Depth -> Leg] /\ Sound(request[r], legs[r], answer[r], effect[r], checked[r])
  BY DEF PathInv, Shapes, RequestOK
<1>3. PICK below : /\ below = Orphan(legs[r][i]) \/ (legs[r][i].at = "called" /\ below = Gone)
                   /\ legs' = [legs EXCEPT ![r] = [j \in Depth |->
                         IF j = i THEN below
                         ELSE IF j = i - 1 THEN Above(legs[r][j])
                         ELSE legs[r][j]]]
  BY DEF Break
<1>4. PICK M : M = [j \in Depth |-> IF j = i THEN below
                                    ELSE IF j = i - 1 THEN Above(legs[r][j])
                                    ELSE legs[r][j]]
  OBVIOUS
<1>5. PICK b : b = IF i = 1 THEN Status("broken") ELSE answer[r]
  OBVIOUS
<1>6. M \in [Depth -> Leg] /\ Sound(request[r], M, b, effect[r], checked[r])
  <2>1. PICK L : L = legs[r]
    OBVIOUS
  <2>2. /\ L \in [Depth -> Leg] /\ Waits(L[i])
        /\ Sound(request[r], L, answer[r], effect[r], checked[r])
    BY <1>1, <1>2, <2>1
  <2>3. CutAt(M, L, i, below)
    BY <1>3, <1>4, <2>1 DEF CutAt
  <2>4. b = IF i = 1 THEN Status("broken") ELSE answer[r]
    BY <1>5
  <2> QED
    BY <2>2, <2>3, <2>4, Broken
<1>7. legs' = [legs EXCEPT ![r] = M]
  BY <1>3, <1>4
<1>8. answer' = [answer EXCEPT ![r] = b] /\ b \in Answer
  BY <1>5 DEF Break, PathInv, Shapes, Status, Answer
<1>9. /\ legs'[r] = M /\ legs' \in [Request -> [Depth -> Leg]]
      /\ answer'[r] = b /\ answer' \in [Request -> Answer]
      /\ \A t \in Request \ {r} : legs'[t] = legs[t] /\ answer'[t] = answer[t]
  BY <1>6, <1>7, <1>8 DEF PathInv, Shapes
<1>10. Shapes'
  BY <1>1, <1>9 DEF PathInv, Shapes
<1>11. RequestOK(r)'
  BY <1>1, <1>6, <1>9 DEF RequestOK
<1> QED
  BY <1>1, <1>9, <1>10, <1>11, OthersSound

LEMMA RestartStep ==
    ASSUME PathInv, NEW h \in Hop, Restart(h), faults' \in 0..MaxFaults
    PROVE  PathInv'
<1> DEFINE Dies(r, i) == IsHop(r, i, h) /\ legs[r][i].at = "working"
           After(r, i) == IF Dies(r, i) THEN Gone
                          ELSE IF Dies(r, i - 1) THEN Orphan(legs[r][i])
                          ELSE IF Dies(r, i + 1) /\ Waited(r, i + 1) THEN Above(legs[r][i])
                          ELSE legs[r][i]
<1>1. /\ legs' = [r \in Request |-> [i \in Depth |-> After(r, i)]]
      /\ answer' = [r \in Request |->
                       IF Dies(r, 1) /\ Waited(r, 1) THEN Status("broken") ELSE answer[r]]
      /\ trusts' = [trusts EXCEPT ![h] = FALSE]
      /\ store' = IF h = "metadata" THEN Nothing ELSE store
      /\ UNCHANGED <<request, age, effect, checked>>
  BY DEF Restart
<1>2. ASSUME NEW r \in Request
      PROVE  /\ legs'[r] \in [Depth -> Leg] /\ answer'[r] \in Answer
             /\ Sound(request[r], legs'[r], answer'[r], effect[r], checked[r])
  <2>1. legs[r] \in [Depth -> Leg] /\ Sound(request[r], legs[r], answer[r], effect[r], checked[r])
    BY DEF PathInv, Shapes, RequestOK
  <2>2. PICK D \in SUBSET Depth : \A i : i \in D <=> i \in Depth /\ Dies(r, i)
    <3>1. {i \in Depth : Dies(r, i)} \in SUBSET Depth
      OBVIOUS
    <3> QED
      BY <3>1
  <2>3. request[r] # Nothing => request[r].path \in Path /\ Len(request[r].path) \in 1..3
    BY SentShape, PathShape DEF PathInv
  <2>4. \A i : Dies(r, i) => i \in Depth
    <3>1. ASSUME NEW i, Dies(r, i)
          PROVE  i \in Depth
      <4>1. PICK n \in 1..3 : n = Len(request[r].path)
        BY <2>3, <3>1 DEF IsHop
      <4>2. i \in 1..n
        BY <3>1, <4>1 DEF IsHop
      <4> QED
        BY <4>2 DEF Depth
    <3> QED
      BY <3>1
  <2>5. \A j, k \in D : j = k
    BY <2>2, <2>3, PathShape DEF IsHop
  <2>6. \A j \in D : legs[r][j].at = "working"
    BY <2>2
  <2>7. PICK M : M = [j \in Depth |-> IF j \in D THEN Gone
                                      ELSE IF j - 1 \in D THEN Orphan(legs[r][j])
                                      ELSE IF j + 1 \in D /\ Waits(legs[r][j + 1]) THEN Above(legs[r][j])
                                      ELSE legs[r][j]]
    OBVIOUS
  <2>8. PICK b : b = IF 1 \in D /\ Waits(legs[r][1]) THEN Status("broken") ELSE answer[r]
    OBVIOUS
  <2>9. M \in [Depth -> Leg] /\ Sound(request[r], M, b, effect[r], checked[r])
    BY <2>1, <2>3, <2>5, <2>6, <2>7, <2>8, Died
  <2>10. \A j : Dies(r, j) <=> j \in D
    BY <2>2, <2>4
  <2>11. legs'[r] = M
    <3>1. \A j \in Depth : After(r, j) = IF j \in D THEN Gone
                                         ELSE IF j - 1 \in D THEN Orphan(legs[r][j])
                                         ELSE IF j + 1 \in D /\ Waits(legs[r][j + 1]) THEN Above(legs[r][j])
                                         ELSE legs[r][j]
      <4> HIDE DEF Dies
      <4> QED
        BY <2>10 DEF Waited, Waits
    <3> HIDE DEF After
    <3> QED
      BY <1>1, <2>7, <3>1
  <2>12. answer'[r] = b /\ b \in Answer
    <3>1. Status("broken") \in Answer /\ answer[r] \in Answer
      BY DEF Status, Answer, PathInv, Shapes
    <3> HIDE DEF Dies
    <3> QED
      BY <1>1, <2>8, <2>10, <3>1 DEF Waited, Waits
  <2> QED
    BY <2>9, <2>11, <2>12
<1> HIDE DEF Dies, After
<1>3. legs' \in [Request -> [Depth -> Leg]] /\ answer' \in [Request -> Answer]
  BY <1>1, <1>2
<1>4. trusts' \in [Hop -> BOOLEAN] /\ store' \in Request \cup {Nothing}
  BY <1>1 DEF PathInv, Shapes
<1>5. Shapes'
  BY <1>1, <1>3, <1>4 DEF PathInv, Shapes
<1> QED
  BY <1>1, <1>2, <1>5 DEF PathInv, RequestOK

LEMMA InitPath == Init => PathInv
<1> SUFFICES ASSUME Init PROVE PathInv
  OBVIOUS
<1>1. Shapes
  <2>1. \A r \in Request : request[r] = Nothing
    BY DEF Init
  <2>2. Gone \in Leg /\ None \in Answer
    BY GoneLeg DEF None, Answer
  <2>3. legs \in [Request -> [Depth -> Leg]]
    BY <2>2 DEF Init
  <2>4. 0 \in 0..MaxFaults
    BY RequestAssumption
  <2> QED
    BY <2>1, <2>2, <2>3, <2>4 DEF Init, Shapes
<1>2. ASSUME NEW r \in Request
      PROVE  RequestOK(r)
  <2>1. /\ request[r] = Nothing /\ legs[r] = [i \in Depth |-> Gone] /\ answer[r] = None
        /\ effect[r] = <<>> /\ checked[r] = <<>>
    BY DEF Init
  <2>2. ASSUME NEW i \in Depth
        PROVE  legs[r][i] = Gone
    BY <2>1
  <2>3. \A i \in Depth : /\ CallOK(request[r], legs[r], effect[r], checked[r], i)
                         /\ LegOK(request[r], legs[r], effect[r], i)
    BY <2>2, GoneLeg DEF CallOK, LegOK
  <2>4. WaitingOK(request[r], legs[r], answer[r])
    BY <2>1, <2>2, GoneLeg DEF WaitingOK, Depth
  <2> QED
    BY <2>1, <2>3, <2>4 DEF RequestOK, Sound, EffectOK
<1> QED
  BY <1>1, <1>2 DEF PathInv

LEMMA NextPath == PathInv /\ [Next]_vars => PathInv'
<1> SUFFICES ASSUME PathInv, [Next]_vars PROVE PathInv'
  OBVIOUS
<1>1. ASSUME NEW r \in Request, NEW i \in Depth, UnknownRoute(r, i)
      PROVE  PathInv'
  BY <1>1, RefusedStep DEF UnknownRoute, Handles
<1>2. ASSUME NEW r \in Request, NEW i \in Depth, NotJson(r, i)
      PROVE  PathInv'
  BY <1>2, RefusedStep DEF NotJson
<1>3. ASSUME NEW r \in Request, Serve(r)
      PROVE  PathInv'
  BY <1>1, <1>2, <1>3, ProxyStep, PassThroughStep, RouteStep, SetStep, GetStep, ReturnStep
     DEF Serve, Ready
<1>4. ASSUME NEW r \in Request, Wait(r)
      PROVE  PathInv'
  <2>1. UNCHANGED <<request, legs, answer, trusts, store, effect, checked, faults>>
    BY <1>4 DEF Wait
  <2>2. age' \in [Request -> {"ahead", "within", "behind"}]
    BY <1>4 DEF Wait, PathInv, Shapes
  <2> QED
    BY <2>1, <2>2 DEF PathInv, Shapes, RequestOK
<1>5. ASSUME NEW h \in Hop, PollAnswered(h)
      PROVE  PathInv'
  <2>1. UNCHANGED <<request, age, legs, answer, store, effect, checked, faults>>
    BY <1>5 DEF PollAnswered
  <2>2. trusts' \in [Hop -> BOOLEAN]
    BY <1>5 DEF PollAnswered, PathInv, Shapes
  <2> QED
    BY <2>1, <2>2 DEF PathInv, Shapes, RequestOK
<1>6. CASE Fault
  <2>1. faults' \in 0..MaxFaults
    BY <1>6, RequestAssumption DEF Fault, PathInv, Shapes
  <2> QED
    BY <1>6, <2>1, BreakStep, RestartStep DEF Fault
<1>7. CASE UNCHANGED vars
  BY <1>7 DEF vars, PathInv, Shapes, RequestOK
<1> QED
  BY <1>3, <1>4, <1>5, <1>6, <1>7, SendStep DEF Next

LEMMA PathInvHolds == Spec => []PathInv
BY InitPath, NextPath, PTL DEF Spec

\* Requests, legs and answers stay what the hops can make of them, and a
\* write is applied only after each packet around it was verified at one hop,
\* for any requests, any wrappings and any number of faults.
THEOREM RequestsAppliedAsVerified == Spec => []AppliedAsVerified
<1>1. PathInv => AppliedAsVerified
  <2> SUFFICES ASSUME PathInv PROVE AppliedAsVerified
    OBVIOUS
  <2>1. \A r \in Request, i \in Depth : LegTypeOK(legs[r][i])
    BY DEF PathInv, RequestOK, Sound, LegOK
  <2>2. ASSUME NEW r \in Request
        PROVE  Len(effect[r]) <= 1 /\ checked[r] \in Seq(Hop)
    <3>1. CASE effect[r] = <<>>
      BY <3>1 DEF PathInv, Shapes
    <3>2. CASE effect[r] # <<>>
      <4>1. PICK x : effect[r] = <<x>>
        BY <3>2 DEF PathInv, RequestOK, Sound, EffectOK
      <4>2. Len(<<x>>) = 1 /\ 1 <= 1
        OBVIOUS
      <4>3. checked[r] \in Seq(Hop)
        BY DEF PathInv, Shapes
      <4> QED
        BY <4>1, <4>2, <4>3
    <3> QED
      BY <3>1, <3>2
  <2>3. TypeOK
    BY <2>1, <2>2 DEF PathInv, Shapes, TypeOK
  <2>4. ASSUME NEW r \in Request, effect[r] = <<<<"written">>>>
        PROVE  /\ Len(checked[r]) = Cardinality(Packets(r))
               /\ \A i \in Packets(r) : request[r].layers[i] = "good"
    <3>1. EffectOK(request[r], legs[r], effect[r], checked[r]) /\ effect[r] # <<>>
      BY <2>4 DEF PathInv, RequestOK, Sound
    <3>2. \A v : effect[r] # <<<<"read", v>>>>
      BY <2>4
    <3>3. /\ request[r] # Nothing
          /\ Len(checked[r]) = Cardinality(PacketsUpTo(request[r].layers, Len(request[r].layers)))
          /\ \A i \in PacketsUpTo(request[r].layers, Len(request[r].layers)) : request[r].layers[i] = "good"
      BY <3>1, <3>2 DEF EffectOK
    <3>4. DOMAIN request[r].layers = 1..Len(request[r].layers)
      BY <3>3, SentShape DEF PathInv
    <3>5. Packets(r) = PacketsUpTo(request[r].layers, Len(request[r].layers))
      BY <3>4 DEF Packets, PacketsUpTo
    <3> QED
      BY <3>3, <3>5
  <2>5. OnlyVerified
    BY <2>4 DEF OnlyVerified
  <2> QED
    BY <2>3, <2>5 DEF AppliedAsVerified
<1> QED
  BY <1>1, PathInvHolds, PTL

-----------------------------------------------------------------------------
\* What clients see is a register

\* Outcome and Progress, of what one request is
Told(q, b, e) ==
    IF b.status = "none" THEN <<"nothing">>
    ELSE IF b.status = "200" THEN IF q.op = "set" THEN <<"written">> ELSE <<"read", b.body>>
    ELSE IF b.status = "404" /\ e # <<>> THEN <<"read", Nothing>>
    ELSE IF b.status \in {"500", "broken"} THEN <<"failed">>
    ELSE <<"refused">>

Reached(q, b, e) ==
    IF e # <<>> THEN e[1]
    ELSE IF Told(q, b, e) = <<"refused">> THEN <<"refused">>
    ELSE IF q # Nothing THEN <<"open">> ELSE <<"new">>

toldNow == [r \in Request |-> Outcome(answer[r], r)]
progressNow == [r \in Request |-> Progress(r)]

LEMMA SeenNow ==
    ASSUME NEW r \in Request
    PROVE  /\ toldNow[r] = Told(request[r], answer[r], effect[r])
           /\ progressNow[r] = Reached(request[r], answer[r], effect[r])
           /\ toldNow'[r] = Told(request'[r], answer'[r], effect'[r])
           /\ progressNow'[r] = Reached(request'[r], answer'[r], effect'[r])
<1>1. Outcome(answer[r], r) = Told(request[r], answer[r], effect[r])
  BY DEF Outcome, Told
<1>2. Outcome(answer[r], r)' = Told(request'[r], answer'[r], effect'[r])
  BY DEF Outcome, Told
<1>3. Progress(r) = Reached(request[r], answer[r], effect[r])
  BY <1>1 DEF Progress, Reached
<1>4. Progress(r)' = Reached(request'[r], answer'[r], effect'[r])
  BY <1>2 DEF Progress, Reached
<1> QED
  BY <1>1, <1>2, <1>3, <1>4 DEF toldNow, progressNow

\* A step of which clients see nothing
LEMMA Unseen ==
    ASSUME UNCHANGED <<request, answer, effect, store>>
    PROVE  UNCHANGED <<store, progressNow, toldNow>>
<1>1. \A r \in Request : toldNow'[r] = toldNow[r] /\ progressNow'[r] = progressNow[r]
  BY SeenNow
<1>2. toldNow' = toldNow /\ progressNow' = progressNow
  BY <1>1 DEF toldNow, progressNow
<1> QED
  BY <1>2

\* A step that one client may see
LEMMA SeenByOne ==
    ASSUME NEW r \in Request,
           \A s \in Request \ {r} : request'[s] = request[s] /\ answer'[s] = answer[s] /\ effect'[s] = effect[s],
           NEW p, p = Reached(request'[r], answer'[r], effect'[r]),
           NEW t, t = Told(request'[r], answer'[r], effect'[r])
    PROVE  progressNow' = [progressNow EXCEPT ![r] = p] /\ toldNow' = [toldNow EXCEPT ![r] = t]
<1>1. \A s \in Request \ {r} : toldNow'[s] = toldNow[s] /\ progressNow'[s] = progressNow[s]
  BY SeenNow
<1>2. toldNow'[r] = t /\ progressNow'[r] = p
  BY SeenNow
<1> QED
  BY <1>1, <1>2 DEF toldNow, progressNow

\* While a call is still to be handled its client has seen no end of it.
LEMMA OpenYet ==
    ASSUME PathInv, NEW r \in Request, NEW i \in Depth, legs[r][i].at = "called", NEW e
    PROVE  /\ Reached(request[r], answer[r], effect[r]) = <<"open">>
           /\ Told(request[r], answer[r], e) = Told(request[r], answer[r], effect[r])
<1>1. /\ request[r] # Nothing /\ effect[r] = <<>> /\ answer[r] \in Answer
      /\ CallOK(request[r], legs[r], effect[r], checked[r], i)
      /\ answer[r] # None => Tells(request[r], legs[r], effect[r], answer[r])
  BY DEF PathInv, Shapes, RequestOK, Sound, CallOK
<1>2. answer[r].status \in {"none", "500", "broken"}
  <2>1. CASE answer[r] = None
    BY <2>1 DEF None
  <2>2. CASE answer[r] # None
    BY <1>1, <2>2, StillOpen DEF Answer
  <2> QED
    BY <2>1, <2>2
<1> QED
  BY <1>1, <1>2 DEF Told, Reached

LEMMA InitIsInit ==
    ASSUME Init
    PROVE  store = Nothing /\ progressNow = [r \in Request |-> <<"new">>]
           /\ toldNow = [r \in Request |-> <<"nothing">>]
<1>1. ASSUME NEW r \in Request
      PROVE  toldNow[r] = <<"nothing">> /\ progressNow[r] = <<"new">>
  <2>1. request[r] = Nothing /\ answer[r] = None /\ effect[r] = <<>>
    BY DEF Init
  <2>2. Told(Nothing, None, <<>>) = <<"nothing">>
    BY DEF Told, None
  <2>3. Reached(Nothing, None, <<>>) = <<"new">>
    BY <2>2 DEF Reached
  <2> QED
    BY <2>1, <2>2, <2>3, SeenNow
<1> QED
  BY <1>1 DEF Init, toldNow, progressNow

SeenStep == Register!Next \/ UNCHANGED <<store, progressNow, toldNow>>

LEMMA SendIsInvoke ==
    ASSUME PathInv, NEW r \in Request, NEW q \in Sent[r], Send(r, q)
    PROVE  SeenStep
<1>1. /\ request[r] = Nothing /\ request' = [request EXCEPT ![r] = q]
      /\ UNCHANGED <<answer, store, effect>>
  BY DEF Send
<1>2. q # Nothing /\ effect[r] = <<>> /\ answer[r] = None
  BY <1>1, RequestAssumption DEF PathInv, RequestOK, Sound
<1>3. /\ progressNow[r] = <<"new">> /\ toldNow[r] = <<"nothing">>
  BY <1>1, <1>2, SeenNow DEF Told, Reached, None
<1>4. /\ request'[r] = q /\ \A s \in Request \ {r} : request'[s] = request[s]
  BY <1>1 DEF PathInv, Shapes
<1>5. /\ Reached(request'[r], answer'[r], effect'[r]) = <<"open">>
      /\ Told(request'[r], answer'[r], effect'[r]) = <<"nothing">>
  BY <1>1, <1>2, <1>4 DEF Told, Reached, None
<1>6. progressNow' = [progressNow EXCEPT ![r] = <<"open">>] /\ toldNow' = [toldNow EXCEPT ![r] = <<"nothing">>]
  BY <1>1, <1>4, <1>5, SeenByOne
<1>7. toldNow' = toldNow
  BY <1>3, <1>6 DEF toldNow
<1> QED
  BY <1>1, <1>3, <1>6, <1>7 DEF SeenStep, Register!Next, Register!Invoke, progressNow, toldNow

LEMMA SetIsWrite ==
    ASSUME PathInv, NEW r \in Request, NEW i \in Depth, Set(r, i)
    PROVE  SeenStep
<1>1. legs[r][i].at = "called" /\ effect[r] = <<>>
  BY Called1 DEF Set, Handles
<1>2. CASE UNCHANGED <<store, effect>>
  BY <1>2, Unseen DEF Set, RefusesPacket, Refused, Reply, SeenStep
<1>3. CASE /\ store' = r /\ Reply(r, i, Ok(r))
           /\ effect' = [effect EXCEPT ![r] = Append(@, <<"written">>)]
  <2>1. /\ effect'[r] = <<<<"written">>>> /\ \A s \in Request \ {r} : effect'[s] = effect[s]
        /\ UNCHANGED <<request, answer>>
    <3>1. Append(<<>>, <<"written">>) = <<<<"written">>>>
      OBVIOUS
    <3>2. effect'[r] = Append(effect[r], <<"written">>) /\ \A s \in Request \ {r} : effect'[s] = effect[s]
      BY <1>3 DEF PathInv, Shapes
    <3> QED
      BY <1>1, <1>3, <3>1, <3>2 DEF Reply
  <2>2. /\ Reached(request'[r], answer'[r], effect'[r]) = <<"written">>
        /\ Told(request'[r], answer'[r], effect'[r]) = toldNow[r]
        /\ progressNow[r] = <<"open">>
    <3>1. <<<<"written">>>> # <<>> /\ <<<<"written">>>>[1] = <<"written">>
      OBVIOUS
    <3> QED
      BY <1>1, <2>1, <3>1, OpenYet, SeenNow DEF Reached
  <2>3. progressNow' = [progressNow EXCEPT ![r] = <<"written">>] /\ toldNow' = [toldNow EXCEPT ![r] = toldNow[r]]
    BY <2>1, <2>2, SeenByOne
  <2>4. toldNow' = toldNow
    BY <2>3 DEF toldNow
  <2> QED
    BY <1>3, <2>2, <2>3, <2>4 DEF SeenStep, Register!Next, Register!Write, progressNow, toldNow
<1> QED
  BY <1>2, <1>3 DEF Set, RefusesPacket, Refused

LEMMA GetIsRead ==
    ASSUME PathInv, NEW r \in Request, NEW i \in Depth, Get(r, i)
    PROVE  SeenStep
<1>1. legs[r][i].at = "called" /\ effect[r] = <<>>
  BY Called1 DEF Get, Handles
<1>2. /\ effect' = [effect EXCEPT ![r] = Append(@, <<"read", store>>)]
      /\ UNCHANGED <<request, answer, store>>
  BY DEF Get, Reply
<1>3. effect'[r] = <<<<"read", store>>>> /\ \A s \in Request \ {r} : effect'[s] = effect[s]
  <2>1. Append(<<>>, <<"read", store>>) = <<<<"read", store>>>>
    OBVIOUS
  <2>2. effect'[r] = Append(effect[r], <<"read", store>>) /\ \A s \in Request \ {r} : effect'[s] = effect[s]
    BY <1>2 DEF PathInv, Shapes
  <2> QED
    BY <1>1, <2>1, <2>2
<1>4. /\ Reached(request'[r], answer'[r], effect'[r]) = <<"read", store>>
      /\ Told(request'[r], answer'[r], effect'[r]) = toldNow[r]
      /\ progressNow[r] = <<"open">>
  <2>1. <<<<"read", store>>>> # <<>> /\ <<<<"read", store>>>>[1] = <<"read", store>>
    OBVIOUS
  <2> QED
    BY <1>1, <1>2, <1>3, <2>1, OpenYet, SeenNow DEF Reached
<1>5. progressNow' = [progressNow EXCEPT ![r] = <<"read", store>>] /\ toldNow' = [toldNow EXCEPT ![r] = toldNow[r]]
  BY <1>2, <1>3, <1>4, SeenByOne
<1>6. toldNow' = toldNow
  BY <1>5 DEF toldNow
<1> QED
  BY <1>2, <1>4, <1>5, <1>6 DEF SeenStep, Register!Next, Register!Read, progressNow, toldNow

\* What the register makes of an answer that arrives or of a broken connection
LEMMA EndIsAnswer ==
    ASSUME PathInv, NEW r \in Request, Waits(legs[r][1]),
           NEW b, answer' = [answer EXCEPT ![r] = b], Tells(request[r], legs[r], effect[r], b),
           b.status \in {"200", "400", "403", "404", "500", "broken"},
           UNCHANGED <<request, store, effect>>
    PROVE  SeenStep
<1>1. /\ request[r] # Nothing /\ answer[r] = None
      /\ EffectOK(request[r], legs[r], effect[r], checked[r])
      /\ request[r].op \in {"set", "get"}
  BY SentShape DEF PathInv, RequestOK, Sound, WaitingOK
<1>2. /\ answer'[r] = b /\ \A s \in Request \ {r} : answer'[s] = answer[s]
  BY DEF PathInv, Shapes
<1>3. toldNow[r] = <<"nothing">>
  <2>1. Told(request[r], None, effect[r]) = <<"nothing">>
    BY DEF Told, None
  <2> QED
    BY <1>1, <2>1, SeenNow
<1>4. progressNow[r] = IF effect[r] # <<>> THEN effect[r][1] ELSE <<"open">>
  BY <1>1, <1>3, SeenNow DEF Reached
<1>5. effect[r] # <<>> => effect[r][1] \notin {<<"new">>, <<"open">>, <<"refused">>}
  <2>1. ASSUME NEW x, effect[r] = <<x>>
        PROVE  effect[r][1] = x
    BY <2>1
  <2>2. CASE effect[r] = <<<<"written">>>>
    BY <2>1, <2>2
  <2>3. ASSUME NEW v, effect[r] = <<<<"read", v>>>>
        PROVE  effect[r][1] \notin {<<"new">>, <<"open">>, <<"refused">>}
    <3>1. effect[r][1] = <<"read", v>>
      BY <2>1, <2>3
    <3> QED
      BY <3>1
  <2> QED
    BY <1>1, <2>2, <2>3 DEF EffectOK
<1>6. PICK t, p : /\ t = Told(request'[r], answer'[r], effect'[r])
                  /\ p = Reached(request'[r], answer'[r], effect'[r])
  OBVIOUS
<1>7. t = Told(request[r], b, effect[r]) /\ p = Reached(request[r], b, effect[r])
  BY <1>2, <1>6
<1>8. progressNow' = [progressNow EXCEPT ![r] = p] /\ toldNow' = [toldNow EXCEPT ![r] = t]
  BY <1>2, <1>6, SeenByOne
<1>9. CASE b.status \in {"500", "broken"}
  <2>1. t = <<"failed">> /\ p = progressNow[r]
    BY <1>1, <1>4, <1>7, <1>9 DEF Told, Reached
  <2>2. progressNow[r] # <<"new">>
    BY <1>4, <1>5
  <2>3. progressNow' = progressNow
    BY <1>8, <2>1 DEF progressNow
  <2>4. toldNow' = [s \in Request |-> IF s \in {r} THEN <<"failed">> ELSE toldNow[s]]
    BY <1>8, <2>1 DEF toldNow
  <2>5. Register!Fail({r})
    BY <1>3, <2>2, <2>3, <2>4 DEF Register!Fail, progressNow, toldNow
  <2> QED
    BY <2>5 DEF SeenStep, Register!Next
<1>10. CASE effect[r] # <<>> /\ b.status \notin {"500", "broken"}
  <2>1. effect[r][1] = t
    <3>1. CASE b.status = "200"
      <4>1. effect[r] = <<t>>
        BY <1>7, <3>1 DEF Tells, Told
      <4>2. <<t>>[1] = t
        OBVIOUS
      <4> QED
        BY <4>1, <4>2
    <3>2. CASE b.status = "404"
      <4>1. effect[r] = <<t>>
        BY <1>7, <1>10, <3>2 DEF Tells, Told
      <4>2. <<t>>[1] = t
        OBVIOUS
      <4> QED
        BY <4>1, <4>2
    <3> QED
      BY <1>10, <3>1, <3>2 DEF Tells
  <2>2. p = progressNow[r] /\ t = progressNow[r]
    BY <1>4, <1>7, <1>10, <2>1 DEF Reached
  <2>3. progressNow' = progressNow
    BY <1>8, <2>2 DEF progressNow
  <2>4. progressNow[r] \notin {<<"new">>, <<"open">>, <<"refused">>}
    BY <1>4, <1>5, <1>10
  <2>5. Register!Answer(r)
    BY <1>3, <1>8, <2>2, <2>3, <2>4 DEF Register!Answer, progressNow, toldNow
  <2> QED
    BY <2>5 DEF SeenStep, Register!Next
<1>11. CASE effect[r] = <<>> /\ b.status \notin {"500", "broken"}
  <2>1. b.status \in {"400", "403", "404"}
    BY <1>11 DEF Tells
  <2>2. t = <<"refused">>
    BY <1>7, <1>11, <2>1 DEF Told
  <2>3. p = <<"refused">>
    BY <1>7, <1>11, <2>2 DEF Reached
  <2>4. Register!Refuse(r)
    BY <1>3, <1>4, <1>8, <1>11, <2>2, <2>3 DEF Register!Refuse, progressNow, toldNow
  <2> QED
    BY <2>4 DEF SeenStep, Register!Next
<1> QED
  BY <1>9, <1>10, <1>11

LEMMA ReturnIsSeen ==
    ASSUME PathInv, NEW r \in Request, NEW i \in Depth, Return(r, i)
    PROVE  SeenStep
<1>1. UNCHANGED <<request, store, effect>> /\ legs[r][i].at = "answered"
  BY DEF Return
<1>2. CASE i # 1
  BY <1>1, <1>2, Unseen DEF Return, SeenStep
<1>3. CASE i = 1
  <2>1. legs[r] \in [Depth -> Leg] /\ LegOK(request[r], legs[r], effect[r], 1)
    BY <1>3 DEF PathInv, Shapes, RequestOK, Sound
  <2>2. legs[r][1].answer \in Answer /\ legs[r][1].answer.status # "none" /\ Waits(legs[r][1])
    BY <1>1, <1>3, <2>1 DEF LegOK, LegTypeOK, Tells, Waits
  <2>3. answer' = [answer EXCEPT ![r] = legs[r][1].answer]
    BY <1>3 DEF Return
  <2>4. legs[r][1].answer.status \in {"200", "400", "403", "404", "500", "broken"}
    BY <2>2 DEF Answer
  <2>5. Tells(request[r], legs[r], effect[r], legs[r][1].answer)
    BY <1>1, <1>3, <2>1 DEF LegOK
  <2> QED
    BY <1>1, <2>2, <2>3, <2>4, <2>5, EndIsAnswer
<1> QED
  BY <1>2, <1>3

LEMMA BreakIsSeen ==
    ASSUME PathInv, NEW r \in Request, NEW i \in Depth, Break(r, i)
    PROVE  SeenStep
<1>1. UNCHANGED <<request, store, effect>> /\ Waits(legs[r][i])
  BY DEF Break, Waits, Waited
<1>2. CASE i # 1
  BY <1>1, <1>2, Unseen DEF Break, SeenStep
<1>3. CASE i = 1
  <2>1. answer' = [answer EXCEPT ![r] = Status("broken")]
    BY <1>3 DEF Break
  <2>2. Status("broken").status = "broken"
    BY DEF Status
  <2>3. Tells(request[r], legs[r], effect[r], Status("broken"))
    BY <2>2 DEF Tells
  <2> QED
    BY <1>1, <1>3, <2>1, <2>2, <2>3, EndIsAnswer
<1> QED
  BY <1>2, <1>3

LEMMA RestartIsSeen ==
    ASSUME PathInv, NEW h \in Hop, Restart(h)
    PROVE  SeenStep
<1> DEFINE broken == {r \in Request : /\ IsHop(r, 1, h) /\ legs[r][1].at = "working"
                                      /\ Waited(r, 1)}
<1>1. /\ answer' = [r \in Request |-> IF r \in broken THEN Status("broken") ELSE answer[r]]
      /\ store' = IF h = "metadata" THEN Nothing ELSE store
      /\ UNCHANGED <<request, effect>>
  BY DEF Restart
<1>2. ASSUME NEW r \in broken
      PROVE  /\ h # "metadata" /\ toldNow[r] = <<"nothing">> /\ progressNow[r] # <<"new">>
             /\ toldNow'[r] = <<"failed">> /\ progressNow'[r] = progressNow[r]
  <2>1. /\ r \in Request /\ request[r] # Nothing /\ answer[r] = None
        /\ 1 < Len(request[r].path) /\ request[r].path[1] = h
    BY DEF PathInv, RequestOK, Sound, WaitingOK, LegOK, Waited, Waits, IsHop, Depth
  <2>2. h # "metadata"
    <3>1. PICK n \in 1..3 : n = Len(request[r].path) /\ 1 < n
      BY <2>1, SentShape, PathShape DEF PathInv
    <3>2. \A m \in 1..3 : 1 < m => 1 \in 1..m /\ 1 # m
      OBVIOUS
    <3> QED
      BY <2>1, <3>1, <3>2, SentShape, PathShape DEF PathInv
  <2>3. Status("broken").status = "broken" /\ None.status = "none"
    BY DEF Status, None
  <2>4. /\ Told(request[r], None, effect[r]) = <<"nothing">>
        /\ Told(request[r], Status("broken"), effect[r]) = <<"failed">>
    BY <2>3 DEF Told
  <2>5. Reached(request[r], Status("broken"), effect[r]) = Reached(request[r], None, effect[r])
    BY <2>4 DEF Reached
  <2>6. Reached(request[r], None, effect[r]) # <<"new">>
    <3>1. EffectOK(request[r], legs[r], effect[r], checked[r])
      BY <2>1 DEF PathInv, RequestOK, Sound
    <3>2. ASSUME NEW x, effect[r] = <<x>>, x # <<"new">>
          PROVE  effect[r][1] # <<"new">>
      BY <3>2
    <3>3. <<"written">> # <<"new">> /\ \A v : <<"read", v>> # <<"new">>
      OBVIOUS
    <3>4. effect[r] # <<>> => effect[r][1] # <<"new">>
      BY <3>1, <3>2, <3>3 DEF EffectOK
    <3> QED
      BY <2>1, <2>4, <3>4 DEF Reached
  <2>7. answer'[r] = Status("broken")
    BY <1>1, <2>1
  <2> QED
    BY <1>1, <2>1, <2>2, <2>4, <2>5, <2>6, <2>7, SeenNow
<1>3. ASSUME NEW r \in Request \ broken
      PROVE  toldNow'[r] = toldNow[r] /\ progressNow'[r] = progressNow[r]
  BY <1>1, SeenNow
<1> HIDE DEF broken
<1>4. progressNow' = progressNow /\ broken \in SUBSET Request
  <2>1. broken \subseteq Request
    BY DEF broken
  <2>2. \A r \in Request : progressNow'[r] = progressNow[r]
    BY <1>2, <1>3
  <2> QED
    BY <2>1, <2>2 DEF progressNow
<1>5. toldNow' = [r \in Request |-> IF r \in broken THEN <<"failed">> ELSE toldNow[r]]
  <2>1. \A r \in Request : toldNow'[r] = IF r \in broken THEN <<"failed">> ELSE toldNow[r]
    BY <1>2, <1>3
  <2> QED
    BY <2>1 DEF toldNow
<1>6. CASE h = "metadata"
  <2>1. toldNow' = toldNow
    <3>1. broken = {}
      BY <1>2, <1>6
    <3> QED
      BY <1>5, <3>1 DEF toldNow
  <2>2. Register!Forget
    BY <1>1, <1>4, <1>6, <2>1 DEF Register!Forget, progressNow, toldNow
  <2> QED
    BY <2>2 DEF SeenStep, Register!Next
<1>7. CASE h # "metadata"
  <2>1. Register!Fail(broken)
    BY <1>1, <1>2, <1>4, <1>5, <1>7 DEF Register!Fail, progressNow, toldNow
  <2> QED
    BY <1>4, <2>1 DEF SeenStep, Register!Next
<1> QED
  BY <1>6, <1>7

LEMMA StepIsSeen == PathInv /\ [Next]_vars => [Register!Next]_(Register!registerVars)
<1> SUFFICES ASSUME PathInv, [Next]_vars PROVE SeenStep
  BY DEF SeenStep, Register!registerVars, progressNow, toldNow
<1>1. ASSUME NEW r \in Request, Serve(r)
      PROVE  SeenStep
  <2>1. ASSUME NEW i \in Depth, UnknownRoute(r, i) \/ NotJson(r, i)
        PROVE  SeenStep
    BY <2>1, Unseen DEF UnknownRoute, NotJson, Refused, Reply, SeenStep
  <2>2. ASSUME NEW i \in Depth, Proxy(r, i) \/ PassThrough(r, i)
        PROVE  SeenStep
    BY <2>2, Unseen DEF Proxy, PassThrough, RefusesPacket, Refused, Reply, CallOn, SeenStep
  <2>3. ASSUME NEW i \in Depth, Route(r, i)
        PROVE  SeenStep
    BY <2>3, Unseen DEF Route, RefusesPacket, Refused, Reply, CallOn, SeenStep
  <2> QED
    BY <1>1, <2>1, <2>2, <2>3, SetIsWrite, GetIsRead, ReturnIsSeen DEF Serve, Ready
<1>2. ASSUME NEW r \in Request, Wait(r)
      PROVE  SeenStep
  BY <1>2, Unseen DEF Wait, SeenStep
<1>3. ASSUME NEW h \in Hop, PollAnswered(h)
      PROVE  SeenStep
  BY <1>3, Unseen DEF PollAnswered, SeenStep
<1>4. CASE UNCHANGED vars
  BY <1>4, Unseen DEF vars, SeenStep
<1> QED
  BY <1>1, <1>2, <1>3, <1>4, SendIsInvoke, BreakIsSeen, RestartIsSeen DEF Next, Fault

\* Seen from its clients, metadata behind gateway and routing is the register
\* of module SharedRegister, whatever breaks or restarts on the way.
THEOREM PathImplementsRegister == Spec => ImplementsRegister
<1>1. Init => Register!Init
  BY InitIsInit DEF Register!Init, progressNow, toldNow
<1> QED
  BY <1>1, PathInvHolds, StepIsSeen, PTL DEF Spec, ImplementsRegister, Register!Spec

-----------------------------------------------------------------------------
\* No request is dropped between the hops

\* Leg i of r has a call or an answer that somebody waits for, and every hop
\* above it is at work and waits too.
InHandOf(r, i) ==
    /\ i \in Ready(r) /\ Waits(legs[r][i]) /\ i <= Len(request[r].path)
    /\ \A j \in 1..i - 1 : legs[r][j].at = "working" /\ Waits(legs[r][j])

AlwaysInHand ==
    \A r \in Request : request[r] # Nothing /\ answer[r] = None => \E i \in Depth : InHandOf(r, i)

\* The safety side of EveryRequestIsAnswered: a request whose client is still
\* waiting is in the hands of one hop, with an unbroken chain of waiting hops
\* above it, whatever broke or was restarted on the way (proxyRequest of
\* services/gateway/index.js and forward of services/routing/index.js).
THEOREM RequestsAreInSomeHand == Spec => []AlwaysInHand
<1>1. PathInv => AlwaysInHand
  <2> SUFFICES ASSUME PathInv, NEW r \in Request, request[r] # Nothing, answer[r] = None
               PROVE  \E i \in Depth : InHandOf(r, i)
    BY DEF AlwaysInHand
  <2> DEFINE L == legs[r]
             q == request[r]
  <2>1. /\ Waits(L[1])
        /\ Waits(L[2]) <=> L[1].at = "working"
        /\ Waits(L[3]) <=> L[2].at = "working"
    BY DEF PathInv, RequestOK, Sound, WaitingOK
  <2>2. Len(q.path) \in 1..3
    <3>1. q \in Sent[r]
      BY DEF PathInv, Shapes
    <3> QED BY <3>1, RequestAssumption, PathShape
  <2>0. Len(q.path) >= 1 /\ ~(3 < Len(q.path))
    <3>1. \A n \in 1..3 : n >= 1 /\ ~(3 < n)
      OBVIOUS
    <3> QED BY <2>2, <3>1, Zenon
  <2>3. ASSUME NEW i \in Depth
        PROVE  /\ L[i].at \in {"gone", "called", "working", "answered"}
               /\ L[i].at = "called" => i <= Len(q.path)
               /\ L[i].at = "working" => i < Len(q.path)
    <3>1. CallOK(q, L, effect[r], checked[r], i) /\ LegOK(q, L, effect[r], i)
      BY DEF PathInv, RequestOK, Sound
    <3> QED BY <3>1 DEF CallOK, LegOK, LegTypeOK
  <2>4. ASSUME NEW i \in Depth, L[i].at \in {"called", "answered"}, Waits(L[i]),
               \A j \in 1..i - 1 : L[j].at = "working" /\ Waits(L[j])
        PROVE  InHandOf(r, i)
    <3>1. i <= Len(q.path)
      <4>1. CASE i = 1
        BY <2>0, <4>1
      <4>2. CASE i # 1
        <5>1. i - 1 \in Depth /\ i - 1 \in 1..i - 1
          BY <4>2 DEF Depth
        <5> QED BY <2>2, <2>3, <2>4, <5>1 DEF Depth
      <4> QED BY <4>1, <4>2
    <3> QED BY <2>4, <3>1 DEF InHandOf, Ready
  <2>5. CASE L[1].at # "working"
    <3>1. L[1].at \in {"called", "answered"} /\ 1 \in Depth
      BY <2>1, <2>3, <2>5 DEF Waits, Depth
    <3> QED BY <2>1, <2>4, <3>1
  <2>6. CASE L[1].at = "working" /\ L[2].at # "working"
    <3>1. L[2].at \in {"called", "answered"} /\ 2 \in Depth /\ \A j \in 1..2 - 1 : j = 1
      BY <2>1, <2>3, <2>6 DEF Waits, Depth
    <3> QED BY <2>1, <2>4, <2>6, <3>1
  <2>7. CASE L[1].at = "working" /\ L[2].at = "working"
    <3>1. L[3].at # "working"
      BY <2>0, <2>3 DEF Depth
    <3>2. L[3].at \in {"called", "answered"} /\ 3 \in Depth /\ \A j \in 1..3 - 1 : j \in {1, 2}
      BY <2>1, <2>3, <2>7, <3>1 DEF Waits, Depth
    <3> QED BY <2>1, <2>4, <2>7, <3>2
  <2> QED BY <2>5, <2>6, <2>7
<1> QED BY <1>1, PathInvHolds, PTL

=============================================================================
