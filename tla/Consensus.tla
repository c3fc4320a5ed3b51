------------------------------ MODULE Consensus ------------------------------
(***************************************************************************)
(* services/consensus: proposals by id, and proofs, which are hashes.      *)
(* Handlers are synchronous once the body is read; the call of logging     *)
(* they start is awaited by nobody, and its failure is caught.             *)
(***************************************************************************)
EXTENDS Naturals, Sequences, RequestBody

CONSTANTS Id, Topic, Payload,
          Undefined,   \* a field the body does not have
          NoProposal,  \* the entry of an id that was never proposed
          MaxReports   \* model bound: calls of logging

ConsensusAssumption == Undefined \notin Id \cup Topic \cup Payload /\ MaxReports \in Nat

VARIABLES proposals,
          reports     \* history: the calls of logging about proposals, in the order they were started

consensusVars == <<proposals, reports>>

\* Fields a caller may leave out
Optional(S) == S \cup {Undefined}

\* The hash of a payload; of undefined there is none, update() throws.
Proof == [of : Payload]
generateConsensusProof(payload) == IF payload = Undefined THEN {} ELSE {[of |-> payload]}

Proposal == [topic : Topic, payload : Payload, proof : Proof,
             status : {"pending", "accepted", "rejected"}]
Report == [event : {"proposal_created"}, id : Id] \cup
          [event : {"proposal_verified"}, id : Id, valid : BOOLEAN]

ConsensusTypeOK ==
    /\ proposals \in [Id -> Proposal \cup {NoProposal}]
    /\ reports \in Seq(Report) /\ Len(reports) <= MaxReports

ConsensusInit == proposals = [i \in Id |-> NoProposal] /\ reports = <<>>

-----------------------------------------------------------------------------
\* The parser of services/consensus
ConsensusReads(b, emptyObject) == Resolved(b, emptyObject)

logEvent(report) ==
    Len(reports) < MaxReports /\ reports' = Append(reports, report)

\* Faulty variant: an id that is there is kept with its status
ProposeMerged(p) ==
    \E proof \in generateConsensusProof(p.payload) :
        /\ p.id # Undefined /\ p.topic # Undefined
        /\ proposals' = [proposals EXCEPT ![p.id] =
               [topic |-> p.topic, payload |-> p.payload, proof |-> proof,
                status |-> IF @ = NoProposal THEN "pending" ELSE @.status]]
        /\ logEvent([event |-> "proposal_created", id |-> p.id])

\* POST /propose, of a new id or a known one, decided or not; 400 without id, topic or payload
Propose(p) ==
    \E proof \in generateConsensusProof(p.payload) :
        /\ p.id # Undefined /\ p.topic # Undefined
        /\ proposals' = [proposals EXCEPT ![p.id] =
               [topic |-> p.topic, payload |-> p.payload, proof |-> proof,
                status |-> "pending"]]
        /\ logEvent([event |-> "proposal_created", id |-> p.id])

\* GET /status/<id>: an unknown id is pending, too.
Status(id) == IF proposals[id] = NoProposal THEN "pending" ELSE proposals[id].status

\* POST /verify: the proof is compared with the caller's payload, not the proposal's
Verify(p) ==
    \E proof \in generateConsensusProof(p.payload) :
        LET valid == p.proof_id = proof IN
        IF p.id # Undefined /\ proposals[p.id] # NoProposal
        THEN /\ proposals' = [proposals EXCEPT ![p.id].status =
                                 IF valid THEN "accepted" ELSE "rejected"]
             /\ logEvent([event |-> "proposal_verified", id |-> p.id, valid |-> valid])
        ELSE UNCHANGED consensusVars     \* logged under another event's name

PostPropose(b) ==
    \E p \in ConsensusReads(b, [id |-> Undefined, topic |-> Undefined, payload |-> Undefined]) :
        Propose(p)

PostVerify(b) ==
    \E p \in ConsensusReads(b, [id |-> Undefined, payload |-> Undefined, proof_id |-> Undefined]) :
        Verify(p)

RestartConsensus == proposals' = [i \in Id |-> NoProposal] /\ UNCHANGED reports

Proposals == [id : Optional(Id), topic : Optional(Topic), payload : Optional(Payload)]
Verifications == [id : Optional(Id), payload : Optional(Payload), proof_id : Optional(Proof)]

ConsensusNext ==
    \/ \E b \in Bodies(Proposals) : PostPropose(b)
    \/ \E b \in Bodies(Verifications) : PostVerify(b)
    \/ RestartConsensus

ConsensusSpec == ConsensusInit /\ [][ConsensusNext]_consensusVars

-----------------------------------------------------------------------------
(* Whatever is proposed again, verified again or verified with another     *)
(* payload, in any order: the status of a proposal is what the newest call *)
(* of logging about its id says, so that no decision outlives a new        *)
(* proposal under the id, and its proof is of its own payload.  This does  *)
(* not make the decision one about that payload: POST /verify compares the *)
(* caller's payload with the caller's proof and never with the proposal's, *)
(* so that any pair that matches accepts whatever proposal stands, and any *)
(* other rejects it (POST /propose, POST /verify).                         *)
ProposalsAreAsReported ==
    \A id \in Id : proposals[id] # NoProposal =>
        LET about == {n \in DOMAIN reports : reports[n].id = id}
            newest == reports[CHOOSE n \in about : \A m \in about : m <= n]
        IN /\ proposals[id].proof.of = proposals[id].payload
           /\ about # {}
           /\ proposals[id].status = IF newest.event = "proposal_created" THEN "pending"
                                     ELSE IF newest.valid THEN "accepted" ELSE "rejected"
=============================================================================
