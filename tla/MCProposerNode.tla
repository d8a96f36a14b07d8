--------------------------- MODULE MCProposerNode ---------------------------
(***************************************************************************)
(* Two validators, so that every ack and partial decryption is needed.     *)
(* Either no validator is asked for a second proposal at one height, or    *)
(* each may be asked twice, while one round is brought to its end.         *)
(***************************************************************************)
EXTENDS ProposerNode

VARIABLE asked   \* how often a validator may be asked at one height

Twice == INSTANCE ProposerNode WITH MaxPrepares <- 2

MCInit == Init /\ asked \in {"once", "twice"}

OneSession == round'[2].status = "NONE"

MCNext ==
    /\ UNCHANGED asked
    /\ \/ asked = "once" /\ Next
       \/ asked = "twice" /\ Twice!Next /\ OneSession

MCSpec == MCInit /\ [][MCNext]_<<vars, asked>> /\ Fairness

(* The injectors bring every round to its result unless a phase times out,  *)
(* when no validator is asked twice at one height: a second proposal at the *)
(* same height replaces the polynomial of the first, see CoeffsSurvive      *)
(* (ComposedPrepareProposalHandler, ProcessProposalHandler).                *)
InjectorsSufficeOnce == asked = "once" => InjectorsSuffice

=============================================================================
