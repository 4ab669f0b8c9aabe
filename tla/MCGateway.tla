----------------------------- MODULE MCGateway -----------------------------
(***************************************************************************)
(* Instances of Gateway for TLC.  Clients differ in nothing but their      *)
(* names, so they may be made to connect in one fixed order: unlike a      *)
(* symmetry set, this is sound for liveness as well.  The bytes are        *)
(* bounded for all clients together.                                       *)
(***************************************************************************)
EXTENDS Gateway, SequencesExt

CONSTANT TotalBytes    \* bound: bytes written by all clients

order == SetToSeq(Clients)

InTurn ==
    \A i \in 2 .. Len(order) :
        peer'[order[i]] # "new" => peer'[order[i - 1]] # "new"

MCNext == Next /\ InTurn /\ FoldFunction(+, 0, written') <= TotalBytes

MCSpec == Init /\ [][MCNext]_vars /\ WF_vars(ReactorStep)
=============================================================================
