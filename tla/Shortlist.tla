------------------------------ MODULE Shortlist ------------------------------
(***************************************************************************)
(* What one recommendation request promises, whatever fills the shortlist:   *)
(* it looks at the member's garments once and ends in one step, either with  *)
(* nothing or with at most TopK outfits of garments that were looked at and  *)
(* are still owned.  Unless they are handed on from elsewhere, they are       *)
(* different, and each dresses a body.                                      *)
(***************************************************************************)
EXTENDS Sequences, Naturals

CONSTANTS
    TopK,      \* outfits asked for
    Complete   \* the sets of garments that dress a body

VARIABLES
    owned,     \* the member's garments
    pool,      \* the garments the request looked at
    handedOn,  \* somebody else chooses the outfits
    answer     \* open, or the outfits it was closed with

vars == <<owned, pool, handedOn, answer>>

Open == [closed |-> FALSE, outfits |-> <<>>]
Closed(outfits) == [closed |-> TRUE, outfits |-> outfits]

Init == pool = {} /\ handedOn \in BOOLEAN /\ answer = Open

\* A garment is deleted.
Part ==
    /\ owned' \in SUBSET owned
    /\ UNCHANGED <<pool, handedOn, answer>>

Look ==
    /\ answer = Open /\ pool = {}
    /\ pool' \in SUBSET owned
    /\ UNCHANGED <<owned, handedOn, answer>>

Whole(outfits) ==
    \A i \in DOMAIN outfits :
        /\ outfits[i] \in Complete
        /\ \A j \in DOMAIN outfits : i # j => outfits[i] # outfits[j]

Promised(outfits) ==
    /\ Len(outfits) <= TopK
    /\ \A i \in DOMAIN outfits : outfits[i] \subseteq pool \cap owned
    /\ handedOn \/ Whole(outfits)

Close ==
    /\ answer = Open
    /\ answer'.closed /\ answer' = Closed(answer'.outfits)
    /\ Promised(answer'.outfits)
    /\ UNCHANGED <<owned, pool, handedOn>>

Next == Part \/ Look \/ Close

Spec == Init /\ [][Next]_vars

=============================================================================
