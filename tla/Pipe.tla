-------------------------------- MODULE Pipe --------------------------------
(***************************************************************************)
(* What the receive path promises the protocols above it, whatever rings   *)
(* and processes it is made of: packets are handled in the order they      *)
(* arrived in, each at most once, any of them may be dropped on the way,   *)
(* and the one that is being handled does not change under its handler.    *)
(***************************************************************************)
EXTENDS Integers, Sequences, SequencesExt

CONSTANTS Packet, Nothing
VARIABLES q, held  \* the packets under way; the one in its handler's hands

vars == <<q, held>>

Init == q = <<>> /\ held = Nothing

Arrive == q' # <<>> /\ Last(q') \in Packet /\ q' = Append(q, Last(q')) /\ UNCHANGED held

\* What is left of t when some of it is lost: at tells where in t each element
\* of s was.
Thinned(s, t) ==
    \E at \in [DOMAIN s -> DOMAIN t] :
        /\ \A i, j \in DOMAIN s : i < j => at[i] < at[j]
        /\ \A i \in DOMAIN s : s[i] = t[at[i]]

Drop == UNCHANGED held /\ Len(q') < Len(q) /\ Thinned(q', q)

Take == q # <<>> /\ held = Nothing /\ held' = Head(q) /\ q' = Tail(q)

Finish == held # Nothing /\ held' = Nothing /\ UNCHANGED q

Next == Arrive \/ Drop \/ Take \/ Finish

Spec == Init /\ [][Next]_vars
=============================================================================
