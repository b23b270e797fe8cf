------------------------------- MODULE MCNetlist -------------------------------
(* Netlists over a few names, with every list of different members and     *)
(* every removal list up to a length.                                      *)
EXTENDS Netlist, SequencesExt

CONSTANTS MaxMembers, MaxRemovals

Lists(S, n) == {s \in BoundedSeq(S, n) : \A i, j \in DOMAIN s : s[i] = s[j] => i = j}

MCDim      == -1 .. 2
MCRequests == Lists(PortMembers \cup RefMembers \cup ArrayMembers, MaxMembers)
MCRemovals == BoundedSeq(Inst, MaxRemovals)
================================================================================
