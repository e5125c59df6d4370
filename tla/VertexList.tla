----------------------------- MODULE VertexList -----------------------------
(***************************************************************************)
(* What the unsorted representation of a vertex set promises (spec.md,    *)
(* "Vertex Set"): an insertion-ordered sequence of distinct ids; add      *)
(* appends, remove of a present id moves the last id into its place and   *)
(* of an absent id does nothing, pop_back drops the last id, and the      *)
(* external iterator hands out every id once, in sequence order, and then *)
(* reports its end.  The sequence is frozen while it is iterated, as the  *)
(* engine only iterates cand, which it never modifies.                    *)
(***************************************************************************)
EXTENDS Integers, Sequences, SequencesExt

CONSTANTS Key, RemoveAbsent

VARIABLES
  seq,
  phase,
  returned,
  call       \* the last operation called and its argument

vars == <<seq, phase, returned, call>>

Init == seq = <<>> /\ phase = "build" /\ returned = <<>> /\ call = <<"none", 0>>

Add(el) ==
  /\ phase = "build" /\ el \notin ToSet(seq)
  /\ seq' = Append(seq, el)
  /\ call' = <<"push_back", el>>
  /\ UNCHANGED <<phase, returned>>

\* Swap-remove: the last id takes the removed id's position.
RemoveEl(el) ==
  /\ phase = "build"
  /\ el \in IF RemoveAbsent THEN Key ELSE ToSet(seq)
  /\ seq' = IF el \in ToSet(seq)
            THEN LET i == SelectInSeq(seq, LAMBDA x : x = el)
                 IN  Front([seq EXCEPT ![i] = Last(seq)])
            ELSE seq
  /\ call' = <<"remove", el>>
  /\ UNCHANGED <<phase, returned>>

PopBack ==
  /\ phase = "build" /\ seq # <<>>
  /\ seq' = Front(seq)
  /\ call' = <<"pop_back", 0>>
  /\ UNCHANGED <<phase, returned>>

\* A copy of the set, used from then on in place of the original: the
\* same ids in the same order.
Copy ==
  /\ phase = "build"
  /\ call' = <<"copy", 0>>
  /\ UNCHANGED <<seq, phase, returned>>

\* One call of the iterator: the next id, and the end once all are out.
Next1 ==
  /\ phase \in {"build", "iterate"}
  /\ IF Len(returned) < Len(seq)
     THEN /\ returned' = Append(returned, seq[Len(returned) + 1])
          /\ phase' = IF Len(returned) + 1 = Len(seq) THEN "done" ELSE "iterate"
     ELSE /\ phase' = "done"
          /\ UNCHANGED returned
  /\ call' = <<"get_next", 0>>
  /\ UNCHANGED seq

Done == phase = "done" /\ UNCHANGED vars

Next == (\E el \in Key : Add(el) \/ RemoveEl(el)) \/ PopBack \/ Copy \/ Next1 \/ Done

Spec == Init /\ [][Next]_vars /\ WF_vars(Next1)
=============================================================================
