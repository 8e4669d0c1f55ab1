----------------------------- MODULE MCReferencer -----------------------------
EXTENDS Referencer, TLC

(* Every result a functor can return.                                       *)
AllResults == SUBSET {"KEEP", "LAST", "DEL", "END"}

(* FUNCTOR_PRIORITY_MAX, FUNCTOR_PRIORITY_Q_SIZE and a number of messages.  *)
AnyPriority == {-1, -2, 2}

Symmetry == Permutations(Producer) \cup Permutations(Worker) \cup Permutations(Msg)
=============================================================================
