-------------------------------- MODULE Lease --------------------------------
(***************************************************************************)
(* What a guarded lane promises of what it takes from the machine: it      *)
(* marks a lane no later than it takes something for it, gives back before *)
(* or when it takes the mark off, and does not end while a mark stands.    *)
(* The machine may refuse to take a thing back, and may take it back by    *)
(* itself.                                                                 *)
(***************************************************************************)
CONSTANTS Things, Marks, Owner

VARIABLES lent, marked, refused, over

lvars == <<lent, marked, refused, over>>

Of(m) == {x \in Things : Owner[x] = m}

Init == lent = {} /\ marked = {} /\ refused = {} /\ over = FALSE

Take(m, T) ==
  /\ ~over
  /\ marked' = marked \cup {m} /\ lent' = lent \cup T
  /\ UNCHANGED <<refused, over>>

GiveBack(m, R) ==
  /\ m \in marked
  /\ marked' = marked \ {m} /\ refused' = refused \cup R
  /\ lent' \in SUBSET lent /\ lent' \cap Of(m) \subseteq refused'
  /\ lent \ Of(m) \subseteq lent'
  /\ UNCHANGED over

Lapse(T) == lent' = lent \ T /\ UNCHANGED <<marked, refused, over>>

End == marked = {} /\ over' = TRUE /\ UNCHANGED <<lent, marked, refused>>

Next ==
  \/ \E m \in Marks : \E T \in SUBSET Of(m) : Take(m, T) \/ GiveBack(m, T)
  \/ \E T \in SUBSET Things : Lapse(T)
  \/ End

Spec == Init /\ [][Next]_lvars

(* Whatever is not marked is back, or was refused.                          *)
Accounted ==
  /\ lent \subseteq Things
  /\ \A x \in lent : x \in refused \/ Owner[x] \in marked

(* Nothing outlives the end but what the machine refused.                   *)
NothingLeaks == over => lent \subseteq refused

==============================================================================
