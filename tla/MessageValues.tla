--------------------------- MODULE MessageValues ----------------------------
(***************************************************************************)
(* What a message class promises: objects that hold a value each.  They are *)
(* assigned to, reset, copied, merged and swapped, and a value that was     *)
(* posted is the one that is taken.  How values are laid out in memory and  *)
(* written on the wire does not matter here.                                *)
(***************************************************************************)
EXTENDS Sequences, Functions

CONSTANT Objects

VARIABLES value, posted

Empty(m) == [fields |-> [f \in DOMAIN m.fields |-> 0], unknown |-> <<>>]

Init ==
  /\ \A o \in Objects : value[o] = Empty(value[o])
  /\ posted = <<>>

Assign(o) == \E f \in DOMAIN value[o].fields :
  value' = [value EXCEPT ![o].fields[f] = value'[o].fields[f]]

Reset(o) == value' = [value EXCEPT ![o] = Empty(@)]

Copy(o, p) == value' = [value EXCEPT ![o] = value[p]]

\* What p has, o has afterwards; zero stands for a field that p does not have.
Merge(o, p) == value' = [value EXCEPT ![o] =
  [fields |-> [f \in DOMAIN @.fields |->
                 IF value[p].fields[f] # 0 THEN value[p].fields[f] ELSE @.fields[f]],
   unknown |-> @.unknown \o value[p].unknown]]

Exchange(o, p) == value' = [value EXCEPT ![o] = value[p], ![p] = value[o]]

Take(o) == posted # <<>> /\ value' = [value EXCEPT ![o] = posted[1]]

Post == \E o \in Objects : posted' = <<value[o]>>

\* A peer with a newer version of the protocol has one more field.
PostNewer ==
  /\ posted # <<>>
  /\ \E r \in Range(posted'[1].unknown) :
       posted' = <<[posted[1] EXCEPT !.unknown = Append(@, r)]>>

Next ==
  \/ /\ \E o, p \in Objects :
          Assign(o) \/ Reset(o) \/ Copy(o, p) \/ Merge(o, p) \/ Exchange(o, p) \/ Take(o)
     /\ UNCHANGED posted
  \/ (Post \/ PostNewer) /\ UNCHANGED value

Spec == Init /\ [][Next]_<<value, posted>>
=============================================================================
