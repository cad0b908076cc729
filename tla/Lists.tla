------------------------------- MODULE Lists -------------------------------
(***************************************************************************)
(* The intrusive lists of rtservice.h (not in this repository): a node is  *)
(* unlinked through its own pointers, whatever list holds it.  A list is a *)
(* sequence of the objects whose nodes it links, first element first.      *)
(***************************************************************************)
EXTENDS Integers, Sequences, SequencesExt

Linked(s, x) == \E i \in DOMAIN s : s[i] = x

\* No object is linked twice.
Distinct(s) == \A i, j \in DOMAIN s : s[i] = s[j] => i = j

PlaceOf(s, x) == CHOOSE i \in DOMAIN s : s[i] = x

\* rt_list_remove(&x->node): no effect on a list that does not hold x.
rt_list_remove(s, x) == IF Linked(s, x) THEN RemoveAt(s, PlaceOf(s, x)) ELSE s

\* rt_list_insert_after the list head, and rt_list_insert_before it.
rt_list_insert_after(s, x) == <<x>> \o s
rt_list_insert_before(s, x) == Append(s, x)
=============================================================================
