------------------------------ MODULE ListSeq ------------------------------
(***************************************************************************)
(* What list.h promises: lists of entries, where every entry is in one     *)
(* list at most.  ListHead implements this specification.                  *)
(***************************************************************************)
EXTENDS Sequences, SequencesExt

CONSTANTS Heads, Entries

VARIABLE lists       \* lists[h]: the entries of list h, from its front

In(h) == ToSet(lists[h])
Outside == Entries \ UNION {In(h) : h \in Heads}

Init == lists = [h \in Heads |-> <<>>]

AddFront(e, h) == /\ e \in Outside
                  /\ lists' = [lists EXCEPT ![h] = <<e>> \o @]

AddBack(e, h) == /\ e \in Outside
                 /\ lists' = [lists EXCEPT ![h] = Append(@, e)]

Delete(e, h) == \E i \in DOMAIN lists[h] :
                   /\ lists[h][i] = e
                   /\ lists' = [lists EXCEPT ![h] = RemoveAt(@, i)]

\* From one list to the back of another.
Move(e, from, to) ==
    /\ from # to
    /\ \E i \in DOMAIN lists[from] :
          /\ lists[from][i] = e
          /\ lists' = [lists EXCEPT ![from] = RemoveAt(@, i), ![to] = Append(@, e)]

\* All of one list goes to the front of another.
Join(l, h) == /\ l # h
              /\ lists' = [lists EXCEPT ![h] = lists[l] \o @, ![l] = <<>>]

Next == \E h \in Heads :
           \/ \E e \in Entries : AddFront(e, h) \/ AddBack(e, h) \/ Delete(e, h)
           \/ \E e \in Entries, to \in Heads : Move(e, h, to)
           \/ \E l \in Heads : Join(l, h)

Spec == Init /\ [][Next]_lists
=============================================================================
