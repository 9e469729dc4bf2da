---------------------------- MODULE HeapPromise ----------------------------
(***************************************************************************)
(* What a persistent mergeable heap promises: a handle holds a bag of      *)
(* entries; one goes in, two bags are poured together, an action changes   *)
(* all of them at once, or one that no other is before is taken out.       *)
(***************************************************************************)
EXTENDS Naturals, FiniteSets, TLC

CONSTANTS Entries,
          Before(_, _),  \* the heap's order on entries
          Actions,       \* functions on entries
          Handles, Unset,
          MaxArray       \* entries of the longest array a heap is built from

Poured(a, b, c) == \A e \in Entries : c[e] = a[e] + b[e]
Add(a, e) == [a EXCEPT ![e] = @ + 1]
Drop(a, e) == [a EXCEPT ![e] = @ - 1]
Minimal(a) == {e \in Entries : a[e] > 0 /\ \A f \in Entries : a[f] > 0 => ~Before(f, e)}
RECURSIVE SumOver(_, _)
SumOver(a, s) == IF s = {} THEN 0 ELSE LET e == CHOOSE x \in s : TRUE IN a[e] + SumOver(a, s \ {e})
Acted(a, f, c) == \A e \in Entries : c[e] = SumOver(a, {g \in Entries : f[g] = e})

\* c is what one call makes of the bag a.
Derived(a, c) ==
    \/ \E e \in Entries : c \in {a, Add(a, e)}
    \/ \E e \in Minimal(a) : c = Drop(a, e)
    \/ \E f \in Actions : Acted(a, f, c)

\* One call takes the contents of the handles from now to new.
Step(now, new) ==
    \/ \E h \in Handles :
          /\ \A g \in Handles \ {h} : new[g] = now[g]
          /\ \/ new[h] = Unset
             \/ now[h] = Unset /\ new[h] # Unset /\ SumOver(new[h], Entries) <= MaxArray
             \/ \E s \in Handles :
                   /\ now[s] # Unset /\ new[h] # Unset
                   /\ \/ Derived(now[s], new[h])
                      \/ \E g \in Handles : now[g] # Unset /\ Poured(now[s], now[g], new[h])
    \/ \E s, h \in Handles : s # h /\ now[s] # Unset /\ new = [now EXCEPT ![h] = now[s], ![s] = Unset]
=============================================================================
