------------------------ MODULE PersistentSequence ------------------------
(***************************************************************************)
(* What a persistent sequence promises its caller.  A handle holds one     *)
(* immutable sequence; a call derives a sequence from one that is held and *)
(* leaves it in one handle, and every other handle keeps what it holds.    *)
(***************************************************************************)
EXTENDS Naturals, SequencesExt

CONSTANTS Values, Handles,
          Unset,    \* what a handle holds that owns no version
          MaxSource \* values of the longest array a sequence is built from
VARIABLE content

Init == content = [h \in Handles |-> Unset]

\* The sequences one call derives from q.
Derived(q) ==
    {Reverse(q)} \cup {Append(q, v) : v \in Values} \cup {<<v>> \o q : v \in Values}
    \cup {SubSeq(q, i + 1, j) : i, j \in 0..Len(q)}

\* One call takes the contents of the handles from now to new.
Step(now, new) ==
    \/ \E h \in Handles :
          /\ \A g \in Handles \ {h} : new[g] = now[g]
          /\ \/ new[h] = Unset
             \/ now[h] = Unset /\ \E n \in 0..MaxSource : new[h] \in [1..n -> Values]
             \/ \E s \in Handles : now[s] # Unset /\ new[h] \in Derived(now[s])
    \/ \E s, l, r \in Handles :     \* both halves at once
          /\ l # r /\ now[s] # Unset /\ \A g \in Handles \ {l, r} : new[g] = now[g]
          /\ new[l] # Unset /\ new[r] # Unset /\ new[l] \o new[r] = now[s]
    \/ \E s, h \in Handles :        \* a move
          /\ s # h /\ \A g \in Handles \ {s, h} : new[g] = now[g]
          /\ new[h] = now[s] /\ new[s] = Unset

Next == Step(content, content')
Spec == Init /\ [][Next]_content

-----------------------------------------------------------------------------
(***************************************************************************)
(* A persistent sequence that can also be edited in its interior and       *)
(* concatenated.                                                           *)
(***************************************************************************)

\* q with one value put in, taken out or replaced.
Edited(q) ==
    {SubSeq(q, 1, i) \o <<v>> \o SubSeq(q, i + 1, Len(q)) : i \in 0..Len(q), v \in Values}
    \cup {RemoveAt(q, i) : i \in 1..Len(q)}
    \cup {[q EXCEPT ![i] = v] : i \in 1..Len(q), v \in Values}

EditStep(now, new) ==
    \/ Step(now, new)
    \/ \E h, s \in Handles :
          /\ now[s] # Unset /\ \A g \in Handles \ {h} : new[g] = now[g]
          /\ new[h] \in Edited(now[s]) \cup {now[s] \o now[g] : g \in {f \in Handles : now[f] # Unset}}
    \/ \E s, l, r \in Handles :  \* both sides of one value
          /\ l # r /\ now[s] # Unset /\ \A g \in Handles \ {l, r} : new[g] = now[g]
          /\ new[l] # Unset /\ new[r] # Unset
          /\ \E v \in Values : new[l] \o <<v>> \o new[r] = now[s]

EditNext == EditStep(content, content')
EditSpec == Init /\ [][EditNext]_content
-----------------------------------------------------------------------------
(***************************************************************************)
(* A gap cursor on one: it stands between what is before it and what is    *)
(* after it; values go in before it, are taken out or replaced on either   *)
(* side of it, and only the cursor that receives the result moves.         *)
(***************************************************************************)
CONSTANTS Cursors,
          MaxInsert  \* values that go in at once

Whole(g) == g.before \o g.after
Inserted == UNION {[1..n -> Values] : n \in 0..MaxInsert}

\* One edit takes the gap g to h.
EditsGap(g, h) ==
    \/ \E vs \in Inserted : h = [g EXCEPT !.before = @ \o vs]
    \/ g.before # <<>> /\ h = [g EXCEPT !.before = Front(@)]
    \/ g.after # <<>> /\ h = [g EXCEPT !.after = Tail(@)]
    \/ g.after # <<>> /\ \E v \in Values : h = [g EXCEPT !.after = <<v>> \o Tail(@)]
    \/ h = [before |-> Reverse(g.after), after |-> Reverse(g.before)]

\* One call takes the gaps from now to new and the sequences, on which cursors are
\* opened and which they leave behind, from held to kept.
GapStep(now, new, held, kept) ==
    \/ /\ kept = held
       /\ \E c \in Cursors :
             /\ \A d \in Cursors \ {c} : new[d] = now[d]
             /\ \/ new[c] = Unset
                \/ \E s \in Cursors : now[s] # Unset /\ new[c] # Unset
                      /\ (EditsGap(now[s], new[c]) \/ Whole(new[c]) = Whole(now[s]))
                \/ \E h \in DOMAIN held : new[c] # Unset /\ Whole(new[c]) = held[h]
    \/ /\ kept = held
       /\ \E s, d \in Cursors :       \* a move
             now[s] # Unset /\ s # d /\ new = [now EXCEPT ![d] = now[s], ![s] = Unset]
    \/ /\ new = now
       /\ \E h \in DOMAIN held :
             \/ kept = [held EXCEPT ![h] = Unset]
             \/ \E c \in Cursors : now[c] # Unset /\ kept = [held EXCEPT ![h] = Whole(now[c])]
=============================================================================
