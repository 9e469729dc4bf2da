---------------------------- MODULE SlidingWindow ----------------------------
(***************************************************************************)
(* What a sliding-window aggregate promises: a FIFO window over a stream   *)
(* whose arrivals are numbered, and a query that returns the ordered       *)
(* product of exactly the elements still in the window.                    *)
(*                                                                         *)
(* lo .. hi-1 are the arrival numbers in the window.  A product of         *)
(* consecutive elements is written as the interval [lo, hi) of arrivals it *)
(* multiplies: by associativity and the identity law that is its value in  *)
(* every monoid.                                                           *)
(***************************************************************************)
EXTENDS Integers

VARIABLES lo, hi, answer

windowVars == <<lo, hi, answer>>

\* The last query's answer; "none" when the last call was not a query.
NoAnswer == [lo |-> 0, hi |-> -1]

Init ==
    /\ lo = 0
    /\ hi = 0
    /\ answer = NoAnswer

\* The newest element enters at the back.
Insert ==
    /\ hi' = hi + 1
    /\ lo' = lo
    /\ answer' = NoAnswer

\* The oldest element leaves at the front.
Evict ==
    /\ lo < hi
    /\ lo' = lo + 1
    /\ hi' = hi
    /\ answer' = NoAnswer

\* The window empties; later arrivals have numbers not used before.
Clear ==
    /\ lo' = hi'
    /\ hi' >= hi
    /\ answer' = NoAnswer

\* A query returns the product of the whole window.  Over an empty window
\* that is the identity, which is the product of any empty interval.
Aggregate ==
    /\ \/ lo < hi /\ answer' = [lo |-> lo, hi |-> hi]
       \/ lo = hi /\ answer'.lo = answer'.hi
    /\ UNCHANGED <<lo, hi>>

\* A call that fails, or finds nothing to do, changes nothing.
Refuse ==
    /\ answer' = NoAnswer
    /\ UNCHANGED <<lo, hi>>

Next == Insert \/ Evict \/ Clear \/ Aggregate \/ Refuse

Spec == Init /\ [][Next]_windowVars
==============================================================================
