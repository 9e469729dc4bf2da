----------------------------- MODULE BlockStore -----------------------------
(***************************************************************************)
(* What a store of blocks promises: each call takes effect at one moment   *)
(* between its start and its end, a block's address is never given to      *)
(* other bytes, and a walk shows the addresses of one moment.              *)
(***************************************************************************)
EXTENDS Integers, FiniteSets

CONSTANTS Callers, Addresses, Bytes
VARIABLES content,  \* the blocks
          call      \* what each thread asked, or was answered

Blocks == [digest : Addresses, bytes : Bytes]
Requests ==
    [op : {"put"}, block : Blocks] \cup [op : {"get", "contains", "remove"}, digest : Addresses]
    \cup [op : {"count", "clear", "visit"}]
Idle == [op |-> "idle"]
Answered(a) == [op |-> "done", answer |-> a]
NoMemory == [op |-> "failed"]
Addressed(c) == {b.digest : b \in c}
At(c, d) == {b \in c : b.digest = d}

\* The store after a request, and its answer.
Effect(c, r) ==
    CASE r.op = "put" ->
           IF r.block.digest \notin Addressed(c) THEN <<c \cup {r.block}, "added">>
           ELSE <<c, IF r.block \in c THEN "identical" ELSE "conflict">>
      [] r.op = "get" -> <<c, At(c, r.digest)>>
      [] r.op = "contains" -> <<c, At(c, r.digest) # {}>>
      [] r.op = "remove" -> <<c \ At(c, r.digest), At(c, r.digest) # {}>>
      [] r.op = "count" -> <<c, Cardinality(c)>>
      [] r.op = "clear" -> <<{}, {}>>
      [] r.op = "visit" -> <<c, Addressed(c)>>

Init == content = {} /\ call = [t \in Callers |-> Idle]
Invoke(t) == call[t] = Idle /\ \E r \in Requests : call' = [call EXCEPT ![t] = r] /\ UNCHANGED content
Perform(t) ==
    /\ call[t] \in Requests
    /\ \/ /\ content' = Effect(content, call[t])[1]
          /\ call' = [call EXCEPT ![t] = Answered(Effect(content, call[t])[2])]
       \/ /\ call[t].op \in {"put", "visit"}
          /\ call' = [call EXCEPT ![t] = NoMemory] /\ UNCHANGED content
Return(t) == call[t].op \in {"done", "failed"} /\ call' = [call EXCEPT ![t] = Idle] /\ UNCHANGED content

Next == \E t \in Callers : Invoke(t) \/ Perform(t) \/ Return(t)
Spec == Init /\ [][Next]_<<content, call>>
=============================================================================
