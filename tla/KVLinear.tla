------------------------------ MODULE KVLinear ------------------------------
(***************************************************************************)
(* What a key/value store with versions promises its clients: the sequential *)
(* model of models1/kv.go made concurrent.  An operation takes effect       *)
(* somewhere between its invocation and its response; one that only reads,  *)
(* or a Put that fails, answers from some state its key had in between      *)
(* (seen).                                                                  *)
(***************************************************************************)
EXTENDS Naturals

CONSTANTS Keys, Clients, Empty, Ops, NoOp

VARIABLES
    store,   \* value and version of every key
    op,      \* the operation a client is waiting for, or NoOp
    done,    \* has its Put taken effect?
    seen,    \* the states its key has had since the invocation
    answer   \* the answer to a client's last operation

linVars == <<store, op, done, seen, answer>>

Missing == [val |-> Empty, version |-> 0]
Answer(err, s) == [err |-> err, val |-> s.val, version |-> s.version]

Init ==
    /\ store = [k \in Keys |-> Missing]
    /\ op = [c \in Clients |-> NoOp]
    /\ done = [c \in Clients |-> FALSE]
    /\ seen = [c \in Clients |-> {}]
    /\ answer = [c \in Clients |-> NoOp]

Invoke(c, o) ==
    /\ op[c] = NoOp
    /\ op' = [op EXCEPT ![c] = o]
    /\ seen' = [seen EXCEPT ![c] = {store[o.key]}]
    /\ answer' = [answer EXCEPT ![c] = NoOp]
    /\ UNCHANGED <<store, done>>

\* A Put takes effect: once, and only on the version it names.
Perform(c) ==
    /\ op[c] # NoOp
    /\ op[c].type = "Put"
    /\ ~done[c]
    /\ store[op[c].key].version = op[c].version
    /\ LET new == [val |-> op[c].value, version |-> op[c].version + 1]
       IN  /\ store' = [store EXCEPT ![op[c].key] = new]
           /\ seen' = [d \in Clients |-> IF op[d] # NoOp /\ op[d].key = op[c].key
                                         THEN seen[d] \union {new} ELSE seen[d]]
    /\ done' = [done EXCEPT ![c] = TRUE]
    /\ UNCHANGED <<op, answer>>

GetAnswers(c) == {Answer(IF s.version = 0 THEN "ErrNoKey" ELSE "OK", s) : s \in seen[c]}

\* ErrMaybe promises nothing; ErrVersion and ErrNoKey that the Put did not
\* and will not take effect; OK that it did.
PutAnswers(c) ==
    LET mismatches == {s \in seen[c] : s.version # op[c].version}
    IN  {Answer("ErrMaybe", Missing)} \union
        IF done[c] THEN {Answer("OK", Missing)}
        ELSE {Answer(IF s.version = 0 THEN "ErrNoKey" ELSE "ErrVersion", Missing) : s \in mismatches}

Respond(c, a) ==
    /\ answer' = [answer EXCEPT ![c] = a]
    /\ op' = [op EXCEPT ![c] = NoOp]
    /\ done' = [done EXCEPT ![c] = FALSE]
    /\ seen' = [seen EXCEPT ![c] = {}]
    /\ UNCHANGED store

Next ==
    \E c \in Clients :
        \/ \E o \in Ops : Invoke(c, o)
        \/ Perform(c)
        \/ /\ op[c] # NoOp
           /\ \E a \in IF op[c].type = "Get" THEN GetAnswers(c) ELSE PutAnswers(c) : Respond(c, a)

Spec == Init /\ [][Next]_linVars
=============================================================================
