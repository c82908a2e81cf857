--------------------------- MODULE ConfigRegister ---------------------------
(***************************************************************************)
(* What the configuration service promises its callers: a register that    *)
(* edits replace as a whole, each with a higher revision, and whose reads  *)
(* return a value it held at some moment between the call and the return.  *)
(* It has no cache, no transaction and no ETag.                            *)
(***************************************************************************)
EXTENDS Naturals

CONSTANTS Clients, Values, Initial

VARIABLES
  current,   \* the published value, a record with a field rev
  op         \* client -> its operation: idle, pending or returned

regVars == <<current, op>>

IdleOp == [state |-> "idle", values |-> {}]

Init ==
  /\ current = Initial
  /\ op = [c \in Clients |-> IdleOp]

\* An edit.  Every pending read has now seen the new value too.
Publish ==
  /\ current' \in Values
  /\ current'.rev > current.rev
  /\ op' = [c \in Clients |->
              IF op[c].state = "pending"
                THEN [state |-> "pending", values |-> op[c].values \union {current'}]
                ELSE op[c]]

Invoke(c) ==
  /\ op[c].state = "idle"
  /\ op' = [op EXCEPT ![c] = [state |-> "pending", values |-> {current}]]
  /\ UNCHANGED current

Return(c) ==
  /\ op[c].state = "pending"
  /\ \E v \in op[c].values :
       op' = [op EXCEPT ![c] = [state |-> "returned", values |-> {v}]]
  /\ UNCHANGED current

\* The value is used, or the call failed before it returned one.
End(c) ==
  /\ op[c].state # "idle"
  /\ op' = [op EXCEPT ![c] = IdleOp]
  /\ UNCHANGED current

\* The server stops: every call ends without a value.
Crash ==
  /\ op' = [c \in Clients |-> IdleOp]
  /\ UNCHANGED current

\* Most steps of an implementation; named so that TLC tries it first.
Quiet == UNCHANGED regVars

Next ==
  \/ Quiet
  \/ Publish
  \/ \E c \in Clients : Invoke(c) \/ Return(c) \/ End(c)
  \/ Crash

Spec == Init /\ [][Next]_regVars
=============================================================================
