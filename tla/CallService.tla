----------------------------- MODULE CallService -----------------------------
(***************************************************************************)
(* What a remote call promises the program that makes it (SyncCall of      *)
(* client/client.go), whatever agents, connections and nodes lie between:  *)
(* the call ends, once, with the answer of a handler, with ENTRY_NOT_FOUND *)
(* or with an error; a handler runs at most once for it; an answer is the  *)
(* answer of a handler that ran; and after ENTRY_NOT_FOUND no handler runs.*)
(* After an error a handler may have run, and may still run.  Dispatch     *)
(* implements this specification.                                          *)
(***************************************************************************)
EXTENDS Naturals

CONSTANT Calls

VARIABLES
  call,   \* idle, pending, or how the call ended: reply, notfound, failed
  ran     \* how often a handler has run for the call

vars == <<call, ran>>

Outcomes == {"reply", "notfound", "failed"}

Init ==
  /\ call = [r \in Calls |-> "idle"]
  /\ ran = [r \in Calls |-> 0]

Begin(r) ==
  /\ call[r] = "idle"
  /\ call' = [call EXCEPT ![r] = "pending"]
  /\ UNCHANGED ran

Run(r) ==
  /\ call[r] \notin {"idle", "notfound"} /\ ran[r] = 0
  /\ ran' = [ran EXCEPT ![r] = 1]
  /\ UNCHANGED call

End(r, outcome) ==
  /\ call[r] = "pending"
  /\ outcome = "reply" => ran[r] = 1
  /\ outcome = "notfound" => ran[r] = 0
  /\ call' = [call EXCEPT ![r] = outcome]
  /\ UNCHANGED ran

Ends(r) == \E outcome \in Outcomes : End(r, outcome)

(* One timeout closes a connection and with it may fail several calls.     *)
FailMany ==
  \E R \in SUBSET {r \in Calls : call[r] = "pending"} :
    /\ call' = [r \in Calls |-> IF r \in R THEN "failed" ELSE call[r]]
    /\ UNCHANGED ran

Next == FailMany \/ \E r \in Calls : Begin(r) \/ Run(r) \/ Ends(r)

Spec == Init /\ [][Next]_vars /\ \A r \in Calls : WF_vars(Ends(r))
=============================================================================
