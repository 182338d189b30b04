------------------------------ MODULE Authority ------------------------------
(***************************************************************************)
(* What the authority boundary of internal/mcp/authority.go promises, with *)
(* the control plane left out: which content of each revision may be       *)
(* dispatched to the ERP, and which dispatches are under way.              *)
(*                                                                         *)
(* A revision is granted one content.  A dispatch commits only under a     *)
(* grant of exactly its content.  A grant is neither withdrawn nor         *)
(* replaced while a dispatch that committed under it is under way.         *)
(***************************************************************************)
CONSTANTS Rev, Content, Call, None

VARIABLES granted,   \* the content each revision may dispatch, or None
          inflight   \* the dispatch each caller has under way, or NoDispatch

vars == <<granted, inflight>>

NoDispatch == [rev |-> None, digest |-> None]

Init ==
  /\ granted = [r \in Rev |-> None]
  /\ inflight = [c \in Call |-> NoDispatch]

Grant(r, d) ==
  /\ granted[r] = None
  /\ granted' = [granted EXCEPT ![r] = d]
  /\ UNCHANGED inflight

Withdraw(r) ==
  /\ \A c \in Call : inflight[c].rev # r
  /\ granted' = [granted EXCEPT ![r] = None]
  /\ UNCHANGED inflight

Commit(c, r, d) ==
  /\ inflight[c] = NoDispatch
  /\ granted[r] = d
  /\ inflight' = [inflight EXCEPT ![c] = [rev |-> r, digest |-> d]]
  /\ UNCHANGED granted

Return(c) ==
  /\ inflight' = [inflight EXCEPT ![c] = NoDispatch]
  /\ UNCHANGED granted

\* The process ends: grants and dispatches are gone.
Reset ==
  /\ granted' = [r \in Rev |-> None]
  /\ inflight' = [c \in Call |-> NoDispatch]

Next ==
  \/ \E r \in Rev, d \in Content : Grant(r, d)
  \/ \E r \in Rev : Withdraw(r)
  \/ \E c \in Call, r \in Rev, d \in Content : Commit(c, r, d)
  \/ \E c \in Call : Return(c)
  \/ Reset

Spec == Init /\ [][Next]_vars
=============================================================================
