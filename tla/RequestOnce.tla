---------------------------- MODULE RequestOnce -----------------------------
(***************************************************************************)
(* What Store.reserve_request promises: "Atomically reject replay, even    *)
(* when two processes start together.  Reservations intentionally do not   *)
(* auto-expire" (noble/store.py).  A request id is claimed by one run;     *)
(* only that run may launch a tool for it, and only while the claim        *)
(* stands; a claim is resolved by a result or stands for ever.  Module     *)
(* Engine is shown to implement this.                                      *)
(***************************************************************************)
CONSTANTS Runs, Requests, RequestOf   \* RequestOf \in [Runs -> Requests]

VARIABLES
    status,     \* of each request id
    owners,     \* runs whose claim was accepted
    launched    \* runs that started a worker

vars == <<status, owners, launched>>

(* The type of the state: only the run with the claim launches. *)
TypeOK ==
    /\ status \in [Requests -> {"fresh", "claimed", "resolved"}]
    /\ owners \subseteq Runs
    /\ launched \subseteq owners

Init ==
    /\ status = [q \in Requests |-> "fresh"]
    /\ owners = {}
    /\ launched = {}

Claim(r) ==
    /\ status[RequestOf[r]] = "fresh"
    /\ status' = [status EXCEPT ![RequestOf[r]] = "claimed"]
    /\ owners' = owners \cup {r}
    /\ UNCHANGED launched

(* The claim stands but its run never learns of it. *)
ClaimUnseen(r) ==
    /\ status[RequestOf[r]] = "fresh"
    /\ status' = [status EXCEPT ![RequestOf[r]] = "claimed"]
    /\ UNCHANGED <<owners, launched>>

Launch(r) ==
    /\ r \in owners \ launched
    /\ status[RequestOf[r]] = "claimed"
    /\ launched' = launched \cup {r}
    /\ UNCHANGED <<status, owners>>

Resolve(r) ==
    /\ r \in owners
    /\ status[RequestOf[r]] = "claimed"
    /\ status' = [status EXCEPT ![RequestOf[r]] = "resolved"]
    /\ UNCHANGED <<owners, launched>>

Next == \E r \in Runs : Claim(r) \/ ClaimUnseen(r) \/ Launch(r) \/ Resolve(r)

Spec == Init /\ [][Next]_vars

(* No two runs launch a tool for the same request id. *)
OneLaunch == \A r, s \in launched : RequestOf[r] = RequestOf[s] => r = s
=============================================================================
