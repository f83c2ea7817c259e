---------------------------- MODULE ConfigUpdate ----------------------------
(***************************************************************************)
(* PUT /api/v1/config for the two windows of a dead verdict: how long its  *)
(* history is kept and how far back the verdict looks                      *)
(* (api/handler/config.go).  A request is validated against the configs    *)
(* table and then saved key by key, without a transaction or a lock, so    *)
(* requests of several administrators interleave.  What reads the windows  *)
(* is in Retention.                                                        *)
(***************************************************************************)
EXTENDS Integers

CONSTANTS
    Admins,       \* requests in flight
    Requested     \* values a request may ask for, sensible or not

ASSUME RequestedAssumption == Requested \subseteq Int

VARIABLES
    cfg,          \* the two windows in the configs table
    update,       \* requests: the windows still to save
    lone          \* history: requests that read their windows and
                  \*   overlapped no other so far

vars == <<cfg, update, lone>>

Windows == {"history", "dead"}   \* *_history_*_days, *_dead_window_days

NoUpdate == [k \in {} |-> 0]
Idle(a) == update[a] = NoUpdate

(* The default windows, or others that a request has left.                  *)
Init ==
    /\ cfg \in [Windows -> {n \in Requested : n > 0}]
    /\ update = [a \in Admins |-> NoUpdate]
    /\ lone = {}

(* The windows as they would be: the request, and the table for what it     *)
(* leaves out.                                                              *)
Effective(req) == [k \in Windows |-> IF k \in DOMAIN req THEN req[k] ELSE cfg[k]]

(* Mutants of Valid: any integer will do, or only the request is compared.  *)
ValidOrder(req, unread) ==
    unread = {} => Effective(req)["history"] >= Effective(req)["dead"]

ValidAlone(req, unread) ==
    /\ \A k \in DOMAIN req : req[k] > 0
    /\ DOMAIN req = Windows => req["history"] >= req["dead"]

(* validateWindowConstraints: a window that is neither in the request nor   *)
(* could be read is not compared.                                           *)
Valid(req, unread) ==
    /\ \A k \in DOMAIN req : req[k] > 0
    /\ unread = {} => Effective(req)["history"] >= Effective(req)["dead"]

Update(a) ==
    /\ Idle(a)
    /\ \E keys \in (SUBSET Windows) \ {{}} : \E req \in [keys -> Requested] :
       \E unread \in SUBSET (Windows \ keys) :
         /\ Valid(req, unread)
         /\ update' = [update EXCEPT ![a] = req]
         /\ lone' = IF unread = {} /\ \A b \in Admins : Idle(b) THEN {a} ELSE {}
    /\ UNCHANGED cfg

(* The keys are saved one by one, in the order a map is ranged over.        *)
Save(a) ==
    \E k \in DOMAIN update[a] :
        /\ cfg' = [cfg EXCEPT ![k] = update[a][k]]
        /\ update' = [update EXCEPT ![a] = [j \in DOMAIN @ \ {k} |-> @[j]]]
        /\ lone' = IF DOMAIN update[a] = {k} THEN lone \ {a} ELSE lone

(* A save fails: the request ends with an error, what was saved stays.      *)
SaveFails(a) ==
    /\ ~Idle(a)
    /\ update' = [update EXCEPT ![a] = NoUpdate]
    /\ lone' = lone \ {a}
    /\ UNCHANGED cfg

Next == \E a \in Admins : Update(a) \/ Save(a) \/ SaveFails(a)

Spec == Init /\ [][Next]_vars

-----------------------------------------------------------------------------
(* Properties *)

(* Every variable keeps its type: no window is ever zero or less.           *)
TypeOK ==
    /\ cfg \in [Windows -> {n \in Requested : n > 0}]
    /\ update \in [Admins -> UNION {[K -> Requested] : K \in SUBSET Windows}]
    /\ lone \in SUBSET Admins

(* A request that could read the windows and overlapped no other leaves     *)
(* them in the order the handler insists on when its last key is saved,     *)
(* whatever overlapping or half-failed requests have left before it: what   *)
(* it did not name itself is compared as it was (api/handler/config.go:16). *)
WindowsOrdered ==
    [][\A a \in lone : Save(a) /\ update'[a] = NoUpdate
           => cfg'["history"] >= cfg'["dead"]]_vars
=============================================================================
