------------------------------ MODULE MCWebApi ------------------------------
(* The stream routes, the accounts, the delivery of alerts and the updates   *)
(* share no variable, so whatever one of them does, it does in the others'   *)
(* rest too: they are explored in turn and not in their product.             *)
EXTENDS StreamRoutes, Accounts, AlertDelivery, UpdateService

VARIABLE explored   \* the part of the application that is at work

Pushover(user) == [kind |-> "pushover", user |-> user]
Webhook(url) == [kind |-> "webhook", url |-> url]

(* A request of /alerts/test has one channel of each kind; a user of a clone *)
(* of its manager has two of one kind.                                       *)
MCNotes == [s \in Senders |->
    IF s \in Requests THEN <<Pushover("u1"), Webhook("w1")>> ELSE <<Pushover("u1"), Pushover("u2")>>]

(* Releases 0.8.0, 0.9.0, 0.10.0 and 1.0.0: as strings, 0.10.0 comes first.  *)
MCRank == [r \in Releases |-> CASE r = 2 -> 0 [] r = 0 -> 1 [] r = 1 -> 2 [] OTHER -> r]

MCInit ==
    /\ Init /\ AccountsInit /\ AlertsInit /\ UpdateInit
    /\ explored \in {"streams", "accounts", "alerts", "update"}
    /\ explored = "update" \/ current = NoFile

MCNext ==
    /\ \/ explored = "streams" /\ Next /\ UNCHANGED <<accountVars, alertVars, updateVars>>
       \/ explored = "accounts" /\ AccountsNext /\ UNCHANGED <<vars, alertVars, updateVars>>
       \/ explored = "alerts" /\ AlertsNext /\ UNCHANGED <<vars, accountVars, updateVars>>
       \/ explored = "update" /\ UpdateNext /\ UNCHANGED <<vars, accountVars, alertVars>>
    /\ UNCHANGED explored

MCSpec ==
    /\ MCInit /\ [][MCNext]_<<vars, accountVars, alertVars, updateVars, explored>>
    /\ RoutesFairness /\ AccountsFairness /\ UpdateFairness

(* Tables, cache, limiters, requests and circuits hold what they should.     *)
WebTypeOK == RoutesTypeOK /\ AccountsTypeOK /\ AlertsTypeOK
=============================================================================
