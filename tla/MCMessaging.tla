------------------------------ MODULE MCMessaging ------------------------------
(***************************************************************************)
(* A stat and a truncate, and one message id or two; or one exchange of    *)
(* any kind on its own, when "exchange" holds it.                          *)
(***************************************************************************)
EXTENDS Messaging, Exchange

MCRequests == [stat |-> GetFileAttr("u"), truncate |-> Truncate("u", 0)]

MCValues == [stat     |-> Body("fuse_response", "ok", "file_attr", [type |-> "REG"]),
             truncate |-> Body("fuse_response", "ok", "none", 0)]

MCInit == Init /\ ExchangeInit

MCNext ==
    \/ exchange = {} /\ Next /\ UNCHANGED exchange
    \/ ExchangeNext /\ UNCHANGED vars

MCSpec == MCInit /\ [][MCNext]_<<vars, exchange>> /\ Fairness
================================================================================
