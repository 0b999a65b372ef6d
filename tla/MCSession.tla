----------------------------- MODULE MCSession -----------------------------
(***************************************************************************)
(* Instances of Session for TLC.  A request is a string; "sub", "resub"    *)
(* and "unsub" are about one topic, "sub2" is about another.               *)
(***************************************************************************)
EXTENDS Session

KindOf == [call |-> "call", note |-> "notify",
           reg |-> "register", unreg |-> "unregister",
           sub |-> "subscribe", sub2 |-> "subscribe",
           resub |-> "subscribe", unsub |-> "unsubscribe"]

MCKind == [o \in Ops |-> KindOf[o]]
MCTopic == [o \in Ops |-> IF o = "sub2" THEN "sport" ELSE "news"]

=============================================================================
