------------------------------ MODULE MCClient ------------------------------
(***************************************************************************)
(* An instance of Client for TLC: URLs with and without port and path for  *)
(* each scheme, and values around the limits of an integer of 3 bits.      *)
(***************************************************************************)
EXTENDS Client

Tcp == {"tcp", "rs"}
MCWellFormed ==
  [scheme : Tcp, host : {<<"localhost">>}, port : {<<>>, <<"8080">>},
   path : {<<>>, <<"/", "ws">>, <<"/", "a", ":", "b">>}]
    \cup [scheme : {"unix", "unix+rs"}, host : {<<"/", "tmp", "/", "a", ":", "b">>},
          port : {<<>>}, path : {<<>>}]
MCMalformed == {<<"localhost", ":", "8080">>, <<"unixes", ":", "/", "/", "tmp">>,
                <<"ws", ":", "/", "/", "localhost">>, <<":", "/", "/", "localhost">>}

Numbers == [type : {"int64"}, int : {-4, -1, 0, 3}] \cup [type : {"uint64"}, int : {0, 3, 4, 7}]
Scalars == Numbers
  \cup [type : {"string"}, str : {<<>>, <<"a">>, <<"a", NUL, "a">>}]
  \cup [type : {"bytes"}, str : {<<"a", NUL, "a">>}]
  \cup {[type |-> "bool", bool |-> FALSE], [type |-> "double", real |-> "pi"],
        [type |-> "null"]}
OneItem(S) == [type : {"list"}, items : [{0} -> S]]
Dicts == [type : {"dict"}, items : [{<<"k">>} -> Scalars]]
           \cup [type : {"dict"}, items : [{<<"k", NUL, "k">>} -> Numbers]]
MCValues ==
  Scalars \cup OneItem(Scalars) \cup Dicts \cup OneItem(OneItem(Scalars) \cup Dicts)
    \cup [type : {"list"}, items : [{0, 1} -> Numbers]]

(* Scalars; what holds scalars; what holds that.                           *)
MCDepth(v) ==
  IF v \in Scalars THEN 0
  ELSE IF \A k \in DOMAIN v.items : v.items[k] \in Scalars THEN 1 ELSE 2

=============================================================================
