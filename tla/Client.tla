------------------------------- MODULE Client -------------------------------
(***************************************************************************)
(* A client from Client::connect (module Joiner) to the first values it    *)
(* exchanges: it calls a procedure that returns its arguments, as the test *)
(* test_bytes_over_network does, and reads what it passed and what came    *)
(* back with the getters.  How the call itself goes is module Session's.   *)
(***************************************************************************)
EXTENDS Joiner, Values

CONSTANT Types   \* the types the application asks for

VARIABLES
  passed,     \* the values given to Arg(), a list's items
  returned,   \* the values of the Result
  asked,      \* what was read last: in which list, where and as what
  got         \* what the getter returned

callVars == <<passed, returned, asked, got>>
vars == <<joinVars, callVars>>

NoValues == [i \in {} |-> NullOpt]
NotAsked == [in |-> NoValues, index |-> 0, wanted |-> "null"]

ArgLists == {v.items : v \in {u \in Values : u.type = "list"}}

TypeOK ==
  /\ JoinTypeOK
  /\ passed \in ArgLists \cup {NoValues}
  /\ \A i \in DOMAIN returned : returned[i].type # "uint64"
  /\ asked.in \in {NoValues, passed, returned}

Init ==
  /\ JoinInit
  /\ passed = NoValues /\ returned = NoValues
  /\ asked = NotAsked /\ got = NullOpt

(* Arg() for each value, Do(), and the Result.  The procedure's side, which*)
(* returns its invocation as a Result, converts once more and changes      *)
(* nothing in that.                                                        *)
Echo(items) ==
  LET trip == [i \in DOMAIN items |-> from_c_value[to_c_value[items[i]]]]
  IN  [i \in DOMAIN items |-> from_c_value[to_c_value[trip[i]]]]

Call(items) ==
  /\ process = "up" /\ step = "joined" /\ details
  /\ passed = NoValues
  /\ passed' = items
  /\ returned' = Echo(items)
  /\ UNCHANGED <<joinVars, asked, got>>

(* A getter on the values passed, as on a Result made by hand, or on those *)
(* returned.  An undefined read may be the end of the process.             *)
Read(items, index, wanted) ==
  /\ process = "up" /\ passed # NoValues
  /\ asked' = [in |-> items, index |-> index, wanted |-> wanted]
  /\ got' = Arg(items, index, wanted)
  /\ process' \in IF got' = Undefined THEN {"up", "terminated"} ELSE {"up"}
  /\ UNCHANGED <<uri, step, address, socket, bytes, details, spoilt, remote, passed, returned>>

ApplicationStep ==
  \/ \E items \in ArgLists : Call(items)
  \/ \E items \in {passed, returned}, index \in -1..2, wanted \in Types :
       Read(items, index, wanted)

Next ==
  \/ (\E url \in Urls : Create(url)) /\ UNCHANGED callVars
  \/ JoinStep /\ UNCHANGED callVars
  \/ (RouterAnswers \/ RouterAborts \/ LinkLost) /\ UNCHANGED callVars
  \/ ApplicationStep

(* The thread that is in connect() goes on.  Nothing is assumed of the     *)
(* router, and the link need not fail.                                     *)
Spec == Init /\ [][Next]_vars /\ WF_vars(JoinStep /\ UNCHANGED callVars)

-----------------------------------------------------------------------------
(* Properties.                                                             *)

(* The values that survive: every number, at any depth, is in the range of *)
(* int64_t, and no string or key holds a NUL.                              *)
NoNUL(str) == \A i \in DOMAIN str : str[i] # NUL

Survives[v \in Values] ==
  CASE v.type = "list" -> \A i \in DOMAIN v.items : Survives[v.items[i]]
    [] v.type = "uint64" -> v.int < IntLimit
    [] v.type = "string" -> NoNUL(v.str)
    [] v.type = "dict" -> \A k \in DOMAIN v.items : NoNUL(k) /\ Survives[v.items[k]]
    [] OTHER -> TRUE

(* A value with its unsigned numbers made signed.                          *)
MadeSigned[v \in Values] ==
  CASE v.type \in {"list", "dict"} ->
         [v EXCEPT !.items = [k \in DOMAIN @ |-> MadeSigned[@[k]]]]
    [] v.type = "uint64" -> [type |-> "int64", int |-> v.int]
    [] OTHER -> v

(* What comes back is what was passed, through the conversions of both     *)
(* sides, lists and dicts with all that they hold; only the unsigned come  *)
(* back signed.                                                            *)
EchoKeepsValues ==
  \A i \in DOMAIN returned : Survives[passed[i]] => returned[i] = MadeSigned[passed[i]]

(* A getter gives the value as the type it has and nothing as any other:   *)
(* in the list that was passed a uint64_t reads back as the number it was, *)
(* in the one returned no value is a uint64_t.                             *)
ArgReadsBack ==
  asked.index \in DOMAIN asked.in =>
    got = IF asked.in[asked.index].type = asked.wanted THEN asked.in[asked.index] ELSE NullOpt

=============================================================================
