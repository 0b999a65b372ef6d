------------------------------- MODULE Values -------------------------------
(***************************************************************************)
(* xconn::Value, its conversion to a wampproto value and back, and the     *)
(* getters.  A value is a record with the alternative its variant holds; a *)
(* string is a sequence of characters.  A list is a function from its      *)
(* indices and a dict one from its keys, so that one Get serves both.      *)
(***************************************************************************)
EXTENDS Integers, Sequences

CONSTANTS
  IntLimit,  \* 2^63, the first number that int64_t does not hold
  Values,    \* the values considered, with all they hold and all they become
  Depth(_)   \* how deep a value is nested

ASSUME IntLimitAssumption == IntLimit \in Nat \ {0}

NUL == "NUL"
Strings == Seq(STRING)

Nested(v) == v.type \in {"list", "dict"}

(* What a value is, by the alternative it holds; a list has indices and a  *)
(* dict has strings for the keys of its items.                             *)
IsValue(v) ==
  IF Nested(v)
  THEN /\ v = [type |-> v.type, items |-> v.items]
       /\ v.items \in [DOMAIN v.items -> Values]
       /\ v.type = "dict" => DOMAIN v.items \subseteq Strings
  ELSE \/ v \in [type : {"int64"}, int : -IntLimit..IntLimit - 1]
       \/ v \in [type : {"uint64"}, int : 0..2 * IntLimit - 1]
       \/ v \in [type : {"string", "bytes"}, str : Strings]
       \/ v \in [type : {"bool"}, bool : BOOLEAN]
       \/ v.type = "double" /\ v = [type |-> "double", real |-> v.real]
       \/ v = [type |-> "null"]

ASSUME ValuesAssumption == \A v \in Values : IsValue(v)

(* No list holds itself, as a shared_ptr would let it: to_c_value would not*)
(* end on one.                                                             *)
ASSUME DepthAssumption ==
  \A v \in Values :
    /\ Depth(v) \in Nat
    /\ Nested(v) => \A k \in DOMAIN v.items : Depth(v.items[k]) < Depth(v)

-----------------------------------------------------------------------------
(* to_c_value.  A uint64_t becomes the int64_t with the same bits; what    *)
(* reads a c_str() stops at the first NUL.                                 *)
Signed_Narrow(n) == LET m == n % IntLimit
                    IN  IF 2 * m < IntLimit THEN m ELSE m - IntLimit

Signed(n) == IF n < IntLimit THEN n ELSE n - 2 * IntLimit
Unsigned(n) == n % (2 * IntLimit)

CString(s) ==
  LET end == CHOOSE i \in 1..Len(s) + 1 :
               (i <= Len(s) => s[i] = NUL) /\ \A j \in 1..i - 1 : s[j] # NUL
  IN  SubSeq(s, 1, end - 1)

(* The items under their keys, each cut at its first NUL.  Of keys that    *)
(* are one then, one is kept.                                              *)
CutKeys(items) ==
  [k \in {CString(j) : j \in DOMAIN items} |->
     items[CHOOSE j \in DOMAIN items : CString(j) = k]]

to_c_value[v \in Values] ==
  CASE v.type = "list" ->
         [type |-> "VALUE_LIST", items |-> [i \in DOMAIN v.items |-> to_c_value[v.items[i]]]]
    [] v.type \in {"int64", "uint64"} -> [type |-> "VALUE_INT", int |-> Signed(v.int)]
    [] v.type = "double" -> [type |-> "VALUE_FLOAT", real |-> v.real]
    [] v.type = "string" -> [type |-> "VALUE_STR", str |-> CString(v.str)]
    [] v.type = "bool" -> [type |-> "VALUE_BOOL", int |-> IF v.bool THEN 1 ELSE 0]
    [] v.type = "bytes" -> [type |-> "VALUE_BYTES", str |-> v.str]
    [] v.type = "dict" ->
         [type |-> "VALUE_DICT",
          items |-> CutKeys([k \in DOMAIN v.items |-> to_c_value[v.items[k]]])]
    [] OTHER -> [type |-> "VALUE_NULL"]

CValues == {to_c_value[v] : v \in Values}

(* from_c_value.  An integer is signed, whatever it was.                   *)
from_c_value[c \in CValues] ==
  CASE c.type = "VALUE_LIST" ->
         [type |-> "list", items |-> [i \in DOMAIN c.items |-> from_c_value[c.items[i]]]]
    [] c.type = "VALUE_INT" -> [type |-> "int64", int |-> c.int]
    [] c.type = "VALUE_FLOAT" -> [type |-> "double", real |-> c.real]
    [] c.type = "VALUE_BOOL" -> [type |-> "bool", bool |-> c.int # 0]
    [] c.type = "VALUE_STR" -> [type |-> "string", str |-> c.str]
    [] c.type = "VALUE_BYTES" -> [type |-> "bytes", str |-> c.str]
    [] c.type = "VALUE_DICT" ->
         [type |-> "dict", items |-> [k \in DOMAIN c.items |-> from_c_value[c.items[k]]]]
    [] OTHER -> [type |-> "null"]

(* What the values become is considered too.                               *)
ASSUME ClosedAssumption == \A v \in Values : from_c_value[to_c_value[v]] \in Values

-----------------------------------------------------------------------------
(* The getters of Value, List and Dict.                                    *)
NullOpt   == [type |-> "nullopt"]
Undefined == [type |-> "undefined"]

(* A value as one of the alternatives: itself, or nothing.                 *)
As(value, wanted) == IF value.type = wanted THEN value ELSE NullOpt

(* get(key) is empty for a key that is not there.  getList and getDict     *)
(* test it; the others dereference it.                                     *)
Get(items, key, wanted) ==
  CASE key \in DOMAIN items -> As(items[key], wanted)
    [] key \notin DOMAIN items /\ wanted \in {"list", "dict"} -> NullOpt
    [] OTHER -> Undefined

(* argUInt64: the number goes through the int64_t of List::getUInt64.      *)
ArgUInt64_Signed(items, index) ==
  LET got == Get(items, index, "uint64")
  IN  IF got.type = "uint64" THEN [got EXCEPT !.int = Signed(@)] ELSE got

ArgUInt64(items, index) ==
  LET got == Get(items, index, "uint64")
  IN  IF got.type = "uint64" THEN [got EXCEPT !.int = Unsigned(Signed(@))] ELSE got

Arg(items, index, wanted) ==
  IF wanted = "uint64" THEN ArgUInt64(items, index) ELSE Get(items, index, wanted)

=============================================================================
