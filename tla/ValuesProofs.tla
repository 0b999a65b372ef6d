---------------------------- MODULE ValuesProofs ----------------------------
(***************************************************************************)
(* What a client passes is what it gets back: proofs of EchoKeepsValues,   *)
(* ArgReadsBack and the type invariant of Client, for every width of an    *)
(* integer and all values however deep they are nested.                    *)
(***************************************************************************)
EXTENDS ClientProofs

(* The recursive functions of Values and Client, each by what it makes of  *)
(* one value with the help of g for the values held in it.                 *)
ToCDef(g, v) ==
  CASE v.type = "list" ->
         [type |-> "VALUE_LIST", items |-> [i \in DOMAIN v.items |-> g[v.items[i]]]]
    [] v.type \in {"int64", "uint64"} -> [type |-> "VALUE_INT", int |-> Signed(v.int)]
    [] v.type = "double" -> [type |-> "VALUE_FLOAT", real |-> v.real]
    [] v.type = "string" -> [type |-> "VALUE_STR", str |-> CString(v.str)]
    [] v.type = "bool" -> [type |-> "VALUE_BOOL", int |-> IF v.bool THEN 1 ELSE 0]
    [] v.type = "bytes" -> [type |-> "VALUE_BYTES", str |-> v.str]
    [] v.type = "dict" ->
         [type |-> "VALUE_DICT",
          items |-> CutKeys([k \in DOMAIN v.items |-> g[v.items[k]]])]
    [] OTHER -> [type |-> "VALUE_NULL"]

FromCDef(g, c) ==
  CASE c.type = "VALUE_LIST" ->
         [type |-> "list", items |-> [i \in DOMAIN c.items |-> g[c.items[i]]]]
    [] c.type = "VALUE_INT" -> [type |-> "int64", int |-> c.int]
    [] c.type = "VALUE_FLOAT" -> [type |-> "double", real |-> c.real]
    [] c.type = "VALUE_BOOL" -> [type |-> "bool", bool |-> c.int # 0]
    [] c.type = "VALUE_STR" -> [type |-> "string", str |-> c.str]
    [] c.type = "VALUE_BYTES" -> [type |-> "bytes", str |-> c.str]
    [] c.type = "VALUE_DICT" ->
         [type |-> "dict", items |-> [k \in DOMAIN c.items |-> g[c.items[k]]]]
    [] OTHER -> [type |-> "null"]

SurvivesDef(g, v) ==
  CASE v.type = "list" -> \A i \in DOMAIN v.items : g[v.items[i]]
    [] v.type = "uint64" -> v.int < IntLimit
    [] v.type = "string" -> NoNUL(v.str)
    [] v.type = "dict" -> \A k \in DOMAIN v.items : NoNUL(k) /\ g[v.items[k]]
    [] OTHER -> TRUE

SignedDef(g, v) ==
  CASE v.type \in {"list", "dict"} ->
         [v EXCEPT !.items = [k \in DOMAIN @ |-> g[@[k]]]]
    [] v.type = "uint64" -> [type |-> "int64", int |-> v.int]
    [] OTHER -> v

(* How deep what wampproto holds is: as deep as the least deep value it    *)
(* may have been.                                                          *)
Origins(c) == {Depth(v) : v \in {u \in Values : to_c_value[u] = c}}
CDepth(c) == CHOOSE n \in Origins(c) : \A m \in Origins(c) : n <= m

ToC    == INSTANCE RecursionProofs WITH S <- Values, Depth <- Depth, Def <- ToCDef
FromC  == INSTANCE RecursionProofs WITH S <- CValues, Depth <- CDepth, Def <- FromCDef
Surv   == INSTANCE RecursionProofs WITH S <- Values, Depth <- Depth, Def <- SurvivesDef
Signs  == INSTANCE RecursionProofs WITH S <- Values, Depth <- Depth, Def <- SignedDef

-----------------------------------------------------------------------------
LEMMA Items ==
  ASSUME NEW v \in Values
  PROVE  /\ Depth(v) \in Nat
         /\ v.type \in {"list", "dict"} =>
              \A k \in DOMAIN v.items : v.items[k] \in Values /\ Depth(v.items[k]) < Depth(v)
BY DepthAssumption, ValuesAssumption DEF IsValue, Nested

LEMMA Shallowest ==
  ASSUME NEW T, T \subseteq Values, T # {}
  PROVE  \E v \in T : \A u \in T : Depth(v) <= Depth(u)
<1>1. ToC!DepthIsNat
  BY Items DEF ToC!DepthIsNat
<1> QED
  BY <1>1, ToC!LeastDepth

(* to_c_value is what it says ...                                          *)
LEMMA ToCIsDefined == to_c_value = [v \in Values |-> ToCDef(to_c_value, v)]
<1>1. to_c_value = CHOOSE g : g = [v \in Values |-> ToCDef(g, v)]
  BY DEF to_c_value, ToCDef
<1>2. ToC!DepthIsNat
  BY Items DEF ToC!DepthIsNat
<1>3. ToC!LooksDeeper
  <2> SUFFICES ASSUME NEW v \in Values, NEW g, NEW h,
                      \A u \in Values : Depth(u) < Depth(v) => g[u] = h[u]
               PROVE  ToCDef(g, v) = ToCDef(h, v)
    BY DEF ToC!LooksDeeper
  <2>1. v.type \in {"list", "dict"} => \A k \in DOMAIN v.items : g[v.items[k]] = h[v.items[k]]
    BY Items
  <2>2. v.type \in {"list", "dict"} =>
          [k \in DOMAIN v.items |-> g[v.items[k]]] = [k \in DOMAIN v.items |-> h[v.items[k]]]
    BY <2>1
  <2> QED
    BY <2>2 DEF ToCDef
<1> HIDE DEF to_c_value, ToCDef
<1> QED
  BY <1>1, <1>2, <1>3, ToC!RecursiveFunction, Zenon

(* ... and so are the operators of the properties.                         *)
LEMMA SurvivesIsDefined == Survives = [v \in Values |-> SurvivesDef(Survives, v)]
<1>1. Survives = CHOOSE g : g = [v \in Values |-> SurvivesDef(g, v)]
  BY DEF Survives, SurvivesDef
<1>2. Surv!DepthIsNat
  BY Items DEF Surv!DepthIsNat
<1>3. Surv!LooksDeeper
  <2> SUFFICES ASSUME NEW v \in Values, NEW g, NEW h,
                      \A u \in Values : Depth(u) < Depth(v) => g[u] = h[u]
               PROVE  SurvivesDef(g, v) = SurvivesDef(h, v)
    BY DEF Surv!LooksDeeper
  <2>1. v.type \in {"list", "dict"} => \A k \in DOMAIN v.items : g[v.items[k]] = h[v.items[k]]
    BY Items
  <2> QED
    BY <2>1 DEF SurvivesDef
<1> HIDE DEF Survives, SurvivesDef
<1> QED
  BY <1>1, <1>2, <1>3, Surv!RecursiveFunction, Zenon

LEMMA MadeSignedIsDefined == MadeSigned = [v \in Values |-> SignedDef(MadeSigned, v)]
<1>1. MadeSigned = CHOOSE g : g = [v \in Values |-> SignedDef(g, v)]
  BY DEF MadeSigned, SignedDef
<1>2. Signs!DepthIsNat
  BY Items DEF Signs!DepthIsNat
<1>3. Signs!LooksDeeper
  <2> SUFFICES ASSUME NEW v \in Values, NEW g, NEW h,
                      \A u \in Values : Depth(u) < Depth(v) => g[u] = h[u]
               PROVE  SignedDef(g, v) = SignedDef(h, v)
    BY DEF Signs!LooksDeeper
  <2>1. v.type \in {"list", "dict"} => \A k \in DOMAIN v.items : g[v.items[k]] = h[v.items[k]]
    BY Items
  <2>2. v.type \in {"list", "dict"} =>
          [k \in DOMAIN v.items |-> g[v.items[k]]] = [k \in DOMAIN v.items |-> h[v.items[k]]]
    BY <2>1
  <2> QED
    BY <2>2 DEF SignedDef
<1> HIDE DEF MadeSigned, SignedDef
<1> QED
  BY <1>1, <1>2, <1>3, Signs!RecursiveFunction, Zenon

-----------------------------------------------------------------------------
(* Strings: without a NUL, c_str() loses nothing.                          *)
LEMMA WholeString ==
  ASSUME NEW str \in Strings, NoNUL(str)
  PROVE  CString(str) = str
<1> DEFINE Ends(i) == (i <= Len(str) => str[i] = NUL) /\ \A j \in 1..i - 1 : str[j] # NUL
           n == Len(str) + 1
<1>1. Len(str) \in Nat /\ DOMAIN str = 1..Len(str) /\ n \in 1..n
  BY DEF Strings
<1>2. Ends(n)
  BY <1>1 DEF NoNUL
<1>3. ASSUME NEW i \in 1..n, Ends(i)
      PROVE  i = n
  BY <1>1, <1>3 DEF NoNUL
<1>4. (CHOOSE i \in 1..n : Ends(i)) = n
  <2> HIDE DEF Ends, n
  <2> QED
    BY <1>1, <1>2, <1>3
<1>5. CString(str) = SubSeq(str, 1, n - 1)
  BY <1>4 DEF CString
<1>6. n - 1 = Len(str) /\ SubSeq(str, 1, Len(str)) = str
  BY <1>1 DEF Strings
<1> QED
  BY <1>5, <1>6

(* Keys without a NUL stay what they are ...                               *)
LEMMA WholeKeys ==
  ASSUME NEW items, DOMAIN items \subseteq Strings, \A k \in DOMAIN items : NoNUL(k)
  PROVE  CutKeys(items) = [k \in DOMAIN items |-> items[k]]
<1>1. \A k \in DOMAIN items : CString(k) = k
  BY WholeString
<1>2. {CString(j) : j \in DOMAIN items} = DOMAIN items
  BY <1>1
<1>3. ASSUME NEW k \in DOMAIN items
      PROVE  (CHOOSE j \in DOMAIN items : CString(j) = k) = k
  BY <1>1
<1> QED
  BY <1>2, <1>3 DEF CutKeys

(* ... and under every key is an item that was there.                      *)
LEMMA CutItems ==
  ASSUME NEW items, NEW k \in DOMAIN CutKeys(items)
  PROVE  \E j \in DOMAIN items : CutKeys(items)[k] = items[j]
<1>1. k \in {CString(j) : j \in DOMAIN items}
      /\ CutKeys(items)[k] = items[CHOOSE j \in DOMAIN items : CString(j) = k]
  BY DEF CutKeys
<1>2. \E j \in DOMAIN items : CString(j) = k
  BY <1>1
<1>3. (CHOOSE j \in DOMAIN items : CString(j) = k) \in DOMAIN items
  BY <1>2
<1> QED
  BY <1>1, <1>3

-----------------------------------------------------------------------------
(* What wampproto holds is nested as values are.                           *)
LEMMA OriginOf ==
  ASSUME NEW c \in CValues
  PROVE  /\ CDepth(c) \in Nat
         /\ \E v \in Values : to_c_value[v] = c /\ Depth(v) = CDepth(c)
         /\ \A v \in Values : to_c_value[v] = c => CDepth(c) <= Depth(v)
<1> DEFINE T == {v \in Values : to_c_value[v] = c}
<1>1. PICK v \in T : \A u \in T : Depth(v) <= Depth(u)
  <2>1. T \subseteq Values /\ T # {}
    BY DEF CValues
  <2> HIDE DEF T
  <2> QED
    BY <2>1, Shallowest
<1>2. Depth(v) \in Origins(c) /\ \A m \in Origins(c) : Depth(v) <= m
  BY <1>1 DEF Origins
<1>3. CDepth(c) \in Origins(c) /\ \A m \in Origins(c) : CDepth(c) <= m
  BY <1>2 DEF CDepth
<1>4. \A m \in Origins(c) : m \in Nat
  BY Items DEF Origins
<1>5. \E u \in Values : to_c_value[u] = c /\ Depth(u) = CDepth(c)
  BY <1>3 DEF Origins
<1>6. \A u \in Values : to_c_value[u] = c => CDepth(c) <= Depth(u)
  BY <1>3 DEF Origins
<1> QED
  BY <1>3, <1>4, <1>5, <1>6

LEMMA CItems ==
  ASSUME NEW c \in CValues, c.type \in {"VALUE_LIST", "VALUE_DICT"}, NEW k \in DOMAIN c.items
  PROVE  c.items[k] \in CValues /\ CDepth(c.items[k]) < CDepth(c)
<1>1. PICK v \in Values : to_c_value[v] = c /\ Depth(v) = CDepth(c)
  BY OriginOf
<1>2. c = ToCDef(to_c_value, v)
  BY <1>1, ToCIsDefined
<1> DEFINE items == [j \in DOMAIN v.items |-> to_c_value[v.items[j]]]
<1>3. v.type \in {"list", "dict"} /\ c.items \in {items, CutKeys(items)}
  BY <1>2 DEF ToCDef
<1>4. PICK j \in DOMAIN v.items : c.items[k] = to_c_value[v.items[j]]
  <2>1. CASE c.items = items
    BY <2>1
  <2>2. CASE c.items = CutKeys(items)
    <3>1. DOMAIN items = DOMAIN v.items /\ \A j \in DOMAIN v.items : items[j] = to_c_value[v.items[j]]
      OBVIOUS
    <3> HIDE DEF items
    <3> QED
      BY <2>2, <3>1, CutItems
  <2> QED
    BY <1>3, <2>1, <2>2
<1>5. v.items[j] \in Values /\ Depth(v.items[j]) < Depth(v) /\ Depth(v) \in Nat
      /\ Depth(v.items[j]) \in Nat
  BY <1>3, Items
<1>6. c.items[k] \in CValues
  BY <1>4, <1>5 DEF CValues
<1>7. CDepth(c.items[k]) <= Depth(v.items[j]) /\ CDepth(c.items[k]) \in Nat
  BY <1>4, <1>5, <1>6, OriginOf
<1> QED
  BY <1>1, <1>5, <1>6, <1>7

(* from_c_value is what it says.                                           *)
LEMMA FromCIsDefined == from_c_value = [c \in CValues |-> FromCDef(from_c_value, c)]
<1>1. from_c_value = CHOOSE g : g = [c \in CValues |-> FromCDef(g, c)]
  BY DEF from_c_value, FromCDef
<1>2. FromC!DepthIsNat
  BY OriginOf DEF FromC!DepthIsNat
<1>3. FromC!LooksDeeper
  <2> SUFFICES ASSUME NEW c \in CValues, NEW g, NEW h,
                      \A b \in CValues : CDepth(b) < CDepth(c) => g[b] = h[b]
               PROVE  FromCDef(g, c) = FromCDef(h, c)
    BY DEF FromC!LooksDeeper
  <2>1. c.type \in {"VALUE_LIST", "VALUE_DICT"} =>
          \A k \in DOMAIN c.items : g[c.items[k]] = h[c.items[k]]
    BY CItems
  <2>2. c.type \in {"VALUE_LIST", "VALUE_DICT"} =>
          [k \in DOMAIN c.items |-> g[c.items[k]]] = [k \in DOMAIN c.items |-> h[c.items[k]]]
    BY <2>1
  <2> QED
    BY <2>2 DEF FromCDef
<1> HIDE DEF from_c_value, FromCDef, CValues
<1> QED
  BY <1>1, <1>2, <1>3, FromC!RecursiveFunction, Zenon

-----------------------------------------------------------------------------
(* To wampproto and back.                                                  *)
Trip(v) == from_c_value[to_c_value[v]]
Trips(items) == [k \in DOMAIN items |-> Trip(items[k])]

LEMMA TripUnfolds ==
  ASSUME NEW v \in Values
  PROVE  Trip(v) = FromCDef(from_c_value, ToCDef(to_c_value, v))
<1>1. to_c_value[v] \in CValues /\ to_c_value[v] = ToCDef(to_c_value, v)
  BY ToCIsDefined DEF CValues
<1>2. from_c_value[to_c_value[v]] = FromCDef(from_c_value, to_c_value[v])
  BY <1>1, FromCIsDefined
<1> QED
  BY <1>1, <1>2 DEF Trip

(* No unsigned number comes back.                                          *)
LEMMA TripType ==
  ASSUME NEW v \in Values
  PROVE  Trip(v).type # "uint64"
<1>1. \A c : FromCDef(from_c_value, c).type # "uint64"
  BY DEF FromCDef
<1> QED
  BY <1>1, TripUnfolds

LEMMA ScalarTrip ==
  ASSUME NEW v \in Values, ~ Nested(v), Survives[v]
  PROVE  Trip(v) = MadeSigned[v]
<1>1. /\ Trip(v) = FromCDef(from_c_value, ToCDef(to_c_value, v))
      /\ MadeSigned[v] = SignedDef(MadeSigned, v)
      /\ SurvivesDef(Survives, v)
  BY TripUnfolds, MadeSignedIsDefined, SurvivesIsDefined
<1>2. IsValue(v)
  BY ValuesAssumption
<1>3. CASE v \in [type : {"int64"}, int : -IntLimit..IntLimit - 1]
  <2>1. v = [type |-> "int64", int |-> v.int] /\ v.type = "int64"
    BY <1>3
  <2>2. Signed(v.int) = v.int
    BY <1>3, IntLimitAssumption DEF Signed
  <2>3. Trip(v) = [type |-> "int64", int |-> v.int]
    BY <1>1, <2>1, <2>2 DEF ToCDef, FromCDef
  <2>4. MadeSigned[v] = v
    BY <1>1, <2>1 DEF SignedDef
  <2> QED
    BY <2>1, <2>3, <2>4
<1>4. CASE v \in [type : {"uint64"}, int : 0..2 * IntLimit - 1]
  <2>1. v.int < IntLimit
    BY <1>1, <1>4 DEF SurvivesDef
  <2>2. Signed(v.int) = v.int
    BY <2>1 DEF Signed
  <2> QED
    BY <1>1, <1>4, <2>2 DEF ToCDef, FromCDef, SignedDef
<1>5. CASE v \in [type : {"string", "bytes"}, str : Strings]
  <2>1. v.type = "string" => CString(v.str) = v.str
    BY <1>1, <1>5, WholeString DEF SurvivesDef
  <2>2. v = [type |-> v.type, str |-> v.str] /\ v.type \in {"string", "bytes"}
    BY <1>5
  <2> QED
    BY <1>1, <2>1, <2>2 DEF ToCDef, FromCDef, SignedDef
<1>6. CASE v \in [type : {"bool"}, bool : BOOLEAN]
  <2>1. ((IF v.bool THEN 1 ELSE 0) # 0) = v.bool
    BY <1>6
  <2>2. v = [type |-> "bool", bool |-> v.bool]
    BY <1>6
  <2>3. Trip(v) = [type |-> "bool", bool |-> (IF v.bool THEN 1 ELSE 0) # 0]
    BY <1>1, <1>6 DEF ToCDef, FromCDef
  <2>4. MadeSigned[v] = v
    BY <1>1, <1>6 DEF SignedDef
  <2> QED
    BY <2>1, <2>2, <2>3, <2>4
<1>7. CASE v.type = "double" /\ v = [type |-> "double", real |-> v.real]
  BY <1>1, <1>7 DEF ToCDef, FromCDef, SignedDef
<1>8. CASE v = [type |-> "null"]
  BY <1>1, <1>8 DEF ToCDef, FromCDef, SignedDef
<1> QED
  BY <1>2, <1>3, <1>4, <1>5, <1>6, <1>7, <1>8 DEF IsValue

LEMMA NestedTrip ==
  ASSUME NEW v \in Values, Nested(v), Survives[v]
  PROVE  Trip(v) = [type |-> v.type, items |-> Trips(v.items)]
<1> DEFINE c == to_c_value[v]
           citems == [k \in DOMAIN v.items |-> to_c_value[v.items[k]]]
<1>1. SurvivesDef(Survives, v) /\ IsValue(v) /\ v.type \in {"list", "dict"}
  BY SurvivesIsDefined, ValuesAssumption DEF Nested
<1>2. v.type = "dict" => CutKeys(citems) = citems
  <2>1. SUFFICES ASSUME v.type = "dict" PROVE CutKeys(citems) = citems
    OBVIOUS
  <2>2. \A k \in DOMAIN v.items : NoNUL(k)
    BY <1>1, <2>1 DEF SurvivesDef
  <2>3. DOMAIN citems = DOMAIN v.items /\ DOMAIN v.items \subseteq Strings
    BY <1>1, <2>1 DEF IsValue, Nested
  <2>4. CutKeys(citems) = [k \in DOMAIN citems |-> citems[k]]
    <3> HIDE DEF citems
    <3> QED
      BY <2>2, <2>3, WholeKeys
  <2> QED
    BY <2>4
<1>3. c = ToCDef(to_c_value, v)
  BY ToCIsDefined
<1>4. c.type = (IF v.type = "list" THEN "VALUE_LIST" ELSE "VALUE_DICT") /\ c.items = citems
  BY <1>1, <1>2, <1>3 DEF ToCDef
<1>5. Trip(v) = FromCDef(from_c_value, c)
  BY <1>3, TripUnfolds
<1>6. Trip(v) = [type |-> v.type, items |-> [k \in DOMAIN c.items |-> from_c_value[c.items[k]]]]
  BY <1>1, <1>4, <1>5 DEF FromCDef
<1>7. [k \in DOMAIN c.items |-> from_c_value[c.items[k]]] = Trips(v.items)
  BY <1>4 DEF Trips, Trip
<1> QED
  BY <1>6, <1>7

(* What MadeSigned makes of a list or a dict, and what survives in one.    *)
LEMMA NestedSigned ==
  ASSUME NEW v \in Values, Nested(v)
  PROVE  MadeSigned[v] = [type |-> v.type,
                          items |-> [k \in DOMAIN v.items |-> MadeSigned[v.items[k]]]]
<1>1. MadeSigned[v] = SignedDef(MadeSigned, v) /\ IsValue(v)
  BY MadeSignedIsDefined, ValuesAssumption
<1>2. v = [type |-> v.type, items |-> v.items] /\ v.type \in {"list", "dict"}
  BY <1>1 DEF IsValue, Nested
<1>3. MadeSigned[v] = [v EXCEPT !.items = [k \in DOMAIN v.items |-> MadeSigned[v.items[k]]]]
  BY <1>1, <1>2 DEF SignedDef
<1> QED
  BY <1>2, <1>3

LEMMA NestedSurvives ==
  ASSUME NEW v \in Values, Nested(v)
  PROVE  Survives[v] <=>
           /\ \A k \in DOMAIN v.items : Survives[v.items[k]]
           /\ v.type = "dict" => \A k \in DOMAIN v.items : NoNUL(k)
<1>1. Survives[v] = SurvivesDef(Survives, v) /\ v.type \in {"list", "dict"}
  BY SurvivesIsDefined DEF Nested
<1> QED
  BY <1>1 DEF SurvivesDef

(* Whatever survives comes back, made signed.                              *)
LEMMA TripKeeps ==
  ASSUME NEW w \in Values, Survives[w]
  PROVE  Trip(w) = MadeSigned[w]
<1> DEFINE T == {v \in Values : Survives[v] /\ Trip(v) # MadeSigned[v]}
<1> SUFFICES ASSUME T # {} PROVE FALSE
  OBVIOUS
<1>1. PICK v \in T : \A u \in T : Depth(v) <= Depth(u)
  <2>1. T \subseteq Values
    OBVIOUS
  <2> HIDE DEF T
  <2> QED
    BY <2>1, Shallowest
<1>2. v \in Values /\ Survives[v] /\ Trip(v) # MadeSigned[v]
  OBVIOUS
<1>3. Nested(v)
  BY <1>2, ScalarTrip
<1>4. ASSUME NEW k \in DOMAIN v.items
      PROVE  Trip(v.items[k]) = MadeSigned[v.items[k]]
  <2>1. /\ v.items[k] \in Values /\ Depth(v.items[k]) < Depth(v)
        /\ Depth(v) \in Nat /\ Depth(v.items[k]) \in Nat
    BY <1>2, <1>3, Items DEF Nested
  <2>2. Survives[v.items[k]]
    BY <1>2, <1>3, NestedSurvives
  <2>3. ~ (Depth(v) <= Depth(v.items[k]))
    BY <2>1
  <2>4. v.items[k] \notin T
    BY <1>1, <2>3
  <2> QED
    BY <2>1, <2>2, <2>4
<1>5. Trips(v.items) = [k \in DOMAIN v.items |-> MadeSigned[v.items[k]]]
  BY <1>4 DEF Trips
<1> QED
  BY <1>2, <1>3, <1>5, NestedTrip, NestedSigned

(* What came back survives the next trip, as it is.                        *)
LEMMA SignedStays ==
  ASSUME NEW w \in Values, Survives[w]
  PROVE  /\ MadeSigned[w] \in Values /\ Survives[MadeSigned[w]]
         /\ MadeSigned[MadeSigned[w]] = MadeSigned[w]
<1> DEFINE Stays(v) == Survives[MadeSigned[v]] /\ MadeSigned[MadeSigned[v]] = MadeSigned[v]
           T == {v \in Values : Survives[v] /\ ~ Stays(v)}
<1>type. ASSUME NEW v \in Values, Survives[v]
         PROVE  MadeSigned[v] \in Values
  BY <1>type, TripKeeps, ClosedAssumption DEF Trip
<1> SUFFICES ASSUME T # {} PROVE FALSE
  BY <1>type
<1>1. PICK v \in T : \A u \in T : Depth(v) <= Depth(u)
  <2>1. T \subseteq Values
    OBVIOUS
  <2> HIDE DEF T
  <2> QED
    BY <2>1, Shallowest
<1>2. v \in Values /\ Survives[v] /\ ~ Stays(v)
  OBVIOUS
<1> DEFINE m == MadeSigned[v]
<1>3. m \in Values /\ m = SignedDef(MadeSigned, v)
  BY <1>2, <1>type, MadeSignedIsDefined
<1>4. CASE ~ Nested(v)
  <2>1. m.type # "uint64" /\ ~ Nested(m) /\ m \in {v, [type |-> "int64", int |-> v.int]}
    BY <1>3, <1>4 DEF SignedDef, Nested
  <2>2. MadeSigned[m] = m
    <3>1. MadeSigned[m] = SignedDef(MadeSigned, m)
      BY <1>3, MadeSignedIsDefined
    <3> HIDE DEF m
    <3> QED
      BY <2>1, <3>1 DEF SignedDef, Nested
  <2>3. Survives[m]
    <3>1. CASE m = v
      BY <1>2, <3>1
    <3>2. CASE m = [type |-> "int64", int |-> v.int]
      <4>1. Survives[m] = SurvivesDef(Survives, m) /\ m.type = "int64"
        BY <1>3, <3>2, SurvivesIsDefined
      <4> HIDE DEF m
      <4> QED
        BY <4>1 DEF SurvivesDef
    <3> QED
      BY <2>1, <3>1, <3>2
  <2> QED
    BY <1>2, <2>2, <2>3
<1>5. CASE Nested(v)
  <2>1. m = [type |-> v.type, items |-> [k \in DOMAIN v.items |-> MadeSigned[v.items[k]]]]
    BY <1>2, <1>5, NestedSigned
  <2>2. /\ m.type = v.type /\ DOMAIN m.items = DOMAIN v.items /\ Nested(m)
        /\ \A k \in DOMAIN v.items : m.items[k] = MadeSigned[v.items[k]]
    BY <1>5, <2>1 DEF Nested
  <2>3. ASSUME NEW k \in DOMAIN v.items
        PROVE  Survives[m.items[k]] /\ MadeSigned[m.items[k]] = m.items[k]
    <3>1. /\ v.items[k] \in Values /\ Depth(v.items[k]) < Depth(v)
          /\ Depth(v) \in Nat /\ Depth(v.items[k]) \in Nat
      BY <1>2, <1>5, Items DEF Nested
    <3>2. Survives[v.items[k]]
      BY <1>2, <1>5, NestedSurvives
    <3>3. ~ (Depth(v) <= Depth(v.items[k]))
      BY <3>1
    <3>4. v.items[k] \notin T
      BY <1>1, <3>3
    <3>5. Stays(v.items[k])
      BY <3>1, <3>2, <3>4
    <3> QED
      BY <2>2, <3>5
  <2>4. Survives[m]
    <3>1. v.type = "dict" => \A k \in DOMAIN v.items : NoNUL(k)
      BY <1>2, <1>5, NestedSurvives
    <3> HIDE DEF m, T, Stays
    <3> QED
      BY <1>3, <2>2, <2>3, <3>1, NestedSurvives
  <2>5. MadeSigned[m] = m
    <3>1. MadeSigned[m] = [type |-> m.type,
                           items |-> [k \in DOMAIN m.items |-> MadeSigned[m.items[k]]]]
      BY <1>3, <2>2, NestedSigned
    <3>2. [k \in DOMAIN m.items |-> MadeSigned[m.items[k]]]
            = [k \in DOMAIN v.items |-> MadeSigned[v.items[k]]]
      BY <2>2, <2>3
    <3> QED
      BY <2>1, <2>2, <3>1, <3>2
  <2> QED
    BY <1>2, <2>4, <2>5
<1> QED
  BY <1>4, <1>5

-----------------------------------------------------------------------------
(* A call: what Arg() was given and what the Result holds.                 *)
LEMMA EchoIs ==
  ASSUME NEW items, \A i \in DOMAIN items : items[i] \in Values
  PROVE  /\ DOMAIN Echo(items) = DOMAIN items
         /\ \A i \in DOMAIN items :
              /\ Echo(items)[i] \in Values /\ Echo(items)[i].type # "uint64"
              /\ Survives[items[i]] => Echo(items)[i] = MadeSigned[items[i]]
<1>1. Echo(items) = [i \in DOMAIN items |-> Trip(Trip(items[i]))]
  BY DEF Echo, Trip
<1>2. ASSUME NEW i \in DOMAIN items
      PROVE  /\ Trip(Trip(items[i])) \in Values /\ Trip(Trip(items[i])).type # "uint64"
             /\ Survives[items[i]] => Trip(Trip(items[i])) = MadeSigned[items[i]]
  <2>1. items[i] \in Values /\ Trip(items[i]) \in Values
    BY ClosedAssumption DEF Trip
  <2>2. Trip(Trip(items[i])) \in Values
    BY <2>1, ClosedAssumption DEF Trip
  <2>3. Trip(Trip(items[i])).type # "uint64"
    BY <2>1, TripType
  <2>4. ASSUME Survives[items[i]]
        PROVE  Trip(Trip(items[i])) = MadeSigned[items[i]]
    <3>1. Trip(items[i]) = MadeSigned[items[i]]
      BY <2>1, <2>4, TripKeeps
    <3>2. Trip(MadeSigned[items[i]]) = MadeSigned[MadeSigned[items[i]]]
      BY <2>1, <2>4, TripKeeps, SignedStays
    <3> QED
      BY <2>1, <2>4, <3>1, <3>2, SignedStays
  <2> QED
    BY <2>2, <2>3, <2>4
<1> QED
  BY <1>1, <1>2

LEMMA ArgListIs ==
  ASSUME NEW items \in ArgLists
  PROVE  \A i \in DOMAIN items : items[i] \in Values
<1>1. PICK v \in Values : v.type = "list" /\ items = v.items
  BY DEF ArgLists
<1> QED
  BY <1>1, Items

(* A getter: a uint64_t goes through an int64_t and comes out as it was.   *)
LEMMA ArgGives ==
  ASSUME NEW items, NEW i \in DOMAIN items, items[i] \in Values, NEW wanted
  PROVE  Arg(items, i, wanted) = IF items[i].type = wanted THEN items[i] ELSE NullOpt
<1>1. \A w : Get(items, i, w) = IF items[i].type = w THEN items[i] ELSE NullOpt
  BY DEF Get, As
<1>2. CASE wanted # "uint64"
  BY <1>1, <1>2 DEF Arg
<1>3. CASE wanted = "uint64" /\ items[i].type # "uint64"
  BY <1>1, <1>3 DEF Arg, ArgUInt64, NullOpt
<1>4. CASE wanted = "uint64" /\ items[i].type = "uint64"
  <2> DEFINE v == items[i]
  <2>1. v \in [type : {"uint64"}, int : 0..2 * IntLimit - 1]
    BY <1>4, ValuesAssumption DEF IsValue, Nested
  <2>2. Unsigned(Signed(v.int)) = v.int
    <3>1. v.int \in 0..2 * IntLimit - 1 /\ 2 * IntLimit \in Nat \ {0}
      BY <2>1, IntLimitAssumption
    <3>2. CASE v.int < IntLimit
      <4>1. v.int % (2 * IntLimit) = v.int
        BY <3>1
      <4> QED
        BY <3>2, <4>1 DEF Signed, Unsigned
    <3>3. CASE ~ (v.int < IntLimit)
      <4> DEFINE M == 2 * IntLimit
      <4>1. (v.int - M) % M = v.int
        <5>1. M \in Nat \ {0} /\ v.int - M \in -M..-1 /\ (v.int - M) + M = v.int
          BY <3>1
        <5> HIDE DEF M, v
        <5> QED
          BY <5>1
      <4> QED
        BY <3>3, <4>1 DEF Signed, Unsigned
    <3> QED
      BY <3>2, <3>3
  <2>3. [v EXCEPT !.int = Unsigned(Signed(v.int))] = v
    BY <2>1, <2>2
  <2>4. Arg(items, i, wanted) = [v EXCEPT !.int = Unsigned(Signed(v.int))]
    BY <1>1, <1>4 DEF Arg, ArgUInt64
  <2> QED
    BY <1>4, <2>3, <2>4
<1> QED
  BY <1>2, <1>3, <1>4

(* Before the call there is nothing to read; after it, the Result is that  *)
(* of the arguments.                                                       *)
CallInv ==
  /\ \/ passed = NoValues /\ returned = NoValues
     \/ passed \in ArgLists /\ returned = Echo(passed)
  /\ asked.in \in {NoValues, passed, returned}
  /\ ArgReadsBack

LEMMA CallInvInit == Init => CallInv
BY DEF Init, CallInv, ArgReadsBack, NotAsked, NoValues

LEMMA CallKeeps ==
  ASSUME CallInv, NEW items \in ArgLists, Call(items)
  PROVE  CallInv'
<1>1. Echo(NoValues) = NoValues
  BY DEF Echo, NoValues
<1>2. asked.in = NoValues
  BY <1>1 DEF CallInv, Call
<1> QED
  BY <1>2 DEF CallInv, Call, ArgReadsBack

LEMMA ReadKeeps ==
  ASSUME CallInv, NEW items \in {passed, returned}, NEW index, NEW wanted,
         Read(items, index, wanted)
  PROVE  CallInv'
<1>1. passed \in ArgLists /\ returned = Echo(passed)
  BY DEF CallInv, Read
<1>2. \A i \in DOMAIN items : items[i] \in Values
  BY <1>1, ArgListIs, EchoIs
<1>3. asked' = [in |-> items, index |-> index, wanted |-> wanted]
      /\ got' = Arg(items, index, wanted) /\ passed' = passed /\ returned' = returned
  BY DEF Read
<1>4. ArgReadsBack'
  BY <1>2, <1>3, ArgGives DEF ArgReadsBack
<1> QED
  BY <1>1, <1>3, <1>4 DEF CallInv

LEMMA CallInvariant == Spec => []CallInv
<1>1. CallInv /\ [Next]_vars => CallInv'
  <2> SUFFICES ASSUME CallInv, [Next]_vars PROVE CallInv'
    OBVIOUS
  <2>1. CASE UNCHANGED callVars
    BY <2>1 DEF callVars, CallInv, ArgReadsBack
  <2>2. CASE ApplicationStep
    BY <2>2, CallKeeps, ReadKeeps DEF ApplicationStep
  <2> QED
    BY <2>1, <2>2 DEF Next, vars
<1> QED
  BY CallInvInit, <1>1, PTL DEF Spec

(* Every variable of a client has its type: nothing unsigned comes back,   *)
(* and what is read is of the list that was passed or returned.            *)
THEOREM ClientTypeCorrect == Spec => []TypeOK
<1>1. CallInv /\ JoinTypeOK => TypeOK
  <2> SUFFICES ASSUME CallInv, JoinTypeOK PROVE TypeOK
    OBVIOUS
  <2>1. \A i \in DOMAIN returned : returned[i].type # "uint64"
    <3>1. CASE returned = NoValues
      BY <3>1 DEF NoValues
    <3>2. CASE passed \in ArgLists /\ returned = Echo(passed)
      BY <3>2, ArgListIs, EchoIs
    <3> QED
      BY <3>1, <3>2 DEF CallInv
  <2> QED
    BY <2>1 DEF CallInv, TypeOK
<1> QED
  BY <1>1, CallInvariant, JoinTypeCorrect, PTL

(* What survives comes back, at any depth: types.cpp, to_c_value and       *)
(* from_c_value on both sides.                                             *)
THEOREM ValuesComeBack == Spec => []EchoKeepsValues
<1>1. CallInv => EchoKeepsValues
  <2> SUFFICES ASSUME CallInv PROVE EchoKeepsValues
    OBVIOUS
  <2>1. CASE returned = NoValues
    BY <2>1 DEF EchoKeepsValues, NoValues
  <2>2. CASE passed \in ArgLists /\ returned = Echo(passed)
    BY <2>2, ArgListIs, EchoIs DEF EchoKeepsValues
  <2> QED
    BY <2>1, <2>2 DEF CallInv
<1> QED
  BY <1>1, CallInvariant, PTL

(* A getter gives the value as the type it has and nothing as any other,   *)
(* an unsigned number too, which goes through a signed one.                *)
THEOREM GettersReadBack == Spec => []ArgReadsBack
BY CallInvariant, PTL DEF CallInv

=============================================================================
