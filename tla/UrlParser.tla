----------------------------- MODULE UrlParser -----------------------------
(***************************************************************************)
(* parse_url and create_transport.  A URL is a sequence of words and of    *)
(* the two characters the parser looks for, ":" and "/".                   *)
(***************************************************************************)
EXTENDS Integers, Sequences

(* The words rfind("unix", 0) finds at their beginning.                    *)
UnixWords == {"unix", "unix+rs", "unixes"}

(* Where c is first in s, and beyond the end of s for npos.                *)
Find(s, c) ==
  CHOOSE i \in 1..Len(s) + 1 :
    /\ i <= Len(s) => s[i] = c
    /\ \A j \in 1..i - 1 : s[j] # c

Before(s, i) == SubSeq(s, 1, i - 1)
After(s, i) == SubSeq(s, i + 1, Len(s))

SchemeEnds(url) == {i \in 1..Len(url) - 2 : SubSeq(url, i, i + 2) = <<":", "/", "/">>}

NoParts == [scheme |-> <<>>, host |-> <<>>, port |-> <<>>]

(* The port is what stands between the first ":" and the first "/", if the *)
(* ":" comes first; the host ends at the first of the two.                 *)
HostAndPort(scheme, rest) ==
  LET colon == Find(rest, ":")
      slash == Find(rest, "/")
      end   == IF colon < slash THEN colon ELSE slash
  IN  [scheme |-> scheme, host |-> Before(rest, end),
       port |-> After(Before(rest, slash), end)]

parse_url_OneSyntax(url) ==
  LET end == CHOOSE i \in SchemeEnds(url) : \A j \in SchemeEnds(url) : i <= j
  IN  IF SchemeEnds(url) = {} THEN NoParts
      ELSE HostAndPort(Before(url, end), SubSeq(url, end + 3, Len(url)))

parse_url(url) ==
  LET end    == CHOOSE i \in SchemeEnds(url) : \A j \in SchemeEnds(url) : i <= j
      scheme == Before(url, end)
      rest   == SubSeq(url, end + 3, Len(url))
  IN  IF SchemeEnds(url) = {} THEN NoParts
      ELSE IF scheme # <<>> /\ Head(scheme) \in UnixWords
           THEN [NoParts EXCEPT !.scheme = scheme, !.host = rest]
           ELSE HostAndPort(scheme, rest)

(* The transport of a scheme; create_transport throws for every other one. *)
create_transport(scheme) ==
  CASE scheme \in {<<"tcp">>, <<"rs">>} -> "tcp"
    [] scheme \in {<<"unix">>, <<"unix+rs">>} -> "unix"
    [] OTHER -> "none"

=============================================================================
