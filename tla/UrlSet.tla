-------------------------------- MODULE UrlSet --------------------------------
(***************************************************************************)
(* urlSet of internal/scheme/urlset.go: URLs in a slice that is kept in     *)
(* descending order and searched by bisection.  URLs are numbers, ordered   *)
(* as their strings are.                                                    *)
(***************************************************************************)
EXTENDS Integers, Sequences

\* sort.Search: the first index whose URL is not greater than u, or one past the end.
Search(s, u) ==
  CHOOSE i \in 1 .. Len(s) + 1 :
    /\ \A k \in 1 .. i - 1 : s[k] > u
    /\ i = Len(s) + 1 \/ s[i] <= u

Has(s, u) == Search(s, u) <= Len(s) /\ s[Search(s, u)] = u

\* The inner append of append(append(s[:i], u), s[i:]...) always finds room in
\* the array of s, and writes u where s[i] was before s[i:] is read.
Add(s, u) ==
  LET i == Search(s, u)
  IN  IF i = Len(s) + 1 THEN Append(s, u)
      ELSE IF s[i] = u THEN s
      ELSE SubSeq(s, 1, i - 1) \o <<u, u>> \o SubSeq(s, i + 1, Len(s))
===============================================================================
