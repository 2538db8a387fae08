------------------------------ MODULE MCLoader ------------------------------
(***************************************************************************)
(* Four packages; "a" has two files, "b" and "c" one, "d" is what derived  *)
(* code imports.  Every import graph over them with at most two imports    *)
(* per file, cycles and imports of oneself included.                       *)
(***************************************************************************)
EXTENDS Loader

Names == {"a", "b", "c", "d"}

Lists(S, n) == {s \in UNION {[1 .. k -> S] : k \in 0 .. n} : \A i, j \in DOMAIN s : s[i] = s[j] => i = j}

File(lead, late, derive) == [lead |-> lead, late |-> late, derive |-> derive]

Trees == LET One == Lists({"a", "b", "c"}, 1)  Two == Lists({"a", "b", "c"}, 2) IN
    {[main |-> m, broken |-> x,
      files |-> [p \in Names |->
          CASE p = "a" -> <<File(a1, {}, FALSE), File(a2, {}, FALSE)>>
            [] p = "b" -> <<File(b, {}, v = "derive")>>
            [] p = "c" -> <<File(c, IF v = "late" THEN {"d"} ELSE {}, FALSE)>>
            [] p = "d" -> <<File(IF v = "derive" THEN <<"c">> ELSE <<>>, {}, FALSE)>>]] :
        m \in Two, a1 \in One, a2 \in One, b \in Two, c \in One,
        x \in {{}, {"b"}, {"c"}}, v \in {"plain", "derive", "late"}}

DerivedImports == <<"d">>

=============================================================================
