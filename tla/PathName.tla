------------------------------- MODULE PathName -------------------------------
(***************************************************************************)
(* normalize_path (src/src/index.cpp), which every call that takes a path  *)
(* applies to it.  A path is a sequence of characters.                     *)
(***************************************************************************)
EXTENDS Integers, Sequences, FiniteSets, SequencesExt

CONSTANTS Slash, Dot

ASSUME PathNameAssumption == Slash # Dot

\* Faulty variants, each a bug one could write.
KeepingDots(seg) == seg = <<>>

\* "a//b", "a/./b", "/a" and "a/" name what "a/b" and "a" do.
Dropped(seg) == seg \in {<<>>, <<Dot>>}

\* No path may lead out of the pack.
Refused(seg) == seg = <<Dot, Dot>>

NextSlash(path, i) ==
  LET j == SelectInSubSeq(path, i, Len(path), LAMBDA c : c = Slash)
  IN IF j = 0 THEN Len(path) + 1 ELSE j

\* Where the loop goes on after the slash at j.
Past(j) == j + 1

\* The segments are joined as they are found.
Joined(out, seg) == IF out = <<>> THEN seg ELSE out \o <<Slash>> \o seg

\* The loop, from position i on, where out has been made of what is before it.
Normalize(path) ==
  LET loop[st \in [i : 1..(Len(path) + 2), out : Seq(ToSet(path) \union {Slash})]] ==
        LET j == NextSlash(path, st.i)
            seg == SubSeq(path, st.i, j - 1)
        IN IF st.i > Len(path) THEN st.out
           ELSE IF Refused(seg) THEN <<>>
           ELSE loop[[i |-> Past(j), out |-> IF Dropped(seg) THEN st.out ELSE Joined(st.out, seg)]]
  IN loop[[i |-> 1, out |-> <<>>]]

-----------------------------------------------------------------------------
(* What a normal form is, by the places of its characters.                 *)

\* The segments of s, by the places they begin at and end at.
Begins(s) == {a \in 1..Len(s) : s[a] # Slash /\ (a = 1 \/ s[a - 1] = Slash)}
End(s, a) == CHOOSE b \in a..Len(s) :
               (\A c \in a..b : s[c] # Slash) /\ (b = Len(s) \/ s[b + 1] = Slash)
At(s, a) == SubSeq(s, a, End(s, a))

\* All segments but "." are kept, and the slash before each but the first.
Kept(s) == {a \in Begins(s) : At(s, a) # <<Dot>>}
Start(kept, a) == IF \E b \in kept : b < a THEN a - 1 ELSE a
Places(s) == LET kept == Kept(s) IN UNION {Start(kept, a)..End(s, a) : a \in kept}

\* The member of S with n - 1 below it.
Nth(S, n) == CHOOSE x \in S : Cardinality({y \in S : y <= x}) = n

\* What is kept of s, in its order, or nothing if there is a "..".
Normal(s) ==
  LET places == Places(s)
  IN IF \E a \in Begins(s) : At(s, a) = <<Dot, Dot>> THEN <<>>
     ELSE [n \in 1..Cardinality(places) |-> s[Nth(places, n)]]
=============================================================================
