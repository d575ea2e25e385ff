---------------------------- MODULE DeletionList ----------------------------
(***************************************************************************)
(* The .spkdel file of an update pack: the loop of Pack::merge             *)
(* (src/src/pack.cpp) that reads the paths to delete from its lines, for a *)
(* file that the diff command (src/cli/main.cpp) wrote and for one written *)
(* by hand.  What it deletes for one line of diff is the constant ReadBack *)
(* of Overlay.                                                             *)
(***************************************************************************)
EXTENDS PathName

CONSTANTS
  Newline, Blank,  \* Blank is a space, a tab or a carriage return
  Hash,
  Other,           \* the rest of the characters
  MaxLen,          \* bound: the length of a file written by hand
  MaxName,         \* bound: the length of a path of the pack
  MaxNames,        \* bound: the paths that diff found deleted
  ByHand           \* the value of names for a file written by hand

Char == {Slash, Dot, Newline, Blank, Hash} \union Other

ASSUME DeletionListAssumption ==
  /\ {Slash, Dot, Newline, Blank, Hash} \intersect Other = {}
  /\ \A c, d \in 1..5 : c # d =>
       <<Slash, Dot, Newline, Blank, Hash>>[c] # <<Slash, Dot, Newline, Blank, Hash>>[d]
  /\ MaxLen \in Nat /\ MaxName \in Nat /\ MaxNames \in Nat

VARIABLES
  names,   \* the paths that diff found deleted, in their order
  text,    \* the file
  start,   \* where the next line begins
  dels     \* the paths that del was to delete

listVars == <<names, text, start, dels>>

\* Faulty variants, each a bug one could write.
LeftTrimmed(line) ==
  LET b == SelectInSeq(line, LAMBDA c : c # Blank)
  IN IF b = 0 THEN <<>> ELSE SubSeq(line, b, Len(line))
TwoAfter(nl) == nl + 2
OnTheNewline(nl) == nl

\* The paths a pack may have.
Name == {Normalize(s) : s \in BoundedSeq(Char, MaxName)} \ {<<>>}

\* What diff writes: each path and a newline.
Written(ns) == FlattenSeq([k \in DOMAIN ns |-> Append(ns[k], Newline)])

\* Whether there is another line; an empty one follows a newline at the end.
More == start <= Len(text) + 1

LineEnd == LET nl == SelectInSubSeq(text, start, Len(text), LAMBDA c : c = Newline)
           IN IF nl = 0 THEN Len(text) + 1 ELSE nl

\* Where the line after the one that ends at nl begins.
NextLine(nl) == nl + 1

\* A line without the blanks at its edges.
Trimmed(line) ==
  LET b == SelectInSeq(line, LAMBDA c : c # Blank)
      e == SelectLastInSeq(line, LAMBDA c : c # Blank)
  IN IF b = 0 THEN <<>> ELSE SubSeq(line, b, e)

\* del normalizes the path it is given; an empty one names no file.
Line ==
  /\ More
  /\ start' = NextLine(LineEnd)
  /\ \E entry \in {Trimmed(SubSeq(text, start, LineEnd - 1))} :
       dels' = IF entry = <<>> \/ entry[1] = Hash THEN dels
               ELSE dels \union ({Normalize(entry)} \ {<<>>})
  /\ UNCHANGED <<names, text>>

ListInit ==
  /\ \/ /\ names \in BoundedSeq(Name, MaxNames)
        /\ text = Written(names)
     \/ /\ names = ByHand
        /\ text \in BoundedSeq(Char, MaxLen)
  /\ start = 1 /\ dels = {}

ListSpec == ListInit /\ [][Line]_listVars

-----------------------------------------------------------------------------
(* Properties.                                                             *)

\* normalize_path computes the normal form of any string, here of every text; and a
\* name that it gave, such as list returns, names the same file when it is given to
\* another call.
NormalName == ~ More => LET name == Normalize(text) IN name = Normal(text) /\ Normalize(name) = name

\* A part of one line that begins and ends with the first and the last of the
\* line's characters that are not blank.
Entry(a, b) ==
  /\ text[a] # Blank /\ text[b] # Blank
  /\ \A c \in a..b : text[c] # Newline
  /\ \E l \in 0..(a - 1) : (l = 0 \/ text[l] = Newline) /\ \A c \in (l + 1)..(a - 1) : text[c] = Blank
  /\ \E r \in (b + 1)..(Len(text) + 1) :
       (r = Len(text) + 1 \/ text[r] = Newline) /\ \A c \in (b + 1)..(r - 1) : text[c] = Blank

\* Every line names one path, blanks at its edges apart, and blank lines and
\* comments name none (the comment above kMergeDelList).
DelsAreTheEntries ==
  ~ More => dels = {Normal(SubSeq(text, x[1], x[2])) : x \in
              {y \in (1..Len(text)) \X (1..Len(text)) :
                 y[1] <= y[2] /\ Entry(y[1], y[2]) /\ text[y[1]] # Hash}} \ {<<>>}

\* A path that its line gives back: no newline in it, no blank at its edges, and
\* no # at its beginning.
Plain(n) == /\ \A c \in DOMAIN n : n[c] # Newline
            /\ n[1] \notin {Blank, Hash} /\ n[Len(n)] # Blank

\* A list of plain paths of a pack is read back as it was, which is what the
\* theorem DiffAndMerge of OverlayProofs assumes of ReadBack.
PlainNamesSurvive ==
  names # ByHand /\ ~ More /\ (\A n \in ToSet(names) : Plain(n)) => dels = ToSet(names)

=============================================================================
