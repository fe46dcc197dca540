------------------------------ MODULE TextEdits ------------------------------
(***************************************************************************)
(* The text operations the hosts apply an edit with: str::contains and     *)
(* str::replacen(old, new, 1), on texts that are sequences of fragments.   *)
(* An empty old text occurs in front of every text, as in Rust.            *)
(***************************************************************************)
EXTENDS Naturals, Integers, Sequences

(* old occurs in text behind its first i fragments.                        *)
OccursAt(text, old, i) ==
  /\ i + Len(old) <= Len(text)
  /\ \A k \in 1..Len(old) : text[i + k] = old[k]

Contains(text, old) == \E i \in 0..Len(text) : OccursAt(text, old, i)

FirstAt(text, old, i) ==
  /\ OccursAt(text, old, i)
  /\ \A j \in 0..i-1 : ~OccursAt(text, old, j)

(* text with n fragments behind the first i replaced by new.               *)
Splice(text, i, n, new) ==
  SubSeq(text, 1, i) \o new \o SubSeq(text, i + n + 1, Len(text))

(* result is text.replacen(old, new, 1), for a text that contains old.     *)
ReplacesFirst(text, old, new, result) ==
  \E i \in 0..Len(text) :
    /\ FirstAt(text, old, i)
    /\ result = Splice(text, i, Len(old), new)

(* A fragment stands somewhere in text.                                    *)
Holds(text, fragment) == \E k \in 1..Len(text) : text[k] = fragment

=============================================================================
