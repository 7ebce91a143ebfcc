----------------------------- MODULE MapObject -----------------------------
(***************************************************************************)
(* What a map object promises to the threads that share it: it is given its *)
(* entries once, keeps them for as long as anyone has it, and answers every  *)
(* call from them, in whatever order the calls come.                        *)
(***************************************************************************)
EXTENDS Naturals, Sequences

CONSTANT NotFound       \* the word that stands for a missing key

VARIABLES
  verifies,     \* whether the class tells a missing key from a stored one
  content,      \* its state, "unset", "map" or "gone", and its entries: <<text, word>>
  reply         \* what a call answers: what it says, of which text, with which word

vars == <<verifies, content, reply>>

(* A call that says nothing about the entries. *)
IsQuiet(r) == r.what = "quiet"

(* What may be said of a map: that a text has a word, that a text is missing, *)
(* that it is there, or how many entries there are.  Only a class that        *)
(* verifies says of a text that it is there or missing, and it takes a stored  *)
(* word that is all ones for a missing one.                                   *)
Right(entries, r) ==
  LET has(text, word) == \E k \in DOMAIN entries : entries[k] = <<text, word>>
      found(text) == \E k \in DOMAIN entries : entries[k][1] = text /\ entries[k][2] # NotFound
      stored(text) == \E k \in DOMAIN entries : entries[k][1] = text
  IN \/ IsQuiet(r)
     \/ r.what = "word" /\ (has(r.text, r.word) \/ (~ verifies /\ ~ stored(r.text)))
     \/ r.what \in {"KeyError", "default", "false"} /\ verifies /\ ~ found(r.text)
     \/ r.what = "true" /\ verifies /\ found(r.text)
     \/ r.what = "length" /\ r.word = Len(entries)

Init ==
  /\ verifies \in BOOLEAN
  /\ content.state = "unset"
  /\ IsQuiet(reply)

Fill ==
  /\ content.state = "unset"
  /\ content'.state = "map"
  /\ IsQuiet(reply')

Lose ==
  /\ content.state # "gone"
  /\ content'.state = "gone"
  /\ IsQuiet(reply')

Answer ==
  /\ content.state = "map"
  /\ Right(content.entries, reply')
  /\ UNCHANGED content

KeepQuiet ==
  /\ IsQuiet(reply')
  /\ UNCHANGED content

Next == (Fill \/ Lose \/ Answer \/ KeepQuiet) /\ UNCHANGED verifies

Spec == Init /\ [][Next]_vars
=============================================================================
