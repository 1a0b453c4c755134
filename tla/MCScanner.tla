------------------------------ MODULE MCScanner -----------------------------
(* Short texts: all of three characters, the longer ones whose characters  *)
(* interact, and every keyword whole, cut short, and with a neighbour.     *)
EXTENDS Scanner

\* One character of each kind the rules tell apart.
Kinds == {" ", "\t", "\n", "\r", "'", "(", "*", "+", "-", ".", "/", "7", ";",
          "<", "=", ">", "Q", "a", "_", "#"}

\* The ones rules longer than two characters are made of.
Mixing == {" ", "\n", "'", "*", "-", ".", "/", "7", "a"}

Lower(w) == [i \in DOMAIN w |-> Lowers[CHOOSE k \in 1..26 : Uppers[k] = w[i]]]

KeywordTexts ==
  LET spelled == ToSet(Words) \cup {Lower(Words[i]) : i \in DOMAIN Words}
                   \cup {<<w[1]>> \o Tail(Lower(w)) : w \in ToSet(Words)}
  IN spelled \cup {Front(w) : w \in spelled}
       \cup {Append(w, c) : w \in spelled, c \in Kinds}
       \cup {<<c>> \o w : w \in spelled, c \in Kinds}

MCTexts == SeqOf(Kinds, 3) \cup [1..4 -> Mixing] \cup KeywordTexts

=============================================================================
