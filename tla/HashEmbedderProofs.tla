------------------------- MODULE HashEmbedderProofs -------------------------
(* Which texts tokenize() comes to an end with, for every limit of strings. *)
EXTENDS HashEmbedder, SequenceTheorems, TLAPS

\* The loop never catches up with the array: it is as far from its end as the
\* text has words.
Chase ==
  /\ words \in Nat /\ i \in Nat
  /\ tokens \in Seq(Nat) /\ Len(tokens) = words + i
  /\ status \in {"loop", "done", "thrown"}
  /\ words <= 1 => i = 0

\* It ends where there is no pair of words, and is thrown out of it where there
\* is one.
EndsByWords == (status = "done" => words <= 1) /\ (status = "thrown" => words > 1)

LEMMA InitChase == Init => Chase /\ EndsByWords
<1> SUFFICES ASSUME Init PROVE Chase /\ EndsByWords
  OBVIOUS
<1>1. words \in Nat
  BY DEF Init
<1>2. tokens \in Seq(Nat) /\ Len(tokens) = words
  BY <1>1 DEF Init
<1>3. QED
  BY <1>1, <1>2 DEF Init, Chase, EndsByWords

LEMMA StepChase == Chase /\ EndsByWords /\ [Next]_vars => (Chase /\ EndsByWords)'
<1> SUFFICES ASSUME Chase, EndsByWords, [Next]_vars PROVE (Chase /\ EndsByWords)'
  OBVIOUS
<1>1. CASE Push
  <2>1. words > 1
    BY <1>1 DEF Push, Chase
  <2>2. CASE status' = "thrown"
    BY <1>1, <2>1, <2>2 DEF Push, Chase, EndsByWords
  <2>3. CASE status' # "thrown"
    <3>1. tokens' = Append(tokens, Bigram) /\ i' = i + 1 /\ status' = status /\ words' = words
      BY <1>1, <2>3 DEF Push
    <3>2. Bigram \in Nat
      BY <1>1 DEF Push, Chase, Bigram
    <3>3. tokens' \in Seq(Nat) /\ Len(tokens') = Len(tokens) + 1
      BY <3>1, <3>2, AppendProperties DEF Chase
    <3>4. QED
      BY <2>1, <3>1, <3>3 DEF Chase, EndsByWords
  <2>4. QED
    BY <2>2, <2>3
<1>2. CASE End
  BY <1>2 DEF End, Chase, EndsByWords
<1>3. CASE UNCHANGED vars
  BY <1>3 DEF vars, Chase, EndsByWords
<1>4. QED
  BY <1>1, <1>2, <1>3 DEF Next

\* The embedding of a text of two words or more never comes to a good end,
\* whatever the longest string of the engine: the loop appends a bigram for each
\* pair it has passed, so that only an error ends it.  That of any other text is
\* never thrown out of the loop.
THEOREM OnlyPairlessTextsResolve == Spec => []EndsByWords
BY InitChase, StepChase, PTL DEF Spec
=============================================================================
