---------------------------- MODULE HashEmbedder ----------------------------
(***************************************************************************)
(* tokenize() of the embedder the ingestor runs with: the words of a text, *)
(* then a loop that appends bigrams.  Only the length of a token matters   *)
(* here: a bigram is its two parts and an underscore, and the engine       *)
(* throws when a string would pass its maximal length.                     *)
(***************************************************************************)
EXTENDS Naturals, Sequences

CONSTANTS
  MaxWords,       \* bound of the model: words of a text
  MaxString       \* the longest string of the engine

VARIABLES
  tokens,         \* the lengths of the tokens
  words,          \* how many of them the text has brought
  i,
  status          \* "loop", "done", "thrown"

vars == <<tokens, words, i, status>>

\* split(/\s+/), without the empty parts: some words of one letter.
Init ==
  /\ words \in 0 .. MaxWords
  /\ tokens = [k \in 1 .. words |-> 1]
  /\ i = 0
  /\ status = "loop"

\* tokens[i]_tokens[i + 1], counted from 0.
Bigram == tokens[i + 1] + 1 + tokens[i + 2]

\* The loop looks at the length of the array it appends to.
Push ==
  /\ status = "loop"
  /\ i + 1 < Len(tokens)
  /\ IF Bigram <= MaxString
       THEN tokens' = Append(tokens, Bigram) /\ i' = i + 1 /\ UNCHANGED status
       ELSE status' = "thrown" /\ UNCHANGED <<tokens, i>>
  /\ UNCHANGED words

End ==
  /\ status = "loop"
  /\ i + 1 >= Len(tokens)
  /\ status' = "done"
  /\ UNCHANGED <<tokens, words, i>>

Next == Push \/ End

Spec == Init /\ [][Next]_vars
-----------------------------------------------------------------------------
\* embed() of a short text resolves: it never asks for a string that is too
\* long, since a bigram of two words has the length of both.
EmbedResolves == status # "thrown"
=============================================================================
