--------------------------- MODULE MCRecallEvidence ---------------------------
(* A small instance of RecallEvidence for TLC.                              *)
EXTENDS RecallEvidence, TLC

Words == {"quote", "quotation", "fill", "trade", "latency", "queue", "because", "confirm", "the"}
Groups == {{"quote", "quotation"}, {"fill", "trade"}}
Themes == {{"latency"}, {"queue"}, {"fill"}}

\* The reference of c1 repeats a concept, and that of c2 has more than are used;
\* the second edition asks for another concept of c1.
Editions ==
    <<[c1 |-> <<"the", "quote", "quote", "latency">>, c2 |-> <<"fill", "the", "quote", "queue">>],
      [c1 |-> <<"quote", "queue">>, c2 |-> <<"fill", "the", "quote", "queue">>]>>

Text(units, bytes, words, tokens, punctuated) ==
    [units |-> units, bytes |-> bytes, words |-> words, tokens |-> tokens,
     punctuated |-> punctuated]

\* A poor answer, one of three words, one with synonyms and the same at greater
\* length, a complete one, and one of 700 characters of two bytes.
Answers ==
    {Text(30, 30, 6, {"the"}, FALSE),
     Text(24, 24, 3, {"quote"}, FALSE),
     Text(90, 90, 14, {"quotation", "trade", "because"}, FALSE),
     Text(160, 160, 26, {"quotation", "trade", "because"}, FALSE),
     Text(200, 200, 30, {"quotation", "trade", "because", "latency", "confirm", "fill"}, TRUE),
     Text(700, 1400, 60, {"quote"}, FALSE)}

LegacyAttempt ==
    [id |-> 0, result |->
        [card |-> "c1", text |-> Text(30, 30, 6, {"the"}, FALSE), rubric |-> 1,
         words |-> 6, coverage |-> 40, structure |-> 20, specificity |-> 10, score |-> 70,
         verdict |-> "developing", resolved |-> FALSE, matched |-> <<>>, missing |-> <<>>]]
=============================================================================
