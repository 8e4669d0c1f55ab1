-------------------------------- MODULE MCFeed --------------------------------
EXTENDS Feed

P(seq, token) == [seq |-> seq, kind |-> "message", token |-> token]
Broken == [seq |-> 1, kind |-> "broken", token |-> 1]
Unsupported == [seq |-> 1, kind |-> "unsupported", token |-> 1]

MCSetup ==
  LET S(sent, known, single) == [sent |-> sent, known |-> known, single |-> single]
      two == <<P(2, 1), P(1, 2)>>
  IN { S(<<P(2, 1), P(1, 2), P(2, 2)>>, two, FALSE),        \* out of order, a number twice
       S(<<P(1, 3), Broken, P(2, 0), P(3, 2)>>, two, FALSE),  \* an unknown token, and token 0
       S(<<P(3, 1), P(2, 2), P(1, 1)>>, two, TRUE),         \* a single security
       S(<<P(1, 1), Unsupported>>, two, FALSE),
       S(two, <<P(1, 1), Unsupported>>, FALSE),
       S(two, two \o <<P(3, 3)>>, FALSE) }                  \* too many books
=============================================================================
