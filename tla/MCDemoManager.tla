--------------------------- MODULE MCDemoManager ---------------------------
\* Two server threads; a book with a row to spare, which fills its entry and
\* has numbers between two that the database keeps, and one of an unknown
\* security, with more bids than its half holds and an ask below them.
EXTENDS DemoManager

Row(p, v) == [price |-> p, volume |-> v]
full == [security |-> 1, timestamp |-> 6,
         rows |-> <<Row(13, -9), Row(22, 0), Row(18, -4), Row(2, 11), Row(7, 5)>>]

odd == [security |-> 3, timestamp |-> 8,
        rows |-> <<Row(16, 4), Row(8, -4), Row(12, 8), Row(4, 1)>>]

MCBooks == {full, odd}
MCRefused == {odd}
MCAlias == 1 :> 2 @@ 2 :> 2

=============================================================================
