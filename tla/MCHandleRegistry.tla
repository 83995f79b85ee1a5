-------------------------- MODULE MCHandleRegistry --------------------------
(* Two well-formed names and one ill-formed in each way. *)
EXTENDS HandleRegistry, TLC

CONSTANTS a, b, c

Good == [id |-> 1, length |-> MinLen, startsWithDigit |-> FALSE,
         wellFormed |-> TRUE, reserved |-> FALSE]

MCNames ==
    {Good, [Good EXCEPT !.id = 2, !.length = MaxLen]} \cup
    {[Good EXCEPT !.length = MinLen - 1], [Good EXCEPT !.length = MaxLen + 1],
     [Good EXCEPT !.startsWithDigit = TRUE], [Good EXCEPT !.wellFormed = FALSE],
     [Good EXCEPT !.reserved = TRUE]}

MCGiftedNames == {Good}

MCFunds == [w \in Wallets |-> IF w = a THEN 9 ELSE IF w = b THEN 7 ELSE 1]
=============================================================================
