-------------------------- MODULE MCCngApplication --------------------------
EXTENDS CngApplication, TLC

CONSTANTS h1, h2, p1, p2, d1, d2

\* The requests about the applicant's number: few enough operations to let
\* many of them interleave.
PhoneOperations == {"personal", "otp", "verify"}

\* What is asked for: one package and plan, and three of them, whose payments are
\* rounded up, rounded down and not made.
OneChoice == {<<"B", "bronze">>}
SomeChoices == {<<"A", "bronze">>, <<"B", "bronze">>, <<"C", "full">>}

\* Nothing in a request depends on its slot, nor on a number but by equality.
Symmetry == Permutations(Handler) \cup Permutations(Phone)
=============================================================================
