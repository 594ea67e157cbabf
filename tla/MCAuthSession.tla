---------------------------- MODULE MCAuthSession ----------------------------
EXTENDS AuthSession, TLC

CONSTANTS left, right, r1, r2, r3

\* Two requests of one tab and one of another.
TwoAndOne == (r1 :> left @@ r2 :> left @@ r3 :> right)
=============================================================================
