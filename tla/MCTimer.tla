------------------------------ MODULE MCTimer ------------------------------
EXTENDS Timer

\* timer_sleep() with a negative argument, next to a longer sleep.
WithNegative == {-1, 2}
=============================================================================
