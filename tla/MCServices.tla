------------------------------ MODULE MCServices ------------------------------
EXTENDS Services

\* Months of four, two, three, three days and one: every case of a short month.
MCDays == <<4, 2, 3, 3, 1>>
MCClock == 0..12
===============================================================================
