----------------------------- MODULE MCCalendar -----------------------------
(* A walk for Calendar.                                                    *)
EXTENDS Calendar

\* Within the two digits of the RTC.
Century == {Date(2023, 11, 1)}
=============================================================================
