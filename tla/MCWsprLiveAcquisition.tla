----------------------- MODULE MCWsprLiveAcquisition -----------------------
(* Instances of WsprLiveAcquisition: two cycles and four rows. *)
EXTENDS WsprLiveAcquisition

Sound(id, print, time, from, until) ==
  [id |-> id, print |-> print, time |-> time, band |-> Band, tuned |-> Band,
   call |-> "transmit", code |-> "wspr-2", sound |-> TRUE, from |-> from, until |-> until]

\* The first cycle's spot, which the provider replaces later under the same
\* identity; another of it that comes late; and one of the second cycle, whose
\* time is also within the window of the first.
Spots ==
  <<Sound(1, "a", 0, 1, 7), Sound(1, "b", 0, 7, 99), Sound(2, "c", 0, 7, 99),
    Sound(3, "d", 2, 3, 99)>>

\* Rows that are no evidence: unreadable, of another mode, of no band known
\* here, of the other direction, off its band, and out of the window.
Noise ==
  <<[Sound(11, "n", 0, 0, 99) EXCEPT !.sound = FALSE],
    [Sound(12, "n", 0, 0, 99) EXCEPT !.code = "fst4w"],
    [Sound(13, "n", 0, 0, 99) EXCEPT !.band = "unknown"],
    [Sound(14, "n", 0, 0, 99) EXCEPT !.call = "receive"],
    [Sound(15, "n", 0, 0, 99) EXCEPT !.call = "both"],
    [Sound(16, "n", 0, 0, 99) EXCEPT !.tuned = "40m"]>>

SomeRows == Noise \o Spots

Heard(time) == [sound |-> TRUE, time |-> time, band |-> Band, reporter |-> "r", heard |-> 1, decoded |-> 1]
TwoReporters == <<Heard(0), Heard(2)>>
=============================================================================
