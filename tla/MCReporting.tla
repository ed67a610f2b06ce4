----------------------------- MODULE MCReporting -----------------------------
(***************************************************************************)
(* Reporting for TLC.                                                      *)
(***************************************************************************)
EXTENDS Reporting, TLC

CONSTANTS a, b, i1, bad, c1, c2

-----------------------------------------------------------------------------
(* Two services; image i1 is accepted, bad is refused.  Images and           *)
(* attachments change by commits and by hand, services come and go.          *)

Of(image, att) == [image |-> image, att |-> att]
Rows(x, y) == (a :> x) @@ (b :> y)
Branch == {Rows(Of(i1, c1), Of(i1, c1)), Rows(Of(bad, c1), Of(i1, c1)),
           Rows(Of(i1, c2), None)}
=============================================================================
