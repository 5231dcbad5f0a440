----------------------------- MODULE MCSession -----------------------------
(* An instance of Session for TLC: a short request, a fragmented one (as    *)
(* ReportStats is), and a short one again.                                  *)
EXTENDS Session

ThreeRequests == <<1, 3, 1>>

=============================================================================
