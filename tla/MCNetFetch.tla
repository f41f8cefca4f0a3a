----------------------------- MODULE MCNetFetch -----------------------------
(***************************************************************************)
(* Instances of NetFetch for TLC: a journey of one request between two     *)
(* origins that say nothing of HTTP/3; and one at a third origin, over     *)
(* QUIC too, as time passes.                                               *)
(***************************************************************************)
EXTENDS NetFetch, TLC

CONSTANTS r1, w1, u1, u2, u3, s1, s2, s3, b1, b2

VARIABLE part

MCSite == u1 :> s1 @@ u2 :> s2 @@ u3 :> s3

Plain == [method |-> "GET", want |-> None, mode |-> "follow", creds |-> TRUE]

\* A page with cookies and a subresource with a declared hash, whose redirects are
\* followed; the same subresource with redirects returned, and a form.
MCAsks ==
  u1 :> {Plain, [Plain EXCEPT !.want = b1, !.creds = FALSE]} @@
  u2 :> {[Plain EXCEPT !.want = b1, !.mode = "manual", !.creds = FALSE],
         [Plain EXCEPT !.method = "POST"]} @@
  u3 :> {Plain}

Whole(b) == [body |-> b, to |-> None, same |-> FALSE]

\* What is declared is at the second address, to which the first may lead.
MCAnswers ==
  u1 :> {Whole(b2), [body |-> b1, to |-> u2, same |-> TRUE]} @@
  u2 :> {Whole(b1), [body |-> b2, to |-> Elsewhere, same |-> FALSE]} @@
  u3 :> {Whole(b1)}

-----------------------------------------------------------------------------
Start == part \in {"journey", "quic"} /\ Init

Step ==
  /\ Next /\ UNCHANGED part
  /\ \/ part = "journey" /\ loc'[r1].url # u3 /\ UNCHANGED http3
     \/ part = "quic" /\ loc'[r1].url \in {u3, None}

Fetching == Start /\ [][Step]_<<part, vars>>
=============================================================================
