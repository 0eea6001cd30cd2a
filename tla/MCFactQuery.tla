----------------------------- MODULE MCFactQuery -----------------------------
(* Programs of facts on which TLC checks FactQuery. *)
EXTENDS FactQuery, TLC

CONSTANTS fa, fb, fc, fd, r1, r2, r3, h1

\* Requests at fa and at fb.
OuterRoots == (r1 :> fa) @@ (r2 :> fb)

\* fa and fb need each other.
Mutual == (fa :> <<fb>>) @@ (fb :> <<fa>>)

\* fa needs fb, fb needs fc, fc needs fa; requested at fa and fc.
Ring == (fa :> <<fb>>) @@ (fb :> <<fc>>) @@ (fc :> <<fa>>)
RingRoots == (r1 :> fa) @@ (r2 :> fc)

\* fa requests fb twice, in parallel lanes; fb needs fc.
Twin == (fa :> <<fb, fb>>) @@ (fb :> <<fc>>) @@ (fc :> <<>>)

\* The parallel lanes of fa meet at fb, and two other facts need fa.
Crowd == (fa :> <<fb, fb>>) @@ (fb :> <<>>) @@ (fc :> <<fa>>) @@ (fd :> <<fa>>)
CrowdRoots == (r1 :> fa) @@ (r2 :> fc) @@ (r3 :> fd)

\* fa requests fb and fc in parallel lanes, fb needs fa.
Loop == (fa :> <<fb, fc>>) @@ (fb :> <<fa>>) @@ (fc :> <<>>)
=============================================================================
