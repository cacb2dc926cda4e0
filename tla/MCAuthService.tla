--------------------------- MODULE MCAuthService ---------------------------
(***************************************************************************)
(* A small instance of AuthService for TLC.                                *)
(***************************************************************************)
EXTENDS AuthService, TLC

CONSTANTS r1, r2, r3, r4, e1

Enter(ops) == [op : ops, email : {e1}, by : {r1}]

Present(by) == [op : Ops \ {"register", "login"}, email : {e1}, by : by]

\* r1 registers; a second registration or login; two requests of any kind that
\* present the tokens of r1 or r2, and of r3.  What an ask says beyond what its
\* kind reads is fixed.
MCAsks ==
    {(r1 :> a) @@ (r2 :> b) @@ (r3 :> c) @@ (r4 :> d) :
        a \in Enter({"register"}),
        b \in Enter({"register", "login"}),
        c \in Enter({"login"}) \cup Present({r1}),
        d \in Enter({"login"}) \cup Present({r1, r2, r3})}

=============================================================================
