------------------------------ MODULE MCHttpApi ------------------------------
(* A small instance of HttpApi.                                              *)
EXTENDS HttpApi, TLC

CONSTANTS w1, w2, i1, i2

\* Two of the four bots have one collection name: t_a__b_a__b_a.
MCSlugs == {<<"a">>, <<"a", "a">>}
short == <<"a">>
long  == <<"a", "a">>

Ask(kind, id, t, b, input) ==
    [kind |-> kind, id |-> id, scope |-> [tenant |-> t, bot |-> b], input |-> input]

MCRequests ==
    {Ask("upload", i1, short, long, "good"), Ask("upload", i2, long, short, "good"),
     Ask("upload", i1, short, short, "bad_slug"), Ask("upload", i2, short, short, "malformed"),
     Ask("delete", i1, short, long, "good"),
     Ask("search", i2, short, short, "good"), Ask("search", i1, short, short, "bad_body"),
     Ask("healthz", i1, short, short, "good"), Ask("static", i2, short, short, "good"),
     Ask("refused", i1, short, short, "good"), Ask("slashless", i2, short, short, "good")}

MCWorkerSymmetry == Permutations(Workers)

=============================================================================
