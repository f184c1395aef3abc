---------------------------- MODULE MCReleaseDesk ----------------------------
EXTENDS ReleaseDesk, TLC

CONSTANTS p1, m1

At(a, b, c) == 1 :> a @@ 2 :> b @@ 3 :> c
Etas     == {At(0, 1, 2), At(2, 2, 3)}
Aloft    == {{}, {1, 2}}
MCPictures == [eta : Etas, airborne : Aloft]
MCEnvironments ==
    {{"clear"}, {"clear", "feed", "airborne"}, {"stray", "set"}, {"overlap", "stray"},
     {"overlap", "clear"}, {"manual"}}
Reuse == {{"stray", "clear"}}
MCOrders == {<<2, 1>>}
=============================================================================
