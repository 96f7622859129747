-------------------------- MODULE MCChromeProfiles --------------------------
EXTENDS ChromeProfiles, TLC

CONSTANTS r1, r2, r3, p1, p2

MCProcessOf == r1 :> p1 @@ r2 :> p1 @@ r3 :> p2
=============================================================================
