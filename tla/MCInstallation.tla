---------------------------- MODULE MCInstallation ----------------------------
EXTENDS Installation, TLC

Symmetry == Permutations(Human) \cup Permutations(Decision)

\* The sites share nothing: once the copy is in place, the live site rests.
OneSiteAtATime ==
  Online("copy") =>
    /\ db["live"].revision = archive.revision
    /\ db["live"].sessions = archive.sessions
    /\ db["live"].reviews = archive.reviews
    /\ db["live"].execution = archive.execution
    /\ executing["live"] = None
    /\ listed["live"] = None
===============================================================================
