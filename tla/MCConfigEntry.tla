--------------------------- MODULE MCConfigEntry ---------------------------
(***************************************************************************)
(* Two entries, one of an old version and one that a user adds, each with  *)
(* one uuid of its own.                                                    *)
(***************************************************************************)
EXTENDS ConfigEntry, TLC

CONSTANTS e1, e2, u1, u2

MCEntries == {e1, e2}
MCUuids == {u1, u2}
MCKnown == (e1 :> {u1}) @@ (e2 :> {u2})
=============================================================================
