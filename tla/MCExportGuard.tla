---------------------------- MODULE MCExportGuard ----------------------------
(***************************************************************************)
(* The environments of the runs of ExportGuard.                            *)
(***************************************************************************)
EXTENDS ExportGuard

Env(refusable, toggles, kills) ==
  [refusable |-> refusable, toggles |-> toggles, kills |-> kills]

\* A house where only the process dies, and one where everything goes wrong at once.
CalmAndFaulty ==
  {Env({}, {}, {"tick", "dispatch"}),
   Env({"limit", "release"}, {"guard", "observer"}, {"tick", "dispatch", "persist"})}

RefusedReleases == {Env({"release"}, {}, {})}
GuardSwitch == {Env({}, {"guard"}, {})}
=============================================================================
