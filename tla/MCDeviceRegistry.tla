------------------------- MODULE MCDeviceRegistry -------------------------
(* A small instance of DeviceRegistry for TLC. *)
EXTENDS DeviceRegistry, TLC

CONSTANTS d1, d2, d3, i1, i2, bridge, b1, b2, k1, k2, k3

MCDeviceIds == {d1, d2, d3}
MCInstalls  == {i1, i2, bridge}
MCBindings  == {b1, b2}
MCKeys      == {k1, k2, k3}

Symmetry == Permutations(MCDeviceIds) \cup Permutations({i1, i2})
              \cup Permutations(MCBindings) \cup Permutations(MCKeys)
=============================================================================
