------------------------- MODULE MC_ClusterDefaults -------------------------
(* Memory requests on both sides of every tier boundary (1, 4, 8, 16 GiB), *)
(* one inside each tier, and an odd size for the truncating products.      *)
EXTENDS ClusterDefaults

MC_MemValues ==
  {512 * MB, GB - 1, GB, 2 * GB, 4 * GB, 4 * GB + 1, 6 * GB, 8 * GB,
   8 * GB + 1, 16 * GB, 16 * GB + 1, 32 * GB}

=============================================================================
